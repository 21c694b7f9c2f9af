\* Three threads, two devices, one of which has equal control and event URLs.
SPECIFICATION Spec
CONSTANTS
  w1 = w1  w2 = w2  w3 = w3
  d1 = d1  d2 = d2
  Worker = {w1, w2, w3}
  Nobody = Nobody
  Device = {d1, d2}
  NoDevice = NoDevice
  ControlURL <- MixedControl
  EventURL <- MixedEvent
  MaxSid = 3
SYMMETRY WorkerSymmetry
INVARIANTS NoOrphan
PROPERTIES EventsApplied
