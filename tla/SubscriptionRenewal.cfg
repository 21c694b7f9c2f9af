\* The usual case: control and event URLs are different.
SPECIFICATION Spec
CONSTANTS
  w1 = w1  w2 = w2  w3 = w3
  d1 = d1  d2 = d2
  Worker = {w1, w2, w3}
  Nobody = Nobody
  Device = {d1, d2}
  NoDevice = NoDevice
  ControlURL <- PlainControl
  EventURL <- PlainEvent
  MaxSid = 2
SYMMETRY WorkerSymmetry
INVARIANTS SidKnown
