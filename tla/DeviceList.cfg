\* Two devices whose names may clash, two workers, timer, refresh and a reader.
SPECIFICATION Spec
CONSTANTS
  d1 = d1  d2 = d2  d3 = d3
  n1 = n1  n2 = n2  n3 = n3  n4 = n4
  w1 = w1  w2 = w2
  r1 = r1
  Device = {d1, d2}
  Leaver = {}
  Base <- TvBases
  Node = {n1, n2, n3}
  MaxAge = {3}
  Incr = 2
  Worker = {w1, w2}
  Reader = {r1}
  Timer = Timer
  User = User
  Nobody = Nobody
  NoNode = NoNode
  NoDevice = NoDevice
  NoEvent = NoEvent
SYMMETRY NodeSymmetry
INVARIANTS UniqueIds UniqueNames OneOwner CalledIsListed ObserverExact
PROPERTIES ExpiryIsAnnounced ImplementsDirectory
