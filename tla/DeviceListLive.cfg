\* Eventual forgetting and release of the mutex, under fairness.
SPECIFICATION FairSpec
CONSTANTS
  d1 = d1  d2 = d2  d3 = d3
  n1 = n1  n2 = n2  n3 = n3  n4 = n4
  w1 = w1  w2 = w2
  r1 = r1
  Device = {d1}
  Leaver = {d1}
  Base <- OneBase
  Node = {n1, n2}
  MaxAge = {1, 3}
  Incr = 2
  Worker = {w1, w2}
  Reader = {r1}
  Timer = Timer
  User = User
  Nobody = Nobody
  NoNode = NoNode
  NoDevice = NoDevice
  NoEvent = NoEvent
PROPERTIES GoneIsForgotten LockReleased
