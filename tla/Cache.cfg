\* Three keys; the clock runs past several lifetimes and cleaning periods.
SPECIFICATION Spec
CONSTANTS
  k1 = k1  k2 = k2  k3 = k3
  v1 = v1  v2 = v2  v3 = v3
  Key = {k1, k2, k3}
  NoKey = NoKey
  Data = {v1, v2, v3}
  Null = Null
  MaxAge = 2
  CleanPeriod = 1
  Horizon = 7
SYMMETRY CacheSymmetry
INVARIANTS ServedFresh SlotLive Accounted
PROPERTIES GarbageBounded
