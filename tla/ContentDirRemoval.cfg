\* The device leaves while a result is in use.
SPECIFICATION Spec
CONSTANTS
  r1 = r1  r2 = r2
  k1 = k1  k2 = k2
  v1 = v1  v2 = v2  v3 = v3
  Reader = {r1, r2}
  Nobody = Nobody
  Key = {k1, k2}
  NoKey = NoKey
  Data = {v1, v2, v3}
  Null = Null
  MaxAge = 1
  CleanPeriod = 1
  Horizon = 3
  Quiet = FALSE
INVARIANTS ResultUsable
\* Nothing is left to do when the device is gone and the clock at its bound.
CHECK_DEADLOCK FALSE
