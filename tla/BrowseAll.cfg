\* Up to five objects, two of them containers, two that are refused.
SPECIFICATION CollectSpec
CONSTANTS
  o1 = o1  o2 = o2  o3 = o3  o4 = o4  o5 = o5
  Object = {o1, o2, o3, o4, o5}
  Container = {o1, o2}
  Malformed = {o2, o5}
  MaxRetry = 2
INVARIANTS FirstObjects
PROPERTIES ShortOnlyIfRefused
\* The call returns.
CHECK_DEADLOCK FALSE
