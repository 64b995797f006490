SPECIFICATION RedisSpec
CONSTANTS
  Instances = {i1, i2}
  Keys = {k1}
  MarkerTtl = 3
  LockTtl = 3
  AcquireTimeout = 4
  HoldLimit = 2
  NoToken = NoToken
  Other = Other
  MaxRequests = 4
  MaxCrashes = 1
INVARIANTS BoundedHoldsExclude
PROPERTIES RequestsEnd
CHECK_DEADLOCK FALSE
