SPECIFICATION SiteSpec
CONSTANTS
  v1 = v1
  v2 = v2
  p1 = p1
  p2 = p2
  k1 = k1
  k2 = k2
  None = None
  Visitors = {v1, v2}
  Proofs = {p1, p2}
  BadProofs = {p2}
  Keys = {k1, k2}
  Asks <- EveryAsk
  Sites <- EverySite
  PluginAsks <- EveryPluginAsk
  SessionTTL = 1
  RangeTTL = 1
  KeyTTL = 1
  MaxTime = 2
  MaxChanges = 1
  MaxFaults = 1
INVARIANTS ContentIsEarned IdentityIsRecent BodyIsEarned
PROPERTIES PaidIsServed HumanReads
CHECK_DEADLOCK FALSE
