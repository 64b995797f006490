SPECIFICATION FairSpec
CONSTANTS
  c1 = c1
  c2 = c2
  p1 = p1
  p2 = p2
  Nothing = Nothing
  Clients = {c1, c2}
  Payments = {p1, p2}
  BadPayments = {p2}
  Asks <- PayAsks
  TTL = 1
  LookupTime = 1
  MaxNow = 2
  MaxChanges = 1
  MaxFaults = 1
INVARIANTS ConfigIsRecent
PROPERTIES PaidIsServed
CHECK_DEADLOCK FALSE
