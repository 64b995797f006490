SPECIFICATION FairSpec
CONSTANTS
  p1 = p1
  p2 = p2
  p3 = p3
  p4 = p4
  Payments = {p1, p2, p3, p4}
  Runs = {r1, r2}
  Kind <- EachKind
  Amount <- Amounts
  Register = Register
  None = None
  MaxRegistrations = 1
  MaxRestarts = 1
INVARIANTS DistributionBacked SuccessMeansSettled
PROPERTIES PromiseKept RunsEnd
CHECK_DEADLOCK FALSE
