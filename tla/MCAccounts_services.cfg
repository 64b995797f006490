SPECIFICATION AccountsSpec
CONSTANTS
  c1 = c1
  c2 = c2
  c3 = c3
  e1 = e1
  e2 = e2
  f1 = f1
  f2 = f2
  Null = Null
  Emails = {e1, e2}
  Tasks = {c1, c2, c3}
  Tokens = {1, 2, 3, 4}
  Flows = {f1, f2}
  Scenes <- EveryScene
  Screen = TRUE
  TokenTTL = 0
  ChallengeTTL = 0
  TrustedAt = 1
  RiskyAt = 1
  PowDifficulty = 18
  MinPow = 12
  MaxPow = 26
INVARIANTS AccessIsDecided ConnectedIsEntitled TierIsInformed
PROPERTIES CanVerify
CHECK_DEADLOCK FALSE
