SPECIFICATION Spec
CONSTANTS
  Users = {u1}
  Keys = {visitor, internal}
  Visitors = {visitor}
  Server = server
  EarlyAccessTTL = 2
  SessionTTL = 1
  Requests = {r1, r2}
  Playground = playground
  MaxSessions = 1
  MaxPays = 1
  MaxChanges = 2
  MaxFaults = 1
  MaxTime = 2
  None = None
CHECK_DEADLOCK FALSE
INVARIANT PayerIsCaller
INVARIANT CutOnlyWhenLong
PROPERTY WithdrawalTakesEffect
SYMMETRY RequestsAreAlike
CONSTRAINT UsersOverlap
