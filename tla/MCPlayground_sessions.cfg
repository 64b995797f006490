SPECIFICATION FairSpec
CONSTANTS
  None = None
  Visitors = {1, 2}
  Chats = {1, 2}
  Plans <- LookAndPay
  PoolSize = 1
  MaxSessions = 1
  DailyCap = 1
  Funds = 2
  Attempts = 2
  MaxIters = 1
  MaxWallets = 3
  MaxDays = 1
  MaxFaults = 1
INVARIANTS NobodyInherits WalletsAreFunded HistoryIsWhole IdlePagesAreCurrent
PROPERTIES TurnsEnd
CHECK_DEADLOCK FALSE
