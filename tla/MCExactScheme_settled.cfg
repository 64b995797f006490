SPECIFICATION Spec
CONSTANTS
  Amounts = {1, 2}
  Clients = {"custodial", "session", "foreign"}
  Calls = {c1, c2}
  NSigners = 1
  Timeout = 3
  LedgerSeconds = 2
  Estimates = {1, 3}
  MaxLag = 1
  Tolerance = 2
  SessionWindow = 8
  Networks = {"testnet", "pubnet"}
  CloseSeconds = 1
  MinFee = 2
  BaseFee = 1
  MaxFee = 4
  SessionFee = 6
  MaxPayloads = 1
  MaxTime = 5
  MaxFaults = 1
  None = None
CHECK_DEADLOCK FALSE
INVARIANT SettledIsPaid
PROPERTY NotGivenUpEarly
INVARIANT CustodialAccepted
SYMMETRY CallsAreAlike
