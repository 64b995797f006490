SPECIFICATION Spec
CONSTANTS
  Domains = {d1}
  Accounts = {alice, bob}
  Deposits = {n1, n2}
  Amounts = {0, 1, 2, 3}
  Platform = Platform
  Keeper = Keeper
  Treasury = Treasury
  Contract = Contract
  Funds = 4
  FeeAtomic = 1
  None = None
INVARIANTS PriceCoversFee PoolIsDeposits
PROPERTIES RecipientConsents DebitsAreSigned
SYMMETRY Symmetry
