SPECIFICATION Spec
CONSTANTS
  u1 = u1
  u2 = u2
  d1 = d1
  d2 = d2
  w1 = w1
  w2 = w2
  c1 = c1
  c2 = c2
  None = None
  Users = {u1, u2}
  Domains = {d1, d2}
  Wallets = {w1, w2}
  Handshakes = {h1}
  Nonces = {n1}
  Calls = {c1, c2}
  Fees = {3}
  DefaultPrice = 2
  DefaultFee = 1
  MaxCalls = 4
  Changes <- MCChanges
  Offers <- MCOffers
INVARIANTS VerifiedIsProved MirrorsAreVerifiedRows
SYMMETRY Sym
CHECK_DEADLOCK FALSE
