SPECIFICATION Spec
CONSTANTS
  alice = alice
  bob = bob
  a = a
  b = b
  k = k
  Resources = {a, b}
  Keys = {k}
  Accounts = {alice, bob}
  Placeholder = Placeholder
  None = None
  Requests = {r1, r2, r3}
  Proofs <- MixedProofs
  Shapes <- MixedShapes
  MaxCrashes = 1
INVARIANTS NoLateUnlock RefusedMeansSettledElsewhere AnswersAreTrue
SYMMETRY RequestSymmetry
CHECK_DEADLOCK FALSE
