----------------------------- MODULE MCPaywall -----------------------------
(* Small instances of Paywall for TLC. *)
EXTENDS Paywall, TLC

Symmetry == Permutations(Accounts) \cup Permutations(Deposits)
=============================================================================
