---------------------------- MODULE MCExactScheme ----------------------------
(* The exact scheme, on small bounds. *)
EXTENDS ExactScheme, TLC

CallsAreAlike == Permutations(Calls)
=============================================================================
