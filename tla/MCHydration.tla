---------------------------- MODULE MCHydration ----------------------------
(* Instances of Hydration for TLC. *)
EXTENDS Hydration

CONSTANTS c1, c2, p1, p2

Plain == [token |-> Nothing, domain |-> TRUE, proof |-> Nothing, human |-> FALSE, authorize |-> FALSE]

\* One client pays, by token and domain; another one holds a
\* session and asks by domain for the decision only.
PayAsks == [c \in Clients |->
  IF c = c1 THEN {[Plain EXCEPT !.proof = p, !.token = 1] : p \in Payments}
  ELSE {[Plain EXCEPT !.human = TRUE, !.authorize = TRUE]}]
=============================================================================
