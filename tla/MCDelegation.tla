---------------------------- MODULE MCDelegation ----------------------------
(* The delegation of an agent wallet, on small bounds. *)
EXTENDS Delegation
=============================================================================
