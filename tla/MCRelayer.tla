----------------------------- MODULE MCRelayer ------------------------------
(* Small instances of Relayer for TLC. *)
EXTENDS Relayer, TLC

CONSTANTS p1, p2, p3, p4

\* Two pooled payments of different amounts, so that one cannot stand in for
\* the other in the pool, and one payment of each other kind.
EachKind == (p1 :> "pooled") @@ (p2 :> "pooled") @@ (p3 :> "adapter") @@ (p4 :> "presigned")
Amounts  == [p \in Payments |-> IF p = p1 THEN 1 ELSE 3]

=============================================================================
