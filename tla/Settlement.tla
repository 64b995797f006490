----------------------------- MODULE Settlement -----------------------------
(***************************************************************************)
(* What the payment relayer promises about a payment, without saying how:  *)
(* money moves forward only, each move happens once, and a caller is told  *)
(* "success" only about a payment whose money has reached its final place. *)
(*                                                                         *)
(* A pooled payment (a transfer into the shared paywall contract, split by *)
(* a second transaction) goes unpaid -> deposited -> settled.  A direct    *)
(* payment (a pay-adapter call, a classic payment or a pre-signed contract *)
(* call, all split atomically) goes unpaid -> settled.                     *)
(***************************************************************************)
CONSTANTS Payments,   \* the client-signed payments
          Pooled      \* the subset deposited first and split afterwards

VARIABLES phase,      \* phase[p]: how far the money of p has moved
          told        \* payments answered with success

svars == <<phase, told>>

Init == /\ phase = [p \in Payments |-> "unpaid"]
        /\ told = {}

Deposit(p) == /\ p \in Pooled
              /\ phase[p] = "unpaid"
              /\ phase' = [phase EXCEPT ![p] = "deposited"]
              /\ UNCHANGED told

Split(p) == /\ phase[p] = "deposited"
            /\ phase' = [phase EXCEPT ![p] = "settled"]
            /\ UNCHANGED told

PayDirectly(p) == /\ p \notin Pooled
                  /\ phase[p] = "unpaid"
                  /\ phase' = [phase EXCEPT ![p] = "settled"]
                  /\ UNCHANGED told

Tell(p) == /\ phase[p] = "settled"
           /\ told' = told \cup {p}
           /\ UNCHANGED phase

Next == \E p \in Payments : Deposit(p) \/ Split(p) \/ PayDirectly(p) \/ Tell(p)

Spec == Init /\ [][Next]_svars
=============================================================================
