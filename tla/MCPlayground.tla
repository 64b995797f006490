---------------------------- MODULE MCPlayground ----------------------------
(* An instance of Playground for TLC. *)
EXTENDS Playground

\* A look, or a call that is refused, before a payment.
LookAndPay == {<<"look", "pay">>}
=============================================================================
