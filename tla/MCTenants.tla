----------------------------- MODULE MCTenants -----------------------------
(* Instances of Tenants for TLC. *)
EXTENDS Tenants, TLC

CONSTANTS u1, u2, d1, d2, w1, w2, c1, c2

ask == [domain |-> None, wallet |-> None, price |-> None]

MCChanges == {[ask EXCEPT !.domain = d2, !.wallet = w1]}
MCOffers == {[key |-> d1, wallet |-> w2, price |-> 3, fee |-> 1]}
UserPerms == Permutations({u1, u2})
Sym == {[x \in {u1, u2, c1, c2} |-> IF x \in {u1, u2} THEN p[x] ELSE q[x]] :
          p \in UserPerms, q \in Permutations({c1, c2})}
=============================================================================
