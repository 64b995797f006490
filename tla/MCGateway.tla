----------------------------- MODULE MCGateway -----------------------------
EXTENDS Gateway, TLC

CONSTANTS alice, bob, a, b, k

\* Classic: the account is the source.  Sponsored: paid through the adapter by an
\* account that the request does not declare.
Classic(n, acc)   == [id |-> n, account |-> acc, kind |-> "classic", declares |-> FALSE, pays |-> 1]
Sponsored(n, acc) == [id |-> n, account |-> acc, kind |-> "adapter", declares |-> FALSE, pays |-> 1]
Transfer(n, acc)  == [id |-> n, account |-> acc, kind |-> "transfer", declares |-> FALSE, pays |-> 2]

\* Resource a costs 1, resource b costs 2: the transfer pays for b only.
Price(r) == IF r = a THEN 1 ELSE 2
Internal(p, r) == [route |-> "internal", proof |-> p, url |-> r, res |-> r, key |-> None, asks |-> Price(r)]
Public(p, u, r, key) ==
  [route |-> "settle", proof |-> p, url |-> u, res |-> r, key |-> key, asks |-> Price(r)]

Good == Classic(1, alice)
Bare == Sponsored(2, bob)
Pull == Transfer(3, alice)

MixedProofs == {Good, Bare, Pull}
MixedShapes == {Public(Good, a, a, k), Internal(Bare, b), Public(Pull, a, a, k), Internal(Pull, b)}

RequestSymmetry == Permutations(Requests)
=============================================================================
