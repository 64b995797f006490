----------------------------- MODULE MCAgentPay -----------------------------
(* The payments of agents, on small bounds. *)
EXTENDS AgentPay, TLC

RequestsAreAlike == Permutations(Requests)

\* A bound: requests overlap where they meet, at the gate, which is that of users.
UsersOverlap ==
  \A r, s \in Requests : r # s /\ request[r] # None /\ request[s] # None =>
    {request[r].by, request[s].by} \subseteq Users
=============================================================================
