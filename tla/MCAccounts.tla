----------------------------- MODULE MCAccounts -----------------------------
(* Instances of Accounts for TLC. *)
EXTENDS Accounts

CONSTANTS c1, c2, c3, e1, e2, f1, f2

Ask(op, e) == [op |-> op, email |-> e, on |-> FALSE, flow |-> Null]
Decide(op, e, on) == [Ask(op, e) EXCEPT !.on = on]
Flow(op, e, f) == [Ask(op, e) EXCEPT !.flow = f]
ForAll(x, y, z) == [c \in Tasks |-> CASE c = c1 -> x [] c = c2 -> y [] c = c3 -> z]
Nobody == [e \in Emails |-> Null]

\* A user registers, asks for links and uses them; the account is deleted.
MailScene ==
  [users |-> Nobody, sessions |-> {}, browsers |-> {}, time |-> 1, faults |-> 1,
   asks |-> ForAll({Ask("register", e1), Ask("verify", Null)},
                   {Ask("resend", e1), Ask("verify", Null)},
                   {Ask("delete", e1), Ask("login", e1)}),
   left |-> ForAll(1, 0, 1)]

\* Administrators decide about an address that registers and is deleted.
AccessScene ==
  [users |-> Nobody, sessions |-> {}, browsers |-> {}, time |-> 0, faults |-> 0,
   asks |-> ForAll({Ask("register", e1)},
                   {Decide("grant", e1, TRUE), Decide("grant", e1, FALSE)},
                   {Decide("access", e1, FALSE), Ask("delete", e1), Ask("waitlist", e1)}),
   left |-> ForAll(2, 2, 1)]

\* Two clients are connected while access changes; another user is logged in too.
OauthScene ==
  [users |-> [e \in Emails |-> [id |-> IF e = e1 THEN 1 ELSE 2, verified |-> TRUE, access |-> TRUE]],
   sessions |-> {e1, e2}, browsers |-> {e1}, time |-> 0, faults |-> 1,
   asks |-> ForAll({Flow("oauthLogin", e1, f) : f \in Flows}
                     \cup {Flow("loginAccept", e1, f1)} \cup {Flow("consent", e1, f) : f \in Flows},
                   {Flow("consentAccept", e1, f1), Flow("consentReject", e1, f1), Ask("logout", e1)},
                   {Flow("consentAccept", e2, f1), Decide("access", e1, FALSE)}),
   left |-> ForAll(4, 1, 1)]

\* Two visitors of one cohort.
HumanScene ==
  [users |-> Nobody, sessions |-> {}, browsers |-> {}, time |-> 1, faults |-> 1,
   asks |-> ForAll({Ask("challenge", Null), Ask("verifyHuman", Null)},
                   {Ask("challenge", Null), Ask("verifyHuman", Null)}, {}),
   left |-> ForAll(3, 2, 0)]

EveryScene == {MailScene, AccessScene, OauthScene, HumanScene}
=============================================================================
