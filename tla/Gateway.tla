------------------------------ MODULE Gateway ------------------------------
(***************************************************************************)
(* x402-gateway: POST /settle and POST /internal/x-payment-settle, one     *)
(* action per call a handler makes to Redis or to the facilitator.         *)
(*                                                                         *)
(* A proof is the signed transaction of one payment.  The facilitator (the *)
(* payment-relayer) is taken as its clients see it: it remembers the       *)
(* proofs it settled, and a settle may spend the proof and yet fail.       *)
(***************************************************************************)
EXTENDS Naturals, FiniteSets

CONSTANTS
  Requests, Resources, Keys, Accounts,
  Proofs,       \* records [id, account, kind, declares, pays]
  Shapes,       \* what a request may carry: [route, proof, url, res, key, asks]
  Placeholder,  \* the transaction source of every fee-sponsored proof
  None,
  MaxCrashes    \* bound on crashes of the gateway, and of the facilitator

Kinds == {"classic", "transfer", "adapter"}

ASSUME ProofsAssumption ==
  Proofs \subseteq [id : Nat, account : Accounts, kind : Kinds, declares : BOOLEAN, pays : Nat]
ASSUME ShapesAssumption ==
  Shapes \subseteq [route : {"settle", "internal"}, proof : Proofs,
                    url : Resources, res : Resources, key : Keys \cup {None}, asks : Nat]
ASSUME InternalAssumption == \A s \in Shapes : s.route = "internal" => s.key = None
ASSUME NoneAssumption ==
  None \notin Requests \cup Resources \cup Keys \cup Proofs \cup Shapes
             \cup [by : {"siteId", "domain", "nothing"}, res : Resources]
ASSUME PlaceholderAssumption == Placeholder \notin Accounts
ASSUME CrashesAssumption == MaxCrashes \in Nat

VARIABLES
  pc,        \* pc[r]: the next call of r's handler
  shape,     \* shape[r]: what r carries
  by,        \* by[r]: what names r's site: its siteId, its domain, or nothing
  out,       \* out[r]: what the facilitator's settle said to r
  answer,    \* answer[r]: what r was told, and on what ground
  before,    \* before[r]: requests already over when r arrived
  bound,     \* requests that stored the binding of their proof
  sessions,  \* Redis: paid:*, by name and payer, the proof that opened it
  consumed,  \* Redis: consumed:*, the name a proof is bound to
  idem,      \* Redis: idem:settle:*, body and success of a cached answer
  paid,      \* ledger: proofs that are spent
  settled,   \* facilitator: proofs in its cache of results
  crashes

vars == <<pc, shape, by, out, answer, before, bound, sessions, consumed, idem,
          paid, settled, crashes>>
redisVars == <<sessions, consumed, idem>>
facilitatorVars == <<paid, settled>>

Payers == Accounts \cup {Placeholder}
Names == [by : {"siteId", "domain"}, res : Resources]
Records == [proof : Proofs, url : Resources, success : BOOLEAN]

Pcs == {"new", "idem", "verify", "session", "consumed", "settle", "open", "bind",
        "cache", "over"}
Answers == {"none", "settled", "session", "replayed", "replayed_failure",
            "refused", "failed", "lost"}

TypeOK == /\ pc \in [Requests -> Pcs]
          /\ shape \in [Requests -> Shapes \cup {None}]
          /\ by \in [Requests -> {"siteId", "domain", "nothing"}]
          /\ out \in [Requests -> {"none", "ok", "no"}]
          /\ answer \in [Requests -> Answers]
          /\ before \in [Requests -> SUBSET Requests]
          /\ bound \subseteq Requests
          /\ sessions \in [Names \X Payers -> Proofs \cup {None}]
          /\ consumed \in [Proofs -> Names \cup {None}]
          /\ idem \in [Keys -> Records \cup {None}]
          /\ paid \subseteq Proofs
          /\ settled \subseteq paid
          /\ crashes \in 0..MaxCrashes
          /\ \A r \in Requests : (pc[r] = "over") <=> (answer[r] # "none")

Init == /\ pc = [r \in Requests |-> "new"]
        /\ shape = [r \in Requests |-> None]
        /\ by = [r \in Requests |-> "nothing"]
        /\ out = [r \in Requests |-> "none"]
        /\ answer = [r \in Requests |-> "none"]
        /\ before = [r \in Requests |-> {}]
        /\ bound = {}
        /\ sessions = [s \in Names \X Payers |-> None]
        /\ consumed = [p \in Proofs |-> None]
        /\ idem = [k \in Keys |-> None]
        /\ paid = {}
        /\ settled = {}
        /\ crashes = 0

-----------------------------------------------------------------------------
Proof(r) == shape[r].proof
Key(r) == shape[r].key
Name(r) == [by |-> by[r], res |-> shape[r].res]
HasSite(r) == by[r] # "nothing"

\* The relayer's /verify names the transaction source.
VerifyPayer(p) == IF p.kind = "classic" THEN p.account ELSE Placeholder

\* Its /settle names the declared payer, else the `from` of a transfer, else
\* the transaction source (resolvePayer).
SettlePayer(p) == IF p.declares \/ p.kind = "transfer" THEN p.account ELSE VerifyPayer(p)

Goto(r, to) ==
  /\ pc' = [pc EXCEPT ![r] = to]
  /\ UNCHANGED answer

Answer(r, a) ==
  /\ pc' = [pc EXCEPT ![r] = "over"]
  /\ answer' = [answer EXCEPT ![r] = a]

-----------------------------------------------------------------------------
(* The handlers *)

Arrive(r, route, to) ==
  /\ pc[r] = "new"
  /\ \E s \in Shapes :
       /\ s.route = route
       /\ to = "idem" <=> s.key # None
       /\ shape' = [shape EXCEPT ![r] = s]
  /\ Goto(r, to)
  /\ before' = [before EXCEPT ![r] = {q \in Requests : pc[q] = "over"}]
  /\ UNCHANGED <<by, out, bound, redisVars, facilitatorVars, crashes>>

ArriveSettle(r) == Arrive(r, "settle", "idem") \/ Arrive(r, "settle", "verify")
ArriveInternal(r) == Arrive(r, "internal", "verify")

\* A plausible mistake: the digest of the body is not compared.
ReplayAnyBody(r) ==
  /\ pc[r] = "idem"
  /\ LET rec == idem[Key(r)] IN
       \/ Goto(r, "verify")
       \/ rec # None /\ rec.success /\ Answer(r, "replayed")
       \/ rec # None /\ ~rec.success /\ Answer(r, "replayed_failure")
  /\ UNCHANGED <<shape, by, out, before, bound, redisVars, facilitatorVars, crashes>>

SameBody(r, rec) == rec.proof = Proof(r) /\ rec.url = shape[r].url

\* GET of the Idempotency-Key: replay, or 422 when the body differs.  A miss, an expired
\* entry and a Redis error all go on.
Replay(r) ==
  /\ pc[r] = "idem"
  /\ LET rec == idem[Key(r)] IN
       \/ Goto(r, "verify")
       \/ rec # None /\ ~SameBody(r, rec) /\ Answer(r, "failed")
       \/ rec # None /\ SameBody(r, rec) /\ rec.success /\ Answer(r, "replayed")
       \/ rec # None /\ SameBody(r, rec) /\ ~rec.success /\ Answer(r, "replayed_failure")
  /\ UNCHANGED <<shape, by, out, before, bound, redisVars, facilitatorVars, crashes>>

\* The handler ends in Verify or passes it with its site named.
Verified(r, route, names) ==
  /\ pc[r] = "verify"
  /\ shape[r].route = route
  /\ \/ Answer(r, "failed") /\ UNCHANGED by
     \/ /\ Goto(r, "session")
        /\ \E name \in names : by' = [by EXCEPT ![r] = name]
  /\ UNCHANGED <<shape, out, before, bound, redisVars, facilitatorVars, crashes>>

\* /settle drops the error of resolveSite: its site is then named by the domain,
\* or not at all when the caller gave only a token.
VerifySettle(r) == Verified(r, "settle", {"siteId", "domain", "nothing"})

\* The internal route answers 404 instead.
VerifyInternal(r) == Verified(r, "internal", {"siteId"})

\* Session-first: GET of the session of (site, slug, payer of the verify).  A
\* miss, an expired entry and a Redis error all go on.
CheckSession(r) ==
  /\ pc[r] = "session"
  /\ \/ Goto(r, "consumed")
     \/ /\ HasSite(r)
        /\ sessions[<<Name(r), VerifyPayer(Proof(r))>>] # None
        /\ Answer(r, "session")
  /\ UNCHANGED <<shape, by, out, before, bound, redisVars, facilitatorVars, crashes>>

\* A plausible mistake: a Redis error is taken for an unbound proof.
CheckConsumedFailOpen(r) ==
  /\ pc[r] = "consumed"
  /\ \/ Goto(r, "settle")
     \/ /\ HasSite(r)
        /\ consumed[Proof(r)] \notin {None, Name(r)}
        /\ Answer(r, "refused")
  /\ UNCHANGED <<shape, by, out, before, bound, redisVars, facilitatorVars, crashes>>

\* A plausible mistake: a proof that is bound at all is refused.
CheckConsumedTwice(r) ==
  /\ pc[r] = "consumed"
  /\ \/ consumed[Proof(r)] = None /\ Goto(r, "settle")
     \/ consumed[Proof(r)] # None /\ Answer(r, "refused")
     \/ HasSite(r) /\ Answer(r, "failed")
  /\ UNCHANGED <<shape, by, out, before, bound, redisVars, facilitatorVars, crashes>>

\* GET of the binding (bindingDecision): another name refuses the proof, a Redis
\* error fails the request.
CheckConsumed(r) ==
  /\ pc[r] = "consumed"
  /\ \/ /\ ~HasSite(r) \/ consumed[Proof(r)] \in {None, Name(r)}
        /\ Goto(r, "settle")
     \/ /\ HasSite(r)
        /\ consumed[Proof(r)] \notin {None, Name(r)}
        /\ Answer(r, "refused")
     \/ HasSite(r) /\ Answer(r, "failed")
  /\ UNCHANGED <<shape, by, out, before, bound, redisVars, facilitatorVars, crashes>>

\* The relayer compares a fee-sponsored transfer with the requirement it is sent
\* with: asset, recipient and amount, told apart here by one number.
Fits(s) == s.proof.kind = "transfer" => s.proof.pays = s.asks

\* A settle of p is under way whose requirement p does not fit.  Requests that settle
\* one transaction at one time share its run, and the 400 it ends in.
Misfit(p) == \E q \in Requests : pc[q] = "settle" /\ Proof(q) = p /\ ~Fits(shape[q])

\* Facilitator.Settle: a proof it remembers succeeds again, whatever is asked; a
\* fresh one that fits is spent or not, and its answer may be lost either way; a
\* spent one it forgot fails; the 400 of a misfit decodes to success = false.
Settle(r) ==
  LET p == Proof(r) IN
  /\ pc[r] = "settle"
  /\ \/ /\ p \in settled \/ (p \notin paid /\ Fits(shape[r]))
        /\ paid' = paid \cup {p}
        /\ settled' = settled \cup {p}
        /\ out' = [out EXCEPT ![r] = "ok"]
        /\ Goto(r, "open")
     \/ /\ p \notin settled
        /\ Misfit(p)
        /\ out' = [out EXCEPT ![r] = "no"]
        /\ Goto(r, "cache")
        /\ UNCHANGED facilitatorVars
     \/ /\ Answer(r, "failed")
        /\ \/ UNCHANGED facilitatorVars
           \/ /\ p \notin paid
              /\ Fits(shape[r])
              /\ paid' = paid \cup {p}
              /\ settled' \in {settled, settled \cup {p}}
        /\ UNCHANGED out
  /\ UNCHANGED <<shape, by, before, bound, redisVars, crashes>>

\* SET of the session under the payer of the settle; a Redis error is only logged.
OpenSession(r) ==
  /\ pc[r] = "open"
  /\ Goto(r, "bind")
  /\ \/ /\ HasSite(r)
        /\ sessions' = [sessions EXCEPT ![<<Name(r), SettlePayer(Proof(r))>>] = Proof(r)]
     \/ UNCHANGED sessions
  /\ UNCHANGED <<shape, by, out, before, bound, consumed, idem, facilitatorVars, crashes>>

\* SET of the binding; a Redis error is not looked at.
Bind(r) ==
  /\ pc[r] = "bind"
  /\ Goto(r, "cache")
  /\ \/ /\ HasSite(r)
        /\ consumed' = [consumed EXCEPT ![Proof(r)] = Name(r)]
        /\ bound' = bound \cup {r}
     \/ UNCHANGED <<consumed, bound>>
  /\ UNCHANGED <<shape, by, out, before, sessions, idem, facilitatorVars, crashes>>

\* SET of the answer under the Idempotency-Key, success and explicit failure
\* alike, unless Redis fails; then the answer is sent.
Cache(r) ==
  /\ pc[r] = "cache"
  /\ Answer(r, IF out[r] = "ok" THEN "settled" ELSE "failed")
  /\ \/ /\ shape[r].route = "settle"
        /\ Key(r) # None
        /\ idem' = [idem EXCEPT ![Key(r)] =
                      [proof |-> Proof(r), url |-> shape[r].url, success |-> out[r] = "ok"]]
     \/ UNCHANGED idem
  /\ UNCHANGED <<shape, by, out, before, bound, sessions, consumed, facilitatorVars, crashes>>

-----------------------------------------------------------------------------
(* What happens around them *)

\* The gateway dies with the requests it was handling.
Crash ==
  LET open == {r \in Requests : pc[r] \notin {"new", "over"}} IN
  /\ crashes < MaxCrashes
  /\ open # {}
  /\ crashes' = crashes + 1
  /\ pc' = [r \in Requests |-> IF r \in open THEN "over" ELSE pc[r]]
  /\ answer' = [r \in Requests |-> IF r \in open THEN "lost" ELSE answer[r]]
  /\ UNCHANGED <<shape, by, out, before, bound, redisVars, facilitatorVars>>

\* The relayer restarts with its results in memory, or their 24 h are over.
Forget ==
  /\ crashes < MaxCrashes
  /\ settled # {}
  /\ crashes' = crashes + 1
  /\ settled' = {}
  /\ UNCHANGED <<pc, shape, by, out, answer, before, bound, redisVars, paid>>

\* The TTL of a binding ends.  It was stored after the relayer cached the result
\* of its proof, for the same 24 h, so that it outlives it.  (A session or an
\* Idempotency-Key that has expired reads as a miss, which is always possible.)
Expire(p) ==
  /\ p \notin settled
  /\ consumed[p] # None
  /\ consumed' = [consumed EXCEPT ![p] = None]
  /\ UNCHANGED <<pc, shape, by, out, answer, before, bound, sessions, idem, facilitatorVars, crashes>>

Next == \/ \E r \in Requests :
             \/ ArriveSettle(r) \/ ArriveInternal(r) \/ Replay(r)
             \/ VerifySettle(r) \/ VerifyInternal(r) \/ CheckSession(r) \/ CheckConsumed(r)
             \/ Settle(r) \/ OpenSession(r) \/ Bind(r) \/ Cache(r)
        \/ \E p \in Proofs : Expire(p)
        \/ Crash \/ Forget

Spec == Init /\ [][Next]_vars

-----------------------------------------------------------------------------
(* Properties *)

Unlocks == {"settled", "session", "replayed"}
Settlers == {t \in Requests : out[t] = "ok"}

\* Nothing is unlocked for free: behind every success, settled now, taken from a
\* session or replayed, a proof was spent on the ledger, that same proof or one
\* whose settle opened this very session.
UnlocksArePaid ==
  \A r \in Requests : answer[r] \in Unlocks =>
    \E t \in Settlers :
      /\ Proof(t) \in paid
      /\ \/ Proof(t) = Proof(r)
         \/ Name(t) = Name(r) /\ SettlePayer(Proof(t)) = VerifyPayer(Proof(r))

\* The binding closes a proof: whatever resource it unlocks after a request
\* stored its binding was already being settled before that request was over.
NoLateUnlock ==
  \A r \in bound, s \in Requests :
    (r \in before[s] /\ Proof(s) = Proof(r) /\ Name(s) # Name(r) /\ HasSite(s) /\ answer[s] = "settled") =>
      \E t \in Settlers \ {s} :
        Proof(t) = Proof(s) /\ Name(t) = Name(s) /\ r \notin before[t]

\* A proof is refused as used for another resource only after it was settled
\* under another name: a retry after a lost answer or a crash is not.
RefusedMeansSettledElsewhere ==
  \A r \in Requests : answer[r] = "refused" =>
    \E t \in Settlers : Proof(t) = Proof(r) /\ Name(t) # Name(r)

\* The facilitator said no to t: its transfer is not what was asked, by t or by a
\* request that came with it.
Refused(t) ==
  /\ out[t] = "no"
  /\ \E q \in Requests : shape[q] # None /\ Proof(q) = Proof(t) /\ ~Fits(shape[q])

\* An Idempotency-Key replays what the facilitator said of this very body: a success
\* was settled, and a failure was refused for what it asked of its transfer.  A lost
\* answer or an error, behind which the proof may be spent, is never replayed.  (A
\* refusal stays true of what was asked; the same transfer may meanwhile be spent on
\* another resource.)
ReplaysAreTrue ==
  \A r \in Requests :
    /\ answer[r] = "replayed" =>
         \E t \in Settlers : Key(t) = Key(r) /\ Proof(t) = Proof(r)
    /\ answer[r] = "replayed_failure" =>
         \E t \in Requests : Refused(t) /\ Key(t) = Key(r) /\ SameBody(r, shape[t])

\* What a caller is told of a payment is what happened to it.
AnswersAreTrue == UnlocksArePaid /\ ReplaysAreTrue
=============================================================================
