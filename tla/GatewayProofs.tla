---------------------------- MODULE GatewayProofs ----------------------------
(***************************************************************************)
(* Proofs about Gateway, for any requests, proofs, resources, keys and     *)
(* interleavings of handlers, crashes and expirations; and about the       *)
(* hydration service in front of it, at the end.                           *)
(*                                                                         *)
(* Each key in Redis is the trace of a settle that the facilitator         *)
(* answered with success: a settler, which stays one (StoresAreTrue).      *)
(* That a bound proof opens nothing new is the argument of Guarded.  From  *)
(* the time r binds its proof, either the facilitator has forgotten that   *)
(* proof, which it can then never settle again, or the binding names r's   *)
(* resource, or the resource of a settler that had arrived before r was    *)
(* over.  Whoever arrives later passes CheckConsumed in no other case.     *)
(***************************************************************************)
EXTENDS Gateway, Hydration, TLAPS

\* What a handler knows at each of its steps.
Carried ==
  \A r \in Requests :
    /\ shape[r] = None <=> pc[r] = "new"
    /\ pc[r] = "idem" => Key(r) # None
    /\ pc[r] \in {"new", "idem", "verify"} => by[r] = "nothing"
    /\ pc[r] \in {"new", "idem", "verify", "session", "consumed", "settle"} => out[r] = "none"
    /\ pc[r] \in {"open", "bind"} => out[r] = "ok"
    /\ pc[r] = "cache" => out[r] # "none"
    /\ answer[r] = "settled" => out[r] = "ok"
    /\ \A q \in before[r] : pc[q] = "over"

\* What the facilitator said is so: a success spent the proof, a failure was of a
\* transfer that was not what somebody asked of it.
OutIsTrue ==
  /\ \A r \in Requests : out[r] # "none" => shape[r] # None
  /\ \A r \in Requests : out[r] = "ok" => Proof(r) \in paid
  /\ \A r \in Requests : out[r] = "no" => Refused(r)

\* Behind every key in Redis there is a settler.
SessionOpened(n, a) == \E t \in Settlers : Name(t) = n /\ SettlePayer(Proof(t)) = a
BoundBy(p, n) == \E t \in Settlers : Proof(t) = p /\ Name(t) = n
Cached(k, rec) ==
  IF rec.success THEN \E t \in Settlers : Key(t) = k /\ Proof(t) = rec.proof
  ELSE \E t \in Requests : Refused(t) /\ Key(t) = k /\ SameBody(t, rec)

StoresAreTrue ==
  /\ \A n \in Names, a \in Payers : sessions[<<n, a>>] # None => SessionOpened(n, a)
  /\ \A p \in Proofs : consumed[p] # None => BoundBy(p, consumed[p])
  /\ \A k \in Keys : idem[k] # None => Cached(k, idem[k])

\* s arrived when r was over, and names another resource for r's proof.
Late(r, s) ==
  /\ r \in before[s] /\ HasSite(s)
  /\ Proof(s) = Proof(r) /\ Name(s) # Name(r)

\* A request that had arrived before r was over settled what s asks for.
Earlier(r, s) ==
  \E t \in Settlers \ {s} : Proof(t) = Proof(s) /\ Name(t) = Name(s) /\ r \notin before[t]

\* The facilitator will never settle p again.
ForGood(p) == p \in paid \ settled

\* Why the proof that r bound opens nothing new.
Guarded(r) ==
  \/ ForGood(Proof(r))
  \/ consumed[Proof(r)] = Name(r)
  \/ \E t \in Settlers :
       Proof(t) = Proof(r) /\ Name(t) = consumed[Proof(r)] /\ r \notin before[t]

BindersSettled == \A r \in bound : r \in Settlers /\ HasSite(r)
BindingsHold == \A r \in bound : Guarded(r)
LateOnesFollow ==
  \A r \in bound, s \in Requests : Late(r, s) =>
    /\ s \in Settlers => Earlier(r, s)
    /\ pc[s] = "settle" => ForGood(Proof(s)) \/ Earlier(r, s)

\* On what ground each request was answered.
Grounds(r) ==
  /\ answer[r] = "session" => SessionOpened(Name(r), VerifyPayer(Proof(r)))
  /\ answer[r] = "replayed" => \E t \in Settlers : Key(t) = Key(r) /\ Proof(t) = Proof(r)
  /\ answer[r] = "replayed_failure" =>
       \E t \in Requests : Refused(t) /\ Key(t) = Key(r) /\ SameBody(r, shape[t])
  /\ answer[r] = "refused" => \E t \in Settlers : Proof(t) = Proof(r) /\ Name(t) # Name(r)

AnswersGrounded == \A r \in Requests : Grounds(r)

IInv == /\ TypeOK
        /\ Carried
        /\ OutIsTrue
        /\ StoresAreTrue
        /\ BindersSettled
        /\ BindingsHold
        /\ LateOnesFollow
        /\ AnswersGrounded

-----------------------------------------------------------------------------
\* The initial state satisfies the invariant.
LEMMA Initial == Init => IInv
<1> SUFFICES ASSUME Init
             PROVE  IInv
  OBVIOUS
<1> USE DEF Init
<1>1. TypeOK
  <2>1. sessions \in [Names \X Payers -> Proofs \cup {None}]
    OBVIOUS
  <2>2. consumed \in [Proofs -> Names \cup {None}] /\ idem \in [Keys -> Records \cup {None}]
    OBVIOUS
  <2>3. 0 \in 0..MaxCrashes
    BY CrashesAssumption
  <2>4. QED
    BY <2>1, <2>2, <2>3 DEF TypeOK, Pcs, Answers
<1>2. Carried /\ OutIsTrue
  BY DEF Carried, OutIsTrue
<1>3. StoresAreTrue
  <2>1. \A n \in Names, a \in Payers : <<n, a>> \in Names \X Payers
    OBVIOUS
  <2>2. QED
    BY <2>1 DEF StoresAreTrue
<1>4. BindersSettled /\ BindingsHold /\ LateOnesFollow /\ AnswersGrounded
  BY DEF BindersSettled, BindingsHold, LateOnesFollow, AnswersGrounded, Grounds
<1>5. QED
  BY <1>1, <1>2, <1>3, <1>4 DEF IInv

\* Every step keeps the types.
LEMMA TypeStep == IInv /\ [Next]_vars => TypeOK'
<1> SUFFICES ASSUME IInv, [Next]_vars
             PROVE  TypeOK'
  OBVIOUS
<1> USE DEF IInv, redisVars, facilitatorVars
<1>g. ASSUME NEW r \in Requests, NEW to \in Pcs \ {"over"}, pc[r] # "over", Goto(r, to)
      PROVE  /\ pc' \in [Requests -> Pcs] /\ answer' \in [Requests -> Answers]
             /\ \A q \in Requests : (pc'[q] = "over") <=> (answer'[q] # "none")
  BY <1>g DEF Goto, TypeOK
<1>a. ASSUME NEW r \in Requests, NEW a \in Answers \ {"none"}, Answer(r, a)
      PROVE  /\ pc' \in [Requests -> Pcs] /\ answer' \in [Requests -> Answers]
             /\ \A q \in Requests : (pc'[q] = "over") <=> (answer'[q] # "none")
  BY <1>a DEF Answer, TypeOK, Pcs
<1>t. \A r \in Requests : pc[r] # "new" => shape[r] \in Shapes
  BY DEF Carried, TypeOK
<1>p. \A r \in Requests : pc[r] # "new" => /\ Proof(r) \in Proofs /\ Key(r) \in Keys \cup {None}
                                           /\ shape[r].url \in Resources
                                           /\ shape[r].res \in Resources
  BY <1>t, ShapesAssumption DEF Proof, Key
<1>n. \A r \in Requests : pc[r] # "new" /\ HasSite(r) => Name(r) \in Names
  BY <1>p DEF HasSite, Name, Names, TypeOK
<1>1. ASSUME NEW r \in Requests, ArriveSettle(r) \/ ArriveInternal(r)
      PROVE  TypeOK'
  <2>1. PICK route \in {"settle", "internal"}, to \in {"idem", "verify"} : Arrive(r, route, to)
    BY <1>1 DEF ArriveSettle, ArriveInternal
  <2>2. shape' \in [Requests -> Shapes \cup {None}] /\ before' \in [Requests -> SUBSET Requests]
    BY <2>1 DEF Arrive, TypeOK
  <2>3. QED
    BY <2>1, <2>2, <1>g DEF Arrive, TypeOK, Pcs
<1>2. ASSUME NEW r \in Requests, Replay(r)
      PROVE  TypeOK'
  BY <1>2, <1>g, <1>a DEF Replay, TypeOK, Pcs, Answers
<1>3. ASSUME NEW r \in Requests, VerifySettle(r) \/ VerifyInternal(r)
      PROVE  TypeOK'
  <2>1. by' \in [Requests -> {"siteId", "domain", "nothing"}]
    BY <1>3 DEF VerifySettle, VerifyInternal, Verified, TypeOK
  <2>2. QED
    BY <1>3, <2>1, <1>g, <1>a DEF VerifySettle, VerifyInternal, Verified, TypeOK, Pcs, Answers
<1>4. ASSUME NEW r \in Requests, CheckSession(r)
      PROVE  TypeOK'
  BY <1>4, <1>g, <1>a DEF CheckSession, TypeOK, Pcs, Answers
<1>5. ASSUME NEW r \in Requests, CheckConsumed(r)
      PROVE  TypeOK'
  BY <1>5, <1>g, <1>a DEF CheckConsumed, TypeOK, Pcs, Answers
<1>6. ASSUME NEW r \in Requests, Settle(r)
      PROVE  TypeOK'
  <2>1. Proof(r) \in Proofs
    BY <1>6, <1>p DEF Settle
  <2>2. paid' \subseteq Proofs /\ settled' \subseteq paid' /\ out' \in [Requests -> {"none", "ok", "no"}]
    BY <1>6, <2>1 DEF Settle, TypeOK
  <2>3. QED
    BY <1>6, <2>2, <1>g, <1>a DEF Settle, TypeOK, Pcs, Answers
<1>7. ASSUME NEW r \in Requests, OpenSession(r)
      PROVE  TypeOK'
  <2>1. sessions' \in [Names \X Payers -> Proofs \cup {None}]
    BY <1>7, <1>p DEF OpenSession, TypeOK
  <2>2. QED
    BY <1>7, <2>1, <1>g DEF OpenSession, TypeOK, Pcs
<1>8. ASSUME NEW r \in Requests, Bind(r)
      PROVE  TypeOK'
  <2>1. consumed' \in [Proofs -> Names \cup {None}] /\ bound' \subseteq Requests
    BY <1>8, <1>n DEF Bind, TypeOK
  <2>2. QED
    BY <1>8, <2>1, <1>g DEF Bind, TypeOK, Pcs
<1>9. ASSUME NEW r \in Requests, Cache(r)
      PROVE  TypeOK'
  <2>1. [proof |-> Proof(r), url |-> shape[r].url, success |-> out[r] = "ok"] \in Records
    BY <1>9, <1>p DEF Cache, Records
  <2>2. idem' \in [Keys -> Records \cup {None}]
    BY <1>9, <2>1 DEF Cache, TypeOK
  <2>3. QED
    BY <1>9, <2>2, <1>a DEF Cache, TypeOK, Answers
<1>10. ASSUME NEW p \in Proofs, Expire(p)
       PROVE  TypeOK'
  BY <1>10 DEF Expire, TypeOK
<1>11. CASE Crash
  <2>1. crashes' \in 0..MaxCrashes
    BY <1>11, CrashesAssumption DEF Crash, TypeOK
  <2>2. QED
    BY <1>11, <2>1 DEF Crash, TypeOK, Pcs, Answers
<1>12. CASE Forget
  BY <1>12, CrashesAssumption DEF Forget, TypeOK
<1>13. CASE UNCHANGED vars
  BY <1>13 DEF vars, TypeOK
<1>14. QED
  BY <1>1, <1>2, <1>3, <1>4, <1>5, <1>6, <1>7, <1>8, <1>9, <1>10, <1>11, <1>12, <1>13 DEF Next

\* What no step takes back: the words of a request that has its site named, what the
\* facilitator said, the end of a request, a spent proof, and that it is forgotten.
Kept(r) == shape'[r] = shape[r] /\ by'[r] = by[r] /\ before'[r] = before[r]

LEMMA Stays ==
  ASSUME IInv, [Next]_vars
  PROVE  /\ \A r \in Requests : pc[r] \notin {"new", "verify"} => Kept(r)
         /\ \A r \in Requests : shape[r] # None => shape'[r] = shape[r]
         /\ \A r \in Requests : out[r] # "none" => out'[r] = out[r]
         /\ \A r \in Requests : pc[r] = "over" => pc'[r] = "over"
         /\ paid \subseteq paid'
         /\ \A p \in Proofs : ForGood(p) => ForGood(p)'
<1> DEFINE Goal == /\ \A r \in Requests : pc[r] \notin {"new", "verify"} => Kept(r)
                   /\ \A r \in Requests : shape[r] # None => shape'[r] = shape[r]
                   /\ \A r \in Requests : out[r] # "none" => out'[r] = out[r]
                   /\ \A r \in Requests : pc[r] = "over" => pc'[r] = "over"
                   /\ paid \subseteq paid'
                   /\ \A p \in Proofs : ForGood(p) => ForGood(p)'
<1> USE DEF Kept, ForGood, redisVars, facilitatorVars, Goto, Answer
<1>0. TypeOK /\ Carried
  BY DEF IInv
<1>1. ASSUME NEW r \in Requests, ArriveSettle(r) \/ ArriveInternal(r)
      PROVE  Goal
  BY <1>0, <1>1 DEF ArriveSettle, ArriveInternal, Arrive, TypeOK, Carried
<1>2. ASSUME NEW r \in Requests, Replay(r) \/ CheckSession(r) \/ CheckConsumed(r)
      PROVE  Goal
  BY <1>0, <1>2 DEF Replay, CheckSession, CheckConsumed, TypeOK
<1>3. ASSUME NEW r \in Requests, VerifySettle(r) \/ VerifyInternal(r)
      PROVE  Goal
  BY <1>0, <1>3 DEF VerifySettle, VerifyInternal, Verified, TypeOK
<1>4. ASSUME NEW r \in Requests, Settle(r)
      PROVE  Goal
  <2>1. out[r] = "none"
    BY <1>0, <1>4 DEF Settle, Carried
  <2>2. QED
    BY <1>0, <1>4, <2>1 DEF Settle, TypeOK
<1>5. ASSUME NEW r \in Requests, OpenSession(r) \/ Bind(r) \/ Cache(r)
      PROVE  Goal
  BY <1>0, <1>5 DEF OpenSession, Bind, Cache, TypeOK
<1>6. ASSUME NEW p \in Proofs, Expire(p)
      PROVE  Goal
  BY <1>6 DEF Expire
<1>7. CASE Crash
  BY <1>7 DEF Crash
<1>8. CASE Forget
  BY <1>8 DEF Forget
<1>9. CASE UNCHANGED vars
  BY <1>9 DEF vars
<1>10. QED
  BY <1>1, <1>2, <1>3, <1>4, <1>5, <1>6, <1>7, <1>8, <1>9 DEF Next

\* A settler stays one, with the same proof, key, name and past.
LEMMA SettlersStay ==
  ASSUME IInv, [Next]_vars, NEW t \in Settlers
  PROVE  /\ t \in Settlers' /\ Kept(t)
         /\ Proof(t)' = Proof(t) /\ Key(t)' = Key(t) /\ Name(t)' = Name(t)
         /\ HasSite(t)' = HasSite(t)
<1>1. t \in Requests /\ out[t] = "ok" /\ pc[t] \notin {"new", "verify"}
  BY DEF Settlers, IInv, Carried
<1>2. Kept(t) /\ out'[t] = "ok"
  BY <1>1, Stays
<1>3. QED
  BY <1>1, <1>2 DEF Settlers, Kept, Proof, Key, Name, HasSite

\* A refusal stays one, with the same key and body.
LEMMA RefusalsStay ==
  ASSUME IInv, [Next]_vars, NEW t \in Requests, Refused(t)
  PROVE  /\ Refused(t)'
         /\ Proof(t)' = Proof(t) /\ Key(t)' = Key(t) /\ shape'[t] = shape[t]
<1>1. out'[t] = "no" /\ shape[t] # None
  BY Stays DEF Refused, IInv, Carried
<1>2. shape'[t] = shape[t]
  BY <1>1, Stays
<1>3. PICK q \in Requests : shape[q] # None /\ Proof(q) = Proof(t) /\ ~Fits(shape[q])
  BY DEF Refused
<1>4. shape'[q] = shape[q]
  BY <1>3, Stays
<1>5. QED
  BY <1>1, <1>2, <1>3, <1>4 DEF Refused, Proof, Key

\* What a step writes into the stores.
LEMMA StoreWrites ==
  ASSUME IInv, [Next]_vars
  PROVE  /\ \/ sessions' = sessions
            \/ \E r \in Requests :
                 /\ r \in Settlers /\ HasSite(r)
                 /\ sessions' = [sessions EXCEPT ![<<Name(r), SettlePayer(Proof(r))>>] = Proof(r)]
         /\ \/ consumed' = consumed /\ bound' = bound
            \/ \E r \in Requests :
                 /\ r \in Settlers /\ HasSite(r) /\ pc'[r] = "cache"
                 /\ consumed' = [consumed EXCEPT ![Proof(r)] = Name(r)]
                 /\ bound' = bound \cup {r}
            \/ \E p \in Proofs :
                 /\ p \notin settled /\ consumed[p] # None
                 /\ consumed' = [consumed EXCEPT ![p] = None]
                 /\ bound' = bound
         /\ \/ idem' = idem
            \/ \E r \in Requests :
                 /\ Key(r) # None /\ out[r] # "none"
                 /\ idem' = [idem EXCEPT ![Key(r)] =
                      [proof |-> Proof(r), url |-> shape[r].url, success |-> out[r] = "ok"]]
<1> DEFINE Goal ==
         /\ \/ sessions' = sessions
            \/ \E r \in Requests :
                 /\ r \in Settlers /\ HasSite(r)
                 /\ sessions' = [sessions EXCEPT ![<<Name(r), SettlePayer(Proof(r))>>] = Proof(r)]
         /\ \/ consumed' = consumed /\ bound' = bound
            \/ \E r \in Requests :
                 /\ r \in Settlers /\ HasSite(r) /\ pc'[r] = "cache"
                 /\ consumed' = [consumed EXCEPT ![Proof(r)] = Name(r)]
                 /\ bound' = bound \cup {r}
            \/ \E p \in Proofs :
                 /\ p \notin settled /\ consumed[p] # None
                 /\ consumed' = [consumed EXCEPT ![p] = None]
                 /\ bound' = bound
         /\ \/ idem' = idem
            \/ \E r \in Requests :
                 /\ Key(r) # None /\ out[r] # "none"
                 /\ idem' = [idem EXCEPT ![Key(r)] =
                      [proof |-> Proof(r), url |-> shape[r].url, success |-> out[r] = "ok"]]
<1> USE DEF redisVars, facilitatorVars
<1>0. \A r \in Requests : /\ pc[r] \in {"open", "bind"} => r \in Settlers
                          /\ pc[r] = "cache" => out[r] # "none"
  BY DEF IInv, Carried, Settlers
<1>1. ASSUME NEW r \in Requests, ArriveSettle(r) \/ ArriveInternal(r)
      PROVE  Goal
  BY <1>1 DEF ArriveSettle, ArriveInternal, Arrive
<1>2. ASSUME NEW r \in Requests, Replay(r) \/ CheckSession(r) \/ CheckConsumed(r) \/ Settle(r)
      PROVE  Goal
  BY <1>2 DEF Replay, CheckSession, CheckConsumed, Settle
<1>3. ASSUME NEW r \in Requests, VerifySettle(r) \/ VerifyInternal(r)
      PROVE  Goal
  BY <1>3 DEF VerifySettle, VerifyInternal, Verified
<1>4. ASSUME NEW r \in Requests, OpenSession(r)
      PROVE  Goal
  BY <1>0, <1>4 DEF OpenSession
<1>5. ASSUME NEW r \in Requests, Bind(r)
      PROVE  Goal
  BY <1>0, <1>5 DEF Bind, Goto, IInv, TypeOK
<1>6. ASSUME NEW r \in Requests, Cache(r)
      PROVE  Goal
  BY <1>0, <1>6 DEF Cache
<1>7. ASSUME NEW p \in Proofs, Expire(p)
      PROVE  Goal
  BY <1>7 DEF Expire
<1>8. CASE Crash \/ Forget \/ UNCHANGED vars
  BY <1>8 DEF Crash, Forget, vars
<1>9. QED
  BY <1>1, <1>2, <1>3, <1>4, <1>5, <1>6, <1>7, <1>8 DEF Next

\* Every step keeps what the handlers know.
LEMMA CarriedStep == IInv /\ [Next]_vars => Carried'
<1> SUFFICES ASSUME IInv, [Next]_vars
             PROVE  Carried'
  OBVIOUS
<1> USE DEF redisVars, facilitatorVars, Goto, Answer
<1>0. TypeOK /\ Carried
  BY DEF IInv
<1>b. \A r \in Requests : (\A q \in before[r] : pc[q] = "over") => \A q \in before[r] : pc'[q] = "over"
  BY <1>0, Stays DEF TypeOK
<1>1. ASSUME NEW r \in Requests, ArriveSettle(r) \/ ArriveInternal(r)
      PROVE  Carried'
  <2>1. PICK route \in {"settle", "internal"}, to \in {"idem", "verify"} : Arrive(r, route, to)
    BY <1>1 DEF ArriveSettle, ArriveInternal
  <2>2. /\ shape'[r] # None
        /\ to = "idem" => Key(r)' # None
        /\ \A q \in before'[r] : pc'[q] = "over"
    BY <2>1, <1>0, NoneAssumption, ShapesAssumption DEF Arrive, TypeOK, Key
  <2>3. QED
    BY <2>1, <2>2, <1>0, <1>b DEF Arrive, Carried, TypeOK, Key
<1>2. ASSUME NEW r \in Requests, Replay(r) \/ CheckSession(r) \/ CheckConsumed(r)
      PROVE  Carried'
  BY <1>0, <1>2, <1>b DEF Replay, CheckSession, CheckConsumed, Carried, TypeOK, Key
<1>3. ASSUME NEW r \in Requests, VerifySettle(r) \/ VerifyInternal(r)
      PROVE  Carried'
  BY <1>0, <1>3, <1>b DEF VerifySettle, VerifyInternal, Verified, Carried, TypeOK, Key
<1>4. ASSUME NEW r \in Requests, Settle(r)
      PROVE  Carried'
  BY <1>0, <1>4, <1>b DEF Settle, Carried, TypeOK, Key
<1>5. ASSUME NEW r \in Requests, OpenSession(r) \/ Bind(r)
      PROVE  Carried'
  BY <1>0, <1>5, <1>b DEF OpenSession, Bind, Carried, TypeOK, Key
<1>6. ASSUME NEW r \in Requests, Cache(r)
      PROVE  Carried'
  BY <1>0, <1>6, <1>b DEF Cache, Carried, TypeOK, Key
<1>7. CASE Crash
  BY <1>0, <1>7, <1>b DEF Crash, Carried, TypeOK, Key
<1>8. CASE Forget \/ (\E p \in Proofs : Expire(p)) \/ UNCHANGED vars
  BY <1>0, <1>8 DEF Forget, Expire, vars, Carried, Key
<1>9. QED
  BY <1>1, <1>2, <1>3, <1>4, <1>5, <1>6, <1>7, <1>8 DEF Next

\* Every step keeps what the facilitator said true.
LEMMA OutStep == IInv /\ [Next]_vars => OutIsTrue'
<1> SUFFICES ASSUME IInv, [Next]_vars
             PROVE  OutIsTrue'
  OBVIOUS
<1> USE DEF redisVars, facilitatorVars, Goto, Answer
<1>0. TypeOK /\ Carried /\ OutIsTrue
  BY DEF IInv
<1>k. \A r \in Requests : out[r] # "none" =>
        shape'[r] = shape[r] /\ Proof(r)' = Proof(r) /\ out'[r] = out[r]
  <2>1. \A r \in Requests : out[r] # "none" => pc[r] \notin {"new", "verify"}
    BY <1>0 DEF Carried
  <2>2. QED
    BY <2>1, Stays DEF Kept, Proof
<1>1. ASSUME out' = out, paid' = paid
      PROVE  OutIsTrue'
  <2>1. \A r \in Requests : out[r] = "no" => Refused(r)'
    BY <1>0, RefusalsStay DEF OutIsTrue
  <2>2. QED
    BY <1>0, <1>1, <1>k, <2>1 DEF OutIsTrue
<1>2. ASSUME NEW r \in Requests, Settle(r)
      PROVE  OutIsTrue'
  <2>1. shape[r] # None /\ Proof(r)' = Proof(r) /\ shape'[r] = shape[r] /\ out[r] = "none"
    BY <1>0, <1>2 DEF Settle, Carried, Proof
  <2>2. /\ out' = [out EXCEPT ![r] = "ok"] => paid' = paid \cup {Proof(r)}
        /\ out' = [out EXCEPT ![r] = "no"] => Misfit(Proof(r))
        /\ out' \in {out, [out EXCEPT ![r] = "ok"], [out EXCEPT ![r] = "no"]}
        /\ paid \subseteq paid'
    <3>1. [out EXCEPT ![r] = "ok"] # [out EXCEPT ![r] = "no"] /\ [out EXCEPT ![r] = "ok"] # out
          /\ [out EXCEPT ![r] = "no"] # out
      BY <1>0, <2>1 DEF TypeOK
    <3>2. QED
      BY <1>2, <2>1, <3>1 DEF Settle
  <2>3. ASSUME NEW q \in Requests
        PROVE  /\ out'[q] # "none" => shape'[q] # None
               /\ out'[q] = "ok" => Proof(q)' \in paid'
    BY <1>0, <1>k, <2>1, <2>2 DEF OutIsTrue, TypeOK
  <2>4. ASSUME NEW q \in Requests, out'[q] = "no"
        PROVE  Refused(q)'
    <3>1. CASE out[q] = "no"
      BY <1>0, <3>1, RefusalsStay DEF OutIsTrue
    <3>2. CASE out[q] # "no"
      <4>1. q = r /\ out' = [out EXCEPT ![r] = "no"]
        BY <1>0, <2>1, <2>2, <2>4, <3>2 DEF TypeOK
      <4>2. PICK m \in Requests : pc[m] = "settle" /\ Proof(m) = Proof(r) /\ ~Fits(shape[m])
        BY <2>2, <4>1 DEF Misfit
      <4>3. shape[m] # None /\ shape' = shape
        BY <1>0, <1>2, <4>2 DEF Carried, Settle
      <4>4. QED
        BY <2>1, <2>4, <4>1, <4>2, <4>3 DEF Refused, Proof
    <3>3. QED
      BY <3>1, <3>2
  <2>5. QED
    BY <2>3, <2>4 DEF OutIsTrue
<1>3. (\E r \in Requests : Settle(r)) \/ (out' = out /\ paid' = paid)
  BY DEF Next, vars, ArriveSettle, ArriveInternal, Arrive, Replay, VerifySettle, VerifyInternal,
         Verified, CheckSession, CheckConsumed, OpenSession, Bind, Cache, Expire, Crash, Forget
<1>4. QED
  BY <1>1, <1>2, <1>3

\* Every step leaves a settler behind each key.
LEMMA StoresStep == IInv /\ [Next]_vars => StoresAreTrue'
<1> SUFFICES ASSUME IInv, [Next]_vars
             PROVE  StoresAreTrue'
  OBVIOUS
<1>0. TypeOK /\ Carried /\ OutIsTrue /\ StoresAreTrue
  BY DEF IInv
<1>1. \A n, a : SessionOpened(n, a) => SessionOpened(n, a)'
  BY SettlersStay DEF SessionOpened
<1>2. \A p, n : BoundBy(p, n) => BoundBy(p, n)'
  BY SettlersStay DEF BoundBy
<1>3. \A k, rec : Cached(k, rec) => Cached(k, rec)'
  BY SettlersStay, RefusalsStay DEF Cached, SameBody
<1>4. ASSUME NEW n \in Names, NEW a \in Payers, sessions'[<<n, a>>] # None
      PROVE  SessionOpened(n, a)'
  <2>1. <<n, a>> \in Names \X Payers
    OBVIOUS
  <2>2. CASE sessions' = sessions
    BY <1>0, <1>1, <1>4, <2>2 DEF StoresAreTrue
  <2>3. ASSUME NEW r \in Requests, r \in Settlers,
               sessions' = [sessions EXCEPT ![<<Name(r), SettlePayer(Proof(r))>>] = Proof(r)]
        PROVE  SessionOpened(n, a)'
    <3>1. CASE <<n, a>> = <<Name(r), SettlePayer(Proof(r))>>
      BY <1>1, <2>3, <3>1 DEF SessionOpened
    <3>2. CASE <<n, a>> # <<Name(r), SettlePayer(Proof(r))>>
      <4>1. sessions'[<<n, a>>] = sessions[<<n, a>>]
        BY <1>0, <2>1, <2>3, <3>2 DEF TypeOK
      <4>2. QED
        BY <1>0, <1>1, <1>4, <4>1 DEF StoresAreTrue
    <3>3. QED
      BY <3>1, <3>2
  <2>4. QED
    BY <2>2, <2>3, StoreWrites
<1>5. ASSUME NEW p \in Proofs, consumed'[p] # None
      PROVE  BoundBy(p, consumed[p])'
  <2>1. CASE consumed' = consumed
    BY <1>0, <1>2, <1>5, <2>1 DEF StoresAreTrue
  <2>2. ASSUME NEW r \in Requests, r \in Settlers,
               consumed' = [consumed EXCEPT ![Proof(r)] = Name(r)]
        PROVE  BoundBy(p, consumed[p])'
    <3>1. CASE p = Proof(r)
      <4>1. consumed'[p] = Name(r)
        BY <1>0, <2>2, <3>1 DEF TypeOK
      <4>2. BoundBy(p, Name(r))
        BY <2>2, <3>1 DEF BoundBy
      <4>3. QED
        BY <4>1, <4>2, <2>2, <3>1, SettlersStay DEF BoundBy
    <3>2. CASE p # Proof(r)
      <4>1. consumed'[p] = consumed[p]
        BY <1>0, <2>2, <3>2 DEF TypeOK
      <4>2. QED
        BY <1>0, <1>2, <1>5, <4>1 DEF StoresAreTrue
    <3>3. QED
      BY <3>1, <3>2
  <2>3. ASSUME NEW q \in Proofs, consumed' = [consumed EXCEPT ![q] = None]
        PROVE  BoundBy(p, consumed[p])'
    <3>1. consumed'[p] = consumed[p]
      BY <1>0, <1>5, <2>3 DEF TypeOK
    <3>2. QED
      BY <1>0, <1>2, <1>5, <3>1 DEF StoresAreTrue
  <2>4. QED
    BY <2>1, <2>2, <2>3, StoreWrites
<1>6. ASSUME NEW k \in Keys, idem'[k] # None
      PROVE  Cached(k, idem[k])'
  <2>1. CASE idem'[k] = idem[k]
    BY <1>0, <1>3, <1>6, <2>1 DEF StoresAreTrue
  <2>2. ASSUME NEW r \in Requests, Key(r) = k, out[r] # "none",
               idem'[k] = [proof |-> Proof(r), url |-> shape[r].url, success |-> out[r] = "ok"]
        PROVE  Cached(k, idem[k])'
    <3>1. out[r] = "ok" => r \in Settlers
      BY DEF Settlers
    <3>2. out[r] # "ok" => Refused(r)
      BY <1>0, <2>2 DEF OutIsTrue, TypeOK
    <3>3. Cached(k, [proof |-> Proof(r), url |-> shape[r].url, success |-> out[r] = "ok"])
      BY <2>2, <3>1, <3>2 DEF Cached, SameBody
    <3>4. QED
      BY <1>3, <2>2, <3>3
  <2>3. QED
    BY <1>0, <2>1, <2>2, StoreWrites DEF TypeOK
<1>7. QED
  BY <1>4, <1>5, <1>6 DEF StoresAreTrue

\* Whoever bound a proof has settled it.
LEMMA BindersStep == IInv /\ [Next]_vars => BindersSettled'
<1> SUFFICES ASSUME IInv, [Next]_vars
             PROVE  BindersSettled'
  OBVIOUS
<1>1. \A r \in bound' : r \in Settlers /\ HasSite(r)
  BY StoreWrites DEF IInv, BindersSettled
<1>2. QED
  BY <1>1, SettlersStay DEF BindersSettled

\* Settlers that had arrived before r was over have done so for ever.
LEMMA EarlierStays ==
  ASSUME IInv, [Next]_vars, NEW r \in Requests, NEW s \in Requests,
         Earlier(r, s), Proof(s)' = Proof(s), Name(s)' = Name(s)
  PROVE  Earlier(r, s)'
<1>1. PICK t \in Settlers \ {s} : Proof(t) = Proof(s) /\ Name(t) = Name(s) /\ r \notin before[t]
  BY DEF Earlier
<1>2. t \in Settlers' \ {s} /\ Proof(t)' = Proof(t) /\ Name(t)' = Name(t) /\ r \notin before'[t]
  BY <1>1, SettlersStay DEF Kept
<1>3. QED
  BY <1>1, <1>2 DEF Earlier

\* Every step keeps the bound proofs closed.
LEMMA BindingsStep == IInv /\ [Next]_vars => BindingsHold'
<1> SUFFICES ASSUME IInv, [Next]_vars, NEW r \in bound'
             PROVE  Guarded(r)'
  BY DEF BindingsHold
<1>0. TypeOK /\ Carried /\ OutIsTrue /\ BindersSettled /\ BindingsHold /\ LateOnesFollow
  BY DEF IInv
<1>1. r \in Settlers /\ HasSite(r) /\ r \in Requests
  BY <1>0, StoreWrites DEF BindersSettled, Settlers
<1>2. Proof(r) \in Proofs /\ Proof(r) \in paid /\ Proof(r)' = Proof(r) /\ Name(r)' = Name(r)
  BY <1>0, <1>1, SettlersStay DEF OutIsTrue, Settlers, TypeOK
<1> DEFINE Past(n) == \E t \in Settlers : Proof(t) = Proof(r) /\ Name(t) = n /\ r \notin before[t]
<1>3. \A n : Past(n) => Past(n)'
  BY <1>2, SettlersStay DEF Kept
<1>4. CASE ForGood(Proof(r))
  <2>1. ForGood(Proof(r))'
    BY <1>2, <1>4, Stays DEF ForGood
  <2>2. QED
    BY <1>2, <2>1 DEF Guarded
<1>5. CASE r \notin bound
  <2>1. consumed'[Proof(r)] = Name(r)
    BY <1>0, <1>2, <1>5, StoreWrites DEF TypeOK
  <2>2. QED
    BY <1>2, <2>1 DEF Guarded
<1>6. CASE r \in bound /\ ~ForGood(Proof(r))
  <2>1. consumed[Proof(r)] = Name(r) \/ Past(consumed[Proof(r)])
    BY <1>0, <1>6 DEF BindingsHold, Guarded
  <2>2. CASE consumed'[Proof(r)] = consumed[Proof(r)]
    BY <1>2, <1>3, <2>1, <2>2 DEF Guarded
  <2>3. ASSUME NEW q \in Requests, q \in Settlers, HasSite(q), Proof(q) = Proof(r),
               consumed'[Proof(r)] = Name(q)
        PROVE  Guarded(r)'
    <3>1. CASE Name(q) = Name(r)
      BY <1>2, <2>3, <3>1 DEF Guarded
    <3>2. CASE r \notin before[q]
      BY <1>2, <1>3, <2>3, <3>2 DEF Guarded
    <3>3. CASE Late(r, q)
      <4>1. Past(Name(q))
        BY <1>0, <1>6, <2>3, <3>3 DEF LateOnesFollow, Earlier
      <4>2. QED
        BY <1>2, <1>3, <2>3, <4>1 DEF Guarded
    <3>4. QED
      BY <2>3, <3>1, <3>2, <3>3 DEF Late
  <2>4. ASSUME NEW q \in Requests, q \in Settlers, HasSite(q),
               consumed' = [consumed EXCEPT ![Proof(q)] = Name(q)]
        PROVE  Guarded(r)'
    <3>1. Proof(q) = Proof(r) => consumed'[Proof(r)] = Name(q)
      BY <1>0, <1>2, <2>4 DEF TypeOK
    <3>2. Proof(q) # Proof(r) => consumed'[Proof(r)] = consumed[Proof(r)]
      BY <1>0, <1>2, <2>4 DEF TypeOK
    <3>3. QED
      BY <2>2, <2>3, <2>4, <3>1, <3>2
  <2>5. ASSUME NEW p \in Proofs, p \notin settled, consumed' = [consumed EXCEPT ![p] = None]
        PROVE  Guarded(r)'
    <3>1. p # Proof(r)
      BY <1>2, <1>6, <2>5 DEF ForGood
    <3>2. consumed'[Proof(r)] = consumed[Proof(r)]
      BY <1>0, <1>2, <2>5, <3>1 DEF TypeOK
    <3>3. QED
      BY <2>2, <3>2
  <2>6. QED
    BY <2>2, <2>4, <2>5, StoreWrites
<1>7. QED
  BY <1>4, <1>5, <1>6

\* How a request comes to settle, and becomes a settler.
LEMMA Advances ==
  ASSUME IInv, [Next]_vars, NEW s \in Requests
  PROVE  /\ pc'[s] = "settle" =>
              \/ pc[s] = "settle"
              \/ /\ pc[s] = "consumed"
                 /\ ~HasSite(s) \/ consumed[Proof(s)] \in {None, Name(s)}
         /\ out'[s] = "ok" =>
              \/ out[s] = "ok"
              \/ pc[s] = "settle" /\ (Proof(s) \in settled \/ Proof(s) \notin paid)
<1> DEFINE Goal ==
         /\ pc'[s] = "settle" =>
              \/ pc[s] = "settle"
              \/ /\ pc[s] = "consumed"
                 /\ ~HasSite(s) \/ consumed[Proof(s)] \in {None, Name(s)}
         /\ out'[s] = "ok" =>
              \/ out[s] = "ok"
              \/ pc[s] = "settle" /\ (Proof(s) \in settled \/ Proof(s) \notin paid)
<1> USE DEF redisVars, facilitatorVars, Goto, Answer
<1>0. TypeOK
  BY DEF IInv
<1>1. ASSUME NEW r \in Requests, ArriveSettle(r) \/ ArriveInternal(r)
      PROVE  Goal
  BY <1>0, <1>1 DEF ArriveSettle, ArriveInternal, Arrive, TypeOK
<1>2. ASSUME NEW r \in Requests, Replay(r) \/ CheckSession(r)
      PROVE  Goal
  BY <1>0, <1>2 DEF Replay, CheckSession, TypeOK
<1>3. ASSUME NEW r \in Requests, VerifySettle(r) \/ VerifyInternal(r)
      PROVE  Goal
  BY <1>0, <1>3 DEF VerifySettle, VerifyInternal, Verified, TypeOK
<1>4. ASSUME NEW r \in Requests, CheckConsumed(r)
      PROVE  Goal
  BY <1>0, <1>4 DEF CheckConsumed, TypeOK
<1>5. ASSUME NEW r \in Requests, Settle(r)
      PROVE  Goal
  BY <1>0, <1>5 DEF Settle, TypeOK
<1>6. ASSUME NEW r \in Requests, OpenSession(r) \/ Bind(r) \/ Cache(r)
      PROVE  Goal
  BY <1>0, <1>6 DEF OpenSession, Bind, Cache, TypeOK
<1>7. CASE Crash \/ Forget \/ (\E p \in Proofs : Expire(p)) \/ UNCHANGED vars
  BY <1>7 DEF Crash, Forget, Expire, vars
<1>8. QED
  BY <1>1, <1>2, <1>3, <1>4, <1>5, <1>6, <1>7 DEF Next

\* Whoever comes late and passes the binding follows an earlier one, or is stopped by
\* the facilitator.
LEMMA LateStep == IInv /\ [Next]_vars => LateOnesFollow'
<1> SUFFICES ASSUME IInv, [Next]_vars, NEW r \in bound', NEW s \in Requests, Late(r, s)'
             PROVE  /\ (s \in Settlers => Earlier(r, s))'
                    /\ (pc[s] = "settle" => ForGood(Proof(s)) \/ Earlier(r, s))'
  BY DEF LateOnesFollow
<1>0. TypeOK /\ Carried /\ OutIsTrue /\ BindersSettled /\ BindingsHold /\ LateOnesFollow
  BY DEF IInv
<1>1. r \in bound
  <2>1. pc'[r] = "over"
    BY CarriedStep DEF Carried, Late
  <2>2. QED
    BY <2>1, StoreWrites
<1>2. r \in Settlers /\ r \in Requests /\ HasSite(r)
  BY <1>0, <1>1 DEF BindersSettled, Settlers
<1>3. Proof(r) \in paid /\ Proof(r)' = Proof(r) /\ Name(r)' = Name(r)
  BY <1>0, <1>2, SettlersStay DEF OutIsTrue, Settlers
<1>4. CASE pc[s] \in {"new", "verify"}
  <2>1. out[s] = "none"
    BY <1>0, <1>4 DEF Carried
  <2>2. out'[s] # "ok" /\ pc'[s] # "settle"
    BY <1>4, <2>1, Advances
  <2>3. QED
    BY <2>2 DEF Settlers
<1>5. CASE pc[s] \notin {"new", "verify"}
  <2>1. Kept(s)
    BY <1>5, Stays
  <2>2. Proof(s)' = Proof(s) /\ Name(s)' = Name(s) /\ HasSite(s)' = HasSite(s)
    BY <2>1 DEF Kept, Proof, Name, HasSite
  <2>3. Late(r, s)
    BY <1>3, <2>1, <2>2 DEF Late, Kept
  <2>4. Earlier(r, s) => Earlier(r, s)'
    BY <1>2, <2>2, EarlierStays
  <2>5. Proof(s) = Proof(r) /\ Proof(s) \in Proofs
    BY <1>0, <1>3, <2>3 DEF Late, TypeOK
  <2>6. ForGood(Proof(s)) => ForGood(Proof(s))'
    BY <2>2, <2>5, Stays DEF ForGood
  <2>7. CASE s \in Settlers
    BY <1>0, <1>1, <2>3, <2>4, <2>7 DEF LateOnesFollow
  <2>8. CASE pc[s] = "settle"
    <3>1. ForGood(Proof(s)) \/ Earlier(r, s)
      BY <1>0, <1>1, <2>3, <2>8 DEF LateOnesFollow
    <3>2. s \in Settlers' => Earlier(r, s)
      <4>1. out[s] = "none"
        BY <1>0, <2>8 DEF Carried
      <4>2. s \in Settlers' => Proof(s) \in settled
        BY <1>3, <2>5, <4>1, Advances DEF Settlers
      <4>3. QED
        BY <3>1, <4>2 DEF ForGood
    <3>3. QED
      BY <2>4, <2>6, <3>1, <3>2
  <2>9. CASE pc[s] # "settle" /\ s \notin Settlers
    <3>1. s \notin Settlers'
      BY <2>9, Advances DEF Settlers
    <3>2. ASSUME pc'[s] = "settle"
          PROVE  ForGood(Proof(s)) \/ Earlier(r, s)
      <4>1. consumed[Proof(s)] \in {None, Name(s)}
        BY <2>3, <2>9, <3>2, Advances DEF Late
      <4>2. Guarded(r)
        BY <1>0, <1>1 DEF BindingsHold
      <4>3. \A t \in Settlers : Name(t) # None
        <5>1. \A t \in Settlers : shape[t] \in Shapes /\ by[t] \in {"siteId", "domain", "nothing"}
          BY <1>0 DEF Settlers, OutIsTrue, TypeOK
        <5>2. \A t \in Settlers : Name(t) \in [by : {"siteId", "domain", "nothing"}, res : Resources]
          BY <5>1, ShapesAssumption DEF Name
        <5>3. QED
          BY <5>2, NoneAssumption
      <4>4. CASE ForGood(Proof(r))
        BY <2>5, <4>4
      <4>5. CASE consumed[Proof(r)] = Name(r)
        BY <1>2, <2>3, <2>5, <4>1, <4>3, <4>5 DEF Late
      <4>6. ASSUME NEW t \in Settlers, Proof(t) = Proof(r), Name(t) = consumed[Proof(r)],
                   r \notin before[t]
            PROVE  Earlier(r, s)
        BY <2>5, <2>9, <4>1, <4>3, <4>6 DEF Earlier
      <4>7. QED
        BY <4>2, <4>4, <4>5, <4>6 DEF Guarded
    <3>3. QED
      BY <2>4, <2>6, <3>1, <3>2
  <2>10. QED
    BY <2>7, <2>8, <2>9
<1>6. QED
  BY <1>4, <1>5

\* The grounds of an answer last, and whoever answers has them.
LEMMA AnswersStep == IInv /\ [Next]_vars => AnswersGrounded'
<1> SUFFICES ASSUME IInv, [Next]_vars, NEW s \in Requests
             PROVE  Grounds(s)'
  BY DEF AnswersGrounded
<1>0. TypeOK /\ Carried /\ OutIsTrue /\ StoresAreTrue /\ AnswersGrounded
  BY DEF IInv
<1>1. ASSUME Grounds(s), Kept(s)
      PROVE  /\ SessionOpened(Name(s), VerifyPayer(Proof(s))) =>
                  SessionOpened(Name(s), VerifyPayer(Proof(s)))'
             /\ (\E t \in Settlers : Key(t) = Key(s) /\ Proof(t) = Proof(s)) =>
                  (\E t \in Settlers : Key(t) = Key(s) /\ Proof(t) = Proof(s))'
             /\ (\E t \in Requests : Refused(t) /\ Key(t) = Key(s) /\ SameBody(s, shape[t])) =>
                  (\E t \in Requests : Refused(t) /\ Key(t) = Key(s) /\ SameBody(s, shape[t]))'
             /\ (\E t \in Settlers : Proof(t) = Proof(s) /\ Name(t) # Name(s)) =>
                  (\E t \in Settlers : Proof(t) = Proof(s) /\ Name(t) # Name(s))'
  <2>1. Proof(s)' = Proof(s) /\ Key(s)' = Key(s) /\ Name(s)' = Name(s)
    BY <1>1 DEF Kept, Proof, Key, Name
  <2>2. VerifyPayer(Proof(s))' = VerifyPayer(Proof(s))
    BY <2>1 DEF VerifyPayer
  <2>3. shape'[s] = shape[s]
    BY <1>1 DEF Kept
  <2>4. QED
    BY <2>1, <2>2, <2>3, SettlersStay, RefusalsStay DEF SessionOpened, SameBody
<1>2. ASSUME answer'[s] = answer[s]
      PROVE  Grounds(s)'
  <2>1. CASE pc[s] = "over"
    BY <1>0, <1>1, <1>2, <2>1, Stays DEF Grounds, AnswersGrounded
  <2>2. CASE pc[s] # "over"
    BY <1>0, <1>2, <2>2 DEF Grounds, TypeOK
  <2>3. QED
    BY <2>1, <2>2
<1>3. Grounds(s)
  BY <1>0 DEF AnswersGrounded
<1>4. CASE Replay(s)
  <2>1. shape[s] \in Shapes /\ Key(s) \in Keys
    BY <1>0, <1>4, ShapesAssumption DEF Replay, Carried, TypeOK, Key
  <2>2. idem[Key(s)] # None => Cached(Key(s), idem[Key(s)])
    BY <1>0, <2>1 DEF StoresAreTrue
  <2>3. Kept(s)
    BY <1>4, Stays DEF Replay
  <2>4. answer'[s] \in {answer[s], "replayed", "replayed_failure", "failed"}
    BY <1>0, <1>4 DEF Replay, Goto, Answer, TypeOK
  <2>5. CASE answer'[s] = "replayed" /\ answer[s] # "replayed"
    <3>1. idem[Key(s)] # None /\ idem[Key(s)].proof = Proof(s) /\ idem[Key(s)].success
      BY <1>0, <1>4, <2>5 DEF Replay, Goto, Answer, TypeOK, SameBody
    <3>2. QED
      BY <1>1, <1>3, <2>2, <2>3, <2>5, <3>1 DEF Cached, Grounds
  <2>6. CASE answer'[s] = "replayed_failure" /\ answer[s] # "replayed_failure"
    <3>1. idem[Key(s)] # None /\ SameBody(s, idem[Key(s)]) /\ ~idem[Key(s)].success
      BY <1>0, <1>4, <2>6 DEF Replay, Goto, Answer, TypeOK
    <3>2. \E t \in Requests : Refused(t) /\ Key(t) = Key(s) /\ SameBody(s, shape[t])
      BY <2>2, <3>1 DEF Cached, SameBody, Proof
    <3>3. QED
      BY <1>1, <1>3, <2>3, <2>6, <3>2 DEF Grounds
  <2>7. QED
    BY <1>2, <2>4, <2>5, <2>6 DEF Grounds
<1>5. CASE CheckSession(s)
  <2>1. Kept(s) /\ shape[s] \in Shapes
    BY <1>0, <1>5, Stays DEF CheckSession, Carried, TypeOK
  <2>2. ASSUME HasSite(s)
        PROVE  Name(s) \in Names /\ VerifyPayer(Proof(s)) \in Payers
    <3>1. Name(s) \in Names
      BY <1>0, <2>1, <2>2, ShapesAssumption DEF Name, Names, HasSite, TypeOK
    <3>2. VerifyPayer(Proof(s)) \in Payers
      BY <2>1, ShapesAssumption, ProofsAssumption DEF VerifyPayer, Payers, Proof
    <3>3. QED
      BY <3>1, <3>2
  <2>3. answer'[s] = answer[s] \/
          (answer'[s] = "session" /\ HasSite(s) /\ sessions[<<Name(s), VerifyPayer(Proof(s))>>] # None)
    BY <1>0, <1>5 DEF CheckSession, Goto, Answer, TypeOK
  <2>4. CASE answer'[s] = "session" /\ SessionOpened(Name(s), VerifyPayer(Proof(s)))
    BY <1>1, <1>3, <2>1, <2>4 DEF Grounds
  <2>5. QED
    BY <1>0, <1>2, <2>2, <2>3, <2>4 DEF StoresAreTrue
<1>6. CASE CheckConsumed(s)
  <2>1. Kept(s) /\ shape[s] \in Shapes
    BY <1>0, <1>6, Stays DEF CheckConsumed, Carried, TypeOK
  <2>2. Proof(s) \in Proofs
    BY <2>1, ShapesAssumption DEF Proof
  <2>3. \/ answer'[s] = answer[s]
        \/ answer'[s] = "failed"
        \/ answer'[s] = "refused" /\ consumed[Proof(s)] \notin {None, Name(s)}
    BY <1>0, <1>6 DEF CheckConsumed, Goto, Answer, TypeOK
  <2>4. CASE answer'[s] = "refused" /\ consumed[Proof(s)] \notin {None, Name(s)}
    <3>1. BoundBy(Proof(s), consumed[Proof(s)])
      BY <1>0, <2>2, <2>4 DEF StoresAreTrue
    <3>2. \E t \in Settlers : Proof(t) = Proof(s) /\ Name(t) # Name(s)
      BY <2>4, <3>1 DEF BoundBy
    <3>3. QED
      BY <1>1, <1>3, <2>1, <2>4, <3>2 DEF Grounds
  <2>5. QED
    BY <1>2, <2>3, <2>4 DEF Grounds
<1>7. \/ answer'[s] \in {answer[s], "failed", "settled", "lost"}
      \/ Replay(s) \/ CheckSession(s) \/ CheckConsumed(s)
  <2> USE DEF redisVars, facilitatorVars, Goto, Answer
  <2> DEFINE Other == answer'[s] \in {answer[s], "failed", "settled", "lost"}
  <2>1. ASSUME NEW r \in Requests, ArriveSettle(r) \/ ArriveInternal(r)
        PROVE  Other
    BY <2>1 DEF ArriveSettle, ArriveInternal, Arrive
  <2>2. ASSUME NEW r \in Requests, Replay(r) \/ CheckSession(r) \/ CheckConsumed(r), r # s
        PROVE  Other
    BY <1>0, <2>2 DEF Replay, CheckSession, CheckConsumed, TypeOK
  <2>3. ASSUME NEW r \in Requests, VerifySettle(r) \/ VerifyInternal(r)
        PROVE  Other
    BY <1>0, <2>3 DEF VerifySettle, VerifyInternal, Verified, TypeOK
  <2>4. ASSUME NEW r \in Requests, Settle(r)
        PROVE  Other
    BY <1>0, <2>4 DEF Settle, TypeOK
  <2>5. ASSUME NEW r \in Requests, OpenSession(r) \/ Bind(r) \/ Cache(r)
        PROVE  Other
    BY <1>0, <2>5 DEF OpenSession, Bind, Cache, TypeOK
  <2>6. CASE Crash \/ Forget \/ (\E p \in Proofs : Expire(p)) \/ UNCHANGED vars
    BY <1>0, <2>6 DEF Crash, Forget, Expire, vars, TypeOK
  <2>7. QED
    BY <2>1, <2>2, <2>3, <2>4, <2>5, <2>6 DEF Next
<1>8. QED
  BY <1>2, <1>4, <1>5, <1>6, <1>7 DEF Grounds

-----------------------------------------------------------------------------
\* The invariant holds in every reachable state.
THEOREM GatewayInvariance == Spec => []IInv
<1>1. IInv /\ [Next]_vars => IInv'
  BY TypeStep, CarriedStep, OutStep, StoresStep, BindersStep, BindingsStep, LateStep,
     AnswersStep DEF IInv
<1>2. QED
  BY Initial, <1>1, PTL DEF Spec

\* The state keeps its types.
THEOREM GatewayTypeCorrect == Spec => []TypeOK
<1>1. IInv => TypeOK
  BY DEF IInv
<1>2. QED
  BY <1>1, GatewayInvariance, PTL

\* Once a binding is stored, its proof unlocks nothing that was not already being
\* settled: the order of settle, session and binding leaves no later way around it.
THEOREM BindingCloses == Spec => []NoLateUnlock
<1>1. IInv => NoLateUnlock
  <2> SUFFICES ASSUME IInv, NEW r \in bound, NEW s \in Requests, r \in before[s],
                      Proof(s) = Proof(r), Name(s) # Name(r), HasSite(s), answer[s] = "settled"
               PROVE  \E t \in Settlers \ {s} :
                        Proof(t) = Proof(s) /\ Name(t) = Name(s) /\ r \notin before[t]
    BY DEF NoLateUnlock
  <2>1. Late(r, s) /\ s \in Settlers
    BY DEF IInv, Carried, Late, Settlers
  <2>2. Earlier(r, s)
    BY <2>1 DEF IInv, LateOnesFollow
  <2>3. QED
    BY <2>2 DEF Earlier
<1>2. QED
  BY <1>1, GatewayInvariance, PTL

\* A proof is refused only after it was settled under another name.
THEOREM RefusalsAreRight == Spec => []RefusedMeansSettledElsewhere
<1>1. IInv => RefusedMeansSettledElsewhere
  BY DEF IInv, AnswersGrounded, Grounds, RefusedMeansSettledElsewhere
<1>2. QED
  BY <1>1, GatewayInvariance, PTL

\* What a caller is told of a payment is true: behind a success that was settled, taken
\* from a session or replayed there is a spent proof, behind a replayed failure there
\* is the facilitator's refusal of that body, never a lost answer.
THEOREM AnswersTold == Spec => []AnswersAreTrue
<1>1. ASSUME IInv
      PROVE  UnlocksArePaid
  <2> SUFFICES ASSUME NEW r \in Requests, answer[r] \in Unlocks
               PROVE  \E t \in Settlers :
                        /\ Proof(t) \in paid
                        /\ \/ Proof(t) = Proof(r)
                           \/ /\ Name(t) = Name(r)
                              /\ SettlePayer(Proof(t)) = VerifyPayer(Proof(r))
    BY DEF UnlocksArePaid
  <2>1. \A t \in Settlers : Proof(t) \in paid
    BY <1>1 DEF IInv, OutIsTrue, Settlers
  <2>2. CASE answer[r] = "settled"
    BY <1>1, <2>1, <2>2 DEF IInv, Carried, Settlers
  <2>3. CASE answer[r] = "session"
    BY <1>1, <2>1, <2>3 DEF IInv, AnswersGrounded, Grounds, SessionOpened
  <2>4. CASE answer[r] = "replayed"
    BY <1>1, <2>1, <2>4 DEF IInv, AnswersGrounded, Grounds
  <2>5. QED
    BY <2>2, <2>3, <2>4 DEF Unlocks
<1>2. ASSUME IInv
      PROVE  ReplaysAreTrue
  BY <1>2 DEF IInv, AnswersGrounded, Grounds, ReplaysAreTrue
<1>3. QED
  BY <1>1, <1>2, GatewayInvariance, PTL DEF AnswersAreTrue

-----------------------------------------------------------------------------
(* Hydration, for any clients, requests, times and changes of the row, with a cache  *)
(* that keeps an entry for TTL and a lookup that takes at most LookupTime.  What an  *)
(* entry says is as old as its lookup: it expires a TTL after the answer came, and   *)
(* the answer is at most LookupTime younger than the row that it read.               *)

\* The configurations that are kept, the answers under way, and the handlers.
StoredIsRecent ==
  \A k \in CacheKeys : cache[k] # Nothing =>
    cache[k].readAt <= now /\ cache[k].until <= cache[k].readAt + TTL + LookupTime
AnswersAreRecent ==
  \A c \in Clients : wait[c] # Nothing =>
    /\ wait[c].at <= now /\ now <= wait[c].at + LookupTime
    /\ req[c].pc \in Lookups
AskedFirst ==
  \A c \in Clients :
    /\ req[c].pc # "idle" => req[c].ask \in Ask
    /\ req[c].pc = "byToken" => req[c].ask.token # Nothing
    /\ req[c].pc = "settle" => req[c].ask.proof # Nothing

\* All of it, inductive.
HydrationInv ==
  /\ HydrationTypeOK
  /\ row.wp <= changes + 1
  /\ StoredIsRecent
  /\ AnswersAreRecent
  /\ AskedFirst
  /\ ConfigIsRecent

\* The places and the records of the handlers, as HydrationTypeOK has them.
HPcs == {"idle", "settle", "body"} \cup Lookups \cup Failed \cup Served
ReqRec == [pc: HPcs, ask: Ask \cup {Nothing}, age: Nat, wp: Versions]

\* The initial state satisfies it.
LEMMA HydrationInitial == HydrationInit => HydrationInv
<1> SUFFICES ASSUME HydrationInit PROVE HydrationInv
  OBVIOUS
<1> USE HydrationConstants DEF HydrationInit, Versions
<1>0. MaxChanges \in Nat \ {0}
  OBVIOUS
<1>1. row \in Row /\ row.wp <= changes + 1
  <2>1. PICK n \in {0, 1} : row = [on |-> TRUE, wp |-> n]
    OBVIOUS
  <2>2. n \in Versions /\ n <= changes + 1
    BY <1>0
  <2>3. QED
    BY <2>1, <2>2 DEF Row
<1>2. HydrationTypeOK
  BY <1>1 DEF HydrationTypeOK, Row
<1>3. StoredIsRecent /\ AnswersAreRecent /\ AskedFirst /\ ConfigIsRecent
  BY DEF StoredIsRecent, AnswersAreRecent, AskedFirst, ConfigIsRecent
<1>4. QED
  BY <1>1, <1>2, <1>3 DEF HydrationInv

\* A lookup's key is one of the cache.
LEMMA KeyOfIsKey ==
  ASSUME HydrationTypeOK, AskedFirst, NEW c \in Clients, req[c].pc \in Lookups
  PROVE  KeyOf(c) \in CacheKeys
<1>1. CASE req[c].pc = "byToken"
  <2>1. req[c].ask \in Ask /\ req[c].ask.token # Nothing
    BY <1>1 DEF AskedFirst
  <2>2. req[c].ask.token \in Versions
    BY <2>1 DEF Ask
  <2>3. QED
    BY <1>1, <2>2 DEF KeyOf, CacheKeys
<1>2. CASE req[c].pc # "byToken"
  BY <1>2 DEF KeyOf, CacheKeys
<1>3. QED
  BY <1>1, <1>2

\* What the handlers of the clients may become by an update of one of them.
HandlersFine ==
  /\ req \in [Clients -> ReqRec]
  /\ AskedFirst
  /\ ConfigIsRecent

\* An update of one handler by a record that is fine.
LEMMA HandlerUpdate ==
  ASSUME HandlersFine, NEW c \in Clients, NEW r \in ReqRec,
         req' = [req EXCEPT ![c] = r],
         r.pc # "idle" => r.ask \in Ask, r.pc = "byToken" => r.ask.token # Nothing,
         r.pc = "settle" => r.ask.proof # Nothing, r.age < TTL + LookupTime
  PROVE  /\ HandlersFine'
         /\ \A d \in Clients : d # c => req'[d] = req[d]
         /\ req'[c] = r
BY DEF HandlersFine, AskedFirst, ConfigIsRecent

\* A step of a handler that only changes its place.
LEMMA GoOnKeeps ==
  ASSUME HandlersFine, NEW c \in Clients, NEW to \in HPcs \ {"idle", "byToken", "settle"},
         req[c].pc # "idle", GoOn(c, to)
  PROVE  /\ HandlersFine'
         /\ \A d \in Clients : d # c => req'[d] = req[d]
<1> DEFINE r == [req[c] EXCEPT !.pc = to]
<1>1. r \in ReqRec /\ r.pc = to /\ r.ask = req[c].ask /\ r.age = req[c].age
  BY DEF HandlersFine, ReqRec
<1>2. req' = [req EXCEPT ![c] = r]
  BY DEF GoOn
<1>3. r.ask \in Ask /\ r.age < TTL + LookupTime
  BY <1>1 DEF HandlersFine, AskedFirst, ConfigIsRecent
<1> HIDE DEF r
<1>4. QED
  BY <1>1, <1>2, <1>3, HandlerUpdate

\* What a lookup that ends does with the handler and the cache, from an answer that
\* is recent and a cache that is.
LEMMA ResumeKeeps ==
  ASSUME HandlersFine, NEW c \in Clients, now \in Nat,
         req[c].pc \in Lookups,
         NEW res, NEW known \in [CacheKeys -> Found \cup {Nothing}],
         \/ res \in Found /\ res.readAt <= now /\ now < res.readAt + TTL + LookupTime
         \/ res.kind \in {"nil", "error"},
         \A k \in CacheKeys : known[k] # Nothing =>
           known[k].readAt <= now /\ known[k].until <= known[k].readAt + TTL + LookupTime,
         now' = now,
         Resume(c, res, known)
  PROVE  /\ HandlersFine'
         /\ \A d \in Clients : d # c => req'[d] = req[d]
         /\ cache' \in [CacheKeys -> Found \cup {Nothing}]
         /\ StoredIsRecent'
<1> DEFINE found == res.kind = "found"
           hasWp == found /\ res.row.wp # 0
<1>1. found => res \in Found /\ res.readAt <= now /\ now < res.readAt + TTL + LookupTime
  BY DEF Found
<1>2. /\ cache' \in [CacheKeys -> Found \cup {Nothing}]
      /\ \A k \in CacheKeys : cache'[k] = known[k] \/ cache'[k] = Nothing
  BY DEF Resume, CacheKeys
<1>3. StoredIsRecent'
  BY <1>2 DEF StoredIsRecent
<1>4. CASE found /\ Decide(c, res)
  <2> DEFINE ask == req[c].ask
             to == CASE ~res.row.on -> "passthrough"
                     [] res.row.on /\ ask.proof # Nothing -> "settle"
                     [] res.row.on /\ ask.proof = Nothing /\ ask.human ->
                          IF ask.authorize THEN "authorized" ELSE "cached"
                     [] OTHER -> "blocked"
             r == [[req[c] EXCEPT !.pc = to] EXCEPT !.age = now - res.readAt]
  <2>1. req' = [req EXCEPT ![c] = r]
    BY <1>4 DEF Decide, HandlersFine, ReqRec
  <2>2. to \in HPcs \ {"idle", "byToken"} /\ (to = "settle" => ask.proof # Nothing)
    BY DEF HPcs, Lookups, Failed, Served
  <2>3. now - res.readAt \in Nat /\ now - res.readAt < TTL + LookupTime
    BY <1>1, <1>4, HydrationConstants DEF Found
  <2> HIDE DEF to
  <2>4. r \in ReqRec /\ r.pc = to /\ r.ask = req[c].ask /\ r.age = now - res.readAt
    BY <2>2, <2>3 DEF HandlersFine, ReqRec
  <2>5. r.ask \in Ask
    BY <2>4 DEF HandlersFine, AskedFirst, Lookups
  <2> HIDE DEF r
  <2>6. QED
    BY <2>1, <2>2, <2>3, <2>4, <2>5, <1>2, <1>3, HandlerUpdate
<1>5. CASE \E to \in {"byDomain", "notfound", "fresh", "unavailable", "body"} : GoOn(c, to)
  BY <1>2, <1>3, <1>5, GoOnKeeps DEF HPcs, Lookups, Failed, Served
<1>6. CASE /\ hasWp
           /\ req' = [req EXCEPT ![c].pc = "content", ![c].wp = res.row.wp]
  <2> DEFINE r == [[req[c] EXCEPT !.pc = "content"] EXCEPT !.wp = res.row.wp]
  <2>1. req' = [req EXCEPT ![c] = r]
    BY <1>6 DEF HandlersFine, ReqRec
  <2>2. res.row.wp \in Versions
    BY <1>1, <1>6 DEF Found, Row
  <2>3. r \in ReqRec /\ r.pc = "content" /\ r.ask = req[c].ask /\ r.age = req[c].age
    BY <2>2 DEF HandlersFine, ReqRec, HPcs, Lookups
  <2>4. r.ask \in Ask /\ r.age < TTL + LookupTime
    BY <2>3 DEF HandlersFine, AskedFirst, ConfigIsRecent, Lookups
  <2> HIDE DEF r
  <2>5. QED
    BY <2>1, <2>3, <2>4, <1>2, <1>3, HandlerUpdate
<1>7. QED
  BY <1>4, <1>5, <1>6 DEF Resume, Lookups

\* Every step keeps it.
LEMMA HydrationStep == HydrationInv /\ [HydrationNext]_hydrationVars => HydrationInv'
<1> SUFFICES ASSUME HydrationInv, [HydrationNext]_hydrationVars
             PROVE  HydrationInv'
  OBVIOUS
<1> USE DEF HydrationInv
<1>0. /\ TTL \in Nat \ {0} /\ LookupTime \in Nat \ {0} /\ MaxNow \in Nat /\ MaxChanges \in Nat /\ MaxFaults \in Nat
      /\ now \in 0..MaxNow /\ now \in Nat /\ changes \in 0..MaxChanges /\ faults \in 0..MaxFaults
      /\ row \in Row /\ row.wp \in Nat /\ cache \in [CacheKeys -> Found \cup {Nothing}]
      /\ wait \in [Clients -> [found: BOOLEAN, row: Row, at: 0..MaxNow] \cup {Nothing}]
  BY HydrationConstants DEF HydrationTypeOK, Row, Versions
<1>h. HandlersFine
  BY DEF HandlersFine, HydrationTypeOK, HPcs, ReqRec
<1>1. CASE TogglePaywall \/ Reissue
  <2>1. /\ row' \in Row /\ row'.wp <= changes' + 1 /\ changes' \in 0..MaxChanges
    <3>1. changes' = changes + 1 /\ changes' \in 0..MaxChanges
      BY <1>0, <1>1 DEF TogglePaywall, Reissue, Change
    <3>2. PICK b \in BOOLEAN, n \in {row.wp, row.wp + 1} : row' = [on |-> b, wp |-> n]
      <4>1. CASE TogglePaywall
        <5>1. row' = [on |-> ~row.on, wp |-> row.wp]
          BY <1>0, <4>1 DEF TogglePaywall, Row
        <5>2. QED
          BY <5>1
      <4>2. CASE Reissue
        <5>1. row' = [on |-> row.on, wp |-> row.wp + 1] /\ row.on \in BOOLEAN
          BY <1>0, <4>2 DEF Reissue, Row
        <5>2. QED
          BY <5>1
      <4>3. QED
        BY <1>1, <4>1, <4>2
    <3>3. n \in 0..MaxChanges + 1 /\ n <= changes' + 1
      BY <1>0, <3>1, <3>2
    <3>4. QED
      BY <3>1, <3>2, <3>3 DEF Row, Versions
  <2>2. UNCHANGED <<siteWp, cache, now, spent, honoured, req, wait, faults>>
    BY <1>1 DEF TogglePaywall, Reissue
  <2>3. QED
    BY <2>1, <2>2 DEF HydrationTypeOK, StoredIsRecent, AnswersAreRecent, AskedFirst, ConfigIsRecent
<1>2. CASE SiteAdopts
  BY <1>0, <1>2 DEF SiteAdopts, Row, HydrationTypeOK, StoredIsRecent, AnswersAreRecent, AskedFirst, ConfigIsRecent
<1>3. CASE Tick
  <2>1. now' = now + 1 /\ now' \in 0..MaxNow /\ UNCHANGED <<row, siteWp, cache, spent, honoured, req, wait, changes, faults>>
    BY <1>0, <1>3 DEF Tick
  <2>2. StoredIsRecent'
    BY <1>0, <2>1 DEF StoredIsRecent, Found
  <2>3. AnswersAreRecent'
    <3> SUFFICES ASSUME NEW c \in Clients, wait[c] # Nothing
                 PROVE  wait[c].at <= now + 1 /\ now + 1 <= wait[c].at + LookupTime /\ req[c].pc \in Lookups
      BY <2>1 DEF AnswersAreRecent
    <3>1. now - wait[c].at < LookupTime /\ wait[c].at <= now /\ req[c].pc \in Lookups
      BY <1>3 DEF Tick, AnswersAreRecent
    <3>2. wait[c].at \in Nat
      BY <1>0
    <3>3. QED
      BY <1>0, <3>1, <3>2
  <2>4. QED
    BY <2>1, <2>2, <2>3 DEF HydrationTypeOK, AskedFirst, ConfigIsRecent
<1>4. ASSUME NEW c \in Clients, Receive(c)
     PROVE  HydrationInv'
  <2>1. PICK ask \in IF req[c].pc = "idle" THEN Asks[c] ELSE {req[c].ask} :
          req' = [req EXCEPT ![c] = [@ EXCEPT !.pc = FirstLookup(ask), !.ask = ask]]
    BY <1>4 DEF Receive
  <2>2. ask \in Ask
    BY <1>4, AsksAssumption DEF AskedFirst
  <2> DEFINE r == [[req[c] EXCEPT !.pc = FirstLookup(ask)] EXCEPT !.ask = ask]
  <2>3. req' = [req EXCEPT ![c] = r]
    BY <2>1
  <2>4. /\ r \in ReqRec /\ r.ask = ask /\ r.age = req[c].age /\ r.pc = FirstLookup(ask)
    BY <1>h, <2>2 DEF HandlersFine, ReqRec, HPcs, Lookups, FirstLookup
  <2>5. r.pc # "settle" /\ (r.pc = "byToken" => ask.token # Nothing)
    BY <2>4 DEF FirstLookup
  <2>6. r.age < TTL + LookupTime
    BY <2>4 DEF ConfigIsRecent
  <2> HIDE DEF r
  <2>7. HandlersFine' /\ (\A d \in Clients : d # c => req'[d] = req[d]) /\ req'[c] = r
    BY <1>h, <2>2, <2>3, <2>4, <2>5, <2>6, HandlerUpdate
  <2>8. UNCHANGED <<row, siteWp, cache, now, spent, honoured, wait, changes, faults>> /\ req[c].pc \notin Lookups
    BY <1>4 DEF Receive, Failed, Lookups
  <2>9. wait[c] = Nothing
    BY <2>8 DEF AnswersAreRecent
  <2>10. AnswersAreRecent'
    BY <2>7, <2>8, <2>9 DEF AnswersAreRecent
  <2>11. QED
    BY <2>7, <2>8, <2>10 DEF HandlersFine, HydrationTypeOK, HPcs, ReqRec, StoredIsRecent
<1>5. ASSUME NEW c \in Clients, LookupHits(c)
     PROVE  HydrationInv'
  <2> DEFINE res == cache[KeyOf(c)]
  <2>1. KeyOf(c) \in CacheKeys
    BY <1>5, KeyOfIsKey DEF LookupHits
  <2>2. res \in Found /\ res.readAt <= now /\ now < res.until /\ res.until <= res.readAt + TTL + LookupTime
    BY <1>0, <1>5, <2>1 DEF LookupHits, Fresh, StoredIsRecent
  <2>3. now < res.readAt + TTL + LookupTime
    BY <1>0, <2>2 DEF Found
  <2>4. /\ UNCHANGED <<row, siteWp, now, spent, honoured, wait, changes, faults>>
        /\ wait[c] = Nothing /\ req[c].pc \in Lookups
        /\ Resume(c, res, cache)
    BY <1>5 DEF LookupHits
  <2> HIDE DEF res
  <2>5. /\ HandlersFine' /\ (\A d \in Clients : d # c => req'[d] = req[d])
        /\ cache' \in [CacheKeys -> Found \cup {Nothing}] /\ StoredIsRecent'
    BY <1>0, <1>h, <2>2, <2>3, <2>4, ResumeKeeps DEF StoredIsRecent
  <2>6. AnswersAreRecent'
    BY <2>4, <2>5 DEF AnswersAreRecent
  <2>7. QED
    BY <2>4, <2>5, <2>6 DEF HandlersFine, HydrationTypeOK, HPcs, ReqRec
<1>6. ASSUME NEW c \in Clients, LookupReads(c)
     PROVE  HydrationInv'
  <2> DEFINE w == [found |-> KeyOf(c) \in {DomainKey, TokenKey(row.wp)}, row |-> row, at |-> now]
  <2>1. /\ wait' = [wait EXCEPT ![c] = w] /\ req[c].pc \in Lookups
        /\ UNCHANGED <<row, siteWp, cache, now, spent, honoured, req, changes, faults>>
    BY <1>6 DEF LookupReads
  <2>2. w \in [found: BOOLEAN, row: Row, at: 0..MaxNow] /\ w.at = now
    BY <1>0
  <2> HIDE DEF w
  <2>3. /\ wait' \in [Clients -> [found: BOOLEAN, row: Row, at: 0..MaxNow] \cup {Nothing}]
        /\ wait'[c] = w /\ \A d \in Clients : d # c => wait'[d] = wait[d]
    BY <1>0, <2>1, <2>2
  <2>4. AnswersAreRecent'
    BY <1>0, <2>1, <2>2, <2>3 DEF AnswersAreRecent
  <2>5. QED
    BY <2>1, <2>3, <2>4 DEF HydrationTypeOK, StoredIsRecent, AskedFirst, ConfigIsRecent
<1>7. ASSUME NEW c \in Clients, LookupReturns(c) \/ LookupFails(c)
     PROVE  HydrationInv'
  <2>1. /\ wait[c] # Nothing /\ wait' = [wait EXCEPT ![c] = Nothing]
        /\ UNCHANGED <<row, siteWp, now, spent, honoured, changes>> /\ faults' \in 0..MaxFaults
    BY <1>0, <1>7 DEF LookupReturns, LookupFails, Fault
  <2>2. req[c].pc \in Lookups /\ wait[c].at <= now /\ now <= wait[c].at + LookupTime
        /\ wait[c] \in [found: BOOLEAN, row: Row, at: 0..MaxNow]
    BY <1>0, <2>1 DEF AnswersAreRecent
  <2>3. KeyOf(c) \in CacheKeys
    BY <2>2, KeyOfIsKey
  <2>4. Entry(c) \in Found /\ Entry(c).readAt = wait[c].at /\ Entry(c).until = now + TTL
    BY <1>0, <2>2 DEF Entry, Found
  <2> DEFINE new == [cache EXCEPT ![KeyOf(c)] = Entry(c)]
  <2>5. CASE Resume(c, Entry(c), new)
    <3>1. new \in [CacheKeys -> Found \cup {Nothing}]
      BY <1>0, <2>4
    <3>2. \A k \in CacheKeys : new[k] # Nothing =>
            new[k].readAt <= now /\ new[k].until <= new[k].readAt + TTL + LookupTime
      BY <1>0, <2>2, <2>3, <2>4 DEF StoredIsRecent
    <3>3. now < Entry(c).readAt + TTL + LookupTime /\ Entry(c).readAt <= now
      BY <1>0, <2>2, <2>4
    <3> HIDE DEF new
    <3>4. /\ HandlersFine' /\ (\A d \in Clients : d # c => req'[d] = req[d])
          /\ cache' \in [CacheKeys -> Found \cup {Nothing}] /\ StoredIsRecent'
      BY <1>0, <1>h, <2>1, <2>2, <2>4, <2>5, <3>1, <3>2, <3>3, ResumeKeeps
    <3>5. AnswersAreRecent' /\ wait' \in [Clients -> [found: BOOLEAN, row: Row, at: 0..MaxNow] \cup {Nothing}]
      BY <1>0, <2>1, <3>4 DEF AnswersAreRecent
    <3>6. QED
      BY <2>1, <3>4, <3>5 DEF HandlersFine, HydrationTypeOK, HPcs, ReqRec
  <2>6. CASE \E kind \in {"nil", "error"} : Resume(c, [kind |-> kind], cache)
    <3>1. PICK res : res.kind \in {"nil", "error"} /\ Resume(c, res, cache)
      BY <2>6
    <3>4. /\ HandlersFine' /\ (\A d \in Clients : d # c => req'[d] = req[d])
          /\ cache' \in [CacheKeys -> Found \cup {Nothing}] /\ StoredIsRecent'
      BY <1>0, <1>h, <2>1, <2>2, <3>1, ResumeKeeps DEF StoredIsRecent
    <3>5. AnswersAreRecent' /\ wait' \in [Clients -> [found: BOOLEAN, row: Row, at: 0..MaxNow] \cup {Nothing}]
      BY <1>0, <2>1, <3>4 DEF AnswersAreRecent
    <3>6. QED
      BY <2>1, <3>4, <3>5 DEF HandlersFine, HydrationTypeOK, HPcs, ReqRec
  <2>7. QED
    BY <1>7, <2>5, <2>6 DEF LookupReturns, LookupFails
<1>8. ASSUME NEW c \in Clients,
             \/ SettleSucceeds(c) \/ SettleRefused(c) \/ SettleFails(c)
             \/ BodyServed(c) \/ BodyRefused(c) \/ BodyFails(c)
     PROVE  HydrationInv'
  <2> DEFINE Ends == {"authorized", "cached", "refused", "html", "unavailable"}
  <2>1. /\ req[c].pc \in {"settle", "body"} /\ \E to \in Ends : GoOn(c, to)
        /\ UNCHANGED <<row, siteWp, now, wait, changes>> /\ faults' \in 0..MaxFaults
    BY <1>0, <1>8 DEF SettleSucceeds, SettleRefused, SettleFails, BodyServed, BodyRefused, BodyFails, Fault
  <2>2. /\ cache' \in [CacheKeys -> Found \cup {Nothing}]
        /\ \A k \in CacheKeys : cache'[k] = cache[k] \/ cache'[k] = Nothing
    BY <1>0, <1>8 DEF SettleSucceeds, SettleRefused, SettleFails, BodyServed, BodyRefused, BodyFails
  <2>3. spent' \subseteq Payments /\ honoured' \subseteq spent'
    <3>1. req[c].pc = "settle" => req[c].ask \in Ask /\ req[c].ask.proof # Nothing
      BY DEF AskedFirst
    <3>2. CASE SettleSucceeds(c) \/ SettleFails(c)
      <4>1. req[c].ask.proof \in Payments
        BY <3>1, <3>2 DEF SettleSucceeds, SettleFails, Ask
      <4>2. QED
        BY <4>1, <3>2 DEF SettleSucceeds, SettleFails, HydrationTypeOK
    <3>3. CASE SettleRefused(c) \/ BodyServed(c) \/ BodyRefused(c) \/ BodyFails(c)
      BY <3>3 DEF SettleRefused, BodyServed, BodyRefused, BodyFails, HydrationTypeOK
    <3>4. QED
      BY <1>8, <3>2, <3>3
  <2>4. HandlersFine' /\ \A d \in Clients : d # c => req'[d] = req[d]
    BY <1>h, <2>1, GoOnKeeps DEF HPcs, Lookups, Failed, Served
  <2>5. wait[c] = Nothing
    BY <2>1 DEF AnswersAreRecent, Lookups
  <2>6. AnswersAreRecent' /\ StoredIsRecent'
    BY <2>1, <2>2, <2>4, <2>5 DEF AnswersAreRecent, StoredIsRecent
  <2>7. QED
    BY <2>1, <2>2, <2>3, <2>4, <2>6 DEF HandlersFine, HydrationTypeOK, HPcs, ReqRec
<1>9. CASE UNCHANGED hydrationVars \/ (\E p \in Payments : Lapse(p))
  BY <1>9 DEF hydrationVars, Lapse, HydrationTypeOK, StoredIsRecent, AnswersAreRecent, AskedFirst, ConfigIsRecent
<1>10. QED
  BY <1>1, <1>2, <1>3, <1>4, <1>5, <1>6, <1>7, <1>8, <1>9 DEF HydrationNext, Handler

\* Types, the bound on the row's tokens, and the ages, in every reachable state.
THEOREM HydrationInvariance == HydrationSpec => []HydrationInv
BY HydrationInitial, HydrationStep, PTL DEF HydrationSpec

\* No handler decides on a configuration as old as TTL + LookupTime, whatever the
\* order in which slow lookups and invalidations change the cache (main.go:163-165).
THEOREM DecisionsAreRecent == HydrationSpec => []ConfigIsRecent
<1>1. HydrationInv => ConfigIsRecent
  BY DEF HydrationInv
<1>2. QED
  BY <1>1, HydrationInvariance, PTL
=============================================================================
