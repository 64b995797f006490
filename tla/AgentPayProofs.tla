--------------------------- MODULE AgentPayProofs ---------------------------
(***************************************************************************)
(* Proofs about AgentPay, for any number of callers, sessions, payments,   *)
(* changes and failures, and any times; and about Delegation, which makes  *)
(* the wallets that pay, for any number of delegations, transfers and      *)
(* failures.                                                               *)
(*                                                                         *)
(* Three invariants that do not meet: what the gate and its cache know of  *)
(* the access of a user, and how old that is (AccessInv); what a payment   *)
(* under way knows of its session, and what it has spent (PayInv); and     *)
(* what the mishaps of a delegation have paid for (DelegationInv).         *)
(***************************************************************************)
EXTENDS AgentPay, Delegation, FiniteSetTheorems, TLAPS

Modes == {"noncustodial", "no_wallet_linked", "session_override", "custodial"}
PayPcs == {"probe", "no_wallet_linked", "fetch", "fee", "done"}
SessionRecords ==
  [owner : Callers \cup {Playground}, by : Callers, mode : Modes, key : Nat \cup {None},
   seen : Nat, state : {"open", "closed", "evicted"}]
PayRecords ==
  [session : Nat, caller : Callers, mode : Modes, owner : Callers, key : Nat \cup {None},
   began : Nat, probed : Demands \cup {None}, chain : Demands \cup {None},
   fee : {"receipt", "error", None}, pc : PayPcs]
RequestRecords ==
  [by : Callers, came : Nat, read : BOOLEAN \cup {None}, binding : Nat \cup {None},
   pc : {"reading", "read", "passed", "opening"}]

PayTypes ==
  /\ now \in Nat
  /\ sessions \in Seq(SessionRecords)
  /\ pays \in Seq(PayRecords)

\* The mode that a caller's sessions may have.
Suits(c, mode) ==
  /\ c \in Users => mode \in {"noncustodial", "no_wallet_linked"}
  /\ c \in Visitors => mode = "session_override"
  /\ c \in Keys \ Visitors => mode = "custodial"

SessionOk(s) ==
  /\ Suits(s.by, s.mode) /\ s.owner = OwnerId(s.by)
  /\ s.seen <= now
SessionsOk == \A s \in DOMAIN sessions : SessionOk(sessions[s])

\* The session of a payment under way was seen since the payment began, or else swept
\* when the payment had taken longer than the TTL.
Timely(pay) ==
  pay.pc \in {"probe", "fetch", "fee"} =>
    /\ pay.began <= now
    /\ sessions[pay.session].seen >= pay.began
    /\ sessions[pay.session].state = "evicted" => now > pay.began + SessionTTL

PayOk(pay) ==
  /\ pay.session \in DOMAIN sessions /\ pay.owner = pay.caller
  /\ Suits(pay.caller, pay.mode)
  /\ pay.pc = "probe" => pay.mode = "no_wallet_linked"
  /\ (pay.mode = "no_wallet_linked" /\ pay.pc \in {"fetch", "fee", "done"}) => pay.probed # "stellar"
  /\ Timely(pay)
PaysOk == \A p \in DOMAIN pays : PayOk(pays[p])

\* What a payment may have spent, and from which wallet.
PaidBy(pay, t) ==
  CASE pay.caller \in Users /\ t.chain = "stellar" ->
         \/ t.from = pay.caller
         \/ t.from = Server /\ pay.mode = "no_wallet_linked" /\ pay.probed # "stellar"
    [] pay.caller \in Visitors -> t.from = pay.caller
    [] OTHER -> t.from = Server
SpentOk ==
  \A t \in spent : /\ t.pay \in DOMAIN pays /\ pays[t.pay].pc \in {"fee", "done"}
                   /\ PaidBy(pays[t.pay], t)

PayInv == PayTypes /\ SessionsOk /\ PaysOk /\ SpentOk

\* The gate reads the access after the request came, and what it lets through came less
\* than the TTL after a withdrawal.
GateOk ==
  \A r \in Requests : request[r] # None =>
    LET q == request[r]
    IN  /\ q.came <= now
        /\ q.pc \in {"reading", "read"} => q.by \in Users
        /\ q.pc = "read" => q.read \in BOOLEAN
        /\ (q.pc = "read" /\ q.read = TRUE /\ access[q.by].granted = FALSE) =>
             q.came <= access[q.by].since
        /\ (q.pc \in {"passed", "opening"} /\ q.by \in Users /\ access[q.by].granted = FALSE) =>
             q.came < access[q.by].since + EarlyAccessTTL

\* What is cached as granted is forgotten within the TTL of its withdrawal.
CacheOk ==
  \A u \in Users : cache[u] # None =>
    /\ cache[u].exp <= now + EarlyAccessTTL
    /\ (cache[u].granted = TRUE /\ access[u].granted = FALSE) =>
         cache[u].exp <= access[u].since + EarlyAccessTTL

AccessTypes ==
  /\ now \in Nat
  /\ access \in [Users -> [granted : BOOLEAN, since : Nat]]
  /\ cache \in [Users -> [granted : BOOLEAN, exp : Nat] \cup {None}]
  /\ request \in [Requests -> RequestRecords \cup {None}]
  /\ bound \in [Users -> Nat \cup {None}]
  /\ keys \in [Users -> Nat]
AccessInv == AccessTypes /\ GateOk /\ CacheOk

-----------------------------------------------------------------------------
(* The gate. *)

LEMMA Constants ==
  /\ EarlyAccessTTL \in Nat \ {0} /\ SessionTTL \in Nat
  /\ Playground \notin Callers
  /\ \A u \in Users : u \in Callers
  /\ TRUE # None /\ FALSE # None
BY AgentConstants, NoneAssumption DEF Callers

\* What is known of a request while nothing about its user changes.
RequestOk(q) ==
  /\ q.came <= now
  /\ q.pc \in {"reading", "read"} => q.by \in Users
  /\ q.pc = "read" => q.read \in BOOLEAN
  /\ (q.pc = "read" /\ q.read = TRUE /\ access[q.by].granted = FALSE) =>
       q.came <= access[q.by].since
  /\ (q.pc \in {"passed", "opening"} /\ q.by \in Users /\ access[q.by].granted = FALSE) =>
       q.came < access[q.by].since + EarlyAccessTTL

LEMMA RequestHeld ==
  ASSUME AccessInv, NEW r \in Requests, request[r] # None
  PROVE  request[r] \in RequestRecords /\ RequestOk(request[r])
BY DEF AccessInv, AccessTypes, GateOk, RequestOk

LEMMA AccessSet ==
  ASSUME AccessInv, NEW u \in Users, SetAccess(u)
  PROVE  AccessInv'
<1>1. /\ UNCHANGED <<now, cache, request, bound, keys>> /\ now \in Nat
      /\ access' = [access EXCEPT ![u] = [granted |-> ~access[u].granted, since |-> now]]
  BY DEF SetAccess, AccessInv, AccessTypes
<1>2. /\ access' \in [Users -> [granted : BOOLEAN, since : Nat]]
      /\ access'[u].since = now /\ \A v \in Users \ {u} : access'[v] = access[v]
  BY <1>1 DEF AccessInv, AccessTypes
<1>3. AccessTypes'
  BY <1>1, <1>2 DEF AccessInv, AccessTypes
<1>4. GateOk'
  <2> SUFFICES ASSUME NEW r \in Requests, request[r] # None
               PROVE  RequestOk(request[r])'
    BY <1>1 DEF GateOk, RequestOk
  <2> DEFINE q == request[r]
  <2>1. q \in RequestRecords /\ RequestOk(q) /\ q' = q
    BY <1>1, RequestHeld
  <2>2. q.came \in Nat /\ q.came <= now /\ EarlyAccessTTL \in Nat \ {0}
    BY <2>1, Constants DEF RequestRecords, RequestOk
  <2> HIDE DEF q
  <2>3. CASE q.by = u
    <3>1. access'[q.by].since = now
      BY <1>2, <2>3
    <3>2. q.came <= access'[q.by].since /\ q.came < access'[q.by].since + EarlyAccessTTL
      BY <1>1, <2>2, <3>1
    <3>3. QED
      BY <1>1, <2>1, <3>2 DEF RequestOk, q
  <2>4. CASE q.by # u
    <3>1. q.by \in Users => access'[q.by] = access[q.by]
      BY <1>2, <2>4
    <3>2. QED
      BY <1>1, <2>1, <3>1 DEF RequestOk, q
  <2>5. QED
    BY <2>3, <2>4
<1>5. CacheOk'
  <2> SUFFICES ASSUME NEW v \in Users, cache[v] # None
               PROVE  /\ cache[v].exp <= now + EarlyAccessTTL
                      /\ (cache[v].granted = TRUE /\ access'[v].granted = FALSE) =>
                           cache[v].exp <= access'[v].since + EarlyAccessTTL
    BY <1>1 DEF CacheOk
  <2>1. CASE v = u
    BY <1>2, <2>1 DEF AccessInv, CacheOk
  <2>2. CASE v # u
    BY <1>2, <2>2 DEF AccessInv, CacheOk
  <2>3. QED
    BY <2>1, <2>2
<1>6. QED
  BY <1>3, <1>4, <1>5 DEF AccessInv

\* A step on one request.
LEMMA RequestMoves ==
  ASSUME AccessInv, NEW r \in Requests, UNCHANGED <<now, access, bound, keys>>,
         NEW q \in RequestRecords \cup {None}, request' = [request EXCEPT ![r] = q],
         q # None => RequestOk(q)
  PROVE  /\ GateOk' /\ (cache' = cache => AccessInv')
         /\ request' \in [Requests -> RequestRecords \cup {None}]
<1>1. /\ request' \in [Requests -> RequestRecords \cup {None}]
      /\ request'[r] = q /\ \A s \in Requests \ {r} : request'[s] = request[s]
  BY DEF AccessInv, AccessTypes
<1>2. GateOk'
  <2> SUFFICES ASSUME NEW s \in Requests, request'[s] # None
               PROVE  RequestOk(request[s])'
    BY DEF GateOk, RequestOk
  <2>1. CASE s = r
    <3>1. request'[s] = q /\ RequestOk(q)
      BY <1>1, <2>1
    <3>2. QED
      BY <3>1 DEF RequestOk
  <2>2. CASE s # r
    <3>1. request'[s] = request[s] /\ RequestOk(request[s])
      BY <1>1, <2>2, RequestHeld
    <3>2. QED
      BY <3>1 DEF RequestOk
  <2>3. QED
    BY <2>1, <2>2
<1>3. ASSUME cache' = cache
      PROVE  AccessTypes' /\ CacheOk'
  BY <1>1, <1>3 DEF AccessInv, AccessTypes, CacheOk
<1>4. QED
  BY <1>1, <1>2, <1>3 DEF AccessInv

LEMMA Comes ==
  ASSUME AccessInv, NEW r \in Requests, NEW c \in Callers, NEW pc \in {"reading", "passed"},
         Come(r, c, pc), pc = "reading" => c \in Users,
         (pc = "passed" /\ c \in Users /\ access[c].granted = FALSE) =>
           now < access[c].since + EarlyAccessTTL
  PROVE  AccessInv'
<1>1. PICK q : q = [by |-> c, came |-> now, read |-> None, binding |-> None, pc |-> pc]
  OBVIOUS
<1>2. /\ request' = [request EXCEPT ![r] = q]
      /\ UNCHANGED <<now, access, cache, bound, keys>>
  BY <1>1 DEF Come
<1>3. now \in Nat
  BY DEF AccessInv, AccessTypes
<1>4. q \in RequestRecords /\ q.came = now /\ q.by = c /\ q.pc = pc
  BY <1>1, <1>3 DEF RequestRecords
<1>5. RequestOk(q)
  BY <1>3, <1>4 DEF RequestOk
<1>6. QED
  BY <1>2, <1>4, <1>5, RequestMoves

\* A request of a user that the gate knows to have access.
LEMMA AuthPassed ==
  ASSUME AccessInv, NEW r \in Requests, NEW c \in Callers, RequireMcpAuth(r, c)
  PROVE  AccessInv'
<1>1. ASSUME c \in Users, access[c].granted = FALSE
      PROVE  now < access[c].since + EarlyAccessTTL
  <2>1. cache[c] # None /\ cache[c].exp > now /\ cache[c].granted
    BY <1>1 DEF RequireMcpAuth, Cached
  <2>2. cache[c].granted \in BOOLEAN /\ cache[c].exp \in Nat /\ access[c].since \in Nat
        /\ now \in Nat
    BY <1>1, <2>1 DEF AccessInv, AccessTypes
  <2>3. cache[c].exp <= access[c].since + EarlyAccessTTL
    BY <1>1, <2>1, <2>2 DEF AccessInv, CacheOk
  <2>4. QED
    BY <2>1, <2>2, <2>3, Constants
<1>2. QED
  BY <1>1, Comes DEF RequireMcpAuth

\* The access is read after the request came.
LEMMA AccessRead ==
  ASSUME AccessInv, NEW r \in Requests, IsEarlyAccessGranted(r)
  PROVE  AccessInv'
<1>1. PICK granted \in {access[request[r].by].granted, FALSE} :
        request' = [request EXCEPT ![r].pc = "read", ![r].read = granted]
  BY DEF IsEarlyAccessGranted
<1>2. /\ request[r] # None /\ request[r].pc = "reading"
      /\ UNCHANGED <<now, access, cache, bound, keys>>
  BY DEF IsEarlyAccessGranted
<1>3. /\ request[r] \in RequestRecords /\ request[r].by \in Users /\ request[r].came <= now
      /\ access[request[r].by].granted \in BOOLEAN
  BY <1>2, RequestHeld DEF RequestOk, AccessInv, AccessTypes
<1>4. granted \in BOOLEAN /\ (granted = TRUE => access[request[r].by].granted = TRUE)
  BY <1>1, <1>3
<1>5. PICK q : q = [request[r] EXCEPT !.pc = "read", !.read = granted]
  OBVIOUS
<1>6. /\ q \in RequestRecords /\ q.came = request[r].came /\ q.by = request[r].by
      /\ q.read = granted /\ q.pc = "read"
  BY <1>3, <1>4, <1>5 DEF RequestRecords
<1>7. request' = [request EXCEPT ![r] = q]
  BY <1>1, <1>5 DEF AccessInv, AccessTypes
<1>8. RequestOk(q)
  BY <1>3, <1>4, <1>6 DEF RequestOk
<1>9. QED
  BY <1>2, <1>6, <1>7, <1>8, RequestMoves

\* What is cached is as old as the request that asked, and so is what it lets through.
LEMMA AccessCached ==
  ASSUME AccessInv, NEW r \in Requests, McpEarlyAccessGate(r)
  PROVE  AccessInv'
<1> DEFINE q == request[r]
           u == request[r].by
           e == [granted |-> q.read, exp |-> q.came + EarlyAccessTTL]
<1>1. /\ q # None /\ q.pc = "read" /\ UNCHANGED <<now, access, bound, keys>>
      /\ cache' = [cache EXCEPT ![u] = e]
      /\ request' = [request EXCEPT ![r] = IF q.read THEN [q EXCEPT !.pc = "passed"] ELSE None]
  BY DEF McpEarlyAccessGate
<1>2. /\ q \in RequestRecords /\ RequestOk(q) /\ u \in Users /\ q.read \in BOOLEAN
      /\ q.came \in Nat /\ q.came <= now /\ now \in Nat /\ access[u].since \in Nat
      /\ EarlyAccessTTL \in Nat \ {0}
      /\ (q.read = TRUE /\ access[u].granted = FALSE) => q.came <= access[u].since
  <2>1. q \in RequestRecords /\ RequestOk(q)
    BY <1>1, RequestHeld
  <2>2. u \in Users /\ q.read \in BOOLEAN
    BY <1>1, <2>1 DEF RequestOk
  <2>3. QED
    BY <1>1, <2>1, <2>2, Constants DEF RequestRecords, RequestOk, AccessInv, AccessTypes
<1>3. /\ e \in [granted : BOOLEAN, exp : Nat] /\ e.exp <= now + EarlyAccessTTL
      /\ e.granted = q.read /\ e.exp = q.came + EarlyAccessTTL
  BY <1>2
<1>4. (e.granted = TRUE /\ access[u].granted = FALSE) => e.exp <= access[u].since + EarlyAccessTTL
  BY <1>2, <1>3
<1> HIDE DEF e
<1>5. /\ cache' \in [Users -> [granted : BOOLEAN, exp : Nat] \cup {None}]
      /\ cache'[u] = e /\ \A v \in Users \ {u} : cache'[v] = cache[v]
  BY <1>1, <1>2, <1>3 DEF AccessInv, AccessTypes
<1>6. PICK next : next = IF q.read THEN [q EXCEPT !.pc = "passed"] ELSE None
  OBVIOUS
<1>7. next \in RequestRecords \cup {None} /\ (next # None => RequestOk(next))
  <2>1. CASE ~q.read
    BY <1>6, <2>1
  <2>2. CASE q.read
    <3>1. /\ next \in RequestRecords /\ next.pc = "passed" /\ next.by = u
          /\ next.came = q.came
      BY <1>2, <1>6, <2>2 DEF RequestRecords
    <3>2. access[u].granted = FALSE => q.came < access[u].since + EarlyAccessTTL
      BY <1>2, <2>2
    <3> HIDE DEF q, u
    <3>3. QED
      BY <1>2, <3>1, <3>2 DEF RequestOk
  <2>3. QED
    BY <2>1, <2>2
<1>8. GateOk' /\ request' \in [Requests -> RequestRecords \cup {None}]
  BY <1>1, <1>6, <1>7, RequestMoves
<1>9. AccessTypes'
  BY <1>1, <1>5, <1>8 DEF AccessInv, AccessTypes
<1>10. CacheOk'
  <2> SUFFICES ASSUME NEW v \in Users, cache'[v] # None
               PROVE  /\ cache'[v].exp <= now + EarlyAccessTTL
                      /\ (cache'[v].granted = TRUE /\ access[v].granted = FALSE) =>
                           cache'[v].exp <= access[v].since + EarlyAccessTTL
    BY <1>1 DEF CacheOk
  <2> HIDE DEF u, q
  <2>1. CASE v = u
    BY <1>3, <1>4, <1>5, <2>1
  <2>2. CASE v # u
    BY <1>5, <2>2 DEF AccessInv, CacheOk
  <2>3. QED
    BY <2>1, <2>2
<1>11. QED
  BY <1>8, <1>9, <1>10 DEF AccessInv

\* The binding is read, and the request goes on.
LEMMA BindingRead ==
  ASSUME AccessInv, NEW r \in Requests, GetBinding(r)
  PROVE  AccessInv'
<1>1. /\ request[r] # None /\ request[r].pc = "passed"
      /\ UNCHANGED <<now, access, cache, bound, keys>>
  BY DEF GetBinding, Passed
<1> DEFINE c == request[r].by
           found == IF c \in Users THEN bound[c] ELSE None
<1>2. PICK binding \in {found, None} :
        request' = [request EXCEPT ![r].pc = "opening", ![r].binding = binding]
  BY DEF GetBinding
<1>3. request[r] \in RequestRecords /\ RequestOk(request[r])
  BY <1>1, RequestHeld
<1>4. binding \in Nat \cup {None}
  BY <1>2 DEF AccessInv, AccessTypes
<1>5. PICK q : q = [request[r] EXCEPT !.pc = "opening", !.binding = binding]
  OBVIOUS
<1>6. /\ q \in RequestRecords /\ q.came = request[r].came /\ q.by = request[r].by
      /\ q.pc = "opening"
  BY <1>3, <1>4, <1>5 DEF RequestRecords
<1>7. request' = [request EXCEPT ![r] = q]
  BY <1>2, <1>5 DEF AccessInv, AccessTypes
<1>8. RequestOk(q)
  BY <1>1, <1>3, <1>6 DEF RequestOk
<1>9. QED
  BY <1>1, <1>6, <1>7, <1>8, RequestMoves

LEMMA Returned ==
  ASSUME AccessInv, NEW r \in Requests, Return(r)
  PROVE  AccessInv'
BY RequestMoves DEF Return

LEMMA WalletLinked ==
  ASSUME AccessInv, NEW u \in Users, LinkWallet(u)
  PROVE  AccessInv'
<1>1. UNCHANGED <<now, access, cache, request>>
  BY DEF LinkWallet
<1>2. bound' \in [Users -> Nat \cup {None}] /\ keys' \in [Users -> Nat]
  <2>1. bound \in [Users -> Nat \cup {None}] /\ keys \in [Users -> Nat] /\ keys[u] + 1 \in Nat
    BY DEF AccessInv, AccessTypes
  <2>2. CASE bound[u] = None
    BY <2>1, <2>2 DEF LinkWallet
  <2>3. CASE bound[u] # None
    BY <2>1, <2>3 DEF LinkWallet
  <2>4. QED
    BY <2>2, <2>3
<1>3. QED
  BY <1>1, <1>2 DEF AccessInv, AccessTypes, GateOk, CacheOk

LEMMA AccessTick == AccessInv /\ Tick => AccessInv'
<1> SUFFICES ASSUME AccessInv, Tick
             PROVE  AccessInv'
  OBVIOUS
<1>1. now' = now + 1 /\ now \in Nat /\ UNCHANGED <<access, cache, request, bound, keys>>
  BY DEF Tick, AccessInv, AccessTypes
<1>2. AccessTypes'
  BY <1>1 DEF AccessInv, AccessTypes
<1>3. GateOk'
  <2> SUFFICES ASSUME NEW r \in Requests, request[r] # None
               PROVE  RequestOk(request[r])'
    BY <1>1 DEF GateOk, RequestOk
  <2>1. request[r].came \in Nat /\ request[r].came <= now /\ RequestOk(request[r])
    BY RequestHeld DEF RequestRecords, RequestOk
  <2>2. request[r].came <= now'
    BY <1>1, <2>1
  <2>3. QED
    BY <1>1, <2>1, <2>2 DEF RequestOk
<1>4. CacheOk'
  <2> SUFFICES ASSUME NEW u \in Users, cache[u] # None
               PROVE  cache[u].exp <= now' + EarlyAccessTTL
    BY <1>1 DEF AccessInv, CacheOk
  <2>1. cache[u].exp \in Nat /\ cache[u].exp <= now + EarlyAccessTTL
    BY DEF AccessInv, AccessTypes, CacheOk
  <2>2. QED
    BY <1>1, <2>1, Constants
<1>5. QED
  BY <1>2, <1>3, <1>4 DEF AccessInv

LEMMA AccessStep == AccessInv /\ [Next]_vars => AccessInv'
<1> SUFFICES ASSUME AccessInv, [Next]_vars
             PROVE  AccessInv'
  OBVIOUS
<1>1. ASSUME NEW u \in Users, SetAccess(u) \/ LinkWallet(u)
      PROVE  AccessInv'
  BY <1>1, AccessSet, WalletLinked
<1>2. ASSUME NEW r \in Requests, NEW c \in Callers, RequireMcpAuth(r, c)
      PROVE  AccessInv'
  BY <1>2, AuthPassed
<1>3. ASSUME NEW r \in Requests, NEW u \in Users, AskAccess(r, u)
      PROVE  AccessInv'
  BY <1>3, Comes, Constants DEF AskAccess
<1>4. ASSUME NEW r \in Requests,
             \/ IsEarlyAccessGranted(r) \/ McpEarlyAccessGate(r)
             \/ TooMany(r) \/ GetBinding(r) \/ OpenSession(r)
             \/ \E s \in DOMAIN sessions : CallTool(r, s) \/ HandleSessionRequest(r, s)
      PROVE  AccessInv'
  BY <1>4, AccessRead, AccessCached, BindingRead, Returned
     DEF TooMany, OpenSession, CallTool, HandleSessionRequest
<1>5. CASE Tick
  BY <1>5, AccessTick
<1>6. CASE Sweep \/ (\E p \in DOMAIN pays : Quote(p) \/ FetchWithPayment(p) \/ Pay(p))
           \/ UNCHANGED vars
  <2>1. UNCHANGED <<now, access, cache, request, bound, keys>>
    BY <1>6 DEF Sweep, Quote, FetchWithPayment, Pay, Go, vars
  <2>2. QED
    BY <2>1 DEF AccessInv, AccessTypes, GateOk, CacheOk
<1>7. QED
  BY <1>1, <1>2, <1>3, <1>4, <1>5, <1>6 DEF Next

\* What the gate goes by is never older than the TTL of its cache or the request that it
\* was read for, however long reads and requests take (isEarlyAccessGranted and _eaCache
\* of the MCP server).
THEOREM GateInvariance == Spec => []AccessInv
<1>1. Init => AccessInv
  BY Constants DEF Init, AccessInv, AccessTypes, GateOk, CacheOk
<1>2. QED
  BY <1>1, AccessStep, PTL DEF Spec

-----------------------------------------------------------------------------
(* Sessions and payments. *)

LEMMA Chosen ==
  ASSUME NEW c \in Callers, NEW binding
  PROVE  /\ ChooseStellarPaymentMode(c, binding) \in Modes
         /\ Suits(c, ChooseStellarPaymentMode(c, binding))
BY AgentConstants DEF ChooseStellarPaymentMode, Modes, Suits, Callers

\* Who may use a session is who opened it.
LEMMA OwnSession ==
  ASSUME PayInv, NEW s \in DOMAIN sessions, NEW c \in Callers, Own(c, s)
  PROVE  sessions[s].by = c
<1>1. sessions[s] \in SessionRecords /\ sessions[s].owner = OwnerId(sessions[s].by)
  BY DEF PayInv, PayTypes, SessionsOk, SessionOk
<1>2. sessions[s].by \in Callers
  BY <1>1 DEF SessionRecords
<1>3. QED
  BY <1>1, <1>2, Constants DEF Own, OwnerId

LEMMA SessionOpened ==
  ASSUME AccessInv, PayInv, NEW r \in Requests, OpenSession(r)
  PROVE  PayInv'
<1> DEFINE c == request[r].by
           binding == request[r].binding
<1>1. /\ request[r] # None /\ pays' = pays /\ UNCHANGED <<now, spent>>
      /\ sessions' = Append(sessions,
           [owner |-> OwnerId(c), by |-> c, mode |-> ChooseStellarPaymentMode(c, binding),
            key |-> binding, seen |-> now, state |-> "open"])
  BY DEF OpenSession, Return
<1>2. PICK k : k = [owner |-> OwnerId(c), by |-> c, mode |-> ChooseStellarPaymentMode(c, binding),
                    key |-> binding, seen |-> now, state |-> "open"]
  OBVIOUS
<1>3. c \in Callers /\ binding \in Nat \cup {None} /\ now \in Nat
  BY <1>1, RequestHeld DEF RequestRecords, PayInv, PayTypes
<1>4. OwnerId(c) \in Callers \cup {Playground}
  BY <1>3 DEF OwnerId
<1>5. k \in SessionRecords /\ SessionOk(k)
  BY <1>2, <1>3, <1>4, Chosen DEF SessionRecords, SessionOk
<1>6. /\ sessions' \in Seq(SessionRecords) /\ DOMAIN sessions \subseteq DOMAIN sessions'
      /\ \A s \in DOMAIN sessions : sessions'[s] = sessions[s]
      /\ \A s \in DOMAIN sessions' \ DOMAIN sessions : sessions'[s] = k
  BY <1>1, <1>2, <1>5 DEF PayInv, PayTypes
<1>7. PayTypes' /\ SessionsOk' /\ SpentOk'
  BY <1>1, <1>5, <1>6 DEF PayInv, PayTypes, SessionsOk, SessionOk, SpentOk, PaidBy
<1>8. PaysOk'
  <2> SUFFICES ASSUME NEW p \in DOMAIN pays
               PROVE  PayOk(pays[p])'
    BY <1>1 DEF PaysOk
  <2>1. PayOk(pays[p])
    BY DEF PayInv, PaysOk
  <2>2. QED
    BY <1>1, <1>6, <2>1 DEF PayOk, Timely
<1>9. QED
  BY <1>7, <1>8 DEF PayInv

\* A session is seen, or closed: no payment is cut by it.
LEMMA SessionMoves ==
  ASSUME PayInv, NEW s \in DOMAIN sessions, NEW k \in SessionRecords,
         k.owner = sessions[s].owner, k.by = sessions[s].by, k.mode = sessions[s].mode,
         k.seen >= sessions[s].seen, k.seen <= now, k.state # "evicted", Keep(s, k),
         UNCHANGED <<now, spent, pays>>
  PROVE  PayInv'
<1>1. /\ sessions' \in Seq(SessionRecords) /\ DOMAIN sessions' = DOMAIN sessions
      /\ sessions'[s] = k /\ \A t \in DOMAIN sessions \ {s} : sessions'[t] = sessions[t]
  BY DEF Keep, PayInv, PayTypes
<1>2. PayTypes' /\ SpentOk'
  BY <1>1 DEF PayInv, PayTypes, SpentOk, PaidBy
<1>3. SessionsOk'
  <2> SUFFICES ASSUME NEW t \in DOMAIN sessions
               PROVE  SessionOk(sessions[t])'
    BY <1>1 DEF SessionsOk
  <2>1. SessionOk(sessions[t])
    BY DEF PayInv, SessionsOk
  <2>2. CASE t = s
    BY <1>1, <2>1, <2>2 DEF SessionOk
  <2>3. CASE t # s
    BY <1>1, <2>1, <2>3 DEF SessionOk
  <2>4. QED
    BY <2>2, <2>3
<1>4. PaysOk'
  <2> SUFFICES ASSUME NEW p \in DOMAIN pays
               PROVE  PayOk(pays[p])'
    BY DEF PaysOk
  <2>1. PayOk(pays[p]) /\ pays[p] \in PayRecords /\ pays[p].session \in DOMAIN sessions
    BY DEF PayInv, PaysOk, PayTypes, PayOk
  <2>2. sessions[s].seen \in Nat /\ k.seen \in Nat
    <3>1. sessions[s] \in SessionRecords
      BY DEF PayInv, PayTypes
    <3>2. QED
      BY <3>1 DEF SessionRecords
  <2>3. pays[p].began \in Nat
    BY <2>1 DEF PayRecords
  <2>4. CASE pays[p].session = s
    BY <1>1, <2>1, <2>2, <2>3, <2>4 DEF PayOk, Timely
  <2>5. CASE pays[p].session # s
    BY <1>1, <2>1, <2>5 DEF PayOk, Timely
  <2>6. QED
    BY <2>4, <2>5
<1>5. QED
  BY <1>2, <1>3, <1>4 DEF PayInv

LEMMA SessionRequested ==
  ASSUME PayInv, NEW r \in Requests, NEW s \in DOMAIN sessions, HandleSessionRequest(r, s)
  PROVE  PayInv'
<1>1. /\ sessions[s].state = "open" /\ UNCHANGED <<now, spent, pays>>
      /\ \/ Keep(s, [sessions[s] EXCEPT !.seen = now])
         \/ Keep(s, [sessions[s] EXCEPT !.state = "closed"])
  BY DEF HandleSessionRequest, Return
<1>2. sessions[s] \in SessionRecords /\ now \in Nat
  BY DEF PayInv, PayTypes
<1>3. sessions[s].seen <= now
  BY DEF PayInv, SessionsOk, SessionOk
<1>4. ASSUME NEW k, Keep(s, k), k = [sessions[s] EXCEPT !.seen = now]
      PROVE  PayInv'
  <2>1. /\ k \in SessionRecords /\ k.owner = sessions[s].owner /\ k.by = sessions[s].by
        /\ k.mode = sessions[s].mode /\ k.seen = now /\ k.state = "open"
    BY <1>1, <1>2, <1>4 DEF SessionRecords
  <2>2. k.seen >= sessions[s].seen /\ k.seen <= now
    BY <1>2, <1>3, <2>1 DEF SessionRecords
  <2>3. QED
    BY <1>1, <1>4, <2>1, <2>2, SessionMoves
<1>5. ASSUME NEW k, Keep(s, k), k = [sessions[s] EXCEPT !.state = "closed"]
      PROVE  PayInv'
  <2>1. /\ k \in SessionRecords /\ k.owner = sessions[s].owner /\ k.by = sessions[s].by
        /\ k.mode = sessions[s].mode /\ k.seen = sessions[s].seen /\ k.state = "closed"
    BY <1>2, <1>5 DEF SessionRecords
  <2>2. k.seen >= sessions[s].seen /\ k.seen <= now
    BY <1>2, <1>3, <2>1 DEF SessionRecords
  <2>3. QED
    BY <1>1, <1>5, <2>1, <2>2, SessionMoves
<1>6. QED
  BY <1>1, <1>4, <1>5

\* A message begins a payment, in the name of who opened the session.
LEMMA ToolCalled ==
  ASSUME AccessInv, PayInv, NEW r \in Requests, NEW s \in DOMAIN sessions, CallTool(r, s)
  PROVE  PayInv'
<1> DEFINE c == request[r].by
<1>1. /\ request[r] # None /\ sessions[s].state = "open" /\ Own(c, s)
      /\ pays' = Append(pays, NewPay(c, s))
      /\ sessions' = [sessions EXCEPT ![s] = [sessions[s] EXCEPT !.seen = now]]
      /\ UNCHANGED <<now, spent>>
  BY DEF CallTool, Passed, Keep, Return
<1>2. c \in Callers
  BY <1>1, RequestHeld DEF RequestRecords
<1>3. sessions[s].by = c
  BY <1>1, <1>2, OwnSession
<1> HIDE DEF c
<1>4. PICK k : k = [sessions[s] EXCEPT !.seen = now]
  OBVIOUS
<1>5. PICK pay : pay = NewPay(c, s)
  OBVIOUS
<1>6. /\ sessions[s] \in SessionRecords /\ now \in Nat /\ s \in Nat
      /\ SessionOk(sessions[s])
  BY DEF PayInv, PayTypes, SessionsOk
<1>7. /\ k \in SessionRecords /\ k.by = sessions[s].by /\ k.owner = sessions[s].owner
      /\ k.mode = sessions[s].mode /\ k.seen = now /\ k.state = "open"
  BY <1>1, <1>4, <1>6 DEF SessionRecords
<1>8. /\ pay \in PayRecords /\ pay.session = s /\ pay.caller = c /\ pay.owner = c
      /\ pay.mode = sessions[s].mode /\ pay.began = now
      /\ pay.pc = IF sessions[s].mode = "no_wallet_linked" THEN "probe" ELSE "fetch"
  BY <1>2, <1>3, <1>5, <1>6 DEF NewPay, PayRecords, SessionRecords, PayPcs
<1>9. /\ sessions' \in Seq(SessionRecords) /\ DOMAIN sessions' = DOMAIN sessions
      /\ sessions'[s] = k /\ \A t \in DOMAIN sessions \ {s} : sessions'[t] = sessions[t]
  BY <1>1, <1>4, <1>7 DEF PayInv, PayTypes
<1>10. /\ pays' \in Seq(PayRecords) /\ DOMAIN pays \subseteq DOMAIN pays'
       /\ \A p \in DOMAIN pays : pays'[p] = pays[p]
       /\ \A p \in DOMAIN pays' \ DOMAIN pays : pays'[p] = pay
  BY <1>1, <1>5, <1>8 DEF PayInv, PayTypes
<1>11. PayTypes'
  BY <1>1, <1>9, <1>10 DEF PayInv, PayTypes
<1>12. SessionsOk'
  <2> SUFFICES ASSUME NEW t \in DOMAIN sessions
               PROVE  SessionOk(sessions[t])'
    BY <1>9 DEF SessionsOk
  <2>1. SessionOk(sessions[t])
    BY DEF PayInv, SessionsOk
  <2>2. CASE t = s
    <3>1. sessions'[t] = k /\ k.seen <= now
      BY <1>6, <1>7, <1>9, <2>2
    <3>2. QED
      BY <1>1, <1>6, <1>7, <3>1 DEF SessionOk
  <2>3. CASE t # s
    BY <1>1, <1>9, <2>1, <2>3 DEF SessionOk
  <2>4. QED
    BY <2>2, <2>3
<1>13. PaysOk'
  <2> SUFFICES ASSUME NEW p \in DOMAIN pays'
               PROVE  PayOk(pays[p])'
    BY DEF PaysOk
  <2>1. CASE p \in DOMAIN pays
    <3>1. PayOk(pays[p]) /\ pays[p] \in PayRecords /\ pays[p].session \in DOMAIN sessions
      BY <2>1 DEF PayInv, PaysOk, PayTypes, PayOk
    <3>2. pays[p].began \in Nat /\ pays'[p] = pays[p]
      BY <1>10, <2>1, <3>1 DEF PayRecords
    <3>3. CASE pays[p].session = s
      BY <1>1, <1>6, <1>7, <1>9, <3>1, <3>2, <3>3 DEF PayOk, Timely
    <3>4. CASE pays[p].session # s
      BY <1>1, <1>9, <3>1, <3>2, <3>4 DEF PayOk, Timely
    <3>5. QED
      BY <3>3, <3>4
  <2>2. CASE p \notin DOMAIN pays
    <3>1. pays'[p] = pay
      BY <1>10, <2>2
    <3>2. Suits(pay.caller, pay.mode)
      BY <1>3, <1>6, <1>8 DEF SessionOk
    <3>3. QED
      BY <1>1, <1>6, <1>7, <1>8, <1>9, <3>1, <3>2 DEF PayOk, Timely
  <2>3. QED
    BY <2>1, <2>2
<1>14. SpentOk'
  BY <1>1, <1>10 DEF PayInv, SpentOk, PaidBy
<1>15. QED
  BY <1>11, <1>12, <1>13, <1>14 DEF PayInv

\* A payment goes on, and what it spends is from the wallet of its caller.
LEMMA PayMoves ==
  ASSUME PayInv, NEW p \in DOMAIN pays, NEW pay \in PayRecords, Go(p, pay),
         pay.session = pays[p].session, pay.caller = pays[p].caller, pay.owner = pays[p].owner,
         pay.mode = pays[p].mode, pay.began = pays[p].began,
         pays[p].pc \in {"probe", "fetch", "fee"}, pay.pc # "probe",
         pay.probed = pays[p].probed \/ pays[p].pc = "probe",
         (pay.mode = "no_wallet_linked" /\ pay.pc \in {"fetch", "fee", "done"}) =>
           pay.probed # "stellar",
         pay.pc \in {"fee", "done"} \/ (pays[p].pc = "probe" /\ spent' = spent),
         \A t \in spent' \ spent : t.pay = p /\ PaidBy(pay, t),
         spent \subseteq spent'
  PROVE  PayInv'
<1>1. /\ pays' = [pays EXCEPT ![p] = pay] /\ UNCHANGED <<now, sessions>>
  BY DEF Go
<1>2. /\ pays' \in Seq(PayRecords) /\ DOMAIN pays' = DOMAIN pays
      /\ pays'[p] = pay /\ \A q \in DOMAIN pays \ {p} : pays'[q] = pays[q]
  BY <1>1 DEF PayInv, PayTypes
<1>3. PayTypes' /\ SessionsOk'
  BY <1>1, <1>2 DEF PayInv, PayTypes, SessionsOk, SessionOk
<1>4. PaysOk'
  <2> SUFFICES ASSUME NEW q \in DOMAIN pays
               PROVE  PayOk(pays[q])'
    BY <1>2 DEF PaysOk
  <2>1. PayOk(pays[q])
    BY DEF PayInv, PaysOk
  <2>2. CASE q = p
    BY <1>1, <1>2, <2>1, <2>2 DEF PayOk, Timely
  <2>3. CASE q # p
    BY <1>1, <1>2, <2>1, <2>3 DEF PayOk, Timely
  <2>4. QED
    BY <2>2, <2>3
<1>5. SpentOk'
  <2> SUFFICES ASSUME NEW t \in spent'
               PROVE  /\ t.pay \in DOMAIN pays /\ pays'[t.pay].pc \in {"fee", "done"}
                      /\ PaidBy(pays'[t.pay], t)
    BY <1>2 DEF SpentOk, PaidBy
  <2>1. CASE t \notin spent
    BY <1>2, <2>1
  <2>2. CASE t \in spent
    <3>1. t.pay \in DOMAIN pays /\ pays[t.pay].pc \in {"fee", "done"} /\ PaidBy(pays[t.pay], t)
      BY <2>2 DEF PayInv, SpentOk
    <3>2. CASE t.pay # p
      BY <1>2, <3>1, <3>2
    <3>3. CASE t.pay = p
      BY <1>2, <3>1, <3>3 DEF PaidBy
    <3>4. QED
      BY <3>2, <3>3
  <2>3. QED
    BY <2>1, <2>2
<1>6. QED
  BY <1>3, <1>4, <1>5 DEF PayInv

\* What a payment knows of itself while it is under way.
LEMMA PayUnderWay ==
  ASSUME PayInv, NEW p \in DOMAIN pays, pays[p].pc \in {"probe", "fetch", "fee"}
  PROVE  /\ pays[p] \in PayRecords /\ Suits(pays[p].caller, pays[p].mode)
         /\ pays[p].owner = pays[p].caller
         /\ pays[p].pc = "probe" => pays[p].mode = "no_wallet_linked"
         /\ (pays[p].mode = "no_wallet_linked" /\ pays[p].pc # "probe") => pays[p].probed # "stellar"
BY DEF PayInv, PayTypes, PaysOk, PayOk

LEMMA Quoted ==
  ASSUME PayInv, NEW p \in DOMAIN pays, Quote(p)
  PROVE  PayInv'
<1>1. PICK demand \in Demands :
        Go(p, [pays[p] EXCEPT !.probed = demand, !.pc = NoWalletLinked(demand)])
  BY DEF Quote
<1>2. PICK pay : pay = [pays[p] EXCEPT !.probed = demand, !.pc = NoWalletLinked(demand)]
  OBVIOUS
<1>3. pays[p].pc = "probe" /\ spent' = spent /\ pays[p] \in PayRecords
  BY PayUnderWay DEF Quote
<1>4. /\ NoWalletLinked(demand) \in {"no_wallet_linked", "fetch"}
      /\ NoWalletLinked(demand) = "fetch" => demand # "stellar"
  BY DEF NoWalletLinked
<1>5. /\ pay \in PayRecords /\ pay.pc = NoWalletLinked(demand) /\ pay.probed = demand
      /\ pay.session = pays[p].session /\ pay.caller = pays[p].caller
      /\ pay.owner = pays[p].owner /\ pay.mode = pays[p].mode /\ pay.began = pays[p].began
  BY <1>2, <1>3, <1>4 DEF PayRecords, PayPcs
<1>6. Go(p, pay) /\ pay.pc # "probe" /\ pay.pc \notin {"fee", "done"}
      /\ (pay.pc = "fetch" => pay.probed # "stellar")
  BY <1>1, <1>2, <1>4, <1>5
<1>7. QED
  BY <1>3, <1>5, <1>6, PayMoves

\* The wallet of a payment is its caller's, or the server's where the caller has none.
LEMMA OwnWallet ==
  ASSUME PayInv, NEW p \in DOMAIN pays, pays[p].pc \in {"fetch", "fee"}, NEW demand, NEW what,
         NEW pay, pay.caller = pays[p].caller, pay.mode = pays[p].mode,
         pay.probed = pays[p].probed
  PROVE  /\ (CanPay(pays[p], demand) \/ pays[p].mode # "noncustodial") =>
              PaidBy(pay, Transfer(p, what, demand, WalletOf(pays[p])))
         /\ pays[p].mode = "noncustodial" =>
              PaidBy(pay, Transfer(p, what, "stellar", pays[p].owner))
<1> DEFINE c == pays[p].caller
           m == pays[p].mode
<1>1. /\ c \in Callers /\ Suits(c, m) /\ pays[p].owner = c
      /\ m = "no_wallet_linked" => pay.probed # "stellar"
  BY PayUnderWay DEF PayRecords
<1>2. Transfer(p, what, demand, WalletOf(pays[p])).chain = demand
  BY DEF Transfer
<1>3. CASE c \in Users
  <2>1. c \notin Visitors /\ m \in {"noncustodial", "no_wallet_linked"}
    BY <1>1, <1>3, AgentConstants DEF Suits
  <2>2. QED
    BY <1>1, <1>3, <2>1 DEF PaidBy, Transfer, WalletOf, CanPay
<1>4. CASE c \in Visitors
  <2>1. c \notin Users /\ m = "session_override"
    BY <1>1, <1>4, AgentConstants DEF Suits
  <2>2. QED
    BY <1>1, <1>4, <2>1 DEF PaidBy, Transfer, WalletOf
<1>5. CASE c \in Keys \ Visitors
  <2>1. c \notin Users /\ m = "custodial"
    BY <1>1, <1>5, AgentConstants DEF Suits
  <2>2. QED
    BY <1>1, <1>5, <2>1 DEF PaidBy, Transfer, WalletOf
<1>6. QED
  BY <1>1, <1>3, <1>4, <1>5 DEF Callers

LEMMA Fetched ==
  ASSUME PayInv, NEW p \in DOMAIN pays, FetchWithPayment(p)
  PROVE  PayInv'
<1>1. PICK demand \in Demands :
        LET pay == pays[p]
            paid == spent \cup {Transfer(p, "resource", demand, WalletOf(pay))}
        IN  IF demand = "free" \/ ~CanPay(pay, demand) \/ ~Authorized(pay)
            THEN Go(p, [pay EXCEPT !.pc = "done"]) /\ UNCHANGED <<spent, faults>>
            ELSE \/ /\ Go(p, [pay EXCEPT !.pc = "fee", !.chain = demand])
                    /\ spent' = paid
                    /\ UNCHANGED faults
                 \/ /\ Fault
                    /\ Go(p, [pay EXCEPT !.pc = "fee"])
                    /\ spent' = paid
                 \/ /\ Fault
                    /\ Go(p, [pay EXCEPT !.pc = "done"])
                    /\ spent' \in {spent, paid}
  BY DEF FetchWithPayment
<1>2. pays[p].pc = "fetch" /\ pays[p] \in PayRecords
  BY PayUnderWay DEF FetchWithPayment
<1> DEFINE t == Transfer(p, "resource", demand, WalletOf(pays[p]))
<1>3. PICK pay \in PayRecords :
        /\ Go(p, pay) /\ pay.pc \in {"fee", "done"}
        /\ pay.session = pays[p].session /\ pay.caller = pays[p].caller
        /\ pay.owner = pays[p].owner /\ pay.mode = pays[p].mode /\ pay.began = pays[p].began
        /\ pay.probed = pays[p].probed
        /\ spent' = spent \/ (spent' = spent \cup {t} /\ CanPay(pays[p], demand))
  <2>1. /\ [pays[p] EXCEPT !.pc = "done"] \in PayRecords
        /\ [pays[p] EXCEPT !.pc = "fee"] \in PayRecords
        /\ [pays[p] EXCEPT !.pc = "fee", !.chain = demand] \in PayRecords
    BY <1>2 DEF PayRecords, PayPcs
  <2> DEFINE Same(pay) ==
        /\ pay.pc \in {"fee", "done"}
        /\ pay.session = pays[p].session /\ pay.caller = pays[p].caller
        /\ pay.owner = pays[p].owner /\ pay.mode = pays[p].mode /\ pay.began = pays[p].began
        /\ pay.probed = pays[p].probed
  <2>2. /\ Same([pays[p] EXCEPT !.pc = "done"])
        /\ Same([pays[p] EXCEPT !.pc = "fee"])
        /\ Same([pays[p] EXCEPT !.pc = "fee", !.chain = demand])
    BY <1>2 DEF PayRecords
  <2>3. ASSUME NEW pay \in PayRecords, Go(p, pay), Same(pay),
               spent' = spent \/ (spent' = spent \cup {t} /\ CanPay(pays[p], demand))
        PROVE  \E r \in PayRecords :
                 /\ Go(p, r) /\ Same(r)
                 /\ spent' = spent \/ (spent' = spent \cup {t} /\ CanPay(pays[p], demand))
    BY <2>3
  <2> HIDE DEF Same, t
  <2>4. \E r \in PayRecords :
          /\ Go(p, r) /\ Same(r)
          /\ spent' = spent \/ (spent' = spent \cup {t} /\ CanPay(pays[p], demand))
    BY <1>1, <2>1, <2>2, <2>3 DEF t
  <2>5. QED
    BY <2>4 DEF Same
<1>4. CanPay(pays[p], demand) => PaidBy(pay, t)
  BY <1>2, <1>3, OwnWallet
<1>5. t.pay = p
  BY DEF Transfer
<1> HIDE DEF t
<1>6. \A u \in spent' \ spent : u.pay = p /\ PaidBy(pay, u)
  BY <1>3, <1>4, <1>5
<1>7. pay.mode = "no_wallet_linked" => pay.probed # "stellar"
  BY <1>2, <1>3, PayUnderWay
<1>8. spent \subseteq spent'
  BY <1>3
<1>9. QED
  BY <1>2, <1>3, <1>6, <1>7, <1>8, PayMoves

LEMMA FeePaid ==
  ASSUME PayInv, NEW p \in DOMAIN pays, Pay(p)
  PROVE  PayInv'
<1>1. PICK fee \in {"receipt", "error"} :
        /\ Go(p, [pays[p] EXCEPT !.pc = "done", !.fee = fee])
        /\ IF (pays[p].mode # "noncustodial" /\ pays[p].chain = None) \/ ~Authorized(pays[p])
           THEN fee = "error" /\ UNCHANGED <<spent, faults>>
           ELSE SubmitFee(p, fee)
  BY DEF Pay
<1>2. pays[p].pc = "fee" /\ pays[p] \in PayRecords
  BY PayUnderWay DEF Pay
<1>3. PICK pay : pay = [pays[p] EXCEPT !.pc = "done", !.fee = fee]
  OBVIOUS
<1>4. /\ pay \in PayRecords /\ pay.pc = "done"
      /\ pay.session = pays[p].session /\ pay.caller = pays[p].caller
      /\ pay.owner = pays[p].owner /\ pay.mode = pays[p].mode /\ pay.began = pays[p].began
      /\ pay.probed = pays[p].probed
  BY <1>2, <1>3 DEF PayRecords, PayPcs
<1>5. Go(p, pay) /\ (spent' = spent \/ spent' = spent \cup {ChargeFee(p)})
  BY <1>1, <1>3 DEF SubmitFee
<1>6. PaidBy(pay, ChargeFee(p)) /\ ChargeFee(p).pay = p
  <2>1. CASE pays[p].mode = "noncustodial"
    BY <1>2, <1>4, <2>1, OwnWallet DEF ChargeFee, NonCustodialFee, Transfer
  <2>2. CASE pays[p].mode # "noncustodial"
    BY <1>2, <1>4, <2>2, OwnWallet DEF ChargeFee, CustodialFee, Transfer
  <2>3. QED
    BY <2>1, <2>2
<1>7. \A u \in spent' \ spent : u.pay = p /\ PaidBy(pay, u)
  BY <1>5, <1>6
<1>8. pay.mode = "no_wallet_linked" => pay.probed # "stellar"
  BY <1>2, <1>4, PayUnderWay
<1>9. spent \subseteq spent'
  BY <1>5
<1>10. QED
  BY <1>2, <1>4, <1>5, <1>7, <1>8, <1>9, PayMoves

\* The sweep closes what was not seen for the TTL, and a payment was seen when it began.
LEMMA Swept == PayInv /\ Sweep => PayInv'
<1> SUFFICES ASSUME PayInv, Sweep
             PROVE  PayInv'
  OBVIOUS
<1> DEFINE Idle(s) == sessions[s].state = "open" /\ sessions[s].seen < now - SessionTTL
<1>1. /\ sessions' = [s \in DOMAIN sessions |->
                        IF s \in {r \in DOMAIN sessions : Idle(r)}
                        THEN [sessions[s] EXCEPT !.state = "evicted"] ELSE sessions[s]]
      /\ UNCHANGED <<now, pays, spent>>
  BY DEF Sweep
<1>2. ASSUME NEW s \in DOMAIN sessions
      PROVE  /\ sessions'[s] \in SessionRecords /\ sessions'[s].owner = sessions[s].owner
             /\ sessions'[s].by = sessions[s].by
             /\ sessions'[s].mode = sessions[s].mode /\ sessions'[s].seen = sessions[s].seen
             /\ ~Idle(s) => sessions'[s] = sessions[s]
  <2>1. sessions[s] \in SessionRecords
    BY DEF PayInv, PayTypes
  <2>2. sessions'[s] = IF Idle(s) THEN [sessions[s] EXCEPT !.state = "evicted"] ELSE sessions[s]
    BY <1>1
  <2>3. /\ [sessions[s] EXCEPT !.state = "evicted"] \in SessionRecords
        /\ [sessions[s] EXCEPT !.state = "evicted"].owner = sessions[s].owner
        /\ [sessions[s] EXCEPT !.state = "evicted"].by = sessions[s].by
        /\ [sessions[s] EXCEPT !.state = "evicted"].mode = sessions[s].mode
        /\ [sessions[s] EXCEPT !.state = "evicted"].seen = sessions[s].seen
    BY <2>1 DEF SessionRecords
  <2> HIDE DEF Idle
  <2>4. QED
    BY <2>1, <2>2, <2>3
<1>3. DOMAIN sessions' = DOMAIN sessions /\ sessions' \in Seq(SessionRecords)
  <2>1. DOMAIN sessions' = DOMAIN sessions
    BY <1>1
  <2>2. Len(sessions) \in Nat /\ DOMAIN sessions = 1 .. Len(sessions)
    BY DEF PayInv, PayTypes
  <2>3. sessions' = [s \in 1 .. Len(sessions) |-> sessions'[s]]
    BY <1>1, <2>2
  <2>4. \A s \in 1 .. Len(sessions) : sessions'[s] \in SessionRecords
    BY <1>2, <2>2
  <2>5. QED
    BY <2>1, <2>2, <2>3, <2>4
<1>4. PayTypes' /\ SessionsOk' /\ SpentOk'
  BY <1>1, <1>2, <1>3 DEF PayInv, PayTypes, SessionsOk, SessionOk, SpentOk, PaidBy
<1>5. PaysOk'
  <2> SUFFICES ASSUME NEW p \in DOMAIN pays
               PROVE  PayOk(pays[p])'
    BY <1>1 DEF PaysOk
  <2> DEFINE pay == pays[p]
             s == pays[p].session
  <2>1. PayOk(pay) /\ pay \in PayRecords /\ s \in DOMAIN sessions /\ now \in Nat
    BY DEF PayInv, PaysOk, PayTypes, PayOk
  <2>2. (pay.pc \in {"probe", "fetch", "fee"} /\ Idle(s)) => now > pay.began + SessionTTL
    <3>1. pay.began \in Nat
      BY <2>1 DEF PayRecords
    <3>2. sessions[s].seen \in Nat
      <4>1. sessions[s] \in SessionRecords
        BY <2>1 DEF PayInv, PayTypes
      <4>2. QED
        BY <4>1 DEF SessionRecords
    <3>3. QED
      BY <2>1, <3>1, <3>2, Constants DEF PayOk, Timely
  <2> HIDE DEF Idle
  <2>3. QED
    BY <1>1, <1>2, <1>3, <2>1, <2>2 DEF PayOk, Timely
<1>6. QED
  BY <1>4, <1>5 DEF PayInv

LEMMA PayTick == PayInv /\ Tick => PayInv'
<1> SUFFICES ASSUME PayInv, Tick
             PROVE  PayInv'
  OBVIOUS
<1>1. now' = now + 1 /\ now \in Nat /\ UNCHANGED <<sessions, pays, spent>>
  BY DEF Tick, PayInv, PayTypes
<1>2. PayTypes' /\ SpentOk'
  BY <1>1 DEF PayInv, PayTypes, SpentOk, PaidBy
<1>3. SessionsOk'
  <2>1. \A s \in DOMAIN sessions : sessions[s] \in SessionRecords
    BY DEF PayInv, PayTypes
  <2>2. \A s \in DOMAIN sessions : sessions[s].seen \in Nat
    BY <2>1 DEF SessionRecords
  <2>3. QED
    BY <1>1, <2>2 DEF PayInv, SessionsOk, SessionOk
<1>4. PaysOk'
  <2> SUFFICES ASSUME NEW p \in DOMAIN pays
               PROVE  PayOk(pays[p])'
    BY <1>1 DEF PaysOk
  <2>1. PayOk(pays[p]) /\ pays[p] \in PayRecords
    BY DEF PayInv, PaysOk, PayTypes
  <2>2. pays[p].began \in Nat
    BY <2>1 DEF PayRecords
  <2>3. pays[p].pc \in {"probe", "fetch", "fee"} =>
          /\ pays[p].began <= now'
          /\ now > pays[p].began + SessionTTL => now' > pays[p].began + SessionTTL
    BY <1>1, <2>1, <2>2, Constants DEF PayOk, Timely
  <2>4. QED
    BY <1>1, <2>1, <2>3 DEF PayOk, Timely
<1>5. QED
  BY <1>2, <1>3, <1>4 DEF PayInv

\* Each step of a request, of a payment, of the sweep and of the clock.
LEMMA PayStep == AccessInv /\ PayInv /\ [Next]_vars => PayInv'
<1> SUFFICES ASSUME AccessInv, PayInv, [Next]_vars
             PROVE  PayInv'
  OBVIOUS
<1>1. CASE UNCHANGED <<now, sessions, pays, spent>>
  BY <1>1 DEF PayInv, PayTypes, SessionsOk, SessionOk, PaysOk, PayOk, Timely, SpentOk, PaidBy
<1>2. ASSUME NEW u \in Users, SetAccess(u) \/ LinkWallet(u)
      PROVE  PayInv'
  BY <1>1, <1>2 DEF SetAccess, LinkWallet
<1>3. ASSUME NEW r \in Requests,
             \/ \E c \in Callers : RequireMcpAuth(r, c)
             \/ \E u \in Users : AskAccess(r, u)
             \/ IsEarlyAccessGranted(r) \/ McpEarlyAccessGate(r) \/ TooMany(r) \/ GetBinding(r)
      PROVE  PayInv'
  BY <1>1, <1>3 DEF RequireMcpAuth, AskAccess, Come, IsEarlyAccessGranted, McpEarlyAccessGate,
                    TooMany, Return, GetBinding
<1>4. ASSUME NEW r \in Requests, OpenSession(r)
      PROVE  PayInv'
  BY <1>4, SessionOpened
<1>5. ASSUME NEW r \in Requests, NEW s \in DOMAIN sessions,
             CallTool(r, s) \/ HandleSessionRequest(r, s)
      PROVE  PayInv'
  BY <1>5, ToolCalled, SessionRequested
<1>6. ASSUME NEW p \in DOMAIN pays, Quote(p) \/ FetchWithPayment(p) \/ Pay(p)
      PROVE  PayInv'
  BY <1>6, Quoted, Fetched, FeePaid
<1>7. CASE Sweep
  BY <1>7, Swept
<1>8. CASE Tick
  BY <1>8, PayTick
<1>9. CASE UNCHANGED vars
  BY <1>1, <1>9 DEF vars
<1>10. QED
  BY <1>2, <1>3, <1>4, <1>5, <1>6, <1>7, <1>8, <1>9 DEF Next

\* A payment is made in the name of who opened its session, the way that was chosen
\* then, and what it has spent left the wallet that this way pays from.
THEOREM PaymentInvariance == Spec => []PayInv
<1>1. Init => PayInv
  BY DEF Init, PayInv, PayTypes, SessionsOk, PaysOk, SpentOk
<1>2. QED
  BY <1>1, PayStep, GateInvariance, PTL DEF Spec

\* Whoever has a wallet pays with it, resources and fees alike.
THEOREM CallersPay == Spec => []PayerIsCaller
<1>1. PayInv => PayerIsCaller
  BY DEF PayInv, SpentOk, PaidBy, PayerIsCaller
<1>2. QED
  BY <1>1, PaymentInvariance, PTL

\* The sweep of idle sessions cuts a payment only when it has taken longer than the TTL.
THEOREM SweepCutsLongPays == Spec => []CutOnlyWhenLong
<1>1. PayInv => CutOnlyWhenLong
  BY DEF PayInv, PaysOk, PayOk, Timely, CutOnlyWhenLong, UnderWay
<1>2. QED
  BY <1>1, PaymentInvariance, PTL

\* Which step ends a request and opens a session or begins a payment.
LEMMA EndsWith ==
  ASSUME AccessInv, PayInv, [Next]_vars, NEW r \in Requests, request[r] # None, request'[r] = None,
         Len(sessions') > Len(sessions) \/ Len(pays') > Len(pays)
  PROVE  request[r].pc \in {"passed", "opening"}
<1>1. Len(sessions) \in Nat /\ Len(pays) \in Nat
  BY DEF PayInv, PayTypes
<1>2. ~UNCHANGED <<sessions, pays>> /\ request' # request
  BY <1>1
<1>3. PICK q \in Requests :
        OpenSession(q) \/ \E s \in DOMAIN sessions : CallTool(q, s) \/ HandleSessionRequest(q, s)
  BY <1>2 DEF Next, SetAccess, LinkWallet, RequireMcpAuth, AskAccess, Come, IsEarlyAccessGranted,
              McpEarlyAccessGate, TooMany, Return, GetBinding, Sweep, Quote, FetchWithPayment,
              Pay, Go, Tick, vars
<1>4. /\ request[q] # None /\ request[q].pc \in {"passed", "opening"}
      /\ request' = [request EXCEPT ![q] = None]
  BY <1>3 DEF OpenSession, CallTool, HandleSessionRequest, Passed, Return
<1>5. q = r
  BY <1>4 DEF AccessInv, AccessTypes
<1>6. QED
  BY <1>4, <1>5

\* A request of a user that comes the TTL of the cache or more after the access was
\* withdrawn opens no session and begins no payment, however long anything takes.
THEOREM WithdrawnInTime == Spec => WithdrawalTakesEffect
<1>1. AccessInv /\ PayInv /\ [Next]_vars =>
        [\A r \in Requests :
           LET q == request[r]
           IN  (/\ q # None /\ request'[r] = None
                /\ Len(sessions') > Len(sessions) \/ Len(pays') > Len(pays)
                /\ q.by \in Users /\ ~access[q.by].granted) =>
               q.came < access[q.by].since + EarlyAccessTTL]_vars
  <2> SUFFICES ASSUME AccessInv, PayInv, [Next]_vars, NEW r \in Requests,
                      request[r] # None, request'[r] = None,
                      Len(sessions') > Len(sessions) \/ Len(pays') > Len(pays),
                      request[r].by \in Users, ~access[request[r].by].granted
               PROVE  request[r].came < access[request[r].by].since + EarlyAccessTTL
    OBVIOUS
  <2>1. request[r].pc \in {"passed", "opening"}
    BY EndsWith
  <2>2. access[request[r].by].granted = FALSE
    BY DEF AccessInv, AccessTypes
  <2>3. QED
    BY <2>1, <2>2, RequestHeld DEF RequestOk
<1>2. QED
  BY <1>1, GateInvariance, PaymentInvariance, PTL DEF Spec, WithdrawalTakesEffect

-----------------------------------------------------------------------------
(* The delegation.  Every rule too many is paid for by a mishap: Paid(n)   *)
(* says what n mishaps can have led to, the transactions that nobody waits *)
(* for included.  While the owner has no access one mishap is in reserve,  *)
(* which the page, opened again for free, spends (Spare).                  *)

GrantRecord == [account : Named, budget : Budgets \cup {Nothing}]
RuleRecord == [id : Nat, account : Named, key : Named, limit : Budgets \cup {Nothing}]
PagePcs == {"idle", "deploy", "issue", "fund", "look", "clean", "add", "find", "policy", "bind",
            "bound", "unrule", "unlink", "unlinked"}
PageRecord ==
  [pc : PagePcs, view : {"connect", "delegate", "manage", "waitlist"}, account : Named, key : Named,
   budget : Budgets \cup {Nothing}, found : Named, rule : Named, stale : SUBSET Nat,
   tx : OpRecord \cup {Nothing}]
SrvRecord ==
  [kind : {"issue", "bind", "revoke"}, awaited : BOOLEAN, stage : {"read", "write"}, key : Named,
   grant : GrantRecord]

WalletTypes ==
  /\ row \in [key : Named, grant : GrantRecord \cup {Nothing}] \cup {Nothing}
  /\ srv \subseteq SrvRecord
  /\ page \in PageRecord
  /\ pending \subseteq OpRecord
  /\ accounts \in Nat /\ made \in [key : Nat, rule : Nat]
  /\ rules \subseteq RuleRecord /\ IsFiniteSet(rules)
  /\ mishaps \in Nat

\* What the page waits for at each of its steps: the transaction that it has sent, or a
\* request; one at a time.
SentAs(pc) ==
  CASE pc = "deploy" -> "deploy" [] pc = "fund" -> "fund" [] pc \in {"clean", "unrule"} -> "remove"
    [] pc = "add" -> "add" [] pc = "policy" -> "policy" [] OTHER -> "none"
AskedAs(kind) ==
  CASE kind = "issue" -> "issue" [] kind = "bind" -> "bound" [] kind = "revoke" -> "unlinked"
PageWaits ==
  /\ \A op \in pending : op.awaited => op = page.tx
  /\ page.tx # Nothing =>
       /\ page.tx.awaited /\ page.tx.account = page.account /\ page.tx.budget = page.budget
       /\ page.tx.kind = SentAs(page.pc)
       /\ page.pc = "clean" => page.tx.rule \in page.stale
  /\ \A r \in srv : r.awaited => page.pc = AskedAs(r.kind)
  /\ \A r, q \in srv : r.awaited /\ q.awaited => r = q

\* What is bound, or about to be, was delegated.
BindsDelegated ==
  /\ page.pc = "bind" => [account |-> page.account, budget |-> page.budget] \in delegated
  /\ \A r \in srv : r.kind = "bind" => r.grant \in delegated

Count(a) == Cardinality(RulesOf(a))
IdsOf(a) == {r.id : r \in RulesOf(a)}
\* The rules of an account that a set of ids does not name.
Beyond(a, ids) == {r \in RulesOf(a) : r.id \notin ids}
\* A transaction that nobody waits for: what it leaves is paid for.
LoosePaid(op, n) ==
  /\ \A a \in Named : op.kind # "remove" \/ op.rule \notin IdsOf(a) => Count(a) <= n
  /\ op.kind = "add" => Count(op.account) + 1 <= n
\* The removal that the page waits for is void, or what it is to remove is gone.
InVain ==
  \/ page.tx # Nothing /\ page.tx \notin pending
  \/ \E id \in page.stale : id \notin IdsOf(page.account)
Paid(n) ==
  /\ \A a \in Named : Count(a) <= n + 1
  /\ page.pc = "add" => Count(page.account) <= n
  /\ page.pc = "clean" =>
       /\ Cardinality(Beyond(page.account, page.stale)) <= n
       /\ InVain => Count(page.account) <= n
  /\ \A op \in pending : ~op.awaited => LoosePaid(op, n)

Spare == mishaps - IF ~allowed \/ page.view = "waitlist" THEN 1 ELSE 0

DelegationInv == WalletTypes /\ PageWaits /\ BindsDelegated /\ Spare >= 0 /\ Paid(Spare)

\* Counts are numbers, and count what a set of ids leaves.
LEMMA CountsAreNat ==
  ASSUME WalletTypes
  PROVE  \A a, ids : /\ IsFiniteSet(Beyond(a, ids)) /\ Cardinality(Beyond(a, ids)) \in Nat
                     /\ IsFiniteSet(RulesOf(a)) /\ Count(a) \in Nat
                     /\ Cardinality(Beyond(a, ids)) <= Count(a)
<1> TAKE a, ids
<1>1. IsFiniteSet(RulesOf(a)) /\ Cardinality(RulesOf(a)) \in Nat
  BY FS_Subset, FS_CardinalityType DEF WalletTypes, RulesOf
<1>2. Beyond(a, ids) \subseteq RulesOf(a)
  BY DEF Beyond
<1>3. IsFiniteSet(Beyond(a, ids)) /\ Cardinality(Beyond(a, ids)) <= Cardinality(RulesOf(a))
  BY <1>1, <1>2, FS_Subset
<1>4. QED
  BY <1>1, <1>3, FS_CardinalityType DEF Count

\* Rules that are written anew are no more.
LEMMA RewrittenAreNoMore ==
  ASSUME NEW S, IsFiniteSet(S), NEW f, DOMAIN f = S
  PROVE  IsFiniteSet({f[x] : x \in S}) /\ Cardinality({f[x] : x \in S}) <= Cardinality(S)
<1> DEFINE T == {f[x] : x \in S}
           g == [x \in S |-> f[x]]
<1>1. g \in Surjection(S, T)
  BY DEF Surjection
<1>2. QED
  BY <1>1, FS_Surjection

\* What a transaction that lands does to the rules of an account.
LEMMA LandCounts ==
  ASSUME WalletTypes, NEW op \in OpRecord, Apply(op), NEW a, NEW ids
  PROVE  /\ rules' \subseteq RuleRecord /\ IsFiniteSet(rules')
         /\ op.kind # "add" \/ op.account # a =>
              Cardinality(Beyond(a, ids))' <= Cardinality(Beyond(a, ids))
         /\ op.kind = "add" => Cardinality(Beyond(a, ids))' <= Cardinality(Beyond(a, ids)) + 1
         /\ op.kind = "remove" => Cardinality(Beyond(a, ids \ {op.rule}))' <= Cardinality(Beyond(a, ids))
         /\ op.kind = "remove" /\ op.rule \in IdsOf(a) => Count(a)' <= Count(a) - 1
         /\ \A id \in IdsOf(a) : (op.kind = "remove" /\ id = op.rule) \/ id \in IdsOf(a)'
<1>0. rules \subseteq RuleRecord /\ IsFiniteSet(rules) /\ IsFiniteSet(Beyond(a, ids)) /\ IsFiniteSet(RulesOf(a))
      /\ Cardinality(Beyond(a, ids)) \in Nat /\ Count(a) \in Nat
  BY CountsAreNat DEF WalletTypes
<1>1. CASE op.kind = "remove"
  <2>1. rules' = {r \in rules : r.id # op.rule}
    BY <1>1 DEF Apply
  <2>2. rules' \subseteq RuleRecord /\ IsFiniteSet(rules')
    BY <1>0, <2>1, FS_Subset
  <2>3. Beyond(a, ids)' \subseteq Beyond(a, ids) /\ Beyond(a, ids \ {op.rule})' \subseteq Beyond(a, ids)
    BY <2>1 DEF Beyond, RulesOf
  <2>4. Cardinality(Beyond(a, ids)') <= Cardinality(Beyond(a, ids))
        /\ Cardinality(Beyond(a, ids \ {op.rule})') <= Cardinality(Beyond(a, ids))
    BY <1>0, <2>3, FS_Subset
  <2>5. ASSUME op.rule \in IdsOf(a)
        PROVE  Count(a)' <= Count(a) - 1
    <3>1. PICK r \in RulesOf(a) : r.id = op.rule
      BY <2>5 DEF IdsOf
    <3>2. RulesOf(a)' \subseteq RulesOf(a) \ {r}
      BY <2>1, <3>1 DEF RulesOf
    <3>3. IsFiniteSet(RulesOf(a) \ {r}) /\ Cardinality(RulesOf(a) \ {r}) = Cardinality(RulesOf(a)) - 1
      BY <1>0, FS_RemoveElement
    <3>4. Cardinality(RulesOf(a)') <= Cardinality(RulesOf(a) \ {r})
      BY <3>2, <3>3, FS_Subset
    <3>5. QED
      BY <3>3, <3>4 DEF Count
  <2>6. \A id \in IdsOf(a) : id = op.rule \/ id \in IdsOf(a)'
    BY <2>1 DEF IdsOf, RulesOf
  <2>7. QED
    BY <1>1, <2>2, <2>4, <2>5, <2>6
<1>2. CASE op.kind = "add"
  <2> DEFINE r == [id |-> made.rule + 1, account |-> op.account, key |-> op.key, limit |-> Nothing]
  <2>1. rules' = rules \cup {r} /\ r \in RuleRecord /\ r.account = op.account
    BY <1>2 DEF Apply, WalletTypes, RuleRecord, OpRecord
  <2> HIDE DEF r
  <2>2. rules' \subseteq RuleRecord /\ IsFiniteSet(rules')
    BY <1>0, <2>1, FS_AddElement
  <2>3. op.account # a => Beyond(a, ids)' = Beyond(a, ids)
    BY <2>1 DEF Beyond, RulesOf
  <2>4. Beyond(a, ids)' \subseteq Beyond(a, ids) \cup {r}
    BY <2>1 DEF Beyond, RulesOf
  <2>5. IsFiniteSet(Beyond(a, ids) \cup {r})
        /\ Cardinality(Beyond(a, ids) \cup {r}) <= Cardinality(Beyond(a, ids)) + 1
    <3>1. IsFiniteSet(Beyond(a, ids) \cup {r})
      BY <1>0, FS_AddElement
    <3>2. \/ Cardinality(Beyond(a, ids) \cup {r}) = Cardinality(Beyond(a, ids))
          \/ Cardinality(Beyond(a, ids) \cup {r}) = Cardinality(Beyond(a, ids)) + 1
      BY <1>0, FS_AddElement
    <3>3. QED
      BY <1>0, <3>1, <3>2
  <2>6. Cardinality(Beyond(a, ids)') <= Cardinality(Beyond(a, ids)) + 1
    <3>1. Cardinality(Beyond(a, ids)') <= Cardinality(Beyond(a, ids) \cup {r})
      BY <2>4, <2>5, FS_Subset
    <3>2. Cardinality(Beyond(a, ids)') \in Nat /\ Cardinality(Beyond(a, ids) \cup {r}) \in Nat
      BY <2>4, <2>5, FS_Subset, FS_CardinalityType
    <3>3. QED
      BY <1>0, <2>5, <3>1, <3>2
  <2>7. \A id \in IdsOf(a) : id \in IdsOf(a)'
    BY <2>1 DEF IdsOf, RulesOf
  <2>8. QED
    BY <1>0, <1>2, <2>2, <2>3, <2>6, <2>7
<1>3. CASE op.kind = "policy"
  <2> DEFINE set == [r \in rules |-> IF r.id = op.rule THEN [r EXCEPT !.limit = op.budget] ELSE r]
             few == [r \in Beyond(a, ids) |-> set[r]]
  <2>1. rules' = {set[r] : r \in rules} /\ DOMAIN set = rules
    BY <1>3 DEF Apply
  <2>2. \A r \in rules : set[r] \in RuleRecord /\ set[r].id = r.id /\ set[r].account = r.account
    BY <1>0 DEF RuleRecord, OpRecord
  <2> HIDE DEF set
  <2>3. rules' \subseteq RuleRecord /\ IsFiniteSet(rules')
    BY <1>0, <2>1, <2>2, RewrittenAreNoMore
  <2>4. Beyond(a, ids)' = {few[r] : r \in Beyond(a, ids)} /\ DOMAIN few = Beyond(a, ids)
    <3>1. RulesOf(a)' = {r \in rules' : r.account = a} /\ RulesOf(a) = {r \in rules : r.account = a}
      BY DEF RulesOf
    <3>2. Beyond(a, ids)' = {r \in rules' : r.account = a /\ r.id \notin ids}
          /\ Beyond(a, ids) = {r \in rules : r.account = a /\ r.id \notin ids}
      BY <3>1 DEF Beyond
    <3>3. ASSUME NEW x
          PROVE  x \in Beyond(a, ids)' <=> \E r \in Beyond(a, ids) : x = set[r]
      BY <2>1, <2>2, <3>2
    <3>4. \A r \in Beyond(a, ids) : few[r] = set[r]
      OBVIOUS
    <3>5. DOMAIN few = Beyond(a, ids)
      OBVIOUS
    <3> HIDE DEF few
    <3>6. QED
      BY <3>3, <3>4, <3>5
  <2> HIDE DEF few
  <2>5. Cardinality({few[r] : r \in Beyond(a, ids)}) <= Cardinality(Beyond(a, ids))
    BY <1>0, <2>4, RewrittenAreNoMore
  <2>6. \A id \in IdsOf(a) : id \in IdsOf(a)'
    BY <2>1, <2>2 DEF IdsOf, RulesOf
  <2>7. QED
    BY <1>3, <2>3, <2>4, <2>5, <2>6
<1>4. CASE op.kind \notin {"remove", "add", "policy"}
  <2>1. rules' = rules
    BY <1>4 DEF Apply
  <2>2. Beyond(a, ids)' = Beyond(a, ids) /\ IdsOf(a)' = IdsOf(a)
    BY <2>1 DEF Beyond, IdsOf, RulesOf
  <2>3. QED
    BY <1>0, <1>4, <2>1, <2>2
<1>5. QED
  BY <1>1, <1>2, <1>3, <1>4

-----------------------------------------------------------------------------
(* What is paid for. *)

LEMMA TypesHeld ==
  ASSUME DelegationInv
  PROVE  /\ WalletTypes /\ PageWaits /\ BindsDelegated /\ Paid(Spare)
         /\ Spare \in Nat /\ mishaps \in Nat /\ page \in PageRecord /\ page.account \in Named
         /\ page.stale \subseteq Nat /\ page.tx \in OpRecord \cup {Nothing} /\ Nothing \notin OpRecord
BY NothingAssumption DEF DelegationInv, WalletTypes, Spare, PageRecord

\* More mishaps pay for what fewer have paid for.
LEMMA LooseGrows ==
  ASSUME WalletTypes, NEW n \in Int, NEW m \in Int, n <= m, NEW op \in OpRecord, LoosePaid(op, n)
  PROVE  LoosePaid(op, m)
<1>1. \A a : Count(a) \in Nat
  BY CountsAreNat
<1>2. QED
  BY <1>1 DEF LoosePaid, OpRecord

\* A step that leaves the rules as they are.
LEMMA RulesStay ==
  ASSUME WalletTypes, rules' = rules, NEW n \in Int, NEW m \in Int, n <= m, Paid(n),
         \A op \in pending' : ~op.awaited => op \in pending \/ LoosePaid(op, m),
         page'.pc = "add" => Count(page'.account) <= m,
         page'.pc = "clean" => /\ Cardinality(Beyond(page'.account, page'.stale)) <= m
                               /\ InVain' => Count(page'.account) <= m
  PROVE  Paid(m)'
<1>1. \A a, ids : Count(a) \in Nat /\ Count(a)' = Count(a) /\ IdsOf(a)' = IdsOf(a) /\ Beyond(a, ids)' = Beyond(a, ids)
  BY CountsAreNat DEF Count, IdsOf, RulesOf, Beyond
<1>2. \A a \in Named : Count(a)' <= m + 1
  BY <1>1 DEF Paid
<1>3. page'.pc = "add" => Count(page.account)' <= m
  BY <1>1
<1>4. page'.pc = "clean" => /\ Cardinality(Beyond(page.account, page.stale))' <= m
                            /\ InVain' => Count(page.account)' <= m
  BY <1>1
<1>5. ASSUME NEW op \in pending', ~op.awaited
      PROVE  LoosePaid(op, m)'
  <2>1. LoosePaid(op, m)
    BY <1>5, LooseGrows DEF Paid, WalletTypes
  <2>2. QED
    BY <1>1, <2>1 DEF LoosePaid
<1>6. QED
  BY <1>2, <1>3, <1>4, <1>5 DEF Paid

\* A transaction lands: what it did was paid for, and nothing else is pending.
LEMMA LandPaid ==
  ASSUME DelegationInv, NEW op \in pending, Land(op), NEW n \in Nat, Paid(n)
  PROVE  Paid(n)'
<1>1. WalletTypes /\ PageWaits /\ page.account \in Named
  BY TypesHeld
<1>2. op \in OpRecord /\ pending' = {} /\ Apply(op)
      /\ page' = IF op.awaited THEN Confirmed(op) ELSE page
  BY <1>1 DEF Land, WalletTypes
<1>3. \A a, ids : Count(a) \in Nat /\ Cardinality(Beyond(a, ids)) \in Nat
  BY <1>1, CountsAreNat
<1>4. \A a : Beyond(a, {}) = RulesOf(a)
  BY DEF Beyond
<1>5. ASSUME NEW a
      PROVE  /\ op.kind # "add" \/ op.account # a => Count(a)' <= Count(a)
             /\ op.kind = "add" => Count(a)' <= Count(a) + 1
             /\ op.kind = "remove" /\ op.rule \in IdsOf(a) => Count(a)' <= Count(a) - 1
  <2>1. Beyond(a, {})' = RulesOf(a)'
    BY DEF Beyond
  <2>2. QED
    BY <1>1, <1>2, <1>4, <2>1, LandCounts DEF Count
<1>6. \A a, ids : IsFiniteSet(RulesOf(a)') /\ Count(a)' \in Nat /\ Cardinality(Beyond(a, ids))' <= Count(a)'
  <2> TAKE a, ids
  <2>1. IsFiniteSet(rules')
    BY <1>1, <1>2, LandCounts
  <2>2. IsFiniteSet(RulesOf(a)')
    BY <2>1, FS_Subset DEF RulesOf
  <2>3. Beyond(a, ids)' \subseteq RulesOf(a)'
    BY DEF Beyond
  <2>4. Cardinality(Beyond(a, ids)') <= Cardinality(RulesOf(a)')
    BY <2>2, <2>3, FS_Subset
  <2>5. QED
    BY <2>2, <2>4, FS_CardinalityType DEF Count
<1>7. CASE ~op.awaited
  <2>1. LoosePaid(op, n)
    BY <1>7 DEF Paid
  <2>2. \A a \in Named : Count(a)' <= n
    <3> TAKE a \in Named
    <3>1. Count(a) \in Nat /\ Count(a)' \in Nat /\ Count(a) <= n + 1
      BY <1>3, <1>6 DEF Paid
    <3>2. op.kind # "remove" \/ op.rule \notin IdsOf(a) => Count(a) <= n
      BY <2>1 DEF LoosePaid
    <3>3. op.kind = "add" /\ op.account = a => Count(a) + 1 <= n
      BY <2>1 DEF LoosePaid
    <3>4. CASE op.kind = "add" /\ op.account = a
      BY <1>5, <3>1, <3>3, <3>4
    <3>5. CASE op.kind = "remove" /\ op.rule \in IdsOf(a)
      <4>1. Count(a)' <= Count(a) - 1
        BY <1>5, <3>5
      <4>2. QED
        BY <3>1, <4>1
    <3>6. CASE ~(op.kind = "add" /\ op.account = a) /\ ~(op.kind = "remove" /\ op.rule \in IdsOf(a))
      <4>1. Count(a)' <= Count(a) /\ Count(a) <= n
        BY <1>5, <3>2, <3>6
      <4>2. QED
        BY <3>1, <4>1
    <3>7. QED
      BY <3>4, <3>5, <3>6
  <2>3. page' = page
    BY <1>2, <1>7
  <2>4. Count(page.account)' <= n /\ Cardinality(Beyond(page.account, page.stale))' <= n
    <3>1. Count(page.account)' = Cardinality(RulesOf(page.account)')
      BY DEF Count
    <3> PICK a, ids : a = page.account /\ ids = page.stale
      OBVIOUS
    <3>2. Count(a)' <= n /\ Cardinality(Beyond(a, ids))' <= Count(a)' /\ Count(a)' \in Nat
      BY <1>1, <1>6, <2>2
    <3>3. Cardinality(Beyond(a, ids))' \in Nat
      BY <1>6, FS_Subset, FS_CardinalityType DEF Beyond
    <3>4. Count(page.account)' = Count(a)' /\ Beyond(page.account, page.stale)' = Beyond(a, ids)'
      BY <2>3 DEF Count, RulesOf, Beyond
    <3>5. QED
      BY <3>2, <3>3, <3>4
  <2>5. \A a \in Named : Count(a)' <= n + 1
    BY <1>6, <2>2
  <2>6. QED
    BY <1>2, <2>4, <2>5 DEF Paid
<1>8. CASE op.awaited
  <2>1. op = page.tx /\ op.account = page.account /\ op.kind = SentAs(page.pc) /\ op # Nothing
        /\ (page.pc = "clean" => op.rule \in page.stale)
    BY <1>1, <1>2, <1>8, NothingAssumption DEF PageWaits
  <2>2. page.pc \in {"deploy", "fund", "clean", "add", "policy", "unrule"} /\ page \in PageRecord
    BY <1>1, <1>2, <2>1 DEF SentAs, OpRecord, OpKinds, WalletTypes, PageRecord
  <2>3. /\ page'.pc # "add"
        /\ page'.pc = "clean" => /\ page.pc = "clean" /\ page'.account = page.account
                                 /\ page'.stale = page.stale \ {op.rule} /\ page'.tx = Nothing
    BY <1>2, <1>8, <2>2 DEF Confirmed, PageRecord
  <2>4. \A a \in Named : Count(a)' <= n + 1
    <3> TAKE a \in Named
    <3>0. Count(a) \in Nat /\ Count(a)' \in Nat /\ Count(a) <= n + 1
      BY <1>3, <1>6 DEF Paid
    <3>1. CASE op.kind = "add" /\ op.account = a
      <4>1. page.pc = "add" /\ page.account = a
        BY <2>1, <2>2, <3>1 DEF SentAs
      <4>2. Count(a) <= n
        BY <4>1 DEF Paid
      <4>3. Count(a)' <= Count(a) + 1
        BY <1>5, <3>1
      <4>4. QED
        BY <3>0, <4>2, <4>3
    <3>2. CASE op.kind # "add" \/ op.account # a
      <4>1. Count(a)' <= Count(a)
        BY <1>5, <3>2
      <4>2. QED
        BY <3>0, <4>1
    <3>3. QED
      BY <3>1, <3>2
  <2>5. ASSUME page'.pc = "clean"
        PROVE  /\ Cardinality(Beyond(page.account, page.stale))' <= n
               /\ InVain' => Count(page.account)' <= n
    <3> PICK a, ids : a = page.account /\ ids = page.stale
      OBVIOUS
    <3>1. op.kind = "remove" /\ a \in Named
      BY <1>1, <2>1, <2>3, <2>5 DEF SentAs
    <3>2. page'.account = a /\ page'.stale = ids \ {op.rule} /\ page'.tx = Nothing
      BY <2>3, <2>5
    <3>3. Cardinality(Beyond(a, ids)) <= n /\ (InVain => Count(a) <= n)
      BY <2>3, <2>5 DEF Paid
    <3>4. Cardinality(Beyond(a, ids \ {op.rule}))' <= Cardinality(Beyond(a, ids))
          /\ \A id \in IdsOf(a) : id = op.rule \/ id \in IdsOf(a)'
      BY <1>1, <1>2, <3>1, LandCounts
    <3>5. Beyond(page.account, page.stale)' = Beyond(a, ids \ {op.rule})' /\ Count(page.account)' = Count(a)'
          /\ IdsOf(page.account)' = IdsOf(a)'
      BY <3>2 DEF Beyond, Count, RulesOf, IdsOf
    <3>6. Cardinality(Beyond(a, ids \ {op.rule}))' \in Nat
      BY <1>6, FS_Subset, FS_CardinalityType DEF Beyond
    <3>7. InVain' => InVain
      BY <3>2, <3>4, <3>5 DEF InVain
    <3>8. InVain' => Count(a)' <= n
      BY <1>1, <1>3, <1>5, <1>6, <3>1, <3>3, <3>7
    <3>9. QED
      BY <1>1, <1>3, <3>3, <3>4, <3>5, <3>6, <3>8
  <2>6. QED
    BY <1>2, <2>3, <2>4, <2>5 DEF Paid
<1>9. QED
  BY <1>7, <1>8

\* What enough mishaps pay for stays paid.
LEMMA PaidIsEnough ==
  ASSUME WalletTypes', NEW n \in Nat, Paid(n)', n <= Spare'
  PROVE  Spare' >= 0 /\ Paid(Spare)'
<1> PICK m : m = Spare'
  OBVIOUS
<1>1. m \in Nat
  <2>1. mishaps' \in Nat
    BY DEF WalletTypes
  <2>2. m \in Int
    BY <2>1 DEF Spare
  <2>3. QED
    BY <2>2
<1>2. \A a : Count(a)' \in Nat
  <2> TAKE a
  <2>1. IsFiniteSet(rules') /\ RulesOf(a)' \subseteq rules'
    BY DEF WalletTypes, RulesOf
  <2>2. QED
    BY <2>1, FS_Subset, FS_CardinalityType DEF Count
<1>3. Cardinality(Beyond(page.account, page.stale))' \in Nat
  <2>1. IsFiniteSet(rules') /\ Beyond(page.account, page.stale)' \subseteq rules'
    BY DEF WalletTypes, RulesOf, Beyond
  <2>2. QED
    BY <2>1, FS_Subset, FS_CardinalityType
<1>4. \A a \in Named : Count(a)' <= m + 1
  <2> TAKE a \in Named
  <2>1. Count(a)' <= n + 1 /\ Count(a)' \in Nat
    BY <1>2 DEF Paid
  <2>2. QED
    BY <1>1, <2>1
<1>5. Count(page.account)' \in Nat
  <2>1. IsFiniteSet(rules') /\ RulesOf(page.account)' \subseteq rules'
    BY DEF WalletTypes, RulesOf
  <2>2. QED
    BY <2>1, FS_Subset, FS_CardinalityType DEF Count
<1>6. page'.pc = "add" => Count(page.account)' <= m
  BY <1>1, <1>5 DEF Paid
<1>7. page'.pc = "clean" => /\ Cardinality(Beyond(page.account, page.stale))' <= m
                            /\ InVain' => Count(page.account)' <= m
  BY <1>1, <1>3, <1>5 DEF Paid
<1>8. ASSUME NEW op \in pending', ~op.awaited
      PROVE  LoosePaid(op, m)'
  <2>1. LoosePaid(op, n)' /\ op.account \in Named
    BY <1>8 DEF Paid, WalletTypes, OpRecord
  <2>2. op.kind = "add" => Count(op.account)' + 1 <= m
    BY <1>1, <1>2, <2>1 DEF LoosePaid
  <2>3. ASSUME NEW a \in Named, op.kind # "remove" \/ op.rule \notin IdsOf(a)'
        PROVE  Count(a)' <= m
    <3>1. Count(a)' <= n /\ Count(a)' \in Nat
      BY <1>2, <2>1, <2>3 DEF LoosePaid
    <3>2. QED
      BY <1>1, <3>1
  <2>4. QED
    BY <2>2, <2>3 DEF LoosePaid
<1>9. Paid(m)'
  BY <1>4, <1>6, <1>7, <1>8 DEF Paid
<1>10. QED
  BY <1>1, <1>9

-----------------------------------------------------------------------------
(* What the page waits for. *)

Sending == {"deploy", "fund", "clean", "add", "policy", "unrule"}
Asking == {"issue", "bound", "unlinked"}

LEMMA WaitsForOne ==
  ASSUME DelegationInv
  PROVE  /\ page.pc \notin Sending => page.tx = Nothing
         /\ page.tx = Nothing => \A op \in pending : ~op.awaited
         /\ page.pc \notin Asking => \A r \in srv : ~r.awaited
         /\ \A r \in srv : r.awaited => \A q \in srv \ {r} : ~q.awaited
<1>1. page.pc \notin Sending => page.tx = Nothing
  BY TypesHeld DEF PageWaits, SentAs, Sending, OpRecord, OpKinds
<1>2. page.tx = Nothing => \A op \in pending : ~op.awaited
  BY TypesHeld DEF PageWaits, WalletTypes
<1>3. page.pc \notin Asking => \A r \in srv : ~r.awaited
  BY TypesHeld DEF PageWaits, WalletTypes, SrvRecord, AskedAs, Asking
<1>4. \A r \in srv : r.awaited => \A q \in srv \ {r} : ~q.awaited
  BY TypesHeld DEF PageWaits
<1>5. QED
  BY <1>1, <1>2, <1>3, <1>4

LEMMA NothingAwaited ==
  ASSUME page'.tx = Nothing, \A op \in pending' : ~op.awaited, \A r \in srv' : ~r.awaited
  PROVE  PageWaits'
BY DEF PageWaits

\* The transaction that the page waited for is confirmed.
LEMMA ConfirmedPage ==
  ASSUME DelegationInv, NEW op \in pending, op.awaited, page' = Confirmed(op)
  PROVE  /\ page' \in PageRecord /\ page'.tx = Nothing /\ page'.pc \notin Sending \ {"clean"} /\ page'.pc \notin Asking
         /\ page'.view = "waitlist" => page.view = "waitlist"
         /\ page'.pc = "bind" => /\ op.kind = "policy" /\ page'.account = op.account
                                 /\ page'.budget = op.budget
<1>1. page \in PageRecord /\ op \in OpRecord /\ op = page.tx /\ op # Nothing /\ accounts \in Nat
  BY TypesHeld DEF PageWaits, WalletTypes
<1>2. op.account = page.account /\ op.budget = page.budget /\ op.kind = SentAs(page.pc) /\ page.pc \in Sending
  BY <1>1, TypesHeld, WaitsForOne DEF PageWaits
<1>3. CASE page.pc = "deploy"
  <2>1. page' = [[page EXCEPT !.pc = "idle", !.tx = Nothing] EXCEPT !.account = accounts + 1, !.view = "delegate"]
    BY <1>3 DEF Confirmed
  <2>2. accounts + 1 \in Named
    BY <1>1 DEF Named
  <2>3. page' \in PageRecord
    BY <1>1, <2>1, <2>2 DEF PageRecord, PagePcs
  <2>4. page'.pc = "idle" /\ page'.tx = Nothing /\ page'.view = "delegate"
    BY <1>1, <2>1 DEF PageRecord
  <2>5. QED
    BY <2>3, <2>4 DEF Sending, Asking
<1>4. CASE page.pc = "fund" \/ page.pc = "add" \/ page.pc = "unrule"
  <2>1. PICK pc \in {"look", "find", "unlink"} : page' = [page EXCEPT !.pc = pc, !.tx = Nothing]
    BY <1>4 DEF Confirmed
  <2>2. page' \in PageRecord
    BY <1>1, <2>1 DEF PageRecord, PagePcs
  <2>3. page'.pc = pc /\ page'.tx = Nothing /\ page'.view = page.view
    BY <1>1, <2>1 DEF PageRecord
  <2>4. QED
    BY <2>2, <2>3 DEF Sending, Asking
<1>5. CASE page.pc = "clean"
  <2>1. page' = [[page EXCEPT !.pc = "clean", !.tx = Nothing] EXCEPT !.stale = page.stale \ {op.rule}]
    BY <1>1, <1>5 DEF Confirmed, PageRecord
  <2>2. page.stale \ {op.rule} \in SUBSET Nat
    BY <1>1 DEF PageRecord
  <2>3. page' \in PageRecord
    BY <1>1, <2>1, <2>2 DEF PageRecord, PagePcs
  <2>4. page'.pc = "clean" /\ page'.tx = Nothing /\ page'.view = page.view
    BY <1>1, <2>1 DEF PageRecord
  <2>5. QED
    BY <2>3, <2>4 DEF Sending, Asking
<1>6. CASE page.pc = "policy"
  <2>1. page' = [[page EXCEPT !.pc = "bind", !.tx = Nothing] EXCEPT !.rule = page.found]
    BY <1>6 DEF Confirmed
  <2>2. QED
    BY <1>1, <1>2, <1>6, <2>1 DEF PageRecord, PagePcs, Sending, Asking, SentAs
<1>7. QED
  BY <1>2, <1>3, <1>4, <1>5, <1>6 DEF Sending

LEMMA LandStep ==
  ASSUME DelegationInv, NEW op \in pending, Land(op)
  PROVE  DelegationInv'
<1>1. /\ WalletTypes /\ PageWaits /\ BindsDelegated /\ Paid(Spare) /\ Spare \in Nat /\ mishaps \in Nat
      /\ page \in PageRecord /\ op \in OpRecord
  BY TypesHeld DEF WalletTypes
<1>2. /\ pending' = {} /\ Apply(op) /\ UNCHANGED <<allowed, row, srv, mishaps>>
      /\ page' = IF op.awaited THEN Confirmed(op) ELSE page
      /\ delegated' = IF op.awaited /\ op.kind = "policy"
                      THEN delegated \cup {[account |-> op.account, budget |-> op.budget]}
                      ELSE delegated
  BY DEF Land, bounds
<1>3. page' \in PageRecord /\ (page'.view = "waitlist" => page.view = "waitlist")
  BY <1>1, <1>2, ConfirmedPage
<1>4. WalletTypes'
  <2>1. rules' \subseteq RuleRecord /\ IsFiniteSet(rules')
    BY <1>1, <1>2, LandCounts
  <2>2. accounts' \in Nat
    BY <1>1, <1>2 DEF Apply, WalletTypes
  <2>3. made' = made \/ made' = [made EXCEPT !.rule = @ + 1]
    BY <1>2 DEF Apply
  <2>4. made' \in [key : Nat, rule : Nat]
    BY <1>1, <2>3 DEF WalletTypes
  <2>5. QED
    BY <1>1, <1>2, <1>3, <2>1, <2>2, <2>4 DEF WalletTypes
<1>5. PageWaits'
  <2>1. CASE op.awaited
    <3>1. page.tx # Nothing /\ page.pc \in Sending
      BY <1>1, <2>1, TypesHeld, WaitsForOne DEF PageWaits
    <3>2. page'.tx = Nothing /\ \A r \in srv' : ~r.awaited
      BY <1>2, <2>1, <3>1, ConfirmedPage, WaitsForOne DEF Sending, Asking
    <3>3. QED
      BY <1>2, <3>2, NothingAwaited
  <2>2. CASE ~op.awaited
    BY <1>1, <1>2, <2>2 DEF PageWaits
  <2>3. QED
    BY <2>1, <2>2
<1>6. BindsDelegated'
  <2>1. \A r \in srv' : r.kind = "bind" => r.grant \in delegated'
    BY <1>1, <1>2 DEF BindsDelegated
  <2>2. page'.pc = "bind" => [account |-> page'.account, budget |-> page'.budget] \in delegated'
    <3>1. CASE op.awaited
      BY <1>2, <3>1, ConfirmedPage
    <3>2. CASE ~op.awaited
      BY <1>1, <1>2, <3>2 DEF BindsDelegated
    <3>3. QED
      BY <3>1, <3>2
  <2>3. QED
    BY <2>1, <2>2 DEF BindsDelegated
<1>7. Spare' >= 0 /\ Paid(Spare)'
  <2> PICK n \in Nat : n = Spare
    BY <1>1
  <2>1. Paid(n)'
    BY <1>1, LandPaid
  <2>2. n <= Spare'
    BY <1>1, <1>2, <1>3 DEF Spare
  <2>3. QED
    BY <1>4, <2>1, <2>2, PaidIsEnough
<1>8. QED
  BY <1>4, <1>5, <1>6, <1>7 DEF DelegationInv

\* A step that leaves the rules, and sends nothing that nobody waits for.
LEMMA SameMishaps ==
  ASSUME DelegationInv, WalletTypes', rules' = rules, Spare <= Spare',
         \A op \in pending' : ~op.awaited => op \in pending,
         page'.pc = "add" => Count(page'.account) <= Spare,
         page'.pc = "clean" => /\ Cardinality(Beyond(page'.account, page'.stale)) <= Spare
                               /\ InVain' => Count(page'.account) <= Spare
  PROVE  Spare' >= 0 /\ Paid(Spare)'
<1>1. WalletTypes /\ Paid(Spare) /\ Spare \in Nat
  BY TypesHeld
<1> PICK n \in Nat : n = Spare
  BY <1>1
<1>2. Paid(n)'
  BY <1>1, RulesStay
<1>3. QED
  BY <1>2, PaidIsEnough

\* A mishap pays for whatever it leaves on the way.
LEMMA MishapPays ==
  ASSUME DelegationInv, WalletTypes', rules' = rules, Spare + 1 <= Spare',
         \A op \in pending' : ~op.awaited => op \in pending \/ LoosePaid(op, Spare + 1)
  PROVE  Spare' >= 0 /\ Paid(Spare)'
<1>1. WalletTypes /\ Paid(Spare) /\ Spare \in Nat
  BY TypesHeld
<1> PICK n \in Nat : n = Spare
  BY <1>1
<1>2. \A a \in Named : Count(a) <= n + 1
  BY <1>1 DEF Paid
<1>3. page'.account \in Named
  BY DEF WalletTypes, PageRecord
<1>4. Cardinality(Beyond(page'.account, page'.stale)) <= n + 1
  <2> PICK a, ids : a = page'.account /\ ids = page'.stale
    OBVIOUS
  <2>1. Count(a) <= n + 1 /\ Count(a) \in Nat /\ Cardinality(Beyond(a, ids)) <= Count(a)
        /\ Cardinality(Beyond(a, ids)) \in Nat
    BY <1>1, <1>2, <1>3, CountsAreNat
  <2>2. QED
    BY <2>1
<1>5. n + 1 \in Nat /\ n <= n + 1
  OBVIOUS
<1>6. Paid(n + 1)'
  BY <1>1, <1>2, <1>3, <1>4, <1>5, RulesStay
<1>7. QED
  BY <1>5, <1>6, PaidIsEnough

-----------------------------------------------------------------------------
(* The requests. *)

\* A request that is answered: the page goes on only if it still waits for it.
LEMMA AnswerStep ==
  ASSUME DelegationInv, NEW r \in srv, srv' = srv \ {r},
         UNCHANGED <<allowed, chain, delegated, bounds>>,
         row' \in [key : Named, grant : GrantRecord \cup {Nothing}] \cup {Nothing},
         ~r.awaited => page' = page,
         r.awaited => /\ page' \in PageRecord /\ page'.pc \in {"idle", "fund"} /\ page'.tx = Nothing
                      /\ page'.view = "waitlist" => ~allowed \/ page.view = "waitlist"
  PROVE  DelegationInv'
<1>1. /\ WalletTypes /\ PageWaits /\ BindsDelegated /\ Paid(Spare) /\ Spare \in Nat /\ mishaps \in Nat
      /\ page \in PageRecord
  BY TypesHeld
<1>2. /\ pending' = pending /\ rules' = rules /\ accounts' = accounts /\ made' = made /\ mishaps' = mishaps
      /\ allowed' = allowed /\ delegated' = delegated
  BY DEF chain, ledger, bounds
<1>3. WalletTypes'
  <2>1. page' \in PageRecord
    BY <1>1
  <2>2. QED
    BY <1>1, <1>2, <2>1 DEF WalletTypes
<1>4. Spare <= Spare'
  BY <1>1, <1>2 DEF Spare
<1>5. CASE ~r.awaited
  <2>1. page' = page
    BY <1>5
  <2>2. PageWaits'
    BY <1>1, <1>2, <2>1 DEF PageWaits
  <2>3. BindsDelegated'
    BY <1>1, <1>2, <2>1 DEF BindsDelegated
  <2>4. page.pc = "add" => Count(page.account) <= Spare
    BY <1>1 DEF Paid
  <2>5. page.pc = "clean" => /\ Cardinality(Beyond(page.account, page.stale)) <= Spare
                             /\ InVain => Count(page.account) <= Spare
    BY <1>1 DEF Paid
  <2>6. InVain' <=> InVain
    BY <1>2, <2>1 DEF InVain, IdsOf, RulesOf
  <2>7. Spare' >= 0 /\ Paid(Spare)'
    BY <1>2, <1>3, <1>4, <2>1, <2>4, <2>5, <2>6, SameMishaps
  <2>8. QED
    BY <1>3, <2>2, <2>3, <2>7 DEF DelegationInv
<1>6. CASE r.awaited
  <2>1. page'.pc \in {"idle", "fund"} /\ page'.tx = Nothing
    BY <1>6
  <2>2. page.pc \in Asking /\ \A q \in srv' : ~q.awaited
    BY <1>6, WaitsForOne
  <2>3. \A op \in pending' : ~op.awaited
    BY <1>2, <2>2, WaitsForOne DEF Asking, Sending
  <2>4. PageWaits'
    BY <2>1, <2>2, <2>3, NothingAwaited
  <2>5. BindsDelegated'
    BY <1>1, <1>2, <2>1 DEF BindsDelegated
  <2>6. Spare' >= 0 /\ Paid(Spare)'
    BY <1>2, <1>3, <1>4, <2>1, SameMishaps
  <2>7. QED
    BY <1>3, <2>4, <2>5, <2>6 DEF DelegationInv
<1>7. QED
  BY <1>1, <1>5, <1>6 DEF WalletTypes, SrvRecord

\* A request that has read the row, and is to write it.
LEMMA ReadStep ==
  ASSUME DelegationInv, NEW r \in srv, NEW key \in Named, srv' = (srv \ {r}) \cup {[r EXCEPT !.stage = "write", !.key = key]},
         UNCHANGED <<allowed, row, page, pending, rules, accounts, delegated, bounds>>,
         made' \in [key : Nat, rule : Nat]
  PROVE  DelegationInv'
<1> DEFINE s == [r EXCEPT !.stage = "write", !.key = key]
<1>1. /\ WalletTypes /\ PageWaits /\ BindsDelegated /\ Paid(Spare) /\ Spare \in Nat /\ mishaps \in Nat
      /\ page \in PageRecord /\ r \in SrvRecord
  BY TypesHeld DEF WalletTypes
<1>2. s \in SrvRecord
  BY <1>1 DEF SrvRecord
<1>3. s.kind = r.kind /\ s.awaited = r.awaited /\ s.grant = r.grant
  BY <1>1 DEF SrvRecord
<1>4. srv' = (srv \ {r}) \cup {s}
  OBVIOUS
<1> HIDE DEF s
<1>5. mishaps' = mishaps
  BY DEF bounds
<1>6. WalletTypes'
  BY <1>1, <1>2, <1>4, <1>5 DEF WalletTypes
<1>7. PageWaits'
  <2>1. \A q \in srv' : q.awaited => page.pc = AskedAs(q.kind)
    BY <1>1, <1>3, <1>4 DEF PageWaits
  <2>2. \A q, p \in srv' : q.awaited /\ p.awaited => q = p
    BY <1>1, <1>3, <1>4 DEF PageWaits
  <2>3. QED
    BY <1>1, <2>1, <2>2 DEF PageWaits, AskedAs
<1>8. BindsDelegated'
  BY <1>1, <1>3, <1>4 DEF BindsDelegated
<1>9. Spare' = Spare
  BY <1>5 DEF Spare
<1>10. page.pc = "add" => Count(page.account) <= Spare
  BY <1>1 DEF Paid
<1>11. page.pc = "clean" => /\ Cardinality(Beyond(page.account, page.stale)) <= Spare
                            /\ InVain => Count(page.account) <= Spare
  BY <1>1 DEF Paid
<1>12. InVain' <=> InVain
  BY DEF InVain, IdsOf, RulesOf
<1>13. Spare' >= 0 /\ Paid(Spare)'
  BY <1>1, <1>6, <1>9, <1>10, <1>11, <1>12, SameMishaps
<1>14. QED
  BY <1>6, <1>7, <1>8, <1>13 DEF DelegationInv

\* The pages that an answer leads to.
LEMMA FreshIsAPage ==
  ASSUME NEW account \in Named, NEW view \in {"connect", "delegate", "manage", "waitlist"}, NEW rule \in Named
  PROVE  /\ Fresh(account, view) \in PageRecord /\ Fresh(account, view).pc = "idle"
         /\ Fresh(account, view).tx = Nothing /\ Fresh(account, view).view = view
         /\ [Fresh(account, view) EXCEPT !.rule = rule] \in PageRecord
         /\ [Fresh(account, view) EXCEPT !.rule = rule].pc = "idle"
         /\ [Fresh(account, view) EXCEPT !.rule = rule].tx = Nothing
         /\ [Fresh(account, view) EXCEPT !.rule = rule].view = view
<1>1. Nothing \in Named
  BY DEF Named
<1>2. Fresh(account, view) \in PageRecord
  BY <1>1 DEF Fresh, PageRecord, PagePcs
<1>3. Fresh(account, view).pc = "idle" /\ Fresh(account, view).tx = Nothing /\ Fresh(account, view).view = view
  BY DEF Fresh
<1> PICK f : f = Fresh(account, view)
  OBVIOUS
<1>4. [f EXCEPT !.rule = rule] \in PageRecord
  BY <1>2 DEF PageRecord
<1>5. [f EXCEPT !.rule = rule].pc = f.pc /\ [f EXCEPT !.rule = rule].tx = f.tx
      /\ [f EXCEPT !.rule = rule].view = f.view
  BY <1>2 DEF PageRecord
<1>6. QED
  BY <1>2, <1>3, <1>4, <1>5

LEMMA IssuedPage ==
  ASSUME page \in PageRecord, page.tx = Nothing, NEW key \in Named, Issued(key)
  PROVE  page' \in PageRecord /\ page'.pc = "fund" /\ page'.tx = Nothing /\ page'.view = page.view
<1>1. PICK b \in Budgets : page' = [page EXCEPT !.pc = "fund", !.key = key, !.budget = b]
  BY DEF Issued
<1>2. page' \in PageRecord
  BY <1>1 DEF PageRecord, PagePcs
<1>3. page'.pc = "fund" /\ page'.tx = page.tx /\ page'.view = page.view
  BY <1>1 DEF PageRecord
<1>4. QED
  BY <1>2, <1>3

LEMMA RequestStep ==
  ASSUME DelegationInv, NEW r \in srv, Request(r)
  PROVE  DelegationInv'
<1>1. /\ WalletTypes /\ page \in PageRecord /\ page.account \in Named /\ page.rule \in Named /\ r \in SrvRecord
      /\ page.view \in {"connect", "delegate", "manage", "waitlist"} /\ Nothing \in Named
  BY TypesHeld DEF WalletTypes, PageRecord, Named
<1>2. r.awaited => page.tx = Nothing
  BY WaitsForOne DEF Sending, Asking
<1>3. CASE Refused(r)
  <2>1. page' = IF r.awaited THEN Failed("waitlist") ELSE page
    BY <1>3 DEF Refused, Answers
  <2>2. Failed("waitlist") \in PageRecord /\ Failed("waitlist").pc = "idle" /\ Failed("waitlist").tx = Nothing
    BY <1>1, FreshIsAPage DEF Failed
  <2>3. ~allowed /\ srv' = srv \ {r} /\ UNCHANGED <<allowed, row, chain, delegated, bounds>>
    BY <1>3 DEF Refused
  <2>4. QED
    BY <1>1, <2>1, <2>2, <2>3, AnswerStep DEF WalletTypes
<1>4. CASE SessionSignerReads(r)
  <2>1. CASE row # Nothing /\ srv' = srv \ {r} /\ UNCHANGED made /\ (IF r.awaited THEN Issued(row.key) ELSE UNCHANGED page)
    <3>1. row.key \in Named
      BY <1>1, <2>1 DEF WalletTypes
    <3>2. UNCHANGED <<allowed, row, chain, delegated, bounds>>
      BY <1>4, <2>1 DEF SessionSignerReads, chain, ledger
    <3>3. r.awaited => page' \in PageRecord /\ page'.pc = "fund" /\ page'.tx = Nothing /\ page'.view = page.view
      BY <1>1, <1>2, <2>1, <3>1, IssuedPage
    <3>4. QED
      BY <1>1, <2>1, <3>2, <3>3, AnswerStep DEF WalletTypes
  <2>2. CASE /\ made' = [made EXCEPT !.key = @ + 1] /\ UNCHANGED page
             /\ srv' = (srv \ {r}) \cup {[r EXCEPT !.stage = "write", !.key = made.key + 1]}
    <3>1. made' \in [key : Nat, rule : Nat] /\ made.key + 1 \in Named
      BY <1>1, <2>2 DEF WalletTypes, Named
    <3>2. UNCHANGED <<allowed, row, page, pending, rules, accounts, delegated, bounds>>
      BY <1>4, <2>2 DEF SessionSignerReads
    <3>3. QED
      BY <2>2, <3>1, <3>2, ReadStep
  <2>3. QED
    BY <1>4, <2>1, <2>2 DEF SessionSignerReads
<1>5. CASE UpsertBinding(r)
  <2>1. /\ row' = [key |-> r.key, grant |-> Nothing] /\ srv' = srv \ {r}
        /\ IF r.awaited THEN Issued(r.key) ELSE UNCHANGED page
        /\ UNCHANGED <<allowed, chain, delegated, bounds>>
    BY <1>5 DEF UpsertBinding
  <2>2. r.key \in Named
    BY <1>1 DEF SrvRecord
  <2>3. row' \in [key : Named, grant : GrantRecord \cup {Nothing}] \cup {Nothing}
    BY <2>1, <2>2
  <2>4. r.awaited => page' \in PageRecord /\ page'.pc = "fund" /\ page'.tx = Nothing /\ page'.view = page.view
    BY <1>1, <1>2, <2>1, <2>2, IssuedPage
  <2>5. QED
    BY <2>1, <2>3, <2>4, AnswerStep
<1>6. CASE BindingReads(r)
  <2>1. CASE srv' = srv \ {r} /\ Answers(r, Failed(page.view))
    <3>1. page' = IF r.awaited THEN Failed(page.view) ELSE page
      BY <2>1 DEF Answers
    <3>2. Failed(page.view) \in PageRecord /\ Failed(page.view).pc = "idle" /\ Failed(page.view).tx = Nothing
          /\ Failed(page.view).view = page.view
      BY <1>1, FreshIsAPage DEF Failed
    <3>3. UNCHANGED <<allowed, row, chain, delegated, bounds>>
      BY <1>6 DEF BindingReads
    <3>4. QED
      BY <1>1, <2>1, <3>1, <3>2, <3>3, AnswerStep DEF WalletTypes
  <2>2. CASE srv' = (srv \ {r}) \cup {[r EXCEPT !.stage = "write"]} /\ UNCHANGED page
    <3>1. [r EXCEPT !.stage = "write"] = [r EXCEPT !.stage = "write", !.key = r.key] /\ r.key \in Named
      BY <1>1 DEF SrvRecord
    <3>2. UNCHANGED <<allowed, row, page, pending, rules, accounts, made, delegated, bounds>>
      BY <1>6, <2>2 DEF BindingReads, chain, ledger
    <3>3. made' \in [key : Nat, rule : Nat]
      BY <1>1, <3>2 DEF WalletTypes
    <3>4. QED
      BY <2>2, <3>1, <3>2, <3>3, ReadStep
  <2>3. QED
    BY <1>6, <2>1, <2>2 DEF BindingReads
<1>7. CASE BindWallet(r)
  <2> DEFINE next == [Fresh(page.account, "manage") EXCEPT !.rule = page.rule]
  <2>1. page' = IF r.awaited THEN next ELSE page
    BY <1>7 DEF BindWallet, Answers
  <2>2. next \in PageRecord /\ next.pc = "idle" /\ next.tx = Nothing /\ next.view = "manage"
    BY <1>1, FreshIsAPage
  <2> HIDE DEF next
  <2>3. srv' = srv \ {r} /\ UNCHANGED <<allowed, chain, delegated, bounds>>
        /\ row' = IF row = Nothing THEN Nothing ELSE [row EXCEPT !.grant = r.grant]
    BY <1>7 DEF BindWallet
  <2>4. row' \in [key : Named, grant : GrantRecord \cup {Nothing}] \cup {Nothing}
    <3>1. r.grant \in GrantRecord
      BY <1>1 DEF SrvRecord
    <3>2. QED
      BY <1>1, <2>3, <3>1 DEF WalletTypes
  <2>5. QED
    BY <2>1, <2>2, <2>3, <2>4, AnswerStep
<1>8. CASE DeleteBinding(r)
  <2>1. page' = IF r.awaited THEN Fresh(page.account, "connect") ELSE page
    BY <1>8 DEF DeleteBinding, Answers
  <2>2. Fresh(page.account, "connect") \in PageRecord /\ Fresh(page.account, "connect").pc = "idle"
        /\ Fresh(page.account, "connect").tx = Nothing /\ Fresh(page.account, "connect").view = "connect"
    BY <1>1, FreshIsAPage
  <2>3. row' = Nothing /\ srv' = srv \ {r} /\ UNCHANGED <<allowed, chain, delegated, bounds>>
    BY <1>8 DEF DeleteBinding
  <2>4. QED
    BY <2>1, <2>2, <2>3, AnswerStep
<1>9. QED
  BY <1>3, <1>4, <1>5, <1>6, <1>7, <1>8 DEF Request

-----------------------------------------------------------------------------
(* The page. *)

LEMMA SubmitStep ==
  ASSUME DelegationInv, NEW op \in OpRecord, Submit(op), page.pc \in Sending,
         op.awaited, op.account = page.account, op.budget = page.budget, op.kind = SentAs(page.pc),
         page.pc = "clean" => op.rule \in page.stale
  PROVE  DelegationInv'
<1>1. /\ WalletTypes /\ PageWaits /\ BindsDelegated /\ Paid(Spare) /\ Spare \in Nat /\ mishaps \in Nat
      /\ page \in PageRecord /\ op # Nothing
  BY TypesHeld, NothingAssumption
<1>2. /\ page.tx = Nothing /\ pending' = pending \cup {op} /\ page' = [page EXCEPT !.tx = op]
      /\ UNCHANGED <<allowed, row, srv, rules, accounts, made, delegated, mishaps>>
  BY DEF Submit, ledger, bounds
<1>3. /\ page'.tx = op /\ page'.pc = page.pc /\ page'.view = page.view /\ page'.account = page.account
      /\ page'.budget = page.budget /\ page'.stale = page.stale
  BY <1>1, <1>2 DEF PageRecord
<1>4. WalletTypes'
  <2>1. page' \in PageRecord
    BY <1>1, <1>2 DEF PageRecord
  <2>2. QED
    BY <1>1, <1>2, <2>1 DEF WalletTypes
<1>5. PageWaits'
  <2>1. \A q \in pending : ~q.awaited
    BY <1>2, WaitsForOne
  <2>2. \A q \in pending' : q.awaited => q = page'.tx
    BY <1>2, <1>3, <2>1
  <2>3. \A r \in srv' : r.awaited => page'.pc = AskedAs(r.kind)
    BY <1>1, <1>2, <1>3 DEF PageWaits
  <2>4. \A r, q \in srv' : r.awaited /\ q.awaited => r = q
    BY <1>1, <1>2 DEF PageWaits
  <2>5. QED
    BY <1>3, <2>2, <2>3, <2>4 DEF PageWaits
<1>6. BindsDelegated'
  BY <1>1, <1>2, <1>3 DEF BindsDelegated
<1>7. Spare' = Spare
  BY <1>2, <1>3 DEF Spare
<1>8. InVain' => InVain
  <2>1. op \in pending' /\ IdsOf(page.account)' = IdsOf(page.account)
    BY <1>2, <1>3 DEF IdsOf, RulesOf
  <2>2. QED
    BY <1>3, <2>1 DEF InVain
<1>9. page.pc = "add" => Count(page.account) <= Spare
  BY <1>1 DEF Paid
<1>10. page.pc = "clean" => /\ Cardinality(Beyond(page.account, page.stale)) <= Spare
                            /\ InVain => Count(page.account) <= Spare
  BY <1>1 DEF Paid
<1>11. Spare' >= 0 /\ Paid(Spare)'
  <2>1. \A q \in pending' : ~q.awaited => q \in pending
    BY <1>2
  <2>2. Spare <= Spare'
    BY <1>1, <1>7
  <2>3. QED
    BY <1>2, <1>3, <1>4, <1>8, <1>9, <1>10, <2>1, <2>2, SameMishaps
<1>12. QED
  BY <1>4, <1>5, <1>6, <1>11 DEF DelegationInv

\* The page goes on to another step of its own.
LEMMA PageStep ==
  ASSUME DelegationInv, UNCHANGED <<allowed, row, srv, chain, delegated, mishaps>>,
         page.tx = Nothing, page.pc \notin Asking,
         page' \in PageRecord, page'.tx = Nothing, page'.view = page.view, page'.pc # "bind",
         page'.pc = "add" => Count(page'.account) <= Spare,
         page'.pc = "clean" => /\ Cardinality(Beyond(page'.account, page'.stale)) <= Spare
                               /\ InVain' => Count(page'.account) <= Spare
  PROVE  DelegationInv'
<1>1. WalletTypes /\ PageWaits /\ BindsDelegated /\ Spare \in Nat
  BY TypesHeld
<1>2. UNCHANGED <<pending, rules, accounts, made>>
  BY DEF chain, ledger
<1>3. WalletTypes'
  BY <1>1, <1>2 DEF WalletTypes
<1>4. (\A op \in pending : ~op.awaited) /\ \A r \in srv : ~r.awaited
  BY WaitsForOne
<1>5. PageWaits'
  BY <1>2, <1>4, NothingAwaited
<1>6. BindsDelegated'
  BY <1>1 DEF BindsDelegated
<1>7. Spare <= Spare'
  BY <1>1 DEF Spare
<1>8. Spare' >= 0 /\ Paid(Spare)'
  BY <1>2, <1>3, <1>7, SameMishaps
<1>9. QED
  BY <1>3, <1>5, <1>6, <1>8 DEF DelegationInv

\* A step of the page that names the step it goes to.
LEMMA GoesTo ==
  ASSUME page \in PageRecord, NEW pc \in PagePcs, Step(pc)
  PROVE  page' \in PageRecord /\ page'.pc = pc /\ page'.tx = page.tx /\ page'.view = page.view
         /\ page'.account = page.account /\ page'.budget = page.budget /\ page'.stale = page.stale
<1>1. page' = [page EXCEPT !.pc = pc]
  BY DEF Step
<1>2. page' \in PageRecord
  BY <1>1 DEF PageRecord
<1>3. QED
  BY <1>1, <1>2 DEF PageRecord

\* The page asks the server for something, and waits.
LEMMA AskStep ==
  ASSUME DelegationInv, page.tx = Nothing, page.pc \notin Asking,
         NEW kind \in {"issue", "bind", "revoke"}, kind = "bind" => page.pc = "bind",
         Ask(kind, AskedAs(kind)),
         UNCHANGED <<allowed, row, chain, delegated, mishaps>>
  PROVE  DelegationInv'
<1> DEFINE s == [kind |-> kind, awaited |-> TRUE, stage |-> "read", key |-> Nothing,
                 grant |-> [account |-> page.account, budget |-> page.budget]]
<1>1. WalletTypes /\ PageWaits /\ BindsDelegated /\ Spare \in Nat /\ page \in PageRecord
  BY TypesHeld
<1>2. UNCHANGED <<pending, rules, accounts, made>>
  BY DEF chain, ledger
<1>3. srv' = srv \cup {s} /\ Step(AskedAs(kind))
  BY DEF Ask
<1>4. AskedAs(kind) \in PagePcs /\ AskedAs(kind) \in Asking
  BY DEF AskedAs, PagePcs, Asking
<1>5. /\ page' \in PageRecord /\ page'.pc = AskedAs(kind) /\ page'.tx = Nothing /\ page'.view = page.view
  BY <1>1, <1>3, <1>4, GoesTo
<1>6. s \in SrvRecord /\ s.kind = kind /\ s.grant = [account |-> page.account, budget |-> page.budget]
  BY <1>1 DEF SrvRecord, GrantRecord, PageRecord, Named
<1> HIDE DEF s
<1>7. WalletTypes'
  BY <1>1, <1>2, <1>3, <1>5, <1>6 DEF WalletTypes
<1>8. (\A op \in pending : ~op.awaited) /\ \A r \in srv : ~r.awaited
  BY WaitsForOne
<1>9. PageWaits'
  <2>1. \A r \in srv' : r.awaited => r = s
    BY <1>3, <1>8
  <2>2. \A r \in srv' : r.awaited => page'.pc = AskedAs(r.kind)
    BY <1>5, <1>6, <2>1
  <2>3. QED
    BY <1>2, <1>5, <1>8, <2>1, <2>2 DEF PageWaits
<1>10. BindsDelegated'
  <2>1. page'.pc # "bind"
    BY <1>4, <1>5 DEF Asking
  <2>2. QED
    BY <1>1, <1>3, <1>6, <2>1 DEF BindsDelegated
<1>11. Spare <= Spare'
  BY <1>1, <1>5 DEF Spare
<1>12. Spare' >= 0 /\ Paid(Spare)'
  BY <1>2, <1>4, <1>5, <1>7, <1>11, SameMishaps DEF Asking
<1>13. QED
  BY <1>7, <1>9, <1>10, <1>12 DEF DelegationInv

\* The transactions that the page sends at its steps.
LEMMA OpIsRecord ==
  ASSUME page \in PageRecord, NEW kind \in OpKinds, NEW rule \in Named
  PROVE  Op(kind, rule) \in OpRecord /\ Op(kind, rule).awaited /\ Op(kind, rule).account = page.account
         /\ Op(kind, rule).budget = page.budget /\ Op(kind, rule).kind = kind /\ Op(kind, rule).rule = rule
BY DEF Op, OpRecord, PageRecord

LEMMA DelegateSteps ==
  ASSUME DelegationInv, DelegateStep \/ CreateOrConnectAccount \/ Revoke \/ RevokeBinding \/ HandleDeploy
                        \/ HandleDelegate \/ HandleRevoke
  PROVE  DelegationInv'
<1>1. /\ WalletTypes /\ PageWaits /\ Paid(Spare) /\ Spare \in Nat /\ page \in PageRecord /\ page.stale \subseteq Nat
      /\ page.account \in Named /\ page.rule \in Named /\ page.found \in Named /\ Nothing \in Named
  BY TypesHeld DEF PageRecord, Named
<1>2. page.pc \notin Sending => page.tx = Nothing
  BY WaitsForOne
<1>3. ASSUME NEW kind \in OpKinds, NEW rule \in Named, Submit(Op(kind, rule)), page.pc \in Sending,
             kind = SentAs(page.pc), page.pc = "clean" => rule \in page.stale
      PROVE  DelegationInv'
  <2> PICK op : op = Op(kind, rule)
    OBVIOUS
  <2>1. op \in OpRecord /\ op.awaited /\ op.account = page.account /\ op.budget = page.budget /\ op.kind = kind
        /\ op.rule = rule
    BY <1>1, OpIsRecord
  <2>2. QED
    BY <1>3, <2>1, SubmitStep
<1>4. ASSUME NEW pc \in PagePcs \ {"bind", "clean", "add"}, Step(pc), page.tx = Nothing, page.pc \notin Asking,
             UNCHANGED <<allowed, row, srv, chain, delegated, mishaps>>
      PROVE  DelegationInv'
  <2>1. page' \in PageRecord /\ page'.pc = pc /\ page'.tx = Nothing /\ page'.view = page.view
    BY <1>1, <1>4, GoesTo
  <2>2. QED
    BY <1>4, <2>1, PageStep
<1>5. CASE HandleDeploy
  BY <1>2, <1>4, <1>5 DEF HandleDeploy, PageOnly, PagePcs, Asking, Sending, bounds
<1>6. CASE CreateOrConnectAccount
  BY <1>1, <1>3, <1>6 DEF CreateOrConnectAccount, OpKinds, Sending, SentAs
<1>7. CASE HandleDelegate
  <2>1. page.pc = "idle" /\ Ask("issue", "issue") /\ UNCHANGED <<allowed, row, chain, delegated, mishaps>>
    BY <1>7 DEF HandleDelegate
  <2>2. QED
    BY <1>2, <2>1, AskStep DEF AskedAs, Asking, Sending
<1>8. CASE EnsureSessionAccountExists
  <2>1. page.pc = "fund"
    BY <1>8 DEF EnsureSessionAccountExists
  <2>2. CASE page.tx = Nothing /\ Step("look") /\ PageOnly
    BY <1>4, <2>1, <2>2 DEF PageOnly, PagePcs, Asking, bounds
  <2>3. CASE Submit(Op("fund", Nothing))
    BY <1>1, <1>3, <2>1, <2>3 DEF OpKinds, Sending, SentAs
  <2>4. QED
    BY <1>8, <2>2, <2>3 DEF EnsureSessionAccountExists
<1>9. CASE LookForStale
  <2>1. page.pc = "look" /\ page' = [page EXCEPT !.pc = "clean", !.stale = IdsOf(page.account)]
        /\ UNCHANGED <<allowed, row, srv, chain, delegated, mishaps>>
    BY <1>9 DEF LookForStale, PageOnly, bounds, IdsOf
  <2>2. IdsOf(page.account) \in SUBSET Nat
    BY <1>1 DEF IdsOf, RulesOf, WalletTypes, RuleRecord
  <2>3. page' \in PageRecord
    BY <1>1, <2>1, <2>2 DEF PageRecord, PagePcs
  <2>4. /\ page'.pc = "clean" /\ page'.tx = page.tx /\ page'.view = page.view /\ page'.account = page.account
        /\ page'.stale = IdsOf(page.account)
    BY <1>1, <2>1 DEF PageRecord
  <2>5. Beyond(page.account, IdsOf(page.account)) = {}
    BY DEF Beyond, IdsOf
  <2>6. Cardinality(Beyond(page'.account, page'.stale)) <= Spare
    BY <1>1, <2>4, <2>5, FS_EmptySet
  <2>7. IdsOf(page.account)' = IdsOf(page.account)
    BY <2>1, <2>4 DEF IdsOf, RulesOf, chain, ledger
  <2>8. ~InVain'
    BY <1>2, <2>1, <2>4, <2>7 DEF InVain, Sending
  <2>9. QED
    BY <1>2, <2>1, <2>3, <2>4, <2>6, <2>8, PageStep DEF Asking, Sending
<1>10. CASE RemoveStale
  <2>1. page.pc = "clean"
    BY <1>10 DEF RemoveStale
  <2>2. CASE page.stale = {} /\ Step("add") /\ PageOnly
    <3>1. page' \in PageRecord /\ page'.pc = "add" /\ page'.tx = page.tx /\ page'.view = page.view
          /\ page'.account = page.account
      BY <1>1, <2>2, GoesTo DEF PagePcs
    <3>2. page.tx = Nothing
      BY <1>1, <2>1, <2>2 DEF PageWaits
    <3>3. Beyond(page.account, page.stale) = RulesOf(page.account)
      BY <2>2 DEF Beyond
    <3>4. Count(page.account) <= Spare
      BY <1>1, <2>1, <3>3 DEF Paid, Count
    <3>5. UNCHANGED <<allowed, row, srv, chain, delegated, mishaps>>
      BY <2>2 DEF PageOnly, bounds
    <3>6. QED
      BY <2>1, <3>1, <3>2, <3>4, <3>5, PageStep DEF Asking
  <2>3. CASE \E id \in page.stale : Submit(Op("remove", id))
    <3>1. PICK id \in page.stale : Submit(Op("remove", id))
      BY <2>3
    <3>2. id \in Named
      BY <1>1 DEF Named
    <3>3. QED
      BY <1>3, <2>1, <3>1, <3>2 DEF OpKinds, Sending, SentAs
  <2>4. QED
    BY <1>10, <2>2, <2>3 DEF RemoveStale
<1>11. CASE AddContextRule
  BY <1>1, <1>3, <1>11 DEF AddContextRule, OpKinds, Sending, SentAs
<1>12. CASE FindRule
  <2>1. PICK r \in RulesOf(page.account) : page' = [page EXCEPT !.pc = "policy", !.found = r.id]
    BY <1>12 DEF FindRule
  <2>2. page.pc = "find" /\ UNCHANGED <<allowed, row, srv, chain, delegated, mishaps>>
    BY <1>12 DEF FindRule, PageOnly, bounds
  <2>3. r.id \in Named
    BY <1>1 DEF RulesOf, WalletTypes, RuleRecord, Named
  <2>4. page' \in PageRecord
    BY <1>1, <2>1, <2>3 DEF PageRecord, PagePcs
  <2>5. page'.pc = "policy" /\ page'.tx = page.tx /\ page'.view = page.view
    BY <1>1, <2>1 DEF PageRecord
  <2>6. QED
    BY <1>2, <2>2, <2>4, <2>5, PageStep DEF Asking, Sending
<1>13. CASE AddPolicy
  BY <1>1, <1>3, <1>13 DEF AddPolicy, OpKinds, Sending, SentAs
<1>14. CASE ConfirmBinding
  <2>1. page.pc = "bind" /\ Ask("bind", "bound") /\ UNCHANGED <<allowed, row, chain, delegated, mishaps>>
    BY <1>14 DEF ConfirmBinding, bounds
  <2>2. QED
    BY <1>2, <2>1, AskStep DEF AskedAs, Asking, Sending
<1>15. CASE HandleRevoke
  <2>1. page.pc = "idle" /\ Step("unrule") /\ UNCHANGED <<allowed, row, srv, chain, delegated, mishaps>>
    BY <1>15 DEF HandleRevoke
  <2>2. QED
    BY <1>2, <1>4, <2>1 DEF PagePcs, Asking, Sending
<1>16. CASE Revoke
  BY <1>1, <1>3, <1>16 DEF Revoke, OpKinds, Sending, SentAs
<1>17. CASE RevokeBinding
  <2>1. page.pc = "unlink" /\ Ask("revoke", "unlinked") /\ UNCHANGED <<allowed, row, chain, delegated, mishaps>>
    BY <1>17 DEF RevokeBinding, bounds
  <2>2. QED
    BY <1>2, <2>1, AskStep DEF AskedAs, Asking, Sending
<1>18. QED
  BY <1>5, <1>6, <1>7, <1>8, <1>9, <1>10, <1>11, <1>12, <1>13, <1>14, <1>15, <1>16, <1>17 DEF DelegateStep

-----------------------------------------------------------------------------
(* Transfers, failures and reloads. *)

\* A mishap that leaves what the page waits for.
LEMMA MishapStep ==
  ASSUME DelegationInv, UNCHANGED <<row, srv, page, rules, accounts, made, delegated>>,
         mishaps' = mishaps + 1, allowed' = allowed, pending' \subseteq OpRecord,
         \A op \in pending' : op \in pending \/ (~op.awaited /\ LoosePaid(op, Spare + 1))
  PROVE  DelegationInv'
<1>1. WalletTypes /\ PageWaits /\ BindsDelegated /\ Spare \in Nat /\ mishaps \in Nat
  BY TypesHeld
<1>2. WalletTypes'
  BY <1>1 DEF WalletTypes
<1>3. PageWaits'
  BY <1>1 DEF PageWaits
<1>4. BindsDelegated'
  BY <1>1 DEF BindsDelegated
<1>5. Spare + 1 <= Spare'
  BY <1>1 DEF Spare
<1>6. Spare' >= 0 /\ Paid(Spare)'
  BY <1>2, <1>5, MishapPays
<1>7. QED
  BY <1>2, <1>3, <1>4, <1>6 DEF DelegationInv

\* A step that changes nothing that the invariant speaks of.
LEMMA NothingMoves ==
  ASSUME DelegationInv,
         UNCHANGED <<row, srv, page, pending, rules, accounts, made, delegated, mishaps>>, allowed' \/ allowed' = allowed
  PROVE  DelegationInv'
<1>1. WalletTypes /\ PageWaits /\ BindsDelegated /\ Paid(Spare) /\ Spare \in Nat /\ mishaps \in Nat
  BY TypesHeld
<1>2. WalletTypes'
  BY <1>1 DEF WalletTypes
<1>3. PageWaits'
  BY <1>1 DEF PageWaits
<1>4. BindsDelegated'
  BY <1>1 DEF BindsDelegated
<1>5. Spare <= Spare'
  BY <1>1 DEF Spare
<1>6. page.pc = "add" => Count(page.account) <= Spare
  BY <1>1 DEF Paid
<1>7. page.pc = "clean" => /\ Cardinality(Beyond(page.account, page.stale)) <= Spare
                           /\ InVain => Count(page.account) <= Spare
  BY <1>1 DEF Paid
<1>8. InVain' <=> InVain
  BY DEF InVain, IdsOf, RulesOf
<1>9. Spare' >= 0 /\ Paid(Spare)'
  BY <1>2, <1>5, <1>6, <1>7, <1>8, SameMishaps
<1>10. QED
  BY <1>2, <1>3, <1>4, <1>9 DEF DelegationInv

LEMMA SendStep ==
  ASSUME DelegationInv, NEW kind \in {"topUp", "withdraw", "trust"}, Send(kind)
  PROVE  DelegationInv'
<1>1. /\ WalletTypes /\ Paid(Spare) /\ Spare \in Nat /\ page \in PageRecord /\ Nothing \in Named
      /\ kind \in OpKinds
  BY TypesHeld DEF Named, OpKinds
<1>2. Op(kind, Nothing) \in OpRecord /\ Op(kind, Nothing).kind = kind
  BY <1>1, OpIsRecord
<1> PICK op : op = Op(kind, Nothing)
  OBVIOUS
<1>3. cash' = [op EXCEPT !.awaited = FALSE, !.key = Nothing, !.budget = Nothing]
      /\ pending' = pending \cup {cash'} /\ mishaps' = mishaps + 1
      /\ UNCHANGED <<allowed, row, srv, page, rules, accounts, made, delegated>>
  BY DEF Send, Mishap, ledger
<1>4. cash' \in OpRecord /\ ~cash'.awaited /\ cash'.kind = kind
  BY <1>1, <1>2, <1>3 DEF OpRecord
<1>5. \A a \in Named : Count(a) <= Spare + 1
  BY <1>1 DEF Paid
<1>6. LoosePaid(cash', Spare + 1)
  BY <1>4, <1>5 DEF LoosePaid
<1>7. pending' \subseteq OpRecord
  BY <1>1, <1>3, <1>4 DEF WalletTypes
<1>8. \A q \in pending' : q \in pending \/ (~q.awaited /\ LoosePaid(q, Spare + 1))
  BY <1>3, <1>4, <1>6
<1>9. QED
  BY <1>3, <1>7, <1>8, MishapStep

\* What is left on the way has been paid for by one mishap more.
LEMMA AbandonPaid ==
  ASSUME DelegationInv, Abandon
  PROVE  /\ pending' \subseteq OpRecord /\ srv' \subseteq SrvRecord
         /\ \A op \in pending' : ~op.awaited /\ LoosePaid(op, Spare + 1)
         /\ (\A op \in pending : ~op.awaited) => pending' = pending
         /\ \A r \in srv' : ~r.awaited /\ (r.kind = "bind" => r.grant \in delegated)
<1>1. WalletTypes /\ PageWaits /\ BindsDelegated /\ Paid(Spare) /\ Spare \in Nat /\ pending \subseteq OpRecord /\ srv \subseteq SrvRecord
  BY TypesHeld DEF WalletTypes
<1>2. pending' = {[op EXCEPT !.awaited = FALSE] : op \in pending} /\ srv' = {[r EXCEPT !.awaited = FALSE] : r \in srv}
  BY DEF Abandon
<1>3. ASSUME NEW op \in pending
      PROVE  /\ [op EXCEPT !.awaited = FALSE] \in OpRecord /\ ~[op EXCEPT !.awaited = FALSE].awaited
             /\ LoosePaid([op EXCEPT !.awaited = FALSE], Spare + 1)
             /\ ~op.awaited => [op EXCEPT !.awaited = FALSE] = op
  <2> PICK loose : loose = [op EXCEPT !.awaited = FALSE]
    OBVIOUS
  <2>1. loose \in OpRecord /\ ~loose.awaited /\ loose.kind = op.kind /\ loose.account = op.account
    BY <1>1 DEF OpRecord
  <2>2. ~op.awaited => loose = op
    BY <1>1 DEF OpRecord
  <2>3. \A a \in Named : Count(a) <= Spare + 1
    BY <1>1 DEF Paid
  <2>4. ASSUME op.kind = "add"
        PROVE  Count(op.account) + 1 <= Spare + 1
    <3>1. Count(op.account) \in Nat
      BY <1>1, CountsAreNat
    <3>2. CASE op.awaited
      <4>1. op = page.tx /\ op # Nothing
        BY <1>1, <3>2, NothingAssumption DEF PageWaits
      <4>2. page.pc = "add" /\ op.account = page.account
        BY <1>1, <2>4, <4>1 DEF PageWaits, SentAs
      <4>3. Count(op.account) <= Spare
        BY <1>1, <4>2 DEF Paid
      <4>4. QED
        BY <1>1, <3>1, <4>3
    <3>3. CASE ~op.awaited
      <4>1. Count(op.account) + 1 <= Spare
        BY <1>1, <2>4, <3>3 DEF Paid, LoosePaid
      <4>2. QED
        BY <1>1, <3>1, <4>1
    <3>4. QED
      BY <3>2, <3>3
  <2>5. LoosePaid(loose, Spare + 1)
    BY <2>1, <2>3, <2>4 DEF LoosePaid
  <2>6. QED
    BY <2>1, <2>2, <2>5
<1>4. \A r \in srv : [r EXCEPT !.awaited = FALSE] \in SrvRecord
  BY <1>1 DEF SrvRecord
<1>5. \A r \in srv : ~[r EXCEPT !.awaited = FALSE].awaited /\ [r EXCEPT !.awaited = FALSE].kind = r.kind
                     /\ [r EXCEPT !.awaited = FALSE].grant = r.grant
  BY <1>1 DEF SrvRecord
<1> DEFINE loosened(op) == [op EXCEPT !.awaited = FALSE]
<1>6. pending' \subseteq OpRecord /\ \A op \in pending' : ~op.awaited /\ LoosePaid(op, Spare + 1)
  <2>1. pending' = {loosened(op) : op \in pending}
    BY <1>2
  <2>2. \A op \in pending : loosened(op) \in OpRecord /\ ~loosened(op).awaited /\ LoosePaid(loosened(op), Spare + 1)
    BY <1>3
  <2> HIDE DEF loosened
  <2>3. QED
    BY <2>1, <2>2
<1>7. (\A op \in pending : ~op.awaited) => pending' = pending
  <2>1. pending' = {loosened(op) : op \in pending}
    BY <1>2
  <2>2. \A op \in pending : ~op.awaited => loosened(op) = op
    BY <1>3
  <2> HIDE DEF loosened
  <2>3. QED
    BY <2>1, <2>2
<1>8. srv' \subseteq SrvRecord
  BY <1>2, <1>4
<1>9. \A r \in srv' : ~r.awaited /\ (r.kind = "bind" => r.grant \in delegated)
  <2>1. \A r \in srv : r.kind = "bind" => r.grant \in delegated
    BY <1>1 DEF BindsDelegated
  <2>2. srv' = {loosened(r) : r \in srv}
    BY <1>2
  <2>3. \A r \in srv : ~loosened(r).awaited /\ loosened(r).kind = r.kind /\ loosened(r).grant = r.grant
    BY <1>5
  <2> HIDE DEF loosened
  <2>4. QED
    BY <2>1, <2>2, <2>3
<1>10. QED
  BY <1>6, <1>7, <1>8, <1>9

\* What holds of a page that has given up what it waited for.
LEMMA GivenUp ==
  ASSUME DelegationInv, Abandon, UNCHANGED <<row, rules, accounts, made, delegated>>, mishaps' \in Nat,
         page' \in PageRecord, page'.tx = Nothing, page'.pc # "bind"
  PROVE  WalletTypes' /\ PageWaits' /\ BindsDelegated'
<1>1. WalletTypes
  BY TypesHeld
<1>2. WalletTypes'
  BY <1>1, AbandonPaid DEF WalletTypes
<1>3. PageWaits'
  BY AbandonPaid, NothingAwaited
<1>4. BindsDelegated'
  BY AbandonPaid DEF BindsDelegated
<1>5. QED
  BY <1>2, <1>3, <1>4

\* A call fails for nothing: nothing is on the way, and a removal was in vain.
LEMMA HopelessIsPaid ==
  ASSUME DelegationInv, Hopeless
  PROVE  /\ \A op \in pending : ~op.awaited
         /\ page.pc # "look" /\ (page.pc = "clean" => InVain)
<1>1. WalletTypes /\ PageWaits
  BY TypesHeld
<1>2. page.pc \notin Sending => page.tx = Nothing
  BY WaitsForOne
<1>3. page.tx = Nothing => \A op \in pending : ~op.awaited
  BY WaitsForOne
<1>4. page.tx \notin pending => \A op \in pending : ~op.awaited
  BY <1>1 DEF PageWaits
<1>5. \A op \in pending : ~op.awaited
  BY <1>2, <1>3, <1>4 DEF Hopeless, Sending
<1>6. page.pc # "look"
  BY <1>2 DEF Hopeless, Sending
<1>7. ASSUME page.pc = "clean"
      PROVE  InVain
  <2>1. CASE page.tx # Nothing /\ page.tx \notin pending
    BY <2>1 DEF InVain
  <2>2. CASE \E id \in page.stale : ~Simulates(Op("remove", id))
    <3>1. PICK id \in page.stale : ~Simulates(Op("remove", id))
      BY <2>2
    <3>2. Op("remove", id).kind = "remove" /\ Op("remove", id).account = page.account /\ Op("remove", id).rule = id
      BY DEF Op
    <3>3. ~\E r \in RulesOf(page.account) : r.id = id
      BY <3>1, <3>2 DEF Simulates
    <3>4. id \notin IdsOf(page.account)
      BY <3>3 DEF IdsOf
    <3>5. QED
      BY <3>4 DEF InVain
  <2>3. QED
    BY <1>7, <2>1, <2>2 DEF Hopeless
<1>8. QED
  BY <1>5, <1>6, <1>7

LEMMA CallFailsStep ==
  ASSUME DelegationInv, CallFails
  PROVE  DelegationInv'
<1>1. /\ WalletTypes /\ Paid(Spare) /\ Spare \in Nat /\ mishaps \in Nat /\ page \in PageRecord
      /\ page.account \in Named /\ page.rule \in Named /\ page.view \in {"connect", "delegate", "manage", "waitlist"}
  BY TypesHeld DEF PageRecord
<1>2. UNCHANGED <<allowed, row, rules, accounts, made, delegated>> /\ Abandon /\ Throw
      /\ ((Hopeless /\ mishaps' = mishaps) \/ mishaps' = mishaps + 1)
  BY DEF CallFails, ledger, Mishap
<1>3. /\ page' \in PageRecord /\ page'.tx = Nothing /\ page'.view = page.view
      /\ (page'.pc = "add" /\ page.pc \in {"look", "clean"} /\ page'.account = page.account) \/ page'.pc = "idle"
  <2>1. CASE page.pc \in {"look", "clean"}
    <3>1. page' = [page EXCEPT !.pc = "add", !.stale = {}, !.tx = Nothing]
      BY <1>2, <2>1 DEF Throw
    <3>2. page' \in PageRecord
      BY <1>1, <3>1 DEF PageRecord, PagePcs
    <3>3. QED
      BY <1>1, <2>1, <3>1, <3>2 DEF PageRecord
  <2>2. CASE page.pc \notin {"look", "clean"}
    BY <1>1, <1>2, <2>2, FreshIsAPage DEF Throw
  <2>3. QED
    BY <2>1, <2>2
<1>4. WalletTypes' /\ PageWaits' /\ BindsDelegated'
  BY <1>1, <1>2, <1>3, GivenUp
<1>5. CASE mishaps' = mishaps + 1
  <2>1. Spare + 1 <= Spare'
    BY <1>1, <1>2, <1>3, <1>5 DEF Spare
  <2>2. Spare' >= 0 /\ Paid(Spare)'
    BY <1>2, <1>4, <2>1, AbandonPaid, MishapPays
  <2>3. QED
    BY <1>4, <2>2 DEF DelegationInv
<1>6. CASE Hopeless /\ mishaps' = mishaps
  <2>1. pending' = pending
    BY <1>2, <1>6, AbandonPaid, HopelessIsPaid
  <2>2. page'.pc = "add" => Count(page'.account) <= Spare
    BY <1>1, <1>3, <1>6, HopelessIsPaid DEF Paid
  <2>3. page'.pc # "clean"
    BY <1>3
  <2>4. Spare <= Spare'
    BY <1>1, <1>2, <1>3, <1>6 DEF Spare
  <2>5. Spare' >= 0 /\ Paid(Spare)'
    BY <1>2, <1>4, <2>1, <2>2, <2>3, <2>4, SameMishaps
  <2>6. QED
    BY <1>4, <2>5 DEF DelegationInv
<1>7. QED
  BY <1>2, <1>5, <1>6

\* Opened again, the page of an owner without access uses up a mishap in reserve, or
\* puts one there; with access it gives it back.
LEMMA ReloadStep ==
  ASSUME DelegationInv, Reload
  PROVE  DelegationInv'
<1>1. /\ WalletTypes /\ Paid(Spare) /\ Spare \in Nat /\ mishaps \in Nat /\ Nothing \in Named
  BY TypesHeld DEF Named
<1>2. /\ UNCHANGED <<allowed, row, rules, accounts, made, delegated>> /\ Abandon /\ page' = Load
      /\ ((page.view = "waitlist" /\ allowed /\ mishaps' = mishaps) \/ mishaps' = mishaps + 1)
  BY DEF Reload, ledger, Mishap
<1>3. /\ page' \in PageRecord /\ page'.tx = Nothing /\ page'.pc = "idle" /\ (allowed => page'.view # "waitlist")
  <2>1. CASE ~allowed
    BY <1>1, <1>2, <2>1, FreshIsAPage DEF Load
  <2>2. CASE allowed /\ GetWalletStatus # Nothing
    <3>1. GetWalletStatus = row.grant /\ Linked
      BY <2>2 DEF GetWalletStatus
    <3>2. row.grant \in GrantRecord
      BY <1>1, <3>1 DEF WalletTypes, Linked
    <3>3. GetWalletStatus.account \in Named
      BY <3>1, <3>2 DEF GrantRecord
    <3>4. page' = Fresh(GetWalletStatus.account, "manage")
      BY <1>2, <2>2 DEF Load
    <3>5. QED
      BY <3>3, <3>4, FreshIsAPage
  <2>3. CASE allowed /\ GetWalletStatus = Nothing
    <3>1. page' = Fresh(Nothing, "connect")
      BY <1>2, <2>3 DEF Load
    <3>2. QED
      BY <1>1, <3>1, FreshIsAPage
  <2>4. QED
    BY <2>1, <2>2, <2>3
<1>4. WalletTypes' /\ PageWaits' /\ BindsDelegated'
  BY <1>1, <1>2, <1>3, GivenUp
<1>5. Spare + 1 <= Spare'
  BY <1>1, <1>2, <1>3 DEF Spare
<1>6. Spare' >= 0 /\ Paid(Spare)'
  BY <1>2, <1>4, <1>5, AbandonPaid, MishapPays
<1>7. QED
  BY <1>4, <1>6 DEF DelegationInv

\* Access withdrawn: the mishap goes into the reserve.
LEMMA WithdrawnStep ==
  ASSUME DelegationInv, AccessWithdrawn
  PROVE  DelegationInv'
<1>1. WalletTypes /\ PageWaits /\ BindsDelegated /\ Paid(Spare) /\ Spare \in Nat /\ mishaps \in Nat
  BY TypesHeld
<1>2. allowed /\ mishaps' = mishaps + 1 /\ UNCHANGED <<row, srv, page, pending, rules, accounts, made, delegated>>
  BY DEF AccessWithdrawn, Mishap, chain, ledger
<1>3. WalletTypes'
  BY <1>1, <1>2 DEF WalletTypes
<1>4. PageWaits'
  BY <1>1, <1>2 DEF PageWaits
<1>5. BindsDelegated'
  BY <1>1, <1>2 DEF BindsDelegated
<1>6. Spare <= Spare'
  BY <1>1, <1>2 DEF Spare
<1>7. page.pc = "add" => Count(page.account) <= Spare
  BY <1>1 DEF Paid
<1>8. page.pc = "clean" => /\ Cardinality(Beyond(page.account, page.stale)) <= Spare
                           /\ InVain => Count(page.account) <= Spare
  BY <1>1 DEF Paid
<1>9. InVain' <=> InVain
  BY <1>2 DEF InVain, IdsOf, RulesOf
<1>10. Spare' >= 0 /\ Paid(Spare)'
  BY <1>2, <1>3, <1>6, <1>7, <1>8, <1>9, SameMishaps
<1>11. QED
  BY <1>3, <1>4, <1>5, <1>10 DEF DelegationInv

-----------------------------------------------------------------------------
(* Every state, and every step, of a delegation. *)

LEMMA DelegationStep ==
  ASSUME DelegationInv, [DelegationNext]_delegationVars
  PROVE  DelegationInv'
<1>1. CASE \E r \in srv : Request(r)
  BY <1>1, RequestStep
<1>2. CASE \E op \in pending : Land(op)
  BY <1>2, LandStep
<1>3. CASE \E op \in pending : Lapse(op)
  <2>1. PICK op \in pending : Lapse(op)
    BY <1>3
  <2>2. mishaps' = mishaps + 1 /\ pending' = pending \ {op}
        /\ UNCHANGED <<allowed, row, srv, page, rules, accounts, made, delegated>>
    BY <2>1 DEF Lapse, Mishap, ledger
  <2>3. pending' \subseteq OpRecord
    BY <2>2, TypesHeld DEF WalletTypes
  <2>4. QED
    BY <2>2, <2>3, MishapStep
<1>4. CASE TopUp \/ HandleWithdraw \/ HandleAddTrustline
  BY <1>4, SendStep DEF TopUp, HandleWithdraw, Withdraw, HandleAddTrustline, AddOwnerUsdcTrustline
<1>5. CASE HandleTopUpFails
  <2>1. UNCHANGED <<allowed, row, srv, page, pending, rules, accounts, made, delegated>>
    BY <1>5 DEF HandleTopUpFails, chain, ledger
  <2>2. mishaps' = mishaps \/ mishaps' = mishaps + 1
    BY <1>5 DEF HandleTopUpFails, Mishap
  <2>3. pending' \subseteq OpRecord
    BY <2>1, TypesHeld DEF WalletTypes
  <2>4. QED
    BY <2>1, <2>2, <2>3, NothingMoves, MishapStep
<1>6. CASE CallFails
  BY <1>6, CallFailsStep
<1>7. CASE Reload
  BY <1>7, ReloadStep
<1>8. CASE AccessWithdrawn
  BY <1>8, WithdrawnStep
<1>9. CASE AccessGranted
  BY <1>9, NothingMoves DEF AccessGranted, chain, ledger, bounds
<1>10. CASE UNCHANGED delegationVars
  BY <1>10, NothingMoves DEF delegationVars, chain, ledger, bounds
<1>11. CASE DelegateStep \/ CreateOrConnectAccount \/ Revoke \/ RevokeBinding \/ HandleDeploy \/ HandleDelegate
            \/ HandleRevoke
  BY <1>11, DelegateSteps
<1>12. QED
  BY <1>1, <1>2, <1>3, <1>4, <1>5, <1>6, <1>7, <1>8, <1>9, <1>10, <1>11 DEF DelegationNext, Proceed

\* The invariant of the delegation: every rule too many has been paid for by a mishap,
\* and what waits to be bound was delegated (page.tsx, handleDelegate; smartAccount.ts,
\* delegate; endpoints.ts).
THEOREM DelegationInvariance == DelegationSpec => []DelegationInv
<1>1. DelegationInit => DelegationInv
  <2> SUFFICES ASSUME DelegationInit
               PROVE  DelegationInv
    OBVIOUS
  <2>1. Nothing \in Named /\ rules = {} /\ pending = {} /\ srv = {} /\ page = Fresh(Nothing, "connect")
        /\ row = Nothing /\ mishaps = 0 /\ accounts = 0 /\ allowed = TRUE
    BY DEF DelegationInit, Named
  <2>2. page \in PageRecord /\ page.pc = "idle" /\ page.tx = Nothing /\ page.view = "connect"
    BY <2>1, FreshIsAPage
  <2>3. WalletTypes
    <3>1. made \in [key : Nat, rule : Nat]
      BY DEF DelegationInit
    <3>2. QED
      BY <2>1, <2>2, <3>1, FS_EmptySet DEF WalletTypes
  <2>4. PageWaits /\ BindsDelegated
    BY <2>1, <2>2 DEF PageWaits, BindsDelegated
  <2>5. Spare = 0
    <3>1. ~(~allowed \/ page.view = "waitlist")
      BY <2>1, <2>2
    <3>2. Spare = mishaps - 0
      BY <3>1, Zenon DEF Spare
    <3>3. QED
      BY <2>1, <3>2
  <2>6. \A a : Count(a) = 0
    <3> TAKE a
    <3>1. RulesOf(a) = {}
      BY <2>1 DEF RulesOf
    <3>2. QED
      BY <3>1, FS_EmptySet DEF Count
  <2>7. Paid(0)
    BY <2>1, <2>2, <2>6 DEF Paid
  <2>8. QED
    BY <2>3, <2>4, <2>5, <2>7 DEF DelegationInv
<1>2. DelegationInv /\ [DelegationNext]_delegationVars => DelegationInv'
  BY DelegationStep
<1>3. QED
  BY <1>1, <1>2, PTL DEF DelegationSpec

\* Delegating again does not stack rules, whatever fails and however often
\* (smartAccount.ts, delegate, step 0).
THEOREM RulesPaidFor == DelegationSpec => []RulesDoNotStack
<1>1. DelegationInv => RulesDoNotStack
  <2> SUFFICES ASSUME DelegationInv, NEW a \in 1..accounts
               PROVE  Cardinality(RulesOf(a)) <= 1 + mishaps
    BY DEF RulesDoNotStack
  <2>1. WalletTypes /\ Paid(Spare) /\ Spare \in Nat /\ mishaps \in Nat /\ accounts \in Nat
    BY TypesHeld DEF WalletTypes
  <2>2. a \in Named /\ Count(a) \in Nat
    BY <2>1, CountsAreNat DEF Named
  <2>3. Count(a) <= Spare + 1
    BY <2>1, <2>2 DEF Paid
  <2>4. Spare <= mishaps
    BY <2>1 DEF Spare
  <2>5. QED
    BY <2>1, <2>2, <2>3, <2>4 DEF Count
<1>2. QED
  BY <1>1, DelegationInvariance, PTL

\* The row is linked by a binding only, and only to what the page saw delegated
\* (endpoints.ts, bindWallet; page.tsx, handleDelegate).
THEOREM LinkedDelegated == DelegationSpec => LinkedMeansDelegated
<1>1. ASSUME DelegationInv, [DelegationNext]_delegationVars
      PROVE  [Linked' /\ (~Linked \/ row'.grant # row.grant) =>
                row # Nothing /\ row'.grant \in delegated]_delegationVars
  <2> SUFFICES ASSUME DelegationNext, Linked', ~Linked \/ row'.grant # row.grant
               PROVE  row # Nothing /\ row'.grant \in delegated
    BY <1>1
  <2>1. row' # row
    BY DEF Linked
  <2>2. PICK r \in srv : UpsertBinding(r) \/ BindWallet(r) \/ DeleteBinding(r)
    <3>1. CASE \E r \in srv : Request(r)
      BY <2>1, <3>1 DEF Request, Refused, SessionSignerReads, BindingReads
    <3>2. CASE (\E op \in pending : Land(op) \/ Lapse(op)) \/ Reload \/ CallFails \/ AccessWithdrawn \/ AccessGranted
               \/ TopUp \/ HandleWithdraw \/ HandleAddTrustline \/ HandleTopUpFails
      BY <2>1, <3>2 DEF Land, Lapse, Reload, CallFails, AccessWithdrawn, AccessGranted, TopUp, HandleWithdraw,
         Withdraw, HandleAddTrustline, AddOwnerUsdcTrustline, Send, HandleTopUpFails
    <3>3. CASE HandleDeploy \/ HandleDelegate \/ HandleRevoke \/ DelegateStep \/ CreateOrConnectAccount \/ Revoke
               \/ RevokeBinding
      BY <2>1, <3>3 DEF HandleDeploy, HandleDelegate, HandleRevoke, DelegateStep, CreateOrConnectAccount, Revoke,
         RevokeBinding, EnsureSessionAccountExists, LookForStale, RemoveStale, AddContextRule, FindRule, AddPolicy,
         ConfirmBinding, Submit, PageOnly
    <3>4. QED
      BY <3>1, <3>2, <3>3 DEF DelegationNext, Proceed
  <2>3. BindWallet(r)
    BY <2>2 DEF UpsertBinding, DeleteBinding, Linked
  <2>4. row # Nothing /\ row' = [row EXCEPT !.grant = r.grant] /\ r.kind = "bind"
    BY <2>1, <2>3 DEF BindWallet
  <2>5. row'.grant = r.grant
    BY <1>1, <2>4, TypesHeld DEF WalletTypes
  <2>6. r.grant \in delegated
    BY <1>1, <2>4, TypesHeld DEF BindsDelegated
  <2>7. QED
    BY <2>4, <2>5, <2>6
<1>2. QED
  BY <1>1, DelegationInvariance, PTL DEF DelegationSpec, LinkedMeansDelegated

=============================================================================
