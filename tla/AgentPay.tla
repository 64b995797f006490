------------------------------- MODULE AgentPay -------------------------------
(***************************************************************************)
(* The MCP server as agents use it: requests that pass the access gate,    *)
(* sessions that keep the payment service chosen when they were opened,    *)
(* and the payments made in them, each followed by the service fee.        *)
(*                                                                         *)
(* OAuth callers pay from a smart account of their own, once one is        *)
(* linked; callers with a static key pay from the wallet of the server, or *)
(* from the wallet whose secret the playground sends along.  Everything    *)
(* is read at one time and used at a later one: the access of a user, the  *)
(* binding of a wallet, and what a resource asks.  Nothing bounds the time *)
(* that a read, the rate limiter or a payment takes.                       *)
(***************************************************************************)
EXTENDS Integers, Sequences

CONSTANTS
  Users,         \* accounts that call with an OAuth token
  Keys,          \* callers with a static key, of which
  Visitors,      \* these send the secret of a wallet of their own
  Requests,      \* HTTP requests to /mcp that may be under way at a time
  EarlyAccessTTL, SessionTTL,
  Playground,    \* the label of the one key that all visitors call with
  Server,        \* the wallet of the server
  MaxSessions, MaxPays, MaxChanges, MaxFaults, MaxTime,   \* bounds
  None

ASSUME AgentConstants ==
  /\ Visitors \subseteq Keys /\ Users \cap Keys = {}
  /\ EarlyAccessTTL \in Nat \ {0} /\ SessionTTL \in Nat
  /\ Playground \notin Users \cup Keys
ASSUME NoneAssumption == None \notin BOOLEAN

Callers == Users \cup Keys

VARIABLES
  now,
  access,    \* User.mcpEarlyAccess, and since when
  cache,     \* _eaCache
  request,   \* the requests under way, and how far they are
  bound,     \* the binding of a user: a generation of the session key, or None
  keys,      \* session keys that a user was given so far
  sessions,  \* sessions opened: transports, owners, lastSeen, and the service chosen;
             \* by is who opened it
  pays,      \* calls of pay_for_resource
  spent,     \* payments that landed
  changes, faults

vars == <<now, access, cache, request, bound, keys, sessions, pays, spent, changes, faults>>

Fault == faults < MaxFaults /\ faults' = faults + 1
Change == changes < MaxChanges /\ changes' = changes + 1

Init ==
  /\ now = 0
  /\ access = [u \in Users |-> [granted |-> TRUE, since |-> 0]]
  /\ cache = [u \in Users |-> None]
  /\ request = [r \in Requests |-> None]
  /\ bound = [u \in Users |-> None]
  /\ keys = [u \in Users |-> 0]
  /\ sessions = <<>> /\ pays = <<>> /\ spent = {}
  /\ changes = 0 /\ faults = 0

-----------------------------------------------------------------------------
(* The account of a user. *)

\* Early access is withdrawn, or given back.
SetAccess(u) ==
  /\ Change
  /\ access' = [access EXCEPT ![u] = [granted |-> ~@.granted, since |-> now]]
  /\ UNCHANGED <<now, cache, request, bound, keys, sessions, pays, spent, faults>>

\* The owner links a smart account, or revokes the delegation: the rule on the chain
\* and the row come and go together here.
LinkWallet(u) ==
  /\ Change
  /\ IF bound[u] = None
     THEN /\ keys' = [keys EXCEPT ![u] = @ + 1]
          /\ bound' = [bound EXCEPT ![u] = keys[u] + 1]
     ELSE /\ bound' = [bound EXCEPT ![u] = None]
          /\ UNCHANGED keys
  /\ UNCHANGED <<now, access, cache, request, sessions, pays, spent, faults>>

-----------------------------------------------------------------------------
(* Sessions. *)

\* What the gate has let through goes on after a wait, for the rate limiter at least.
Passed(r) == request[r] # None /\ request[r].pc = "passed"

\* The handler of a request returns.
Return(r) ==
  /\ request' = [request EXCEPT ![r] = None]
  /\ UNCHANGED <<now, access, cache, bound, keys, spent, changes>>

OwnerId(c) == IF c \in Visitors THEN Playground ELSE c

\* The limiter has had enough of the caller.
TooMany(r) == Passed(r) /\ Return(r) /\ UNCHANGED <<sessions, pays, faults>>

\* An initialize request of a user reads the binding first; a lookup that fails counts
\* as none, and static-key callers have a binding of no kind.
GetBinding(r) ==
  /\ Passed(r)
  /\ LET c == request[r].by
         row == IF c \in Users THEN bound[c] ELSE None
     IN  \E binding \in {row, None} :
           /\ request' = [request EXCEPT ![r].pc = "opening", ![r].binding = binding]
           /\ IF binding = row THEN UNCHANGED faults ELSE Fault
  /\ UNCHANGED <<now, access, cache, bound, keys, sessions, pays, spent, changes>>

ChooseStellarPaymentMode(c, binding) ==
  CASE c \in Users /\ binding # None -> "noncustodial"
    [] c \in Users                   -> "no_wallet_linked"
    [] c \in Visitors                -> "session_override"
    [] OTHER                         -> "custodial"

\* The service is built once, for all requests of the session.
OpenSession(r) ==
  /\ request[r] # None /\ request[r].pc = "opening"
  /\ Len(sessions) < MaxSessions
  /\ LET c == request[r].by
         binding == request[r].binding
     IN  sessions' = Append(sessions,
           [owner |-> OwnerId(c), by |-> c, mode |-> ChooseStellarPaymentMode(c, binding),
            key |-> binding, seen |-> now, state |-> "open"])
  /\ Return(r)
  /\ UNCHANGED <<pays, faults>>

NewPay(c, s) ==
  [session |-> s, caller |-> c, mode |-> sessions[s].mode, owner |-> sessions[s].by,
   key |-> sessions[s].key, began |-> now, probed |-> None, chain |-> None, fee |-> None,
   pc |-> IF sessions[s].mode = "no_wallet_linked" THEN "probe" ELSE "fetch"]

Keep(s, session) == sessions' = [sessions EXCEPT ![s] = session]

\* The owner of a session may use it.  All visitors are one owner: that they keep to
\* their sessions is the playground's doing, which sends the id of the visitor's own.
Own(c, s) ==
  /\ sessions[s].owner = OwnerId(c)
  /\ c \in Visitors => sessions[s].by = c

\* A message in a session: its owner's only, and the session is seen.
AnyonesCallTool(r, s) ==
  /\ Passed(r) /\ sessions[s].state = "open"
  /\ Len(pays) < MaxPays
  /\ Keep(s, [sessions[s] EXCEPT !.seen = now])
  /\ pays' = Append(pays, NewPay(request[r].by, s))
  /\ Return(r) /\ UNCHANGED faults

UnseenCallTool(r, s) ==
  /\ Passed(r) /\ sessions[s].state = "open" /\ Own(request[r].by, s)
  /\ Len(pays) < MaxPays
  /\ pays' = Append(pays, NewPay(request[r].by, s))
  /\ Return(r) /\ UNCHANGED <<sessions, faults>>

CallTool(r, s) ==
  /\ Passed(r) /\ sessions[s].state = "open" /\ Own(request[r].by, s)
  /\ Len(pays) < MaxPays
  /\ Keep(s, [sessions[s] EXCEPT !.seen = now])
  /\ pays' = Append(pays, NewPay(request[r].by, s))
  /\ Return(r) /\ UNCHANGED faults

\* GET keeps a stream open, DELETE closes the session.
HandleSessionRequest(r, s) ==
  /\ Passed(r) /\ sessions[s].state = "open" /\ Own(request[r].by, s)
  /\ \/ Keep(s, [sessions[s] EXCEPT !.seen = now])
     \/ Keep(s, [sessions[s] EXCEPT !.state = "closed"])
  /\ Return(r) /\ UNCHANGED <<pays, faults>>

\* The sweep: sessions that were not seen for the TTL.
Sweep ==
  LET idle == {s \in DOMAIN sessions :
                 sessions[s].state = "open" /\ sessions[s].seen < now - SessionTTL}
  IN  /\ idle # {}
      /\ sessions' = [s \in DOMAIN sessions |-> IF s \in idle
                        THEN [sessions[s] EXCEPT !.state = "evicted"] ELSE sessions[s]]
      /\ UNCHANGED <<now, access, cache, request, bound, keys, pays, spent, changes, faults>>

-----------------------------------------------------------------------------
(* The gate. *)

Cached(u) == cache[u] # None /\ cache[u].exp > now

Come(r, c, pc) ==
  /\ request[r] = None
  /\ request' = [request EXCEPT ![r] =
       [by |-> c, came |-> now, read |-> None, binding |-> None, pc |-> pc]]
  /\ UNCHANGED <<now, access, cache, bound, keys, sessions, pays, spent, changes, faults>>

\* A request that the gate need not hold: of a static key, or of a user it knows.
\* One of a user it knows not to have access is refused, which changes nothing.
RequireMcpAuth(r, c) ==
  /\ c \in Users => Cached(c) /\ cache[c].granted
  /\ Come(r, c, "passed")

\* One of a user it does not know: the time is taken before the read.
AskAccess(r, u) == ~Cached(u) /\ Come(r, u, "reading")

\* The read; one that fails counts as a refusal.
IsEarlyAccessGranted(r) ==
  /\ request[r] # None /\ request[r].pc = "reading"
  /\ \E granted \in {access[request[r].by].granted, FALSE} :
       /\ request' = [request EXCEPT ![r].pc = "read", ![r].read = granted]
       /\ IF granted = access[request[r].by].granted THEN UNCHANGED faults ELSE Fault
  /\ UNCHANGED <<now, access, cache, bound, keys, sessions, pays, spent, changes>>

GateAnswersExtending(r) ==
  /\ request[r] # None /\ request[r].pc = "read"
  /\ LET q == request[r]
     IN  /\ cache' = [cache EXCEPT ![q.by] = [granted |-> q.read, exp |-> now + EarlyAccessTTL]]
         /\ request' = [request EXCEPT ![r] = IF q.read THEN [q EXCEPT !.pc = "passed"] ELSE None]
  /\ UNCHANGED <<now, access, bound, keys, sessions, pays, spent, changes, faults>>

\* The answer is kept until the TTL is over, counted from before the read.
McpEarlyAccessGate(r) ==
  /\ request[r] # None /\ request[r].pc = "read"
  /\ LET q == request[r]
     IN  /\ cache' = [cache EXCEPT ![q.by] = [granted |-> q.read,
                                              exp |-> q.came + EarlyAccessTTL]]
         /\ request' = [request EXCEPT ![r] = IF q.read THEN [q EXCEPT !.pc = "passed"] ELSE None]
  /\ UNCHANGED <<now, access, bound, keys, sessions, pays, spent, changes, faults>>

-----------------------------------------------------------------------------
(* A payment. *)

Demands == {"free", "stellar", "evm"}   \* what a resource asks, any time it is asked

Go(p, pay) ==
  /\ pays' = [pays EXCEPT ![p] = pay]
  /\ UNCHANGED <<now, access, cache, request, bound, keys, sessions, changes>>

WalletOf(pay) ==
  IF pay.mode \in {"noncustodial", "session_override"} THEN pay.owner ELSE Server
\* The chains for which the service of the session has a wallet.
CanPay(pay, demand) ==
  demand = "stellar" \/ pay.mode \in {"custodial", "no_wallet_linked"}
\* Whether the chain takes a transfer: that of a session key needs the rule it is for.
Authorized(pay) == pay.mode = "noncustodial" => bound[pay.owner] = pay.key

Transfer(p, what, chain, from) == [pay |-> p, what |-> what, chain |-> chain, from |-> from]

\* quote, before the payment of a user without a wallet: not one on Stellar.
NoWalletLinked(demand) == IF demand = "stellar" THEN "no_wallet_linked" ELSE "fetch"

Quote(p) ==
  /\ pays[p].pc = "probe"
  /\ \E demand \in Demands :
       Go(p, [pays[p] EXCEPT !.probed = demand, !.pc = NoWalletLinked(demand)])
  /\ UNCHANGED <<spent, faults>>

\* fetchWithPayment: asks, pays what is asked with the wallet of the session, and asks
\* again.  The resource may keep what it was paid for, or not settle the payment.
FetchWithPayment(p) ==
  /\ pays[p].pc = "fetch"
  /\ \E demand \in Demands :
       LET pay == pays[p]
           paid == spent \cup {Transfer(p, "resource", demand, WalletOf(pay))}
       IN  IF demand = "free" \/ ~CanPay(pay, demand) \/ ~Authorized(pay)
           THEN Go(p, [pay EXCEPT !.pc = "done"]) /\ UNCHANGED <<spent, faults>>
           ELSE \/ /\ Go(p, [pay EXCEPT !.pc = "fee", !.chain = demand])
                   /\ spent' = paid
                   /\ UNCHANGED faults
                \/ /\ Fault
                   /\ Go(p, [pay EXCEPT !.pc = "fee"])   \* a receipt without its network
                   /\ spent' = paid
                \/ /\ Fault
                   /\ Go(p, [pay EXCEPT !.pc = "done"])
                   /\ spent' \in {spent, paid}

\* From the wallet of the session on the chain of the receipt, or from the smart account.
CustodialFee(p) == Transfer(p, "fee", pays[p].chain, WalletOf(pays[p]))
NonCustodialFee(p) == Transfer(p, "fee", "stellar", pays[p].owner)

ChargeFee(p) == IF pays[p].mode = "noncustodial" THEN NonCustodialFee(p) ELSE CustodialFee(p)

\* A fee that is submitted: confirmed, or not within the time of the poll, and then it
\* has landed or not.
SubmitFee(p, fee) ==
  \/ fee = "receipt" /\ spent' = spent \cup {ChargeFee(p)} /\ UNCHANGED faults
  \/ fee = "error" /\ spent' \in {spent, spent \cup {ChargeFee(p)}} /\ Fault

\* The fee is charged once, and a failure only noted in the answer.
Pay(p) ==
  LET pay == pays[p]
  IN  /\ pay.pc = "fee"
      /\ \E fee \in {"receipt", "error"} :
           /\ Go(p, [pay EXCEPT !.pc = "done", !.fee = fee])
           /\ IF (pay.mode # "noncustodial" /\ pay.chain = None) \/ ~Authorized(pay)
              THEN fee = "error" /\ UNCHANGED <<spent, faults>>
              ELSE SubmitFee(p, fee)

-----------------------------------------------------------------------------
UnderWay(p) == pays[p].pc \in {"probe", "fetch", "fee"}

Tick ==
  /\ now < MaxTime
  /\ now' = now + 1
  /\ UNCHANGED <<access, cache, request, bound, keys, sessions, pays, spent, changes, faults>>

Next ==
  \/ \E u \in Users : SetAccess(u) \/ LinkWallet(u)
  \/ \E r \in Requests :
       \/ \E c \in Callers : RequireMcpAuth(r, c)
       \/ \E u \in Users : AskAccess(r, u)
       \/ IsEarlyAccessGranted(r) \/ McpEarlyAccessGate(r)
       \/ TooMany(r) \/ GetBinding(r) \/ OpenSession(r)
       \/ \E s \in DOMAIN sessions : CallTool(r, s) \/ HandleSessionRequest(r, s)
  \/ Sweep
  \/ \E p \in DOMAIN pays : Quote(p) \/ FetchWithPayment(p) \/ Pay(p)
  \/ Tick

Spec == Init /\ [][Next]_vars

-----------------------------------------------------------------------------
(* Properties. *)

\* A withdrawal of early access takes effect within the TTL of the cache, however the
\* reads of several requests overlap with it and however long they and the requests take:
\* no request that comes to the gate the TTL or more after the withdrawal opens a session
\* or begins a payment.  One that came before may still do so, whenever it gets there.
WithdrawalTakesEffect ==
  [][\A r \in Requests :
       LET q == request[r]
       IN  (/\ q # None /\ request'[r] = None
            /\ Len(sessions') > Len(sessions) \/ Len(pays') > Len(pays)
            /\ q.by \in Users /\ ~access[q.by].granted) =>
           q.came < access[q.by].since + EarlyAccessTTL]_vars

\* Whoever has a wallet pays with it: what leaves a user's smart account, a visitor's
\* wallet or the wallet of the server is for a call that the owner of the session made,
\* and the server's wallet pays on Stellar for a user only when the resource asked for
\* something else a moment before.
PayerIsCaller ==
  \A t \in spent :
    LET pay == pays[t.pay]
    IN  CASE pay.caller \in Users /\ t.chain = "stellar" ->
               \/ t.from = pay.caller
               \/ t.from = Server /\ pay.mode = "no_wallet_linked" /\ pay.probed # "stellar"
          [] pay.caller \in Visitors -> t.from = pay.caller
          [] OTHER -> t.from = Server

\* The sweep closes a session in which a payment is under way only when the payment has
\* taken longer than the TTL: the session was seen when it began.
CutOnlyWhenLong ==
  \A p \in DOMAIN pays :
    UnderWay(p) /\ sessions[pays[p].session].state = "evicted" => now > pays[p].began + SessionTTL

=============================================================================
