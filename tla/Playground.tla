------------------------------ MODULE Playground ------------------------------
(***************************************************************************)
(* The playground agent: the pool of funded test wallets and the faucet    *)
(* account that fills it, the sessions that each take one wallet, and the  *)
(* turns in which a model calls the tools of a session.                    *)
(*                                                                         *)
(* One Node process: what runs between two awaits is one step.  Wallets    *)
(* are numbered as their keys are made.  The MCP server pays with the      *)
(* wallet of the session, and the gateway remembers, by wallet, what was   *)
(* paid for; there is one resource to pay for.                             *)
(***************************************************************************)
EXTENDS Integers, Sequences, FiniteSets

CONSTANTS
  Visitors,      \* each asks for one session, numbers
  Chats,         \* the messages that they send, numbers
  Plans,         \* the tool calls that an answer of the model may hold, sequences of kinds
  PoolSize, MaxSessions, DailyCap,
  Funds,         \* what the faucet account can pay
  Attempts,      \* of retry
  MaxIters,      \* MAX_ITERS
  MaxWallets, MaxDays, MaxFaults,   \* bounds
  None

ASSUME PlaygroundConstants ==
  /\ {PoolSize, Attempts, MaxIters, MaxWallets} \subseteq Nat \ {0}
  /\ Funds \in Nat
  /\ Visitors \subseteq Nat \ {0} /\ Chats \subseteq Nat /\ None \notin Nat
  /\ \A plan \in Plans : plan \in Seq({"look", "pay"}) /\ plan # <<>>

Refill == 0
Workers == {Refill} \cup Visitors   \* a session provisions for itself when the pool is empty
Wallets == 1..MaxWallets

VARIABLES
  pool, replenishing, made,
  job,      \* the wallet that a worker provisions
  faucet,   \* its account: sequence number, funds, payments to each wallet
  funded,   \* fundedToday and dayKey
  today,
  request,  \* the session request of a visitor, and the wallet it was handed
  sessions, busy,
  turn,     \* the turn of each chat request
  history,  \* messages of a session: tool calls without an answer; may the model read it
  page,     \* of a visitor: waits for its stream, lost one, the latest payment it shows
  account,  \* requests the MCP server has, wallets that have paid, visitors that paid or were served
  faults

walletVars == <<pool, replenishing, made, job>>
faucetVars == <<faucet, funded, today>>
sessionVars == <<request, sessions, busy>>
turnVars == <<turn, history, page, account>>
vars == <<walletVars, faucetVars, sessionVars, turnVars, faults>>

Fault == faults < MaxFaults /\ faults' = faults + 1

NoJob == [pc |-> "idle", wallet |-> None, tries |-> 0, seq |-> 0]
NewJob(w) == [NoJob EXCEPT !.pc = "create", !.wallet = w]
NoTurn == [pc |-> "none", of |-> None, iter |-> 0, calls |-> <<>>]

Init ==
  /\ pool = <<>> /\ replenishing = FALSE /\ made = 0
  /\ job = [w \in Workers |-> NoJob]
  /\ faucet = [seq |-> 0, funds |-> Funds, paid |-> [w \in Wallets |-> 0]]
  /\ funded = [today |-> 0, day |-> 0] /\ today = 0
  /\ request = [v \in Visitors |-> [pc |-> "idle", wallet |-> None]]
  /\ sessions = {} /\ busy = {}
  /\ turn = [k \in Chats |-> NoTurn]
  /\ history = [v \in Visitors |-> [owed |-> 0, broken |-> FALSE]]
  /\ page = [v \in Visitors |-> [sending |-> FALSE, lost |-> FALSE, trace |-> "none"]]
  /\ account = [asked |-> {}, unlocked |-> {}, payers |-> {}, served |-> {}]
  /\ faults = 0

-----------------------------------------------------------------------------
(* The pool. *)

\* The single-flight refill as a caller starts it, with the pool as it leaves it; `n'
\* keys have been made.  It makes a key at once, unless it is running or the pool is full.
Replenish(left, n) ==
  LET starts == ~replenishing /\ Len(left) < PoolSize /\ n < MaxWallets
  IN  /\ pool' = left
      /\ replenishing' = (replenishing \/ starts)
      /\ made' = IF starts THEN n + 1 ELSE n
      /\ job' = [job EXCEPT ![Refill] = IF starts THEN NewJob(n + 1) ELSE @]

\* Every 30 s.
ReplenishInterval ==
  /\ ~replenishing /\ Len(pool) < PoolSize /\ made < MaxWallets
  /\ Replenish(pool, made)
  /\ UNCHANGED <<faucetVars, sessionVars, turnVars, faults>>

\* The loop is left until the next interval; a session is not started.
ProvisionFails(w) ==
  /\ job' = [job EXCEPT ![w] = NoJob]
  /\ IF w = Refill THEN replenishing' = FALSE /\ UNCHANGED request
     ELSE request' = [request EXCEPT ![w].pc = "over"] /\ UNCHANGED replenishing
  /\ UNCHANGED <<pool, made>>

\* The wallet goes to the pool, which may need another one, or to its session.
Provisioned(w) ==
  LET wallet == job[w].wallet
      more == Len(pool) + 1 < PoolSize /\ made < MaxWallets
  IN  IF w = Refill
      THEN /\ pool' = Append(pool, wallet)
           /\ replenishing' = more
           /\ made' = IF more THEN made + 1 ELSE made
           /\ job' = [job EXCEPT ![w] = IF more THEN NewJob(made + 1) ELSE NoJob]
           /\ UNCHANGED request
      ELSE /\ job' = [job EXCEPT ![w] = NoJob]
           /\ request' = [request EXCEPT ![w] = [pc |-> "connect", wallet |-> wallet]]
           /\ UNCHANGED <<pool, replenishing, made>>

\* A plausible mistake: when all attempts have failed, the wallet is used as it is.
GiveUpQuietly(w, pc) ==
  IF job[w].tries + 1 < Attempts
  THEN job' = [job EXCEPT ![w].pc = pc, ![w].tries = @ + 1] /\ UNCHANGED <<pool, replenishing, made, request>>
  ELSE Provisioned(w)

\* An attempt has failed: again from its beginning, or the provision fails.
Retry(w, pc) ==
  IF job[w].tries + 1 < Attempts
  THEN job' = [job EXCEPT ![w].pc = pc, ![w].tries = @ + 1] /\ UNCHANGED <<pool, replenishing, made, request>>
  ELSE ProvisionFails(w)

JobGoto(w, pc) == job' = [job EXCEPT ![w].pc = pc] /\ UNCHANGED <<pool, replenishing, made, request>>

\* The account by friendbot, its trustline for USDC.
CreateAccount(w) ==
  /\ job[w].pc = "create"
  /\ \/ /\ job' = [job EXCEPT ![w].pc = "cap", ![w].tries = 0]
        /\ UNCHANGED <<pool, replenishing, made, request, faults>>
     \/ Fault /\ Retry(w, "create")
  /\ UNCHANGED <<faucetVars, sessions, busy, turnVars>>

-----------------------------------------------------------------------------
(* The faucet. *)

RolledOver == IF funded.day = today THEN funded ELSE [today |-> 0, day |-> today]

CheckCap(w) ==
  /\ job[w].pc = "cap"
  /\ funded' = RolledOver
  /\ IF RolledOver.today >= DailyCap THEN Retry(w, "cap") ELSE JobGoto(w, "account")
  /\ UNCHANGED <<faucet, today, sessions, busy, turnVars, faults>>

\* Its balance, and its sequence number for the transaction.
LoadFaucet(w) ==
  /\ job[w].pc = "account"
  /\ IF faucet.funds = 0 THEN Retry(w, "cap")
     ELSE /\ job' = [job EXCEPT ![w].pc = "submit", ![w].seq = faucet.seq]
          /\ UNCHANGED <<pool, replenishing, made, request>>
  /\ UNCHANGED <<faucetVars, sessions, busy, turnVars, faults>>

\* The network takes one transaction for each sequence number.
SubmitPayment(w) ==
  /\ job[w].pc = "submit"
  /\ IF job[w].seq = faucet.seq /\ faucet.funds > 0
     THEN /\ faucet' = [seq |-> faucet.seq + 1, funds |-> faucet.funds - 1,
                        paid |-> [faucet.paid EXCEPT ![job[w].wallet] = @ + 1]]
          /\ JobGoto(w, "answer")
     ELSE Retry(w, "cap") /\ UNCHANGED faucet
  /\ UNCHANGED <<funded, today, sessions, busy, turnVars, faults>>

\* The payment is counted when its answer arrives; one that is lost is paid again.
PaymentAnswered(w) ==
  /\ job[w].pc = "answer"
  /\ \/ funded' = [funded EXCEPT !.today = @ + 1] /\ Provisioned(w) /\ UNCHANGED faults
     \/ Fault /\ Retry(w, "cap") /\ UNCHANGED funded
  /\ UNCHANGED <<faucet, today, sessions, busy, turnVars>>

NewDay ==
  /\ today < MaxDays
  /\ today' = today + 1
  /\ UNCHANGED <<walletVars, faucet, funded, sessionVars, turnVars, faults>>

Provision(w) == CreateAccount(w) \/ CheckCap(w) \/ LoadFaucet(w) \/ SubmitPayment(w) \/ PaymentAnswered(w)

-----------------------------------------------------------------------------
(* Sessions. *)

\* A wallet of the pool, or one that is provisioned beside the refill.
AcquireWallet(v) ==
  IF pool # <<>>
  THEN /\ Replenish(Tail(pool), made)
       /\ request' = [request EXCEPT ![v] = [pc |-> "connect", wallet |-> Head(pool)]]
  ELSE /\ made + 2 <= MaxWallets
       /\ request' = [request EXCEPT ![v].pc = "provision"]
       /\ LET refills == ~replenishing
              own == IF refills THEN made + 2 ELSE made + 1
          IN  /\ replenishing' = TRUE /\ made' = own
              /\ job' = [job EXCEPT ![v] = NewJob(own),
                                    ![Refill] = IF refills THEN NewJob(made + 1) ELSE @]
              /\ UNCHANGED pool

\* A request that the captcha let through, numbered as they arrive.
StartSession(v) ==
  /\ request[v].pc = "idle" /\ \A u \in Visitors : u < v => request[u].pc # "idle"
  /\ IF Cardinality(sessions) >= MaxSessions
     THEN request' = [request EXCEPT ![v].pc = "over"] /\ UNCHANGED walletVars
     ELSE AcquireWallet(v)
  /\ UNCHANGED <<faucetVars, sessions, busy, turnVars, faults>>

\* A wallet whose session cannot be connected is nobody's.
Connect(v) ==
  /\ request[v].pc = "connect"
  /\ \/ /\ request' = [request EXCEPT ![v].pc = "open"]
        /\ sessions' = sessions \cup {v} /\ UNCHANGED faults
     \/ Fault /\ request' = [request EXCEPT ![v].pc = "over"] /\ UNCHANGED sessions
  /\ UNCHANGED <<walletVars, faucetVars, busy, turnVars>>

\* A plausible mistake: the wallet of a closed session goes back to the pool.
RecycleWallet(v) == Replenish(Append(pool, request[v].wallet), made)

\* findIndex and splice: the wallet is taken out where it is first found, if it is.
FirstIndex(s, w) == {i \in 1..Len(s) : s[i] = w /\ \A j \in 1..i - 1 : s[j] # w}
Without(s, w) ==
  IF FirstIndex(s, w) = {} THEN s
  ELSE LET idx == CHOOSE i \in FirstIndex(s, w) : TRUE
       IN  SubSeq(s, 1, idx - 1) \o SubSeq(s, idx + 1, Len(s))

RetireWallet(v) == Replenish(Without(pool, request[v].wallet), made)

\* The sweep closes what was not used for the TTL: that may be a session in its turn,
\* of which only the start counts as a use.
CloseSession(v) ==
  /\ v \in sessions
  /\ sessions' = sessions \ {v}
  /\ RetireWallet(v)
  /\ UNCHANGED <<faucetVars, request, busy, turnVars, faults>>

-----------------------------------------------------------------------------
(* Turns. *)

\* A message that is not the answer to a tool call breaks a history that owes one.
Say(v) == [history EXCEPT ![v].broken = @ \/ history[v].owed > 0]

\* The requests are numbered as they arrive.
Arrives(k) == turn[k].pc = "none" /\ \A j \in Chats : j < k => turn[j].pc # "none"

\* The page waits, with `send`, until the stream of the turn has ended.
Send(v) == ~page[v].sending /\ page' = [page EXCEPT ![v].sending = TRUE]

\* A plausible mistake: two turns of a session at once.
ChatWhileBusy(k, v) ==
  /\ Arrives(k) /\ v \in sessions /\ Send(v)
  /\ busy' = busy \cup {v}
  /\ history' = Say(v)
  /\ turn' = [turn EXCEPT ![k].pc = "think", ![k].of = v]
  /\ UNCHANGED <<walletVars, faucetVars, request, sessions, account, faults>>

\* A message to a session that is gone or busy is refused, and changes nothing.
Chat(k, v) ==
  /\ Arrives(k) /\ v \in sessions \ busy /\ Send(v)
  /\ busy' = busy \cup {v}
  /\ history' = Say(v)
  /\ turn' = [turn EXCEPT ![k].pc = "think", ![k].of = v]
  /\ UNCHANGED <<walletVars, faucetVars, request, sessions, account, faults>>

\* The page shows the latest payment as the events of an open stream tell it.
OnEvent(v, trace) == page' = IF page[v].sending THEN [page EXCEPT ![v].trace = trace] ELSE page

\* [DONE], which the service sends when the turn has freed its session.
StreamEnds(v) ==
  /\ page[v].sending /\ v \notin busy
  /\ page' = [page EXCEPT ![v].sending = FALSE]
  /\ UNCHANGED <<walletVars, faucetVars, sessionVars, turn, history, account, faults>>

\* The turn goes on without its page.
LoseStream(v) ==
  /\ page[v].sending /\ Fault
  /\ page' = [page EXCEPT ![v].sending = FALSE, ![v].lost = TRUE]
  /\ UNCHANGED <<walletVars, faucetVars, sessionVars, turn, history, account>>

\* The model, or one of those it falls back to, answers with text or with tool calls.
Think(k) ==
  /\ turn[k].pc = "think"
  /\ LET v == turn[k].of IN
       \/ turn' = [turn EXCEPT ![k].pc = "close"] /\ history' = Say(v)
       \/ \E plan \in Plans :
            /\ turn' = [turn EXCEPT ![k].pc = "call", ![k].calls = plan]
            /\ history' = [Say(v) EXCEPT ![v].owed = Len(plan)]
  /\ UNCHANGED <<walletVars, faucetVars, sessionVars, page, account, faults>>

\* None of them does: the turn is over.
NoModel(k) ==
  /\ turn[k].pc = "think" /\ Fault
  /\ turn' = [turn EXCEPT ![k].pc = "close"]
  /\ UNCHANGED <<walletVars, faucetVars, sessionVars, history, page, account>>

\* The answer to a tool call, whatever it is; then the next call, or the model again.
Answered(k) ==
  LET t == turn[k]
      last == Len(t.calls) = 1
      limit == last /\ t.iter + 1 = MaxIters
  IN  /\ turn' = [turn EXCEPT ![k] =
           [t EXCEPT !.pc = IF limit THEN "close" ELSE IF last THEN "think" ELSE "call",
                     !.calls = Tail(@), !.iter = IF last THEN @ + 1 ELSE @]]
      /\ history' = [history EXCEPT ![t.of].owed = @ - 1]

\* A look without payment, or a call outside the sandbox.
CallTool(k) ==
  /\ turn[k].pc = "call" /\ Head(turn[k].calls) # "pay"
  /\ Answered(k)
  /\ UNCHANGED <<walletVars, faucetVars, sessionVars, page, account, faults>>

\* The page is told what is about to be paid, and the MCP server is asked to, with the
\* wallet of the session; a session that is closed has no MCP any more.
CallPay(k) ==
  /\ turn[k].pc = "call" /\ Head(turn[k].calls) = "pay"
  /\ turn' = [turn EXCEPT ![k].pc = "pay"]
  /\ OnEvent(turn[k].of, "fetching")
  /\ account' = [account EXCEPT !.asked = @ \cup ({turn[k].of} \cap sessions)]
  /\ UNCHANGED <<walletVars, faucetVars, sessionVars, history, faults>>

\* The MCP server pays, or is given what the wallet has paid for, or cannot.  The session
\* may be closed by then, and the turn over.
CallMcp(v) ==
  /\ v \in account.asked
  /\ LET w == request[v].wallet
         heard == [account EXCEPT !.asked = @ \ {v}]
         paying == IF w \in account.unlocked THEN {} ELSE {v}
     IN  \/ account' = heard
         \/ account' = [heard EXCEPT !.unlocked = @ \cup {w}, !.payers = @ \cup paying,
                                     !.served = @ \cup {v}]
  /\ UNCHANGED <<walletVars, faucetVars, sessionVars, turn, history, page, faults>>

\* The answer of the MCP server, or none: a session that is closed gives up its calls,
\* and any call may be lost.
Awaited(v) == IF v \in sessions \cap account.asked THEN Fault ELSE UNCHANGED faults

\* A plausible mistake: the page is not told of a call that fails.
PayOrSilent(k) ==
  /\ turn[k].pc = "pay"
  /\ Awaited(turn[k].of)
  /\ IF turn[k].of \in sessions \ account.asked THEN OnEvent(turn[k].of, "over") ELSE UNCHANGED page
  /\ Answered(k)
  /\ UNCHANGED <<walletVars, faucetVars, sessionVars, account>>

\* The page is told how it went, an error included.
Pay(k) ==
  /\ turn[k].pc = "pay"
  /\ Awaited(turn[k].of)
  /\ OnEvent(turn[k].of, "over")
  /\ Answered(k)
  /\ UNCHANGED <<walletVars, faucetVars, sessionVars, account>>

\* A plausible mistake: a turn that runs into the limit leaves its session busy.
ChatEndsWithoutFinally(k) ==
  /\ turn[k].pc = "close"
  /\ turn' = [turn EXCEPT ![k] = [NoTurn EXCEPT !.pc = "over"]]
  /\ busy' = IF turn[k].iter = MaxIters THEN busy ELSE busy \ {turn[k].of}
  /\ UNCHANGED <<walletVars, faucetVars, request, sessions, history, page, account, faults>>

ChatEnds(k) ==
  /\ turn[k].pc = "close"
  /\ turn' = [turn EXCEPT ![k] = [NoTurn EXCEPT !.pc = "over"]]
  /\ busy' = busy \ {turn[k].of}
  /\ UNCHANGED <<walletVars, faucetVars, request, sessions, history, page, account, faults>>

Turn(k) == Think(k) \/ NoModel(k) \/ CallTool(k) \/ CallPay(k) \/ Pay(k) \/ ChatEnds(k)

Next ==
  \/ ReplenishInterval \/ NewDay
  \/ \E w \in Workers : Provision(w)
  \/ \E v \in Visitors : StartSession(v) \/ Connect(v) \/ CloseSession(v) \/ StreamEnds(v) \/ LoseStream(v) \/ CallMcp(v)
  \/ \E k \in Chats : Turn(k) \/ \E v \in Visitors : Chat(k, v)

\* The interval, and whatever was started goes on: awaits return, or fail.
Fairness ==
  /\ WF_vars(ReplenishInterval)
  /\ WF_vars(\E w \in Workers : Provision(w))
  /\ WF_vars(\E k \in Chats : Turn(k))
  /\ WF_vars(\E v \in Visitors : StreamEnds(v))
  /\ WF_vars(\E v \in Visitors : CallMcp(v))

Spec == Init /\ [][Next]_vars
FairSpec == Spec /\ Fairness

-----------------------------------------------------------------------------
(* Properties. *)

\* Whoever is served has paid: no session inherits, with a wallet, what another session
\* paid for, whichever way pool, refill, provisioning, sweep and the payments that a closed
\* session has left behind interleave (walletPool.ts:92-97, index.ts:47-54).
NobodyInherits == account.served \subseteq account.payers

\* A wallet that is handed out has been paid by the faucet, although attempts fail, the
\* faucet's sequence numbers collide and answers are lost (walletPool.ts:83-84).
WalletsAreFunded ==
  \A w \in Wallets :
    (\E i \in 1..Len(pool) : pool[i] = w) \/ (\E v \in Visitors : request[v].wallet = w) =>
      faucet.paid[w] > 0

\* The model is never asked with a history in which a tool call has no answer, which it
\* would refuse from then on: turns of a session do not mix, and every call is answered
\* before the next message (index.ts:154, agentLoop.ts:127-133).
HistoryIsWhole ==
  \A v \in Visitors : ~history[v].broken /\ (v \notin busy => history[v].owed = 0)

\* A page that has lost no stream may send only to a session that is free, and shows no
\* payment as under way then, whatever ended the turn and whichever call failed
\* (index.ts:182-187, agentLoop.ts:127-132, page.tsx:149-170).
IdlePagesAreCurrent ==
  \A v \in Visitors :
    ~page[v].sending /\ ~page[v].lost => v \notin busy /\ page[v].trace # "fetching"

\* Every turn ends, frees its session and its page, although models and streams fail
\* (index.ts:182-187, page.tsx:201-204).
TurnsEnd ==
  \A v \in Visitors :
    (v \in busy \/ page[v].sending) ~> (v \notin busy /\ ~page[v].sending)
=============================================================================
