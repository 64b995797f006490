-------------------------- MODULE PlaygroundProofs ---------------------------
(***************************************************************************)
(* Proofs about Playground, for any visitors, messages, plans of the       *)
(* model, pool, funds and failures.                                        *)
(*                                                                         *)
(* Two arguments that share no variable.  A wallet is at one place, the    *)
(* job that provisions it, the pool or one request, and never goes back    *)
(* (WalletInv).  A session has one turn, which alone owes its history the  *)
(* answers to the tool calls that are left, and keeps its page waiting     *)
(* (TurnInv).                                                              *)
(***************************************************************************)
EXTENDS Playground, SequenceTheorems, TLAPS

-----------------------------------------------------------------------------
(* Turns. *)

Kinds == {"look", "pay"}
TurnPcs == {"none", "think", "call", "pay", "close", "over"}
TurnRecords == [pc : TurnPcs, of : Visitors \cup {None}, iter : Nat, calls : Seq(Kinds)]
Histories == [owed : Nat, broken : BOOLEAN]
Pages == [sending : BOOLEAN, lost : BOOLEAN, trace : {"none", "fetching", "over"}]

TurnTypes ==
  /\ turn \in [Chats -> TurnRecords]
  /\ history \in [Visitors -> Histories]
  /\ page \in [Visitors -> Pages]
  /\ busy \subseteq Visitors

Active(k) == turn[k].pc \in {"think", "call", "pay", "close"}

\* A session has at most one turn, and is busy for as long as it has one.
OneTurnEach ==
  /\ \A k \in Chats : Active(k) => turn[k].of \in busy
  /\ \A j, k \in Chats : Active(j) /\ Active(k) /\ turn[j].of = turn[k].of => j = k

\* What a history owes are the calls that its turn has left.
CallsOwed ==
  /\ \A k \in Chats : turn[k].pc \in {"think", "close"} => history[turn[k].of].owed = 0
  /\ \A k \in Chats : turn[k].pc \in {"call", "pay"} =>
       turn[k].calls # <<>> /\ history[turn[k].of].owed = Len(turn[k].calls)

\* The page of a busy session waits, unless it has lost a stream; it shows a payment as
\* under way only while the turn pays.
PagesWait ==
  /\ \A v \in busy : page[v].sending \/ page[v].lost
  /\ \A v \in Visitors : page[v].trace = "fetching" /\ ~page[v].lost =>
       \E k \in Chats : turn[k].pc = "pay" /\ turn[k].of = v

TurnInv == TurnTypes /\ OneTurnEach /\ CallsOwed /\ PagesWait /\ HistoryIsWhole

\* The initial state satisfies it.
LEMMA TurnInitial == Init => TurnInv
<1>1. <<>> \in Seq(Kinds)
  OBVIOUS
<1>2. QED
  BY <1>1 DEF Init, NoTurn, TurnInv, TurnTypes, TurnRecords, TurnPcs, Histories, Pages,
     OneTurnEach, Active, CallsOwed, PagesWait, HistoryIsWhole

\* The turn of k becomes t, and what its session owes becomes n.
Becomes(k, t) == turn' = [turn EXCEPT ![k] = t]
Owes(v, n) ==
  /\ history' \in [Visitors -> Histories]
  /\ history'[v].owed = n /\ ~history'[v].broken
  /\ \A u \in Visitors \ {v} : history'[u] = history[u]

\* A step that is one turn's own: it says where the turn goes, what it owes then, and
\* what the page shows.
LEMMA OwnStep ==
  ASSUME TurnInv, NEW k \in Chats, Active(k), UNCHANGED busy,
         NEW t \in TurnRecords, Becomes(k, t), t.of = turn[k].of,
         t.pc \in {"think", "call", "pay", "close"},
         NEW n \in Nat, Owes(turn[k].of, n),
         t.pc \in {"think", "close"} => n = 0,
         t.pc \in {"call", "pay"} => t.calls # <<>> /\ n = Len(t.calls),
         page' \in [Visitors -> Pages],
         \A v \in Visitors : /\ page'[v].sending = page[v].sending /\ page'[v].lost = page[v].lost
                             /\ v # turn[k].of => page'[v].trace = page[v].trace,
         page'[turn[k].of].trace = "fetching" /\ ~page[turn[k].of].lost => t.pc = "pay"
  PROVE  TurnInv'
<1>1. turn[k].of \in busy /\ turn[k].of \in Visitors
  BY DEF TurnInv, OneTurnEach, TurnTypes
<1>2. turn' \in [Chats -> TurnRecords] /\ turn'[k] = t /\ \A j \in Chats \ {k} : turn'[j] = turn[j]
  BY DEF Becomes, TurnInv, TurnTypes
<1>3. TurnTypes'
  BY <1>2 DEF TurnInv, TurnTypes, Owes
<1>4. OneTurnEach'
  BY <1>2 DEF TurnInv, OneTurnEach, Active
<1>5. CallsOwed'
  <2>1. \A j \in Chats \ {k} : Active(j) => turn[j].of \in Visitors \ {turn[k].of}
    BY <1>1 DEF TurnInv, OneTurnEach, TurnTypes
  <2>2. \A j \in Chats \ {k} : Active(j) => history'[turn'[j].of] = history[turn[j].of]
    BY <1>2, <2>1 DEF Owes
  <2>3. QED
    BY <1>2, <2>2 DEF TurnInv, CallsOwed, Owes, Active
<1>6. PagesWait'
  <2>1. \A v \in busy' : page'[v].sending \/ page'[v].lost
    BY DEF TurnInv, PagesWait, TurnTypes
  <2>2. ASSUME NEW v \in Visitors, page'[v].trace = "fetching", ~page'[v].lost
        PROVE  \E j \in Chats : turn'[j].pc = "pay" /\ turn'[j].of = v
    <3>1. CASE v = turn[k].of
      BY <1>2, <2>2, <3>1
    <3>2. CASE v # turn[k].of
      BY <1>2, <2>2, <3>2 DEF TurnInv, PagesWait
    <3>3. QED
      BY <3>1, <3>2
  <2>3. QED
    BY <2>1, <2>2 DEF PagesWait
<1>7. HistoryIsWhole'
  BY <1>1 DEF TurnInv, HistoryIsWhole, Owes
<1>8. QED
  BY <1>3, <1>4, <1>5, <1>6, <1>7 DEF TurnInv

\* A message to a history that owes nothing leaves it so, and whole.
LEMMA SayWhole ==
  ASSUME TurnTypes, HistoryIsWhole, NEW v \in Visitors, history[v].owed = 0
  PROVE  /\ Say(v) \in [Visitors -> Histories]
         /\ Say(v)[v].owed = 0 /\ ~Say(v)[v].broken
         /\ \A u \in Visitors \ {v} : Say(v)[u] = history[u]
BY DEF Say, TurnTypes, Histories, HistoryIsWhole

\* So does what is written over what a history owes.
LEMMA OwesUpdate ==
  ASSUME TurnTypes, NEW h \in [Visitors -> Histories], NEW v \in Visitors, NEW n \in Nat,
         ~h[v].broken, \A u \in Visitors \ {v} : h[u] = history[u],
         history' = [h EXCEPT ![v].owed = n]
  PROVE  Owes(v, n)
<1>1. h[v] \in Histories
  OBVIOUS
<1>2. /\ [h[v] EXCEPT !.owed = n] \in Histories
      /\ [h[v] EXCEPT !.owed = n].owed = n /\ ~[h[v] EXCEPT !.owed = n].broken
  BY <1>1 DEF Histories
<1>3. history' = [h EXCEPT ![v] = [h[v] EXCEPT !.owed = n]]
  OBVIOUS
<1>4. QED
  BY <1>2, <1>3 DEF Owes

\* The model answers, or none does.
LEMMA ThinkStep == TurnInv /\ (\E k \in Chats : Think(k) \/ NoModel(k)) => TurnInv'
<1> SUFFICES ASSUME TurnInv, NEW k \in Chats, Think(k) \/ NoModel(k)
             PROVE  TurnInv'
  OBVIOUS
<1> DEFINE v == turn[k].of
<1>0. /\ TurnTypes /\ HistoryIsWhole /\ turn[k].pc = "think" /\ Active(k)
      /\ turn[k] \in TurnRecords /\ v \in Visitors /\ v \in busy /\ history[v].owed = 0
  BY DEF TurnInv, TurnTypes, OneTurnEach, CallsOwed, Think, NoModel, Active
<1>1. /\ UNCHANGED <<busy, page>>
  BY DEF Think, NoModel, sessionVars
<1>2. /\ page' \in [Visitors -> Pages] /\ \A u \in Visitors : page'[u] = page[u]
      /\ page'[v].trace = "fetching" => page[v].lost
  BY <1>0, <1>1 DEF TurnInv, TurnTypes, PagesWait, OneTurnEach, Active
<1>3. ASSUME turn' = [turn EXCEPT ![k].pc = "close"], history' = Say(v) \/ UNCHANGED history
      PROVE  TurnInv'
  <2> DEFINE t == [turn[k] EXCEPT !.pc = "close"]
  <2>1. t \in TurnRecords /\ t.of = v /\ t.pc = "close"
    BY <1>0 DEF TurnRecords, TurnPcs
  <2>2. Becomes(k, t)
    BY <1>3 DEF Becomes
  <2>3. Owes(v, 0)
    BY <1>0, <1>3, SayWhole DEF Owes, TurnTypes, HistoryIsWhole
  <2> HIDE DEF t, v
  <2>4. QED
    BY <1>0, <1>1, <1>2, <2>1, <2>2, <2>3, OwnStep DEF v
<1>4. ASSUME NEW plan \in Plans,
             turn' = [turn EXCEPT ![k].pc = "call", ![k].calls = plan],
             history' = [Say(v) EXCEPT ![v].owed = Len(plan)]
      PROVE  TurnInv'
  <2> DEFINE t == [turn[k] EXCEPT !.pc = "call", !.calls = plan]
  <2>0. plan \in Seq(Kinds) /\ plan # <<>> /\ Len(plan) \in Nat
    BY PlaygroundConstants DEF Kinds
  <2>1. t \in TurnRecords /\ t.of = v /\ t.pc = "call" /\ t.calls = plan
    BY <1>0, <2>0 DEF TurnRecords, TurnPcs
  <2>2. Becomes(k, t)
    BY <1>0, <1>4 DEF Becomes, TurnTypes, TurnRecords
  <2>3. Owes(v, Len(plan))
    BY <1>0, <1>4, <2>0, SayWhole, OwesUpdate
  <2> HIDE DEF t, v
  <2>4. QED
    BY <1>0, <1>1, <1>2, <2>0, <2>1, <2>2, <2>3, OwnStep DEF v
<1>5. QED
  BY <1>3, <1>4 DEF Think, NoModel

\* A call is answered: the next one, the model again or the end.
LEMMA AnsweredStep ==
  ASSUME TurnInv, NEW k \in Chats, turn[k].pc \in {"call", "pay"}, Answered(k), UNCHANGED busy,
         page' \in [Visitors -> Pages],
         \A v \in Visitors : /\ page'[v].sending = page[v].sending /\ page'[v].lost = page[v].lost
                             /\ v # turn[k].of => page'[v].trace = page[v].trace,
         page'[turn[k].of].trace # "fetching" \/ page[turn[k].of].lost
  PROVE  TurnInv'
<1> DEFINE v == turn[k].of
           calls == turn[k].calls
           t == [turn[k] EXCEPT
                   !.pc = IF Len(calls) = 1
                          THEN IF turn[k].iter + 1 = MaxIters THEN "close" ELSE "think"
                          ELSE "call",
                   !.calls = Tail(calls),
                   !.iter = IF Len(calls) = 1 THEN turn[k].iter + 1 ELSE turn[k].iter]
<1>1. /\ TurnTypes /\ turn[k] \in TurnRecords /\ v \in Visitors /\ v \in busy /\ Active(k)
      /\ calls \in Seq(Kinds) /\ calls # <<>> /\ history[v].owed = Len(calls)
      /\ history[v] \in Histories /\ ~history[v].broken
  BY DEF TurnInv, TurnTypes, OneTurnEach, CallsOwed, Active, TurnRecords, HistoryIsWhole
<1>2. Tail(calls) \in Seq(Kinds) /\ Len(Tail(calls)) = Len(calls) - 1 /\ Len(calls) \in Nat \ {0}
  BY <1>1
<1>3. /\ t \in TurnRecords /\ t.of = v /\ t.calls = Tail(calls)
      /\ t.pc \in {"call", "think", "close"} /\ (t.pc = "call" <=> Len(calls) # 1)
  <2> DEFINE last == Len(calls) = 1
             to == IF last THEN IF turn[k].iter + 1 = MaxIters THEN "close" ELSE "think" ELSE "call"
             iter == IF last THEN turn[k].iter + 1 ELSE turn[k].iter
  <2>1. to \in {"call", "think", "close"} /\ (to = "call" <=> Len(calls) # 1)
    OBVIOUS
  <2>2. iter \in Nat
    BY <1>1 DEF TurnRecords
  <2> HIDE DEF to, iter
  <2>3. t = [turn[k] EXCEPT !.pc = to, !.calls = Tail(calls), !.iter = iter]
    BY DEF to, iter
  <2>4. QED
    BY <1>1, <1>2, <2>1, <2>2, <2>3 DEF TurnRecords, TurnPcs
<1>4. Becomes(k, t)
  BY <1>1, <1>2 DEF Answered, Becomes, TurnTypes, TurnRecords
<1>5. Owes(v, Len(calls) - 1)
  <2>1. history' = [history EXCEPT ![v].owed = @ - 1]
    BY DEF Answered
  <2>2. history' = [history EXCEPT ![v].owed = Len(calls) - 1]
    BY <1>1, <2>1
  <2>3. Len(calls) - 1 \in Nat /\ history \in [Visitors -> Histories]
    BY <1>1, <1>2 DEF TurnTypes
  <2>4. ~history[v].broken /\ v \in Visitors
    BY <1>1
  <2> HIDE DEF v, calls
  <2>5. QED
    BY <1>1, <2>2, <2>3, <2>4, OwesUpdate
<1> HIDE DEF t, calls, v
<1>6. /\ t.pc \in {"call", "pay"} => t.calls # <<>> /\ Len(calls) - 1 = Len(t.calls)
      /\ t.pc \in {"think", "close"} => Len(calls) - 1 = 0
      /\ Len(calls) - 1 \in Nat
  BY <1>2, <1>3
<1>7. QED
  BY <1>1, <1>3, <1>4, <1>5, <1>6, OwnStep DEF v

\* What an event of the turn does to the page of its session.
LEMMA EventShown ==
  ASSUME TurnInv, NEW v \in busy, NEW trace \in {"none", "fetching", "over"},
         OnEvent(v, trace)
  PROVE  /\ page' \in [Visitors -> Pages]
         /\ \A u \in Visitors : /\ page'[u].sending = page[u].sending /\ page'[u].lost = page[u].lost
                                /\ u # v => page'[u].trace = page[u].trace
         /\ page'[v].trace = trace \/ page[v].lost
<1>1. v \in Visitors /\ page \in [Visitors -> Pages] /\ (page[v].sending \/ page[v].lost)
  BY DEF TurnInv, TurnTypes, PagesWait
<1>2. CASE page[v].sending
  BY <1>1, <1>2 DEF OnEvent, Pages
<1>3. CASE ~page[v].sending
  BY <1>1, <1>3 DEF OnEvent
<1>4. QED
  BY <1>2, <1>3

\* Calls of tools.
LEMMA CallStep == TurnInv /\ (\E k \in Chats : CallTool(k) \/ CallPay(k) \/ Pay(k)) => TurnInv'
<1> SUFFICES ASSUME TurnInv, NEW k \in Chats, CallTool(k) \/ CallPay(k) \/ Pay(k)
             PROVE  TurnInv'
  OBVIOUS
<1> DEFINE v == turn[k].of
<1>0. /\ TurnTypes /\ turn[k] \in TurnRecords /\ v \in Visitors /\ v \in busy /\ Active(k)
      /\ turn[k].calls \in Seq(Kinds) /\ turn[k].calls # <<>>
      /\ history[v].owed = Len(turn[k].calls) /\ turn[k].pc \in {"call", "pay"}
  BY DEF TurnInv, TurnTypes, OneTurnEach, CallsOwed, Active, TurnRecords, CallTool, CallPay, Pay
<1>1. CASE CallTool(k)
  <2>1. /\ UNCHANGED <<busy, page>> /\ Answered(k)
    BY <1>1 DEF CallTool, sessionVars
  <2>2. page[v].trace # "fetching" \/ page[v].lost
    BY <1>0, <1>1 DEF TurnInv, PagesWait, OneTurnEach, Active, CallTool
  <2>3. QED
    BY <1>0, <2>1, <2>2, AnsweredStep DEF TurnTypes
<1>2. CASE CallPay(k)
  <2> DEFINE t == [turn[k] EXCEPT !.pc = "pay"]
  <2>1. UNCHANGED <<busy, history>> /\ OnEvent(v, "fetching")
    BY <1>2 DEF CallPay, sessionVars
  <2>2. t \in TurnRecords /\ t.of = v /\ t.pc = "pay" /\ t.calls = turn[k].calls
    BY <1>0 DEF TurnRecords, TurnPcs
  <2>3. Becomes(k, t)
    BY <1>2 DEF CallPay, Becomes
  <2>4. Owes(v, Len(turn[k].calls)) /\ Len(turn[k].calls) \in Nat
    BY <1>0, <2>1 DEF Owes, TurnInv, TurnTypes, HistoryIsWhole
  <2>5. /\ page' \in [Visitors -> Pages]
        /\ \A u \in Visitors : /\ page'[u].sending = page[u].sending /\ page'[u].lost = page[u].lost
                               /\ u # v => page'[u].trace = page[u].trace
    BY <1>0, <2>1, EventShown
  <2> HIDE DEF t
  <2>6. QED
    BY <1>0, <2>1, <2>2, <2>3, <2>4, <2>5, OwnStep
<1>3. CASE Pay(k)
  <2>1. /\ UNCHANGED busy /\ Answered(k)
    BY <1>3 DEF Pay, sessionVars
  <2>2. OnEvent(v, "over")
    BY <1>3 DEF Pay
  <2>3. QED
    BY <1>0, <2>1, <2>2, EventShown, AnsweredStep
<1>4. QED
  BY <1>1, <1>2, <1>3

\* A message starts a turn of a session that has none.
LEMMA ChatStep == TurnInv /\ (\E k \in Chats, v \in Visitors : Chat(k, v)) => TurnInv'
<1> SUFFICES ASSUME TurnInv, NEW k \in Chats, NEW v \in Visitors, Chat(k, v)
             PROVE  TurnInv'
  OBVIOUS
<1>0. /\ TurnTypes /\ HistoryIsWhole /\ turn[k] \in TurnRecords /\ turn[k].pc = "none"
      /\ v \notin busy /\ history[v].owed = 0 /\ busy' = busy \cup {v} /\ history' = Say(v)
  BY DEF TurnInv, TurnTypes, HistoryIsWhole, Chat, Arrives
<1>1. page' = [page EXCEPT ![v].sending = TRUE]
  BY DEF Chat, Send
<1>2. /\ turn' \in [Chats -> TurnRecords] /\ turn'[k].pc = "think" /\ turn'[k].of = v
      /\ \A j \in Chats \ {k} : turn'[j] = turn[j]
  <2> DEFINE t == [turn[k] EXCEPT !.pc = "think", !.of = v]
  <2>1. t \in TurnRecords /\ t.pc = "think" /\ t.of = v
    BY <1>0 DEF TurnRecords, TurnPcs
  <2>2. turn' = [turn EXCEPT ![k] = t]
    BY <1>0 DEF Chat, TurnTypes, TurnRecords
  <2> HIDE DEF t
  <2>3. QED
    BY <1>0, <2>1, <2>2 DEF TurnTypes
<1>3. /\ page' \in [Visitors -> Pages] /\ page'[v].sending
      /\ \A u \in Visitors : /\ page'[u].lost = page[u].lost /\ page'[u].trace = page[u].trace
                             /\ u # v => page'[u] = page[u]
  BY <1>0, <1>1 DEF TurnTypes, Pages
<1>4. /\ history' \in [Visitors -> Histories] /\ history'[v].owed = 0 /\ ~history'[v].broken
      /\ \A u \in Visitors \ {v} : history'[u] = history[u]
  BY <1>0, SayWhole
<1>5. TurnTypes'
  BY <1>0, <1>2, <1>3, <1>4 DEF TurnTypes
<1>6. OneTurnEach'
  BY <1>0, <1>2 DEF TurnInv, OneTurnEach, Active
<1>7. CallsOwed'
  <2>1. \A j \in Chats \ {k} : Active(j) => turn[j].of \in Visitors \ {v}
    BY <1>0 DEF TurnInv, OneTurnEach, TurnTypes
  <2>2. QED
    BY <1>2, <1>4, <2>1 DEF TurnInv, CallsOwed, Active
<1>8. PagesWait'
  BY <1>0, <1>2, <1>3 DEF TurnInv, PagesWait, TurnTypes
<1>9. HistoryIsWhole'
  BY <1>0, <1>4 DEF HistoryIsWhole
<1>10. QED
  BY <1>5, <1>6, <1>7, <1>8, <1>9 DEF TurnInv

\* The end of a turn frees its session, which owes nothing.
LEMMA EndStep == TurnInv /\ (\E k \in Chats : ChatEnds(k)) => TurnInv'
<1> SUFFICES ASSUME TurnInv, NEW k \in Chats, ChatEnds(k)
             PROVE  TurnInv'
  OBVIOUS
<1> DEFINE v == turn[k].of
<1>0. /\ TurnTypes /\ HistoryIsWhole /\ v \in Visitors /\ Active(k) /\ turn[k].pc = "close"
      /\ history[v].owed = 0 /\ busy' = busy \ {v} /\ UNCHANGED <<history, page>>
  BY DEF TurnInv, TurnTypes, OneTurnEach, CallsOwed, Active, ChatEnds
<1>1. /\ turn' \in [Chats -> TurnRecords] /\ turn'[k].pc = "over"
      /\ \A j \in Chats \ {k} : turn'[j] = turn[j]
  <2>1. [NoTurn EXCEPT !.pc = "over"] \in TurnRecords /\ [NoTurn EXCEPT !.pc = "over"].pc = "over"
    <3>1. <<>> \in Seq(Kinds)
      OBVIOUS
    <3>2. QED
      BY <3>1 DEF NoTurn, TurnRecords, TurnPcs
  <2>2. turn' = [turn EXCEPT ![k] = [NoTurn EXCEPT !.pc = "over"]]
    BY DEF ChatEnds
  <2>3. QED
    BY <1>0, <2>1, <2>2 DEF TurnTypes
<1>2. TurnTypes' /\ OneTurnEach'
  BY <1>0, <1>1 DEF TurnInv, TurnTypes, OneTurnEach, Active
<1>3. CallsOwed' /\ HistoryIsWhole'
  BY <1>0, <1>1 DEF TurnInv, CallsOwed, HistoryIsWhole
<1>4. PagesWait'
  BY <1>0, <1>1 DEF TurnInv, PagesWait
<1>5. QED
  BY <1>2, <1>3, <1>4 DEF TurnInv

\* The streams of the pages.
LEMMA StreamStep == TurnInv /\ (\E v \in Visitors : StreamEnds(v) \/ LoseStream(v)) => TurnInv'
<1> SUFFICES ASSUME TurnInv, NEW v \in Visitors, StreamEnds(v) \/ LoseStream(v)
             PROVE  TurnInv'
  OBVIOUS
<1>0. TurnTypes /\ UNCHANGED <<turn, busy, history>>
  BY DEF TurnInv, StreamEnds, LoseStream, sessionVars
<1>1. /\ page' \in [Visitors -> Pages]
      /\ \A u \in Visitors \ {v} : page'[u] = page[u]
      /\ page'[v].trace = page[v].trace
      /\ page'[v].lost \/ (v \notin busy /\ page'[v].lost = page[v].lost)
  <2>1. CASE StreamEnds(v)
    BY <1>0, <2>1 DEF StreamEnds, TurnTypes, Pages
  <2>2. CASE LoseStream(v)
    BY <1>0, <2>2 DEF LoseStream, TurnTypes, Pages
  <2>3. QED
    BY <2>1, <2>2
<1>2. TurnTypes' /\ OneTurnEach' /\ CallsOwed' /\ HistoryIsWhole'
  BY <1>0, <1>1 DEF TurnInv, TurnTypes, OneTurnEach, Active, CallsOwed, HistoryIsWhole
<1>3. PagesWait'
  BY <1>0, <1>1 DEF TurnInv, PagesWait, TurnTypes
<1>4. QED
  BY <1>2, <1>3 DEF TurnInv

\* Every step keeps the invariant of the turns.
LEMMA TurnStep == TurnInv /\ [Next]_vars => TurnInv'
<1> SUFFICES ASSUME TurnInv, [Next]_vars
             PROVE  TurnInv'
  OBVIOUS
<1>1. ASSUME UNCHANGED <<turn, busy, history, page>>
      PROVE  TurnInv'
  BY <1>1 DEF TurnInv, TurnTypes, OneTurnEach, Active, CallsOwed, PagesWait, HistoryIsWhole
<1>2. ASSUME NEW w \in Workers, Provision(w)
      PROVE  UNCHANGED <<turn, busy, history, page>>
  BY <1>2 DEF Provision, CreateAccount, CheckCap, LoadFaucet, SubmitPayment, PaymentAnswered, turnVars
<1>3. ASSUME NEW v \in Visitors, StartSession(v) \/ Connect(v) \/ CloseSession(v)
      PROVE  UNCHANGED <<turn, busy, history, page>>
  BY <1>3 DEF StartSession, Connect, CloseSession, turnVars
<1>m. ASSUME NEW v \in Visitors, CallMcp(v)
      PROVE  UNCHANGED <<turn, busy, history, page>>
  BY <1>m DEF CallMcp, sessionVars
<1>4. ASSUME ReplenishInterval \/ NewDay \/ UNCHANGED vars
      PROVE  UNCHANGED <<turn, busy, history, page>>
  BY <1>4 DEF ReplenishInterval, NewDay, vars, sessionVars, turnVars
<1>5. QED
  BY <1>1, <1>2, <1>3, <1>m, <1>4, ThinkStep, CallStep, ChatStep, EndStep, StreamStep DEF Next, Turn

\* The model is never asked with a history in which a tool call has no answer.
THEOREM HistoriesWhole == Spec => []HistoryIsWhole
<1>1. TurnInv => HistoryIsWhole
  BY DEF TurnInv
<1>2. QED
  BY <1>1, TurnInitial, TurnStep, PTL DEF Spec

\* A page that waits for nothing and has lost nothing may send, and shows no payment as
\* under way.
THEOREM PagesCurrent == Spec => []IdlePagesAreCurrent
<1>1. TurnInv => IdlePagesAreCurrent
  BY DEF TurnInv, TurnTypes, OneTurnEach, Active, PagesWait, IdlePagesAreCurrent
<1>2. QED
  BY <1>1, TurnInitial, TurnStep, PTL DEF Spec

-----------------------------------------------------------------------------
(* Wallets. *)

JobPcs == {"idle", "create", "cap", "account", "submit", "answer"}
Jobs == [pc : JobPcs, wallet : Wallets \cup {None}, tries : Nat, seq : Nat]
RequestPcs == {"idle", "provision", "connect", "open", "over"}
RequestRecords == [pc : RequestPcs, wallet : Wallets \cup {None}]
Elems(s) == {s[i] : i \in 1..Len(s)}
Distinct(s) == \A i, j \in 1..Len(s) : i # j => s[i] # s[j]

Accounts == [asked : SUBSET Visitors, unlocked : SUBSET Wallets,
             payers : SUBSET Visitors, served : SUBSET Visitors]

WalletTypes ==
  /\ pool \in Seq(Wallets)
  /\ replenishing \in BOOLEAN
  /\ made \in 0..MaxWallets
  /\ job \in [Workers -> Jobs]
  /\ faucet \in [seq : Nat, funds : Nat, paid : [Wallets -> Nat]]
  /\ request \in [Visitors -> RequestRecords]
  /\ sessions \subseteq Visitors
  /\ account \in Accounts

Working(w) == job[w].pc # "idle"
Taken(v) == request[v].wallet # None

\* No wallet that is not made yet is anywhere.
Known ==
  /\ \A x \in Elems(pool) : x <= made
  /\ \A w \in Workers : Working(w) => job[w].wallet \in Wallets /\ job[w].wallet <= made
  /\ \A v \in Visitors : Taken(v) => request[v].wallet <= made

\* A wallet is at one place: the pool, a job or a request.
Apart ==
  /\ Distinct(pool)
  /\ \A w \in Workers : Working(w) => job[w].wallet \notin Elems(pool)
  /\ \A v \in Visitors : request[v].wallet \notin Elems(pool)
  /\ \A w, x \in Workers : Working(w) /\ Working(x) /\ job[w].wallet = job[x].wallet => w = x
  /\ \A u, v \in Visitors : Taken(u) /\ request[u].wallet = request[v].wallet => u = v
  /\ \A w \in Workers, v \in Visitors : Working(w) => job[w].wallet # request[v].wallet

\* A request has a wallet from the time it is handed one, and keeps it; what a wallet
\* unlocked is known by its request.
Handed ==
  /\ \A v \in Visitors : Working(v) => request[v].pc = "provision"
  /\ \A v \in Visitors : request[v].pc \in {"idle", "provision"} => ~Taken(v)
  /\ \A v \in Visitors : request[v].pc = "connect" => Taken(v)
  /\ \A v \in sessions : Taken(v)
  /\ \A x \in account.unlocked : \E v \in Visitors : request[v].wallet = x

\* Whoever holds a wallet that unlocked the resource has paid with it; a payment that the
\* MCP server was asked for is one with a wallet that was handed out.
UnlockersPaid ==
  /\ \A v \in Visitors : request[v].wallet \in account.unlocked => v \in account.payers
  /\ \A v \in account.asked : Taken(v)

\* A wallet is paid by the faucet before it leaves its job.
Funded ==
  /\ \A x \in Elems(pool) : faucet.paid[x] > 0
  /\ \A v \in Visitors : Taken(v) => faucet.paid[request[v].wallet] > 0
  /\ \A w \in Workers : job[w].pc = "answer" => faucet.paid[job[w].wallet] > 0

WalletInv == /\ WalletTypes
             /\ Known
             /\ Apart
             /\ Handed
             /\ UnlockersPaid
             /\ Funded
             /\ NobodyInherits

\* What is left of a pool: its tail, or all but a wallet; and a pool with one more.
LEMMA Tails ==
  ASSUME NEW S, NEW s \in Seq(S), s # <<>>, Distinct(s)
  PROVE  /\ Tail(s) \in Seq(S) /\ Distinct(Tail(s)) /\ Head(s) \in S /\ Head(s) \in Elems(s)
         /\ Elems(Tail(s)) \subseteq Elems(s) \ {Head(s)}
<1>1. Len(s) \in Nat \ {0} /\ Head(s) = s[1] /\ 1 \in 1..Len(s) /\ s[1] \in S
  OBVIOUS
<1>2. Tail(s) \in Seq(S) /\ Len(Tail(s)) = Len(s) - 1
      /\ \A i \in 1..Len(s) - 1 : Tail(s)[i] = s[i + 1]
  OBVIOUS
<1>3. QED
  BY <1>1, <1>2 DEF Distinct, Elems

LEMMA Appends ==
  ASSUME NEW S, NEW s \in Seq(S), Distinct(s), NEW x \in S, x \notin Elems(s)
  PROVE  /\ Append(s, x) \in Seq(S) /\ Distinct(Append(s, x))
         /\ Elems(Append(s, x)) = Elems(s) \cup {x}
<1>1. /\ Append(s, x) \in Seq(S) /\ Len(Append(s, x)) = Len(s) + 1 /\ Len(s) \in Nat
      /\ \A i \in 1..Len(s) : Append(s, x)[i] = s[i]
      /\ Append(s, x)[Len(s) + 1] = x
  OBVIOUS
<1>2. QED
  BY <1>1 DEF Distinct, Elems

LEMMA Withouts ==
  ASSUME NEW S, NEW s \in Seq(S), Distinct(s), NEW w
  PROVE  /\ Without(s, w) \in Seq(S) /\ Distinct(Without(s, w))
         /\ Elems(Without(s, w)) \subseteq Elems(s)
<1>1. CASE FirstIndex(s, w) = {}
  BY <1>1 DEF Without
<1>2. CASE FirstIndex(s, w) # {}
  <2> DEFINE i == CHOOSE j \in FirstIndex(s, w) : TRUE
             a == SubSeq(s, 1, i - 1)
             b == SubSeq(s, i + 1, Len(s))
  <2>1. i \in 1..Len(s) /\ Len(s) \in Nat
    BY <1>2 DEF FirstIndex
  <2>2. Without(s, w) = a \o b
    BY <1>2 DEF Without
  <2> HIDE DEF i
  <2>3. a \in Seq(S) /\ Len(a) = i - 1 /\ \A j \in 1..i - 1 : a[j] = s[j]
    BY <2>1
  <2>4. b \in Seq(S) /\ Len(b) = Len(s) - i /\ \A j \in 1..Len(s) - i : b[j] = s[i + j]
    BY <2>1
  <2> HIDE DEF a, b
  <2>5. /\ a \o b \in Seq(S) /\ Len(a \o b) = Len(s) - 1
        /\ \A j \in 1..i - 1 : (a \o b)[j] = s[j]
        /\ \A j \in i..Len(s) - 1 : (a \o b)[j] = s[j + 1]
    <3>1. a \o b \in Seq(S) /\ Len(a \o b) = Len(a) + Len(b)
      BY <2>3, <2>4
    <3>2. \A j \in 1..Len(a) + Len(b) :
            (a \o b)[j] = IF j <= Len(a) THEN a[j] ELSE b[j - Len(a)]
      BY <2>3, <2>4, ConcatProperties
    <3>3. ASSUME NEW j \in i..Len(s) - 1
          PROVE  (a \o b)[j] = s[j + 1]
      <4>1. j \in 1..Len(a) + Len(b) /\ ~(j <= Len(a)) /\ j - Len(a) \in 1..Len(s) - i
            /\ i + (j - Len(a)) = j + 1
        BY <2>1, <2>3, <2>4
      <4>2. QED
        BY <3>2, <2>4, <4>1
    <3>4. ASSUME NEW j \in 1..i - 1
          PROVE  (a \o b)[j] = s[j]
      BY <2>1, <2>3, <2>4, <3>2
    <3>5. QED
      BY <2>1, <2>3, <2>4, <3>1, <3>3, <3>4
  <2> DEFINE t == a \o b
  <2>6. \A j \in 1..Len(t) : \E n \in 1..Len(s) : t[j] = s[n] /\ n = IF j < i THEN j ELSE j + 1
    BY <2>1, <2>5
  <2> HIDE DEF t
  <2>7. Elems(t) \subseteq Elems(s)
    BY <2>6 DEF Elems
  <2>8. Distinct(t)
    <3> SUFFICES ASSUME NEW j \in 1..Len(t), NEW k \in 1..Len(t), j # k
                 PROVE  t[j] # t[k]
      BY DEF Distinct
    <3>1. PICK n \in 1..Len(s) : t[j] = s[n] /\ n = IF j < i THEN j ELSE j + 1
      BY <2>6
    <3>2. PICK m \in 1..Len(s) : t[k] = s[m] /\ m = IF k < i THEN k ELSE k + 1
      BY <2>6
    <3>3. n # m
      <4>1. Len(t) \in Nat /\ i \in Int
        BY <2>1, <2>5 DEF t
      <4>2. QED
        BY <3>1, <3>2, <4>1
    <3>4. QED
      BY <3>1, <3>2, <3>3 DEF Distinct
  <2>9. QED
    BY <2>2, <2>5, <2>7, <2>8 DEF t
<1>3. QED
  BY <1>1, <1>2

\* The initial state satisfies the invariant.
LEMMA WalletInitial == Init => WalletInv
<1> SUFFICES ASSUME Init
             PROVE  WalletInv
  OBVIOUS
<1> USE DEF Init
<1>1. Elems(pool) = {} /\ pool \in Seq(Wallets)
  BY DEF Elems
<1>2. WalletTypes
  <2>1. NoJob \in Jobs
    BY DEF NoJob, Jobs, JobPcs
  <2>2. job \in [Workers -> Jobs] /\ made \in 0..MaxWallets
    BY <2>1, PlaygroundConstants
  <2>3. faucet \in [seq : Nat, funds : Nat, paid : [Wallets -> Nat]]
    BY PlaygroundConstants
  <2>4. request \in [Visitors -> RequestRecords]
    BY DEF RequestRecords, RequestPcs
  <2>5. account \in Accounts
    BY DEF Accounts
  <2>6. QED
    BY <1>1, <2>2, <2>3, <2>4, <2>5 DEF WalletTypes
<1>3. Known /\ Funded /\ UnlockersPaid
  BY <1>1 DEF Known, Funded, UnlockersPaid, Working, Taken, NoJob
<1>4. Apart /\ Handed
  BY <1>1 DEF Apart, Handed, Working, Taken, NoJob, Distinct, Workers
<1>5. QED
  BY <1>2, <1>3, <1>4 DEF WalletInv, NobodyInherits

\* A job is as it was, or provisions a wallet that is made now.
StartsJob(w) ==
  /\ job'[w].pc = "create"
  /\ job'[w].wallet \in made + 1..made'

\* A request is handed a wallet that was in the pool.
TakesFromPool(v) == ~Taken(v) /\ request'[v].wallet \in Elems(pool) \ Elems(pool')

\* Wallets that leave the pool, for a request or for good, and wallets that are made: the
\* part of the invariant that says where wallets are.
LEMMA Handover ==
  ASSUME WalletInv, WalletTypes', UNCHANGED <<faucet, account>>,
         made' \in made..MaxWallets,
         Distinct(pool'), Elems(pool') \subseteq Elems(pool),
         \A w \in Workers : job'[w] = job[w] \/ StartsJob(w),
         \A w, x \in Workers : StartsJob(w) /\ StartsJob(x) /\ w # x => job'[w].wallet # job'[x].wallet,
         \A v \in Visitors : request'[v].wallet = request[v].wallet \/ TakesFromPool(v),
         \A u, v \in Visitors : TakesFromPool(u) /\ TakesFromPool(v) => u = v
  PROVE  Known' /\ Apart' /\ UnlockersPaid' /\ Funded'
<1>t. WalletTypes /\ made \in Nat /\ MaxWallets \in Nat
  BY PlaygroundConstants DEF WalletInv, WalletTypes
<1>e. /\ \A x \in Elems(pool) : x \in Wallets /\ x <= made /\ x # None
      /\ \A v \in Visitors : Taken(v) => request[v].wallet \in Wallets /\ request[v].wallet <= made
      /\ \A w \in Workers : Working(w) => job[w].wallet \in Wallets /\ job[w].wallet <= made
  <2>1. None \notin Wallets
    BY <1>t, PlaygroundConstants DEF Wallets
  <2>2. \A x \in Elems(pool) : x \in Wallets
    BY <1>t DEF WalletTypes, Elems
  <2>3. \A v \in Visitors : Taken(v) => request[v].wallet \in Wallets
    BY <1>t DEF WalletTypes, RequestRecords, Taken
  <2>4. QED
    BY <2>1, <2>2, <2>3 DEF WalletInv, Known
<1>j. \A w \in Workers : Working(w)' =>
        \/ Working(w) /\ job'[w] = job[w] /\ job'[w].wallet <= made
        \/ StartsJob(w) /\ job'[w].wallet > made /\ job'[w].wallet <= made' /\ job'[w].wallet \in Wallets
  BY <1>t, <1>e DEF Working, StartsJob, Wallets
<1>r. \A v \in Visitors : Taken(v)' =>
        \/ Taken(v) /\ request'[v].wallet = request[v].wallet
        \/ TakesFromPool(v)
  BY DEF Taken
<1>1. Known'
  <2>1. \A x \in Elems(pool') : x <= made'
    BY <1>t, <1>e DEF Wallets
  <2>2. \A v \in Visitors : Taken(v)' => request'[v].wallet <= made'
    BY <1>t, <1>e, <1>r DEF Wallets, TakesFromPool
  <2>3. \A w \in Workers : Working(w)' => job'[w].wallet \in Wallets /\ job'[w].wallet <= made'
    BY <1>t, <1>e, <1>j DEF Wallets
  <2>4. QED
    BY <2>1, <2>2, <2>3 DEF Known, Elems
<1>2. Apart'
  <2>1. \A w \in Workers : Working(w)' => job'[w].wallet \notin Elems(pool')
    BY <1>t, <1>e, <1>j DEF WalletInv, Apart, Wallets
  <2>2. \A v \in Visitors : request'[v].wallet \notin Elems(pool')
    BY <1>e, <1>r DEF WalletInv, Apart, Taken, TakesFromPool
  <2>3. \A w, x \in Workers : Working(w)' /\ Working(x)' /\ job'[w].wallet = job'[x].wallet => w = x
    BY <1>t, <1>e, <1>j DEF WalletInv, Apart, Wallets
  <2>4. \A v, v2 \in Visitors : Taken(v)' /\ request'[v].wallet = request'[v2].wallet => v = v2
    BY <1>r DEF WalletInv, Apart, Taken, TakesFromPool
  <2>5. \A w \in Workers, v \in Visitors : Working(w)' => job'[w].wallet # request'[v].wallet
    <3> SUFFICES ASSUME NEW w \in Workers, NEW v \in Visitors, Working(w)', Taken(v)'
                 PROVE  job'[w].wallet # request'[v].wallet
      BY <1>e, <1>j, PlaygroundConstants DEF Taken, Wallets
    <3>1. request'[v].wallet <= made
      BY <1>e, <1>r DEF TakesFromPool
    <3>2. CASE StartsJob(w) /\ job'[w].wallet > made /\ job'[w].wallet \in Wallets
      BY <1>t, <3>1, <3>2 DEF Wallets
    <3>3. CASE Working(w) /\ job'[w] = job[w]
      BY <1>r, <3>3 DEF WalletInv, Apart, TakesFromPool
    <3>4. QED
      BY <1>j, <3>2, <3>3
  <2>6. QED
    BY <2>1, <2>2, <2>3, <2>4, <2>5 DEF Apart, Elems, Working, Taken
<1>3. UnlockersPaid'
  <2>1. \A x \in account.unlocked : x \notin Elems(pool)
    BY DEF WalletInv, Handed, Apart
  <2>2. \A x \in account.unlocked : x # None
    BY <1>t, PlaygroundConstants DEF WalletTypes, Accounts, Wallets
  <2>3. \A v \in Visitors : Taken(v) => Taken(v)'
    BY DEF Taken, TakesFromPool
  <2>4. account.asked \subseteq Visitors
    BY <1>t DEF WalletTypes, Accounts
  <2>5. QED
    BY <1>r, <2>1, <2>2, <2>3, <2>4 DEF WalletInv, UnlockersPaid, Taken, TakesFromPool
<1>4. Funded'
  <2>1. \A w \in Workers : job'[w].pc = "answer" => job'[w] = job[w]
    BY DEF StartsJob
  <2>2. QED
    BY <1>r, <2>1 DEF WalletInv, Funded, Elems, Taken, TakesFromPool
<1>5. QED
  BY <1>1, <1>2, <1>3, <1>4

\* A job as it starts.
LEMMA NewJobs ==
  ASSUME NEW x \in Wallets
  PROVE  NewJob(x) \in Jobs /\ NewJob(x).pc = "create" /\ NewJob(x).wallet = x
<1>1. NoJob \in Jobs
  BY DEF NoJob, Jobs, JobPcs
<1>2. QED
  BY <1>1 DEF NewJob, Jobs, JobPcs

\* What starts with a refill: none, or one with the wallet that is made for it.
LEMMA Refills ==
  ASSUME WalletInv, NEW left \in Seq(Wallets), Replenish(left, made)
  PROVE  /\ pool' = left /\ replenishing' \in BOOLEAN
         /\ made' \in made..MaxWallets /\ job' \in [Workers -> Jobs]
         /\ \A w \in Workers : job'[w] = job[w] \/ StartsJob(w)
         /\ \A w \in Workers \ {Refill} : job'[w] = job[w]
<1>1. /\ made \in 0..MaxWallets /\ replenishing \in BOOLEAN /\ MaxWallets \in Nat
      /\ job \in [Workers -> Jobs] /\ Refill \in Workers
  BY PlaygroundConstants DEF WalletInv, WalletTypes, Workers
<1>2. CASE /\ pool' = left /\ replenishing' = TRUE /\ made' = made + 1 /\ made < MaxWallets
           /\ job' = [job EXCEPT ![Refill] = NewJob(made + 1)]
  <2>1. NewJob(made + 1) \in Jobs /\ NewJob(made + 1).pc = "create" /\ NewJob(made + 1).wallet = made + 1
    <3>1. made + 1 \in Wallets
      BY <1>1, <1>2 DEF Wallets
    <3>2. QED
      BY <3>1, NewJobs
  <2>2. QED
    BY <1>1, <1>2, <2>1 DEF StartsJob
<1>3. CASE pool' = left /\ replenishing' = replenishing /\ made' = made /\ job' = job
  BY <1>1, <1>3
<1>4. QED
  BY <1>1, <1>2, <1>3 DEF Replenish


\* A job that is as it was does not start.
LEMMA OldJobs ==
  ASSUME WalletInv, NEW w \in Workers, job'[w] = job[w]
  PROVE  ~StartsJob(w)
<1> SUFFICES ASSUME StartsJob(w)
             PROVE  FALSE
  OBVIOUS
<1>1. job[w].wallet \in Wallets /\ job[w].wallet <= made /\ job[w].wallet > made
  BY DEF StartsJob, WalletInv, WalletTypes, Known, Working
<1>2. QED
  BY <1>1 DEF Wallets, WalletInv, WalletTypes

\* A request that only goes on.
LEMMA RequestGoes ==
  ASSUME request \in [Visitors -> RequestRecords], NEW v \in Visitors, NEW pc \in RequestPcs,
         request' = [request EXCEPT ![v].pc = pc]
  PROVE  /\ request' \in [Visitors -> RequestRecords] /\ request'[v].pc = pc
         /\ \A u \in Visitors : /\ request'[u].wallet = request[u].wallet
                                /\ u # v => request'[u] = request[u]
BY DEF RequestRecords

\* What unlocked the resource stays known while requests keep their wallets.
LEMMA UnlockersKept ==
  ASSUME WalletInv, account' = account,
         \A v \in Visitors : Taken(v) => request'[v].wallet = request[v].wallet
  PROVE  \A x \in account'.unlocked : \E v \in Visitors : request'[v].wallet = x
<1> SUFFICES ASSUME NEW x \in account.unlocked
             PROVE  \E v \in Visitors : request'[v].wallet = x
  OBVIOUS
<1>1. PICK v \in Visitors : request[v].wallet = x
  BY DEF WalletInv, Handed
<1>2. x # None
  BY PlaygroundConstants DEF WalletInv, WalletTypes, Accounts, Wallets
<1>3. QED
  BY <1>1, <1>2 DEF Taken

\* A step that takes wallets out of the pool for good, and refills it.
LEMMA RefillStep ==
  ASSUME WalletInv, NEW left \in Seq(Wallets), Distinct(left), Elems(left) \subseteq Elems(pool),
         Replenish(left, made), UNCHANGED <<faucet, account, request>>,
         sessions' \subseteq sessions
  PROVE  WalletInv'
<1>1. /\ pool' = left /\ replenishing' \in BOOLEAN
      /\ made' \in made..MaxWallets /\ job' \in [Workers -> Jobs]
      /\ \A w \in Workers : job'[w] = job[w] \/ StartsJob(w)
      /\ \A w \in Workers \ {Refill} : job'[w] = job[w] /\ ~StartsJob(w)
  <2>1. \A w \in Workers \ {Refill} : job'[w] = job[w] => ~StartsJob(w)
    BY OldJobs
  <2>2. QED
    BY <2>1, Refills
<1>2. made \in Nat /\ MaxWallets \in Nat /\ made \in 0..MaxWallets
  BY PlaygroundConstants DEF WalletInv, WalletTypes
<1>3. WalletTypes'
  BY <1>1, <1>2 DEF WalletInv, WalletTypes
<1>4. Known' /\ Apart' /\ UnlockersPaid' /\ Funded'
  <2>1. \A w, x \in Workers : StartsJob(w) /\ StartsJob(x) => w = x
    BY <1>1
  <2>2. \A v \in Visitors : ~TakesFromPool(v)
    BY DEF TakesFromPool, WalletInv, Taken, Apart
  <2>3. QED
    BY <1>1, <1>3, <2>1, <2>2, Handover
<1>5. Handed'
  <2>1. \A v \in Visitors : v \in Workers \ {Refill}
    BY PlaygroundConstants DEF Workers, Refill
  <2>2. QED
    BY <1>1, <2>1 DEF WalletInv, Handed, Working, Taken
<1>6. QED
  BY <1>3, <1>4, <1>5 DEF WalletInv, NobodyInherits

\* The interval, and a session that is closed: its wallet is in no pool.
LEMMA IntervalStep == WalletInv /\ ReplenishInterval => WalletInv'
<1> SUFFICES ASSUME WalletInv, ReplenishInterval
             PROVE  WalletInv'
  OBVIOUS
<1>1. pool \in Seq(Wallets) /\ Distinct(pool)
  BY DEF WalletInv, WalletTypes, Apart
<1>2. /\ Replenish(pool, made)
      /\ UNCHANGED <<faucet, account, request, sessions>>
  BY DEF ReplenishInterval, faucetVars, sessionVars, turnVars
<1>3. QED
  BY <1>1, <1>2, RefillStep

LEMMA CloseStep == WalletInv /\ (\E v \in Visitors : CloseSession(v)) => WalletInv'
<1> SUFFICES ASSUME WalletInv, NEW v \in Visitors, CloseSession(v)
             PROVE  WalletInv'
  OBVIOUS
<1> DEFINE left == Without(pool, request[v].wallet)
<1>1. left \in Seq(Wallets) /\ Distinct(left) /\ Elems(left) \subseteq Elems(pool)
  BY Withouts DEF WalletInv, WalletTypes, Apart
<1>2. /\ Replenish(left, made)
      /\ sessions' \subseteq sessions
      /\ UNCHANGED <<faucet, account, request>>
  BY DEF CloseSession, RetireWallet, faucetVars, turnVars
<1> HIDE DEF left
<1>3. QED
  BY <1>1, <1>2, RefillStep

\* A step in which no wallet changes its place; a job may end, the faucet may pay.
LEMMA PlacesKept ==
  ASSUME WalletInv, UNCHANGED <<pool, made, account>>,
         \A w \in Workers : Working(w)' => Working(w) /\ job'[w].wallet = job[w].wallet,
         \A v \in Visitors : request'[v].wallet = request[v].wallet,
         \A x \in Wallets : faucet.paid[x] > 0 => faucet'.paid[x] > 0,
         \A w \in Workers : job'[w].pc = "answer" => job[w].pc = "answer" \/ faucet'.paid[job[w].wallet] > 0
  PROVE  Known' /\ Apart' /\ UnlockersPaid' /\ Funded'
<1>1. Known'
  BY DEF WalletInv, Known, Elems, Taken
<1>2. Apart'
  BY DEF WalletInv, Apart, Elems, Taken
<1>3. UnlockersPaid'
  BY DEF WalletInv, WalletTypes, Accounts, UnlockersPaid, Taken
<1>4. Funded'
  <2>1. /\ \A x \in Elems(pool) : x \in Wallets
        /\ \A v \in Visitors : Taken(v) => request[v].wallet \in Wallets
    BY DEF WalletInv, WalletTypes, Elems, RequestRecords, Taken
  <2>2. \A w \in Workers : job'[w].pc = "answer" =>
          job'[w].wallet = job[w].wallet /\ job[w].wallet \in Wallets
    BY DEF WalletInv, Known, Working
  <2>3. QED
    BY <2>1, <2>2 DEF WalletInv, Funded, Elems, Taken
<1>5. QED
  BY <1>1, <1>2, <1>3, <1>4

\* A session is refused, or takes a wallet out of the pool, or provisions one for itself.
LEMMA StartStep == WalletInv /\ (\E v \in Visitors : StartSession(v)) => WalletInv'
<1> SUFFICES ASSUME WalletInv, NEW v \in Visitors, StartSession(v)
             PROVE  WalletInv'
  OBVIOUS
<1>0. /\ UNCHANGED <<faucet, account, sessions>>
      /\ request[v].pc = "idle" /\ ~Taken(v) /\ ~Working(v)
      /\ request \in [Visitors -> RequestRecords] /\ request[v] \in RequestRecords
      /\ v \in Workers /\ v # Refill /\ Refill \in Workers
      /\ made \in Nat /\ MaxWallets \in Nat /\ made \in 0..MaxWallets
  <2>1. v \in Workers /\ v # Refill /\ Refill \in Workers
    BY PlaygroundConstants DEF Workers, Refill
  <2>2. request[v].pc = "idle" /\ UNCHANGED <<faucet, account, sessions>>
    BY DEF StartSession, faucetVars, turnVars
  <2>3. ~Taken(v) /\ ~Working(v)
    BY <2>2 DEF WalletInv, Handed
  <2>4. QED
    BY <2>1, <2>2, <2>3, PlaygroundConstants DEF WalletInv, WalletTypes
<1>1. CASE request' = [request EXCEPT ![v].pc = "over"] /\ UNCHANGED walletVars
  <2>1. /\ request' \in [Visitors -> RequestRecords]
        /\ \A u \in Visitors : /\ request'[u].wallet = request[u].wallet
                               /\ u # v => request'[u] = request[u]
        /\ request'[v].pc = "over"
    BY <1>0, <1>1, RequestGoes DEF RequestPcs
  <2>2. UNCHANGED <<pool, replenishing, made, job>>
    BY <1>1 DEF walletVars
  <2>3. WalletTypes'
    BY <1>0, <2>1, <2>2 DEF WalletInv, WalletTypes
  <2>4. Known' /\ Apart' /\ UnlockersPaid' /\ Funded'
    <3>1. \A w \in Workers : Working(w)' => Working(w) /\ job'[w].wallet = job[w].wallet
      BY <2>2 DEF Working
    <3>2. QED
      BY <1>0, <2>1, <2>2, <3>1, PlacesKept
  <2>5. Handed'
    <3>1. \A u \in Visitors : u \in Workers
      BY DEF Workers
    <3>2. \A u \in Visitors : Working(u)' => request'[u].pc = "provision"
      BY <1>0, <2>1, <2>2 DEF WalletInv, Handed, Working
    <3>3. \A u \in Visitors : Taken(u)' <=> Taken(u)
      BY <2>1 DEF Taken
    <3>4. \A u \in Visitors : /\ request'[u].pc \in {"idle", "provision"} => ~Taken(u)
                              /\ request'[u].pc = "connect" => Taken(u)
      BY <2>1 DEF WalletInv, Handed
    <3>5. sessions' \subseteq Visitors /\ \A u \in sessions' : Taken(u)
      BY <1>0 DEF WalletInv, WalletTypes, Handed
    <3>6. QED
      <4>1. account' = account /\ \A u \in Visitors : Taken(u) => request'[u].wallet = request[u].wallet
        BY <1>0, <2>1, <3>2, <3>3, <3>4, <3>5 DEF Taken
      <4>2. \A x \in account'.unlocked : \E u \in Visitors : request'[u].wallet = x
        BY <4>1, UnlockersKept
      <4>3. QED
        BY <1>0, <2>1, <3>2, <3>3, <3>4, <3>5, <4>2 DEF Handed, Working, Taken
  <2>6. QED
    BY <1>0, <2>3, <2>4, <2>5 DEF WalletInv, NobodyInherits
<1>2. CASE /\ pool # <<>> /\ Replenish(Tail(pool), made)
           /\ request' = [request EXCEPT ![v] = [pc |-> "connect", wallet |-> Head(pool)]]
  <2>1. /\ Tail(pool) \in Seq(Wallets) /\ Distinct(Tail(pool)) /\ Head(pool) \in Wallets
        /\ Head(pool) \in Elems(pool) /\ Elems(Tail(pool)) \subseteq Elems(pool) \ {Head(pool)}
    BY <1>2, Tails DEF WalletInv, WalletTypes, Apart
  <2>2. /\ pool' = Tail(pool) /\ replenishing' \in BOOLEAN
        /\ made' \in made..MaxWallets /\ job' \in [Workers -> Jobs]
        /\ \A w \in Workers : job'[w] = job[w] \/ StartsJob(w)
        /\ \A w \in Workers \ {Refill} : job'[w] = job[w]
    BY <1>2, <2>1, Refills
  <2>3. \A w \in Workers : job'[w] = job[w] => ~StartsJob(w)
    BY OldJobs
  <2>4. /\ request' \in [Visitors -> RequestRecords]
        /\ request'[v].pc = "connect" /\ request'[v].wallet = Head(pool)
        /\ \A u \in Visitors \ {v} : request'[u] = request[u]
    BY <1>0, <1>2, <2>1 DEF RequestRecords, RequestPcs
  <2>5. WalletTypes'
    BY <1>0, <2>1, <2>2, <2>4 DEF WalletInv, WalletTypes
  <2>6. Known' /\ Apart' /\ UnlockersPaid' /\ Funded'
    <3>1. \A w, x \in Workers : StartsJob(w) /\ StartsJob(x) => w = x
      BY <2>2, <2>3
    <3>2. \A u \in Visitors : request'[u].wallet = request[u].wallet \/ (u = v /\ TakesFromPool(u))
      BY <1>0, <2>1, <2>2, <2>4 DEF TakesFromPool
    <3>3. \A u \in Visitors \ {v} : ~TakesFromPool(u)
      BY <2>4 DEF TakesFromPool, WalletInv, Apart
    <3>4. Distinct(pool') /\ Elems(pool') \subseteq Elems(pool)
      BY <2>1, <2>2
    <3>5. \A t, u \in Visitors : TakesFromPool(t) /\ TakesFromPool(u) => t = u
      BY <3>3
    <3>6. \A u \in Visitors : request'[u].wallet = request[u].wallet \/ TakesFromPool(u)
      BY <3>2
    <3>7. QED
      BY <1>0, <2>2, <2>5, <3>1, <3>4, <3>5, <3>6, Handover
  <2>7. Handed'
    <3>1. Head(pool) # None
      BY <1>0, <2>1, PlaygroundConstants DEF Wallets
    <3>2. \A u \in Visitors : u \in Workers \ {Refill}
      BY PlaygroundConstants DEF Workers, Refill
    <3>3. \A u \in Visitors : Working(u)' => request'[u].pc = "provision"
      BY <1>0, <2>2, <2>4, <3>2 DEF WalletInv, Handed, Working
    <3>4. \A u \in Visitors : /\ request'[u].pc \in {"idle", "provision"} => ~Taken(u)'
                              /\ request'[u].pc = "connect" => Taken(u)'
      BY <2>4, <3>1 DEF WalletInv, Handed, Taken
    <3>5. sessions' \subseteq Visitors /\ \A u \in sessions' : Taken(u)'
      <4>1. sessions \subseteq Visitors /\ \A u \in sessions : Taken(u)
        BY DEF WalletInv, WalletTypes, Handed
      <4>2. QED
        BY <1>0, <2>4, <4>1 DEF Taken
    <3>6. \A u \in Visitors : Taken(u) => request'[u].wallet = request[u].wallet
      BY <1>0, <2>4
    <3>7. QED
      <4>1. account' = account /\ \A u \in Visitors : Taken(u) => request'[u].wallet = request[u].wallet
        BY <1>0, <3>3, <3>4, <3>5, <3>6 DEF Taken
      <4>2. \A x \in account'.unlocked : \E u \in Visitors : request'[u].wallet = x
        BY <4>1, UnlockersKept
      <4>3. QED
        BY <1>0, <3>3, <3>4, <3>5, <3>6, <4>2 DEF Handed, Working, Taken
  <2>8. QED
    BY <1>0, <2>5, <2>6, <2>7 DEF WalletInv, NobodyInherits
<1>3. ASSUME made + 2 <= MaxWallets, request' = [request EXCEPT ![v].pc = "provision"],
             replenishing' = TRUE, UNCHANGED pool,
             NEW own \in {made + 1, made + 2}, made' = own,
             NEW j, j = job[Refill] \/ (own = made + 2 /\ j = NewJob(made + 1)),
             job' = [job EXCEPT ![v] = NewJob(own), ![Refill] = j]
      PROVE  WalletInv'
  <2>1. /\ request' \in [Visitors -> RequestRecords]
        /\ \A u \in Visitors : /\ request'[u].wallet = request[u].wallet
                               /\ u # v => request'[u] = request[u]
        /\ request'[v].pc = "provision"
    BY <1>0, <1>3, RequestGoes DEF RequestPcs
  <2>2. own \in Wallets /\ made + 1 \in Wallets
    BY <1>0, <1>3 DEF Wallets
  <2>3. NewJob(own) \in Jobs /\ NewJob(own).pc = "create" /\ NewJob(own).wallet = own
    BY <2>2, NewJobs
  <2>4. /\ NewJob(made + 1) \in Jobs /\ NewJob(made + 1).pc = "create"
        /\ NewJob(made + 1).wallet = made + 1
    BY <2>2, NewJobs
  <2>5. /\ job' \in [Workers -> Jobs] /\ job'[v] = NewJob(own) /\ job'[Refill] = j
        /\ \A w \in Workers \ {v, Refill} : job'[w] = job[w]
    BY <1>0, <1>3, <2>3, <2>4 DEF WalletInv, WalletTypes
  <2>6. made' \in made + 1..MaxWallets /\ own \in made + 1..made'
        /\ (own = made + 2 => made + 1 \in made + 1..made')
    BY <1>0, <1>3
  <2>7. \A w \in Workers : job'[w] = job[w] => ~StartsJob(w)
    BY OldJobs
  <2>8. /\ StartsJob(v)
        /\ job'[Refill] = job[Refill] \/ (StartsJob(Refill) /\ job'[Refill].wallet # job'[v].wallet)
    <3>1. StartsJob(v) /\ job'[v].wallet = own
      BY <2>3, <2>5, <2>6 DEF StartsJob
    <3>2. CASE j = job[Refill]
      BY <2>5, <3>1, <3>2
    <3>3. CASE own = made + 2 /\ j = NewJob(made + 1)
      <4>1. job'[Refill].pc = "create" /\ job'[Refill].wallet = made + 1
        BY <2>4, <2>5, <3>3
      <4>2. made + 1 # own
        BY <1>0, <3>3
      <4>3. QED
        BY <2>6, <3>1, <3>3, <4>1, <4>2 DEF StartsJob
    <3>4. QED
      BY <1>3, <3>2, <3>3
  <2>9. WalletTypes'
    <3>1. made' \in 0..MaxWallets
      BY <1>0, <2>6
    <3>2. QED
      BY <1>0, <1>3, <2>1, <2>5, <3>1 DEF WalletInv, WalletTypes
  <2>10. Known' /\ Apart' /\ UnlockersPaid' /\ Funded'
    <3>1. \A w \in Workers : job'[w] = job[w] \/ StartsJob(w)
      BY <2>5, <2>8
    <3>2. \A w, x \in Workers : StartsJob(w) /\ StartsJob(x) /\ w # x => job'[w].wallet # job'[x].wallet
      BY <2>5, <2>7, <2>8
    <3>3. \A u \in Visitors : ~TakesFromPool(u)
      BY <1>3 DEF TakesFromPool
    <3>4. Distinct(pool') /\ Elems(pool') \subseteq Elems(pool)
      BY <1>3 DEF WalletInv, Apart
    <3>5. made' \in made..MaxWallets
      BY <1>0, <2>6
    <3>6. QED
      BY <1>0, <2>1, <2>9, <3>1, <3>2, <3>3, <3>4, <3>5, Handover
  <2>11. Handed'
    <3>1. \A u \in Visitors : u \in Workers \ {Refill}
      BY PlaygroundConstants DEF Workers, Refill
    <3>2. QED
      <4>1. \A u \in Visitors : Working(u)' => request'[u].pc = "provision"
        BY <2>1, <2>5, <3>1 DEF WalletInv, Handed, Working
      <4>2. \A u \in Visitors : Taken(u)' <=> Taken(u)
        BY <2>1 DEF Taken
      <4>3. \A u \in Visitors : /\ request'[u].pc \in {"idle", "provision"} => ~Taken(u)
                                /\ request'[u].pc = "connect" => Taken(u)
        BY <1>0, <2>1 DEF WalletInv, Handed
      <4>4. sessions' \subseteq Visitors /\ \A u \in sessions' : Taken(u)
        BY <1>0 DEF WalletInv, WalletTypes, Handed
      <4>5. QED
        <5>1. account' = account /\ \A u \in Visitors : Taken(u) => request'[u].wallet = request[u].wallet
          BY <1>0, <2>1, <4>1, <4>2, <4>3, <4>4 DEF Taken
        <5>2. \A x \in account'.unlocked : \E u \in Visitors : request'[u].wallet = x
          BY <5>1, UnlockersKept
        <5>3. QED
          BY <1>0, <2>1, <4>1, <4>2, <4>3, <4>4, <5>2 DEF Handed, Working, Taken
  <2>12. QED
    BY <1>0, <2>9, <2>10, <2>11 DEF WalletInv, NobodyInherits
<1>4. CASE AcquireWallet(v) /\ pool = <<>>
  <2> DEFINE own == IF ~replenishing THEN made + 2 ELSE made + 1
             j == IF ~replenishing THEN NewJob(made + 1) ELSE job[Refill]
  <2>1. own \in {made + 1, made + 2} /\ (j = job[Refill] \/ (own = made + 2 /\ j = NewJob(made + 1)))
    OBVIOUS
  <2>2. /\ made + 2 <= MaxWallets /\ request' = [request EXCEPT ![v].pc = "provision"]
        /\ replenishing' = TRUE /\ UNCHANGED pool /\ made' = own
        /\ job' = [job EXCEPT ![v] = NewJob(own), ![Refill] = j]
    BY <1>0, <1>4 DEF AcquireWallet
  <2> HIDE DEF own, j
  <2>3. QED
    BY <1>3, <2>1, <2>2
<1>5. QED
  BY <1>1, <1>2, <1>4 DEF StartSession, AcquireWallet

FaucetRecords == [seq : Nat, funds : Nat, paid : [Wallets -> Nat]]

\* The job of w becomes j, with the wallet it has, or ends without one.
LEMMA JobStep ==
  ASSUME WalletInv, NEW w \in Workers, Working(w), NEW j \in Jobs,
         job' = [job EXCEPT ![w] = j], j.pc = "idle" \/ j.wallet = job[w].wallet,
         UNCHANGED <<pool, made, account, sessions>>, replenishing' \in BOOLEAN,
         faucet' \in FaucetRecords,
         \A x \in Wallets : faucet.paid[x] > 0 => faucet'.paid[x] > 0,
         j.pc = "answer" => job[w].pc = "answer" \/ faucet'.paid[job[w].wallet] > 0,
         \/ UNCHANGED request
         \/ w \in Visitors /\ j.pc = "idle" /\ request' = [request EXCEPT ![w].pc = "over"]
  PROVE  WalletInv'
<1>1. /\ job' \in [Workers -> Jobs] /\ job'[w] = j
      /\ \A x \in Workers \ {w} : job'[x] = job[x]
  BY DEF WalletInv, WalletTypes
<1>2. /\ request' \in [Visitors -> RequestRecords]
      /\ \A v \in Visitors : /\ request'[v].wallet = request[v].wallet
                             /\ v # w => request'[v] = request[v]
      /\ \/ UNCHANGED request
         \/ w \in Visitors /\ j.pc = "idle" /\ request'[w].pc = "over"
  <2>1. request \in [Visitors -> RequestRecords] /\ "over" \in RequestPcs
    BY DEF WalletInv, WalletTypes, RequestPcs
  <2>2. CASE UNCHANGED request
    BY <2>1, <2>2
  <2>3. CASE w \in Visitors /\ j.pc = "idle" /\ request' = [request EXCEPT ![w].pc = "over"]
    BY <2>1, <2>3, RequestGoes
  <2>4. QED
    BY <2>2, <2>3
<1>3. WalletTypes'
  BY <1>1, <1>2 DEF WalletInv, WalletTypes, FaucetRecords
<1>4. Known' /\ Apart' /\ UnlockersPaid' /\ Funded'
  <2>1. \A x \in Workers : Working(x)' => Working(x) /\ job'[x].wallet = job[x].wallet
    BY <1>1 DEF Working
  <2>2. \A x \in Workers : job'[x].pc = "answer" =>
          job[x].pc = "answer" \/ faucet'.paid[job[x].wallet] > 0
    BY <1>1
  <2>3. QED
    BY <1>2, <2>1, <2>2, PlacesKept
<1>5. Handed'
  <2>1. \A v \in Visitors : Working(v)' => request'[v].pc = "provision"
    BY <1>1, <1>2 DEF WalletInv, Handed, Working, Workers
  <2>2. \A v \in Visitors : Taken(v)' <=> Taken(v)
    BY <1>2 DEF Taken
  <2>3. \A v \in Visitors : /\ request'[v].pc \in {"idle", "provision"} => ~Taken(v)
                            /\ request'[v].pc = "connect" => Taken(v)
    BY <1>2 DEF WalletInv, Handed
  <2>4. sessions' \subseteq Visitors /\ \A v \in sessions' : Taken(v)
    BY DEF WalletInv, WalletTypes, Handed
  <2>5. QED
    <3>1. account' = account /\ \A u \in Visitors : Taken(u) => request'[u].wallet = request[u].wallet
      BY <1>2, <2>1, <2>2, <2>3, <2>4 DEF Taken
    <3>2. \A x \in account'.unlocked : \E u \in Visitors : request'[u].wallet = x
      BY <3>1, UnlockersKept
    <3>3. QED
      BY <1>2, <2>1, <2>2, <2>3, <2>4, <3>2 DEF Handed, Working, Taken
<1>6. QED
  BY <1>3, <1>4, <1>5 DEF WalletInv, NobodyInherits

\* A job with one field or two changed is a job.
LEMMA JobFields ==
  ASSUME NEW j \in Jobs, NEW pc \in JobPcs
  PROVE  /\ [j EXCEPT !.pc = pc] \in Jobs /\ [j EXCEPT !.pc = pc].wallet = j.wallet
         /\ [j EXCEPT !.pc = pc].pc = pc
BY DEF Jobs

\* An attempt that failed.
LEMMA RetryStep ==
  ASSUME WalletInv, NEW w \in Workers, Working(w), NEW pc \in {"create", "cap"}, Retry(w, pc),
         UNCHANGED <<faucet, account, sessions>>
  PROVE  WalletInv'
<1>1. /\ job \in [Workers -> Jobs] /\ job[w] \in Jobs /\ job[w].tries \in Nat
      /\ faucet \in FaucetRecords /\ replenishing \in BOOLEAN
  BY DEF WalletInv, WalletTypes, FaucetRecords, Jobs
<1>2. CASE /\ job' = [job EXCEPT ![w].pc = pc, ![w].tries = @ + 1]
           /\ UNCHANGED <<pool, replenishing, made, request>>
  <2> DEFINE j == [job[w] EXCEPT !.pc = pc, !.tries = job[w].tries + 1]
  <2>1. pc \in JobPcs /\ job[w].tries + 1 \in Nat /\ pc # "answer"
    BY <1>1 DEF JobPcs
  <2>2. j \in Jobs /\ j.wallet = job[w].wallet /\ j.pc = pc
    BY <1>1, <2>1 DEF Jobs
  <2>3. job' = [job EXCEPT ![w] = j]
    BY <1>1, <1>2 DEF Jobs
  <2> HIDE DEF j
  <2>4. QED
    BY <1>1, <1>2, <2>1, <2>2, <2>3, JobStep
<1>3. CASE ProvisionFails(w)
  <2>1. NoJob \in Jobs /\ NoJob.pc = "idle"
    BY DEF NoJob, Jobs, JobPcs
  <2>2. replenishing' \in BOOLEAN
    BY <1>1, <1>3 DEF ProvisionFails
  <2>3. \/ UNCHANGED request
        \/ w \in Visitors /\ request' = [request EXCEPT ![w].pc = "over"]
    BY <1>3 DEF ProvisionFails, Workers
  <2>4. job' = [job EXCEPT ![w] = NoJob] /\ UNCHANGED <<pool, made>>
    BY <1>3 DEF ProvisionFails
  <2>5. QED
    BY <1>1, <2>1, <2>2, <2>3, <2>4, JobStep
<1>4. QED
  BY <1>2, <1>3 DEF Retry

\* The steps of a job until its payment is submitted.
LEMMA AttemptStep ==
  WalletInv /\ (\E w \in Workers : CreateAccount(w) \/ CheckCap(w) \/ LoadFaucet(w) \/ SubmitPayment(w))
    => WalletInv'
<1> SUFFICES ASSUME WalletInv, NEW w \in Workers,
                    CreateAccount(w) \/ CheckCap(w) \/ LoadFaucet(w) \/ SubmitPayment(w)
             PROVE  WalletInv'
  OBVIOUS
<1>1. /\ job \in [Workers -> Jobs] /\ job[w] \in Jobs /\ Working(w) /\ job[w].wallet \in Wallets
      /\ faucet \in FaucetRecords /\ replenishing \in BOOLEAN /\ UNCHANGED <<account, sessions>>
  BY DEF WalletInv, WalletTypes, FaucetRecords, Known, Working, CreateAccount, CheckCap, LoadFaucet,
     SubmitPayment, turnVars
<1>2. ASSUME UNCHANGED <<pool, replenishing, made, request, faucet>>,
             NEW j \in Jobs, job' = [job EXCEPT ![w] = j], j.wallet = job[w].wallet, j.pc # "answer"
      PROVE  WalletInv'
  BY <1>1, <1>2, JobStep
<1>3. CASE CreateAccount(w)
  <2>1. UNCHANGED faucet
    BY <1>3 DEF CreateAccount, faucetVars
  <2>2. CASE /\ job' = [job EXCEPT ![w].pc = "cap", ![w].tries = 0]
             /\ UNCHANGED <<pool, replenishing, made, request>>
    <3> DEFINE j == [job[w] EXCEPT !.pc = "cap", !.tries = 0]
    <3>1. j \in Jobs /\ j.wallet = job[w].wallet /\ j.pc = "cap"
      <4>1. "cap" \in JobPcs /\ 0 \in Nat
        BY DEF JobPcs
      <4>2. QED
        BY <1>1, <4>1 DEF Jobs
    <3>2. job' = [job EXCEPT ![w] = j]
      BY <1>1, <2>2 DEF Jobs
    <3> HIDE DEF j
    <3>3. QED
      BY <1>2, <2>1, <2>2, <3>1, <3>2
  <2>3. CASE Retry(w, "create")
    BY <1>1, <2>1, <2>3, RetryStep
  <2>4. QED
    BY <1>3, <2>2, <2>3 DEF CreateAccount
<1>4. ASSUME NEW pc \in JobPcs \ {"answer"}, JobGoto(w, pc), UNCHANGED faucet
      PROVE  WalletInv'
  <2> DEFINE j == [job[w] EXCEPT !.pc = pc]
  <2>1. j \in Jobs /\ j.wallet = job[w].wallet /\ j.pc = pc
    BY <1>1, JobFields
  <2>2. job' = [job EXCEPT ![w] = j] /\ UNCHANGED <<pool, replenishing, made, request>>
    BY <1>1, <1>4 DEF JobGoto
  <2> HIDE DEF j
  <2>3. QED
    BY <1>2, <1>4, <2>1, <2>2
<1>5. CASE CheckCap(w)
  <2>1. UNCHANGED faucet /\ (Retry(w, "cap") \/ JobGoto(w, "account"))
    BY <1>5 DEF CheckCap
  <2>2. QED
    BY <1>1, <1>4, <2>1, RetryStep DEF JobPcs
<1>6. CASE LoadFaucet(w)
  <2>1. UNCHANGED faucet
    BY <1>6 DEF LoadFaucet, faucetVars
  <2>2. CASE /\ job' = [job EXCEPT ![w].pc = "submit", ![w].seq = faucet.seq]
             /\ UNCHANGED <<pool, replenishing, made, request>>
    <3> DEFINE j == [job[w] EXCEPT !.pc = "submit", !.seq = faucet.seq]
    <3>1. j \in Jobs /\ j.wallet = job[w].wallet /\ j.pc = "submit"
      <4>1. "submit" \in JobPcs /\ faucet.seq \in Nat
        BY <1>1 DEF JobPcs, FaucetRecords
      <4>2. QED
        BY <1>1, <4>1 DEF Jobs
    <3>2. job' = [job EXCEPT ![w] = j]
      BY <1>1, <2>2 DEF Jobs
    <3> HIDE DEF j
    <3>3. QED
      BY <1>2, <2>1, <2>2, <3>1, <3>2
  <2>3. CASE Retry(w, "cap")
    BY <1>1, <2>1, <2>3, RetryStep
  <2>4. QED
    BY <1>6, <2>2, <2>3 DEF LoadFaucet
<1>7. CASE SubmitPayment(w)
  <2>1. CASE Retry(w, "cap") /\ UNCHANGED faucet
    BY <1>1, <2>1, RetryStep
  <2>2. CASE /\ faucet' = [seq |-> faucet.seq + 1, funds |-> faucet.funds - 1,
                           paid |-> [faucet.paid EXCEPT ![job[w].wallet] = @ + 1]]
             /\ faucet.funds > 0
             /\ JobGoto(w, "answer")
    <3> DEFINE j == [job[w] EXCEPT !.pc = "answer"]
               p == [faucet.paid EXCEPT ![job[w].wallet] = @ + 1]
    <3>1. j \in Jobs /\ j.wallet = job[w].wallet /\ j.pc = "answer"
      BY <1>1, JobFields DEF JobPcs
    <3>2. job' = [job EXCEPT ![w] = j] /\ UNCHANGED <<pool, replenishing, made, request>>
      BY <1>1, <2>2 DEF JobGoto
    <3>3. /\ faucet.paid \in [Wallets -> Nat] /\ faucet.seq \in Nat /\ faucet.funds \in Nat
      BY <1>1 DEF FaucetRecords
    <3>4. /\ p \in [Wallets -> Nat] /\ p[job[w].wallet] > 0
          /\ \A x \in Wallets : faucet.paid[x] > 0 => p[x] > 0
      BY <1>1, <3>3
    <3> HIDE DEF p, j
    <3>5. faucet' = [seq |-> faucet.seq + 1, funds |-> faucet.funds - 1, paid |-> p]
      BY <2>2 DEF p
    <3>6. faucet' \in FaucetRecords /\ faucet'.paid = p
      <4>1. faucet.seq + 1 \in Nat /\ faucet.funds - 1 \in Nat
        BY <2>2, <3>3
      <4>2. QED
        BY <3>4, <3>5, <4>1 DEF FaucetRecords
    <3>7. QED
      BY <1>1, <3>1, <3>2, <3>4, <3>6, JobStep
  <2>3. QED
    BY <1>7, <2>1, <2>2 DEF SubmitPayment
<1>8. QED
  BY <1>3, <1>5, <1>6, <1>7

\* The refill puts a wallet that is paid into the pool, and may go on with a new one.
LEMMA DepositStep ==
  ASSUME WalletInv, job[Refill].pc = "answer", Provisioned(Refill),
         UNCHANGED <<faucet, account, sessions>>
  PROVE  WalletInv'
<1> DEFINE x == job[Refill].wallet
<1>0. /\ Refill \in Workers /\ job \in [Workers -> Jobs] /\ Working(Refill)
      /\ x \in Wallets /\ x <= made /\ faucet.paid[x] > 0 /\ x \notin Elems(pool)
      /\ made \in 0..MaxWallets /\ MaxWallets \in Nat /\ None \notin Wallets
      /\ \A v \in Visitors : v \in Workers \ {Refill}
  <2>1. Refill \in Workers /\ \A v \in Visitors : v \in Workers \ {Refill}
    BY PlaygroundConstants DEF Workers, Refill
  <2>2. MaxWallets \in Nat /\ None \notin Wallets
    BY PlaygroundConstants DEF Wallets
  <2>3. QED
    BY <2>1, <2>2 DEF WalletInv, WalletTypes, Known, Apart, Funded, Working
<1>1. PICK j \in Jobs : /\ job' = [job EXCEPT ![Refill] = j]
                        /\ \/ j.pc = "idle" /\ made' = made
                           \/ /\ j.pc = "create" /\ j.wallet = made + 1
                              /\ made' = made + 1 /\ made < MaxWallets
  <2>1. NoJob \in Jobs /\ NoJob.pc = "idle"
    BY DEF NoJob, Jobs, JobPcs
  <2>2. made < MaxWallets => /\ NewJob(made + 1) \in Jobs /\ NewJob(made + 1).pc = "create"
                             /\ NewJob(made + 1).wallet = made + 1
    <3>1. made < MaxWallets => made + 1 \in Wallets
      BY <1>0 DEF Wallets
    <3>2. QED
      BY <3>1, NewJobs
  <2>3. QED
    BY <2>1, <2>2 DEF Provisioned
<1>2. /\ pool' = Append(pool, x) /\ replenishing' \in BOOLEAN /\ UNCHANGED request
  BY DEF Provisioned, Refill
<1>3. /\ pool' \in Seq(Wallets) /\ Distinct(pool') /\ Elems(pool') = Elems(pool) \cup {x}
  BY <1>0, <1>2, Appends DEF WalletInv, WalletTypes, Apart
<1> HIDE DEF x
<1>4. /\ job' \in [Workers -> Jobs] /\ job'[Refill] = j
      /\ \A w \in Workers \ {Refill} : job'[w] = job[w]
  BY <1>0, <1>1
<1>5. made' \in made..MaxWallets
  BY <1>0, <1>1
<1>6. WalletTypes'
  BY <1>0, <1>2, <1>3, <1>4, <1>5 DEF WalletInv, WalletTypes
<1>7. /\ \A v \in Visitors : Taken(v) => request[v].wallet \in Wallets /\ request[v].wallet <= made
      /\ \A w \in Workers : Working(w) => job[w].wallet \in Wallets /\ job[w].wallet <= made
      /\ \A e \in Elems(pool) : e \in Wallets /\ e <= made
  BY DEF WalletInv, WalletTypes, Known, RequestRecords, Taken, Elems
<1>8. \A w \in Workers : Working(w)' =>
        \/ w # Refill /\ Working(w) /\ job'[w] = job[w]
        \/ /\ w = Refill /\ job'[w].wallet > made /\ job'[w].wallet <= made'
           /\ job'[w].wallet \in Wallets
  BY <1>0, <1>1, <1>4 DEF Working, Wallets
<1>9. Known'
  <2>1. \A e \in Elems(pool') : e <= made'
    BY <1>0, <1>3, <1>5, <1>7 DEF Wallets
  <2>2. \A v \in Visitors : Taken(v)' => request'[v].wallet <= made'
    BY <1>0, <1>2, <1>5, <1>7 DEF Taken, Wallets
  <2>3. \A w \in Workers : Working(w)' => job'[w].wallet \in Wallets /\ job'[w].wallet <= made'
    BY <1>0, <1>5, <1>7, <1>8 DEF Wallets
  <2>4. QED
    BY <2>1, <2>2, <2>3 DEF Known, Elems
<1>10. Apart'
  <2>1. \A w \in Workers : Working(w)' => job'[w].wallet \notin Elems(pool')
    <3>1. \A w \in Workers \ {Refill} : Working(w) => job[w].wallet # x
      BY <1>0 DEF WalletInv, Apart, x
    <3>2. \A e \in Elems(pool') : e \in Wallets /\ e <= made
      BY <1>0, <1>3, <1>7
    <3>3. \A y \in Wallets : ~(y > made /\ y <= made)
      BY <1>0 DEF Wallets
    <3>4. QED
      BY <1>3, <1>8, <3>1, <3>2, <3>3 DEF WalletInv, Apart
  <2>2. \A v \in Visitors : request'[v].wallet \notin Elems(pool')
    BY <1>0, <1>2, <1>3 DEF WalletInv, Apart, x
  <2>3. \A w, y \in Workers : Working(w)' /\ Working(y)' /\ job'[w].wallet = job'[y].wallet => w = y
    BY <1>0, <1>7, <1>8 DEF WalletInv, Apart, Wallets
  <2>4. \A u, v \in Visitors : Taken(u)' /\ request'[u].wallet = request'[v].wallet => u = v
    BY <1>2 DEF WalletInv, Apart, Taken
  <2>5. \A w \in Workers, v \in Visitors : Working(w)' => job'[w].wallet # request'[v].wallet
    <3> SUFFICES ASSUME NEW w \in Workers, NEW v \in Visitors, Working(w)'
                 PROVE  job'[w].wallet # request[v].wallet
      BY <1>2
    <3>1. CASE Working(w) /\ job'[w] = job[w]
      BY <3>1 DEF WalletInv, Apart
    <3>2. CASE job'[w].wallet > made /\ job'[w].wallet \in Wallets
      BY <1>0, <1>7, <3>2 DEF Taken, Wallets
    <3>3. QED
      BY <1>8, <3>1, <3>2
  <2>6. QED
    BY <1>3, <2>1, <2>2, <2>3, <2>4, <2>5 DEF Apart, Elems, Working, Taken
<1>11. UnlockersPaid'
  BY <1>2 DEF WalletInv, UnlockersPaid, Taken
<1>12. Funded'
  <2>1. \A w \in Workers : job'[w].pc = "answer" => job'[w] = job[w]
    BY <1>1, <1>4
  <2>2. QED
    BY <1>0, <1>2, <1>3, <2>1 DEF WalletInv, Funded, Elems, Taken
<1>13. Handed'
  BY <1>0, <1>2, <1>4 DEF WalletInv, Handed, Working, Taken
<1>14. QED
  BY <1>6, <1>9, <1>10, <1>11, <1>12, <1>13 DEF WalletInv, NobodyInherits

\* A session gets the wallet that was provisioned for it.
LEMMA DeliverStep ==
  ASSUME WalletInv, NEW v \in Visitors, job[v].pc = "answer", Provisioned(v),
         UNCHANGED <<faucet, account, sessions>>
  PROVE  WalletInv'
<1> DEFINE x == job[v].wallet
<1>0. /\ v \in Workers /\ v # Refill /\ job \in [Workers -> Jobs] /\ Working(v)
      /\ x \in Wallets /\ x <= made /\ faucet.paid[x] > 0 /\ x \notin Elems(pool)
      /\ ~Taken(v) /\ x # None
      /\ \A u \in Visitors : request[u].wallet # x
  <2>1. v \in Workers /\ v # Refill /\ None \notin Wallets
    BY PlaygroundConstants DEF Workers, Refill, Wallets
  <2>2. QED
    BY <2>1 DEF WalletInv, WalletTypes, Known, Apart, Handed, Funded, Working
<1>1. /\ job' = [job EXCEPT ![v] = NoJob]
      /\ request' = [request EXCEPT ![v] = [pc |-> "connect", wallet |-> x]]
      /\ UNCHANGED <<pool, replenishing, made>>
  BY <1>0 DEF Provisioned
<1> HIDE DEF x
<1>2. /\ job' \in [Workers -> Jobs] /\ job'[v].pc = "idle"
      /\ \A w \in Workers \ {v} : job'[w] = job[w]
  <2>1. NoJob \in Jobs /\ NoJob.pc = "idle"
    BY DEF NoJob, Jobs, JobPcs
  <2>2. QED
    BY <1>0, <1>1, <2>1
<1>3. /\ request' \in [Visitors -> RequestRecords]
      /\ request'[v].pc = "connect" /\ request'[v].wallet = x
      /\ \A u \in Visitors \ {v} : request'[u] = request[u]
  BY <1>0, <1>1 DEF WalletInv, WalletTypes, RequestRecords, RequestPcs
<1>4. WalletTypes'
  BY <1>1, <1>2, <1>3 DEF WalletInv, WalletTypes
<1>5. Known'
  <2>1. \A w \in Workers : Working(w)' => Working(w) /\ job'[w] = job[w]
    BY <1>2 DEF Working
  <2>2. QED
    BY <1>0, <1>1, <1>3, <2>1 DEF WalletInv, Known, Elems, Taken
<1>6. Apart'
  <2>1. \A w \in Workers : Working(w)' => w # v /\ Working(w) /\ job'[w] = job[w]
    BY <1>2 DEF Working
  <2>2. \A w \in Workers \ {v} : Working(w) => job[w].wallet # x
    BY <1>0 DEF WalletInv, Apart, x
  <2>3. \A w \in Workers : Working(w)' => job'[w].wallet \notin Elems(pool)
    BY <2>1 DEF WalletInv, Apart
  <2>4. \A u \in Visitors : request'[u].wallet \notin Elems(pool)
    BY <1>0, <1>3 DEF WalletInv, Apart
  <2>5. \A w, y \in Workers : Working(w)' /\ Working(y)' /\ job'[w].wallet = job'[y].wallet => w = y
    BY <2>1 DEF WalletInv, Apart
  <2>6. \A t, u \in Visitors : Taken(t)' /\ request'[t].wallet = request'[u].wallet => t = u
    BY <1>0, <1>3 DEF WalletInv, Apart, Taken
  <2>7. \A w \in Workers, u \in Visitors : Working(w)' => job'[w].wallet # request'[u].wallet
    BY <1>0, <1>3, <2>1, <2>2 DEF WalletInv, Apart
  <2>8. QED
    BY <1>1, <2>3, <2>4, <2>5, <2>6, <2>7 DEF WalletInv, Apart, Elems, Working, Taken
<1>7. UnlockersPaid'
  <2>1. x \notin account.unlocked
    BY <1>0 DEF WalletInv, Handed
  <2>2. \A u \in account.asked : request'[u].wallet # None
    BY <1>0, <1>3 DEF WalletInv, WalletTypes, Accounts, UnlockersPaid, Taken
  <2>3. QED
    BY <1>1, <1>3, <2>1, <2>2 DEF WalletInv, UnlockersPaid, Taken
<1>8. Funded'
  BY <1>0, <1>1, <1>2, <1>3 DEF WalletInv, Funded, Elems, Taken
<1>9. Handed'
  <2>1. \A u \in Visitors : Working(u)' => request'[u].pc = "provision"
    BY <1>2, <1>3 DEF WalletInv, Handed, Working, Workers
  <2>2. \A u \in Visitors : /\ request'[u].pc \in {"idle", "provision"} => ~Taken(u)'
                            /\ request'[u].pc = "connect" => Taken(u)'
    BY <1>0, <1>3 DEF WalletInv, Handed, Taken
  <2>3. sessions' \subseteq Visitors /\ \A u \in sessions' : Taken(u)'
    BY <1>0, <1>3 DEF WalletInv, WalletTypes, Handed, Taken
  <2>4. \A u \in Visitors : Taken(u) => request'[u].wallet = request[u].wallet
    BY <1>0, <1>3
  <2>5. QED
    <3>1. account' = account /\ \A u \in Visitors : Taken(u) => request'[u].wallet = request[u].wallet
      BY <2>1, <2>2, <2>3, <2>4 DEF Taken
    <3>2. \A y \in account'.unlocked : \E u \in Visitors : request'[u].wallet = y
      BY <3>1, UnlockersKept
    <3>3. QED
      BY <2>1, <2>2, <2>3, <2>4, <3>2 DEF Handed, Working, Taken
<1>10. QED
  BY <1>4, <1>5, <1>6, <1>7, <1>8, <1>9 DEF WalletInv, NobodyInherits

\* The answer to a payment, or its loss.
LEMMA AnswerStep == WalletInv /\ (\E w \in Workers : PaymentAnswered(w)) => WalletInv'
<1> SUFFICES ASSUME WalletInv, NEW w \in Workers, PaymentAnswered(w)
             PROVE  WalletInv'
  OBVIOUS
<1>1. job[w].pc = "answer" /\ Working(w) /\ UNCHANGED <<faucet, account, sessions>>
  BY DEF PaymentAnswered, Working, turnVars
<1>2. CASE Retry(w, "cap")
  BY <1>1, <1>2, RetryStep
<1>3. CASE Provisioned(w) /\ w = Refill
  BY <1>1, <1>3, DepositStep
<1>4. CASE Provisioned(w) /\ w \in Visitors
  BY <1>1, <1>4, DeliverStep
<1>5. QED
  BY <1>2, <1>3, <1>4 DEF PaymentAnswered, Workers

\* A session is connected, or is not.
LEMMA ConnectStep == WalletInv /\ (\E v \in Visitors : Connect(v)) => WalletInv'
<1> SUFFICES ASSUME WalletInv, NEW v \in Visitors, Connect(v)
             PROVE  WalletInv'
  OBVIOUS
<1>1. /\ UNCHANGED <<pool, replenishing, made, job, faucet, account>>
      /\ request[v].pc = "connect" /\ Taken(v) /\ ~Working(v)
      /\ sessions' \subseteq sessions \cup {v}
  BY DEF Connect, walletVars, faucetVars, turnVars, WalletInv, Handed, Workers
<1>2. PICK pc \in {"open", "over"} : request' = [request EXCEPT ![v].pc = pc]
  BY DEF Connect
<1>3. /\ request' \in [Visitors -> RequestRecords] /\ request'[v].pc = pc
      /\ \A u \in Visitors : /\ request'[u].wallet = request[u].wallet
                             /\ u # v => request'[u] = request[u]
  <2>1. request \in [Visitors -> RequestRecords] /\ pc \in RequestPcs
    BY DEF WalletInv, WalletTypes, RequestPcs
  <2>2. QED
    BY <1>2, <2>1, RequestGoes
<1>4. WalletTypes'
  BY <1>1, <1>3 DEF WalletInv, WalletTypes
<1>5. Known' /\ Apart' /\ UnlockersPaid' /\ Funded'
  <2>1. \A w \in Workers : Working(w)' => Working(w) /\ job'[w].wallet = job[w].wallet
    BY <1>1 DEF Working
  <2>2. QED
    BY <1>1, <1>3, <2>1, PlacesKept
<1>6. Handed'
  <2>1. \A u \in Visitors : Working(u)' => request'[u].pc = "provision"
    BY <1>1, <1>3 DEF WalletInv, Handed, Working
  <2>2. \A u \in Visitors : Taken(u)' <=> Taken(u)
    BY <1>3 DEF Taken
  <2>3. \A u \in Visitors : /\ request'[u].pc \in {"idle", "provision"} => ~Taken(u)
                            /\ request'[u].pc = "connect" => Taken(u)
    BY <1>3 DEF WalletInv, Handed
  <2>4. sessions' \subseteq Visitors /\ \A u \in sessions' : Taken(u)
    BY <1>1 DEF WalletInv, WalletTypes, Handed
  <2>5. QED
    <3>1. account' = account /\ \A u \in Visitors : Taken(u) => request'[u].wallet = request[u].wallet
      BY <1>1, <1>3, <2>1, <2>2, <2>3, <2>4 DEF Taken
    <3>2. \A x \in account'.unlocked : \E u \in Visitors : request'[u].wallet = x
      BY <3>1, UnlockersKept
    <3>3. (\A u \in Visitors : Working(u) => request[u].pc = "provision")'
      BY <2>1
    <3>4. (\A u \in Visitors : request[u].pc \in {"idle", "provision"} => ~Taken(u))'
      BY <2>2, <2>3
    <3>5. (\A u \in Visitors : request[u].pc = "connect" => Taken(u))'
      BY <2>2, <2>3
    <3>6. (\A u \in sessions : Taken(u))'
      BY <2>2, <2>4
    <3>7. QED
      BY <3>2, <3>3, <3>4, <3>5, <3>6 DEF Handed
<1>7. QED
  BY <1>1, <1>4, <1>5, <1>6 DEF WalletInv, NobodyInherits

\* The MCP server is asked to pay by an open session, which holds a wallet.
LEMMA AskStep == WalletInv /\ TurnInv /\ (\E k \in Chats : CallPay(k)) => WalletInv'
<1> SUFFICES ASSUME WalletInv, TurnInv, NEW k \in Chats, CallPay(k)
             PROVE  WalletInv'
  OBVIOUS
<1> DEFINE askers == {turn[k].of} \cap sessions
<1>1. /\ UNCHANGED <<pool, replenishing, made, job, faucet, request, sessions>>
      /\ account' = [account EXCEPT !.asked = @ \cup askers]
  BY DEF CallPay, walletVars, faucetVars, sessionVars
<1>2. account \in Accounts /\ askers \subseteq Visitors /\ \A v \in askers : Taken(v)
  BY DEF WalletInv, WalletTypes, Handed
<1> HIDE DEF askers
<1>3. /\ account' \in Accounts /\ account'.asked = account.asked \cup askers
      /\ account'.unlocked = account.unlocked /\ account'.payers = account.payers
      /\ account'.served = account.served
  BY <1>1, <1>2 DEF Accounts
<1>4. WalletTypes' /\ Known' /\ Apart' /\ Funded'
  BY <1>1, <1>3 DEF WalletInv, WalletTypes, Known, Apart, Funded, Elems, Working, Taken
<1>5. Handed'
  BY <1>1, <1>3 DEF WalletInv, Handed, Working, Taken
<1>6. UnlockersPaid' /\ NobodyInherits'
  BY <1>1, <1>2, <1>3 DEF WalletInv, UnlockersPaid, NobodyInherits, Taken
<1>7. QED
  BY <1>4, <1>5, <1>6 DEF WalletInv

\* The MCP server pays with the wallet that it was given, which no other session holds.
LEMMA McpStep == WalletInv /\ (\E v \in Visitors : CallMcp(v)) => WalletInv'
<1> SUFFICES ASSUME WalletInv, NEW v \in Visitors, CallMcp(v)
             PROVE  WalletInv'
  OBVIOUS
<1> DEFINE w == request[v].wallet
           paying == IF w \in account.unlocked THEN {} ELSE {v}
<1>1. /\ UNCHANGED <<pool, replenishing, made, job, faucet, request, sessions>>
      /\ v \in account.asked /\ Taken(v) /\ account \in Accounts
      /\ w \in Wallets /\ w # None
  BY DEF CallMcp, walletVars, faucetVars, sessionVars, WalletInv, WalletTypes, UnlockersPaid, Taken,
     RequestRecords
<1>2. Known' /\ Apart' /\ Funded'
  BY <1>1 DEF WalletInv, Known, Apart, Funded, Elems, Working, Taken
<1>3. CASE account' = [account EXCEPT !.asked = @ \ {v}]
  <2>1. /\ account' \in Accounts /\ account'.asked \subseteq account.asked
        /\ account'.unlocked = account.unlocked /\ account'.payers = account.payers
        /\ account'.served = account.served
    BY <1>1, <1>3 DEF Accounts
  <2>2. WalletTypes' /\ Handed'
    BY <1>1, <2>1 DEF WalletInv, WalletTypes, Handed, Working, Taken
  <2>3. UnlockersPaid' /\ NobodyInherits'
    BY <1>1, <2>1 DEF WalletInv, UnlockersPaid, NobodyInherits, Taken
  <2>4. QED
    BY <1>2, <2>2, <2>3 DEF WalletInv
<1>4. CASE account' = [[account EXCEPT !.asked = @ \ {v}] EXCEPT
                         !.unlocked = @ \cup {w}, !.payers = @ \cup paying, !.served = @ \cup {v}]
  <2>1. v \in account.payers \cup paying /\ paying \subseteq Visitors
    BY DEF WalletInv, UnlockersPaid
  <2> HIDE DEF w, paying
  <2>2. /\ account'.asked = account.asked \ {v}
        /\ account'.unlocked = account.unlocked \cup {w}
        /\ account'.payers = account.payers \cup paying
        /\ account'.served = account.served \cup {v}
        /\ account' \in Accounts
    BY <1>1, <1>4, <2>1 DEF Accounts
  <2>3. WalletTypes'
    BY <1>1, <2>2 DEF WalletInv, WalletTypes
  <2>4. Handed'
    BY <1>1, <2>2 DEF WalletInv, Handed, Working, Taken, w
  <2>5. UnlockersPaid'
    <3>1. \A u \in Visitors : request[u].wallet = w => u = v
      BY <1>1 DEF WalletInv, Apart, Taken, w
    <3>2. QED
      BY <1>1, <2>1, <2>2, <3>1 DEF WalletInv, UnlockersPaid, Taken
  <2>6. NobodyInherits'
    BY <2>1, <2>2 DEF WalletInv, NobodyInherits
  <2>7. QED
    BY <1>2, <2>3, <2>4, <2>5, <2>6 DEF WalletInv
<1>5. QED
  BY <1>3, <1>4 DEF CallMcp

\* Every step keeps the invariant of the wallets.
LEMMA WalletStep == WalletInv /\ TurnInv /\ [Next]_vars => WalletInv'
<1> SUFFICES ASSUME WalletInv, TurnInv, [Next]_vars
             PROVE  WalletInv'
  OBVIOUS
<1> DEFINE unchanged == UNCHANGED <<pool, replenishing, made, job, faucet, request, sessions, account>>
<1>1. unchanged => WalletInv'
  BY DEF WalletInv, WalletTypes, Known, Apart, Handed, UnlockersPaid, Funded, NobodyInherits,
     Working, Taken, Elems
<1>2. ASSUME NewDay \/ UNCHANGED vars
      PROVE  unchanged
  BY <1>2 DEF NewDay, vars, walletVars, faucetVars, sessionVars, turnVars
<1>3. ASSUME NEW v \in Visitors, StreamEnds(v) \/ LoseStream(v)
      PROVE  unchanged
  BY <1>3 DEF StreamEnds, LoseStream, walletVars, faucetVars, sessionVars
<1>4. ASSUME NEW k \in Chats, \/ Think(k) \/ NoModel(k) \/ CallTool(k) \/ Pay(k) \/ ChatEnds(k)
                              \/ \E v \in Visitors : Chat(k, v)
      PROVE  unchanged
  BY <1>4 DEF Think, NoModel, CallTool, Pay, ChatEnds, Chat, walletVars, faucetVars, sessionVars
<1> HIDE DEF unchanged
<1>5. QED
  BY <1>1, <1>2, <1>3, <1>4, IntervalStep, AttemptStep, AnswerStep, StartStep, ConnectStep, CloseStep,
     AskStep, McpStep DEF Next, Provision, Turn

\* Whoever is served has paid, whichever session had a wallet before.
THEOREM ServedHavePaid == Spec => []NobodyInherits
<1>1. WalletInv => NobodyInherits
  BY DEF WalletInv
<1>2. QED
  BY <1>1, TurnInitial, TurnStep, WalletInitial, WalletStep, PTL DEF Spec

\* A wallet that is handed out, or waits for that in the pool, was paid by the faucet.
THEOREM HandedOutAreFunded == Spec => []WalletsAreFunded
<1>1. WalletInv => WalletsAreFunded
  <2>1. None \notin Wallets
    BY PlaygroundConstants DEF Wallets
  <2>2. QED
    BY <2>1 DEF WalletInv, Funded, WalletsAreFunded, Elems, Taken
<1>2. QED
  BY <1>1, TurnInitial, TurnStep, WalletInitial, WalletStep, PTL DEF Spec

=============================================================================
