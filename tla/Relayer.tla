------------------------------ MODULE Relayer -------------------------------
(***************************************************************************)
(* The payment relayer (services/payment-relayer), single instance: POST   *)
(* /settle and POST /register-creator, the in-memory settleOnce, the FIFO  *)
(* facilitator mutex, the asynchronous submissions made under it, and the  *)
(* part of the Stellar ledger they act on.                                 *)
(*                                                                         *)
(* A run is one execution of the callback given to settleOnce, or of       *)
(* /register-creator.  Its closure is queued on the mutex; the closure     *)
(* makes asynchronous calls (one per step), each of which puts one         *)
(* transaction on the network.  withTimeout abandons the wait for a call,  *)
(* never the call: an abandoned call goes on without the mutex.            *)
(*                                                                         *)
(* Abstractions: time is not counted, a timer may fire whenever what it    *)
(* guards is unresolved; an RPC may fail or lose its answer at any point;  *)
(* the gateway always sends extra.domain with a paywall contract, so a     *)
(* "pooled" settle always distributes.                                     *)
(***************************************************************************)
EXTENDS Naturals, Sequences, FiniteSets

CONSTANTS Payments,           \* client-signed transactions (payloadHash keys)
          Runs,               \* run identifiers: bounds how many runs there are
          Kind,               \* Kind[p]: the route /settle takes for p
          Amount,             \* Amount[p]: what p transfers, in atomic units
          Register,           \* the job of a /register-creator run
          None,               \* the job of a run that has not started
          MaxRegistrations,   \* bound on /register-creator requests
          MaxRestarts         \* bound on restarts of the process

ASSUME KindAssumption == Kind \in [Payments -> {"pooled", "adapter", "presigned"}]
ASSUME AmountAssumption == Amount \in [Payments -> Nat \ {0}]
ASSUME JobAssumption == /\ Register \notin Payments
                        /\ None \notin Payments
                        /\ None # Register
ASSUME BoundAssumption == MaxRegistrations \in Nat /\ MaxRestarts \in Nat

Steps == {"submit", "distribute", "register"}

VARIABLES
  job,          \* job[i]: the payment run i settles, Register, or None
  fn,           \* fn[i]: the promise of the run: "idle", "pending", "ok", "err"
  completed,    \* completedCache: payments whose success is cached
  body,         \* body[i]: the closure on the mutex: the step it awaits
  lockQueue,    \* the mutex: runs in order of run(), its head holds the lock
  call,         \* call[i][s]: where the call of step s of run i has got to
  seqOf,        \* seqOf[i][s]: sequence number its transaction was built with
  tx,           \* tx[i][s]: that transaction on the network
  accountSeq,   \* ledger: sequence of the facilitator account
  landed,       \* ledger: payments whose authorization has been consumed
  pool,         \* ledger: USDC balance of the paywall contract
  answered,     \* payments some caller was told success about
  restarts

relayerVars == <<job, fn, completed, body, lockQueue, answered>>
ledgerVars  == <<accountSeq, landed, pool>>
vars == <<relayerVars, call, seqOf, tx, ledgerVars, restarts>>

Bodies == {"none", "queued", "done"} \cup Steps
Calls  == {"idle", "account", "simulate", "send", "poll", "ok", "err"}
Txs    == {"none", "pending", "applied", "failed", "dropped"}

TypeOK == /\ job \in [Runs -> Payments \cup {Register, None}]
          /\ fn \in [Runs -> {"idle", "pending", "ok", "err"}]
          /\ completed \subseteq Payments
          /\ body \in [Runs -> Bodies]
          /\ lockQueue \in Seq(Runs)
          /\ call \in [Runs -> [Steps -> Calls]]
          /\ seqOf \in [Runs -> [Steps -> Nat]]
          /\ tx \in [Runs -> [Steps -> Txs]]
          /\ accountSeq \in Nat
          /\ landed \subseteq Payments
          /\ pool \in Nat
          /\ answered \subseteq Payments
          /\ restarts \in 0..MaxRestarts

Init == /\ job = [i \in Runs |-> None]
        /\ fn = [i \in Runs |-> "idle"]
        /\ completed = {}
        /\ body = [i \in Runs |-> "none"]
        /\ lockQueue = <<>>
        /\ call = [i \in Runs |-> [s \in Steps |-> "idle"]]
        /\ seqOf = [i \in Runs |-> [s \in Steps |-> 0]]
        /\ tx = [i \in Runs |-> [s \in Steps |-> "none"]]
        /\ accountSeq = 0
        /\ landed = {}
        /\ pool = 0
        /\ answered = {}
        /\ restarts = 0

Settles(i, kinds) == job[i] \in Payments /\ Kind[job[i]] \in kinds
InFlight == {job[i] : i \in {j \in Runs : fn[j] = "pending"}}
Unresolved(i, s) == call[i][s] \notin {"ok", "err"}
Holds(i, s) == body[i] = s /\ lockQueue # <<>> /\ Head(lockQueue) = i

-----------------------------------------------------------------------------
(* The handlers *)

\* A settleOnce miss.  A completed or in-flight key starts nothing: its caller
\* gets the cached result or the promise of the run under way.  A pre-signed
\* transaction is sent at once (classic) or after a simulation (a contract call
\* with an envelope signature); the others queue a closure on the facilitator lock.
Settle(i, p) ==
  /\ job[i] = None
  /\ p \notin completed
  /\ p \notin InFlight
  /\ job' = [job EXCEPT ![i] = p]
  /\ fn' = [fn EXCEPT ![i] = "pending"]
  /\ \/ /\ Kind[p] = "presigned"
        /\ \E c \in {"simulate", "send"} : call' = [call EXCEPT ![i]["submit"] = c]
        /\ UNCHANGED <<body, lockQueue>>
     \/ /\ Kind[p] # "presigned"
        /\ body' = [body EXCEPT ![i] = "queued"]
        /\ lockQueue' = Append(lockQueue, i)
        /\ UNCHANGED call
  /\ UNCHANGED <<completed, answered, seqOf, tx, ledgerVars, restarts>>

RegisterCreator(i) ==
  /\ job[i] = None
  /\ Cardinality({j \in Runs : job[j] = Register}) < MaxRegistrations
  /\ job' = [job EXCEPT ![i] = Register]
  /\ fn' = [fn EXCEPT ![i] = "pending"]
  /\ body' = [body EXCEPT ![i] = "queued"]
  /\ lockQueue' = Append(lockQueue, i)
  /\ UNCHANGED <<completed, answered, call, seqOf, tx, ledgerVars, restarts>>

FirstStep(i) == IF job[i] = Register THEN "register" ELSE "submit"

\* The mutex reaches run i: its closure starts and calls its first step.
Start(i) ==
  /\ Holds(i, "queued")
  /\ body' = [body EXCEPT ![i] = FirstStep(i)]
  /\ call' = [call EXCEPT ![i][FirstStep(i)] = "account"]
  /\ UNCHANGED <<job, fn, completed, lockQueue, answered, seqOf, tx, ledgerVars, restarts>>

Release(i) == /\ lockQueue' = Tail(lockQueue)
              /\ body' = [body EXCEPT ![i] = "done"]

Succeed(i) == /\ fn' = [fn EXCEPT ![i] = "ok"]
              /\ completed' = completed \cup {job[i]}
              /\ answered' = answered \cup {job[i]}

\* A rejected promise is never cached.  A run that has already been rejected
\* (by its timer) stays so.
Fail(i) == /\ fn' = [fn EXCEPT ![i] = IF fn[i] = "pending" THEN "err" ELSE fn[i]]
           /\ UNCHANGED <<completed, answered>>

\* A plausible mistake: answer as soon as the deposit is confirmed.
SubmitDoneWithoutSplit(i) ==
  /\ Holds(i, "submit")
  /\ Settles(i, {"pooled"})
  /\ call[i]["submit"] = "ok"
  /\ Release(i)
  /\ Succeed(i)
  /\ UNCHANGED <<job, call, seqOf, tx, ledgerVars, restarts>>

\* Pooled settle, submit confirmed: distribute is called under the same hold.
SubmitDone(i) ==
  /\ Holds(i, "submit")
  /\ Settles(i, {"pooled"})
  /\ call[i]["submit"] = "ok"
  /\ body' = [body EXCEPT ![i] = "distribute"]
  /\ call' = [call EXCEPT ![i]["distribute"] = "account"]
  /\ UNCHANGED <<job, fn, completed, lockQueue, answered, seqOf, tx, ledgerVars, restarts>>

DistributeDone(i) ==
  /\ Holds(i, "distribute")
  /\ Settles(i, {"pooled"})
  /\ call[i]["distribute"] = "ok"
  /\ Release(i)
  /\ Succeed(i)
  /\ UNCHANGED <<job, call, seqOf, tx, ledgerVars, restarts>>

\* Adapter settle: the closure ends here, but its caller may have given up.
SponsorDone(i) ==
  /\ Holds(i, "submit")
  /\ Settles(i, {"adapter"})
  /\ call[i]["submit"] = "ok"
  /\ Release(i)
  /\ \/ fn[i] = "pending" /\ Succeed(i)
     \/ fn[i] # "pending" /\ UNCHANGED <<fn, completed, answered>>
  /\ UNCHANGED <<job, call, seqOf, tx, ledgerVars, restarts>>

RegisterDone(i) ==
  /\ Holds(i, "register")
  /\ call[i]["register"] = "ok"
  /\ Release(i)
  /\ fn' = [fn EXCEPT ![i] = "ok"]
  /\ UNCHANGED <<job, completed, answered, call, seqOf, tx, ledgerVars, restarts>>

\* A plausible mistake: a rejection does not advance the mutex chain.
HolderKeepsLock(i) ==
  /\ \E s \in Steps : Holds(i, s) /\ call[i][s] = "err"
  /\ Fail(i)
  /\ UNCHANGED <<job, body, lockQueue, call, seqOf, tx, ledgerVars, restarts>>

\* The call the closure awaits throws: the mutex is released all the same.
HolderFails(i) ==
  /\ \E s \in Steps : Holds(i, s) /\ call[i][s] = "err"
  /\ Release(i)
  /\ Fail(i)
  /\ UNCHANGED <<job, call, seqOf, tx, ledgerVars, restarts>>

\* A plausible mistake: a submit that times out is taken for done.
TimeoutGoesOn(i) ==
  /\ Settles(i, {"pooled"})
  /\ Holds(i, "submit") /\ Unresolved(i, "submit")
  /\ body' = [body EXCEPT ![i] = "distribute"]
  /\ call' = [call EXCEPT ![i]["distribute"] = "account"]
  /\ UNCHANGED <<job, fn, completed, lockQueue, answered, seqOf, tx, ledgerVars, restarts>>

\* Inside the closure, withTimeout(submit | distribute, 30s): the closure
\* rejects and the lock is released while the call is still running.
TimeoutInClosure(i) ==
  /\ Settles(i, {"pooled"})
  /\ \E s \in {"submit", "distribute"} : Holds(i, s) /\ Unresolved(i, s)
  /\ Release(i)
  /\ Fail(i)
  /\ UNCHANGED <<job, call, seqOf, tx, ledgerVars, restarts>>

\* Around the closure (adapter) or around the plain submission (pre-signed, not
\* its simulation): the caller gets an error; a queued closure stays queued and
\* still runs.
TimeoutOfCaller(i) ==
  /\ Settles(i, {"adapter", "presigned"})
  /\ fn[i] = "pending"
  /\ Unresolved(i, "submit")
  /\ ~(Settles(i, {"presigned"}) /\ call[i]["submit"] = "simulate")
  /\ Fail(i)
  /\ UNCHANGED <<job, body, lockQueue, call, seqOf, tx, ledgerVars, restarts>>

PresignedDone(i) ==
  /\ Settles(i, {"presigned"})
  /\ fn[i] = "pending"
  /\ \/ call[i]["submit"] = "ok" /\ Succeed(i)
     \/ call[i]["submit"] = "err" /\ Fail(i)
  /\ UNCHANGED <<job, body, lockQueue, call, seqOf, tx, ledgerVars, restarts>>

-----------------------------------------------------------------------------
(* The calls: submitFeeSponsorUnlocked, callDistributeUnlocked, the closure *)
(* of registerCreatorOnChain, and the submission of a pre-signed tx         *)

LoadAccount(i, s) ==
  /\ call[i][s] = "account"
  /\ seqOf' = [seqOf EXCEPT ![i][s] = accountSeq + 1]
  /\ call' = [call EXCEPT ![i][s] = "simulate"]
  /\ UNCHANGED <<relayerVars, tx, ledgerVars, restarts>>

\* What the current ledger makes of the transaction of step s.
Executable(i, s) ==
  CASE s = "submit"     -> job[i] \in Payments \ landed
    [] s = "distribute" -> job[i] \in Payments /\ pool >= Amount[job[i]]
    [] s = "register"   -> TRUE

Simulate(i, s) ==
  /\ call[i][s] = "simulate"
  /\ Executable(i, s)
  /\ call' = [call EXCEPT ![i][s] = "send"]
  /\ UNCHANGED <<relayerVars, seqOf, tx, ledgerVars, restarts>>

\* sendTransaction: the network takes the transaction; the answer may be lost.
Send(i, s) ==
  /\ call[i][s] = "send"
  /\ tx' = [tx EXCEPT ![i][s] = "pending"]
  /\ \E c \in {"poll", "err"} : call' = [call EXCEPT ![i][s] = c]
  /\ UNCHANGED <<relayerVars, seqOf, ledgerVars, restarts>>

\* A plausible mistake: a transaction not yet included counts as confirmed.
ConfirmUnlessFailed(i, s) ==
  /\ call[i][s] = "poll"
  /\ tx[i][s] \in {"pending", "applied"}
  /\ call' = [call EXCEPT ![i][s] = "ok"]
  /\ UNCHANGED <<relayerVars, seqOf, tx, ledgerVars, restarts>>

\* A poll answers SUCCESS.  A pre-signed transaction has one hash for all the
\* runs that submit it.
Confirm(i, s) ==
  /\ call[i][s] = "poll"
  /\ \/ tx[i][s] = "applied"
     \/ Settles(i, {"presigned"}) /\ job[i] \in landed
  /\ call' = [call EXCEPT ![i][s] = "ok"]
  /\ UNCHANGED <<relayerVars, seqOf, tx, ledgerVars, restarts>>

\* Any RPC throws, simulation fails, send answers ERROR, a poll answers FAILED
\* or the 20 polls run out.
CallFails(i, s) ==
  /\ call[i][s] \in {"account", "simulate", "send", "poll"}
  /\ call' = [call EXCEPT ![i][s] = "err"]
  /\ UNCHANGED <<relayerVars, seqOf, tx, ledgerVars, restarts>>

-----------------------------------------------------------------------------
(* The ledger (external) *)

\* A pending transaction may execute if its source's sequence is next: the
\* facilitator's, or for a pre-signed one the client's, consumed with it.
InSequence(i, s) == \/ Settles(i, {"presigned"})
                    \/ seqOf[i][s] = accountSeq + 1

Advance(i) == accountSeq' = IF Settles(i, {"presigned"}) THEN accountSeq ELSE accountSeq + 1

Apply(i, s) ==
  /\ tx[i][s] = "pending"
  /\ InSequence(i, s)
  /\ Executable(i, s)
  /\ tx' = [tx EXCEPT ![i][s] = "applied"]
  /\ Advance(i)
  /\ landed' = IF s = "submit" THEN landed \cup {job[i]} ELSE landed
  /\ pool' = CASE s = "submit" /\ Settles(i, {"pooled"}) -> pool + Amount[job[i]]
               [] s = "distribute" -> pool - Amount[job[i]]
               [] OTHER -> pool
  /\ UNCHANGED <<relayerVars, call, seqOf, restarts>>

\* Included but its operation fails: the sequence number is spent.
Revert(i, s) ==
  /\ tx[i][s] = "pending"
  /\ InSequence(i, s)
  /\ tx' = [tx EXCEPT ![i][s] = "failed"]
  /\ Advance(i)
  /\ UNCHANGED <<relayerVars, call, seqOf, landed, pool, restarts>>

\* Its time bound passes, its sequence is gone, or it is evicted.
Drop(i, s) ==
  /\ tx[i][s] = "pending"
  /\ tx' = [tx EXCEPT ![i][s] = "dropped"]
  /\ UNCHANGED <<relayerVars, call, seqOf, ledgerVars, restarts>>

-----------------------------------------------------------------------------
\* The 24 h of a completed entry are over.
Expire(p) ==
  /\ p \in completed
  /\ completed' = completed \ {p}
  /\ UNCHANGED <<job, fn, body, lockQueue, answered, call, seqOf, tx, ledgerVars, restarts>>

\* The process dies and comes back: promises, mutex and cache are in memory,
\* transactions already sent are not.
Restart ==
  /\ restarts < MaxRestarts
  /\ restarts' = restarts + 1
  /\ fn' = [i \in Runs |-> IF fn[i] = "pending" THEN "err" ELSE fn[i]]
  /\ body' = [i \in Runs |-> IF body[i] = "none" THEN "none" ELSE "done"]
  /\ lockQueue' = <<>>
  /\ completed' = {}
  /\ call' = [i \in Runs |-> [s \in Steps |->
                IF call[i][s] \in {"idle", "ok"} THEN call[i][s] ELSE "err"]]
  /\ UNCHANGED <<job, answered, seqOf, tx, ledgerVars>>

Closure(i) == \/ Start(i) \/ SubmitDone(i) \/ DistributeDone(i) \/ SponsorDone(i)
              \/ RegisterDone(i) \/ HolderFails(i) \/ PresignedDone(i)
Timer(i) == TimeoutInClosure(i) \/ TimeoutOfCaller(i)
Rpc(i, s) == \/ LoadAccount(i, s) \/ Simulate(i, s) \/ Send(i, s)
             \/ Confirm(i, s) \/ CallFails(i, s)
Network(i, s) == Apply(i, s) \/ Revert(i, s) \/ Drop(i, s)

Next == \/ \E i \in Runs, p \in Payments : Settle(i, p)
        \/ \E i \in Runs : RegisterCreator(i) \/ Closure(i) \/ Timer(i)
        \/ \E i \in Runs, s \in Steps : Rpc(i, s) \/ Network(i, s)
        \/ \E p \in Payments : Expire(p)
        \/ Restart

Spec == Init /\ [][Next]_vars
-----------------------------------------------------------------------------
(* Properties *)

Split == {job[i] : i \in {j \in Runs : tx[j]["distribute"] = "applied"}}

\* The paywall contract pays a distribute out of one pooled balance and leaves
\* it to the relayer to ask only for what was deposited (paywall_core/lib.rs,
\* comment of distribute).  Whatever times out, fails, restarts or is retried,
\* a run puts a distribute on the network only after its own deposit executed,
\* and no two runs put one out for the same payment.
DistributionBacked ==
  /\ \A i \in Runs : tx[i]["distribute"] # "none" => tx[i]["submit"] = "applied"
  /\ \A i, j \in Runs :
       (i # j /\ tx[i]["distribute"] # "none" /\ tx[j]["distribute"] # "none") => job[i] # job[j]

\* A payment reported settled, now or from the 24 h cache, has its money where
\* it belongs: taken from the payer and, if pooled, split.
SuccessMeansSettled ==
  \A p \in completed \cup answered : p \in landed /\ (Kind[p] = "pooled" => p \in Split)

\* The relayer implements Settlement: a payment's phase is what the ledger
\* says of it, and success is told only about settled payments.
Phase == [p \in Payments |->
            IF p \notin landed THEN "unpaid"
            ELSE IF Kind[p] = "pooled" /\ p \notin Split THEN "deposited" ELSE "settled"]

Promise == INSTANCE Settlement WITH Pooled <- {p \in Payments : Kind[p] = "pooled"},
                                    phase <- Phase, told <- answered
PromiseKept == Promise!Spec

\* An RPC may answer late but does answer or throw; timers fire; the event loop
\* runs what is ready.  Nothing obliges the network to include a transaction.
FairSpec == /\ Spec
            /\ \A i \in Runs : WF_vars(Closure(i)) /\ WF_vars(Timer(i))
            /\ \A i \in Runs, s \in Steps : WF_vars(Rpc(i, s))

\* Every handler answers, and every closure gets the facilitator lock and gives it
\* back: a failed, timed-out or abandoned operation never wedges the queue
\* (mutex.ts: "a failure never blocks the queue").
RunsEnd ==
  \A i \in Runs : (fn[i] = "pending" \/ body[i] \notin {"none", "done"}) ~>
                   (fn[i] # "pending" /\ body[i] \in {"none", "done"})
=============================================================================
