--------------------------- MODULE RelayerProofs ----------------------------
(***************************************************************************)
(* Proofs about Relayer, for any set of payments and runs, any amounts and *)
(* any number of registrations and restarts.                               *)
(*                                                                         *)
(* None of the properties is inductive alone.  What makes them so is that  *)
(* the promise a run waits for, the call behind it and the transaction on  *)
(* the network never get out of step in the harmful direction, whatever    *)
(* was abandoned in between (CallsAndTxs), and that a client authorization *)
(* is consumed once (DepositsOnce).  RedisRelayer's proofs follow them.    *)
(***************************************************************************)
EXTENDS Relayer, RedisRelayer, TLAPS

\* A run that has not started, or whose closure is still queued, has called
\* nothing yet; distribute is called from the submit step only.
NothingCalledYet ==
  /\ \A i \in Runs : job[i] = None => body[i] = "none"
  /\ \A i \in Runs : job[i] = None \/ body[i] = "queued" => \A s \in Steps : call[i][s] = "idle"
  /\ \A i \in Runs : body[i] \in {"queued", "submit"} => call[i]["distribute"] = "idle"

\* Each call sends one transaction, and resolves only when it has executed.
CallsAndTxs ==
  /\ \A i \in Runs, s \in Steps :
       call[i][s] \in {"idle", "account", "simulate", "send"} => tx[i][s] = "none"
  /\ \A i \in Runs, s \in Steps :
       call[i][s] = "ok" => \/ tx[i][s] = "applied"
                            \/ Settles(i, {"presigned"}) /\ job[i] \in landed

\* A deposit consumes the payment's authorization, so no two runs make it.
DepositsOnce ==
  /\ \A i \in Runs : tx[i]["submit"] = "applied" => job[i] \in landed
  /\ \A i, j \in Runs :
       (i # j /\ tx[i]["submit"] = "applied" /\ tx[j]["submit"] = "applied") => job[i] # job[j]

\* Distribute is never under way without the run's own deposit.
DistributeAfterDeposit ==
  \A i \in Runs :
    (body[i] = "distribute" \/ call[i]["distribute"] # "idle" \/ tx[i]["distribute"] # "none")
      => /\ Settles(i, {"pooled"})
         /\ tx[i]["submit"] = "applied"

IInv == /\ TypeOK
        /\ NothingCalledYet
        /\ CallsAndTxs
        /\ DepositsOnce
        /\ DistributeAfterDeposit
        /\ SuccessMeansSettled

\* The initial state is well typed.
LEMMA TypeInit == Init => TypeOK
BY BoundAssumption DEF Init, TypeOK, Bodies, Calls, Txs, Steps

\* Every step of a handler, a call, the ledger or a restart keeps the types.
LEMMA TypeStep == TypeOK /\ [Next]_vars => TypeOK'
<1> SUFFICES ASSUME TypeOK, [Next]_vars
             PROVE  TypeOK'
  OBVIOUS
<1> USE DEF TypeOK, Bodies, Calls, Txs, relayerVars, ledgerVars
<1>1. ASSUME NEW i \in Runs, NEW p \in Payments, Settle(i, p)
     PROVE  TypeOK'
  <2>1. /\ job' \in [Runs -> Payments \cup {Register, None}]
        /\ fn' \in [Runs -> {"idle", "pending", "ok", "err"}]
    BY <1>1 DEF Settle
  <2>2. /\ call' \in [Runs -> [Steps -> Calls]]
        /\ body' \in [Runs -> Bodies]
        /\ lockQueue' \in Seq(Runs)
    <3>1. CASE /\ \E c \in {"simulate", "send"} : call' = [call EXCEPT ![i]["submit"] = c]
               /\ UNCHANGED <<body, lockQueue>>
      BY <3>1 DEF Steps
    <3>2. CASE /\ body' = [body EXCEPT ![i] = "queued"]
               /\ lockQueue' = Append(lockQueue, i)
               /\ UNCHANGED call
      BY <3>2
    <3>3. QED
      BY <1>1, <3>1, <3>2 DEF Settle
  <2>3. UNCHANGED <<completed, answered, seqOf, tx, ledgerVars, restarts>>
    BY <1>1 DEF Settle
  <2>4. QED
    BY <2>1, <2>2, <2>3
<1>2. ASSUME NEW i \in Runs, RegisterCreator(i)
     PROVE  TypeOK'
  BY <1>2 DEF RegisterCreator, Steps
<1>3. ASSUME NEW i \in Runs, Start(i)
     PROVE  TypeOK'
  BY <1>3 DEF Start, FirstStep, Holds, Steps
<1>4. ASSUME NEW i \in Runs, SubmitDone(i)
     PROVE  TypeOK'
  BY <1>4 DEF SubmitDone, Holds, Steps
<1>5. ASSUME NEW i \in Runs, DistributeDone(i)
     PROVE  TypeOK'
  BY <1>5 DEF DistributeDone, Holds, Settles, Release, Succeed, Steps
<1>6. ASSUME NEW i \in Runs, SponsorDone(i)
     PROVE  TypeOK'
  <2>1. /\ body' \in [Runs -> Bodies]
        /\ lockQueue' \in Seq(Runs)
    BY <1>6 DEF SponsorDone, Holds, Release
  <2>2. /\ fn' \in [Runs -> {"idle", "pending", "ok", "err"}]
        /\ completed' \subseteq Payments
        /\ answered' \subseteq Payments
    BY <1>6 DEF SponsorDone, Settles, Succeed
  <2>3. UNCHANGED <<job, call, seqOf, tx, ledgerVars, restarts>>
    BY <1>6 DEF SponsorDone
  <2>4. QED
    BY <2>1, <2>2, <2>3
<1>7. ASSUME NEW i \in Runs, RegisterDone(i)
     PROVE  TypeOK'
  BY <1>7 DEF RegisterDone, Holds, Release, Steps
<1>8. ASSUME NEW i \in Runs, HolderFails(i)
     PROVE  TypeOK'
  BY <1>8 DEF HolderFails, Holds, Release, Fail, Steps
<1>9. ASSUME NEW i \in Runs, TimeoutInClosure(i)
     PROVE  TypeOK'
  BY <1>9 DEF TimeoutInClosure, Holds, Release, Fail, Settles, Steps
<1>10. ASSUME NEW i \in Runs, TimeoutOfCaller(i)
     PROVE  TypeOK'
  BY <1>10 DEF TimeoutOfCaller, Fail, Steps
<1>11. ASSUME NEW i \in Runs, PresignedDone(i)
     PROVE  TypeOK'
  BY <1>11 DEF PresignedDone, Succeed, Fail, Settles, Steps
<1>12. ASSUME NEW i \in Runs, NEW s \in Steps, LoadAccount(i, s)
     PROVE  TypeOK'
  BY <1>12 DEF LoadAccount, Steps
<1>13. ASSUME NEW i \in Runs, NEW s \in Steps, Simulate(i, s)
     PROVE  TypeOK'
  BY <1>13 DEF Simulate, Steps
<1>14. ASSUME NEW i \in Runs, NEW s \in Steps, Send(i, s)
     PROVE  TypeOK'
  BY <1>14 DEF Send, Steps
<1>15. ASSUME NEW i \in Runs, NEW s \in Steps, Confirm(i, s)
     PROVE  TypeOK'
  BY <1>15 DEF Confirm, Steps
<1>16. ASSUME NEW i \in Runs, NEW s \in Steps, CallFails(i, s)
     PROVE  TypeOK'
  BY <1>16 DEF CallFails, Steps
<1>17. ASSUME NEW i \in Runs, NEW s \in Steps, Apply(i, s)
     PROVE  TypeOK'
  <2>1. /\ tx' \in [Runs -> [Steps -> Txs]]
        /\ accountSeq' \in Nat
        /\ UNCHANGED <<relayerVars, call, seqOf, restarts>>
    BY <1>17 DEF Apply, Advance, Steps
  <2>2. /\ landed' \subseteq Payments
        /\ pool' \in Nat
    <3>1. CASE s = "submit"
      BY <1>17, <3>1, AmountAssumption DEF Apply, Executable, Settles
    <3>2. CASE s = "distribute"
      BY <1>17, <3>2, AmountAssumption DEF Apply, Executable
    <3>3. CASE s = "register"
      BY <1>17, <3>3 DEF Apply
    <3>4. QED
      BY <3>1, <3>2, <3>3 DEF Steps
  <2>3. QED
    BY <2>1, <2>2
<1>18. ASSUME NEW i \in Runs, NEW s \in Steps, Revert(i, s)
     PROVE  TypeOK'
  BY <1>18 DEF Revert, Advance, Steps
<1>19. ASSUME NEW i \in Runs, NEW s \in Steps, Drop(i, s)
     PROVE  TypeOK'
  BY <1>19 DEF Drop, Steps
<1>20. ASSUME NEW p \in Payments, Expire(p)
     PROVE  TypeOK'
  BY <1>20 DEF Expire, Steps
<1>21. ASSUME Restart
     PROVE  TypeOK'
  BY <1>21, BoundAssumption DEF Restart, Steps
<1>22. CASE UNCHANGED vars
  BY <1>22 DEF vars
<1>23. QED
  BY <1>1, <1>2, <1>3, <1>4, <1>5, <1>6, <1>7, <1>8, <1>9, <1>10, <1>11, <1>12, <1>13, <1>14, <1>15, <1>16, <1>17, <1>18, <1>19, <1>20, <1>21, <1>22 DEF Next, Closure, Timer, Rpc, Network

\* The state of the relayer and of its part of the ledger stays well typed; in
\* particular the shared contract balance never goes below zero.
THEOREM TypeCorrect == Spec => []TypeOK
BY TypeInit, TypeStep, PTL DEF Spec

\* The strengthened invariant: a run's promise, the call behind it and the
\* transaction on the network agree, and authorizations are consumed once.
THEOREM Invariance == Spec => []IInv
<1>1. Init => IInv
  BY TypeInit DEF Init, IInv, NothingCalledYet, CallsAndTxs, DepositsOnce, DistributeAfterDeposit, SuccessMeansSettled, Steps
<1>2. IInv /\ [Next]_vars => IInv'
  <2> SUFFICES ASSUME IInv, TypeOK', [Next]_vars
               PROVE  IInv'
    BY TypeStep DEF IInv
  <2> USE DEF relayerVars, ledgerVars, Steps
  <2>1. ASSUME NEW i \in Runs, NEW p \in Payments, Settle(i, p)
       PROVE  IInv'
    <3>a. /\ body[i] = "none"
          /\ \A t \in Steps : call[i][t] = "idle" /\ tx[i][t] = "none"
          /\ p # None /\ job'[i] = p /\ tx' = tx /\ landed' = landed
      BY <2>1, JobAssumption DEF Settle, NothingCalledYet, CallsAndTxs, IInv, TypeOK
    <3>b. \A j \in Runs : j # i => /\ job'[j] = job[j]
                                 /\ body'[j] = body[j]
                                 /\ call'[j] = call[j]
      BY <2>1 DEF Settle, IInv, TypeOK
    <3>c. \/ /\ body'[i] = "none"
             /\ \E c \in {"simulate", "send"} : call'[i] = [call[i] EXCEPT !["submit"] = c]
          \/ body'[i] = "queued" /\ call'[i] = call[i]
      BY <2>1, <3>a DEF Settle, IInv, TypeOK
    <3>d. /\ call'[i]["distribute"] = "idle"
          /\ \A t \in Steps : call'[i][t] \in {"idle", "simulate", "send"}
      BY <3>a, <3>c DEF IInv, TypeOK
    <3>1. NothingCalledYet'
      BY <3>a, <3>b, <3>c, <3>d DEF NothingCalledYet, IInv
    <3>2. CallsAndTxs'
      BY <3>a, <3>b, <3>d DEF CallsAndTxs, Settles, IInv
    <3>3. DepositsOnce'
      BY <2>1 DEF Settle, DepositsOnce, CallsAndTxs, NothingCalledYet, IInv, TypeOK
    <3>4. DistributeAfterDeposit'
      BY <3>a, <3>b, <3>c, <3>d DEF DistributeAfterDeposit, Settles, IInv
    <3>5. SuccessMeansSettled'
      BY <2>1 DEF Settle, SuccessMeansSettled, Split, CallsAndTxs, DepositsOnce, DistributeAfterDeposit, NothingCalledYet, Settles, IInv, TypeOK
    <3>6. QED
      BY <3>1, <3>2, <3>3, <3>4, <3>5 DEF IInv
  <2>2. ASSUME NEW i \in Runs, RegisterCreator(i)
       PROVE  IInv'
    <3>1. NothingCalledYet'
      BY <2>2, JobAssumption DEF RegisterCreator, NothingCalledYet, IInv, TypeOK
    <3>2. CallsAndTxs'
      BY <2>2 DEF RegisterCreator, CallsAndTxs, NothingCalledYet, Settles, IInv, TypeOK
    <3>3. DepositsOnce'
      BY <2>2 DEF RegisterCreator, DepositsOnce, CallsAndTxs, NothingCalledYet, IInv, TypeOK
    <3>4. DistributeAfterDeposit'
      BY <2>2 DEF RegisterCreator, DistributeAfterDeposit, CallsAndTxs, NothingCalledYet, Settles, IInv, TypeOK
    <3>5. SuccessMeansSettled'
      BY <2>2 DEF RegisterCreator, SuccessMeansSettled, Split, CallsAndTxs, DepositsOnce, DistributeAfterDeposit, NothingCalledYet, Settles, IInv, TypeOK
    <3>6. QED
      BY <3>1, <3>2, <3>3, <3>4, <3>5 DEF IInv
  <2>3. ASSUME NEW i \in Runs, Start(i)
       PROVE  IInv'
    <3>1. NothingCalledYet'
      BY <2>3 DEF Start, FirstStep, Holds, NothingCalledYet, IInv, TypeOK
    <3>2. CallsAndTxs'
      BY <2>3 DEF Start, FirstStep, Holds, CallsAndTxs, NothingCalledYet, Settles, IInv, TypeOK
    <3>3. DepositsOnce'
      BY <2>3 DEF Start, DepositsOnce, IInv
    <3>4. DistributeAfterDeposit'
      BY <2>3 DEF Start, FirstStep, Holds, DistributeAfterDeposit, CallsAndTxs, NothingCalledYet, Settles, IInv, TypeOK
    <3>5. SuccessMeansSettled'
      BY <2>3 DEF Start, FirstStep, Holds, SuccessMeansSettled, Split, CallsAndTxs, DepositsOnce, DistributeAfterDeposit, NothingCalledYet, Settles, IInv, TypeOK
    <3>6. QED
      BY <3>1, <3>2, <3>3, <3>4, <3>5 DEF IInv
  <2>4. ASSUME NEW i \in Runs, SubmitDone(i)
       PROVE  IInv'
    <3>1. NothingCalledYet'
      BY <2>4 DEF SubmitDone, Holds, Settles, NothingCalledYet, IInv, TypeOK
    <3>2. CallsAndTxs'
      BY <2>4 DEF SubmitDone, Holds, Settles, CallsAndTxs, NothingCalledYet, IInv, TypeOK
    <3>3. DepositsOnce'
      BY <2>4 DEF SubmitDone, DepositsOnce, IInv
    <3>4. DistributeAfterDeposit'
      BY <2>4 DEF SubmitDone, Holds, Settles, DistributeAfterDeposit, CallsAndTxs, NothingCalledYet, IInv, TypeOK
    <3>5. SuccessMeansSettled'
      BY <2>4 DEF SubmitDone, Holds, Settles, SuccessMeansSettled, Split, CallsAndTxs, DepositsOnce, DistributeAfterDeposit, NothingCalledYet, IInv, TypeOK
    <3>6. QED
      BY <3>1, <3>2, <3>3, <3>4, <3>5 DEF IInv
  <2>5. ASSUME NEW i \in Runs, DistributeDone(i)
       PROVE  IInv'
    <3>1. NothingCalledYet'
      BY <2>5 DEF DistributeDone, Holds, Release, Succeed, Settles, NothingCalledYet, IInv, TypeOK
    <3>2. CallsAndTxs'
      BY <2>5 DEF DistributeDone, Holds, Release, Succeed, Settles, CallsAndTxs, NothingCalledYet, IInv, TypeOK
    <3>3. DepositsOnce'
      BY <2>5 DEF DistributeDone, DepositsOnce, IInv
    <3>4. DistributeAfterDeposit'
      BY <2>5 DEF DistributeDone, Holds, Release, Succeed, Settles, DistributeAfterDeposit, CallsAndTxs, NothingCalledYet, IInv, TypeOK
    <3>5. SuccessMeansSettled'
      BY <2>5 DEF DistributeDone, Holds, Release, Succeed, Settles, SuccessMeansSettled, Split, CallsAndTxs, DepositsOnce, DistributeAfterDeposit, NothingCalledYet, IInv, TypeOK
    <3>6. QED
      BY <3>1, <3>2, <3>3, <3>4, <3>5 DEF IInv
  <2>6. ASSUME NEW i \in Runs, SponsorDone(i)
       PROVE  IInv'
    <3>1. NothingCalledYet'
      BY <2>6 DEF SponsorDone, Holds, Release, Succeed, Settles, NothingCalledYet, IInv, TypeOK
    <3>2. CallsAndTxs'
      BY <2>6 DEF SponsorDone, Holds, Release, Succeed, Settles, CallsAndTxs, NothingCalledYet, IInv, TypeOK
    <3>3. DepositsOnce'
      BY <2>6 DEF SponsorDone, DepositsOnce, IInv
    <3>4. DistributeAfterDeposit'
      BY <2>6 DEF SponsorDone, Holds, Release, Succeed, Settles, DistributeAfterDeposit, CallsAndTxs, NothingCalledYet, IInv, TypeOK
    <3>5. SuccessMeansSettled'
      BY <2>6 DEF SponsorDone, Holds, Release, Succeed, Settles, SuccessMeansSettled, Split, CallsAndTxs, DepositsOnce, DistributeAfterDeposit, NothingCalledYet, IInv, TypeOK
    <3>6. QED
      BY <3>1, <3>2, <3>3, <3>4, <3>5 DEF IInv
  <2>7. ASSUME NEW i \in Runs, RegisterDone(i)
       PROVE  IInv'
    <3>1. NothingCalledYet'
      BY <2>7 DEF RegisterDone, Holds, Release, NothingCalledYet, IInv, TypeOK
    <3>2. CallsAndTxs'
      BY <2>7 DEF RegisterDone, Holds, Release, CallsAndTxs, NothingCalledYet, Settles, IInv, TypeOK
    <3>3. DepositsOnce'
      BY <2>7 DEF RegisterDone, DepositsOnce, IInv
    <3>4. DistributeAfterDeposit'
      BY <2>7 DEF RegisterDone, Holds, Release, DistributeAfterDeposit, CallsAndTxs, NothingCalledYet, Settles, IInv, TypeOK
    <3>5. SuccessMeansSettled'
      BY <2>7 DEF RegisterDone, Holds, Release, SuccessMeansSettled, Split, CallsAndTxs, DepositsOnce, DistributeAfterDeposit, NothingCalledYet, Settles, IInv, TypeOK
    <3>6. QED
      BY <3>1, <3>2, <3>3, <3>4, <3>5 DEF IInv
  <2>8. ASSUME NEW i \in Runs, HolderFails(i)
       PROVE  IInv'
    <3>1. NothingCalledYet'
      BY <2>8 DEF HolderFails, Holds, Release, Fail, NothingCalledYet, IInv, TypeOK
    <3>2. CallsAndTxs'
      BY <2>8 DEF HolderFails, Holds, Release, Fail, CallsAndTxs, NothingCalledYet, Settles, IInv, TypeOK
    <3>3. DepositsOnce'
      BY <2>8 DEF HolderFails, DepositsOnce, IInv
    <3>4. DistributeAfterDeposit'
      BY <2>8 DEF HolderFails, Holds, Release, Fail, DistributeAfterDeposit, CallsAndTxs, NothingCalledYet, Settles, IInv, TypeOK
    <3>5. SuccessMeansSettled'
      BY <2>8 DEF HolderFails, Holds, Release, Fail, SuccessMeansSettled, Split, CallsAndTxs, DepositsOnce, DistributeAfterDeposit, NothingCalledYet, Settles, IInv, TypeOK
    <3>6. QED
      BY <3>1, <3>2, <3>3, <3>4, <3>5 DEF IInv
  <2>9. ASSUME NEW i \in Runs, TimeoutInClosure(i)
       PROVE  IInv'
    <3>1. NothingCalledYet'
      BY <2>9 DEF TimeoutInClosure, Holds, Release, Fail, Settles, NothingCalledYet, IInv, TypeOK
    <3>2. CallsAndTxs'
      BY <2>9 DEF TimeoutInClosure, Holds, Release, Fail, Settles, CallsAndTxs, NothingCalledYet, IInv, TypeOK
    <3>3. DepositsOnce'
      BY <2>9 DEF TimeoutInClosure, DepositsOnce, IInv
    <3>4. DistributeAfterDeposit'
      BY <2>9 DEF TimeoutInClosure, Holds, Release, Fail, Settles, DistributeAfterDeposit, CallsAndTxs, NothingCalledYet, IInv, TypeOK
    <3>5. SuccessMeansSettled'
      BY <2>9 DEF TimeoutInClosure, Holds, Release, Fail, Settles, SuccessMeansSettled, Split, CallsAndTxs, DepositsOnce, DistributeAfterDeposit, NothingCalledYet, IInv, TypeOK
    <3>6. QED
      BY <3>1, <3>2, <3>3, <3>4, <3>5 DEF IInv
  <2>10. ASSUME NEW i \in Runs, TimeoutOfCaller(i)
       PROVE  IInv'
    <3>1. NothingCalledYet'
      BY <2>10 DEF TimeoutOfCaller, Fail, NothingCalledYet, IInv, TypeOK
    <3>2. CallsAndTxs'
      BY <2>10 DEF TimeoutOfCaller, Fail, CallsAndTxs, NothingCalledYet, Settles, IInv, TypeOK
    <3>3. DepositsOnce'
      BY <2>10 DEF TimeoutOfCaller, DepositsOnce, IInv
    <3>4. DistributeAfterDeposit'
      BY <2>10 DEF TimeoutOfCaller, Fail, DistributeAfterDeposit, CallsAndTxs, NothingCalledYet, Settles, IInv, TypeOK
    <3>5. SuccessMeansSettled'
      BY <2>10 DEF TimeoutOfCaller, Fail, SuccessMeansSettled, Split, CallsAndTxs, DepositsOnce, DistributeAfterDeposit, NothingCalledYet, Settles, IInv, TypeOK
    <3>6. QED
      BY <3>1, <3>2, <3>3, <3>4, <3>5 DEF IInv
  <2>11. ASSUME NEW i \in Runs, PresignedDone(i)
       PROVE  IInv'
    <3>1. NothingCalledYet'
      BY <2>11 DEF PresignedDone, Succeed, Fail, Settles, NothingCalledYet, IInv, TypeOK
    <3>2. CallsAndTxs'
      BY <2>11 DEF PresignedDone, Succeed, Fail, Settles, CallsAndTxs, NothingCalledYet, IInv, TypeOK
    <3>3. DepositsOnce'
      BY <2>11 DEF PresignedDone, DepositsOnce, IInv
    <3>4. DistributeAfterDeposit'
      BY <2>11 DEF PresignedDone, Succeed, Fail, Settles, DistributeAfterDeposit, CallsAndTxs, NothingCalledYet, IInv, TypeOK
    <3>5. SuccessMeansSettled'
      BY <2>11 DEF PresignedDone, Succeed, Fail, Settles, SuccessMeansSettled, Split, CallsAndTxs, DepositsOnce, DistributeAfterDeposit, NothingCalledYet, IInv, TypeOK
    <3>6. QED
      BY <3>1, <3>2, <3>3, <3>4, <3>5 DEF IInv
  <2>12. ASSUME NEW i \in Runs, NEW s \in Steps, LoadAccount(i, s)
       PROVE  IInv'
    <3>1. NothingCalledYet'
      BY <2>12 DEF LoadAccount, NothingCalledYet, IInv, TypeOK
    <3>2. CallsAndTxs'
      BY <2>12 DEF LoadAccount, CallsAndTxs, NothingCalledYet, Settles, IInv, TypeOK
    <3>3. DepositsOnce'
      BY <2>12 DEF LoadAccount, DepositsOnce, IInv
    <3>4. DistributeAfterDeposit'
      BY <2>12 DEF LoadAccount, DistributeAfterDeposit, CallsAndTxs, NothingCalledYet, Settles, IInv, TypeOK
    <3>5. SuccessMeansSettled'
      BY <2>12 DEF LoadAccount, SuccessMeansSettled, Split, CallsAndTxs, DepositsOnce, DistributeAfterDeposit, NothingCalledYet, Settles, IInv, TypeOK
    <3>6. QED
      BY <3>1, <3>2, <3>3, <3>4, <3>5 DEF IInv
  <2>13. ASSUME NEW i \in Runs, NEW s \in Steps, Simulate(i, s)
       PROVE  IInv'
    <3>1. NothingCalledYet'
      BY <2>13 DEF Simulate, NothingCalledYet, IInv, TypeOK
    <3>2. CallsAndTxs'
      BY <2>13 DEF Simulate, CallsAndTxs, NothingCalledYet, Settles, IInv, TypeOK
    <3>3. DepositsOnce'
      BY <2>13 DEF Simulate, DepositsOnce, IInv
    <3>4. DistributeAfterDeposit'
      BY <2>13 DEF Simulate, DistributeAfterDeposit, CallsAndTxs, NothingCalledYet, Settles, IInv, TypeOK
    <3>5. SuccessMeansSettled'
      BY <2>13 DEF Simulate, SuccessMeansSettled, Split, CallsAndTxs, DepositsOnce, DistributeAfterDeposit, NothingCalledYet, Settles, IInv, TypeOK
    <3>6. QED
      BY <3>1, <3>2, <3>3, <3>4, <3>5 DEF IInv
  <2>14. ASSUME NEW i \in Runs, NEW s \in Steps, Send(i, s)
       PROVE  IInv'
    <3>1. NothingCalledYet'
      BY <2>14 DEF Send, NothingCalledYet, IInv, TypeOK
    <3>2. CallsAndTxs'
      BY <2>14 DEF Send, CallsAndTxs, NothingCalledYet, Settles, IInv, TypeOK
    <3>3. DepositsOnce'
      BY <2>14 DEF Send, DepositsOnce, CallsAndTxs, NothingCalledYet, IInv, TypeOK
    <3>4. DistributeAfterDeposit'
      BY <2>14 DEF Send, DistributeAfterDeposit, CallsAndTxs, NothingCalledYet, Settles, IInv, TypeOK
    <3>5. SuccessMeansSettled'
      BY <2>14 DEF Send, SuccessMeansSettled, Split, CallsAndTxs, DepositsOnce, DistributeAfterDeposit, NothingCalledYet, Settles, IInv, TypeOK
    <3>6. QED
      BY <3>1, <3>2, <3>3, <3>4, <3>5 DEF IInv
  <2>15. ASSUME NEW i \in Runs, NEW s \in Steps, Confirm(i, s)
       PROVE  IInv'
    <3>1. NothingCalledYet'
      BY <2>15 DEF Confirm, Settles, NothingCalledYet, IInv, TypeOK
    <3>2. CallsAndTxs'
      BY <2>15 DEF Confirm, Settles, CallsAndTxs, NothingCalledYet, IInv, TypeOK
    <3>3. DepositsOnce'
      BY <2>15 DEF Confirm, DepositsOnce, IInv
    <3>4. DistributeAfterDeposit'
      BY <2>15 DEF Confirm, Settles, DistributeAfterDeposit, CallsAndTxs, NothingCalledYet, IInv, TypeOK
    <3>5. SuccessMeansSettled'
      BY <2>15 DEF Confirm, Settles, SuccessMeansSettled, Split, CallsAndTxs, DepositsOnce, DistributeAfterDeposit, NothingCalledYet, IInv, TypeOK
    <3>6. QED
      BY <3>1, <3>2, <3>3, <3>4, <3>5 DEF IInv
  <2>16. ASSUME NEW i \in Runs, NEW s \in Steps, CallFails(i, s)
       PROVE  IInv'
    <3>1. NothingCalledYet'
      BY <2>16 DEF CallFails, NothingCalledYet, IInv, TypeOK
    <3>2. CallsAndTxs'
      BY <2>16 DEF CallFails, CallsAndTxs, NothingCalledYet, Settles, IInv, TypeOK
    <3>3. DepositsOnce'
      BY <2>16 DEF CallFails, DepositsOnce, IInv
    <3>4. DistributeAfterDeposit'
      BY <2>16 DEF CallFails, DistributeAfterDeposit, CallsAndTxs, NothingCalledYet, Settles, IInv, TypeOK
    <3>5. SuccessMeansSettled'
      BY <2>16 DEF CallFails, SuccessMeansSettled, Split, CallsAndTxs, DepositsOnce, DistributeAfterDeposit, NothingCalledYet, Settles, IInv, TypeOK
    <3>6. QED
      BY <3>1, <3>2, <3>3, <3>4, <3>5 DEF IInv
  <2>17. ASSUME NEW i \in Runs, NEW s \in Steps, Apply(i, s)
       PROVE  IInv'
    <3>1. NothingCalledYet'
      BY <2>17 DEF Apply, Executable, Settles, NothingCalledYet, IInv, TypeOK
    <3>2. CallsAndTxs'
      BY <2>17 DEF Apply, Executable, Settles, CallsAndTxs, NothingCalledYet, IInv, TypeOK
    <3>3. DepositsOnce'
      <4>1. CASE s = "submit"
        <5>1. /\ job[i] \notin landed
              /\ landed' = landed \cup {job[i]}
              /\ job' = job
              /\ tx' = [tx EXCEPT ![i]["submit"] = "applied"]
          BY <2>17, <4>1 DEF Apply, Executable
        <5>2. \A j \in Runs : j # i => tx'[j]["submit"] = tx[j]["submit"]
          BY <5>1 DEF IInv, TypeOK
        <5>3. QED
          BY <5>1, <5>2 DEF DepositsOnce, IInv
      <4>2. CASE s # "submit"
        <5>1. /\ landed' = landed /\ job' = job
              /\ \A j \in Runs : tx'[j]["submit"] = tx[j]["submit"]
          BY <2>17, <4>2 DEF Apply, IInv, TypeOK
        <5>2. QED
          BY <5>1 DEF DepositsOnce, IInv
      <4>3. QED
        BY <4>1, <4>2
    <3>4. DistributeAfterDeposit'
      BY <2>17 DEF Apply, Executable, Settles, DistributeAfterDeposit, CallsAndTxs, NothingCalledYet, IInv, TypeOK
    <3>5. SuccessMeansSettled'
      BY <2>17 DEF Apply, Executable, Settles, SuccessMeansSettled, Split, CallsAndTxs, DepositsOnce, DistributeAfterDeposit, NothingCalledYet, IInv, TypeOK
    <3>6. QED
      BY <3>1, <3>2, <3>3, <3>4, <3>5 DEF IInv
  <2>18. ASSUME NEW i \in Runs, NEW s \in Steps, Revert(i, s)
       PROVE  IInv'
    <3>1. NothingCalledYet'
      BY <2>18 DEF Revert, NothingCalledYet, IInv, TypeOK
    <3>2. CallsAndTxs'
      BY <2>18 DEF Revert, CallsAndTxs, NothingCalledYet, Settles, IInv, TypeOK
    <3>3. DepositsOnce'
      BY <2>18 DEF Revert, DepositsOnce, CallsAndTxs, NothingCalledYet, IInv, TypeOK
    <3>4. DistributeAfterDeposit'
      BY <2>18 DEF Revert, DistributeAfterDeposit, CallsAndTxs, NothingCalledYet, Settles, IInv, TypeOK
    <3>5. SuccessMeansSettled'
      BY <2>18 DEF Revert, SuccessMeansSettled, Split, CallsAndTxs, DepositsOnce, DistributeAfterDeposit, NothingCalledYet, Settles, IInv, TypeOK
    <3>6. QED
      BY <3>1, <3>2, <3>3, <3>4, <3>5 DEF IInv
  <2>19. ASSUME NEW i \in Runs, NEW s \in Steps, Drop(i, s)
       PROVE  IInv'
    <3>1. NothingCalledYet'
      BY <2>19 DEF Drop, NothingCalledYet, IInv, TypeOK
    <3>2. CallsAndTxs'
      BY <2>19 DEF Drop, CallsAndTxs, NothingCalledYet, Settles, IInv, TypeOK
    <3>3. DepositsOnce'
      BY <2>19 DEF Drop, DepositsOnce, CallsAndTxs, NothingCalledYet, IInv, TypeOK
    <3>4. DistributeAfterDeposit'
      BY <2>19 DEF Drop, DistributeAfterDeposit, CallsAndTxs, NothingCalledYet, Settles, IInv, TypeOK
    <3>5. SuccessMeansSettled'
      BY <2>19 DEF Drop, SuccessMeansSettled, Split, CallsAndTxs, DepositsOnce, DistributeAfterDeposit, NothingCalledYet, Settles, IInv, TypeOK
    <3>6. QED
      BY <3>1, <3>2, <3>3, <3>4, <3>5 DEF IInv
  <2>20. ASSUME NEW p \in Payments, Expire(p)
       PROVE  IInv'
    <3>1. NothingCalledYet'
      BY <2>20 DEF Expire, NothingCalledYet, IInv, TypeOK
    <3>2. CallsAndTxs'
      BY <2>20 DEF Expire, CallsAndTxs, NothingCalledYet, Settles, IInv, TypeOK
    <3>3. DepositsOnce'
      BY <2>20 DEF Expire, DepositsOnce, IInv
    <3>4. DistributeAfterDeposit'
      BY <2>20 DEF Expire, DistributeAfterDeposit, CallsAndTxs, NothingCalledYet, Settles, IInv, TypeOK
    <3>5. SuccessMeansSettled'
      BY <2>20 DEF Expire, SuccessMeansSettled, Split, CallsAndTxs, DepositsOnce, DistributeAfterDeposit, NothingCalledYet, Settles, IInv, TypeOK
    <3>6. QED
      BY <3>1, <3>2, <3>3, <3>4, <3>5 DEF IInv
  <2>21. ASSUME Restart
       PROVE  IInv'
    <3>1. NothingCalledYet'
      BY <2>21 DEF Restart, NothingCalledYet, IInv, TypeOK
    <3>2. CallsAndTxs'
      BY <2>21 DEF Restart, CallsAndTxs, NothingCalledYet, Settles, IInv, TypeOK
    <3>3. DepositsOnce'
      BY <2>21 DEF Restart, DepositsOnce, IInv
    <3>4. DistributeAfterDeposit'
      BY <2>21 DEF Restart, DistributeAfterDeposit, CallsAndTxs, NothingCalledYet, Settles, IInv, TypeOK
    <3>5. SuccessMeansSettled'
      BY <2>21 DEF Restart, SuccessMeansSettled, Split, CallsAndTxs, DepositsOnce, DistributeAfterDeposit, NothingCalledYet, Settles, IInv, TypeOK
    <3>6. QED
      BY <3>1, <3>2, <3>3, <3>4, <3>5 DEF IInv
  <2>22. CASE UNCHANGED vars
    BY <2>22 DEF vars, IInv, TypeOK, NothingCalledYet, CallsAndTxs, DepositsOnce, DistributeAfterDeposit, SuccessMeansSettled, Split, Settles
  <2>23. QED
    BY <2>1, <2>2, <2>3, <2>4, <2>5, <2>6, <2>7, <2>8, <2>9, <2>10, <2>11, <2>12, <2>13, <2>14, <2>15, <2>16, <2>17, <2>18, <2>19, <2>20, <2>21, <2>22 DEF Next, Closure, Timer, Rpc, Network
<1>3. QED
  BY <1>1, <1>2, PTL DEF Spec

\* What a keeper transaction takes out of the shared contract balance was put
\* there by the same run, once per payment, for any number of runs.
THEOREM DistributionIsBacked == Spec => []DistributionBacked
<1>1. IInv => DistributionBacked
  BY DEF IInv, DistributeAfterDeposit, DepositsOnce, DistributionBacked
<1>2. QED
  BY <1>1, Invariance, PTL

\* No caller is told success about a payment that is not settled.
THEOREM SuccessIsSettled == Spec => []SuccessMeansSettled
<1>1. IInv => SuccessMeansSettled
  BY DEF IInv
<1>2. QED
  BY <1>1, Invariance, PTL

-----------------------------------------------------------------------------
(* Refinement of Settlement.  Only two kinds of step are visible: the ledger *)
(* executing a deposit or a distribute, and a run answering success.         *)

\* A step that changes neither what has landed nor what is split keeps the phases.
LEMMA PhaseKept ==
  ASSUME landed' = landed, Split' = Split
  PROVE  Phase' = Phase
BY DEF Phase

\* A step that neither starts a job on a run with a distribute on the ledger
\* nor has the ledger execute a distribute leaves Split alone.
LEMMA SplitKept ==
  ASSUME \A j \in Runs : tx'[j]["distribute"] = "applied" <=> tx[j]["distribute"] = "applied",
         \A j \in Runs : tx[j]["distribute"] = "applied" => job'[j] = job[j]
  PROVE  Split' = Split
BY DEF Split

\* Every step of the relayer is a step of Settlement or leaves it alone.
LEMMA RefinementStep == IInv /\ IInv' /\ [Next]_vars => [Promise!Next]_<<Phase, answered>>
<1> SUFFICES ASSUME IInv, IInv', [Next]_vars
             PROVE  [Promise!Next]_<<Phase, answered>>
  OBVIOUS
<1> USE DEF relayerVars, ledgerVars
<1>q. ASSUME landed' = landed, Split' = Split, answered' = answered
      PROVE  [Promise!Next]_<<Phase, answered>>
  BY <1>q, PhaseKept
<1>1. ASSUME NEW i \in Runs, NEW p \in Payments, Settle(i, p)
      PROVE  [Promise!Next]_<<Phase, answered>>
  <2>1. Split' = Split
    BY <1>1, SplitKept DEF Settle, IInv, TypeOK, CallsAndTxs, NothingCalledYet, Steps
  <2>2. QED
    BY <1>1, <1>q, <2>1 DEF Settle
<1>2. ASSUME NEW i \in Runs, RegisterCreator(i)
      PROVE  [Promise!Next]_<<Phase, answered>>
  <2>1. Split' = Split
    BY <1>2, SplitKept DEF RegisterCreator, IInv, TypeOK, CallsAndTxs, NothingCalledYet, Steps
  <2>2. QED
    BY <1>2, <1>q, <2>1 DEF RegisterCreator
<1>3. ASSUME NEW i \in Runs, Start(i)
      PROVE  [Promise!Next]_<<Phase, answered>>
  <2>1. Split' = Split
    BY <1>3, SplitKept DEF Start, IInv, TypeOK, CallsAndTxs, NothingCalledYet, Steps
  <2>2. QED
    BY <1>3, <1>q, <2>1 DEF Start
<1>4. ASSUME NEW i \in Runs, SubmitDone(i)
      PROVE  [Promise!Next]_<<Phase, answered>>
  <2>1. Split' = Split
    BY <1>4, SplitKept DEF SubmitDone, IInv, TypeOK, CallsAndTxs, NothingCalledYet, Steps
  <2>2. QED
    BY <1>4, <1>q, <2>1 DEF SubmitDone
<1>5. ASSUME NEW i \in Runs, RegisterDone(i)
      PROVE  [Promise!Next]_<<Phase, answered>>
  <2>1. Split' = Split
    BY <1>5, SplitKept DEF RegisterDone, IInv, TypeOK, CallsAndTxs, NothingCalledYet, Steps
  <2>2. QED
    BY <1>5, <1>q, <2>1 DEF RegisterDone
<1>6. ASSUME NEW i \in Runs, HolderFails(i)
      PROVE  [Promise!Next]_<<Phase, answered>>
  <2>1. Split' = Split
    BY <1>6, SplitKept DEF HolderFails, IInv, TypeOK, CallsAndTxs, NothingCalledYet, Steps
  <2>2. QED
    BY <1>6, <1>q, <2>1 DEF HolderFails, Fail
<1>7. ASSUME NEW i \in Runs, TimeoutInClosure(i)
      PROVE  [Promise!Next]_<<Phase, answered>>
  <2>1. Split' = Split
    BY <1>7, SplitKept DEF TimeoutInClosure, IInv, TypeOK, CallsAndTxs, NothingCalledYet, Steps
  <2>2. QED
    BY <1>7, <1>q, <2>1 DEF TimeoutInClosure, Fail
<1>8. ASSUME NEW i \in Runs, TimeoutOfCaller(i)
      PROVE  [Promise!Next]_<<Phase, answered>>
  <2>1. Split' = Split
    BY <1>8, SplitKept DEF TimeoutOfCaller, IInv, TypeOK, CallsAndTxs, NothingCalledYet, Steps
  <2>2. QED
    BY <1>8, <1>q, <2>1 DEF TimeoutOfCaller, Fail
<1>9. ASSUME NEW i \in Runs, NEW s \in Steps, LoadAccount(i, s)
      PROVE  [Promise!Next]_<<Phase, answered>>
  <2>1. Split' = Split
    BY <1>9, SplitKept DEF LoadAccount, IInv, TypeOK, CallsAndTxs, NothingCalledYet, Steps
  <2>2. QED
    BY <1>9, <1>q, <2>1 DEF LoadAccount
<1>10. ASSUME NEW i \in Runs, NEW s \in Steps, Simulate(i, s)
      PROVE  [Promise!Next]_<<Phase, answered>>
  <2>1. Split' = Split
    BY <1>10, SplitKept DEF Simulate, IInv, TypeOK, CallsAndTxs, NothingCalledYet, Steps
  <2>2. QED
    BY <1>10, <1>q, <2>1 DEF Simulate
<1>11. ASSUME NEW i \in Runs, NEW s \in Steps, Send(i, s)
      PROVE  [Promise!Next]_<<Phase, answered>>
  <2>1. Split' = Split
    BY <1>11, SplitKept DEF Send, IInv, TypeOK, CallsAndTxs, NothingCalledYet, Steps
  <2>2. QED
    BY <1>11, <1>q, <2>1 DEF Send
<1>12. ASSUME NEW i \in Runs, NEW s \in Steps, Confirm(i, s)
      PROVE  [Promise!Next]_<<Phase, answered>>
  <2>1. Split' = Split
    BY <1>12, SplitKept DEF Confirm, IInv, TypeOK, CallsAndTxs, NothingCalledYet, Steps
  <2>2. QED
    BY <1>12, <1>q, <2>1 DEF Confirm
<1>13. ASSUME NEW i \in Runs, NEW s \in Steps, CallFails(i, s)
      PROVE  [Promise!Next]_<<Phase, answered>>
  <2>1. Split' = Split
    BY <1>13, SplitKept DEF CallFails, IInv, TypeOK, CallsAndTxs, NothingCalledYet, Steps
  <2>2. QED
    BY <1>13, <1>q, <2>1 DEF CallFails
<1>14. ASSUME NEW i \in Runs, NEW s \in Steps, Revert(i, s)
      PROVE  [Promise!Next]_<<Phase, answered>>
  <2>1. Split' = Split
    BY <1>14, SplitKept DEF Revert, IInv, TypeOK, CallsAndTxs, NothingCalledYet, Steps
  <2>2. QED
    BY <1>14, <1>q, <2>1 DEF Revert
<1>15. ASSUME NEW i \in Runs, NEW s \in Steps, Drop(i, s)
      PROVE  [Promise!Next]_<<Phase, answered>>
  <2>1. Split' = Split
    BY <1>15, SplitKept DEF Drop, IInv, TypeOK, CallsAndTxs, NothingCalledYet, Steps
  <2>2. QED
    BY <1>15, <1>q, <2>1 DEF Drop
<1>16. ASSUME NEW p \in Payments, Expire(p)
      PROVE  [Promise!Next]_<<Phase, answered>>
  <2>1. Split' = Split
    BY <1>16, SplitKept DEF Expire, IInv, TypeOK, CallsAndTxs, NothingCalledYet, Steps
  <2>2. QED
    BY <1>16, <1>q, <2>1 DEF Expire
<1>17. ASSUME Restart
      PROVE  [Promise!Next]_<<Phase, answered>>
  <2>1. Split' = Split
    BY <1>17, SplitKept DEF Restart, IInv, TypeOK, CallsAndTxs, NothingCalledYet, Steps
  <2>2. QED
    BY <1>17, <1>q, <2>1 DEF Restart
<1>t. ASSUME NEW i \in Runs, job[i] \in Payments, answered' = answered \cup {job[i]},
             UNCHANGED <<landed, tx, job>>
      PROVE  [Promise!Next]_<<Phase, answered>>
  <2>1. Phase' = Phase
    BY <1>t, PhaseKept DEF Split
  <2>2. SuccessMeansSettled'
    BY DEF IInv
  <2>3. Phase[job[i]] = "settled"
    BY <1>t, <2>2 DEF Phase, SuccessMeansSettled, Split
  <2>4. Promise!Tell(job[i])
    BY <1>t, <2>1, <2>3 DEF Promise!Tell
  <2>5. QED
    BY <1>t, <2>4 DEF Promise!Next
<1>18. ASSUME NEW i \in Runs, DistributeDone(i)
      PROVE  [Promise!Next]_<<Phase, answered>>
  BY <1>18, <1>t DEF DistributeDone, Succeed, Settles
<1>19. ASSUME NEW i \in Runs, SponsorDone(i)
      PROVE  [Promise!Next]_<<Phase, answered>>
  <2>1. CASE Succeed(i)
    BY <1>19, <2>1, <1>t DEF SponsorDone, Succeed, Settles
  <2>2. CASE answered' = answered
    BY <1>19, <2>2, <1>q DEF SponsorDone, Split
  <2>3. QED
    BY <1>19, <2>1, <2>2 DEF SponsorDone
<1>20. ASSUME NEW i \in Runs, PresignedDone(i)
      PROVE  [Promise!Next]_<<Phase, answered>>
  <2>1. CASE Succeed(i)
    BY <1>20, <2>1, <1>t DEF PresignedDone, Succeed, Settles
  <2>2. CASE Fail(i)
    BY <1>20, <2>2, <1>q DEF PresignedDone, Fail, Split
  <2>3. QED
    BY <1>20, <2>1, <2>2 DEF PresignedDone
<1>21. ASSUME NEW i \in Runs, NEW s \in Steps, Apply(i, s)
      PROVE  [Promise!Next]_<<Phase, answered>>
  <2> DEFINE p == job[i]
  <2>1. CASE s = "submit"
    <3>1. /\ p \in Payments /\ p \notin landed
          /\ landed' = landed \cup {p} /\ answered' = answered
          /\ job' = job
          /\ tx' = [tx EXCEPT ![i]["submit"] = "applied"]
      BY <1>21, <2>1 DEF Apply, Executable
    <3>2. Split' = Split
      <4>1. tx \in [Runs -> [Steps -> Txs]]
        BY DEF IInv, TypeOK
      <4>2. \A j \in Runs : tx'[j]["distribute"] = tx[j]["distribute"]
        BY <3>1, <4>1 DEF Steps
      <4>3. QED
        BY <3>1, <4>2, SplitKept
    <3>3. p \notin Split
      BY <3>1 DEF Split, IInv, DistributeAfterDeposit, DepositsOnce
    <3>4. Phase[p] = "unpaid"
      BY <3>1 DEF Phase
    <3>5. Phase' = [Phase EXCEPT ![p] = IF Kind[p] = "pooled" THEN "deposited" ELSE "settled"]
      BY <3>1, <3>2, <3>3 DEF Phase
    <3>6. CASE Kind[p] = "pooled"
      <4>1. Promise!Deposit(p)
        BY <3>1, <3>4, <3>5, <3>6 DEF Promise!Deposit
      <4>2. QED
        BY <3>1, <4>1 DEF Promise!Next
    <3>7. CASE Kind[p] # "pooled"
      <4>1. Promise!PayDirectly(p)
        BY <3>1, <3>4, <3>5, <3>7 DEF Promise!PayDirectly
      <4>2. QED
        BY <3>1, <4>1 DEF Promise!Next
    <3>8. QED
      BY <3>6, <3>7
  <2>2. CASE s = "distribute"
    <3>1. /\ landed' = landed /\ answered' = answered /\ job' = job
          /\ tx[i]["distribute"] = "pending"
          /\ tx' = [tx EXCEPT ![i]["distribute"] = "applied"]
      BY <1>21, <2>2 DEF Apply
    <3>2. p \in Payments /\ Kind[p] = "pooled" /\ p \in landed /\ tx[i]["submit"] = "applied"
      BY <3>1 DEF IInv, DistributeAfterDeposit, DepositsOnce, Settles
    <3>3. p \notin Split
      BY <3>1, <3>2 DEF Split, IInv, DistributeAfterDeposit, DepositsOnce
    <3>4. Split' = Split \cup {p}
      BY <3>1 DEF Split, IInv, TypeOK, Steps
    <3>5. Phase[p] = "deposited"
      BY <3>2, <3>3 DEF Phase
    <3>6. Phase' = [Phase EXCEPT ![p] = "settled"]
      BY <3>1, <3>2, <3>4 DEF Phase
    <3>7. Promise!Split(p)
      BY <3>1, <3>5, <3>6 DEF Promise!Split
    <3>8. QED
      BY <3>2, <3>7 DEF Promise!Next
  <2>3. CASE s = "register"
    <3>1. Split' = Split
      BY <1>21, <2>3, SplitKept DEF Apply, IInv, TypeOK, Steps
    <3>2. QED
      BY <1>21, <2>3, <3>1, <1>q DEF Apply
  <2>4. QED
    BY <2>1, <2>2, <2>3 DEF Steps
<1>22. CASE UNCHANGED vars
  BY <1>22, <1>q DEF vars, Split
<1>23. QED
  BY <1>1, <1>2, <1>3, <1>4, <1>5, <1>6, <1>7, <1>8, <1>9, <1>10, <1>11, <1>12, <1>13, <1>14, <1>15, <1>16, <1>17, <1>18, <1>19, <1>20, <1>21, <1>22 DEF Next, Closure, Timer, Rpc, Network

\* The relayer implements Settlement, so a payment's money moves forward only
\* and once, and success is told about settled payments only.
THEOREM RelayerImplementsSettlement == Spec => PromiseKept
<1>1. Init => Promise!Init
  BY DEF Init, Promise!Init, Phase
<1>2. Init /\ [][Next]_vars /\ []IInv => Promise!Init /\ [][Promise!Next]_<<Phase, answered>>
  BY <1>1, RefinementStep, PTL
<1>3. QED
  BY <1>2, Invariance, PTL DEF Spec, PromiseKept, Promise!Spec, Promise!svars

-----------------------------------------------------------------------------
(* Several instances sharing one Redis, for any instances, keys, crashes, clients of *)
(* the lock without a timer, and any times with HoldLimit < LockTtl.                 *)
(*                                                                                   *)
(* The lock is a lease: nothing but its TTL takes it away from a closure that runs.  *)
(* HoldersHold counts it down against the hold: what is left of the lock and what    *)
(* has passed of the hold are together the TTL, so that withTimeout fires first.     *)

\* Whoever is under the lock holds it, and for no longer than it lasts.
HoldsLock(i, k) ==
  /\ lock = <<i, k>>
  /\ lockLeft + age[i][k] = LockTtl
  /\ age[i][k] <= HoldLimit

HoldersHold == \A i \in Instances, k \in Keys : pc[i][k] = "body" => HoldsLock(i, k)

RedisInv == RedisTypeOK /\ HoldersHold

\* The initial state satisfies the invariant.
LEMMA RedisInitial == RedisInit => RedisInv
BY TimesAssumption, TokensAssumption, BoundsAssumption
   DEF RedisInit, Each, RedisInv, RedisTypeOK, Pcs, HoldersHold

\* What an update of one request's entry is, and leaves alone.
LEMMA EntryUpdate ==
  ASSUME NEW S, NEW f \in [Instances -> [Keys -> S]],
         NEW i \in Instances, NEW k \in Keys, NEW v \in S
  PROVE  /\ [f EXCEPT ![i][k] = v] \in [Instances -> [Keys -> S]]
         /\ [f EXCEPT ![i][k] = v][i][k] = v
         /\ \A j \in Instances, l \in Keys : ~(j = i /\ l = k) => [f EXCEPT ![i][k] = v][j][l] = f[j][l]
OBVIOUS

\* A request that goes on: its own entry says where it is, the others say what they said.
LEMMA Moves ==
  ASSUME RedisTypeOK, NEW i \in Instances, NEW k \in Keys, NEW from \in Pcs, NEW to \in Pcs,
         Goto(i, k, from, to)
  PROVE  /\ pc' \in [Instances -> [Keys -> Pcs]]
         /\ pc[i][k] = from /\ pc'[i][k] = to
         /\ \A j \in Instances, l \in Keys : ~(j = i /\ l = k) => pc'[j][l] = pc[j][l]
<1>1. pc \in [Instances -> [Keys -> Pcs]]
  BY DEF RedisTypeOK
<1>2. QED
  BY <1>1, EntryUpdate DEF Goto

\* Every step of a request keeps the types.
LEMMA RequestTypes ==
  ASSUME RedisTypeOK, NEW i \in Instances, NEW k \in Keys, SettleOnce(i, k) \/ Step(i, k)
  PROVE  RedisTypeOK'
<1> USE DEF redisVars, boundVars
<1>r. \A v \in {"none", "ok", "err"} :
        [result EXCEPT ![i][k] = v] \in [Instances -> [Keys -> {"none", "ok", "err"}]]
  BY EntryUpdate DEF RedisTypeOK
<1>a. [age EXCEPT ![i][k] = 0] \in [Instances -> [Keys -> Nat]]
  BY EntryUpdate DEF RedisTypeOK
<1>1. CASE SettleOnce(i, k)
  <2>1. pc' \in [Instances -> [Keys -> Pcs]]
    BY <1>1, Moves DEF SettleOnce, Pcs
  <2>2. requests' \in 0..MaxRequests
    BY <1>1, BoundsAssumption DEF SettleOnce, RedisTypeOK
  <2>3. QED
    BY <1>1, <2>1, <2>2 DEF SettleOnce, RedisTypeOK
<1>2. CASE ReadCache(i, k)
  <2>1. pc' \in [Instances -> [Keys -> Pcs]]
    BY <1>2, Moves DEF ReadCache, Pcs
  <2>2. QED
    BY <1>2, <2>1 DEF ReadCache, RedisTypeOK
<1>3. CASE Claim(i, k)
  <2>1. pc' \in [Instances -> [Keys -> Pcs]]
    BY <1>3, Moves DEF Claim, Pcs
  <2>2. /\ marker' \in [Keys -> Instances \cup {NoToken}] /\ markerLeft' \in [Keys -> 0..MarkerTtl]
        /\ \A l \in Keys : marker'[l] = NoToken <=> markerLeft'[l] = 0
    <3>1. CASE marker' = [marker EXCEPT ![k] = i] /\ markerLeft' = [markerLeft EXCEPT ![k] = MarkerTtl]
      <4>1. i # NoToken /\ MarkerTtl \in 0..MarkerTtl /\ MarkerTtl # 0
        BY TimesAssumption, TokensAssumption
      <4>2. QED
        BY <3>1, <4>1 DEF RedisTypeOK
    <3>2. CASE UNCHANGED <<marker, markerLeft>>
      BY <3>2 DEF RedisTypeOK
    <3>3. QED
      BY <1>3, <3>1, <3>2 DEF Claim
  <2>3. QED
    BY <1>3, <2>1, <2>2 DEF Claim, RedisTypeOK
<1>4. CASE Acquire(i, k)
  <2>1. <<i, k>> \in Instances \X Keys /\ <<i, k>> # NoToken
    BY TokensAssumption
  <2>2. pc' \in [Instances -> [Keys -> Pcs]]
    BY <1>4, Moves DEF Acquire, Pcs
  <2>3. /\ result' \in [Instances -> [Keys -> {"none", "ok", "err"}]]
        /\ age' \in [Instances -> [Keys -> Nat]]
    BY <1>4, <1>r, <1>a DEF Acquire, RedisTypeOK
  <2>4. /\ lock' \in (Instances \X Keys) \cup {NoToken, Other} /\ lockLeft' \in 0..LockTtl
        /\ lock' = NoToken <=> lockLeft' = 0
    BY <1>4, <2>1, TimesAssumption DEF Acquire, RedisTypeOK
  <2>5. QED
    BY <1>4, <2>2, <2>3, <2>4 DEF Acquire, RedisTypeOK
<1>5. CASE EndBody(i, k)
  <2>1. pc' \in [Instances -> [Keys -> Pcs]]
    BY <1>5, Moves DEF EndBody, Pcs
  <2>2. /\ result' \in [Instances -> [Keys -> {"none", "ok", "err"}]]
        /\ age' \in [Instances -> [Keys -> Nat]] /\ consumed' \subseteq Keys
    <3>1. age' = [age EXCEPT ![i][k] = 0] /\ consumed' \subseteq Keys
      BY <1>5 DEF EndBody, RedisTypeOK
    <3>2. \E v \in {"none", "ok", "err"} : result' = [result EXCEPT ![i][k] = v]
      BY <1>5 DEF EndBody
    <3>3. QED
      BY <3>1, <3>2, <1>r, <1>a
  <2>3. QED
    BY <1>5, <2>1, <2>2 DEF EndBody, RedisTypeOK
<1>6. CASE ReleaseLock(i, k)
  <2>1. pc' \in [Instances -> [Keys -> Pcs]]
    BY <1>6, Moves DEF ReleaseLock, Pcs
  <2>2. /\ lock' \in (Instances \X Keys) \cup {NoToken, Other} /\ lockLeft' \in 0..LockTtl
        /\ lock' = NoToken <=> lockLeft' = 0
    BY <1>6, TimesAssumption DEF ReleaseLock, RedisTypeOK
  <2>3. QED
    BY <1>6, <2>1, <2>2 DEF ReleaseLock, RedisTypeOK
<1>7. CASE Store(i, k)
  <2>1. pc' \in [Instances -> [Keys -> Pcs]]
    BY <1>7, Moves DEF Store, Pcs
  <2>2. QED
    BY <1>7, <2>1 DEF Store, RedisTypeOK
<1>8. CASE Unmark(i, k)
  <2>1. pc' \in [Instances -> [Keys -> Pcs]]
    BY <1>8, Moves DEF Unmark, Pcs
  <2>2. result' \in [Instances -> [Keys -> {"none", "ok", "err"}]]
    BY <1>8, <1>r DEF Unmark
  <2>3. /\ marker' \in [Keys -> Instances \cup {NoToken}] /\ markerLeft' \in [Keys -> 0..MarkerTtl]
        /\ \A l \in Keys : marker'[l] = NoToken <=> markerLeft'[l] = 0
    <3>1. CASE marker' = [marker EXCEPT ![k] = NoToken] /\ markerLeft' = [markerLeft EXCEPT ![k] = 0]
      BY <3>1, TimesAssumption DEF RedisTypeOK
    <3>2. CASE UNCHANGED <<marker, markerLeft>>
      BY <3>2 DEF RedisTypeOK
    <3>3. QED
      BY <1>8, <3>1, <3>2 DEF Unmark
  <2>4. QED
    BY <1>8, <2>1, <2>2, <2>3 DEF Unmark, RedisTypeOK
<1>9. QED
  BY <1>1, <1>2, <1>3, <1>4, <1>5, <1>6, <1>7, <1>8 DEF Step

\* Every other step does.
LEMMA OtherTypes ==
  ASSUME RedisTypeOK, (\E i \in Instances : Crash(i)) \/ OtherTakes \/ OtherEnds \/ Tick
  PROVE  RedisTypeOK'
<1> USE DEF redisVars, boundVars
<1>1. CASE \E i \in Instances : Crash(i)
  BY <1>1, BoundsAssumption DEF Crash, RedisTypeOK, Pcs
<1>2. CASE OtherTakes \/ OtherEnds
  BY <1>2, TimesAssumption, TokensAssumption DEF OtherTakes, OtherEnds, RedisTypeOK
<1>3. CASE Tick
  <2>1. \A n \in Nat : Less(n) \in Nat /\ Less(n) <= n /\ (Less(n) = 0 <=> n <= 1)
    BY DEF Less
  <2>2. age' \in [Instances -> [Keys -> Nat]]
    BY <1>3 DEF Tick, RedisTypeOK
  <2>3. /\ markerLeft' \in [Keys -> 0..MarkerTtl]
        /\ marker' \in [Keys -> Instances \cup {NoToken}]
        /\ \A k \in Keys : marker'[k] = NoToken <=> markerLeft'[k] = 0
    BY <1>3, <2>1, TimesAssumption DEF Tick, RedisTypeOK, Until
  <2>4. /\ lockLeft' \in 0..LockTtl
        /\ lock' \in (Instances \X Keys) \cup {NoToken, Other}
        /\ lock' = NoToken <=> lockLeft' = 0
    BY <1>3, <2>1, TimesAssumption DEF Tick, RedisTypeOK, Until
  <2>5. QED
    BY <1>3, <2>2, <2>3, <2>4 DEF Tick, RedisTypeOK
<1>4. QED
  BY <1>1, <1>2, <1>3

\* Every step keeps the lock with its holder.
LEMMA HoldersStep == RedisInv /\ [RedisNext]_allVars => HoldersHold'
<1> SUFFICES ASSUME RedisInv, [RedisNext]_allVars, NEW i \in Instances, NEW k \in Keys, pc'[i][k] = "body"
             PROVE  HoldsLock(i, k)'
  BY DEF HoldersHold
<1> USE DEF redisVars, boundVars
<1>0. RedisTypeOK /\ (pc[i][k] = "body" => HoldsLock(i, k))
  BY DEF RedisInv, HoldersHold
<1>1. ASSUME NEW j \in Instances, NEW l \in Keys, Acquire(j, l)
      PROVE  HoldsLock(i, k)'
  <2>1. CASE i = j /\ k = l
    <3>1. pc[i][k] # "body"
      BY <1>0, <1>1, <2>1, Moves DEF Acquire, Pcs
    <3>2. lock' = <<i, k>> /\ lockLeft' = LockTtl /\ age' = [age EXCEPT ![i][k] = 0]
      BY <1>0, <1>1, <2>1, Moves DEF Acquire, Pcs
    <3>3. age'[i][k] = 0
      BY <1>0, <3>2, EntryUpdate DEF RedisTypeOK
    <3>4. QED
      BY <3>2, <3>3, TimesAssumption DEF HoldsLock
  <2>2. CASE ~(i = j /\ k = l)
    <3>1. pc[i][k] = "body" /\ age'[i][k] = age[i][k]
      <4>1. age'[i][k] = age[i][k]
        BY <1>0, <1>1, <2>2, EntryUpdate DEF Acquire, RedisTypeOK
      <4>2. pc'[i][k] = pc[i][k]
        BY <1>0, <1>1, <2>2, Moves DEF Acquire, Pcs
      <4>3. QED
        BY <4>1, <4>2
    <3>2. lock # NoToken
      BY <1>0, <3>1, TokensAssumption DEF HoldsLock
    <3>3. QED
      BY <1>0, <1>1, <3>1, <3>2 DEF Acquire, HoldsLock
  <2>3. QED
    BY <2>1, <2>2
<1>2. ASSUME NEW j \in Instances, NEW l \in Keys, ReleaseLock(j, l)
      PROVE  HoldsLock(i, k)'
  <2>1. pc[i][k] = "body" /\ ~(i = j /\ k = l)
    BY <1>0, <1>2, Moves DEF ReleaseLock, Pcs
  <2>2. lock # <<j, l>>
    BY <1>0, <2>1 DEF HoldsLock
  <2>3. QED
    BY <1>0, <1>2, <2>1, <2>2 DEF ReleaseLock, HoldsLock
<1>3. ASSUME NEW j \in Instances, NEW l \in Keys,
             SettleOnce(j, l) \/ ReadCache(j, l) \/ Claim(j, l) \/ EndBody(j, l)
               \/ Store(j, l) \/ Unmark(j, l)
      PROVE  HoldsLock(i, k)'
  <2>1. pc[i][k] = "body" /\ age'[i][k] = age[i][k] /\ UNCHANGED <<lock, lockLeft>>
    <3>1. UNCHANGED <<lock, lockLeft>> /\ (~(i = j /\ k = l) => age'[i][k] = age[i][k])
      BY <1>0, <1>3, EntryUpdate DEF SettleOnce, ReadCache, Claim, EndBody, Store, Unmark, RedisTypeOK
    <3>2. pc'[j][l] # "body" /\ (~(i = j /\ k = l) => pc'[i][k] = pc[i][k])
      BY <1>0, <1>3, Moves DEF SettleOnce, ReadCache, Claim, EndBody, Store, Unmark, Pcs
    <3>3. QED
      BY <3>1, <3>2
  <2>2. QED
    BY <1>0, <2>1 DEF HoldsLock
<1>4. ASSUME NEW j \in Instances, Crash(j)
      PROVE  HoldsLock(i, k)'
  <2>1. pc[i][k] = "body" /\ age'[i][k] = age[i][k] /\ UNCHANGED <<lock, lockLeft>>
    BY <1>0, <1>4 DEF Crash, RedisTypeOK
  <2>2. QED
    BY <1>0, <2>1 DEF HoldsLock
<1>5. CASE OtherTakes \/ OtherEnds
  <2>1. pc[i][k] = "body" /\ lock = <<i, k>> /\ <<i, k>> \in Instances \X Keys
    BY <1>0, <1>5 DEF OtherTakes, OtherEnds, HoldsLock
  <2>2. QED
    BY <1>5, <2>1, TokensAssumption DEF OtherTakes, OtherEnds
<1>6. CASE Tick
  <2>1. pc[i][k] = "body" /\ age[i][k] < HoldLimit
    BY <1>6 DEF Tick, TimeMayPass
  <2>2. age'[i][k] = age[i][k] + 1
    BY <1>6, <2>1 DEF Tick, Timed
  <2>3. lockLeft >= 2 /\ lockLeft' = lockLeft - 1 /\ lock' = lock
    BY <1>0, <1>6, <2>1, TimesAssumption DEF Tick, Less, Until, HoldsLock, RedisTypeOK
  <2>4. lock = <<i, k>> /\ lockLeft + age[i][k] = LockTtl /\ age[i][k] \in Nat
        /\ lockLeft \in Nat
    BY <1>0, <2>1 DEF HoldsLock, RedisTypeOK
  <2>5. QED
    BY <2>1, <2>2, <2>3, <2>4, TimesAssumption DEF HoldsLock
<1>7. CASE UNCHANGED allVars
  BY <1>0, <1>7 DEF allVars, HoldsLock
<1>8. QED
  BY <1>1, <1>2, <1>3, <1>4, <1>5, <1>6, <1>7 DEF RedisNext, Step

-----------------------------------------------------------------------------
\* Whoever works under the lock holds it in Redis, with what is left of its TTL, in every
\* reachable state (RedisLock of lock.ts): RedisTypeOK and HoldersHold.
THEOREM RedisInvariance == RedisSpec => []RedisInv
<1>1. RedisInv /\ [RedisNext]_allVars => RedisTypeOK'
  BY RequestTypes, OtherTypes DEF RedisInv, RedisNext, allVars, RedisTypeOK
<1>2. RedisInv /\ [RedisNext]_allVars => RedisInv'
  BY <1>1, HoldersStep DEF RedisInv
<1>3. QED
  BY RedisInitial, <1>2, PTL DEF RedisSpec

\* The state keeps its types; a token is in Redis while its TTL runs.
THEOREM RedisTypeCorrect == RedisSpec => []RedisTypeOK
<1>1. RedisInv => RedisTypeOK
  BY DEF RedisInv
<1>2. QED
  BY <1>1, RedisInvariance, PTL

\* No two pooled settles are under the facilitator lock at once, on any instances.
THEOREM HoldsExclude == RedisSpec => []BoundedHoldsExclude
<1>1. RedisInv => BoundedHoldsExclude
  <2> SUFFICES ASSUME RedisInv, NEW i \in Instances, NEW j \in Instances,
                      NEW k \in Keys, NEW l \in Keys,
                      pc[i][k] = "body", pc[j][l] = "body"
               PROVE  i = j /\ k = l
    BY DEF BoundedHoldsExclude
  <2>1. lock = <<i, k>> /\ lock = <<j, l>>
    BY DEF RedisInv, HoldersHold, HoldsLock
  <2>2. QED
    BY <2>1
<1>2. QED
  BY <1>1, RedisInvariance, PTL
=============================================================================
