-------------------------- MODULE ExactSchemeProofs --------------------------
(***************************************************************************)
(* Proofs about ExactScheme, for any number of calls, signers, payloads    *)
(* and failures, and any times and fees.                                   *)
(*                                                                         *)
(* A transaction belongs to the one call whose submission the network took *)
(* (Unique); from then on it is in the pool, in a ledger, or too late for  *)
(* one (CallOk).  A payload is good for one ledger entry (LandedOk).       *)
(***************************************************************************)
EXTENDS ExactScheme, FiniteSetTheorems, TLAPS

Pcs == {"idle", "simulate", "window", "account", "send", "poll", "done"}
CallRecords ==
  [pc : Pcs, payload : Payloads \cup {None}, asked : Amounts \cup {None},
   signer : Signers \cup {None}, tx : Transactions \cup {None}, polls : Nat, wake : Nat,
   estimate : Nat, answer : Refusals \cup Failures \cup {"success", None}]

Types ==
  /\ now \in Nat
  /\ payloads \subseteq Payloads /\ IsFiniteSet(payloads)
  /\ calls \in [Calls -> CallRecords]
  /\ turn \in Nat
  /\ seqno \in [Signers -> Nat]
  /\ pool \subseteq Transactions
  /\ landed \subseteq [tx : Transactions, ok : BOOLEAN, at : Nat]

WellFormed(k) == Malformed(k.payload, k.asked) = None /\ k.payload.moves = 1

\* A call that has submitted its transaction, or was answered after that.
Mine(k) == k.pc = "poll" \/ (k.pc = "done" /\ k.tx # None)

\* What the record of a call says: what was verified, until when its transaction is
\* good, and where that is.
CallOk(k) ==
  /\ k.pc # "idle" => k.payload \in payloads /\ k.asked \in Amounts
  /\ k.pc \in {"simulate", "window", "account", "send", "poll"} => Malformed(k.payload, k.asked) = None
  /\ k.pc \in {"window", "account", "send", "poll"} => k.payload.moves = 1
  /\ k.pc = "account" => k.signer \in Signers
  /\ k.pc \in {"send", "poll"} => k.tx # None
  /\ k.tx # None => /\ k.pc \in {"send", "poll", "done"}
                    /\ k.tx.payload = k.payload /\ WellFormed(k)
  /\ k.pc = "send" => k.tx.deadline <= now + Timeout
  /\ k.pc \notin {"poll", "done"} => k.polls = 0
  /\ k.pc = "poll" => k.wake + Timeout >= k.tx.deadline + k.polls
  /\ Mine(k) => k.tx \in pool \/ Landed(k.tx) # {} \/ now > k.tx.deadline
  /\ k.pc = "done" /\ k.tx # None => Landed(k.tx) # {} \/ now >= k.tx.deadline
  /\ k.answer = "success" => k.pc = "done" /\ k.tx # None /\ \E r \in Landed(k.tx) : r.ok

CallsOk == \A c \in Calls : CallOk(calls[c])

\* No two calls have submitted the same transaction.
Unique ==
  \A c, d \in Calls : Mine(calls[c]) /\ Mine(calls[d]) /\ calls[c].tx = calls[d].tx => c = d

\* What the network holds is in time and in no ledger.
PoolOk == \A tx \in pool : Landed(tx) = {} /\ now <= tx.deadline + CloseSeconds

\* A payload is used once.
LandedOk ==
  /\ \A r \in landed : r.at <= Ledger
  /\ \A r, s \in landed : r.ok /\ s.ok /\ r.tx.payload.id = s.tx.payload.id => r = s

IInv == Types /\ CallsOk /\ Unique /\ PoolOk /\ LandedOk

-----------------------------------------------------------------------------
(* Constants and time. *)

LEMMA Constants ==
  /\ Timeout \in Nat /\ LedgerSeconds \in Nat \ {0} /\ NSigners \in Nat \ {0} /\ MinFee \in Nat \ {0}
  /\ Estimates \subseteq Nat \ {0} /\ Amounts \subseteq Nat \ {0}
  /\ Networks \subseteq {"testnet", "pubnet"} /\ CloseSeconds \in Nat
  /\ MaxLag \in Nat /\ Tolerance \in Nat /\ SessionWindow \in Nat /\ BaseFee \in Nat
  /\ MaxFee \in Nat /\ SessionFee \in Nat
BY ExactConstants

\* The number of the ledger does not fall.
LEMMA LedgerRises ==
  ASSUME NEW a \in Nat, NEW b \in Nat, a <= b
  PROVE  a \div LedgerSeconds \in Nat /\ a \div LedgerSeconds <= b \div LedgerSeconds
<1> DEFINE d == LedgerSeconds
           p == a \div d
           q == b \div d
<1>1. d \in Nat \ {0}
  BY Constants
<1>2. /\ p \in Int /\ q \in Int /\ a = d * p + (a % d) /\ b = d * q + (b % d)
      /\ a % d \in 0..d - 1 /\ b % d \in 0..d - 1
  BY <1>1
<1>3. a % d \in Int /\ b % d \in Int /\ d \in Int
  BY <1>1, <1>2
<1> DEFINE r == a % d
           t == b % d
<1> HIDE DEF d, p, q, r, t
<1>4. /\ p \in Int /\ q \in Int /\ r \in 0..d - 1 /\ t \in 0..d - 1 /\ d \in Nat \ {0}
      /\ a = d * p + r /\ b = d * q + t
  BY <1>1, <1>2 DEF d, p, q, r, t
<1>5. p \in Nat
  <2> SUFFICES ASSUME p <= -1 PROVE FALSE
    BY <1>4
  <2>1. d * p <= d * (-1)
    BY <1>4
  <2>2. QED
    BY <1>4, <2>1
<1>6. p <= q
  <2> SUFFICES ASSUME q <= p - 1 PROVE FALSE
    BY <1>4
  <2>1. d * q <= d * (p - 1)
    BY <1>4
  <2>2. d * (p - 1) = d * p - d
    BY <1>4
  <2>3. QED
    BY <1>4, <2>1, <2>2
<1>7. QED
  BY <1>5, <1>6 DEF p, q, d

\* What a node may report, and how far a payment may need to hold.
LEMMA LatestLedger ==
  ASSUME Types
  PROVE  Ledger \in Nat /\ \A l \in Latest : l \in Nat /\ l <= Ledger /\ l + MaxLag >= Ledger
<1>1. Ledger \in Nat
  BY LedgerRises DEF Types, Ledger
<1>2. QED
  BY <1>1, Constants DEF Latest

LEMMA OffsetIsNat ==
  ASSUME NEW e \in Estimates \cup {LedgerSeconds}
  PROVE  Offset(e) \in Nat
<1> DEFINE n == Timeout + e - 1
           q == n \div e
<1>1. e \in Nat \ {0} /\ n \in Nat
  BY Constants
<1>2. q \in Int /\ n = e * q + (n % e) /\ n % e \in 0..e - 1
  BY <1>1
<1> DEFINE r == n % e
<1>3. q \in Int /\ n = e * q + r /\ r \in 0..e - 1 /\ n \in Nat /\ e \in Nat \ {0}
  BY <1>1, <1>2
<1> HIDE DEF n, q, r
<1>4. q \in Nat
  <2> SUFFICES ASSUME q <= -1 PROVE FALSE
    BY <1>3
  <2>1. e * q <= e * (-1)
    BY <1>3
  <2>2. QED
    BY <1>3, <2>1
<1>5. QED
  BY <1>4 DEF q, n, Offset, CeilDiv


-----------------------------------------------------------------------------
(* The steps. *)

LEMMA IdleRecord ==
  /\ Idle \in CallRecords /\ Idle.pc = "idle" /\ Idle.tx = None /\ Idle.answer = None
  /\ Idle.polls = 0
BY DEF Idle, CallRecords, Pcs

LEMMA Initial == Init => IInv
<1> SUFFICES ASSUME Init
             PROVE  IInv
  OBVIOUS
<1>1. Types
  BY IdleRecord, FS_EmptySet DEF Init, Types
<1>2. CallsOk
  <2>1. None # "success"
    BY NoneAssumption
  <2>2. QED
    BY <2>1, IdleRecord DEF Init, CallsOk, CallOk, Mine
<1>3. Unique /\ PoolOk /\ LandedOk
  BY IdleRecord DEF Init, Unique, Mine, PoolOk, LandedOk
<1>4. QED
  BY <1>1, <1>2, <1>3 DEF IInv

\* A step of one call, that leaves the world as it is but for what it submits.
LEMMA CallStep ==
  ASSUME IInv, NEW c \in Calls, NEW k \in CallRecords, calls' = [calls EXCEPT ![c] = k],
         UNCHANGED <<now, payloads, seqno, landed>>, turn' \in Nat,
         pool \subseteq pool', pool' \subseteq Transactions, PoolOk', CallOk(k)',
         \A d \in Calls \ {c} : Mine(k) /\ Mine(calls[d]) => calls[d].tx # k.tx
  PROVE  IInv'
<1>1. /\ calls' \in [Calls -> CallRecords] /\ calls'[c] = k
      /\ \A d \in Calls \ {c} : calls'[d] = calls[d]
  BY DEF IInv, Types
<1>2. Types'
  BY <1>1 DEF IInv, Types
<1>3. CallsOk'
  <2> SUFFICES ASSUME NEW d \in Calls
               PROVE  CallOk(calls[d])'
    BY DEF CallsOk
  <2>1. CASE d = c
    BY <1>1, <2>1 DEF CallOk, Mine, Landed
  <2>2. CASE d # c
    <3>1. CallOk(calls[d]) /\ calls'[d] = calls[d]
      BY <1>1, <2>2 DEF IInv, CallsOk
    <3>2. QED
      BY <3>1 DEF CallOk, Mine, Landed
  <2>3. QED
    BY <2>1, <2>2
<1>4. Unique'
  BY <1>1 DEF IInv, Unique, Mine
<1>5. LandedOk'
  BY DEF IInv, LandedOk, Ledger
<1>6. QED
  BY <1>2, <1>3, <1>4, <1>5 DEF IInv

\* A call that goes on, or is refused, before it submits anything.
LEMMA QuietStep ==
  ASSUME IInv, NEW c \in Calls, NEW k \in CallRecords, Call(c, k), turn' \in Nat,
         CallOk(k), ~Mine(k) \/ (k.tx = calls[c].tx /\ Mine(calls[c]))
  PROVE  IInv'
<1>1. calls' = [calls EXCEPT ![c] = k] /\ UNCHANGED <<now, payloads, pool, landed, seqno>>
  BY DEF Call
<1>2. PoolOk' /\ CallOk(k)'
  BY <1>1 DEF IInv, PoolOk, CallOk, Mine, Landed
<1>3. \A d \in Calls \ {c} : Mine(k) /\ Mine(calls[d]) => calls[d].tx # k.tx
  BY DEF IInv, Unique
<1>4. pool' \subseteq Transactions
  BY <1>1 DEF IInv, Types
<1>5. QED
  BY <1>1, <1>2, <1>3, <1>4, CallStep

\* A call that ends without a payment, before it submits anything.
LEMMA RefusalStep ==
  ASSUME IInv, NEW c \in Calls, calls[c].pc # "idle", NEW reason \in Refusals \cup Failures,
         NEW e \in Nat, (Answer(c, reason) /\ e = calls[c].estimate) \/ Refuse(c, reason, e),
         turn' \in Nat
  PROVE  IInv'
<1> DEFINE k == [calls[c] EXCEPT !.pc = "done", !.answer = reason, !.tx = None, !.estimate = e]
<1>1. /\ k \in CallRecords /\ k.pc = "done" /\ k.tx = None /\ k.answer = reason
      /\ k.payload = calls[c].payload /\ k.asked = calls[c].asked
  BY DEF IInv, Types, CallRecords, Pcs
<1>2. Call(c, k)
  <2>1. e = calls[c].estimate =>
          k = [calls[c] EXCEPT !.pc = "done", !.answer = reason, !.tx = None]
    BY DEF IInv, Types, CallRecords
  <2>2. QED
    BY <2>1 DEF Answer, Refuse
<1>3. reason # "success"
  BY DEF Refusals, Failures
<1> HIDE DEF k
<1>4. CallOk(k)
  BY <1>1, <1>3 DEF IInv, CallsOk, CallOk, Mine
<1>5. ~Mine(k)
  BY <1>1 DEF Mine
<1>6. QED
  BY <1>1, <1>2, <1>4, <1>5, QuietStep

\* What each check may answer.
LEMMA MalformedSays ==
  ASSUME NEW p \in Payloads, NEW asked
  PROVE  /\ Malformed(p, asked) \in Refusals \cup {None}
         /\ Malformed(p, asked) = None =>
              /\ p.envelope = "ok" /\ p.source # "facilitator" /\ p.call = "transfer"
              /\ p.asset = "usdc" /\ p.from # "facilitator" /\ p.to = "shop" /\ p.amount = asked
<1>1. None \notin Refusals
  BY NoneAssumption
<1>2. p.envelope \in Envelopes
  BY DEF Payloads
<1>3. p.envelope # "ok" => p.envelope \in Refusals
  BY <1>2 DEF Envelopes, Refusals
<1>4. {"unsafe_tx_or_op_source", "wrong_operation", "wrong_asset", "facilitator_is_payer",
       "wrong_recipient", "wrong_amount"} \subseteq Refusals
  BY DEF Refusals
<1>5. QED
  BY <1>1, <1>3, <1>4 DEF Malformed

LEMMA SimulationSays ==
  ASSUME NEW p \in Payloads, NEW l
  PROVE  /\ SimulationRefuses(p, l) \in Refusals \cup {None}
         /\ SimulationRefuses(p, l) = None => p.moves = 1
<1>1. None \notin Refusals
  BY NoneAssumption
<1>2. {"simulation_failed", "fee_below_minimum", "fee_exceeds_maximum", "no_transfer_events",
       "multiple_transfers"} \subseteq Refusals
  BY DEF Refusals
<1>3. p.moves \in 0 .. 2
  BY DEF Payloads
<1>4. /\ ValidateSimulationEvents(p) \in Refusals \cup {None}
      /\ ValidateSimulationEvents(p) = None => p.moves = 1
  BY <1>1, <1>2, <1>3 DEF ValidateSimulationEvents
<1>5. QED
  BY <1>1, <1>2, <1>4 DEF SimulationRefuses

LEMMA EntriesSay ==
  ASSUME NEW p \in Payloads, NEW m
  PROVE  ValidateAuthEntries(p, m) \in Refusals \cup {None}
<1>1. {"no_auth_entries", "unsupported_credential_type", "facilitator_in_auth",
       "signature_expiration_too_far", "has_subinvocations", "missing_payer_signature",
       "unexpected_pending_signatures"} \subseteq Refusals
  BY DEF Refusals
<1>2. QED
  BY <1>1 DEF ValidateAuthEntries

\* A call begins: its payload is of the scheme, or that is the answer.
LEMMA SettleStep ==
  ASSUME IInv, NEW c \in Calls, NEW p \in payloads, NEW asked \in Amounts, Settle(c, p, asked)
  PROVE  IInv'
<1> DEFINE reason == Malformed(p, asked)
           record == [Idle EXCEPT !.payload = p, !.asked = asked]
           k == IF reason = None THEN [record EXCEPT !.pc = "simulate"]
                ELSE [record EXCEPT !.pc = "done", !.answer = reason]
<1>1. p \in Payloads /\ Call(c, k) /\ turn' \in Nat
  BY DEF Settle, IInv, Types
<1>2. reason \in Refusals \cup {None} /\ None # "success" /\ "success" \notin Refusals
  BY <1>1, MalformedSays, NoneAssumption DEF Refusals
<1>3. /\ k \in CallRecords /\ k.payload = p /\ k.asked = asked /\ k.tx = None /\ k.polls = 0
      /\ k.answer # "success"
      /\ k.pc = "done" \/ (k.pc = "simulate" /\ reason = None)
  BY <1>1, <1>2 DEF Idle, CallRecords, Pcs
<1> HIDE DEF k
<1>4. CallOk(k)
  BY <1>3 DEF CallOk, Mine
<1>5. ~Mine(k)
  BY <1>3 DEF Mine
<1>6. QED
  BY <1>1, <1>3, <1>4, <1>5, QuietStep

LEMMA SimulateStep ==
  ASSUME IInv, NEW c \in Calls, SimulateTransaction(c)
  PROVE  IInv'
<1> DEFINE p == calls[c].payload
<1>1. PICK latest \in Latest :
        IF SimulationRefuses(p, latest) = None THEN Call(c, [calls[c] EXCEPT !.pc = "window"])
        ELSE Answer(c, SimulationRefuses(p, latest))
  BY DEF SimulateTransaction
<1>2. p \in Payloads /\ calls[c].pc = "simulate" /\ turn' \in Nat /\ CallOk(calls[c])
  BY DEF SimulateTransaction, IInv, Types, CallsOk, CallOk
<1>3. CASE SimulationRefuses(p, latest) # None
  <2>1. calls[c].estimate \in Nat
    BY DEF IInv, Types, CallRecords
  <2>2. QED
    BY <1>1, <1>2, <1>3, <2>1, SimulationSays, RefusalStep
<1>4. CASE SimulationRefuses(p, latest) = None
  <2> DEFINE k == [calls[c] EXCEPT !.pc = "window"]
  <2>1. /\ k \in CallRecords /\ k.pc = "window" /\ k.payload = p /\ k.asked = calls[c].asked
        /\ k.tx = calls[c].tx /\ k.polls = calls[c].polls /\ k.answer = calls[c].answer
    BY DEF IInv, Types, CallRecords, Pcs
  <2>2. Call(c, k) /\ p.moves = 1
    BY <1>1, <1>2, <1>4, SimulationSays
  <2> HIDE DEF k
  <2>3. CallOk(k)
    BY <1>2, <2>1, <2>2 DEF CallOk, Mine
  <2>4. ~Mine(k)
    BY <2>1 DEF Mine
  <2>5. QED
    BY <1>2, <2>1, <2>2, <2>3, <2>4, QuietStep
<1>5. QED
  BY <1>3, <1>4

LEMMA VerifiedStep ==
  ASSUME IInv, NEW c \in Calls, Verified(c)
  PROVE  IInv'
<1> DEFINE p == calls[c].payload
           s == 1 + (turn % NSigners)
           k == [calls[c] EXCEPT !.pc = "account", !.signer = s]
<1>1. PICK latest \in Latest, e \in Estimates :
        LET reason == ValidateAuthEntries(p, latest + Offset(e))
        IN  CASE reason # None -> Refuse(c, reason, e) /\ UNCHANGED turn
              [] ~p.data       -> Refuse(c, "no_soroban_data", e) /\ UNCHANGED turn
              [] OTHER         -> Call(c, k) /\ turn' = (turn + 1) % NSigners
  BY DEF Verified
<1>2. p \in Payloads /\ calls[c].pc = "window" /\ turn \in Nat /\ CallOk(calls[c])
  BY DEF Verified, IInv, Types, CallsOk, CallOk
<1>3. s \in Signers /\ (turn + 1) % NSigners \in Nat
  BY <1>2, Constants DEF Signers
<1>4. "no_soroban_data" \in Refusals
  BY DEF Refusals
<1> DEFINE reason == ValidateAuthEntries(p, latest + Offset(e))
<1>5. reason \in Refusals \cup {None}
  BY <1>2, EntriesSay
<1>6. \/ Refuse(c, reason, e) /\ reason \in Refusals /\ turn' \in Nat
      \/ Refuse(c, "no_soroban_data", e) /\ turn' \in Nat
      \/ Call(c, k) /\ turn' \in Nat
  <2> HIDE DEF reason, k
  <2>1. CASE reason # None
    BY <1>1, <1>2, <1>5, <2>1 DEF reason, k
  <2>2. CASE reason = None /\ ~p.data
    BY <1>1, <1>2, <1>5, <2>2 DEF reason, k
  <2>3. CASE reason = None /\ p.data
    BY <1>1, <1>3, <1>5, <2>3 DEF reason, k
  <2>4. QED
    BY <2>1, <2>2, <2>3
<1> HIDE DEF reason
<1>7. /\ k \in CallRecords /\ k.pc = "account" /\ k.payload = p /\ k.asked = calls[c].asked
      /\ k.tx = calls[c].tx /\ k.polls = calls[c].polls /\ k.answer = calls[c].answer
      /\ k.signer \in Signers
  BY <1>3 DEF IInv, Types, CallRecords, Pcs
<1> HIDE DEF k
<1>8. CallOk(k) /\ ~Mine(k)
  BY <1>2, <1>7 DEF CallOk, Mine
<1>9. QED
  BY <1>2, <1>4, <1>6, <1>7, <1>8, Constants, QuietStep, RefusalStep

LEMMA RebuildStep ==
  ASSUME IInv, NEW c \in Calls, Rebuild(c)
  PROVE  IInv'
<1> DEFINE s == calls[c].signer
           tx == [signer |-> s, seq |-> seqno[s] + 1, payload |-> calls[c].payload,
                  deadline |-> now + Timeout]
           k == [calls[c] EXCEPT !.pc = "send", !.tx = tx]
<1>1. /\ calls[c].pc = "account" /\ s \in Signers /\ CallOk(calls[c]) /\ turn' \in Nat
      /\ calls[c].payload \in Payloads /\ Call(c, k)
  BY DEF Rebuild, IInv, Types, CallsOk, CallOk
<1>2. /\ tx \in Transactions /\ tx.payload = calls[c].payload /\ tx.deadline = now + Timeout
      /\ now + Timeout \in Nat /\ tx # None
  BY <1>1, Constants, NoneAssumption DEF IInv, Types, Transactions
<1> HIDE DEF tx
<1>3. /\ k \in CallRecords /\ k.pc = "send" /\ k.payload = calls[c].payload
      /\ k.asked = calls[c].asked
      /\ k.tx = tx /\ k.polls = calls[c].polls /\ k.answer = calls[c].answer
  BY <1>2 DEF IInv, Types, CallRecords, Pcs
<1> HIDE DEF k
<1>4. CallOk(k) /\ ~Mine(k)
  BY <1>1, <1>2, <1>3 DEF CallOk, Mine, WellFormed
<1>5. QED
  BY <1>1, <1>3, <1>4, QuietStep

\* What the network takes is in no ledger, in time, and nobody's yet.
LEMMA Pending ==
  ASSUME NEW tx, Status(tx) = "PENDING"
  PROVE  tx \notin pool /\ Landed(tx) = {} /\ ~(now > tx.deadline)
BY DEF Status, Landed

LEMMA SubmittedStep ==
  ASSUME IInv, NEW c \in Calls, calls[c].pc = "send", Status(calls[c].tx) = "PENDING",
         pool' = pool \cup {calls[c].tx}, UNCHANGED <<now, landed>>
  PROVE  /\ pool' \subseteq Transactions /\ PoolOk'
         /\ \A d \in Calls : Mine(calls[d]) => calls[d].tx # calls[c].tx
<1> DEFINE tx == calls[c].tx
<1>1. /\ tx \in Transactions /\ now \in Nat /\ tx.deadline \in Nat
      /\ tx \notin pool /\ Landed(tx) = {} /\ ~(now > tx.deadline)
  <2>1. tx \in Transactions \cup {None} /\ tx # None /\ now \in Nat
    BY DEF IInv, Types, CallsOk, CallOk, CallRecords
  <2>2. QED
    BY <2>1, Pending DEF Transactions
<1>2. PoolOk'
  BY <1>1, Constants DEF IInv, PoolOk, Landed
<1>3. ASSUME NEW d \in Calls, Mine(calls[d]), calls[d].tx = tx
      PROVE  FALSE
  BY <1>1, <1>3 DEF IInv, CallsOk, CallOk, Mine
<1>4. QED
  BY <1>1, <1>2, <1>3 DEF IInv, Types

LEMMA SendStep ==
  ASSUME IInv, NEW c \in Calls, SendTransaction(c)
  PROVE  IInv'
<1>1. calls[c].pc = "send" /\ CallOk(calls[c]) /\ turn' \in Nat /\ calls[c] \in CallRecords
  BY DEF SendTransaction, IInv, Types, CallsOk
<1>2. CASE Status(calls[c].tx) # "PENDING"
  <2>1. Answer(c, "transaction_submission_failed")
    BY <1>2 DEF SendTransaction
  <2>2. calls[c].estimate \in Nat
    BY <1>1 DEF CallRecords
  <2>3. QED
    BY <1>1, <2>1, <2>2, RefusalStep DEF Failures
<1>3. CASE Status(calls[c].tx) = "PENDING"
  <2>1. /\ pool' = pool \cup {calls[c].tx} /\ UNCHANGED <<now, payloads, landed, seqno>>
        /\ calls' = [calls EXCEPT ![c].pc = "poll", ![c].wake = now]
    BY <1>3 DEF SendTransaction
  <2>2. PICK k : k = [calls[c] EXCEPT !.pc = "poll", !.wake = now]
    OBVIOUS
  <2>3. /\ k \in CallRecords /\ k.pc = "poll" /\ k.wake = now /\ k.payload = calls[c].payload
        /\ k.asked = calls[c].asked
        /\ k.tx = calls[c].tx /\ k.polls = calls[c].polls /\ k.answer = calls[c].answer
    BY <2>2 DEF IInv, Types, CallRecords, Pcs
  <2>4. calls' = [calls EXCEPT ![c] = k]
    BY <1>1, <2>1, <2>2 DEF IInv, Types, CallRecords
  <2>5. CallOk(k)'
    <3>1. /\ calls[c].tx \in Transactions /\ now \in Nat /\ calls[c].tx.deadline \in Nat
          /\ Timeout \in Nat
      BY <1>1, Constants DEF IInv, Types, CallOk, CallRecords, Transactions
    <3>2. k.wake + Timeout >= k.tx.deadline + k.polls
      BY <1>1, <2>3, <3>1 DEF CallOk
    <3>3. QED
      BY <1>1, <2>1, <2>3, <3>2 DEF CallOk, Mine, WellFormed
  <2>6. /\ pool' \subseteq Transactions /\ PoolOk'
        /\ \A d \in Calls : Mine(calls[d]) => calls[d].tx # calls[c].tx
    BY <1>1, <1>3, <2>1, SubmittedStep
  <2>7. /\ \A d \in Calls \ {c} : Mine(k) /\ Mine(calls[d]) => calls[d].tx # k.tx
        /\ pool \subseteq pool'
    BY <2>1, <2>3, <2>6
  <2>8. QED
    BY <1>1, <2>1, <2>4, <2>3, <2>5, <2>6, <2>7, CallStep
<1>4. QED
  BY <1>2, <1>3

LEMMA LostStep ==
  ASSUME IInv, NEW c \in Calls, SendIsLost(c)
  PROVE  IInv'
<1>1. /\ calls[c].pc = "send" /\ CallOk(calls[c]) /\ turn' \in Nat /\ calls[c] \in CallRecords
      /\ UNCHANGED <<now, payloads, landed, seqno>>
      /\ calls' = [calls EXCEPT ![c].pc = "done", ![c].answer = "unexpected_settle_error",
                                ![c].tx = None]
  BY DEF SendIsLost, IInv, Types, CallsOk
<1>2. PICK k : k = [calls[c] EXCEPT !.pc = "done", !.answer = "unexpected_settle_error",
                                    !.tx = None]
  OBVIOUS
<1>3. /\ k \in CallRecords /\ k.pc = "done" /\ k.tx = None /\ k.payload = calls[c].payload
      /\ k.asked = calls[c].asked /\ k.answer = "unexpected_settle_error"
  BY <1>2 DEF IInv, Types, CallRecords, Pcs, Failures
<1>4. calls' = [calls EXCEPT ![c] = k]
  BY <1>1, <1>2 DEF IInv, Types, CallRecords
<1>5. CallOk(k)' /\ ~Mine(k)
  BY <1>1, <1>3 DEF CallOk, Mine
<1>6. pool \subseteq pool' /\ pool' \subseteq Transactions /\ PoolOk'
  <2>1. \/ pool' = pool
        \/ Status(calls[c].tx) = "PENDING" /\ pool' = pool \cup {calls[c].tx}
    BY DEF SendIsLost
  <2>2. CASE pool' = pool
    BY <1>1, <2>2 DEF IInv, Types, PoolOk, Landed
  <2>3. CASE Status(calls[c].tx) = "PENDING" /\ pool' = pool \cup {calls[c].tx}
    BY <1>1, <2>3, SubmittedStep
  <2>4. QED
    BY <2>1, <2>2, <2>3
<1>7. \A d \in Calls \ {c} : Mine(k) /\ Mine(calls[d]) => calls[d].tx # k.tx
  BY <1>5
<1>8. QED
  BY <1>1, <1>4, <1>3, <1>5, <1>6, <1>7, CallStep

\* What a poll knows of its transaction.
LEMMA PolledCall ==
  ASSUME IInv, NEW c \in Calls, calls[c].pc = "poll"
  PROVE  /\ CallOk(calls[c]) /\ Mine(calls[c]) /\ calls[c].tx # None
         /\ calls[c].tx \in Transactions /\ calls[c].tx.deadline \in Nat
         /\ {now, calls[c].wake, calls[c].polls, Timeout} \subseteq Nat
         /\ calls[c].wake + Timeout >= calls[c].tx.deadline + calls[c].polls
         /\ WellFormed(calls[c]) /\ calls[c].tx.payload = calls[c].payload
<1>1. CallOk(calls[c]) /\ Mine(calls[c]) /\ calls[c].tx # None
  BY DEF IInv, CallsOk, CallOk, Mine
<1>2. calls[c].tx \in Transactions /\ {now, calls[c].wake, calls[c].polls} \subseteq Nat
  BY <1>1 DEF IInv, Types, CallRecords
<1>3. QED
  BY <1>1, <1>2, Constants DEF CallOk, Transactions

LEMMA PollStep ==
  ASSUME IInv, NEW c \in Calls, GetTransaction(c)
  PROVE  IInv'
<1> DEFINE k == calls[c]
           again == [k EXCEPT !.polls = @ + 1, !.wake = now + 1]
<1>1. k.pc = "poll" /\ k \in CallRecords /\ turn' \in Nat /\ now >= k.wake
  BY DEF GetTransaction, IInv, Types
<1>2. CASE AttemptTimedOut(c)
  <2>1. Call(c, again)
    BY <1>2 DEF AttemptTimedOut
  <2>2. /\ again \in CallRecords /\ again.pc = "poll" /\ again.wake = now + 1
        /\ again.polls = k.polls + 1 /\ again.payload = k.payload /\ again.asked = k.asked
        /\ again.tx = k.tx /\ again.answer = k.answer
    <3>1. k.polls + 1 \in Nat /\ now + 1 \in Nat
      BY <1>1, PolledCall
    <3>2. QED
      BY <1>1, <3>1 DEF CallRecords
  <2> HIDE DEF again
  <2>3. again.wake + Timeout >= again.tx.deadline + again.polls
    BY <1>1, <2>2, PolledCall
  <2>4. CallOk(again) /\ Mine(again)
    BY <1>1, <2>2, <2>3, PolledCall DEF CallOk, Mine, WellFormed
  <2>5. QED
    BY <1>1, <2>1, <2>2, <2>4, PolledCall, QuietStep
<1>3. CASE \E r \in Landed(k.tx) :
             Call(c, [k EXCEPT !.pc = "done",
                               !.answer = IF r.ok THEN "success" ELSE "transaction_failed"])
  <2>1. PICK r \in Landed(k.tx) :
           Call(c, [k EXCEPT !.pc = "done",
                             !.answer = IF r.ok THEN "success" ELSE "transaction_failed"])
    BY <1>3
  <2> DEFINE end == [k EXCEPT !.pc = "done",
                              !.answer = IF r.ok THEN "success" ELSE "transaction_failed"]
  <2>2. /\ end \in CallRecords /\ end.pc = "done" /\ end.payload = k.payload
        /\ end.asked = k.asked /\ end.tx = k.tx /\ (end.answer = "success" => r.ok)
    BY <1>1 DEF CallRecords, Pcs, Failures
  <2>3. Call(c, end)
    BY <2>1
  <2> HIDE DEF end
  <2>4. CallOk(end) /\ Mine(end)
    BY <1>1, <2>1, <2>2, PolledCall DEF CallOk, Mine, WellFormed
  <2>5. QED
    BY <1>1, <2>2, <2>3, <2>4, PolledCall, QuietStep
<1>4. QED
  BY <1>2, <1>3 DEF GetTransaction

\* The poll does not end before the time bound of the transaction.
LEMMA TimeoutStep ==
  ASSUME IInv, NEW c \in Calls, PollTimesOut(c)
  PROVE  IInv'
<1> DEFINE k == calls[c]
           end == [k EXCEPT !.pc = "done", !.answer = "transaction_failed"]
<1>1. /\ k.pc = "poll" /\ k \in CallRecords /\ turn' \in Nat
      /\ k.polls = Timeout /\ now >= k.wake /\ Call(c, end)
  BY DEF PollTimesOut, IInv, Types
<1>2. now >= k.tx.deadline
  BY <1>1, PolledCall
<1>3. /\ end \in CallRecords /\ end.pc = "done" /\ end.payload = k.payload
      /\ end.asked = k.asked /\ end.tx = k.tx /\ end.answer = "transaction_failed"
  BY <1>1 DEF CallRecords, Pcs, Failures
<1> HIDE DEF end
<1>4. CallOk(end) /\ Mine(end)
  BY <1>1, <1>2, <1>3, PolledCall DEF CallOk, Mine, WellFormed
<1>5. QED
  BY <1>1, <1>3, <1>4, PolledCall, QuietStep

-----------------------------------------------------------------------------
(* The clients and the network. *)

LEMMA StandardIsPayload ==
  ASSUME IInv, NEW a \in Amounts, NEW by \in {"custodial", "session", "foreign"},
         NEW n \in Networks, NEW fee \in Nat, NEW e \in Nat, NEW expires \in Nat
  PROVE  Standard(a, by, n, fee, e, expires) \in Payloads
<1>1. Cardinality(payloads) + 1 \in Nat
  BY FS_CardinalityType DEF IInv, Types
<1>2. Entry("payer", expires) \in Entries
  BY DEF Entry, Entries
<1>3. n \in {"testnet", "pubnet"}
  BY Constants
<1>4. QED
  BY <1>1, <1>2, <1>3 DEF Standard, Payloads, Envelopes

LEMMA BuildStep ==
  ASSUME IInv, NEW p \in Payloads, Build(p)
  PROVE  IInv'
<1>1. payloads' = payloads \cup {p} /\ UNCHANGED <<now, calls, turn, seqno, pool, landed>>
  BY DEF Build
<1>2. Types'
  BY <1>1, FS_AddElement DEF IInv, Types
<1>3. CallsOk'
  <2> SUFFICES ASSUME NEW c \in Calls
               PROVE  CallOk(calls[c])'
    BY DEF CallsOk
  <2>1. CallOk(calls[c])
    BY DEF IInv, CallsOk
  <2>2. QED
    BY <1>1, <2>1 DEF CallOk, Mine, Landed
<1>4. Unique' /\ PoolOk' /\ LandedOk'
  BY <1>1 DEF IInv, Unique, Mine, PoolOk, LandedOk, Landed, Ledger
<1>5. QED
  BY <1>2, <1>3, <1>4 DEF IInv

\* What the client of a key of its own builds.
LEMMA CustodialIsPayload ==
  ASSUME IInv, NEW a \in Amounts, NEW by \in {"custodial", "session", "foreign"},
         NEW p \in Custodial(a, by)
  PROVE  /\ p \in Payloads
         /\ \E n \in Networks, l \in Latest, e \in Estimates :
              p = Standard(a, by, n, GetPaymentTransactionFeeStroops(n), e, l + Offset(e))
<1>1. PICK n \in Networks, l \in Latest, e \in Estimates :
        p = Standard(a, by, n, GetPaymentTransactionFeeStroops(n), e, l + Offset(e))
  BY DEF Custodial, Standard, Entry
<1>2. l + Offset(e) \in Nat /\ GetPaymentTransactionFeeStroops(n) \in Nat /\ e \in Nat
  <2>1. l \in Nat /\ Offset(e) \in Nat
    BY LatestLedger, OffsetIsNat DEF IInv
  <2>2. GetPaymentTransactionFeeStroops(n) \in Nat /\ e \in Nat
    BY Constants DEF GetPaymentTransactionFeeStroops
  <2>3. QED
    BY <2>1, <2>2
<1>3. QED
  BY <1>1, <1>2, StandardIsPayload

LEMMA SessionIsPayload ==
  ASSUME IInv, NEW a \in Amounts, NEW n \in Networks, NEW l \in Latest
  PROVE  [Standard(a, "session", n, SessionFee, 0, l + SessionWindow)
            EXCEPT !.auth = @ \cup {Entry("session", l + SessionWindow)}] \in Payloads
<1>1. l + SessionWindow \in Nat /\ SessionFee \in Nat
  BY LatestLedger, Constants DEF IInv
<1>2. PICK p : p = Standard(a, "session", n, SessionFee, 0, l + SessionWindow)
  OBVIOUS
<1>3. p \in Payloads /\ Entry("session", l + SessionWindow) \in Entries
  BY <1>1, <1>2, StandardIsPayload DEF Entry, Entries
<1>4. [p EXCEPT !.auth = @ \cup {Entry("session", l + SessionWindow)}] \in Payloads
  BY <1>3 DEF Payloads
<1>5. QED
  BY <1>2, <1>4

LEMMA DeviationIsPayload ==
  ASSUME IInv, NEW p \in Payloads, NEW q \in Deviations(p)
  PROVE  q \in Payloads /\ q.by = p.by
<1> DEFINE expires == Ledger + Offset(LedgerSeconds)
           more(entry) == [p EXCEPT !.auth = @ \cup {entry}]
<1>1. expires \in Nat /\ expires + Tolerance + 1 \in Nat
  BY LatestLedger, OffsetIsNat, Constants DEF IInv
<1>2. /\ Entry("facilitator", expires) \in Entries
      /\ Entry("other", expires + Tolerance + 1) \in Entries
      /\ [Entry("other", expires) EXCEPT !.kind = "source"] \in Entries
      /\ [Entry("other", expires) EXCEPT !.nested = TRUE] \in Entries
      /\ [Entry("other", expires) EXCEPT !.signed = FALSE] \in Entries
  BY <1>1 DEF Entry, Entries
<1>3. MinFee - 1 \in Nat /\ MaxFee + 1 \in Nat
  BY Constants
<1>4. ASSUME NEW entry \in Entries
      PROVE  more(entry) \in Payloads /\ more(entry).by = p.by
  BY DEF Payloads
<1> HIDE DEF expires, more
<1>5. CASE q \in {[p EXCEPT !.envelope = e] : e \in {"version", "scheme", "network", "malformed"}}
  BY <1>5 DEF Payloads, Envelopes
<1>6. CASE q \in {[p EXCEPT !.source = "facilitator"], [p EXCEPT !.call = "other"],
                  [p EXCEPT !.asset = "other"], [p EXCEPT !.from = "facilitator"],
                  [p EXCEPT !.to = "other"], [p EXCEPT !.data = FALSE], [p EXCEPT !.auth = {}]}
  BY <1>6 DEF Payloads
<1>7. CASE q \in {[p EXCEPT !.fee = f] : f \in {MinFee - 1, MaxFee + 1}}
  BY <1>3, <1>7 DEF Payloads
<1>8. CASE q \in {[p EXCEPT !.moves = n] : n \in {0, 2}}
  BY <1>8 DEF Payloads
<1>9. CASE q \in {more(Entry("facilitator", expires)), more(Entry("other", expires + Tolerance + 1)),
                  more([Entry("other", expires) EXCEPT !.kind = "source"]),
                  more([Entry("other", expires) EXCEPT !.nested = TRUE]),
                  more([Entry("other", expires) EXCEPT !.signed = FALSE])}
  BY <1>2, <1>4, <1>9
<1>10. QED
  BY <1>5, <1>6, <1>7, <1>8, <1>9 DEF Deviations, expires, more

\* A payload that is built, and whether the custodial client built it.
LEMMA Builds ==
  ASSUME IInv, NEW a \in Amounts,
         CreatePaymentPayload(a) \/ CreateSessionPayload(a) \/ Foreign(a)
  PROVE  \E p \in Payloads :
           /\ Build(p)
           /\ p.by = "custodial" => CreatePaymentPayload(a) /\ p \in Custodial(a, "custodial")
<1>1. CASE CreatePaymentPayload(a)
  BY <1>1, CustodialIsPayload DEF CreatePaymentPayload
<1>2. CASE CreateSessionPayload(a)
  <2>1. PICK p \in BuildStandardTransferPayment(a) : Build(p)
    BY <1>2 DEF CreateSessionPayload
  <2>2. PICK n \in Networks, l \in Latest :
          p = [Standard(a, "session", n, SessionFee, 0, l + SessionWindow)
                                    EXCEPT !.auth = @ \cup {Entry("session", l + SessionWindow)}]
    BY <2>1 DEF BuildStandardTransferPayment, BuildDelegatedInvocation
  <2>3. p \in Payloads /\ p.by # "custodial"
    BY <2>2, SessionIsPayload DEF Standard
  <2>4. QED
    BY <2>1, <2>2, <2>3
<1>3. CASE Foreign(a)
  <2>1. PICK p \in Custodial(a, "foreign") : \E q \in Deviations(p) : Build(q)
    BY <1>3 DEF Foreign
  <2>2. PICK q \in Deviations(p) : Build(q)
    BY <2>1
  <2>3. p \in Payloads /\ p.by = "foreign"
    BY CustodialIsPayload DEF Standard
  <2>4. QED
    BY <2>2, <2>3, DeviationIsPayload
<1>4. QED
  BY <1>1, <1>2, <1>3

LEMMA LandStep ==
  ASSUME IInv, NEW tx \in pool, Land(tx)
  PROVE  IInv'
<1> DEFINE r == [tx |-> tx, ok |-> Applies(tx.payload, Ledger), at |-> Ledger]
<1>1. /\ pool' = pool \ {tx} /\ landed' = landed \cup {r}
      /\ seqno' = [seqno EXCEPT ![tx.signer] = tx.seq]
      /\ UNCHANGED <<now, payloads, calls, turn>>
  BY DEF Land
<1>2. tx \in Transactions /\ Ledger \in Nat /\ Ledger' = Ledger
  BY <1>1, LatestLedger DEF IInv, Types, Ledger
<1>3. Types'
  <2>1. r \in [tx : Transactions, ok : BOOLEAN, at : Nat]
    BY <1>2 DEF Applies
  <2>2. seqno' \in [Signers -> Nat]
    BY <1>1, <1>2 DEF IInv, Types, Transactions
  <2> HIDE DEF r
  <2>3. QED
    BY <1>1, <2>1, <2>2 DEF IInv, Types
<1>4. /\ \A t : Landed(t) \subseteq Landed(t)' /\ (t # tx => Landed(t)' = Landed(t))
      /\ r \in Landed(tx)'
  BY <1>1 DEF Landed
<1>5. CallsOk'
  <2> SUFFICES ASSUME NEW c \in Calls
               PROVE  CallOk(calls[c])'
    BY DEF CallsOk
  <2>1. PICK k : k = calls[c]
    OBVIOUS
  <2>2. CallOk(k) /\ calls'[c] = k
    BY <1>1, <2>1 DEF IInv, CallsOk
  <2> HIDE DEF r
  <2>3. k.tx \in pool \/ Landed(k.tx) # {} => k.tx \in pool' \/ Landed(k.tx)' # {}
    BY <1>1, <1>4
  <2>4. Landed(k.tx) # {} => Landed(k.tx)' # {}
    BY <1>4
  <2>5. (\E s \in Landed(k.tx) : s.ok) => (\E s \in Landed(k.tx)' : s.ok)
    BY <1>4
  <2>6. CallOk(k)'
    BY <1>1, <2>2, <2>3, <2>4, <2>5 DEF CallOk, Mine, WellFormed
  <2>7. QED
    BY <2>2, <2>6 DEF CallOk, Mine, Landed
<1>6. Unique' /\ PoolOk'
  BY <1>1, <1>4 DEF IInv, Unique, Mine, PoolOk
<1>7. LandedOk'
  <2>1. r.ok => \A s \in landed : ~(s.ok /\ s.tx.payload.id = r.tx.payload.id)
    <3>1. \A s \in landed : s.at <= Ledger
      BY DEF IInv, LandedOk
    <3>2. QED
      BY <3>1 DEF Applies
  <2>2. r.at <= Ledger
    BY <1>2
  <2> HIDE DEF r
  <2>3. QED
    BY <1>1, <1>2, <2>1, <2>2 DEF IInv, LandedOk
<1>8. QED
  BY <1>3, <1>5, <1>6, <1>7 DEF IInv

LEMMA TickStep == IInv /\ Tick => IInv'
<1> SUFFICES ASSUME IInv, Tick
             PROVE  IInv'
  OBVIOUS
<1>1. /\ now' = now + 1 /\ now \in Nat /\ now' \in Nat
      /\ pool' = {tx \in pool : tx.deadline + CloseSeconds > now}
      /\ UNCHANGED <<payloads, calls, turn, seqno, landed>>
  BY DEF Tick, IInv, Types
<1>2. Ledger <= Ledger' /\ Ledger \in Nat /\ Ledger' \in Nat
  BY <1>1, LedgerRises DEF Ledger
<1>3. \A tx \in Transactions : tx.deadline \in Nat
  BY DEF Transactions
<1>4. Types'
  BY <1>1 DEF IInv, Types
<1>5. CallsOk'
  <2> SUFFICES ASSUME NEW c \in Calls
               PROVE  CallOk(calls[c])'
    BY DEF CallsOk
  <2> DEFINE k == calls[c]
  <2>1. /\ CallOk(k) /\ k \in CallRecords /\ k' = k /\ Timeout \in Nat
        /\ Landed(k.tx)' = Landed(k.tx)
    BY <1>1, Constants DEF IInv, CallsOk, Types, Landed
  <2>2. k.tx # None => k.tx \in Transactions /\ k.tx.deadline \in Nat
    BY <1>3, <2>1 DEF CallRecords
  <2>3. k.pc = "send" => k.tx.deadline <= now' + Timeout
    BY <1>1, <2>1, <2>2 DEF CallOk
  <2>4. /\ k.tx # None /\ now > k.tx.deadline => now' > k.tx.deadline
        /\ k.tx # None /\ now >= k.tx.deadline => now' >= k.tx.deadline
    BY <1>1, <2>2
  <2>5. k.tx # None /\ k.tx \in pool => k.tx \in pool' \/ now' > k.tx.deadline
    BY <1>1, <2>2, Constants
  <2>6. k.pc = "poll" => k.tx # None
    BY <2>1 DEF CallOk
  <2> HIDE DEF k
  <2>7. CallOk(k)'
    BY <1>1, <2>1, <2>3, <2>4, <2>5, <2>6 DEF CallOk, Mine, WellFormed
  <2>8. QED
    BY <2>7 DEF k
<1>6. Unique'
  BY <1>1 DEF IInv, Unique, Mine
<1>7. PoolOk'
  BY <1>1, <1>3, Constants DEF IInv, Types, PoolOk, Landed
<1>8. LandedOk'
  <2>1. \A r \in landed : r.at \in Nat /\ r.at <= Ledger
    BY DEF IInv, Types, LandedOk
  <2>2. QED
    BY <1>1, <1>2, <2>1 DEF IInv, LandedOk
<1>9. QED
  BY <1>4, <1>5, <1>6, <1>7, <1>8 DEF IInv

LEMMA Step == IInv /\ [Next]_vars => IInv'
<1> SUFFICES ASSUME IInv, [Next]_vars
             PROVE  IInv'
  OBVIOUS
<1>1. ASSUME NEW a \in Amounts,
             CreatePaymentPayload(a) \/ CreateSessionPayload(a) \/ Foreign(a)
      PROVE  IInv'
  BY <1>1, Builds, BuildStep
<1>2. ASSUME NEW c \in Calls, NEW p \in payloads, NEW asked \in Amounts, Settle(c, p, asked)
      PROVE  IInv'
  BY <1>2, SettleStep
<1>3. ASSUME NEW c \in Calls,
             \/ SimulateTransaction(c) \/ Verified(c) \/ Rebuild(c) \/ SendTransaction(c)
             \/ SendIsLost(c) \/ GetTransaction(c) \/ PollTimesOut(c)
      PROVE  IInv'
  BY <1>3, SimulateStep, VerifiedStep, RebuildStep, SendStep, LostStep, PollStep, TimeoutStep
<1>4. ASSUME NEW tx \in pool, Land(tx)
      PROVE  IInv'
  BY <1>4, LandStep
<1>5. CASE Tick
  BY <1>5, TickStep
<1>6. CASE UNCHANGED vars
  <2>1. UNCHANGED <<now, payloads, calls, turn, seqno, pool, landed>>
    BY <1>6 DEF vars
  <2>2. CallsOk'
    BY <2>1 DEF IInv, CallsOk, CallOk, Mine, WellFormed, Landed
  <2>3. Types' /\ Unique' /\ PoolOk' /\ LandedOk'
    BY <2>1 DEF IInv, Types, Unique, Mine, PoolOk, LandedOk, Landed, Ledger
  <2>4. QED
    BY <2>2, <2>3 DEF IInv
<1>7. QED
  BY <1>1, <1>2, <1>3, <1>4, <1>5, <1>6 DEF Next

\* A transaction belongs to the one call whose submission the network took, and is held,
\* landed or late from then on; and a payload is used once (signing, nonce and time bound
\* of facilitator/scheme.ts settle).
THEOREM ExactInvariance == Spec => []IInv
<1>1. Init => IInv
  BY Initial
<1>2. IInv /\ [Next]_vars => IInv'
  BY Step
<1>3. QED
  BY <1>1, <1>2, PTL DEF Spec

-----------------------------------------------------------------------------
(* What a success is. *)

\* A success is a payment of what was asked, and no payload pays for two calls, however
\* many calls of settle overlap.
THEOREM SettledPays == Spec => []SettledIsPaid
<1>1. IInv => SettledIsPaid
  <2> SUFFICES ASSUME IInv, NEW c \in Calls, calls[c].answer = "success"
               PROVE  /\ \E r \in Landed(calls[c].tx) :
                            LET p == r.tx.payload
                            IN  /\ r.ok /\ p.id = calls[c].payload.id
                                /\ p.from # "facilitator" /\ p.to = "shop" /\ p.asset = "usdc"
                                /\ p.amount = calls[c].asked /\ p.moves = 1
                      /\ \A d \in Calls \ {c} :
                           calls[d].answer = "success" => calls[d].payload.id # calls[c].payload.id
    BY DEF SettledIsPaid
  <2>1. ASSUME NEW d \in Calls, calls[d].answer = "success"
        PROVE  /\ Mine(calls[d]) /\ calls[d].tx.payload = calls[d].payload
               /\ WellFormed(calls[d]) /\ calls[d].payload \in Payloads
               /\ \E r \in landed : r.ok /\ r.tx = calls[d].tx
    BY <2>1 DEF IInv, CallsOk, CallOk, Mine, Landed, Types
  <2>2. PICK r \in landed : r.ok /\ r.tx = calls[c].tx
    BY <2>1
  <2>3. /\ r.tx.payload = calls[c].payload /\ r.tx.payload.from # "facilitator"
        /\ r.tx.payload.to = "shop" /\ r.tx.payload.asset = "usdc"
        /\ r.tx.payload.amount = calls[c].asked /\ r.tx.payload.moves = 1
    BY <2>1, <2>2, MalformedSays DEF WellFormed
  <2>4. ASSUME NEW d \in Calls \ {c}, calls[d].answer = "success",
               calls[d].payload.id = calls[c].payload.id
        PROVE  FALSE
    <3>1. PICK s \in landed : s.ok /\ s.tx = calls[d].tx
      BY <2>1, <2>4
    <3>2. s = r
      BY <2>1, <2>2, <2>4, <3>1 DEF IInv, LandedOk
    <3>3. QED
      BY <2>1, <2>2, <2>4, <3>1, <3>2 DEF IInv, Unique
  <2>5. QED
    BY <2>2, <2>3, <2>4 DEF Landed
<1>2. QED
  BY <1>1, ExactInvariance, PTL

\* A poll of one attempt for every second of the timeout, each with its wait, does not end
\* before the time bound of the transaction, whatever the timeout: what lands after the
\* answer lands at the bound or after it.
THEOREM AnsweredAtTheBound == Spec => NotGivenUpEarly
<1>1. IInv /\ [Next]_vars =>
        [\A r \in landed' \ landed : \A c \in Calls :
           calls[c].tx = r.tx /\ calls[c].pc = "done" => now >= r.tx.deadline]_vars
  <2> SUFFICES ASSUME IInv, [Next]_vars, NEW r \in landed' \ landed, NEW c \in Calls,
                      calls[c].tx = r.tx, calls[c].pc = "done"
               PROVE  now >= r.tx.deadline
    OBVIOUS
  <2>1. PICK tx \in pool : Land(tx)
    <3>1. landed' # landed
      OBVIOUS
    <3>2. CASE Next
      BY <3>1, <3>2 DEF Next, CreatePaymentPayload, CreateSessionPayload, Foreign, Build,
           Settle, SimulateTransaction, Verified, Rebuild, SendTransaction, SendIsLost,
           GetTransaction, AttemptTimedOut, PollTimesOut, Call, Answer, Refuse, Tick
    <3>3. QED
      BY <3>1, <3>2 DEF vars
  <2>2. r.tx = tx
    BY <2>1 DEF Land
  <2>3. tx # None /\ Landed(tx) = {} /\ now \in Nat /\ tx.deadline \in Nat
    BY <2>1, NoneAssumption DEF IInv, Types, PoolOk, Transactions
  <2>4. Landed(tx) # {} \/ now >= tx.deadline
    BY <2>2, <2>3 DEF IInv, CallsOk, CallOk, Mine
  <2>5. QED
    BY <2>2, <2>3, <2>4
<1>2. QED
  BY <1>1, ExactInvariance, PTL DEF Spec, NotGivenUpEarly

-----------------------------------------------------------------------------
(* What the custodial client builds. *)

\* It names the payer's entry alone, good until its own estimate from a ledger that was
\* there when it was built.
Shaped(p) ==
  /\ p.envelope = "ok" /\ p.source = "placeholder" /\ p.call = "transfer" /\ p.asset = "usdc"
  /\ p.from = "payer" /\ p.to = "shop" /\ p.data /\ p.moves = 1
  /\ p.fee = GetPaymentTransactionFeeStroops(p.network) /\ p.estimate \in Estimates
  /\ \E x \in Nat : p.auth = {Entry("payer", x)} /\ x <= Ledger + Offset(p.estimate)
Shapes == \A p \in payloads : p.by = "custodial" => Shaped(p)

\* No later step changes the shape of a payload or the shape that the window allows.
LEMMA ShapesKept == IInv /\ Shapes /\ [Next]_vars => Shapes'
<1> SUFFICES ASSUME IInv, Shapes, [Next]_vars
             PROVE  Shapes'
  OBVIOUS
<1>1. /\ Ledger \in Nat /\ Ledger' \in Nat /\ Ledger <= Ledger'
  <2>1. now \in Nat /\ (now' = now \/ now' = now + 1)
    BY DEF IInv, Types, vars, Next, CreatePaymentPayload, CreateSessionPayload, Foreign,
       Build, Settle, SimulateTransaction, Verified, Rebuild, SendTransaction, SendIsLost,
       GetTransaction, AttemptTimedOut, PollTimesOut, Call, Answer, Refuse, Tick, Land
  <2>2. now' \in Nat /\ now <= now'
    BY <2>1
  <2>3. QED
    BY <2>1, <2>2, LedgerRises DEF Ledger
<1>2. ASSUME NEW p, Shaped(p)
      PROVE  Shaped(p)'
  <2>1. PICK x \in Nat : p.auth = {Entry("payer", x)} /\ x <= Ledger + Offset(p.estimate)
    BY <1>2 DEF Shaped
  <2>2. x <= Ledger' + Offset(p.estimate)
    BY <1>1, <1>2, <2>1, OffsetIsNat DEF Shaped
  <2>3. QED
    BY <1>2, <2>1, <2>2 DEF Shaped
<1>3. ASSUME NEW a \in Amounts,
             CreatePaymentPayload(a) \/ CreateSessionPayload(a) \/ Foreign(a)
      PROVE  Shapes'
  <2>1. PICK p \in Payloads : /\ Build(p)
                              /\ p.by = "custodial" => p \in Custodial(a, "custodial")
    BY <1>3, Builds
  <2>2. payloads' = payloads \cup {p} /\ now' = now
    BY <2>1 DEF Build
  <2>3. p.by = "custodial" => Shaped(p)
    <3> SUFFICES ASSUME p \in Custodial(a, "custodial")
                 PROVE  Shaped(p)
      BY <2>1
    <3>1. PICK n \in Networks, l \in Latest, e \in Estimates :
            p = Standard(a, "custodial", n, GetPaymentTransactionFeeStroops(n), e, l + Offset(e))
      BY CustodialIsPayload
    <3>2. l \in Nat /\ l <= Ledger /\ Offset(e) \in Nat /\ Ledger \in Nat
      BY LatestLedger, OffsetIsNat DEF IInv
    <3>3. PICK x : x = l + Offset(e)
      OBVIOUS
    <3>4. x \in Nat /\ x <= Ledger + Offset(e)
      BY <3>2, <3>3
    <3>5. p = Standard(a, "custodial", n, GetPaymentTransactionFeeStroops(n), e, x)
      BY <3>1, <3>3
    <3>6. QED
      BY <3>4, <3>5 DEF Shaped, Standard
  <2>4. QED
    BY <1>2, <2>2, <2>3 DEF Shapes
<1>4. CASE UNCHANGED payloads
  BY <1>2, <1>4 DEF Shapes
<1>5. QED
  <2>1. CASE UNCHANGED vars
    BY <1>4, <2>1 DEF vars
  <2>2. CASE Next
    BY <1>3, <1>4, <2>2 DEF Next, Settle, SimulateTransaction, Verified, Rebuild, SendTransaction,
       SendIsLost, GetTransaction, AttemptTimedOut, PollTimesOut, Call, Answer, Refuse, Tick, Land
  <2>3. QED
    BY <2>1, <2>2

\* How a payload of the custodial client, checked with an estimate e, may be refused.
Excused(p, answer, e) ==
  \/ answer = "simulation_failed"
  \/ answer = "fee_below_minimum" /\ p.network = "testnet"
  \/ answer = "fee_exceeds_maximum" /\ p.fee > MaxFee
  \/ /\ answer = "signature_expiration_too_far"
     /\ Offset(p.estimate) + MaxLag > Offset(e) + Tolerance

\* It passes every check but these.
LEMMA ShapedPasses ==
  ASSUME IInv, NEW p \in Payloads, Shaped(p)
  PROVE  /\ Malformed(p, p.amount) = None
         /\ \A l : SimulationRefuses(p, l) = None
                  \/ \A e : Excused(p, SimulationRefuses(p, l), e)
         /\ \A l \in Latest, f \in Estimates :
              \/ ValidateAuthEntries(p, l + Offset(f)) = None
              \/ Excused(p, ValidateAuthEntries(p, l + Offset(f)), f)
<1>1. Malformed(p, p.amount) = None
  BY DEF Shaped, Malformed
<1>2. ASSUME NEW l, SimulationRefuses(p, l) # None
      PROVE  \A e : Excused(p, SimulationRefuses(p, l), e)
  <2>1. ValidateSimulationEvents(p) = None
    BY DEF Shaped, ValidateSimulationEvents
  <2>2. p.fee < MinFee => p.network = "testnet"
    <3>1. MinFee \in Nat /\ BaseFee \in Nat /\ p.network \in {"testnet", "pubnet"}
      BY Constants DEF Payloads
    <3>2. QED
      BY <3>1 DEF Shaped, GetPaymentTransactionFeeStroops
  <2>3. QED
    BY <1>2, <2>1, <2>2 DEF SimulationRefuses, Excused
<1>3. ASSUME NEW l \in Latest, NEW f \in Estimates
      PROVE  \/ ValidateAuthEntries(p, l + Offset(f)) = None
             \/ Excused(p, ValidateAuthEntries(p, l + Offset(f)), f)
  <2>1. PICK x \in Nat : p.auth = {Entry("payer", x)} /\ x <= Ledger + Offset(p.estimate)
    BY DEF Shaped
  <2>2. /\ l \in Nat /\ Ledger \in Nat /\ l + MaxLag >= Ledger /\ {MaxLag, Tolerance} \subseteq Nat
        /\ Offset(p.estimate) \in Nat /\ Offset(f) \in Nat
    BY LatestLedger, OffsetIsNat, Constants DEF IInv, Shaped
  <2>3. x > l + Offset(f) + Tolerance => Offset(p.estimate) + MaxLag > Offset(f) + Tolerance
    BY <2>1, <2>2
  <2>4. /\ p.auth # {}
        /\ ~\E entry \in p.auth : entry.kind # "address"
        /\ ~\E entry \in p.auth : entry.who = "facilitator"
        /\ (\E entry \in p.auth : entry.expires > l + Offset(f) + Tolerance)
             => x > l + Offset(f) + Tolerance
    BY <2>1 DEF Entry
  <2>5. ~\E entry \in p.auth : entry.nested
    BY <2>1 DEF Entry, Shaped
  <2>6. /\ p.from \in GatherAuthEntrySignatureStatus(p).alreadySigned
        /\ GatherAuthEntrySignatureStatus(p).pendingSignature = {}
    <3> DEFINE entry == Entry("payer", x)
               who(signed) ==
                 {g.who : g \in {d \in p.auth : d.kind = "address" /\ d.signed = signed}}
    <3>1. /\ p.auth = {entry} /\ p.from = "payer"
          /\ entry.kind = "address" /\ entry.who = "payer" /\ entry.signed = TRUE
      BY <2>1 DEF Entry, Shaped
    <3> HIDE DEF entry
    <3>2. {d \in p.auth : d.kind = "address" /\ d.signed = TRUE} = {entry}
      BY <3>1
    <3>3. {d \in p.auth : d.kind = "address" /\ d.signed = FALSE} = {}
      BY <3>1
    <3>4. p.from \in who(TRUE) /\ who(FALSE) = {}
      BY <3>1, <3>2, <3>3
    <3>5. QED
      BY <3>4 DEF GatherAuthEntrySignatureStatus
  <2>7. QED
    BY <2>3, <2>4, <2>5, <2>6 DEF ValidateAuthEntries, Excused
<1>4. QED
  BY <1>1, <1>2, <1>3

LEMMA AcceptedKept ==
  IInv /\ Shapes /\ CustodialAccepted /\ [Next]_vars => CustodialAccepted'
<1> DEFINE Good == {"success", "transaction_submission_failed", "transaction_failed",
                    "unexpected_settle_error"}
           Fine(k) == k.answer \in Good \/ Excused(k.payload, k.answer, k.estimate)
<1> SUFFICES ASSUME IInv, Shapes, CustodialAccepted, [Next]_vars, NEW c \in Calls,
                    calls'[c].pc = "done", calls'[c].payload.by = "custodial",
                    calls'[c].asked = calls'[c].payload.amount
             PROVE  Fine(calls'[c])
  BY DEF CustodialAccepted, Excused
<1>1. calls \in [Calls -> CallRecords] /\ CallOk(calls[c])
  BY DEF IInv, Types, CallsOk
<1>2. CASE calls'[c] = calls[c]
  BY <1>2 DEF CustodialAccepted, Excused
<1>3. ASSUME NEW k, Call(c, k)
      PROVE  calls'[c] = k
  BY <1>1, <1>3 DEF Call
<1>4. ASSUME NEW p \in payloads, NEW asked \in Amounts, Settle(c, p, asked)
      PROVE  FALSE
  <2> DEFINE reason == Malformed(p, asked)
             record == [Idle EXCEPT !.payload = p, !.asked = asked]
  <2>1. /\ p \in Payloads
        /\ calls'[c] = IF reason = None THEN [record EXCEPT !.pc = "simulate"]
                       ELSE [record EXCEPT !.pc = "done", !.answer = reason]
    BY <1>3, <1>4 DEF Settle, IInv, Types
  <2>2. p.by = "custodial" /\ asked = p.amount /\ reason # None
    BY <2>1 DEF Idle
  <2>3. QED
    BY <2>1, <2>2, ShapedPasses DEF Shapes
<1>5. ASSUME calls[c].pc \in {"simulate", "window"}, calls'[c].payload = calls[c].payload
      PROVE  calls[c].payload \in Payloads /\ Shaped(calls[c].payload)
  BY <1>1, <1>5 DEF CallOk, Shapes, IInv, Types
<1>6. ASSUME NEW reason, NEW e, Answer(c, reason) \/ Refuse(c, reason, e)
      PROVE  /\ calls'[c].answer = reason /\ calls'[c].payload = calls[c].payload
             /\ Refuse(c, reason, e) => calls'[c].estimate = e
             /\ Answer(c, reason) => calls'[c].estimate = calls[c].estimate
  BY <1>1, <1>3, <1>6 DEF Answer, Refuse, CallRecords
<1>7. ASSUME SimulateTransaction(c)
      PROVE  Fine(calls'[c])
  <2>1. PICK latest \in Latest :
          IF SimulationRefuses(calls[c].payload, latest) = None
          THEN Call(c, [calls[c] EXCEPT !.pc = "window"])
          ELSE Answer(c, SimulationRefuses(calls[c].payload, latest))
    BY <1>7 DEF SimulateTransaction
  <2>2. SimulationRefuses(calls[c].payload, latest) # None
    BY <1>1, <1>3, <2>1 DEF CallRecords
  <2>3. /\ calls'[c].answer = SimulationRefuses(calls[c].payload, latest)
        /\ calls'[c].payload = calls[c].payload
    BY <1>6, <2>1, <2>2
  <2>4. calls[c].payload \in Payloads /\ Shaped(calls[c].payload)
    BY <1>5, <1>7, <2>3 DEF SimulateTransaction
  <2>5. QED
    BY <2>2, <2>3, <2>4, ShapedPasses
<1>8. ASSUME Verified(c)
      PROVE  Fine(calls'[c])
  <2> DEFINE reason(l, e) == ValidateAuthEntries(calls[c].payload, l + Offset(e))
             k == [calls[c] EXCEPT !.pc = "account", !.signer = 1 + (turn % NSigners)]
  <2>1. PICK latest \in Latest, e \in Estimates :
          CASE reason(latest, e) # None -> Refuse(c, reason(latest, e), e) /\ UNCHANGED turn
            [] ~calls[c].payload.data   -> Refuse(c, "no_soroban_data", e) /\ UNCHANGED turn
            [] OTHER                    -> Call(c, k) /\ turn' = (turn + 1) % NSigners
    BY <1>8 DEF Verified
  <2>2. k.pc # "done"
    BY <1>1 DEF CallRecords
  <2> HIDE DEF k, reason
  <2>3. Refuse(c, reason(latest, e), e) \/ Refuse(c, "no_soroban_data", e)
    BY <1>3, <2>1, <2>2
  <2>4. calls'[c].payload = calls[c].payload
    BY <1>6, <2>3
  <2>5. /\ reason(latest, e) = None \/ Excused(calls[c].payload, reason(latest, e), e)
        /\ calls[c].payload.data
    BY <1>5, <1>8, <2>4, ShapedPasses DEF Verified, Shaped, reason
  <2>6. reason(latest, e) # None /\ Refuse(c, reason(latest, e), e)
    BY <1>3, <2>1, <2>2, <2>5
  <2>7. calls'[c].answer = reason(latest, e) /\ calls'[c].estimate = e
    BY <1>6, <2>6
  <2>8. QED
    BY <2>4, <2>5, <2>6, <2>7
<1>9. ASSUME Rebuild(c) \/ SendTransaction(c) \/ SendIsLost(c) \/ GetTransaction(c) \/ PollTimesOut(c)
      PROVE  Fine(calls'[c])
  <2>1. CASE Rebuild(c)
    BY <1>1, <1>3, <2>1 DEF Rebuild, CallRecords
  <2>2. CASE SendTransaction(c)
    BY <1>1, <1>6, <2>2 DEF SendTransaction, CallRecords
  <2>3. CASE SendIsLost(c)
    BY <1>1, <2>3 DEF SendIsLost, CallRecords
  <2>4. CASE GetTransaction(c)
    BY <1>1, <1>3, <2>4 DEF GetTransaction, AttemptTimedOut, CallRecords
  <2>5. CASE PollTimesOut(c)
    BY <1>1, <1>3, <2>5 DEF PollTimesOut, CallRecords
  <2>6. QED
    BY <1>9, <2>1, <2>2, <2>3, <2>4, <2>5
<1>10. \/ calls'[c] = calls[c]
       \/ \E p \in payloads, asked \in Amounts : Settle(c, p, asked)
       \/ SimulateTransaction(c) \/ Verified(c) \/ Rebuild(c) \/ SendTransaction(c)
       \/ SendIsLost(c) \/ GetTransaction(c) \/ PollTimesOut(c)
  <2>1. CASE UNCHANGED calls
    BY <2>1
  <2>2. ASSUME NEW d \in Calls \ {c}, NEW k, Call(d, k)
        PROVE  calls'[c] = calls[c]
    BY <1>1, <2>2 DEF Call
  <2>3. ASSUME NEW d \in Calls \ {c},
               \/ \E p \in payloads, asked \in Amounts : Settle(d, p, asked)
               \/ SimulateTransaction(d) \/ Verified(d) \/ Rebuild(d) \/ SendTransaction(d)
               \/ SendIsLost(d) \/ GetTransaction(d) \/ PollTimesOut(d)
        PROVE  calls'[c] = calls[c]
    <3>1. CASE \E p \in payloads, asked \in Amounts : Settle(d, p, asked)
      BY <2>2, <3>1 DEF Settle
    <3>2. CASE SimulateTransaction(d)
      BY <2>2, <3>2 DEF SimulateTransaction, Answer
    <3>3. CASE Verified(d)
      BY <2>2, <3>3 DEF Verified, Refuse
    <3>4. CASE Rebuild(d) \/ PollTimesOut(d)
      BY <2>2, <3>4 DEF Rebuild, PollTimesOut
    <3>5. CASE GetTransaction(d)
      BY <2>2, <3>5 DEF GetTransaction, AttemptTimedOut
    <3>6. CASE SendTransaction(d)
      BY <1>1, <2>2, <3>6 DEF SendTransaction, Answer
    <3>7. CASE SendIsLost(d)
      BY <1>1, <3>7 DEF SendIsLost
    <3>8. QED
      BY <2>3, <3>1, <3>2, <3>3, <3>4, <3>5, <3>6, <3>7
  <2>4. \/ UNCHANGED calls
        \/ \E d \in Calls :
             \/ \E p \in payloads, asked \in Amounts : Settle(d, p, asked)
             \/ SimulateTransaction(d) \/ Verified(d) \/ Rebuild(d) \/ SendTransaction(d)
             \/ SendIsLost(d) \/ GetTransaction(d) \/ PollTimesOut(d)
    <3>1. CASE UNCHANGED vars
      BY <3>1 DEF vars
    <3>2. CASE \E a \in Amounts :
                 CreatePaymentPayload(a) \/ CreateSessionPayload(a) \/ Foreign(a)
      BY <3>2 DEF CreatePaymentPayload, CreateSessionPayload, Foreign, Build
    <3>3. CASE Tick \/ \E tx \in pool : Land(tx)
      BY <3>3 DEF Tick, Land
    <3>4. QED
      BY <3>1, <3>2, <3>3 DEF Next
  <2>5. QED
    BY <2>1, <2>3, <2>4
<1>11. QED
  BY <1>2, <1>4, <1>7, <1>8, <1>9, <1>10

\* No call for its amount refuses a payload of the custodial client for anything but the
\* state of the ledger, the fee of the testnet or a maximum below the fee, and estimates
\* that differ by more than the tolerance less the lag: for every timeout, every lag and
\* every tolerance.
THEOREM CustodialPayloadsPass == Spec => []CustodialAccepted
<1>1. Init => IInv /\ Shapes /\ CustodialAccepted
  <2>1. Init => Shapes /\ CustodialAccepted
    BY IdleRecord DEF Init, Shapes, CustodialAccepted
  <2>2. QED
    BY <2>1, Initial
<1>2. IInv /\ Shapes /\ CustodialAccepted /\ [Next]_vars => (IInv /\ Shapes /\ CustodialAccepted)'
  BY Step, ShapesKept, AcceptedKept
<1>3. QED
  BY <1>1, <1>2, PTL DEF Spec

=============================================================================
