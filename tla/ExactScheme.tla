------------------------------ MODULE ExactScheme ------------------------------
(***************************************************************************)
(* The exact scheme on Stellar: payloads that a client builds for what a   *)
(* resource asks, and the calls by which a facilitator settles them.       *)
(*                                                                         *)
(* A call verifies the payload against the ledger it sees, puts its own    *)
(* transaction around the signed invocation, sends it and polls for its    *)
(* result.  The payer's signature holds for one use and until a ledger;    *)
(* the facilitator's transaction for one sequence number and until a time. *)
(* Times are seconds, and ledgers close every LedgerSeconds.               *)
(***************************************************************************)
EXTENDS Integers, FiniteSets

CONSTANTS
  Amounts,        \* what the resources ask
  Clients,        \* "custodial", "session", "foreign": who builds payloads
  Calls,          \* the calls of settle
  NSigners,       \* signers of the facilitator, used in turn
  Timeout,        \* maxTimeoutSeconds of the requirements
  LedgerSeconds,
  Estimates,      \* what getEstimatedLedgerCloseTimeSeconds may return
  MaxLag,         \* ledgers that an RPC node may be behind
  Tolerance,      \* SIGNATURE_EXPIRATION_LEDGER_TOLERANCE
  SessionWindow,  \* ledgers for which a session payload is signed
  Networks,       \* the networks of the resources
  CloseSeconds,   \* from the close time of a ledger until it is known, at most
  MinFee, BaseFee, MaxFee, SessionFee,
  MaxPayloads, MaxTime, MaxFaults,   \* bounds
  None

ASSUME ExactConstants ==
  /\ {Timeout, LedgerSeconds, NSigners, MinFee} \cup Estimates \cup Amounts \subseteq Nat \ {0}
  /\ Estimates # {} /\ Networks \subseteq {"testnet", "pubnet"}
  /\ {CloseSeconds, MaxLag, Tolerance, SessionWindow, BaseFee, MaxFee, SessionFee,
      MaxPayloads, MaxTime, MaxFaults} \subseteq Nat

VARIABLES
  now,       \* seconds
  payloads,  \* the payloads built
  calls,     \* the calls of settle
  turn,      \* index of roundRobinSelectSigner
  seqno,     \* sequence number of each signer on the ledger
  pool,      \* transactions that the network holds
  landed,    \* those in a ledger, with whether they succeeded
  faults

vars == <<now, payloads, calls, turn, seqno, pool, landed, faults>>

Signers == 1 .. NSigners
Envelopes == {"ok", "version", "scheme", "network", "malformed"}
Entries == [kind : {"address", "source"}, who : {"payer", "session", "facilitator", "other"},
            expires : Nat, nested : BOOLEAN, signed : BOOLEAN]
Payloads ==
  [id : Nat, by : {"custodial", "session", "foreign"}, envelope : Envelopes,
   source : {"placeholder", "facilitator"}, call : {"transfer", "other"}, asset : {"usdc", "other"},
   from : {"payer", "facilitator"}, to : {"shop", "other"}, amount : Amounts, fee : Nat,
   data : BOOLEAN, auth : SUBSET Entries, moves : 0 .. 2,
   network : {"testnet", "pubnet"}, estimate : Nat]
Transactions == [signer : Signers, seq : Nat, payload : Payloads, deadline : Nat]

\* Why a payload is refused, and how a call that settles it ends.
Refusals == {"version", "scheme", "network", "malformed", "unsafe_tx_or_op_source",
  "wrong_operation", "wrong_asset", "facilitator_is_payer", "wrong_recipient", "wrong_amount",
  "simulation_failed", "fee_below_minimum", "fee_exceeds_maximum", "no_transfer_events",
  "multiple_transfers", "no_auth_entries", "unsupported_credential_type", "facilitator_in_auth",
  "signature_expiration_too_far", "has_subinvocations", "missing_payer_signature",
  "unexpected_pending_signatures", "no_soroban_data"}
Failures == {"transaction_submission_failed", "transaction_failed", "unexpected_settle_error"}

\* None is nobody's transaction, and no answer.
ASSUME NoneAssumption ==
  None \notin Transactions \cup Payloads \cup Refusals \cup Failures \cup {"success"}

Ledger == now \div LedgerSeconds
CeilDiv(a, b) == (a + b - 1) \div b
Fault == faults < MaxFaults /\ faults' = faults + 1

Idle == [pc |-> "idle", payload |-> None, asked |-> None, signer |-> None,
         tx |-> None, polls |-> 0, wake |-> 0, estimate |-> 0, answer |-> None]

Init ==
  /\ now = 0 /\ payloads = {} /\ turn = 0
  /\ calls = [c \in Calls |-> Idle]
  /\ seqno = [s \in Signers |-> 0]
  /\ pool = {} /\ landed = {}
  /\ faults = 0

-----------------------------------------------------------------------------
(* Payloads. *)

\* Ledgers that a node of the RPC service may report, and the last ledger that a
\* payment within the timeout may need.
Latest == {l \in 0 .. Ledger : l >= Ledger - MaxLag}
Offset(estimate) == CeilDiv(Timeout, estimate)

Entry(who, expires) ==
  [kind |-> "address", who |-> who, expires |-> expires, nested |-> FALSE, signed |-> TRUE]

\* The estimate is kept to tell what a payload was built on: no check reads it.
Standard(amount, by, network, fee, estimate, expires) ==
  [id |-> Cardinality(payloads) + 1, by |-> by, envelope |-> "ok", source |-> "placeholder",
   call |-> "transfer", asset |-> "usdc", from |-> "payer", to |-> "shop", amount |-> amount,
   fee |-> fee, data |-> by # "session", auth |-> {Entry("payer", expires)}, moves |-> 1,
   network |-> network, estimate |-> estimate]

Build(payload) ==
  /\ Cardinality(payloads) < MaxPayloads
  /\ payloads' = payloads \cup {payload}
  /\ UNCHANGED <<now, calls, turn, seqno, pool, landed, faults>>

\* MinFee is what the simulation asks.
GetPaymentTransactionFeeStroops(network) == IF network = "testnet" THEN 1 ELSE BaseFee + MinFee

\* The client of a key of its own: the entry lasts as long as the facilitator allows.
Custodial(amount, by) ==
  {Standard(amount, by, n, GetPaymentTransactionFeeStroops(n), e, latest + Offset(e)) :
     n \in Networks, latest \in Latest, e \in Estimates}

CreatePaymentPayload(amount) ==
  /\ "custodial" \in Clients
  /\ \E payload \in Custodial(amount, "custodial") : Build(payload)

\* The client of a smart account and its session key: a window of its own, a fee for
\* the nested check, and no resource data in the envelope.  Two entries are signed: that
\* of the account, and that by which the key answers for it.
BuildDelegatedInvocation(payload, expires) ==
  [payload EXCEPT !.auth = @ \cup {Entry("session", expires)}]

BuildStandardTransferPayment(amount) ==
  {BuildDelegatedInvocation(
     Standard(amount, "session", n, SessionFee, 0, latest + SessionWindow),
     latest + SessionWindow) : n \in Networks, latest \in Latest}

CreateSessionPayload(amount) ==
  /\ "session" \in Clients
  /\ \E payload \in BuildStandardTransferPayment(amount) : Build(payload)

\* A client that is not of this repository deviates from the scheme in one place.
Deviations(p) ==
  LET expires == Ledger + Offset(LedgerSeconds)
      more(entry) == [p EXCEPT !.auth = @ \cup {entry}]
  IN  {[p EXCEPT !.envelope = e] : e \in {"version", "scheme", "network", "malformed"}}
      \cup {[p EXCEPT !.source = "facilitator"], [p EXCEPT !.call = "other"],
            [p EXCEPT !.asset = "other"], [p EXCEPT !.from = "facilitator"],
            [p EXCEPT !.to = "other"], [p EXCEPT !.data = FALSE], [p EXCEPT !.auth = {}]}
      \cup {[p EXCEPT !.fee = f] : f \in {MinFee - 1, MaxFee + 1}}
      \cup {[p EXCEPT !.moves = n] : n \in {0, 2}}
      \cup {more(Entry("facilitator", expires)), more(Entry("other", expires + Tolerance + 1)),
            more([Entry("other", expires) EXCEPT !.kind = "source"]),
            more([Entry("other", expires) EXCEPT !.nested = TRUE]),
            more([Entry("other", expires) EXCEPT !.signed = FALSE])}

Foreign(amount) ==
  /\ "foreign" \in Clients
  /\ \A p \in payloads : p.by # "foreign"
  /\ \E p \in Custodial(amount, "foreign") : \E payload \in Deviations(p) : Build(payload)

-----------------------------------------------------------------------------
(* verify: the first of these that applies is the reason of the refusal. *)

Call(c, record) ==
  /\ calls' = [calls EXCEPT ![c] = record]
  /\ UNCHANGED <<now, payloads, pool, landed, seqno>>
Answer(c, answer) == Call(c, [calls[c] EXCEPT !.pc = "done", !.answer = answer, !.tx = None])

\* Steps 1 to 6: what the payload itself tells.
Malformed(p, asked) ==
  CASE p.envelope # "ok"         -> p.envelope
    [] p.source = "facilitator"  -> "unsafe_tx_or_op_source"
    [] p.call # "transfer"       -> "wrong_operation"
    [] p.asset # "usdc"          -> "wrong_asset"
    [] p.from = "facilitator"    -> "facilitator_is_payer"
    [] p.to # "shop"             -> "wrong_recipient"
    [] p.amount # asked          -> "wrong_amount"
    [] OTHER                     -> None

\* What the ledger says of the invocation, at a node that has seen it up to latest:
\* with entries it checks them, and a nonce is good for one use.
Applies(p, latest) ==
  /\ \A e \in p.auth : latest <= e.expires /\ e.signed
  /\ \A r \in landed : ~(r.ok /\ r.tx.payload.id = p.id /\ r.at <= latest)

ValidateSimulationEvents(p) ==
  CASE p.moves = 0 -> "no_transfer_events"
    [] p.moves > 1 -> "multiple_transfers"
    [] OTHER       -> None

\* Steps 7 to 9: the simulation, its fee, and the transfers it reports.
SimulationRefuses(p, latest) ==
  CASE ~Applies(p, latest) -> "simulation_failed"
    [] p.fee < MinFee      -> "fee_below_minimum"
    [] p.fee > MaxFee      -> "fee_exceeds_maximum"
    [] OTHER               -> ValidateSimulationEvents(p)

\* No allowance for nodes that are behind.
ValidateWithoutTolerance(p, maxLedger) ==
  CASE p.auth = {} -> "no_auth_entries"
    [] \E e \in p.auth : e.expires > maxLedger -> "signature_expiration_too_far"
    [] OTHER -> None

\* Whose entries are signed, and whose are not; the source account has none to sign.
GatherAuthEntrySignatureStatus(p) ==
  LET who(signed) == {e.who : e \in {d \in p.auth : d.kind = "address" /\ d.signed = signed}}
  IN  [alreadySigned |-> who(TRUE), pendingSignature |-> who(FALSE)]

\* Step 10: the authorization entries.
ValidateAuthEntries(p, maxLedger) ==
  CASE p.auth = {} -> "no_auth_entries"
    [] \E e \in p.auth : e.kind # "address"      -> "unsupported_credential_type"
    [] \E e \in p.auth : e.who = "facilitator"   -> "facilitator_in_auth"
    [] \E e \in p.auth : e.expires > maxLedger + Tolerance -> "signature_expiration_too_far"
    [] \E e \in p.auth : e.nested                -> "has_subinvocations"
    [] p.from \notin GatherAuthEntrySignatureStatus(p).alreadySigned -> "missing_payer_signature"
    [] GatherAuthEntrySignatureStatus(p).pendingSignature # {} -> "unexpected_pending_signatures"
    [] OTHER -> None

Settle(c, p, asked) ==
  /\ calls[c].pc = "idle"
  /\ LET reason == Malformed(p, asked)
         record == [Idle EXCEPT !.payload = p, !.asked = asked]
     IN  Call(c, IF reason = None THEN [record EXCEPT !.pc = "simulate"]
                 ELSE [record EXCEPT !.pc = "done", !.answer = reason])
  /\ UNCHANGED <<turn, faults>>

SimulateTransaction(c) ==
  /\ calls[c].pc = "simulate"
  /\ \E latest \in Latest :
       LET reason == SimulationRefuses(calls[c].payload, latest)
       IN  IF reason = None THEN Call(c, [calls[c] EXCEPT !.pc = "window"]) ELSE Answer(c, reason)
  /\ UNCHANGED <<turn, faults>>

\* A refusal tells the estimate that it rests on.
Refuse(c, reason, e) ==
  Call(c, [calls[c] EXCEPT !.pc = "done", !.answer = reason, !.tx = None, !.estimate = e])

\* The end of verify, and settle up to the choice of a signer.
Verified(c) ==
  /\ calls[c].pc = "window"
  /\ \E latest \in Latest, e \in Estimates :
       LET p == calls[c].payload
           reason == ValidateAuthEntries(p, latest + Offset(e))
       IN  CASE reason # None -> Refuse(c, reason, e) /\ UNCHANGED turn
             [] ~p.data       -> Refuse(c, "no_soroban_data", e) /\ UNCHANGED turn
             [] OTHER         -> /\ Call(c, [calls[c] EXCEPT !.pc = "account",
                                                             !.signer = 1 + (turn % NSigners)])
                                 /\ turn' = (turn + 1) % NSigners
  /\ UNCHANGED faults

-----------------------------------------------------------------------------
(* settle: the facilitator's transaction. *)

\* getAccount, and the transaction around the invocation: built on the sequence number
\* read, good for the timeout from now on, and signed.
Rebuild(c) ==
  /\ calls[c].pc = "account"
  /\ LET s == calls[c].signer
     IN  Call(c, [calls[c] EXCEPT !.pc = "send",
                    !.tx = [signer |-> s, seq |-> seqno[s] + 1, payload |-> calls[c].payload,
                            deadline |-> now + Timeout]])
  /\ UNCHANGED <<turn, faults>>

Landed(tx) == {r \in landed : r.tx = tx}

\* What the network says of a transaction: it holds one of a signer at a time.
Status(tx) ==
  CASE tx \in pool \/ \E r \in landed : r.tx = tx      -> "DUPLICATE"
    [] now > tx.deadline \/ tx.seq # seqno[tx.signer] + 1 -> "ERROR"
    [] \E t \in pool : t.signer = tx.signer            -> "TRY_AGAIN_LATER"
    [] OTHER                                           -> "PENDING"

\* A duplicate is polled for like a transaction of its own.
SendAcceptsDuplicate(c) ==
  /\ calls[c].pc = "send"
  /\ IF Status(calls[c].tx) \in {"PENDING", "DUPLICATE"}
     THEN /\ pool' = IF Landed(calls[c].tx) = {} THEN pool \cup {calls[c].tx} ELSE pool
          /\ calls' = [calls EXCEPT ![c].pc = "poll", ![c].wake = now]
          /\ UNCHANGED <<now, payloads, landed, seqno>>
     ELSE Answer(c, "transaction_submission_failed")
  /\ UNCHANGED <<turn, faults>>

SendTransaction(c) ==
  /\ calls[c].pc = "send"
  /\ IF Status(calls[c].tx) = "PENDING"
     THEN /\ pool' = pool \cup {calls[c].tx}
          /\ calls' = [calls EXCEPT ![c].pc = "poll", ![c].wake = now]
          /\ UNCHANGED <<now, payloads, landed, seqno>>
     ELSE Answer(c, "transaction_submission_failed")
  /\ UNCHANGED <<turn, faults>>

\* The answer to the submission is lost: the transaction may be in all the same.
SendIsLost(c) ==
  /\ calls[c].pc = "send"
  /\ Fault
  /\ pool' \in {pool, IF Status(calls[c].tx) = "PENDING" THEN pool \cup {calls[c].tx} ELSE pool}
  /\ calls' = [calls EXCEPT ![c].pc = "done", ![c].answer = "unexpected_settle_error", ![c].tx = None]
  /\ UNCHANGED <<now, payloads, landed, seqno, turn>>

\* One attempt of the poll: a result, or a second's wait.
AttemptTimedOut(c) ==
  /\ Call(c, [calls[c] EXCEPT !.polls = @ + 1, !.wake = now + 1])
  /\ IF Landed(calls[c].tx) = {} THEN UNCHANGED faults ELSE Fault

GetTransaction(c) ==
  /\ calls[c].pc = "poll" /\ calls[c].polls < Timeout /\ now >= calls[c].wake
  /\ \/ AttemptTimedOut(c)
     \/ /\ \E r \in Landed(calls[c].tx) :
             Call(c, [calls[c] EXCEPT !.pc = "done",
                                      !.answer = IF r.ok THEN "success" ELSE "transaction_failed"])
        /\ UNCHANGED faults
  /\ UNCHANGED turn

\* The default number of attempts is used, not the timeout of the requirements.
PollTimesOutEarly(c) ==
  /\ calls[c].pc = "poll" /\ calls[c].polls = 1 /\ now >= calls[c].wake
  /\ Call(c, [calls[c] EXCEPT !.pc = "done", !.answer = "transaction_failed"])
  /\ UNCHANGED <<turn, faults>>

\* All attempts are over, and the wait after the last.  Nobody looks once more.
PollTimesOut(c) ==
  /\ calls[c].pc = "poll" /\ calls[c].polls = Timeout /\ now >= calls[c].wake
  /\ Call(c, [calls[c] EXCEPT !.pc = "done", !.answer = "transaction_failed"])
  /\ UNCHANGED <<turn, faults>>

-----------------------------------------------------------------------------
(* The network. *)

\* A ledger with a transaction becomes known, up to CloseSeconds after the close time that
\* it was agreed for, which is what the time bound is compared with: its sequence number
\* is used, its effect is that of the invocation, if that still holds.
Land(tx) ==
  /\ tx \in pool
  /\ pool' = pool \ {tx}
  /\ seqno' = [seqno EXCEPT ![tx.signer] = tx.seq]
  /\ landed' = landed \cup {[tx |-> tx, ok |-> Applies(tx.payload, Ledger), at |-> Ledger]}
  /\ UNCHANGED <<now, payloads, calls, turn, faults>>

Tick ==
  /\ now < MaxTime
  /\ now' = now + 1
  /\ pool' = {tx \in pool : tx.deadline + CloseSeconds > now}
  /\ UNCHANGED <<payloads, calls, turn, seqno, landed, faults>>

Next ==
  \/ \E a \in Amounts : CreatePaymentPayload(a) \/ CreateSessionPayload(a) \/ Foreign(a)
  \/ \E c \in Calls :
       \/ \E p \in payloads, asked \in Amounts : Settle(c, p, asked)
       \/ SimulateTransaction(c) \/ Verified(c) \/ Rebuild(c)
       \/ SendTransaction(c) \/ SendIsLost(c) \/ GetTransaction(c) \/ PollTimesOut(c)
  \/ \E tx \in pool : Land(tx)
  \/ Tick

Spec == Init /\ [][Next]_vars

-----------------------------------------------------------------------------
(* Properties. *)

\* A success is a payment: the transaction of the call is in a ledger and moved what
\* the resource asked, once, from the payer to the resource; and no two calls have
\* the success of one payload, however they overlap.
SettledIsPaid ==
  \A c \in Calls : calls[c].answer = "success" =>
    /\ \E r \in Landed(calls[c].tx) :
         LET p == r.tx.payload
         IN  /\ r.ok /\ p.id = calls[c].payload.id
             /\ p.from # "facilitator" /\ p.to = "shop" /\ p.asset = "usdc"
             /\ p.amount = calls[c].asked /\ p.moves = 1
    /\ \A d \in Calls \ {c} :
         calls[d].answer = "success" => calls[d].payload.id # calls[c].payload.id

\* A call does not give up before the time bound of its transaction: what lands after
\* the call was answered lands at the bound or after it, from a ledger that was being
\* closed then.  So "transaction_failed" is final once such a ledger is known, and not
\* before: a payment may land after the last attempt, or after the answer.
NotGivenUpEarly ==
  [][\A r \in landed' \ landed : \A c \in Calls :
       calls[c].tx = r.tx /\ calls[c].pc = "done" => now >= r.tx.deadline]_vars

\* What the custodial client builds is what the facilitator accepts, but for two things:
\* the fee it declares on the testnet, and estimates of the close time so far apart that
\* the tolerance does not make up for them and for nodes that are behind.  With one
\* estimate, the tolerance covers as many ledgers of lag as it has.
CustodialAccepted ==
  \A c \in Calls :
    LET k == calls[c]
    IN  (/\ k.pc = "done" /\ k.payload.by = "custodial"
         /\ k.asked = k.payload.amount) =>
        \/ k.answer \in {"success", "simulation_failed", "transaction_submission_failed",
                         "transaction_failed", "unexpected_settle_error"}
        \/ k.answer = "fee_below_minimum" /\ k.payload.network = "testnet"
        \/ k.answer = "fee_exceeds_maximum" /\ k.payload.fee > MaxFee
        \/ /\ k.answer = "signature_expiration_too_far"
           /\ Offset(k.payload.estimate) + MaxLag > Offset(k.estimate) + Tolerance
=============================================================================
