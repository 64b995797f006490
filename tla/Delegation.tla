------------------------------ MODULE Delegation ------------------------------
(***************************************************************************)
(* The agent wallet: one owner's page, the wallet endpoints of the MCP     *)
(* server with the owner's row of McpWallet, and the smart accounts with   *)
(* the context rules that let a session key spend.                         *)
(*                                                                         *)
(* A delegation is a chain of calls, each of which may fail, be given up   *)
(* while it is still under way, or be cut off by a reload of the page: a   *)
(* request goes on in the server, a signed transaction may still land.     *)
(* Beside it the page moves USDC between the owner and the smart account.  *)
(* The owner's transactions are built on the account's sequence number,    *)
(* so that of those built on one number at most one ever lands.            *)
(***************************************************************************)
EXTENDS Integers, FiniteSets

CONSTANTS
  Budgets,     \* the budgets that the owner may enter
  MaxMishaps,   \* bound on calls lost or given up, reloads, withdrawals of access, transfers
  MaxRuns,     \* bound on delegations of an owner whose wallet works
  MaxRevokes,  \* bound on the revocations
  Nothing

ASSUME DelegationConstants ==
  /\ Budgets \subseteq Nat \ {0} /\ Budgets # {}
  /\ {MaxMishaps, MaxRuns, MaxRevokes} \subseteq Nat
  /\ Nothing \notin Nat

\* A transaction of the owner; keys, accounts and rules are numbered as they are made.
Named == Nat \cup {Nothing}
OpKinds == {"deploy", "fund", "remove", "add", "policy", "topUp", "withdraw", "trust"}
OpRecord == [kind : OpKinds, awaited : BOOLEAN, rule : Named, account : Named, key : Named,
             budget : Budgets \cup {Nothing}]

ASSUME NothingAssumption == Nothing \notin OpRecord

VARIABLES
  allowed,     \* User.mcpEarlyAccess
  row,        \* the owner's row of McpWallet: session key, and the grant once linked
  srv,        \* requests under way in the MCP server
  page,       \* the owner's page
  pending,    \* transactions signed on the current sequence number of the owner
  accounts,   \* smart accounts deployed
  funded,     \* session keys whose account exists on the ledger
  rules,      \* the context rules named verivyx-session
  delegated,  \* the grants whose last transaction the page saw confirmed
  made,       \* keys and rules made so far: their names are never reused
  trust,      \* the owner's account has a trustline for USDC
  cash,       \* the transfer or trustline that the page waits for, beside anything else
  mishaps, runs, revokes

ledger == <<accounts, funded, rules, made, trust>>
chain == <<pending, ledger>>
bounds == <<mishaps, runs, revokes>>
delegationVars == <<allowed, row, srv, page, cash, chain, delegated, bounds>>

Mishap == mishaps < MaxMishaps /\ mishaps' = mishaps + 1

Fresh(account, view) ==
  [pc |-> "idle", view |-> view, account |-> account, key |-> Nothing,
   budget |-> Nothing, found |-> Nothing, rule |-> Nothing, stale |-> {}, tx |-> Nothing]

DelegationInit ==
  /\ allowed = TRUE
  /\ row = Nothing
  /\ srv = {}
  /\ page = Fresh(Nothing, "connect")
  /\ pending = {} /\ accounts = 0 /\ funded = {} /\ rules = {}
  /\ made = [key |-> 0, rule |-> 0]
  /\ delegated = {}
  /\ trust \in BOOLEAN /\ cash = Nothing
  /\ mishaps = 0 /\ runs = 0 /\ revokes = 0

Linked == row # Nothing /\ row.grant # Nothing
RulesOf(account) == {r \in rules : r.account = account}

\* What the agent needs to pay, and the owner wants: the key in the row has an
\* account and a rule of the linked smart account, with the budget of the row,
\* and it has no rule without one.
Working ==
  /\ Linked
  /\ row.key \in funded
  /\ LET mine == {r \in RulesOf(row.grant.account) : r.key = row.key}
     IN  mine # {} /\ \A r \in mine : r.limit = row.grant.budget

-----------------------------------------------------------------------------
(* The chain: what the owner's transactions do. *)

Op(kind, rule) == [kind |-> kind, awaited |-> TRUE, rule |-> rule, account |-> page.account,
                   key |-> page.key, budget |-> page.budget]

\* What the simulation before the signature lets through.
Simulates(op) ==
  CASE op.kind = "remove" -> \E r \in RulesOf(op.account) : r.id = op.rule
    [] op.kind = "policy" -> \E r \in RulesOf(op.account) : r.id = op.rule /\ r.limit = Nothing
    [] op.kind = "fund"   -> op.key \notin funded
    [] OTHER              -> TRUE

Apply(op) ==
  /\ accounts' = IF op.kind = "deploy" THEN accounts + 1 ELSE accounts
  /\ funded' = IF op.kind = "fund" THEN funded \cup {op.key} ELSE funded
  /\ trust' = (trust \/ op.kind = "trust")
  /\ made' = IF op.kind = "add" THEN [made EXCEPT !.rule = @ + 1] ELSE made
  /\ rules' =
       CASE op.kind = "remove" -> {r \in rules : r.id # op.rule}
         [] op.kind = "add" -> rules \cup {[id |-> made.rule + 1, account |-> op.account,
                                            key |-> op.key, limit |-> Nothing]}
         [] op.kind = "policy" -> {IF r.id = op.rule THEN [r EXCEPT !.limit = op.budget] ELSE r :
                                     r \in rules}
         [] OTHER -> rules

\* submitWithOwnerAuth up to its poll: simulated, signed and sent.
Submit(op) ==
  /\ page.tx = Nothing
  /\ Simulates(op)
  /\ pending' = pending \cup {op}
  /\ page' = [page EXCEPT !.tx = op]
  /\ UNCHANGED <<allowed, row, srv, cash, ledger, delegated, bounds>>

\* Where the page goes when the transaction it polls is confirmed.
Confirmed(op) ==
  LET to(pc) == [page EXCEPT !.pc = pc, !.tx = Nothing]
  IN  CASE page.pc = "deploy" -> [to("idle") EXCEPT !.account = accounts + 1, !.view = "delegate"]
        [] page.pc = "fund"   -> to("look")
        [] page.pc = "clean"  -> [to("clean") EXCEPT !.stale = @ \ {op.rule}]
        [] page.pc = "add"    -> to("find")
        [] page.pc = "policy" -> [to("bind") EXCEPT !.rule = page.found]
        [] page.pc = "unrule" -> to("unlink")

\* A transaction lands: those built on the same number are void.
Land(op) ==
  /\ op \in pending
  /\ pending' = {}
  /\ Apply(op)
  /\ page' = IF op.awaited THEN Confirmed(op) ELSE page
  /\ cash' = IF cash = op THEN Nothing ELSE cash
  /\ delegated' = IF op.awaited /\ op.kind = "policy"
                  THEN delegated \cup {[account |-> op.account, budget |-> op.budget]}
                  ELSE delegated
  /\ UNCHANGED <<allowed, row, srv, bounds>>

\* Its time bound passes: it never lands.
Lapse(op) ==
  /\ op \in pending
  /\ Mishap
  /\ pending' = pending \ {op}
  /\ UNCHANGED <<allowed, row, srv, page, cash, ledger, delegated, runs, revokes>>

-----------------------------------------------------------------------------
(* The page. *)

Step(pc) == page' = [page EXCEPT !.pc = pc]
PageOnly == UNCHANGED <<allowed, row, srv, cash, chain, delegated, bounds>>
Ask(kind, pc) ==
  /\ srv' = srv \cup {[kind |-> kind, awaited |-> TRUE, stage |-> "read", key |-> Nothing,
                       grant |-> [account |-> page.account, budget |-> page.budget]]}
  /\ Step(pc)

\* A smart account is deployed for the owner: a new one each time.
HandleDeploy ==
  /\ page.pc = "idle" /\ page.view = "connect"
  /\ Step("deploy")
  /\ PageOnly

CreateOrConnectAccount == page.pc = "deploy" /\ Submit(Op("deploy", Nothing))

HandleDelegate ==
  /\ page.pc = "idle" /\ page.view \in {"delegate", "manage"}
  /\ IF Working THEN runs < MaxRuns /\ runs' = runs + 1 ELSE UNCHANGED runs
  /\ Ask("issue", "issue")
  /\ UNCHANGED <<allowed, row, cash, chain, delegated, mishaps, revokes>>

\* The answer to the request for a key: the page goes on with its budget.
Issued(key) ==
  \E b \in Budgets : page' = [page EXCEPT !.pc = "fund", !.key = key, !.budget = b]

\* Step 0a of delegate: the key gets an account unless it has one.
EnsureSessionAccountExists ==
  /\ page.pc = "fund"
  /\ \/ page.key \in funded /\ page.tx = Nothing /\ Step("look") /\ PageOnly
     \/ page.key \notin funded /\ Submit(Op("fund", Nothing))

\* Step 0: the rules found now are removed one by one.
LookForStale ==
  /\ page.pc = "look"
  /\ page' = [page EXCEPT !.pc = "clean", !.stale = {r.id : r \in RulesOf(page.account)}]
  /\ PageOnly

StaleIsKept == page.pc = "clean" /\ Step("add") /\ PageOnly
RemoveStale ==
  /\ page.pc = "clean"
  /\ \/ page.stale = {} /\ Step("add") /\ PageOnly
     \/ \E id \in page.stale : Submit(Op("remove", id))

\* Step 1: a rule with the key and no policy.
AddContextRule == page.pc = "add" /\ Submit(Op("add", Nothing))

\* The new rule is looked up by its name: the oldest of that name is taken.
FindRule ==
  /\ page.pc = "find"
  /\ \E r \in RulesOf(page.account) :
       /\ \A q \in RulesOf(page.account) : r.id <= q.id
       /\ page' = [page EXCEPT !.pc = "policy", !.found = r.id]
  /\ PageOnly

AddPolicy == page.pc = "policy" /\ Submit(Op("policy", page.found))

ConfirmBinding ==
  /\ page.pc = "bind"
  /\ Ask("bind", "bound")
  /\ UNCHANGED <<allowed, row, cash, chain, delegated, bounds>>

\* First on the chain, then in the server.
HandleRevoke ==
  /\ page.pc = "idle" /\ page.account # Nothing /\ page.rule # Nothing
  /\ revokes < MaxRevokes
  /\ revokes' = revokes + 1
  /\ Step("unrule")
  /\ UNCHANGED <<allowed, row, srv, cash, chain, delegated, mishaps, runs>>

Revoke == page.pc = "unrule" /\ Submit(Op("remove", page.rule))

RevokeBinding ==
  /\ page.pc = "unlink"
  /\ Ask("revoke", "unlinked")
  /\ UNCHANGED <<allowed, row, cash, chain, delegated, bounds>>

\* A transfer may be signed while a delegation goes on: it is built on the same number,
\* but by a part of the page of its own.
Send(kind) ==
  /\ page.view = "manage" /\ cash = Nothing
  /\ Mishap
  /\ cash' = [Op(kind, Nothing) EXCEPT !.awaited = FALSE, !.key = Nothing, !.budget = Nothing]
  /\ pending' = pending \cup {cash'}
  /\ UNCHANGED <<allowed, row, srv, page, ledger, delegated, runs, revokes>>

\* Who has USDC has the trustline; who withdraws is asked to add it first.
OwnerHasUsdcTrustline == trust
TopUp == trust /\ Send("topUp")
Withdraw == Send("withdraw")
HandleWithdraw == OwnerHasUsdcTrustline /\ Withdraw
AddOwnerUsdcTrustline == Send("trust")
HandleAddTrustline == ~OwnerHasUsdcTrustline /\ AddOwnerUsdcTrustline

\* It is void, has lapsed, or is given up.
HandleTopUpFails ==
  /\ cash # Nothing
  /\ IF cash \in pending THEN Mishap ELSE UNCHANGED mishaps
  /\ cash' = Nothing
  /\ UNCHANGED <<allowed, row, srv, page, chain, delegated, runs, revokes>>

\* The page no longer waits: what it has sent goes on without it.
Abandon ==
  /\ srv' = {[r EXCEPT !.awaited = FALSE] : r \in srv}
  /\ pending' = {[op EXCEPT !.awaited = FALSE] : op \in pending}

\* A call of the page fails.  In step 0 that is swallowed; anywhere else the
\* handler ends.
Throw ==
  page' = IF page.pc \in {"look", "clean"}
          THEN [page EXCEPT !.pc = "add", !.stale = {}, !.tx = Nothing]
          ELSE [Fresh(page.account, page.view) EXCEPT !.rule = page.rule]

\* The outcome that it waits for can no longer come.
Hopeless ==
  \/ page.tx # Nothing /\ page.tx \notin pending
  \/ page.pc \in {"issue", "bound", "unlinked"} /\ \A r \in srv : ~r.awaited
  \/ page.pc = "clean" /\ page.tx = Nothing /\ \E id \in page.stale : ~Simulates(Op("remove", id))
  \/ page.pc = "find" /\ RulesOf(page.account) = {}
  \/ page.pc = "policy" /\ page.tx = Nothing /\ ~Simulates(Op("policy", page.found))
  \/ page.pc = "unrule" /\ page.tx = Nothing /\ ~Simulates(Op("remove", page.rule))

CallFails ==
  /\ page.pc # "idle"
  /\ IF Hopeless THEN UNCHANGED mishaps ELSE Mishap
  /\ Throw /\ Abandon
  /\ UNCHANGED <<allowed, row, cash, ledger, delegated, runs, revokes>>

\* The page is opened again: it knows what the server tells it.
LoadFromCache ==
  IF ~allowed \/ page.view = "waitlist" THEN Fresh(Nothing, "waitlist")
  ELSE IF Linked THEN Fresh(row.grant.account, "manage") ELSE Fresh(Nothing, "connect")
\* GET /status, which reads the row whether it is linked or not.
GetWalletStatus == IF Linked THEN row.grant ELSE Nothing
Load ==
  IF ~allowed THEN Fresh(Nothing, "waitlist")
  ELSE IF GetWalletStatus # Nothing THEN Fresh(GetWalletStatus.account, "manage")
  ELSE Fresh(Nothing, "connect")

Reload ==
  /\ IF page.view = "waitlist" /\ allowed THEN UNCHANGED mishaps ELSE Mishap
  /\ page' = Load /\ Abandon /\ cash' = Nothing
  /\ UNCHANGED <<allowed, row, ledger, delegated, runs, revokes>>

AccessWithdrawn ==
  /\ allowed /\ Mishap /\ allowed' = FALSE
  /\ UNCHANGED <<row, srv, page, cash, chain, delegated, runs, revokes>>

AccessGranted ==
  /\ ~allowed /\ allowed' = TRUE
  /\ UNCHANGED <<row, srv, page, cash, chain, delegated, bounds>>

-----------------------------------------------------------------------------
(* The endpoints: each reads the row, then writes it.  An answer reaches the *)
(* page unless the page has turned to something else.                        *)

Answers(r, to) == page' = IF r.awaited THEN to ELSE page
Failed(view) == [Fresh(page.account, view) EXCEPT !.rule = page.rule]

Refused(r) ==
  /\ r \in srv /\ r.stage = "read" /\ r.kind # "revoke" /\ ~allowed
  /\ srv' = srv \ {r}
  /\ Answers(r, Failed("waitlist"))
  /\ UNCHANGED <<allowed, row, cash, chain, delegated, bounds>>

\* POST /session-signer: the key of the row, or a new one for a new row.
SessionSignerReads(r) ==
  /\ r \in srv /\ r.kind = "issue" /\ r.stage = "read" /\ allowed
  /\ \/ /\ row # Nothing
        /\ srv' = srv \ {r}
        /\ IF r.awaited THEN Issued(row.key) ELSE UNCHANGED page
        /\ UNCHANGED made
     \/ /\ row = Nothing
        /\ made' = [made EXCEPT !.key = @ + 1]
        /\ srv' = (srv \ {r}) \cup {[r EXCEPT !.stage = "write", !.key = made.key + 1]}
        /\ UNCHANGED page
  /\ UNCHANGED <<allowed, row, cash, pending, accounts, funded, rules, trust, delegated, bounds>>

UpsertBinding(r) ==
  /\ r \in srv /\ r.kind = "issue" /\ r.stage = "write"
  /\ row' = [key |-> r.key, grant |-> Nothing]
  /\ srv' = srv \ {r}
  /\ IF r.awaited THEN Issued(r.key) ELSE UNCHANGED page
  /\ UNCHANGED <<allowed, cash, chain, delegated, bounds>>

\* POST /binding: there must be a row; what is updated is the row found later.
BindingReads(r) ==
  /\ r \in srv /\ r.kind = "bind" /\ r.stage = "read" /\ allowed
  /\ \/ /\ row = Nothing
        /\ srv' = srv \ {r}
        /\ Answers(r, Failed(page.view))
     \/ /\ row # Nothing
        /\ srv' = (srv \ {r}) \cup {[r EXCEPT !.stage = "write"]}
        /\ UNCHANGED page
  /\ UNCHANGED <<allowed, row, cash, chain, delegated, bounds>>

BindWalletUpserts(r) ==
  /\ r \in srv /\ r.kind = "bind" /\ r.stage = "write"
  /\ row' = [key |-> IF row = Nothing THEN made.key ELSE row.key, grant |-> r.grant]
  /\ srv' = srv \ {r}
  /\ Answers(r, [Fresh(page.account, "manage") EXCEPT !.rule = page.rule])
  /\ UNCHANGED <<allowed, cash, chain, delegated, bounds>>
BindWallet(r) ==
  /\ r \in srv /\ r.kind = "bind" /\ r.stage = "write"
  /\ row' = IF row = Nothing THEN Nothing ELSE [row EXCEPT !.grant = r.grant]
  /\ srv' = srv \ {r}
  /\ Answers(r, [Fresh(page.account, "manage") EXCEPT !.rule = page.rule])
  /\ UNCHANGED <<allowed, cash, chain, delegated, bounds>>

\* POST /revoke.
DeleteBinding(r) ==
  /\ r \in srv /\ r.kind = "revoke"
  /\ row' = Nothing
  /\ srv' = srv \ {r}
  /\ Answers(r, Fresh(page.account, "connect"))
  /\ UNCHANGED <<allowed, cash, chain, delegated, bounds>>

-----------------------------------------------------------------------------

Request(r) ==
  \/ Refused(r) \/ SessionSignerReads(r) \/ UpsertBinding(r)
  \/ BindingReads(r) \/ BindWallet(r) \/ DeleteBinding(r)

DelegateStep ==
  \/ EnsureSessionAccountExists \/ LookForStale \/ RemoveStale \/ AddContextRule
  \/ FindRule \/ AddPolicy \/ ConfirmBinding

Proceed ==
  \/ CreateOrConnectAccount \/ DelegateStep \/ Revoke \/ RevokeBinding
  \/ Hopeless /\ CallFails
  \/ page.view = "waitlist" /\ allowed /\ Reload

DelegationNext ==
  \/ \E r \in srv : Request(r)
  \/ \E op \in pending : Land(op) \/ Lapse(op)
  \/ HandleDeploy \/ HandleDelegate \/ HandleRevoke
  \/ TopUp \/ HandleWithdraw \/ HandleAddTrustline \/ HandleTopUpFails
  \/ Proceed \/ CallFails \/ Reload
  \/ AccessWithdrawn \/ AccessGranted

\* The server and the network answer in the end, access is given back, and the
\* owner deploys and delegates again as long as the wallet does not work.
DelegationSpec ==
  /\ DelegationInit /\ [][DelegationNext]_delegationVars
  /\ WF_delegationVars(\E r \in srv : Request(r))
  /\ WF_delegationVars(\E op \in pending : Land(op))
  /\ WF_delegationVars(Proceed)
  /\ WF_delegationVars(HandleDeploy)
  /\ WF_delegationVars(~Working /\ HandleDelegate)
  /\ WF_delegationVars(AccessGranted)

-----------------------------------------------------------------------------
(* Properties. *)

\* A row gets linked only to a smart account and a budget whose delegation the
\* page saw through to its last transaction, and only while it exists: neither an
\* attempt given up midway nor a late request links anything else, and a binding
\* whose row a revocation deleted after it was read does not bring the row back
\* (bindWallet is an UPDATE, endpoints.ts:205; page.tsx, handleDelegate).
LinkedMeansDelegated ==
  [][Linked' /\ (~Linked \/ row'.grant # row.grant) =>
       row # Nothing /\ row'.grant \in delegated]_delegationVars

\* Delegating again does not stack rules: each one too many on a smart account
\* costs a call that failed or was given up, or a transfer that voided the removal
\* with which it shares its sequence number (delegate, step 0).
RulesDoNotStack ==
  \A a \in 1..accounts : Cardinality(RulesOf(a)) <= 1 + mishaps

\* An owner who delegates again as long as the wallet does not work ends with one
\* that does, whatever failed before: the key of the row has a rule with the
\* budget of the row and none without (delegate is "safe to re-run ... and
\* REPAIRS an account", smartAccount.ts:663).
RerunRepairs == []<>Working

=============================================================================
