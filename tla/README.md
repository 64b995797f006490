# Verivyx: specifications, model checking and proofs

Verivyx sells web content to software agents. A publisher's site answers an
unpaid agent with HTTP 402; the agent signs a Stellar USDC payment; the payment
is verified, submitted, split between the creator and the platform, and the
content is unlocked. This directory holds TLA+ specifications of that path, from the
publisher's gate and the agent's wallet to the contracts and the accounts behind
them, the TLC configurations that check them on small instances, and theorems
about each of them, proved with TLAPS for every value of the constants: every
safety property that a run checks is one.

All paths below are relative to `services/` unless they start with `web/`.

## 1. The system

| Part | State it keeps | Operations that change it | Talks to |
|---|---|---|---|
| `payment-relayer` | completed and in-flight settles (memory or Redis), the facilitator lock (memory or Redis); on the ledger: the facilitator's sequence number | `POST /settle`, `POST /register-creator` (`/verify`, `/trustline` only read) | Soroban RPC, Horizon, Redis |
| `x402-gateway` | Redis: sessions `paid:*`, bindings `consumed:*`, answers `idem:settle:*` | `POST /settle`, `POST /internal/x-payment-settle` | relayer, auth-service, Redis |
| `soroban-contracts/paywall_core`, `verivyx_pay_adapter` | creator records, the contract's pooled USDC, allowances | `init`, `register`, `register_by_keeper`, `pay`, `distribute`, `set_enabled`, `upgrade`; adapter `pay` | the USDC token |
| `soroban-contracts/service_registry` | a register of services | one guarded assignment per entry point | nobody in this repository |
| `auth-service` | PostgreSQL: users, contents, events, `ConnectPending`, e-mail tokens, early access; Redis: reputation; memory: provisioning nonces, rate limits | register, verify, login, settings, connect handshake, DNS provisioning, content, admin, OAuth login and consent, humanity challenge | relayer, DNS, publishers' sites, Hydra |
| `hydration-service` | `domainCacheMap`, five minutes per entry | `POST /hydrate`, cache invalidation | auth-service, gateway, publishers' sites |
| `mcp-server` | wallet bindings (PostgreSQL), sessions and the cache of access (memory), rate-limit windows; in its source tree, `core/stellar/exact/facilitator/scheme.ts`, a facilitator of the exact scheme, which the server does not import | `/wallet/session-signer`, `/binding`, `/revoke`, the MCP payment tools; of the facilitator: verify and settle | auth-service, resources that ask for payment, Soroban RPC |
| `playground-agent` | a pool of funded test wallets, the faucet's day, sessions and their history | acquire, refill, chat turns, sweep | friendbot, faucet account, mcp-server, a model |
| `publisher-sdk` | caches of keys and of crawler ranges | a per-request decision and one call of hydration | hydration, directories of keys |
| `wordpress-plugin`, `embed-script` | a cookie, a token in the tab | the gate of a request, every surface of a post, proof of work, overlay | hydration, auth-service |
| `web` | smart accounts and their rules on the ledger, as the wallet page leaves them; the playground page | deploy, delegate, revoke, top up, withdraw; a chat | mcp-server, Soroban RPC, playground-agent |
| `redis`, `infra`, `scripts` | deployment | – | – |

### How the parts interact

An agent's payment reaches the gateway as a *proof*: the client-signed
transaction. The gateway asks the relayer to verify it, looks for a session,
then for a binding of that proof to another resource, asks the relayer to
settle it, and finally stores session, binding and answer. The relayer settles
each proof once (`settleOnce`), either by submitting a transfer into the paywall
contract and calling `distribute` for it ("pooled"), or by a contract call that
splits at once ("adapter"), or by submitting what the client signed as it is
("presigned"). Everything that uses the facilitator's account goes through one
lock. What `distribute` and the adapter pay to whom is what the contract's
creator records say; these are written by creators and by the relayer as keeper,
which mirrors what the auth-service sends when a creator's row is saved.

### What is hard

- Calls that are given up (`withTimeout`) and go on nevertheless, outside the
  lock, with a transaction that may still be applied.
- Two instances of the relayer that share Redis, where locks and markers expire
  under their owners.
- Gateway handlers that check Redis, wait for a settle, and write Redis, with
  errors of Redis ignored in some places and fatal in others; crashes in
  between; a relayer that restarts and forgets.
- One pooled balance in the contract for all creators.
- Handlers of the auth-service that read a row, wait, and write it without a
  condition; three ways for one row to get a domain; a mirror to the chain that
  is sent once, unordered, without an answer.
- A delegation that is a chain of signed transactions and requests, each of which
  may be given up and land all the same, on a page that may be reloaded.
- Sessions, caches and pools that are swept, filled and read between two awaits
  of the requests that use them.
- Sites that ask a backend about every visit, and must neither give content away
  nor lock readers out when it is slow, down or paused.

The 40 hazards in `PROJECT.json` name the lines; most are covered by a property
below, four by none; their notes say why, and also what a property leaves out.

### What makes each part correct

- *relayer*: the pool is split only for what was deposited, once; success is
  told only of settled money; the lock is always given back; every caller is
  answered.
- *gateway*: nothing unlocks that nobody paid for; a bound proof unlocks nothing
  new; a refusal is right, and what is replayed was said of the same request.
- *contracts*: `0 <= fee < price` always, the pool is the sum of the open
  deposits, earnings move to another address only with its signature, nobody is
  debited by a call it did not sign.
- *auth-service*: a verified row names a domain with proved control and has a
  token; the contract holds only what a verified row said or its wallet registered
  itself.
- *hydration*: nothing is decided on a configuration older than its TTL; who has
  paid is served as long as the facilitator remembers that the payment succeeded.
- *agent wallet*: a row is linked only to what was delegated; delegating again
  repairs whatever was left behind, and does not pile up rules.
- *exact scheme*: a success is one payment; no call gives up before the time bound
  of its transaction.
- *agent payments*: a withdrawal of access takes effect within the cache's TTL;
  everyone pays from a wallet of their own; the sweep interrupts only payments that
  take longer than its TTL.
- *sites*: content on any surface is earned; identities are recent; payers and
  humans are served.
- *accounts*: an address can always be verified; decisions about access last;
  clients are connected by users who may; prices know the outcomes before them.
- *playground*: wallets are funded and never inherited; histories stay whole;
  the page agrees with its session; turns end.

## 2. The modules

```
Settlement  <--implements--  Relayer  <--proves about--  RelayerProofs
                                |  (one instance, the ledger, timers)
                                |  Redis in place of memory  <--  RelayerProofs
                             RedisRelayer
Gateway      uses the relayer as its clients see it  <--  GatewayProofs
Hydration    uses the gateway as it promises settles, and the rows of Tenants
             <--  GatewayProofs
Publisher    uses hydration as its SDK clients see it
  WordPress  EXTENDS Publisher: the plugin and the embed script on the same backend
             <--  PublisherProofs
Paywall      uses the relayer as its keeper (DistributionBacked)  <--  PaywallProofs
Tenants      writes the creator records that Paywall holds  <--  TenantsProofs
Accounts     the other tables of the auth-service  <--  TenantsProofs
AgentPay     the payments of the mcp-server's sessions  <--  AgentPayProofs
Delegation   links the wallets that AgentPay spends from  <--  AgentPayProofs
ExactScheme  settles what AgentPay's clients sign  <--  ExactSchemeProofs
Playground   the playground's sessions, which are clients of AgentPay  <--  PlaygroundProofs
MC*          instances for TLC
```

A proof module may be about two components of one service, whose specifications
then have names of their own (`RedisSpec`, `HydrationSpec`, `SiteSpec`, `AccountsSpec`,
`DelegationSpec`).

The modules are joined where one relies on another by a property instead of by
a product of their states: Paywall takes each deposit to be distributed at most
once, which is `DistributionBacked` of Relayer; Gateway takes the relayer to
coalesce and remember settles and, after `Forget`, not to, which is what
`Settle`, `Expire` and `Restart` of Relayer do. Hydration and Publisher let a
settle go on after its caller gave up, and accept a settled proof again for as long as
the facilitator remembers a success (`honoured`): a deposit whose submission was
abandoned, or whose distribute failed, has landed and is refused from then on
(`payment-relayer/src/index.ts:680-694`), and a success is forgotten after 24 h or by a
restart (`Lapse`). AgentPay takes an authorized
transfer to be one whose key is the one bound in Delegation. WordPress and
Publisher are one specification and one run, with one backend for both kinds of site.

### Relayer and Settlement

`Settlement` is the promise without the machinery: `phase[p]` of a payment moves
unpaid -> deposited -> settled (pooled) or unpaid -> settled, each move once, and
`told` grows by settled payments only.

`Relayer` is one process. A *run* is one execution of the callback given to
`settleOnce`, or one `/register-creator`.

| In the module | In the code (`payment-relayer/src`) |
|---|---|
| `job`, `fn`, `completed` | `idempotency.ts` `InMemoryIdempotency`: the keys, promises and cached results |
| `lockQueue`, `body`, `Start`, `Release` | `mutex.ts`: the promise chain and the closure it runs |
| `call[i][s]`: account, simulate, send, poll, ok, err | `index.ts:404-545`: one value per await of a submission |
| `tx`, `accountSeq`, `landed`, `pool` | the ledger: transactions, the facilitator's sequence number, spent authorizations, the contract's balance |
| `TimeoutInClosure` | `withTimeout` around submit and distribute, under the lock (`index.ts:679-694`) |
| `TimeoutOfCaller` | `withTimeout` around an adapter or register closure that is still queued or running |
| `Apply`, `Revert`, `Drop` | what the network does with a transaction, including after everyone gave up on it |
| `Expire`, `Restart` | the 24 h cache, and the loss of the process's memory |

Time is not counted: a timer may fire whenever what it guards is unresolved.

### RedisRelayer

`RedisIdempotency` and `RedisLock`, one action per round trip, for several
instances. Ticks of 30 s count what is left of each TTL: 3 for a marker and for
the lock (90 s), 4 for the wait for the lock (120 s), 2 for a pooled settle
(two `withTimeout`s of 30 s). Adapter settles and registrations have no timer
under the lock, so they appear as `Other`, a holder that nothing bounds.

### Gateway

Each request walks through the calls its handler makes: `idem` (cached answer),
`verify`, `session`, `consumed`, `settle`, `open`, `bind`, `cache`. Every Redis
call may fail, with what the handler does then (ignored, or 503); `Crash` ends
all open requests; `Forget` makes the relayer lose its cache. `by[r]` is how the
site was named, by its siteId, by its domain when the auth-service did not
answer, or not at all, because the keys in Redis are built from that name. Whether the
relayer says 400 depends on the proof and on what is asked (`Fits`,
`validateSorobanTransfer`): a transfer that is refused for one resource may settle for
another. Requests that settle one transaction at one time share its run, and the 400 of
whichever started it (`Misfit`).
`VerifyPayer` and `SettlePayer` are the accounts that `/verify` and `/settle` of
the relayer name for one proof; they differ for fee-sponsored payments.

### Paywall

Both contracts on one token. A contract call is one step, which happens whole or
not at all; `signer` is the one account that signed it. `Deposit` is the token
transfer that the relayer submits, `Distribute` the keeper's call for it, at any
later time and so with whatever record the domain has by then.

### Tenants

The rows of creators and every handler that writes a domain, its verification,
the token, the wallet, the price or the fee. A handler in progress is
`call[c]`: the step it is at and what it has read.

| In the module | In the code (`auth-service/index.ts`) |
|---|---|
| `row`, `UpdateRow` | `User` rows and the unique index on `domain` |
| `SettingsRead`, `SettingsWrite` | `PATCH /settings`: the read at 879, the update at 898 |
| `AuthorizeRead`, `Confirm`, `Claim`, `IssueCode` | `POST /connect/authorize`: its awaits in order |
| `ExchangeRead`, `Exchange`, `Discard` | `POST /connect/token` |
| `ProvisionRead`, `ResolveTxt`, `ProvisionWrite` | `POST /sdk/provision/verify` |
| `syncs`, `Mirror`, `SyncLands`, `SyncFails` | `void syncCreatorOnChain(user)`: sent, not awaited, and what the keeper and the contract do with it |
| `RegisterByWallet` | `register` of the contract, which anyone may call for any key (`paywall_core/src/lib.rs:128-156`); `Offers` are the records it is called with |
| `proved`, `typed`, `held`, `own` | history: domains whose control was proved, creators that typed a domain, all that a verified row ever said, all that a wallet registered itself |

Nonces and codes are unguessable, so a call carries the right one or ends
without effect (`Abort` is that end, and every other error's).

### Hydration

`row` is the auth-service's row, `siteWp` the token that the site's own endpoint
accepts, `cache` the map of configurations, by domain and by tenant token. A
lookup is two steps, the read of the row and the return of the answer
(`LookupReturns`), so an answer may be stored after an invalidation or after a
newer one. A handler goes through `FirstLookup`, the decision (`hydrate`,
`main.go:480-640`), the settle, and the fetch of the body. A body refused for
its token drops the cached configuration and answers 502, so that the client's next
request reads the new token; only a cached configuration without any token is looked
up once more in the same request (`wpTokenFor`, 283-303). `req[c].age` is how
old the configuration was that the last decision used. `spent` are the proofs on the
ledger, `honoured` those of them that the facilitator remembers as a success.

### Delegation

| In the module | In the code |
|---|---|
| `page`, `Step`, `Fresh`, `Reload` | `web/src/app/mcp/wallet/page.tsx`: its views, what it waits for, `load` |
| `EnsureSessionAccountExists` ... `AddPolicy`, `ConfirmBinding` | `delegate` in `web/src/lib/smartAccount.ts`, one action per transaction or read, then `POST /binding` |
| `pending`, `Land`, `Lapse` | transactions signed on the owner's current sequence number: one of them lands, the others are void |
| `srv`, `SessionSignerReads`, `UpsertBinding`, `BindingReads`, `BindWallet`, `DeleteBinding` | `mcp-server/src/wallet/endpoints.ts`: a request is the read of the row, then its write |
| `row` | `McpWallet`, `registry.ts` |
| `TopUp`, `HandleWithdraw`, `HandleAddTrustline`, `cash` | the transfers that the page offers beside a delegation, and the trustline it asks for before the first withdrawal |

### ExactScheme

Clients build payloads (`CreatePaymentPayload` of the custodial client,
`CreateSessionPayload` of a session key, or `Foreign`, one of another client that
may deviate in every field), a facilitator call goes through verification
(`ValidateAuthEntries` and the simulation), `SendTransaction` on the signer's
sequence number, and the poll. Ledgers close every `LedgerSeconds`; a node may
lag. What bounds a payment is the last ledger of the signature and the time
bound of the transaction, both computed as in the code. The time bound is compared with
the close time of a ledger, which becomes known up to `CloseSeconds` later. Client and
facilitator estimate the time of a ledger each by itself (`Estimates`) and the payload
is for one of `Networks`, since the client declares a fixed fee on testnet. There is one
clock: facilitator and network are taken to agree about the time.

### AgentPay

A request is a record with the step it waits at: `reading`, `read` (the access gate,
`index.ts:26-58`), `passed` (let through, waiting for the limiter, 131), `opening` (the
binding read, 170-184). Between any two of them, everything else may happen, and for
any time. `cache` is what the gate remembers, `sessions` the transports with the payment
service chosen when they were opened, `pays` the calls of `pay_for_resource`: `probe`
(only without a wallet), `fetch`, `fee`. `owner` of a session is what `ownerId` returns
(107-112): all visitors of the playground call with one key and are one owner, and `by`
says which of them opened it; that they keep to their own sessions is the playground's
doing. `bound` and `keys` say which session key the ledger lets spend.

### Publisher and WordPress

A visit is classified (`Classify`: headers, signatures, address). Its signatures are
tried label by label against the one time that was read before the first
(`TryLabel`, `webbotauth.ts:68, 80-84`), each with its own key and maybe its own fetch of
a directory, which may take any time; the backend is asked, and the gate of a
package answers or runs the handler. `site.gate` says which package, as a record
of what the four do differently: skip unmatched routes, read the body, put the
receipt on before or after the handler. An answer of the backend that is neither 200
nor 402, as its 400 for a path without a segment (`slug`), counts as a failure, with
what the fail mode makes of it. `rangeLag`, `keyLag` and `signLag` of a visit are how
long ago what it was believed for had ended, and `took` is how long its fetch took.

WordPress adds the plugin's gate (a `template_redirect`), the filters that replace the
body on the surfaces they are hooked on (`PublicSurface`, with the two they are not),
the REST route of the body, and the tab with the embed script: its token, its bot
score, its proof of work, its overlay, and the body for the first segment of its path
(`BodyFor`), which is that of the post only with flat permalinks. `CoreWrap` is modelled
with a verifier of crawlers injected, which the core leaves to its caller.

### Accounts

One step per await of a handler, for four groups of tables: users with their
e-mail tokens, early access (waiting list, grants, the user's flag), the login,
consent and logout challenges of Hydra, and humanity challenges with the
reputation of a cohort. A scene says which requests a run has.

### Playground

`pool`, `job` and `faucet` are `walletPool.ts` and `faucet.ts`: single-flight
refill, provisioning on demand, and transactions of one account on one sequence
number. `Without` is `retireWallet`'s search by index, which takes out the first
match and refills, and leaves a pool alone that does not hold the wallet. `sessions`, `busy`, `turn` and `history` are the process
(`index.ts`, `agentLoop.ts`), `page` is the browser's side of the stream. A payment is
asked for (`CallPay`), made by the MCP server at any later time (`CallMcp`), after the
session was closed or the turn went on, too, and answered or given up (`Pay`).

## 3. What the runs check

| Run | Question | It shows that |
|---|---|---|
| `relayer_settle` | two runs out of five jobs (two pooled payments, an adapter one, a pre-signed one, a registration) and a restart, every RPC failing, late or abandoned | `DistributionBacked`, `SuccessMeansSettled`; `PromiseKept` (Relayer implements Settlement); `RunsEnd`: every closure gives the lock back and every handler answers |
| `redis_shared` | two instances, four requests, a crash, foreign holders of the lock | `BoundedHoldsExclude`, `RequestsEnd` |
| `gateway_replay` | three requests on both routes, a good and a sponsored proof and a transfer that fits one resource and not the other, an Idempotency-Key, Redis errors, a crash, a relayer that forgets | `AnswersAreTrue` (nothing unlocks for free, replays are true of what was asked), `NoLateUnlock`, `RefusedMeansSettledElsewhere` |
| `paywall_split` | two accounts, two deposits, all prices and fees up to 3 | `PriceCoversFee`, `PoolIsDeposits`, `RecipientConsents`, `DebitsAreSigned` |
| `tenants_verified` | two creators, two sites, settings, handshake, provisioning, deletion, restarts, a wallet that registers itself, two handlers at a time | `VerifiedIsProved`, `MirrorsAreVerifiedRows` |
| `hydration_served` | a payer and another client, a switch or a new token, a failed call, a facilitator that forgets, the clock past the TTL | `ConfigIsRecent`, `PaidIsServed` |
| `delegation_rerun` | an owner, two failures or transfers in between, a revocation, a second delegation | `LinkedMeansDelegated`, `RulesDoNotStack`, `RerunRepairs` |
| `exact_settled` | two calls over a payload of any of three clients on either network, lagging nodes, two estimates, a lost answer | `SettledIsPaid`, `NotGivenUpEarly`, `CustodialAccepted` |
| `agent_sessions` | a user, a visitor, an internal caller; requests of the user overlap at the gate, the limiter and the lookup; access and wallet change; a failure; the sweep | `WithdrawalTakesEffect`, `PayerIsCaller`, `CutOnlyWhenLong` |
| `publisher_gates` | two visitors of every kind before two SDK gates with two fail modes, or a WordPress site with its embed script; a switch, a key or a range changes; a failure; a facilitator that forgets | `ContentIsEarned`, `IdentityIsRecent`, `BodyIsEarned`, `PaidIsServed`, `HumanReads` |
| `accounts` | four scenes of three overlapping requests | `CanVerify`, `AccessIsDecided`, `ConnectedIsEntitled`, `TierIsInformed` |
| `playground` | two visitors, two messages, one wallet in the pool, a faucet with two payments, a fault, a midnight | `NobodyInherits`, `WalletsAreFunded`, `HistoryIsWhole`, `IdlePagesAreCurrent`, `TurnsEnd` |

The type invariants have no run of their own: those of Relayer, RedisRelayer,
Gateway, Tenants and Paywall are theorems, those of the other modules are the
first conjuncts of the invariants proved there.

### Where the code differs from what is said of it

Each of these came out of a property that the quoted line suggests and that TLC
refuted on the model. None of the properties above claims the contrary; where
one makes an exception for it, its comment says so.

- `payment-relayer/src/index.ts:672-676`, `460`: the lock is to keep the sequence
  numbers of the facilitator apart. An abandoned submission (`withTimeout`,
  135-142) goes on without the lock and moves the sequence under the next holder,
  whose transaction is then stale. It costs a failure, never a wrong split.
- `payment-relayer/src/idempotency.ts:25`, `107-109`: the callback is to run once.
  The cached result is read, then the marker is claimed, and the marker (90 s)
  outlives neither the wait for the lock (120 s) nor the settle: it can run again.
- `x402-gateway/main.go:1098`, `1296`: a proof is bound to one resource. The
  binding is read before the settle and written after it, so two concurrent
  requests unlock two resources with one payment.
- `x402-gateway/main.go:765-767`: an account sees only its own session. Verify
  names the sponsor of a fee-sponsored payment, so that sessions of different
  accounts can coincide.
- `auth-service/index.ts:890-891`: a change of domain resets the verification.
  Settings decide on a row read before; a provisioning in between leaves the row
  verified for a typed domain, and the token exchange (1218-1221) verifies
  whatever domain the row has by then.
- `auth-service/index.ts:798-799`: a creator without a domain is mirrored under its
  siteId. `syncCreatorOnChain` returns before it gets there.
- `web/src/app/docs/sdk/page.tsx:216`: old tokens are invalidated at once. A
  configuration cached under an old token answers for up to five minutes
  (`hydration-service/main.go:393-431`, `283-287`).
- `web/src/lib/smartAccount.ts:769`: the abort is to avoid a rule without a
  spending limit. The rule is installed in the transaction before; it stays until
  the owner delegates again, which repairs it (`RerunRepairs`).
- `mcp-server/src/chains/payments.ts:227-229`, `routing.ts:12`: nobody's Stellar
  resource is paid from the server's wallet. The resource is asked twice, and the
  second demand is paid.
- `web/src/app/dashboard/page.tsx:271`: while the paywall is off, all traffic passes
  to the content. For an SDK site hydration answers without `authorized`
  (`main.go:578-583`), which `client.ts:138` takes for unpaid: a 402.
- `playground-agent/src/walletPool.ts:47-48`, `55-56`: the faucet account never collides
  on its sequence number, as payments come from one loop. A session that finds the pool
  empty provisions beside the loop (86); the retry makes up for it (`WalletsAreFunded`).
- `playground-agent/src/faucet.ts:8`: a cap per day. It is checked before the payment and
  counted after it, so concurrent payments, and those whose answer is lost, exceed it.
- `wordpress-plugin/.../class-content-gate.php:7`, `196`: a gated article is a teaser on
  public surfaces. With scope "all" the REST API of a type that is not listed is not
  filtered (253-256), and neither are lists outside the main loop (169).
- `embed-script/src/index.ts:34` names the first segment of the path where the plugin
  registers `post_name` (`class-gate.php:28`): under nested permalinks a reader with a
  cookie reads through the plugin, one without does not, and a first segment that is
  another post's name brings that post.

What follows contradicts no text, but a reader of the properties should know it:

- A deposit whose submission was abandoned or whose distribute failed is no success
  (`payment-relayer/src/index.ts:680-694`): every retry fails on the used authorization,
  and its payer is not served. `PaidIsServed` is about payments that are remembered.
- The poll of the exact scheme has one attempt for every second of the timeout
  (`scheme.ts:480-484`, `529-551`), the last of them before the time bound. A transaction
  that a ledger takes in the last second is paid and answered as a failure:
  `NotGivenUpEarly` claims no more than that no call gives up earlier.
- The fee that the custodial client declares on testnet is below the facilitator's
  minimum, and estimates of 5 and 6 s make 60 s twelve and ten ledgers, which uses up the
  tolerance: `CustodialAccepted` names both exceptions.

### Bounds, and why they are enough

- *Relayer*: two runs are enough for a retry beside or after an abandoned run and
  for one holder of the lock to meet another's late transaction; amounts 1 and 3
  keep one deposit from standing in for another. `MaxRestarts = 1` lets a restart
  fall between any two steps. The proofs remove these bounds for everything but
  liveness.
- *RedisRelayer*: the TTLs are the defaults in ticks of 30 s; two instances and
  one key are the shortest race for a marker, four requests allow each of them a
  retry after an expiry; one crash is enough to leave a marker and a lock behind.
- *Gateway*: two requests race, the third comes after one of them is over, which
  `NoLateUnlock` needs. Two resources with two prices, and proofs that fit or not and
  whose payer verify and settle name differently, give each comparison both outcomes.
- *Paywall*: amounts 0 to 3 contain a zero fee, a fee equal to the price, one
  above it and a deposit that differs from the price; two deposits share the
  pool.
- *Tenants*: two handlers at a time, four in all, are enough for a handshake
  (authorize and exchange) with a settings request and a provisioning in
  between; one wallet registers itself. The proofs remove the bound.
- *Hydration*: a TTL of one tick and a lookup of one tick are the shortest in which
  a stale answer outlives a newer one; one change and one fault meet any step.
- *Delegation*: two mishaps are a step that fails and its repair that fails; one
  re-run and one revocation; names of keys and rules are never reused, so one
  budget suffices to tell grants apart by account.
- *ExactScheme*: with a time bound of 3 s and ledgers of 2 s a transaction may
  miss one ledger and be taken by the next; nodes lag one ledger; two calls on one
  signer collide on its sequence number. Estimates of 1 and 3 s differ by more than
  the tolerance, both networks are asked for, and a ledger is known up to one second
  after its close. Time ends after the poll has.
- *AgentPay*: two requests, a TTL of two ticks and as much time, two changes: a stale
  answer of one request meets the cache of the other. One session, one payment, and an
  idle TTL of one tick that the payment may exceed. The run's `CONSTRAINT` lets requests
  overlap only if they are of users, since those of static keys pass no gate. The proofs
  remove these bounds.
- *Publisher*, *WordPress*: the two gates differ in all that tells gates apart (routes,
  body, teaser, receipt), and the fail modes are "teaser" and "open"; "closed" answers a
  503 and no more. The first visitor pays or signs, the second is any other; a list keeps its range and a key for one tick, and a fetch takes up to all the
  time there is; a visit of three labels has an expired, a wrong and a right one.
- *Accounts*: three requests overlap in each scene, and a scene holds the requests that share the
  rows it is about, and users, access and sessions start in it as the requests of
  the others leave them.
- *Playground*: a pool of one and a limit of one session make the second visitor
  race refill and sweep; two payments of the faucet collide; one wallet more than
  visitors lets a retired one be replaced. `MaxIters` is 1, so that TLC sees no second
  question to the model in one turn; the theorem `HistoriesWhole` covers any number.

`CHECK_DEADLOCK FALSE` stands where the bounds, and nothing else, end a
behaviour: all requests are over, all runs used.

### Fairness

`FairSpec` of Relayer: weak fairness of a closure that is ready, of a timer that
guards something unresolved, and of each RPC, which answers or throws; the
Node event loop runs what is ready and the SDK's HTTP calls end. The network
owes nothing: no fairness for `Apply`, `Revert` or `Drop`, nor for requests,
expiry or restarts. `Spec` of RedisRelayer: weak fairness of each instance's
next round trip and of `Tick`; none for `Other`, which may keep the lock for as
long as its TTL lets it, and none for crashes.

Hydration: a handler goes on (its HTTP calls end, they have timeouts), a client
repeats a request that failed, and the site gets the token that was issued for
it (`SiteAdopts`), which the dashboard asks its owner to do. Delegation: requests
are answered and one of the pending transactions lands, access is given back,
and the owner presses deploy and delegate again as long as the wallet does not
work; mishaps are bounded. Publisher and WordPress: gates, plugin and tab go on,
what was sent lands, payers and readers come again. Accounts: handlers go on, and
a user asks for a link and tries those that arrive; lost mails are bounded
faults. Playground: the interval ticks, awaits return or fail, the MCP server does what
it was asked to or cannot, streams that are not lost end. No module assumes strong fairness, or fairness of a failure, of the
clock (but in RedisRelayer). Gateway, Paywall, Tenants,
ExactScheme and AgentPay state safety only.

## 4. What is proved

TLAPS checks every theorem below for any sets and numbers that satisfy the
modules' named assumptions. They say that the markers (`None`, `Null`,
`Nothing`, `Register`, `Other`, `Placeholder`) are none of the data they stand beside,
that amounts, times and bounds are naturals and that data have their shape (the
requests, sites and scenes that a run starts from, too); TLC evaluates each
on a run. One relates two numbers, which the code
does by its defaults: `HoldLimit < LockTtl` (two timers of 30 s under a lock of 90 s).
No read, fetch, lookup or payment is assumed to end within a time, but for the lookups
of the hydration service, whose HTTP client has a timeout (`LookupTime`).

In each proof module one lemma says that the initial state satisfies the
invariant, one or a few lemmas per action that the action keeps it, and the
theorem joins them with `PTL`. Every inductive invariant was an invariant of a run
of TLC before it was proved.

**RelayerProofs.** `TypeCorrect`, `Invariance`, `DistributionIsBacked`,
`SuccessIsSettled`, `RelayerImplementsSettlement`. None of the properties is
inductive alone. The invariant is

- `NothingCalledYet`: a run that has not started has called nothing, and its
  distribute is called from the submit step only;
- `CallsAndTxs`: a call that has not sent has no transaction, and a call that
  resolved has an applied one, whatever was abandoned in between;
- `DepositsOnce`: an applied submit consumed its payment's authorization, and
  no two runs have one for the same payment;
- `DistributeAfterDeposit`: a distribute, its call or its transaction, exists
  only in a pooled run whose own submit is applied;
- `SuccessMeansSettled` itself.

`DistributionBacked` follows from the third and the fourth. For the refinement,
each step is shown to be a move of `Settlement` or to leave `Phase` and
`answered` alone; the steps that move are `Apply` and the ones that answer.

Of RedisRelayer: `RedisInvariance`, `RedisTypeCorrect`, `HoldsExclude`
(`BoundedHoldsExclude`). `HoldersHold` says that whoever is under the lock holds
it, that what is left of the lock and what has passed of the hold add up to the
TTL, and that the hold is within its limit. The sum is the point: a tick takes
from one what it gives the other, and `HoldLimit < LockTtl` leaves something of
the lock when the timers fire. It is said of the lock only: a marker may expire under
its owner (section 3). Clients without a timer (`Other`) may take the lock
at any time it is free and are proved about, too.

**TenantsProofs.** `TenantsTypeCorrect`, `TenantsInvariance`,
`VerifiedComplete`, `VerifiedProved`, `MirrorsVerified`. A verified row is made
of what several handlers wrote at different times, and the token exchange does
not look at the domain. The invariant adds to `TypeOK`

- `CallsCarry`: what a handler holds at each step is of the right kind;
- `CodesAreNamed`: once a handshake has a code, or a handler is about to issue
  or to exchange it, its creator's row names a domain, or is deleted and will
  not come back (no handler takes a domain away);
- `ClaimsAreProved`: a handler that is about to write a domain writes a proved
  one;
- `DomainsProved`: a row whose creator typed no domain names a proved one,
  verified or not. This is stronger than `VerifiedIsProved` and needed, because
  a claim changes the domain of a row that may be verified already;
- `MirrorsHeld`: mirrors under way, too, carry what a verified row said, and the
  contract holds that or what a wallet registered itself.

The lemma `Writes` says what the five handlers that write a row have in common
(`GoodWrite`); the rest of the proof uses only that.

Of Accounts: `AccountsInvariance`, `AccessDecided` (`AccessIsDecided`),
`ConnectedEntitled` (`ConnectedIsEntitled`), `TiersInformed` (`TierIsInformed`). An
administrator's decision is two or three writes, which others may come between,
and a registration makes an account before it looks for a grant. So

- `AloneIsAlone`, `AloneDecides`: of two requests that decide about one address
  neither counts as alone, and what one that is alone has written stands;
- `DecidedHolds`: once nothing is being decided, the grant and the account are as
  decided, but for an account that a registration under way is about to give the
  access that was granted (it has read the grant, or will); and no registration that
  has read something else is under way;
- `LateHasNoAccess`, `SubjectsKnown`, `FlowsOK`: where a flow of OAuth is once each of
  its requests has passed; a request is late for an address that had no access at
  any time since it came;
- `TiersOK`: what a request for a challenge knew when it came is still below the
  counts, which only grow.

**PaywallProofs.** `PaywallTypeCorrect`, `FeesAreCovered`, `RecipientsConsent`,
`DebitsSigned`, `PoolBacked` (`PoolIsDeposits`). `TypeOK` says that balances stay natural, which is not so by
itself: the adapter subtracts `platform_fee` from `price` without a check, and a
fee above the price would take from the creator. So `TypeOK /\ PriceCoversFee`
is the invariant. The lemmas `PayDebits`, `DistributeDebits`, `AdapterDebits`
and `DepositDebits` say whom each call debits; the two action properties follow
from them and from what the registrations write.

The pool is a sum over the deposits that wait, of which there may be any number.
That a sum (`SumFunction` of the community modules, a recursive function that chooses
a member at each step) satisfies its recursion, and takes its members in any order,
needs an induction over finite sets. The library's theorems of induction take an
operator as a parameter, which the provers at hand cannot instantiate; but the one
about the least element of a well-founded relation does not, and from it
`SetOfAllNaturals` and `SetsByMembers` derive induction for sets of numbers and for
sets of sets. `SumsExist` builds the function level by level, `AnyOrder` and
`SumWithout` say what one member makes of a sum; the rest is that `Deposit` and
`Distribute` move one deposit, and that everybody else passes by the contract.

**GatewayProofs.** `GatewayInvariance`, `GatewayTypeCorrect`, `BindingCloses`
(`NoLateUnlock`), `RefusalsAreRight`, `AnswersTold`. What is in Redis outlives the
request that wrote it, a crash, and what the relayer remembers. The invariant is

- `Carried`, `OutIsTrue`: what a handler knows at each of its calls, and that the
  answer of the relayer which it holds is so (a success spent the proof, a failure
  was of a transfer that did not fit what this request, or one that came with it, asked);
- `StoresAreTrue`: behind every session, binding and cached answer there is a
  request whose settle succeeded (a *settler*, and it stays one);
- `BindersSettled`, `BindingsHold`, `LateOnesFollow`: from the time r binds its
  proof, either the relayer has forgotten the proof and can never settle it again,
  or the binding names r's resource, or that of a settler which had arrived before
  r was over. Two bindings of one proof may race, so that the last one need not be
  r's: the third case is what makes the second inductive, and it is what
  `NoLateUnlock` leaves open on purpose;
- `AnswersGrounded`: the ground of each answer, in the terms of the stores.

Of Hydration, in the same module: `HydrationInvariance`, `DecisionsAreRecent`
(`ConfigIsRecent`). Invalidation does not reach a lookup under way, so what is stored
may be older than the last invalidation; it is never older than its own lookup. The
invariant says of each entry that it expires within `TTL + LookupTime` of the read of
the row (`StoredIsRecent`), of each answer under way that it is no older than
`LookupTime` (`AnswersAreRecent`), and of each handler what it asks with at each step
(`AskedFirst`).

**PublisherProofs.** `SiteInvariance`, `ContentEarned` (`ContentIsEarned`),
`IdentityRecent` (`IdentityIsRecent`), `BodyEarned` (`BodyIsEarned`), about the gates of
the SDK and the WordPress site together. A visit is judged by itself (`SdkOk`,
`PluginOk`): the reason it carries is one of those that the set-up of the site gives for
the content, from the moment it may still end there; a tab has a token only of a human.
What joins visits is the caches (`World`): a list that names a range was asked for no
later than the range left it, and is as old as its fetch took; an entry of a key expires
within `KeyTTL` of the time the key left, because it counts from before the fetch. From
this follows how old an identity can be, with no bound on a fetch: the time a crawler's
list took is part of what is allowed, and a key is judged by when it was looked up.
Settings of the site, payments and the clock change under the visits, which is why the
reasons are stated of the site and the time, and why a visit remembers whether its
session was good when it came (`good`).

**PlaygroundProofs.** `HistoriesWhole`, `PagesCurrent`, `ServedHavePaid`
(`NobodyInherits`), `HandedOutAreFunded` (`WalletsAreFunded`). Two invariants
that do not meet. `TurnInv`: a session has one turn, and is busy for as long
(`OneTurnEach`); a history owes exactly the calls its turn has left (`CallsOwed`);
the page of a busy session waits, or has lost a stream, and shows a payment as
under way only while the turn pays (`PagesWait`). `WalletInv`: a wallet that is
anywhere was made (`Known`) and is at one place, the pool, a job or a request
(`Apart`); a request keeps the wallet it was handed (`Handed`); who holds a wallet
that unlocked the resource has paid, and who asked for a payment holds a wallet, so that
it may land whenever it does (`UnlockersPaid`); and a wallet is paid by the
faucet before it leaves its job (`Funded`), though transactions of the faucet
collide on its sequence number. Lemmas about sequences without repetition (`Tails`
and those after it) say what the pool is after `takeWallet`, a refill and
`retireWallet`.

**ExactSchemeProofs.** `ExactInvariance`, `SettledPays` (`SettledIsPaid`),
`AnsweredAtTheBound` (`NotGivenUpEarly`), `CustodialPayloadsPass`
(`CustodialAccepted`). The invariant is

- `CallsOk`: what was verified of a call at each step; its transaction is in the
  pool, in a ledger, or past its time bound; and while it is polled, the time and
  the attempts used add up so that the wait after the last attempt ends at that bound
  or later. From this it follows that no call gives up before it;
- `Unique`: no two calls have submitted one transaction. Signers are used in turn
  and sequence numbers are read and not reserved, so that two calls may build on the
  same number: only one of them is taken;
- `PoolOk`, `LandedOk`: what the network holds can still be taken and is in no ledger,
  and a payload's nonce is used once.

`CustodialAccepted` is proved for all constants: the cases in which the client's own
payload is refused are part of the property (the fee of testnet, a fee above the
facilitator's maximum, offsets of the two estimates that lie further apart than the
tolerance less the lag of a node), and the proof is that there is no other.

**AgentPayProofs.** `GateInvariance`, `PaymentInvariance`, `WithdrawnInTime`
(`WithdrawalTakesEffect`), `CallersPay` (`PayerIsCaller`), `SweepCutsLongPays`
(`CutOnlyWhenLong`). `AccessInv`: the gate takes the time before it reads, so that a
grant read is no older than the arrival of its request (`GateOk`), and what is cached as
granted is gone within the TTL of its withdrawal (`CacheOk`), because the TTL counts
from that arrival and not from the answer. What a request was let through with it keeps
through every wait that follows, which is why the property speaks of when the request
came and the proof needs no bound on reads. `PayInv`: a session's mode suits its
owner and does not change (`SessionsOk`), a payment under way belongs to its
session's owner and has seen the session since it began (`PaysOk`, `Timely`), which
is why the sweep evicts it only when it has taken longer than the TTL, and what was
spent came from the wallet of the caller or, in the one case that section 3 names, from
the server's (`SpentOk`).

Of Delegation, in the same module: `DelegationInvariance`, `RulesPaidFor`
(`RulesDoNotStack`), `LinkedDelegated` (`LinkedMeansDelegated`). The bound on the rules
relates a count to the number of mishaps, and one mishap may leave several
transactions on the way. The invariant is

- `PageWaits`: the page waits for one transaction or one request, which is what its
  step sends;
- `BindsDelegated`: what the page is about to bind, and every request to bind, was
  delegated;
- `Paid(n)`: what n mishaps can have led to. An account has at most `n + 1` rules, and at
  most n when the page is about to add one; while old rules are removed, at most n are
  not on the list of those to remove, and at most n are there at all if the removal is
  in vain, because the page then goes on to add without a mishap; and a transaction
  that nobody waits for may still land, so that what it would leave is counted now;
- `Spare >= 0 /\ Paid(Spare)`: the mishaps so far pay for all that. While the owner has
  no access, or the page says so, one of them is in reserve: the page, opened again
  once access is back, abandons what it waits for and no mishap counts it.

The lemma `PaidIsEnough` lets each step use the least number it needs; `LandPaid` is the
case that matters, a transaction that lands.

**Only model-checked.** `RunsEnd`, `RequestsEnd`, `TurnsEnd`, `PaidIsServed` (of Hydration
and of Publisher), `HumanReads`, `RerunRepairs`, `CanVerify`: liveness under fairness, whose
proofs need `ENABLED` of the fair actions, which the provers at hand do not handle. All
safety properties that a run checks, and the refinement of Settlement, are theorems.

The theorems of invariance and of type correctness, and `VerifiedComplete`, have no
run of their own.

## 5. What is left out, and why

- *Relayer*: the validation of the XDR (operations, amounts, allowlists)
  restricts what may arrive and is not modelled; a payment is an opaque value.
- *Gateway*: `/requirements`, `/verify`, `/supported` and the event log, which
  change no state that a settle reads.
- *Paywall*: `upgrade`, archival of ledger entries, other tokens, which both
  contracts refuse; an allowance that expires is an `Approve` of 0. Amounts stay
  far below the width of `i128`.
- *Tenants*, *Accounts*: contents and their counters, statistics, the limiter (one
  key for login and registration), captcha and passwords, which only refuse a
  request; the TTL of a reputation.
- *Hydration*: the events logged beside a decision, the classification of agents,
  the text of 402 answers.
- *Delegation*: balances; a transfer counts among the mishaps, because one that
  shares its sequence number with the removal of an old rule voids it.
- *mcp-server*: the counters of the rate limiter, which refuses requests (that it makes
  them wait is modelled); the EVM and Solana
  rails; conversion of amounts; SSRF checks.
- *Publisher*, *WordPress*: previews and pages as text, discovery headers, the
  arithmetic of address ranges and URLs, the plugin's settings page and its
  updater, the sanitizer and the fingerprint. The plugin's connection wizard is
  the handshake of Tenants.
- *Playground*: the captcha, friendbot with its trustline, and the reads of
  balance and sequence number are folded into the steps that use them; a tool call
  whose arguments do not parse is left out. The page shows a payment that was
  refused because the resource is unlocked already as failed: it is modelled, and
  no property calls it wrong.
- *web*: the dashboard, the administrator's pages, documentation and site render
  what the services answer.
- *service_registry, infra, scripts*: single guarded assignments that no service
  calls, and deployment.

## 6. Plan

The order is that of the money, then of what decides about it.

| Module | Content | Properties worth stating | State |
|---|---|---|---|
| Settlement, Relayer, RelayerProofs | settle and register | above | done, proved |
| RedisRelayer, RelayerProofs | the same across instances | above | done, proved |
| Gateway, GatewayProofs | both settling routes | above | done, proved |
| Paywall, PaywallProofs | the contracts | above | done, proved |
| Tenants, TenantsProofs | creator rows and mirror | above | done, proved |
| Hydration, GatewayProofs | configurations, decision, settle, body | above | done, proved |
| Delegation, AgentPayProofs | the wallet page, its endpoints and the ledger | above | done, proved |
| ExactScheme, ExactSchemeProofs | the exact scheme | above | done, proved |
| AgentPay, AgentPayProofs | payments of agents | above | done, proved |
| Publisher, WordPress, PublisherProofs | the gates of sites | above | done, proved |
| Accounts, TenantsProofs | the rest of the auth-service | above | done, proved |
| Playground, PlaygroundProofs | wallets, sessions, turns, page | above | done, proved |

"Proved" is said of safety. What is left, liveness aside:

1. the four hazards without a property: the `Idempotency-Key` of the gateway, whose
   digest leaves out the headers that name the site (`x402-gateway/main.go:986`); the
   counter of the rate limiter that a crash leaves without an expiry
   (`mcp-server/src/rateLimit.ts:87`); and two whose outcome section 3 describes, the
   settings that decide on a row read before (`auth-service/index.ts:892`) and the
   resource that is asked twice (`mcp-server/src/chains/payments.ts:231`);
2. RedisRelayer as an implementation of Settlement under the condition that no marker
   expires under its owner, which section 3 says the defaults do not give;
3. content and its counters in the auth-service, the dashboard and the administrator's
   pages.

## 7. Running

```
tlc -config MCRelayer_settle.cfg MCRelayer     # likewise for the other .cfg files
tlc -config RedisRelayer_shared.cfg RedisRelayer
tlapm GatewayProofs.tla                        # likewise for the other *Proofs modules
```

`PROJECT.json` lists the runs with the result that is expected, the lines each
definition stands for, and for every property of a passing run a *mutant*: an
operator beside the definition it would replace (its comment says "A plausible
mistake"), with which TLC finds the property violated.
