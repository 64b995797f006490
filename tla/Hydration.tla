------------------------------ MODULE Hydration ------------------------------
(***************************************************************************)
(* The hydration service: one site asked for through its tenant token or   *)
(* its domain, the five-minute cache of configurations, the decision of    *)
(* /hydrate, and the fetch of the article with the site's internal token.  *)
(*                                                                         *)
(* The auth-service is the row of a verified site, read by a lookup and    *)
(* changed beside it; its one token names the tenant and opens the site's  *)
(* content endpoint.  The gateway is what Gateway promises of a settle.  A *)
(* lookup that misses the cache is two steps, the read of the row and the  *)
(* return of its answer, and anything may happen in between.               *)
(***************************************************************************)
EXTENDS Integers

CONSTANTS
  Clients,      \* each sends one kind of request and repeats it when it fails
  Payments,     \* payment headers
  BadPayments,  \* those that the facilitator refuses
  Asks,         \* the requests that each client may make, sets of Ask records
  TTL,          \* domainCacheTTL
  LookupTime,   \* the timeout of a call to /lookup
  MaxNow,       \* bound on the clock
  MaxChanges,   \* bound on the changes of the row
  MaxFaults,    \* bound on the calls that fail
  Nothing

ASSUME HydrationConstants ==
  /\ BadPayments \subseteq Payments
  /\ {TTL, LookupTime, MaxNow, MaxChanges} \subseteq Nat \ {0}
  /\ MaxFaults \in Nat
  /\ Nothing \notin Payments \cup Nat

VARIABLES
  row,     \* the auth-service's row: paywall switch, token (0 before a first one)
  siteWp,  \* the token that the site's content endpoint accepts
  cache,   \* domainCacheMap, by domain or by tenant token
  now,
  spent,   \* the proofs that are spent on the ledger
  honoured, \* those that the facilitator remembers as settled
  req,     \* the handler of each client's request
  wait,    \* the lookup that the handler waits for
  changes,
  faults

hydrationVars == <<row, siteWp, cache, now, spent, honoured, req, wait, changes, faults>>

Versions == 0..MaxChanges + 1
Row == [on: BOOLEAN, wp: Versions]
Ask == [token: (Versions \ {0}) \cup {Nothing}, domain: BOOLEAN, proof: Payments \cup {Nothing},
        human: BOOLEAN, authorize: BOOLEAN]
ASSUME AsksAssumption == Asks \in [Clients -> SUBSET Ask]
DomainKey == <<"domain">>
TokenKey(v) == <<"token", v>>
CacheKeys == {DomainKey} \cup {TokenKey(v) : v \in Versions}
Lookups == {"byToken", "byDomain", "cached", "fresh", "content"}
Failed == {"notfound", "unavailable", "refused", "blocked"}
Served == {"passthrough", "authorized", "html"}

HydrationInit ==
  /\ row \in [on: {TRUE}, wp: {0, 1}]
  /\ siteWp = row.wp
  /\ cache = [k \in CacheKeys |-> Nothing]
  /\ now = 0
  /\ spent = {}
  /\ honoured = {}
  /\ req = [c \in Clients |-> [pc |-> "idle", ask |-> Nothing, age |-> 0, wp |-> 0]]
  /\ wait = [c \in Clients |-> Nothing]
  /\ changes = 0
  /\ faults = 0

-----------------------------------------------------------------------------
(* The auth-service and the site. *)

Fault == faults < MaxFaults /\ faults' = faults + 1
Change == changes < MaxChanges /\ changes' = changes + 1

TogglePaywall ==
  /\ Change
  /\ row' = [row EXCEPT !.on = ~@]
  /\ UNCHANGED <<siteWp, cache, now, spent, honoured, req, wait, faults>>

\* A connect handshake or a provisioning stores a new token in the row; the
\* site gets it, and accepts it instead of the old one, later.
Reissue ==
  /\ Change
  /\ row' = [row EXCEPT !.wp = @ + 1]
  /\ UNCHANGED <<siteWp, cache, now, spent, honoured, req, wait, faults>>

SiteAdopts ==
  /\ siteWp # row.wp
  /\ siteWp' = row.wp
  /\ UNCHANGED <<row, cache, now, spent, honoured, req, wait, changes, faults>>

\* No lookup outlives its timeout.
Tick ==
  /\ now < MaxNow
  /\ \A c \in Clients : wait[c] # Nothing => now - wait[c].at < LookupTime
  /\ now' = now + 1
  /\ UNCHANGED <<row, siteWp, cache, spent, honoured, req, wait, changes, faults>>

-----------------------------------------------------------------------------
(* The handler, from one call to the next. *)

GoOn(c, pc) == req' = [req EXCEPT ![c].pc = pc]

FirstLookup(ask) == IF ask.token # Nothing THEN "byToken" ELSE "byDomain"

\* A request, or its repetition; by token when it has one, else by domain.
\* Its token is the site's, or was.
Receive(c) ==
  /\ req[c].pc \in {"idle"} \cup Failed
  /\ \E ask \in IF req[c].pc = "idle" THEN Asks[c] ELSE {req[c].ask} :
       /\ ask.token \in {Nothing} \cup 1..row.wp
       /\ req' = [req EXCEPT ![c] = [@ EXCEPT !.pc = FirstLookup(ask), !.ask = ask]]
  /\ UNCHANGED <<row, siteWp, cache, now, spent, honoured, wait, changes, faults>>

\* Steps 1 to 4 of the handler, on the configuration that the site resolved to.
Decide(c, cfg) ==
  LET ask == req[c].ask
      to == CASE ~cfg.row.on -> "passthrough"
              [] cfg.row.on /\ ask.proof # Nothing -> "settle"
              [] cfg.row.on /\ ask.proof = Nothing /\ ask.human ->
                   IF ask.authorize THEN "authorized" ELSE "cached"
              [] OTHER -> "blocked"
  IN  req' = [req EXCEPT ![c].pc = to, ![c].age = now - cfg.readAt]

\* What resolveSite, wpTokenFor and fetchArticleBody do with a lookup's result;
\* `known' is the cache as that lookup leaves it.  A cached configuration
\* without internal token is dropped and asked for once more.
Resume(c, res, known) ==
  LET at == req[c].pc
      found == res.kind = "found"
      hasWp == found /\ res.row.wp # 0
  IN  /\ cache' = IF at = "cached" /\ ~hasWp THEN [known EXCEPT ![DomainKey] = Nothing] ELSE known
      /\ \/ at \in {"byToken", "byDomain"} /\ found /\ Decide(c, res)
         \/ /\ at \in {"byToken", "byDomain"} /\ ~found
            /\ GoOn(c, IF at = "byToken" /\ res.kind = "nil" /\ req[c].ask.domain
                       THEN "byDomain" ELSE "notfound")
         \/ /\ at \in {"cached", "fresh"} /\ hasWp
            /\ req' = [req EXCEPT ![c].pc = "content", ![c].wp = res.row.wp]
         \/ at = "cached" /\ ~hasWp /\ GoOn(c, "fresh")
         \/ at = "fresh" /\ ~hasWp /\ GoOn(c, "unavailable")
         \/ at = "content" /\ GoOn(c, "body")

KeyOf(c) ==
  IF req[c].pc = "byToken" THEN TokenKey(req[c].ask.token) ELSE DomainKey
Entry(c) == [kind |-> "found", row |-> wait[c].row, readAt |-> wait[c].at, until |-> now + TTL]
FreshForever(k) == cache[k] # Nothing
Fresh(k) == cache[k] # Nothing /\ now < cache[k].until

LookupHits(c) ==
  /\ req[c].pc \in Lookups /\ wait[c] = Nothing
  /\ Fresh(KeyOf(c))
  /\ Resume(c, cache[KeyOf(c)], cache)
  /\ UNCHANGED <<row, siteWp, now, spent, honoured, wait, changes, faults>>

\* The auth-service reads its row: a token that is not the row's is a 404.
LookupReads(c) ==
  /\ req[c].pc \in Lookups /\ wait[c] = Nothing
  /\ ~Fresh(KeyOf(c))
  /\ wait' = [wait EXCEPT ![c] =
       [found |-> KeyOf(c) \in {DomainKey, TokenKey(row.wp)}, row |-> row, at |-> now]]
  /\ UNCHANGED <<row, siteWp, cache, now, spent, honoured, req, changes, faults>>

\* Its answer is stored, for the TTL from now, and used.
LookupReturns(c) ==
  /\ wait[c] # Nothing
  /\ wait' = [wait EXCEPT ![c] = Nothing]
  /\ IF wait[c].found
     THEN Resume(c, Entry(c), [cache EXCEPT ![KeyOf(c)] = Entry(c)])
     ELSE Resume(c, [kind |-> "nil"], cache)
  /\ UNCHANGED <<row, siteWp, now, spent, honoured, changes, faults>>

LookupFails(c) ==
  /\ wait[c] # Nothing /\ Fault
  /\ wait' = [wait EXCEPT ![c] = Nothing]
  /\ Resume(c, [kind |-> "error"], cache)
  /\ UNCHANGED <<row, siteWp, now, spent, honoured, changes>>

\* The relayer restarts, or the 24 h of a result are over.
Lapse(p) ==
  /\ p \in honoured
  /\ honoured' = honoured \ {p}
  /\ UNCHANGED <<row, siteWp, cache, now, spent, req, wait, changes, faults>>

\* The gateway settles the proof, or answers again for one that the facilitator remembers.
SettleSucceeds(c) ==
  LET p == req[c].ask.proof IN
  /\ req[c].pc = "settle"
  /\ p \in honoured \/ p \notin BadPayments \cup spent
  /\ spent' = spent \cup {p}
  /\ honoured' = honoured \cup {p}
  /\ GoOn(c, IF req[c].ask.authorize THEN "authorized" ELSE "cached")
  /\ UNCHANGED <<row, siteWp, cache, now, wait, changes, faults>>

\* A bad proof is refused, and one that is spent with no success remembered: the
\* simulation of its used authorization fails on every retry.
SettleRefused(c) ==
  /\ req[c].pc = "settle"
  /\ req[c].ask.proof \in (BadPayments \cup spent) \ honoured
  /\ GoOn(c, "refused")
  /\ UNCHANGED <<row, siteWp, cache, now, spent, honoured, wait, changes, faults>>

\* An abandoned submission, a failed distribute, no answer within 60 s or one that
\* is lost: the proof may be spent all the same, and be remembered or not.
SettleFails(c) ==
  LET p == req[c].ask.proof IN
  /\ req[c].pc = "settle" /\ Fault
  /\ \/ UNCHANGED <<spent, honoured>>
     \/ /\ p \notin BadPayments \cup spent
        /\ spent' = spent \cup {p}
        /\ honoured' \in {honoured, honoured \cup {p}}
  /\ GoOn(c, "refused")
  /\ UNCHANGED <<row, siteWp, cache, now, wait, changes>>

\* The site serves the article to its own internal token ...
BodyServed(c) ==
  /\ req[c].pc = "body" /\ req[c].wp = siteWp
  /\ GoOn(c, "html")
  /\ UNCHANGED <<row, siteWp, cache, now, spent, honoured, wait, changes, faults>>

BodyRefusedKept(c) ==
  /\ req[c].pc = "body" /\ req[c].wp # siteWp
  /\ GoOn(c, "unavailable")
  /\ UNCHANGED <<row, siteWp, cache, now, spent, honoured, wait, changes, faults>>

\* ... answers 401 to another, which drops the cached configuration ...
BodyRefused(c) ==
  /\ req[c].pc = "body" /\ req[c].wp # siteWp
  /\ cache' = [cache EXCEPT ![DomainKey] = Nothing]
  /\ GoOn(c, "unavailable")
  /\ UNCHANGED <<row, siteWp, now, spent, honoured, wait, changes, faults>>

\* ... or does not answer.
BodyFails(c) ==
  /\ req[c].pc = "body" /\ Fault
  /\ GoOn(c, "unavailable")
  /\ UNCHANGED <<row, siteWp, cache, now, spent, honoured, wait, changes>>

Handler(c) ==
  \/ LookupHits(c) \/ LookupReads(c) \/ LookupReturns(c) \/ LookupFails(c)
  \/ SettleSucceeds(c) \/ SettleRefused(c) \/ SettleFails(c)
  \/ BodyServed(c) \/ BodyRefused(c) \/ BodyFails(c)

HydrationNext ==
  \/ TogglePaywall \/ Reissue \/ SiteAdopts \/ Tick
  \/ \E p \in Payments : Lapse(p)
  \/ \E c \in Clients : Receive(c) \/ Handler(c)

\* A handler goes on, its client repeats what failed, and the site gets the
\* token that was issued for it.
Fairness == WF_hydrationVars(SiteAdopts) /\ \A c \in Clients : WF_hydrationVars(Receive(c) \/ Handler(c))

HydrationSpec == HydrationInit /\ [][HydrationNext]_hydrationVars
FairSpec == HydrationSpec /\ Fairness

-----------------------------------------------------------------------------
(* Properties. *)

Found == [kind: {"found"}, row: Row, readAt: 0..MaxNow, until: Nat]
HydrationTypeOK ==
  /\ row \in Row /\ siteWp \in Versions /\ now \in 0..MaxNow /\ changes \in 0..MaxChanges
  /\ faults \in 0..MaxFaults
  /\ spent \subseteq Payments /\ honoured \subseteq spent
  /\ cache \in [CacheKeys -> Found \cup {Nothing}]
  /\ req \in [Clients -> [pc: {"idle", "settle", "body"} \cup Lookups \cup Failed \cup Served,
                          ask: Ask \cup {Nothing}, age: Nat, wp: Versions]]
  /\ wait \in [Clients -> [found: BOOLEAN, row: Row, at: 0..MaxNow] \cup {Nothing}]

\* Whatever is decided, is decided on a configuration that the auth-service
\* held less than a TTL and one call ago, although slow lookups may store it after
\* a newer one or after an invalidation (main.go:163-165, "low enough to pick
\* up creator config changes quickly").
ConfigIsRecent == \A c \in Clients : req[c].age < TTL + LookupTime

\* A client whose payment was settled is served in the end, for as long as the
\* facilitator remembers it, if its site is connected and it keeps sending its
\* payment header: a replaced or missing token, a lost answer and a stale entry are
\* all healed by its retries, unless the token by which alone it names the site is
\* no longer the site's (main.go:300-308, 331-337).  (One whose deposit landed
\* without a success of the facilitator, payment-relayer index.ts:680-694, is refused
\* for ever.)
HasPaid(c) == row.wp # 0 /\ req[c].ask # Nothing /\ req[c].ask.proof \in honoured
Forgotten(c) == req[c].ask # Nothing /\ req[c].ask.proof \notin honoured
Disowned(c) == req[c].ask # Nothing /\ req[c].ask.token \notin {Nothing, row.wp} /\ ~req[c].ask.domain
PaidIsServed == \A c \in Clients : HasPaid(c) ~> (req[c].pc \in Served \/ Disowned(c) \/ Forgotten(c))

=============================================================================
