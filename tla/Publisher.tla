------------------------------ MODULE Publisher ------------------------------
(***************************************************************************)
(* The publisher SDK in front of a site: a visit is classified by its      *)
(* headers, its signature and its address, the backend is asked what it    *)
(* may see, and the gate of a framework answers or lets the site's own     *)
(* handler run.                                                            *)
(*                                                                         *)
(* The backend is taken as Hydration and Gateway promise it: a settle goes *)
(* on after its caller has given up, and a payment is accepted again while *)
(* the facilitator remembers that it succeeded.  The directories of keys   *)
(* and the published ranges of the search engines are read over the        *)
(* network and cached; a fetch may take any time, or fail.                 *)
(***************************************************************************)
EXTENDS Integers, Sequences

CONSTANTS
  Visitors,
  Asks,        \* Asks[v]: the requests that v may make
  Sites,       \* how the site may be set up
  Proofs,      \* payment headers
  BadProofs,   \* those that the facilitator refuses
  Keys,        \* key ids of agents
  RangeTTL, KeyTTL,  \* cacheTtlMs, JWKS_CACHE_TTL_MS
  MaxTime, MaxChanges, MaxFaults,   \* bounds
  None

ASSUME PublisherConstants ==
  /\ BadProofs \subseteq Proofs /\ None \notin Proofs \cup Nat \cup {"content", "stub", "another"}
  /\ RangeTTL \in Nat /\ KeyTTL \in Nat \ {0}
  /\ "list" \notin Keys

(* The gates of the packages.  A gate may skip routes that match no        *)
(* pattern, read the body of the request, hand its teaser to the core, and *)
(* attach the receipt before or after the handler has run.                 *)
CoreWrap == [filters |-> TRUE, readsBody |-> FALSE, teasesEarly |-> TRUE, receipt |-> "after"]
ExpressProtect == [filters |-> FALSE, readsBody |-> TRUE, teasesEarly |-> FALSE, receipt |-> "before"]
ExpressMiddleware == [filters |-> TRUE, readsBody |-> TRUE, teasesEarly |-> FALSE, receipt |-> "before"]
NextProtect == [filters |-> FALSE, readsBody |-> FALSE, teasesEarly |-> FALSE, receipt |-> "after"]
NextProxy == [filters |-> TRUE, readsBody |-> FALSE, teasesEarly |-> FALSE, receipt |-> "before"]
HonoProtect == [filters |-> FALSE, readsBody |-> FALSE, teasesEarly |-> FALSE, receipt |-> "after"]
HonoMiddleware == [filters |-> TRUE, readsBody |-> FALSE, teasesEarly |-> FALSE, receipt |-> "always"]
Gates == {CoreWrap, ExpressProtect, ExpressMiddleware, NextProtect, NextProxy,
          HonoProtect, HonoMiddleware}

\* A labelled signature of the headers: its key, and whether it is right under it.
Label == [key : Keys, expires : Nat, right : BOOLEAN]

Site == [gate : Gates, failMode : {"open", "teaser", "closed"}, seo : BOOLEAN, unlock : BOOLEAN]

Ask == [proof : Proofs \cup {None},
        session : Nat \cup {None},     \* a session cookie, and when it expires
        signatures : Seq(Label),
        agent : {"bot", "crawler", "browser"},   \* what the User-Agent claims
        navigates : BOOLEAN,           \* headers of a navigation
        matched : BOOLEAN,             \* the route matches a pattern
        slug : BOOLEAN,                \* the path has a segment: the root has none
        body : {"none", "stream", "parsed"}]     \* the body, parsed by an earlier handler

ASSUME AsksAssumption == Asks \in [Visitors -> SUBSET Ask]
ASSUME SitesAssumption == \A s \in Sites : s.gate \in Gates => s \in Site

VARIABLES
  site,
  paywall,   \* the switch of the site at the backend
  delisted,  \* when the crawler's range, an agent's key left its list, or None
  ranges,    \* cache of createSearchCrawlerVerifier, and how long its fetch took
  jwks,      \* jwksCache: when the entry of a key expires, or None
  now,
  visit,     \* the visit of each visitor
  settling,  \* payments that the backend is settling
  settled,   \* payments that landed
  honoured,  \* those that the facilitator remembers as a success
  changes, faults

vars == <<site, paywall, delisted, ranges, jwks, now, visit, settling, settled, honoured, changes, faults>>
world == <<paywall, delisted, now, changes>>
money == <<settling, settled, honoured>>
Lists == {"list"} \cup Keys

Fault == faults < MaxFaults /\ faults' = faults + 1
Change == changes < MaxChanges /\ changes' = changes + 1

NoVisit == [pc |-> "idle", ask |-> None, why |-> "none", good |-> FALSE,
            asked |-> 0, label |-> 0, since |-> 0, page |-> None,
            rangeLag |-> 0, took |-> 0, keyLag |-> 0, signLag |-> 0,
            failed |-> FALSE, receipt |-> FALSE]

Init ==
  /\ site \in Sites
  /\ paywall = TRUE
  /\ delisted = [x \in Lists |-> None]
  /\ ranges = None /\ jwks = [k \in Keys |-> None] /\ now = 0
  /\ visit = [v \in Visitors |-> NoVisit]
  /\ settling = {} /\ settled = {} /\ honoured = {}
  /\ changes = 0 /\ faults = 0

-----------------------------------------------------------------------------
(* Around the gate. *)

SetPaywall ==
  /\ Change
  /\ paywall' = ~paywall
  /\ UNCHANGED <<site, delisted, ranges, jwks, now, visit, money, faults>>

Delist(x) ==
  /\ Change
  /\ delisted[x] = None
  /\ delisted' = [delisted EXCEPT ![x] = now]
  /\ UNCHANGED <<site, paywall, ranges, jwks, now, visit, money, faults>>

\* The gateway and the relayer settle what they were asked to; a submission that was
\* abandoned, or whose distribute failed, may land all the same and is no success.
SettleLands(p) ==
  /\ p \in settling
  /\ settling' = settling \ {p}
  /\ settled' = settled \cup {p}
  /\ \/ honoured' = honoured \cup {p} /\ UNCHANGED faults
     \/ Fault /\ UNCHANGED honoured
  /\ UNCHANGED <<site, world, ranges, jwks, visit>>

\* The relayer restarts, or the 24 h of a result are over.
Lapse(p) ==
  /\ p \in honoured
  /\ honoured' = honoured \ {p}
  /\ UNCHANGED <<site, world, ranges, jwks, visit, settling, settled, faults>>

Tick ==
  /\ now < MaxTime
  /\ now' = now + 1
  /\ UNCHANGED <<site, paywall, delisted, ranges, jwks, visit, money, changes, faults>>

-----------------------------------------------------------------------------
(* The decision. *)

\* What a visit becomes.
Set(v, to) == visit' = [visit EXCEPT ![v] = to]
Goes(v, pc) == [visit[v] EXCEPT !.pc = pc]
Handles(v, why) == [visit[v] EXCEPT !.pc = "handler", !.why = why]
Answer(v, page) ==
  [visit[v] EXCEPT !.pc = "answered", !.page = page, !.since = 0, !.asked = 0, !.label = 0]

\* A gate that skips what matches no pattern, and a visit to such a route.
IsMatched(a) == a.matched \/ ~site.gate.filters

\* No decision of the backend: content, a teaser where the core can build one, or nothing.
ApplyFailMode(v) ==
  CASE site.failMode = "open" -> [Handles(v, "open") EXCEPT !.failed = TRUE]
    [] site.failMode = "closed" -> [Answer(v, "503") EXCEPT !.failed = TRUE]
    [] site.failMode = "teaser" ->
         [Answer(v, IF site.gate.teasesEarly /\ site.seo THEN "teaser" ELSE "402") EXCEPT !.failed = TRUE]

Demand(v, why) ==
  [visit[v] EXCEPT !.pc = "requirements", !.why = why, !.since = 0, !.asked = 0, !.label = 0]
Bot402(v) == Demand(v, "bot-unpaid")

\* Only the core's own wrapper can show its teaser without asking the backend.
Human(v, why) ==
  IF site.gate.teasesEarly /\ site.seo THEN [Answer(v, "teaser") EXCEPT !.why = why]
  ELSE Demand(v, why)

\* The User-Agent: a crawler must come from a published range, the rest pay or look.
RangesKnown == ranges # None /\ now - ranges.fetchedAt <= RangeTTL
Lag(t, at) == IF t = None \/ t >= at THEN 0 ELSE at - t
ByRange(v, inRange, took) ==
  IF inRange THEN [Human(v, "crawler") EXCEPT !.rangeLag = Lag(delisted["list"], now), !.took = took]
  ELSE Bot402(v)
ByUserAgent(v) ==
  CASE visit[v].ask.agent = "bot" -> Bot402(v)
    [] visit[v].ask.agent = "browser" -> Human(v, "human-unverified")
    [] visit[v].ask.agent = "crawler" /\ RangesKnown -> ByRange(v, ranges.listed, ranges.took)
    [] visit[v].ask.agent = "crawler" /\ ~RangesKnown ->
         [Goes(v, "ranges") EXCEPT !.since = now, !.asked = 0, !.label = 0]

\* A signature that verifies under its key, as it was looked up at a time, is an
\* agent's, which is to pay; after any other the next one is tried.
LabelOf(v) == visit[v].ask.signatures[visit[v].label]
NextLabel(v) == [Goes(v, "labels") EXCEPT !.label = @ + 1, !.since = 0]
VerifyOne(v, at) ==
  IF LabelOf(v).right
  THEN [Bot402(v) EXCEPT !.keyLag = Lag(delisted[LabelOf(v).key], at),
                         !.signLag = Lag(LabelOf(v).expires, visit[v].asked)]
  ELSE NextLabel(v)

\* A visit arrives, or is repeated as it was by a payer who got no content.
Repeats(v) == visit[v].pc = "answered" /\ visit[v].ask.proof # None /\ visit[v].page # "content"
GoodSession(a) == a.session # None /\ a.session >= now
Arrive(v) ==
  /\ site.gate \in Gates
  /\ visit[v].pc = "idle" \/ Repeats(v)
  /\ \E a \in IF visit[v].pc = "idle" THEN Asks[v] ELSE {visit[v].ask} :
       LET new == [NoVisit EXCEPT !.ask = a, !.good = GoodSession(a)]
       IN  visit' = [visit EXCEPT ![v] =
             CASE ~IsMatched(a) -> [new EXCEPT !.pc = "handler", !.why = "unmatched"]
               [] IsMatched(a) /\ site.gate.readsBody -> [new EXCEPT !.pc = "body"]
               [] OTHER -> [new EXCEPT !.pc = "classify"]]
  /\ UNCHANGED <<site, world, ranges, jwks, money, faults>>

\* The stream of a body that was parsed already has ended: its "end" never comes.
ReadRawBody(v) ==
  /\ visit[v].pc = "body" /\ visit[v].ask.body # "parsed"
  /\ Set(v, Goes(v, "classify"))
  /\ UNCHANGED <<site, world, ranges, jwks, money, faults>>

\* Headers first; then the signatures, all against the clock of now; then the User-Agent.
Classify(v) ==
  /\ visit[v].pc = "classify"
  /\ LET a == visit[v].ask IN
       Set(v, CASE a.proof # None \/ a.session # None -> Goes(v, "authorize")
                [] OTHER -> IF a.signatures = <<>> THEN ByUserAgent(v)
                            ELSE [Goes(v, "labels") EXCEPT !.asked = now, !.label = 1])
  /\ UNCHANGED <<site, world, ranges, jwks, money, faults>>

\* One label after another: an expired or malformed one is passed over, the others need
\* their keys.
KeyKnown(k) == jwks[k] # None /\ jwks[k] > now
TryLabel(v) ==
  /\ visit[v].pc = "labels"
  /\ Set(v, IF visit[v].label > Len(visit[v].ask.signatures) THEN ByUserAgent(v)
            ELSE IF LabelOf(v).expires < visit[v].asked THEN NextLabel(v)
            ELSE IF KeyKnown(LabelOf(v).key) THEN VerifyOne(v, now)
            ELSE [Goes(v, "directory") EXCEPT !.since = now])
  /\ UNCHANGED <<site, world, ranges, jwks, money, faults>>

\* A fetch shows a list as it was at some time since the request was made.
Shows(v, x, listed) ==
  IF delisted[x] = None THEN listed ELSE listed => delisted[x] >= visit[v].since

\* A plausible mistake: the key is kept for a TTL from its arrival on.
ResolveKeyLater(v) ==
  /\ visit[v].pc = "directory"
  /\ \E listed \in BOOLEAN :
       /\ Shows(v, LabelOf(v).key, listed)
       /\ jwks' = IF listed THEN [jwks EXCEPT ![LabelOf(v).key] = now + KeyTTL] ELSE jwks
       /\ Set(v, IF listed THEN VerifyOne(v, visit[v].since) ELSE NextLabel(v))
  /\ UNCHANGED <<site, world, ranges, money, faults>>

\* The key of a label, from its agent's directory; kept for a TTL from the request on.
ResolveKey(v) ==
  /\ visit[v].pc = "directory"
  /\ \E listed \in BOOLEAN :
       /\ Shows(v, LabelOf(v).key, listed)
       /\ jwks' = IF listed THEN [jwks EXCEPT ![LabelOf(v).key] = visit[v].since + KeyTTL] ELSE jwks
       /\ Set(v, IF listed THEN VerifyOne(v, visit[v].since) ELSE NextLabel(v))
  /\ UNCHANGED <<site, world, ranges, money, faults>>

ResolveKeyFails(v) ==
  /\ visit[v].pc = "directory" /\ Fault
  /\ Set(v, NextLabel(v))
  /\ UNCHANGED <<site, world, ranges, jwks, money>>

\* The ranges of the search engine; kept for a TTL from their arrival on.
LoadRanges(v) ==
  /\ visit[v].pc = "ranges"
  /\ \E listed \in BOOLEAN :
       /\ Shows(v, "list", listed)
       /\ ranges' = [listed |-> listed, fetchedAt |-> now, took |-> now - visit[v].since]
       /\ Set(v, ByRange(v, listed, now - visit[v].since))
  /\ UNCHANGED <<site, world, jwks, money, faults>>

\* A list that cannot be loaded is nobody's, and is not kept.
LoadRangesFails(v) ==
  /\ visit[v].pc = "ranges" /\ Fault
  /\ Set(v, ByRange(v, FALSE, 0))
  /\ UNCHANGED <<site, world, ranges, jwks, money>>

-----------------------------------------------------------------------------
(* The calls to the backend. *)

\* A plausible mistake: any 200 is taken for an authorization.
TakenAsAuthorized(v, is402) ==
  IF visit[v].ask.proof = None THEN Human(v, "human-unverified")
  ELSE IF is402 THEN Answer(v, "402") ELSE Handles(v, "paid")

\* What evaluate makes of the answer of authorize: authorized, a 402 (of a payment,
\* with its demand), or neither.
Unauthorized(v, is402) ==
  IF visit[v].ask.proof = None THEN Human(v, "human-unverified")
  ELSE IF is402 THEN Answer(v, "402") ELSE Bot402(v)

\* A plausible mistake: a payment that has settled is not accepted again.
AuthorizeOnce(v) ==
  /\ visit[v].pc = "authorize"
  /\ LET a == visit[v].ask IN
       \/ /\ ~a.slug
          /\ Set(v, ApplyFailMode(v)) /\ UNCHANGED settling
       \/ /\ a.slug /\ (~paywall \/ a.proof \in settled)
          /\ Set(v, Unauthorized(v, FALSE)) /\ UNCHANGED settling
       \/ /\ a.slug /\ paywall /\ a.proof # None /\ a.proof \notin settled
          /\ Set(v, Goes(v, "settling"))
          /\ settling' = settling \cup ({a.proof} \ (BadProofs \cup settled))
       \/ /\ a.slug /\ paywall /\ a.proof = None
          /\ Set(v, IF a.session >= now THEN Handles(v, "verified") ELSE Unauthorized(v, TRUE))
          /\ UNCHANGED settling
  /\ UNCHANGED <<site, world, ranges, jwks, settled, honoured, faults>>

\* The hydration service decides: a request without a slug is malformed, which is no
\* decision; a paused site passes everyone on without a word of authorization; a payment
\* is settled, a session is checked.
Authorize(v) ==
  /\ visit[v].pc = "authorize"
  /\ LET a == visit[v].ask IN
       \/ /\ ~a.slug
          /\ Set(v, ApplyFailMode(v)) /\ UNCHANGED settling
       \/ /\ a.slug /\ ~paywall
          /\ Set(v, Unauthorized(v, FALSE)) /\ UNCHANGED settling
       \/ /\ a.slug /\ paywall /\ a.proof # None
          /\ Set(v, Goes(v, "settling"))
          /\ settling' = settling \cup ({a.proof} \ (BadProofs \cup settled))
       \/ /\ a.slug /\ paywall /\ a.proof = None
          /\ Set(v, IF a.session >= now THEN Handles(v, "verified") ELSE Unauthorized(v, TRUE))
          /\ UNCHANGED settling
  /\ UNCHANGED <<site, world, ranges, jwks, settled, honoured, faults>>

Settled(v) ==
  /\ visit[v].pc = "settling" /\ visit[v].ask.proof \in honoured
  /\ Set(v, Handles(v, "paid"))
  /\ UNCHANGED <<site, world, ranges, jwks, money, faults>>

\* Refused, as bad or as spent with no success remembered, or not answered within the
\* 60 s of the hydration service.
Refused(p) == p \in BadProofs \/ p \in settled \ honoured
NotSettled(v) ==
  /\ visit[v].pc = "settling"
  /\ \/ Refused(visit[v].ask.proof) /\ UNCHANGED faults
     \/ Fault
  /\ Set(v, Unauthorized(v, TRUE))
  /\ UNCHANGED <<site, world, ranges, jwks, money>>

\* The backend does not answer a call, answers neither 200 nor 402, or the timeout of
\* the call ends it.
Unreachable(v) ==
  /\ visit[v].pc \in {"authorize", "settling", "requirements"} /\ Fault
  /\ Set(v, ApplyFailMode(v))
  /\ UNCHANGED <<site, world, ranges, jwks, money>>

\* The gates of the frameworks show their teaser when the core has decided.
Previewable(v) ==
  /\ ~site.gate.teasesEarly /\ site.seo
  /\ \/ visit[v].why = "crawler"
     \/ visit[v].why = "human-unverified" /\ visit[v].ask.navigates

Requirements(v) ==
  /\ visit[v].pc = "requirements"
  /\ Set(v, Answer(v, IF ~Previewable(v) THEN "402"
                      ELSE IF site.unlock /\ visit[v].why # "crawler" THEN "unlock" ELSE "teaser"))
  /\ UNCHANGED <<site, world, ranges, jwks, money, faults>>

-----------------------------------------------------------------------------
(* The handler of the site. *)

AttachPaymentResponse(v, page) == [Answer(v, page) EXCEPT !.receipt = (visit[v].why = "paid")]

Serve(v) ==
  /\ visit[v].pc = "handler"
  /\ Set(v, AttachPaymentResponse(v, "content"))
  /\ UNCHANGED <<site, world, ranges, jwks, money, faults>>

\* The handler throws: its answer is the framework's, with the receipt if it was set before.
HandlerFails(v) ==
  /\ visit[v].pc = "handler" /\ Fault
  /\ Set(v, IF site.gate.receipt # "after" THEN AttachPaymentResponse(v, "500") ELSE Answer(v, "500"))
  /\ UNCHANGED <<site, world, ranges, jwks, money>>

Gate(v) ==
  \/ ReadRawBody(v) \/ Classify(v) \/ TryLabel(v) \/ ResolveKey(v) \/ ResolveKeyFails(v)
  \/ LoadRanges(v) \/ LoadRangesFails(v) \/ Authorize(v) \/ Settled(v) \/ NotSettled(v) \/ Unreachable(v)
  \/ Requirements(v) \/ Serve(v) \/ HandlerFails(v)

Next ==
  \/ SetPaywall \/ Tick
  \/ \E x \in Lists : Delist(x)
  \/ \E p \in Proofs : SettleLands(p) \/ Lapse(p)
  \/ \E v \in Visitors : Arrive(v) \/ Gate(v)

Spec == Init /\ [][Next]_vars

-----------------------------------------------------------------------------
(* Properties. *)

\* The handler of a gated route runs for a payment that landed, a session that was
\* good when the visit came, or, where the publisher chose to fail open, because the
\* backend gave no decision on this very visit: no answer, or one that is neither a 200
\* nor a 402 (decision.ts:145-148, "never leak content"; client.ts:161).
ContentIsEarned ==
  \A v \in Visitors : site.gate \in Gates /\ (visit[v].pc = "handler" \/ visit[v].page = "content") =>
    \/ visit[v].why = "unmatched" /\ ~visit[v].ask.matched /\ site.gate.filters
    \/ visit[v].why = "paid" /\ visit[v].ask.proof \in settled
    \/ visit[v].why = "verified" /\ visit[v].good
    \/ visit[v].why = "open" /\ visit[v].failed /\ site.failMode = "open"

\* However slow the fetches are, however those of two visits overlap, and whatever the
\* caches keep: a crawler is shown a teaser no longer after its range ended than the
\* cache may keep it and its own fetch took; a signed agent is told apart by a key that
\* had left its list less than a TTL before it was looked up, and by a signature that
\* was good when the visit's labels were first read (crawlerverify.ts:20-21,
\* webbotauth.ts:53-54, 68).
IdentityIsRecent ==
  \A v \in Visitors :
    /\ visit[v].rangeLag <= RangeTTL + visit[v].took
    /\ visit[v].keyLag < KeyTTL
    /\ visit[v].signLag = 0

\* A payer whose payment has landed and is remembered, and who keeps sending it, gets
\* the content with its receipt: the SDK gave up, the hydration service gave up, the
\* handler failed; unless the site is paused, its body was read before, its path has no
\* slug, or the facilitator forgets the payment (settle.ts:4-12).
Unlucky(v) ==
  \/ ~paywall
  \/ /\ visit[v].ask # None
     /\ \/ visit[v].ask.proof \notin honoured
        \/ site.gate.readsBody /\ visit[v].ask.body = "parsed"
        \/ site.gate \in Gates /\ ~visit[v].ask.slug
PaidIsServed ==
  \A v \in Visitors :
    (visit[v].ask # None /\ visit[v].ask.proof \in honoured) ~>
      (Unlucky(v) \/ (visit[v].page = "content" /\ (visit[v].why = "paid" => visit[v].receipt)))

=============================================================================
