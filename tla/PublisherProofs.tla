--------------------------- MODULE PublisherProofs ---------------------------
(***************************************************************************)
(* Proofs about the gates of Publisher and the site of WordPress, for any  *)
(* visitors, requests, set-ups of the site, payments, times and faults.    *)
(*                                                                         *)
(* A visit is judged by itself: what it is allowed to be depends only on   *)
(* the site, the time, the payments that landed and its tab (SdkOk,        *)
(* PluginOk).  The caches matter for IdentityIsRecent alone: whatever they *)
(* keep was true no earlier than its fetch began (World).                  *)
(***************************************************************************)
EXTENDS WordPress, TLAPS

SdkPcs == {"idle", "body", "classify", "labels", "directory", "ranges", "authorize", "settling",
           "requirements", "handler", "answered"}
PluginPcs == {"idle", "intercept", "hydrate", "posted", "article", "handler", "answered"}
Whys == {"none", "unmatched", "paid", "verified", "open", "paused", "surface", "bot-unpaid",
         "crawler", "human-unverified"}
Pages == {"503", "teaser", "402", "unlock", "content", "another", "500", "stub"}

VisitRec == [pc : SdkPcs \cup PluginPcs, ask : Ask \cup PluginAsk \cup {None}, why : Whys,
             good : BOOLEAN, asked : Nat, label : Nat, since : Nat, page : Pages \cup {None},
             rangeLag : Nat, took : Nat, keyLag : Nat, signLag : Nat,
             failed : BOOLEAN, receipt : BOOLEAN]
Tab == [token : Nat \cup {None}, cookie : Nat \cup {None},
        embed : {"off", "poll", "challenge", "inject", "returning", "retry", "shown"}]

\* What the caches keep was so when they were asked, or later.
RangesOk ==
  ranges # None =>
    /\ ranges \in [listed : BOOLEAN, fetchedAt : Nat, took : Nat]
    /\ ranges.fetchedAt <= now
    /\ ranges.listed /\ delisted["list"] # None => ranges.fetchedAt <= delisted["list"] + ranges.took
KeyOk(k) ==
  jwks[k] # None =>
    /\ jwks[k] <= now + KeyTTL
    /\ delisted[k] # None => jwks[k] <= delisted[k] + KeyTTL
World ==
  /\ now \in Nat /\ paywall \in BOOLEAN
  /\ honoured \subseteq settled
  /\ delisted \in [Lists -> Nat \cup {None}]
  /\ \A x \in Lists : delisted[x] # None => delisted[x] <= now
  /\ RangesOk
  /\ jwks \in [Keys -> Nat \cup {None}]
  /\ \A k \in Keys : KeyOk(k)

\* The reasons for the content: of a gate, and of a site with the plugin.
Grounds(r, s, landed) ==
  \/ r.why = "unmatched" /\ ~r.ask.matched /\ s.gate.filters
  \/ r.why = "paid" /\ r.ask.proof \in landed
  \/ r.why = "verified" /\ r.good
  \/ r.why = "open" /\ r.failed /\ s.failMode = "open"
BodyGrounds(r, s, landed, tb) ==
  \/ r.why = "unmatched" /\ ~ShouldGateArticle(s.scope, r.ask.post)
  \/ r.why = "surface" /\ r.ask.surface = "rest" /\ r.ask.editor
  \/ r.why = "surface" /\ r.ask.surface = "rest" /\ r.ask.post = "other"
  \/ r.why = "surface" /\ r.ask.surface = "aside"
  \/ r.why = "paid" /\ r.ask.proof \in landed
  \/ r.why = "verified" /\ tb.cookie # None /\ ~IsBot(r.ask)
  \/ r.why = "paused" /\ r.ask.surface = "singular"

\* A visit to a gate, at a time, after some payments.
SdkOk(r, s, t, landed) ==
  /\ r.pc \in SdkPcs /\ r.page \notin {"stub", "another"}
  /\ r.pc # "idle" => r.ask \in Ask
  /\ r.page # None => r.pc = "answered"
  /\ r.pc = "authorize" => r.ask.proof # None \/ r.ask.session # None
  /\ r.pc \in {"body", "classify", "authorize"} /\ r.ask.session # None /\ t <= r.ask.session => r.good
  /\ r.pc \in {"directory", "ranges"} => r.since <= t
  /\ r.pc = "labels" => r.label # 0
  /\ r.pc = "directory" =>
       /\ r.label \in 1..Len(r.ask.signatures)
       /\ r.asked <= r.ask.signatures[r.label].expires
  /\ r.pc = "handler" \/ r.page = "content" => Grounds(r, s, landed)

\* A visit to a site with the plugin, and its tab.
PluginOk(r, s, landed, tb) ==
  /\ r.pc \in PluginPcs
  /\ r.pc # "idle" => r.ask \in PluginAsk
  /\ r.page # None => r.pc = "answered"
  /\ r.pc = "idle" => tb.cookie = None
  /\ tb.token # None => tb.cookie # None
  /\ tb.cookie # None \/ tb.embed \in {"challenge", "inject"} => ~IsBot(r.ask)
  /\ r.pc \in {"intercept", "hydrate", "posted", "article"} => r.ask.surface = "singular"
  /\ r.pc = "article" =>
       \/ r.why = "paid" /\ r.ask.proof \in landed
       \/ r.why = "verified" /\ tb.cookie # None
  /\ r.pc = "handler" \/ r.page \in Bodies => BodyGrounds(r, s, landed, tb)

Recent(r) == r.rangeLag <= RangeTTL + r.took /\ r.keyLag < KeyTTL /\ r.signLag = 0

VisitsOk ==
  /\ visit \in [Visitors -> VisitRec]
  /\ \A v \in Visitors : Recent(visit[v])
  /\ site.gate \in Gates => \A v \in Visitors : SdkOk(visit[v], site, now, settled)
  /\ site.gate \notin Gates => \A v \in Visitors : PluginOk(visit[v], site, settled, tab[v])

SiteInv ==
  /\ site \in Sites
  /\ tab \in [Visitors -> Tab]
  /\ World
  /\ VisitsOk

\* The constants, for the provers.
LEMMA Times ==
  /\ RangeTTL \in Nat /\ KeyTTL \in Nat /\ 0 < KeyTTL
  /\ SessionTTL \in Nat
  /\ None \notin Nat /\ None # "content" /\ None # "stub" /\ None # "another"
BY PublisherConstants, SessionAssumption

\* The plugin is no gate of the SDK.
LEMMA PluginIsNoGate == WordPress \notin Gates
BY DEF WordPress, Gates, CoreWrap, ExpressProtect, ExpressMiddleware, NextProtect, NextProxy,
       HonoProtect, HonoMiddleware

LEMMA NewVisit ==
  NoVisit \in VisitRec /\ NoVisit.pc = "idle" /\ NoVisit.page = None /\ Recent(NoVisit)
BY Times DEF NoVisit, VisitRec, Recent, SdkPcs, Whys

\* The initial state satisfies the invariant.
LEMMA SiteInitial == SiteInit => SiteInv
<1> SUFFICES ASSUME SiteInit PROVE SiteInv
  OBVIOUS
<1> USE DEF SiteInit, Init
<1>1. World
  BY Times DEF World, RangesOk, KeyOk
<1>2. tab \in [Visitors -> Tab] /\ \A v \in Visitors : /\ tab[v].token = None /\ tab[v].cookie = None
                                                         /\ tab[v].embed = "off"
  <2>1. [token |-> None, cookie |-> None, embed |-> "off"] \in Tab
    BY DEF Tab
  <2>2. tab = [v \in Visitors |-> [token |-> None, cookie |-> None, embed |-> "off"]]
    OBVIOUS
  <2>3. QED
    BY <2>1, <2>2
<1>3. VisitsOk
  <2>1. \A v \in Visitors : visit[v] = NoVisit
    OBVIOUS
  <2>2. visit \in [Visitors -> VisitRec] /\ \A v \in Visitors : Recent(visit[v])
    BY NewVisit
  <2>3. NoVisit.pc = "idle" /\ NoVisit.page = None /\ None \notin {"stub", "content", "another"}
    BY NewVisit, Times
  <2>4. \A v \in Visitors : SdkOk(visit[v], site, now, settled)
    BY <2>1, <2>3 DEF SdkOk, SdkPcs
  <2>5. \A v \in Visitors : PluginOk(visit[v], site, settled, tab[v])
    BY <1>2, <2>1, <2>3 DEF PluginOk, PluginPcs, Bodies
  <2>6. QED
    BY <2>2, <2>4, <2>5 DEF VisitsOk
<1>4. QED
  BY <1>1, <1>2, <1>3 DEF SiteInv

-----------------------------------------------------------------------------
(* What the steps of a gate make of a visit. *)

\* A visit that goes on without content.
Shown(r, old) ==
  /\ r \in VisitRec /\ r.ask = old.ask /\ r.pc \in {"requirements", "answered"}
  /\ r.page \notin {"content", "stub", "another"} /\ (r.page # None => r.pc = "answered")
  /\ Recent(r)

LEMMA HumanShown ==
  ASSUME NEW v \in Visitors, visit[v] \in VisitRec, visit[v].page = None, Recent(visit[v]),
         NEW why \in Whys
  PROVE  Shown(Human(v, why), visit[v]) /\ Shown(Demand(v, why), visit[v])
<1>1. None \notin {"stub", "content", "another"}
  BY Times
<1>2. Shown(Demand(v, why), visit[v])
  BY <1>1, Times DEF Shown, Demand, VisitRec, SdkPcs, Recent
<1> DEFINE a == Answer(v, "teaser")
<1>3. a \in VisitRec /\ a.pc = "answered" /\ a.page = "teaser" /\ a.ask = visit[v].ask
      /\ Recent(a)
  BY DEF Answer, VisitRec, SdkPcs, Pages, Recent
<1> HIDE DEF a
<1>4. Shown([a EXCEPT !.why = why], visit[v])
  BY <1>3 DEF Shown, VisitRec, Recent
<1>5. QED
  BY <1>2, <1>4 DEF Human, a

LEMMA AnswerShown ==
  ASSUME NEW v \in Visitors, visit[v] \in VisitRec, Recent(visit[v]),
         NEW page \in Pages \ {"content", "stub", "another"}
  PROVE  Shown(Answer(v, page), visit[v])
<1> DEFINE a == Answer(v, page)
<1>1. a \in VisitRec
  BY DEF Answer, VisitRec, SdkPcs, Pages
<1>2. a.pc = "answered" /\ a.page = page /\ a.ask = visit[v].ask
  BY DEF Answer, VisitRec
<1>3. Recent(a)
  BY DEF Answer, VisitRec, Recent
<1>4. page \notin {"content", "stub", "another"}
  OBVIOUS
<1> HIDE DEF a
<1>5. Shown(a, visit[v])
  BY <1>1, <1>2, <1>3, <1>4 DEF Shown
<1>6. QED
  BY <1>5 DEF a

LEMMA Bot402Shown ==
  ASSUME NEW v \in Visitors, visit[v] \in VisitRec, visit[v].page = None, Recent(visit[v])
  PROVE  Shown(Bot402(v), visit[v])
BY HumanShown DEF Bot402, Whys

LEMMA UnauthorizedShown ==
  ASSUME NEW v \in Visitors, visit[v] \in VisitRec, visit[v].page = None, Recent(visit[v]),
         NEW is402 \in BOOLEAN
  PROVE  Shown(Unauthorized(v, is402), visit[v])
<1>1. Shown(Human(v, "human-unverified"), visit[v])
  BY HumanShown DEF Whys
<1>2. Shown(Answer(v, "402"), visit[v])
  BY AnswerShown DEF Pages
<1>3. QED
  BY <1>1, <1>2, Bot402Shown DEF Unauthorized

\* A crawler is told from a range that ended no longer ago than the cache allows.
LEMMA ByRangeShown ==
  ASSUME NEW v \in Visitors, visit[v] \in VisitRec, visit[v].page = None, Recent(visit[v]),
         World, NEW inRange \in BOOLEAN, NEW took \in Nat,
         inRange => Lag(delisted["list"], now) <= RangeTTL + took
  PROVE  Shown(ByRange(v, inRange, took), visit[v])
<1>1. CASE inRange
  <2> DEFINE lag == Lag(delisted["list"], now)
             h == Human(v, "crawler")
  <2>1. lag \in Nat
    BY DEF Lag, World, Lists
  <2>2. Shown(h, visit[v])
    BY HumanShown DEF Whys
  <2>3. lag <= RangeTTL + took
    BY <1>1
  <2> HIDE DEF h, lag
  <2>4. Shown([h EXCEPT !.rangeLag = lag, !.took = took], visit[v])
    BY <2>1, <2>2, <2>3, Times DEF Shown, VisitRec, Recent
  <2>5. QED
    BY <1>1, <2>4 DEF ByRange, h, lag
<1>2. CASE ~inRange
  BY <1>2, Bot402Shown DEF ByRange
<1>3. QED
  BY <1>1, <1>2

\* The User-Agent decides, or the ranges are fetched.
ToRanges(v) == [Goes(v, "ranges") EXCEPT !.since = now, !.asked = 0, !.label = 0]
LEMMA ByUserAgentShown ==
  ASSUME NEW v \in Visitors, visit[v] \in VisitRec, visit[v].page = None, Recent(visit[v]),
         visit[v].ask \in Ask, World
  PROVE  Shown(ByUserAgent(v), visit[v]) \/ ByUserAgent(v) = ToRanges(v)
<1>1. visit[v].ask.agent \in {"bot", "browser", "crawler"}
  BY DEF Ask
<1>2. Shown(Bot402(v), visit[v]) /\ Shown(Human(v, "human-unverified"), visit[v])
  BY Bot402Shown, HumanShown DEF Whys
<1>3. RangesKnown => Shown(ByRange(v, ranges.listed, ranges.took), visit[v])
  <2> SUFFICES ASSUME RangesKnown PROVE Shown(ByRange(v, ranges.listed, ranges.took), visit[v])
    OBVIOUS
  <2>1. /\ ranges \in [listed : BOOLEAN, fetchedAt : Nat, took : Nat]
        /\ now - ranges.fetchedAt <= RangeTTL
    BY DEF RangesKnown, World, RangesOk
  <2>2. ranges.listed => Lag(delisted["list"], now) <= RangeTTL + ranges.took
    BY <2>1, Times DEF World, RangesOk, Lag, RangesKnown, Lists
  <2>3. QED
    BY <2>1, <2>2, ByRangeShown
<1>4. QED
  BY <1>1, <1>2, <1>3 DEF ByUserAgent, ToRanges

\* A signature is taken for an agent's if it was good when the labels were first read, by
\* a key that left its list less than a TTL before it was looked up.
LEMMA VerifyOneShown ==
  ASSUME NEW v \in Visitors, visit[v] \in VisitRec, visit[v].page = None, Recent(visit[v]),
         NEW at \in Nat, Lag(delisted[LabelOf(v).key], at) \in Nat,
         Lag(delisted[LabelOf(v).key], at) < KeyTTL,
         Lag(LabelOf(v).expires, visit[v].asked) = 0
  PROVE  Shown(VerifyOne(v, at), visit[v]) \/ VerifyOne(v, at) = NextLabel(v)
<1>1. CASE LabelOf(v).right
  <2> DEFINE lag == Lag(delisted[LabelOf(v).key], at)
             sl == Lag(LabelOf(v).expires, visit[v].asked)
             b == Bot402(v)
  <2>1. lag \in Nat /\ lag < KeyTTL /\ sl = 0
    OBVIOUS
  <2>2. Shown(b, visit[v])
    BY Bot402Shown
  <2> HIDE DEF lag, b, sl
  <2>3. Shown([b EXCEPT !.keyLag = lag, !.signLag = sl], visit[v])
    BY <2>1, <2>2, Times DEF Shown, VisitRec, Recent
  <2>4. QED
    BY <1>1, <2>3 DEF VerifyOne, lag, b, sl
<1>2. QED
  BY <1>1 DEF VerifyOne

-----------------------------------------------------------------------------
(* One visit moves at a time. *)

LEMMA OneMoves ==
  ASSUME visit \in [Visitors -> VisitRec], NEW v \in Visitors, NEW r \in VisitRec, Set(v, r)
  PROVE  /\ visit' \in [Visitors -> VisitRec]
         /\ visit'[v] = r
         /\ \A w \in Visitors : w # v => visit'[w] = visit[w]
BY DEF Set

\* A step of one visit to a gate that leaves it as it may be.
LEMMA SdkMoves ==
  ASSUME SiteInv, site.gate \in Gates, NEW v \in Visitors, NEW r \in VisitRec, Set(v, r),
         Recent(r), SdkOk(r, site, now, settled),
         site' = site, now' = now, settled' = settled
  PROVE  VisitsOk'
<1>1. /\ visit' \in [Visitors -> VisitRec] /\ visit'[v] = r
      /\ \A w \in Visitors : w # v => visit'[w] = visit[w]
  BY OneMoves DEF SiteInv, VisitsOk
<1>2. \A w \in Visitors : Recent(visit'[w]) /\ SdkOk(visit'[w], site, now, settled)
  BY <1>1 DEF SiteInv, VisitsOk
<1>3. QED
  BY <1>1, <1>2 DEF VisitsOk

\* A visit that is shown something, or waits for the ranges, is as it may be.
LEMMA ShownIsOk ==
  ASSUME SiteInv, NEW v \in Visitors, NEW r, visit[v].ask \in Ask,
         \/ Shown(r, visit[v])
         \/ r = ToRanges(v) /\ visit[v].page = None
         \/ r = NextLabel(v) /\ visit[v].page = None
  PROVE  r \in VisitRec /\ Recent(r) /\ SdkOk(r, site, now, settled)
<1>1. visit[v] \in VisitRec /\ Recent(visit[v]) /\ now \in Nat
  BY DEF SiteInv, VisitsOk, World
<1>2. CASE Shown(r, visit[v])
  BY <1>2 DEF Shown, SdkOk, SdkPcs
<1>3. CASE r = ToRanges(v) /\ visit[v].page = None
  <2>1. /\ r \in VisitRec /\ r.pc = "ranges" /\ r.since = now /\ r.page = None /\ r.ask = visit[v].ask
        /\ Recent(r)
    BY <1>1, <1>3 DEF ToRanges, Goes, VisitRec, SdkPcs, Recent
  <2>2. QED
    BY <1>1, <2>1, Times DEF SdkOk, SdkPcs
<1>4. CASE r = NextLabel(v) /\ visit[v].page = None
  <2>1. visit[v].label \in Nat /\ visit[v].label + 1 \in Nat /\ visit[v].label + 1 # 0
    BY <1>1 DEF VisitRec
  <2>2. /\ r \in VisitRec /\ r.pc = "labels" /\ r.label = visit[v].label + 1 /\ r.page = None
        /\ r.ask = visit[v].ask /\ Recent(r)
    BY <1>1, <1>4, <2>1 DEF NextLabel, Goes, VisitRec, SdkPcs, Recent
  <2>3. QED
    BY <1>1, <2>1, <2>2, Times DEF SdkOk, SdkPcs
<1>5. QED
  BY <1>2, <1>3, <1>4

\* What a gate knows of a visit before its step.
LEMMA SdkKnows ==
  ASSUME SiteInv, site.gate \in Gates, NEW v \in Visitors
  PROVE  /\ visit[v] \in VisitRec /\ Recent(visit[v]) /\ World
         /\ SdkOk(visit[v], site, now, settled)
         /\ visit[v].pc # "answered" => visit[v].page = None
         /\ visit[v].pc # "idle" => visit[v].ask \in Ask
         /\ site.gate \in Gates => site.failMode \in {"open", "teaser", "closed"}
<1>1. site \in Sites /\ World /\ VisitsOk
  BY DEF SiteInv
<1>2. site.failMode \in {"open", "teaser", "closed"}
  BY <1>1, SitesAssumption DEF Site
<1>3. QED
  BY <1>1, <1>2 DEF VisitsOk, SdkOk

\* A visit that arrives, or is repeated.
LEMMA ArriveKeeps ==
  ASSUME SiteInv, NEW v \in Visitors, Arrive(v)
  PROVE  VisitsOk'
<1>1. site.gate \in Gates /\ site' = site /\ now' = now /\ settled' = settled
  BY DEF Arrive, world, money
<1>2. PICK a \in IF visit[v].pc = "idle" THEN Asks[v] ELSE {visit[v].ask} :
        LET new == [NoVisit EXCEPT !.ask = a, !.good = GoodSession(a)]
        IN  Set(v, CASE ~IsMatched(a) -> [new EXCEPT !.pc = "handler", !.why = "unmatched"]
                     [] IsMatched(a) /\ site.gate.readsBody -> [new EXCEPT !.pc = "body"]
                     [] OTHER -> [new EXCEPT !.pc = "classify"])
  BY DEF Arrive, Set
<1>3. a \in Ask
  BY <1>1, <1>2, AsksAssumption, SdkKnows DEF Arrive, Repeats
<1> DEFINE new == [NoVisit EXCEPT !.ask = a, !.good = GoodSession(a)]
<1>4. /\ new \in VisitRec /\ new.ask = a /\ new.page = None /\ new.why = "none"
      /\ Recent(new) /\ new.good = GoodSession(a)
  <2>1. GoodSession(a) \in BOOLEAN
    BY DEF GoodSession
  <2>2. QED
    BY <1>3, <2>1, NewVisit DEF NoVisit, VisitRec, Recent
<1>5. ASSUME NEW pc \in {"handler", "body", "classify"}, NEW why \in Whys,
             pc = "handler" => why = "unmatched" /\ ~IsMatched(a),
             NEW r, \/ r = [new EXCEPT !.pc = pc, !.why = why]
                    \/ r = [new EXCEPT !.pc = pc] /\ why = "none"
      PROVE  r \in VisitRec /\ Recent(r) /\ SdkOk(r, site, now, settled)
  <2> HIDE DEF new
  <2>1. r \in VisitRec /\ r.pc = pc /\ r.why = why /\ r.ask = a /\ r.page = None
        /\ Recent(r) /\ r.good = GoodSession(a)
    BY <1>4, <1>5 DEF VisitRec, SdkPcs, Recent
  <2>2. None \notin {"content", "stub", "another"}
    BY Times
  <2>3. a.session # None /\ now <= a.session => GoodSession(a)
    <3>1. now \in Nat /\ (a.session # None => a.session \in Nat)
      BY <1>3 DEF SiteInv, World, Ask
    <3>2. QED
      BY <3>1 DEF GoodSession
  <2>4. QED
    BY <1>3, <1>5, <2>1, <2>2, <2>3 DEF SdkOk, SdkPcs, Grounds, IsMatched
<1> HIDE DEF new
<1>7. \E r \in VisitRec : Set(v, r) /\ Recent(r) /\ SdkOk(r, site, now, settled)
  <2>1. CASE ~IsMatched(a)
    BY <1>2, <1>5, <2>1 DEF new, Whys
  <2>2. CASE IsMatched(a) /\ site.gate.readsBody
    BY <1>2, <1>5, <2>2 DEF new, Whys
  <2>3. CASE IsMatched(a) /\ ~site.gate.readsBody
    BY <1>2, <1>5, <2>3 DEF new, Whys
  <2>4. QED
    BY <2>1, <2>2, <2>3
<1>8. QED
  BY <1>1, <1>7, SdkMoves

\* Every step of a gate's visit but its end.
LEMMA DecisionKeeps ==
  ASSUME SiteInv, site.gate \in Gates, NEW v \in Visitors,
         \/ ReadRawBody(v) \/ Classify(v) \/ TryLabel(v) \/ ResolveKeyFails(v) \/ LoadRangesFails(v)
         \/ ResolveKey(v) \/ LoadRanges(v)
  PROVE  VisitsOk'
<1>k. /\ visit[v] \in VisitRec /\ Recent(visit[v]) /\ World
      /\ SdkOk(visit[v], site, now, settled) /\ visit[v].page = None /\ visit[v].ask \in Ask
  BY SdkKnows DEF ReadRawBody, Classify, TryLabel, ResolveKey, ResolveKeyFails, LoadRanges, LoadRangesFails
<1>t. now \in Nat /\ delisted \in [Lists -> Nat \cup {None}] /\ "list" \in Lists /\ Keys \subseteq Lists
  BY <1>k DEF World, Lists
<1>0. site' = site /\ now' = now /\ settled' = settled
  BY DEF ReadRawBody, Classify, TryLabel, ResolveKey, ResolveKeyFails, LoadRanges, LoadRangesFails, world, money
<1>s. /\ visit[v].ask.signatures \in Seq(Label)
      /\ \A i \in 1..Len(visit[v].ask.signatures) : visit[v].ask.signatures[i] \in Label
  BY <1>k DEF Ask
<1>u. ASSUME NEW r, Set(v, r), Shown(r, visit[v]) \/ r = ToRanges(v) \/ r = NextLabel(v)
      PROVE  VisitsOk'
  BY <1>k, <1>u, <1>0, ShownIsOk, SdkMoves
<1>l. ASSUME NEW i \in 1..Len(visit[v].ask.signatures), i = visit[v].label
      PROVE  /\ LabelOf(v) \in Label /\ LabelOf(v).key \in Keys /\ LabelOf(v).expires \in Nat
             /\ delisted[LabelOf(v).key] \in Nat \cup {None} /\ visit[v].asked \in Nat
             /\ LabelOf(v).expires \geq visit[v].asked => Lag(LabelOf(v).expires, visit[v].asked) = 0
  <2>1. LabelOf(v) \in Label
    BY <1>l, <1>s DEF LabelOf
  <2>2. LabelOf(v).key \in Keys /\ LabelOf(v).expires \in Nat /\ visit[v].asked \in Nat
    BY <1>k, <2>1 DEF Label, VisitRec
  <2>3. QED
    BY <1>t, <2>1, <2>2 DEF Lag
<1>1. CASE ReadRawBody(v)
  <2> DEFINE r == Goes(v, "classify")
  <2>1. r \in VisitRec /\ r.pc = "classify" /\ r.page = None /\ r.ask = visit[v].ask /\ Recent(r)
        /\ r.good = visit[v].good
    BY <1>k DEF Goes, VisitRec, SdkPcs, Recent
  <2>2. SdkOk(r, site, now, settled)
    BY <1>k, <1>1, <2>1, Times DEF SdkOk, SdkPcs, ReadRawBody
  <2>3. Set(v, r)
    BY <1>1 DEF ReadRawBody
  <2> HIDE DEF r
  <2>4. QED
    BY <1>0, <2>1, <2>2, <2>3, SdkMoves
<1>2. CASE Classify(v)
  <2>1. CASE /\ visit[v].ask.proof # None \/ visit[v].ask.session # None
             /\ Set(v, Goes(v, "authorize"))
    <3> DEFINE r == Goes(v, "authorize")
    <3>1. r \in VisitRec /\ r.pc = "authorize" /\ r.page = None /\ r.ask = visit[v].ask /\ Recent(r)
          /\ r.good = visit[v].good
      BY <1>k DEF Goes, VisitRec, SdkPcs, Recent
    <3>2. SdkOk(r, site, now, settled)
      BY <1>k, <1>2, <2>1, <3>1, Times DEF SdkOk, SdkPcs, Classify
    <3> HIDE DEF r
    <3>3. QED
      BY <1>0, <2>1, <3>1, <3>2, SdkMoves DEF r
  <2>2. CASE Set(v, [Goes(v, "labels") EXCEPT !.asked = now, !.label = 1])
    <3> DEFINE r == [Goes(v, "labels") EXCEPT !.asked = now, !.label = 1]
    <3>1. r \in VisitRec /\ r.pc = "labels" /\ r.label = 1 /\ r.page = None
          /\ r.ask = visit[v].ask /\ Recent(r)
      BY <1>k, <1>t DEF Goes, VisitRec, SdkPcs, Recent
    <3>2. SdkOk(r, site, now, settled)
      BY <1>k, <3>1, Times DEF SdkOk, SdkPcs
    <3> HIDE DEF r
    <3>3. QED
      BY <1>0, <2>2, <3>1, <3>2, SdkMoves DEF r
  <2>3. CASE Set(v, ByUserAgent(v))
    BY <1>k, <1>u, <2>3, ByUserAgentShown
  <2>4. QED
    BY <1>2, <2>1, <2>2, <2>3 DEF Classify
<1>8. CASE TryLabel(v)
  <2>1. CASE Set(v, ByUserAgent(v))
    BY <1>k, <1>u, <2>1, ByUserAgentShown
  <2>2. CASE Set(v, NextLabel(v))
    BY <1>u, <2>2
  <2>3. ASSUME ~(visit[v].label > Len(visit[v].ask.signatures)),
               ~(LabelOf(v).expires < visit[v].asked)
        PROVE  /\ visit[v].label \in 1..Len(visit[v].ask.signatures)
               /\ LabelOf(v).expires \geq visit[v].asked
    <3>1. visit[v].label \in Nat /\ visit[v].label # 0 /\ Len(visit[v].ask.signatures) \in Nat
      BY <1>k, <1>s, <1>8 DEF VisitRec, SdkOk, TryLabel
    <3>2. visit[v].label \in 1..Len(visit[v].ask.signatures)
      BY <2>3, <3>1
    <3>3. QED
      BY <1>l, <2>3, <3>2
  <2>4. CASE /\ visit[v].label \in 1..Len(visit[v].ask.signatures)
             /\ LabelOf(v).expires \geq visit[v].asked
             /\ KeyKnown(LabelOf(v).key) /\ Set(v, VerifyOne(v, now))
    <3> DEFINE k == LabelOf(v).key
    <3>1. k \in Keys /\ delisted[k] \in Nat \cup {None} /\ Lag(LabelOf(v).expires, visit[v].asked) = 0
      BY <1>l, <2>4
    <3>2. /\ jwks[k] \in Nat /\ jwks[k] > now
          /\ (delisted[k] # None => jwks[k] <= delisted[k] + KeyTTL)
      BY <1>k, <2>4, <3>1 DEF KeyKnown, World, KeyOk
    <3>3. Lag(delisted[k], now) \in Nat /\ Lag(delisted[k], now) < KeyTTL
      BY <1>t, <3>1, <3>2, Times DEF Lag
    <3>4. QED
      BY <1>k, <1>t, <1>u, <2>4, <3>1, <3>3, VerifyOneShown
  <2>5. CASE /\ visit[v].label \in 1..Len(visit[v].ask.signatures)
             /\ LabelOf(v).expires \geq visit[v].asked
             /\ Set(v, [Goes(v, "directory") EXCEPT !.since = now])
    <3> DEFINE r == [Goes(v, "directory") EXCEPT !.since = now]
    <3>1. /\ r \in VisitRec /\ r.pc = "directory" /\ r.since = now /\ r.page = None
          /\ r.ask = visit[v].ask /\ Recent(r) /\ r.label = visit[v].label /\ r.asked = visit[v].asked
      BY <1>k, <1>t DEF Goes, VisitRec, SdkPcs, Recent
    <3>2. r.asked <= r.ask.signatures[r.label].expires
      BY <1>l, <2>5, <3>1 DEF LabelOf
    <3>3. SdkOk(r, site, now, settled)
      BY <1>k, <1>t, <2>5, <3>1, <3>2, Times DEF SdkOk, SdkPcs
    <3> HIDE DEF r
    <3>4. QED
      BY <1>0, <2>5, <3>1, <3>3, SdkMoves DEF r
  <2>6. QED
    BY <1>8, <2>1, <2>2, <2>3, <2>4, <2>5 DEF TryLabel
<1>3. CASE ResolveKeyFails(v)
  BY <1>3, <1>u DEF ResolveKeyFails
<1>4. CASE LoadRangesFails(v)
  <2>1. Set(v, ByRange(v, FALSE, 0))
    BY <1>4 DEF LoadRangesFails
  <2>2. QED
    BY <1>k, <1>u, <2>1, ByRangeShown
<1>5. CASE ResolveKey(v)
  <2>1. PICK listed \in BOOLEAN :
          /\ Shows(v, LabelOf(v).key, listed)
          /\ Set(v, IF listed THEN VerifyOne(v, visit[v].since) ELSE NextLabel(v))
    BY <1>5 DEF ResolveKey
  <2>2. /\ visit[v].since \in Nat /\ visit[v].label \in 1..Len(visit[v].ask.signatures)
        /\ visit[v].asked <= LabelOf(v).expires
    BY <1>5, <1>k DEF ResolveKey, SdkOk, VisitRec, LabelOf
  <2>3. CASE listed
    <3> DEFINE k == LabelOf(v).key
    <3>1. k \in Keys /\ delisted[k] \in Nat \cup {None} /\ Lag(LabelOf(v).expires, visit[v].asked) = 0
      BY <1>l, <2>2
    <3>2. Lag(delisted[k], visit[v].since) = 0
      BY <2>1, <2>2, <2>3, <3>1 DEF Lag, Shows
    <3>3. QED
      BY <1>k, <1>u, <2>1, <2>2, <2>3, <3>1, <3>2, Times, VerifyOneShown
  <2>4. CASE ~listed
    BY <1>u, <2>1, <2>4
  <2>5. QED
    BY <2>3, <2>4
<1>6. CASE LoadRanges(v)
  <2> DEFINE took == now - visit[v].since
  <2>1. PICK listed \in BOOLEAN : Shows(v, "list", listed) /\ Set(v, ByRange(v, listed, took))
    BY <1>6 DEF LoadRanges
  <2>2. visit[v].since \in Nat /\ visit[v].since <= now
    BY <1>6, <1>k DEF LoadRanges, SdkOk, VisitRec
  <2>3. took \in Nat
    BY <1>t, <2>2
  <2>4. listed => Lag(delisted["list"], now) <= RangeTTL + took
    BY <1>t, <2>1, <2>2, Times DEF Lag, Shows
  <2> HIDE DEF took
  <2>5. QED
    BY <1>k, <1>u, <2>1, <2>3, <2>4, ByRangeShown
<1>7. QED
  BY <1>1, <1>2, <1>8, <1>3, <1>4, <1>5, <1>6

\* Every call to the backend.
LEMMA BackendKeeps ==
  ASSUME SiteInv, site.gate \in Gates, NEW v \in Visitors,
         Authorize(v) \/ Settled(v) \/ NotSettled(v) \/ Unreachable(v) \/ Requirements(v)
  PROVE  VisitsOk'
<1>k. /\ visit[v] \in VisitRec /\ Recent(visit[v])
      /\ SdkOk(visit[v], site, now, settled) /\ visit[v].page = None /\ visit[v].ask \in Ask
      /\ site.failMode \in {"open", "teaser", "closed"}
  BY SdkKnows DEF Authorize, Settled, NotSettled, Unreachable, Requirements
<1>0. site' = site /\ now' = now /\ settled' = settled
  BY DEF Authorize, Settled, NotSettled, Unreachable, Requirements, world, money
<1>u. ASSUME NEW r, Set(v, r), Shown(r, visit[v])
      PROVE  VisitsOk'
  BY <1>0, <1>k, <1>u, ShownIsOk, SdkMoves
<1>h. ASSUME NEW why \in Whys, NEW r, NEW failed \in BOOLEAN, Set(v, r),
             \/ r = Handles(v, why) /\ failed = visit[v].failed
             \/ r = [Handles(v, why) EXCEPT !.failed = TRUE] /\ failed = TRUE,
             \/ why = "paid" /\ visit[v].ask.proof \in settled
             \/ why = "verified" /\ visit[v].good
             \/ why = "open" /\ failed /\ site.failMode = "open"
      PROVE  VisitsOk'
  <2>1. /\ r \in VisitRec /\ r.pc = "handler" /\ r.page = None /\ r.ask = visit[v].ask /\ r.why = why
        /\ r.failed = failed /\ Recent(r) /\ r.good = visit[v].good
    BY <1>k, <1>h DEF Handles, VisitRec, SdkPcs, Recent
  <2>2. SdkOk(r, site, now, settled)
    BY <1>k, <1>h, <2>1, Times DEF SdkOk, SdkPcs, Grounds
  <2>3. QED
    BY <1>0, <1>h, <2>1, <2>2, SdkMoves
<1>m. ASSUME Set(v, ApplyFailMode(v))
      PROVE  VisitsOk'
  <2>2. CASE site.failMode = "open"
    BY <1>h, <1>m, <2>2 DEF ApplyFailMode, Whys
  <2>3. ASSUME NEW page \in Pages \ {"content", "stub", "another"},
               Set(v, [Answer(v, page) EXCEPT !.failed = TRUE])
        PROVE  VisitsOk'
    <3> DEFINE a == Answer(v, page)
    <3>1. Shown(a, visit[v])
      BY <1>k, AnswerShown
    <3> HIDE DEF a
    <3>2. Shown([a EXCEPT !.failed = TRUE], visit[v])
      BY <3>1 DEF Shown, VisitRec, Recent
    <3>3. QED
      BY <1>u, <2>3, <3>2 DEF a
  <2>4. QED
    BY <1>k, <1>m, <2>2, <2>3 DEF ApplyFailMode, Pages
<1>1. CASE Authorize(v)
  <2>1. CASE Set(v, Goes(v, "settling"))
    <3> DEFINE r == Goes(v, "settling")
    <3>1. r \in VisitRec /\ r.pc = "settling" /\ r.page = None /\ r.ask = visit[v].ask /\ Recent(r)
      BY <1>k DEF Goes, VisitRec, SdkPcs, Recent
    <3>2. SdkOk(r, site, now, settled)
      BY <1>k, <3>1, Times DEF SdkOk, SdkPcs
    <3> HIDE DEF r
    <3>3. QED
      BY <1>0, <2>1, <3>1, <3>2, SdkMoves DEF r
  <2>2. CASE \E is402 \in BOOLEAN : Set(v, Unauthorized(v, is402))
    BY <1>k, <1>u, <2>2, UnauthorizedShown
  <2>3. CASE visit[v].ask.proof = None /\ visit[v].ask.session >= now /\ Set(v, Handles(v, "verified"))
    <3>0. visit[v].ask.session # None
      BY <1>1, <1>k, <2>3 DEF Authorize, SdkOk
    <3>1. visit[v].good
      <4>1. visit[v].ask.session \in Nat /\ now \in Nat
        BY <1>k, <3>0 DEF Ask, SiteInv, World
      <4>2. QED
        BY <1>1, <1>k, <2>3, <3>0, <4>1 DEF Authorize, SdkOk
    <3>2. visit[v].failed \in BOOLEAN
      BY <1>k DEF VisitRec
    <3>3. QED
      BY <1>h, <2>3, <3>1, <3>2 DEF Whys
  <2>4. CASE Set(v, ApplyFailMode(v))
    BY <1>m, <2>4
  <2>5. QED
    BY <1>1, <2>1, <2>2, <2>3, <2>4 DEF Authorize
<1>2. CASE Settled(v)
  <2>1. visit[v].failed \in BOOLEAN /\ (visit[v].ask.proof \in honoured => visit[v].ask.proof \in settled)
    BY <1>k DEF VisitRec, SiteInv, World
  <2>2. QED
    BY <1>2, <1>h, <2>1 DEF Settled, Whys
<1>3. CASE NotSettled(v)
  BY <1>3, <1>k, <1>u, UnauthorizedShown DEF NotSettled
<1>4. CASE Unreachable(v)
  BY <1>4, <1>m DEF Unreachable
<1>5. CASE Requirements(v)
  <2>1. PICK page \in {"402", "unlock", "teaser"} : Set(v, Answer(v, page))
    BY <1>5 DEF Requirements
  <2>2. QED
    BY <1>k, <1>u, <2>1, AnswerShown DEF Pages
<1>6. QED
  BY <1>1, <1>2, <1>3, <1>4, <1>5

\* The end of a visit.
LEMMA HandlerEnds ==
  ASSUME NEW v \in Visitors, visit[v] \in VisitRec, Recent(visit[v]), visit[v].page = None, NEW r,
         \/ r = AttachPaymentResponse(v, "content")
         \/ r = AttachPaymentResponse(v, "500")
         \/ r = Answer(v, "500")
  PROVE  /\ r \in VisitRec /\ Recent(r) /\ r.pc = "answered" /\ r.page \in {"content", "500"}
         /\ r.ask = visit[v].ask /\ r.why = visit[v].why /\ r.failed = visit[v].failed
         /\ r.good = visit[v].good
<1>1. ASSUME NEW page \in {"content", "500"}
      PROVE  LET a == Answer(v, page) IN
             /\ a \in VisitRec /\ Recent(a) /\ a.pc = "answered" /\ a.page = page
             /\ a.ask = visit[v].ask /\ a.why = visit[v].why /\ a.failed = visit[v].failed
             /\ a.good = visit[v].good
  BY DEF Answer, VisitRec, SdkPcs, Pages, Recent
<1>2. ASSUME NEW page \in {"content", "500"}, r = AttachPaymentResponse(v, page) \/ r = Answer(v, page)
      PROVE  /\ r \in VisitRec /\ Recent(r) /\ r.pc = "answered" /\ r.page = page
             /\ r.ask = visit[v].ask /\ r.why = visit[v].why /\ r.failed = visit[v].failed
         /\ r.good = visit[v].good
  <2> DEFINE a == Answer(v, page)
             b == (visit[v].why = "paid")
  <2>1. /\ a \in VisitRec /\ Recent(a) /\ a.pc = "answered" /\ a.page = page
        /\ a.ask = visit[v].ask /\ a.why = visit[v].why /\ a.failed = visit[v].failed
             /\ a.good = visit[v].good
    BY <1>1
  <2>2. b \in BOOLEAN
    OBVIOUS
  <2>3. r = a \/ r = [a EXCEPT !.receipt = b]
    BY <1>2 DEF AttachPaymentResponse
  <2> HIDE DEF a, b
  <2>4. r \in VisitRec /\ r.pc = a.pc /\ r.page = a.page /\ r.ask = a.ask /\ r.why = a.why
        /\ r.failed = a.failed /\ r.good = a.good /\ Recent(r)
    BY <2>1, <2>2, <2>3 DEF VisitRec, Recent
  <2>5. QED
    BY <2>1, <2>4
<1>3. QED
  BY <1>2

LEMMA SdkEndKeeps ==
  ASSUME SiteInv, site.gate \in Gates, NEW v \in Visitors, Serve(v) \/ HandlerFails(v)
  PROVE  VisitsOk'
<1>1. /\ visit[v] \in VisitRec /\ Recent(visit[v]) /\ SdkOk(visit[v], site, now, settled)
      /\ visit[v].page = None /\ visit[v].ask \in Ask /\ visit[v].pc = "handler"
  BY SdkKnows DEF Serve, HandlerFails
<1>2. PICK r : Set(v, r) /\ \/ r = AttachPaymentResponse(v, "content")
                            \/ r = AttachPaymentResponse(v, "500")
                            \/ r = Answer(v, "500")
  BY DEF Serve, HandlerFails
<1>3. /\ r \in VisitRec /\ Recent(r) /\ r.pc = "answered" /\ r.page \in {"content", "500"}
      /\ r.ask = visit[v].ask /\ r.why = visit[v].why /\ r.failed = visit[v].failed
         /\ r.good = visit[v].good
  BY <1>1, <1>2, HandlerEnds
<1>4. SdkOk(r, site, now, settled)
  BY <1>1, <1>3 DEF SdkOk, SdkPcs, Grounds
<1>5. site' = site /\ now' = now /\ settled' = settled
  BY DEF Serve, HandlerFails, world, money
<1>6. QED
  BY <1>2, <1>3, <1>4, <1>5, SdkMoves

\* At a gate, no visit is ever where the plugin or the script would move it.
LEMMA GateKeeps ==
  ASSUME SiteInv, NEW v \in Visitors, Gate(v), site.gate \in Gates
  PROVE  VisitsOk'
BY DecisionKeeps, BackendKeeps, SdkEndKeeps DEF Gate

\* The caches keep what was so when it was asked.
LEMMA WorldStep ==
  ASSUME SiteInv, [SiteNext]_siteVars
  PROVE  World'
<1>k. World /\ VisitsOk
  BY DEF SiteInv
<1>t. /\ now \in Nat /\ delisted \in [Lists -> Nat \cup {None}] /\ KeyTTL \in Nat /\ None \notin Nat
      /\ jwks \in [Keys -> Nat \cup {None}] /\ "list" \in Lists /\ Keys \subseteq Lists /\ "list" \notin Keys
  BY <1>k, Times, PublisherConstants DEF World, Lists
<1>1. CASE UNCHANGED <<world, ranges, jwks, settled, honoured>>
  BY <1>k, <1>1 DEF World, RangesOk, KeyOk, world
<1>2. CASE SetPaywall
  <2>1. UNCHANGED <<delisted, ranges, jwks, now, settled, honoured>> /\ paywall' = ~paywall
    BY <1>2 DEF SetPaywall, money
  <2>2. QED
    BY <1>k, <2>1 DEF World, RangesOk, KeyOk
<1>3. CASE Tick
  <2>1. now' = now + 1 /\ UNCHANGED <<paywall, delisted, ranges, jwks, settled, honoured>>
    BY <1>3 DEF Tick, money
  <2>2. RangesOk'
    BY <1>k, <1>t, <2>1 DEF World, RangesOk
  <2>3. \A k \in Keys : KeyOk(k)'
    BY <1>k, <1>t, <2>1 DEF World, KeyOk
  <2>4. QED
    BY <1>k, <1>t, <2>1, <2>2, <2>3 DEF World
<1>4. ASSUME NEW x \in Lists, Delist(x)
      PROVE  World'
  <2>1. delisted' = [delisted EXCEPT ![x] = now] /\ delisted[x] = None
        /\ UNCHANGED <<paywall, now, ranges, jwks, settled, honoured>>
    BY <1>4 DEF Delist, money
  <2>2. delisted' \in [Lists -> Nat \cup {None}] /\ delisted'[x] = now
        /\ \A y \in Lists : y # x => delisted'[y] = delisted[y]
    BY <1>t, <2>1
  <2>3. RangesOk'
    <3>1. SUFFICES ASSUME ranges # None
                   PROVE  RangesOk'
      BY <2>1 DEF RangesOk
    <3>2. /\ ranges.fetchedAt \in Nat /\ ranges.took \in Nat /\ ranges.fetchedAt <= now
          /\ ranges \in [listed : BOOLEAN, fetchedAt : Nat, took : Nat]
          /\ ranges.listed /\ delisted["list"] # None => ranges.fetchedAt <= delisted["list"] + ranges.took
      BY <1>k, <3>1 DEF World, RangesOk
    <3>3. CASE x = "list"
      BY <1>t, <2>1, <2>2, <3>2, <3>3 DEF RangesOk
    <3>4. CASE x # "list"
      BY <1>t, <2>1, <2>2, <3>2, <3>4 DEF RangesOk
    <3>5. QED
      BY <3>3, <3>4
  <2>4. ASSUME NEW k \in Keys PROVE KeyOk(k)'
    <3>1. KeyOk(k) /\ k \in Lists
      BY <1>k, <1>t DEF World
    <3>2. CASE x = k
      BY <1>t, <2>1, <2>2, <3>1, <3>2 DEF KeyOk
    <3>3. CASE x # k
      BY <1>t, <2>1, <2>2, <3>1, <3>3 DEF KeyOk
    <3>4. QED
      BY <3>2, <3>3
  <2>5. QED
    BY <1>k, <1>t, <2>1, <2>2, <2>3, <2>4 DEF World
<1>w. ASSUME NEW v \in Visitors, visit[v].pc \in {"directory", "ranges"}
      PROVE  /\ visit[v].since \in Nat /\ visit[v].since <= now
             /\ visit[v].pc = "directory" => LabelOf(v).key \in Keys
  <2>1. site.gate \in Gates
    BY <1>k, <1>w DEF VisitsOk, PluginOk, PluginPcs
  <2>2. visit[v].since \in Nat /\ visit[v].since <= now
    BY <1>w, <2>1, SdkKnows DEF SdkOk, VisitRec
  <2>3. ASSUME visit[v].pc = "directory" PROVE LabelOf(v).key \in Keys
    <3>1. visit[v].ask.signatures \in Seq(Label) /\ visit[v].label \in 1..Len(visit[v].ask.signatures)
      BY <2>1, <2>3, SdkKnows DEF SdkOk, Ask
    <3>2. LabelOf(v) \in Label
      BY <3>1 DEF LabelOf
    <3>3. QED
      BY <3>2 DEF Label
  <2>4. QED
    BY <2>2, <2>3
<1>5. ASSUME NEW v \in Visitors, ResolveKey(v)
      PROVE  World'
  <2> DEFINE key == LabelOf(v).key
  <2>1. PICK listed \in BOOLEAN :
          /\ Shows(v, key, listed)
          /\ jwks' = IF listed THEN [jwks EXCEPT ![key] = visit[v].since + KeyTTL] ELSE jwks
    BY <1>5 DEF ResolveKey
  <2>2. UNCHANGED <<now, paywall, delisted, ranges, settled, honoured>>
    BY <1>5 DEF ResolveKey, world, money
  <2>3. visit[v].since \in Nat /\ visit[v].since <= now /\ key \in Keys
    BY <1>5, <1>w DEF ResolveKey
  <2>4. delisted[key] # None /\ listed => visit[v].since <= delisted[key]
    BY <2>1 DEF Shows
  <2> HIDE DEF key
  <2>5. jwks' \in [Keys -> Nat \cup {None}]
    BY <1>t, <2>1, <2>3
  <2>6. ASSUME NEW k \in Keys PROVE KeyOk(k)'
    <3>1. KeyOk(k) /\ delisted[k] \in Nat \cup {None}
      BY <1>k, <1>t DEF World
    <3>2. CASE listed /\ k = key
      <4>1. jwks'[k] = visit[v].since + KeyTTL
        BY <1>t, <2>1, <2>3, <3>2
      <4>2. QED
        BY <1>t, <2>2, <2>3, <2>4, <3>1, <3>2, <4>1 DEF KeyOk
    <3>3. CASE ~(listed /\ k = key)
      <4>1. jwks'[k] = jwks[k]
        BY <1>t, <2>1, <2>3, <3>3
      <4>2. QED
        BY <2>2, <3>1, <4>1 DEF KeyOk
    <3>4. QED
      BY <3>2, <3>3
  <2>7. QED
    BY <1>k, <2>2, <2>5, <2>6 DEF World, RangesOk
<1>6. ASSUME NEW v \in Visitors, LoadRanges(v)
      PROVE  World'
  <2> DEFINE took == now - visit[v].since
  <2>1. PICK listed \in BOOLEAN :
          Shows(v, "list", listed) /\ ranges' = [listed |-> listed, fetchedAt |-> now, took |-> took]
    BY <1>6 DEF LoadRanges
  <2>2. UNCHANGED <<now, paywall, delisted, jwks, settled, honoured>>
    BY <1>6 DEF LoadRanges, world, money
  <2>3. visit[v].since \in Nat /\ visit[v].since <= now
    BY <1>6, <1>w DEF LoadRanges
  <2>4. took \in Nat /\ (delisted["list"] # None /\ listed => now <= delisted["list"] + took)
    BY <1>t, <2>1, <2>3 DEF Shows
  <2> HIDE DEF took
  <2>5. /\ ranges' \in [listed : BOOLEAN, fetchedAt : Nat, took : Nat] /\ ranges'.fetchedAt = now
        /\ ranges'.listed = listed /\ ranges'.took = took
    BY <1>t, <2>1, <2>4
  <2>6. RangesOk'
    BY <1>t, <2>2, <2>4, <2>5 DEF RangesOk
  <2>7. QED
    BY <1>k, <2>2, <2>6 DEF World, KeyOk
<1>7. CASE UNCHANGED siteVars
  BY <1>1, <1>7 DEF siteVars, vars, world
<1>8. ASSUME NEW v \in Visitors, Gate(v) \/ Arrive(v)
      PROVE  World'
  <2>1. CASE ResolveKey(v) \/ LoadRanges(v)
    BY <1>5, <1>6, <2>1
  <2>2. CASE UNCHANGED <<world, ranges, jwks, settled, honoured>>
    BY <1>1, <2>2
  <2>3. QED
    BY <1>8, <2>1, <2>2 DEF Gate, Arrive, ReadRawBody, Classify, TryLabel, ResolveKeyFails, LoadRangesFails,
         Authorize, Settled, NotSettled, Unreachable, Requirements, Serve, HandlerFails, money
<1>9. ASSUME NEW v \in Visitors, PluginArrive(v) \/ Plugin(v)
      PROVE  World'
  <2>1. UNCHANGED <<world, ranges, jwks, settled, honoured>>
    BY <1>9 DEF PluginArrive, Plugin, Intercept, Hydrate, PostedSettled, Send402, FailOpen, Article, money
  <2>2. QED
    BY <1>1, <2>1
<1>10. ASSUME NEW v \in Visitors, Embed(v)
      PROVE  World'
  <2>1. UNCHANGED <<world, ranges, jwks, settled, honoured>>
    BY <1>10 DEF Embed, EmbedInit, Returning, SolvePoW, VerifyFails, HydrateInject, HydrateFails, Poll,
         vars, world, money
  <2>2. QED
    BY <1>1, <2>1
<1>11. ASSUME NEW p \in Proofs, SettleLands(p) \/ Lapse(p)
      PROVE  World'
  <2>1. UNCHANGED <<world, ranges, jwks>> /\ honoured' \subseteq settled'
    BY <1>k, <1>11 DEF SettleLands, Lapse, World
  <2>2. QED
    BY <1>k, <2>1 DEF World, RangesOk, KeyOk, world
<1>12. QED
  BY <1>2, <1>3, <1>4, <1>7, <1>8, <1>9, <1>10, <1>11 DEF SiteNext, Next

\* What happens around the gate disturbs no visit.
LEMMA AroundKeeps ==
  ASSUME SiteInv,
         \/ SetPaywall \/ Tick \/ (\E x \in Lists : Delist(x))
         \/ (\E p \in Proofs : SettleLands(p) \/ Lapse(p)) \/ UNCHANGED siteVars,
         tab' = tab
  PROVE  VisitsOk'
<1>1. /\ site' = site /\ visit' = visit /\ settled \subseteq settled'
      /\ now' = now \/ now' = now + 1
  BY DEF SetPaywall, Tick, Delist, SettleLands, Lapse, world, money, siteVars, vars
<1>2. VisitsOk /\ now \in Nat
  BY DEF SiteInv, World
<1>3. ASSUME NEW v \in Visitors, site.gate \in Gates
      PROVE  SdkOk(visit[v], site, now', settled')
  <2>1. SdkOk(visit[v], site, now, settled) /\ visit[v].since \in Nat
    BY <1>2, <1>3 DEF VisitsOk, VisitRec
  <2>2. visit[v].pc \in {"directory", "ranges"} => visit[v].since <= now'
    BY <1>1, <1>2, <2>1 DEF SdkOk
  <2>3. ASSUME visit[v].pc \in {"body", "classify", "authorize"}, visit[v].ask.session # None,
               now' <= visit[v].ask.session
        PROVE  visit[v].good
    <3>1. visit[v].ask.session \in Nat
      BY <2>1, <2>3 DEF SdkOk, Ask
    <3>2. now <= visit[v].ask.session
      BY <1>1, <1>2, <2>3, <3>1
    <3>3. QED
      BY <2>1, <2>3, <3>2 DEF SdkOk
  <2>4. QED
    BY <1>1, <2>1, <2>2, <2>3 DEF SdkOk, Grounds
<1>4. ASSUME NEW v \in Visitors, site.gate \notin Gates
      PROVE  PluginOk(visit[v], site, settled', tab[v])
  <2>1. PluginOk(visit[v], site, settled, tab[v])
    BY <1>2, <1>4 DEF VisitsOk
  <2>2. QED
    BY <1>1, <2>1 DEF PluginOk, BodyGrounds
<1>5. QED
  BY <1>1, <1>2, <1>3, <1>4 DEF VisitsOk

-----------------------------------------------------------------------------
(* The plugin and the script. *)

\* What is known of a visit to a site with the plugin.
LEMMA PluginKnows ==
  ASSUME SiteInv, site.gate \notin Gates, NEW v \in Visitors
  PROVE  /\ visit[v] \in VisitRec /\ Recent(visit[v]) /\ tab[v] \in Tab
         /\ PluginOk(visit[v], site, settled, tab[v])
         /\ visit[v].pc # "answered" => visit[v].page = None
         /\ visit[v].pc # "idle" => visit[v].ask \in PluginAsk
BY DEF SiteInv, VisitsOk, PluginOk

\* A step of one visit and its tab that leaves them as they may be.
LEMMA PluginMoves ==
  ASSUME SiteInv, site.gate \notin Gates, NEW v \in Visitors, NEW r \in VisitRec, NEW tb \in Tab,
         visit' = [visit EXCEPT ![v] = r], tab' = [tab EXCEPT ![v] = tb],
         Recent(r), PluginOk(r, site, settled, tb), site' = site, settled' = settled
  PROVE  VisitsOk' /\ tab' \in [Visitors -> Tab]
<1>1. /\ visit' \in [Visitors -> VisitRec] /\ visit'[v] = r
      /\ \A w \in Visitors : w # v => visit'[w] = visit[w]
  BY OneMoves DEF SiteInv, VisitsOk, Set
<1>2. /\ tab' \in [Visitors -> Tab] /\ tab'[v] = tb
      /\ \A w \in Visitors : w # v => tab'[w] = tab[w]
  BY DEF SiteInv
<1>3. \A w \in Visitors : Recent(visit'[w]) /\ PluginOk(visit'[w], site, settled, tab'[w])
  BY <1>1, <1>2 DEF SiteInv, VisitsOk
<1>4. QED
  BY <1>1, <1>2, <1>3 DEF VisitsOk

\* A step of the visit alone ...
LEMMA VisitMoves ==
  ASSUME SiteInv, site.gate \notin Gates, NEW v \in Visitors, NEW r \in VisitRec, Set(v, r),
         Recent(r), PluginOk(r, site, settled, tab[v]), site' = site, settled' = settled, tab' = tab
  PROVE  VisitsOk' /\ tab' \in [Visitors -> Tab]
<1>1. tab[v] \in Tab /\ tab' = [tab EXCEPT ![v] = tab[v]]
  BY DEF SiteInv
<1>2. QED
  BY <1>1, PluginMoves DEF Set

\* ... and of the tab alone, in which a stub is shown.
LEMMA TabMoves ==
  ASSUME SiteInv, site.gate \notin Gates, NEW v \in Visitors, NEW tb \in Tab,
         visit' = visit, tab' = [tab EXCEPT ![v] = tb],
         visit[v].pc = "answered", visit[v].page = "stub",
         tb.token # None => tb.cookie # None,
         tb.cookie # None \/ tb.embed \in {"challenge", "inject"} => ~IsBot(visit[v].ask),
         site' = site, settled' = settled
  PROVE  VisitsOk' /\ tab' \in [Visitors -> Tab]
<1>1. visit[v] \in VisitRec /\ Recent(visit[v]) /\ PluginOk(visit[v], site, settled, tab[v])
  BY PluginKnows
<1>2. visit' = [visit EXCEPT ![v] = visit[v]]
  BY DEF SiteInv, VisitsOk
<1>3. PluginOk(visit[v], site, settled, tb)
  BY <1>1 DEF PluginOk, Bodies
<1>4. QED
  BY <1>1, <1>2, <1>3, PluginMoves

LEMMA PluginArriveKeeps ==
  ASSUME SiteInv, NEW v \in Visitors, PluginArrive(v)
  PROVE  VisitsOk' /\ tab' \in [Visitors -> Tab]
<1>1. site.gate \notin Gates /\ site' = site /\ settled' = settled
  BY PluginIsNoGate DEF PluginArrive, money
<1>2. PICK a \in IF visit[v].pc = "idle" THEN PluginAsks[v] ELSE {visit[v].ask} :
        LET new == [NoVisit EXCEPT !.ask = a]
        IN  Set(v, CASE ~IsProtectedPost(a) -> [new EXCEPT !.pc = "handler", !.why = "unmatched"]
                     [] IsProtectedPost(a) /\ a.surface = "singular" -> [new EXCEPT !.pc = "intercept"]
                     [] OTHER -> [new EXCEPT !.pc = "answered", !.why = "surface", !.page = PublicSurface(a)])
  BY DEF PluginArrive, Set
<1>3. a \in PluginAsk /\ (visit[v].pc # "idle" => a = visit[v].ask)
  BY <1>1, <1>2, PluginAsksAssumption, PluginKnows
<1> DEFINE new == [NoVisit EXCEPT !.ask = a]
           tb == [tab[v] EXCEPT !.embed = "off"]
<1>4. new \in VisitRec /\ new.ask = a /\ new.page = None /\ Recent(new) /\ new.why = "none"
  BY <1>3, NewVisit DEF NoVisit, VisitRec, Recent
<1>5. tb \in Tab /\ tb.token = tab[v].token /\ tb.cookie = tab[v].cookie /\ tb.embed = "off"
  BY <1>1, PluginKnows DEF Tab
<1>6. tab' = [tab EXCEPT ![v] = tb]
  BY DEF PluginArrive
<1>7. (tb.cookie # None => ~IsBot(a)) /\ (tb.token # None => tb.cookie # None)
  BY <1>1, <1>3, <1>5, PluginKnows DEF PluginOk
<1>8. ASSUME NEW r \in VisitRec, Set(v, r), r.ask = a, Recent(r),
             \/ r.pc = "handler" /\ r.why = "unmatched" /\ ~IsProtectedPost(a) /\ r.page = None
             \/ r.pc = "intercept" /\ a.surface = "singular" /\ r.page = None
             \/ r.pc = "answered" /\ r.why = "surface" /\ r.page = PublicSurface(a)
      PROVE  VisitsOk' /\ tab' \in [Visitors -> Tab]
  <2> HIDE DEF tb, new
  <2>1. PluginOk(r, site, settled, tb)
    <3>1. CASE r.pc \in {"handler", "intercept"}
      BY <1>3, <1>5, <1>7, <1>8, <3>1, Times DEF PluginOk, PluginPcs, BodyGrounds, IsProtectedPost, Bodies
    <3>2. CASE r.pc = "answered" /\ r.why = "surface" /\ r.page = PublicSurface(a)
      <4>1. r.page \in Bodies => BodyGrounds(r, site, settled, tb)
        BY <1>8, <3>2 DEF PublicSurface, Bodies, BodyGrounds
      <4>2. QED
        BY <1>3, <1>5, <1>7, <1>8, <3>2, <4>1 DEF PluginOk, PluginPcs
    <3>3. QED
      BY <1>8, <3>1, <3>2
  <2>2. QED
    BY <1>1, <1>5, <1>6, <1>8, <2>1, PluginMoves DEF Set
<1> HIDE DEF new, tb
<1>9. CASE ~IsProtectedPost(a)
  <2>1. Set(v, [new EXCEPT !.pc = "handler", !.why = "unmatched"])
    BY <1>2, <1>9 DEF new
  <2>2. QED
    BY <1>4, <1>8, <1>9, <2>1 DEF VisitRec, PluginPcs, Whys, Recent
<1>10. CASE IsProtectedPost(a) /\ a.surface = "singular"
  <2>1. Set(v, [new EXCEPT !.pc = "intercept"])
    BY <1>2, <1>10 DEF new
  <2>2. QED
    BY <1>4, <1>8, <1>10, <2>1 DEF VisitRec, PluginPcs, Whys, Recent
<1>11. CASE IsProtectedPost(a) /\ a.surface # "singular"
  <2>1. Set(v, [new EXCEPT !.pc = "answered", !.why = "surface", !.page = PublicSurface(a)])
    BY <1>2, <1>11 DEF new
  <2>2. PublicSurface(a) \in Pages
    BY DEF PublicSurface, Pages
  <2>3. QED
    BY <1>4, <1>8, <2>1, <2>2 DEF VisitRec, PluginPcs, Whys, Recent
<1>12. QED
  BY <1>9, <1>10, <1>11

\* The plugin's own steps, and the handler of an unprotected or paused post.
LEMMA PluginKeeps ==
  ASSUME SiteInv, NEW v \in Visitors, site.gate \notin Gates,
         Plugin(v) \/ ((Serve(v) \/ HandlerFails(v)) /\ tab' = tab)
  PROVE  VisitsOk' /\ tab' \in [Visitors -> Tab]
<1>k. /\ visit[v] \in VisitRec /\ Recent(visit[v]) /\ tab[v] \in Tab
      /\ PluginOk(visit[v], site, settled, tab[v]) /\ visit[v].page = None /\ visit[v].ask \in PluginAsk
      /\ visit[v].pc # "idle" /\ visit[v].pc # "answered"
  BY PluginKnows DEF Plugin, Intercept, Hydrate, PostedSettled, Send402, FailOpen, Article, Serve, HandlerFails
<1>0. site' = site /\ settled' = settled /\ tab' = tab
  BY DEF Plugin, Intercept, Hydrate, PostedSettled, Send402, FailOpen, Article, Serve, HandlerFails, money
<1>n. None \notin {"content", "stub", "another"}
  BY Times
<1>a. ASSUME NEW page \in {"402", "stub"}, NEW r, Set(v, r),
             r = Answer(v, page) \/ r = [Answer(v, page) EXCEPT !.failed = TRUE]
      PROVE  VisitsOk' /\ tab' \in [Visitors -> Tab]
  <2> DEFINE a == Answer(v, page)
  <2>1. a \in VisitRec /\ a.pc = "answered" /\ a.page = page /\ a.ask = visit[v].ask /\ Recent(a)
    BY <1>k DEF Answer, VisitRec, SdkPcs, Pages, Recent
  <2>2. r = a \/ r = [a EXCEPT !.failed = TRUE]
    BY <1>a
  <2> HIDE DEF a
  <2>3. r \in VisitRec /\ r.pc = "answered" /\ r.page = page /\ r.ask = visit[v].ask /\ Recent(r)
    BY <2>1, <2>2 DEF VisitRec, Recent
  <2>4. PluginOk(r, site, settled, tab[v])
    BY <1>k, <2>3 DEF PluginOk, PluginPcs, Bodies
  <2>5. QED
    BY <1>0, <1>a, <2>3, <2>4, VisitMoves
<1>g. ASSUME NEW pc \in {"hydrate", "posted"}, Set(v, Goes(v, pc)), visit[v].ask.surface = "singular"
      PROVE  VisitsOk' /\ tab' \in [Visitors -> Tab]
  <2> DEFINE r == Goes(v, pc)
  <2>1. r \in VisitRec /\ r.pc = pc /\ r.page = None /\ r.ask = visit[v].ask /\ Recent(r)
    BY <1>k DEF Goes, VisitRec, PluginPcs, Recent
  <2> HIDE DEF r
  <2>2. PluginOk(r, site, settled, tab[v])
    BY <1>k, <1>g, <1>n, <2>1 DEF PluginOk, PluginPcs, Bodies
  <2>3. QED
    BY <1>0, <1>g, <2>1, <2>2, VisitMoves DEF r
<1>f. ASSUME NEW why \in {"paid", "verified"}, Set(v, Fetches(v, why)), visit[v].ask.surface = "singular",
             why = "paid" => visit[v].ask.proof \in settled,
             why = "verified" => tab[v].cookie # None
      PROVE  VisitsOk' /\ tab' \in [Visitors -> Tab]
  <2> DEFINE r == Fetches(v, why)
  <2>1. r \in VisitRec /\ r.pc = "article" /\ r.page = None /\ r.ask = visit[v].ask /\ r.why = why
        /\ Recent(r)
    BY <1>k DEF Fetches, VisitRec, PluginPcs, Whys, Recent
  <2> HIDE DEF r
  <2>2. PluginOk(r, site, settled, tab[v])
    BY <1>k, <1>f, <1>n, <2>1 DEF PluginOk, PluginPcs, Bodies
  <2>3. QED
    BY <1>0, <1>f, <2>1, <2>2, VisitMoves DEF r
<1>s. visit[v].pc \in {"intercept", "hydrate", "posted", "article"} => visit[v].ask.surface = "singular"
  BY <1>k DEF PluginOk
<1>1. CASE Intercept(v)
  BY <1>1, <1>s, <1>a, <1>g DEF Intercept, FilterTheContent
<1>2. CASE Hydrate(v)
  <2>1. CASE Set(v, Handles(v, "paused"))
    <3> DEFINE r == Handles(v, "paused")
    <3>1. r \in VisitRec /\ r.pc = "handler" /\ r.page = None /\ r.ask = visit[v].ask
          /\ r.why = "paused" /\ Recent(r)
      BY <1>k DEF Handles, VisitRec, PluginPcs, Whys, Recent
    <3>2. visit[v].ask.surface = "singular"
      BY <1>2, <1>s DEF Hydrate
    <3> HIDE DEF r
    <3>3. PluginOk(r, site, settled, tab[v])
      BY <1>k, <1>n, <3>1, <3>2 DEF PluginOk, PluginPcs, BodyGrounds, Bodies
    <3>4. QED
      BY <1>0, <2>1, <3>1, <3>3, VisitMoves DEF r
  <2>2. CASE Set(v, Goes(v, "posted"))
    BY <1>2, <1>s, <1>g, <2>2 DEF Hydrate
  <2>3. CASE Cookie(v) /\ Set(v, Fetches(v, "verified"))
    BY <1>2, <1>s, <1>f, <2>3 DEF Hydrate, Cookie
  <2>4. CASE Set(v, Answer(v, "402"))
    BY <1>a, <2>4
  <2>5. QED
    BY <1>2, <2>1, <2>2, <2>3, <2>4 DEF Hydrate
<1>3. CASE PostedSettled(v)
  <2>1. visit[v].ask.proof \in settled
    BY <1>3 DEF PostedSettled, SiteInv, World
  <2>2. QED
    BY <1>3, <1>s, <1>f, <2>1 DEF PostedSettled
<1>4. CASE Send402(v)
  BY <1>4, <1>a DEF Send402
<1>5. CASE FailOpen(v)
  BY <1>5, <1>a DEF FailOpen, FilterTheContent
<1>6. CASE Article(v) \/ Serve(v) \/ HandlerFails(v)
  <2>1. visit[v].pc \in {"article", "handler"}
    BY <1>6 DEF Article, Serve, HandlerFails
  <2>2. PICK r : Set(v, r) /\ \/ r = AttachPaymentResponse(v, "content")
                              \/ r = AttachPaymentResponse(v, "500")
                              \/ r = Answer(v, "500")
    BY <1>6 DEF Article, Serve, HandlerFails
  <2>3. /\ r \in VisitRec /\ Recent(r) /\ r.pc = "answered" /\ r.page \in {"content", "500"}
        /\ r.ask = visit[v].ask /\ r.why = visit[v].why /\ r.failed = visit[v].failed
         /\ r.good = visit[v].good
    BY <1>k, <2>2, HandlerEnds
  <2>4. PluginOk(r, site, settled, tab[v])
    <3>1. BodyGrounds(visit[v], site, settled, tab[v])
      BY <1>k, <2>1 DEF PluginOk, BodyGrounds
    <3>2. BodyGrounds(r, site, settled, tab[v])
      BY <2>3, <3>1 DEF BodyGrounds
    <3>3. QED
      BY <1>k, <2>3, <3>2 DEF PluginOk, PluginPcs
  <2>5. QED
    BY <1>0, <2>2, <2>3, <2>4, VisitMoves
<1>7. QED
  BY <1>1, <1>2, <1>3, <1>4, <1>5, <1>6 DEF Plugin

\* The script's steps.  At a gate of the SDK no page is its stub.
LEMMA EmbedKeeps ==
  ASSUME SiteInv, NEW v \in Visitors, Embed(v)
  PROVE  VisitsOk' /\ tab' \in [Visitors -> Tab]
<1>1. visit[v].page = "stub" /\ visit[v].pc = "answered"
  BY DEF Embed, EmbedInit, Returning, SolvePoW, VerifyFails, HydrateInject, HydrateFails, Poll, Stage
<1>2. site.gate \notin Gates
  BY <1>1, SdkKnows DEF SdkOk
<1>3. site' = site /\ settled' = settled
  BY DEF Embed, EmbedInit, Returning, SolvePoW, VerifyFails, HydrateInject, HydrateFails, Poll, vars, money
<1>4. visit[v] \in VisitRec /\ Recent(visit[v]) /\ tab[v] \in Tab /\ PluginOk(visit[v], site, settled, tab[v])
  BY <1>2, PluginKnows
<1>5. /\ Detected(visit[v].ask) \in {"poll", "challenge"}
      /\ Detected(visit[v].ask) = "challenge" => ~IsBot(visit[v].ask)
      /\ tab[v].cookie # None \/ tab[v].embed \in {"challenge", "inject"} => ~IsBot(visit[v].ask)
      /\ tab[v].token # None => tab[v].cookie # None
  BY <1>4 DEF Detected, PluginOk
<1>s. ASSUME NEW embed \in {"returning", "retry", "poll"}, visit' = visit,
             tab' = [tab EXCEPT ![v].embed = embed]
      PROVE  VisitsOk' /\ tab' \in [Visitors -> Tab]
  <2> DEFINE tb == [tab[v] EXCEPT !.embed = embed]
  <2>1. tb.token = tab[v].token /\ tb.cookie = tab[v].cookie /\ tb.embed = embed /\ tb \in Tab
    BY <1>4 DEF Tab
  <2>2. tab' = [tab EXCEPT ![v] = tb]
    BY <1>s
  <2> HIDE DEF tb
  <2>3. QED
    BY <1>1, <1>2, <1>3, <1>5, <1>s, <2>1, <2>2, TabMoves
<1>d. ASSUME visit' = visit,
             tab' = [tab EXCEPT ![v] = [@ EXCEPT !.token = None, !.embed = Detected(visit[v].ask)]]
      PROVE  VisitsOk' /\ tab' \in [Visitors -> Tab]
  <2> DEFINE tb == [tab[v] EXCEPT !.token = None, !.embed = Detected(visit[v].ask)]
  <2>1. /\ tb.token = None /\ tb.cookie = tab[v].cookie /\ tb.embed = Detected(visit[v].ask)
        /\ tb \in Tab
    BY <1>4, <1>5 DEF Tab
  <2>2. tab' = [tab EXCEPT ![v] = tb]
    BY <1>d
  <2> HIDE DEF tb
  <2>3. QED
    BY <1>1, <1>2, <1>3, <1>5, <1>d, <2>1, <2>2, TabMoves
<1>i. ASSUME GetSession(v), Inject(v)
      PROVE  VisitsOk' /\ tab' \in [Visitors -> Tab]
  <2> DEFINE r == [visit[v] EXCEPT !.why = "verified", !.page = BodyFor(visit[v].ask)]
             tb == [tab[v] EXCEPT !.embed = "shown"]
  <2>1. /\ r \in VisitRec /\ r.pc = "answered" /\ r.page \in Bodies /\ r.why = "verified"
        /\ r.ask = visit[v].ask /\ Recent(r)
    BY <1>1, <1>4 DEF VisitRec, Whys, Pages, Bodies, BodyFor, Recent
  <2>2. tb.token = tab[v].token /\ tb.cookie = tab[v].cookie /\ tb.embed = "shown" /\ tb \in Tab
    BY <1>4 DEF Tab
  <2>3. visit' = [visit EXCEPT ![v] = r] /\ tab' = [tab EXCEPT ![v] = tb]
    BY <1>i DEF Inject, Set, GotoStage
  <2>4. tab[v].cookie # None
    BY <1>5, <1>i DEF GetSession
  <2> HIDE DEF r, tb
  <2>5. PluginOk(r, site, settled, tb)
    BY <1>1, <1>4, <1>5, <2>1, <2>2, <2>4 DEF PluginOk, PluginPcs, BodyGrounds
  <2>6. QED
    BY <1>2, <1>3, <2>1, <2>2, <2>3, <2>5, PluginMoves
<1>6. CASE EmbedInit(v)
  <2>1. CASE GetSession(v)
    BY <1>6, <1>s, <2>1 DEF EmbedInit, vars
  <2>2. CASE ~GetSession(v)
    BY <1>6, <1>d, <2>2 DEF EmbedInit, vars
  <2>3. QED
    BY <2>1, <2>2
<1>7. CASE Returning(v)
  <2>1. CASE GetSession(v) /\ Inject(v)
    BY <1>i, <2>1
  <2>2. CASE /\ visit' = visit
             /\ tab' = [tab EXCEPT ![v] = [@ EXCEPT !.token = None, !.embed = Detected(visit[v].ask)]]
    BY <1>d, <2>2
  <2>3. CASE visit' = visit /\ GotoStage(v, "retry")
    BY <1>s, <2>3 DEF GotoStage
  <2>4. QED
    BY <1>7, <2>1, <2>2, <2>3 DEF Returning
<1>8. CASE SolvePoW(v)
  <2> DEFINE tb == [SaveSession(v) EXCEPT !.embed = "inject"]
  <2>1. now + SessionTTL \in Nat
    BY Times DEF SiteInv, World
  <2>2. tb \in Tab /\ tb.cookie = now + SessionTTL
    BY <1>4, <2>1 DEF SaveSession, Tab
  <2>3. ~IsBot(visit[v].ask)
    BY <1>5, <1>8 DEF SolvePoW, Stage
  <2>4. tab' = [tab EXCEPT ![v] = tb] /\ visit' = visit
    BY <1>8 DEF SolvePoW, vars
  <2> HIDE DEF tb
  <2>5. tb.cookie # None
    BY <2>1, <2>2, Times
  <2>6. QED
    BY <1>1, <1>2, <1>3, <2>2, <2>3, <2>4, <2>5, TabMoves
<1>9. CASE VerifyFails(v) \/ Poll(v) \/ HydrateFails(v)
  BY <1>9, <1>s DEF VerifyFails, Poll, HydrateFails, GotoStage, vars
<1>10. CASE HydrateInject(v)
  <2>1. CASE paywall /\ GetSession(v) /\ BodyFound(visit[v].ask)
    BY <1>10, <1>i, <2>1 DEF HydrateInject
  <2>2. CASE ~(paywall /\ GetSession(v) /\ BodyFound(visit[v].ask))
    BY <1>10, <1>s, <2>2 DEF HydrateInject, GotoStage
  <2>3. QED
    BY <2>1, <2>2
<1>11. QED
  BY <1>6, <1>7, <1>8, <1>9, <1>10 DEF Embed

-----------------------------------------------------------------------------
(* Every step of a site. *)

\* The plugin takes no step for a gate of the SDK, ...
LEMMA PluginIsElsewhere ==
  ASSUME SiteInv, NEW v \in Visitors, Plugin(v)
  PROVE  site.gate \notin Gates
<1>1. visit[v].pc \in {"intercept", "hydrate", "posted", "article"}
  BY DEF Plugin, Intercept, Hydrate, PostedSettled, Send402, FailOpen, Article
<1>2. QED
  BY <1>1, SdkKnows DEF SdkOk, SdkPcs

\* ... and the SDK none but the handler's for a site with the plugin.
LEMMA GateIsElsewhere ==
  ASSUME SiteInv, NEW v \in Visitors, Gate(v), site.gate \notin Gates
  PROVE  Serve(v) \/ HandlerFails(v)
<1>1. visit[v].pc \in PluginPcs
  BY PluginKnows DEF PluginOk
<1>2. QED
  BY <1>1 DEF Gate, ReadRawBody, Classify, TryLabel, ResolveKey, ResolveKeyFails, LoadRanges, LoadRangesFails,
       Authorize, Settled, NotSettled, Unreachable, Requirements, PluginPcs

LEMMA SiteStep == SiteInv /\ [SiteNext]_siteVars => SiteInv'
<1> SUFFICES ASSUME SiteInv, [SiteNext]_siteVars PROVE SiteInv'
  OBVIOUS
<1>w. World'
  BY WorldStep
<1>t. tab \in [Visitors -> Tab] /\ site \in Sites
  BY DEF SiteInv
<1>s. site' = site
  BY DEF SiteNext, Next, siteVars, vars, SetPaywall, Delist, Tick, SettleLands, Lapse, Arrive, Gate, ReadRawBody,
       Classify, TryLabel, ResolveKey, ResolveKeyFails, LoadRanges, LoadRangesFails, Authorize, Settled, NotSettled,
       Unreachable, Requirements, Serve, HandlerFails, PluginArrive, Plugin, Intercept, Hydrate,
       PostedSettled, Send402, FailOpen, Article, Embed, EmbedInit, Returning, SolvePoW, VerifyFails,
       HydrateInject, HydrateFails, Poll
<1>1. CASE \/ SetPaywall /\ tab' = tab
           \/ Tick /\ tab' = tab
           \/ (\E x \in Lists : Delist(x)) /\ tab' = tab
           \/ (\E p \in Proofs : SettleLands(p) \/ Lapse(p)) /\ tab' = tab
           \/ UNCHANGED siteVars
  <2>1. tab' = tab
    BY <1>1 DEF siteVars
  <2>2. VisitsOk'
    BY <1>1, <2>1, AroundKeeps
  <2>3. QED
    BY <1>w, <1>t, <1>s, <2>1, <2>2 DEF SiteInv
<1>2. ASSUME NEW v \in Visitors, Arrive(v), tab' = tab
      PROVE  SiteInv'
  BY <1>w, <1>t, <1>s, <1>2, ArriveKeeps DEF SiteInv
<1>3. ASSUME NEW v \in Visitors, Gate(v), tab' = tab
      PROVE  SiteInv'
  <2>1. CASE site.gate \in Gates
    BY <1>w, <1>t, <1>s, <1>3, <2>1, GateKeeps DEF SiteInv
  <2>2. CASE site.gate \notin Gates
    BY <1>w, <1>t, <1>s, <1>3, <2>2, GateIsElsewhere, PluginKeeps DEF SiteInv
  <2>3. QED
    BY <2>1, <2>2
<1>4. ASSUME NEW v \in Visitors, PluginArrive(v)
      PROVE  SiteInv'
  BY <1>w, <1>t, <1>s, <1>4, PluginArriveKeeps DEF SiteInv
<1>5. ASSUME NEW v \in Visitors, Plugin(v)
      PROVE  SiteInv'
  BY <1>w, <1>t, <1>s, <1>5, PluginIsElsewhere, PluginKeeps DEF SiteInv
<1>6. ASSUME NEW v \in Visitors, Embed(v)
      PROVE  SiteInv'
  BY <1>w, <1>t, <1>s, <1>6, EmbedKeeps DEF SiteInv
<1>7. QED
  BY <1>1, <1>2, <1>3, <1>4, <1>5, <1>6 DEF SiteNext, Next

\* Whatever the set-up of the site, its visitors, their payments and the faults: what a
\* visit is depends on what happened to it, and the caches keep nothing that was never so
\* (decision.ts, crawlerverify.ts, webbotauth.ts, class-content-gate.php, index.ts).
THEOREM SiteInvariance == SiteSpec => []SiteInv
<1>1. SiteInit => SiteInv
  BY SiteInitial
<1>2. SiteInv /\ [SiteNext]_siteVars => SiteInv'
  BY SiteStep
<1>3. QED
  BY <1>1, <1>2, PTL DEF SiteSpec

\* At every gate of the SDK, the handler runs for a payment that landed, a session that was
\* good when the visit came, an unmatched route, or because the publisher chose to fail open
\* and the backend gave no decision (decision.ts:145-148, client.ts:161).
THEOREM ContentEarned == SiteSpec => []ContentIsEarned
<1>1. SiteInv => ContentIsEarned
  BY DEF SiteInv, VisitsOk, SdkOk, Grounds, ContentIsEarned
<1>2. QED
  BY <1>1, SiteInvariance, PTL

\* However slow the fetches are and however they overlap, a crawler's range is trusted no
\* longer after its end than its cache may keep it and its own fetch took, and an agent's key
\* only if it left its list less than a TTL before it was looked up, for a signature that was
\* good when the labels were first read (crawlerverify.ts:20-21, webbotauth.ts:53-54, 68).
THEOREM IdentityRecent == SiteSpec => []IdentityIsRecent
<1>1. SiteInv => IdentityIsRecent
  BY DEF SiteInv, VisitsOk, Recent, IdentityIsRecent
<1>2. QED
  BY <1>1, SiteInvariance, PTL

\* No page, feed or listing of a WordPress site that the plugin filters, no failure of its
\* backend and no step of the embed script gives the body of a protected post to anyone who
\* did not earn it; the surfaces that it does not filter are named in the property
\* (class-content-gate.php:47-52, 169, 253-256, hydrate.ts:4-6).
THEOREM BodyEarned == SiteSpec => []BodyIsEarned
<1>1. SiteInv => BodyIsEarned
  BY PluginIsNoGate DEF SiteInv, VisitsOk, PluginOk, PluginPcs, BodyGrounds, BodyIsEarned, IsProtectedPost,
       Bodies
<1>2. QED
  BY <1>1, SiteInvariance, PTL
=============================================================================
