------------------------------ MODULE WordPress ------------------------------
(***************************************************************************)
(* The other way to put a site behind the paywall: the WordPress plugin    *)
(* asks the hydration service on the server, and answers a browser's first *)
(* visit with a stub in which the embed script, in the reader's tab,       *)
(* proves a human and fetches the body.                                    *)
(*                                                                         *)
(* It shares with the gates of Publisher the backend, its payments, and    *)
(* the visits; a request of PHP keeps no state of its own behind.          *)
(***************************************************************************)
EXTENDS Publisher, FiniteSetsExt

CONSTANTS
  PluginAsks,   \* PluginAsks[v]: the requests that v may make of such a site
  SessionTTL    \* of the token that verify-human issues, and of its cookie
ASSUME SessionAssumption == SessionTTL \in Nat

VARIABLE tab   \* the tab of each visitor: its stored token, the cookie with its last one,
               \* and what the embed script does
siteVars == <<vars, tab>>

\* A site with the plugin, and what it protects.
WordPress == [filters |-> TRUE, readsBody |-> FALSE, teasesEarly |-> FALSE, receipt |-> "themed"]
Scopes == {"all", "posts", "pages", "posts_pages", "custom"}

\* What the script finds in a browser, and what it thinks of it.
SignalScore ==
  [webdriver |-> 100, bot_ua |-> 100, phantom |-> 100, nightmare |-> 100, no_languages |-> 40,
   chrome_no_runtime |-> 45, no_plugins |-> 30, no_cpu_cores |-> 30, headless_screen |-> 25,
   no_browser_chrome |-> 20, no_permissions_api |-> 15, no_network_info |-> 10]
CalcBotScore(signals) == MapThenSumSet(LAMBDA s : SignalScore[s], signals)
IsBot(a) == CalcBotScore(a.signals) >= 50

PluginAsk == [proof : Proofs \cup {None}, agent : {"bot", "crawler", "browser"}, navigates : BOOLEAN,
              signals : SUBSET DOMAIN SignalScore,
              cookies : BOOLEAN,      \* the browser keeps the cookie of the script
              post : {"post", "page", "custom", "other", "front", "allowlisted"},
              path : {"flat", "nested", "sectioned"},  \* its first segment: the post's own
                                      \* name, no post's, or that of another one
              surface : {"singular", "listing", "aside", "feed", "rest", "oembed"},
              editor : BOOLEAN]       \* the caller may edit the post

ASSUME PluginAsksAssumption == PluginAsks \in [Visitors -> SUBSET PluginAsk]

SiteInit ==
  /\ Init
  /\ tab = [v \in Visitors |-> [token |-> None, cookie |-> None, embed |-> "off"]]

-----------------------------------------------------------------------------
(* The plugin. *)

ShouldGateArticle(scope, post) ==
  CASE scope = "all" -> post \notin {"front", "allowlisted"}
    [] scope = "posts" -> post = "post"
    [] scope = "pages" -> post = "page"
    [] scope = "posts_pages" -> post \in {"post", "page"}
    [] scope = "custom" -> post = "custom"

IsProtectedPost(a) == ShouldGateArticle(site.scope, a.post)

\* A plausible mistake: only the pages of the site withhold the body.
UnfilteredFeed(a) == IF a.surface \in {"feed", "rest"} THEN "content" ELSE "teaser"

\* Lists, feeds, the REST API and embeds of a protected post are filtered, but not a list
\* outside the main loop ("aside"), and the REST API for its editors or of a type that
\* is neither post, page nor one of the configured ones ("other").
PublicSurface(a) ==
  IF \/ a.surface = "aside"
     \/ a.surface = "rest" /\ (a.editor \/ a.post = "other")
  THEN "content" ELSE "teaser"

\* A payer repeats what brought no content; a reader reloads what the script gave up.
Reader(a) == a.agent = "browser" /\ a.navigates /\ a.proof = None /\ a.surface = "singular"
Bodies == {"content", "another"}
Reloads(v) ==
  /\ visit[v].pc = "answered" /\ visit[v].page \notin Bodies /\ Reader(visit[v].ask)
  /\ visit[v].page = "stub" => tab[v].embed \in {"retry", "poll"}

PluginArrive(v) ==
  /\ site.gate = WordPress
  /\ visit[v].pc = "idle" \/ Repeats(v) \/ Reloads(v)
  /\ \E a \in IF visit[v].pc = "idle" THEN PluginAsks[v] ELSE {visit[v].ask} :
       LET new == [NoVisit EXCEPT !.ask = a]
       IN  visit' = [visit EXCEPT ![v] =
             CASE ~IsProtectedPost(a) -> [new EXCEPT !.pc = "handler", !.why = "unmatched"]
               [] IsProtectedPost(a) /\ a.surface = "singular" -> [new EXCEPT !.pc = "intercept"]
               [] OTHER -> [new EXCEPT !.pc = "answered", !.why = "surface", !.page = PublicSurface(a)]]
  /\ tab' = [tab EXCEPT ![v].embed = "off"]
  /\ UNCHANGED <<site, world, ranges, jwks, money, faults>>

\* Agents that must pay whatever headers they send.
IsKnownAgent(a) == a.agent = "bot"
GetSession(v) == tab[v].token # None /\ now <= tab[v].token
SaveSession(v) == [tab[v] EXCEPT !.token = now + SessionTTL, !.cookie = now + SessionTTL]
Cookie(v) == visit[v].ask.cookies /\ tab[v].cookie # None /\ now <= tab[v].cookie

\* The page as WordPress renders it: as nobody was verified, its body is withheld.
FilterTheContent(v) == Answer(v, "stub")

\* The first navigation of a browser is let through, to the stub.
Intercept(v) ==
  /\ visit[v].pc = "intercept"
  /\ LET a == visit[v].ask IN
       Set(v, IF a.proof = None /\ ~Cookie(v) /\ a.navigates /\ ~IsKnownAgent(a)
              THEN FilterTheContent(v) ELSE Goes(v, "hydrate"))
  /\ UNCHANGED <<site, world, ranges, jwks, money, faults, tab>>

\* Let through by it, for a reason.
Fetches(v, why) == [visit[v] EXCEPT !.pc = "article", !.why = why]

\* The hydration service decides; whatever it answers with a 200 is verified, and so
\* is a site that is paused.
Hydrate(v) ==
  /\ visit[v].pc = "hydrate"
  /\ LET p == visit[v].ask.proof IN
       \/ /\ ~paywall
          /\ Set(v, Handles(v, "paused")) /\ UNCHANGED settling
       \/ /\ paywall /\ p # None
          /\ Set(v, Goes(v, "posted"))
          /\ settling' = settling \cup ({p} \ (BadProofs \cup settled))
       \/ /\ paywall /\ p = None
          /\ Set(v, IF Cookie(v) THEN Fetches(v, "verified") ELSE Answer(v, "402"))
          /\ UNCHANGED settling
  /\ UNCHANGED <<site, world, ranges, jwks, settled, honoured, faults, tab>>

PostedSettled(v) ==
  /\ visit[v].pc = "posted" /\ visit[v].ask.proof \in honoured
  /\ Set(v, Fetches(v, "paid"))
  /\ UNCHANGED <<site, world, ranges, jwks, money, faults, tab>>

\* Refused, not settled in time, or settled when the body cannot be fetched.
Send402(v) ==
  /\ \/ visit[v].pc = "posted" /\ Refused(visit[v].ask.proof) /\ UNCHANGED faults
     \/ visit[v].pc \in {"posted", "article"} /\ Fault
  /\ Set(v, Answer(v, "402"))
  /\ UNCHANGED <<site, world, ranges, jwks, money, tab>>

\* The hydration service does not answer in time, or knows no such site.
FailOpen(v) ==
  /\ visit[v].pc \in {"hydrate", "posted", "article"} /\ Fault
  /\ Set(v, [FilterTheContent(v) EXCEPT !.failed = TRUE])
  /\ UNCHANGED <<site, world, ranges, jwks, money, tab>>

\* Its body, that the hydration service reads from the plugin's own endpoint.
Article(v) ==
  /\ visit[v].pc = "article"
  /\ Set(v, AttachPaymentResponse(v, "content"))
  /\ UNCHANGED <<site, world, ranges, jwks, money, faults, tab>>

Plugin(v) ==
  Intercept(v) \/ Hydrate(v) \/ PostedSettled(v) \/ Send402(v) \/ FailOpen(v) \/ Article(v)

-----------------------------------------------------------------------------
(* The embed script, in the tab of a browser that shows a stub. *)

Stage(v, embed) == tab[v].embed = embed /\ visit[v].page = "stub" /\ visit[v].pc = "answered"
GotoStage(v, embed) == tab' = [tab EXCEPT ![v].embed = embed]
Detected(a) == IF IsBot(a) THEN "poll" ELSE "challenge"

\* The script asks for the first segment of its path, where the plugin asks for the name
\* of the post; no body is found for a segment that is no post's.
BodyFound(a) == a.path # "nested"
BodyFor(a) == IF a.path = "sectioned" THEN "another" ELSE "content"

\* The answer of the hydration service to the token: a body.
Inject(v) ==
  /\ Set(v, [visit[v] EXCEPT !.why = "verified", !.page = BodyFor(visit[v].ask)])
  /\ GotoStage(v, "shown")

EmbedInit(v) ==
  /\ Stage(v, "off") /\ visit[v].ask.agent = "browser"
  /\ tab' = [tab EXCEPT ![v] =
       IF GetSession(v) THEN [@ EXCEPT !.embed = "returning"]
       ELSE [@ EXCEPT !.token = None, !.embed = Detected(visit[v].ask)]]
  /\ UNCHANGED vars

\* A plausible mistake: a rejected token is the end of it.
ReturningGivesUp(v) ==
  /\ Stage(v, "returning")
  /\ IF paywall /\ GetSession(v) /\ BodyFound(visit[v].ask) THEN Inject(v)
     ELSE GotoStage(v, IF paywall THEN "shown" ELSE "retry") /\ UNCHANGED visit
  /\ UNCHANGED <<site, world, ranges, jwks, money, faults>>

\* A stored token, which is dropped when it is rejected, or when the body cannot be
\* fetched; a paused site answers without a body.
Returning(v) ==
  /\ Stage(v, "returning")
  /\ \/ paywall /\ GetSession(v) /\ BodyFound(visit[v].ask) /\ Inject(v) /\ UNCHANGED faults
     \/ /\ paywall
        /\ \/ ~(GetSession(v) /\ BodyFound(visit[v].ask)) /\ UNCHANGED faults
           \/ Fault
        /\ tab' = [tab EXCEPT ![v] = [@ EXCEPT !.token = None, !.embed = Detected(visit[v].ask)]]
        /\ UNCHANGED visit
     \/ ~paywall /\ GotoStage(v, "retry") /\ UNCHANGED <<visit, faults>>
  /\ UNCHANGED <<site, world, ranges, jwks, money>>

\* A challenge, its proof of work within the budget, and the token for it.
SolvePoW(v) ==
  /\ Stage(v, "challenge")
  /\ tab' = [tab EXCEPT ![v] = [SaveSession(v) EXCEPT !.embed = "inject"]]
  /\ UNCHANGED vars

VerifyFails(v) ==
  /\ Stage(v, "challenge") /\ Fault
  /\ GotoStage(v, "poll")
  /\ UNCHANGED <<site, world, ranges, jwks, visit, money>>

HydrateInject(v) ==
  /\ Stage(v, "inject")
  /\ IF paywall /\ GetSession(v) /\ BodyFound(visit[v].ask) THEN Inject(v)
     ELSE GotoStage(v, "retry") /\ UNCHANGED visit
  /\ UNCHANGED <<site, world, ranges, jwks, money, faults>>

HydrateFails(v) ==
  /\ Stage(v, "inject") \/ Stage(v, "returning")
  /\ Fault
  /\ GotoStage(v, "retry")
  /\ UNCHANGED <<site, world, ranges, jwks, visit, money>>

\* The overlay asks again, without payment or token, until it is let through: that is
\* when the site is paused, and there is no body in the answer.
Poll(v) ==
  /\ Stage(v, "poll") /\ ~paywall
  /\ GotoStage(v, "retry")
  /\ UNCHANGED vars

Embed(v) ==
  \/ EmbedInit(v) \/ Returning(v) \/ SolvePoW(v) \/ VerifyFails(v) \/ HydrateInject(v)
  \/ HydrateFails(v) \/ Poll(v)

Step(v) ==
  \/ Arrive(v) /\ UNCHANGED tab
  \/ Gate(v) /\ UNCHANGED tab
  \/ PluginArrive(v) \/ Plugin(v) \/ Embed(v)

SiteNext ==
  \/ Next /\ UNCHANGED tab
  \/ \E v \in Visitors : PluginArrive(v) \/ Plugin(v) \/ Embed(v)

\* Payments that were sent land, a gate and a script go on, and payers and readers repeat
\* their requests.
SiteFairness ==
  /\ \A p \in Proofs \ BadProofs : WF_siteVars(SettleLands(p) /\ UNCHANGED tab)
  /\ \A v \in Visitors : WF_siteVars(Step(v))

SiteSpec == SiteInit /\ [][SiteNext]_siteVars /\ SiteFairness

-----------------------------------------------------------------------------
(* Properties. *)

\* Whatever surface of the site is asked and whatever fails, the body of a protected
\* post leaves it for an editor, a payment that landed, a token that a human's proof
\* of work was given, or because the backend said that the site is paused; but for
\* two surfaces that the plugin does not filter, lists outside the main loop and the
\* REST API of types that it does not list (class-content-gate.php:47-52, 169, 253-256,
\* hydrate.ts:4-6).
BodyIsEarned ==
  \A v \in Visitors : site.gate = WordPress /\ visit[v].page \in Bodies =>
    \/ visit[v].why = "unmatched" /\ ~IsProtectedPost(visit[v].ask)
    \/ visit[v].why = "surface" /\ visit[v].ask.surface = "rest" /\ visit[v].ask.editor
    \/ visit[v].why = "surface" /\ visit[v].ask.surface = "rest" /\ visit[v].ask.post = "other"
    \/ visit[v].why = "surface" /\ visit[v].ask.surface = "aside"
    \/ visit[v].why = "paid" /\ visit[v].ask.proof \in settled
    \/ visit[v].why = "verified" /\ tab[v].cookie # None /\ ~IsBot(visit[v].ask)
    \/ visit[v].why = "paused" /\ visit[v].ask.surface = "singular"

\* A human reads the post in the end, reloading where the script says so: lost answers,
\* a token that expires between the plugin's page and the script, a cookie that is
\* blocked, or a path that the script cannot name do not lock anybody out.  Left out are
\* those without the cookie where the script gets no body (the site is paused, or the
\* path is nested), and those whose path names another post (index.ts:34, 36-60).
IsHuman(v) ==
  site.gate = WordPress /\ visit[v].ask # None /\ Reader(visit[v].ask) /\ ~IsBot(visit[v].ask)
LeftOut(v) ==
  /\ IsHuman(v)
  /\ \/ visit[v].ask.path = "sectioned"
     \/ ~visit[v].ask.cookies /\ (~paywall \/ ~BodyFound(visit[v].ask))
HumanReads == \A v \in Visitors : IsHuman(v) ~> (visit[v].page = "content" \/ LeftOut(v))
=============================================================================
