---------------------------- MODULE MCPublisher ----------------------------
(* Instances of Publisher and WordPress for TLC. *)
EXTENDS WordPress

CONSTANTS v1, v2, p1, p2, k1, k2

Plain == [proof |-> None, session |-> None, signatures |-> <<>>, agent |-> "browser",
          navigates |-> FALSE, matched |-> TRUE, slug |-> TRUE, body |-> "none"]
Paying(p) == [Plain EXCEPT !.proof = p, !.agent = "bot"]
Sig(k, t, right) == [key |-> k, expires |-> t, right |-> right]
Signing(s) == [Plain EXCEPT !.signatures = s, !.agent = "crawler"]

\* A payer that may be a signed crawler, and everyone else.
EveryAsk == [v \in Visitors |->
  IF v = v1 THEN {Paying(p1), Signing(<<Sig(k1, 2, TRUE)>>)}
  ELSE {[Plain EXCEPT !.session = 1, !.matched = FALSE, !.slug = FALSE],
        [Plain EXCEPT !.session = 1, !.navigates = TRUE], [Paying(p2) EXCEPT !.body = "parsed"],
        Signing(<<Sig(k2, 0, TRUE), Sig(k2, 1, FALSE), Sig(k1, 1, TRUE)>>)}]

\* A site with the plugin, and one with the core's own wrapper and one with a gate of a
\* framework, which differ in all that tells gates apart.
PluginSites ==
  {[gate |-> WordPress, failMode |-> "open", seo |-> TRUE, unlock |-> TRUE, scope |-> "all"]}
EverySite == PluginSites \cup
  {[gate |-> CoreWrap, failMode |-> "teaser", seo |-> TRUE, unlock |-> FALSE],
   [gate |-> ExpressProtect, failMode |-> "open", seo |-> TRUE, unlock |-> TRUE]}

\* Behind the plugin: a payer, and readers and machines of every kind.
Reading == [proof |-> None, agent |-> "browser", navigates |-> TRUE,
            signals |-> {"no_network_info", "no_browser_chrome"}, cookies |-> TRUE, path |-> "flat",
            post |-> "post", surface |-> "singular", editor |-> FALSE]
Machine == [Reading EXCEPT !.agent = "bot", !.navigates = FALSE]
EveryPluginAsk == [v \in Visitors |->
  IF v = v1 THEN {[Machine EXCEPT !.proof = p1]}
  ELSE {Reading, [Reading EXCEPT !.cookies = FALSE], [Reading EXCEPT !.path = "nested"],
        [Reading EXCEPT !.path = "sectioned"],
        [Reading EXCEPT !.signals = {"no_plugins", "headless_screen"}],
        [Machine EXCEPT !.navigates = TRUE], [Machine EXCEPT !.post = "allowlisted"],
        [Machine EXCEPT !.post = "other", !.surface = "rest"], [Machine EXCEPT !.surface = "aside"]}
       \cup {[Machine EXCEPT !.surface = s, !.editor = e] : s \in {"feed", "rest"}, e \in BOOLEAN}]
=============================================================================
