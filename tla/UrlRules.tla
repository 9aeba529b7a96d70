------------------------------ MODULE UrlRules ------------------------------
(***************************************************************************)
(* Which pages the Chrome extension may report, by the rules the user       *)
(* ticked: url_rules.js, shared by the service worker, the popup and the    *)
(* content script.                                                          *)
(*                                                                         *)
(* A url is what these functions tell apart of it: the labels of its host   *)
(* (<<>> when it cannot be parsed), whether it holds a word of              *)
(* SENSITIVE_URL, whether it is a page of YouTube search results, and       *)
(* whether the manifest lets the extension read the page.                   *)
(***************************************************************************)
EXTENDS Sequences, Integers

Url == [host : Seq(STRING), sensitive : BOOLEAN, results : BOOLEAN,
        readable : BOOLEAN]

\* The host is the suffix, or ends in a dot and the suffix.
HostMatchesSuffix(host, suffix) ==
    /\ Len(host) >= Len(suffix)
    /\ SubSeq(host, Len(host) - Len(suffix) + 1, Len(host)) = suffix

IsYoutube(url) == HostMatchesSuffix(url.host, <<"youtube", "com">>)
IsNetflix(url) == HostMatchesSuffix(url.host, <<"netflix", "com">>)
IsNaver(url)   == HostMatchesSuffix(url.host, <<"naver", "com">>)

\* Google's rule takes four hosts and no other subdomain.
IsGoogleSite(url) ==
    url.host \in {<<"google", "com">>, <<"www", "google", "com">>,
                  <<"google", "co", "kr">>, <<"www", "google", "co", "kr">>}

\* SITE_RULES, and the order in which the popup lists them.
SiteRuleOrder == <<"youtube_site", "netflix_site", "google_site", "naver_site">>

SiteRules == {SiteRuleOrder[i] : i \in DOMAIN SiteRuleOrder}

Matches(rule, url) ==
    \/ rule = "youtube_site" /\ IsYoutube(url)
    \/ rule = "netflix_site" /\ IsNetflix(url)
    \/ rule = "google_site"  /\ IsGoogleSite(url)
    \/ rule = "naver_site"   /\ IsNaver(url)

\* An id SITE_RULES does not know allows nothing.
IsUrlAllowedByRules(url, rules) ==
    /\ ~url.sensitive
    /\ \E rule \in rules \cap SiteRules : Matches(rule, url)

\* Settings of the version that listed tab ids: they mean the YouTube rule,
\* unless rules have been chosen since.
MigrateLegacyTabIds(rules, legacy) ==
    IF rules = {} /\ legacy THEN {"youtube_site"} ELSE rules

\* Only a page of search results is searched for links to videos.
IsSearch(url) == IsYoutube(url) /\ url.results
=============================================================================
