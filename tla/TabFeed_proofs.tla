--------------------------- MODULE TabFeed_proofs ---------------------------
(***************************************************************************)
(* Proofs about TabFeed, for any number of handlers and tabs, any pages,    *)
(* rules and settings, and any bounds on what the user does.                *)
(***************************************************************************)
EXTENDS TabFeed, TLAPS

\* The locals of a handler.
Locals == [at : Awaits, rules : SUBSET Rules, found : SUBSET Rules,
           todo : SUBSET Tabs, tab : Tabs \cup {None},
           url : Pages \cup {None}, text : Pages \cup {None},
           tries : 0 .. Tries - 1, port : Ports \cup {NoPort}, token : Tokens]

Stored == [rules : SUBSET Rules, legacy : BOOLEAN,
           port : Ports \cup {NoPort}, token : Tokens]

Used == [visits : 0 .. MaxVisits, saves : 0 .. MaxSaves, stops : 0 .. MaxStops]

LEMMA IdleType == Idle \in Locals
<1>1. "idle" \in Awaits /\ 0 \in 0 .. Tries - 1 /\ NoToken \in Tokens
  BY TabFeedAssumption DEF Awaits, Tries, TabFeedAssumption
<1> QED
  BY <1>1 DEF Idle, Locals

LEMMA InForceType == ASSUME TypeOK PROVE InForce \subseteq Rules
<1>1. store.rules \subseteq Rules /\ "youtube_site" \in Rules
  BY TabFeedAssumption DEF TypeOK, TabFeedAssumption
<1> QED
  BY <1>1 DEF InForce, MigrateLegacyTabIds

\* The history of a step has its type.
LEMMA RememberType ==
    ASSUME TypeOK, page' \in [Tabs -> Pages \cup {None}], Remember
    PROVE  allowed' \in [Jobs -> SUBSET Pages] /\ visited' \in [Tabs -> SUBSET Pages]
<1>1. \A t \in Tabs : visited[t] \cup ({page'[t]} \ {None}) \subseteq Pages
  BY DEF TypeOK
<1>2. \A j \in Jobs : allowed[j] \cup {p \in Pages : Allowed(p, InForce')} \subseteq Pages
  BY DEF TypeOK
<1>3. visited' \in [Tabs -> SUBSET Pages]
  BY <1>1 DEF Remember
<1>4. allowed' \in [Jobs -> SUBSET Pages]
  BY <1>2 DEF Remember
<1> QED
  BY <1>3, <1>4

LEMMA SpendType ==
    ASSUME TypeOK,
           \/ Spend("visits", MaxVisits) \/ Spend("saves", MaxSaves)
           \/ Spend("stops", MaxStops) \/ UNCHANGED spent
    PROVE  spent' \in Used
<1> USE DEF TypeOK, Used
<1>0. MaxVisits \in Nat /\ MaxSaves \in Nat /\ MaxStops \in Nat
  BY TabFeedAssumption DEF TabFeedAssumption
<1>1. CASE Spend("visits", MaxVisits) BY <1>0, <1>1 DEF Spend
<1>2. CASE Spend("saves", MaxSaves) BY <1>0, <1>2 DEF Spend
<1>3. CASE Spend("stops", MaxStops) BY <1>0, <1>3 DEF Spend
<1>4. CASE UNCHANGED spent BY <1>4
<1> QED BY <1>1, <1>2, <1>3, <1>4
-----------------------------------------------------------------------------
(***************************************************************************)
(* Where a step of a handler leads.                                         *)
(***************************************************************************)

\* The awaits at which a handler has the rules it goes by, those at which it
\* has a tab, and those at which it has judged what the tab shows.
Ruled  == {"query", "address", "remigrate", "tab", "text", "links", "post"}
Tabbed == Ruled \ {"query"}
Judged == {"text", "links", "post"}

AllowedPages(rules) == {p \in Pages : Allowed(p, rules)}

\* Locals l fit a handler that may report the pages G: the rules it goes by or
\* is about to, and the address it has judged, are within G.
Fits(l, G) ==
    /\ l.at = "migrate" => AllowedPages(l.found) \subseteq G
    /\ l.at \in Ruled => AllowedPages(l.rules) \subseteq G
    /\ l.at \in Tabbed => l.tab \in Tabs
    /\ l.at \in Judged => l.url \in G /\ l.url \in Pages

\* It has seen the address of the tab it is about to report.
Seen(l) == l.at \in Judged => l.url \in visited[l.tab]

LEMMA IdleFits == ASSUME NEW G PROVE Fits(Idle, G) /\ Seen(Idle)
BY DEF Fits, Seen, Idle, Ruled, Tabbed, Judged

LEMMA ToNextTabLeads ==
    ASSUME NEW j \in Jobs, NEW G,
           NEW rules \in SUBSET Rules, AllowedPages(rules) \subseteq G,
           NEW todo \in SUBSET Tabs, ToNextTab(j, rules, todo)
    PROVE  \E l \in Locals : Goes(j, l) /\ Fits(l, G) /\ Seen(l)
<1>1. CASE todo = {} /\ Goes(j, Idle)
  BY <1>1, IdleType, IdleFits
<1>2. ASSUME NEW t \in todo,
             Goes(j, [Idle EXCEPT !.at = "address", !.rules = rules, !.tab = t,
                                  !.todo = todo \ {t}])
      PROVE  \E l \in Locals : Goes(j, l) /\ Fits(l, G) /\ Seen(l)
  <2> DEFINE l == [Idle EXCEPT !.at = "address", !.rules = rules, !.tab = t,
                               !.todo = todo \ {t}]
  <2>1. l.at = "address" /\ l.rules = rules /\ l.tab = t
    BY DEF Idle
  <2>2. l \in Locals
    BY IdleType DEF Locals, Idle, Awaits
  <2> HIDE DEF l
  <2>3. Fits(l, G) /\ Seen(l)
    BY <2>1 DEF Fits, Seen, Ruled, Tabbed, Judged
  <2>4. Goes(j, l)
    BY <1>2 DEF l
  <2> QED
    BY <2>2, <2>3, <2>4
<1> QED
  BY <1>1, <1>2 DEF ToNextTab

LEMMA WithRulesLeads ==
    ASSUME TypeOK, NEW j \in Jobs, NEW G,
           NEW rules \in SUBSET Rules, AllowedPages(rules) \subseteq G,
           WithRules(j, rules)
    PROVE  \E l \in Locals : Goes(j, l) /\ Fits(l, G) /\ Seen(l)
<1>1. CASE job[j].tab = None /\ rules = {}
  BY <1>1, IdleType, IdleFits DEF WithRules
<1>2. CASE job[j].tab = None /\ rules # {}
  <2> DEFINE l == [Idle EXCEPT !.at = "query", !.rules = rules]
  <2>1. l.at = "query" /\ l.rules = rules
    BY DEF Idle
  <2>2. l \in Locals
    BY IdleType DEF Locals, Idle, Awaits
  <2>3. Goes(j, l)
    BY <1>2 DEF WithRules
  <2> HIDE DEF l
  <2>4. Fits(l, G) /\ Seen(l)
    BY <2>1 DEF Fits, Seen, Ruled, Tabbed, Judged
  <2> QED
    BY <2>2, <2>3, <2>4
<1>3. CASE job[j].tab # None
  <2>1. job[j].tab \in Tabs
    BY <1>3 DEF TypeOK
  <2>2. {t \in {job[j].tab} : Allowed(job[j].url, rules)} \in SUBSET Tabs
    BY <2>1
  <2>3. ToNextTab(j, rules, {t \in {job[j].tab} : Allowed(job[j].url, rules)})
    BY <1>3 DEF WithRules
  <2> QED
    BY <2>2, <2>3, ToNextTabLeads
<1> QED
  BY <1>1, <1>2, <1>3

\* What is in force when a step is taken.
MayReport(j) == allowed[j] \cup AllowedPages(InForce')

\* The handlers' invariant.
JobsInv == \A j \in Jobs : Fits(job[j], allowed[j]) /\ Seen(job[j])

TabsInv == \A t \in Tabs : page[t] \in visited[t] \cup {None}

LEMMA ReadRulesLeads ==
    ASSUME TypeOK, NEW j \in Jobs, ReadRules(j)
    PROVE  \E l \in Locals : Goes(j, l) /\ Fits(l, MayReport(j)) /\ Seen(l)
<1>1. InForce' = InForce /\ AllowedPages(InForce) \subseteq MayReport(j)
  BY DEF ReadRules, InForce, MayReport
<1>2. CASE store.legacy
  <2> DEFINE l == [job[j] EXCEPT !.at = "migrate", !.found = InForce]
  <2>0. job[j] \in Locals /\ InForce \in SUBSET Rules
    BY InForceType DEF TypeOK, Locals
  <2>1. l.at = "migrate" /\ l.found = InForce
    BY <2>0 DEF Locals
  <2>2. l \in Locals
    BY <2>0 DEF Locals, Awaits
  <2>3. Goes(j, l)
    BY <1>2 DEF ReadRules
  <2> HIDE DEF l
  <2>4. Fits(l, MayReport(j)) /\ Seen(l)
    BY <1>1, <2>1 DEF Fits, Seen, Ruled, Tabbed, Judged
  <2> QED
    BY <2>2, <2>3, <2>4
<1>3. CASE ~store.legacy
  <2>1. InForce = store.rules /\ store.rules \in SUBSET Rules
    BY <1>3 DEF InForce, MigrateLegacyTabIds, TypeOK
  <2>2. WithRules(j, store.rules)
    BY <1>3 DEF ReadRules
  <2> QED
    BY <1>1, <2>1, <2>2, WithRulesLeads
<1> QED
  BY <1>2, <1>3

LEMMA ReadAddressLeads ==
    ASSUME TypeOK, JobsInv, NEW j \in Jobs, ReadAddress(j)
    PROVE  \E l \in Locals : Goes(j, l) /\ Fits(l, MayReport(j)) /\ Seen(l)
<1> DEFINE l == [job[j] EXCEPT !.token = store.token,
                    !.port = IF store.port = NoPort THEN DefaultPort ELSE store.port,
                    !.at = IF store.legacy THEN "remigrate" ELSE "tab",
                    !.found = IF store.legacy THEN InForce ELSE {}]
<1>1. job[j] \in Locals /\ job[j].at = "address"
  BY DEF ReadAddress, TypeOK, Locals
<1>2. /\ store.token \in Tokens
      /\ (IF store.port = NoPort THEN DefaultPort ELSE store.port) \in Ports \cup {NoPort}
      /\ (IF store.legacy THEN "remigrate" ELSE "tab") \in Awaits
      /\ (IF store.legacy THEN InForce ELSE {}) \subseteq Rules
  BY InForceType, TabFeedAssumption DEF TypeOK, Awaits, TabFeedAssumption
<1>3. /\ l.at \in {"remigrate", "tab"} /\ l.rules = job[j].rules /\ l.tab = job[j].tab
      /\ l \in Locals
  BY <1>1, <1>2 DEF Locals
<1>4. Goes(j, l)
  BY DEF ReadAddress
<1> HIDE DEF l
<1>5. AllowedPages(job[j].rules) \subseteq MayReport(j) /\ job[j].tab \in Tabs
  BY <1>1 DEF JobsInv, Fits, MayReport, Ruled, Tabbed
<1>6. Fits(l, MayReport(j)) /\ Seen(l)
  BY <1>3, <1>5 DEF Fits, Seen, Ruled, Tabbed, Judged
<1> QED
  BY <1>3, <1>4, <1>6

LEMMA MigrateLeads ==
    ASSUME TypeOK, JobsInv, NEW j \in Jobs, Migrate(j)
    PROVE  \E l \in Locals : Goes(j, l) /\ Fits(l, MayReport(j)) /\ Seen(l)
<1>1. job[j] \in Locals
  BY DEF TypeOK, Locals
<1>2. CASE job[j].at = "migrate" /\ WithRules(j, job[j].found)
  <2>1. job[j].found \in SUBSET Rules
    BY <1>1 DEF Locals
  <2>2. AllowedPages(job[j].found) \subseteq MayReport(j)
    BY <1>2 DEF JobsInv, Fits, MayReport
  <2> QED
    BY <1>2, <2>1, <2>2, WithRulesLeads
<1>3. CASE /\ job[j].at = "remigrate"
           /\ Goes(j, [job[j] EXCEPT !.at = "tab", !.found = {}])
  <2> DEFINE l == [job[j] EXCEPT !.at = "tab", !.found = {}]
  <2>1. l.at = "tab" /\ l.rules = job[j].rules /\ l.tab = job[j].tab /\ l \in Locals
    BY <1>1 DEF Locals, Awaits
  <2>2. Goes(j, l)
    BY <1>3
  <2> HIDE DEF l
  <2>3. AllowedPages(job[j].rules) \subseteq MayReport(j) /\ job[j].tab \in Tabs
    BY <1>3 DEF JobsInv, Fits, MayReport, Ruled, Tabbed
  <2>4. Fits(l, MayReport(j)) /\ Seen(l)
    BY <2>1, <2>3 DEF Fits, Seen, Ruled, Tabbed, Judged
  <2> QED
    BY <2>1, <2>2, <2>4
<1> QED
  BY <1>2, <1>3 DEF Migrate

LEMMA QueryLeads ==
    ASSUME TypeOK, JobsInv, NEW j \in Jobs, Query(j)
    PROVE  \E l \in Locals : Goes(j, l) /\ Fits(l, MayReport(j)) /\ Seen(l)
<1>1. job[j].at = "query" /\ job[j].rules \in SUBSET Rules
  BY DEF Query, TypeOK
<1>2. AllowedPages(job[j].rules) \subseteq MayReport(j)
  BY <1>1 DEF JobsInv, Fits, MayReport, Ruled
<1>3. {t \in Tabs : page[t] # None /\ Allowed(page[t], job[j].rules)} \in SUBSET Tabs
  OBVIOUS
<1>4. ToNextTab(j, job[j].rules,
                {t \in Tabs : page[t] # None /\ Allowed(page[t], job[j].rules)})
  BY DEF Query
<1> QED
  BY <1>1, <1>2, <1>3, <1>4, ToNextTabLeads

LEMMA GetTabLeads ==
    ASSUME TypeOK, JobsInv, TabsInv, NEW j \in Jobs, GetTab(j)
    PROVE  \E l \in Locals : Goes(j, l) /\ Fits(l, MayReport(j)) /\ Seen(l)
<1>1. /\ job[j] \in Locals /\ job[j].at = "tab"
      /\ job[j].rules \in SUBSET Rules /\ job[j].todo \in SUBSET Tabs
  BY DEF GetTab, TypeOK, Locals
<1>2. AllowedPages(job[j].rules) \subseteq MayReport(j) /\ job[j].tab \in Tabs
  BY <1>1 DEF JobsInv, Fits, MayReport, Ruled, Tabbed
<1>3. CASE page[job[j].tab] # None /\ Allowed(page[job[j].tab], job[j].rules)
  <2> DEFINE p == page[job[j].tab]
             l == [job[j] EXCEPT !.at = "text", !.url = p]
  <2>1. p \in Pages /\ p \in AllowedPages(job[j].rules) /\ p \in visited[job[j].tab]
    BY <1>2, <1>3 DEF TypeOK, TabsInv, AllowedPages
  <2>2. /\ l.at = "text" /\ l.rules = job[j].rules /\ l.tab = job[j].tab /\ l.url = p
        /\ l \in Locals
    BY <1>1, <2>1 DEF Locals, Awaits
  <2>3. Goes(j, l)
    BY <1>3 DEF GetTab
  <2> HIDE DEF l, p
  <2>4. Fits(l, MayReport(j)) /\ Seen(l)
    BY <1>2, <2>1, <2>2 DEF Fits, Seen
  <2> QED
    BY <2>2, <2>3, <2>4
<1>4. CASE ~(page[job[j].tab] # None /\ Allowed(page[job[j].tab], job[j].rules))
  <2>1. ToNextTab(j, job[j].rules, job[j].todo)
    BY <1>4 DEF GetTab
  <2> QED
    BY <1>1, <1>2, <2>1, ToNextTabLeads
<1> QED
  BY <1>3, <1>4

\* A handler that keeps rules, tab and address stays within bounds.
LEMMA KeepsAddress ==
    ASSUME TypeOK, JobsInv, NEW j \in Jobs, job[j].at \in Judged,
           NEW l \in Locals, Goes(j, l), l.at \in Judged,
           l.rules = job[j].rules, l.tab = job[j].tab, l.url = job[j].url
    PROVE  \E m \in Locals : Goes(j, m) /\ Fits(m, MayReport(j)) /\ Seen(m)
<1>1. Fits(job[j], allowed[j]) /\ Seen(job[j])
  BY DEF JobsInv
<1>2. Fits(l, MayReport(j)) /\ Seen(l)
  BY <1>1 DEF Fits, Seen, MayReport, Ruled, Tabbed, Judged
<1> QED
  BY <1>2

LEMMA ReadTextLeads ==
    ASSUME TypeOK, JobsInv, NEW j \in Jobs, ReadText(j)
    PROVE  \E l \in Locals : Goes(j, l) /\ Fits(l, MayReport(j)) /\ Seen(l)
<1>1. job[j] \in Locals /\ job[j].at = "text"
  BY DEF ReadText, TypeOK, Locals
<1>2. job[j].tab \in Tabs
  BY <1>1 DEF JobsInv, Fits, Ruled, Tabbed
<1>3. PICK p \in ScriptReads(job[j].tab) :
        Goes(j, [job[j] EXCEPT !.text = p,
                    !.at = IF IsSearch(UrlOf[job[j].url]) THEN "links" ELSE "post"])
  BY DEF ReadText
<1>4. p \in Pages \cup {None}
  BY <1>2, <1>3 DEF ScriptReads, TypeOK
<1> DEFINE l == [job[j] EXCEPT !.text = p,
                    !.at = IF IsSearch(UrlOf[job[j].url]) THEN "links" ELSE "post"]
<1>5. /\ l \in Locals /\ l.at \in Judged
      /\ l.rules = job[j].rules /\ l.tab = job[j].tab /\ l.url = job[j].url
  BY <1>1, <1>4 DEF Locals, Awaits, Judged
<1>6. Goes(j, l)
  BY <1>3
<1> HIDE DEF l
<1> QED
  BY <1>1, <1>5, <1>6, KeepsAddress DEF Judged

LEMMA ReadLinksLeads ==
    ASSUME TypeOK, JobsInv, NEW j \in Jobs, ReadLinks(j)
    PROVE  \E l \in Locals : Goes(j, l) /\ Fits(l, MayReport(j)) /\ Seen(l)
<1>1. job[j] \in Locals /\ job[j].at = "links"
  BY DEF ReadLinks, TypeOK, Locals
<1>2. CASE Goes(j, [job[j] EXCEPT !.at = "post", !.tries = 0])
  <2> DEFINE l == [job[j] EXCEPT !.at = "post", !.tries = 0]
  <2>0. "post" \in Awaits /\ 0 \in 0 .. Tries - 1
    BY DEF Awaits, Tries
  <2>1. /\ l \in Locals /\ l.at \in Judged
        /\ l.rules = job[j].rules /\ l.tab = job[j].tab /\ l.url = job[j].url
    BY <1>1, <2>0 DEF Locals, Judged
  <2>2. Goes(j, l)
    BY <1>2
  <2> HIDE DEF l
  <2> QED
    BY <1>1, <2>1, <2>2, KeepsAddress DEF Judged
<1>3. CASE job[j].tries + 1 < Tries /\ Goes(j, [job[j] EXCEPT !.tries = @ + 1])
  <2> DEFINE l == [job[j] EXCEPT !.tries = @ + 1]
  <2>1. job[j].tries + 1 \in 0 .. Tries - 1
    BY <1>1, <1>3 DEF Locals, Tries
  <2>2. /\ l \in Locals /\ l.at \in Judged
        /\ l.rules = job[j].rules /\ l.tab = job[j].tab /\ l.url = job[j].url
    BY <1>1, <2>1 DEF Locals, Judged
  <2>3. Goes(j, l)
    BY <1>3
  <2> HIDE DEF l
  <2> QED
    BY <1>1, <2>2, <2>3, KeepsAddress DEF Judged
<1> QED
  BY <1>2, <1>3 DEF ReadLinks

LEMMA PostLeads ==
    ASSUME TypeOK, JobsInv, NEW j \in Jobs, Post(j)
    PROVE  \E l \in Locals : Goes(j, l) /\ Fits(l, MayReport(j)) /\ Seen(l)
<1>1. /\ job[j].at = "post" /\ job[j].rules \in SUBSET Rules
      /\ job[j].todo \in SUBSET Tabs
  BY DEF Post, TypeOK
<1>2. AllowedPages(job[j].rules) \subseteq MayReport(j)
  BY <1>1 DEF JobsInv, Fits, MayReport, Ruled
<1>3. ToNextTab(j, job[j].rules, job[j].todo)
  BY DEF Post
<1> QED
  BY <1>1, <1>2, <1>3, ToNextTabLeads

LEMMA EventLeads ==
    ASSUME TypeOK, NEW j \in Jobs, Event(j)
    PROVE  \E l \in Locals : Goes(j, l) /\ Fits(l, MayReport(j)) /\ Seen(l)
<1>1. CASE OnAlarm(j)
  <2> DEFINE l == [Idle EXCEPT !.at = "config"]
  <2>1. l \in Locals /\ l.at = "config"
    BY IdleType DEF Locals, Idle, Awaits
  <2>2. Goes(j, l)
    BY <1>1 DEF OnAlarm
  <2> HIDE DEF l
  <2> QED
    BY <2>1, <2>2 DEF Fits, Seen, Ruled, Tabbed, Judged
<1>2. ASSUME NEW t \in Tabs, OnUpdated(j, t)
      PROVE  \E l \in Locals : Goes(j, l) /\ Fits(l, MayReport(j)) /\ Seen(l)
  <2> DEFINE l == [Idle EXCEPT !.at = "config", !.tab = t, !.url = page[t]]
  <2>1. l \in Locals /\ l.at = "config"
    BY IdleType DEF Locals, Idle, Awaits, TypeOK
  <2>2. Goes(j, l)
    BY <1>2 DEF OnUpdated
  <2> HIDE DEF l
  <2> QED
    BY <2>1, <2>2 DEF Fits, Seen, Ruled, Tabbed, Judged
<1> QED
  BY <1>1, <1>2 DEF Event

LEMMA HandlerLeads ==
    ASSUME TypeOK, JobsInv, TabsInv, NEW j \in Jobs, Event(j) \/ JobStep(j)
    PROVE  \E l \in Locals : Goes(j, l) /\ Fits(l, MayReport(j)) /\ Seen(l)
BY EventLeads, ReadRulesLeads, ReadAddressLeads, MigrateLeads, QueryLeads, GetTabLeads,
   ReadTextLeads, ReadLinksLeads, PostLeads DEF JobStep
-----------------------------------------------------------------------------
(***************************************************************************)
(* The invariant.                                                           *)
(***************************************************************************)
Inv == TypeOK /\ JobsInv /\ TabsInv

\* Handler j, where it is, has not judged anything it may not report.
JobInv(j) == Fits(job[j], allowed[j]) /\ Seen(job[j])

LEMMA VisitedGrows ==
    ASSUME TypeOK, Remember, NEW t \in Tabs
    PROVE  visited[t] \subseteq visited'[t]
BY DEF TypeOK, Remember

LEMMA JobKept ==
    ASSUME TypeOK, JobsInv, Remember, NEW j \in Jobs, job'[j] = job[j]
    PROVE  JobInv(j)'
<1>1. Fits(job[j], allowed[j]) /\ Seen(job[j])
  BY DEF JobsInv
<1>2. CASE job[j] = Idle
  <2>1. job'[j].at = "idle"
    BY <1>2 DEF Idle
  <2> QED
    BY <2>1 DEF JobInv, Fits, Seen, Ruled, Tabbed, Judged
<1>3. CASE job[j] # Idle
  <2>1. allowed[j] \subseteq allowed'[j]
    BY <1>3 DEF Remember
  <2>2. Fits(job[j], allowed'[j])
    BY <1>1, <2>1 DEF Fits
  <2>3. Seen(job[j])'
    BY <1>1, VisitedGrows DEF Seen, Fits, Judged, Tabbed, Ruled
  <2> QED
    BY <2>2, <2>3 DEF JobInv, Fits
<1> QED
  BY <1>2, <1>3

LEMMA JobMoved ==
    ASSUME TypeOK, Remember, NEW j \in Jobs, NEW l \in Locals, Goes(j, l),
           Fits(l, MayReport(j)), Seen(l)
    PROVE  JobInv(j)'
<1>1. job'[j] = l
  BY DEF Goes, TypeOK
<1>2. CASE l = Idle
  <2>1. job'[j].at = "idle"
    BY <1>1, <1>2 DEF Idle
  <2> QED
    BY <2>1 DEF JobInv, Fits, Seen, Ruled, Tabbed, Judged
<1>3. CASE l # Idle
  <2>1. allowed'[j] = MayReport(j)
    BY <1>1, <1>3 DEF Remember, MayReport, AllowedPages
  <2>2. Seen(job[j])'
    BY <1>1, VisitedGrows DEF Seen, Fits, Judged, Tabbed, Ruled
  <2> QED
    BY <1>1, <2>1, <2>2 DEF JobInv, Fits
<1> QED
  BY <1>2, <1>3

LEMMA TabsKept ==
    ASSUME TypeOK, page' \in [Tabs -> Pages \cup {None}], Remember
    PROVE  TabsInv'
BY DEF TabsInv, Remember

\* Steps that move no handler, and steps of one.
LEMMA OthersKeepJobs ==
    ASSUME TypeOK, JobsInv, Remember, UNCHANGED job
    PROVE  JobsInv' /\ job' \in [Jobs -> Locals]
<1>1. \A j \in Jobs : JobInv(j)'
  BY JobKept
<1>2. job' \in [Jobs -> Locals]
  BY DEF TypeOK, Locals
<1> QED
  BY <1>1, <1>2 DEF JobsInv, JobInv

LEMMA HandlerKeepsJobs ==
    ASSUME TypeOK, JobsInv, TabsInv, Remember, NEW j \in Jobs, Event(j) \/ JobStep(j)
    PROVE  JobsInv' /\ job' \in [Jobs -> Locals]
<1>1. PICK l \in Locals : Goes(j, l) /\ Fits(l, MayReport(j)) /\ Seen(l)
  BY HandlerLeads
<1>2. job \in [Jobs -> Locals]
  BY DEF TypeOK, Locals
<1>3. job' \in [Jobs -> Locals]
  BY <1>1, <1>2 DEF Goes
<1>4. JobInv(j)'
  BY <1>1, JobMoved
<1>5. ASSUME NEW i \in Jobs, i # j PROVE JobInv(i)'
  <2>1. job'[i] = job[i]
    BY <1>1, <1>2, <1>5 DEF Goes
  <2> QED
    BY <2>1, JobKept
<1>6. \A i \in Jobs : JobInv(i)'
  BY <1>4, <1>5
<1> QED
  BY <1>3, <1>6 DEF JobsInv, JobInv

\* What is left of a handler whose POST was under way when the worker stopped.
LEMMA SentKeepsJob ==
    ASSUME TypeOK, JobsInv, Remember, NEW j \in Jobs, job[j].at = "post",
           job'[j] = [job[j] EXCEPT !.todo = {}]
    PROVE  JobInv(j)' /\ job'[j] \in Locals
<1>1. job[j] \in Locals /\ Fits(job[j], allowed[j]) /\ Seen(job[j])
  BY DEF TypeOK, Locals, JobsInv
<1>2. /\ job'[j].at = "post" /\ job'[j].rules = job[j].rules /\ job'[j].tab = job[j].tab
      /\ job'[j].url = job[j].url /\ job'[j] \in Locals
  BY <1>1 DEF Locals
<1>3. job'[j] # Idle
  BY <1>2 DEF Idle
<1>4. allowed[j] \subseteq allowed'[j]
  BY <1>3 DEF Remember
<1>5. Fits(job'[j], allowed'[j])
  BY <1>1, <1>2, <1>4 DEF Fits, Ruled, Tabbed, Judged
<1>6. Seen(job[j])'
  <2>1. job[j].url \in visited[job[j].tab] /\ job[j].tab \in Tabs
    BY <1>1 DEF Seen, Fits, Judged, Tabbed, Ruled
  <2> QED
    BY <1>2, <2>1, VisitedGrows DEF Seen
<1> QED
  BY <1>2, <1>5, <1>6 DEF JobInv, Fits

LEMMA WorkerStopsKeepsJobs ==
    ASSUME TypeOK, JobsInv, Remember, WorkerStops
    PROVE  JobsInv' /\ job' \in [Jobs -> Locals]
<1>1. PICK sent \in SUBSET {j \in Jobs : job[j].at = "post"} :
          job' = [j \in Jobs |-> IF j \in sent THEN [job[j] EXCEPT !.todo = {}] ELSE Idle]
  BY DEF WorkerStops
<1>2. ASSUME NEW j \in Jobs PROVE JobInv(j)' /\ job'[j] \in Locals
  <2>1. CASE j \in sent
    <3>1. job[j].at = "post" /\ job'[j] = [job[j] EXCEPT !.todo = {}]
      BY <1>1, <2>1
    <3> QED
      BY <3>1, SentKeepsJob
  <2>2. CASE j \notin sent
    <3>1. job'[j] = Idle
      BY <1>1, <2>2
    <3>2. job'[j].at = "idle" /\ job'[j] \in Locals
      BY <3>1, IdleType DEF Idle
    <3> QED
      BY <3>2 DEF JobInv, Fits, Seen, Ruled, Tabbed, Judged
  <2> QED
    BY <2>1, <2>2
<1>3. \A j \in Jobs : JobInv(j)'
  BY <1>2
<1>4. job' \in [Jobs -> Locals]
  <2>1. \A j \in Jobs : job'[j] \in Locals
    BY <1>2
  <2>2. job' = [j \in Jobs |-> job'[j]]
    BY <1>1
  <2> QED
    BY <2>1, <2>2
<1> QED
  BY <1>3, <1>4 DEF JobsInv, JobInv
-----------------------------------------------------------------------------
(***************************************************************************)
(* Type correctness.                                                        *)
(***************************************************************************)
Popups == [at : {"closed", "port", "rules", "shown"}, defaulting : BOOLEAN,
           boxes : SUBSET Rules]

Records == [url : Pages \cup {None}, text : Pages \cup {None}]

\* The parts of the state that steps of different kinds change.
ChromeType == page \in [Tabs -> Pages \cup {None}] /\ loading \in [Tabs -> BOOLEAN]
IrisType   == up \in BOOLEAN /\ byTab \in [Tabs -> Records]
PopupType  == popup \in Popups /\ told \in (SUBSET Rules) \cup {None}
StoreType  == store \in Stored
OtherType  == alarm \in BOOLEAN /\ spent \in Used

LEMMA TypeParts ==
    ASSUME TypeOK
    PROVE  /\ ChromeType /\ IrisType /\ PopupType /\ StoreType /\ OtherType
           /\ job \in [Jobs -> Locals]
BY DEF TypeOK, ChromeType, IrisType, PopupType, StoreType, OtherType, Locals, Stored,
       Used, Popups, Records

LEMMA TypeOfParts ==
    ASSUME TypeOK, Remember, ChromeType', IrisType', PopupType', StoreType', OtherType',
           job' \in [Jobs -> Locals]
    PROVE  TypeOK'
<1>1. allowed' \in [Jobs -> SUBSET Pages] /\ visited' \in [Tabs -> SUBSET Pages]
  BY RememberType DEF ChromeType
<1> QED
  BY <1>1 DEF TypeOK, ChromeType, IrisType, PopupType, StoreType, OtherType, Locals,
              Stored, Used, Popups, Records

LEMMA NoRecordType == NoRecord \in Records
BY DEF NoRecord, Records

LEMMA ClosedType == Closed \in Popups
BY DEF Closed, Popups

LEMMA SpendKeeps ==
    ASSUME TypeOK, UNCHANGED alarm,
           \/ Spend("visits", MaxVisits) \/ Spend("saves", MaxSaves)
           \/ Spend("stops", MaxStops) \/ UNCHANGED spent
    PROVE  OtherType'
BY SpendType DEF OtherType, TypeOK

LEMMA BrowsingKeepsType ==
    ASSUME TypeOK, Remember,
           NEW t \in Tabs, CloseTab(t) \/ \E p \in Pages : Visit(t, p)
    PROVE  TypeOK' /\ UNCHANGED job
<1>1. UNCHANGED <<store, popup, alarm, job, up, byTab, told>>
  BY DEF CloseTab, Visit, iris
<1>2. IrisType' /\ PopupType' /\ StoreType' /\ job' \in [Jobs -> Locals]
  BY <1>1, TypeParts DEF IrisType, PopupType, StoreType
<1>3. OtherType'
  BY <1>1, SpendKeeps DEF CloseTab, Visit
<1>4. ChromeType'
  BY TypeParts DEF ChromeType, CloseTab, Visit, Show
<1> QED
  BY <1>1, <1>2, <1>3, <1>4, TypeOfParts

LEMMA WorkerStopsKeepsType ==
    ASSUME TypeOK, JobsInv, Remember, WorkerStops
    PROVE  TypeOK'
<1>1. UNCHANGED <<page, loading, store, popup, alarm, up, byTab, told>>
  BY DEF WorkerStops, chrome, iris
<1>2. ChromeType' /\ IrisType' /\ PopupType' /\ StoreType'
  BY <1>1, TypeParts DEF ChromeType, IrisType, PopupType, StoreType
<1>3. OtherType'
  BY <1>1, SpendKeeps DEF WorkerStops
<1> QED
  BY <1>2, <1>3, WorkerStopsKeepsJobs, TypeOfParts

\* Steps of the popup.
PopupMoves ==
    \/ OpenPopup \/ ClosePopup \/ PopupStep
    \/ \E rule \in Rules : ToggleRule(rule)
    \/ \E port \in Ports \cup {NoPort}, token \in Tokens : SaveSettings(port, token)

LEMMA PopupKeepsType ==
    ASSUME TypeOK, Remember, PopupMoves
    PROVE  TypeOK' /\ UNCHANGED job
<1>1. PopupOnly
  BY DEF PopupMoves, OpenPopup, ClosePopup, PopupStep, InitReadsPort, InitStoresPort,
         InitShowsRules, ToggleRule, SaveSettings
<1>2. UNCHANGED <<page, loading, alarm, job, up, byTab>>
  BY <1>1 DEF PopupOnly, chrome, iris
<1>3. ChromeType' /\ IrisType' /\ job' \in [Jobs -> Locals]
  BY <1>2, TypeParts DEF ChromeType, IrisType
<1>4. /\ popup \in Popups /\ store \in Stored /\ told \in (SUBSET Rules) \cup {None}
      /\ popup.boxes \subseteq Rules
  BY TypeParts DEF PopupType, StoreType, Popups
<1>5. ASSUME OpenPopup PROVE PopupType' /\ StoreType' /\ OtherType'
  <2>1. popup' \in Popups
    BY <1>4, <1>5 DEF OpenPopup, Popups
  <2> QED
    BY <1>2, <1>4, <1>5, <2>1, SpendKeeps DEF OpenPopup, PopupType, StoreType
<1>6. ASSUME ClosePopup PROVE PopupType' /\ StoreType' /\ OtherType'
  BY <1>2, <1>4, <1>6, ClosedType, SpendKeeps DEF ClosePopup, PopupType, StoreType
<1>7. ASSUME InitReadsPort PROVE PopupType' /\ StoreType' /\ OtherType'
  <2>1. (popup.defaulting \/ store.port = NoPort) \in BOOLEAN
    BY <1>4 DEF Popups
  <2>2. popup' = [popup EXCEPT !.at = "rules",
                               !.defaulting = popup.defaulting \/ store.port = NoPort]
    BY <1>7 DEF InitReadsPort
  <2>3. popup' \in Popups
    BY <1>4, <2>1, <2>2 DEF Popups
  <2> QED
    BY <1>2, <1>4, <1>7, <2>3, SpendKeeps DEF InitReadsPort, PopupType, StoreType
<1>8. ASSUME InitStoresPort PROVE PopupType' /\ StoreType' /\ OtherType'
  <2>1. popup' \in Popups
    BY <1>4, <1>8 DEF InitStoresPort, Popups
  <2>2. DefaultPort \in Ports
    BY TabFeedAssumption DEF TabFeedAssumption
  <2>3. store' \in Stored
    BY <1>4, <1>8, <2>2 DEF InitStoresPort, Stored
  <2> QED
    BY <1>2, <1>4, <1>8, <2>1, <2>3, SpendKeeps DEF InitStoresPort, PopupType, StoreType
<1>9. ASSUME InitShowsRules PROVE PopupType' /\ StoreType' /\ OtherType'
  <2>1. popup' \in Popups
    BY <1>4, <1>9, InForceType DEF InitShowsRules, Popups
  <2> QED
    BY <1>2, <1>4, <1>9, <2>1, SpendKeeps DEF InitShowsRules, PopupType, StoreType
<1>10. ASSUME NEW rule \in Rules, ToggleRule(rule)
       PROVE  PopupType' /\ StoreType' /\ OtherType'
  <2>1. (IF rule \in popup.boxes THEN popup.boxes \ {rule}
         ELSE popup.boxes \cup {rule}) \in SUBSET Rules
    BY <1>4
  <2>2. popup' = [popup EXCEPT !.boxes = IF rule \in popup.boxes
                    THEN popup.boxes \ {rule} ELSE popup.boxes \cup {rule}]
    BY <1>10 DEF ToggleRule
  <2>3. popup' \in Popups
    BY <1>4, <2>1, <2>2 DEF Popups
  <2> QED
    BY <1>2, <1>4, <1>10, <2>3, SpendKeeps DEF ToggleRule, PopupType, StoreType
<1>11. ASSUME NEW port \in Ports \cup {NoPort}, NEW token \in Tokens,
              SaveSettings(port, token)
       PROVE  PopupType' /\ StoreType' /\ OtherType'
  <2>1. store' \in Stored /\ told' \in SUBSET Rules
    BY <1>4, <1>11 DEF SaveSettings, SelectedRules, Stored
  <2>2. popup' \in Popups
    BY <1>4, <1>11 DEF SaveSettings, Popups
  <2> QED
    BY <1>2, <1>11, <2>1, <2>2, SpendKeeps DEF SaveSettings, PopupType, StoreType
<1>12. PopupType' /\ StoreType' /\ OtherType'
  BY <1>5, <1>6, <1>7, <1>8, <1>9, <1>10, <1>11 DEF PopupMoves, PopupStep
<1> QED
  BY <1>2, <1>3, <1>12, TypeOfParts

LEMMA IrisKeepsType ==
    ASSUME TypeOK, Remember, IrisStops \/ IrisStarts \/ CreateAlarm
    PROVE  TypeOK' /\ UNCHANGED job
<1>1. UNCHANGED <<page, loading, store, popup, job, told>>
  BY DEF IrisStops, IrisStarts, CreateAlarm, IrisOnly, WorkerOnly, chrome
<1>2. ChromeType' /\ PopupType' /\ StoreType' /\ job' \in [Jobs -> Locals]
  BY <1>1, TypeParts DEF ChromeType, PopupType, StoreType
<1>3. IrisType'
  BY NoRecordType, TypeParts DEF IrisType, IrisStops, IrisStarts, CreateAlarm, iris
<1>4. OtherType'
  <2>1. CASE IrisStops
    BY <2>1, SpendKeeps DEF IrisStops, IrisOnly
  <2>2. CASE IrisStarts
    BY <2>2, SpendKeeps DEF IrisStarts, IrisOnly
  <2>3. CASE CreateAlarm
    BY <2>3, TypeParts DEF CreateAlarm, WorkerOnly, OtherType
  <2> QED
    BY <2>1, <2>2, <2>3
<1> QED
  BY <1>1, <1>2, <1>3, <1>4, TypeOfParts

LEMMA HandlerKeepsType ==
    ASSUME TypeOK, JobsInv, TabsInv, Remember, NEW j \in Jobs, Event(j) \/ JobStep(j)
    PROVE  TypeOK'
<1>1. UNCHANGED <<popup, spent, told, alarm, page, up>>
  BY DEF Event, JobStep, OnAlarm, OnUpdated, ReadRules, ReadAddress, Migrate, Query,
         GetTab, ReadText, ReadLinks, Post, WorkerOnly, chrome, iris
<1>2. PopupType' /\ OtherType'
  BY <1>1, TypeParts DEF PopupType, OtherType
<1>3. ChromeType'
  <2>1. UNCHANGED loading \/ \E t \in Tabs : loading' = [loading EXCEPT ![t] = FALSE]
    BY DEF Event, JobStep, OnAlarm, OnUpdated, ReadRules, ReadAddress, Migrate, Query,
           GetTab, ReadText, ReadLinks, Post, chrome
  <2> QED
    BY <1>1, <2>1, TypeParts DEF ChromeType
<1>4. StoreType'
  <2>1. CASE Migrate(j)
    <3>1. store \in Stored /\ job[j].found \in SUBSET Rules
      BY TypeParts DEF StoreType, Locals
    <3> QED
      BY <2>1, <3>1 DEF Migrate, StoreType, Stored
  <2>2. CASE ~Migrate(j)
    <3>1. UNCHANGED store
      BY <2>2 DEF Event, JobStep, OnAlarm, OnUpdated, ReadRules, ReadAddress, Query,
                  GetTab, ReadText, ReadLinks, Post
    <3> QED
      BY <3>1, TypeParts DEF StoreType
  <2> QED
    BY <2>1, <2>2
<1>5. IrisType'
  <2>1. CASE Post(j)
    <3>1. /\ byTab \in [Tabs -> Records] /\ up \in BOOLEAN
          /\ [url |-> job[j].url, text |-> job[j].text] \in Records
      BY TypeParts DEF IrisType, Locals, Records
    <3>2. \/ UNCHANGED byTab
          \/ byTab' = [byTab EXCEPT ![job[j].tab] =
                         [url |-> job[j].url, text |-> job[j].text]]
      BY <2>1 DEF Post, Ingest
    <3> QED
      BY <1>1, <3>1, <3>2 DEF IrisType
  <2>2. CASE ~Post(j)
    <3>1. UNCHANGED byTab
      BY <2>2 DEF Event, JobStep, OnAlarm, OnUpdated, ReadRules, ReadAddress, Migrate,
                  Query, GetTab, ReadText, ReadLinks, iris
    <3> QED
      BY <1>1, <3>1, TypeParts DEF IrisType
  <2> QED
    BY <2>1, <2>2
<1> QED
  BY <1>2, <1>3, <1>4, <1>5, HandlerKeepsJobs, TypeOfParts
-----------------------------------------------------------------------------
LEMMA InitInv == Init => Inv
<1> SUFFICES ASSUME Init PROVE Inv
  OBVIOUS
<1> USE TabFeedAssumption DEF TabFeedAssumption, Init
<1>1. ChromeType
  BY DEF ChromeType
<1>2. IrisType
  BY NoRecordType DEF IrisType
<1>3. PopupType
  BY ClosedType DEF PopupType
<1>4. StoreType
  BY DEF StoreType, Stored
<1>5. OtherType
  <2>1. 0 \in 0 .. MaxVisits /\ 0 \in 0 .. MaxSaves /\ 0 \in 0 .. MaxStops
    OBVIOUS
  <2> QED
    BY <2>1 DEF OtherType, Used
<1>6. job \in [Jobs -> Locals]
  BY IdleType
<1>7. allowed \in [Jobs -> SUBSET Pages] /\ visited \in [Tabs -> SUBSET Pages]
  OBVIOUS
<1>8. TypeOK
  BY <1>1, <1>2, <1>3, <1>4, <1>5, <1>6, <1>7
  DEF TypeOK, ChromeType, IrisType, PopupType, StoreType, OtherType, Locals, Stored, Used,
      Popups, Records
<1>9. JobsInv
  BY IdleFits DEF JobsInv
<1>10. TabsInv
  BY DEF TabsInv
<1> QED
  BY <1>8, <1>9, <1>10 DEF Inv

LEMMA UnchangedInv == ASSUME Inv, UNCHANGED vars PROVE Inv'
BY DEF Inv, TypeOK, JobsInv, TabsInv, Fits, Seen, vars, chrome, iris, history

LEMMA NextInv == ASSUME Inv, Next PROVE Inv'
<1>1. TypeOK /\ JobsInv /\ TabsInv /\ Remember
  BY DEF Inv, Next
<1>2. TypeOK' /\ JobsInv'
  <2>1. ASSUME NEW t \in Tabs, CloseTab(t) \/ \E p \in Pages : Visit(t, p)
        PROVE  TypeOK' /\ JobsInv'
    BY <1>1, <2>1, BrowsingKeepsType, OthersKeepJobs
  <2>2. CASE PopupMoves
    BY <1>1, <2>2, PopupKeepsType, OthersKeepJobs
  <2>3. CASE IrisStops \/ IrisStarts \/ CreateAlarm
    BY <1>1, <2>3, IrisKeepsType, OthersKeepJobs
  <2>4. CASE WorkerStops
    BY <1>1, <2>4, WorkerStopsKeepsType, WorkerStopsKeepsJobs
  <2>5. ASSUME NEW j \in Jobs, Event(j) \/ JobStep(j)
        PROVE  TypeOK' /\ JobsInv'
    BY <1>1, <2>5, HandlerKeepsType, HandlerKeepsJobs
  <2> QED
    BY <2>1, <2>2, <2>3, <2>4, <2>5 DEF Next, User, PopupMoves
<1>3. TabsInv'
  BY <1>1, <1>2, TabsKept DEF TypeOK
<1> QED
  BY <1>2, <1>3 DEF Inv

LEMMA Invariance == Spec => []Inv
BY InitInv, UnchangedInv, NextInv, PTL DEF Spec
-----------------------------------------------------------------------------
\* The state keeps its type: in particular no handler is at an await without
\* the locals the code after that await uses.
THEOREM TypeCorrect == Spec => []TypeOK
BY Invariance, PTL DEF Inv

\* However many handlers are under way, and whatever the user revokes, opens
\* and closes in between: what a handler reports, some rules in force since it
\* began allow (background.js:90-93).
THEOREM PushesAreAllowed == Spec => []PushIsAllowed
<1>1. Inv => PushIsAllowed
  BY DEF Inv, JobsInv, Fits, Judged, PushIsAllowed
<1> QED
  BY <1>1, Invariance, PTL

\* Iris takes a tab to be at a page the tab has shown, never at a sensitive
\* one, and forgets all tabs at once or none (background.js:90-127,
\* browser_tab_monitor.py:43-72).
THEOREM FeedImplementsWindow == Spec => ImplementsWindow
<1> DEFINE known == [t \in Tabs |-> byTab[t].url]
<1>1. Init => Window!WindowInit
  <2> SUFFICES ASSUME Init PROVE Window!WindowInit
    OBVIOUS
  <2>1. \A t \in Tabs : byTab[t].url = None
    BY DEF Init, NoRecord
  <2>2. TypeOK
    BY InitInv DEF Inv
  <2> QED
    BY <2>1, <2>2 DEF TypeOK, Window!WindowInit, Window!Nothing
<1>2. ASSUME Inv, Next PROVE Window!WindowNext \/ UNCHANGED Window!view
  <2>1. TypeOK /\ TabsInv /\ JobsInv /\ Remember
    BY <1>2 DEF Inv, Next
  <2>2. \A t \in Tabs : page'[t] = page[t] => visited'[t] = visited[t]
    BY <2>1 DEF TypeOK, TabsInv, Remember
  <2>3. visited \in [Tabs -> SUBSET Pages] /\ visited' = [t \in Tabs |-> visited'[t]]
    BY <2>1 DEF TypeOK, Remember
  <2>4. UNCHANGED page => UNCHANGED visited
    BY <2>2, <2>3
  <2>5. UNCHANGED byTab => UNCHANGED known
    OBVIOUS
  <2>6. ASSUME NEW t \in Tabs, NEW p \in Pages, Visit(t, p) PROVE Window!Show(t, p)
    <3>1. page' = [page EXCEPT ![t] = p] /\ UNCHANGED byTab
      BY <2>6 DEF Visit, Show, iris
    <3>2. page'[t] = p /\ \A u \in Tabs \ {t} : page'[u] = page[u]
      BY <3>1, <2>1 DEF TypeOK
    <3>3. p # None
      BY TabFeedAssumption DEF TabFeedAssumption
    <3>4. visited'[t] = visited[t] \cup {p}
      BY <2>1, <3>2, <3>3 DEF Remember
    <3>5. \A u \in Tabs \ {t} : visited'[u] = visited[u]
      BY <2>2, <3>2
    <3>6. visited' = [visited EXCEPT ![t] = @ \cup {p}]
      BY <2>3, <3>4, <3>5
    <3> QED
      BY <2>5, <3>1, <3>6 DEF Window!Show
  <2>7. ASSUME NEW t \in Tabs, CloseTab(t) PROVE UNCHANGED Window!view
    <3>1. page' = [page EXCEPT ![t] = None] /\ UNCHANGED byTab
      BY <2>7 DEF CloseTab, iris
    <3>2. \A u \in Tabs : visited'[u] = visited[u]
      BY <2>1, <2>2, <3>1 DEF TypeOK, Remember
    <3>3. UNCHANGED visited
      BY <2>3, <3>2
    <3> QED
      BY <2>5, <3>1, <3>3 DEF Window!view
  <2>8. CASE PopupMoves \/ WorkerStops \/ IrisStarts \/ CreateAlarm
    <3>1. UNCHANGED page
      BY <2>8 DEF PopupMoves, PopupStep, OpenPopup, ClosePopup, InitReadsPort,
                  InitStoresPort, InitShowsRules, ToggleRule, SaveSettings, WorkerStops,
                  IrisStarts, CreateAlarm, PopupOnly, IrisOnly, chrome
    <3>2. UNCHANGED byTab
      BY <2>8 DEF PopupMoves, PopupStep, OpenPopup, ClosePopup, InitReadsPort,
                  InitStoresPort, InitShowsRules, ToggleRule, SaveSettings, WorkerStops,
                  IrisStarts, CreateAlarm, PopupOnly, iris
    <3> QED
      BY <2>4, <2>5, <3>1, <3>2 DEF Window!view
  <2>9. CASE IrisStops
    <3>1. UNCHANGED page /\ byTab' = [t \in Tabs |-> NoRecord]
      BY <2>9 DEF IrisStops, IrisOnly, chrome
    <3>2. known' = [t \in Tabs |-> None]
      BY <3>1 DEF NoRecord
    <3> QED
      BY <2>4, <3>1, <3>2 DEF Window!WindowNext, Window!Forget, Window!Nothing
  <2>10. ASSUME NEW j \in Jobs, Event(j) \/ JobStep(j)
         PROVE  Window!WindowNext \/ UNCHANGED Window!view
    <3>1. UNCHANGED page
      BY <2>10 DEF Event, JobStep, OnAlarm, OnUpdated, ReadRules, ReadAddress, Migrate,
                   Query, GetTab, ReadText, ReadLinks, Post, chrome
    <3>2. CASE UNCHANGED byTab
      BY <2>4, <2>5, <3>1, <3>2 DEF Window!view
    <3>3. CASE ~UNCHANGED byTab
      <4>1. Post(j)
        BY <2>10, <3>3 DEF Event, JobStep, OnAlarm, OnUpdated, ReadRules, ReadAddress,
                           Migrate, Query, GetTab, ReadText, ReadLinks, iris
      <4>2. /\ job[j].at = "post" /\ ~UrlOf[job[j].url].sensitive
            /\ byTab' = [byTab EXCEPT ![job[j].tab] =
                            [url |-> job[j].url, text |-> job[j].text]]
        BY <3>3, <4>1 DEF Post, Ingest
      <4>3. PICK t \in Tabs, p \in Pages :
                t = job[j].tab /\ p = job[j].url /\ p \in visited[t]
        BY <2>1, <4>2 DEF JobsInv, Fits, Seen, Ruled, Tabbed, Judged
      <4>4. byTab \in [Tabs -> Records]
        BY <2>1, TypeParts DEF IrisType
      <4>5. \A u \in Tabs : byTab'[u] = IF u = t THEN [url |-> p, text |-> job[j].text]
                                        ELSE byTab[u]
        BY <4>2, <4>3, <4>4
      <4>6. \A u \in Tabs : byTab'[u].url = IF u = t THEN p ELSE byTab[u].url
        BY <4>5
      <4>7. known' = [known EXCEPT ![t] = p]
        BY <4>6
      <4>8. Window!Report(t, p)
        BY <2>4, <3>1, <4>2, <4>3, <4>7 DEF Window!Report
      <4>9. Window!WindowNext
        BY <4>8 DEF Window!WindowNext
      <4> QED
        BY <4>9
    <3> QED
      BY <3>2, <3>3
  <2> QED
    BY <1>2, <2>6, <2>7, <2>8, <2>9, <2>10 DEF Next, User, PopupMoves, Window!WindowNext
<1>3. UNCHANGED vars => UNCHANGED Window!view
  BY DEF vars, iris, history, Window!view
<1> QED
  BY <1>1, <1>2, <1>3, Invariance, PTL DEF Spec, ImplementsWindow, Window!WindowSpec
=============================================================================
