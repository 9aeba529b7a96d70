------------------------------ MODULE TabFeed ------------------------------
(***************************************************************************)
(* How Iris learns what is in the Chrome tabs: the extension's service      *)
(* worker and popup, and the receiver in Iris.                              *)
(*                                                                         *)
(* The worker starts a handler for every tick of an alarm and for every     *)
(* page that has loaded.  Handlers run in one thread and give way at every  *)
(* await, so a job here is one handler, its position the await it is in,    *)
(* and one action the code from that await to the next.  In between, the    *)
(* user browses, saves other settings, and other handlers run.              *)
(*                                                                         *)
(* The text of a page is represented by the page it was read from.  The     *)
(* links found in a page of results cost their handler time and are left    *)
(* out otherwise.                                                           *)
(***************************************************************************)
EXTENDS UrlRules, FiniteSets

CONSTANTS
    Jobs,       \* handlers that may be under way at once
    Tabs, Pages,
    Opened,     \* Opened[t]: what tab t shows to begin with, or None
    UrlOf,      \* UrlOf[p]: the address of page p
    Rules,      \* the rules the user makes use of
    Ports, Tokens,
    IrisPort, IrisToken,    \* what Iris is configured with
    DefaultPort, NoPort, NoToken, None,
    MaxVisits, MaxSaves, MaxStops  \* bounds on what the user does

ASSUME TabFeedAssumption ==
    /\ UrlOf \in [Pages -> Url]
    /\ Rules \subseteq SiteRules /\ "youtube_site" \in Rules
    /\ {DefaultPort, IrisPort} \subseteq Ports /\ NoPort \notin Ports
    /\ {NoToken, IrisToken} \subseteq Tokens
    /\ None \notin Pages /\ Opened \in [Tabs -> Pages \cup {None}]
    /\ MaxVisits \in Nat /\ MaxSaves \in Nat /\ MaxStops \in Nat

Tries == 3   \* the delays of fetchYoutubeSearchResultsWithRetry: 0, 400, 1200 ms

VARIABLES
    page,     \* page[t]: what tab t shows, or None when it is closed
    loading,  \* loading[t]: the page is not complete yet
    store,    \* chrome.storage.local
    popup,    \* the popup of the extension
    alarm,    \* irisTick exists
    job,      \* job[j]: the locals of handler j and the await it is in
    up,       \* Iris runs and listens
    byTab,    \* BrowserTabMonitor._by_tab
    spent,    \* how much of the bounds has been used
    told,     \* history: the rules the popup last reported as saved
    allowed,  \* history: pages some rules in force since job j began allow
    visited   \* history: pages each tab has shown

chrome  == <<page, loading>>
iris    == <<up, byTab>>
history == <<allowed, visited>>
vars == <<chrome, store, popup, alarm, job, iris, spent, told, history>>

Allowed(p, rules) == IsUrlAllowedByRules(UrlOf[p], rules)

\* The rules a handler that starts now would go by.
InForce == MigrateLegacyTabIds(store.rules, store.legacy)

Idle == [at |-> "idle", rules |-> {}, found |-> {}, todo |-> {},
         tab |-> None, url |-> None, text |-> None, tries |-> 0,
         port |-> NoPort, token |-> NoToken]

Awaits == {"idle", "config", "migrate", "query", "address", "remigrate",
           "tab", "text", "links", "post"}

NoRecord == [url |-> None, text |-> None]
Closed   == [at |-> "closed", defaulting |-> FALSE, boxes |-> {}]

TypeOK ==
    /\ page \in [Tabs -> Pages \cup {None}]
    /\ loading \in [Tabs -> BOOLEAN]
    /\ store \in [rules : SUBSET Rules, legacy : BOOLEAN,
                  port : Ports \cup {NoPort}, token : Tokens]
    /\ popup \in [at : {"closed", "port", "rules", "shown"}, defaulting : BOOLEAN,
                  boxes : SUBSET Rules]
    /\ alarm \in BOOLEAN /\ up \in BOOLEAN
    /\ job \in [Jobs -> [at : Awaits, rules : SUBSET Rules,
                         found : SUBSET Rules, todo : SUBSET Tabs,
                         tab : Tabs \cup {None}, url : Pages \cup {None},
                         text : Pages \cup {None}, tries : 0 .. Tries - 1,
                         port : Ports \cup {NoPort},
                         token : Tokens]]
    /\ byTab \in [Tabs -> [url : Pages \cup {None}, text : Pages \cup {None}]]
    /\ spent \in [visits : 0 .. MaxVisits, saves : 0 .. MaxSaves,
                  stops : 0 .. MaxStops]
    /\ told \in (SUBSET Rules) \cup {None}
    /\ allowed \in [Jobs -> SUBSET Pages]
    /\ visited \in [Tabs -> SUBSET Pages]

\* The state in which the extension is installed or, with tab ids in the
\* storage, replaces the version that listed them.
Init ==
    /\ page = Opened
    /\ loading = [t \in Tabs |-> FALSE]
    /\ store \in [rules : {{}}, legacy : BOOLEAN, port : {NoPort, DefaultPort},
                  token : {NoToken}]
    /\ popup = Closed
    /\ alarm = FALSE
    /\ job = [j \in Jobs |-> Idle]
    /\ up = TRUE
    /\ byTab = [t \in Tabs |-> NoRecord]
    /\ spent = [visits |-> 0, saves |-> 0, stops |-> 0]
    /\ told = None
    /\ allowed = [j \in Jobs |-> {}]
    /\ visited = [t \in Tabs |-> {Opened[t]} \ {None}]
-----------------------------------------------------------------------------
(***************************************************************************)
(* The user and the browser.                                                *)
(***************************************************************************)
Spend(what, bound) ==
    /\ spent[what] < bound
    /\ spent' = [spent EXCEPT ![what] = @ + 1]

Show(t, p) ==
    /\ page' = [page EXCEPT ![t] = p]
    /\ loading' = [loading EXCEPT ![t] = TRUE]

\* The user opens a page, in an open tab or in a new one.
Visit(t, p) ==
    /\ page[t] # p
    /\ Spend("visits", MaxVisits)
    /\ Show(t, p)
    /\ UNCHANGED <<store, popup, alarm, job, iris, told>>

CloseTab(t) ==
    /\ page[t] # None
    /\ Spend("visits", MaxVisits)
    /\ page' = [page EXCEPT ![t] = None]
    /\ loading' = [loading EXCEPT ![t] = FALSE]
    /\ UNCHANGED <<store, popup, alarm, job, iris, told>>

\* Chrome ends the worker: its handlers stop where they are.  Any of the POSTs
\* under way may have left already and still arrive, which is all that is then
\* left of its handler.
WorkerStops ==
    /\ \E j \in Jobs : job[j] # Idle
    /\ Spend("stops", MaxStops)
    /\ \E sent \in SUBSET {j \in Jobs : job[j].at = "post"} :
          job' = [j \in Jobs |-> IF j \in sent THEN [job[j] EXCEPT !.todo = {}] ELSE Idle]
    /\ UNCHANGED <<chrome, store, popup, alarm, iris, told>>
-----------------------------------------------------------------------------
(***************************************************************************)
(* The popup.                                                               *)
(***************************************************************************)
PopupOnly == UNCHANGED <<chrome, alarm, job, iris>>

OpenPopup ==
    /\ popup.at = "closed"
    /\ spent.saves < MaxSaves
    /\ popup' = [popup EXCEPT !.at = "port"]
    /\ PopupOnly /\ UNCHANGED <<store, spent, told>>

ClosePopup ==
    /\ popup.at # "closed"
    /\ popup' = Closed
    /\ PopupOnly /\ UNCHANGED <<store, spent, told>>

\* init reads port and token; a port that is not stored yet will be.
InitReadsPort ==
    /\ popup.at = "port"
    /\ popup' = [popup EXCEPT !.at = "rules",
                              !.defaulting = @ \/ store.port = NoPort]
    /\ PopupOnly /\ UNCHANGED <<store, spent, told>>

InitStoresPort ==
    /\ popup.defaulting
    /\ store' = [store EXCEPT !.port = DefaultPort]
    /\ popup' = [popup EXCEPT !.defaulting = FALSE]
    /\ PopupOnly /\ UNCHANGED <<spent, told>>

\* init reads the rules and renders a box for each rule there is.
InitShowsRules ==
    /\ popup.at = "rules" /\ ~popup.defaulting
    /\ popup' = [popup EXCEPT !.at = "shown", !.boxes = InForce]
    /\ PopupOnly /\ UNCHANGED <<store, spent, told>>

ToggleRule(rule) ==
    /\ popup.at = "shown"
    /\ popup' = [popup EXCEPT !.boxes =
                    IF rule \in @ THEN @ \ {rule} ELSE @ \cup {rule}]
    /\ PopupOnly /\ UNCHANGED <<store, spent, told>>

\* collectSelectedRules: none while no box has been rendered.
SelectedRules == popup.boxes

\* The button works as soon as the popup is open, with the boxes there are by
\* then.  A port that is no number is stored as null.
SaveSettings(port, token) ==
    /\ popup.at # "closed"
    /\ Spend("saves", MaxSaves)
    /\ store' = [rules |-> SelectedRules, legacy |-> FALSE,
                 port |-> port, token |-> token]
    /\ told' = SelectedRules
    /\ popup' = [popup EXCEPT !.at = "port"]
    /\ PopupOnly
-----------------------------------------------------------------------------
(***************************************************************************)
(* The service worker.                                                      *)
(***************************************************************************)
WorkerOnly == UNCHANGED <<popup, spent, told>>

\* Job j goes on to the await at, with the given locals.
Goes(j, locals) == job' = [job EXCEPT ![j] = locals]

\* onInstalled, and onStartup after a restart of Chrome.
CreateAlarm ==
    /\ ~alarm
    /\ alarm' = TRUE
    /\ WorkerOnly /\ UNCHANGED <<chrome, store, job, iris>>

OnAlarm(j) ==
    /\ alarm /\ job[j] = Idle
    /\ Goes(j, [Idle EXCEPT !.at = "config"])
    /\ WorkerOnly /\ UNCHANGED <<chrome, store, alarm, iris>>

\* tabs.onUpdated with status "complete": the address comes with the event.
OnUpdated(j, t) ==
    /\ loading[t] /\ job[j] = Idle
    /\ loading' = [loading EXCEPT ![t] = FALSE]
    /\ Goes(j, [Idle EXCEPT !.at = "config", !.tab = t, !.url = page[t]])
    /\ WorkerOnly /\ UNCHANGED <<page, store, alarm, iris>>

\* Handler j, with these locals, turns to one of the tabs it has to report, or
\* is done.
ToNextTab(j, rules, todo) ==
    \/ todo = {} /\ Goes(j, Idle)
    \/ \E t \in todo :
        Goes(j, [Idle EXCEPT !.at = "address", !.rules = rules, !.tab = t,
                             !.todo = todo \ {t}])

\* With the rules it will go by to its end, a handler of the alarm asks for all
\* tabs, a handler of an event compares the address that came with it.
WithRules(j, rules) ==
    IF job[j].tab = None
    THEN Goes(j, IF rules = {} THEN Idle
                 ELSE [Idle EXCEPT !.at = "query", !.rules = rules])
    ELSE ToNextTab(j, rules, {t \in {job[j].tab} : Allowed(job[j].url, rules)})

\* loadConfig of the handler.
ReadRules(j) ==
    /\ job[j].at = "config"
    /\ IF store.legacy
       THEN Goes(j, [job[j] EXCEPT !.at = "migrate", !.found = InForce])
       ELSE WithRules(j, store.rules)
    /\ WorkerOnly /\ UNCHANGED <<chrome, store, alarm, iris>>

\* loadConfig once more in pushTab, for port and token only.
ReadAddress(j) ==
    /\ job[j].at = "address"
    /\ Goes(j, [job[j] EXCEPT !.token = store.token,
                    !.port = IF store.port = NoPort THEN DefaultPort ELSE store.port,
                    !.at = IF store.legacy THEN "remigrate" ELSE "tab",
                    !.found = IF store.legacy THEN InForce ELSE {}])
    /\ WorkerOnly /\ UNCHANGED <<chrome, store, alarm, iris>>

\* Either of them writes the rules it found, and clears the list of tabs.
Migrate(j) ==
    /\ store' = [store EXCEPT !.rules = job[j].found, !.legacy = FALSE]
    /\ \/ job[j].at = "migrate" /\ WithRules(j, job[j].found)
       \/ job[j].at = "remigrate" /\ Goes(j, [job[j] EXCEPT !.at = "tab", !.found = {}])
    /\ WorkerOnly /\ UNCHANGED <<chrome, alarm, iris>>

\* The alarm reports all tabs that match, unless there is no rule.
Query(j) ==
    /\ job[j].at = "query"
    /\ ToNextTab(j, job[j].rules,
                 {t \in Tabs : page[t] # None /\ Allowed(page[t], job[j].rules)})
    /\ WorkerOnly /\ UNCHANGED <<chrome, store, alarm, iris>>

\* Faulty: the tab is taken to show what it showed when it was listed.
GetTabUnchecked(j) ==
    /\ job[j].at = "tab"
    /\ IF page[job[j].tab] # None
       THEN Goes(j, [job[j] EXCEPT !.at = "text", !.url = page[job[j].tab]])
       ELSE ToNextTab(j, job[j].rules, job[j].todo)
    /\ WorkerOnly /\ UNCHANGED <<chrome, store, alarm, iris>>

\* pushTab looks again what the tab shows, and whether the rules allow that.
GetTab(j) ==
    LET p == page[job[j].tab] IN
    /\ job[j].at = "tab"
    /\ IF p # None /\ Allowed(p, job[j].rules)
       THEN Goes(j, [job[j] EXCEPT !.at = "text", !.url = p])
       ELSE ToNextTab(j, job[j].rules, job[j].todo)
    /\ WorkerOnly /\ UNCHANGED <<chrome, store, alarm, iris>>

\* What a script run in tab t returns: something of the page the tab shows by
\* now, or nothing when it has no body yet, is closed or must not be read.
ScriptReads(t) ==
    IF page[t] = None \/ ~UrlOf[page[t]].readable THEN {None}
    ELSE {page[t]} \cup (IF loading[t] THEN {None} ELSE {})

ReadText(j) ==
    /\ job[j].at = "text"
    /\ \E p \in ScriptReads(job[j].tab) :
        Goes(j, [job[j] EXCEPT !.text = p,
                    !.at = IF IsSearch(UrlOf[job[j].url]) THEN "links" ELSE "post"])
    /\ WorkerOnly /\ UNCHANGED <<chrome, store, alarm, iris>>

\* Faulty: one delay too many.
ReadLinksOnceMore(j) ==
    /\ job[j].at = "links"
    /\ Goes(j, IF job[j].tries < Tries
               THEN [job[j] EXCEPT !.tries = @ + 1]
               ELSE [job[j] EXCEPT !.at = "post", !.tries = 0])
    /\ WorkerOnly /\ UNCHANGED <<chrome, store, alarm, iris>>

\* YouTube builds its results late, so an empty answer is asked for again.
ReadLinks(j) ==
    /\ job[j].at = "links"
    /\ \/ \E p \in ScriptReads(job[j].tab) \ {None} :
            /\ IsYoutube(UrlOf[p])
            /\ Goes(j, [job[j] EXCEPT !.at = "post", !.tries = 0])
       \/ Goes(j, IF job[j].tries + 1 < Tries
                  THEN [job[j] EXCEPT !.tries = @ + 1]
                  ELSE [job[j] EXCEPT !.at = "post", !.tries = 0])
    /\ WorkerOnly /\ UNCHANGED <<chrome, store, alarm, iris>>

\* Faulty: one record for the browser, not one for each tab.
IngestForAll(t, record) == byTab' = [u \in Tabs |-> record]

\* Faulty: a record is kept, not replaced.
IngestOnce(t, record) ==
    byTab' = IF byTab[t] # NoRecord THEN byTab ELSE [byTab EXCEPT ![t] = record]

\* BrowserTabMonitor.ingest, in a thread of the receiver; on_payload and the
\* monitor judge the address once more.
Ingest(t, record) ==
    byTab' = IF UrlOf[record.url].sensitive THEN byTab
             ELSE [byTab EXCEPT ![t] = record]

\* The POST reaches Iris and its token is accepted, or it is lost: an error of
\* fetch and the status of the answer are ignored alike.
Reaches(j) ==
    /\ up /\ job[j].port = IrisPort
    /\ IrisToken \in {NoToken, job[j].token}

Post(j) ==
    /\ job[j].at = "post"
    /\ IF Reaches(j)
       THEN Ingest(job[j].tab, [url |-> job[j].url, text |-> job[j].text])
       ELSE UNCHANGED byTab
    /\ ToNextTab(j, job[j].rules, job[j].todo)
    /\ WorkerOnly /\ UNCHANGED <<chrome, store, alarm, up>>
-----------------------------------------------------------------------------
(***************************************************************************)
(* Iris.                                                                    *)
(***************************************************************************)
IrisOnly == UNCHANGED <<chrome, store, popup, alarm, job, told>>

IrisStops ==
    /\ up /\ Spend("stops", MaxStops)
    /\ up' = FALSE
    /\ byTab' = [t \in Tabs |-> NoRecord]
    /\ IrisOnly

IrisStarts ==
    /\ ~up /\ up' = TRUE
    /\ IrisOnly /\ UNCHANGED <<byTab, spent>>
-----------------------------------------------------------------------------
User ==
    \/ \E t \in Tabs : CloseTab(t) \/ \E p \in Pages : Visit(t, p)
    \/ OpenPopup \/ ClosePopup
    \/ \E rule \in Rules : ToggleRule(rule)
    \/ \E port \in Ports \cup {NoPort}, token \in Tokens : SaveSettings(port, token)
    \/ WorkerStops \/ IrisStops

PopupStep == InitReadsPort \/ InitStoresPort \/ InitShowsRules

JobStep(j) ==
    \/ ReadRules(j) \/ ReadAddress(j) \/ Migrate(j) \/ Query(j)
    \/ GetTab(j) \/ ReadText(j) \/ ReadLinks(j) \/ Post(j)

Event(j) == OnAlarm(j) \/ \E t \in Tabs : OnUpdated(j, t)

\* What the properties remember of a step.
Remember ==
    /\ visited' = [t \in Tabs |-> visited[t] \cup ({page'[t]} \ {None})]
    /\ allowed' = [j \in Jobs |->
                    IF job'[j] = Idle THEN {}
                    ELSE allowed[j] \cup {p \in Pages : Allowed(p, InForce')}]

Next ==
    /\ \/ User \/ PopupStep \/ CreateAlarm \/ IrisStarts
       \/ \E j \in Jobs : Event(j) \/ JobStep(j)
    /\ Remember

Spec == Init /\ [][Next]_vars

\* The alarm comes back every minute, Chrome resumes a handler when what it
\* awaits is there, reports a page that has loaded, and Iris is started again.
\* The event is strongly fair because it has to find a job idle, for which the
\* code, having no bound on its handlers, does not wait.
Fairness ==
    /\ \A j \in Jobs : WF_vars(JobStep(j) /\ Remember)
    /\ WF_vars((\E j \in Jobs : OnAlarm(j)) /\ Remember)
    /\ SF_vars((\E j \in Jobs, t \in Tabs : OnUpdated(j, t)) /\ Remember)
    /\ WF_vars(CreateAlarm /\ Remember) /\ WF_vars(IrisStarts /\ Remember)

FairSpec == Spec /\ Fairness
-----------------------------------------------------------------------------
\* A handler goes by the rules it read at its start, while the user may take
\* them back and the tab may move on (background.js:90-93).  Still, the page it
\* reports is one that some rules in force since it began allow.
PushIsAllowed ==
    \A j \in Jobs : job[j].at \in {"text", "links", "post"} => job[j].url \in allowed[j]

\* Whatever is revoked, closed, delayed or sent twice on the way, Iris only
\* ever takes a tab to be at a page it has shown, and never at a sensitive one
\* (background.js:90-127, browser_tab_monitor.py:43-72).
Window == INSTANCE TabWindow
    WITH Public <- {p \in Pages : ~UrlOf[p].sensitive},
         shown <- visited, known <- [t \in Tabs |-> byTab[t].url]

ImplementsWindow == Window!WindowSpec

\* The extension may report tab t and knows how to reach Iris.
Reported(t) ==
    /\ page[t] # None /\ Allowed(page[t], InForce)
    /\ up /\ store.port \in {IrisPort, NoPort} /\ (store.port = NoPort => DefaultPort = IrisPort)
    /\ IrisToken \in {NoToken, store.token}

\* Reports overtake each other and the one that arrives last wins, whatever
\* its timestamp (browser_tab_monitor.py:57-64).  Once the user has stopped
\* browsing, Iris holds the page of each tab it may know of, for good.
FeedSettles ==
    \A t \in Tabs :
        <>[](Reported(t) => /\ byTab[t].url = page[t]
                            /\ UrlOf[page[t]].readable => byTab[t].text = page[t])

\* popup.js:90-94: "saved", the popup says, and with no rule ticked "nothing is
\* sent to Iris": the rules stored are from then on the rules it reported.
SavedSettingsHold == told # None => store.rules = told
=============================================================================
