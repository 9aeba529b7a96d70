# IRIS: specifications

IRIS is a desktop assistant for Windows (Python, PyQt6; `src/iris/iris/`). A user speaks or
types; IRIS answers, or acts on the desktop through a computer-use (CU) agent. What the agent
does is recorded as *tasks* with plans, steps, action proposals, approval requests and execution
attempts in SQLite, so that a risky action waits for a yes and an interrupted task can be resumed.
Two programs keep IRIS informed of what the user sees: an extension of Chrome
(`src/chrome-extension/`) reports the tabs the user has allowed it to, and an extension of the Theia
editor embedded in IRIS (`src/iris-ide/theia-extensions/iris-bridge/`) reports the open files.

This directory holds TLA+ models of that system, the TLC configurations that check them on small
instances, and TLAPS proofs. Below, paths of Python files are relative to `src/iris/iris/`, all
others to `src/`.

    tlc -workers 2 -config OneTurn.cfg MCExecutionCoordinator.tla
    tlc -workers 2 -config PlanSession.cfg MCPlanLoop.tla
    tlc -workers 2 -config TabFeed.cfg MCTabFeed.tla
    tlc -workers 2 -config IdeBridge.cfg MCIdeBridge.tla
    tlapm ExecutionCoordinator_proofs.tla
    tlapm ExecutionCoordinatorOneTurn_proofs.tla
    tlapm PlanLoop_proofs.tla
    tlapm PlanLoopEnds_proofs.tla
    tlapm TabFeed_proofs.tla
    tlapm IdeBridge_proofs.tla

## 1. The system

| Component | State it keeps | Operations | Hard behaviour |
|---|---|---|---|
| Task lifecycle (`domain/task`) | `tasks.status` | `transition_to`, the table of `transitions.py` | a refused transition is silent: it returns the old object |
| Execution pipeline (`application/execution_coordinator.py`, `approval_service.py`, `task_service.py`, `verification_service.py`, `recovery_service.py`) | rows of proposals, approvals, attempts, plan steps, tasks, results, checkpoints | propose, ask, grant, deny, execute, record, verify, resume, abandon | every repository call commits alone; check and act are separate commits; whole rows are written from in-memory copies |
| Task runtime adapter (`infrastructure/adapters/cu_task_adapter.py`) | one copy of the task; last proposal and approval id; the "ad-hoc" step; skill verdict | `begin_cu_session`, `attach_task`, `on_tool_execute`, `execute_tool_step`, `on_approval_granted`, `on_checkpoint_verified`, ... | shared by all threads, without a lock |
| Turn coordinator, recovery turns (`assistant/turn_coordinator.py`, `recovery_turn_handler.py`) | the open dialogue (`ctx.pending_cu`), `ctx.active_task_id` | answer an approval (approve, reject, clarify, unrelated), CONTINUE, STATUS, CANCEL, route a new utterance | an LLM call lies between reading the dialogue and acting on it |
| CU agent (`assistant/computer_use_agent.py`) | one session: plan, checkpoints, repair budget | plan, act, verify, repair, finish | nested repairs, budgets, a session that ends without finishing its task |
| Window and workers (`ui/main_window.py`, `ui/workers.py`) | running `AgentWorker` threads | one thread for each utterance; recovery check at start-up | utterances overlap: nothing waits for the previous one |
| Chrome extension (`chrome-extension/background.js`, `popup.js`, `url_rules.js`) | rules, port, token and an old list of tab ids in `chrome.storage.local`; the locals of each handler | on a tick of the alarm or a page that has loaded: read the settings, list the tabs, read address and text of each, POST them; the popup shows and saves the settings | handlers give way at every await and overlap; settings and tabs change in between; the worker is ended at any time |
| Tab receiver (`monitoring/extension_server.py`, `browser_tab_monitor.py`) | the last record of each tab | judge and store a report | one thread for each request; the report that arrives last wins |
| IDE bridge, frontend (`iris-ide/theia-extensions/iris-bridge/src/browser/iris-bridge-contribution.ts`) | the last editor state sent | report editors and the active file, fetch commands | requests overtake each other, get lost and are not repeated; polls overlap; the frontend is reloaded |
| IDE bridge, IRIS (`infrastructure/ide/ide_bridge_client.py`) | editor state, context, queued commands | apply a state or a context, hand out commands | changes leave for the window's thread as queued signals |
| IDE page (`ui/workspaces/ide_workspace_page.py`, `ui/ide/ide_shell_layout.py`, `ui/ide/ide_bridge_relay.py`, `ui/main_window.py`) | welcome, folder, title | arrange the page by an editor state, enter, leave, retry | signals handled on another page are dropped; entering resets the layout |
| Voice session (`audio/voice_session.py`, `continuous_listen.py`, `barge_in.py`, `tts_manager.py`) | listening state, playback, completion callback | listen, transcribe, speak, barge in | callbacks of a finished playback or transcription arriving late |
| IDE backend (`infrastructure/ide/ide_backend_manager.py`) | child process, readiness | ensure running, health probe, shutdown | early exit against a time-out |
| Monitoring (`monitoring/`) | last state and last alert of a target | poll, detect, notify | cooldown and suppressed alerts |
| Knowledge base (`application/knowledge_service.py`) | sources with hashes, wiki pages | sync, remove, search | a source changing under the sync |
| Routers, skills, language models, web agent, UI, settings | | | pattern tables, scripted I/O and presentation |

How they interact. The window starts an `AgentWorker` for every utterance. It calls
`TurnCoordinator.run_turn`, which first looks at the open dialogue, then at recovery commands and
then routes; a desktop goal enters `ComputerUseAgent.run`. The agent calls the adapter for
everything that is to be remembered, and the adapter calls the services, each of which loads,
changes and stores rows through a repository. All threads share one `CuTaskAdapter`, one
`DialogueContext` and one SQLite connection, whose lock covers a single statement and its commit
(`storage/database.py:21-49`).

The extension POSTs what it reads to the receiver, a thread of IRIS, with the port and the token
from its settings; nothing goes back. The Theia extension POSTs editor states and contexts to the
bridge and fetches commands from it every 1.5 s; the bridge tells the window of every changed editor
state by a Qt signal. The two channels have the same shape, reports of a changing world that may be
late, lost or overtaken, and share the abstract specification `TabWindow`.

What makes it correct:

* nothing the user was asked about happens without a yes to that tool with those arguments;
* what is granted happens at most once; what is denied, never;
* the attempt rows say what was done, even if the process dies between any two statements;
* a dialogue that is shown can be answered, and its answer concerns what it shows;
* a task that is over stays over, and a step is SUCCEEDED because its own tool ran;
* a cancelled task asks nothing more; a resumed one resumes where it was;
* a session ends, whatever the model answers; it runs no plan item twice, and reports
  success only for what it verified;
* the extension reports only pages that rules in force since its handler began allow; settings the
  user was told are saved are the settings from then on;
* IRIS takes a tab, or the editor, to be at a page it has shown and that may be told; when the user
  has stopped browsing it comes to hold the page that is shown, and in the editor the newest report
  is enough for IRIS and the editor to agree;
* the IDE page shows what the bridge says; a command for the editor is carried out at most once.

`PROJECT.json` lists the components and the hazards one by one, with the lines where they bite.

## 2. The modules

| Module | Models | Kind |
|---|---|---|
| `TaskLifecycle` | the table of task transitions, `transition_to`, the blind row write | operators |
| `ExecutionCoordinator` | the pipeline of one task with its turns, dialogue, recovery commands and restarts | state machine |
| `ApprovalGate` | what the pipeline promises about each action: asked, then granted or refused once, then done at most once | abstract specification |
| `MCExecutionCoordinator` | constants, symmetry and view for TLC | instance |
| `PlanLoop` | one computer-use session: the plan, act, verify and repair loop, the one-step planner, the session resumed after an approval | state machine |
| `MCPlanLoop` | a set of small plans | instance |
| `UrlRules` | `url_rules.js`: which pages the rules allow, the rules old settings stand for | operators |
| `TabFeed` | the extension's handlers and popup, the storage they share, the tabs, and the receiver | state machine |
| `TabWindow` | what IRIS may know of something that shows pages: for each tab a page it has shown and that may be told, or nothing | abstract specification |
| `IdeBridge` | editor, contribution, requests on their way, bridge, signals and IDE page | state machine |
| `MCTabFeed`, `MCIdeBridge` | four pages and their addresses; two files and their languages | instances |
| `ExecutionCoordinator_proofs`, `PlanLoop_proofs`, `TabFeed_proofs`, `IdeBridge_proofs` | the theorems about these modules | proofs |
| `ExecutionCoordinatorOneTurn_proofs` | what holds of the pipeline when the user waits for each answer | proofs |
| `PlanLoopEnds_proofs` | why a session cannot go on for ever | proofs |

`TabFeed` and `IdeBridge` both implement `TabWindow`: the tabs of Chrome with their pages, and the
one editor with its files.

### ExecutionCoordinator and the code

*Turns.* A member of `Turns` is an `AgentWorker` thread, used again once its turn has ended.
`pc[t]` says where it is and `job[t]` holds its local variables. `{t1}` is the program as used by
somebody who waits for every answer; two turns are two overlapping utterances, which the window
allows.

*State.* `saved`, `attempts`, `approvals`, `stepRow` and `taskRow` are the rows of the database and
survive a restart. `held`, `lastProp`, `lastApr` and `checkStep` are the adapter's fields `_task`,
`_last_proposal_id`, `_last_approval_id` and `_adhoc_step`. `pending` and `active` are
`ctx.pending_cu` and `ctx.active_task_id`, and `slots` the ids in the dialogue's slots. `ran` (the
calls of tools) and `granted` (the requests ever granted) exist only for the properties: no guard
reads them.

*Atomicity.* One action is one committed write, with the reads and assignments in memory up to the
next commit. A read on which a later write depends is an action of its own: `GrantRead` and
`GrantWrite`, `ExecuteProposal` and `SaveAttempt`, `AbandonRead`, `AbandonDeny` and
`AbandonCancel`. There is one coarser step: `RecoveryResume` takes `mark_task_interrupted` and
`resume_task` together, because they follow each other on the same row in one handler.

*Paths.*

| Path in the code | Actions |
|---|---|
| `run_turn` reads the dialogue, an LLM classifies the answer | `BeginTurn` |
| `_handle_pending_cu_followup`: CLARIFY, UNRELATED, REJECT, APPROVE | `AnswerClarify`, `AnswerUnrelated`, `AnswerReject`, `AnswerApprove` |
| `on_approval_granted`: `grant`, then `resume_task` | `GrantRead`, `GrantWrite`, `ResumeTask` |
| `execute_proposal`: duplicate check and validation | `ExecuteProposal` |
| a dialogue whose slots have no ids: `execute_tool_step` | `Repropose` |
| `execute_step`: policy, approval, run, record, observe | `Propose`, `PolicyDeny`, `MarkWaiting`, `CreateRequest`, `SuspendForApproval`, `BindDialog`, `MarkStarted`, `SaveAttempt`, `RunTool`, `RecordAttempt`, `Observe` |
| checkpoint or launch verification after the tool | `VerifyCheckpoint`, `VerifyLaunch`, `SkipVerify` |
| `_finish_cu_session`; LLM unavailable; chat; a new goal, with or without a full plan | `FinishSession`, `LlmUnavailable`, `Chat`, `RunGoal`, `StartSession` |
| `abandon_task` | `AbandonRead`, `AbandonDeny`, `AbandonCancel` |
| `try_handle_recovery_turn` | `RecoveryCommand`, `RecoveryStatus`, `RecoveryCancel`, `RecoveryContinue`, `RecoveryResume` |
| the process dies and starts again | `Restart` |

*Abstractions.* A proposal has a key (tool and hash of the arguments) and a step; two proposals
with one key are a retry. Whether the policy denies a proposal or wants approval is a constant, and
depends on the key only (`PolicyAssumption`), because `evaluate` looks at tool and arguments. A
tool run is a call that succeeds or fails. What an LLM answers is a free choice. Skills and quick
launches reach `execute_step` with `approved=True` and are covered as proposals that need no
approval. Approval requests carry no expiry: no caller of `create_request` passes `expires_at`.
A dialogue is opened with a copy of the session's slots. In a session that goes on after an approval
they still name the earlier request, until `BindDialog` replaces them; which earlier ids they hold
is a free choice (`EarlierIds`). Approving attaches the task only when the slots or `active_task_id`
name it (`AttachNamed`).

### PlanLoop and the code

`ExecutionCoordinator` looks at one tool call among concurrent turns; `PlanLoop` looks at one
session, one thread, from `ComputerUseAgent.run` to `_finish_cu_session`. The two meet at the
approval (`AskApproval` here is `Propose` to `BindDialog` there) and at the end of a session
(`outcome` says which operation on the task it calls). They are not composed yet.

*State.* The code is nested loops. `loc` is the innermost loop the session is in; `back` is the call
a verification returns to and `repair.caller` the call a repair returns to, so the two together are
the call stack. `plan`, `ctx` are `ComputerUseContext`; `at` is the loop variable of
`_iterate_full_plan_items` and `after` its `start_after_index`; `repair` and `planner` are the
locals of the repair and of the one-step planner; `pending` is `PendingComputerUseGoal`. Of the
observations the model keeps how many follow the last `tool_fail:` (`ctx.since`), which is all that
`has_recent_tool_fail` sees. `hist` exists only for the properties.

*Paths.*

| Path in the code | Actions |
|---|---|
| `_run_full_plan_session`: no answer, no plan, a plan | `PlannerSilent`, `NoPlan`, `WritePlan` |
| `_iterate_full_plan_items` | `SkipItem`, `AskUser`, `ItemNeedsApproval`, `ItemFails`, `ItemRuns`, `PlanDone` |
| `_run_checkpoint_verify`: blocked by the gate, judged | `VerifyBlocked`, `VerifyJudged` |
| `_run_repair_for_checkpoint`: head of the loop, template, repair planner | `RepairNothing`, `UseTemplate`, `NoTemplate`, `RepairGivesUp`, `RepairUnusable`, `RepairAsksUser`, `RepairPlanned` |
| `_execute_repair_steps` | `StepNeedsApproval`, `StepFails`, `StepRuns`, `StepsDone` |
| `_run_step_planner_session`, `_execute_parsed_step` | `StepSilent`, `StepUnread`, `CompleteRefused`, `StepActs`, `StepEnds`, `PlannerNeedsApproval`, `StepsUsedUp` |
| `resume_after_critical_approval`: blocked, failed, done | `ApprovedBlocked`, `ApprovedFails`, `ApprovedRuns` |

One action is the code between two answers of the outside world (model, tool, screen, user): the
thread shares nothing of this state with another.

*Abstractions.* A plan item has its index, whether it has a checkpoint, and whether it acts, looks
or asks. A verdict is its `achieved` and whether its failure kind has a mechanical template. Which
checkpoint is judged, and from what evidence, is a free choice of verdict. A failure of the one-step
planner's tool is an observation and no action of its own.

### TabFeed and the code

*Handlers.* The service worker is one JavaScript thread and starts a handler for every tick and
every page that has loaded. A member of `Jobs` is a handler, free again when it has ended;
`job[j].at` is the await it is in, and one action is the code from that await to the next. Popup,
user and browser act in between.

*State.* `store` is `chrome.storage.local`: `enabledRules`, the port, the token and, as `legacy`,
whether `enabledTabIds` still lists tabs. `popup.boxes` are the boxes ticked, `popup.defaulting` the
write of the default port that `init` has begun. `job[j]` holds the locals of a handler: `rules` it
goes by, `found` in settings it is about to migrate, the tabs `todo`, the `tab` in hand with its
`url` and `text`. `byTab` is `BrowserTabMonitor._by_tab`. `allowed`, `visited` and `told` exist only
for the properties; no guard reads them.

| Path in the code | Actions |
|---|---|
| `onInstalled`, `onStartup`; `alarms.onAlarm`; `tabs.onUpdated` | `CreateAlarm`; `OnAlarm`; `OnUpdated` |
| `loadConfig` of a handler, with and without the migration of old settings | `ReadRules`, `Migrate` |
| `pushAllMatchingTabs`: list the tabs, go through them one by one | `Query`, `ToNextTab` |
| `pushTab`: `loadConfig` once more, look at the tab again, read its text, its links, POST | `ReadAddress`, `Migrate`, `GetTab`, `ReadText`, `ReadLinks`, `Post` |
| receiver: token, `on_payload`, `ingest` | `Reaches`, `Ingest` |
| popup: `init`, boxes, `saveSettings` | `OpenPopup`, `InitReadsPort`, `InitStoresPort`, `InitShowsRules`, `ToggleRule`, `SaveSettings`, `ClosePopup` |
| the user browses; Chrome ends the worker; IRIS ends and starts | `Visit`, `CloseTab`; `WorkerStops`; `IrisStops`, `IrisStarts` |

*Abstractions.* A url is what the rules tell apart of it: the labels of its host, whether it holds
one of the sensitive words, whether it is a page of search results, and whether the manifest lets
the extension read the page. A text is represented by the page it was read from, so that text and
address of different pages can be told apart. Links to videos are left out, the time a handler waits
for them is kept (three attempts, of which the delays of 400 and 1200 ms are the freedom of a
handler to stay where it is). When Chrome ends the worker, each POST under way is either dropped or
may still arrive; nothing else of the handlers is left.

### IdeBridge and the code

*State.* `editors` and `current` are `editorManager.all` and `currentEditor`; an editor that is
being disposed of has left the first and may still be the second. `signature` is
`lastEditorSignature`. `states` and `contexts` are the POSTs on their way, numbered as they are
sent, and `answers` the lists of commands fetched and not yet worked off. `state`, `context` and
`pending` are the fields of `IdeBridgeClient`, `signals` the `editor_state_changed` signals in the
queue of the window's thread, `mode` and `page` the workspace and the IDE page. The numbers sent and
applied last, `shown`, `opened` and `fresh` exist only for the properties.

| Path in the code | Actions |
|---|---|
| `onStart`; `onCreated`, `disposed`, `onCurrentEditorChanged` | `OnStart`; `Open`, `Close`, `ChangeCurrent` |
| `pushEditorState`, `pushContext`; a request that fails | `PushEditorState`, `PushContext`; `LoseState`, `LoseContext` |
| `pullCommands`: the request, each command of an answer, an answer or editor that fails | `PullCommands`, `HandleCommand`, `DropCommands` |
| `do_POST`, `do_GET` of the bridge; `queue_command` | `ApplyEditorState`, `ApplyContext`, `PullCommands`; `QueueCommand` |
| `_on_ide_editor_state_changed` and `set_editor_state` | `OnEditorStateChanged`, `Arranged` |
| `switch_to_ide_workspace`; another workspace; folder opened; retry | `SwitchToIde`; `SwitchAway`; `OnFolderOpened`; `Reload` |

*Abstractions.* The bridge is a server that handles one request at a time, so a request is one step.
Of a context the file is kept, not selection, text or workspace. Nothing in the repository calls
`queue_command` yet; it is modelled as a method whose caller may come at any time. A poll that finds
nothing changes nothing and is left out. Creating an editor and making it current are two events of
Theia, and two actions. A POST of a frontend that has been reloaded may still arrive.

## 3. The runs

| Run | Instance | What it shows |
|---|---|---|
| `one_turn` | one turn; `c1`, `c2` the same critical call proposed twice, `n1` allowed, `d1` denied; one restart anywhere | the pipeline implements `ApprovalGate`; no proposal runs twice; an open dialogue can be answered; types, authorisation and truthful attempts |
| `two_turns` | two turns; `c1`, `c2`; no restart | authorisation and truthful attempts survive every interleaving |
| `approved_twice` | two turns, one proposal | **violated**: the same approved proposal runs twice |
| `terminal_reopened` | one turn | **violated**: a completed task is written again |
| `wrong_step_settled` | one turn | **violated**: a step succeeds that was never run |
| `plan_session` | three plans of one to three items, two approvals anywhere | no item runs twice, no refused checkpoint is passed, each step brings the session nearer to its end, every session ends; types |
| `success_unverified` | the same plans, the shipped tools | **violated**: success with an unconfirmed checkpoint |
| `tab_feed` | two tabs, two handlers at once; an allowed and a sensitive page; two moves of the user in the browser, one save | what is reported was allowed by rules in force since the handler began; the feed implements `TabWindow`; types |
| `tab_feed_settles` | one tab, two handlers; a page of results, a video, a page no rule is about; one move, one save, and one stop of worker or IRIS | IRIS comes to hold the page of every tab it may know of, and keeps it |
| `settings_overwritten` | two tabs, two handlers, one save | **violated**: the settings the user saved are overwritten |
| `ide_bridge` | a file that may be attached and one that may not; two events in the editor, three moves between the pages, two commands, one loss | IRIS and the editor agree when the newest report is the last applied; the page follows; a command is carried out at most once; the bridge implements `TabWindow`; types |
| `welcome_covers_editor` | the same files, no commands, no loss | **violated**: the welcome covers an open editor |

Why the bounds are enough. The interesting interactions need two requests of one task (an orphaned
and a current one), two of the same key (a retry that could use the old answer), one call that needs
no approval, one that is refused, and one restart. A second restart adds nothing while one task is
modelled with no row that only a restart reads; what a second restart does to an approval whose
checkpoint is older than the one the first restart wrote is planned for `TaskSession`. Two turns
show every pairwise race. The proofs of section 4 cover any number of proposals and restarts;
authorisation and truthful attempts also any number of turns, the other results one turn at a time.

`two_turns` uses symmetry between the turns and between `c1` and `c2`, which have the same key,
step and policy, so both permutations are automorphisms of the model. `one_turn` and `two_turns`
share a view that leaves out `stepRow` and `checkStep`: no guard reads them, and of their properties
only the conjuncts of `TypeOK` about these two variables do, which `TypeCorrect` proves.

Deadlock is checked in these runs: a turn can always begin.

`TabFeed` needs two handlers for a report to overtake another, two tabs for records to be mixed up
and for a handler to have a tab left to report, two moves so that a tab goes to a page and away
again under a handler, and a save while a handler is at any await. Two jobs are symmetric: the code
does not know which handler it is. There is one port, which the user leaves or clears, and no token:
a wrong one only loses reports, as a stopped IRIS does in `tab_feed_settles`. The rule is the one
old settings stand for; the others of `UrlRules` only take other hosts. `IdeBridge` needs two events
for a state to be overtaken by the next, three moves to leave the IDE page and come back, two
commands for one answer to be worked off while another is fetched, and one loss; the proofs of
section 4 cover any number of each. The bounds are named `MaxVisits`, `MaxSaves`, `MaxStops`,
`MaxEvents`, `MaxMoves`, `MaxCommands` and `MaxLost`. They bound the user, the browser and the
network, never the code; when they are used up nothing more may happen, so these runs say
`CHECK_DEADLOCK FALSE`.

`FeedSettles` is the one liveness property of `TabFeed`. Fairness: the alarm is created and comes
back every minute, a handler is resumed when what it awaits is there, and IRIS is started again
(weak fairness of each). The event of a page that has loaded is strongly fair: in the model it has
to find a job idle, of which there are two, while Chrome starts a handler at once. Nothing is
assumed of the user, who has a bounded number of steps. The property excuses a tab that is closed,
that the rules do not allow, or settings that do not reach IRIS. It needs the alarm: the page a lost
or overtaken report was about is not loaded again. No liveness is stated of `IdeBridge`: a lost POST
is not repeated, so IRIS may stay behind until the editor changes.

`PlanLoop` is checked with the code's own budgets (three repairs, three unreadable steps, three
refused completions, a window of ten observations). `MaxSteps` is 3, which makes a session meet the
step limit and the two counters at once; the code's 20 only adds steps of the same kind. Two steps
in a repair plan are enough for one to succeed and the next to fail; a plan of three items has a
checkpoint with items left to run after it, one of two ends with a checkpoint, and one asks the
user. `PlanMayAsk` says whether a tool that plans may contain is critical. With the shipped tools it
is FALSE: `run_shell` is the only critical one and barred from plans. TRUE stands for a tool added
with `register_tool`, for which the code has the branches; the passing run uses TRUE, which allows
every behaviour that FALSE allows.

The items of a plan are numbered from 0 in list order, as the planner's prompt asks. The parser
takes other numbers too. All that is said of `PlanLoop` except `NoItemRepeated` is proved for plans
numbered in any way. `NoItemRepeated` is proved for plans whose numbers do not decrease, with
approvals anywhere, and for plans numbered in any way when `PlanMayAsk` is FALSE, hence for the
shipped tools. It is false only where both are missing: with numbers 5, 1, 7, an approval at the
item 1 makes the session take the plan up after the number 1, and the item 5 runs again.

`SessionEnds` and `SessionGetsOn` differ in what they catch: a session that runs on without counting
an unreadable step may still be cut off by another budget, so that it ends, yet the step has brought
it no nearer to its end (`UncountedUnread`).

`MaxApprovals` bounds how often the user is asked: two, because
the place stored with a second approval builds on what the first resume made of the place stored
before.

`PlanLoop` assumes weak fairness of `Session`: the thread goes on by itself, and each call it makes
(model, tool, perception) returns, by its own time-out if need be. Nothing is assumed of the user:
an approval may stay open, which is why `SessionEnds` ends at "over or waiting for approval". Its
runs say `CHECK_DEADLOCK FALSE`, because a session ends.

No fairness is assumed of `ExecutionCoordinator`, and no liveness property is stated for it. The
next step depends on an LLM's answer and on the user: a turn may end anywhere, a request may stay
unanswered for ever, and the code has no timer that would settle it.

### What the properties do not say

* `PushIsAllowed` is about the address that is reported. The text is what the tab shows when the
  script runs, which may be a later page; such a mixed record is in the model, and `FeedSettles`
  says only that it does not last.
* `ImplementsWindow` and `ImplementsMirror` are about which page or file IRIS takes something to be
  at, not about how old that is.
* `StateCaughtUp` and `ContextCaughtUp` presuppose that the newest report is the last one applied:
  they say that no change in the editor goes unsent. Reports that are lost, or overtaken on the way,
  are in the model and leave IRIS behind; the code neither repeats nor orders requests, so no
  property claims more. `ContextCaughtUp` exempts a file that must not be attached, while which IRIS
  keeps the file before it.

`PROJECT.json` says the same at the hazards concerned.

### Findings

Six statements of the documentation, of the prompts, of the transition table and of what the user is
told are refuted; `PROJECT.json` quotes them. In short:

1. `execute_proposal` checks for an earlier success, validates and stores its attempt in separate
   commits; two overlapping "yes" run the tool twice (`approved_twice`).
2. The adapter's copy of a completed task stays RUNNING and is used for the next goal, so the
   table's terminal statuses are left (`terminal_reopened`). The table is enforced on objects, not
   on rows.
3. A checkpoint settles the step the adapter remembers, not the step that ran
   (`wrong_step_settled`).
4. A verifier that does not answer leaves no verdict, and a blocked verification leaves the previous
   one; the repair takes "none" and an older "achieved" as repaired, so the plan goes on unverified
   (`success_unverified`).
5. `loadConfig` writes back settings it read an await earlier. With settings of the version that
   listed tabs, a save in between is lost: the popup says that nothing is sent, and the YouTube rule
   is in force (`settings_overwritten`).
6. Entering the IDE page lays the welcome over it without asking the bridge for the editor state.
   The editor that stayed open has nothing new to report, so the welcome stays
   (`welcome_covers_editor`).

Two oddities of `PlanLoop` are in the model but are no findings, because they need a critical tool
that plans may contain and the shipped tool set has none. A repair resumed after an approval that
fails once more and is then repaired ends the session as failed (`RepairReturns`, caller
`resumed_repair`). And the number of a repair step is stored where a plan index is expected, so that
a second approval inside a repair resumes too far into the plan and skips items (`ResumedCtx`).

## 4. The proofs

### ExecutionCoordinator

`ExecutionCoordinator_proofs.tla` proves, for every value of the constants that satisfies
`ConstantsAssumption` and `PolicyAssumption`:

| Theorem | Statement |
|---|---|
| `TypeCorrect` | `Spec => []TypeOK` |
| `AuthorisedRuns` | `Spec => []RequestedRunsAreAuthorised` |
| `TruthfulAttempts` | `Spec => []AttemptRowsMatchCalls` |

The assumptions are what the code gives: the domains of the constants, and that policy looks at tool
and arguments only.

The argument. None of the three is inductive alone. `IInv` is the conjunction of

* `TypeInv`: `TypeOK`, and for a turn that has a proposal or an attempt in hand, that it has one;
* `AuthInv`: `MemoryOK` and `RowsOK` say that the adapter's and the dialogue's ids name existing
  rows (proposals that are saved, requests that exist) and that every GRANTED row is in `granted`;
  `TurnOK` says of every turn between policy and run that its proposal *may run*. `MayRun(p)` is the
  key idea: either a request with the key of `p` was granted, or `p` was never asked about and never
  will be (`Unrequested`: it is not critical, or its turn has passed the policy without asking). A
  request is made for `p` only by the turn that proposed `p`, while it is between `MarkWaiting` and
  `SuspendForApproval`, so another turn cannot turn a run without a request into one with a request
  that was not granted. `PolicyAssumption` is needed where an approval of one proposal lets another
  with the same key run.
* `AttemptInv`: an attempt is settled only after its call; a row `running` belongs to a turn at
  `run` or `record`, or there was a restart; two turns never have the same attempt in hand.

Each step lemma takes one action and shows the conjuncts it can disturb; the frame is in the lemmas
about the turns that do not move (`Others`, `Quiet`).

### ExecutionCoordinator, one turn at a time

Three results are false for overlapping turns, as `approved_twice` shows of the first of them, and
hold for a user who waits for each answer. `ExecutionCoordinatorOneTurn_proofs.tla` proves them for
any number of proposals, recovery commands and restarts under the hypothesis
`OneTurn == \A t, u \in Turns : t = u`, which each theorem states:

| Theorem | Statement |
|---|---|
| `RunsOnce` | `Spec => []NoDoubleExecution` |
| `DialogsAnswerable` | `Spec => []OpenDialogIsAnswerable` |
| `GateImplemented` | `Spec => ImplementsGate` |

`OneInv`, on top of `IInv`, is what makes them inductive.

* `RequestsOK`: a proposal has at most one request and one call, and if it has a request, the call
  comes after the grant.
* `DialogOK`: a dialogue is open only between turns and while it is being bound, answered or
  abandoned, and then its slots name a pending request of the proposal it shows. Without "only" a
  turn could take up a dialogue another turn has just answered.
* `AskingOK`: the planner's proposal is fresh, without request and call, until it is asked about or
  run. A turn therefore never makes a second request for one proposal.
* `AnswerOK`: the proposal of an answered dialogue has not been called, and runs only with its own
  request granted; a request about to be granted or denied is pending. Another turn could settle it
  between `GrantRead` and `GrantWrite`, which is the race the hypothesis excludes.

The refinement maps `CreateRequest` to `Ask`, `GrantWrite` to `Grant`, `AbandonDeny` to `Refuse` and
`RunTool` of a proposal with a request to `Do`. Every other step stutters (`GateQuiet`, `GateSteps`).

### PlanLoop

From `PlanLoopAssumption`: plans are sequences of items, the limits are natural numbers and the
one-step planner has at least one step. `Ordered`, the hypothesis of `ItemsRunOnce`, says that the
numbers of a plan's items do not decrease.

| Theorem | Statement |
|---|---|
| `TypeCorrect` | `Spec => []TypeOK` |
| `RefusedHoldsUp` | `Spec => RefusedCheckpointHolds` |
| `ItemsRunOnce` | `Ordered` implies `Spec => []NoItemRepeated` |
| `UnaskedItemsRunOnce` | `~PlanMayAsk` implies `Spec => []NoItemRepeated` |
| `SessionsGetOn` | `Spec => SessionGetsOn` |

*Types.* `TypeOK` is not inductive. `HandOK` adds that the item in hand exists while it is verified,
repaired or waits for an approval (a repair reads its number when it returns), and `BudgetOK` that
the attempts are within the budget wherever a repair may still follow.

*Refused checkpoints.* `VerdictOK`: where the next item is looked for, the last verdict is no
refusal. The only ways there are an achieved verdict, the head of the repair loop, which leaves only
without a refusal, and an item without a checkpoint.

*No item twice.* `OrderInv` relates three numbers that the code keeps apart:
`executed_through_index`, which no item that ran is above (`RanOK`); `start_after_index` together
with the position (`Behind`: what ran is before the position or not above `start_after_index`); and
the index stored with an approval (`StoredOK`: the item asked about did not run, and what ran is not
above it). `PlaceOK` says what each caller of a verification or repair relies on when it goes on.
`BehindIsBelow` is where `Ordered` is used. Where no item asks, a plan is never taken up again, and
the numbers do not matter: `PositionInv` says that what ran lies before the position in the list,
and the position only grows (`UnaskedItemsRunOnce`).

*Sessions end.* `PlanLoopEnds_proofs.tla` shows that every step of a working session lowers `Rank`:
the part of the session (planning, a resumed checkpoint, the plan, the one-step planner), the items
or steps left, the repair plans left, the place in the loops around one item, the steps left of a
repair. Its five numbers are naturals and are compared from the left, so there is no endless descent.
This is the argument behind `SessionEnds`: what is left to TLC there is that the thread does go on
(fairness) and that some step is possible while it works (ENABLED), and that lexicographic order is
well-founded, which the library states with operator parameters.

### TabFeed

From `TabFeedAssumption`: the rules are rules of `SITE_RULES` and the YouTube rule is one of them
(the migration puts it into the storage), the ports and tokens of IRIS and the defaults are among
those the user may enter.

| Theorem | Statement |
|---|---|
| `TypeCorrect` | `Spec => []TypeOK` |
| `PushesAreAllowed` | `Spec => []PushIsAllowed` |
| `FeedImplementsWindow` | `Spec => ImplementsWindow` |

The invariant says of every handler what it may know where it is (`Fits`): from the await at which
it has its rules on, the pages they allow are among those allowed since it began, and so are the
rules it is about to write back; from then on it has a tab; and from `GetTab` on its address is an
allowed page that the tab has shown (`Seen`). The rules are read once, so the set of pages allowed
since only grows under it (`MayReport`). A lemma for each step of a handler says where the step
leads (`...Leads`); `JobKept` and `JobMoved` carry that over the step of the history. That the
reported page is allowed is the last clause; that reports implement `TabWindow` is `Seen` together
with the receiver's own check of sensitive addresses.

### IdeBridge

From `IdeBridgeAssumption`: `None` is neither a file, a language nor an editor state, and every file
has a language.

| Theorem | Statement |
|---|---|
| `TypeCorrect` | `Spec => []TypeOK` |
| `NewestStateCounts` | `Spec => []StateCaughtUp` |
| `NewestContextCounts` | `Spec => []ContextCaughtUp` |
| `PageShowsState` | `Spec => []PageFollows` |
| `CommandsAtMostOnce` | `Spec => []AtMostOnce` |
| `BridgeMirrors` | `Spec => ImplementsMirror` |

The invariants. `StateInv`: a loaded frontend remembers as sent what the editor shows, and the
report with the newest number, on its way or applied, says just that; this needs `onStart` of a
reloaded frontend to report whatever the one before it had sent. `ContextInv` is its analogue for
the active file, weakened by files that must not be attached. `PageInv`: the last signal queued
carries the bridge's state, and with none queued the page, if it is fresh, was arranged by it.
`CommandInv`: a command that has not been carried out is in at most one place, the queue or one
answer, and one that has been is in none. `ShownInv` and `CurrentInv`: every context on its way is
about a file that has been current, which is what `TabWindow` asks for.

### Only model-checked

`FeedSettles` and `SessionEnds`: liveness under fairness and ENABLED are beyond the prover, as are
induction over data and RECURSIVE operators. The six violated claims stay violated; for
`NoDoubleExecution`, one of them, `RunsOnce` says when it holds. Every safety and action property and
every refinement that a passing run checks is proved: `ImplementsGate`, `OpenDialogIsAnswerable` and
`NoDoubleExecution` for one turn at a time, `NoItemRepeated` for plans in order or
without critical tools, the others without a hypothesis.

## 5. Plan

In this order; each module gets its instance, its runs and its mutants before the next.

1. `TaskSession`: several goals and tasks in one adapter, the ask-user dialogue, task results,
   checkpoints, the skill's final verdict, two restarts. Abstract specification: a task has one
   result, which agrees with its status. Runs: two goals, two tasks, two restarts.
2. `VoiceSession`: listening, transcription, playback and barge-in as threads with callbacks; the
   microphone is reopened after every utterance (liveness, with fairness of the audio thread).
3. `IdeBackend`, `MonitorTarget`, `KnowledgeSync`: supervision of the process the IDE page loads,
   alert cooldown, source synchronisation.
4. `TurnRouting`: the precedence of routing lanes and the merge of rule and LLM answers, as
   operators checked against a reference definition.
5. Composition of `TurnRouting`, `TaskSession`, `PlanLoop` and `VoiceSession`, at the calls they
   share; `TabFeed` with the skill that waits for a page of search results
   (`wait_for_youtube_search_results`), which reads the table of tabs while it is filled.
6. Proofs: for overlapping turns, what of `ApprovalGate` survives (no call after a denial of the
   only request with that key); result and status agreement of `TaskSession`; mutual exclusion of
   speaking and listening in `VoiceSession`.

## 6. Not modelled

Signal processing, speech engines, drawing, settings, HTTP clients and web search have no protocol
state of their own: they are I/O or data. Nor have the rest of the IDE product (its styling, the
generated webpack configurations, the plugins bundled with Theia), the message schemas and the build
scripts. Of the Theia extension and its bridge, the patch flow and the message block built on
contexts are left out, and the geometry of the IDE page; of the receiver, the summaries of tabs and
the wait for search results; the ping that `content.js` sends has no listener. Monitoring of
targets, the voice session, the IDE backend, the knowledge base, routers and flows are planned
(section 5). What a language model, a tool or a person answers is a free choice in every module. The
event bus is synchronous and its only subscriber remembers the last status, which nothing reads.
Proposal fields used for display are left out.
