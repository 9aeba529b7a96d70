------------------------ MODULE ExecutionCoordinator ------------------------
(***************************************************************************)
(* The execution pipeline of one Task: how a computer-use (CU) turn turns a *)
(* tool the planner chose into an ActionProposal, asks the user for         *)
(* approval when the policy wants one, runs the tool, records the attempt   *)
(* and settles the plan step; how a follow-up turn answers the approval     *)
(* dialogue; and how a restarted application recovers the task.             *)
(*                                                                         *)
(* Every user utterance is handled by a thread of its own (AgentWorker):    *)
(* nothing in the window or the assistant waits for the previous one, and   *)
(* all of them share one CuTaskAdapter, one DialogueContext and one SQLite  *)
(* database.  A member of Turns is such a thread, used again for the next   *)
(* utterance once its turn has ended.  With one member the model is the     *)
(* program as used by someone who waits for each answer.                    *)
(*                                                                         *)
(* Atomicity.  Each repository call commits by itself, so a crash or        *)
(* another turn can come between any two of them.  An action is one         *)
(* committed write, with the memory reads and assignments up to the next    *)
(* commit; reads on which a later write depends (the approval row, the      *)
(* attempts of a proposal, the task copy of abandon_task) are actions of    *)
(* their own.                                                              *)
(*                                                                         *)
(* Left out: the texts, the tool's arguments (a key stands for tool name    *)
(* plus argument hash), events, logs, and the ask-user dialogue.  Approvals *)
(* never expire: no caller of create_request passes expires_at.             *)
(***************************************************************************)
EXTENDS Naturals, Sequences, FiniteSets, TaskLifecycle

CONSTANTS
    Turns,        \* turn threads
    Proposals,    \* ids of the proposals the planner may produce
    Keys,         \* tool name + arguments hash
    Steps,        \* plan steps
    Key,          \* Key[p]: the call proposal p describes
    StepOf,       \* StepOf[p]: the plan step proposal p belongs to
    Critical,     \* proposals the policy wants approval for
    Denied,       \* proposals the policy refuses
    AdhocStep,    \* the step begin_cu_session creates
    FirstStep,    \* steps[0] of the active plan
    MaxCrashes,   \* bound on the number of restarts
    None          \* no proposal, no task object

ASSUME ConstantsAssumption ==
    /\ Key \in [Proposals -> Keys]
    /\ StepOf \in [Proposals -> Steps]
    /\ Critical \subseteq Proposals
    /\ Denied \subseteq Proposals
    /\ AdhocStep \in Steps /\ FirstStep \in Steps
    /\ MaxCrashes \in Nat
    /\ None \notin Proposals /\ None \notin TaskStatus

\* The policy looks at the tool and its arguments only.
ASSUME PolicyAssumption ==
    \A p, q \in Proposals : Key[p] = Key[q] => (p \in Critical <=> q \in Critical)

VARIABLES
    saved,      \* proposals with a row
    attempts,   \* attempts[p]: status of the attempt rows of p, oldest first
    approvals,  \* approval request rows, oldest first
    stepRow,    \* stepRow[s]: status of the plan_steps row
    taskRow,    \* status of the tasks row
    held,       \* adapter._task: the status the adapter's copy of the task has
    lastProp,   \* adapter._last_proposal_id
    lastApr,    \* adapter._last_approval_id, 0 when there is none
    checkStep,  \* adapter._adhoc_step: the step a checkpoint finalizes
    pending,    \* ctx.pending_cu: the proposal whose dialogue is open
    slots,      \* slots[p]: the ids in the slots of p's dialogue
    active,     \* ctx.active_task_id names this task
    pc,         \* pc[t]: where turn t is
    job,        \* job[t]: the local variables of turn t
    ran,        \* calls made so far: <<p, n>> is the call of p's n-th attempt
    granted,    \* history: the approval requests ever granted
    crashes     \* number of restarts so far

dbVars    == <<saved, attempts, approvals, stepRow, taskRow>>
cacheVars == <<held, lastProp, lastApr, checkStep>>
ctxVars   == <<pending, slots, active>>
vars == <<dbVars, cacheVars, ctxVars, pc, job, ran, granted, crashes>>

AttemptStatus  == {"running", "succeeded", "failed"}
ApprovalStatus == {"pending", "granted", "denied"}
StepStatus     == {"pending", "waiting_approval", "running", "verifying",
                   "succeeded", "failed"}

Locations ==
    {"idle", "classify", "route", "recovery", "reopen", "abandon", "deny",
     "cancel", "session", "planning", "policy", "request", "suspend", "bind", "granting",
     "grant", "resume", "check", "repropose", "attempt", "run", "record",
     "observe", "verify", "failed"}

\* How the proposal in hand came to the pipeline: from the planner, from a
\* dialogue that names proposal and approval, or from one that does not yet.
Origins == {"planner", "approved", "unbound"}

Ids == [apr : Nat, prop : Proposals \cup {None}]
NoIds == [apr |-> 0, prop |-> None]

Locals == [dialog : Proposals \cup {None}, prop : Proposals \cup {None},
           apr : Nat, origin : Origins, task : TaskStatus, quits : BOOLEAN,
           req : Nat, att : Nat, ok : BOOLEAN]

Idle == [dialog |-> None, prop |-> None, apr |-> 0, origin |-> "planner",
         task |-> "running", quits |-> FALSE, req |-> 0, att |-> 0, ok |-> FALSE]

TypeOK ==
    /\ saved \subseteq Proposals
    /\ attempts \in [Proposals -> Seq(AttemptStatus)]
    /\ approvals \in Seq([prop : Proposals, status : ApprovalStatus])
    /\ stepRow \in [Steps -> StepStatus]
    /\ taskRow \in TaskStatus
    /\ held \in TaskStatus \cup {None}
    /\ lastProp \in Proposals \cup {None}
    /\ lastApr \in Nat
    /\ checkStep \in Steps
    /\ pending \in Proposals \cup {None}
    /\ slots \in [Proposals -> Ids]
    /\ active \in BOOLEAN
    /\ pc \in [Turns -> Locations]
    /\ job \in [Turns -> Locals]
    /\ ran \subseteq Proposals \X Nat
    /\ granted \subseteq Nat
    /\ crashes \in 0..MaxCrashes

-----------------------------------------------------------------------------
(* Helpers. *)

Goto(t, l) == pc' = [pc EXCEPT ![t] = l]

\* A turn, or the handling of one tool, is over: its locals are gone.
Leave(t, l) == Goto(t, l) /\ job' = [job EXCEPT ![t] = Idle]

\* get_pending_for_task: the newest request still pending, 0 if there is none.
PendingApprovals == {i \in DOMAIN approvals : approvals[i].status = "pending"}
IsNewestPending(i) == i \in PendingApprovals /\ \A j \in PendingApprovals : j <= i
NewestPending ==
    IF \E i \in PendingApprovals : IsNewestPending(i)
    THEN CHOOSE i \in PendingApprovals : IsNewestPending(i)
    ELSE 0

\* attach_task, once the row's status is row: the adapter copies the task,
\* takes the first step of its plan (the ad-hoc one or a full plan) for the
\* checkpoint step, and points at the newest pending request, if any.
Attach(row) ==
    /\ held' = row
    /\ checkStep' \in {AdhocStep, FirstStep}
    /\ lastApr' = IF NewestPending # 0 THEN NewestPending ELSE lastApr
    /\ lastProp' = IF NewestPending # 0 THEN approvals[NewestPending].prop
                   ELSE lastProp

Succeeded(p) == \E n \in DOMAIN attempts[p] : attempts[p][n] = "succeeded"

\* Faulty: the status of the request is not looked at.
ValidatesKeyOnly(i, p) == i \in DOMAIN approvals /\ Key[approvals[i].prop] = Key[p]

\* validate_for_execution: request i is granted and describes the same call.
Validates(i, p) ==
    /\ i \in DOMAIN approvals
    /\ approvals[i].status = "granted"
    /\ Key[approvals[i].prop] = Key[p]

-----------------------------------------------------------------------------
(* The start of a turn, and the routes that end it or enter the CU loop.    *)

\* run_turn reads ctx.pending_cu; an open dialogue is classified first, by an
\* LLM call that may take seconds.
BeginTurn(t) ==
    /\ pc[t] = "idle"
    /\ job' = [job EXCEPT ![t].dialog = pending]
    /\ Goto(t, IF pending = None THEN "route" ELSE "classify")
    /\ UNCHANGED <<dbVars, cacheVars, ctxVars, ran, granted, crashes>>

\* A chat turn: no effect here.
Chat(t) ==
    /\ pc[t] = "route"
    /\ Leave(t, "idle")
    /\ UNCHANGED <<dbVars, cacheVars, ctxVars, ran, granted, crashes>>

\* A new goal while the adapter holds a task: run() begins no new session.
\* (Without one it creates another Task, which is module TaskSession's part.)
RunGoal(t) ==
    /\ pc[t] = "route"
    /\ held # None
    /\ Leave(t, "session")
    /\ UNCHANGED <<dbVars, cacheVars, ctxVars, ran, granted, crashes>>

\* A session starts with a full plan, or without (skill, quick launch, step
\* planner).  on_full_plan_created stores the adapter's copy of the task with
\* its new plan, status and all.
StartSession(t, full) ==
    /\ pc[t] = "session"
    /\ taskRow' = IF full /\ held # None THEN held ELSE taskRow
    /\ Goto(t, "planning")
    /\ UNCHANGED <<saved, attempts, approvals, stepRow, cacheVars, ctxVars, job,
                   ran, granted, crashes>>

\* _finish_cu_session, on the adapter's copy of the task: complete_task,
\* fail_task or suspend_max_steps (whose result the adapter drops).
FinishSession(t, exit) ==
    /\ \/ pc[t] = "planning" /\ exit \in {"success", "failure", "max_steps"}
       \/ pc[t] = "failed" /\ exit = "failure"
    /\ taskRow' =
         CASE exit = "success" -> Written(taskRow, held, "completed")
           [] exit = "failure" ->
                IF held \in {"waiting_user", "suspended", "partially_completed",
                             "waiting_approval"}
                THEN taskRow
                ELSE Written(taskRow, held, "failed")
           [] exit = "max_steps" ->
                IF CanTransition(held, "suspended") THEN "suspended"
                ELSE Written(taskRow, held, "partially_completed")
    /\ Leave(t, "idle")
    /\ UNCHANGED <<saved, attempts, approvals, stepRow, cacheVars, ctxVars,
                   ran, granted, crashes>>

\* The planner's LLM cannot be reached: run() returns without finishing.
LlmUnavailable(t) ==
    /\ pc[t] \in {"session", "planning"}
    /\ Leave(t, "idle")
    /\ UNCHANGED <<dbVars, cacheVars, ctxVars, ran, granted, crashes>>
-----------------------------------------------------------------------------
(* From a planned tool to a tool run or an approval dialogue.               *)

\* _resolve_step: a step index the adapter knows, or one whose row it creates
\* and for which it reads the task again.
ResolveStep == held' \in {held, taskRow}

\* _build_proposal and the save_proposal of execute_step.
Propose(t, p) ==
    /\ pc[t] = "planning"
    /\ p \notin saved
    /\ saved' = saved \cup {p}
    /\ lastProp' = p
    /\ ResolveStep
    /\ job' = [job EXCEPT ![t].prop = p]
    /\ Goto(t, "policy")
    /\ UNCHANGED <<attempts, approvals, stepRow, taskRow, lastApr,
                   checkStep, ctxVars, ran, granted, crashes>>

\* Policy DENY: the step fails and the loop goes on with the observation; an
\* approved run ends its turn with the reason.
PolicyDeny(t) ==
    /\ pc[t] = "policy"
    /\ job[t].prop \in Denied
    /\ stepRow' = [stepRow EXCEPT ![StepOf[job[t].prop]] = "failed"]
    /\ Leave(t, IF job[t].origin = "planner" THEN "planning" ELSE "idle")
    /\ UNCHANGED <<saved, attempts, approvals, taskRow, cacheVars, ctxVars,
                   ran, granted, crashes>>

NeedsApproval(t) ==
    /\ job[t].prop \in Critical \ Denied
    /\ job[t].origin = "planner"

\* Policy REQUIRE_APPROVAL: mark_waiting_approval ...
MarkWaiting(t) ==
    /\ pc[t] = "policy"
    /\ NeedsApproval(t)
    /\ stepRow' = [stepRow EXCEPT ![StepOf[job[t].prop]] = "waiting_approval"]
    /\ Goto(t, "request")
    /\ UNCHANGED <<saved, attempts, approvals, taskRow, cacheVars, ctxVars,
                   job, ran, granted, crashes>>

\* ... create_request ...
CreateRequest(t) ==
    /\ pc[t] = "request"
    /\ approvals' = Append(approvals, [prop |-> job[t].prop, status |-> "pending"])
    /\ job' = [job EXCEPT ![t].apr = Len(approvals) + 1]
    /\ Goto(t, "suspend")
    /\ UNCHANGED <<saved, attempts, stepRow, taskRow, cacheVars, ctxVars,
                   ran, granted, crashes>>

\* A new dialogue begins with a copy of the session's slots.  They are without
\* ids in a session of its own, but in one that goes on after an approval or
\* from a checkpoint they hold those of an earlier request, until BindDialog
\* replaces them.  Which earlier ones is left open.
EarlierIds(t) ==
    {NoIds} \cup [apr : DOMAIN approvals \ {job[t].apr}, prop : saved \ {job[t].prop}]

OpenDialog(t) ==
    /\ pending' = job[t].prop
    /\ \E ids \in EarlierIds(t) : slots' = [slots EXCEPT ![job[t].prop] = ids]

\* Faulty: execute_step goes on after suspending the task.
SuspendAndGoOn(t) ==
    /\ pc[t] = "suspend"
    /\ taskRow' = Written(taskRow, held, "waiting_approval")
    /\ lastApr' = job[t].apr
    /\ OpenDialog(t)
    /\ Goto(t, "attempt")
    /\ UNCHANGED <<saved, attempts, approvals, stepRow, held, lastProp,
                   checkStep, active, job, ran, granted, crashes>>

\* ... suspend_task_for_approval, whose result execute_step drops: the
\* adapter's copy keeps its status.  The CU loop then opens the dialogue.
SuspendForApproval(t) ==
    /\ pc[t] = "suspend"
    /\ taskRow' = Written(taskRow, held, "waiting_approval")
    /\ lastApr' = job[t].apr
    /\ OpenDialog(t)
    /\ Goto(t, "bind")
    /\ UNCHANGED <<saved, attempts, approvals, stepRow, held, lastProp,
                   checkStep, active, job, ran, granted, crashes>>

\* on_approval_pending saves the checkpoint; the dialogue's slots take their
\* ids from the adapter, and the session ends waiting for the user.
BindDialog(t) ==
    /\ pc[t] = "bind"
    /\ slots' = [slots EXCEPT ![job[t].prop] = [apr |-> lastApr, prop |-> lastProp]]
    /\ Leave(t, "idle")
    /\ UNCHANGED <<dbVars, cacheVars, pending, active, ran, granted,
                   crashes>>

\* Policy ALLOW, or an approved run: mark_step_started.
MarkStarted(t) ==
    /\ pc[t] = "policy"
    /\ job[t].prop \notin Denied
    /\ ~NeedsApproval(t)
    /\ stepRow' = [stepRow EXCEPT ![StepOf[job[t].prop]] = "running"]
    /\ Goto(t, "attempt")
    /\ UNCHANGED <<saved, attempts, approvals, taskRow, cacheVars, ctxVars,
                   job, ran, granted, crashes>>

\* Faulty: the attempt is stored with the outcome hoped for.
SaveAttemptSettled(t) ==
    /\ pc[t] = "attempt"
    /\ LET p == job[t].prop IN
       /\ attempts' = [attempts EXCEPT ![p] = Append(attempts[p], "succeeded")]
       /\ job' = [job EXCEPT ![t].att = Len(attempts[p]) + 1]
    /\ Goto(t, "run")
    /\ UNCHANGED <<saved, approvals, stepRow, taskRow, cacheVars, ctxVars,
                   ran, granted, crashes>>

\* save_attempt.
SaveAttempt(t) ==
    /\ pc[t] = "attempt"
    /\ LET p == job[t].prop IN
       /\ attempts' = [attempts EXCEPT ![p] = Append(attempts[p], "running")]
       /\ job' = [job EXCEPT ![t].att = Len(attempts[p]) + 1]
    /\ Goto(t, "run")
    /\ UNCHANGED <<saved, approvals, stepRow, taskRow, cacheVars, ctxVars,
                   ran, granted, crashes>>

\* tools.run: the tool acts on the desktop and reports success or failure.
RunTool(t, ok) ==
    /\ pc[t] = "run"
    /\ ran' = ran \cup {<<job[t].prop, job[t].att>>}
    /\ job' = [job EXCEPT ![t].ok = ok]
    /\ Goto(t, "record")
    /\ UNCHANGED <<dbVars, cacheVars, ctxVars, granted, crashes>>

\* Faulty: the attempt of a failed tool is not updated.
RecordSuccessOnly(t) ==
    /\ pc[t] = "record"
    /\ attempts' = IF job[t].ok
                   THEN [attempts EXCEPT ![job[t].prop][job[t].att] = "succeeded"]
                   ELSE attempts
    /\ Goto(t, "observe")
    /\ UNCHANGED <<saved, approvals, stepRow, taskRow, cacheVars, ctxVars,
                   job, ran, granted, crashes>>

\* Faulty: the attempt gets the status of the step.
RecordStepStatus(t) ==
    /\ pc[t] = "record"
    /\ attempts' = [attempts EXCEPT ![job[t].prop][job[t].att] =
                       IF job[t].ok THEN "verifying" ELSE "failed"]
    /\ Goto(t, "observe")
    /\ UNCHANGED <<saved, approvals, stepRow, taskRow, cacheVars, ctxVars,
                   job, ran, granted, crashes>>

\* update_attempt (and save_result).
RecordAttempt(t) ==
    /\ pc[t] = "record"
    /\ attempts' = [attempts EXCEPT ![job[t].prop] =
                       [@ EXCEPT ![job[t].att] =
                          IF job[t].ok THEN "succeeded" ELSE "failed"]]
    /\ Goto(t, "observe")
    /\ UNCHANGED <<saved, approvals, stepRow, taskRow, cacheVars, ctxVars,
                   job, ran, granted, crashes>>

\* mark_step_verifying or mark_step_failed, with an UNKNOWN verification.  A
\* failed tool is an observation to the planner, but ends an approved run.
Observe(t) ==
    /\ pc[t] = "observe"
    /\ stepRow' = [stepRow EXCEPT ![StepOf[job[t].prop]] =
                      IF job[t].ok THEN "verifying" ELSE "failed"]
    /\ IF job[t].ok
       THEN Goto(t, "verify") /\ UNCHANGED job
       ELSE Leave(t, IF job[t].origin = "planner" THEN "planning" ELSE "failed")
    /\ UNCHANGED <<saved, attempts, approvals, taskRow, cacheVars, ctxVars,
                   ran, granted, crashes>>

\* A checkpoint of the plan was judged: on_checkpoint_verified settles the
\* step the adapter remembers.
VerifyCheckpoint(t, achieved) ==
    /\ pc[t] = "verify"
    /\ stepRow' = [stepRow EXCEPT ![checkStep] =
                      IF achieved THEN "succeeded" ELSE "failed"]
    /\ Leave(t, "planning")
    /\ UNCHANGED <<saved, attempts, approvals, taskRow, cacheVars, ctxVars,
                   ran, granted, crashes>>

\* Quick launch: execute_tool_step settles the step it ran.
VerifyLaunch(t, achieved) ==
    /\ pc[t] = "verify"
    /\ job[t].origin = "planner"
    /\ stepRow' = [stepRow EXCEPT ![StepOf[job[t].prop]] =
                      IF achieved THEN "succeeded" ELSE "failed"]
    /\ Leave(t, "planning")
    /\ UNCHANGED <<saved, attempts, approvals, taskRow, cacheVars, ctxVars,
                   ran, granted, crashes>>

\* The plan has no checkpoint after this tool.
SkipVerify(t) ==
    /\ pc[t] = "verify"
    /\ Leave(t, "planning")
    /\ UNCHANGED <<dbVars, cacheVars, ctxVars, ran, granted, crashes>>
-----------------------------------------------------------------------------
(* Answers to an open dialogue.  Once classified, an answer acts on the     *)
(* dialogue its turn found when it began, whatever has happened since.      *)

\* CLARIFY: the question is put again.
AnswerClarify(t) ==
    /\ pc[t] = "classify"
    /\ Leave(t, "idle")
    /\ UNCHANGED <<dbVars, cacheVars, ctxVars, ran, granted, crashes>>

\* UNRELATED: the dialogue is dropped, its request left as it is, and the
\* utterance is routed like any other.
AnswerUnrelated(t) ==
    /\ pc[t] = "classify"
    /\ pending' = None
    /\ Leave(t, "route")
    /\ UNCHANGED <<dbVars, cacheVars, slots, active, ran, granted, crashes>>

\* REJECT abandons the active task; without one it only closes the dialogue.
AnswerReject(t) ==
    /\ pc[t] = "classify"
    /\ IF active
       THEN Goto(t, "abandon") /\ UNCHANGED <<pending, job>>
       ELSE Leave(t, "idle") /\ pending' = None
    /\ UNCHANGED <<dbVars, cacheVars, slots, active, ran, granted, crashes>>

\* The task is named by the dialogue's slots (which name it whenever they name
\* a request) or else by active_task_id; with neither nothing is attached.
AttachNamed(t) ==
    IF slots[job[t].dialog].apr # 0 \/ active
    THEN Attach(taskRow)
    ELSE UNCHANGED cacheVars

\* Faulty: the dialogue stays open and can be answered again.
ApproveKeepsDialog(t) ==
    /\ pc[t] = "classify"
    /\ LET ids   == slots[job[t].dialog]
           bound == ids.apr # 0 /\ ids.prop # None
       IN job' = [job EXCEPT ![t].prop = ids.prop, ![t].apr = ids.apr,
                    ![t].origin = IF bound THEN "approved" ELSE "unbound"]
    /\ AttachNamed(t)
    /\ Goto(t, "granting")
    /\ UNCHANGED <<dbVars, pending, slots, active, ran, granted, crashes>>

\* APPROVE: the dialogue is closed and resume_after_critical_approval attaches
\* the task, with the ids of the dialogue's slots in hand.
AnswerApprove(t) ==
    /\ pc[t] = "classify"
    /\ pending' = None
    /\ LET ids   == slots[job[t].dialog]
           bound == ids.apr # 0 /\ ids.prop # None
       IN job' = [job EXCEPT ![t].prop = ids.prop, ![t].apr = ids.apr,
                    ![t].origin = IF bound THEN "approved" ELSE "unbound"]
    /\ AttachNamed(t)
    /\ Goto(t, "granting")
    /\ UNCHANGED <<dbVars, slots, active, ran, granted, crashes>>

\* Where resume_after_critical_approval goes on after on_approval_granted,
\* whether the grant was refused or not.
AfterGrant(t) == IF job[t].origin = "approved" THEN "check" ELSE "repropose"

\* grant reads the request the adapter points at (not the one of the slots)
\* and compares it with the dialogue's tool.
GrantRead(t) ==
    LET i == IF lastApr # 0 THEN lastApr ELSE NewestPending IN
    /\ pc[t] = "granting"
    /\ IF /\ i \in PendingApprovals
          /\ Key[approvals[i].prop] = Key[job[t].dialog]
       THEN Goto(t, "grant") /\ job' = [job EXCEPT ![t].req = i]
       ELSE Goto(t, AfterGrant(t)) /\ UNCHANGED job
    /\ UNCHANGED <<dbVars, cacheVars, ctxVars, ran, granted, crashes>>

\* update_status(GRANTED), on the row as it is by now.
GrantWrite(t) ==
    /\ pc[t] = "grant"
    /\ approvals' = [approvals EXCEPT ![job[t].req].status = "granted"]
    /\ granted' = granted \cup {job[t].req}
    /\ Goto(t, "resume")
    /\ UNCHANGED <<saved, attempts, stepRow, taskRow, cacheVars, ctxVars, job,
                   ran, crashes>>

\* resume_task on the adapter's copy.
ResumeTask(t) ==
    /\ pc[t] = "resume"
    /\ taskRow' = Written(taskRow, held, "running")
    /\ held' = Moved(held, "running")
    /\ Goto(t, AfterGrant(t))
    /\ UNCHANGED <<saved, attempts, approvals, stepRow, lastProp, lastApr,
                   checkStep, ctxVars, job, ran, granted, crashes>>

\* execute_proposal: refused when an attempt has succeeded or the request of
\* the slots does not validate; the refusal ends the turn.
ExecuteProposal(t) ==
    /\ pc[t] = "check"
    /\ IF ~Succeeded(job[t].prop) /\ Validates(job[t].apr, job[t].prop)
       THEN Goto(t, "policy") /\ UNCHANGED job
       ELSE Leave(t, "idle")
    /\ UNCHANGED <<dbVars, cacheVars, ctxVars, ran, granted, crashes>>

\* Without ids in the slots the tool is proposed afresh and taken as approved.
Repropose(t, q) ==
    /\ pc[t] = "repropose"
    /\ q \notin saved
    /\ Key[q] = Key[job[t].dialog]
    /\ saved' = saved \cup {q}
    /\ lastProp' = q
    /\ ResolveStep
    /\ job' = [job EXCEPT ![t].prop = q]
    /\ Goto(t, "policy")
    /\ UNCHANGED <<attempts, approvals, stepRow, taskRow, lastApr,
                   checkStep, ctxVars, ran, granted, crashes>>

-----------------------------------------------------------------------------
(* abandon_task, for REJECT and for the recovery command CANCEL.            *)

\* It reads the task and its newest pending request ...
AbandonRead(t) ==
    /\ pc[t] = "abandon"
    /\ job' = [job EXCEPT ![t].task = taskRow, ![t].apr = NewestPending]
    /\ Goto(t, IF NewestPending # 0 THEN "deny" ELSE "cancel")
    /\ UNCHANGED <<dbVars, cacheVars, ctxVars, ran, granted, crashes>>

\* ... denies that request, whatever has become of it ...
AbandonDeny(t) ==
    /\ pc[t] = "deny"
    /\ approvals' = [approvals EXCEPT ![job[t].apr].status = "denied"]
    /\ Goto(t, "cancel")
    /\ UNCHANGED <<saved, attempts, stepRow, taskRow, cacheVars, ctxVars, job,
                   ran, granted, crashes>>

\* Faulty: the dialogue of the cancelled task stays open.
CancelKeepsDialog(t) ==
    /\ pc[t] = "cancel"
    /\ taskRow' = Written(taskRow, job[t].task, "cancelled")
    /\ active' = (active /\ ~job[t].quits)
    /\ Leave(t, "idle")
    /\ UNCHANGED <<saved, attempts, approvals, stepRow, cacheVars, pending, slots,
                   ran, granted, crashes>>

\* ... and cancels the task it read.  The dialogue is closed; only the
\* recovery command forgets the active task.
AbandonCancel(t) ==
    /\ pc[t] = "cancel"
    /\ taskRow' = Written(taskRow, job[t].task, "cancelled")
    /\ pending' = None
    /\ active' = (active /\ ~job[t].quits)
    /\ Leave(t, "idle")
    /\ UNCHANGED <<saved, attempts, approvals, stepRow, cacheVars, slots, ran, granted, crashes>>

-----------------------------------------------------------------------------
(* Recovery commands, and the restart that makes them necessary.            *)

\* try_handle_recovery_turn first lists the recoverable tasks, which marks a
\* RUNNING one INTERRUPTED; a task that is over is no longer the active one
\* and the utterance is routed on.
RecoveryCommand(t) ==
    /\ pc[t] = "route"
    /\ active
    /\ taskRow' = IF taskRow = "running" THEN "interrupted" ELSE taskRow
    /\ active' = (taskRow \notin Over)
    /\ Goto(t, IF taskRow \in Over THEN "route" ELSE "recovery")
    /\ UNCHANGED <<saved, attempts, approvals, stepRow, cacheVars, pending,
                   slots, job, ran, granted, crashes>>

RecoveryStatus(t) ==
    /\ pc[t] = "recovery"
    /\ Leave(t, "idle")
    /\ UNCHANGED <<dbVars, cacheVars, ctxVars, ran, granted, crashes>>

RecoveryCancel(t) ==
    /\ pc[t] = "recovery"
    /\ job' = [job EXCEPT ![t].quits = TRUE]
    /\ Goto(t, "abandon")
    /\ UNCHANGED <<dbVars, cacheVars, ctxVars, ran, granted, crashes>>

\* CONTINUE takes a snapshot of the task and its newest pending request.
RecoveryContinue(t) ==
    /\ pc[t] = "recovery"
    /\ IF taskRow \in Recoverable
       THEN /\ job' = [job EXCEPT ![t].task = taskRow, ![t].apr = NewestPending]
            /\ Goto(t, "reopen")
       ELSE Leave(t, "idle")
    /\ UNCHANGED <<dbVars, cacheVars, ctxVars, ran, granted, crashes>>

\* The task is resumed, whatever it was waiting for.  A snapshot waiting for
\* approval has its dialogue opened again; any other restarts the CU loop, whose
\* run() makes it the active task.
RecoveryResume(t) ==
    LET seen  == job[t].task
        row   == IF seen = "running" THEN "interrupted" ELSE taskRow
        moved == Moved(row, "running")
        i     == job[t].apr
    IN
    /\ pc[t] = "reopen"
    /\ taskRow' = moved
    /\ IF seen = "waiting_approval" /\ i # 0
       THEN /\ pending' = approvals[i].prop
            /\ slots' = [slots EXCEPT ![approvals[i].prop] =
                           [apr |-> i, prop |-> approvals[i].prop]]
            /\ Leave(t, "idle")
            /\ UNCHANGED <<cacheVars, active>>
       ELSE /\ Attach(moved)
            /\ active' = TRUE
            /\ Leave(t, "session")
            /\ UNCHANGED <<pending, slots>>
    /\ UNCHANGED <<saved, attempts, approvals, stepRow, ran, granted, crashes>>

\* The process dies between two steps and is started again: the database is
\* all that is left.  _check_recoverable_tasks then marks a RUNNING task
\* INTERRUPTED and makes a recoverable one the active task.
Restart ==
    /\ crashes < MaxCrashes
    /\ crashes' = crashes + 1
    /\ taskRow' = IF taskRow = "running" THEN "interrupted" ELSE taskRow
    /\ active' = (taskRow \in Recoverable)
    /\ held' = None /\ lastProp' = None /\ lastApr' = 0
    /\ checkStep' = AdhocStep
    /\ pending' = None
    /\ slots' = [p \in Proposals |-> NoIds]
    /\ pc' = [t \in Turns |-> "idle"]
    /\ job' = [t \in Turns |-> Idle]
    /\ UNCHANGED <<saved, attempts, approvals, stepRow, ran, granted>>

-----------------------------------------------------------------------------
(* begin_cu_session has created and started the task and its ad-hoc plan.   *)

Init ==
    /\ saved = {}
    /\ attempts = [p \in Proposals |-> << >>]
    /\ approvals = << >>
    /\ stepRow = [s \in Steps |-> "pending"]
    /\ taskRow = "running" /\ held = "running"
    /\ lastProp = None /\ lastApr = 0
    /\ checkStep = AdhocStep
    /\ pending = None
    /\ slots = [p \in Proposals |-> NoIds]
    /\ active = TRUE
    /\ pc = [t \in Turns |-> "idle"]
    /\ job = [t \in Turns |-> Idle]
    /\ ran = {} /\ granted = {} /\ crashes = 0

Route(t) == BeginTurn(t) \/ Chat(t) \/ RunGoal(t) \/ LlmUnavailable(t)

Plan(t) ==
    \/ \E full \in BOOLEAN : StartSession(t, full)
    \/ \E p \in Proposals : Propose(t, p)
    \/ PolicyDeny(t) \/ MarkWaiting(t) \/ CreateRequest(t)
    \/ SuspendForApproval(t) \/ BindDialog(t)

Run(t) ==
    \/ MarkStarted(t) \/ SaveAttempt(t) \/ RecordAttempt(t) \/ Observe(t)
    \/ \E ok \in BOOLEAN :
          RunTool(t, ok) \/ VerifyCheckpoint(t, ok) \/ VerifyLaunch(t, ok)
    \/ SkipVerify(t)
    \/ \E exit \in {"success", "failure", "max_steps"} : FinishSession(t, exit)

Answer(t) ==
    \/ AnswerClarify(t) \/ AnswerUnrelated(t) \/ AnswerReject(t) \/ AnswerApprove(t)
    \/ GrantRead(t) \/ GrantWrite(t) \/ ResumeTask(t) \/ ExecuteProposal(t)
    \/ \E q \in Proposals : Repropose(t, q)

Abandon(t) == AbandonRead(t) \/ AbandonDeny(t) \/ AbandonCancel(t)

Recover(t) ==
    \/ RecoveryCommand(t) \/ RecoveryStatus(t) \/ RecoveryCancel(t)
    \/ RecoveryContinue(t) \/ RecoveryResume(t)

Next ==
    \/ \E t \in Turns : Route(t) \/ Plan(t) \/ Run(t) \/ Answer(t) \/ Abandon(t)
                       \/ Recover(t)
    \/ Restart

Spec == Init /\ [][Next]_vars
-----------------------------------------------------------------------------
(* Properties.                                                              *)

Calls(p)    == {n \in DOMAIN attempts[p] : <<p, n>> \in ran}
Requests(p) == {i \in DOMAIN approvals : approvals[i].prop = p}
Authorised(p) == \E i \in granted : Key[approvals[i].prop] = Key[p]

\* An action the user was asked about (create_request has stored a request for
\* its proposal) is only ever carried out once a request for the same tool and
\* arguments has been granted, however many turns answer, abandon and execute
\* at the same time, and whatever a restart forgets: grant and
\* validate_for_execution compare tool and hash, not proposals.
RequestedRunsAreAuthorised ==
    \A c \in ran : Requests(c[1]) # {} => Authorised(c[1])

\* The attempt rows tell the truth about the calls, at every instant at which
\* the process may die: a call has its row before it is made (save_attempt),
\* a row is settled only after its call, and a row left "running" belongs to
\* a turn that is still at it, unless there was a restart.
AttemptRowsMatchCalls ==
    /\ \A c \in ran : c[2] \in DOMAIN attempts[c[1]]
    /\ \A p \in Proposals : \A n \in DOMAIN attempts[p] :
         /\ attempts[p][n] # "running" => <<p, n>> \in ran
         /\ attempts[p][n] = "running" =>
              \/ crashes > 0
              \/ \E t \in Turns : /\ pc[t] \in {"run", "record"}
                                  /\ job[t].prop = p /\ job[t].att = n

\* The state of the abstract gate: what the request row of p says, until p is
\* carried out.  A call that was not granted, or a second one, has no place
\* in the abstract machine.
GateOf(p) ==
    IF Requests(p) = {} THEN "unasked"
    ELSE LET row == approvals[CHOOSE i \in Requests(p) : TRUE].status IN
         CASE Calls(p) = {} ->
                (CASE row = "pending" -> "asked"
                   [] row = "granted" -> "granted"
                   [] row = "denied"  -> "refused")
           [] Cardinality(Calls(p)) = 1 /\ row = "granted" -> "done"
           [] OTHER -> "broken"

Gate == INSTANCE ApprovalGate
            WITH Actions <- Proposals, gate <- [p \in Proposals |-> GateOf(p)]

\* With a user who waits for each answer the pipeline implements the approval
\* protocol: a granted or denied request never changes again, what is denied
\* is never carried out, and what is granted is carried out at most once,
\* across orphaned dialogues, recovery commands and restarts.
ImplementsGate == Gate!GateSpec

\* A dialogue the user can see can be answered: its slots name the pending
\* request of the very proposal it describes.  (UNRELATED, REJECT and the
\* recovery commands all touch dialogue, slots and request separately.)
OpenDialogIsAnswerable ==
    \A t \in Turns :
        pc[t] \in {"idle", "classify"} /\ pending # None =>
            LET i == slots[pending].apr IN
            /\ i \in DOMAIN approvals
            /\ approvals[i] = [prop |-> pending, status |-> "pending"]
            /\ slots[pending].prop = pending

\* -- What the documentation says and the code does not do. --

\* execute_proposal guards against running a proposal twice
\* (docs/domain/task-runtime-real-integration-result.md:63).  One turn at a time
\* it does; an answer given while the turn before is still at work runs the
\* proposal again.
NoDoubleExecution ==
    \A p \in Proposals : Cardinality(Calls(p)) <= 1

\* COMPLETED and CANCELLED have no successor (transitions.py:49,51).
TerminalIsFinal ==
    [][(taskRow \in Terminal) => (taskRow' = taskRow)]_vars

\* A step is SUCCEEDED only after its execution was verified
\* (docs/domain/task-runtime-execution-flow.md:14).
SucceededStepWasRun ==
    \A s \in Steps : stepRow[s] = "succeeded" =>
        \E p \in Proposals : StepOf[p] = s /\ Succeeded(p)
=============================================================================
