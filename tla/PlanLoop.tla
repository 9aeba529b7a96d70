------------------------------ MODULE PlanLoop ------------------------------
(***************************************************************************)
(* One computer-use session: the plan / act / verify / repair loop of       *)
(* ComputerUseAgent, from run() or resume_after_critical_approval() to      *)
(* _finish_cu_session().                                                    *)
(*                                                                         *)
(* The planner writes a whole plan once.  Its items are run in list order;  *)
(* an item with a checkpoint is followed by a verification, a refused       *)
(* checkpoint or a failed tool by a repair, and a repair that gives up by   *)
(* the older planner, which chooses one step at a time.  A critical tool    *)
(* stops the session: the ctx is stored in a PendingComputerUseGoal and a   *)
(* new session is built from it when the user agrees.                       *)
(*                                                                         *)
(* The session is one thread and the code is nested loops.  loc is the      *)
(* innermost loop the session is in, back the call a verification returns   *)
(* to, repair.caller the call a repair returns to.  What the language       *)
(* model, the tools and the screen answer is chosen by the action.          *)
(*                                                                         *)
(* How the task row and the approval rows change meanwhile is the subject   *)
(* of ExecutionCoordinator; here outcome only says which of its operations  *)
(* the end of the session calls.                                            *)
(***************************************************************************)
EXTENDS Integers, Sequences

CONSTANTS
    Plans,           \* the plans the planner may write
    PlanMayAsk,      \* whether a tool that plans may contain is critical
    MaxSteps,        \* steps of the one-step planner
    MaxRepairSteps,  \* bound on the steps of one repair plan
    MaxApprovals     \* bound on the approvals of one goal

Item == [index : Int, cp : BOOLEAN, kind : {"act", "look", "ask_user"}]

ASSUME PlanLoopAssumption ==
    /\ Plans \subseteq Seq(Item)
    /\ PlanMayAsk \in BOOLEAN
    /\ MaxSteps \in Nat \ {0} /\ MaxRepairSteps \in Nat \ {0} /\ MaxApprovals \in Nat

RepairBudget  == 3   \* repair plans one session may ask for
MaxVerifySkip == 3   \* refused step_complete before the session aborts
MaxUnread     == 3   \* unreadable steps in a row before the session aborts
RecentTail    == 10  \* observations has_recent_tool_fail looks at

VARIABLES
    loc,        \* the loop the session is in
    entry,      \* how it began: with a full plan, step by step, or resumed
    plan,       \* ctx.full_plan.plans, <<>> when there is none
    at,         \* position in plan of the item in hand
    after,      \* start_after_index of _iterate_full_plan_items
    ctx,        \* executed_through_index, last_checkpoint_result, repair_attempt,
                \* and how many observations came after the last tool_fail
    repair,     \* locals of _run_repair_for_checkpoint and _execute_repair_steps
    back,       \* where the verification returns to
    planner,    \* counters of the one-step planner
    pending,    \* the PendingComputerUseGoal of the last approval
    approvals,  \* approvals asked for so far
    outcome,    \* what the end of the session did to the task
    delegated,  \* the goal was handed to the Tier 4 backend
    hist        \* history: which items ran, ran again, were confirmed

control == <<loc, at, after, repair, back, planner, outcome, delegated>>
vars == <<control, entry, plan, ctx, pending, approvals, hist>>

Locations == {"plan", "items", "verify", "repair", "ask", "steps", "planner",
              "approval", "over"}

\* last_checkpoint_result: none (None, or the model gave no verdict), achieved,
\* or refused, "mendable" when its failure_kind has a mechanical template.
Verdicts == {"none", "achieved", "refused", "mendable"}
Refused  == {"refused", "mendable"}

Callers  == {"item", "failed_item", "resumed_plan", "resumed_repair"}
Returns  == {"item", "template", "round", "step", "resumed_plan", "resumed_repair"}
Outcomes == {"none", "succeeded", "failed", "suspended", "waiting_user",
             "waiting_approval", "left"}

TypeOK ==
    /\ loc \in Locations
    /\ entry \in {"full_plan", "step_planner", "resumed"}
    /\ plan \in Plans \cup {<<>>}
    /\ at \in 1 .. Len(plan) + 1
    /\ after \in Int
    /\ ctx \in [through : Int, verdict : Verdicts, attempt : 0 .. RepairBudget + 1,
                since : 0 .. RecentTail]
    /\ repair \in [caller : Callers, tried : BOOLEAN, round : {"template", "round"},
                   step : Nat, count : Nat]
    /\ repair.step <= repair.count
    /\ back \in Returns
    /\ planner \in [step : 0 .. MaxSteps, unread : 0 .. MaxUnread - 1,
                    skipped : 0 .. MaxVerifySkip - 1]
    /\ pending \in [mode : {"full_plan", "repair", "step_planner"}, index : Int,
                    through : Int, pos : Nat]
    /\ approvals \in 0 .. MaxApprovals
    /\ outcome \in Outcomes
    /\ delegated \in BOOLEAN
    /\ hist \in [ran : SUBSET Nat, repeated : BOOLEAN, confirmed : SUBSET Nat]

NewCtx == [through |-> -1, verdict |-> "none", attempt |-> 0, since |-> RecentTail]
NewRepair(caller) == [caller |-> caller, tried |-> FALSE, round |-> "round",
                      step |-> 0, count |-> 0]
NewPlanner == [step |-> 0, unread |-> 0, skipped |-> 0]

Init ==
    /\ entry \in {"full_plan", "step_planner"}
    /\ loc = IF entry = "full_plan" THEN "plan" ELSE "planner"
    /\ plan = <<>> /\ at = 1 /\ after = -1
    /\ ctx = NewCtx
    /\ repair = NewRepair("item") /\ back = "item" /\ planner = NewPlanner
    /\ pending = [mode |-> "step_planner", index |-> -1, through |-> -1, pos |-> 1]
    /\ approvals = 0
    /\ outcome = "none" /\ delegated = FALSE
    /\ hist = [ran |-> {}, repeated |-> FALSE, confirmed |-> {}]

-----------------------------------------------------------------------------
\* Faulty: the distance to the last tool_fail is not limited to the window.
ObservedUnbounded(c, n) == [c EXCEPT !.since = @ + n]

\* n more observations: the last tool_fail moves towards the end of the window
\* of RecentTail observations.
Observed(c, n) ==
    [c EXCEPT !.since = IF @ + n < RecentTail THEN @ + n ELSE RecentTail]

\* A perception appends the window list, the screen, and one monitor hint when
\* there is one.
PerceptionLines == 2 .. 3

-----------------------------------------------------------------------------
(* Where the session goes next.  Each operator assigns control. *)

Settles(tag) ==
    CASE tag = "approval"  -> "waiting_approval"
      [] tag = "ask_user"  -> "waiting_user"
      [] tag = "max_steps" -> "suspended"
      [] tag = "success"   -> "succeeded"
      [] OTHER             -> "failed"

\* _finish_cu_session: every other exit may be handed to the Tier 4 backend.
KeptHere == {"success", "approval", "ask_user", "repair_exhausted"}

Finish(tag) ==
    /\ outcome' = Settles(tag)
    /\ loc' = IF tag = "approval" THEN "approval" ELSE "over"
    /\ delegated' \in {FALSE} \cup {tag \notin KeptHere}
    /\ UNCHANGED <<at, after, repair, back, planner>>

\* run() returns the planner's words and finishes nothing.
Leave ==
    /\ loc' = "over" /\ outcome' = "left"
    /\ UNCHANGED <<at, after, repair, back, planner, delegated>>

GoTo(l) ==
    loc' = l /\ UNCHANGED <<at, after, repair, back, planner, outcome, delegated>>

GoOn(p, a) ==
    /\ loc' = "items" /\ at' = p /\ after' = a
    /\ UNCHANGED <<repair, back, planner, outcome, delegated>>

ToVerify(b) ==
    /\ loc' = "verify" /\ back' = b
    /\ UNCHANGED <<at, after, repair, planner, outcome, delegated>>

ToRepair(caller) ==
    /\ loc' = "repair" /\ repair' = NewRepair(caller)
    /\ UNCHANGED <<at, after, back, planner, outcome, delegated>>

ToSteps(r, n) ==
    /\ loc' = "steps"
    /\ repair' = [repair EXCEPT !.tried = TRUE, !.round = r, !.step = 0, !.count = n]
    /\ UNCHANGED <<at, after, back, planner, outcome, delegated>>

ToPlanner ==
    /\ loc' = "planner" /\ planner' = NewPlanner
    /\ UNCHANGED <<at, after, repair, back, outcome, delegated>>

\* The repair returns tag to its caller, with the session's ctx at c.
RepairReturns(tag, c, h) ==
    LET failedItem == tag = "checkpoint_ok" /\ repair.caller = "failed_item"
        inPlan     == repair.caller \in {"item", "failed_item"}
    IN  /\ ctx' = IF failedItem THEN [c EXCEPT !.through = plan[at].index] ELSE c
        /\ hist' = h
        /\ \/ tag = "checkpoint_ok" /\ inPlan /\ GoOn(at + 1, after)
           \/ tag = "checkpoint_ok" /\ repair.caller = "resumed_plan" /\ GoOn(1, after)
           \/ tag = "checkpoint_ok" /\ repair.caller = "resumed_repair" /\ Finish(tag)
           \/ tag = "repair_exhausted" /\ inPlan /\ ToPlanner
           \/ tag = "repair_exhausted" /\ ~inPlan /\ Finish(tag)
           \/ tag = "ask_user" /\ Finish(tag)

\* The verification returns ok to back.
Verified(ok, c, h) ==
    \/ /\ ok /\ back \in {"template", "round"}
       /\ RepairReturns("checkpoint_ok", c, h)
    \/ /\ ~ (ok /\ back \in {"template", "round"})
       /\ ctx' = c /\ hist' = h
       /\ \/ ok /\ back = "item" /\ GoOn(at + 1, after)
          \/ ok /\ back \in {"resumed_plan", "resumed_repair"} /\ GoOn(1, after)
          \/ ~ok /\ back \in Callers /\ ToRepair(back)
          \/ ~ok /\ back = "template" /\ GoTo("ask")
          \/ ~ok /\ back = "round" /\ GoTo("repair")
          \/ back = "step" /\ GoTo("steps")

\* A critical tool: the session's place is stored and the session ends.  The
\* observations are stored before the request itself is added to them.
AskApproval(mode, index) ==
    /\ approvals < MaxApprovals
    /\ approvals' = approvals + 1
    /\ pending' = [mode |-> mode, index |-> index, through |-> ctx.through, pos |-> at]
    /\ Finish("approval")
    /\ UNCHANGED <<entry, plan, ctx, hist>>

NoApproval == UNCHANGED <<entry, plan, pending, approvals>>

-----------------------------------------------------------------------------
(* The full plan *)

\* _run_full_plan_session: the model does not answer, answers something that
\* is no plan, or writes one.
PlannerSilent == loc = "plan" /\ Leave /\ NoApproval /\ UNCHANGED <<ctx, hist>>

NoPlan == loc = "plan" /\ ToPlanner /\ NoApproval /\ UNCHANGED <<ctx, hist>>

WritePlan(p) ==
    /\ loc = "plan"
    /\ plan' = p
    /\ loc' = "items" /\ at' = 1 /\ after' = -1
    /\ UNCHANGED <<repair, back, planner, outcome, delegated>>
    /\ UNCHANGED <<entry, ctx, pending, approvals, hist>>

PlanDone ==
    /\ loc = "items" /\ at = Len(plan) + 1
    /\ Finish("success") /\ NoApproval /\ UNCHANGED <<ctx, hist>>

\* _iterate_full_plan_items: items up to start_after_index are skipped.
SkipItem ==
    /\ loc = "items" /\ at <= Len(plan) /\ plan[at].index <= after
    /\ GoOn(at + 1, after) /\ NoApproval /\ UNCHANGED <<ctx, hist>>

AtItem(kinds) ==
    loc = "items" /\ at <= Len(plan) /\ plan[at].index > after /\ plan[at].kind \in kinds

AskUser ==
    AtItem({"ask_user"}) /\ Finish("ask_user") /\ NoApproval /\ UNCHANGED <<ctx, hist>>

ItemNeedsApproval ==
    AtItem({"act"}) /\ PlanMayAsk /\ AskApproval("full_plan", plan[at].index)

\* The tool fails or the policy refuses it: _repair_after_tool_fail makes up a
\* refused verdict and starts a repair at once.
ItemFails ==
    /\ AtItem({"act", "look"})
    /\ ctx' = [ctx EXCEPT !.verdict = "refused", !.since = 1]
    /\ ToRepair("failed_item") /\ NoApproval /\ UNCHANGED hist

\* The call of the item at position p succeeded.
RanItem(p) ==
    [hist EXCEPT !.ran = @ \cup {p}, !.repeated = @ \/ p \in hist.ran]

ItemRuns ==
    /\ AtItem({"act", "look"})
    /\ hist' = RanItem(at)
    /\ LET c == Observed([ctx EXCEPT !.through = plan[at].index], 1)
       IN  \/ plan[at].cp /\ ctx' = c /\ ToVerify("item")
           \/ ~plan[at].cp /\ plan[at].kind = "look" /\ ctx' = c /\ GoOn(at + 1, after)
           \/ /\ ~plan[at].cp /\ plan[at].kind = "act"
              /\ \E n \in PerceptionLines : ctx' = Observed(c, n)
              /\ GoOn(at + 1, after)
    /\ NoApproval

-----------------------------------------------------------------------------
(* Verification and repair *)

\* _run_checkpoint_verify, gate: a recent tool_fail or a perception without a
\* source.  last_checkpoint_result keeps the previous verdict.
VerifyBlocked ==
    /\ loc = "verify"
    /\ \E n \in PerceptionLines : Verified(FALSE, Observed(ctx, n + 2), hist)
    /\ NoApproval

\* The verdict, mechanical or of the model.  "none": the model did not answer.
VerifyJudged(v) ==
    /\ loc = "verify"
    /\ \E n \in PerceptionLines :
         /\ Observed(ctx, n).since = RecentTail
         /\ Verified(v = "achieved",
                     Observed([ctx EXCEPT !.verdict = v], n + 1),
                     IF v = "achieved" /\ back # "step"
                     THEN [hist EXCEPT !.confirmed = @ \cup {at}] ELSE hist)
    /\ NoApproval

\* The head of _run_repair_for_checkpoint's loop.
RepairNothing ==
    /\ loc = "repair" /\ ctx.verdict \notin Refused
    /\ RepairReturns("checkpoint_ok", ctx, hist) /\ NoApproval

UseTemplate(n) ==
    /\ loc = "repair" /\ ctx.verdict = "mendable" /\ ~repair.tried
    /\ ToSteps("template", n) /\ NoApproval /\ UNCHANGED <<ctx, hist>>

NoTemplate ==
    /\ loc = "repair" /\ ctx.verdict \in Refused
    /\ loc' = "ask" /\ repair' = [repair EXCEPT !.tried = TRUE]
    /\ UNCHANGED <<at, after, back, planner, outcome, delegated>>
    /\ NoApproval /\ UNCHANGED <<ctx, hist>>

\* The rest of the loop: one more attempt, and what the repair planner says.
Tried == [ctx EXCEPT !.attempt = @ + 1]

RepairGivesUp ==
    /\ loc = "ask"
    /\ RepairReturns("repair_exhausted", Tried, hist) /\ NoApproval

\* Faulty: only attempts that yield a plan count.
UncountedAttempt ==
    /\ loc = "ask" /\ Tried.attempt < RepairBudget
    /\ ctx' = Observed(ctx, 1)
    /\ GoTo("repair") /\ NoApproval /\ UNCHANGED hist

\* No readable repair plan, or one without steps: again, unless it was the last.
RepairUnusable ==
    /\ loc = "ask" /\ Tried.attempt < RepairBudget
    /\ ctx' = Observed(Tried, 1)
    /\ GoTo("repair") /\ NoApproval /\ UNCHANGED hist

RepairAsksUser ==
    /\ loc = "ask" /\ Tried.attempt <= RepairBudget
    /\ RepairReturns("ask_user", Tried, hist) /\ NoApproval

RepairPlanned(n) ==
    /\ loc = "ask" /\ Tried.attempt <= RepairBudget
    /\ ctx' = Tried
    /\ ToSteps("round", n) /\ NoApproval /\ UNCHANGED hist

\* _execute_repair_steps.  The steps of a repair plan are numbered from 0, those
\* of a template from -1 downwards.
AtStep == loc = "steps" /\ repair.step < repair.count

StepNeedsApproval ==
    /\ AtStep /\ PlanMayAsk
    /\ AskApproval("repair", IF repair.round = "template" THEN -1 ELSE repair.step)

StepFails ==
    /\ AtStep
    /\ ctx' = [ctx EXCEPT !.since = 0]
    /\ ToVerify(repair.round) /\ NoApproval /\ UNCHANGED hist

StepRuns ==
    /\ AtStep
    /\ ctx' = Observed(ctx, 1)
    /\ repair' = [repair EXCEPT !.step = @ + 1]
    /\ \/ loc' = "verify" /\ repair.round = "round" /\ back' = "step"
       \/ loc' = "steps" /\ UNCHANGED back
    /\ UNCHANGED <<at, after, planner, outcome, delegated>>
    /\ NoApproval /\ UNCHANGED hist

\* Faulty: repair steps that all ran count as a repaired checkpoint.
TrustSteps ==
    /\ loc = "steps" /\ repair.step = repair.count
    /\ RepairReturns("checkpoint_ok", ctx, hist) /\ NoApproval

StepsDone ==
    /\ loc = "steps" /\ repair.step = repair.count
    /\ ToVerify(repair.round) /\ NoApproval /\ UNCHANGED <<ctx, hist>>

-----------------------------------------------------------------------------
(* The one-step planner *)

AtPlanner == loc = "planner" /\ planner.step < MaxSteps

NextStep(unread, skipped) ==
    /\ loc' = "planner"
    /\ planner' = [step |-> planner.step + 1, unread |-> unread, skipped |-> skipped]
    /\ UNCHANGED <<at, after, repair, back, outcome, delegated>>

\* A session that began with a full plan is left as it is, any other one fails.
StepSilent ==
    /\ AtPlanner
    /\ \/ entry = "full_plan" /\ Leave
       \/ entry # "full_plan" /\ Finish("llm_unavailable")
    /\ NoApproval /\ UNCHANGED <<ctx, hist>>

\* Faulty: a step that cannot be read is not one of the MaxSteps.
UncountedUnread ==
    /\ AtPlanner
    /\ \/ /\ planner.unread + 1 < MaxUnread
          /\ loc' = "planner" /\ planner' = [planner EXCEPT !.unread = @ + 1]
          /\ UNCHANGED <<at, after, repair, back, outcome, delegated>>
       \/ planner.unread + 1 >= MaxUnread /\ Finish("parse_abort")
    /\ NoApproval /\ UNCHANGED <<ctx, hist>>

StepUnread ==
    /\ AtPlanner
    /\ \/ planner.unread + 1 < MaxUnread /\ NextStep(planner.unread + 1, planner.skipped)
       \/ planner.unread + 1 >= MaxUnread /\ Finish("parse_abort")
    /\ NoApproval /\ UNCHANGED <<ctx, hist>>

\* step_complete without a valid perception, or without evidence of playback.
CompleteRefused ==
    /\ AtPlanner
    /\ \/ planner.skipped + 1 < MaxVerifySkip /\ NextStep(0, planner.skipped + 1)
       \/ planner.skipped + 1 >= MaxVerifySkip /\ Finish("verify_abort")
    /\ NoApproval /\ UNCHANGED <<ctx, hist>>

StepEnds(tag) ==
    /\ AtPlanner /\ Finish(tag) /\ NoApproval /\ UNCHANGED <<ctx, hist>>

\* Any other tool; its failure is only an observation.
StepActs ==
    /\ AtPlanner /\ NextStep(0, planner.skipped)
    /\ NoApproval /\ UNCHANGED <<ctx, hist>>

PlannerNeedsApproval == AtPlanner /\ AskApproval("step_planner", planner.step)

StepsUsedUp ==
    /\ loc = "planner" /\ planner.step = MaxSteps
    /\ Finish("max_steps") /\ NoApproval /\ UNCHANGED <<ctx, hist>>

-----------------------------------------------------------------------------
(* The approved tool and the session built from the stored ctx *)

ApprovedBlocked ==
    /\ loc = "approval" /\ Leave
    /\ entry' = "resumed"
    /\ UNCHANGED <<plan, ctx, pending, approvals, hist>>

ApprovedFails ==
    /\ loc = "approval" /\ Finish("failure")
    /\ entry' = "resumed"
    /\ UNCHANGED <<plan, ctx, pending, approvals, hist>>

\* Faulty: the plan is resumed after the last item known to be done, not after
\* the approved one.
ResumeAtThrough(p) == p.through

\* The index after which the plan is taken up again.
ResumeAfter(p) == IF p.mode = "repair" THEN p.through ELSE p.index

ResumedCtx ==
    Observed([ctx EXCEPT !.verdict = "none", !.attempt = 0,
                         !.through = IF pending.index >= 0 /\ pending.index > pending.through
                                     THEN pending.index ELSE pending.through], 1)

\* In a full plan the checkpoint is that of the first item with the pending
\* index, or else the one stored with the approval.
HasCheckpoint ==
    \/ plan[pending.pos].cp
    \/ \E p \in 1 .. Len(plan) :
         /\ pending.index >= 0 /\ plan[p].index = pending.index /\ plan[p].cp
         /\ \A q \in 1 .. p - 1 : plan[q].index # pending.index

ApprovedRuns ==
    /\ loc = "approval"
    /\ entry' = "resumed"
    /\ hist' = IF pending.mode = "full_plan" THEN RanItem(pending.pos) ELSE hist
    /\ outcome' = "none"
    /\ after' = ResumeAfter(pending)
    /\ \/ /\ pending.mode = "repair"
          /\ loc' = "verify" /\ back' = "resumed_repair" /\ ctx' = ResumedCtx
          /\ UNCHANGED <<at, planner>>
       \/ /\ pending.mode = "full_plan" /\ HasCheckpoint
          /\ loc' = "verify" /\ back' = "resumed_plan" /\ ctx' = ResumedCtx
          /\ UNCHANGED <<at, planner>>
       \/ /\ pending.mode = "full_plan" /\ ~HasCheckpoint
          /\ \E n \in PerceptionLines : ctx' = Observed(ResumedCtx, n)
          /\ loc' = "items" /\ at' = 1 /\ UNCHANGED <<back, planner>>
       \/ /\ pending.mode = "step_planner"
          /\ \E n \in PerceptionLines : ctx' = Observed(ResumedCtx, n)
          /\ loc' = "planner" /\ planner' = NewPlanner /\ UNCHANGED <<at, back>>
    /\ UNCHANGED <<repair, delegated, plan, pending, approvals>>

-----------------------------------------------------------------------------
FullPlan ==
    \/ PlannerSilent \/ NoPlan \/ \E p \in Plans : WritePlan(p)
    \/ PlanDone \/ SkipItem \/ AskUser \/ ItemNeedsApproval \/ ItemFails \/ ItemRuns

VerifyAndRepair ==
    \/ VerifyBlocked \/ \E v \in Verdicts : VerifyJudged(v)
    \/ RepairNothing \/ \E n \in 1 .. 2 : UseTemplate(n)
    \/ NoTemplate \/ RepairGivesUp \/ RepairUnusable \/ RepairAsksUser
    \/ \E n \in 1 .. MaxRepairSteps : RepairPlanned(n)
    \/ StepNeedsApproval \/ StepFails \/ StepRuns \/ StepsDone

StepPlanner ==
    \/ StepSilent \/ StepUnread \/ CompleteRefused \/ StepActs
    \/ \E tag \in {"ask_user", "success", "failure"} : StepEnds(tag)
    \/ PlannerNeedsApproval \/ StepsUsedUp

Session == FullPlan \/ VerifyAndRepair \/ StepPlanner
Resume  == ApprovedBlocked \/ ApprovedFails \/ ApprovedRuns

Next == Session \/ Resume

\* The session's thread runs on by itself; the user need not answer.
Spec == Init /\ [][Next]_vars /\ WF_vars(Session)

-----------------------------------------------------------------------------
(* Properties *)

\* A plan item whose tool call succeeded is never called again, whatever
\* repairs, approvals and resumed sessions come after it.  It rests on
\* executed_through_index, the pending index and the mode agreeing about the
\* session's place (computer_use_agent.py:407-463, 883-903).  That place is the
\* number an item carries, not its position, so the property presupposes plans
\* numbered in list order.  action_plan.py:253-257 does not see to that: with
\* other numbers a session resumed after an approval may run an item again.
\* With no critical tool in plans (PlanMayAsk FALSE) it holds however they are
\* numbered.  Both are proved (ItemsRunOnce, UnaskedItemsRunOnce).
NoItemRepeated == ~hist.repeated

\* The loop never goes on from a checkpoint that was refused last: a refused
\* verdict, a failed tool included, is followed by a new verification before
\* the next item (computer_use_agent.py:817-855, 1143-1283).
RefusedCheckpointHolds ==
    [][ (loc' = "items" /\ at' > at /\ at <= Len(plan) /\ plan[at].cp)
            => ctx'.verdict \notin Refused ]_vars

\* Every session comes to its end or stops for an approval, however the model
\* and the tools answer: nested repairs share one budget, the one-step planner
\* has its own (computer_use_agent.py:707, 1188-1204).
Working == loc \notin {"approval", "over"}
SessionEnds == Working ~> ~Working

\* How far a working session is from its end, the weightiest number first: the
\* part of the session, the items left of the plan (or the steps left of the
\* one-step planner), the repair plans left, the place in the loops around one
\* item, and the steps left of the repair in hand.
Resuming ==
    \/ loc = "verify" /\ back \in {"resumed_plan", "resumed_repair"}
    \/ /\ repair.caller \in {"resumed_plan", "resumed_repair"}
       /\ \/ loc \in {"repair", "ask", "steps"}
          \/ loc = "verify" /\ back \in {"template", "round", "step"}

Part == CASE loc = "plan"    -> 3
          [] loc = "planner" -> 0
          [] OTHER           -> IF Resuming THEN 2 ELSE 1

Left == IF loc = "planner" THEN MaxSteps - planner.step ELSE Len(plan) + 1 - at

RepairsLeft == RepairBudget + 1 - ctx.attempt

Place == CASE loc = "items"  -> 7
           [] loc = "steps"  -> IF repair.round = "round" THEN 5 ELSE 2
           [] loc = "repair" -> 3
           [] loc = "verify" -> CASE back = "step"     -> 5
                                  [] back = "round"    -> 4
                                  [] back = "template" -> 1
                                  [] OTHER             -> 6
           [] OTHER          -> 0

StepsLeft == 2 * (repair.count - repair.step) + (IF loc = "verify" THEN 1 ELSE 0)

Rank == <<Part, Left, RepairsLeft, Place, StepsLeft>>

\* r comes before s: the first number in which they differ is smaller, and no
\* number below 0 is reached.
Below(r, s) == \E i \in DOMAIN s : /\ r[i] \in 0 .. s[i] - 1
                                   /\ \A j \in 1 .. i - 1 : r[j] = s[j]

\* No answer of model, tool or screen takes a session back to where it was:
\* each step lowers its rank, until it ends or stops for an approval.  The
\* loops are nested and a repair is called from four places; what bounds them
\* is one repair_attempt for the whole session, a template that leads on to the
\* repair planner, and an item that is only ever left for the next one
\* (computer_use_agent.py:703-903, 1128-1327).  Under fairness SessionEnds
\* follows from it, but not it from SessionEnds: a loop that is left in the end
\* without counting its rounds asks the model more often than it may.
SessionGetsOn == [][Working /\ Working' => Below(Rank', Rank)]_vars

\* Said of the loop: "achieved=true & cp_final -> success"
\* (cu_prompts.py:175): a plan is reported as done only when each of its
\* checkpoints was verified.
PlanSucceeded == outcome = "succeeded" /\ plan # <<>> /\ at = Len(plan) + 1
SuccessIsVerified ==
    PlanSucceeded => \A p \in 1 .. Len(plan) : plan[p].cp => p \in hist.confirmed
=============================================================================
