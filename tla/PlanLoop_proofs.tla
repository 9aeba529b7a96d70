-------------------------- MODULE PlanLoop_proofs --------------------------
(***************************************************************************)
(* Theorems about PlanLoop, for every set of plans and all bounds.          *)
(***************************************************************************)
EXTENDS PlanLoop, TLAPS

-----------------------------------------------------------------------------
(* The invariant of types *)

CtxType == [through : Int, verdict : Verdicts, attempt : 0 .. RepairBudget + 1,
            since : 0 .. RecentTail]
RepairType == [caller : Callers, tried : BOOLEAN, round : {"template", "round"},
               step : Nat, count : Nat]
PlannerType == [step : 0 .. MaxSteps, unread : 0 .. MaxUnread - 1,
                skipped : 0 .. MaxVerifySkip - 1]
PendingType == [mode : {"full_plan", "repair", "step_planner"}, index : Int,
                through : Int, pos : Nat]
HistType == [ran : SUBSET Nat, repeated : BOOLEAN, confirmed : SUBSET Nat]

\* The variables control consists of, at aside.
ControlOK ==
    /\ loc \in Locations
    /\ after \in Int
    /\ repair \in RepairType /\ repair.step <= repair.count
    /\ back \in Returns
    /\ planner \in PlannerType
    /\ outcome \in Outcomes
    /\ delegated \in BOOLEAN

\* What the session keeps besides.
KeptOK ==
    /\ entry \in {"full_plan", "step_planner", "resumed"}
    /\ plan \in Plans \cup {<<>>}
    /\ pending \in PendingType
    /\ approvals \in 0 .. MaxApprovals

\* The session is inside a verification or a repair.
Inside == loc \in {"verify", "repair", "ask", "steps"}

\* The item in hand exists while it is verified or repaired, and while its
\* approval is waited for; the budget is exceeded only where no repair follows.
HandOK ==
    /\ at \in 1 .. Len(plan) + 1
    /\ Inside => at <= Len(plan)
    /\ loc = "approval" /\ pending.mode # "step_planner" => at <= Len(plan)

BudgetOK == Inside \/ loc \in {"plan", "items"} => ctx.attempt <= RepairBudget

TypeInv ==
    /\ ControlOK /\ KeptOK
    /\ HandOK /\ BudgetOK
    /\ ctx \in CtxType
    /\ hist \in HistType

LEMMA TypeInvGivesTypeOK == TypeInv => TypeOK
BY DEF TypeInv, TypeOK, ControlOK, KeptOK, HandOK, CtxType, RepairType, PlannerType,
       PendingType, HistType

\* Positions in the plan are those of items with an index.
LEMMA PlanType ==
    ASSUME KeptOK
    PROVE  /\ Len(plan) \in Nat
           /\ \A p \in 1 .. Len(plan) : plan[p] \in Item /\ plan[p].index \in Int
<1>1. Plans \subseteq Seq(Item) /\ <<>> \in Seq(Item)
  BY PlanLoopAssumption DEF PlanLoopAssumption
<1>2. plan \in Seq(Item)
  BY <1>1 DEF KeptOK
<1>3. \A p \in 1 .. Len(plan) : plan[p] \in Item
  BY <1>2
<1>4. \A i \in Item : i.index \in Int
  BY DEF Item
<1> QED
  BY <1>2, <1>3, <1>4

LEMMA ObservedType ==
    ASSUME NEW c \in CtxType, NEW n \in Nat
    PROVE  /\ Observed(c, n) \in CtxType
           /\ Observed(c, n).through = c.through
           /\ Observed(c, n).verdict = c.verdict
           /\ Observed(c, n).attempt = c.attempt
<1> DEFINE s == IF c.since + n < RecentTail THEN c.since + n ELSE RecentTail
<1>1. s \in 0 .. RecentTail
  BY DEF CtxType, RecentTail
<1>2. Observed(c, n) = [c EXCEPT !.since = s]
  BY DEF Observed
<1> HIDE DEF s
<1> QED
  BY <1>1, <1>2 DEF CtxType

\* Where the session goes next: each operator keeps the types of control.
LEMMA FinishLeads ==
    ASSUME ControlOK, NEW tag, Finish(tag)
    PROVE  /\ ControlOK'
           /\ at' = at /\ after' = after
           /\ loc' = IF tag = "approval" THEN "approval" ELSE "over"
<1>1. Settles(tag) \in Outcomes
  BY DEF Settles, Outcomes
<1>2. delegated' \in BOOLEAN
  BY DEF Finish
<1>3. loc' \in Locations
  BY DEF Finish, Locations
<1> QED
  BY <1>1, <1>2, <1>3 DEF Finish, ControlOK

LEMMA LeaveLeads ==
    ASSUME ControlOK, Leave
    PROVE  ControlOK' /\ at' = at /\ after' = after /\ loc' = "over"
BY DEF Leave, ControlOK, Locations, Outcomes

LEMMA GoToLeads ==
    ASSUME ControlOK, NEW l \in Locations, GoTo(l)
    PROVE  /\ ControlOK'
           /\ at' = at /\ after' = after /\ loc' = l
           /\ repair' = repair /\ back' = back
BY DEF GoTo, ControlOK

LEMMA GoOnLeads ==
    ASSUME ControlOK, NEW p, NEW a \in Int, GoOn(p, a)
    PROVE  ControlOK' /\ at' = p /\ after' = a /\ loc' = "items"
BY DEF GoOn, ControlOK, Locations

LEMMA ToVerifyLeads ==
    ASSUME ControlOK, NEW b \in Returns, ToVerify(b)
    PROVE  /\ ControlOK'
           /\ at' = at /\ after' = after /\ loc' = "verify"
           /\ back' = b /\ repair' = repair
BY DEF ToVerify, ControlOK, Locations

LEMMA ToRepairLeads ==
    ASSUME ControlOK, NEW caller \in Callers, ToRepair(caller)
    PROVE  /\ ControlOK'
           /\ at' = at /\ after' = after /\ loc' = "repair"
           /\ repair'.caller = caller
<1>1. NewRepair(caller) \in RepairType
  BY DEF NewRepair, RepairType
<1>2. /\ NewRepair(caller).step <= NewRepair(caller).count
      /\ NewRepair(caller).caller = caller
  BY DEF NewRepair
<1> QED
  BY <1>1, <1>2 DEF ToRepair, ControlOK, Locations

LEMMA ToStepsLeads ==
    ASSUME ControlOK, NEW r \in {"template", "round"}, NEW n \in Nat, ToSteps(r, n)
    PROVE  /\ ControlOK'
           /\ at' = at /\ after' = after /\ loc' = "steps"
           /\ repair'.caller = repair.caller
<1>0. repair \in RepairType
  BY DEF ControlOK
<1> DEFINE new == [repair EXCEPT !.tried = TRUE, !.round = r, !.step = 0, !.count = n]
<1>1. new \in RepairType /\ new.step = 0 /\ new.count = n /\ new.caller = repair.caller
  BY <1>0 DEF RepairType
<1>2. repair' = new
  BY DEF ToSteps
<1> HIDE DEF new
<1>3. repair' \in RepairType /\ repair'.step <= repair'.count
  BY <1>1, <1>2
<1> QED
  BY <1>1, <1>2, <1>3 DEF ToSteps, ControlOK, Locations

LEMMA NewPlannerType == NewPlanner \in PlannerType
<1>1. 0 \in 0 .. MaxSteps /\ 0 \in 0 .. MaxUnread - 1 /\ 0 \in 0 .. MaxVerifySkip - 1
  BY PlanLoopAssumption DEF PlanLoopAssumption, MaxUnread, MaxVerifySkip
<1> QED
  BY <1>1 DEF NewPlanner, PlannerType

LEMMA ToPlannerLeads ==
    ASSUME ControlOK, ToPlanner
    PROVE  ControlOK' /\ at' = at /\ after' = after /\ loc' = "planner"
BY NewPlannerType DEF ToPlanner, ControlOK, Locations

LEMMA NextStepLeads ==
    ASSUME ControlOK, planner.step < MaxSteps,
           NEW u \in 0 .. MaxUnread - 1, NEW s \in 0 .. MaxVerifySkip - 1, NextStep(u, s)
    PROVE  ControlOK' /\ at' = at /\ after' = after /\ loc' = "planner"
<1>1. planner.step + 1 \in 0 .. MaxSteps
  BY PlanLoopAssumption DEF PlanLoopAssumption, ControlOK, PlannerType
<1>2. planner' \in PlannerType
  BY <1>1 DEF NextStep, PlannerType
<1> QED
  BY <1>2 DEF NextStep, ControlOK, Locations

\* A step that asks for no approval and leaves a place where HandOK and BudgetOK
\* say nothing, or what they say holds.
LEMMA NoApprovalKeeps == ASSUME TypeInv, NoApproval PROVE KeptOK' /\ Len(plan') = Len(plan)
BY DEF TypeInv, KeptOK, NoApproval

LEMMA RepairReturnsType ==
    ASSUME TypeInv, Inside, NoApproval,
           NEW tag \in {"checkpoint_ok", "repair_exhausted", "ask_user"},
           NEW c \in CtxType, tag = "checkpoint_ok" => c.attempt <= RepairBudget,
           NEW h \in HistType, RepairReturns(tag, c, h)
    PROVE  TypeInv'
<1>1. ControlOK /\ KeptOK /\ at \in 1 .. Len(plan) /\ Len(plan) \in Nat
  BY PlanType DEF TypeInv, HandOK
<1>2. KeptOK' /\ Len(plan') = Len(plan)
  BY NoApprovalKeeps
<1>3. /\ ctx' \in CtxType
      /\ tag = "checkpoint_ok" => ctx'.attempt <= RepairBudget
  <2>1. CASE tag = "checkpoint_ok" /\ repair.caller = "failed_item"
    <3>1. plan[at].index \in Int
      BY <1>1, PlanType
    <3>2. ctx' = [c EXCEPT !.through = plan[at].index]
      BY <2>1 DEF RepairReturns
    <3> QED
      BY <3>1, <3>2 DEF CtxType
  <2>2. CASE ~ (tag = "checkpoint_ok" /\ repair.caller = "failed_item")
    BY <2>2 DEF RepairReturns
  <2> QED
    BY <2>1, <2>2
<1>4. hist' \in HistType
  BY DEF RepairReturns
<1>5. /\ ControlOK' /\ at' \in 1 .. Len(plan) + 1
      /\ \/ loc' = "items" /\ tag = "checkpoint_ok"
         \/ loc' \in {"planner", "over"}
  <2>0. after \in Int /\ 1 \in 1 .. Len(plan) + 1 /\ at + 1 \in 1 .. Len(plan) + 1
        /\ at \in 1 .. Len(plan) + 1
    BY <1>1 DEF ControlOK
  <2>1. CASE tag = "checkpoint_ok" /\ GoOn(at + 1, after)
    BY <1>1, <2>0, <2>1, GoOnLeads
  <2>2. CASE tag = "checkpoint_ok" /\ GoOn(1, after)
    BY <1>1, <2>0, <2>2, GoOnLeads
  <2>3. CASE Finish(tag)
    BY <1>1, <2>0, <2>3, FinishLeads
  <2>4. CASE ToPlanner
    BY <1>1, <2>0, <2>4, ToPlannerLeads
  <2> QED
    BY <2>1, <2>2, <2>3, <2>4 DEF RepairReturns
<1> QED
  BY <1>2, <1>3, <1>4, <1>5 DEF TypeInv, HandOK, BudgetOK, Inside

LEMMA VerifiedType ==
    ASSUME TypeInv, loc = "verify", NoApproval, NEW ok \in BOOLEAN,
           NEW c \in CtxType, c.attempt <= RepairBudget,
           NEW h \in HistType, Verified(ok, c, h)
    PROVE  TypeInv'
<1>1. Inside /\ ControlOK /\ KeptOK /\ at \in 1 .. Len(plan) /\ Len(plan) \in Nat
  BY PlanType DEF TypeInv, HandOK, Inside
<1>2. KeptOK' /\ Len(plan') = Len(plan)
  BY NoApprovalKeeps
<1>3. CASE RepairReturns("checkpoint_ok", c, h)
  BY <1>1, <1>3, RepairReturnsType
<1>4. CASE ctx' = c /\ hist' = h /\ ~ (ok /\ back \in {"template", "round"})
  <2>0. after \in Int /\ 1 \in 1 .. Len(plan) + 1 /\ at + 1 \in 1 .. Len(plan) + 1
        /\ at \in 1 .. Len(plan) + 1
    BY <1>1 DEF ControlOK
  <2>1. /\ ControlOK' /\ at' \in 1 .. Len(plan) + 1
        /\ loc' = "items" \/ (loc' \in {"repair", "ask", "steps"} /\ at' = at)
    <3>1. CASE GoOn(at + 1, after)
      BY <1>1, <2>0, <3>1, GoOnLeads
    <3>2. CASE GoOn(1, after)
      BY <1>1, <2>0, <3>2, GoOnLeads
    <3>3. CASE back \in Callers /\ ToRepair(back)
      BY <1>1, <2>0, <3>3, ToRepairLeads
    <3>4. CASE GoTo("ask") \/ GoTo("repair") \/ GoTo("steps")
      BY <1>1, <2>0, <3>4, GoToLeads DEF Locations
    <3> HIDE DEF Callers
    <3> QED
      BY <1>3, <1>4, <3>1, <3>2, <3>3, <3>4 DEF Verified
  <2> QED
    BY <1>1, <1>2, <1>4, <2>1 DEF TypeInv, HandOK, BudgetOK, Inside
<1> QED
  BY <1>3, <1>4 DEF Verified

\* A call of a tool at an item is remembered with its type.
LEMMA RanItemType ==
    ASSUME hist \in HistType, NEW p \in Nat
    PROVE  /\ RanItem(p) \in HistType
           /\ RanItem(p).ran = hist.ran \cup {p}
           /\ RanItem(p).repeated = (hist.repeated \/ p \in hist.ran)
BY DEF RanItem, HistType

LEMMA AskApprovalType ==
    ASSUME TypeInv, NEW mode \in {"full_plan", "repair", "step_planner"},
           NEW index \in Int, mode # "step_planner" => at <= Len(plan),
           AskApproval(mode, index)
    PROVE  TypeInv'
<1>1. /\ ControlOK /\ KeptOK /\ at \in 1 .. Len(plan) + 1 /\ Len(plan) \in Nat
      /\ ctx \in CtxType /\ hist \in HistType
  BY PlanType DEF TypeInv, HandOK
<1>2. ControlOK' /\ at' = at /\ loc' = "approval"
  BY <1>1, FinishLeads DEF AskApproval
<1>3. pending' \in PendingType /\ pending'.mode = mode
  BY <1>1 DEF AskApproval, PendingType, CtxType
<1>4. approvals' \in 0 .. MaxApprovals
  BY <1>1, PlanLoopAssumption DEF PlanLoopAssumption, AskApproval, KeptOK
<1>5. KeptOK'
  BY <1>1, <1>3, <1>4 DEF KeptOK, AskApproval
<1>6. plan' = plan /\ ctx' = ctx /\ hist' = hist
  BY DEF AskApproval
<1> QED
  BY <1>1, <1>2, <1>3, <1>5, <1>6 DEF TypeInv, HandOK, BudgetOK, Inside

-----------------------------------------------------------------------------
(* Every step keeps the types *)

LEMMA InitType == Init => TypeInv
<1> SUFFICES ASSUME Init PROVE TypeInv
  OBVIOUS
<1>1. /\ plan = <<>> /\ Len(plan) = 0 /\ at = 1 /\ loc \in {"plan", "planner"}
      /\ approvals \in 0 .. MaxApprovals
  BY PlanLoopAssumption DEF PlanLoopAssumption, Init
<1>2. ctx \in CtxType /\ ctx.attempt = 0
  BY DEF Init, NewCtx, CtxType, Verdicts, RepairBudget, RecentTail
<1>3. repair \in RepairType /\ repair.step <= repair.count
  BY DEF Init, NewRepair, RepairType, Callers
<1>4. planner \in PlannerType
  BY NewPlannerType DEF Init
<1>5. pending \in PendingType
  BY DEF Init, PendingType
<1>6. hist \in HistType
  BY DEF Init, HistType
<1>7. ControlOK
  <2>1. outcome = "none" /\ back = "item"
    BY DEF Init
  <2>2. outcome \in Outcomes /\ back \in Returns /\ loc \in Locations
    BY <1>1, <2>1 DEF Outcomes, Returns, Locations
  <2>3. after \in Int
    BY DEF Init
  <2>4. delegated \in BOOLEAN
    BY DEF Init
  <2> QED
    BY <1>3, <1>4, <2>2, <2>3, <2>4 DEF ControlOK
<1>8. KeptOK
  BY <1>1, <1>5 DEF Init, KeptOK
<1> QED
  BY <1>1, <1>2, <1>6, <1>7, <1>8 DEF TypeInv, HandOK, BudgetOK, Inside, RepairBudget

\* The step is in plain view: it changes control as one of the operators above
\* says, and ctx and hist not at all.
LEMMA QuietType ==
    ASSUME TypeInv, NoApproval, UNCHANGED <<ctx, hist>>,
           ControlOK', at' \in 1 .. Len(plan) + 1,
           (Inside)' => at' <= Len(plan), loc' # "approval",
           (Inside)' \/ loc' \in {"plan", "items"} => ctx.attempt <= RepairBudget
    PROVE  TypeInv'
<1>1. KeptOK' /\ Len(plan') = Len(plan)
  BY NoApprovalKeeps
<1> QED
  BY <1>1 DEF TypeInv, HandOK, BudgetOK

LEMMA FullPlanType == TypeInv /\ FullPlan => TypeInv'
<1> SUFFICES ASSUME TypeInv, FullPlan PROVE TypeInv'
  OBVIOUS
<1>0. /\ ControlOK /\ KeptOK /\ at \in 1 .. Len(plan) + 1 /\ Len(plan) \in Nat
      /\ ctx \in CtxType /\ hist \in HistType /\ after \in Int
      /\ loc \in {"plan", "items"} => ctx.attempt <= RepairBudget
  BY PlanType DEF TypeInv, HandOK, BudgetOK, ControlOK
<1>1. CASE PlannerSilent
  BY <1>0, <1>1, LeaveLeads, QuietType DEF PlannerSilent, Inside
<1>2. CASE NoPlan
  BY <1>0, <1>2, ToPlannerLeads, QuietType DEF NoPlan, Inside
<1>3. ASSUME NEW p \in Plans, WritePlan(p) PROVE TypeInv'
  <2>1. /\ plan' = p /\ loc' = "items" /\ at' = 1 /\ after' = -1
        /\ UNCHANGED <<repair, back, planner, outcome, delegated>>
        /\ UNCHANGED <<entry, ctx, pending, approvals, hist>>
    BY <1>3 DEF WritePlan
  <2>2. ControlOK'
    BY <1>0, <2>1 DEF ControlOK, Locations
  <2>3. KeptOK'
    BY <1>0, <2>1 DEF KeptOK
  <2>4. Len(plan') \in Nat
    BY <2>1, PlanLoopAssumption DEF PlanLoopAssumption
  <2>5. HandOK'
    BY <2>1, <2>4 DEF HandOK, Inside
  <2>6. BudgetOK'
    BY <1>0, <1>3, <2>1 DEF BudgetOK, WritePlan
  <2> QED
    BY <1>0, <2>1, <2>2, <2>3, <2>5, <2>6 DEF TypeInv
<1>4. CASE PlanDone
  BY <1>0, <1>4, FinishLeads, QuietType DEF PlanDone, Inside
<1>5. CASE SkipItem
  <2>1. at + 1 \in 1 .. Len(plan) + 1
    BY <1>0, <1>5 DEF SkipItem
  <2> QED
    BY <1>0, <1>5, <2>1, GoOnLeads, QuietType DEF SkipItem, Inside
<1>6. CASE AskUser
  BY <1>0, <1>6, FinishLeads, QuietType DEF AskUser, Inside
<1>7. CASE ItemNeedsApproval
  <2>1. at <= Len(plan) /\ plan[at].index \in Int
    BY <1>0, <1>7, PlanType DEF ItemNeedsApproval, AtItem
  <2> QED
    BY <1>7, <2>1, AskApprovalType DEF ItemNeedsApproval
<1>8. CASE ItemFails
  <2>1. at <= Len(plan) /\ loc = "items"
    BY <1>8 DEF ItemFails, AtItem
  <2>2. ControlOK' /\ at' = at /\ loc' = "repair"
    BY <1>0, <1>8, ToRepairLeads DEF ItemFails, Callers
  <2>3. ctx' \in CtxType /\ ctx'.attempt = ctx.attempt
    <3>1. "refused" \in Verdicts /\ 1 \in 0 .. RecentTail
      BY DEF Verdicts, RecentTail
    <3>2. ctx' = [ctx EXCEPT !.verdict = "refused", !.since = 1]
      BY <1>8 DEF ItemFails
    <3> QED
      BY <1>0, <3>1, <3>2 DEF CtxType
  <2>4. KeptOK' /\ Len(plan') = Len(plan)
    BY <1>8, NoApprovalKeeps DEF ItemFails
  <2> QED
    BY <1>0, <1>8, <2>1, <2>2, <2>3, <2>4 DEF ItemFails, TypeInv, HandOK, BudgetOK, Inside
<1>9. CASE ItemRuns
  <2> DEFINE c == Observed([ctx EXCEPT !.through = plan[at].index], 1)
  <2>1. at <= Len(plan) /\ loc = "items" /\ plan[at].index \in Int
    BY <1>0, <1>9, PlanType DEF ItemRuns, AtItem
  <2>2. c \in CtxType /\ c.attempt = ctx.attempt
    <3>1. /\ [ctx EXCEPT !.through = plan[at].index] \in CtxType
          /\ [ctx EXCEPT !.through = plan[at].index].attempt = ctx.attempt
      BY <1>0, <2>1 DEF CtxType
    <3> QED
      BY <3>1, ObservedType
  <2>3. hist' \in HistType
    BY <1>0, <1>9, RanItemType DEF ItemRuns
  <2>4. KeptOK' /\ Len(plan') = Len(plan)
    BY <1>9, NoApprovalKeeps DEF ItemRuns
  <2>5. ctx' \in CtxType /\ ctx'.attempt = ctx.attempt
    <3>1. CASE ctx' = c
      BY <2>2, <3>1
    <3>2. CASE \E n \in PerceptionLines : ctx' = Observed(c, n)
      BY <2>2, <3>2, ObservedType DEF PerceptionLines
    <3> HIDE DEF c
    <3> QED
      BY <1>9, <3>1, <3>2 DEF ItemRuns, c
  <2>6. /\ ControlOK'
        /\ (loc' = "verify" /\ at' = at) \/ (loc' = "items" /\ at' = at + 1)
    <3>1. CASE ToVerify("item")
      BY <1>0, <3>1, ToVerifyLeads DEF Returns
    <3>2. CASE GoOn(at + 1, after)
      BY <1>0, <3>2, GoOnLeads
    <3> QED
      BY <1>9, <3>1, <3>2 DEF ItemRuns
  <2> QED
    BY <1>0, <2>1, <2>3, <2>4, <2>5, <2>6 DEF TypeInv, HandOK, BudgetOK, Inside
<1> QED
  BY <1>1, <1>2, <1>3, <1>4, <1>5, <1>6, <1>7, <1>8, <1>9 DEF FullPlan

LEMMA TriedType ==
    ASSUME TypeInv, Inside
    PROVE  Tried \in CtxType /\ Tried.attempt = ctx.attempt + 1
           /\ Tried.through = ctx.through /\ Tried.verdict = ctx.verdict
<1>1. ctx \in CtxType /\ ctx.attempt + 1 \in 0 .. RepairBudget + 1
  BY DEF TypeInv, BudgetOK, CtxType, RepairBudget
<1> QED
  BY <1>1 DEF Tried, CtxType

\* Inside a verification or a repair, where the session stays there.
LEMMA InsideType ==
    ASSUME TypeInv, Inside, NoApproval, ControlOK', at' = at, loc' # "approval",
           ctx' \in CtxType, ctx'.attempt <= RepairBudget, hist' \in HistType
    PROVE  TypeInv'
<1>1. KeptOK' /\ Len(plan') = Len(plan)
  BY NoApprovalKeeps
<1> QED
  BY <1>1 DEF TypeInv, HandOK, BudgetOK

LEMMA VerifyAndRepairType == TypeInv /\ VerifyAndRepair => TypeInv'
<1> SUFFICES ASSUME TypeInv, VerifyAndRepair PROVE TypeInv'
  OBVIOUS
<1>0. /\ Inside /\ ControlOK /\ KeptOK /\ at \in 1 .. Len(plan) /\ Len(plan) \in Nat
      /\ ctx \in CtxType /\ hist \in HistType /\ ctx.attempt <= RepairBudget
      /\ repair \in RepairType
  <2>1. Inside
    BY DEF VerifyAndRepair, VerifyBlocked, VerifyJudged, RepairNothing, UseTemplate,
           NoTemplate, RepairGivesUp, RepairUnusable, RepairAsksUser, RepairPlanned,
           StepNeedsApproval, StepFails, StepRuns, StepsDone, AtStep, Inside
  <2> QED
    BY <2>1, PlanType DEF TypeInv, HandOK, BudgetOK, ControlOK
<1>1. CASE VerifyBlocked
  <2>1. PICK n \in PerceptionLines : Verified(FALSE, Observed(ctx, n + 2), hist)
    BY <1>1 DEF VerifyBlocked
  <2>2. n + 2 \in Nat
    BY DEF PerceptionLines
  <2>3. Observed(ctx, n + 2) \in CtxType /\ Observed(ctx, n + 2).attempt <= RepairBudget
    BY <1>0, <2>2, ObservedType
  <2> QED
    BY <1>0, <1>1, <2>1, <2>3, VerifiedType DEF VerifyBlocked
<1>2. ASSUME NEW v \in Verdicts, VerifyJudged(v) PROVE TypeInv'
  <2> DEFINE c == [ctx EXCEPT !.verdict = v]
             h == IF v = "achieved" /\ back # "step"
                  THEN [hist EXCEPT !.confirmed = @ \cup {at}] ELSE hist
  <2>1. PICK n \in PerceptionLines : Verified(v = "achieved", Observed(c, n + 1), h)
    BY <1>2 DEF VerifyJudged
  <2>2. n + 1 \in Nat
    BY DEF PerceptionLines
  <2>3. c \in CtxType /\ c.attempt <= RepairBudget
    BY <1>0 DEF CtxType
  <2>4. h \in HistType
    <3>1. hist.confirmed \cup {at} \in SUBSET Nat
      BY <1>0 DEF HistType
    <3> QED
      BY <1>0, <3>1 DEF HistType
  <2> HIDE DEF c, h
  <2>5. Observed(c, n + 1) \in CtxType /\ Observed(c, n + 1).attempt <= RepairBudget
    BY <2>2, <2>3, ObservedType
  <2>6. loc = "verify" /\ NoApproval /\ (v = "achieved") \in BOOLEAN
    BY <1>2 DEF VerifyJudged
  <2> QED
    BY <2>1, <2>4, <2>5, <2>6, VerifiedType
<1>3. CASE RepairNothing
  BY <1>0, <1>3, RepairReturnsType DEF RepairNothing
<1>4. ASSUME NEW n \in 1 .. 2, UseTemplate(n) PROVE TypeInv'
  <2>1. ControlOK' /\ at' = at /\ loc' = "steps"
    BY <1>0, <1>4, ToStepsLeads DEF UseTemplate
  <2> QED
    BY <1>0, <1>4, <2>1, InsideType DEF UseTemplate
<1>5. CASE NoTemplate
  <2>1. repair' \in RepairType /\ repair'.step <= repair'.count
    BY <1>0, <1>5 DEF NoTemplate, RepairType, ControlOK
  <2>2. ControlOK' /\ at' = at /\ loc' = "ask"
    BY <1>0, <1>5, <2>1 DEF NoTemplate, ControlOK, Locations
  <2> QED
    BY <1>0, <1>5, <2>2, InsideType DEF NoTemplate
<1>6. CASE RepairGivesUp
  BY <1>0, <1>6, TriedType, RepairReturnsType DEF RepairGivesUp
<1>7. CASE RepairUnusable
  <2>1. ctx' \in CtxType /\ ctx'.attempt <= RepairBudget
    <3>1. Tried \in CtxType /\ Tried.attempt <= RepairBudget
      BY <1>0, <1>7, TriedType DEF RepairUnusable, CtxType, RepairBudget
    <3>2. ctx' = Observed(Tried, 1)
      BY <1>7 DEF RepairUnusable
    <3> QED
      BY <3>1, <3>2, ObservedType
  <2>2. ControlOK' /\ at' = at /\ loc' = "repair"
    BY <1>0, <1>7, GoToLeads DEF RepairUnusable, Locations
  <2> QED
    BY <1>0, <1>7, <2>1, <2>2, InsideType DEF RepairUnusable
<1>8. CASE RepairAsksUser
  BY <1>0, <1>8, TriedType, RepairReturnsType DEF RepairAsksUser
<1>9. ASSUME NEW n \in 1 .. MaxRepairSteps, RepairPlanned(n) PROVE TypeInv'
  <2>0. n \in Nat
    BY PlanLoopAssumption DEF PlanLoopAssumption
  <2>1. ControlOK' /\ at' = at /\ loc' = "steps"
    BY <1>0, <1>9, <2>0, ToStepsLeads DEF RepairPlanned
  <2>2. ctx' \in CtxType /\ ctx'.attempt <= RepairBudget
    BY <1>0, <1>9, TriedType DEF RepairPlanned
  <2> QED
    BY <1>0, <1>9, <2>1, <2>2, InsideType DEF RepairPlanned
<1>10. CASE StepNeedsApproval
  <2>1. (IF repair.round = "template" THEN -1 ELSE repair.step) \in Int
    BY <1>0 DEF RepairType
  <2> QED
    BY <1>0, <1>10, <2>1, AskApprovalType DEF StepNeedsApproval
<1>11. CASE StepFails
  <2>1. ControlOK' /\ at' = at /\ loc' = "verify"
    BY <1>0, <1>11, ToVerifyLeads DEF StepFails, RepairType, Returns
  <2>2. ctx' \in CtxType /\ ctx'.attempt <= RepairBudget
    BY <1>0, <1>11 DEF StepFails, CtxType, RecentTail
  <2> QED
    BY <1>0, <1>11, <2>1, <2>2, InsideType DEF StepFails
<1>12. CASE StepRuns
  <2>1. repair' \in RepairType /\ repair'.step <= repair'.count
    BY <1>0, <1>12 DEF StepRuns, AtStep, RepairType
  <2>2. ControlOK' /\ at' = at /\ loc' # "approval"
    BY <1>0, <1>12, <2>1 DEF StepRuns, ControlOK, Locations, Returns
  <2>3. ctx' \in CtxType /\ ctx'.attempt <= RepairBudget
    BY <1>0, <1>12, ObservedType DEF StepRuns
  <2> QED
    BY <1>0, <1>12, <2>2, <2>3, InsideType DEF StepRuns
<1>13. CASE StepsDone
  <2>1. ControlOK' /\ at' = at /\ loc' = "verify"
    BY <1>0, <1>13, ToVerifyLeads DEF StepsDone, RepairType, Returns
  <2> QED
    BY <1>0, <1>13, <2>1, InsideType DEF StepsDone
<1> QED
  BY <1>1, <1>2, <1>3, <1>4, <1>5, <1>6, <1>7, <1>8, <1>9, <1>10, <1>11, <1>12, <1>13
     DEF VerifyAndRepair

LEMMA StepPlannerType == TypeInv /\ StepPlanner => TypeInv'
<1> SUFFICES ASSUME TypeInv, StepPlanner PROVE TypeInv'
  OBVIOUS
<1>0. /\ ControlOK /\ KeptOK /\ at \in 1 .. Len(plan) + 1 /\ Len(plan) \in Nat
      /\ planner \in PlannerType
  BY PlanType DEF TypeInv, HandOK, ControlOK
<1>1. CASE StepSilent
  BY <1>0, <1>1, LeaveLeads, FinishLeads, QuietType DEF StepSilent, Inside
<1>2. CASE StepUnread
  <2>1. CASE planner.unread + 1 < MaxUnread /\ NextStep(planner.unread + 1, planner.skipped)
    <3>1. planner.unread + 1 \in 0 .. MaxUnread - 1 /\ planner.skipped \in 0 .. MaxVerifySkip - 1
      BY <1>0, <2>1 DEF PlannerType, MaxUnread
    <3>2. ControlOK' /\ at' = at /\ loc' = "planner"
      BY <1>0, <1>2, <2>1, <3>1, NextStepLeads DEF StepUnread, AtPlanner
    <3> QED
      BY <1>0, <1>2, <3>2, QuietType DEF StepUnread, Inside
  <2>2. CASE Finish("parse_abort")
    BY <1>0, <1>2, <2>2, FinishLeads, QuietType DEF StepUnread, Inside
  <2> QED
    BY <1>2, <2>1, <2>2 DEF StepUnread
<1>3. CASE CompleteRefused
  <2>1. CASE planner.skipped + 1 < MaxVerifySkip /\ NextStep(0, planner.skipped + 1)
    <3>1. 0 \in 0 .. MaxUnread - 1 /\ planner.skipped + 1 \in 0 .. MaxVerifySkip - 1
      BY <1>0, <2>1 DEF PlannerType, MaxUnread, MaxVerifySkip
    <3>2. ControlOK' /\ at' = at /\ loc' = "planner"
      BY <1>0, <1>3, <2>1, <3>1, NextStepLeads DEF CompleteRefused, AtPlanner
    <3> QED
      BY <1>0, <1>3, <3>2, QuietType DEF CompleteRefused, Inside
  <2>2. CASE Finish("verify_abort")
    BY <1>0, <1>3, <2>2, FinishLeads, QuietType DEF CompleteRefused, Inside
  <2> QED
    BY <1>3, <2>1, <2>2 DEF CompleteRefused
<1>4. CASE StepActs
  <2>1. 0 \in 0 .. MaxUnread - 1 /\ planner.skipped \in 0 .. MaxVerifySkip - 1
    BY <1>0 DEF PlannerType, MaxUnread
  <2>2. ControlOK' /\ at' = at /\ loc' = "planner"
    BY <1>0, <1>4, <2>1, NextStepLeads DEF StepActs, AtPlanner
  <2> QED
    BY <1>0, <1>4, <2>2, QuietType DEF StepActs, Inside
<1>5. ASSUME NEW tag \in {"ask_user", "success", "failure"}, StepEnds(tag) PROVE TypeInv'
  BY <1>0, <1>5, FinishLeads, QuietType DEF StepEnds, Inside
<1>6. CASE PlannerNeedsApproval
  <2>1. planner.step \in Int
    BY <1>0 DEF PlannerType
  <2> QED
    BY <1>6, <2>1, AskApprovalType DEF PlannerNeedsApproval
<1>7. CASE StepsUsedUp
  BY <1>0, <1>7, FinishLeads, QuietType DEF StepsUsedUp, Inside
<1> QED
  BY <1>1, <1>2, <1>3, <1>4, <1>5, <1>6, <1>7 DEF StepPlanner

LEMMA ResumedCtxType ==
    ASSUME ctx \in CtxType, pending \in PendingType
    PROVE  /\ ResumedCtx \in CtxType /\ ResumedCtx.attempt = 0
           /\ ResumedCtx.verdict = "none"
           /\ ResumedCtx.through \in {pending.index, pending.through}
           /\ ResumedCtx.through >= pending.through
           /\ pending.index >= 0 => ResumedCtx.through >= pending.index
<1> DEFINE t == IF pending.index >= 0 /\ pending.index > pending.through
                THEN pending.index ELSE pending.through
           c == [ctx EXCEPT !.verdict = "none", !.attempt = 0, !.through = t]
<1>1. /\ t \in Int /\ t \in {pending.index, pending.through}
      /\ t >= pending.through
      /\ pending.index >= 0 => t >= pending.index
  BY DEF PendingType
<1>2. "none" \in Verdicts /\ 0 \in 0 .. RepairBudget + 1
  BY DEF Verdicts, RepairBudget
<1> HIDE DEF t
<1>3. c \in CtxType /\ c.attempt = 0 /\ c.verdict = "none" /\ c.through = t
  BY <1>1, <1>2 DEF CtxType
<1>4. ResumedCtx = Observed(c, 1)
  BY DEF ResumedCtx, t
<1> HIDE DEF c
<1>5. /\ Observed(c, 1) \in CtxType /\ Observed(c, 1).through = t
      /\ Observed(c, 1).attempt = 0 /\ Observed(c, 1).verdict = "none"
  BY <1>3, ObservedType
<1> QED
  BY <1>1, <1>4, <1>5

LEMMA ResumeType == TypeInv /\ Resume => TypeInv'
<1> SUFFICES ASSUME TypeInv, Resume PROVE TypeInv'
  OBVIOUS
<1>0. /\ ControlOK /\ KeptOK /\ at \in 1 .. Len(plan) + 1 /\ Len(plan) \in Nat
      /\ pending \in PendingType /\ ctx \in CtxType /\ hist \in HistType
      /\ loc = "approval" /\ pending.mode # "step_planner" => at <= Len(plan)
  BY PlanType DEF TypeInv, HandOK, KeptOK
<1>1. ASSUME Leave \/ Finish("failure"), entry' = "resumed",
             UNCHANGED <<plan, ctx, pending, approvals, hist>>
      PROVE  TypeInv'
  <2>1. ControlOK' /\ at' = at /\ loc' = "over"
    BY <1>0, <1>1, LeaveLeads, FinishLeads
  <2>2. KeptOK'
    BY <1>0, <1>1 DEF KeptOK
  <2> QED
    BY <1>0, <1>1, <2>1, <2>2 DEF TypeInv, HandOK, BudgetOK, Inside
<1>2. CASE ApprovedRuns
  <2>1. /\ loc = "approval" /\ entry' = "resumed" /\ outcome' = "none"
        /\ after' = ResumeAfter(pending)
        /\ UNCHANGED <<repair, delegated, plan, pending, approvals>>
    BY <1>2 DEF ApprovedRuns
  <2>2. after' \in Int
    BY <1>0, <2>1 DEF ResumeAfter, PendingType
  <2>3. hist' \in HistType
    <3>1. pending.pos \in Nat
      BY <1>0 DEF PendingType
    <3> QED
      BY <1>0, <1>2, <3>1, RanItemType DEF ApprovedRuns
  <2>4. ctx' \in CtxType /\ ctx'.attempt = 0
    <3>1. CASE ctx' = ResumedCtx
      BY <1>0, <3>1, ResumedCtxType
    <3>2. CASE \E n \in PerceptionLines : ctx' = Observed(ResumedCtx, n)
      <4>1. PICK n \in PerceptionLines : ctx' = Observed(ResumedCtx, n)
        BY <3>2
      <4>2. n \in Nat
        BY DEF PerceptionLines
      <4>3. ResumedCtx \in CtxType /\ ResumedCtx.attempt = 0
        BY <1>0, ResumedCtxType
      <4> QED
        BY <4>1, <4>2, <4>3, ObservedType
    <3>3. ctx' = ResumedCtx \/ \E n \in PerceptionLines : ctx' = Observed(ResumedCtx, n)
      BY <1>2 DEF ApprovedRuns
    <3> QED
      BY <3>1, <3>2, <3>3
  <2>5. \/ /\ loc' = "verify" /\ pending.mode # "step_planner"
           /\ back' \in {"resumed_repair", "resumed_plan"} /\ UNCHANGED <<at, planner>>
        \/ loc' = "items" /\ at' = 1 /\ UNCHANGED <<back, planner>>
        \/ loc' = "planner" /\ planner' = NewPlanner /\ UNCHANGED <<at, back>>
    BY <1>2 DEF ApprovedRuns
  <2>6. ControlOK'
    <3>1. loc' \in Locations /\ back' \in Returns
      BY <1>0, <2>5 DEF ControlOK, Locations, Returns
    <3>2. planner' \in PlannerType
      BY <1>0, <2>5, NewPlannerType DEF ControlOK
    <3>3. outcome' \in Outcomes
      BY <2>1 DEF Outcomes
    <3>4. delegated' \in BOOLEAN /\ repair' \in RepairType /\ repair'.step <= repair'.count
      BY <1>0, <2>1 DEF ControlOK
    <3> QED
      BY <2>2, <3>1, <3>2, <3>3, <3>4 DEF ControlOK
  <2>7. KeptOK'
    BY <1>0, <2>1 DEF KeptOK
  <2>8. HandOK'
    BY <1>0, <2>1, <2>5 DEF HandOK, Inside
  <2>9. BudgetOK'
    BY <2>4 DEF BudgetOK, RepairBudget
  <2> QED
    BY <2>3, <2>4, <2>6, <2>7, <2>8, <2>9 DEF TypeInv
<1> QED
  BY <1>1, <1>2 DEF Resume, ApprovedBlocked, ApprovedFails

LEMMA StutterType == TypeInv /\ UNCHANGED vars => TypeInv'
BY DEF TypeInv, ControlOK, KeptOK, HandOK, BudgetOK, Inside, vars, control

LEMMA TypeStep == TypeInv /\ [Next]_vars => TypeInv'
BY FullPlanType, VerifyAndRepairType, StepPlannerType, ResumeType, StutterType
   DEF Next, Session

LEMMA TypeInvariant == Spec => []TypeInv
BY InitType, TypeStep, PTL DEF Spec

\* A session is always in a state its code can be in: the item in hand exists,
\* a repair plan is not overrun, every counter stays within its budget
\* (computer_use_agent.py:707, 1143-1283).
THEOREM TypeCorrect == Spec => []TypeOK
BY TypeInvariant, TypeInvGivesTypeOK, PTL

-----------------------------------------------------------------------------
(* A refused checkpoint holds the plan up *)

\* Where the next item is looked for, the last verdict is no refusal.
VerdictOK == loc \in {"plan", "items"} => ctx.verdict \notin Refused

LEMMA InitVerdict == Init => VerdictOK
BY DEF Init, NewCtx, VerdictOK, Refused

\* A repair goes on with the plan only from a context whose verdict is not
\* refused.
LEMMA RepairReturnsVerdict ==
    ASSUME ControlOK, NEW tag, NEW c \in CtxType, NEW h,
           tag = "checkpoint_ok" => c.verdict \notin Refused, RepairReturns(tag, c, h)
    PROVE  VerdictOK'
<1>1. ctx'.verdict = c.verdict
  BY DEF RepairReturns, CtxType
<1>2. loc' \in {"plan", "items"} => tag = "checkpoint_ok"
  BY DEF RepairReturns, Finish, ToPlanner
<1> QED
  BY <1>1, <1>2 DEF VerdictOK

LEMMA VerifiedVerdict ==
    ASSUME ControlOK, NEW ok \in BOOLEAN, NEW c \in CtxType, NEW h,
           ok => c.verdict \notin Refused, Verified(ok, c, h)
    PROVE  VerdictOK'
<1>1. CASE ok /\ RepairReturns("checkpoint_ok", c, h)
  BY <1>1, RepairReturnsVerdict
<1>2. CASE /\ ctx' = c
           /\ \/ ok
              \/ \E l \in Callers : ToRepair(l)
              \/ GoTo("ask") \/ GoTo("repair") \/ GoTo("steps")
  BY <1>2 DEF VerdictOK, ToRepair, GoTo
<1> HIDE DEF Callers
<1> QED
  BY <1>1, <1>2 DEF Verified

LEMMA FullPlanVerdict == TypeInv /\ VerdictOK /\ FullPlan => VerdictOK'
<1> SUFFICES ASSUME TypeInv, VerdictOK, FullPlan PROVE VerdictOK'
  OBVIOUS
<1>0. ctx \in CtxType
  BY DEF TypeInv
<1>1. CASE PlannerSilent \/ NoPlan \/ PlanDone \/ AskUser \/ ItemNeedsApproval \/ ItemFails
  BY <1>1 DEF PlannerSilent, NoPlan, PlanDone, AskUser, ItemNeedsApproval, ItemFails, Leave,
              ToPlanner, Finish, AskApproval, ToRepair, VerdictOK
<1>2. CASE SkipItem \/ \E p \in Plans : WritePlan(p)
  BY <1>2 DEF SkipItem, WritePlan, VerdictOK
<1>3. CASE ItemRuns
  <2> DEFINE b == [ctx EXCEPT !.through = plan[at].index]
             c == Observed(b, 1)
  <2>1. plan[at].index \in Int /\ loc = "items"
    BY <1>3, PlanType DEF ItemRuns, AtItem, TypeInv, HandOK
  <2>2. b \in CtxType /\ b.verdict = ctx.verdict
    BY <1>0, <2>1 DEF CtxType
  <2>3. c \in CtxType /\ c.verdict = ctx.verdict
    BY <2>2, ObservedType
  <2>4. ctx' = c \/ \E n \in PerceptionLines : ctx' = Observed(c, n)
    BY <1>3 DEF ItemRuns
  <2> HIDE DEF b, c
  <2>5. ctx'.verdict = ctx.verdict
    BY <2>3, <2>4, ObservedType DEF PerceptionLines
  <2> QED
    BY <2>1, <2>5 DEF VerdictOK
<1> QED
  BY <1>1, <1>2, <1>3 DEF FullPlan

LEMMA VerifyAndRepairVerdict == TypeInv /\ VerifyAndRepair => VerdictOK'
<1> SUFFICES ASSUME TypeInv, VerifyAndRepair PROVE VerdictOK'
  OBVIOUS
<1>0. ControlOK /\ ctx \in CtxType
  BY DEF TypeInv
<1>1. CASE VerifyBlocked
  <2>1. PICK n \in PerceptionLines : Verified(FALSE, Observed(ctx, n + 2), hist)
    BY <1>1 DEF VerifyBlocked
  <2>2. Observed(ctx, n + 2) \in CtxType
    BY <1>0, ObservedType DEF PerceptionLines
  <2> QED
    BY <1>0, <2>1, <2>2, VerifiedVerdict
<1>2. ASSUME NEW v \in Verdicts, VerifyJudged(v) PROVE VerdictOK'
  <2> DEFINE c == [ctx EXCEPT !.verdict = v]
             h == IF v = "achieved" /\ back # "step"
                  THEN [hist EXCEPT !.confirmed = @ \cup {at}] ELSE hist
  <2>1. PICK n \in PerceptionLines : Verified(v = "achieved", Observed(c, n + 1), h)
    BY <1>2 DEF VerifyJudged
  <2>2. c \in CtxType /\ c.verdict = v
    BY <1>0 DEF CtxType
  <2> HIDE DEF c, h
  <2>3. Observed(c, n + 1) \in CtxType /\ Observed(c, n + 1).verdict = v
    BY <2>2, ObservedType DEF PerceptionLines
  <2>4. v = "achieved" => Observed(c, n + 1).verdict \notin Refused
    BY <2>3 DEF Refused
  <2>5. (v = "achieved") \in BOOLEAN
    OBVIOUS
  <2> QED
    BY <1>0, <2>1, <2>3, <2>4, <2>5, VerifiedVerdict
<1>3. CASE RepairNothing
  BY <1>0, <1>3, RepairReturnsVerdict DEF RepairNothing
<1>4. CASE RepairGivesUp \/ RepairAsksUser
  BY <1>4 DEF RepairGivesUp, RepairAsksUser, RepairReturns, Finish, ToPlanner, VerdictOK
<1>5. CASE \/ \E n \in 1 .. 2 : UseTemplate(n)
           \/ NoTemplate \/ RepairUnusable
           \/ \E n \in 1 .. MaxRepairSteps : RepairPlanned(n)
           \/ StepNeedsApproval \/ StepFails \/ StepRuns \/ StepsDone
  BY <1>5 DEF UseTemplate, NoTemplate, RepairUnusable, RepairPlanned, StepNeedsApproval,
              StepFails, StepRuns, StepsDone, ToSteps, GoTo, AskApproval, Finish, ToVerify,
              VerdictOK
<1> QED
  BY <1>1, <1>2, <1>3, <1>4, <1>5 DEF VerifyAndRepair

LEMMA StepPlannerVerdict == StepPlanner => VerdictOK'
BY DEF StepPlanner, StepSilent, StepUnread, CompleteRefused, StepActs, StepEnds,
       PlannerNeedsApproval, StepsUsedUp, Leave, Finish, NextStep, AskApproval, VerdictOK

LEMMA ResumeVerdict == TypeInv /\ Resume => VerdictOK'
<1> SUFFICES ASSUME TypeInv, Resume PROVE VerdictOK'
  OBVIOUS
<1>1. CASE ApprovedBlocked \/ ApprovedFails
  BY <1>1 DEF ApprovedBlocked, ApprovedFails, Leave, Finish, VerdictOK
<1>2. CASE ApprovedRuns
  <2>1. ResumedCtx \in CtxType /\ ResumedCtx.verdict = "none"
    BY ResumedCtxType DEF TypeInv, KeptOK
  <2>2. \/ loc' \in {"verify", "planner"}
        \/ \E n \in PerceptionLines : ctx' = Observed(ResumedCtx, n)
    BY <1>2 DEF ApprovedRuns
  <2>3. loc' \in {"plan", "items"} => ctx'.verdict = "none"
    BY <2>1, <2>2, ObservedType DEF PerceptionLines
  <2> QED
    BY <2>3 DEF VerdictOK, Refused
<1> QED
  BY <1>1, <1>2 DEF Resume

LEMMA VerdictStep == TypeInv /\ VerdictOK /\ [Next]_vars => VerdictOK'
<1>1. VerdictOK /\ UNCHANGED vars => VerdictOK'
  BY DEF VerdictOK, vars, control
<1> QED
  BY <1>1, FullPlanVerdict, VerifyAndRepairVerdict, StepPlannerVerdict, ResumeVerdict
     DEF Next, Session

LEMMA VerdictInvariant == Spec => []VerdictOK
BY TypeInvariant, InitVerdict, VerdictStep, PTL DEF Spec

\* However verification, templates, repair plans and approvals follow each
\* other, no step leads from a checkpoint that was refused last to the next
\* item (computer_use_agent.py:817-855, 1143-1283).
THEOREM RefusedHoldsUp == Spec => RefusedCheckpointHolds
<1>1. VerdictOK' => (loc' = "items" /\ at' > at /\ at <= Len(plan) /\ plan[at].cp
                       => ctx'.verdict \notin Refused)
  BY DEF VerdictOK
<1>2. VerdictOK' =>
        [ (loc' = "items" /\ at' > at /\ at <= Len(plan) /\ plan[at].cp)
            => ctx'.verdict \notin Refused ]_vars
  BY <1>1
<1> QED
  BY <1>2, VerdictInvariant, PTL DEF RefusedCheckpointHolds

-----------------------------------------------------------------------------
(* No item runs twice *)

\* The plans number their items in list order, as the planner's prompt asks; two
\* items may have the same number.
Ordered ==
    \A p \in Plans : \A i, j \in 1 .. Len(p) : i <= j => p[i].index <= p[j].index

\* The items that ran are in the plan, and executed_through_index is not behind
\* any of them.
RanOK ==
    /\ hist.ran \subseteq 1 .. Len(plan)
    /\ loc = "plan" => hist.ran = {}
    /\ after >= -1 /\ ctx.through >= -1
    /\ \A p \in hist.ran : plan[p].index <= ctx.through

\* No item from position q on that ran will be chosen again.
Behind(q) == \A p \in hist.ran : p < q \/ plan[p].index <= after

\* What the call that asked for a verification or a repair may rely on: it goes
\* on after the item in hand, or at the head of the plan.
CallerOK(caller) ==
    /\ caller = "item" => Behind(at + 1)
    /\ caller = "failed_item" => Behind(at) /\ plan[at].index > after
    /\ caller \in {"resumed_plan", "resumed_repair"} => Behind(1)

PlaceOK ==
    /\ loc = "items" => Behind(at)
    /\ loc = "verify" /\ back \in Callers => CallerOK(back)
    /\ loc = "verify" /\ back \notin Callers => CallerOK(repair.caller)
    /\ loc \in {"repair", "ask", "steps"} => CallerOK(repair.caller)

\* The place stored with an approval: the item asked about did not run, and all
\* that ran are numbered below it.
StoredOK ==
    loc = "approval" =>
        /\ pending.through = ctx.through
        /\ pending.mode = "full_plan" =>
             /\ pending.pos \in 1 .. Len(plan) /\ pending.pos \notin hist.ran
             /\ pending.index = plan[pending.pos].index
             /\ pending.index > -1
             /\ \A p \in hist.ran : plan[p].index <= pending.index
        /\ pending.mode = "step_planner" => pending.index >= 0

OrderInv == NoItemRepeated /\ RanOK /\ PlaceOK /\ StoredOK

LEMMA InitOrder == Init => OrderInv
<1> SUFFICES ASSUME Init PROVE OrderInv
  OBVIOUS
<1>1. /\ hist = [ran |-> {}, repeated |-> FALSE, confirmed |-> {}]
      /\ hist.ran = {}
      /\ ctx.through = -1 /\ after = -1 /\ loc \in {"plan", "planner"}
  BY DEF Init, NewCtx
<1>2. NoItemRepeated
  BY <1>1 DEF NoItemRepeated
<1>3. RanOK
  BY <1>1 DEF RanOK
<1>4. PlaceOK /\ StoredOK
  BY <1>1 DEF PlaceOK, StoredOK
<1> QED
  BY <1>2, <1>3, <1>4 DEF OrderInv

\* With a plan in order, what ran and is behind the item in hand is numbered no
\* higher than it.
LEMMA BehindIsBelow ==
    ASSUME Ordered, TypeInv, RanOK, NEW q \in 1 .. Len(plan), Behind(q),
           plan[q].index > after
    PROVE  /\ \A p \in hist.ran : plan[p].index <= plan[q].index
           /\ q \notin hist.ran
<1>1. /\ KeptOK /\ Len(plan) \in Nat /\ after \in Int
      /\ \A p \in 1 .. Len(plan) : plan[p].index \in Int
      /\ hist.ran \subseteq 1 .. Len(plan)
  BY PlanType DEF TypeInv, ControlOK, RanOK
<1>2. \A i, j \in 1 .. Len(plan) : i <= j => plan[i].index <= plan[j].index
  BY <1>1 DEF KeptOK, Ordered
<1>3. ASSUME NEW p \in hist.ran PROVE plan[p].index <= plan[q].index
  BY <1>1, <1>2, <1>3 DEF Behind
<1>4. q \notin hist.ran
  BY <1>1 DEF Behind
<1> QED
  BY <1>3, <1>4

\* What ran is as before, and the context is through at least as far.
RanKept ==
    /\ hist'.ran = hist.ran /\ hist'.repeated = hist.repeated
    /\ plan' = plan /\ loc' # "plan"
    /\ ctx'.through \in Int /\ ctx'.through >= ctx.through

LEMMA RanKeptKeeps ==
    ASSUME TypeInv, OrderInv, RanKept, after' \in Int, after' >= -1
    PROVE  NoItemRepeated' /\ RanOK'
<1>1. /\ \A p \in 1 .. Len(plan) : plan[p].index \in Int
      /\ ctx.through \in Int
  BY PlanType DEF TypeInv, CtxType
<1>2. NoItemRepeated'
  BY DEF RanKept, OrderInv, NoItemRepeated
<1>3. RanOK'
  BY <1>1 DEF RanKept, OrderInv, RanOK
<1> QED
  BY <1>2, <1>3

\* A step that stays where it relies on the same caller.
LEMMA InsideOrder ==
    ASSUME TypeInv, OrderInv, RanKept, UNCHANGED <<at, after>>,
           NEW caller \in Callers, CallerOK(caller),
           \/ loc' \in {"repair", "ask", "steps"} /\ repair'.caller = caller
           \/ loc' = "verify" /\ back' \notin Callers /\ repair'.caller = caller
           \/ loc' = "verify" /\ back' = caller
    PROVE  OrderInv'
<1>1. NoItemRepeated' /\ RanOK'
  BY RanKeptKeeps DEF OrderInv, RanOK, TypeInv, ControlOK
<1>2. CallerOK(caller)'
  BY DEF CallerOK, Behind, RanKept
<1>3. PlaceOK'
  BY <1>2 DEF PlaceOK
<1>4. StoredOK'
  BY DEF StoredOK
<1> QED
  BY <1>1, <1>3, <1>4 DEF OrderInv

\* A step that goes on with the plan.
LEMMA ItemsOrder ==
    ASSUME TypeInv, OrderInv, RanKept, loc' = "items", after' = after, Behind(at')
    PROVE  OrderInv'
<1>1. NoItemRepeated' /\ RanOK'
  BY RanKeptKeeps DEF OrderInv, RanOK, TypeInv, ControlOK
<1>2. (Behind(at))'
  BY DEF Behind, RanKept
<1>3. PlaceOK' /\ StoredOK'
  BY <1>2 DEF PlaceOK, StoredOK
<1> QED
  BY <1>1, <1>3 DEF OrderInv

\* A step to where no item runs any more.
LEMMA ElsewhereOrder ==
    ASSUME TypeInv, OrderInv, RanKept, loc' \in {"planner", "over"}, after' = after
    PROVE  OrderInv'
<1>1. NoItemRepeated' /\ RanOK'
  BY RanKeptKeeps DEF OrderInv, RanOK, TypeInv, ControlOK
<1>2. PlaceOK' /\ StoredOK'
  BY DEF PlaceOK, StoredOK
<1> QED
  BY <1>1, <1>2 DEF OrderInv

LEMMA RepairReturnsOrder ==
    ASSUME Ordered, TypeInv, OrderInv, Inside, CallerOK(repair.caller), NoApproval,
           NEW tag \in {"checkpoint_ok", "repair_exhausted", "ask_user"},
           NEW c \in CtxType, c.through = ctx.through,
           NEW h, h.ran = hist.ran, h.repeated = hist.repeated, RepairReturns(tag, c, h)
    PROVE  OrderInv'
<1>1. /\ ControlOK /\ KeptOK /\ at \in 1 .. Len(plan) /\ Len(plan) \in Nat
      /\ \A p \in 1 .. Len(plan) : plan[p].index \in Int
      /\ ctx.through \in Int /\ after \in Int /\ repair.caller \in Callers
  BY PlanType DEF TypeInv, HandOK, ControlOK, CtxType, RepairType
<1>2. CASE tag = "checkpoint_ok" /\ repair.caller = "failed_item"
  <2>1. Behind(at) /\ plan[at].index > after
    BY <1>2 DEF CallerOK
  <2>2. \A p \in hist.ran : plan[p].index <= plan[at].index
    BY <1>1, <2>1, BehindIsBelow DEF OrderInv
  <2>3. /\ ctx'.through = plan[at].index /\ hist' = h /\ plan' = plan
        /\ loc' = "items" /\ at' = at + 1 /\ after' = after
    <3>1. GoOn(at + 1, after) /\ ctx' = [c EXCEPT !.through = plan[at].index] /\ hist' = h
      BY <1>2 DEF RepairReturns
    <3> QED
      BY <3>1 DEF GoOn, NoApproval, CtxType
  <2>4. RanOK'
    BY <1>1, <2>1, <2>2, <2>3 DEF RanOK, OrderInv
  <2>5. NoItemRepeated'
    BY <2>3 DEF NoItemRepeated, OrderInv
  <2>6. (Behind(at))'
    BY <1>1, <2>1, <2>3 DEF Behind, OrderInv, RanOK
  <2>7. PlaceOK' /\ StoredOK'
    BY <2>3, <2>6 DEF PlaceOK, StoredOK
  <2> QED
    BY <2>4, <2>5, <2>7 DEF OrderInv
<1>3. CASE ~ (tag = "checkpoint_ok" /\ repair.caller = "failed_item")
  <2>1. ctx' = c /\ hist' = h /\ plan' = plan
    BY <1>3 DEF RepairReturns, NoApproval
  <2>2. loc' # "plan" => RanKept
    BY <1>1, <2>1 DEF RanKept
  <2>3. CASE tag = "checkpoint_ok" /\ repair.caller = "item" /\ GoOn(at + 1, after)
    BY <2>2, <2>3, ItemsOrder DEF GoOn, CallerOK
  <2>4. CASE tag = "checkpoint_ok" /\ repair.caller = "resumed_plan" /\ GoOn(1, after)
    BY <2>2, <2>4, ItemsOrder DEF GoOn, CallerOK
  <2>5. CASE Finish(tag) \/ ToPlanner
    BY <2>2, <2>5, ElsewhereOrder DEF Finish, ToPlanner
  <2> QED
    BY <1>1, <1>3, <2>3, <2>4, <2>5 DEF RepairReturns
<1> QED
  BY <1>2, <1>3

LEMMA VerifiedOrder ==
    ASSUME Ordered, TypeInv, OrderInv, loc = "verify", NoApproval, NEW ok \in BOOLEAN,
           NEW c \in CtxType, c.through = ctx.through,
           NEW h, h.ran = hist.ran, h.repeated = hist.repeated, Verified(ok, c, h)
    PROVE  OrderInv'
<1>1. Inside /\ ctx.through \in Int /\ repair.caller \in Callers /\ back \in Returns
  BY DEF Inside, TypeInv, ControlOK, CtxType, RepairType
<1>2. CASE ok /\ back \in {"template", "round"} /\ RepairReturns("checkpoint_ok", c, h)
  <2>1. CallerOK(repair.caller)
    BY <1>2 DEF OrderInv, PlaceOK, Callers
  <2> QED
    BY <1>1, <1>2, <2>1, RepairReturnsOrder
<1>3. CASE ~ (ok /\ back \in {"template", "round"}) /\ ctx' = c /\ hist' = h
  <2>1. loc' # "plan" => RanKept
    BY <1>1, <1>3 DEF RanKept, NoApproval
  <2>2. CASE back = "item" /\ GoOn(at + 1, after)
    BY <2>1, <2>2, ItemsOrder DEF GoOn, CallerOK, OrderInv, PlaceOK, Callers
  <2>3. CASE back \in {"resumed_plan", "resumed_repair"} /\ GoOn(1, after)
    BY <2>1, <2>3, ItemsOrder DEF GoOn, CallerOK, OrderInv, PlaceOK, Callers
  <2>4. CASE back \in Callers /\ ToRepair(back)
    <3>1. CallerOK(back)
      BY <2>4 DEF OrderInv, PlaceOK
    <3>2. loc' = "repair" /\ repair'.caller = back /\ UNCHANGED <<at, after>>
      BY <2>4 DEF ToRepair, NewRepair
    <3> QED
      BY <2>1, <2>4, <3>1, <3>2, InsideOrder
  <2>5. CASE /\ back \in {"template", "round", "step"}
             /\ GoTo("ask") \/ GoTo("repair") \/ GoTo("steps")
    <3>1. CallerOK(repair.caller)
      BY <2>5 DEF OrderInv, PlaceOK, Callers
    <3>2. loc' \in {"repair", "ask", "steps"} /\ UNCHANGED <<at, after, repair>>
      BY <2>5 DEF GoTo
    <3> QED
      BY <1>1, <2>1, <3>1, <3>2, InsideOrder
  <2> HIDE DEF Callers
  <2> QED
    BY <1>3, <2>2, <2>3, <2>4, <2>5 DEF Verified
<1> QED
  BY <1>2, <1>3 DEF Verified

\* The step changes no more than where the session is, and its context no
\* further than through.
LEMMA QuietRan ==
    ASSUME TypeInv, NoApproval, hist' = hist, ctx'.through = ctx.through, loc' # "plan"
    PROVE  RanKept
BY DEF RanKept, NoApproval, TypeInv, CtxType

\* A session that stops for an approval stores its place.
LEMMA AskApprovalOrder ==
    ASSUME Ordered, TypeInv, OrderInv, NEW mode \in {"full_plan", "repair", "step_planner"},
           NEW index \in Int, AskApproval(mode, index),
           mode = "step_planner" => index >= 0,
           mode = "full_plan" =>
             /\ at \in 1 .. Len(plan) /\ index = plan[at].index
             /\ Behind(at) /\ plan[at].index > after
    PROVE  OrderInv'
<1>1. /\ loc' = "approval" /\ after' = after
      /\ UNCHANGED <<plan, ctx, hist>>
      /\ pending' = [mode |-> mode, index |-> index, through |-> ctx.through, pos |-> at]
  BY DEF AskApproval, Finish
<1>2. NoItemRepeated' /\ RanOK' /\ PlaceOK'
  BY <1>1 DEF OrderInv, NoItemRepeated, RanOK, PlaceOK
<1>3. mode = "full_plan" =>
        /\ at \notin hist.ran
        /\ index > -1
        /\ \A p \in hist.ran : plan[p].index <= index
  <2> SUFFICES ASSUME mode = "full_plan"
               PROVE  /\ at \notin hist.ran /\ index > -1
                      /\ \A p \in hist.ran : plan[p].index <= index
    OBVIOUS
  <2>1. at \notin hist.ran /\ \A p \in hist.ran : plan[p].index <= plan[at].index
    BY BehindIsBelow DEF OrderInv
  <2>2. after \in Int /\ after >= -1
    BY DEF OrderInv, RanOK, TypeInv, ControlOK
  <2> QED
    BY <2>1, <2>2
<1>4. StoredOK'
  BY <1>1, <1>3 DEF StoredOK
<1> QED
  BY <1>2, <1>4 DEF OrderInv

LEMMA FullPlanOrder == Ordered /\ TypeInv /\ OrderInv /\ FullPlan => OrderInv'
<1> SUFFICES ASSUME Ordered, TypeInv, OrderInv, FullPlan PROVE OrderInv'
  OBVIOUS
<1>0. /\ ControlOK /\ KeptOK /\ at \in 1 .. Len(plan) + 1 /\ Len(plan) \in Nat
      /\ ctx \in CtxType /\ hist \in HistType /\ after \in Int
      /\ \A p \in 1 .. Len(plan) : plan[p].index \in Int
  BY PlanType DEF TypeInv, HandOK, ControlOK
<1>1. CASE PlannerSilent \/ NoPlan \/ PlanDone \/ AskUser
  <2>1. /\ NoApproval /\ UNCHANGED <<ctx, hist, after>> /\ loc' \in {"planner", "over"}
    BY <1>1 DEF PlannerSilent, NoPlan, PlanDone, AskUser, Leave, ToPlanner, Finish
  <2> QED
    BY <2>1, QuietRan, ElsewhereOrder
<1>2. ASSUME NEW p \in Plans, WritePlan(p) PROVE OrderInv'
  <2>1. /\ loc = "plan" /\ loc' = "items" /\ after' = -1
        /\ UNCHANGED <<ctx, hist>>
    BY <1>2 DEF WritePlan
  <2>2. hist'.ran = {}
    BY <2>1 DEF OrderInv, RanOK
  <2>3. NoItemRepeated' /\ RanOK'
    BY <2>1, <2>2 DEF OrderInv, NoItemRepeated, RanOK
  <2>4. PlaceOK' /\ StoredOK'
    BY <2>1, <2>2 DEF PlaceOK, StoredOK, Behind
  <2> QED
    BY <2>3, <2>4 DEF OrderInv
<1>3. CASE SkipItem
  <2>1. /\ loc = "items" /\ loc' = "items" /\ at' = at + 1 /\ after' = after
        /\ NoApproval /\ UNCHANGED <<ctx, hist>> /\ plan[at].index <= after
    BY <1>3 DEF SkipItem, GoOn
  <2>2. Behind(at)
    BY <2>1 DEF OrderInv, PlaceOK
  <2>3. \A p \in hist.ran : p \in Nat
    BY <1>0 DEF HistType
  <2>4. \A p \in hist.ran : p < at + 1 \/ plan[p].index <= after
    BY <1>0, <2>1, <2>2, <2>3 DEF Behind
  <2>5. Behind(at')
    BY <2>1, <2>4 DEF Behind
  <2> QED
    BY <2>1, <2>5, QuietRan, ItemsOrder
<1>4. CASE ItemNeedsApproval
  <2>1. /\ at \in 1 .. Len(plan) /\ plan[at].index > after /\ loc = "items"
    BY <1>0, <1>4 DEF ItemNeedsApproval, AtItem
  <2>2. Behind(at)
    BY <2>1 DEF OrderInv, PlaceOK
  <2>3. plan[at].index \in Int
    BY <1>0, <2>1
  <2> QED
    BY <1>4, <2>1, <2>2, <2>3, AskApprovalOrder DEF ItemNeedsApproval
<1>5. CASE ItemFails
  <2>1. /\ loc = "items" /\ plan[at].index > after
        /\ loc' = "repair" /\ UNCHANGED <<at, after>> /\ repair'.caller = "failed_item"
        /\ NoApproval /\ UNCHANGED hist /\ ctx'.through = ctx.through
    BY <1>0, <1>5 DEF ItemFails, AtItem, ToRepair, NewRepair, CtxType
  <2>2. CallerOK("failed_item")
    BY <2>1 DEF OrderInv, PlaceOK, CallerOK
  <2> QED
    BY <2>1, <2>2, QuietRan, InsideOrder DEF Callers
<1>6. CASE ItemRuns
  <2> DEFINE b == [ctx EXCEPT !.through = plan[at].index]
             c == Observed(b, 1)
  <2>1. at \in 1 .. Len(plan) /\ plan[at].index > after /\ loc = "items"
    BY <1>0, <1>6 DEF ItemRuns, AtItem
  <2>2. Behind(at)
    BY <2>1 DEF OrderInv, PlaceOK
  <2>3. at \notin hist.ran /\ \A p \in hist.ran : plan[p].index <= plan[at].index
    BY <2>1, <2>2, BehindIsBelow DEF OrderInv
  <2>4. hist'.ran = hist.ran \cup {at} /\ ~hist'.repeated
    <3>1. hist' = RanItem(at) /\ at \in Nat
      BY <1>0, <1>6 DEF ItemRuns
    <3>2. hist'.ran = hist.ran \cup {at} /\ hist'.repeated = (hist.repeated \/ at \in hist.ran)
      BY <1>0, <3>1, RanItemType
    <3> QED
      BY <2>3, <3>2 DEF OrderInv, NoItemRepeated
  <2>5. b \in CtxType /\ b.through = plan[at].index
    BY <1>0, <2>1 DEF CtxType
  <2>6. c \in CtxType /\ c.through = plan[at].index
    BY <2>5, ObservedType
  <2>7. ctx' = c \/ \E n \in PerceptionLines : ctx' = Observed(c, n)
    BY <1>6 DEF ItemRuns
  <2> HIDE DEF b, c
  <2>8. ctx'.through = plan[at].index
    BY <2>6, <2>7, ObservedType DEF PerceptionLines
  <2>9. /\ plan' = plan /\ after' = after
        /\ \/ loc' = "verify" /\ back' = "item" /\ at' = at
           \/ loc' = "items" /\ at' = at + 1
    BY <1>6 DEF ItemRuns, NoApproval, ToVerify, GoOn
  <2>10. /\ hist'.ran \subseteq 1 .. Len(plan)
         /\ \A p \in hist'.ran : plan[p].index <= ctx'.through
         /\ after >= -1 /\ ctx'.through >= -1
    BY <1>0, <2>1, <2>3, <2>4, <2>8 DEF OrderInv, RanOK
  <2>11. RanOK' /\ NoItemRepeated'
    BY <2>4, <2>9, <2>10 DEF RanOK, NoItemRepeated
  <2>12. \A p \in hist'.ran : p < at + 1 \/ plan'[p].index <= after'
    BY <1>0, <2>1, <2>2, <2>4, <2>9 DEF Behind, HistType
  <2>13. PlaceOK'
    BY <2>9, <2>12 DEF PlaceOK, CallerOK, Behind, Callers
  <2>14. StoredOK'
    BY <2>9 DEF StoredOK
  <2> QED
    BY <2>11, <2>13, <2>14 DEF OrderInv
<1> QED
  BY <1>1, <1>2, <1>3, <1>4, <1>5, <1>6 DEF FullPlan

LEMMA VerifyAndRepairOrder == Ordered /\ TypeInv /\ OrderInv /\ VerifyAndRepair => OrderInv'
<1> SUFFICES ASSUME Ordered, TypeInv, OrderInv, VerifyAndRepair PROVE OrderInv'
  OBVIOUS
<1>0. /\ ControlOK /\ ctx \in CtxType /\ hist \in HistType /\ repair \in RepairType
      /\ repair.caller \in Callers
  BY DEF TypeInv, ControlOK, RepairType
<1>1. CASE VerifyBlocked
  <2>1. PICK n \in PerceptionLines : Verified(FALSE, Observed(ctx, n + 2), hist)
    BY <1>1 DEF VerifyBlocked
  <2>2. /\ Observed(ctx, n + 2) \in CtxType
        /\ Observed(ctx, n + 2).through = ctx.through
    BY <1>0, ObservedType DEF PerceptionLines
  <2> QED
    BY <1>1, <2>1, <2>2, VerifiedOrder DEF VerifyBlocked
<1>2. ASSUME NEW v \in Verdicts, VerifyJudged(v) PROVE OrderInv'
  <2> DEFINE c == [ctx EXCEPT !.verdict = v]
             h == IF v = "achieved" /\ back # "step"
                  THEN [hist EXCEPT !.confirmed = @ \cup {at}] ELSE hist
  <2>1. PICK n \in PerceptionLines : Verified(v = "achieved", Observed(c, n + 1), h)
    BY <1>2 DEF VerifyJudged
  <2>2. c \in CtxType /\ c.through = ctx.through
    BY <1>0 DEF CtxType
  <2>3. h.ran = hist.ran /\ h.repeated = hist.repeated
    BY <1>0 DEF HistType
  <2> HIDE DEF c, h
  <2>4. Observed(c, n + 1) \in CtxType /\ Observed(c, n + 1).through = ctx.through
    BY <2>2, ObservedType DEF PerceptionLines
  <2>5. loc = "verify" /\ NoApproval /\ (v = "achieved") \in BOOLEAN
    BY <1>2 DEF VerifyJudged
  <2> QED
    BY <2>1, <2>3, <2>4, <2>5, VerifiedOrder
<1>3. CASE loc \in {"repair", "ask", "steps"}
  <2>0. Inside /\ CallerOK(repair.caller)
    BY <1>3 DEF Inside, OrderInv, PlaceOK
  <2>1. CASE RepairNothing
    BY <1>0, <2>0, <2>1, RepairReturnsOrder DEF RepairNothing
  <2>2. CASE RepairGivesUp \/ RepairAsksUser
    BY <1>0, <2>0, <2>2, TriedType, RepairReturnsOrder DEF RepairGivesUp, RepairAsksUser
  <2>3. ASSUME NoApproval, hist' = hist, ctx'.through = ctx.through, UNCHANGED <<at, after>>,
               repair'.caller = repair.caller,
               \/ loc' \in {"repair", "ask", "steps"}
               \/ loc' = "verify" /\ back' \notin Callers
        PROVE  OrderInv'
    BY <1>0, <2>0, <2>3, QuietRan, InsideOrder
  <2>4. ASSUME NEW n, UseTemplate(n) PROVE OrderInv'
    BY <1>0, <2>3, <2>4 DEF UseTemplate, ToSteps, RepairType
  <2>5. CASE NoTemplate
    BY <1>0, <2>3, <2>5 DEF NoTemplate, RepairType
  <2>6. CASE RepairUnusable
    BY <1>0, <2>0, <2>3, <2>6, TriedType, ObservedType DEF RepairUnusable, GoTo
  <2>7. ASSUME NEW n, RepairPlanned(n) PROVE OrderInv'
    BY <1>0, <2>0, <2>3, <2>7, TriedType DEF RepairPlanned, ToSteps, RepairType
  <2>8. CASE StepNeedsApproval
    <3>1. (IF repair.round = "template" THEN -1 ELSE repair.step) \in Int
      BY <1>0 DEF RepairType
    <3> QED
      BY <2>8, <3>1, AskApprovalOrder DEF StepNeedsApproval
  <2>9. CASE StepFails
    BY <1>0, <2>3, <2>9 DEF StepFails, ToVerify, RepairType, CtxType, Callers
  <2>10. CASE StepRuns
    BY <1>0, <2>3, <2>10, ObservedType DEF StepRuns, RepairType, Callers
  <2>11. CASE StepsDone
    BY <1>0, <2>3, <2>11 DEF StepsDone, ToVerify, RepairType, Callers
  <2>12. ~VerifyBlocked /\ ~ \E v \in Verdicts : VerifyJudged(v)
    BY <1>3 DEF VerifyBlocked, VerifyJudged
  <2> QED
    BY <2>1, <2>2, <2>4, <2>5, <2>6, <2>7, <2>8, <2>9, <2>10, <2>11, <2>12
       DEF VerifyAndRepair
<1>4. VerifyBlocked \/ (\E v \in Verdicts : VerifyJudged(v)) \/ loc \in {"repair", "ask", "steps"}
  BY DEF VerifyAndRepair, RepairNothing, UseTemplate, NoTemplate, RepairGivesUp,
         RepairUnusable, RepairAsksUser, RepairPlanned, StepNeedsApproval, StepFails,
         StepRuns, StepsDone, AtStep
<1> QED
  BY <1>1, <1>2, <1>3, <1>4

LEMMA StepPlannerOrder == Ordered /\ TypeInv /\ OrderInv /\ StepPlanner => OrderInv'
<1> SUFFICES ASSUME Ordered, TypeInv, OrderInv, StepPlanner PROVE OrderInv'
  OBVIOUS
<1>1. CASE PlannerNeedsApproval
  <2>1. planner.step \in Int /\ planner.step >= 0
    BY DEF TypeInv, ControlOK, PlannerType
  <2> QED
    BY <1>1, <2>1, AskApprovalOrder DEF PlannerNeedsApproval
<1>2. CASE ~PlannerNeedsApproval
  <2>1. /\ NoApproval /\ UNCHANGED <<ctx, hist, after>> /\ loc' \in {"planner", "over"}
    BY <1>2 DEF StepPlanner, StepSilent, StepUnread, CompleteRefused, StepActs, StepEnds,
                StepsUsedUp, Leave, Finish, NextStep
  <2> QED
    BY <2>1, QuietRan, ElsewhereOrder
<1> QED
  BY <1>1, <1>2

LEMMA ResumeOrder == Ordered /\ TypeInv /\ OrderInv /\ Resume => OrderInv'
<1> SUFFICES ASSUME Ordered, TypeInv, OrderInv, Resume PROVE OrderInv'
  OBVIOUS
<1>0. /\ KeptOK /\ Len(plan) \in Nat /\ ctx \in CtxType /\ pending \in PendingType
      /\ hist \in HistType
      /\ \A p \in 1 .. Len(plan) : plan[p].index \in Int
  BY PlanType DEF TypeInv, KeptOK
<1>1. ASSUME Leave \/ Finish("failure"), UNCHANGED <<plan, ctx, pending, approvals, hist>>
      PROVE  OrderInv'
  <2>1. after' = after /\ loc' = "over"
    BY <1>1 DEF Leave, Finish
  <2>2. RanKept
    BY <1>0, <1>1, <2>1 DEF RanKept, CtxType
  <2> QED
    BY <2>1, <2>2, ElsewhereOrder
<1>2. CASE ApprovedRuns
  <2>1. /\ loc = "approval" /\ plan' = plan /\ repair' = repair
        /\ after' = ResumeAfter(pending)
    BY <1>2 DEF ApprovedRuns
  <2>2. /\ pending.through = ctx.through /\ ctx.through >= -1
        /\ hist.ran \subseteq 1 .. Len(plan)
        /\ \A p \in hist.ran : plan[p].index <= ctx.through
        /\ pending.through \in Int /\ pending.index \in Int
    BY <1>0, <2>1 DEF OrderInv, StoredOK, RanOK, PendingType
  <2>3. ctx'.through = ResumedCtx.through
    <3>1. ResumedCtx \in CtxType
      BY <1>0, ResumedCtxType
    <3>2. ctx' = ResumedCtx \/ \E n \in PerceptionLines : ctx' = Observed(ResumedCtx, n)
      BY <1>2 DEF ApprovedRuns
    <3> QED
      BY <3>1, <3>2, ObservedType DEF PerceptionLines
  <2>4. /\ ctx'.through >= pending.through /\ ctx'.through \in Int
        /\ pending.index >= 0 => ctx'.through >= pending.index
    BY <1>0, <2>2, <2>3, ResumedCtxType
  <2>5. CASE pending.mode = "full_plan"
    <3>1. /\ pending.pos \in 1 .. Len(plan) /\ pending.pos \notin hist.ran
          /\ pending.index = plan[pending.pos].index /\ pending.index > -1
          /\ \A p \in hist.ran : plan[p].index <= pending.index
      BY <2>1, <2>5 DEF OrderInv, StoredOK
    <3>2. hist'.ran = hist.ran \cup {pending.pos} /\ ~hist'.repeated
      <4>1. hist' = RanItem(pending.pos) /\ pending.pos \in Nat
        BY <1>0, <1>2, <2>5 DEF ApprovedRuns, PendingType
      <4>2. /\ hist'.ran = hist.ran \cup {pending.pos}
            /\ hist'.repeated = (hist.repeated \/ pending.pos \in hist.ran)
        BY <1>0, <4>1, RanItemType
      <4> QED
        BY <3>1, <4>2 DEF OrderInv, NoItemRepeated
    <3>3. after' = pending.index
      BY <2>1, <2>5 DEF ResumeAfter
    <3>4. \A p \in hist'.ran : plan'[p].index <= after'
      BY <2>1, <3>1, <3>2, <3>3, <2>2
    <3>5. \/ loc' = "verify" /\ back' = "resumed_plan"
          \/ loc' = "items"
      BY <1>2, <2>5 DEF ApprovedRuns
    <3>6. RanOK'
      <4>1. hist'.ran \subseteq 1 .. Len(plan')
        BY <2>1, <2>2, <3>1, <3>2
      <4>2. after' >= -1 /\ ctx'.through >= -1
        BY <2>2, <2>4, <3>1, <3>3
      <4>3. \A p \in hist'.ran : plan'[p].index <= ctx'.through
        BY <1>0, <2>1, <2>2, <2>4, <3>1, <3>2, <3>3, <3>4
      <4> QED
        BY <3>5, <4>1, <4>2, <4>3 DEF RanOK
    <3>7. PlaceOK'
      BY <3>4, <3>5 DEF PlaceOK, CallerOK, Behind, Callers
    <3>8. StoredOK' /\ NoItemRepeated'
      BY <3>2, <3>5 DEF StoredOK, NoItemRepeated
    <3> QED
      BY <3>6, <3>7, <3>8 DEF OrderInv
  <2>6. CASE pending.mode # "full_plan"
    <3>1. hist' = hist
      BY <1>2, <2>6 DEF ApprovedRuns
    <3>2. \/ pending.mode = "repair" /\ loc' = "verify" /\ back' = "resumed_repair"
          \/ pending.mode = "step_planner" /\ loc' = "planner"
      BY <1>2, <2>6 DEF ApprovedRuns
    <3>3. RanKept
      BY <1>0, <2>1, <2>2, <2>4, <3>1, <3>2 DEF RanKept, CtxType
    <3>4. after' \in Int /\ after' >= -1
      BY <2>1, <2>2, <2>6, <3>2 DEF ResumeAfter, OrderInv, StoredOK
    <3>5. NoItemRepeated' /\ RanOK'
      BY <3>3, <3>4, RanKeptKeeps
    <3>6. pending.mode = "repair" => \A p \in hist'.ran : plan'[p].index <= after'
      BY <2>1, <2>2, <3>1 DEF ResumeAfter
    <3>7. PlaceOK' /\ StoredOK'
      BY <3>2, <3>6 DEF PlaceOK, StoredOK, CallerOK, Behind, Callers
    <3> QED
      BY <3>5, <3>7 DEF OrderInv
  <2> QED
    BY <2>5, <2>6
<1> QED
  BY <1>1, <1>2 DEF Resume, ApprovedBlocked, ApprovedFails

LEMMA StutterOrder == OrderInv /\ UNCHANGED vars => OrderInv'
BY DEF OrderInv, NoItemRepeated, RanOK, PlaceOK, StoredOK, CallerOK, Behind, vars, control

LEMMA OrderStep == Ordered /\ TypeInv /\ OrderInv /\ [Next]_vars => OrderInv'
BY FullPlanOrder, VerifyAndRepairOrder, StepPlannerOrder, ResumeOrder, StutterOrder
   DEF Next, Session

\* When the plans are numbered in list order, an item whose call succeeded is
\* never called again, through any number of repairs, approvals and resumed
\* sessions (computer_use_agent.py:407-463, 883-903).  Without the hypothesis an
\* item with a higher number than a later one runs again after an approval.
THEOREM ItemsRunOnce ==
    ASSUME Ordered
    PROVE  Spec => []NoItemRepeated
<1>1. TypeInv /\ OrderInv /\ [Next]_vars => OrderInv'
  BY OrderStep
<1>2. OrderInv => NoItemRepeated
  BY DEF OrderInv
<1> QED
  BY <1>1, <1>2, InitOrder, TypeInvariant, PTL DEF Spec

-----------------------------------------------------------------------------
(* No item runs twice when only the one-step planner asks                   *)

\* What ran has a position before q.
Before(q) == \A p \in hist.ran : p < q

InPlan == {"item", "failed_item"}

\* With no approval inside a plan the session that wrote the plan is the one
\* that runs it, so that the position counts and the numbers do not.
PositionInv ==
    /\ NoItemRepeated
    /\ loc = "plan" => hist.ran = {}
    /\ loc = "items" => Before(at)
    /\ Inside => Before(at + 1)
    /\ repair.caller \in InPlan /\ back \notin {"resumed_plan", "resumed_repair"}
    /\ loc = "approval" => pending.mode = "step_planner"

LEMMA InitPosition == Init => PositionInv
BY DEF Init, PositionInv, NoItemRepeated, Before, Inside, InPlan, NewRepair

\* The step runs no item and leads away from the plan, to the next item, or to
\* a verification or repair of the same one.
LoopMoves ==
    /\ hist'.ran = hist.ran /\ hist'.repeated = hist.repeated
    /\ repair'.caller \in InPlan /\ back' \notin {"resumed_plan", "resumed_repair"}
    /\ \/ loc' \in {"planner", "over"}
       \/ loc' = "items" /\ at' = at + 1
       \/ Inside' /\ at' = at

LEMMA LoopMovesKeep ==
    ASSUME PositionInv, Inside, LoopMoves
    PROVE  PositionInv'
<1>1. NoItemRepeated'
  BY DEF LoopMoves, PositionInv, NoItemRepeated
<1>2. /\ loc' = "items" => Before(at')
      /\ Inside' => Before(at' + 1)
  BY DEF LoopMoves, PositionInv, Inside
<1>3. /\ (loc = "items" => Before(at))'
      /\ (Inside => Before(at + 1))'
  BY <1>2 DEF LoopMoves, Before
<1> QED
  BY <1>1, <1>3 DEF LoopMoves, PositionInv, Inside

LEMMA ReturnsMove ==
    ASSUME PositionInv, Inside, NEW tag, NEW c, NEW h,
           h.ran = hist.ran, h.repeated = hist.repeated, RepairReturns(tag, c, h)
    PROVE  LoopMoves
<1>1. repair.caller \in InPlan /\ back \notin {"resumed_plan", "resumed_repair"}
  BY DEF PositionInv
<1>2. hist' = h /\ UNCHANGED <<repair, back>>
  BY DEF RepairReturns, GoOn, Finish, ToPlanner
<1>3. loc' \in {"planner", "over"} \/ (loc' = "items" /\ at' = at + 1) \/ tag = "approval"
  BY <1>1 DEF RepairReturns, GoOn, Finish, ToPlanner, InPlan
<1>4. tag = "approval" => loc' \in {"planner", "over"}
  BY DEF RepairReturns
<1> QED
  BY <1>1, <1>2, <1>3, <1>4 DEF LoopMoves

LEMMA VerifiedMoves ==
    ASSUME PositionInv, loc = "verify", NEW ok \in BOOLEAN, NEW c, NEW h,
           h.ran = hist.ran, h.repeated = hist.repeated, Verified(ok, c, h)
    PROVE  LoopMoves
<1>0. Inside
  BY DEF Inside
<1>1. repair.caller \in InPlan /\ back \notin {"resumed_plan", "resumed_repair"}
  BY DEF PositionInv
<1>2. CASE RepairReturns("checkpoint_ok", c, h)
  BY <1>0, <1>2, ReturnsMove
<1>3. CASE hist' = h /\ GoOn(at + 1, after)
  BY <1>1, <1>3 DEF LoopMoves, GoOn
<1>4. CASE hist' = h /\ back \in Callers /\ ToRepair(back)
  <2>1. repair'.caller = back /\ back \in InPlan
    BY <1>1, <1>4 DEF ToRepair, NewRepair, Callers, InPlan
  <2> QED
    BY <1>1, <1>4, <2>1 DEF LoopMoves, ToRepair, Inside
<1>5. CASE hist' = h /\ (GoTo("ask") \/ GoTo("repair") \/ GoTo("steps"))
  BY <1>1, <1>5 DEF LoopMoves, GoTo, Inside
<1> QED
  BY <1>1, <1>2, <1>3, <1>4, <1>5 DEF Verified

LEMMA VerifyAndRepairPosition ==
    ASSUME ~PlanMayAsk, TypeInv, PositionInv, VerifyAndRepair
    PROVE  PositionInv'
<1>0. /\ hist \in HistType /\ repair \in RepairType
      /\ repair.caller \in InPlan /\ back \notin {"resumed_plan", "resumed_repair"}
  BY DEF TypeInv, ControlOK, PositionInv
<1>1. CASE VerifyBlocked
  <2>1. PICK n \in PerceptionLines : Verified(FALSE, Observed(ctx, n + 2), hist)
    BY <1>1 DEF VerifyBlocked
  <2>2. loc = "verify"
    BY <1>1 DEF VerifyBlocked
  <2>3. LoopMoves
    BY <2>1, <2>2, VerifiedMoves
  <2> QED
    BY <2>2, <2>3, LoopMovesKeep DEF Inside
<1>2. ASSUME NEW v \in Verdicts, VerifyJudged(v) PROVE PositionInv'
  <2> DEFINE h == IF v = "achieved" /\ back # "step"
                  THEN [hist EXCEPT !.confirmed = @ \cup {at}] ELSE hist
  <2>1. PICK n \in PerceptionLines :
            Verified(v = "achieved", Observed([ctx EXCEPT !.verdict = v], n + 1), h)
    BY <1>2 DEF VerifyJudged
  <2>2. h.ran = hist.ran /\ h.repeated = hist.repeated
    BY <1>0 DEF HistType
  <2>3. loc = "verify" /\ (v = "achieved") \in BOOLEAN
    BY <1>2 DEF VerifyJudged
  <2> HIDE DEF h
  <2>4. LoopMoves
    BY <2>1, <2>2, <2>3, VerifiedMoves
  <2> QED
    BY <2>3, <2>4, LoopMovesKeep DEF Inside
<1>3. CASE RepairNothing \/ RepairGivesUp \/ RepairAsksUser
  <2>1. Inside
    BY <1>3 DEF RepairNothing, RepairGivesUp, RepairAsksUser, Inside
  <2>2. PICK tag, c : RepairReturns(tag, c, hist)
    BY <1>3 DEF RepairNothing, RepairGivesUp, RepairAsksUser
  <2> QED
    BY <2>1, <2>2, ReturnsMove, LoopMovesKeep
<1>4. ASSUME hist' = hist, at' = at, Inside, Inside', repair'.caller = repair.caller,
             back' \in {back, "template", "round", "step"}
      PROVE  PositionInv'
  <2>1. LoopMoves
    BY <1>0, <1>4 DEF LoopMoves
  <2> QED
    BY <1>4, <2>1, LoopMovesKeep
<1>5. ASSUME NEW n, UseTemplate(n) PROVE PositionInv'
  BY <1>0, <1>4, <1>5 DEF UseTemplate, ToSteps, RepairType, Inside
<1>6. CASE NoTemplate
  BY <1>0, <1>4, <1>6 DEF NoTemplate, RepairType, Inside
<1>7. CASE RepairUnusable
  BY <1>4, <1>7 DEF RepairUnusable, GoTo, Inside
<1>8. ASSUME NEW n, RepairPlanned(n) PROVE PositionInv'
  BY <1>0, <1>4, <1>8 DEF RepairPlanned, ToSteps, RepairType, Inside
<1>9. CASE StepFails \/ StepsDone
  <2>1. repair.round \in {"template", "round"}
    BY <1>0 DEF RepairType
  <2> QED
    BY <1>4, <1>9, <2>1 DEF StepFails, StepsDone, AtStep, ToVerify, Inside
<1>10. CASE StepRuns
  BY <1>0, <1>4, <1>10 DEF StepRuns, AtStep, RepairType, Inside
<1> QED
  BY <1>1, <1>2, <1>3, <1>5, <1>6, <1>7, <1>8, <1>9, <1>10
     DEF VerifyAndRepair, StepNeedsApproval

LEMMA FullPlanPosition ==
    ASSUME ~PlanMayAsk, TypeInv, PositionInv, FullPlan
    PROVE  PositionInv'
<1>0. /\ hist \in HistType /\ at \in Nat /\ \A p \in hist.ran : p \in Nat
      /\ repair.caller \in InPlan /\ back \notin {"resumed_plan", "resumed_repair"}
  BY PlanType DEF TypeInv, HandOK, ControlOK, PositionInv, HistType
<1>1. CASE PlannerSilent \/ NoPlan \/ PlanDone \/ AskUser
  <2>1. loc' \in {"planner", "over"} /\ UNCHANGED <<hist, repair, back>>
    BY <1>1 DEF PlannerSilent, NoPlan, PlanDone, AskUser, Leave, ToPlanner, Finish
  <2> QED
    BY <1>0, <2>1 DEF PositionInv, NoItemRepeated, Inside
<1>2. ASSUME NEW p \in Plans, WritePlan(p) PROVE PositionInv'
  <2>1. loc = "plan" /\ loc' = "items" /\ UNCHANGED <<hist, repair, back>>
    BY <1>2 DEF WritePlan
  <2>2. hist'.ran = {}
    BY <2>1 DEF PositionInv
  <2> QED
    BY <1>0, <2>1, <2>2 DEF PositionInv, NoItemRepeated, Inside, Before
<1>3. CASE SkipItem
  <2>1. /\ loc = "items" /\ loc' = "items" /\ at' = at + 1
        /\ UNCHANGED <<hist, repair, back>>
    BY <1>3 DEF SkipItem, GoOn
  <2>2. \A p \in hist.ran : p < at + 1
    BY <1>0, <2>1 DEF PositionInv, Before
  <2>3. (Before(at))'
    BY <2>1, <2>2 DEF Before
  <2> QED
    BY <1>0, <2>1, <2>3 DEF PositionInv, NoItemRepeated, Inside
<1>4. CASE ItemFails
  <2>1. /\ loc = "items" /\ loc' = "repair" /\ UNCHANGED <<hist, at, back>>
        /\ repair'.caller = "failed_item"
    BY <1>4 DEF ItemFails, AtItem, ToRepair, NewRepair
  <2>2. \A p \in hist.ran : p < at + 1
    BY <1>0, <2>1 DEF PositionInv, Before
  <2>3. (Before(at + 1))'
    BY <2>1, <2>2 DEF Before
  <2> QED
    BY <1>0, <2>1, <2>3 DEF PositionInv, NoItemRepeated, InPlan
<1>5. CASE ItemRuns
  <2>1. loc = "items" /\ hist' = RanItem(at)
    BY <1>5 DEF ItemRuns, AtItem
  <2>2. \A p \in hist.ran : p < at
    BY <2>1 DEF PositionInv, Before
  <2>3. at \notin hist.ran
    BY <1>0, <2>2
  <2>4. hist'.ran = hist.ran \cup {at} /\ ~hist'.repeated
    BY <1>0, <2>1, <2>3, RanItemType DEF PositionInv, NoItemRepeated
  <2>5. \A p \in hist'.ran : p < at + 1
    BY <1>0, <2>2, <2>4
  <2>6. /\ repair' = repair /\ back' \in {back, "item"}
        /\ \/ loc' = "items" /\ at' = at + 1
           \/ loc' = "verify" /\ at' = at
    BY <1>5 DEF ItemRuns, GoOn, ToVerify
  <2>7. /\ (loc = "items" => Before(at))'
        /\ (Inside => Before(at + 1))'
    BY <2>5, <2>6 DEF Before, Inside
  <2> QED
    BY <1>0, <2>4, <2>6, <2>7 DEF PositionInv, NoItemRepeated
<1> QED
  BY <1>1, <1>2, <1>3, <1>4, <1>5 DEF FullPlan, ItemNeedsApproval

LEMMA StepPlannerPosition ==
    ASSUME TypeInv, PositionInv, StepPlanner \/ Resume
    PROVE  PositionInv'
<1>1. CASE StepPlanner
  <2>1. /\ UNCHANGED <<hist, repair, back>>
        /\ \/ loc' \in {"planner", "over"}
           \/ loc' = "approval" /\ pending'.mode = "step_planner"
    <3>1. CASE PlannerNeedsApproval
      BY <3>1 DEF PlannerNeedsApproval, AskApproval, Finish
    <3>2. CASE ~PlannerNeedsApproval
      BY <1>1, <3>2 DEF StepPlanner, StepSilent, StepUnread, CompleteRefused, StepActs,
                        StepEnds, StepsUsedUp, Leave, Finish, NextStep
    <3> QED
      BY <3>1, <3>2
  <2> QED
    BY <2>1 DEF PositionInv, NoItemRepeated, Inside
<1>2. CASE Resume
  <2>1. loc = "approval" /\ pending.mode = "step_planner"
    BY <1>2 DEF Resume, ApprovedBlocked, ApprovedFails, ApprovedRuns, PositionInv
  <2>2. loc' \in {"planner", "over"} /\ UNCHANGED <<hist, repair, back>>
    BY <1>2, <2>1 DEF Resume, ApprovedBlocked, ApprovedFails, ApprovedRuns, Leave, Finish
  <2> QED
    BY <2>2 DEF PositionInv, NoItemRepeated, Inside
<1> QED
  BY <1>1, <1>2

LEMMA StutterPosition == PositionInv /\ UNCHANGED vars => PositionInv'
BY DEF PositionInv, NoItemRepeated, Before, Inside, vars, control

\* As long as no tool that plans may contain is critical, which is so of the
\* shipped tools, an item whose call succeeded is never called again however
\* the plan numbers its items (action_plan.py:253-257): only the one-step
\* planner asks, and what it resumes is itself (computer_use_agent.py:407-463).
THEOREM UnaskedItemsRunOnce ==
    ASSUME ~PlanMayAsk
    PROVE  Spec => []NoItemRepeated
<1>1. TypeInv /\ PositionInv /\ [Next]_vars => PositionInv'
  BY FullPlanPosition, VerifyAndRepairPosition, StepPlannerPosition, StutterPosition
     DEF Next, Session
<1>2. PositionInv => NoItemRepeated
  BY DEF PositionInv
<1> QED
  BY <1>1, <1>2, InitPosition, TypeInvariant, PTL DEF Spec
=============================================================================
