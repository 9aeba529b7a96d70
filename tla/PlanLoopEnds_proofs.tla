------------------------ MODULE PlanLoopEnds_proofs ------------------------
(***************************************************************************)
(* Why a session ends: for every set of plans and all bounds, each step of  *)
(* a working session lowers its Rank, or ends it or stops it for an         *)
(* approval.  The five numbers of Rank are naturals, compared from the      *)
(* left, and no sequence of such steps goes on for ever.                    *)
(***************************************************************************)
EXTENDS PlanLoop_proofs

RankNumbers == Part \in Nat /\ Left \in Nat /\ RepairsLeft \in Nat /\ Place \in Nat
               /\ StepsLeft \in Nat

LEMMA RankIsNatural == TypeInv => RankNumbers
<1> SUFFICES ASSUME TypeInv PROVE RankNumbers
  OBVIOUS
<1>1. /\ at \in 1 .. Len(plan) + 1 /\ Len(plan) \in Nat
      /\ repair.step \in Nat /\ repair.count \in Nat /\ repair.step <= repair.count
      /\ planner.step \in 0 .. MaxSteps /\ MaxSteps \in Nat
      /\ ctx.attempt \in 0 .. RepairBudget + 1
  BY PlanType, PlanLoopAssumption
     DEF PlanLoopAssumption, TypeInv, HandOK, ControlOK, RepairType, PlannerType, CtxType
<1>2. Part \in Nat
  BY DEF Part
<1>3. Left \in Nat
  BY <1>1 DEF Left
<1>4. RepairsLeft \in Nat
  BY <1>1 DEF RepairsLeft, RepairBudget
<1>5. Place \in Nat
  BY DEF Place
<1>6. StepsLeft \in Nat
  BY <1>1 DEF StepsLeft
<1> QED
  BY <1>2, <1>3, <1>4, <1>5, <1>6 DEF RankNumbers

\* The step lowers one of the numbers and keeps those before it.
Descends ==
    \/ Part' < Part
    \/ Part' = Part /\ Left' < Left
    \/ Part' = Part /\ Left' = Left /\ RepairsLeft' < RepairsLeft
    \/ Part' = Part /\ Left' = Left /\ RepairsLeft' = RepairsLeft /\ Place' < Place
    \/ /\ Part' = Part /\ Left' = Left /\ RepairsLeft' = RepairsLeft /\ Place' = Place
       /\ StepsLeft' < StepsLeft

LEMMA DescentIsBelow ==
    ASSUME RankNumbers, RankNumbers', Descends
    PROVE  Below(Rank', Rank)
<1>1. /\ DOMAIN Rank = 1 .. 5
      /\ Rank[1] = Part /\ Rank[2] = Left /\ Rank[3] = RepairsLeft /\ Rank[4] = Place
      /\ Rank[5] = StepsLeft
  BY DEF Rank
<1>2. /\ (Rank')[1] = Part' /\ (Rank')[2] = Left' /\ (Rank')[3] = RepairsLeft'
      /\ (Rank')[4] = Place' /\ (Rank')[5] = StepsLeft'
  BY DEF Rank
<1> SUFFICES \E i \in 1 .. 5 : /\ (Rank')[i] \in 0 .. Rank[i] - 1
                               /\ \A j \in 1 .. i - 1 : (Rank')[j] = Rank[j]
  BY <1>1 DEF Below
<1>3. CASE Part' < Part
  <2>1. (Rank')[1] \in 0 .. Rank[1] - 1
    BY <1>1, <1>2, <1>3 DEF RankNumbers
  <2> QED
    BY <2>1
<1>4. CASE Part' = Part /\ Left' < Left
  <2>1. (Rank')[2] \in 0 .. Rank[2] - 1 /\ (Rank')[1] = Rank[1]
    BY <1>1, <1>2, <1>4 DEF RankNumbers
  <2> QED
    BY <2>1
<1>5. CASE Part' = Part /\ Left' = Left /\ RepairsLeft' < RepairsLeft
  <2>1. /\ (Rank')[3] \in 0 .. Rank[3] - 1 /\ (Rank')[1] = Rank[1]
        /\ (Rank')[2] = Rank[2]
    BY <1>1, <1>2, <1>5 DEF RankNumbers
  <2>2. \A j \in 1 .. 3 - 1 : j = 1 \/ j = 2
    OBVIOUS
  <2> QED
    BY <2>1, <2>2
<1>6. CASE Part' = Part /\ Left' = Left /\ RepairsLeft' = RepairsLeft /\ Place' < Place
  <2>1. /\ (Rank')[4] \in 0 .. Rank[4] - 1 /\ (Rank')[1] = Rank[1]
        /\ (Rank')[2] = Rank[2] /\ (Rank')[3] = Rank[3]
    BY <1>1, <1>2, <1>6 DEF RankNumbers
  <2>2. \A j \in 1 .. 4 - 1 : j = 1 \/ j = 2 \/ j = 3
    OBVIOUS
  <2> QED
    BY <2>1, <2>2
<1>7. CASE /\ Part' = Part /\ Left' = Left /\ RepairsLeft' = RepairsLeft /\ Place' = Place
           /\ StepsLeft' < StepsLeft
  <2>1. /\ (Rank')[5] \in 0 .. Rank[5] - 1 /\ (Rank')[1] = Rank[1]
        /\ (Rank')[2] = Rank[2] /\ (Rank')[3] = Rank[3] /\ (Rank')[4] = Rank[4]
    BY <1>1, <1>2, <1>7 DEF RankNumbers
  <2>2. \A j \in 1 .. 5 - 1 : j = 1 \/ j = 2 \/ j = 3 \/ j = 4
    OBVIOUS
  <2> QED
    BY <2>1, <2>2
<1> QED
  BY <1>3, <1>4, <1>5, <1>6, <1>7 DEF Descends

-----------------------------------------------------------------------------
(* Where a step leads, and what is lower there *)

Again == {"resumed_plan", "resumed_repair"}

\* The part of the session a repair belongs to is that of its caller.
LEMMA PartOfRepair ==
    ASSUME \/ loc \in {"repair", "ask", "steps"}
           \/ loc = "verify" /\ back \in {"template", "round", "step"}
    PROVE  Part = IF repair.caller \in Again THEN 2 ELSE 1
BY DEF Part, Resuming, Again

\* To the next item of the plan, or to its first after an approval.
LEMMA GoOnDescends ==
    ASSUME TypeInv, plan' = plan, NEW p, GoOn(p, after),
           \/ Part = 2
           \/ Part = 1 /\ p = at + 1 /\ loc # "planner"
    PROVE  Descends
<1>1. at \in Int /\ Len(plan) \in Int
  BY PlanType DEF TypeInv, HandOK
<1>2. loc' = "items" /\ at' = p
  BY DEF GoOn
<1>3. Part' = 1 /\ Left' = Len(plan) + 1 - p
  BY <1>2 DEF Part, Resuming, Left
<1>4. CASE Part = 2
  BY <1>3, <1>4 DEF Descends
<1>5. CASE Part = 1 /\ p = at + 1 /\ loc # "planner"
  <2>1. Left = Len(plan) + 1 - at
    BY <1>5 DEF Left
  <2> QED
    BY <1>1, <1>3, <1>5, <2>1 DEF Descends
<1> QED
  BY <1>4, <1>5

LEMMA RepairReturnsDescends ==
    ASSUME TypeInv, NoApproval, Working',
           \/ loc \in {"repair", "ask", "steps"}
           \/ loc = "verify" /\ back \in {"template", "round", "step"},
           NEW tag, NEW c, NEW h, RepairReturns(tag, c, h)
    PROVE  Descends
<1>1. Part = IF repair.caller \in Again THEN 2 ELSE 1
  BY PartOfRepair
<1>2. plan' = plan /\ loc # "planner"
  BY DEF NoApproval
<1>3. ~Finish(tag)
  BY DEF Finish, Working
<1>4. CASE GoOn(at + 1, after) /\ repair.caller \in {"item", "failed_item"}
  BY <1>1, <1>2, <1>4, GoOnDescends DEF Again
<1>5. CASE GoOn(1, after) /\ repair.caller = "resumed_plan"
  BY <1>1, <1>2, <1>5, GoOnDescends DEF Again
<1>6. CASE ToPlanner /\ repair.caller \in {"item", "failed_item"}
  <2>1. Part = 1 /\ Part' = 0
    BY <1>1, <1>6 DEF Again, ToPlanner, Part
  <2> QED
    BY <2>1 DEF Descends
<1> QED
  BY <1>3, <1>4, <1>5, <1>6 DEF RepairReturns

\* A step that stays with the item in hand and nearer to its end.
LEMMA PlaceDescends ==
    ASSUME TypeInv, NoApproval, Part' = Part, at' = at, loc # "planner", loc' # "planner",
           ctx'.attempt = ctx.attempt,
           \/ Place' < Place
           \/ Place' = Place /\ StepsLeft' < StepsLeft
    PROVE  Descends
<1>1. Left' = Left
  BY DEF Left, NoApproval
<1>2. RepairsLeft' = RepairsLeft
  BY DEF RepairsLeft
<1> QED
  BY <1>1, <1>2 DEF Descends

LEMMA VerifiedDescends ==
    ASSUME TypeInv, NoApproval, Working', loc = "verify",
           NEW ok \in BOOLEAN, NEW c, c.attempt = ctx.attempt, NEW h, Verified(ok, c, h)
    PROVE  Descends
<1>0. plan' = plan /\ back \in Returns /\ repair \in RepairType
  BY DEF NoApproval, TypeInv, ControlOK
<1>1. CASE ok /\ back \in {"template", "round"}
  BY <1>1, RepairReturnsDescends DEF Verified
<1>2. CASE ~ (ok /\ back \in {"template", "round"})
  <2>1. ctx'.attempt = ctx.attempt
    BY <1>2 DEF Verified
  <2>2. CASE ok /\ back = "item" /\ GoOn(at + 1, after)
    <3>1. Part = 1
      BY <2>2 DEF Part, Resuming
    <3> QED
      BY <1>0, <2>2, <3>1, GoOnDescends
  <2>3. CASE ok /\ back \in Again /\ GoOn(1, after)
    <3>1. Part = 2
      BY <2>3 DEF Part, Resuming, Again
    <3> QED
      BY <1>0, <2>3, <3>1, GoOnDescends
  <2>4. CASE back \in Callers /\ ToRepair(back)
    <3>1. /\ loc' = "repair" /\ repair'.caller = back /\ at' = at
      BY <2>4 DEF ToRepair, NewRepair
    <3>2. Part = IF back \in Again THEN 2 ELSE 1
      BY <2>4 DEF Part, Resuming, Again, Callers
    <3>3. Part' = IF back \in Again THEN 2 ELSE 1
      BY <3>1 DEF Part, Resuming, Again
    <3>4. Place = 6 /\ Place' = 3
      BY <2>4, <3>1 DEF Place, Callers
    <3> QED
      BY <2>1, <3>1, <3>2, <3>3, <3>4, PlaceDescends
  <2>5. ASSUME NEW l, GoTo(l), l # "verify",
               \/ back = "template" /\ l = "ask"
               \/ back = "round" /\ l = "repair"
               \/ back = "step" /\ l = "steps"
        PROVE  Descends
    <3>1. /\ loc' = l /\ repair' = repair /\ at' = at /\ back' = back
      BY <2>5 DEF GoTo
    <3>2. Part = IF repair.caller \in Again THEN 2 ELSE 1
      BY <2>5, PartOfRepair
    <3>3. Part' = IF repair.caller \in Again THEN 2 ELSE 1
      BY <2>5, <3>1 DEF Part, Resuming, Again
    <3>4. \/ Place' < Place
          \/ Place' = Place
      BY <2>5, <3>1 DEF Place
    <3>5. StepsLeft' < StepsLeft
      <4>1. repair.count \in Nat /\ repair.step \in Nat
        BY <1>0 DEF RepairType
      <4> QED
        BY <2>5, <3>1, <4>1 DEF StepsLeft
    <3> QED
      BY <2>1, <2>5, <3>1, <3>2, <3>3, <3>4, <3>5, PlaceDescends
  <2> QED
    BY <1>2, <2>2, <2>3, <2>4, <2>5 DEF Verified, Again
<1> QED
  BY <1>1, <1>2

-----------------------------------------------------------------------------
(* Every step of a working session *)

LEMMA FullPlanDescends == TypeInv /\ FullPlan /\ Working' => Descends
<1> SUFFICES ASSUME TypeInv, FullPlan, Working' PROVE Descends
  OBVIOUS
<1>0. ctx \in CtxType /\ KeptOK
  BY DEF TypeInv
<1>1. CASE NoPlan
  <2>1. Part = 3 /\ Part' = 0
    BY <1>1 DEF NoPlan, ToPlanner, Part
  <2> QED
    BY <2>1 DEF Descends
<1>2. ASSUME NEW p \in Plans, WritePlan(p) PROVE Descends
  <2>1. Part = 3 /\ Part' = 1
    BY <1>2 DEF WritePlan, Part, Resuming
  <2> QED
    BY <2>1 DEF Descends
<1>3. CASE loc = "items"
  <2>1. Part = 1
    BY <1>3 DEF Part, Resuming
  <2>2. CASE SkipItem
    BY <2>1, <1>3, <2>2, GoOnDescends DEF SkipItem, NoApproval
  <2>3. CASE ItemFails
    <3>1. /\ loc' = "repair" /\ at' = at /\ repair'.caller = "failed_item" /\ NoApproval
      BY <2>3 DEF ItemFails, ToRepair, NewRepair
    <3>2. ctx'.attempt = ctx.attempt
      BY <1>0, <2>3 DEF ItemFails, CtxType
    <3>3. Part' = 1 /\ Place = 7 /\ Place' = 3
      BY <1>3, <3>1 DEF Part, Resuming, Place
    <3> QED
      BY <1>3, <2>1, <3>1, <3>2, <3>3, PlaceDescends
  <2>4. CASE ItemRuns /\ GoOn(at + 1, after)
    BY <2>1, <1>3, <2>4, GoOnDescends DEF ItemRuns, NoApproval
  <2>5. CASE ItemRuns /\ ToVerify("item")
    <3>1. /\ loc' = "verify" /\ back' = "item" /\ at' = at /\ NoApproval
      BY <2>5 DEF ItemRuns, ToVerify
    <3>2. ctx'.attempt = ctx.attempt
      <4> DEFINE b == [ctx EXCEPT !.through = plan[at].index]
      <4>1. plan[at].index \in Int
        BY <2>5, PlanType DEF TypeInv, HandOK, ItemRuns, AtItem
      <4>2. b \in CtxType /\ b.attempt = ctx.attempt
        BY <1>0, <4>1 DEF CtxType
      <4>3. ctx' = Observed(b, 1) \/ \E n \in PerceptionLines : ctx' = Observed(Observed(b, 1), n)
        BY <2>5 DEF ItemRuns
      <4> HIDE DEF b
      <4>4. Observed(b, 1) \in CtxType /\ Observed(b, 1).attempt = ctx.attempt
        BY <4>2, ObservedType
      <4> QED
        BY <4>3, <4>4, ObservedType DEF PerceptionLines
    <3>3. Part' = 1 /\ Place = 7 /\ Place' = 6
      BY <1>3, <3>1 DEF Part, Resuming, Place
    <3> QED
      BY <1>3, <2>1, <3>1, <3>2, <3>3, PlaceDescends
  <2>6. ItemRuns => GoOn(at + 1, after) \/ ToVerify("item")
    BY DEF ItemRuns
  <2>7. ~ (PlanDone \/ AskUser \/ ItemNeedsApproval)
    BY DEF PlanDone, AskUser, ItemNeedsApproval, AskApproval, Finish, Working
  <2>8. ~PlannerSilent /\ ~NoPlan /\ ~ \E p \in Plans : WritePlan(p)
    BY <1>3 DEF PlannerSilent, NoPlan, WritePlan
  <2> QED
    BY <2>2, <2>3, <2>4, <2>5, <2>6, <2>7, <2>8 DEF FullPlan
<1>4. ~PlannerSilent
  BY DEF PlannerSilent, Leave, Working
<1>5. \/ loc = "items" \/ PlannerSilent \/ NoPlan \/ \E p \in Plans : WritePlan(p)
  BY DEF FullPlan, PlanDone, SkipItem, AskUser, ItemNeedsApproval, ItemFails, ItemRuns, AtItem
<1> QED
  BY <1>1, <1>2, <1>3, <1>4, <1>5

LEMMA VerifyAndRepairDescends == TypeInv /\ VerifyAndRepair /\ Working' => Descends
<1> SUFFICES ASSUME TypeInv, VerifyAndRepair, Working' PROVE Descends
  OBVIOUS
<1>0. /\ ctx \in CtxType /\ repair \in RepairType
      /\ repair.step \in Nat /\ repair.count \in Nat /\ ctx.attempt \in Nat
  BY DEF TypeInv, ControlOK, RepairType, CtxType
<1>1. CASE VerifyBlocked
  <2>1. PICK n \in PerceptionLines : Verified(FALSE, Observed(ctx, n + 2), hist)
    BY <1>1 DEF VerifyBlocked
  <2>2. Observed(ctx, n + 2).attempt = ctx.attempt
    BY <1>0, ObservedType DEF PerceptionLines
  <2> QED
    BY <1>1, <2>1, <2>2, VerifiedDescends DEF VerifyBlocked
<1>2. ASSUME NEW v \in Verdicts, VerifyJudged(v) PROVE Descends
  <2> DEFINE c == [ctx EXCEPT !.verdict = v]
             h == IF v = "achieved" /\ back # "step"
                  THEN [hist EXCEPT !.confirmed = @ \cup {at}] ELSE hist
  <2>1. PICK n \in PerceptionLines : Verified(v = "achieved", Observed(c, n + 1), h)
    BY <1>2 DEF VerifyJudged
  <2>2. c \in CtxType /\ c.attempt = ctx.attempt
    BY <1>0 DEF CtxType
  <2> HIDE DEF c, h
  <2>3. Observed(c, n + 1).attempt = ctx.attempt
    BY <2>2, ObservedType DEF PerceptionLines
  <2>4. loc = "verify" /\ NoApproval /\ (v = "achieved") \in BOOLEAN
    BY <1>2 DEF VerifyJudged
  <2> QED
    BY <2>1, <2>3, <2>4, VerifiedDescends
<1>3. CASE loc \in {"repair", "ask", "steps"}
  <2>0. Part = IF repair.caller \in Again THEN 2 ELSE 1
    BY <1>3, PartOfRepair
  \* The repair goes on: it belongs to the same call.
  <2>1. ASSUME repair'.caller = repair.caller,
               \/ loc' \in {"repair", "ask", "steps"}
               \/ loc' = "verify" /\ back' \in {"template", "round", "step"}
        PROVE  Part' = Part
    <3>1. Part' = IF repair'.caller \in Again THEN 2 ELSE 1
      BY <2>1 DEF Part, Resuming, Again
    <3> QED
      BY <2>0, <2>1, <3>1
  <2>2. CASE RepairNothing
    BY <1>3, <2>2, RepairReturnsDescends DEF RepairNothing
  <2>3. CASE RepairGivesUp \/ RepairAsksUser
    BY <1>3, <2>3, RepairReturnsDescends DEF RepairGivesUp, RepairAsksUser
  <2>4. ASSUME NEW n, UseTemplate(n) PROVE Descends
    <3>1. /\ loc' = "steps" /\ at' = at /\ ctx' = ctx /\ loc = "repair" /\ NoApproval
          /\ repair' = [repair EXCEPT !.tried = TRUE, !.round = "template", !.step = 0, !.count = n]
      BY <2>4 DEF UseTemplate, ToSteps
    <3>2. repair'.caller = repair.caller /\ repair'.round = "template"
      BY <1>0, <3>1 DEF RepairType
    <3>3. Part' = Part
      BY <2>1, <3>1, <3>2
    <3>4. Place = 3 /\ Place' = 2
      BY <3>1, <3>2 DEF Place
    <3> QED
      BY <3>1, <3>3, <3>4, PlaceDescends
  <2>5. CASE NoTemplate
    <3>1. /\ loc' = "ask" /\ at' = at /\ ctx' = ctx /\ loc = "repair" /\ NoApproval
          /\ repair'.caller = repair.caller
      BY <1>0, <2>5 DEF NoTemplate, RepairType
    <3>2. Part' = Part
      BY <2>1, <3>1
    <3>3. Place = 3 /\ Place' = 0
      BY <3>1 DEF Place
    <3> QED
      BY <3>1, <3>2, <3>3, PlaceDescends
  <2>6. CASE RepairUnusable \/ \E n \in 1 .. MaxRepairSteps : RepairPlanned(n)
    <3>1. Tried.attempt = ctx.attempt + 1
      BY <1>3, TriedType DEF Inside
    <3>2. Tried \in CtxType
      BY <1>3, TriedType DEF Inside
    <3>3. ctx'.attempt = ctx.attempt + 1
      BY <2>6, <3>1, <3>2, ObservedType DEF RepairUnusable, RepairPlanned
    <3>4. /\ at' = at /\ plan' = plan /\ loc' \in {"repair", "steps"}
      BY <2>6 DEF RepairUnusable, RepairPlanned, GoTo, ToSteps, NoApproval
    <3>5. repair'.caller = repair.caller
      BY <1>0, <2>6 DEF RepairUnusable, RepairPlanned, GoTo, ToSteps, RepairType
    <3>6. Part' = Part
      BY <2>1, <3>4, <3>5
    <3>7. Left' = Left
      BY <1>3, <3>4 DEF Left
    <3>8. RepairsLeft' < RepairsLeft
      BY <1>0, <3>3 DEF RepairsLeft, RepairBudget
    <3> QED
      BY <3>6, <3>7, <3>8 DEF Descends
  <2>7. CASE StepFails \/ StepsDone
    <3>1. /\ loc' = "verify" /\ back' = repair.round /\ at' = at /\ repair' = repair
          /\ loc = "steps" /\ NoApproval
      BY <2>7 DEF StepFails, StepsDone, AtStep, ToVerify
    <3>2. ctx'.attempt = ctx.attempt
      BY <1>0, <2>7 DEF StepFails, StepsDone, CtxType
    <3>3. repair.round \in {"template", "round"}
      BY <1>0 DEF RepairType
    <3>4. Part' = Part
      BY <2>1, <3>1, <3>3
    <3>5. Place' < Place
      BY <3>1, <3>3 DEF Place
    <3> QED
      BY <3>1, <3>2, <3>4, <3>5, PlaceDescends
  <2>8. CASE StepRuns
    <3>1. /\ loc = "steps" /\ at' = at /\ NoApproval
          /\ repair' = [repair EXCEPT !.step = @ + 1]
          /\ \/ loc' = "verify" /\ repair.round = "round" /\ back' = "step"
             \/ loc' = "steps"
      BY <2>8 DEF StepRuns, AtStep
    <3>2. /\ repair'.caller = repair.caller /\ repair'.round = repair.round
          /\ repair'.step = repair.step + 1 /\ repair'.count = repair.count
      BY <1>0, <3>1 DEF RepairType
    <3>3. ctx'.attempt = ctx.attempt
      BY <1>0, <2>8, ObservedType DEF StepRuns
    <3>4. Part' = Part
      BY <2>1, <3>1, <3>2
    <3>5. Place' = Place
      BY <3>1, <3>2 DEF Place
    <3>6. StepsLeft' < StepsLeft
      BY <1>0, <3>1, <3>2 DEF StepsLeft
    <3> QED
      BY <3>1, <3>3, <3>4, <3>5, <3>6, PlaceDescends
  <2>9. ~StepNeedsApproval
    BY DEF StepNeedsApproval, AskApproval, Finish, Working
  <2>10. ~VerifyBlocked /\ ~ \E v \in Verdicts : VerifyJudged(v)
    BY <1>3 DEF VerifyBlocked, VerifyJudged
  <2> QED
    BY <2>2, <2>3, <2>4, <2>5, <2>6, <2>7, <2>8, <2>9, <2>10 DEF VerifyAndRepair
<1>4. VerifyBlocked \/ (\E v \in Verdicts : VerifyJudged(v)) \/ loc \in {"repair", "ask", "steps"}
  BY DEF VerifyAndRepair, RepairNothing, UseTemplate, NoTemplate, RepairGivesUp,
         RepairUnusable, RepairAsksUser, RepairPlanned, StepNeedsApproval, StepFails,
         StepRuns, StepsDone, AtStep
<1> QED
  BY <1>1, <1>2, <1>3, <1>4

LEMMA StepPlannerDescends == TypeInv /\ StepPlanner /\ Working' => Descends
<1> SUFFICES ASSUME TypeInv, StepPlanner, Working' PROVE Descends
  OBVIOUS
<1>1. loc = "planner" /\ loc' = "planner" /\ planner'.step = planner.step + 1
  <2>1. /\ ~StepSilent /\ ~PlannerNeedsApproval /\ ~StepsUsedUp
        /\ ~ \E tag \in {"ask_user", "success", "failure"} : StepEnds(tag)
    BY DEF StepSilent, PlannerNeedsApproval, StepsUsedUp, StepEnds, AskApproval, Finish,
           Leave, Working
  <2>2. loc = "planner" /\ \E u, s : NextStep(u, s)
    <3>1. CASE StepUnread
      BY <3>1 DEF StepUnread, AtPlanner, Finish, Working
    <3>2. CASE CompleteRefused
      BY <3>2 DEF CompleteRefused, AtPlanner, Finish, Working
    <3>3. CASE StepActs
      BY <3>3 DEF StepActs, AtPlanner
    <3> QED
      BY <2>1, <3>1, <3>2, <3>3 DEF StepPlanner
  <2> QED
    BY <2>2 DEF NextStep
<1>2. planner.step \in Int /\ MaxSteps \in Int
  BY PlanLoopAssumption DEF PlanLoopAssumption, TypeInv, ControlOK, PlannerType
<1>3. Part = 0 /\ Part' = 0
  BY <1>1 DEF Part
<1>4. Left' < Left
  BY <1>1, <1>2 DEF Left
<1> QED
  BY <1>3, <1>4 DEF Descends

\* However the language model, the tools and the screen answer, each step of a
\* working session lowers its rank, so that it ends or stops for an approval
\* after finitely many of them (computer_use_agent.py:703-903, 1128-1327).
THEOREM SessionsGetOn == Spec => SessionGetsOn
<1>1. TypeInv /\ TypeInv' /\ [Next]_vars => [Working /\ Working' => Below(Rank', Rank)]_vars
  <2> SUFFICES ASSUME TypeInv, TypeInv', Next, Working, Working'
               PROVE  Below(Rank', Rank)
    OBVIOUS
  <2>1. ~Resume
    BY DEF Resume, ApprovedBlocked, ApprovedFails, ApprovedRuns, Working
  <2>2. Descends
    BY <2>1, FullPlanDescends, VerifyAndRepairDescends, StepPlannerDescends DEF Next, Session
  <2>3. RankNumbers
    BY RankIsNatural
  <2>4. RankNumbers'
    <3>1. (TypeInv => RankNumbers)'
      BY RankIsNatural, PTL
    <3> QED
      BY <3>1
  <2> QED
    BY <2>2, <2>3, <2>4, DescentIsBelow
<1> QED
  BY <1>1, TypeInvariant, PTL DEF Spec, SessionGetsOn
=============================================================================
