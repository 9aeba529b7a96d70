----------------------------- MODULE MCPlanLoop -----------------------------
(***************************************************************************)
(* Plans of one to three items, numbered from 0 as the planner's prompt     *)
(* asks for.                                                                *)
(***************************************************************************)
EXTENDS PlanLoop

Act(i)   == [index |-> i, cp |-> FALSE, kind |-> "act"]
Check(i) == [index |-> i, cp |-> TRUE, kind |-> "act"]
Look(i)  == [index |-> i, cp |-> FALSE, kind |-> "look"]
Ask(i)   == [index |-> i, cp |-> FALSE, kind |-> "ask_user"]

SmallPlans ==
    { <<Check(0), Look(1), Act(2)>>, <<Act(0), Check(1)>>, <<Ask(0)>> }
=============================================================================
