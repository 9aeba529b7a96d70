---------------------------- MODULE ApprovalGate ----------------------------
(***************************************************************************)
(* What the approval protocol promises about each action the user is asked *)
(* about, and nothing of how it is done: the answer is given once, and the *)
(* action happens at most once, after a yes and never after a no.          *)
(***************************************************************************)
CONSTANT Actions

VARIABLE gate   \* gate[a]: how far action a has come

States == {"unasked", "asked", "granted", "refused", "done"}

GateInit == gate = [a \in Actions |-> "unasked"]

Advance(a, from, to) == gate[a] = from /\ gate' = [gate EXCEPT ![a] = to]

Ask(a)    == Advance(a, "unasked", "asked")
Grant(a)  == Advance(a, "asked", "granted")
Refuse(a) == Advance(a, "asked", "refused")
Do(a)     == Advance(a, "granted", "done")

GateNext == \E a \in Actions : Ask(a) \/ Grant(a) \/ Refuse(a) \/ Do(a)

GateSpec == GateInit /\ [][GateNext]_gate
=============================================================================
