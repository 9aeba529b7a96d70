--------------------- MODULE ExecutionCoordinator_proofs ---------------------
(***************************************************************************)
(* Theorems about ExecutionCoordinator, for any number of turns answering,  *)
(* abandoning and executing at once, any number of proposals and any number *)
(* of restarts.                                                            *)
(*                                                                         *)
(* The inductive invariant has three parts: the typing of the state and of  *)
(* the locals in use at each location (TypeInv); the reason why a proposal  *)
(* may be run, carried from the policy or the approval check to the call    *)
(* (AuthInv); and what the attempt rows say at each location (AttemptInv).  *)
(***************************************************************************)
EXTENDS ExecutionCoordinator, SequenceTheorems, TLAPS

\* Where a turn has a proposal in hand, respectively an answered dialogue.
HasProposal == {"policy", "request", "suspend", "bind", "check", "attempt",
                "run", "record", "observe", "verify"}
HasDialog   == {"classify", "granting", "grant", "resume", "repropose"}

\* The rows: proposals, attempts and requests refer to each other.
RowsOK ==
    /\ saved \subseteq Proposals
    /\ attempts \in [Proposals -> Seq(AttemptStatus)]
    /\ approvals \in Seq([prop : Proposals, status : ApprovalStatus])
    /\ \A i \in DOMAIN approvals : approvals[i].prop \in saved
    /\ stepRow \in [Steps -> StepStatus]
    /\ taskRow \in TaskStatus
    /\ ran \subseteq Proposals \X Nat
    /\ granted \subseteq DOMAIN approvals
    /\ crashes \in 0..MaxCrashes

\* The memory the turns share: what it names is in the database.
MemoryOK ==
    /\ held \in TaskStatus \cup {None}
    /\ lastProp \in saved \cup {None}
    /\ lastApr \in Nat
    /\ checkStep \in Steps
    /\ pending \in saved \cup {None}
    /\ slots \in [Proposals -> [apr : Nat, prop : saved \cup {None}]]
    /\ active \in BOOLEAN

\* The locals of a turn that are in use at its location.
TurnOK(t) ==
    /\ pc[t] \in Locations
    /\ job[t] \in Locals
    /\ pc[t] \in HasProposal => job[t].prop \in saved
    /\ pc[t] \in HasDialog => job[t].dialog \in saved
    /\ job[t].origin = "approved" => job[t].prop \in saved
    /\ pc[t] = "grant" => job[t].req \in DOMAIN approvals
    /\ pc[t] = "deny" => job[t].apr \in DOMAIN approvals
    /\ pc[t] = "reopen" => job[t].apr \in (DOMAIN approvals) \cup {0}
    /\ pc[t] \in {"run", "record"} => job[t].att \in DOMAIN attempts[job[t].prop]

TurnsOK ==
    /\ pc = [t \in Turns |-> pc[t]]
    /\ job = [t \in Turns |-> job[t]]
    /\ \A t \in Turns : TurnOK(t)

TypeInv == RowsOK /\ MemoryOK /\ TurnsOK

\* No request has been made for p and none will be: p is a saved proposal that
\* no turn is taking from the planner to the policy.
Unrequested(p) ==
    /\ p \in saved
    /\ Requests(p) = {}
    /\ \A t \in Turns : job[t].prop = p /\ job[t].origin = "planner" =>
                            pc[t] \notin {"policy", "request"}

MayRun(p) == p \notin Critical \/ Authorised(p) \/ Unrequested(p)

\* Past the policy, or past the approval check.
Cleared(t) == \/ pc[t] \in {"attempt", "run"}
              \/ pc[t] = "policy" /\ job[t].origin # "planner"

\* Only a planner's proposal becomes a request, and only an answered dialogue
\* comes to the approval check.
AuthTurn(t) ==
    /\ pc[t] = "request" => job[t].prop \in Critical /\ job[t].origin = "planner"
    /\ pc[t] \in {"granting", "grant", "resume", "check", "repropose"} =>
          job[t].origin # "planner"
    /\ Cleared(t) => MayRun(job[t].prop)

AuthRows ==
    \A i \in DOMAIN approvals : /\ approvals[i].prop \in Critical
                                /\ approvals[i].status = "granted" => i \in granted

AuthInv ==
    /\ AuthRows
    /\ \A t \in Turns : AuthTurn(t)
    /\ \A c \in ran : MayRun(c[1])

AttemptInv ==
    /\ AttemptRowsMatchCalls
    /\ \A t \in Turns : pc[t] = "record" => <<job[t].prop, job[t].att>> \in ran

IInv == TypeInv /\ AuthInv /\ AttemptInv

-----------------------------------------------------------------------------
(* Type correctness.                                                        *)

LEMMA NewestPendingRow ==
    /\ NewestPending \in PendingApprovals \cup {0}
    /\ PendingApprovals \subseteq DOMAIN approvals
  BY DEF NewestPending, PendingApprovals

LEMMA RowIndices ==
    ASSUME RowsOK
    PROVE  /\ Len(approvals) \in Nat /\ DOMAIN approvals = 1..Len(approvals)
           /\ Len(approvals) + 1 \in Nat
           /\ NewestPending \in Nat /\ NewestPending \in (DOMAIN approvals) \cup {0}
           /\ PendingApprovals \subseteq Nat
           /\ \A p \in Proposals : /\ Len(attempts[p]) \in Nat
                                  /\ DOMAIN attempts[p] = 1..Len(attempts[p])
                                  /\ Len(attempts[p]) + 1 \in Nat
  BY NewestPendingRow DEF RowsOK

\* Setting the status of a request keeps what it is a request for.
LEMMA RequestStatusSet ==
    ASSUME RowsOK, NEW i \in DOMAIN approvals, NEW st \in ApprovalStatus,
           approvals' = [approvals EXCEPT ![i].status = st]
    PROVE  /\ approvals' \in Seq([prop : Proposals, status : ApprovalStatus])
           /\ Len(approvals') = Len(approvals) /\ DOMAIN approvals' = DOMAIN approvals
           /\ \A j \in DOMAIN approvals :
                /\ approvals'[j].prop = approvals[j].prop
                /\ approvals'[j].status = IF j = i THEN st ELSE approvals[j].status
<1> DEFINE T == [prop : Proposals, status : ApprovalStatus]
           e == [prop |-> approvals[i].prop, status |-> st]
<1>1. approvals \in Seq(T) /\ i \in 1..Len(approvals) /\ DOMAIN approvals = 1..Len(approvals)
  BY RowIndices DEF RowsOK
<1>2. \A j \in 1..Len(approvals) : approvals[j] \in T
  BY <1>1, ElementOfSeq
<1>3. e.prop = approvals[i].prop /\ e.status = st
  OBVIOUS
<1>4. e \in T
  BY <1>1, <1>2
<1>5. approvals' = [approvals EXCEPT ![i] = e]
  <2>1. approvals[i] \in T
    BY <1>1, <1>2
  <2>2. [approvals[i] EXCEPT !.status = st] = e
    BY <2>1
  <2>3. QED BY <2>2
<1> HIDE DEF T, e
<1>6. /\ approvals' \in Seq(T) /\ Len(approvals') = Len(approvals)
      /\ \A j \in 1..Len(approvals) : approvals'[j] = IF j = i THEN e ELSE approvals[j]
  BY <1>1, <1>4, <1>5, ExceptSeq
<1>7. DOMAIN approvals' = DOMAIN approvals
  BY <1>1, <1>6
<1>8. QED BY <1>1, <1>3, <1>6, <1>7 DEF T, e

LEMMA IdleLocals ==
    Idle \in Locals /\ Idle.prop = None /\ Idle.origin = "planner"
  BY ConstantsAssumption DEF Idle, Locals, Origins, TaskStatus

LEMMA StatusMoves ==
    ASSUME NEW row \in TaskStatus, NEW old, NEW new \in TaskStatus
    PROVE  /\ Written(row, old, new) \in TaskStatus
           /\ old \in TaskStatus => Moved(old, new) \in TaskStatus
  BY DEF Written, Moved

\* Rows are added and changed, never deleted.
RowsGrow ==
    /\ saved \subseteq saved'
    /\ DOMAIN approvals \subseteq DOMAIN approvals'
    /\ \A p \in Proposals : DOMAIN attempts[p] \subseteq DOMAIN attempts'[p]

\* A step of turn t does not disturb the locals of the others.
LEMMA TurnMoves ==
    ASSUME TypeInv, NEW t \in Turns, RowsGrow, TurnOK(t)',
           pc' = [pc EXCEPT ![t] = pc'[t]], job' = [job EXCEPT ![t] = job'[t]]
    PROVE  TurnsOK'
<1>1. ASSUME NEW u \in Turns, u # t PROVE TurnOK(u)'
  BY <1>1, ConstantsAssumption
  DEF TypeInv, TurnsOK, TurnOK, RowsGrow, RowsOK, HasProposal
<1>2. QED BY <1>1 DEF TypeInv, TurnsOK

\* Nor is there anything to check of a turn that drops its locals.
LEMMA TurnLeaves ==
    ASSUME TypeInv, NEW t \in Turns, RowsGrow,
           NEW l \in {"idle", "route", "session", "planning", "failed"}, Leave(t, l)
    PROVE  TurnsOK'
<1>1. pc'[t] = l /\ job'[t] = Idle
  BY DEF Leave, Goto, TypeInv, TurnsOK
<1>2. TurnOK(t)'
  BY <1>1, IdleLocals DEF TurnOK, HasProposal, HasDialog, Locations
<1>3. QED BY <1>1, <1>2, TurnMoves DEF Leave, Goto

\* Steps that only end a turn or return to the planner.
LEMMA TypeLeave ==
    ASSUME TypeInv, NEW t \in Turns,
           NEW l \in {"idle", "route", "session", "planning"}, Leave(t, l),
           UNCHANGED <<dbVars, cacheVars, ctxVars, ran, granted, crashes>>
    PROVE  TypeInv'
<1>1. RowsOK' /\ MemoryOK' /\ RowsGrow
  BY DEF TypeInv, RowsOK, MemoryOK, RowsGrow, dbVars, cacheVars, ctxVars
<1>2. QED BY <1>1, TurnLeaves DEF TypeInv

LEMMA TypeChat ==
    ASSUME TypeInv, NEW t \in Turns, Chat(t)
    PROVE  TypeInv'
  BY TypeLeave DEF Chat

LEMMA TypeRunGoal ==
    ASSUME TypeInv, NEW t \in Turns, RunGoal(t)
    PROVE  TypeInv'
  BY TypeLeave DEF RunGoal

LEMMA TypeLlmUnavailable ==
    ASSUME TypeInv, NEW t \in Turns, LlmUnavailable(t)
    PROVE  TypeInv'
  BY TypeLeave DEF LlmUnavailable

LEMMA TypeSkipVerify ==
    ASSUME TypeInv, NEW t \in Turns, SkipVerify(t)
    PROVE  TypeInv'
  BY TypeLeave DEF SkipVerify

LEMMA TypeAnswerClarify ==
    ASSUME TypeInv, NEW t \in Turns, AnswerClarify(t)
    PROVE  TypeInv'
  BY TypeLeave DEF AnswerClarify

LEMMA TypeRecoveryStatus ==
    ASSUME TypeInv, NEW t \in Turns, RecoveryStatus(t)
    PROVE  TypeInv'
  BY TypeLeave DEF RecoveryStatus

LEMMA TypeBeginTurn ==
    ASSUME TypeInv, NEW t \in Turns, BeginTurn(t)
    PROVE  TypeInv'
<1>1. RowsOK' /\ RowsGrow
  BY DEF BeginTurn, TypeInv, RowsOK, RowsGrow, dbVars
<1>2. MemoryOK'
  BY DEF BeginTurn, TypeInv, MemoryOK, dbVars, cacheVars, ctxVars
<1>3. TurnsOK'
  <2>1. /\ pc' = [pc EXCEPT ![t] = IF pending = None THEN "route" ELSE "classify"]
        /\ job' = [job EXCEPT ![t] = [job[t] EXCEPT !.dialog = pending]]
    BY DEF BeginTurn, Goto, TypeInv, TurnsOK
  <2>2. /\ pc'[t] = IF pending = None THEN "route" ELSE "classify"
        /\ job'[t] = [job[t] EXCEPT !.dialog = pending]
        /\ pc' = [pc EXCEPT ![t] = pc'[t]] /\ job' = [job EXCEPT ![t] = job'[t]]
    BY <2>1 DEF TypeInv, TurnsOK
  <2>3. job[t] \in Locals /\ pending \in Proposals \cup {None}
    BY RowIndices, ConstantsAssumption
    DEF BeginTurn, TypeInv, TurnsOK, TurnOK, RowsOK, MemoryOK, HasProposal, HasDialog, Locals, Origins
  <2>4. /\ job'[t] \in Locals
        /\ job'[t].dialog = pending /\ job'[t].prop = job[t].prop /\ job'[t].apr = job[t].apr
        /\ job'[t].origin = job[t].origin /\ job'[t].req = job[t].req /\ job'[t].att = job[t].att
    BY <2>2, <2>3 DEF Locals
  <2>5. TurnOK(t)'
    BY <1>1, <2>2, <2>4, RowIndices, NewestPendingRow, ConstantsAssumption
    DEF BeginTurn, TypeInv, TurnsOK, TurnOK, RowsOK, RowsGrow, MemoryOK, HasProposal,
        HasDialog, Locations, Origins, dbVars
  <2>6. QED BY <1>1, <2>2, <2>5, TurnMoves
<1>4. QED BY <1>1, <1>2, <1>3 DEF TypeInv

LEMMA TypeStartSession ==
    ASSUME TypeInv, NEW t \in Turns, NEW full, StartSession(t, full)
    PROVE  TypeInv'
<1>1. RowsOK' /\ RowsGrow
  BY DEF StartSession, TypeInv, RowsOK, MemoryOK, RowsGrow
<1>2. MemoryOK'
  BY DEF StartSession, TypeInv, MemoryOK, dbVars, cacheVars, ctxVars
<1>3. TurnsOK'
  <2>1. /\ pc' = [pc EXCEPT ![t] = "planning"]
        /\ job' = [job EXCEPT ![t] = job[t]]
    BY DEF StartSession, Goto, TypeInv, TurnsOK
  <2>2. /\ pc'[t] = "planning"
        /\ job'[t] = job[t]
        /\ pc' = [pc EXCEPT ![t] = pc'[t]] /\ job' = [job EXCEPT ![t] = job'[t]]
    BY <2>1 DEF TypeInv, TurnsOK
  <2>5. TurnOK(t)'
    BY <1>1, <2>2, RowIndices, NewestPendingRow, ConstantsAssumption
    DEF StartSession, TypeInv, TurnsOK, TurnOK, RowsOK, RowsGrow, MemoryOK, HasProposal,
        HasDialog, Locations, Origins, dbVars
  <2>6. QED BY <1>1, <2>2, <2>5, TurnMoves
<1>4. QED BY <1>1, <1>2, <1>3 DEF TypeInv

LEMMA TypeFinishSession ==
    ASSUME TypeInv, NEW t \in Turns, NEW exit, FinishSession(t, exit)
    PROVE  TypeInv'
<1>1. RowsOK' /\ RowsGrow
  BY StatusMoves DEF FinishSession, TypeInv, RowsOK, MemoryOK, RowsGrow, TaskStatus, WaitingStatus
<1>2. MemoryOK'
  BY DEF FinishSession, TypeInv, MemoryOK, dbVars, cacheVars, ctxVars
<1>3. TurnsOK'
  BY <1>1, TurnLeaves DEF FinishSession
<1>4. QED BY <1>1, <1>2, <1>3 DEF TypeInv

LEMMA TypePropose ==
    ASSUME TypeInv, NEW t \in Turns, NEW p \in Proposals, Propose(t, p)
    PROVE  TypeInv'
<1>1. RowsOK' /\ RowsGrow
  BY DEF Propose, TypeInv, RowsOK, RowsGrow
<1>2. MemoryOK'
  BY <1>1 DEF Propose, ResolveStep, TypeInv, RowsOK, MemoryOK, RowsGrow, ctxVars
<1>3. TurnsOK'
  <2>1. /\ pc' = [pc EXCEPT ![t] = "policy"]
        /\ job' = [job EXCEPT ![t] = [job[t] EXCEPT !.prop = p]]
    BY DEF Propose, Goto, TypeInv, TurnsOK
  <2>2. /\ pc'[t] = "policy"
        /\ job'[t] = [job[t] EXCEPT !.prop = p]
        /\ pc' = [pc EXCEPT ![t] = pc'[t]] /\ job' = [job EXCEPT ![t] = job'[t]]
    BY <2>1 DEF TypeInv, TurnsOK
  <2>3. job[t] \in Locals /\ p \in Proposals \cup {None}
    BY RowIndices, ConstantsAssumption
    DEF Propose, TypeInv, TurnsOK, TurnOK, RowsOK, MemoryOK, HasProposal, HasDialog, Locals, Origins
  <2>4. /\ job'[t] \in Locals
        /\ job'[t].dialog = job[t].dialog /\ job'[t].prop = p /\ job'[t].apr = job[t].apr
        /\ job'[t].origin = job[t].origin /\ job'[t].req = job[t].req /\ job'[t].att = job[t].att
    BY <2>2, <2>3 DEF Locals
  <2>5. TurnOK(t)'
    BY <1>1, <2>2, <2>4, RowIndices, NewestPendingRow, ConstantsAssumption
    DEF Propose, TypeInv, TurnsOK, TurnOK, RowsOK, RowsGrow, MemoryOK, HasProposal,
        HasDialog, Locations, Origins, dbVars
  <2>6. QED BY <1>1, <2>2, <2>5, TurnMoves
<1>4. QED BY <1>1, <1>2, <1>3 DEF TypeInv

LEMMA TypePolicyDeny ==
    ASSUME TypeInv, NEW t \in Turns, PolicyDeny(t)
    PROVE  TypeInv'
<1>1. RowsOK' /\ RowsGrow
  BY DEF PolicyDeny, TypeInv, RowsOK, RowsGrow, StepStatus
<1>2. MemoryOK'
  BY DEF PolicyDeny, TypeInv, MemoryOK, dbVars, cacheVars, ctxVars
<1>3. TurnsOK'
  <2>1. CASE job[t].origin = "planner"
    BY <1>1, <2>1, TurnLeaves DEF PolicyDeny
  <2>2. CASE job[t].origin # "planner"
    BY <1>1, <2>2, TurnLeaves DEF PolicyDeny
  <2>3. QED BY <2>1, <2>2
<1>4. QED BY <1>1, <1>2, <1>3 DEF TypeInv

LEMMA TypeMarkWaiting ==
    ASSUME TypeInv, NEW t \in Turns, MarkWaiting(t)
    PROVE  TypeInv'
<1>1. RowsOK' /\ RowsGrow
  BY DEF MarkWaiting, TypeInv, RowsOK, RowsGrow, StepStatus
<1>2. MemoryOK'
  BY DEF MarkWaiting, TypeInv, MemoryOK, dbVars, cacheVars, ctxVars
<1>3. TurnsOK'
  <2>1. /\ pc' = [pc EXCEPT ![t] = "request"]
        /\ job' = [job EXCEPT ![t] = job[t]]
    BY DEF MarkWaiting, Goto, TypeInv, TurnsOK
  <2>2. /\ pc'[t] = "request"
        /\ job'[t] = job[t]
        /\ pc' = [pc EXCEPT ![t] = pc'[t]] /\ job' = [job EXCEPT ![t] = job'[t]]
    BY <2>1 DEF TypeInv, TurnsOK
  <2>4. job'[t] = job[t]
    BY <2>2
  <2>5. TurnOK(t)'
    BY <1>1, <2>2, <2>4, RowIndices, NewestPendingRow, ConstantsAssumption
    DEF MarkWaiting, TypeInv, TurnsOK, TurnOK, RowsOK, RowsGrow, MemoryOK, HasProposal,
        HasDialog, Locations, Origins, dbVars
  <2>6. QED BY <1>1, <2>2, <2>5, TurnMoves
<1>4. QED BY <1>1, <1>2, <1>3 DEF TypeInv

LEMMA TypeCreateRequest ==
    ASSUME TypeInv, NEW t \in Turns, CreateRequest(t)
    PROVE  TypeInv'
<1>1. RowsOK' /\ RowsGrow
  <2>1. job[t].prop \in saved
    BY DEF CreateRequest, TypeInv, TurnsOK, TurnOK, HasProposal
  <2>2. [prop |-> job[t].prop, status |-> "pending"] \in
          [prop : Proposals, status : ApprovalStatus]
    BY <2>1 DEF TypeInv, RowsOK, ApprovalStatus
  <2>3. /\ approvals' \in Seq([prop : Proposals, status : ApprovalStatus])
        /\ Len(approvals') = Len(approvals) + 1
        /\ \A i \in 1..Len(approvals) : approvals'[i] = approvals[i]
        /\ approvals'[Len(approvals) + 1].prop = job[t].prop
    BY <2>2, AppendProperties DEF CreateRequest, TypeInv, RowsOK
  <2>4. QED
    BY <2>1, <2>3, RowIndices DEF CreateRequest, TypeInv, RowsOK, RowsGrow
<1>2. MemoryOK'
  BY DEF CreateRequest, TypeInv, MemoryOK, dbVars, cacheVars, ctxVars
<1>3. TurnsOK'
  <2>1. /\ pc' = [pc EXCEPT ![t] = "suspend"]
        /\ job' = [job EXCEPT ![t] = [job[t] EXCEPT !.apr = Len(approvals) + 1]]
    BY DEF CreateRequest, Goto, TypeInv, TurnsOK
  <2>2. /\ pc'[t] = "suspend"
        /\ job'[t] = [job[t] EXCEPT !.apr = Len(approvals) + 1]
        /\ pc' = [pc EXCEPT ![t] = pc'[t]] /\ job' = [job EXCEPT ![t] = job'[t]]
    BY <2>1 DEF TypeInv, TurnsOK
  <2>3. job[t] \in Locals /\ Len(approvals) + 1 \in Nat
    BY RowIndices, ConstantsAssumption
    DEF CreateRequest, TypeInv, TurnsOK, TurnOK, RowsOK, MemoryOK, HasProposal, HasDialog, Locals, Origins
  <2>4. /\ job'[t] \in Locals
        /\ job'[t].dialog = job[t].dialog /\ job'[t].prop = job[t].prop /\ job'[t].apr = Len(approvals) + 1
        /\ job'[t].origin = job[t].origin /\ job'[t].req = job[t].req /\ job'[t].att = job[t].att
    BY <2>2, <2>3 DEF Locals
  <2>5. TurnOK(t)'
    BY <1>1, <2>2, <2>4, RowIndices, NewestPendingRow, ConstantsAssumption
    DEF CreateRequest, TypeInv, TurnsOK, TurnOK, RowsOK, RowsGrow, MemoryOK, HasProposal,
        HasDialog, Locations, Origins, dbVars
  <2>6. QED BY <1>1, <2>2, <2>5, TurnMoves
<1>4. QED BY <1>1, <1>2, <1>3 DEF TypeInv

LEMMA TypeSuspendForApproval ==
    ASSUME TypeInv, NEW t \in Turns, SuspendForApproval(t)
    PROVE  TypeInv'
<1>1. RowsOK' /\ RowsGrow
  BY StatusMoves DEF SuspendForApproval, TypeInv, RowsOK, MemoryOK, RowsGrow, TaskStatus, WaitingStatus
<1>2. MemoryOK'
  <2>1. job[t].prop \in saved /\ job[t].apr \in Nat
    BY DEF SuspendForApproval, TypeInv, TurnsOK, TurnOK, HasProposal, Locals
  <2>2. /\ pending' = job[t].prop
        /\ \E ids \in EarlierIds(t) : slots' = [slots EXCEPT ![job[t].prop] = ids]
    BY DEF SuspendForApproval, OpenDialog
  <2>3. EarlierIds(t) \subseteq [apr : Nat, prop : saved \cup {None}]
    BY RowIndices DEF EarlierIds, NoIds, TypeInv
  <2>4. slots' \in [Proposals -> [apr : Nat, prop : saved \cup {None}]]
    BY <2>2, <2>3 DEF TypeInv, MemoryOK
  <2>5. QED BY <2>1, <2>2, <2>4 DEF SuspendForApproval, TypeInv, MemoryOK, RowsOK
<1>3. TurnsOK'
  <2>1. /\ pc' = [pc EXCEPT ![t] = "bind"]
        /\ job' = [job EXCEPT ![t] = job[t]]
    BY DEF SuspendForApproval, Goto, TypeInv, TurnsOK
  <2>2. /\ pc'[t] = "bind"
        /\ job'[t] = job[t]
        /\ pc' = [pc EXCEPT ![t] = pc'[t]] /\ job' = [job EXCEPT ![t] = job'[t]]
    BY <2>1 DEF TypeInv, TurnsOK
  <2>4. job'[t] = job[t]
    BY <2>2
  <2>5. TurnOK(t)'
    BY <1>1, <2>2, <2>4, RowIndices, NewestPendingRow, ConstantsAssumption
    DEF SuspendForApproval, TypeInv, TurnsOK, TurnOK, RowsOK, RowsGrow, MemoryOK, HasProposal,
        HasDialog, Locations, Origins, dbVars
  <2>6. QED BY <1>1, <2>2, <2>5, TurnMoves
<1>4. QED BY <1>1, <1>2, <1>3 DEF TypeInv

LEMMA TypeBindDialog ==
    ASSUME TypeInv, NEW t \in Turns, BindDialog(t)
    PROVE  TypeInv'
<1>1. RowsOK' /\ RowsGrow
  BY DEF BindDialog, TypeInv, RowsOK, RowsGrow, dbVars
<1>2. MemoryOK'
  BY DEF BindDialog, TypeInv, MemoryOK, dbVars, cacheVars
<1>3. TurnsOK'
  BY <1>1, TurnLeaves DEF BindDialog
<1>4. QED BY <1>1, <1>2, <1>3 DEF TypeInv

LEMMA TypeMarkStarted ==
    ASSUME TypeInv, NEW t \in Turns, MarkStarted(t)
    PROVE  TypeInv'
<1>1. RowsOK' /\ RowsGrow
  BY DEF MarkStarted, TypeInv, RowsOK, RowsGrow, StepStatus
<1>2. MemoryOK'
  BY DEF MarkStarted, TypeInv, MemoryOK, dbVars, cacheVars, ctxVars
<1>3. TurnsOK'
  <2>1. /\ pc' = [pc EXCEPT ![t] = "attempt"]
        /\ job' = [job EXCEPT ![t] = job[t]]
    BY DEF MarkStarted, Goto, TypeInv, TurnsOK
  <2>2. /\ pc'[t] = "attempt"
        /\ job'[t] = job[t]
        /\ pc' = [pc EXCEPT ![t] = pc'[t]] /\ job' = [job EXCEPT ![t] = job'[t]]
    BY <2>1 DEF TypeInv, TurnsOK
  <2>4. job'[t] = job[t]
    BY <2>2
  <2>5. TurnOK(t)'
    BY <1>1, <2>2, <2>4, RowIndices, NewestPendingRow, ConstantsAssumption
    DEF MarkStarted, TypeInv, TurnsOK, TurnOK, RowsOK, RowsGrow, MemoryOK, HasProposal,
        HasDialog, Locations, Origins, dbVars
  <2>6. QED BY <1>1, <2>2, <2>5, TurnMoves
<1>4. QED BY <1>1, <1>2, <1>3 DEF TypeInv

LEMMA TypeSaveAttempt ==
    ASSUME TypeInv, NEW t \in Turns, SaveAttempt(t)
    PROVE  TypeInv'
<1>1. RowsOK' /\ RowsGrow /\ Len(attempts[job[t].prop]) + 1 \in DOMAIN attempts'[job[t].prop]
  <2>1. job[t].prop \in Proposals
    BY DEF SaveAttempt, TypeInv, TurnsOK, TurnOK, RowsOK, HasProposal
  <2>2. /\ attempts'[job[t].prop] \in Seq(AttemptStatus)
        /\ Len(attempts'[job[t].prop]) = Len(attempts[job[t].prop]) + 1
    BY <2>1, AppendProperties DEF SaveAttempt, TypeInv, RowsOK, AttemptStatus
  <2>3. QED
    BY <2>1, <2>2, RowIndices DEF SaveAttempt, TypeInv, RowsOK, RowsGrow
<1>2. MemoryOK'
  BY DEF SaveAttempt, TypeInv, MemoryOK, dbVars, cacheVars, ctxVars
<1>3. TurnsOK'
  <2>1. /\ pc' = [pc EXCEPT ![t] = "run"]
        /\ job' = [job EXCEPT ![t] = [job[t] EXCEPT !.att = Len(attempts[job[t].prop]) + 1]]
    BY DEF SaveAttempt, Goto, TypeInv, TurnsOK
  <2>2. /\ pc'[t] = "run"
        /\ job'[t] = [job[t] EXCEPT !.att = Len(attempts[job[t].prop]) + 1]
        /\ pc' = [pc EXCEPT ![t] = pc'[t]] /\ job' = [job EXCEPT ![t] = job'[t]]
    BY <2>1 DEF TypeInv, TurnsOK
  <2>3. job[t] \in Locals /\ Len(attempts[job[t].prop]) + 1 \in Nat
    BY RowIndices, ConstantsAssumption
    DEF SaveAttempt, TypeInv, TurnsOK, TurnOK, RowsOK, MemoryOK, HasProposal, HasDialog, Locals, Origins
  <2>4. /\ job'[t] \in Locals
        /\ job'[t].dialog = job[t].dialog /\ job'[t].prop = job[t].prop /\ job'[t].apr = job[t].apr
        /\ job'[t].origin = job[t].origin /\ job'[t].req = job[t].req /\ job'[t].att = Len(attempts[job[t].prop]) + 1
    BY <2>2, <2>3 DEF Locals
  <2>5. TurnOK(t)'
    BY <1>1, <2>2, <2>4, RowIndices, NewestPendingRow, ConstantsAssumption
    DEF SaveAttempt, TypeInv, TurnsOK, TurnOK, RowsOK, RowsGrow, MemoryOK, HasProposal,
        HasDialog, Locations, Origins, dbVars
  <2>6. QED BY <1>1, <2>2, <2>5, TurnMoves
<1>4. QED BY <1>1, <1>2, <1>3 DEF TypeInv

LEMMA TypeRunTool ==
    ASSUME TypeInv, NEW t \in Turns, NEW ok \in BOOLEAN, RunTool(t, ok)
    PROVE  TypeInv'
<1>1. RowsOK' /\ RowsGrow
  <2>1. job[t].prop \in Proposals /\ job[t].att \in Nat
    BY DEF RunTool, TypeInv, TurnsOK, TurnOK, RowsOK, HasProposal, Locals
  <2>2. QED BY <2>1 DEF RunTool, TypeInv, RowsOK, RowsGrow, dbVars
<1>2. MemoryOK'
  BY DEF RunTool, TypeInv, MemoryOK, dbVars, cacheVars, ctxVars
<1>3. TurnsOK'
  <2>1. /\ pc' = [pc EXCEPT ![t] = "record"]
        /\ job' = [job EXCEPT ![t] = [job[t] EXCEPT !.ok = ok]]
    BY DEF RunTool, Goto, TypeInv, TurnsOK
  <2>2. /\ pc'[t] = "record"
        /\ job'[t] = [job[t] EXCEPT !.ok = ok]
        /\ pc' = [pc EXCEPT ![t] = pc'[t]] /\ job' = [job EXCEPT ![t] = job'[t]]
    BY <2>1 DEF TypeInv, TurnsOK
  <2>3. job[t] \in Locals /\ ok \in BOOLEAN
    BY RowIndices, ConstantsAssumption
    DEF RunTool, TypeInv, TurnsOK, TurnOK, RowsOK, MemoryOK, HasProposal, HasDialog, Locals, Origins
  <2>4. /\ job'[t] \in Locals
        /\ job'[t].dialog = job[t].dialog /\ job'[t].prop = job[t].prop /\ job'[t].apr = job[t].apr
        /\ job'[t].origin = job[t].origin /\ job'[t].req = job[t].req /\ job'[t].att = job[t].att
    BY <2>2, <2>3 DEF Locals
  <2>5. TurnOK(t)'
    BY <1>1, <2>2, <2>4, RowIndices, NewestPendingRow, ConstantsAssumption
    DEF RunTool, TypeInv, TurnsOK, TurnOK, RowsOK, RowsGrow, MemoryOK, HasProposal,
        HasDialog, Locations, Origins, dbVars
  <2>6. QED BY <1>1, <2>2, <2>5, TurnMoves
<1>4. QED BY <1>1, <1>2, <1>3 DEF TypeInv

LEMMA TypeRecordAttempt ==
    ASSUME TypeInv, NEW t \in Turns, RecordAttempt(t)
    PROVE  TypeInv'
<1>1. RowsOK' /\ RowsGrow
  <2>1. job[t].prop \in Proposals /\ job[t].att \in 1..Len(attempts[job[t].prop])
    BY RowIndices DEF RecordAttempt, TypeInv, TurnsOK, TurnOK, RowsOK, HasProposal
  <2>2. /\ attempts'[job[t].prop] \in Seq(AttemptStatus)
        /\ Len(attempts'[job[t].prop]) = Len(attempts[job[t].prop])
    <3> DEFINE e == IF job[t].ok THEN "succeeded" ELSE "failed"
    <3>1. /\ e \in AttemptStatus
          /\ attempts'[job[t].prop] = [attempts[job[t].prop] EXCEPT ![job[t].att] = e]
      BY <2>1 DEF RecordAttempt, TypeInv, RowsOK, AttemptStatus
    <3> HIDE DEF e
    <3>2. attempts[job[t].prop] \in Seq(AttemptStatus)
      BY <2>1 DEF TypeInv, RowsOK
    <3>3. QED BY <2>1, <3>1, <3>2, ExceptSeq
  <2>3. QED
    BY <2>1, <2>2, RowIndices DEF RecordAttempt, TypeInv, RowsOK, RowsGrow
<1>2. MemoryOK'
  BY DEF RecordAttempt, TypeInv, MemoryOK, dbVars, cacheVars, ctxVars
<1>3. TurnsOK'
  <2>1. /\ pc' = [pc EXCEPT ![t] = "observe"]
        /\ job' = [job EXCEPT ![t] = job[t]]
    BY DEF RecordAttempt, Goto, TypeInv, TurnsOK
  <2>2. /\ pc'[t] = "observe"
        /\ job'[t] = job[t]
        /\ pc' = [pc EXCEPT ![t] = pc'[t]] /\ job' = [job EXCEPT ![t] = job'[t]]
    BY <2>1 DEF TypeInv, TurnsOK
  <2>4. job'[t] = job[t]
    BY <2>2
  <2>5. TurnOK(t)'
    BY <1>1, <2>2, <2>4, RowIndices, NewestPendingRow, ConstantsAssumption
    DEF RecordAttempt, TypeInv, TurnsOK, TurnOK, RowsOK, RowsGrow, MemoryOK, HasProposal,
        HasDialog, Locations, Origins, dbVars
  <2>6. QED BY <1>1, <2>2, <2>5, TurnMoves
<1>4. QED BY <1>1, <1>2, <1>3 DEF TypeInv

LEMMA TypeObserve ==
    ASSUME TypeInv, NEW t \in Turns, Observe(t)
    PROVE  TypeInv'
<1>1. RowsOK' /\ RowsGrow
  BY DEF Observe, TypeInv, RowsOK, RowsGrow, StepStatus
<1>2. MemoryOK'
  BY DEF Observe, TypeInv, MemoryOK, dbVars, cacheVars, ctxVars
<1>3. TurnsOK'
  <2>1. CASE job[t].ok
    <3>1. /\ pc' = [pc EXCEPT ![t] = "verify"]
          /\ job' = [job EXCEPT ![t] = job[t]]
      BY <2>1 DEF Observe, Goto, TypeInv, TurnsOK
    <3>2. /\ pc'[t] = "verify" /\ job'[t] = job[t]
          /\ pc' = [pc EXCEPT ![t] = pc'[t]] /\ job' = [job EXCEPT ![t] = job'[t]]
      BY <3>1 DEF TypeInv, TurnsOK
    <3>4. job'[t] = job[t]
      BY <3>2
    <3>5. TurnOK(t)'
      BY <1>1, <2>1, <3>2, <3>4, RowIndices, NewestPendingRow
      DEF Observe, TypeInv, TurnsOK, TurnOK, RowsOK, RowsGrow, HasProposal, HasDialog,
          Locations, dbVars
    <3>6. QED BY <1>1, <3>2, <3>5, TurnMoves
  <2>2. CASE ~(job[t].ok)
    <3>1. CASE job[t].origin = "planner"
      BY <1>1, <2>2, <3>1, TurnLeaves DEF Observe
    <3>2. CASE job[t].origin # "planner"
      BY <1>1, <2>2, <3>2, TurnLeaves DEF Observe
    <3>3. QED BY <3>1, <3>2
  <2>3. QED BY <2>1, <2>2
<1>4. QED BY <1>1, <1>2, <1>3 DEF TypeInv

LEMMA TypeVerifyCheckpoint ==
    ASSUME TypeInv, NEW t \in Turns, NEW achieved \in BOOLEAN, VerifyCheckpoint(t, achieved)
    PROVE  TypeInv'
<1>1. RowsOK' /\ RowsGrow
  BY DEF VerifyCheckpoint, TypeInv, RowsOK, MemoryOK, RowsGrow, StepStatus
<1>2. MemoryOK'
  BY DEF VerifyCheckpoint, TypeInv, MemoryOK, dbVars, cacheVars, ctxVars
<1>3. TurnsOK'
  BY <1>1, TurnLeaves DEF VerifyCheckpoint
<1>4. QED BY <1>1, <1>2, <1>3 DEF TypeInv

LEMMA TypeVerifyLaunch ==
    ASSUME TypeInv, NEW t \in Turns, NEW achieved \in BOOLEAN, VerifyLaunch(t, achieved)
    PROVE  TypeInv'
<1>1. RowsOK' /\ RowsGrow
  BY DEF VerifyLaunch, TypeInv, RowsOK, MemoryOK, RowsGrow, StepStatus
<1>2. MemoryOK'
  BY DEF VerifyLaunch, TypeInv, MemoryOK, dbVars, cacheVars, ctxVars
<1>3. TurnsOK'
  BY <1>1, TurnLeaves DEF VerifyLaunch
<1>4. QED BY <1>1, <1>2, <1>3 DEF TypeInv

LEMMA TypeAnswerUnrelated ==
    ASSUME TypeInv, NEW t \in Turns, AnswerUnrelated(t)
    PROVE  TypeInv'
<1>1. RowsOK' /\ RowsGrow
  BY DEF AnswerUnrelated, TypeInv, RowsOK, RowsGrow, dbVars
<1>2. MemoryOK'
  BY DEF AnswerUnrelated, TypeInv, MemoryOK, dbVars, cacheVars
<1>3. TurnsOK'
  BY <1>1, TurnLeaves DEF AnswerUnrelated
<1>4. QED BY <1>1, <1>2, <1>3 DEF TypeInv

LEMMA TypeAnswerReject ==
    ASSUME TypeInv, NEW t \in Turns, AnswerReject(t)
    PROVE  TypeInv'
<1>1. RowsOK' /\ RowsGrow
  BY DEF AnswerReject, TypeInv, RowsOK, RowsGrow, dbVars
<1>2. MemoryOK'
  BY DEF AnswerReject, TypeInv, MemoryOK, dbVars, cacheVars
<1>3. TurnsOK'
  <2>1. CASE active
    <3>1. /\ pc' = [pc EXCEPT ![t] = "abandon"]
          /\ job' = [job EXCEPT ![t] = job[t]]
      BY <2>1 DEF AnswerReject, Goto, TypeInv, TurnsOK
    <3>2. /\ pc'[t] = "abandon" /\ job'[t] = job[t]
          /\ pc' = [pc EXCEPT ![t] = pc'[t]] /\ job' = [job EXCEPT ![t] = job'[t]]
      BY <3>1 DEF TypeInv, TurnsOK
    <3>4. job'[t] = job[t]
      BY <3>2
    <3>5. TurnOK(t)'
      BY <1>1, <2>1, <3>2, <3>4, RowIndices, NewestPendingRow
      DEF AnswerReject, TypeInv, TurnsOK, TurnOK, RowsOK, RowsGrow, HasProposal, HasDialog,
          Locations, dbVars
    <3>6. QED BY <1>1, <3>2, <3>5, TurnMoves
  <2>2. CASE ~(active)
    BY <1>1, <2>2, TurnLeaves DEF AnswerReject
  <2>3. QED BY <2>1, <2>2
<1>4. QED BY <1>1, <1>2, <1>3 DEF TypeInv

LEMMA TypeAnswerApprove ==
    ASSUME TypeInv, NEW t \in Turns, AnswerApprove(t)
    PROVE  TypeInv'
<1>1. RowsOK' /\ RowsGrow
  BY DEF AnswerApprove, TypeInv, RowsOK, RowsGrow, dbVars
<1>2. MemoryOK'
  <2>1. NewestPending # 0 => approvals[NewestPending].prop \in saved
    BY RowIndices DEF TypeInv, RowsOK
  <2>2. held' \in TaskStatus \cup {None} /\ checkStep' \in Steps
    BY ConstantsAssumption
    DEF AnswerApprove, AttachNamed, Attach, TypeInv, RowsOK, MemoryOK, cacheVars
  <2>3. lastApr' \in Nat /\ lastProp' \in saved \cup {None}
    BY <2>1, RowIndices DEF AnswerApprove, AttachNamed, Attach, TypeInv, MemoryOK, cacheVars
  <2>4. QED
    BY <2>2, <2>3 DEF AnswerApprove, TypeInv, MemoryOK, dbVars
<1>3. TurnsOK'
  <2> DEFINE ids == slots[job[t].dialog]
             org == IF ids.apr # 0 /\ ids.prop # None THEN "approved" ELSE "unbound"
  <2>1. /\ pc' = [pc EXCEPT ![t] = "granting"]
        /\ job' = [job EXCEPT ![t] = [job[t] EXCEPT !.prop = ids.prop, !.apr = ids.apr,
                                                    !.origin = org]]
    BY DEF AnswerApprove, Goto
  <2>2. /\ pc'[t] = "granting"
        /\ job'[t] = [job[t] EXCEPT !.prop = ids.prop, !.apr = ids.apr, !.origin = org]
        /\ pc' = [pc EXCEPT ![t] = pc'[t]] /\ job' = [job EXCEPT ![t] = job'[t]]
    BY <2>1 DEF TypeInv, TurnsOK
  <2>3. /\ job[t] \in Locals /\ job[t].dialog \in saved
        /\ ids.apr \in Nat /\ ids.prop \in saved \cup {None}
        /\ saved \subseteq Proposals
    BY DEF AnswerApprove, TypeInv, TurnsOK, TurnOK, MemoryOK, RowsOK, HasDialog
  <2>4. org \in Origins /\ (org = "approved" => ids.prop # None)
    BY DEF Origins
  <2> HIDE DEF ids, org
  <2>5. /\ job'[t] \in Locals /\ job'[t].dialog = job[t].dialog
        /\ job'[t].prop = ids.prop /\ job'[t].origin = org
    BY <2>2, <2>3, <2>4 DEF Locals
  <2>6. TurnOK(t)'
    BY <2>2, <2>3, <2>4, <2>5
    DEF AnswerApprove, TurnOK, HasProposal, HasDialog, Locations, dbVars
  <2>7. QED BY <1>1, <2>2, <2>6, TurnMoves
<1>4. QED BY <1>1, <1>2, <1>3 DEF TypeInv

LEMMA TypeGrantRead ==
    ASSUME TypeInv, NEW t \in Turns, GrantRead(t)
    PROVE  TypeInv'
<1>1. RowsOK' /\ RowsGrow
  BY DEF GrantRead, TypeInv, RowsOK, RowsGrow, dbVars
<1>2. MemoryOK'
  BY DEF GrantRead, TypeInv, MemoryOK, dbVars, cacheVars, ctxVars
<1>3. TurnsOK'
  <2> DEFINE i == IF lastApr # 0 THEN lastApr ELSE NewestPending
             ok == i \in PendingApprovals /\ Key[approvals[i].prop] = Key[job[t].dialog]
  <2>1. CASE ok
    <3>1. /\ pc' = [pc EXCEPT ![t] = "grant"]
          /\ job' = [job EXCEPT ![t] = [job[t] EXCEPT !.req = i]]
      BY <2>1 DEF GrantRead, Goto
    <3>2. i \in DOMAIN approvals /\ i \in Nat /\ job[t] \in Locals
      BY <2>1, RowIndices, NewestPendingRow DEF TypeInv, TurnsOK, TurnOK
    <3> HIDE DEF i
    <3>3. /\ pc'[t] = "grant" /\ job'[t] = [job[t] EXCEPT !.req = i]
          /\ pc' = [pc EXCEPT ![t] = pc'[t]] /\ job' = [job EXCEPT ![t] = job'[t]]
      BY <3>1 DEF TypeInv, TurnsOK
    <3>4. /\ job'[t] \in Locals /\ job'[t].req = i
          /\ job'[t].dialog = job[t].dialog /\ job'[t].prop = job[t].prop
          /\ job'[t].origin = job[t].origin
      BY <3>2, <3>3 DEF Locals
    <3>5. TurnOK(t)'
      BY <3>2, <3>3, <3>4
      DEF GrantRead, TypeInv, TurnsOK, TurnOK, HasProposal, HasDialog, Locations, dbVars
    <3>6. QED BY <1>1, <3>3, <3>5, TurnMoves
  <2>2. CASE ~ok
    <3>1. /\ pc' = [pc EXCEPT ![t] = AfterGrant(t)]
          /\ job' = job
      BY <2>2 DEF GrantRead, Goto
    <3>2. /\ pc'[t] = AfterGrant(t) /\ job'[t] = job[t]
          /\ pc' = [pc EXCEPT ![t] = pc'[t]] /\ job' = [job EXCEPT ![t] = job'[t]]
      BY <3>1 DEF TypeInv, TurnsOK
    <3>3. TurnOK(t)'
      BY <3>2 DEF GrantRead, AfterGrant, TypeInv, TurnsOK, TurnOK, HasProposal,
                  HasDialog, Locations, dbVars
    <3>4. QED BY <1>1, <3>2, <3>3, TurnMoves
  <2>3. QED BY <2>1, <2>2
<1>4. QED BY <1>1, <1>2, <1>3 DEF TypeInv

LEMMA TypeGrantWrite ==
    ASSUME TypeInv, NEW t \in Turns, GrantWrite(t)
    PROVE  TypeInv'
<1>1. RowsOK' /\ RowsGrow
  <2>1. RowsOK /\ job[t].req \in DOMAIN approvals
    BY DEF GrantWrite, TypeInv, TurnsOK, TurnOK
  <2>2. approvals' = [approvals EXCEPT ![job[t].req].status = "granted"] /\ "granted" \in ApprovalStatus
    BY DEF GrantWrite, ApprovalStatus
  <2>3. /\ approvals' \in Seq([prop : Proposals, status : ApprovalStatus])
        /\ DOMAIN approvals' = DOMAIN approvals
        /\ \A i \in DOMAIN approvals : approvals'[i].prop = approvals[i].prop
    BY <2>1, <2>2, RequestStatusSet
  <2>4. QED
    BY <2>3 DEF GrantWrite, TypeInv, RowsOK, RowsGrow
<1>2. MemoryOK'
  BY DEF GrantWrite, TypeInv, MemoryOK, dbVars, cacheVars, ctxVars
<1>3. TurnsOK'
  <2>1. /\ pc' = [pc EXCEPT ![t] = "resume"]
        /\ job' = [job EXCEPT ![t] = job[t]]
    BY DEF GrantWrite, Goto, TypeInv, TurnsOK
  <2>2. /\ pc'[t] = "resume"
        /\ job'[t] = job[t]
        /\ pc' = [pc EXCEPT ![t] = pc'[t]] /\ job' = [job EXCEPT ![t] = job'[t]]
    BY <2>1 DEF TypeInv, TurnsOK
  <2>4. job'[t] = job[t]
    BY <2>2
  <2>5. TurnOK(t)'
    BY <1>1, <2>2, <2>4, RowIndices, NewestPendingRow, ConstantsAssumption
    DEF GrantWrite, TypeInv, TurnsOK, TurnOK, RowsOK, RowsGrow, MemoryOK, HasProposal,
        HasDialog, Locations, Origins, dbVars
  <2>6. QED BY <1>1, <2>2, <2>5, TurnMoves
<1>4. QED BY <1>1, <1>2, <1>3 DEF TypeInv

LEMMA TypeResumeTask ==
    ASSUME TypeInv, NEW t \in Turns, ResumeTask(t)
    PROVE  TypeInv'
<1>1. RowsOK' /\ RowsGrow
  BY StatusMoves DEF ResumeTask, TypeInv, RowsOK, MemoryOK, RowsGrow, TaskStatus, WaitingStatus
<1>2. MemoryOK'
  BY StatusMoves, ConstantsAssumption
  DEF ResumeTask, TypeInv, MemoryOK, ctxVars, Moved, TaskStatus, WaitingStatus
<1>3. TurnsOK'
  <2>1. /\ pc' = [pc EXCEPT ![t] = AfterGrant(t)]
        /\ job' = [job EXCEPT ![t] = job[t]]
    BY DEF ResumeTask, Goto, TypeInv, TurnsOK
  <2>2. /\ pc'[t] = AfterGrant(t)
        /\ job'[t] = job[t]
        /\ pc' = [pc EXCEPT ![t] = pc'[t]] /\ job' = [job EXCEPT ![t] = job'[t]]
    BY <2>1 DEF TypeInv, TurnsOK
  <2>4. job'[t] = job[t]
    BY <2>2
  <2>5. TurnOK(t)'
    BY <1>1, <2>2, <2>4, RowIndices, NewestPendingRow, ConstantsAssumption
    DEF ResumeTask, TypeInv, TurnsOK, TurnOK, RowsOK, RowsGrow, MemoryOK, HasProposal,
        HasDialog, Locations, Origins, AfterGrant
  <2>6. QED BY <1>1, <2>2, <2>5, TurnMoves
<1>4. QED BY <1>1, <1>2, <1>3 DEF TypeInv

LEMMA TypeExecuteProposal ==
    ASSUME TypeInv, NEW t \in Turns, ExecuteProposal(t)
    PROVE  TypeInv'
<1>1. RowsOK' /\ RowsGrow
  BY DEF ExecuteProposal, TypeInv, RowsOK, RowsGrow, dbVars
<1>2. MemoryOK'
  BY DEF ExecuteProposal, TypeInv, MemoryOK, dbVars, cacheVars, ctxVars
<1>3. TurnsOK'
  <2>1. CASE ~Succeeded(job[t].prop) /\ Validates(job[t].apr, job[t].prop)
    <3>1. /\ pc' = [pc EXCEPT ![t] = "policy"]
          /\ job' = [job EXCEPT ![t] = job[t]]
      BY <2>1 DEF ExecuteProposal, Goto, TypeInv, TurnsOK
    <3>2. /\ pc'[t] = "policy" /\ job'[t] = job[t]
          /\ pc' = [pc EXCEPT ![t] = pc'[t]] /\ job' = [job EXCEPT ![t] = job'[t]]
      BY <3>1 DEF TypeInv, TurnsOK
    <3>4. job'[t] = job[t]
      BY <3>2
    <3>5. TurnOK(t)'
      BY <1>1, <2>1, <3>2, <3>4, RowIndices, NewestPendingRow
      DEF ExecuteProposal, TypeInv, TurnsOK, TurnOK, RowsOK, RowsGrow, HasProposal, HasDialog,
          Locations, dbVars
    <3>6. QED BY <1>1, <3>2, <3>5, TurnMoves
  <2>2. CASE ~(~Succeeded(job[t].prop) /\ Validates(job[t].apr, job[t].prop))
    BY <1>1, <2>2, TurnLeaves DEF ExecuteProposal
  <2>3. QED BY <2>1, <2>2
<1>4. QED BY <1>1, <1>2, <1>3 DEF TypeInv

LEMMA TypeRepropose ==
    ASSUME TypeInv, NEW t \in Turns, NEW q \in Proposals, Repropose(t, q)
    PROVE  TypeInv'
<1>1. RowsOK' /\ RowsGrow
  BY DEF Repropose, TypeInv, RowsOK, RowsGrow
<1>2. MemoryOK'
  BY <1>1 DEF Repropose, ResolveStep, TypeInv, RowsOK, MemoryOK, RowsGrow, ctxVars
<1>3. TurnsOK'
  <2>1. /\ pc' = [pc EXCEPT ![t] = "policy"]
        /\ job' = [job EXCEPT ![t] = [job[t] EXCEPT !.prop = q]]
    BY DEF Repropose, Goto, TypeInv, TurnsOK
  <2>2. /\ pc'[t] = "policy"
        /\ job'[t] = [job[t] EXCEPT !.prop = q]
        /\ pc' = [pc EXCEPT ![t] = pc'[t]] /\ job' = [job EXCEPT ![t] = job'[t]]
    BY <2>1 DEF TypeInv, TurnsOK
  <2>3. job[t] \in Locals /\ q \in Proposals \cup {None}
    BY RowIndices, ConstantsAssumption
    DEF Repropose, TypeInv, TurnsOK, TurnOK, RowsOK, MemoryOK, HasProposal, HasDialog, Locals, Origins
  <2>4. /\ job'[t] \in Locals
        /\ job'[t].dialog = job[t].dialog /\ job'[t].prop = q /\ job'[t].apr = job[t].apr
        /\ job'[t].origin = job[t].origin /\ job'[t].req = job[t].req /\ job'[t].att = job[t].att
    BY <2>2, <2>3 DEF Locals
  <2>5. TurnOK(t)'
    BY <1>1, <2>2, <2>4, RowIndices, NewestPendingRow, ConstantsAssumption
    DEF Repropose, TypeInv, TurnsOK, TurnOK, RowsOK, RowsGrow, MemoryOK, HasProposal,
        HasDialog, Locations, Origins, dbVars
  <2>6. QED BY <1>1, <2>2, <2>5, TurnMoves
<1>4. QED BY <1>1, <1>2, <1>3 DEF TypeInv

LEMMA TypeAbandonRead ==
    ASSUME TypeInv, NEW t \in Turns, AbandonRead(t)
    PROVE  TypeInv'
<1>1. RowsOK' /\ RowsGrow
  BY DEF AbandonRead, TypeInv, RowsOK, RowsGrow, dbVars
<1>2. MemoryOK'
  BY DEF AbandonRead, TypeInv, MemoryOK, dbVars, cacheVars, ctxVars
<1>3. TurnsOK'
  <2>1. /\ pc' = [pc EXCEPT ![t] = IF NewestPending # 0 THEN "deny" ELSE "cancel"]
        /\ job' = [job EXCEPT ![t] = [job[t] EXCEPT !.task = taskRow, !.apr = NewestPending]]
    BY DEF AbandonRead, Goto, TypeInv, TurnsOK
  <2>2. /\ pc'[t] = IF NewestPending # 0 THEN "deny" ELSE "cancel"
        /\ job'[t] = [job[t] EXCEPT !.task = taskRow, !.apr = NewestPending]
        /\ pc' = [pc EXCEPT ![t] = pc'[t]] /\ job' = [job EXCEPT ![t] = job'[t]]
    BY <2>1 DEF TypeInv, TurnsOK
  <2>3. job[t] \in Locals /\ taskRow \in TaskStatus /\ NewestPending \in Nat
    BY RowIndices, ConstantsAssumption
    DEF AbandonRead, TypeInv, TurnsOK, TurnOK, RowsOK, MemoryOK, HasProposal, HasDialog, Locals, Origins
  <2>4. /\ job'[t] \in Locals
        /\ job'[t].dialog = job[t].dialog /\ job'[t].prop = job[t].prop /\ job'[t].apr = NewestPending
        /\ job'[t].origin = job[t].origin /\ job'[t].req = job[t].req /\ job'[t].att = job[t].att
    BY <2>2, <2>3 DEF Locals
  <2>5. TurnOK(t)'
    BY <1>1, <2>2, <2>4, RowIndices, NewestPendingRow, ConstantsAssumption
    DEF AbandonRead, TypeInv, TurnsOK, TurnOK, RowsOK, RowsGrow, MemoryOK, HasProposal,
        HasDialog, Locations, Origins, dbVars
  <2>6. QED BY <1>1, <2>2, <2>5, TurnMoves
<1>4. QED BY <1>1, <1>2, <1>3 DEF TypeInv

LEMMA TypeAbandonDeny ==
    ASSUME TypeInv, NEW t \in Turns, AbandonDeny(t)
    PROVE  TypeInv'
<1>1. RowsOK' /\ RowsGrow
  <2>1. RowsOK /\ job[t].apr \in DOMAIN approvals
    BY DEF AbandonDeny, TypeInv, TurnsOK, TurnOK
  <2>2. approvals' = [approvals EXCEPT ![job[t].apr].status = "denied"] /\ "denied" \in ApprovalStatus
    BY DEF AbandonDeny, ApprovalStatus
  <2>3. /\ approvals' \in Seq([prop : Proposals, status : ApprovalStatus])
        /\ DOMAIN approvals' = DOMAIN approvals
        /\ \A i \in DOMAIN approvals : approvals'[i].prop = approvals[i].prop
    BY <2>1, <2>2, RequestStatusSet
  <2>4. QED
    BY <2>3 DEF AbandonDeny, TypeInv, RowsOK, RowsGrow
<1>2. MemoryOK'
  BY DEF AbandonDeny, TypeInv, MemoryOK, dbVars, cacheVars, ctxVars
<1>3. TurnsOK'
  <2>1. /\ pc' = [pc EXCEPT ![t] = "cancel"]
        /\ job' = [job EXCEPT ![t] = job[t]]
    BY DEF AbandonDeny, Goto, TypeInv, TurnsOK
  <2>2. /\ pc'[t] = "cancel"
        /\ job'[t] = job[t]
        /\ pc' = [pc EXCEPT ![t] = pc'[t]] /\ job' = [job EXCEPT ![t] = job'[t]]
    BY <2>1 DEF TypeInv, TurnsOK
  <2>4. job'[t] = job[t]
    BY <2>2
  <2>5. TurnOK(t)'
    BY <1>1, <2>2, <2>4, RowIndices, NewestPendingRow, ConstantsAssumption
    DEF AbandonDeny, TypeInv, TurnsOK, TurnOK, RowsOK, RowsGrow, MemoryOK, HasProposal,
        HasDialog, Locations, Origins, dbVars
  <2>6. QED BY <1>1, <2>2, <2>5, TurnMoves
<1>4. QED BY <1>1, <1>2, <1>3 DEF TypeInv

LEMMA TypeAbandonCancel ==
    ASSUME TypeInv, NEW t \in Turns, AbandonCancel(t)
    PROVE  TypeInv'
<1>1. RowsOK' /\ RowsGrow
  BY StatusMoves DEF AbandonCancel, TypeInv, RowsOK, MemoryOK, RowsGrow, TaskStatus, WaitingStatus
<1>2. MemoryOK'
  BY DEF AbandonCancel, TypeInv, MemoryOK, cacheVars
<1>3. TurnsOK'
  BY <1>1, TurnLeaves DEF AbandonCancel
<1>4. QED BY <1>1, <1>2, <1>3 DEF TypeInv

LEMMA TypeRecoveryCommand ==
    ASSUME TypeInv, NEW t \in Turns, RecoveryCommand(t)
    PROVE  TypeInv'
<1>1. RowsOK' /\ RowsGrow
  BY StatusMoves DEF RecoveryCommand, TypeInv, RowsOK, MemoryOK, RowsGrow, TaskStatus, WaitingStatus
<1>2. MemoryOK'
  BY DEF RecoveryCommand, TypeInv, MemoryOK, cacheVars
<1>3. TurnsOK'
  <2>1. /\ pc' = [pc EXCEPT ![t] = IF taskRow \in Over THEN "route" ELSE "recovery"]
        /\ job' = [job EXCEPT ![t] = job[t]]
    BY DEF RecoveryCommand, Goto, TypeInv, TurnsOK
  <2>2. /\ pc'[t] = IF taskRow \in Over THEN "route" ELSE "recovery"
        /\ job'[t] = job[t]
        /\ pc' = [pc EXCEPT ![t] = pc'[t]] /\ job' = [job EXCEPT ![t] = job'[t]]
    BY <2>1 DEF TypeInv, TurnsOK
  <2>4. job'[t] = job[t]
    BY <2>2
  <2>5. TurnOK(t)'
    BY <1>1, <2>2, <2>4, RowIndices, NewestPendingRow, ConstantsAssumption
    DEF RecoveryCommand, TypeInv, TurnsOK, TurnOK, RowsOK, RowsGrow, MemoryOK, HasProposal,
        HasDialog, Locations, Origins, dbVars
  <2>6. QED BY <1>1, <2>2, <2>5, TurnMoves
<1>4. QED BY <1>1, <1>2, <1>3 DEF TypeInv

LEMMA TypeRecoveryCancel ==
    ASSUME TypeInv, NEW t \in Turns, RecoveryCancel(t)
    PROVE  TypeInv'
<1>1. RowsOK' /\ RowsGrow
  BY DEF RecoveryCancel, TypeInv, RowsOK, RowsGrow, dbVars
<1>2. MemoryOK'
  BY DEF RecoveryCancel, TypeInv, MemoryOK, dbVars, cacheVars, ctxVars
<1>3. TurnsOK'
  <2>1. /\ pc' = [pc EXCEPT ![t] = "abandon"]
        /\ job' = [job EXCEPT ![t] = [job[t] EXCEPT !.quits = TRUE]]
    BY DEF RecoveryCancel, Goto, TypeInv, TurnsOK
  <2>2. /\ pc'[t] = "abandon"
        /\ job'[t] = [job[t] EXCEPT !.quits = TRUE]
        /\ pc' = [pc EXCEPT ![t] = pc'[t]] /\ job' = [job EXCEPT ![t] = job'[t]]
    BY <2>1 DEF TypeInv, TurnsOK
  <2>3. job[t] \in Locals /\ TRUE \in BOOLEAN
    BY RowIndices, ConstantsAssumption
    DEF RecoveryCancel, TypeInv, TurnsOK, TurnOK, RowsOK, MemoryOK, HasProposal, HasDialog, Locals, Origins
  <2>4. /\ job'[t] \in Locals
        /\ job'[t].dialog = job[t].dialog /\ job'[t].prop = job[t].prop /\ job'[t].apr = job[t].apr
        /\ job'[t].origin = job[t].origin /\ job'[t].req = job[t].req /\ job'[t].att = job[t].att
    BY <2>2, <2>3 DEF Locals
  <2>5. TurnOK(t)'
    BY <1>1, <2>2, <2>4, RowIndices, NewestPendingRow, ConstantsAssumption
    DEF RecoveryCancel, TypeInv, TurnsOK, TurnOK, RowsOK, RowsGrow, MemoryOK, HasProposal,
        HasDialog, Locations, Origins, dbVars
  <2>6. QED BY <1>1, <2>2, <2>5, TurnMoves
<1>4. QED BY <1>1, <1>2, <1>3 DEF TypeInv

LEMMA TypeRecoveryContinue ==
    ASSUME TypeInv, NEW t \in Turns, RecoveryContinue(t)
    PROVE  TypeInv'
<1>1. RowsOK' /\ RowsGrow
  BY DEF RecoveryContinue, TypeInv, RowsOK, RowsGrow, dbVars
<1>2. MemoryOK'
  BY DEF RecoveryContinue, TypeInv, MemoryOK, dbVars, cacheVars, ctxVars
<1>3. TurnsOK'
  <2>1. CASE taskRow \in Recoverable
    <3>1. /\ pc' = [pc EXCEPT ![t] = "reopen"]
          /\ job' = [job EXCEPT ![t] = [job[t] EXCEPT !.task = taskRow, !.apr = NewestPending]]
      BY <2>1 DEF RecoveryContinue, Goto, TypeInv, TurnsOK
    <3>2. /\ pc'[t] = "reopen" /\ job'[t] = [job[t] EXCEPT !.task = taskRow, !.apr = NewestPending]
          /\ pc' = [pc EXCEPT ![t] = pc'[t]] /\ job' = [job EXCEPT ![t] = job'[t]]
      BY <3>1 DEF TypeInv, TurnsOK
    <3>3. job[t] \in Locals /\ taskRow \in TaskStatus /\ NewestPending \in Nat
      BY RowIndices DEF TypeInv, TurnsOK, TurnOK, RowsOK
    <3>4. /\ job'[t] \in Locals
          /\ job'[t].dialog = job[t].dialog /\ job'[t].prop = job[t].prop /\ job'[t].apr = NewestPending
          /\ job'[t].origin = job[t].origin /\ job'[t].req = job[t].req /\ job'[t].att = job[t].att
      BY <3>2, <3>3 DEF Locals
    <3>5. TurnOK(t)'
      BY <1>1, <2>1, <3>2, <3>4, RowIndices, NewestPendingRow
      DEF RecoveryContinue, TypeInv, TurnsOK, TurnOK, RowsOK, RowsGrow, HasProposal, HasDialog,
          Locations, dbVars
    <3>6. QED BY <1>1, <3>2, <3>5, TurnMoves
  <2>2. CASE ~(taskRow \in Recoverable)
    BY <1>1, <2>2, TurnLeaves DEF RecoveryContinue
  <2>3. QED BY <2>1, <2>2
<1>4. QED BY <1>1, <1>2, <1>3 DEF TypeInv

LEMMA TypeRecoveryResume ==
    ASSUME TypeInv, NEW t \in Turns, RecoveryResume(t)
    PROVE  TypeInv'
<1>1. RowsOK' /\ RowsGrow /\ taskRow' \in TaskStatus
  BY StatusMoves DEF RecoveryResume, TypeInv, RowsOK, RowsGrow, TaskStatus, WaitingStatus
<1>2. MemoryOK'
  <2>1. CASE job[t].task = "waiting_approval" /\ job[t].apr # 0
    <3>1. approvals[job[t].apr].prop \in saved /\ job[t].apr \in Nat
      BY <2>1, RowIndices DEF RecoveryResume, TypeInv, RowsOK, TurnsOK, TurnOK
    <3>2. /\ pending' = approvals[job[t].apr].prop
          /\ slots' = [slots EXCEPT ![approvals[job[t].apr].prop] =
                          [apr |-> job[t].apr, prop |-> approvals[job[t].apr].prop]]
          /\ saved' = saved /\ active' = active /\ UNCHANGED cacheVars
      BY <2>1 DEF RecoveryResume
    <3>3. QED
      BY <3>1, <3>2 DEF TypeInv, RowsOK, MemoryOK, cacheVars
  <2>2. CASE ~(job[t].task = "waiting_approval" /\ job[t].apr # 0)
    <3>1. NewestPending # 0 => approvals[NewestPending].prop \in saved
      BY RowIndices DEF TypeInv, RowsOK
    <3>2. QED
      BY <1>1, <2>2, <3>1, RowIndices, ConstantsAssumption
      DEF RecoveryResume, Attach, TypeInv, MemoryOK
  <2>3. QED BY <2>1, <2>2
<1>3. TurnsOK'
  <2>1. CASE job[t].task = "waiting_approval" /\ job[t].apr # 0
    BY <1>1, <2>1, TurnLeaves DEF RecoveryResume
  <2>2. CASE ~(job[t].task = "waiting_approval" /\ job[t].apr # 0)
    BY <1>1, <2>2, TurnLeaves DEF RecoveryResume
  <2>3. QED BY <2>1, <2>2
<1>4. QED BY <1>1, <1>2, <1>3 DEF TypeInv

LEMMA TypeRestart == ASSUME TypeInv, Restart PROVE TypeInv'
<1>1. RowsOK'
  BY ConstantsAssumption DEF Restart, TypeInv, RowsOK, TaskStatus, WaitingStatus
<1>2. MemoryOK'
  BY ConstantsAssumption DEF Restart, TypeInv, MemoryOK, NoIds
<1>3. TurnsOK'
  BY IdleLocals, ConstantsAssumption
  DEF Restart, TurnsOK, TurnOK, HasProposal, HasDialog, Locations
<1>4. QED BY <1>1, <1>2, <1>3 DEF TypeInv

LEMMA TypeInit == Init => TypeInv
<1> SUFFICES ASSUME Init PROVE TypeInv
  OBVIOUS
<1>1. RowsOK
  BY ConstantsAssumption DEF Init, RowsOK, StepStatus, TaskStatus
<1>2. MemoryOK
  BY ConstantsAssumption DEF Init, MemoryOK, TaskStatus, NoIds
<1>3. TurnsOK
  BY IdleLocals, ConstantsAssumption
  DEF Init, TurnsOK, TurnOK, HasProposal, HasDialog, Locations
<1>4. QED BY <1>1, <1>2, <1>3 DEF TypeInv

-----------------------------------------------------------------------------
(* The steps of one turn.                                                   *)

\* No other turn moves.
Others(t) == \A u \in Turns \ {t} : pc'[u] = pc[u] /\ job'[u] = job[u]

LEMMA OneTurnMoves ==
    ASSUME TypeInv, NEW t \in Turns,
           Route(t) \/ Plan(t) \/ Run(t) \/ Answer(t) \/ Abandon(t) \/ Recover(t)
    PROVE  Others(t)
<1> USE DEF Others, Goto, Leave, TypeInv, TurnsOK
<1>1. CASE Route(t)
  BY <1>1 DEF Route, BeginTurn, Chat, RunGoal, LlmUnavailable
<1>2. CASE Plan(t)
  BY <1>2 DEF Plan, StartSession, Propose, PolicyDeny, MarkWaiting, CreateRequest,
              SuspendForApproval, BindDialog
<1>3. CASE Run(t)
  BY <1>3 DEF Run, MarkStarted, SaveAttempt, RecordAttempt, Observe, RunTool,
              VerifyCheckpoint, VerifyLaunch, SkipVerify, FinishSession
<1>4. CASE Answer(t)
  BY <1>4 DEF Answer, AnswerClarify, AnswerUnrelated, AnswerReject, AnswerApprove,
              GrantRead, GrantWrite, ResumeTask, ExecuteProposal, Repropose
<1>5. CASE Abandon(t)
  BY <1>5 DEF Abandon, AbandonRead, AbandonDeny, AbandonCancel
<1>6. CASE Recover(t)
  BY <1>6 DEF Recover, RecoveryCommand, RecoveryStatus, RecoveryCancel,
              RecoveryContinue, RecoveryResume
<1>7. QED BY <1>1, <1>2, <1>3, <1>4, <1>5, <1>6

LEMMA TypeTurn ==
    ASSUME TypeInv, NEW t \in Turns,
           Route(t) \/ Plan(t) \/ Run(t) \/ Answer(t) \/ Abandon(t) \/ Recover(t)
    PROVE  TypeInv'
<1>1. CASE Route(t)
  BY <1>1, TypeBeginTurn, TypeChat, TypeRunGoal, TypeLlmUnavailable DEF Route
<1>2. CASE Plan(t)
  BY <1>2, TypeStartSession, TypePropose, TypePolicyDeny, TypeMarkWaiting, TypeCreateRequest,
     TypeSuspendForApproval, TypeBindDialog
  DEF Plan
<1>3. CASE Run(t)
  BY <1>3, TypeMarkStarted, TypeSaveAttempt, TypeRecordAttempt, TypeObserve,
     TypeRunTool, TypeVerifyCheckpoint, TypeVerifyLaunch, TypeSkipVerify,
     TypeFinishSession
  DEF Run
<1>4. CASE Answer(t)
  BY <1>4, TypeAnswerClarify, TypeAnswerUnrelated, TypeAnswerReject,
     TypeAnswerApprove, TypeGrantRead, TypeGrantWrite, TypeResumeTask,
     TypeExecuteProposal, TypeRepropose
  DEF Answer
<1>5. CASE Abandon(t)
  BY <1>5, TypeAbandonRead, TypeAbandonDeny, TypeAbandonCancel DEF Abandon
<1>6. CASE Recover(t)
  BY <1>6, TypeRecoveryCommand, TypeRecoveryStatus, TypeRecoveryCancel,
     TypeRecoveryContinue, TypeRecoveryResume
  DEF Recover
<1>7. QED BY <1>1, <1>2, <1>3, <1>4, <1>5, <1>6

LEMMA TypeStep == TypeInv /\ [Next]_vars => TypeInv'
<1> SUFFICES ASSUME TypeInv, [Next]_vars PROVE TypeInv'
  OBVIOUS
<1>1. CASE Next
  BY <1>1, TypeTurn, TypeRestart DEF Next
<1>2. CASE UNCHANGED vars
  BY <1>2 DEF vars, dbVars, cacheVars, ctxVars, TypeInv, RowsOK, MemoryOK, TurnsOK,
              TurnOK, HasProposal, HasDialog
<1>3. QED BY <1>1, <1>2

-----------------------------------------------------------------------------
(* Why a proposal may be run.                                               *)

\* A turn is taking p from the planner to the policy or to a request.
Asking(t, p) == /\ job[t].prop = p /\ job[t].origin = "planner"
                /\ pc[t] \in {"policy", "request"}

\* The reason to run a proposal outlives every step: requests are not deleted
\* or redirected, a grant is not forgotten, and a proposal that was saved without
\* a request gets none.
LEMMA MayRunKept ==
    ASSUME TypeInv, saved \subseteq saved', granted \subseteq granted',
           \A i \in DOMAIN approvals :
                i \in DOMAIN approvals' /\ approvals'[i].prop = approvals[i].prop,
           \A i \in DOMAIN approvals' \ DOMAIN approvals :
                \E t \in Turns : Asking(t, approvals'[i].prop),
           \A t \in Turns, p \in saved : Asking(t, p)' => Asking(t, p),
           NEW p, MayRun(p)
    PROVE  MayRun(p)'
<1>1. CASE p \notin Critical
  BY <1>1 DEF MayRun
<1>2. CASE Authorised(p)
  BY <1>2 DEF MayRun, Authorised, TypeInv, RowsOK
<1>3. CASE Unrequested(p)
  <2>1. p \in saved' /\ \A t \in Turns : ~Asking(t, p) /\ ~Asking(t, p)'
    BY <1>3 DEF Unrequested, Asking
  <2>2. Requests(p)' = {}
    BY <1>3, <2>1 DEF Unrequested, Requests
  <2>3. QED BY <2>1, <2>2 DEF MayRun, Unrequested, Asking
<1>4. QED BY <1>1, <1>2, <1>3 DEF MayRun

\* The step of turn t keeps the invariant if it keeps the reasons, the rows and
\* what it has itself in hand.
LEMMA AuthMoves ==
    ASSUME TypeInv, AuthInv, NEW t \in Turns, Others(t),
           \A p : MayRun(p) => MayRun(p)', AuthRows', AuthTurn(t)', ran' = ran
    PROVE  AuthInv'
<1>1. ASSUME NEW u \in Turns, u # t PROVE AuthTurn(u)'
  BY <1>1 DEF AuthInv, AuthTurn, Cleared, Others
<1>2. QED BY <1>1 DEF AuthInv

\* The steps that bring no proposal closer to a call.
Quiet(t) ==
    \/ BeginTurn(t) \/ Chat(t) \/ RunGoal(t) \/ LlmUnavailable(t)
    \/ \E full \in BOOLEAN : StartSession(t, full)
    \/ PolicyDeny(t) \/ SuspendForApproval(t) \/ BindDialog(t)
    \/ RecordAttempt(t) \/ Observe(t) \/ SkipVerify(t)
    \/ \E ok \in BOOLEAN : VerifyCheckpoint(t, ok) \/ VerifyLaunch(t, ok)
    \/ \E exit \in {"success", "failure", "max_steps"} : FinishSession(t, exit)
    \/ AnswerClarify(t) \/ AnswerUnrelated(t) \/ AnswerReject(t)
    \/ AbandonRead(t) \/ AbandonCancel(t) \/ Recover(t)

LEMMA AuthQuiet ==
    ASSUME TypeInv, AuthInv, NEW t \in Turns, Others(t), Quiet(t)
    PROVE  AuthInv'
<1>1. UNCHANGED <<saved, approvals, granted, ran>>
  BY DEF Quiet, BeginTurn, Chat, RunGoal, LlmUnavailable, PolicyDeny,
         StartSession, SuspendForApproval, BindDialog, RecordAttempt, Observe, SkipVerify,
         VerifyCheckpoint, VerifyLaunch, FinishSession, AnswerClarify,
         AnswerUnrelated, AnswerReject, AbandonRead, AbandonCancel, Recover,
         RecoveryCommand, RecoveryStatus, RecoveryCancel, RecoveryContinue,
         RecoveryResume, dbVars
<1>2. pc'[t] \notin {"policy", "request", "granting", "grant", "resume", "check",
                     "repropose", "attempt", "run"}
  BY DEF Quiet, BeginTurn, Chat, RunGoal, LlmUnavailable, PolicyDeny,
         StartSession, SuspendForApproval, BindDialog, RecordAttempt, Observe, SkipVerify,
         VerifyCheckpoint, VerifyLaunch, FinishSession, AnswerClarify,
         AnswerUnrelated, AnswerReject, AbandonRead, AbandonCancel, Recover,
         RecoveryCommand, RecoveryStatus, RecoveryCancel, RecoveryContinue,
         RecoveryResume, Goto, Leave, TypeInv, TurnsOK
<1>3. \A u \in Turns, p \in saved : Asking(u, p)' => Asking(u, p)
  BY <1>2 DEF Others, Asking
<1>4. \A p : MayRun(p) => MayRun(p)'
  BY <1>1, <1>3, MayRunKept
<1>5. AuthTurn(t)' /\ AuthRows'
  BY <1>1, <1>2 DEF AuthTurn, Cleared, AuthInv, AuthRows
<1>6. QED BY <1>1, <1>4, <1>5, AuthMoves

\* A step of t that leaves requests and calls alone, and neither starts asking
\* about a saved proposal nor forgets that it asks about one.
LEMMA AuthLocal ==
    ASSUME TypeInv, AuthInv, NEW t \in Turns, Others(t), AuthTurn(t)',
           saved \subseteq saved', UNCHANGED <<approvals, granted, ran>>,
           \A p \in saved : Asking(t, p)' => Asking(t, p)
    PROVE  AuthInv'
<1>1. \A u \in Turns, p \in saved : Asking(u, p)' => Asking(u, p)
  BY DEF Others, Asking
<1>2. \A p : MayRun(p) => MayRun(p)'
  BY <1>1, MayRunKept
<1>3. AuthRows'
  BY DEF AuthInv, AuthRows
<1>4. QED BY <1>2, <1>3, AuthMoves

\* The same premises, for what a step of t must show of itself.
LEMMA MayRunLocal ==
    ASSUME TypeInv, NEW t \in Turns, Others(t), saved \subseteq saved',
           UNCHANGED <<approvals, granted, ran>>,
           \A p \in saved : Asking(t, p)' => Asking(t, p),
           NEW q, MayRun(q)
    PROVE  MayRun(q)'
<1>1. \A u \in Turns, p \in saved : Asking(u, p)' => Asking(u, p)
  BY DEF Others, Asking
<1>2. QED BY <1>1, MayRunKept

\* A proposal saved just now has no request, and no other turn knows it.
LEMMA FreshMayRun ==
    ASSUME TypeInv, NEW t \in Turns, Others(t), NEW p \in Proposals \ saved,
           saved' = saved \cup {p}, approvals' = approvals, job'[t].origin # "planner"
    PROVE  MayRun(p)'
<1>1. Requests(p)' = {}
  BY DEF Requests, TypeInv, RowsOK
<1>2. \A u \in Turns : ~Asking(u, p)'
  BY DEF Asking, Others, TypeInv, TurnsOK, TurnOK, HasProposal
<1>3. QED BY <1>1, <1>2 DEF MayRun, Unrequested, Asking

LEMMA AuthFresh ==
    ASSUME TypeInv, AuthInv, NEW t \in Turns, Others(t), NEW p \in Proposals,
           Propose(t, p) \/ Repropose(t, p)
    PROVE  AuthInv'
<1>1. /\ pc'[t] = "policy" /\ p \notin saved /\ saved' = saved \cup {p}
      /\ job'[t] = [job[t] EXCEPT !.prop = p]
      /\ UNCHANGED <<approvals, granted, ran>>
  BY DEF Propose, Repropose, Goto, TypeInv, TurnsOK
<1>2. job[t] \in Locals /\ p \in Proposals \cup {None}
  BY DEF TypeInv, TurnsOK, TurnOK
<1>3. job'[t].prop = p
  BY <1>1, <1>2 DEF Locals
<1>4. AuthTurn(t)'
  BY <1>1, <1>3, FreshMayRun DEF AuthTurn, Cleared
<1>5. \A q \in saved : Asking(t, q)' => Asking(t, q)
  BY <1>1, <1>3 DEF Asking
<1>6. QED BY <1>1, <1>4, <1>5, AuthLocal

LEMMA AuthMarkWaiting ==
    ASSUME TypeInv, AuthInv, NEW t \in Turns, Others(t), MarkWaiting(t)
    PROVE  AuthInv'
<1>1. /\ pc[t] = "policy" /\ pc'[t] = "request" /\ job' = job /\ NeedsApproval(t)
      /\ UNCHANGED <<saved, approvals, granted, ran>>
  BY DEF MarkWaiting, Goto, TypeInv, TurnsOK
<1>2. AuthTurn(t)' /\ \A p \in saved : Asking(t, p)' => Asking(t, p)
  BY <1>1 DEF AuthTurn, Cleared, Asking, NeedsApproval
<1>3. QED BY <1>1, <1>2, AuthLocal

LEMMA AuthCreateRequest ==
    ASSUME TypeInv, AuthInv, NEW t \in Turns, Others(t), CreateRequest(t)
    PROVE  AuthInv'
<1> DEFINE row == [prop |-> job[t].prop, status |-> "pending"]
<1>1. /\ pc[t] = "request" /\ pc'[t] = "suspend"
      /\ approvals' = Append(approvals, row)
      /\ UNCHANGED <<saved, granted, ran>>
  BY DEF CreateRequest, Goto, TypeInv, TurnsOK
<1>2. row \in [prop : Proposals, status : ApprovalStatus]
  BY <1>1 DEF TypeInv, TurnsOK, TurnOK, RowsOK, HasProposal, ApprovalStatus
<1>3. /\ DOMAIN approvals = 1..Len(approvals) /\ Len(approvals) \in Nat
      /\ DOMAIN approvals' = 1..(Len(approvals) + 1)
      /\ \A i \in DOMAIN approvals : approvals'[i] = approvals[i]
      /\ approvals'[Len(approvals) + 1] = row
  BY <1>1, <1>2, RowIndices, AppendProperties DEF TypeInv, RowsOK
<1>4. /\ \A i \in DOMAIN approvals : i \in DOMAIN approvals'
      /\ \A i \in DOMAIN approvals' \ DOMAIN approvals : i = Len(approvals) + 1
  BY <1>3
<1>5. Asking(t, row.prop)
  BY <1>1 DEF Asking, AuthInv, AuthTurn
<1>6. \A u \in Turns, p \in saved : Asking(u, p)' => Asking(u, p)
  BY <1>1 DEF Asking, Others
<1>7. \A p : MayRun(p) => MayRun(p)'
  BY <1>1, <1>3, <1>4, <1>5, <1>6, MayRunKept
<1>8. AuthRows'
  BY <1>1, <1>3, <1>4 DEF AuthInv, AuthTurn, AuthRows
<1>9. AuthTurn(t)'
  BY <1>1 DEF AuthTurn, Cleared
<1>10. QED BY <1>1, <1>7, <1>8, <1>9, AuthMoves

LEMMA AuthMarkStarted ==
    ASSUME TypeInv, AuthInv, NEW t \in Turns, Others(t), MarkStarted(t)
    PROVE  AuthInv'
<1>1. /\ pc[t] = "policy" /\ pc'[t] = "attempt" /\ job' = job
      /\ job[t].prop \notin Denied /\ ~NeedsApproval(t)
      /\ UNCHANGED <<saved, approvals, granted, ran>>
  BY DEF MarkStarted, Goto, TypeInv, TurnsOK
<1>2. MayRun(job[t].prop)
  BY <1>1 DEF AuthInv, AuthTurn, Cleared, NeedsApproval, MayRun
<1>3. \A p \in saved : Asking(t, p)' => Asking(t, p)
  BY <1>1 DEF Asking
<1>4. AuthTurn(t)'
  BY <1>1, <1>2, <1>3, MayRunLocal DEF AuthTurn
<1>5. QED BY <1>1, <1>3, <1>4, AuthLocal

LEMMA AuthSaveAttempt ==
    ASSUME TypeInv, AuthInv, NEW t \in Turns, Others(t), SaveAttempt(t)
    PROVE  AuthInv'
<1>1. /\ pc[t] = "attempt" /\ pc'[t] = "run"
      /\ job'[t] = [job[t] EXCEPT !.att = Len(attempts[job[t].prop]) + 1]
      /\ UNCHANGED <<saved, approvals, granted, ran>>
  BY DEF SaveAttempt, Goto, TypeInv, TurnsOK
<1>2. job'[t].prop = job[t].prop
  BY <1>1 DEF TypeInv, TurnsOK, TurnOK, Locals
<1>3. MayRun(job[t].prop)
  BY <1>1 DEF AuthInv, AuthTurn, Cleared
<1>4. \A p \in saved : Asking(t, p)' => Asking(t, p)
  BY <1>1 DEF Asking
<1>5. AuthTurn(t)'
  BY <1>1, <1>2, <1>3, <1>4, MayRunLocal DEF AuthTurn
<1>6. QED BY <1>1, <1>4, <1>5, AuthLocal

LEMMA AuthRunTool ==
    ASSUME TypeInv, AuthInv, NEW t \in Turns, Others(t), NEW ok \in BOOLEAN,
           RunTool(t, ok)
    PROVE  AuthInv'
<1>1. /\ pc[t] = "run" /\ pc'[t] = "record"
      /\ ran' = ran \cup {<<job[t].prop, job[t].att>>}
      /\ UNCHANGED <<saved, approvals, granted>>
  BY DEF RunTool, Goto, TypeInv, TurnsOK, dbVars
<1>2. \A u \in Turns, p \in saved : Asking(u, p)' => Asking(u, p)
  BY <1>1 DEF Asking, Others
<1>3. \A p : MayRun(p) => MayRun(p)'
  BY <1>1, <1>2, MayRunKept
<1>4. MayRun(job[t].prop)
  BY <1>1 DEF AuthInv, AuthTurn, Cleared
<1>5. \A c \in ran' : MayRun(c[1])'
  BY <1>1, <1>3, <1>4 DEF AuthInv
<1>6. AuthTurn(t)' /\ AuthRows'
  BY <1>1 DEF AuthTurn, Cleared, AuthInv, AuthRows
<1>7. ASSUME NEW u \in Turns, u # t PROVE AuthTurn(u)'
  BY <1>3, <1>7 DEF AuthInv, AuthTurn, Cleared, Others
<1>8. QED BY <1>5, <1>6, <1>7 DEF AuthInv

LEMMA AuthAnswer ==
    ASSUME TypeInv, AuthInv, NEW t \in Turns, Others(t),
           AnswerApprove(t) \/ GrantRead(t) \/ ResumeTask(t)
    PROVE  AuthInv'
<1>1. job[t] \in Locals
  BY DEF TypeInv, TurnsOK, TurnOK
<1>2. /\ pc'[t] \in {"granting", "grant", "check", "repropose"}
      /\ UNCHANGED <<saved, approvals, granted, ran>>
  BY DEF AnswerApprove, GrantRead, ResumeTask, AfterGrant, Goto, TypeInv, TurnsOK,
         dbVars
<1>3. job'[t].origin # "planner"
  <2>1. CASE AnswerApprove(t)
    <3> DEFINE ids == slots[job[t].dialog]
               org == IF ids.apr # 0 /\ ids.prop # None THEN "approved" ELSE "unbound"
    <3>1. job'[t] = [job[t] EXCEPT !.prop = ids.prop, !.apr = ids.apr, !.origin = org]
      BY <2>1 DEF AnswerApprove, TypeInv, TurnsOK
    <3>2. org # "planner"
      OBVIOUS
    <3> HIDE DEF ids, org
    <3>3. job'[t].origin = org
      BY <1>1, <3>1 DEF Locals
    <3>4. QED BY <3>2, <3>3
  <2>2. CASE GrantRead(t)
    <3>1. job[t].origin # "planner"
      BY <2>2 DEF GrantRead, AuthInv, AuthTurn
    <3>2. job'[t].origin = job[t].origin
      BY <1>1, <2>2 DEF GrantRead, TypeInv, TurnsOK, Locals
    <3>3. QED BY <3>1, <3>2
  <2>3. CASE ResumeTask(t)
    BY <2>3 DEF ResumeTask, AuthInv, AuthTurn
  <2>4. QED BY <2>1, <2>2, <2>3
<1>4. AuthTurn(t)' /\ \A p \in saved : Asking(t, p)' => Asking(t, p)
  BY <1>2, <1>3 DEF AuthTurn, Cleared, Asking
<1>5. QED BY <1>2, <1>4, AuthLocal

LEMMA AuthStatusSet ==
    ASSUME TypeInv, AuthInv, NEW t \in Turns, Others(t),
           GrantWrite(t) \/ AbandonDeny(t)
    PROVE  AuthInv'
<1>1. /\ pc'[t] \in {"resume", "cancel"} /\ job' = job
      /\ pc'[t] = "resume" => job[t].origin # "planner"
      /\ UNCHANGED <<saved, ran>> /\ granted \subseteq granted'
  BY DEF GrantWrite, AbandonDeny, Goto, TypeInv, TurnsOK, AuthInv, AuthTurn
<1>2. /\ DOMAIN approvals' = DOMAIN approvals
      /\ \A i \in DOMAIN approvals :
            /\ approvals'[i].prop = approvals[i].prop
            /\ approvals'[i].status = "granted" =>
                  approvals[i].status = "granted" \/ i \in granted'
  <2>1. CASE GrantWrite(t)
    <3>1. /\ RowsOK /\ job[t].req \in DOMAIN approvals
          /\ approvals' = [approvals EXCEPT ![job[t].req].status = "granted"]
          /\ "granted" \in ApprovalStatus /\ job[t].req \in granted'
      BY <2>1 DEF GrantWrite, TypeInv, TurnsOK, TurnOK, ApprovalStatus
    <3>2. QED BY <3>1, RequestStatusSet
  <2>2. CASE AbandonDeny(t)
    <3>1. /\ RowsOK /\ job[t].apr \in DOMAIN approvals
          /\ approvals' = [approvals EXCEPT ![job[t].apr].status = "denied"]
          /\ "denied" \in ApprovalStatus
      BY <2>2 DEF AbandonDeny, TypeInv, TurnsOK, TurnOK, ApprovalStatus
    <3>2. QED BY <3>1, RequestStatusSet
  <2>3. QED BY <2>1, <2>2
<1>3. \A u \in Turns, p \in saved : Asking(u, p)' => Asking(u, p)
  BY <1>1 DEF Asking, Others
<1>4. \A p : MayRun(p) => MayRun(p)'
  BY <1>1, <1>2, <1>3, MayRunKept
<1>5. AuthRows'
  BY <1>1, <1>2 DEF AuthInv, AuthRows
<1>6. AuthTurn(t)'
  BY <1>1 DEF AuthTurn, Cleared
<1>7. QED BY <1>1, <1>4, <1>5, <1>6, AuthMoves

LEMMA AuthExecuteProposal ==
    ASSUME TypeInv, AuthInv, NEW t \in Turns, Others(t), ExecuteProposal(t)
    PROVE  AuthInv'
<1>1. /\ pc[t] = "check" /\ job[t].origin # "planner"
      /\ UNCHANGED <<saved, approvals, granted, ran>>
  BY DEF ExecuteProposal, AuthInv, AuthTurn, dbVars
<1>2. CASE Validates(job[t].apr, job[t].prop) /\ ~Succeeded(job[t].prop)
  <2>1. pc'[t] = "policy" /\ job' = job
    BY <1>2 DEF ExecuteProposal, Goto, TypeInv, TurnsOK
  <2>2. MayRun(job[t].prop)
    BY <1>2 DEF Validates, AuthInv, AuthRows, Authorised, MayRun
  <2>3. \A p \in saved : Asking(t, p)' => Asking(t, p)
    BY <1>1, <2>1 DEF Asking
  <2>4. AuthTurn(t)'
    BY <1>1, <2>1, <2>2, <2>3, MayRunLocal DEF AuthTurn
  <2>5. QED BY <1>1, <2>3, <2>4, AuthLocal
<1>3. CASE ~(Validates(job[t].apr, job[t].prop) /\ ~Succeeded(job[t].prop))
  <2>1. pc'[t] = "idle"
    BY <1>3 DEF ExecuteProposal, Leave, Goto, TypeInv, TurnsOK
  <2>2. AuthTurn(t)' /\ \A p \in saved : Asking(t, p)' => Asking(t, p)
    BY <2>1 DEF AuthTurn, Cleared, Asking
  <2>3. QED BY <1>1, <2>2, AuthLocal
<1>4. QED BY <1>2, <1>3

LEMMA AuthRestart == ASSUME TypeInv, AuthInv, Restart PROVE AuthInv'
<1>1. /\ \A t \in Turns : pc'[t] = "idle"
      /\ UNCHANGED <<saved, approvals, granted, ran>>
  BY DEF Restart
<1>2. \A u \in Turns, p \in saved : Asking(u, p)' => Asking(u, p)
  BY <1>1 DEF Asking
<1>3. \A p : MayRun(p) => MayRun(p)'
  BY <1>1, <1>2, MayRunKept
<1>4. QED BY <1>1, <1>3 DEF AuthInv, AuthRows, AuthTurn, Cleared

LEMMA AuthStep == TypeInv /\ AuthInv /\ [Next]_vars => AuthInv'
<1> SUFFICES ASSUME TypeInv, AuthInv, [Next]_vars PROVE AuthInv'
  OBVIOUS
<1>1. ASSUME NEW t \in Turns,
             Route(t) \/ Plan(t) \/ Run(t) \/ Answer(t) \/ Abandon(t) \/ Recover(t)
      PROVE  AuthInv'
  <2>1. Others(t)
    BY <1>1, OneTurnMoves
  <2>2. CASE Route(t)
    BY <2>1, <2>2, AuthQuiet DEF Route, Quiet
  <2>3. CASE Plan(t)
    BY <2>1, <2>3, AuthQuiet, AuthFresh, AuthMarkWaiting, AuthCreateRequest
    DEF Plan, Quiet
  <2>4. CASE Run(t)
    BY <2>1, <2>4, AuthQuiet, AuthMarkStarted, AuthSaveAttempt, AuthRunTool
    DEF Run, Quiet
  <2>5. CASE Answer(t)
    BY <2>1, <2>5, AuthQuiet, AuthFresh, AuthAnswer, AuthStatusSet,
       AuthExecuteProposal
    DEF Answer, Quiet
  <2>6. CASE Abandon(t)
    BY <2>1, <2>6, AuthQuiet, AuthStatusSet DEF Abandon, Quiet
  <2>7. CASE Recover(t)
    BY <2>1, <2>7, AuthQuiet DEF Quiet
  <2>8. QED BY <1>1, <2>2, <2>3, <2>4, <2>5, <2>6, <2>7
<1>2. CASE UNCHANGED vars
  BY <1>2 DEF vars, dbVars, cacheVars, ctxVars, AuthInv, AuthRows, AuthTurn, Cleared,
              MayRun, Unrequested, Authorised, Requests
<1>3. QED BY <1>1, <1>2, AuthRestart DEF Next

-----------------------------------------------------------------------------
(* What the attempt rows say.                                               *)

\* t is making, or has just made, the call of p's n-th attempt.
AtIt(t, p, n) == pc[t] \in {"run", "record"} /\ job[t].prop = p /\ job[t].att = n

\* A step that touches neither rows nor calls, of a turn that is not at a call.
LEMMA AttemptsLeft ==
    ASSUME AttemptInv, NEW t \in Turns, Others(t),
           UNCHANGED <<attempts, ran, crashes>>,
           pc[t] \notin {"run", "record"}, pc'[t] # "record"
    PROVE  AttemptInv'
<1>1. \A u \in Turns : \A p, n : AtIt(u, p, n) => AtIt(u, p, n)'
  BY DEF AtIt, Others
<1>2. AttemptRowsMatchCalls'
  BY <1>1 DEF AttemptInv, AttemptRowsMatchCalls, AtIt
<1>3. \A u \in Turns : pc'[u] = "record" => <<job'[u].prop, job'[u].att>> \in ran'
  BY DEF AttemptInv, Others
<1>4. QED BY <1>2, <1>3 DEF AttemptInv

LEMMA AttemptSaveAttempt ==
    ASSUME TypeInv, AttemptInv, NEW t \in Turns, Others(t), SaveAttempt(t)
    PROVE  AttemptInv'
<1> DEFINE p == job[t].prop
           k == Len(attempts[job[t].prop]) + 1
<1>1. /\ pc[t] = "attempt" /\ pc'[t] = "run"
      /\ job'[t] = [job[t] EXCEPT !.att = k]
      /\ attempts' = [attempts EXCEPT ![p] = Append(attempts[p], "running")]
      /\ UNCHANGED <<ran, crashes>>
  BY DEF SaveAttempt, Goto, TypeInv, TurnsOK
<1>2. p \in Proposals /\ job[t] \in Locals /\ k \in Nat
  BY <1>1, RowIndices DEF TypeInv, TurnsOK, TurnOK, RowsOK, HasProposal
<1>3. job'[t].prop = p /\ job'[t].att = k
  BY <1>1, <1>2 DEF Locals
<1>4. attempts[p] \in Seq(AttemptStatus) /\ "running" \in AttemptStatus
  BY <1>2 DEF TypeInv, RowsOK, AttemptStatus
<1>5. /\ DOMAIN attempts[p] = 1..(k - 1) /\ DOMAIN attempts'[p] = 1..k
      /\ \A n \in 1..(k - 1) : attempts'[p][n] = attempts[p][n]
      /\ attempts'[p][k] = "running"
      /\ \A q \in Proposals \ {p} : attempts'[q] = attempts[q]
  <2>1. attempts'[p] = Append(attempts[p], "running")
    BY <1>1, <1>2 DEF TypeInv, RowsOK
  <2>2. \A q \in Proposals \ {p} : attempts'[q] = attempts[q]
    BY <1>1, <1>2 DEF TypeInv, RowsOK
  <2> HIDE DEF p
  <2>3. QED BY <1>4, <2>1, <2>2, AppendProperties DEF p
<1> HIDE DEF p, k
<1>6. \A u \in Turns : \A q, n : AtIt(u, q, n) => AtIt(u, q, n)'
  BY <1>1 DEF AtIt, Others
<1>7. ASSUME NEW q, NEW n, q = p, n = k PROVE AtIt(t, q, n)'
  BY <1>1, <1>3, <1>7 DEF AtIt
<1>8. /\ \A q \in Proposals : DOMAIN attempts[q] \subseteq DOMAIN attempts'[q]
      /\ \A q \in Proposals : \A n \in DOMAIN attempts'[q] :
            \/ q = p /\ n = k
            \/ n \in DOMAIN attempts[q] /\ attempts'[q][n] = attempts[q][n]
  BY <1>2, <1>5
<1>9. \A c \in ran' : c[2] \in DOMAIN attempts'[c[1]]
  BY <1>1, <1>8 DEF AttemptInv, AttemptRowsMatchCalls, TypeInv, RowsOK
<1>10. ASSUME NEW q \in Proposals, NEW n \in DOMAIN attempts'[q]
       PROVE  /\ attempts'[q][n] # "running" => <<q, n>> \in ran'
              /\ attempts'[q][n] = "running" =>
                    crashes' > 0 \/ \E u \in Turns : AtIt(u, q, n)'
  <2>1. CASE q = p /\ n = k
    BY <1>5, <1>7, <2>1
  <2>2. CASE n \in DOMAIN attempts[q] /\ attempts'[q][n] = attempts[q][n]
    BY <1>1, <1>6, <2>2 DEF AttemptInv, AttemptRowsMatchCalls, AtIt
  <2>3. QED BY <1>8, <2>1, <2>2
<1>11. \A u \in Turns : pc'[u] = "record" => <<job'[u].prop, job'[u].att>> \in ran'
  BY <1>1 DEF AttemptInv, Others
<1>12. QED BY <1>9, <1>10, <1>11 DEF AttemptInv, AttemptRowsMatchCalls, AtIt

LEMMA AttemptRunTool ==
    ASSUME TypeInv, AttemptInv, NEW t \in Turns, Others(t), NEW ok \in BOOLEAN,
           RunTool(t, ok)
    PROVE  AttemptInv'
<1>1. /\ pc[t] = "run" /\ pc'[t] = "record"
      /\ job'[t] = [job[t] EXCEPT !.ok = ok]
      /\ ran' = ran \cup {<<job[t].prop, job[t].att>>}
      /\ UNCHANGED <<attempts, crashes>>
  BY DEF RunTool, Goto, TypeInv, TurnsOK, dbVars
<1>2. job'[t].prop = job[t].prop /\ job'[t].att = job[t].att
  BY <1>1 DEF TypeInv, TurnsOK, TurnOK, Locals
<1>3. job[t].att \in DOMAIN attempts[job[t].prop]
  BY <1>1 DEF TypeInv, TurnsOK, TurnOK
<1>4. \A u \in Turns : \A p, n : AtIt(u, p, n) => AtIt(u, p, n)'
  BY <1>1, <1>2 DEF AtIt, Others
<1>5. AttemptRowsMatchCalls'
  BY <1>1, <1>3, <1>4 DEF AttemptInv, AttemptRowsMatchCalls, AtIt
<1>6. \A u \in Turns : pc'[u] = "record" => <<job'[u].prop, job'[u].att>> \in ran'
  BY <1>1, <1>2 DEF AttemptInv, Others
<1>7. QED BY <1>5, <1>6 DEF AttemptInv

LEMMA AttemptRecordAttempt ==
    ASSUME TypeInv, AttemptInv, NEW t \in Turns, Others(t), RecordAttempt(t)
    PROVE  AttemptInv'
<1> DEFINE p == job[t].prop
           k == job[t].att
           e == IF job[t].ok THEN "succeeded" ELSE "failed"
<1>1. /\ pc[t] = "record" /\ pc'[t] = "observe" /\ job' = job
      /\ attempts' = [attempts EXCEPT ![p] = [attempts[p] EXCEPT ![k] = e]]
      /\ UNCHANGED <<ran, crashes>>
  BY DEF RecordAttempt, Goto, TypeInv, TurnsOK, RowsOK
<1>2. /\ p \in Proposals /\ k \in DOMAIN attempts[p] /\ <<p, k>> \in ran
      /\ e # "running"
  BY <1>1 DEF TypeInv, TurnsOK, TurnOK, RowsOK, HasProposal, AttemptInv
<1>3. /\ \A q \in Proposals : DOMAIN attempts'[q] = DOMAIN attempts[q]
      /\ \A q \in Proposals : \A n \in DOMAIN attempts[q] :
            attempts'[q][n] = IF q = p /\ n = k THEN e ELSE attempts[q][n]
  <2>1. attempts'[p] = [attempts[p] EXCEPT ![k] = e]
    BY <1>1, <1>2 DEF TypeInv, RowsOK
  <2>2. \A q \in Proposals \ {p} : attempts'[q] = attempts[q]
    BY <1>1, <1>2 DEF TypeInv, RowsOK
  <2>3. attempts[p] \in Seq(AttemptStatus) /\ e \in AttemptStatus
    BY <1>2 DEF TypeInv, RowsOK, AttemptStatus
  <2>4. DOMAIN attempts[p] = 1..Len(attempts[p])
    BY <1>2, RowIndices DEF TypeInv
  <2> HIDE DEF p, k, e
  <2>5. /\ attempts'[p] \in Seq(AttemptStatus) /\ Len(attempts'[p]) = Len(attempts[p])
        /\ \A n \in DOMAIN attempts[p] :
              attempts'[p][n] = IF n = k THEN e ELSE attempts[p][n]
    BY <1>2, <2>1, <2>3, <2>4, ExceptSeq
  <2>6. DOMAIN attempts'[p] = DOMAIN attempts[p]
    BY <2>4, <2>5
  <2>7. QED BY <2>2, <2>5, <2>6
<1> HIDE DEF p, k, e
<1>4. \A u \in Turns : \A q, n : AtIt(u, q, n) => AtIt(u, q, n)' \/ (q = p /\ n = k)
  BY <1>1 DEF AtIt, Others, p, k
<1>5. \A c \in ran' : c[2] \in DOMAIN attempts'[c[1]]
  BY <1>1, <1>3 DEF AttemptInv, AttemptRowsMatchCalls, TypeInv, RowsOK
<1>6. ASSUME NEW q \in Proposals, NEW n \in DOMAIN attempts'[q]
      PROVE  /\ attempts'[q][n] # "running" => <<q, n>> \in ran'
             /\ attempts'[q][n] = "running" =>
                   crashes' > 0 \/ \E u \in Turns : AtIt(u, q, n)'
  <2>1. CASE q = p /\ n = k
    BY <1>1, <1>2, <1>3, <2>1
  <2>2. CASE ~(q = p /\ n = k)
    <3>1. n \in DOMAIN attempts[q] /\ attempts'[q][n] = attempts[q][n]
      BY <1>3, <2>2
    <3>2. QED
      BY <1>1, <1>4, <2>2, <3>1 DEF AttemptInv, AttemptRowsMatchCalls, AtIt
  <2>3. QED BY <2>1, <2>2
<1>7. \A u \in Turns : pc'[u] = "record" => <<job'[u].prop, job'[u].att>> \in ran'
  BY <1>1 DEF AttemptInv, Others
<1>8. QED BY <1>5, <1>6, <1>7 DEF AttemptInv, AttemptRowsMatchCalls, AtIt

\* Every other step leaves rows and calls as they are.
LEMMA AttemptQuiet ==
    ASSUME TypeInv, NEW t \in Turns,
           Route(t) \/ Plan(t) \/ Run(t) \/ Answer(t) \/ Abandon(t) \/ Recover(t)
    PROVE  \/ SaveAttempt(t) \/ RecordAttempt(t) \/ \E ok \in BOOLEAN : RunTool(t, ok)
           \/ /\ UNCHANGED <<attempts, ran, crashes>>
              /\ pc[t] \notin {"run", "record"} /\ pc'[t] # "record"
<1> USE DEF Goto, Leave, TypeInv, TurnsOK, dbVars
<1>1. CASE Route(t)
  BY <1>1 DEF Route, BeginTurn, Chat, RunGoal, LlmUnavailable
<1>2. CASE Plan(t)
  BY <1>2 DEF Plan, StartSession, Propose, PolicyDeny, MarkWaiting, CreateRequest,
              SuspendForApproval, BindDialog
<1>3. CASE Run(t)
  BY <1>3 DEF Run, MarkStarted, Observe, VerifyCheckpoint, VerifyLaunch, SkipVerify,
              FinishSession
<1>4. CASE Answer(t)
  BY <1>4 DEF Answer, AnswerClarify, AnswerUnrelated, AnswerReject, AnswerApprove,
              GrantRead, GrantWrite, ResumeTask, ExecuteProposal, Repropose,
              AfterGrant
<1>5. CASE Abandon(t)
  BY <1>5 DEF Abandon, AbandonRead, AbandonDeny, AbandonCancel
<1>6. CASE Recover(t)
  BY <1>6 DEF Recover, RecoveryCommand, RecoveryStatus, RecoveryCancel,
              RecoveryContinue, RecoveryResume
<1>7. QED BY <1>1, <1>2, <1>3, <1>4, <1>5, <1>6

LEMMA AttemptStep == TypeInv /\ AttemptInv /\ [Next]_vars => AttemptInv'
<1> SUFFICES ASSUME TypeInv, AttemptInv, [Next]_vars PROVE AttemptInv'
  OBVIOUS
<1>1. ASSUME NEW t \in Turns,
             Route(t) \/ Plan(t) \/ Run(t) \/ Answer(t) \/ Abandon(t) \/ Recover(t)
      PROVE  AttemptInv'
  BY <1>1, OneTurnMoves, AttemptQuiet, AttemptsLeft, AttemptSaveAttempt,
     AttemptRunTool, AttemptRecordAttempt
<1>2. CASE Restart
  <2>1. /\ UNCHANGED <<attempts, ran>> /\ crashes' > 0
        /\ \A u \in Turns : pc'[u] # "record"
    BY <1>2 DEF Restart, TypeInv, RowsOK
  <2>2. QED BY <2>1 DEF AttemptInv, AttemptRowsMatchCalls
<1>3. CASE UNCHANGED vars
  BY <1>3 DEF vars, dbVars, AttemptInv, AttemptRowsMatchCalls
<1>4. QED BY <1>1, <1>2, <1>3 DEF Next

-----------------------------------------------------------------------------
(* The theorems.                                                            *)

LEMMA InitInv == Init => IInv
<1> SUFFICES ASSUME Init PROVE IInv
  OBVIOUS
<1>1. TypeInv
  BY TypeInit
<1>2. DOMAIN approvals = {} /\ \A p \in Proposals : DOMAIN attempts[p] = {}
  BY DEF Init
<1>3. AuthInv
  BY <1>2 DEF Init, AuthInv, AuthRows, AuthTurn, Cleared
<1>4. AttemptInv
  BY <1>2 DEF Init, AttemptInv, AttemptRowsMatchCalls
<1>5. QED BY <1>1, <1>3, <1>4 DEF IInv

LEMMA Invariance == Spec => []IInv
<1>1. IInv /\ [Next]_vars => IInv'
  BY TypeStep, AuthStep, AttemptStep DEF IInv
<1>2. QED BY <1>1, InitInv, PTL DEF Spec

\* Every variable keeps its type, for any number of turns, proposals and restarts.
THEOREM TypeCorrect == Spec => []TypeOK
<1>1. IInv => TypeOK
  <2> SUFFICES ASSUME RowsOK, MemoryOK, TurnsOK PROVE TypeOK
    BY DEF IInv, TypeInv
  <2>1. granted \subseteq Nat
    BY RowIndices DEF RowsOK
  <2>2. slots \in [Proposals -> Ids]
    BY DEF RowsOK, MemoryOK, Ids
  <2>3. pc \in [Turns -> Locations] /\ job \in [Turns -> Locals]
    BY DEF TurnsOK, TurnOK
  <2>4. QED BY <2>1, <2>2, <2>3 DEF RowsOK, MemoryOK, TypeOK
<1>2. QED BY <1>1, Invariance, PTL

\* execute_step and execute_proposal never carry out an action the user was asked
\* about before a request for the same tool and arguments has been granted,
\* whatever the turns that answer, abandon, recover and execute do meanwhile.
THEOREM AuthorisedRuns == Spec => []RequestedRunsAreAuthorised
<1>1. IInv => RequestedRunsAreAuthorised
  BY DEF IInv, AuthInv, AuthRows, MayRun, Unrequested, Requests,
         RequestedRunsAreAuthorised
<1>2. QED BY <1>1, Invariance, PTL

\* What execute_step writes around tools.run stays true of the calls made: a row
\* before the call, an outcome only after it, and an attempt left "running" has a
\* turn at it unless the process was restarted.
THEOREM TruthfulAttempts == Spec => []AttemptRowsMatchCalls
<1>1. IInv => AttemptRowsMatchCalls
  BY DEF IInv, AttemptInv
<1>2. QED BY <1>1, Invariance, PTL
==============================================================================
