----------------- MODULE ExecutionCoordinatorOneTurn_proofs -----------------
(***************************************************************************)
(* Theorems about ExecutionCoordinator used by someone who waits for each   *)
(* answer: one turn at a time, any number of proposals and restarts.        *)
(*                                                                         *)
(* All of them are false for two turns at a time (run approved_twice).      *)
(***************************************************************************)
EXTENDS ExecutionCoordinator_proofs, FiniteSetTheorems

\* The user waits for each answer.
OneTurn == \A t, u \in Turns : t = u

Uncalled(p) == \A c \in ran : c[1] # p

\* A proposal has at most one request and is called at most once, if it has a
\* request only when that was granted.
RequestsOK ==
    /\ \A i, j \in DOMAIN approvals : approvals[i].prop = approvals[j].prop => i = j
    /\ \A c \in ran : c[1] \in saved
    /\ \A i \in DOMAIN approvals :
          Uncalled(approvals[i].prop) \/ approvals[i].status = "granted"
    /\ \A c, d \in ran : c[1] = d[1] => c = d

PendingRow(i) == i \in DOMAIN approvals /\ approvals[i].status = "pending"

Answerable(p) ==
    /\ PendingRow(slots[p].apr) /\ approvals[slots[p].apr].prop = p
    /\ slots[p].prop = p

\* A dialogue is open only between turns, while it is bound or answered, and
\* while the task it belongs to is abandoned.
DialogOK(t) ==
    /\ pending # None =>
          pc[t] \in {"idle", "classify", "bind", "abandon", "deny", "cancel"}
    /\ pc[t] \in {"idle", "classify"} /\ pending # None => Answerable(pending)
    /\ pc[t] = "classify" => pending # None /\ job[t].dialog = pending

\* The planner's proposal in hand is new, and the adapter's last one.
Fresh(t) ==
    /\ Requests(job[t].prop) = {} /\ Uncalled(job[t].prop)
    /\ lastProp = job[t].prop

OwnRequest(t) ==
    /\ PendingRow(job[t].apr) /\ approvals[job[t].apr].prop = job[t].prop
    /\ lastProp = job[t].prop

AskingOK(t) ==
    /\ pc[t] \in {"policy", "request"} /\ job[t].origin = "planner" => Fresh(t)
    /\ pc[t] \in {"attempt", "run"} /\ job[t].origin = "planner" =>
          Requests(job[t].prop) = {} /\ Uncalled(job[t].prop)
    /\ pc[t] = "suspend" => OwnRequest(t)
    /\ pc[t] = "bind" => OwnRequest(t) /\ lastApr = job[t].apr /\ pending = job[t].prop

\* The proposal in hand is that of the answered request, and was not called.
Uses(t) ==
    /\ job[t].apr \in DOMAIN approvals
    /\ approvals[job[t].apr].prop = job[t].prop
    /\ Uncalled(job[t].prop)

Answered == {"granting", "grant", "resume", "check"}

\* The dialogue answered names its request, so that none is proposed afresh; a
\* request about to be granted or denied is pending.
AnswerOK(t) ==
    /\ job[t].origin # "unbound" /\ pc[t] # "repropose"
    /\ job[t].origin = "approved" =>
          pc[t] \in Answered \cup {"policy", "attempt", "run", "record", "observe", "verify"}
    /\ pc[t] \in Answered => job[t].origin = "approved" /\ Uses(t)
    /\ pc[t] \in {"policy", "attempt", "run"} /\ job[t].origin = "approved" =>
          Uses(t) /\ approvals[job[t].apr].status = "granted"
    /\ pc[t] = "grant" => PendingRow(job[t].req)
    /\ pc[t] = "deny" => PendingRow(job[t].apr)
    /\ pc[t] = "reopen" /\ job[t].apr # 0 => PendingRow(job[t].apr)

TurnInv(t) == DialogOK(t) /\ AskingOK(t) /\ AnswerOK(t)

OneInv == RequestsOK /\ \A t \in Turns : TurnInv(t)

-----------------------------------------------------------------------------
(* The steps of the turn.                                                   *)

LEMMA RequestsKept ==
    ASSUME RequestsOK, UNCHANGED <<approvals, ran>>, saved \subseteq saved'
    PROVE  RequestsOK'
BY DEF RequestsOK, Uncalled, Requests

LEMMA OnlyTurn ==
    ASSUME OneTurn, NEW t \in Turns, RequestsOK', TurnInv(t)'
    PROVE  OneInv'
BY DEF OneTurn, OneInv

LEMMA InitOne == Init => OneInv
<1> SUFFICES ASSUME Init PROVE OneInv
  OBVIOUS
<1>1. DOMAIN approvals = {} /\ ran = {} /\ pending = None
  BY DEF Init
<1>2. \A t \in Turns : pc[t] = "idle" /\ job[t].origin = "planner"
  BY IdleLocals DEF Init
<1> QED
  BY <1>1, <1>2 DEF OneInv, RequestsOK, TurnInv, DialogOK, AskingOK, AnswerOK, Answered

\* The turn, or the handling of one tool, is over: at most a dialogue is left.
LEMMA LeaveOne ==
    ASSUME OneTurn, TypeInv, OneInv, NEW t \in Turns,
           NEW l \in {"idle", "route", "session", "planning", "failed"}, Leave(t, l),
           UNCHANGED <<approvals, ran, saved>>,
           pending' # None => l = "idle" /\ Answerable(pending)'
    PROVE  OneInv'
<1>1. pc'[t] = l /\ job'[t] = Idle
  BY DEF Leave, Goto, TypeInv, TurnsOK
<1>2. job'[t].origin = "planner"
  BY <1>1, IdleLocals
<1>3. RequestsOK'
  BY RequestsKept DEF OneInv
<1>4. TurnInv(t)'
  BY <1>1, <1>2 DEF TurnInv, DialogOK, AskingOK, AnswerOK, Answered
<1> QED
  BY <1>3, <1>4, OnlyTurn

\* It is over, and no dialogue is open.
LEMMA LeaveClosed ==
    ASSUME OneTurn, TypeInv, OneInv, NEW t \in Turns,
           NEW l \in {"idle", "route", "session", "planning", "failed"}, Leave(t, l),
           UNCHANGED <<approvals, ran, saved, pending>>,
           pc[t] \notin {"idle", "classify", "bind", "abandon", "deny", "cancel"}
    PROVE  OneInv'
BY LeaveOne DEF OneInv, TurnInv, DialogOK

LEMMA RouteOne ==
    ASSUME OneTurn, TypeInv, OneInv, NEW t \in Turns, Route(t)
    PROVE  OneInv'
<1>1. CASE BeginTurn(t)
  <2>1. /\ pc[t] = "idle" /\ pc'[t] = IF pending = None THEN "route" ELSE "classify"
        /\ job'[t] = [job[t] EXCEPT !.dialog = pending]
        /\ UNCHANGED <<approvals, ran, saved, pending, slots>>
    BY <1>1 DEF BeginTurn, Goto, TypeInv, TurnsOK, dbVars, ctxVars
  <2>2. job[t] \in Locals
    BY DEF TypeInv, TurnsOK, TurnOK
  <2>3. job'[t].dialog = pending /\ job'[t].origin = job[t].origin
    BY <2>1, <2>2 DEF Locals
  <2>4. RequestsOK'
    BY <2>1, RequestsKept DEF OneInv
  <2>5. TurnInv(t)
    BY DEF OneInv
  <2>6. DialogOK(t)'
    BY <2>1, <2>3, <2>5 DEF TurnInv, DialogOK, Answerable, PendingRow
  <2>7. AskingOK(t)' /\ AnswerOK(t)'
    BY <2>1, <2>3, <2>5 DEF TurnInv, AskingOK, AnswerOK, Answered
  <2> QED
    BY <2>4, <2>6, <2>7, OnlyTurn DEF TurnInv
<1>2. CASE Chat(t) \/ RunGoal(t) \/ LlmUnavailable(t)
  BY <1>2, LeaveClosed DEF Chat, RunGoal, LlmUnavailable, dbVars, ctxVars
<1> QED
  BY <1>1, <1>2 DEF Route

LEMMA ProposeOne ==
    ASSUME OneTurn, TypeInv, OneInv, NEW t \in Turns, NEW p \in Proposals, Propose(t, p)
    PROVE  OneInv'
<1>1. /\ pc[t] = "planning" /\ pc'[t] = "policy" /\ p \notin saved
      /\ saved' = saved \cup {p} /\ lastProp' = p
      /\ job'[t] = [job[t] EXCEPT !.prop = p]
      /\ UNCHANGED <<approvals, ran, pending, slots>>
  BY DEF Propose, Goto, TypeInv, TurnsOK, ctxVars
<1>2. job[t] \in Locals /\ p \in Proposals \cup {None}
  BY DEF TypeInv, TurnsOK, TurnOK
<1>3. job'[t].prop = p /\ job'[t].origin = job[t].origin
  BY <1>1, <1>2 DEF Locals
<1>4. RequestsOK'
  BY <1>1, RequestsKept DEF OneInv
<1>5. TurnInv(t) /\ RequestsOK
  BY DEF OneInv
<1>6. Requests(p)' = {} /\ Uncalled(p)'
  BY <1>1, <1>5 DEF Requests, Uncalled, RequestsOK, TypeInv, RowsOK
<1>7. job'[t].origin # "approved" /\ job'[t].origin # "unbound" /\ pending' = None
  BY <1>1, <1>3, <1>5 DEF TurnInv, AnswerOK, DialogOK, Answered
<1>8. AskingOK(t)'
  BY <1>1, <1>3, <1>6 DEF AskingOK, Fresh
<1>9. DialogOK(t)' /\ AnswerOK(t)'
  BY <1>1, <1>7 DEF DialogOK, AnswerOK, Answered
<1> QED
  BY <1>4, <1>8, <1>9, OnlyTurn DEF TurnInv

\* A new request is the last row, and the others stay as they are.
LEMMA RowAppended ==
    ASSUME TypeInv, NEW p \in saved,
           approvals' = Append(approvals, [prop |-> p, status |-> "pending"])
    PROVE  LET n == Len(approvals) + 1 IN
           /\ n \in DOMAIN approvals' /\ n \notin DOMAIN approvals
           /\ approvals'[n].prop = p /\ approvals'[n].status = "pending"
           /\ \A i : i \in DOMAIN approvals' <=> i = n \/ i \in DOMAIN approvals
           /\ \A i \in DOMAIN approvals : approvals'[i] = approvals[i]
<1> DEFINE n == Len(approvals) + 1
           row == [prop |-> p, status |-> "pending"]
<1>1. row \in [prop : Proposals, status : ApprovalStatus]
  BY DEF TypeInv, RowsOK, ApprovalStatus
<1>2. row.prop = p /\ row.status = "pending"
  OBVIOUS
<1>3. /\ DOMAIN approvals = 1 .. Len(approvals) /\ Len(approvals) \in Nat
      /\ approvals \in Seq([prop : Proposals, status : ApprovalStatus])
  BY RowIndices DEF TypeInv, RowsOK
<1> HIDE DEF row
<1>4. /\ DOMAIN approvals' = 1 .. n
      /\ \A i \in 1 .. Len(approvals) : approvals'[i] = approvals[i]
      /\ approvals'[n] = row
  BY <1>1, <1>3, AppendProperties DEF row
<1> QED
  BY <1>2, <1>3, <1>4

LEMMA CreateRequestOne ==
    ASSUME OneTurn, TypeInv, AuthInv, OneInv, NEW t \in Turns, CreateRequest(t)
    PROVE  OneInv'
<1> DEFINE p == job[t].prop
           n == Len(approvals) + 1
<1>1. /\ pc[t] = "request" /\ pc'[t] = "suspend" /\ job[t].origin = "planner"
      /\ job'[t] = [job[t] EXCEPT !.apr = n]
      /\ approvals' = Append(approvals, [prop |-> p, status |-> "pending"])
      /\ UNCHANGED <<saved, ran, lastProp, pending, slots>>
  BY DEF CreateRequest, Goto, TypeInv, TurnsOK, cacheVars, ctxVars, AuthInv, AuthTurn
<1>2. job[t] \in Locals /\ n \in Nat /\ p \in saved
  BY <1>1, RowIndices DEF TypeInv, TurnsOK, TurnOK, HasProposal, RowsOK
<1>3. job'[t].prop = p /\ job'[t].apr = n /\ job'[t].origin = "planner"
  BY <1>1, <1>2 DEF Locals
<1>4. TurnInv(t) /\ RequestsOK /\ Requests(p) = {} /\ Uncalled(p) /\ lastProp = p
  BY <1>1 DEF OneInv, TurnInv, AskingOK, Fresh
<1>5. /\ n \in DOMAIN approvals' /\ n \notin DOMAIN approvals
      /\ approvals'[n].prop = p /\ approvals'[n].status = "pending"
      /\ \A i : i \in DOMAIN approvals' <=> i = n \/ i \in DOMAIN approvals
      /\ \A i \in DOMAIN approvals : approvals'[i] = approvals[i]
  BY <1>1, <1>2, RowAppended
<1>6. \A i \in DOMAIN approvals' :
        \/ i = n /\ approvals'[i].prop = p /\ approvals'[i].status = "pending"
        \/ /\ i \in DOMAIN approvals /\ i # n /\ approvals'[i] = approvals[i]
           /\ approvals[i].prop # p
  BY <1>4, <1>5 DEF Requests
<1>7. n \in DOMAIN approvals'
  BY <1>5
<1> HIDE DEF n, p
<1>8. RequestsOK'
  <2>1. \A i, j \in DOMAIN approvals' : approvals'[i].prop = approvals'[j].prop => i = j
    BY <1>4, <1>6 DEF RequestsOK
  <2>2. \A i \in DOMAIN approvals' :
          Uncalled(approvals'[i].prop) \/ approvals'[i].status = "granted"
    BY <1>4, <1>6 DEF RequestsOK
  <2>3. \A q : Uncalled(q)' <=> Uncalled(q)
    BY <1>1 DEF Uncalled
  <2> QED
    BY <1>1, <1>4, <2>1, <2>2, <2>3 DEF RequestsOK
<1>9. AskingOK(t)'
  BY <1>1, <1>3, <1>4, <1>6, <1>7 DEF AskingOK, OwnRequest, PendingRow
<1>10. pending' = None
  BY <1>1, <1>4 DEF TurnInv, DialogOK
<1>11. DialogOK(t)' /\ AnswerOK(t)'
  BY <1>1, <1>3, <1>10 DEF DialogOK, AnswerOK, Answered
<1> QED
  BY <1>8, <1>9, <1>11, OnlyTurn DEF TurnInv

LEMMA SuspendOne ==
    ASSUME OneTurn, TypeInv, OneInv, NEW t \in Turns, SuspendForApproval(t)
    PROVE  OneInv'
<1>1. /\ pc[t] = "suspend" /\ pc'[t] = "bind" /\ job' = job
      /\ pending' = job[t].prop /\ lastApr' = job[t].apr
      /\ UNCHANGED <<saved, approvals, ran, lastProp>>
  BY DEF SuspendForApproval, OpenDialog, Goto, TypeInv, TurnsOK
<1>2. TurnInv(t)
  BY DEF OneInv
<1>3. RequestsOK'
  BY <1>1, RequestsKept DEF OneInv
<1>4. OwnRequest(t)'
  BY <1>1, <1>2 DEF TurnInv, AskingOK, OwnRequest, PendingRow
<1>5. AskingOK(t)'
  BY <1>1, <1>4 DEF AskingOK
<1>6. DialogOK(t)' /\ AnswerOK(t)'
  BY <1>1, <1>2 DEF TurnInv, DialogOK, AnswerOK, Answered
<1> QED
  BY <1>3, <1>5, <1>6, OnlyTurn DEF TurnInv

LEMMA BindOne ==
    ASSUME OneTurn, TypeInv, OneInv, NEW t \in Turns, BindDialog(t)
    PROVE  OneInv'
<1> DEFINE p == job[t].prop
           ids == [apr |-> lastApr, prop |-> lastProp]
<1>1. /\ pc[t] = "bind" /\ Leave(t, "idle") /\ UNCHANGED <<approvals, ran, saved>>
      /\ slots' = [slots EXCEPT ![p] = ids] /\ pending' = pending
  BY DEF BindDialog, dbVars
<1>2. p \in Proposals /\ slots \in [Proposals -> [apr : Nat, prop : saved \cup {None}]]
  BY <1>1 DEF TypeInv, TurnsOK, TurnOK, HasProposal, RowsOK, MemoryOK
<1>3. slots'[p] = ids /\ ids.apr = lastApr /\ ids.prop = lastProp
  BY <1>1, <1>2
<1>4. OwnRequest(t) /\ lastApr = job[t].apr /\ pending = p
  BY <1>1 DEF OneInv, TurnInv, AskingOK
<1> HIDE DEF p, ids
<1>5. PendingRow(lastApr) /\ approvals[lastApr].prop = p /\ lastProp = p
  BY <1>4 DEF OwnRequest, p
<1>6. Answerable(pending)'
  BY <1>1, <1>3, <1>4, <1>5 DEF Answerable, PendingRow
<1> QED
  BY <1>1, <1>6, LeaveOne

LEMMA PlanOne ==
    ASSUME OneTurn, TypeInv, AuthInv, OneInv, NEW t \in Turns, Plan(t)
    PROVE  OneInv'
<1>1. CASE \E full \in BOOLEAN : StartSession(t, full)
  <2>1. /\ pc[t] = "session" /\ pc'[t] = "planning" /\ job' = job
        /\ UNCHANGED <<approvals, ran, saved, pending>>
    BY <1>1 DEF StartSession, Goto, TypeInv, TurnsOK, ctxVars
  <2>2. TurnInv(t) /\ RequestsOK'
    BY <2>1, RequestsKept DEF OneInv
  <2>3. TurnInv(t)'
    BY <2>1, <2>2 DEF TurnInv, DialogOK, AskingOK, AnswerOK, Answered
  <2> QED
    BY <2>2, <2>3, OnlyTurn
<1>2. CASE PolicyDeny(t)
  <2>1. pc[t] = "policy" /\ UNCHANGED <<approvals, ran, saved, pending>>
    BY <1>2 DEF PolicyDeny, ctxVars
  <2>2. Leave(t, "planning") \/ Leave(t, "idle")
    BY <1>2 DEF PolicyDeny
  <2> QED
    BY <2>1, <2>2, LeaveClosed
<1>3. CASE MarkWaiting(t)
  <2>1. /\ pc[t] = "policy" /\ job[t].origin = "planner" /\ pc'[t] = "request"
        /\ job' = job /\ UNCHANGED <<approvals, ran, saved, pending, lastProp>>
    BY <1>3 DEF MarkWaiting, NeedsApproval, Goto, TypeInv, TurnsOK, ctxVars, cacheVars
  <2>2. TurnInv(t) /\ RequestsOK'
    BY <2>1, RequestsKept DEF OneInv
  <2>3. Fresh(t)'
    BY <2>1, <2>2 DEF TurnInv, AskingOK, Fresh, Requests, Uncalled
  <2>4. TurnInv(t)'
    BY <2>1, <2>2, <2>3 DEF TurnInv, DialogOK, AskingOK, AnswerOK, Answered
  <2> QED
    BY <2>2, <2>4, OnlyTurn
<1> QED
  BY <1>1, <1>2, <1>3, ProposeOne, CreateRequestOne, SuspendOne, BindOne DEF Plan

LEMMA RunToolOne ==
    ASSUME OneTurn, TypeInv, OneInv, NEW t \in Turns, NEW ok \in BOOLEAN, RunTool(t, ok)
    PROVE  OneInv'
<1> DEFINE p == job[t].prop
           call == <<p, job[t].att>>
<1>1. /\ pc[t] = "run" /\ pc'[t] = "record" /\ ran' = ran \cup {call}
      /\ job' = [job EXCEPT ![t].ok = ok]
      /\ UNCHANGED <<approvals, saved, pending>>
  BY DEF RunTool, Goto, TypeInv, TurnsOK, dbVars, ctxVars
<1>2. job[t] \in Locals /\ p \in saved
  BY <1>1 DEF TypeInv, TurnsOK, TurnOK, HasProposal
<1>3. job'[t].origin = job[t].origin
  BY <1>1, <1>2 DEF TypeInv, TurnsOK, Locals
<1>4. call[1] = p
  OBVIOUS
<1>5. TurnInv(t) /\ RequestsOK /\ job[t].origin \in Origins
  BY <1>2 DEF OneInv, Locals
<1>6. /\ Uncalled(p)
      /\ \/ Requests(p) = {}
         \/ \E i \in DOMAIN approvals :
               approvals[i].prop = p /\ approvals[i].status = "granted"
  BY <1>1, <1>5 DEF TurnInv, AskingOK, AnswerOK, Uses, Origins
<1> HIDE DEF p, call
<1>7. RequestsOK'
  <2>1. \A i, j \in DOMAIN approvals : approvals[i].prop = approvals[j].prop => i = j
    BY <1>5 DEF RequestsOK
  <2>2. \A c \in ran' : c[1] \in saved
    BY <1>1, <1>2, <1>4, <1>5 DEF RequestsOK
  <2>3. ASSUME NEW i \in DOMAIN approvals
        PROVE  Uncalled(approvals[i].prop)' \/ approvals[i].status = "granted"
    <3>1. CASE approvals[i].prop = p
      BY <1>6, <2>1, <3>1 DEF Requests
    <3>2. CASE approvals[i].prop # p
      BY <1>1, <1>4, <1>5, <3>2 DEF RequestsOK, Uncalled
    <3> QED
      BY <3>1, <3>2
  <2>4. \A c, d \in ran' : c[1] = d[1] => c = d
    BY <1>1, <1>4, <1>5, <1>6 DEF RequestsOK, Uncalled
  <2> QED
    BY <1>1, <2>1, <2>2, <2>3, <2>4 DEF RequestsOK, Uncalled
<1>8. TurnInv(t)'
  BY <1>1, <1>3, <1>5 DEF TurnInv, DialogOK, AskingOK, AnswerOK, Answered
<1> QED
  BY <1>7, <1>8, OnlyTurn

\* The steps before and after the call change neither requests nor calls.
LEMMA RunOne ==
    ASSUME OneTurn, TypeInv, OneInv, NEW t \in Turns, Run(t)
    PROVE  OneInv'
<1>0. TurnInv(t) /\ job[t] \in Locals /\ job[t].origin \in Origins
  BY DEF OneInv, TypeInv, TurnsOK, TurnOK, Locals
<1>1. CASE MarkStarted(t)
  <2>1. /\ pc[t] = "policy" /\ pc'[t] = "attempt"
        /\ job' = job /\ UNCHANGED <<approvals, ran, saved, pending>>
    BY <1>1 DEF MarkStarted, Goto, TypeInv, TurnsOK, ctxVars
  <2>2. RequestsOK'
    BY <2>1, RequestsKept DEF OneInv
  <2>3. Uses(t)' <=> Uses(t)
    BY <2>1 DEF Uses, Uncalled
  <2>4. DialogOK(t)' /\ AskingOK(t)'
    BY <1>0, <2>1 DEF TurnInv, DialogOK, AskingOK, Fresh, Requests, Uncalled
  <2>5. AnswerOK(t)'
    BY <1>0, <2>1, <2>3 DEF TurnInv, AnswerOK, Answered
  <2> QED
    BY <2>2, <2>4, <2>5, OnlyTurn DEF TurnInv
<1>2. CASE SaveAttempt(t)
  <2>1. /\ pc[t] = "attempt" /\ pc'[t] = "run"
        /\ job' = [job EXCEPT ![t].att = Len(attempts[job[t].prop]) + 1]
        /\ UNCHANGED <<approvals, ran, saved, pending>>
    BY <1>2 DEF SaveAttempt, Goto, TypeInv, TurnsOK, ctxVars
  <2>2. /\ job'[t].prop = job[t].prop /\ job'[t].apr = job[t].apr
        /\ job'[t].origin = job[t].origin
    BY <1>0, <2>1 DEF TypeInv, TurnsOK, Locals
  <2>3. RequestsOK'
    BY <2>1, RequestsKept DEF OneInv
  <2>4. Uses(t)' <=> Uses(t)
    BY <2>1, <2>2 DEF Uses, Uncalled
  <2>5. DialogOK(t)' /\ AskingOK(t)'
    BY <1>0, <2>1, <2>2 DEF TurnInv, DialogOK, AskingOK, Requests, Uncalled
  <2>6. AnswerOK(t)'
    BY <1>0, <2>1, <2>2, <2>4 DEF TurnInv, AnswerOK, Answered
  <2> QED
    BY <2>3, <2>5, <2>6, OnlyTurn DEF TurnInv
<1>3. CASE RecordAttempt(t)
  <2>1. /\ pc[t] = "record" /\ pc'[t] = "observe"
        /\ job' = job /\ UNCHANGED <<approvals, ran, saved, pending>>
    BY <1>3 DEF RecordAttempt, Goto, TypeInv, TurnsOK, ctxVars
  <2>2. RequestsOK'
    BY <2>1, RequestsKept DEF OneInv
  <2>3. TurnInv(t)'
    BY <1>0, <2>1 DEF TurnInv, DialogOK, AskingOK, AnswerOK, Answered
  <2> QED
    BY <2>2, <2>3, OnlyTurn
<1>4. CASE Observe(t)
  <2>1. pc[t] = "observe" /\ UNCHANGED <<approvals, ran, saved, pending>>
    BY <1>4 DEF Observe, ctxVars
  <2>2. CASE job[t].ok
    <3>1. pc'[t] = "verify" /\ job' = job
      BY <1>4, <2>2 DEF Observe, Goto, TypeInv, TurnsOK
    <3>2. RequestsOK'
      BY <2>1, RequestsKept DEF OneInv
    <3>3. TurnInv(t)'
      BY <1>0, <2>1, <3>1 DEF TurnInv, DialogOK, AskingOK, AnswerOK, Answered
    <3> QED
      BY <3>2, <3>3, OnlyTurn
  <2>3. CASE ~job[t].ok
    <3>1. Leave(t, "planning") \/ Leave(t, "failed")
      BY <1>4, <2>3 DEF Observe
    <3> QED
      BY <2>1, <3>1, LeaveClosed
  <2> QED
    BY <2>2, <2>3
<1>5. CASE SkipVerify(t) \/ \E ok \in BOOLEAN : VerifyCheckpoint(t, ok) \/ VerifyLaunch(t, ok)
  BY <1>5, LeaveClosed DEF SkipVerify, VerifyCheckpoint, VerifyLaunch, dbVars, ctxVars
<1>6. CASE \E exit \in {"success", "failure", "max_steps"} : FinishSession(t, exit)
  BY <1>6, LeaveClosed DEF FinishSession, ctxVars
<1> QED
  BY <1>1, <1>2, <1>3, <1>4, <1>5, <1>6, RunToolOne DEF Run

-----------------------------------------------------------------------------
(* Answers, abandoning and recovery.                                        *)

\* A pending request has not been acted on: its status may be set.
LEMMA StatusSetOne ==
    ASSUME TypeInv, RequestsOK, NEW i \in DOMAIN approvals, approvals[i].status = "pending",
           NEW st \in ApprovalStatus, approvals' = [approvals EXCEPT ![i].status = st],
           UNCHANGED <<ran, saved>>
    PROVE  /\ RequestsOK' /\ DOMAIN approvals' = DOMAIN approvals
           /\ \A j \in DOMAIN approvals : approvals'[j].prop = approvals[j].prop
<1>1. /\ DOMAIN approvals' = DOMAIN approvals
      /\ \A j \in DOMAIN approvals :
            /\ approvals'[j].prop = approvals[j].prop
            /\ approvals'[j].status = IF j = i THEN st ELSE approvals[j].status
  BY RequestStatusSet DEF TypeInv
<1>2. \A q : Requests(q)' = Requests(q)
  BY <1>1 DEF Requests
<1>3. \A q : Uncalled(q)' <=> Uncalled(q)
  BY DEF Uncalled
<1> QED
  BY <1>1, <1>2, <1>3 DEF RequestsOK

LEMMA AnswerApproveOne ==
    ASSUME OneTurn, TypeInv, OneInv, NEW t \in Turns, AnswerApprove(t)
    PROVE  OneInv'
<1> DEFINE ids == slots[job[t].dialog]
           org == IF ids.apr # 0 /\ ids.prop # None THEN "approved" ELSE "unbound"
<1>1. /\ pc[t] = "classify" /\ pc'[t] = "granting" /\ pending' = None
      /\ job'[t] = [job[t] EXCEPT !.prop = ids.prop, !.apr = ids.apr, !.origin = org]
      /\ UNCHANGED <<approvals, ran, saved>>
  BY DEF AnswerApprove, Goto, TypeInv, TurnsOK, dbVars
<1>2. Answerable(job[t].dialog) /\ job[t].dialog # None
  BY <1>1 DEF OneInv, TurnInv, DialogOK
<1>3. /\ PendingRow(ids.apr) /\ approvals[ids.apr].prop = ids.prop
      /\ ids.prop = job[t].dialog
  BY <1>2 DEF Answerable
<1>4. /\ job[t] \in Locals /\ job[t].dialog \in saved
      /\ ids.apr \in Nat /\ ids.prop \in saved \cup {None}
      /\ saved \subseteq Proposals
  BY <1>1 DEF TypeInv, TurnsOK, TurnOK, MemoryOK, RowsOK, HasDialog
<1>5. ids.apr # 0
  BY <1>3, RowIndices DEF TypeInv, PendingRow
<1>6. org = "approved" /\ org \in Origins
  BY <1>2, <1>3, <1>5 DEF Origins
<1>7. RequestsOK /\ RequestsOK'
  BY <1>1, RequestsKept DEF OneInv
<1>8. Uncalled(ids.prop)
  BY <1>3, <1>7 DEF RequestsOK, PendingRow
<1> HIDE DEF ids, org
<1>9. job'[t].prop = ids.prop /\ job'[t].apr = ids.apr /\ job'[t].origin = "approved"
  BY <1>1, <1>4, <1>6 DEF Locals
<1>10. Uses(t)'
  BY <1>1, <1>3, <1>8, <1>9 DEF Uses, Uncalled, PendingRow
<1>11. TurnInv(t)'
  BY <1>1, <1>9, <1>10 DEF TurnInv, DialogOK, AskingOK, AnswerOK, Answered
<1> QED
  BY <1>7, <1>11, OnlyTurn

LEMMA GrantReadOne ==
    ASSUME OneTurn, TypeInv, OneInv, NEW t \in Turns, GrantRead(t)
    PROVE  OneInv'
<1> DEFINE i == IF lastApr # 0 THEN lastApr ELSE NewestPending
           ok == i \in PendingApprovals /\ Key[approvals[i].prop] = Key[job[t].dialog]
<1>1. pc[t] = "granting" /\ UNCHANGED <<approvals, ran, saved, pending>>
  BY DEF GrantRead, dbVars, ctxVars
<1>2. TurnInv(t) /\ RequestsOK' /\ pending = None
  BY <1>1, RequestsKept DEF OneInv, TurnInv, DialogOK
<1>3. job[t].origin = "approved" /\ Uses(t)
  BY <1>1, <1>2 DEF TurnInv, AnswerOK, Answered
<1>4. CASE ok
  <2>1. pc'[t] = "grant" /\ job'[t] = [job[t] EXCEPT !.req = i]
    BY <1>4 DEF GrantRead, Goto, TypeInv, TurnsOK
  <2>2. i \in Nat /\ job[t] \in Locals /\ PendingRow(i)
    BY <1>4, RowIndices, NewestPendingRow
    DEF TypeInv, TurnsOK, TurnOK, PendingRow, PendingApprovals
  <2> HIDE DEF i
  <2>3. /\ job'[t].req = i /\ job'[t].prop = job[t].prop /\ job'[t].apr = job[t].apr
        /\ job'[t].origin = job[t].origin
    BY <2>1, <2>2 DEF Locals
  <2>4. Uses(t)' /\ PendingRow(job[t].req)'
    BY <1>1, <1>3, <2>2, <2>3 DEF Uses, Uncalled, PendingRow
  <2>5. TurnInv(t)'
    BY <1>1, <1>2, <1>3, <2>1, <2>3, <2>4
    DEF TurnInv, DialogOK, AskingOK, AnswerOK, Answered, PendingRow
  <2> QED
    BY <1>2, <2>5, OnlyTurn
<1>5. CASE ~ok
  <2>1. pc'[t] = "check" /\ job' = job
    BY <1>3, <1>5 DEF GrantRead, AfterGrant, Goto, TypeInv, TurnsOK
  <2>2. Uses(t)'
    BY <1>1, <1>3, <2>1 DEF Uses, Uncalled
  <2>3. TurnInv(t)'
    BY <1>1, <1>2, <1>3, <2>1, <2>2 DEF TurnInv, DialogOK, AskingOK, AnswerOK, Answered
  <2> QED
    BY <1>2, <2>3, OnlyTurn
<1> QED
  BY <1>4, <1>5

LEMMA GrantWriteOne ==
    ASSUME OneTurn, TypeInv, OneInv, NEW t \in Turns, GrantWrite(t)
    PROVE  OneInv'
<1>1. /\ pc[t] = "grant" /\ pc'[t] = "resume" /\ job' = job
      /\ approvals' = [approvals EXCEPT ![job[t].req].status = "granted"]
      /\ UNCHANGED <<ran, saved, pending>>
  BY DEF GrantWrite, Goto, TypeInv, TurnsOK, ctxVars
<1>2. TurnInv(t) /\ RequestsOK /\ PendingRow(job[t].req) /\ pending = None
  BY <1>1 DEF OneInv, TurnInv, DialogOK, AnswerOK, Answered
<1>3. job[t].origin = "approved" /\ Uses(t)
  BY <1>1, <1>2 DEF TurnInv, AnswerOK, Answered
<1>4. "granted" \in ApprovalStatus
  BY DEF ApprovalStatus
<1>5. /\ RequestsOK' /\ DOMAIN approvals' = DOMAIN approvals
      /\ \A j \in DOMAIN approvals : approvals'[j].prop = approvals[j].prop
  BY <1>1, <1>2, <1>4, StatusSetOne DEF PendingRow
<1>6. Uses(t)'
  BY <1>1, <1>3, <1>5 DEF Uses, Uncalled
<1>7. TurnInv(t)'
  BY <1>1, <1>2, <1>3, <1>6 DEF TurnInv, DialogOK, AskingOK, AnswerOK, Answered
<1> QED
  BY <1>5, <1>7, OnlyTurn

LEMMA AnswerOne ==
    ASSUME OneTurn, TypeInv, OneInv, NEW t \in Turns, Answer(t)
    PROVE  OneInv'
<1>0. TurnInv(t) /\ RequestsOK
  BY DEF OneInv
<1>1. CASE AnswerClarify(t)
  <2>1. /\ pc[t] = "classify" /\ Leave(t, "idle")
        /\ UNCHANGED <<approvals, ran, saved, pending, slots>>
    BY <1>1 DEF AnswerClarify, dbVars, ctxVars
  <2>2. Answerable(pending)'
    BY <1>0, <2>1 DEF TurnInv, DialogOK, Answerable, PendingRow
  <2> QED
    BY <2>1, <2>2, LeaveOne
<1>2. CASE AnswerUnrelated(t)
  BY <1>2, LeaveOne DEF AnswerUnrelated, dbVars
<1>3. CASE AnswerReject(t)
  <2>1. pc[t] = "classify" /\ UNCHANGED <<approvals, ran, saved>>
    BY <1>3 DEF AnswerReject, dbVars
  <2>2. CASE active
    <3>1. pc'[t] = "abandon" /\ job' = job /\ pending' = pending
      BY <1>3, <2>2 DEF AnswerReject, Goto, TypeInv, TurnsOK
    <3>2. RequestsOK'
      BY <1>0, <2>1, RequestsKept
    <3>3. TurnInv(t)'
      BY <1>0, <2>1, <3>1 DEF TurnInv, DialogOK, AskingOK, AnswerOK, Answered
    <3> QED
      BY <3>2, <3>3, OnlyTurn
  <2>3. CASE ~active
    <3>1. Leave(t, "idle") /\ pending' = None
      BY <1>3, <2>3 DEF AnswerReject
    <3> QED
      BY <2>1, <3>1, LeaveOne
  <2> QED
    BY <2>2, <2>3
<1>4. CASE ResumeTask(t)
  <2>1. pc[t] = "resume" /\ job' = job /\ UNCHANGED <<approvals, ran, saved, pending>>
    BY <1>4 DEF ResumeTask, ctxVars
  <2>2. job[t].origin = "approved" /\ Uses(t) /\ pending = None
    BY <1>0, <2>1 DEF TurnInv, DialogOK, AnswerOK, Answered
  <2>3. pc'[t] = "check"
    BY <1>4, <2>2 DEF ResumeTask, AfterGrant, Goto, TypeInv, TurnsOK
  <2>4. RequestsOK' /\ Uses(t)'
    BY <1>0, <2>1, <2>2, RequestsKept DEF Uses, Uncalled
  <2>5. TurnInv(t)'
    BY <1>0, <2>1, <2>2, <2>3, <2>4 DEF TurnInv, DialogOK, AskingOK, AnswerOK, Answered
  <2> QED
    BY <2>4, <2>5, OnlyTurn
<1>5. CASE ExecuteProposal(t)
  <2>1. pc[t] = "check" /\ UNCHANGED <<approvals, ran, saved, pending>>
    BY <1>5 DEF ExecuteProposal, dbVars, ctxVars
  <2>2. CASE ~Succeeded(job[t].prop) /\ Validates(job[t].apr, job[t].prop)
    <3>1. pc'[t] = "policy" /\ job' = job /\ approvals[job[t].apr].status = "granted"
      BY <1>5, <2>2 DEF ExecuteProposal, Validates, Goto, TypeInv, TurnsOK
    <3>2. job[t].origin = "approved" /\ Uses(t) /\ pending = None
      BY <1>0, <2>1 DEF TurnInv, DialogOK, AnswerOK, Answered
    <3>3. RequestsOK' /\ Uses(t)'
      BY <1>0, <2>1, <3>1, <3>2, RequestsKept DEF Uses, Uncalled
    <3>4. TurnInv(t)'
      BY <1>0, <2>1, <3>1, <3>2, <3>3 DEF TurnInv, DialogOK, AskingOK, AnswerOK, Answered
    <3> QED
      BY <3>3, <3>4, OnlyTurn
  <2>3. CASE ~(~Succeeded(job[t].prop) /\ Validates(job[t].apr, job[t].prop))
    <3>1. Leave(t, "idle")
      BY <1>5, <2>3 DEF ExecuteProposal
    <3> QED
      BY <2>1, <3>1, LeaveClosed
  <2> QED
    BY <2>2, <2>3
<1>6. CASE \E q \in Proposals : Repropose(t, q)
  BY <1>0, <1>6 DEF Repropose, TurnInv, AnswerOK
<1> QED
  BY <1>1, <1>2, <1>3, <1>4, <1>5, <1>6, AnswerApproveOne, GrantReadOne, GrantWriteOne
  DEF Answer

LEMMA AbandonOne ==
    ASSUME OneTurn, TypeInv, OneInv, NEW t \in Turns, Abandon(t)
    PROVE  OneInv'
<1>0. TurnInv(t) /\ RequestsOK /\ job[t] \in Locals
  BY DEF OneInv, TypeInv, TurnsOK, TurnOK
<1>1. CASE AbandonRead(t)
  <2>1. /\ pc[t] = "abandon" /\ UNCHANGED <<approvals, ran, saved, pending>>
        /\ pc'[t] = IF NewestPending # 0 THEN "deny" ELSE "cancel"
        /\ job'[t] = [job[t] EXCEPT !.task = taskRow, !.apr = NewestPending]
    BY <1>1 DEF AbandonRead, Goto, TypeInv, TurnsOK, dbVars, ctxVars
  <2>2. taskRow \in TaskStatus /\ NewestPending \in Nat
    BY RowIndices DEF TypeInv, RowsOK
  <2>3. job'[t].apr = NewestPending /\ job'[t].origin = job[t].origin
    BY <1>0, <2>1, <2>2 DEF Locals
  <2>4. NewestPending # 0 => PendingRow(job[t].apr)'
    BY <2>1, <2>3, NewestPendingRow DEF PendingRow, PendingApprovals
  <2>5. RequestsOK'
    BY <1>0, <2>1, RequestsKept
  <2>6. TurnInv(t)'
    BY <1>0, <2>1, <2>3, <2>4
    DEF TurnInv, DialogOK, AskingOK, AnswerOK, Answered, PendingRow
  <2> QED
    BY <2>5, <2>6, OnlyTurn
<1>2. CASE AbandonDeny(t)
  <2>1. /\ pc[t] = "deny" /\ pc'[t] = "cancel" /\ job' = job
        /\ approvals' = [approvals EXCEPT ![job[t].apr].status = "denied"]
        /\ UNCHANGED <<ran, saved, pending>>
    BY <1>2 DEF AbandonDeny, Goto, TypeInv, TurnsOK, ctxVars
  <2>2. PendingRow(job[t].apr) /\ "denied" \in ApprovalStatus
    BY <1>0, <2>1 DEF TurnInv, AnswerOK, ApprovalStatus
  <2>3. RequestsOK'
    BY <1>0, <2>1, <2>2, StatusSetOne DEF PendingRow
  <2>4. TurnInv(t)'
    BY <1>0, <2>1 DEF TurnInv, DialogOK, AskingOK, AnswerOK, Answered
  <2> QED
    BY <2>3, <2>4, OnlyTurn
<1>3. CASE AbandonCancel(t)
  BY <1>3, LeaveOne DEF AbandonCancel
<1> QED
  BY <1>1, <1>2, <1>3 DEF Abandon

LEMMA RecoveryResumeOne ==
    ASSUME OneTurn, TypeInv, OneInv, NEW t \in Turns, RecoveryResume(t)
    PROVE  OneInv'
<1> DEFINE i == job[t].apr
           p == approvals[i].prop
           ids == [apr |-> i, prop |-> p]
<1>1. pc[t] = "reopen" /\ UNCHANGED <<approvals, ran, saved>>
  BY DEF RecoveryResume
<1>2. CASE job[t].task = "waiting_approval" /\ i # 0
  <2>1. pending' = p /\ slots' = [slots EXCEPT ![p] = ids] /\ Leave(t, "idle")
    BY <1>2 DEF RecoveryResume
  <2>2. PendingRow(i)
    BY <1>1, <1>2 DEF OneInv, TurnInv, AnswerOK
  <2>3. p \in Proposals /\ slots \in [Proposals -> [apr : Nat, prop : saved \cup {None}]]
    BY <2>2 DEF PendingRow, TypeInv, RowsOK, MemoryOK
  <2>4. slots'[p] = ids /\ ids.apr = i /\ ids.prop = p
    BY <2>1, <2>3
  <2>5. /\ slots'[pending'].apr = i /\ slots'[pending'].prop = pending'
        /\ approvals'[i].prop = pending'
    BY <1>1, <2>1, <2>4
  <2> HIDE DEF i, ids
  <2>6. Answerable(pending)'
    BY <1>1, <2>2, <2>5 DEF Answerable, PendingRow
  <2> QED
    BY <1>1, <2>1, <2>6, LeaveOne
<1>3. CASE ~(job[t].task = "waiting_approval" /\ i # 0)
  BY <1>1, <1>3, LeaveClosed DEF RecoveryResume
<1> QED
  BY <1>2, <1>3

LEMMA RecoverOne ==
    ASSUME OneTurn, TypeInv, OneInv, NEW t \in Turns, Recover(t)
    PROVE  OneInv'
<1>0. TurnInv(t) /\ RequestsOK /\ job[t] \in Locals
  BY DEF OneInv, TypeInv, TurnsOK, TurnOK
<1>1. CASE RecoveryCommand(t)
  <2>1. /\ pc[t] = "route" /\ pc'[t] \in {"route", "recovery"} /\ job' = job
        /\ UNCHANGED <<approvals, ran, saved, pending>>
    BY <1>1 DEF RecoveryCommand, Goto, TypeInv, TurnsOK
  <2>2. RequestsOK'
    BY <1>0, <2>1, RequestsKept
  <2>3. TurnInv(t)'
    BY <1>0, <2>1 DEF TurnInv, DialogOK, AskingOK, AnswerOK, Answered
  <2> QED
    BY <2>2, <2>3, OnlyTurn
<1>2. CASE RecoveryStatus(t)
  BY <1>2, LeaveClosed DEF RecoveryStatus, dbVars, ctxVars
<1>3. CASE RecoveryCancel(t)
  <2>1. /\ pc[t] = "recovery" /\ pc'[t] = "abandon"
        /\ job'[t] = [job[t] EXCEPT !.quits = TRUE]
        /\ UNCHANGED <<approvals, ran, saved, pending>>
    BY <1>3 DEF RecoveryCancel, Goto, TypeInv, TurnsOK, dbVars, ctxVars
  <2>2. job'[t].origin = job[t].origin
    BY <1>0, <2>1 DEF Locals
  <2>3. RequestsOK'
    BY <1>0, <2>1, RequestsKept
  <2>4. TurnInv(t)'
    BY <1>0, <2>1, <2>2 DEF TurnInv, DialogOK, AskingOK, AnswerOK, Answered
  <2> QED
    BY <2>3, <2>4, OnlyTurn
<1>4. CASE RecoveryContinue(t)
  <2>1. pc[t] = "recovery" /\ UNCHANGED <<approvals, ran, saved, pending>>
    BY <1>4 DEF RecoveryContinue, dbVars, ctxVars
  <2>2. CASE taskRow \in Recoverable
    <3>1. /\ pc'[t] = "reopen"
          /\ job'[t] = [job[t] EXCEPT !.task = taskRow, !.apr = NewestPending]
      BY <1>4, <2>2 DEF RecoveryContinue, Goto, TypeInv, TurnsOK
    <3>2. taskRow \in TaskStatus /\ NewestPending \in Nat
      BY RowIndices DEF TypeInv, RowsOK
    <3>3. job'[t].apr = NewestPending /\ job'[t].origin = job[t].origin
      BY <1>0, <3>1, <3>2 DEF Locals
    <3>4. NewestPending # 0 => PendingRow(job[t].apr)'
      BY <2>1, <3>3, NewestPendingRow DEF PendingRow, PendingApprovals
    <3>5. RequestsOK'
      BY <1>0, <2>1, RequestsKept
    <3>6. TurnInv(t)'
      BY <1>0, <2>1, <3>1, <3>3, <3>4
      DEF TurnInv, DialogOK, AskingOK, AnswerOK, Answered, PendingRow
    <3> QED
      BY <3>5, <3>6, OnlyTurn
  <2>3. CASE taskRow \notin Recoverable
    BY <1>4, <2>1, <2>3, LeaveClosed DEF RecoveryContinue
  <2> QED
    BY <2>2, <2>3
<1> QED
  BY <1>1, <1>2, <1>3, <1>4, RecoveryResumeOne DEF Recover

-----------------------------------------------------------------------------
(* The invariant.                                                           *)

LEMMA OneStep ==
    ASSUME OneTurn, IInv, OneInv, [Next]_vars
    PROVE  OneInv'
<1> USE DEF IInv
<1>1. CASE \E t \in Turns : \/ Route(t) \/ Plan(t) \/ Run(t) \/ Answer(t)
                             \/ Abandon(t) \/ Recover(t)
  BY <1>1, RouteOne, PlanOne, RunOne, AnswerOne, AbandonOne, RecoverOne
<1>2. CASE Restart
  <2>1. RequestsOK' /\ pending' = None
    BY <1>2, RequestsKept DEF Restart, OneInv
  <2>2. \A t \in Turns : pc'[t] = "idle" /\ job'[t].origin = "planner"
    BY <1>2, IdleLocals DEF Restart
  <2> QED
    BY <2>1, <2>2 DEF OneInv, TurnInv, DialogOK, AskingOK, AnswerOK, Answered
<1>3. CASE UNCHANGED vars
  BY <1>3
  DEF vars, dbVars, cacheVars, ctxVars, OneInv, RequestsOK, Requests, Uncalled, TurnInv,
      DialogOK, AskingOK, AnswerOK, Answered, Answerable, PendingRow, Fresh, OwnRequest, Uses
<1> QED
  BY <1>1, <1>2, <1>3 DEF Next

LEMMA OneInvariance ==
    ASSUME OneTurn
    PROVE  Spec => [](IInv /\ OneInv)
<1>1. Init => IInv /\ OneInv
  BY InitInv, InitOne
<1>2. IInv /\ OneInv /\ [Next]_vars => (IInv /\ OneInv)'
  <2>1. IInv /\ [Next]_vars => IInv'
    BY TypeStep, AuthStep, AttemptStep DEF IInv
  <2> QED
    BY <2>1, OneStep
<1> QED
  BY <1>1, <1>2, PTL DEF Spec

\* A dialogue the user can see is bound to the pending request of the very proposal
\* it shows, although on_approval_pending, the answers and the recovery commands
\* write dialogue, slots and request one by one.
THEOREM DialogsAnswerable ==
    ASSUME OneTurn
    PROVE  Spec => []OpenDialogIsAnswerable
<1>1. IInv /\ OneInv => OpenDialogIsAnswerable
  <2> SUFFICES ASSUME TypeInv, OneInv, NEW t \in Turns,
                      pc[t] \in {"idle", "classify"}, pending # None
               PROVE  LET i == slots[pending].apr IN
                      /\ i \in DOMAIN approvals
                      /\ approvals[i] = [prop |-> pending, status |-> "pending"]
                      /\ slots[pending].prop = pending
    BY DEF IInv, OpenDialogIsAnswerable
  <2>1. Answerable(pending)
    BY DEF OneInv, TurnInv, DialogOK
  <2>2. \A i \in DOMAIN approvals : approvals[i] \in [prop : Proposals, status : ApprovalStatus]
    BY RowIndices, ElementOfSeq DEF TypeInv, RowsOK
  <2> QED
    BY <2>1, <2>2 DEF Answerable, PendingRow
<1> QED
  BY <1>1, OneInvariance, PTL

\* What is said of execute_proposal without a condition holds when the user waits: a
\* proposal runs at most once, also if its tool failed, since a dialogue answered is
\* closed and one opened again is bound to a request still pending.
THEOREM RunsOnce ==
    ASSUME OneTurn
    PROVE  Spec => []NoDoubleExecution
<1>1. IInv /\ OneInv => NoDoubleExecution
  <2> SUFFICES ASSUME IInv, OneInv, NEW p \in Proposals
               PROVE  Cardinality(Calls(p)) <= 1
    BY DEF NoDoubleExecution
  <2>1. ASSUME NEW m \in Calls(p), NEW n \in Calls(p) PROVE m = n
    <3>1. <<p, m>> \in ran /\ <<p, n>> \in ran
      BY DEF Calls
    <3> QED
      BY <3>1 DEF OneInv, RequestsOK
  <2>2. CASE Calls(p) = {}
    BY <2>2, FS_EmptySet
  <2>3. CASE Calls(p) # {}
    <3>1. PICK n : Calls(p) = {n}
      BY <2>1, <2>3
    <3> QED
      BY <3>1, FS_Singleton
  <2> QED
    BY <2>2, <2>3
<1> QED
  BY <1>1, OneInvariance, PTL

-----------------------------------------------------------------------------
(* The pipeline implements the approval gate.                               *)

Inv == IInv /\ OneInv

\* The calls of a proposal are those made: each has its attempt row.
LEMMA CallsMade ==
    Inv => \A p : \A n : n \in Calls(p) <=> <<p, n>> \in ran
BY DEF Inv, IInv, AttemptInv, AttemptRowsMatchCalls, Calls

\* Where a proposal is whose request has status st.
Stage(p, st) == IF ~Uncalled(p) THEN "done"
                ELSE IF st = "pending" THEN "asked"
                ELSE IF st = "granted" THEN "granted" ELSE "refused"

LEMMA GateRow ==
    Inv => \A p : \A i \in DOMAIN approvals :
        approvals[i].prop = p => GateOf(p) = Stage(p, approvals[i].status)
<1> SUFFICES ASSUME Inv, NEW i \in DOMAIN approvals, NEW p, p = approvals[i].prop,
                    NEW st, st = approvals[i].status
             PROVE  GateOf(p) = Stage(p, st)
  OBVIOUS
<1> USE DEF Stage
<1>0. RequestsOK /\ RowsOK /\ ran \subseteq Proposals \X Nat
  BY DEF Inv, IInv, OneInv, TypeInv, RowsOK
<1>1. st \in ApprovalStatus
  <2>1. approvals[i] \in [prop : Proposals, status : ApprovalStatus]
    BY <1>0, RowIndices, ElementOfSeq DEF RowsOK
  <2> QED
    BY <2>1
<1>2. Requests(p) = {i}
  BY <1>0 DEF RequestsOK, Requests
<1>3. (CHOOSE j \in Requests(p) : TRUE) = i
  BY <1>2
<1>4. CASE Uncalled(p)
  <2>1. \A n : <<p, n>> \notin ran
    BY <1>4 DEF Uncalled
  <2>2. Calls(p) = {} /\ Cardinality(Calls(p)) # 1
    <3>1. Calls(p) = {}
      BY <2>1, CallsMade
    <3> QED
      BY <3>1, FS_EmptySet
  <2>3. CASE st = "pending"
    BY <1>2, <1>3, <1>4, <2>2, <2>3 DEF GateOf
  <2>4. CASE st = "granted"
    BY <1>2, <1>3, <1>4, <2>2, <2>4 DEF GateOf
  <2>5. CASE st = "denied"
    BY <1>2, <1>3, <1>4, <2>2, <2>5 DEF GateOf
  <2> QED
    BY <1>1, <2>3, <2>4, <2>5 DEF ApprovalStatus
<1>5. CASE ~Uncalled(p)
  <2>1. st = "granted"
    BY <1>0, <1>5 DEF RequestsOK
  <2>2. PICK c \in ran : c[1] = p
    BY <1>5 DEF Uncalled
  <2>3. c = <<p, c[2]>>
    BY <1>0, <2>2
  <2>4. \A n : <<p, n>> \in ran => n = c[2]
    BY <1>0, <1>2, <2>2 DEF RequestsOK
  <2>5. Calls(p) = {c[2]}
    BY <2>2, <2>3, <2>4, CallsMade
  <2>6. Cardinality(Calls(p)) = 1
    BY <2>5, FS_Singleton
  <2> QED
    BY <1>2, <1>3, <1>5, <2>1, <2>5, <2>6 DEF GateOf
<1> QED
  BY <1>4, <1>5

\* A proposal none of whose rows and calls changed is where it was.
LEMMA GateFrame ==
    ASSUME NEW q, Requests(q)' = Requests(q), Calls(q)' = Calls(q),
           \A i \in Requests(q) : approvals'[i].status = approvals[i].status
    PROVE  GateOf(q)' = GateOf(q)
<1>1. CASE Requests(q) = {}
  BY <1>1 DEF GateOf
<1>2. CASE Requests(q) # {}
  <2>1. (CHOOSE i \in Requests(q) : TRUE) \in Requests(q)
    BY <1>2
  <2>2. (CHOOSE i \in Requests(q)' : TRUE) = (CHOOSE i \in Requests(q) : TRUE)
    OBVIOUS
  <2>3. approvals'[CHOOSE i \in Requests(q)' : TRUE].status
          = approvals[CHOOSE i \in Requests(q) : TRUE].status
    BY <2>1, <2>2
  <2> QED
    BY <1>2, <2>3 DEF GateOf
<1> QED
  BY <1>1, <1>2

LEMMA AdvanceOne ==
    ASSUME NEW a \in Proposals, NEW from, NEW to, GateOf(a) = from, GateOf(a)' = to,
           \A q \in Proposals : q # a => GateOf(q)' = GateOf(q)
    PROVE  Gate!Advance(a, from, to)
BY DEF Gate!Advance

LEMMA StutterOne ==
    ASSUME \A q \in Proposals : GateOf(q)' = GateOf(q)
    PROVE  UNCHANGED [p \in Proposals |-> GateOf(p)]
OBVIOUS

\* The same of the state a step leads to.
LEMMA NextGate ==
    ASSUME Inv'
    PROVE  /\ \A p : \A n : n \in Calls(p)' <=> <<p, n>> \in ran'
           /\ \A p : \A i \in DOMAIN approvals' :
                 approvals'[i].prop = p => GateOf(p)' = Stage(p, approvals[i].status)'
<1>1. (Inv => \A p : \A n : n \in Calls(p) <=> <<p, n>> \in ran)'
  BY CallsMade, PTL
<1>2. (Inv => \A p : \A i \in DOMAIN approvals :
          approvals[i].prop = p => GateOf(p) = Stage(p, approvals[i].status))'
  BY GateRow, PTL
<1> QED
  BY <1>1, <1>2

LEMMA CallsKept ==
    ASSUME Inv, Inv', NEW q, \A n : <<q, n>> \in ran' <=> <<q, n>> \in ran
    PROVE  Calls(q)' = Calls(q)
BY CallsMade, NextGate DEF Calls

LEMMA GateQuiet ==
    ASSUME Inv, Inv', UNCHANGED <<approvals, ran>>
    PROVE  UNCHANGED [p \in Proposals |-> GateOf(p)]
<1>1. ASSUME NEW q PROVE GateOf(q)' = GateOf(q)
  <2>1. Requests(q)' = Requests(q)
    BY DEF Requests
  <2>2. Calls(q)' = Calls(q)
    BY CallsKept
  <2> QED
    BY <2>1, <2>2, GateFrame
<1> QED
  BY <1>1, StutterOne

LEMMA GateAsk ==
    ASSUME Inv, Inv', NEW t \in Turns, CreateRequest(t)
    PROVE  \E a \in Proposals : Gate!Ask(a)
<1>1. /\ pc[t] = "request" /\ job[t].origin = "planner" /\ UNCHANGED <<ran, saved>>
      /\ approvals' = Append(approvals, [prop |-> job[t].prop, status |-> "pending"])
  BY DEF CreateRequest, Inv, IInv, AuthInv, AuthTurn
<1>2. job[t].prop \in saved /\ saved \subseteq Proposals /\ TypeInv
  BY <1>1 DEF Inv, IInv, TypeInv, TurnsOK, TurnOK, HasProposal, RowsOK
<1>3. PICK a \in Proposals : a = job[t].prop
  BY <1>2
<1>4. Requests(a) = {} /\ Uncalled(a)
  BY <1>1, <1>3 DEF Inv, OneInv, TurnInv, AskingOK, Fresh
<1>5. PICK n \in DOMAIN approvals' :
        /\ approvals'[n].prop = a /\ approvals'[n].status = "pending"
        /\ \A i : i \in DOMAIN approvals' <=> i = n \/ i \in DOMAIN approvals
        /\ \A i \in DOMAIN approvals : approvals'[i] = approvals[i]
  BY <1>1, <1>2, <1>3, RowAppended
<1>6. GateOf(a) = "unasked"
  BY <1>4 DEF GateOf
<1>7. Uncalled(a)'
  BY <1>1, <1>4 DEF Uncalled
<1>8. GateOf(a)' = "asked"
  BY <1>5, <1>7, NextGate DEF Stage
<1>9. ASSUME NEW q \in Proposals, q # a PROVE GateOf(q)' = GateOf(q)
  <2>1. Requests(q)' = Requests(q) /\ \A i \in Requests(q) : approvals'[i] = approvals[i]
    BY <1>5, <1>9 DEF Requests
  <2>2. Calls(q)' = Calls(q)
    BY <1>1, CallsKept
  <2> QED
    BY <2>1, <2>2, GateFrame
<1>10. Gate!Advance(a, "unasked", "asked")
  BY <1>6, <1>8, <1>9, AdvanceOne
<1> QED
  BY <1>10 DEF Gate!Ask

LEMMA GateStatusSet ==
    ASSUME Inv, Inv', NEW i \in DOMAIN approvals, approvals[i].status = "pending",
           NEW st \in {"granted", "denied"},
           approvals' = [approvals EXCEPT ![i].status = st], UNCHANGED <<ran, saved>>
    PROVE  \E a \in Proposals :
               Gate!Advance(a, "asked", IF st = "granted" THEN "granted" ELSE "refused")
<1>1. /\ DOMAIN approvals' = DOMAIN approvals
      /\ \A j \in DOMAIN approvals :
            /\ approvals'[j].prop = approvals[j].prop
            /\ approvals'[j].status = IF j = i THEN st ELSE approvals[j].status
  BY RequestStatusSet DEF Inv, IInv, TypeInv, ApprovalStatus
<1>2. PICK a \in Proposals : a = approvals[i].prop
  BY DEF Inv, IInv, TypeInv, RowsOK
<1>3. Uncalled(a) /\ Uncalled(a)'
  BY <1>2 DEF Inv, OneInv, RequestsOK, Uncalled
<1>4. GateOf(a) = "asked"
  BY <1>2, <1>3, GateRow DEF Stage
<1>5. GateOf(a)' = IF st = "granted" THEN "granted" ELSE "refused"
  BY <1>1, <1>2, <1>3, NextGate DEF Stage
<1>6. ASSUME NEW q \in Proposals, q # a PROVE GateOf(q)' = GateOf(q)
  <2>1. /\ Requests(q)' = Requests(q)
        /\ \A j \in Requests(q) : approvals'[j].status = approvals[j].status
    BY <1>1, <1>2, <1>6 DEF Requests
  <2>2. Calls(q)' = Calls(q)
    BY CallsKept
  <2> QED
    BY <2>1, <2>2, GateFrame
<1> QED
  BY <1>4, <1>5, <1>6, AdvanceOne

LEMMA GateRun ==
    ASSUME Inv, Inv', NEW t \in Turns, NEW ok \in BOOLEAN, RunTool(t, ok)
    PROVE  \/ \E a \in Proposals : Gate!Do(a)
           \/ UNCHANGED [p \in Proposals |-> GateOf(p)]
<1>1. /\ pc[t] = "run" /\ UNCHANGED <<approvals, saved>>
      /\ ran' = ran \cup {<<job[t].prop, job[t].att>>}
  BY DEF RunTool, dbVars
<1>2. /\ job[t].prop \in saved /\ saved \subseteq Proposals
      /\ job[t].origin \in Origins
  BY <1>1 DEF Inv, IInv, TypeInv, TurnsOK, TurnOK, HasProposal, RowsOK, Locals
<1>3. PICK a \in Proposals : a = job[t].prop
  BY <1>2
<1>4. PICK n : n = job[t].att
  OBVIOUS
<1>5. \A q : Requests(q)' = Requests(q)
  BY <1>1 DEF Requests
<1>6. ASSUME NEW q \in Proposals, q # a PROVE GateOf(q)' = GateOf(q)
  <2>1. Calls(q)' = Calls(q)
    BY <1>1, <1>3, <1>4, <1>6, CallsKept
  <2> QED
    BY <1>1, <1>5, <2>1, GateFrame
<1>7. CASE Requests(a) = {}
  <2>1. GateOf(a)' = GateOf(a)
    BY <1>5, <1>7 DEF GateOf
  <2> QED
    BY <1>6, <2>1, StutterOne
<1>8. CASE Requests(a) # {}
  <2>1. job[t].origin = "approved"
    BY <1>1, <1>2, <1>3, <1>8 DEF Origins, Inv, OneInv, TurnInv, AskingOK, AnswerOK
  <2>2. Uses(t) /\ approvals[job[t].apr].status = "granted"
    BY <1>1, <2>1 DEF Inv, OneInv, TurnInv, AnswerOK
  <2>3. PICK i \in DOMAIN approvals :
            approvals[i].prop = a /\ approvals[i].status = "granted"
    BY <1>3, <2>2 DEF Uses
  <2>4. Uncalled(a)
    BY <1>3, <2>2 DEF Uses
  <2>5. ~Uncalled(a)'
    <3>1. <<a, n>> \in ran' /\ <<a, n>>[1] = a
      BY <1>1, <1>3, <1>4
    <3> QED
      BY <3>1 DEF Uncalled
  <2>6. GateOf(a) = "granted"
    BY <2>3, <2>4, GateRow DEF Stage
  <2>7. GateOf(a)' = "done"
    BY <1>1, <2>3, <2>5, NextGate DEF Stage
  <2>8. Gate!Advance(a, "granted", "done")
    BY <1>6, <2>6, <2>7, AdvanceOne
  <2> QED
    BY <2>8 DEF Gate!Do
<1> QED
  BY <1>7, <1>8

\* No other step touches a request or calls a tool.
LEMMA GateSteps ==
    ASSUME NEW t \in Turns,
           Route(t) \/ Plan(t) \/ Run(t) \/ Answer(t) \/ Abandon(t) \/ Recover(t)
    PROVE  \/ CreateRequest(t) \/ GrantWrite(t) \/ AbandonDeny(t)
           \/ \E ok \in BOOLEAN : RunTool(t, ok)
           \/ UNCHANGED <<approvals, ran>>
<1> USE DEF dbVars
<1>1. CASE Route(t)
  BY <1>1 DEF Route, BeginTurn, Chat, RunGoal, LlmUnavailable
<1>2. CASE Plan(t)
  BY <1>2 DEF Plan, StartSession, Propose, PolicyDeny, MarkWaiting, SuspendForApproval,
              BindDialog
<1>3. CASE Run(t)
  BY <1>3 DEF Run, MarkStarted, SaveAttempt, RecordAttempt, Observe, VerifyCheckpoint,
              VerifyLaunch, SkipVerify, FinishSession
<1>4. CASE Answer(t)
  BY <1>4 DEF Answer, AnswerClarify, AnswerUnrelated, AnswerReject, AnswerApprove,
              GrantRead, ResumeTask, ExecuteProposal, Repropose
<1>5. CASE Abandon(t)
  BY <1>5 DEF Abandon, AbandonRead, AbandonCancel
<1>6. CASE Recover(t)
  BY <1>6 DEF Recover, RecoveryCommand, RecoveryStatus, RecoveryCancel,
              RecoveryContinue, RecoveryResume
<1> QED
  BY <1>1, <1>2, <1>3, <1>4, <1>5, <1>6

LEMMA GateStep ==
    ASSUME OneTurn, Inv, Inv', [Next]_vars
    PROVE  Gate!GateNext \/ UNCHANGED [p \in Proposals |-> GateOf(p)]
<1>1. ASSUME NEW t \in Turns, CreateRequest(t) PROVE Gate!GateNext
  BY <1>1, GateAsk DEF Gate!GateNext
<1>2. ASSUME NEW t \in Turns, GrantWrite(t) PROVE Gate!GateNext
  <2>1. /\ PendingRow(job[t].req) /\ UNCHANGED <<ran, saved>>
        /\ approvals' = [approvals EXCEPT ![job[t].req].status = "granted"]
    BY <1>2 DEF GrantWrite, Inv, OneInv, TurnInv, AnswerOK
  <2>2. \E a \in Proposals : Gate!Advance(a, "asked", "granted")
    BY <2>1, GateStatusSet DEF PendingRow
  <2> QED
    BY <2>2 DEF Gate!GateNext, Gate!Grant
<1>3. ASSUME NEW t \in Turns, AbandonDeny(t) PROVE Gate!GateNext
  <2>1. /\ PendingRow(job[t].apr) /\ UNCHANGED <<ran, saved>>
        /\ approvals' = [approvals EXCEPT ![job[t].apr].status = "denied"]
    BY <1>3 DEF AbandonDeny, Inv, OneInv, TurnInv, AnswerOK
  <2>2. \E a \in Proposals : Gate!Advance(a, "asked", "refused")
    BY <2>1, GateStatusSet DEF PendingRow
  <2> QED
    BY <2>2 DEF Gate!GateNext, Gate!Refuse
<1>4. ASSUME NEW t \in Turns, NEW ok \in BOOLEAN, RunTool(t, ok)
      PROVE  Gate!GateNext \/ UNCHANGED [p \in Proposals |-> GateOf(p)]
  BY <1>4, GateRun DEF Gate!GateNext
<1>5. CASE Restart \/ UNCHANGED vars
  BY <1>5, GateQuiet DEF Restart, vars, dbVars
<1> QED
  BY <1>1, <1>2, <1>3, <1>4, <1>5, GateSteps, GateQuiet DEF Next

\* What create_request, grant, abandon_task, validate_for_execution and the tool runs
\* do to a proposal the user is asked about is a behaviour of the approval gate: one
\* answer that is never revised, no call after a denial, and one call at most after a
\* grant, whatever dialogues were dropped, tasks recovered or processes restarted.
THEOREM GateImplemented ==
    ASSUME OneTurn
    PROVE  Spec => ImplementsGate
<1>1. Init => Gate!GateInit
  <2> SUFFICES ASSUME Init PROVE \A p \in Proposals : GateOf(p) = "unasked"
    BY DEF Gate!GateInit
  <2>1. \A p : Requests(p) = {}
    BY DEF Init, Requests
  <2> QED
    BY <2>1 DEF GateOf
<1>2. Inv /\ Inv' /\ [Next]_vars =>
          Gate!GateNext \/ UNCHANGED [p \in Proposals |-> GateOf(p)]
  BY GateStep
<1>3. Spec => []Inv
  BY OneInvariance DEF Inv
<1> QED
  BY <1>1, <1>2, <1>3, PTL DEF Spec, ImplementsGate, Gate!GateSpec
=============================================================================
