--------------------------- MODULE TaskLifecycle ---------------------------
(***************************************************************************)
(* The status machine of a Task: the table of domain/task/transitions.py   *)
(* and the two predicates the services ask of it.  Task.transition_to      *)
(* refuses a change the table does not list and returns the task as it     *)
(* was; services that ignore the refusal go on with the old value, which   *)
(* is what Moved models.                                                   *)
(***************************************************************************)

WaitingStatus == {"waiting_approval", "waiting_user", "waiting_resource"}

TaskStatus ==
    WaitingStatus \cup
    {"draft", "queued", "planning", "running", "suspended", "interrupted",
     "partially_completed", "completed", "failed", "cancelled"}

\* Successors[s]: the statuses a task in status s may be moved to.
Successors ==
    [s \in TaskStatus |->
        CASE s = "draft"   -> {"queued", "planning", "cancelled"}
          [] s = "queued"  -> {"planning", "running", "cancelled"}
          [] s = "planning" -> {"running", "failed", "cancelled"}
          [] s = "running" ->
                WaitingStatus \cup
                {"suspended", "interrupted", "partially_completed",
                 "completed", "failed", "cancelled"}
          [] s \in WaitingStatus -> {"running", "failed", "cancelled"}
          [] s = "suspended" ->
                {"running", "cancelled", "failed", "partially_completed"}
          [] s = "interrupted" -> {"running", "suspended", "cancelled", "failed"}
          [] s = "partially_completed" -> {"running", "completed", "cancelled"}
          [] s = "failed" -> {"running", "cancelled"}
          [] s \in {"completed", "cancelled"} -> {}]

\* A status may always be "changed" to itself.
CanTransition(old, new) == old = new \/ new \in Successors[old]

\* The status a task object has after transition_to(new), refused or not.
Moved(old, new) == IF CanTransition(old, new) THEN new ELSE old

\* The row after a service applied transition_to(new) to an object whose
\* status is old and wrote it back only if the transition was accepted: the
\* write replaces whatever the row holds by now.
Written(row, old, new) == IF CanTransition(old, new) THEN new ELSE row

\* Statuses get_recoverable selects, which validate_resume_snapshot accepts.
Recoverable == WaitingStatus \cup {"running", "suspended", "interrupted"}

\* Statuses the recovery turn takes for a task that is over.
Over == {"completed", "cancelled", "failed"}

\* The two statuses the table gives no way out of.
Terminal == {s \in TaskStatus : Successors[s] = {}}
=============================================================================
