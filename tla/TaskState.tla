----------------------------- MODULE TaskState -----------------------------
(***************************************************************************)
(* The task status machine of state.py: the statuses a row of table tasks   *)
(* may hold and the edges state.transition accepts.                         *)
(***************************************************************************)

Statuses ==
    {"QUEUED", "READY", "RUNNING", "WAITING_CONTROLLER", "WAITING_EXECUTOR",
     "COMPLETED", "BLOCKED", "INTERRUPTED", "FAILED", "CANCELLED"}

\* A task_id with no row in table tasks.
Absent == "absent"

LegalTransitions ==
    [s \in Statuses |->
        CASE s = "QUEUED" -> {"READY", "CANCELLED"}
          [] s = "READY" -> {"RUNNING", "BLOCKED", "CANCELLED"}
          [] s = "RUNNING" ->
               {"WAITING_CONTROLLER", "WAITING_EXECUTOR", "COMPLETED",
                "BLOCKED", "INTERRUPTED", "FAILED", "CANCELLED"}
          [] s \in {"WAITING_CONTROLLER", "WAITING_EXECUTOR"} ->
               {"READY", "RUNNING", "BLOCKED", "CANCELLED"}
          [] s \in {"BLOCKED", "FAILED"} -> {"READY", "CANCELLED"}
          [] s = "INTERRUPTED" -> {"READY", "RUNNING", "FAILED", "CANCELLED"}
          [] s \in {"COMPLETED", "CANCELLED"} -> {}]

Legal(from, to) == from \in Statuses /\ to \in LegalTransitions[from]

\* What an executor may report, and the status execute_task derives from it.
ExecutorVerdicts == {"SUCCESS", "FAILED", "INTERRUPTED"}

FinalStatus ==
    [v \in ExecutorVerdicts |->
        CASE v = "SUCCESS" -> "WAITING_CONTROLLER"
          [] v = "INTERRUPTED" -> "INTERRUPTED"
          [] v = "FAILED" -> "FAILED"]

\* Statuses whose result the worker delivers (worker._pending_delivery_tasks).
Deliverable == {"WAITING_CONTROLLER", "FAILED", "INTERRUPTED"}
=============================================================================
