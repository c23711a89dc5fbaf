---------------------------- MODULE TaskLifecycle ----------------------------
(***************************************************************************)
(* The task and run life cycles of the hub: domain/tasks.py (TaskStatus,   *)
(* LEGAL_TASK_TRANSITIONS, transition_task, the Task validators),          *)
(* storage/models.py (RunStatus, RunRecord.validate_lifecycle) and the     *)
(* status-to-event table of storage/sqlite.py.                             *)
(*                                                                         *)
(* The module has no variables.  Statuses and event types keep the strings *)
(* of the source; a timestamp is a natural number and an absent one is     *)
(* NoTime.                                                                 *)
(***************************************************************************)
EXTENDS Integers

TaskStatus == {"pending", "queued", "planning", "running", "review", "qa",
               "blocked", "completed", "failed", "cancelled"}

Terminal == {"completed", "failed", "cancelled"}

\* The states whose first entry stamps started_at.
ActiveStates == {"planning", "running", "review", "qa", "blocked"}

LEGAL_TASK_TRANSITIONS ==
    [ s \in TaskStatus |->
        CASE s = "pending"  -> {"queued", "cancelled"}
          [] s = "queued"   -> {"planning", "running", "failed", "cancelled"}
          [] s = "planning" -> {"running", "blocked", "failed", "cancelled"}
          [] s = "running"  -> {"review", "qa", "blocked"} \cup Terminal
          [] s = "review"   -> {"running", "qa", "blocked"} \cup Terminal
          [] s = "qa"       -> {"running", "review", "blocked"} \cup Terminal
          [] s = "blocked"  -> {"queued", "planning", "running", "review",
                                "qa", "failed", "cancelled"}
          [] OTHER          -> {} ]

can_transition(current, target) == target \in LEGAL_TASK_TRANSITIONS[current]

-----------------------------------------------------------------------------
(* Events.                                                                 *)

EVENT_FOR_STATUS ==
    [ s \in TaskStatus |->
        CASE s = "pending"   -> "task.created"
          [] s = "queued"    -> "task.queued"
          [] s = "planning"  -> "task.started"
          [] s = "running"   -> "task.started"
          [] s = "review"    -> "review.started"
          [] s = "qa"        -> "qa.started"
          [] s = "blocked"   -> "task.blocked"
          [] s = "completed" -> "task.completed"
          [] s = "failed"    -> "task.failed"
          [] s = "cancelled" -> "task.cancelled" ]

LifecycleTypes == {"task.created", "task.queued", "task.started",
                   "review.started", "qa.started", "task.blocked",
                   "task.completed", "task.failed", "task.cancelled"}

\* _ATOMIC_TASK_EVENT_TYPES: written only together with the task row.
AtomicTypes == LifecycleTypes \cup {"agent.assigned"}

\* One representative of the event types that do not touch the task row.
OtherTypes == {"artifact.created"}

-----------------------------------------------------------------------------
(* Timestamps and task rows.                                               *)

NoTime == -1

\* Task.validate_timestamps: what every decodable task row satisfies.
validate_timestamps(row) ==
    /\ row.started # NoTime => row.started >= row.created
    /\ row.completed # NoTime => /\ row.completed >= row.created
                                 /\ row.started # NoTime =>
                                      row.completed >= row.started
    /\ (row.status \in Terminal) <=> (row.completed # NoTime)

\* Mutants of TransitionAllowed: the life cycle, or the start time, is not
\* consulted.
TransitionAllowed_AnyTarget(row, target, at) == at >= row.created

TransitionAllowed_BeforeStart(row, target, at) ==
    /\ can_transition(row.status, target)
    /\ at >= row.created

\* The conditions under which domain transition_task returns a new snapshot.
TransitionAllowed(row, target, at) ==
    /\ can_transition(row.status, target)
    /\ at >= row.created
    /\ row.started # NoTime => at >= row.started

\* The snapshot it returns.
Transitioned(row, target, at) ==
    [row EXCEPT
        !.status    = target,
        !.started   = IF target \in ActiveStates /\ row.started = NoTime
                      THEN at ELSE row.started,
        !.completed = IF target \in Terminal THEN at ELSE row.completed]

-----------------------------------------------------------------------------
(* Runs.                                                                   *)

RunStatus == {"queued", "running", "succeeded", "failed", "timed-out",
              "cancelled", "interrupted"}

RunActive   == {"queued", "running"}
RunTerminal == RunStatus \ RunActive

\* RunRecord.validate_lifecycle: what every decodable run row satisfies.
validate_lifecycle(run) ==
    /\ run.started # NoTime => run.started >= run.created
    /\ run.status = "queued" => run.started = NoTime /\ run.completed = NoTime
    /\ run.status = "running" => run.started # NoTime /\ run.completed = NoTime
    /\ run.status \in RunTerminal =>
         /\ run.started # NoTime
         /\ run.completed # NoTime
         /\ run.completed >= run.started
=============================================================================
