------------------------------ MODULE TaskTable ------------------------------
(***************************************************************************)
(* What the durable store promises its callers, without event log, clock   *)
(* or row versions: every call is one atomic step, a task only moves along *)
(* LEGAL_TASK_TRANSITIONS, a run only moves queued -> running -> closed,   *)
(* and a restart closes what the previous process left open.               *)
(*                                                                         *)
(* TaskStore implements this specification (TaskStore!Table); Orchestrator *)
(* is built on it.  A call that raises leaves the tables alone, so it is a *)
(* stuttering step here.                                                   *)
(***************************************************************************)
EXTENDS TaskLifecycle

CONSTANTS TaskId,      \* task identifiers
          Agent,       \* agents that can be assigned
          RunId        \* run identifiers

VARIABLES status,      \* status[t]: status of each stored task
          assigned,    \* assigned[t]: agents assigned to it
          run          \* run[r]: task and status of each stored run

tableVars == <<status, assigned, run>>

RunRow == [task : TaskId, status : RunStatus]

\* INSERT (or UPDATE) of the row with key k.
Put(f, k, v) == [x \in DOMAIN f \cup {k} |-> IF x = k THEN v ELSE f[x]]

TableTypeOK ==
    /\ DOMAIN status \subseteq TaskId
    /\ status \in [DOMAIN status -> TaskStatus]
    /\ assigned \in [DOMAIN status -> SUBSET Agent]
    /\ DOMAIN run \subseteq RunId
    /\ run \in [DOMAIN run -> RunRow]

EmptyTable == [k \in {} |-> k]

TableInit ==
    /\ status = EmptyTable
    /\ assigned = EmptyTable
    /\ run = EmptyTable

-----------------------------------------------------------------------------
\* create_task leaves the task pending, create_queued_task queued.
TableCreate(t, s) ==
    /\ s \in {"pending", "queued"}
    /\ t \notin DOMAIN status
    /\ status' = Put(status, t, s)
    /\ assigned' = Put(assigned, t, {})
    /\ UNCHANGED run

\* transition_task and cancel_task.
TableTransition(t, target) ==
    /\ t \in DOMAIN status
    /\ can_transition(status[t], target)
    /\ status' = [status EXCEPT ![t] = target]
    /\ UNCHANGED <<assigned, run>>

\* assign_task, whose event states the status `seen` its caller read.
TableAssign(t, a, seen) ==
    /\ t \in DOMAIN status
    /\ status[t] = seen
    /\ a \notin assigned[t]
    /\ assigned' = [assigned EXCEPT ![t] = @ \cup {a}]
    /\ UNCHANGED <<status, run>>

TableCreateRun(r, t) ==
    /\ r \notin DOMAIN run
    /\ t \in DOMAIN status
    /\ run' = Put(run, r, [task |-> t, status |-> "queued"])
    /\ UNCHANGED <<status, assigned>>

TableStartRun(r) ==
    /\ r \in DOMAIN run
    /\ run[r].status = "queued"
    /\ run' = [run EXCEPT ![r].status = "running"]
    /\ UNCHANGED <<status, assigned>>

TableFinishRun(r, outcome) ==
    /\ outcome \in RunTerminal
    /\ r \in DOMAIN run
    /\ run[r].status \in RunActive
    /\ run' = [run EXCEPT ![r].status = outcome]
    /\ UNCHANGED <<status, assigned>>

\* Mutants of TableReconcile: interrupted tasks are queued again with a clean
\* slate, or only the runs are closed.
TableReconcile_Requeue ==
    LET open == {t \in DOMAIN status : status[t] \in {"planning", "running"}} IN
    /\ status' = [t \in DOMAIN status |-> IF t \in open THEN "queued" ELSE status[t]]
    /\ assigned' = [t \in DOMAIN status |-> IF t \in open THEN {} ELSE assigned[t]]
    /\ run' = [r \in DOMAIN run |->
                 IF run[r].status \in RunActive
                 THEN [run[r] EXCEPT !.status = "interrupted"] ELSE run[r]]

TableReconcile_RunsOnly ==
    /\ run' = [r \in DOMAIN run |->
                 IF run[r].status \in RunActive
                 THEN [run[r] EXCEPT !.status = "interrupted"] ELSE run[r]]
    /\ UNCHANGED <<status, assigned>>

\* reconcile_interrupted_running: one transaction over both tables.
TableReconcile ==
    /\ status' = [t \in DOMAIN status |->
                    IF status[t] \in {"planning", "running"} THEN "blocked"
                    ELSE status[t]]
    /\ run' = [r \in DOMAIN run |->
                 IF run[r].status \in RunActive
                 THEN [run[r] EXCEPT !.status = "interrupted"] ELSE run[r]]
    /\ UNCHANGED assigned

TableNext ==
    \/ \E t \in TaskId :
         \/ \E s \in {"pending", "queued"} : TableCreate(t, s)
         \/ \E target \in TaskStatus : TableTransition(t, target)
         \/ \E a \in Agent, seen \in TaskStatus : TableAssign(t, a, seen)
         \/ \E r \in RunId : TableCreateRun(r, t)
    \/ \E r \in RunId :
         \/ TableStartRun(r)
         \/ \E outcome \in RunTerminal : TableFinishRun(r, outcome)
    \/ TableReconcile

TableSpec == TableInit /\ [][TableNext]_tableVars
=============================================================================
