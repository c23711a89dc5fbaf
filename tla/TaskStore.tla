------------------------------ MODULE TaskStore ------------------------------
(***************************************************************************)
(* The task tables of SQLiteStore (storage/sqlite.py): tasks, events,      *)
(* runs, artifacts and task_routes, one action per write operation.        *)
(*                                                                         *)
(* Every operation runs under the store's RLock inside BEGIN IMMEDIATE ... *)
(* COMMIT and is rolled back by any exception, so it is one atomic step    *)
(* that either commits or leaves the tables alone; the guard of an action  *)
(* is the conjunction of the conditions under which the code does not      *)
(* raise.  What callers supply (event ids, timestamps, payload statuses,   *)
(* agents) is chosen from the constants, stale, repeated and out-of-order  *)
(* values included.                                                        *)
(*                                                                         *)
(* Abstracted: project, team, request text and correlation ids (constant   *)
(* for a task, compared and copied only); the JSON form of an event is its *)
(* record, so "same JSON" is record equality.                              *)
(***************************************************************************)
EXTENDS TaskLifecycle, Sequences, FiniteSets

CONSTANTS TaskId,      \* task ids; numbers, because the code sorts by them
          EventId,     \* event ids; |EventId| bounds the length of the log
          Agent,       \* agent ids
          RunId,       \* run ids
          ArtifactId,  \* artifact ids
          Route,       \* (source, target) pairs of reply routes
          Time         \* timestamps

ASSUME TaskIdAssumption == TaskId \subseteq Nat
ASSUME TimeAssumption == Time \subseteq Nat

NoTask  == -1
NoAgent == "none"
NoRoute == "none"
NoRun   == "none"

ASSUME AgentAssumption == NoAgent \notin Agent

VARIABLES tasks,      \* tasks[t]: row of each stored task
          events,     \* the events table in order of its sequence column
          runs,       \* runs[r]: row of each stored run
          artifacts,  \* artifacts[a]: row of each stored artifact
          routes      \* routes[t]: reply route of a task

storeVars == <<tasks, events, runs, artifacts, routes>>

OptTime == Time \cup {NoTime}

TaskRow == [status : TaskStatus, version : Nat, agents : SUBSET Agent,
            created : Time, started : OptTime, completed : OptTime,
            updated : Time]

Event == [id : EventId, type : AtomicTypes \cup OtherTypes,
          task : TaskId \cup {NoTask}, status : TaskStatus \cup {"none"},
          agent : Agent \cup {NoAgent}, at : Time]

RunRow == [task : TaskId, status : RunStatus, created : Time,
           started : OptTime, completed : OptTime]

ArtifactRow == [task : TaskId, run : RunId \cup {NoRun}]

EmptyTable == [k \in {} |-> k]

\* INSERT (or UPDATE) of the row with key k.
Put(table, k, row) ==
    [x \in DOMAIN table \cup {k} |-> IF x = k THEN row ELSE table[x]]

-----------------------------------------------------------------------------
(* The event log.                                                          *)

\* _event_json_locked: is there a row with this id, and is it this event?
IdUsed(log, id)  == \E i \in DOMAIN log : log[i].id = id
Recorded(log, e) == \E i \in DOMAIN log : log[i] = e

\* _append_event_locked: an id reused with other content raises, a repeated
\* event is accepted and inserts nothing.
AppendAllowed(log, e) == IdUsed(log, e.id) => Recorded(log, e)
AppendLocked(log, e)  == IF IdUsed(log, e.id) THEN log ELSE Append(log, e)

\* An event of the status `s`, as its builders in the application make it.
StatusEvent(id, t, s, at) ==
    [id |-> id, type |-> EVENT_FOR_STATUS[s], task |-> t, status |-> s,
     agent |-> NoAgent, at |-> at]

AssignEvent(id, t, a, s, at) ==
    [id |-> id, type |-> "agent.assigned", task |-> t, status |-> s,
     agent |-> a, at |-> at]

OtherEvent(id, type, t, at) ==
    [id |-> id, type |-> type, task |-> t, status |-> "none",
     agent |-> NoAgent, at |-> at]

validate_lifecycle_event(t, target, e) ==
    /\ e.type = EVENT_FOR_STATUS[target]
    /\ e.task = t
    /\ e.status = target

NewTaskRow(created) ==
    [status |-> "pending", version |-> 1, agents |-> {}, created |-> created,
     started |-> NoTime, completed |-> NoTime, updated |-> created]

\* Mutant of Stamped: updated_at taken from completed_at.
Stamped_Completed(row, at) ==
    [row EXCEPT !.version = row.version + 1, !.updated = row.completed]

\* The UPDATE of a task row: next version, time of the event.
Stamped(row, at) == [row EXCEPT !.version = row.version + 1, !.updated = at]

Assigned(row, a) == [row EXCEPT !.agents = row.agents \cup {a}]

Init ==
    /\ tasks = EmptyTable
    /\ events = <<>>
    /\ runs = EmptyTable
    /\ artifacts = EmptyTable
    /\ routes = EmptyTable

-----------------------------------------------------------------------------
(* Task operations.                                                        *)

\* Insert a pending task with its task.created event.
create_task(t, created, e) ==
    /\ validate_lifecycle_event(t, "pending", e)
    /\ t \notin DOMAIN tasks
    /\ AppendAllowed(events, e)
    /\ tasks' = Put(tasks, t, [NewTaskRow(created) EXCEPT !.updated = e.at])
    /\ events' = AppendLocked(events, e)
    /\ UNCHANGED <<runs, artifacts, routes>>

\* Mutant of create_queued_task: INSERT OR REPLACE, no test for an existing task.
create_queued_task_Replace(t, created, ce, qe, route) ==
    LET row  == [NewTaskRow(created) EXCEPT !.updated = ce.at]
        log1 == AppendLocked(events, ce)
    IN  /\ TransitionAllowed(row, "queued", qe.at)
        /\ AppendAllowed(events, ce)
        /\ AppendAllowed(log1, qe)
        /\ tasks' = Put(tasks, t,
                        Stamped(Transitioned(row, "queued", qe.at), qe.at))
        /\ events' = AppendLocked(log1, qe)
        /\ UNCHANGED <<routes, runs, artifacts>>

\* Create, optionally route, and queue a task in one transaction.
create_queued_task(t, created, ce, qe, route) ==
    LET row  == [NewTaskRow(created) EXCEPT !.updated = ce.at]
        log1 == AppendLocked(events, ce)
    IN  /\ validate_lifecycle_event(t, "pending", ce)
        /\ validate_lifecycle_event(t, "queued", qe)
        /\ qe.at >= ce.at
        /\ TransitionAllowed(row, "queued", qe.at)
        /\ t \notin DOMAIN tasks
        /\ AppendAllowed(events, ce)
        /\ AppendAllowed(log1, qe)
        /\ tasks' = Put(tasks, t,
                        Stamped(Transitioned(row, "queued", qe.at), qe.at))
        /\ events' = AppendLocked(log1, qe)
        /\ routes' = IF route = NoRoute THEN routes ELSE Put(routes, t, route)
        /\ UNCHANGED <<runs, artifacts>>

\* Mutant of transition_task: no early return for a repeated event.
transition_task_Reapply(t, target, e) ==
    /\ t \in DOMAIN tasks
    /\ validate_lifecycle_event(t, target, e)
    /\ TransitionAllowed(tasks[t], target, e.at)
    /\ AppendAllowed(events, e)
    /\ tasks' = [tasks EXCEPT ![t] =
          Stamped(Transitioned(tasks[t], target, e.at), e.at)]
    /\ events' = AppendLocked(events, e)
    /\ UNCHANGED <<runs, artifacts, routes>>

\* Move a task to `target`; a repeated event returns the row as it is, whatever
\* happened to the task in between.
transition_task(t, target, e) ==
    /\ t \in DOMAIN tasks
    /\ validate_lifecycle_event(t, target, e)
    /\ IF IdUsed(events, e.id)
       THEN Recorded(events, e) /\ UNCHANGED storeVars
       ELSE /\ TransitionAllowed(tasks[t], target, e.at)
            /\ tasks' = [tasks EXCEPT ![t] =
                  Stamped(Transitioned(tasks[t], target, e.at), e.at)]
            /\ events' = AppendLocked(events, e)
            /\ UNCHANGED <<runs, artifacts, routes>>

cancel_task(t, e) == transition_task(t, "cancelled", e)

\* Assign an agent; the event must state the status the row has now.
assign_task(t, a, e) ==
    /\ t \in DOMAIN tasks
    /\ e.type = "agent.assigned" /\ e.task = t /\ e.agent = a
    /\ IF IdUsed(events, e.id)
       THEN Recorded(events, e) /\ UNCHANGED storeVars
       ELSE /\ e.status = tasks[t].status
            /\ a \notin tasks[t].agents
            /\ tasks' = [tasks EXCEPT ![t] = Stamped(Assigned(tasks[t], a), e.at)]
            /\ events' = AppendLocked(events, e)
            /\ UNCHANGED <<runs, artifacts, routes>>

\* Append an event that does not change a task; the task it names must exist
\* (foreign key of events.task_id).
append_event(e) ==
    /\ e.type \notin AtomicTypes
    /\ e.task = NoTask \/ e.task \in DOMAIN tasks
    /\ AppendAllowed(events, e)
    /\ events' = AppendLocked(events, e)
    /\ UNCHANGED <<tasks, runs, artifacts, routes>>

-----------------------------------------------------------------------------
(* Routes, runs and artifacts.                                             *)

\* Repeating the stored route changes nothing, another one raises.
save_task_route(t, route) ==
    /\ t \in DOMAIN tasks
    /\ t \in DOMAIN routes => routes[t] = route
    /\ routes' = Put(routes, t, route)
    /\ UNCHANGED <<tasks, events, runs, artifacts>>

create_run(r, t, created) ==
    /\ r \notin DOMAIN runs
    /\ t \in DOMAIN tasks
    /\ runs' = Put(runs, r, [task |-> t, status |-> "queued",
                             created |-> created, started |-> NoTime,
                             completed |-> NoTime])
    /\ UNCHANGED <<tasks, events, artifacts, routes>>

Started(row, at) == [row EXCEPT !.status = "running", !.started = at]

start_run(r, at) ==
    /\ r \in DOMAIN runs
    /\ runs[r].status = "queued"
    /\ validate_lifecycle(Started(runs[r], at))
    /\ runs' = [runs EXCEPT ![r] = Started(runs[r], at)]
    /\ UNCHANGED <<tasks, events, artifacts, routes>>

\* A run that never started is closed with started_at = created_at.
Finished(row, outcome, at) ==
    [row EXCEPT
        !.status    = outcome,
        !.started   = IF row.started = NoTime THEN row.created ELSE row.started,
        !.completed = at]

\* Mutant of finish_run: a closed run may be finished again.
finish_run_Again(r, outcome, at) ==
    /\ r \in DOMAIN runs
    /\ runs' = [runs EXCEPT ![r] = Finished(runs[r], outcome, at)]
    /\ UNCHANGED <<tasks, events, artifacts, routes>>

finish_run(r, outcome, at) ==
    /\ outcome \in RunTerminal
    /\ r \in DOMAIN runs
    /\ runs[r].status \in RunActive
    /\ validate_lifecycle(Finished(runs[r], outcome, at))
    /\ runs' = [runs EXCEPT ![r] = Finished(runs[r], outcome, at)]
    /\ UNCHANGED <<tasks, events, artifacts, routes>>

\* Mutant of create_artifact: the run may belong to another task.
create_artifact_AnyRun(a, t, r) ==
    /\ a \notin DOMAIN artifacts
    /\ t \in DOMAIN tasks
    /\ r # NoRun => r \in DOMAIN runs
    /\ artifacts' = Put(artifacts, a, [task |-> t, run |-> r])
    /\ UNCHANGED <<tasks, events, runs, routes>>

create_artifact(a, t, r) ==
    /\ a \notin DOMAIN artifacts
    /\ t \in DOMAIN tasks
    /\ r # NoRun => r \in DOMAIN runs /\ runs[r].task = t
    /\ artifacts' = Put(artifacts, a, [task |-> t, run |-> r])
    /\ UNCHANGED <<tasks, events, runs, routes>>

-----------------------------------------------------------------------------
(* Restart.                                                                *)

Interrupted == {t \in DOMAIN tasks : tasks[t].status \in {"planning", "running"}}

\* `order` lists the interrupted tasks by ascending task id, `ids` are the
\* fresh ids of their events.
InterruptedOrder(order) ==
    /\ {order[i] : i \in DOMAIN order} = Interrupted
    /\ \A i, j \in DOMAIN order : i < j => order[i] < order[j]

FreshIds(ids) ==
    /\ \A i \in DOMAIN ids : ~IdUsed(events, ids[i])
    /\ \A i, j \in DOMAIN ids : i # j => ids[i] # ids[j]

\* reconcile_interrupted_running: close every active run as interrupted and
\* block every planning or running task, all or nothing: one row that cannot
\* take the timestamp makes the whole call raise.
reconcile_interrupted_running(order, ids, at) ==
    /\ InterruptedOrder(order)
    /\ FreshIds(ids)
    /\ \A r \in DOMAIN runs : runs[r].status \in RunActive =>
         validate_lifecycle(Finished(runs[r], "interrupted", at))
    /\ \A t \in Interrupted : TransitionAllowed(tasks[t], "blocked", at)
    /\ runs' = [r \in DOMAIN runs |->
                  IF runs[r].status \in RunActive
                  THEN Finished(runs[r], "interrupted", at) ELSE runs[r]]
    /\ tasks' = [t \in DOMAIN tasks |->
                   IF t \in Interrupted
                   THEN Stamped(Transitioned(tasks[t], "blocked", at), at)
                   ELSE tasks[t]]
    /\ events' = events \o [i \in DOMAIN order |->
                              StatusEvent(ids[i], order[i], "blocked", at)]
    /\ UNCHANGED <<artifacts, routes>>

-----------------------------------------------------------------------------
Next ==
    \/ \E t \in TaskId, id \in EventId, at \in Time :
         \/ \E created \in Time :
              create_task(t, created, StatusEvent(id, t, "pending", at))
         \/ \E created \in Time, qid \in EventId, qat \in Time,
               route \in Route \cup {NoRoute} :
              create_queued_task(t, created, StatusEvent(id, t, "pending", at),
                                 StatusEvent(qid, t, "queued", qat), route)
         \/ \E target, s \in TaskStatus :
              transition_task(t, target, StatusEvent(id, t, s, at))
         \/ cancel_task(t, StatusEvent(id, t, "cancelled", at))
         \/ \E a \in Agent, s \in TaskStatus :
              assign_task(t, a, AssignEvent(id, t, a, s, at))
    \/ \E id \in EventId, type \in AtomicTypes \cup OtherTypes,
          t \in TaskId \cup {NoTask}, at \in Time :
         append_event(OtherEvent(id, type, t, at))
    \/ \E t \in TaskId, route \in Route : save_task_route(t, route)
    \/ \E r \in RunId, at \in Time :
         \/ \E t \in TaskId : create_run(r, t, at)
         \/ start_run(r, at)
         \/ \E outcome \in RunTerminal : finish_run(r, outcome, at)
    \/ \E a \in ArtifactId, t \in TaskId, r \in RunId \cup {NoRun} :
         create_artifact(a, t, r)
    \/ \E n \in 0..Cardinality(TaskId) :
         \E order \in [1..n -> TaskId], ids \in [1..n -> EventId], at \in Time :
           reconcile_interrupted_running(order, ids, at)

Spec == Init /\ [][Next]_storeVars

-----------------------------------------------------------------------------
(* Properties.                                                             *)

\* Every table holds rows of its type.
TypeOK ==
    /\ DOMAIN tasks \subseteq TaskId
    /\ tasks \in [DOMAIN tasks -> TaskRow]
    /\ events \in Seq(Event)
    /\ DOMAIN runs \subseteq RunId
    /\ runs \in [DOMAIN runs -> RunRow]
    /\ DOMAIN artifacts \subseteq ArtifactId
    /\ artifacts \in [DOMAIN artifacts -> ArtifactRow]
    /\ DOMAIN routes \subseteq TaskId
    /\ routes \in [DOMAIN routes -> Route]

\* Positions in a log of the events written together with task t's row.
Stream(log, t) == {i \in DOMAIN log : /\ log[i].task = t
                                      /\ log[i].type \in AtomicTypes}

IsFirst(log, i, t) == i \in Stream(log, t) /\ \A j \in Stream(log, t) : i <= j

IsLast(log, i, t)  == i \in Stream(log, t) /\ \A j \in Stream(log, t) : j <= i

IsNext(log, i, j, t) == /\ i \in Stream(log, t) /\ j \in Stream(log, t)
                        /\ i < j
                        /\ \A k \in Stream(log, t) : k <= i \/ j <= k

RowExplained(log, row, t) ==
    /\ row.version = Cardinality(Stream(log, t))
    /\ \A i \in DOMAIN log : IsLast(log, i, t) =>
         log[i].status = row.status /\ log[i].at = row.updated

\* The log explains the task table: a task row is always the outcome of the
\* last event of its stream (status and updated_at), its version is the number
\* of events in that stream, and a task without a row has no stream.  A
\* transition that commits half, or a retried event that is applied twice,
\* breaks it (create_task, create_queued_task, transition_task, assign_task,
\* reconcile_interrupted_running).
LogExplainsTasks ==
    /\ \A t \in DOMAIN tasks : RowExplained(events, tasks[t], t)
    /\ \A i \in DOMAIN events :
         events[i].task \in DOMAIN tasks \cup {NoTask}

\* The stream of a task is a path of the life cycle: it begins with
\* task.created, each later event follows a legal transition from the one before
\* it, and an assignment states the status the task had when it was made.
LogIsLegalHistory ==
    \A t \in DOMAIN tasks :
      /\ \A i \in DOMAIN events : IsFirst(events, i, t) =>
           events[i].type = "task.created" /\ events[i].status = "pending"
      /\ \A i, j \in DOMAIN events : IsNext(events, i, j, t) =>
           IF events[j].type = "agent.assigned"
           THEN events[j].status = events[i].status
           ELSE can_transition(events[i].status, events[j].status)

\* Stored rows can be read back: the validators that run when a row is decoded
\* (Task.validate_timestamps, RunRecord.validate_lifecycle) accept every row
\* the operations write, whatever timestamps their callers supplied.
RowsDecodable ==
    /\ \A t \in DOMAIN tasks : validate_timestamps(tasks[t])
    /\ \A r \in DOMAIN runs : validate_lifecycle(runs[r])

\* Every row a row refers to exists, and an artifact's run is a run of the
\* artifact's own task.
ReferencesResolve ==
    /\ \A r \in DOMAIN runs : runs[r].task \in DOMAIN tasks
    /\ DOMAIN routes \subseteq DOMAIN tasks
    /\ \A a \in DOMAIN artifacts :
         /\ artifacts[a].task \in DOMAIN tasks
         /\ artifacts[a].run # NoRun =>
              /\ artifacts[a].run \in DOMAIN runs
              /\ runs[artifacts[a].run].task = artifacts[a].task

\* What is closed stays closed: no operation, the restart reconciliation
\* included, changes the outcome or the end of a terminal task or run, and no
\* row disappears.
ClosedStep ==
    /\ \A t \in DOMAIN tasks :
         /\ t \in DOMAIN tasks'
         /\ tasks[t].status \in Terminal =>
              /\ tasks'[t].status = tasks[t].status
              /\ tasks'[t].completed = tasks[t].completed
    /\ \A r \in DOMAIN runs :
         /\ r \in DOMAIN runs'
         /\ runs[r].status \in RunTerminal => runs'[r] = runs[r]

ClosedIsFinal == [][ClosedStep]_storeVars

-----------------------------------------------------------------------------
(* The tables without log, clock and versions are the abstract TaskTable.  *)

Table == INSTANCE TaskTable WITH
           status   <- [t \in DOMAIN tasks |-> tasks[t].status],
           assigned <- [t \in DOMAIN tasks |-> tasks[t].agents],
           run      <- [r \in DOMAIN runs |->
                          [task |-> runs[r].task, status |-> runs[r].status]]

\* The store implements its abstract specification: every operation is one of
\* the atomic steps the callers count on, or changes nothing they can see.
ImplementsTable == Table!TableSpec
=============================================================================
