--------------------------- MODULE TaskStoreProofs ---------------------------
(***************************************************************************)
(* Proofs about TaskStore, for every set of tasks, events, runs, agents    *)
(* and every set of timestamps: the tables are well typed and the log      *)
(* explains them; rows can always be read back, what is closed stays       *)
(* closed, references resolve, the store is a TaskTable, and the stream of *)
(* every task is a path of the life cycle.                                 *)
(***************************************************************************)
EXTENDS TaskStore, FiniteSetTheorems, TLAPS

USE TaskIdAssumption, TimeAssumption, AgentAssumption

-----------------------------------------------------------------------------
(* The life cycle operators.                                               *)

\* Each status has an event type, and it is one of the atomic ones.
LEMMA EventTypeOfStatus ==
  ASSUME NEW s \in TaskStatus
  PROVE  EVENT_FOR_STATUS[s] \in LifecycleTypes
BY DEF EVENT_FOR_STATUS, TaskStatus, LifecycleTypes

\* The builders of the application make well-formed events.
LEMMA StatusEventType ==
  ASSUME NEW id \in EventId, NEW t \in TaskId, NEW s \in TaskStatus,
         NEW at \in Time
  PROVE  StatusEvent(id, t, s, at) \in Event
BY EventTypeOfStatus DEF StatusEvent, Event, AtomicTypes

\* An assignment event is well formed.
LEMMA AssignEventType ==
  ASSUME NEW id \in EventId, NEW t \in TaskId, NEW a \in Agent,
         NEW s \in TaskStatus, NEW at \in Time
  PROVE  AssignEvent(id, t, a, s, at) \in Event
BY DEF AssignEvent, Event, AtomicTypes

\* An event that belongs to no task operation is well formed.
LEMMA OtherEventType ==
  ASSUME NEW id \in EventId, NEW type \in AtomicTypes \cup OtherTypes,
         NEW t \in TaskId \cup {NoTask}, NEW at \in Time
  PROVE  OtherEvent(id, type, t, at) \in Event
BY DEF OtherEvent, Event

\* The row create_task inserts is well formed.
LEMMA NewTaskRowType ==
  ASSUME NEW created \in Time, NEW at \in Time
  PROVE  [NewTaskRow(created) EXCEPT !.updated = at] \in TaskRow
BY DEF NewTaskRow, TaskRow, TaskStatus, OptTime

\* transition_task of the domain gives a well-formed row.
LEMMA TransitionedType ==
  ASSUME NEW row \in TaskRow, NEW target \in TaskStatus, NEW at \in Time
  PROVE  Transitioned(row, target, at) \in TaskRow
BY DEF Transitioned, TaskRow, OptTime

\* The UPDATE of version and updated_at keeps a row well formed.
LEMMA StampedType ==
  ASSUME NEW row \in TaskRow, NEW at \in Time
  PROVE  Stamped(row, at) \in TaskRow
<1>1. row.version + 1 \in Nat
  BY DEF TaskRow
<1> QED
  BY <1>1 DEF Stamped, TaskRow

\* Adding an agent keeps a row well formed.
LEMMA AssignedType ==
  ASSUME NEW row \in TaskRow, NEW a \in Agent
  PROVE  Assigned(row, a) \in TaskRow
BY DEF Assigned, TaskRow

\* start_run writes a well-formed run.
LEMMA StartedType ==
  ASSUME NEW row \in RunRow, NEW at \in Time
  PROVE  Started(row, at) \in RunRow
BY DEF Started, RunRow, RunStatus, OptTime

\* finish_run and the reconciliation write a well-formed run.
LEMMA FinishedType ==
  ASSUME NEW row \in RunRow, NEW outcome \in RunTerminal, NEW at \in Time
  PROVE  Finished(row, outcome, at) \in RunRow
BY DEF Finished, RunRow, RunTerminal, OptTime

\* Appending under the lock keeps a well-formed log.
LEMMA AppendLockedType ==
  ASSUME NEW log \in Seq(Event), NEW e \in Event
  PROVE  AppendLocked(log, e) \in Seq(Event)
BY DEF AppendLocked

-----------------------------------------------------------------------------
(* Type correctness, one lemma per group of operations.                    *)

\* The empty schema is well typed.
LEMMA InitType == Init => TypeOK
BY DEF Init, TypeOK, EmptyTable

\* create_task keeps the types.
LEMMA CreateType ==
  ASSUME TypeOK, NEW t \in TaskId, NEW id \in EventId, NEW at \in Time,
         NEW created \in Time,
         create_task(t, created, StatusEvent(id, t, "pending", at))
  PROVE  TypeOK'
<1> DEFINE e == StatusEvent(id, t, "pending", at)
<1>1. e \in Event
  BY StatusEventType DEF TaskStatus
<1>2. e.at = at
  BY DEF StatusEvent
<1>3. [NewTaskRow(created) EXCEPT !.updated = e.at] \in TaskRow
  BY <1>2, NewTaskRowType
<1>4. events' \in Seq(Event)
  BY <1>1, AppendLockedType DEF create_task, TypeOK
<1>5. DOMAIN tasks' \subseteq TaskId /\ tasks' \in [DOMAIN tasks' -> TaskRow]
  BY <1>3 DEF create_task, TypeOK, Put
<1> QED
  BY <1>4, <1>5 DEF create_task, TypeOK

\* create_queued_task keeps the types.
LEMMA CreateQueuedType ==
  ASSUME TypeOK, NEW t \in TaskId, NEW id \in EventId, NEW at \in Time,
         NEW created \in Time, NEW qid \in EventId, NEW qat \in Time,
         NEW route \in Route \cup {NoRoute},
         create_queued_task(t, created, StatusEvent(id, t, "pending", at),
                            StatusEvent(qid, t, "queued", qat), route)
  PROVE  TypeOK'
<1> DEFINE ce == StatusEvent(id, t, "pending", at)
           qe == StatusEvent(qid, t, "queued", qat)
           row == [NewTaskRow(created) EXCEPT !.updated = ce.at]
           queued == Stamped(Transitioned(row, "queued", qe.at), qe.at)
<1>1. ce \in Event /\ qe \in Event
  BY StatusEventType DEF TaskStatus
<1>2. ce.at = at /\ qe.at = qat
  BY DEF StatusEvent
<1>3. row \in TaskRow
  BY <1>2, NewTaskRowType
<1>4. queued \in TaskRow
  BY <1>2, <1>3, TransitionedType, StampedType DEF TaskStatus
<1>6. events' \in Seq(Event)
  <2>1. AppendLocked(events, ce) \in Seq(Event)
    BY <1>1, AppendLockedType DEF TypeOK
  <2> QED
    BY <2>1, <1>1, AppendLockedType DEF create_queued_task
<1>7. DOMAIN tasks' \subseteq TaskId /\ tasks' \in [DOMAIN tasks' -> TaskRow]
  <2>1. tasks' = Put(tasks, t, queued)
    BY DEF create_queued_task
  <2> HIDE DEF queued
  <2> QED
    BY <2>1, <1>4 DEF TypeOK, Put
<1>8. DOMAIN routes' \subseteq TaskId /\ routes' \in [DOMAIN routes' -> Route]
  BY DEF create_queued_task, TypeOK, Put
<1> QED
  BY <1>6, <1>7, <1>8 DEF create_queued_task, TypeOK

\* transition_task keeps the types, repeated events included.
LEMMA TransitionType ==
  ASSUME TypeOK, NEW t \in TaskId, NEW id \in EventId, NEW at \in Time,
         NEW target \in TaskStatus, NEW s \in TaskStatus,
         transition_task(t, target, StatusEvent(id, t, s, at))
  PROVE  TypeOK'
<1> DEFINE e == StatusEvent(id, t, s, at)
<1>1. CASE IdUsed(events, e.id)
  BY <1>1 DEF transition_task, storeVars, TypeOK
<1>2. CASE ~IdUsed(events, e.id)
  <2>1. e \in Event /\ e.at = at
    BY StatusEventType DEF StatusEvent
  <2>2. events' \in Seq(Event)
    BY <1>2, <2>1, AppendLockedType DEF transition_task, TypeOK
  <2> DEFINE moved == Stamped(Transitioned(tasks[t], target, e.at), e.at)
  <2>3. t \in DOMAIN tasks /\ tasks[t] \in TaskRow
    BY DEF transition_task, TypeOK
  <2>4. moved \in TaskRow
    BY <2>1, <2>3, TransitionedType, StampedType
  <2>5. tasks' = [tasks EXCEPT ![t] = moved]
    BY <1>2 DEF transition_task
  <2> HIDE DEF moved
  <2>6. DOMAIN tasks' \subseteq TaskId /\ tasks' \in [DOMAIN tasks' -> TaskRow]
    BY <2>4, <2>5 DEF TypeOK
  <2> QED
    BY <1>2, <2>2, <2>6 DEF transition_task, TypeOK
<1> QED
  BY <1>1, <1>2

\* assign_task keeps the types.
LEMMA AssignType ==
  ASSUME TypeOK, NEW t \in TaskId, NEW id \in EventId, NEW at \in Time,
         NEW a \in Agent, NEW s \in TaskStatus,
         assign_task(t, a, AssignEvent(id, t, a, s, at))
  PROVE  TypeOK'
<1> DEFINE e == AssignEvent(id, t, a, s, at)
<1>1. CASE IdUsed(events, e.id)
  BY <1>1 DEF assign_task, storeVars, TypeOK
<1>2. CASE ~IdUsed(events, e.id)
  <2>1. e \in Event /\ e.at = at
    BY AssignEventType DEF AssignEvent
  <2>2. events' \in Seq(Event)
    BY <1>2, <2>1, AppendLockedType DEF assign_task, TypeOK
  <2> DEFINE moved == Stamped(Assigned(tasks[t], a), e.at)
  <2>3. t \in DOMAIN tasks /\ tasks[t] \in TaskRow
    BY DEF assign_task, TypeOK
  <2>4. moved \in TaskRow
    BY <2>1, <2>3, AssignedType, StampedType
  <2>5. tasks' = [tasks EXCEPT ![t] = moved]
    BY <1>2 DEF assign_task
  <2> HIDE DEF moved
  <2>6. DOMAIN tasks' \subseteq TaskId /\ tasks' \in [DOMAIN tasks' -> TaskRow]
    BY <2>4, <2>5 DEF TypeOK
  <2> QED
    BY <1>2, <2>2, <2>6 DEF assign_task, TypeOK
<1> QED
  BY <1>1, <1>2

\* append_event keeps the types.
LEMMA AppendEventType ==
  ASSUME TypeOK, NEW id \in EventId, NEW type \in AtomicTypes \cup OtherTypes,
         NEW t \in TaskId \cup {NoTask}, NEW at \in Time,
         append_event(OtherEvent(id, type, t, at))
  PROVE  TypeOK'
<1>1. OtherEvent(id, type, t, at) \in Event
  BY OtherEventType
<1> QED
  BY <1>1, AppendLockedType DEF append_event, TypeOK

\* save_task_route keeps the types.
LEMMA RouteType ==
  ASSUME TypeOK, NEW t \in TaskId, NEW route \in Route,
         save_task_route(t, route)
  PROVE  TypeOK'
BY DEF save_task_route, TypeOK, Put

\* The operations on runs keep the types.
LEMMA RunType ==
  ASSUME TypeOK, NEW r \in RunId, NEW at \in Time,
         \/ \E t \in TaskId : create_run(r, t, at)
         \/ start_run(r, at)
         \/ \E outcome \in RunTerminal : finish_run(r, outcome, at)
  PROVE  TypeOK'
<1>1. CASE \E t \in TaskId : create_run(r, t, at)
  BY <1>1 DEF create_run, TypeOK, Put, RunRow, RunStatus, OptTime
<1>2. CASE start_run(r, at)
  <2>1. Started(runs[r], at) \in RunRow
    BY <1>2, StartedType DEF start_run, TypeOK
  <2> QED
    BY <1>2, <2>1 DEF start_run, TypeOK
<1>3. ASSUME NEW outcome \in RunTerminal, finish_run(r, outcome, at)
      PROVE  TypeOK'
  <2>1. Finished(runs[r], outcome, at) \in RunRow
    BY <1>3, FinishedType DEF finish_run, TypeOK
  <2> QED
    BY <1>3, <2>1 DEF finish_run, TypeOK
<1> QED
  BY <1>1, <1>2, <1>3

\* create_artifact keeps the types.
LEMMA ArtifactType ==
  ASSUME TypeOK, NEW a \in ArtifactId, NEW t \in TaskId,
         NEW r \in RunId \cup {NoRun}, create_artifact(a, t, r)
  PROVE  TypeOK'
BY DEF create_artifact, TypeOK, Put, ArtifactRow

\* reconcile_interrupted_running keeps the types.
LEMMA ReconcileType ==
  ASSUME TypeOK, NEW n \in Nat, NEW order \in [1..n -> TaskId],
         NEW ids \in [1..n -> EventId], NEW at \in Time,
         reconcile_interrupted_running(order, ids, at)
  PROVE  TypeOK'
<1> DEFINE blocked == [i \in DOMAIN order |->
                         StatusEvent(ids[i], order[i], "blocked", at)]
<1>1. blocked \in Seq(Event)
  <2>1. blocked \in [1..n -> Event]
    BY StatusEventType DEF TaskStatus
  <2> QED
    BY <2>1
<1>2. events' \in Seq(Event)
  BY <1>1 DEF reconcile_interrupted_running, TypeOK
<1>3. \A t \in DOMAIN tasks :
        Stamped(Transitioned(tasks[t], "blocked", at), at) \in TaskRow
  BY TransitionedType, StampedType DEF TypeOK, TaskStatus
<1>4. \A r \in DOMAIN runs : Finished(runs[r], "interrupted", at) \in RunRow
  BY FinishedType DEF TypeOK, RunTerminal, RunStatus, RunActive
<1> QED
  BY <1>2, <1>3, <1>4 DEF reconcile_interrupted_running, TypeOK

\* Every operation keeps the types.
LEMMA StepType == TypeOK /\ [Next]_storeVars => TypeOK'
<1> SUFFICES ASSUME TypeOK, [Next]_storeVars PROVE TypeOK'
  OBVIOUS
<1>1. CASE UNCHANGED storeVars
  BY <1>1 DEF storeVars, TypeOK
<1>2. ASSUME NEW t \in TaskId, NEW id \in EventId, NEW at \in Time,
             \/ \E created \in Time :
                  create_task(t, created, StatusEvent(id, t, "pending", at))
             \/ \E created \in Time, qid \in EventId, qat \in Time,
                   route \in Route \cup {NoRoute} :
                  create_queued_task(t, created,
                                     StatusEvent(id, t, "pending", at),
                                     StatusEvent(qid, t, "queued", qat), route)
             \/ \E target, s \in TaskStatus :
                  transition_task(t, target, StatusEvent(id, t, s, at))
             \/ cancel_task(t, StatusEvent(id, t, "cancelled", at))
             \/ \E a \in Agent, s \in TaskStatus :
                  assign_task(t, a, AssignEvent(id, t, a, s, at))
      PROVE  TypeOK'
  BY <1>2, CreateType, CreateQueuedType, TransitionType, AssignType
     DEF cancel_task, TaskStatus
<1>3. CASE \E id \in EventId, type \in AtomicTypes \cup OtherTypes,
              t \in TaskId \cup {NoTask}, at \in Time :
             append_event(OtherEvent(id, type, t, at))
  BY <1>3, AppendEventType
<1>4. CASE \E t \in TaskId, route \in Route : save_task_route(t, route)
  BY <1>4, RouteType
<1>5. ASSUME NEW r \in RunId, NEW at \in Time,
             \/ \E t \in TaskId : create_run(r, t, at)
             \/ start_run(r, at)
             \/ \E outcome \in RunTerminal : finish_run(r, outcome, at)
      PROVE  TypeOK'
  BY <1>5, RunType
<1>6. CASE \E a \in ArtifactId, t \in TaskId, r \in RunId \cup {NoRun} :
             create_artifact(a, t, r)
  BY <1>6, ArtifactType
<1>7. CASE \E n \in 0..Cardinality(TaskId) :
             \E order \in [1..n -> TaskId], ids \in [1..n -> EventId],
                at \in Time : reconcile_interrupted_running(order, ids, at)
  <2>1. PICK n \in 0..Cardinality(TaskId) :
               \E order \in [1..n -> TaskId], ids \in [1..n -> EventId],
                  at \in Time : reconcile_interrupted_running(order, ids, at)
    BY <1>7
  <2>2. n \in Nat
    OBVIOUS
  <2> QED
    BY <2>1, <2>2, ReconcileType
<1> QED
  BY <1>1, <1>2, <1>3, <1>4, <1>5, <1>6, <1>7 DEF Next

\* Every table of the store always holds rows of its type, whatever event ids,
\* timestamps and payload statuses the callers supply.
THEOREM TypeCorrect == Spec => []TypeOK
BY InitType, StepType, PTL DEF Spec

-----------------------------------------------------------------------------
(* The log explains the task table.                                        *)

\* The stream of a task is a finite set of positions.
LEMMA StreamFinite ==
  ASSUME NEW log \in Seq(Event), NEW t
  PROVE  /\ IsFiniteSet(Stream(log, t))
         /\ Stream(log, t) \subseteq 1..Len(log)
         /\ Cardinality(Stream(log, t)) \in Nat
<1>1. Stream(log, t) \subseteq 1..Len(log)
  BY DEF Stream
<1>2. IsFiniteSet(1..Len(log))
  BY FS_Interval
<1>3. IsFiniteSet(Stream(log, t))
  BY <1>1, <1>2, FS_Subset
<1> QED
  BY <1>1, <1>3, FS_CardinalityType

\* Appending an event of task t's stream adds exactly the last position to it.
LEMMA AppendOwnStream ==
  ASSUME NEW log \in Seq(Event), NEW e \in Event, e.type \in AtomicTypes
  PROVE  /\ Stream(Append(log, e), e.task) =
              Stream(log, e.task) \cup {Len(log) + 1}
         /\ Cardinality(Stream(Append(log, e), e.task)) =
              Cardinality(Stream(log, e.task)) + 1
<1> DEFINE new == Append(log, e)
<1>1. /\ DOMAIN log = 1..Len(log) /\ Len(log) \in Nat
      /\ DOMAIN new = 1..(Len(log) + 1)
      /\ new[Len(log) + 1] = e
      /\ \A i \in 1..Len(log) : new[i] = log[i]
  OBVIOUS
<1>2. Stream(new, e.task) = Stream(log, e.task) \cup {Len(log) + 1}
  <2> HIDE DEF new
  <2> QED BY <1>1 DEF Stream
<1>3. Len(log) + 1 \notin Stream(log, e.task)
  BY <1>1, StreamFinite
<1> QED
  BY <1>2, <1>3, StreamFinite, FS_AddElement

\* Appending any other event leaves the stream of t as it is.
LEMMA AppendOtherStream ==
  ASSUME NEW log \in Seq(Event), NEW e \in Event, NEW t,
         e.task # t \/ e.type \notin AtomicTypes
  PROVE  Stream(Append(log, e), t) = Stream(log, t)
<1> DEFINE new == Append(log, e)
<1>1. /\ DOMAIN log = 1..Len(log) /\ Len(log) \in Nat
      /\ DOMAIN new = 1..(Len(log) + 1)
      /\ new[Len(log) + 1] = e
      /\ \A i \in 1..Len(log) : new[i] = log[i]
  OBVIOUS
<1> HIDE DEF new
<1> QED
  BY <1>1 DEF Stream, new

\* A row that took an event is explained by the log with that event.
LEMMA AppendOwn ==
  ASSUME NEW log \in Seq(Event), NEW e \in Event, e.type \in AtomicTypes,
         NEW old \in TaskRow, NEW row \in TaskRow,
         old.version = Cardinality(Stream(log, e.task)),
         row.version = old.version + 1,
         row.status = e.status, row.updated = e.at
  PROVE  RowExplained(Append(log, e), row, e.task)
<1>1. row.version = Cardinality(Stream(Append(log, e), e.task))
  BY AppendOwnStream
<1>2. ASSUME NEW i \in DOMAIN Append(log, e),
             IsLast(Append(log, e), i, e.task)
      PROVE  Append(log, e)[i] = e
  <2>1. Len(log) + 1 <= i
    BY <1>2, AppendOwnStream DEF IsLast
  <2> QED
    BY <2>1
<1> QED
  BY <1>1, <1>2 DEF RowExplained

\* A row is still explained after an event that is not of its stream.
LEMMA AppendOther ==
  ASSUME NEW log \in Seq(Event), NEW e \in Event, NEW t,
         e.task # t \/ e.type \notin AtomicTypes,
         NEW row \in TaskRow, RowExplained(log, row, t)
  PROVE  RowExplained(Append(log, e), row, t)
<1>1. Stream(Append(log, e), t) = Stream(log, t)
  BY AppendOtherStream
<1>2. ASSUME NEW i \in DOMAIN Append(log, e), IsLast(Append(log, e), i, t)
      PROVE  /\ i \in DOMAIN log /\ IsLast(log, i, t)
             /\ Append(log, e)[i] = log[i]
  <2>1. i \in 1..Len(log)
    BY <1>1, <1>2, StreamFinite DEF IsLast
  <2>2. IsLast(log, i, t)
    BY <1>1, <1>2 DEF IsLast
  <2> QED
    BY <2>1, <2>2
<1> QED
  BY <1>1, <1>2 DEF RowExplained

\* A task without a row has no events, so creating it never meets its own
\* event in the log.
LEMMA NoEventsBeforeCreation ==
  ASSUME TypeOK, LogExplainsTasks, NEW t \in TaskId, t \notin DOMAIN tasks
  PROVE  \A i \in DOMAIN events : events[i].task # t
BY DEF LogExplainsTasks, NoTask

\* A task that is not stored has no stream.
LEMMA EmptyStream ==
  ASSUME NEW log \in Seq(Event), NEW t, \A i \in DOMAIN log : log[i].task # t
  PROVE  Cardinality(Stream(log, t)) = 0
<1>1. Stream(log, t) = {}
  BY DEF Stream
<1> QED
  BY <1>1, FS_EmptySet

\* create_task keeps the log an explanation of the tasks.
LEMMA CreateLog ==
  ASSUME TypeOK, LogExplainsTasks, NEW t \in TaskId, NEW id \in EventId,
         NEW at \in Time, NEW created \in Time,
         create_task(t, created, StatusEvent(id, t, "pending", at))
  PROVE  LogExplainsTasks'
<1> DEFINE e == StatusEvent(id, t, "pending", at)
           row == [NewTaskRow(created) EXCEPT !.updated = e.at]
           old == [NewTaskRow(created) EXCEPT !.version = 0]
<1>1. /\ e \in Event /\ e.task = t /\ e.status = "pending" /\ e.at = at
      /\ e.type \in AtomicTypes
  BY StatusEventType, EventTypeOfStatus
     DEF StatusEvent, TaskStatus, AtomicTypes
<1>2. /\ row \in TaskRow /\ row.version = 1 /\ row.status = "pending"
      /\ row.updated = e.at
      /\ old \in TaskRow /\ old.version = 0
  BY <1>1 DEF NewTaskRow, TaskRow, TaskStatus, OptTime
<1>3. /\ t \notin DOMAIN tasks
      /\ AppendAllowed(events, e)
      /\ tasks' = Put(tasks, t, row)
      /\ events' = AppendLocked(events, e)
  BY DEF create_task
<1> HIDE DEF e, row, old
<1>4. \A i \in DOMAIN events : events[i].task # t
  BY <1>3, NoEventsBeforeCreation
<1>5. events' = Append(events, e)
  BY <1>1, <1>3, <1>4 DEF AppendAllowed, AppendLocked, Recorded
<1>6. RowExplained(events', row, t)
  <2>1. Cardinality(Stream(events, t)) = 0
    BY <1>4, EmptyStream DEF TypeOK
  <2> QED
    BY <1>1, <1>2, <1>5, <2>1, AppendOwn DEF TypeOK
<1>7. \A u \in DOMAIN tasks : RowExplained(events', tasks[u], u)
  BY <1>1, <1>3, <1>5, AppendOther DEF TypeOK, LogExplainsTasks
<1>8. \A i \in DOMAIN events' : events'[i].task \in DOMAIN tasks' \cup {NoTask}
  BY <1>1, <1>3, <1>5 DEF TypeOK, LogExplainsTasks, Put
<1> QED
  BY <1>3, <1>6, <1>7, <1>8 DEF LogExplainsTasks, Put

\* create_queued_task does too, with its two events.
LEMMA CreateQueuedLog ==
  ASSUME TypeOK, LogExplainsTasks, NEW t \in TaskId, NEW id \in EventId,
         NEW at \in Time, NEW created \in Time, NEW qid \in EventId,
         NEW qat \in Time, NEW route \in Route \cup {NoRoute},
         create_queued_task(t, created, StatusEvent(id, t, "pending", at),
                            StatusEvent(qid, t, "queued", qat), route)
  PROVE  LogExplainsTasks'
<1> DEFINE ce == StatusEvent(id, t, "pending", at)
           qe == StatusEvent(qid, t, "queued", qat)
           row == [NewTaskRow(created) EXCEPT !.updated = ce.at]
           queued == Stamped(Transitioned(row, "queued", qe.at), qe.at)
           log1 == AppendLocked(events, ce)
           log2 == AppendLocked(log1, qe)
<1>1. /\ ce \in Event /\ ce.task = t /\ ce.status = "pending" /\ ce.at = at
      /\ ce.type \in AtomicTypes
      /\ qe \in Event /\ qe.task = t /\ qe.status = "queued" /\ qe.at = qat
      /\ qe.type \in AtomicTypes
  BY StatusEventType, EventTypeOfStatus
     DEF StatusEvent, TaskStatus, AtomicTypes
<1>2. /\ row \in TaskRow /\ row.version = 1 /\ row.status = "pending"
      /\ row.updated = ce.at
  BY <1>1 DEF NewTaskRow, TaskRow, TaskStatus, OptTime
<1>3. /\ queued \in TaskRow /\ queued.version = row.version + 1
      /\ queued.status = "queued" /\ queued.updated = qe.at
  <2> HIDE DEF row
  <2>1. Transitioned(row, "queued", qe.at) \in TaskRow
    BY <1>1, <1>2, TransitionedType DEF TaskStatus
  <2>2. queued \in TaskRow
    BY <1>1, <2>1, StampedType
  <2> QED
    BY <1>2, <2>1, <2>2 DEF Stamped, Transitioned, TaskRow
<1>4. /\ t \notin DOMAIN tasks
      /\ AppendAllowed(events, ce)
      /\ AppendAllowed(log1, qe)
      /\ tasks' = Put(tasks, t, queued)
      /\ events' = log2
  BY DEF create_queued_task
<1> HIDE DEF ce, qe, row, queued
<1>5. \A i \in DOMAIN events : events[i].task # t
  BY <1>4, NoEventsBeforeCreation
<1>6. log1 = Append(events, ce) /\ log1 \in Seq(Event)
  BY <1>1, <1>4, <1>5 DEF AppendAllowed, AppendLocked, Recorded, TypeOK
<1> HIDE DEF log1
<1>7. log2 = Append(log1, qe)
  <2>1. \A i \in DOMAIN log1 : log1[i] # qe
    BY <1>1, <1>5, <1>6 DEF TypeOK
  <2> QED
    BY <1>4, <2>1 DEF AppendAllowed, AppendLocked, Recorded
<1> HIDE DEF log2
<1>8. row.version = Cardinality(Stream(log1, t))
  <2>1. Cardinality(Stream(events, t)) = 0
    BY <1>5, EmptyStream DEF TypeOK
  <2> QED
    BY <1>1, <1>2, <1>6, <2>1, AppendOwnStream DEF TypeOK
<1>9. RowExplained(events', queued, t)
  BY <1>1, <1>2, <1>3, <1>4, <1>6, <1>7, <1>8, AppendOwn
<1>10. \A u \in DOMAIN tasks : RowExplained(log1, tasks[u], u)
  BY <1>1, <1>4, <1>6, AppendOther DEF TypeOK, LogExplainsTasks
<1>11. \A u \in DOMAIN tasks : RowExplained(events', tasks[u], u)
  BY <1>1, <1>4, <1>6, <1>7, <1>10, AppendOther DEF TypeOK
<1>12. \A i \in DOMAIN events' : events'[i].task \in DOMAIN tasks' \cup {NoTask}
  <2>1. \A i \in DOMAIN log1 : log1[i].task \in DOMAIN tasks' \cup {NoTask}
    BY <1>1, <1>4, <1>6 DEF TypeOK, LogExplainsTasks, Put
  <2> QED
    BY <1>1, <1>4, <1>6, <1>7, <2>1 DEF Put
<1> QED
  BY <1>4, <1>9, <1>11, <1>12 DEF LogExplainsTasks, Put

\* The common part of transition_task and assign_task: a row of the table takes
\* a new event.
LEMMA UpdateLog ==
  ASSUME TypeOK, LogExplainsTasks, NEW t \in DOMAIN tasks, NEW e \in Event,
         e.task = t, e.type \in AtomicTypes, ~IdUsed(events, e.id),
         NEW row \in TaskRow, row.version = tasks[t].version + 1,
         row.status = e.status, row.updated = e.at,
         tasks' = [tasks EXCEPT ![t] = row],
         events' = AppendLocked(events, e)
  PROVE  LogExplainsTasks'
<1>1. events' = Append(events, e)
  BY DEF AppendLocked
<1>2. RowExplained(events', row, t)
  <2>1. /\ tasks[t] \in TaskRow /\ events \in Seq(Event)
        /\ tasks[t].version = Cardinality(Stream(events, e.task))
    BY DEF TypeOK, LogExplainsTasks, RowExplained
  <2> QED
    BY <1>1, <2>1, AppendOwn
<1>3. \A u \in DOMAIN tasks \ {t} : RowExplained(events', tasks[u], u)
  BY <1>1, AppendOther DEF TypeOK, LogExplainsTasks
<1>4. \A i \in DOMAIN events' : events'[i].task \in DOMAIN tasks \cup {NoTask}
  BY <1>1 DEF TypeOK, LogExplainsTasks
<1> QED
  BY <1>2, <1>3, <1>4 DEF LogExplainsTasks, TypeOK

\* transition_task does too, repeated events included.
LEMMA TransitionLog ==
  ASSUME TypeOK, LogExplainsTasks, NEW t \in TaskId, NEW id \in EventId,
         NEW at \in Time, NEW target \in TaskStatus, NEW s \in TaskStatus,
         transition_task(t, target, StatusEvent(id, t, s, at))
  PROVE  LogExplainsTasks'
<1> DEFINE e == StatusEvent(id, t, s, at)
<1>1. CASE IdUsed(events, e.id)
  BY <1>1 DEF transition_task, storeVars, LogExplainsTasks
<1>2. CASE ~IdUsed(events, e.id)
  <2> DEFINE moved == Transitioned(tasks[t], target, e.at)
             row == Stamped(moved, e.at)
  <2>1. /\ e \in Event /\ e.task = t /\ e.at = at /\ e.type \in AtomicTypes
    BY StatusEventType, EventTypeOfStatus DEF StatusEvent, AtomicTypes
  <2>2. /\ t \in DOMAIN tasks /\ tasks[t] \in TaskRow
        /\ e.status = target
        /\ tasks' = [tasks EXCEPT ![t] = row]
        /\ events' = AppendLocked(events, e)
    BY <1>2 DEF transition_task, TypeOK, validate_lifecycle_event
  <2> HIDE DEF e
  <2>3. moved \in TaskRow /\ row \in TaskRow
    BY <2>1, <2>2, TransitionedType, StampedType
  <2>4. /\ row.version = tasks[t].version + 1 /\ row.status = target
        /\ row.updated = e.at
    BY <2>1, <2>2, <2>3 DEF Stamped, Transitioned, TaskRow
  <2> HIDE DEF row
  <2> QED
    BY <1>2, <2>1, <2>2, <2>3, <2>4, UpdateLog
<1> QED
  BY <1>1, <1>2

\* assign_task does too.
LEMMA AssignLog ==
  ASSUME TypeOK, LogExplainsTasks, NEW t \in TaskId, NEW id \in EventId,
         NEW at \in Time, NEW a \in Agent, NEW s \in TaskStatus,
         assign_task(t, a, AssignEvent(id, t, a, s, at))
  PROVE  LogExplainsTasks'
<1> DEFINE e == AssignEvent(id, t, a, s, at)
<1>1. CASE IdUsed(events, e.id)
  BY <1>1 DEF assign_task, storeVars, LogExplainsTasks
<1>2. CASE ~IdUsed(events, e.id)
  <2> DEFINE moved == Assigned(tasks[t], a)
             row == Stamped(moved, e.at)
  <2>1. /\ e \in Event /\ e.task = t /\ e.at = at /\ e.type \in AtomicTypes
    BY AssignEventType DEF AssignEvent, AtomicTypes
  <2>2. /\ t \in DOMAIN tasks /\ tasks[t] \in TaskRow
        /\ e.status = tasks[t].status
        /\ tasks' = [tasks EXCEPT ![t] = row]
        /\ events' = AppendLocked(events, e)
    BY <1>2 DEF assign_task, TypeOK
  <2> HIDE DEF e
  <2>3. moved \in TaskRow /\ row \in TaskRow
    BY <2>1, <2>2, AssignedType, StampedType
  <2>4. /\ row.version = tasks[t].version + 1 /\ row.status = tasks[t].status
        /\ row.updated = e.at
    BY <2>1, <2>2, <2>3 DEF Stamped, Assigned, TaskRow
  <2> HIDE DEF row
  <2> QED
    BY <1>2, <2>1, <2>2, <2>3, <2>4, UpdateLog
<1> QED
  BY <1>1, <1>2

\* append_event leaves every stream as it is.
LEMMA AppendEventLog ==
  ASSUME TypeOK, LogExplainsTasks, NEW id \in EventId,
         NEW type \in AtomicTypes \cup OtherTypes,
         NEW t \in TaskId \cup {NoTask}, NEW at \in Time,
         append_event(OtherEvent(id, type, t, at))
  PROVE  LogExplainsTasks'
<1> DEFINE e == OtherEvent(id, type, t, at)
<1>1. /\ e \in Event /\ e.task = t /\ e.type \notin AtomicTypes
      /\ t \in DOMAIN tasks \cup {NoTask}
      /\ events' = AppendLocked(events, e) /\ tasks' = tasks
  BY OtherEventType DEF append_event, OtherEvent
<1> HIDE DEF e
<1>2. CASE IdUsed(events, e.id)
  BY <1>1, <1>2 DEF AppendLocked, LogExplainsTasks
<1>3. CASE ~IdUsed(events, e.id)
  <2>1. events' = Append(events, e)
    BY <1>1, <1>3 DEF AppendLocked
  <2>2. \A u \in DOMAIN tasks : RowExplained(events', tasks[u], u)
    BY <1>1, <2>1, AppendOther DEF TypeOK, LogExplainsTasks
  <2> QED
    BY <1>1, <2>1, <2>2 DEF TypeOK, LogExplainsTasks
<1> QED
  BY <1>2, <1>3

\* The events of a reconciliation: one per interrupted task.
LEMMA ConcatFacts ==
  ASSUME NEW log \in Seq(Event), NEW n \in Nat, NEW new \in [1..n -> Event]
  PROVE  /\ DOMAIN log = 1..Len(log) /\ Len(log) \in Nat
         /\ DOMAIN (log \o new) = 1..(Len(log) + n)
         /\ \A i \in 1..Len(log) : (log \o new)[i] = log[i]
         /\ \A k \in 1..n : (log \o new)[Len(log) + k] = new[k]
         /\ \A i \in 1..(Len(log) + n) :
              i \in 1..Len(log) \/ \E k \in 1..n : i = Len(log) + k
<1>1. new \in Seq(Event) /\ Len(new) = n
  OBVIOUS
<1>2. \A i \in 1..(Len(log) + n) :
        i \in 1..Len(log) \/ i - Len(log) \in 1..n
  OBVIOUS
<1>3. \A i \in 1..(Len(log) + n) : i = Len(log) + (i - Len(log))
  OBVIOUS
<1> QED
  BY <1>1, <1>2, <1>3, SMTT(30)

\* reconcile_interrupted_running adds one event to each interrupted stream.
LEMMA ReconcileLog ==
  ASSUME TypeOK, LogExplainsTasks, NEW n \in Nat,
         NEW order \in [1..n -> TaskId], NEW ids \in [1..n -> EventId],
         NEW at \in Time, reconcile_interrupted_running(order, ids, at)
  PROVE  LogExplainsTasks'
<1> DEFINE new == [i \in DOMAIN order |->
                     StatusEvent(ids[i], order[i], "blocked", at)]
           L == Len(events)
<1>1. /\ new \in [1..n -> Event]
      /\ \A k \in 1..n : /\ new[k].task = order[k] /\ new[k].at = at
                         /\ new[k].status = "blocked"
                         /\ new[k].type \in AtomicTypes
  BY StatusEventType, EventTypeOfStatus
     DEF StatusEvent, TaskStatus, AtomicTypes
<1>2. /\ events' = events \o new
      /\ \A k \in 1..n : order[k] \in Interrupted
      /\ \A t \in Interrupted : \E k \in 1..n : order[k] = t
      /\ \A j, k \in 1..n : j < k => order[j] < order[k]
      /\ DOMAIN tasks' = DOMAIN tasks
      /\ \A t \in Interrupted :
           tasks'[t] = Stamped(Transitioned(tasks[t], "blocked", at), at)
      /\ \A t \in DOMAIN tasks \ Interrupted : tasks'[t] = tasks[t]
  BY DEF reconcile_interrupted_running, InterruptedOrder, Interrupted
<1> HIDE DEF new
<1>3. /\ events \in Seq(Event) /\ DOMAIN events = 1..L /\ L \in Nat
      /\ DOMAIN events' = 1..(L + n)
      /\ \A i \in 1..L : events'[i] = events[i]
      /\ \A k \in 1..n : events'[L + k] = new[k]
      /\ \A i \in 1..(L + n) : i \in 1..L \/ \E k \in 1..n : i = L + k
  BY <1>1, <1>2, ConcatFacts DEF TypeOK
<1> HIDE DEF L
<1>4. ASSUME NEW t \in DOMAIN tasks \ Interrupted
      PROVE  RowExplained(events', tasks'[t], t)
  <2>1. \A k \in 1..n : new[k].task # t
    BY <1>1, <1>2
  <2>2. Stream(events', t) = Stream(events, t)
    <3>1. \A k \in 1..n : L + k \notin Stream(events', t)
      BY <1>3, <2>1 DEF Stream
    <3>2. \A i \in 1..L : i \in Stream(events', t) <=> i \in Stream(events, t)
      BY <1>3 DEF Stream
    <3>3. /\ Stream(events', t) \subseteq 1..(L + n)
          /\ Stream(events, t) \subseteq 1..L
      BY <1>3 DEF Stream
    <3> QED
      BY <1>3, <3>1, <3>2, <3>3
  <2>3. \A i \in Stream(events, t) : i \in 1..L /\ events'[i] = events[i]
    BY <1>3 DEF Stream
  <2>4. RowExplained(events, tasks[t], t)
    BY DEF LogExplainsTasks
  <2>5. ASSUME NEW i \in DOMAIN events', IsLast(events', i, t)
        PROVE  /\ i \in DOMAIN events /\ IsLast(events, i, t)
               /\ events'[i] = events[i]
    BY <1>3, <2>2, <2>3, <2>5 DEF IsLast
  <2> QED
    BY <1>2, <2>2, <2>4, <2>5 DEF RowExplained
<1>5. ASSUME NEW t \in Interrupted
      PROVE  RowExplained(events', tasks'[t], t)
  <2>1. PICK k \in 1..n : order[k] = t
    BY <1>2
  <2>2. \A j \in 1..n : order[j] = t => j = k
    <3> SUFFICES ASSUME NEW j \in 1..n, order[j] = t, j # k PROVE FALSE
      OBVIOUS
    <3>1. j < k \/ k < j
      OBVIOUS
    <3>2. t \in Nat
      BY <2>1
    <3> QED
      BY <1>2, <2>1, <3>1, <3>2
  <2>3. Stream(events', t) = Stream(events, t) \cup {L + k}
    <3>1. \A j \in 1..n : L + j \in Stream(events', t) <=> j = k
      <4> SUFFICES ASSUME NEW j \in 1..n
                   PROVE  L + j \in Stream(events', t) <=> j = k
        OBVIOUS
      <4>1. L + j \in DOMAIN events'
        BY <1>3
      <4>2. /\ events'[L + j].task = order[j]
            /\ events'[L + j].type \in AtomicTypes
        BY <1>1, <1>3
      <4> QED
        BY <2>1, <2>2, <4>1, <4>2 DEF Stream
    <3>2. \A i \in 1..L : i \in Stream(events', t) <=> i \in Stream(events, t)
      BY <1>3 DEF Stream
    <3>3. Stream(events', t) \subseteq 1..(L + n)
      BY <1>3 DEF Stream
    <3>4. Stream(events, t) \subseteq 1..L
      BY <1>3 DEF Stream
    <3>5. ASSUME NEW i \in Stream(events', t)
          PROVE  i \in Stream(events, t) \cup {L + k}
      <4>1. i \in 1..L \/ \E j \in 1..n : i = L + j
        BY <1>3, <3>3
      <4> QED
        BY <3>1, <3>2, <4>1
    <3>6. L + k \in Stream(events', t)
      BY <3>1
    <3>7. Stream(events, t) \subseteq Stream(events', t)
      BY <3>2, <3>4
    <3> QED
      BY <3>5, <3>6, <3>7
  <2>4. L + k \notin Stream(events, t)
    BY <1>3 DEF Stream
  <2>5. Cardinality(Stream(events', t)) = Cardinality(Stream(events, t)) + 1
    BY <1>3, <2>3, <2>4, StreamFinite, FS_AddElement
  <2>6. tasks[t] \in TaskRow /\ t \in DOMAIN tasks
    BY DEF TypeOK, Interrupted
  <2>7. /\ tasks'[t].version = tasks[t].version + 1
        /\ tasks'[t].status = "blocked" /\ tasks'[t].updated = at
    <3> DEFINE moved == Transitioned(tasks[t], "blocked", at)
    <3>1. moved \in TaskRow
      BY <2>6, TransitionedType DEF TaskStatus
    <3>2. moved.version = tasks[t].version /\ moved.status = "blocked"
      BY <2>6 DEF Transitioned, TaskRow
    <3>3. tasks'[t] = Stamped(moved, at)
      BY <1>2
    <3> HIDE DEF moved
    <3> QED
      BY <3>1, <3>2, <3>3 DEF Stamped, TaskRow
  <2>8. tasks'[t].version = Cardinality(Stream(events', t))
    BY <2>5, <2>6, <2>7 DEF LogExplainsTasks, RowExplained
  <2>9. ASSUME NEW i \in DOMAIN events', IsLast(events', i, t)
        PROVE  i = L + k
    <3>1. i \in Stream(events', t) /\ L + k <= i
      BY <2>3, <2>9 DEF IsLast
    <3>2. \A j \in Stream(events, t) : j \in 1..L
      BY <1>3 DEF Stream
    <3> QED
      BY <1>3, <2>3, <3>1, <3>2
  <2>10. events'[L + k].status = "blocked" /\ events'[L + k].at = at
    BY <1>1, <1>3
  <2>11. ASSUME NEW i \in DOMAIN events', IsLast(events', i, t)
         PROVE  /\ events'[i].status = tasks'[t].status
                /\ events'[i].at = tasks'[t].updated
    BY <2>7, <2>9, <2>10, <2>11
  <2> QED
    BY <2>8, <2>11 DEF RowExplained
<1>6. \A i \in DOMAIN events' : events'[i].task \in DOMAIN tasks' \cup {NoTask}
  BY <1>1, <1>2, <1>3 DEF LogExplainsTasks, Interrupted
<1> QED
  BY <1>2, <1>4, <1>5, <1>6 DEF LogExplainsTasks

\* A step of the other tables does not concern the log.
LEMMA UnchangedLog ==
  ASSUME LogExplainsTasks, UNCHANGED <<tasks, events>>
  PROVE  LogExplainsTasks'
BY DEF LogExplainsTasks

\* Every operation keeps the log an explanation of the tasks.
LEMMA StepLog ==
  TypeOK /\ LogExplainsTasks /\ [Next]_storeVars => LogExplainsTasks'
<1> SUFFICES ASSUME TypeOK, LogExplainsTasks, [Next]_storeVars
             PROVE  LogExplainsTasks'
  OBVIOUS
<1>1. CASE UNCHANGED storeVars
  BY <1>1, UnchangedLog DEF storeVars
<1>2. ASSUME NEW t \in TaskId, NEW id \in EventId, NEW at \in Time,
             \/ \E created \in Time :
                  create_task(t, created, StatusEvent(id, t, "pending", at))
             \/ \E created \in Time, qid \in EventId, qat \in Time,
                   route \in Route \cup {NoRoute} :
                  create_queued_task(t, created,
                                     StatusEvent(id, t, "pending", at),
                                     StatusEvent(qid, t, "queued", qat), route)
             \/ \E target, s \in TaskStatus :
                  transition_task(t, target, StatusEvent(id, t, s, at))
             \/ cancel_task(t, StatusEvent(id, t, "cancelled", at))
             \/ \E a \in Agent, s \in TaskStatus :
                  assign_task(t, a, AssignEvent(id, t, a, s, at))
      PROVE  LogExplainsTasks'
  BY <1>2, CreateLog, CreateQueuedLog, TransitionLog, AssignLog
     DEF cancel_task, TaskStatus
<1>3. CASE \E id \in EventId, type \in AtomicTypes \cup OtherTypes,
              t \in TaskId \cup {NoTask}, at \in Time :
             append_event(OtherEvent(id, type, t, at))
  BY <1>3, AppendEventLog
<1>4. CASE \E t \in TaskId, route \in Route : save_task_route(t, route)
  BY <1>4, UnchangedLog DEF save_task_route
<1>5. ASSUME NEW r \in RunId, NEW at \in Time,
             \/ \E t \in TaskId : create_run(r, t, at)
             \/ start_run(r, at)
             \/ \E outcome \in RunTerminal : finish_run(r, outcome, at)
      PROVE  LogExplainsTasks'
  BY <1>5, UnchangedLog DEF create_run, start_run, finish_run
<1>6. CASE \E a \in ArtifactId, t \in TaskId, r \in RunId \cup {NoRun} :
             create_artifact(a, t, r)
  BY <1>6, UnchangedLog DEF create_artifact
<1>7. CASE \E n \in 0..Cardinality(TaskId) :
             \E order \in [1..n -> TaskId], ids \in [1..n -> EventId],
                at \in Time : reconcile_interrupted_running(order, ids, at)
  <2>1. PICK n \in 0..Cardinality(TaskId) :
               \E order \in [1..n -> TaskId], ids \in [1..n -> EventId],
                  at \in Time : reconcile_interrupted_running(order, ids, at)
    BY <1>7
  <2>2. n \in Nat
    OBVIOUS
  <2> QED
    BY <2>1, <2>2, ReconcileLog
<1> QED
  BY <1>1, <1>2, <1>3, <1>4, <1>5, <1>6, <1>7 DEF Next

\* Status, updated_at and version of every task row are always what the task's
\* event stream says, through retried events, conflicting ids, assignments and
\* restart reconciliations of any number of tasks at once.
THEOREM LogExplainsTasksAlways == Spec => []LogExplainsTasks
<1>1. Init => LogExplainsTasks
  BY DEF Init, LogExplainsTasks, EmptyTable
<1> QED
  BY <1>1, InitType, StepType, StepLog, PTL DEF Spec

-----------------------------------------------------------------------------
(* What every operation does to a single row, and what follows.            *)


\* A task row is left alone, moved by a legal transition, or given an agent.
RowStep(row, new) ==
    \/ new = row
    \/ \E target \in TaskStatus, at \in Time :
         /\ TransitionAllowed(row, target, at)
         /\ new = Stamped(Transitioned(row, target, at), at)
    \/ \E a \in Agent, at \in Time : new = Stamped(Assigned(row, a), at)

\* A new task row is pending, or queued by a transition from a pending one.
NewRow(new) ==
    \E created, at \in Time :
      LET row == [NewTaskRow(created) EXCEPT !.updated = at] IN
      \/ new = row
      \/ \E qat \in Time : /\ TransitionAllowed(row, "queued", qat)
                           /\ new = Stamped(Transitioned(row, "queued", qat), qat)

\* A run row is left alone, or an active one becomes another valid one.
RunStep(row, new) ==
    new = row \/ (row.status \in RunActive /\ validate_lifecycle(new))

NewRun(new) ==
    /\ new.status = "queued"
    /\ new.started = NoTime
    /\ new.completed = NoTime

TaskRowsStep ==
    /\ \A t \in DOMAIN tasks : t \in DOMAIN tasks' /\ RowStep(tasks[t], tasks'[t])
    /\ \A t \in DOMAIN tasks' : t \in DOMAIN tasks \/ NewRow(tasks'[t])

RunRowsStep ==
    /\ \A r \in DOMAIN runs : r \in DOMAIN runs' /\ RunStep(runs[r], runs'[r])
    /\ \A r \in DOMAIN runs' : r \in DOMAIN runs \/ NewRun(runs'[r])

-----------------------------------------------------------------------------
(* Task rows.                                                              *)

\* An operation that leaves the tasks table alone.
LEMMA TasksSame == tasks' = tasks => TaskRowsStep
BY DEF TaskRowsStep, RowStep

\* An operation that leaves the runs table alone.
LEMMA RunsSame == runs' = runs => RunRowsStep
BY DEF RunRowsStep, RunStep

\* An operation that inserts a new task row.
LEMMA TaskInserted ==
  ASSUME NEW t, NEW row, t \notin DOMAIN tasks, NewRow(row),
         tasks' = Put(tasks, t, row)
  PROVE  TaskRowsStep
<1>1. DOMAIN tasks' = DOMAIN tasks \cup {t}
  BY DEF Put
<1>2. \A u \in DOMAIN tasks : tasks'[u] = tasks[u]
  BY DEF Put
<1>3. tasks'[t] = row
  BY DEF Put
<1> QED
  BY <1>1, <1>2, <1>3 DEF TaskRowsStep, RowStep

\* An operation that updates one task row.
LEMMA TaskUpdated ==
  ASSUME NEW t, NEW row, t \in DOMAIN tasks, RowStep(tasks[t], row),
         tasks' = [tasks EXCEPT ![t] = row]
  PROVE  TaskRowsStep
<1>1. DOMAIN tasks' = DOMAIN tasks
  OBVIOUS
<1>2. \A u \in DOMAIN tasks : tasks'[u] = IF u = t THEN row ELSE tasks[u]
  OBVIOUS
<1>3. \A u \in DOMAIN tasks : RowStep(tasks[u], tasks'[u])
  BY <1>2 DEF RowStep
<1> QED
  BY <1>1, <1>3 DEF TaskRowsStep

\* create_task inserts a pending row.
LEMMA CreateRows ==
  ASSUME NEW t \in TaskId, NEW id \in EventId, NEW at \in Time,
         NEW created \in Time,
         create_task(t, created, StatusEvent(id, t, "pending", at))
  PROVE  TaskRowsStep /\ RunRowsStep
<1> DEFINE e == StatusEvent(id, t, "pending", at)
           row == [NewTaskRow(created) EXCEPT !.updated = e.at]
<1>1. e.at = at
  BY DEF StatusEvent
<1>2. NewRow(row)
  BY <1>1 DEF NewRow
<1>3. t \notin DOMAIN tasks /\ tasks' = Put(tasks, t, row) /\ runs' = runs
  BY DEF create_task
<1> HIDE DEF row
<1> QED
  BY <1>2, <1>3, TaskInserted, RunsSame

\* create_queued_task inserts a queued row.
LEMMA CreateQueuedRows ==
  ASSUME NEW t \in TaskId, NEW id \in EventId, NEW at \in Time,
         NEW created \in Time, NEW qid \in EventId, NEW qat \in Time, NEW route,
         create_queued_task(t, created, StatusEvent(id, t, "pending", at),
                            StatusEvent(qid, t, "queued", qat), route)
  PROVE  TaskRowsStep /\ RunRowsStep
<1> DEFINE ce == StatusEvent(id, t, "pending", at)
           qe == StatusEvent(qid, t, "queued", qat)
           row == [NewTaskRow(created) EXCEPT !.updated = ce.at]
           new == Stamped(Transitioned(row, "queued", qe.at), qe.at)
<1>1. ce.at = at /\ qe.at = qat
  BY DEF StatusEvent
<1>2. TransitionAllowed(row, "queued", qe.at)
  BY DEF create_queued_task
<1>3. NewRow(new)
  BY <1>1, <1>2 DEF NewRow
<1>4. t \notin DOMAIN tasks /\ tasks' = Put(tasks, t, new) /\ runs' = runs
  BY DEF create_queued_task
<1> HIDE DEF new
<1> QED
  BY <1>3, <1>4, TaskInserted, RunsSame

\* transition_task moves one row by a legal transition, or repeats.
LEMMA TransitionRows ==
  ASSUME NEW t \in TaskId, NEW id \in EventId, NEW at \in Time,
         NEW target \in TaskStatus, NEW s \in TaskStatus,
         transition_task(t, target, StatusEvent(id, t, s, at))
  PROVE  TaskRowsStep /\ RunRowsStep
<1> DEFINE e == StatusEvent(id, t, s, at)
           new == Stamped(Transitioned(tasks[t], target, e.at), e.at)
<1>1. CASE IdUsed(events, e.id)
  BY <1>1, TasksSame, RunsSame DEF transition_task, storeVars
<1>2. CASE ~IdUsed(events, e.id)
  <2>1. e.at = at
    BY DEF StatusEvent
  <2>2. TransitionAllowed(tasks[t], target, e.at)
    BY <1>2 DEF transition_task
  <2>3. RowStep(tasks[t], new)
    BY <2>1, <2>2 DEF RowStep
  <2>4. t \in DOMAIN tasks /\ tasks' = [tasks EXCEPT ![t] = new] /\ runs' = runs
    BY <1>2 DEF transition_task
  <2> HIDE DEF new
  <2> QED
    BY <2>3, <2>4, TaskUpdated, RunsSame
<1> QED
  BY <1>1, <1>2

\* assign_task adds an agent to one row, or repeats.
LEMMA AssignRows ==
  ASSUME NEW t \in TaskId, NEW id \in EventId, NEW at \in Time,
         NEW a \in Agent, NEW s \in TaskStatus,
         assign_task(t, a, AssignEvent(id, t, a, s, at))
  PROVE  TaskRowsStep /\ RunRowsStep
<1> DEFINE e == AssignEvent(id, t, a, s, at)
           new == Stamped(Assigned(tasks[t], a), e.at)
<1>1. CASE IdUsed(events, e.id)
  BY <1>1, TasksSame, RunsSame DEF assign_task, storeVars
<1>2. CASE ~IdUsed(events, e.id)
  <2>1. e.at = at
    BY DEF AssignEvent
  <2>2. RowStep(tasks[t], new)
    BY <2>1 DEF RowStep
  <2>3. t \in DOMAIN tasks /\ tasks' = [tasks EXCEPT ![t] = new] /\ runs' = runs
    BY <1>2 DEF assign_task
  <2> HIDE DEF new
  <2> QED
    BY <2>2, <2>3, TaskUpdated, RunsSame
<1> QED
  BY <1>1, <1>2

-----------------------------------------------------------------------------
(* Run rows.                                                               *)

\* The operations on runs insert a queued run or move an active one.
LEMMA RunOperationRows ==
  ASSUME NEW r \in RunId, NEW at \in Time,
         \/ \E t \in TaskId : create_run(r, t, at)
         \/ start_run(r, at)
         \/ \E outcome \in RunTerminal : finish_run(r, outcome, at)
  PROVE  TaskRowsStep /\ RunRowsStep
<1>1. ASSUME NEW t \in TaskId, create_run(r, t, at)
      PROVE  TaskRowsStep /\ RunRowsStep
  <2>1. /\ DOMAIN runs' = DOMAIN runs \cup {r}
        /\ \A x \in DOMAIN runs : runs'[x] = runs[x]
        /\ NewRun(runs'[r])
    BY <1>1 DEF create_run, Put, NewRun
  <2> QED
    BY <1>1, <2>1, TasksSame DEF create_run, RunRowsStep, RunStep
<1>2. ASSUME NEW new, r \in DOMAIN runs, runs[r].status \in RunActive,
             validate_lifecycle(new), runs' = [runs EXCEPT ![r] = new],
             tasks' = tasks
      PROVE  TaskRowsStep /\ RunRowsStep
  <2>1. /\ DOMAIN runs' = DOMAIN runs
        /\ \A x \in DOMAIN runs : runs'[x] = IF x = r THEN new ELSE runs[x]
    BY <1>2
  <2>2. \A x \in DOMAIN runs : RunStep(runs[x], runs'[x])
    BY <1>2, <2>1 DEF RunStep
  <2> QED
    BY <1>2, <2>1, <2>2, TasksSame DEF RunRowsStep
<1>3. CASE start_run(r, at)
  BY <1>2, <1>3 DEF start_run, RunActive
<1>4. ASSUME NEW outcome \in RunTerminal, finish_run(r, outcome, at)
      PROVE  TaskRowsStep /\ RunRowsStep
  BY <1>2, <1>4 DEF finish_run
<1> QED
  BY <1>1, <1>3, <1>4

\* The reconciliation blocks interrupted tasks and closes active runs.
LEMMA ReconcileRows ==
  ASSUME NEW order, NEW ids, NEW at \in Time,
         reconcile_interrupted_running(order, ids, at)
  PROVE  TaskRowsStep /\ RunRowsStep
<1>1. /\ DOMAIN tasks' = DOMAIN tasks
      /\ \A t \in DOMAIN tasks :
           tasks'[t] = IF t \in Interrupted
                       THEN Stamped(Transitioned(tasks[t], "blocked", at), at)
                       ELSE tasks[t]
  BY DEF reconcile_interrupted_running
<1>2. \A t \in Interrupted : TransitionAllowed(tasks[t], "blocked", at)
  BY DEF reconcile_interrupted_running
<1>3. \A t \in DOMAIN tasks : RowStep(tasks[t], tasks'[t])
  BY <1>1, <1>2 DEF RowStep, TaskStatus
<1>4. TaskRowsStep
  BY <1>1, <1>3 DEF TaskRowsStep
<1>5. /\ DOMAIN runs' = DOMAIN runs
      /\ \A r \in DOMAIN runs :
           runs'[r] = IF runs[r].status \in RunActive
                      THEN Finished(runs[r], "interrupted", at) ELSE runs[r]
  BY DEF reconcile_interrupted_running
<1>6. \A r \in DOMAIN runs : runs[r].status \in RunActive =>
        validate_lifecycle(Finished(runs[r], "interrupted", at))
  BY DEF reconcile_interrupted_running
<1>7. \A r \in DOMAIN runs : RunStep(runs[r], runs'[r])
  BY <1>5, <1>6 DEF RunStep
<1> QED
  BY <1>4, <1>5, <1>7 DEF RunRowsStep

\* Every operation treats every row in one of these ways.
LEMMA StepRows == [Next]_storeVars => TaskRowsStep /\ RunRowsStep
<1> SUFFICES ASSUME [Next]_storeVars PROVE TaskRowsStep /\ RunRowsStep
  OBVIOUS
<1>1. CASE UNCHANGED storeVars
  BY <1>1, TasksSame, RunsSame DEF storeVars
<1>2. ASSUME NEW t \in TaskId, NEW id \in EventId, NEW at \in Time,
             \/ \E created \in Time :
                  create_task(t, created, StatusEvent(id, t, "pending", at))
             \/ \E created \in Time, qid \in EventId, qat \in Time,
                   route \in Route \cup {NoRoute} :
                  create_queued_task(t, created,
                                     StatusEvent(id, t, "pending", at),
                                     StatusEvent(qid, t, "queued", qat), route)
             \/ \E target, s \in TaskStatus :
                  transition_task(t, target, StatusEvent(id, t, s, at))
             \/ cancel_task(t, StatusEvent(id, t, "cancelled", at))
             \/ \E a \in Agent, s \in TaskStatus :
                  assign_task(t, a, AssignEvent(id, t, a, s, at))
      PROVE  TaskRowsStep /\ RunRowsStep
  BY <1>2, CreateRows, CreateQueuedRows, TransitionRows, AssignRows
     DEF cancel_task, TaskStatus
<1>3. CASE \E id \in EventId, type \in AtomicTypes \cup OtherTypes,
              t \in TaskId \cup {NoTask}, at \in Time :
             append_event(OtherEvent(id, type, t, at))
  BY <1>3, TasksSame, RunsSame DEF append_event
<1>4. CASE \E t \in TaskId, route \in Route : save_task_route(t, route)
  BY <1>4, TasksSame, RunsSame DEF save_task_route
<1>5. ASSUME NEW r \in RunId, NEW at \in Time,
             \/ \E t \in TaskId : create_run(r, t, at)
             \/ start_run(r, at)
             \/ \E outcome \in RunTerminal : finish_run(r, outcome, at)
      PROVE  TaskRowsStep /\ RunRowsStep
  BY <1>5, RunOperationRows
<1>6. CASE \E a \in ArtifactId, t \in TaskId, r \in RunId \cup {NoRun} :
             create_artifact(a, t, r)
  BY <1>6, TasksSame, RunsSame DEF create_artifact
<1>7. CASE \E n \in 0..Cardinality(TaskId) :
             \E order \in [1..n -> TaskId], ids \in [1..n -> EventId],
                at \in Time : reconcile_interrupted_running(order, ids, at)
  BY <1>7, ReconcileRows
<1> QED
  BY <1>1, <1>2, <1>3, <1>4, <1>5, <1>6, <1>7 DEF Next

-----------------------------------------------------------------------------
(* Closed rows.                                                            *)

\* No transition leaves a terminal status.
LEMMA TerminalIsFinal ==
  ASSUME NEW s \in Terminal, NEW target
  PROVE  ~can_transition(s, target)
<1>1. CASE s = "completed"
  <2>1. LEGAL_TASK_TRANSITIONS[s] = {}
    BY <1>1 DEF LEGAL_TASK_TRANSITIONS, TaskStatus
  <2> QED
    BY <2>1 DEF can_transition
<1>2. CASE s = "failed"
  <2>1. LEGAL_TASK_TRANSITIONS[s] = {}
    BY <1>2 DEF LEGAL_TASK_TRANSITIONS, TaskStatus
  <2> QED
    BY <2>1 DEF can_transition
<1>3. CASE s = "cancelled"
  <2>1. LEGAL_TASK_TRANSITIONS[s] = {}
    BY <1>3 DEF LEGAL_TASK_TRANSITIONS, TaskStatus
  <2> QED
    BY <2>1 DEF can_transition
<1> QED
  BY <1>1, <1>2, <1>3 DEF Terminal

\* Assignments and transitions keep the outcome of a closed task.
LEMMA ClosedRow ==
  ASSUME NEW row \in TaskRow, NEW new, RowStep(row, new), row.status \in Terminal
  PROVE  new.status = row.status /\ new.completed = row.completed
<1>1. CASE new = row
  BY <1>1
<1>2. ASSUME NEW target \in TaskStatus, NEW at \in Time,
             TransitionAllowed(row, target, at)
      PROVE  FALSE
  BY <1>2, TerminalIsFinal DEF TransitionAllowed
<1>3. ASSUME NEW a \in Agent, NEW at \in Time, new = Stamped(Assigned(row, a), at)
      PROVE  new.status = row.status /\ new.completed = row.completed
  BY <1>3 DEF Stamped, Assigned, TaskRow
<1> QED
  BY <1>1, <1>2, <1>3 DEF RowStep

\* What is closed stays closed: whatever is called, retried or reconciled, a
\* terminal task keeps its outcome and its end, a terminal run its whole row,
\* and no row disappears.
THEOREM ClosedIsFinalAlways == Spec => ClosedIsFinal
<1>1. TypeOK /\ [Next]_storeVars => [ClosedStep]_storeVars
  <2> SUFFICES ASSUME TypeOK, [Next]_storeVars PROVE ClosedStep
    OBVIOUS
  <2>1. TaskRowsStep /\ RunRowsStep
    BY StepRows
  <2>2. ASSUME NEW t \in DOMAIN tasks
        PROVE  /\ t \in DOMAIN tasks'
               /\ tasks[t].status \in Terminal =>
                    /\ tasks'[t].status = tasks[t].status
                    /\ tasks'[t].completed = tasks[t].completed
    <3>1. tasks[t] \in TaskRow
      BY DEF TypeOK
    <3> QED
      BY <2>1, <3>1, ClosedRow DEF TaskRowsStep
  <2>3. ASSUME NEW r \in DOMAIN runs
        PROVE  /\ r \in DOMAIN runs'
               /\ runs[r].status \in RunTerminal => runs'[r] = runs[r]
    BY <2>1 DEF RunRowsStep, RunStep, RunTerminal
  <2> QED
    BY <2>2, <2>3 DEF ClosedStep
<1> QED
  BY <1>1, TypeCorrect, PTL DEF Spec, ClosedIsFinal

-----------------------------------------------------------------------------
(* Rows can be read back.                                                  *)

\* A legal transition at an admissible time keeps the timestamps in order.
LEMMA TransitionedValid ==
  ASSUME NEW row \in TaskRow, NEW target \in TaskStatus, NEW at \in Time,
         validate_timestamps(row), TransitionAllowed(row, target, at)
  PROVE  validate_timestamps(Stamped(Transitioned(row, target, at), at))
<1> DEFINE new == Stamped(Transitioned(row, target, at), at)
<1>1. /\ new.status = target
      /\ new.created = row.created
      /\ new.started = IF target \in ActiveStates /\ row.started = NoTime
                       THEN at ELSE row.started
      /\ new.completed = IF target \in Terminal THEN at ELSE row.completed
  BY DEF Stamped, Transitioned, TaskRow
<1>2. row.status \notin Terminal /\ row.completed = NoTime
  BY TerminalIsFinal DEF TransitionAllowed, validate_timestamps
<1>3. /\ at \in Nat /\ at # NoTime /\ at >= row.created
      /\ row.started # NoTime => at >= row.started
  BY TimeAssumption DEF TransitionAllowed, NoTime
<1>4. row.created \in Nat /\ row.started \in Nat \cup {NoTime}
  BY TimeAssumption DEF TaskRow, OptTime
<1> HIDE DEF new
<1>5. new.started # NoTime => new.started >= new.created
  BY <1>1, <1>3, <1>4 DEF validate_timestamps
<1>6. new.completed # NoTime =>
        /\ new.completed >= new.created
        /\ new.started # NoTime => new.completed >= new.started
  BY <1>1, <1>2, <1>3, <1>4, SMT
<1>7. (new.status \in Terminal) <=> (new.completed # NoTime)
  BY <1>1, <1>2, <1>3
<1> QED
  BY <1>5, <1>6, <1>7 DEF validate_timestamps, new

\* An assignment does not touch the validated columns.
LEMMA AssignedValid ==
  ASSUME NEW row \in TaskRow, NEW a \in Agent, NEW at \in Time,
         validate_timestamps(row)
  PROVE  validate_timestamps(Stamped(Assigned(row, a), at))
<1> DEFINE new == Stamped(Assigned(row, a), at)
<1>1. /\ new.status = row.status /\ new.created = row.created
      /\ new.started = row.started /\ new.completed = row.completed
  BY DEF Stamped, Assigned, TaskRow
<1> QED
  BY <1>1 DEF validate_timestamps

\* A new row is valid, pending or queued.
LEMMA NewRowValid ==
  ASSUME NEW new, NewRow(new)
  PROVE  validate_timestamps(new)
<1>1. PICK created \in Time, at \in Time :
        LET row == [NewTaskRow(created) EXCEPT !.updated = at] IN
        \/ new = row
        \/ \E qat \in Time : /\ TransitionAllowed(row, "queued", qat)
                             /\ new = Stamped(Transitioned(row, "queued", qat), qat)
  BY DEF NewRow
<1> DEFINE row == [NewTaskRow(created) EXCEPT !.updated = at]
<1>2. row \in TaskRow
  BY NewTaskRowType
<1>3. validate_timestamps(row)
  BY DEF validate_timestamps, NewTaskRow, Terminal
<1>4. new = row \/ \E qat \in Time : /\ TransitionAllowed(row, "queued", qat)
                                     /\ new = Stamped(Transitioned(row, "queued", qat), qat)
  BY <1>1
<1> HIDE DEF row
<1> QED
  BY <1>2, <1>3, <1>4, TransitionedValid DEF TaskStatus

\* Every operation writes rows that the validators accept.
LEMMA StepDecodable == TypeOK /\ RowsDecodable /\ [Next]_storeVars => RowsDecodable'
<1> SUFFICES ASSUME TypeOK, RowsDecodable, [Next]_storeVars PROVE RowsDecodable'
  OBVIOUS
<1>1. TaskRowsStep /\ RunRowsStep
  BY StepRows
<1>2. ASSUME NEW t \in DOMAIN tasks'
      PROVE  validate_timestamps(tasks'[t])
  <2>1. CASE t \notin DOMAIN tasks
    BY <1>1, <2>1, NewRowValid DEF TaskRowsStep
  <2>2. CASE t \in DOMAIN tasks
    <3>1. tasks[t] \in TaskRow /\ validate_timestamps(tasks[t])
      BY <2>2 DEF TypeOK, RowsDecodable
    <3>2. RowStep(tasks[t], tasks'[t])
      BY <1>1, <2>2 DEF TaskRowsStep
    <3> QED
      BY <3>1, <3>2, TransitionedValid, AssignedValid DEF RowStep
  <2> QED
    BY <2>1, <2>2
<1>3. ASSUME NEW r \in DOMAIN runs'
      PROVE  validate_lifecycle(runs'[r])
  <2>1. CASE r \notin DOMAIN runs
    <3>1. NewRun(runs'[r])
      BY <1>1, <2>1 DEF RunRowsStep
    <3> QED
      BY <3>1 DEF NewRun, validate_lifecycle, RunTerminal, RunActive
  <2>2. CASE r \in DOMAIN runs
    BY <1>1, <2>2 DEF RunRowsStep, RunStep, RowsDecodable
  <2> QED
    BY <2>1, <2>2
<1> QED
  BY <1>2, <1>3 DEF RowsDecodable

\* Whatever timestamps the callers supply, every stored task and run passes the
\* validators that run when it is read back: no operation writes a row that
\* later reads, and with them the start of the hub, would choke on.
THEOREM RowsDecodableAlways == Spec => []RowsDecodable
<1>1. Init => RowsDecodable
  BY DEF Init, RowsDecodable, EmptyTable
<1> QED
  BY <1>1, StepDecodable, TypeCorrect, PTL DEF Spec

-----------------------------------------------------------------------------
(* References between the tables.                                          *)

\* An operation that leaves runs, artifacts and routes alone and removes no
\* task keeps every reference.
LEMMA ReferencesKept ==
  ASSUME ReferencesResolve, DOMAIN tasks \subseteq DOMAIN tasks',
         UNCHANGED <<runs, artifacts, routes>>
  PROVE  ReferencesResolve'
BY DEF ReferencesResolve

\* An operation that keeps the task of every run keeps every reference to
\* them.
LEMMA RunsKept ==
  ASSUME ReferencesResolve, DOMAIN tasks' = DOMAIN tasks,
         UNCHANGED <<artifacts, routes>>,
         \A r \in DOMAIN runs : r \in DOMAIN runs' /\ runs'[r].task = runs[r].task,
         \A r \in DOMAIN runs' : r \in DOMAIN runs \/ runs'[r].task \in DOMAIN tasks
  PROVE  ReferencesResolve'
BY DEF ReferencesResolve

\* The task operations: a routed task exists before its route does.
LEMMA TaskOperationReferences ==
  ASSUME ReferencesResolve, TaskRowsStep, NEW t, NEW created, NEW ce, NEW qe, NEW route,
         NEW target, NEW a,
         \/ create_task(t, created, ce)
         \/ create_queued_task(t, created, ce, qe, route)
         \/ transition_task(t, target, ce)
         \/ assign_task(t, a, ce)
         \/ append_event(ce)
  PROVE  ReferencesResolve'
<1>1. DOMAIN tasks \subseteq DOMAIN tasks'
  BY DEF TaskRowsStep
<1>2. CASE create_queued_task(t, created, ce, qe, route)
  <2>1. t \in DOMAIN tasks'
    BY <1>2 DEF create_queued_task, Put
  <2>2. DOMAIN routes' \subseteq DOMAIN routes \cup {t}
    BY <1>2 DEF create_queued_task, Put
  <2>3. UNCHANGED <<runs, artifacts>>
    BY <1>2 DEF create_queued_task
  <2> QED
    BY <1>1, <2>1, <2>2, <2>3 DEF ReferencesResolve
<1>3. CASE UNCHANGED <<runs, artifacts, routes>>
  BY <1>1, <1>3, ReferencesKept
<1> QED
  BY <1>2, <1>3 DEF create_task, transition_task, assign_task, append_event, storeVars

\* The operations on runs: a new run belongs to a stored task, and no run
\* changes its task.
LEMMA RunOperationReferences ==
  ASSUME TypeOK, ReferencesResolve, NEW r, NEW t, NEW at, NEW outcome,
         create_run(r, t, at) \/ start_run(r, at) \/ finish_run(r, outcome, at)
  PROVE  ReferencesResolve'
<1>1. CASE create_run(r, t, at)
  <2>1. /\ DOMAIN runs' = DOMAIN runs \cup {r}
        /\ \A x \in DOMAIN runs : runs'[x] = runs[x]
        /\ runs'[r].task = t
    BY <1>1 DEF create_run, Put
  <2> QED
    BY <1>1, <2>1, RunsKept DEF create_run
<1>2. ASSUME NEW new, r \in DOMAIN runs, runs' = [runs EXCEPT ![r] = new],
             new.task = runs[r].task, UNCHANGED <<tasks, artifacts, routes>>
      PROVE  ReferencesResolve'
  <2>1. /\ DOMAIN runs' = DOMAIN runs
        /\ \A x \in DOMAIN runs : runs'[x] = IF x = r THEN new ELSE runs[x]
    BY <1>2
  <2> QED
    BY <1>2, <2>1, RunsKept
<1>3. CASE start_run(r, at)
  <2>1. r \in DOMAIN runs /\ runs[r] \in RunRow
    BY <1>3 DEF start_run, TypeOK
  <2>2. Started(runs[r], at).task = runs[r].task
    BY <2>1 DEF Started, RunRow
  <2> QED
    BY <1>2, <1>3, <2>1, <2>2 DEF start_run
<1>4. CASE finish_run(r, outcome, at)
  <2>1. r \in DOMAIN runs /\ runs[r] \in RunRow
    BY <1>4 DEF finish_run, TypeOK
  <2>2. Finished(runs[r], outcome, at).task = runs[r].task
    BY <2>1 DEF Finished, RunRow
  <2> QED
    BY <1>2, <1>4, <2>1, <2>2 DEF finish_run
<1> QED
  BY <1>1, <1>3, <1>4

\* The reconciliation rewrites rows and moves none of them.
LEMMA ReconcileReferences ==
  ASSUME TypeOK, ReferencesResolve, NEW order, NEW ids, NEW at,
         reconcile_interrupted_running(order, ids, at)
  PROVE  ReferencesResolve'
<1>1. /\ DOMAIN tasks' = DOMAIN tasks
      /\ DOMAIN runs' = DOMAIN runs
      /\ UNCHANGED <<artifacts, routes>>
      /\ \A r \in DOMAIN runs :
           runs'[r] = IF runs[r].status \in RunActive
                      THEN Finished(runs[r], "interrupted", at) ELSE runs[r]
  BY DEF reconcile_interrupted_running
<1>2. \A r \in DOMAIN runs : Finished(runs[r], "interrupted", at).task = runs[r].task
  BY DEF TypeOK, Finished, RunRow
<1> QED
  BY <1>1, <1>2, RunsKept

\* Routes and artifacts: the row a new one names is there, and an artifact's
\* run is a run of its task.
LEMMA RouteReferences ==
  ASSUME ReferencesResolve, NEW t, NEW route, save_task_route(t, route)
  PROVE  ReferencesResolve'
<1>1. DOMAIN routes' = DOMAIN routes \cup {t} /\ t \in DOMAIN tasks
  BY DEF save_task_route, Put
<1> QED
  BY <1>1 DEF save_task_route, ReferencesResolve

\* An artifact is stored with the task and the run it belongs to.
LEMMA ArtifactReferences ==
  ASSUME ReferencesResolve, NEW a, NEW t, NEW r, create_artifact(a, t, r)
  PROVE  ReferencesResolve'
<1>1. /\ DOMAIN artifacts' = DOMAIN artifacts \cup {a}
      /\ \A x \in DOMAIN artifacts : x # a => artifacts'[x] = artifacts[x]
      /\ artifacts'[a].task = t /\ artifacts'[a].run = r
  BY DEF create_artifact, Put
<1>2. /\ a \notin DOMAIN artifacts /\ t \in DOMAIN tasks
      /\ r # NoRun => r \in DOMAIN runs /\ runs[r].task = t
      /\ UNCHANGED <<tasks, runs, routes>>
  BY DEF create_artifact
<1> QED
  BY <1>1, <1>2 DEF ReferencesResolve

\* No operation leaves a row that refers to nothing.
LEMMA StepReferences ==
  TypeOK /\ ReferencesResolve /\ [Next]_storeVars => ReferencesResolve'
<1> SUFFICES ASSUME TypeOK, ReferencesResolve, [Next]_storeVars
             PROVE  ReferencesResolve'
  OBVIOUS
<1>1. TaskRowsStep
  BY StepRows
<1>2. CASE UNCHANGED storeVars
  BY <1>2, ReferencesKept DEF storeVars
<1>3. ASSUME NEW t \in TaskId, NEW id \in EventId, NEW at \in Time,
             \/ \E created \in Time :
                  create_task(t, created, StatusEvent(id, t, "pending", at))
             \/ \E created \in Time, qid \in EventId, qat \in Time,
                   route \in Route \cup {NoRoute} :
                  create_queued_task(t, created,
                                     StatusEvent(id, t, "pending", at),
                                     StatusEvent(qid, t, "queued", qat), route)
             \/ \E target, s \in TaskStatus :
                  transition_task(t, target, StatusEvent(id, t, s, at))
             \/ cancel_task(t, StatusEvent(id, t, "cancelled", at))
             \/ \E a \in Agent, s \in TaskStatus :
                  assign_task(t, a, AssignEvent(id, t, a, s, at))
      PROVE  ReferencesResolve'
  BY <1>1, <1>3, TaskOperationReferences DEF cancel_task
<1>4. CASE \E id \in EventId, type \in AtomicTypes \cup OtherTypes,
              t \in TaskId \cup {NoTask}, at \in Time :
             append_event(OtherEvent(id, type, t, at))
  BY <1>1, <1>4, TaskOperationReferences
<1>5. CASE \E t \in TaskId, route \in Route : save_task_route(t, route)
  BY <1>5, RouteReferences
<1>6. ASSUME NEW r \in RunId, NEW at \in Time,
             \/ \E t \in TaskId : create_run(r, t, at)
             \/ start_run(r, at)
             \/ \E outcome \in RunTerminal : finish_run(r, outcome, at)
      PROVE  ReferencesResolve'
  BY <1>6, RunOperationReferences
<1>7. CASE \E a \in ArtifactId, t \in TaskId, r \in RunId \cup {NoRun} :
             create_artifact(a, t, r)
  BY <1>7, ArtifactReferences
<1>8. CASE \E n \in 0..Cardinality(TaskId) :
             \E order \in [1..n -> TaskId], ids \in [1..n -> EventId],
                at \in Time : reconcile_interrupted_running(order, ids, at)
  BY <1>8, ReconcileReferences
<1> QED
  BY <1>2, <1>3, <1>4, <1>5, <1>6, <1>7, <1>8 DEF Next

\* Whatever is called, every row a run, a route or an artifact refers to is
\* there, and an artifact is never filed under a run of another task.
THEOREM ReferencesResolveAlways == Spec => []ReferencesResolve
<1>1. Init => ReferencesResolve
  BY DEF Init, ReferencesResolve, EmptyTable
<1> QED
  BY <1>1, StepReferences, TypeCorrect, PTL DEF Spec

-----------------------------------------------------------------------------
(* The store implements TaskTable.                                         *)

\* What the callers see of the rows.
TaskStatuses == [t \in DOMAIN tasks |-> tasks[t].status]
TaskAgents   == [t \in DOMAIN tasks |-> tasks[t].agents]
RunStates    == [r \in DOMAIN runs |->
                   [task |-> runs[r].task, status |-> runs[r].status]]

\* The promised next-state relation, or no visible change.
TableStep == [Table!TableNext]_(Table!tableVars)

\* An operation that leaves tasks and runs alone is invisible.
LEMMA TableStutters == UNCHANGED <<tasks, runs>> => TableStep
BY DEF TableStep, Table!tableVars

\* The insertion of a task row is a TableCreate.
LEMMA InsertedIsCreate ==
  ASSUME NEW t \in TaskId, NEW row, t \notin DOMAIN tasks,
         row.status \in {"pending", "queued"}, row.agents = {},
         tasks' = Put(tasks, t, row), runs' = runs
  PROVE  TableStep
<1>1. TaskStatuses' = Table!Put(TaskStatuses, t, row.status)
  BY DEF TaskStatuses, Table!Put, Put
<1>2. TaskAgents' = Table!Put(TaskAgents, t, {})
  BY DEF TaskAgents, Table!Put, Put
<1>3. RunStates' = RunStates
  BY DEF RunStates
<1>4. Table!TableCreate(t, row.status)
  BY <1>1, <1>2, <1>3 DEF Table!TableCreate, TaskStatuses, TaskAgents, RunStates
<1> QED
  BY <1>4 DEF TableStep, Table!TableNext

\* create_task and create_queued_task insert a row that shows no agents and
\* the status pending or queued.
LEMMA CreateIsTableStep ==
  ASSUME NEW t \in TaskId, NEW created, NEW ce, NEW qe, NEW route,
         \/ create_task(t, created, ce)
         \/ create_queued_task(t, created, ce, qe, route)
  PROVE  TableStep
<1> DEFINE row == [NewTaskRow(created) EXCEPT !.updated = ce.at]
           new == Stamped(Transitioned(row, "queued", qe.at), qe.at)
<1>1. row.status = "pending" /\ row.agents = {}
  BY DEF NewTaskRow
<1>2. new.status = "queued" /\ new.agents = {}
  BY DEF NewTaskRow, Stamped, Transitioned
<1>3. CASE create_task(t, created, ce)
  <2>1. t \notin DOMAIN tasks /\ tasks' = Put(tasks, t, row) /\ runs' = runs
    BY <1>3 DEF create_task
  <2> HIDE DEF row
  <2> QED
    BY <1>1, <2>1, InsertedIsCreate
<1>4. CASE create_queued_task(t, created, ce, qe, route)
  <2>1. t \notin DOMAIN tasks /\ tasks' = Put(tasks, t, new) /\ runs' = runs
    BY <1>4 DEF create_queued_task
  <2> HIDE DEF new
  <2> QED
    BY <1>2, <2>1, InsertedIsCreate
<1> QED
  BY <1>3, <1>4

\* transition_task moves the visible status along a legal transition, or
\* repeats and changes nothing.
LEMMA TransitionIsTableStep ==
  ASSUME TypeOK, NEW t \in TaskId, NEW target \in TaskStatus, NEW e,
         transition_task(t, target, e)
  PROVE  TableStep
<1> DEFINE new == Stamped(Transitioned(tasks[t], target, e.at), e.at)
<1>1. CASE IdUsed(events, e.id)
  BY <1>1, TableStutters DEF transition_task, storeVars
<1>2. CASE ~IdUsed(events, e.id)
  <2>1. /\ t \in DOMAIN tasks /\ can_transition(tasks[t].status, target)
        /\ tasks' = [tasks EXCEPT ![t] = new] /\ runs' = runs
    BY <1>2 DEF transition_task, TransitionAllowed
  <2>2. new.status = target /\ new.agents = tasks[t].agents
    BY <2>1 DEF TypeOK, TaskRow, Stamped, Transitioned
  <2> HIDE DEF new
  <2>3. TaskStatuses' = [TaskStatuses EXCEPT ![t] = target]
    BY <2>1, <2>2 DEF TaskStatuses
  <2>4. TaskAgents' = TaskAgents
    BY <2>1, <2>2 DEF TaskAgents
  <2>5. RunStates' = RunStates
    BY <2>1 DEF RunStates
  <2>6. Table!TableTransition(t, target)
    BY <2>1, <2>3, <2>4, <2>5
       DEF Table!TableTransition, Table!can_transition, can_transition,
           Table!LEGAL_TASK_TRANSITIONS, LEGAL_TASK_TRANSITIONS,
           Table!TaskStatus, TaskStatus, Table!Terminal, Terminal,
           TaskStatuses, TaskAgents, RunStates
  <2> QED
    BY <2>6 DEF TableStep, Table!TableNext, Table!TaskStatus, TaskStatus
<1> QED
  BY <1>1, <1>2

\* assign_task adds an agent to a task in the status its caller read.
LEMMA AssignIsTableStep ==
  ASSUME TypeOK, NEW t \in TaskId, NEW a \in Agent, NEW e, assign_task(t, a, e)
  PROVE  TableStep
<1> DEFINE new == Stamped(Assigned(tasks[t], a), e.at)
<1>1. CASE IdUsed(events, e.id)
  BY <1>1, TableStutters DEF assign_task, storeVars
<1>2. CASE ~IdUsed(events, e.id)
  <2>1. /\ t \in DOMAIN tasks /\ a \notin tasks[t].agents
        /\ tasks' = [tasks EXCEPT ![t] = new] /\ runs' = runs
        /\ tasks[t].status \in TaskStatus
    BY <1>2 DEF assign_task, TypeOK, TaskRow
  <2>2. new.status = tasks[t].status /\ new.agents = tasks[t].agents \cup {a}
    BY <2>1 DEF TypeOK, TaskRow, Stamped, Assigned
  <2> HIDE DEF new
  <2>3. TaskStatuses' = TaskStatuses
    BY <2>1, <2>2 DEF TaskStatuses
  <2>4. TaskAgents' = [TaskAgents EXCEPT ![t] = TaskAgents[t] \cup {a}]
    BY <2>1, <2>2 DEF TaskAgents
  <2>5. RunStates' = RunStates
    BY <2>1 DEF RunStates
  <2>6. PICK seen \in Table!TaskStatus : seen = tasks[t].status
    BY <2>1 DEF Table!TaskStatus, TaskStatus
  <2>7. Table!TableAssign(t, a, seen)
    BY <2>1, <2>3, <2>4, <2>5, <2>6
       DEF Table!TableAssign, TaskStatuses, TaskAgents, RunStates
  <2> QED
    BY <2>7 DEF TableStep, Table!TableNext
<1> QED
  BY <1>1, <1>2

\* create_run, start_run and finish_run are their counterparts.
LEMMA RunIsTableStep ==
  ASSUME TypeOK, NEW r \in RunId, NEW at,
         \/ \E t \in TaskId : create_run(r, t, at)
         \/ start_run(r, at)
         \/ \E outcome \in RunTerminal : finish_run(r, outcome, at)
  PROVE  TableStep
<1>1. ASSUME NEW t \in TaskId, create_run(r, t, at) PROVE TableStep
  <2>1. /\ r \notin DOMAIN runs /\ t \in DOMAIN tasks /\ tasks' = tasks
        /\ DOMAIN runs' = DOMAIN runs \cup {r}
        /\ \A x \in DOMAIN runs : runs'[x] = runs[x]
        /\ runs'[r].task = t /\ runs'[r].status = "queued"
    BY <1>1 DEF create_run, Put
  <2>2. RunStates' = Table!Put(RunStates, r, [task |-> t, status |-> "queued"])
    BY <2>1 DEF RunStates, Table!Put
  <2>3. Table!TableCreateRun(r, t)
    BY <2>1, <2>2 DEF Table!TableCreateRun, RunStates
  <2> QED
    BY <2>3 DEF TableStep, Table!TableNext
<1>2. ASSUME NEW new, r \in DOMAIN runs, runs' = [runs EXCEPT ![r] = new],
             new.task = runs[r].task
      PROVE  RunStates' = [RunStates EXCEPT ![r].status = new.status]
  BY <1>2 DEF RunStates
<1>3. CASE start_run(r, at)
  <2>1. r \in DOMAIN runs /\ runs[r] \in RunRow
    BY <1>3 DEF start_run, TypeOK
  <2>2. /\ Started(runs[r], at).task = runs[r].task
        /\ Started(runs[r], at).status = "running"
    BY <2>1 DEF Started, RunRow
  <2>3. RunStates' = [RunStates EXCEPT ![r].status = "running"]
    BY <1>2, <1>3, <2>1, <2>2 DEF start_run
  <2>4. Table!TableStartRun(r)
    BY <1>3, <2>3 DEF start_run, Table!TableStartRun, RunStates
  <2> QED
    BY <2>4 DEF TableStep, Table!TableNext
<1>4. ASSUME NEW outcome \in RunTerminal, finish_run(r, outcome, at)
      PROVE  TableStep
  <2>1. r \in DOMAIN runs /\ runs[r] \in RunRow
    BY <1>4 DEF finish_run, TypeOK
  <2>2. /\ Finished(runs[r], outcome, at).task = runs[r].task
        /\ Finished(runs[r], outcome, at).status = outcome
    BY <2>1 DEF Finished, RunRow
  <2>3. RunStates' = [RunStates EXCEPT ![r].status = outcome]
    BY <1>2, <1>4, <2>1, <2>2 DEF finish_run
  <2>4. Table!TableFinishRun(r, outcome)
    BY <1>4, <2>3
       DEF finish_run, Table!TableFinishRun, RunStates, RunActive, RunTerminal, RunStatus,
           Table!RunActive, Table!RunTerminal, Table!RunStatus
  <2> QED
    BY <2>4 DEF TableStep, Table!TableNext, RunActive, RunTerminal, RunStatus,
                Table!RunActive, Table!RunTerminal, Table!RunStatus
<1> QED
  BY <1>1, <1>3, <1>4

\* The reconciliation is one step over both tables, however many rows it
\* closes.
LEMMA ReconcileIsTableStep ==
  ASSUME TypeOK, NEW order, NEW ids, NEW at,
         reconcile_interrupted_running(order, ids, at)
  PROVE  TableStep
<1>1. /\ DOMAIN tasks' = DOMAIN tasks
      /\ \A t \in DOMAIN tasks :
           tasks'[t] = IF tasks[t].status \in {"planning", "running"}
                       THEN Stamped(Transitioned(tasks[t], "blocked", at), at)
                       ELSE tasks[t]
  BY DEF reconcile_interrupted_running, Interrupted
<1>2. \A t \in DOMAIN tasks :
        LET new == Stamped(Transitioned(tasks[t], "blocked", at), at)
        IN  new.status = "blocked" /\ new.agents = tasks[t].agents
  BY DEF TypeOK, TaskRow, Stamped, Transitioned
<1>3. TaskStatuses' = [t \in DOMAIN TaskStatuses |->
                         IF TaskStatuses[t] \in {"planning", "running"}
                         THEN "blocked" ELSE TaskStatuses[t]]
  BY <1>1, <1>2 DEF TaskStatuses
<1>4. TaskAgents' = TaskAgents
  BY <1>1, <1>2 DEF TaskAgents
<1>5. /\ DOMAIN runs' = DOMAIN runs
      /\ \A r \in DOMAIN runs :
           runs'[r] = IF runs[r].status \in RunActive
                      THEN Finished(runs[r], "interrupted", at) ELSE runs[r]
  BY DEF reconcile_interrupted_running
<1>6. \A r \in DOMAIN runs :
        /\ Finished(runs[r], "interrupted", at).task = runs[r].task
        /\ Finished(runs[r], "interrupted", at).status = "interrupted"
  BY DEF TypeOK, Finished, RunRow
<1>7. RunStates' = [r \in DOMAIN RunStates |->
                      IF RunStates[r].status \in RunActive
                      THEN [RunStates[r] EXCEPT !.status = "interrupted"]
                      ELSE RunStates[r]]
  BY <1>5, <1>6 DEF RunStates
<1>8. Table!TableReconcile
  BY <1>3, <1>4, <1>7
     DEF Table!TableReconcile, TaskStatuses, TaskAgents, RunStates,
         Table!RunActive, RunActive
<1> QED
  BY <1>8 DEF TableStep, Table!TableNext

\* Every operation of the store is one step of the abstract table.
LEMMA StepImplements == TypeOK /\ [Next]_storeVars => TableStep
<1> SUFFICES ASSUME TypeOK, [Next]_storeVars PROVE TableStep
  OBVIOUS
<1>1. CASE UNCHANGED storeVars
  BY <1>1, TableStutters DEF storeVars
<1>2. ASSUME NEW t \in TaskId, NEW id \in EventId, NEW at \in Time,
             \/ \E created \in Time :
                  create_task(t, created, StatusEvent(id, t, "pending", at))
             \/ \E created \in Time, qid \in EventId, qat \in Time,
                   route \in Route \cup {NoRoute} :
                  create_queued_task(t, created,
                                     StatusEvent(id, t, "pending", at),
                                     StatusEvent(qid, t, "queued", qat), route)
             \/ \E target, s \in TaskStatus :
                  transition_task(t, target, StatusEvent(id, t, s, at))
             \/ cancel_task(t, StatusEvent(id, t, "cancelled", at))
             \/ \E a \in Agent, s \in TaskStatus :
                  assign_task(t, a, AssignEvent(id, t, a, s, at))
      PROVE  TableStep
  BY <1>2, CreateIsTableStep, TransitionIsTableStep, AssignIsTableStep
     DEF cancel_task, TaskStatus
<1>3. CASE \E id \in EventId, type \in AtomicTypes \cup OtherTypes,
              t \in TaskId \cup {NoTask}, at \in Time :
             append_event(OtherEvent(id, type, t, at))
  BY <1>3, TableStutters DEF append_event
<1>4. CASE \E t \in TaskId, route \in Route : save_task_route(t, route)
  BY <1>4, TableStutters DEF save_task_route
<1>5. ASSUME NEW r \in RunId, NEW at \in Time,
             \/ \E t \in TaskId : create_run(r, t, at)
             \/ start_run(r, at)
             \/ \E outcome \in RunTerminal : finish_run(r, outcome, at)
      PROVE  TableStep
  BY <1>5, RunIsTableStep
<1>6. CASE \E a \in ArtifactId, t \in TaskId, r \in RunId \cup {NoRun} :
             create_artifact(a, t, r)
  BY <1>6, TableStutters DEF create_artifact
<1>7. CASE \E n \in 0..Cardinality(TaskId) :
             \E order \in [1..n -> TaskId], ids \in [1..n -> EventId],
                at \in Time : reconcile_interrupted_running(order, ids, at)
  BY <1>7, ReconcileIsTableStep
<1> QED
  BY <1>1, <1>2, <1>3, <1>4, <1>5, <1>6, <1>7 DEF Next

\* The store implements TaskTable: seen without log, clock and versions, every
\* operation, repeated, refused or reconciling, is one of the atomic steps
\* that the orchestrator and the notifier are built on.
THEOREM StoreImplementsTable == Spec => ImplementsTable
<1>1. Init => Table!TableInit
  BY DEF Init, EmptyTable, Table!TableInit, Table!EmptyTable
<1>2. TypeOK /\ [Next]_storeVars => [Table!TableNext]_(Table!tableVars)
  BY StepImplements DEF TableStep
<1> QED
  BY <1>1, <1>2, TypeCorrect, PTL DEF Spec, ImplementsTable, Table!TableSpec

-----------------------------------------------------------------------------
(* The log is a legal history.                                             *)

\* May event e follow in the stream of a task whose status is s?
Follows(s, e) == IF e.type = "agent.assigned" THEN e.status = s
                 ELSE can_transition(s, e.status)

\* A stream begins with task.created and goes on with legal events.
LegalStream(log, t) ==
    /\ Stream(log, t) # {}
    /\ \A i \in DOMAIN log : IsFirst(log, i, t) =>
         log[i].type = "task.created" /\ log[i].status = "pending"
    /\ \A i, j \in DOMAIN log : IsNext(log, i, j, t) =>
         Follows(log[i].status, log[j])

Histories == \A t \in DOMAIN tasks : LegalStream(events, t)

\* A longer log has the same stream for t, or one more event at its end.
StreamSame(log, new, t) ==
    /\ Stream(new, t) = Stream(log, t)
    /\ \A i \in Stream(log, t) : new[i] = log[i]

StreamGrown(log, new, t, m) ==
    /\ Stream(new, t) = Stream(log, t) \cup {m}
    /\ m \in Nat
    /\ \A i \in Stream(log, t) : i \in Nat /\ i < m /\ new[i] = log[i]

\* A stream that does not change stays legal.
LEMMA SameIsLegal ==
  ASSUME NEW log, NEW new, NEW t, LegalStream(log, t), StreamSame(log, new, t)
  PROVE  LegalStream(new, t)
<1>1. \A i \in Stream(log, t) : i \in DOMAIN log
  BY DEF Stream
<1>2. \A i : IsFirst(new, i, t) => IsFirst(log, i, t)
  BY DEF IsFirst, StreamSame
<1>3. \A i, j : IsNext(new, i, j, t) => IsNext(log, i, j, t)
  BY DEF IsNext, StreamSame
<1>4. Stream(new, t) # {}
  BY DEF StreamSame, LegalStream
<1>5. ASSUME NEW i \in DOMAIN new, IsFirst(new, i, t)
      PROVE  new[i].type = "task.created" /\ new[i].status = "pending"
  <2>1. IsFirst(log, i, t) /\ i \in Stream(log, t)
    BY <1>2, <1>5 DEF IsFirst
  <2> QED
    BY <1>1, <2>1 DEF StreamSame, LegalStream
<1>6. ASSUME NEW i \in DOMAIN new, NEW j \in DOMAIN new, IsNext(new, i, j, t)
      PROVE  Follows(new[i].status, new[j])
  <2>1. IsNext(log, i, j, t) /\ i \in Stream(log, t) /\ j \in Stream(log, t)
    BY <1>3, <1>6 DEF IsNext
  <2>2. Follows(log[i].status, log[j]) /\ new[i] = log[i] /\ new[j] = log[j]
    BY <1>1, <2>1 DEF StreamSame, LegalStream
  <2> QED
    BY <2>2
<1> QED
  BY <1>4, <1>5, <1>6 DEF LegalStream

\* A legal stream that gains an event which may follow its last one stays
\* legal.
LEMMA GrownIsLegal ==
  ASSUME NEW log, NEW new, NEW t, NEW m, NEW s,
         LegalStream(log, t), StreamGrown(log, new, t, m),
         \A i \in DOMAIN log : IsLast(log, i, t) => log[i].status = s,
         Follows(s, new[m])
  PROVE  LegalStream(new, t)
<1>1. \A i \in Stream(log, t) : i \in DOMAIN log /\ i \in Nat /\ i < m /\ new[i] = log[i]
  BY DEF Stream, StreamGrown
<1>2. Stream(new, t) = Stream(log, t) \cup {m} /\ m \in Nat
  BY DEF StreamGrown
<1>3. PICK k : k \in Stream(log, t)
  BY DEF LegalStream
<1>4. ASSUME NEW i \in DOMAIN new, IsFirst(new, i, t)
      PROVE  new[i].type = "task.created" /\ new[i].status = "pending"
  <2>1. i \in Stream(new, t) /\ \A j \in Stream(new, t) : i <= j
    BY <1>4 DEF IsFirst
  <2>2. i # m
    BY <1>1, <1>2, <1>3, <2>1
  <2>3. IsFirst(log, i, t) /\ i \in Stream(log, t)
    BY <1>2, <2>1, <2>2 DEF IsFirst
  <2> QED
    BY <1>1, <2>3 DEF LegalStream
<1>5. ASSUME NEW i \in DOMAIN new, NEW j \in DOMAIN new, IsNext(new, i, j, t)
      PROVE  Follows(new[i].status, new[j])
  <2>1. /\ i \in Stream(new, t) /\ j \in Stream(new, t) /\ i < j
        /\ \A x \in Stream(new, t) : x <= i \/ j <= x
    BY <1>5 DEF IsNext
  <2>2. i \in Stream(log, t)
    BY <1>1, <1>2, <2>1
  <2>3. CASE j = m
    <3>1. IsLast(log, i, t)
      BY <1>1, <1>2, <2>1, <2>2, <2>3 DEF IsLast
    <3>2. new[i].status = s
      BY <1>1, <2>2, <3>1
    <3> QED
      BY <2>3, <3>2
  <2>4. CASE j # m
    <3>1. IsNext(log, i, j, t) /\ j \in Stream(log, t)
      BY <1>2, <2>1, <2>2, <2>4 DEF IsNext
    <3>2. Follows(log[i].status, log[j]) /\ new[i] = log[i] /\ new[j] = log[j]
      BY <1>1, <2>2, <3>1 DEF LegalStream
    <3> QED
      BY <3>2
  <2> QED
    BY <2>3, <2>4
<1> QED
  BY <1>2, <1>4, <1>5 DEF LegalStream

\* A stream of one event, task.created, is legal.
LEMMA FirstIsLegal ==
  ASSUME NEW log, NEW new, NEW t, NEW m, StreamGrown(log, new, t, m),
         Stream(log, t) = {},
         new[m].type = "task.created", new[m].status = "pending"
  PROVE  LegalStream(new, t)
<1>1. Stream(new, t) = {m} /\ m \in Nat
  BY DEF StreamGrown
<1>2. \A i : IsFirst(new, i, t) => i = m
  BY <1>1 DEF IsFirst
<1>3. \A i, j : ~IsNext(new, i, j, t)
  BY <1>1 DEF IsNext
<1> QED
  BY <1>1, <1>2, <1>3 DEF LegalStream

\* What an appended event does to the streams.
LEMMA AppendStreams ==
  ASSUME NEW log \in Seq(Event), NEW e \in Event, e.type \in AtomicTypes
  PROVE  /\ StreamGrown(log, Append(log, e), e.task, Len(log) + 1)
         /\ Append(log, e)[Len(log) + 1] = e
<1> DEFINE new == Append(log, e)
<1>1. /\ DOMAIN log = 1..Len(log) /\ Len(log) \in Nat
      /\ new[Len(log) + 1] = e
      /\ \A i \in 1..Len(log) : new[i] = log[i]
  OBVIOUS
<1>2. Stream(new, e.task) = Stream(log, e.task) \cup {Len(log) + 1}
  BY AppendOwnStream
<1> HIDE DEF new
<1>3. \A i \in Stream(log, e.task) : i \in 1..Len(log)
  BY <1>1 DEF Stream
<1> QED
  BY <1>1, <1>2, <1>3 DEF StreamGrown, new

\* What an appended event does to the other streams.
LEMMA AppendOtherStreams ==
  ASSUME NEW log \in Seq(Event), NEW e \in Event, NEW t,
         e.task # t \/ e.type \notin AtomicTypes
  PROVE  StreamSame(log, Append(log, e), t)
<1> DEFINE new == Append(log, e)
<1>1. /\ DOMAIN log = 1..Len(log)
      /\ \A i \in 1..Len(log) : new[i] = log[i]
  OBVIOUS
<1>2. Stream(new, t) = Stream(log, t)
  BY AppendOtherStream
<1> HIDE DEF new
<1> QED
  BY <1>1, <1>2 DEF StreamSame, Stream, new

\* create_task begins the stream of its task.
LEMMA CreateHistory ==
  ASSUME TypeOK, LogExplainsTasks, Histories, NEW t \in TaskId, NEW id \in EventId,
         NEW at \in Time, NEW created \in Time,
         create_task(t, created, StatusEvent(id, t, "pending", at))
  PROVE  Histories'
<1> DEFINE e == StatusEvent(id, t, "pending", at)
<1>1. /\ e \in Event /\ e.task = t /\ e.status = "pending"
      /\ e.type = "task.created" /\ e.type \in AtomicTypes
  BY StatusEventType
     DEF StatusEvent, TaskStatus, AtomicTypes, LifecycleTypes, EVENT_FOR_STATUS
<1>2. /\ t \notin DOMAIN tasks /\ AppendAllowed(events, e)
      /\ DOMAIN tasks' = DOMAIN tasks \cup {t}
      /\ events' = AppendLocked(events, e)
  BY DEF create_task, Put
<1> HIDE DEF e
<1>3. \A i \in DOMAIN events : events[i].task # t
  BY <1>2, NoEventsBeforeCreation
<1>4. events' = Append(events, e)
  BY <1>1, <1>2, <1>3 DEF AppendAllowed, AppendLocked, Recorded
<1>5. Stream(events, t) = {} /\ events \in Seq(Event)
  BY <1>3 DEF Stream, TypeOK
<1>6. LegalStream(events', t)
  <2>1. StreamGrown(events, events', t, Len(events) + 1) /\ events'[Len(events) + 1] = e
    BY <1>1, <1>4, <1>5, AppendStreams
  <2> QED
    BY <1>1, <1>5, <2>1, FirstIsLegal
<1>7. \A u \in DOMAIN tasks : LegalStream(events', u)
  BY <1>1, <1>2, <1>4, <1>5, AppendOtherStreams, SameIsLegal DEF Histories
<1> QED
  BY <1>2, <1>6, <1>7 DEF Histories

\* create_queued_task begins it with two events.
LEMMA CreateQueuedHistory ==
  ASSUME TypeOK, LogExplainsTasks, Histories, NEW t \in TaskId, NEW id \in EventId,
         NEW at \in Time, NEW created \in Time, NEW qid \in EventId,
         NEW qat \in Time, NEW route \in Route \cup {NoRoute},
         create_queued_task(t, created, StatusEvent(id, t, "pending", at),
                            StatusEvent(qid, t, "queued", qat), route)
  PROVE  Histories'
<1> DEFINE ce == StatusEvent(id, t, "pending", at)
           qe == StatusEvent(qid, t, "queued", qat)
           log1 == AppendLocked(events, ce)
           log2 == AppendLocked(log1, qe)
<1>1. /\ ce \in Event /\ ce.task = t /\ ce.status = "pending"
      /\ ce.type = "task.created" /\ ce.type \in AtomicTypes
      /\ qe \in Event /\ qe.task = t /\ qe.status = "queued"
      /\ qe.type = "task.queued" /\ qe.type \in AtomicTypes
  BY StatusEventType
     DEF StatusEvent, TaskStatus, AtomicTypes, LifecycleTypes, EVENT_FOR_STATUS
<1>2. /\ t \notin DOMAIN tasks /\ AppendAllowed(events, ce)
      /\ AppendAllowed(log1, qe)
      /\ DOMAIN tasks' = DOMAIN tasks \cup {t}
      /\ events' = log2
  BY DEF create_queued_task, Put
<1> HIDE DEF ce, qe
<1>3. \A i \in DOMAIN events : events[i].task # t
  BY <1>2, NoEventsBeforeCreation
<1>4. log1 = Append(events, ce) /\ log1 \in Seq(Event) /\ events \in Seq(Event)
  BY <1>1, <1>2, <1>3 DEF AppendAllowed, AppendLocked, Recorded, TypeOK
<1> HIDE DEF log1
<1>5. log2 = Append(log1, qe)
  <2>1. \A i \in DOMAIN log1 : log1[i] # qe
    BY <1>1, <1>3, <1>4
  <2> QED
    BY <1>2, <2>1 DEF AppendAllowed, AppendLocked, Recorded
<1> HIDE DEF log2
<1>6. Stream(events, t) = {}
  BY <1>3 DEF Stream
<1>7. StreamGrown(events, log1, t, Len(events) + 1) /\ log1[Len(events) + 1] = ce
  BY <1>1, <1>4, AppendStreams
<1>8. /\ LegalStream(log1, t)
      /\ \A i \in DOMAIN log1 : IsLast(log1, i, t) => log1[i].status = "pending"
  <2>1. LegalStream(log1, t)
    BY <1>1, <1>6, <1>7, FirstIsLegal
  <2> QED
    BY <1>1, <1>6, <1>7, <2>1 DEF StreamGrown, IsLast
<1>9. Follows("pending", qe)
  BY <1>1 DEF Follows, can_transition, LEGAL_TASK_TRANSITIONS, TaskStatus
<1>10. LegalStream(log2, t)
  <2>1. StreamGrown(log1, log2, t, Len(log1) + 1) /\ log2[Len(log1) + 1] = qe
    BY <1>1, <1>4, <1>5, AppendStreams
  <2> QED
    BY <1>8, <1>9, <2>1, GrownIsLegal
<1>11. \A u \in DOMAIN tasks : LegalStream(log1, u)
  BY <1>1, <1>2, <1>4, AppendOtherStreams, SameIsLegal DEF Histories
<1>12. \A u \in DOMAIN tasks : LegalStream(log2, u)
  BY <1>1, <1>2, <1>4, <1>5, <1>11, AppendOtherStreams, SameIsLegal
<1> QED
  BY <1>2, <1>10, <1>12 DEF Histories

\* A stored task takes an event that may follow its status.
LEMMA UpdateHistory ==
  ASSUME TypeOK, LogExplainsTasks, Histories, NEW t \in DOMAIN tasks, NEW e \in Event,
         e.task = t, e.type \in AtomicTypes, ~IdUsed(events, e.id),
         Follows(tasks[t].status, e), DOMAIN tasks' = DOMAIN tasks,
         events' = AppendLocked(events, e)
  PROVE  Histories'
<1>1. events' = Append(events, e) /\ events \in Seq(Event)
  BY DEF AppendLocked, TypeOK
<1>2. \A i \in DOMAIN events : IsLast(events, i, t) =>
        events[i].status = tasks[t].status
  BY DEF LogExplainsTasks, RowExplained
<1>3. LegalStream(events', t)
  <2>1. StreamGrown(events, events', t, Len(events) + 1) /\ events'[Len(events) + 1] = e
    BY <1>1, AppendStreams
  <2>2. LegalStream(events, t)
    BY DEF Histories
  <2>3. Follows(tasks[t].status, events'[Len(events) + 1])
    BY <2>1
  <2> QED
    BY <1>2, <2>1, <2>2, <2>3, GrownIsLegal
<1>4. ASSUME NEW u \in DOMAIN tasks \ {t} PROVE LegalStream(events', u)
  <2>1. StreamSame(events, events', u)
    BY <1>1, AppendOtherStreams
  <2>2. LegalStream(events, u)
    BY DEF Histories
  <2> QED
    BY <2>1, <2>2, SameIsLegal
<1> QED
  BY <1>3, <1>4 DEF Histories

\* transition_task appends the event of a legal transition.
LEMMA TransitionHistory ==
  ASSUME TypeOK, LogExplainsTasks, Histories, NEW t \in TaskId, NEW id \in EventId,
         NEW at \in Time, NEW target \in TaskStatus, NEW s \in TaskStatus,
         transition_task(t, target, StatusEvent(id, t, s, at))
  PROVE  Histories'
<1> DEFINE e == StatusEvent(id, t, s, at)
<1>1. CASE IdUsed(events, e.id)
  BY <1>1 DEF transition_task, storeVars, Histories
<1>2. CASE ~IdUsed(events, e.id)
  <2>1. /\ e \in Event /\ e.task = t /\ e.status = s
        /\ e.type \in LifecycleTypes
    BY StatusEventType, EventTypeOfStatus DEF StatusEvent
  <2>2. /\ t \in DOMAIN tasks /\ DOMAIN tasks' = DOMAIN tasks
        /\ e.status = target /\ can_transition(tasks[t].status, target)
        /\ events' = AppendLocked(events, e)
    BY <1>2 DEF transition_task, validate_lifecycle_event, TransitionAllowed
  <2> HIDE DEF e
  <2>3. e.type \in AtomicTypes /\ e.type # "agent.assigned"
    BY <2>1 DEF AtomicTypes, LifecycleTypes
  <2> QED
    BY <1>2, <2>1, <2>2, <2>3, UpdateHistory DEF Follows
<1> QED
  BY <1>1, <1>2

\* assign_task appends an event that states the status of the row.
LEMMA AssignHistory ==
  ASSUME TypeOK, LogExplainsTasks, Histories, NEW t \in TaskId, NEW id \in EventId,
         NEW at \in Time, NEW a \in Agent, NEW s \in TaskStatus,
         assign_task(t, a, AssignEvent(id, t, a, s, at))
  PROVE  Histories'
<1> DEFINE e == AssignEvent(id, t, a, s, at)
<1>1. CASE IdUsed(events, e.id)
  BY <1>1 DEF assign_task, storeVars, Histories
<1>2. CASE ~IdUsed(events, e.id)
  <2>1. e \in Event /\ e.task = t /\ e.type = "agent.assigned"
    BY AssignEventType DEF AssignEvent
  <2>2. /\ t \in DOMAIN tasks /\ DOMAIN tasks' = DOMAIN tasks
        /\ e.status = tasks[t].status
        /\ events' = AppendLocked(events, e)
    BY <1>2 DEF assign_task
  <2> HIDE DEF e
  <2> QED
    BY <1>2, <2>1, <2>2, UpdateHistory DEF Follows, AtomicTypes
<1> QED
  BY <1>1, <1>2

\* append_event leaves every stream alone.
LEMMA AppendEventHistory ==
  ASSUME TypeOK, Histories, NEW id \in EventId,
         NEW type \in AtomicTypes \cup OtherTypes,
         NEW t \in TaskId \cup {NoTask}, NEW at \in Time,
         append_event(OtherEvent(id, type, t, at))
  PROVE  Histories'
<1> DEFINE e == OtherEvent(id, type, t, at)
<1>1. /\ e \in Event /\ e.type \notin AtomicTypes
      /\ events' = AppendLocked(events, e) /\ tasks' = tasks
  BY OtherEventType DEF append_event, OtherEvent
<1> HIDE DEF e
<1>2. events' = events \/ events' = Append(events, e)
  BY <1>1 DEF AppendLocked
<1> QED
  BY <1>1, <1>2, AppendOtherStreams, SameIsLegal DEF Histories, TypeOK

\* The reconciliation appends one task.blocked to the stream of each
\* interrupted task, and nothing to the others.
LEMMA ReconcileHistory ==
  ASSUME TypeOK, LogExplainsTasks, Histories, NEW n \in Nat,
         NEW order \in [1..n -> TaskId], NEW ids \in [1..n -> EventId],
         NEW at \in Time, reconcile_interrupted_running(order, ids, at)
  PROVE  Histories'
<1> DEFINE new == [i \in DOMAIN order |->
                     StatusEvent(ids[i], order[i], "blocked", at)]
           L == Len(events)
<1>1. /\ new \in [1..n -> Event]
      /\ \A k \in 1..n : /\ new[k].task = order[k]
                         /\ new[k].status = "blocked"
                         /\ new[k].type = "task.blocked"
                         /\ new[k].type \in AtomicTypes
  BY StatusEventType
     DEF StatusEvent, TaskStatus, AtomicTypes, LifecycleTypes, EVENT_FOR_STATUS
<1>2. /\ events' = events \o new
      /\ \A k \in 1..n : order[k] \in Interrupted
      /\ \A t \in Interrupted : \E k \in 1..n : order[k] = t
      /\ \A j, k \in 1..n : j < k => order[j] < order[k]
      /\ DOMAIN tasks' = DOMAIN tasks
      /\ \A t \in Interrupted : TransitionAllowed(tasks[t], "blocked", at)
  BY DEF reconcile_interrupted_running, InterruptedOrder, Interrupted
<1> HIDE DEF new
<1>3. /\ events \in Seq(Event) /\ DOMAIN events = 1..L /\ L \in Nat
      /\ DOMAIN events' = 1..(L + n)
      /\ \A i \in 1..L : events'[i] = events[i]
      /\ \A k \in 1..n : events'[L + k] = new[k]
      /\ \A i \in 1..(L + n) : i \in 1..L \/ \E k \in 1..n : i = L + k
  BY <1>1, <1>2, ConcatFacts DEF TypeOK
<1> HIDE DEF L
<1>4. ASSUME NEW t
      PROVE  /\ \A i \in 1..L : i \in Stream(events', t) <=> i \in Stream(events, t)
             /\ Stream(events', t) \subseteq 1..(L + n)
             /\ Stream(events, t) \subseteq 1..L
             /\ \A k \in 1..n : (L + k \in Stream(events', t)) <=> (order[k] = t)
  <2>1. ASSUME NEW k \in 1..n
        PROVE  (L + k \in Stream(events', t)) <=> (order[k] = t)
    <3>1. L + k \in DOMAIN events'
      BY <1>3
    <3>2. events'[L + k].task = order[k] /\ events'[L + k].type \in AtomicTypes
      BY <1>1, <1>3
    <3> QED
      BY <3>1, <3>2 DEF Stream
  <2>2. \A i \in 1..L : i \in Stream(events', t) <=> i \in Stream(events, t)
    BY <1>3 DEF Stream
  <2>3. Stream(events', t) \subseteq 1..(L + n) /\ Stream(events, t) \subseteq 1..L
    BY <1>3 DEF Stream
  <2> QED
    BY <2>1, <2>2, <2>3
<1>5. ASSUME NEW t \in DOMAIN tasks \ Interrupted
      PROVE  LegalStream(events', t)
  <2>1. \A k \in 1..n : L + k \notin Stream(events', t)
    BY <1>2, <1>4
  <2>2. Stream(events', t) = Stream(events, t)
    <3>1. ASSUME NEW i \in Stream(events', t) PROVE i \in Stream(events, t)
      <4>1. i \in 1..L \/ \E j \in 1..n : i = L + j
        BY <1>3, <1>4
      <4> QED
        BY <1>4, <2>1, <4>1
    <3> QED
      BY <1>4, <3>1
  <2>3. StreamSame(events, events', t)
    BY <1>3, <1>4, <2>2 DEF StreamSame
  <2> QED
    BY <2>3, SameIsLegal DEF Histories
<1>6. ASSUME NEW t \in Interrupted
      PROVE  LegalStream(events', t)
  <2>1. PICK k \in 1..n : order[k] = t
    BY <1>2
  <2>2. ASSUME NEW j \in 1..n, order[j] = t PROVE j = k
    <3>1. j < k \/ k < j \/ j = k
      OBVIOUS
    <3>2. t \in Nat
      BY <2>1, TaskIdAssumption
    <3> QED
      BY <1>2, <2>1, <2>2, <3>1, <3>2
  <2>3. ASSUME NEW i \in Stream(events', t)
        PROVE  i \in Stream(events, t) \cup {L + k}
    <3>1. i \in 1..L \/ \E j \in 1..n : i = L + j
      BY <1>3, <1>4
    <3> QED
      BY <1>4, <2>2, <3>1
  <2>4. Stream(events', t) = Stream(events, t) \cup {L + k}
    BY <1>4, <2>1, <2>3
  <2>5. StreamGrown(events, events', t, L + k)
    <3>1. \A i \in Stream(events, t) :
            i \in Nat /\ i < L + k /\ events'[i] = events[i]
      BY <1>3, <1>4
    <3> QED
      BY <1>3, <2>4, <3>1 DEF StreamGrown
  <2>6. t \in DOMAIN tasks
    BY DEF Interrupted
  <2>7. Follows(tasks[t].status, events'[L + k])
    <3>1. /\ events'[L + k].status = "blocked"
          /\ events'[L + k].type = "task.blocked"
      BY <1>1, <1>3
    <3>2. can_transition(tasks[t].status, "blocked")
      BY <1>2 DEF TransitionAllowed
    <3> QED
      BY <3>1, <3>2 DEF Follows
  <2>8. \A i \in DOMAIN events : IsLast(events, i, t) =>
          events[i].status = tasks[t].status
    BY <2>6 DEF LogExplainsTasks, RowExplained
  <2> QED
    BY <2>5, <2>6, <2>7, <2>8, GrownIsLegal DEF Histories
<1> QED
  BY <1>2, <1>5, <1>6 DEF Histories

\* Every operation keeps every stream legal.
LEMMA StepHistory ==
  TypeOK /\ LogExplainsTasks /\ Histories /\ [Next]_storeVars => Histories'
<1> SUFFICES ASSUME TypeOK, LogExplainsTasks, Histories, [Next]_storeVars
             PROVE  Histories'
  OBVIOUS
<1>1. CASE UNCHANGED <<tasks, events>>
  BY <1>1 DEF Histories
<1>2. ASSUME NEW t \in TaskId, NEW id \in EventId, NEW at \in Time,
             \/ \E created \in Time :
                  create_task(t, created, StatusEvent(id, t, "pending", at))
             \/ \E created \in Time, qid \in EventId, qat \in Time,
                   route \in Route \cup {NoRoute} :
                  create_queued_task(t, created,
                                     StatusEvent(id, t, "pending", at),
                                     StatusEvent(qid, t, "queued", qat), route)
             \/ \E target, s \in TaskStatus :
                  transition_task(t, target, StatusEvent(id, t, s, at))
             \/ cancel_task(t, StatusEvent(id, t, "cancelled", at))
             \/ \E a \in Agent, s \in TaskStatus :
                  assign_task(t, a, AssignEvent(id, t, a, s, at))
      PROVE  Histories'
  BY <1>2, CreateHistory, CreateQueuedHistory, TransitionHistory, AssignHistory
     DEF cancel_task, TaskStatus
<1>3. CASE \E id \in EventId, type \in AtomicTypes \cup OtherTypes,
              t \in TaskId \cup {NoTask}, at \in Time :
             append_event(OtherEvent(id, type, t, at))
  BY <1>3, AppendEventHistory
<1>4. CASE \E t \in TaskId, route \in Route : save_task_route(t, route)
  BY <1>1, <1>4 DEF save_task_route
<1>5. ASSUME NEW r \in RunId, NEW at \in Time,
             \/ \E t \in TaskId : create_run(r, t, at)
             \/ start_run(r, at)
             \/ \E outcome \in RunTerminal : finish_run(r, outcome, at)
      PROVE  Histories'
  BY <1>1, <1>5 DEF create_run, start_run, finish_run
<1>6. CASE \E a \in ArtifactId, t \in TaskId, r \in RunId \cup {NoRun} :
             create_artifact(a, t, r)
  BY <1>1, <1>6 DEF create_artifact
<1>7. CASE \E n \in 0..Cardinality(TaskId) :
             \E order \in [1..n -> TaskId], ids \in [1..n -> EventId],
                at \in Time : reconcile_interrupted_running(order, ids, at)
  <2>1. PICK n \in 0..Cardinality(TaskId) :
               \E order \in [1..n -> TaskId], ids \in [1..n -> EventId],
                  at \in Time : reconcile_interrupted_running(order, ids, at)
    BY <1>7
  <2>2. n \in Nat
    OBVIOUS
  <2> QED
    BY <2>1, <2>2, ReconcileHistory
<1> QED
  BY <1>1, <1>2, <1>3, <1>4, <1>5, <1>6, <1>7 DEF Next, storeVars

\* The stream of every task is a path of the life cycle that begins with
\* task.created, whatever calls are retried, refused or interleaved and
\* however many tasks a restart blocks at once.
THEOREM LogIsLegalHistoryAlways == Spec => []LogIsLegalHistory
<1>1. Init => Histories
  BY DEF Init, Histories, EmptyTable
<1>2. Histories => LogIsLegalHistory
  BY DEF Histories, LegalStream, Follows, LogIsLegalHistory
<1> QED
  BY <1>1, <1>2, StepHistory, TypeCorrect, LogExplainsTasksAlways, PTL DEF Spec
=============================================================================
