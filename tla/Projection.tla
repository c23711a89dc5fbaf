------------------------------ MODULE Projection ------------------------------
(***************************************************************************)
(* The task projector (observability/projections.py): a task's state       *)
(* rebuilt from its events alone.                                          *)
(*                                                                         *)
(* A projector is the projection it has reached, the events it has seen    *)
(* and whether it raised ProjectionError.  Events are the records of       *)
(* TaskStore; project and team are those of the task and are left out.     *)
(***************************************************************************)
EXTENDS TaskLifecycle, Sequences

NoProjection == [task |-> -1, status |-> "none", agents |-> {}, created |-> NoTime,
                 updated |-> NoTime, last |-> "none", count |-> 0]

NewProjector == [projection |-> NoProjection, seen |-> {}, error |-> FALSE]

\* The status an event states, if its type and payload agree ("none" for an
\* event that is not about the status).
FIXED_STATUS(type) ==
    CASE type = "task.created"   -> "pending"
      [] type = "task.queued"    -> "queued"
      [] type = "task.blocked"   -> "blocked"
      [] type = "task.completed" -> "completed"
      [] type = "task.failed"    -> "failed"
      [] type = "task.cancelled" -> "cancelled"
      [] type = "review.started" -> "review"
      [] type = "qa.started"     -> "qa"
      [] OTHER                   -> "none"

PayloadAgrees(e) ==
    IF e.type = "task.started" THEN e.status \in {"planning", "running"}
    ELSE FIXED_STATUS(e.type) \in {"none", e.status}

status_for(e) ==
    IF e.type = "task.started" THEN e.status ELSE FIXED_STATUS(e.type)

CanCreate(e) == e.type = "task.created" /\ e.status = "pending"

Created(e) ==
    [task |-> e.task, status |-> "pending", agents |-> {}, created |-> e.at,
     updated |-> e.at, last |-> e.id, count |-> 1]

CanApply(p, e) ==
    /\ e.task = p.task
    /\ e.at >= p.updated
    /\ e.type # "task.created"
    /\ PayloadAgrees(e)
    /\ status_for(e) # "none" => can_transition(p.status, status_for(e))

\* Mutant of Applied: assignments are not projected.
Applied_NoAgents(p, e) ==
    [p EXCEPT !.status = IF status_for(e) = "none" THEN p.status ELSE status_for(e),
              !.updated = e.at, !.last = e.id, !.count = p.count + 1]

Applied(p, e) ==
    [p EXCEPT
        !.status  = IF status_for(e) = "none" THEN p.status ELSE status_for(e),
        !.agents  = IF e.type = "agent.assigned" THEN p.agents \cup {e.agent}
                    ELSE p.agents,
        !.updated = e.at,
        !.last    = e.id,
        !.count   = p.count + 1]

Failed(projector) == [projector EXCEPT !.error = TRUE]

Reached(projector, p, e) ==
    [projector EXCEPT !.projection = p, !.seen = projector.seen \cup {e}]

\* Mutant of consume: every event is applied, seen before or not.
consume_Always(projector, e) ==
    LET p == projector.projection IN
    IF projector.error THEN projector
    ELSE IF p = NoProjection
         THEN IF CanCreate(e) THEN Reached(projector, Created(e), e)
              ELSE Failed(projector)
         ELSE IF CanApply(p, e) THEN Reached(projector, Applied(p, e), e)
              ELSE Failed(projector)

\* consume: an event seen before is skipped, an id seen with other content
\* raises, the first event creates and every other one is applied.
consume(projector, e) ==
    LET p == projector.projection IN
    CASE projector.error -> projector
      [] ~projector.error /\ (\E s \in projector.seen : s.id = e.id) ->
           IF e \in projector.seen THEN projector ELSE Failed(projector)
      [] OTHER ->
           IF p = NoProjection
           THEN IF CanCreate(e) THEN Reached(projector, Created(e), e)
                ELSE Failed(projector)
           ELSE IF CanApply(p, e) THEN Reached(projector, Applied(p, e), e)
                ELSE Failed(projector)

\* The projector after each event of a stream, by the number of events consumed.
Consumed(stream) ==
    LET after[n \in 0..Len(stream)] ==
          IF n = 0 THEN NewProjector ELSE consume(after[n - 1], stream[n])
    IN  after

\* The projector after a whole stream; replay_task returns its projection and
\* raises if it failed or is still empty.
replay_task(stream) == Consumed(stream)[Len(stream)]

Replayed(projector) == ~projector.error /\ projector.projection # NoProjection
=============================================================================
