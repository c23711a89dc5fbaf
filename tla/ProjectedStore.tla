---------------------------- MODULE ProjectedStore ----------------------------
(***************************************************************************)
(* The store together with the projector: whatever the operations of       *)
(* TaskStore did, what does a replay of the events table give?             *)
(***************************************************************************)
EXTENDS TaskStore, Projection, TLC

CONSTANT EventLimit    \* limit of list_events

ASSUME EventLimitAssumption == EventLimit \in Nat \ {0}

EventSymmetry == Permutations(EventId)

\* The events of task t among the first n of a log, for each n.
EventsOf(log, t) ==
    LET of[n \in 0..Len(log)] ==
          IF n = 0 THEN <<>>
          ELSE IF log[n].task = t THEN Append(of[n - 1], log[n])
          ELSE of[n - 1]
    IN  of

AllEvents(t) == EventsOf(events, t)[Len(events)]

\* list_events(task_id): the first EventLimit events of the task in the order of
\* their sequence.
list_events(t) == IF Len(AllEvents(t)) <= EventLimit THEN AllEvents(t)
                  ELSE SubSeq(AllEvents(t), 1, EventLimit)

InOrder(stream) ==
    \A i, j \in DOMAIN stream : i < j => stream[i].at <= stream[j].at

Reproduces(t, projector) ==
    /\ Replayed(projector)
    /\ projector.projection.count = Len(list_events(t))
    /\ Len(AllEvents(t)) <= EventLimit =>
         /\ projector.projection.status = tasks[t].status
         /\ projector.projection.agents = tasks[t].agents

\* Replay reconstructs the stored task from its events alone, provided that
\* their timestamps do not decrease in the order of their commits and that they
\* were all listed: a listing cut at the limit is replayed into a past state.
\* The events of a task whose clock stepped back are stored, and their replay
\* raises (replay_task against transition_task, assign_task, append_event).
ReplayReproduces ==
    \A t \in DOMAIN tasks :
      LET s == list_events(t) IN
      IF InOrder(s) THEN Reproduces(t, replay_task(s)) ELSE replay_task(s).error

\* Delivering an event of the stream a second time, at any later point, changes
\* nothing in the outcome of the replay (TaskProjector.consume).
DuplicatesIgnored ==
    \A t \in DOMAIN tasks :
      LET s == list_events(t) IN
      \A i, j \in DOMAIN s : i <= j =>
        replay_task(SubSeq(s, 1, j) \o <<s[i]>> \o SubSeq(s, j + 1, Len(s)))
          = replay_task(s)
=============================================================================
