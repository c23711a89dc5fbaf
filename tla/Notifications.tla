---------------------------- MODULE Notifications ----------------------------
(***************************************************************************)
(* Task updates to Slack: StoredRouteResultNotifier                        *)
(* (application/notifications.py) over SlackTaskNotifier and               *)
(* RetryingSlackDelivery (integrations/slack.py, see Delivery).            *)
(*                                                                         *)
(* An update is sent after the transition it reports has committed, in no  *)
(* transaction with it: the caller hands over the task row it has, the     *)
(* runs are read when the update is composed, and the delivery id names    *)
(* the task and the status of that row.                                    *)
(***************************************************************************)
EXTENDS Delivery, TaskTable

CONSTANTS RouteLimit     \* limit of list_task_routes

ASSUME RouteLimitAssumption == RouteLimit \in Nat

VARIABLES routes,        \* tasks with a stored Slack route
          nt,            \* nt[x]: the notify_task call of caller x
          replay,        \* routes reconcile_pending has not visited yet
          undelivered    \* tasks in its result

notificationVars == <<routes, nt, replay, undelivered>>

_REPLAYABLE_STATUSES == {"running", "blocked", "completed", "failed", "cancelled"}

NoUpdate == [pc |-> "idle", task |-> 0, status |-> "none"]

NotificationsInit ==
    /\ NothingSent /\ up = FALSE
    /\ nt = [x \in Deliverer |-> NoUpdate]
    /\ replay = {} /\ undelivered = {}

notification_id(t, s) == <<t, s>>

\* runtime_outcome: the status of runs[-1].
LatestRun(t) ==
    LET runs == {r \in DOMAIN run : run[r].task = t} IN
    IF runs = {} THEN "none"
    ELSE run[CHOOSE r \in runs : \A s \in runs : s <= r].status

_task_update(t, s) == [status |-> s, runtime |-> LatestRun(t)]

-----------------------------------------------------------------------------
(* notify_task, in the caller x.                                           *)

\* Caller x notifies about the row of task t it holds, of status s.
_notify(x, t, s) ==
    nt' = [nt EXCEPT ![x] = [pc |-> "notify", task |-> t, status |-> s]]

\* Without a route nothing happens; otherwise the update is composed from what
\* the store says now, and delivered.
notify_task(x) ==
    /\ nt[x].pc = "notify"
    /\ LET t == nt[x].task
           s == nt[x].status
       IN  IF t \in routes
           THEN /\ deliver(x, notification_id(t, s), _task_update(t, s))
                /\ nt' = [nt EXCEPT ![x].pc = "deliver"]
           ELSE /\ nt' = [nt EXCEPT ![x].pc = "skipped"]
                /\ UNCHANGED dl
    /\ UNCHANGED <<receipt, posted, up, mishapVars>>

\* One of the reads raises.
notify_fault(x) ==
    /\ nt[x].pc = "notify"
    /\ CallFails
    /\ nt' = [nt EXCEPT ![x].pc = "raised"]
    /\ UNCHANGED <<receipt, posted, dl, up>>

NotifyStep(x) ==
    \/ notify_task(x) \/ notify_fault(x)
    \/ nt[x].pc = "deliver" /\ DeliverStep(x) /\ UNCHANGED nt

\* The call has returned or raised; _notify of the orchestrator swallows the
\* exception, reconcile_pending does not.
Raised(x)   == nt[x].pc = "raised" \/ (nt[x].pc = "deliver" /\ DlAt(x, "failed"))
Returned(x) == nt[x].pc \in {"skipped", "raised"}
               \/ (nt[x].pc = "deliver" /\ dl[x].pc \in Finished)

\* The caller goes on.
Forget(x) == nt' = [nt EXCEPT ![x] = NoUpdate] /\ dl' = [dl EXCEPT ![x] = NoCall]

-----------------------------------------------------------------------------
(* reconcile_pending, in the caller x.                                     *)

\* ORDER BY task_id LIMIT.
list_task_routes == {t \in routes : Cardinality({u \in routes : u < t}) < RouteLimit}

Visited == CHOOSE t \in replay : \A u \in replay : t <= u

\* Mutant of replay_route: only closed tasks are replayed.
replay_route_Closed(x) ==
    /\ nt[x].pc = "idle"
    /\ replay # {}
    /\ LET t == Visited
           s == status[t]
       IN  IF s \in Terminal /\ receipt[notification_id(t, s)] # "delivered"
           THEN _notify(x, t, s) /\ UNCHANGED replay
           ELSE replay' = replay \ {t} /\ UNCHANGED nt
    /\ UNCHANGED <<undelivered, deliveryVars>>

\* The next route: its update is sent unless it has a receipt already.
replay_route(x) ==
    /\ nt[x].pc = "idle"
    /\ replay # {}
    /\ LET t == Visited
           s == status[t]
       IN  IF /\ s \in _REPLAYABLE_STATUSES
              /\ receipt[notification_id(t, s)] # "delivered"
           THEN _notify(x, t, s) /\ UNCHANGED replay
           ELSE replay' = replay \ {t} /\ UNCHANGED nt
    /\ UNCHANGED <<undelivered, deliveryVars>>

\* One failed route does not keep the others from their turn.
replay_returned(x) ==
    /\ Returned(x)
    /\ replay' = replay \ {Visited}
    /\ undelivered' = IF Raised(x) THEN undelivered \cup {Visited} ELSE undelivered
    /\ Forget(x)
    /\ UNCHANGED <<receipt, posted, up, mishapVars>>

\* get_task or is_delivery_delivered raises.
replay_fault(x) ==
    /\ nt[x].pc = "idle"
    /\ replay # {}
    /\ CallFails
    /\ replay' = replay \ {Visited}
    /\ undelivered' = undelivered \cup {Visited}
    /\ UNCHANGED <<nt, receipt, posted, dl, up>>

ReplayStep(x) ==
    replay_route(x) \/ replay_returned(x) \/ replay_fault(x)
=============================================================================
