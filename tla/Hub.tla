--------------------------------- MODULE Hub ---------------------------------
(***************************************************************************)
(* The hub over its whole life: build_application, initialize and serve    *)
(* (application/composition.py), the operator's commands (cli.py) and the  *)
(* supervisor that starts it again (launchd), composed of the opening of   *)
(* the database (Migrations), the task updates (Notifications) and the     *)
(* steps of process_task and cancel_task (orchestrator/service.py) that    *)
(* decide what is reported, and when.                                      *)
(*                                                                         *)
(* The claim of a task and its project lock are the business of            *)
(* Orchestrator; here each task has one worker and at most one cancel      *)
(* request, and what fails is a call of the worker, a notification or a    *)
(* start.  Run r is the run of task r.  A timed-out run counts as failed.  *)
(***************************************************************************)
EXTENDS Notifications, Migrations

CONSTANTS Hub,       \* the opener that is the hub
          Operator,  \* the opener that is the operator's command
          Earlier    \* tasks completed by an earlier hub, update not delivered;
                     \* the others are created, and perhaps cancelled

ASSUME OpenerAssumption == Opener = {Hub, Operator} /\ Hub # Operator
ASSUME EarlierAssumption == Earlier \subseteq TaskId /\ RunId = TaskId

VARIABLES hub,       \* down, stopped, opening, receipts, replay or serving
          wk,        \* wk[t]: process_task of t: where it is, and its result
          cn,        \* cn[t]: where the cancel request for t is
          killed,    \* tasks in the runtime's _cancelled
          ahead      \* are stored timestamps ahead of the wall clock?

taskVars == <<wk, cn, killed>>
vars == <<deliveryVars, tableVars, notificationVars, migrationVars,
          hub, taskVars, ahead>>

\* The callers of notify_task.
Worker(t)    == <<"worker", t>>
Canceller(t) == <<"cancel", t>>
Startup      == <<"start", 0>>

ASSUME DelivererAssumption ==
    Deliverer = {Startup} \cup {Worker(t) : t \in TaskId} \cup {Canceller(t) : t \in TaskId}

\* An update is delivered under task and status and states status and run.
ASSUME UpdateAssumption ==
    /\ TaskId \subseteq Nat
    /\ TaskId \X _REPLAYABLE_STATUSES \subseteq DeliveryId
    /\ [status : _REPLAYABLE_STATUSES, runtime : RunStatus \cup {"none"}] \subseteq Text

NoWorker == [pc |-> "none", result |-> "none"]

Init ==
    /\ NotificationsInit
    /\ MigrationsInit
    /\ LET old == IF applied = <<>> THEN {} ELSE Earlier IN
         /\ status = [t \in old |-> "completed"]
         /\ assigned = [t \in old |-> {}]
         /\ run = [t \in old |-> [task |-> t, status |-> "succeeded"]]
         /\ routes = old
    /\ hub = "down"
    /\ wk = [t \in TaskId |-> NoWorker]
    /\ cn = [t \in TaskId |-> "idle"]
    /\ killed = {}
    /\ ahead = FALSE

-----------------------------------------------------------------------------
(* Start.  `up` becomes true when the receipts are reconciled: from then   *)
(* on messages are delivered.                                              *)

StartFrame == UNCHANGED <<tableVars, routes, taskVars, ahead>>

\* launchd starts the hub when it is down, the operator when it was stopped.
start ==
    /\ hub \in {"down", "stopped"}
    /\ hub' = "opening"
    /\ connect(Hub)
    /\ UNCHANGED <<deliveryVars, nt, replay, undelivered, schemaVars, writer>>
    /\ StartFrame

\* serve ends with an error, so the exit code is 1.
Exit == hub' = "down" /\ process_gone(Hub)

\* Tasks that were worked on, and tasks with an open run.
Interrupted ==
    {t \in DOMAIN status : status[t] \in {"planning", "running"}}
      \cup {run[r].task : r \in {q \in DOMAIN run : run[q].status \in RunActive}}

\* Mutant of Refused: the comparison of the timestamps is the wrong way round.
Refused_Inverted == ~ahead /\ Interrupted # {}

\* reconcile_interrupted_running refuses rows that began in the future.
Refused == ahead /\ Interrupted # {}

\* build_application or initialize raises.
start_failed ==
    /\ hub = "opening"
    /\ OpAt(Hub, "error") \/ (OpAt(Hub, "open") /\ Refused)
    /\ Exit
    /\ UNCHANGED <<deliveryVars, nt, replay, undelivered>>
    /\ StartFrame

\* initialize: interrupted tasks and runs first.
reconcile_interrupted ==
    /\ hub = "opening" /\ OpAt(Hub, "open") /\ ~Refused
    /\ TableReconcile
    /\ hub' = "receipts"
    /\ UNCHANGED <<deliveryVars, notificationVars, migrationVars, taskVars, ahead>>

\* Then the receipts; reconcile_pending begins with list_task_routes.
reconcile_receipts ==
    /\ hub = "receipts"
    /\ ReceiptsReconciled
    /\ replay' = list_task_routes
    /\ undelivered' = {}
    /\ hub' = "replay"
    /\ UNCHANGED <<nt, migrationVars>>
    /\ StartFrame

reconcile_pending ==
    /\ hub = "replay"
    /\ \/ ReplayStep(Startup) \/ (NotifyStep(Startup) /\ UNCHANGED <<replay, undelivered>>)
    /\ UNCHANGED <<hub, migrationVars>>
    /\ StartFrame

\* A statement of the migrations, or a store call of initialize outside of the
\* loop over the routes, raises.
start_fault ==
    /\ CallFails
    /\ \/ hub = "opening" /\ migration_fault(Hub) /\ UNCHANGED hub
       \/ (hub = "receipts" \/ (hub = "opening" /\ OpAt(Hub, "open"))) /\ Exit
    /\ UNCHANGED <<receipt, posted, dl, up, nt, replay, undelivered>>
    /\ StartFrame

\* The interfaces go up.
serve ==
    /\ hub = "replay" /\ replay = {}
    /\ hub' = "serving"
    /\ UNCHANGED <<deliveryVars, nt, replay, undelivered, migrationVars>>
    /\ StartFrame

opening ==
    /\ hub = "opening"
    /\ apply_migrations(Hub)
    /\ UNCHANGED <<deliveryVars, nt, replay, undelivered, hub>>
    /\ StartFrame

-----------------------------------------------------------------------------
(* process_task.                                                           *)

WorkFrame ==
    UNCHANGED <<routes, replay, undelivered, migrationVars, hub, cn, ahead>>

At(t, pc) == wk[t].pc = pc

Goto(t, pc) == wk' = [wk EXCEPT ![t].pc = pc]

\* Transition of t, and then, with the row it returned, the notification.
Report(t, s, pc) ==
    /\ TableTransition(t, s)
    /\ _notify(Worker(t), t, s)
    /\ Goto(t, pc)
    /\ UNCHANGED <<deliveryVars, killed>>

\* The coroutine is over.
Ends(t) ==
    /\ wk' = [wk EXCEPT ![t] = NoWorker]
    /\ UNCHANGED <<tableVars, receipt, posted, dl, up, nt, killed>>

\* A call of the try block raises: what follows is the `except Exception` clause.
Raises(t) ==
    /\ Goto(t, "except")
    /\ UNCHANGED <<receipt, posted, up>>

\* A transition is refused: somebody else closed the task.
WorkerRefused(t, s) ==
    /\ ~can_transition(status[t], s)
    /\ Raises(t)
    /\ UNCHANGED <<tableVars, mishapVars, dl, nt, killed>>

\* The transition to planning; it is not reported.  With the clock behind, it is
\* refused and tried again by a later poll.
claim(t) ==
    /\ hub = "serving" /\ ~ahead
    /\ At(t, "none")
    /\ t \in DOMAIN status /\ status[t] = "queued"
    /\ TableTransition(t, "planning")
    /\ Goto(t, "prepare")
    /\ UNCHANGED <<deliveryVars, nt, killed>>

\* Mutant of prepared: the running update is left to a coroutine of its own.
prepared_Background(t) ==
    /\ At(t, "prepare")
    /\ can_transition(status[t], "running")
    /\ status' = [status EXCEPT ![t] = "running"]
    /\ run' = Put(run, t, [task |-> t, status |-> "running"])
    /\ _notify(Canceller(t), t, "running")
    /\ Goto(t, "exec")
    /\ UNCHANGED <<assigned, deliveryVars, killed>>

\* The workspace is prepared, needs a review, or cannot be prepared.
prepared(t) ==
    /\ At(t, "prepare")
    /\ \/ Report(t, "running", "told")
       \/ \E s \in {"blocked", "failed"} : Report(t, s, "last")
       \/ WorkerRefused(t, "running")

\* The running update is awaited, then create_run and start_run.
create_run(t) ==
    /\ At(t, "told") /\ Returned(Worker(t))
    /\ Forget(Worker(t))
    /\ run' = Put(run, t, [task |-> t, status |-> "running"])
    /\ Goto(t, "exec")
    /\ UNCHANGED <<status, assigned, receipt, posted, up, mishapVars, killed>>

\* One of the two raises.
create_run_fault(t) ==
    /\ At(t, "told") /\ Returned(Worker(t))
    /\ CallFails
    /\ Forget(Worker(t))
    /\ run' \in {run, Put(run, t, [task |-> t, status |-> "queued"])}
    /\ Raises(t)
    /\ UNCHANGED <<status, assigned, killed>>

\* execute, and _finish_run with its result.
finish_run(t) ==
    /\ At(t, "exec")
    /\ \E result \in {"succeeded", "failed"}
                     \cup (IF t \in killed THEN {"cancelled"} ELSE {}) :
         /\ TableFinishRun(t, result)
         /\ wk' = [wk EXCEPT ![t] = [pc |-> "check", result |-> result]]
    /\ killed' = killed \ {t}
    /\ UNCHANGED <<deliveryVars, nt>>

\* execute raises (RuntimeLaunchError), or the store call after it does.
finish_run_fault(t) ==
    /\ At(t, "exec")
    /\ UNCHANGED mishapVars \/ CallFails
    /\ killed' = killed \ {t}
    /\ Raises(t)
    /\ UNCHANGED <<tableVars, dl, nt>>

\* get_task: a task that was cancelled meanwhile is reported once more.
check_cancelled(t) ==
    /\ At(t, "check")
    /\ IF status[t] = "cancelled"
       THEN _notify(Worker(t), t, "cancelled") /\ Goto(t, "last")
       ELSE Goto(t, "finish") /\ UNCHANGED nt
    /\ UNCHANGED <<tableVars, deliveryVars, killed>>

Outcome(result) == CASE result = "succeeded" -> "completed"
                     [] result = "cancelled" -> "cancelled"
                     [] OTHER                -> "failed"

\* Mutant of finish_task: the update does not wait for the transition.
finish_task_Unchecked(t) ==
    LET s == Outcome(wk[t].result) IN
    /\ At(t, "finish")
    /\ IF can_transition(status[t], s) THEN TableTransition(t, s) ELSE UNCHANGED tableVars
    /\ _notify(Worker(t), t, s)
    /\ Goto(t, "last")
    /\ UNCHANGED <<deliveryVars, killed>>

finish_task(t) ==
    /\ At(t, "finish")
    /\ \/ Report(t, Outcome(wk[t].result), "last")
       \/ WorkerRefused(t, Outcome(wk[t].result))

\* get_task or the transition raises; or the transition commits and the release of
\* the project's lock raises, so that the outcome is not reported.
finish_task_fault(t) ==
    /\ wk[t].pc \in {"check", "finish"}
    /\ CallFails
    /\ \/ UNCHANGED tableVars
       \/ At(t, "finish") /\ TableTransition(t, Outcome(wk[t].result))
    /\ Raises(t)
    /\ UNCHANGED <<dl, nt, killed>>

\* A run that is not finished is closed as failed; when that fails too, it stays
\* open.
close_run(t) ==
    /\ At(t, "except")
    /\ \/ /\ UNCHANGED mishapVars
          /\ IF t \in DOMAIN run /\ run[t].status \in RunActive
             THEN TableFinishRun(t, "failed") ELSE UNCHANGED tableVars
       \/ /\ t \in DOMAIN run /\ run[t].status \in RunActive
          /\ CallFails
          /\ UNCHANGED tableVars
    /\ Goto(t, "fail")
    /\ UNCHANGED <<receipt, posted, dl, up, nt, killed>>

\* A closed task is left alone, any other one is reported as failed.
_fail(t) ==
    /\ At(t, "fail")
    /\ \/ Report(t, "failed", "last")
       \/ ~can_transition(status[t], "failed") /\ UNCHANGED mishapVars /\ Ends(t)
       \/ CallFails /\ Ends(t)

\* Before the workspace is there: assign_task raises, or a call of _block or _fail,
\* and with it process_task; or open_task_workspace does.
prepare_fault(t) ==
    /\ At(t, "prepare")
    /\ CallFails
    /\ \/ Ends(t)
       \/ Raises(t) /\ UNCHANGED <<tableVars, dl, nt, killed>>

worker_returned(t) ==
    /\ At(t, "last") /\ Returned(Worker(t))
    /\ Forget(Worker(t))
    /\ wk' = [wk EXCEPT ![t] = NoWorker]
    /\ UNCHANGED <<tableVars, receipt, posted, up, mishapVars, killed>>

process_task(t) ==
    /\ \/ claim(t) \/ prepared(t) \/ create_run(t) \/ finish_run(t)
       \/ check_cancelled(t) \/ finish_task(t) \/ worker_returned(t)
       \/ close_run(t) \/ _fail(t) \/ prepare_fault(t) \/ create_run_fault(t)
       \/ finish_run_fault(t) \/ finish_task_fault(t)
       \/ NotifyStep(Worker(t)) /\ UNCHANGED <<tableVars, taskVars>>
    /\ WorkFrame

-----------------------------------------------------------------------------
(* cancel_task, and new tasks.                                             *)

CancelFrame ==
    UNCHANGED <<routes, replay, undelivered, migrationVars, hub, wk, ahead>>

CancelGoto(t, pc) == cn' = [cn EXCEPT ![t] = pc]

cancel_read(t) ==
    /\ hub = "serving" /\ t \notin Earlier
    /\ cn[t] = "idle" /\ t \in DOMAIN status
    /\ CancelGoto(t, CASE status[t] \in Terminal -> "over"
                       [] status[t] = "running" -> "runtime"
                       [] OTHER                 -> "commit")
    /\ UNCHANGED <<tableVars, deliveryVars, nt, killed>>

\* runtime.cancel marks a registered process.
cancel_runtime(t) ==
    /\ cn[t] = "runtime"
    /\ killed' = IF At(t, "exec") THEN killed \cup {t} ELSE killed
    /\ CancelGoto(t, "commit")
    /\ UNCHANGED <<tableVars, deliveryVars, nt>>

cancel_commit(t) ==
    /\ cn[t] = "commit"
    /\ \/ /\ ~ahead
          /\ TableTransition(t, "cancelled")
          /\ _notify(Canceller(t), t, "cancelled")
          /\ CancelGoto(t, "notify")
       \/ /\ ahead \/ ~can_transition(status[t], "cancelled")
          /\ CancelGoto(t, "over")
          /\ UNCHANGED <<tableVars, nt>>
    /\ UNCHANGED <<deliveryVars, killed>>

cancel_returned(t) ==
    /\ cn[t] = "notify" /\ Returned(Canceller(t))
    /\ Forget(Canceller(t))
    /\ CancelGoto(t, "over")
    /\ UNCHANGED <<tableVars, receipt, posted, up, mishapVars, killed>>

cancel_task(t) ==
    /\ \/ cancel_runtime(t) \/ cancel_commit(t) \/ cancel_returned(t)
       \/ NotifyStep(Canceller(t)) /\ UNCHANGED <<tableVars, cn, killed>>
    /\ CancelFrame

\* create_queued_task stores the task with its route, if the request has one.
create_task(t) ==
    /\ hub = "serving" /\ t \notin Earlier
    /\ OpAt(Operator, "closed")    \* see BeforeTasks
    /\ TableCreate(t, "queued")
    /\ routes' \in {routes, routes \cup {t}}
    /\ UNCHANGED <<deliveryVars, nt, replay, undelivered, migrationVars, hub,
                   taskVars, ahead>>

-----------------------------------------------------------------------------
(* The end of the process, the clock and the operator's command.           *)

\* All coroutines are gone; the clock may be set back before the next start.
ProcessLost ==
    /\ hub \notin {"down", "stopped"}
    /\ HubDies
    /\ up' = FALSE
    /\ dl' = [x \in Deliverer |-> NoCall]
    /\ nt' = [x \in Deliverer |-> NoUpdate]
    /\ replay' = {} /\ undelivered' = {}
    /\ wk' = [t \in TaskId |-> NoWorker]
    /\ cn' = [t \in TaskId |-> IF cn[t] = "idle" THEN "idle" ELSE "over"]
    /\ killed' = {}
    /\ process_gone(Hub)
    /\ UNCHANGED <<tableVars, posted, routes>>

crash ==
    /\ ProcessLost
    /\ hub' = "down"
    /\ ahead' \in {ahead, status # EmptyTable}
    /\ UNCHANGED receipt

\* serve returns: pending calls of deliver are cancelled and release their
\* reservations.  Exit code 0, so launchd leaves the hub alone.
stop ==
    /\ hub = "serving"
    /\ ProcessLost
    /\ hub' = "stopped"
    /\ reconcile_reserved_deliveries
    /\ UNCHANGED ahead

clock_catches_up ==
    /\ ahead /\ ahead' = FALSE
    /\ UNCHANGED <<deliveryVars, tableVars, notificationVars, migrationVars, hub,
                   taskVars>>

CommandFrame ==
    UNCHANGED <<deliveryVars, tableVars, notificationVars, hub, taskVars, ahead>>

\* A bound on the interleavings of two parts that do not look at each other's
\* state: the operator's commands come before the first new task.
BeforeTasks == DOMAIN status \subseteq Earlier

\* ai-hub migrate, or ai-hub status: opens the store and closes it again.
operator_begins ==
    /\ BeforeTasks
    /\ OpAt(Operator, "closed")
    /\ connect(Operator)
    /\ UNCHANGED <<schemaVars, writer>>
    /\ CommandFrame

operator_command ==
    /\ \/ apply_migrations(Operator)
       \/ op[Operator].pc \in {"open", "error"} /\ process_gone(Operator)
    /\ CommandFrame

\* Interrupted at the keyboard.
operator_killed ==
    /\ ~OpAt(Operator, "closed")
    /\ HubDies
    /\ process_gone(Operator)
    /\ UNCHANGED <<receipt, posted, dl, up, tableVars, notificationVars, hub,
                   taskVars, ahead>>

-----------------------------------------------------------------------------
Starting ==
    \/ hub = "down" /\ start
    \/ opening \/ start_failed \/ reconcile_interrupted \/ reconcile_receipts
    \/ reconcile_pending \/ serve

Next ==
    \/ Starting \/ start_fault
    \/ hub = "stopped" /\ start
    \/ \E t \in TaskId : process_task(t) \/ cancel_task(t)
                         \/ (cancel_read(t) /\ CancelFrame) \/ create_task(t)
    \/ crash \/ stop \/ clock_catches_up \/ operator_begins \/ operator_command
    \/ operator_killed

Spec == Init /\ [][Next]_vars

\* launchd starts the hub after a failure, the event loop runs what can run, time
\* passes, and a command of the operator ends.  A runtime may never return.
Fairness ==
    /\ WF_vars(Starting)
    /\ \A t \in TaskId : WF_vars(~At(t, "exec") /\ process_task(t)) /\ WF_vars(cancel_task(t))
    /\ WF_vars(clock_catches_up)
    /\ WF_vars(operator_command)

FairSpec == Spec /\ Fairness

-----------------------------------------------------------------------------
(* Properties.                                                             *)

Posted(t, s) == posted[notification_id(t, s)] # <<>>

\* What Slack shows is true: the update of a closed task states the status the
\* task has, so no task is reported with two outcomes, and the runtime line that
\* was read separately does not contradict it.  A cancel request, or a crash
\* between the end of the run and that of the task, must not change that
\* (notify_task, _task_update, _finish_task, cancel_task).  Only a failed task may
\* be shown beside a run that succeeded or is open, and only once a call has
\* failed: of the store after the run, or of finish_run in the except clause.
UpdateIsTrue ==
    \A t \in TaskId, s \in _REPLAYABLE_STATUSES :
      \A i \in DOMAIN posted[notification_id(t, s)] :
        LET text == posted[notification_id(t, s)][i] IN
        /\ s \in Terminal => status[t] = s
        /\ text.runtime \in CASE s = "running"   -> {"none"}
                              [] s = "blocked"   -> RunTerminal \cup {"none"}
                              [] s = "completed" -> {"succeeded"}
                              [] s = "failed" /\ failed = 0 -> {"none", "failed"}
                              [] OTHER           -> RunStatus \cup {"none"}

\* A running update is never posted after one that reports how the work ended:
\* the worker awaits it before it goes on.  Only the update of a cancel request,
\* which another coroutine sends, can overtake it (process_task, cancel_task).
RunningNotAfterOutcome ==
    [][\A t \in TaskId :
         posted'[notification_id(t, "running")] # posted[notification_id(t, "running")]
           => \A s \in {"blocked", "completed", "failed"} : ~Posted(t, s)]_vars

\* When the interfaces go up, every task among the first RouteLimit routes has
\* its present status delivered, or is one whose replay failed: neither a crash
\* between transition and update nor a failing route before it makes
\* reconcile_pending lose an update.
StartReportsAll ==
    [][hub = "replay" /\ hub' = "serving" =>
         \A t \in list_task_routes :
           status[t] \in _REPLAYABLE_STATUSES =>
             receipt[notification_id(t, status[t])] = "delivered" \/ t \in undelivered]_vars

Unreported(t) ==
    /\ t \in routes
    /\ status[t] \in Terminal \cup {"blocked"}
    /\ ~Posted(t, status[t])

Excused == failed > 0 \/ hub = "stopped" \/ Incompatible(Hub, applied)

\* The end of a routed task is reported in Slack, over crashes at any point
\* between the transition and the receipt, unless a call failed, the hub is
\* stopped, or its route is not among the RouteLimit ones that a start looks at
\* (notify_task, reconcile_pending, list_task_routes).
OutcomeReported ==
    \A t \in TaskId :
      Unreported(t) ~> (~Unreported(t) \/ Excused \/ t \notin list_task_routes)

\* Once started, the hub serves again after a crash, a failed start, a lost race
\* for the migrations or a clock that was set back, as long as its code knows
\* the schema and until the operator stops it (serve, apply_migrations,
\* reconcile_interrupted_running).
ServesAgain ==
    (hub = "down") ~> (hub \in {"serving", "stopped"} \/ Incompatible(Hub, applied))
=============================================================================
