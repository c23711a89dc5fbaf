----------------------------- MODULE Orchestrator -----------------------------
(***************************************************************************)
(* The single-developer orchestrator (orchestrator/service.py) with what   *)
(* it drives: the store (TaskTable), the project workspace adapter and its *)
(* file lock (application/adapters.py), the Codex runtime's process        *)
(* registry (runtime/codex.py) and the start and stop of the hub           *)
(* (application/composition.py).                                           *)
(*                                                                         *)
(* A worker is one process_task coroutine.  Its steps are separated by the *)
(* awaits of the code: between any two of them other workers, cancel       *)
(* requests, new tasks, a crash or a shutdown may act.  A store call that  *)
(* is refused, or that fails, raises in the worker that made it.           *)
(*                                                                         *)
(* Abstracted: prompts, branches, payloads and notifications (_notify      *)
(* never changes the outcome of a task); the project lock is the atomic    *)
(* object that ProjectFileLock is meant to be (see FileLock).              *)
(***************************************************************************)
EXTENDS TaskTable, FiniteSets

CONSTANTS Project,        \* project ids
          ProjectOf,      \* ProjectOf[t]: the project of a task
          Developer,      \* the agent select_developer resolves to
          Worker,         \* identities for live process_task coroutines
          Canceller,      \* cancel requests, each made at most once
          MaxConcurrent,  \* max_concurrent_tasks
          MaxFaults,      \* bound: failing store, lock or file system calls
          MaxDowns        \* bound: crashes and shutdowns

ASSUME TaskIdAssumption == TaskId \subseteq Nat \ {0}
ASSUME ProjectOfAssumption == ProjectOf \in [TaskId -> Project]
ASSUME RunIdAssumption == RunId \subseteq Nat \ {0}
ASSUME DeveloperAssumption == Developer \in Agent
ASSUME WorkerAssumption == Worker \subseteq Nat \ {0} /\ IsFiniteSet(Worker)
ASSUME BoundAssumption == MaxFaults \in Nat /\ MaxDowns \in Nat

VARIABLES loop,      \* where run_forever is: starting, poll, gather, wait; or the
                     \* hub is down, or stopped with exit code 0
          wake,      \* the asyncio.Event _wake
          batch,     \* workers the pending gather waits for
          wk,        \* wk[w]: the state of each process_task coroutine
          lock,      \* lock[p]: holder of the project's lock file
          proc,      \* tasks in the runtime's _processes
          killed,    \* tasks in the runtime's _cancelled
          announce,  \* created tasks whose enqueue_task is still to come
          cn,        \* cn[c]: progress of each cancel request
          faults, downs

loopVars    == <<loop, wake, batch>>
runtimeVars == <<proc, killed>>
boundVars   == <<faults, downs>>
vars == <<tableVars, loopVars, wk, lock, runtimeVars, announce, cn, boundVars>>

NoneId == 0

\* Holders of a lock file other than a worker.
Free   == 0
Stale  == -1     \* left behind by a process that no longer exists
Leaked == -2     \* left behind by a failed release of this process

Idle == [pc |-> "idle", task |-> NoneId, run |-> NoneId,
         result |-> "none", next |-> "none"]

\* Where a worker runs inside `async with open_task_workspace`, lock held.
Holding == {"branch", "run", "mkrun", "strun", "exec", "register", "await",
            "dereg", "finrun", "check", "finish", "release"}

\* Where an exception leaves process_task, and where its try block catches it.
Unprotected == {"get", "plan", "assign", "excget", "fail", "block"}
Protected   == Holding \ {"exec", "register", "await", "dereg", "release"}

WorkerPc == {"idle", "sem", "lock", "closerun"} \cup Unprotected \cup Holding

Init ==
    /\ TableInit
    /\ loop = "down" /\ wake = FALSE /\ batch = {}
    /\ wk = [w \in Worker |-> Idle]
    /\ lock = [p \in Project |-> Free]
    /\ proc = {} /\ killed = {}
    /\ announce = {}
    /\ cn = [c \in Canceller |-> [pc |-> "idle", task |-> NoneId]]
    /\ faults = 0 /\ downs = 0

Up == loop \notin {"down", "stopped"}

-----------------------------------------------------------------------------
(* New tasks.  Ids are given out in the order of created_at.               *)

\* GatewayTaskAdapter.create_task: the task is durable and queued.
create_task(t) ==
    /\ Up
    /\ \A u \in TaskId : u < t => u \in DOMAIN status
    /\ TableCreate(t, "queued")
    /\ announce' = announce \cup {t}
    /\ UNCHANGED <<loopVars, wk, lock, runtimeVars, cn, boundVars>>

\* DurableTaskEnqueuer.enqueue_task: a task that is still queued sets _wake.
enqueue_task(t) ==
    /\ t \in announce
    /\ announce' = announce \ {t}
    /\ wake' = (wake \/ status[t] = "queued")
    /\ UNCHANGED <<tableVars, loop, batch, wk, lock, runtimeVars, cn, boundVars>>

-----------------------------------------------------------------------------
(* run_forever and run_once.                                               *)

Queued == {t \in DOMAIN status : status[t] = "queued"}

\* list_queued_tasks(limit=max_concurrent_tasks), oldest first.
list_queued_tasks ==
    {t \in Queued : Cardinality({u \in Queued : u < t}) < MaxConcurrent}

IdleWorkers == {w \in Worker : wk[w].pc = "idle"}

\* Which coroutine object serves which task does not matter, only that no two
\* tasks share one.
Serving ==
    CHOOSE f \in [list_queued_tasks -> IdleWorkers] :
      \A t, u \in list_queued_tasks : f[t] = f[u] => t = u

\* run_once: one process_task coroutine per listed task, all gathered.  Worker
\* is a bound: with too few idle identities the poll waits for one.
run_once ==
    /\ loop = "poll"
    /\ Cardinality(list_queued_tasks) <= Cardinality(IdleWorkers)
    /\ batch' = {Serving[t] : t \in list_queued_tasks}
    /\ wk' = [w \in Worker |->
                IF \E t \in list_queued_tasks : Serving[t] = w
                THEN [Idle EXCEPT !.pc = "sem",
                        !.task = CHOOSE t \in list_queued_tasks : Serving[t] = w]
                ELSE wk[w]]
    /\ loop' = "gather"
    /\ UNCHANGED <<tableVars, wake, lock, runtimeVars, announce, cn, boundVars>>

\* list_queued_tasks raised: run_forever logs it and goes on.
poll_failed ==
    /\ loop = "poll"
    /\ faults < MaxFaults /\ faults' = faults + 1
    /\ loop' = "gather" /\ batch' = {}
    /\ UNCHANGED <<tableVars, wake, wk, lock, runtimeVars, announce, cn, downs>>

\* run_once returned or raised: _wake is cleared, whoever set it meanwhile.
gathered ==
    /\ loop = "gather" /\ batch = {}
    /\ wake' = FALSE
    /\ loop' = "wait"
    /\ UNCHANGED <<tableVars, batch, wk, lock, runtimeVars, announce, cn, boundVars>>

woken ==
    /\ loop = "wait" /\ wake
    /\ loop' = "poll"
    /\ UNCHANGED <<tableVars, wake, batch, wk, lock, runtimeVars, announce, cn, boundVars>>

\* asyncio.wait gives up after poll_interval_seconds.
poll_timeout ==
    /\ loop = "wait" /\ ~wake
    /\ loop' = "poll"
    /\ UNCHANGED <<tableVars, wake, batch, wk, lock, runtimeVars, announce, cn, boundVars>>

-----------------------------------------------------------------------------
(* process_task.                                                           *)

At(w, pc) == wk[w].pc = pc

\* The coroutine returns; the gather waits for the others.
Return(w) ==
    /\ wk' = [wk EXCEPT ![w] = Idle]
    /\ batch' = batch \ {w}

\* The coroutine raises: gather raises at once and abandons the others, which
\* go on running.
Escape(w) ==
    /\ wk' = [wk EXCEPT ![w] = Idle]
    /\ batch' = IF w \in batch THEN {} ELSE batch

Goto(w, pc) == wk' = [wk EXCEPT ![w].pc = pc] /\ UNCHANGED batch

\* Leave the workspace: release the lock and go to `pc`.
Leave(w, pc) ==
    wk' = [wk EXCEPT ![w].pc = "release", ![w].next = pc] /\ UNCHANGED batch

WorkerFrame == UNCHANGED <<loop, wake, announce, cn, downs>>

\* The semaphore of max_concurrent_tasks permits.
permit(w) ==
    /\ At(w, "sem")
    /\ Cardinality({v \in Worker : wk[v].pc \notin {"idle", "sem"}}) < MaxConcurrent
    /\ Goto(w, "get")
    /\ UNCHANGED <<tableVars, lock, runtimeVars, faults>>

get_task(w) ==
    /\ At(w, "get")
    /\ IF status[wk[w].task] = "queued" THEN Goto(w, "plan") ELSE Return(w)
    /\ UNCHANGED <<tableVars, lock, runtimeVars, faults>>

\* Mutant of claim: claimed without asking the store whether it still may be.
claim_Unchecked(w) ==
    /\ At(w, "plan")
    /\ status' = [status EXCEPT ![wk[w].task] = "planning"]
    /\ Goto(w, "assign")
    /\ UNCHANGED <<assigned, run, lock, runtimeVars, faults>>

\* The configuration resolves the task to a developer, or DeveloperSelectionError.
select_developer(w) == Goto(w, "assign") \/ Goto(w, "fail")

\* The transition to planning and, with no await in between, select_developer.
claim(w) ==
    /\ At(w, "plan")
    /\ TableTransition(wk[w].task, "planning")
    /\ select_developer(w)
    /\ UNCHANGED <<lock, runtimeVars, faults>>

assign(w) ==
    /\ At(w, "assign")
    /\ TableAssign(wk[w].task, Developer, "planning")
    /\ Goto(w, "lock")
    /\ UNCHANGED <<lock, runtimeVars, faults>>

ProjectAt(w) == ProjectOf[wk[w].task]

\* lock.acquire: a free lock, or one recovered from a dead process.
acquire(w) ==
    /\ At(w, "lock")
    /\ lock[ProjectAt(w)] \in {Free, Stale}
    /\ lock' = [lock EXCEPT ![ProjectAt(w)] = w]
    /\ Goto(w, "branch")
    /\ UNCHANGED <<tableVars, runtimeVars, faults>>

\* Mutant of lock_timeout: a task that waited long enough goes on regardless.
lock_timeout_Proceed(w) ==
    /\ At(w, "lock")
    /\ lock[ProjectAt(w)] # Free
    /\ Goto(w, "branch")
    /\ UNCHANGED <<tableVars, lock, runtimeVars, faults>>

\* LockTimeoutError: still locked after lock_wait_seconds.
lock_timeout(w) ==
    /\ At(w, "lock")
    /\ lock[ProjectAt(w)] # Free
    /\ Goto(w, "block")
    /\ UNCHANGED <<tableVars, lock, runtimeVars, faults>>

\* create_task_branch: prepared, blocked (collision, dirty tree) or failed.
create_task_branch(w) ==
    /\ At(w, "branch")
    /\ Goto(w, "run") \/ Leave(w, "block") \/ Leave(w, "fail")
    /\ UNCHANGED <<tableVars, lock, runtimeVars, faults>>

enter_running(w) ==
    /\ At(w, "run")
    /\ TableTransition(wk[w].task, "running")
    /\ Goto(w, "mkrun")
    /\ UNCHANGED <<lock, runtimeVars, faults>>

\* A fresh run id.
create_run(w) ==
    /\ At(w, "mkrun")
    /\ LET r == Cardinality(DOMAIN run) + 1 IN
         /\ r \in RunId
         /\ TableCreateRun(r, wk[w].task)
         /\ wk' = [wk EXCEPT ![w].pc = "strun", ![w].run = r]
    /\ UNCHANGED <<batch, lock, runtimeVars, faults>>

start_run(w) ==
    /\ At(w, "strun")
    /\ TableStartRun(wk[w].run)
    /\ Goto(w, "exec")
    /\ UNCHANGED <<lock, runtimeVars, faults>>

-----------------------------------------------------------------------------
(* CodexRuntime.execute.                                                   *)

\* The subprocess is started, or RuntimeLaunchError is raised.
launch(w) ==
    /\ At(w, "exec")
    /\ Goto(w, "register") \/ Leave(w, "closerun")
    /\ UNCHANGED <<tableVars, lock, runtimeVars, faults>>

register(w) ==
    /\ At(w, "register")
    /\ IF wk[w].task \in proc
       THEN Leave(w, "closerun") /\ UNCHANGED proc
       ELSE Goto(w, "await") /\ proc' = proc \cup {wk[w].task}
    /\ UNCHANGED <<tableVars, lock, killed, faults>>

\* The process ended, or was terminated after timeout_seconds.  A process that
\* ended is reported as cancelled if its task is in _cancelled by then.
process_ended(w) ==
    /\ At(w, "await")
    /\ \E result \in IF wk[w].task \in killed THEN {"cancelled", "timed-out"}
                     ELSE {"succeeded", "failed", "timed-out"} :
         wk' = [wk EXCEPT ![w].pc = "dereg", ![w].result = result]
    /\ UNCHANGED <<tableVars, batch, lock, runtimeVars, faults>>

\* Mutant of deregister: the cancellation mark stays.
deregister_KeepMark(w) ==
    /\ At(w, "dereg")
    /\ proc' = proc \ {wk[w].task}
    /\ Goto(w, "finrun")
    /\ UNCHANGED <<tableVars, killed, lock, faults>>

deregister(w) ==
    /\ At(w, "dereg")
    /\ proc' = proc \ {wk[w].task}
    /\ killed' = killed \ {wk[w].task}
    /\ Goto(w, "finrun")
    /\ UNCHANGED <<tableVars, lock, faults>>

-----------------------------------------------------------------------------
(* The end of a task.                                                      *)

\* _finish_run; from here on run_finished is set, which clearing `run` stands for.
finish_run(w) ==
    /\ At(w, "finrun")
    /\ TableFinishRun(wk[w].run, wk[w].result)
    /\ wk' = [wk EXCEPT ![w].pc = "check", ![w].run = NoneId]
    /\ UNCHANGED <<batch, lock, runtimeVars, faults>>

\* A task cancelled meanwhile is left alone.
check_cancelled(w) ==
    /\ At(w, "check")
    /\ IF status[wk[w].task] = "cancelled" THEN Leave(w, "return")
       ELSE Goto(w, "finish")
    /\ UNCHANGED <<tableVars, lock, runtimeVars, faults>>

\* Mutant of Outcome: only failed and cancelled are told apart.
Outcome_Optimistic(result) == CASE result = "failed" -> "failed"
                                [] result = "cancelled" -> "cancelled"
                                [] OTHER -> "completed"

\* _finish_task: the status a runtime result leads to.
Outcome(result) == CASE result = "succeeded" -> "completed"
                     [] result = "cancelled" -> "cancelled"
                     [] OTHER -> "failed"

finish_task(w) ==
    /\ At(w, "finish")
    /\ TableTransition(wk[w].task, Outcome(wk[w].result))
    /\ Leave(w, "return")
    /\ UNCHANGED <<lock, runtimeVars, faults>>

\* Mutant of release: process_task goes on where it should return.
release_NoReturn(w) ==
    /\ At(w, "release")
    /\ lock' = [lock EXCEPT ![ProjectAt(w)] = Free]
    /\ Goto(w, wk[w].next)
    /\ UNCHANGED <<tableVars, runtimeVars, faults>>

\* The finally clause of open_task_workspace.
release(w) ==
    /\ At(w, "release")
    /\ lock' = [lock EXCEPT ![ProjectAt(w)] = Free]
    /\ IF wk[w].next = "return" THEN Return(w) ELSE Goto(w, wk[w].next)
    /\ UNCHANGED <<tableVars, runtimeVars, faults>>

\* Mutant of close_run: the run is left as it is.
close_run_Skip(w) ==
    /\ At(w, "closerun")
    /\ Goto(w, "excget")
    /\ UNCHANGED <<tableVars, lock, runtimeVars, faults>>

\* except Exception: an unfinished run is closed as failed.
close_run(w) ==
    /\ At(w, "closerun")
    /\ IF wk[w].run = NoneId THEN UNCHANGED tableVars
       ELSE TableFinishRun(wk[w].run, "failed")
    /\ Goto(w, "excget")
    /\ UNCHANGED <<lock, runtimeVars, faults>>

get_after_exception(w) ==
    /\ At(w, "excget")
    /\ IF status[wk[w].task] \in Terminal THEN Return(w) ELSE Goto(w, "fail")
    /\ UNCHANGED <<tableVars, lock, runtimeVars, faults>>

_fail(w) ==
    /\ At(w, "fail")
    /\ TableTransition(wk[w].task, "failed")
    /\ Return(w)
    /\ UNCHANGED <<lock, runtimeVars, faults>>

_block(w) ==
    /\ At(w, "block")
    /\ TableTransition(wk[w].task, "blocked")
    /\ Return(w)
    /\ UNCHANGED <<lock, runtimeVars, faults>>

-----------------------------------------------------------------------------
(* Exceptions.                                                             *)

\* What an exception raised by the pending call of worker w does.
Raised(w) ==
    \/ /\ wk[w].pc \in Unprotected
       /\ Escape(w)
       /\ UNCHANGED lock
    \/ /\ wk[w].pc \in Protected
       /\ Leave(w, "closerun")
       /\ UNCHANGED lock
    \/ /\ At(w, "lock")
       /\ Goto(w, "closerun")
       /\ UNCHANGED lock
    \/ /\ At(w, "release")
       /\ Goto(w, "closerun")
       /\ lock' = [lock EXCEPT ![ProjectAt(w)] = Leaked]
    \/ /\ At(w, "closerun")
       /\ Goto(w, "excget")
       /\ UNCHANGED lock

\* The status a worker's pending transition asks for.
Target(w) == CASE At(w, "plan")   -> "planning"
               [] At(w, "run")    -> "running"
               [] At(w, "finish") -> Outcome(wk[w].result)
               [] At(w, "fail")   -> "failed"
               [] At(w, "block")  -> "blocked"

\* The store refuses the call: somebody else changed the task in between.
refused(w) ==
    /\ \/ /\ wk[w].pc \in {"plan", "run", "finish", "fail", "block"}
          /\ ~can_transition(status[wk[w].task], Target(w))
       \/ /\ At(w, "assign")
          /\ \/ status[wk[w].task] # "planning"
             \/ Developer \in assigned[wk[w].task]
    /\ Raised(w)
    /\ UNCHANGED <<tableVars, runtimeVars, faults>>

\* The call fails (StorageError, OSError, LockOwnershipError) and changes nothing.
faulty(w) ==
    /\ faults < MaxFaults /\ faults' = faults + 1
    /\ Raised(w)
    /\ UNCHANGED <<tableVars, runtimeVars>>

process_task(w) ==
    /\ \/ permit(w) \/ get_task(w) \/ claim(w) \/ assign(w) \/ acquire(w)
       \/ lock_timeout(w) \/ create_task_branch(w) \/ enter_running(w)
       \/ create_run(w) \/ start_run(w) \/ launch(w) \/ register(w)
       \/ process_ended(w) \/ deregister(w) \/ finish_run(w)
       \/ check_cancelled(w) \/ finish_task(w) \/ release(w) \/ close_run(w)
       \/ get_after_exception(w) \/ _fail(w) \/ _block(w) \/ refused(w)
    /\ WorkerFrame

worker_fault(w) == faulty(w) /\ WorkerFrame

-----------------------------------------------------------------------------
(* cancel_task, called by the gateway.                                     *)

CancelFrame == UNCHANGED <<loopVars, wk, lock, announce, downs>>

CancelStep(c, pc) == cn' = [cn EXCEPT ![c].pc = pc]

\* The request reads the task it names.
cancel_read(c, t) ==
    /\ Up
    /\ cn[c].pc = "idle"
    /\ t \in DOMAIN status
    /\ cn' = [cn EXCEPT ![c] =
                [pc   |-> CASE status[t] \in Terminal  -> "returned"
                            [] status[t] = "running"   -> "runtime"
                            [] OTHER                   -> "commit",
                 task |-> t]]
    /\ UNCHANGED <<tableVars, runtimeVars, faults>>

\* runtime.cancel: marks and terminates a registered process; without one it
\* raises a LookupError, which is suppressed.
cancel_runtime(c) ==
    /\ cn[c].pc = "runtime"
    /\ killed' = IF cn[c].task \in proc THEN killed \cup {cn[c].task} ELSE killed
    /\ CancelStep(c, "commit")
    /\ UNCHANGED <<tableVars, proc, faults>>

\* store.cancel_task commits, or raises because the task is closed already.
cancel_commit(c) ==
    /\ cn[c].pc = "commit"
    /\ \/ TableTransition(cn[c].task, "cancelled") /\ CancelStep(c, "cancelled")
       \/ /\ ~can_transition(status[cn[c].task], "cancelled")
          /\ CancelStep(c, "conflict")
          /\ UNCHANGED tableVars
    /\ UNCHANGED <<runtimeVars, faults>>

\* The commit fails: the user is told so, and the process may be dead already.
cancel_fault(c) ==
    /\ cn[c].pc = "commit"
    /\ CancelStep(c, "unavailable")
    /\ UNCHANGED <<tableVars, runtimeVars, faults>>

cancel_task(c) == (cancel_runtime(c) \/ cancel_commit(c)) /\ CancelFrame

-----------------------------------------------------------------------------
(* Start and end of the hub process.                                       *)

\* initialize: crash residue is reconciled before any interface is up.
initialize ==
    /\ ~Up
    /\ TableReconcile
    /\ loop' = "starting"
    /\ UNCHANGED <<wake, batch, wk, lock, runtimeVars, announce, cn, boundVars>>

\* run_forever reconciles once more, while the gateway already accepts tasks.
run_forever ==
    /\ loop = "starting"
    /\ TableReconcile
    /\ loop' = "poll"
    /\ UNCHANGED <<wake, batch, wk, lock, runtimeVars, announce, cn, boundVars>>

\* Every coroutine, the runtime registry and all requests in flight are gone.
MemoryLost ==
    /\ Up
    /\ downs < MaxDowns /\ downs' = downs + 1
    /\ wake' = FALSE /\ batch' = {}
    /\ wk' = [w \in Worker |-> Idle]
    /\ proc' = {} /\ killed' = {} /\ announce' = {}
    /\ cn' = [c \in Canceller |->
                IF cn[c].pc \in {"runtime", "commit"}
                THEN [cn[c] EXCEPT !.pc = "lost"] ELSE cn[c]]
    /\ UNCHANGED <<tableVars, faults>>

\* Killed: lock files stay.
crash ==
    /\ MemoryLost
    /\ loop' = "down"
    /\ lock' = [p \in Project |-> IF lock[p] = Free THEN Free ELSE Stale]

\* serve cancels its tasks after shutdown_timeout_seconds: the finally clauses
\* release the locks, except that a thread still inside lock.acquire may get the
\* lock after its coroutine was cancelled, and nobody releases it.  The exit code
\* is 0 after a signal, and 1 when a service had ended.
shutdown ==
    /\ MemoryLost
    /\ loop' \in {"stopped", "down"}
    /\ \E late \in SUBSET {ProjectAt(w) : w \in {v \in Worker : At(v, "lock")}} :
         lock' = [p \in Project |->
                    IF p \in late \/ lock[p] \in {Stale, Leaked} THEN Stale
                    ELSE Free]

-----------------------------------------------------------------------------
\* The polling coroutine: one step at a time.
Polling == run_forever \/ run_once \/ gathered \/ woken \/ poll_timeout

Next ==
    \/ \E t \in TaskId : create_task(t) \/ enqueue_task(t)
    \/ initialize \/ Polling \/ poll_failed
    \/ \E w \in Worker : process_task(w) \/ worker_fault(w)
    \/ \E c \in Canceller :
         \/ cancel_task(c)
         \/ \E t \in TaskId : cancel_read(c, t) /\ CancelFrame
         \/ cancel_fault(c) /\ CancelFrame
    \/ crash \/ shutdown

Spec == Init /\ [][Next]_vars

\* launchd starts the hub again unless it exited with 0 (KeepAlive,
\* SuccessfulExit), the event loop runs every coroutine that can run, and the poll
\* has a timeout.  Nothing makes a user create or cancel a task, no fault is due,
\* and neither is the end of execute: its wait for the process has a timeout, those
\* for the prompt to be read, for the pipes and for git status have none.
Fairness ==
    /\ WF_vars(loop = "down" /\ initialize)
    /\ WF_vars(Polling)
    /\ \A w \in Worker : WF_vars(~At(w, "await") /\ process_task(w))
    /\ \A c \in Canceller : WF_vars(cancel_task(c))

FairSpec == Spec /\ Fairness
-----------------------------------------------------------------------------
(* Properties.                                                             *)

WorkerState == [pc : WorkerPc, task : TaskId \cup {NoneId},
                run : RunId \cup {NoneId},
                result : RunTerminal \cup {"none"},
                next : WorkerPc \cup {"return", "none"}]

CancelPc == {"idle", "runtime", "commit", "returned", "cancelled", "conflict",
             "unavailable", "lost"}

\* Every variable has its type.
TypeInvariant ==
    /\ TableTypeOK
    /\ loop \in {"down", "stopped", "starting", "poll", "gather", "wait"}
    /\ wake \in BOOLEAN
    /\ batch \subseteq Worker
    /\ wk \in [Worker -> WorkerState]
    /\ lock \in [Project -> Worker \cup {Free, Stale, Leaked}]
    /\ proc \subseteq TaskId /\ killed \subseteq TaskId /\ announce \subseteq TaskId
    /\ cn \in [Canceller -> [pc : CancelPc, task : TaskId \cup {NoneId}]]
    /\ faults \in 0..MaxFaults /\ downs \in 0..MaxDowns

\* Past its transition to planning a worker owns its task.
Claimed(w) == wk[w].pc \notin {"idle", "sem", "get", "plan"}

\* A task is worked on by at most one worker, although an aborted gather leaves
\* workers behind and the next poll may list their task again: the transition to
\* planning is the claim (process_task, run_once).
ExclusiveClaim ==
    \A v, w \in Worker : Claimed(v) /\ Claimed(w) /\ v # w => wk[v].task # wk[w].task

\* Branch preparation, the runtime and the bookkeeping of a task happen under
\* its project's lock, so two tasks of one project never overlap
\* (open_task_workspace).
WorkUnderLock ==
    \A w \in Worker : wk[w].pc \in Holding => lock[ProjectAt(w)] = w

\* The runtime's registry holds exactly the tasks whose process a worker waits
\* for, and only such a task is marked cancelled: a mark that stays behind would
\* turn a later run of the task into a cancelled one (CodexRuntime).
RegistryExact ==
    /\ proc = {wk[w].task : w \in {v \in Worker : wk[v].pc \in {"await", "dereg"}}}
    /\ killed \subseteq proc

\* No task is executed twice, across aborted gathers and restarts included: it
\* has at most one run.
AtMostOneRun ==
    \A r, s \in DOMAIN run : run[r].task = run[s].task => r = s

\* A task is reported completed only on the strength of a succeeded run, and a
\* succeeded run never ends as a failed task, unless a call failed on the way.
OutcomeBacked ==
    \A t \in DOMAIN status :
      /\ status[t] = "completed" =>
           \E r \in DOMAIN run : run[r].task = t /\ run[r].status = "succeeded"
      /\ status[t] = "failed" /\ faults = 0 =>
           \A r \in DOMAIN run : run[r].task = t => run[r].status # "succeeded"

Owned(t) == \E w \in Worker : Claimed(w) /\ wk[w].task = t

\* While the hub is up and no call has failed, a running task and an open run
\* belong to a worker that will close them: cancel requests and aborted gathers
\* strand neither.
RunningOwned ==
    Up /\ faults = 0 =>
      /\ \A t \in DOMAIN status : status[t] = "running" => Owned(t)
      /\ \A r \in DOMAIN run : run[r].status \in RunActive =>
           \E w \in Worker : wk[w].run = r

\* ARCHITECTURE.md: planning means that the plan is being determined.  So, while
\* the hub is up and no call has failed, a planning task belongs to a worker.
PlanningOwned ==
    Up /\ faults = 0 =>
      \A t \in DOMAIN status : status[t] = "planning" => Owned(t)

\* ARCHITECTURE.md: cancelled means that processing was intentionally stopped.
\* So no runtime process is started for a task that is cancelled already.
CancelStopsWork ==
    [][\A w \in Worker : At(w, "exec") /\ wk'[w].pc = "register" =>
         status[wk[w].task] # "cancelled"]_vars

InState(t, S) == t \in DOMAIN status /\ status[t] \in S

Interfered == faults > 0 \/ \E c \in Canceller : cn[c].pc # "idle"

\* Provided that no call of execute hangs and that somebody starts a hub again that
\* was stopped, every task that is queued or taken up ends closed or blocked,
\* whenever the hub goes down: a wakeup that _wake.clear() loses is made up for by
\* the poll timeout, and a restart settles what was interrupted (run_forever,
\* process_task, reconcile_interrupted).  Where a call failed or a cancel request
\* came in, which may abort a gather (see PlanningOwned), it is at least taken up.
QueuedIsSettled ==
    (\A w \in Worker : []<>~At(w, "await")) /\ []<>(loop # "stopped")
      => \A t \in TaskId :
           InState(t, {"queued", "planning", "running"})
             ~> \/ InState(t, Terminal \cup {"blocked"})
                \/ Interfered /\ ~InState(t, {"queued"})
=============================================================================
