# A TLA+ model of the AI Hub

The AI Hub (`src/src/macmini_ai_hub`) is one long-running asyncio process on a
Mac mini.  It takes commands from Slack, turns `dev` commands into durable tasks,
executes them one project at a time with the Codex runtime, and reports back.
SQLite holds everything that survives a restart; lock files serialise the work on
a project; `launchd` restarts the process when it dies.

This directory models the parts of the hub that carry its correctness, checks them
with TLC on small instances, and proves every safety property of those checks with TLAPS,
for every size.

## 1. Inventory

| Component | State | Operations | Interacts with |
|---|---|---|---|
| Task and run life cycle (`domain/tasks.py`, `domain/events.py`, `storage/models.py`) | none (immutable snapshots) | `transition_task`, validators | used by the store and the projector |
| Task store (`storage/sqlite.py`) | tables `tasks`, `events`, `runs`, `artifacts`, `task_routes` | `create_task`, `create_queued_task`, `transition_task`, `cancel_task`, `assign_task`, `append_event`, `save_task_route`, `create_run`, `start_run`, `finish_run`, `create_artifact`, `reconcile_interrupted_running` | one transaction per call; called from worker threads |
| Request and receipt tables (`storage/sqlite.py`, `gateway/dedup.py`) | `gateway_requests`, `delivery_receipts` | reserve, remember or mark, release, reconcile | gateway, Slack delivery, start of the hub |
| Orchestrator (`orchestrator/service.py`, `selection.py`) | semaphore, `_wake` event, its coroutines | `run_forever`, `run_once`, `process_task`, `cancel_task` | store, workspace adapter, runtime, gateway |
| Workspace adapter (`application/adapters.py`) | the held lock | `open_task_workspace` | file lock, workspace manager |
| Codex runtime (`runtime/codex.py`) | `_processes`, `_cancelled`, the operating system's processes | `execute`, `cancel`, `_terminate`, `_collect_changed_files` | orchestrator, working trees |
| Project file lock (`locks/file_lock.py`) | `<project>.lock` on disk, owner token | `acquire`, `release`, stale-lock recovery | worker threads, earlier processes' files |
| Task projection (`observability/projections.py`) | projection and seen events | `consume`, `replay_task` | events of the store |
| Gateway (`gateway/service.py`) | none of its own | `handle` | deduplicator, store, enqueuer |
| Slack integration (`integrations/slack.py`) | background handlers | `accept_event`, `_process_event`, `RetryingSlackDelivery.deliver` | gateway, receipts, Slack |
| Hub application (`application/composition.py`) | its asyncio tasks | `initialize`, `serve`, shutdown | everything |
| Notifications (`application/notifications.py`) | none of its own | `notify_task`, `reconcile_pending` | receipts, Slack, store |
| Workspace manager (`projects/manager.py`) | git working trees | `clone_or_select`, `create_task_branch` | git, the registries |
| Migrations (`storage/migrations.py`) | `schema_migrations`, `user_version` | `apply_migrations` | SQLite, other processes that open the file |
| Registries (`config/models.py`) | none after loading | `validate_relationships` | `select_developer`, workspace manager |
| Command line (`cli.py`) | the process | `serve`, `migrate`, `status` | hub, migrations, `launchd` |
| Configuration files, HTTP health, logging | none | — | — |

What is hard in this code, and what a unit test hardly reaches:

* **Interleavings.**  Every `await` of `process_task`, `cancel_task`, `handle` and
  `deliver` is a point where another coroutine acts; every value read before one may
  be stale after it.  `asyncio.gather` without `return_exceptions` abandons the
  siblings of a coroutine that raises, and they keep running.
* **Crashes.**  The process may die between any two calls; what it leaves in the
  tables and in the lock directory has to be put right by the next start.
* **Redelivery.**  Slack repeats events; sends may report an error although the
  message was posted; both must not lead to a second task or an unexplained message.
* **Files.**  The lock is made of `open(O_EXCL)`, `lstat` and `unlink`, none of which
  can be combined atomically.
* **Processes.**  The agent is a process of its own: it may ignore SIGTERM, never read its
  prompt, leave children that go on writing, with its pipes or without them, and outlive the
  hub; a thread that runs git cannot be cancelled.
* **Clocks.**  Event timestamps are made by callers before their transaction, so
  commit order and timestamp order differ; the wall clock may be set back between two
  starts.

Properties that make each component correct are listed with the runs in section 4;
the hazards, one by one at their source lines, are in `PROJECT.json`.

## 2. Modules

| Module | Models | Remarks |
|---|---|---|
| `TaskLifecycle` | statuses, legal transitions, event types, validators | constant operators only |
| `TaskTable` | what the store promises its callers | abstract specification; the orchestrator is built on it |
| `TaskStore` | the write operations of `SQLiteStore` on the task tables | implements `TaskTable` |
| `Orchestrator` | `run_forever`, `process_task`, `cancel_task`, the workspace adapter, the runtime's registry, start, crash and shutdown | extends `TaskTable` |
| `ProjectLock` | what a project lock promises the tasks of one process | abstract specification |
| `FileLock` | `ProjectFileLock` at the level of file system calls | implements `ProjectLock` until the hub first dies |
| `Projection` | `TaskProjector`: one event, and the loop over a stream | constant operators only |
| `ProjectedStore` | replay of the log `TaskStore` writes | extends `TaskStore` and `Projection` |
| `Delivery` | `RetryingSlackDelivery` and `delivery_receipts` | Slack itself is external; checked as part of `Gateway` and `Hub` |
| `Gateway` | Slack event, deduplication, dispatch, answer | extends `Delivery` |
| `Notifications` | `StoredRouteResultNotifier` | extends `Delivery` and `TaskTable` |
| `Migrations` | opening the database and `apply_migrations` | SQLite's transactions are external |
| `Hub` | build, `initialize`, `serve`, the operator's commands, `launchd`, and the steps of `process_task` and `cancel_task` that report | composes `Notifications` and `Migrations` |
| `Registry` | the registries, `validate_relationships`, `select_developer` | constant operators only |
| `Execution` | `open_task_workspace`, `ProjectWorkspaceManager`, the life of the agent's process, the ways in which the hub ends | extends `Registry`; git and the agent are external |
| `TaskStoreProofs` | theorems about `TaskStore` | TLAPS, as the following |
| `ReplayProofs` | theorems about `Projection` and `ProjectedStore` | extends `TaskStoreProofs` |
| `DeliveryProofs`, `GatewayProofs` | theorems about `Delivery` and `Gateway` | the second extends the first |
| `HubProofs` | theorems about `Migrations`, `Notifications` and `Hub` | extends `DeliveryProofs` |
| `FileLockProofs`, `OrchestratorProofs`, `ExecutionProofs` | theorems about the module of that name | the last one about `Registry` too |
| `MCTaskStore`, `MCOrchestrator`, `MCHub`, `MCExecution` | constants and symmetry for TLC | |

### TaskStore

One action per write operation.  Every operation of `SQLiteStore` runs under the
store's `RLock` inside `BEGIN IMMEDIATE ... COMMIT` and is rolled back by any exception,
so an action is atomic, and its guard is the conjunction of the conditions under which
the code does not raise.  Event ids, timestamps and payload statuses are what callers
supply, so they are chosen freely: repeated events, an id with different content and
a clock that goes backwards are all there.  `events` is the table in the order of its
`sequence` column; two events are "the same JSON" iff their records are equal.
Project, team and request text are constant for a task and left out.

### Orchestrator

A worker is one `process_task` coroutine; `wk[w].pc` names the call it is about to make.
Two steps of the model are separate exactly where the code awaits.  `refused` is a
store call that raises because somebody else changed the task, `worker_fault` any call
that fails for a reason of its own; `Raised` says where such an exception goes:
out of `process_task` (aborting the gather), through the `finally` clause of
`open_task_workspace` to `except Exception`, or into the nested handler that closes the
run.  `batch` is what the pending `gather` waits for.  `lock[p]` is a worker, free,
`Stale` (its process is dead) or `Leaked` (a failed release of this process, which
nobody may recover while the process lives).  Ids are numbers because the code lists
queued tasks by age.  `_notify` is left out here: it catches what delivery raises and
changes no task; it is the subject of `Notifications` and `Hub`.

### FileLock

A file is its inode, the pid in it and whether its metadata has been written.
`begin ... retry` are the steps of `acquire`, `release ... release_unlink` those of
`release`; `lstat`/`unlink` (and `release_lstat`/`release_unlink`) are the two halves of
`_remove_unchanged`.  `grow_old` lets the file pass `stale_after`, `crash` replaces the
process by a new one.

### Gateway and Delivery

A handler is the background task of one delivery of an event; the event is its
idempotency key and the answer is its `GatewayCode`.  `request[k]` is the row of
`gateway_requests`, `receipt[d]` the row of `delivery_receipts`, `posted[d]` what users
can see.  Parsing, authorization and the credential test touch no state and only decide
between `Rejected` and the rest.

### Notifications, Migrations and Hub

`notify_task` is two steps, the reads and the delivery; the update is what it read: the
status of the row the caller handed over, and the status of the latest run by then.  The
delivery id is `<<task, status>>`.  `reconcile_pending` visits the routes in the order of
their task ids.

`Migrations` has one step per statement that another process can get between:
`read_applied` looks at `schema_migrations` outside of any transaction, `begin_immediate`
waits for the write lock or gives up, `execute_statements` finds the tables free or not,
`commit_migration` makes the version visible as a whole.  Each opener has its own list of
migrations, because the operator's checkout may be newer than the code the hub runs.

`Hub` adds the order of a start (`opening`, `receipts`, `replay`, `serving`), exit codes
as far as `launchd` looks at them (`KeepAlive` only restarts what did not exit with 0), and
`ahead`: stored timestamps are ahead of the wall clock, so that `reconcile_interrupted_running`
refuses interrupted rows, open runs of closed tasks among them, and the start fails.  A task
has one worker here; two workers and the lock are the subject of `Orchestrator`.  Every store
call of `process_task`, and the release of the lock, may fail: `Raises` leads to the `except`
clause (`close_run`, then `_fail`), each call of which may fail once more, so that a task can
end `failed` beside a run that succeeded or stays open.

### Registry and Execution

A configuration is three functions on ids.  `ConfigBundle` is the set of those that pass
`validate_relationships`, enumerated from all that the field types admit; `select_developer`
is compared with `OwnersDeveloper`, which starts from the agents' entries instead of the
team's list.  The initial states of `Execution` are what the accepted bundles make of two
tasks, with every condition a working tree can be found in: absent, cloned, a clone that
already has the task's branch (after an older database was restored), or something else.

`tree[d]` is a directory: its kind, the branch checked out, whose uncommitted work lies in
it, and whose commits are on each branch.  `wk[t]` is the coroutine of a task, or the
thread it waits for: after `cancel_tasks` a thread in `lock`, `select`, `clone`, `inspect`
or `switch` runs on by itself, without the lock.  `pr[t]` is the agent's process: live, gone,
or gone and survived by processes it has started, which have its pipes (`heir`) or not
(`child`); `_terminate` reaches the first only.  All of them edit and commit as long as they
are there, under the lock, after its release, with or without a hub.  `release` notes in
`wk[t].left` that some were left, and `acquire` in `wk[t].recovered` that the lock was that of
a dead hub: `Shared(d)`, the exception of `OneWriter`, `BranchPure` and `ReportIsOwn`, is a
directory of a task with one of these marks.  `prompt` is the wait for the agent to read its
prompt, before which the timeout of the runtime does not begin.

A `git switch` that a crash leaves behind has ended, was cut short or had not begun by the time
of the next start (`GitLeft`): it is short and holds `index.lock`.  A clone may go on.

## 3. Bounds and fairness

Every bound is a constant in the `.cfg` and is named in the module that uses it.

| Bound | Meaning | Why it is enough |
|---|---|---|
| `EventId` (4–5 ids) | length of the log | every path of the life cycle with an assignment and a repeated event fits in five events |
| `EventLimit = 4` (`store_log`) | events one listing returns | histories of five events are cut, shorter ones are complete |
| `Time = {0, 1}` | timestamps | the validators compare pairs of timestamps only |
| `Worker = {1, 2, 3}`, two tasks, `MaxConcurrent = 2` | live coroutines | a full batch, and one coroutine left behind by an aborted gather |
| `MaxFaults = 1` (`orch_faults`) | failing calls | one failure at any of the calls; the handlers for a second one are those for the first |
| `MaxDowns = 1` | crashes and shutdowns | reconciliation twice after it: in `initialize` and in `run_forever` |
| `MaxCrashes = 2`, three threads | deaths of the lock's process | a file left behind at every step, competitors for it, and a death while it is recovered |
| `MaxAttempts = 2`, `MaxMishaps = 3` (`gateway`) | attempts per delivery; failed sends and store calls, crashes | a failure while recovering from a failure, and one more |
| `MaxAttempts = 1`, `MaxMishaps = 2` (`hub`) | the same, with stops | a crash between transition and update and one more while it is replayed; retries are the subject of `gateway` |
| `Earlier = {1}`, one new task, `RouteLimit = 2` (`hub`) | routes at a start | a route that fails before one that must not be skipped; the limit is reached, and `OutcomeReported` excepts what is beyond it |
| `BeforeTasks` (`hub`) | the operator's commands come before the first new task | migrations and tasks look at no common state except through the start, which both sides of the bound contain |
| versions: two of the hub, three of the operator | migrations | nothing, some and all versions applied, and a schema newer than the hub |
| two agents, teams, projects, rooms; workspaces `a` and `a/b` (`execution`) | configurations | every reference can be right, wrong or missing; equal, nested and root workspaces |
| `MaxDowns = 1`, `Restored = {2}` (`execution`) | crashes and stops; tasks whose branch may exist already | a process or a thread left behind, and a task after it in the same tree |

A cancel request and a failing call are kept in separate runs of the orchestrator to
stay within minutes; the instance with both and a crash (5.1 million states) satisfies the
same invariants.

The reconciliation of several tasks at once, for which the log of the TLC instance is
too short, is covered by the proofs, which know no bound.

Fairness is stated where liveness is checked, and nowhere else:

* `Orchestrator!FairSpec`: weak fairness for each worker and cancel request and for the polling
  loop as one coroutine (the event loop runs every ready coroutine; `asyncio.wait` has a
  timeout; `acquire` has a deadline) and for the start of the hub after a crash (`launchd`).
  Not for the return of `execute`, which may hang (see `Execution`), and not for a start after a
  shutdown: `launchd` does not restart what exited with 0.  `QueuedIsSettled` names both as its
  premises.
* `Gateway!FairSpec`: handlers and the start.
* `Hub!FairSpec`: the start after a failure (`KeepAlive`), workers, cancel requests, the
  operator's command once begun, and the clock, which catches up in the end.

Nothing is assumed of users, Slack, faults or crashes.

## 4. Runs

| Run | Checks | Shows |
|---|---|---|
| `store_log` | `TypeOK`, `LogExplainsTasks`, `LogIsLegalHistory`, `RowsDecodable`, `ReplayReproduces`, `DuplicatesIgnored` | the event log and the task row never disagree; the log is a legal path of the life cycle; rows can always be read back; replay of a complete listing with ordered timestamps gives the stored task, whatever is fed twice, and replay of any other order raises |
| `store_tables` | `ReferencesResolve`, `ClosedIsFinal`, `ImplementsTable` | references between the tables resolve, closed rows stay closed, the store is a `TaskTable` |
| `orch_cancel` | `ExclusiveClaim`, `RegistryExact`, `RunningOwned`, `QueuedIsSettled` | a cancel request, and a crash or shutdown, at any moment: claims are exclusive, the registry of processes is exact, no task is running without a worker, and every queued task is taken up and settled although wakeups are erased, if the runtimes return and a hub that was stopped is started again |
| `orch_faults` | `TypeInvariant`, `WorkUnderLock`, `AtMostOneRun`, `OutcomeBacked` | a failing call, and a crash or shutdown, at any moment |
| `lock_recovery` | `LoneRecoveryIsSafe`, `MalformedKept`, `ImplementsLock` | until the hub dies the file protocol is a lock; after that, recovery by one thread at a time is safe for holders and for threads that are writing their file, and a half-written file that nobody is writing is never removed |
| `gateway` | `TypeInvariant`, `OneTaskPerEvent`, `OneDispatcher`, `AnswersAreTrue`, `OneSender`, `DeliveredWasPosted`, `CopiesArePaidFor`, `DeliveredIsFinal`, `ReservationEnds`, `AnsweredOnce` | redelivery, failing calls and crashes never make a second task, a false answer or an unexplained copy of a message, no event stays stuck behind a reservation, and deliveries that suppress each other's answers leave one |
| `hub` | `SchemaWhole`, `UpdateIsTrue`, `RunningNotAfterOutcome`, `StartReportsAll`, `OutcomeReported`, `ServesAgain` | two processes that open one file, killed anywhere, leave whole versions; what Slack shows of a task is true and in order; a lost update is made up for at the next start; the hub serves again after every failure its code can survive |
| `execution` | `OneWriter`, `BranchPure`, `ReportIsOwn`, `SelectionIsSound` | in every accepted configuration: processes of two tasks in one working tree, and foreign work on a branch or in a report, only where a lock was recovered from a dead hub or a process outlived its task; and no look-up that fails after the claim |

Every property has a mutant in `PROJECT.json`: a plausible slip in the code it is about
that makes TLC report it.

Four further runs end in a violation.  Each states what a document or comment of the
repository says, and the trace shows what the code does instead:

* `lock_recovery_race` — two threads that recover the same stale lock can both hold it:
  `_remove_unchanged` unlinks by name after comparing signatures
  (`locks/file_lock.py:305-308`).  `LoneRecoveryIsSafe` shows that this overlap is
  the only way.
* `orch_cancelled_runs_on` — a cancel that finds the task running before its process is
  registered commits, and the runtime is launched anyway (`orchestrator/service.py:182-183`).
* `orch_stranded` — the gather aborted by one cancelled task lets a second worker pick up
  a task its first worker has read but not claimed; if the second one blocks it first, the
  task is left in `planning` with nobody working on it (`orchestrator/service.py:76`).
* `exec_survivor` — "two modifying tasks cannot overlap on one project" (`docs/PHASES.md:117`),
  but `_terminate` and `execute` know the agent's own process only (`runtime/codex.py:244-256`):
  one that it started, and that does not hold its pipes, is still there when the lock is
  released, and the next task of the project starts beside it.

Exceptions that the properties name, and other observations that have no run of their own:

* The answers to all deliveries of an event share one delivery id, so that "already being
  processed" can suppress the answer that names the task (`integrations/slack.py:585`).
  `AnsweredOnce` says that one of the two is posted.
* A store call that fails after `_finish_run`, or `finish_run` in the `except` clause, gives a
  `failed` update beside a run that succeeded or is open (`orchestrator/service.py:155-173`);
  `UpdateIsTrue` excepts it once a call has failed.
* A shutdown while a thread is inside `lock.acquire` leaves the lock file behind
  (`application/adapters.py:219`), as a crash does.  The model includes it, and
  `QueuedIsSettled` and `WorkUnderLock` hold nevertheless.
* The projector refuses an event that is older than the one before it
  (`observability/projections.py:105`); the store accepts such events, so
  `ReplayReproduces` promises the stored task for logs with ordered timestamps only, and an
  exception for the others.
* `list_events` returns the oldest 1000 events unless told otherwise, and its caller cannot see
  that it was cut (`storage/sqlite.py:485`): `ReplayReproduces` promises the stored status and
  agents for listings that are complete, and the number of listed events for all.
* Only the update of a cancel request can overtake the running update of the worker, which is
  why `RunningNotAfterOutcome` does not name `cancelled`.  After a crash between `_finish_run`
  and `_finish_task` a blocked update shows a run that ended.
* `reconcile_pending` is to "replay routed lifecycle updates that lack a durable delivery
  receipt" (`application/notifications.py:62`); `list_task_routes` gives it the first 1000 by
  task id, closed and delivered ones included (`storage/sqlite.py:859`), and the update of a
  later task that was lost in a crash is never sent.  `StartReportsAll` and `OutcomeReported`
  are about the routes that are listed.
* Running `ai-hub migrate` from a newer checkout next to an older hub keeps that hub from its
  next start (`storage/migrations.py:149`); `ServesAgain` and `OutcomeReported` except it.
* `validate_relationships` refuses equal workspaces but not nested ones.  The inner repository
  then shows up as untracked in the outer tree: tasks of the outer project are blocked for
  review, or, if it appears while one of them runs, name it among their changed files
  (the exception in `ReportIsOwn`).
* `execute` waits without a timeout for the agent to read its prompt, for the pipes to close,
  which a background process may have inherited, and for git status (`runtime/codex.py:173`,
  199, 273); each keeps worker, permit and lock (the premise of
  `QueuedIsSettled`).  A stop cancels these waits; only after `_terminate` it waits for the
  pipes again.
* After a crash the agent's process may go on; six hours later its lock counts as stale, and
  another task's agent can join it in the tree.  So it can where a process outlived its agent
  and the lock (`exec_survivor`).  `OneWriter`, `BranchPure` and `ReportIsOwn` hold in every
  tree that is not `Shared` in one of these ways.

## 5. Proofs

The theorems hold for every value of the constants that the assumptions below admit: any
number of tasks, events, runs, routes, callers, attempts, failures, crashes and stops, any
registries, any histories of migrations.  Each proof is an induction over the behaviour: a
state predicate that holds initially, that every action preserves (one lemma per action, or per
kind of step that several actions share), and that implies the property.

| Theorem | States |
|---|---|
| `TypeCorrect` (`TaskStoreProofs`) | `[]TypeOK` of the store |
| `LogExplainsTasksAlways` (`TaskStoreProofs`) | `[]LogExplainsTasks` |
| `ClosedIsFinalAlways`, `RowsDecodableAlways`, `ReferencesResolveAlways`, `LogIsLegalHistoryAlways` (`TaskStoreProofs`) | `ClosedIsFinal`, `[]RowsDecodable`, `[]ReferencesResolve`, `[]LogIsLegalHistory` |
| `StoreImplementsTable` (`TaskStoreProofs`) | the store refines `TaskTable` (`ImplementsTable`) |
| `ReplayReproducesAlways`, `DuplicatesIgnoredAlways` (`ReplayProofs`) | `[]ReplayReproduces`, `[]DuplicatesIgnored` |
| `ReplayIgnoresDuplicates` (`ReplayProofs`) | a duplicate in any stream of events leaves the projector as it was |
| `DeliverySafe`, `DeliveryFinal` (`DeliveryProofs`) | `Delivery` with arbitrary callers: `OneSender`, `DeliveredWasPosted`, `CopiesArePaidFor`; `DeliveredIsFinal` |
| `GatewaySafe`, `GatewayFinal` (`GatewayProofs`) | the invariants of the run `gateway`; `DeliveredIsFinal` |
| `FileLockType`, `FileLockKeepsMalformed`, `FileLockLoneRecovery` (`FileLockProofs`) | `[]TypeOK`, `MalformedKept`, `LoneRecoveryIsSafe` |
| `FileLockImplements` (`FileLockProofs`) | the file protocol refines `ProjectLock` until its process first dies (`ImplementsLock`) |
| `MigrationsSafe`, `HubSchemaWhole` (`HubProofs`) | `[]SchemaWhole` of `Migrations` alone and of the hub |
| `HubImplementsMigrations` (`HubProofs`) | the hub's steps are steps of `Migrations`, or invisible to it |
| `HubUpdateIsTrue`, `HubRunningNotAfterOutcome`, `HubStartReportsAll` (`HubProofs`) | `[]UpdateIsTrue`, `RunningNotAfterOutcome`, `StartReportsAll` |
| `HubDeliverySafe`, `HubDeliveredIsFinal` (`HubProofs`) | the properties of `Delivery` under the hub's own callers and restarts |
| `OrchestratorInv` (`OrchestratorProofs`) | the inductive invariant of the orchestrator |
| `OrchestratorExclusion`, `OrchestratorRuns`, `OrchestratorOutcome` (`OrchestratorProofs`) | `ExclusiveClaim`, `WorkUnderLock`; `TypeInvariant`, `RegistryExact`, `AtMostOneRun`; `OutcomeBacked`, `RunningOwned` |
| `ExecutionOneWriter`, `ExecutionBranchPure`, `ExecutionReportIsOwn`, `ExecutionSelectionIsSound` (`ExecutionProofs`) | `[]OneWriter`, `[]BranchPure`, `[]ReportIsOwn`, `[]SelectionIsSound` |

### The inductive invariants

*Store.*  `LogExplainsTasks` says that the version of a task is the number of events in its
stream and that the last of them carries its status and time.  It is inductive together with
`TypeOK`, which is needed to know that versions are numbers and that a stream is finite. Most
operations append one event to one stream; `reconcile_interrupted_running` appends one for each
interrupted task, and that their order is strictly increasing gives each task exactly one of the
new indices, for any number of them.  This is the case the TLC instance is too small for.
`TaskRowsStep` and `RunRowsStep` summarise what any operation does to one row (left alone, moved
by a legal transition, given an agent; created pending or queued); closed rows, decodable rows
and the refinement of `TaskTable` follow from that summary.  `LogIsLegalHistory` needs that the
last event of a stream carries the status of the row (`LogExplainsTasks`): only then is a
transition that is legal for the row legal after the stream.

*Replay.*  `replay_task` and `list_events` are loops, so these proofs need an induction over the
length of a stream inside the induction over the behaviour.  The library's induction theorems
take the claim as an operator, which the provers cannot instantiate; here the claim is a *set*
of lengths, and `UpTo` (a set with 0 and, up to N, with every successor has all of 0..N) follows
from the least element of its complement.  By it, the recursive functions behind `replay_task`
and `list_events` satisfy their own equations (`ConsumedDef`, `EventsOfDef`), equal projectors
that consume equal events stay equal (`SameEvents`), and a projector that has not failed has
seen all it consumed (`SeesAll`); the duplicate is then skipped, and the rest of the stream is
consumed from the same state.  `Mirrors` is the inductive invariant of `ReplayReproduces`: the
projector after the events of a task has its row's status and agents, the time of the last
event, and has seen only events that are in the log; or the timestamps decrease and it has
failed.  "Seen only what the log records" is what makes an appended event new to the projector,
because `_append_event_locked` let its id through; "the time of the last event", not the row's
`updated_at`, is what the projector compares with, since `append_event` adds events that the row
knows nothing of.  A listing cut at `EventLimit` is replayed from a log whose end the row has moved
past, so the invariant also says of every prefix of the stream that it was replayed or that
its timestamps decrease (`Prefixes`).

*Delivery and gateway.*  "Every copy is paid for by a mishap" is not inductive: the copy that
has just been sent is paid for by nothing.  `CopiesCounted` therefore counts one copy more where
the receipt is delivered or a call is about to mark it (`FirstCopy`), and `SenderReserved` (who
sends has the reservation) makes that call unique.  The lemmas are about one step of one call
and are used again under the gateway's handlers and under the hub's callers.  `GatewayInv` adds
for each handler what it holds and knows (`HandlerOK`: the reservation while it is busy, the
task behind what it is about to promise) and for each event that what was said of it is true
(`EventOK`).

*File lock.*  `FreshExists` shows that the model's inode numbers never run out, by counting what
file and threads can remember.  The exclusion behind `LoneRecoveryIsSafe` needs that an owner's
file is there, that there is one owner, and that the snapshot of a thread about to unlink is of
the present file (`RecoveryIsCurrent`); the last conjunct is what overlapping recoveries break.
A thread that is writing its file is an owner, so that neither another thread's recovery nor its
failed write takes the file away.  `MalformedKept` is about the files nobody is writing any more
and holds even where recoveries overlap.
`FirstLife` describes the process that has not died yet, for the refinement.

*Migrations and hub.* `OpenerOK` says what an opener knows when it commits: everything below its
version is applied, by its own list, and the version itself is not, although it read the table
outside of any transaction. `UpdatesInv` has two parts. `WorkerFits` and `RowFits` tie the place
of a worker to the row and to the run. `CallerFits` and `PostedFits` say that what a caller
holds, and what Slack shows, may be said from now on (`Sayable`): a terminal status is the
row's, and blocked may only become cancelled. With failing calls in `process_task` that is not
all: that a failed task is shown beside no other run as long as no call has failed is a second
invariant, `CleanInv`, which says of the row, of each caller and of each posted message that a
run beside `failed` failed too, or that there is none (`FailedRow`, `FailedCall`,
`FailedPosted`). The running update has to be the worker's own and the worker still before its
run, which is the whole of `RunningNotAfterOutcome`. `ReplayFits` is the loop invariant of
`reconcile_pending`: the routes visited are delivered or in the result, because no reservation
for a route to come belongs to anybody else.

*Orchestrator.*  For each worker, `StatusFits`, `RunsFit` and `CleanFits` say what its place
implies about the row of its task, the run it knows and the runs the task can have, with a
cancel request or a failed call in between.  Exclusion needs them because a coroutine that an
aborted gather left behind has to find its task in a status that refuses it.  `Finite` (of the
tables) lets the poll give each task it lists a coroutine of its own.

*Execution.* `PlansFit` shows that what an accepted bundle makes of the tasks has one workspace
per project, none of them the root, and developers that the agents' entries give. `LockInv`: a
task at work holds its project's lock, except in a thread that a shutdown left behind; a process
that outlived its hub has its lock still marked, or the directory is `Shared`; one that outlived
its task has left a mark (`LiveFits`); and no two tasks are in one directory (`Apart`).
`OneWriter` alone is not inductive, because a process is started by a task that merely holds the
lock. `TreeInv`: a tree found clean is clean when the branch is made (`SwitchFits`), and from
then on has the branch and the work of its task alone (`WorkFits`), although its agent's
children may write at any step up to the release; what other tasks, and a switch that a crash
cut short, do in the meantime is excluded by `LockInv`.

TLC has checked the invariants of replay, orchestrator, hub and execution on the instances of
the runs before they were proved.

### Assumptions

| Assumption | Says | Because |
|---|---|---|
| `TaskIdAssumption`, `RunIdAssumption`, `TimeAssumption`, `ExecutionTaskIdAssumption` | ids and timestamps are numbers | the code orders them; 0 and -1 stand for "none" and "stale" |
| `AgentAssumption`, `DeveloperAssumption`, `NobodyAssumption`, `AgentNameAssumption` | the markers for "nobody" and for errors are no names | `None` and exceptions are none in the code |
| `WorkerAssumption`, `ThreadAssumption` | finitely many coroutines and threads at a time | memory; a poll has to find idle coroutines, and a new file a fresh inode number |
| `EventLimitAssumption` | a listing returns at least one event | `list_events` raises for a smaller limit |
| `ProjectOfAssumption` | every task has a project | a field of `Task` |
| `MaxAttemptsAssumption`, `MaxMishapsAssumption`, `MaxCrashesAssumption`, `BoundAssumption`, `RouteLimitAssumption` | bounds are numbers, of any size | they only cut the instances for TLC; `max_attempts` is at least 1 |
| `TextAssumption`, `UpdateAssumption` | the texts and ids that occur are among the texts and ids | names of sets |
| `MigrationsAssumption` | each opener has a finite list of migrations | `MIGRATIONS` is a tuple |
| `OpenerAssumption`, `EarlierAssumption`, `DelivererAssumption` | the hub and the operator are the openers; a task has one run, one worker and one cancel request in `Hub` | the composition |
| `PathAssumption` | paths are sequences of names | `Path.parts` |

### Only model-checked

* Liveness (`QueuedIsSettled`, `ReservationEnds`, `OutcomeReported`, `ServesAgain`):
  fairness and `ENABLED` are out of the prover's reach.
* The four violations, which are traces.

`Execution` has no liveness property: whether a task gives its lock up is up to the agent and
to git, because three waits of `execute` have no timeout (see the end of section 4).

## 6. Not modelled, and the plan

Not modelled:

* reading of configuration files, field formats and operational settings, the HTTP health
  endpoints, logging and redaction: no state that other parts depend on;
* parsing and formatting of Slack texts; the bytes of the agent's output;
* the in-memory deduplicator (`gateway/dedup.py:42`): the hub is built with the durable one;
* `changed_files` of the workspace manager, which the hub does not call;
* registries that change between two starts: a redelivered event then meets a stored task with
  another team or project (`TaskConflictError`, `application/adapters.py:114-118`);
* links between workspaces, and file systems that fold case: `Registry` takes distinct registered
  paths for distinct directories, as `validate_relationships` does (`config/models.py:351`); the
  paths are resolved only when they are used (`projects/manager.py:219-225`).

What is left: the composition of `Orchestrator` with the lock `FileLock` implements (the
orchestrator has its own `lock`, with the same steps), and the liveness properties, which are
checked on the instances of the runs only.
