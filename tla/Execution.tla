------------------------------ MODULE Execution ------------------------------
(***************************************************************************)
(* What a task does on the disk: ProjectExecutionAdapter takes the         *)
(* project's lock (application/adapters.py), ProjectWorkspaceManager       *)
(* clones or selects the working tree and makes the task's branch          *)
(* (projects/manager.py), CodexRuntime runs the agent in it and reports    *)
(* what changed (runtime/codex.py).  The store and the bookkeeping of runs *)
(* are in Orchestrator; here the working trees, the operating system's     *)
(* processes and the ways in which the hub ends are.                       *)
(*                                                                         *)
(* create_task_branch runs in a thread, one step per group of git commands *)
(* between which somebody else can act.  A thread cannot be cancelled: when *)
(* serve cancels its coroutine the thread runs on, without the lock.       *)
(*                                                                         *)
(* Abstracted: file contents to whose work they are; the outcome of a task *)
(* (see Orchestrator) to the fact that it leaves the workspace.            *)
(***************************************************************************)
EXTENDS Registry

CONSTANTS TaskId,     \* tasks, each worked on at most once
          Request,    \* possible <<team, project>> of the tasks, one function each
          Restored,   \* tasks that an older database may have brought back
          MaxDowns    \* bound: crashes and stops of the hub

ASSUME ExecutionTaskIdAssumption == TaskId \subseteq Nat \ {0}

VARIABLES plan,     \* plan[t]: what the registries say about a task
          tree,     \* tree[d]: the working tree in a directory
          lock,     \* lock[p]: holder of a project's lock file
          aged,     \* lock files older than stale_after
          wk,       \* wk[t]: the coroutine, or the thread, that works on a task
          pr,       \* pr[t]: the codex process of a task: none, live, or dead and
                    \* survived by processes it started: by an heir, that has its
                    \* pipes, or by a child without them
          cx,       \* cx[t]: the cancel request for a task
          report,   \* report[t]: whose work the result of a task names
          hub, downs

vars == <<plan, tree, lock, aged, wk, pr, cx, report, hub, downs>>

Free  == 0
Stale == -1      \* the lock file of a hub that no longer exists

Nobody == 0      \* work of no task: a half switched tree, a nested repository

NoTree == [kind |-> "absent", head |-> Nobody, dirt |-> {}, on |-> <<>>]

\* A clone that nobody has worked in, or one that has the branch of task t from
\* before an older database was restored.
Clone   == [NoTree EXCEPT !.kind = "clone"]
Used(t) == [Clone EXCEPT !.on = [u \in {t} |-> {}]]

\* A directory that is not a clone of the registered repository.
Other   == [NoTree EXCEPT !.kind = "other"]

Idle == [pc |-> "idle", recovered |-> FALSE, left |-> FALSE]

\* What the loaded bundle makes of a task; `sound` compares the developer with
\* the one the agents' own entries give.
Resolve(b, team, project) ==
    LET developer == select_developer(b, team, project)
        sound     == developer = OwnersDeveloper(b, team, project)
    IN IF developer \in {Refused, KeyError}
       THEN [developer |-> developer, sound |-> sound,
             project |-> NoProject, dir |-> ProjectRoot]
       ELSE [developer |-> "selected", sound |-> sound,
             project |-> project, dir |-> b.projects[project].workspace]

Plans == {[t \in TaskId |-> Resolve(b, r[t][1], r[t][2])] :
            b \in ConfigBundle, r \in Request}

Dir(t) == plan[t].dir

Dirs == Paths \ {ProjectRoot}

\* The hub is up; a working tree is there if somebody put it there.
Init ==
    /\ plan \in Plans
    /\ tree \in [Dirs -> {NoTree, Clone, Other} \cup {Used(t) : t \in Restored}]
    /\ \A d \in Dirs : tree[d] # NoTree => \E t \in TaskId : Dir(t) = d
    /\ \A d, e \in Dirs : Below(d, e) /\ tree[e] = NoTree => tree[d] = NoTree
    /\ lock = [p \in ProjectName |-> Free] /\ aged = {}
    /\ wk = [t \in TaskId |-> Idle]
    /\ pr = [t \in TaskId |-> "none"]
    /\ cx = [t \in TaskId |-> "idle"]
    /\ report = [t \in TaskId |-> {}]
    /\ hub = "up" /\ downs = 0

At(t, pc) == wk[t].pc = pc

Goto(t, pc) == wk' = [wk EXCEPT ![t].pc = pc]

\* The thread was left behind by a cancelled coroutine.
Loose == hub = "cancelling"

\* The workspace is left: the finally clause releases the lock, unless the
\* coroutine has done so already.
Leave(t) == Goto(t, IF Loose THEN "done" ELSE "release")

-----------------------------------------------------------------------------
(* open_task_workspace and create_task_branch.                             *)

\* process_task begins with select_developer; a KeyError is not caught.
begin(t) ==
    /\ hub = "up" /\ At(t, "idle")
    /\ Goto(t, CASE plan[t].developer = Refused  -> "done"
                 [] plan[t].developer = KeyError -> "stranded"
                 [] OTHER                        -> "lock")
    /\ UNCHANGED <<plan, tree, lock, aged, pr, cx, report, hub, downs>>

\* lock.acquire: free, or old enough and its process gone.  A thread whose
\* coroutine was cancelled keeps the lock and nobody releases it.
acquire(t) ==
    LET p == plan[t].project IN
    /\ At(t, "lock")
    /\ lock[p] = Free \/ (lock[p] = Stale /\ p \in aged)
    /\ lock' = [lock EXCEPT ![p] = t]
    /\ aged' = aged \ {p}
    /\ wk' = [wk EXCEPT ![t] = [pc |-> IF Loose THEN "done" ELSE "select",
                                recovered |-> lock[p] = Stale, left |-> FALSE]]
    /\ UNCHANGED <<plan, tree, pr, cx, report, hub, downs>>

lock_timeout(t) ==
    /\ At(t, "lock")
    /\ lock[plan[t].project] # Free
    /\ Goto(t, "done")
    /\ UNCHANGED <<plan, tree, lock, aged, pr, cx, report, hub, downs>>

GitFrame == UNCHANGED <<plan, lock, aged, pr, cx, report, hub, downs>>

\* clone_or_select: an existing directory is selected; otherwise its parents are
\* made and git clone begins.
clone_or_select(t) ==
    /\ At(t, "select")
    /\ IF tree[Dir(t)].kind # "absent"
       THEN Goto(t, "inspect") /\ UNCHANGED tree
       ELSE /\ Goto(t, "clone")
            /\ tree' = [d \in Dirs |->
                          CASE d = Dir(t) -> [NoTree EXCEPT !.kind = "cloning"]
                            [] Below(Dir(t), d) /\ tree[d] = NoTree -> Other
                            [] OTHER -> tree[d]]
    /\ GitFrame

\* git clone succeeds, fails and tidies up, or is killed after
\* command_timeout_seconds and does not.
clone(t) ==
    /\ At(t, "clone")
    /\ \/ tree' = [tree EXCEPT ![Dir(t)] = Clone] /\ Goto(t, "inspect")
       \/ tree' = [tree EXCEPT ![Dir(t)] = NoTree] /\ Leave(t)
       \/ tree' = [tree EXCEPT ![Dir(t)].kind = "partial"] /\ Leave(t)
    /\ GitFrame

\* Repositories inside a working tree show up as untracked.
Nested(d) == 
    {e \in Dirs : Below(e, d) /\ tree[e].kind \in {"cloning", "partial", "clone"}}

\* git status --porcelain: whose uncommitted work is in the tree.
status(d) == tree[d].dirt \cup (IF Nested(d) = {} THEN {} ELSE {Nobody})

\* Mutant of inspect: DirtyTreePolicy.ALLOW.
inspect_AllowDirty(t) ==
    /\ At(t, "inspect")
    /\ \/ tree[Dir(t)].kind = "clone" /\ Goto(t, "switch")
       \/ tree[Dir(t)].kind # "clone" /\ Leave(t)
       \/ tree[Dir(t)].kind \in {"partial", "cloning"} /\ Goto(t, "switch")
    /\ UNCHANGED tree
    /\ GitFrame

\* rev-parse --show-toplevel, remote get-url and status.  A directory that is not
\* a repository lies in the hub's own, so that its root is another one; another
\* repository has another origin; a clone cut short looks like anything between
\* the former and an empty repository.
inspect(t) ==
    /\ At(t, "inspect")
    /\ \/ tree[Dir(t)].kind = "clone" /\ status(Dir(t)) = {} /\ Goto(t, "switch")
       \/ tree[Dir(t)].kind # "clone" /\ Leave(t)
       \/ status(Dir(t)) # {} /\ Leave(t)
       \/ tree[Dir(t)].kind \in {"partial", "cloning"} /\ Goto(t, "switch")
    /\ UNCHANGED tree
    /\ GitFrame

\* Is there a remote branch to start from?  Not in a clone that was cut short.
task_base_ref(d) == tree[d].kind = "clone"

\* Mutant of switch: the branch starts at HEAD.
switch_FromHead(t) ==
    LET d == Dir(t)  on == tree[d].on IN
    /\ At(t, "switch")
    /\ IF t \in DOMAIN on \/ ~task_base_ref(d)
       THEN Leave(t) /\ UNCHANGED tree
       ELSE /\ Goto(t, IF Loose THEN "done" ELSE "ready")
            /\ tree' = [tree EXCEPT
                 ![d].head = t,
                 ![d].on = [b \in DOMAIN on \cup {t} |->
                              IF b \in DOMAIN on THEN on[b]
                              ELSE IF tree[d].head \in DOMAIN on THEN on[tree[d].head]
                              ELSE {}]]
    /\ GitFrame

\* switch --create, from the remote's branch.
Switched(t, x) == [x EXCEPT !.head = t,
                            !.on = [b \in DOMAIN x.on \cup {t} |->
                                      IF b \in DOMAIN x.on THEN x.on[b] ELSE {}]]

\* BranchCollisionError, no base branch (_task_base_ref), or the new branch; what
\* is uncommitted by then is carried over.
switch(t) ==
    LET d == Dir(t) IN
    /\ At(t, "switch")
    /\ IF t \in DOMAIN tree[d].on \/ ~task_base_ref(d)
       THEN Leave(t) /\ UNCHANGED tree
       ELSE /\ Goto(t, IF Loose THEN "done" ELSE "ready")
            /\ tree' = [tree EXCEPT ![d] = Switched(t, @)]
    /\ GitFrame

\* A git command fails or times out (_run_git); a switch may stop half way.
git_failed(t) ==
    /\ wk[t].pc \in {"inspect", "switch"}
    /\ Leave(t)
    /\ \/ UNCHANGED tree
       \/ At(t, "switch") /\ tree' = [tree EXCEPT ![Dir(t)].dirt = @ \cup {Nobody}]
    /\ GitFrame

\* Nobody looks whether processes of the agent are left.
release(t) ==
    /\ At(t, "release")
    /\ lock' = [lock EXCEPT ![plan[t].project] = Free]
    /\ wk' = [wk EXCEPT ![t].pc = "done", ![t].left = pr[t] # "none"]
    /\ UNCHANGED <<plan, tree, aged, pr, cx, report, hub, downs>>

-----------------------------------------------------------------------------
(* CodexRuntime.execute.                                                   *)

RunFrame == UNCHANGED <<plan, tree, lock, aged, cx, report, hub, downs>>

\* The task becomes running and its process is started, or something raises.
launch(t) ==
    /\ At(t, "ready")
    /\ \/ Goto(t, "prompt") /\ pr' = [pr EXCEPT ![t] = "live"]
       \/ Leave(t) /\ UNCHANGED pr
    /\ RunFrame

\* stdin.drain() returns: the process has read enough of the prompt, or the pipe
\* is broken.  The wait for it has no timeout.
prompt_read(t) ==
    /\ At(t, "prompt")
    /\ Goto(t, "exec")
    /\ UNCHANGED pr
    /\ RunFrame

\* process.wait() returns.
process_ended(t) ==
    /\ At(t, "exec") /\ pr[t] # "live"
    /\ Goto(t, "drain")
    /\ UNCHANGED pr
    /\ RunFrame

\* The end of a process, if it has not ended yet.  _terminate looks for no other
\* process than this one.
Dead(t) == IF pr[t] = "live" THEN {"none", "heir", "child"} ELSE {pr[t]}

\* SIGTERM, which the process may ignore.
terminate(t) == \E x \in Dead(t) \cup {pr[t]} : pr' = [pr EXCEPT ![t] = x]

\* wait_for, which begins after the prompt, expires: _terminate.
runtime_timeout(t) ==
    /\ At(t, "exec") /\ pr[t] = "live"
    /\ terminate(t)
    /\ Goto(t, "grace")
    /\ RunFrame

\* The process ended, or is killed after termination_grace_seconds.  When it ends
\* at that moment process.kill() raises ProcessLookupError.
kill(t) ==
    /\ At(t, "grace") \/ At(t, "abort")
    /\ \E x \in Dead(t) : pr' = [pr EXCEPT ![t] = x]
    /\ \/ Goto(t, IF At(t, "grace") THEN "drain" ELSE "flush")
       \/ Goto(t, IF At(t, "grace") THEN "flush" ELSE "release")
    /\ RunFrame

\* await stdout_task and stderr_task: the pipes close when the last process that
\* has inherited them ends.
drain(t) ==
    /\ At(t, "drain") /\ pr[t] # "heir"
    /\ Goto(t, "collect")
    /\ UNCHANGED pr
    /\ RunFrame

\* The same after an exception, which is then raised again.
flush(t) ==
    /\ At(t, "flush") /\ pr[t] # "heir"
    /\ Goto(t, "release")
    /\ UNCHANGED pr
    /\ RunFrame

\* _collect_changed_files: git status, or nothing when it fails.  The wait for it
\* has no timeout.
collect_changed_files(t) ==
    /\ At(t, "collect")
    /\ report' \in {report, [report EXCEPT ![t] = status(Dir(t))]}
    /\ Goto(t, "release")
    /\ UNCHANGED <<plan, tree, lock, aged, pr, cx, hub, downs>>

CancelFrame == UNCHANGED <<plan, tree, lock, aged, wk, report, hub, downs>>

\* CodexRuntime.cancel, while the process is registered.
cancel(t) ==
    /\ hub # "down" /\ cx[t] = "idle"
    /\ wk[t].pc \in {"prompt", "exec", "grace", "abort", "flush"}
    /\ terminate(t)
    /\ cx' = [cx EXCEPT ![t] = "grace"]
    /\ CancelFrame

cancel_kill(t) ==
    /\ cx[t] = "grace"
    /\ \E x \in Dead(t) : pr' = [pr EXCEPT ![t] = x]
    /\ cx' = [cx EXCEPT ![t] = "idle"]
    /\ CancelFrame

-----------------------------------------------------------------------------
(* The agent's process and those it started, with or without a hub.        *)

ProcessFrame == UNCHANGED <<plan, lock, aged, wk, cx, report, hub, downs>>

edit(t) ==
    /\ pr[t] # "none"
    /\ tree' = [tree EXCEPT ![Dir(t)].dirt = @ \cup {t}]
    /\ UNCHANGED pr
    /\ ProcessFrame

\* git commit -a, on whatever branch is checked out.
commit(t) ==
    LET d == Dir(t) IN
    /\ pr[t] # "none"
    /\ tree[d].dirt # {} /\ tree[d].head \in DOMAIN tree[d].on
    /\ tree' = [tree EXCEPT ![d].on[tree[d].head] = @ \cup tree[d].dirt,
                            ![d].dirt = {}]
    /\ UNCHANGED pr
    /\ ProcessFrame

\* The process ends; its heirs and children end.
process(t) ==
    /\ \E x \in CASE pr[t] = "live"  -> Dead(t)
                  [] pr[t] = "heir"  -> {"none", "child"}
                  [] pr[t] = "child" -> {"none"}
                  [] OTHER           -> {} :
         pr' = [pr EXCEPT ![t] = x]
    /\ UNCHANGED tree
    /\ ProcessFrame

-----------------------------------------------------------------------------
(* The hub.                                                                *)

HubFrame == UNCHANGED <<plan, report>>

\* A signal, or a service that ended: stop is set, and no task is begun any more.
stop ==
    /\ hub = "up" /\ downs < MaxDowns
    /\ hub' = "stopping" /\ downs' = downs + 1
    /\ UNCHANGED <<tree, lock, aged, wk, pr, cx>>
    /\ HubFrame

InThread  == {"lock", "select", "clone", "inspect", "switch"}
Executing == {"prompt", "exec", "grace"}

\* shutdown_timeout_seconds: every coroutine is cancelled.  A running process is
\* terminated, a wait for pipes is given up, and the locks are released.
cancel_tasks ==
    /\ hub = "stopping"
    /\ hub' = "cancelling"
    /\ wk' = [t \in TaskId |->
                [wk[t] EXCEPT !.pc =
                   CASE @ \in Executing -> "abort"
                     [] @ \in {"ready", "drain", "flush", "collect"} -> "release"
                     [] OTHER -> @]]
    /\ pr' \in [TaskId -> {"none", "live", "heir", "child"}]
    /\ \A t \in TaskId :
         pr'[t] \in IF wk[t].pc \in Executing THEN Dead(t) \cup {pr[t]} ELSE {pr[t]}
    /\ lock' = [p \in ProjectName |->
                  IF lock[p] \in TaskId /\ wk[lock[p]].pc \in InThread THEN Free
                  ELSE lock[p]]
    /\ UNCHANGED <<tree, aged, cx, downs>>
    /\ HubFrame

Orphaned == [p \in ProjectName |-> IF lock[p] = Free THEN Free ELSE Stale]

\* Every coroutine and every thread has ended.
exit ==
    /\ hub \in {"stopping", "cancelling"}
    /\ \A t \in TaskId : wk[t].pc \in {"idle", "done"} /\ cx[t] = "idle"
    /\ hub' = "down"
    /\ lock' = Orphaned
    /\ UNCHANGED <<tree, aged, wk, pr, cx, downs>>
    /\ HubFrame

\* A git command that was under way when the hub died.  A clone may run on; a
\* switch, which is short and keeps the index locked, has ended by the next start,
\* or was cut short, or had not begun.
GitLeft(d) ==
    IF tree[d].kind = "cloning" THEN {tree[d], [tree[d] EXCEPT !.kind = "partial"]}
    ELSE {tree[d]} \cup
         UNION {{Switched(t, tree[d]), [tree[d] EXCEPT !.dirt = @ \cup {Nobody}]} :
                  t \in {u \in TaskId : At(u, "switch") /\ Dir(u) = d
                                          /\ u \notin DOMAIN tree[d].on
                                          /\ task_base_ref(d)}}

\* Killed: the locks stay.  The service manager may or may not find the processes
\* that were left behind.
crash ==
    /\ hub # "down" /\ downs < MaxDowns
    /\ hub' = "down" /\ downs' = downs + 1
    /\ lock' = Orphaned
    /\ wk' = [t \in TaskId |->
                IF wk[t].pc \in {"idle", "done"} THEN wk[t]
                ELSE [wk[t] EXCEPT !.pc = "lost"]]
    /\ cx' = [t \in TaskId |-> "idle"]
    /\ pr' \in {pr, [t \in TaskId |-> "none"]}
    /\ tree' \in {x \in [Dirs -> UNION {GitLeft(d) : d \in Dirs}] :
                    \A d \in Dirs : x[d] \in GitLeft(d)}
    /\ UNCHANGED aged
    /\ HubFrame

start ==
    /\ hub = "down"
    /\ hub' = "up"
    /\ UNCHANGED <<tree, lock, aged, wk, pr, cx, downs>>
    /\ HubFrame

-----------------------------------------------------------------------------
(* Time, the operator, and a git clone without a hub.                      *)

OutsideFrame == UNCHANGED <<plan, lock, wk, pr, cx, report, hub, downs>>

\* Six hours (stale_after).
age(p) ==
    /\ lock[p] = Stale /\ p \notin aged
    /\ aged' = aged \cup {p}
    /\ UNCHANGED tree
    /\ OutsideFrame

clone_ends(d) ==
    /\ tree[d].kind = "cloning"
    /\ \A t \in TaskId : ~(At(t, "clone") /\ Dir(t) = d)
    /\ tree' \in {[tree EXCEPT ![d] = Clone], [tree EXCEPT ![d] = NoTree]}
    /\ UNCHANGED aged
    /\ OutsideFrame

\* Somebody reviews a tree and puts it in order.
operator_reviews(d) ==
    /\ \A t \in TaskId : Dir(t) = d => wk[t].pc \in {"idle", "lock", "done", "lost"}
    /\ \/ tree[d].dirt # {} /\ tree' = [tree EXCEPT ![d].dirt = {}]
       \/ /\ tree[d].kind \in {"partial", "other"} /\ Nested(d) = {}
          /\ tree' = [tree EXCEPT ![d] = NoTree]
    /\ UNCHANGED aged
    /\ OutsideFrame

-----------------------------------------------------------------------------
\* What the hub does about a task by itself.
work(t) ==
    \/ acquire(t) \/ lock_timeout(t) \/ clone_or_select(t) \/ clone(t)
    \/ inspect(t) \/ switch(t) \/ git_failed(t) \/ launch(t) \/ prompt_read(t)
    \/ process_ended(t)
    \/ runtime_timeout(t) \/ kill(t) \/ drain(t) \/ flush(t)
    \/ collect_changed_files(t) \/ release(t)

Next ==
    \/ \E t \in TaskId :
         \/ begin(t) \/ work(t) \/ cancel(t) \/ cancel_kill(t)
         \/ edit(t) \/ commit(t) \/ process(t)
    \/ stop \/ cancel_tasks \/ exit \/ crash \/ start
    \/ \E p \in ProjectName : age(p)
    \/ \E d \in Dirs : clone_ends(d) \/ operator_reviews(d)

Spec == Init /\ [][Next]_vars

-----------------------------------------------------------------------------
(* Properties.                                                             *)

\* The directory may have a process in it that no lock covers: a task found its
\* lock left behind by a hub that died, at least six hours before, and the processes
\* of that hub's task may still be there; or a task gave its lock up while processes
\* its agent had started were left, as _terminate ends the agent's own process only.
Shared(d) == \E t \in TaskId : Dir(t) = d /\ (wk[t].recovered \/ wk[t].left)

\* Processes of two tasks write in one working tree at a time only where a lock
\* was recovered from a hub that died, or where a process survived its agent and
\* the lock (open_task_workspace, _is_stale, _terminate): otherwise, within one hub
\* and after a stop, the locks keep them apart, because no two projects have one
\* workspace (validate_relationships).
OneWriter ==
    \A s, t \in TaskId :
      pr[s] # "none" /\ pr[t] # "none" /\ s # t /\ Dir(s) = Dir(t)
        => Shared(Dir(t))

\* A task's branch has no commit but the task's own, whatever the tasks before it
\* left in the tree: it starts from the remote's branch, and only in a clean tree
\* (create_task_branch, _task_base_ref).  Only a process that writes in the tree
\* beside the task's own can change that: one of a hub that died, or one that
\* survived its agent.
BranchPure ==
    \A d \in Dirs : \A t \in DOMAIN tree[d].on :
      Shared(d) \/ tree[d].on[t] \subseteq {t}

\* The changed files in a task's result are that task's work and nobody else's
\* (_collect_changed_files), with the same exceptions, and except where one
\* project's workspace lies inside another's, which validate_relationships lets
\* pass.
ReportIsOwn ==
    \A t \in TaskId :
      \/ Shared(Dir(t))
      \/ \E s \in TaskId : Below(Dir(s), Dir(t))
      \/ report[t] \subseteq {t}

\* docs/PHASES.md: "two modifying tasks cannot overlap on one project".
TasksDoNotOverlap ==
    \A s, t \in TaskId :
      pr[s] # "none" /\ pr[t] # "none" /\ s # t => plan[s].project # plan[t].project

\* The developer select_developer picks from the team's list is the one agent
\* that, by its own entry, belongs to the team that owns the project and may do
\* the work; and no look-up of an accepted bundle ends in a KeyError, which
\* process_task would not survive (select_developer, validate_relationships).
SelectionIsSound == \A t \in TaskId : plan[t].sound /\ ~At(t, "stranded")
=============================================================================
