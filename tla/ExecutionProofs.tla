---------------------------- MODULE ExecutionProofs ----------------------------
(***************************************************************************)
(* Proofs about Execution and Registry, for every set of registries that   *)
(* ConfigBundle accepts, every number of tasks, projects and directories   *)
(* and every number of crashes and stops: no two agents in one tree, no    *)
(* foreign work on a branch or in a report, no selection that differs from *)
(* what the agents' entries say.                                           *)
(***************************************************************************)
EXTENDS Execution, FiniteSetTheorems, TLAPS

USE ExecutionTaskIdAssumption, AgentNameAssumption, PathAssumption

-----------------------------------------------------------------------------
(* The inductive invariant: locks.                                         *)

\* Where a task has its project's lock.
Holding == {"select", "clone", "inspect", "switch", "ready", "prompt", "exec", "grace",
            "abort", "drain", "flush", "collect", "release"}

ExPc == {"idle", "lock", "done", "stranded", "lost"} \cup Holding

WorkState == [pc : ExPc, recovered : BOOLEAN, left : BOOLEAN]

Process == {"none", "live", "heir", "child"}

\* The state of a task's coroutine or thread that has come to another place.
Moved(t, pc) == [pc |-> pc, recovered |-> wk[t].recovered, left |-> wk[t].left]

\* A recovery is not forgotten, and neither is a process that was left behind.
MarksStay ==
    \A t \in TaskId :
      /\ wk[t].recovered => wk'[t].recovered
      /\ wk[t].left => wk'[t].left

Selected(t) == plan[t].developer = "selected"

\* What the registries make of the tasks: a workspace for each project.
PlanFits ==
    /\ \A t \in TaskId :
         /\ plan[t].sound
         /\ plan[t].developer \in {Refused, "selected"}
         /\ Selected(t) => plan[t].project \in ProjectName /\ Dir(t) \in Dirs
         /\ ~Selected(t) => Dir(t) = ProjectRoot
    /\ \A s, t \in TaskId :
         Selected(s) /\ Selected(t) => (plan[s].project = plan[t].project <=> Dir(s) = Dir(t))

ExecTypes ==
    /\ wk \in [TaskId -> WorkState]
    /\ pr \in [TaskId -> Process]
    /\ lock \in [ProjectName -> TaskId \cup {Free, Stale}]
    /\ hub \in {"up", "stopping", "cancelling", "down"}

\* A task that got somewhere has a developer; one that never does is not stranded.
PlaceFits(t) ==
    /\ wk[t].pc \notin {"idle", "done"} \/ wk[t].left => Selected(t)
    /\ wk[t].pc # "stranded"
    /\ wk[t].pc \in {"idle", "lock"} => ~wk[t].recovered
    /\ wk[t].left => wk[t].pc = "done"
    /\ hub = "down" => wk[t].pc \in {"idle", "done", "lost"}

\* Outside of a thread that was left behind, work is done under the lock.
LockHeld(t) ==
    wk[t].pc \in Holding /\ (wk[t].pc \notin InThread \/ hub # "cancelling") =>
      lock[plan[t].project] = t

\* Where a task can be while there are processes of its agent.
Attended == {"prompt", "exec", "grace", "abort", "drain", "flush", "collect", "release",
             "done", "lost"}

\* Processes that a crash left behind have left a lock behind too, and those that
\* outlived a task's work are known to have done so.
LiveFits(t) ==
    pr[t] # "none" =>
      /\ wk[t].pc \in Attended
      /\ wk[t].pc = "lost" => lock[plan[t].project] = Stale \/ Shared(Dir(t))
      /\ wk[t].pc = "done" => wk[t].left

\* No two tasks are in one directory at a time, and no process of another task.
Apart(s, t) ==
    s # t /\ Dir(s) = Dir(t) /\ wk[t].pc \in Holding =>
      /\ wk[s].pc \notin Holding
      /\ pr[s] # "none" => Shared(Dir(t))

LockInv ==
    /\ PlanFits /\ ExecTypes
    /\ \A t \in TaskId : PlaceFits(t) /\ LockHeld(t) /\ LiveFits(t)
    /\ \A s, t \in TaskId : Apart(s, t)
    /\ OneWriter

-----------------------------------------------------------------------------
(* The inductive invariant: working trees.                                 *)

\* Every directory has a tree, and a repository belongs to a task.
TreeTypes ==
    /\ tree = [d \in Dirs |-> [kind |-> tree[d].kind, head |-> tree[d].head,
                               dirt |-> tree[d].dirt, on |-> tree[d].on]]
    /\ report = [t \in TaskId |-> report[t]]
    /\ \A d \in Dirs :
         tree[d].kind \in {"cloning", "partial", "clone"} => \E t \in TaskId : Dir(t) = d

\* A tree that was found clean is clean when the branch is made.
SwitchFits(t) ==
    wk[t].pc = "switch" /\ ~Shared(Dir(t)) =>
      (tree[Dir(t)].kind = "clone" => tree[Dir(t)].dirt = {})

\* Where the tree of a task is on the task's branch.
OnBranch(t) ==
    \/ wk[t].pc \in {"ready", "prompt", "exec", "grace", "abort", "drain", "flush", "collect"}
    \/ pr[t] # "none"

\* From then on the tree has the task's branch and nobody else's work.
WorkFits(t) ==
    OnBranch(t) /\ ~Shared(Dir(t)) =>
      /\ tree[Dir(t)].kind = "clone" /\ tree[Dir(t)].head = t
      /\ tree[Dir(t)].dirt \subseteq {t}

TreeInv ==
    /\ TreeTypes
    /\ \A t \in TaskId : SwitchFits(t) /\ WorkFits(t)
    /\ BranchPure
    /\ ReportIsOwn

ExecutionInv == LockInv /\ TreeInv

-----------------------------------------------------------------------------
(* The registries.                                                         *)

\* What ConfigBundle has checked of the registries it accepts.
BundleFits(b) ==
    /\ DOMAIN b.projects \subseteq ProjectName
    /\ \A p \in DOMAIN b.projects : b.projects[p].workspace \in Paths
    /\ \A t \in DOMAIN b.teams : b.teams[t].agents \subseteq AgentName
    /\ validate_projects(b.teams, b.projects)
    /\ validate_members(b.agents, b.teams)
    /\ validate_agents(b.agents, b.teams)

\* A bundle that is accepted has passed every check.
LEMMA BundleIsChecked ==
    ASSUME NEW b \in ConfigBundle
    PROVE  BundleFits(b)
  <1>1. PICK s \in Structure, agents \in RegistryOf(AgentName, AgentDefinition) :
          b = [teams |-> s.teams, projects |-> s.projects, agents |-> agents]
    BY DEF ConfigBundle
  <1>2. /\ validate_members(b.agents, b.teams)
        /\ validate_agents(b.agents, b.teams)
    BY DEF ConfigBundle
  <1>3. /\ s.teams \in RegistryOf(TeamName, TeamDefinition)
        /\ s.projects \in ProjectRegistry
        /\ validate_projects(s.teams, s.projects)
    BY DEF Structure
  <1>4. b.teams = s.teams /\ b.projects = s.projects
    BY <1>1
  <1>5. PICK T \in SUBSET TeamName : s.teams \in [T -> TeamDefinition]
    BY <1>3 DEF RegistryOf
  <1>6. PICK P \in SUBSET ProjectName : s.projects \in [P -> ProjectDefinition]
    BY <1>3 DEF RegistryOf, ProjectRegistry
  <1>7. \A t \in DOMAIN s.teams : s.teams[t].agents \subseteq AgentName
    BY <1>5 DEF TeamDefinition
  <1>8. \A p \in DOMAIN s.projects : s.projects[p].workspace \in Paths
    BY <1>6 DEF ProjectDefinition
  <1> QED
    BY <1>2, <1>3, <1>4, <1>6, <1>7, <1>8 DEF BundleFits

\* The agents that a team lists are the ones that name the team, so that the
\* look-ups of select_developer find the agent that the entries describe.
LEMMA SelectionFits ==
    ASSUME NEW b, BundleFits(b), NEW team, NEW project
    PROVE  /\ select_developer(b, team, project) = OwnersDeveloper(b, team, project)
           /\ select_developer(b, team, project) # KeyError
           /\ select_developer(b, team, project) # Refused =>
                project \in DOMAIN b.projects
  <1> DEFINE Foreign == \/ team \notin DOMAIN b.teams \/ project \notin DOMAIN b.projects
                        \/ b.teams[team].type # "product"
                        \/ b.projects[project].team # team
                        \/ b.teams[team].project # project
             Owned == /\ project \in DOMAIN b.projects
                      /\ b.projects[project].team = team
             able == {a \in b.teams[team].agents : Able(b.agents[a])}
             owners == {a \in DOMAIN b.agents :
                          /\ b.agents[a].team = team
                          /\ b.agents[a].permission_profile \in DOMAIN Permissions
                          /\ Able(b.agents[a])}
             Lookup == \E a \in b.teams[team].agents :
                         \/ a \notin DOMAIN b.agents
                         \/ b.agents[a].permission_profile \notin DOMAIN Permissions
  <1>1. select_developer(b, team, project) =
          IF Foreign THEN Refused
          ELSE IF Lookup THEN KeyError
          ELSE IF Cardinality(able) = 1 THEN CHOOSE a \in able : TRUE ELSE Refused
    BY Zenon DEF select_developer
  <1>2. OwnersDeveloper(b, team, project) =
          IF Owned /\ Cardinality(owners) = 1 THEN CHOOSE a \in owners : TRUE ELSE Refused
    BY Zenon DEF OwnersDeveloper
  <1>3. Foreign <=> ~Owned
    BY DEF BundleFits, validate_projects
  <1>4. CASE Foreign
    BY <1>1, <1>2, <1>3, <1>4 DEF Refused, KeyError
  <1>5. CASE ~Foreign
    <2>1. team \in DOMAIN b.teams /\ project \in DOMAIN b.projects
      BY <1>5
    <2>2. ~Lookup
      BY <2>1 DEF BundleFits, validate_members, validate_agents
    <2>3. able = owners
      <3>1. ASSUME NEW a \in able PROVE a \in owners
        BY <2>1, <2>2 DEF BundleFits, validate_members
      <3>2. ASSUME NEW a \in owners PROVE a \in able
        BY <2>1 DEF BundleFits, validate_agents
      <3> QED BY <3>1, <3>2
    <2>4. Cardinality(able) = 1 => able # {}
      <3>1. Cardinality({}) = 0
        BY FS_EmptySet
      <3> HIDE DEF able
      <3>2. able = {} => Cardinality(able) = 0
        BY <3>1, Zenon
      <3> QED BY <3>2
    <2>5. Cardinality(able) = 1 => (CHOOSE a \in able : TRUE) \in AgentName
      BY <2>1, <2>4 DEF BundleFits
    <2> HIDE DEF Foreign, Owned, able, owners, Lookup
    <2>6. select_developer(b, team, project) =
            IF Cardinality(able) = 1 THEN CHOOSE a \in able : TRUE ELSE Refused
      BY <1>1, <1>5, <2>2
    <2>7. OwnersDeveloper(b, team, project) =
            IF Cardinality(able) = 1 THEN CHOOSE a \in able : TRUE ELSE Refused
      BY <1>2, <1>3, <1>5, <2>3
    <2>8. select_developer(b, team, project) # KeyError
      BY <2>5, <2>6 DEF Refused, KeyError
    <2> QED BY <2>1, <2>6, <2>7, <2>8
  <1> QED BY <1>4, <1>5

\* Every plan that a bundle makes of the tasks fits.
LEMMA PlansFit == plan \in Plans => PlanFits
  <1> SUFFICES ASSUME plan \in Plans PROVE PlanFits
    OBVIOUS
  <1>1. PICK b \in ConfigBundle, r \in Request :
          plan = [t \in TaskId |-> Resolve(b, r[t][1], r[t][2])]
    BY DEF Plans
  <1>2. BundleFits(b)
    BY BundleIsChecked
  <1>3. ASSUME NEW t \in TaskId
        PROVE  /\ plan[t].sound
               /\ plan[t].developer \in {Refused, "selected"}
               /\ Selected(t) =>
                    /\ plan[t].project \in DOMAIN b.projects
                    /\ Dir(t) = b.projects[plan[t].project].workspace
               /\ ~Selected(t) => Dir(t) = ProjectRoot
    <2>1. PICK team, project : team = r[t][1] /\ project = r[t][2]
      OBVIOUS
    <2>2. plan[t] = Resolve(b, team, project)
      BY <1>1, <2>1
    <2>3. /\ select_developer(b, team, project) = OwnersDeveloper(b, team, project)
          /\ select_developer(b, team, project) # KeyError
          /\ select_developer(b, team, project) # Refused => project \in DOMAIN b.projects
      BY <1>2, SelectionFits
    <2>4. CASE select_developer(b, team, project) = Refused
      <3>1. plan[t] = [developer |-> Refused, sound |-> TRUE, project |-> NoProject,
                       dir |-> ProjectRoot]
        BY <2>2, <2>3, <2>4 DEF Resolve
      <3> QED BY <3>1 DEF Selected, Refused, Dir
    <2>5. CASE select_developer(b, team, project) # Refused
      <3>1. plan[t] = [developer |-> "selected", sound |-> TRUE, project |-> project,
                       dir |-> b.projects[project].workspace]
        BY <2>2, <2>3, <2>5 DEF Resolve
      <3> QED BY <3>1, <2>3, <2>5 DEF Selected, Dir
    <2> QED BY <2>4, <2>5
  <1>4. ASSUME NEW p \in DOMAIN b.projects
        PROVE  p \in ProjectName /\ b.projects[p].workspace \in Dirs
    <2>1. Below(b.projects[p].workspace, ProjectRoot)
      BY <1>2 DEF BundleFits, validate_projects
    <2>2. b.projects[p].workspace # ProjectRoot
      BY <2>1 DEF Below
    <2> QED BY <1>2, <2>2 DEF BundleFits, Dirs
  <1>5. \A p, q \in DOMAIN b.projects :
          b.projects[p].workspace = b.projects[q].workspace => p = q
    BY <1>2 DEF BundleFits, validate_projects
  <1> QED BY <1>3, <1>4, <1>5 DEF PlanFits

-----------------------------------------------------------------------------
(* Locks.                                                                  *)

\* A directory that is shared stays so.
LEMMA SharingStays ==
    ASSUME plan' = plan, MarksStay,
           NEW d, Shared(d)
    PROVE  Shared(d)'
  <1>1. PICK t \in TaskId : Dir(t) = d /\ (wk[t].recovered \/ wk[t].left)
    BY DEF Shared
  <1>2. wk'[t].recovered \/ wk'[t].left
    BY <1>1 DEF MarksStay
  <1> QED BY <1>1, <1>2 DEF Shared, Dir

\* Tasks in one directory are tasks of one project.
LEMMA SameProject ==
    ASSUME PlanFits, NEW s \in TaskId, NEW t \in TaskId, Selected(t), Dir(s) = Dir(t)
    PROVE  Selected(s) /\ plan[s].project = plan[t].project
  <1>1. Selected(s)
    <2> SUFFICES ASSUME ~Selected(s) PROVE FALSE
      OBVIOUS
    <2>1. Dir(t) \in Dirs /\ Dir(s) = ProjectRoot
      BY DEF PlanFits
    <2> QED BY <2>1 DEF Dirs
  <1> QED BY <1>1 DEF PlanFits

\* What one task may do without the locks or the hub: work that needs the lock is
\* gone on with and not begun, and a process is started only under the lock.
Proceeds(t, w, x) ==
    /\ w \in WorkState /\ x \in Process
    /\ w.recovered = wk[t].recovered /\ w.left = wk[t].left
    /\ w.left => w.pc = "done"
    /\ w.pc \notin {"idle", "done"} => Selected(t)
    /\ w.pc # "stranded"
    /\ w.pc \in {"idle", "lock"} => wk[t].pc \in {"idle", "lock"}
    /\ hub = "down" => w.pc \in {"idle", "done", "lost"}
    /\ w.pc \in Holding =>
         /\ wk[t].pc \in Holding
         /\ wk[t].pc \notin InThread \/ hub # "cancelling" \/ w.pc \in InThread
    /\ w.pc = "lost" => wk[t].pc = "lost"
    /\ x # "none" => /\ w.pc \in Attended
                     /\ w.pc = "done" => w.left
                     /\ pr[t] # "none" \/ w.pc \in Holding

\* Such a step keeps the invariant.
LEMMA LockStays ==
    ASSUME LockInv, NEW t \in TaskId, NEW w, NEW x, Proceeds(t, w, x),
           wk' = [wk EXCEPT ![t] = w], pr' = [pr EXCEPT ![t] = x],
           UNCHANGED <<plan, lock, hub>>
    PROVE  LockInv' /\ MarksStay
  <1>1. /\ wk'[t] = w /\ pr'[t] = x
        /\ \A u \in TaskId : u # t => wk'[u] = wk[u] /\ pr'[u] = pr[u]
    BY DEF LockInv, ExecTypes
  <1>2. MarksStay
    BY <1>1 DEF Proceeds, MarksStay
  <1>3. \A u : Shared(Dir(u)) => Shared(Dir(u))'
    <2>1. \A d : Shared(d) => Shared(d)'
      BY <1>2, SharingStays
    <2> QED BY <2>1 DEF Dir
  <1>4. PlanFits' /\ ExecTypes'
    BY DEF LockInv, PlanFits, Selected, Dir, ExecTypes, Proceeds
  <1>5. ASSUME NEW u \in TaskId PROVE (PlaceFits(u) /\ LockHeld(u) /\ LiveFits(u))'
    <2>1. PlaceFits(u) /\ LockHeld(u) /\ LiveFits(u)
      BY DEF LockInv
    <2>2. PlaceFits(u)'
      BY <1>1, <2>1 DEF PlaceFits, Proceeds, Selected
    <2>3. LockHeld(u)'
      BY <1>1, <2>1 DEF LockHeld, Proceeds
    <2>4. LiveFits(u)'
      <3>1. CASE u # t
        BY <1>1, <1>3, <2>1, <3>1 DEF LiveFits
      <3>2. CASE u = t
        <4> SUFFICES ASSUME x # "none"
                     PROVE  /\ w.pc \in Attended
                            /\ w.pc = "lost" =>
                                 lock[plan[t].project] = Stale \/ Shared(Dir(t))'
                            /\ w.pc = "done" => w.left
          BY <1>1, <3>2 DEF LiveFits
        <4>1. w.pc = "lost" => pr[t] # "none" /\ wk[t].pc = "lost"
          BY DEF Proceeds, Holding
        <4> QED BY <1>3, <2>1, <3>2, <4>1 DEF LiveFits, Proceeds
      <3> QED BY <3>1, <3>2
    <2> QED BY <2>2, <2>3, <2>4
  <1>6. ASSUME NEW s \in TaskId, NEW u \in TaskId PROVE Apart(s, u)'
    <2>1. Apart(s, u)
      BY DEF LockInv
    <2> SUFFICES ASSUME s # u, Dir(s) = Dir(u), wk'[u].pc \in Holding
                 PROVE  /\ wk'[s].pc \notin Holding
                        /\ pr'[s] # "none" => Shared(Dir(u))'
      BY DEF Apart, Dir
    <2>2. wk[u].pc \in Holding
      BY <1>1 DEF Proceeds
    <2>3. /\ wk[s].pc \notin Holding
          /\ pr[s] # "none" => Shared(Dir(u))
      BY <2>1, <2>2 DEF Apart
    <2>4. wk'[s].pc \notin Holding
      BY <1>1, <2>3 DEF Proceeds
    <2>5. pr'[s] # "none" => pr[s] # "none"
      BY <1>1, <2>4 DEF Proceeds
    <2> QED BY <1>3, <2>3, <2>4, <2>5
  <1>7. OneWriter'
    <2> SUFFICES ASSUME NEW s \in TaskId, NEW u \in TaskId, pr'[s] # "none",
                        pr'[u] # "none", s # u, Dir(s) = Dir(u)
                 PROVE  Shared(Dir(u))'
      BY DEF OneWriter, Dir
    <2>1. Shared(Dir(s)) \/ Shared(Dir(u))
      <3>1. CASE pr[s] # "none" /\ pr[u] # "none"
        BY <3>1 DEF LockInv, OneWriter
      <3>2. CASE pr[s] = "none"
        <4>1. s = t /\ wk[s].pc \in Holding /\ pr[u] # "none"
          BY <1>1, <3>2 DEF Proceeds
        <4>2. Apart(u, s)
          BY DEF LockInv
        <4> QED BY <4>1, <4>2 DEF Apart
      <3>3. CASE pr[u] = "none"
        <4>1. u = t /\ wk[u].pc \in Holding /\ pr[s] # "none"
          BY <1>1, <3>3 DEF Proceeds
        <4>2. Apart(s, u)
          BY DEF LockInv
        <4> QED BY <4>1, <4>2 DEF Apart
      <3> QED BY <3>1, <3>2, <3>3
    <2> QED BY <1>3, <2>1
  <1> QED BY <1>2, <1>4, <1>5, <1>6, <1>7 DEF LockInv

\* The steps of one task under its lock, and on the way to it.
LEMMA LockWork ==
    ASSUME LockInv, NEW t \in TaskId,
           \/ begin(t) \/ lock_timeout(t) \/ clone_or_select(t) \/ clone(t)
           \/ inspect(t) \/ switch(t) \/ git_failed(t) \/ launch(t) \/ prompt_read(t)
           \/ process_ended(t) \/ runtime_timeout(t) \/ kill(t) \/ drain(t) \/ flush(t)
           \/ collect_changed_files(t)
    PROVE  LockInv' /\ MarksStay
  <1>1. /\ wk[t] \in WorkState /\ pr[t] \in Process
        /\ PlaceFits(t) /\ LiveFits(t)
        /\ pr = [pr EXCEPT ![t] = pr[t]]
        /\ Selected(t) <=> plan[t].developer # Refused
        /\ plan[t].developer # KeyError
    BY DEF LockInv, ExecTypes, PlanFits, Selected, Refused, KeyError
  <1>2. ASSUME NEW pc, Goto(t, pc)
        PROVE  wk' = [wk EXCEPT ![t] = Moved(t, pc)]
    <2>1. [wk[t] EXCEPT !.pc = pc] = Moved(t, pc)
      BY <1>1 DEF WorkState, Moved
    <2> QED BY <1>2, <2>1 DEF Goto, LockInv, ExecTypes
  <1>3. ASSUME NEW pc, NEW x, Goto(t, pc), pr' = [pr EXCEPT ![t] = x],
               UNCHANGED <<plan, lock, hub>>,
               Proceeds(t, Moved(t, pc), x)
        PROVE  LockInv' /\ MarksStay
    <2>1. PICK w : w = Moved(t, pc)
      OBVIOUS
    <2>2. wk' = [wk EXCEPT ![t] = w] /\ Proceeds(t, w, x)
      BY <1>2, <1>3, <2>1
    <2> QED BY <1>3, <2>2, LockStays
  <1>4. CASE begin(t)
    <2>1. PICK pc : Goto(t, pc) /\ pc \in {"done", "lock"} /\ (pc = "lock" => Selected(t))
      BY <1>1, <1>4 DEF begin
    <2>2. wk[t].pc = "idle" /\ hub = "up" /\ UNCHANGED <<plan, lock, hub, pr>>
      BY <1>1, <1>4 DEF begin, At, GitFrame, RunFrame
    <2>3. Proceeds(t, Moved(t, pc), pr[t])
      BY <1>1, <2>1, <2>2
         DEF Proceeds, PlaceFits, LiveFits, WorkState, ExPc, Holding, InThread, Moved,
             Attended, Process
    <2> QED BY <1>1, <1>3, <2>1, <2>2, <2>3
  <1>5. CASE lock_timeout(t)
    <2>1. PICK pc : Goto(t, pc) /\ pc = "done"
      BY <1>1, <1>5 DEF lock_timeout
    <2>2. wk[t].pc = "lock" /\ UNCHANGED <<plan, lock, hub, pr>>
      BY <1>1, <1>5 DEF lock_timeout, At, GitFrame, RunFrame
    <2>3. Proceeds(t, Moved(t, pc), pr[t])
      BY <1>1, <2>1, <2>2
         DEF Proceeds, PlaceFits, LiveFits, WorkState, ExPc, Holding, InThread, Moved,
             Attended, Process
    <2> QED BY <1>1, <1>3, <2>1, <2>2, <2>3
  <1>6. CASE clone_or_select(t)
    <2>1. PICK pc : Goto(t, pc) /\ pc \in {"inspect", "clone"}
      BY <1>1, <1>6 DEF clone_or_select
    <2>2. wk[t].pc = "select" /\ UNCHANGED <<plan, lock, hub, pr>>
      BY <1>1, <1>6 DEF clone_or_select, At, GitFrame, RunFrame
    <2>3. Proceeds(t, Moved(t, pc), pr[t])
      BY <1>1, <2>1, <2>2
         DEF Proceeds, PlaceFits, LiveFits, WorkState, ExPc, Holding, InThread, Moved,
             Attended, Process
    <2> QED BY <1>1, <1>3, <2>1, <2>2, <2>3
  <1>7. CASE clone(t)
    <2>1. PICK pc : /\ Goto(t, pc) /\ pc \in {"inspect", "done", "release"}
                    /\ (pc = "release" => hub # "cancelling")
      BY <1>1, <1>7 DEF clone, Leave, Loose
    <2>2. wk[t].pc = "clone" /\ UNCHANGED <<plan, lock, hub, pr>>
      BY <1>1, <1>7 DEF clone, At, GitFrame, RunFrame
    <2>3. Proceeds(t, Moved(t, pc), pr[t])
      BY <1>1, <2>1, <2>2
         DEF Proceeds, PlaceFits, LiveFits, WorkState, ExPc, Holding, InThread, Moved,
             Attended, Process
    <2> QED BY <1>1, <1>3, <2>1, <2>2, <2>3
  <1>8. CASE inspect(t)
    <2>1. PICK pc : /\ Goto(t, pc) /\ pc \in {"switch", "done", "release"}
                    /\ (pc = "release" => hub # "cancelling")
      BY <1>1, <1>8 DEF inspect, Leave, Loose
    <2>2. wk[t].pc = "inspect" /\ UNCHANGED <<plan, lock, hub, pr>>
      BY <1>1, <1>8 DEF inspect, At, GitFrame, RunFrame
    <2>3. Proceeds(t, Moved(t, pc), pr[t])
      BY <1>1, <2>1, <2>2
         DEF Proceeds, PlaceFits, LiveFits, WorkState, ExPc, Holding, InThread, Moved,
             Attended, Process
    <2> QED BY <1>1, <1>3, <2>1, <2>2, <2>3
  <1>9. CASE switch(t)
    <2>1. PICK pc : /\ Goto(t, pc) /\ pc \in {"ready", "done", "release"}
                    /\ (pc # "done" => hub # "cancelling")
      BY <1>1, <1>9 DEF switch, Leave, Loose
    <2>2. wk[t].pc = "switch" /\ UNCHANGED <<plan, lock, hub, pr>>
      BY <1>1, <1>9 DEF switch, At, GitFrame, RunFrame
    <2>3. Proceeds(t, Moved(t, pc), pr[t])
      BY <1>1, <2>1, <2>2
         DEF Proceeds, PlaceFits, LiveFits, WorkState, ExPc, Holding, InThread, Moved,
             Attended, Process
    <2> QED BY <1>1, <1>3, <2>1, <2>2, <2>3
  <1>10. CASE git_failed(t)
    <2>1. PICK pc : /\ Goto(t, pc) /\ pc \in {"done", "release"}
                    /\ (pc = "release" => hub # "cancelling")
      BY <1>1, <1>10 DEF git_failed, Leave, Loose
    <2>2. wk[t].pc \in {"inspect", "switch"} /\ UNCHANGED <<plan, lock, hub, pr>>
      BY <1>1, <1>10 DEF git_failed, At, GitFrame, RunFrame
    <2>3. Proceeds(t, Moved(t, pc), pr[t])
      BY <1>1, <2>1, <2>2
         DEF Proceeds, PlaceFits, LiveFits, WorkState, ExPc, Holding, InThread, Moved,
             Attended, Process
    <2> QED BY <1>1, <1>3, <2>1, <2>2, <2>3
  <1>11. CASE launch(t)
    <2>1. PICK pc, x :
            /\ Goto(t, pc) /\ pr' = [pr EXCEPT ![t] = x]
            /\ ((pc = "prompt" /\ x = "live") \/ (pc \in {"done", "release"} /\ x = pr[t]))
      BY <1>1, <1>11 DEF launch, Leave
    <2>2. wk[t].pc = "ready" /\ UNCHANGED <<plan, lock, hub>>
      BY <1>1, <1>11 DEF launch, At, GitFrame, RunFrame
    <2>3. Proceeds(t, Moved(t, pc), x)
      BY <1>1, <2>1, <2>2
         DEF Proceeds, PlaceFits, LiveFits, WorkState, ExPc, Holding, InThread, Moved,
             Attended, Process
    <2> QED BY <1>1, <1>3, <2>1, <2>2, <2>3
  <1>12. CASE process_ended(t)
    <2>1. PICK pc : Goto(t, pc) /\ pc = "drain"
      BY <1>1, <1>12 DEF process_ended
    <2>2. wk[t].pc = "exec" /\ UNCHANGED <<plan, lock, hub, pr>>
      BY <1>1, <1>12 DEF process_ended, At, GitFrame, RunFrame
    <2>3. Proceeds(t, Moved(t, pc), pr[t])
      BY <1>1, <2>1, <2>2
         DEF Proceeds, PlaceFits, LiveFits, WorkState, ExPc, Holding, InThread, Moved,
             Attended, Process
    <2> QED BY <1>1, <1>3, <2>1, <2>2, <2>3
  <1>13. CASE runtime_timeout(t)
    <2>1. PICK pc, x :
            /\ Goto(t, pc) /\ pr' = [pr EXCEPT ![t] = x]
            /\ pc = "grace" /\ x \in Process
      BY <1>1, <1>13 DEF runtime_timeout, terminate, Dead, Process
    <2>2. wk[t].pc = "exec" /\ UNCHANGED <<plan, lock, hub>>
      BY <1>1, <1>13 DEF runtime_timeout, At, GitFrame, RunFrame
    <2>3. Proceeds(t, Moved(t, pc), x)
      BY <1>1, <2>1, <2>2
         DEF Proceeds, PlaceFits, LiveFits, WorkState, ExPc, Holding, InThread, Moved,
             Attended, Process
    <2> QED BY <1>1, <1>3, <2>1, <2>2, <2>3
  <1>14. CASE kill(t)
    <2>1. PICK pc, x :
            /\ Goto(t, pc) /\ pr' = [pr EXCEPT ![t] = x]
            /\ pc \in {"drain", "flush", "release"} /\ x \in Process
      BY <1>1, <1>14 DEF kill, Dead, At, Process
    <2>2. wk[t].pc \in {"grace", "abort"} /\ UNCHANGED <<plan, lock, hub>>
      BY <1>1, <1>14 DEF kill, At, GitFrame, RunFrame
    <2>3. Proceeds(t, Moved(t, pc), x)
      BY <1>1, <2>1, <2>2
         DEF Proceeds, PlaceFits, LiveFits, WorkState, ExPc, Holding, InThread, Moved,
             Attended, Process
    <2> QED BY <1>1, <1>3, <2>1, <2>2, <2>3
  <1>15. CASE drain(t)
    <2>1. PICK pc : Goto(t, pc) /\ pc = "collect"
      BY <1>1, <1>15 DEF drain
    <2>2. wk[t].pc = "drain" /\ UNCHANGED <<plan, lock, hub, pr>>
      BY <1>1, <1>15 DEF drain, At, GitFrame, RunFrame
    <2>3. Proceeds(t, Moved(t, pc), pr[t])
      BY <1>1, <2>1, <2>2
         DEF Proceeds, PlaceFits, LiveFits, WorkState, ExPc, Holding, InThread, Moved,
             Attended, Process
    <2> QED BY <1>1, <1>3, <2>1, <2>2, <2>3
  <1>16. CASE flush(t)
    <2>1. PICK pc : Goto(t, pc) /\ pc = "release"
      BY <1>1, <1>16 DEF flush
    <2>2. wk[t].pc = "flush" /\ UNCHANGED <<plan, lock, hub, pr>>
      BY <1>1, <1>16 DEF flush, At, GitFrame, RunFrame
    <2>3. Proceeds(t, Moved(t, pc), pr[t])
      BY <1>1, <2>1, <2>2
         DEF Proceeds, PlaceFits, LiveFits, WorkState, ExPc, Holding, InThread, Moved,
             Attended, Process
    <2> QED BY <1>1, <1>3, <2>1, <2>2, <2>3
  <1>17. CASE collect_changed_files(t)
    <2>1. PICK pc : Goto(t, pc) /\ pc = "release"
      BY <1>1, <1>17 DEF collect_changed_files
    <2>2. wk[t].pc = "collect" /\ UNCHANGED <<plan, lock, hub, pr>>
      BY <1>1, <1>17 DEF collect_changed_files, At, GitFrame, RunFrame
    <2>3. Proceeds(t, Moved(t, pc), pr[t])
      BY <1>1, <2>1, <2>2
         DEF Proceeds, PlaceFits, LiveFits, WorkState, ExPc, Holding, InThread, Moved,
             Attended, Process
    <2> QED BY <1>1, <1>3, <2>1, <2>2, <2>3
  <1>18. CASE prompt_read(t)
    <2>1. PICK pc : Goto(t, pc) /\ pc = "exec"
      BY <1>1, <1>18 DEF prompt_read
    <2>2. wk[t].pc = "prompt" /\ UNCHANGED <<plan, lock, hub, pr>>
      BY <1>1, <1>18 DEF prompt_read, At, GitFrame, RunFrame
    <2>3. Proceeds(t, Moved(t, pc), pr[t])
      BY <1>1, <2>1, <2>2
         DEF Proceeds, PlaceFits, LiveFits, WorkState, ExPc, Holding, InThread, Moved,
             Attended, Process
    <2> QED BY <1>1, <1>3, <2>1, <2>2, <2>3
  <1> QED BY <1>4, <1>5, <1>6, <1>7, <1>8, <1>9, <1>10, <1>11, <1>12,
         <1>13, <1>14, <1>15, <1>16, <1>17, <1>18

\* The process of a task, and what a cancel request does to it.
LEMMA LockProcess ==
    ASSUME LockInv, NEW t \in TaskId,
           cancel(t) \/ cancel_kill(t) \/ edit(t) \/ commit(t) \/ process(t)
    PROVE  LockInv' /\ MarksStay
  <1>1. /\ wk[t] \in WorkState /\ pr[t] \in Process
        /\ PlaceFits(t) /\ LiveFits(t)
        /\ pr = [pr EXCEPT ![t] = pr[t]] /\ wk = [wk EXCEPT ![t] = wk[t]]
    BY DEF LockInv, ExecTypes
  <1>2. PICK x : /\ pr' = [pr EXCEPT ![t] = x]
                 /\ x \in Process /\ (x # "none" => pr[t] # "none")
    BY <1>1 DEF cancel, cancel_kill, edit, commit, process, terminate, Dead, Process
  <1>3. UNCHANGED <<plan, lock, hub, wk>>
    BY DEF cancel, cancel_kill, edit, commit, process, CancelFrame, ProcessFrame
  <1>4. Proceeds(t, wk[t], x)
    BY <1>1, <1>2 DEF Proceeds, PlaceFits, LiveFits, WorkState, Holding, Attended
  <1> QED BY <1>1, <1>2, <1>3, <1>4, LockStays

\* acquire takes a lock that nobody has, or that a dead hub left; in the latter
\* case the directory is marked as recovered.
LEMMA LockAcquire ==
    ASSUME LockInv, NEW t \in TaskId, acquire(t)
    PROVE  LockInv' /\ MarksStay
  <1> USE DEF Free, Stale
  <1>1. PICK p : p = plan[t].project
    OBVIOUS
  <1>2. PICK w : w = [pc |-> IF Loose THEN "done" ELSE "select",
                      recovered |-> lock[p] = Stale, left |-> FALSE]
    OBVIOUS
  <1>3. /\ wk[t].pc = "lock" /\ (lock[p] = Free \/ lock[p] = Stale)
        /\ lock' = [lock EXCEPT ![p] = t] /\ wk' = [wk EXCEPT ![t] = w]
        /\ UNCHANGED <<plan, pr, hub>>
    BY <1>1, <1>2 DEF acquire, At
  <1>4. /\ w \in WorkState
        /\ w.pc \in {"done", "select"} /\ (w.pc = "select" <=> hub # "cancelling")
        /\ (w.recovered <=> lock[p] = Stale) /\ ~w.left
    BY <1>2 DEF WorkState, ExPc, Holding, Loose
  <1>5. PlaceFits(t) /\ Selected(t) /\ hub # "down" /\ ~wk[t].recovered /\ ~wk[t].left
        /\ p \in ProjectName
    BY <1>1, <1>3 DEF LockInv, PlaceFits, PlanFits
  <1>6. /\ wk'[t] = w
        /\ \A u \in TaskId : u # t => wk'[u] = wk[u]
        /\ lock'[p] = t
        /\ \A q \in ProjectName : q # p => lock'[q] = lock[q]
    BY <1>3, <1>5 DEF LockInv, ExecTypes
  <1>7. MarksStay
    BY <1>5, <1>6 DEF MarksStay
  <1>8. \A u : Shared(Dir(u)) => Shared(Dir(u))'
    <2>1. \A d : Shared(d) => Shared(d)'
      BY <1>3, <1>7, SharingStays
    <2> QED BY <1>3, <2>1 DEF Dir
  <1>9. PlanFits' /\ ExecTypes'
    BY <1>3, <1>4, <1>5 DEF LockInv, PlanFits, Selected, Dir, ExecTypes
  <1>10. \A u \in TaskId : lock[p] # u
    BY <1>3
  <1>11. ASSUME NEW u \in TaskId, plan[u].project = p, wk[u].pc \in Holding
         PROVE  hub = "cancelling" /\ wk[u].pc \in InThread
    BY <1>10, <1>11 DEF LockInv, LockHeld
  <1>12. ASSUME NEW u \in TaskId, plan[u].project = p, Selected(u), lock[p] = Stale
         PROVE  Shared(Dir(u))'
    <2>1. Dir(u) = Dir(t)
      BY <1>1, <1>5, <1>12 DEF LockInv, PlanFits
    <2> QED BY <1>3, <1>4, <1>6, <1>12, <2>1 DEF Shared, Dir
  <1>13. ASSUME NEW u \in TaskId PROVE (PlaceFits(u) /\ LockHeld(u) /\ LiveFits(u))'
    <2>1. PlaceFits(u) /\ LockHeld(u) /\ LiveFits(u)
      BY DEF LockInv
    <2>2. PlaceFits(u)'
      BY <1>3, <1>4, <1>5, <1>6, <2>1 DEF PlaceFits, Selected
    <2>3. LockHeld(u)'
      <3>1. CASE u = t
        BY <1>1, <1>3, <1>6, <3>1 DEF LockHeld
      <3>2. CASE u # t
        <4>1. wk[u].pc \in Holding => plan[u].project \in ProjectName
          BY <2>1 DEF LockInv, PlaceFits, PlanFits, Holding
        <4> QED BY <1>3, <1>6, <1>11, <2>1, <3>2, <4>1 DEF LockHeld
      <3> QED BY <3>1, <3>2
    <2>4. LiveFits(u)'
      <3>1. CASE u = t
        BY <1>3, <1>5, <2>1, <3>1 DEF LiveFits, Attended
      <3>2. CASE u # t
        <4>1. wk[u].pc = "lost" => Selected(u) /\ plan[u].project \in ProjectName
          BY <2>1 DEF LockInv, PlaceFits, PlanFits
        <4> QED BY <1>3, <1>6, <1>8, <1>12, <2>1, <3>2, <4>1 DEF LiveFits
      <3> QED BY <3>1, <3>2
    <2> QED BY <2>2, <2>3, <2>4
  <1>14. ASSUME NEW s \in TaskId, NEW u \in TaskId PROVE Apart(s, u)'
    <2>1. Apart(s, u)
      BY DEF LockInv
    <2> SUFFICES ASSUME s # u, Dir(s) = Dir(u), wk'[u].pc \in Holding
                 PROVE  /\ wk'[s].pc \notin Holding
                        /\ pr'[s] # "none" => Shared(Dir(u))'
      BY <1>3 DEF Apart, Dir
    <2>2. CASE u = t
      <3>1. hub # "cancelling"
        BY <1>4, <1>6, <2>2 DEF Holding
      <3>2. Selected(s) /\ plan[s].project = p
        BY <1>1, <1>5, <2>2, SameProject DEF LockInv
      <3>3. wk'[s].pc \notin Holding
        BY <1>6, <1>11, <2>2, <3>1, <3>2
      <3>4. ASSUME pr'[s] # "none" PROVE Shared(Dir(u))'
        <4>1. pr[s] # "none" /\ wk[s].pc \notin Holding
          BY <1>3, <1>6, <2>2, <3>3, <3>4
        <4>2. lock[p] = Stale \/ Shared(Dir(s))
          BY <3>2, <4>1 DEF LockInv, LiveFits, Holding, Attended, Shared
        <4>3. Shared(Dir(s))'
          BY <1>8, <1>12, <3>2, <4>2
        <4> QED BY <1>3, <4>3 DEF Shared, Dir
      <3> QED BY <3>3, <3>4
    <2>3. CASE s = t
      <3>1. wk[u].pc \in Holding /\ Selected(u)
        BY <1>6, <2>3 DEF LockInv, PlaceFits, Holding
      <3>2. plan[u].project = p
        BY <1>1, <1>5, <2>3, <3>1 DEF LockInv, PlanFits
      <3>3. wk'[s].pc = "done"
        BY <1>4, <1>6, <1>11, <2>3, <3>1, <3>2
      <3>4. pr'[s] = "none"
        BY <1>3, <2>3 DEF LockInv, LiveFits, Attended
      <3> QED BY <3>3, <3>4 DEF Holding
    <2>4. CASE u # t /\ s # t
      BY <1>3, <1>6, <1>8, <2>1, <2>4 DEF Apart
    <2> QED BY <2>2, <2>3, <2>4
  <1>15. OneWriter'
    BY <1>3, <1>8 DEF LockInv, OneWriter, Dir
  <1> QED BY <1>7, <1>9, <1>13, <1>14, <1>15 DEF LockInv

\* release gives up a lock that the task has.
LEMMA LockRelease ==
    ASSUME LockInv, NEW t \in TaskId, release(t)
    PROVE  LockInv' /\ MarksStay
  <1> USE DEF Free, Stale
  <1>1. PICK p : p = plan[t].project
    OBVIOUS
  <1>2. PICK w : w = [pc |-> "done", recovered |-> wk[t].recovered,
                      left |-> pr[t] # "none"]
    OBVIOUS
  <1>3. /\ wk[t].pc = "release"
        /\ lock' = [lock EXCEPT ![p] = Free] /\ wk' = [wk EXCEPT ![t] = w]
        /\ UNCHANGED <<plan, pr, hub>>
    <2> DEFINE l == pr[t] # "none"
    <2>1. /\ wk[t] \in WorkState /\ t \in DOMAIN wk
          /\ wk' = [wk EXCEPT ![t].pc = "done", ![t].left = l]
      BY DEF release, LockInv, ExecTypes
    <2>2. wk' = [wk EXCEPT ![t] = [[wk[t] EXCEPT !.pc = "done"] EXCEPT !.left = l]]
      BY <2>1
    <2>3. PICK c : c = [pc |-> "done", recovered |-> wk[t].recovered, left |-> wk[t].left]
      OBVIOUS
    <2>4. [wk[t] EXCEPT !.pc = "done"] = c
      BY <2>1, <2>3 DEF WorkState
    <2>5. [c EXCEPT !.left = l] = w
      BY <1>2, <2>3
    <2> QED BY <1>1, <2>2, <2>4, <2>5 DEF release, At
  <1>4. /\ w \in WorkState /\ w.pc = "done" /\ w.recovered = wk[t].recovered
        /\ w.left <=> pr[t] # "none"
    BY <1>2 DEF WorkState, ExPc, LockInv, ExecTypes
  <1>5. Selected(t) /\ p \in ProjectName /\ lock[p] = t /\ ~wk[t].left
    BY <1>1, <1>3 DEF LockInv, PlaceFits, PlanFits, LockHeld, LiveFits, Holding, InThread
  <1>6. /\ wk'[t] = w
        /\ \A u \in TaskId : u # t => wk'[u] = wk[u]
        /\ lock'[p] = Free
        /\ \A q \in ProjectName : q # p => lock'[q] = lock[q]
    BY <1>3, <1>5 DEF LockInv, ExecTypes
  <1>7. MarksStay
    BY <1>4, <1>5, <1>6 DEF MarksStay
  <1>8. \A u : Shared(Dir(u)) => Shared(Dir(u))'
    <2>1. \A d : Shared(d) => Shared(d)'
      BY <1>3, <1>7, SharingStays
    <2> QED BY <1>3, <2>1 DEF Dir
  <1>9. PlanFits' /\ ExecTypes'
    BY <1>3, <1>4, <1>5 DEF LockInv, PlanFits, Selected, Dir, ExecTypes
  <1>10. ASSUME NEW u \in TaskId PROVE (PlaceFits(u) /\ LockHeld(u) /\ LiveFits(u))'
    <2>1. PlaceFits(u) /\ LockHeld(u) /\ LiveFits(u)
      BY DEF LockInv
    <2>2. wk[u].pc \notin {"idle", "done"} => plan[u].project \in ProjectName
      BY <2>1 DEF LockInv, PlaceFits, PlanFits
    <2>3. PlaceFits(u)'
      BY <1>3, <1>4, <1>5, <1>6, <2>1 DEF PlaceFits, Selected
    <2>4. LockHeld(u)'
      BY <1>3, <1>4, <1>5, <1>6, <2>1, <2>2 DEF LockHeld, Holding
    <2>5. LiveFits(u)'
      BY <1>3, <1>4, <1>5, <1>6, <1>8, <2>1, <2>2 DEF LiveFits, Attended
    <2> QED BY <2>3, <2>4, <2>5
  <1>11. ASSUME NEW s \in TaskId, NEW u \in TaskId PROVE Apart(s, u)'
    <2>1. Apart(s, u)
      BY DEF LockInv
    <2> QED BY <1>3, <1>4, <1>6, <1>8, <2>1 DEF Apart, Dir, Holding
  <1>12. OneWriter'
    BY <1>3, <1>8 DEF LockInv, OneWriter, Dir
  <1> QED BY <1>7, <1>9, <1>10, <1>11, <1>12 DEF LockInv

\* Every step of the hub and of the world around it.  shutdown frees the locks of
\* the tasks in threads and of nobody else; a crash marks the locks that are held.
LEMMA LockHub ==
    ASSUME LockInv, \/ stop \/ cancel_tasks \/ exit \/ crash \/ start
                    \/ (\E p \in ProjectName : age(p))
                    \/ (\E d \in Dirs : clone_ends(d) \/ operator_reviews(d))
    PROVE  LockInv' /\ MarksStay
  <1> USE DEF Free, Stale
  <1>1. /\ PlanFits /\ ExecTypes /\ OneWriter
        /\ \A u \in TaskId : PlaceFits(u) /\ LockHeld(u) /\ LiveFits(u)
        /\ \A s, u \in TaskId : Apart(s, u)
    BY DEF LockInv
  <1>2. plan' = plan
    BY DEF stop, cancel_tasks, exit, crash, start, HubFrame, age, clone_ends,
           operator_reviews, OutsideFrame
  <1>3. PlanFits'
    BY <1>1, <1>2 DEF PlanFits, Selected, Dir
  <1>4. \A u \in TaskId : wk[u] \in WorkState /\ pr[u] \in Process
    BY <1>1 DEF ExecTypes
  <1>5. ASSUME UNCHANGED <<lock, wk, pr>>, UNCHANGED hub \/ stop \/ start
        PROVE  LockInv' /\ MarksStay
    <2>1. /\ hub' \in {"up", "stopping", "cancelling", "down"}
          /\ hub' = "down" => hub = "down"
          /\ hub = "cancelling" => hub' = "cancelling"
          /\ hub' # hub => hub' # "down"
      BY <1>1, <1>5 DEF stop, start, ExecTypes
    <2>2. \A u : Shared(Dir(u)) <=> Shared(Dir(u))'
      BY <1>2, <1>5 DEF Shared, Dir
    <2>3. ExecTypes'
      BY <1>1, <1>5, <2>1 DEF ExecTypes
    <2>4. ASSUME NEW u \in TaskId PROVE (PlaceFits(u) /\ LockHeld(u) /\ LiveFits(u))'
      <3>1. PlaceFits(u)'
        BY <1>1, <1>2, <1>5, <2>1 DEF PlaceFits, Selected
      <3>2. LockHeld(u)'
        BY <1>1, <1>2, <1>5, <2>1 DEF LockHeld
      <3>3. LiveFits(u)'
        BY <1>1, <1>2, <1>5, <2>2 DEF LiveFits
      <3> QED BY <3>1, <3>2, <3>3
    <2>5. \A s, u \in TaskId : Apart(s, u)'
      BY <1>1, <1>2, <1>5, <2>2 DEF Apart, Dir
    <2>6. OneWriter'
      BY <1>1, <1>2, <1>5, <2>2 DEF OneWriter, Dir
    <2> QED BY <1>3, <1>5, <2>3, <2>4, <2>5, <2>6 DEF LockInv, MarksStay
  \* What the other three have in common: nothing is begun and no process started.
  <1>6. ASSUME hub' \in {"cancelling", "down"}, wk' \in [TaskId -> WorkState],
               pr' \in [TaskId -> Process],
               lock' \in [ProjectName -> TaskId \cup {Free, Stale}],
               \A u \in TaskId :
                 /\ wk'[u].recovered = wk[u].recovered /\ wk'[u].left = wk[u].left
                 /\ pr'[u] # "none" => pr[u] # "none"
                 /\ wk'[u].pc \in Holding => wk[u].pc \in Holding,
               \A u \in TaskId : (PlaceFits(u) /\ LockHeld(u))',
               \A u \in TaskId :
                 pr'[u] # "none" =>
                   /\ wk'[u].pc \in Attended
                   /\ wk'[u].pc = "lost" =>
                        lock'[plan[u].project] = Stale \/ Shared(Dir(u))
                   /\ wk'[u].pc = "done" => wk[u].left
        PROVE  LockInv' /\ MarksStay
    <2>1. \A u : Shared(Dir(u)) <=> Shared(Dir(u))'
      BY <1>2, <1>6 DEF Shared, Dir
    <2>2. ExecTypes'
      BY <1>6 DEF ExecTypes
    <2>3. \A u \in TaskId : LiveFits(u)'
      BY <1>2, <1>6, <2>1 DEF LiveFits
    <2>4. \A s, u \in TaskId : Apart(s, u)'
      BY <1>1, <1>2, <1>6, <2>1 DEF Apart, Dir
    <2>5. OneWriter'
      BY <1>1, <1>2, <1>6, <2>1 DEF OneWriter, Dir
    <2> QED BY <1>3, <1>6, <2>2, <2>3, <2>4, <2>5 DEF LockInv, MarksStay
  <1>7. CASE cancel_tasks
    <2>1. /\ hub = "stopping" /\ hub' = "cancelling"
          /\ \A t \in TaskId :
               pr'[t] \in IF wk[t].pc \in Executing THEN Dead(t) \cup {pr[t]} ELSE {pr[t]}
          /\ pr' \in [TaskId -> Process]
          /\ lock' = [p \in ProjectName |->
                        IF lock[p] \in TaskId /\ wk[lock[p]].pc \in InThread THEN Free
                        ELSE lock[p]]
      BY <1>7 DEF cancel_tasks, Process
    <2>2. ASSUME NEW u \in TaskId
          PROVE  /\ wk'[u] \in WorkState /\ wk'[u].recovered = wk[u].recovered
                 /\ wk'[u].left = wk[u].left
                 /\ wk'[u].pc = IF wk[u].pc \in Executing THEN "abort"
                                ELSE IF wk[u].pc \in {"ready", "drain", "flush", "collect"}
                                THEN "release" ELSE wk[u].pc
      <3>1. PICK pc : /\ wk'[u] = [wk[u] EXCEPT !.pc = pc]
                      /\ pc = IF wk[u].pc \in Executing THEN "abort"
                              ELSE IF wk[u].pc \in {"ready", "drain", "flush", "collect"}
                              THEN "release" ELSE wk[u].pc
        BY <1>7 DEF cancel_tasks, Executing
      <3> QED BY <1>4, <3>1 DEF WorkState, ExPc, Holding, Executing
    <2>3. wk' \in [TaskId -> WorkState]
      <3>1. wk' = [u \in TaskId |-> wk'[u]]
        BY <1>7 DEF cancel_tasks
      <3> QED BY <2>2, <3>1
    <2>4. lock' \in [ProjectName -> TaskId \cup {Free, Stale}]
      BY <1>1, <2>1 DEF ExecTypes
    <2>5. ASSUME NEW u \in TaskId
          PROVE  /\ pr'[u] # "none" => pr[u] # "none"
                 /\ wk'[u].pc \in Holding => wk[u].pc \in Holding
                 /\ PlaceFits(u)'
      <3>1. pr'[u] # "none" => pr[u] # "none"
        BY <2>1 DEF Dead
      <3>2. wk'[u].pc \in Holding => wk[u].pc \in Holding
        BY <2>2 DEF Holding, Executing
      <3>3. PlaceFits(u)'
        BY <1>1, <1>2, <2>1, <2>2 DEF PlaceFits, Selected, Executing
      <3> QED BY <3>1, <3>2, <3>3
    <2>6. ASSUME NEW u \in TaskId PROVE LockHeld(u)'
      <3> SUFFICES ASSUME wk'[u].pc \in Holding, wk'[u].pc \notin InThread
                   PROVE  lock'[plan[u].project] = u
        BY <1>2, <2>1 DEF LockHeld
      <3>1. wk[u].pc \in Holding /\ wk[u].pc \notin InThread
        BY <2>2 DEF Holding, InThread, Executing
      <3>2. plan[u].project \in ProjectName /\ lock[plan[u].project] = u
        BY <1>1, <3>1 DEF PlaceFits, PlanFits, LockHeld, Holding
      <3> QED BY <2>1, <3>1, <3>2
    <2>7. ASSUME NEW u \in TaskId, pr'[u] # "none"
          PROVE  /\ wk'[u].pc \in Attended
                 /\ wk'[u].pc = "lost" =>
                      lock'[plan[u].project] = Stale \/ Shared(Dir(u))
                 /\ wk'[u].pc = "done" => wk[u].left
      <3>1. LiveFits(u) /\ pr[u] # "none"
        BY <1>1, <2>5, <2>7
      <3>2. wk'[u].pc \in Attended /\ (wk'[u].pc = "done" => wk[u].left)
        BY <2>2, <3>1 DEF LiveFits, Attended, Executing
      <3>3. ASSUME wk'[u].pc = "lost", ~Shared(Dir(u))
            PROVE  lock'[plan[u].project] = Stale
        <4>1. wk[u].pc = "lost"
          BY <2>2, <3>3 DEF Executing
        <4>2. plan[u].project \in ProjectName /\ lock[plan[u].project] = Stale
          BY <1>1, <3>1, <3>3, <4>1 DEF PlaceFits, PlanFits, LiveFits
        <4> QED BY <2>1, <4>2
      <3> QED BY <3>2, <3>3
    <2> QED BY <1>6, <2>1, <2>2, <2>3, <2>4, <2>5, <2>6, <2>7
  <1>8. lock' = Orphaned => lock' \in [ProjectName -> TaskId \cup {Free, Stale}]
    BY DEF Orphaned
  <1>9. CASE exit
    <2>1. /\ hub' = "down" /\ UNCHANGED <<wk, pr>> /\ lock' = Orphaned
          /\ \A u \in TaskId : wk[u].pc \in {"idle", "done"}
      BY <1>9 DEF exit
    <2>2. \A u \in TaskId : pr[u] # "none" => wk[u].pc = "done" /\ wk[u].left
      BY <1>1, <2>1 DEF LiveFits, Attended
    <2>3. wk' \in [TaskId -> WorkState] /\ pr' \in [TaskId -> Process]
      BY <1>1, <2>1 DEF ExecTypes
    <2>4. ASSUME NEW u \in TaskId PROVE (PlaceFits(u) /\ LockHeld(u))'
      BY <1>1, <1>2, <2>1 DEF PlaceFits, LockHeld, Selected, Holding
    <2> QED BY <1>6, <1>8, <2>1, <2>2, <2>3, <2>4 DEF Attended
  <1>10. CASE crash
    <2>1. /\ hub # "down" /\ hub' = "down" /\ lock' = Orphaned
          /\ (UNCHANGED pr \/ pr' = [t \in TaskId |-> "none"])
          /\ wk' = [t \in TaskId |-> IF wk[t].pc \in {"idle", "done"} THEN wk[t]
                                     ELSE [wk[t] EXCEPT !.pc = "lost"]]
      BY <1>10 DEF crash
    <2>2. ASSUME NEW u \in TaskId
          PROVE  /\ wk'[u] \in WorkState /\ wk'[u].recovered = wk[u].recovered
                 /\ wk'[u].left = wk[u].left
                 /\ wk'[u].pc = IF wk[u].pc \in {"idle", "done"} THEN wk[u].pc ELSE "lost"
      BY <1>4, <2>1 DEF WorkState, ExPc
    <2>3. wk' \in [TaskId -> WorkState]
      <3>1. wk' = [u \in TaskId |-> wk'[u]]
        BY <2>1
      <3> QED BY <2>2, <3>1
    <2>4. /\ pr' \in [TaskId -> Process]
          /\ \A u \in TaskId : pr'[u] # "none" => pr[u] # "none"
      BY <1>1, <2>1 DEF ExecTypes, Process
    <2>5. ASSUME NEW u \in TaskId PROVE (PlaceFits(u) /\ LockHeld(u))'
      BY <1>1, <1>2, <2>1, <2>2 DEF PlaceFits, LockHeld, Selected, Holding
    <2>6. ASSUME NEW u \in TaskId, pr'[u] # "none"
          PROVE  /\ wk'[u].pc \in Attended
                 /\ wk'[u].pc = "lost" =>
                      lock'[plan[u].project] = Stale \/ Shared(Dir(u))
                 /\ wk'[u].pc = "done" => wk[u].left
      <3>1. LiveFits(u) /\ pr[u] # "none" /\ PlaceFits(u) /\ LockHeld(u)
        BY <1>1, <2>4, <2>6
      <3>2. /\ wk'[u].pc \in {"lost", "done"} /\ plan[u].project \in ProjectName
            /\ wk'[u].pc = "done" => wk[u].pc = "done" /\ wk[u].left
        BY <1>1, <2>2, <3>1 DEF LiveFits, PlaceFits, PlanFits, Attended
      <3>3. wk'[u].pc = "lost" => lock[plan[u].project] # Free \/ Shared(Dir(u))
        BY <2>2, <3>1 DEF LiveFits, LockHeld, Holding, InThread, Attended
      <3> QED BY <2>1, <3>2, <3>3 DEF Orphaned, Attended
    <2>7. \A u \in TaskId : wk'[u].pc \in Holding => wk[u].pc \in Holding
      BY <2>2 DEF Holding
    <2> QED BY <1>6, <1>8, <2>1, <2>2, <2>3, <2>4, <2>5, <2>6, <2>7
  <1>11. CASE ~cancel_tasks /\ ~exit /\ ~crash
    <2>1. UNCHANGED <<lock, wk, pr>> /\ (UNCHANGED hub \/ stop \/ start)
      BY <1>11 DEF stop, start, age, clone_ends, operator_reviews, OutsideFrame
    <2> QED BY <1>5, <2>1
  <1> QED BY <1>7, <1>9, <1>10, <1>11

\* Every step keeps the locks in order and forgets no recovery.
LEMMA LockNext ==
    ASSUME LockInv, [Next]_vars
    PROVE  /\ LockInv' /\ plan' = plan
           /\ MarksStay
  <1>1. plan' = plan
    BY ZenonT(40) DEF Next, vars, begin, work, acquire, lock_timeout, clone_or_select, clone,
         inspect, switch, git_failed, launch, prompt_read, process_ended, runtime_timeout, kill,
         drain, flush, collect_changed_files, release, cancel, cancel_kill, edit,
         commit, process, stop, cancel_tasks, exit, crash, start, age, clone_ends,
         operator_reviews, GitFrame, RunFrame, CancelFrame, ProcessFrame, HubFrame,
         OutsideFrame
  <1>2. CASE UNCHANGED vars
    <2>1. UNCHANGED <<plan, lock, wk, pr, hub>>
      BY <1>2 DEF vars
    <2> QED BY <2>1 DEF LockInv, PlanFits, ExecTypes, PlaceFits, LockHeld, LiveFits, Apart,
                        OneWriter, Selected, Dir, Shared, MarksStay
  <1>3. ASSUME NEW t \in TaskId, work(t) \/ begin(t)
        PROVE  LockInv' /\ MarksStay
    <2>1. CASE acquire(t)
      BY <2>1, LockAcquire
    <2>2. CASE release(t)
      BY <2>2, LockRelease
    <2>3. CASE ~acquire(t) /\ ~release(t)
      BY <1>3, <2>3, LockWork DEF work
    <2> QED BY <2>1, <2>2, <2>3
  <1>4. ASSUME NEW t \in TaskId,
               cancel(t) \/ cancel_kill(t) \/ edit(t) \/ commit(t) \/ process(t)
        PROVE  LockInv' /\ MarksStay
    BY <1>4, LockProcess
  <1> QED BY <1>1, <1>2, <1>3, <1>4, LockHub DEF Next

-----------------------------------------------------------------------------
(* Working trees.                                                          *)

\* What every step does to the tasks' own part of the state.
Steady ==
    /\ LockInv /\ LockInv' /\ plan' = plan
    /\ MarksStay

\* Under Steady, a directory that is shared stays so.
LEMMA SteadySharing ==
    ASSUME Steady, NEW d, Shared(d)
    PROVE  Shared(d)'
  BY SharingStays DEF Steady

\* A task whose thread, coroutine or process is in a directory is there alone, but
\* where a lock was recovered.
LEMMA AloneThere ==
    ASSUME LockInv, NEW t \in TaskId, wk[t].pc \in Holding \/ pr[t] # "none",
           NEW u \in TaskId, u # t, Dir(u) = Dir(t), ~Shared(Dir(t))
    PROVE  ~OnBranch(u) /\ wk[u].pc # "switch"
  <1>1. Apart(t, u) /\ Apart(u, t) /\ OneWriter
    BY DEF LockInv
  <1>2. wk[u].pc \notin Holding
    BY <1>1 DEF Apart
  <1>3. pr[u] = "none"
    BY <1>1 DEF Apart, OneWriter
  <1> QED BY <1>2, <1>3 DEF OnBranch, Holding

\* A task on its branch, or about to be, has a workspace.
LEMMA WorksInDirs ==
    ASSUME Steady, NEW u \in TaskId, wk'[u].pc = "switch" \/ OnBranch(u)'
    PROVE  Dir(u) \in Dirs
  <1>1. PlaceFits(u)' /\ LiveFits(u)' /\ PlanFits /\ plan' = plan
    BY DEF Steady, LockInv
  <1>2. wk'[u].pc \notin {"idle", "done"} \/ wk'[u].left
    BY <1>1 DEF OnBranch, LiveFits, Attended
  <1>3. Selected(u)
    BY <1>1, <1>2 DEF PlaceFits, Selected
  <1> QED BY <1>1, <1>3 DEF PlanFits

\* A step that leaves the trees and the reports alone, and brings no task to a
\* branch.
LEMMA TreeStays ==
    ASSUME Steady, TreeInv, UNCHANGED <<tree, report>>,
           \A u \in TaskId : OnBranch(u)' => OnBranch(u),
           \A u \in TaskId : wk'[u].pc = "switch" =>
             wk[u].pc = "switch" \/ (tree[Dir(u)].kind = "clone" => tree[Dir(u)].dirt = {})
    PROVE  TreeInv'
  <1>1. \A d : Shared(d) => Shared(d)'
    BY SteadySharing
  <1>2. \A u : Dir(u)' = Dir(u)
    BY DEF Steady, Dir
  <1>3. TreeTypes'
    BY <1>2 DEF TreeInv, TreeTypes
  <1>4. ASSUME NEW u \in TaskId PROVE SwitchFits(u)' /\ WorkFits(u)'
    <2>1. ~Shared(Dir(u))' => ~Shared(Dir(u))
      BY <1>1, <1>2
    <2> QED BY <1>2, <2>1 DEF TreeInv, SwitchFits, WorkFits
  <1>5. BranchPure'
    BY <1>1 DEF TreeInv, BranchPure
  <1>6. ReportIsOwn'
    <2> SUFFICES ASSUME NEW u \in TaskId, ~Shared(Dir(u))',
                        \A s \in TaskId : ~Below(Dir(s), Dir(u))
                 PROVE  report[u] \subseteq {u}
      BY <1>2 DEF ReportIsOwn
    <2> QED BY <1>1, <1>2 DEF TreeInv, ReportIsOwn
  <1> QED BY <1>3, <1>4, <1>5, <1>6 DEF TreeInv

\* Tasks elsewhere are where they were; in the directory the new tree is right.
ElsewhereStays(d) ==
    \A u \in TaskId : Dir(u) # d =>
      /\ OnBranch(u)' => OnBranch(u)
      /\ wk'[u].pc = "switch" => wk[u].pc = "switch"

ThereFits(d, k, h, x, o) ==
    ~Shared(d)' =>
      /\ \A u \in TaskId : Dir(u) = d =>
           /\ OnBranch(u)' => k = "clone" /\ h = u /\ x \subseteq {u}
           /\ wk'[u].pc = "switch" => (k = "clone" => x = {})
      /\ \A b \in DOMAIN o : o[b] \subseteq {b}

\* A step that changes the tree in one directory.
LEMMA TreeChanges ==
    ASSUME Steady, TreeInv, UNCHANGED report, NEW d \in Dirs,
           NEW k, NEW h, NEW x, NEW o,
           tree' = [tree EXCEPT ![d] = [kind |-> k, head |-> h, dirt |-> x, on |-> o]],
           k \in {"cloning", "partial", "clone"} => \E u \in TaskId : Dir(u) = d,
           ElsewhereStays(d), ThereFits(d, k, h, x, o)
    PROVE  TreeInv'
  <1>1. \A e : Shared(e) => Shared(e)'
    BY SteadySharing
  <1>2. \A u : Dir(u)' = Dir(u)
    BY DEF Steady, Dir
  <1>3. /\ tree'[d] = [kind |-> k, head |-> h, dirt |-> x, on |-> o]
        /\ \A e \in Dirs : e # d => tree'[e] = tree[e]
        /\ DOMAIN tree' = Dirs
    BY DEF TreeInv, TreeTypes
  <1>4. TreeTypes'
    <2>1. tree' = [e \in Dirs |-> tree'[e]]
      BY <1>3
    <2>2. \A e \in Dirs : tree'[e] = [kind |-> tree'[e].kind, head |-> tree'[e].head,
                                      dirt |-> tree'[e].dirt, on |-> tree'[e].on]
      <3> TAKE e \in Dirs
      <3>1. CASE e = d
        BY <1>3, <3>1
      <3>2. CASE e # d
        BY <1>3, <3>2 DEF TreeInv, TreeTypes
      <3> QED BY <3>1, <3>2
    <2>3. tree' = [e \in Dirs |-> [kind |-> tree'[e].kind, head |-> tree'[e].head,
                                   dirt |-> tree'[e].dirt, on |-> tree'[e].on]]
      BY <1>3, <2>1, <2>2
    <2>4. \A e \in Dirs : tree'[e].kind \in {"cloning", "partial", "clone"} =>
            \E u \in TaskId : Dir(u) = e
      BY <1>3 DEF TreeInv, TreeTypes
    <2> QED BY <1>2, <2>3, <2>4 DEF TreeInv, TreeTypes
  <1>5. ASSUME NEW u \in TaskId PROVE SwitchFits(u)' /\ WorkFits(u)'
    <2>1. ~Shared(Dir(u))' => ~Shared(Dir(u))
      BY <1>1, <1>2
    <2>2. CASE Dir(u) = d
      <3>1. Shared(Dir(u))' <=> Shared(d)'
        BY <1>2, <2>2 DEF Shared
      <3> QED BY <1>2, <1>3, <2>2, <3>1 DEF SwitchFits, WorkFits, ThereFits
    <2>3. CASE Dir(u) # d
      <3>1. wk'[u].pc = "switch" \/ OnBranch(u)' => Dir(u) \in Dirs
        BY WorksInDirs
      <3>2. wk'[u].pc = "switch" \/ OnBranch(u)' => tree'[Dir(u)] = tree[Dir(u)]
        BY <1>3, <2>3, <3>1
      <3> QED BY <1>2, <2>1, <2>3, <3>2 DEF TreeInv, SwitchFits, WorkFits, ElsewhereStays
    <2> QED BY <2>2, <2>3
  <1>6. BranchPure'
    BY <1>1, <1>3 DEF TreeInv, BranchPure, ThereFits
  <1>7. ReportIsOwn'
    <2> SUFFICES ASSUME NEW u \in TaskId, ~Shared(Dir(u))',
                        \A s \in TaskId : ~Below(Dir(s), Dir(u))
                 PROVE  report[u] \subseteq {u}
      BY <1>2 DEF ReportIsOwn
    <2> QED BY <1>1, <1>2 DEF TreeInv, ReportIsOwn
  <1> QED BY <1>4, <1>5, <1>6, <1>7 DEF TreeInv

\* Goto moves one task.
LEMMA GotoMoves ==
    ASSUME LockInv, NEW t \in TaskId, NEW pc, Goto(t, pc)
    PROVE  wk'[t].pc = pc /\ \A u \in TaskId : u # t => wk'[u] = wk[u]
  <1>1. wk[t] \in WorkState /\ wk' = [wk EXCEPT ![t] = [wk[t] EXCEPT !.pc = pc]]
    BY DEF Goto, LockInv, ExecTypes
  <1> QED BY <1>1 DEF LockInv, ExecTypes, WorkState

\* A step of one task that leaves the trees and the reports alone.
LEMMA TreeOwnStep ==
    ASSUME Steady, TreeInv, UNCHANGED <<tree, report>>, NEW t \in TaskId,
           \A u \in TaskId : u # t => wk'[u] = wk[u] /\ pr'[u] = pr[u],
           OnBranch(t)' => OnBranch(t),
           wk'[t].pc = "switch" =>
             wk[t].pc = "switch" \/ (tree[Dir(t)].kind = "clone" => tree[Dir(t)].dirt = {})
    PROVE  TreeInv'
  <1>1. \A u \in TaskId : OnBranch(u)' => OnBranch(u)
    BY DEF OnBranch
  <1> QED BY <1>1, TreeStays

\* The steps of a task that do not touch its tree.
LEMMA TreeWork ==
    ASSUME Steady, TreeInv, NEW t \in TaskId,
           \/ begin(t) \/ acquire(t) \/ lock_timeout(t) \/ inspect(t) \/ launch(t)
           \/ prompt_read(t) \/ process_ended(t) \/ runtime_timeout(t) \/ kill(t)
           \/ drain(t) \/ flush(t)
           \/ release(t) \/ cancel(t) \/ cancel_kill(t) \/ process(t)
    PROVE  TreeInv'
  <1>1. LockInv /\ wk[t] \in WorkState /\ pr[t] \in Process /\ PlaceFits(t)
    BY DEF Steady, LockInv, ExecTypes
  <1>2. UNCHANGED <<tree, report>>
    BY DEF begin, acquire, lock_timeout, inspect, launch, prompt_read, process_ended,
           runtime_timeout, kill, drain, flush, release, cancel, cancel_kill, process, GitFrame,
           RunFrame, CancelFrame, ProcessFrame
  <1>3. \A u \in TaskId : u # t => pr'[u] = pr[u]
    BY DEF begin, acquire, lock_timeout, inspect, launch, prompt_read, process_ended,
           runtime_timeout, kill, drain, flush, release, cancel, cancel_kill, process, GitFrame,
           RunFrame, CancelFrame, ProcessFrame, terminate, Steady, LockInv, ExecTypes
  <1>4. ASSUME NEW pc, Goto(t, pc), OnBranch(t)' => OnBranch(t),
               pc = "switch" => (tree[Dir(t)].kind = "clone" => tree[Dir(t)].dirt = {})
        PROVE  TreeInv'
    <2>1. wk'[t].pc = pc /\ \A u \in TaskId : u # t => wk'[u] = wk[u]
      BY <1>1, <1>4, GotoMoves
    <2> QED BY <1>2, <1>3, <1>4, <2>1, TreeOwnStep
  <1>5. CASE begin(t)
    <2>1. PICK pc \in {"done", "stranded", "lock"} : Goto(t, pc)
      BY <1>1, <1>5 DEF begin
    <2>2. wk[t].pc = "idle" /\ UNCHANGED pr
      BY <1>1, <1>5 DEF begin, At, GitFrame, RunFrame
    <2>3. wk'[t].pc = pc
      BY <1>1, <2>1, GotoMoves
    <2>4. OnBranch(t)' => OnBranch(t)
      BY <2>1, <2>2, <2>3 DEF OnBranch
    <2> QED BY <1>4, <2>1, <2>4
  <1>6. CASE lock_timeout(t)
    <2>1. PICK pc \in {"done"} : Goto(t, pc)
      BY <1>1, <1>6 DEF lock_timeout
    <2>2. wk[t].pc = "lock" /\ UNCHANGED pr
      BY <1>1, <1>6 DEF lock_timeout, At, GitFrame, RunFrame
    <2>3. wk'[t].pc = pc
      BY <1>1, <2>1, GotoMoves
    <2>4. OnBranch(t)' => OnBranch(t)
      BY <2>1, <2>2, <2>3 DEF OnBranch
    <2> QED BY <1>4, <2>1, <2>4
  <1>7. CASE launch(t)
    <2>1. PICK pc \in {"prompt", "done", "release"} : Goto(t, pc)
      BY <1>1, <1>7 DEF launch, Leave
    <2>2. wk[t].pc = "ready" /\ pr'[t] \in {"live", pr[t]}
      BY <1>1, <1>7
         DEF launch, At, GitFrame, RunFrame, terminate, Dead, LockInv, ExecTypes
    <2>3. wk'[t].pc = pc
      BY <1>1, <2>1, GotoMoves
    <2>4. OnBranch(t)' => OnBranch(t)
      BY <2>1, <2>2, <2>3 DEF OnBranch
    <2> QED BY <1>4, <2>1, <2>4
  <1>8. CASE process_ended(t)
    <2>1. PICK pc \in {"drain"} : Goto(t, pc)
      BY <1>1, <1>8 DEF process_ended
    <2>2. wk[t].pc = "exec" /\ UNCHANGED pr
      BY <1>1, <1>8 DEF process_ended, At, GitFrame, RunFrame
    <2>3. wk'[t].pc = pc
      BY <1>1, <2>1, GotoMoves
    <2>4. OnBranch(t)' => OnBranch(t)
      BY <2>1, <2>2, <2>3 DEF OnBranch
    <2> QED BY <1>4, <2>1, <2>4
  <1>9. CASE runtime_timeout(t)
    <2>1. PICK pc \in {"grace"} : Goto(t, pc)
      BY <1>1, <1>9 DEF runtime_timeout
    <2>2. wk[t].pc = "exec"
      BY <1>1, <1>9 DEF runtime_timeout, At, GitFrame, RunFrame, LockInv, ExecTypes
    <2>3. wk'[t].pc = pc
      BY <1>1, <2>1, GotoMoves
    <2>4. OnBranch(t)' => OnBranch(t)
      BY <2>1, <2>2, <2>3 DEF OnBranch
    <2> QED BY <1>4, <2>1, <2>4
  <1>10. CASE kill(t)
    <2>1. PICK pc \in {"drain", "flush", "release"} : Goto(t, pc)
      BY <1>1, <1>10 DEF kill
    <2>2. wk[t].pc \in {"grace", "abort"}
      BY <1>1, <1>10 DEF kill, At, GitFrame, RunFrame, LockInv, ExecTypes
    <2>3. wk'[t].pc = pc
      BY <1>1, <2>1, GotoMoves
    <2>4. OnBranch(t)' => OnBranch(t)
      BY <2>1, <2>2, <2>3 DEF OnBranch
    <2> QED BY <1>4, <2>1, <2>4
  <1>11. CASE drain(t)
    <2>1. PICK pc \in {"collect"} : Goto(t, pc)
      BY <1>1, <1>11 DEF drain
    <2>2. wk[t].pc = "drain" /\ UNCHANGED pr
      BY <1>1, <1>11 DEF drain, At, GitFrame, RunFrame
    <2>3. wk'[t].pc = pc
      BY <1>1, <2>1, GotoMoves
    <2>4. OnBranch(t)' => OnBranch(t)
      BY <2>1, <2>2, <2>3 DEF OnBranch
    <2> QED BY <1>4, <2>1, <2>4
  <1>12. CASE flush(t)
    <2>1. PICK pc \in {"release"} : Goto(t, pc)
      BY <1>1, <1>12 DEF flush
    <2>2. wk[t].pc = "flush" /\ UNCHANGED pr
      BY <1>1, <1>12 DEF flush, At, GitFrame, RunFrame
    <2>3. wk'[t].pc = pc
      BY <1>1, <2>1, GotoMoves
    <2>4. OnBranch(t)' => OnBranch(t)
      BY <2>1, <2>2, <2>3 DEF OnBranch
    <2> QED BY <1>4, <2>1, <2>4
  <1>13. CASE release(t)
    <2>1. /\ UNCHANGED pr /\ wk'[t].pc = "done"
          /\ \A u \in TaskId : u # t => wk'[u] = wk[u]
      BY <1>1, <1>13 DEF release, LockInv, ExecTypes, WorkState
    <2>2. OnBranch(t)' => OnBranch(t)
      BY <2>1 DEF OnBranch
    <2> QED BY <1>2, <1>3, <2>1, <2>2, TreeOwnStep
  <1>14. CASE acquire(t)
    <2>1. /\ UNCHANGED pr /\ wk'[t].pc \in {"done", "select"}
          /\ \A u \in TaskId : u # t => wk'[u] = wk[u]
      BY <1>1, <1>14 DEF acquire, LockInv, ExecTypes
    <2>2. OnBranch(t)' => OnBranch(t)
      BY <2>1 DEF OnBranch
    <2> QED BY <1>2, <1>3, <2>1, <2>2, TreeOwnStep
  <1>15. CASE inspect(t)
    <2>1. PICK pc \in {"switch", "done", "release"} :
            /\ Goto(t, pc)
            /\ pc = "switch" => tree[Dir(t)].kind # "clone" \/ status(Dir(t)) = {}
      BY <1>15 DEF inspect, Leave
    <2>2. pc = "switch" => (tree[Dir(t)].kind = "clone" => tree[Dir(t)].dirt = {})
      BY <2>1 DEF status
    <2>3. wk'[t].pc = pc /\ UNCHANGED pr
      BY <1>1, <1>15, <2>1, GotoMoves DEF inspect, GitFrame
    <2>4. OnBranch(t)' => OnBranch(t)
      BY <2>1, <2>3 DEF OnBranch
    <2> QED BY <1>4, <2>1, <2>2, <2>4
  <1>16. CASE cancel(t) \/ cancel_kill(t) \/ process(t)
    <2>1. UNCHANGED wk /\ (pr'[t] # "none" => pr[t] # "none")
      BY <1>1, <1>16
         DEF cancel, cancel_kill, process, CancelFrame, ProcessFrame, terminate, Dead,
             LockInv, ExecTypes
    <2>2. OnBranch(t)' => OnBranch(t)
      BY <2>1 DEF OnBranch
    <2> QED BY <1>2, <1>3, <2>1, <2>2, TreeOwnStep
  <1>17. CASE prompt_read(t)
    <2>1. PICK pc \in {"exec"} : Goto(t, pc)
      BY <1>1, <1>17 DEF prompt_read
    <2>2. wk[t].pc = "prompt" /\ UNCHANGED pr
      BY <1>1, <1>17 DEF prompt_read, At, GitFrame, RunFrame
    <2>3. wk'[t].pc = pc
      BY <1>1, <2>1, GotoMoves
    <2>4. OnBranch(t)' => OnBranch(t)
      BY <2>1, <2>2, <2>3 DEF OnBranch
    <2> QED BY <1>4, <2>1, <2>4
  <1> QED BY <1>5, <1>6, <1>7, <1>8, <1>9, <1>10, <1>11, <1>12, <1>13, <1>14, <1>15, <1>16,
         <1>17

\* A tree without branches.
LEMMA EmptyOn == \E e, y : e = <<>> /\ y = {} /\ DOMAIN e = {}
  <1>1. DOMAIN <<>> = {}
    OBVIOUS
  <1> QED BY <1>1, Zenon

\* An empty directory, with another kind.
LEMMA NewTree ==
    ASSUME NEW k
    PROVE  [NoTree EXCEPT !.kind = k] =
             [kind |-> k, head |-> Nobody, dirt |-> {}, on |-> <<>>]
  <1>1. PICK e, x : e = <<>> /\ x = {}
    OBVIOUS
  <1>2. NoTree = [kind |-> "absent", head |-> Nobody, dirt |-> x, on |-> e]
    BY <1>1, Zenon DEF NoTree
  <1>3. [NoTree EXCEPT !.kind = k] = [kind |-> k, head |-> Nobody, dirt |-> x, on |-> e]
    BY <1>2
  <1> QED BY <1>1, <1>3, Zenon

\* A tree is a record of four fields.
LEMMA TreeRecord ==
    ASSUME TreeInv, NEW d \in Dirs
    PROVE  \E k, h, x, o : tree[d] = [kind |-> k, head |-> h, dirt |-> x, on |-> o]
  <1>1. tree[d] = [kind |-> tree[d].kind, head |-> tree[d].head,
                   dirt |-> tree[d].dirt, on |-> tree[d].on]
    BY DEF TreeInv, TreeTypes
  <1> QED BY <1>1, Zenon

\* What is known of the tree of a task that works, or whose process does.
LEMMA OwnTree ==
    ASSUME LockInv, TreeInv, NEW t \in TaskId, wk[t].pc \in Holding \/ pr[t] # "none"
    PROVE  /\ Dir(t) \in Dirs
           /\ tree = [tree EXCEPT ![Dir(t)] = tree[Dir(t)]]
           /\ tree[Dir(t)] = [kind |-> tree[Dir(t)].kind, head |-> tree[Dir(t)].head,
                              dirt |-> tree[Dir(t)].dirt, on |-> tree[Dir(t)].on]
  <1>1. Dir(t) \in Dirs
    BY DEF LockInv, PlanFits, PlaceFits, LiveFits, Holding, Attended
  <1> QED BY <1>1 DEF TreeInv, TreeTypes

\* A step of one task that changes the task's tree, which it has for itself.
LEMMA TreeOwnChange ==
    ASSUME Steady, TreeInv, UNCHANGED report, NEW t \in TaskId,
           wk[t].pc \in Holding \/ pr[t] # "none",
           \A u \in TaskId : u # t => wk'[u] = wk[u] /\ pr'[u] = pr[u],
           NEW k, NEW h, NEW x, NEW o,
           tree' = [tree EXCEPT ![Dir(t)] = [kind |-> k, head |-> h, dirt |-> x, on |-> o]],
           ~Shared(Dir(t)) =>
             /\ OnBranch(t)' => k = "clone" /\ h = t /\ x \subseteq {t}
             /\ wk'[t].pc = "switch" => (k = "clone" => x = {})
             /\ \A b \in DOMAIN o : o[b] \subseteq {b}
    PROVE  TreeInv'
  <1>1. PICK d \in Dirs : d = Dir(t)
    BY OwnTree DEF Steady
  <1>2. \A u \in TaskId : u # t => (OnBranch(u)' <=> OnBranch(u))
    BY DEF OnBranch
  <1>3. ASSUME ~Shared(d)', NEW u \in TaskId, u # t, Dir(u) = d
        PROVE  ~OnBranch(u)' /\ wk'[u].pc # "switch"
    <2>1. ~Shared(Dir(t))
      BY <1>1, <1>3, SteadySharing
    <2>2. ~OnBranch(u) /\ wk[u].pc # "switch"
      BY <1>1, <1>3, <2>1, AloneThere DEF Steady
    <2> QED BY <1>2, <1>3, <2>2
  <1>4. ~Shared(d)' => ~Shared(Dir(t))
    BY <1>1, SteadySharing
  <1>5. ThereFits(d, k, h, x, o)
    BY <1>3, <1>4 DEF ThereFits
  <1>6. ElsewhereStays(d)
    BY <1>1, <1>2 DEF ElsewhereStays
  <1>7. \E u \in TaskId : Dir(u) = d
    BY <1>1
  <1>8. tree' = [tree EXCEPT ![d] = [kind |-> k, head |-> h, dirt |-> x, on |-> o]]
    BY <1>1
  <1> QED BY <1>5, <1>6, <1>7, <1>8, TreeChanges

\* clone_or_select: a tree that is there is left alone; one that is not is begun,
\* and the directories made on the way are no clone.
LEMMA TreeSelect ==
    ASSUME Steady, TreeInv, NEW t \in TaskId, clone_or_select(t)
    PROVE  TreeInv'
  <1>1. LockInv /\ wk[t].pc = "select" /\ wk[t].pc \in Holding /\ UNCHANGED <<pr, report>>
    BY DEF Steady, clone_or_select, At, GitFrame, Holding
  <1>2. PICK pc \in {"inspect", "clone"} : Goto(t, pc)
    BY DEF clone_or_select
  <1>3. wk'[t].pc = pc /\ \A u \in TaskId : u # t => wk'[u] = wk[u] /\ pr'[u] = pr[u]
    BY <1>1, <1>2, GotoMoves
  <1>4. \A u \in TaskId : (OnBranch(u)' => OnBranch(u)) /\
                          (wk'[u].pc = "switch" => wk[u].pc = "switch" /\ u # t)
    BY <1>1, <1>2, <1>3 DEF OnBranch
  <1>5. CASE UNCHANGED tree
    BY <1>1, <1>3, <1>4, <1>5, TreeOwnStep
  <1>6. CASE ~UNCHANGED tree
    <2>1. PICK c : c = [kind |-> "cloning", head |-> Nobody, dirt |-> {}, on |-> <<>>]
      OBVIOUS
    <2>2. PICK a : a = [kind |-> "other", head |-> Nobody, dirt |-> {}, on |-> <<>>]
      OBVIOUS
    <2>3. /\ tree[Dir(t)].kind = "absent"
          /\ tree' = [d \in Dirs |-> CASE d = Dir(t) -> c
                                       [] Below(Dir(t), d) /\ tree[d] = NoTree -> a
                                       [] OTHER -> tree[d]]
      <3>1. [NoTree EXCEPT !.kind = "cloning"] = c /\ Other = a
        BY <2>1, <2>2, NewTree DEF Other
      <3> QED BY <1>6, <3>1 DEF clone_or_select
    <2>4. Dir(t) \in Dirs
      BY <1>1, OwnTree
    <2>5. ASSUME NEW d \in Dirs
          PROVE  \/ tree'[d] = tree[d] /\ d # Dir(t)
                 \/ tree'[d] = c /\ d = Dir(t)
                 \/ tree'[d] = a /\ tree[d].kind = "absent"
      BY <2>3 DEF NoTree
    <2>6. \A e : Shared(e) => Shared(e)'
      BY SteadySharing
    <2>7. \A u : Dir(u)' = Dir(u)
      BY DEF Steady, Dir
    <2>8. TreeTypes'
      <3>1. \A d \in Dirs : tree'[d] = [kind |-> tree'[d].kind, head |-> tree'[d].head,
                                        dirt |-> tree'[d].dirt, on |-> tree'[d].on]
        <4> TAKE d \in Dirs
        <4>1. tree[d] = [kind |-> tree[d].kind, head |-> tree[d].head,
                         dirt |-> tree[d].dirt, on |-> tree[d].on]
          BY DEF TreeInv, TreeTypes
        <4>2. CASE tree'[d] = tree[d]
          BY <4>1, <4>2
        <4>3. CASE tree'[d] = c
          BY <2>1, <4>3
        <4>4. CASE tree'[d] = a
          BY <2>2, <4>4
        <4> QED BY <2>5, <4>2, <4>3, <4>4
      <3>2. tree' = [d \in Dirs |-> tree'[d]]
        BY <2>3
      <3>3. tree' = [d \in Dirs |-> [kind |-> tree'[d].kind, head |-> tree'[d].head,
                                     dirt |-> tree'[d].dirt, on |-> tree'[d].on]]
        BY <3>1, <3>2
      <3>4. \A d \in Dirs : tree'[d].kind \in {"cloning", "partial", "clone"} =>
              \E u \in TaskId : Dir(u) = d
        BY <2>1, <2>2, <2>5 DEF TreeInv, TreeTypes
      <3>5. report' = [u \in TaskId |-> report'[u]]
        BY <1>1 DEF TreeInv, TreeTypes
      <3> QED BY <2>7, <3>3, <3>4, <3>5 DEF TreeTypes
    <2>9. ASSUME NEW u \in TaskId PROVE SwitchFits(u)' /\ WorkFits(u)'
      <3>1. ~Shared(Dir(u))' => ~Shared(Dir(u))
        BY <2>6, <2>7
      <3>2. wk'[u].pc = "switch" \/ OnBranch(u)' => Dir(u) \in Dirs
        BY WorksInDirs
      <3>3. SwitchFits(u)'
        <4> SUFFICES ASSUME wk'[u].pc = "switch", ~Shared(Dir(u))',
                            tree'[Dir(u)].kind = "clone"
                     PROVE  tree'[Dir(u)].dirt = {}
          BY <2>7 DEF SwitchFits
        <4>1. wk[u].pc = "switch" /\ tree'[Dir(u)] = tree[Dir(u)]
          BY <1>4, <2>1, <2>2, <2>5, <3>2
        <4> QED BY <3>1, <4>1 DEF TreeInv, SwitchFits
      <3>4. WorkFits(u)'
        <4> SUFFICES ASSUME OnBranch(u)', ~Shared(Dir(u))'
                     PROVE  /\ tree'[Dir(u)].kind = "clone" /\ tree'[Dir(u)].head = u
                            /\ tree'[Dir(u)].dirt \subseteq {u}
          BY <2>7 DEF WorkFits
        <4>1. /\ tree[Dir(u)].kind = "clone" /\ tree[Dir(u)].head = u
              /\ tree[Dir(u)].dirt \subseteq {u}
          BY <1>4, <3>1 DEF TreeInv, WorkFits
        <4>2. tree'[Dir(u)] = tree[Dir(u)]
          BY <2>3, <2>5, <3>2, <4>1
        <4> QED BY <4>1, <4>2
      <3> QED BY <3>3, <3>4
    <2>10. BranchPure'
      <3>1. DOMAIN c.on = {} /\ DOMAIN a.on = {}
        BY <2>1, <2>2
      <3> QED BY <2>5, <2>6, <3>1 DEF TreeInv, BranchPure
    <2>11. ReportIsOwn'
      <3> SUFFICES ASSUME NEW u \in TaskId, ~Shared(Dir(u))',
                          \A s \in TaskId : ~Below(Dir(s), Dir(u))
                   PROVE  report[u] \subseteq {u}
        BY <1>1, <2>7 DEF ReportIsOwn
      <3> QED BY <2>6, <2>7 DEF TreeInv, ReportIsOwn
    <2> QED BY <2>8, <2>9, <2>10, <2>11 DEF TreeInv
  <1> QED BY <1>5, <1>6

\* clone: whatever git leaves, no task is on a branch of it.
LEMMA TreeClone ==
    ASSUME Steady, TreeInv, NEW t \in TaskId, clone(t)
    PROVE  TreeInv'
  <1>1. /\ LockInv /\ wk[t].pc = "clone" /\ wk[t].pc \in Holding
        /\ UNCHANGED <<pr, report>> /\ pr[t] = "none"
    BY DEF Steady, clone, At, GitFrame, Holding, LockInv, LiveFits, Attended
  <1>2. PICK pc \in {"inspect", "done", "release"} : Goto(t, pc)
    BY DEF clone, Leave
  <1>3. wk'[t].pc = pc /\ \A u \in TaskId : u # t => wk'[u] = wk[u] /\ pr'[u] = pr[u]
    BY <1>1, <1>2, GotoMoves
  <1>4. ~OnBranch(t)' /\ wk'[t].pc # "switch"
    BY <1>1, <1>2, <1>3 DEF OnBranch
  <1>5. PICK d \in Dirs : d = Dir(t)
    BY <1>1, OwnTree
  <1>6. PICK k, h, x, o :
          /\ tree' = [tree EXCEPT ![d] = [kind |-> k, head |-> h, dirt |-> x, on |-> o]]
          /\ o = <<>> \/ o = tree[d].on
    <2>1. CASE tree' = [tree EXCEPT ![d] = Clone]
      <3>1. PICK x, o : x = {} /\ o = <<>>
        OBVIOUS
      <3>2. Clone = [kind |-> "clone", head |-> Nobody, dirt |-> x, on |-> o]
        BY <3>1, NewTree, Zenon DEF Clone
      <3> QED BY <2>1, <3>1, <3>2
    <2>2. CASE tree' = [tree EXCEPT ![d] = NoTree]
      BY <2>2 DEF NoTree
    <2>3. CASE tree' = [tree EXCEPT ![d].kind = "partial"]
      <3>1. [tree[d] EXCEPT !.kind = "partial"] =
              [kind |-> "partial", head |-> tree[d].head, dirt |-> tree[d].dirt,
               on |-> tree[d].on]
        <4>1. PICK k, h, x, o : tree[d] = [kind |-> k, head |-> h, dirt |-> x, on |-> o]
          BY TreeRecord
        <4> QED BY <4>1
      <3> QED BY <2>3, <3>1
    <2> QED BY <1>5, <2>1, <2>2, <2>3 DEF clone
  <1>7. ~Shared(d) => \A b \in DOMAIN o : o[b] \subseteq {b}
    <2>1. DOMAIN <<>> = {}
      OBVIOUS
    <2> QED BY <1>6, <2>1 DEF TreeInv, BranchPure
  <1>8. tree' = [tree EXCEPT ![Dir(t)] = [kind |-> k, head |-> h, dirt |-> x, on |-> o]]
    BY <1>5, <1>6
  <1> QED BY <1>1, <1>3, <1>4, <1>5, <1>7, <1>8, TreeOwnChange

\* A switch adds an empty branch and keeps everything else.
LEMMA SwitchedTree ==
    ASSUME TreeInv, NEW d \in Dirs, NEW t
    PROVE  \E o : /\ Switched(t, tree[d]) = [kind |-> tree[d].kind, head |-> t,
                                             dirt |-> tree[d].dirt, on |-> o]
                  /\ \A b \in DOMAIN o :
                       o[b] = {} \/ (b \in DOMAIN tree[d].on /\ o[b] = tree[d].on[b])
  <1>1. PICK k, h, x, p : tree[d] = [kind |-> k, head |-> h, dirt |-> x, on |-> p]
    BY TreeRecord
  <1>2. PICK o : o = [b \in DOMAIN p \cup {t} |-> IF b \in DOMAIN p THEN p[b] ELSE {}]
    OBVIOUS
  <1>3. PICK c : c = [kind |-> k, head |-> t, dirt |-> x, on |-> p]
    OBVIOUS
  <1>4. tree[d].kind = k /\ tree[d].dirt = x /\ tree[d].on = p
    BY <1>1
  <1>5. [tree[d] EXCEPT !.head = t] = c
    BY <1>1, <1>3
  <1>6. Switched(t, tree[d]) = [[tree[d] EXCEPT !.head = t] EXCEPT !.on = o]
    BY <1>2, <1>4 DEF Switched
  <1>7. [c EXCEPT !.on = o] = [kind |-> k, head |-> t, dirt |-> x, on |-> o]
    BY <1>3
  <1>8. \A b \in DOMAIN o : o[b] = {} \/ (b \in DOMAIN p /\ o[b] = p[b])
    BY <1>2
  <1>9. Switched(t, tree[d]) = [kind |-> k, head |-> t, dirt |-> x, on |-> o]
    BY <1>5, <1>6, <1>7
  <1> QED BY <1>4, <1>8, <1>9, Zenon

\* switch: the branch is made in a tree that is clean, from the remote's branch.
LEMMA TreeSwitch ==
    ASSUME Steady, TreeInv, NEW t \in TaskId, switch(t)
    PROVE  TreeInv'
  <1>1. /\ LockInv /\ wk[t].pc = "switch" /\ wk[t].pc \in Holding
        /\ UNCHANGED <<pr, report>> /\ pr[t] = "none"
    BY DEF Steady, switch, At, GitFrame, Holding, LockInv, LiveFits, Attended
  <1>2. PICK d \in Dirs : d = Dir(t)
    BY <1>1, OwnTree
  <1>3. CASE t \in DOMAIN tree[d].on \/ ~task_base_ref(d)
    <2>1. PICK pc \in {"done", "release"} : Goto(t, pc)
      BY <1>2, <1>3 DEF switch, Leave
    <2>2. wk'[t].pc = pc /\ \A u \in TaskId : u # t => wk'[u] = wk[u] /\ pr'[u] = pr[u]
      BY <1>1, <2>1, GotoMoves
    <2>3. ~OnBranch(t)' /\ wk'[t].pc # "switch"
      BY <1>1, <2>1, <2>2 DEF OnBranch
    <2>4. UNCHANGED tree
      BY <1>2, <1>3 DEF switch
    <2> QED BY <1>1, <2>2, <2>3, <2>4, TreeOwnStep
  <1>4. CASE ~(t \in DOMAIN tree[d].on \/ ~task_base_ref(d))
    <2>1. PICK o : /\ Switched(t, tree[d]) = [kind |-> tree[d].kind, head |-> t,
                                              dirt |-> tree[d].dirt, on |-> o]
                   /\ \A b \in DOMAIN o :
                        o[b] = {} \/ (b \in DOMAIN tree[d].on /\ o[b] = tree[d].on[b])
      BY SwitchedTree
    <2>2. PICK pc \in {"done", "ready"} : Goto(t, pc)
      BY <1>2, <1>4 DEF switch
    <2>3. wk'[t].pc = pc /\ \A u \in TaskId : u # t => wk'[u] = wk[u] /\ pr'[u] = pr[u]
      BY <1>1, <2>2, GotoMoves
    <2>4. tree' = [tree EXCEPT ![d] = Switched(t, tree[d])]
      BY <1>2, <1>4 DEF switch
    <2>5. tree' = [tree EXCEPT ![d] = [kind |-> tree[d].kind, head |-> t,
                                       dirt |-> tree[d].dirt, on |-> o]]
      BY <2>1, <2>4
    <2>6. tree[d].kind = "clone" /\ (~Shared(d) => tree[d].dirt = {})
      BY <1>1, <1>2, <1>4 DEF TreeInv, SwitchFits, task_base_ref
    <2>7. ~Shared(d) => \A b \in DOMAIN o : o[b] \subseteq {b}
      BY <2>1 DEF TreeInv, BranchPure
    <2>8. tree' = [tree EXCEPT ![Dir(t)] = [kind |-> tree[d].kind, head |-> t,
                                            dirt |-> tree[d].dirt, on |-> o]]
      BY <1>2, <2>5
    <2>9. wk'[t].pc # "switch"
      BY <2>2, <2>3
    <2>10. PICK k, x : k = tree[d].kind /\ x = tree[d].dirt
      OBVIOUS
    <2>11. /\ tree' = [tree EXCEPT ![Dir(t)] = [kind |-> k, head |-> t, dirt |-> x, on |-> o]]
           /\ k = "clone" /\ (~Shared(d) => x = {})
      BY <2>6, <2>8, <2>10
    <2> QED BY <1>1, <1>2, <2>3, <2>7, <2>9, <2>11, TreeOwnChange
  <1> QED BY <1>3, <1>4

\* git_failed: a switch that stopped half way leaves a tree that is not clean, and
\* nobody on a branch.
LEMMA TreeGitFailed ==
    ASSUME Steady, TreeInv, NEW t \in TaskId, git_failed(t)
    PROVE  TreeInv'
  <1>1. /\ LockInv /\ wk[t].pc \in {"inspect", "switch"} /\ wk[t].pc \in Holding
        /\ UNCHANGED <<pr, report>> /\ pr[t] = "none"
    BY DEF Steady, git_failed, GitFrame, Holding, LockInv, LiveFits, Attended
  <1>2. PICK pc \in {"done", "release"} : Goto(t, pc)
    BY DEF git_failed, Leave
  <1>3. wk'[t].pc = pc /\ \A u \in TaskId : u # t => wk'[u] = wk[u] /\ pr'[u] = pr[u]
    BY <1>1, <1>2, GotoMoves
  <1>4. ~OnBranch(t)' /\ wk'[t].pc # "switch"
    BY <1>1, <1>2, <1>3 DEF OnBranch
  <1>5. CASE UNCHANGED tree
    BY <1>1, <1>3, <1>4, <1>5, TreeOwnStep
  <1>6. CASE ~UNCHANGED tree
    <2>1. PICK k, h, x, o : /\ k = tree[Dir(t)].kind /\ h = tree[Dir(t)].head
                            /\ x = tree[Dir(t)].dirt \cup {Nobody} /\ o = tree[Dir(t)].on
      OBVIOUS
    <2>2. [tree[Dir(t)] EXCEPT !.dirt = x] = [kind |-> k, head |-> h, dirt |-> x, on |-> o]
      <3>1. PICK y : tree[Dir(t)] = [kind |-> k, head |-> h, dirt |-> y, on |-> o]
        BY <1>1, <2>1, OwnTree
      <3> QED BY <3>1
    <2>3. tree' = [tree EXCEPT ![Dir(t)] = [tree[Dir(t)] EXCEPT !.dirt = x]]
      BY <1>6, <2>1 DEF git_failed
    <2>4. tree' = [tree EXCEPT ![Dir(t)] = [kind |-> k, head |-> h, dirt |-> x, on |-> o]]
      BY <2>2, <2>3
    <2>5. ~Shared(Dir(t)) => \A b \in DOMAIN o : o[b] \subseteq {b}
      BY <1>1, <2>1, OwnTree DEF TreeInv, BranchPure
    <2> QED BY <1>1, <1>3, <1>4, <2>4, <2>5, TreeOwnChange
  <1> QED BY <1>5, <1>6

\* edit and commit: the process works on its own branch.
LEMMA TreeEdit ==
    ASSUME Steady, TreeInv, NEW t \in TaskId, edit(t) \/ commit(t)
    PROVE  TreeInv'
  <1>1. /\ LockInv /\ pr[t] # "none" /\ UNCHANGED <<wk, pr, report>>
        /\ OnBranch(t) /\ wk[t].pc # "switch"
    BY DEF Steady, edit, commit, ProcessFrame, LockInv, LiveFits, OnBranch, Attended
  <1>2. PICK d \in Dirs : d = Dir(t)
    BY <1>1, OwnTree
  <1>3. PICK k, h, x, o : /\ k = tree[d].kind /\ h = tree[d].head
                          /\ x = tree[d].dirt /\ o = tree[d].on
                          /\ tree[d] = [kind |-> k, head |-> h, dirt |-> x, on |-> o]
    <2>1. PICK k, h, x, o : tree[d] = [kind |-> k, head |-> h, dirt |-> x, on |-> o]
      BY TreeRecord
    <2>2. /\ k = tree[d].kind /\ h = tree[d].head
          /\ x = tree[d].dirt /\ o = tree[d].on
      BY <2>1
    <2> QED BY <2>1, <2>2
  <1>4. ~Shared(d) => /\ k = "clone" /\ h = t /\ x \subseteq {t}
                         /\ \A b \in DOMAIN o : o[b] \subseteq {b}
    BY <1>1, <1>2, <1>3 DEF TreeInv, WorkFits, BranchPure
  <1>5. CASE edit(t)
    <2>1. PICK y : y = x \cup {t}
      OBVIOUS
    <2>2. tree' = [tree EXCEPT ![d] = [tree[d] EXCEPT !.dirt = y]]
      BY <1>2, <1>3, <1>5, <2>1 DEF edit
    <2>3. [tree[d] EXCEPT !.dirt = y] = [kind |-> k, head |-> h, dirt |-> y, on |-> o]
      BY <1>3
    <2>4. tree' = [tree EXCEPT ![Dir(t)] = [kind |-> k, head |-> h, dirt |-> y, on |-> o]]
      BY <1>2, <2>2, <2>3
    <2>5. ~Shared(d) => y \subseteq {t}
      BY <1>4, <2>1
    <2> QED BY <1>1, <1>2, <1>4, <2>4, <2>5, TreeOwnChange
  <1>6. CASE commit(t)
    <2>1. PICK q, y : q = [o EXCEPT ![h] = @ \cup x] /\ y = {}
      OBVIOUS
    <2>2. tree' = [tree EXCEPT ![d].on[h] = @ \cup x, ![d].dirt = {}]
      BY <1>2, <1>3, <1>6 DEF commit
    <2>3. PICK c : c = [kind |-> k, head |-> h, dirt |-> x, on |-> q]
      OBVIOUS
    <2>4. [tree[d] EXCEPT !.on = q] = c
      BY <1>3, <2>3
    <2>5. tree' = [[tree EXCEPT ![d] = c] EXCEPT ![d].dirt = {}]
      BY <1>3, <2>1, <2>2, <2>4
    <2>6. [tree EXCEPT ![d] = c][d] = c /\ DOMAIN tree = Dirs
      BY DEF TreeInv, TreeTypes
    <2>7. [c EXCEPT !.dirt = y] = [kind |-> k, head |-> h, dirt |-> y, on |-> q]
      BY <2>3
    <2>8. tree' = [[tree EXCEPT ![d] = c] EXCEPT ![d] = [c EXCEPT !.dirt = y]]
      BY <2>1, <2>5, <2>6
    <2>9. tree' = [tree EXCEPT ![d] = [kind |-> k, head |-> h, dirt |-> y, on |-> q]]
      BY <2>6, <2>7, <2>8
    <2>10. ~Shared(d) => \A b \in DOMAIN q : q[b] \subseteq {b}
      BY <1>4, <2>1
    <2>11. /\ tree' = [tree EXCEPT ![Dir(t)] = [kind |-> k, head |-> h, dirt |-> y, on |-> q]]
           /\ y \subseteq {t}
      BY <1>2, <2>1, <2>9
    <2> QED BY <1>1, <1>2, <1>4, <2>10, <2>11, TreeOwnChange
  <1> QED BY <1>5, <1>6

\* collect_changed_files: the tree has the task's work in it, and no repository
\* that is not some task's.
LEMMA TreeCollect ==
    ASSUME Steady, TreeInv, NEW t \in TaskId, collect_changed_files(t)
    PROVE  TreeInv'
  <1>1. /\ LockInv /\ wk[t].pc = "collect" /\ OnBranch(t)
        /\ UNCHANGED <<tree, pr>> /\ plan' = plan
    BY DEF Steady, collect_changed_files, At, OnBranch
  <1>2. wk'[t].pc = "release" /\ \A u \in TaskId : u # t => wk'[u] = wk[u]
    BY <1>1, GotoMoves DEF collect_changed_files
  <1>3. \A u \in TaskId : OnBranch(u)' => OnBranch(u)
    BY <1>1, <1>2 DEF OnBranch
  <1>4. \A e : Shared(e) => Shared(e)'
    BY SteadySharing
  <1>5. \A u : Dir(u)' = Dir(u)
    BY <1>1 DEF Dir
  <1>6. report' = [u \in TaskId |-> report'[u]] /\
        \A u \in TaskId : report'[u] = report[u] \/ (u = t /\ report'[u] = status(Dir(t)))
    BY DEF collect_changed_files, TreeInv, TreeTypes
  <1>7. TreeTypes'
    <2>1. tree' = tree
      BY <1>1
    <2> QED BY <1>5, <1>6, <2>1 DEF TreeInv, TreeTypes
  <1>8. ASSUME NEW u \in TaskId PROVE SwitchFits(u)' /\ WorkFits(u)'
    <2>1. ~Shared(Dir(u))' => ~Shared(Dir(u))
      BY <1>4, <1>5
    <2>2. wk'[u].pc = "switch" => wk[u].pc = "switch"
      BY <1>2
    <2> QED BY <1>1, <1>3, <1>5, <2>1, <2>2 DEF TreeInv, SwitchFits, WorkFits
  <1>9. BranchPure'
    BY <1>1, <1>4 DEF TreeInv, BranchPure
  <1>10. ReportIsOwn'
    <2> SUFFICES ASSUME NEW u \in TaskId, ~Shared(Dir(u))',
                        \A s \in TaskId : ~Below(Dir(s), Dir(u))
                 PROVE  report'[u] \subseteq {u}
      BY <1>5 DEF ReportIsOwn
    <2>1. ~Shared(Dir(u))
      BY <1>4, <1>5
    <2>2. report[u] \subseteq {u}
      BY <2>1 DEF TreeInv, ReportIsOwn
    <2>3. ASSUME u = t PROVE status(Dir(t)) \subseteq {t}
      <3>1. Nested(Dir(t)) = {}
        BY <2>3 DEF TreeInv, TreeTypes, Nested
      <3>2. tree[Dir(t)].dirt \subseteq {t}
        BY <1>1, <2>1, <2>3 DEF TreeInv, WorkFits
      <3> QED BY <3>1, <3>2 DEF status
    <2> QED BY <1>6, <2>2, <2>3
  <1> QED BY <1>7, <1>8, <1>9, <1>10 DEF TreeInv

\* What a crash leaves of a tree: the tree, a clone cut short, or what a task that
\* was about to switch has made of it.
LEMMA GitLeftCases ==
    ASSUME TreeInv, NEW d \in Dirs, NEW x \in GitLeft(d)
    PROVE  /\ x = [kind |-> x.kind, head |-> x.head, dirt |-> x.dirt, on |-> x.on]
           /\ x.kind = tree[d].kind \/ tree[d].kind = "cloning"
           /\ \A b \in DOMAIN x.on :
                x.on[b] = {} \/ (b \in DOMAIN tree[d].on /\ x.on[b] = tree[d].on[b])
           /\ \/ x = tree[d] \/ tree[d].kind = "cloning"
              \/ \E t \in TaskId : wk[t].pc = "switch" /\ Dir(t) = d
  <1>1. PICK k, h, y, o : tree[d] = [kind |-> k, head |-> h, dirt |-> y, on |-> o]
    BY TreeRecord
  <1>2. tree[d].kind = k /\ tree[d].dirt = y /\ tree[d].on = o
    BY <1>1
  <1>3. CASE x = tree[d]
    BY <1>1, <1>3
  <1>4. CASE tree[d].kind = "cloning" /\ x = [tree[d] EXCEPT !.kind = "partial"]
    <2>1. x = [kind |-> "partial", head |-> h, dirt |-> y, on |-> o]
      BY <1>1, <1>4
    <2> QED BY <1>2, <1>4, <2>1
  <1>5. CASE \E t \in TaskId : wk[t].pc = "switch" /\ Dir(t) = d /\ x = Switched(t, tree[d])
    <2>1. PICK t \in TaskId : wk[t].pc = "switch" /\ Dir(t) = d /\ x = Switched(t, tree[d])
      BY <1>5
    <2>2. PICK q : /\ Switched(t, tree[d]) = [kind |-> tree[d].kind, head |-> t,
                                              dirt |-> tree[d].dirt, on |-> q]
                   /\ \A b \in DOMAIN q :
                        q[b] = {} \/ (b \in DOMAIN tree[d].on /\ q[b] = tree[d].on[b])
      BY SwitchedTree
    <2>3. x = [kind |-> k, head |-> t, dirt |-> y, on |-> q]
      BY <1>2, <2>1, <2>2
    <2> QED BY <1>2, <2>1, <2>2, <2>3
  <1>6. CASE \E t \in TaskId : /\ wk[t].pc = "switch" /\ Dir(t) = d
                               /\ x = [tree[d] EXCEPT !.dirt = @ \cup {Nobody}]
    <2>1. PICK z : z = y \cup {Nobody}
      OBVIOUS
    <2>2. x = [tree[d] EXCEPT !.dirt = z]
      BY <1>2, <1>6, <2>1
    <2>3. x = [kind |-> k, head |-> h, dirt |-> z, on |-> o]
      BY <1>1, <2>2
    <2> QED BY <1>2, <1>6, <2>3
  <1> QED BY <1>3, <1>4, <1>5, <1>6 DEF GitLeft, At

\* The hub's own steps: a crash cuts clones short and may leave a switch half done.
LEMMA TreeHub ==
    ASSUME Steady, TreeInv,
           stop \/ cancel_tasks \/ exit \/ crash \/ start \/ (\E p \in ProjectName : age(p))
    PROVE  TreeInv'
  <1>1. UNCHANGED report
    BY DEF stop, cancel_tasks, exit, crash, start, age, HubFrame, OutsideFrame
  <1>2. CASE stop \/ exit \/ start \/ (\E p \in ProjectName : age(p))
    <2>1. UNCHANGED <<tree, wk, pr>>
      BY <1>2 DEF stop, exit, start, age, OutsideFrame
    <2>2. \A u \in TaskId : OnBranch(u)' => OnBranch(u)
      BY <2>1 DEF OnBranch
    <2> QED BY <1>1, <2>1, <2>2, TreeStays
  <1>3. CASE cancel_tasks
    <2>1. ASSUME NEW u \in TaskId
          PROVE  /\ OnBranch(u)' => OnBranch(u)
                 /\ wk'[u].pc = "switch" => wk[u].pc = "switch"
      <3>1. wk[u] \in WorkState
        BY DEF Steady, LockInv, ExecTypes
      <3>2. PICK pc : /\ wk'[u] = [wk[u] EXCEPT !.pc = pc]
                      /\ pc = IF wk[u].pc \in Executing THEN "abort"
                              ELSE IF wk[u].pc \in {"ready", "drain", "flush", "collect"}
                              THEN "release" ELSE wk[u].pc
        BY <1>3 DEF cancel_tasks, Executing
      <3>3. wk'[u].pc = pc
        BY <3>1, <3>2 DEF WorkState
      <3>4. pr'[u] \in IF wk[u].pc \in Executing THEN Dead(u) \cup {pr[u]} ELSE {pr[u]}
        BY <1>3 DEF cancel_tasks
      <3>5. pr'[u] # "none" => pr[u] # "none"
        BY <3>4 DEF Dead
      <3> QED BY <3>2, <3>3, <3>5 DEF OnBranch, Executing
    <2>2. UNCHANGED tree
      BY <1>3 DEF cancel_tasks
    <2> QED BY <1>1, <2>1, <2>2, TreeStays
  <1>4. CASE crash
    <2>1. ASSUME NEW u \in TaskId
          PROVE  wk'[u].pc \in {"idle", "done", "lost"}
      <3>1. wk[u] \in WorkState
        BY DEF Steady, LockInv, ExecTypes
      <3>2. wk'[u] = IF wk[u].pc \in {"idle", "done"} THEN wk[u]
                     ELSE [wk[u] EXCEPT !.pc = "lost"]
        BY <1>4 DEF crash
      <3> QED BY <3>1, <3>2 DEF WorkState
    <2>2. /\ tree' = [d \in Dirs |-> tree'[d]]
          /\ \A d \in Dirs : tree'[d] \in GitLeft(d)
          /\ \A u \in TaskId : pr'[u] # "none" => pr[u] # "none"
      BY <1>4 DEF crash
    <2>3. ASSUME NEW d \in Dirs
          PROVE  /\ tree'[d] = [kind |-> tree'[d].kind, head |-> tree'[d].head,
                                dirt |-> tree'[d].dirt, on |-> tree'[d].on]
                 /\ tree'[d].kind = tree[d].kind \/ tree[d].kind = "cloning"
                 /\ \A b \in DOMAIN tree'[d].on :
                      \/ tree'[d].on[b] = {}
                      \/ b \in DOMAIN tree[d].on /\ tree'[d].on[b] = tree[d].on[b]
                 /\ \/ tree'[d] = tree[d] \/ tree[d].kind = "cloning"
                    \/ \E t \in TaskId : wk[t].pc = "switch" /\ Dir(t) = d
      BY <2>2, GitLeftCases
    <2>4. \A e : Shared(e) => Shared(e)'
      BY SteadySharing
    <2>5. \A u : Dir(u)' = Dir(u)
      BY DEF Steady, Dir
    <2>6. TreeTypes'
      <3>1. tree' = [d \in Dirs |-> [kind |-> tree'[d].kind, head |-> tree'[d].head,
                                     dirt |-> tree'[d].dirt, on |-> tree'[d].on]]
        BY <2>2, <2>3
      <3>2. \A d \in Dirs : tree'[d].kind \in {"cloning", "partial", "clone"} =>
              \E t \in TaskId : Dir(t) = d
        BY <2>3 DEF TreeInv, TreeTypes
      <3>3. report' = [t \in TaskId |-> report'[t]]
        BY <1>1 DEF TreeInv, TreeTypes
      <3> QED BY <2>5, <3>1, <3>2, <3>3 DEF TreeTypes
    <2>7. ASSUME NEW u \in TaskId PROVE WorkFits(u)'
      <3> SUFFICES ASSUME OnBranch(u)', ~Shared(Dir(u))'
                   PROVE  /\ tree'[Dir(u)].kind = "clone" /\ tree'[Dir(u)].head = u
                          /\ tree'[Dir(u)].dirt \subseteq {u}
        BY <2>5 DEF WorkFits
      <3>1. pr[u] # "none" /\ OnBranch(u) /\ ~Shared(Dir(u)) /\ Dir(u) \in Dirs
        BY <2>1, <2>2, <2>4, <2>5, WorksInDirs DEF OnBranch
      <3>2. /\ tree[Dir(u)].kind = "clone" /\ tree[Dir(u)].head = u
            /\ tree[Dir(u)].dirt \subseteq {u}
        BY <3>1 DEF TreeInv, WorkFits
      <3>3. ASSUME NEW t \in TaskId, wk[t].pc = "switch", Dir(t) = Dir(u) PROVE FALSE
        <4>1. wk[u].pc # "switch" /\ LockInv
          BY <3>1 DEF Steady, LockInv, LiveFits, Attended
        <4> QED BY <3>1, <3>3, <4>1, AloneThere
      <3>4. tree'[Dir(u)] = tree[Dir(u)]
        BY <2>3, <3>1, <3>2, <3>3
      <3> QED BY <3>2, <3>4
    <2>8. \A u \in TaskId : SwitchFits(u)'
      BY <2>1 DEF SwitchFits
    <2>9. BranchPure'
      BY <2>3, <2>4 DEF TreeInv, BranchPure
    <2>10. ReportIsOwn'
      <3> SUFFICES ASSUME NEW u \in TaskId, ~Shared(Dir(u))',
                          \A s \in TaskId : ~Below(Dir(s), Dir(u))
                   PROVE  report[u] \subseteq {u}
        BY <1>1, <2>5 DEF ReportIsOwn
      <3> QED BY <2>4, <2>5 DEF TreeInv, ReportIsOwn
    <2> QED BY <2>6, <2>7, <2>8, <2>9, <2>10 DEF TreeInv
  <1> QED BY <1>2, <1>3, <1>4

\* What is done to a directory from outside: git clone ends there without a hub,
\* or the operator tidies up; neither touches a tree that a task is about to
\* branch from or has branched.
LEMMA TreeOutside ==
    ASSUME Steady, TreeInv, NEW d \in Dirs, clone_ends(d) \/ operator_reviews(d)
    PROVE  TreeInv'
  <1>1. UNCHANGED <<report, wk, pr>>
    BY DEF clone_ends, operator_reviews, OutsideFrame
  <1>2. \A u \in TaskId : OnBranch(u)' <=> OnBranch(u)
    BY <1>1 DEF OnBranch
  <1>3. ElsewhereStays(d)
    BY <1>1, <1>2 DEF ElsewhereStays
  <1>4. ~Shared(d)' => ~Shared(d)
    BY SteadySharing
  <1>5. PICK e, y : e = <<>> /\ y = {} /\ DOMAIN e = {}
    BY EmptyOn
  <1>6. /\ Clone = [kind |-> "clone", head |-> Nobody, dirt |-> y, on |-> e]
        /\ NoTree = [kind |-> "absent", head |-> Nobody, dirt |-> y, on |-> e]
    BY <1>5, NewTree, Zenon DEF Clone, NoTree
  <1>7. ASSUME tree[d].kind # "clone", NEW u \in TaskId, Dir(u) = d, ~Shared(d)
        PROVE  ~OnBranch(u)
    BY <1>7 DEF TreeInv, WorkFits
  <1>8. CASE clone_ends(d)
    <2>1. /\ tree[d].kind = "cloning"
          /\ tree' \in {[tree EXCEPT ![d] = Clone], [tree EXCEPT ![d] = NoTree]}
      BY <1>8 DEF clone_ends
    <2>2. \E u \in TaskId : Dir(u) = d
      BY <2>1 DEF TreeInv, TreeTypes
    <2>3. PICK k \in {"clone", "absent"} :
            tree' = [tree EXCEPT ![d] = [kind |-> k, head |-> Nobody, dirt |-> y, on |-> e]]
      BY <1>6, <2>1
    <2>4. ThereFits(d, k, Nobody, y, e)
      BY <1>2, <1>4, <1>5, <1>7, <2>1 DEF ThereFits
    <2> QED BY <1>1, <1>3, <2>2, <2>3, <2>4, TreeChanges
  <1>9. CASE operator_reviews(d)
    <2>1. \A u \in TaskId : Dir(u) = d => wk[u].pc # "switch"
      BY <1>9 DEF operator_reviews
    <2>2. CASE tree' = [tree EXCEPT ![d].dirt = {}]
      <3>1. PICK k, h, x, o : /\ k = tree[d].kind /\ h = tree[d].head
                              /\ o = tree[d].on
                              /\ tree[d] = [kind |-> k, head |-> h, dirt |-> x, on |-> o]
        <4>1. PICK k, h, x, o : tree[d] = [kind |-> k, head |-> h, dirt |-> x, on |-> o]
          BY TreeRecord
        <4>2. k = tree[d].kind /\ h = tree[d].head /\ o = tree[d].on
          BY <4>1
        <4> QED BY <4>1, <4>2
      <3>2. [tree[d] EXCEPT !.dirt = y] = [kind |-> k, head |-> h, dirt |-> y, on |-> o]
        BY <3>1
      <3>3. tree' = [tree EXCEPT ![d] = [tree[d] EXCEPT !.dirt = y]]
        BY <1>5, <2>2
      <3>4. tree' = [tree EXCEPT ![d] = [kind |-> k, head |-> h, dirt |-> y, on |-> o]]
        BY <3>2, <3>3
      <3>5. ThereFits(d, k, h, y, o)
        BY <1>1, <1>2, <1>4, <1>5, <2>1, <3>1 DEF ThereFits, TreeInv, WorkFits, BranchPure
      <3>6. k \in {"cloning", "partial", "clone"} => \E u \in TaskId : Dir(u) = d
        BY <3>1 DEF TreeInv, TreeTypes
      <3> QED BY <1>1, <1>3, <3>4, <3>5, <3>6, TreeChanges
    <2>3. CASE tree' # [tree EXCEPT ![d].dirt = {}]
      <3>1. tree[d].kind \in {"partial", "other"} /\ tree' = [tree EXCEPT ![d] = NoTree]
        BY <1>9, <2>3 DEF operator_reviews
      <3>2. PICK k : k = "absent"
        OBVIOUS
      <3>3. tree' = [tree EXCEPT ![d] = [kind |-> k, head |-> Nobody, dirt |-> y, on |-> e]]
        BY <1>6, <3>1, <3>2
      <3>4. ThereFits(d, k, Nobody, y, e)
        BY <1>1, <1>2, <1>4, <1>5, <1>7, <2>1, <3>1 DEF ThereFits
      <3> QED BY <1>1, <1>3, <3>2, <3>3, <3>4, TreeChanges
    <2> QED BY <2>2, <2>3
  <1> QED BY <1>8, <1>9

\* Every step keeps locks and trees in order.
LEMMA ExecutionNext ==
    ASSUME ExecutionInv, [Next]_vars
    PROVE  ExecutionInv'
  <1>1. Steady /\ TreeInv
    BY LockNext DEF ExecutionInv, Steady
  <1>2. CASE UNCHANGED vars
    <2>1. UNCHANGED <<tree, report, wk, pr>>
      BY <1>2 DEF vars
    <2>2. \A u \in TaskId : OnBranch(u)' => OnBranch(u)
      BY <2>1 DEF OnBranch
    <2> QED BY <1>1, <2>1, <2>2, TreeStays DEF ExecutionInv, Steady
  <1>3. ASSUME NEW t \in TaskId,
               \/ begin(t) \/ work(t) \/ cancel(t) \/ cancel_kill(t)
               \/ edit(t) \/ commit(t) \/ process(t)
        PROVE  TreeInv'
    <2>1. CASE clone_or_select(t)
      BY <1>1, <2>1, TreeSelect
    <2>2. CASE clone(t)
      BY <1>1, <2>2, TreeClone
    <2>3. CASE switch(t)
      BY <1>1, <2>3, TreeSwitch
    <2>4. CASE git_failed(t)
      BY <1>1, <2>4, TreeGitFailed
    <2>5. CASE edit(t) \/ commit(t)
      BY <1>1, <2>5, TreeEdit
    <2>6. CASE collect_changed_files(t)
      BY <1>1, <2>6, TreeCollect
    <2>7. CASE \/ begin(t) \/ acquire(t) \/ lock_timeout(t) \/ inspect(t) \/ launch(t)
               \/ prompt_read(t) \/ process_ended(t) \/ runtime_timeout(t) \/ kill(t)
               \/ drain(t) \/ flush(t)
               \/ release(t) \/ cancel(t) \/ cancel_kill(t) \/ process(t)
      BY <1>1, <2>7, TreeWork
    <2> QED BY <1>3, <2>1, <2>2, <2>3, <2>4, <2>5, <2>6, <2>7 DEF work
  <1>4. CASE stop \/ cancel_tasks \/ exit \/ crash \/ start \/ (\E p \in ProjectName : age(p))
    BY <1>1, <1>4, TreeHub DEF ExecutionInv, Steady
  <1>5. ASSUME NEW d \in Dirs, clone_ends(d) \/ operator_reviews(d)
        PROVE  TreeInv'
    BY <1>1, <1>5, TreeOutside
  <1>6. Next => TreeInv' \/ ExecutionInv'
    BY <1>3, <1>4, <1>5 DEF Next
  <1> QED BY <1>1, <1>2, <1>6 DEF ExecutionInv, Steady

\* It holds when the hub starts for the first time.
LEMMA ExecutionInit == Init => ExecutionInv
  <1> SUFFICES ASSUME Init PROVE ExecutionInv
    OBVIOUS
  <1>1. PlanFits
    BY PlansFit DEF Init
  <1>2. \A t \in TaskId : wk[t].pc = "idle" /\ ~wk[t].recovered /\ ~wk[t].left
                          /\ pr[t] = "none"
    BY DEF Init, Idle
  <1>3. ExecTypes
    BY DEF Init, Idle, ExecTypes, WorkState, ExPc, Free, Process
  <1>4. LockInv
    BY <1>1, <1>2, <1>3
       DEF Init, LockInv, PlaceFits, LockHeld, LiveFits, Apart, OneWriter, Holding
  <1>5. ASSUME NEW d \in Dirs
        PROVE  /\ tree[d] = [kind |-> tree[d].kind, head |-> tree[d].head,
                             dirt |-> tree[d].dirt, on |-> tree[d].on]
               /\ tree[d].kind \in {"cloning", "partial", "clone"} => tree[d] # NoTree
               /\ \A b \in DOMAIN tree[d].on : tree[d].on[b] \subseteq {b}
    <2>1. tree[d] \in {NoTree, Clone, Other} \cup {Used(t) : t \in Restored}
      BY DEF Init
    <2>2. PICK y, e : y = {} /\ e = <<>> /\ DOMAIN e = {}
      BY EmptyOn
    <2>3. /\ NoTree = [kind |-> "absent", head |-> Nobody, dirt |-> y, on |-> e]
          /\ Clone = [kind |-> "clone", head |-> Nobody, dirt |-> y, on |-> e]
          /\ Other = [kind |-> "other", head |-> Nobody, dirt |-> y, on |-> e]
      BY <2>2, NewTree, Zenon DEF NoTree, Clone, Other
    <2>4. CASE tree[d] \in {NoTree, Clone, Other}
      BY <2>2, <2>3, <2>4
    <2>5. CASE tree[d] \notin {NoTree, Clone, Other}
      <3>1. PICK t \in Restored : tree[d] = Used(t)
        BY <2>1, <2>5
      <3>2. PICK o : o = [u \in {t} |-> {}]
        OBVIOUS
      <3>3. Used(t) = [Clone EXCEPT !.on = o]
        BY <3>2 DEF Used
      <3>4. tree[d] = [kind |-> "clone", head |-> Nobody, dirt |-> y, on |-> o]
        BY <2>3, <3>1, <3>3
      <3>5. NoTree.kind = "absent"
        BY <2>3
      <3> QED BY <3>2, <3>4, <3>5
    <2> QED BY <2>4, <2>5
  <1>6. TreeTypes
    <2>1. tree = [d \in Dirs |-> tree[d]]
      BY DEF Init
    <2>2. tree = [d \in Dirs |-> [kind |-> tree[d].kind, head |-> tree[d].head,
                                  dirt |-> tree[d].dirt, on |-> tree[d].on]]
      BY <1>5, <2>1
    <2>3. report = [t \in TaskId |-> report[t]]
      BY DEF Init
    <2> QED BY <1>5, <2>2, <2>3 DEF TreeTypes, Init
  <1>7. \A t \in TaskId : SwitchFits(t) /\ WorkFits(t)
    BY <1>2 DEF SwitchFits, WorkFits, OnBranch
  <1>8. BranchPure
    BY <1>5 DEF BranchPure
  <1>9. ReportIsOwn
    BY DEF Init, ReportIsOwn
  <1> QED BY <1>4, <1>6, <1>7, <1>8, <1>9 DEF ExecutionInv, TreeInv

\* The inductive invariant holds throughout.
LEMMA ExecutionAlways == Spec => []ExecutionInv
  BY ExecutionInit, ExecutionNext, PTL DEF Spec

-----------------------------------------------------------------------------
(* Theorems.                                                               *)

\* Processes of two tasks write in one working tree only where a lock was recovered
\* from a hub that died, or where processes outlived the task that started them: for
\* any number of tasks, projects, crashes and stops, whatever cancelled threads and
\* ignored SIGTERMs leave behind (open_task_workspace, _is_stale, _terminate,
\* validate_relationships).
THEOREM ExecutionOneWriter == Spec => []OneWriter
  <1>1. ExecutionInv => OneWriter
    BY DEF ExecutionInv, LockInv
  <1> QED BY <1>1, ExecutionAlways, PTL

\* No task's branch gets another task's work, whatever failed, was cut short or
\* cancelled in the tree before, and although any process of the agent may go on
\* writing until it ends (create_task_branch, inspect, _task_base_ref): only a lock
\* recovered from a dead hub, or a process that outlived its task, can bring it there.
THEOREM ExecutionBranchPure == Spec => []BranchPure
  <1>1. ExecutionInv => BranchPure
    BY DEF ExecutionInv, TreeInv
  <1> QED BY <1>1, ExecutionAlways, PTL

\* The result of a task names no work but its own, unless workspaces are nested, a
\* lock was recovered from a dead hub or a process outlived its task
\* (_collect_changed_files, _terminate).
THEOREM ExecutionReportIsOwn == Spec => []ReportIsOwn
  <1>1. ExecutionInv => ReportIsOwn
    BY DEF ExecutionInv, TreeInv
  <1> QED BY <1>1, ExecutionAlways, PTL

\* For every bundle that ConfigBundle accepts and every request, select_developer
\* picks the agent that the agents' own entries give, and no task is stranded by a
\* KeyError (select_developer, validate_relationships).
THEOREM ExecutionSelectionIsSound == Spec => []SelectionIsSound
  <1>1. ExecutionInv => SelectionIsSound
    BY DEF ExecutionInv, LockInv, PlanFits, PlaceFits, SelectionIsSound, At
  <1> QED BY <1>1, ExecutionAlways, PTL
=============================================================================
