--------------------------- MODULE OrchestratorProofs ---------------------------
(***************************************************************************)
(* Proofs about Orchestrator, for any number of tasks, workers, cancel     *)
(* requests, failing calls, crashes and shutdowns.                         *)
(***************************************************************************)
EXTENDS Orchestrator, FiniteSetTheorems, TLAPS

-----------------------------------------------------------------------------
(* The inductive invariant.                                                *)

NoRun(t) == \A r \in DOMAIN run : run[r].task # t

NoSuccess(t) == \A r \in DOMAIN run : run[r].task = t => run[r].status # "succeeded"

OpenRun(r) == r \in DOMAIN run /\ run[r].status \in RunActive

\* Where a coroutine with state c stands: before a run of its task exists, with
\* its run open, and on its way out after an exception.
Leaving(c, S) == c.pc = "release" /\ c.next \in S

Planned(c) == c.pc \in {"assign", "lock", "branch", "run", "block"} \/ Leaving(c, {"block"})

RunPc == {"strun", "exec", "register", "await", "dereg", "finrun"}

Started(c) == c.pc \in {"mkrun", "check", "finish"} \cup RunPc

Failing(c) == c.pc \in {"closerun", "excget", "fail"} \/ Leaving(c, {"closerun", "fail"})

\* The status a claimed task may have: whatever its worker made of it, unless a
\* cancel request came in.
StatusFits(c) ==
    /\ c.pc # "idle" => c.task \in DOMAIN status
    /\ c.pc = "release" => c.next \in {"block", "fail", "closerun", "return"}
    /\ Planned(c) => status[c.task] \in {"planning", "cancelled"}
    /\ Started(c) => status[c.task] \in {"running", "cancelled"}
    /\ Failing(c) => status[c.task] \in {"planning", "running"} \cup Terminal
    /\ Leaving(c, {"return"}) => status[c.task] \in Terminal

\* The run a coroutine knows is one of its task; the runs its task can have.
RunsFit(c) ==
    /\ c.run # NoneId => c.run \in DOMAIN run /\ run[c.run].task = c.task
    /\ Planned(c) \/ c.pc = "mkrun" => NoRun(c.task)
    /\ c.pc = "plan" /\ status[c.task] \in {"queued", "blocked"} => NoRun(c.task)
    /\ c.pc \in RunPc => OpenRun(c.run)
    /\ c.pc \in {"check", "finish"} =>
         \E r \in DOMAIN run : run[r].task = c.task /\ run[r].status = c.result

\* Unless a call failed: a task that is about to fail has no succeeded run, and
\* no worker that is done with its run leaves it open.
CleanFits(c) ==
    faults = 0 =>
      /\ Failing(c) => NoSuccess(c.task) \/ status[c.task] = "cancelled"
      /\ OpenRun(c.run) => c.pc \in RunPc \cup {"closerun"} \/ Leaving(c, {"closerun"})

WorkerFits(c) == StatusFits(c) /\ RunsFit(c) /\ CleanFits(c)

\* A task without a claim has no run, and every run is of a stored task.
RunsHaveTasks ==
    /\ \A r \in DOMAIN run : run[r].task \in DOMAIN status
    /\ \A t \in DOMAIN status : status[t] = "queued" => NoRun(t)

\* No coroutine exists before the hub polls.
QuietStart == ~Up \/ loop = "starting" => \A w \in Worker : wk[w] = Idle

Finite == IsFiniteSet(DOMAIN status) /\ IsFiniteSet(DOMAIN run)

Inv ==
    /\ TypeInvariant
    /\ Finite
    /\ QuietStart
    /\ \A w \in Worker : WorkerFits(wk[w])
    /\ RunsHaveTasks
    /\ ExclusiveClaim
    /\ WorkUnderLock
    /\ RegistryExact
    /\ AtMostOneRun
    /\ OutcomeBacked
    /\ RunningOwned

-----------------------------------------------------------------------------
(* The step of a worker, and when it preserves the invariant.              *)

\* A coroutine in state c has claimed its task.
ClaimedState(c) == c.pc \notin {"idle", "sem", "get", "plan"}

\* Worker w steps to state c and leaves everybody else alone.
WorkerMove(w, c) ==
    /\ wk[w].pc # "idle"
    /\ c \in WorkerState
    /\ wk' = [wk EXCEPT ![w] = c]
    /\ c.pc # "idle" => c.task = wk[w].task
    /\ batch' \subseteq Worker
    /\ UNCHANGED <<loop, wake, announce, cn, downs>>
    /\ faults' \in 0..MaxFaults
    /\ faults' = 0 => faults = 0

\* Only the rows of task t change, and no closed run does.
TableFrame(t) ==
    /\ DOMAIN status' = DOMAIN status
    /\ \A u \in DOMAIN status : u # t => status'[u] = status[u]
    /\ \A r \in DOMAIN run :
         /\ r \in DOMAIN run'
         /\ run'[r].task = run[r].task
         /\ run[r].task # t \/ run[r].status \notin RunActive => run'[r] = run[r]
    /\ \A r \in DOMAIN run' : r \in DOMAIN run \/ run'[r].task = t

\* The claim is kept, given up or newly made.
ClaimKept(w, c) ==
    \/ Claimed(w)
    \/ ~ClaimedState(c) /\ UNCHANGED <<status, run>>
    \/ status[wk[w].task] \in {"queued", "blocked"}

\* What the step makes of the task and its runs is in order.
TaskKept(w, c) ==
    LET t == wk[w].task IN
    /\ status'[t] \in {"queued", "blocked"} =>
         \/ \A r \in DOMAIN run' : run'[r].task # t
         \/ UNCHANGED <<status, run>>
    /\ status'[t] = "completed" =>
         \/ status[t] = "completed"
         \/ \E r \in DOMAIN run' : run'[r].task = t /\ run'[r].status = "succeeded"
    /\ status'[t] = "failed" /\ faults' = 0 =>
         \/ \A r \in DOMAIN run' : run'[r].task = t => run'[r].status # "succeeded"
         \/ UNCHANGED <<status, run>>
    /\ status'[t] = "running" /\ faults' = 0 =>
         ClaimedState(c) \/ (~Claimed(w) /\ UNCHANGED <<status, run>>)
    /\ \A r \in DOMAIN run' : run'[r].task = t /\ OpenRun(r)' /\ faults' = 0 =>
         c.run = r \/ (OpenRun(r) /\ wk[w].run # r)
    /\ \A r, s \in DOMAIN run' : run'[r].task = t /\ run'[s].task = t => r = s

\* A worker that has claimed its task excludes the others from it.
LEMMA OthersElsewhere ==
  ASSUME Inv, NEW w \in Worker, NEW c, WorkerMove(w, c), ClaimKept(w, c),
         NEW v \in Worker, v # w, Claimed(v)
  PROVE  wk[v].task # wk[w].task \/ UNCHANGED <<status, run>>
<1>1. CASE Claimed(w)
  BY <1>1 DEF Inv, ExclusiveClaim
<1>2. CASE status[wk[w].task] \in {"queued", "blocked"}
  <2>1. WorkerFits(wk[v]) /\ wk[v] \in WorkerState
    BY DEF Inv, TypeInvariant
  <2>2. status[wk[v].task] \notin {"queued", "blocked"}
    BY <2>1 DEF WorkerFits, StatusFits, Claimed, Planned, Started, Failing, Leaving,
         RunPc, Terminal, WorkerState, WorkerPc, Unprotected, Holding
  <2> QED
    BY <1>2, <2>2
<1> QED
  BY <1>1, <1>2 DEF ClaimKept

\* The other workers are none the wiser.
LEMMA OthersFit ==
  ASSUME Inv, NEW w \in Worker, NEW c, WorkerMove(w, c), TableFrame(wk[w].task),
         ClaimKept(w, c), TaskKept(w, c), TypeInvariant',
         NEW v \in Worker, v # w
  PROVE  WorkerFits(wk[v])'
<1>1. wk'[v] = wk[v] /\ wk[v] \in WorkerState
  BY DEF Inv, TypeInvariant, WorkerMove
<1>2. PICK d : d = wk[v]
  OBVIOUS
<1>3. d \in WorkerState /\ StatusFits(d) /\ RunsFit(d) /\ CleanFits(d)
  BY <1>1, <1>2 DEF Inv, WorkerFits
<1>4. SUFFICES StatusFits(d)' /\ RunsFit(d)' /\ CleanFits(d)'
  BY <1>1, <1>2 DEF WorkerFits
<1>5. faults' = 0 => faults = 0
  BY DEF WorkerMove
<1>6. CASE UNCHANGED <<status, run>>
  BY <1>3, <1>5, <1>6 DEF StatusFits, RunsFit, CleanFits, NoRun, NoSuccess, OpenRun
<1>7. CASE ~ClaimedState(d) /\ ~UNCHANGED <<status, run>>
  <2>1. StatusFits(d)'
    BY <1>3, <1>7
       DEF StatusFits, ClaimedState, TableFrame, Planned, Started, Failing, Leaving,
           RunPc
  <2>2. d.run # NoneId => d.run \in DOMAIN run' /\ run'[d.run].task = d.task
    BY <1>3 DEF RunsFit, TableFrame
  <2>3. ASSUME d.pc = "plan", status'[d.task] \in {"queued", "blocked"}
        PROVE  NoRun(d.task)'
    <3>1. CASE d.task = wk[w].task
      BY <3>1, <2>3, <1>7 DEF TaskKept, NoRun
    <3>2. CASE d.task # wk[w].task
      <4>1. d.task \in DOMAIN status
        BY <1>3, <2>3 DEF StatusFits
      <4>2. NoRun(d.task)
        BY <4>1, <3>2, <2>3, <1>3 DEF RunsFit, TableFrame
      <4> QED
        BY <4>2, <3>2 DEF NoRun, TableFrame
    <3> QED
      BY <3>1, <3>2
  <2>4. RunsFit(d)'
    BY <2>2, <2>3, <1>7 DEF RunsFit, ClaimedState, Planned, Leaving, RunPc
  <2>5. CleanFits(d)'
    <3>1. SUFFICES ASSUME faults = 0, OpenRun(d.run)'
                   PROVE  FALSE
      BY <1>5, <1>7 DEF CleanFits, ClaimedState, Failing, Leaving
    <3>2. d.run \in DOMAIN run
      <4>1. NoneId \notin DOMAIN run'
        BY RunIdAssumption DEF TypeInvariant, TableTypeOK, NoneId
      <4> QED
        BY <4>1, <3>1, <1>3 DEF RunsFit, OpenRun
    <3>3. run[d.run].status \notin RunActive
      BY <3>1, <3>2, <1>3, <1>7 DEF CleanFits, OpenRun, ClaimedState, RunPc, Leaving
    <3> QED
      BY <3>1, <3>2, <3>3 DEF TableFrame, OpenRun
  <2> QED
    BY <2>1, <2>4, <2>5
<1>8. CASE ClaimedState(d) /\ ~UNCHANGED <<status, run>>
  <2>1. d.task # wk[w].task
    <3>1. Claimed(v)
      BY <1>8, <1>2 DEF ClaimedState, Claimed
    <3> QED
      BY <3>1, <1>8, <1>2, OthersElsewhere
  <2>2. /\ d.task \in DOMAIN status /\ DOMAIN status' = DOMAIN status
        /\ status'[d.task] = status[d.task]
    BY <2>1, <1>3, <1>8 DEF StatusFits, ClaimedState, TableFrame
  <2>3. /\ \A r \in DOMAIN run : run[r].task = d.task => r \in DOMAIN run' /\ run'[r] = run[r]
        /\ \A r \in DOMAIN run' : run'[r].task = d.task => r \in DOMAIN run /\ run'[r] = run[r]
    BY <2>1 DEF TableFrame
  <2>4. StatusFits(d)'
    BY <2>2, <1>3 DEF StatusFits
  <2>5. (NoRun(d.task) => NoRun(d.task)') /\ (NoSuccess(d.task) => NoSuccess(d.task)')
    BY <2>3 DEF NoRun, NoSuccess
  <2>6. d.run \in DOMAIN run /\ run[d.run].task = d.task =>
          (OpenRun(d.run)' <=> OpenRun(d.run))
    BY <2>3 DEF OpenRun
  <2>7. NoneId \notin DOMAIN run /\ NoneId \notin DOMAIN run'
    BY RunIdAssumption DEF Inv, TypeInvariant, TableTypeOK, NoneId
  <2>8. OpenRun(d.run)' <=> OpenRun(d.run)
    BY <2>6, <2>7, <1>3 DEF RunsFit, OpenRun
  <2>9. RunsFit(d)'
    BY <2>2, <2>3, <2>5, <2>8, <1>3 DEF RunsFit
  <2>10. CleanFits(d)'
    BY <2>2, <2>5, <2>8, <1>3, <1>5 DEF CleanFits
  <2> QED
    BY <2>4, <2>9, <2>10
<1> QED
  BY <1>6, <1>7, <1>8

\* The claims stay exclusive.
LEMMA ClaimsStay ==
  ASSUME Inv, NEW w \in Worker, NEW c, WorkerMove(w, c), ClaimKept(w, c)
  PROVE  ExclusiveClaim'
<1> SUFFICES ASSUME NEW u \in Worker, NEW v \in Worker, u # v,
                    Claimed(u)', Claimed(v)'
             PROVE  wk'[u].task # wk'[v].task
  BY DEF ExclusiveClaim
<1>1. /\ wk'[w] = c
      /\ \A x \in Worker : x # w => wk'[x] = wk[x]
  BY DEF WorkerMove, Inv, TypeInvariant
<1>2. CASE u # w /\ v # w
  BY <1>1, <1>2 DEF Inv, ExclusiveClaim, Claimed
<1>3. ASSUME NEW x \in Worker, x # w, Claimed(x)', ClaimedState(c)
      PROVE  wk'[x].task # c.task
  <2>1. Claimed(x) /\ wk'[x] = wk[x]
    BY <1>1, <1>3 DEF Claimed
  <2>2. c.task = wk[w].task
    BY <1>3 DEF WorkerMove, ClaimedState
  <2>3. CASE Claimed(w)
    BY <2>1, <2>2, <2>3, <1>3 DEF Inv, ExclusiveClaim
  <2>4. CASE status[wk[w].task] \in {"queued", "blocked"}
    <3>1. WorkerFits(wk[x]) /\ wk[x] \in WorkerState
      BY DEF Inv, TypeInvariant
    <3>2. status[wk[x].task] \notin {"queued", "blocked"}
      BY <2>1, <3>1 DEF WorkerFits, StatusFits, Claimed, Planned, Started, Failing,
           Leaving, RunPc, Terminal, WorkerState, WorkerPc, Unprotected, Holding
    <3> QED
      BY <2>1, <2>2, <2>4, <3>2
  <2> QED
    BY <1>3, <2>3, <2>4 DEF ClaimKept
<1> QED
  BY <1>1, <1>2, <1>3 DEF Claimed, ClaimedState

\* The other tasks keep their runs and outcomes.
LEMMA TasksStay ==
  ASSUME Inv, NEW w \in Worker, NEW c, WorkerMove(w, c), TableFrame(wk[w].task),
         ClaimKept(w, c), TaskKept(w, c), TypeInvariant', WorkerFits(c)'
  PROVE  RunsHaveTasks' /\ AtMostOneRun' /\ OutcomeBacked' /\ RunningOwned'
<1>1. PICK t : t = wk[w].task
  OBVIOUS
<1>2. t \in DOMAIN status
  BY <1>1 DEF WorkerMove, Inv, WorkerFits, StatusFits
<1>3. /\ DOMAIN status' = DOMAIN status
      /\ \A u \in DOMAIN status : u # t => status'[u] = status[u]
      /\ \A r \in DOMAIN run :
           /\ r \in DOMAIN run'
           /\ run'[r].task = run[r].task
           /\ run[r].task # t \/ run[r].status \notin RunActive => run'[r] = run[r]
      /\ \A r \in DOMAIN run' : r \in DOMAIN run \/ run'[r].task = t
  BY <1>1 DEF TableFrame
<1>4. RunsHaveTasks'
  <2>1. \A r \in DOMAIN run' : run'[r].task \in DOMAIN status'
    BY <1>2, <1>3 DEF Inv, RunsHaveTasks
  <2>2. ASSUME NEW u \in DOMAIN status', status'[u] = "queued"
        PROVE  NoRun(u)'
    BY <2>2, <1>1, <1>3 DEF Inv, RunsHaveTasks, NoRun, TaskKept
  <2> QED
    BY <2>1, <2>2 DEF RunsHaveTasks
<1>5. AtMostOneRun'
  BY <1>1, <1>3 DEF Inv, AtMostOneRun, TaskKept
<1>6. OutcomeBacked'
  <2> SUFFICES ASSUME NEW u \in DOMAIN status'
               PROVE  /\ status'[u] = "completed" =>
                           \E r \in DOMAIN run' : run'[r].task = u /\ run'[r].status = "succeeded"
                      /\ status'[u] = "failed" /\ faults' = 0 =>
                           \A r \in DOMAIN run' : run'[r].task = u => run'[r].status # "succeeded"
    BY DEF OutcomeBacked
  <2>1. "succeeded" \notin RunActive
    BY DEF RunActive
  <2>2. ASSUME status[u] = "completed"
        PROVE  \E r \in DOMAIN run' : run'[r].task = u /\ run'[r].status = "succeeded"
    BY <2>1, <2>2, <1>3 DEF Inv, OutcomeBacked
  <2>3. faults' = 0 => faults = 0
    BY DEF WorkerMove
  <2>4. CASE u # t
    BY <2>2, <2>3, <2>4, <1>3 DEF Inv, OutcomeBacked
  <2>5. CASE u = t
    BY <2>2, <2>3, <2>5, <1>1, <1>3 DEF Inv, OutcomeBacked, TaskKept
  <2> QED
    BY <2>4, <2>5
<1>7. RunningOwned'
  <2> SUFFICES ASSUME Up, faults' = 0
               PROVE  /\ \A u \in DOMAIN status' : status'[u] = "running" => Owned(u)'
                      /\ \A r \in DOMAIN run' : run'[r].status \in RunActive =>
                           \E v \in Worker : wk'[v].run = r
    BY DEF RunningOwned, Up, WorkerMove
  <2>1. /\ \A u \in DOMAIN status : status[u] = "running" => Owned(u)
        /\ \A r \in DOMAIN run : run[r].status \in RunActive =>
             \E v \in Worker : wk[v].run = r
    BY DEF Inv, RunningOwned, Up, WorkerMove
  <2>2. /\ wk'[w] = c
        /\ \A x \in Worker : x # w => wk'[x] = wk[x]
    BY DEF WorkerMove, Inv, TypeInvariant
  <2>3. ASSUME NEW u \in DOMAIN status', status'[u] = "running"
        PROVE  Owned(u)'
    <3>1. CASE u = t
      <4>1. CASE ClaimedState(c)
        BY <4>1, <3>1, <2>2, <1>1 DEF WorkerMove, Owned, Claimed, ClaimedState
      <4>2. CASE ~Claimed(w) /\ UNCHANGED <<status, run>>
        BY <4>2, <2>3, <2>1, <2>2 DEF Owned, Claimed
      <4> QED
        BY <4>1, <4>2, <3>1, <2>3, <1>1 DEF TaskKept
    <3>2. CASE u # t
      BY <3>2, <2>1, <2>2, <2>3, <1>1, <1>3 DEF Owned, Claimed
    <3> QED
      BY <3>1, <3>2
  <2>4. ASSUME NEW r \in DOMAIN run', run'[r].status \in RunActive
        PROVE  \E v \in Worker : wk'[v].run = r
    <3>1. CASE run'[r].task = t
      <4>1. CASE c.run = r
        BY <4>1, <2>2
      <4>2. CASE OpenRun(r) /\ wk[w].run # r
        BY <4>2, <2>1, <2>2 DEF OpenRun
      <4> QED
        BY <4>1, <4>2, <3>1, <2>4, <1>1 DEF TaskKept, OpenRun
    <3>2. CASE run'[r].task # t
      <4>1. r \in DOMAIN run /\ run[r].task # t /\ run[r].status \in RunActive
        BY <3>2, <2>4, <1>3
      <4>2. PICK v \in Worker : wk[v].run = r
        BY <4>1, <2>1
      <4>3. v # w
        <5>1. RunsFit(wk[w]) /\ r # NoneId
          BY <4>1, RunIdAssumption DEF Inv, WorkerFits, TypeInvariant, TableTypeOK, NoneId
        <5> QED
          BY <5>1, <4>1, <4>2, <1>1 DEF RunsFit
      <4> QED
        BY <4>2, <4>3, <2>2
    <3> QED
      BY <3>1, <3>2
  <2> QED
    BY <2>3, <2>4
<1> QED
  BY <1>4, <1>5, <1>6, <1>7

\* A step of a worker that is in order preserves the invariant.
LEMMA WorkerMoveInv ==
  ASSUME Inv, NEW w \in Worker, NEW c, WorkerMove(w, c), TableFrame(wk[w].task),
         ClaimKept(w, c), TaskKept(w, c), WorkerFits(c)', TypeInvariant', Finite',
         WorkUnderLock', RegistryExact'
  PROVE  Inv'
<1>1. \A v \in Worker : WorkerFits(wk[v])'
  <2>1. wk'[w] = c
    BY DEF WorkerMove, Inv, TypeInvariant
  <2>2. WorkerFits(wk[w])'
    BY <2>1 DEF WorkerFits, StatusFits, RunsFit, CleanFits, Planned, Started, Failing,
         Leaving, NoRun, NoSuccess, OpenRun
  <2> QED
    BY <2>2, OthersFit
<1>2. QuietStart'
  BY DEF QuietStart, Up, Inv, WorkerMove, Idle
<1> QED
  BY <1>1, <1>2, ClaimsStay, TasksStay DEF Inv

\* The types, when a worker moves.
LEMMA MoveType ==
  ASSUME TypeInvariant, NEW w \in Worker, NEW c, WorkerMove(w, c), TableTypeOK',
         lock' \in [Project -> Worker \cup {Free, Stale, Leaked}],
         proc' \subseteq TaskId, killed' \subseteq TaskId
  PROVE  TypeInvariant'
BY DEF TypeInvariant, WorkerMove

\* The lock is respected by a worker that neither takes nor gives it.
LEMMA LockStays ==
  ASSUME Inv, NEW w \in Worker, NEW c, WorkerMove(w, c), lock' = lock,
         c.pc \in Holding => wk[w].pc \in Holding
  PROVE  WorkUnderLock'
<1> SUFFICES ASSUME NEW v \in Worker, wk'[v].pc \in Holding
             PROVE  lock'[ProjectOf[wk'[v].task]] = v
  BY DEF WorkUnderLock, ProjectAt
<1>1. wk[v].pc \in Holding /\ wk'[v].task = wk[v].task
  BY DEF Inv, TypeInvariant, WorkerMove, Holding
<1> QED
  BY <1>1 DEF Inv, WorkUnderLock, ProjectAt

Watching == {"await", "dereg"}

\* The registry, member by member.
LEMMA RegistryAsExists ==
  /\ RegistryExact <=>
       /\ \A t : (t \in proc) <=> \E v \in Worker : wk[v].pc \in Watching /\ wk[v].task = t
       /\ killed \subseteq proc
  /\ RegistryExact' <=>
       /\ \A t : (t \in proc') <=> \E v \in Worker : wk'[v].pc \in Watching /\ wk'[v].task = t
       /\ killed' \subseteq proc'
BY DEF RegistryExact, Watching

\* The registry is right after a step that neither enters nor leaves it.
LEMMA RegistryStays ==
  ASSUME Inv, NEW w \in Worker, NEW c, WorkerMove(w, c), proc' = proc, killed' = killed,
         c.pc \in Watching <=> wk[w].pc \in Watching
  PROVE  RegistryExact'
<1>1. ASSUME NEW v \in Worker
      PROVE  /\ (wk'[v].pc \in Watching) <=> (wk[v].pc \in Watching)
             /\ wk'[v].pc \in Watching => wk'[v].task = wk[v].task
  <2>1. /\ wk'[w] = c
        /\ \A x \in Worker : x # w => wk'[x] = wk[x]
    BY DEF WorkerMove, Inv, TypeInvariant
  <2>2. c.pc \in Watching => c.task = wk[w].task
    BY DEF WorkerMove, Watching
  <2> QED
    BY <2>1, <2>2
<1>2. \A t : (\E v \in Worker : wk'[v].pc \in Watching /\ wk'[v].task = t)
        <=> (\E v \in Worker : wk[v].pc \in Watching /\ wk[v].task = t)
  BY <1>1
<1> QED
  BY <1>2, RegistryAsExists DEF Inv

\* A step that leaves tasks and runs alone: a claim is given up only when the
\* task is not running any more and the run is closed.
Quiet(w, c) ==
    /\ WorkerMove(w, c)
    /\ UNCHANGED <<status, run>>
    /\ TableTypeOK'
    /\ ClaimedState(c) => Claimed(w)
    /\ Claimed(w) /\ ~ClaimedState(c) /\ faults' = 0 => status[wk[w].task] # "running"
    /\ OpenRun(wk[w].run) /\ faults' = 0 => c.run = wk[w].run
    /\ StatusFits(c)
    /\ RunsFit(c)
    /\ faults' = 0 => CleanFits(c)

\* Such a step preserves the invariant, if lock and registry are respected.
LEMMA QuietInv ==
  ASSUME Inv, NEW w \in Worker, NEW c, Quiet(w, c), WorkUnderLock', RegistryExact',
         lock' \in [Project -> Worker \cup {Free, Stale, Leaked}],
         proc' \subseteq TaskId, killed' \subseteq TaskId
  PROVE  Inv'
<1>1. WorkerMove(w, c) /\ UNCHANGED <<status, run>>
  BY DEF Quiet
<1>2. TableFrame(wk[w].task)
  BY <1>1 DEF TableFrame
<1>3. ClaimKept(w, c)
  BY <1>1 DEF ClaimKept, Quiet
<1>4. TaskKept(w, c)
  <2>1. \A r, s \in DOMAIN run : run[r].task = run[s].task => r = s
    BY DEF Inv, AtMostOneRun
  <2>2. status[wk[w].task] = "running" /\ faults' = 0 => ClaimedState(c) \/ ~Claimed(w)
    BY DEF Quiet
  <2>3. ASSUME NEW r \in DOMAIN run, run[r].task = wk[w].task, OpenRun(r)', faults' = 0
        PROVE  c.run = r \/ (OpenRun(r) /\ wk[w].run # r)
    BY <2>3, <1>1 DEF Quiet, OpenRun
  <2> QED
    BY <1>1, <2>1, <2>2, <2>3 DEF TaskKept
<1>5. WorkerFits(c)'
  BY <1>1
     DEF Quiet, WorkerFits, StatusFits, RunsFit, CleanFits, NoRun, NoSuccess, OpenRun,
         WorkerMove
<1>6. TypeInvariant'
  BY <1>1, MoveType DEF Inv, Quiet
<1>7. Finite'
  BY <1>1 DEF Inv, Finite
<1> QED
  BY <1>1, <1>2, <1>3, <1>4, <1>5, <1>6, <1>7, WorkerMoveInv

\* A step that leaves lock and registry alone as well.
Still(w, c) ==
    /\ Quiet(w, c)
    /\ UNCHANGED <<lock, proc, killed>>
    /\ c.pc \in Holding => wk[w].pc \in Holding
    /\ c.pc \in Watching <=> wk[w].pc \in Watching

\* They are, when nothing enters or leaves them.
LEMMA StillInv ==
  ASSUME Inv, NEW w \in Worker, NEW c, Still(w, c)
  PROVE  Inv'
<1>1. WorkUnderLock'
  BY LockStays DEF Still, Quiet
<1>2. RegistryExact'
  BY RegistryStays DEF Still, Quiet
<1> QED
  BY <1>1, <1>2, QuietInv DEF Still, Inv, TypeInvariant

-----------------------------------------------------------------------------
(* The ways a coroutine moves on.                                          *)

\* What the invariant says of one worker.
LEMMA WorkerFacts ==
  ASSUME Inv, NEW w \in Worker
  PROVE  /\ wk[w] \in WorkerState
         /\ StatusFits(wk[w])
         /\ RunsFit(wk[w])
         /\ CleanFits(wk[w])
BY DEF Inv, TypeInvariant, WorkerFits

FaultCount == faults' \in 0..MaxFaults /\ (faults' = 0 => faults = 0)

\* No call failed.
LEMMA NoFault == Inv /\ UNCHANGED faults => FaultCount
BY DEF Inv, TypeInvariant, FaultCount

\* The state of a worker that moves to pc, with next as its way on.
Moved(w, c, pc, next) ==
    /\ WorkerMove(w, c)
    /\ c.pc = pc /\ c.next = next
    /\ c.task = wk[w].task /\ c.run = wk[w].run /\ c.result = wk[w].result

\* Goto, as a move.
LEMMA GotoMoves ==
  ASSUME Inv, NEW w \in Worker, wk[w].pc # "idle", NEW pc \in WorkerPc, Goto(w, pc),
         WorkerFrame, FaultCount
  PROVE  \E c : Moved(w, c, pc, wk[w].next)
<1> DEFINE c == [wk[w] EXCEPT !.pc = pc]
<1>1. wk[w] \in WorkerState
  BY WorkerFacts
<1>2. /\ c \in WorkerState
      /\ c.pc = pc /\ c.next = wk[w].next
      /\ c.task = wk[w].task /\ c.run = wk[w].run /\ c.result = wk[w].result
  BY <1>1 DEF WorkerState
<1>3. wk' = [wk EXCEPT ![w] = c]
  BY DEF Goto, Inv, TypeInvariant
<1>4. batch' \subseteq Worker
  BY DEF Goto, Inv, TypeInvariant
<1> HIDE DEF c
<1> QED
  BY <1>2, <1>3, <1>4 DEF Moved, WorkerMove, WorkerFrame, FaultCount

\* Leave, as a move.
LEMMA LeaveMoves ==
  ASSUME Inv, NEW w \in Worker, wk[w].pc # "idle", NEW pc \in WorkerPc \cup {"return"},
         Leave(w, pc), WorkerFrame, FaultCount
  PROVE  \E c : Moved(w, c, "release", pc)
<1> DEFINE c == [wk[w] EXCEPT !.pc = "release", !.next = pc]
<1>1. wk[w] \in WorkerState
  BY WorkerFacts
<1>2. /\ c \in WorkerState
      /\ c.pc = "release" /\ c.next = pc
      /\ c.task = wk[w].task /\ c.run = wk[w].run /\ c.result = wk[w].result
  <2>1. "release" \in WorkerPc /\ pc \in WorkerPc \cup {"return", "none"}
    BY DEF WorkerPc, Holding
  <2> QED
    BY <1>1, <2>1 DEF WorkerState
<1>3. wk' = [wk EXCEPT ![w] = c]
  BY DEF Leave, Inv, TypeInvariant
<1>4. batch' \subseteq Worker
  BY DEF Leave, Inv, TypeInvariant
<1> HIDE DEF c
<1> QED
  BY <1>2, <1>3, <1>4 DEF Moved, WorkerMove, WorkerFrame, FaultCount

\* The coroutine ends.
LEMMA EndMoves ==
  ASSUME Inv, NEW w \in Worker, wk[w].pc # "idle", Return(w) \/ Escape(w),
         WorkerFrame, FaultCount
  PROVE  WorkerMove(w, Idle)
<1>1. Idle \in WorkerState /\ Idle.pc = "idle"
  BY DEF Idle, WorkerState, WorkerPc, RunTerminal
<1>2. wk' = [wk EXCEPT ![w] = Idle] /\ batch' \subseteq Worker
  BY DEF Return, Escape, Inv, TypeInvariant
<1> QED
  BY <1>1, <1>2 DEF WorkerMove, WorkerFrame, FaultCount

\* An ended coroutine fits whatever the tables say.
LEMMA IdleFits == StatusFits(Idle) /\ RunsFit(Idle) /\ ~ClaimedState(Idle)
BY DEF StatusFits, RunsFit, ClaimedState, Idle, Planned, Started, Failing, Leaving,
     RunPc, NoneId

\* NoneId names no run.
LEMMA NoneIsNoRun == Inv => ~OpenRun(NoneId)
BY RunIdAssumption DEF Inv, TypeInvariant, TableTypeOK, OpenRun, NoneId

\* A coroutine that ends, whatever becomes of the lock.
LEMMA EndQuiet ==
  ASSUME Inv, NEW w \in Worker, wk[w].pc # "idle", Return(w) \/ Escape(w),
         WorkerFrame, FaultCount, UNCHANGED tableVars,
         faults' = 0 /\ Claimed(w) => status[wk[w].task] # "running",
         faults' = 0 => ~OpenRun(wk[w].run)
  PROVE  Quiet(w, Idle)
<1>1. WorkerMove(w, Idle) /\ StatusFits(Idle) /\ RunsFit(Idle) /\ ~ClaimedState(Idle)
  BY EndMoves, IdleFits
<1>2. CleanFits(Idle)
  BY NoneIsNoRun DEF CleanFits, Idle, Failing, Leaving
<1>3. TableTypeOK'
  BY DEF Inv, TypeInvariant, TableTypeOK, tableVars
<1> QED
  BY <1>1, <1>2, <1>3 DEF Quiet, tableVars

\* A coroutine that ends without changing anything: its run is closed, and its
\* task is not running, unless it never claimed it.
LEMMA EndInv ==
  ASSUME Inv, NEW w \in Worker, wk[w].pc # "idle", Return(w) \/ Escape(w),
         WorkerFrame, FaultCount, UNCHANGED <<tableVars, lock, runtimeVars>>,
         wk[w].pc \notin Watching,
         faults' = 0 /\ Claimed(w) => status[wk[w].task] # "running",
         faults' = 0 => ~OpenRun(wk[w].run)
  PROVE  Inv'
<1>1. Quiet(w, Idle)
  BY EndQuiet
<1>2. Still(w, Idle)
  BY <1>1 DEF Still, runtimeVars, Idle, Holding, Watching
<1> QED
  BY <1>2, StillInv

\* A coroutine that goes on without changing anything but its own state.
LEMMA OnInv ==
  ASSUME Inv, NEW w \in Worker, NEW c, NEW pc, NEW next, Moved(w, c, pc, next),
         ClaimedState(c) => Claimed(w), Claimed(w) => ClaimedState(c),
         UNCHANGED <<tableVars, lock, runtimeVars>>,
         pc \in Holding => wk[w].pc \in Holding,
         pc \in Watching <=> wk[w].pc \in Watching,
         StatusFits(c), RunsFit(c), faults' = 0 => CleanFits(c)
  PROVE  Inv'
<1>1. TableTypeOK'
  BY DEF Inv, TypeInvariant, TableTypeOK, tableVars
<1>2. Quiet(w, c)
  BY <1>1 DEF Quiet, tableVars, Moved
<1>3. Still(w, c)
  BY <1>2 DEF Still, runtimeVars, Moved
<1> QED
  BY <1>3, StillInv

-----------------------------------------------------------------------------
(* Steps that change nothing but where the coroutine is.                   *)

\* From one place to another with the lock as it is, before the claim or after.
LEMMA GotoInv ==
  ASSUME Inv, NEW w \in Worker, wk[w].pc # "idle", NEW pc \in WorkerPc, Goto(w, pc),
         WorkerFrame, FaultCount, UNCHANGED <<tableVars, lock, runtimeVars>>,
         pc \notin {"idle", "sem", "get", "plan"} <=> Claimed(w),
         pc \in Holding => wk[w].pc \in Holding,
         pc \in Watching <=> wk[w].pc \in Watching,
         \A c : Moved(w, c, pc, wk[w].next) =>
           StatusFits(c) /\ RunsFit(c) /\ (faults' = 0 => CleanFits(c))
  PROVE  Inv'
<1>1. PICK c : Moved(w, c, pc, wk[w].next)
  BY GotoMoves
<1>2. StatusFits(c) /\ RunsFit(c) /\ (faults' = 0 => CleanFits(c))
  BY <1>1
<1>3. ClaimedState(c) <=> Claimed(w)
  BY <1>1 DEF Moved, ClaimedState
<1> QED
  BY <1>1, <1>2, <1>3, OnInv

\* Out of the workspace, the lock still to be released.
LEMMA LeaveInv ==
  ASSUME Inv, NEW w \in Worker, NEW pc \in WorkerPc \cup {"return"}, Leave(w, pc),
         WorkerFrame, FaultCount, UNCHANGED <<tableVars, lock, runtimeVars>>,
         wk[w].pc \in Holding \ Watching,
         \A c : Moved(w, c, "release", pc) =>
           StatusFits(c) /\ RunsFit(c) /\ (faults' = 0 => CleanFits(c))
  PROVE  Inv'
<1>1. wk[w].pc # "idle" /\ Claimed(w)
  BY DEF Holding, Claimed
<1>2. PICK c : Moved(w, c, "release", pc)
  BY <1>1, LeaveMoves
<1>3. StatusFits(c) /\ RunsFit(c) /\ (faults' = 0 => CleanFits(c))
  BY <1>2
<1>4. ClaimedState(c) <=> Claimed(w)
  BY <1>1, <1>2 DEF Moved, ClaimedState
<1>5. "release" \in Watching <=> wk[w].pc \in Watching
  BY DEF Watching
<1> QED
  BY <1>2, <1>3, <1>4, <1>5, OnInv

\* The semaphore lets a coroutine go on.
LEMMA PermitInv ==
  ASSUME Inv, NEW w \in Worker, permit(w), WorkerFrame
  PROVE  Inv'
<1>1. wk[w].pc = "sem" /\ Goto(w, "get") /\ FaultCount /\ "get" \in WorkerPc
      /\ UNCHANGED <<tableVars, lock, runtimeVars>>
  BY NoFault DEF permit, At, WorkerPc, Unprotected
<1>2. ASSUME NEW c, Moved(w, c, "get", wk[w].next)
      PROVE  StatusFits(c) /\ RunsFit(c) /\ (faults' = 0 => CleanFits(c))
  BY <1>1, <1>2, WorkerFacts
     DEF permit, Moved, StatusFits, RunsFit, CleanFits, Planned, Started, Failing,
         Leaving, RunPc
<1> QED
  BY <1>1, <1>2, GotoInv DEF Claimed, Holding, Watching

\* A queued task is taken up, any other is left alone.
LEMMA GetTaskInv ==
  ASSUME Inv, NEW w \in Worker, get_task(w), WorkerFrame
  PROVE  Inv'
<1>1. wk[w].pc = "get" /\ FaultCount /\ "plan" \in WorkerPc
      /\ UNCHANGED <<tableVars, lock, runtimeVars, faults>>
  BY NoFault DEF get_task, At, WorkerPc, Unprotected
<1>2. CASE status[wk[w].task] = "queued" /\ Goto(w, "plan")
  <2>1. NoRun(wk[w].task)
    <3>1. wk[w].task \in DOMAIN status
      BY <1>1, WorkerFacts DEF StatusFits
    <3> QED
      BY <3>1, <1>2 DEF Inv, RunsHaveTasks
  <2>2. ASSUME NEW c, Moved(w, c, "plan", wk[w].next)
        PROVE  StatusFits(c) /\ RunsFit(c) /\ (faults' = 0 => CleanFits(c))
    BY <1>1, <2>1, <2>2, WorkerFacts
       DEF Moved, StatusFits, RunsFit, CleanFits, Planned, Started, Failing, Leaving,
           RunPc
  <2> QED
    BY <1>1, <1>2, <2>2, GotoInv DEF Claimed, Holding, Watching
<1>3. CASE Return(w)
  <2>1. faults' = 0 => ~OpenRun(wk[w].run)
    BY <1>1, WorkerFacts DEF CleanFits, RunPc, Leaving
  <2> QED
    BY <1>1, <1>3, <2>1, EndInv DEF Claimed, Watching
<1> QED
  BY <1>2, <1>3 DEF get_task

\* The lock was not to be had in time: no run exists yet.
LEMMA LockTimeoutInv ==
  ASSUME Inv, NEW w \in Worker, lock_timeout(w), WorkerFrame
  PROVE  Inv'
<1>1. wk[w].pc = "lock" /\ Goto(w, "block") /\ FaultCount /\ "block" \in WorkerPc
      /\ UNCHANGED <<tableVars, lock, runtimeVars, faults>>
  BY NoFault DEF lock_timeout, At, WorkerPc, Unprotected
<1>2. ASSUME NEW c, Moved(w, c, "block", wk[w].next)
      PROVE  StatusFits(c) /\ RunsFit(c) /\ (faults' = 0 => CleanFits(c))
  BY <1>1, <1>2, WorkerFacts
     DEF Moved, StatusFits, RunsFit, CleanFits, Planned, Started, Failing, Leaving,
         RunPc
<1> QED
  BY <1>1, <1>2, GotoInv DEF Claimed, Holding, Watching

\* Branch preparation, before any run exists.
LEMMA CreateTaskBranchInv ==
  ASSUME Inv, NEW w \in Worker, create_task_branch(w), WorkerFrame
  PROVE  Inv'
<1>1. wk[w].pc = "branch" /\ FaultCount /\ {"run", "block", "fail"} \subseteq WorkerPc
      /\ UNCHANGED <<tableVars, lock, runtimeVars, faults>>
  BY NoFault DEF create_task_branch, At, WorkerPc, Unprotected, Holding
<1>2. NoRun(wk[w].task) /\ NoSuccess(wk[w].task)
  BY <1>1, WorkerFacts DEF RunsFit, Planned, NoRun, NoSuccess
<1>3. CASE Goto(w, "run")
  <2>1. ASSUME NEW c, Moved(w, c, "run", wk[w].next)
        PROVE  StatusFits(c) /\ RunsFit(c) /\ (faults' = 0 => CleanFits(c))
    BY <1>1, <1>2, <2>1, WorkerFacts
       DEF Moved, StatusFits, RunsFit, CleanFits, Planned, Started, Failing, Leaving,
           RunPc
  <2> QED
    BY <1>1, <1>3, <2>1, GotoInv DEF Claimed, Holding, Watching
<1>4. ASSUME NEW pc \in {"block", "fail"}, Leave(w, pc)
      PROVE  Inv'
  <2>1. ASSUME NEW c, Moved(w, c, "release", pc)
        PROVE  StatusFits(c) /\ RunsFit(c) /\ (faults' = 0 => CleanFits(c))
    BY <1>1, <1>2, <2>1, WorkerFacts
       DEF Moved, StatusFits, RunsFit, CleanFits, Planned, Started, Failing, Leaving,
           RunPc, Terminal
  <2> QED
    BY <1>1, <1>4, <2>1, LeaveInv DEF Holding, Watching
<1> QED
  BY <1>3, <1>4 DEF create_task_branch

\* A task with an open run has no succeeded one: it has only the one.
LEMMA OpenMeansNoSuccess ==
  ASSUME Inv, NEW w \in Worker, wk[w].pc \in RunPc
  PROVE  NoSuccess(wk[w].task) /\ wk[w].run \in DOMAIN run /\ wk[w].run # NoneId
         /\ run[wk[w].run].task = wk[w].task /\ run[wk[w].run].status \in RunActive
<1>1. wk[w].run \in DOMAIN run /\ run[wk[w].run].status \in RunActive
  BY WorkerFacts DEF RunsFit, OpenRun
<1>2. wk[w].run # NoneId
  BY <1>1, RunIdAssumption DEF Inv, TypeInvariant, TableTypeOK, NoneId
<1>3. run[wk[w].run].task = wk[w].task
  BY <1>2, WorkerFacts DEF RunsFit
<1> QED
  BY <1>1, <1>2, <1>3 DEF NoSuccess, Inv, AtMostOneRun, RunActive

\* The process is started, or the run is to be closed.
LEMMA LaunchInv ==
  ASSUME Inv, NEW w \in Worker, launch(w), WorkerFrame
  PROVE  Inv'
<1>1. wk[w].pc = "exec" /\ FaultCount /\ {"register", "closerun"} \subseteq WorkerPc
      /\ UNCHANGED <<tableVars, lock, runtimeVars, faults>>
  BY NoFault DEF launch, At, WorkerPc, Holding
<1>2. NoSuccess(wk[w].task)
  BY <1>1, OpenMeansNoSuccess DEF RunPc
<1>3. CASE Goto(w, "register")
  <2>1. ASSUME NEW c, Moved(w, c, "register", wk[w].next)
        PROVE  StatusFits(c) /\ RunsFit(c) /\ (faults' = 0 => CleanFits(c))
    BY <1>1, <1>2, <2>1, WorkerFacts
       DEF Moved, StatusFits, RunsFit, CleanFits, Planned, Started, Failing, Leaving,
           RunPc
  <2> QED
    BY <1>1, <1>3, <2>1, GotoInv DEF Claimed, Holding, Watching
<1>4. CASE Leave(w, "closerun")
  <2>1. ASSUME NEW c, Moved(w, c, "release", "closerun")
        PROVE  StatusFits(c) /\ RunsFit(c) /\ (faults' = 0 => CleanFits(c))
    BY <1>1, <1>2, <2>1, WorkerFacts
       DEF Moved, StatusFits, RunsFit, CleanFits, Planned, Started, Failing, Leaving,
           RunPc, Terminal
  <2> QED
    BY <1>1, <1>4, <2>1, LeaveInv DEF Holding, Watching
<1> QED
  BY <1>3, <1>4 DEF launch

\* A cancelled task is left alone, another one is finished.
LEMMA CheckCancelledInv ==
  ASSUME Inv, NEW w \in Worker, check_cancelled(w), WorkerFrame
  PROVE  Inv'
<1>1. wk[w].pc = "check" /\ FaultCount /\ "finish" \in WorkerPc
      /\ UNCHANGED <<tableVars, lock, runtimeVars, faults>>
  BY NoFault DEF check_cancelled, At, WorkerPc, Holding
<1>2. CASE status[wk[w].task] = "cancelled" /\ Leave(w, "return")
  <2>1. ASSUME NEW c, Moved(w, c, "release", "return")
        PROVE  StatusFits(c) /\ RunsFit(c) /\ (faults' = 0 => CleanFits(c))
    BY <1>1, <1>2, <2>1, WorkerFacts
       DEF Moved, StatusFits, RunsFit, CleanFits, Planned, Started, Failing, Leaving,
           RunPc, Terminal
  <2> QED
    BY <1>1, <1>2, <2>1, LeaveInv DEF Holding, Watching
<1>3. CASE Goto(w, "finish")
  <2>1. ASSUME NEW c, Moved(w, c, "finish", wk[w].next)
        PROVE  StatusFits(c) /\ RunsFit(c) /\ (faults' = 0 => CleanFits(c))
    BY <1>1, <2>1, WorkerFacts
       DEF Moved, StatusFits, RunsFit, CleanFits, Planned, Started, Failing, Leaving,
           RunPc
  <2> QED
    BY <1>1, <1>3, <2>1, GotoInv DEF Claimed, Holding, Watching
<1> QED
  BY <1>2, <1>3 DEF check_cancelled

\* A closed task is left alone, another one fails.
LEMMA GetAfterExceptionInv ==
  ASSUME Inv, NEW w \in Worker, get_after_exception(w), WorkerFrame
  PROVE  Inv'
<1>1. wk[w].pc = "excget" /\ FaultCount /\ "fail" \in WorkerPc
      /\ UNCHANGED <<tableVars, lock, runtimeVars, faults>>
  BY NoFault DEF get_after_exception, At, WorkerPc, Unprotected
<1>2. CASE status[wk[w].task] \in Terminal /\ Return(w)
  <2>1. faults' = 0 => ~OpenRun(wk[w].run)
    BY <1>1, WorkerFacts DEF CleanFits, RunPc, Leaving
  <2> QED
    BY <1>1, <1>2, <2>1, EndInv DEF Watching, Terminal
<1>3. CASE Goto(w, "fail")
  <2>1. ASSUME NEW c, Moved(w, c, "fail", wk[w].next)
        PROVE  StatusFits(c) /\ RunsFit(c) /\ (faults' = 0 => CleanFits(c))
    BY <1>1, <2>1, WorkerFacts
       DEF Moved, StatusFits, RunsFit, CleanFits, Planned, Started, Failing, Leaving,
           RunPc
  <2> QED
    BY <1>1, <1>3, <2>1, GotoInv DEF Claimed, Holding, Watching
<1> QED
  BY <1>2, <1>3 DEF get_after_exception

-----------------------------------------------------------------------------
(* The registry of processes.                                              *)

\* A coroutine that goes on, whatever becomes of lock and registry.
LEMMA MovedQuiet ==
  ASSUME Inv, NEW w \in Worker, NEW c, WorkerMove(w, c), UNCHANGED tableVars,
         ClaimedState(c) <=> Claimed(w), c.run = wk[w].run,
         StatusFits(c), RunsFit(c), faults' = 0 => CleanFits(c)
  PROVE  Quiet(w, c)
<1>1. TableTypeOK'
  BY DEF Inv, TypeInvariant, TableTypeOK, tableVars
<1> QED
  BY <1>1 DEF Quiet, tableVars

\* The process enters the registry.
LEMMA RegisterInv ==
  ASSUME Inv, NEW w \in Worker, register(w), WorkerFrame
  PROVE  Inv'
<1>1. wk[w].pc = "register" /\ FaultCount /\ {"await", "closerun"} \subseteq WorkerPc
      /\ UNCHANGED <<tableVars, lock, killed, faults>>
  BY NoFault DEF register, At, WorkerPc, Holding
<1>2. NoSuccess(wk[w].task)
  BY <1>1, OpenMeansNoSuccess DEF RunPc
<1>3. CASE Leave(w, "closerun") /\ UNCHANGED proc
  <2>1. ASSUME NEW c, Moved(w, c, "release", "closerun")
        PROVE  StatusFits(c) /\ RunsFit(c) /\ (faults' = 0 => CleanFits(c))
    BY <1>1, <1>2, <2>1, WorkerFacts
       DEF Moved, StatusFits, RunsFit, CleanFits, Planned, Started, Failing, Leaving,
           RunPc, Terminal
  <2> QED
    BY <1>1, <1>3, <2>1, LeaveInv DEF Holding, Watching, runtimeVars
<1>4. CASE Goto(w, "await") /\ proc' = proc \cup {wk[w].task}
  <2>1. PICK c : Moved(w, c, "await", wk[w].next)
    BY <1>1, <1>4, GotoMoves
  <2>2. StatusFits(c) /\ RunsFit(c) /\ (faults' = 0 => CleanFits(c))
    BY <1>1, <1>2, <2>1, WorkerFacts
       DEF Moved, StatusFits, RunsFit, CleanFits, Planned, Started, Failing, Leaving,
           RunPc
  <2>3. ClaimedState(c) <=> Claimed(w)
    BY <1>1, <2>1 DEF Moved, ClaimedState, Claimed
  <2>4. Quiet(w, c)
    BY <1>1, <2>1, <2>2, <2>3, MovedQuiet DEF Moved
  <2>5. WorkUnderLock'
    BY <1>1, <2>1, LockStays DEF Moved, Holding
  <2>6. wk[w].task \in TaskId
    BY <1>1, WorkerFacts DEF StatusFits, Inv, TypeInvariant, TableTypeOK
  <2>7. /\ wk'[w] = c
        /\ \A x \in Worker : x # w => wk'[x] = wk[x]
    BY <2>1 DEF Moved, WorkerMove, Inv, TypeInvariant
  <2>8. RegistryExact'
    <3>1. wk'[w].pc \in Watching /\ wk'[w].task = wk[w].task /\ wk[w].pc \notin Watching
      BY <2>1, <2>7, <1>1 DEF Moved, Watching
    <3>2. killed' \subseteq proc'
      BY <1>1, <1>4 DEF Inv, RegistryExact
    <3> QED
      BY <3>1, <3>2, <2>7, <1>4, RegistryAsExists DEF Inv
  <2> QED
    BY <1>1, <1>4, <2>4, <2>5, <2>6, <2>8, QuietInv DEF Inv, TypeInvariant
<1> QED
  BY <1>3, <1>4 DEF register

\* The process ended and is still registered.
LEMMA ProcessEndedInv ==
  ASSUME Inv, NEW w \in Worker, process_ended(w), WorkerFrame
  PROVE  Inv'
<1>1. wk[w].pc = "await" /\ FaultCount /\ "dereg" \in WorkerPc
      /\ UNCHANGED <<tableVars, batch, lock, runtimeVars, faults>>
  BY NoFault DEF process_ended, At, WorkerPc, Holding
<1>2. PICK result \in RunTerminal :
        wk' = [wk EXCEPT ![w].pc = "dereg", ![w].result = result]
  BY DEF process_ended, RunTerminal, RunStatus, RunActive
<1> DEFINE c == [wk[w] EXCEPT !.pc = "dereg", !.result = result]
<1>3. /\ c \in WorkerState
      /\ c.pc = "dereg" /\ c.next = wk[w].next
      /\ c.task = wk[w].task /\ c.run = wk[w].run
  BY <1>1, WorkerFacts DEF WorkerState
<1>4. wk' = [wk EXCEPT ![w] = c]
  BY <1>2 DEF Inv, TypeInvariant
<1> HIDE DEF c
<1>5. WorkerMove(w, c)
  BY <1>1, <1>3, <1>4 DEF WorkerMove, WorkerFrame, FaultCount, Inv, TypeInvariant
<1>6. StatusFits(c) /\ RunsFit(c) /\ (faults' = 0 => CleanFits(c))
  BY <1>1, <1>3, WorkerFacts
     DEF StatusFits, RunsFit, CleanFits, Planned, Started, Failing, Leaving, RunPc
<1>7. ClaimedState(c) <=> Claimed(w)
  BY <1>1, <1>3 DEF ClaimedState, Claimed
<1>8. Quiet(w, c)
  BY <1>1, <1>3, <1>5, <1>6, <1>7, MovedQuiet
<1>9. Still(w, c)
  BY <1>1, <1>3, <1>8 DEF Still, runtimeVars, Holding, Watching
<1> QED
  BY <1>9, StillInv

\* Process and mark leave the registry: no other worker waits for this task.
LEMMA DeregisterInv ==
  ASSUME Inv, NEW w \in Worker, deregister(w), WorkerFrame
  PROVE  Inv'
<1>1. wk[w].pc = "dereg" /\ FaultCount /\ "finrun" \in WorkerPc
      /\ Goto(w, "finrun") /\ UNCHANGED <<tableVars, lock, faults>>
      /\ proc' = proc \ {wk[w].task} /\ killed' = killed \ {wk[w].task}
  BY NoFault DEF deregister, At, WorkerPc, Holding
<1>2. PICK c : Moved(w, c, "finrun", wk[w].next)
  BY <1>1, GotoMoves
<1>3. StatusFits(c) /\ RunsFit(c) /\ (faults' = 0 => CleanFits(c))
  BY <1>1, <1>2, WorkerFacts
     DEF Moved, StatusFits, RunsFit, CleanFits, Planned, Started, Failing, Leaving,
         RunPc
<1>4. ClaimedState(c) <=> Claimed(w)
  BY <1>1, <1>2 DEF Moved, ClaimedState, Claimed
<1>5. Quiet(w, c)
  BY <1>1, <1>2, <1>3, <1>4, MovedQuiet DEF Moved
<1>6. WorkUnderLock'
  BY <1>1, <1>2, LockStays DEF Moved, Holding
<1>7. /\ wk'[w] = c
      /\ \A x \in Worker : x # w => wk'[x] = wk[x]
  BY <1>2 DEF Moved, WorkerMove, Inv, TypeInvariant
<1>8. RegistryExact'
  <2>1. wk'[w].pc \notin Watching /\ wk[w].pc \in Watching
    BY <1>1, <1>2, <1>7 DEF Moved, Watching
  <2>2. \A v \in Worker : wk[v].pc \in Watching /\ v # w => wk[v].task # wk[w].task
    BY <1>1 DEF Inv, ExclusiveClaim, Claimed, Watching
  <2>3. killed' \subseteq proc'
    BY <1>1 DEF Inv, RegistryExact
  <2> QED
    BY <2>1, <2>2, <2>3, <1>1, <1>7, RegistryAsExists DEF Inv
<1> QED
  BY <1>1, <1>5, <1>6, <1>8, QuietInv DEF Inv, TypeInvariant

-----------------------------------------------------------------------------
(* The project lock.                                                       *)

\* The lock was free or stale: nobody else works under it.
LEMMA AcquireInv ==
  ASSUME Inv, NEW w \in Worker, acquire(w), WorkerFrame
  PROVE  Inv'
<1>1. wk[w].pc = "lock" /\ FaultCount /\ "branch" \in WorkerPc
      /\ Goto(w, "branch") /\ UNCHANGED <<tableVars, runtimeVars, faults>>
      /\ lock[ProjectAt(w)] \in {Free, Stale}
      /\ lock' = [lock EXCEPT ![ProjectAt(w)] = w]
  BY NoFault DEF acquire, At, WorkerPc, Holding
<1>2. PICK c : Moved(w, c, "branch", wk[w].next)
  BY <1>1, GotoMoves
<1>3. StatusFits(c) /\ RunsFit(c) /\ (faults' = 0 => CleanFits(c))
  BY <1>1, <1>2, WorkerFacts
     DEF Moved, StatusFits, RunsFit, CleanFits, Planned, Started, Failing, Leaving,
         RunPc
<1>4. ClaimedState(c) <=> Claimed(w)
  BY <1>1, <1>2 DEF Moved, ClaimedState, Claimed
<1>5. Quiet(w, c)
  BY <1>1, <1>2, <1>3, <1>4, MovedQuiet DEF Moved
<1>6. RegistryExact'
  BY <1>1, <1>2, RegistryStays DEF Moved, Watching, runtimeVars
<1>7. /\ wk'[w] = c
      /\ \A x \in Worker : x # w => wk'[x] = wk[x]
  BY <1>2 DEF Moved, WorkerMove, Inv, TypeInvariant
<1>8. ProjectAt(w) \in Project
  <2>1. wk[w].task \in TaskId
    BY <1>1, WorkerFacts DEF StatusFits, Inv, TypeInvariant, TableTypeOK
  <2> QED
    BY <2>1, ProjectOfAssumption DEF ProjectAt
<1>9. lock' \in [Project -> Worker \cup {Free, Stale, Leaked}]
  BY <1>1 DEF Inv, TypeInvariant
<1>10. WorkUnderLock'
  <2> SUFFICES ASSUME NEW v \in Worker, wk'[v].pc \in Holding
               PROVE  lock'[ProjectOf[wk'[v].task]] = v
    BY DEF WorkUnderLock, ProjectAt
  <2>1. CASE v = w
    <3>1. wk'[w].task = wk[w].task
      BY <1>2, <1>7 DEF Moved
    <3> QED
      BY <2>1, <3>1, <1>1, <1>8 DEF ProjectAt, Inv, TypeInvariant
  <2>2. CASE v # w
    <3>1. lock[ProjectAt(v)] = v /\ wk'[v] = wk[v]
      BY <2>2, <1>7 DEF Inv, WorkUnderLock
    <3>2. ProjectAt(v) # ProjectAt(w)
      BY <3>1, <1>1, WorkerAssumption DEF Free, Stale
    <3> QED
      BY <3>1, <3>2, <1>1 DEF ProjectAt, Inv, TypeInvariant
  <2> QED
    BY <2>1, <2>2
<1> QED
  BY <1>1, <1>5, <1>6, <1>9, <1>10, QuietInv DEF Inv, TypeInvariant, runtimeVars

\* The lock goes from its worker to nobody, or is left behind.
LEMMA LockGiven ==
  ASSUME Inv, NEW w \in Worker, NEW c, WorkerMove(w, c), wk[w].pc \in Holding,
         c.pc \notin Holding, NEW h \in {Free, Leaked},
         lock' = [lock EXCEPT ![ProjectAt(w)] = h]
  PROVE  WorkUnderLock' /\ lock' \in [Project -> Worker \cup {Free, Stale, Leaked}]
<1>1. /\ wk'[w] = c
      /\ \A x \in Worker : x # w => wk'[x] = wk[x]
  BY DEF WorkerMove, Inv, TypeInvariant
<1>2. lock[ProjectAt(w)] = w
  BY DEF Inv, WorkUnderLock
<1>3. ASSUME NEW v \in Worker, wk'[v].pc \in Holding
      PROVE  lock'[ProjectOf[wk'[v].task]] = v
  <2>1. v # w /\ wk'[v] = wk[v]
    BY <1>1, <1>3
  <2>2. lock[ProjectAt(v)] = v
    BY <1>3, <2>1 DEF Inv, WorkUnderLock
  <2>3. ProjectAt(v) # ProjectAt(w)
    BY <2>1, <2>2, <1>2
  <2> QED
    BY <2>1, <2>2, <2>3 DEF ProjectAt, Inv, TypeInvariant
<1> QED
  BY <1>3 DEF WorkUnderLock, ProjectAt, Inv, TypeInvariant

\* The lock is released on the way out.
LEMMA ReleaseInv ==
  ASSUME Inv, NEW w \in Worker, release(w), WorkerFrame
  PROVE  Inv'
<1>1. wk[w].pc = "release" /\ FaultCount
      /\ UNCHANGED <<tableVars, runtimeVars, faults>>
      /\ lock' = [lock EXCEPT ![ProjectAt(w)] = Free]
  BY NoFault DEF release, At
<1>2. wk[w].next \in {"block", "fail", "closerun", "return"} /\ Claimed(w)
  BY <1>1, WorkerFacts DEF StatusFits, Claimed
<1>3. ASSUME NEW c, Quiet(w, c), c.pc \notin Holding
      PROVE  Inv'
  <2>1. WorkUnderLock' /\ lock' \in [Project -> Worker \cup {Free, Stale, Leaked}]
    BY <1>1, <1>3, LockGiven DEF Quiet, Holding
  <2>2. RegistryExact'
    BY <1>1, <1>3, RegistryStays DEF Quiet, Watching, Holding, runtimeVars
  <2> QED
    BY <1>1, <1>3, <2>1, <2>2, QuietInv DEF Inv, TypeInvariant, runtimeVars
<1>4. CASE wk[w].next = "return" /\ Return(w)
  <2>1. status[wk[w].task] # "running" /\ (faults' = 0 => ~OpenRun(wk[w].run))
    BY <1>1, <1>4, WorkerFacts DEF StatusFits, CleanFits, RunPc, Leaving, Terminal
  <2>2. Quiet(w, Idle)
    BY <1>1, <1>4, <2>1, EndQuiet
  <2> QED
    BY <2>2, <1>3 DEF Idle, Holding
<1>5. CASE wk[w].next # "return" /\ Goto(w, wk[w].next)
  <2>1. PICK pc \in WorkerPc : pc = wk[w].next /\ pc \in {"block", "fail", "closerun"}
    BY <1>2, <1>5 DEF WorkerPc, Unprotected
  <2>2. PICK c : Moved(w, c, pc, wk[w].next)
    BY <1>1, <1>5, <2>1, GotoMoves
  <2>3. StatusFits(c) /\ RunsFit(c) /\ (faults' = 0 => CleanFits(c))
    BY <1>1, <2>1, <2>2, WorkerFacts
       DEF Moved, StatusFits, RunsFit, CleanFits, Planned, Started, Failing, Leaving,
           RunPc
  <2>4. ClaimedState(c) <=> Claimed(w)
    BY <1>2, <2>1, <2>2 DEF Moved, ClaimedState
  <2>5. Quiet(w, c)
    BY <1>1, <2>2, <2>3, <2>4, MovedQuiet DEF Moved
  <2> QED
    BY <2>1, <2>2, <2>5, <1>3 DEF Moved, Holding
<1> QED
  BY <1>4, <1>5 DEF release

-----------------------------------------------------------------------------
(* Exceptions.                                                             *)

\* The moves the life cycle has.
LEMMA Legal ==
  /\ \A s \in Terminal : can_transition("running", s)
  /\ can_transition("planning", "failed") /\ can_transition("planning", "blocked")
  /\ \A s \in TaskStatus :
       /\ can_transition(s, "planning") => s \in {"queued", "blocked"}
       /\ s \in Terminal => \A target : ~can_transition(s, target)
BY DEF can_transition, LEGAL_TASK_TRANSITIONS, Terminal, TaskStatus

\* Without a fault, an exception is a refusal: the task was cancelled.
RefusedOnly(w) ==
    faults' = 0 =>
      /\ wk[w].pc \in {"plan", "assign", "run", "finish", "fail", "block"}
      /\ wk[w].pc = "finish" => status[wk[w].task] = "cancelled"
      /\ wk[w].pc = "fail" => status[wk[w].task] \in Terminal

\* An exception, wherever it strikes.
LEMMA RaisedInv ==
  ASSUME Inv, NEW w \in Worker, Raised(w), WorkerFrame, FaultCount,
         UNCHANGED <<tableVars, runtimeVars>>, RefusedOnly(w)
  PROVE  Inv'
<1>1. {"closerun", "excget"} \subseteq WorkerPc
  BY DEF WorkerPc, Unprotected
<1>2. CASE wk[w].pc \in Unprotected /\ Escape(w) /\ UNCHANGED lock
  <2>1. wk[w].pc # "idle" /\ wk[w].pc \notin Watching
    BY <1>2 DEF Unprotected, Watching
  <2>2. faults' = 0 /\ Claimed(w) => status[wk[w].task] # "running"
    BY <1>2, WorkerFacts
       DEF Unprotected, RefusedOnly, Claimed, StatusFits, Planned, Terminal
  <2>3. faults' = 0 => ~OpenRun(wk[w].run)
    BY <1>2, WorkerFacts DEF Unprotected, CleanFits, RunPc, Leaving, FaultCount
  <2> QED
    BY <1>2, <2>1, <2>2, <2>3, EndInv
<1>3. CASE wk[w].pc \in Protected /\ Leave(w, "closerun") /\ UNCHANGED lock
  <2>1. faults' = 0 => NoSuccess(wk[w].task) \/ status[wk[w].task] = "cancelled"
    BY <1>3, WorkerFacts
       DEF RefusedOnly, RunsFit, Planned, Protected, Holding, NoRun, NoSuccess
  <2>2. wk[w].pc \in {"branch", "run", "mkrun", "strun", "finrun", "check", "finish"}
    BY <1>3 DEF Protected, Holding
  <2>3. ASSUME NEW c, Moved(w, c, "release", "closerun")
        PROVE  StatusFits(c) /\ RunsFit(c) /\ (faults' = 0 => CleanFits(c))
    BY <2>1, <2>2, <2>3, WorkerFacts
       DEF Moved, StatusFits, RunsFit, CleanFits, Planned, Started, Failing, Leaving,
           RunPc, Terminal
  <2> QED
    BY <1>1, <1>3, <2>2, <2>3, LeaveInv DEF Holding, Watching
<1>4. CASE At(w, "lock") /\ Goto(w, "closerun") /\ UNCHANGED lock
  <2>1. wk[w].pc = "lock" /\ faults' # 0
    BY <1>4 DEF At, RefusedOnly
  <2>2. ASSUME NEW c, Moved(w, c, "closerun", wk[w].next)
        PROVE  StatusFits(c) /\ RunsFit(c) /\ (faults' = 0 => CleanFits(c))
    BY <2>1, <2>2, WorkerFacts
       DEF Moved, StatusFits, RunsFit, CleanFits, Planned, Started, Failing, Leaving,
           RunPc, Terminal
  <2> QED
    BY <1>1, <1>4, <2>1, <2>2, GotoInv DEF Claimed, Holding, Watching
<1>5. CASE At(w, "closerun") /\ Goto(w, "excget") /\ UNCHANGED lock
  <2>1. wk[w].pc = "closerun" /\ faults' # 0
    BY <1>5 DEF At, RefusedOnly
  <2>2. ASSUME NEW c, Moved(w, c, "excget", wk[w].next)
        PROVE  StatusFits(c) /\ RunsFit(c) /\ (faults' = 0 => CleanFits(c))
    BY <2>1, <2>2, WorkerFacts
       DEF Moved, StatusFits, RunsFit, CleanFits, Planned, Started, Failing, Leaving,
           RunPc, Terminal
  <2> QED
    BY <1>1, <1>5, <2>1, <2>2, GotoInv DEF Claimed, Holding, Watching
<1>6. CASE /\ At(w, "release") /\ Goto(w, "closerun")
           /\ lock' = [lock EXCEPT ![ProjectAt(w)] = Leaked]
  <2>1. wk[w].pc = "release" /\ faults' # 0
    BY <1>6 DEF At, RefusedOnly
  <2>2. PICK c : Moved(w, c, "closerun", wk[w].next)
    BY <1>1, <1>6, <2>1, GotoMoves
  <2>3. StatusFits(c) /\ RunsFit(c) /\ (faults' = 0 => CleanFits(c))
    BY <2>1, <2>2, WorkerFacts
       DEF Moved, StatusFits, RunsFit, CleanFits, Planned, Started, Failing, Leaving,
           RunPc, Terminal
  <2>4. ClaimedState(c) <=> Claimed(w)
    BY <2>1, <2>2 DEF Moved, ClaimedState, Claimed
  <2>5. Quiet(w, c)
    BY <2>2, <2>3, <2>4, MovedQuiet DEF Moved
  <2>6. WorkUnderLock' /\ lock' \in [Project -> Worker \cup {Free, Stale, Leaked}]
    BY <1>6, <2>1, <2>2, LockGiven DEF Moved, Holding
  <2>7. RegistryExact'
    BY <2>1, <2>2, RegistryStays DEF Moved, Watching, runtimeVars
  <2> QED
    BY <2>5, <2>6, <2>7, QuietInv DEF Inv, TypeInvariant, runtimeVars
<1> QED
  BY <1>2, <1>3, <1>4, <1>5, <1>6 DEF Raised

\* The store refuses a call: the task was cancelled, or it is not running.
LEMMA RefusedInv ==
  ASSUME Inv, NEW w \in Worker, refused(w), WorkerFrame
  PROVE  Inv'
<1>1. Raised(w) /\ FaultCount /\ UNCHANGED <<tableVars, runtimeVars>>
  BY NoFault DEF refused
<1>2. wk[w].pc \in {"plan", "assign", "run", "finish", "fail", "block"}
  BY DEF refused, At
<1>3. ASSUME wk[w].pc = "finish"
      PROVE  status[wk[w].task] = "cancelled"
  <2>1. Target(w) \in Terminal /\ ~can_transition(status[wk[w].task], Target(w))
    BY <1>3 DEF refused, Target, At, Outcome, Terminal
  <2> QED
    BY <1>3, <2>1, Legal, WorkerFacts DEF StatusFits, Started
<1>4. ASSUME wk[w].pc = "fail"
      PROVE  status[wk[w].task] \in Terminal
  <2>1. ~can_transition(status[wk[w].task], "failed") /\ "failed" \in Terminal
    BY <1>4 DEF refused, Target, At, Terminal
  <2> QED
    BY <1>4, <2>1, Legal, WorkerFacts DEF StatusFits, Failing
<1> QED
  BY <1>1, <1>2, <1>3, <1>4, RaisedInv DEF RefusedOnly

\* A call fails.
LEMMA FaultyInv ==
  ASSUME Inv, NEW w \in Worker, faulty(w), WorkerFrame
  PROVE  Inv'
<1>1. faults' # 0 /\ FaultCount
  BY BoundAssumption DEF faulty, FaultCount, Inv, TypeInvariant
<1> QED
  BY <1>1, RaisedInv DEF faulty, RefusedOnly

\* The developer is assigned.
LEMMA AssignInv ==
  ASSUME Inv, NEW w \in Worker, assign(w), WorkerFrame
  PROVE  Inv'
<1>1. wk[w].pc = "assign" /\ FaultCount /\ "lock" \in WorkerPc
      /\ Goto(w, "lock") /\ UNCHANGED <<status, run, lock, runtimeVars, faults>>
  BY NoFault DEF assign, At, WorkerPc, TableAssign
<1>2. TableTypeOK'
  BY <1>1, DeveloperAssumption DEF Inv, TypeInvariant, TableTypeOK, assign, TableAssign
<1>3. PICK c : Moved(w, c, "lock", wk[w].next)
  BY <1>1, GotoMoves
<1>4. StatusFits(c) /\ RunsFit(c) /\ (faults' = 0 => CleanFits(c))
  BY <1>1, <1>3, WorkerFacts
     DEF Moved, StatusFits, RunsFit, CleanFits, Planned, Started, Failing, Leaving,
         RunPc
<1>5. Quiet(w, c)
  BY <1>1, <1>2, <1>3, <1>4 DEF Quiet, Moved, ClaimedState, Claimed
<1>6. Still(w, c)
  BY <1>1, <1>3, <1>5 DEF Still, Moved, runtimeVars, Holding, Watching
<1> QED
  BY <1>6, StillInv

-----------------------------------------------------------------------------
(* Transitions of the task.                                                *)

\* Worker w moves its task to status s and itself to state c.
Transition(w, c, s) ==
    /\ WorkerMove(w, c)
    /\ TableTransition(wk[w].task, s)
    /\ UNCHANGED <<lock, runtimeVars>>
    /\ s \in TaskStatus \ {"pending", "queued"}
    /\ c.pc \in Holding => wk[w].pc \in Holding
    /\ c.pc \notin Watching /\ wk[w].pc \notin Watching
    /\ Claimed(w) \/ status[wk[w].task] \in {"queued", "blocked"}
    /\ s = "blocked" => NoRun(wk[w].task)
    /\ s = "completed" => ~NoSuccess(wk[w].task)
    /\ s = "failed" /\ faults' = 0 => NoSuccess(wk[w].task)
    /\ s = "running" => ClaimedState(c)
    /\ OpenRun(wk[w].run) /\ faults' = 0 => c.run = wk[w].run

\* Such a transition preserves the invariant.
LEMMA TransitionInv ==
  ASSUME Inv, NEW w \in Worker, NEW c, NEW s, Transition(w, c, s), WorkerFits(c)'
  PROVE  Inv'
<1>1. PICK t : t = wk[w].task
  OBVIOUS
<1>2. /\ WorkerMove(w, c)
      /\ t \in DOMAIN status
      /\ status' = [status EXCEPT ![t] = s]
      /\ run' = run /\ assigned' = assigned
  BY <1>1 DEF Transition, TableTransition
<1>3. TableFrame(wk[w].task)
  BY <1>1, <1>2 DEF TableFrame
<1>4. ClaimKept(w, c)
  BY DEF ClaimKept, Transition
<1>5. TaskKept(w, c)
  <2>1. status'[t] = s
    BY <1>2
  <2>2. \A r, q \in DOMAIN run : run[r].task = run[q].task => r = q
    BY DEF Inv, AtMostOneRun
  <2>3. /\ s \notin {"pending", "queued"}
        /\ s = "blocked" => \A r \in DOMAIN run : run[r].task # t
        /\ s = "completed" =>
             \E r \in DOMAIN run : run[r].task = t /\ run[r].status = "succeeded"
        /\ s = "failed" /\ faults' = 0 =>
             \A r \in DOMAIN run : run[r].task = t => run[r].status # "succeeded"
        /\ s = "running" => ClaimedState(c)
    BY <1>1 DEF Transition, NoRun, NoSuccess
  <2>4. ASSUME NEW r \in DOMAIN run, run[r].task = t, OpenRun(r)', faults' = 0
        PROVE  c.run = r \/ (OpenRun(r) /\ wk[w].run # r)
    BY <2>4, <1>1, <1>2 DEF Transition, OpenRun
  <2> QED
    BY <1>1, <1>2, <2>1, <2>2, <2>3, <2>4 DEF TaskKept
<1>6. TypeInvariant'
  <2>1. TableTypeOK'
    BY <1>2 DEF Transition, Inv, TypeInvariant, TableTypeOK
  <2> QED
    BY <1>2, <2>1, MoveType DEF Inv, TypeInvariant, Transition, runtimeVars
<1>7. Finite'
  BY <1>2 DEF Inv, Finite
<1>8. WorkUnderLock'
  BY <1>2, LockStays DEF Transition
<1>9. RegistryExact'
  BY <1>2, RegistryStays DEF Transition, runtimeVars
<1> QED
  BY <1>2, <1>3, <1>4, <1>5, <1>6, <1>7, <1>8, <1>9, WorkerMoveInv

\* After a transition of its task a worker fits, when its state fits the new
\* status and the runs as they are.
LEMMA TransitionFits ==
  ASSUME Inv, NEW w \in Worker, NEW c, NEW s, Transition(w, c, s), c.pc # "idle",
         c.task = wk[w].task, c.pc \notin {"plan", "get", "sem"},
         c.pc = "release" => c.next \in {"block", "fail", "closerun", "return"},
         Planned(c) => s \in {"planning", "cancelled"},
         Started(c) => s \in {"running", "cancelled"},
         Failing(c) => s \in {"planning", "running"} \cup Terminal,
         Leaving(c, {"return"}) => s \in Terminal,
         RunsFit(c), faults' = 0 /\ Failing(c) => NoSuccess(c.task),
         faults' = 0 /\ OpenRun(c.run) => c.pc \in RunPc \cup {"closerun"}
  PROVE  WorkerFits(c)'
<1>1. /\ c.task \in DOMAIN status /\ c.task \in DOMAIN status'
      /\ status'[c.task] = s /\ run' = run
  BY DEF Transition, TableTransition
<1>2. StatusFits(c)'
  BY <1>1 DEF StatusFits
<1>3. RunsFit(c)'
  BY <1>1 DEF RunsFit, NoRun, OpenRun
<1>4. CleanFits(c)'
  BY <1>1 DEF CleanFits, NoSuccess, OpenRun
<1> QED
  BY <1>2, <1>3, <1>4 DEF WorkerFits

\* After the last transition of a coroutine there is nothing left to fit.
LEMMA EndFits ==
  ASSUME Inv, NEW w \in Worker, WorkerMove(w, Idle), run' = run
  PROVE  WorkerFits(Idle)'
<1>1. ~OpenRun(NoneId)'
  BY NoneIsNoRun DEF OpenRun
<1> QED
  BY <1>1
     DEF WorkerFits, StatusFits, RunsFit, CleanFits, Planned, Started, Failing,
         Leaving, RunPc, Idle

\* The claim: the task was queued or blocked, so nobody else has it.
LEMMA ClaimInv ==
  ASSUME Inv, NEW w \in Worker, claim(w), WorkerFrame
  PROVE  Inv'
<1>1. wk[w].pc = "plan" /\ FaultCount /\ {"assign", "fail"} \subseteq WorkerPc
      /\ TableTransition(wk[w].task, "planning")
      /\ UNCHANGED <<lock, runtimeVars, faults>>
  BY NoFault DEF claim, At, WorkerPc, Unprotected
<1>2. PICK pc \in {"assign", "fail"} : Goto(w, pc)
  BY DEF claim, select_developer
<1>3. PICK c : Moved(w, c, pc, wk[w].next)
  BY <1>1, <1>2, GotoMoves
<1>4. status[wk[w].task] \in {"queued", "blocked"}
  BY <1>1, Legal DEF TableTransition, Inv, TypeInvariant, TableTypeOK
<1>5. NoRun(wk[w].task) /\ NoSuccess(wk[w].task)
  BY <1>1, <1>4, WorkerFacts DEF RunsFit, NoRun, NoSuccess
<1>6. faults' = 0 => ~OpenRun(wk[w].run)
  BY <1>1, WorkerFacts DEF CleanFits, RunPc, Leaving
<1>7. Transition(w, c, "planning")
  BY <1>1, <1>3, <1>4, <1>6 DEF Transition, Moved, Holding, Watching, TaskStatus
<1>8. RunsFit(c)
  BY <1>1, <1>3, <1>5, WorkerFacts DEF Moved, RunsFit, RunPc
<1>9. WorkerFits(c)'
  BY <1>3, <1>5, <1>6, <1>7, <1>8, TransitionFits
     DEF Moved, Planned, Started, Failing, Leaving, RunPc
<1> QED
  BY <1>7, <1>9, TransitionInv

\* The task is running from here on, and has no run yet.
LEMMA EnterRunningInv ==
  ASSUME Inv, NEW w \in Worker, enter_running(w), WorkerFrame
  PROVE  Inv'
<1>1. wk[w].pc = "run" /\ FaultCount /\ "mkrun" \in WorkerPc
      /\ TableTransition(wk[w].task, "running") /\ Goto(w, "mkrun")
      /\ UNCHANGED <<lock, runtimeVars, faults>>
  BY NoFault DEF enter_running, At, WorkerPc, Holding
<1>2. PICK c : Moved(w, c, "mkrun", wk[w].next)
  BY <1>1, GotoMoves
<1>3. NoRun(wk[w].task)
  BY <1>1, WorkerFacts DEF RunsFit, Planned
<1>4. faults' = 0 => ~OpenRun(wk[w].run)
  BY <1>1, WorkerFacts DEF CleanFits, RunPc, Leaving
<1>5. Transition(w, c, "running")
  BY <1>1, <1>2, <1>4
     DEF Transition, Moved, Claimed, ClaimedState, Holding, Watching, TaskStatus
<1>6. RunsFit(c)
  BY <1>1, <1>2, <1>3, WorkerFacts DEF Moved, RunsFit, RunPc
<1>7. WorkerFits(c)'
  BY <1>2, <1>4, <1>5, <1>6, TransitionFits
     DEF Moved, Planned, Started, Failing, Leaving, RunPc
<1> QED
  BY <1>5, <1>7, TransitionInv

\* The task ends with what its run's result leads to.
LEMMA FinishTaskInv ==
  ASSUME Inv, NEW w \in Worker, finish_task(w), WorkerFrame
  PROVE  Inv'
<1>1. wk[w].pc = "finish" /\ FaultCount
      /\ TableTransition(wk[w].task, Outcome(wk[w].result)) /\ Leave(w, "return")
      /\ UNCHANGED <<lock, runtimeVars, faults>>
  BY NoFault DEF finish_task, At
<1>2. PICK s : s = Outcome(wk[w].result)
  OBVIOUS
<1>3. PICK c : Moved(w, c, "release", "return")
  BY <1>1, LeaveMoves
<1>4. PICK r \in DOMAIN run : run[r].task = wk[w].task /\ run[r].status = wk[w].result
  BY <1>1, WorkerFacts DEF RunsFit
<1>5. s \in Terminal /\ (s = "completed" <=> wk[w].result = "succeeded")
      /\ s \in TaskStatus \ {"pending", "queued"} /\ s \notin {"blocked", "running"}
  BY <1>2 DEF Outcome, Terminal, TaskStatus
<1>6. s = "completed" => ~NoSuccess(wk[w].task)
  BY <1>4, <1>5 DEF NoSuccess
<1>7. s = "failed" => NoSuccess(wk[w].task)
  BY <1>4, <1>5 DEF NoSuccess, Inv, AtMostOneRun
<1>8. faults' = 0 => ~OpenRun(wk[w].run)
  BY <1>1, WorkerFacts DEF CleanFits, RunPc, Leaving
<1>9. Transition(w, c, s)
  BY <1>1, <1>2, <1>3, <1>5, <1>6, <1>7, <1>8
     DEF Transition, Moved, Claimed, Holding, Watching
<1>10. RunsFit(c)
  BY <1>1, <1>3, WorkerFacts DEF Moved, RunsFit, RunPc, Planned, Leaving
<1>11. WorkerFits(c)'
  BY <1>3, <1>5, <1>8, <1>9, <1>10, TransitionFits
     DEF Moved, Planned, Started, Failing, Leaving, RunPc
<1> QED
  BY <1>9, <1>11, TransitionInv

\* The task fails: it has no succeeded run.
LEMMA FailInv ==
  ASSUME Inv, NEW w \in Worker, _fail(w), WorkerFrame
  PROVE  Inv'
<1>1. wk[w].pc = "fail" /\ FaultCount
      /\ TableTransition(wk[w].task, "failed") /\ Return(w)
      /\ UNCHANGED <<lock, runtimeVars, faults>>
  BY NoFault DEF _fail, At
<1>2. WorkerMove(w, Idle) /\ run' = run
  BY <1>1, EndMoves DEF TableTransition
<1>3. faults' = 0 => ~OpenRun(wk[w].run)
  BY <1>1, WorkerFacts DEF CleanFits, RunPc, Leaving
<1>4. faults' = 0 => NoSuccess(wk[w].task)
  <2>1. status[wk[w].task] # "cancelled"
    BY <1>1, Legal DEF TableTransition, Terminal, TaskStatus
  <2> QED
    BY <2>1, <1>1, WorkerFacts DEF CleanFits, Failing
<1>5. Transition(w, Idle, "failed")
  BY <1>1, <1>2, <1>3, <1>4 DEF Transition, Idle, Claimed, Holding, Watching, TaskStatus
<1> QED
  BY <1>2, <1>5, EndFits, TransitionInv

\* The task is blocked: it has no run.
LEMMA BlockInv ==
  ASSUME Inv, NEW w \in Worker, _block(w), WorkerFrame
  PROVE  Inv'
<1>1. wk[w].pc = "block" /\ FaultCount
      /\ TableTransition(wk[w].task, "blocked") /\ Return(w)
      /\ UNCHANGED <<lock, runtimeVars, faults>>
  BY NoFault DEF _block, At
<1>2. WorkerMove(w, Idle) /\ run' = run
  BY <1>1, EndMoves DEF TableTransition
<1>3. faults' = 0 => ~OpenRun(wk[w].run)
  BY <1>1, WorkerFacts DEF CleanFits, RunPc, Leaving
<1>4. NoRun(wk[w].task)
  BY <1>1, WorkerFacts DEF RunsFit, Planned
<1>5. Transition(w, Idle, "blocked")
  BY <1>1, <1>2, <1>3, <1>4 DEF Transition, Idle, Claimed, Holding, Watching, TaskStatus
<1> QED
  BY <1>2, <1>5, EndFits, TransitionInv

-----------------------------------------------------------------------------
(* The run of the task.                                                    *)

\* Worker w, which has claimed its task, writes run row r of that task.
RunWritten(w, c, r, row) ==
    /\ WorkerMove(w, c)
    /\ UNCHANGED <<status, assigned, lock, runtimeVars>>
    /\ Claimed(w) /\ ClaimedState(c)
    /\ c.pc \in Holding => wk[w].pc \in Holding
    /\ c.pc \notin Watching /\ wk[w].pc \notin Watching
    /\ r \in RunId /\ row \in RunRow /\ row.task = wk[w].task
    /\ run' = Put(run, r, row)
    /\ \A q \in DOMAIN run : run[q].task = wk[w].task => q = r
    /\ r \in DOMAIN run => run[r].task = wk[w].task /\ run[r].status \in RunActive
    /\ row.status \in RunActive => c.run = r
    /\ row.status = "succeeded" => status[wk[w].task] # "failed"

\* Such a write preserves the invariant.
LEMMA RunWrittenInv ==
  ASSUME Inv, NEW w \in Worker, NEW c, NEW r, NEW row, RunWritten(w, c, r, row),
         WorkerFits(c)'
  PROVE  Inv'
<1>1. PICK t : t = wk[w].task
  OBVIOUS
<1>2. /\ WorkerMove(w, c)
      /\ status' = status /\ assigned' = assigned
      /\ DOMAIN run' = DOMAIN run \cup {r}
      /\ run'[r] = row /\ row.task = t
      /\ \A q \in DOMAIN run : q # r => run'[q] = run[q]
      /\ \A q \in DOMAIN run : run[q].task = t => q = r
      /\ r \in DOMAIN run => run[r].task = t /\ run[r].status \in RunActive
  BY <1>1 DEF RunWritten, Put
<1>3. TableFrame(wk[w].task)
  BY <1>1, <1>2 DEF TableFrame
<1>4. ClaimKept(w, c)
  BY DEF ClaimKept, RunWritten
<1>5. TaskKept(w, c)
  <2>1. status[t] \notin {"queued", "blocked"}
    BY <1>1, WorkerFacts DEF RunWritten, StatusFits, Claimed, Planned, Started, Failing,
         Leaving, RunPc, Terminal, WorkerState, WorkerPc, Unprotected, Holding
  <2>2. status[t] = "failed" /\ faults' = 0 =>
          \A q \in DOMAIN run' : run'[q].task = t => run'[q].status # "succeeded"
    BY <1>1, <1>2 DEF RunWritten
  <2>3. ClaimedState(c)
    BY DEF RunWritten
  <2>4. \A q \in DOMAIN run' : run'[q].task = t /\ OpenRun(q)' => c.run = q
    BY <1>2 DEF RunWritten, OpenRun
  <2>5. \A q, s \in DOMAIN run' : run'[q].task = t /\ run'[s].task = t => q = s
    BY <1>2
  <2> QED
    BY <1>1, <1>2, <2>1, <2>2, <2>3, <2>4, <2>5 DEF TaskKept
<1>6. TypeInvariant'
  <2>1. TableTypeOK'
    <3>1. run' \in [DOMAIN run' -> RunRow] /\ DOMAIN run' \subseteq RunId
      BY DEF RunWritten, Put, Inv, TypeInvariant, TableTypeOK
    <3> QED
      BY <3>1, <1>2 DEF Inv, TypeInvariant, TableTypeOK
  <2> QED
    BY <1>2, <2>1, MoveType DEF Inv, TypeInvariant, RunWritten, runtimeVars
<1>7. Finite'
  BY <1>2, FS_AddElement DEF Inv, Finite
<1>8. WorkUnderLock'
  BY <1>2, LockStays DEF RunWritten
<1>9. RegistryExact'
  BY <1>2, RegistryStays DEF RunWritten, runtimeVars
<1> QED
  BY <1>2, <1>3, <1>4, <1>5, <1>6, <1>7, <1>8, <1>9, WorkerMoveInv

\* A status update of a run row, as a write of the whole row.
LEMMA RunUpdate ==
  ASSUME Inv, NEW r \in DOMAIN run, NEW s \in RunStatus,
         run' = [run EXCEPT ![r].status = s]
  PROVE  \E row \in RunRow : /\ row.task = run[r].task /\ row.status = s
                             /\ run' = Put(run, r, row)
<1> DEFINE row == [run[r] EXCEPT !.status = s]
<1>1. run[r] \in RunRow /\ run \in [DOMAIN run -> RunRow]
  BY DEF Inv, TypeInvariant, TableTypeOK
<1>2. row \in RunRow /\ row.task = run[r].task /\ row.status = s
  BY <1>1 DEF RunRow
<1>3. run' = Put(run, r, row)
  BY <1>1 DEF Put
<1> QED
  BY <1>2, <1>3

\* A worker with its run open, or on its way to open it.
LEMMA RunFits ==
  ASSUME Inv, NEW w \in Worker, NEW c, NEW r, NEW row, RunWritten(w, c, r, row),
         c.pc \in RunPc, wk[w].pc \in {"mkrun"} \cup RunPc,
         c.task = wk[w].task, c.run = r, row.status \in RunActive
  PROVE  WorkerFits(c)'
<1>1. run'[r] = row /\ r \in DOMAIN run' /\ status' = status /\ row.task = c.task
  BY DEF RunWritten, Put
<1>2. status[c.task] \in {"running", "cancelled"} /\ c.task \in DOMAIN status
  BY WorkerFacts DEF StatusFits, Started, RunPc
<1>3. StatusFits(c)'
  BY <1>1, <1>2 DEF StatusFits, Planned, Failing, Leaving, RunPc
<1>4. RunsFit(c)'
  BY <1>1 DEF RunsFit, OpenRun, Planned, Leaving, RunPc
<1>5. CleanFits(c)'
  BY DEF CleanFits, Failing, Leaving, RunPc
<1> QED
  BY <1>3, <1>4, <1>5 DEF WorkerFits

\* The first run of the task.
LEMMA CreateRunInv ==
  ASSUME Inv, NEW w \in Worker, create_run(w), WorkerFrame
  PROVE  Inv'
<1>1. wk[w].pc = "mkrun" /\ FaultCount /\ UNCHANGED <<batch, lock, runtimeVars, faults>>
  BY NoFault DEF create_run, At
<1>2. PICK r \in RunId : /\ TableCreateRun(r, wk[w].task)
                         /\ wk' = [wk EXCEPT ![w].pc = "strun", ![w].run = r]
  BY DEF create_run
<1>0. PICK c : c = [wk[w] EXCEPT !.pc = "strun", !.run = r]
  OBVIOUS
<1>3. /\ c \in WorkerState
      /\ c.pc = "strun" /\ c.run = r /\ c.task = wk[w].task
  <2>1. "strun" \in WorkerPc /\ r \in RunId \cup {NoneId}
    BY DEF WorkerPc, Holding
  <2> QED
    BY <1>0, <2>1, WorkerFacts DEF WorkerState
<1>4. wk' = [wk EXCEPT ![w] = c]
  BY <1>0, <1>2 DEF Inv, TypeInvariant
<1>5. WorkerMove(w, c)
  BY <1>1, <1>3, <1>4 DEF WorkerMove, WorkerFrame, FaultCount, Inv, TypeInvariant
<1>a. PICK row : row = [task |-> wk[w].task, status |-> "queued"]
  OBVIOUS
<1>6. row \in RunRow /\ row.task = wk[w].task /\ row.status = "queued"
  <2>1. wk[w].task \in TaskId
    BY <1>2 DEF TableCreateRun, Inv, TypeInvariant, TableTypeOK
  <2> QED
    BY <1>a, <2>1 DEF RunRow, RunStatus
<1>7. /\ run' = Put(run, r, row) /\ r \notin DOMAIN run
      /\ status' = status /\ assigned' = assigned
  BY <1>a, <1>2 DEF TableCreateRun
<1>8. \A q \in DOMAIN run : run[q].task # wk[w].task
  BY <1>1, WorkerFacts DEF RunsFit, NoRun
<1>9. RunWritten(w, c, r, row)
  BY <1>1, <1>3, <1>5, <1>6, <1>7, <1>8
     DEF RunWritten, Claimed, ClaimedState, Holding, Watching, RunActive
<1>10. WorkerFits(c)'
  <2>1. row.status \in RunActive
    BY <1>6 DEF RunActive
  <2> QED
    BY <1>1, <1>3, <1>9, <2>1, RunFits DEF RunPc
<1> QED
  BY <1>9, <1>10, RunWrittenInv

\* The run of the task is started.
LEMMA StartRunInv ==
  ASSUME Inv, NEW w \in Worker, start_run(w), WorkerFrame
  PROVE  Inv'
<1>1. wk[w].pc = "strun" /\ FaultCount /\ UNCHANGED <<lock, runtimeVars, faults>>
      /\ TableStartRun(wk[w].run) /\ Goto(w, "exec") /\ "exec" \in WorkerPc
  BY NoFault DEF start_run, At, WorkerPc, Holding
<1>2. PICK c : Moved(w, c, "exec", wk[w].next)
  BY <1>1, GotoMoves
<1>3. PICK r : r = wk[w].run
  OBVIOUS
<1>4. /\ r \in DOMAIN run /\ r \in RunId
      /\ run[r].task = wk[w].task /\ run[r].status \in RunActive
  BY <1>1, <1>3, OpenMeansNoSuccess DEF RunPc, Inv, TypeInvariant, TableTypeOK
<1>5. run' = [run EXCEPT ![r].status = "running"] /\ status' = status /\ assigned' = assigned
  BY <1>1, <1>3 DEF TableStartRun
<1>6. PICK row \in RunRow : /\ row.task = run[r].task /\ row.status = "running"
                            /\ run' = Put(run, r, row)
  BY <1>4, <1>5, RunUpdate DEF RunStatus
<1>7. \A q \in DOMAIN run : run[q].task = wk[w].task => q = r
  BY <1>4 DEF Inv, AtMostOneRun
<1>8. RunWritten(w, c, r, row)
  BY <1>1, <1>2, <1>3, <1>4, <1>5, <1>6, <1>7
     DEF RunWritten, Moved, Claimed, ClaimedState, Holding, Watching, RunActive
<1>9. WorkerFits(c)'
  <2>1. row.status \in RunActive
    BY <1>6 DEF RunActive
  <2> QED
    BY <1>1, <1>2, <1>3, <1>8, <2>1, RunFits DEF RunPc, Moved
<1> QED
  BY <1>8, <1>9, RunWrittenInv

\* The run is closed with the result of its process.
LEMMA FinishRunInv ==
  ASSUME Inv, NEW w \in Worker, finish_run(w), WorkerFrame
  PROVE  Inv'
<1>1. wk[w].pc = "finrun" /\ FaultCount /\ UNCHANGED <<batch, lock, runtimeVars, faults>>
      /\ TableFinishRun(wk[w].run, wk[w].result)
      /\ wk' = [wk EXCEPT ![w].pc = "check", ![w].run = NoneId]
  BY NoFault DEF finish_run, At
<1>0. PICK c : c = [wk[w] EXCEPT !.pc = "check", !.run = NoneId]
  OBVIOUS
<1>2. /\ c \in WorkerState
      /\ c.pc = "check" /\ c.run = NoneId /\ c.task = wk[w].task /\ c.result = wk[w].result
  <2>1. "check" \in WorkerPc /\ NoneId \in RunId \cup {NoneId}
    BY DEF WorkerPc, Holding
  <2> QED
    BY <1>0, <2>1, WorkerFacts DEF WorkerState
<1>3. wk' = [wk EXCEPT ![w] = c]
  BY <1>0, <1>1 DEF Inv, TypeInvariant
<1>4. WorkerMove(w, c)
  BY <1>1, <1>2, <1>3 DEF WorkerMove, WorkerFrame, FaultCount, Inv, TypeInvariant
<1>5. PICK r : r = wk[w].run
  OBVIOUS
<1>6. /\ r \in DOMAIN run /\ r \in RunId
      /\ run[r].task = wk[w].task /\ run[r].status \in RunActive
  BY <1>1, <1>5, OpenMeansNoSuccess DEF RunPc, Inv, TypeInvariant, TableTypeOK
<1>7. PICK s : s = wk[w].result
  OBVIOUS
<1>8. run' = [run EXCEPT ![r].status = s] /\ status' = status /\ assigned' = assigned
      /\ s \in RunTerminal
  BY <1>1, <1>5, <1>7 DEF TableFinishRun
<1>9. PICK row \in RunRow : /\ row.task = run[r].task /\ row.status = s
                            /\ run' = Put(run, r, row)
  BY <1>6, <1>8, RunUpdate DEF RunTerminal
<1>10. \A q \in DOMAIN run : run[q].task = wk[w].task => q = r
  BY <1>6 DEF Inv, AtMostOneRun
<1>11. status[wk[w].task] \in {"running", "cancelled"} /\ wk[w].task \in DOMAIN status
  BY <1>1, WorkerFacts DEF StatusFits, Started, RunPc
<1>12. RunWritten(w, c, r, row)
  BY <1>1, <1>2, <1>4, <1>6, <1>8, <1>9, <1>10, <1>11
     DEF RunWritten, Claimed, ClaimedState, Holding, Watching, RunTerminal
<1>13. WorkerFits(c)'
  <2>1. r \in DOMAIN run' /\ run'[r].task = c.task /\ run'[r].status = c.result
    BY <1>2, <1>6, <1>7, <1>9 DEF Put
  <2>2. StatusFits(c)'
    BY <1>2, <1>8, <1>11 DEF StatusFits, Planned, Started, Failing, Leaving, RunPc
  <2>3. RunsFit(c)'
    BY <1>2, <2>1 DEF RunsFit, Planned, Leaving, RunPc
  <2>4. ~OpenRun(NoneId)'
    BY <1>6, <1>9, RunIdAssumption
       DEF OpenRun, Put, Inv, TypeInvariant, TableTypeOK, NoneId
  <2>5. CleanFits(c)'
    BY <1>2, <2>4 DEF CleanFits, Failing, Leaving
  <2> QED
    BY <2>2, <2>3, <2>5 DEF WorkerFits
<1> QED
  BY <1>12, <1>13, RunWrittenInv

\* After an exception an open run is closed as failed.
LEMMA CloseRunInv ==
  ASSUME Inv, NEW w \in Worker, close_run(w), WorkerFrame
  PROVE  Inv'
<1>1. wk[w].pc = "closerun" /\ FaultCount /\ UNCHANGED <<lock, runtimeVars, faults>>
      /\ Goto(w, "excget") /\ "excget" \in WorkerPc
  BY NoFault DEF close_run, At, WorkerPc, Unprotected
<1>2. CASE wk[w].run = NoneId /\ UNCHANGED tableVars
  <2>1. ~OpenRun(wk[w].run)
    BY <1>2, NoneIsNoRun
  <2>2. ASSUME NEW c, Moved(w, c, "excget", wk[w].next)
        PROVE  StatusFits(c) /\ RunsFit(c) /\ (faults' = 0 => CleanFits(c))
    BY <1>1, <2>1, <2>2, WorkerFacts
       DEF Moved, StatusFits, RunsFit, CleanFits, Planned, Started, Failing, Leaving,
           RunPc
  <2> QED
    BY <1>1, <1>2, <2>2, GotoInv DEF Claimed, Holding, Watching
<1>3. CASE wk[w].run # NoneId /\ TableFinishRun(wk[w].run, "failed")
  <2>1. PICK c : Moved(w, c, "excget", wk[w].next)
    BY <1>1, GotoMoves
  <2>2. PICK r : r = wk[w].run
    OBVIOUS
  <2>3. /\ r \in DOMAIN run /\ r \in RunId
        /\ run[r].task = wk[w].task /\ run[r].status \in RunActive
    BY <1>3, <2>2, WorkerFacts
       DEF TableFinishRun, RunsFit, Inv, TypeInvariant, TableTypeOK
  <2>4. run' = [run EXCEPT ![r].status = "failed"] /\ status' = status /\ assigned' = assigned
    BY <1>3, <2>2 DEF TableFinishRun
  <2>5. PICK row \in RunRow : /\ row.task = run[r].task /\ row.status = "failed"
                              /\ run' = Put(run, r, row)
    BY <2>3, <2>4, RunUpdate DEF RunStatus
  <2>6. \A q \in DOMAIN run : run[q].task = wk[w].task => q = r
    BY <2>3 DEF Inv, AtMostOneRun
  <2>7. RunWritten(w, c, r, row)
    BY <1>1, <2>1, <2>3, <2>4, <2>5, <2>6
       DEF RunWritten, Moved, Claimed, ClaimedState, Holding, Watching, RunActive
  <2>8. WorkerFits(c)'
    <3>1. c.pc = "excget" /\ c.task = wk[w].task /\ c.run = r
      BY <2>1, <2>2 DEF Moved
    <3>2. DOMAIN run' = DOMAIN run /\ run'[r].task = c.task /\ run'[r].status = "failed"
          /\ \A q \in DOMAIN run : q # r => run'[q] = run[q]
      BY <2>3, <2>5, <3>1 DEF Put
    <3>3. StatusFits(c)'
      BY <1>1, <2>4, <3>1, WorkerFacts
         DEF StatusFits, Planned, Started, Failing, Leaving, RunPc
    <3>4. RunsFit(c)'
      BY <2>3, <3>1, <3>2 DEF RunsFit, Planned, Leaving, RunPc
    <3>5. CleanFits(c)'
      <4>1. ~OpenRun(c.run)'
        BY <3>1, <3>2 DEF OpenRun, RunActive
      <4>2. NoSuccess(c.task)'
        BY <2>6, <3>1, <3>2 DEF NoSuccess
      <4> QED
        BY <4>1, <4>2 DEF CleanFits
    <3> QED
      BY <3>3, <3>4, <3>5 DEF WorkerFits
  <2> QED
    BY <2>7, <2>8, RunWrittenInv
<1> QED
  BY <1>2, <1>3 DEF close_run

-----------------------------------------------------------------------------
(* Every step of a worker.                                                 *)

\* Whatever a worker does preserves the invariant.
LEMMA ProcessTaskInv ==
  ASSUME Inv, NEW w \in Worker, process_task(w) \/ worker_fault(w)
  PROVE  Inv'
<1>1. CASE worker_fault(w)
  BY <1>1, FaultyInv DEF worker_fault
<1>2. CASE process_task(w)
  BY <1>2, PermitInv, GetTaskInv, ClaimInv, AssignInv, AcquireInv, LockTimeoutInv,
     CreateTaskBranchInv, EnterRunningInv, CreateRunInv, StartRunInv, LaunchInv,
     RegisterInv, ProcessEndedInv, DeregisterInv, FinishRunInv, CheckCancelledInv,
     FinishTaskInv, ReleaseInv, CloseRunInv, GetAfterExceptionInv, FailInv, BlockInv,
     RefusedInv
     DEF process_task
<1> QED
  BY <1>1, <1>2

-----------------------------------------------------------------------------
(* The poll.                                                               *)

\* Enough idle coroutines for the listed tasks: no two tasks share one.
LEMMA ServingExists ==
  ASSUME Inv, Cardinality(list_queued_tasks) <= Cardinality(IdleWorkers)
  PROVE  Serving \in [list_queued_tasks -> IdleWorkers]
<1> DEFINE S == list_queued_tasks
           T == IdleWorkers
<1>1. IsFiniteSet(S) /\ IsFiniteSet(T)
  <2>1. S \in SUBSET DOMAIN status /\ T \in SUBSET Worker
    BY DEF list_queued_tasks, Queued, IdleWorkers
  <2> QED
    BY <2>1, FS_Subset, WorkerAssumption DEF Inv, Finite
<1>2. Cardinality(S) \in Nat /\ Cardinality(T) \in Nat
  BY <1>1, FS_CardinalityType
<1> HIDE DEF S, T
<1>3. PICK f : f \in Bijection(1..Cardinality(S), S)
  BY <1>1, FS_CardinalityType DEF ExistsBijection
<1>4. PICK g : g \in Bijection(1..Cardinality(T), T)
  BY <1>1, FS_CardinalityType DEF ExistsBijection
<1>5. /\ f \in [1..Cardinality(S) -> S]
      /\ \A t \in S : \E i \in 1..Cardinality(S) : f[i] = t
      /\ g \in [1..Cardinality(T) -> T]
      /\ \A i, j \in 1..Cardinality(T) : g[i] = g[j] => i = j
  BY <1>3, <1>4 DEF Bijection, Injection, Surjection, IsInjective
<1> DEFINE rank == [t \in S |-> CHOOSE i \in 1..Cardinality(S) : f[i] = t]
           h    == [t \in S |-> g[rank[t]]]
<1>6. \A t \in S : rank[t] \in 1..Cardinality(S) /\ f[rank[t]] = t
  BY <1>5
<1> HIDE DEF rank
<1>7. Cardinality(S) <= Cardinality(T)
  BY DEF S, T
<1>8. \A t \in S : rank[t] \in 1..Cardinality(T)
  BY <1>2, <1>6, <1>7
<1>9. h \in [S -> T]
  BY <1>5, <1>8
<1>10. \A t, u \in S : h[t] = h[u] => t = u
  BY <1>5, <1>6, <1>8
<1> HIDE DEF h
<1>11. \E x \in [S -> T] : \A t, u \in S : x[t] = x[u] => t = u
  BY <1>9, <1>10
<1> QED
  BY <1>11 DEF S, T, Serving

\* Each listed task gets a coroutine that was idle.
LEMMA RunOnceInv ==
  ASSUME Inv, run_once
  PROVE  Inv'
<1>1. /\ loop = "poll" /\ loop' = "gather"
      /\ UNCHANGED <<tableVars, wake, lock, runtimeVars, announce, cn, boundVars>>
      /\ Serving \in [list_queued_tasks -> IdleWorkers]
  BY ServingExists DEF run_once
<1>2. batch' \subseteq Worker
  BY <1>1 DEF run_once, IdleWorkers
<1>3. ASSUME NEW w \in Worker
      PROVE  \/ wk'[w] = wk[w]
             \/ /\ wk[w].pc = "idle"
                /\ \E t \in DOMAIN status : wk'[w] = [Idle EXCEPT !.pc = "sem", !.task = t]
  <2>1. CASE \E t \in list_queued_tasks : Serving[t] = w
    <3>1. wk[w].pc = "idle"
      BY <1>1, <2>1 DEF IdleWorkers
    <3>2. PICK t \in list_queued_tasks : t = CHOOSE u \in list_queued_tasks : Serving[u] = w
      BY <2>1
    <3>3. wk'[w] = [Idle EXCEPT !.pc = "sem", !.task = t]
      BY <2>1, <3>2 DEF run_once
    <3>4. t \in DOMAIN status
      BY DEF list_queued_tasks, Queued
    <3> QED
      BY <3>1, <3>3, <3>4
  <2>2. CASE ~\E t \in list_queued_tasks : Serving[t] = w
    BY <2>2 DEF run_once
  <2> QED
    BY <2>1, <2>2
<1>4. ASSUME NEW w \in Worker, wk'[w] # wk[w]
      PROVE  /\ wk[w].pc = "idle"
             /\ wk'[w] \in WorkerState
             /\ wk'[w].pc = "sem" /\ wk'[w].run = NoneId
             /\ wk'[w].task \in DOMAIN status
  <2>1. PICK t \in DOMAIN status :
          wk[w].pc = "idle" /\ wk'[w] = [Idle EXCEPT !.pc = "sem", !.task = t]
    BY <1>3, <1>4
  <2>2. t \in TaskId
    BY DEF Inv, TypeInvariant, TableTypeOK
  <2> QED
    BY <2>1, <2>2 DEF Idle, WorkerState, WorkerPc, RunTerminal
<1>5. TypeInvariant'
  <2>1. wk' \in [Worker -> WorkerState]
    <3>1. wk' = [w \in Worker |-> wk'[w]]
      BY DEF run_once
    <3>2. \A w \in Worker : wk'[w] \in WorkerState
      BY <1>4 DEF Inv, TypeInvariant
    <3> QED
      BY <3>1, <3>2
  <2> QED
    BY <1>1, <1>2, <2>1
       DEF Inv, TypeInvariant, TableTypeOK, tableVars, runtimeVars, boundVars
<1>6. ASSUME NEW w \in Worker
      PROVE  WorkerFits(wk[w])'
  <2>2. status' = status /\ run' = run /\ faults' = faults
    BY <1>1 DEF tableVars, boundVars
  <2>3. CASE wk'[w] = wk[w]
    BY <2>2, <2>3
       DEF Inv, WorkerFits, StatusFits, RunsFit, CleanFits, Planned, Started, Failing,
           Leaving, RunPc, NoRun, NoSuccess, OpenRun
  <2>4. CASE wk'[w] # wk[w]
    BY <1>4, <2>2, <2>4, NoneIsNoRun
       DEF WorkerFits, StatusFits, RunsFit, CleanFits, Planned, Started, Failing,
           Leaving, RunPc, NoRun, NoSuccess, OpenRun
  <2> QED
    BY <2>3, <2>4
<1>7. \A w \in Worker : Claimed(w)' \/ Claimed(w) => wk'[w] = wk[w]
  BY <1>4 DEF Claimed
<1>8. ExclusiveClaim'
  BY <1>7 DEF Inv, ExclusiveClaim, Claimed
<1>9. WorkUnderLock'
  <2>1. \A w \in Worker : wk'[w].pc \in Holding => wk'[w] = wk[w]
    BY <1>4 DEF Holding
  <2> QED
    BY <1>1, <2>1 DEF Inv, WorkUnderLock, ProjectAt
<1>10. RegistryExact'
  <2>1. \A w \in Worker : wk'[w].pc \in Watching \/ wk[w].pc \in Watching => wk'[w] = wk[w]
    BY <1>4 DEF Watching
  <2> QED
    BY <1>1, <2>1, RegistryAsExists DEF Inv, runtimeVars
<1>11. RunningOwned'
  <2>1. \A t : Owned(t) => Owned(t)'
    BY <1>7 DEF Owned, Claimed
  <2>2. ASSUME faults = 0, NEW r \in DOMAIN run, run[r].status \in RunActive,
               NEW w \in Worker, wk[w].run = r
        PROVE  wk'[w].run = r
    <3>1. wk[w].pc # "idle"
      BY <2>2, WorkerFacts DEF CleanFits, OpenRun, RunPc, Leaving
    <3> QED
      BY <3>1, <2>2, <1>4
  <2> QED
    BY <1>1, <2>1, <2>2 DEF Inv, RunningOwned, Up, tableVars, boundVars
<1>12. RunsHaveTasks' /\ AtMostOneRun' /\ OutcomeBacked' /\ Finite'
  BY <1>1
     DEF Inv, RunsHaveTasks, AtMostOneRun, OutcomeBacked, Finite, NoRun, tableVars,
         boundVars
<1>13. QuietStart'
  BY <1>1 DEF QuietStart, Up
<1> QED
  BY <1>5, <1>6, <1>8, <1>9, <1>10, <1>11, <1>12, <1>13 DEF Inv

-----------------------------------------------------------------------------
(* Steps that leave workers, tasks and runs alone.                         *)

\* Only the loop, the requests or the counters change.
Aside ==
    /\ UNCHANGED <<tableVars, wk, lock, proc>>
    /\ killed' \subseteq proc
    /\ FaultCount
    /\ loop' \in {"poll", "gather", "wait"} \/ loop' = loop
    /\ Up \/ loop' = loop
    /\ wake' \in BOOLEAN /\ batch' \subseteq Worker /\ announce' \subseteq TaskId
    /\ cn' \in [Canceller -> [pc : CancelPc, task : TaskId \cup {NoneId}]]
    /\ downs' = downs

\* Such a step preserves the invariant.
LEMMA AsideInv ==
  ASSUME Inv, Aside
  PROVE  Inv'
<1>1. /\ status' = status /\ assigned' = assigned /\ run' = run /\ wk' = wk
      /\ lock' = lock /\ proc' = proc /\ killed' \subseteq proc
      /\ faults' = 0 => faults = 0
  BY DEF Aside, tableVars, FaultCount
<1>2. TypeInvariant'
  BY <1>1 DEF Inv, TypeInvariant, TableTypeOK, Aside, FaultCount
<1>3. \A w \in Worker : WorkerFits(wk[w])'
  BY <1>1
     DEF Inv, WorkerFits, StatusFits, RunsFit, CleanFits, Planned, Started, Failing,
         Leaving, RunPc, NoRun, NoSuccess, OpenRun
<1>4. ExclusiveClaim' /\ WorkUnderLock' /\ RegistryExact'
  BY <1>1 DEF Inv, ExclusiveClaim, Claimed, WorkUnderLock, ProjectAt, RegistryExact
<1>5. RunsHaveTasks' /\ AtMostOneRun' /\ OutcomeBacked' /\ Finite'
  BY <1>1 DEF Inv, RunsHaveTasks, AtMostOneRun, OutcomeBacked, Finite, NoRun
<1>6. RunningOwned'
  BY <1>1 DEF Inv, RunningOwned, Up, Owned, Claimed, Aside
<1>7. QuietStart'
  BY <1>1 DEF Inv, QuietStart, Aside, Up
<1> QED
  BY <1>2, <1>3, <1>4, <1>5, <1>6, <1>7 DEF Inv

\* The polling loop between two polls.
LEMMA LoopInv ==
  ASSUME Inv, gathered \/ woken \/ poll_timeout \/ poll_failed
  PROVE  Inv'
<1>1. FaultCount
  BY BoundAssumption, NoFault
     DEF gathered, woken, poll_timeout, poll_failed, FaultCount, Inv, TypeInvariant,
         boundVars
<1>2. Aside
  BY <1>1 DEF Up, Aside, gathered, woken, poll_timeout, poll_failed, Inv, TypeInvariant,
       RegistryExact, tableVars, runtimeVars, boundVars
<1> QED
  BY <1>2, AsideInv

\* A new task wakes the loop.
LEMMA EnqueueInv ==
  ASSUME Inv, NEW t \in TaskId, enqueue_task(t)
  PROVE  Inv'
<1>1. FaultCount
  BY NoFault DEF enqueue_task, boundVars
<1>2. Aside
  BY <1>1
     DEF Aside, enqueue_task, Inv, TypeInvariant, RegistryExact, tableVars,
         runtimeVars, boundVars
<1> QED
  BY <1>2, AsideInv

\* A cancel request reads its task.
LEMMA CancelReadInv ==
  ASSUME Inv, NEW c \in Canceller, NEW t \in TaskId, cancel_read(c, t), CancelFrame
  PROVE  Inv'
<1>1. FaultCount
  BY NoFault DEF cancel_read
<1>2. cn' \in [Canceller -> [pc : CancelPc, task : TaskId \cup {NoneId}]]
  <2>1. PICK pc : pc = CASE status[t] \in Terminal -> "returned"
                         [] status[t] = "running"  -> "runtime"
                         [] OTHER                  -> "commit"
    OBVIOUS
  <2>2. pc \in CancelPc
    BY <2>1 DEF CancelPc
  <2>3. cn' = [cn EXCEPT ![c] = [pc |-> pc, task |-> t]]
    BY <2>1 DEF cancel_read
  <2> QED
    BY <2>2, <2>3 DEF Inv, TypeInvariant
<1>3. Aside
  BY <1>1, <1>2 DEF Aside, cancel_read, CancelFrame, Inv, TypeInvariant, RegistryExact,
       tableVars, runtimeVars, loopVars
<1> QED
  BY <1>3, AsideInv

\* A cancel request moves on.
LEMMA CancelStepType ==
  ASSUME Inv, NEW c \in Canceller, NEW pc \in CancelPc, CancelStep(c, pc)
  PROVE  cn' \in [Canceller -> [pc : CancelPc, task : TaskId \cup {NoneId}]]
BY DEF Inv, TypeInvariant, CancelStep

\* It marks a registered process, or fails.
LEMMA CancelRuntimeInv ==
  ASSUME Inv, NEW c \in Canceller, cancel_runtime(c) \/ cancel_fault(c), CancelFrame
  PROVE  Inv'
<1>1. FaultCount
  BY NoFault DEF cancel_runtime, cancel_fault
<1>2. cn' \in [Canceller -> [pc : CancelPc, task : TaskId \cup {NoneId}]]
  BY CancelStepType DEF cancel_runtime, cancel_fault, CancelPc
<1>3. Aside
  BY <1>1, <1>2 DEF Aside, cancel_runtime, cancel_fault, CancelFrame, Inv, TypeInvariant,
       RegistryExact, tableVars, runtimeVars, loopVars
<1> QED
  BY <1>3, AsideInv

\* The request commits: its task is cancelled, whoever works on it.
LEMMA CancelCommitInv ==
  ASSUME Inv, NEW c \in Canceller, cancel_commit(c), CancelFrame
  PROVE  Inv'
<1>1. FaultCount
  BY NoFault DEF cancel_commit
<1>2. cn' \in [Canceller -> [pc : CancelPc, task : TaskId \cup {NoneId}]]
  BY CancelStepType DEF cancel_commit, CancelPc
<1>3. CASE UNCHANGED tableVars
  <2>1. Aside
    BY <1>1, <1>2, <1>3 DEF Aside, cancel_commit, CancelFrame, Inv, TypeInvariant,
         RegistryExact, tableVars, runtimeVars, loopVars
  <2> QED
    BY <2>1, AsideInv
<1>4. CASE TableTransition(cn[c].task, "cancelled")
  <2>1. PICK t : t = cn[c].task
    OBVIOUS
  <2>2. /\ t \in DOMAIN status
        /\ status' = [status EXCEPT ![t] = "cancelled"]
        /\ assigned' = assigned /\ run' = run
        /\ UNCHANGED <<loop, wake, batch, wk, lock, announce, downs, proc, killed, faults>>
    BY <1>4, <2>1 DEF TableTransition, cancel_commit, CancelFrame, loopVars, runtimeVars
  <2>3. /\ DOMAIN status' = DOMAIN status
        /\ \A u \in DOMAIN status : status'[u] = IF u = t THEN "cancelled" ELSE status[u]
    BY <2>2
  <2>4. TypeInvariant'
    BY <1>2, <2>2 DEF Inv, TypeInvariant, TableTypeOK, TaskStatus
  <2>5. ASSUME NEW w \in Worker
        PROVE  WorkerFits(wk[w])'
    <3>1. PICK d : d = wk[w] /\ d = wk'[w]
      BY <2>2
    <3>2. StatusFits(d) /\ RunsFit(d) /\ CleanFits(d) /\ d \in WorkerState
      BY <3>1, WorkerFacts
    <3>3. StatusFits(d)'
      BY <2>3, <3>2 DEF StatusFits, Planned, Started, Failing, Leaving, RunPc, Terminal
    <3>4. RunsFit(d)'
      BY <2>2, <2>3, <3>2 DEF RunsFit, StatusFits, NoRun, OpenRun
    <3>5. CleanFits(d)'
      BY <2>2, <2>3, <3>2 DEF CleanFits, StatusFits, NoSuccess, OpenRun, Failing, Leaving
    <3> QED
      BY <3>1, <3>3, <3>4, <3>5 DEF WorkerFits
  <2>6. ExclusiveClaim' /\ WorkUnderLock' /\ RegistryExact' /\ QuietStart'
    BY <2>2
       DEF Inv, ExclusiveClaim, Claimed, WorkUnderLock, ProjectAt, RegistryExact,
           QuietStart, Up
  <2>7. RunsHaveTasks' /\ AtMostOneRun' /\ OutcomeBacked' /\ Finite'
    BY <2>2, <2>3 DEF Inv, RunsHaveTasks, AtMostOneRun, OutcomeBacked, Finite, NoRun
  <2>8. RunningOwned'
    BY <2>2, <2>3 DEF Inv, RunningOwned, Up, Owned, Claimed
  <2> QED
    BY <2>4, <2>5, <2>6, <2>7, <2>8 DEF Inv
<1> QED
  BY <1>3, <1>4 DEF cancel_commit

\* A new task has no run and no worker.
LEMMA CreateTaskInv ==
  ASSUME Inv, NEW t \in TaskId, create_task(t)
  PROVE  Inv'
<1>1. /\ t \notin DOMAIN status
      /\ status' = Put(status, t, "queued") /\ assigned' = Put(assigned, t, {}) /\ run' = run
      /\ announce' = announce \cup {t}
      /\ UNCHANGED <<loop, wake, batch, wk, lock, cn, proc, killed, faults, downs>>
  BY DEF create_task, TableCreate, loopVars, runtimeVars, boundVars
<1>2. /\ DOMAIN status' = DOMAIN status \cup {t}
      /\ status'[t] = "queued"
      /\ \A u \in DOMAIN status : status'[u] = status[u]
  BY <1>1 DEF Put
<1>3. TypeInvariant'
  <2>1. status' \in [DOMAIN status' -> TaskStatus]
    BY <1>1 DEF Put, Inv, TypeInvariant, TableTypeOK, TaskStatus
  <2>2. assigned' \in [DOMAIN status' -> SUBSET Agent]
    BY <1>1, <1>2 DEF Put, Inv, TypeInvariant, TableTypeOK
  <2> QED
    BY <1>1, <1>2, <2>1, <2>2 DEF Inv, TypeInvariant, TableTypeOK
<1>4. ASSUME NEW w \in Worker
      PROVE  WorkerFits(wk[w])'
  <2>1. PICK d : d = wk[w] /\ d = wk'[w]
    BY <1>1
  <2>2. StatusFits(d) /\ RunsFit(d) /\ CleanFits(d) /\ d \in WorkerState
    BY <2>1, WorkerFacts
  <2>3. StatusFits(d)'
    BY <1>2, <2>2 DEF StatusFits, Planned, Started, Failing, Leaving, RunPc
  <2>4. RunsFit(d)'
    BY <1>1, <1>2, <2>2 DEF RunsFit, StatusFits, NoRun, OpenRun
  <2>5. CleanFits(d)'
    BY <1>1, <1>2, <2>2 DEF CleanFits, StatusFits, NoSuccess, OpenRun, Failing, Leaving
  <2> QED
    BY <2>1, <2>3, <2>4, <2>5 DEF WorkerFits
<1>5. ExclusiveClaim' /\ WorkUnderLock' /\ RegistryExact' /\ QuietStart'
  BY <1>1
     DEF Inv, ExclusiveClaim, Claimed, WorkUnderLock, ProjectAt, RegistryExact,
         QuietStart, Up
<1>6. RunsHaveTasks' /\ AtMostOneRun'
  BY <1>1, <1>2 DEF Inv, RunsHaveTasks, AtMostOneRun, NoRun
<1>7. OutcomeBacked'
  BY <1>1, <1>2 DEF Inv, OutcomeBacked
<1>8. Finite'
  BY <1>1, <1>2, FS_AddElement DEF Inv, Finite
<1>9. RunningOwned'
  BY <1>1, <1>2 DEF Inv, RunningOwned, Up, Owned, Claimed
<1> QED
  BY <1>3, <1>4, <1>5, <1>6, <1>7, <1>8, <1>9 DEF Inv

-----------------------------------------------------------------------------
(* Start and end of the hub.                                               *)

\* Idle workers fit any tables.
LEMMA AllIdleFit ==
  ASSUME \A w \in Worker : wk'[w] = Idle, TypeInvariant'
  PROVE  /\ \A w \in Worker : WorkerFits(wk[w])'
         /\ ExclusiveClaim' /\ WorkUnderLock' /\ QuietStart'
         /\ proc' = {} /\ killed' = {} => RegistryExact'
<1>1. ~OpenRun(NoneId)'
  BY RunIdAssumption DEF OpenRun, NoneId, TypeInvariant, TableTypeOK
<1>2. \A w \in Worker : WorkerFits(wk[w])'
  BY <1>1
     DEF WorkerFits, StatusFits, RunsFit, CleanFits, Planned, Started, Failing,
         Leaving, RunPc, Idle
<1>3. ExclusiveClaim' /\ WorkUnderLock' /\ QuietStart'
  BY DEF ExclusiveClaim, Claimed, WorkUnderLock, Holding, QuietStart, Idle
<1>4. proc' = {} /\ killed' = {} => RegistryExact'
  BY RegistryAsExists DEF Watching, Idle
<1> QED
  BY <1>2, <1>3, <1>4

\* What the previous process left open is closed before anybody works.
LEMMA ReconcileInv ==
  ASSUME Inv, initialize \/ run_forever
  PROVE  Inv'
<1>1. /\ (~Up \/ loop = "starting") /\ loop' \in {"starting", "poll"}
      /\ TableReconcile
      /\ UNCHANGED <<wake, batch, wk, lock, proc, killed, announce, cn, faults, downs>>
  BY DEF initialize, run_forever, runtimeVars, boundVars
<1>2. \A w \in Worker : wk[w] = Idle /\ wk'[w] = Idle
  BY <1>1 DEF Inv, QuietStart
<1>3. /\ DOMAIN status' = DOMAIN status
      /\ \A t \in DOMAIN status :
           status'[t] = IF status[t] \in {"planning", "running"} THEN "blocked" ELSE status[t]
      /\ assigned' = assigned
  BY <1>1 DEF TableReconcile
<1>4. /\ DOMAIN run' = DOMAIN run
      /\ \A r \in DOMAIN run :
           /\ run'[r] \in RunRow
           /\ run'[r].task = run[r].task
           /\ run'[r].status \notin RunActive
           /\ run'[r].status = "succeeded" <=> run[r].status = "succeeded"
  <2>1. \A r \in DOMAIN run : run[r] \in RunRow
    BY DEF Inv, TypeInvariant, TableTypeOK
  <2>2. /\ DOMAIN run' = DOMAIN run
        /\ \A r \in DOMAIN run :
             run'[r] = IF run[r].status \in RunActive
                       THEN [run[r] EXCEPT !.status = "interrupted"] ELSE run[r]
    BY <1>1 DEF TableReconcile
  <2> QED
    BY <2>1, <2>2 DEF RunRow, RunStatus, RunActive
<1>5. TypeInvariant'
  <2>1. status' \in [DOMAIN status' -> TaskStatus]
    <3>1. status' = [t \in DOMAIN status |-> status'[t]]
      BY <1>1 DEF TableReconcile
    <3> QED
      BY <3>1, <1>3 DEF Inv, TypeInvariant, TableTypeOK, TaskStatus
  <2>2. run' \in [DOMAIN run' -> RunRow]
    <3>1. run' = [r \in DOMAIN run |-> run'[r]]
      BY <1>1 DEF TableReconcile
    <3> QED
      BY <3>1, <1>4
  <2> QED
    BY <1>1, <1>3, <1>4, <2>1, <2>2 DEF Inv, TypeInvariant, TableTypeOK
<1>6. /\ \A w \in Worker : WorkerFits(wk[w])'
      /\ ExclusiveClaim' /\ WorkUnderLock' /\ QuietStart'
  BY <1>2, <1>5, AllIdleFit
<1>7. RegistryExact'
  BY <1>1 DEF Inv, RegistryExact
<1>8. RunsHaveTasks' /\ AtMostOneRun' /\ Finite'
  BY <1>3, <1>4 DEF Inv, RunsHaveTasks, AtMostOneRun, Finite, NoRun
<1>9. OutcomeBacked'
  BY <1>1, <1>3, <1>4 DEF Inv, OutcomeBacked
<1>10. RunningOwned'
  BY <1>3, <1>4 DEF RunningOwned
<1> QED
  BY <1>5, <1>6, <1>7, <1>8, <1>9, <1>10 DEF Inv

\* A crash or a shutdown loses every coroutine, and the hub is down.
LEMMA DownInv ==
  ASSUME Inv, crash \/ shutdown
  PROVE  Inv'
<1>1. MemoryLost
  BY DEF crash, shutdown
<1>2. /\ loop' \in {"down", "stopped"} /\ wake' = FALSE /\ batch' = {} /\ announce' = {}
      /\ wk' = [w \in Worker |-> Idle] /\ proc' = {} /\ killed' = {}
      /\ status' = status /\ assigned' = assigned /\ run' = run /\ faults' = faults
      /\ downs' \in 0..MaxDowns
  BY <1>1, BoundAssumption DEF crash, shutdown, MemoryLost, tableVars, Inv, TypeInvariant
<1>3. lock' \in [Project -> Worker \cup {Free, Stale, Leaked}]
  <2>1. CASE crash
    BY <2>1 DEF crash
  <2>2. CASE shutdown
    BY <2>2 DEF shutdown
  <2> QED
    BY <2>1, <2>2
<1>4. cn' \in [Canceller -> [pc : CancelPc, task : TaskId \cup {NoneId}]]
  <2>1. \A c \in Canceller : cn[c] \in [pc : CancelPc, task : TaskId \cup {NoneId}]
    BY DEF Inv, TypeInvariant
  <2>2. "lost" \in CancelPc
    BY DEF CancelPc
  <2> QED
    BY <1>1, <2>1, <2>2 DEF MemoryLost
<1>5. Idle \in WorkerState
  BY DEF Idle, WorkerState, WorkerPc, RunTerminal
<1>6. TypeInvariant'
  BY <1>2, <1>3, <1>4, <1>5 DEF Inv, TypeInvariant, TableTypeOK
<1>7. /\ \A w \in Worker : WorkerFits(wk[w])'
      /\ ExclusiveClaim' /\ WorkUnderLock' /\ QuietStart' /\ RegistryExact'
  BY <1>2, <1>6, AllIdleFit
<1>8. RunsHaveTasks' /\ AtMostOneRun' /\ OutcomeBacked' /\ Finite'
  BY <1>2 DEF Inv, RunsHaveTasks, AtMostOneRun, OutcomeBacked, Finite, NoRun
<1>9. RunningOwned'
  BY <1>2 DEF RunningOwned, Up
<1> QED
  BY <1>6, <1>7, <1>8, <1>9 DEF Inv

\* Initially nothing is stored and the hub is down.
LEMMA InitInv == Init => Inv
<1> SUFFICES ASSUME Init PROVE Inv
  OBVIOUS
<1>1. DOMAIN status = {} /\ DOMAIN run = {} /\ DOMAIN assigned = {}
  BY DEF Init, TableInit, EmptyTable
<1>2. Idle \in WorkerState
  BY DEF Idle, WorkerState, WorkerPc, RunTerminal
<1>3. TypeInvariant
  <2>1. TableTypeOK
    BY <1>1 DEF Init, TableInit, EmptyTable, TableTypeOK
  <2>2. cn \in [Canceller -> [pc : CancelPc, task : TaskId \cup {NoneId}]]
    BY DEF Init, CancelPc
  <2>3. faults \in 0..MaxFaults /\ downs \in 0..MaxDowns
    BY BoundAssumption DEF Init
  <2>4. /\ wk \in [Worker -> WorkerState]
        /\ lock \in [Project -> Worker \cup {Free, Stale, Leaked}]
    BY <1>2 DEF Init
  <2> QED
    BY <2>1, <2>2, <2>3, <2>4 DEF Init, TypeInvariant
<1>4. \A w \in Worker : WorkerFits(wk[w])
  BY <1>1
     DEF Init, WorkerFits, StatusFits, RunsFit, CleanFits, Planned, Started, Failing,
         Leaving, RunPc, OpenRun, Idle
<1>5. ExclusiveClaim /\ WorkUnderLock /\ QuietStart
  BY DEF Init, ExclusiveClaim, Claimed, WorkUnderLock, Holding, QuietStart, Idle
<1>6. RegistryExact
  BY RegistryAsExists DEF Init, Watching, Idle
<1>7. RunsHaveTasks /\ AtMostOneRun /\ OutcomeBacked /\ RunningOwned
  BY <1>1 DEF RunsHaveTasks, AtMostOneRun, OutcomeBacked, RunningOwned
<1>8. Finite
  BY <1>1, FS_EmptySet DEF Finite
<1> QED
  BY <1>3, <1>4, <1>5, <1>6, <1>7, <1>8 DEF Inv

\* Every step preserves the invariant.
LEMMA NextInv == Inv /\ [Next]_vars => Inv'
<1> SUFFICES ASSUME Inv, [Next]_vars PROVE Inv'
  OBVIOUS
<1>1. ASSUME NEW t \in TaskId, create_task(t) \/ enqueue_task(t)
      PROVE  Inv'
  BY <1>1, CreateTaskInv, EnqueueInv
<1>2. CASE initialize \/ Polling \/ poll_failed
  BY <1>2, ReconcileInv, RunOnceInv, LoopInv DEF Polling
<1>3. ASSUME NEW w \in Worker, process_task(w) \/ worker_fault(w)
      PROVE  Inv'
  BY <1>3, ProcessTaskInv
<1>4. ASSUME NEW c \in Canceller,
             \/ cancel_task(c)
             \/ \E t \in TaskId : cancel_read(c, t) /\ CancelFrame
             \/ cancel_fault(c) /\ CancelFrame
      PROVE  Inv'
  BY <1>4, CancelReadInv, CancelRuntimeInv, CancelCommitInv DEF cancel_task
<1>5. CASE crash \/ shutdown
  BY <1>5, DownInv
<1>6. CASE UNCHANGED vars
  <2>1. Aside
    BY <1>6, NoFault
       DEF vars, Aside, loopVars, runtimeVars, boundVars, Inv, TypeInvariant,
           RegistryExact
  <2> QED
    BY <2>1, AsideInv
<1> QED
  BY <1>1, <1>2, <1>3, <1>4, <1>5, <1>6 DEF Next

\* The invariant holds in every behaviour of the orchestrator.
THEOREM OrchestratorInv == Spec => []Inv
<1> QED
  BY InitInv, NextInv, PTL DEF Spec

\* Whatever interleaving of workers, cancel requests, failing calls, crashes and
\* shutdowns: a task is claimed by one worker at a time, and worked on only under
\* its project's lock.
THEOREM OrchestratorExclusion == Spec => [](ExclusiveClaim /\ WorkUnderLock)
<1>1. Inv => ExclusiveClaim /\ WorkUnderLock
  BY DEF Inv
<1> QED
  BY <1>1, OrchestratorInv, PTL

\* The types, the process registry of the runtime, and at most one run per task.
THEOREM OrchestratorRuns == Spec => [](TypeInvariant /\ RegistryExact /\ AtMostOneRun)
<1>1. Inv => TypeInvariant /\ RegistryExact /\ AtMostOneRun
  BY DEF Inv
<1> QED
  BY <1>1, OrchestratorInv, PTL

\* The outcome of a task is backed by its run, and no running task or open run is
\* left without a worker, unless a call failed.
THEOREM OrchestratorOutcome == Spec => [](OutcomeBacked /\ RunningOwned)
<1>1. Inv => OutcomeBacked /\ RunningOwned
  BY DEF Inv
<1> QED
  BY <1>1, OrchestratorInv, PTL
=============================================================================
