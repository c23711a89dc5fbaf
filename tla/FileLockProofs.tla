---------------------------- MODULE FileLockProofs ----------------------------
(***************************************************************************)
(* Proofs about FileLock, for every finite set of threads and every number *)
(* of crashes: there is always a fresh inode number, a malformed file is   *)
(* never taken away, the lock is exclusive as long as recoveries do not    *)
(* overlap, and the first process of the hub sees the lock of ProjectLock. *)
(***************************************************************************)
EXTENDS FileLock, FiniteSetTheorems, TLAPS

USE ThreadAssumption, MaxCrashesAssumption

-----------------------------------------------------------------------------
(* Fresh inode numbers.                                                    *)

\* A function on a finite set has no more values than arguments.
LEMMA ValuesBounded ==
  ASSUME NEW S, IsFiniteSet(S), NEW f, f \in [S -> {f[x] : x \in S}]
  PROVE  IsFiniteSet({f[x] : x \in S}) /\ Cardinality({f[x] : x \in S}) <= Cardinality(S)
<1> DEFINE T == {f[x] : x \in S}
<1>1. f \in Surjection(S, T)
  BY DEF Surjection
<1> HIDE DEF T
<1>2. IsFiniteSet(T) /\ Cardinality(T) <= Cardinality(S)
  BY <1>1, FS_Surjection
<1> QED
  BY <1>2 DEF T

\* There are more inode numbers than a file and the threads can remember.
LEMMA FreshExists ==
  ASSUME TypeOK
  PROVE  \E n \in Inodes : /\ n # file.ino
                           /\ \A t \in Thread : n # th[t].mine /\ n # th[t].snap.ino
<1> DEFINE f == [t \in Thread |-> th[t].mine]
           g == [t \in Thread |-> th[t].snap.ino]
           M == {f[t] : t \in Thread}
           G == {g[t] : t \in Thread}
           c == Cardinality(Thread)
<1>1. c \in Nat
  BY FS_CardinalityType
<1>2. IsFiniteSet(M) /\ Cardinality(M) <= c /\ Cardinality(M) \in Nat
  <2>1. f \in [Thread -> {f[t] : t \in Thread}]
    OBVIOUS
  <2> HIDE DEF f
  <2>2. IsFiniteSet(M) /\ Cardinality(M) <= c
    BY <2>1, ValuesBounded
  <2> QED
    BY <2>2, FS_CardinalityType
<1>3. IsFiniteSet(G) /\ Cardinality(G) <= c /\ Cardinality(G) \in Nat
  <2>1. g \in [Thread -> {g[t] : t \in Thread}]
    OBVIOUS
  <2> HIDE DEF g
  <2>2. IsFiniteSet(G) /\ Cardinality(G) <= c
    BY <2>1, ValuesBounded
  <2> QED
    BY <2>2, FS_CardinalityType
<1>4. \A t \in Thread : th[t].mine \in M /\ th[t].snap.ino \in G
  OBVIOUS
<1> HIDE DEF M, G
<1>5. IsFiniteSet(M \cup G) /\ Cardinality(M \cup G) <= 2 * c /\ Cardinality(M \cup G) \in Nat
  <2>1. IsFiniteSet(M \cap G)
    BY <1>2, FS_Subset
  <2>2. Cardinality(M \cap G) \in Nat
    BY <2>1, FS_CardinalityType
  <2>3. IsFiniteSet(M \cup G)
        /\ Cardinality(M \cup G) = Cardinality(M) + Cardinality(G) - Cardinality(M \cap G)
    BY <1>2, <1>3, FS_Union
  <2>4. Cardinality(M \cup G) \in Nat
    BY <2>3, FS_CardinalityType
  <2> QED
    BY <1>1, <1>2, <1>3, <2>2, <2>3, <2>4
<1> DEFINE U == (M \cup G) \cup {file.ino}
<1>6. IsFiniteSet(U) /\ Cardinality(U) <= 2 * c + 1
  <2>1. IsFiniteSet(U) /\ Cardinality(U) = IF file.ino \in M \cup G THEN Cardinality(M \cup G)
                                           ELSE Cardinality(M \cup G) + 1
    BY <1>5, FS_AddElement
  <2> QED
    BY <1>1, <1>5, <2>1
<1>7. IsFiniteSet(Inodes) /\ Cardinality(Inodes) = 2 * c + 2
  <2>1. 2 * c + 2 \in Int /\ 1 \in Int
    BY <1>1
  <2>2. /\ IsFiniteSet(1..(2 * c + 2))
        /\ Cardinality(1..(2 * c + 2)) = IF 1 > 2 * c + 2 THEN 0 ELSE (2 * c + 2) - 1 + 1
    BY <2>1, FS_Interval
  <2> QED
    BY <1>1, <2>2 DEF Inodes
<1>8. ~(Inodes \subseteq U)
  <2>1. SUFFICES ASSUME Inodes \subseteq U PROVE FALSE
    OBVIOUS
  <2>2. Cardinality(Inodes) <= Cardinality(U)
    BY <1>6, <2>1, FS_Subset
  <2>3. Cardinality(U) \in Nat
    BY <1>6, FS_CardinalityType
  <2> QED
    BY <1>1, <1>6, <1>7, <2>2, <2>3
<1> QED
  BY <1>4, <1>8

\* FreshInode is one of them.
LEMMA FreshInodeFresh ==
  ASSUME TypeOK
  PROVE  /\ FreshInode \in Inodes /\ FreshInode # 0 /\ FreshInode # file.ino
         /\ \A t \in Thread : FreshInode # th[t].mine
<1>1. /\ FreshInode \in Inodes
      /\ FreshInode # file.ino
      /\ \A t \in Thread : FreshInode # th[t].mine /\ FreshInode # th[t].snap.ino
  BY FreshExists DEF FreshInode
<1>2. 0 \notin Inodes
  BY FS_CardinalityType DEF Inodes
<1> QED
  BY <1>1, <1>2

-----------------------------------------------------------------------------
(* What one thread does.                                                   *)

ThreadState == [pc : Pc, mine : Inodes \cup {0}, snap : File]

\* The file on disk was created by this thread.
Owning(t) == th[t].pc \in {"write", "held", "rel_lstat", "rel_unlink"}

\* Only the thread t moves.
OnlyThread(t) ==
    /\ th' \in [Thread -> ThreadState]
    /\ \A s \in Thread : s # t => th'[s] = th[s]

\* No file, or one with a number of its own and the pid of its process.
FileOK == file # NoFile => file.ino # 0 /\ file.pid \in 1..pid

\* A thread remembers a number of its own exactly from creating its file on until
\* it gives it up.
OwnersNumbered == \A t \in Thread : th[t].mine # 0 <=> Owning(t)

Base == TypeOK /\ FileOK /\ OwnersNumbered

\* NoFile and Idle are well-typed.
LEMMA NothingTyped == NoFile \in File /\ Idle \in ThreadState
<1>1. 0 \in 0..MaxCrashes + 1
  OBVIOUS
<1>2. NoFile \in File
  BY <1>1 DEF NoFile, File
<1> QED
  BY <1>2 DEF Idle, ThreadState, Pc

\* A thread changes its place.
LEMMA GotoEffect ==
  ASSUME TypeOK, NEW t \in Thread, NEW p \in Pc, Goto(t, p)
  PROVE  /\ OnlyThread(t)
         /\ th'[t].pc = p /\ th'[t].mine = th[t].mine /\ th'[t].snap = th[t].snap
<1> DEFINE c == [th[t] EXCEPT !.pc = p]
<1>1. th \in [Thread -> ThreadState]
  BY DEF TypeOK, ThreadState
<1>2. c \in ThreadState /\ c.pc = p /\ c.mine = th[t].mine /\ c.snap = th[t].snap
  BY <1>1 DEF ThreadState
<1>3. th' = [th EXCEPT ![t] = c]
  BY DEF Goto
<1> QED
  BY <1>1, <1>2, <1>3 DEF OnlyThread

\* A thread forgets what it read, or takes a snapshot.
LEMMA SnapEffect ==
  ASSUME TypeOK, NEW t \in Thread, NEW p \in Pc, NEW f \in File,
         th' = [th EXCEPT ![t].pc = p, ![t].snap = f]
  PROVE  /\ OnlyThread(t)
         /\ th'[t].pc = p /\ th'[t].mine = th[t].mine /\ th'[t].snap = f
<1> DEFINE c == [th[t] EXCEPT !.pc = p, !.snap = f]
<1>1. th \in [Thread -> ThreadState]
  BY DEF TypeOK, ThreadState
<1>2. c \in ThreadState /\ c.pc = p /\ c.mine = th[t].mine /\ c.snap = f
  BY <1>1 DEF ThreadState
<1>3. th' = [th EXCEPT ![t] = c]
  OBVIOUS
<1> QED
  BY <1>1, <1>2, <1>3 DEF OnlyThread

\* A thread has created a file.
LEMMA MineEffect ==
  ASSUME TypeOK, NEW t \in Thread, NEW p \in Pc, NEW n \in Inodes,
         th' = [th EXCEPT ![t].pc = p, ![t].mine = n]
  PROVE  OnlyThread(t) /\ th'[t].pc = p /\ th'[t].mine = n
<1> DEFINE c == [th[t] EXCEPT !.pc = p, !.mine = n]
<1>1. th \in [Thread -> ThreadState]
  BY DEF TypeOK, ThreadState
<1>2. c \in ThreadState /\ c.pc = p /\ c.mine = n
  BY <1>1 DEF ThreadState
<1>3. th' = [th EXCEPT ![t] = c]
  OBVIOUS
<1> QED
  BY <1>1, <1>2, <1>3 DEF OnlyThread

\* A lock object is done with.
LEMMA IdleEffect ==
  ASSUME TypeOK, NEW t \in Thread, th' = [th EXCEPT ![t] = Idle]
  PROVE  OnlyThread(t) /\ th'[t].pc = "idle" /\ th'[t].mine = 0
BY NothingTyped DEF TypeOK, ThreadState, OnlyThread, Idle

-----------------------------------------------------------------------------
(* The five ways in which a step changes the file and the threads.         *)

\* The thread only looks at the file: begin, a create that finds a file, inspect,
\* read_snapshot, lstat, retry, release and release_lstat.
Looks(t) ==
    /\ UNCHANGED <<file, old, pid>>
    /\ OnlyThread(t)
    /\ \/ th'[t].mine = th[t].mine /\ (Owning(t)' <=> Owning(t))
       \/ /\ th'[t].mine = 0 /\ ~Owning(t)'
          /\ \/ At(t, "held") /\ ~(file.done /\ file.ino = th[t].mine)
             \/ At(t, "rel_lstat") /\ file # th[t].snap
    /\ ~At(t, "write") /\ ~At(t, "write")'
    /\ th'[t].pc \in {"rel_lstat", "rel_unlink"} =>
         /\ th[t].pc \in {"held", "rel_lstat"}
         /\ th'[t].snap = file
    /\ Recovering(t)' =>
         /\ th'[t].snap = file
         /\ Recovering(t) \/ (th[t].pc = "inspect" /\ is_stale(file))

\* The thread finds no file and creates one of its own.
Creates(t) ==
    /\ At(t, "create") /\ file = NoFile
    /\ file' = [ino |-> FreshInode, pid |-> pid, done |-> FALSE]
    /\ OnlyThread(t) /\ th'[t].pc = "write" /\ th'[t].mine = FreshInode
    /\ old' = FALSE /\ UNCHANGED pid

\* The thread finishes the file it has created, if it is still there.
Writes(t) ==
    /\ At(t, "write")
    /\ file' = IF file.ino = th[t].mine THEN [file EXCEPT !.done = TRUE] ELSE file
    /\ OnlyThread(t) /\ th'[t].pc = "held" /\ th'[t].mine = th[t].mine
    /\ UNCHANGED <<old, pid>>

\* The thread removes whatever file there is: unlink, write_failed, release_unlink.
Removes(t) ==
    /\ th[t].pc \in {"unlink", "write", "rel_unlink"}
    /\ file' = NoFile
    /\ OnlyThread(t) /\ ~Owning(t)' /\ ~Recovering(t)'
    /\ th'[t].mine = IF th[t].pc = "unlink" THEN th[t].mine ELSE 0
    /\ UNCHANGED <<old, pid>>

\* Every step is one of these, the file growing old, or a crash.
LEMMA FileLockSteps ==
  ASSUME TypeOK, Next
  PROVE  \/ \E t \in Thread : Looks(t) \/ Creates(t) \/ Writes(t) \/ Removes(t)
         \/ grow_old \/ crash
<1>0. ASSUME NEW t \in Thread
      PROVE  /\ begin(t) => Looks(t)
             /\ retry(t) => Looks(t)
  <2>1. CASE begin(t)
    <3>1. th[t].pc = "idle" /\ Goto(t, "create") /\ UNCHANGED <<file, old, pid>>
      BY <2>1 DEF begin, At
    <3>2. OnlyThread(t) /\ th'[t].pc = "create" /\ th'[t].mine = th[t].mine
      BY <3>1, GotoEffect DEF Pc
    <3> QED
      BY <3>1, <3>2 DEF Looks, At, Owning, Recovering
  <2>2. CASE retry(t)
    <3>1. th[t].pc = "retry" /\ UNCHANGED <<file, old, pid>>
      BY <2>2 DEF retry, At
    <3>2. OnlyThread(t) /\ th'[t].pc \in {"create", "idle"} /\ th'[t].mine = th[t].mine
      BY <2>2, GotoEffect DEF Pc, retry
    <3> QED
      BY <3>1, <3>2 DEF Looks, At, Owning, Recovering
  <2> QED
    BY <2>1, <2>2
<1>1. ASSUME NEW t \in Thread, create_exclusive(t)
      PROVE  Looks(t) \/ Creates(t)
  <2>1. CASE file = NoFile
    <3>1. /\ th' = [th EXCEPT ![t].pc = "write", ![t].mine = FreshInode]
          /\ file' = [ino |-> FreshInode, pid |-> pid, done |-> FALSE] /\ old' = FALSE
          /\ At(t, "create") /\ UNCHANGED pid
      BY <1>1, <2>1 DEF create_exclusive
    <3>2. OnlyThread(t) /\ th'[t].pc = "write" /\ th'[t].mine = FreshInode
      BY <3>1, MineEffect, FreshInodeFresh DEF Pc
    <3> QED
      BY <2>1, <3>1, <3>2 DEF Creates
  <2>2. CASE file # NoFile
    <3>1. th[t].pc = "create" /\ Goto(t, "inspect") /\ UNCHANGED <<file, old, pid>>
      BY <1>1, <2>2 DEF create_exclusive, At
    <3>2. OnlyThread(t) /\ th'[t].pc = "inspect" /\ th'[t].mine = th[t].mine
      BY <3>1, GotoEffect DEF Pc
    <3> QED
      BY <3>1, <3>2 DEF Looks, At, Owning, Recovering
  <2> QED
    BY <2>1, <2>2
<1>2. ASSUME NEW t \in Thread, write(t)
      PROVE  Writes(t)
  BY <1>2, GotoEffect DEF write, Writes, Pc
<1>3. ASSUME NEW t \in Thread, write_failed(t) \/ release_unlink(t)
      PROVE  Removes(t)
  <2>1. /\ th[t].pc \in {"write", "rel_unlink"} /\ file' = NoFile /\ UNCHANGED <<old, pid>>
        /\ th' = [th EXCEPT ![t] = Idle]
    BY <1>3 DEF write_failed, release_unlink, At
  <2>2. OnlyThread(t) /\ th'[t].pc = "idle" /\ th'[t].mine = 0
    BY <2>1, IdleEffect
  <2> QED
    BY <2>1, <2>2 DEF Removes, Owning, Recovering
<1>4. ASSUME NEW t \in Thread, unlink(t)
      PROVE  Removes(t)
  <2> DEFINE p == IF file = NoFile THEN "retry" ELSE "create"
  <2>1. /\ th[t].pc = "unlink" /\ file' = NoFile /\ UNCHANGED <<old, pid>>
        /\ th' = [th EXCEPT ![t].pc = p, ![t].snap = NoFile] /\ p \in {"retry", "create"}
    BY <1>4 DEF unlink, Forget, At
  <2> HIDE DEF p
  <2>2. OnlyThread(t) /\ th'[t].pc = p /\ th'[t].mine = th[t].mine
    BY <2>1, SnapEffect, NothingTyped DEF Pc
  <2> QED
    BY <2>1, <2>2 DEF Removes, Owning, Recovering
<1>5. ASSUME NEW t \in Thread, inspect(t)
      PROVE  Looks(t)
  <2>1. th[t].pc = "inspect" /\ UNCHANGED <<file, old, pid>>
    BY <1>5 DEF inspect, At
  <2>2. CASE is_stale(file)
    <3>1. th' = [th EXCEPT ![t].pc = "snapshot", ![t].snap = file]
      BY <1>5, <2>2 DEF inspect
    <3>2. OnlyThread(t) /\ th'[t].pc = "snapshot" /\ th'[t].mine = th[t].mine /\ th'[t].snap = file
      BY <3>1, SnapEffect DEF Pc, TypeOK
    <3> QED
      BY <2>1, <2>2, <3>2 DEF Looks, At, Owning, Recovering
  <2>3. CASE ~is_stale(file)
    <3>1. Goto(t, "retry")
      BY <1>5, <2>3 DEF inspect
    <3>2. OnlyThread(t) /\ th'[t].pc = "retry" /\ th'[t].mine = th[t].mine
      BY <3>1, GotoEffect DEF Pc
    <3> QED
      BY <2>1, <3>2 DEF Looks, At, Owning, Recovering
  <2> QED
    BY <2>2, <2>3
<1>6. ASSUME NEW t \in Thread, read_snapshot(t) \/ lstat(t)
      PROVE  Looks(t)
  <2>1. th[t].pc \in {"snapshot", "lstat"} /\ UNCHANGED <<file, old, pid>>
    BY <1>6 DEF read_snapshot, lstat, At
  <2>2. CASE file = th[t].snap
    <3>1. /\ OnlyThread(t) /\ th'[t].mine = th[t].mine /\ th'[t].snap = file
          /\ th'[t].pc = IF th[t].pc = "snapshot" THEN "lstat" ELSE "unlink"
      BY <1>6, <2>2, GotoEffect DEF read_snapshot, lstat, At, Pc
    <3> QED
      BY <2>1, <3>1 DEF Looks, At, Owning, Recovering
  <2>3. CASE file # th[t].snap
    <3>1. th' = [th EXCEPT ![t].pc = "retry", ![t].snap = NoFile]
      BY <1>6, <2>3 DEF read_snapshot, lstat, Forget
    <3>2. OnlyThread(t) /\ th'[t].mine = th[t].mine /\ th'[t].pc = "retry"
      BY <3>1, SnapEffect, NothingTyped DEF Pc
    <3> QED
      BY <2>1, <3>2 DEF Looks, At, Owning, Recovering
  <2> QED
    BY <2>2, <2>3
<1>7. ASSUME NEW t \in Thread, release(t)
      PROVE  Looks(t)
  <2>1. th[t].pc = "held" /\ UNCHANGED <<file, old, pid>>
    BY <1>7 DEF release, At
  <2>2. CASE file.done /\ file.ino = th[t].mine
    <3>1. th' = [th EXCEPT ![t].pc = "rel_lstat", ![t].snap = file]
      BY <1>7, <2>2 DEF release
    <3>2. /\ OnlyThread(t) /\ th'[t].mine = th[t].mine /\ th'[t].snap = file
          /\ th'[t].pc = "rel_lstat"
      BY <3>1, SnapEffect DEF Pc, TypeOK
    <3> QED
      BY <2>1, <3>2 DEF Looks, At, Owning, Recovering
  <2>3. CASE ~(file.done /\ file.ino = th[t].mine)
    <3>1. OnlyThread(t) /\ th'[t].pc = "idle" /\ th'[t].mine = 0
      BY <1>7, <2>3, IdleEffect DEF release
    <3> QED
      BY <2>1, <2>3, <3>1 DEF Looks, At, Owning, Recovering
  <2> QED
    BY <2>2, <2>3
<1>8. ASSUME NEW t \in Thread, release_lstat(t)
      PROVE  Looks(t)
  <2>1. th[t].pc = "rel_lstat" /\ UNCHANGED <<file, old, pid>>
    BY <1>8 DEF release_lstat, At
  <2>2. CASE file = th[t].snap
    <3>1. /\ OnlyThread(t) /\ th'[t].mine = th[t].mine /\ th'[t].snap = file
          /\ th'[t].pc = "rel_unlink"
      BY <1>8, <2>2, GotoEffect DEF release_lstat, Pc
    <3> QED
      BY <2>1, <3>1 DEF Looks, At, Owning, Recovering
  <2>3. CASE file # th[t].snap
    <3>1. OnlyThread(t) /\ th'[t].pc = "idle" /\ th'[t].mine = 0
      BY <1>8, <2>3, IdleEffect DEF release_lstat
    <3> QED
      BY <2>1, <2>3, <3>1 DEF Looks, At, Owning, Recovering
  <2> QED
    BY <2>2, <2>3
<1> QED
  BY <1>0, <1>1, <1>2, <1>3, <1>4, <1>5, <1>6, <1>7, <1>8 DEF Next

-----------------------------------------------------------------------------
(* Types, numbers and pids.                                                *)

\* At first there is no file and nobody wants one.
LEMMA BaseInit == Init => Base
<1> SUFFICES ASSUME Init PROVE Base
  OBVIOUS
<1>1. TypeOK
  <2>1. 1 \in 1..MaxCrashes + 1
    OBVIOUS
  <2> QED
    BY <2>1, NothingTyped DEF Init, TypeOK, ThreadState
<1> QED
  BY <1>1 DEF Init, Base, FileOK, OwnersNumbered, Owning, Idle

\* Base holds after every step.
LEMMA BaseNext ==
  ASSUME Base, [Next]_vars
  PROVE  Base'
<1>0. TypeOK /\ FileOK /\ OwnersNumbered
  BY DEF Base
<1>1. CASE UNCHANGED vars
  BY <1>0, <1>1 DEF vars, Base, TypeOK, FileOK, OwnersNumbered, Owning
<1>2. ASSUME NEW t \in Thread, Looks(t)
      PROVE  Base'
  <2>1. TypeOK' /\ FileOK'
    BY <1>0, <1>2 DEF Looks, OnlyThread, TypeOK, FileOK, ThreadState
  <2>2. OwnersNumbered'
    BY <1>0, <1>2 DEF Looks, OnlyThread, OwnersNumbered, Owning
  <2> QED
    BY <2>1, <2>2 DEF Base
<1>3. ASSUME NEW t \in Thread, Creates(t)
      PROVE  Base'
  <2>1. FreshInode \in Inodes /\ FreshInode # 0
    BY <1>0, FreshInodeFresh
  <2>2. pid \in 1..MaxCrashes + 1 /\ pid \in 0..MaxCrashes + 1 /\ pid \in 1..pid
    BY <1>0 DEF TypeOK
  <2>3. file' \in File /\ file'.ino # 0 /\ file'.pid = pid
    BY <1>3, <2>1, <2>2 DEF Creates, File
  <2>4. TypeOK'
    BY <1>0, <1>3, <2>3 DEF Creates, OnlyThread, TypeOK, ThreadState
  <2>5. FileOK'
    BY <1>3, <2>2, <2>3 DEF Creates, FileOK
  <2>6. OwnersNumbered'
    BY <1>0, <1>3, <2>1 DEF Creates, OnlyThread, OwnersNumbered, Owning
  <2> QED
    BY <2>4, <2>5, <2>6 DEF Base
<1>4. ASSUME NEW t \in Thread, Writes(t)
      PROVE  Base'
  <2>1. file' \in File /\ file'.ino = file.ino /\ file'.pid = file.pid
    BY <1>0, <1>4 DEF Writes, TypeOK, File
  <2>2. TypeOK'
    BY <1>0, <1>4, <2>1 DEF Writes, OnlyThread, TypeOK, ThreadState
  <2>3. FileOK'
    <3>1. file = NoFile => file' = NoFile
      <4>1. th[t].mine # 0
        BY <1>0, <1>4 DEF Writes, OwnersNumbered, Owning, At
      <4> QED
        BY <1>4, <4>1 DEF Writes, NoFile
    <3> QED
      BY <1>0, <1>4, <2>1, <3>1 DEF Writes, FileOK
  <2>4. OwnersNumbered'
    BY <1>0, <1>4 DEF Writes, OnlyThread, OwnersNumbered, Owning, At
  <2> QED
    BY <2>2, <2>3, <2>4 DEF Base
<1>5. ASSUME NEW t \in Thread, Removes(t)
      PROVE  Base'
  <2>1. TypeOK'
    BY <1>0, <1>5, NothingTyped DEF Removes, OnlyThread, TypeOK, ThreadState
  <2>2. OwnersNumbered'
    BY <1>0, <1>5 DEF Removes, OnlyThread, OwnersNumbered, Owning
  <2> QED
    BY <1>5, <2>1, <2>2 DEF Removes, Base, FileOK
<1>6. CASE grow_old
  BY <1>0, <1>6 DEF grow_old, Base, TypeOK, FileOK, OwnersNumbered, Owning
<1>7. CASE crash
  <2>1. pid' \in 1..MaxCrashes + 1 /\ \A n \in 1..pid : n \in 1..pid'
    BY <1>0, <1>7 DEF crash, TypeOK
  <2>2. th' \in [Thread -> ThreadState] /\ \A t \in Thread : th'[t] = Idle
    BY <1>7, NothingTyped DEF crash
  <2>3. TypeOK'
    BY <1>0, <1>7, <2>1, <2>2 DEF crash, TypeOK, ThreadState
  <2>4. FileOK'
    BY <1>0, <1>7, <2>1 DEF crash, FileOK
  <2>5. OwnersNumbered'
    BY <2>2 DEF OwnersNumbered, Owning, Idle
  <2> QED
    BY <2>3, <2>4, <2>5 DEF Base
<1> QED
  BY <1>0, <1>1, <1>2, <1>3, <1>4, <1>5, <1>6, <1>7, FileLockSteps

\* acquire and release never run out of inode numbers, and no lock object gets into
\* a state that is none.
THEOREM FileLockType == Spec => []TypeOK
<1>1. Init => Base
  BY BaseInit
<1>2. Base /\ [Next]_vars => Base'
  BY BaseNext
<1>3. Base => TypeOK
  BY DEF Base
<1> QED
  BY <1>1, <1>2, <1>3, PTL DEF Spec

-----------------------------------------------------------------------------
(* Malformed files.                                                        *)

\* While a file is left half-written by a dead process, nobody has got further
\* than inspecting it.
OrphanUntouched ==
    file # NoFile /\ ~file.done /\ ~BeingWritten =>
      \A t \in Thread : th[t].pc \in {"idle", "create", "inspect", "retry"}

\* What MalformedKept says of one step.
MalformedStep == file # NoFile /\ ~file.done /\ file' # file => BeingWritten

\* An orphan stays untouched, and no step takes it away.
LEMMA OrphanNext ==
  ASSUME Base, OrphanUntouched, [Next]_vars
  PROVE  OrphanUntouched' /\ MalformedStep
<1>0. TypeOK /\ OwnersNumbered /\ \A t \in Thread : th[t].pc \in Pc
  BY DEF Base, TypeOK
<1>1. CASE UNCHANGED vars
  BY <1>1 DEF vars, OrphanUntouched, BeingWritten, At, MalformedStep
<1>2. ASSUME NEW t \in Thread, Looks(t)
      PROVE  OrphanUntouched' /\ MalformedStep
  <2>1. file' = file
    BY <1>2 DEF Looks
  <2>2. BeingWritten' <=> BeingWritten
    BY <1>2 DEF Looks, OnlyThread, BeingWritten, At
  <2>3. SUFFICES ASSUME file # NoFile, ~file.done, ~BeingWritten
                 PROVE  \A s \in Thread : th'[s].pc \in {"idle", "create", "inspect", "retry"}
    BY <2>1, <2>2 DEF OrphanUntouched, MalformedStep
  <2>4. \A s \in Thread : th[s].pc \in {"idle", "create", "inspect", "retry"}
    BY <2>3 DEF OrphanUntouched
  <2>5. ~Owning(t)' /\ ~Recovering(t)'
    BY <1>2, <2>3, <2>4 DEF Looks, Owning, Recovering, is_stale
  <2>6. th'[t].pc \in Pc
    BY <1>2 DEF Looks, OnlyThread, ThreadState
  <2> QED
    BY <1>2, <2>4, <2>5, <2>6 DEF Looks, OnlyThread, Owning, Recovering, Pc
<1>3. ASSUME NEW t \in Thread, Creates(t)
      PROVE  OrphanUntouched' /\ MalformedStep
  <2>1. BeingWritten'
    BY <1>3 DEF Creates, BeingWritten, At
  <2> QED
    BY <1>3, <2>1 DEF Creates, OrphanUntouched, MalformedStep
<1>4. ASSUME NEW t \in Thread, Writes(t)
      PROVE  OrphanUntouched' /\ MalformedStep
  <2>1. CASE file.ino = th[t].mine
    <3>1. file'.done = TRUE /\ BeingWritten
      BY <1>0, <1>4, <2>1 DEF Writes, BeingWritten, TypeOK, File
    <3> QED
      BY <3>1 DEF OrphanUntouched, MalformedStep
  <2>2. CASE file.ino # th[t].mine
    <3>1. file' = file
      BY <1>4, <2>2 DEF Writes
    <3>2. BeingWritten => BeingWritten'
      BY <1>4, <2>2, <3>1 DEF Writes, OnlyThread, BeingWritten, At
    <3>3. th[t].pc = "write"
      BY <1>4 DEF Writes, At
    <3> QED
      BY <3>1, <3>2, <3>3 DEF OrphanUntouched, MalformedStep
  <2> QED
    BY <2>1, <2>2
<1>5. ASSUME NEW t \in Thread, Removes(t)
      PROVE  OrphanUntouched' /\ MalformedStep
  BY <1>5 DEF Removes, OrphanUntouched, MalformedStep
<1>6. CASE grow_old
  BY <1>6 DEF grow_old, OrphanUntouched, BeingWritten, At, MalformedStep
<1>7. CASE crash
  BY <1>7 DEF crash, Idle, OrphanUntouched, MalformedStep
<1> QED
  BY <1>0, <1>1, <1>2, <1>3, <1>4, <1>5, <1>6, <1>7, FileLockSteps

\* A lock file without readable metadata that no thread is writing stays as it is
\* in every life of the hub: acquire never recovers it.
THEOREM FileLockKeepsMalformed == Spec => MalformedKept
<1>1. Init => Base /\ OrphanUntouched
  BY BaseInit DEF Init, OrphanUntouched
<1>2. Base /\ OrphanUntouched /\ [Next]_vars => (Base /\ OrphanUntouched)'
  BY BaseNext, OrphanNext
<1>3. Base /\ OrphanUntouched /\ [Next]_vars
        => [file # NoFile /\ ~file.done /\ ~BeingWritten => file' = file]_vars
  BY OrphanNext DEF MalformedStep
<1> QED
  BY <1>1, <1>2, <1>3, PTL DEF Spec, MalformedKept

-----------------------------------------------------------------------------
(* Exclusion, as long as recoveries do not overlap.                        *)

\* The owner's file is there, has its number and the pid of the process, and is the
\* one its release has read.
OwnerHasFile ==
    \A t \in Thread : Owning(t) =>
      /\ file # NoFile /\ file.ino = th[t].mine /\ file.pid = pid
      /\ th[t].pc # "write" => file.done
      /\ th[t].pc \in {"rel_lstat", "rel_unlink"} => th[t].snap = file

OneOwner == \A s, t \in Thread : Owning(s) /\ Owning(t) => s = t

\* Who recovers has before him the stale file he has seen, of a dead process.
RecoveryIsCurrent ==
    \A t \in Thread : Recovering(t) =>
      th[t].snap = file /\ file # NoFile /\ file.pid # pid

Exclusive == OwnerHasFile /\ OneOwner /\ RecoveryIsCurrent

\* The inductive step: with one recovery at a time a file is removed by its owner
\* or after its process has died.
LEMMA ExclusiveNext ==
  ASSUME Base, Exclusive, LoneRecovery, [Next]_vars
  PROVE  Exclusive'
<1> USE DEF Exclusive
<1>0. TypeOK /\ FileOK /\ OwnersNumbered
  BY DEF Base
<1>1. CASE UNCHANGED vars
  BY <1>1 DEF vars, OwnerHasFile, OneOwner, RecoveryIsCurrent, Owning, Recovering
<1>2. ASSUME NEW t \in Thread, Looks(t)
      PROVE  Exclusive'
  <2>1. file' = file /\ pid' = pid /\ \A s \in Thread : s # t => th'[s] = th[s]
    BY <1>2 DEF Looks, OnlyThread
  <2>2. /\ Owning(t)' => Owning(t) /\ th'[t].mine = th[t].mine /\ th[t].pc # "write"
        /\ th'[t].pc \in {"rel_lstat", "rel_unlink"} => th'[t].snap = file
    BY <1>2 DEF Looks, At
  <2>3. OwnerHasFile' /\ OneOwner'
    BY <2>1, <2>2 DEF OwnerHasFile, OneOwner, Owning
  <2>4. Recovering(t)' => th'[t].snap = file /\ file # NoFile /\ file.pid # pid
    <3>1. is_stale(file) => file # NoFile /\ file.pid # pid
      BY DEF is_stale, NoFile
    <3> QED
      BY <1>2, <3>1 DEF Looks, RecoveryIsCurrent
  <2>5. RecoveryIsCurrent'
    BY <2>1, <2>4 DEF RecoveryIsCurrent, Recovering
  <2> QED
    BY <2>3, <2>5
<1>3. ASSUME NEW t \in Thread, Creates(t)
      PROVE  Exclusive'
  <2>1. \A s \in Thread : ~Owning(s) /\ ~Recovering(s)
    BY <1>3 DEF Creates, OwnerHasFile, RecoveryIsCurrent
  <2>2. /\ \A s \in Thread : s # t => ~Owning(s)' /\ ~Recovering(s)'
        /\ ~Recovering(t)' /\ th'[t].pc = "write"
    BY <1>3, <2>1 DEF Creates, OnlyThread, Owning, Recovering
  <2>3. /\ file'.ino = th'[t].mine /\ file'.pid = pid' /\ file' # NoFile
    <3>1. pid # 0 /\ pid' = pid
      BY <1>0, <1>3 DEF TypeOK, Creates
    <3> QED
      BY <1>3, <3>1 DEF Creates, NoFile
  <2> QED
    BY <2>2, <2>3 DEF OwnerHasFile, OneOwner, RecoveryIsCurrent
<1>4. ASSUME NEW t \in Thread, Writes(t)
      PROVE  Exclusive'
  <2>1. Owning(t) /\ file.ino = th[t].mine /\ file.pid = pid
    BY <1>4 DEF Writes, Owning, At, OwnerHasFile
  <2>2. file'.done = TRUE /\ file'.ino = file.ino /\ file'.pid = file.pid
    BY <1>0, <1>4, <2>1 DEF Writes, TypeOK, File
  <2>3. \A s \in Thread : s # t => ~Owning(s)' /\ ~Recovering(s)'
    BY <1>4, <2>1 DEF Writes, OnlyThread, OneOwner, RecoveryIsCurrent, Owning, Recovering
  <2>4. th'[t].pc = "held" /\ ~Recovering(t)' /\ th'[t].mine = th[t].mine /\ pid' = pid
    BY <1>4 DEF Writes, Recovering
  <2>5. file' # NoFile
    BY <2>2 DEF NoFile
  <2> QED
    BY <2>1, <2>2, <2>3, <2>4, <2>5 DEF OwnerHasFile, OneOwner, RecoveryIsCurrent
<1>5. ASSUME NEW t \in Thread, Removes(t)
      PROVE  Exclusive'
  <2>1. \A s \in Thread : s # t => ~Owning(s) /\ ~Recovering(s)
    <3>1. CASE th[t].pc = "unlink"
      <4>1. Recovering(t) /\ file.pid # pid
        BY <3>1 DEF Recovering, RecoveryIsCurrent
      <4> QED
        BY <4>1 DEF LoneRecovery, OwnerHasFile
    <3>2. CASE th[t].pc \in {"write", "rel_unlink"}
      <4>1. Owning(t) /\ file.pid = pid
        BY <3>2 DEF Owning, OwnerHasFile
      <4> QED
        BY <4>1 DEF OneOwner, RecoveryIsCurrent
    <3> QED
      BY <1>5, <3>1, <3>2 DEF Removes
  <2>2. \A s \in Thread : ~Owning(s)' /\ ~Recovering(s)'
    BY <1>5, <2>1 DEF Removes, OnlyThread, Owning, Recovering
  <2> QED
    BY <2>2 DEF OwnerHasFile, OneOwner, RecoveryIsCurrent
<1>6. CASE grow_old
  BY <1>6 DEF grow_old, OwnerHasFile, OneOwner, RecoveryIsCurrent, Owning, Recovering
<1>7. CASE crash
  BY <1>7 DEF crash, Idle, OwnerHasFile, OneOwner, RecoveryIsCurrent, Owning, Recovering
<1> QED
  BY <1>0, <1>1, <1>2, <1>3, <1>4, <1>5, <1>6, <1>7, FileLockSteps

\* As long as no two threads recover a stale lock at the same time, the project
\* lock is exclusive and holder and writer keep their files, over every crash: the
\* overlap of two recoveries is all that can break acquire and release.
THEOREM FileLockLoneRecovery == Spec => LoneRecoveryIsSafe
<1>1. Init => Base /\ Exclusive
  BY BaseInit
  DEF Init, Idle, Exclusive, OwnerHasFile, OneOwner, RecoveryIsCurrent, Owning, Recovering
<1>2. Base /\ Exclusive /\ LoneRecovery /\ [Next]_vars => (Base /\ Exclusive)'
  BY BaseNext, ExclusiveNext
<1>3. Exclusive => MutualExclusion /\ HolderKeepsFile /\ WriterKeepsFile
  BY DEF Exclusive, OwnerHasFile, OneOwner, Owning, Holds, MutualExclusion, HolderKeepsFile,
         WriterKeepsFile, At
<1> QED
  BY <1>1, <1>2, <1>3, PTL DEF Spec, LoneRecoveryIsSafe

-----------------------------------------------------------------------------
(* Refinement: the lock of ProjectLock, as long as the first process lives. *)

\* The holder under the refinement mapping.
Hold == IF pid # 1 \/ file = NoFile THEN 0 ELSE Owner

\* The first process has no dead predecessor, so that no file is stale for it, and
\* every file has its owner.
FirstLife ==
    pid = 1 =>
      /\ \A t \in Thread : ~Recovering(t)
      /\ Exclusive
      /\ file # NoFile => \E t \in Thread : Owning(t)

\* In the first life the owner is the thread whose file is on disk.
LEMMA OwnerIsHolder ==
  ASSUME Base, FirstLife, pid = 1, NEW t \in Thread, Owning(t)
  PROVE  file # NoFile /\ Owner = t
<1>1. file # NoFile /\ file.ino = th[t].mine
  BY DEF FirstLife, Exclusive, OwnerHasFile
<1>2. ASSUME NEW s \in Thread, th[s].mine = file.ino
      PROVE  s = t
  <2>1. file.ino # 0
    BY <1>1 DEF Base, FileOK
  <2>2. Owning(s)
    BY <1>2, <2>1 DEF Base, OwnersNumbered
  <2> QED
    BY <2>2 DEF FirstLife, Exclusive, OneOwner
<1> QED
  BY <1>1, <1>2 DEF Owner

\* Every step maps to a step of the lock, or to none.
LEMMA RefinesNext ==
  ASSUME Base, FirstLife, [Next]_vars
  PROVE  /\ FirstLife'
         /\ \/ Hold = 0 /\ Hold' \in Thread
            \/ Hold \in Thread /\ Hold' = 0
            \/ Hold' = Hold
<1>0. Base' /\ TypeOK /\ FileOK /\ OwnersNumbered
  BY BaseNext DEF Base
<1>1. pid \in Nat /\ (pid' = pid \/ pid' = pid + 1) /\ (pid' = pid \/ crash)
  <2>1. pid \in Nat
    BY <1>0 DEF TypeOK
  <2>2. CASE UNCHANGED vars
    BY <2>1, <2>2 DEF vars
  <2>3. CASE Next
    BY <1>0, <2>1, <2>3, FileLockSteps DEF Looks, Creates, Writes, Removes, grow_old, crash
  <2> QED
    BY <2>2, <2>3
<1>2. CASE pid # 1
  <2>1. pid' # 1
    BY <1>0, <1>1, <1>2 DEF TypeOK
  <2> QED
    BY <1>2, <2>1 DEF Hold, FirstLife
<1>3. CASE pid = 1 /\ pid' # 1
  <2>1. file # NoFile => Owner \in Thread
    BY <1>3, OwnerIsHolder DEF FirstLife
  <2> QED
    BY <1>3, <2>1 DEF Hold, FirstLife
<1>4. CASE pid = 1 /\ pid' = 1
  <2>0. Exclusive /\ LoneRecovery /\ Exclusive'
    BY <1>4, ExclusiveNext DEF FirstLife, LoneRecovery
  <2>1. /\ \A t \in Thread : ~Recovering(t)
        /\ file # NoFile => \E t \in Thread : Owning(t)
        /\ file # NoFile => file.pid = 1
    BY <1>0, <1>4 DEF FirstLife, FileOK
  <2>2. CASE UNCHANGED vars
    <3>1. FirstLife'
      BY <2>0, <2>1, <2>2 DEF vars, FirstLife, Recovering, Owning
    <3> QED
      BY <2>2, <3>1 DEF vars, Hold, Owner
  <2>3. ASSUME NEW t \in Thread, Looks(t)
        PROVE  FirstLife' /\ Hold' = Hold
    <3>1. file' = file /\ pid' = pid /\ \A s \in Thread : s # t => th'[s] = th[s]
      BY <2>3 DEF Looks, OnlyThread
    <3>2. th'[t].mine = th[t].mine /\ (Owning(t)' <=> Owning(t))
      BY <2>0, <2>3 DEF Looks, Exclusive, OwnerHasFile, Owning, At
    <3>3. \A s \in Thread : th'[s].mine = th[s].mine /\ (Owning(s)' <=> Owning(s))
      BY <3>1, <3>2 DEF Owning
    <3>4. \A s \in Thread : ~Recovering(s)'
      <4>1. ~is_stale(file)
        BY <1>4, <2>1 DEF is_stale, NoFile
      <4>2. ~Recovering(t)'
        BY <2>1, <2>3, <4>1 DEF Looks
      <4> QED
        BY <2>1, <3>1, <4>2 DEF Recovering
    <3>5. Owner' = Owner
      BY <3>1, <3>3 DEF Owner
    <3> QED
      BY <2>0, <2>1, <3>1, <3>3, <3>4, <3>5 DEF FirstLife, Hold
  <2>4. ASSUME NEW t \in Thread, Creates(t)
        PROVE  FirstLife' /\ Hold = 0 /\ Hold' = t
    <3>1. /\ file = NoFile /\ th'[t].pc = "write"
          /\ \A s \in Thread : s # t => th'[s] = th[s]
      BY <2>4 DEF Creates, OnlyThread
    <3>2. Owning(t)' /\ ~Recovering(t)'
      BY <3>1 DEF Owning, Recovering
    <3>3. \A s \in Thread : ~Recovering(s)'
      BY <2>1, <3>1, <3>2 DEF Recovering
    <3>4. FirstLife'
      BY <2>0, <3>2, <3>3 DEF FirstLife
    <3>5. file' # NoFile /\ Owner' = t
      <4>1. file'.ino = th'[t].mine /\ file'.ino # 0 /\ file' # NoFile
        BY <2>0, <3>2, <1>0 DEF Exclusive, OwnerHasFile, Base, FileOK
      <4>2. ASSUME NEW s \in Thread, th'[s].mine = file'.ino
            PROVE  s = t
        BY <1>0, <2>0, <3>2, <4>1, <4>2 DEF Base, OwnersNumbered, Exclusive, OneOwner
      <4> QED
        BY <4>1, <4>2 DEF Owner
    <3> QED
      BY <1>4, <3>1, <3>4, <3>5 DEF Hold
  <2>5. ASSUME NEW t \in Thread, Writes(t)
        PROVE  FirstLife' /\ Hold' = Hold
    <3>1. Owning(t) /\ Owning(t)' /\ ~Recovering(t)'
      BY <2>5 DEF Writes, Owning, Recovering, At
    <3>2. /\ \A s \in Thread : s # t => th'[s] = th[s]
          /\ th'[t].mine = th[t].mine
      BY <2>5 DEF Writes, OnlyThread
    <3>3. \A s \in Thread : th'[s].mine = th[s].mine /\ ~Recovering(s)'
      BY <2>1, <3>1, <3>2 DEF Recovering
    <3>4. FirstLife'
      BY <2>0, <3>1, <3>3 DEF FirstLife
    <3>5. file # NoFile /\ file' # NoFile /\ file'.ino = file.ino
      BY <2>0, <2>5, <3>1, <3>2 DEF Exclusive, OwnerHasFile
    <3>6. Owner' = Owner
      BY <3>3, <3>5 DEF Owner
    <3> QED
      BY <1>4, <3>4, <3>5, <3>6 DEF Hold
  <2>6. ASSUME NEW t \in Thread, Removes(t)
        PROVE  FirstLife' /\ Hold' = 0 /\ Hold \in Thread
    <3>1. Owning(t)
      BY <2>1, <2>6 DEF Removes, Recovering, Owning
    <3>2. file # NoFile /\ Owner = t
      BY <1>4, <3>1, OwnerIsHolder
    <3>3. file' = NoFile /\ ~Recovering(t)' /\ \A s \in Thread : s # t => th'[s] = th[s]
      BY <2>6 DEF Removes, OnlyThread
    <3>4. \A s \in Thread : ~Recovering(s)'
      BY <2>1, <3>3 DEF Recovering
    <3> QED
      BY <1>4, <2>0, <3>2, <3>3, <3>4 DEF FirstLife, Hold
  <2>7. CASE grow_old
    <3>1. FirstLife'
      BY <2>0, <2>1, <2>7 DEF grow_old, FirstLife, Recovering, Owning
    <3> QED
      BY <2>7, <3>1 DEF grow_old, Hold, Owner
  <2>8. CASE crash
    BY <1>1, <1>4, <2>8 DEF crash
  <2> QED
    BY <1>0, <2>2, <2>3, <2>4, <2>5, <2>6, <2>7, <2>8, FileLockSteps
<1> QED
  BY <1>1, <1>2, <1>3, <1>4

\* Until the hub first dies, the lock file with its inspection, its snapshots and
\* its unlinks is the lock of ProjectLock: one holder at a time, handed over only
\* by being given up.
THEOREM FileLockImplements == Spec => ImplementsLock
<1>1. Init => Base /\ FirstLife /\ Hold = 0
  BY BaseInit
  DEF Init, Idle, FirstLife, Hold, Exclusive, OwnerHasFile, OneOwner, RecoveryIsCurrent,
      Owning, Recovering
<1>2. Base /\ FirstLife /\ [Next]_vars => (Base /\ FirstLife)'
  BY BaseNext, RefinesNext
<1>3. Base /\ FirstLife /\ [Next]_vars
        => [Abstract!LockAcquire \/ Abstract!LockRelease]_Hold
  BY RefinesNext DEF Abstract!LockAcquire, Abstract!LockRelease, Abstract!Free, Hold
<1>4. Hold = 0 => Abstract!LockInit
  BY DEF Abstract!LockInit, Abstract!Free, Hold
<1> QED
  BY <1>1, <1>2, <1>3, <1>4, PTL DEF Spec, ImplementsLock, Abstract!LockSpec, Hold
=============================================================================
