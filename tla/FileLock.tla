------------------------------- MODULE FileLock -------------------------------
(***************************************************************************)
(* ProjectFileLock (locks/file_lock.py): the lock file of one project and  *)
(* the threads of the hub that compete for it, one step per file system    *)
(* call that another thread's call can come between.                       *)
(*                                                                         *)
(* A file is its inode number, the process that created it and whether its *)
(* content is written; writing changes size and mtime, so `ino` and `done` *)
(* are the stat signature, and since every file has its own owner token    *)
(* `ino` is the token as well.  Inode numbers are reused only when nobody  *)
(* remembers them.  _read_snapshot is one step: when the file changes      *)
(* while it is opened it raises, which its callers treat like a file that  *)
(* is gone.  All threads belong to one process, whose pid is never reused. *)
(***************************************************************************)
EXTENDS Integers, FiniteSets

CONSTANTS Thread,      \* lock objects in use, one per worker thread
          MaxCrashes   \* bound: crashes of the hub process

ASSUME ThreadAssumption == Thread \subseteq Nat \ {0} /\ IsFiniteSet(Thread)
ASSUME MaxCrashesAssumption == MaxCrashes \in Nat

VARIABLES file,     \* the directory entry <project>.lock
          old,      \* has the file's created_at exceeded stale_after?
          th,       \* th[t]: state of a lock object and its pending call
          pid       \* the hub process; earlier ones are dead

vars == <<file, old, th, pid>>

NoFile == [ino |-> 0, pid |-> 0, done |-> FALSE]

Idle == [pc |-> "idle", mine |-> 0, snap |-> NoFile]

Pc == {"idle", "create", "write", "inspect", "snapshot", "lstat", "unlink",
       "retry", "held", "rel_lstat", "rel_unlink"}

Init == file = NoFile /\ old = FALSE /\ th = [t \in Thread |-> Idle] /\ pid = 1

Inodes == 1..(2 * Cardinality(Thread) + 2)

\* An inode number nobody remembers.
FreshInode ==
    CHOOSE n \in Inodes :
      /\ n # file.ino
      /\ \A t \in Thread : n # th[t].mine /\ n # th[t].snap.ino

Goto(t, pc) == th' = [th EXCEPT ![t].pc = pc]

\* Give up what was read and go to `pc`.
Forget(t, pc) == th' = [th EXCEPT ![t].pc = pc, ![t].snap = NoFile]

At(t, pc) == th[t].pc = pc

-----------------------------------------------------------------------------
(* acquire.                                                                *)

begin(t) ==
    /\ At(t, "idle")
    /\ Goto(t, "create")
    /\ UNCHANGED <<file, old, pid>>

\* Mutant of create_exclusive: opened without O_EXCL.
create_exclusive_Truncate(t) ==
    /\ At(t, "create")
    /\ file' = [ino |-> FreshInode, pid |-> pid, done |-> FALSE]
    /\ old' = FALSE
    /\ th' = [th EXCEPT ![t].pc = "write", ![t].mine = FreshInode]
    /\ UNCHANGED pid

\* open(O_CREAT | O_EXCL): an empty file of our own, or FileExistsError.
create_exclusive(t) ==
    /\ At(t, "create")
    /\ IF file = NoFile
       THEN /\ file' = [ino |-> FreshInode, pid |-> pid, done |-> FALSE]
            /\ old' = FALSE
            /\ th' = [th EXCEPT ![t].pc = "write", ![t].mine = FreshInode]
       ELSE /\ Goto(t, "inspect")
            /\ UNCHANGED <<file, old>>
    /\ UNCHANGED pid

\* The metadata is written and synced; the lock is held.
write(t) ==
    /\ At(t, "write")
    /\ file' = IF file.ino = th[t].mine THEN [file EXCEPT !.done = TRUE] ELSE file
    /\ Goto(t, "held")
    /\ UNCHANGED <<old, pid>>

\* Writing fails: whatever has the lock's name is unlinked and acquire raises.
write_failed(t) ==
    /\ At(t, "write")
    /\ file' = NoFile
    /\ th' = [th EXCEPT ![t] = Idle]
    /\ UNCHANGED <<old, pid>>

\* Mutants of is_stale: age is enough, or a malformed file counts as stale.
is_stale_AgeOnly(f) == f.done /\ old

is_stale_Malformed(f) == f # NoFile /\ old /\ f.pid # pid

\* _is_stale: older than stale_after and its process is gone.
is_stale(f) == f.done /\ old /\ f.pid # pid

inspect(t) ==
    /\ At(t, "inspect")
    /\ IF is_stale(file)
       THEN th' = [th EXCEPT ![t].pc = "snapshot", ![t].snap = file]
       ELSE Goto(t, "retry")
    /\ UNCHANGED <<file, old, pid>>

\* The file is read again and must have the metadata that was inspected.
read_snapshot(t) ==
    /\ At(t, "snapshot")
    /\ IF file = th[t].snap THEN Goto(t, "lstat") ELSE Forget(t, "retry")
    /\ UNCHANGED <<file, old, pid>>

\* _remove_unchanged, first half: lstat and compare signatures.
lstat(t) ==
    /\ At(t, "lstat")
    /\ IF file = th[t].snap THEN Goto(t, "unlink") ELSE Forget(t, "retry")
    /\ UNCHANGED <<file, old, pid>>

\* _remove_unchanged, second half: unlink by name; acquire then starts over.
unlink(t) ==
    /\ At(t, "unlink")
    /\ file' = NoFile
    /\ Forget(t, IF file = NoFile THEN "retry" ELSE "create")
    /\ UNCHANGED <<old, pid>>

\* Sleep and try again, or LockTimeoutError once the deadline has passed.
retry(t) ==
    /\ At(t, "retry")
    /\ Goto(t, "create") \/ Goto(t, "idle")
    /\ UNCHANGED <<file, old, pid>>

-----------------------------------------------------------------------------
(* release.                                                                *)

\* The file must still be ours; LockOwnershipError otherwise, and the lock
\* object is not used again.
release(t) ==
    /\ At(t, "held")
    /\ IF file.done /\ file.ino = th[t].mine
       THEN th' = [th EXCEPT ![t].pc = "rel_lstat", ![t].snap = file]
       ELSE th' = [th EXCEPT ![t] = Idle]
    /\ UNCHANGED <<file, old, pid>>

release_lstat(t) ==
    /\ At(t, "rel_lstat")
    /\ IF file = th[t].snap THEN Goto(t, "rel_unlink")
       ELSE th' = [th EXCEPT ![t] = Idle]
    /\ UNCHANGED <<file, old, pid>>

release_unlink(t) ==
    /\ At(t, "rel_unlink")
    /\ file' = NoFile
    /\ th' = [th EXCEPT ![t] = Idle]
    /\ UNCHANGED <<old, pid>>

-----------------------------------------------------------------------------
(* Time and crashes.                                                       *)

grow_old ==
    /\ file # NoFile /\ ~old
    /\ old' = TRUE
    /\ UNCHANGED <<file, th, pid>>

\* The hub dies and is started again; the file stays.
crash ==
    /\ pid <= MaxCrashes
    /\ pid' = pid + 1
    /\ th' = [t \in Thread |-> Idle]
    /\ UNCHANGED <<file, old>>

Next ==
    \/ \E t \in Thread :
         \/ begin(t) \/ create_exclusive(t) \/ write(t) \/ write_failed(t)
         \/ inspect(t) \/ read_snapshot(t) \/ lstat(t) \/ unlink(t) \/ retry(t)
         \/ release(t) \/ release_lstat(t) \/ release_unlink(t)
    \/ grow_old \/ crash

Spec == Init /\ [][Next]_vars

-----------------------------------------------------------------------------
(* Properties.                                                             *)

File == [ino : Inodes \cup {0}, pid : 0..MaxCrashes + 1, done : BOOLEAN]

\* Every variable has its type.
TypeOK ==
    /\ file \in File
    /\ old \in BOOLEAN
    /\ th \in [Thread -> [pc : Pc, mine : Inodes \cup {0}, snap : File]]
    /\ pid \in 1..MaxCrashes + 1

\* From the moment acquire returns until the file is unlinked.
Holds(t) == th[t].pc \in {"held", "rel_lstat", "rel_unlink"}

\* At most one thread has the lock.
MutualExclusion == \A s, t \in Thread : Holds(s) /\ Holds(t) => s = t

\* The lock file of a holder is on disk with its token, so its release does not
\* raise: nobody else removed or replaced it (release, _remove_unchanged).
HolderKeepsFile ==
    \A t \in Thread : Holds(t) => file.done /\ file.ino = th[t].mine

\* A file that is being written is the one its writer has created, so that
\* neither a recovery nor the failed write of another thread takes it away.
WriterKeepsFile == \A t \in Thread : At(t, "write") => file.ino = th[t].mine

BeingWritten == \E t \in Thread : At(t, "write") /\ th[t].mine = file.ino

\* A file without readable metadata that nobody is writing, as a hub leaves it
\* that dies in _create_exclusive, is never removed or replaced, even where
\* recoveries overlap (inspect, acquire): it waits for an operator.  For a file
\* that is being written see LoneRecoveryIsSafe.
MalformedKept ==
    [][file # NoFile /\ ~file.done /\ ~BeingWritten => file' = file]_vars

\* Between finding the lock stale and having removed it.
Recovering(t) == th[t].pc \in {"snapshot", "lstat", "unlink"}

LoneRecovery == \A s, t \in Thread : Recovering(s) /\ Recovering(t) => s = t

\* As long as no two threads recover a stale lock at the same time the lock is
\* exclusive and neither a holder nor a writer loses its file, whoever crashes
\* when: the overlap of two recoveries is the only way in which the protocol
\* fails (_remove_unchanged, _create_exclusive).
LoneRecoveryIsSafe ==
    []LoneRecovery => [](MutualExclusion /\ HolderKeepsFile /\ WriterKeepsFile)

\* The thread whose file is on disk, as long as its process lives.
Owner == CHOOSE t \in Thread : th[t].mine = file.ino

Abstract == INSTANCE ProjectLock WITH
              holder <- IF pid # 1 \/ file = NoFile THEN 0 ELSE Owner

\* Until the hub first dies the protocol implements the lock the orchestrator
\* counts on: created files are handed over only through their removal by their
\* owner (acquire, release).
ImplementsLock == Abstract!LockSpec
=============================================================================
