------------------------------ MODULE ProjectLock ------------------------------
(***************************************************************************)
(* What a project lock promises the tasks of one process: it has one       *)
(* holder at a time and goes to another only after it was given up.        *)
(* Orchestrator uses the lock of each project this way; FileLock is the    *)
(* protocol on the file system.                                            *)
(***************************************************************************)
EXTENDS Integers

CONSTANT Thread      \* those who compete for the lock

VARIABLE holder

Free == 0

LockInit == holder = Free

LockAcquire == holder = Free /\ holder' \in Thread

LockRelease == holder \in Thread /\ holder' = Free

LockSpec == LockInit /\ [][LockAcquire \/ LockRelease]_holder
=============================================================================
