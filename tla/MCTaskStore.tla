----------------------------- MODULE MCTaskStore -----------------------------
(* Bounds of the model-checking runs of TaskStore.                         *)
EXTENDS TaskStore, TLC

\* Event ids are only compared; permuting them changes nothing.
EventSymmetry == Permutations(EventId)
=============================================================================
