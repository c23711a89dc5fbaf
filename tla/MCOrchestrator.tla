--------------------------- MODULE MCOrchestrator ---------------------------
(* Constants of the model-checking runs of Orchestrator.                   *)
EXTENDS Orchestrator

OneProject == [t \in TaskId |-> "p"]
=============================================================================
