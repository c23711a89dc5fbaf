-------------------------------- MODULE MCHub --------------------------------
(* Constants of the model-checking run of Hub.                             *)
EXTENDS Hub

Callers == {Startup} \cup {Worker(t) : t \in TaskId} \cup {Canceller(t) : t \in TaskId}

Updates == TaskId \X _REPLAYABLE_STATUSES

UpdateTexts == [status : _REPLAYABLE_STATUSES, runtime : RunStatus \cup {"none"}]

\* The operator's checkout may be newer than the code of the running hub.
Histories == [o \in {"hub", "cli"} |->
                IF o = "hub" THEN <<"m1", "m2">> ELSE <<"m1", "m2", "m3">>]
=============================================================================
