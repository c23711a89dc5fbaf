----------------------------- MODULE MCExecution -----------------------------
(* Constants of the model-checking run of Execution.                       *)
EXTENDS Execution

Root == <<"projects">>

\* A workspace or the root itself, which is refused; the same workspace or one
\* inside it.
Workspaces == [p \in ProjectName |->
                 {<<"projects", "a">>,
                  IF p = "p" THEN Root ELSE <<"projects", "a", "b">>}]

Capabilities == [f \in {"developer", "online"} |->
                   IF f = "developer" THEN Required ELSE Required \cup {"network"}]

\* The first task is for one project, the second for the same or the other one.
Requests == {<<<<"s", "p">>, x>> : x \in {<<"s", "p">>, <<"t", "q">>}}

\* Both are for one project.
SameProject == {<<<<"s", "p">>, <<"s", "p">>>>}
=============================================================================
