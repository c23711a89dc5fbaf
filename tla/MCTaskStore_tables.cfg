\* Two tasks with runs, an artifact and routes: the relations between the
\* tables, what may never change again, and the abstract specification.
CONSTANTS
    TaskId = {1, 2}
    EventId = {e1, e2, e3, e4}
    Agent = {dev}
    RunId = {r1}
    ArtifactId = {a1}
    Route = {slack}
    Time = {0}
SPECIFICATION Spec
SYMMETRY EventSymmetry
INVARIANTS ReferencesResolve
PROPERTIES ClosedIsFinal ImplementsTable
