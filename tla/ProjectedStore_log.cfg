\* One task, up to five events: every path of the life cycle of that length,
\* retried and conflicting events, clock steps backwards, and one event more than
\* a listing returns.
CONSTANTS
    TaskId = {1}
    EventId = {e1, e2, e3, e4, e5}
    Agent = {dev}
    RunId = {}
    ArtifactId = {}
    Route = {}
    Time = {0, 1}
    EventLimit = 4
SPECIFICATION Spec
SYMMETRY EventSymmetry
INVARIANTS TypeOK LogExplainsTasks LogIsLegalHistory RowsDecodable
INVARIANTS ReplayReproduces DuplicatesIgnored
