\* Two tasks of one project or of two, with one crash or stop of the hub.
CONSTANTS
    AgentName = {"x", "y"}
    TeamName = {"s", "t"}
    ProjectName = {"p", "q"}
    ProfileName = {"developer", "online", "misspelt"}
    Room = {"r1", "r2"}
    Permissions <- Capabilities
    Workspace <- Workspaces
    ProjectRoot <- Root
    TaskId = {1, 2}
    Request <- Requests
    Restored = {2}
    MaxDowns = 1
SPECIFICATION Spec
INVARIANTS OneWriter BranchPure ReportIsOwn SelectionIsSound
CHECK_DEADLOCK FALSE
