\* Two tasks of one project, in one hub that neither crashes nor stops.
CONSTANTS
    AgentName = {"x"}
    TeamName = {"s"}
    ProjectName = {"p"}
    ProfileName = {"developer"}
    Room = {"r1"}
    Permissions <- Capabilities
    Workspace <- Workspaces
    ProjectRoot <- Root
    TaskId = {1, 2}
    Request <- SameProject
    Restored = {}
    MaxDowns = 0
SPECIFICATION Spec
INVARIANTS TasksDoNotOverlap
CHECK_DEADLOCK FALSE
