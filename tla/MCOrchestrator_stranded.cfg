\* Can a task be left in planning with nobody working on it?
CONSTANTS
    TaskId = {1, 2}
    Agent = {dev}
    RunId = {1, 2, 3}
    Project = {"p"}
    ProjectOf <- OneProject
    Developer = dev
    Worker = {1, 2, 3}
    Canceller = {c1}
    MaxConcurrent = 2
    MaxFaults = 0
    MaxDowns = 0
SPECIFICATION Spec
INVARIANTS PlanningOwned
