\* Can a process be started for a task that is cancelled?
CONSTANTS
    TaskId = {1, 2}
    Agent = {dev}
    RunId = {1, 2, 3}
    Project = {"p"}
    ProjectOf <- OneProject
    Developer = dev
    Worker = {1, 2, 3}
    Canceller = {c1}
    MaxConcurrent = 2
    MaxFaults = 0
    MaxDowns = 0
SPECIFICATION FairSpec
PROPERTIES CancelStopsWork
