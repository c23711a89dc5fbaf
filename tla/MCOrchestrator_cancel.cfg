\* A cancel request, and a crash or shutdown, at any moment of two tasks of one
\* project.
CONSTANTS
    TaskId = {1, 2}
    Agent = {dev}
    RunId = {1, 2, 3}
    Project = {"p"}
    ProjectOf <- OneProject
    Developer = dev
    Worker = {1, 2, 3}
    Canceller = {c1}
    MaxConcurrent = 2
    MaxFaults = 0
    MaxDowns = 1
SPECIFICATION FairSpec
INVARIANTS ExclusiveClaim RegistryExact RunningOwned
PROPERTIES QueuedIsSettled
