\* A failing call, and a crash or shutdown, at any moment of two tasks of one
\* project.
CONSTANTS
    TaskId = {1, 2}
    Agent = {dev}
    RunId = {1, 2, 3}
    Project = {"p"}
    ProjectOf <- OneProject
    Developer = dev
    Worker = {1, 2, 3}
    Canceller = {}
    MaxConcurrent = 2
    MaxFaults = 1
    MaxDowns = 1
SPECIFICATION Spec
INVARIANTS TypeInvariant WorkUnderLock AtMostOneRun OutcomeBacked
