\* A task, next to one whose update was lost by an earlier hub, with two failing
\* calls, crashes or stops, a clock that was set back, and an operator's command.
CONSTANTS
    TaskId = {1, 2}
    RunId = {1, 2}
    Agent = {}
    Deliverer <- Callers
    DeliveryId <- Updates
    Text <- UpdateTexts
    MaxAttempts = 1
    MaxMishaps = 2
    RouteLimit = 2
    Opener = {"hub", "cli"}
    MIGRATIONS <- Histories
    Hub = "hub"
    Operator = "cli"
    Earlier = {1}
SPECIFICATION FairSpec
INVARIANTS SchemaWhole UpdateIsTrue
PROPERTIES RunningNotAfterOutcome StartReportsAll OutcomeReported ServesAgain
CHECK_DEADLOCK FALSE
