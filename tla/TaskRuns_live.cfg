CONSTANTS
    r1 = r1
    r2 = r2
    r3 = r3
    m1 = m1
    Requests = {r1, r2}
    RequestIds = {}
    NoId = NoId
    NoRun = NoRun
    MaxTurn = 2
    MaxInterjections = 0
    LoopFailures = {"failed", "max_steps"}
    MaxFaults = 1
    MaxCrashes = 1
    MaxMishaps = 2

SPECIFICATION FairSpec
CHECK_DEADLOCK FALSE
INVARIANTS
    Cancellable
    RunningHasRun
PROPERTIES
    RunsWindDown
    RecoveryEnds
