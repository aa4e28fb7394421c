CONSTANTS
    r1 = r1
    r2 = r2
    r3 = r3
    m1 = m1
    Requests = {r1, r2}
    RequestIds = {m1}
    NoId = NoId
    NoRun = NoRun
    MaxTurn = 2
    MaxInterjections = 1
    LoopFailures = {"max_steps"}
    MaxFaults = 1
    MaxCrashes = 1
    MaxMishaps = 1
SYMMETRY RequestSymmetry
SPECIFICATION Spec
CHECK_DEADLOCK FALSE
INVARIANTS
    OneRun
    RequestStartsOnce
PROPERTIES
    Implements
