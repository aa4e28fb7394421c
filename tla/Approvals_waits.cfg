CONSTANTS
    c1 = c1
    c2 = c2
    t1 = t1
    p1 = p1
    NoProject = NoProject
    Tasks = {t1}
    Calls = {c1, c2}
    TaskOf <- TwoCalls
    ProjectOf <- OneProject
    MaxFaults = 1
    MaxCrashes = 1
SPECIFICATION FairSpec
CHECK_DEADLOCK FALSE
INVARIANTS
    RunsAllowed
    CardsTell
PROPERTIES
    AnswerEndsWait
