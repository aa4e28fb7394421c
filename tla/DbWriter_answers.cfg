CONSTANTS
    Callers = {c1, c2, c3, c4}
    NoJob = NoJob
    MaxGenerations = 4
SPECIFICATION FairSpec
CHECK_DEADLOCK FALSE
INVARIANTS
    NothingStranded
    OwnTransaction
PROPERTIES
    Answered
    Implements
