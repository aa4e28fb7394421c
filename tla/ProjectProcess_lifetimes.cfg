CONSTANTS
    Requests = {r1, r2}
    NoOne = NoOne
    MaxProcesses = 2
    MaxRunning = 2
    MaxRecords = 1
    MaxChunks = 1
SPECIFICATION FairSpec
CHECK_DEADLOCK FALSE
INVARIANTS
    ReadyRuns
    FileTellsEnd
PROPERTIES
    NobodysProcessEnds
