CONSTANTS
    r1 = r1
    r2 = r2
    r3 = r3
    c1 = c1
    c2 = c2
    Clients = {c1, c2}
    Requests = {r1, r2}
    RequestIds = {}
    NoId = NoId
    NoRun = NoRun
    MaxTurn = 2
    MaxInterjections = 0
    LoopFailures = {"failed"}
    MaxFaults = 1
    MaxCrashes = 1
    MaxMishaps = 1
    MaxLost = 1
SYMMETRY RewindSymmetry
SPECIFICATION RSpec
CONSTRAINT NothingFollows
CHECK_DEADLOCK FALSE
INVARIANTS
    WindowRefsExist
    ReplayFits
PROPERTIES
    FilesBeforeTalk
