CONSTANTS
    MaxEvents = 3
    MaxTurns = 1
    MaxErrors = 2
SPECIFICATION SFairSpec
CHECK_DEADLOCK FALSE
INVARIANTS
    NothingSkipped
    SettledComplete
PROPERTIES
    FollowerSettles
