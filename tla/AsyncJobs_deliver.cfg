CONSTANTS
    Checks = {c1, c2}
    Tasks = {t1}
    Lanes = 1
    QueueLimit = 2
    MaxTurns = 2
SPECIFICATION JFairSpec
CHECK_DEADLOCK FALSE
INVARIANTS
    TaskHeard
    AnswerHasHeard
PROPERTIES
    ResultsAreFinal
    WaitsEnd
