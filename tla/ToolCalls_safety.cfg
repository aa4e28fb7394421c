CONSTANTS
    c1 = c1
    c2 = c2
    Ids = {c1, c2}
    NoId = NoId
    MaxMessages = 2
    MaxPrograms = 1
    MaxSteps = 2
    MaxTurns = 3
SYMMETRY IdSymmetry
SPECIFICATION Spec
CHECK_DEADLOCK FALSE
INVARIANTS
    OwnAnswers
    EffectsAreKnown
    RecordedStepsOnce
