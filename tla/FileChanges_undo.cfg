CONSTANTS
    MaxFile = 2
    Contents = {v0, v1}
    Original = v0
    Foreign = mine
    NoRow = NoRow
    Tools = {t1, t2, t3}
    Undoers = {u1, u2}
    MaxEdits = 2
    MaxLost = 1
SPECIFICATION FSpec
CONSTRAINT Searched
SYMMETRY ToolSymmetry
CHECK_DEADLOCK FALSE
INVARIANTS
    UndoIsWhole
    LogIsRight
    EditsSurvive
