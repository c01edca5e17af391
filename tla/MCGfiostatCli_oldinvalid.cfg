CONSTANTS
    Items <- MCItems
    RowMax0 = 1
    MaxRows = 2
    MaxVal = 1
    MaxGen = 2
    RowsAllWritten = TRUE
    SameSecondRestart = FALSE
    Iters = 4
SPECIFICATION Spec
CHECK_DEADLOCK FALSE
INVARIANTS
    NoCrashOnInvalidOld
