CONSTANTS
    Items <- MCItems
    Dirs <- MCDirs1
    DirOrder <- MCDirOrder1
    Ents <- MCEnts
    Group = Group
    RowMax0 = 1
    MaxRows = 3
    MaxVal = 1
    MaxGen = 3
    RowsAllWritten = FALSE
    SameSecondRestart = FALSE
    StartedEmpty = FALSE
SPECIFICATION Spec
INVARIANTS
    CountsMatchLedger
