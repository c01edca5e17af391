CONSTANTS
    Items <- MCItems
    Dirs <- MCDirs
    DirOrder <- MCDirOrder
    Ents <- MCEnts
    Group = Group
    RowMax0 = 1
    MaxRows = 1
    MaxVal = 1
    MaxGen = 2
    RowsAllWritten = TRUE
    SameSecondRestart = FALSE
    StartedEmpty = FALSE
SPECIFICATION Spec
INVARIANTS
    TypeOK
    
PROPERTIES
    CountsMonotone
    EventuallyCurrent
