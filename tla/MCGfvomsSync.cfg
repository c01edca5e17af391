CONSTANTS
    p1 = p1
    p2 = p2
    v1 = v1
    v2 = v2
    NoFile = NoFile
    NoList = NoList
    Procs <- MCProcs1
    VOs <- MCVOs
SPECIFICATION Spec
INVARIANTS
    OwnCompleteList
