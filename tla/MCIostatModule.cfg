CONSTANTS
    Server <- MCServer
    Listing <- MCListing
    ServerEntries <- MCServerEntries
    Group <- MCGroup
    Ents <- MCEnts
    RowMax0 = 1
    MaxRows = 1
    MaxVal = 0
    MaxGen = 1
    RowsAllWritten = TRUE
    SameSecondRestart = FALSE
    StartedEmpty = FALSE
SPECIFICATION Spec
INVARIANTS
    TypeOK
    OneRefreshPerRound
    NoLookupFallback
PROPERTIES
    EventuallyServesCurrent
