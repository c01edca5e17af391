CONSTANTS
    Server <- MCServer
    Listing <- MCListing
    ServerEntries <- MCServerEntries
    Group <- MCGroup
    CanFail = TRUE
SPECIFICATION Spec
INVARIANTS
    RoundFromOneRefresh
