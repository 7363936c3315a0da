CONSTANTS
    BlockOffset = 1
    PoiIds <- MCRows
    FetchRange = 2
    FileMayBeLost = TRUE
    MaxRestarts = 3
SPECIFICATION FairSpec
INVARIANTS LeavesInPlace RootsRight
PROPERTIES RootsStoredToFirstGap RootsFinal
CHECK_DEADLOCK FALSE
