CONSTANTS
    early = early
    late = late
    DataSources = {early, late}
    StartBlock <- MCFromOne
    Operations <- MCOperations
    Needed <- MCNeeded
    LegacyNextHeight <- NoRow
    ProofOfIndex = TRUE
    WriteMayOverlap = FALSE
    MaxHeight = 3
    MaxRestarts = 2
SPECIFICATION NodeSpec
INVARIANTS PoiChained PoiComplete RowFollowsVerdict
PROPERTIES JournalIsStream StallReported DownServed
CHECK_DEADLOCK FALSE
