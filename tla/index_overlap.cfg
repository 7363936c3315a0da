CONSTANTS
    early = early
    late = late
    DataSources = {early, late}
    StartBlock <- MCTwoStarts
    Operations <- MCOperations
    Needed <- MCNeeded
    LegacyNextHeight <- NoRow
    ProofOfIndex = FALSE
    WriteMayOverlap = TRUE
    MaxHeight = 5
    MaxRestarts = 2
SPECIFICATION FairSpec
INVARIANT NothingLost
PROPERTY EveryNeededBlockJournaled
CHECK_DEADLOCK FALSE
