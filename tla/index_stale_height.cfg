CONSTANTS
    early = early
    late = late
    DataSources = {early, late}
    StartBlock <- MCFromOne
    Operations <- MCOperations
    Needed <- MCNeeded
    LegacyNextHeight <- NoRow
    ProofOfIndex = TRUE
    WriteMayOverlap = TRUE
    MaxHeight = 4
    MaxRestarts = 1
SPECIFICATION Spec
INVARIANT IndexedOnce
CHECK_DEADLOCK FALSE
