CONSTANTS
    BatchSize = 2
    MinimumBatchSize = 2
    DictionaryMaxQuerySize = 3
    InitBlockHeight = 1
    UseDictionary = TRUE
    GenesisMatches = FALSE
    ScaleBatchSize = TRUE
    MaxPolls = 1
    InitialPollMayFail = FALSE
    RpcMayFail = TRUE
    MayShutDown = TRUE
    BestLead = 1
    MaxHeight = 7
    Rows <- MCRows
    RuntimeAt <- MCRuntimeAt
SPECIFICATION Spec
INVARIANTS NeverOverflows SpecVersionsRight
PROPERTY ImplementsStream
CHECK_DEADLOCK FALSE
