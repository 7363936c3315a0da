CONSTANTS
    BatchSize = 2
    MinimumBatchSize = 2
    DictionaryMaxQuerySize = 3
    InitBlockHeight = 1
    UseDictionary = TRUE
    GenesisMatches = TRUE
    ScaleBatchSize = FALSE
    MaxPolls = 2
    InitialPollMayFail = FALSE
    RpcMayFail = FALSE
    MayShutDown = FALSE
    BestLead = 1
    MaxHeight = 4
    Rows <- MCRows
    RuntimeAt <- MCRuntimeAt
SPECIFICATION FairSpec
INVARIANTS IndexedInOrder NothingSkipped OnlyFinalized
PROPERTY EveryNeededBlockIndexed
CHECK_DEADLOCK FALSE
