CONSTANTS
    None = None
    MaxRound = 2
    MaxHeadPolls = 3
SPECIFICATION ProviderSpec
INVARIANTS MissedOnlyHeads NothingKeptForEver HeadKeptBetweenRounds
CHECK_DEADLOCK FALSE
