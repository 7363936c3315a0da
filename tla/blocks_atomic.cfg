CONSTANTS
    NoEntity = NoEntity
    Counter = Counter
    Account = Account
    Ids = {Counter, Account}
    MaxHeight = 4
    Program <- MCProgram
    Runtime <- MCRuntime
    MaxRestarts = 2
SPECIFICATION FairSpec
PROPERTIES BlocksAreAtomic EveryBlockEnds
CHECK_DEADLOCK FALSE
