CONSTANTS
    Undefined = Undefined
    Null = Null
    Contract = Contract
    Other = Other
    Alice = Alice
    Transfer = Transfer
    Holder = Holder
    Approve = Approve
    Projects <- MCProjects
    Chain <- MCChain
    MaxHeight = 6
    NodeSpecName = "here"
SPECIFICATION Spec
INVARIANT EveryCallMade
CHECK_DEADLOCK FALSE
