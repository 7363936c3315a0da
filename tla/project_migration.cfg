CONSTANTS
    Undefined = Undefined
    Rejected = Rejected
    Torn = Torn
    ChainGenesis = ChainGenesis
    OtherGenesis = OtherGenesis
    Endpoint = Endpoint
    Dictionary = Dictionary
    Block = Block
    Log = Log
    Call = Call
    Address = Address
    Abi = Abi
    Plugin <- MCPlugin
    Manifests <- MCManifests
    TypesFiles <- MCTypesFiles
    Packages <- MCPackages
    MaxRuns = 3
SPECIFICATION Spec
INVARIANTS OriginalKept MigrationKeepsProject ValidatedProjectStarts PublishedIsProject
CHECK_DEADLOCK FALSE
