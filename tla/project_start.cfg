CONSTANTS
    DbSchema = DbSchema
    LegacySchema = LegacySchema
    None = None
    Manifests <- MCManifests
    LegacyHeight = 1
    MaxHeight = 4
    MaxLaunches = 3
SPECIFICATION FairSpec
INVARIANTS RowsComplete CleanStart RootsRight
PROPERTY CleanLaunchRuns
CHECK_DEADLOCK FALSE
