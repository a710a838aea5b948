SPECIFICATION FairSpec
CONSTANTS
    TermCount = 3
    TreeLevels = 2
    FreshRuns = TRUE
    Faults = {"kill", "writeError", "syncError", "damage"}
    MaxFaults = 2
INVARIANTS
    FrontierPartitions
    RestartLosesNothing
PROPERTIES
    NamedBlocksStay
    ComputationEnds
