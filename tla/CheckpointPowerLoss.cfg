SPECIFICATION Spec
CONSTANTS
    TermCount = 5
    TreeLevels = 3
    FreshRuns = FALSE
    Faults = {"powerLoss", "writeError"}
    MaxFaults = 3
INVARIANTS
    ManifestIsBacked
    DoneIsDurable
PROPERTIES
    FrontierOnlyGrows
