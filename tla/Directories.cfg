SPECIFICATION DirectoriesSpec
CONSTANTS
    Callers = {k1, k2, k3}
    Chunks <- ThreeOverlapping
    Faults = {"kill", "writeError", "indexError", "indexSyncError", "removeError", "corrupt"}
    MaxFaults = 2
    NoOne = NoOne
    TermCount = 3
    Entries <- SomeEntries
    Manifests <- SmallManifests
    Names <- LeafNames
    Directories <- SmallDirectories
SYMMETRY CallersAreAlike
INVARIANTS
    InFlightIsExact
    StoredStaysLoadable
    FaultsAccountForDamage
    ScanIsExact
    PlanPartitions
    OnlyAcceptedFilesStay
