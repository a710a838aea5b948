SPECIFICATION DirectoriesSpec
CONSTANTS
    Callers = {k1}
    Chunks <- ThreeOverlapping
    Faults = {"indexSyncError"}
    MaxFaults = 1
    NoOne = NoOne
    TermCount = 3
    Entries <- SomeEntries
    Manifests <- SmallManifests
    Names <- LeafNames
    Directories <- SmallDirectories
PROPERTY
    FailedStoreLeavesNothing
