SPECIFICATION FairSpec
CONSTANTS
    Terms = 4
    Budget = 1
    QueueCapacity = 1
    w1 = w1
    w2 = w2
    main = main
    Workers = {w1, w2}
    Main = main
    Callers = {w1, w2, main}
    Chunks <- ChunksOfTerms
    Faults = {"writeError", "indexError", "indexSyncError", "removeError", "corrupt", "kill"}
    MaxFaults = 1
    MaxRuns = 2
    NoOne = NoOne
INVARIANTS
    ValuesAreKept
    AccountingIsExact
    FaultFreeRunSucceeds
PROPERTIES
    RunEnds
