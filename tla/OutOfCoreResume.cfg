SPECIFICATION Spec
CONSTANTS
    Terms = 4
    Budget = 1
    QueueCapacity = 1
    w1 = w1
    w2 = w2
    main = main
    Workers = {w1, w2}
    Main = main
    Callers = {w1, w2, main}
    Chunks <- ChunksOfTerms
    Faults = {"kill"}
    MaxFaults = 1
    MaxRuns = 1
    NoOne = NoOne
SYMMETRY WorkersAreAlike
INVARIANT
    InterruptedRunResumes
