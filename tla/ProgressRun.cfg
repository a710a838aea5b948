CONSTANTS
    TermCount = 3
    Cutoff = 1
    TasksPerWorker = 1
    Workers = {w1, w2}
    Coordinator = main
    Faults = {"start", "task", "commit", "calculation", "output", "report"}
    MaxFaults = 1
SPECIFICATION FairSpec
INVARIANTS TermsAreExact ExitStatusIsTrue LastRecordIsFinal
PROPERTIES CliEnds
