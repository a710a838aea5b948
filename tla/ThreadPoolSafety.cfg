SPECIFICATION Spec
CONSTANTS
    Clients = {c1, c2}
    NumWorkers = 2
    Tasks = {t1, t2}
    QueueCapacity = 1
    MaxGenerations = 2
    MaxSpawnFailures = 1
    NoTask = NoTask
    NoOne = NoOne
SYMMETRY ClientsAndTasks
INVARIANTS
    OutstandingIsExact
    NoTaskLost
    StoppedIsDrained
PROPERTIES
    StopDrains
