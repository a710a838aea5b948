SPECIFICATION FairSpec
CONSTANTS
    Clients = {c1, c2}
    NumWorkers = 2
    Tasks = {t1, t2}
    QueueCapacity = 1
    MaxGenerations = 1
    MaxSpawnFailures = 0
    NoTask = NoTask
    NoOne = NoOne
PROPERTIES
    CallsReturn
    ServiceSpec
