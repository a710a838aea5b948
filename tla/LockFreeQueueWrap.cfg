SPECIFICATION Spec
CONSTANTS
    Threads = {p1, p2, p3}
    Tasks = {t1, t2, t3, t4, t5}
    Capacity = 2
    Width = 4
    Start = 14
    NoTask = NoTask
SYMMETRY ThreadsAndTasks
INVARIANTS
    RingIsSound
PROPERTIES
    BoundariesAreReal
    FifoSpec
