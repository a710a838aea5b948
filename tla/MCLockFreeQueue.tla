--------------------------- MODULE MCLockFreeQueue ---------------------------
EXTENDS LockFreeQueue, TLC

ThreadsAndTasks == Permutations(Threads) \cup Permutations(Tasks)
=============================================================================
