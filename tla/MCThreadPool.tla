---------------------------- MODULE MCThreadPool ----------------------------
EXTENDS ThreadPool, TLC

ClientsAndTasks == Permutations(Clients) \cup Permutations(Tasks)
=============================================================================
