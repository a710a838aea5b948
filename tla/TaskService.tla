----------------------------- MODULE TaskService -----------------------------
(***************************************************************************)
(* What the scheduler promises its callers (ADR-0022 and ADR-0023), with   *)
(* no threads, no queues and no counters: a pool that is Stopped, Running  *)
(* or Stopping, and tasks whose handle is valid or not and which run once. *)
(* ThreadPool implements this specification.                               *)
(***************************************************************************)
CONSTANTS
    Tasks           \* the Task objects that callers ever submit

VARIABLES
    state,          \* SchedulerState
    handle,         \* what submit() returned: "none" before the call
    taskState       \* TaskState of the shared state behind the handle

vars == <<state, handle, taskState>>

Terminal == {"Completed", "Failed"}

\* The accepted tasks whose handle is not terminal yet.
Unfinished == {t \in Tasks : handle[t] = "valid" /\ taskState[t] \notin Terminal}

Init ==
    /\ state = "Stopped"
    /\ handle = [t \in Tasks |-> "none"]
    /\ taskState = [t \in Tasks |-> "Pending"]

Start ==
    /\ state = "Stopped"
    /\ state' = "Running"
    /\ UNCHANGED <<handle, taskState>>

StopBegin ==
    /\ state = "Running"
    /\ state' = "Stopping"
    /\ UNCHANGED <<handle, taskState>>

\* A pool is Stopped only when every task it accepted is terminal.
StopEnd ==
    /\ state = "Stopping"
    /\ Unfinished = {}
    /\ state' = "Stopped"
    /\ UNCHANGED <<handle, taskState>>

Accept(t) ==
    /\ state = "Running"
    /\ handle[t] = "none"
    /\ handle' = [handle EXCEPT ![t] = "valid"]
    /\ UNCHANGED <<state, taskState>>

Reject(t) ==
    /\ handle[t] = "none"
    /\ handle' = [handle EXCEPT ![t] = "invalid"]
    /\ UNCHANGED <<state, taskState>>

\* A task runs once, only if its handle is valid, and never on a Stopped pool.
Run(t) ==
    /\ state # "Stopped"
    /\ handle[t] = "valid"
    /\ taskState[t] = "Pending"
    /\ taskState' = [taskState EXCEPT ![t] = "Running"]
    /\ UNCHANGED <<state, handle>>

Finish(t) ==
    /\ state # "Stopped"
    /\ taskState[t] = "Running"
    /\ \E result \in Terminal : taskState' = [taskState EXCEPT ![t] = result]
    /\ UNCHANGED <<state, handle>>

Next ==
    \/ Start \/ StopBegin \/ StopEnd
    \/ \E t \in Tasks : Accept(t) \/ Reject(t) \/ Run(t) \/ Finish(t)

Safety == Init /\ [][Next]_vars

\* Accepted work runs and finishes, and a stop that has begun ends.
Fairness ==
    /\ \A t \in Tasks : WF_vars(Run(t)) /\ WF_vars(Finish(t))
    /\ WF_vars(StopEnd)

Spec == Safety /\ Fairness
=============================================================================
