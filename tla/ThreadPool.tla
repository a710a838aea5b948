----------------------------- MODULE ThreadPool -----------------------------
(***************************************************************************)
(* The scheduler: ThreadPool, its Workers, the queues they share and the   *)
(* Task / TaskHandle state behind every submission.                        *)
(*                                                                         *)
(* Clients are threads outside the pool; each calls start, stop, submit    *)
(* and TaskHandle::wait in any order.  A task body running on a worker may *)
(* submit children.  A step is what one thread does between two points     *)
(* where another thread can see or change what it depends on: taking the   *)
(* lifecycle mutex, one queue operation, one atomic counter operation.     *)
(***************************************************************************)
EXTENDS Integers, Sequences, FiniteSets

CONSTANTS
    Clients,            \* external threads
    NumWorkers,         \* workers_.size()
    Tasks,              \* Task objects; a Task is move-only, so submitted once
    QueueCapacity,      \* capacity of the bounded global queue
    MaxGenerations,     \* bound: how many stops the callers complete
    MaxSpawnFailures,   \* bound: how often std::thread construction throws
    NoTask,             \* "no task"
    NoOne               \* "the lifecycle mutex is free"

Workers == 1 .. NumWorkers

ASSUME PoolAssumption ==
    /\ NumWorkers \in Nat \ {0}
    /\ QueueCapacity \in Nat \ {0}
    /\ MaxGenerations \in Nat
    /\ MaxSpawnFailures \in Nat
    /\ NoTask \notin Tasks
    /\ Clients \cap Workers = {}
    /\ NoOne \notin Clients \cup Workers

ASSUME TasksFinite == IsFiniteSet(Tasks)

VARIABLES
    \* ThreadPool
    state,              \* state_
    stopGeneration,     \* stopGeneration_
    outstanding,        \* outstandingTasks_
    mutex,              \* the thread that holds lifecycleMutex_ across steps
    reserved,           \* the task its holder has counted but not yet queued
    asleep,             \* clients blocked in a condition_variable wait
    globalQueue,        \* queue_, the bounded IQueue
    \* Worker
    localQueue,         \* localQueue_ of each worker, back at the end
    running,            \* running_
    stopRequested,      \* stopRequested_
    wpc,                \* where the worker's thread is in Worker::run
    victim,             \* next worker Worker::steal looks at
    wtask,              \* the task the worker has taken
    \* Task and TaskHandle
    taskState,
    handle,             \* what submit() returned for the task
    \* the calls in progress
    cpc,                \* where each client is
    cworker,            \* the worker its loop over workers_ has reached
    cgeneration,        \* stopGeneration remembered by an overlapping stop
    ctask,              \* the task it waits for
    spawnFailures,      \* failed thread constructions so far
    \* history
    open,               \* tasks counted in outstandingTasks_
    promised            \* tasks accepted when the client called stop()

poolVars    == <<state, stopGeneration, outstanding, mutex, reserved, globalQueue, open>>
workerVars  == <<localQueue, running, stopRequested, wpc, victim, wtask>>
taskVars    == <<taskState, handle>>
clientVars  == <<asleep, cpc, cworker, cgeneration, ctask, spawnFailures, promised>>
vars        == <<poolVars, workerVars, taskVars, clientVars>>

Terminal == {"Completed", "Failed"}

WorkerPC == {"off", "local", "global", "steal", "check",
             "execute", "body", "notify", "count", "exited"}
ClientPC == {"idle", "startWait", "starting", "abortRequest", "abortJoin",
             "stopWait", "stopRequest", "stopJoin", "stopNotify", "waitTask"}

TypeOK ==
    /\ state \in {"Stopped", "Running", "Stopping"}
    /\ stopGeneration \in Nat
    /\ outstanding \in Nat
    /\ mutex \in Clients \cup Workers \cup {NoOne}
    /\ reserved \in Tasks \cup {NoTask}
    /\ asleep \in SUBSET Clients
    /\ globalQueue \in Seq(Tasks)
    /\ localQueue \in [Workers -> Seq(Tasks)]
    /\ running \in [Workers -> BOOLEAN]
    /\ stopRequested \in [Workers -> BOOLEAN]
    /\ wpc \in [Workers -> WorkerPC]
    /\ victim \in [Workers -> 1 .. NumWorkers + 1]
    /\ wtask \in [Workers -> Tasks \cup {NoTask}]
    /\ taskState \in [Tasks -> {"Pending", "Running"} \cup Terminal]
    /\ handle \in [Tasks -> {"none", "valid", "invalid"}]
    /\ cpc \in [Clients -> ClientPC]
    /\ cworker \in [Clients -> 1 .. NumWorkers + 1]
    /\ cgeneration \in [Clients -> Nat]
    /\ ctask \in [Clients -> Tasks \cup {NoTask}]
    /\ spawnFailures \in Nat
    /\ open \in SUBSET Tasks
    /\ promised \in [Clients -> SUBSET Tasks]

Init ==
    /\ state = "Stopped"
    /\ stopGeneration = 0
    /\ outstanding = 0
    /\ mutex = NoOne
    /\ reserved = NoTask
    /\ asleep = {}
    /\ globalQueue = <<>>
    /\ localQueue = [w \in Workers |-> <<>>]
    /\ running = [w \in Workers |-> FALSE]
    /\ stopRequested = [w \in Workers |-> FALSE]
    /\ wpc = [w \in Workers |-> "off"]
    /\ victim = [w \in Workers |-> 1]
    /\ wtask = [w \in Workers |-> NoTask]
    /\ taskState = [t \in Tasks |-> "Pending"]
    /\ handle = [t \in Tasks |-> "none"]
    /\ cpc = [c \in Clients |-> "idle"]
    /\ cworker = [c \in Clients |-> 1]
    /\ cgeneration = [c \in Clients |-> 0]
    /\ ctask = [c \in Clients |-> NoTask]
    /\ spawnFailures = 0
    /\ open = {}
    /\ promised = [c \in Clients |-> {}]

-----------------------------------------------------------------------------
(* ThreadPool::submit.  The whole call holds lifecycleMutex_; the counter  *)
(* is raised in one step and the task queued in the next, because workers  *)
(* read the counter and the queues without that mutex.                     *)

\* outstandingTasks_.fetch_add, before the task is published.
Reserve(t) ==
    /\ outstanding' = outstanding + 1
    /\ open' = open \cup {t}

\* taskCompleted()
Release(t) ==
    /\ outstanding' = outstanding - 1
    /\ open' = open \ {t}

\* A thread that can call submit(): an idle client, or a worker in a task body.
CanSubmit(a) ==
    \/ a \in Clients /\ cpc[a] = "idle"
    \/ a \in Workers /\ wpc[a] = "body"

SubmitRefused(a, t) ==
    /\ CanSubmit(a) /\ mutex = NoOne /\ handle[t] = "none"
    /\ state # "Running"
    /\ handle' = [handle EXCEPT ![t] = "invalid"]
    /\ UNCHANGED <<poolVars, workerVars, taskState, clientVars>>

SubmitReserve(a, t) ==
    /\ CanSubmit(a) /\ mutex = NoOne /\ handle[t] = "none"
    /\ state = "Running"
    /\ Reserve(t)
    /\ mutex' = a
    /\ reserved' = t
    /\ UNCHANGED <<state, stopGeneration, globalQueue, workerVars, taskVars, clientVars>>

\* Worker::push, onto the back of the caller's own deque.
PushLocal(w, t) == localQueue' = [localQueue EXCEPT ![w] = Append(@, t)]

\* queue_->push, and the mutant that ignores that it may return false.
PushGlobalUnchecked(t) ==
    globalQueue' = IF Len(globalQueue) < QueueCapacity THEN Append(globalQueue, t) ELSE globalQueue

PushGlobal(t) ==
    /\ Len(globalQueue) < QueueCapacity
    /\ globalQueue' = Append(globalQueue, t)

\* The task reaches the caller's own local queue, or the global one.
SubmitPush(a) ==
    /\ mutex = a /\ reserved # NoTask
    /\ \/ a \in Workers /\ PushLocal(a, reserved) /\ UNCHANGED globalQueue
       \/ a \in Clients /\ PushGlobal(reserved) /\ UNCHANGED localQueue
    /\ handle' = [handle EXCEPT ![reserved] = "valid"]
    /\ mutex' = NoOne
    /\ reserved' = NoTask
    /\ UNCHANGED <<state, stopGeneration, outstanding, open, running, stopRequested,
                   wpc, victim, wtask, taskState, clientVars>>

\* taskCompleted() as submit() calls it for a task it could not publish.
RollBackForgotten(t) ==
    /\ outstanding' = outstanding
    /\ open' = open \ {t}

RollBack(t) == Release(t)

\* The global queue is full, or the insertion throws: the count is undone.
SubmitRollback(a) ==
    /\ mutex = a /\ reserved # NoTask
    /\ RollBack(reserved)
    /\ handle' = [handle EXCEPT ![reserved] = "invalid"]
    /\ mutex' = NoOne
    /\ reserved' = NoTask
    /\ UNCHANGED <<state, stopGeneration, globalQueue, workerVars, taskState, clientVars>>

-----------------------------------------------------------------------------
(* Worker::run, one queue operation at a time.                             *)

Goto(w, pc) == wpc' = [wpc EXCEPT ![w] = pc]

Take(w, t) ==
    /\ wtask' = [wtask EXCEPT ![w] = t]
    /\ Goto(w, "execute")

\* WorkStealingQueue: what its owner's pop and a thief's steal leave in it.
PopBack(queue) == SubSeq(queue, 1, Len(queue) - 1)

StealFront(queue) == Tail(queue)

\* localQueue_.pop(): the newest of its own tasks.
PopLocal(w) ==
    /\ wpc[w] = "local"
    /\ LET queue == localQueue[w] IN
       \/ /\ queue = <<>>
          /\ Goto(w, "global")
          /\ UNCHANGED <<localQueue, wtask>>
       \/ /\ queue # <<>>
          /\ localQueue' = [localQueue EXCEPT ![w] = PopBack(queue)]
          /\ Take(w, queue[Len(queue)])
    /\ UNCHANGED <<poolVars, running, stopRequested, victim, taskVars, clientVars>>

\* globalQueue_->pop(): the oldest external submission.
PopGlobal(w) ==
    /\ wpc[w] = "global"
    /\ \/ /\ globalQueue = <<>>
          /\ Goto(w, "steal")
          /\ UNCHANGED <<globalQueue, wtask>>
       \/ /\ globalQueue # <<>>
          /\ globalQueue' = Tail(globalQueue)
          /\ Take(w, Head(globalQueue))
    /\ UNCHANGED <<state, stopGeneration, outstanding, mutex, reserved, open,
                   localQueue, running, stopRequested, victim, taskVars, clientVars>>

\* Worker::steal(): the oldest task of the first other worker that has one.
Steal(w) ==
    /\ wpc[w] = "steal"
    /\ LET v == victim[w] IN
       \/ /\ v > NumWorkers
          /\ Goto(w, "check")
          /\ victim' = [victim EXCEPT ![w] = 1]
          /\ UNCHANGED <<localQueue, wtask>>
       \/ /\ v <= NumWorkers
          /\ v = w \/ localQueue[v] = <<>>
          /\ victim' = [victim EXCEPT ![w] = v + 1]
          /\ UNCHANGED <<localQueue, wpc, wtask>>
       \/ /\ v <= NumWorkers
          /\ v # w /\ localQueue[v] # <<>>
          /\ localQueue' = [localQueue EXCEPT ![v] = StealFront(@)]
          /\ Take(w, Head(localQueue[v]))
          /\ victim' = [victim EXCEPT ![w] = 1]
    /\ UNCHANGED <<poolVars, running, stopRequested, taskVars, clientVars>>

\* drainComplete()
StopAtOnce == TRUE

DrainComplete == outstanding = 0

\* Leave the loop, or yield and look again.
CheckStop(w) ==
    /\ wpc[w] = "check"
    /\ Goto(w, IF stopRequested[w] /\ DrainComplete THEN "exited" ELSE "local")
    /\ UNCHANGED <<poolVars, localQueue, running, stopRequested, victim, wtask,
                   taskVars, clientVars>>

\* Task::execute: claim the task, then run the callable.
BeginTask(w) ==
    /\ wpc[w] = "execute"
    /\ taskState[wtask[w]] = "Pending"
    /\ taskState' = [taskState EXCEPT ![wtask[w]] = "Running"]
    /\ Goto(w, "body")
    /\ UNCHANGED <<poolVars, localQueue, running, stopRequested, victim, wtask,
                   handle, clientVars>>

\* finishTask: publish the result under the task's mutex ...
FinishTask(w) ==
    /\ wpc[w] = "body" /\ mutex # w
    /\ \E result \in Terminal : taskState' = [taskState EXCEPT ![wtask[w]] = result]
    /\ Goto(w, "notify")
    /\ UNCHANGED <<poolVars, localQueue, running, stopRequested, victim, wtask,
                   handle, clientVars>>

\* ... and wake every thread that sleeps on it.
NotifyTask(w) ==
    /\ wpc[w] = "notify"
    /\ asleep' = asleep \ {c \in Clients : cpc[c] = "waitTask" /\ ctask[c] = wtask[w]}
    /\ Goto(w, "count")
    /\ UNCHANGED <<poolVars, localQueue, running, stopRequested, victim, wtask, taskVars,
                   cpc, cworker, cgeneration, ctask, spawnFailures, promised>>

\* taskCompleted(), after execute() has returned.
TaskCompleted(w) ==
    /\ wpc[w] = "count"
    /\ Release(wtask[w])
    /\ wtask' = [wtask EXCEPT ![w] = NoTask]
    /\ Goto(w, "local")
    /\ UNCHANGED <<state, stopGeneration, mutex, reserved, globalQueue, localQueue,
                   running, stopRequested, victim, taskVars, clientVars>>

WorkerStep(w) ==
    \/ PopLocal(w) \/ PopGlobal(w) \/ Steal(w) \/ CheckStop(w)
    \/ BeginTask(w) \/ FinishTask(w) \/ NotifyTask(w) \/ TaskCompleted(w)

-----------------------------------------------------------------------------
(* ThreadPool::start.                                                      *)

\* A client that has the lifecycle mutex to itself for one step: it enters
\* the call, or it has been woken inside the call's condition wait.
Enters(c, waitPC) ==
    /\ mutex = NoOne
    /\ cpc[c] = "idle" \/ (cpc[c] = waitPC /\ c \notin asleep)

ClientGoto(c, pc) == cpc' = [cpc EXCEPT ![c] = pc]

\* The call returns and its locals go out of scope.
Return(c) ==
    /\ ClientGoto(c, "idle")
    /\ cworker' = [cworker EXCEPT ![c] = 1]
    /\ cgeneration' = [cgeneration EXCEPT ![c] = 0]
    /\ ctask' = [ctask EXCEPT ![c] = NoTask]
    /\ promised' = [promised EXCEPT ![c] = {}]

\* Another thread is stopping the pool: sleep until it is done.
StartBlocks(c) ==
    /\ Enters(c, "startWait")
    /\ state = "Stopping"
    /\ ClientGoto(c, "startWait")
    /\ asleep' = asleep \cup {c}
    /\ UNCHANGED <<poolVars, workerVars, taskVars,
                   cworker, cgeneration, ctask, spawnFailures, promised>>

\* Already Running: nothing to do.
StartReturns(c) ==
    /\ Enters(c, "startWait")
    /\ state = "Running"
    /\ Return(c)
    /\ UNCHANGED <<poolVars, workerVars, taskVars, asleep, spawnFailures>>

StartBegins(c) ==
    /\ Enters(c, "startWait")
    /\ state = "Stopped"
    /\ mutex' = c
    /\ ClientGoto(c, "starting")
    /\ UNCHANGED <<state, stopGeneration, outstanding, reserved, globalQueue, open, workerVars,
                   taskVars, asleep, cworker, cgeneration, ctask, spawnFailures, promised>>

\* Worker::start for the next worker: its thread enters Worker::run.
StartWorker(c) ==
    /\ cpc[c] = "starting" /\ cworker[c] <= NumWorkers
    /\ LET w == cworker[c] IN
       /\ stopRequested' = [stopRequested EXCEPT ![w] = FALSE]
       /\ running' = [running EXCEPT ![w] = TRUE]
       /\ wpc' = [wpc EXCEPT ![w] = "local"]
    /\ cworker' = [cworker EXCEPT ![c] = @ + 1]
    /\ UNCHANGED <<poolVars, localQueue, victim, wtask, taskVars,
                   asleep, cpc, cgeneration, ctask, spawnFailures, promised>>

StartEnds(c) ==
    /\ cpc[c] = "starting" /\ cworker[c] > NumWorkers
    /\ state' = "Running"
    /\ mutex' = NoOne
    /\ Return(c)
    /\ UNCHANGED <<stopGeneration, outstanding, reserved, globalQueue, open, workerVars,
                   taskVars, asleep, spawnFailures>>

\* std::thread throws: every worker is stopped again, the mutex still held.
SpawnFails(c) ==
    /\ cpc[c] = "starting" /\ cworker[c] <= NumWorkers
    /\ spawnFailures < MaxSpawnFailures
    /\ spawnFailures' = spawnFailures + 1
    /\ stopRequested' = [stopRequested EXCEPT ![cworker[c]] = FALSE]
    /\ ClientGoto(c, "abortRequest")
    /\ cworker' = [cworker EXCEPT ![c] = 1]
    /\ UNCHANGED <<poolVars, localQueue, running, wpc, victim, wtask, taskVars,
                   asleep, cgeneration, ctask, promised>>

AbortRequest(c) ==
    /\ cpc[c] = "abortRequest" /\ cworker[c] <= NumWorkers
    /\ stopRequested' = [stopRequested EXCEPT ![cworker[c]] = TRUE]
    /\ ClientGoto(c, "abortJoin")
    /\ UNCHANGED <<poolVars, localQueue, running, wpc, victim, wtask, taskVars,
                   asleep, cworker, cgeneration, ctask, spawnFailures, promised>>

\* Worker::join: returns at once if there is no thread, else when it ended.
Joined(w) == ~running[w] \/ wpc[w] = "exited"

Join(w) ==
    /\ Joined(w)
    /\ running' = [running EXCEPT ![w] = FALSE]
    /\ wpc' = [wpc EXCEPT ![w] = "off"]

AbortJoin(c) ==
    /\ cpc[c] = "abortJoin"
    /\ Join(cworker[c])
    /\ cworker' = [cworker EXCEPT ![c] = @ + 1]
    /\ ClientGoto(c, "abortRequest")
    /\ UNCHANGED <<poolVars, localQueue, stopRequested, victim, wtask, taskVars,
                   asleep, cgeneration, ctask, spawnFailures, promised>>

\* The pool is Stopped again and the exception leaves start().
AbortEnds(c) ==
    /\ cpc[c] = "abortRequest" /\ cworker[c] > NumWorkers
    /\ state' = "Stopped"
    /\ mutex' = NoOne
    /\ Return(c)
    /\ UNCHANGED <<stopGeneration, outstanding, reserved, globalQueue, open, workerVars,
                   taskVars, asleep, spawnFailures>>

-----------------------------------------------------------------------------
(* ThreadPool::stop.                                                       *)

Accepted == {t \in Tasks : handle[t] = "valid"}

\* This call stops the pool.
StopBegins(c) ==
    /\ cpc[c] = "idle" /\ mutex = NoOne
    /\ state = "Running"
    /\ stopGeneration < MaxGenerations
    /\ state' = "Stopping"
    /\ ClientGoto(c, "stopRequest")
    /\ promised' = [promised EXCEPT ![c] = Accepted]
    /\ UNCHANGED <<stopGeneration, outstanding, mutex, reserved, globalQueue, open, workerVars,
                   taskVars, asleep, cworker, cgeneration, ctask, spawnFailures>>

\* Another call is stopping it: wait for that generation to end.
StopOverlaps(c) ==
    /\ cpc[c] = "idle" /\ mutex = NoOne
    /\ state = "Stopping"
    /\ cgeneration' = [cgeneration EXCEPT ![c] = stopGeneration]
    /\ ClientGoto(c, "stopWait")
    /\ asleep' = asleep \cup {c}
    /\ promised' = [promised EXCEPT ![c] = Accepted]
    /\ UNCHANGED <<poolVars, workerVars, taskVars, cworker, ctask, spawnFailures>>

\* The predicate of the overlapping stop's wait.
PoolIsStopped(c) == state = "Stopped"

WokenIsEnough(c) == TRUE

GenerationEnded(c) == stopGeneration # cgeneration[c]

StopWakes(c) ==
    /\ cpc[c] = "stopWait" /\ c \notin asleep /\ mutex = NoOne
    /\ \/ /\ GenerationEnded(c)
          /\ Return(c)
          /\ UNCHANGED asleep
       \/ /\ ~GenerationEnded(c)
          /\ asleep' = asleep \cup {c}
          /\ UNCHANGED <<cpc, cworker, cgeneration, ctask, promised>>
    /\ UNCHANGED <<poolVars, workerVars, taskVars, spawnFailures>>

\* requestStop() for the next worker; then the loop that joins them begins.
StopRequest(c) ==
    /\ cpc[c] = "stopRequest"
    /\ \/ /\ cworker[c] <= NumWorkers
          /\ stopRequested' = [stopRequested EXCEPT ![cworker[c]] = TRUE]
          /\ cworker' = [cworker EXCEPT ![c] = @ + 1]
          /\ UNCHANGED cpc
       \/ /\ cworker[c] > NumWorkers
          /\ cworker' = [cworker EXCEPT ![c] = 1]
          /\ ClientGoto(c, "stopJoin")
          /\ UNCHANGED stopRequested
    /\ UNCHANGED <<poolVars, localQueue, running, wpc, victim, wtask, taskVars,
                   asleep, cgeneration, ctask, spawnFailures, promised>>

StopJoin(c) ==
    /\ cpc[c] = "stopJoin" /\ cworker[c] <= NumWorkers
    /\ Join(cworker[c])
    /\ cworker' = [cworker EXCEPT ![c] = @ + 1]
    /\ UNCHANGED <<poolVars, localQueue, stopRequested, victim, wtask, taskVars,
                   asleep, cpc, cgeneration, ctask, spawnFailures, promised>>

StopEnds(c) ==
    /\ cpc[c] = "stopJoin" /\ cworker[c] > NumWorkers
    /\ mutex = NoOne
    /\ state' = "Stopped"
    /\ stopGeneration' = stopGeneration + 1
    /\ ClientGoto(c, "stopNotify")
    /\ UNCHANGED <<outstanding, mutex, reserved, globalQueue, open, workerVars, taskVars,
                   asleep, cworker, cgeneration, ctask, spawnFailures, promised>>

\* notify_all on the lifecycle condition, after the mutex is released.
StopNotify(c) ==
    /\ cpc[c] = "stopNotify"
    /\ asleep' = asleep \ {d \in Clients : cpc[d] \in {"startWait", "stopWait"}}
    /\ Return(c)
    /\ UNCHANGED <<poolVars, workerVars, taskVars, spawnFailures>>

-----------------------------------------------------------------------------
(* TaskHandle::wait on a valid handle.                                     *)

WaitBegins(c, t) ==
    /\ cpc[c] = "idle" /\ mutex # c /\ handle[t] = "valid"
    /\ ctask' = [ctask EXCEPT ![c] = t]
    /\ ClientGoto(c, "waitTask")
    /\ UNCHANGED <<poolVars, workerVars, taskVars,
                   asleep, cworker, cgeneration, spawnFailures, promised>>

WaitChecks(c) ==
    /\ cpc[c] = "waitTask" /\ c \notin asleep
    /\ \/ /\ taskState[ctask[c]] \in Terminal
          /\ Return(c)
          /\ UNCHANGED asleep
       \/ /\ taskState[ctask[c]] \notin Terminal
          /\ asleep' = asleep \cup {c}
          /\ UNCHANGED <<cpc, cworker, cgeneration, ctask, promised>>
    /\ UNCHANGED <<poolVars, workerVars, taskVars, spawnFailures>>

\* A condition variable may wake a sleeper for no reason.
SpuriousWakeup(c) ==
    /\ c \in asleep
    /\ asleep' = asleep \ {c}
    /\ UNCHANGED <<poolVars, workerVars, taskVars,
                   cpc, cworker, cgeneration, ctask, spawnFailures, promised>>

-----------------------------------------------------------------------------

\* What a client does inside a call it has already made.
InCall(c) ==
    \/ cpc[c] = "startWait" /\ (StartBlocks(c) \/ StartReturns(c) \/ StartBegins(c))
    \/ StartWorker(c) \/ StartEnds(c)
    \/ AbortRequest(c) \/ AbortJoin(c) \/ AbortEnds(c)
    \/ StopWakes(c) \/ StopRequest(c) \/ StopJoin(c) \/ StopEnds(c) \/ StopNotify(c)
    \/ WaitChecks(c)

\* The calls a client may choose to make, and what may go wrong around it.
Calls(c) ==
    \/ StartBlocks(c) \/ StartReturns(c) \/ StartBegins(c)
    \/ StopBegins(c) \/ StopOverlaps(c)
    \/ \E t \in Tasks : WaitBegins(c, t)
    \/ SpawnFails(c)
    \/ SpuriousWakeup(c)

SubmitEnds(a) == SubmitPush(a) \/ SubmitRollback(a)

Submits(a) ==
    \/ \E t \in Tasks : SubmitRefused(a, t) \/ SubmitReserve(a, t)
    \/ SubmitEnds(a)

Next ==
    \/ \E c \in Clients : InCall(c) \/ Calls(c)
    \/ \E a \in Clients \cup Workers : Submits(a)
    \/ \E w \in Workers : WorkerStep(w)

(* Threads that can run are scheduled, task bodies return, and a call that *)
(* has been made goes on.  Nobody is obliged to make a call, no spurious   *)
(* wakeup is counted on.                                                   *)
Fairness ==
    /\ \A c \in Clients : WF_vars(InCall(c))
    /\ \A a \in Clients \cup Workers : WF_vars(SubmitEnds(a))
    /\ \A w \in Workers : WF_vars(WorkerStep(w))

Spec == Init /\ [][Next]_vars

FairSpec == Spec /\ Fairness
-----------------------------------------------------------------------------
(* Properties.                                                             *)

\* Where the tasks are: in the hands of the thread that submits one, in a
\* queue, in the hands of a worker.
Elems(queue) == {queue[i] : i \in DOMAIN queue}

InQueues == Elems(globalQueue) \cup UNION {Elems(localQueue[w]) : w \in Workers}

InHands == ({reserved} \cup {wtask[w] : w \in Workers}) \ {NoTask}

\* outstandingTasks_ is exactly the number of tasks that are being submitted,
\* queued anywhere, stolen or executing.  drainComplete() relies on it; the
\* queues and the counter are updated in different steps of different threads.
OutstandingIsExact == outstanding = Cardinality(InQueues \cup InHands)

\* A task is never in two places, so that it is never run or counted twice:
\* no queue holds it twice, no two queues or workers share it.
OnePlace ==
    /\ InQueues \cap InHands = {}
    /\ \A i, j \in DOMAIN globalQueue : globalQueue[i] = globalQueue[j] => i = j
    /\ \A w \in Workers :
        /\ Elems(localQueue[w]) \cap Elems(globalQueue) = {}
        /\ \A i, j \in DOMAIN localQueue[w] : localQueue[w][i] = localQueue[w][j] => i = j
        /\ wtask[w] # NoTask => wtask[w] # reserved
        /\ \A v \in Workers \ {w} :
            /\ Elems(localQueue[w]) \cap Elems(localQueue[v]) = {}
            /\ wtask[w] # NoTask => wtask[w] # wtask[v]

\* No accepted task is ever dropped: until it is terminal it is somewhere.
NoTaskLost ==
    \A t \in Tasks :
        handle[t] = "valid" /\ taskState[t] \notin Terminal => t \in InQueues \cup InHands

\* While the pool is Stopped every accepted handle is terminal, no thread is
\* running and nothing is left over for the next start() (ADR-0023).
StoppedIsDrained ==
    state = "Stopped" =>
        /\ \A t \in Accepted : taskState[t] \in Terminal
        /\ mutex = NoOne => \A w \in Workers : ~running[w] /\ wpc[w] = "off"
        /\ globalQueue = <<>>
        /\ \A w \in Workers : localQueue[w] = <<>>

\* A stop() call, the one that stops the pool or one that overlaps it, returns
\* only when every task accepted before the call is terminal, even if the pool
\* has been restarted before the overlapping caller gets the mutex back.
StopDrains ==
    [][\A c \in Clients :
          cpc[c] \in {"stopWait", "stopNotify"} /\ cpc'[c] = "idle"
              => \A t \in promised[c] : taskState[t] \in Terminal]_vars

\* Every call of start(), stop() and TaskHandle::wait() returns.
CallsReturn == \A c \in Clients : cpc[c] # "idle" ~> cpc[c] = "idle"

\* The pool is an implementation of the scheduler's contract: submission
\* cutoff, run at most once, drain before Stopped, and accepted work ends.
Service == INSTANCE TaskService

ServiceSafety == Service!Safety

ServiceSpec == Service!Spec
=============================================================================
