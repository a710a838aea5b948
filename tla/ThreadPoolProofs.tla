-------------------------- MODULE ThreadPoolProofs --------------------------
(***************************************************************************)
(* Proofs about ThreadPool for any number of clients, workers and tasks.   *)
(*                                                                         *)
(* What stop() promises is not inductive: that the pool is drained when it *)
(* becomes Stopped follows from a worker having seen the counter at zero,  *)
(* which says something about the tasks only because the counter is exact, *)
(* which it stays only because no task is ever in two places.  IInv is the *)
(* conjunction of those facts and of who may hold the lifecycle mutex.     *)
(***************************************************************************)
EXTENDS ThreadPool, FiniteSetTheorems, TLAPS

Injective(queue) == \A i, j \in DOMAIN queue : queue[i] = queue[j] => i = j

\* A task in a queue is accepted, not begun, counted, and nobody holds it.
Waiting(t) ==
    /\ t \in open
    /\ handle[t] = "valid"
    /\ taskState[t] = "Pending"
    /\ \A w \in Workers : wtask[w] # t

QueueInv ==
    /\ Injective(globalQueue)
    /\ \A t \in Elems(globalQueue) : Waiting(t)
    /\ \A w \in Workers :
        /\ Injective(localQueue[w])
        /\ \A t \in Elems(localQueue[w]) :
            /\ Waiting(t)
            /\ t \notin Elems(globalQueue)
            /\ \A v \in Workers \ {w} : t \notin Elems(localQueue[v])

\* The state a task is in follows from where its worker is.
HoldPC == {"execute", "body", "notify", "count"}

HeldInv ==
    \A w \in Workers :
        /\ wpc[w] \in HoldPC <=> wtask[w] # NoTask
        /\ wpc[w] \in HoldPC =>
            /\ wtask[w] \in open
            /\ handle[wtask[w]] = "valid"
            /\ \A v \in Workers \ {w} : wtask[v] # wtask[w]
        /\ wpc[w] = "execute" => taskState[wtask[w]] = "Pending"
        /\ wpc[w] = "body" => taskState[wtask[w]] = "Running"
        /\ wpc[w] \in {"notify", "count"} => taskState[wtask[w]] \in Terminal

\* A reserved task belongs to the thread that holds the mutex inside submit().
SubmitInv ==
    /\ reserved # NoTask =>
        /\ mutex # NoOne
        /\ state = "Running"
        /\ reserved \in open
        /\ handle[reserved] = "none"
        /\ mutex \in Clients => cpc[mutex] = "idle"
    /\ \A t \in Tasks : handle[t] # "valid" => taskState[t] = "Pending"

\* The counter counts the open tasks; those are the accepted tasks that are not
\* terminal, those just finished but not yet counted down, and the reserved
\* one, and each is somewhere.
CountInv ==
    /\ outstanding = Cardinality(open)
    /\ \A t \in Tasks : handle[t] = "valid" /\ taskState[t] \notin Terminal => t \in open
    /\ open \subseteq InQueues \cup InHands

\* Which worker threads exist, and what a thread that has ended implies.
ThreadInv ==
    \A w \in Workers :
        /\ running[w] <=> wpc[w] # "off"
        /\ wpc[w] \in {"off", "exited"} => open = {}
        /\ state = "Running" => ~stopRequested[w] /\ wpc[w] \notin {"off", "exited"}

StartPC == {"starting", "abortRequest", "abortJoin"}

StopPC == {"stopRequest", "stopJoin"}

\* Who starts and who stops the pool, and how far it has got.
LifecycleInv ==
    /\ state = "Stopped" => open = {}
    /\ state = "Stopped" /\ mutex = NoOne => \A w \in Workers : wpc[w] = "off"
    /\ \A c \in Clients :
        /\ cpc[c] \in StartPC => state = "Stopped" /\ mutex = c
        /\ cpc[c] = "starting" => \A w \in Workers :
            IF w < cworker[c]
            THEN ~stopRequested[w] /\ wpc[w] \notin {"off", "exited"}
            ELSE wpc[w] = "off"
        /\ cpc[c] \in {"abortRequest", "abortJoin", "stopJoin"} =>
            \A w \in Workers : w < cworker[c] => wpc[w] = "off"
        /\ cpc[c] = "abortJoin" => cworker[c] \in Workers
        /\ cpc[c] \in StopPC => state = "Stopping"
        /\ \A d \in Clients : cpc[c] \in StopPC /\ cpc[d] \in StopPC => c = d
        /\ cpc[c] \in {"idle", "startWait", "stopWait", "waitTask"} => cworker[c] = 1
        /\ cpc[c] = "waitTask" => ctask[c] \in Tasks

\* What a stop() in progress has promised.
PromiseInv ==
    \A c \in Clients :
        /\ \A t \in promised[c] : handle[t] = "valid"
        /\ cpc[c] = "stopNotify" => \A t \in promised[c] : taskState[t] \in Terminal
        /\ cpc[c] = "stopWait" =>
            \/ cgeneration[c] = stopGeneration /\ state = "Stopping"
            \/ /\ cgeneration[c] < stopGeneration
               /\ \A t \in promised[c] : taskState[t] \in Terminal

IInv ==
    /\ TypeOK
    /\ QueueInv /\ HeldInv /\ SubmitInv /\ CountInv
    /\ ThreadInv /\ LifecycleInv /\ PromiseInv
-----------------------------------------------------------------------------
(* What the three queue operations do to a queue's elements.               *)

\* push_back, on a local queue and on the global one, adds one element.
LEMMA AppendElems ==
    ASSUME NEW S, NEW q \in Seq(S), NEW x \in S
    PROVE  /\ Append(q, x) \in Seq(S)
           /\ Elems(Append(q, x)) = Elems(q) \cup {x}
           /\ Injective(q) /\ x \notin Elems(q) => Injective(Append(q, x))
  <1> DEFINE r == Append(q, x)
  <1>1. Len(q) \in Nat /\ DOMAIN q = 1 .. Len(q)
    OBVIOUS
  <1>2. /\ r \in Seq(S) /\ Len(r) = Len(q) + 1
        /\ \A i \in 1 .. Len(q) : r[i] = q[i]
        /\ r[Len(q) + 1] = x
    BY <1>1
  <1>3. DOMAIN r = 1 .. Len(q) + 1
    BY <1>1, <1>2
  <1> HIDE DEF r
  <1>4. Elems(r) \subseteq Elems(q) \cup {x}
    BY <1>1, <1>2, <1>3 DEF Elems
  <1>5. Elems(q) \cup {x} \subseteq Elems(r)
    BY <1>1, <1>2, <1>3 DEF Elems
  <1>6. Injective(q) /\ x \notin Elems(q) => Injective(r)
    BY <1>1, <1>2, <1>3 DEF Injective, Elems
  <1>7. QED
    BY <1>2, <1>4, <1>5, <1>6 DEF r

\* Removing the front (pop of the global queue, steal) removes that element.
LEMMA TailElems ==
    ASSUME NEW S, NEW q \in Seq(S), q # <<>>, Injective(q)
    PROVE  /\ Tail(q) \in Seq(S)
           /\ Head(q) \in Elems(q) /\ Head(q) \in S
           /\ Elems(Tail(q)) = Elems(q) \ {Head(q)}
           /\ Injective(Tail(q))
  <1>1. /\ Len(q) \in Nat /\ Len(q) >= 1 /\ DOMAIN q = 1 .. Len(q)
        /\ \A i \in 1 .. Len(q) : q[i] \in S
    OBVIOUS
  <1>2. /\ Tail(q) \in Seq(S) /\ Len(Tail(q)) = Len(q) - 1
        /\ \A i \in 1 .. Len(q) - 1 : Tail(q)[i] = q[i + 1]
        /\ Head(q) = q[1]
    BY <1>1
  <1>3. DOMAIN Tail(q) = 1 .. Len(q) - 1
    BY <1>1, <1>2
  <1>4. Elems(Tail(q)) \subseteq Elems(q) \ {Head(q)}
    BY <1>1, <1>2, <1>3 DEF Elems, Injective
  <1>5. ASSUME NEW y \in Elems(q), y # Head(q)
        PROVE  y \in Elems(Tail(q))
    <2>1. PICK i \in 1 .. Len(q) : y = q[i]
      BY <1>1 DEF Elems
    <2>2. i # 1 /\ i - 1 \in 1 .. Len(q) - 1 /\ Tail(q)[i - 1] = y
      BY <1>1, <1>2, <1>5, <2>1
    <2>3. QED
      BY <1>3, <2>2 DEF Elems
  <1>6. Injective(Tail(q))
    BY <1>1, <1>2, <1>3 DEF Injective
  <1>7. QED
    BY <1>1, <1>2, <1>4, <1>5, <1>6 DEF Elems

\* Removing the back (a worker's pop of its own queue) removes that element.
LEMMA FrontElems ==
    ASSUME NEW S, NEW q \in Seq(S), q # <<>>, Injective(q)
    PROVE  LET last == q[Len(q)] front == SubSeq(q, 1, Len(q) - 1) IN
           /\ front \in Seq(S)
           /\ last \in Elems(q) /\ last \in S
           /\ Elems(front) = Elems(q) \ {last}
           /\ Injective(front)
  <1> DEFINE last == q[Len(q)]
             front == SubSeq(q, 1, Len(q) - 1)
  <1>1. /\ Len(q) \in Nat /\ Len(q) >= 1 /\ DOMAIN q = 1 .. Len(q)
        /\ \A i \in 1 .. Len(q) : q[i] \in S
    OBVIOUS
  <1>2. /\ front \in Seq(S) /\ Len(front) = Len(q) - 1
        /\ \A i \in 1 .. Len(q) - 1 : front[i] = q[i]
    BY <1>1
  <1>3. DOMAIN front = 1 .. Len(q) - 1
    BY <1>1, <1>2
  <1> HIDE DEF front, last
  <1>4. last = q[Len(q)]
    BY DEF last
  <1>5. Elems(front) \subseteq Elems(q) \ {last}
    BY <1>1, <1>2, <1>3, <1>4 DEF Elems, Injective
  <1>6. ASSUME NEW y \in Elems(q), y # last
        PROVE  y \in Elems(front)
    <2>1. PICK i \in 1 .. Len(q) : y = q[i]
      BY <1>1 DEF Elems
    <2>2. i \in 1 .. Len(q) - 1 /\ front[i] = y
      BY <1>1, <1>2, <1>4, <1>6, <2>1
    <2>3. QED
      BY <1>3, <2>2 DEF Elems
  <1>7. Injective(front)
    BY <1>1, <1>2, <1>3 DEF Injective
  <1>8. last \in Elems(q) /\ last \in S
    BY <1>1, <1>4 DEF Elems
  <1>9. QED
    BY <1>2, <1>5, <1>6, <1>7, <1>8 DEF last, front
-----------------------------------------------------------------------------
(* start(), stop() and wait(): what a client does leaves the tasks alone.  *)

\* No call of a client touches a queue, a task or the counter, and none moves a
\* worker that holds a task.
LEMMA CallFrame ==
    ASSUME IInv, NEW c \in Clients, InCall(c) \/ Calls(c)
    PROVE  /\ UNCHANGED <<outstanding, reserved, open, globalQueue, localQueue,
                          wtask, taskState, handle, victim>>
           /\ \A w \in Workers : wpc[w] \in HoldPC \/ wpc'[w] \in HoldPC => wpc'[w] = wpc[w]
           /\ asleep' \subseteq asleep \cup {c}
           /\ \A d \in Clients \ {c} :
                /\ cpc'[d] = cpc[d] /\ cworker'[d] = cworker[d]
                /\ ctask'[d] = ctask[d]
                /\ cgeneration'[d] = cgeneration[d] /\ promised'[d] = promised[d]
  <1> USE DEF IInv, TypeOK, poolVars, workerVars, taskVars, clientVars, ClientGoto, Return
  <1>1. CASE StartBlocks(c) \/ StartReturns(c) \/ StartBegins(c)
    BY <1>1 DEF StartBlocks, StartReturns, StartBegins
  <1>2. CASE StartWorker(c)
    BY <1>2 DEF StartWorker, LifecycleInv, HoldPC, Workers
  <1>3. CASE StartEnds(c) \/ SpawnFails(c) \/ AbortRequest(c) \/ AbortEnds(c)
    BY <1>3 DEF StartEnds, SpawnFails, AbortRequest, AbortEnds
  <1>4. CASE AbortJoin(c)
    BY <1>4 DEF AbortJoin, Join, Joined, ThreadInv, LifecycleInv, HoldPC, Workers
  <1>5. CASE StopBegins(c) \/ StopOverlaps(c) \/ StopWakes(c) \/ StopRequest(c)
    BY <1>5 DEF StopBegins, StopOverlaps, StopWakes, StopRequest
  <1>6. CASE StopJoin(c)
    BY <1>6 DEF StopJoin, Join, Joined, ThreadInv, HoldPC, Workers
  <1>7. CASE StopEnds(c) \/ StopNotify(c)
    BY <1>7 DEF StopEnds, StopNotify
  <1>8. CASE WaitChecks(c) \/ SpuriousWakeup(c) \/ \E t \in Tasks : WaitBegins(c, t)
    BY <1>8 DEF WaitChecks, SpuriousWakeup, WaitBegins
  <1>9. QED
    BY <1>1, <1>2, <1>3, <1>4, <1>5, <1>6, <1>7, <1>8 DEF InCall, Calls

\* Hence the parts of the invariant that are about tasks survive every call.
LEMMA CallKeepsTasks ==
    ASSUME IInv, NEW c \in Clients, InCall(c) \/ Calls(c)
    PROVE  QueueInv' /\ HeldInv' /\ CountInv'
  <1>1. QueueInv'
    BY CallFrame DEF IInv, QueueInv, Waiting
  <1>2. HeldInv'
    BY CallFrame DEF IInv, HeldInv, HoldPC
  <1>3. CountInv'
    <2>1. (InQueues \cup InHands)' = InQueues \cup InHands
      BY CallFrame DEF InQueues, InHands
    <2>2. QED
      BY <2>1, CallFrame DEF IInv, CountInv
  <1>4. QED
    BY <1>1, <1>2, <1>3

\* Every step of a start(), a stop() or a wait() leaves its caller's own thread
\* of control and locals within their types.
LEMMA CallTypes ==
    ASSUME TypeOK, NEW c \in Clients,
           cpc[c] = "abortJoin" => cworker[c] \in Workers,
           InCall(c) \/ Calls(c)
    PROVE  TypeOK'
  <1> USE PoolAssumption DEF TypeOK, ClientPC, WorkerPC, poolVars, workerVars, taskVars, clientVars
  <1>1. ASSUME Return(c)
        PROVE  /\ cpc' \in [Clients -> ClientPC] /\ cworker' \in [Clients -> 1 .. NumWorkers + 1]
               /\ cgeneration' \in [Clients -> Nat] /\ ctask' \in [Clients -> Tasks \cup {NoTask}]
               /\ promised' \in [Clients -> SUBSET Tasks]
    BY <1>1 DEF Return, ClientGoto
  <1>2. ASSUME NEW pc \in ClientPC, ClientGoto(c, pc)
        PROVE  cpc' \in [Clients -> ClientPC]
    BY <1>2 DEF ClientGoto
  <1>3. ASSUME NEW w \in Workers, Join(w)
        PROVE  running' \in [Workers -> BOOLEAN] /\ wpc' \in [Workers -> WorkerPC]
    BY <1>3 DEF Join
  <1>4. ASSUME cworker[c] <= NumWorkers
        PROVE  cworker[c] \in Workers
               /\ [cworker EXCEPT ![c] = @ + 1] \in [Clients -> 1 .. NumWorkers + 1]
    BY <1>4 DEF Workers
  <1>5. CASE StartBlocks(c)
    BY <1>2, <1>5 DEF StartBlocks
  <1>6. CASE StartReturns(c)
    BY <1>1, <1>6 DEF StartReturns
  <1>7. CASE StartBegins(c)
    BY <1>2, <1>7 DEF StartBegins
  <1>8. CASE StartWorker(c)
    BY <1>4, <1>8 DEF StartWorker
  <1>9. CASE StartEnds(c)
    BY <1>1, <1>9 DEF StartEnds
  <1>10. CASE SpawnFails(c)
    BY <1>2, <1>4, <1>10 DEF SpawnFails
  <1>11. CASE AbortRequest(c)
    BY <1>2, <1>4, <1>11 DEF AbortRequest
  <1>12. CASE AbortJoin(c)
    <2>1. cworker[c] \in Workers /\ cworker[c] <= NumWorkers
      BY <1>12 DEF AbortJoin, Workers
    <2>2. QED
      BY <1>2, <1>3, <1>4, <1>12, <2>1 DEF AbortJoin
  <1>13. CASE AbortEnds(c)
    BY <1>1, <1>13 DEF AbortEnds
  <1>14. CASE StopBegins(c)
    BY <1>2, <1>14 DEF StopBegins, Accepted
  <1>15. CASE StopOverlaps(c)
    BY <1>2, <1>15 DEF StopOverlaps, Accepted
  <1>16. CASE StopWakes(c)
    BY <1>1, <1>16 DEF StopWakes
  <1>17. CASE StopRequest(c)
    <2>1. stopRequested' \in [Workers -> BOOLEAN]
      BY <1>4, <1>17 DEF StopRequest
    <2>2. cworker' \in [Clients -> 1 .. NumWorkers + 1]
      <3>1. [cworker EXCEPT ![c] = 1] \in [Clients -> 1 .. NumWorkers + 1]
        OBVIOUS
      <3>2. QED
        BY <1>4, <1>17, <3>1 DEF StopRequest
    <2>3. cpc' \in [Clients -> ClientPC]
      BY <1>2, <1>17 DEF StopRequest
    <2>4. QED
      BY <1>17, <2>1, <2>2, <2>3 DEF StopRequest
  <1>18. CASE StopJoin(c)
    BY <1>3, <1>4, <1>18 DEF StopJoin
  <1>19. CASE StopEnds(c)
    BY <1>2, <1>19 DEF StopEnds
  <1>20. CASE StopNotify(c)
    BY <1>1, <1>20 DEF StopNotify
  <1>21. CASE WaitChecks(c)
    BY <1>1, <1>21 DEF WaitChecks
  <1>22. CASE SpuriousWakeup(c)
    BY <1>22 DEF SpuriousWakeup
  <1>23. ASSUME NEW t \in Tasks, WaitBegins(c, t)
         PROVE  TypeOK'
    BY <1>2, <1>23 DEF WaitBegins
  <1>24. QED
    BY <1>5, <1>6, <1>7, <1>8, <1>9, <1>10, <1>11, <1>12, <1>13, <1>14, <1>15, <1>16, <1>17,
       <1>18, <1>19, <1>20, <1>21, <1>22, <1>23 DEF InCall, Calls

\* A caller that returns when nothing else changes keeps the invariant.
LEMMA ReturnKeeps ==
    ASSUME IInv, NEW c \in Clients, Return(c), InCall(c) \/ Calls(c),
           cpc[c] \notin StartPC \cup StopPC,
           UNCHANGED <<poolVars, workerVars, taskVars>>
    PROVE  SubmitInv' /\ ThreadInv' /\ LifecycleInv' /\ PromiseInv'
  <1> USE DEF IInv, poolVars, workerVars, taskVars
  <1>1. cpc'[c] = "idle" /\ cworker'[c] = 1 /\ promised'[c] = {}
    BY DEF Return, ClientGoto, TypeOK
  <1>2. \A d \in Clients : cpc'[d] # cpc[d] => d = c
    BY CallFrame
  <1>3. SubmitInv' /\ ThreadInv'
    BY <1>1, <1>2 DEF SubmitInv, ThreadInv
  <1>4. LifecycleInv'
    BY <1>1, CallFrame DEF LifecycleInv, StartPC, StopPC
  <1>5. PromiseInv'
    BY <1>1, CallFrame DEF PromiseInv
  <1>6. QED
    BY <1>3, <1>4, <1>5

\* The calls of start() keep the invariant.
LEMMA StartKeeps ==
    ASSUME IInv, NEW c \in Clients,
           \/ StartBlocks(c) \/ StartReturns(c) \/ StartBegins(c) \/ StartWorker(c)
           \/ StartEnds(c) \/ SpawnFails(c) \/ AbortRequest(c) \/ AbortJoin(c) \/ AbortEnds(c)
    PROVE  SubmitInv' /\ ThreadInv' /\ LifecycleInv' /\ PromiseInv'
  <1> USE PoolAssumption
      DEF IInv, TypeOK, ClientPC, WorkerPC, SubmitInv, ThreadInv, LifecycleInv, PromiseInv,
          StartPC, StopPC, Workers, poolVars, workerVars, taskVars, clientVars,
          Enters, ClientGoto, Return
  <1>1. CASE StartBlocks(c)
    <2>2. SubmitInv'
      BY <1>1 DEF StartBlocks
    <2>3. ThreadInv'
      BY <1>1 DEF StartBlocks
    <2>4. LifecycleInv'
      BY <1>1 DEF StartBlocks
    <2>5. PromiseInv'
      BY <1>1 DEF StartBlocks
    <2>6. QED
      BY <2>2, <2>3, <2>4, <2>5
  <1>2. CASE StartReturns(c)
    BY <1>2, ReturnKeeps DEF StartReturns, Calls
  <1>3. CASE StartBegins(c)
    BY <1>3 DEF StartBegins
  <1>4. CASE StartWorker(c)
    <2>4. SubmitInv' /\ PromiseInv'
      BY <1>4 DEF StartWorker
    <2>5. ThreadInv'
      BY <1>4 DEF StartWorker
    <2>2. LifecycleInv'
      <3>1. /\ state = "Stopped" /\ mutex = c /\ open = {} /\ mutex' = c /\ state' = state
            /\ open' = open /\ cpc' = cpc /\ ctask' = ctask
            /\ cpc[c] = "starting"
        BY <1>4 DEF StartWorker
      <3>2. \A w \in Workers :
              IF w < cworker'[c]
              THEN ~stopRequested'[w] /\ wpc'[w] \notin {"off", "exited"}
              ELSE wpc'[w] = "off"
        BY <1>4 DEF StartWorker
      <3>3. \A d \in Clients \ {c} : cpc[d] \notin StartPC \cup StopPC
        BY <3>1
      <3>4. \A d \in Clients \ {c} : cworker'[d] = cworker[d]
        BY <1>4 DEF StartWorker
      <3>5. QED
        BY <3>1, <3>2, <3>3, <3>4
    <2>3. QED
      BY <2>2, <2>4, <2>5
  <1>5. CASE StartEnds(c)
    BY <1>5 DEF StartEnds
  <1>6. CASE SpawnFails(c)
    <2>2. SubmitInv'
      BY <1>6 DEF SpawnFails
    <2>3. ThreadInv'
      BY <1>6 DEF SpawnFails
    <2>4. LifecycleInv'
      BY <1>6 DEF SpawnFails
    <2>5. PromiseInv'
      BY <1>6 DEF SpawnFails
    <2>6. QED
      BY <2>2, <2>3, <2>4, <2>5
  <1>7. CASE AbortRequest(c)
    BY <1>7 DEF AbortRequest
  <1>8. CASE AbortJoin(c)
    <2>4. SubmitInv' /\ PromiseInv'
      BY <1>8 DEF AbortJoin, Join
    <2>5. ThreadInv'
      BY <1>8 DEF AbortJoin, Join, Joined
    <2>2. LifecycleInv'
      <3>1. /\ state = "Stopped" /\ mutex = c /\ open = {} /\ mutex' = c /\ state' = state
            /\ open' = open /\ ctask' = ctask
            /\ cpc[c] = "abortJoin" /\ cpc'[c] = "abortRequest"
            /\ \A d \in Clients \ {c} : cpc'[d] = cpc[d] /\ cworker'[d] = cworker[d]
        BY <1>8 DEF AbortJoin
      <3>2. \A w \in Workers : w < cworker'[c] => wpc'[w] = "off"
        BY <1>8 DEF AbortJoin, Join
      <3>3. \A d \in Clients \ {c} : cpc[d] \notin StartPC \cup StopPC
        BY <3>1
      <3>4. \A d \in Clients : cpc'[d] \in StopPC => FALSE
        BY <3>1, <3>3
      <3>5. \A d \in Clients \ {c} : cpc[d] \in {"idle", "startWait", "stopWait", "waitTask", "stopNotify"}
        BY <3>3
      <3>6. QED
        BY <3>1, <3>2, <3>4, <3>5
    <2>3. QED
      BY <2>2, <2>4, <2>5
  <1>9. CASE AbortEnds(c)
    BY <1>9 DEF AbortEnds
  <1>10. QED
    BY <1>1, <1>2, <1>3, <1>4, <1>5, <1>6, <1>7, <1>8, <1>9

\* The calls of stop() keep the invariant.
LEMMA StopKeeps ==
    ASSUME IInv, NEW c \in Clients,
           \/ StopBegins(c) \/ StopOverlaps(c) \/ StopWakes(c) \/ StopRequest(c)
           \/ StopJoin(c) \/ StopEnds(c) \/ StopNotify(c)
    PROVE  SubmitInv' /\ ThreadInv' /\ LifecycleInv' /\ PromiseInv'
  <1> USE PoolAssumption
      DEF IInv, TypeOK, ClientPC, WorkerPC, SubmitInv, ThreadInv, LifecycleInv, PromiseInv,
          StartPC, StopPC, Workers, poolVars, workerVars, taskVars, clientVars,
          ClientGoto, Return
  <1>1. CASE StopBegins(c)
    BY <1>1 DEF StopBegins, Accepted
  <1>2. CASE StopOverlaps(c)
    BY <1>2 DEF StopOverlaps, Accepted
  <1>3. CASE StopWakes(c)
    <2>1. CASE Return(c)
      BY <1>3, <2>1, ReturnKeeps DEF StopWakes, InCall
    <2>2. CASE ~Return(c)
      <3>1. UNCHANGED <<poolVars, workerVars, taskVars, cpc, cworker, cgeneration, ctask, promised>>
        BY <1>3, <2>2 DEF StopWakes
      <3>2. QED
        BY <3>1
    <2>3. QED
      BY <2>1, <2>2
  <1>4. CASE StopRequest(c)
    <2>1. /\ cpc[c] = "stopRequest" /\ cpc'[c] \in StopPC
          /\ cpc'[c] = "stopJoin" => cworker'[c] = 1
          /\ state = "Stopping"
      BY <1>4 DEF StopRequest
    <2>2. UNCHANGED <<poolVars, wpc, running, taskVars>>
      BY <1>4 DEF StopRequest
    <2>3. InCall(c)
      BY <1>4 DEF InCall
    <2> HIDE DEF IInv, TypeOK, SubmitInv, ThreadInv, LifecycleInv, PromiseInv
    <2>4. SubmitInv' /\ ThreadInv'
      BY <2>1, <2>2, <2>3, CallFrame DEF IInv, SubmitInv, ThreadInv
    <2>5. LifecycleInv'
      BY <2>1, <2>2, <2>3, CallFrame DEF IInv, LifecycleInv
    <2>6. PromiseInv'
      BY <2>1, <2>2, <2>3, <1>4, CallFrame DEF IInv, PromiseInv, StopRequest
    <2>7. QED
      BY <2>4, <2>5, <2>6
  <1>5. CASE StopJoin(c)
    <2>4. SubmitInv' /\ PromiseInv'
      BY <1>5 DEF StopJoin, Join
    <2>5. ThreadInv'
      BY <1>5 DEF StopJoin, Join, Joined
    <2>2. LifecycleInv'
      <3>1. /\ state = "Stopping" /\ state' = state /\ open' = open /\ mutex' = mutex
            /\ cpc[c] = "stopJoin" /\ cpc' = cpc /\ ctask' = ctask
            /\ \A d \in Clients \ {c} : cworker'[d] = cworker[d]
        BY <1>5 DEF StopJoin
      <3>2. \A w \in Workers : w < cworker'[c] => wpc'[w] = "off"
        BY <1>5 DEF StopJoin, Join
      <3>3. \A d \in Clients \ {c} : cpc[d] \notin StartPC \cup StopPC
        BY <3>1
      <3>4. QED
        BY <3>1, <3>2, <3>3
    <2>3. QED
      BY <2>2, <2>4, <2>5
  <1>6. CASE StopEnds(c)
    <2>1. SubmitInv' /\ ThreadInv'
      BY <1>6 DEF StopEnds
    <2>2. wpc[1] = "off" /\ open = {} /\ \A w \in Workers : wpc[w] = "off"
      BY <1>6 DEF StopEnds
    <2>3. LifecycleInv'
      BY <1>6, <2>2 DEF StopEnds
    <2>4. PromiseInv'
      <3>1. \A d \in Clients : \A t \in promised[d] : taskState[t] \in Terminal
        BY <2>2 DEF CountInv
      <3>2. /\ cpc'[c] = "stopNotify" /\ stopGeneration' > stopGeneration
            /\ UNCHANGED <<taskState, handle, promised, cgeneration>>
            /\ \A d \in Clients \ {c} : cpc'[d] = cpc[d]
        BY <1>6 DEF StopEnds
      <3>3. \A d \in Clients : cpc[d] = "stopWait" => cgeneration[d] < stopGeneration'
        <4>1. /\ stopGeneration \in Nat /\ stopGeneration' \in Nat
              /\ \A d \in Clients : cgeneration[d] \in Nat
          BY <1>6 DEF StopEnds
        <4>2. \A d \in Clients : cpc[d] = "stopWait" => cgeneration[d] <= stopGeneration
          BY <4>1
        <4>3. QED
          BY <3>2, <4>1, <4>2
      <3>4. QED
        BY <3>1, <3>2, <3>3
    <2>5. QED
      BY <2>1, <2>3, <2>4
  <1>7. CASE StopNotify(c)
    <2>2. SubmitInv'
      BY <1>7 DEF StopNotify
    <2>3. ThreadInv'
      BY <1>7 DEF StopNotify
    <2>4. LifecycleInv'
      BY <1>7 DEF StopNotify
    <2>5. PromiseInv'
      BY <1>7 DEF StopNotify
    <2>6. QED
      BY <2>2, <2>3, <2>4, <2>5
  <1>8. QED
    BY <1>1, <1>2, <1>3, <1>4, <1>5, <1>6, <1>7

\* Waiting for a task keeps the invariant.
LEMMA WaitKeeps ==
    ASSUME IInv, NEW c \in Clients,
           WaitChecks(c) \/ SpuriousWakeup(c) \/ \E t \in Tasks : WaitBegins(c, t)
    PROVE  SubmitInv' /\ ThreadInv' /\ LifecycleInv' /\ PromiseInv'
  <1> USE PoolAssumption
      DEF IInv, TypeOK, ClientPC, SubmitInv, ThreadInv, LifecycleInv, PromiseInv,
          StartPC, StopPC, poolVars, workerVars, taskVars, clientVars, ClientGoto, Return
  <1>1. CASE WaitChecks(c)
    <2>1. CASE Return(c)
      BY <1>1, <2>1, ReturnKeeps DEF WaitChecks, InCall
    <2>2. CASE ~Return(c)
      BY <1>1, <2>2 DEF WaitChecks
    <2>3. QED
      BY <2>1, <2>2
  <1>2. CASE SpuriousWakeup(c)
    BY <1>2 DEF SpuriousWakeup
  <1>3. ASSUME NEW t \in Tasks, WaitBegins(c, t)
        PROVE  SubmitInv' /\ ThreadInv' /\ LifecycleInv' /\ PromiseInv'
    BY <1>3 DEF WaitBegins
  <1>4. QED
    BY <1>1, <1>2, <1>3
-----------------------------------------------------------------------------
(* Worker::run.                                                            *)

\* w takes t out of the one queue that holds it.
Takes(w, t) ==
    /\ wpc[w] \in {"local", "global", "steal"}
    /\ t \in InQueues
    /\ Take(w, t)
    /\ globalQueue' \in Seq(Tasks) /\ localQueue' \in [Workers -> Seq(Tasks)]
    /\ Injective(globalQueue') /\ Elems(globalQueue') = Elems(globalQueue) \ {t}
    /\ \A v \in Workers :
        /\ Injective(localQueue'[v])
        /\ Elems(localQueue'[v]) = Elems(localQueue[v]) \ {t}
    /\ victim' \in [Workers -> 1 .. NumWorkers + 1]
    /\ UNCHANGED <<state, stopGeneration, outstanding, mutex, reserved, open,
                   running, stopRequested, taskVars, clientVars>>

\* w has found nothing where it looked, and leaves run() only if it may.
Looks(w) ==
    /\ wpc[w] \in {"local", "global", "steal", "check"}
    /\ \E pc \in {"local", "global", "steal", "check", "exited"} :
        /\ pc = "exited" => stopRequested[w] /\ outstanding = 0
        /\ Goto(w, pc)
    /\ victim' \in [Workers -> 1 .. NumWorkers + 1]
    /\ UNCHANGED <<poolVars, localQueue, running, stopRequested, wtask, taskVars, clientVars>>

\* localQueue_.pop() finds nothing, or takes a task out of the worker's own queue.
LEMMA PopLocalStep ==
    ASSUME IInv, NEW w \in Workers, PopLocal(w)
    PROVE  Looks(w) \/ \E t \in Tasks : Takes(w, t)
  <1>1. CASE localQueue[w] = <<>>
    <2>1. wtask' = wtask /\ localQueue' = localQueue /\ Goto(w, "global")
      BY <1>1 DEF PopLocal
    <2>2. QED
      BY <2>1 DEF PopLocal, Looks, IInv, TypeOK, poolVars
  <1>2. CASE localQueue[w] # <<>>
    <2> DEFINE q == localQueue[w]
               t == q[Len(q)]
               front == SubSeq(q, 1, Len(q) - 1)
    <2>1. q \in Seq(Tasks) /\ Injective(q)
      BY DEF IInv, TypeOK, QueueInv
    <2>2. front \in Seq(Tasks) /\ t \in Elems(q) /\ t \in Tasks
          /\ Elems(front) = Elems(q) \ {t} /\ Injective(front)
      BY <1>2, <2>1, FrontElems
    <2>3. localQueue' = [localQueue EXCEPT ![w] = front] /\ Take(w, t)
      BY <1>2 DEF PopLocal, PopBack
    <2> HIDE DEF t, front
    <2>4. t \in InQueues /\ t \notin Elems(globalQueue)
          /\ \A v \in Workers \ {w} : t \notin Elems(localQueue[v])
      BY <2>2 DEF IInv, QueueInv, InQueues
    <2>5. /\ localQueue' \in [Workers -> Seq(Tasks)]
          /\ localQueue'[w] = front
          /\ \A v \in Workers \ {w} : localQueue'[v] = localQueue[v]
      BY <2>2, <2>3 DEF IInv, TypeOK
    <2>6. \A v \in Workers : Injective(localQueue'[v])
                             /\ Elems(localQueue'[v]) = Elems(localQueue[v]) \ {t}
      BY <2>2, <2>4, <2>5 DEF IInv, QueueInv
    <2>7. globalQueue' = globalQueue /\ Elems(globalQueue') = Elems(globalQueue) \ {t}
          /\ Injective(globalQueue) /\ globalQueue \in Seq(Tasks)
      BY <2>4 DEF PopLocal, poolVars, IInv, TypeOK, QueueInv
    <2>8. Takes(w, t)
      BY <2>3, <2>4, <2>5, <2>6, <2>7 DEF Takes, PopLocal, poolVars, IInv, TypeOK
    <2>9. QED
      BY <2>2, <2>8
  <1>3. QED
    BY <1>1, <1>2

\* globalQueue_->pop() finds nothing, or takes the oldest external submission.
LEMMA PopGlobalStep ==
    ASSUME IInv, NEW w \in Workers, PopGlobal(w)
    PROVE  Looks(w) \/ \E t \in Tasks : Takes(w, t)
  <1>1. CASE globalQueue = <<>>
    <2>1. wtask' = wtask /\ globalQueue' = globalQueue /\ Goto(w, "steal")
      BY <1>1 DEF PopGlobal
    <2>2. QED
      BY <2>1 DEF PopGlobal, Looks, IInv, TypeOK, poolVars
  <1>2. CASE globalQueue # <<>>
    <2> DEFINE t == Head(globalQueue)
    <2>1. globalQueue \in Seq(Tasks) /\ Injective(globalQueue)
      BY DEF IInv, TypeOK, QueueInv
    <2>2. /\ Tail(globalQueue) \in Seq(Tasks) /\ t \in Elems(globalQueue) /\ t \in Tasks
          /\ Elems(Tail(globalQueue)) = Elems(globalQueue) \ {t}
          /\ Injective(Tail(globalQueue))
      BY <1>2, <2>1, TailElems
    <2>3. globalQueue' = Tail(globalQueue) /\ Take(w, t) /\ localQueue' = localQueue
      BY <1>2 DEF PopGlobal
    <2> HIDE DEF t
    <2>4. t \in InQueues /\ \A v \in Workers : t \notin Elems(localQueue[v])
      BY <2>2 DEF IInv, QueueInv, InQueues
    <2>5. \A v \in Workers : Injective(localQueue'[v])
                             /\ Elems(localQueue'[v]) = Elems(localQueue[v]) \ {t}
      BY <2>3, <2>4 DEF IInv, QueueInv
    <2>6. Takes(w, t)
      BY <2>2, <2>3, <2>4, <2>5 DEF Takes, PopGlobal, IInv, TypeOK
    <2>7. QED
      BY <2>2, <2>6
  <1>3. QED
    BY <1>1, <1>2

\* Worker::steal() looks at one victim: it finds nothing, or takes its oldest task.
LEMMA StealStep ==
    ASSUME IInv, NEW w \in Workers, Steal(w)
    PROVE  Looks(w) \/ \E t \in Tasks : Takes(w, t)
  <1> DEFINE v == victim[w]
  <1>0. v \in 1 .. NumWorkers + 1
    BY DEF IInv, TypeOK
  <1>1. CASE v > NumWorkers \/ v = w \/ localQueue[v] = <<>>
    <2>1. /\ wtask' = wtask /\ localQueue' = localQueue
          /\ victim' = [victim EXCEPT ![w] = 1] \/ (v <= NumWorkers /\ victim' = [victim EXCEPT ![w] = v + 1])
          /\ Goto(w, "check") \/ wpc' = wpc
      BY <1>0, <1>1, PoolAssumption DEF Steal, Workers
    <2>2. victim' \in [Workers -> 1 .. NumWorkers + 1]
      <3>1. victim \in [Workers -> 1 .. NumWorkers + 1] /\ NumWorkers \in Nat
        BY PoolAssumption DEF IInv, TypeOK
      <3>2. \A n \in 1 .. NumWorkers + 1 :
              [victim EXCEPT ![w] = n] \in [Workers -> 1 .. NumWorkers + 1]
        BY <3>1
      <3>3. v <= NumWorkers => v + 1 \in 1 .. NumWorkers + 1
        BY <1>0, <3>1
      <3>4. 1 \in 1 .. NumWorkers + 1
        BY <3>1
      <3>5. QED
        BY <2>1, <3>2, <3>3, <3>4
    <2>3. Goto(w, "check") \/ Goto(w, "steal")
      BY <2>1 DEF Goto, Steal, IInv, TypeOK
    <2>4. QED
      BY <2>1, <2>2, <2>3 DEF Steal, Looks
  <1>2. CASE v \in Workers /\ v # w /\ localQueue[v] # <<>>
    <2> DEFINE q == localQueue[v]
               t == Head(q)
    <2>1. q \in Seq(Tasks) /\ Injective(q)
      BY <1>2 DEF IInv, TypeOK, QueueInv
    <2>2. Tail(q) \in Seq(Tasks) /\ t \in Elems(q) /\ t \in Tasks
          /\ Elems(Tail(q)) = Elems(q) \ {t} /\ Injective(Tail(q))
      BY <1>2, <2>1, TailElems
    <2>3. localQueue' = [localQueue EXCEPT ![v] = Tail(q)] /\ Take(w, t)
          /\ victim' = [victim EXCEPT ![w] = 1]
      BY <1>2, PoolAssumption DEF Steal, StealFront, Workers
    <2> HIDE DEF t
    <2>4. t \in InQueues /\ t \notin Elems(globalQueue)
          /\ \A u \in Workers \ {v} : t \notin Elems(localQueue[u])
      BY <1>2, <2>2 DEF IInv, QueueInv, InQueues
    <2>5. /\ localQueue' \in [Workers -> Seq(Tasks)]
          /\ localQueue'[v] = Tail(q)
          /\ \A u \in Workers \ {v} : localQueue'[u] = localQueue[u]
      BY <1>2, <2>2, <2>3 DEF IInv, TypeOK
    <2>6. \A u \in Workers : Injective(localQueue'[u])
                             /\ Elems(localQueue'[u]) = Elems(localQueue[u]) \ {t}
      <3>1. \A u \in Workers \ {v} : Injective(localQueue'[u])
              /\ Elems(localQueue'[u]) = Elems(localQueue[u]) \ {t}
        BY <2>4, <2>5 DEF IInv, QueueInv
      <3>2. QED
        BY <1>2, <2>2, <2>5, <3>1
    <2>7. globalQueue' = globalQueue /\ Elems(globalQueue') = Elems(globalQueue) \ {t}
          /\ Injective(globalQueue) /\ globalQueue \in Seq(Tasks)
      BY <2>4 DEF Steal, poolVars, IInv, TypeOK, QueueInv
    <2>8. victim' \in [Workers -> 1 .. NumWorkers + 1]
      BY <2>3, PoolAssumption DEF IInv, TypeOK
    <2>9. Takes(w, t)
      BY <2>3, <2>4, <2>5, <2>6, <2>7, <2>8 DEF Takes, Steal, poolVars
    <2>10. QED
      BY <2>2, <2>9
  <1>3. QED
    BY <1>0, <1>1, <1>2, PoolAssumption DEF Workers

\* The end of the loop of Worker::run only moves the worker on.
LEMMA CheckStopStep ==
    ASSUME IInv, NEW w \in Workers, CheckStop(w)
    PROVE  Looks(w)
  <1>1. CASE stopRequested[w] /\ DrainComplete
    BY <1>1 DEF CheckStop, Looks, IInv, TypeOK, DrainComplete
  <1>2. CASE ~(stopRequested[w] /\ DrainComplete)
    BY <1>2 DEF CheckStop, Looks, IInv, TypeOK
  <1>3. QED
    BY <1>1, <1>2

\* The counter at zero means that no task is open.
LEMMA CountedOut ==
    ASSUME TypeOK, CountInv
    PROVE  /\ IsFiniteSet(open)
           /\ outstanding = 0 <=> open = {}
  BY TasksFinite, FS_Subset, FS_EmptySet DEF TypeOK, CountInv

\* What no step of a worker changes or undoes.
LEMMA WorkerFrame ==
    ASSUME IInv, NEW w \in Workers,
           \/ Looks(w) \/ (\E t \in Tasks : Takes(w, t))
           \/ BeginTask(w) \/ FinishTask(w) \/ NotifyTask(w) \/ TaskCompleted(w)
    PROVE  /\ UNCHANGED <<state, stopGeneration, mutex, reserved, running, stopRequested, handle,
                          cpc, cworker, cgeneration, ctask, spawnFailures, promised>>
           /\ \A v \in Workers : (wpc'[v] = "off") <=> (wpc[v] = "off")
           /\ \A v \in Workers :
                wpc'[v] = "exited" => wpc[v] = "exited" \/ (open = {} /\ stopRequested[v])
           /\ open' \subseteq open
           /\ \A t \in open \ open' : handle[t] = "valid"
           /\ \A t \in Tasks : taskState[t] \in Terminal => taskState'[t] \in Terminal
           /\ \A t \in Tasks : taskState'[t] # taskState[t] => handle[t] = "valid"
  <1> USE DEF IInv, TypeOK, HeldInv, HoldPC, Goto, poolVars, workerVars, taskVars, clientVars
  <1>1. CASE Looks(w)
    <2>1. outstanding = 0 => open = {}
      BY CountedOut
    <2>2. QED
      BY <1>1, <2>1 DEF Looks
  <1>2. CASE \E t \in Tasks : Takes(w, t)
    BY <1>2 DEF Takes, Take
  <1>3. CASE BeginTask(w)
    BY <1>3 DEF BeginTask, Terminal
  <1>4. CASE FinishTask(w)
    BY <1>4 DEF FinishTask
  <1>5. CASE NotifyTask(w)
    BY <1>5 DEF NotifyTask
  <1>6. CASE TaskCompleted(w)
    BY <1>6 DEF TaskCompleted, Release
  <1>7. QED
    BY <1>1, <1>2, <1>3, <1>4, <1>5, <1>6

\* Hence the parts of the invariant that are about the callers survive it.
LEMMA WorkerKeepsCalls ==
    ASSUME IInv, NEW w \in Workers,
           \/ Looks(w) \/ (\E t \in Tasks : Takes(w, t))
           \/ BeginTask(w) \/ FinishTask(w) \/ NotifyTask(w) \/ TaskCompleted(w)
    PROVE  SubmitInv' /\ ThreadInv' /\ LifecycleInv' /\ PromiseInv'
  <1>1. SubmitInv'
    BY WorkerFrame DEF IInv, TypeOK, SubmitInv
  <1>2. ThreadInv'
    BY WorkerFrame DEF IInv, ThreadInv
  <1>3. LifecycleInv'
    BY WorkerFrame DEF IInv, LifecycleInv
  <1>4. PromiseInv'
    BY WorkerFrame DEF IInv, TypeOK, PromiseInv
  <1>5. QED
    BY <1>1, <1>2, <1>3, <1>4

\* A worker that finds nothing keeps the invariant.
LEMMA LooksKeeps ==
    ASSUME IInv, NEW w \in Workers, Looks(w)
    PROVE  IInv'
  <1> USE DEF Goto, poolVars, taskVars, clientVars
  <1>1. TypeOK'
    BY DEF IInv, TypeOK, Looks, WorkerPC
  <1>2. QueueInv'
    BY DEF IInv, Looks, QueueInv, Waiting
  <1>3. HeldInv'
    BY DEF IInv, TypeOK, Looks, HeldInv, HoldPC
  <1>4. CountInv'
    <2>1. (InQueues \cup InHands)' = InQueues \cup InHands
      BY DEF Looks, InQueues, InHands
    <2>2. QED
      BY <2>1 DEF IInv, CountInv, Looks
  <1>5. QED
    BY <1>1, <1>2, <1>3, <1>4, WorkerKeepsCalls DEF IInv

\* A worker that takes a task keeps the invariant.
LEMMA TakesKeeps ==
    ASSUME IInv, NEW w \in Workers, NEW t \in Tasks, Takes(w, t)
    PROVE  IInv'
  <1> USE DEF Goto, taskVars, clientVars
  <1>1. /\ wtask[w] = NoTask /\ wtask'[w] = t /\ wpc'[w] = "execute"
        /\ \A v \in Workers \ {w} : wtask'[v] = wtask[v] /\ wpc'[v] = wpc[v]
    BY DEF IInv, TypeOK, Takes, Take, HeldInv, HoldPC
  <1>2. Waiting(t)
    BY DEF IInv, QueueInv, Takes, InQueues
  <1>3. TypeOK'
    BY DEF IInv, TypeOK, Takes, Take, WorkerPC
  <1>4. QueueInv'
    <2>1. ASSUME NEW u \in Elems(globalQueue') \cup UNION {Elems(localQueue'[v]) : v \in Workers}
          PROVE  Waiting(u)'
      <3>1. Waiting(u) /\ u # t
        BY DEF IInv, QueueInv, Takes
      <3>2. QED
        BY <1>1, <3>1 DEF Waiting, Takes
    <2>2. QED
      BY <2>1 DEF IInv, QueueInv, Takes
  <1>5. HeldInv'
    <2>1. t # NoTask /\ UNCHANGED <<taskState, handle, open>>
      BY PoolAssumption DEF Takes
    <2>2. \A v \in Workers \ {w} : wtask[v] # t
      BY <1>2 DEF Waiting
    <2>3. QED
      BY <1>1, <1>2, <2>1, <2>2 DEF IInv, HeldInv, HoldPC, Waiting
  <1>6. CountInv'
    <2>1. InQueues' = InQueues \ {t}
      BY DEF Takes, InQueues
    <2>2. InHands' = InHands \cup {t}
      <3>1. t # NoTask /\ reserved' = reserved
        BY PoolAssumption DEF Takes
      <3>2. {wtask'[v] : v \in Workers} \cup {NoTask} = {wtask[v] : v \in Workers} \cup {t, NoTask}
        BY <1>1
      <3>3. QED
        BY <3>1, <3>2 DEF InHands
    <2>3. QED
      BY <2>1, <2>2 DEF IInv, CountInv, Takes
  <1>7. QED
    BY <1>3, <1>4, <1>5, <1>6, WorkerKeepsCalls DEF IInv

\* Task::execute keeps the invariant when it claims a task ...
LEMMA BeginKeeps ==
    ASSUME IInv, NEW w \in Workers, BeginTask(w)
    PROVE  IInv'
  <1> USE DEF Goto, poolVars, clientVars
  <1>1. wtask[w] \in Tasks /\ wpc[w] = "execute"
    BY DEF IInv, TypeOK, HeldInv, HoldPC, BeginTask
  <1>2. /\ taskState'[wtask[w]] = "Running" /\ wpc'[w] = "body"
        /\ \A u \in Tasks \ {wtask[w]} : taskState'[u] = taskState[u]
        /\ \A v \in Workers \ {w} : wpc'[v] = wpc[v]
        /\ UNCHANGED <<wtask, handle, open, outstanding, reserved, globalQueue, localQueue>>
    BY <1>1 DEF IInv, TypeOK, BeginTask
  <1>3. TypeOK'
    BY <1>1 DEF IInv, TypeOK, BeginTask, WorkerPC
  <1>4. QueueInv'
    BY <1>1, <1>2 DEF IInv, TypeOK, QueueInv, Waiting
  <1>5. HeldInv'
    BY <1>1, <1>2 DEF IInv, TypeOK, HeldInv, HoldPC
  <1>6. CountInv'
    <2>1. (InQueues \cup InHands)' = InQueues \cup InHands
      BY <1>2 DEF InQueues, InHands
    <2>2. QED
      BY <1>1, <1>2, <2>1 DEF IInv, CountInv, HeldInv, HoldPC
  <1>7. QED
    BY <1>3, <1>4, <1>5, <1>6, WorkerKeepsCalls DEF IInv

\* ... when it publishes the result ...
LEMMA FinishKeeps ==
    ASSUME IInv, NEW w \in Workers, FinishTask(w)
    PROVE  IInv'
  <1> USE DEF Goto, poolVars, clientVars
  <1>1. wtask[w] \in Tasks /\ wpc[w] = "body"
    BY DEF IInv, TypeOK, HeldInv, HoldPC, FinishTask
  <1>2. /\ taskState'[wtask[w]] \in Terminal /\ wpc'[w] = "notify"
        /\ \A u \in Tasks \ {wtask[w]} : taskState'[u] = taskState[u]
        /\ \A v \in Workers \ {w} : wpc'[v] = wpc[v]
        /\ UNCHANGED <<wtask, handle, open, outstanding, reserved, globalQueue, localQueue>>
    BY <1>1 DEF IInv, TypeOK, FinishTask
  <1>3. TypeOK'
    BY <1>1 DEF IInv, TypeOK, FinishTask, WorkerPC
  <1>4. QueueInv'
    BY <1>1, <1>2 DEF IInv, TypeOK, QueueInv, Waiting
  <1>5. HeldInv'
    BY <1>1, <1>2 DEF IInv, TypeOK, HeldInv, HoldPC
  <1>6. CountInv'
    <2>1. (InQueues \cup InHands)' = InQueues \cup InHands
      BY <1>2 DEF InQueues, InHands
    <2>2. QED
      BY <1>1, <1>2, <2>1 DEF IInv, CountInv, HeldInv, HoldPC
  <1>7. QED
    BY <1>3, <1>4, <1>5, <1>6, WorkerKeepsCalls DEF IInv

\* ... and when it wakes the threads that wait for it.
LEMMA NotifyKeeps ==
    ASSUME IInv, NEW w \in Workers, NotifyTask(w)
    PROVE  IInv'
  <1> USE DEF Goto, poolVars, taskVars
  <1>1. TypeOK'
    BY DEF IInv, TypeOK, NotifyTask, WorkerPC
  <1>2. QueueInv'
    BY DEF IInv, NotifyTask, QueueInv, Waiting
  <1>3. HeldInv'
    BY DEF IInv, TypeOK, NotifyTask, HeldInv, HoldPC
  <1>4. CountInv'
    <2>1. (InQueues \cup InHands)' = InQueues \cup InHands
      BY DEF NotifyTask, InQueues, InHands
    <2>2. QED
      BY <2>1 DEF IInv, CountInv, NotifyTask
  <1>5. QED
    BY <1>1, <1>2, <1>3, <1>4, WorkerKeepsCalls DEF IInv

\* taskCompleted() keeps the invariant: it counts a task down that nobody else holds.
LEMMA CompletedKeeps ==
    ASSUME IInv, NEW w \in Workers, TaskCompleted(w)
    PROVE  IInv'
  <1> USE DEF Goto, taskVars, clientVars
  <1> DEFINE t == wtask[w]
  <1>1. /\ t \in Tasks /\ t \in open /\ wpc[w] = "count" /\ taskState[t] \in Terminal
        /\ \A v \in Workers \ {w} : wtask[v] # t
    BY DEF IInv, TypeOK, HeldInv, HoldPC, TaskCompleted
  <1>2. /\ wtask'[w] = NoTask /\ wpc'[w] = "local" /\ open' = open \ {t}
        /\ outstanding' = outstanding - 1
        /\ \A v \in Workers \ {w} : wpc'[v] = wpc[v] /\ wtask'[v] = wtask[v]
        /\ UNCHANGED <<taskState, handle, reserved, globalQueue, localQueue>>
    BY DEF IInv, TypeOK, TaskCompleted, Release
  <1>3. outstanding' = Cardinality(open') /\ outstanding' \in Nat
    <2>1. IsFiniteSet(open) /\ outstanding = Cardinality(open)
      BY CountedOut DEF IInv, CountInv
    <2>2. Cardinality(open') = outstanding - 1 /\ IsFiniteSet(open')
      BY <1>1, <1>2, <2>1, FS_RemoveElement
    <2>3. QED
      BY <1>2, <2>2, FS_CardinalityType
  <1>4. TypeOK'
    BY <1>3 DEF IInv, TypeOK, TaskCompleted, Release, WorkerPC
  <1>5. QueueInv'
    <2>1. ASSUME NEW u, Waiting(u) PROVE Waiting(u)'
      BY <1>1, <1>2, <2>1, PoolAssumption DEF IInv, TypeOK, Waiting
    <2>2. QED
      BY <1>2, <2>1 DEF IInv, QueueInv
  <1>6. HeldInv'
    BY <1>1, <1>2 DEF IInv, TypeOK, HeldInv, HoldPC
  <1>7. CountInv'
    <2>1. InQueues' = InQueues /\ InHands \subseteq InHands' \cup {t}
      BY <1>1, <1>2 DEF InQueues, InHands
    <2>2. QED
      BY <1>1, <1>2, <1>3, <2>1 DEF IInv, CountInv
  <1>8. QED
    BY <1>4, <1>5, <1>6, <1>7, WorkerKeepsCalls DEF IInv

\* Every step of Worker::run keeps the invariant.
LEMMA WorkerKeeps ==
    ASSUME IInv, NEW w \in Workers, WorkerStep(w)
    PROVE  IInv'
  BY PopLocalStep, PopGlobalStep, StealStep, CheckStopStep, LooksKeeps, TakesKeeps,
     BeginKeeps, FinishKeeps, NotifyKeeps, CompletedKeeps DEF WorkerStep
-----------------------------------------------------------------------------
(* ThreadPool::submit, and the whole.                                      *)

\* A submit() that is refused keeps the invariant.
LEMMA RefusedKeeps ==
    ASSUME IInv, NEW a \in Clients \cup Workers, NEW t \in Tasks, SubmitRefused(a, t)
    PROVE  IInv'
  <1> USE DEF poolVars, workerVars, clientVars
  <1>1. /\ handle[t] = "none" /\ handle'[t] = "invalid" /\ t # reserved
        /\ \A u \in Tasks \ {t} : handle'[u] = handle[u]
        /\ \A u \in Tasks : handle[u] = "valid" <=> handle'[u] = "valid"
        /\ UNCHANGED <<poolVars, workerVars, taskState, clientVars>>
    BY PoolAssumption DEF IInv, TypeOK, SubmitRefused, SubmitInv
  <1>2. TypeOK'
    BY DEF IInv, TypeOK, SubmitRefused
  <1>3. QueueInv'
    <2>1. ASSUME NEW u, Waiting(u) PROVE Waiting(u)'
      BY <1>1, <2>1 DEF IInv, TypeOK, Waiting
    <2>2. QED
      BY <1>1, <2>1 DEF IInv, QueueInv
  <1>4. HeldInv'
    BY <1>1 DEF IInv, TypeOK, HeldInv, HoldPC
  <1>5. SubmitInv'
    BY <1>1, PoolAssumption DEF IInv, TypeOK, SubmitInv
  <1>6. CountInv'
    <2>1. (InQueues \cup InHands)' = InQueues \cup InHands
      BY <1>1 DEF InQueues, InHands
    <2>2. QED
      BY <1>1, <2>1 DEF IInv, CountInv
  <1>7. ThreadInv' /\ LifecycleInv'
    BY <1>1 DEF IInv, ThreadInv, LifecycleInv
  <1>8. PromiseInv'
    BY <1>1 DEF IInv, TypeOK, PromiseInv
  <1>9. QED
    BY <1>2, <1>3, <1>4, <1>5, <1>6, <1>7, <1>8 DEF IInv

\* While the pool is Running no start() or stop() is under way in it, and every
\* worker is in its loop: what a submit() changes cannot disturb them.
LEMMA RunningFrame ==
    ASSUME IInv, state = "Running",
           mutex' \in Clients \cup Workers \cup {NoOne},
           UNCHANGED <<state, stopGeneration, running, stopRequested, wpc, taskState, clientVars>>,
           \A t \in Tasks : handle[t] = "valid" => handle'[t] = "valid"
    PROVE  ThreadInv' /\ LifecycleInv' /\ PromiseInv'
  <1> USE DEF IInv, clientVars
  <1>1. ThreadInv'
    BY DEF ThreadInv
  <1>2. LifecycleInv'
    BY DEF LifecycleInv
  <1>3. PromiseInv'
    BY DEF PromiseInv, TypeOK
  <1>4. QED
    BY <1>1, <1>2, <1>3

\* A submit() keeps the invariant when it counts its task ...
LEMMA ReserveKeeps ==
    ASSUME IInv, NEW a \in Clients \cup Workers, NEW t \in Tasks, SubmitReserve(a, t)
    PROVE  IInv'
  <1> USE DEF workerVars, taskVars, clientVars
  <1>1. /\ t \notin open /\ reserved = NoTask
        /\ \A w \in Workers : wtask[w] # t
    <2>1. handle[t] = "none" /\ mutex = NoOne
      BY DEF SubmitReserve
    <2>2. reserved = NoTask
      BY <2>1 DEF IInv, SubmitInv
    <2>3. t \notin InQueues
      BY <2>1 DEF IInv, QueueInv, Waiting, InQueues
    <2>4. \A w \in Workers : wtask[w] # t
      BY <2>1, PoolAssumption DEF IInv, HeldInv, HoldPC
    <2>5. QED
      BY <2>2, <2>3, <2>4, PoolAssumption DEF IInv, CountInv, InHands
  <1>2. /\ open' = open \cup {t} /\ outstanding' = outstanding + 1
        /\ mutex' = a /\ reserved' = t /\ handle[t] = "none" /\ state = "Running"
        /\ UNCHANGED <<state, stopGeneration, globalQueue, workerVars, taskVars, clientVars>>
    BY DEF SubmitReserve, Reserve
  <1>3. outstanding' = Cardinality(open') /\ outstanding' \in Nat
    <2>1. IsFiniteSet(open) /\ outstanding = Cardinality(open) /\ outstanding \in Nat
      BY CountedOut DEF IInv, CountInv, TypeOK
    <2>2. Cardinality(open') = outstanding + 1
      BY <1>1, <1>2, <2>1, FS_AddElement
    <2>3. QED
      BY <1>2, <2>1, <2>2
  <1>4. TypeOK'
    BY <1>2, <1>3 DEF IInv, TypeOK
  <1>5. QueueInv'
    <2>1. ASSUME NEW u, Waiting(u) PROVE Waiting(u)'
      BY <1>2, <2>1 DEF Waiting
    <2>2. QED
      BY <1>2, <2>1 DEF IInv, QueueInv
  <1>6. HeldInv'
    BY <1>2 DEF IInv, HeldInv
  <1>7. SubmitInv'
    BY <1>2, PoolAssumption DEF IInv, TypeOK, SubmitInv, SubmitReserve, CanSubmit
  <1>8. CountInv'
    <2>1. InQueues' = InQueues /\ InHands' = InHands \cup {t}
      BY <1>1, <1>2, PoolAssumption DEF InQueues, InHands
    <2>2. QED
      BY <1>2, <1>3, <2>1 DEF IInv, CountInv
  <1>9. ThreadInv' /\ LifecycleInv' /\ PromiseInv'
    BY <1>2, RunningFrame
  <1>10. QED
    BY <1>4, <1>5, <1>6, <1>7, <1>8, <1>9 DEF IInv

\* The reserved task is nowhere but in the hands of the thread in submit().
LEMMA ReservedAlone ==
    ASSUME IInv, reserved # NoTask
    PROVE  /\ reserved \in Tasks /\ reserved \in open /\ handle[reserved] = "none"
           /\ reserved \notin InQueues
           /\ \A w \in Workers : wtask[w] # reserved
           /\ taskState[reserved] = "Pending" /\ state = "Running"
  BY PoolAssumption DEF IInv, TypeOK, SubmitInv, QueueInv, Waiting, HeldInv, HoldPC, InQueues

\* ... when it publishes it ...
LEMMA PushKeeps ==
    ASSUME IInv, NEW a \in Clients \cup Workers, SubmitPush(a)
    PROVE  IInv'
  <1> USE DEF clientVars
  <1>0. PICK t \in Tasks : t = reserved
    BY ReservedAlone DEF SubmitPush
  <1>1. /\ t \in Tasks /\ t \in open /\ handle[t] = "none" /\ t \notin InQueues
        /\ \A w \in Workers : wtask[w] # t
        /\ taskState[t] = "Pending" /\ state = "Running"
    BY <1>0, ReservedAlone DEF SubmitPush
  <1>2. /\ handle'[t] = "valid" /\ \A u \in Tasks \ {t} : handle'[u] = handle[u]
        /\ mutex' = NoOne /\ reserved' = NoTask
        /\ UNCHANGED <<state, stopGeneration, outstanding, open, running, stopRequested,
                       wpc, victim, wtask, taskState, clientVars>>
    BY <1>0, <1>1 DEF IInv, TypeOK, SubmitPush
  <1>3. /\ globalQueue' \in Seq(Tasks) /\ localQueue' \in [Workers -> Seq(Tasks)]
        /\ Injective(globalQueue') /\ \A w \in Workers : Injective(localQueue'[w])
        /\ \/ /\ globalQueue' = globalQueue /\ a \in Workers
              /\ Elems(localQueue'[a]) = Elems(localQueue[a]) \cup {t}
              /\ \A w \in Workers \ {a} : localQueue'[w] = localQueue[w]
           \/ /\ localQueue' = localQueue
              /\ Elems(globalQueue') = Elems(globalQueue) \cup {t}
    <2>1. CASE a \in Workers
      <3>1. /\ localQueue' = [localQueue EXCEPT ![a] = Append(localQueue[a], t)]
            /\ globalQueue' = globalQueue
        BY <1>0, <2>1, PoolAssumption DEF SubmitPush, PushLocal
      <3>2. localQueue[a] \in Seq(Tasks) /\ Injective(localQueue[a]) /\ t \notin Elems(localQueue[a])
        BY <1>1, <2>1 DEF IInv, TypeOK, QueueInv, InQueues
      <3>3. /\ Append(localQueue[a], t) \in Seq(Tasks) /\ Injective(Append(localQueue[a], t))
            /\ Elems(Append(localQueue[a], t)) = Elems(localQueue[a]) \cup {t}
        BY <1>1, <3>2, AppendElems
      <3>4. /\ localQueue' \in [Workers -> Seq(Tasks)]
            /\ localQueue'[a] = Append(localQueue[a], t)
            /\ \A w \in Workers \ {a} : localQueue'[w] = localQueue[w]
        BY <2>1, <3>1, <3>3 DEF IInv, TypeOK
      <3>5. /\ globalQueue \in Seq(Tasks) /\ Injective(globalQueue)
            /\ \A w \in Workers : Injective(localQueue[w])
        BY DEF IInv, TypeOK, QueueInv
      <3>6. QED
        BY <2>1, <3>1, <3>3, <3>4, <3>5
    <2>2. CASE a \notin Workers
      <3>1. globalQueue' = Append(globalQueue, t) /\ localQueue' = localQueue
        BY <1>0, <2>2 DEF SubmitPush, PushGlobal
      <3>2. globalQueue \in Seq(Tasks) /\ Injective(globalQueue) /\ t \notin Elems(globalQueue)
        BY <1>1 DEF IInv, TypeOK, QueueInv, InQueues
      <3>3. /\ Append(globalQueue, t) \in Seq(Tasks) /\ Injective(Append(globalQueue, t))
            /\ Elems(Append(globalQueue, t)) = Elems(globalQueue) \cup {t}
        BY <1>1, <3>2, AppendElems
      <3>4. QED
        BY <3>1, <3>3 DEF IInv, TypeOK, QueueInv
    <2>3. QED
      BY <2>1, <2>2
  <1>4. TypeOK'
    BY <1>0, <1>1, <1>2, <1>3, PoolAssumption DEF IInv, TypeOK, SubmitPush
  <1>5. QueueInv'
    <2>1. Waiting(t)'
      BY <1>1, <1>2 DEF Waiting
    <2>2. ASSUME NEW u, Waiting(u) PROVE Waiting(u)'
      BY <1>1, <1>2, <2>2 DEF IInv, TypeOK, Waiting
    <2>3. /\ \A u \in Elems(globalQueue) : Waiting(u)
          /\ \A w \in Workers : \A u \in Elems(localQueue[w]) :
              Waiting(u) /\ u \notin Elems(globalQueue)
              /\ \A v \in Workers \ {w} : u \notin Elems(localQueue[v])
          /\ t \notin Elems(globalQueue) /\ \A w \in Workers : t \notin Elems(localQueue[w])
      BY <1>1 DEF IInv, QueueInv, InQueues
    <2>4. /\ \A u \in Elems(globalQueue') : u = t \/ Waiting(u)
          /\ \A w \in Workers : \A u \in Elems(localQueue'[w]) : u = t \/ Waiting(u)
      BY <1>3, <2>3
    <2>5. ASSUME NEW w \in Workers, NEW u \in Elems(localQueue'[w])
          PROVE  /\ u \notin Elems(globalQueue')
                 /\ \A v \in Workers \ {w} : u \notin Elems(localQueue'[v])
      <3>1. CASE localQueue' = localQueue
        BY <1>3, <2>3, <3>1
      <3>2. CASE localQueue' # localQueue
        <4>1. /\ globalQueue' = globalQueue /\ a \in Workers
              /\ Elems(localQueue'[a]) = Elems(localQueue[a]) \cup {t}
              /\ \A v \in Workers \ {a} : localQueue'[v] = localQueue[v]
          BY <1>3, <3>2
        <4>2. CASE u = t
          BY <2>3, <4>1, <4>2
        <4>3. CASE u # t
          BY <2>3, <4>1, <4>3
        <4>4. QED
          BY <4>2, <4>3
      <3>3. QED
        BY <3>1, <3>2
    <2>6. QED
      BY <1>3, <2>1, <2>2, <2>4, <2>5 DEF QueueInv
  <1>6. HeldInv'
    BY <1>1, <1>2 DEF IInv, TypeOK, HeldInv, HoldPC
  <1>7. SubmitInv'
    BY <1>1, <1>2 DEF IInv, TypeOK, SubmitInv
  <1>8. CountInv'
    <2>1. InQueues \cup {t} \subseteq InQueues'
      BY <1>3 DEF InQueues
    <2>2. InHands \subseteq InHands' \cup {t}
      BY <1>0, <1>2 DEF InHands
    <2>3. QED
      BY <1>1, <1>2, <2>1, <2>2 DEF IInv, CountInv
  <1>9. ThreadInv' /\ LifecycleInv' /\ PromiseInv'
    <2>1. \A u \in Tasks : handle[u] = "valid" => handle'[u] = "valid"
      BY <1>1, <1>2
    <2>2. QED
      BY <1>1, <1>2, <2>1, RunningFrame
  <1>10. QED
    BY <1>4, <1>5, <1>6, <1>7, <1>8, <1>9 DEF IInv

\* ... and when it undoes the count because it could not.
LEMMA RollbackKeeps ==
    ASSUME IInv, NEW a \in Clients \cup Workers, SubmitRollback(a)
    PROVE  IInv'
  <1> DEFINE t == reserved
  <1> USE DEF workerVars, clientVars
  <1>1. /\ t \in Tasks /\ t \in open /\ handle[t] = "none" /\ t \notin InQueues
        /\ \A w \in Workers : wtask[w] # t
        /\ taskState[t] = "Pending" /\ state = "Running"
    BY ReservedAlone DEF SubmitRollback
  <1>2. /\ handle'[t] = "invalid" /\ \A u \in Tasks \ {t} : handle'[u] = handle[u]
        /\ mutex' = NoOne /\ reserved' = NoTask
        /\ open' = open \ {t} /\ outstanding' = outstanding - 1
        /\ UNCHANGED <<state, stopGeneration, globalQueue, workerVars, taskState, clientVars>>
    BY <1>1 DEF IInv, TypeOK, SubmitRollback, RollBack, Release
  <1>3. outstanding' = Cardinality(open') /\ outstanding' \in Nat
    <2>1. IsFiniteSet(open) /\ outstanding = Cardinality(open)
      BY CountedOut DEF IInv, CountInv
    <2>2. Cardinality(open') = outstanding - 1 /\ IsFiniteSet(open')
      BY <1>1, <1>2, <2>1, FS_RemoveElement
    <2>3. QED
      BY <1>2, <2>2, FS_CardinalityType
  <1>4. TypeOK'
    BY <1>1, <1>2, <1>3, PoolAssumption DEF IInv, TypeOK, SubmitRollback
  <1>5. QueueInv'
    <2>1. ASSUME NEW u \in InQueues, Waiting(u) PROVE Waiting(u)'
      BY <1>1, <1>2, <2>1 DEF IInv, TypeOK, Waiting
    <2>2. QED
      BY <1>2, <2>1 DEF IInv, QueueInv, InQueues
  <1>6. HeldInv'
    BY <1>1, <1>2 DEF IInv, TypeOK, HeldInv, HoldPC
  <1>7. SubmitInv'
    BY <1>1, <1>2 DEF IInv, TypeOK, SubmitInv
  <1>8. CountInv'
    <2>1. InQueues' = InQueues
      BY <1>2 DEF InQueues
    <2>2. InHands \subseteq InHands' \cup {t}
      BY <1>2 DEF InHands
    <2>3. QED
      BY <1>1, <1>2, <1>3, <2>1, <2>2 DEF IInv, CountInv
  <1>9. ThreadInv' /\ LifecycleInv' /\ PromiseInv'
    <2>1. \A u \in Tasks : handle[u] = "valid" => handle'[u] = "valid"
      BY <1>1, <1>2
    <2>2. QED
      BY <1>1, <1>2, <2>1, RunningFrame
  <1>10. QED
    BY <1>4, <1>5, <1>6, <1>7, <1>8, <1>9 DEF IInv

\* A pool that has just been constructed satisfies the invariant.
LEMMA InitIInv == Init => IInv
  <1> SUFFICES ASSUME Init PROVE IInv
    OBVIOUS
  <1> USE PoolAssumption DEF Init
  <1>1. TypeOK
    BY DEF TypeOK, ClientPC, WorkerPC, Workers
  <1>2. Elems(globalQueue) = {} /\ \A w \in Workers : Elems(localQueue[w]) = {}
    BY DEF Elems
  <1>3. QueueInv
    BY <1>2 DEF QueueInv, Injective
  <1>4. HeldInv /\ SubmitInv
    BY DEF HeldInv, HoldPC, SubmitInv
  <1>5. CountInv
    BY FS_EmptySet DEF CountInv
  <1>6. ThreadInv /\ LifecycleInv /\ PromiseInv
    BY DEF ThreadInv, LifecycleInv, StartPC, StopPC, PromiseInv
  <1>7. QED
    BY <1>1, <1>3, <1>4, <1>5, <1>6 DEF IInv

\* Every step of start(), stop() and wait() keeps the invariant.
LEMMA CallKeeps ==
    ASSUME IInv, NEW c \in Clients, InCall(c) \/ Calls(c)
    PROVE  IInv'
  <1>1. TypeOK'
    BY CallTypes DEF IInv, LifecycleInv
  <1>2. QueueInv' /\ HeldInv' /\ CountInv'
    BY CallKeepsTasks
  <1>3. SubmitInv' /\ ThreadInv' /\ LifecycleInv' /\ PromiseInv'
    BY StartKeeps, StopKeeps, WaitKeeps DEF InCall, Calls
  <1>4. QED
    BY <1>1, <1>2, <1>3 DEF IInv

\* Every step of the pool keeps the invariant.
LEMMA NextIInv == IInv /\ [Next]_vars => IInv'
  <1> SUFFICES ASSUME IInv, [Next]_vars PROVE IInv'
    OBVIOUS
  <1>1. ASSUME NEW c \in Clients, InCall(c) \/ Calls(c) PROVE IInv'
    BY <1>1, CallKeeps
  <1>2. ASSUME NEW a \in Clients \cup Workers, Submits(a) PROVE IInv'
    BY <1>2, RefusedKeeps, ReserveKeeps, PushKeeps, RollbackKeeps DEF Submits, SubmitEnds
  <1>3. ASSUME NEW w \in Workers, WorkerStep(w) PROVE IInv'
    BY <1>3, WorkerKeeps
  <1>4. CASE UNCHANGED vars
    <2> USE <1>4 DEF vars, poolVars, workerVars, taskVars, clientVars, IInv
    <2>1. TypeOK'
      BY DEF TypeOK
    <2>2. QueueInv'
      BY DEF QueueInv, Waiting
    <2>3. HeldInv' /\ SubmitInv' /\ ThreadInv'
      BY DEF HeldInv, SubmitInv, ThreadInv
    <2>4. CountInv'
      <3>1. (InQueues \cup InHands)' = InQueues \cup InHands
        BY DEF InQueues, InHands
      <3>2. QED
        BY <3>1 DEF CountInv
    <2>5. LifecycleInv' /\ PromiseInv'
      BY DEF LifecycleInv, PromiseInv
    <2>6. QED
      BY <2>1, <2>2, <2>3, <2>4, <2>5
  <1>5. QED
    BY <1>1, <1>2, <1>3, <1>4 DEF Next

\* IInv holds in every reachable state of the pool, for any number of clients,
\* workers and tasks.
THEOREM PoolInvariant == Spec => []IInv
  BY InitIInv, NextIInv, PTL DEF Spec

\* Every variable of the pool keeps its type; the counter outstandingTasks_,
\* which the code keeps in an unsigned atomic, never goes below zero.
THEOREM TypeCorrect == Spec => []TypeOK
  <1>1. IInv => TypeOK
    BY DEF IInv
  <1>2. QED
    BY <1>1, PoolInvariant, PTL

\* What is open is exactly what is somewhere.
LEMMA OpenIsSomewhere ==
    ASSUME IInv
    PROVE  InQueues \cup InHands = open
  <1>1. InQueues \subseteq open
    BY DEF IInv, QueueInv, Waiting, InQueues
  <1>2. InHands \subseteq open
    BY DEF IInv, HeldInv, SubmitInv, InHands
  <1>3. QED
    BY <1>1, <1>2 DEF IInv, CountInv

\* drainComplete() may rely on outstandingTasks_: it is always the number of
\* tasks being submitted, queued or executing.
THEOREM CounterIsExact == Spec => []OutstandingIsExact
  <1>1. IInv => OutstandingIsExact
    BY OpenIsSomewhere DEF IInv, CountInv, OutstandingIsExact
  <1>2. QED
    BY <1>1, PoolInvariant, PTL

\* No interleaving of submit, pop and steal puts a task in two places.
THEOREM TasksAreNotShared == Spec => []OnePlace
  <1> SUFFICES ASSUME IInv PROVE OnePlace
    BY PoolInvariant, PTL
  <1>1. InQueues \cap InHands = {}
    BY DEF IInv, QueueInv, Waiting, SubmitInv, InQueues, InHands
  <1>2. \A w \in Workers : wtask[w] # NoTask => wtask[w] # reserved
    BY DEF IInv, HeldInv, HoldPC, SubmitInv
  <1>3. \A w \in Workers : \A v \in Workers \ {w} :
          /\ Elems(localQueue[w]) \cap Elems(localQueue[v]) = {}
          /\ wtask[w] # NoTask => wtask[w] # wtask[v]
    BY DEF IInv, QueueInv, HeldInv
  <1>4. QED
    BY <1>1, <1>2, <1>3 DEF IInv, QueueInv, Injective, OnePlace

\* No interleaving loses an accepted task.
THEOREM AcceptedTasksAreKept == Spec => []NoTaskLost
  <1>1. IInv => NoTaskLost
    BY DEF IInv, CountInv, NoTaskLost
  <1>2. QED
    BY <1>1, PoolInvariant, PTL

\* ADR-0023: a Stopped pool has run everything it accepted, and is empty.
THEOREM DrainedWhenStopped == Spec => []StoppedIsDrained
  <1> SUFFICES ASSUME IInv, state = "Stopped" PROVE StoppedIsDrained
    BY PoolInvariant, PTL DEF StoppedIsDrained
  <1>1. open = {}
    BY DEF IInv, LifecycleInv
  <1>2. \A t \in Accepted : taskState[t] \in Terminal
    BY <1>1 DEF IInv, CountInv, Accepted
  <1>3. mutex = NoOne => \A w \in Workers : ~running[w] /\ wpc[w] = "off"
    BY DEF IInv, LifecycleInv, ThreadInv
  <1>4. \A q : q \in Seq(Tasks) /\ Elems(q) = {} => q = <<>>
    <2>1. ASSUME NEW q \in Seq(Tasks), q # <<>> PROVE q[1] \in Elems(q)
      BY <2>1 DEF Elems
    <2>2. QED
      BY <2>1
  <1>5. globalQueue = <<>> /\ \A w \in Workers : localQueue[w] = <<>>
    <2>1. Elems(globalQueue) = {} /\ \A w \in Workers : Elems(localQueue[w]) = {}
      BY <1>1 DEF IInv, QueueInv, Waiting
    <2>2. globalQueue \in Seq(Tasks) /\ \A w \in Workers : localQueue[w] \in Seq(Tasks)
      BY DEF IInv, TypeOK
    <2>3. QED
      BY <1>4, <2>1, <2>2
  <1>6. QED
    BY <1>2, <1>3, <1>5 DEF StoppedIsDrained

\* Every stop() that returns has drained what it found accepted.
THEOREM StopReturnsDrained == Spec => StopDrains
  <1>1. IInv /\ IInv' /\ [Next]_vars =>
          [\A c \in Clients :
             cpc[c] \in {"stopWait", "stopNotify"} /\ cpc'[c] = "idle"
                 => \A t \in promised[c] : taskState[t] \in Terminal]_vars
    <2> SUFFICES ASSUME IInv, [Next]_vars, NEW c \in Clients,
                        cpc[c] \in {"stopWait", "stopNotify"}, cpc'[c] = "idle"
                 PROVE  \A t \in promised[c] : taskState[t] \in Terminal
      OBVIOUS
    <2>1. CASE cpc[c] = "stopNotify"
      BY <2>1 DEF IInv, PromiseInv
    <2>2. CASE cpc[c] = "stopWait"
      <3>1. ~UNCHANGED cpc
        BY <2>2
      <3>2. PICK d \in Clients : InCall(d) \/ Calls(d)
        <4>1. ASSUME NEW a \in Clients \cup Workers, Submits(a) PROVE UNCHANGED cpc
          BY <4>1 DEF Submits, SubmitEnds, SubmitRefused, SubmitReserve, SubmitPush,
                      SubmitRollback, clientVars
        <4>2. ASSUME NEW w \in Workers, WorkerStep(w) PROVE UNCHANGED cpc
          BY <4>2 DEF WorkerStep, PopLocal, PopGlobal, Steal, CheckStop, BeginTask, FinishTask,
                      NotifyTask, TaskCompleted, clientVars
        <4>3. QED
          BY <3>1, <4>1, <4>2 DEF Next, vars, clientVars
      <3>3. d = c
        BY <2>2, <3>2, CallFrame
      <3>4. StopWakes(c) /\ GenerationEnded(c)
        <4>1. StopWakes(c)
          BY <2>2, <3>2, <3>3, CallFrame
             DEF InCall, Calls, StartWorker, StartEnds, AbortRequest, AbortJoin, AbortEnds, StopRequest,
                 StopJoin, StopEnds, StopNotify, WaitChecks, StartBlocks, StartReturns, StartBegins,
                 Enters, StopBegins, StopOverlaps, WaitBegins, SpawnFails, SpuriousWakeup
        <4>2. QED
          BY <2>2, <4>1 DEF StopWakes
      <3>5. QED
        BY <2>2, <3>4 DEF IInv, PromiseInv, GenerationEnded
    <2>3. QED
      BY <2>1, <2>2
  <1>2. QED
    BY <1>1, PoolInvariant, PTL DEF Spec, StopDrains
-----------------------------------------------------------------------------
(* The pool implements the scheduler's contract.                           *)

\* What a client does inside a call is a lifecycle step of the service.
LEMMA CallRefines ==
    ASSUME IInv, NEW c \in Clients, InCall(c) \/ Calls(c)
    PROVE  [Service!Next]_Service!vars
  <1>1. handle' = handle /\ taskState' = taskState
    BY CallFrame
  <1>2. CASE state' = state
    BY <1>1, <1>2 DEF Service!vars
  <1>3. CASE StartEnds(c)
    BY <1>1, <1>3 DEF StartEnds, IInv, LifecycleInv, StartPC, Service!Next, Service!Start
  <1>4. CASE StopBegins(c)
    BY <1>1, <1>4 DEF StopBegins, Service!Next, Service!StopBegin
  <1>5. CASE StopEnds(c)
    <2>1. wpc[1] = "off"
      BY <1>5, PoolAssumption DEF StopEnds, IInv, TypeOK, LifecycleInv, Workers
    <2>2. open = {}
      BY <2>1, PoolAssumption DEF IInv, ThreadInv, Workers
    <2>3. Service!Unfinished = {}
      BY <2>2 DEF IInv, CountInv, Service!Unfinished, Service!Terminal, Terminal
    <2>4. state = "Stopping"
      BY <1>5 DEF StopEnds, IInv, LifecycleInv, StopPC
    <2>5. QED
      BY <1>1, <1>5, <2>3, <2>4 DEF StopEnds, Service!Next, Service!StopEnd
  <1>6. CASE AbortEnds(c)
    BY <1>2, <1>6 DEF AbortEnds, IInv, LifecycleInv, StartPC
  <1>7. CASE ~(StartEnds(c) \/ StopBegins(c) \/ StopEnds(c) \/ AbortEnds(c))
    <2>1. state' = state
      BY <1>7 DEF InCall, Calls, StartBlocks, StartReturns, StartBegins, StartWorker, SpawnFails,
                  AbortRequest, AbortJoin, StopOverlaps, StopWakes, StopRequest, StopJoin, StopNotify,
                  WaitBegins, WaitChecks, SpuriousWakeup, poolVars
    <2>2. QED
      BY <1>2, <2>1
  <1>8. QED
    BY <1>3, <1>4, <1>5, <1>6, <1>7

\* submit() accepts or rejects one task, or is not visible yet.
LEMMA SubmitRefines ==
    ASSUME IInv, NEW a \in Clients \cup Workers, Submits(a)
    PROVE  [Service!Next]_Service!vars
  <1>1. ASSUME NEW t \in Tasks, SubmitRefused(a, t) PROVE Service!Reject(t)
    BY <1>1 DEF SubmitRefused, poolVars, Service!Reject
  <1>2. ASSUME NEW t \in Tasks, SubmitReserve(a, t) PROVE UNCHANGED Service!vars
    BY <1>2 DEF SubmitReserve, taskVars, Service!vars
  <1>3. ASSUME SubmitPush(a) PROVE \E t \in Tasks : Service!Accept(t)
    BY <1>3, ReservedAlone DEF SubmitPush, Service!Accept
  <1>4. ASSUME SubmitRollback(a) PROVE \E t \in Tasks : Service!Reject(t)
    BY <1>4, ReservedAlone DEF SubmitRollback, Service!Reject
  <1>5. QED
    BY <1>1, <1>2, <1>3, <1>4 DEF Submits, SubmitEnds, Service!Next

\* A worker runs or finishes a task of a pool that is not Stopped.
LEMMA WorkerRefines ==
    ASSUME IInv, NEW w \in Workers, WorkerStep(w)
    PROVE  [Service!Next]_Service!vars
  <1>1. wpc[w] \in HoldPC => wtask[w] \in Tasks /\ handle[wtask[w]] = "valid" /\ state # "Stopped"
    BY DEF IInv, TypeOK, HeldInv, LifecycleInv
  <1>2. ASSUME BeginTask(w) PROVE \E t \in Tasks : Service!Run(t)
    BY <1>1, <1>2 DEF BeginTask, HoldPC, poolVars, Service!Run
  <1>3. ASSUME FinishTask(w) PROVE \E t \in Tasks : Service!Finish(t)
    <2>1. wtask[w] \in Tasks /\ state # "Stopped" /\ taskState[wtask[w]] = "Running"
      BY <1>1, <1>3 DEF FinishTask, HoldPC, IInv, HeldInv
    <2>2. QED
      BY <1>3, <2>1 DEF FinishTask, poolVars, Service!Finish, Service!Terminal, Terminal
  <1>4. ASSUME ~BeginTask(w), ~FinishTask(w) PROVE UNCHANGED Service!vars
    BY <1>4 DEF WorkerStep, PopLocal, PopGlobal, Steal, CheckStop, NotifyTask, TaskCompleted,
                poolVars, taskVars, Service!vars
  <1>5. QED
    BY <1>2, <1>3, <1>4 DEF Service!Next

\* Every step of the thread pool is a step of TaskService or leaves what the
\* caller sees unchanged: a task is accepted only by a Running pool, runs at
\* most once, and the pool becomes Stopped only when all it accepted has ended.
THEOREM PoolImplementsService == Spec => ServiceSafety
  <1>1. Init => Service!Init
    BY DEF Init, Service!Init
  <1>2. IInv /\ [Next]_vars => [Service!Next]_Service!vars
    <2> SUFFICES ASSUME IInv, [Next]_vars PROVE [Service!Next]_Service!vars
      OBVIOUS
    <2>1. CASE UNCHANGED vars
      BY <2>1 DEF vars, poolVars, taskVars, Service!vars
    <2>2. QED
      BY <2>1, CallRefines, SubmitRefines, WorkerRefines DEF Next
  <1>3. QED
    BY <1>1, <1>2, PoolInvariant, PTL DEF Spec, ServiceSafety, Service!Safety
=============================================================================
