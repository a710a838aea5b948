----------------------------- MODULE AsyncProofs -----------------------------
(***************************************************************************)
(* Proofs about AsyncWriter and AsyncReader for any number of clients, I/O *)
(* threads and requests and any capacity.                                  *)
(*                                                                         *)
(* That shutdown() leaves everything settled is not inductive: a thread    *)
(* ends when it finds the queue empty, and that says something of the      *)
(* requests only because each accepted one is in the queue or with exactly *)
(* one thread, whose place tells how far the request has got.  The         *)
(* counters lag behind the states by the threads that are yet to count.    *)
(***************************************************************************)
EXTENDS AsyncReader, FiniteSetTheorems, TLAPS

IOTypes ==
    /\ queue \in Seq(Requests) /\ Len(queue) <= Capacity
    /\ stopping \in BOOLEAN
    /\ state \in [Requests -> States]
    /\ worker \in [Workers -> WorkerPC]
    /\ job \in [Workers -> Requests \cup {NoRequest}]
    /\ client \in [Clients -> ClientPC]
    /\ handle \in [Clients -> Requests \cup {NoRequest}]
    /\ finished \subseteq Requests

\* A queued request is in the queue once, and no thread has it.
QueueInv ==
    /\ \A i, j \in DOMAIN queue : queue[i] = queue[j] => i = j
    /\ \A i \in DOMAIN queue : state[queue[i]] = "queued" /\ \A w \in Workers : job[w] # queue[i]

\* What a thread's place says of its request, which no other thread has.
ThreadInv ==
    \A w \in Workers :
        /\ worker[w] \in {"loop", "asleep", "gone"} <=> job[w] = NoRequest
        /\ worker[w] \in {"took", "ready"} => state[job[w]] = "queued"
        /\ worker[w] = "storing" => state[job[w]] = "writing"
        /\ worker[w] \in {"count", "leave", "report"} => state[job[w]] \in {"stored", "failed"}
        /\ worker[w] = "gone" => stopping /\ queue = <<>>
        /\ \A v \in Workers : job[v] = job[w] => v = w \/ job[w] = NoRequest

\* No request that is under way is nowhere.
PlaceInv ==
    \A r \in Requests :
        /\ state[r] = "queued" => r \in In(queue) \/ \E w \in Workers : job[w] = r
        /\ state[r] = "writing" => \E w \in Workers : job[w] = r

Busy == {w \in Workers : worker[w] \in {"storing", "count", "leave"}}

\* Requests with a result that their thread has counted.
Counted(result) ==
    {r \in Requests : state[r] = result /\ \A w \in Workers : worker[w] = "count" => job[w] # r}

CountInv ==
    /\ active = Cardinality(Busy)
    /\ completed = Cardinality(Counted("stored"))
    /\ failed = Cardinality(Counted("failed"))

\* Who waits has a handle, and shutdown() returns after its threads.
ClientInv ==
    \A c \in Clients :
        /\ client[c] \in {"wait", "waitAsleep"} => handle[c] \in Requests
        /\ client[c] \in {"stop", "join", "stopped"} => stopping
        /\ client[c] = "stopped" => \A w \in Workers : worker[w] = "gone"

IOInv == IOTypes /\ QueueInv /\ ThreadInv /\ PlaceInv /\ CountInv /\ ClientInv
-----------------------------------------------------------------------------
LEMMA SubsetsAreCounted ==
    ASSUME NEW S, IsFiniteSet(S), NEW T \in SUBSET S
    PROVE  IsFiniteSet(T) /\ Cardinality(T) \in 0 .. Cardinality(S)
  BY FS_Subset, FS_CardinalityType

LEMMA CountsAreFinite ==
    /\ IsFiniteSet(Busy) /\ Cardinality(Busy) \in 0 .. Cardinality(Workers)
    /\ \A s : /\ IsFiniteSet(Counted(s))
              /\ Cardinality(Counted(s)) \in 0 .. Cardinality(Requests)
  <1>1. Busy \in SUBSET Workers /\ \A s : Counted(s) \in SUBSET Requests
    BY DEF Busy, Counted
  <1> QED  BY <1>1, SubsetsAreCounted, AsyncAssumption

\* The invariant gives what the runs check.
LEMMA InvariantIsEnough == IOInv => WriterIsSound
  <1> SUFFICES ASSUME IOInv PROVE WriterIsSound
    OBVIOUS
  <1> USE DEF IOInv
  <1>1. TypeOK
    BY CountsAreFinite DEF TypeOK, IOTypes, CountInv
  <1>2. RequestsAreNotShared
    <2> SUFFICES ASSUME NEW r \in Requests
                 PROVE  /\ state[r] = "queued" => (r \in In(queue)) # (Held(r) # {})
                        /\ state[r] = "writing" => Cardinality(Held(r)) = 1 /\ r \notin In(queue)
                        /\ state[r] = "cancelled" => Held(r) = {} /\ r \notin In(queue)
                        /\ Cardinality(Held(r)) <= 1
      BY DEF RequestsAreNotShared
    <2>1. r # NoRequest
      BY AsyncAssumption
    <2>2. r \in In(queue) => state[r] = "queued" /\ Held(r) = {}
      BY DEF QueueInv, In, Held
    <2>3. CASE Held(r) = {}
      <3>1. Cardinality(Held(r)) = 0
        BY <2>3, FS_EmptySet
      <3> QED  BY <2>2, <2>3, <3>1 DEF PlaceInv, Held
    <2>4. CASE Held(r) # {}
      <3>1. PICK w \in Workers : job[w] = r
        BY <2>4 DEF Held
      <3>2. Held(r) = {w}
        BY <3>1, <2>1 DEF Held, ThreadInv
      <3>3. Cardinality(Held(r)) = 1
        BY <3>2, FS_Singleton
      <3>4. state[r] \in {"queued", "writing", "stored", "failed"}
        BY <3>1, <2>1 DEF ThreadInv, IOTypes, WorkerPC
      <3> QED  BY <2>2, <2>4, <3>3, <3>4
    <2> QED  BY <2>3, <2>4
  <1>3. ShutdownSettles
    <2> SUFFICES ASSUME NEW c \in Clients, client[c] = "stopped"
                 PROVE  /\ \A r \in Requests : state[r] \in Terminal \cup {"new"}
                        /\ active = 0
                        /\ completed = Cardinality({r \in Requests : state[r] = "stored"})
                        /\ failed = Cardinality({r \in Requests : state[r] = "failed"})
      BY DEF ShutdownSettles
    <2>1. \A w \in Workers : worker[w] = "gone" /\ job[w] = NoRequest
      BY DEF ClientInv, ThreadInv
    <2>2. queue = <<>>
      BY <2>1, AsyncAssumption DEF ThreadInv
    <2>3. \A r \in Requests : state[r] \in Terminal \cup {"new"}
      BY <2>1, <2>2, AsyncAssumption DEF PlaceInv, In, IOTypes, States, Terminal
    <2>4. Busy = {}
      BY <2>1 DEF Busy
    <2>5. \A s : Counted(s) = {r \in Requests : state[r] = s}
      BY <2>1 DEF Counted
    <2> QED  BY <2>3, <2>4, <2>5, FS_EmptySet DEF CountInv
  <1> QED  BY <1>1, <1>2, <1>3 DEF WriterIsSound
-----------------------------------------------------------------------------
LEMMA InitEstablishesInv == Init => IOInv
  <1> SUFFICES ASSUME Init PROVE IOInv
    OBVIOUS
  <1> USE DEF Init, InitWith
  <1>1. IOTypes
    <2>1. queue \in Seq(Requests) /\ Len(queue) <= Capacity
      BY AsyncAssumption
    <2>2. worker \in [Workers -> WorkerPC]
      BY DEF WorkerPC
    <2>3. state \in [Requests -> States] /\ client \in [Clients -> ClientPC]
      BY DEF States, ClientPC
    <2>4. /\ job \in [Workers -> Requests \cup {NoRequest}]
          /\ handle \in [Clients -> Requests \cup {NoRequest}]
          /\ finished \subseteq Requests /\ stopping \in BOOLEAN
      OBVIOUS
    <2> QED  BY <2>1, <2>2, <2>3, <2>4 DEF IOTypes
  <1>2. QueueInv /\ ThreadInv /\ PlaceInv /\ ClientInv
    BY AsyncAssumption DEF QueueInv, ThreadInv, PlaceInv, ClientInv, In
  <1>3. Busy = {} /\ Counted("stored") = {} /\ Counted("failed") = {}
    BY DEF Busy, Counted
  <1> QED  BY <1>1, <1>2, <1>3, FS_EmptySet DEF IOInv, CountInv

\* Threads that sleep on queueChanged_ may have been woken, and nothing else
\* has happened to the threads.
Woken ==
    /\ worker' \in [Workers -> WorkerPC]
    /\ \A w \in Workers : worker'[w] = worker[w] \/ (worker[w] = "asleep" /\ worker'[w] = "loop")

LEMMA AwakeWorkersWoken == IOTypes /\ worker' \in {worker, AwakeWorkers} => Woken
  BY DEF IOTypes, Woken, AwakeWorkers, WorkerPC

LEMMA WakesOneWoken ==
    ASSUME IOTypes, NEW here \in [Clients -> ClientPC], WakesOne(here)
    PROVE  /\ Woken
           /\ client' \in [Clients -> ClientPC]
           /\ \A d \in Clients : client'[d] = here[d] \/ client'[d] = "room"
  BY DEF WakesOne, IOTypes, Woken, WorkerPC, ClientPC

\* Steps of clients that change nothing of the requests.
LEMMA ClientsMoveKeepsInv ==
    ASSUME IOInv, UNCHANGED <<lifecycle, counters, job>>, Woken, ClientInv',
           client' \in [Clients -> ClientPC],
           handle' \in [Clients -> Requests \cup {NoRequest}],
           finished' \subseteq Requests
    PROVE  IOInv'
  <1> USE DEF IOInv, lifecycle, counters, Woken
  <1>1. IOTypes'
    BY DEF IOTypes
  <1>2. QueueInv' /\ PlaceInv'
    BY DEF QueueInv, PlaceInv, In
  <1>3. ThreadInv'
    BY DEF ThreadInv
  <1>4. Busy' = Busy /\ \A s : Counted(s)' = Counted(s)
    BY DEF Busy, Counted
  <1> QED  BY <1>1, <1>2, <1>3, <1>4 DEF CountInv

LEMMA SubmittingKeepsInv ==
    ASSUME IOInv, NEW r \in Requests, state[r] = "new", ~stopping, HasRoom,
           queue' = Append(queue, r), state' = [state EXCEPT ![r] = "queued"],
           UNCHANGED <<stopping, counters, job, handle, finished>>,
           Woken, client' \in [Clients -> ClientPC],
           \A d \in Clients : client'[d] = client[d] \/ client'[d] \in {"notify", "room"}
    PROVE  IOInv'
  <1> USE DEF IOInv, counters
  <1>1. r # NoRequest /\ \A w \in Workers : job[w] # r
    BY AsyncAssumption DEF ThreadInv, IOTypes, WorkerPC
  <1>2. /\ queue \in Seq(Requests) /\ Len(queue) \in Nat /\ Len(queue') = Len(queue) + 1
        /\ DOMAIN queue' = 1 .. Len(queue) + 1 /\ DOMAIN queue = 1 .. Len(queue)
        /\ \A i \in DOMAIN queue : queue'[i] = queue[i] /\ queue[i] # r
        /\ queue'[Len(queue) + 1] = r
    BY DEF IOTypes, QueueInv
  <1>3. IOTypes'
    BY <1>2, AsyncAssumption DEF IOTypes, HasRoom, States, Woken
  <1>4. QueueInv'
    <2>1. \A i, j \in DOMAIN queue' : queue'[i] = queue'[j] => i = j
      BY <1>2 DEF QueueInv
    <2>2. \A i \in DOMAIN queue' :
            state'[queue'[i]] = "queued" /\ \A w \in Workers : job'[w] # queue'[i]
      BY <1>1, <1>2 DEF QueueInv, IOTypes
    <2> QED  BY <2>1, <2>2 DEF QueueInv
  <1>5. ThreadInv'
    <2>1. \A w \in Workers : worker[w] # "gone" /\ (job[w] # NoRequest => state'[job[w]] = state[job[w]])
      BY <1>1 DEF ThreadInv, IOTypes
    <2>2. \A w \in Workers : worker'[w] # "gone"
      BY <2>1 DEF Woken
    <2> QED  BY <2>1, <2>2 DEF ThreadInv, Woken
  <1>6. PlaceInv'
    <2>1. In(queue)' = In(queue) \cup {r}
      BY <1>2 DEF In
    <2> QED  BY <2>1 DEF PlaceInv, IOTypes
  <1>7. Busy' = Busy /\ Counted("stored")' = Counted("stored") /\ Counted("failed")' = Counted("failed")
    BY DEF Busy, Counted, Woken, IOTypes
  <1>8. ClientInv'
    BY DEF ClientInv, IOTypes, Woken
  <1> QED  BY <1>3, <1>4, <1>5, <1>6, <1>7, <1>8 DEF CountInv

\* Clients in calls that leave the queue alone.
LEMMA WaitingKeepsInv ==
    ASSUME IOInv, NEW c \in Clients,
           \/ NotifyOne(c) \/ WaitForCapacity(c) \/ TestRoom(c)
           \/ TestOutcome(c) \/ TestLoaded(c)
           \/ \E r \in Requests : Wait(c, r)
    PROVE  IOInv'
  <1> USE DEF IOInv
  <1>1. CASE NotifyOne(c)
    <2> DEFINE here == [client EXCEPT ![c] = "idle"]
    <2>1. here \in [Clients -> ClientPC] /\ WakesOne(here)
      BY <1>1 DEF NotifyOne, IOTypes, ClientPC
    <2> HIDE DEF here
    <2>2. /\ Woken /\ client' \in [Clients -> ClientPC]
          /\ \A d \in Clients : client'[d] = here[d] \/ client'[d] = "room"
      BY <2>1, WakesOneWoken
    <2>3. UNCHANGED <<lifecycle, counters, job, handle, finished>>
      BY <1>1 DEF NotifyOne
    <2>4. ClientInv'
      BY <2>2, <2>3 DEF ClientInv, IOTypes, Woken, lifecycle, here
    <2> QED  BY <2>2, <2>3, <2>4, ClientsMoveKeepsInv DEF IOTypes
  <1>2. CASE WaitForCapacity(c) \/ TestRoom(c)
    <2>1. Woken
      BY <1>2, AwakeWorkersWoken DEF WaitForCapacity, TestRoom
    <2>2. /\ UNCHANGED <<lifecycle, counters, worker, job, handle, finished>>
          /\ client' \in [Clients -> ClientPC] /\ ClientInv'
      BY <1>2 DEF WaitForCapacity, TestRoom, IOTypes, ClientPC, ClientInv, lifecycle
    <2> QED  BY <2>1, <2>2, ClientsMoveKeepsInv DEF IOTypes
  <1>3. ASSUME NEW r \in Requests, Wait(c, r) PROVE IOInv'
    <2>1. Woken
      BY <1>3, AwakeWorkersWoken DEF Wait
    <2>2. /\ UNCHANGED <<lifecycle, counters, worker, job, finished>>
          /\ client' \in [Clients -> ClientPC]
          /\ handle' \in [Clients -> Requests \cup {NoRequest}] /\ ClientInv'
      BY <1>3 DEF Wait, IOTypes, ClientPC, ClientInv, lifecycle
    <2> QED  BY <2>1, <2>2, ClientsMoveKeepsInv DEF IOTypes
  <1>4. CASE TestOutcome(c) \/ TestLoaded(c)
    <2>1. Woken
      BY <1>4, AwakeWorkersWoken DEF TestOutcome, TestLoaded
    <2>2. handle[c] \in Requests
      BY <1>4 DEF TestOutcome, TestLoaded, ClientInv
    <2>3. /\ UNCHANGED <<lifecycle, counters, worker, job>>
          /\ client' \in [Clients -> ClientPC]
          /\ handle' \in [Clients -> Requests \cup {NoRequest}]
          /\ finished' \subseteq Requests
      BY <1>4, <2>2 DEF TestOutcome, TestLoaded, IOTypes, ClientPC
    <2>4. ClientInv'
      BY <1>4 DEF TestOutcome, TestLoaded, IOTypes, ClientInv, lifecycle
    <2> QED  BY <2>1, <2>3, <2>4, ClientsMoveKeepsInv DEF IOTypes
  <1> QED  BY <1>1, <1>2, <1>3, <1>4

LEMMA SubmitsKeepInv ==
    ASSUME IOInv, NEW c \in Clients, NEW r \in Requests, Submit(c, r) \/ LoadAsync(c, r)
    PROVE  IOInv'
  <1>1. IOTypes
    BY DEF IOInv
  <1>2. CASE Submit(c, r)
    <2>1. Woken
      BY <1>1, <1>2, AwakeWorkersWoken DEF Submit
    <2>2. /\ client' \in [Clients -> ClientPC]
          /\ \A d \in Clients : client'[d] = client[d] \/ client'[d] \in {"notify", "room"}
      BY <1>1, <1>2 DEF Submit, IOTypes, ClientPC
    <2> QED  BY <1>2, <2>1, <2>2, SubmittingKeepsInv DEF Submit
  <1>3. CASE LoadAsync(c, r)
    <2>1. client \in [Clients -> ClientPC] /\ WakesOne(client)
      BY <1>1, <1>3 DEF LoadAsync, IOTypes
    <2>2. /\ Woken /\ client' \in [Clients -> ClientPC]
          /\ \A d \in Clients : client'[d] = client[d] \/ client'[d] = "room"
      BY <1>1, <2>1, WakesOneWoken
    <2> QED  BY <1>3, <2>2, SubmittingKeepsInv DEF LoadAsync
  <1> QED  BY <1>2, <1>3

\* Waking the clients that wait for some requests.
LEMMA WaitersAwake ==
    ASSUME IOTypes, NEW R, NEW here, here = AwakeWaiters(R)
    PROVE  /\ here \in [Clients -> ClientPC]
           /\ \A d \in Clients : \/ here[d] = client[d]
                                 \/ client[d] = "waitAsleep" /\ here[d] = "wait"
  BY DEF IOTypes, AwakeWaiters, ClientPC

\* What erase() leaves of a queue without doubles.
LEMMA WithoutOne ==
    ASSUME NEW s \in Seq(Requests), NEW r \in In(s),
           \A i, j \in DOMAIN s : s[i] = s[j] => i = j
    PROVE  /\ Without(s, r) \in Seq(Requests) /\ Len(Without(s, r)) = Len(s) - 1
           /\ In(Without(s, r)) = In(s) \ {r}
           /\ \A i, j \in DOMAIN Without(s, r) : Without(s, r)[i] = Without(s, r)[j] => i = j
  <1> DEFINE at == CHOOSE i \in DOMAIN s : s[i] = r
             t == [i \in 1 .. Len(s) - 1 |-> s[IF i < at THEN i ELSE i + 1]]
  <1>1. at \in 1 .. Len(s) /\ s[at] = r /\ Len(s) \in Nat /\ DOMAIN s = 1 .. Len(s)
    BY DEF In
  <1>2. Without(s, r) = t
    BY DEF Without
  <1> HIDE DEF at
  <1>3. Len(s) - 1 \in Nat
    BY <1>1
  <1>4. \A i \in 1 .. Len(s) - 1 : (IF i < at THEN i ELSE i + 1) \in DOMAIN s
    BY <1>1
  <1>5. t \in Seq(Requests) /\ Len(t) = Len(s) - 1 /\ DOMAIN t = 1 .. Len(s) - 1
    BY <1>3, <1>4
  <1>6. In(t) \subseteq In(s) \ {r}
    <2> SUFFICES ASSUME NEW i \in 1 .. Len(s) - 1 PROVE t[i] \in In(s) /\ t[i] # r
      BY <1>5 DEF In
    <2>1. (IF i < at THEN i ELSE i + 1) # at
      BY <1>1
    <2> QED  BY <1>1, <1>4, <2>1 DEF In
  <1>7. In(s) \ {r} \subseteq In(t)
    <2> SUFFICES ASSUME NEW x \in In(s), x # r PROVE x \in In(t)
      OBVIOUS
    <2> PICK k \in DOMAIN s : s[k] = x
      BY DEF In
    <2> SUFFICES \E i \in 1 .. Len(s) - 1 : t[i] = s[k]
      BY <1>5 DEF In
    <2>1. CASE k < at
      BY <1>1, <2>1
    <2>2. CASE k > at
      <3>1. k - 1 \in 1 .. Len(s) - 1 /\ ~(k - 1 < at) /\ k - 1 + 1 = k
        BY <1>1, <2>2
      <3> QED  BY <3>1
    <2> QED  BY <1>1, <2>1, <2>2
  <1>8. \A i, j \in 1 .. Len(s) - 1 : t[i] = t[j] => i = j
    <2> SUFFICES ASSUME NEW i \in 1 .. Len(s) - 1, NEW j \in 1 .. Len(s) - 1, t[i] = t[j]
                 PROVE  i = j
      OBVIOUS
    <2>1. (IF i < at THEN i ELSE i + 1) = (IF j < at THEN j ELSE j + 1)
      BY <1>4
    <2> QED  BY <1>1, <2>1
  <1> QED  BY <1>2, <1>5, <1>6, <1>7, <1>8

\* Requests that are cancelled were in the queue, and leave it.
LEMMA CancellingKeepsInv ==
    ASSUME IOInv, NEW R \in SUBSET In(queue),
           queue' \in Seq(Requests), Len(queue') <= Len(queue), In(queue)' = In(queue) \ R,
           \A i, j \in DOMAIN queue' : queue'[i] = queue'[j] => i = j,
           state' = [r \in Requests |-> IF r \in R THEN "cancelled" ELSE state[r]],
           stopping' \in {TRUE, stopping},
           UNCHANGED <<counters, worker, job, handle, finished>>,
           client' \in [Clients -> ClientPC],
           \A d \in Clients : \/ client'[d] = client[d]
                              \/ client[d] = "waitAsleep" /\ client'[d] = "wait"
                              \/ client'[d] = "stop" /\ stopping'
    PROVE  IOInv'
  <1> USE DEF IOInv, counters
  <1>1. /\ Len(queue) \in Nat /\ Len(queue') \in Nat
        /\ \A r \in In(queue) : r \in Requests /\ state[r] = "queued" /\ \A w \in Workers : job[w] # r
    BY DEF IOTypes, QueueInv, In
  <1>2. IOTypes'
    <2>1. Len(queue') <= Capacity
      BY <1>1, AsyncAssumption DEF IOTypes
    <2>2. state' \in [Requests -> States]
      BY DEF IOTypes, States
    <2> QED  BY <2>1, <2>2 DEF IOTypes
  <1>3. QueueInv'
    <2>1. \A i \in DOMAIN queue' : queue'[i] \in In(queue) /\ queue'[i] \notin R
      BY DEF In
    <2> QED  BY <1>1, <2>1 DEF QueueInv
  <1>4. ThreadInv'
    <2>1. \A w \in Workers : job[w] # NoRequest => state'[job[w]] = state[job[w]]
      BY <1>1 DEF IOTypes
    <2>2. queue = <<>> => queue' = <<>>
      BY <1>1
    <2>3. \A w \in Workers : worker[w] = "gone" => stopping' /\ queue' = <<>>
      <3>1. stopping => stopping'
        BY DEF IOTypes
      <3> QED  BY <2>2, <3>1 DEF ThreadInv
    <2>4. UNCHANGED <<worker, job>>
      OBVIOUS
    <2> QED  BY <2>1, <2>3, <2>4 DEF ThreadInv
  <1>5. PlaceInv'
    BY DEF PlaceInv, IOTypes
  <1>6. Busy' = Busy /\ Counted("stored")' = Counted("stored") /\ Counted("failed")' = Counted("failed")
    BY <1>1 DEF Busy, Counted, IOTypes
  <1>7. ClientInv'
    BY DEF ClientInv, IOTypes
  <1> QED  BY <1>2, <1>3, <1>4, <1>5, <1>6, <1>7 DEF CountInv

LEMMA CancelKeepsInv ==
    ASSUME IOInv, NEW c \in Clients, NEW r \in Requests, Cancel(c, r)
    PROVE  IOInv'
  <1>1. IOTypes /\ QueueInv /\ {r} \in SUBSET In(queue)
    BY DEF IOInv, Cancel, Cancellable
  <1>2. /\ queue' \in Seq(Requests) /\ Len(queue') = Len(queue) - 1
        /\ In(queue)' = In(queue) \ {r}
        /\ \A i, j \in DOMAIN queue' : queue'[i] = queue'[j] => i = j
    BY <1>1, WithoutOne DEF Cancel, IOTypes, QueueInv
  <1>3. Len(queue') <= Len(queue)
    BY <1>1, <1>2 DEF IOTypes
  <1>4. state' = [q \in Requests |-> IF q \in {r} THEN "cancelled" ELSE state[q]]
    BY <1>1 DEF Cancel, IOTypes
  <1>5. /\ client' \in [Clients -> ClientPC]
        /\ \A d \in Clients : client'[d] = client[d] \/ (client[d] = "waitAsleep" /\ client'[d] = "wait")
    <2>1. client' = AwakeWaiters({r})
      BY DEF Cancel
    <2> QED  BY <1>1, <2>1, WaitersAwake
  <1> QED  BY <1>1, <1>2, <1>3, <1>4, <1>5, CancellingKeepsInv DEF Cancel

LEMMA ShutdownKeepsInv ==
    ASSUME IOInv, NEW c \in Clients,
           (\E drain \in BOOLEAN : Shutdown(c, drain)) \/ ShutdownNotifies(c) \/ ShutdownReturns(c)
    PROVE  IOInv'
  <1>1. IOTypes /\ QueueInv
    BY DEF IOInv
  <1>2. ASSUME NEW drain \in BOOLEAN, Shutdown(c, drain) PROVE IOInv'
    <2> DEFINE R == IF drain THEN {} ELSE In(queue)
    <2>1. R \in SUBSET In(queue)
      OBVIOUS
    <2>2. queue' \in Seq(Requests) /\ Len(queue') <= Len(queue)
      <3>1. queue' \in {queue, <<>>}
        BY <1>2 DEF Shutdown
      <3>2. Len(queue) \in Nat /\ queue \in Seq(Requests) /\ <<>> \in Seq(Requests) /\ Len(<<>>) = 0
        BY <1>1 DEF IOTypes
      <3>3. CASE queue' = queue
        BY <3>2, <3>3
      <3>4. CASE queue' = <<>>
        BY <3>2, <3>4
      <3> QED  BY <3>1, <3>3, <3>4
    <2>3. In(queue)' = In(queue) \ R
      BY <1>2 DEF Shutdown, In
    <2>4. \A i, j \in DOMAIN queue' : queue'[i] = queue'[j] => i = j
      BY <1>1, <1>2 DEF Shutdown, QueueInv
    <2>5. state' = [r \in Requests |-> IF r \in R THEN "cancelled" ELSE state[r]]
      BY <1>1, <1>2 DEF Shutdown, IOTypes
    <2>6. /\ client' \in [Clients -> ClientPC]
          /\ \A d \in Clients : \/ client'[d] = client[d]
                                \/ client[d] = "waitAsleep" /\ client'[d] = "wait"
                                \/ client'[d] = "stop"
      <3>1. CASE drain
        BY <1>1, <1>2, <3>1 DEF Shutdown, IOTypes, ClientPC
      <3>2. CASE ~drain
        <4> DEFINE awake == AwakeWaiters(In(queue))
        <4>1. /\ awake \in [Clients -> ClientPC]
              /\ \A d \in Clients : awake[d] = client[d] \/ (client[d] = "waitAsleep" /\ awake[d] = "wait")
          BY <1>1, WaitersAwake
        <4>2. client' = [awake EXCEPT ![c] = "stop"]
          BY <1>2, <3>2 DEF Shutdown
        <4> HIDE DEF awake
        <4> QED  BY <4>1, <4>2 DEF ClientPC
      <3> QED  BY <3>1, <3>2
    <2>7. stopping' = TRUE /\ UNCHANGED <<counters, worker, job, handle, finished>>
      BY <1>2 DEF Shutdown
    <2> HIDE DEF R
    <2> QED  BY <2>1, <2>2, <2>3, <2>4, <2>5, <2>6, <2>7, CancellingKeepsInv
  <1>3. CASE ShutdownNotifies(c)
    <2>1. Woken
      BY <1>1, <1>3, AwakeWorkersWoken DEF ShutdownNotifies, WakesAll
    <2>2. client' \in [Clients -> ClientPC]
      BY <1>1, <1>3 DEF ShutdownNotifies, IOTypes, ClientPC, AwakeClients
    <2>3. ClientInv'
      BY <1>1, <1>3, <2>1
         DEF ShutdownNotifies, IOInv, ClientInv, IOTypes, AwakeClients, Woken, lifecycle
    <2> QED  BY <1>1, <1>3, <2>1, <2>2, <2>3, ClientsMoveKeepsInv DEF ShutdownNotifies, IOTypes
  <1>4. CASE ShutdownReturns(c)
    <2>1. Woken
      BY <1>1, <1>4, AwakeWorkersWoken DEF ShutdownReturns
    <2>2. client' \in [Clients -> ClientPC] /\ ClientInv'
      BY <1>1, <1>4 DEF ShutdownReturns, IOInv, ClientInv, IOTypes, ClientPC, lifecycle
    <2> QED  BY <1>1, <1>4, <2>1, <2>2, ClientsMoveKeepsInv DEF ShutdownReturns, IOTypes
  <1> QED  BY <1>2, <1>3, <1>4
-----------------------------------------------------------------------------
(* The I/O threads.                                                        *)

LEMMA TakeKeepsInv ==
    ASSUME IOInv, NEW w \in Workers, Take(w)
    PROVE  IOInv'
  <1> USE DEF IOInv, Take, At, Goto, counters
  <1> DEFINE r == queue[1]
  <1>1. /\ queue \in Seq(Requests) /\ Len(queue) \in Nat \ {0}
        /\ queue' \in Seq(Requests) /\ Len(queue') = Len(queue) - 1
        /\ DOMAIN queue' = 1 .. Len(queue) - 1 /\ DOMAIN queue = 1 .. Len(queue)
        /\ \A i \in DOMAIN queue' : queue'[i] = queue[i + 1]
        /\ Head(queue) = r
    BY DEF IOTypes
  <1>2. r \in Requests /\ r # NoRequest /\ state[r] = "queued" /\ \A v \in Workers : job[v] # r
    BY <1>1, AsyncAssumption DEF QueueInv
  <1>3. job' = [job EXCEPT ![w] = r] /\ worker' = [worker EXCEPT ![w] = "took"]
    BY <1>1
  <1> HIDE DEF r
  <1>4. IOTypes'
    BY <1>1, <1>2, <1>3, AsyncAssumption DEF IOTypes, WorkerPC
  <1>5. In(queue) = In(queue)' \cup {r}
    <2>1. \A i \in DOMAIN queue : i = 1 \/ (i - 1 \in DOMAIN queue' /\ queue'[i - 1] = queue[i])
      BY <1>1
    <2>2. \A i \in DOMAIN queue' : i + 1 \in DOMAIN queue
      BY <1>1
    <2>3. 1 \in DOMAIN queue /\ queue[1] = r
      BY <1>1 DEF r
    <2>4. In(queue) \subseteq In(queue)' \cup {r}
      <3> SUFFICES ASSUME NEW i \in DOMAIN queue PROVE queue[i] = r \/ queue[i] \in In(queue)'
        BY DEF In
      <3> QED  BY <2>1, <2>3 DEF In
    <2>5. In(queue)' \cup {r} \subseteq In(queue)
      BY <1>1, <2>2, <2>3 DEF In
    <2> QED  BY <2>4, <2>5
  <1>6. QueueInv'
    <2>1. \A i \in DOMAIN queue' : i + 1 \in DOMAIN queue /\ i + 1 # 1
      BY <1>1
    <2>2. 1 \in DOMAIN queue /\ queue[1] = r
      BY <1>1 DEF r
    <2>3. \A i \in DOMAIN queue' : queue'[i] # r
      BY <1>1, <2>1, <2>2 DEF QueueInv
    <2>4. \A i, j \in DOMAIN queue' : queue'[i] = queue'[j] => i = j
      BY <1>1, <2>1 DEF QueueInv
    <2> QED  BY <1>1, <1>3, <2>1, <2>3, <2>4 DEF QueueInv, IOTypes
  <1>7. ThreadInv'
    <2>1. \A v \in Workers : worker[v] # "gone"
      BY DEF ThreadInv
    <2> QED  BY <1>2, <1>3, <2>1 DEF ThreadInv, IOTypes
  <1>8. PlaceInv'
    <2>1. job[w] = NoRequest /\ job'[w] = r /\ \A v \in Workers : v # w => job'[v] = job[v]
      BY <1>3 DEF ThreadInv, IOTypes
    <2>2. \A q \in Requests : (\E v \in Workers : job[v] = q) => \E v \in Workers : job'[v] = q
      BY <2>1, AsyncAssumption
    <2> QED  BY <1>5, <2>1, <2>2 DEF PlaceInv
  <1>9. Busy' = Busy /\ \A s : Counted(s)' = Counted(s)
    BY <1>2, <1>3 DEF Busy, Counted, IOTypes
  <1>10. ClientInv'
    BY <1>3 DEF ClientInv, IOTypes
  <1> QED  BY <1>4, <1>6, <1>7, <1>8, <1>9, <1>10 DEF CountInv

\* A thread moves between places that say the same of its request.
LEMMA MovingKeepsInv ==
    ASSUME IOInv, NEW w \in Workers, Rest(w) \/ TakeNotifies(w)
    PROVE  IOInv'
  <1> USE DEF IOInv, At, Goto, lifecycle, counters
  <1>1. /\ UNCHANGED <<queue, stopping, state, active, completed, failed, job, handle, finished>>
        /\ worker' \in [Workers -> WorkerPC] /\ client' \in [Clients -> ClientPC]
    BY DEF Rest, TakeNotifies, IOTypes, AwakeWorkers, AwakeClients, TellsClients, WorkerPC, ClientPC
  <1>2. \A v \in Workers :
          \/ worker'[v] = worker[v]
          \/ worker[v] = "asleep" /\ worker'[v] = "loop"
          \/ worker[v] = "took" /\ worker'[v] = "ready"
          \/ worker[v] = "loop" /\ worker'[v] = "asleep"
          \/ worker[v] = "loop" /\ worker'[v] = "gone" /\ stopping /\ queue = <<>>
    BY DEF Rest, Rests, TakeNotifies, IOTypes, AwakeWorkers
  <1>3. \A c \in Clients : client'[c] = client[c] \/ client'[c] = "room"
    BY DEF Rest, TakeNotifies, TellsClients, IOTypes, AwakeClients
  <1>4. IOTypes'
    BY <1>1 DEF IOTypes
  <1>5. QueueInv' /\ PlaceInv'
    BY <1>1 DEF QueueInv, PlaceInv, In
  <1>6. ThreadInv'
    BY <1>1, <1>2 DEF ThreadInv
  <1>7. Busy' = Busy /\ \A s : Counted(s)' = Counted(s)
    BY <1>1, <1>2 DEF Busy, Counted
  <1>8. ClientInv'
    BY <1>1, <1>2, <1>3 DEF ClientInv
  <1> QED  BY <1>1, <1>4, <1>5, <1>6, <1>7, <1>8 DEF CountInv

\* A thread that has a request: nobody else does, and it is not in the queue.
LEMMA RequestInHand ==
    ASSUME IOInv, NEW w \in Workers, worker[w] \notin {"loop", "asleep", "gone"}
    PROVE  /\ job[w] \in Requests
           /\ \A v \in Workers \ {w} : job[v] # job[w]
           /\ \A i \in DOMAIN queue : queue[i] # job[w] /\ queue[i] \in Requests
  <1>1. job[w] \in Requests /\ job[w] # NoRequest
    BY AsyncAssumption DEF IOInv, IOTypes, ThreadInv
  <1> QED  BY <1>1 DEF IOInv, IOTypes, ThreadInv, QueueInv

\* A thread gives its request another state and goes on to the place that says
\* so; the counters are left to the caller.
LEMMA SettingKeepsInv ==
    ASSUME IOInv, NEW w \in Workers, NEW place, NEW result,
           worker[w] \notin {"loop", "asleep", "gone"},
           \/ place = "storing" /\ result = "writing"
           \/ place = "count" /\ result \in {"stored", "failed"},
           state' = [state EXCEPT ![job[w]] = result],
           worker' = [worker EXCEPT ![w] = place],
           UNCHANGED <<queue, stopping, job, client, handle, finished>>,
           CountInv'
    PROVE  IOInv'
  <1> USE DEF IOInv
  <1>1. /\ job[w] \in Requests
        /\ \A v \in Workers \ {w} : job[v] # job[w]
        /\ \A i \in DOMAIN queue : queue[i] # job[w] /\ queue[i] \in Requests
    BY RequestInHand
  <1>2. IOTypes'
    BY DEF IOTypes, States, WorkerPC
  <1>3. QueueInv'
    BY <1>1 DEF QueueInv, IOTypes
  <1>4. ThreadInv'
    <2> SUFFICES ASSUME NEW v \in Workers
                 PROVE  /\ worker'[v] \in {"loop", "asleep", "gone"} <=> job[v] = NoRequest
                        /\ worker'[v] \in {"took", "ready"} => state'[job[v]] = "queued"
                        /\ worker'[v] = "storing" => state'[job[v]] = "writing"
                        /\ worker'[v] \in {"count", "leave", "report"}
                            => state'[job[v]] \in {"stored", "failed"}
                        /\ worker'[v] = "gone" => stopping /\ queue = <<>>
                        /\ \A u \in Workers : job[u] = job[v] => u = v \/ job[v] = NoRequest
      BY DEF ThreadInv
    <2>1. CASE v = w
      <3>1. worker'[v] = place /\ state'[job[v]] = result
        BY <1>1, <2>1 DEF IOTypes
      <3> QED  BY <1>1, <2>1, <3>1 DEF ThreadInv
    <2>2. CASE v # w
      <3>1. worker'[v] = worker[v] /\ (job[v] # NoRequest => state'[job[v]] = state[job[v]])
        BY <1>1, <2>2 DEF IOTypes
      <3> QED  BY <3>1 DEF ThreadInv
    <2> QED  BY <2>1, <2>2
  <1>5. PlaceInv'
    BY <1>1 DEF PlaceInv, In, IOTypes
  <1>6. ClientInv'
    BY DEF ClientInv, IOTypes
  <1> QED  BY <1>2, <1>3, <1>4, <1>5, <1>6

LEMMA BeginKeepsInv ==
    ASSUME IOInv, NEW w \in Workers, Begin(w)
    PROVE  IOInv'
  <1> USE DEF Begin, At, Goto
  <1>1. IOTypes /\ CountInv /\ state[job[w]] = "queued"
    BY DEF IOInv, ThreadInv
  <1>2. job[w] \in Requests
    BY RequestInHand
  <1>3. Busy' = Busy \cup {w} /\ w \notin Busy
    BY <1>1 DEF Busy, IOTypes
  <1>4. active' = Cardinality(Busy')
    BY <1>1, <1>3, CountsAreFinite, FS_AddElement DEF CountInv
  <1>5. Counted("stored")' = Counted("stored") /\ Counted("failed")' = Counted("failed")
    BY <1>1, <1>2 DEF Counted, IOTypes
  <1>6. CountInv'
    BY <1>1, <1>4, <1>5 DEF CountInv
  <1> QED  BY <1>6, SettingKeepsInv

LEMMA StoreKeepsInv ==
    ASSUME IOInv, NEW w \in Workers, Store(w)
    PROVE  IOInv'
  <1> USE DEF Store, At, Goto, counters
  <1>1. IOTypes /\ CountInv /\ state[job[w]] = "writing"
    BY DEF IOInv, ThreadInv
  <1>2. job[w] \in Requests
    BY RequestInHand
  <1>3. PICK result \in {"stored", "failed"} : state' = [state EXCEPT ![job[w]] = result]
    OBVIOUS
  <1>4. Busy' = Busy
    BY <1>1 DEF Busy, IOTypes
  <1>5. worker'[w] = "count" /\ job'[w] = job[w] /\ \A v \in Workers \ {w} : worker'[v] = worker[v]
    BY <1>1 DEF IOTypes
  <1>6. \A s \in {"stored", "failed"} : Counted(s)' = Counted(s)
    <2> SUFFICES ASSUME NEW s \in {"stored", "failed"}, NEW r \in Requests
                 PROVE  r \in Counted(s)' <=> r \in Counted(s)
      BY DEF Counted
    <2>1. CASE r = job[w]
      BY <1>1, <1>5, <2>1 DEF Counted
    <2>2. CASE r # job[w]
      BY <1>1, <1>3, <1>5, <2>2 DEF Counted, IOTypes
    <2> QED  BY <2>1, <2>2
  <1>7. CountInv'
    BY <1>1, <1>4, <1>6 DEF CountInv
  <1> QED  BY <1>3, <1>7, SettingKeepsInv

\* A thread goes on; the counters are left to the caller.
LEMMA CountingKeepsInv ==
    ASSUME IOInv, NEW w \in Workers, NEW place,
           \/ worker[w] = "count" /\ place = "leave"
           \/ worker[w] = "leave" /\ place = "report",
           worker' = [worker EXCEPT ![w] = place],
           UNCHANGED <<lifecycle, job, client, handle, finished>>,
           CountInv'
    PROVE  IOInv'
  <1> USE DEF IOInv, lifecycle
  <1>1. IOTypes'
    BY DEF IOTypes, WorkerPC
  <1>2. QueueInv' /\ PlaceInv'
    BY DEF QueueInv, PlaceInv, In
  <1>3. ThreadInv'
    BY DEF ThreadInv, IOTypes
  <1>4. ClientInv'
    BY DEF ClientInv, IOTypes
  <1> QED  BY <1>1, <1>2, <1>3, <1>4

LEMMA CountKeepsInv ==
    ASSUME IOInv, NEW w \in Workers, Count(w)
    PROVE  IOInv'
  <1> USE DEF Count, At, Goto
  <1> DEFINE r == job[w]
  <1>1. IOTypes /\ CountInv /\ state[r] \in {"stored", "failed"}
    BY DEF IOInv, ThreadInv
  <1>2. r \in Requests /\ \A v \in Workers \ {w} : job[v] # r
    BY RequestInHand
  <1>3. Busy' = Busy
    BY <1>1 DEF Busy, IOTypes
  <1>4. /\ worker[w] = "count" /\ worker'[w] = "leave"
        /\ \A v \in Workers \ {w} : worker'[v] = worker[v]
        /\ UNCHANGED <<state, job, active>>
    BY <1>1 DEF IOTypes, lifecycle
  <1> HIDE DEF r
  <1>5. \A s : /\ state[r] = s => Counted(s)' = Counted(s) \cup {r}
               /\ state[r] # s => Counted(s)' = Counted(s)
               /\ r \notin Counted(s)
    <2> SUFFICES ASSUME NEW s
                 PROVE  /\ state[r] = s => Counted(s)' = Counted(s) \cup {r}
                        /\ state[r] # s => Counted(s)' = Counted(s)
                        /\ r \notin Counted(s)
      OBVIOUS
    <2>1. r \notin Counted(s)
      BY <1>4 DEF Counted, r
    <2>2. r \in Counted(s)' <=> state[r] = s
      BY <1>2, <1>4 DEF Counted
    <2>3. \A q \in Requests : q # r => (q \in Counted(s)' <=> q \in Counted(s))
      BY <1>4 DEF Counted, r
    <2>4. Counted(s) \subseteq Requests /\ Counted(s)' \subseteq Requests
      BY DEF Counted
    <2> QED  BY <1>2, <2>1, <2>2, <2>3, <2>4
  <1>6. \A s : Cardinality(Counted(s)') =
                Cardinality(Counted(s)) + (IF state[r] = s THEN 1 ELSE 0)
    <2> TAKE s
    <2>1. IsFiniteSet(Counted(s)) /\ Cardinality(Counted(s)) \in Nat /\ r \notin Counted(s)
      BY <1>5, CountsAreFinite
    <2>2. CASE state[r] = s
      <3>1. Counted(s)' = Counted(s) \cup {r}
        BY <1>5, <2>2
      <3>2. Cardinality(Counted(s) \cup {r}) = Cardinality(Counted(s)) + 1
        BY <2>1, FS_AddElement
      <3> QED  BY <2>2, <3>1, <3>2
    <2>3. CASE state[r] # s
      BY <1>5, <2>1, <2>3
    <2> QED  BY <2>2, <2>3
  <1>7. CountInv'
    BY <1>1, <1>3, <1>4, <1>6 DEF CountInv, r
  <1> QED  BY <1>7, CountingKeepsInv

LEMMA LeaveKeepsInv ==
    ASSUME IOInv, NEW w \in Workers, Leave(w)
    PROVE  IOInv'
  <1> USE DEF Leave, At, Goto, lifecycle
  <1>1. IOTypes /\ CountInv
    BY DEF IOInv
  <1>2. Busy' = Busy \ {w} /\ w \in Busy
    BY <1>1 DEF Busy, IOTypes
  <1>3. active' = Cardinality(Busy')
    BY <1>1, <1>2, CountsAreFinite, FS_RemoveElement DEF CountInv
  <1>4. \A s : Counted(s)' = Counted(s)
    BY <1>1 DEF Counted, IOTypes
  <1>5. CountInv'
    BY <1>1, <1>3, <1>4 DEF CountInv
  <1> QED  BY <1>5, CountingKeepsInv

LEMMA ReportKeepsInv ==
    ASSUME IOInv, NEW w \in Workers, Report(w)
    PROVE  IOInv'
  <1> USE DEF IOInv, lifecycle, counters
  <1>1. /\ worker[w] = "report" /\ job' = [job EXCEPT ![w] = NoRequest]
        /\ worker' = [worker EXCEPT ![w] = "loop"] /\ client' = AwakeWaiters({job[w]})
        /\ UNCHANGED <<queue, stopping, state, active, completed, failed, handle, finished>>
    BY DEF Report, At, Goto, Signal
  <1>2. job[w] \in Requests /\ state[job[w]] \in {"stored", "failed"}
    BY <1>1, RequestInHand DEF ThreadInv
  <1>3. /\ client' \in [Clients -> ClientPC]
        /\ \A d \in Clients : client'[d] = client[d] \/ (client[d] = "waitAsleep" /\ client'[d] = "wait")
    BY <1>1, WaitersAwake
  <1>4. IOTypes'
    BY <1>1, <1>3 DEF IOTypes, WorkerPC
  <1>5. QueueInv'
    <2>1. \A i \in DOMAIN queue : queue[i] # NoRequest
      BY AsyncAssumption DEF IOTypes
    <2> QED  BY <1>1, <2>1 DEF QueueInv, IOTypes
  <1>6. ThreadInv'
    BY <1>1 DEF ThreadInv, IOTypes
  <1>7. PlaceInv'
    BY <1>1, <1>2 DEF PlaceInv, In, IOTypes
  <1>8. Busy' = Busy /\ \A s : Counted(s)' = Counted(s)
    BY <1>1 DEF Busy, Counted, IOTypes
  <1>9. ClientInv'
    BY <1>1, <1>3 DEF ClientInv, IOTypes
  <1> QED  BY <1>1, <1>4, <1>5, <1>6, <1>7, <1>8, <1>9 DEF CountInv
-----------------------------------------------------------------------------
LEMMA WorkersKeepInv ==
    ASSUME IOInv, NEW w \in Workers, WorkerStep(w)
    PROVE  IOInv'
  BY TakeKeepsInv, MovingKeepsInv, BeginKeepsInv, StoreKeepsInv, CountKeepsInv,
     LeaveKeepsInv, ReportKeepsInv DEF WorkerStep

LEMMA StutteringKeepsInv == IOInv /\ UNCHANGED vars => IOInv'
  BY DEF vars, lifecycle, counters, threads, IOInv, IOTypes, QueueInv, ThreadInv, PlaceInv,
         CountInv, ClientInv, Busy, Counted, In

\* Whatever clients and I/O threads of a writer do at once, each accepted
\* request is in the queue or with one thread until it is settled.
THEOREM WriterInvariant == Spec => []IOInv
  <1>1. IOInv /\ [Next]_vars => IOInv'
    BY WorkersKeepInv, WaitingKeepsInv, SubmitsKeepInv, CancelKeepsInv, ShutdownKeepsInv,
       StutteringKeepsInv DEF Next, ClientStep, Calls, Ended
  <1> QED  BY InitEstablishesInv, <1>1, PTL DEF Spec

\* The same for a reader, whose submission notifies under the lock.
THEOREM ReaderInvariant == ReadSpec => []IOInv
  <1>1. IOInv /\ [ReadNext]_vars => IOInv'
    BY WorkersKeepInv, WaitingKeepsInv, SubmitsKeepInv, ShutdownKeepsInv,
       StutteringKeepsInv DEF ReadNext, ReadWorker, ReadCall, ReadCalls, Ended
  <1> QED  BY InitEstablishesInv, <1>1, PTL DEF ReadSpec

\* AsyncChunkWriter never holds more than its capacity, never writes a request
\* twice or after it was cancelled, and shutdown() returns with everything
\* settled and counted.
THEOREM WritersAreSound == Spec => []WriterIsSound
  BY WriterInvariant, InvariantIsEnough, PTL

\* So does AsyncChunkReader, with loading for writing.
THEOREM ReadersAreSound == ReadSpec => []WriterIsSound
  BY ReaderInvariant, InvariantIsEnough, PTL
=============================================================================
