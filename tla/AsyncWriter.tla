----------------------------- MODULE AsyncWriter -----------------------------
(***************************************************************************)
(* AsyncChunkWriter and its handles: clients put requests into a bounded   *)
(* queue, I/O threads take them, call the storage manager and report the   *)
(* outcome, and the writer is shut down once, by the client that owns it.  *)
(*                                                                         *)
(* A step is a critical section or one notification or counter update      *)
(* outside of it.  The writer has one condition variable, queueChanged_,   *)
(* for threads that wait for work and for clients that wait for room;      *)
(* every operation has one of its own.  A thread that is notified goes     *)
(* back to test its predicate.                                             *)
(***************************************************************************)
EXTENDS Naturals, Sequences, FiniteSets

CONSTANTS
    Clients,        \* threads that call the writer
    Workers,        \* its I/O threads
    Requests,       \* writes, each submitted at most once
    Capacity,       \* capacity_
    NoRequest

ASSUME AsyncAssumption ==
    /\ Capacity \in Nat \ {0}
    /\ IsFiniteSet(Workers) /\ Workers # {}
    /\ IsFiniteSet(Requests) /\ NoRequest \notin Requests

VARIABLES
    queue,          \* queue_
    stopping,       \* stopping_
    state,          \* the AsyncWriteLifecycle of each request
    active,         \* activeCount_
    completed,      \* completedCount_
    failed,         \* failedCount_
    worker,         \* where each I/O thread is
    job,            \* and the operation it has
    client,         \* where each client is
    handle,         \* the request it waits for
    finished        \* history: requests a wait() of which has returned

lifecycle == <<queue, stopping, state>>
counters  == <<active, completed, failed>>
threads   == <<worker, job, client, handle, finished>>
vars      == <<lifecycle, counters, threads>>

WorkerPC == {"loop", "asleep", "took", "ready", "storing", "count", "leave", "report", "gone"}

ClientPC == {"idle", "room", "roomAsleep", "notify", "wait", "waitAsleep", "stop", "join", "stopped"}

States == {"new", "queued", "writing", "stored", "failed", "cancelled"}

Terminal == {"stored", "failed", "cancelled"}

In(s) == {s[i] : i \in DOMAIN s}

TypeOK ==
    /\ queue \in Seq(Requests) /\ Len(queue) <= Capacity
    /\ stopping \in BOOLEAN
    /\ state \in [Requests -> States]
    /\ active \in 0 .. Cardinality(Workers)
    /\ completed \in 0 .. Cardinality(Requests) /\ failed \in 0 .. Cardinality(Requests)
    /\ worker \in [Workers -> WorkerPC]
    /\ job \in [Workers -> Requests \cup {NoRequest}]
    /\ client \in [Clients -> ClientPC]
    /\ handle \in [Clients -> Requests \cup {NoRequest}]
    /\ finished \subseteq Requests

\* The constructor has started the I/O threads in `started`.
InitWith(started) ==
    /\ queue = <<>> /\ stopping = FALSE
    /\ state = [r \in Requests |-> "new"]
    /\ active = 0 /\ completed = 0 /\ failed = 0
    /\ worker = [w \in Workers |-> IF w \in started THEN "loop" ELSE "gone"]
    /\ job = [w \in Workers |-> NoRequest]
    /\ client = [c \in Clients |-> "idle"]
    /\ handle = [c \in Clients |-> NoRequest]
    /\ finished = {}

Init == InitWith(Workers)

\* queueChanged_.notify_all(): what the threads do next.
AwakeWorkers == [w \in Workers |-> IF worker[w] = "asleep" THEN "loop" ELSE worker[w]]

AwakeClients == [c \in Clients |-> IF client[c] = "roomAsleep" THEN "room" ELSE client[c]]

\* changed.notify_all() of the operations in R.
AwakeWaiters(R) ==
    [c \in Clients |-> IF client[c] = "waitAsleep" /\ handle[c] \in R THEN "wait" ELSE client[c]]
-----------------------------------------------------------------------------
(* The clients.                                                            *)

HasRoom == Len(queue) < Capacity

\* Full and stopped writers refuse by an exception, which changes nothing.
Submit(c, r) ==
    /\ client[c] = "idle" /\ state[r] = "new"
    /\ ~stopping /\ HasRoom
    /\ queue' = Append(queue, r)
    /\ state' = [state EXCEPT ![r] = "queued"]
    /\ client' = [client EXCEPT ![c] = "notify"]
    /\ UNCHANGED <<stopping, counters, worker, job, handle, finished>>

\* queueChanged_.notify_one() wakes one of the threads that sleep on it, if
\* there is one; here is where the clients are otherwise.
WakesOne(here) ==
    \/ /\ \E w \in Workers : worker[w] = "asleep" /\ worker' = [worker EXCEPT ![w] = "loop"]
       /\ client' = here
    \/ /\ \E d \in Clients : here[d] = "roomAsleep" /\ client' = [here EXCEPT ![d] = "room"]
       /\ UNCHANGED worker
    \/ /\ \A w \in Workers : worker[w] # "asleep"
       /\ \A d \in Clients : here[d] # "roomAsleep"
       /\ client' = here
       /\ UNCHANGED worker

NotifyOne(c) ==
    /\ client[c] = "notify"
    /\ WakesOne([client EXCEPT ![c] = "idle"])
    /\ UNCHANGED <<lifecycle, counters, job, handle, finished>>

WaitForCapacity(c) ==
    /\ client[c] = "idle"
    /\ client' = [client EXCEPT ![c] = "room"]
    /\ UNCHANGED <<lifecycle, counters, worker, job, handle, finished>>

\* Returns, or throws if the writer is stopped.
RoomReady == stopping \/ Len(queue) < Capacity

TestRoom(c) ==
    /\ client[c] = "room"
    /\ client' = [client EXCEPT ![c] = IF RoomReady THEN "idle" ELSE "roomAsleep"]
    /\ UNCHANGED <<lifecycle, counters, worker, job, handle, finished>>

Wait(c, r) ==
    /\ client[c] = "idle" /\ state[r] # "new" /\ r \notin finished
    /\ client' = [client EXCEPT ![c] = "wait"]
    /\ handle' = [handle EXCEPT ![c] = r]
    /\ UNCHANGED <<lifecycle, counters, worker, job, finished>>

\* The I/O thread holds the operation's mutex while it stores the chunk.
OperationLocked(r) == \E w \in Workers : job[w] = r /\ worker[w] = "storing"

TestOutcome(c) ==
    /\ client[c] = "wait" /\ ~OperationLocked(handle[c])
    /\ IF state[handle[c]] \in Terminal
       THEN /\ client' = [client EXCEPT ![c] = "idle"]
            /\ handle' = [handle EXCEPT ![c] = NoRequest]
            /\ finished' = finished \cup {handle[c]}
       ELSE client' = [client EXCEPT ![c] = "waitAsleep"] /\ UNCHANGED <<handle, finished>>
    /\ UNCHANGED <<lifecycle, counters, worker, job>>

\* Only a request that is still in the queue can be cancelled; the mutant goes
\* by the state, which the thread that took the request has not changed yet.
CancellableByState(r) == state[r] = "queued"

Cancellable(r) == r \in In(queue)

\* std::find() and erase().
Without(s, r) ==
    LET at == CHOOSE i \in DOMAIN s : s[i] = r
    IN  IF r \in In(s) THEN [i \in 1 .. Len(s) - 1 |-> s[IF i < at THEN i ELSE i + 1]] ELSE s

Cancel(c, r) ==
    /\ client[c] = "idle" /\ Cancellable(r)
    /\ state' = [state EXCEPT ![r] = "cancelled"]
    /\ queue' = Without(queue, r)
    /\ client' = AwakeWaiters({r})
    /\ UNCHANGED <<stopping, counters, worker, job, handle, finished>>

\* shutdown(drain): the queue is kept for the threads, or cancelled.
Shutdown(c, drain) ==
    /\ client[c] = "idle" /\ ~stopping
    /\ stopping' = TRUE
    /\ IF drain
       THEN UNCHANGED <<queue, state>> /\ client' = [client EXCEPT ![c] = "stop"]
       ELSE /\ queue' = <<>>
            /\ state' = [r \in Requests |-> IF r \in In(queue) THEN "cancelled" ELSE state[r]]
            /\ client' = [AwakeWaiters(In(queue)) EXCEPT ![c] = "stop"]
    /\ UNCHANGED <<counters, worker, job, handle, finished>>

\* All threads that sleep are woken; the mutant wakes none.
WakesNone(c) == worker' = worker

WakesAll(c) == worker' = AwakeWorkers

ShutdownNotifies(c) ==
    /\ client[c] = "stop"
    /\ WakesAll(c)
    /\ client' = [AwakeClients EXCEPT ![c] = "join"]
    /\ UNCHANGED <<lifecycle, counters, job, handle, finished>>

\* All threads are joined.
ShutdownReturns(c) ==
    /\ client[c] = "join" /\ \A w \in Workers : worker[w] = "gone"
    /\ client' = [client EXCEPT ![c] = "stopped"]
    /\ UNCHANGED <<lifecycle, counters, worker, job, handle, finished>>
-----------------------------------------------------------------------------
(* The I/O threads.                                                        *)

At(w, place) == worker[w] = place

Goto(w, place) == worker' = [worker EXCEPT ![w] = place]

Take(w) ==
    /\ At(w, "loop") /\ queue # <<>>
    /\ job' = [job EXCEPT ![w] = Head(queue)]
    /\ queue' = Tail(queue)
    /\ Goto(w, "took")
    /\ UNCHANGED <<stopping, state, counters, client, handle, finished>>

\* An empty queue: sleep, or end if the writer stops; the mutant ends as soon
\* as it stops, whatever is queued.
RestsWhenStopping == stopping \/ queue = <<>>

Rests == queue = <<>>

Rest(w) ==
    /\ At(w, "loop") /\ Rests
    /\ Goto(w, IF stopping THEN "gone" ELSE "asleep")
    /\ UNCHANGED <<lifecycle, counters, job, client, handle, finished>>

\* The clients that wait for room are told.
TellsClients(w) == client' = AwakeClients

TakeNotifies(w) ==
    /\ At(w, "took")
    /\ worker' = [AwakeWorkers EXCEPT ![w] = "ready"]
    /\ TellsClients(w)
    /\ UNCHANGED <<lifecycle, counters, job, handle, finished>>

\* activeCount_ and beginWriting(), which finds the request queued.
Begin(w) ==
    /\ At(w, "ready")
    /\ active' = active + 1
    /\ state' = [state EXCEPT ![job[w]] = "writing"]
    /\ Goto(w, "storing")
    /\ UNCHANGED <<queue, stopping, completed, failed, job, client, handle, finished>>

\* The manager stores the chunk or throws.
Store(w) ==
    /\ At(w, "storing")
    /\ \E result \in {"stored", "failed"} : state' = [state EXCEPT ![job[w]] = result]
    /\ Goto(w, "count")
    /\ UNCHANGED <<queue, stopping, counters, job, client, handle, finished>>

Count(w) ==
    /\ At(w, "count")
    /\ completed' = completed + (IF state[job[w]] = "stored" THEN 1 ELSE 0)
    /\ failed' = failed + (IF state[job[w]] = "failed" THEN 1 ELSE 0)
    /\ Goto(w, "leave")
    /\ UNCHANGED <<lifecycle, active, job, client, handle, finished>>

Leave(w) ==
    /\ At(w, "leave")
    /\ active' = active - 1
    /\ Goto(w, "report")
    /\ UNCHANGED <<lifecycle, completed, failed, job, client, handle, finished>>

\* changed.notify_all()
Signal(w) == client' = AwakeWaiters({job[w]})

Report(w) ==
    /\ At(w, "report")
    /\ Signal(w)
    /\ job' = [job EXCEPT ![w] = NoRequest]
    /\ Goto(w, "loop")
    /\ UNCHANGED <<lifecycle, counters, handle, finished>>
-----------------------------------------------------------------------------

WorkerStep(w) ==
    \/ Take(w) \/ Rest(w) \/ TakeNotifies(w) \/ Begin(w)
    \/ Store(w) \/ Count(w) \/ Leave(w) \/ Report(w)

\* Steps inside a call of a client.
ClientStep(c) ==
    \/ NotifyOne(c) \/ TestRoom(c) \/ TestOutcome(c)
    \/ ShutdownNotifies(c) \/ ShutdownReturns(c)

Calls(c) ==
    \/ WaitForCapacity(c)
    \/ \E r \in Requests : Submit(c, r) \/ Wait(c, r) \/ Cancel(c, r)
    \/ \E drain \in BOOLEAN : Shutdown(c, drain)

\* The writer is gone and every client has its answer.
Ended ==
    /\ \A c \in Clients : client[c] \in {"idle", "stopped"}
    /\ \A w \in Workers : worker[w] = "gone"
    /\ UNCHANGED vars

Next ==
    \/ \E w \in Workers : WorkerStep(w)
    \/ \E c \in Clients : ClientStep(c) \/ Calls(c)
    \/ Ended

Spec == Init /\ [][Next]_vars

\* The operating system runs every thread; nobody is obliged to call.
FairSpec ==
    /\ Spec
    /\ \A w \in Workers : WF_vars(WorkerStep(w))
    /\ \A c \in Clients : WF_vars(ClientStep(c))
-----------------------------------------------------------------------------
(* Properties.                                                             *)

\* A request is in the queue, with one thread, or settled: none is written
\* twice, and none that was reported cancelled is written at all.
Held(r) == {w \in Workers : job[w] = r}

RequestsAreNotShared ==
    \A r \in Requests :
        /\ state[r] = "queued" => (r \in In(queue)) # (Held(r) # {})
        /\ state[r] = "writing" => Cardinality(Held(r)) = 1 /\ r \notin In(queue)
        /\ state[r] = "cancelled" => Held(r) = {} /\ r \notin In(queue)
        /\ Cardinality(Held(r)) <= 1

\* When shutdown() returns every accepted request is settled and the counters
\* are those of the settled requests.
ShutdownSettles ==
    (\E c \in Clients : client[c] = "stopped") =>
        /\ \A r \in Requests : state[r] \in Terminal \cup {"new"}
        /\ active = 0
        /\ completed = Cardinality({r \in Requests : state[r] = "stored"})
        /\ failed = Cardinality({r \in Requests : state[r] = "failed"})

\* The queue never outgrows its capacity, no request has two owners or is
\* written after it was cancelled, and shutdown() returns with everything
\* settled and counted, whatever clients and I/O threads do at once.
WriterIsSound == TypeOK /\ RequestsAreNotShared /\ ShutdownSettles

\* Every call of a client returns.
CallsReturn ==
    \A c \in Clients :
        client[c] \notin {"idle", "stopped"} ~> client[c] \in {"idle", "stopped"}

\* Every accepted request is settled.
RequestsAreSettled ==
    \A r \in Requests : state[r] \in {"queued", "writing"} ~> state[r] \in Terminal
=============================================================================
