----------------------------- MODULE AsyncReader -----------------------------
(***************************************************************************)
(* AsyncChunkReader: the queue, threads and handles of AsyncWriter, with   *)
(* three differences.  loadAsync notifies before it unlocks the queue, an  *)
(* operation is not locked while its chunk is read, and there is no        *)
(* cancel().  The states writing and stored of a request are called        *)
(* loading and loaded there.                                               *)
(***************************************************************************)
EXTENDS AsyncWriter

LoadAsync(c, r) ==
    /\ client[c] = "idle" /\ state[r] = "new"
    /\ ~stopping /\ HasRoom
    /\ queue' = Append(queue, r)
    /\ state' = [state EXCEPT ![r] = "queued"]
    /\ WakesOne(client)
    /\ UNCHANGED <<stopping, counters, job, handle, finished>>

\* wait() of an AsyncReadHandle.
TestLoaded(c) ==
    /\ client[c] = "wait"
    /\ IF state[handle[c]] \in Terminal
       THEN /\ client' = [client EXCEPT ![c] = "idle"]
            /\ handle' = [handle EXCEPT ![c] = NoRequest]
            /\ finished' = finished \cup {handle[c]}
       ELSE client' = [client EXCEPT ![c] = "waitAsleep"] /\ UNCHANGED <<handle, finished>>
    /\ UNCHANGED <<lifecycle, counters, worker, job>>

\* workerLoop()
ReadWorker(w) == WorkerStep(w)

ReadCall(c) == TestRoom(c) \/ TestLoaded(c) \/ ShutdownNotifies(c) \/ ShutdownReturns(c)

ReadCalls(c) ==
    \/ WaitForCapacity(c)
    \/ \E r \in Requests : LoadAsync(c, r) \/ Wait(c, r)
    \/ \E drain \in BOOLEAN : Shutdown(c, drain)

ReadNext ==
    \/ \E w \in Workers : ReadWorker(w)
    \/ \E c \in Clients : ReadCall(c) \/ ReadCalls(c)
    \/ Ended

ReadSpec == Init /\ [][ReadNext]_vars

ReadFairSpec ==
    /\ ReadSpec
    /\ \A w \in Workers : WF_vars(ReadWorker(w))
    /\ \A c \in Clients : WF_vars(ReadCall(c))
=============================================================================
