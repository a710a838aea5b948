---------------------------- MODULE MCAsyncChunks ----------------------------
(***************************************************************************)
(* The asynchronous writer with one client, which is how the merge         *)
(* coordinator uses it, and all threads, or the asynchronous reader with   *)
(* all clients and one thread.                                             *)
(***************************************************************************)
EXTENDS AsyncReader

CONSTANTS
    Owner,      \* the client of the writer
    Reader      \* the only thread of the reader

VARIABLE role

ChunksInit ==
    \/ role = "writer" /\ Init
    \/ role = "reader" /\ InitWith({Reader})

IOThread(w) ==
    /\ UNCHANGED role
    /\ \/ role = "writer" /\ WorkerStep(w)
       \/ role = "reader" /\ ReadWorker(w)

InCall(c) ==
    /\ UNCHANGED role
    /\ \/ role = "writer" /\ c = Owner /\ ClientStep(c)
       \/ role = "reader" /\ ReadCall(c)

CallsOf(c) ==
    /\ UNCHANGED role
    /\ \/ role = "writer" /\ c = Owner /\ Calls(c)
       \/ role = "reader" /\ ReadCalls(c)

ChunksNext ==
    \/ \E w \in Workers : IOThread(w)
    \/ \E c \in Clients : InCall(c) \/ CallsOf(c)
    \/ Ended /\ UNCHANGED role

ChunksSpec ==
    /\ ChunksInit /\ [][ChunksNext]_<<vars, role>>
    /\ \A w \in Workers : WF_<<vars, role>>(IOThread(w))
    /\ \A c \in Clients : WF_<<vars, role>>(InCall(c))
=============================================================================
