----------------------------- MODULE BoundedFifo -----------------------------
(***************************************************************************)
(* What the scheduler expects of its global queue (IQueue): tasks come out *)
(* in the order in which their places were taken, each once, and never     *)
(* more than Capacity of them are in it.  ReferenceQueue is this with a    *)
(* mutex around it; LockFreeQueue implements it.                           *)
(***************************************************************************)
EXTENDS Naturals, Sequences

CONSTANTS
    Tasks,
    Capacity

VARIABLE fifo

Init == fifo = <<>>

Enqueue(t) == Len(fifo) < Capacity /\ fifo' = Append(fifo, t)

Dequeue == fifo # <<>> /\ fifo' = Tail(fifo)

Next == Dequeue \/ \E t \in Tasks : Enqueue(t)

Spec == Init /\ [][Next]_fifo
=============================================================================
