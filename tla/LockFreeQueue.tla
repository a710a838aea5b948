---------------------------- MODULE LockFreeQueue ----------------------------
(***************************************************************************)
(* The bounded multi-producer, multi-consumer ring of the scheduler.  A    *)
(* step is one atomic operation on a position counter or a slot sequence,  *)
(* or one move of a task into or out of a slot, which is not atomic and    *)
(* relies on the sequences to have the slot to itself.                     *)
(*                                                                         *)
(* Counters and sequences have Width bits and wrap.  A run begins at any   *)
(* position Start, as after Start pushes and pops, so that few operations  *)
(* reach the wrap.  No thread stalls while the counters advance by half    *)
(* their range: with 64 bits that takes 2^63 operations, and the model     *)
(* bounds the operations of a run instead (QueueAssumption).               *)
(***************************************************************************)
EXTENDS Integers, Sequences, FiniteSets

CONSTANTS
    Threads,        \* threads that push and pop
    Tasks,          \* tasks, each pushed at most once
    Capacity,       \* capacity_
    Width,          \* bits of std::size_t
    Start,          \* enqueuePos_ and dequeuePos_ when the run begins
    NoTask          \* a moved-from Task

Modulus == 2 ^ Width

PtrdiffMax == 2 ^ (Width - 1) - 1

\* The constructor's bounds; positions in use at one time are less than half
\* the range apart; and a wrap, if the run reaches it, keeps position %
\* capacity_ going round the ring.
ASSUME QueueAssumption ==
    /\ Width \in Nat \ {0}
    /\ Capacity \in 2 .. PtrdiffMax
    /\ Start \in 0 .. Modulus - 1
    /\ IsFiniteSet(Tasks) /\ NoTask \notin Tasks
    /\ Cardinality(Tasks) + Capacity <= PtrdiffMax
    /\ Modulus % Capacity = 0 \/ Start + Cardinality(Tasks) + Capacity < Modulus

\* Arithmetic of powers of two, for the proofs.
ASSUME PowersOfTwo == Modulus \in Nat /\ PtrdiffMax \in Nat /\ Modulus = 2 * PtrdiffMax + 2

VARIABLES
    enqueuePos,     \* enqueuePos_
    dequeuePos,     \* dequeuePos_
    sequence,       \* buffer_[i].sequence
    data,           \* buffer_[i].data
    pc,             \* where each thread is in push, pop or empty
    position,       \* its local variable
    task,           \* the task it pushes, or has popped
    \* history
    offered,        \* tasks that have been given to push
    promised        \* the head of the queue when the thread claimed it

shared == <<enqueuePos, dequeuePos, sequence, data>>
local  == <<pc, position, task, offered, promised>>
vars   == <<shared, local>>

Positions == 0 .. Modulus - 1

Slots == 0 .. Capacity - 1

PCs == {"idle", "pushRead", "pushReload", "pushClaim", "pushMove", "pushPublish",
        "popRead", "popReload", "popClaim", "popMove", "popRelease", "emptyRead", "emptyReload"}

TypeOK ==
    /\ enqueuePos \in Positions /\ dequeuePos \in Positions
    /\ sequence \in [Slots -> Positions]
    /\ data \in [Slots -> Tasks \cup {NoTask}]
    /\ pc \in [Threads -> PCs]
    /\ position \in [Threads -> Positions]
    /\ task \in [Threads -> Tasks \cup {NoTask}]
    /\ offered \in SUBSET Tasks
    /\ promised \in [Threads -> Tasks \cup {NoTask}]

\* std::size_t arithmetic.
Wrap(n) == n % Modulus

\* The slot of a position.
SlotOf(p) == p % Capacity

Init ==
    /\ enqueuePos = Start /\ dequeuePos = Start
    /\ sequence = [s \in Slots |->
                     Wrap(CHOOSE p \in Start .. Start + Capacity - 1 : SlotOf(Wrap(p)) = s)]
    /\ data = [s \in Slots |-> NoTask]
    /\ pc = [th \in Threads |-> "idle"]
    /\ position = [th \in Threads |-> 0]
    /\ task = [th \in Threads |-> NoTask]
    /\ offered = {}
    /\ promised = [th \in Threads |-> NoTask]

\* compareSequence(); the mutant takes every mismatch for full or empty.
MismatchIsBoundary(seq, expected) == IF seq = expected THEN "equal" ELSE "behind"

CompareSequence(seq, expected) ==
    LET forward == Wrap(seq - expected)
    IN IF forward = 0 THEN "equal" ELSE IF forward <= PtrdiffMax THEN "ahead" ELSE "behind"

Goto(th, place) == pc' = [pc EXCEPT ![th] = place]

\* A load of a position counter, here and where an operation starts again.
Loads(th, counter, place) ==
    /\ position' = [position EXCEPT ![th] = counter]
    /\ Goto(th, place)

\* compare_exchange_weak succeeds only if the counter is still what was read;
\* the mutant is a plain store.
ClaimUnchecked(th, counter) == TRUE

MayClaim(th, counter) == counter = position[th]

\* The call returns and its locals are gone.
Return(th) ==
    /\ Goto(th, "idle")
    /\ position' = [position EXCEPT ![th] = 0]
    /\ task' = [task EXCEPT ![th] = NoTask]
    /\ promised' = [promised EXCEPT ![th] = NoTask]

Here(th) == SlotOf(position[th])

-----------------------------------------------------------------------------
(* push                                                                    *)

PushBegins(th, t) ==
    /\ pc[th] = "idle" /\ t \notin offered
    /\ Loads(th, enqueuePos, "pushRead")
    /\ task' = [task EXCEPT ![th] = t]
    /\ offered' = offered \cup {t}
    /\ UNCHANGED <<shared, promised>>

PushOrder(th) == CompareSequence(sequence[Here(th)], position[th])

PushReads(th) ==
    /\ pc[th] = "pushRead" /\ PushOrder(th) # "behind"
    /\ Goto(th, IF PushOrder(th) = "equal" THEN "pushClaim" ELSE "pushReload")
    /\ UNCHANGED <<shared, position, task, offered, promised>>

\* The slot is not free yet: push returns false and the task is destroyed.
PushRefused(th) ==
    /\ pc[th] = "pushRead" /\ PushOrder(th) = "behind"
    /\ Return(th)
    /\ UNCHANGED <<shared, offered>>

PushReloads(th) ==
    /\ pc[th] = "pushReload"
    /\ Loads(th, enqueuePos, "pushRead")
    /\ UNCHANGED <<shared, task, offered, promised>>

PushClaims(th) ==
    /\ pc[th] = "pushClaim" /\ MayClaim(th, enqueuePos)
    /\ enqueuePos' = Wrap(position[th] + 1)
    /\ Goto(th, "pushMove")
    /\ UNCHANGED <<dequeuePos, sequence, data, position, task, offered, promised>>

\* Another producer was first, or the exchange failed for no reason.
PushClaimFails(th) ==
    /\ pc[th] = "pushClaim"
    /\ Loads(th, enqueuePos, "pushRead")
    /\ UNCHANGED <<shared, task, offered, promised>>

PushMoves(th) ==
    /\ pc[th] = "pushMove"
    /\ data' = [data EXCEPT ![Here(th)] = task[th]]
    /\ Goto(th, "pushPublish")
    /\ UNCHANGED <<enqueuePos, dequeuePos, sequence, position, task, offered, promised>>

PushPublishes(th) ==
    /\ pc[th] = "pushPublish"
    /\ sequence' = [sequence EXCEPT ![Here(th)] = Wrap(position[th] + 1)]
    /\ Return(th)
    /\ UNCHANGED <<enqueuePos, dequeuePos, data, offered>>

-----------------------------------------------------------------------------
(* pop                                                                     *)

PopBegins(th) ==
    /\ pc[th] = "idle"
    /\ Loads(th, dequeuePos, "popRead")
    /\ UNCHANGED <<shared, task, offered, promised>>

\* The sequence of a filled slot.
Expected(p) == Wrap(p + 1)

PopOrder(th) == CompareSequence(sequence[Here(th)], Expected(position[th]))

PopReads(th) ==
    /\ pc[th] = "popRead" /\ PopOrder(th) # "behind"
    /\ Goto(th, IF PopOrder(th) = "equal" THEN "popClaim" ELSE "popReload")
    /\ UNCHANGED <<shared, position, task, offered, promised>>

\* The slot is not filled yet: pop returns nothing.
PopRefused(th) ==
    /\ pc[th] = "popRead" /\ PopOrder(th) = "behind"
    /\ Return(th)
    /\ UNCHANGED <<shared, offered>>

PopReloads(th) ==
    /\ pc[th] = "popReload"
    /\ Loads(th, dequeuePos, "popRead")
    /\ UNCHANGED <<shared, task, offered, promised>>

\* The task that belongs to a position: still with its producer, or stored.
TaskAt(p) ==
    LET producers == {th \in Threads : pc[th] = "pushMove" /\ position[th] = p}
    IN IF producers # {} THEN task[CHOOSE th \in producers : TRUE] ELSE data[SlotOf(p)]

Contents == [i \in 1 .. Wrap(enqueuePos - dequeuePos) |-> TaskAt(Wrap(dequeuePos + i - 1))]

PopClaims(th) ==
    /\ pc[th] = "popClaim" /\ MayClaim(th, dequeuePos)
    /\ dequeuePos' = Wrap(position[th] + 1)
    /\ Goto(th, "popMove")
    /\ promised' = [promised EXCEPT ![th] = IF Contents = <<>> THEN NoTask ELSE Head(Contents)]
    /\ UNCHANGED <<enqueuePos, sequence, data, position, task, offered>>

PopClaimFails(th) ==
    /\ pc[th] = "popClaim"
    /\ Loads(th, dequeuePos, "popRead")
    /\ UNCHANGED <<shared, task, offered, promised>>

PopMoves(th) ==
    /\ pc[th] = "popMove"
    /\ task' = [task EXCEPT ![th] = data[Here(th)]]
    /\ data' = [data EXCEPT ![Here(th)] = NoTask]
    /\ Goto(th, "popRelease")
    /\ UNCHANGED <<enqueuePos, dequeuePos, sequence, position, offered, promised>>

\* The slot is free for the position one round later.
Released(p) == Wrap(p + Capacity)

PopReleases(th) ==
    /\ pc[th] = "popRelease"
    /\ sequence' = [sequence EXCEPT ![Here(th)] = Released(position[th])]
    /\ Return(th)
    /\ UNCHANGED <<enqueuePos, dequeuePos, data, offered>>

-----------------------------------------------------------------------------
(* empty                                                                   *)

EmptyBegins(th) ==
    /\ pc[th] = "idle"
    /\ Loads(th, dequeuePos, "emptyRead")
    /\ UNCHANGED <<shared, task, offered, promised>>

EmptyReads(th) ==
    /\ pc[th] = "emptyRead"
    /\ IF PopOrder(th) = "ahead"
       THEN Goto(th, "emptyReload") /\ UNCHANGED <<position, task, promised>>
       ELSE Return(th)
    /\ UNCHANGED <<shared, offered>>

EmptyReloads(th) ==
    /\ pc[th] = "emptyReload"
    /\ Loads(th, dequeuePos, "emptyRead")
    /\ UNCHANGED <<shared, task, offered, promised>>

-----------------------------------------------------------------------------

Push(th) ==
    \/ PushReads(th) \/ PushRefused(th) \/ PushReloads(th)
    \/ PushClaims(th) \/ PushClaimFails(th) \/ PushMoves(th) \/ PushPublishes(th)

Pop(th) ==
    \/ PopReads(th) \/ PopRefused(th) \/ PopReloads(th)
    \/ PopClaims(th) \/ PopClaimFails(th) \/ PopMoves(th) \/ PopReleases(th)

Next ==
    \E th \in Threads :
        \/ (\E t \in Tasks : PushBegins(th, t)) \/ Push(th)
        \/ PopBegins(th) \/ Pop(th)
        \/ EmptyBegins(th) \/ EmptyReads(th) \/ EmptyReloads(th)

Spec == Init /\ [][Next]_vars
-----------------------------------------------------------------------------
(* Properties.                                                             *)

\* Between its claim and its release store a thread has the slot to itself:
\* the plain moves of the task are never a data race.
Owns(th) == pc[th] \in {"pushMove", "pushPublish", "popMove", "popRelease"}

SlotHasOneOwner ==
    \A a, b \in Threads : a # b /\ Owns(a) /\ Owns(b) => Here(a) # Here(b)

\* A consumer gets the task that was at the head of the queue when it claimed
\* its position, however long its move is delayed.
PopGetsHead ==
    \A th \in Threads : pc[th] = "popRelease" => task[th] \in Tasks /\ task[th] = promised[th]

\* The ring is well typed, its slots are never shared, and pops get the head.
RingIsSound == TypeOK /\ SlotHasOneOwner /\ PopGetsHead

\* A push is refused only on a full queue, and a pop or empty() finds nothing
\* only in an empty one, unless a thread of the other side is in the middle of
\* its operation; contention with one's own side never looks like a boundary.
FindsNothing(th) ==
    \/ PopRefused(th)
    \/ EmptyReads(th) /\ PopOrder(th) = "behind"

BoundariesAreReal ==
    [][\A th \in Threads :
         /\ PushRefused(th) /\ (\A o \in Threads : pc[o] \notin {"popMove", "popRelease"})
                => Len(Contents) = Capacity
         /\ FindsNothing(th) /\ (\A o \in Threads : pc[o] \notin {"pushMove", "pushPublish"})
                => Contents = <<>>]_vars

\* The ring is a bounded first-in first-out queue.
Fifo == INSTANCE BoundedFifo WITH fifo <- Contents

FifoSpec == Fifo!Spec
=============================================================================
