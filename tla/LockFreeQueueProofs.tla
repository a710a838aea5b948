------------------------- MODULE LockFreeQueueProofs -------------------------
(***************************************************************************)
(* Proofs about LockFreeQueue for any number of threads and tasks, any     *)
(* capacity, width and start that satisfy its assumptions.                 *)
(*                                                                         *)
(* The counters wrap, so nothing can be said of their order.  Since a run  *)
(* makes less than half a round, a counter is determined by its distance   *)
(* from Start, and the proofs speak of those distances: E and D of the two *)
(* counters, Q of the sequence of a slot, P of the position of a thread.   *)
(* The last Capacity distances below E have a slot each, and what is in    *)
(* the slot's sequence tells whether the position is with a producer,      *)
(* filled, with a consumer, or released.                                   *)
(***************************************************************************)
EXTENDS LockFreeQueue, FiniteSetTheorems, SequenceTheorems, TLAPS

Pos(o) == Wrap(Start + o)

Off(x) == Wrap(x - Start)

\* The slot of a distance.
Slot(o) == (Start + o) % Capacity

\* The distances of a run.
Reach == 0 .. Cardinality(Tasks) + Capacity
-----------------------------------------------------------------------------
(* Arithmetic of words and slots.                                          *)

LEMMA ConstantFacts ==
    /\ Capacity \in Nat /\ Capacity >= 2 /\ Modulus \in Nat /\ PtrdiffMax \in Nat
    /\ Modulus = 2 * PtrdiffMax + 2 /\ Cardinality(Tasks) \in Nat
    /\ Cardinality(Tasks) + Capacity <= PtrdiffMax
    /\ Start \in Nat /\ Start < Modulus
    /\ NoTask \notin Tasks
  BY QueueAssumption, PowersOfTwo, FS_CardinalityType

LEMMA Quotient ==
    ASSUME NEW a \in Int, NEW m \in Nat \ {0}
    PROVE  a = m * (a \div m) + (a % m) /\ a \div m \in Int /\ a % m \in 0 .. m - 1
  OBVIOUS

LEMMA SameMultiple ==
    ASSUME NEW m \in Nat \ {0}, NEW j \in Int, NEW k \in Int,
           NEW r \in 0 .. m - 1, NEW s \in 0 .. m - 1, m * j + r = m * k + s
    PROVE  j = k /\ r = s
  <1>1. m * (j - k) = s - r
    OBVIOUS
  <1>2. CASE j - k >= 1
    <2>1. m * (j - k) >= m
      BY <1>2
    <2> QED  BY <1>1, <2>1
  <1>3. CASE j - k <= -1
    <2>1. m * (j - k) <= -m
      BY <1>3
    <2> QED  BY <1>1, <2>1
  <1> QED  BY <1>1, <1>2, <1>3

LEMMA Remainder ==
    ASSUME NEW a \in Int, NEW m \in Nat \ {0}, NEW k \in Int, NEW r \in 0 .. m - 1, a = m * k + r
    PROVE  a % m = r
  BY Quotient, SameMultiple

LEMMA WrapCases ==
    ASSUME NEW x \in Int
    PROVE  /\ Wrap(x) \in Positions
           /\ 0 <= x /\ x < Modulus => Wrap(x) = x
           /\ Modulus <= x /\ x < 2 * Modulus => Wrap(x) = x - Modulus
           /\ -Modulus <= x /\ x < 0 => Wrap(x) = x + Modulus
  <1> USE ConstantFacts DEF Wrap
  <1>1. Modulus \in Nat \ {0}
    OBVIOUS
  <1>2. Wrap(x) \in Positions
    BY <1>1, Quotient DEF Positions
  <1>3. 0 <= x /\ x < Modulus => Wrap(x) = x
    BY <1>1
  <1>4. ASSUME Modulus <= x, x < 2 * Modulus PROVE Wrap(x) = x - Modulus
    <2>1. x - Modulus \in 0 .. Modulus - 1 /\ x = Modulus * 1 + (x - Modulus)
      BY <1>4
    <2> QED  BY <1>1, <2>1, Remainder
  <1>5. ASSUME -Modulus <= x, x < 0 PROVE Wrap(x) = x + Modulus
    <2>1. x + Modulus \in 0 .. Modulus - 1 /\ x = Modulus * (-1) + (x + Modulus)
      BY <1>5
    <2> QED  BY <1>1, <2>1, Remainder
  <1> QED  BY <1>2, <1>3, <1>4, <1>5

LEMMA PosCases ==
    ASSUME NEW o \in Positions
    PROVE  /\ Pos(o) \in Positions
           /\ Pos(o) = IF Start + o < Modulus THEN Start + o ELSE Start + o - Modulus
  <1>1. Start + o \in Int /\ 0 <= Start + o /\ Start + o < 2 * Modulus
    BY ConstantFacts DEF Positions
  <1>2. CASE Start + o < Modulus
    BY <1>1, <1>2, WrapCases DEF Pos
  <1>3. CASE Start + o >= Modulus
    <2>1. Modulus <= Start + o /\ Start + o - Modulus \in Positions
      BY <1>1, <1>3, ConstantFacts DEF Positions
    <2>2. Wrap(Start + o) = (Start + o) - Modulus
      BY <1>1, <2>1, WrapCases
    <2>3. (Start + o) - Modulus = Start + o - Modulus /\ ~(Start + o < Modulus)
      BY <1>1, <1>3, ConstantFacts DEF Positions
    <2> QED  BY <2>1, <2>2, <2>3 DEF Pos
  <1> QED  BY <1>1, <1>2, <1>3, ConstantFacts

LEMMA OffCases ==
    ASSUME NEW x \in Positions
    PROVE  /\ Off(x) \in Positions
           /\ Off(x) = IF Start <= x THEN x - Start ELSE x - Start + Modulus
  <1>1. x - Start \in Int /\ -Modulus <= x - Start /\ x - Start < Modulus
    BY ConstantFacts DEF Positions
  <1> QED  BY <1>1, WrapCases, ConstantFacts DEF Off, Positions

LEMMA OffPos ==
    /\ \A o \in Positions : Off(Pos(o)) = o
    /\ \A x \in Positions : Pos(Off(x)) = x
  <1>1. ASSUME NEW o \in Positions PROVE Off(Pos(o)) = o
    <2>1. /\ Pos(o) \in Positions
          /\ Pos(o) = IF Start + o < Modulus THEN Start + o ELSE Start + o - Modulus
      BY PosCases
    <2>2. Off(Pos(o)) = IF Start <= Pos(o) THEN Pos(o) - Start ELSE Pos(o) - Start + Modulus
      BY <2>1, OffCases
    <2> QED  BY <2>1, <2>2, ConstantFacts DEF Positions
  <1>2. ASSUME NEW x \in Positions PROVE Pos(Off(x)) = x
    <2>1. /\ Off(x) \in Positions
          /\ Off(x) = IF Start <= x THEN x - Start ELSE x - Start + Modulus
      BY OffCases
    <2>2. Pos(Off(x)) = IF Start + Off(x) < Modulus THEN Start + Off(x) ELSE Start + Off(x) - Modulus
      BY <2>1, PosCases
    <2> QED  BY <2>1, <2>2, ConstantFacts DEF Positions
  <1> QED  BY <1>1, <1>2

LEMMA PosStep ==
    ASSUME NEW o \in Positions, NEW k \in Nat, o + k \in Positions
    PROVE  Wrap(Pos(o) + k) = Pos(o + k)
  <1>1. Pos(o) + k \in Int /\ 0 <= Pos(o) + k /\ Pos(o) + k < 2 * Modulus
    BY PosCases, ConstantFacts DEF Positions
  <1> QED  BY <1>1, PosCases, WrapCases, ConstantFacts DEF Positions

LEMMA PosDifference ==
    ASSUME NEW a \in Positions, NEW b \in Positions
    PROVE  Wrap(Pos(a) - Pos(b)) = IF b <= a THEN a - b ELSE a - b + Modulus
  <1>1. Pos(a) - Pos(b) \in Int /\ -Modulus <= Pos(a) - Pos(b) /\ Pos(a) - Pos(b) < Modulus
    BY PosCases, ConstantFacts DEF Positions
  <1> QED  BY <1>1, PosCases, WrapCases, ConstantFacts DEF Positions

\* compareSequence() orders the distances of a run.
LEMMA Ordered ==
    ASSUME NEW a \in 0 .. PtrdiffMax, NEW b \in 0 .. PtrdiffMax
    PROVE  CompareSequence(Pos(a), Pos(b))
             = IF a = b THEN "equal" ELSE IF a > b THEN "ahead" ELSE "behind"
  <1>1. a \in Positions /\ b \in Positions
    BY ConstantFacts DEF Positions
  <1> QED  BY <1>1, PosDifference, ConstantFacts DEF CompareSequence

LEMMA SlotQuotient ==
    ASSUME NEW o \in Int
    PROVE  /\ Slot(o) \in 0 .. Capacity - 1
           /\ \E k \in Int : Start + o = Capacity * k + Slot(o)
  <1>1. Start + o \in Int /\ Capacity \in Nat \ {0}
    BY ConstantFacts
  <1> QED  BY <1>1, Quotient DEF Slot

LEMMA SlotRemainder ==
    ASSUME NEW o \in Int, NEW k \in Int, NEW r \in 0 .. Capacity - 1, Start + o = Capacity * k + r
    PROVE  Slot(o) = r
  <1>1. Start + o \in Int /\ Capacity \in Nat \ {0}
    BY ConstantFacts
  <1> QED  BY <1>1, Remainder DEF Slot

\* The slots of a round are different, and the next round has the same.
LEMMA SlotFacts ==
    /\ \A o \in Int : Slot(o) \in Slots /\ Slot(o + Capacity) = Slot(o)
    /\ \A a, b \in Int : Slot(a) = Slot(b) /\ a - b < Capacity /\ b - a < Capacity => a = b
  <1>1. ASSUME NEW o \in Int PROVE Slot(o) \in Slots /\ Slot(o + Capacity) = Slot(o)
    <2>1. PICK k \in Int : Start + o = Capacity * k + Slot(o)
      BY SlotQuotient
    <2>2. Slot(o) \in 0 .. Capacity - 1
      BY SlotQuotient
    <2>3. Start + (o + Capacity) = Capacity * (k + 1) + Slot(o)
      BY <2>1, <2>2, ConstantFacts
    <2>4. o + Capacity \in Int /\ k + 1 \in Int
      BY ConstantFacts
    <2> QED  BY <2>2, <2>3, <2>4, SlotRemainder DEF Slots
  <1>2. ASSUME NEW a \in Int, NEW b \in Int, Slot(a) = Slot(b), a - b < Capacity, b - a < Capacity
        PROVE  a = b
    <2>1. PICK j \in Int : Start + a = Capacity * j + Slot(a)
      BY SlotQuotient
    <2>2. PICK k \in Int : Start + b = Capacity * k + Slot(b)
      BY SlotQuotient
    <2>3. Slot(a) \in 0 .. Capacity - 1
      BY SlotQuotient
    <2>4. a - b = Capacity * (j - k)
      BY <1>2, <2>1, <2>2, <2>3, ConstantFacts
    <2>5. CASE j - k >= 1
      <3>1. Capacity * (j - k) >= Capacity
        BY <2>5, ConstantFacts
      <3> QED  BY <1>2, <2>4, <3>1, ConstantFacts
    <2>6. CASE j - k <= -1
      <3>1. Capacity * (j - k) <= -Capacity
        BY <2>6, ConstantFacts
      <3> QED  BY <1>2, <2>4, <3>1, ConstantFacts
    <2>7. CASE j = k
      BY <2>4, <2>7, ConstantFacts
    <2> QED  BY <2>5, <2>6, <2>7
  <1> QED  BY <1>1, <1>2

\* A wrap of the counter keeps the positions going round the ring.
LEMMA SlotOfPos ==
    ASSUME NEW o \in Reach
    PROVE  SlotOf(Pos(o)) = Slot(o)
  <1>1. o \in Positions /\ o \in Int
    BY ConstantFacts DEF Reach, Positions
  <1>2. CASE Start + o < Modulus
    BY <1>1, <1>2, PosCases DEF SlotOf, Slot
  <1>3. CASE Start + o >= Modulus
    <2>1. Modulus % Capacity = 0 /\ Pos(o) = Start + o - Modulus
      BY <1>1, <1>3, PosCases, QueueAssumption, ConstantFacts DEF Reach
    <2>2. PICK m \in Int : Modulus = Capacity * m
      <3>1. Modulus \in Int /\ Capacity \in Nat \ {0}
        BY ConstantFacts
      <3>2. /\ Modulus = Capacity * (Modulus \div Capacity) + (Modulus % Capacity)
            /\ Modulus \div Capacity \in Int
        BY <3>1, Quotient
      <3> DEFINE q == Modulus \div Capacity
      <3>3. q \in Int /\ Modulus = Capacity * q + 0
        BY <2>1, <3>2
      <3> HIDE DEF q
      <3> QED  BY <3>1, <3>3
    <2>3. PICK k \in Int : Start + o = Capacity * k + Slot(o)
      BY <1>1, SlotQuotient
    <2>4. Slot(o) \in 0 .. Capacity - 1
      BY <1>1, SlotQuotient
    <2>5. Pos(o) = Capacity * (k - m) + Slot(o)
      BY <1>1, <2>1, <2>2, <2>3, <2>4, ConstantFacts
    <2>6. Pos(o) \in Int /\ Capacity \in Nat \ {0} /\ k - m \in Int
      BY <1>1, <2>1, ConstantFacts
    <2> QED  BY <2>4, <2>5, <2>6, Remainder DEF SlotOf
  <1> QED  BY <1>1, <1>2, <1>3, ConstantFacts
-----------------------------------------------------------------------------
(* The inductive invariant.                                                *)

E == Off(enqueuePos)

D == Off(dequeuePos)

Q(s) == Off(sequence[s])

P(th) == Off(position[th])

PushOwns(th) == pc[th] \in {"pushMove", "pushPublish"}

PopOwns(th) == pc[th] \in {"popMove", "popRelease"}

PushLooks(th) == pc[th] \in {"pushRead", "pushReload", "pushClaim"}

PopLooks(th) == pc[th] \in {"popRead", "popReload", "popClaim", "emptyRead", "emptyReload"}

\* Tasks of pushes that have no position yet.
Pending == {t \in Tasks : \E th \in Threads : PushLooks(th) /\ task[th] = t}

\* A push takes at most one position, so the run never gets far.
CounterInv ==
    /\ D <= E /\ E <= D + Capacity
    /\ E <= Cardinality(offered \ Pending)
    /\ \A s \in Slots : Q(s) < E + Capacity

\* The last round of positions: with its producer, filled, with its consumer, or
\* released (or not used yet, if the distance is negative).
WindowInv ==
    \A o \in E - Capacity .. E - 1 :
        \/ o >= D /\ Q(Slot(o)) = o /\ \E th \in Threads : PushOwns(th) /\ P(th) = o
        \/ o >= D /\ Q(Slot(o)) = o + 1 /\ data[Slot(o)] \in Tasks
        \/ o < D /\ Q(Slot(o)) = o + 1 /\ \E th \in Threads : PopOwns(th) /\ P(th) = o
        \/ o < D /\ Q(Slot(o)) = o + Capacity

\* Who has claimed a position, what is in its slot, and that it is alone.
OwnerOK(th) ==
    /\ PushOwns(th) =>
        /\ D <= P(th) /\ P(th) < E
        /\ Q(Slot(P(th))) = P(th) /\ task[th] \in Tasks
    /\ pc[th] = "pushPublish" => data[Slot(P(th))] = task[th]
    /\ PopOwns(th) =>
        /\ E - Capacity <= P(th) /\ P(th) < D
        /\ Q(Slot(P(th))) = P(th) + 1 /\ promised[th] \in Tasks
    /\ pc[th] = "popMove" => data[Slot(P(th))] = promised[th]
    /\ pc[th] = "popRelease" => task[th] = promised[th]
    /\ \A u \in Threads : Owns(th) /\ Owns(u) /\ P(u) = P(th) => u = th

OwnerInv == \A th \in Threads : OwnerOK(th)

\* Who looks for a position: one that others have passed is not behind, and
\* one that is about to be claimed was found ready.
LookOK(th) ==
    /\ PushLooks(th) =>
        /\ P(th) <= E /\ (P(th) < E => Q(Slot(P(th))) >= P(th))
        /\ task[th] \in offered
        /\ \A u \in Threads : PushLooks(u) /\ task[u] = task[th] => u = th
    /\ pc[th] = "pushClaim" /\ P(th) = E => Q(Slot(E)) = E
    /\ PopLooks(th) => P(th) <= D /\ (P(th) < D => Q(Slot(P(th))) >= P(th) + 1)
    /\ pc[th] = "popClaim" /\ P(th) = D => Q(Slot(D)) = D + 1

LookInv == \A th \in Threads : LookOK(th)

RingInv == TypeOK /\ CounterInv /\ WindowInv /\ OwnerInv /\ LookInv
-----------------------------------------------------------------------------
LEMMA Distances ==
    ASSUME TypeOK
    PROVE  /\ E \in Positions /\ D \in Positions
           /\ enqueuePos = Pos(E) /\ dequeuePos = Pos(D)
           /\ \A s \in Slots : Q(s) \in Positions /\ sequence[s] = Pos(Q(s))
           /\ \A th \in Threads : P(th) \in Positions /\ position[th] = Pos(P(th))
  <1>1. \A x \in Positions : Off(x) \in Positions /\ Pos(Off(x)) = x
    BY OffCases, OffPos
  <1> QED  BY <1>1 DEF TypeOK, E, D, Q, P

LEMMA TasksAreFinite ==
    ASSUME TypeOK
    PROVE  /\ IsFiniteSet(offered \ Pending) /\ Cardinality(offered \ Pending) \in Nat
           /\ Cardinality(offered \ Pending) <= Cardinality(Tasks)
  <1>1. offered \ Pending \in SUBSET Tasks
    BY DEF TypeOK
  <1> QED  BY <1>1, QueueAssumption, FS_Subset, FS_CardinalityType

LEMMA OfferedLater ==
    ASSUME TypeOK'
    PROVE  IsFiniteSet((offered \ Pending)') /\ Cardinality((offered \ Pending)') \in Nat
  <1>1. (offered \ Pending)' \in SUBSET Tasks
    BY DEF TypeOK
  <1> QED  BY <1>1, QueueAssumption, FS_Subset, FS_CardinalityType

\* No distance leaves the reach of a run.
LEMMA WithinReach ==
    ASSUME TypeOK, CounterInv
    PROVE  /\ E \in Nat /\ D \in Nat /\ E <= Cardinality(Tasks) /\ D <= E
           /\ E - Capacity <= D
           /\ \A o \in 0 .. E : o \in Reach /\ o \in Positions /\ o + 1 \in Positions
                                /\ SlotOf(Pos(o)) = Slot(o) /\ Slot(o) \in Slots
           /\ \A o \in 0 .. E : o + Capacity \in Positions
           /\ \A s \in Slots : Q(s) \in 0 .. PtrdiffMax
  <1>1. E \in Nat /\ D \in Nat /\ D <= E /\ \A s \in Slots : Q(s) \in Nat
    BY Distances DEF CounterInv, Positions
  <1>2. E <= Cardinality(Tasks)
    BY <1>1, TasksAreFinite, ConstantFacts DEF CounterInv
  <1>3. \A o \in 0 .. E : o \in Reach /\ o \in Positions /\ o + 1 \in Positions
                          /\ o + Capacity \in Positions
    BY <1>1, <1>2, ConstantFacts DEF Reach, Positions
  <1>4. \A o \in 0 .. E : SlotOf(Pos(o)) = Slot(o) /\ Slot(o) \in Slots
    BY <1>1, <1>3, SlotOfPos, SlotFacts
  <1>5. \A s \in Slots : Q(s) \in 0 .. PtrdiffMax
    BY <1>1, <1>2, ConstantFacts DEF CounterInv
  <1> QED  BY <1>1, <1>2, <1>3, <1>4, <1>5, ConstantFacts DEF CounterInv

\* The slot in which a thread looks or works.
LEMMA HereIsSlot ==
    ASSUME TypeOK, CounterInv, NEW th \in Threads, P(th) <= E
    PROVE  P(th) \in 0 .. E /\ Here(th) = Slot(P(th)) /\ Slot(P(th)) \in Slots
  <1>1. P(th) \in 0 .. E /\ position[th] = Pos(P(th))
    BY Distances, WithinReach DEF Positions
  <1> QED  BY <1>1, WithinReach DEF Here

\* No step but one's own changes what a thread has.
Others(th) ==
    \A u \in Threads \ {th} :
        /\ pc'[u] = pc[u] /\ position'[u] = position[u]
        /\ task'[u] = task[u] /\ promised'[u] = promised[u]

LEMMA OthersAreAlone ==
    ASSUME NEW th \in Threads, Others(th), NEW u \in Threads \ {th}
    PROVE  /\ P(u)' = P(u) /\ (PushOwns(u)' <=> PushOwns(u)) /\ (PopOwns(u)' <=> PopOwns(u))
           /\ (PushLooks(u)' <=> PushLooks(u)) /\ (PopLooks(u)' <=> PopLooks(u))
           /\ (Owns(u)' <=> Owns(u))
  BY DEF Others, P, PushOwns, PopOwns, PushLooks, PopLooks, Owns

\* Steps of a thread that has claimed nothing leave the ring alone.
LEMMA LookingKeepsInv ==
    ASSUME RingInv, NEW th \in Threads, UNCHANGED shared, TypeOK', Others(th),
           ~Owns(th), ~Owns(th)', LookOK(th)',
           offered \ Pending \subseteq (offered \ Pending)', offered \subseteq offered',
           PushLooks(th)' => \A u \in Threads \ {th} : PushLooks(u) => task[u] # task'[th]
    PROVE  RingInv'
  <1> USE DEF RingInv
  <1>1. E' = E /\ D' = D /\ data' = data /\ \A s : Q(s)' = Q(s)
    BY DEF shared, E, D, Q
  <1>2. ~PushOwns(th) /\ ~PopOwns(th) /\ ~PushOwns(th)' /\ ~PopOwns(th)'
    BY DEF Owns, PushOwns, PopOwns
  <1>3. CounterInv'
    <2>1. IsFiniteSet((offered \ Pending)') /\ Cardinality((offered \ Pending)') \in Nat
      BY OfferedLater
    <2>2. Cardinality(offered \ Pending) <= Cardinality((offered \ Pending)')
      BY <2>1, FS_Subset
    <2>3. Cardinality(offered \ Pending) \in Nat /\ E \in Nat
      BY TasksAreFinite, WithinReach
    <2> QED  BY <1>1, <2>1, <2>2, <2>3 DEF CounterInv
  <1>4. WindowInv'
    <2> SUFFICES ASSUME NEW o \in E - Capacity .. E - 1
                 PROVE  \/ o >= D /\ Q(Slot(o)) = o /\ \E u \in Threads : PushOwns(u)' /\ P(u)' = o
                        \/ o >= D /\ Q(Slot(o)) = o + 1 /\ data[Slot(o)] \in Tasks
                        \/ o < D /\ Q(Slot(o)) = o + 1 /\ \E u \in Threads : PopOwns(u)' /\ P(u)' = o
                        \/ o < D /\ Q(Slot(o)) = o + Capacity
      BY <1>1 DEF WindowInv
    <2> QED  BY <1>2, OthersAreAlone DEF WindowInv
  <1>5. OwnerInv'
    <2>1. OwnerOK(th)'
      BY <1>2 DEF OwnerOK, PushOwns, PopOwns
    <2>2. ASSUME NEW u \in Threads \ {th} PROVE OwnerOK(u)'
      <3>1. OwnerOK(u)
        BY DEF OwnerInv
      <3>2. \A v \in Threads : Owns(u)' /\ Owns(v)' /\ P(v)' = P(u)' => v = u
        BY <3>1, OthersAreAlone DEF OwnerOK
      <3> QED  BY <1>1, <3>1, <3>2, OthersAreAlone DEF OwnerOK, Others
    <2> QED  BY <2>1, <2>2 DEF OwnerInv
  <1>6. LookInv'
    <2> SUFFICES ASSUME NEW u \in Threads \ {th} PROVE LookOK(u)'
      BY DEF LookInv
    <2>1. LookOK(u)
      BY DEF LookInv
    <2>2. PushLooks(u)' /\ PushLooks(th)' => task'[u] # task'[th]
      BY OthersAreAlone DEF Others
    <2>3. \A v \in Threads \ {th} : PushLooks(v)' /\ PushLooks(u)' /\ task'[v] = task'[u] => v = u
      BY <2>1, OthersAreAlone DEF LookOK, Others
    <2> QED  BY <1>1, <2>1, <2>2, <2>3, OthersAreAlone DEF LookOK, Others
  <1> QED  BY <1>3, <1>4, <1>5, <1>6
\* What a look at the slot of a position tells.
LEMMA PushOrderIs ==
    ASSUME RingInv, NEW th \in Threads, PushLooks(th)
    PROVE  /\ P(th) \in 0 .. E /\ Slot(P(th)) \in Slots
           /\ PushOrder(th) = IF Q(Slot(P(th))) = P(th) THEN "equal"
                              ELSE IF Q(Slot(P(th))) > P(th) THEN "ahead" ELSE "behind"
  <1>1. TypeOK /\ CounterInv /\ P(th) <= E
    BY DEF RingInv, LookInv, LookOK
  <1>2. P(th) \in 0 .. E /\ Here(th) = Slot(P(th)) /\ Slot(P(th)) \in Slots
    BY <1>1, HereIsSlot
  <1>3. sequence[Slot(P(th))] = Pos(Q(Slot(P(th)))) /\ position[th] = Pos(P(th))
    BY <1>1, <1>2, Distances
  <1>4. Q(Slot(P(th))) \in 0 .. PtrdiffMax /\ P(th) \in 0 .. PtrdiffMax
    BY <1>1, <1>2, WithinReach, ConstantFacts
  <1> QED  BY <1>2, <1>3, <1>4, Ordered DEF PushOrder

LEMMA PopOrderIs ==
    ASSUME RingInv, NEW th \in Threads, PopLooks(th)
    PROVE  /\ P(th) \in 0 .. D /\ Slot(P(th)) \in Slots
           /\ PopOrder(th) = IF Q(Slot(P(th))) = P(th) + 1 THEN "equal"
                             ELSE IF Q(Slot(P(th))) > P(th) + 1 THEN "ahead" ELSE "behind"
  <1>1. TypeOK /\ CounterInv /\ P(th) <= D
    BY DEF RingInv, LookInv, LookOK
  <1>2. E \in Nat /\ D \in Nat /\ D <= E /\ E <= Cardinality(Tasks)
    BY <1>1, WithinReach
  <1>3. P(th) \in Nat
    BY <1>1, Distances DEF Positions
  <1>4. P(th) <= E
    BY <1>1, <1>2, <1>3
  <1>5. P(th) \in 0 .. E /\ Here(th) = Slot(P(th)) /\ Slot(P(th)) \in Slots
    BY <1>1, <1>4, HereIsSlot
  <1>6. sequence[Slot(P(th))] = Pos(Q(Slot(P(th)))) /\ position[th] = Pos(P(th))
    BY <1>1, <1>5, Distances
  <1>7. Expected(position[th]) = Pos(P(th) + 1)
    BY <1>1, <1>5, <1>6, WithinReach, PosStep DEF Expected
  <1>8. Q(Slot(P(th))) \in 0 .. PtrdiffMax /\ P(th) + 1 \in 0 .. PtrdiffMax
    BY <1>1, <1>2, <1>5, WithinReach, ConstantFacts
  <1> QED  BY <1>1, <1>2, <1>3, <1>5, <1>6, <1>7, <1>8, Ordered DEF PopOrder

LEMMA PendingShrinks ==
    ASSUME NEW th \in Threads, Others(th), offered' = offered,
           PushLooks(th)' => PushLooks(th) /\ task'[th] = task[th]
    PROVE  /\ offered \ Pending \subseteq (offered \ Pending)'
           /\ offered \subseteq offered'
  <1>1. Pending' \subseteq Pending
    BY OthersAreAlone DEF Pending, Others
  <1> QED  BY <1>1

\* A producer looks for a position.
LEMMA PushLooksKeepInv ==
    ASSUME RingInv, NEW th \in Threads,
           \/ PushReads(th) \/ PushReloads(th) \/ PushClaimFails(th)
    PROVE  RingInv'
  <1>1. TypeOK /\ CounterInv /\ LookOK(th) /\ PushLooks(th)
    BY DEF RingInv, LookInv, PushReads, PushReloads, PushClaimFails, PushLooks
  <1>2. TypeOK'
    BY <1>1 DEF TypeOK, PushReads, PushReloads, PushClaimFails, Loads, Goto, PCs, shared
  <1>3. /\ Others(th) /\ UNCHANGED <<shared, task, offered>>
        /\ pc'[th] \in {"pushRead", "pushReload", "pushClaim"}
    BY <1>1 DEF TypeOK, PushReads, PushReloads, PushClaimFails, Loads, Goto, Others
  <1>4. ~Owns(th) /\ ~Owns(th)' /\ PushLooks(th)'
    BY <1>1, <1>3 DEF Owns, PushLooks
  <1>5. E' = E /\ D' = D /\ \A s : Q(s)' = Q(s)
    BY <1>3 DEF shared, E, D, Q
  <1>6. E \in Nat
    BY <1>1, WithinReach
  <1>7. \A u \in Threads \ {th} : PushLooks(u) => task[u] # task'[th]
    BY <1>1, <1>3 DEF LookOK
  <1>8. \A u \in Threads : PushLooks(u)' /\ task'[u] = task'[th] => u = th
    BY <1>3, <1>7, OthersAreAlone DEF Others
  <1>9. LookOK(th)'
    <2>1. CASE PushReads(th)
      <3>1. P(th)' = P(th) /\ (pc'[th] = "pushClaim" => PushOrder(th) = "equal")
        BY <1>1, <2>1 DEF PushReads, Goto, P, TypeOK
      <3>2. pc'[th] = "pushClaim" => Q(Slot(P(th))) = P(th)
        BY <1>1, <3>1, PushOrderIs
      <3> QED  BY <1>1, <1>3, <1>5, <1>8, <3>1, <3>2 DEF LookOK, PopLooks
    <2>2. CASE PushReloads(th) \/ PushClaimFails(th)
      <3>1. P(th)' = E /\ pc'[th] = "pushRead"
        BY <1>1, <2>2 DEF PushReloads, PushClaimFails, Loads, Goto, P, E, TypeOK
      <3> QED  BY <1>1, <1>3, <1>5, <1>6, <1>8, <3>1 DEF LookOK, PopLooks
    <2> QED  BY <2>1, <2>2
  <1>10. offered \ Pending \subseteq (offered \ Pending)' /\ offered \subseteq offered'
    BY <1>1, <1>3, PendingShrinks
  <1> QED  BY <1>2, <1>3, <1>4, <1>7, <1>9, <1>10, LookingKeepsInv

LEMMA PushBeginsKeepsInv ==
    ASSUME RingInv, NEW th \in Threads, NEW t \in Tasks, PushBegins(th, t)
    PROVE  RingInv'
  <1>1. TypeOK /\ CounterInv /\ pc[th] = "idle" /\ t \notin offered
    BY DEF RingInv, PushBegins
  <1>2. TypeOK'
    BY <1>1 DEF TypeOK, PushBegins, Loads, Goto, PCs, shared
  <1>3. /\ Others(th) /\ UNCHANGED shared /\ task'[th] = t /\ offered' = offered \cup {t}
        /\ pc'[th] = "pushRead" /\ P(th)' = E
    BY <1>1 DEF TypeOK, PushBegins, Loads, Goto, Others, P, E
  <1>4. ~Owns(th) /\ ~Owns(th)' /\ PushLooks(th)'
    BY <1>1, <1>3 DEF Owns, PushLooks
  <1>5. E' = E /\ D' = D /\ \A s : Q(s)' = Q(s)
    BY <1>3 DEF shared, E, D, Q
  <1>6. E \in Nat
    BY <1>1, WithinReach
  <1>7. \A u \in Threads \ {th} : PushLooks(u) => task[u] # task'[th]
    BY <1>1, <1>3 DEF RingInv, LookInv, LookOK
  <1>8. \A u \in Threads : PushLooks(u)' /\ task'[u] = task'[th] => u = th
    BY <1>3, <1>7, OthersAreAlone DEF Others
  <1>9. LookOK(th)'
    BY <1>3, <1>5, <1>6, <1>8 DEF LookOK, PopLooks
  <1>10. Pending' \subseteq Pending \cup {t}
    BY <1>3, OthersAreAlone DEF Pending, Others
  <1>11. offered \ Pending \subseteq (offered \ Pending)' /\ offered \subseteq offered'
    BY <1>1, <1>3, <1>10
  <1> QED  BY <1>2, <1>3, <1>4, <1>7, <1>9, <1>11, LookingKeepsInv

\* A consumer, or empty(), looks for a position.
LEMMA PopLooksKeepInv ==
    ASSUME RingInv, NEW th \in Threads,
           \/ PopBegins(th) \/ PopReads(th) \/ PopReloads(th) \/ PopClaimFails(th)
           \/ EmptyBegins(th) \/ EmptyReloads(th)
           \/ EmptyReads(th) /\ PopOrder(th) = "ahead"
    PROVE  RingInv'
  <1>1. TypeOK /\ CounterInv /\ LookOK(th) /\ (pc[th] = "idle" \/ PopLooks(th))
    BY DEF RingInv, LookInv, PopBegins, PopReads, PopReloads, PopClaimFails,
           EmptyBegins, EmptyReads, EmptyReloads, PopLooks
  <1>2. TypeOK'
    BY <1>1 DEF TypeOK, PopBegins, PopReads, PopReloads, PopClaimFails,
                EmptyBegins, EmptyReads, EmptyReloads, Loads, Goto, PCs, shared
  <1>3. /\ Others(th) /\ UNCHANGED <<shared, offered>>
        /\ pc'[th] \in {"popRead", "popReload", "popClaim", "emptyRead", "emptyReload"}
    BY <1>1 DEF TypeOK, PopBegins, PopReads, PopReloads, PopClaimFails,
                EmptyBegins, EmptyReads, EmptyReloads, Loads, Goto, Others
  <1>4. ~Owns(th) /\ ~Owns(th)' /\ ~PushLooks(th)' /\ PopLooks(th)'
    BY <1>1, <1>3 DEF Owns, PushLooks, PopLooks
  <1>5. E' = E /\ D' = D /\ \A s : Q(s)' = Q(s)
    BY <1>3 DEF shared, E, D, Q
  <1>6. D \in Nat
    BY <1>1, WithinReach
  <1>7. LookOK(th)'
    <2>1. CASE PopReads(th) \/ (EmptyReads(th) /\ PopOrder(th) = "ahead")
      <3>1. PopLooks(th) /\ P(th)' = P(th) /\ (pc'[th] = "popClaim" => PopOrder(th) = "equal")
        BY <1>1, <2>1 DEF PopReads, EmptyReads, Goto, P, TypeOK, PopLooks
      <3>2. pc'[th] = "popClaim" => Q(Slot(P(th))) = P(th) + 1
        BY <3>1, PopOrderIs
      <3> QED  BY <1>1, <1>3, <1>4, <1>5, <3>1, <3>2 DEF LookOK
    <2>2. CASE PopBegins(th) \/ PopReloads(th) \/ PopClaimFails(th) \/ EmptyBegins(th) \/ EmptyReloads(th)
      <3>1. P(th)' = D /\ pc'[th] \in {"popRead", "emptyRead"}
        BY <1>1, <2>2 DEF PopBegins, PopReloads, PopClaimFails, EmptyBegins, EmptyReloads,
                          Loads, Goto, P, D, TypeOK
      <3> QED  BY <1>4, <1>5, <1>6, <3>1 DEF LookOK
    <2> QED  BY <2>1, <2>2
  <1>8. offered \ Pending \subseteq (offered \ Pending)' /\ offered \subseteq offered'
    BY <1>3, <1>4, PendingShrinks
  <1> QED  BY <1>2, <1>3, <1>4, <1>7, <1>8, LookingKeepsInv

\* A call returns with nothing claimed.
LEMMA RefusalsKeepInv ==
    ASSUME RingInv, NEW th \in Threads,
           \/ PushRefused(th) \/ PopRefused(th)
           \/ EmptyReads(th) /\ PopOrder(th) # "ahead"
    PROVE  RingInv'
  <1>1. TypeOK /\ pc[th] \in {"pushRead", "popRead", "emptyRead"}
    BY DEF RingInv, PushRefused, PopRefused, EmptyReads
  <1>2. Return(th) /\ UNCHANGED <<shared, offered>>
    BY DEF PushRefused, PopRefused, EmptyReads
  <1>3. TypeOK'
    <2>1. 0 \in Positions
      BY ConstantFacts DEF Positions
    <2> QED  BY <1>1, <1>2, <2>1 DEF TypeOK, Return, Goto, PCs, shared
  <1>4. Others(th) /\ pc'[th] = "idle"
    BY <1>1, <1>2 DEF TypeOK, Return, Goto, Others
  <1>5. ~Owns(th) /\ ~Owns(th)' /\ ~PushLooks(th)' /\ LookOK(th)'
    BY <1>1, <1>4 DEF Owns, PushLooks, PopLooks, LookOK
  <1>6. offered \ Pending \subseteq (offered \ Pending)' /\ offered \subseteq offered'
    BY <1>2, <1>4, <1>5, PendingShrinks
  <1> QED  BY <1>2, <1>3, <1>4, <1>5, <1>6, LookingKeepsInv
\* Positions of one round have different slots, and an owner's is in the round.
LEMMA RoundFacts ==
    ASSUME RingInv
    PROVE  /\ \A a, b \in E - Capacity .. E - 1 : Slot(a) = Slot(b) => a = b
           /\ \A th \in Threads : Owns(th) =>
                /\ P(th) \in E - Capacity .. E - 1 /\ P(th) \in 0 .. E - 1
                /\ Here(th) = Slot(P(th)) /\ Slot(P(th)) \in Slots
                /\ Slot(P(th)) = Slot(E) => P(th) = E - Capacity
           /\ Slot(E) = Slot(E - Capacity)
  <1> USE DEF RingInv
  <1>1. E \in Nat /\ D \in Nat /\ E - Capacity <= D /\ D <= E
    BY WithinReach
  <1>2. \A a, b \in E - Capacity .. E - 1 : Slot(a) = Slot(b) => a = b
    BY <1>1, SlotFacts, ConstantFacts
  <1>3. Slot(E) = Slot(E - Capacity)
    <2>1. E - Capacity \in Int /\ (E - Capacity) + Capacity = E
      BY <1>1, ConstantFacts
    <2> QED  BY <2>1, SlotFacts
  <1>4. ASSUME NEW th \in Threads, Owns(th)
        PROVE  /\ P(th) \in E - Capacity .. E - 1 /\ P(th) \in 0 .. E - 1
               /\ Here(th) = Slot(P(th)) /\ Slot(P(th)) \in Slots
               /\ Slot(P(th)) = Slot(E) => P(th) = E - Capacity
    <2>1. P(th) \in Nat
      BY Distances DEF Positions
    <2>2. E - Capacity <= P(th) /\ P(th) < E
      BY <1>1, <1>4, <2>1, ConstantFacts DEF OwnerInv, OwnerOK, Owns, PushOwns, PopOwns
    <2>3. P(th) \in E - Capacity .. E - 1 /\ P(th) \in 0 .. E - 1 /\ P(th) <= E
      BY <1>1, <2>1, <2>2, ConstantFacts
    <2>4. Here(th) = Slot(P(th)) /\ Slot(P(th)) \in Slots
      BY <2>3, HereIsSlot
    <2>5. E - Capacity \in E - Capacity .. E - 1
      BY <1>1, ConstantFacts
    <2> QED  BY <1>2, <1>3, <2>3, <2>4, <2>5
  <1> QED  BY <1>2, <1>3, <1>4

\* An owner's slot is nobody else's.
LEMMA OwnersAreApart ==
    ASSUME RingInv, NEW th \in Threads, Owns(th), NEW u \in Threads, Owns(u), u # th
    PROVE  P(u) # P(th) /\ Slot(P(u)) # Slot(P(th))
  <1>1. P(u) # P(th)
    BY DEF RingInv, OwnerInv, OwnerOK
  <1> QED  BY <1>1, RoundFacts

\* A task is moved into or out of a slot that the thread owns.
LEMMA MovingKeepsInv ==
    ASSUME RingInv, NEW th \in Threads, Owns(th), TypeOK', Others(th),
           UNCHANGED <<enqueuePos, dequeuePos, sequence, offered>>,
           position'[th] = position[th],
           PushOwns(th)' <=> PushOwns(th), PopOwns(th)' <=> PopOwns(th),
           \A s \in Slots \ {Slot(P(th))} : data'[s] = data[s],
           pc'[th] = "pushPublish" => data'[Slot(P(th))] = task'[th] /\ task'[th] \in Tasks,
           pc'[th] = "popRelease" => task'[th] = promised'[th] /\ promised'[th] \in Tasks,
           pc'[th] \in {"pushPublish", "popRelease"}
    PROVE  RingInv'
  <1> USE DEF RingInv
  <1>1. E' = E /\ D' = D /\ (\A s : Q(s)' = Q(s)) /\ P(th)' = P(th)
    BY DEF E, D, Q, P
  <1>2. /\ ~PushLooks(th) /\ ~PopLooks(th) /\ ~PushLooks(th)' /\ ~PopLooks(th)'
        /\ Owns(th)' /\ pc'[th] \notin {"pushMove", "popMove", "pushClaim", "popClaim"}
    BY DEF Owns, PushLooks, PopLooks
  <1>3. \A u \in Threads : /\ P(u)' = P(u) /\ (Owns(u)' <=> Owns(u))
                           /\ (PushOwns(u)' <=> PushOwns(u)) /\ (PopOwns(u)' <=> PopOwns(u))
                           /\ (PushLooks(u)' <=> PushLooks(u)) /\ (PopLooks(u)' <=> PopLooks(u))
    BY <1>1, <1>2, OthersAreAlone
  <1>4. CounterInv'
    <2>1. Pending' = Pending
      BY <1>2, <1>3 DEF Pending, Others
    <2> QED  BY <1>1, <2>1 DEF CounterInv
  <1>5. P(th) \in E - Capacity .. E - 1
    BY RoundFacts
  <1>6. \A o \in E - Capacity .. E - 1 : o # P(th) => data'[Slot(o)] = data[Slot(o)]
    <2>1. \A o \in E - Capacity .. E - 1 : Slot(o) \in Slots
      <3>1. \A o \in E - Capacity .. E - 1 : o \in Int
        OBVIOUS
      <3> QED  BY <3>1, SlotFacts
    <2> QED  BY <1>5, <2>1, RoundFacts
  <1>7. WindowInv'
    <2> SUFFICES ASSUME NEW o \in E - Capacity .. E - 1
                 PROVE  \/ o >= D /\ Q(Slot(o)) = o /\ \E u \in Threads : PushOwns(u)' /\ P(u)' = o
                        \/ o >= D /\ Q(Slot(o)) = o + 1 /\ data'[Slot(o)] \in Tasks
                        \/ o < D /\ Q(Slot(o)) = o + 1 /\ \E u \in Threads : PopOwns(u)' /\ P(u)' = o
                        \/ o < D /\ Q(Slot(o)) = o + Capacity
      BY <1>1 DEF WindowInv
    <2>1. CASE o = P(th)
      <3>1. OwnerOK(th) /\ (PushOwns(th) \/ PopOwns(th))
        BY DEF OwnerInv, Owns, PushOwns, PopOwns
      <3>2. E \in Nat /\ D \in Nat
        BY WithinReach
      <3> QED  BY <1>1, <1>3, <2>1, <3>1, <3>2 DEF OwnerOK
    <2>2. CASE o # P(th)
      BY <1>3, <1>6, <2>2 DEF WindowInv
    <2> QED  BY <2>1, <2>2
  <1>8. OwnerInv'
    <2>1. \A u, v \in Threads : Owns(u)' /\ Owns(v)' /\ P(v)' = P(u)' => v = u
      BY <1>3 DEF OwnerInv, OwnerOK
    <2>2. OwnerOK(th)'
      <3>1. OwnerOK(th)
        BY DEF OwnerInv
      <3> QED  BY <1>1, <1>2, <2>1, <3>1 DEF OwnerOK, PushOwns, PopOwns
    <2>3. ASSUME NEW u \in Threads \ {th} PROVE OwnerOK(u)'
      <3>1. OwnerOK(u)
        BY DEF OwnerInv
      <3>2. Owns(u) => Slot(P(u)) \in Slots \ {Slot(P(th))}
        BY OwnersAreApart, RoundFacts
      <3>3. pc[u] \in {"pushPublish", "popMove"} => data'[Slot(P(u))] = data[Slot(P(u))]
        BY <3>2 DEF Owns
      <3> QED  BY <1>1, <1>3, <2>1, <3>1, <3>3 DEF OwnerOK, Others
    <2> QED  BY <2>2, <2>3 DEF OwnerInv
  <1>9. LookInv'
    <2>1. LookOK(th)'
      BY <1>2 DEF LookOK
    <2>2. ASSUME NEW u \in Threads \ {th} PROVE LookOK(u)'
      <3>1. LookOK(u)
        BY DEF LookInv
      <3>2. \A v \in Threads : PushLooks(v)' /\ PushLooks(u)' /\ task'[v] = task'[u] => v = u
        BY <1>2, <1>3, <3>1 DEF LookOK, Others
      <3> QED  BY <1>1, <1>3, <3>1, <3>2 DEF LookOK, Others
    <2> QED  BY <2>1, <2>2 DEF LookInv
  <1> QED  BY <1>4, <1>7, <1>8, <1>9

LEMMA MovesKeepInv ==
    ASSUME RingInv, NEW th \in Threads, PushMoves(th) \/ PopMoves(th)
    PROVE  RingInv'
  <1>1. TypeOK /\ Owns(th) /\ OwnerOK(th)
    BY DEF RingInv, OwnerInv, PushMoves, PopMoves, Owns
  <1>2. Here(th) = Slot(P(th)) /\ Slot(P(th)) \in Slots
    BY <1>1, RoundFacts
  <1>3. CASE PushMoves(th)
    <2>1. TypeOK' /\ Others(th) /\ pc'[th] = "pushPublish"
      BY <1>1, <1>2, <1>3 DEF TypeOK, PushMoves, Goto, PCs, Others
    <2>2. /\ PushOwns(th) /\ PushOwns(th)' /\ ~PopOwns(th) /\ ~PopOwns(th)'
          /\ task[th] \in Tasks
      BY <1>1, <1>3, <2>1 DEF PushMoves, PushOwns, PopOwns, OwnerOK
    <2>3. /\ \A s \in Slots \ {Slot(P(th))} : data'[s] = data[s]
          /\ data'[Slot(P(th))] = task'[th] /\ task'[th] = task[th]
      BY <1>1, <1>2, <1>3 DEF TypeOK, PushMoves
    <2> QED  BY <1>1, <1>3, <2>1, <2>2, <2>3, MovingKeepsInv DEF PushMoves
  <1>4. CASE PopMoves(th)
    <2>1. TypeOK' /\ Others(th) /\ pc'[th] = "popRelease"
      BY <1>1, <1>2, <1>4 DEF TypeOK, PopMoves, Goto, PCs, Others
    <2>2. /\ PopOwns(th) /\ PopOwns(th)' /\ ~PushOwns(th) /\ ~PushOwns(th)'
          /\ data[Slot(P(th))] = promised[th] /\ promised[th] \in Tasks
      BY <1>1, <1>4, <2>1 DEF PopMoves, PushOwns, PopOwns, OwnerOK
    <2>3. /\ \A s \in Slots \ {Slot(P(th))} : data'[s] = data[s]
          /\ task'[th] = data[Slot(P(th))] /\ promised'[th] = promised[th]
      BY <1>1, <1>2, <1>4 DEF TypeOK, PopMoves
    <2> QED  BY <1>1, <1>4, <2>1, <2>2, <2>3, MovingKeepsInv DEF PopMoves
  <1> QED  BY <1>3, <1>4
\* A thread gives its slot to the next one.
LEMMA ReleasingKeepsInv ==
    ASSUME RingInv, NEW th \in Threads, NEW p \in Nat, NEW q \in Nat, P(th) = p, Owns(th), TypeOK', Others(th),
           pc'[th] = "idle", UNCHANGED <<enqueuePos, dequeuePos, data, offered>>,
           \A s \in Slots \ {Slot(p)} : Q(s)' = Q(s),
           Q(Slot(p))' = q,
           \/ pc[th] = "pushPublish" /\ q = p + 1
           \/ pc[th] = "popRelease" /\ q = p + Capacity
    PROVE  RingInv'
  <1> USE DEF RingInv
  <1>1. E' = E /\ D' = D /\ E \in Nat /\ D \in Nat /\ D <= E
    BY WithinReach DEF E, D
  <1>2. ~PushOwns(th)' /\ ~PopOwns(th)' /\ ~Owns(th)' /\ ~PushLooks(th)' /\ ~PopLooks(th)' /\ ~PushLooks(th)
    BY DEF Owns, PushOwns, PopOwns, PushLooks, PopLooks
  <1>3. /\ p \in E - Capacity .. E - 1 /\ p \in 0 .. E - 1 /\ Slot(p) \in Slots
        /\ Slot(p) = Slot(E) => p = E - Capacity
    BY RoundFacts
  <1>4. OwnerOK(th) /\ (PushOwns(th) <=> pc[th] = "pushPublish") /\ (PopOwns(th) <=> pc[th] = "popRelease")
    BY DEF OwnerInv, PushOwns, PopOwns
  <1>5. /\ pc[th] = "pushPublish" => D <= p /\ Q(Slot(p)) = p
        /\ pc[th] = "popRelease" => p < D /\ Q(Slot(p)) = p + 1
    BY <1>4 DEF OwnerOK
  <1>6. Q(Slot(p)) < q /\ q < E + Capacity
    BY <1>1, <1>3, <1>5, ConstantFacts
  <1>7. \A s \in Slots : Q(s) \in Nat /\ Q(s)' \in Nat /\ Q(s) <= Q(s)'
    <2>1. \A s \in Slots : Q(s) \in Nat
      BY Distances DEF Positions
    <2> QED  BY <1>6, <2>1
  <1>8. CounterInv'
    <2>1. Pending' = Pending
      BY <1>2, OthersAreAlone DEF Pending, Others
    <2>2. \A s \in Slots : Q(s)' < E + Capacity
      BY <1>3, <1>6 DEF CounterInv
    <2> QED  BY <1>1, <2>1, <2>2 DEF CounterInv
  <1>9. \A o \in E - Capacity .. E - 1 : o \in Int /\ Slot(o) \in Slots
    <2>1. \A o \in E - Capacity .. E - 1 : o \in Int
      OBVIOUS
    <2> QED  BY <2>1, SlotFacts
  <1>10. WindowInv'
    <2> SUFFICES ASSUME NEW o \in E - Capacity .. E - 1
                 PROVE  \/ o >= D /\ Q(Slot(o))' = o /\ \E u \in Threads : PushOwns(u)' /\ P(u)' = o
                        \/ o >= D /\ Q(Slot(o))' = o + 1 /\ data[Slot(o)] \in Tasks
                        \/ o < D /\ Q(Slot(o))' = o + 1 /\ \E u \in Threads : PopOwns(u)' /\ P(u)' = o
                        \/ o < D /\ Q(Slot(o))' = o + Capacity
      BY <1>1 DEF WindowInv
    <2>1. CASE o = p
      <3>1. pc[th] = "pushPublish" => data[Slot(o)] \in Tasks
        BY <1>4, <2>1 DEF OwnerOK
      <3> QED  BY <1>1, <1>3, <1>5, <2>1, <3>1
    <2>2. CASE o # p
      <3>1. Slot(o) \in Slots \ {Slot(p)}
        BY <1>3, <1>9, <2>2, RoundFacts
      <3>2. Q(Slot(o))' = Q(Slot(o))
        BY <3>1
      <3>3. \A u \in Threads : P(u) = o => u # th
        BY <2>2
      <3> QED  BY <3>2, <3>3, OthersAreAlone DEF WindowInv
    <2> QED  BY <2>1, <2>2
  <1>11. OwnerInv'
    <2>1. OwnerOK(th)'
      BY <1>2 DEF OwnerOK, PushOwns, PopOwns
    <2>2. ASSUME NEW u \in Threads \ {th} PROVE OwnerOK(u)'
      <3>1. OwnerOK(u)
        BY DEF OwnerInv
      <3>2. \A s \in Slots : Owns(u) /\ s = Slot(P(u)) => Q(s)' = Q(s)
        BY OwnersAreApart, RoundFacts
      <3>4. \A v \in Threads : Owns(u)' /\ Owns(v)' /\ P(v)' = P(u)' => v = u
        BY <1>2, <3>1, OthersAreAlone DEF OwnerOK
      <3>5. (PushOwns(u) => Owns(u)) /\ (PopOwns(u) => Owns(u))
        BY DEF Owns, PushOwns, PopOwns
      <3>6. Owns(u) => Slot(P(u)) \in Slots
        BY RoundFacts
      <3>7. P(u)' = P(u) /\ pc'[u] = pc[u] /\ task'[u] = task[u] /\ promised'[u] = promised[u]
        BY OthersAreAlone DEF Others
      <3> QED  BY <1>1, <3>1, <3>2, <3>4, <3>5, <3>6, <3>7, OthersAreAlone DEF OwnerOK
    <2> QED  BY <2>1, <2>2 DEF OwnerInv
  <1>12. LookInv'
    <2>1. LookOK(th)'
      BY <1>2 DEF LookOK, PushLooks, PopLooks
    <2>2. ASSUME NEW u \in Threads \ {th} PROVE LookOK(u)'
      <3>1. LookOK(u)
        BY DEF LookInv
      <3>2. \A v \in Threads : PushLooks(v)' /\ PushLooks(u)' /\ task'[v] = task'[u] => v = u
        BY <1>2, <3>1, OthersAreAlone DEF LookOK, Others
      <3>3. P(u) \in Nat
        BY Distances DEF Positions
      <3>4. PushLooks(u) => P(u) \in 0 .. E /\ Slot(P(u)) \in Slots
        BY PushOrderIs
      <3>5. PopLooks(u) => P(u) \in 0 .. D /\ Slot(P(u)) \in Slots
        BY PopOrderIs
      <3>6. \A s \in Slots : s = Slot(E) /\ Q(s) = E => Q(s)' = E
        <4>1. Slot(E) \in Slots
          BY <1>1, SlotFacts
        <4>2. ASSUME Q(Slot(E)) = E PROVE Slot(E) # Slot(p)
          BY <1>1, <1>3, <1>5, <4>2, ConstantFacts
        <4> QED  BY <4>1, <4>2
      <3>7. \A s \in Slots : s = Slot(D) /\ Q(s) = D + 1 => Q(s)' = D + 1
        <4>1. Slot(D) \in Slots
          BY <1>1, SlotFacts
        <4>2. ASSUME Q(Slot(D)) = D + 1, Slot(D) = Slot(p) PROVE FALSE
          <5>1. CASE D = E
            BY <1>1, <1>3, <1>5, <4>2, <5>1, ConstantFacts
          <5>2. CASE D # E
            <6>1. D \in E - Capacity .. E - 1
              BY <1>1, <5>2, WithinReach, ConstantFacts
            <6>2. p = D
              BY <1>3, <4>2, <6>1, RoundFacts
            <6> QED  BY <1>1, <1>5, <4>2, <6>2
          <5> QED  BY <5>1, <5>2
        <4> QED  BY <4>1, <4>2
      <3>8. \A s \in Slots : PushLooks(u) /\ P(u) < E /\ s = Slot(P(u)) => Q(s)' >= P(u)
        BY <1>7, <3>1, <3>3, <3>4 DEF LookOK
      <3>9. \A s \in Slots : PopLooks(u) /\ P(u) < D /\ s = Slot(P(u)) => Q(s)' >= P(u) + 1
        BY <1>7, <3>1, <3>3, <3>5 DEF LookOK
      <3>10. Slot(E) \in Slots /\ Slot(D) \in Slots
        BY <1>1, SlotFacts
      <3>11. P(u)' = P(u) /\ pc'[u] = pc[u] /\ task'[u] = task[u] /\ promised'[u] = promised[u]
        BY OthersAreAlone DEF Others
      <3> QED  BY <1>1, <3>1, <3>2, <3>4, <3>5, <3>6, <3>7, <3>8, <3>9, <3>10, <3>11, OthersAreAlone DEF LookOK
    <2> QED  BY <2>1, <2>2 DEF LookInv
  <1> QED  BY <1>8, <1>10, <1>11, <1>12

LEMMA ReleasesKeepInv ==
    ASSUME RingInv, NEW th \in Threads, PushPublishes(th) \/ PopReleases(th)
    PROVE  RingInv'
  <1> DEFINE q == IF PushPublishes(th) THEN P(th) + 1 ELSE P(th) + Capacity
  <1>1. TypeOK /\ CounterInv /\ Owns(th)
    BY DEF RingInv, PushPublishes, PopReleases, Owns
  <1>2. Here(th) = Slot(P(th)) /\ Slot(P(th)) \in Slots /\ P(th) \in 0 .. E - 1 /\ E \in Nat
    BY <1>1, RoundFacts, WithinReach
  <1>3. P(th) \in Positions /\ position[th] = Pos(P(th)) /\ P(th) \in 0 .. E
    BY <1>1, <1>2, Distances
  <1>4. q \in Nat /\ q \in Positions
    BY <1>1, <1>2, <1>3, WithinReach, ConstantFacts
  <1>5. sequence' = [sequence EXCEPT ![Slot(P(th))] = Pos(q)]
    <2>1. Wrap(Pos(P(th)) + 1) = Pos(P(th) + 1)
      BY <1>1, <1>3, PosStep, WithinReach
    <2>2. Wrap(Pos(P(th)) + Capacity) = Pos(P(th) + Capacity)
      BY <1>1, <1>3, PosStep, WithinReach, ConstantFacts
    <2> QED  BY <1>2, <1>3, <2>1, <2>2 DEF PushPublishes, PopReleases, Released
  <1>6. Return(th) /\ UNCHANGED <<enqueuePos, dequeuePos, data, offered>>
    BY DEF PushPublishes, PopReleases
  <1>7. Pos(q) \in Positions /\ Off(Pos(q)) = q /\ 0 \in Positions
    BY <1>4, PosCases, OffPos, ConstantFacts DEF Positions
  <1>8. \/ pc[th] = "pushPublish" /\ q = P(th) + 1
        \/ pc[th] = "popRelease" /\ q = P(th) + Capacity
    BY DEF PushPublishes, PopReleases
  <1> HIDE DEF q
  <1>9. TypeOK'
    BY <1>1, <1>2, <1>5, <1>6, <1>7 DEF TypeOK, Return, Goto, PCs
  <1>10. Others(th) /\ pc'[th] = "idle"
    BY <1>1, <1>6 DEF TypeOK, Return, Goto, Others
  <1>11. \E p \in Nat : p = P(th)
    BY <1>2
  <1>12. PICK p \in Nat : p = P(th)
    BY <1>11
  <1>13. Q(Slot(p))' = q /\ \A s \in Slots \ {Slot(p)} : Q(s)' = Q(s)
    <2>1. sequence'[Slot(p)] = Pos(q) /\ \A s \in Slots \ {Slot(p)} : sequence'[s] = sequence[s]
      BY <1>1, <1>2, <1>5, <1>12 DEF TypeOK
    <2> QED  BY <1>7, <2>1 DEF Q
  <1> QED  BY <1>1, <1>4, <1>6, <1>8, <1>9, <1>10, <1>12, <1>13, ReleasingKeepsInv
\* A ready slot tells that the round before is over: the ring is not full.
LEMMA ReadyIsFree ==
    ASSUME RingInv, Q(Slot(E)) = E
    PROVE  /\ E - Capacity < D
           /\ \A u \in Threads : Owns(u) => P(u) > E - Capacity
  <1> USE DEF RingInv
  <1>1. E \in Nat /\ D \in Nat /\ E - Capacity \in E - Capacity .. E - 1
    BY WithinReach, ConstantFacts
  <1>2. Q(Slot(E - Capacity)) = E
    BY RoundFacts
  <1>3. E - Capacity < D
    BY <1>1, <1>2, ConstantFacts DEF WindowInv
  <1>4. ASSUME NEW u \in Threads, Owns(u) PROVE P(u) > E - Capacity
    <2>1. OwnerOK(u) /\ P(u) \in E - Capacity .. E - 1
      BY <1>4, RoundFacts DEF OwnerInv
    <2>2. P(u) = E - Capacity => Q(Slot(P(u))) = E
      BY <1>2
    <2>3. Q(Slot(P(u))) = P(u) \/ Q(Slot(P(u))) = P(u) + 1
      BY <1>4, <2>1 DEF OwnerOK, Owns, PushOwns, PopOwns
    <2> QED  BY <1>1, <2>1, <2>2, <2>3, ConstantFacts
  <1> QED  BY <1>3, <1>4

\* A producer claims the next position.
LEMMA PushClaimsKeepsInv ==
    ASSUME RingInv, NEW th \in Threads, PushClaims(th)
    PROVE  RingInv'
  <1> USE DEF RingInv
  <1>1. /\ pc[th] = "pushClaim" /\ pc'[th] = "pushMove" /\ position' = position /\ task' = task
        /\ promised' = promised /\ offered' = offered /\ data' = data /\ dequeuePos' = dequeuePos
        /\ sequence' = sequence /\ pc' = [pc EXCEPT ![th] = "pushMove"]
    BY DEF PushClaims, Goto, TypeOK
  <1>2. P(th) = E /\ E \in Nat /\ D \in Nat /\ D <= E
    BY WithinReach DEF PushClaims, MayClaim, P, E
  <1>3. LookOK(th) /\ PushLooks(th) /\ ~Owns(th) /\ ~PushOwns(th) /\ ~PopOwns(th)
    BY <1>1 DEF LookInv, PushLooks, Owns, PushOwns, PopOwns
  <1>4. Q(Slot(E)) = E
    BY <1>1, <1>2, <1>3 DEF LookOK
  <1>5. E' = E + 1
    <2>1. enqueuePos' = Wrap(Pos(E) + 1) /\ E \in Positions /\ E + 1 \in Positions
      BY <1>2, Distances, WithinReach DEF PushClaims, MayClaim
    <2>2. enqueuePos' = Pos(E + 1)
      BY <2>1, PosStep
    <2>3. Off(Pos(E + 1)) = E + 1
      BY <2>1, OffPos
    <2> QED  BY <2>2, <2>3 DEF E
  <1>6. TypeOK'
    <2>1. enqueuePos' \in Positions
      BY WrapCases, ConstantFacts DEF PushClaims, MayClaim, TypeOK, Positions
    <2> QED  BY <1>1, <2>1 DEF TypeOK, PCs
  <1>7. D' = D /\ (\A s : Q(s)' = Q(s)) /\ P(th)' = P(th) /\ Others(th)
    BY <1>1 DEF D, Q, P, Others, TypeOK
  <1>8. Owns(th)' /\ PushOwns(th)' /\ ~PopOwns(th)' /\ ~PushLooks(th)' /\ ~PopLooks(th)'
    BY <1>1 DEF Owns, PushOwns, PopOwns, PushLooks, PopLooks
  <1>9. task[th] \in offered /\ task[th] \in Tasks
    BY <1>3 DEF LookOK, TypeOK
  <1>10. CounterInv'
    <2>1. (offered \ Pending)' = (offered \ Pending) \cup {task[th]} /\ task[th] \in Pending
      <3>1. task[th] \in Pending /\ task[th] \notin Pending'
        BY <1>1, <1>3, <1>8, <1>9, <1>7, OthersAreAlone DEF Pending, LookOK
      <3>2. \A t \in Tasks : t # task[th] => (t \in Pending' <=> t \in Pending)
        BY <1>1, <1>7, <1>8, OthersAreAlone DEF Pending, Others
      <3>3. offered \subseteq Tasks
        BY DEF TypeOK
      <3> QED  BY <1>1, <1>9, <3>1, <3>2, <3>3
    <2>2. Cardinality((offered \ Pending)') = Cardinality(offered \ Pending) + 1
      BY <2>1, TasksAreFinite, FS_AddElement
    <2>3. \A s \in Slots : Q(s) \in Nat /\ Q(s) < E + Capacity
      BY Distances DEF CounterInv, Positions
    <2>4. E + 1 <= D + Capacity
      BY <1>2, <1>4, ReadyIsFree, ConstantFacts
    <2>5. E <= Cardinality(offered \ Pending) /\ Cardinality(offered \ Pending) \in Nat
      BY TasksAreFinite DEF CounterInv
    <2>6. \A s \in Slots : Q(s) < (E + 1) + Capacity
      BY <1>2, <2>3, ConstantFacts
    <2> QED  BY <1>2, <1>5, <1>7, <2>2, <2>4, <2>5, <2>6 DEF CounterInv
  <1>11. WindowInv'
    <2> SUFFICES ASSUME NEW o \in (E + 1) - Capacity .. (E + 1) - 1
                 PROVE  \/ o >= D /\ Q(Slot(o)) = o /\ \E u \in Threads : PushOwns(u)' /\ P(u)' = o
                        \/ o >= D /\ Q(Slot(o)) = o + 1 /\ data[Slot(o)] \in Tasks
                        \/ o < D /\ Q(Slot(o)) = o + 1 /\ \E u \in Threads : PopOwns(u)' /\ P(u)' = o
                        \/ o < D /\ Q(Slot(o)) = o + Capacity
      BY <1>1, <1>5, <1>7 DEF WindowInv
    <2>1. CASE o = E
      BY <1>2, <1>4, <1>7, <1>8, <2>1
    <2>2. CASE o # E
      <3>1. o \in E - Capacity .. E - 1
        BY <1>2, <2>2, ConstantFacts
      <3>2. \A u \in Threads : (PushOwns(u) => PushOwns(u)' /\ P(u)' = P(u))
                               /\ (PopOwns(u) => PopOwns(u)' /\ P(u)' = P(u))
        BY <1>3, <1>7, OthersAreAlone
      <3> QED  BY <3>1, <3>2 DEF WindowInv
    <2> QED  BY <2>1, <2>2
  <1>12. OwnerInv'
    <2>1. OwnerOK(th)'
      <3>1. \A u \in Threads : Owns(u)' /\ P(u)' = P(th)' => u = th
        BY <1>2, <1>7, OthersAreAlone, RoundFacts
      <3> QED  BY <1>1, <1>2, <1>4, <1>5, <1>7, <1>8, <1>9, <3>1 DEF OwnerOK
    <2>2. ASSUME NEW u \in Threads \ {th} PROVE OwnerOK(u)'
      <3>1. OwnerOK(u)
        BY DEF OwnerInv
      <3>2. P(u)' = P(u) /\ pc'[u] = pc[u] /\ task'[u] = task[u] /\ promised'[u] = promised[u]
        BY <1>7, OthersAreAlone DEF Others
      <3>3. Owns(u) => P(u) > E - Capacity /\ P(u) \in 0 .. E - 1
        BY <1>4, ReadyIsFree, RoundFacts
      <3>4. \A v \in Threads : Owns(u)' /\ Owns(v)' /\ P(v)' = P(u)' => v = u
        BY <1>2, <1>7, <3>1, <3>2, <3>3, OthersAreAlone DEF OwnerOK
      <3>5. (PushOwns(u) => Owns(u)) /\ (PopOwns(u) => Owns(u))
        BY DEF Owns, PushOwns, PopOwns
      <3>6. Owns(u) => (E + 1) - Capacity <= P(u) /\ P(u) < E + 1
        BY <1>2, <3>3, ConstantFacts
      <3> QED  BY <1>1, <1>5, <1>7, <3>1, <3>2, <3>4, <3>5, <3>6, OthersAreAlone DEF OwnerOK
    <2> QED  BY <2>1, <2>2 DEF OwnerInv
  <1>13. LookInv'
    <2>1. LookOK(th)'
      BY <1>1, <1>8 DEF LookOK
    <2>2. ASSUME NEW u \in Threads \ {th} PROVE LookOK(u)'
      <3>1. LookOK(u)
        BY DEF LookInv
      <3>2. P(u)' = P(u) /\ pc'[u] = pc[u] /\ task'[u] = task[u] /\ P(u) \in Nat
        BY <1>7, OthersAreAlone, Distances DEF Others, Positions
      <3>3. \A v \in Threads : PushLooks(v)' /\ PushLooks(u)' /\ task'[v] = task'[u] => v = u
        BY <1>1, <1>7, <1>8, <3>1, OthersAreAlone DEF LookOK
      <3>4. PushLooks(u) => P(u) <= E + 1 /\ P(u) # E + 1 /\ Q(Slot(P(u))) >= P(u)
        BY <1>2, <1>4, <3>1, <3>2 DEF LookOK
      <3>5. pc[u] = "pushClaim" => PushLooks(u)
        BY DEF PushLooks
      <3> QED  BY <1>1, <1>5, <1>7, <3>1, <3>2, <3>3, <3>4, <3>5, OthersAreAlone DEF LookOK
    <2> QED  BY <2>1, <2>2 DEF LookInv
  <1> QED  BY <1>6, <1>10, <1>11, <1>12, <1>13
\* A filled slot at the head: the ring is not empty, and the task is in it.
LEMMA FilledIsHead ==
    ASSUME RingInv, Q(Slot(D)) = D + 1
    PROVE  /\ D < E /\ data[Slot(D)] \in Tasks
           /\ \A u \in Threads : PushOwns(u) => P(u) > D
           /\ Contents # <<>> /\ Head(Contents) = data[Slot(D)]
  <1> USE DEF RingInv
  <1>1. E \in Nat /\ D \in Nat /\ D <= E /\ E - Capacity <= D
    BY WithinReach
  <1>2. D < E
    <2>1. E - Capacity \in E - Capacity .. E - 1 /\ D = E => Q(Slot(E - Capacity)) = E + 1
      BY RoundFacts
    <2>2. E - Capacity \in E - Capacity .. E - 1
      BY <1>1, ConstantFacts
    <2> QED  BY <1>1, <2>1, <2>2, ConstantFacts DEF WindowInv
  <1>3. D \in E - Capacity .. E - 1
    BY <1>1, <1>2, ConstantFacts
  <1>4. data[Slot(D)] \in Tasks
    BY <1>1, <1>3, ConstantFacts DEF WindowInv
  <1>5. ASSUME NEW u \in Threads, PushOwns(u) PROVE P(u) > D
    <2>1. D <= P(u) /\ Q(Slot(P(u))) = P(u)
      BY <1>5 DEF OwnerInv, OwnerOK
    <2>2. P(u) \in Nat
      BY Distances DEF Positions
    <2>3. P(u) # D
      BY <1>1, <2>1
    <2> QED  BY <1>1, <2>1, <2>2, <2>3
  <1>6. Wrap(enqueuePos - dequeuePos) = E - D
    BY <1>1, <1>2, Distances, PosDifference
  <1>7. Contents = [i \in 1 .. E - D |-> TaskAt(Wrap(dequeuePos + i - 1))]
    BY <1>6 DEF Contents
  <1>8. E - D \in Nat /\ 1 \in 1 .. E - D
    BY <1>1, <1>2
  <1>9. Contents # <<>> /\ Head(Contents) = Contents[1]
    BY <1>7, <1>8
  <1>10. Wrap(dequeuePos + 1 - 1) = dequeuePos
    BY WrapCases, ConstantFacts DEF TypeOK, Positions
  <1>11. Contents[1] = TaskAt(dequeuePos)
    BY <1>7, <1>8, <1>10
  <1>12. TaskAt(dequeuePos) = data[Slot(D)]
    <2>1. {u \in Threads : pc[u] = "pushMove" /\ position[u] = dequeuePos} = {}
      BY <1>1, <1>5 DEF PushOwns, P, D
    <2>2. SlotOf(dequeuePos) = Slot(D)
      BY <1>1, Distances, WithinReach
    <2> QED  BY <2>1, <2>2 DEF TaskAt
  <1> QED  BY <1>2, <1>4, <1>5, <1>9, <1>11, <1>12

\* A consumer claims the head.
LEMMA PopClaimsKeepsInv ==
    ASSUME RingInv, NEW th \in Threads, PopClaims(th)
    PROVE  RingInv'
  <1> USE DEF RingInv
  <1>1. /\ pc[th] = "popClaim" /\ pc'[th] = "popMove" /\ position' = position /\ task' = task
        /\ offered' = offered /\ data' = data /\ enqueuePos' = enqueuePos
        /\ sequence' = sequence /\ pc' = [pc EXCEPT ![th] = "popMove"]
    BY DEF PopClaims, Goto, TypeOK
  <1>2. P(th) = D /\ E \in Nat /\ D \in Nat /\ D <= E /\ E - Capacity <= D
    BY WithinReach DEF PopClaims, MayClaim, P, D
  <1>3. LookOK(th) /\ PopLooks(th) /\ ~PushLooks(th) /\ ~Owns(th) /\ ~PushOwns(th) /\ ~PopOwns(th)
    BY <1>1 DEF LookInv, PushLooks, PopLooks, Owns, PushOwns, PopOwns
  <1>4. Q(Slot(D)) = D + 1
    BY <1>1, <1>2, <1>3 DEF LookOK
  <1>5. D' = D + 1
    <2>1. dequeuePos' = Wrap(Pos(D) + 1) /\ D \in Positions /\ D + 1 \in Positions
      BY <1>2, Distances, WithinReach DEF PopClaims, MayClaim
    <2>2. dequeuePos' = Pos(D + 1)
      BY <2>1, PosStep
    <2>3. Off(Pos(D + 1)) = D + 1
      BY <2>1, OffPos
    <2> QED  BY <2>2, <2>3 DEF D
  <1>6. promised' = [promised EXCEPT ![th] = data[Slot(D)]] /\ data[Slot(D)] \in Tasks /\ D < E
    BY <1>4, FilledIsHead DEF PopClaims
  <1>7. TypeOK'
    <2>1. dequeuePos' \in Positions
      BY WrapCases, ConstantFacts DEF PopClaims, MayClaim, TypeOK, Positions
    <2> QED  BY <1>1, <1>6, <2>1 DEF TypeOK, PCs
  <1>8. E' = E /\ (\A s : Q(s)' = Q(s)) /\ P(th)' = P(th) /\ Others(th) /\ promised'[th] = data[Slot(D)]
    BY <1>1, <1>6 DEF E, Q, P, Others, TypeOK
  <1>9. Owns(th)' /\ ~PushOwns(th)' /\ PopOwns(th)' /\ ~PushLooks(th)' /\ ~PopLooks(th)'
    BY <1>1 DEF Owns, PushOwns, PopOwns, PushLooks, PopLooks
  <1>10. CounterInv'
    <2>1. Pending' = Pending
      BY <1>1, <1>3, <1>8, <1>9, OthersAreAlone DEF Pending
    <2> QED  BY <1>1, <1>2, <1>5, <1>6, <1>8, <2>1, ConstantFacts DEF CounterInv
  <1>11. WindowInv'
    <2> SUFFICES ASSUME NEW o \in E - Capacity .. E - 1
                 PROVE  \/ o >= D + 1 /\ Q(Slot(o)) = o /\ \E u \in Threads : PushOwns(u)' /\ P(u)' = o
                        \/ o >= D + 1 /\ Q(Slot(o)) = o + 1 /\ data[Slot(o)] \in Tasks
                        \/ o < D + 1 /\ Q(Slot(o)) = o + 1 /\ \E u \in Threads : PopOwns(u)' /\ P(u)' = o
                        \/ o < D + 1 /\ Q(Slot(o)) = o + Capacity
      BY <1>1, <1>5, <1>8 DEF WindowInv
    <2>1. CASE o = D
      BY <1>2, <1>4, <1>8, <1>9, <2>1
    <2>2. CASE o # D
      <3>1. \A u \in Threads : (PushOwns(u) => PushOwns(u)' /\ P(u)' = P(u))
                               /\ (PopOwns(u) => PopOwns(u)' /\ P(u)' = P(u))
        BY <1>3, <1>8, OthersAreAlone
      <3>2. (o >= D => o >= D + 1) /\ (o < D => o < D + 1)
        BY <1>2, <2>2
      <3> QED  BY <3>1, <3>2 DEF WindowInv
    <2> QED  BY <2>1, <2>2
  <1>12. OwnerInv'
    <2>1. OwnerOK(th)'
      <3>1. ASSUME NEW u \in Threads, Owns(u)', P(u)' = P(th)', u # th PROVE FALSE
        <4>1. Owns(u) /\ P(u) = D
          BY <1>2, <1>8, <3>1, OthersAreAlone
        <4>2. PopOwns(u) => P(u) < D
          BY DEF OwnerInv, OwnerOK
        <4>3. PushOwns(u) => P(u) > D
          BY <1>4, FilledIsHead
        <4> QED  BY <1>2, <4>1, <4>2, <4>3 DEF Owns, PushOwns, PopOwns
      <3> QED  BY <1>1, <1>2, <1>4, <1>5, <1>6, <1>8, <1>9, <3>1 DEF OwnerOK
    <2>2. ASSUME NEW u \in Threads \ {th} PROVE OwnerOK(u)'
      <3>1. OwnerOK(u)
        BY DEF OwnerInv
      <3>2. P(u)' = P(u) /\ pc'[u] = pc[u] /\ task'[u] = task[u] /\ promised'[u] = promised[u] /\ P(u) \in Nat
        BY <1>8, OthersAreAlone, Distances DEF Others, Positions
      <3>3. PushOwns(u) => D + 1 <= P(u)
        BY <1>2, <1>4, <3>2, FilledIsHead
      <3>4. PopOwns(u) => P(u) < D + 1
        BY <1>2, <3>1, <3>2 DEF OwnerOK
      <3>5. Owns(u) => P(u) # D
        BY <1>2, <1>4, <3>1, <3>2, FilledIsHead DEF OwnerOK, Owns, PushOwns, PopOwns
      <3>6. \A v \in Threads : Owns(u)' /\ Owns(v)' /\ P(v)' = P(u)' => v = u
        BY <1>2, <1>8, <3>1, <3>2, <3>5, OthersAreAlone DEF OwnerOK
      <3> QED  BY <1>1, <1>5, <1>8, <3>1, <3>2, <3>3, <3>4, <3>6, OthersAreAlone DEF OwnerOK
    <2> QED  BY <2>1, <2>2 DEF OwnerInv
  <1>13. LookInv'
    <2>1. LookOK(th)'
      BY <1>1, <1>9 DEF LookOK
    <2>2. ASSUME NEW u \in Threads \ {th} PROVE LookOK(u)'
      <3>1. LookOK(u)
        BY DEF LookInv
      <3>2. P(u)' = P(u) /\ pc'[u] = pc[u] /\ task'[u] = task[u] /\ P(u) \in Nat
        BY <1>8, OthersAreAlone, Distances DEF Others, Positions
      <3>3. \A v \in Threads : PushLooks(v)' /\ PushLooks(u)' /\ task'[v] = task'[u] => v = u
        BY <1>1, <1>8, <1>9, <3>1, OthersAreAlone DEF LookOK
      <3>4. PopLooks(u) => P(u) <= D + 1 /\ P(u) # D + 1 /\ Q(Slot(P(u))) >= P(u) + 1
        BY <1>2, <1>4, <3>1, <3>2 DEF LookOK
      <3>5. pc[u] = "popClaim" => PopLooks(u)
        BY DEF PopLooks
      <3> QED  BY <1>1, <1>5, <1>8, <3>1, <3>2, <3>3, <3>4, <3>5, OthersAreAlone DEF LookOK
    <2> QED  BY <2>1, <2>2 DEF LookInv
  <1> QED  BY <1>7, <1>10, <1>11, <1>12, <1>13
\* Every slot has a position in the first round.
LEMMA SlotsAreReached ==
    ASSUME NEW s \in Slots
    PROVE  \E o \in 0 .. Capacity - 1 : Slot(o) = s
  <1>1. /\ Slot(0) \in 0 .. Capacity - 1 /\ s \in 0 .. Capacity - 1
        /\ \E k \in Int : Start + 0 = Capacity * k + Slot(0)
    BY SlotQuotient DEF Slots
  <1>2. PICK k \in Int : Start + 0 = Capacity * k + Slot(0)
    BY <1>1
  <1>3. CASE Slot(0) <= s
    <2>1. s - Slot(0) \in 0 .. Capacity - 1 /\ Start + (s - Slot(0)) = Capacity * k + s
      BY <1>1, <1>2, <1>3, ConstantFacts
    <2>2. Slot(s - Slot(0)) = s
      BY <1>1, <2>1, SlotRemainder
    <2> QED  BY <2>1, <2>2
  <1>4. CASE Slot(0) > s
    <2> DEFINE o == (s - Slot(0)) + Capacity
    <2>1. o \in 0 .. Capacity - 1
      BY <1>1, <1>4, ConstantFacts
    <2>2. Capacity * (k + 1) = Capacity * k + Capacity
      BY ConstantFacts
    <2>3. Start + o = Capacity * (k + 1) + s
      BY <1>1, <1>2, <2>2, ConstantFacts
    <2>4. Slot(o) = s
      <3> HIDE DEF o
      <3> QED  BY <1>1, <2>1, <2>3, SlotRemainder
    <2> QED  BY <2>1, <2>4
  <1> QED  BY <1>1, <1>3, <1>4, ConstantFacts

LEMMA InitIsFresh ==
    ASSUME Init
    PROVE  TypeOK /\ E = 0 /\ D = 0 /\ \A o \in 0 .. Capacity - 1 : Q(Slot(o)) = o
  <1>1. Start \in Positions /\ 0 \in Positions
    BY ConstantFacts DEF Positions
  <1>2. Off(Start) = 0
    BY <1>1, OffCases, ConstantFacts DEF Positions
  <1>3. \A o \in 0 .. Capacity - 1 : o \in Reach /\ o \in Positions /\ o \in Int
    BY ConstantFacts DEF Reach, Positions
  <1>4. ASSUME NEW s \in Slots
        PROVE  sequence[s] \in Positions /\ \A o \in 0 .. Capacity - 1 : Slot(o) = s => sequence[s] = Pos(o)
    <2> DEFINE Fits(p) == SlotOf(Wrap(p)) = s
               p0 == CHOOSE p \in Start .. Start + Capacity - 1 : Fits(p)
    <2>1. sequence[s] = Wrap(p0)
      BY DEF Init
    <2>2. PICK o \in 0 .. Capacity - 1 : Slot(o) = s
      BY SlotsAreReached
    <2>3. Start + o \in Start .. Start + Capacity - 1 /\ Fits(Start + o)
      BY <1>3, <2>2, SlotOfPos, ConstantFacts DEF Pos
    <2>4. p0 \in Start .. Start + Capacity - 1 /\ Fits(p0)
      <3> HIDE DEF Fits
      <3> QED  BY <2>3
    <2>5. p0 - Start \in 0 .. Capacity - 1 /\ p0 = Start + (p0 - Start)
      <3> HIDE DEF p0
      <3> QED  BY <2>4, ConstantFacts
    <2>6. PICK d \in 0 .. Capacity - 1 : p0 = Start + d
      BY <2>5
    <2>7. Wrap(p0) = Pos(d) /\ Slot(d) = s
      <3>1. Wrap(p0) = Pos(d)
        BY <2>6 DEF Pos
      <3>2. SlotOf(Pos(d)) = s
        BY <2>4, <3>1
      <3> QED  BY <1>3, <3>1, <3>2, SlotOfPos
    <2>8. \A e \in 0 .. Capacity - 1 : Slot(e) = s => e = d
      BY <1>3, <2>7, SlotFacts, ConstantFacts
    <2>9. Pos(d) \in Positions
      BY <1>3, PosCases
    <2> QED  BY <2>1, <2>7, <2>8, <2>9
  <1>5. sequence \in [Slots -> Positions]
    BY <1>4 DEF Init
  <1>6. TypeOK
    BY <1>1, <1>5 DEF Init, TypeOK, PCs
  <1>7. ASSUME NEW o \in 0 .. Capacity - 1 PROVE Q(Slot(o)) = o
    <2>1. Slot(o) \in Slots
      BY <1>3, SlotFacts
    <2>2. sequence[Slot(o)] = Pos(o)
      BY <1>4, <2>1
    <2> QED  BY <1>3, <2>2, OffPos DEF Q
  <1> QED  BY <1>2, <1>6, <1>7 DEF Init, E, D

LEMMA InitRingInv ==
    ASSUME Init
    PROVE  RingInv
  <1>1. TypeOK /\ E = 0 /\ D = 0 /\ \A o \in 0 .. Capacity - 1 : Q(Slot(o)) = o
    BY InitIsFresh
  <1>2. \A th \in Threads : /\ ~Owns(th) /\ ~PushOwns(th) /\ ~PopOwns(th) /\ ~PushLooks(th) /\ ~PopLooks(th)
                            /\ pc[th] = "idle"
    BY DEF Init, Owns, PushOwns, PopOwns, PushLooks, PopLooks
  <1>3. CounterInv
    <2>1. \A s \in Slots : Q(s) < Capacity
      BY <1>1, SlotsAreReached, ConstantFacts
    <2> QED  BY <1>1, <2>1, TasksAreFinite, ConstantFacts DEF CounterInv
  <1>4. WindowInv
    <2> SUFFICES ASSUME NEW o \in 0 - Capacity .. 0 - 1
                 PROVE  o < 0 /\ Q(Slot(o)) = o + Capacity
      BY <1>1 DEF WindowInv
    <2>1. o \in Int /\ o + Capacity \in 0 .. Capacity - 1
      BY ConstantFacts
    <2>2. Slot(o + Capacity) = Slot(o)
      BY <2>1, SlotFacts
    <2> QED  BY <1>1, <2>1, <2>2
  <1>5. OwnerInv
    BY <1>2 DEF OwnerInv, OwnerOK
  <1>6. LookInv
    BY <1>2 DEF LookInv, LookOK
  <1> QED  BY <1>1, <1>3, <1>4, <1>5, <1>6 DEF RingInv

LEMMA StutteringKeepsInv ==
    ASSUME RingInv, UNCHANGED vars
    PROVE  RingInv'
  <1>1. /\ UNCHANGED <<enqueuePos, dequeuePos, sequence, data>>
        /\ UNCHANGED <<pc, position, task, offered, promised>>
    BY DEF vars, shared, local
  <1>2. E' = E /\ D' = D /\ (\A s : Q(s)' = Q(s)) /\ \A th : P(th)' = P(th)
    BY <1>1 DEF E, D, Q, P
  <1>3. \A th : /\ (PushOwns(th)' <=> PushOwns(th)) /\ (PopOwns(th)' <=> PopOwns(th)) /\ (Owns(th)' <=> Owns(th))
                /\ (PushLooks(th)' <=> PushLooks(th)) /\ (PopLooks(th)' <=> PopLooks(th))
    BY <1>1 DEF PushOwns, PopOwns, Owns, PushLooks, PopLooks
  <1>4. TypeOK'
    BY <1>1 DEF RingInv, TypeOK
  <1>5. Pending' = Pending
    BY <1>1, <1>3 DEF Pending
  <1>6. CounterInv'
    BY <1>1, <1>2, <1>5 DEF RingInv, CounterInv
  <1>7. WindowInv'
    BY <1>1, <1>2, <1>3 DEF RingInv, WindowInv
  <1>8. OwnerInv'
    BY <1>1, <1>2, <1>3 DEF RingInv, OwnerInv, OwnerOK
  <1>9. LookInv'
    BY <1>1, <1>2, <1>3 DEF RingInv, LookInv, LookOK
  <1> QED  BY <1>4, <1>6, <1>7, <1>8, <1>9 DEF RingInv

LEMMA StepsKeepInv ==
    ASSUME RingInv, [Next]_vars
    PROVE  RingInv'
  <1>1. CASE UNCHANGED vars
    BY <1>1, StutteringKeepsInv
  <1>2. CASE Next
    <2>1. PICK th \in Threads :
            \/ (\E t \in Tasks : PushBegins(th, t)) \/ Push(th)
            \/ PopBegins(th) \/ Pop(th)
            \/ EmptyBegins(th) \/ EmptyReads(th) \/ EmptyReloads(th)
      BY <1>2 DEF Next
    <2>2. CASE \E t \in Tasks : PushBegins(th, t)
      BY <2>2, PushBeginsKeepsInv
    <2>3. CASE PushReads(th) \/ PushReloads(th) \/ PushClaimFails(th)
      BY <2>3, PushLooksKeepInv
    <2>4. CASE PushClaims(th)
      BY <2>4, PushClaimsKeepsInv
    <2>5. CASE PopClaims(th)
      BY <2>5, PopClaimsKeepsInv
    <2>6. CASE PushMoves(th) \/ PopMoves(th)
      BY <2>6, MovesKeepInv
    <2>7. CASE PushPublishes(th) \/ PopReleases(th)
      BY <2>7, ReleasesKeepInv
    <2>8. CASE PopBegins(th) \/ PopReads(th) \/ PopReloads(th) \/ PopClaimFails(th)
               \/ EmptyBegins(th) \/ EmptyReloads(th)
      BY <2>8, PopLooksKeepInv
    <2>9. CASE PushRefused(th) \/ PopRefused(th)
      BY <2>9, RefusalsKeepInv
    <2>10. CASE EmptyReads(th)
      BY <2>10, PopLooksKeepInv, RefusalsKeepInv
    <2> QED  BY <2>1, <2>2, <2>3, <2>4, <2>5, <2>6, <2>7, <2>8, <2>9, <2>10 DEF Push, Pop
  <1> QED  BY <1>1, <1>2

\* The ring's counters, sequences and threads always agree on who has which
\* slot, across the wrap of the counters: the inductive invariant.
THEOREM RingInvariant == Spec => []RingInv
  <1>1. Init => RingInv
    BY InitRingInv
  <1>2. RingInv /\ [Next]_vars => RingInv'
    BY StepsKeepInv
  <1> QED  BY <1>1, <1>2, PTL DEF Spec

\* No two threads ever have the same slot, and a consumer gets the task that
\* was at the head when it claimed its position, for any number of threads and
\* any capacity (buffer_[i].data is never raced for).
THEOREM RingsAreSound == Spec => []RingIsSound
  <1>1. ASSUME RingInv PROVE RingIsSound
    <2>1. SlotHasOneOwner
      BY <1>1, OwnersAreApart, RoundFacts DEF SlotHasOneOwner
    <2>2. PopGetsHead
      BY <1>1 DEF RingInv, OwnerInv, OwnerOK, PopOwns, PopGetsHead
    <2> QED  BY <1>1, <2>1, <2>2 DEF RingInv, RingIsSound
  <1>2. RingInv => RingIsSound
    BY <1>1
  <1> QED  BY <1>2, RingInvariant, PTL
-----------------------------------------------------------------------------
(* The queue that callers see.                                             *)

\* The words of a round are told by their distances.
LEMMA ContentsShape ==
    ASSUME NEW e \in 0 .. PtrdiffMax, NEW d \in 0 .. e
    PROVE  /\ Wrap(Pos(e) - Pos(d)) = e - d
           /\ \A i \in 1 .. e - d : Wrap(Pos(d) + i - 1) = Pos(d + (i - 1))
  <1>1. e \in Positions /\ d \in Positions /\ d <= e
    BY ConstantFacts DEF Positions
  <1>2. Wrap(Pos(e) - Pos(d)) = e - d
    BY <1>1, PosDifference DEF Positions
  <1>3. ASSUME NEW i \in 1 .. e - d PROVE Wrap(Pos(d) + i - 1) = Pos(d + (i - 1))
    <2>1. i - 1 \in Nat /\ d + (i - 1) \in Positions
      BY <1>1, ConstantFacts DEF Positions
    <2>2. Pos(d) \in Int
      BY <1>1, PosCases, ConstantFacts DEF Positions
    <2>3. Pos(d) + i - 1 = Pos(d) + (i - 1)
      BY <2>1, <2>2
    <2> QED  BY <1>1, <2>1, <2>3, PosStep
  <1> QED  BY <1>2, <1>3

\* The task of the position at a distance.
Producers(o) == {u \in Threads : pc[u] = "pushMove" /\ position[u] = Pos(o)}

Holder(S) == CHOOSE u \in S : TRUE

At(o) == IF Producers(o) # {} THEN task[Holder(Producers(o))] ELSE data[SlotOf(Pos(o))]

LEMMA ContentsAre ==
    ASSUME NEW e \in 0 .. PtrdiffMax, NEW d \in 0 .. e, enqueuePos = Pos(e), dequeuePos = Pos(d)
    PROVE  Contents = [i \in 1 .. e - d |-> At(d + (i - 1))]
  <1>1. ASSUME NEW i \in 1 .. e - d PROVE TaskAt(Wrap(dequeuePos + i - 1)) = At(d + (i - 1))
    <2>1. Wrap(dequeuePos + i - 1) = Pos(d + (i - 1))
      BY ContentsShape
    <2>2. \A o : TaskAt(Pos(o)) = At(o)
      BY DEF TaskAt, At, Producers, Holder
    <2> QED  BY <2>1, <2>2
  <1> QED  BY <1>1, ContentsShape DEF Contents

LEMMA ContentsWillBe ==
    ASSUME NEW e \in 0 .. PtrdiffMax, NEW d \in 0 .. e, enqueuePos' = Pos(e), dequeuePos' = Pos(d)
    PROVE  Contents' = [i \in 1 .. e - d |-> At(d + (i - 1))']
  <1>1. ASSUME NEW i \in 1 .. e - d PROVE TaskAt(Wrap(dequeuePos + i - 1))' = At(d + (i - 1))'
    <2>1. Wrap(dequeuePos' + i - 1) = Pos(d + (i - 1))
      BY ContentsShape
    <2>2. \A o : TaskAt(Pos(o))' = At(o)'
      BY DEF TaskAt, At, Producers, Holder
    <2> QED  BY <2>1, <2>2
  <1> QED  BY <1>1, ContentsShape DEF Contents

\* The length of the queue is the distance of its counters.
LEMMA LengthIs ==
    ASSUME RingInv
    PROVE  /\ Len(Contents) = E - D /\ E - D \in 0 .. Capacity
           /\ (D = E => Contents = <<>>)
  <1>1. E \in 0 .. PtrdiffMax /\ D \in 0 .. E /\ enqueuePos = Pos(E) /\ dequeuePos = Pos(D)
    BY Distances, WithinReach, ConstantFacts DEF RingInv
  <1>2. Contents = [i \in 1 .. E - D |-> At(D + (i - 1))]
    BY <1>1, ContentsAre
  <1>3. E - D \in Nat /\ E - D <= Capacity
    BY <1>1, ConstantFacts DEF RingInv, CounterInv
  <1> QED  BY <1>1, <1>2, <1>3, ConstantFacts

\* A refused push and a pop that finds nothing tell the truth.
LEMMA RefusedIsFull ==
    ASSUME RingInv, NEW th \in Threads, PushRefused(th), \A o \in Threads : ~PopOwns(o)
    PROVE  Len(Contents) = Capacity
  <1> USE DEF RingInv
  <1>1. PushLooks(th) /\ PushOrder(th) = "behind" /\ LookOK(th)
    BY DEF PushRefused, PushLooks, LookInv
  <1>2. E \in Nat /\ D \in Nat /\ E <= D + Capacity /\ E - Capacity \in E - Capacity .. E - 1
    BY WithinReach, ConstantFacts DEF CounterInv
  <1>3. P(th) \in 0 .. E /\ Slot(P(th)) \in Slots /\ Q(Slot(P(th))) < P(th)
    <2>1. Q(Slot(P(th))) \in Nat
      BY <1>1, PushOrderIs, Distances DEF Positions
    <2> QED  BY <1>1, <2>1, PushOrderIs
  <1>4. Q(Slot(P(th))) \in Nat
    BY <1>3, Distances DEF Positions
  <1>5. P(th) = E
    BY <1>1, <1>2, <1>3, <1>4 DEF LookOK
  <1>6. Q(Slot(E - Capacity)) < E
    BY <1>3, <1>5, RoundFacts
  <1>7. E - Capacity >= D
    <2>1. (E - Capacity) + Capacity = E
      BY <1>2, ConstantFacts
    <2> QED  BY <1>2, <1>6, <2>1 DEF WindowInv
  <1> QED  BY <1>2, <1>7, LengthIs, ConstantFacts

LEMMA NothingIsEmpty ==
    ASSUME RingInv, NEW th \in Threads, FindsNothing(th), \A o \in Threads : ~PushOwns(o)
    PROVE  Contents = <<>>
  <1> USE DEF RingInv
  <1>1. PopLooks(th) /\ PopOrder(th) = "behind" /\ LookOK(th)
    BY DEF FindsNothing, PopRefused, EmptyReads, PopLooks, LookInv
  <1>2. E \in Nat /\ D \in Nat /\ D <= E /\ E - Capacity <= D
    BY WithinReach
  <1>3. P(th) \in 0 .. D /\ Slot(P(th)) \in Slots
    BY <1>1, PopOrderIs
  <1>4. Q(Slot(P(th))) \in Nat
    BY <1>3, Distances DEF Positions
  <1>5. Q(Slot(P(th))) < P(th) + 1
    BY <1>1, <1>3, <1>4, PopOrderIs
  <1>6. P(th) = D
    BY <1>1, <1>2, <1>3, <1>4, <1>5 DEF LookOK
  <1>7. ASSUME D # E PROVE FALSE
    <2>1. D \in E - Capacity .. E - 1
      BY <1>2, <1>7, ConstantFacts
    <2> QED  BY <1>2, <1>4, <1>5, <1>6, <2>1 DEF WindowInv
  <1> QED  BY <1>7, LengthIs

\* A push is refused only on a full ring and a pop or empty() finds nothing
\* only in an empty one, unless a thread of the other side is between its claim
\* and its release: contention within a side never looks like a boundary.
THEOREM RefusalsTellTheTruth == Spec => BoundariesAreReal
  <1>1. ASSUME RingInv, NEW th \in Threads
        PROVE  /\ PushRefused(th) /\ (\A o \in Threads : pc[o] \notin {"popMove", "popRelease"})
                    => Len(Contents) = Capacity
               /\ FindsNothing(th) /\ (\A o \in Threads : pc[o] \notin {"pushMove", "pushPublish"})
                    => Contents = <<>>
    BY <1>1, RefusedIsFull, NothingIsEmpty DEF PopOwns, PushOwns
  <1>2. RingInv => \A th \in Threads :
                      /\ PushRefused(th) /\ (\A o \in Threads : pc[o] \notin {"popMove", "popRelease"})
                             => Len(Contents) = Capacity
                      /\ FindsNothing(th) /\ (\A o \in Threads : pc[o] \notin {"pushMove", "pushPublish"})
                             => Contents = <<>>
    BY <1>1
  <1> QED  BY <1>2, RingInvariant, PTL DEF BoundariesAreReal
LEMMA HolderIsIn ==
    ASSUME NEW S, S # {}
    PROVE  Holder(S) \in S
  BY DEF Holder

\* The task at a distance changes only with its producer or its slot.
LEMMA SameAt ==
    ASSUME RingInv, NEW o \in D .. E - 1, Producers(o)' = Producers(o),
           \A u \in Producers(o) : task'[u] = task[u], data'[Slot(o)] = data[Slot(o)]
    PROVE  At(o)' = At(o)
  <1>1. SlotOf(Pos(o)) = Slot(o)
    <2>1. o \in 0 .. E
      BY WithinReach DEF RingInv
    <2> QED  BY <2>1, WithinReach DEF RingInv
  <1>2. Producers(o) # {} => Holder(Producers(o)) \in Producers(o)
    BY HolderIsIn
  <1> QED  BY <1>1, <1>2 DEF At

LEMMA SameContents ==
    ASSUME RingInv, UNCHANGED <<enqueuePos, dequeuePos>>, \A o \in D .. E - 1 : At(o)' = At(o)
    PROVE  Contents' = Contents
  <1>1. E \in 0 .. PtrdiffMax /\ D \in 0 .. E /\ enqueuePos = Pos(E) /\ dequeuePos = Pos(D)
    BY Distances, WithinReach, ConstantFacts DEF RingInv
  <1>2. PICK e \in 0 .. PtrdiffMax : e = E
    BY <1>1
  <1>3. PICK d \in 0 .. e : d = D
    BY <1>1, <1>2
  <1>4. Contents = [i \in 1 .. e - d |-> At(d + (i - 1))]
    BY <1>1, <1>2, <1>3, ContentsAre
  <1>5. Contents' = [i \in 1 .. e - d |-> At(d + (i - 1))']
    BY <1>1, <1>2, <1>3, ContentsWillBe
  <1>6. \A i \in 1 .. e - d : At(d + (i - 1))' = At(d + (i - 1))
    <2>1. \A i \in 1 .. e - d : d + (i - 1) \in D .. E - 1
      BY <1>2, <1>3
    <2> QED  BY <2>1
  <1> QED  BY <1>4, <1>5, <1>6

LEMMA QuietKeepsContents ==
    ASSUME RingInv, NEW th \in Threads, Others(th), pc[th] # "pushMove", pc'[th] # "pushMove",
           UNCHANGED <<enqueuePos, dequeuePos>>,
           \A o \in D .. E - 1 : data'[Slot(o)] = data[Slot(o)]
    PROVE  Contents' = Contents
  <1>1. ASSUME NEW o \in D .. E - 1 PROVE At(o)' = At(o)
    <2>1. Producers(o)' = Producers(o) /\ \A u \in Producers(o) : task'[u] = task[u]
      BY DEF Producers, Others
    <2> QED  BY <2>1, SameAt
  <1> QED  BY <1>1, SameContents

LEMMA MovesKeepContents ==
    ASSUME RingInv, NEW th \in Threads, PushMoves(th) \/ PopMoves(th)
    PROVE  Contents' = Contents
  <1> USE DEF RingInv
  <1>1. TypeOK /\ Owns(th) /\ OwnerOK(th) /\ E \in Nat /\ D \in Nat /\ E - Capacity <= D
    BY WithinReach DEF PushMoves, PopMoves, Owns, OwnerInv
  <1>2. Here(th) = Slot(P(th)) /\ Slot(P(th)) \in Slots /\ P(th) \in E - Capacity .. E - 1
    BY <1>1, RoundFacts
  <1>3. Others(th) /\ UNCHANGED <<enqueuePos, dequeuePos, position>>
    BY <1>1 DEF PushMoves, PopMoves, Others, Goto, TypeOK
  <1>4. ASSUME NEW o \in D .. E - 1, o # P(th) PROVE data'[Slot(o)] = data[Slot(o)]
    <2>1. o \in E - Capacity .. E - 1 /\ o \in Int
      BY <1>1, ConstantFacts
    <2>2. Slot(o) \in Slots /\ Slot(o) # Slot(P(th))
      BY <1>2, <1>4, <2>1, RoundFacts, SlotFacts
    <2> QED  BY <1>1, <1>2, <2>2 DEF PushMoves, PopMoves, TypeOK
  <1>5. CASE PopMoves(th)
    <2>1. pc[th] # "pushMove" /\ pc'[th] # "pushMove"
      BY <1>1, <1>5 DEF PopMoves, Goto, TypeOK
    <2>2. P(th) < D
      BY <1>1, <1>5 DEF PopMoves, OwnerOK, PopOwns
    <2>3. \A o \in D .. E - 1 : data'[Slot(o)] = data[Slot(o)]
      BY <1>1, <1>2, <1>4, <2>2
    <2> QED  BY <1>3, <2>1, <2>3, QuietKeepsContents
  <1>6. CASE PushMoves(th)
    <2>1. /\ pc[th] = "pushMove" /\ pc'[th] = "pushPublish" /\ task' = task
          /\ data'[Slot(P(th))] = task[th]
      BY <1>1, <1>2, <1>6 DEF PushMoves, Goto, TypeOK
    <2>2. ASSUME NEW o \in D .. E - 1 PROVE At(o)' = At(o)
      <3>1. o \in 0 .. E /\ o \in Positions /\ SlotOf(Pos(o)) = Slot(o)
        <4>1. o \in 0 .. E
          BY <1>1
        <4> QED  BY <4>1, WithinReach
      <3>2. \A u \in Threads : (position[u] = Pos(o)) <=> (P(u) = o)
        <4>1. \A u \in Threads : position[u] \in Positions
          BY DEF TypeOK
        <4> QED  BY <3>1, <4>1, OffPos DEF P
      <3>3. CASE o = P(th)
        <4>1. Producers(o) = {th}
          BY <1>1, <2>1, <3>2, <3>3 DEF Producers, OwnerOK, Owns
        <4>2. Producers(o)' = {}
          BY <1>1, <1>3, <2>1, <3>2, <3>3, <4>1 DEF Producers, Others
        <4>3. At(o) = task[th]
          <5>1. Holder({th}) = th
            BY HolderIsIn
          <5> QED  BY <4>1, <5>1 DEF At
        <4> QED  BY <2>1, <3>1, <3>3, <4>2, <4>3 DEF At
      <3>4. CASE o # P(th)
        <4>1. Producers(o)' = Producers(o)
          BY <1>3, <2>1, <3>2, <3>4 DEF Producers, Others
        <4> QED  BY <1>4, <2>1, <3>4, <4>1, SameAt
      <3> QED  BY <3>3, <3>4
    <2> QED  BY <1>3, <2>2, SameContents
  <1> QED  BY <1>5, <1>6

\* A claim of a producer appends its task.
LEMMA PushClaimsAppends ==
    ASSUME RingInv, NEW th \in Threads, PushClaims(th)
    PROVE  /\ Contents' = Append(Contents, task[th]) /\ task[th] \in Tasks
           /\ Len(Contents) < Capacity
  <1> USE DEF RingInv
  <1>1. /\ pc[th] = "pushClaim" /\ pc'[th] = "pushMove" /\ position' = position /\ task' = task
        /\ data' = data /\ dequeuePos' = dequeuePos /\ Others(th)
    BY DEF PushClaims, Goto, TypeOK, Others
  <1>2. P(th) = E /\ LookOK(th) /\ PushLooks(th) /\ position[th] = Pos(E)
    BY <1>1, Distances DEF PushClaims, MayClaim, P, E, LookInv, PushLooks
  <1>3. Q(Slot(E)) = E /\ task[th] \in Tasks
    BY <1>1, <1>2 DEF LookOK, TypeOK
  <1>4. /\ E \in 0 .. PtrdiffMax /\ D \in 0 .. E /\ enqueuePos = Pos(E) /\ dequeuePos = Pos(D)
        /\ E + 1 \in 0 .. PtrdiffMax /\ E - Capacity < D /\ E \in Positions
    BY <1>3, Distances, WithinReach, ReadyIsFree, ConstantFacts
  <1>5. PICK e \in 0 .. PtrdiffMax : e = E
    BY <1>4
  <1>6. PICK d \in 0 .. e : d = D
    BY <1>4, <1>5
  <1>7. enqueuePos' = Pos(e + 1) /\ e + 1 \in 0 .. PtrdiffMax /\ d \in 0 .. e + 1
    <2>1. E + 1 \in Positions
      BY <1>4, ConstantFacts DEF Positions
    <2>2. enqueuePos' = Wrap(Pos(E) + 1)
      BY <1>2 DEF PushClaims
    <2> QED  BY <1>4, <1>5, <1>6, <2>1, <2>2, PosStep
  <1>8. Contents = [i \in 1 .. e - d |-> At(d + (i - 1))]
    BY <1>4, <1>5, <1>6, ContentsAre
  <1>9. Contents' = [i \in 1 .. (e + 1) - d |-> At(d + (i - 1))']
    BY <1>1, <1>4, <1>6, <1>7, ContentsWillBe
  <1>10. \A o \in d .. e - 1 : At(o)' = At(o)
    <2> SUFFICES ASSUME NEW o \in D .. E - 1 PROVE At(o)' = At(o)
      BY <1>5, <1>6
    <2>1. o \in Positions /\ o # E
      <3>1. o \in 0 .. E /\ o # E
        BY <1>4
      <3> QED  BY <3>1, WithinReach
    <2>2. Pos(o) # position[th]
      BY <1>2, <1>4, <2>1, OffPos
    <2>3. Producers(o)' = Producers(o)
      BY <1>1, <2>2 DEF Producers, Others
    <2> QED  BY <1>1, <2>3, SameAt
  <1>11. At(e)' = task[th]
    <2>1. ASSUME NEW u \in Threads, pc[u] = "pushMove", position[u] = Pos(E) PROVE FALSE
      <3>1. Owns(u) /\ P(u) = E
        BY <1>4, <2>1, OffPos DEF Owns, P
      <3>2. P(u) \in 0 .. E - 1
        BY <3>1, RoundFacts
      <3> QED  BY <1>4, <3>1, <3>2
    <2>2. Producers(e)' = {th}
      BY <1>1, <1>2, <1>5, <2>1 DEF Producers, Others
    <2>3. Holder({th}) = th
      BY HolderIsIn
    <2> QED  BY <1>1, <2>2, <2>3 DEF At
  <1>12. Contents' = Append(Contents, task[th])
    <2>1. e - d \in Nat /\ (e + 1) - d = (e - d) + 1
      OBVIOUS
    <2>2. \A i \in 1 .. e - d : At(d + (i - 1))' = At(d + (i - 1))
      <3>1. \A i \in 1 .. e - d : d + (i - 1) \in d .. e - 1
        OBVIOUS
      <3> QED  BY <1>10, <3>1
    <2>3. Len(Contents) = e - d /\ Append(Contents, task[th])
            = [i \in 1 .. (e - d) + 1 |-> IF i = (e - d) + 1 THEN task[th] ELSE Contents[i]]
      BY <1>8, <2>1
    <2>4. \A i \in 1 .. (e - d) + 1 :
             At(d + (i - 1))' = IF i = (e - d) + 1 THEN task[th] ELSE Contents[i]
      <3>1. ASSUME NEW i \in 1 .. (e - d) + 1, i = (e - d) + 1 PROVE d + (i - 1) = e
        BY <3>1
      <3>2. ASSUME NEW i \in 1 .. (e - d) + 1, i # (e - d) + 1 PROVE i \in 1 .. e - d
        BY <3>2
      <3> QED  BY <1>8, <1>11, <2>2, <3>1, <3>2
    <2> QED  BY <1>9, <2>1, <2>3, <2>4
  <1>13. Len(Contents) < Capacity
    BY <1>4, LengthIs, ConstantFacts
  <1> QED  BY <1>3, <1>12, <1>13
\* A claim of a consumer takes the head.
LEMMA PopClaimsTakesHead ==
    ASSUME RingInv, NEW th \in Threads, PopClaims(th)
    PROVE  Contents # <<>> /\ Contents' = Tail(Contents)
  <1> USE DEF RingInv
  <1>1. /\ pc[th] = "popClaim" /\ pc'[th] = "popMove" /\ position' = position /\ task' = task
        /\ data' = data /\ enqueuePos' = enqueuePos /\ Others(th)
    BY DEF PopClaims, Goto, TypeOK, Others
  <1>2. P(th) = D /\ LookOK(th) /\ position[th] = Pos(D)
    BY <1>1, Distances DEF PopClaims, MayClaim, P, D, LookInv
  <1>3. Q(Slot(D)) = D + 1
    BY <1>1, <1>2 DEF LookOK
  <1>4. /\ E \in 0 .. PtrdiffMax /\ D \in 0 .. E /\ enqueuePos = Pos(E) /\ dequeuePos = Pos(D)
        /\ D \in Positions /\ D + 1 \in Positions /\ D < E
    BY <1>3, Distances, WithinReach, FilledIsHead, ConstantFacts
  <1>5. PICK e \in 0 .. PtrdiffMax : e = E
    BY <1>4
  <1>6. PICK d \in 0 .. e : d = D
    BY <1>4, <1>5
  <1>7. dequeuePos' = Pos(d + 1) /\ d + 1 \in 0 .. e
    <2>1. dequeuePos' = Wrap(Pos(D) + 1)
      BY <1>2 DEF PopClaims
    <2> QED  BY <1>4, <1>5, <1>6, <2>1, PosStep
  <1>8. Contents = [i \in 1 .. e - d |-> At(d + (i - 1))]
    BY <1>4, <1>5, <1>6, ContentsAre
  <1>9. Contents' = [i \in 1 .. e - (d + 1) |-> At((d + 1) + (i - 1))']
    BY <1>1, <1>4, <1>5, <1>7, ContentsWillBe
  <1>10. \A o \in d .. e - 1 : At(o)' = At(o)
    <2> SUFFICES ASSUME NEW o \in D .. E - 1 PROVE At(o)' = At(o)
      BY <1>5, <1>6
    <2>1. Producers(o)' = Producers(o)
      BY <1>1 DEF Producers, Others
    <2> QED  BY <1>1, <2>1, SameAt
  <1>11. Tail(Contents) = [i \in 1 .. (e - d) - 1 |-> Contents[i + 1]] /\ Contents # <<>>
    <2>1. e - d \in Nat /\ e - d >= 1
      BY <1>7
    <2> DEFINE S == {At(d + (i - 1)) : i \in 1 .. e - d}
    <2>2. Contents \in Seq(S) /\ Len(Contents) = e - d /\ Contents # <<>>
      <3>1. Contents \in [1 .. e - d -> S]
        BY <1>8
      <3>2. Contents \in Seq(S)
        BY <2>1, <3>1, SeqDef
      <3>3. Len(Contents) = e - d
        BY <1>8, <2>1
      <3> QED  BY <2>1, <3>2, <3>3
    <2> HIDE DEF S
    <2>3. Tail(Contents) \in Seq(S) /\ Len(Tail(Contents)) = (e - d) - 1
      BY <2>2, HeadTailProperties
    <2>4. \A i \in 1 .. (e - d) - 1 : Tail(Contents)[i] = Contents[i + 1]
      BY <2>2, <2>3, HeadTailProperties
    <2>5. Tail(Contents) \in [1 .. (e - d) - 1 -> S]
      BY <2>3, LenProperties
    <2>6. Tail(Contents) = [i \in 1 .. (e - d) - 1 |-> Tail(Contents)[i]]
      BY <2>5
    <2> QED  BY <2>2, <2>4, <2>6
  <1>12. e - (d + 1) = (e - d) - 1
    OBVIOUS
  <1>13. ASSUME NEW i \in 1 .. (e - d) - 1 PROVE At((d + 1) + (i - 1))' = Contents[i + 1]
    <2>1. i + 1 \in 1 .. e - d /\ (d + 1) + (i - 1) = d + ((i + 1) - 1) /\ d + ((i + 1) - 1) \in d .. e - 1
      OBVIOUS
    <2> QED  BY <1>8, <1>10, <2>1
  <1> QED  BY <1>9, <1>11, <1>12, <1>13

LEMMA StepsAreFifoSteps ==
    ASSUME RingInv, [Next]_vars
    PROVE  [Fifo!Next]_Contents
  <1>1. CASE UNCHANGED vars
    BY <1>1 DEF vars, shared, local, Contents, TaskAt
  <1>2. CASE Next
    <2>1. PICK th \in Threads :
            \/ (\E t \in Tasks : PushBegins(th, t)) \/ Push(th)
            \/ PopBegins(th) \/ Pop(th)
            \/ EmptyBegins(th) \/ EmptyReads(th) \/ EmptyReloads(th)
      BY <1>2 DEF Next
    <2>2. CASE PushClaims(th)
      BY <2>2, PushClaimsAppends DEF Fifo!Next, Fifo!Enqueue
    <2>3. CASE PopClaims(th)
      BY <2>3, PopClaimsTakesHead DEF Fifo!Next, Fifo!Dequeue
    <2>4. CASE PushMoves(th) \/ PopMoves(th)
      BY <2>4, MovesKeepContents
    <2>5. CASE \/ PushReads(th) \/ PushReloads(th) \/ PushClaimFails(th) \/ PushRefused(th) \/ PushPublishes(th)
               \/ PopReads(th) \/ PopReloads(th) \/ PopClaimFails(th) \/ PopRefused(th) \/ PopReleases(th)
      <3>1. /\ Others(th) /\ pc[th] # "pushMove" /\ pc'[th] # "pushMove"
            /\ UNCHANGED <<enqueuePos, dequeuePos, data>>
        BY <2>5 DEF RingInv, TypeOK, Others, shared, Goto, Loads, Return, PushReads, PushReloads, PushClaimFails,
                    PushRefused, PushPublishes, PopReads, PopReloads, PopClaimFails, PopRefused, PopReleases
      <3> QED  BY <3>1, QuietKeepsContents
    <2>6. CASE \/ \E t \in Tasks : PushBegins(th, t)
               \/ PopBegins(th) \/ EmptyBegins(th) \/ EmptyReads(th) \/ EmptyReloads(th)
      <3>1. /\ Others(th) /\ pc[th] # "pushMove" /\ pc'[th] # "pushMove"
            /\ UNCHANGED <<enqueuePos, dequeuePos, data>>
        BY <2>6 DEF RingInv, TypeOK, Others, shared, Goto, Loads, Return, PushBegins, PopBegins,
                    EmptyBegins, EmptyReads, EmptyReloads
      <3> QED  BY <3>1, QuietKeepsContents
    <2> QED  BY <2>1, <2>2, <2>3, <2>4, <2>5, <2>6 DEF Push, Pop
  <1> QED  BY <1>1, <1>2

\* The ring implements a bounded first-in first-out queue: a producer's claim
\* of a position is the enqueue, a consumer's the dequeue, and no other step of
\* any thread changes what is in the queue.
THEOREM RingImplementsFifo == Spec => FifoSpec
  <1>1. Init => Fifo!Init
    <2> SUFFICES ASSUME Init PROVE Contents = <<>>
      BY DEF Fifo!Init
    <2>1. RingInv /\ E = D
      BY InitRingInv, InitIsFresh
    <2> QED  BY <2>1, LengthIs
  <1>2. RingInv /\ [Next]_vars => [Fifo!Next]_Contents
    BY StepsAreFifoSteps
  <1> QED  BY <1>1, <1>2, RingInvariant, PTL DEF Spec, FifoSpec, Fifo!Spec
=============================================================================
