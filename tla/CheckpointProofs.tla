-------------------------- MODULE CheckpointProofs --------------------------
(***************************************************************************)
(* Proofs about CheckpointFrontier for any number of terms, any options    *)
(* that decide how gaps are cut, and any number of faults.                 *)
(*                                                                         *)
(* First, that the frontier is a partition of [0, termCount) at every      *)
(* stage, whatever happens to the directory.  Then, that a power loss or a *)
(* failed write never leaves a manifest without its blocks: this needs     *)
(* the first, because the planner rejects manifest entries that overlap    *)
(* and quarantines what it rejects.  Last, the same for processes that die *)
(* without a power loss, where more faults are allowed: kills, failed      *)
(* fsyncs and files that go bad.                                           *)
(***************************************************************************)
EXTENDS CheckpointFrontier, FunctionTheorems, FiniteSetTheorems, WellFoundedInduction, TLAPS

Disjoint(frontier) == \A l, k \in frontier : l # k => Terms(l) \cap Terms(k) = {}

\* Every nonempty set of natural numbers has a smallest element.
LEMMA Smallest ==
    ASSUME NEW S \in SUBSET Nat, S # {}
    PROVE  \E m \in S : \A n \in S : m <= n
  <1> DEFINE R == OpToRel(<, Nat)
  <1>1. IsWellFoundedOn(R, Nat)
    BY NatLessThanWellFounded
  <1>2. R = {ss \in Nat \X Nat : ss[1] < ss[2]}
    BY DEF OpToRel
  <1> HIDE DEF R
  <1>3. PICK m \in S : \A n \in S : ~(<<n, m>> \in R)
    BY <1>1, WFMin, Zenon
  <1>4. \A n \in S : ~(n < m)
    BY <1>2, <1>3
  <1>5. QED
    BY <1>4

\* Every nonempty set of numbers up to a bound has a largest element.
LEMMA Largest ==
    ASSUME NEW b \in Nat, NEW S \in SUBSET (0 .. b), S # {}
    PROVE  \E m \in S : \A n \in S : n <= m
  <1> DEFINE D == {b - n : n \in S}
  <1>1. D \in SUBSET Nat
    OBVIOUS
  <1>a. D # {}
    OBVIOUS
  <1>2. PICK d \in D : \A e \in D : d <= e
    BY <1>1, <1>a, Smallest
  <1>3. PICK m \in S : d = b - m
    OBVIOUS
  <1>4. \A n \in S : b - m <= b - n
    BY <1>2, <1>3
  <1>5. QED
    BY <1>4

\* The fields of a location, and what it means for two of them to be apart.
LEMMA LocationFields ==
    ASSUME NEW l \in Locations
    PROVE  /\ l.start \in Nat /\ l.end \in Nat /\ l.level \in 0 .. TreeLevels
           /\ l.start < l.end /\ l.end <= TermCount
           /\ l = [start |-> l.start, end |-> l.end, level |-> l.level]
           /\ l.start \in Terms(l)
  BY CheckpointAssumption DEF Locations, Terms

\* Two blocks share no term iff one ends before the other begins.
LEMMA Apart ==
    ASSUME NEW l \in Locations, NEW k \in Locations
    PROVE  Terms(l) \cap Terms(k) = {} <=> l.end <= k.start \/ k.end <= l.start
  <1>1. CASE l.end <= k.start \/ k.end <= l.start
    BY <1>1, LocationFields DEF Terms
  <1>2. CASE ~(l.end <= k.start \/ k.end <= l.start)
    <2>1. CASE l.start <= k.start
      BY <1>2, <2>1, LocationFields DEF Terms
    <2>2. CASE k.start <= l.start
      BY <1>2, <2>2, LocationFields DEF Terms
    <2>3. QED
      BY <2>1, <2>2, LocationFields
  <1>3. QED
    BY <1>1, <1>2

-----------------------------------------------------------------------------
(* The frontier is a partition.                                            *)

Partition(frontier) == frontier \subseteq Locations /\ Disjoint(frontier) /\ Covers(frontier)

\* The cursor stands behind every seed that starts before p, at the end of one
\* of them or at 0.
LEMMA CursorIsBehind ==
    ASSUME NEW seeds \in SUBSET Locations, Disjoint(seeds), NEW p \in 0 .. TermCount
    PROVE  /\ CoveredEnd(seeds, p) \in 0 .. TermCount
           /\ \A l \in seeds : l.start < p => l.end <= CoveredEnd(seeds, p)
           /\ \/ CoveredEnd(seeds, p) = 0
              \/ \E l \in seeds : l.start < p /\ l.end = CoveredEnd(seeds, p)
  <1> DEFINE before == {l \in seeds : l.start < p}
             Last(l) == \A k \in before : k.start <= l.start
  <1>1. CASE before = {}
    BY <1>1, CheckpointAssumption DEF CoveredEnd
  <1>2. CASE before # {}
    <2>1. \E l \in before : Last(l)
      <3> DEFINE S == {l.start : l \in before}
      <3>1. S \in SUBSET (0 .. TermCount) /\ S # {}
        BY <1>2, LocationFields, CheckpointAssumption
      <3>2. PICK m \in S : \A n \in S : n <= m
        BY <3>1, Largest, CheckpointAssumption
      <3> QED  BY <3>2
    <2> DEFINE last == CHOOSE l \in before : Last(l)
    <2>2. last \in before /\ Last(last)
      BY <2>1
    <2>3. CoveredEnd(seeds, p) = last.end
      BY <1>2 DEF CoveredEnd
    <2> HIDE DEF last
    <2>4. ASSUME NEW l \in seeds, l.start < p PROVE l.end <= last.end
      <3>1. l.start <= last.start /\ l \in Locations /\ last \in Locations
        BY <2>2, <2>4
      <3>2. CASE l = last
        BY <3>1, <3>2, LocationFields
      <3>3. CASE l # last
        <4>1. Terms(l) \cap Terms(last) = {}
          BY <2>2, <3>3 DEF Disjoint
        <4> QED  BY <3>1, <4>1, Apart, LocationFields
      <3> QED  BY <3>2, <3>3
    <2> QED  BY <2>2, <2>3, <2>4, LocationFields, CheckpointAssumption
  <1> QED  BY <1>1, <1>2

\* The gaps are ranges that are apart and hold exactly the terms of no seed.
LEMMA GapsAreComplement ==
    ASSUME NEW seeds \in SUBSET Locations, Disjoint(seeds)
    PROVE  /\ \A g \in Gaps(seeds) :
                 /\ g.start \in 0 .. TermCount /\ g.end \in 0 .. TermCount /\ g.start < g.end
                 /\ \A l \in seeds : l.end <= g.start \/ g.end <= l.start
           /\ \A g, h \in Gaps(seeds) : g # h => g.end <= h.start \/ h.end <= g.start
           /\ \A t \in 0 .. TermCount - 1 :
                 (\A l \in seeds : t \notin Terms(l)) =>
                     \E g \in Gaps(seeds) : g.start <= t /\ t < g.end
  <1> DEFINE stops == {l.start : l \in seeds} \cup {TermCount}
             Gap(p) == [start |-> CoveredEnd(seeds, p), end |-> p]
  <1>1. Gaps(seeds) = {Gap(p) : p \in {q \in stops : CoveredEnd(seeds, q) < q}}
    BY DEF Gaps
  <1>2. stops \in SUBSET (0 .. TermCount) /\ TermCount \in stops
    BY LocationFields, CheckpointAssumption
  <1>3. \A p \in stops :
          /\ CoveredEnd(seeds, p) \in 0 .. TermCount
          /\ \A l \in seeds : l.start < p => l.end <= CoveredEnd(seeds, p)
          /\ \/ CoveredEnd(seeds, p) = 0
             \/ \E l \in seeds : l.start < p /\ l.end = CoveredEnd(seeds, p)
    BY <1>2, CursorIsBehind
  <1>4. \A p \in stops : p # TermCount => \E l \in seeds : l.start = p
    OBVIOUS
  <1>5. \A l \in seeds : l.start \in stops
    OBVIOUS
  <1>6. \A p : Gap(p).start = CoveredEnd(seeds, p) /\ Gap(p).end = p
    OBVIOUS
  <1>7. \A l \in seeds : l.start \in Nat /\ l.end \in Nat /\ l.start < l.end /\ l.end <= TermCount
    BY LocationFields
  <1> HIDE DEF stops, Gap
  <1>8. ASSUME NEW p \in stops, CoveredEnd(seeds, p) < p, NEW l \in seeds
        PROVE  l.end <= CoveredEnd(seeds, p) \/ p <= l.start
    BY <1>2, <1>3, <1>7
  <1>9. ASSUME NEW p \in stops, NEW q \in stops, p < q
        PROVE  p <= CoveredEnd(seeds, q)
    <2>1. PICK l \in seeds : l.start = p
      BY <1>2, <1>4, <1>9, CheckpointAssumption
    <2> QED  BY <1>2, <1>3, <1>7, <1>9, <2>1
  <1>10. ASSUME NEW t \in 0 .. TermCount - 1, \A l \in seeds : t \notin Terms(l)
         PROVE  \E p \in stops : CoveredEnd(seeds, p) <= t /\ t < p
    <2> DEFINE S == {q \in stops : t < q}
    <2>1. /\ \A q \in stops : q \in Nat
          /\ TermCount \in stops /\ t < TermCount
      BY <1>2, CheckpointAssumption
    <2>a. S \in SUBSET Nat
      BY <2>1
    <2>b. S # {}
      BY <2>1
    <2>2. PICK p \in S : \A q \in S : p <= q
      BY <2>a, <2>b, Smallest
    <2>3. ASSUME NEW l \in seeds, l.start < p PROVE l.end <= t
      <3>1. l.start \notin S
        BY <1>2, <1>5, <1>7, <2>2, <2>3
      <3>2. l.start <= t
        BY <1>5, <1>7, <3>1
      <3> QED  BY <1>7, <1>10, <3>2 DEF Terms
    <2>4. CoveredEnd(seeds, p) <= t
      BY <1>3, <2>2, <2>3
    <2> QED  BY <2>2, <2>4
  <1>11. ASSUME NEW g \in Gaps(seeds)
         PROVE  /\ g.start \in 0 .. TermCount /\ g.end \in 0 .. TermCount /\ g.start < g.end
                /\ \A l \in seeds : l.end <= g.start \/ g.end <= l.start
    BY <1>1, <1>2, <1>3, <1>6, <1>8
  <1>12. ASSUME NEW g \in Gaps(seeds), NEW h \in Gaps(seeds), g # h
         PROVE  g.end <= h.start \/ h.end <= g.start
    <2>1. PICK p \in stops : g = Gap(p) /\ CoveredEnd(seeds, p) < p
      BY <1>1
    <2>2. PICK q \in stops : h = Gap(q) /\ CoveredEnd(seeds, q) < q
      BY <1>1
    <2>3. p < q \/ q < p
      BY <1>2, <1>12, <2>1, <2>2
    <2> QED  BY <1>6, <1>9, <2>1, <2>2, <2>3
  <1>13. ASSUME NEW t \in 0 .. TermCount - 1, \A l \in seeds : t \notin Terms(l)
         PROVE  \E g \in Gaps(seeds) : g.start <= t /\ t < g.end
    <2>1. PICK p \in stops : CoveredEnd(seeds, p) <= t /\ t < p
      BY <1>10, <1>13
    <2>2. CoveredEnd(seeds, p) < p
      BY <1>2, <1>3, <2>1
    <2> QED  BY <1>1, <1>6, <2>1, <2>2
  <1> QED  BY <1>11, <1>12, <1>13

\* boundedBlockCount() is at least one block and at most one term a block.
LEMMA BlockCount ==
    ASSUME NEW size \in Nat \ {0}, NEW cutoff \in Nat \ {0}, NEW most \in Nat \ {0}
    PROVE  BoundedBlockCount(size, cutoff, most) \in 1 .. size
  <1>1. (size - 1) \div cutoff \in 0 .. size - 1
    <2>1. size - 1 \in Nat
      OBVIOUS
    <2> QED  BY <2>1, Z3
  <1> QED  BY <1>1 DEF BoundedBlockCount, AtMost

\* The blocks of a gap begin where it begins, end where it ends, and each
\* begins behind the one before.
LEMMA BlockStarts ==
    ASSUME NEW gap, gap.start \in Nat, gap.end \in Nat, gap.start < gap.end,
           NEW count \in 1 .. gap.end - gap.start
    PROVE  /\ \A i \in 0 .. count : BlockStart(gap, count, i) \in Nat
           /\ BlockStart(gap, count, 0) = gap.start
           /\ BlockStart(gap, count, count) = gap.end
           /\ \A i, j \in 0 .. count :
                 i < j => BlockStart(gap, count, i) < BlockStart(gap, count, j)
  <1> DEFINE size == gap.end - gap.start
             base == size \div count
             larger == size % count
             B(i) == BlockStart(gap, count, i)
  <1>1. size \in Nat \ {0} /\ count \in 1 .. size /\ gap.end = gap.start + size
    OBVIOUS
  <1>2. base \in Nat \ {0} /\ larger \in 0 .. count - 1 /\ size = (count * base) + larger
    <2> HIDE DEF size
    <2> QED  BY <1>1, Z3
  <1>3. \A i \in Nat : B(i) = gap.start + (i * base) + AtMost(i, larger)
    BY DEF BlockStart
  <1>4. \A i, j \in Nat : i < j => (i * base) + base <= j * base
    BY <1>2, Z3
  <1>5. \A i \in Nat : i * base \in Nat /\ AtMost(i, larger) \in Nat
    BY <1>2 DEF AtMost
  <1>6. AtMost(0, larger) = 0 /\ AtMost(count, larger) = larger /\ 0 * base = 0
    <2> HIDE DEF size, base, larger
    <2> QED  BY <1>1, <1>2 DEF AtMost
  <1> HIDE DEF size, base, larger, B
  <1>7. B(0) = gap.start
    BY <1>3, <1>6
  <1>8. B(count) = gap.end
    BY <1>1, <1>2, <1>3, <1>6
  <1>9. ASSUME NEW i \in 0 .. count PROVE B(i) \in Nat
    BY <1>1, <1>3, <1>5
  <1>10. ASSUME NEW i \in 0 .. count, NEW j \in 0 .. count, i < j PROVE B(i) < B(j)
    <2>1. i \in Nat /\ j \in Nat /\ (i * base) + base <= j * base /\ i * base \in Nat /\ j * base \in Nat
      BY <1>1, <1>4, <1>5, <1>10
    <2>2. AtMost(i, larger) <= AtMost(j, larger) /\ AtMost(i, larger) \in Nat /\ AtMost(j, larger) \in Nat
      BY <1>2, <1>10, <2>1 DEF AtMost
    <2>3. B(i) = gap.start + (i * base) + AtMost(i, larger)
      BY <1>3, <2>1
    <2>4. B(j) = gap.start + (j * base) + AtMost(j, larger)
      BY <1>3, <2>1
    <2> QED  BY <1>2, <2>1, <2>2, <2>3, <2>4
  <1> QED  BY <1>7, <1>8, <1>9, <1>10 DEF B

\* The blocks of a gap are leaves within it, are apart, and hold all its terms.
LEMMA BlocksTileTheGap ==
    ASSUME NEW gap, gap.start \in 0 .. TermCount, gap.end \in 0 .. TermCount, gap.start < gap.end,
           NEW count \in 1 .. gap.end - gap.start
    PROVE  /\ \A l \in Blocks(gap, count) :
                 l \in Locations /\ gap.start <= l.start /\ l.end <= gap.end
           /\ \A l, k \in Blocks(gap, count) : l # k => l.end <= k.start \/ k.end <= l.start
           /\ \A t \in gap.start .. gap.end - 1 : \E l \in Blocks(gap, count) : t \in Terms(l)
  <1> DEFINE B(i) == BlockStart(gap, count, i)
             Block(i) == [start |-> B(i), end |-> B(i + 1), level |-> 0]
  <1>0. gap.start \in Nat /\ gap.end \in Nat /\ TermCount \in Nat /\ TreeLevels \in Nat /\ count \in Nat \ {0}
    BY CheckpointAssumption
  <1>1. /\ \A i \in 0 .. count : B(i) \in Nat
        /\ B(0) = gap.start /\ B(count) = gap.end
        /\ \A i, j \in 0 .. count : i < j => B(i) < B(j)
    BY <1>0, BlockStarts
  <1>2. Blocks(gap, count) = {Block(i) : i \in 0 .. count - 1}
    BY DEF Blocks
  <1>3. \A i : Block(i).start = B(i) /\ Block(i).end = B(i + 1) /\ Block(i).level = 0
    OBVIOUS
  <1>4. \A i : Block(i) \in [start : {B(i)}, end : {B(i + 1)}, level : {0}]
    OBVIOUS
  <1> HIDE DEF B, Block
  <1>5. \A i \in 0 .. count : gap.start <= B(i) /\ B(i) <= gap.end
    <2> SUFFICES ASSUME NEW i \in 0 .. count PROVE gap.start <= B(i) /\ B(i) <= gap.end
      OBVIOUS
    <2>1. i = 0 \/ B(0) < B(i)
      BY <1>0, <1>1
    <2>2. i = count \/ B(i) < B(count)
      BY <1>0, <1>1
    <2> QED  BY <1>0, <1>1, <2>1, <2>2
  <1>6. ASSUME NEW i \in 0 .. count - 1
        PROVE  /\ i \in 0 .. count /\ i + 1 \in 0 .. count
               /\ B(i) \in 0 .. TermCount /\ B(i + 1) \in 0 .. TermCount /\ B(i) < B(i + 1)
               /\ gap.start <= B(i) /\ B(i + 1) <= gap.end
    <2>1. i \in 0 .. count /\ i + 1 \in 0 .. count
      BY <1>0
    <2> QED  BY <1>0, <1>1, <1>5, <2>1
  <1>7. ASSUME NEW i \in 0 .. count - 1, NEW j \in 0 .. count - 1, i < j
        PROVE  B(i + 1) <= B(j)
    <2>1. i + 1 \in 0 .. count /\ j \in 0 .. count /\ (i + 1 < j \/ i + 1 = j)
      BY <1>0, <1>7
    <2> QED  BY <1>1, <2>1
  <1>8. ASSUME NEW l \in Blocks(gap, count)
        PROVE  l \in Locations /\ gap.start <= l.start /\ l.end <= gap.end
    <2>1. PICK i \in 0 .. count - 1 : l = Block(i)
      BY <1>2
    <2> QED  BY <1>0, <1>3, <1>4, <1>6, <2>1 DEF Locations
  <1>9. ASSUME NEW l \in Blocks(gap, count), NEW k \in Blocks(gap, count), l # k
        PROVE  l.end <= k.start \/ k.end <= l.start
    <2>1. PICK i \in 0 .. count - 1 : l = Block(i)
      BY <1>2
    <2>2. PICK j \in 0 .. count - 1 : k = Block(j)
      BY <1>2
    <2>3. i < j \/ j < i
      BY <1>0, <1>9, <2>1, <2>2
    <2> QED  BY <1>3, <1>7, <2>1, <2>2, <2>3
  <1>10. ASSUME NEW t \in gap.start .. gap.end - 1
         PROVE  \E l \in Blocks(gap, count) : t \in Terms(l)
    <2> DEFINE S == {i \in 0 .. count - 1 : B(i) <= t}
    <2>1. S \in SUBSET (0 .. count - 1) /\ 0 \in S /\ count - 1 \in Nat /\ t \in Nat /\ t < B(count)
      BY <1>0, <1>1
    <2>2. PICK i \in S : \A j \in S : j <= i
      BY <2>1, Largest
    <2>3. t < B(i + 1)
      <3>1. CASE i + 1 = count
        BY <2>1, <3>1
      <3>2. CASE i + 1 # count
        <4>1. i + 1 \in 0 .. count - 1 /\ ~(i + 1 <= i) /\ B(i + 1) \in Nat
          BY <1>0, <1>6, <3>2
        <4>2. i + 1 \notin S
          BY <2>2, <4>1
        <4> QED  BY <2>1, <4>1, <4>2
      <3> QED  BY <3>1, <3>2
    <2>4. Block(i) \in Blocks(gap, count) /\ B(i) \in Nat /\ B(i) <= t /\ B(i + 1) \in Nat
      BY <1>2, <1>6, <2>2
    <2> QED  BY <1>3, <2>1, <2>3, <2>4 DEF Terms
  <1> QED  BY <1>8, <1>9, <1>10

\* Seeds and the blocks of the gaps between them are a partition, for any
\* cutoff and number of workers.
LEMMA LayoutPartitions ==
    ASSUME NEW accepted \in SUBSET Locations, Disjoint(accepted),
           NEW cutoff \in 1 .. TermCount, NEW most \in 1 .. TermCount
    PROVE  Partition(accepted \cup Leaves(accepted, cutoff, most))
  <1> DEFINE leaves == Leaves(accepted, cutoff, most)
             Count(g) == BoundedBlockCount(g.end - g.start, cutoff, most)
  <1>1. \A l \in leaves : \E g \in Gaps(accepted) : l \in Blocks(g, Count(g))
    BY DEF Leaves
  <1>2. \A g \in Gaps(accepted) : \A l \in Blocks(g, Count(g)) : l \in leaves
    BY DEF Leaves
  <1> HIDE DEF leaves
  <1>3. ASSUME NEW g \in Gaps(accepted)
        PROVE  /\ g.start \in 0 .. TermCount /\ g.end \in 0 .. TermCount /\ g.start < g.end
               /\ Count(g) \in 1 .. g.end - g.start
    <2>1. g.start \in 0 .. TermCount /\ g.end \in 0 .. TermCount /\ g.start < g.end
      BY GapsAreComplement
    <2>2. g.end - g.start \in Nat \ {0} /\ cutoff \in Nat \ {0} /\ most \in Nat \ {0}
      BY <2>1, CheckpointAssumption
    <2> QED  BY <2>1, <2>2, BlockCount
  <1> HIDE DEF Count
  <1>4. ASSUME NEW g \in Gaps(accepted)
        PROVE  /\ \A l \in Blocks(g, Count(g)) :
                     l \in Locations /\ g.start <= l.start /\ l.end <= g.end
               /\ \A l, k \in Blocks(g, Count(g)) : l # k => l.end <= k.start \/ k.end <= l.start
               /\ \A t \in g.start .. g.end - 1 : \E l \in Blocks(g, Count(g)) : t \in Terms(l)
    BY <1>3, BlocksTileTheGap
  <1>5. leaves \subseteq Locations
    BY <1>1, <1>4
  <1>6. ASSUME NEW l \in accepted, NEW k \in leaves PROVE Terms(l) \cap Terms(k) = {}
    <2>1. PICK g \in Gaps(accepted) : k \in Blocks(g, Count(g))
      BY <1>1
    <2>2. l.end <= g.start \/ g.end <= l.start
      BY GapsAreComplement
    <2>3. g.start <= k.start /\ k.end <= g.end /\ g.start \in Nat /\ g.end \in Nat
      BY <1>3, <1>4, <2>1, CheckpointAssumption
    <2>4. l \in Locations /\ k \in Locations
      BY <1>5
    <2>5. l.end <= k.start \/ k.end <= l.start
      BY <2>2, <2>3, <2>4, LocationFields
    <2> QED  BY <2>4, <2>5, Apart
  <1>7. ASSUME NEW l \in leaves, NEW k \in leaves, l # k PROVE Terms(l) \cap Terms(k) = {}
    <2>1. PICK g \in Gaps(accepted) : l \in Blocks(g, Count(g))
      BY <1>1
    <2>2. PICK h \in Gaps(accepted) : k \in Blocks(h, Count(h))
      BY <1>1
    <2>3. l \in Locations /\ k \in Locations
      BY <1>5
    <2>4. CASE g = h
      BY <1>4, <1>7, <2>1, <2>2, <2>3, <2>4, Apart
    <2>5. CASE g # h
      <3>1. g.end <= h.start \/ h.end <= g.start
        BY <2>5, GapsAreComplement
      <3>2. /\ g.start <= l.start /\ l.end <= g.end /\ h.start <= k.start /\ k.end <= h.end
            /\ g.start \in Nat /\ g.end \in Nat /\ h.start \in Nat /\ h.end \in Nat
        BY <1>3, <1>4, <2>1, <2>2, CheckpointAssumption
      <3>3. l.end <= k.start \/ k.end <= l.start
        BY <2>3, <3>1, <3>2, LocationFields
      <3> QED  BY <2>3, <3>3, Apart
    <2> QED  BY <2>4, <2>5
  <1>8. Disjoint(accepted \cup leaves)
    BY <1>6, <1>7 DEF Disjoint
  <1>9. Covers(accepted \cup leaves)
    <2> SUFFICES ASSUME NEW t \in 0 .. TermCount - 1, \A l \in accepted : t \notin Terms(l)
                 PROVE  \E l \in leaves : t \in Terms(l)
      BY DEF Covers
    <2>1. PICK g \in Gaps(accepted) : g.start <= t /\ t < g.end
      BY GapsAreComplement
    <2>2. t \in g.start .. g.end - 1
      BY <1>3, <2>1, CheckpointAssumption
    <2> QED  BY <1>2, <1>4, <2>1, <2>2
  <1> QED  BY <1>5, <1>8, <1>9 DEF Partition, leaves

\* Two nodes of a partition that start at the same term are the same node.
LEMMA SameStart ==
    ASSUME NEW F, Partition(F), NEW l \in F, NEW k \in F, l.start = k.start
    PROVE  l = k
  <1>1. l \in Locations /\ k \in Locations
    BY DEF Partition
  <1>2. Terms(l) \cap Terms(k) # {}
    BY <1>1, LocationFields
  <1>3. QED
    BY <1>2 DEF Partition, Disjoint

\* A partition has finitely many nodes.
LEMMA PartitionFinite ==
    ASSUME NEW F, Partition(F)
    PROVE  IsFiniteSet(F)
  <1> DEFINE f == [l \in F |-> l.start]
  <1>1. \A l \in F : l.start \in 0 .. TermCount
    BY LocationFields, CheckpointAssumption DEF Partition
  <1>2. f \in [F -> 0 .. TermCount]
    BY <1>1
  <1>3. \A l, k \in F : f[l] = f[k] => l = k
    BY SameStart
  <1> HIDE DEF f
  <1>4. f \in Injection(F, 0 .. TermCount)
    BY <1>2, <1>3, Fun_IsInj
  <1>6. IsFiniteSet(0 .. TermCount)
    BY FS_Interval, CheckpointAssumption
  <1>7. QED
    BY <1>4, <1>6, FS_Injection

\* Nodes of a partition do not overlap.
LEMMA InOrder ==
    ASSUME NEW F, Partition(F), NEW l \in F, NEW k \in F, l # k
    PROVE  l.end <= k.start \/ k.end <= l.start
  BY Apart DEF Partition, Disjoint

\* Every node but the last one has a successor.
LEMMA Successor ==
    ASSUME NEW F, Partition(F), NEW l \in F, l.end # TermCount
    PROVE  \E r \in F : r.start = l.end
  <1>1. l \in Locations
    BY DEF Partition
  <1>2. l.end \in 0 .. TermCount - 1
    BY <1>1, LocationFields, CheckpointAssumption
  <1>3. PICK r \in F : l.end \in Terms(r)
    BY <1>2 DEF Partition, Covers
  <1>4. r \in Locations
    BY DEF Partition
  <1>5. r.start <= l.end /\ l.end < r.end
    BY <1>1, <1>3, <1>4, LocationFields DEF Terms
  <1>6. r # l
    BY <1>1, <1>5, LocationFields
  <1>7. l.end <= r.start \/ r.end <= l.start
    BY <1>6, InOrder
  <1>8. QED
    BY <1>1, <1>4, <1>5, <1>7, LocationFields

\* Every node but the first one has a predecessor.
LEMMA Predecessor ==
    ASSUME NEW F, Partition(F), NEW r \in F, r.start # 0
    PROVE  \E l \in F : r.start = l.end
  <1>1. r \in Locations
    BY DEF Partition
  <1>2. r.start - 1 \in 0 .. TermCount - 1
    BY <1>1, LocationFields, CheckpointAssumption
  <1>3. PICK l \in F : r.start - 1 \in Terms(l)
    BY <1>2 DEF Partition, Covers
  <1>4. l \in Locations
    BY DEF Partition
  <1>5. l.start <= r.start - 1 /\ r.start - 1 < l.end
    BY <1>1, <1>3, <1>4, LocationFields DEF Terms
  <1>6. r # l
    BY <1>1, <1>5, LocationFields
  <1>7. l.end <= r.start \/ r.end <= l.start
    BY <1>6, InOrder
  <1>8. QED
    BY <1>1, <1>4, <1>5, <1>7, LocationFields

\* Where a node stands in the frontier.
Before(F, l) == {k \in F : k.start < l.start}

\* The nodes before a node can be counted.
LEMMA BeforeCounted ==
    ASSUME NEW F, Partition(F), NEW l \in F
    PROVE  IsFiniteSet(Before(F, l)) /\ Cardinality(Before(F, l)) \in Nat
  <1>1. IsFiniteSet(F) /\ Before(F, l) \subseteq F
    BY PartitionFinite DEF Before
  <1>2. IsFiniteSet(Before(F, l))
    BY <1>1, FS_Subset
  <1>3. QED
    BY <1>2, FS_CardinalityType

\* The successor of a left one is a right one, and the other way round.
LEMMA NeighboursAlternate ==
    ASSUME NEW F, Partition(F), NEW l \in F, NEW r \in F, r.start = l.end
    PROVE  l \in LeftOfPair(F) <=> r \notin LeftOfPair(F)
  <1>1. l \in Locations /\ r \in Locations
    BY DEF Partition
  <1>2. Before(F, r) = Before(F, l) \cup {l}
    <2>1. \A k \in F : k.start < l.end <=> (k = l \/ k.start < l.start)
      <3> SUFFICES ASSUME NEW k \in F
                   PROVE  k.start < l.end <=> (k = l \/ k.start < l.start)
        OBVIOUS
      <3>1. k \in Locations
        BY DEF Partition
      <3>2. k # l => l.end <= k.start \/ k.end <= l.start
        BY InOrder
      <3>3. QED
        BY <1>1, <3>1, <3>2, LocationFields
    <2>2. QED
      BY <2>1 DEF Before
  <1>3. l \notin Before(F, l)
    BY <1>1, LocationFields DEF Before
  <1>4. IsFiniteSet(Before(F, l)) /\ Cardinality(Before(F, l)) \in Nat
    BY BeforeCounted
  <1>5. Cardinality(Before(F, r)) = Cardinality(Before(F, l)) + 1
    BY <1>2, <1>3, <1>4, FS_AddElement
  <1>6. \A n \in Nat : (n % 2 = 0) <=> ((n + 1) % 2 # 0)
    OBVIOUS
  <1>7. (Cardinality(Before(F, l)) % 2 = 0) <=> (Cardinality(Before(F, r)) % 2 # 0)
    BY <1>4, <1>5, <1>6
  <1>8. QED
    BY <1>7 DEF LeftOfPair, Before

\* The first node of a frontier is a left one.
LEMMA FirstIsLeft ==
    ASSUME NEW F, Partition(F), NEW l \in F, l.start = 0
    PROVE  l \in LeftOfPair(F)
  <1>1. \A k \in F : ~(k.start < l.start)
    BY LocationFields DEF Partition
  <1>2. Before(F, l) = {}
    BY <1>1 DEF Before
  <1>3. Cardinality(Before(F, l)) = 0
    BY <1>2, FS_EmptySet
  <1>4. QED
    BY <1>3 DEF LeftOfPair, Before

\* What the next level is made of: each node of it begins with a left one, and
\* ends where that one or its successor ends.
LEMMA NextLevelMember ==
    ASSUME NEW F, Partition(F), NEW x \in NextLevel(F)
    PROVE  \E l \in F :
              /\ l \in LeftOfPair(F)
              /\ \/ x = l /\ l.end = TermCount
                 \/ \E r \in F : r.start = l.end /\ x = Parent(l, r)
  <1>1. LeftOfPair(F) \subseteq F
    BY DEF LeftOfPair
  <1>2. CASE x \in {l \in LeftOfPair(F) : l.end = TermCount}
    BY <1>1, <1>2
  <1>3. CASE x \in {Parent(p[1], p[2]) :
                      p \in {q \in LeftOfPair(F) \X F : q[2].start = q[1].end}}
    <2>1. PICK p \in LeftOfPair(F) \X F : p[2].start = p[1].end /\ x = Parent(p[1], p[2])
      BY <1>3
    <2>2. p[1] \in LeftOfPair(F) /\ p[2] \in F
      OBVIOUS
    <2>3. QED
      BY <1>1, <2>1, <2>2
  <1>4. QED
    BY <1>2, <1>3 DEF NextLevel

\* The parent of two neighbours is a block location that holds the terms of both.
LEMMA ParentLocation ==
    ASSUME NEW l \in Locations, NEW r \in Locations, r.start = l.end
    PROVE  /\ Parent(l, r) \in Locations
           /\ Parent(l, r).start = l.start /\ Parent(l, r).end = r.end
           /\ \A t : t \in Terms(l) \/ t \in Terms(r) => t \in Terms(Parent(l, r))
  <1>1. Parent(l, r).start = l.start /\ Parent(l, r).end = r.end
    BY DEF Parent
  <1>2. AtMost(AtLeast(l.level, r.level) + 1, TreeLevels) \in 0 .. TreeLevels
    BY LocationFields, CheckpointAssumption DEF AtMost, AtLeast
  <1>3. l.start \in 0 .. TermCount /\ r.end \in 0 .. TermCount /\ l.start < r.end
    BY LocationFields, CheckpointAssumption
  <1>4. Parent(l, r) \in Locations
    BY <1>2, <1>3 DEF Parent, Locations
  <1>5. \A t : t \in Terms(l) \/ t \in Terms(r) => t \in Terms(Parent(l, r))
    BY <1>1, LocationFields DEF Terms
  <1>6. QED
    BY <1>1, <1>4, <1>5

\* A left node and its successor have their parent in the next level.
LEMMA ParentInNextLevel ==
    ASSUME NEW F, NEW l \in F, NEW r \in F, l \in LeftOfPair(F), r.start = l.end
    PROVE  Parent(l, r) \in NextLevel(F)
  <1> DEFINE p == <<l, r>>
  <1>1. p \in {q \in LeftOfPair(F) \X F : q[2].start = q[1].end}
    OBVIOUS
  <1>2. Parent(l, r) = Parent(p[1], p[2])
    OBVIOUS
  <1>3. QED
    BY <1>1, <1>2 DEF NextLevel

\* Merging neighbours pairwise, and carrying over a last one without a partner,
\* makes a partition of a partition.
LEMMA NextLevelPartitions ==
    ASSUME NEW F, Partition(F)
    PROVE  Partition(NextLevel(F))
  <1>1. F \subseteq Locations
    BY DEF Partition
  <1>2. NextLevel(F) \subseteq Locations
    BY <1>1, NextLevelMember, ParentLocation
  <1>3. ASSUME NEW x \in NextLevel(F), NEW y \in NextLevel(F), x # y
        PROVE  Terms(x) \cap Terms(y) = {}
    <2>1. PICK l \in F : /\ l \in LeftOfPair(F)
                         /\ \/ x = l /\ l.end = TermCount
                            \/ \E r \in F : r.start = l.end /\ x = Parent(l, r)
      BY NextLevelMember
    <2>2. PICK k \in F : /\ k \in LeftOfPair(F)
                         /\ \/ y = k /\ k.end = TermCount
                            \/ \E r \in F : r.start = k.end /\ y = Parent(k, r)
      BY NextLevelMember
    <2>3. l # k
      <3>1. SUFFICES ASSUME l = k PROVE x = y
        BY <1>3
      <3>2. \A r \in F : r.start = l.end => l.end # TermCount
        BY <1>1, LocationFields
      <3>3. \A r, q \in F : r.start = l.end /\ q.start = l.end => r = q
        BY SameStart
      <3>4. QED
        BY <2>1, <2>2, <3>1, <3>2, <3>3
    <2>4. ASSUME NEW a \in F, NEW b \in F, NEW u \in Locations, NEW v \in Locations,
                 a \in LeftOfPair(F), b \in LeftOfPair(F), a.end <= b.start, v.start = b.start,
                 \/ u = a
                 \/ \E r \in F : r.start = a.end /\ u = Parent(a, r)
          PROVE  u.end <= v.start
      <3>1. CASE u = a
        BY <2>4, <3>1
      <3>2. CASE \E r \in F : r.start = a.end /\ u = Parent(a, r)
        <4>1. PICK r \in F : r.start = a.end /\ u = Parent(a, r)
          BY <3>2
        <4>2. r \notin LeftOfPair(F)
          BY <2>4, <4>1, NeighboursAlternate
        <4>3. r.end <= b.start \/ b.end <= r.start
          BY <2>4, <4>2, InOrder
        <4>4. r.end <= b.start
          BY <1>1, <2>4, <4>1, <4>3, LocationFields
        <4>5. u.end = r.end
          BY <1>1, <4>1, ParentLocation
        <4>6. QED
          BY <2>4, <4>4, <4>5
      <3>3. QED
        BY <2>4, <3>1, <3>2
    <2>5. x \in Locations /\ y \in Locations
      BY <1>2
    <2>6. x.start = l.start /\ y.start = k.start
      BY <1>1, <2>1, <2>2, ParentLocation
    <2>7. l.end <= k.start \/ k.end <= l.start
      BY <2>3, InOrder
    <2>8. CASE l.end <= k.start
      BY <2>1, <2>2, <2>4, <2>5, <2>6, <2>8, Apart
    <2>9. CASE k.end <= l.start
      BY <2>1, <2>2, <2>4, <2>5, <2>6, <2>9, Apart
    <2>10. QED
      BY <2>7, <2>8, <2>9
  <1>4. ASSUME NEW t \in 0 .. TermCount - 1
        PROVE  \E x \in NextLevel(F) : t \in Terms(x)
    <2>1. PICK l \in F : t \in Terms(l)
      BY DEF Partition, Covers
    <2>2. \A a, b \in F : a \in LeftOfPair(F) /\ b.start = a.end => Parent(a, b) \in NextLevel(F)
      BY ParentInNextLevel
    <2>3. CASE l \in LeftOfPair(F) /\ l.end = TermCount
      BY <2>1, <2>3 DEF NextLevel
    <2>4. CASE l \in LeftOfPair(F) /\ l.end # TermCount
      <3>1. PICK r \in F : r.start = l.end
        BY <2>4, Successor
      <3>2. QED
        BY <1>1, <2>1, <2>2, <2>4, <3>1, ParentLocation
    <2>5. CASE l \notin LeftOfPair(F)
      <3>1. l.start # 0
        BY <2>5, FirstIsLeft
      <3>2. PICK k \in F : l.start = k.end
        BY <3>1, Predecessor
      <3>3. k \in LeftOfPair(F)
        BY <2>5, <3>2, NeighboursAlternate
      <3>4. QED
        BY <1>1, <2>1, <2>2, <3>2, <3>3, ParentLocation
    <2>6. QED
      BY <2>3, <2>4, <2>5
  <1>5. Disjoint(NextLevel(F)) /\ Covers(NextLevel(F))
    BY <1>3, <1>4 DEF Disjoint, Covers
  <1>6. QED
    BY <1>2, <1>5 DEF Partition

-----------------------------------------------------------------------------
(* The frontier is a partition at every stage, whatever the faults.        *)

Staged == {"stage", "write", "syncBlock", "syncManifest", "delete", "merge", "done"}

FrontierInv ==
    /\ TypeOK
    /\ Disjoint(nodes)
    /\ pc \in Staged => Covers(nodes)

\* The blocks the planner accepts do not overlap.
LEMMA AcceptedApart ==
    ASSUME TypeOK
    PROVE  Accepted \in SUBSET Locations /\ Disjoint(Accepted)
  BY DEF TypeOK, Accepted, Structural, Disjoint

\* Steps that end the process.
LEMMA VanishKeeps ==
    ASSUME Vanish
    PROVE  /\ pc' = "down" /\ suspects' = {} /\ nodes' = {} /\ entries' = {} /\ committed' = FALSE
           /\ unsaved' = {} /\ temp' = "none" /\ stale' = {}
           /\ Disjoint(nodes)'
  BY DEF Vanish, Goto, Disjoint

\* The frontier is a partition of the terms, whatever is left of the directory.
LEMMA FrontierStep ==
    ASSUME FrontierInv, [Next]_vars
    PROVE  FrontierInv'
  <1> USE DEF FrontierInv
  <1>0. TypeOK
    OBVIOUS
  <1>1. ASSUME NEW resume \in BOOLEAN, Launch(resume) PROVE FrontierInv'
    BY <1>1 DEF Launch, Goto, TypeOK, PCs, Staged, disk, writer, history
  <1>2. CASE Plan
    <2>1. nodes' = Accepted /\ pc' = "quarantine"
      BY <1>2 DEF Plan, Goto
    <2>2. Disjoint(nodes)'
      BY <1>0, <2>1, AcceptedApart
    <2>3. nodes' \in SUBSET Locations
      BY <1>0, <2>1, AcceptedApart
    <2>4. suspects' \in SUBSET Locations
      BY <1>2 DEF Plan
    <2>5. TypeOK'
      BY <1>2, <2>1, <2>3, <2>4 DEF Plan, TypeOK, PCs, disk, writer, history
    <2>6. QED
      BY <2>1, <2>2, <2>5 DEF Staged
  <1>3. ASSUME NEW l \in suspects, QuarantineMove(l) PROVE FrontierInv'
    BY <1>3 DEF QuarantineMove, Goto, TypeOK, Content, PCs, Staged, writer, history
  <1>4. ASSUME NEW l \in suspects, QuarantineFails(l) PROVE FrontierInv'
    BY <1>4 DEF QuarantineFails, TypeOK, Staged, disk, writer
  <1>5. CASE QuarantineSync
    BY <1>5 DEF QuarantineSync, Flush, Goto, TypeOK, PCs, Staged, writer, history
  <1>6. CASE QuarantineSyncFails
    BY <1>6 DEF QuarantineSyncFails, Goto, TypeOK, PCs, Staged, disk, writer
  <1>7. CASE Planned
    BY <1>7 DEF Planned, Goto, TypeOK, PCs, Staged, disk, history
  <1>8. ASSUME NEW cutoff \in 1 .. TermCount, NEW most \in 1 .. TermCount, Layout(cutoff, most)
        PROVE  FrontierInv'
    <2>1. nodes' = nodes \cup Leaves(nodes, cutoff, most)
      BY <1>8 DEF Layout
    <2>2. nodes \in SUBSET Locations
      BY DEF TypeOK
    <2>3. Partition(nodes \cup Leaves(nodes, cutoff, most))
      BY <2>2, LayoutPartitions
    <2>4. nodes' \in SUBSET Locations /\ Disjoint(nodes)' /\ Covers(nodes)'
      BY <2>1, <2>3 DEF Partition
    <2>5. TypeOK'
      BY <1>8, <2>4 DEF Layout, Goto, TypeOK, PCs, disk, writer, history
    <2>6. QED
      BY <2>4, <2>5
  <1>9. CASE MergeLevel
    <2>1. pc = "merge" /\ nodes' = NextLevel(nodes)
      BY <1>9 DEF MergeLevel
    <2>2. Partition(nodes)
      BY <2>1 DEF Partition, TypeOK, Staged
    <2>3. Partition(NextLevel(nodes))
      BY <2>2, NextLevelPartitions
    <2>4. nodes' \in SUBSET Locations /\ Disjoint(nodes)' /\ Covers(nodes)'
      BY <2>1, <2>3 DEF Partition
    <2>5. TypeOK'
      BY <1>9, <2>4 DEF MergeLevel, Goto, TypeOK, PCs, disk, writer, history
    <2>6. QED
      BY <2>4, <2>5
  <1>10. CASE Finish
    BY <1>10 DEF Finish, Goto, TypeOK, PCs, Staged, disk, writer, history
  <1>11. CASE Exit
    BY <1>11, VanishKeeps DEF Exit, TypeOK, PCs, Staged, disk
  <1>12. CASE CommitSkips
    BY <1>12 DEF CommitSkips, Goto, TypeOK, PCs, Staged, disk, writer, history
  <1>13. CASE CommitBegins
    BY <1>13 DEF CommitBegins, Goto, TypeOK, PCs, Staged, disk, history
  <1>14. CASE WriteTemp
    BY <1>14 DEF WriteTemp, TypeOK, Staged, disk, history
  <1>15. CASE SyncTemp
    BY <1>15 DEF SyncTemp, TypeOK, Staged, disk, history
  <1>16. ASSUME NEW l \in unsaved, RenameBlock(l) PROVE FrontierInv'
    BY <1>16 DEF RenameBlock, Goto, TypeOK, Content, PCs, Staged, history
  <1>17. CASE RenameManifest
    BY <1>17 DEF RenameManifest, Goto, TypeOK, PCs, Staged, history
  <1>18. CASE SyncBlock
    BY <1>18 DEF SyncBlock, Flush, Goto, TypeOK, PCs, Staged, writer, history
  <1>19. CASE SyncManifest
    BY <1>19 DEF SyncManifest, NoManifest, Flush, Superseded, Goto, TypeOK, PCs, Staged
  <1>20. ASSUME NEW l \in stale, Delete(l) PROVE FrontierInv'
    BY <1>20 DEF Delete, TypeOK, Content, Staged, history
  <1>21. ASSUME NEW l \in stale, DeleteFails(l) PROVE FrontierInv'
    BY <1>21 DEF DeleteFails, TypeOK, Staged, disk
  <1>22. CASE CommitEnds
    BY <1>22 DEF CommitEnds, Goto, TypeOK, PCs, Staged, disk, history
  <1>23. CASE WriteFails
    BY <1>23, VanishKeeps DEF WriteFails, TypeOK, PCs, Staged, disk
  <1>24. CASE SyncFails
    BY <1>24, VanishKeeps DEF SyncFails, TypeOK, PCs, Staged, disk
  <1>25. CASE Kill
    BY <1>25, VanishKeeps DEF Kill, TypeOK, PCs, Staged, disk
  <1>26. CASE PowerLoss
    <2>1. vBlock' \in [Locations -> Content]
      BY <1>26 DEF PowerLoss, TypeOK, Content
    <2>2. dBlock' = vBlock' /\ vManifest' \in SUBSET Locations /\ dManifest' \in SUBSET Locations
          /\ faults' \in Nat /\ published' = published
      BY <1>26 DEF PowerLoss, TypeOK
    <2>3. QED
      BY <1>26, <2>1, <2>2, VanishKeeps DEF PowerLoss, TypeOK, PCs, Staged
  <1>27. ASSUME NEW l \in Locations, DamageBlock(l) PROVE FrontierInv'
    BY <1>27 DEF DamageBlock, NoManifest, TypeOK, Content, Staged, writer
  <1>28. CASE DamageManifest
    BY <1>28 DEF DamageManifest, NoManifest, TypeOK, Staged, writer
  <1>29. CASE UNCHANGED vars
    BY <1>29 DEF vars, disk, writer, history, TypeOK, Staged
  <1>30. QED
    BY <1>1, <1>2, <1>3, <1>4, <1>5, <1>6, <1>7, <1>8, <1>9, <1>10, <1>11, <1>12, <1>13, <1>14,
       <1>15, <1>16, <1>17, <1>18, <1>19, <1>20, <1>21, <1>22, <1>23, <1>24, <1>25, <1>26, <1>27,
       <1>28, <1>29 DEF Next, Process, Fault

\* The inductive invariant behind the two theorems below.
THEOREM FrontierInvariant == Spec => []FrontierInv
  <1>1. Init => FrontierInv
    <2> SUFFICES ASSUME Init PROVE FrontierInv
      OBVIOUS
    <2>1. vBlock \in [Locations -> Content] /\ dBlock = vBlock
      BY DEF Init, Content
    <2>2. TypeOK
      BY <2>1 DEF Init, TypeOK, PCs, NoManifest
    <2>3. Disjoint(nodes) /\ pc \notin Staged
      BY DEF Init, Disjoint, Staged
    <2>4. QED
      BY <2>2, <2>3 DEF FrontierInv
  <1>2. FrontierInv /\ [Next]_vars => FrontierInv'
    BY FrontierStep
  <1>3. QED
    BY <1>1, <1>2, PTL DEF Spec

\* Every variable keeps its type; a merged node is a block location of the
\* computation, its tree level included.
THEOREM CheckpointTypeCorrect == Spec => []TypeOK
  <1>1. FrontierInv => TypeOK
    BY DEF FrontierInv
  <1>2. QED
    BY <1>1, FrontierInvariant, PTL

\* For any number of terms, any subset of usable blocks and any cutting of the
\* gaps, the frontier that is merged and committed covers every term once.
THEOREM FrontierIsPartition == Spec => []FrontierPartitions
  <1>1. FrontierInv => FrontierPartitions
    BY DEF FrontierInv, FrontierPartitions, Staged, Disjoint
  <1>2. QED
    BY <1>1, FrontierInvariant, PTL

-----------------------------------------------------------------------------
(* What a power loss leaves.  The faults are power loss and failed writes; *)
(* a run may be started with or without --resume.                          *)

PowerAndWriteFaults == Faults \subseteq {"powerLoss", "writeError"}

Whole(frontier) == Disjoint(frontier) /\ (frontier # {} => Covers(frontier))

\* A block file is never torn: its content is synced before it has its name.
BlocksWhole == \A l \in Locations : vBlock[l] \in {"absent", "good"} /\ dBlock[l] \in {"absent", "good"}

\* The manifest on the medium lags behind only until its directory is synced.
ManifestsWhole ==
    /\ Whole(vManifest) /\ Whole(dManifest)
    /\ published # {} => vManifest # {} /\ dManifest # {}
    /\ pc # "syncManifest" => vManifest = dManifest
    /\ pc \in {"syncManifest", "delete"} => vManifest = nodes

\* What the process is about to remove is not in the manifest, and what it is
\* about to refer to is stored.
ProcessSafe ==
    /\ pc \notin {"syncManifest", "delete"} => entries \subseteq vManifest
    /\ pc \in {"down", "plan"} => nodes = {} /\ entries = {}
    /\ pc \in {"quarantine", "quarantineSync"} => suspects \cap vManifest = {} /\ nodes = vManifest
    /\ pc = "layout" => nodes = {} \/ nodes = vManifest
    /\ pc = "write" => \A l \in nodes \ unsaved : vBlock[l] = "good" /\ dBlock[l] = "good"
    /\ pc = "syncBlock" => \A l \in nodes \ unsaved : vBlock[l] = "good"
    /\ pc = "delete" => stale \cap nodes = {}
    /\ pc = "merge" => Cardinality(nodes) # 1 \/ nodes = vManifest
    /\ pc = "done" => nodes = vManifest

SafeInv == BlocksWhole /\ ManifestIsBacked /\ ManifestsWhole /\ ProcessSafe

\* With whole blocks and a backed manifest the planner accepts all of it.
LEMMA AllAccepted ==
    ASSUME TypeOK, ManifestIsBacked, Disjoint(vManifest)
    PROVE  Accepted = vManifest
  BY DEF TypeOK, ManifestIsBacked, Backed, Disjoint, Accepted, Structural, Inspected

\* A frontier that covers the terms is not empty.
LEMMA CoversNonempty ==
    ASSUME NEW F, Covers(F)
    PROVE  F # {}
  BY CheckpointAssumption DEF Covers

\* A step that changes no file, and that ends the process.
LEMMA SafeVanish ==
    ASSUME SafeInv, Vanish, pc # "syncManifest", UNCHANGED <<disk, published>>
    PROVE  SafeInv'
  BY VanishKeeps DEF SafeInv, BlocksWhole, ManifestIsBacked, Backed, ManifestsWhole, ProcessSafe, disk

\* Every step keeps the manifest backed.
LEMMA SafeStep ==
    ASSUME PowerAndWriteFaults, FrontierInv, SafeInv, [Next]_vars, FrontierInv'
    PROVE  SafeInv'
  <1> USE DEF SafeInv, BlocksWhole, ManifestIsBacked, Backed, ManifestsWhole, ProcessSafe
  <1>0. TypeOK
    BY DEF FrontierInv
  <1>a. "kill" \notin Faults /\ "syncError" \notin Faults /\ "damage" \notin Faults
    BY DEF PowerAndWriteFaults
  <1>1. ASSUME NEW resume \in BOOLEAN, Launch(resume) PROVE SafeInv'
    BY <1>1 DEF Launch, Goto, disk, writer, history
  <1>2. CASE Plan
    <2>1. Accepted = vManifest
      BY <1>0, AllAccepted DEF Whole
    <2>2. QED
      BY <1>2, <2>1 DEF Plan, Goto, disk, writer, history
  <1>3. ASSUME NEW l \in suspects, QuarantineMove(l) PROVE SafeInv'
    BY <1>0, <1>3 DEF QuarantineMove, Goto, TypeOK, writer, history
  <1>4. ASSUME NEW l \in suspects, QuarantineFails(l) PROVE SafeInv'
    BY <1>4 DEF QuarantineFails, disk, writer
  <1>5. CASE QuarantineSync
    BY <1>5 DEF QuarantineSync, Flush, Goto, writer, history
  <1>6. CASE QuarantineSyncFails
    BY <1>a, <1>6 DEF QuarantineSyncFails
  <1>7. CASE Planned
    BY <1>7 DEF Planned, Goto, disk, history
  <1>8. ASSUME NEW cutoff \in 1 .. TermCount, NEW most \in 1 .. TermCount, Layout(cutoff, most)
        PROVE  SafeInv'
    <2>1. CASE Leaves(nodes, cutoff, most) = {}
      <3>1. nodes' = nodes /\ pc' = "merge" /\ pc = "layout"
        BY <1>8, <2>1 DEF Layout, Goto
      <3>2. nodes # {}
        BY <3>1, CoversNonempty DEF FrontierInv, Staged
      <3>3. QED
        BY <1>8, <3>1, <3>2 DEF Layout, disk, writer, history
    <2>2. CASE Leaves(nodes, cutoff, most) # {}
      BY <1>8, <2>2 DEF Layout, Goto, disk, writer, history
    <2>3. QED
      BY <2>1, <2>2
  <1>9. CASE MergeLevel
    BY <1>9 DEF MergeLevel, Goto, disk, writer, history
  <1>10. CASE Finish
    BY <1>10 DEF Finish, Goto, disk, writer, history
  <1>11. CASE Exit
    BY <1>11, SafeVanish DEF Exit
  <1>12. CASE CommitSkips
    BY <1>12 DEF CommitSkips, MayWait, Goto, disk, writer, history
  <1>13. CASE CommitBegins
    BY <1>13 DEF CommitBegins, Goto, disk, history
  <1>14. CASE WriteTemp
    BY <1>14 DEF WriteTemp, disk, history
  <1>15. CASE SyncTemp
    BY <1>15 DEF SyncTemp, disk, history
  <1>16. ASSUME NEW l \in unsaved, RenameBlock(l) PROVE SafeInv'
    <2>1. vBlock' = [vBlock EXCEPT ![l] = "good"] /\ pc' = "syncBlock" /\ unsaved' = unsaved \ {l}
      BY <1>16 DEF RenameBlock, TempReady, Goto
    <2>2. QED
      BY <1>0, <1>16, <2>1 DEF RenameBlock, TypeOK, history
  <1>17. CASE RenameManifest
    <2>1. pc = "write" /\ unsaved = {} /\ vManifest' = nodes /\ pc' = "syncManifest" /\ nodes' = nodes
      BY <1>17 DEF RenameManifest, Goto
    <2>2. Whole(nodes) /\ nodes # {}
      BY <2>1, CoversNonempty DEF FrontierInv, Staged, Whole
    <2>3. QED
      BY <1>17, <2>1, <2>2 DEF RenameManifest, history
  <1>18. CASE SyncBlock
    BY <1>18 DEF SyncBlock, Flush, Goto, writer, history
  <1>19. CASE SyncManifest
    BY <1>19 DEF SyncManifest, Flush, Superseded, Goto
  <1>20. ASSUME NEW l \in stale, Delete(l) PROVE SafeInv'
    BY <1>0, <1>20 DEF Delete, TypeOK, history
  <1>21. ASSUME NEW l \in stale, DeleteFails(l) PROVE SafeInv'
    BY <1>21 DEF DeleteFails, disk
  <1>22. CASE CommitEnds
    BY <1>22 DEF CommitEnds, Goto, disk, history
  <1>23. CASE WriteFails
    BY <1>23, SafeVanish DEF WriteFails
  <1>24. CASE SyncFails
    BY <1>a, <1>24 DEF SyncFails
  <1>25. CASE Kill
    BY <1>a, <1>25 DEF Kill
  <1>26. CASE PowerLoss
    <2>1. PICK lost \in SUBSET {l \in Locations : vBlock[l] # dBlock[l]} :
            vBlock' = [l \in Locations |->
                        LET survivor == IF l \in lost THEN dBlock[l] ELSE vBlock[l]
                        IN IF survivor = "cached" THEN "bad" ELSE survivor]
      BY <1>26 DEF PowerLoss
    <2>2. \A l \in Locations : vBlock'[l] = IF l \in lost THEN dBlock[l] ELSE vBlock[l]
      BY <2>1
    <2>3. dBlock' = vBlock' /\ dManifest' = vManifest' /\ published' = published
          /\ (vManifest' = vManifest \/ vManifest' = dManifest)
      BY <1>26 DEF PowerLoss
    <2>4. pc' = "down" /\ nodes' = {} /\ entries' = {}
      BY <1>26, VanishKeeps DEF PowerLoss
    <2>5. BlocksWhole'
      BY <2>2, <2>3
    <2>6. ManifestIsBacked'
      BY <1>0, <2>2, <2>3 DEF TypeOK
    <2>7. ManifestsWhole'
      BY <2>3, <2>4
    <2>8. ProcessSafe'
      BY <2>4
    <2>9. QED
      BY <2>5, <2>6, <2>7, <2>8
  <1>27. ASSUME NEW l \in Locations, DamageBlock(l) PROVE SafeInv'
    BY <1>a, <1>27 DEF DamageBlock
  <1>28. CASE DamageManifest
    BY <1>a, <1>28 DEF DamageManifest
  <1>29. CASE UNCHANGED vars
    BY <1>29 DEF vars, disk, writer, history
  <1>30. QED
    BY <1>1, <1>2, <1>3, <1>4, <1>5, <1>6, <1>7, <1>8, <1>9, <1>10, <1>11, <1>12, <1>13, <1>14,
       <1>15, <1>16, <1>17, <1>18, <1>19, <1>20, <1>21, <1>22, <1>23, <1>24, <1>25, <1>26, <1>27,
       <1>28, <1>29 DEF Next, Process, Fault

\* The inductive invariant behind the theorems about power loss.
THEOREM SafeInvariant == PowerAndWriteFaults /\ Spec => [](FrontierInv /\ SafeInv)
  <1> SUFFICES ASSUME PowerAndWriteFaults PROVE Spec => [](FrontierInv /\ SafeInv)
    OBVIOUS
  <1>1. Init => SafeInv
    <2> SUFFICES ASSUME Init PROVE SafeInv
      OBVIOUS
    <2>1. BlocksWhole
      BY DEF Init, BlocksWhole
    <2>2. ManifestIsBacked /\ ManifestsWhole /\ ProcessSafe
      BY DEF Init, NoManifest, ManifestIsBacked, Backed, ManifestsWhole, Whole, Disjoint, ProcessSafe
    <2>3. QED
      BY <2>1, <2>2 DEF SafeInv
  <1>2. FrontierInv /\ SafeInv /\ [Next]_vars /\ FrontierInv' => SafeInv'
    BY SafeStep
  <1>3. QED
    BY <1>1, <1>2, FrontierInvariant, PTL DEF Spec

\* Whatever a power loss leaves of an unsynced directory, the manifest that
\* survives refers to blocks that survive with it.
THEOREM ManifestStaysBacked == PowerAndWriteFaults /\ Spec => []ManifestIsBacked
  <1>1. SafeInv => ManifestIsBacked
    BY DEF SafeInv
  <1>2. QED
    BY <1>1, SafeInvariant, PTL

\* After a frontier has been committed, a resumed run has nothing to recompute.
THEOREM ResumeFindsEverything == PowerAndWriteFaults /\ Spec => []RestartLosesNothing
  <1>1. FrontierInv /\ SafeInv => RestartLosesNothing
    <2> SUFFICES ASSUME FrontierInv, SafeInv, published # NoManifest PROVE Covers(Accepted)
      BY DEF RestartLosesNothing
    <2>1. vManifest # {} /\ Whole(vManifest)
      BY DEF SafeInv, ManifestsWhole, NoManifest
    <2>2. Accepted = vManifest
      BY <2>1, AllAccepted DEF FrontierInv, SafeInv, Whole
    <2>3. QED
      BY <2>1, <2>2 DEF Whole
  <1>2. QED
    BY <1>1, SafeInvariant, PTL

\* A run that ends has published its result.
THEOREM ResultIsDurable == PowerAndWriteFaults /\ Spec => []DoneIsDurable
  <1>1. FrontierInv /\ SafeInv => DoneIsDurable
    BY DEF FrontierInv, SafeInv, ManifestsWhole, ProcessSafe, DoneIsDurable, Staged
  <1>2. QED
    BY <1>1, SafeInvariant, PTL

-----------------------------------------------------------------------------
(* The durable frontier only gets coarser, if every run resumes.           *)

Coarsened(old, new) == \A l \in old : \E k \in new : Terms(l) \subseteq Terms(k)

\* What the process works on is at least as coarse as what is on the medium.
GrowthInv == pc \notin {"down", "plan"} => Coarsened(dManifest, nodes)

\* No node of a partition is split by merging.
LEMMA NextLevelCoarsens ==
    ASSUME NEW F, Partition(F)
    PROVE  Coarsened(F, NextLevel(F))
  <1> SUFFICES ASSUME NEW l \in F
               PROVE  \E x \in NextLevel(F) : Terms(l) \subseteq Terms(x)
    BY DEF Coarsened
  <1>1. F \subseteq Locations
    BY DEF Partition
  <1>2. CASE l \in LeftOfPair(F) /\ l.end = TermCount
    BY <1>2 DEF NextLevel
  <1>3. CASE l \in LeftOfPair(F) /\ l.end # TermCount
    <2>1. PICK r \in F : r.start = l.end
      BY <1>3, Successor
    <2>2. Parent(l, r) \in NextLevel(F)
      BY <1>3, <2>1, ParentInNextLevel
    <2>3. QED
      BY <1>1, <2>1, <2>2, ParentLocation
  <1>4. CASE l \notin LeftOfPair(F)
    <2>1. l.start # 0
      BY <1>4, FirstIsLeft
    <2>2. PICK k \in F : l.start = k.end
      BY <2>1, Predecessor
    <2>3. Parent(k, l) \in NextLevel(F)
      BY <1>4, <2>2, NeighboursAlternate, ParentInNextLevel
    <2>4. QED
      BY <1>1, <2>2, <2>3, ParentLocation
  <1>5. QED
    BY <1>2, <1>3, <1>4

\* Coarsening twice is coarsening.
LEMMA CoarsenedTransitive ==
    ASSUME NEW F, NEW G, NEW H, Coarsened(F, G), Coarsened(G, H)
    PROVE  Coarsened(F, H)
  <1> SUFFICES ASSUME NEW l \in F PROVE \E h \in H : Terms(l) \subseteq Terms(h)
    BY DEF Coarsened
  <1>1. PICK k \in G : Terms(l) \subseteq Terms(k)
    BY DEF Coarsened
  <1>2. PICK h \in H : Terms(k) \subseteq Terms(h)
    BY DEF Coarsened
  <1>3. QED
    BY <1>1, <1>2

\* Every step keeps the frontier as coarse as the durable manifest, and leaves
\* a manifest that is as coarse as the one before it.
LEMMA GrowthStep ==
    ASSUME PowerAndWriteFaults, ~FreshRuns, FrontierInv, SafeInv, GrowthInv, [Next]_vars, SafeInv'
    PROVE  GrowthInv' /\ Coarsened(dManifest, dManifest') /\ (dManifest # {} => dManifest' # {})
  <1>1. \A F : Coarsened(F, F)
    BY DEF Coarsened
  <1>a. "kill" \notin Faults /\ "syncError" \notin Faults /\ "damage" \notin Faults
    BY DEF PowerAndWriteFaults
  <1>b. pc # "syncManifest" => vManifest = dManifest
    BY DEF SafeInv, ManifestsWhole
  <1> DEFINE Same == dManifest' = dManifest
             Kept == nodes' = nodes /\ (pc' \notin {"down", "plan"} => pc \notin {"down", "plan"})
  <1>2. ASSUME Same, Kept \/ pc' \in {"down", "plan"}
        PROVE  GrowthInv' /\ Coarsened(dManifest, dManifest') /\ (dManifest # {} => dManifest' # {})
    BY <1>1, <1>2 DEF GrowthInv
  <1>3. CASE Plan
    <2>1. Accepted = vManifest
      BY AllAccepted DEF FrontierInv, SafeInv, ManifestsWhole, Whole
    <2>2. nodes' = dManifest /\ Same
      BY <1>3, <1>b, <2>1 DEF Plan, disk
    <2>3. QED
      BY <1>1, <2>2 DEF GrowthInv
  <1>4. ASSUME NEW cutoff \in 1 .. TermCount, NEW most \in 1 .. TermCount, Layout(cutoff, most)
        PROVE  GrowthInv' /\ Coarsened(dManifest, dManifest') /\ (dManifest # {} => dManifest' # {})
    <2>1. pc = "layout" /\ nodes \subseteq nodes' /\ Same
      BY <1>4 DEF Layout, disk
    <2>2. QED
      BY <1>1, <2>1 DEF GrowthInv, Coarsened
  <1>5. CASE MergeLevel
    <2>1. pc = "merge" /\ nodes' = NextLevel(nodes) /\ Same
      BY <1>5 DEF MergeLevel, disk
    <2>2. Partition(nodes)
      BY <2>1 DEF FrontierInv, TypeOK, Partition, Staged
    <2>3. Coarsened(dManifest, nodes) /\ Coarsened(nodes, NextLevel(nodes))
      BY <2>1, <2>2, NextLevelCoarsens DEF GrowthInv
    <2>4. QED
      BY <1>1, <2>1, <2>3, CoarsenedTransitive DEF GrowthInv
  <1>6. CASE SyncManifest
    <2>1. pc = "syncManifest" /\ dManifest' = nodes /\ nodes' = nodes
      BY <1>6 DEF SyncManifest, Flush, SafeInv, ManifestsWhole
    <2>2. nodes # {}
      BY <2>1, CoversNonempty DEF FrontierInv, Staged
    <2>3. QED
      BY <1>1, <2>1, <2>2 DEF GrowthInv
  <1>7. CASE PowerLoss
    <2>1. pc' = "down" /\ (dManifest' = dManifest \/ dManifest' = vManifest)
      BY <1>7, VanishKeeps DEF PowerLoss
    <2>2. CASE dManifest' = dManifest
      BY <1>1, <2>1, <2>2 DEF GrowthInv
    <2>3. CASE dManifest' # dManifest
      <3>1. pc = "syncManifest" /\ dManifest' = nodes
        BY <1>b, <2>1, <2>3 DEF SafeInv, ManifestsWhole
      <3>2. nodes # {}
        BY <3>1, CoversNonempty DEF FrontierInv, Staged
      <3>3. QED
        BY <2>1, <3>1, <3>2 DEF GrowthInv
    <2>4. QED
      BY <2>2, <2>3
  <1>8. CASE Launch(TRUE)
    BY <1>2, <1>8 DEF Launch, Goto, disk
  <1>9. CASE QuarantineSync \/ SyncBlock
    BY <1>2, <1>9, <1>b DEF QuarantineSync, SyncBlock, Flush, Goto
  <1>10. CASE Exit \/ WriteFails
    BY <1>2, <1>10, VanishKeeps DEF Exit, WriteFails, disk
  <1>11. CASE (\E l \in suspects : QuarantineMove(l) \/ QuarantineFails(l)) \/ Planned
    BY <1>2, <1>11 DEF QuarantineMove, QuarantineFails, Planned, Goto, disk
  <1>12. CASE Finish \/ CommitSkips \/ CommitBegins \/ WriteTemp \/ SyncTemp \/ CommitEnds
    BY <1>2, <1>12 DEF Finish, CommitSkips, CommitBegins, WriteTemp, SyncTemp, CommitEnds, Goto, disk
  <1>13. CASE (\E l \in unsaved : RenameBlock(l)) \/ RenameManifest
              \/ (\E l \in stale : Delete(l) \/ DeleteFails(l))
    BY <1>2, <1>13 DEF RenameBlock, RenameManifest, Delete, DeleteFails, Goto, disk
  <1>14. CASE UNCHANGED vars
    BY <1>2, <1>14 DEF vars, disk
  <1>15. CASE QuarantineSyncFails \/ SyncFails \/ Kill \/ (\E l \in Locations : DamageBlock(l))
              \/ DamageManifest
    BY <1>a, <1>15 DEF QuarantineSyncFails, SyncFails, Kill, DamageBlock, DamageManifest
  <1>16. QED
    BY <1>3, <1>4, <1>5, <1>6, <1>7, <1>8, <1>9, <1>10, <1>11, <1>12, <1>13, <1>14, <1>15
       DEF Next, Process, Fault

\* Over all runs that resume, no block of the durable frontier is ever split up
\* again and a published manifest is never lost.
THEOREM DurableFrontierGrows == PowerAndWriteFaults /\ ~FreshRuns /\ Spec => FrontierOnlyGrows
  <1> SUFFICES ASSUME PowerAndWriteFaults, ~FreshRuns PROVE Spec => FrontierOnlyGrows
    OBVIOUS
  <1>1. Init => GrowthInv
    BY DEF Init, GrowthInv
  <1>2. FrontierInv /\ SafeInv /\ GrowthInv /\ [Next]_vars /\ SafeInv' => GrowthInv'
    BY GrowthStep
  <1>3. FrontierInv /\ SafeInv /\ GrowthInv /\ [Next]_vars /\ SafeInv'
          => [dManifest # NoManifest =>
                 dManifest' # NoManifest
                 /\ \A l \in dManifest : \E k \in dManifest' : Terms(l) \subseteq Terms(k)]_vars
    BY GrowthStep DEF Coarsened, NoManifest
  <1>4. Spec => [](FrontierInv /\ SafeInv)
    BY SafeInvariant
  <1>5. QED
    BY <1>1, <1>2, <1>3, <1>4, PTL DEF Spec, FrontierOnlyGrows
-----------------------------------------------------------------------------
(* What the death of a process leaves.  Every fault but a power loss: the  *)
(* process may be killed anywhere, any write, fsync or removal may fail,   *)
(* any file may go bad, and a run may be started without --resume.         *)

ProcessFaults == "powerLoss" \notin Faults

\* Only the fsync of the manifest may leave out of entries_ what it names.
Committing == {"syncManifest", "delete"}

\* A manifest names disjoint blocks, and all terms, or it is gone.
ManifestWhole ==
    /\ Whole(vManifest)
    /\ pc \in Committing => vManifest = nodes \/ vManifest = {}
    /\ pc \notin Committing => entries \subseteq vManifest \/ vManifest = {}

\* Files that the process still needs are there, good or bad; what it removes
\* is bad or nobody's.
FilesKept ==
    /\ pc \in {"down", "plan"} => nodes = {} /\ entries = {}
    /\ pc \in {"quarantine", "quarantineSync"} =>
          /\ entries = {} /\ (nodes \subseteq vManifest \/ vManifest = {})
          /\ \A l \in nodes : l \notin suspects /\ vBlock[l] # "absent"
          /\ \A l \in suspects \cap vManifest : vBlock[l] = "bad"
    /\ \A l \in entries : vBlock[l] # "absent" \/ (pc = "delete" /\ l \notin nodes)
    /\ pc \in {"write", "syncBlock"} => \A l \in nodes \ unsaved : vBlock[l] # "absent"
    /\ pc \in Committing => \A l \in nodes : vBlock[l] # "absent"
    /\ pc = "delete" => stale \cap nodes = {} /\ stale \subseteq entries

\* While a committed frontier is accounted for, no file that matters is bad.
FrontierUsable ==
    published # {} =>
        /\ vManifest # {}
        /\ \A l \in vManifest : Inspected(l)
        /\ pc \in {"write", "syncBlock"} => \A l \in nodes \ unsaved : Inspected(l)

CrashInv == ManifestWhole /\ FilesKept /\ FrontierUsable

\* The end of a process, with every file as it is.
LEMMA CrashVanish ==
    ASSUME CrashInv, Vanish, UNCHANGED <<disk, published>>
    PROVE  CrashInv'
  BY VanishKeeps DEF CrashInv, ManifestWhole, FilesKept, FrontierUsable, Committing, Inspected, disk

\* Every step keeps the files that somebody needs.
LEMMA CrashStep ==
    ASSUME ProcessFaults, FrontierInv, CrashInv, [Next]_vars, FrontierInv'
    PROVE  CrashInv'
  <1> USE DEF CrashInv, ManifestWhole, FilesKept, FrontierUsable, Committing, Inspected
  <1>0. TypeOK
    BY DEF FrontierInv
  <1>1. ASSUME NEW resume \in BOOLEAN, Launch(resume) PROVE CrashInv'
    BY <1>1 DEF Launch, Goto, disk, writer, history
  <1>2. CASE Plan
    <2>1. /\ Accepted \subseteq vManifest /\ \A l \in Accepted : Inspected(l)
          /\ \A l \in vManifest : Inspected(l) => l \in Accepted
      BY <1>0 DEF TypeOK, Accepted, Structural, Whole, Disjoint
    <2>2. \A l \in Locations : vBlock[l] \in Content
      BY <1>0 DEF TypeOK
    <2>3. \A l \in suspects' \cap vManifest : vBlock[l] = "bad"
      BY <1>2, <2>1, <2>2 DEF Plan, Content
    <2>4. \A l \in nodes' : l \notin suspects' /\ vBlock[l] # "absent"
      BY <1>2, <2>1 DEF Plan
    <2>5. QED
      BY <1>2, <2>1, <2>3, <2>4 DEF Plan, Goto, disk, writer, history
  <1>3. ASSUME NEW l \in suspects, QuarantineMove(l) PROVE CrashInv'
    BY <1>0, <1>3 DEF QuarantineMove, Goto, TypeOK, writer, history
  <1>4. ASSUME NEW l \in suspects, QuarantineFails(l) PROVE CrashInv'
    BY <1>4 DEF QuarantineFails, disk, writer
  <1>5. CASE QuarantineSync
    BY <1>5 DEF QuarantineSync, Flush, Goto, writer, history
  <1>6. CASE QuarantineSyncFails
    BY <1>6 DEF QuarantineSyncFails, Goto, disk, writer
  <1>7. CASE Planned
    BY <1>7 DEF Planned, Goto, disk, history
  <1>8. ASSUME NEW cutoff \in 1 .. TermCount, NEW most \in 1 .. TermCount, Layout(cutoff, most)
        PROVE  CrashInv'
    BY <1>8 DEF Layout, Goto, disk, writer, history
  <1>9. CASE MergeLevel
    BY <1>9 DEF MergeLevel, Goto, disk, writer, history
  <1>10. CASE Finish
    BY <1>10 DEF Finish, Goto, disk, writer, history
  <1>11. CASE Exit
    BY <1>11, CrashVanish DEF Exit
  <1>12. CASE CommitSkips
    BY <1>12 DEF CommitSkips, MayWait, Goto, disk, writer, history
  <1>13. CASE CommitBegins
    BY <1>13 DEF CommitBegins, Goto, disk, history
  <1>14. CASE WriteTemp
    BY <1>14 DEF WriteTemp, disk, history
  <1>15. CASE SyncTemp
    BY <1>15 DEF SyncTemp, disk, history
  <1>16. ASSUME NEW l \in unsaved, RenameBlock(l) PROVE CrashInv'
    <2>1. vBlock' = [vBlock EXCEPT ![l] = "good"] /\ pc' = "syncBlock" /\ unsaved' = unsaved \ {l}
      BY <1>16 DEF RenameBlock, TempReady, Goto
    <2>2. QED
      BY <1>0, <1>16, <2>1 DEF RenameBlock, TypeOK, history
  <1>17. CASE RenameManifest
    <2>1. pc = "write" /\ unsaved = {} /\ vManifest' = nodes /\ pc' = "syncManifest" /\ nodes' = nodes
      BY <1>17 DEF RenameManifest, Goto
    <2>2. Whole(nodes) /\ nodes # {}
      BY <2>1, CoversNonempty DEF FrontierInv, Staged, Whole
    <2>3. QED
      BY <1>17, <2>1, <2>2 DEF RenameManifest, history
  <1>18. CASE SyncBlock
    BY <1>18 DEF SyncBlock, Flush, Goto, writer, history
  <1>19. CASE SyncManifest
    <2>1. \A l \in nodes : vBlock[l] = "bad" \/ Inspected(l)
      BY <1>0, <1>19 DEF SyncManifest, TypeOK, Content
    <2>2. QED
      BY <1>19, <2>1 DEF SyncManifest, Superseded, Goto, NoManifest
  <1>20. ASSUME NEW l \in stale, Delete(l) PROVE CrashInv'
    BY <1>0, <1>20 DEF Delete, TypeOK, history
  <1>21. ASSUME NEW l \in stale, DeleteFails(l) PROVE CrashInv'
    BY <1>21 DEF DeleteFails, disk
  <1>22. CASE CommitEnds
    BY <1>22 DEF CommitEnds, Goto, disk, history
  <1>23. CASE WriteFails
    BY <1>23, CrashVanish DEF WriteFails
  <1>24. CASE SyncFails
    BY <1>24, CrashVanish DEF SyncFails
  <1>25. CASE Kill
    BY <1>25, CrashVanish DEF Kill
  <1>26. CASE PowerLoss
    BY <1>26 DEF PowerLoss, ProcessFaults
  <1>27. ASSUME NEW l \in Locations, DamageBlock(l) PROVE CrashInv'
    BY <1>0, <1>27 DEF DamageBlock, TypeOK, NoManifest, writer
  <1>28. CASE DamageManifest
    BY <1>28 DEF DamageManifest, NoManifest, Whole, Disjoint, writer
  <1>29. CASE UNCHANGED vars
    BY <1>29 DEF vars, disk, writer, history
  <1>30. QED
    BY <1>1, <1>2, <1>3, <1>4, <1>5, <1>6, <1>7, <1>8, <1>9, <1>10, <1>11, <1>12, <1>13, <1>14,
       <1>15, <1>16, <1>17, <1>18, <1>19, <1>20, <1>21, <1>22, <1>23, <1>24, <1>25, <1>26, <1>27,
       <1>28, <1>29 DEF Next, Process, Fault

\* The inductive invariant behind the theorems about processes that die.
THEOREM CrashInvariant == ProcessFaults /\ Spec => [](FrontierInv /\ CrashInv)
  <1> SUFFICES ASSUME ProcessFaults PROVE Spec => [](FrontierInv /\ CrashInv)
    OBVIOUS
  <1>1. Init => CrashInv
    BY DEF Init, NoManifest, CrashInv, ManifestWhole, FilesKept, FrontierUsable, Whole, Disjoint,
           Committing
  <1>2. FrontierInv /\ CrashInv /\ [Next]_vars /\ FrontierInv' => CrashInv'
    BY CrashStep
  <1>3. QED
    BY <1>1, <1>2, FrontierInvariant, PTL DEF Spec

\* However a process dies, and whichever write, fsync or removal fails, a
\* resumed run has nothing to recompute once a frontier has been committed,
\* unless a file went bad.
THEOREM CrashLosesNothing == ProcessFaults /\ Spec => []RestartLosesNothing
  <1>1. FrontierInv /\ CrashInv => RestartLosesNothing
    <2> SUFFICES ASSUME FrontierInv, CrashInv, published # NoManifest PROVE Covers(Accepted)
      BY DEF RestartLosesNothing
    <2>1. vManifest # {} /\ Whole(vManifest) /\ \A l \in vManifest : Inspected(l)
      BY DEF CrashInv, ManifestWhole, FrontierUsable, NoManifest
    <2>2. Accepted = vManifest
      BY <2>1 DEF Accepted, Structural, Whole, Disjoint
    <2>3. QED
      BY <2>1, <2>2 DEF Whole
  <1>2. QED
    BY <1>1, CrashInvariant, PTL

\* A file that becomes absent was superseded or a suspect, and no usable one
\* of those is in the manifest.
LEMMA RemovedIsUnnamed ==
    ASSUME ProcessFaults, FrontierInv, CrashInv, [Next]_vars,
           NEW l \in vManifest', vBlock[l] \in {"good", "cached"}, FrontierInv'
    PROVE  vBlock'[l] # "absent"
  <1>0. TypeOK /\ l \in Locations
    BY DEF FrontierInv, TypeOK
  <1>1. CASE vBlock' = vBlock
    BY <1>1
  <1>2. ASSUME NEW k \in suspects, QuarantineMove(k) PROVE vBlock'[l] # "absent"
    BY <1>0, <1>2 DEF QuarantineMove, CrashInv, FilesKept, TypeOK
  <1>3. ASSUME NEW k \in stale, Delete(k) PROVE vBlock'[l] # "absent"
    BY <1>0, <1>3 DEF Delete, CrashInv, ManifestWhole, FilesKept, Committing, TypeOK
  <1>4. ASSUME NEW k \in unsaved, RenameBlock(k) PROVE vBlock'[l] # "absent"
    BY <1>0, <1>4 DEF RenameBlock, TypeOK
  <1>5. ASSUME NEW k \in Locations, DamageBlock(k) PROVE vBlock'[l] # "absent"
    BY <1>0, <1>5 DEF DamageBlock, TypeOK
  <1>6. ~PowerLoss
    BY DEF PowerLoss, ProcessFaults
  <1>7. CASE Launch(TRUE) \/ Launch(FALSE) \/ Plan \/ QuarantineSync \/ Planned \/ MergeLevel \/ Finish
             \/ (\E cutoff, most \in 1 .. TermCount : Layout(cutoff, most)) \/ UNCHANGED vars
    BY <1>1, <1>7 DEF Launch, Plan, QuarantineSync, Planned, Layout, MergeLevel, Finish, disk, vars
  <1>8. CASE CommitSkips \/ CommitBegins \/ WriteTemp \/ SyncTemp \/ RenameManifest \/ SyncBlock
             \/ SyncManifest \/ CommitEnds \/ Exit
    BY <1>1, <1>8 DEF CommitSkips, CommitBegins, WriteTemp, SyncTemp, RenameManifest, SyncBlock,
                      SyncManifest, CommitEnds, Exit, disk
  <1>9. CASE (\E k \in suspects : QuarantineFails(k)) \/ QuarantineSyncFails \/ WriteFails \/ SyncFails
             \/ (\E k \in stale : DeleteFails(k)) \/ Kill \/ DamageManifest
    BY <1>1, <1>9 DEF QuarantineFails, QuarantineSyncFails, WriteFails, SyncFails, DeleteFails, Kill,
                      DamageManifest, disk
  <1>10. QED
    BY <1>2, <1>3, <1>4, <1>5, <1>6, <1>7, <1>8, <1>9 DEF Next, Process, Fault

\* No step of the program, in whatever run and after whatever crash, removes a
\* usable block that the manifest on disk names: neither the deletion of
\* superseded files nor quarantine, and a run without --resume no more than one
\* with it.
THEOREM NamedBlocksRemain == ProcessFaults /\ Spec => NamedBlocksStay
  <1> SUFFICES ASSUME ProcessFaults PROVE Spec => NamedBlocksStay
    OBVIOUS
  <1>1. FrontierInv /\ CrashInv /\ [Next]_vars /\ FrontierInv'
          => [\A l \in vManifest' : vBlock[l] \in {"good", "cached"} => vBlock'[l] # "absent"]_vars
    BY RemovedIsUnnamed
  <1>2. Spec => [](FrontierInv /\ CrashInv)
    BY CrashInvariant
  <1>3. QED
    BY <1>1, <1>2, PTL DEF Spec, NamedBlocksStay
=============================================================================
