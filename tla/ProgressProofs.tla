--------------------------- MODULE ProgressProofs ---------------------------
(***************************************************************************)
(* Proofs about Progress for any computation, threads, options and faults: *)
(* what the reporting thread writes last is where the run stopped, the     *)
(* count of terms is exact, and the exit status is true.                   *)
(*                                                                         *)
(* The thread samples the tracker in two steps and ends on what it has     *)
(* sampled, while main() goes on.  It is right because the tracker does    *)
(* not move any more in either case in which the thread ends: the phase    *)
(* has become terminal, or main() is unwinding before the calculation.     *)
(*                                                                         *)
(* The counts are right because the gaps and their cuts are a partition of *)
(* the terms that were not accepted: a term is counted, or it is in just   *)
(* one block that waits or that a thread holds.                            *)
(***************************************************************************)
EXTENDS Progress, FunctionTheorems, FiniteSetTheorems, WellFoundedInduction, TLAPS

\* Where main() can be once the phase is terminal.
FinalPlaces == {"join", "failed", "joinFailed", "exit0", "exit1"}

PhaseInv ==
    /\ phase \in Terminal => pc \in FinalPlaces
    /\ pc \in {"join", "exit0"} => phase = "completed"

\* requestStop() is only called while main() unwinds.
StopInv ==
    /\ closing => stopRequested
    /\ stopRequested => pc \in {"unwind", "exit1"}

Matches(r) == r.phase = phase /\ r.blocks = blocks /\ r.durable = durable

SampleInv ==
    /\ sample = [phase |-> sample.phase, terms |-> sample.terms,
                 blocks |-> sample.blocks, durable |-> sample.durable]
    /\ runner \in {"counters", "report", "ended"} /\ (closing \/ sample.phase \in Terminal)
          => Matches(sample)
    /\ runner = "ended" => closing \/ sample.phase \in Terminal
    /\ runner = "ended" /\ ~reportFailed => last = sample

RunnerInv ==
    /\ pc \in {"exit0", "exit1"} => RunnerIsGone
    /\ pc = "exit0" => ~reportFailed
    /\ config.progress /\ pc \notin {"create", "runner", "unwind", "exit1"} => runner # "off"

RecordInv == PhaseInv /\ StopInv /\ SampleInv /\ RunnerInv
-----------------------------------------------------------------------------
LEMMA InitRecordInv ==
    ASSUME Init
    PROVE  RecordInv
  BY DEF Init, NoRecord, RecordInv, PhaseInv, StopInv, SampleInv, RunnerInv, RunnerIsGone, Terminal, FinalPlaces

\* A step that the reporting thread cannot tell from none.
LEMMA SilentKeepsInv ==
    ASSUME RecordInv, UNCHANGED <<config, phase, blocks, durable, pc, reports>>
    PROVE  RecordInv'
  BY DEF RecordInv, PhaseInv, StopInv, SampleInv, RunnerInv, RunnerIsGone, Matches, reports

\* A step of main() before the end: the thread has not ended, and no sample
\* counts as the last.
LEMMA WorkingKeepsInv ==
    ASSUME RecordInv, UNCHANGED <<config, reports>>, pc \notin FinalPlaces \cup {"unwind"},
           phase' \in Terminal => pc' \in FinalPlaces,
           pc' \in {"join", "exit0"} => phase' = "completed",
           pc' \notin {"exit0", "exit1"},
           pc \in {"create", "runner"} => pc' \in {"create", "runner"}
    PROVE  RecordInv'
  <1>1. ~stopRequested /\ ~closing /\ phase \notin Terminal
    BY DEF RecordInv, PhaseInv, StopInv, FinalPlaces
  <1>2. runner \in {"counters", "report", "ended"} => sample.phase \notin Terminal
    BY <1>1 DEF RecordInv, SampleInv, Matches
  <1>3. PhaseInv' /\ StopInv'
    BY <1>1 DEF PhaseInv, StopInv, reports
  <1>4. SampleInv'
    BY <1>1, <1>2 DEF RecordInv, SampleInv, reports
  <1>5. RunnerInv'
    BY DEF RecordInv, RunnerInv, reports, FinalPlaces
  <1> QED  BY <1>3, <1>4, <1>5 DEF RecordInv

LEMMA EnteringKeepsInv ==
    ASSUME RecordInv, NEW next \in Phases, NEW place, NEW refused, Enter(next, place, refused),
           UNCHANGED <<config, reports>>, pc \notin FinalPlaces \cup {"unwind", "create", "runner"},
           next \in Terminal => next = "completed" /\ place = "join",
           place = "join" => next = "completed",
           place \notin {"exit0", "exit1"}, refused \notin {"join", "exit0", "exit1"}
    PROVE  RecordInv'
  <1>1. phase \notin Terminal
    BY DEF RecordInv, PhaseInv
  <1>2. (phase' = next /\ pc' = place) \/ (phase' = phase /\ pc' = refused)
    BY DEF Enter, Goto
  <1> QED  BY <1>1, <1>2, WorkingKeepsInv DEF FinalPlaces

LEMMA WorkKeepsInv ==
    ASSUME RecordInv,
           \/ Restore \/ StartScheduler \/ BeginSplitting \/ LeavesAreDone \/ Commit \/ CommitNotDue
           \/ CommitFails \/ PublishTelemetry \/ Merge \/ MergeFails \/ Merged \/ CompleteTerms
           \/ Finalize \/ FinalizeFails \/ CalculationFailed
           \/ WriteOutput \/ VerifyOutput \/ OutputFails \/ Finish
    PROVE  RecordInv'
  <1>1. CASE Restore
    BY <1>1, WorkingKeepsInv DEF Restore, Goto, fixed, tracker, FinalPlaces, Terminal, RecordInv, PhaseInv
  <1>2. CASE StartScheduler \/ LeavesAreDone \/ Commit \/ CommitNotDue \/ CommitFails \/ PublishTelemetry
             \/ Merged \/ CompleteTerms \/ FinalizeFails \/ OutputFails
    <2>1. /\ UNCHANGED <<config, phase, reports>> /\ pc \notin FinalPlaces \cup {"unwind", "create", "runner"}
          /\ pc' \notin {"join", "exit0", "exit1"}
      BY <1>2 DEF StartScheduler, LeavesAreDone, Commit, CommitNotDue, CommitFails, PublishTelemetry,
                  Merged, CompleteTerms, FinalizeFails, OutputFails, Goto, fixed, tracker, FinalPlaces
    <2>2. phase \notin Terminal
      BY <2>1 DEF RecordInv, PhaseInv
    <2> QED  BY <2>1, <2>2, WorkingKeepsInv
  <1>3. CASE Merge \/ MergeFails
    <2>1. /\ UNCHANGED <<config, reports>> /\ pc = "merge" /\ pc' \in {"commit", "calculationFailed"}
          /\ phase' \in {phase, "merging"}
      BY <1>3 DEF Merge, MergeFails, EnterMerging, Goto, fixed
    <2>2. phase' \notin Terminal
      BY <2>1 DEF RecordInv, PhaseInv, FinalPlaces, Terminal
    <2> QED  BY <2>1, <2>2, WorkingKeepsInv DEF FinalPlaces
  <1>4. CASE CalculationFailed
    BY <1>4, WorkingKeepsInv DEF CalculationFailed, Goto, fixed, FinalPlaces
  <1>5. CASE BeginSplitting \/ Finalize
    BY <1>5, EnteringKeepsInv DEF BeginSplitting, Finalize, fixed, FinalPlaces, Phases, Terminal
  <1>6. CASE WriteOutput \/ VerifyOutput
    BY <1>6, EnteringKeepsInv DEF WriteOutput, VerifyOutput, fixed, FinalPlaces, Phases, Terminal
  <1>7. CASE Finish
    BY <1>7, EnteringKeepsInv DEF Finish, fixed, FinalPlaces, Phases, Terminal
  <1> QED  BY <1>1, <1>2, <1>3, <1>4, <1>5, <1>6, <1>7

\* The thread is started, or main() unwinds.
LEMMA StartsKeepInv ==
    ASSUME RecordInv, StartRunner \/ StartFails \/ Unwind
    PROVE  RecordInv'
  <1>1. CASE StartRunner
    BY <1>1 DEF StartRunner, Goto, fixed, tracker, RecordInv, PhaseInv, StopInv, SampleInv, RunnerInv,
                FinalPlaces, Matches
  <1>2. CASE StartFails
    BY <1>2 DEF StartFails, Goto, fixed, tracker, RecordInv, PhaseInv, StopInv, SampleInv, RunnerInv,
                FinalPlaces, Matches
  <1>3. CASE Unwind
    BY <1>3 DEF Unwind, Goto, fixed, tracker, reports, RecordInv, PhaseInv, StopInv, SampleInv, RunnerInv,
                RunnerIsGone, FinalPlaces, Matches
  <1> QED  BY <1>1, <1>2, <1>3

\* main() after the last transition.
LEMMA JoinsKeepInv ==
    ASSUME RecordInv, JoinChecked \/ Failed \/ JoinFailed
    PROVE  RecordInv'
  <1>1. CASE JoinChecked \/ JoinFailed
    BY <1>1 DEF JoinChecked, JoinFailed, Checked, Goto, fixed, tracker, reports, RecordInv, PhaseInv,
                StopInv, SampleInv, RunnerInv, RunnerIsGone, FinalPlaces, Matches
  <1>2. CASE Failed
    <2>1. /\ pc = "failed" /\ pc' = "joinFailed" /\ UNCHANGED <<config, blocks, durable, reports>>
          /\ phase' = IF phase \in Terminal THEN phase ELSE "failed"
      BY <1>2 DEF Failed, MarkFailed, Goto, fixed
    <2>2. ~closing /\ ~stopRequested
      BY <2>1 DEF RecordInv, StopInv
    <2>3. sample.phase \in Terminal /\ runner \in {"counters", "report", "ended"} => phase' = phase
      BY <2>1 DEF RecordInv, SampleInv, Matches
    <2>4. SampleInv'
      BY <2>1, <2>2, <2>3 DEF RecordInv, SampleInv, Matches, reports
    <2> QED  BY <2>1, <2>2, <2>4 DEF RecordInv, PhaseInv, StopInv, RunnerInv, FinalPlaces, reports
  <1> QED  BY <1>1, <1>2

\* The reporting thread.
LEMMA RunnerStepsKeepInv ==
    ASSUME RecordInv, RunnerStep
    PROVE  RecordInv'
  <1>2. UNCHANGED <<fixed, tracker, pc, stopRequested>> /\ pc \notin {"exit0", "exit1"} /\ runner' # "off"
    BY DEF RunnerStep, LockSnapshot, LoadCounters, Report, ReportFails, Wake, RunnerIsGone, RecordInv,
           RunnerInv, AfterReport
  <1>3. PhaseInv' /\ RunnerInv'
    BY <1>2 DEF RecordInv, PhaseInv, RunnerInv, fixed, tracker
  <1>4. StopInv'
    BY <1>2 DEF RunnerStep, LockSnapshot, LoadCounters, Report, ReportFails, Wake, RecordInv, StopInv
  <1>5. SampleInv'
    <2>1. CASE LockSnapshot
      BY <1>2, <2>1 DEF LockSnapshot, RecordInv, SampleInv, Matches, tracker
    <2>2. CASE LoadCounters
      <3>1. /\ sample'.phase = sample.phase /\ sample'.blocks = sample.blocks /\ sample'.durable = sample.durable
            /\ sample' = [phase |-> sample'.phase, terms |-> sample'.terms,
                          blocks |-> sample'.blocks, durable |-> sample'.durable]
        BY <2>2 DEF LoadCounters, RecordInv, SampleInv
      <3> QED  BY <1>2, <2>2, <3>1 DEF LoadCounters, RecordInv, SampleInv, Matches, tracker
    <2>3. CASE Report \/ ReportFails
      BY <1>2, <2>3 DEF Report, ReportFails, AfterReport, RecordInv, SampleInv, Matches, tracker
    <2>4. CASE Wake
      BY <2>4 DEF Wake, RecordInv, SampleInv
    <2> QED  BY <2>1, <2>2, <2>3, <2>4 DEF RunnerStep
  <1> QED  BY <1>3, <1>4, <1>5 DEF RecordInv

LEMMA StepsKeepRecordInv ==
    ASSUME RecordInv, [Next]_vars
    PROVE  RecordInv'
  <1>1. CASE UNCHANGED vars \/ Exited
    BY <1>1, SilentKeepsInv DEF Exited, vars, fixed, tracker
  <1>2. CASE \E t \in Threads : ThreadStep(t)
    <2>1. UNCHANGED <<config, phase, blocks, durable, pc, reports>>
      BY <1>2 DEF ThreadStep, Compute, ComputeFails, LoadTerms, AddTerms, fixed, tracker
    <2> QED  BY <2>1, SilentKeepsInv
  <1>3. CASE RunnerStep
    BY <1>3, RunnerStepsKeepInv
  <1>4. CASE MainStep
    BY <1>4, WorkKeepsInv, StartsKeepInv, JoinsKeepInv DEF MainStep
  <1> QED  BY <1>1, <1>2, <1>3, <1>4 DEF Next

\* A sample that ends the reporting thread agrees with the tracker, which has
\* stopped: the inductive invariant.
THEOREM RecordInvariant == Spec => []RecordInv
  <1>1. Init => RecordInv
    BY InitRecordInv
  <1>2. RecordInv /\ [Next]_vars => RecordInv'
    BY StepsKeepRecordInv
  <1> QED  BY <1>1, <1>2, PTL DEF Spec

\* However pi-engine ends, the thread of ProgressReportingRunner has been
\* joined, and unless a report failed its last record is the tracker's final
\* state.
THEOREM LastRecordsAreFinal == Spec => []LastRecordIsFinal
  <1>1. ASSUME RecordInv PROVE LastRecordIsFinal
    BY <1>1 DEF RecordInv, RunnerInv, SampleInv, Matches, LastRecordIsFinal
  <1>2. RecordInv => LastRecordIsFinal
    BY <1>1
  <1> QED  BY <1>2, RecordInvariant, PTL

\* Exit status 0 with reporting on is preceded by a record that says completed,
\* and no record was lost.
THEOREM SuccessIsLastReported ==
    Spec => [](pc = "exit0" /\ config.progress =>
                  runner = "ended" /\ ~reportFailed /\ last.phase = "completed")
  <1>1. ASSUME RecordInv, pc = "exit0", config.progress
        PROVE  runner = "ended" /\ ~reportFailed /\ last.phase = "completed"
    BY <1>1 DEF RecordInv, PhaseInv, RunnerInv, RunnerIsGone, SampleInv, Matches
  <1>2. RecordInv => (pc = "exit0" /\ config.progress =>
                        runner = "ended" /\ ~reportFailed /\ last.phase = "completed")
    BY <1>1
  <1> QED  BY <1>2, RecordInvariant, PTL
-----------------------------------------------------------------------------
(* The blocks of a run: the gaps are apart and fill what is not accepted,  *)
(* and cutting a gap loses no term and counts none twice.                  *)

\* Every nonempty set of natural numbers has a smallest element.
LEMMA SmallestOf ==
    ASSUME NEW S \in SUBSET Nat, S # {}
    PROVE  \E m \in S : \A n \in S : m <= n
  <1> DEFINE R == OpToRel(<, Nat)
  <1>1. IsWellFoundedOn(R, Nat)
    BY NatLessThanWellFounded
  <1>2. R = {ss \in Nat \X Nat : ss[1] < ss[2]}
    BY DEF OpToRel
  <1> HIDE DEF R
  <1>3. PICK m \in S : \A n \in S : ~(<<n, m>> \in R)
    BY <1>1, WFMin, Zenon
  <1>4. \A n \in S : ~(n < m)
    BY <1>2, <1>3
  <1> QED  BY <1>4

LEMMA MinOfTwo ==
    ASSUME NEW a \in Int, NEW b \in Int
    PROVE  Min({a, b}) = IF a <= b THEN a ELSE b
  <1> DEFINE m == IF a <= b THEN a ELSE b
  <1>1. m \in {a, b} /\ \A y \in {a, b} : m <= y
    OBVIOUS
  <1>2. Min({a, b}) \in {a, b} /\ \A y \in {a, b} : Min({a, b}) <= y
    BY <1>1 DEF Min
  <1> QED  BY <1>1, <1>2

LEMMA RangeFields ==
    ASSUME NEW r \in Ranges
    PROVE  /\ r.start \in 0 .. TermCount /\ r.end \in 0 .. TermCount /\ r.start < r.end
           /\ r = [start |-> r.start, end |-> r.end]
           /\ Length(r) \in 1 .. TermCount
           /\ r.start \in TermsOf(r) /\ TermsOf(r) \subseteq 0 .. TermCount - 1
  BY ProgressAssumption DEF Ranges, Length, TermsOf

LEMMA SizeOfRange ==
    ASSUME NEW r \in Ranges
    PROVE  IsFiniteSet(TermsOf(r)) /\ Cardinality(TermsOf(r)) = Length(r)
  <1>1. r.start \in Int /\ r.end - 1 \in Int /\ ~(r.start > r.end - 1)
    BY RangeFields, ProgressAssumption
  <1>2. /\ IsFiniteSet(r.start .. r.end - 1)
        /\ Cardinality(r.start .. r.end - 1) = (r.end - 1) - r.start + 1
    BY <1>1, FS_Interval
  <1>3. (r.end - 1) - r.start + 1 = r.end - r.start
    BY RangeFields, ProgressAssumption
  <1> QED  BY <1>2, <1>3 DEF TermsOf, Length

\* boundedBlockCount() is at least one block and at most one term a block.
LEMMA BlockCount ==
    ASSUME NEW n \in Nat \ {0}
    PROVE  BoundedBlockCount(n) \in 1 .. n
  <1> DEFINE requested == 1 + ((n - 1) \div Cutoff)
             most == Cardinality(Workers) * TasksPerWorker
  <1>1. requested \in 1 .. n
    <2>1. n - 1 \in Nat /\ Cutoff \in Nat \ {0}
      BY ProgressAssumption
    <2>2. (n - 1) \div Cutoff \in 0 .. n - 1
      BY <2>1, Z3
    <2> QED  BY <2>2
  <1>2. most \in Nat \ {0}
    <2>1. Cardinality(Workers) \in Nat \ {0} /\ TasksPerWorker \in Nat \ {0}
      BY ProgressAssumption, FS_EmptySet, FS_CardinalityType
    <2> QED  BY <2>1, Z3
  <1>3. BoundedBlockCount(n) = Min({requested, most})
    BY DEF BoundedBlockCount
  <1> HIDE DEF requested, most
  <1> QED  BY <1>1, <1>2, <1>3, MinOfTwo

\* Where the i-th block of a gap begins.
CutBegin(gap, i) ==
    gap.start + (i * (Length(gap) \div BoundedBlockCount(Length(gap))))
              + Min({i, Length(gap) % BoundedBlockCount(Length(gap))})

CutBlock(gap, i) == [start |-> CutBegin(gap, i), end |-> CutBegin(gap, i + 1)]

LEMMA CutIsCutBlocks ==
    ASSUME NEW gap \in Ranges
    PROVE  Cut(gap) = {CutBlock(gap, i) : i \in 0 .. BoundedBlockCount(Length(gap)) - 1}
  BY DEF Cut, CutBlock, CutBegin

LEMMA CutEnds ==
    ASSUME NEW gap \in Ranges
    PROVE  /\ \A i \in 0 .. BoundedBlockCount(Length(gap)) : CutBegin(gap, i) \in Nat
           /\ CutBegin(gap, 0) = gap.start
           /\ CutBegin(gap, BoundedBlockCount(Length(gap))) = gap.end
           /\ \A i, j \in 0 .. BoundedBlockCount(Length(gap)) : i < j => CutBegin(gap, i) < CutBegin(gap, j)
  <1> DEFINE count == BoundedBlockCount(Length(gap))
             base == Length(gap) \div count
             larger == Length(gap) % count
  <1>1. Length(gap) \in Nat \ {0} /\ count \in 1 .. Length(gap)
    BY RangeFields, BlockCount, ProgressAssumption
  <1>2. base \in Nat \ {0} /\ larger \in 0 .. count - 1 /\ Length(gap) = (count * base) + larger
    <2> HIDE DEF count
    <2> QED  BY <1>1, Z3
  <1>3. \A i \in Nat : CutBegin(gap, i) = gap.start + (i * base) + (IF i <= larger THEN i ELSE larger)
    <2>1. \A i \in Nat : Min({i, larger}) = IF i <= larger THEN i ELSE larger
      BY <1>2, MinOfTwo
    <2> QED  BY <2>1 DEF CutBegin
  <1>4. gap.start \in Nat /\ gap.end = gap.start + Length(gap)
    BY RangeFields DEF Length
  <1>5. \A i, j \in Nat : i < j => (i * base) + base <= j * base
    BY <1>2, Z3
  <1>6. \A i \in Nat : i * base \in Nat
    BY <1>2
  <1> HIDE DEF count, base, larger
  <1>7. CutBegin(gap, 0) = gap.start
    BY <1>2, <1>3, <1>4
  <1>8. CutBegin(gap, count) = gap.end
    BY <1>1, <1>2, <1>3, <1>4
  <1>9. \A i \in 0 .. count : CutBegin(gap, i) \in Nat
    <2> SUFFICES ASSUME NEW i \in 0 .. count PROVE CutBegin(gap, i) \in Nat
      OBVIOUS
    <2>1. i \in Nat /\ i * base \in Nat
      BY <1>1, <1>6
    <2>2. CutBegin(gap, i) = gap.start + (i * base) + (IF i <= larger THEN i ELSE larger)
      BY <1>3, <2>1
    <2> QED  BY <1>2, <1>4, <2>1, <2>2
  <1>10. ASSUME NEW i \in 0 .. count, NEW j \in 0 .. count, i < j
         PROVE  CutBegin(gap, i) < CutBegin(gap, j)
    <2>1. i \in Nat /\ j \in Nat /\ (i * base) + base <= j * base /\ i * base \in Nat /\ j * base \in Nat
      BY <1>1, <1>5, <1>6, <1>10
    <2>2. CutBegin(gap, i) = gap.start + (i * base) + (IF i <= larger THEN i ELSE larger)
      BY <1>3, <2>1
    <2>3. CutBegin(gap, j) = gap.start + (j * base) + (IF j <= larger THEN j ELSE larger)
      BY <1>3, <2>1
    <2> QED  BY <1>2, <1>4, <1>10, <2>1, <2>2, <2>3
  <1> QED  BY <1>7, <1>8, <1>9, <1>10 DEF count
\* The blocks of a gap are ranges of it, different numbers are blocks that are
\* apart, and every term of the gap is in one.
LEMMA CutIsPartition ==
    ASSUME NEW gap \in Ranges
    PROVE  /\ \A i \in 0 .. BoundedBlockCount(Length(gap)) - 1 :
                 CutBlock(gap, i) \in Ranges /\ TermsOf(CutBlock(gap, i)) \subseteq TermsOf(gap)
           /\ \A i, j \in 0 .. BoundedBlockCount(Length(gap)) - 1 : i # j =>
                 TermsOf(CutBlock(gap, i)) \cap TermsOf(CutBlock(gap, j)) = {}
           /\ \A x \in TermsOf(gap) : \E i \in 0 .. BoundedBlockCount(Length(gap)) - 1 :
                 x \in TermsOf(CutBlock(gap, i))
  <1> DEFINE count == BoundedBlockCount(Length(gap))
             B(i) == CutBegin(gap, i)
  <1>1. count \in Nat \ {0}
    BY RangeFields, BlockCount, ProgressAssumption
  <1>2. /\ \A i \in 0 .. count : B(i) \in Nat
        /\ B(0) = gap.start /\ B(count) = gap.end
        /\ \A i, j \in 0 .. count : i < j => B(i) < B(j)
    BY CutEnds
  <1>3. gap.start \in Nat /\ gap.end \in 0 .. TermCount /\ TermCount \in Nat
    BY RangeFields, ProgressAssumption
  <1>4. \A i : CutBlock(gap, i) = [start |-> B(i), end |-> B(i + 1)]
    BY DEF CutBlock
  <1> HIDE DEF count, B
  <1>5. \A i \in 0 .. count : gap.start <= B(i) /\ B(i) <= gap.end
    <2> SUFFICES ASSUME NEW i \in 0 .. count PROVE gap.start <= B(i) /\ B(i) <= gap.end
      OBVIOUS
    <2>1. i = 0 \/ B(0) < B(i)
      BY <1>1, <1>2
    <2>2. i = count \/ B(i) < B(count)
      BY <1>1, <1>2
    <2> QED  BY <1>1, <1>2, <1>3, <2>1, <2>2
  <1>6. \A i, j \in 0 .. count : i <= j => B(i) <= B(j)
    BY <1>2
  <1>7. ASSUME NEW i \in 0 .. count - 1
        PROVE  CutBlock(gap, i) \in Ranges /\ TermsOf(CutBlock(gap, i)) \subseteq TermsOf(gap)
    <2>1. /\ i \in 0 .. count /\ i + 1 \in 0 .. count
          /\ B(i) \in Nat /\ B(i + 1) \in Nat /\ B(i) < B(i + 1)
          /\ gap.start <= B(i) /\ B(i + 1) <= gap.end
      BY <1>1, <1>2, <1>5
    <2> QED  BY <1>3, <1>4, <2>1 DEF Ranges, TermsOf
  <1>8. ASSUME NEW i \in 0 .. count - 1, NEW j \in 0 .. count - 1, i < j
        PROVE  TermsOf(CutBlock(gap, i)) \cap TermsOf(CutBlock(gap, j)) = {}
    <2>1. /\ i + 1 \in 0 .. count /\ j \in 0 .. count /\ i + 1 <= j
          /\ i \in 0 .. count /\ j + 1 \in 0 .. count
      BY <1>1, <1>8
    <2>2. /\ B(i + 1) <= B(j) /\ B(i) \in Nat /\ B(j) \in Nat /\ B(i + 1) \in Nat /\ B(j + 1) \in Nat
      BY <1>2, <1>6, <2>1
    <2> QED  BY <1>4, <2>2 DEF TermsOf
  <1>9. ASSUME NEW x \in TermsOf(gap)
        PROVE  \E i \in 0 .. count - 1 : x \in TermsOf(CutBlock(gap, i))
    <2>1. x \in Nat /\ gap.start <= x /\ x < gap.end
      BY <1>3 DEF TermsOf
    <2> DEFINE S == {k \in 1 .. count : x < B(k)}
    <2>2. S \in SUBSET Nat /\ count \in S
      BY <1>1, <1>2, <2>1
    <2>3. PICK k \in S : \A n \in S : k <= n
      BY <2>2, SmallestOf
    <2>4. k - 1 \in 0 .. count - 1 /\ k - 1 \in 0 .. count /\ k \in 0 .. count
      BY <1>1
    <2>5. B(k - 1) <= x
      <3>1. CASE k = 1
        BY <1>2, <2>1, <3>1
      <3>2. CASE k # 1
        <4>1. k - 1 \in 1 .. count /\ ~(k <= k - 1)
          BY <1>1, <3>2
        <4>2. k - 1 \notin S
          BY <2>3, <4>1
        <4> QED  BY <1>2, <2>1, <2>4, <4>1, <4>2
      <3> QED  BY <3>1, <3>2
    <2>6. k - 1 + 1 = k /\ x < B(k) /\ B(k) \in Nat /\ B(k - 1) \in Nat
      BY <1>1, <1>2, <2>4
    <2>7. x \in TermsOf(CutBlock(gap, k - 1))
      BY <1>4, <2>1, <2>5, <2>6 DEF TermsOf
    <2> QED  BY <2>4, <2>7
  <1>10. ASSUME NEW i \in 0 .. count - 1, NEW j \in 0 .. count - 1, i # j
         PROVE  TermsOf(CutBlock(gap, i)) \cap TermsOf(CutBlock(gap, j)) = {}
    <2>1. i < j \/ j < i
      BY <1>1, <1>10
    <2> QED  BY <1>8, <2>1
  <1> QED  BY <1>7, <1>9, <1>10 DEF count

Every == 0 .. TermCount - 1

\* complement() returns ranges that are apart and hold exactly the terms that
\* are not accepted.
LEMMA GapsAreComplement ==
    ASSUME accepted \subseteq Ranges
    PROVE  /\ Disjoint(Gaps)
           /\ UNION {TermsOf(g) : g \in Gaps} = Every \ Covered
  <1>1. ASSUME NEW g \in Gaps, NEW h \in Gaps, NEW x \in TermsOf(g), x \in TermsOf(h)
        PROVE  ~(g.start < h.start) /\ ~(g.end < h.end)
    <2>1. g \in Ranges /\ h \in Ranges
      BY DEF Gaps
    <2>2. /\ g.start \in Nat /\ g.end \in Nat /\ h.start \in Nat /\ h.end \in Nat
          /\ g.start <= x /\ x < g.end /\ h.start <= x /\ x < h.end /\ x \in Nat /\ TermCount \in Nat
          /\ g.end <= TermCount /\ h.end <= TermCount
      BY <1>1, <2>1, RangeFields, ProgressAssumption DEF TermsOf
    <2>3. CASE g.start < h.start
      <3>1. h.start - 1 \in Covered /\ h.start - 1 \in TermsOf(g)
        BY <2>2, <2>3 DEF Gaps, TermsOf
      <3> QED  BY <3>1 DEF Gaps
    <2>4. CASE g.end < h.end
      <3>1. g.end \in Covered /\ g.end \in TermsOf(h)
        BY <2>2, <2>4 DEF Gaps, TermsOf
      <3> QED  BY <3>1 DEF Gaps
    <2> QED  BY <2>3, <2>4
  <1>2. Disjoint(Gaps)
    <2> SUFFICES ASSUME NEW g \in Gaps, NEW h \in Gaps, NEW x \in TermsOf(g), x \in TermsOf(h)
                 PROVE  g = h
      BY DEF Disjoint
    <2>1. g \in Ranges /\ h \in Ranges
      BY DEF Gaps
    <2>2. ~(g.start < h.start) /\ ~(h.start < g.start) /\ ~(g.end < h.end) /\ ~(h.end < g.end)
      BY <1>1
    <2>3. g.start = h.start /\ g.end = h.end
      BY <2>1, <2>2, RangeFields, ProgressAssumption
    <2> QED  BY <2>1, <2>3, RangeFields
  <1>3. \A g \in Gaps : TermsOf(g) \subseteq Every \ Covered
    BY RangeFields DEF Gaps, Every
  <1>4. ASSUME NEW x \in Every \ Covered
        PROVE  \E g \in Gaps : x \in TermsOf(g)
    <2>1. x \in Nat /\ x < TermCount /\ TermCount \in Nat
      BY ProgressAssumption DEF Every
    <2> DEFINE S == {s \in 0 .. x : \A y \in s .. x : y \notin Covered}
               E == {e \in (x + 1) .. TermCount : e = TermCount \/ e \in Covered}
    <2>2. S \in SUBSET Nat /\ x \in S /\ E \in SUBSET Nat /\ TermCount \in E
      BY <1>4, <2>1
    <2>3. PICK s \in S : \A n \in S : s <= n
      BY <2>2, SmallestOf
    <2>4. PICK e \in E : \A n \in E : e <= n
      BY <2>2, SmallestOf
    <2> DEFINE g == [start |-> s, end |-> e]
    <2>5. s \in Nat /\ s <= x /\ e \in Nat /\ x < e /\ e <= TermCount
      BY <2>1
    <2>6. g \in Ranges /\ x \in TermsOf(g)
      BY <2>1, <2>5 DEF Ranges, TermsOf
    <2>7. TermsOf(g) \cap Covered = {}
      <3> SUFFICES ASSUME NEW y \in TermsOf(g) PROVE y \notin Covered
        OBVIOUS
      <3>1. y \in Nat /\ s <= y /\ y < e
        BY <2>5 DEF TermsOf
      <3>2. CASE y <= x
        BY <2>1, <2>5, <3>1, <3>2
      <3>3. CASE x < y
        <4>1. y \notin E
          BY <2>4, <2>5, <3>1
        <4> QED  BY <2>1, <2>5, <3>1, <3>3, <4>1
      <3> QED  BY <2>1, <3>1, <3>2, <3>3
    <2>8. s = 0 \/ s - 1 \in Covered
      <3> SUFFICES ASSUME s # 0, s - 1 \notin Covered PROVE FALSE
        OBVIOUS
      <3>1. s - 1 \in 0 .. x /\ ~(s <= s - 1)
        BY <2>1, <2>5
      <3>2. \A y \in s - 1 .. x : y = s - 1 \/ y \in s .. x
        BY <2>1, <2>5
      <3>3. s - 1 \in S
        BY <3>1, <3>2
      <3> QED  BY <2>3, <3>1, <3>3
    <2>9. g.start = s /\ g.end = e
      OBVIOUS
    <2>10. g \in Gaps
      BY <2>6, <2>7, <2>8, <2>9 DEF Gaps
    <2> QED  BY <2>6, <2>10
  <1> QED  BY <1>2, <1>3, <1>4
TermsIn(s) == UNION {TermsOf(r) : r \in s}

LEMMA EveryIsFinite ==
    /\ IsFiniteSet(Every) /\ Cardinality(Every) = TermCount
    /\ \A S \in SUBSET Every : IsFiniteSet(S) /\ Cardinality(S) \in 0 .. TermCount
  <1>1. TermCount - 1 \in Int /\ ~(0 > TermCount - 1) /\ TermCount - 1 - 0 + 1 = TermCount /\ 0 \in Int
    BY ProgressAssumption
  <1>2. IsFiniteSet(Every) /\ Cardinality(Every) = TermCount
    BY <1>1, FS_Interval DEF Every
  <1> QED  BY <1>2, FS_Subset, FS_CardinalityType, ProgressAssumption

\* Ranges that are apart are at most as many as their terms.
LEMMA RangesAreFew ==
    ASSUME NEW s \in SUBSET Ranges, Disjoint(s)
    PROVE  /\ TermsIn(s) \subseteq Every
           /\ IsFiniteSet(s) /\ Cardinality(s) \in Nat /\ Cardinality(s) <= Cardinality(TermsIn(s))
  <1>1. TermsIn(s) \subseteq Every
    BY RangeFields DEF TermsIn, Every
  <1> DEFINE f == [r \in s |-> r.start]
  <1>2. f \in [s -> TermsIn(s)]
    BY RangeFields DEF TermsIn
  <1>3. \A a, b \in s : f[a] = f[b] => a = b
    BY RangeFields DEF Disjoint
  <1>4. f \in Injection(s, TermsIn(s))
    BY <1>2, <1>3, Fun_IsInj
  <1>5. IsFiniteSet(s) /\ Cardinality(s) <= Cardinality(TermsIn(s))
    BY <1>1, <1>4, EveryIsFinite, FS_Injection
  <1> QED  BY <1>1, <1>5, FS_CardinalityType

\* What the splitter computes: ranges that are apart and hold exactly the terms
\* that are not accepted; and planCheckpointBlocks() has counted them.
LEMMA BlocksArePlanned ==
    ASSUME accepted \subseteq Ranges
    PROVE  /\ Blocks \subseteq Ranges /\ Disjoint(Blocks)
           /\ TermsIn(Blocks) = Every \ Covered
           /\ IsFiniteSet(Planned) /\ Cardinality(Planned) = Cardinality(Blocks)
  <1>1. /\ Gaps \subseteq Ranges /\ Disjoint(Gaps)
        /\ \A x : x \in Every \ Covered <=> \E g \in Gaps : x \in TermsOf(g)
    BY GapsAreComplement DEF Gaps
  <1>2. \A g \in Gaps : Length(g) \in 1 .. TermCount /\ BoundedBlockCount(Length(g)) \in 1 .. TermCount
    BY <1>1, RangeFields, BlockCount, ProgressAssumption
  <1> DEFINE Nth(p) == CutBlock(p[1], p[2] - 1)
  <1>3. \A p \in Planned : /\ p[1] \in Gaps /\ p[2] \in 1 .. TermCount
                           /\ p[2] - 1 \in 0 .. BoundedBlockCount(Length(p[1])) - 1
                           /\ p = <<p[1], p[2]>>
    BY <1>2, ProgressAssumption DEF Planned
  <1>4. Blocks = {Nth(p) : p \in Planned}
    <2>1. ASSUME NEW p \in Planned PROVE Nth(p) \in Blocks
      BY <1>1, <1>3, CutIsCutBlocks DEF Blocks
    <2>2. ASSUME NEW b \in Blocks PROVE \E p \in Planned : b = Nth(p)
      <3>1. PICK g \in Gaps : b \in Cut(g)
        BY DEF Blocks
      <3>2. PICK i \in 0 .. BoundedBlockCount(Length(g)) - 1 : b = CutBlock(g, i)
        BY <1>1, <3>1, CutIsCutBlocks
      <3>3. i + 1 \in 1 .. TermCount /\ i + 1 <= BoundedBlockCount(Length(g)) /\ i + 1 - 1 = i
        BY <1>2, ProgressAssumption
      <3>4. <<g, i + 1>> \in Planned
        BY <3>3 DEF Planned
      <3> QED  BY <3>2, <3>3, <3>4
    <2> QED  BY <2>1, <2>2
  <1> HIDE DEF Nth
  <1>5. ASSUME NEW p \in Planned PROVE Nth(p) \in Ranges /\ TermsOf(Nth(p)) \subseteq TermsOf(p[1])
    BY <1>1, <1>3, CutIsPartition DEF Nth
  <1>6. ASSUME NEW p \in Planned, NEW q \in Planned, p # q
        PROVE  TermsOf(Nth(p)) \cap TermsOf(Nth(q)) = {}
    <2>1. CASE p[1] # q[1]
      BY <1>1, <1>3, <1>5, <2>1 DEF Disjoint
    <2>2. CASE p[1] = q[1]
      <3>1. p[2] # q[2]
        BY <1>3, <1>6, <2>2
      <3>2. p[2] - 1 # q[2] - 1
        BY <1>3, <3>1, ProgressAssumption
      <3> QED  BY <1>1, <1>3, <2>2, <3>2, CutIsPartition DEF Nth
    <2> QED  BY <2>1, <2>2
  <1>7. Blocks \subseteq Ranges /\ Disjoint(Blocks)
    BY <1>4, <1>5, <1>6 DEF Disjoint
  <1>8. TermsIn(Blocks) = Every \ Covered
    <2>1. ASSUME NEW x \in TermsIn(Blocks) PROVE x \in Every \ Covered
      <3>1. PICK p \in Planned : x \in TermsOf(Nth(p))
        BY <1>4 DEF TermsIn
      <3> QED  BY <1>1, <1>3, <1>5, <3>1
    <2>2. ASSUME NEW x \in Every \ Covered PROVE x \in TermsIn(Blocks)
      <3>1. PICK g \in Gaps : x \in TermsOf(g)
        BY <1>1
      <3>2. PICK i \in 0 .. BoundedBlockCount(Length(g)) - 1 : x \in TermsOf(CutBlock(g, i))
        BY <1>1, <3>1, CutIsPartition
      <3>3. CutBlock(g, i) \in Blocks
        BY <1>1, CutIsCutBlocks DEF Blocks
      <3> QED  BY <3>2, <3>3 DEF TermsIn
    <2> QED  BY <2>1, <2>2
  <1>9. IsFiniteSet(Blocks)
    BY <1>7, RangesAreFew
  <1> DEFINE f == [p \in Planned |-> Nth(p)]
  <1>10. f \in [Planned -> Blocks] /\ \A b \in Blocks : \E p \in Planned : f[p] = b
    BY <1>4
  <1>11. \A p, q \in Planned : f[p] = f[q] => p = q
    <2>1. \A p \in Planned : TermsOf(Nth(p)) # {}
      BY <1>5, RangeFields
    <2> QED  BY <1>6, <2>1
  <1> HIDE DEF f
  <1>12. f \in Injection(Planned, Blocks)
    BY <1>10, <1>11, Fun_IsInj
  <1>13. f \in Surjection(Planned, Blocks)
    BY <1>10, Fun_IsSurj
  <1>14. IsFiniteSet(Planned) /\ Cardinality(Planned) = Cardinality(Blocks)
    BY <1>9, <1>12, <1>13, FS_Injection
  <1> QED  BY <1>7, <1>8, <1>14
-----------------------------------------------------------------------------
(* The run: what is fixed, the way of main(), the terms that are not       *)
(* counted yet, and the checkpoint counts.                                 *)

FixedInv ==
    /\ config \in [resume : BOOLEAN, writer : BOOLEAN, verify : BOOLEAN, progress : BOOLEAN]
    /\ accepted \subseteq Ranges /\ Disjoint(accepted)
    /\ config.resume \/ accepted = {}

\* Before the calculation, between its leaves and exit status 0, and after
\* something has failed.
EarlyPlaces == {"create", "runner", "scheduler", "begin"}

LatePlaces == {"merge", "terms", "finalize", "output", "verify", "finish", "join", "exit0"}

FailedPlaces == {"unwind", "calculationFailed", "failed", "joinFailed", "exit1"}

\* main() is never refused a phase, and only leaves its way after a fault.
FlowInv ==
    /\ pc \in Places /\ phase \in Phases /\ faults \in 0 .. MaxFaults
    /\ pc = "create" => phase = "initializing"
    /\ pc \in EarlyPlaces => phase \in {"initializing", "validatingCheckpoints"}
    /\ pc = "leaves" => phase = "splitting"
    /\ pc \in {"commit", "telemetry", "merge", "terms", "finalize"} => phase \in {"splitting", "merging"}
    /\ pc = "output" => phase = "finalizing"
    /\ pc = "verify" => phase = "writingOutput"
    /\ pc = "finish" => phase \in {"writingOutput", "verifyingOutput"}
    /\ pc \in {"join", "exit0"} => phase = "completed"
    /\ pc \in FailedPlaces => faults > 0
    /\ taskFailed \in BOOLEAN /\ reportFailed \in BOOLEAN
    /\ taskFailed => faults > 0 /\ pc \in {"leaves"} \cup FailedPlaces
    /\ reportFailed => faults > 0

\* The terms of the blocks that wait, are computed or are about to be counted.
Left == TermsIn(pending) \cup UNION {TermsOf(task[t].block) : t \in Threads}

TaskInv ==
    /\ pending \subseteq Ranges /\ Disjoint(pending)
    /\ task \in [Threads -> [step : {"idle", "load", "add"}, block : Ranges \cup {NoBlock}, seen : 0 .. TermCount]]
    /\ \A t \in Threads : task[t].step = "idle" => task[t].block = NoBlock
    /\ \A t \in Threads : TermsOf(task[t].block) \cap TermsIn(pending) = {}
    /\ \A t, u \in Threads : t # u => TermsOf(task[t].block) \cap TermsOf(task[u].block) = {}
    /\ pc # "leaves" => pending = {} /\ \A t \in Threads : task[t].step = "idle"

TermInv ==
    /\ terms \in 0 .. TermCount
    /\ pc = "create" => terms = 0
    /\ pc \in EarlyPlaces \ {"create"} => terms = Cardinality(Covered)
    /\ pc \notin EarlyPlaces => terms + Cardinality(Left) <= TermCount
    /\ pc \notin EarlyPlaces \cup FailedPlaces /\ ~taskFailed => terms + Cardinality(Left) = TermCount

NodeInv ==
    /\ nodes \in 0 .. TermCount /\ fresh \in 0 .. TermCount
    /\ manifest \in 0 .. TermCount /\ durable \in 0 .. TermCount

\* The first commit counts the computed blocks; before it the count is that of
\* the accepted ones, and without it nothing was computed.
CountInv ==
    /\ counted \in BOOLEAN /\ (counted => config.writer /\ pc # "create")
    /\ blocks = IF pc = "create" THEN 0 ELSE IF counted THEN TotalBlocks ELSE Cardinality(accepted)
    /\ ~counted => durable = IF pc = "create" THEN 0 ELSE Cardinality(accepted)
    /\ ~counted /\ config.writer /\ pc \in {"leaves", "commit", "telemetry"} =>
          fresh = Cardinality(Blocks) \/ Blocks = {}
    /\ ~counted /\ config.writer /\ pc \in LatePlaces => Blocks = {}
    /\ ~counted /\ pc \notin {"telemetry"} \cup FailedPlaces /\ Blocks = {} => manifest = Cardinality(accepted)
    /\ pc = "telemetry" => manifest = nodes /\ config.writer
    /\ counted /\ pc \notin {"telemetry"} \cup FailedPlaces => durable = manifest

DoneInv == phase = "completed" => terms = TermCount

\* A sample can be made, and one that says completed has all terms.
SampledInv ==
    /\ runner \in {"off", "lock", "counters", "report", "wait", "ended"}
    /\ closing \in BOOLEAN /\ stopRequested \in BOOLEAN
    /\ sample \in Records /\ last \in Records
    /\ sample.blocks <= TotalBlocks
    /\ runner \in {"report", "ended"} /\ sample.phase = "completed" => sample.terms = TermCount

RunInv ==
    /\ RecordInv /\ FixedInv /\ FlowInv /\ TaskInv /\ TermInv
    /\ NodeInv /\ CountInv /\ DoneInv /\ SampledInv
-----------------------------------------------------------------------------
\* What follows from the options and the accepted blocks alone.
LEMMA Totals ==
    ASSUME FixedInv
    PROVE  /\ Cardinality(Covered) \in 0 .. TermCount
           /\ Cardinality(accepted) \in 0 .. Cardinality(Covered)
           /\ Cardinality(Blocks) \in 0 .. TermCount - Cardinality(Covered)
           /\ Cardinality(Gaps) \in Nat
           /\ Cardinality(TermsIn(Blocks)) = TermCount - Cardinality(Covered)
           /\ Blocks \subseteq Ranges /\ Disjoint(Blocks)
           /\ TotalBlocks = Cardinality(accepted) + IF config.writer THEN Cardinality(Blocks) ELSE 0
           /\ Blocks = {} => Gaps = {} /\ Cardinality(Covered) = TermCount /\ Cardinality(Blocks) = 0
           /\ accepted = {} => Cardinality(Covered) = 0
  <1>1. /\ Covered \subseteq Every /\ Covered = TermsIn(accepted)
        /\ Cardinality(accepted) \in Nat /\ Cardinality(accepted) <= Cardinality(Covered)
    BY RangesAreFew DEF FixedInv, Covered, TermsIn
  <1>2. Cardinality(Covered) \in 0 .. TermCount
    BY <1>1, EveryIsFinite
  <1>3. /\ Blocks \subseteq Ranges /\ Disjoint(Blocks) /\ TermsIn(Blocks) = Every \ Covered
        /\ Cardinality(Planned) = Cardinality(Blocks)
    BY BlocksArePlanned DEF FixedInv
  <1>4. Cardinality(Every \ Covered) = TermCount - Cardinality(Covered)
    <2>1. Every \cap Covered = Covered
      BY <1>1
    <2> QED  BY <2>1, EveryIsFinite, FS_Difference
  <1>5. Cardinality(Blocks) \in Nat /\ Cardinality(Blocks) <= TermCount - Cardinality(Covered)
    BY <1>3, <1>4, RangesAreFew
  <1>6. Gaps \subseteq Ranges /\ Disjoint(Gaps) /\ TermsIn(Gaps) = Every \ Covered
    BY GapsAreComplement DEF FixedInv, Gaps, TermsIn
  <1>7. Cardinality(Gaps) \in Nat
    BY <1>6, RangesAreFew
  <1>8. ASSUME Blocks = {} PROVE Gaps = {} /\ Cardinality(Covered) = TermCount /\ Cardinality(Blocks) = 0
    <2>1. Every \ Covered = {} /\ Cardinality(Blocks) = 0
      BY <1>3, <1>8, FS_EmptySet DEF TermsIn
    <2>2. Covered = Every
      BY <1>1, <2>1
    <2>3. \A g \in Gaps : g.start \in TermsOf(g) /\ g.start \in TermsIn(Gaps)
      BY <1>6, RangeFields DEF TermsIn
    <2> QED  BY <1>6, <2>1, <2>2, <2>3, EveryIsFinite
  <1>9. ASSUME accepted = {} PROVE Cardinality(Covered) = 0
    BY <1>1, <1>9, FS_EmptySet DEF TermsIn
  <1>10. Cardinality(accepted) \in 0 .. Cardinality(Covered)
    BY <1>1, <1>2, ProgressAssumption
  <1>11. Cardinality(Blocks) \in 0 .. TermCount - Cardinality(Covered)
    BY <1>2, <1>5, ProgressAssumption
  <1>12. TotalBlocks = Cardinality(accepted) + IF config.writer THEN Cardinality(Blocks) ELSE 0
    BY <1>3 DEF TotalBlocks
  <1> QED  BY <1>2, <1>3, <1>4, <1>7, <1>8, <1>9, <1>10, <1>11, <1>12

LEMMA FixedStays ==
    ASSUME UNCHANGED fixed
    PROVE  /\ config' = config /\ accepted' = accepted /\ Covered' = Covered /\ Gaps' = Gaps
           /\ Blocks' = Blocks /\ TotalBlocks' = TotalBlocks
           /\ (FixedInv => FixedInv')
  <1>1. config' = config /\ accepted' = accepted
    BY DEF fixed
  <1>2. Covered' = Covered
    BY <1>1 DEF Covered
  <1>3. Gaps' = Gaps
    BY <1>2 DEF Gaps
  <1>4. Blocks' = Blocks /\ Planned' = Planned
    BY <1>3 DEF Blocks, Planned
  <1>5. TotalBlocks' = TotalBlocks
    BY <1>1, <1>4 DEF TotalBlocks
  <1> QED  BY <1>1, <1>2, <1>3, <1>4, <1>5 DEF FixedInv

LEMMA StepsKeepFixed ==
    ASSUME [Next]_vars
    PROVE  UNCHANGED fixed
  <1>1. CASE MainStep
    BY <1>1 DEF MainStep, Restore, StartRunner, StartScheduler, StartFails, Unwind, BeginSplitting,
       LeavesAreDone, Commit, CommitNotDue, CommitFails, PublishTelemetry, Merge, MergeFails, Merged,
       CompleteTerms, Finalize, FinalizeFails, CalculationFailed, WriteOutput, VerifyOutput, OutputFails,
       Finish, JoinChecked, Failed, JoinFailed
  <1>2. CASE \E t \in Threads : ThreadStep(t)
    BY <1>2 DEF ThreadStep, Compute, ComputeFails, LoadTerms, AddTerms
  <1>3. CASE RunnerStep
    BY <1>3 DEF RunnerStep, LockSnapshot, LoadCounters, Report, ReportFails, Wake
  <1>4. CASE UNCHANGED vars \/ Exited
    BY <1>4 DEF Exited, vars
  <1> QED  BY <1>1, <1>2, <1>3, <1>4 DEF Next

\* Init.
LEMMA InitRunInv ==
    ASSUME Init
    PROVE  RunInv
  <1>1. FixedInv
    BY DEF Init, FixedInv
  <1>2. FlowInv
    <2>1. taskFailed \in BOOLEAN /\ reportFailed \in BOOLEAN
      BY Zenon DEF Init
    <2>2. ~taskFailed /\ ~reportFailed /\ pc = "create" /\ phase = "initializing" /\ faults = 0
      BY DEF Init
    <2> QED  BY <2>1, <2>2, ProgressAssumption DEF FlowInv, Places, Phases, EarlyPlaces, FailedPlaces
  <1>3. TaskInv
    <2>1. Idle \in [step : {"idle", "load", "add"}, block : Ranges \cup {NoBlock}, seen : 0 .. TermCount]
      BY ProgressAssumption DEF Idle
    <2>2. Idle.step = "idle" /\ Idle.block = NoBlock /\ TermsOf(NoBlock) = {}
      BY DEF Idle, NoBlock, TermsOf
    <2> QED  BY <2>1, <2>2 DEF Init, TaskInv, Disjoint
  <1>4. TermInv
    BY ProgressAssumption DEF Init, TermInv, EarlyPlaces
  <1>5. /\ manifest \in 0 .. TermCount
        /\ Blocks = {} => manifest = Cardinality(accepted)
    <2>1. CASE accepted = {} /\ manifest = 0
      BY <1>1, <2>1, Totals, ProgressAssumption, FS_EmptySet
    <2>2. CASE manifest \in Cardinality(accepted) + Cardinality(Gaps) ..
                            Cardinality(accepted) + TermCount - Cardinality(Covered)
      BY <1>1, <2>2, Totals, ProgressAssumption, FS_EmptySet
    <2> QED  BY <2>1, <2>2 DEF Init
  <1>6. NodeInv
    BY <1>5, ProgressAssumption DEF Init, NodeInv
  <1>7. CountInv
    BY <1>5 DEF Init, CountInv, LatePlaces, FailedPlaces
  <1>8. SampledInv
    <2>1. NoRecord \in Records /\ NoRecord.blocks = 0 /\ NoRecord.phase # "completed"
      BY ProgressAssumption DEF NoRecord, Records, Phases
    <2>2. 0 <= TotalBlocks
      BY <1>1, Totals, ProgressAssumption
    <2> QED  BY <2>1, <2>2 DEF Init, SampledInv
  <1>9. DoneInv
    BY DEF Init, DoneInv
  <1> QED  BY <1>1, <1>2, <1>3, <1>4, <1>6, <1>7, <1>8, <1>9, InitRecordInv DEF RunInv
-----------------------------------------------------------------------------
(* The way of main().                                                      *)

\* A step that changes neither place nor phase and fails at most a task or a
\* report.
LEMMA SideStepKeepsFlow ==
    ASSUME FlowInv, UNCHANGED <<pc, phase>>, faults' \in 0 .. MaxFaults, faults' >= faults,
           taskFailed' \in BOOLEAN, reportFailed' \in BOOLEAN,
           taskFailed' => taskFailed \/ (faults' > 0 /\ pc = "leaves"),
           reportFailed' => reportFailed \/ faults' > 0
    PROVE  FlowInv'
  <1>1. faults > 0 => faults' > 0
    BY ProgressAssumption DEF FlowInv
  <1>2. taskFailed' => faults' > 0 /\ pc' \in {"leaves"} \cup FailedPlaces
    BY <1>1 DEF FlowInv
  <1> QED  BY <1>1, <1>2 DEF FlowInv

\* A step of main() that is no transition: it stays on its way, or a fault has
\* happened.
LEMMA PlainStepKeepsFlow ==
    ASSUME FlowInv, UNCHANGED <<phase, taskFailed, reportFailed>>,
           faults' \in 0 .. MaxFaults, faults' >= faults, pc' \in Places,
           \/ pc' \in FailedPlaces /\ faults' > 0
           \/ /\ ~taskFailed
              /\ \/ pc \in {"leaves", "commit", "telemetry", "merge", "terms"}
                    /\ pc' \in {"commit", "telemetry", "merge", "terms", "finalize"}
                 \/ pc \in EarlyPlaces /\ pc' \in EarlyPlaces \ {"create"}
                 \/ pc = "join" /\ pc' = "exit0"
    PROVE  FlowInv'
  BY ProgressAssumption DEF FlowInv, Places, EarlyPlaces, FailedPlaces

\* Exiting the handlers and marking the run as failed.
LEMMA MarkKeepsFlow ==
    ASSUME FlowInv, MarkFailed, UNCHANGED <<taskFailed, reportFailed, faults>>,
           pc \in FailedPlaces, pc' \in {"failed", "joinFailed"}
    PROVE  FlowInv'
  BY DEF FlowInv, MarkFailed, Places, Phases, EarlyPlaces, FailedPlaces

LEMMA FaultIsCounted ==
    ASSUME FlowInv, NEW k, Fails(k)
    PROVE  faults' \in 0 .. MaxFaults /\ faults' >= faults /\ faults' > 0
  BY ProgressAssumption DEF FlowInv, Fails

LEMMA PlainStepsKeepFlow ==
    ASSUME FlowInv,
           \/ StartRunner \/ StartScheduler \/ StartFails \/ Unwind \/ LeavesAreDone
           \/ Commit \/ CommitNotDue \/ CommitFails \/ PublishTelemetry \/ Merged \/ CompleteTerms
           \/ FinalizeFails \/ OutputFails \/ JoinChecked \/ JoinFailed
    PROVE  FlowInv'
  <1>0. faults \in 0 .. MaxFaults /\ faults >= faults
    BY ProgressAssumption DEF FlowInv
  <1>a. pc \notin {"leaves"} \cup FailedPlaces => ~taskFailed
    BY DEF FlowInv
  <1>1. CASE StartRunner \/ StartScheduler
    BY <1>0, <1>1, <1>a, PlainStepKeepsFlow DEF StartRunner, StartScheduler, Goto, tracker, work, reports,
       Places, EarlyPlaces, FailedPlaces
  <1>2. CASE StartFails \/ CommitFails \/ FinalizeFails \/ OutputFails
    <2>1. /\ UNCHANGED <<phase, taskFailed, reportFailed>> /\ pc' \in FailedPlaces /\ pc' \in Places
          /\ \E k : Fails(k)
      BY <1>2 DEF StartFails, CommitFails, FinalizeFails, OutputFails, Goto, tracker, work, reports,
         FailedPlaces, Places
    <2>2. faults' \in 0 .. MaxFaults /\ faults' >= faults /\ faults' > 0
      BY <2>1, FaultIsCounted
    <2> QED  BY <2>1, <2>2, PlainStepKeepsFlow
  <1>3. CASE Unwind \/ JoinFailed
    <2>1. /\ UNCHANGED <<phase, taskFailed, reportFailed, faults>> /\ pc' \in FailedPlaces /\ pc' \in Places
          /\ pc \in FailedPlaces
      BY <1>3 DEF Unwind, JoinFailed, Goto, tracker, work, reports, FailedPlaces, Places
    <2>2. faults > 0
      BY <2>1 DEF FlowInv
    <2> QED  BY <1>0, <2>1, <2>2, PlainStepKeepsFlow
  <1>4. CASE LeavesAreDone
    <2>1. /\ UNCHANGED <<phase, taskFailed, reportFailed, faults>> /\ pc = "leaves"
          /\ (taskFailed /\ pc' = "calculationFailed") \/ (~taskFailed /\ pc' \in {"commit", "merge"})
      BY <1>4 DEF LeavesAreDone, Goto, tracker, work, reports
    <2>2. taskFailed => faults > 0
      BY DEF FlowInv
    <2> QED  BY <1>0, <2>1, <2>2, PlainStepKeepsFlow DEF FailedPlaces, Places
  <1>5. CASE Commit \/ CommitNotDue \/ PublishTelemetry \/ Merged \/ CompleteTerms
    <2>1. /\ UNCHANGED <<phase, taskFailed, reportFailed, faults>>
          /\ pc \in {"commit", "telemetry", "merge", "terms"}
          /\ pc' \in {"commit", "telemetry", "merge", "terms", "finalize"}
      BY <1>5 DEF Commit, CommitNotDue, PublishTelemetry, Merged, CompleteTerms, Goto, tracker, work, reports
    <2> QED  BY <1>0, <1>a, <2>1, PlainStepKeepsFlow DEF FailedPlaces, Places
  <1>6. CASE JoinChecked
    <2>1. /\ UNCHANGED <<phase, taskFailed, reportFailed, faults>> /\ pc = "join"
          /\ (reportFailed /\ pc' = "failed") \/ (~reportFailed /\ pc' = "exit0")
      BY <1>6 DEF JoinChecked, Checked, Goto, tracker, work, reports
    <2>2. reportFailed => faults > 0
      BY DEF FlowInv
    <2> QED  BY <1>0, <1>a, <2>1, <2>2, PlainStepKeepsFlow DEF FailedPlaces, Places
  <1> QED  BY <1>1, <1>2, <1>3, <1>4, <1>5, <1>6

LEMMA TransitionsKeepFlow ==
    ASSUME FlowInv,
           \/ Restore \/ BeginSplitting \/ Merge \/ MergeFails \/ Finalize \/ CalculationFailed
           \/ WriteOutput \/ VerifyOutput \/ Finish \/ Failed
    PROVE  FlowInv'
  <1>0. faults \in 0 .. MaxFaults /\ faults >= faults
    BY ProgressAssumption DEF FlowInv
  <1>a. pc \notin {"leaves"} \cup FailedPlaces => ~taskFailed
    BY DEF FlowInv
  <1>1. CASE Restore
    <2>1. /\ UNCHANGED <<taskFailed, reportFailed, faults>> /\ pc = "create" /\ pc' = "runner"
          /\ phase' \in {phase, "validatingCheckpoints"}
      BY <1>1 DEF Restore, Goto, tracker, work, reports
    <2> QED  BY <1>a, <2>1 DEF FlowInv, Places, Phases, EarlyPlaces, FailedPlaces
  <1>2. CASE BeginSplitting
    <2>1. /\ UNCHANGED <<taskFailed, reportFailed, faults>> /\ pc = "begin"
          /\ Enter("splitting", "leaves", "calculationFailed")
      BY <1>2 DEF BeginSplitting, reports
    <2>2. IsValidTransition(phase, "splitting")
      BY <2>1 DEF FlowInv, EarlyPlaces, IsValidTransition, Terminal
    <2> QED  BY <1>a, <2>1, <2>2 DEF Enter, Goto, FlowInv, Places, Phases, EarlyPlaces, FailedPlaces
  <1>3. CASE Merge
    <2>1. /\ UNCHANGED <<taskFailed, reportFailed, faults>> /\ pc = "merge" /\ pc' = "commit"
          /\ EnterMerging
      BY <1>3 DEF Merge, Goto, reports
    <2> QED  BY <1>a, <2>1 DEF EnterMerging, FlowInv, Places, Phases, EarlyPlaces, FailedPlaces
  <1>4. CASE MergeFails
    <2>1. /\ UNCHANGED <<taskFailed, reportFailed>> /\ pc = "merge" /\ pc' = "calculationFailed"
          /\ Fails("task") /\ phase' \in {phase, "merging"}
      BY <1>4 DEF MergeFails, EnterMerging, Goto, work, reports
    <2>2. faults' \in 0 .. MaxFaults /\ faults' > 0
      BY <2>1, FaultIsCounted
    <2> QED  BY <1>a, <2>1, <2>2 DEF FlowInv, Places, Phases, EarlyPlaces, FailedPlaces
  <1>5. CASE Finalize
    <2>1. /\ UNCHANGED <<taskFailed, reportFailed, faults>> /\ pc = "finalize"
          /\ Enter("finalizing", "output", "calculationFailed")
      BY <1>5 DEF Finalize, work, reports
    <2>2. IsValidTransition(phase, "finalizing")
      BY <2>1 DEF FlowInv, IsValidTransition, Terminal
    <2> QED  BY <1>a, <2>1, <2>2 DEF Enter, Goto, FlowInv, Places, Phases, EarlyPlaces, FailedPlaces
  <1>6. CASE CalculationFailed \/ Failed
    <2>1. /\ UNCHANGED <<taskFailed, reportFailed, faults>> /\ pc \in FailedPlaces
          /\ pc' \in {"failed", "joinFailed"} /\ MarkFailed
      BY <1>6 DEF CalculationFailed, Failed, Goto, work, reports, FailedPlaces
    <2> QED  BY <2>1, MarkKeepsFlow
  <1>7. CASE WriteOutput
    <2>1. /\ UNCHANGED <<taskFailed, reportFailed, faults>> /\ pc = "output"
          /\ Enter("writingOutput", IF config.verify THEN "verify" ELSE "finish", "failed")
      BY <1>7 DEF WriteOutput, work, reports
    <2>2. IsValidTransition(phase, "writingOutput")
      BY <2>1 DEF FlowInv, IsValidTransition, Terminal
    <2> QED  BY <1>a, <2>1, <2>2 DEF Enter, Goto, FlowInv, Places, Phases, EarlyPlaces, FailedPlaces
  <1>8. CASE VerifyOutput
    <2>1. /\ UNCHANGED <<taskFailed, reportFailed, faults>> /\ pc = "verify"
          /\ Enter("verifyingOutput", "finish", "failed")
      BY <1>8 DEF VerifyOutput, work, reports
    <2>2. IsValidTransition(phase, "verifyingOutput")
      BY <2>1 DEF FlowInv, IsValidTransition, Terminal
    <2> QED  BY <1>a, <2>1, <2>2 DEF Enter, Goto, FlowInv, Places, Phases, EarlyPlaces, FailedPlaces
  <1>9. CASE Finish
    <2>1. /\ UNCHANGED <<taskFailed, reportFailed, faults>> /\ pc = "finish"
          /\ Enter("completed", "join", "failed")
      BY <1>9 DEF Finish, work, reports
    <2>2. IsValidTransition(phase, "completed")
      BY <2>1 DEF FlowInv, IsValidTransition, Terminal
    <2> QED  BY <1>a, <2>1, <2>2 DEF Enter, Goto, FlowInv, Places, Phases, EarlyPlaces, FailedPlaces
  <1> QED  BY <1>1, <1>2, <1>3, <1>4, <1>5, <1>6, <1>7, <1>8, <1>9

\* Every record can be made, so only a fault loses one.
LEMMA NoRecordIsImpossible ==
    ASSUME FixedInv, SampledInv
    PROVE  ~Impossible
  <1>1. sample.terms \in 0 .. TermCount /\ sample.blocks \in 0 .. TermCount /\ sample.blocks <= TotalBlocks
    BY DEF SampledInv, Records
  <1>2. TotalBlocks \in Nat
    BY Totals, ProgressAssumption
  <1> QED  BY <1>1, <1>2, ProgressAssumption DEF Impossible

LEMMA StepsKeepFlow ==
    ASSUME RunInv, [Next]_vars
    PROVE  FlowInv'
  <1>0. FlowInv /\ faults \in 0 .. MaxFaults /\ faults >= faults
        /\ taskFailed \in BOOLEAN /\ reportFailed \in BOOLEAN
    BY ProgressAssumption DEF RunInv, FlowInv
  <1>1. CASE MainStep
    BY <1>0, <1>1, PlainStepsKeepFlow, TransitionsKeepFlow DEF MainStep
  <1>2. ASSUME NEW t \in Threads, ThreadStep(t) PROVE FlowInv'
    <2>1. CASE ComputeFails(t)
      <3>1. /\ UNCHANGED <<pc, phase, reportFailed>> /\ pc = "leaves" /\ taskFailed' = TRUE /\ Fails("task")
        BY <2>1 DEF ComputeFails, tracker, reports
      <3>2. taskFailed' \in BOOLEAN /\ reportFailed' \in BOOLEAN
        BY <1>0, <3>1, Zenon
      <3> QED  BY <1>0, <3>1, <3>2, FaultIsCounted, SideStepKeepsFlow
    <2>2. CASE Compute(t) \/ LoadTerms(t) \/ AddTerms(t)
      <3>1. UNCHANGED <<pc, phase, faults, taskFailed, reportFailed>>
        BY <2>2 DEF Compute, LoadTerms, AddTerms, tracker, reports
      <3> QED  BY <1>0, <3>1, SideStepKeepsFlow
    <2> QED  BY <1>2, <2>1, <2>2 DEF ThreadStep
  <1>3. CASE RunnerStep
    <2>1. CASE ReportFails
      <3>1. /\ UNCHANGED <<pc, phase, taskFailed>> /\ reportFailed' = TRUE /\ Fails("report")
        BY <2>1, NoRecordIsImpossible DEF ReportFails, tracker, work, RunInv
      <3>2. taskFailed' \in BOOLEAN /\ reportFailed' \in BOOLEAN
        BY <1>0, <3>1, Zenon
      <3> QED  BY <1>0, <3>1, <3>2, FaultIsCounted, SideStepKeepsFlow
    <2>2. CASE LockSnapshot \/ LoadCounters \/ Report \/ Wake
      <3>1. UNCHANGED <<pc, phase, faults, taskFailed, reportFailed>>
        BY <2>2 DEF LockSnapshot, LoadCounters, Report, Wake, tracker, work
      <3> QED  BY <1>0, <3>1, SideStepKeepsFlow
    <2> QED  BY <1>3, <2>1, <2>2 DEF RunnerStep
  <1>4. CASE UNCHANGED vars \/ Exited
    <2>1. UNCHANGED <<pc, phase, faults, taskFailed, reportFailed>>
      BY <1>4 DEF Exited, vars, tracker, work, reports
    <2> QED  BY <1>0, <2>1, SideStepKeepsFlow
  <1> QED  BY <1>1, <1>2, <1>3, <1>4 DEF Next
-----------------------------------------------------------------------------
(* The blocks of the threads and the terms that are not counted yet.       *)

TaskRecords == [step : {"idle", "load", "add"}, block : Ranges \cup {NoBlock}, seen : 0 .. TermCount]

LEMMA IdleFields ==
    /\ Idle \in TaskRecords /\ Idle.step = "idle" /\ Idle.block = NoBlock
    /\ TermsOf(NoBlock) = {} /\ Length(NoBlock) = 0
  BY ProgressAssumption DEF Idle, TaskRecords, NoBlock, TermsOf, Length

LEMMA LeftIsFinite ==
    ASSUME TaskInv
    PROVE  /\ Left \subseteq Every /\ IsFiniteSet(Left) /\ Cardinality(Left) \in 0 .. TermCount
           /\ pc # "leaves" => Left = {} /\ Cardinality(Left) = 0
  <1>1. \A t \in Threads : TermsOf(task[t].block) \subseteq Every
    <2> SUFFICES ASSUME NEW t \in Threads PROVE TermsOf(task[t].block) \subseteq Every
      OBVIOUS
    <2>1. task[t].block \in Ranges \cup {NoBlock}
      BY DEF TaskInv
    <2> QED  BY <2>1, IdleFields, RangeFields DEF Every
  <1>2. TermsIn(pending) \subseteq Every
    BY RangeFields DEF TaskInv, TermsIn, Every
  <1>3. Left \subseteq Every
    BY <1>1, <1>2 DEF Left
  <1>4. ASSUME pc # "leaves" PROVE Left = {} /\ Cardinality(Left) = 0
    BY <1>4, IdleFields, FS_EmptySet DEF TaskInv, Left, TermsIn
  <1> QED  BY <1>3, <1>4, EveryIsFinite

LEMMA KeptTasksKeepInv ==
    ASSUME TaskInv, UNCHANGED <<pending, task>>,
           pc' # "leaves" => pending = {} /\ \A t \in Threads : task[t].step = "idle"
    PROVE  TaskInv' /\ Left' = Left
  BY DEF TaskInv, Left, TermsIn, Disjoint

\* A thread whose block stays as it is, or becomes none.
LEMMA UpdatedTaskKeepsInv ==
    ASSUME TaskInv, NEW t \in Threads, NEW r \in TaskRecords, pc = "leaves",
           task' = [task EXCEPT ![t] = r], UNCHANGED <<pc, pending>>,
           r.step = "idle" => r.block = NoBlock,
           r.block \in {task[t].block, NoBlock}
    PROVE  /\ TaskInv'
           /\ r.block = task[t].block => Left' = Left
           /\ r.block = NoBlock => Left' = Left \ TermsOf(task[t].block)
  <1>1. \A u \in Threads : task'[u] = IF u = t THEN r ELSE task[u]
    BY DEF TaskInv
  <1>2. task' \in [Threads -> TaskRecords]
    BY DEF TaskInv, TaskRecords
  <1>3. \A u \in Threads : TermsOf(task'[u].block) \subseteq TermsOf(task[u].block)
    BY <1>1, IdleFields
  <1>4. TaskInv'
    BY <1>1, <1>2, <1>3 DEF TaskInv, TaskRecords, TermsIn, Disjoint
  <1>5. ASSUME r.block = task[t].block PROVE Left' = Left
    <2>1. \A u \in Threads : task'[u].block = task[u].block
      BY <1>1, <1>5
    <2> QED  BY <2>1 DEF Left, TermsIn
  <1>6. ASSUME r.block = NoBlock PROVE Left' = Left \ TermsOf(task[t].block)
    <2>1. \A x : x \in Left' <=> x \in TermsIn(pending) \/ \E u \in Threads : x \in TermsOf(task'[u].block)
      BY DEF Left, TermsIn
    <2>2. \A x : x \in Left <=> x \in TermsIn(pending) \/ \E u \in Threads : x \in TermsOf(task[u].block)
      BY DEF Left
    <2>3. TermsOf(task'[t].block) = {}
      BY <1>1, <1>6, IdleFields
    <2>4. \A u \in Threads \ {t} : /\ task'[u].block = task[u].block
                                   /\ TermsOf(task[u].block) \cap TermsOf(task[t].block) = {}
      BY <1>1 DEF TaskInv
    <2>5. TermsOf(task[t].block) \cap TermsIn(pending) = {}
      BY DEF TaskInv
    <2> QED  BY <2>1, <2>2, <2>3, <2>4, <2>5
  <1> QED  BY <1>4, <1>5, <1>6

\* A block that waits is taken: the thread works on it, or its task has thrown.
LEMMA TakenBlock ==
    ASSUME TaskInv, NEW b \in pending
    PROVE  /\ b \in Ranges /\ pending \ {b} \subseteq Ranges /\ Disjoint(pending \ {b})
           /\ TermsIn(pending) = TermsIn(pending \ {b}) \cup TermsOf(b)
           /\ TermsIn(pending \ {b}) \cap TermsOf(b) = {}
  BY DEF TaskInv, Disjoint, TermsIn

LEMMA ComputeKeepsTasks ==
    ASSUME TaskInv, NEW t \in Threads, Compute(t)
    PROVE  TaskInv' /\ Left' = Left
  <1> DEFINE r(b) == [step |-> "load", block |-> b, seen |-> 0]
  <1>1. PICK b \in pending : pending' = pending \ {b} /\ task' = [task EXCEPT ![t] = r(b)]
    BY DEF Compute
  <1>2. pc = "leaves" /\ pc' = pc /\ task[t].step = "idle"
    BY DEF Compute
  <1>3. /\ b \in Ranges /\ pending' \subseteq Ranges /\ Disjoint(pending')
        /\ TermsIn(pending) = TermsIn(pending') \cup TermsOf(b) /\ TermsIn(pending') \cap TermsOf(b) = {}
    BY <1>1, TakenBlock
  <1>4. r(b) \in TaskRecords /\ r(b).block = b /\ r(b).step = "load"
    BY <1>3, ProgressAssumption DEF TaskRecords
  <1>5. \A u \in Threads : task'[u] = IF u = t THEN r(b) ELSE task[u]
    BY <1>1 DEF TaskInv
  <1>6. task' \in [Threads -> TaskRecords]
    BY <1>1, <1>4 DEF TaskInv, TaskRecords
  <1> HIDE DEF r
  <1>7. TermsOf(task[t].block) = {} /\ task'[t].block = b /\ task'[t].step = "load"
    BY <1>2, <1>4, <1>5, IdleFields DEF TaskInv
  <1>8. \A u \in Threads \ {t} : task'[u] = task[u] /\ TermsOf(task[u].block) \cap TermsIn(pending) = {}
    BY <1>5 DEF TaskInv
  <1>9. TermsIn(pending)' = TermsIn(pending')
    BY DEF TermsIn
  <1>10. TaskInv'
    <2>1. \A u \in Threads : task'[u].step = "idle" => task'[u].block = NoBlock
      BY <1>7, <1>8 DEF TaskInv
    <2>2. \A u \in Threads : TermsOf(task'[u].block) \cap TermsIn(pending') = {}
      BY <1>3, <1>7, <1>8
    <2>3. \A u, v \in Threads : u # v => TermsOf(task'[u].block) \cap TermsOf(task'[v].block) = {}
      BY <1>3, <1>7, <1>8 DEF TaskInv
    <2>4. Disjoint(pending)'
      BY <1>3 DEF Disjoint
    <2> QED  BY <1>2, <1>3, <1>6, <1>9, <2>1, <2>2, <2>3, <2>4 DEF TaskInv, TaskRecords
  <1>11. Left' = Left
    <2>1. \A x : x \in Left' <=> x \in TermsIn(pending') \/ \E u \in Threads : x \in TermsOf(task'[u].block)
      BY <1>9 DEF Left
    <2>2. \A x : x \in Left <=> x \in TermsIn(pending) \/ \E u \in Threads : x \in TermsOf(task[u].block)
      BY DEF Left
    <2> QED  BY <1>3, <1>7, <1>8, <2>1, <2>2
  <1> QED  BY <1>10, <1>11

LEMMA ComputeFailsKeepsTasks ==
    ASSUME TaskInv, NEW t \in Threads, ComputeFails(t)
    PROVE  TaskInv' /\ Left' \subseteq Left
  <1>1. PICK b \in pending : pending' = pending \ {b}
    BY DEF ComputeFails
  <1>2. pc = "leaves" /\ pc' = pc /\ task' = task
    BY DEF ComputeFails
  <1>3. /\ pending' \subseteq Ranges /\ Disjoint(pending')
        /\ TermsIn(pending) = TermsIn(pending') \cup TermsOf(b)
    BY <1>1, TakenBlock
  <1>4. TermsIn(pending)' = TermsIn(pending') /\ Disjoint(pending)'
    BY <1>3 DEF TermsIn, Disjoint
  <1> QED  BY <1>2, <1>3, <1>4 DEF TaskInv, Left

\* What a counted block adds.
LEMMA CountedBlock ==
    ASSUME TaskInv, NEW t \in Threads
    PROVE  /\ Length(task[t].block) \in 0 .. TermCount
           /\ Cardinality(Left \ TermsOf(task[t].block)) = Cardinality(Left) - Length(task[t].block)
           /\ Length(task[t].block) <= Cardinality(Left)
  <1> DEFINE b == task[t].block
  <1>1. b \in Ranges \cup {NoBlock} /\ TermsOf(b) \subseteq Left
    BY DEF TaskInv, Left
  <1>2. IsFiniteSet(TermsOf(b)) /\ Cardinality(TermsOf(b)) = Length(b) /\ Length(b) \in 0 .. TermCount
    <2>1. CASE b \in Ranges
      BY <2>1, SizeOfRange, RangeFields, ProgressAssumption
    <2>2. CASE b = NoBlock
      BY <2>2, IdleFields, FS_EmptySet, ProgressAssumption
    <2> QED  BY <1>1, <2>1, <2>2
  <1>3. Left \cap TermsOf(b) = TermsOf(b)
    BY <1>1
  <1> HIDE DEF b
  <1>4. IsFiniteSet(Left)
    BY LeftIsFinite
  <1>5. Cardinality(Left \ TermsOf(b)) = Cardinality(Left) - Length(b)
    <2>1. Cardinality(Left \ TermsOf(b)) = Cardinality(Left) - Cardinality(Left \cap TermsOf(b))
      BY <1>4, FS_Difference
    <2> QED  BY <1>2, <1>3, <2>1
  <1>6. Length(b) <= Cardinality(Left)
    BY <1>1, <1>2, <1>4, FS_Subset
  <1> QED  BY <1>2, <1>5, <1>6 DEF b
\* A step of main() that counts no term.
LEMMA OtherStepsKeepTerms ==
    ASSUME TaskInv, TermInv, FixedInv, FlowInv, UNCHANGED <<fixed, pending, task, terms, taskFailed>>,
           \/ pc' = pc
           \/ /\ pc' # "leaves"
              /\ pc = "leaves" => pending = {} /\ \A t \in Threads : task[t].step = "idle"
              /\ \/ pc' \in FailedPlaces
                 \/ pc \in EarlyPlaces \ {"create"} /\ pc' \in EarlyPlaces \ {"create"}
                 \/ pc \notin EarlyPlaces \cup FailedPlaces /\ pc' \notin EarlyPlaces
    PROVE  TaskInv' /\ TermInv'
  <1>1. pc' # "leaves" => pending = {} /\ \A t \in Threads : task[t].step = "idle"
    BY DEF TaskInv
  <1>2. TaskInv' /\ Left' = Left
    BY <1>1, KeptTasksKeepInv
  <1>3. Covered' = Covered
    BY FixedStays
  <1>4. /\ Cardinality(Left) \in 0 .. TermCount
        /\ pc # "leaves" => Cardinality(Left) = 0
    BY LeftIsFinite
  <1>5. pc' # "leaves" => Cardinality(Left) = 0
    <2> SUFFICES ASSUME pc' # "leaves" PROVE Left = {}
      BY FS_EmptySet
    <2> QED  BY <1>1, IdleFields DEF TaskInv, Left, TermsIn
  <1>6. terms \in 0 .. TermCount /\ TermCount \in Nat
    BY ProgressAssumption DEF TermInv
  <1>7. CASE pc' = pc
    BY <1>2, <1>3, <1>7 DEF TermInv
  <1>8. CASE pc' # "leaves" /\ pc' \in FailedPlaces
    BY <1>2, <1>3, <1>5, <1>6, <1>8 DEF TermInv, EarlyPlaces, FailedPlaces
  <1>9. CASE pc \in EarlyPlaces \ {"create"} /\ pc' \in EarlyPlaces \ {"create"}
    BY <1>2, <1>3, <1>9 DEF TermInv, EarlyPlaces, FailedPlaces
  <1>10. CASE pc \notin EarlyPlaces \cup FailedPlaces /\ pc' \notin EarlyPlaces
    BY <1>2, <1>3, <1>10 DEF TermInv, EarlyPlaces, FailedPlaces
  <1> QED  BY <1>2, <1>7, <1>8, <1>9, <1>10

LEMMA ThreadStepsKeepTerms ==
    ASSUME RunInv, NEW t \in Threads, ThreadStep(t)
    PROVE  TaskInv' /\ TermInv'
  <1> DEFINE b == task[t].block
  <1>1. TaskInv /\ TermInv /\ FlowInv
    BY DEF RunInv
  <1>2. UNCHANGED fixed /\ Covered' = Covered
    BY FixedStays DEF ThreadStep, Compute, ComputeFails, LoadTerms, AddTerms
  <1>3. pc = "leaves" /\ pc' = pc
    BY <1>1 DEF ThreadStep, Compute, ComputeFails, LoadTerms, AddTerms, TaskInv
  <1>4. /\ terms \in 0 .. TermCount /\ Cardinality(Left) \in 0 .. TermCount /\ TermCount \in Nat
        /\ terms + Cardinality(Left) <= TermCount
        /\ ~taskFailed => terms + Cardinality(Left) = TermCount
    BY <1>1, <1>3, LeftIsFinite, ProgressAssumption DEF TermInv, EarlyPlaces, FailedPlaces
  <1>5. /\ Length(b) \in 0 .. TermCount /\ Length(b) <= Cardinality(Left)
        /\ Cardinality(Left \ TermsOf(b)) = Cardinality(Left) - Length(b)
    BY <1>1, CountedBlock
  <1>6. ~Exceeds(t) /\ phase \notin Terminal
    <2>1. ~(Length(b) > TermCount - terms)
      BY <1>4, <1>5
    <2> QED  BY <1>1, <1>3, <2>1 DEF Exceeds, FlowInv, Terminal
  <1>7. task[t] \in TaskRecords
    BY <1>1 DEF TaskInv, TaskRecords
  <1>8. ASSUME NEW r, r = [task[t] EXCEPT !.step = "add", !.seen = terms] \/ r = [task[t] EXCEPT !.seen = terms],
               task[t].step # "idle"
        PROVE  r \in TaskRecords /\ r.block = b /\ r.step # "idle"
    BY <1>4, <1>7, <1>8 DEF TaskRecords
  <1>9. CASE Compute(t)
    <2>1. TaskInv' /\ Left' = Left
      BY <1>1, <1>9, ComputeKeepsTasks
    <2>2. terms' = terms /\ taskFailed' = taskFailed
      BY <1>9 DEF Compute, tracker
    <2> QED  BY <1>1, <1>2, <1>3, <2>1, <2>2 DEF TermInv
  <1>10. CASE ComputeFails(t)
    <2>1. TaskInv' /\ Left' \subseteq Left /\ terms' = terms /\ taskFailed'
      BY <1>1, <1>10, ComputeFailsKeepsTasks DEF ComputeFails, tracker
    <2>2. Cardinality(Left') \in Nat /\ Cardinality(Left') <= Cardinality(Left)
      BY <1>1, <2>1, LeftIsFinite, FS_Subset, FS_CardinalityType
    <2>3. Cardinality(Left)' = Cardinality(Left')
      OBVIOUS
    <2> QED  BY <1>2, <1>3, <1>4, <2>1, <2>2, <2>3 DEF TermInv, EarlyPlaces
  <1>11. CASE LoadTerms(t)
    <2> DEFINE r == [task[t] EXCEPT !.step = "add", !.seen = terms]
    <2>1. task' = [task EXCEPT ![t] = r] /\ task[t].step = "load"
      BY <1>1, <1>6, <1>11 DEF LoadTerms, TaskInv
    <2>2. r \in TaskRecords /\ r.block = b /\ r.step # "idle"
      BY <1>8, <2>1
    <2> HIDE DEF r
    <2>3. UNCHANGED <<terms, pending, taskFailed>>
      BY <1>11 DEF LoadTerms, tracker
    <2>4. TaskInv' /\ Left' = Left
      BY <1>1, <1>3, <2>1, <2>2, <2>3, UpdatedTaskKeepsInv
    <2> QED  BY <1>1, <1>2, <1>3, <2>3, <2>4 DEF TermInv
  <1>12. CASE AddTerms(t)
    <2>1. UNCHANGED <<pending, taskFailed>> /\ task[t].step = "add" /\ ExchangeTerms(t)
      BY <1>12 DEF AddTerms
    <2>2. CASE terms = task[t].seen
      <3>1. terms' = terms + Length(b) /\ task' = [task EXCEPT ![t] = Idle]
        BY <2>1, <2>2 DEF ExchangeTerms
      <3>2. TaskInv' /\ Left' = Left \ TermsOf(b)
        BY <1>1, <1>3, <2>1, <3>1, IdleFields, UpdatedTaskKeepsInv
      <3>3. Cardinality(Left)' = Cardinality(Left) - Length(b)
        BY <1>5, <3>2
      <3> HIDE DEF b
      <3>4. terms' \in 0 .. TermCount /\ terms' + Cardinality(Left)' = terms + Cardinality(Left)
        BY <1>4, <1>5, <3>1, <3>3
      <3> QED  BY <1>2, <1>3, <1>4, <2>1, <3>2, <3>4 DEF TermInv, EarlyPlaces
    <2>3. CASE terms # task[t].seen
      <3> DEFINE r == [task[t] EXCEPT !.seen = terms]
      <3>1. terms' = terms /\ task' = [task EXCEPT ![t] = r]
        BY <1>1, <1>6, <2>1, <2>3 DEF ExchangeTerms, TaskInv
      <3>2. r \in TaskRecords /\ r.block = b /\ r.step # "idle"
        BY <1>8, <2>1
      <3> HIDE DEF r
      <3>3. TaskInv' /\ Left' = Left
        BY <1>1, <1>3, <2>1, <3>1, <3>2, UpdatedTaskKeepsInv
      <3> QED  BY <1>1, <1>2, <1>3, <2>1, <3>1, <3>3 DEF TermInv
    <2> QED  BY <2>2, <2>3
  <1> QED  BY <1>9, <1>10, <1>11, <1>12 DEF ThreadStep

LEMMA BeginKeepsTerms ==
    ASSUME RunInv, BeginSplitting
    PROVE  TaskInv' /\ TermInv'
  <1>1. TaskInv /\ TermInv /\ FlowInv /\ FixedInv
    BY DEF RunInv
  <1>2. /\ pc = "begin" /\ pending' = Blocks /\ UNCHANGED <<fixed, terms, task, taskFailed>>
        /\ Enter("splitting", "leaves", "calculationFailed")
    BY DEF BeginSplitting
  <1>3. IsValidTransition(phase, "splitting")
    BY <1>1, <1>2 DEF FlowInv, EarlyPlaces, IsValidTransition, Terminal
  <1>4. pc' = "leaves" /\ Covered' = Covered
    BY <1>2, <1>3, FixedStays DEF Enter, Goto
  <1>5. /\ Blocks \subseteq Ranges /\ Disjoint(Blocks) /\ Cardinality(Covered) \in 0 .. TermCount
        /\ Cardinality(TermsIn(Blocks)) = TermCount - Cardinality(Covered)
    BY <1>1, Totals
  <1>6. \A t \in Threads : task[t].step = "idle" /\ TermsOf(task[t].block) = {}
    BY <1>1, <1>2, IdleFields DEF TaskInv
  <1>7. TermsIn(pending)' = TermsIn(Blocks) /\ Disjoint(pending)'
    BY <1>2, <1>5 DEF TermsIn, Disjoint
  <1>8. TaskInv'
    BY <1>1, <1>2, <1>4, <1>5, <1>6, <1>7 DEF TaskInv
  <1>9. Left' = TermsIn(Blocks)
    BY <1>2, <1>6, <1>7 DEF Left
  <1>10. terms = Cardinality(Covered)
    BY <1>1, <1>2 DEF TermInv, EarlyPlaces
  <1>11. Cardinality(Left)' = TermCount - Cardinality(Covered)
    BY <1>5, <1>9
  <1> QED  BY <1>1, <1>2, <1>4, <1>5, <1>8, <1>10, <1>11, ProgressAssumption DEF TermInv, EarlyPlaces

LEMMA RestoreKeepsTerms ==
    ASSUME RunInv, Restore
    PROVE  TaskInv' /\ TermInv'
  <1>1. TaskInv /\ TermInv /\ FixedInv
    BY DEF RunInv
  <1>2. /\ pc = "create" /\ pc' = "runner" /\ UNCHANGED <<fixed, pending, task, taskFailed>>
        /\ terms' = IF config.resume THEN Cardinality(Covered) ELSE terms
    BY DEF Restore, Goto, work, tracker
  <1>3. TaskInv'
    BY <1>1, <1>2, KeptTasksKeepInv DEF TaskInv
  <1>4. terms' = Cardinality(Covered) /\ Cardinality(Covered) \in 0 .. TermCount
    BY <1>1, <1>2, Totals DEF FixedInv, TermInv
  <1> QED  BY <1>2, <1>3, <1>4, FixedStays DEF TermInv, EarlyPlaces

LEMMA StepsKeepTerms ==
    ASSUME RunInv, [Next]_vars
    PROVE  TaskInv' /\ TermInv'
  <1>0. TaskInv /\ TermInv /\ FlowInv /\ FixedInv
    BY DEF RunInv
  <1>1. CASE Restore
    BY <1>1, RestoreKeepsTerms
  <1>2. CASE BeginSplitting
    BY <1>2, BeginKeepsTerms
  <1>3. CASE \E t \in Threads : ThreadStep(t)
    BY <1>3, ThreadStepsKeepTerms
  <1>4. CASE CompleteTerms
    <2>1. /\ pc = "terms" /\ pc' = "finalize" /\ terms' = TermCount /\ UNCHANGED <<fixed, pending, task, taskFailed>>
      BY <1>4 DEF CompleteTerms, Goto, work
    <2>2. terms = TermCount
      BY <1>0, <2>1, LeftIsFinite, ProgressAssumption DEF TermInv, FlowInv, EarlyPlaces, FailedPlaces
    <2> QED  BY <1>0, <2>1, <2>2, OtherStepsKeepTerms DEF EarlyPlaces, FailedPlaces
  <1>5. CASE UNCHANGED vars \/ Exited \/ RunnerStep
    <2>1. UNCHANGED <<fixed, pending, task, terms, taskFailed, pc>>
      BY <1>5 DEF Exited, vars, RunnerStep, LockSnapshot, LoadCounters, Report, ReportFails, Wake, tracker, work
    <2> QED  BY <1>0, <2>1, OtherStepsKeepTerms
  <1>6. CASE \/ StartRunner \/ StartScheduler \/ StartFails \/ Unwind
             \/ CommitFails \/ MergeFails \/ FinalizeFails \/ CalculationFailed \/ OutputFails
             \/ Failed \/ JoinFailed
    <2>1. /\ UNCHANGED <<fixed, pending, task, terms, taskFailed>> /\ pc # "leaves" /\ pc' # "leaves"
          /\ \/ pc' \in FailedPlaces
             \/ pc \in EarlyPlaces \ {"create"} /\ pc' \in EarlyPlaces \ {"create"}
      BY <1>6 DEF StartRunner, StartScheduler, StartFails, Unwind, CommitFails, MergeFails, FinalizeFails,
         CalculationFailed, OutputFails, Failed, JoinFailed, Goto, work, tracker, EarlyPlaces, FailedPlaces
    <2> QED  BY <1>0, <2>1, OtherStepsKeepTerms
  <1>7. CASE LeavesAreDone \/ Commit \/ CommitNotDue \/ PublishTelemetry \/ Merge \/ Merged \/ JoinChecked
    <2>1. /\ UNCHANGED <<fixed, pending, task, terms, taskFailed>> /\ pc' # "leaves"
          /\ pc = "leaves" => pending = {} /\ \A t \in Threads : task[t].step = "idle"
          /\ pc \notin EarlyPlaces \cup FailedPlaces /\ pc' \notin EarlyPlaces
      BY <1>7 DEF LeavesAreDone, Commit, CommitNotDue, PublishTelemetry, Merge, Merged, JoinChecked, Checked,
         Goto, work, tracker, EarlyPlaces, FailedPlaces
    <2> QED  BY <1>0, <2>1, OtherStepsKeepTerms
  <1>8. CASE Finalize \/ WriteOutput \/ VerifyOutput \/ Finish
    <2>1. /\ UNCHANGED <<fixed, pending, task, terms, taskFailed>> /\ pc' # "leaves" /\ pc # "leaves"
          /\ pc \notin EarlyPlaces \cup FailedPlaces /\ pc' \notin EarlyPlaces
      BY <1>8 DEF Finalize, WriteOutput, VerifyOutput, Finish, Enter, Goto, work, tracker, EarlyPlaces,
         FailedPlaces
    <2> QED  BY <1>0, <2>1, OtherStepsKeepTerms
  <1> QED  BY <1>1, <1>2, <1>3, <1>4, <1>5, <1>6, <1>7, <1>8 DEF Next, MainStep
-----------------------------------------------------------------------------
(* The frontier, the manifest and the checkpoint counts.                   *)

LEMMA StepsKeepNodes ==
    ASSUME RunInv, [Next]_vars
    PROVE  NodeInv'
  <1>0. NodeInv /\ FixedInv /\ TermCount \in Nat
    BY ProgressAssumption DEF RunInv
  <1>1. /\ Cardinality(Covered) \in 0 .. TermCount /\ Cardinality(accepted) \in 0 .. Cardinality(Covered)
        /\ Cardinality(Blocks) \in 0 .. TermCount - Cardinality(Covered)
    BY <1>0, Totals
  <1>2. CASE Restore
    <2>1. UNCHANGED <<nodes, fresh, manifest>> /\ durable' \in {durable, Cardinality(accepted)}
      BY <1>2 DEF Restore, tracker, work, writer
    <2> QED  BY <1>0, <1>1, <2>1 DEF NodeInv
  <1>3. CASE BeginSplitting
    <2>1. /\ nodes' = Cardinality(accepted) + Cardinality(Blocks) /\ fresh' = Cardinality(Blocks)
          /\ UNCHANGED <<manifest, durable>>
      BY <1>3 DEF BeginSplitting, writer
    <2> QED  BY <1>0, <1>1, <2>1 DEF NodeInv
  <1>4. CASE Merge
    <2>1. /\ nodes' = (nodes + 1) \div 2 /\ fresh' = nodes \div 2 /\ UNCHANGED <<manifest, durable>>
      BY <1>4 DEF Merge, writer
    <2>2. nodes > 1 /\ nodes \in Nat /\ nodes <= TermCount
      BY <1>0, <1>4 DEF NodeInv, Merge
    <2>3. (nodes + 1) \div 2 \in 0 .. nodes /\ nodes \div 2 \in 0 .. nodes
      BY <2>2
    <2> QED  BY <1>0, <2>1, <2>2, <2>3 DEF NodeInv
  <1>5. CASE Commit \/ CommitFails
    <2>1. manifest' \in {manifest, nodes} /\ UNCHANGED <<nodes, fresh, durable>>
      BY <1>5 DEF Commit, CommitFails, work, tracker
    <2> QED  BY <1>0, <2>1 DEF NodeInv
  <1>6. CASE PublishTelemetry
    <2>1. durable' = nodes /\ UNCHANGED <<nodes, fresh, manifest>>
      BY <1>6 DEF PublishTelemetry, work
    <2> QED  BY <1>0, <2>1 DEF NodeInv
  <1>7. CASE \/ StartRunner \/ StartScheduler \/ StartFails \/ Unwind \/ LeavesAreDone \/ CommitNotDue
             \/ MergeFails \/ Merged \/ CompleteTerms \/ Finalize \/ FinalizeFails \/ CalculationFailed
             \/ WriteOutput \/ VerifyOutput \/ OutputFails \/ Finish \/ JoinChecked \/ Failed \/ JoinFailed
    <2>1. UNCHANGED <<nodes, fresh, manifest, durable>>
      BY <1>7 DEF StartRunner, StartScheduler, StartFails, Unwind, LeavesAreDone, CommitNotDue, MergeFails,
         Merged, CompleteTerms, Finalize, FinalizeFails, CalculationFailed, WriteOutput, VerifyOutput,
         OutputFails, Finish, JoinChecked, Failed, JoinFailed, work, tracker, writer
    <2> QED  BY <1>0, <2>1 DEF NodeInv
  <1>8. CASE (\E t \in Threads : ThreadStep(t)) \/ RunnerStep \/ Exited \/ UNCHANGED vars
    <2>1. UNCHANGED <<nodes, fresh, manifest, durable>>
      BY <1>8 DEF ThreadStep, Compute, ComputeFails, LoadTerms, AddTerms, RunnerStep, LockSnapshot,
         LoadCounters, Report, ReportFails, Wake, Exited, vars, work, tracker, writer
    <2> QED  BY <1>0, <2>1 DEF NodeInv
  <1> QED  BY <1>2, <1>3, <1>4, <1>5, <1>6, <1>7, <1>8 DEF Next, MainStep

\* A step that commits nothing.
LEMMA OtherStepsKeepCounts ==
    ASSUME CountInv, UNCHANGED <<fixed, blocks, durable, fresh, nodes, counted, manifest>>,
           \/ pc' = pc
           \/ pc' \in FailedPlaces /\ pc # "create"
           \/ pc \in EarlyPlaces \ {"create"} /\ pc' \in EarlyPlaces \ {"create"}
           \/ pc = "leaves" /\ pc' = "commit"
           \/ pc = "leaves" /\ pc' = "merge" /\ fresh = 0 /\ (Cardinality(Blocks) = 0 => Blocks = {})
           \/ pc = "commit" /\ pc' = "merge" /\ (counted \/ ~config.writer)
           \/ pc \in LatePlaces /\ pc' \in LatePlaces
    PROVE  CountInv'
  <1>1. /\ config' = config /\ accepted' = accepted /\ Blocks' = Blocks /\ TotalBlocks' = TotalBlocks
    BY FixedStays
  <1>2. CASE pc' = pc
    BY <1>1, <1>2 DEF CountInv
  <1>3. CASE pc' \in FailedPlaces /\ pc # "create"
    BY <1>1, <1>3 DEF CountInv, FailedPlaces, LatePlaces
  <1>4. CASE pc \in EarlyPlaces \ {"create"} /\ pc' \in EarlyPlaces \ {"create"}
    BY <1>1, <1>4 DEF CountInv, EarlyPlaces, LatePlaces, FailedPlaces
  <1>5. CASE pc = "leaves" /\ pc' = "commit"
    BY <1>1, <1>5 DEF CountInv, LatePlaces, FailedPlaces
  <1>6. CASE pc = "leaves" /\ pc' = "merge" /\ fresh = 0 /\ (Cardinality(Blocks) = 0 => Blocks = {})
    BY <1>1, <1>6 DEF CountInv, LatePlaces, FailedPlaces
  <1>7. CASE pc = "commit" /\ pc' = "merge" /\ (counted \/ ~config.writer)
    BY <1>1, <1>7 DEF CountInv, LatePlaces, FailedPlaces
  <1>8. CASE pc \in LatePlaces /\ pc' \in LatePlaces
    BY <1>1, <1>8 DEF CountInv, LatePlaces, FailedPlaces
  <1> QED  BY <1>2, <1>3, <1>4, <1>5, <1>6, <1>7, <1>8

LEMMA TelemetryKeepsCounts ==
    ASSUME RunInv, PublishTelemetry
    PROVE  CountInv'
  <1>0. CountInv /\ FixedInv /\ NodeInv
    BY DEF RunInv
  <1>1. /\ pc = "telemetry" /\ pc' = "merge" /\ counted' = TRUE /\ durable' = nodes
        /\ UNCHANGED <<fixed, manifest>>
        /\ blocks' = blocks + Min({IF counted THEN 0 ELSE fresh, TotalBlocks - blocks})
    BY DEF PublishTelemetry, AddWithinTotal, Goto
  <1>2. config' = config /\ TotalBlocks' = TotalBlocks
    BY <1>1, FixedStays
  <1>3. config.writer /\ manifest = nodes
    BY <1>0, <1>1 DEF CountInv
  <1>4. /\ TotalBlocks = Cardinality(accepted) + Cardinality(Blocks)
        /\ Cardinality(accepted) \in Nat /\ Cardinality(Blocks) \in Nat
        /\ Blocks = {} => Cardinality(Blocks) = 0
    BY <1>0, <1>3, Totals, ProgressAssumption
  <1>5. fresh \in Nat
    BY <1>0, ProgressAssumption DEF NodeInv
  <1>6. blocks' = TotalBlocks
    <2> DEFINE count == IF counted THEN 0 ELSE fresh
               room == TotalBlocks - blocks
    <2>1. /\ blocks \in Nat /\ count \in Nat /\ room \in Nat /\ blocks + room = TotalBlocks
          /\ count >= room
      <3>1. CASE counted
        <4>1. blocks = TotalBlocks
          BY <1>0, <1>1, <3>1 DEF CountInv
        <4> QED  BY <1>4, <3>1, <4>1
      <3>2. CASE ~counted
        <4>1. blocks = Cardinality(accepted) /\ (fresh = Cardinality(Blocks) \/ Cardinality(Blocks) = 0)
          BY <1>0, <1>1, <1>3, <1>4, <3>2 DEF CountInv
        <4> QED  BY <1>4, <1>5, <3>2, <4>1
      <3> QED  BY <3>1, <3>2
    <2>2. blocks' = blocks + Min({count, room})
      BY <1>1
    <2> HIDE DEF count, room
    <2>3. Min({count, room}) = room
      <3>1. Min({count, room}) = IF count <= room THEN count ELSE room
        BY <2>1, MinOfTwo
      <3> QED  BY <2>1, <3>1
    <2> QED  BY <2>1, <2>2, <2>3
  <1>7. counted' \in BOOLEAN
    BY <1>1, Zenon
  <1> QED  BY <1>1, <1>2, <1>3, <1>6, <1>7 DEF CountInv, LatePlaces, FailedPlaces

LEMMA StepsKeepCounts ==
    ASSUME RunInv, [Next]_vars
    PROVE  CountInv'
  <1>0. CountInv /\ FixedInv /\ FlowInv /\ UNCHANGED fixed
    BY StepsKeepFixed DEF RunInv
  <1>a. /\ config' = config /\ accepted' = accepted /\ Blocks' = Blocks /\ TotalBlocks' = TotalBlocks
    BY <1>0, FixedStays
  <1>b. Cardinality(Blocks) = 0 => Blocks = {}
    <2>1. IsFiniteSet(Blocks)
      BY <1>0, Totals, RangesAreFew
    <2> QED  BY <2>1, FS_EmptySet
  <1>1. CASE Restore
    <2>1. /\ pc = "create" /\ pc' = "runner" /\ UNCHANGED <<counted, manifest>>
          /\ IF config.resume THEN blocks' = Cardinality(accepted) /\ durable' = Cardinality(accepted)
                              ELSE UNCHANGED <<blocks, durable>>
      BY <1>1 DEF Restore, Goto, tracker, writer
    <2>2. ~counted
      BY <1>0, <2>1 DEF CountInv, FlowInv
    <2>3. blocks' = Cardinality(accepted) /\ durable' = Cardinality(accepted)
      BY <1>0, <2>1, <2>2, FS_EmptySet DEF FixedInv, CountInv
    <2> QED  BY <1>0, <1>a, <2>1, <2>2, <2>3 DEF CountInv, LatePlaces, FailedPlaces
  <1>2. CASE BeginSplitting
    <2>1. /\ pc = "begin" /\ pc' \in {"leaves", "calculationFailed"} /\ fresh' = Cardinality(Blocks)
          /\ UNCHANGED <<blocks, durable, counted, manifest>>
      BY <1>2 DEF BeginSplitting, Enter, Goto, writer
    <2> QED  BY <1>0, <1>a, <2>1 DEF CountInv, LatePlaces, FailedPlaces
  <1>3. CASE PublishTelemetry
    BY <1>3, TelemetryKeepsCounts
  <1>4. CASE Commit
    <2>1. /\ pc = "commit" /\ pc' = "telemetry" /\ config.writer /\ manifest' = nodes
          /\ UNCHANGED <<blocks, durable, counted, nodes, fresh>>
      BY <1>4 DEF Commit, Goto, tracker, work
    <2> QED  BY <1>0, <1>a, <2>1 DEF CountInv, LatePlaces, FailedPlaces
  <1>5. CASE CommitFails
    <2>1. /\ pc = "commit" /\ pc' = "calculationFailed" /\ UNCHANGED <<blocks, durable, counted>>
      BY <1>5 DEF CommitFails, Goto, tracker, work
    <2> QED  BY <1>0, <1>a, <2>1 DEF CountInv, LatePlaces, FailedPlaces
  <1>6. CASE Merge
    <2>1. /\ pc = "merge" /\ pc' = "commit" /\ UNCHANGED <<blocks, durable, counted, manifest>>
      BY <1>6 DEF Merge, Goto, writer
    <2> QED  BY <1>0, <1>a, <2>1 DEF CountInv, LatePlaces, FailedPlaces
  <1>7. CASE LeavesAreDone
    <2>1. /\ UNCHANGED <<blocks, durable, fresh, nodes, counted, manifest>> /\ pc = "leaves"
          /\ pc' \in {"calculationFailed", "commit"} \/ (pc' = "merge" /\ fresh = 0)
      BY <1>7 DEF LeavesAreDone, Goto, work, writer, tracker
    <2> QED  BY <1>0, <1>b, <2>1, OtherStepsKeepCounts DEF FailedPlaces
  <1>8. CASE CommitNotDue
    <2>1. /\ UNCHANGED <<blocks, durable, fresh, nodes, counted, manifest>> /\ pc = "commit" /\ pc' = "merge"
          /\ counted \/ ~config.writer
      BY <1>8 DEF CommitNotDue, Goto, work, writer, tracker
    <2> QED  BY <1>0, <2>1, OtherStepsKeepCounts
  <1>9. CASE \/ StartRunner \/ StartScheduler \/ StartFails \/ Unwind \/ MergeFails \/ Merged \/ CompleteTerms
             \/ FinalizeFails \/ CalculationFailed \/ OutputFails \/ JoinChecked \/ Failed \/ JoinFailed
    <2>1. /\ UNCHANGED <<blocks, durable, fresh, nodes, counted, manifest>>
          /\ \/ pc' \in FailedPlaces /\ pc # "create"
             \/ pc \in EarlyPlaces \ {"create"} /\ pc' \in EarlyPlaces \ {"create"}
             \/ pc \in LatePlaces /\ pc' \in LatePlaces
      BY <1>9 DEF StartRunner, StartScheduler, StartFails, Unwind, MergeFails, Merged, CompleteTerms,
         FinalizeFails, CalculationFailed, OutputFails, JoinChecked, Checked, Failed, JoinFailed, Goto,
         work, tracker, writer, EarlyPlaces, LatePlaces, FailedPlaces
    <2> QED  BY <1>0, <2>1, OtherStepsKeepCounts
  <1>10. CASE Finalize \/ WriteOutput \/ VerifyOutput \/ Finish
    <2>1. /\ UNCHANGED <<blocks, durable, fresh, nodes, counted, manifest>>
          /\ pc # "create" /\ pc \in LatePlaces /\ pc' \in LatePlaces \cup FailedPlaces
      BY <1>10 DEF Finalize, WriteOutput, VerifyOutput, Finish, Enter, Goto, work, writer,
         LatePlaces, FailedPlaces
    <2> QED  BY <1>0, <2>1, OtherStepsKeepCounts
  <1>11. CASE (\E t \in Threads : ThreadStep(t)) \/ RunnerStep \/ Exited \/ UNCHANGED vars
    <2>1. UNCHANGED <<blocks, durable, fresh, nodes, counted, manifest, pc>>
      BY <1>11 DEF ThreadStep, Compute, ComputeFails, LoadTerms, AddTerms, RunnerStep, LockSnapshot,
         LoadCounters, Report, ReportFails, Wake, Exited, vars, work, tracker, writer
    <2> QED  BY <1>0, <2>1, OtherStepsKeepCounts
  <1> QED  BY <1>1, <1>2, <1>3, <1>4, <1>5, <1>6, <1>7, <1>8, <1>9, <1>10, <1>11 DEF Next, MainStep
-----------------------------------------------------------------------------
(* What the reporting thread samples.                                      *)

LEMMA StepsKeepDone ==
    ASSUME RunInv, [Next]_vars
    PROVE  DoneInv'
  <1>0. FlowInv /\ TermInv /\ TaskInv /\ DoneInv /\ TermCount \in Nat
    BY ProgressAssumption DEF RunInv
  <1>1. CASE Restore
    BY <1>0, <1>1 DEF Restore, tracker, DoneInv, FlowInv
  <1>2. CASE \E t \in Threads : ThreadStep(t)
    <2>1. phase' = phase /\ (terms' = terms \/ pc = "leaves")
      BY <1>0, <1>2 DEF ThreadStep, Compute, ComputeFails, LoadTerms, AddTerms, tracker, TaskInv
    <2> QED  BY <1>0, <2>1 DEF DoneInv, FlowInv
  <1>3. CASE CompleteTerms
    BY <1>3 DEF CompleteTerms, DoneInv
  <1>4. CASE Finish
    <2>1. pc = "finish" /\ terms' = terms
      BY <1>4 DEF Finish
    <2>2. terms = TermCount
      BY <1>0, <2>1, LeftIsFinite DEF TermInv, FlowInv, EarlyPlaces, FailedPlaces
    <2> QED  BY <2>1, <2>2 DEF DoneInv
  <1>5. CASE BeginSplitting \/ Finalize \/ WriteOutput \/ VerifyOutput \/ Merge \/ MergeFails
    <2>1. terms' = terms /\ (phase' = phase \/ phase' # "completed")
      BY <1>5 DEF BeginSplitting, Finalize, WriteOutput, VerifyOutput, Merge, MergeFails, EnterMerging, Enter
    <2> QED  BY <1>0, <2>1 DEF DoneInv
  <1>6. CASE CalculationFailed \/ Failed
    <2>1. terms' = terms /\ (phase' = phase \/ phase' # "completed")
      BY <1>6 DEF CalculationFailed, Failed, MarkFailed
    <2> QED  BY <1>0, <2>1 DEF DoneInv
  <1>7. CASE \/ StartRunner \/ StartScheduler \/ StartFails \/ Unwind \/ LeavesAreDone
             \/ Commit \/ CommitNotDue \/ CommitFails \/ PublishTelemetry \/ Merged
             \/ FinalizeFails \/ OutputFails \/ JoinChecked \/ JoinFailed
    <2>1. UNCHANGED <<phase, terms>>
      BY <1>7 DEF StartRunner, StartScheduler, StartFails, Unwind, LeavesAreDone, Commit, CommitNotDue,
         CommitFails, PublishTelemetry, Merged, FinalizeFails, OutputFails, JoinChecked, JoinFailed, tracker
    <2> QED  BY <1>0, <2>1 DEF DoneInv
  <1>8. CASE RunnerStep \/ Exited \/ UNCHANGED vars
    <2>1. UNCHANGED <<phase, terms>>
      BY <1>8 DEF RunnerStep, LockSnapshot, LoadCounters, Report, ReportFails, Wake, Exited, vars, tracker
    <2> QED  BY <1>0, <2>1 DEF DoneInv
  <1> QED  BY <1>1, <1>2, <1>3, <1>4, <1>5, <1>6, <1>7, <1>8 DEF Next, MainStep

LEMMA StepsKeepSampled ==
    ASSUME RunInv, [Next]_vars
    PROVE  SampledInv'
  <1>0. SampledInv /\ RecordInv /\ FixedInv /\ CountInv /\ NodeInv /\ TermInv /\ FlowInv /\ DoneInv
    BY DEF RunInv
  <1>a. TotalBlocks' = TotalBlocks
    BY StepsKeepFixed, FixedStays
  <1>b. TotalBlocks \in 0 .. TermCount /\ blocks \in 0 .. TermCount /\ blocks <= TotalBlocks
    <2>1. /\ Cardinality(accepted) \in Nat /\ Cardinality(accepted) <= TotalBlocks
          /\ TotalBlocks \in 0 .. TermCount
      BY <1>0, Totals, ProgressAssumption
    <2> QED  BY <1>0, <2>1, ProgressAssumption DEF CountInv
  <1>c. sample = [phase |-> sample.phase, terms |-> sample.terms,
                  blocks |-> sample.blocks, durable |-> sample.durable]
    BY <1>0 DEF RecordInv, SampleInv
  <1>1. CASE RunnerStep
    <2>1. CASE LockSnapshot
      <3>1. /\ sample' = [phase |-> phase, terms |-> 0, blocks |-> blocks, durable |-> durable]
            /\ runner' = "counters" /\ UNCHANGED <<closing, stopRequested, last>>
        BY <2>1 DEF LockSnapshot
      <3>2. sample' \in Records /\ sample'.blocks = blocks
        BY <1>0, <1>b, <3>1, ProgressAssumption DEF Records, FlowInv, NodeInv
      <3> QED  BY <1>0, <1>a, <1>b, <3>1, <3>2 DEF SampledInv
    <2>2. CASE LoadCounters
      <3>1. /\ sample' = [sample EXCEPT !.terms = terms] /\ runner = "counters" /\ runner' = "report"
            /\ UNCHANGED <<closing, stopRequested, last>>
        BY <2>2 DEF LoadCounters
      <3>2. sample' \in Records /\ sample'.blocks = sample.blocks /\ sample'.terms = terms
            /\ sample'.phase = sample.phase
        BY <1>0, <3>1 DEF Records, SampledInv, TermInv
      <3>3. sample.phase = "completed" => terms = TermCount
        BY <1>0, <3>1 DEF RecordInv, SampleInv, Matches, DoneInv, Terminal
      <3> QED  BY <1>0, <1>a, <3>1, <3>2, <3>3 DEF SampledInv
    <2>3. CASE Report \/ ReportFails
      <3>1. /\ runner = "report" /\ runner' \in {"wait", "ended"}
            /\ last' \in {last, sample} /\ UNCHANGED <<closing, stopRequested, sample>>
        BY <2>3 DEF Report, ReportFails, AfterReport
      <3> QED  BY <1>0, <1>a, <3>1 DEF SampledInv
    <2>4. CASE Wake
      <3>1. /\ runner' = "lock" /\ closing' = stopRequested /\ UNCHANGED <<stopRequested, sample, last>>
        BY <2>4 DEF Wake
      <3> QED  BY <1>0, <1>a, <3>1 DEF SampledInv
    <2> QED  BY <1>1, <2>1, <2>2, <2>3, <2>4 DEF RunnerStep
  <1>2. CASE StartRunner
    <2>1. runner' \in {"lock", "off"} /\ UNCHANGED <<closing, stopRequested, sample, last>>
      BY <1>2 DEF StartRunner
    <2> QED  BY <1>0, <1>a, <2>1 DEF SampledInv
  <1>3. CASE StartFails
    <2>1. stopRequested' = (pc = "scheduler") /\ UNCHANGED <<runner, closing, sample, last>>
      BY <1>3 DEF StartFails
    <2>2. stopRequested' \in BOOLEAN
      BY <2>1, Zenon
    <2> QED  BY <1>0, <1>a, <2>1, <2>2 DEF SampledInv
  <1>4. CASE \/ Restore \/ StartScheduler \/ Unwind \/ BeginSplitting \/ LeavesAreDone \/ Commit \/ CommitNotDue
             \/ CommitFails \/ PublishTelemetry \/ Merge \/ MergeFails \/ Merged \/ CompleteTerms \/ Finalize
             \/ FinalizeFails \/ CalculationFailed \/ WriteOutput \/ VerifyOutput \/ OutputFails \/ Finish
             \/ JoinChecked \/ Failed \/ JoinFailed
    <2>1. UNCHANGED reports
      BY <1>4 DEF Restore, StartScheduler, Unwind, BeginSplitting, LeavesAreDone, Commit, CommitNotDue,
         CommitFails, PublishTelemetry, Merge, MergeFails, Merged, CompleteTerms, Finalize, FinalizeFails,
         CalculationFailed, WriteOutput, VerifyOutput, OutputFails, Finish, JoinChecked, Failed, JoinFailed
    <2> QED  BY <1>0, <1>a, <2>1 DEF SampledInv, reports
  <1>5. CASE (\E t \in Threads : ThreadStep(t)) \/ Exited \/ UNCHANGED vars
    <2>1. UNCHANGED reports
      BY <1>5 DEF ThreadStep, Compute, ComputeFails, LoadTerms, AddTerms, Exited, vars
    <2> QED  BY <1>0, <1>a, <2>1 DEF SampledInv, reports
  <1> QED  BY <1>1, <1>2, <1>3, <1>4, <1>5 DEF Next, MainStep

\* The inductive invariant of a run.
THEOREM RunInvariant == Spec => []RunInv
  <1>1. Init => RunInv
    BY InitRunInv
  <1>2. RunInv /\ [Next]_vars => RunInv'
    <2> SUFFICES ASSUME RunInv, [Next]_vars PROVE RunInv'
      OBVIOUS
    <2>1. RecordInv'
      BY StepsKeepRecordInv DEF RunInv
    <2>2. FixedInv'
      BY StepsKeepFixed, FixedStays DEF RunInv
    <2> QED  BY <2>1, <2>2, StepsKeepFlow, StepsKeepTerms, StepsKeepNodes, StepsKeepCounts, StepsKeepDone,
                StepsKeepSampled DEF RunInv
  <1> QED  BY <1>1, <1>2, PTL DEF Spec

\* However the workers' atomic additions interleave and retry, and whatever was
\* accepted on resume, the count of completed terms is the number of terms when
\* the tree is merged: completeTerms() has nothing left to add.
THEOREM TermsAreCounted == Spec => []TermsAreExact
  <1>1. ASSUME RunInv PROVE TermsAreExact
    <2>0. /\ FixedInv /\ FlowInv /\ TaskInv /\ TermInv /\ NodeInv /\ CountInv /\ SampledInv /\ TermCount \in Nat
      BY <1>1, ProgressAssumption DEF RunInv
    <2>1. blocks \in 0 .. TotalBlocks
      <3>1. /\ Cardinality(accepted) \in Nat /\ Cardinality(accepted) <= TotalBlocks /\ TotalBlocks \in Nat
        BY <2>0, Totals
      <3> QED  BY <2>0, <3>1 DEF CountInv
    <2>2. TypeOK
      BY <2>0, <2>1 DEF TypeOK, FixedInv, FlowInv, TaskInv, TermInv, NodeInv, CountInv, SampledInv
    <2>3. pc = "terms" => terms = TermCount
      BY <2>0, LeftIsFinite DEF TermInv, FlowInv, EarlyPlaces, FailedPlaces
    <2> QED  BY <2>2, <2>3 DEF TermsAreExact
  <1>2. RunInv => TermsAreExact
    BY <1>1
  <1> QED  BY <1>2, RunInvariant, PTL

\* Exit status 0 means that the last record says completed, with all terms, all
\* planned blocks and the manifest's durable count; exit status 1 means that
\* something did fail: no legal run is refused a phase or a record.
THEOREM ExitStatusesAreTrue == Spec => []ExitStatusIsTrue
  <1>1. ASSUME RunInv PROVE ExitStatusIsTrue
    <2>0. /\ RecordInv /\ FixedInv /\ FlowInv /\ CountInv /\ DoneInv /\ SampledInv
      BY <1>1 DEF RunInv
    <2>1. pc = "exit1" => faults > 0
      BY <2>0 DEF FlowInv, FailedPlaces
    <2>2. ASSUME pc = "exit0", config.progress
          PROVE  /\ runner = "ended" /\ ~reportFailed
                 /\ last.phase = "completed" /\ last.terms = TermCount
                 /\ last.blocks = TotalBlocks
                 /\ config.writer => last.durable = manifest
      <3>1. /\ runner = "ended" /\ ~reportFailed /\ phase = "completed"
        BY <2>0, <2>2 DEF RecordInv, RunnerInv, RunnerIsGone, PhaseInv
      <3>2. /\ last = sample /\ sample.phase = phase /\ sample.blocks = blocks /\ sample.durable = durable
            /\ sample.terms = TermCount
        BY <2>0, <3>1 DEF RecordInv, SampleInv, Matches, SampledInv
      <3>3. blocks = TotalBlocks /\ (config.writer => durable = manifest)
        <4>1. CASE counted
          BY <2>0, <2>2, <4>1 DEF CountInv, FailedPlaces
        <4>2. CASE ~counted /\ config.writer
          <5>1. Blocks = {} /\ blocks = Cardinality(accepted) /\ durable = Cardinality(accepted)
                /\ manifest = Cardinality(accepted)
            BY <2>0, <2>2, <4>2 DEF CountInv, FailedPlaces, LatePlaces
          <5>2. TotalBlocks = Cardinality(accepted) + 0 /\ Cardinality(accepted) \in Nat
            BY <2>0, <4>2, <5>1, Totals, ProgressAssumption
          <5> QED  BY <5>1, <5>2
        <4>3. CASE ~counted /\ ~config.writer
          <5>1. TotalBlocks = Cardinality(accepted) + 0 /\ Cardinality(accepted) \in Nat
            BY <2>0, <4>3, Totals, ProgressAssumption
          <5> QED  BY <2>0, <2>2, <4>3, <5>1 DEF CountInv
        <4> QED  BY <4>1, <4>2, <4>3
      <3> QED  BY <3>1, <3>2, <3>3
    <2> QED  BY <2>1, <2>2 DEF ExitStatusIsTrue
  <1>2. RunInv => ExitStatusIsTrue
    BY <1>1
  <1> QED  BY <1>2, RunInvariant, PTL
=============================================================================
