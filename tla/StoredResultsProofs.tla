------------------------- MODULE StoredResultsProofs -------------------------
(***************************************************************************)
(* Proofs about what is stored and published: the final verification, the  *)
(* word arithmetic and the sample positions of the hexadecimal check, the  *)
(* versioned index and its bytes, and the encoders and decoders of blocks  *)
(* and chunks.                                                             *)
(*                                                                         *)
(* Final verification, for any request and result, any content somebody    *)
(* else may put into the output, and any number of changes, kills and      *)
(* power losses.  None of its properties is inductive: what a manifest     *)
(* says was found out by stages that ended long before it was saved.  The  *)
(* invariant remembers, for each stage that is over, what its status says  *)
(* of the output as it is now, unless the output was changed since the     *)
(* first stage (VerifyInv, first section), and that a right decimal passed *)
(* it, unless something went wrong (CleanInv, last section).               *)
(*                                                                         *)
(* Arithmetic, samples, index and integers: the loops of the code are      *)
(* functions defined by recursion over an interval.  Such a function       *)
(* exists (LoopExists, FoldExists), and what holds of all its values is    *)
(* shown by looking at the smallest place where it would fail (Smallest).  *)
(*                                                                         *)
(* Records: numbers and their digits to any radix determine each other, so *)
(* an integer and its bytes do, so the fields of a record and its content  *)
(* do.  The invariant says that a record has the shape of one however it   *)
(* was altered.                                                            *)
(***************************************************************************)
EXTENDS ArithmeticChecks, FinalVerification, RecordFormats, VersionedChunkIndex,
        FiniteSetTheorems, FunctionTheorems, SequenceTheorems,
        WellFoundedInduction, TLAPS

Statuses == {"skipped", "passed", "inconclusive", "failed"}

Fine == {"skipped", "passed"}

\* Where main() and the client may stand, and what the file system holds.
VerifyTypeOK ==
    /\ output = None \/ output \in Seq(Nat)
    /\ digits \in Nat \ {0}
    /\ decimal \in Seq(Nat)
    /\ checks \in [Stages -> Statuses]
    /\ quiet \in BOOLEAN
    /\ manifest \in {None, Damaged} \/ manifest.digits \in Nat \ {0}
    /\ pc # "idle" => outcome = "none"

\* The stage is over: main() stands at a later one, or the report is being
\* made and the first stage did not end it.
Past(later) ==
    \/ pc \in later
    \/ pc \in {"report", "publish"} /\ checks["structure"] = "passed"

StructureFound ==
    Past({"known", "hash", "bbp"}) =>
        /\ checks["structure"] = "passed"
        /\ quiet => InspectFile(output, digits)

KnownFound ==
    Past({"hash", "bbp"}) =>
        /\ checks["known"] \in {"passed", "failed"}
        /\ quiet /\ checks["known"] = "passed" => KnownDigitsMatch(output, digits)

HashFound ==
    /\ pc \in {"known", "hash"} => digest = <<>>
    /\ Past({"bbp"}) =>
        /\ checks["hash"] = "passed" <=> digest # <<>>
        /\ checks["hash"] \in {"passed", "failed"}
        /\ quiet /\ digest # <<>> => digest[1] = CanonicalBytes(output, digits)

\* The samples are those of the policy, and the decimal agrees with pi there.
SamplesAgree(file, n, sampled) ==
    /\ DOMAIN sampled = DOMAIN Positions(n)
    /\ \A i \in DOMAIN Positions(n) :
        /\ sampled[i].position = Positions(n)[i]
        /\ Extract(Numerator(Fraction(file, n)), n, Positions(n)[i])
            = PiHex[Positions(n)[i] + 1]

SamplesFound ==
    Past({}) /\ quiet /\ checks["bbp"] \in Fine => SamplesAgree(output, digits, samples)

ReportFound ==
    /\ pc = "report" => checks["structure"] \in {"passed", "failed"}
    /\ pc = "publish" =>
        /\ checks["structure"] = "passed"
        /\ \A stage \in Stages : checks[stage] \in Fine

VerifyInv ==
    /\ VerifyTypeOK
    /\ StructureFound /\ KnownFound /\ HashFound /\ SamplesFound /\ ReportFound
    /\ ManifestIsEvidence
    /\ RecheckIsSound
-----------------------------------------------------------------------------
\* The order of the statuses.
LEMMA SeverityOrder ==
    \A s \in Statuses : Severity[s] = IF s = "skipped" THEN 0 ELSE
        IF s = "passed" THEN 1 ELSE IF s = "inconclusive" THEN 2 ELSE 3
  BY DEF Statuses, Severity

\* Some status is the worst.
LEMMA WorstExists ==
    ASSUME NEW S \in SUBSET Statuses
    PROVE  \E s \in S \cup {"skipped"} : \A t \in S : Severity[t] <= Severity[s]
  <1>1. CASE "failed" \in S
    BY <1>1, SeverityOrder DEF Statuses
  <1>2. CASE "failed" \notin S /\ "inconclusive" \in S
    BY <1>2, SeverityOrder DEF Statuses
  <1>3. CASE "failed" \notin S /\ "inconclusive" \notin S /\ "passed" \in S
    BY <1>3, SeverityOrder DEF Statuses
  <1>4. CASE S \subseteq {"skipped"}
    BY <1>4, SeverityOrder DEF Statuses
  <1> QED  BY <1>1, <1>2, <1>3, <1>4 DEF Statuses

\* The status of a report is the worst of its checks: it is fine only if
\* each of them is.
LEMMA WorstBounds ==
    ASSUME NEW S \in SUBSET Statuses, Worst(S) \in Fine
    PROVE  S \subseteq Fine
  <1>1. \A t \in S : Severity[t] <= Severity[Worst(S)]
    BY WorstExists DEF Worst
  <1> QED  BY <1>1, SeverityOrder DEF Statuses, Fine

\* The positions of the samples are a function.
LEMMA PositionsAreAFunction ==
    ASSUME NEW n
    PROVE  Positions(n) = [i \in DOMAIN Positions(n) |-> Positions(n)[i]]
  <1>1. ASSUME NEW S
        PROVE  Ascending(S) = [i \in DOMAIN Ascending(S) |-> Ascending(S)[i]]
    <2> DEFINE place(i) == CHOOSE x \in S : Cardinality({y \in S : y < x}) = i - 1
    <2> DEFINE f == [i \in 1 .. Cardinality(S) |-> place(i)]
    <2>1. Ascending(S) = f
      BY DEF Ascending
    <2>2. f = [i \in DOMAIN f |-> f[i]]
      <3> HIDE DEF place
      <3> QED  OBVIOUS
    <2> QED  BY <2>1, <2>2
  <1>2. <<>> = [i \in DOMAIN <<>> |-> <<>>[i]]
    BY SMT
  <1>3. Positions(n) = <<>> \/ \E S : Positions(n) = Ascending(S)
    BY Zenon DEF Positions, Select
  <1> QED  BY <1>1, <1>2, <1>3

\* The worst of some statuses is a status.
LEMMA WorstIsAStatus ==
    ASSUME NEW S \in SUBSET Statuses
    PROVE  Worst(S) \in Statuses
  <1>1. \E s \in S \cup {"skipped"} : \A t \in S : Severity[t] <= Severity[s]
    BY WorstExists
  <1>2. Worst(S) \in S \cup {"skipped"}
    BY <1>1 DEF Worst
  <1> QED  BY <1>2 DEF Statuses

\* The status of the stage is one.
LEMMA SampledStatus ==
    ASSUME NEW file, NEW n, NEW resolved
    PROVE  Aggregate(Sampled(file, n, resolved)) \in Statuses
  <1> DEFINE sampled == Sampled(file, n, resolved)
  <1>1. \A i \in DOMAIN sampled : sampled[i].status \in Statuses
    BY DEF Sampled, SampleStatus, Statuses
  <1>2. {sampled[i].status : i \in DOMAIN sampled} \in SUBSET Statuses
    BY <1>1
  <1>3. Worst({sampled[i].status : i \in DOMAIN sampled}) \in Statuses
    BY <1>2, WorstIsAStatus
  <1>4. "skipped" \in Statuses
    BY DEF Statuses
  <1> QED  BY <1>3, <1>4 DEF Aggregate

\* Samples whose worst status is fine agree with pi.
LEMMA SampledAgree ==
    ASSUME NEW file, NEW n, NEW resolved, Aggregate(Sampled(file, n, resolved)) \in Fine
    PROVE  SamplesAgree(file, n, Sampled(file, n, resolved))
  <1> DEFINE sampled == Sampled(file, n, resolved)
  <1> DEFINE P == Positions(n)
  <1>1. /\ DOMAIN sampled = DOMAIN P
        /\ \A i \in DOMAIN P : /\ sampled[i].position = P[i]
                               /\ sampled[i].status = SampleStatus(file, n, P[i], resolved[i])
    BY DEF Sampled
  <1>2. \A i \in DOMAIN P : sampled[i].status \in {"passed", "inconclusive", "failed"}
    BY <1>1 DEF SampleStatus
  <1>3. \A i \in DOMAIN P : sampled[i].status = "passed"
    <2>1. CASE sampled = <<>>
      BY <1>1, <2>1
    <2>2. CASE sampled # <<>>
      <3> DEFINE S == {sampled[i].status : i \in DOMAIN sampled}
      <3>1. S \in SUBSET Statuses
        BY <1>1, <1>2 DEF Statuses
      <3>2. Worst(S) \in Fine
        BY <2>2 DEF Aggregate
      <3>3. S \subseteq Fine
        BY <3>1, <3>2, WorstBounds
      <3> QED  BY <3>3, <1>1, <1>2 DEF Fine
    <2> QED  BY <2>1, <2>2
  <1>4. \A i \in DOMAIN P :
            Extract(Numerator(Fraction(file, n)), n, P[i]) = PiHex[P[i] + 1]
    BY <1>1, <1>3 DEF SampleStatus
  <1> QED  BY <1>1, <1>4 DEF SamplesAgree

\* A prefix of a sequence and the part of it that follows two elements.
LEMMA PrefixParts ==
    ASSUME NEW file \in Seq(Nat), NEW n \in Nat, NEW m \in Nat, m <= n, Len(file) >= n + 2
    PROVE  /\ SubSeq(file, 1, n + 2) \in Seq(Nat)
           /\ Len(SubSeq(file, 1, n + 2)) = n + 2
           /\ \A i \in 1 .. n + 2 : SubSeq(file, 1, n + 2)[i] = file[i]
           /\ SubSeq(SubSeq(file, 1, n + 2), 3, m + 2) = SubSeq(file, 3, m + 2)
  <1> DEFINE prefix == SubSeq(file, 1, n + 2)
  <1>1. /\ prefix \in Seq(Nat) /\ Len(prefix) = n + 2
        /\ \A i \in 1 .. n + 2 : prefix[i] = file[i]
    BY SubSeqProperties, SMTT(30)
  <1>2. SubSeq(prefix, 3, m + 2) = SubSeq(file, 3, m + 2)
    BY <1>1, SMTT(30)
  <1> QED  BY <1>1, <1>2

\* A file that two stages passed is its canonical bytes and a newline.
LEMMA InspectedBytes ==
    ASSUME NEW file \in Seq(Nat), NEW n \in Nat \ {0},
           InspectFile(file, n), KnownDigitsMatch(file, n)
    PROVE  LET bytes == CanonicalBytes(file, n)
           IN  /\ bytes \in Seq(Nat) /\ Len(bytes) = n + 2
               /\ bytes[1] = 3 /\ bytes[2] = Point
               /\ \A i \in 3 .. n + 2 : bytes[i] \in Digit
               /\ SubSeq(bytes, 3, Compared(n) + 2) = ExpectedPrefix(n)
               /\ Fraction(bytes, n) = Fraction(file, n)
               /\ file = Append(bytes, NewLine)
  <1> DEFINE bytes == CanonicalBytes(file, n)
  <1>1. Compared(n) \in Nat /\ Compared(n) <= n
    BY VerificationAssumption DEF Compared, Lesser
  <1>2. Len(file) = n + 3 /\ DOMAIN file = 1 .. n + 3
    BY DEF InspectFile
  <1>3. /\ bytes \in Seq(Nat) /\ Len(bytes) = n + 2
        /\ \A i \in 1 .. n + 2 : bytes[i] = file[i]
        /\ SubSeq(bytes, 3, Compared(n) + 2) = SubSeq(file, 3, Compared(n) + 2)
        /\ Fraction(bytes, n) = Fraction(file, n)
    <2>1. ASSUME NEW m \in Nat, m <= n
          PROVE  /\ bytes \in Seq(Nat) /\ Len(bytes) = n + 2
                 /\ \A i \in 1 .. n + 2 : bytes[i] = file[i]
                 /\ SubSeq(bytes, 3, m + 2) = SubSeq(file, 3, m + 2)
      <3>1. Len(file) >= n + 2
        BY <1>2
      <3> HIDE DEF bytes
      <3>2. bytes = SubSeq(file, 1, n + 2)
        BY DEF bytes, CanonicalBytes
      <3> QED  BY <2>1, <3>1, <3>2, PrefixParts
    <2> HIDE DEF bytes
    <2>2. Fraction(bytes, n) = Fraction(file, n)
      <3>1. n \in Nat /\ n <= n
        OBVIOUS
      <3>2. SubSeq(bytes, 3, n + 2) = SubSeq(file, 3, n + 2)
        BY <2>1, <3>1, Zenon
      <3> QED  BY <3>2 DEF Fraction
    <2> QED  BY <1>1, <2>1, <2>2
  <1>4. \A i \in 1 .. n + 3 : ~Misplaced(file[i], i - 1, n)
    BY <1>2 DEF InspectFile
  <1>5. file[1] = 3 /\ file[2] = Point /\ file[n + 3] = NewLine
    <2>1. ~Misplaced(file[1], 0, n)
      BY <1>4
    <2>2. ~Misplaced(file[2], 1, n)
      BY <1>4
    <2>3. ~Misplaced(file[n + 3], n + 2, n)
      BY <1>4
    <2> QED  BY <2>1, <2>2, <2>3 DEF Misplaced
  <1>6. \A i \in 3 .. n + 2 : file[i] \in Digit
    BY <1>4 DEF Misplaced
  <1>7. file = Append(bytes, NewLine)
    <2>1. /\ Append(bytes, NewLine) \in Seq(Nat)
          /\ Len(Append(bytes, NewLine)) = n + 3
          /\ \A i \in 1 .. n + 2 : Append(bytes, NewLine)[i] = bytes[i]
          /\ Append(bytes, NewLine)[n + 3] = NewLine
      <3> HIDE DEF bytes
      <3>1. NewLine \in Nat
        BY DEF NewLine
      <3> QED  BY <1>3, <3>1, AppendProperties
    <2>2. \A i \in 1 .. n + 3 : file[i] = Append(bytes, NewLine)[i]
      <3>1. \A i \in 1 .. n + 3 : i = n + 3 \/ i \in 1 .. n + 2
        OBVIOUS
      <3>2. \A i \in 1 .. n + 2 : file[i] = Append(bytes, NewLine)[i]
        BY <2>1, <1>3, Zenon
      <3> QED  BY <3>1, <3>2, <2>1, <1>5, Zenon
    <2> QED  BY <2>1, <2>2, <1>2, SeqEqual
  <1>8. SubSeq(file, 3, Compared(n) + 2) = ExpectedPrefix(n)
    BY DEF KnownDigitsMatch
  <1>9. bytes[1] = 3 /\ bytes[2] = Point /\ \A i \in 3 .. n + 2 : bytes[i] \in Digit
    <2>1. 1 \in 1 .. n + 2 /\ 2 \in 1 .. n + 2 /\ 3 .. n + 2 \subseteq 1 .. n + 2
      OBVIOUS
    <2> QED  BY <2>1, <1>3, <1>5, <1>6, Zenon
  <1> QED  BY <1>3, <1>7, <1>8, <1>9

\* What four stages that passed say, put together.
LEMMA StagesAreEvidence ==
    ASSUME NEW file \in Seq(Nat), NEW n \in Nat \ {0}, NEW sampled,
           InspectFile(file, n), KnownDigitsMatch(file, n), SamplesAgree(file, n, sampled)
    PROVE  /\ Evident(CanonicalBytes(file, n), n, Positions(n))
           /\ [i \in DOMAIN sampled |-> sampled[i].position] = Positions(n)
           /\ file = Append(CanonicalBytes(file, n), NewLine)
  <1>1. [i \in DOMAIN sampled |-> sampled[i].position] = Positions(n)
    BY PositionsAreAFunction DEF SamplesAgree
  <1> QED  BY <1>1, InspectedBytes DEF Evident, SamplesAgree
-----------------------------------------------------------------------------
(* The invariant is inductive.                                             *)

\* Nothing has been found out at the start.
LEMMA VerifyInitially == VerifyInit => VerifyInv
  <1> SUFFICES ASSUME VerifyInit PROVE VerifyInv
    OBVIOUS
  <1>1. <<>> \in Seq(Nat)
    OBVIOUS
  <1>2. Skipped \in [Stages -> Statuses]
    BY DEF Skipped, Statuses
  <1>3. VerifyTypeOK
    <2>1. quiet \in BOOLEAN
      BY Zenon DEF VerifyInit
    <2> QED  BY <2>1, <1>1, <1>2 DEF VerifyInit, VerifyTypeOK
  <1>4. StructureFound /\ KnownFound /\ HashFound /\ SamplesFound /\ ReportFound
    BY DEF VerifyInit, StructureFound, KnownFound, HashFound, SamplesFound, ReportFound, Past
  <1>5. ManifestIsEvidence /\ RecheckIsSound
    BY DEF VerifyInit, ManifestIsEvidence, RecheckIsSound
  <1> QED  BY <1>3, <1>4, <1>5 DEF VerifyInv

USE DEF VerifyInv, VerifyTypeOK, StructureFound, KnownFound, HashFound, SamplesFound,
        ReportFound, Past, Stages, Statuses, Fine

\* A step back to the idle state leaves nothing to say but what is in the
\* manifest, if it is not the end of a recheck.
LEMMA IdleKeepsInv ==
    ASSUME VerifyInv, pc' = "idle", outcome' # "passed",
           output' = None \/ output' \in Seq(Nat),
           digits' \in Nat \ {0}, decimal' \in Seq(Nat),
           checks' \in [Stages -> Statuses], quiet' \in BOOLEAN,
           manifest' = manifest \/ manifest' \in {None, Damaged}
    PROVE  VerifyInv'
  BY DEF ManifestIsEvidence, RecheckIsSound

\* The steps of main() before the output is verified.
LEMMA WritingKeepsInv ==
    ASSUME VerifyInv,
           \/ \E n \in Requested : \E result \in Results[n], chosen \in Options :
                 Calculate(n, result, chosen)
           \/ OpenOutput \/ WriteOutput \/ SkipVerification
    PROVE  VerifyInv'
  <1>1. ASSUME NEW n \in Requested, NEW result \in Results[n], NEW chosen \in Options,
               Calculate(n, result, chosen)
        PROVE  VerifyInv'
    <2>1. n \in Nat \ {0} /\ result \in Seq(Nat)
      BY VerificationAssumption
    <2> QED
      BY <1>1, <2>1 DEF Calculate, Skipped, ManifestIsEvidence, RecheckIsSound
  <1>2. CASE OpenOutput
    <2>1. /\ output' = output \/ output' \in Seq(Nat)
          /\ pc = "open"
          /\ \/ pc' = "write" /\ UNCHANGED outcome
             \/ pc' = "idle" /\ outcome' = "failed"
          /\ UNCHANGED <<manifest, digits, decimal, checks, quiet>>
      <3>1. <<>> \in Seq(Nat)
        OBVIOUS
      <3> QED  BY <1>2, <3>1 DEF OpenOutput, Fails, call, report
    <2> QED  BY <2>1 DEF ManifestIsEvidence, RecheckIsSound
  <1>3. CASE WriteOutput
    <2>1. Append(decimal, NewLine) \in Seq(Nat)
      BY DEF NewLine
    <2>2. \A k \in 0 .. Len(decimal) : SubSeq(decimal, 1, k) \in Seq(Nat)
      OBVIOUS
    <2>3. output' \in Seq(Nat)
      BY <1>3, <2>1, <2>2, Zenon DEF WriteOutput
    <2> QED
      BY <1>3, <2>3 DEF WriteOutput, Fails, call, report, ManifestIsEvidence, RecheckIsSound
  <1>4. CASE SkipVerification
    BY <1>4 DEF SkipVerification, call, report, ManifestIsEvidence, RecheckIsSound
  <1> QED  BY <1>1, <1>2, <1>3, <1>4

\* Each stage records what it finds.
LEMMA StagesKeepInv ==
    ASSUME VerifyInv, InspectOutput \/ VerifyKnownDigits \/ HashOutput \/ VerifySamples
    PROVE  VerifyInv'
  <1>1. CASE InspectOutput
    BY <1>1 DEF InspectOutput, Skipped, call, ManifestIsEvidence, RecheckIsSound
  <1>2. CASE VerifyKnownDigits
    BY <1>2 DEF VerifyKnownDigits, call, ManifestIsEvidence, RecheckIsSound
  <1>3. CASE HashOutput
    BY <1>3 DEF HashOutput, call, ManifestIsEvidence, RecheckIsSound
  <1>4. CASE VerifySamples
    <2>1. UNCHANGED <<output, manifest, expected, digits, decimal, digest, outcome, quiet>>
      BY <1>4 DEF VerifySamples, call
    <2>2. \/ checks' = [checks EXCEPT !["bbp"] = "failed"]
          \/ /\ checks' = [checks EXCEPT !["bbp"] = Aggregate(samples')]
             /\ \E resolved : samples' = Sampled(output, digits, resolved)
      BY <1>4 DEF VerifySamples
    <2>3. CASE checks' = [checks EXCEPT !["bbp"] = "failed"]
      BY <1>4, <2>1, <2>3 DEF VerifySamples, ManifestIsEvidence, RecheckIsSound
    <2>4. ASSUME NEW resolved, samples' = Sampled(output, digits, resolved),
                 checks' = [checks EXCEPT !["bbp"] = Aggregate(samples')]
          PROVE  VerifyInv'
      <3>1. Aggregate(samples') \in Statuses
        BY <2>4, SampledStatus
      <3>2. Aggregate(samples') \in Fine => SamplesAgree(output, digits, samples')
        BY <2>4, SampledAgree
      <3> QED
        BY <1>4, <2>1, <2>4, <3>1, <3>2 DEF VerifySamples, ManifestIsEvidence, RecheckIsSound
    <2> QED  BY <2>2, <2>3, <2>4
  <1> QED  BY <1>1, <1>2, <1>3, <1>4

\* A report that passes has four stages behind it.
LEMMA PassedReport ==
    ASSUME VerifyInv, pc = "report", ReportStatus = "passed"
    PROVE  /\ checks["structure"] = "passed" /\ checks["known"] = "passed"
           /\ checks["hash"] = "passed" /\ checks["bbp"] \in Fine
           /\ ~Mismatch
  <1>1. FinalChecks \in [Stages -> Statuses]
    BY DEF FinalChecks
  <1>2. \A stage \in Stages : FinalChecks[stage] \in Fine
    BY <1>1, WorstBounds DEF ReportStatus
  <1>3. \A stage \in Stages \ {"hash"} : FinalChecks[stage] = checks[stage]
    BY DEF FinalChecks
  <1>4. checks["structure"] = "passed"
    BY <1>2, <1>3
  <1>5. checks["known"] = "passed" /\ checks["bbp"] \in Fine
    BY <1>2, <1>3, <1>4
  <1>6. ~Mismatch
    BY <1>2 DEF FinalChecks
  <1> QED  BY <1>2, <1>4, <1>5, <1>6 DEF FinalChecks

\* What the stages found, if nobody changed the output since the first.
LEMMA PassedIsEvidence ==
    ASSUME VerifyInv, quiet, pc \in {"report", "publish"},
           checks["structure"] = "passed", checks["known"] = "passed",
           digest # <<>>, checks["bbp"] \in Fine
    PROVE  /\ Evident(digest[1], digits, Positions(digits))
           /\ [i \in DOMAIN samples |-> samples[i].position] = Positions(digits)
           /\ output = Append(digest[1], NewLine)
  <1>1. InspectFile(output, digits) /\ KnownDigitsMatch(output, digits)
    OBVIOUS
  <1>2. output \in Seq(Nat)
    BY <1>1 DEF InspectFile, Readable
  <1>3. SamplesAgree(output, digits, samples) /\ digest[1] = CanonicalBytes(output, digits)
    OBVIOUS
  <1> QED  BY <1>1, <1>2, <1>3, StagesAreEvidence

\* A report that passes is that of four stages that did.
LEMMA ReportKeepsInv ==
    ASSUME VerifyInv, Report
    PROVE  VerifyInv'
  <1>1. UNCHANGED <<output, manifest, expected, digits, decimal, checks, digest, samples, quiet>>
    BY DEF Report, call, report
  <1>2. CASE ReportStatus = "passed"
    <2>1. /\ checks["structure"] = "passed" /\ checks["known"] = "passed"
          /\ checks["hash"] = "passed" /\ checks["bbp"] \in Fine /\ ~Mismatch
      BY <1>2, PassedReport DEF Report
    <2>2. digest # <<>>
      BY <2>1 DEF Report
    <2>3. CASE expected # None /\ pc' = "idle" /\ outcome' = ReportStatus
      <3>1. digest[1] = expected
        BY <2>1, <2>2, <2>3 DEF Mismatch
      <3>2. quiet => /\ Evident(expected, digits, Positions(digits))
                     /\ output = Append(expected, NewLine)
        BY <2>1, <2>2, <3>1, PassedIsEvidence DEF Report
      <3>3. RecheckIsSound'
        BY <1>1, <3>2 DEF RecheckIsSound, Evident, Positions, Fraction
      <3> QED  BY <1>1, <2>3, <3>3 DEF ManifestIsEvidence
    <2>4. CASE pc' = "publish" /\ UNCHANGED outcome
      BY <1>1, <2>1, <2>4 DEF Report, ManifestIsEvidence, RecheckIsSound
    <2> QED  BY <1>2, <2>3, <2>4 DEF Report
  <1>3. CASE ReportStatus # "passed"
    <2>1. pc' = "idle" /\ outcome' # "passed"
      BY <1>3 DEF Report, Fails
    <2> QED  BY <1>1, <2>1, IdleKeepsInv
  <1> QED  BY <1>2, <1>3

\* A manifest that is made when all stages are over is evidence.
LEMMA NewManifestIsEvidence ==
    ASSUME VerifyInv, pc = "publish", Publishable
    PROVE  /\ NewManifest.digits \in Nat \ {0}
           /\ NewManifest.quiet =>
                Evident(NewManifest.sha256, NewManifest.digits, NewManifest.positions)
  <1>1. /\ NewManifest.digits = digits /\ NewManifest.sha256 = digest[1]
        /\ NewManifest.positions = [i \in DOMAIN samples |-> samples[i].position]
        /\ NewManifest.quiet = quiet
    BY DEF NewManifest
  <1>2. checks["structure"] = "passed" /\ checks["bbp"] \in Fine
    OBVIOUS
  <1>3. digest # <<>> /\ checks["known"] = "passed"
    BY DEF Publishable
  <1>4. quiet => /\ Evident(digest[1], digits, Positions(digits))
                 /\ [i \in DOMAIN samples |-> samples[i].position] = Positions(digits)
    BY <1>2, <1>3, PassedIsEvidence
  <1> QED  BY <1>1, <1>4

\* A step to the idle state that may also have published.
LEMMA PublishKeepsInv ==
    ASSUME VerifyInv, pc = "publish", Publishable,
           manifest' = NewManifest, pc' = "idle", outcome' # "passed",
           output' = None \/ output' \in Seq(Nat), quiet' \in BOOLEAN,
           UNCHANGED <<digits, decimal, checks>>
    PROVE  VerifyInv'
  <1>1. ManifestIsEvidence' /\ manifest'.digits \in Nat \ {0}
    BY NewManifestIsEvidence DEF ManifestIsEvidence, Evident, Positions, Fraction
  <1> QED  BY <1>1 DEF RecheckIsSound

\* The rename of a manifest leaves an output of bytes, and the manifest that
\* was there or the new one.
LEMMA PutManifestIs ==
    ASSUME NEW outputs, \A file \in outputs : file = None \/ file \in Seq(Nat), PutManifest(outputs)
    PROVE  /\ output' = None \/ output' \in Seq(Nat)
           /\ manifest' = manifest \/ manifest' = NewManifest
  <1>1. ManifestText \in Seq(Nat)
    BY DEF ManifestText, Letter
  <1> QED  BY <1>1 DEF PutManifest

\* What is saved is what the stages found; what is loaded starts anew.
LEMMA ManifestKeepsInv ==
    ASSUME VerifyInv, SaveManifest \/ LoadManifest
    PROVE  VerifyInv'
  <1>1. CASE SaveManifest
    <2>1. UNCHANGED <<digits, decimal, checks, quiet>>
      BY <1>1 DEF SaveManifest, call, report
    <2>2. pc = "publish" /\ pc' = "idle" /\ outcome' # "passed"
      BY <1>1 DEF SaveManifest, Fails
    <2>3. (Publishable /\ PutManifest({output})) \/ UNCHANGED <<output, manifest>>
      BY <1>1 DEF SaveManifest
    <2>4. /\ output' = None \/ output' \in Seq(Nat)
          /\ manifest' = manifest \/ (Publishable /\ manifest' = NewManifest)
      BY <2>3, PutManifestIs
    <2> QED  BY <2>1, <2>2, <2>4, IdleKeepsInv, PublishKeepsInv
  <1>2. CASE LoadManifest
    <2>1. CASE manifest = Damaged
      <3>1. /\ pc' = "idle" /\ outcome' # "passed" /\ quiet' = FALSE
            /\ checks' \in [Stages -> Statuses]
            /\ UNCHANGED <<output, manifest, digits, decimal>>
        BY <1>2, <2>1 DEF LoadManifest, Skipped, call
      <3> QED  BY <3>1, IdleKeepsInv
    <2>2. CASE manifest # Damaged
      BY <1>2, <2>2 DEF LoadManifest, Skipped, ManifestIsEvidence, RecheckIsSound
    <2> QED  BY <2>1, <2>2
  <1> QED  BY <1>1, <1>2

\* Whoever changes the output makes the run one that is not quiet.
LEMMA EnvironmentKeepsInv ==
    ASSUME VerifyInv, ChangeOutput \/ DamageManifest \/ Kill \/ PowerLoss
    PROVE  VerifyInv'
  <1>1. CASE ChangeOutput
    <2>1. output' = None \/ output' \in Seq(Nat)
      BY <1>1, VerificationAssumption DEF ChangeOutput
    <2> QED
      BY <1>1, <2>1 DEF ChangeOutput, call, report, ManifestIsEvidence, RecheckIsSound
  <1>2. CASE DamageManifest
    BY <1>2 DEF DamageManifest, call, report, ManifestIsEvidence, RecheckIsSound
  <1>3. CASE Kill
    <2>1. /\ pc' = "idle" /\ outcome' # "passed"
          /\ UNCHANGED <<output, manifest, digits, decimal, checks, quiet>>
      BY <1>3 DEF Kill, call, report
    <2> QED  BY <2>1, IdleKeepsInv
  <1>4. CASE PowerLoss
    <2>1. \A file \in Surviving : file \in Seq(Nat)
      <3>1. output \in Seq(Nat)
        BY <1>4 DEF PowerLoss
      <3>2. \A k \in 0 .. Len(output) : SubSeq(output, 1, k) \in Seq(Nat)
        BY <3>1
      <3> QED  BY <3>1, <3>2 DEF Surviving
    <2>2. /\ pc' = "idle" /\ outcome' # "passed" /\ quiet' = FALSE
          /\ UNCHANGED <<digits, decimal, checks>>
      BY <1>4 DEF PowerLoss, call, report
    <2>3. CASE output' \in Surviving /\ UNCHANGED manifest
      BY <2>1, <2>2, <2>3, IdleKeepsInv
    <2>4. CASE pc = "publish" /\ Publishable /\ PutManifest(Surviving)
      <3>1. /\ output' = None \/ output' \in Seq(Nat)
            /\ manifest' = manifest \/ manifest' = NewManifest
        BY <2>1, <2>4, PutManifestIs
      <3> QED  BY <2>2, <2>4, <3>1, IdleKeepsInv, PublishKeepsInv
    <2> QED  BY <1>4, <2>3, <2>4 DEF PowerLoss
  <1> QED  BY <1>1, <1>2, <1>3, <1>4

\* Other components' steps leave everything as it is.
LEMMA StutteringKeepsInv ==
    ASSUME VerifyInv, UNCHANGED verifyVars
    PROVE  VerifyInv'
  BY DEF verifyVars, call, report, ManifestIsEvidence, RecheckIsSound

HIDE DEF VerifyTypeOK, StructureFound, KnownFound, HashFound, SamplesFound,
         ReportFound, Past, Stages, Statuses, Fine, VerifyInv

\* The stages' findings hold along every behaviour of main(), of clients that
\* verify against a manifest, and of whoever interferes.
THEOREM VerifyInvariant == VerifySpec => []VerifyInv
  <1>1. VerifyInv /\ [VerifyNext]_verifyVars => VerifyInv'
    BY WritingKeepsInv, StagesKeepInv, ReportKeepsInv, ManifestKeepsInv,
       EnvironmentKeepsInv, StutteringKeepsInv DEF VerifyNext
  <1> QED  BY VerifyInitially, <1>1, PTL DEF VerifySpec

\* A loadable manifest of an undisturbed verification holds the hash of bytes
\* that passed all four stages of FinalVerifier::verifyFile().
THEOREM ManifestsAreEvidence == VerifySpec => []ManifestIsEvidence
  <1>1. VerifyInv => ManifestIsEvidence
    BY DEF VerifyInv
  <1> QED  BY VerifyInvariant, <1>1, PTL

\* FinalVerifier::verifyFile() with an expected digest accepts the very file
\* the manifest was made for, and no other.
THEOREM RechecksAreSound == VerifySpec => []RecheckIsSound
  <1>1. VerifyInv => RecheckIsSound
    BY DEF VerifyInv
  <1> QED  BY VerifyInvariant, <1>1, PTL

-----------------------------------------------------------------------------
(* The arithmetic of machine words.                                        *)

\* Every word is a natural number below WordSize.
LEMMA Words ==
    /\ WordSize \in Nat \ {0} /\ Largest \in Nat /\ WordSize = Largest + 1
    /\ \A x \in 0 .. Largest : Wrap(x) = x
    /\ \A x \in Nat : Wrap(x) \in 0 .. Largest
  <1>1. WordSize \in Nat \ {0} /\ Largest \in Nat /\ WordSize = Largest + 1
    BY PowerIsPositive DEF Largest
  <1>2. \A x \in 0 .. Largest : x % WordSize = x
    BY <1>1
  <1>3. \A x \in Nat : x % WordSize \in 0 .. Largest
    BY <1>1
  <1>4. QED
    BY <1>1, <1>2, <1>3 DEF Wrap

\* Quotient and remainder.
LEMMA Divided ==
    ASSUME NEW a \in Nat, NEW b \in Nat \ {0}
    PROVE  /\ a \div b \in Nat /\ a % b \in 0 .. b - 1
           /\ a = b * (a \div b) + (a % b)
  OBVIOUS

\* A quotient with a multiple of the divisor taken out.
LEMMA MultipleOut ==
    ASSUME NEW k \in Nat, NEW b \in Nat \ {0}, NEW c \in Nat
    PROVE  (b * k + c) \div b = k + (c \div b) /\ (b * k + c) % b = c % b
  <1>1. PICK q \in Nat, r \in 0 .. b - 1 : c = b * q + r /\ q = c \div b /\ r = c % b
    BY Divided
  <1>2. b * k + c = b * (k + q) + r
    BY <1>1
  <1>3. k + q \in Nat
    BY <1>1
  <1> DEFINE n == k + q
  <1>4. (b * n + r) \div b = n /\ (b * n + r) % b = r
    <2>1. n \in Nat
      BY <1>3
    <2> HIDE DEF n
    <2>2. QED
      BY <1>1, <2>1
  <1>5. QED
    BY <1>1, <1>2, <1>4

\* The same for the remainder alone.
LEMMA RemainderOut ==
    ASSUME NEW k \in Nat, NEW b \in Nat \ {0}, NEW c \in Nat
    PROVE  (b * k + c) % b = c % b
  BY MultipleOut

\* Dividing before multiplying, as FractionOf and SafePositionCount do, gives
\* the same as multiplying first.
LEMMA DivideFirst ==
    ASSUME NEW v \in Nat, NEW n \in Nat, NEW d \in Nat \ {0}
    PROVE  (v * n) \div d = (v \div d) * n + (((v % d) * n) \div d)
  <1>1. PICK q \in Nat, r \in 0 .. d - 1 : v = d * q + r /\ q = v \div d /\ r = v % d
    BY Divided
  <1>2. v * n = d * (q * n) + r * n
    BY <1>1
  <1>3. q * n \in Nat /\ r * n \in Nat
    BY <1>1
  <1>4. (d * (q * n) + r * n) \div d = q * n + ((r * n) \div d)
    BY <1>3, MultipleOut
  <1>5. QED
    BY <1>1, <1>2, <1>4

\* Part of a number is no larger than the number.
LEMMA PartIsSmaller ==
    ASSUME NEW v \in Nat, NEW n \in Nat, NEW d \in Nat \ {0}, n <= d
    PROVE  (v * n) \div d \in Nat /\ (v * n) \div d <= v
  <1>1. v * n \in Nat /\ v * n <= v * d
    BY SMTT(30)
  <1>2. PICK q \in Nat, r \in 0 .. d - 1 : v * n = d * q + r /\ q = (v * n) \div d
    BY <1>1, Divided
  <1>3. d * q <= d * v
    BY <1>1, <1>2
  <1>4. q <= v
    BY <1>2, <1>3
  <1>5. QED
    BY <1>2, <1>4

\* A sum of words that stays a word loses nothing.
LEMMA SplitProduct ==
    ASSUME NEW v \in 0 .. Largest, NEW n \in Nat, NEW d \in Nat \ {0}, n <= d,
           (d - 1) * n <= Largest
    PROVE  Wrap(Wrap((v \div d) * n) + (Wrap((v % d) * n) \div d)) = (v * n) \div d
  <1>1. v \in Nat /\ Largest \in Nat
    BY Words
  <1>2. PICK q \in Nat, r \in 0 .. d - 1 : v = d * q + r /\ q = v \div d /\ r = v % d
    BY <1>1, Divided
  <1>3. r * n \in Nat /\ r * n <= (d - 1) * n
    BY <1>2
  <1>4. r * n \in 0 .. Largest
    BY <1>1, <1>3
  <1>5. Wrap(r * n) = r * n
    BY <1>4, Words
  <1>6. (v * n) \div d = q * n + ((r * n) \div d) /\ (v * n) \div d \in 0 .. Largest
    <2>1. (v * n) \div d = (v \div d) * n + (((v % d) * n) \div d)
      BY <1>1, DivideFirst
    <2>2. (v * n) \div d \in Nat /\ (v * n) \div d <= v
      BY <1>1, PartIsSmaller
    <2>3. (v * n) \div d = q * n + ((r * n) \div d)
      BY <1>2, <2>1, Zenon
    <2> DEFINE x == (v * n) \div d
    <2>4. x \in Nat /\ x <= v
      BY <2>2
    <2> HIDE DEF x
    <2>5. x \in 0 .. Largest
      BY <1>1, <2>4
    <2>6. QED
      BY <2>3, <2>5 DEF x
  <1>7. (r * n) \div d \in Nat
    BY <1>3
  <1>8. q * n \in 0 .. Largest
    BY <1>1, <1>2, <1>6, <1>7
  <1>9. Wrap(q * n) = q * n /\ Wrap(q * n + ((r * n) \div d)) = q * n + ((r * n) \div d)
    BY <1>6, <1>8, Words
  <1>10. QED
    BY <1>2, <1>5, <1>6, <1>9

\* The sum whose quotient is the ceiling, with the multiples of d together.
LEMMA CeilingSum ==
    ASSUME NEW d \in Nat, NEW q \in Nat, NEW r \in Nat, NEW n \in Nat, NEW e \in Nat, NEW s \in Nat,
           r * n = d * e + s
    PROVE  (d * q + r) * n + d - 1 = d * (q * n + e) + (s + d - 1)
  <1>1. (d * q + r) * n = d * (q * n) + r * n
    OBVIOUS
  <1>2. d * (q * n + e) = d * (q * n) + d * e
    OBVIOUS
  <1> DEFINE x == d * (q * n)
             y == d * e
             z == (d * q + r) * n
  <1>3. x \in Nat /\ y \in Nat /\ z = x + (y + s)
    BY <1>1
  <1> HIDE DEF x, y, z
  <1>4. z + d - 1 = (x + y) + (s + d - 1)
    BY <1>3
  <1>5. QED
    BY <1>2, <1>4 DEF x, y, z

\* The smallest number that is not below value * n / d.
LEMMA CeilingParts ==
    ASSUME NEW v \in Nat, NEW n \in Nat \ {0}, NEW d \in Nat \ {0}
    PROVE  LET p == (v % d) * n
               fraction == p \div d + (IF p % d # 0 THEN 1 ELSE 0)
           IN  /\ CeilRatio(v, <<n, d>>) = (v \div d) * n + fraction
               /\ fraction \in Nat /\ (v \div d) * n \in Nat
  <1> DEFINE p == (v % d) * n
             fraction == p \div d + (IF p % d # 0 THEN 1 ELSE 0)
  <1>1. PICK q \in Nat, r \in 0 .. d - 1 : v = d * q + r /\ q = v \div d /\ r = v % d
    BY Divided
  <1>2. p \in Nat /\ q * n \in Nat /\ p = r * n
    BY <1>1
  <1>3. PICK e \in Nat, s \in 0 .. d - 1 : p = d * e + s /\ e = p \div d /\ s = p % d
    BY <1>2, Divided
  <1>4. v * n + d - 1 = d * (q * n + e) + (s + d - 1)
    <2>1. d \in Nat /\ q \in Nat /\ r \in Nat /\ n \in Nat /\ e \in Nat /\ s \in Nat /\ r * n = d * e + s
      BY <1>1, <1>2, <1>3
    <2>2. (d * q + r) * n + d - 1 = d * (q * n + e) + (s + d - 1)
      BY <2>1, CeilingSum
    <2>3. QED
      BY <1>1, <2>2
  <1>5. q * n + e \in Nat /\ s + d - 1 \in Nat
    BY <1>2, <1>3
  <1>6. (d * (q * n + e) + (s + d - 1)) \div d = (q * n + e) + ((s + d - 1) \div d)
    BY <1>5, MultipleOut
  <1>7. (s + d - 1) \div d = IF s # 0 THEN 1 ELSE 0
    <2>1. CASE s = 0
      BY <2>1
    <2>2. CASE s # 0
      <3>1. s + d - 1 = d * 1 + (s - 1) /\ s - 1 \in 0 .. d - 1 /\ s - 1 \in Nat
        BY <1>3, <2>2
      <3>2. (d * 1 + (s - 1)) \div d = 1 + ((s - 1) \div d)
        BY <3>1, MultipleOut, ZenonT(30)
      <3>3. (s - 1) \div d = 0
        BY <3>1
      <3>4. QED
        BY <2>2, <3>1, <3>2, <3>3
    <2>3. QED
      BY <2>1, <2>2
  <1>8. CeilRatio(v, <<n, d>>) = q * n + fraction
    <2>1. CeilRatio(v, <<n, d>>) = (v * n + d - 1) \div d
      BY DEF CeilRatio
    <2>2. CeilRatio(v, <<n, d>>) = (q * n + e) + (IF s # 0 THEN 1 ELSE 0)
      BY <1>4, <1>6, <1>7, <2>1, Zenon
    <2>3. fraction = e + (IF s # 0 THEN 1 ELSE 0)
      BY <1>3, Zenon
    <2> DEFINE x == q * n
    <2> HIDE DEF fraction, x
    <2>4. QED
      BY <1>2, <1>3, <2>2, <2>3 DEF x
  <1>9. fraction \in Nat
    BY <1>3
  <1>10. QED
    BY <1>1, <1>2, <1>8, <1>9

\* multiplyDivideCeil() is exact, or throws because the result is no word.
LEMMA CeilingIsExact ==
    ASSUME NEW v \in 0 .. Largest, NEW n \in Nat \ {0}, NEW d \in Nat \ {0}, (d - 1) * n <= Largest
    PROVE  LET c == CeilRatio(v, <<n, d>>)
           IN  c \in Nat /\ MultiplyDivideCeil(v, n, d) = IF c > Largest THEN Overflow ELSE c
  <1> DEFINE c == CeilRatio(v, <<n, d>>)
             q == v \div d
             p == (v % d) * n
             fraction == p \div d + (IF p % d # 0 THEN 1 ELSE 0)
  <1>1. v \in Nat /\ Largest \in Nat /\ v # Overflow
    BY Words DEF Overflow
  <1>2. q \in Nat /\ v % d \in 0 .. d - 1
    BY <1>1, Divided
  <1>3. p \in Nat /\ p <= (d - 1) * n
    BY <1>2
  <1>4. Wrap(p) = p
    <2>1. p \in 0 .. Largest
      BY <1>1, <1>3
    <2> HIDE DEF p
    <2>2. QED
      BY <2>1, Words
  <1>5. c = q * n + fraction /\ fraction \in Nat /\ q * n \in Nat
    BY <1>1, CeilingParts
  <1>6. MultiplyDivideCeil(v, n, d)
            = IF q > Largest \div n THEN Overflow ELSE CheckedAdd(q * n, fraction)
    BY <1>1, <1>4 DEF MultiplyDivideCeil
  <1> HIDE DEF c, fraction, p, q
  <1>7. q > Largest \div n <=> q * n > Largest
    <2>1. PICK k \in Nat, r \in 0 .. n - 1 : Largest = n * k + r /\ k = Largest \div n
      BY <1>1, Divided
    <2>2. CASE q <= k
      <3>1. n * q <= n * k
        BY <1>2, <2>1, <2>2
      <3>2. QED
        BY <1>1, <1>2, <1>5, <2>1, <2>2, <3>1
    <2>3. CASE q > k
      <3>1. q >= k + 1
        BY <1>2, <2>1, <2>3
      <3>2. n * q >= n * (k + 1)
        BY <1>2, <2>1, <3>1
      <3>3. n * (k + 1) = n * k + n
        BY <2>1
      <3>4. QED
        BY <1>1, <1>2, <1>5, <2>1, <2>3, <3>2, <3>3
    <2>4. QED
      BY <1>2, <2>1, <2>2, <2>3
  <1>8. CASE q * n > Largest
    BY <1>1, <1>5, <1>6, <1>7, <1>8 DEF c
  <1>9. CASE q * n <= Largest
    <2> DEFINE a == q * n
    <2>1. a \in Nat /\ a # Overflow /\ fraction # Overflow
      BY <1>5 DEF Overflow
    <2> HIDE DEF a
    <2>2. CheckedAdd(a, fraction) = IF a + fraction > Largest THEN Overflow ELSE a + fraction
      BY <1>1, <1>5, <2>1 DEF CheckedAdd
    <2>3. QED
      BY <1>1, <1>5, <1>6, <1>7, <1>9, <2>2 DEF a, c
  <1>10. QED
    BY <1>1, <1>5, <1>8, <1>9 DEF c

\* checkedAdd() of two results that may have been refused already.
LEMMA CheckedSum ==
    ASSUME NEW x \in Nat, NEW y \in Nat,
           NEW left, left = IF x > Largest THEN Overflow ELSE x, y <= Largest
    PROVE  CheckedAdd(left, y) = IF x + y > Largest THEN Overflow ELSE x + y
  <1>1. Largest \in Nat
    BY Words
  <1>2. QED
    BY <1>1 DEF CheckedAdd, Overflow

\* PrecisionPolicy::create() gives the plan of the unbounded integers, or
\* throws because a number of it does not fit a word.
LEMMA PlanIsExact ==
    ASSUME NEW requested \in 0 .. Largest, NEW guard \in 0 .. Largest
    PROVE  CreatePlan(requested, guard, PerTerm, PerDigit) = ExactPlan(requested, guard)
  <1> DEFINE working == requested + guard
             t == CeilRatio(working, PerTerm)
             b == CeilRatio(working + 2, PerDigit)
             Working == CheckedAdd(requested, guard)
             Plus == CheckedAdd(Working, 2)
             Terms == CheckedAdd(MultiplyDivideCeil(Working, PerTerm[1], PerTerm[2]), 1)
             Bits == CheckedAdd(MultiplyDivideCeil(Plus, PerDigit[1], PerDigit[2]), Headroom)
  <1>1. /\ Largest \in Nat /\ Headroom \in Nat /\ Headroom <= Largest /\ 2 <= Largest
        /\ requested \in Nat /\ guard \in Nat /\ working \in Nat
    BY Words, ArithmeticAssumption DEF Headroom
  <1>2. /\ PerTerm \in (Nat \ {0}) \X (Nat \ {0}) /\ (PerTerm[2] - 1) * PerTerm[1] <= Largest
        /\ PerDigit \in (Nat \ {0}) \X (Nat \ {0}) /\ (PerDigit[2] - 1) * PerDigit[1] <= Largest
    BY ArithmeticAssumption
  <1>3. \A v \in 0 .. Largest :
            /\ CeilRatio(v, PerTerm) \in Nat
            /\ MultiplyDivideCeil(v, PerTerm[1], PerTerm[2])
                = IF CeilRatio(v, PerTerm) > Largest THEN Overflow ELSE CeilRatio(v, PerTerm)
    <2>1. PerTerm = <<PerTerm[1], PerTerm[2]>> /\ PerTerm[1] \in Nat \ {0} /\ PerTerm[2] \in Nat \ {0}
      BY <1>2
    <2>2. QED
      BY <1>2, <2>1, CeilingIsExact
  <1>4. \A v \in 0 .. Largest :
            /\ CeilRatio(v, PerDigit) \in Nat
            /\ MultiplyDivideCeil(v, PerDigit[1], PerDigit[2])
                = IF CeilRatio(v, PerDigit) > Largest THEN Overflow ELSE CeilRatio(v, PerDigit)
    <2>1. PerDigit = <<PerDigit[1], PerDigit[2]>> /\ PerDigit[1] \in Nat \ {0} /\ PerDigit[2] \in Nat \ {0}
      BY <1>2
    <2>2. QED
      BY <1>2, <2>1, CeilingIsExact
  <1>5. \A m, n : MultiplyDivideCeil(Overflow, m, n) = Overflow
    BY DEF MultiplyDivideCeil
  <1>6. \A n : CheckedAdd(Overflow, n) = Overflow
    BY DEF CheckedAdd
  <1>7. Working = IF working > Largest THEN Overflow ELSE working
    BY <1>1, CheckedSum
  <1>8. CreatePlan(requested, guard, PerTerm, PerDigit)
            = IF requested = 0 \/ guard < MinimumGuardDigits \/ Overflow \in {Working, Terms, Bits}
              THEN Overflow ELSE [working |-> Working, terms |-> Terms, bits |-> Bits]
    BY DEF CreatePlan
  <1>9. ExactPlan(requested, guard)
            = IF requested = 0 \/ guard < MinimumGuardDigits
                 \/ \E x \in {working, working + 2, t + 1, b + Headroom} : x > Largest
              THEN Overflow ELSE [working |-> working, terms |-> t + 1, bits |-> b + Headroom]
    BY DEF ExactPlan
  <1>10. CASE working > Largest
    <2>1. Working = Overflow
      BY <1>7, <1>10
    <2>2. QED
      BY <1>8, <1>9, <1>10, <2>1
  <1>11. CASE working <= Largest
    <2>1. Working = working /\ working \in 0 .. Largest
      BY <1>1, <1>7, <1>11
    <2>2. t \in Nat /\ Terms = IF t + 1 > Largest THEN Overflow ELSE t + 1
      BY <1>1, <1>3, <2>1, CheckedSum
    <2>3. Plus = IF working + 2 > Largest THEN Overflow ELSE working + 2
      BY <1>1, <2>1, CheckedSum
    <2>4. CASE working + 2 > Largest
      <3>1. Bits = Overflow
        BY <1>5, <1>6, <2>3, <2>4
      <3>2. QED
        BY <1>8, <1>9, <2>4, <3>1
    <2>5. CASE working + 2 <= Largest
      <3>1. Plus = working + 2 /\ working + 2 \in 0 .. Largest
        BY <1>1, <2>3, <2>5
      <3>2. b \in Nat /\ Bits = IF b + Headroom > Largest THEN Overflow ELSE b + Headroom
        BY <1>1, <1>4, <3>1, CheckedSum
      <3> HIDE DEF t, b, Terms, Bits, Working, working, Plus
      <3>3. working # Overflow /\ t + 1 # Overflow /\ b + Headroom # Overflow
        BY <1>1, <2>2, <3>2 DEF Overflow
      <3>4. Overflow \in {Working, Terms, Bits}
                <=> \E x \in {working, working + 2, t + 1, b + Headroom} : x > Largest
        BY <1>1, <1>11, <2>1, <2>2, <2>5, <3>2, <3>3
      <3>5. CASE \E x \in {working, working + 2, t + 1, b + Headroom} : x > Largest
        BY <1>8, <1>9, <3>4, <3>5
      <3>6. CASE ~\E x \in {working, working + 2, t + 1, b + Headroom} : x > Largest
        <4>1. Terms = t + 1 /\ Bits = b + Headroom
          BY <2>2, <3>2, <3>6
        <4>2. QED
          BY <1>8, <1>9, <2>1, <3>4, <3>6, <4>1
      <3>7. QED
        BY <3>5, <3>6
    <2>6. QED
      BY <1>1, <2>4, <2>5
  <1>12. QED
    BY <1>1, <1>10, <1>11

-----------------------------------------------------------------------------
(* Recursive functions.                                                    *)

\* Every nonempty set of natural numbers has a smallest element.
LEMMA Smallest ==
    ASSUME NEW S \in SUBSET Nat, S # {}
    PROVE  \E m \in S : \A n \in S : m <= n
  <1> DEFINE R == OpToRel(<, Nat)
  <1>1. IsWellFoundedOn(R, Nat)
    BY NatLessThanWellFounded
  <1>2. R = {ss \in Nat \X Nat : ss[1] < ss[2]}
    BY DEF OpToRel
  <1> HIDE DEF R
  <1>3. PICK m \in S : \A n \in S : ~(<<n, m>> \in R)
    BY <1>1, WFMin, Zenon
  <1>4. \A n \in S : ~(n < m)
    BY <1>2, <1>3
  <1>5. QED
    BY <1>4

\* f is what a loop computes that starts at x, goes on with next[x], and ends
\* with out[x] when the measure is 0.
IsLoop(f, D, R, measure, next, out) ==
    f \in [D -> R] /\ \A x \in D : /\ measure[x] = 0 => f[x] = out[x]
                                   /\ measure[x] # 0 => f[x] = f[next[x]]

\* Loops end: a function that is defined by going on from next[x] until a
\* measure is 0 exists.
LEMMA LoopExists ==
    ASSUME NEW D, NEW R, NEW measure, NEW next, NEW out,
           measure \in [D -> Nat], next \in [D -> D], out \in [D -> R],
           \A x \in D : measure[x] # 0 => measure[next[x]] < measure[x]
    PROVE  \E f : IsLoop(f, D, R, measure, next, out)
  <1> DEFINE Ok(g, n) == \A x \in D : measure[x] <= n =>
                            /\ measure[x] = 0 => g[x] = out[x]
                            /\ measure[x] # 0 => g[x] = g[next[x]]
  <1>1. \A n \in Nat : \E g \in [D -> R] : Ok(g, n)
    <2> DEFINE bad == {n \in Nat : ~\E g \in [D -> R] : Ok(g, n)}
    <2>1. CASE bad = {}
      BY <2>1
    <2>2. CASE bad # {}
      <3>1. PICK m \in bad : \A n \in bad : m <= n
        BY <2>2, Smallest
      <3>2. CASE m = 0
        <4>1. Ok(out, 0)
          OBVIOUS
        <4>2. QED
          BY <3>1, <3>2, <4>1
      <3>3. CASE m # 0
        <4>1. m - 1 \in Nat /\ m - 1 \notin bad
          BY <3>1, <3>3
        <4>2. PICK g \in [D -> R] : Ok(g, m - 1)
          BY <4>1
        <4> DEFINE h == [x \in D |-> IF measure[x] = m THEN g[next[x]] ELSE g[x]]
        <4>3. \A x \in D : measure[x] \in Nat /\ next[x] \in D
          OBVIOUS
        <4>4. Ok(h, m)
          <5> SUFFICES ASSUME NEW x \in D, measure[x] <= m
                       PROVE  /\ measure[x] = 0 => h[x] = out[x]
                              /\ measure[x] # 0 => h[x] = h[next[x]]
            OBVIOUS
          <5>1. CASE measure[x] = m
            <6>1. measure[x] # 0 /\ measure[next[x]] # m
              BY <3>3, <4>3, <5>1
            <6>2. QED
              BY <4>3, <5>1, <6>1
          <5>2. CASE measure[x] # m
            <6>1. measure[x] <= m - 1
              BY <3>1, <4>3, <5>2
            <6>2. measure[x] # 0 => measure[next[x]] # m
              BY <3>1, <4>3, <6>1
            <6>3. QED
              BY <4>2, <4>3, <5>2, <6>1, <6>2
          <5>3. QED
            BY <5>1, <5>2
        <4>5. h \in [D -> R]
          BY <4>3
        <4>6. QED
          BY <3>1, <4>4, <4>5
      <3>4. QED
        BY <3>2, <3>3
    <2>3. QED
      BY <2>1, <2>2
  <1>2. ASSUME NEW g, NEW h, NEW n \in Nat, NEW k \in Nat, Ok(g, n), Ok(h, k)
        PROVE  \A x \in D : measure[x] <= n /\ measure[x] <= k => g[x] = h[x]
    <2> DEFINE differ == {x \in D : measure[x] <= n /\ measure[x] <= k /\ g[x] # h[x]}
               sizes == {measure[x] : x \in differ}
    <2>1. CASE differ = {}
      BY <2>1
    <2>2. CASE differ # {}
      <3>1. sizes \in SUBSET Nat /\ sizes # {}
        BY <2>2
      <3>2. PICK s \in sizes : \A t \in sizes : s <= t
        BY <3>1, Smallest
      <3>3. PICK x \in differ : measure[x] = s
        BY <3>2
      <3>4. x \in D /\ next[x] \in D /\ measure[x] \in Nat /\ measure[next[x]] \in Nat
        BY <3>3
      <3>5. measure[x] # 0
        BY <1>2, <3>3
      <3>6. next[x] \in differ
        BY <1>2, <3>3, <3>4, <3>5
      <3>7. measure[next[x]] \in sizes
        BY <3>6
      <3>8. QED
        BY <3>2, <3>3, <3>4, <3>5, <3>7
    <2>3. QED
      BY <2>1, <2>2
  <1> DEFINE G == [n \in Nat |-> CHOOSE g \in [D -> R] : Ok(g, n)]
             f == [x \in D |-> G[measure[x]][x]]
  <1>3. \A n \in Nat : G[n] \in [D -> R] /\ Ok(G[n], n)
    BY <1>1
  <1> HIDE DEF G
  <1>4. ASSUME NEW x \in D
        PROVE  f[x] \in R /\ (measure[x] = 0 => f[x] = out[x]) /\ (measure[x] # 0 => f[x] = f[next[x]])
    <2>1. measure[x] \in Nat /\ next[x] \in D /\ measure[next[x]] \in Nat
      OBVIOUS
    <2>2. /\ f[x] \in R /\ (measure[x] = 0 => f[x] = out[x])
          /\ measure[x] # 0 => f[x] = G[measure[x]][next[x]]
      BY <1>3, <2>1
    <2>3. ASSUME measure[x] # 0 PROVE G[measure[x]][next[x]] = G[measure[next[x]]][next[x]]
      <3>1. measure[next[x]] <= measure[x] /\ measure[next[x]] <= measure[next[x]]
        BY <2>1, <2>3
      <3>2. Ok(G[measure[x]], measure[x]) /\ Ok(G[measure[next[x]]], measure[next[x]])
        BY <1>3, <2>1
      <3> HIDE DEF Ok
      <3>3. QED
        BY <1>2, <2>1, <3>1, <3>2
    <2>4. QED
      BY <2>1, <2>2, <2>3
  <1>5. f \in [D -> R]
    BY <1>4
  <1>6. IsLoop(f, D, R, measure, next, out)
    BY <1>4, <1>5 DEF IsLoop
  <1> HIDE DEF f
  <1>7. QED
    BY <1>6

-----------------------------------------------------------------------------
(* Modular powers.                                                         *)

Triples == Nat \X Nat \X Nat

\* What the loop of multiplyModulo() goes on with, and what it ends with.
SumNext(m) ==
    [s \in Triples |-> <<s[1] \div 2,
                         IF s[1] \div 2 = 0 THEN s[2] ELSE AddModulo(s[2], s[2], m),
                         IF s[1] % 2 = 1 THEN AddModulo(s[3], s[2], m) ELSE s[3]>>]

SumLoop(m) ==
    CHOOSE sum : sum = [s \in Nat \X Nat \X Nat |->
                           IF s[1] = 0 THEN s[3]
                           ELSE sum[<<s[1] \div 2,
                                      IF s[1] \div 2 = 0 THEN s[2] ELSE AddModulo(s[2], s[2], m),
                                      IF s[1] % 2 = 1 THEN AddModulo(s[3], s[2], m) ELSE s[3]>>]]

\* The same for power16Modulo().
PowerNext(m) ==
    [s \in Triples |-> <<s[1] \div 2,
                         IF s[1] \div 2 = 0 THEN s[2] ELSE MultiplyModulo(s[2], s[2], m),
                         IF s[1] % 2 = 1 THEN MultiplyModulo(s[3], s[2], m) ELSE s[3]>>]

PowerLoop(m) ==
    CHOOSE power : power = [s \in Nat \X Nat \X Nat |->
                               IF s[1] = 0 THEN s[3]
                               ELSE power[<<s[1] \div 2,
                                            IF s[1] \div 2 = 0 THEN s[2] ELSE MultiplyModulo(s[2], s[2], m),
                                            IF s[1] % 2 = 1 THEN MultiplyModulo(s[3], s[2], m) ELSE s[3]>>]]

\* A loop that halves its first component ends.
LEMMA HalvingEnds ==
    ASSUME NEW next \in [Triples -> Triples], \A s \in Triples : next[s][1] = s[1] \div 2
    PROVE  \E f \in [Triples -> Nat] :
              \A s \in Triples : (s[1] = 0 => f[s] = s[3]) /\ (s[1] # 0 => f[s] = f[next[s]])
  <1>1. \A s \in Triples : s[1] \in Nat /\ next[s] \in Triples
    BY DEF Triples
  <1>2. PICK size : size = [s \in Triples |-> s[1]]
    OBVIOUS
  <1>3. PICK result : result = [s \in Triples |-> s[3]]
    OBVIOUS
  <1>4. size \in [Triples -> Nat]
    BY <1>1, <1>2
  <1>5. \A s \in Triples : size[s] # 0 => size[next[s]] < size[s]
    <2> SUFFICES ASSUME NEW s \in Triples, s[1] # 0 PROVE next[s][1] < s[1]
      BY <1>1, <1>2
    <2> DEFINE k == s[1]
    <2>1. k \in Nat /\ k # 0
      BY <1>1
    <2>2. k \div 2 < k
      BY <2>1
    <2>3. QED
      BY <2>2
  <1>6. result \in [Triples -> Nat]
    BY <1>3 DEF Triples
  <1>7. PICK f : IsLoop(f, Triples, Nat, size, next, result)
    BY <1>4, <1>5, <1>6, LoopExists
  <1>8. \A s \in Triples : size[s] = s[1] /\ result[s] = s[3]
    BY <1>2, <1>3
  <1>9. /\ f \in [Triples -> Nat]
        /\ \A s \in Triples : (size[s] = 0 => f[s] = result[s]) /\ (size[s] # 0 => f[s] = f[next[s]])
    BY <1>7 DEF IsLoop
  <1>10. \A s \in Triples : (s[1] = 0 => f[s] = s[3]) /\ (s[1] # 0 => f[s] = f[next[s]])
    BY <1>8, <1>9
  <1>11. QED
    BY <1>9, <1>10

\* addModulo() is the sum of residues, and never leaves the words.
LEMMA SumModulo ==
    ASSUME NEW m \in 1 .. Largest, NEW x \in Nat, NEW y \in Nat
    PROVE  /\ AddModulo(x, y, m) \in Nat
           /\ x < m /\ y < m => AddModulo(x, y, m) = (x + y) % m
  <1>1. Largest \in Nat /\ m \in Nat \ {0}
    BY Words
  <1>2. AddModulo(x, y, m) \in Nat
    <2>1. CASE x >= m - y
      BY <1>1, <2>1 DEF AddModulo
    <2>2. CASE ~(x >= m - y)
      <3>1. Wrap(x + y) \in Nat
        BY Words
      <3>2. QED
        BY <2>2, <3>1 DEF AddModulo
    <2>3. QED
      BY <2>1, <2>2
  <1>3. ASSUME x < m, y < m PROVE AddModulo(x, y, m) = (x + y) % m
    <2>1. CASE x >= m - y
      <3>1. x + y - m \in 0 .. m - 1 /\ x + y = m * 1 + (x + y - m)
        BY <1>1, <1>3, <2>1
      <3>2. (x + y) % m = x + y - m
        BY <1>1, <3>1
      <3>3. QED
        BY <1>1, <2>1, <3>2 DEF AddModulo
    <2>2. CASE ~(x >= m - y)
      <3>1. x + y \in 0 .. Largest /\ (x + y) % m = x + y
        BY <1>1, <1>3, <2>2
      <3>2. Wrap(x + y) = x + y
        BY <3>1, Words
      <3>3. QED
        BY <2>2, <3>1, <3>2 DEF AddModulo
    <2>3. QED
      BY <2>1, <2>2
  <1>4. QED
    BY <1>2, <1>3

\* The equation of the loop of multiplyModulo().
LEMMA SumLoopStep ==
    ASSUME NEW m \in 1 .. Largest, NEW r \in Nat, NEW b \in Nat, NEW c \in Nat
    PROVE  SumLoop(m)[<<r, b, c>>] =
              IF r = 0 THEN c
              ELSE SumLoop(m)[<<r \div 2,
                                IF r \div 2 = 0 THEN b ELSE AddModulo(b, b, m),
                                IF r % 2 = 1 THEN AddModulo(c, b, m) ELSE c>>]
  <1> DEFINE next == SumNext(m)
             F(f) == [s \in Nat \X Nat \X Nat |->
                        IF s[1] = 0 THEN s[3]
                        ELSE f[<<s[1] \div 2,
                                 IF s[1] \div 2 = 0 THEN s[2] ELSE AddModulo(s[2], s[2], m),
                                 IF s[1] % 2 = 1 THEN AddModulo(s[3], s[2], m) ELSE s[3]>>]]
  <1>1. ASSUME NEW s \in Triples
        PROVE  /\ s[1] \in Nat /\ s[2] \in Nat /\ s[3] \in Nat
               /\ s[1] \div 2 \in Nat /\ AddModulo(s[2], s[2], m) \in Nat
               /\ AddModulo(s[3], s[2], m) \in Nat
    <2>1. s[1] \in Nat /\ s[2] \in Nat /\ s[3] \in Nat
      BY DEF Triples
    <2>2. AddModulo(s[2], s[2], m) \in Nat /\ AddModulo(s[3], s[2], m) \in Nat
      BY <2>1, SumModulo, Zenon
    <2>3. s[1] \div 2 \in Nat
      BY <2>1
    <2>4. QED
      BY <2>1, <2>2, <2>3
  <1>2. next \in [Triples -> Triples] /\ \A s \in Triples : next[s][1] = s[1] \div 2
    BY <1>1 DEF SumNext, Triples
  <1> HIDE DEF next
  <1>3. PICK f \in [Triples -> Nat] :
          \A s \in Triples : (s[1] = 0 => f[s] = s[3]) /\ (s[1] # 0 => f[s] = f[next[s]])
    BY <1>2, HalvingEnds
  <1>4. f = F(f)
    BY <1>3 DEF Triples, next, SumNext
  <1>5. SumLoop(m) = F(SumLoop(m))
    BY <1>4 DEF SumLoop
  <1> DEFINE g == SumLoop(m)
  <1>6. g = F(g)
    BY <1>5
  <1> HIDE DEF g
  <1>7. <<r, b, c>> \in Nat \X Nat \X Nat
    OBVIOUS
  <1>8. QED
    BY <1>6, <1>7 DEF g

Residue(x, m) == x % m

\* Residues may be taken before adding and multiplying.
LEMMA ResidueOfSum ==
    ASSUME NEW m \in Nat \ {0}, NEW x \in Nat, NEW y \in Nat, NEW q \in Nat
    PROVE  Residue(Residue(x, m) + q * Residue(y, m), m) = Residue(x + q * y, m)
  <1> SUFFICES ((x % m) + q * (y % m)) % m = (x + q * y) % m
    BY DEF Residue
  <1>1. PICK i \in Nat, a \in 0 .. m - 1 : x = m * i + a /\ a = x % m
    BY Divided
  <1>2. PICK j \in Nat, b \in 0 .. m - 1 : y = m * j + b /\ b = y % m
    BY Divided
  <1>3. x + q * y = m * (i + q * j) + (a + q * b)
    <2>1. q * (m * j + b) = m * (q * j) + q * b
      BY <1>2
    <2>2. m * (i + q * j) = m * i + m * (q * j)
      BY <1>1, <1>2
    <2> DEFINE u == m * (q * j)
               w == q * b
               z == m * i
    <2>3. u \in Nat /\ w \in Nat /\ z \in Nat
      BY <1>1, <1>2
    <2>4. q * y = u + w /\ m * (i + q * j) = z + u /\ x = z + a
      BY <1>1, <1>2, <2>1, <2>2
    <2> HIDE DEF u, w, z
    <2>5. QED
      BY <1>1, <2>3, <2>4 DEF w
  <1>4. i + q * j \in Nat /\ a + q * b \in Nat
    BY <1>1, <1>2
  <1>5. (m * (i + q * j) + (a + q * b)) % m = (a + q * b) % m
    <2> DEFINE k == i + q * j
               d == a + q * b
    <2>1. k \in Nat /\ d \in Nat
      BY <1>4
    <2> HIDE DEF k, d
    <2>2. (m * k + d) % m = d % m
      BY <2>1, RemainderOut, ZenonT(30)
    <2>3. QED
      BY <2>2 DEF k, d
  <1>6. QED
    BY <1>1, <1>2, <1>3, <1>5, Zenon

\* A factor may be reduced before the product is.
LEMMA ResidueOfProduct ==
    ASSUME NEW m \in Nat \ {0}, NEW x \in Nat, NEW y \in Nat
    PROVE  /\ ((x % m) * y) % m = (x * y) % m
           /\ (x * (y % m)) % m = (x * y) % m
           /\ ((x % m) * (y % m)) % m = (x * y) % m
  <1>1. \A c, d \in Nat : (c * (d % m)) % m = (c * d) % m
    <2> SUFFICES ASSUME NEW c \in Nat, NEW d \in Nat PROVE (c * (d % m)) % m = (c * d) % m
      OBVIOUS
    <2>1. ((0 % m) + c * (d % m)) % m = (0 + c * d) % m
      <3> DEFINE z == 0
      <3>1. z \in Nat
        OBVIOUS
      <3> HIDE DEF z
      <3>2. Residue(Residue(z, m) + c * Residue(d, m), m) = Residue(z + c * d, m)
        BY <3>1, ResidueOfSum
      <3>3. QED
        BY <3>2 DEF z, Residue
    <2>2. 0 % m = 0 /\ c * (d % m) \in Nat /\ c * d \in Nat
      OBVIOUS
    <2> DEFINE u == c * (d % m)
               w == c * d
    <2>3. (0 + u) % m = (0 + w) % m
      BY <2>1, <2>2
    <2>4. u \in Nat /\ w \in Nat
      BY <2>2
    <2> HIDE DEF u, w
    <2>5. u % m = w % m
      BY <2>3, <2>4
    <2>6. QED
      BY <2>5 DEF u, w
  <1>2. x % m \in Nat /\ y % m \in Nat
    OBVIOUS
  <1>3. (x * (y % m)) % m = (x * y) % m
    BY <1>1
  <1>4. \A c, d \in Nat : c * d = d * c
    OBVIOUS
  <1>5. ((x % m) * y) % m = (x * y) % m
    <2>1. (x % m) * y = y * (x % m) /\ x * y = y * x
      BY <1>2, <1>4
    <2>2. (y * (x % m)) % m = (y * x) % m
      BY <1>1
    <2>3. QED
      BY <2>1, <2>2, Zenon
  <1>6. ((x % m) * (y % m)) % m = ((x % m) * y) % m
    BY <1>1, <1>2
  <1>7. QED
    BY <1>3, <1>5, <1>6

\* The loop of multiplyModulo() adds r times b.
LEMMA SumLoopValue ==
    ASSUME NEW m \in 1 .. Largest
    PROVE  \A r \in Nat : \A b, c \in 0 .. m - 1 : SumLoop(m)[<<r, b, c>>] = (c + r * b) % m
  <1> DEFINE Right(r) == \A b, c \in 0 .. m - 1 : SumLoop(m)[<<r, b, c>>] = (c + r * b) % m
             bad == {r \in Nat : ~Right(r)}
  <1>0. m \in Nat \ {0} /\ Largest \in Nat
    BY Words
  <1>1. CASE bad = {}
    BY <1>1
  <1>2. CASE bad # {}
    <2>1. PICK r \in bad : \A n \in bad : r <= n
      BY <1>2, Smallest
    <2>2. PICK b \in 0 .. m - 1, c \in 0 .. m - 1 : SumLoop(m)[<<r, b, c>>] # (c + r * b) % m
      BY <2>1
    <2>3. r \in Nat /\ b \in Nat /\ c \in Nat
      BY <1>0, <2>1, <2>2
    <2> DEFINE q == r \div 2
               e == r % 2
               b2 == IF q = 0 THEN b ELSE AddModulo(b, b, m)
               c2 == IF e = 1 THEN AddModulo(c, b, m) ELSE c
    <2>4. SumLoop(m)[<<r, b, c>>] = IF r = 0 THEN c ELSE SumLoop(m)[<<q, b2, c2>>]
      BY <2>3, SumLoopStep
    <2>5. q \in Nat /\ e \in {0, 1} /\ r = 2 * q + e
      BY <2>3
    <2> HIDE DEF q, e
    <2>6. r # 0
      <3>1. ASSUME r = 0 PROVE FALSE
        <4>1. (c + r * b) % m = c
          BY <1>0, <2>2, <2>3, <3>1
        <4>2. QED
          BY <2>2, <2>4, <3>1, <4>1
      <3>2. QED
        BY <3>1
    <2>7. q < r
      BY <2>5, <2>6
    <2>8. Right(q)
      BY <2>1, <2>5, <2>7
    <2>9. c2 = (c + e * b) % m /\ c2 \in 0 .. m - 1
      <3>1. CASE e = 1
        <4>1. AddModulo(c, b, m) = (c + b) % m
          BY <2>2, <2>3, SumModulo
        <4>2. e * b = b
          BY <2>3, <3>1
        <4>3. QED
          BY <1>0, <2>3, <3>1, <4>1, <4>2
      <3>2. CASE e = 0
        <4>1. c2 = c /\ e * b = 0
          BY <2>3, <3>2
        <4>2. c % m = c
          BY <1>0
        <4>3. QED
          BY <2>2, <2>3, <4>1, <4>2
      <3>3. QED
        BY <2>5, <3>1, <3>2
    <2>10. CASE q = 0
      <3>1. r = 1 /\ e = 1
        BY <2>5, <2>6, <2>10
      <3>2. SumLoop(m)[<<q, b2, c2>>] = c2
        <4>1. b2 \in Nat /\ c2 \in Nat
          BY <1>0, <2>3, <2>9, <2>10
        <4> HIDE DEF b2, c2
        <4>2. QED
          BY <2>5, <2>10, <4>1, SumLoopStep
      <3>3. c2 = (c + r * b) % m
        BY <2>9, <3>1
      <3>4. QED
        BY <2>2, <2>4, <2>6, <3>2, <3>3
    <2>11. CASE q # 0
      <3>1. b2 = (b + b) % m
        BY <2>2, <2>3, <2>11, SumModulo
      <3>2. b + b \in Nat /\ b + b = 2 * b
        BY <2>3
      <3>3. b2 = (2 * b) % m /\ b2 \in 0 .. m - 1
        BY <1>0, <3>1, <3>2
      <3>4. SumLoop(m)[<<q, b2, c2>>] = (c2 + q * b2) % m
        <4> HIDE DEF b2, c2
        <4>1. QED
          BY <2>8, <2>9, <3>3
      <3> DEFINE u == c + e * b
                 w == 2 * b
      <3>5. u \in Nat /\ w \in Nat
        BY <2>3, <2>5
      <3>6. ((u % m) + q * (w % m)) % m = (u + q * w) % m
        <4> HIDE DEF u, w
        <4>1. Residue(Residue(u, m) + q * Residue(w, m), m) = Residue(u + q * w, m)
          BY <1>0, <2>5, <3>5, ResidueOfSum
        <4>2. QED
          BY <4>1 DEF Residue
      <3>7. u + q * w = c + r * b
        <4>1. q * (2 * b) = (2 * q) * b
          BY <2>3, <2>5
        <4>2. (2 * q + e) * b = (2 * q) * b + e * b
          BY <2>3, <2>5
        <4> DEFINE x == (2 * q) * b
                   y == e * b
        <4>3. x \in Nat /\ y \in Nat
          BY <2>3, <2>5
        <4>4. r * b = x + y /\ q * w = x /\ u = c + y
          BY <2>5, <4>1, <4>2
        <4> HIDE DEF x, y, u, w
        <4>5. QED
          BY <2>3, <4>3, <4>4
      <3>8. SumLoop(m)[<<q, b2, c2>>] = ((u % m) + q * (w % m)) % m
        BY <2>9, <3>3, <3>4, Zenon
      <3>9. SumLoop(m)[<<q, b2, c2>>] = (c + r * b) % m
        BY <3>6, <3>7, <3>8, Zenon
      <3>10. QED
        BY <2>2, <2>4, <2>6, <3>9, Zenon
    <2>12. QED
      BY <2>10, <2>11
  <1>3. QED
    BY <1>1, <1>2

\* multiplyModulo() is the product of residues, whether the product fits a
\* word or is summed bit by bit.
LEMMA ProductModulo ==
    ASSUME NEW m \in 1 .. Largest, NEW x \in Nat, NEW y \in Nat
    PROVE  MultiplyModulo(x, y, m) = (x * y) % m /\ (x * y) % m \in 0 .. m - 1
  <1>0. m \in Nat \ {0} /\ Largest \in Nat /\ x * y \in Nat
    BY Words
  <1>1. MultiplyModulo(x, y, m) = IF x = 0 \/ y <= Largest \div x
                                  THEN Wrap(x * y) % m ELSE SumLoop(m)[<<y, x % m, 0>>]
    BY DEF MultiplyModulo, SumLoop
  <1>2. CASE x = 0 \/ y <= Largest \div x
    <2>1. x * y <= Largest
      <3>1. CASE x = 0
        BY <1>0, <3>1
      <3>2. CASE x # 0
        <4>1. PICK k \in Nat, r \in 0 .. x - 1 : Largest = x * k + r /\ k = Largest \div x
          BY <1>0, <3>2, Divided
        <4>2. y <= k
          BY <1>2, <3>2, <4>1
        <4>3. x * y <= x * k
          BY <4>1, <4>2
        <4>4. QED
          BY <1>0, <4>1, <4>3
      <3>3. QED
        BY <3>1, <3>2
    <2> DEFINE p == x * y
    <2>2. p \in 0 .. Largest
      BY <1>0, <2>1
    <2> HIDE DEF p
    <2>3. Wrap(p) = p
      BY <2>2, Words
    <2>4. QED
      BY <1>0, <1>1, <1>2, <2>3 DEF p
  <1>3. CASE ~(x = 0 \/ y <= Largest \div x)
    <2> DEFINE b == x % m
    <2>1. b \in 0 .. m - 1 /\ 0 \in 0 .. m - 1 /\ b \in Nat
      BY <1>0
    <2>2. SumLoop(m)[<<y, b, 0>>] = (0 + y * b) % m
      <3> HIDE DEF b
      <3>1. QED
        BY <2>1, SumLoopValue
    <2>3. y * b \in Nat
      <3> HIDE DEF b
      <3>1. QED
        BY <2>1
    <2>4. 0 + y * b = y * b
      BY <2>3
    <2>5. (y * (x % m)) % m = (y * x) % m
      BY <1>0, ResidueOfProduct
    <2>6. y * x = x * y
      OBVIOUS
    <2>7. MultiplyModulo(x, y, m) = (x * y) % m
      BY <1>1, <1>3, <2>2, <2>4, <2>5, <2>6, Zenon
    <2>8. QED
      BY <1>0, <2>7
  <1>4. QED
    BY <1>2, <1>3

\* The equation of the loop of power16Modulo().
LEMMA PowerLoopStep ==
    ASSUME NEW m \in 1 .. Largest, NEW r \in Nat, NEW b \in Nat, NEW c \in Nat
    PROVE  PowerLoop(m)[<<r, b, c>>] =
              IF r = 0 THEN c
              ELSE PowerLoop(m)[<<r \div 2,
                                  IF r \div 2 = 0 THEN b ELSE MultiplyModulo(b, b, m),
                                  IF r % 2 = 1 THEN MultiplyModulo(c, b, m) ELSE c>>]
  <1> DEFINE next == PowerNext(m)
             F(f) == [s \in Nat \X Nat \X Nat |->
                        IF s[1] = 0 THEN s[3]
                        ELSE f[<<s[1] \div 2,
                                 IF s[1] \div 2 = 0 THEN s[2] ELSE MultiplyModulo(s[2], s[2], m),
                                 IF s[1] % 2 = 1 THEN MultiplyModulo(s[3], s[2], m) ELSE s[3]>>]]
  <1>0. \A x, y \in Nat : MultiplyModulo(x, y, m) \in Nat
    BY ProductModulo
  <1>1. ASSUME NEW s \in Triples
        PROVE  /\ s[1] \in Nat /\ s[2] \in Nat /\ s[3] \in Nat
               /\ s[1] \div 2 \in Nat /\ MultiplyModulo(s[2], s[2], m) \in Nat
               /\ MultiplyModulo(s[3], s[2], m) \in Nat
    <2>1. s[1] \in Nat /\ s[2] \in Nat /\ s[3] \in Nat
      BY DEF Triples
    <2>2. MultiplyModulo(s[2], s[2], m) \in Nat /\ MultiplyModulo(s[3], s[2], m) \in Nat
      BY <1>0, <2>1, Zenon
    <2>3. s[1] \div 2 \in Nat
      BY <2>1
    <2>4. QED
      BY <2>1, <2>2, <2>3
  <1>2. next \in [Triples -> Triples] /\ \A s \in Triples : next[s][1] = s[1] \div 2
    BY <1>1 DEF PowerNext, Triples
  <1> HIDE DEF next
  <1>3. PICK f \in [Triples -> Nat] :
          \A s \in Triples : (s[1] = 0 => f[s] = s[3]) /\ (s[1] # 0 => f[s] = f[next[s]])
    BY <1>2, HalvingEnds
  <1>4. f = F(f)
    BY <1>3 DEF Triples, next, PowerNext
  <1>5. PowerLoop(m) = F(PowerLoop(m))
    BY <1>4 DEF PowerLoop
  <1> DEFINE g == PowerLoop(m)
  <1>6. g = F(g)
    BY <1>5
  <1> HIDE DEF g
  <1>7. <<r, b, c>> \in Nat \X Nat \X Nat
    OBVIOUS
  <1>8. QED
    BY <1>6, <1>7 DEF g

\* p has the powers of 16 up to n.
ArePowers(p, n) == p \in [0 .. n -> Nat] /\ p[0] = 1 /\ \A i \in 1 .. n : p[i] = 16 * p[i - 1]

\* Exponents add up.
LEMMA PowersMultiply ==
    ASSUME NEW n \in Nat, NEW p, ArePowers(p, n), NEW i \in 0 .. n
    PROVE  \A j \in 0 .. n - i : p[i + j] = p[i] * p[j]
  <1> DEFINE bad == {j \in 0 .. n - i : p[i + j] # p[i] * p[j]}
  <1>0. p \in [0 .. n -> Nat] /\ p[0] = 1 /\ \A k \in 1 .. n : p[k] = 16 * p[k - 1]
    BY DEF ArePowers
  <1>1. CASE bad = {}
    BY <1>1
  <1>2. CASE bad # {}
    <2>1. PICK j \in bad : \A k \in bad : j <= k
      <3>1. bad \in SUBSET Nat
        OBVIOUS
      <3> HIDE DEF bad
      <3>2. QED
        BY <1>2, <3>1, Smallest
    <2>2. j \in 0 .. n - i /\ p[i + j] # p[i] * p[j]
      BY <2>1
    <2>3. p[i] \in Nat
      BY <1>0
    <2>4. j # 0
      <3>1. p[i] * 1 = p[i] /\ i + 0 = i
        BY <2>3
      <3>2. QED
        BY <1>0, <2>2, <3>1
    <2>5. j - 1 \in 0 .. n - i /\ j - 1 \notin bad
      BY <2>1, <2>2, <2>4
    <2>6. p[i + (j - 1)] = p[i] * p[j - 1]
      BY <2>5
    <2>7. i + j \in 1 .. n /\ j \in 1 .. n /\ i + j - 1 = i + (j - 1) /\ j - 1 \in 0 .. n
      BY <2>2, <2>4
    <2>8. p[i + j] = 16 * p[i + (j - 1)] /\ p[j] = 16 * p[j - 1] /\ p[j - 1] \in Nat
      BY <1>0, <2>7
    <2> DEFINE x == p[i]
               y == p[j - 1]
    <2>9. x \in Nat /\ y \in Nat
      BY <2>3, <2>8
    <2> HIDE DEF x, y
    <2>10. 16 * (x * y) = x * (16 * y)
      BY <2>9
    <2>11. QED
      BY <2>2, <2>6, <2>8, <2>10 DEF x, y
  <1>3. QED
    BY <1>1, <1>2

\* The loop of power16Modulo() multiplies by the power r of its base, which is
\* itself a power of 16.
LEMMA PowerLoopValue ==
    ASSUME NEW m \in 1 .. Largest, NEW n \in Nat, NEW p, ArePowers(p, n)
    PROVE  \A r \in Nat : \A j \in Nat : j * r <= n =>
              \A c \in 0 .. m - 1 :
                PowerLoop(m)[<<r, (IF r = 0 THEN 0 ELSE Residue(p[j], m)), c>>] = Residue(c * p[j * r], m)
  <1> DEFINE Right(r) == \A j \in Nat : j * r <= n => \A c \in 0 .. m - 1 :
                PowerLoop(m)[<<r, (IF r = 0 THEN 0 ELSE Residue(p[j], m)), c>>] = Residue(c * p[j * r], m)
             bad == {r \in Nat : ~Right(r)}
  <1>0. m \in Nat \ {0} /\ Largest \in Nat
    BY Words
  <1>1. p \in [0 .. n -> Nat] /\ p[0] = 1
    BY DEF ArePowers
  <1>2. CASE bad = {}
    BY <1>2
  <1>3. CASE bad # {}
    <2>1. PICK r \in bad : \A k \in bad : r <= k
      BY <1>3, Smallest
    <2>2. PICK j \in Nat : j * r <= n /\ ~\A c \in 0 .. m - 1 :
            PowerLoop(m)[<<r, (IF r = 0 THEN 0 ELSE Residue(p[j], m)), c>>] = Residue(c * p[j * r], m)
      BY <2>1
    <2>3. PICK c \in 0 .. m - 1 :
            PowerLoop(m)[<<r, (IF r = 0 THEN 0 ELSE Residue(p[j], m)), c>>] # Residue(c * p[j * r], m)
      BY <2>2
    <2>4. r \in Nat /\ c \in Nat
      BY <1>0, <2>1
    <2>5. r # 0
      <3>1. ASSUME r = 0 PROVE FALSE
        <4>1. PowerLoop(m)[<<0, 0, c>>] = c
          BY <2>4, PowerLoopStep
        <4>2. j * r = 0 /\ c * p[0] = c
          BY <1>1, <2>4, <3>1
        <4>3. Residue(c, m) = c
          BY <1>0 DEF Residue
        <4>4. QED
          BY <2>3, <3>1, <4>1, <4>2, <4>3
      <3>2. QED
        BY <3>1
    <2> DEFINE q == r \div 2
               e == r % 2
    <2>6. q \in Nat /\ e \in {0, 1} /\ r = 2 * q + e /\ q < r
      BY <2>4, <2>5
    <2> HIDE DEF q, e
    <2>7. j <= j * r /\ j * r \in Nat
      BY <2>4, <2>5
    <2>8. j \in 0 .. n /\ p[j] \in Nat
      <3>1. j * r <= n
        BY <2>2
      <3> DEFINE x == j * r
      <3>2. j <= x /\ x \in Nat /\ x <= n
        BY <2>7, <3>1
      <3> HIDE DEF x
      <3>3. j \in 0 .. n
        BY <3>2
      <3>4. QED
        BY <1>1, <3>3
    <2> DEFINE b == Residue(p[j], m)
               b2 == IF q = 0 THEN b ELSE MultiplyModulo(b, b, m)
               c2 == IF e = 1 THEN MultiplyModulo(c, b, m) ELSE c
    <2>9. b \in 0 .. m - 1 /\ b \in Nat
      BY <1>0, <2>8 DEF Residue
    <2>10. PowerLoop(m)[<<r, b, c>>] = PowerLoop(m)[<<q, b2, c2>>]
      <3> HIDE DEF b
      <3>1. QED
        BY <2>4, <2>5, <2>9, PowerLoopStep DEF q, e
    <2>11. PowerLoop(m)[<<r, b, c>>] # Residue(c * p[j * r], m)
      BY <2>3, <2>5
    \* what this round does to the result
    <2> DEFINE w == IF e = 1 THEN p[j] ELSE 1
    <2>12. w \in Nat
      BY <2>8
    <2>13. c2 = Residue(c * w, m) /\ c2 \in 0 .. m - 1
      <3>1. CASE e = 1
        <4>1. c2 = (c * b) % m /\ (c * b) % m \in 0 .. m - 1
          <5> HIDE DEF b
          <5>1. QED
            BY <2>4, <2>9, <3>1, ProductModulo
        <4> DEFINE x == p[j]
        <4>2. (c * (x % m)) % m = (c * x) % m
          <5>1. x \in Nat
            BY <2>8
          <5> HIDE DEF x
          <5>2. QED
            BY <1>0, <2>4, <5>1, ResidueOfProduct
        <4>3. QED
          BY <3>1, <4>1, <4>2 DEF Residue
      <3>2. CASE e = 0
        <4>1. c * 1 = c /\ c % m = c
          BY <1>0, <2>4
        <4>2. QED
          BY <3>2, <4>1 DEF Residue
      <3>3. QED
        BY <2>6, <3>1, <3>2
    <2> HIDE DEF w
    \* and the rest of the powers
    <2>14. /\ (2 * j) * q \in Nat /\ (2 * j) * q <= n /\ p[(2 * j) * q] \in Nat
           /\ p[j * r] = w * p[(2 * j) * q]
      <3> DEFINE t == (2 * j) * q
      <3>1. t \in Nat
        BY <2>6
      <3>2. j * r = t + j * e
        BY <2>6
      <3>3. CASE e = 1
        <4>1. j * e = j /\ w = p[j]
          BY <2>8, <3>3 DEF w
        <4>2. j * r = j + t
          BY <3>1, <3>2, <4>1
        <4> HIDE DEF t
        <4>3. t \in 0 .. n - j /\ t \in 0 .. n
          BY <2>2, <2>8, <3>1, <4>2
        <4>4. p[j + t] = p[j] * p[t]
          BY <2>8, <4>3, PowersMultiply
        <4>5. t <= n /\ p[t] \in Nat
          BY <1>1, <3>1, <4>3
        <4>6. QED
          BY <3>1, <4>1, <4>2, <4>4, <4>5 DEF t
      <3>4. CASE e = 0
        <4>1. j * e = 0 /\ w = 1
          BY <2>8, <3>4 DEF w
        <4>2. j * r = t
          BY <3>1, <3>2, <4>1
        <4> HIDE DEF t
        <4>3. t \in 0 .. n
          BY <2>2, <3>1, <4>2
        <4>4. t <= n /\ p[t] \in Nat
          BY <1>1, <3>1, <4>3
        <4>5. 1 * p[t] = p[t]
          BY <4>4
        <4>6. QED
          BY <3>1, <4>1, <4>2, <4>4, <4>5 DEF t
      <3>5. QED
        BY <2>6, <3>3, <3>4
    <2> DEFINE v == p[(2 * j) * q]
    <2>15. PowerLoop(m)[<<q, b2, c2>>] = Residue(c2 * v, m)
      <3>1. CASE q = 0
        <4>1. b2 \in Nat /\ c2 \in Nat
          BY <1>0, <2>9, <2>13, <3>1
        <4> HIDE DEF b2, c2
        <4>2. PowerLoop(m)[<<0, b2, c2>>] = c2
          BY <4>1, PowerLoopStep
        <4>3. (2 * j) * q = 0
          BY <3>1
        <4>a. c2 \in 0 .. m - 1
          BY <2>13
        <4>4. c2 * p[0] = c2 /\ c2 % m = c2
          BY <1>0, <1>1, <4>1, <4>a
        <4>5. QED
          BY <3>1, <4>2, <4>3, <4>4 DEF Residue
      <3>2. CASE q # 0
        <4> DEFINE i == 2 * j
        <4>1. i \in Nat /\ i = j + j
          OBVIOUS
        <4>2. i <= i * q /\ i * q \in Nat
          <5> HIDE DEF i
          <5>1. QED
            BY <2>6, <3>2, <4>1
        <4>3. i * q <= n
          BY <2>14
        <4> HIDE DEF i
        <4>4. i \in 0 .. n /\ j \in 0 .. n - j
          BY <2>8, <4>1, <4>2, <4>3
        <4>5. p[i] = p[j] * p[j] /\ p[i] \in Nat
          BY <1>1, <2>8, <4>1, <4>4, PowersMultiply
        <4>6. b2 = Residue(p[i], m)
          <5>1. b2 = (b * b) % m
            <6> HIDE DEF b
            <6>1. QED
              BY <2>9, <3>2, ProductModulo
          <5> DEFINE x == p[j]
          <5>2. ((x % m) * (x % m)) % m = (x * x) % m
            <6>1. x \in Nat
              BY <2>8
            <6> HIDE DEF x
            <6>2. QED
              BY <1>0, <6>1, ResidueOfProduct
          <5>3. QED
            BY <4>5, <5>1, <5>2 DEF Residue
        <4>7. Right(q)
          BY <2>1, <2>6
        <4>8. PowerLoop(m)[<<q, Residue(p[i], m), c2>>] = Residue(c2 * p[i * q], m)
          <5> HIDE DEF c2
          <5>1. QED
            BY <2>13, <3>2, <4>1, <4>3, <4>7
        <4>9. i * q = (2 * j) * q
          BY DEF i
        <4>10. QED
          BY <4>6, <4>8, <4>9
      <3>3. QED
        BY <3>1, <3>2
    <2>16. Residue(c2 * v, m) = Residue(c * p[j * r], m)
      <3>1. v \in Nat /\ p[j * r] = w * v
        BY <2>14
      <3> HIDE DEF v
      <3> DEFINE x == c * w
      <3>2. x \in Nat /\ c2 = x % m
        BY <2>4, <2>12, <2>13 DEF Residue
      <3>3. c * (w * v) = x * v
        BY <2>4, <2>12, <3>1
      <3> HIDE DEF x, c2
      <3>4. ((x % m) * v) % m = (x * v) % m
        BY <1>0, <3>1, <3>2, ResidueOfProduct
      <3>5. QED
        BY <3>1, <3>2, <3>3, <3>4 DEF Residue
    <2>17. QED
      BY <2>10, <2>11, <2>15, <2>16
  <1>4. QED
    BY <1>2, <1>3

\* power16Modulo() is the power of 16, for every exponent and every modulus
\* that is a word.
THEOREM Power16IsExact ==
    ASSUME NEW m \in 1 .. Largest, NEW e \in Nat, NEW p, ArePowers(p, e)
    PROVE  Power16Modulo(e, m) = p[e] % m
  <1>0. m \in Nat \ {0} /\ Largest \in Nat /\ 16 % m \in 0 .. m - 1 /\ 1 % m \in 0 .. m - 1
    BY Words
  <1>1. p \in [0 .. e -> Nat] /\ p[0] = 1 /\ \A i \in 1 .. e : p[i] = 16 * p[i - 1]
    BY DEF ArePowers
  <1>2. Power16Modulo(e, m) = PowerLoop(m)[<<e, 16 % m, 1 % m>>]
    BY DEF Power16Modulo, PowerLoop
  <1>3. CASE e = 0
    <2> DEFINE x == 16 % m
               y == 1 % m
    <2>1. x \in Nat /\ y \in Nat
      BY <1>0
    <2> HIDE DEF x, y
    <2>2. PowerLoop(m)[<<0, x, y>>] = y
      BY <2>1, PowerLoopStep
    <2>3. QED
      BY <1>1, <1>2, <1>3, <2>2 DEF x, y
  <1>4. CASE e # 0
    <2>1. p[1] = 16
      BY <1>1, <1>4
    <2> DEFINE y == 1 % m
    <2>2. y \in 0 .. m - 1
      BY <1>0
    <2> HIDE DEF y
    <2>3. 1 * e = e
      OBVIOUS
    <2>4. PowerLoop(m)[<<e, Residue(p[1], m), y>>] = Residue(y * p[1 * e], m)
      BY <1>4, <2>2, <2>3, PowerLoopValue
    <2>5. p[e] \in Nat
      BY <1>1
    <2> DEFINE x == p[e]
    <2>6. ((1 % m) * x) % m = (1 * x) % m
      <3>1. x \in Nat
        BY <2>5
      <3> HIDE DEF x
      <3>2. QED
        BY <1>0, <3>1, ResidueOfProduct
    <2>7. 1 * x = x
      BY <2>5
    <2>8. QED
      BY <1>2, <2>1, <2>3, <2>4, <2>6, <2>7 DEF y, Residue
  <1>5. QED
    BY <1>3, <1>4

\* The powers that the run tries.
LEMMA FirstPowers ==
    ASSUME NEW e \in 0 .. 6
    PROVE  ArePowers([i \in 0 .. e |-> 16^i], e)
  <1>0. ASSUME NEW i, i = 0 PROVE 16^i = 1
    BY <1>0
  <1>1. ASSUME NEW i, i = 1 PROVE 16^i = 16
    BY <1>1
  <1>2. ASSUME NEW i, i = 2 PROVE 16^i = 256
    BY <1>2
  <1>3. ASSUME NEW i, i = 3 PROVE 16^i = 4096
    BY <1>3
  <1>4. ASSUME NEW i, i = 4 PROVE 16^i = 65536
    BY <1>4
  <1>5. ASSUME NEW i, i = 5 PROVE 16^i = 1048576
    BY <1>5
  <1>6. ASSUME NEW i, i = 6 PROVE 16^i = 16777216
    BY <1>6
  <1>7. \A i \in 0 .. e : 16^i \in Nat
    BY <1>0, <1>1, <1>2, <1>3, <1>4, <1>5, <1>6
  <1>8. \A i \in 1 .. e : 16^i = 16 * 16^(i - 1)
    BY <1>0, <1>1, <1>2, <1>3, <1>4, <1>5, <1>6
  <1> DEFINE p == [i \in 0 .. e |-> 16^i]
  <1>9. p \in [0 .. e -> Nat]
    BY <1>7
  <1>10. \A i \in 1 .. e : i \in 0 .. e /\ i - 1 \in 0 .. e
    OBVIOUS
  <1>11. \A i \in 1 .. e : p[i] = 16^i /\ p[i - 1] = 16^(i - 1)
    BY <1>10
  <1>12. p[0] = 1
    BY <1>0
  <1> HIDE DEF p
  <1>13. ArePowers(p, e)
    BY <1>8, <1>9, <1>11, <1>12 DEF ArePowers
  <1>14. QED
    BY <1>13 DEF p

\* The counter runs through words.
CountInv == word \in 0 .. Largest

\* No operation of the plan, of the sample positions and of the modular powers
\* loses anything to the width of a word, whatever the width.
LEMMA WordIsExact ==
    ASSUME CountInv
    PROVE  WordsAreExact
  <1>0. word \in 0 .. Largest /\ Largest \in Nat /\ word \in Nat /\ 99 * 83 <= Largest
    BY Words, ArithmeticAssumption DEF CountInv
  <1>1. \A guard \in Guards :
          CreatePlan(word, guard, PerTerm, PerDigit) = ExactPlan(word, guard)
    <2>1. \A guard \in Guards : guard \in 0 .. Largest
      BY ArithmeticAssumption
    <2>2. QED
      BY <1>0, <2>1, PlanIsExact
  <1>2. ASSUME word > 2
        PROVE  SafePositionCount(word) = Lesser(((word - 2) * 83) \div 100, MaximumPosition + 1)
    <2> DEFINE usable == word - 2
    <2>1. usable \in 0 .. Largest
      BY <1>0, <1>2
    <2> HIDE DEF usable
    <2>2. (100 - 1) * 83 <= Largest
      BY <1>0
    <2>3. Wrap(Wrap((usable \div 100) * 83) + (Wrap((usable % 100) * 83) \div 100))
            = (usable * 83) \div 100
      <3> DEFINE n == 83
                 d == 100
      <3>1. n \in Nat /\ d \in Nat \ {0} /\ n <= d /\ (d - 1) * n <= Largest
        BY <2>2
      <3> HIDE DEF n, d
      <3>2. Wrap(Wrap((usable \div d) * n) + (Wrap((usable % d) * n) \div d)) = (usable * n) \div d
        BY <2>1, <3>1, SplitProduct
      <3>3. QED
        BY <3>2 DEF n, d
    <2>4. SafePositionCount(word) = Lesser(Wrap(Wrap((usable \div 100) * 83)
                                            + (Wrap((usable % 100) * 83) \div 100)), MaximumPosition + 1)
      <3>1. ~(word <= 2)
        BY <1>0, <1>2
      <3>2. QED
        BY <3>1 DEF SafePositionCount, usable
    <2>5. QED
      BY <2>3, <2>4 DEF usable
  <1>3. ASSUME NEW r \in {<<1, 4>>, <<1, 2>>, <<3, 4>>}
        PROVE  FractionOf(word, r[1], r[2]) = (word * r[1]) \div r[2]
    <2>1. \A n, d \in {1, 2, 3, 4} : n <= d => FractionOf(word, n, d) = (word * n) \div d
      <3> SUFFICES ASSUME NEW n \in {1, 2, 3, 4}, NEW d \in {1, 2, 3, 4}, n <= d
                   PROVE  FractionOf(word, n, d) = (word * n) \div d
        OBVIOUS
      <3>1. n \in Nat /\ d \in Nat \ {0} /\ (d - 1) * n <= Largest
        BY <1>0
      <3>2. QED
        BY <1>0, <3>1, SplitProduct DEF FractionOf
    <2>2. r[1] \in {1, 2, 3, 4} /\ r[2] \in {1, 2, 3, 4} /\ r[1] <= r[2]
      OBVIOUS
    <2>3. QED
      BY <2>1, <2>2
  <1>4. ASSUME word <= MaximumPosition + TailTerms, NEW offset \in {1, 4, 5, 6}
        PROVE  Denominator(word, offset) = 8 * word + offset
    <2>1. word <= (Largest - 6) \div 8
      BY <1>0, <1>4 DEF MaximumPosition, TailTerms
    <2>2. 8 * word + offset \in 0 .. Largest
      BY <1>0, <2>1
    <2>3. QED
      BY <2>2, Words DEF Denominator
  <1>5. ASSUME word > 0, NEW e \in 0 .. 6 PROVE Power16Modulo(e, word) = 16^e % word
    <2> DEFINE p == [i \in 0 .. e |-> 16^i]
    <2>1. ArePowers(p, e)
      BY FirstPowers
    <2>2. p[e] = 16^e /\ e \in Nat /\ word \in 1 .. Largest
      BY <1>0, <1>5
    <2> HIDE DEF p
    <2>3. Power16Modulo(e, word) = p[e] % word
      BY <2>1, <2>2, Power16IsExact
    <2>4. QED
      BY <2>2, <2>3
  <1>6. QED
    BY <1>1, <1>2, <1>3, <1>4, <1>5 DEF WordsAreExact

\* PrecisionPolicy, BBPSamplePolicy and BBPHexDigit lose nothing to the width of
\* uint64, whatever the width is: plans are exact or refused, and the positions,
\* denominators and modular powers are those of the unbounded integers.
THEOREM ArithmeticIsExact == CountSpec => []WordsAreExact
  <1>1. CountInit => CountInv
    BY Words DEF CountInit, CountInv
  <1>2. CountInv /\ [CountNext]_word => CountInv'
    BY Words DEF CountInv, CountNext
  <1>3. CountInv => WordsAreExact
    BY WordIsExact
  <1>4. QED
    BY <1>1, <1>2, <1>3, PTL DEF CountSpec
-----------------------------------------------------------------------------
(* Numbers and their digits.                                               *)

\* f holds what a loop over 1 .. n has made of base after each round.
IsFold(f, n, R, base, step) ==
    /\ f \in [0 .. n -> R] /\ f[0] = base
    /\ \A i \in 1 .. n : f[i] = step[<<i, f[i - 1]>>]

\* Such a function exists.
LEMMA FoldExists ==
    ASSUME NEW n \in Nat, NEW R, NEW base \in R, NEW step \in [(1 .. n) \X R -> R]
    PROVE  \E f : IsFold(f, n, R, base, step)
  <1> DEFINE bad == {k \in 0 .. n : ~\E g : IsFold(g, k, R, base, step)}
  <1>1. CASE bad = {}
    BY <1>1
  <1>2. CASE bad # {}
    <2>1. PICK k \in bad : \A j \in bad : k <= j
      <3>1. bad \in SUBSET Nat
        OBVIOUS
      <3> HIDE DEF bad
      <3>2. QED
        BY <1>2, <3>1, Smallest
    <2>2. CASE k = 0
      <3> DEFINE g == [i \in 0 .. 0 |-> base]
      <3>1. IsFold(g, 0, R, base, step)
        BY DEF IsFold
      <3> HIDE DEF g
      <3>2. QED
        BY <2>1, <2>2, <3>1
    <2>3. CASE k # 0
      <3>1. k \in 1 .. n /\ k - 1 \in 0 .. n /\ k - 1 \notin bad
        BY <2>1, <2>3
      <3>2. PICK g : IsFold(g, k - 1, R, base, step)
        BY <3>1
      <3>3. g \in [0 .. k - 1 -> R] /\ g[0] = base /\ \A i \in 1 .. k - 1 : g[i] = step[<<i, g[i - 1]>>]
        BY <3>2 DEF IsFold
      <3> DEFINE h == [i \in 0 .. k |-> IF i = k THEN step[<<k, g[k - 1]>>] ELSE g[i]]
      <3>4. g[k - 1] \in R
        BY <3>1, <3>3
      <3>5. step[<<k, g[k - 1]>>] \in R
        BY <3>1, <3>4
      <3>6. h \in [0 .. k -> R] /\ h[0] = base
        BY <3>1, <3>3, <3>5
      <3>7. ASSUME NEW i \in 1 .. k PROVE h[i] = step[<<i, h[i - 1]>>]
        <4>1. i - 1 \in 0 .. k /\ i - 1 # k
          BY <3>1
        <4>2. CASE i = k
          BY <4>1, <4>2
        <4>3. CASE i # k
          <5>1. i \in 1 .. k - 1 /\ i \in 0 .. k
            BY <3>1, <4>3
          <5>2. QED
            BY <3>3, <4>1, <4>3, <5>1
        <4>4. QED
          BY <4>2, <4>3
      <3> HIDE DEF h
      <3>8. IsFold(h, k, R, base, step)
        BY <3>6, <3>7 DEF IsFold
      <3>9. QED
        BY <2>1, <3>8
    <2>4. QED
      BY <2>2, <2>3
  <1>3. QED
    BY <1>1, <1>2

\* The powers of a base, one after the other.
PowersOf(base, p, n) ==
    p \in [0 .. n -> Nat] /\ p[0] = 1 /\ \A i \in 1 .. n : p[i] = base * p[i - 1]

\* The powers exist.
LEMMA PowersExist ==
    ASSUME NEW base \in Nat, NEW n \in Nat
    PROVE  \E p : PowersOf(base, p, n)
  <1> DEFINE step == [x \in (1 .. n) \X Nat |-> base * x[2]]
  <1>1. step \in [(1 .. n) \X Nat -> Nat] /\ 1 \in Nat
    OBVIOUS
  <1>2. \A i \in 1 .. n : \A x \in Nat : step[<<i, x>>] = base * x
    OBVIOUS
  <1> HIDE DEF step
  <1>3. PICK p : IsFold(p, n, Nat, 1, step)
    BY <1>1, FoldExists
  <1>4. p \in [0 .. n -> Nat] /\ p[0] = 1 /\ \A i \in 1 .. n : p[i] = step[<<i, p[i - 1]>>]
    BY <1>3 DEF IsFold
  <1>5. ASSUME NEW i \in 1 .. n PROVE p[i] = base * p[i - 1]
    <2>1. i - 1 \in 0 .. n
      OBVIOUS
    <2>2. p[i - 1] \in Nat
      BY <1>4, <2>1
    <2>3. QED
      BY <1>2, <1>4, <2>2
  <1>6. QED
    BY <1>4, <1>5 DEF PowersOf

\* The function that Power() is an element of.
PowerTable(base, k) ==
    CHOOSE f : f = [i \in 0 .. k |-> IF i = 0 THEN 1 ELSE base * f[i - 1]]

\* The table that Power builds is one of powers.
LEMMA TheTable ==
    ASSUME NEW base \in Nat, NEW k \in Nat
    PROVE  /\ Power(base, k) = PowerTable(base, k)[k]
           /\ PowerTable(base, k)[0] = 1
           /\ \A i \in 1 .. k : PowerTable(base, k)[i] = base * PowerTable(base, k)[i - 1]
  <1> DEFINE F(f) == [i \in 0 .. k |-> IF i = 0 THEN 1 ELSE base * f[i - 1]]
             t == PowerTable(base, k)
  <1>1. PICK p : PowersOf(base, p, k)
    BY PowersExist
  <1>2. p \in [0 .. k -> Nat] /\ p[0] = 1 /\ \A i \in 1 .. k : p[i] = base * p[i - 1]
    BY <1>1 DEF PowersOf
  <1>3. p = F(p)
    <2>1. \A i \in 0 .. k : i = 0 \/ i \in 1 .. k
      OBVIOUS
    <2>2. \A i \in 0 .. k : p[i] = IF i = 0 THEN 1 ELSE base * p[i - 1]
      BY <1>2, <2>1
    <2>3. QED
      BY <1>2, <2>2
  <1>4. t = F(t)
    BY <1>3 DEF PowerTable
  <1>5. Power(base, k) = t[k]
    BY DEF Power, PowerTable
  <1> HIDE DEF t
  <1>6. t[0] = 1
    BY <1>4
  <1>7. \A i \in 1 .. k : t[i] = base * t[i - 1]
    BY <1>4
  <1>8. QED
    BY <1>5, <1>6, <1>7 DEF t

\* Power() is what is at its place among the powers.
LEMMA PowerIs ==
    ASSUME NEW base \in Nat, NEW n \in Nat, NEW p, PowersOf(base, p, n), NEW k \in 0 .. n
    PROVE  Power(base, k) = p[k]
  <1> DEFINE t == PowerTable(base, k)
             bad == {i \in 0 .. k : t[i] # p[i]}
  <1>1. /\ k \in Nat /\ Power(base, k) = t[k] /\ t[0] = 1
        /\ \A i \in 1 .. k : t[i] = base * t[i - 1]
    BY TheTable
  <1>2. p[0] = 1 /\ \A i \in 1 .. n : p[i] = base * p[i - 1]
    BY DEF PowersOf
  <1> HIDE DEF t
  <1>3. CASE bad = {}
    BY <1>1, <1>3
  <1>4. CASE bad # {}
    <2>1. PICK i \in bad : \A j \in bad : i <= j
      <3>1. bad \in SUBSET Nat
        OBVIOUS
      <3> HIDE DEF bad
      <3>2. QED
        BY <1>4, <3>1, Smallest
    <2>2. i # 0
      BY <1>1, <1>2, <2>1
    <2>3. i \in 1 .. k /\ i \in 1 .. n /\ i - 1 \in 0 .. k /\ i - 1 \notin bad
      BY <1>1, <2>1, <2>2
    <2>4. t[i - 1] = p[i - 1]
      BY <2>3
    <2>5. QED
      BY <1>1, <1>2, <2>1, <2>3, <2>4
  <1>5. QED
    BY <1>3, <1>4

\* The powers of a base above one grow, and faster than their exponents.
LEMMA PowerStep ==
    ASSUME NEW base \in Nat, NEW k \in Nat
    PROVE  Power(base, k) \in Nat /\ Power(base, k + 1) = base * Power(base, k)
  <1>1. PICK p : PowersOf(base, p, k + 1)
    BY PowersExist
  <1>2. k + 1 \in Nat /\ k \in 0 .. k + 1 /\ k + 1 \in 0 .. k + 1 /\ k + 1 \in 1 .. k + 1 /\ (k + 1) - 1 = k
    OBVIOUS
  <1>3. Power(base, k) = p[k] /\ Power(base, k + 1) = p[k + 1]
    BY <1>1, <1>2, PowerIs
  <1>4. p[k] \in Nat /\ p[k + 1] = base * p[(k + 1) - 1]
    BY <1>1, <1>2 DEF PowersOf
  <1>5. QED
    BY <1>2, <1>3, <1>4

\* The first power.
LEMMA PowerOfZero ==
    ASSUME NEW base \in Nat
    PROVE  Power(base, 0) = 1
  <1>1. PICK p : PowersOf(base, p, 0)
    BY PowersExist
  <1>2. Power(base, 0) = p[0]
    BY <1>1, PowerIs
  <1>3. QED
    BY <1>1, <1>2 DEF PowersOf

\* Powers are positive and grow.
LEMMA PowerGrows ==
    ASSUME NEW base \in Nat \ {0, 1}, NEW k \in Nat
    PROVE  /\ Power(base, k) \in Nat \ {0} /\ k < Power(base, k)
           /\ Power(base, k + 1) = base * Power(base, k) /\ Power(base, k) < Power(base, k + 1)
  <1>0. \A j \in Nat : Power(base, j) \in Nat /\ Power(base, j + 1) = base * Power(base, j)
    BY PowerStep
  <1>z. Power(base, 0) = 1
    BY PowerOfZero
  <1> DEFINE bad == {j \in Nat : ~(j < Power(base, j))}
  <1>1. bad = {}
    <2> SUFFICES ASSUME bad # {} PROVE FALSE
      OBVIOUS
    <2>1. PICK j \in bad : \A i \in bad : j <= i
      <3>1. bad \in SUBSET Nat
        OBVIOUS
      <3> HIDE DEF bad
      <3>2. QED
        BY <3>1, Smallest
    <2>2. j # 0
      BY <1>z, <2>1
    <2>3. j \in Nat /\ j - 1 \in Nat /\ j - 1 \notin bad /\ (j - 1) + 1 = j
      BY <2>1, <2>2
    <2>4. j - 1 < Power(base, j - 1)
      BY <2>3
    <2>5. Power(base, j) = base * Power(base, j - 1) /\ Power(base, j - 1) \in Nat
      BY <1>0, <2>3
    <2>6. base * Power(base, j - 1) >= 2 * Power(base, j - 1)
      BY <2>5
    <2>7. QED
      BY <2>1, <2>3, <2>4, <2>5, <2>6
  <1>2. k < Power(base, k) /\ Power(base, k) \in Nat
    BY <1>0, <1>1
  <1>3. base * Power(base, k) >= 2 * Power(base, k)
    BY <1>2
  <1>4. QED
    BY <1>0, <1>2, <1>3

\* Division by two numbers in turn.
LEMMA DivideTwice ==
    ASSUME NEW x \in Nat, NEW a \in Nat \ {0}, NEW b \in Nat \ {0}
    PROVE  (x \div a) \div b = x \div (a * b)
  <1> DEFINE q == x \div a
             r == x % a
             s == q \div b
             t == q % b
             c == a * b
             e == a * t
  <1>1. q \in Nat /\ r \in 0 .. a - 1 /\ x = a * q + r
    OBVIOUS
  <1> HIDE DEF q, r
  <1>2. s \in Nat /\ t \in 0 .. b - 1 /\ q = b * s + t
    BY <1>1
  <1> HIDE DEF s, t
  <1>3. x = c * s + (a * t + r)
    BY <1>1, <1>2
  <1>4. a * t <= a * (b - 1) /\ a * (b - 1) = c - a /\ a * t >= 0 /\ c \in Nat \ {0} /\ e \in Nat
    BY <1>2
  <1> HIDE DEF c, e
  <1>5. e = a * t
    BY DEF e
  <1>6. e + r \in 0 .. c - 1 /\ x = c * s + (e + r)
    BY <1>1, <1>3, <1>4, <1>5
  <1>7. x \div c = s
    <2> DEFINE y == e + r
    <2>1. y \in 0 .. c - 1 /\ x = c * s + y
      BY <1>6
    <2> HIDE DEF y
    <2>2. QED
      BY <1>2, <1>4, <2>1
  <1>8. QED
    BY <1>7 DEF c, s, q

\* The value of a sequence of digits, and that of each of its prefixes.
IsValue(base, v, d) ==
    /\ v \in [0 .. Len(d) -> Nat] /\ v[0] = 0
    /\ \A i \in 1 .. Len(d) : v[i] = base * v[i - 1] + d[i]

ValueTable(base, d) ==
    CHOOSE f : f = [i \in 0 .. Len(d) |-> IF i = 0 THEN 0 ELSE base * f[i - 1] + d[i]]

Value(base, d) == ValueTable(base, d)[Len(d)]

\* The table of values is one.
LEMMA ValueExists ==
    ASSUME NEW base \in Nat, NEW d \in Seq(Nat)
    PROVE  IsValue(base, ValueTable(base, d), d)
  <1> DEFINE n == Len(d)
             F(f) == [i \in 0 .. n |-> IF i = 0 THEN 0 ELSE base * f[i - 1] + d[i]]
             t == ValueTable(base, d)
             step == [x \in (1 .. n) \X Nat |-> base * x[2] + d[x[1]]]
  <1>0. n \in Nat /\ \A i \in 1 .. n : d[i] \in Nat
    OBVIOUS
  <1>s. \A x, y \in Nat : base * x + y \in Nat
    OBVIOUS
  <1>1. step \in [(1 .. n) \X Nat -> Nat] /\ 0 \in Nat
    <2> SUFFICES ASSUME NEW x \in (1 .. n) \X Nat PROVE base * x[2] + d[x[1]] \in Nat
      OBVIOUS
    <2>1. x[1] \in 1 .. n /\ x[2] \in Nat /\ d[x[1]] \in Nat
      BY <1>0
    <2>2. QED
      BY <1>s, <2>1
  <1>2. \A i \in 1 .. n : \A x \in Nat : step[<<i, x>>] = base * x + d[i]
    OBVIOUS
  <1> HIDE DEF step
  <1>3. PICK f : IsFold(f, n, Nat, 0, step)
    BY <1>0, <1>1, FoldExists
  <1>4. f \in [0 .. n -> Nat] /\ f[0] = 0 /\ \A i \in 1 .. n : f[i] = step[<<i, f[i - 1]>>]
    BY <1>3 DEF IsFold
  <1>5. ASSUME NEW i \in 1 .. n PROVE f[i] = base * f[i - 1] + d[i]
    <2>1. i - 1 \in 0 .. n
      BY <1>0
    <2>2. f[i - 1] \in Nat
      BY <1>4, <2>1
    <2>3. QED
      BY <1>2, <1>4, <2>2
  <1>6. f = F(f)
    <2>1. \A i \in 0 .. n : i = 0 \/ i \in 1 .. n
      BY <1>0
    <2>2. \A i \in 0 .. n : f[i] = IF i = 0 THEN 0 ELSE base * f[i - 1] + d[i]
      BY <1>4, <1>5, <2>1
    <2>3. QED
      BY <1>4, <2>2
  <1>7. t = F(t)
    BY <1>6 DEF ValueTable
  <1> HIDE DEF t
  <1>8. t[0] = 0 /\ \A i \in 1 .. n : t[i] = base * t[i - 1] + d[i]
    <2>1. 0 \in 0 .. n /\ \A i \in 1 .. n : i \in 0 .. n /\ i # 0
      BY <1>0
    <2>2. \A i \in 0 .. n : t[i] = IF i = 0 THEN 0 ELSE base * t[i - 1] + d[i]
      BY <1>7
    <2>3. QED
      BY <2>1, <2>2
  <1>9. \A i \in 0 .. n : t[i] \in Nat
    <2> DEFINE bad == {i \in 0 .. n : t[i] \notin Nat}
    <2> SUFFICES ASSUME bad # {} PROVE FALSE
      OBVIOUS
    <2>1. PICK i \in bad : \A j \in bad : i <= j
      <3>1. bad \in SUBSET Nat
        OBVIOUS
      <3> HIDE DEF bad
      <3>2. QED
        BY <3>1, Smallest
    <2>2. i # 0
      BY <1>8, <2>1
    <2>3. i \in 1 .. n /\ i - 1 \in 0 .. n /\ i - 1 \notin bad
      BY <1>0, <2>1, <2>2
    <2>4. t[i - 1] \in Nat
      BY <2>3
    <2>5. t[i] \in Nat
      BY <1>0, <1>s, <1>8, <2>3, <2>4
    <2>6. QED
      BY <2>1, <2>5
  <1>10. t \in [0 .. n -> Nat]
    BY <1>7, <1>9
  <1>11. QED
    BY <1>8, <1>10 DEF t, IsValue

\* The value of a prefix is what division by a power leaves.
LEMMA LeadingDigits ==
    ASSUME NEW base \in Nat \ {0, 1}, NEW d \in Seq(0 .. base - 1), NEW v, IsValue(base, v, d)
    PROVE  \A j \in 0 .. Len(d) : v[Len(d)] \div Power(base, j) = v[Len(d) - j]
  <1> DEFINE n == Len(d)
             bad == {j \in 0 .. n : v[n] \div Power(base, j) # v[n - j]}
  <1>0. n \in Nat /\ \A i \in 1 .. n : d[i] \in 0 .. base - 1
    OBVIOUS
  <1>1. v \in [0 .. n -> Nat] /\ v[0] = 0 /\ \A i \in 1 .. n : v[i] = base * v[i - 1] + d[i]
    BY DEF IsValue
  <1>2. Power(base, 0) = 1 /\ \A j \in Nat : Power(base, j) \in Nat \ {0} /\ Power(base, j + 1) = base * Power(base, j)
    BY PowerOfZero, PowerGrows
  <1> SUFFICES ASSUME bad # {} PROVE FALSE
    OBVIOUS
  <1> HIDE DEF n
  <1>3. PICK j \in bad : \A i \in bad : j <= i
    <2>1. bad \in SUBSET Nat
      OBVIOUS
    <2> HIDE DEF bad
    <2>2. QED
      BY <2>1, Smallest
  <1>4. j # 0
    <2>1. v[n] \div 1 = v[n - 0]
      <3>1. n - 0 = n /\ n \in 0 .. n
        BY <1>0
      <3>2. v[n] \in Nat
        BY <1>1, <3>1
      <3>3. QED
        BY <3>1, <3>2
    <2>2. QED
      BY <1>2, <1>3, <2>1
  <1> DEFINE k == j - 1
             i == n - k
  <1>5. k \in Nat /\ k \in 0 .. n /\ k \notin bad /\ k + 1 = j /\ i \in 1 .. n /\ i - 1 = n - j /\ i - 1 \in 0 .. n
    BY <1>0, <1>3, <1>4
  <1>6. v[n] \div Power(base, k) = v[i] /\ v[n - j] = v[i - 1]
    BY <1>5
  <1> HIDE DEF i, k
  <1>7. v[n] \in Nat /\ v[i - 1] \in Nat /\ d[i] \in 0 .. base - 1 /\ v[i] = base * v[i - 1] + d[i]
    <2>1. n \in 0 .. n
      BY <1>0
    <2>2. QED
      BY <1>0, <1>1, <1>5, <2>1
  <1>8. Power(base, j) = base * Power(base, k) /\ Power(base, k) \in Nat \ {0}
    BY <1>2, <1>5
  <1>9. Power(base, j) = Power(base, k) * base
    BY <1>8
  <1>10. v[n] \div Power(base, j) = (v[n] \div Power(base, k)) \div base
    <2> DEFINE P == Power(base, k)
               x == v[n]
    <2>1. P \in Nat \ {0} /\ x \in Nat /\ base \in Nat \ {0} /\ Power(base, j) = P * base
      BY <1>7, <1>8, <1>9
    <2> HIDE DEF P, x
    <2>2. (x \div P) \div base = x \div (P * base)
      BY <2>1, DivideTwice
    <2>3. QED
      BY <2>1, <2>2 DEF P, x
  <1>11. v[i] \div base = v[i - 1]
    <2> DEFINE a == v[i - 1]
               b == d[i]
               c == v[i]
    <2>1. a \in Nat /\ b \in 0 .. base - 1 /\ c = base * a + b
      BY <1>7
    <2> HIDE DEF a, b, c
    <2>2. c \div base = a
      BY <2>1
    <2>3. QED
      BY <2>2 DEF a, c
  <1>12. QED
    BY <1>3, <1>6, <1>10, <1>11

\* What is known of the value of a sequence of digits: it is below the power
\* that its length allows, and its digits can be read off again.
LEMMA DigitsOfValue ==
    ASSUME NEW base \in Nat \ {0, 1}, NEW d \in Seq(0 .. base - 1)
    PROVE  /\ Value(base, d) \in Nat /\ Value(base, d) < Power(base, Len(d))
           /\ \A i \in 1 .. Len(d) : (Value(base, d) \div Power(base, Len(d) - i)) % base = d[i]
           /\ Len(d) > 0 => (d[1] # 0 <=> Power(base, Len(d) - 1) <= Value(base, d))
  <1> DEFINE n == Len(d)
             v == ValueTable(base, d)
             x == v[n]
  <1>0. n \in Nat /\ (\A i \in 1 .. n : d[i] \in 0 .. base - 1) /\ base \in Nat
    OBVIOUS
  <1>1. d \in Seq(Nat)
    <2>1. 0 .. base - 1 \subseteq Nat
      OBVIOUS
    <2>2. QED
      BY <2>1, SeqMonotonic
  <1>2. IsValue(base, v, d)
    BY <1>0, <1>1, ValueExists
  <1> HIDE DEF v
  <1>3. \A j \in 0 .. n : x \div Power(base, j) = v[n - j]
    BY <1>2, LeadingDigits
  <1>4. v \in [0 .. n -> Nat] /\ v[0] = 0 /\ \A i \in 1 .. n : v[i] = base * v[i - 1] + d[i]
    BY <1>2 DEF IsValue
  <1>5. x \in Nat /\ Value(base, d) = x
    BY <1>0, <1>4 DEF Value, v
  <1>6. \A j \in Nat : Power(base, j) \in Nat \ {0}
    BY PowerGrows
  <1> HIDE DEF x, n
  <1>7. x < Power(base, n)
    <2> DEFINE P == Power(base, n)
    <2>1. P \in Nat \ {0}
      BY <1>0, <1>6
    <2>2. n \in 0 .. n /\ n - n = 0
      BY <1>0
    <2>3. x \div P = 0
      BY <1>3, <1>4, <2>2
    <2> HIDE DEF P
    <2>4. x < P
      BY <1>5, <2>1, <2>3
    <2>5. QED
      BY <2>4 DEF P
  <1>8. ASSUME NEW i \in 1 .. n PROVE (x \div Power(base, n - i)) % base = d[i]
    <2>1. n - i \in 0 .. n /\ n - (n - i) = i /\ i - 1 \in 0 .. n
      BY <1>0
    <2>2. x \div Power(base, n - i) = v[i]
      BY <1>3, <2>1
    <2> DEFINE a == v[i - 1]
               b == d[i]
               c == v[i]
    <2>3. a \in Nat /\ b \in 0 .. base - 1 /\ c = base * a + b
      BY <1>0, <1>4, <2>1
    <2> HIDE DEF a, b, c
    <2>4. c % base = b
      BY <1>0, <2>3
    <2>5. QED
      BY <2>2, <2>4 DEF b, c
  <1>9. ASSUME n > 0 PROVE d[1] # 0 <=> Power(base, n - 1) <= x
    <2> DEFINE P == Power(base, n - 1)
    <2>1. n - 1 \in Nat /\ n - 1 \in 0 .. n /\ n - (n - 1) = 1 /\ 1 \in 1 .. n /\ 1 - 1 = 0
      BY <1>0, <1>9
    <2>2. P \in Nat \ {0} /\ x \div P = v[1]
      BY <1>3, <1>6, <2>1
    <2>3. v[1] = base * 0 + d[1] /\ d[1] \in 0 .. base - 1
      BY <1>0, <1>4, <2>1
    <2>4. v[1] = d[1]
      BY <1>0, <2>3
    <2> HIDE DEF P
    <2>5. x \div P # 0 <=> P <= x
      BY <1>5, <2>2
    <2>6. QED
      BY <2>2, <2>4, <2>5 DEF P
  <1>10. QED
    BY <1>5, <1>7, <1>8, <1>9 DEF n

\* The digits of a number, most significant first.
DigitsOf(base, x, k) == [i \in 1 .. k |-> (x \div Power(base, k - i)) % base]

\* They are digits of that base, and as many as asked for.
LEMMA DigitsAre ==
    ASSUME NEW base \in Nat \ {0, 1}, NEW x \in Nat, NEW k \in Nat
    PROVE  DigitsOf(base, x, k) \in Seq(0 .. base - 1) /\ Len(DigitsOf(base, x, k)) = k
  <1>1. ASSUME NEW i \in 1 .. k PROVE (x \div Power(base, k - i)) % base \in 0 .. base - 1
    <2> DEFINE P == Power(base, k - i)
    <2>1. k - i \in Nat
      OBVIOUS
    <2>2. P \in Nat \ {0}
      BY <2>1, PowerGrows
    <2> HIDE DEF P
    <2>3. x \div P \in Nat
      BY <2>2
    <2> DEFINE q == x \div P
    <2> HIDE DEF q
    <2>4. q % base \in 0 .. base - 1
      BY <2>3 DEF q
    <2>5. QED
      BY <2>4 DEF q, P
  <1>2. DigitsOf(base, x, k) \in [1 .. k -> 0 .. base - 1]
    BY <1>1 DEF DigitsOf
  <1>3. QED
    BY <1>2

\* Their value is the number.
LEMMA ValueOfDigits ==
    ASSUME NEW base \in Nat \ {0, 1}, NEW k \in Nat, NEW x \in Nat, x < Power(base, k)
    PROVE  Value(base, DigitsOf(base, x, k)) = x
  <1> DEFINE d == DigitsOf(base, x, k)
             v == ValueTable(base, d)
             bad == {i \in 0 .. k : v[i] # x \div Power(base, k - i)}
  <1>0. d \in Seq(Nat) /\ Len(d) = k
    <2>1. d \in Seq(0 .. base - 1) /\ Len(d) = k
      BY DigitsAre
    <2>2. 0 .. base - 1 \subseteq Nat
      OBVIOUS
    <2>3. QED
      BY <2>1, <2>2, SeqMonotonic
  <1>d. \A i \in 1 .. k : d[i] = (x \div Power(base, k - i)) % base
    BY DEF DigitsOf
  <1> HIDE DEF d
  <1>1. IsValue(base, v, d)
    BY <1>0, ValueExists
  <1> HIDE DEF v
  <1>2. v \in [0 .. k -> Nat] /\ v[0] = 0 /\ \A i \in 1 .. k : v[i] = base * v[i - 1] + d[i]
    BY <1>0, <1>1 DEF IsValue
  <1>3. Power(base, 0) = 1 /\ \A j \in Nat : Power(base, j) \in Nat \ {0} /\ Power(base, j + 1) = base * Power(base, j)
    BY PowerOfZero, PowerGrows
  <1>4. bad = {}
    <2> SUFFICES ASSUME bad # {} PROVE FALSE
      OBVIOUS
    <2>1. PICK i \in bad : \A j \in bad : i <= j
      <3>1. bad \in SUBSET Nat
        OBVIOUS
      <3> HIDE DEF bad
      <3>2. QED
        BY <3>1, Smallest
    <2>2. i # 0
      <3>1. k - 0 = k /\ Power(base, k) \in Nat \ {0}
        BY <1>3
      <3> DEFINE P == Power(base, k)
      <3>2. P \in Nat \ {0} /\ x < P
        BY <3>1
      <3> HIDE DEF P
      <3>3. x \div P = 0
        BY <3>2
      <3>4. QED
        BY <1>2, <2>1, <3>1, <3>3 DEF P
    <2>3. i \in 1 .. k /\ i - 1 \in 0 .. k /\ i - 1 \notin bad
      BY <2>1, <2>2
    <2> DEFINE j == k - i
               P == Power(base, j)
    <2>4. j \in Nat /\ j + 1 = k - (i - 1)
      BY <2>3
    <2>5. v[i - 1] = x \div Power(base, j + 1) /\ Power(base, j + 1) = base * P /\ P \in Nat \ {0}
      BY <1>3, <2>3, <2>4
    <2>6. v[i] = base * v[i - 1] + d[i] /\ d[i] = (x \div P) % base
      BY <1>2, <1>d, <2>3
    <2> HIDE DEF P
    <2>7. base * P = P * base /\ base \in Nat \ {0}
      BY <2>5
    <2>8. v[i - 1] = (x \div P) \div base
      BY <2>5, <2>7, DivideTwice
    <2> DEFINE q == x \div P
    <2>9. q \in Nat
      BY <2>5
    <2> HIDE DEF q
    <2>10. base * (q \div base) + (q % base) = q
      BY <2>9
    <2>11. v[i] = q
      BY <2>6, <2>8, <2>10 DEF q
    <2>12. QED
      BY <2>1, <2>11 DEF q, P
  <1>5. v[k] = x \div Power(base, k - k)
    BY <1>4
  <1>6. k - k = 0 /\ x \div 1 = x
    OBVIOUS
  <1>7. v[k] = x
    BY <1>3, <1>5, <1>6
  <1>8. QED
    BY <1>0, <1>7 DEF Value, v, d
-----------------------------------------------------------------------------
(* Sample positions.                                                       *)

\* Ascending() sorts.
LEMMA AscendingSorts ==
    ASSUME NEW S \in SUBSET Nat, IsFiniteSet(S)
    PROVE  /\ Ascending(S) \in Seq(S) /\ Len(Ascending(S)) = Cardinality(S)
           /\ {Ascending(S)[i] : i \in 1 .. Cardinality(S)} = S
           /\ \A i \in 2 .. Cardinality(S) : Ascending(S)[i - 1] < Ascending(S)[i]
  <1> DEFINE below(x) == {y \in S : y < x}
             rank == [x \in S |-> Cardinality(below(x))]
             c == Cardinality(S)
             a == Ascending(S)
  <1>1. c \in Nat
    BY FS_CardinalityType
  <1>2. ASSUME NEW x \in S
        PROVE  IsFiniteSet(below(x)) /\ Cardinality(below(x)) \in 0 .. c - 1
    <2>1. below(x) \subseteq S /\ below(x) # S
      OBVIOUS
    <2> HIDE DEF below
    <2>2. IsFiniteSet(below(x)) /\ Cardinality(below(x)) <= c /\ Cardinality(below(x)) # c
      BY <2>1, FS_Subset
    <2>3. QED
      BY <1>1, <2>2, FS_CardinalityType
  <1>3. ASSUME NEW x \in S, NEW y \in S, x < y PROVE Cardinality(below(x)) < Cardinality(below(y))
    <2>0. x \in Nat /\ y \in Nat /\ ~(x < x) /\ \A z \in S : z \in Nat /\ (z < x => z < y)
      BY <1>3
    <2>1. below(x) \subseteq below(y) /\ x \in below(y) /\ x \notin below(x)
      BY <1>3, <2>0
    <2>2. IsFiniteSet(below(y)) /\ Cardinality(below(x)) \in Nat /\ Cardinality(below(y)) \in Nat
      BY <1>1, <1>2
    <2> HIDE DEF below
    <2>3. Cardinality(below(x)) <= Cardinality(below(y)) /\ Cardinality(below(x)) # Cardinality(below(y))
      BY <2>1, <2>2, FS_Subset
    <2>4. QED
      BY <2>2, <2>3
  <1>4. rank \in [S -> 0 .. c - 1] /\ \A x \in S : rank[x] = Cardinality(below(x))
    BY <1>2
  <1>5. \A x, y \in S : x < y => rank[x] < rank[y]
    BY <1>3, <1>4
  <1> HIDE DEF rank
  <1>6. \A x, y \in S : x # y => rank[x] # rank[y]
    <2> SUFFICES ASSUME NEW x \in S, NEW y \in S, x # y PROVE rank[x] # rank[y]
      OBVIOUS
    <2>1. x < y \/ y < x
      OBVIOUS
    <2>2. rank[x] \in 0 .. c - 1 /\ rank[y] \in 0 .. c - 1
      BY <1>4
    <2>3. QED
      BY <1>1, <1>5, <2>1, <2>2
  <1>7. rank \in Injection(S, 0 .. c - 1)
    BY <1>4, <1>6 DEF Injection, IsInjective
  <1>8. IsFiniteSet(0 .. c - 1) /\ Cardinality(0 .. c - 1) = c
    <2>1. 0 \in Int /\ c - 1 \in Int
      BY <1>1
    <2>2. IsFiniteSet(0 .. c - 1) /\ Cardinality(0 .. c - 1) = IF 0 > c - 1 THEN 0 ELSE c - 1 - 0 + 1
      BY <2>1, FS_Interval
    <2>3. QED
      BY <1>1, <2>2
  <1>9. rank \in Surjection(S, 0 .. c - 1)
    BY <1>7, <1>8, FS_Injection
  <1>10. \A i \in 0 .. c - 1 : \E x \in S : rank[x] = i
    BY <1>9 DEF Surjection
  <1>11. a = [i \in 1 .. c |-> CHOOSE x \in S : Cardinality(below(x)) = i - 1]
    BY DEF Ascending
  <1>12. \A i \in 1 .. c : a[i] \in S /\ rank[a[i]] = i - 1
    <2> SUFFICES ASSUME NEW i \in 1 .. c PROVE a[i] \in S /\ rank[a[i]] = i - 1
      OBVIOUS
    <2>1. i - 1 \in 0 .. c - 1
      BY <1>1
    <2>2. \E x \in S : Cardinality(below(x)) = i - 1
      BY <1>4, <1>10, <2>1
    <2>3. a[i] = CHOOSE x \in S : Cardinality(below(x)) = i - 1
      BY <1>11
    <2>4. a[i] \in S /\ Cardinality(below(a[i])) = i - 1
      BY <2>2, <2>3
    <2>5. QED
      BY <1>4, <2>4
  <1>13. a \in Seq(S) /\ Len(a) = c
    <2>1. a \in [1 .. c -> S]
      BY <1>11, <1>12
    <2>2. QED
      BY <1>1, <2>1
  <1> HIDE DEF a, c
  <1>14. {a[i] : i \in 1 .. c} = S
    <2>1. ASSUME NEW x \in S PROVE \E i \in 1 .. c : a[i] = x
      <3>1. rank[x] \in 0 .. c - 1
        BY <1>4
      <3> DEFINE j == rank[x] + 1
      <3>3. j \in 1 .. c /\ j - 1 = rank[x]
        BY <1>1, <3>1
      <3> HIDE DEF j
      <3>4. a[j] \in S /\ rank[a[j]] = rank[x]
        BY <1>12, <3>3
      <3>5. QED
        BY <1>6, <3>3, <3>4
    <2>2. QED
      BY <1>12, <2>1
  <1>15. ASSUME NEW i \in 2 .. c PROVE a[i - 1] < a[i]
    <2>1. i \in 1 .. c /\ i - 1 \in 1 .. c
      BY <1>1
    <2>2. a[i] \in S /\ a[i - 1] \in S /\ rank[a[i]] = i - 1 /\ rank[a[i - 1]] = (i - 1) - 1
      BY <1>12, <2>1
    <2>3. ~(rank[a[i]] < rank[a[i - 1]]) /\ rank[a[i]] # rank[a[i - 1]]
      BY <1>1, <2>2
    <2>4. ~(a[i] < a[i - 1]) /\ a[i] # a[i - 1] /\ a[i] \in Nat /\ a[i - 1] \in Nat
      BY <1>5, <2>2, <2>3
    <2>5. QED
      BY <2>4
  <1>16. QED
    BY <1>13, <1>14, <1>15 DEF a, c

\* The positions that are taken after each offer.
Taken(offered, s, m) ==
    CHOOSE f : f = [i \in 0 .. Len(offered) |->
                      IF i = 0 THEN <<>> ELSE AddUnique(f[i - 1], offered[i], s, m)]

\* What there is after the first i offers: different safe positions, no more
\* than asked for, and every safe one that was offered unless it came too late.
TakenOk(t, i, offered, s, m) ==
    /\ t \in Seq(Nat) /\ Len(t) <= m /\ Len(t) <= i
    /\ \A j \in 1 .. Len(t) : t[j] < s
    /\ \A j, k \in 1 .. Len(t) : j # k => t[j] # t[k]
    /\ \A k \in 1 .. i : offered[k] < s =>
        (\E j \in 1 .. Len(t) : t[j] = offered[k]) \/ (Len(t) = m /\ k > m)

\* One more offer.
LEMMA AddKeeps ==
    ASSUME NEW offered \in Seq(Nat), NEW s \in Nat, NEW m \in Nat, NEW i \in 1 .. Len(offered),
           NEW t, TakenOk(t, i - 1, offered, s, m)
    PROVE  TakenOk(AddUnique(t, offered[i], s, m), i, offered, s, m)
  <1> DEFINE u == AddUnique(t, offered[i], s, m)
             x == offered[i]
             n == Len(t)
  <1>1. /\ t \in Seq(Nat) /\ n \in Nat /\ n <= m /\ n <= i - 1
        /\ \A j \in 1 .. n : t[j] < s
        /\ \A j, k \in 1 .. n : j # k => t[j] # t[k]
        /\ \A k \in 1 .. i - 1 : offered[k] < s =>
            (\E j \in 1 .. n : t[j] = offered[k]) \/ (n = m /\ k > m)
    BY DEF TakenOk
  <1>2. x \in Nat /\ i \in Nat /\ DOMAIN t = 1 .. n
    BY <1>1
  <1>3. u = IF x >= s \/ n >= m \/ \E j \in 1 .. n : t[j] = x THEN t ELSE Append(t, x)
    BY <1>2 DEF AddUnique
  <1>4. \A k \in 1 .. i : k \in 1 .. i - 1 \/ k = i
    BY <1>2
  <1>n. n = Len(t) /\ x = offered[i]
    OBVIOUS
  <1> HIDE DEF n, x
  <1>5. CASE x >= s \/ n >= m \/ \E j \in 1 .. n : t[j] = x
    <2>1. u = t
      BY <1>3, <1>5
    <2>2. ASSUME NEW k \in 1 .. i, offered[k] < s
          PROVE  (\E j \in 1 .. n : t[j] = offered[k]) \/ (n = m /\ k > m)
      <3>1. CASE k \in 1 .. i - 1
        BY <1>1, <2>2, <3>1
      <3>2. CASE k = i
        <4>1. ~(x >= s)
          BY <1>2, <1>n, <2>2, <3>2
        <4>2. CASE n >= m
          <5>1. n = m /\ k > m
            BY <1>1, <1>2, <3>2, <4>2
          <5>2. QED
            BY <5>1
        <4>3. CASE \E j \in 1 .. n : t[j] = x
          BY <1>n, <3>2, <4>3
        <4>4. QED
          BY <1>5, <4>1, <4>2, <4>3
      <3>3. QED
        BY <1>4, <3>1, <3>2
    <2>3. n <= i
      BY <1>1, <1>2
    <2>4. TakenOk(t, i, offered, s, m)
      BY <1>1, <1>n, <2>2, <2>3 DEF TakenOk
    <2>5. QED
      BY <2>1, <2>4
  <1>6. CASE ~(x >= s \/ n >= m \/ \E j \in 1 .. n : t[j] = x)
    <2>1. u = Append(t, x)
      BY <1>3, <1>6
    <2> HIDE DEF u
    <2>2. u \in Seq(Nat) /\ Len(u) = n + 1 /\ (\A j \in 1 .. n : u[j] = t[j]) /\ u[n + 1] = x
      <3>1. /\ Append(t, x) \in Seq(Nat) /\ Len(Append(t, x)) = Len(t) + 1
            /\ \A j \in 1 .. Len(t) : Append(t, x)[j] = t[j]
            /\ Append(t, x)[Len(t) + 1] = x
        BY <1>1, <1>2, AppendProperties
      <3>2. QED
        BY <1>n, <2>1, <3>1
    <2>3. n + 1 <= m /\ n + 1 <= i /\ \A j \in 1 .. n + 1 : j \in 1 .. n \/ j = n + 1
      BY <1>1, <1>2, <1>6
    <2>4. x < s
      BY <1>2, <1>6
    <2>5. ASSUME NEW j \in 1 .. n + 1 PROVE u[j] < s
      BY <1>1, <2>2, <2>3, <2>4
    <2>6. ASSUME NEW j \in 1 .. n + 1, NEW k \in 1 .. n + 1, j # k PROVE u[j] # u[k]
      BY <1>1, <1>6, <2>2, <2>3, <2>6
    <2>7. ASSUME NEW k \in 1 .. i, offered[k] < s
          PROVE  (\E j \in 1 .. n + 1 : u[j] = offered[k]) \/ (n + 1 = m /\ k > m)
      <3>1. CASE k \in 1 .. i - 1
        <4>1. n # m
          BY <1>1, <2>3
        <4>2. PICK j \in 1 .. n : t[j] = offered[k]
          BY <1>1, <2>7, <3>1, <4>1
        <4>3. j \in 1 .. n + 1 /\ u[j] = offered[k]
          BY <1>1, <2>2, <4>2
        <4>4. QED
          BY <4>3
      <3>2. CASE k = i
        <4>1. n + 1 \in 1 .. n + 1
          BY <1>1
        <4>2. QED
          BY <1>n, <2>2, <3>2, <4>1
      <3>3. QED
        BY <1>4, <3>1, <3>2
    <2>8. TakenOk(u, i, offered, s, m)
      BY <2>2, <2>3, <2>5, <2>6, <2>7 DEF TakenOk
    <2>9. QED
      BY <2>8 DEF u
  <1>7. QED
    BY <1>5, <1>6

\* The equations of the loop.
LEMMA TakenStep ==
    ASSUME NEW offered \in Seq(Nat), NEW s \in Nat, NEW m \in Nat
    PROVE  /\ Taken(offered, s, m)[0] = <<>>
           /\ \A i \in 1 .. Len(offered) :
                Taken(offered, s, m)[i] = AddUnique(Taken(offered, s, m)[i - 1], offered[i], s, m)
  <1> DEFINE n == Len(offered)
             F(f) == [i \in 0 .. n |-> IF i = 0 THEN <<>> ELSE AddUnique(f[i - 1], offered[i], s, m)]
             step == [x \in (1 .. n) \X Seq(Nat) |-> AddUnique(x[2], offered[x[1]], s, m)]
  <1>1. n \in Nat
    OBVIOUS
  <1>2. step \in [(1 .. n) \X Seq(Nat) -> Seq(Nat)]
    <2> SUFFICES ASSUME NEW x \in (1 .. n) \X Seq(Nat) PROVE AddUnique(x[2], offered[x[1]], s, m) \in Seq(Nat)
      OBVIOUS
    <2>1. x[1] \in 1 .. n /\ x[2] \in Seq(Nat) /\ offered[x[1]] \in Nat
      OBVIOUS
    <2>2. QED
      BY <2>1, AppendProperties DEF AddUnique
  <1>3. \A i \in 1 .. n : \A t \in Seq(Nat) : step[<<i, t>>] = AddUnique(t, offered[i], s, m)
    OBVIOUS
  <1>4. <<>> \in Seq(Nat)
    OBVIOUS
  <1> HIDE DEF step
  <1>5. PICK f : IsFold(f, n, Seq(Nat), <<>>, step)
    BY <1>1, <1>2, <1>4, FoldExists
  <1>6. f \in [0 .. n -> Seq(Nat)] /\ f[0] = <<>> /\ \A i \in 1 .. n : f[i] = step[<<i, f[i - 1]>>]
    BY <1>5 DEF IsFold
  <1>7. ASSUME NEW i \in 1 .. n PROVE f[i] = AddUnique(f[i - 1], offered[i], s, m)
    <2>1. i - 1 \in 0 .. n
      BY <1>1
    <2>2. f[i - 1] \in Seq(Nat)
      BY <1>6, <2>1
    <2>3. QED
      BY <1>3, <1>6, <2>2
  <1>8. f = F(f)
    <2>1. \A i \in 0 .. n : i = 0 \/ i \in 1 .. n
      BY <1>1
    <2>2. \A i \in 0 .. n : f[i] = IF i = 0 THEN <<>> ELSE AddUnique(f[i - 1], offered[i], s, m)
      BY <1>6, <1>7, <2>1
    <2>3. QED
      BY <1>6, <2>2
  <1>9. Taken(offered, s, m) = F(Taken(offered, s, m))
    BY <1>8 DEF Taken
  <1> DEFINE g == Taken(offered, s, m)
  <1>10. g = F(g)
    BY <1>9
  <1> HIDE DEF g
  <1>11. g[0] = <<>>
    <2>1. 0 \in 0 .. n
      BY <1>1
    <2>2. QED
      BY <1>10, <2>1
  <1>12. ASSUME NEW i \in 1 .. n PROVE g[i] = AddUnique(g[i - 1], offered[i], s, m)
    <2>1. i \in 0 .. n /\ i # 0
      BY <1>1
    <2>2. QED
      BY <1>10, <2>1
  <1>13. QED
    BY <1>11, <1>12 DEF g

\* What select() has taken in the end.
LEMMA TakenIsOk ==
    ASSUME NEW offered \in Seq(Nat), NEW s \in Nat, NEW m \in Nat
    PROVE  TakenOk(Taken(offered, s, m)[Len(offered)], Len(offered), offered, s, m)
  <1> DEFINE g == Taken(offered, s, m)
             n == Len(offered)
             bad == {i \in 0 .. n : ~TakenOk(g[i], i, offered, s, m)}
  <1>0. n \in Nat
    OBVIOUS
  <1>1. g[0] = <<>> /\ \A i \in 1 .. n : g[i] = AddUnique(g[i - 1], offered[i], s, m)
    BY TakenStep
  <1> HIDE DEF g
  <1>2. CASE bad = {}
    BY <1>0, <1>2 DEF g
  <1>3. CASE bad # {}
    <2>1. PICK k \in bad : \A j \in bad : k <= j
      <3>1. bad \in SUBSET Nat
        OBVIOUS
      <3> HIDE DEF bad
      <3>2. QED
        BY <1>3, <3>1, Smallest
    <2>2. CASE k = 0
      <3>1. TakenOk(<<>>, 0, offered, s, m)
        BY DEF TakenOk
      <3>2. QED
        BY <1>1, <2>1, <2>2, <3>1
    <2>3. CASE k # 0
      <3>1. k \in 1 .. n /\ k - 1 \in 0 .. n /\ k - 1 \notin bad
        BY <1>0, <2>1, <2>3
      <3>2. TakenOk(g[k - 1], k - 1, offered, s, m)
        BY <3>1
      <3>3. TakenOk(AddUnique(g[k - 1], offered[k], s, m), k, offered, s, m)
        BY <3>1, <3>2, AddKeeps
      <3>4. QED
        BY <1>1, <2>1, <3>1, <3>3
    <2>4. QED
      BY <2>2, <2>3
  <1>4. QED
    BY <1>2, <1>3

\* The quarters of a range.
LEMMA QuartersAre ==
    ASSUME NEW last \in 0 .. Largest
    PROVE  /\ Quarters(last) \in Seq(Nat) /\ Len(Quarters(last)) = 3
           /\ \A k \in 1 .. 3 : Quarters(last)[k] = (k * last) \div 4 /\ Quarters(last)[k] <= last
  <1>0. last \in Nat /\ Largest \in Nat /\ 99 * 83 <= Largest
    BY Words, ArithmeticAssumption
  <1>1. \A n, d \in {1, 2, 3, 4} : n <= d => FractionOf(last, n, d) = (last * n) \div d
    <2> SUFFICES ASSUME NEW n \in {1, 2, 3, 4}, NEW d \in {1, 2, 3, 4}, n <= d
                 PROVE  FractionOf(last, n, d) = (last * n) \div d
      OBVIOUS
    <2>1. n \in Nat /\ d \in Nat \ {0} /\ (d - 1) * n <= Largest
      BY <1>0
    <2>2. QED
      BY <1>0, <2>1, SplitProduct DEF FractionOf
  <1>2. /\ FractionOf(last, 1, 4) = (last * 1) \div 4
        /\ FractionOf(last, 1, 2) = (last * 1) \div 2
        /\ FractionOf(last, 3, 4) = (last * 3) \div 4
    BY <1>1
  <1>3. /\ (last * 1) \div 4 = (1 * last) \div 4 /\ (last * 1) \div 2 = (2 * last) \div 4
        /\ (last * 3) \div 4 = (3 * last) \div 4
    BY <1>0
  <1>4. \A k \in 1 .. 3 : (k * last) \div 4 \in Nat /\ (k * last) \div 4 <= last
    BY <1>0
  <1> DEFINE q1 == (1 * last) \div 4
             q2 == (2 * last) \div 4
             q3 == (3 * last) \div 4
  <1>5. Quarters(last) = <<q1, q2, q3>>
    BY <1>2, <1>3 DEF Quarters
  <1>6. q1 \in Nat /\ q2 \in Nat /\ q3 \in Nat /\ q1 <= last /\ q2 <= last /\ q3 <= last
    BY <1>4
  <1>7. ASSUME NEW k \in 1 .. 3
        PROVE  (k = 1 /\ (k * last) \div 4 = q1) \/ (k = 2 /\ (k * last) \div 4 = q2) \/ (k = 3 /\ (k * last) \div 4 = q3)
    <2>1. k = 1 \/ k = 2 \/ k = 3
      OBVIOUS
    <2>2. QED
      BY <2>1
  <1> HIDE DEF q1, q2, q3
  <1>8. <<q1, q2, q3>> \in Seq(Nat) /\ Len(<<q1, q2, q3>>) = 3
    BY <1>6
  <1>9. QED
    BY <1>5, <1>6, <1>7, <1>8

\* w has the elements of u and then those of v.
IsJoin(w, u, v, S) ==
    /\ w \in Seq(S) /\ Len(w) = Len(u) + Len(v)
    /\ \A i \in 1 .. Len(u) : w[i] = u[i]
    /\ \A i \in 1 .. Len(v) : w[Len(u) + i] = v[i]

\* Two sequences one after the other.
LEMMA Joined ==
    ASSUME NEW S, NEW u \in Seq(S), NEW v \in Seq(S)
    PROVE  IsJoin(u \o v, u, v, S)
  <1> DEFINE m == Len(u)
             n == Len(v)
  <1>0. m \in Nat /\ n \in Nat
    OBVIOUS
  <1>1. /\ u \o v \in Seq(S) /\ Len(u \o v) = Len(u) + Len(v)
        /\ \A i \in 1 .. Len(u) + Len(v) : (u \o v)[i] = IF i <= Len(u) THEN u[i] ELSE v[i - Len(u)]
    BY ConcatProperties
  <1>2. /\ u \o v \in Seq(S) /\ Len(u \o v) = m + n
        /\ \A i \in 1 .. m + n : (u \o v)[i] = IF i <= m THEN u[i] ELSE v[i - m]
    BY <1>1
  <1>3. ASSUME NEW i \in 1 .. m PROVE (u \o v)[i] = u[i]
    <2>1. i \in 1 .. m + n /\ i <= m
      BY <1>0
    <2>2. QED
      BY <1>2, <2>1
  <1>4. ASSUME NEW i \in 1 .. n PROVE (u \o v)[m + i] = v[i]
    <2> DEFINE k == m + i
    <2>1. k \in 1 .. m + n /\ ~(k <= m) /\ k - m = i
      BY <1>0
    <2> HIDE DEF k
    <2>2. (u \o v)[k] = v[i]
      BY <1>2, <2>1
    <2>3. QED
      BY <2>2 DEF k
  <1>5. QED
    BY <1>2, <1>3, <1>4 DEF IsJoin

\* What select() offers: the first three, the quarters, and every position.
LEMMA CandidatesAre ==
    ASSUME NEW s \in 1 .. Largest, NEW d \in Seq(Nat)
    PROVE  /\ Candidates(s, d) \in Seq(Nat) /\ Len(Candidates(s, d)) = 6 + Len(d) + s
           /\ \A k \in 1 .. 3 : Candidates(s, d)[k] = k - 1
           /\ \A k \in 1 .. 3 : Candidates(s, d)[3 + k] = (k * (s - 1)) \div 4
           /\ \A k \in 1 .. s : Candidates(s, d)[6 + Len(d) + k] = k - 1
  <1> DEFINE first == <<0, 1, 2>>
             quarters == Quarters(s - 1)
             drawn == [k \in DOMAIN d |-> d[k] % s]
             every == [k \in 1 .. s |-> k - 1]
             c == Candidates(s, d)
             n == Len(d)
  <1>0. s \in Nat \ {0} /\ s - 1 \in 0 .. Largest /\ n \in Nat
    BY Words
  <1>1. first \in Seq(Nat) /\ Len(first) = 3 /\ \A k \in 1 .. 3 : first[k] = k - 1
    OBVIOUS
  <1>2. /\ quarters \in Seq(Nat) /\ Len(quarters) = 3
        /\ \A k \in 1 .. 3 : quarters[k] = (k * (s - 1)) \div 4
    BY <1>0, QuartersAre
  <1>3. drawn \in Seq(Nat) /\ Len(drawn) = n
    <2>1. DOMAIN d = 1 .. n /\ \A k \in 1 .. n : d[k] \in Nat
      OBVIOUS
    <2>2. \A k \in 1 .. n : d[k] % s \in Nat
      BY <1>0, <2>1
    <2>3. drawn \in [1 .. n -> Nat]
      BY <2>1, <2>2
    <2>4. QED
      BY <1>0, <2>3
  <1>4. every \in Seq(Nat) /\ Len(every) = s /\ \A k \in 1 .. s : every[k] = k - 1
    <2>1. every \in [1 .. s -> Nat]
      BY <1>0
    <2>2. QED
      BY <1>0, <2>1
  <1>5. c = ((first \o quarters) \o drawn) \o every
    BY DEF Candidates
  <1> HIDE DEF first, quarters, drawn, every, c, n
  <1> DEFINE x == first \o quarters
             y == x \o drawn
  <1>6. /\ x \in Seq(Nat) /\ Len(x) = 3 + 3
        /\ \A i \in 1 .. 3 : x[i] = first[i]
        /\ \A i \in 1 .. 3 : x[3 + i] = quarters[i]
    <2>1. /\ x \in Seq(Nat) /\ Len(x) = Len(first) + Len(quarters)
          /\ \A i \in 1 .. Len(first) : x[i] = first[i]
          /\ \A i \in 1 .. Len(quarters) : x[Len(first) + i] = quarters[i]
      <3>1. IsJoin(x, first, quarters, Nat)
        BY <1>1, <1>2, Joined
      <3> HIDE DEF x
      <3>2. QED
        BY <3>1 DEF IsJoin
    <2> HIDE DEF x
    <2>2. QED
      BY <1>1, <1>2, <2>1
  <1> HIDE DEF x
  <1>7. y \in Seq(Nat) /\ Len(y) = 6 + n /\ \A i \in 1 .. 6 : y[i] = x[i]
    <2>1. Len(x) = 6
      BY <1>6
    <2>2. y \in Seq(Nat) /\ Len(y) = Len(x) + Len(drawn) /\ \A i \in 1 .. Len(x) : y[i] = x[i]
      <3>1. IsJoin(y, x, drawn, Nat)
        BY <1>3, <1>6, Joined
      <3> HIDE DEF y
      <3>2. QED
        BY <3>1 DEF IsJoin
    <2> HIDE DEF y
    <2>3. QED
      BY <1>3, <2>1, <2>2
  <1> HIDE DEF y
  <1>8. c = y \o every
    BY <1>5 DEF x, y
  <1>9. /\ c \in Seq(Nat) /\ Len(c) = (6 + n) + s
        /\ \A i \in 1 .. 6 + n : c[i] = y[i]
        /\ \A i \in 1 .. s : c[(6 + n) + i] = every[i]
    <2>1. /\ c \in Seq(Nat) /\ Len(c) = Len(y) + Len(every)
          /\ \A i \in 1 .. Len(y) : c[i] = y[i]
          /\ \A i \in 1 .. Len(every) : c[Len(y) + i] = every[i]
      <3>1. IsJoin(c, y, every, Nat)
        BY <1>4, <1>7, <1>8, Joined
      <3>2. QED
        BY <3>1 DEF IsJoin
    <2>2. QED
      BY <1>4, <1>7, <2>1
  <1>10. \A k \in 1 .. 3 : k \in 1 .. 6 /\ 3 + k \in 1 .. 6 /\ k \in 1 .. 6 + n /\ 3 + k \in 1 .. 6 + n
    BY <1>0
  <1>11. (6 + n) + s = 6 + n + s /\ \A k \in 1 .. s : (6 + n) + k = 6 + n + k
    BY <1>0
  <1>12. \A k \in 1 .. s : c[6 + n + k] = k - 1
    BY <1>4, <1>9, <1>11
  <1>13. (\A k \in 1 .. 3 : c[k] = k - 1) /\ \A k \in 1 .. 3 : c[3 + k] = (k * (s - 1)) \div 4
    BY <1>1, <1>2, <1>6, <1>7, <1>9, <1>10, SMTT(30)
  <1>14. QED
    BY <1>9, <1>11, <1>12, <1>13 DEF c, n

\* A sequence without repetition is as long as the set of its elements.
LEMMA LengthIsNumber ==
    ASSUME NEW T, NEW t \in Seq(T), \A j, k \in 1 .. Len(t) : j # k => t[j] # t[k]
    PROVE  /\ IsFiniteSet({t[i] : i \in DOMAIN t})
           /\ Cardinality({t[i] : i \in DOMAIN t}) = Len(t)
  <1> DEFINE n == Len(t)
             S == {t[i] : i \in DOMAIN t}
  <1>1. n \in Nat /\ DOMAIN t = 1 .. n
    OBVIOUS
  <1>2. \A i \in 1 .. n : t[i] \in S
    BY <1>1
  <1>3. \A x \in S : \E i \in 1 .. n : t[i] = x
    BY <1>1
  <1>4. t \in [1 .. n -> S]
    <2> HIDE DEF S
    <2>1. t = [i \in 1 .. n |-> t[i]]
      OBVIOUS
    <2>2. QED
      BY <1>2, <2>1
  <1> HIDE DEF S, n
  <1>5. t \in Injection(1 .. n, S) /\ t \in Surjection(1 .. n, S)
    BY <1>3, <1>4 DEF Injection, IsInjective, Surjection, n
  <1>6. IsFiniteSet(1 .. n) /\ Cardinality(1 .. n) = n
    <2>1. 1 \in Int /\ n \in Int
      BY <1>1
    <2>2. IsFiniteSet(1 .. n) /\ Cardinality(1 .. n) = IF 1 > n THEN 0 ELSE n - 1 + 1
      BY <2>1, FS_Interval
    <2>3. QED
      BY <1>1, <2>2
  <1>7. IsFiniteSet(S) /\ Cardinality(S) = Cardinality(1 .. n)
    BY <1>5, <1>6, FS_Surjection
  <1>8. QED
    BY <1>6, <1>7 DEF S, n

\* What is chosen of s safe positions when m are asked for.
IsSpread(chosen, s, m) ==
    LET found == {chosen[i] : i \in DOMAIN chosen}
    IN  /\ chosen \in Seq(0 .. s - 1) /\ Len(chosen) = Lesser(m, s)
        /\ found \subseteq 0 .. s - 1
        /\ \A i \in 2 .. Len(chosen) : chosen[i - 1] < chosen[i]
        /\ m >= 3 => 0 .. Lesser(3, s) - 1 \subseteq found
        /\ m >= 6 => {(k * (s - 1)) \div 4 : k \in 1 .. 3} \subseteq found

\* BBPSamplePolicy::select(), for any number of safe positions, any number of
\* samples and whatever is drawn from the identity: exactly as many different
\* positions as asked for or as there are, in ascending order, with the first
\* three and the quarters if there is room.
THEOREM SelectionIsSpread ==
    ASSUME NEW s \in 1 .. Largest, NEW m \in Nat \ {0}, NEW d \in Seq(Nat)
    PROVE  IsSpread(Select(s, m, d), s, m)
  <1> DEFINE offered == Candidates(s, d)
             n == Len(d)
             t == Taken(offered, s, m)[Len(offered)]
             S == {t[i] : i \in DOMAIN t}
             chosen == Select(s, m, d)
  <1>0. s \in Nat \ {0} /\ n \in Nat
    BY Words
  <1>1. /\ offered \in Seq(Nat) /\ Len(offered) = 6 + n + s
        /\ \A k \in 1 .. 3 : offered[k] = k - 1
        /\ \A k \in 1 .. 3 : offered[3 + k] = (k * (s - 1)) \div 4
        /\ \A k \in 1 .. s : offered[6 + n + k] = k - 1
    BY CandidatesAre
  <1>2. chosen = Ascending(S)
    <2>1. s # 0
      BY <1>0
    <2>2. QED
      BY <2>1 DEF Select, Taken
  <1> HIDE DEF offered
  <1>3. TakenOk(t, Len(offered), offered, s, m)
    BY <1>0, <1>1, TakenIsOk
  <1> DEFINE total == Len(offered)
  <1>4. /\ t \in Seq(Nat) /\ Len(t) <= m
        /\ \A j \in 1 .. Len(t) : t[j] < s
        /\ \A j, k \in 1 .. Len(t) : j # k => t[j] # t[k]
        /\ \A k \in 1 .. total : offered[k] < s =>
            (\E j \in 1 .. Len(t) : t[j] = offered[k]) \/ (Len(t) = m /\ k > m)
    BY <1>3 DEF TakenOk
  <1>t. total = 6 + n + s
    BY <1>1
  <1> HIDE DEF t, total
  <1>5. Len(t) \in Nat /\ DOMAIN t = 1 .. Len(t) /\ \A j \in 1 .. Len(t) : t[j] \in Nat /\ t[j] \in S
    BY <1>4
  <1>6. IsFiniteSet(S) /\ Cardinality(S) = Len(t)
    BY <1>4, LengthIsNumber
  <1>7. S \subseteq 0 .. s - 1
    <2>1. ASSUME NEW j \in 1 .. Len(t) PROVE t[j] \in 0 .. s - 1
      <3>1. t[j] \in Nat /\ t[j] < s
        BY <1>4, <1>5
      <3>2. QED
        BY <1>0, <3>1
    <2>2. QED
      BY <1>5, <2>1
  <1>8. ASSUME NEW k \in 1 .. total, offered[k] < s, k <= m \/ Len(t) # m PROVE offered[k] \in S
    <2>1. m \in Nat /\ k \in Nat
      BY <1>0, <1>t
    <2>2. PICK j \in 1 .. Len(t) : t[j] = offered[k]
      BY <1>4, <1>8, <2>1
    <2>3. QED
      BY <1>5, <2>2
  <1> HIDE DEF S
  <1>9. Len(t) = Lesser(m, s)
    <2>1. IsFiniteSet(0 .. s - 1) /\ Cardinality(0 .. s - 1) = s
      <3>1. 0 \in Int /\ s - 1 \in Int
        BY <1>0
      <3>2. IsFiniteSet(0 .. s - 1) /\ Cardinality(0 .. s - 1) = IF 0 > s - 1 THEN 0 ELSE s - 1 - 0 + 1
        BY <3>1, FS_Interval
      <3>3. QED
        BY <1>0, <3>2
    <2>2. Cardinality(S) <= s
      BY <1>7, <2>1, FS_Subset
    <2>3. CASE Len(t) = m
      BY <1>0, <1>6, <2>2, <2>3 DEF Lesser
    <2>4. CASE Len(t) # m
      <3>1. ASSUME NEW x \in 0 .. s - 1 PROVE x \in S
        <4> DEFINE k == 6 + n + (x + 1)
        <4>1. x + 1 \in 1 .. s /\ (x + 1) - 1 = x /\ k \in 1 .. total
          BY <1>0, <1>t
        <4>2. offered[k] = x
          <5> DEFINE y == x + 1
          <5>1. y \in 1 .. s /\ y - 1 = x
            BY <4>1
          <5> HIDE DEF y
          <5>2. offered[6 + n + y] = y - 1
            BY <1>1, <5>1
          <5>3. QED
            BY <5>1, <5>2 DEF y
        <4> HIDE DEF k
        <4>3. x < s
          BY <1>0
        <4>4. QED
          BY <1>8, <2>4, <4>1, <4>2, <4>3
      <3>2. S = 0 .. s - 1
        BY <1>7, <3>1
      <3>3. QED
        <4>1. Len(t) = s
          BY <1>6, <2>1, <3>2
        <4>2. QED
          BY <1>0, <1>4, <2>4, <4>1 DEF Lesser
    <2>5. QED
      BY <2>3, <2>4
  <1>10. /\ chosen \in Seq(S) /\ Len(chosen) = Cardinality(S)
         /\ {chosen[i] : i \in 1 .. Cardinality(S)} = S
         /\ \A i \in 2 .. Cardinality(S) : chosen[i - 1] < chosen[i]
    <2>1. S \in SUBSET Nat
      BY <1>0, <1>7
    <2>2. QED
      BY <1>2, <1>6, <2>1, AscendingSorts
  <1> HIDE DEF chosen
  <1>11. {chosen[i] : i \in DOMAIN chosen} = S
    <2>1. DOMAIN chosen = 1 .. Cardinality(S)
      BY <1>10
    <2>2. QED
      BY <1>10, <2>1
  <1>12. ASSUME m >= 3 PROVE 0 .. Lesser(3, s) - 1 \subseteq S
    <2> SUFFICES ASSUME NEW x \in 0 .. Lesser(3, s) - 1 PROVE x \in S
      OBVIOUS
    <2> DEFINE k == x + 1
    <2>1. x \in 0 .. 2 /\ x < s
      BY <1>0 DEF Lesser
    <2>2. k \in 1 .. 3 /\ k - 1 = x /\ k \in 1 .. total /\ k <= m
      BY <1>0, <1>12, <1>t, <2>1
    <2> HIDE DEF k
    <2>3. offered[k] = x
      BY <1>1, <2>2
    <2>4. QED
      BY <1>8, <2>1, <2>2, <2>3
  <1>13. ASSUME m >= 6, NEW k \in 1 .. 3 PROVE (k * (s - 1)) \div 4 \in S
    <2> DEFINE x == (k * (s - 1)) \div 4
               j == 3 + k
    <2>1. x < s
      BY <1>0
    <2>2. j \in 1 .. total /\ j <= m
      BY <1>0, <1>13, <1>t
    <2>3. offered[j] = x
      BY <1>1
    <2> HIDE DEF x, j
    <2>4. x \in S
      BY <1>8, <2>1, <2>2, <2>3
    <2>5. QED
      BY <2>4 DEF x
  <1>14. Len(chosen) = Lesser(m, s) /\ \A i \in 2 .. Len(chosen) : chosen[i - 1] < chosen[i]
    BY <1>6, <1>9, <1>10
  <1>15. m >= 6 => {(k * (s - 1)) \div 4 : k \in 1 .. 3} \subseteq S
    BY <1>13
  <1>16. chosen \in Seq(0 .. s - 1)
    BY <1>7, <1>10, SeqMonotonic
  <1>17. IsSpread(chosen, s, m)
    BY <1>7, <1>11, <1>12, <1>14, <1>15, <1>16 DEF IsSpread
  <1>18. QED
    BY <1>17 DEF chosen

\* If the two ends of an interval have the same quotient, so has all of it.
LEMMA SameQuotient ==
    ASSUME NEW w \in Nat, NEW s \in Nat \ {0}, NEW d \in Nat \ {0}, NEW k \in -10 .. 10,
           (2 * w * s - s) \div (2 * d) = (2 * w * s + s) \div (2 * d)
    PROVE  ((20 * w + k) * s) \div (20 * d) = (2 * w * s - s) \div (2 * d)
  <1> DEFINE l == (2 * w * s - s) \div (2 * d)
             p == w * s
             e == 2 * d
  <1>0. p \in Nat /\ e \in Nat \ {0} /\ l \in Int
    OBVIOUS
  <1>1. e * l <= 2 * p - s /\ 2 * p + s < e * (l + 1)
    OBVIOUS
  <1>2. -10 * s <= k * s /\ k * s <= 10 * s
    OBVIOUS
  <1>3. (20 * w + k) * s = 20 * p + k * s
    OBVIOUS
  <1> DEFINE q == k * s
             z == 20 * p + q
             f == e * l
  <1>4. q \in Int /\ s \in Nat /\ f \in Int /\ e * (l + 1) = f + e
    BY <1>0
  <1>5. f <= 2 * p - s /\ 2 * p + s < f + e /\ -10 * s <= q /\ q <= 10 * s
    BY <1>1, <1>2, <1>4
  <1>6. (20 * w + k) * s = z /\ 20 * d = 10 * e /\ 10 * f = (10 * e) * l
    BY <1>3
  <1> HIDE DEF l, p, q, f, e
  <1>7. z \in Int /\ 10 * f <= z /\ z < 10 * f + 10 * e
    BY <1>0, <1>4, <1>5
  <1>8. z \div (10 * e) = l
    <2> DEFINE g == 10 * e
    <2>1. g \in Nat \ {0} /\ z \in Int /\ g * l <= z /\ z < g * l + g
      BY <1>0, <1>6, <1>7
    <2> HIDE DEF g, z
    <2>2. z \div g = l
      BY <1>0, <2>1
    <2>3. QED
      BY <2>2 DEF g
  <1>9. QED
    BY <1>6, <1>8 DEF l

\* Samples are spread and digits determined, for any draws, number of samples
\* and size of the range.
LEMMA SamplesSound ==
    ASSUME CountInv
    PROVE  SamplesAreSound
  <1>0. word \in 0 .. Largest /\ word \in Nat
    BY Words DEF CountInv
  <1>1. SamplesAreSpread
    <2> SUFFICES ASSUME word \in 1 .. MaxSafeCount, NEW m \in 1 .. MaxSamples, NEW d \in Draws
                 PROVE  IsSpread(Select(word, m, d), word, m)
      BY DEF SamplesAreSpread, IsSpread
    <2>1. MaxSamples \in Nat /\ MaxSafeCount \in Nat /\ d \in Seq(0 .. Largest)
      BY ArithmeticAssumption
    <2>2. d \in Seq(Nat)
      <3>1. 0 .. Largest \subseteq Nat
        BY Words
      <3>2. QED
        BY <2>1, <3>1, SeqMonotonic
    <2>3. m \in Nat \ {0} /\ word \in 1 .. Largest
      BY <1>0, <2>1
    <2>4. QED
      BY <2>2, <2>3, SelectionIsSpread
  <1>2. ASSUME NEW n \in 1 .. 3, NEW position \in 0 .. 1, NEW k \in -10 .. 10,
               Extract(word, n, position) # Unresolved
        PROVE  ((20 * word + k) * Power(16, position + 1)) \div (20 * Power(10, n)) % 16
                    = Extract(word, n, position)
    <2> DEFINE s == Power(16, position + 1)
               d == Power(10, n)
    <2>1. s \in Nat \ {0} /\ d \in Nat \ {0}
      <3>1. position + 1 \in Nat /\ n \in Nat /\ {16, 10} \subseteq Nat \ {0, 1}
        OBVIOUS
      <3>2. QED
        BY <3>1, PowerGrows
    <2> DEFINE lower == (2 * word * s - s) \div (2 * d)
               upper == (2 * word * s + s) \div (2 * d)
    <2>2. Extract(word, n, position) = IF lower = upper THEN lower % 16 ELSE Unresolved
      BY DEF Extract
    <2> HIDE DEF s, d
    <2>3. lower = upper /\ Extract(word, n, position) = lower % 16
      BY <1>2, <2>2
    <2>4. ((20 * word + k) * s) \div (20 * d) = lower
      BY <1>0, <2>1, <2>3, SameQuotient
    <2>5. QED
      BY <2>3, <2>4 DEF s, d
  <1>3. DigitsAreNotGuessed
    BY <1>2 DEF DigitsAreNotGuessed
  <1>4. QED
    BY <1>1, <1>3 DEF SamplesAreSound

\* The sampled check looks at positions that are spread over the safe range,
\* exactly as many as there should be, and never guesses a digit.
THEOREM SamplesStaySound == CountSpec => []SamplesAreSound
  <1>1. CountInit => CountInv
    BY Words DEF CountInit, CountInv
  <1>2. CountInv /\ [CountNext]_word => CountInv'
    BY Words DEF CountInv, CountNext
  <1>3. CountInv => SamplesAreSound
    BY SamplesSound
  <1>4. QED
    BY <1>1, <1>2, <1>3, PTL DEF CountSpec
-----------------------------------------------------------------------------
(* The bytes of a versioned index.                                         *)

EntryType == [serial : Nat, format : Formats, timestamp : Nat]

IndexType == [Ids -> Seq(EntryType)]

FieldType == [kind : {"identities", "count"}, value : Nat] \cup [kind : {"identity"}, value : Ids]
                \cup [kind : {"version"}, value : EntryType]

\* What serialize() has written after the first identities.
UpTo(f) ==
    CHOOSE u : u = [i \in 0 .. Len(Chunks) |->
                      IF i = 0 THEN <<>> ELSE u[i - 1] \o SavedIdentity(Chunks[i], f[Chunks[i]])]

\* The identity c with its versions is at a place of the bytes.
Placed(bytes, at, c, own) ==
    /\ bytes[at] = Field("identity", c)
    /\ bytes[at + 1] = Field("count", Len(own) % CountLimit)
    /\ \A k \in 1 .. Len(own) : bytes[(at + 1) + k] = Field("version", own[k])

\* The map has each identity once.
LEMMA TheChunks ==
    /\ Len(Chunks) \in Nat /\ DOMAIN Chunks = 1 .. Len(Chunks)
    /\ Ids = {Chunks[i] : i \in 1 .. Len(Chunks)}
    /\ \A i \in 1 .. Len(Chunks) : Chunks[i] \in Ids
    /\ \A i, j \in 1 .. Len(Chunks) : i # j => Chunks[i] # Chunks[j]
  <1>1. Chunks \in Seq(Ids)
    BY IndexAssumption DEF Ids
  <1>2. Len(Chunks) \in Nat /\ DOMAIN Chunks = 1 .. Len(Chunks)
    BY <1>1
  <1>3. QED
    BY <1>2, IndexAssumption DEF Ids

\* Each kind of field holds what belongs to it.
LEMMA FieldsAre ==
    /\ \A n \in Nat : Field("identities", n) \in FieldType /\ Field("count", n) \in FieldType
    /\ \A c \in Ids : Field("identity", c) \in FieldType
    /\ \A e \in EntryType : Field("version", e) \in FieldType
  BY DEF Field, FieldType

\* What is saved of one identity.
LEMMA SavedIdentityIs ==
    ASSUME NEW c \in Ids, NEW own \in Seq(EntryType)
    PROVE  /\ SavedIdentity(c, own) \in Seq(FieldType)
           /\ own = <<>> => Len(SavedIdentity(c, own)) = 0 /\ SavedIdentity(c, own) = <<>>
           /\ own # <<>> => Len(SavedIdentity(c, own)) = 2 + Len(own) /\ Placed(SavedIdentity(c, own), 1, c, own)
  <1>1. CASE own = <<>>
    BY <1>1 DEF SavedIdentity
  <1>2. CASE own # <<>>
    <2> DEFINE n == Len(own)
               one == Field("identity", c)
               two == Field("count", n % CountLimit)
               head == <<one, two>>
               rest == [i \in DOMAIN own |-> Field("version", own[i])]
               s == SavedIdentity(c, own)
    <2>1. n \in Nat /\ DOMAIN own = 1 .. n /\ \A i \in 1 .. n : own[i] \in EntryType
      OBVIOUS
    <2>2. n % CountLimit \in Nat
      BY <2>1, IndexAssumption
    <2>3. one \in FieldType /\ two \in FieldType /\ \A i \in 1 .. n : Field("version", own[i]) \in FieldType
      BY <2>1, <2>2, FieldsAre
    <2>4. s = head \o rest
      BY <1>2 DEF SavedIdentity
    <2>5. rest \in [1 .. n -> FieldType] /\ \A i \in 1 .. n : rest[i] = Field("version", own[i])
      BY <2>1, <2>3
    <2> HIDE DEF one, two, rest, n, s
    <2>6. head \in Seq(FieldType) /\ Len(head) = 2 /\ head[1] = one /\ head[2] = two
      BY <2>3
    <2>7. rest \in Seq(FieldType) /\ Len(rest) = n
      BY <2>1, <2>5
    <2> HIDE DEF head
    <2>8. IsJoin(s, head, rest, FieldType)
      BY <2>4, <2>6, <2>7, Joined
    <2>9. /\ s \in Seq(FieldType) /\ Len(s) = 2 + n
          /\ s[1] = one /\ s[2] = two
          /\ \A i \in 1 .. n : s[2 + i] = Field("version", own[i])
      <3>1. /\ s \in Seq(FieldType) /\ Len(s) = 2 + n
            /\ \A i \in 1 .. 2 : s[i] = head[i]
            /\ \A i \in 1 .. n : s[2 + i] = rest[i]
        BY <2>6, <2>7, <2>8 DEF IsJoin
      <3>2. QED
        BY <2>5, <2>6, <3>1
    <2>10. Placed(s, 1, c, own)
      BY <2>9 DEF Placed, one, two, n
    <2>11. QED
      BY <1>2, <2>9, <2>10 DEF s, n
  <1>3. QED
    BY <1>1, <1>2

\* What is placed in a sequence stays in its place when something follows, and
\* moves when something precedes.
LEMMA PlacedStays ==
    ASSUME NEW u \in Seq(FieldType), NEW v \in Seq(FieldType), NEW at \in Nat \ {0}, NEW c,
           NEW own \in Seq(EntryType), Placed(u, at, c, own), at + 1 + Len(own) <= Len(u)
    PROVE  Placed(u \o v, at, c, own)
  <1> DEFINE w == u \o v
  <1>1. IsJoin(w, u, v, FieldType)
    BY Joined
  <1> HIDE DEF w
  <1>2. \A i \in 1 .. Len(u) : w[i] = u[i]
    BY <1>1 DEF IsJoin
  <1>3. Len(own) \in Nat /\ Len(u) \in Nat
    OBVIOUS
  <1>4. at \in 1 .. Len(u) /\ at + 1 \in 1 .. Len(u) /\ \A k \in 1 .. Len(own) : (at + 1) + k \in 1 .. Len(u)
    BY <1>3
  <1>5. Placed(w, at, c, own)
    BY <1>2, <1>4 DEF Placed
  <1>6. QED
    BY <1>5 DEF w

\* Bytes that are put in front move an identity back.
LEMMA PlacedMoves ==
    ASSUME NEW u \in Seq(FieldType), NEW v \in Seq(FieldType), NEW at \in Nat \ {0}, NEW c,
           NEW own \in Seq(EntryType), Placed(v, at, c, own), at + 1 + Len(own) <= Len(v)
    PROVE  Placed(u \o v, Len(u) + at, c, own)
  <1> DEFINE w == u \o v
             n == Len(u)
             b == n + at
  <1>1. IsJoin(w, u, v, FieldType)
    BY Joined
  <1> HIDE DEF w
  <1>2. \A i \in 1 .. Len(v) : w[n + i] = v[i]
    BY <1>1 DEF IsJoin
  <1>3. Len(own) \in Nat /\ n \in Nat /\ Len(v) \in Nat
    OBVIOUS
  <1> HIDE DEF n
  <1>4. w[n + at] = v[at]
    BY <1>2, <1>3
  <1>5. w[b + 1] = v[at + 1]
    <2> DEFINE i == at + 1
    <2>1. i \in 1 .. Len(v) /\ b + 1 = n + i
      BY <1>3
    <2> HIDE DEF i
    <2>2. w[n + i] = v[i]
      BY <1>2, <2>1
    <2>3. QED
      BY <2>1, <2>2 DEF i
  <1>6. ASSUME NEW k \in 1 .. Len(own) PROVE w[(b + 1) + k] = v[(at + 1) + k]
    <2> DEFINE i == (at + 1) + k
    <2>1. i \in 1 .. Len(v) /\ (b + 1) + k = n + i
      BY <1>3
    <2> HIDE DEF i
    <2>2. w[n + i] = v[i]
      BY <1>2, <2>1
    <2>3. QED
      BY <2>1, <2>2 DEF i
  <1>7. Placed(w, b, c, own)
    <2> HIDE DEF b
    <2>1. w[b] = v[at]
      BY <1>4 DEF b
    <2>2. QED
      BY <1>5, <1>6, <2>1 DEF Placed
  <1>8. QED
    BY <1>7 DEF w, n

\* The equations of serialize().
LEMMA UpToStep ==
    ASSUME NEW f \in IndexType
    PROVE  /\ UpTo(f) \in [0 .. Len(Chunks) -> Seq(FieldType)] /\ UpTo(f)[0] = <<>>
           /\ \A i \in 1 .. Len(Chunks) :
                UpTo(f)[i] = UpTo(f)[i - 1] \o SavedIdentity(Chunks[i], f[Chunks[i]])
  <1> DEFINE n == Len(Chunks)
             R == Seq(FieldType)
             part(i) == SavedIdentity(Chunks[i], f[Chunks[i]])
             F(u) == [i \in 0 .. n |-> IF i = 0 THEN <<>> ELSE u[i - 1] \o part(i)]
             step == [x \in (1 .. n) \X R |-> x[2] \o part(x[1])]
  <1>1. n \in Nat
    BY TheChunks
  <1>2. \A i \in 1 .. n : part(i) \in R
    <2> SUFFICES ASSUME NEW i \in 1 .. n PROVE part(i) \in R
      OBVIOUS
    <2>1. Chunks[i] \in Ids
      BY TheChunks
    <2>2. f[Chunks[i]] \in Seq(EntryType)
      BY <2>1 DEF IndexType
    <2>3. QED
      BY <2>1, <2>2, SavedIdentityIs
  <1>3. step \in [(1 .. n) \X R -> R] /\ \A i \in 1 .. n, u \in R : step[<<i, u>>] = u \o part(i)
    <2> HIDE DEF part
    <2>1. \A x \in (1 .. n) \X R : x[2] \o part(x[1]) \in R
      BY <1>2, ConcatProperties
    <2>2. QED
      BY <2>1
  <1>4. <<>> \in R
    OBVIOUS
  <1> HIDE DEF step
  <1>5. PICK u : IsFold(u, n, R, <<>>, step)
    <2> HIDE DEF R, n
    <2>1. QED
      BY <1>1, <1>3, <1>4, FoldExists
  <1>6. u \in [0 .. n -> R] /\ u[0] = <<>> /\ \A i \in 1 .. n : u[i] = step[<<i, u[i - 1]>>]
    BY <1>5 DEF IsFold
  <1>7. ASSUME NEW i \in 1 .. n PROVE u[i] = u[i - 1] \o part(i)
    <2>1. i - 1 \in 0 .. n
      BY <1>1
    <2>2. u[i - 1] \in R
      BY <1>6, <2>1
    <2>3. QED
      BY <1>3, <1>6, <2>2
  <1>8. u = F(u)
    <2>1. \A i \in 0 .. n : i = 0 \/ i \in 1 .. n
      BY <1>1
    <2>2. \A i \in 0 .. n : u[i] = IF i = 0 THEN <<>> ELSE u[i - 1] \o part(i)
      BY <1>6, <1>7, <2>1
    <2>3. QED
      BY <1>6, <2>2
  <1>9. UpTo(f) = F(UpTo(f))
    BY <1>8 DEF UpTo
  <1> DEFINE g == UpTo(f)
  <1>10. g = F(g)
    BY <1>9
  <1> HIDE DEF g, part
  <1>11. 0 \in 0 .. n /\ \A i \in 1 .. n : i \in 0 .. n /\ i # 0
    BY <1>1
  <1>12. g[0] = <<>> /\ \A i \in 1 .. n : g[i] = g[i - 1] \o part(i)
    BY <1>10, <1>11
  <1>13. \A i \in 0 .. n : g[i] \in R
    <2> DEFINE bad == {i \in 0 .. n : g[i] \notin R}
    <2>1. CASE bad = {}
      BY <2>1
    <2>2. CASE bad # {}
      <3>1. bad \in SUBSET Nat
        OBVIOUS
      <3> HIDE DEF bad
      <3>2. PICK k \in bad : \A j \in bad : k <= j
        BY <2>2, <3>1, Smallest
      <3> USE DEF bad
      <3>0. k \in 0 .. n /\ g[k] \notin R /\ k # 0
        BY <1>4, <1>12, <3>2
      <3>3. k \in 1 .. n /\ k - 1 \in 0 .. n /\ k - 1 \notin bad
        <4> HIDE DEF bad
        <4>1. QED
          BY <1>1, <3>0, <3>2
      <3>4. g[k - 1] \in R /\ part(k) \in R
        BY <1>2, <3>3
      <3>5. g[k - 1] \o part(k) \in R
        BY <3>4, ConcatProperties
      <3>6. QED
        BY <1>12, <3>2, <3>3, <3>5
    <2>3. QED
      BY <2>1, <2>2
  <1>14. g \in [0 .. n -> R]
    BY <1>10, <1>13
  <1>15. QED
    BY <1>12, <1>14 DEF g, part

Offset(f, i) == Len(UpTo(f)[i])

\* Each identity that has versions follows those before it.
LEMMA OffsetStep ==
    ASSUME NEW f \in IndexType, NEW i \in 1 .. Len(Chunks)
    PROVE  /\ Offset(f, i - 1) \in Nat
           /\ f[Chunks[i]] = <<>> => Offset(f, i) = Offset(f, i - 1)
           /\ f[Chunks[i]] # <<>> =>
                /\ Offset(f, i) = Offset(f, i - 1) + (2 + Len(f[Chunks[i]]))
                /\ Placed(UpTo(f)[i], Offset(f, i - 1) + 1, Chunks[i], f[Chunks[i]])
  <1> DEFINE c == Chunks[i]
             own == f[c]
             s == SavedIdentity(c, own)
             u == UpTo(f)[i - 1]
  <1>1. c \in Ids /\ own \in Seq(EntryType)
    BY TheChunks DEF IndexType
  <1>2. i - 1 \in 0 .. Len(Chunks)
    BY TheChunks
  <1>3. u \in Seq(FieldType) /\ UpTo(f)[i] = u \o s
    BY <1>2, UpToStep
  <1>4. /\ s \in Seq(FieldType)
        /\ own = <<>> => Len(s) = 0
        /\ own # <<>> => Len(s) = 2 + Len(own) /\ Placed(s, 1, c, own)
    BY <1>1, SavedIdentityIs
  <1> HIDE DEF c, own, s, u
  <1>5. Len(u \o s) = Len(u) + Len(s) /\ Len(u) \in Nat
    BY <1>3, <1>4, ConcatProperties
  <1>6. ASSUME own # <<>> PROVE Placed(u \o s, Len(u) + 1, c, own)
    <2>1. 1 + 1 + Len(own) <= Len(s) /\ 1 \in Nat \ {0}
      BY <1>1, <1>4, <1>6
    <2>2. QED
      BY <1>1, <1>3, <1>4, <1>6, <2>1, PlacedMoves
  <1>7. Offset(f, i - 1) = Len(u) /\ Offset(f, i) = Len(u) + Len(s)
    BY <1>3, <1>5 DEF Offset, u
  <1>8. own = <<>> => Offset(f, i) = Offset(f, i - 1)
    BY <1>4, <1>5, <1>7
  <1>9. QED
    BY <1>3, <1>4, <1>5, <1>6, <1>7, <1>8 DEF c, own

\* Nothing that was written is moved by what follows.
LEMMA Layout ==
    ASSUME NEW f \in IndexType
    PROVE  \A i \in 0 .. Len(Chunks) :
              /\ Offset(f, i) \in Nat
              /\ \A j \in 1 .. i : f[Chunks[j]] # <<>> =>
                    /\ Placed(UpTo(f)[i], Offset(f, j - 1) + 1, Chunks[j], f[Chunks[j]])
                    /\ Offset(f, j) <= Offset(f, i)
  <1> DEFINE n == Len(Chunks)
             Ok(i) == /\ Offset(f, i) \in Nat
                      /\ \A j \in 1 .. i : f[Chunks[j]] # <<>> =>
                            /\ Placed(UpTo(f)[i], Offset(f, j - 1) + 1, Chunks[j], f[Chunks[j]])
                            /\ Offset(f, j) <= Offset(f, i)
             bad == {i \in 0 .. n : ~Ok(i)}
  <1>0. n \in Nat
    BY TheChunks
  <1>1. CASE bad = {}
    BY <1>1
  <1>2. CASE bad # {}
    <2>1. bad \in SUBSET Nat
      OBVIOUS
    <2> HIDE DEF bad
    <2>2. PICK i \in bad : \A j \in bad : i <= j
      BY <1>2, <2>1, Smallest
    <2> USE DEF bad
    <2>3. CASE i = 0
      <3>1. Offset(f, 0) = 0
        <4>1. UpTo(f)[0] = <<>> /\ Len(<<>>) = 0
          BY UpToStep
        <4>2. QED
          BY <4>1 DEF Offset
      <3>2. Ok(0)
        BY <3>1
      <3> HIDE DEF Ok
      <3>3. QED
        BY <2>2, <2>3, <3>2
    <2>4. CASE i # 0
      <3>1. i \in 1 .. n /\ i - 1 \in 0 .. n /\ i - 1 \notin bad
        BY <1>0, <2>2, <2>4
      <3>2. Ok(i - 1)
        BY <3>1
      <3>3. /\ Offset(f, i - 1) \in Nat
            /\ f[Chunks[i]] = <<>> => Offset(f, i) = Offset(f, i - 1)
            /\ f[Chunks[i]] # <<>> =>
                /\ Offset(f, i) = Offset(f, i - 1) + (2 + Len(f[Chunks[i]]))
                /\ Placed(UpTo(f)[i], Offset(f, i - 1) + 1, Chunks[i], f[Chunks[i]])
        BY <3>1, OffsetStep
      <3>4. f[Chunks[i]] \in Seq(EntryType) /\ Chunks[i] \in Ids
        BY <3>1, TheChunks DEF IndexType
      <3>5. Offset(f, i) \in Nat /\ Offset(f, i - 1) <= Offset(f, i)
        <4>1. Len(f[Chunks[i]]) \in Nat
          BY <3>4
        <4>2. QED
          BY <3>3, <4>1
      <3>6. ASSUME NEW j \in 1 .. i, f[Chunks[j]] # <<>>
            PROVE  /\ Placed(UpTo(f)[i], Offset(f, j - 1) + 1, Chunks[j], f[Chunks[j]])
                   /\ Offset(f, j) <= Offset(f, i)
        <4>1. CASE j = i
          BY <3>3, <3>5, <3>6, <4>1
        <4>2. CASE j # i
          <5>1. j \in 1 .. i - 1 /\ j \in 1 .. n
            BY <1>0, <3>1, <4>2
          <5>2. /\ Placed(UpTo(f)[i - 1], Offset(f, j - 1) + 1, Chunks[j], f[Chunks[j]])
                /\ Offset(f, j) <= Offset(f, i - 1)
            BY <3>2, <3>6, <5>1
          <5>3. Offset(f, j - 1) \in Nat /\ Offset(f, j) = Offset(f, j - 1) + (2 + Len(f[Chunks[j]]))
            BY <3>6, <5>1, OffsetStep
          <5> DEFINE u == UpTo(f)[i - 1]
                     s == SavedIdentity(Chunks[i], f[Chunks[i]])
                     own == f[Chunks[j]]
                     at == Offset(f, j - 1) + 1
          <5>4. u \in Seq(FieldType) /\ UpTo(f)[i] = u \o s
            BY <3>1, UpToStep
          <5>5. s \in Seq(FieldType)
            BY <3>4, SavedIdentityIs
          <5>6. own \in Seq(EntryType)
            BY <5>1, TheChunks DEF IndexType
          <5>7. Len(own) \in Nat /\ Offset(f, i - 1) = Len(u)
            BY <5>6 DEF Offset
          <5>8. at \in Nat \ {0} /\ at + 1 + Len(own) <= Len(u)
            <6> HIDE DEF u, own
            <6>1. Offset(f, j) = Offset(f, j - 1) + (2 + Len(own)) /\ Offset(f, j) <= Len(u)
              BY <5>2, <5>3, <5>7 DEF own
            <6>2. QED
              BY <3>3, <5>3, <5>7, <6>1, SMTT(30)
          <5>9. Placed(u, at, Chunks[j], own)
            BY <5>2
          <5> HIDE DEF u, s, own, at
          <5>10. Placed(u \o s, at, Chunks[j], own)
            BY <5>4, <5>5, <5>6, <5>8, <5>9, PlacedStays
          <5>11. Offset(f, j) <= Offset(f, i)
            BY <3>3, <3>5, <5>2, <5>3, <5>6, <5>7 DEF own
          <5>12. QED
            BY <5>4, <5>10, <5>11 DEF at, own
        <4>3. QED
          BY <4>1, <4>2
      <3>7. Ok(i)
        BY <3>5, <3>6
      <3> HIDE DEF Ok
      <3>8. QED
        BY <2>2, <3>7
    <2>5. QED
      BY <2>3, <2>4
  <1>3. QED
    BY <1>1, <1>2

\* How many of the first identities have versions.
Number(f, i) == Cardinality({j \in 1 .. i : f[Chunks[j]] # <<>>})

\* How many identities with versions there are among the first i.
LEMMA NumberStep ==
    ASSUME NEW f \in IndexType
    PROVE  /\ Number(f, 0) = 0
           /\ \A i \in 0 .. Len(Chunks) : Number(f, i) \in Nat
           /\ \A i \in 1 .. Len(Chunks) :
                Number(f, i) = IF f[Chunks[i]] = <<>> THEN Number(f, i - 1) ELSE Number(f, i - 1) + 1
           /\ Number(f, Len(Chunks)) = Cardinality({c \in Ids : f[c] # <<>>})
  <1> DEFINE n == Len(Chunks)
             S(i) == {j \in 1 .. i : f[Chunks[j]] # <<>>}
  <1>0. n \in Nat
    BY TheChunks
  <1>1. \A i \in 0 .. n : IsFiniteSet(S(i)) /\ Cardinality(S(i)) \in Nat
    <2> SUFFICES ASSUME NEW i \in 0 .. n PROVE IsFiniteSet(S(i)) /\ Cardinality(S(i)) \in Nat
      OBVIOUS
    <2>1. 1 \in Int /\ i \in Int
      BY <1>0
    <2>2. IsFiniteSet(1 .. i)
      BY <2>1, FS_Interval
    <2>3. S(i) \subseteq 1 .. i
      OBVIOUS
    <2> HIDE DEF S
    <2>4. QED
      BY <2>2, <2>3, FS_Subset, FS_CardinalityType
  <1>2. Number(f, 0) = 0
    <2>1. S(0) = {}
      OBVIOUS
    <2>2. QED
      BY <2>1, FS_EmptySet DEF Number
  <1>3. ASSUME NEW i \in 1 .. n
        PROVE  Number(f, i) = IF f[Chunks[i]] = <<>> THEN Number(f, i - 1) ELSE Number(f, i - 1) + 1
    <2>1. i - 1 \in 0 .. n /\ \A j \in 1 .. i : j \in 1 .. i - 1 \/ j = i
      BY <1>0
    <2>2. i \notin S(i - 1) /\ \A j \in 1 .. i - 1 : j \in 1 .. i
      BY <1>0
    <2>3. CASE f[Chunks[i]] = <<>>
      <3>1. S(i) = S(i - 1)
        BY <2>1, <2>2, <2>3
      <3>2. QED
        BY <2>3, <3>1 DEF Number
    <2>4. CASE f[Chunks[i]] # <<>>
      <3>1. S(i) = S(i - 1) \cup {i}
        BY <2>1, <2>2, <2>4
      <3>2. IsFiniteSet(S(i - 1))
        BY <1>1, <2>1
      <3> DEFINE T == S(i - 1)
      <3> HIDE DEF S, T
      <3>3. Cardinality(T \cup {i}) = Cardinality(T) + 1
        BY <2>2, <3>2, FS_AddElement DEF T
      <3>4. QED
        BY <2>4, <3>1, <3>3 DEF Number, S, T
    <2>5. QED
      BY <2>3, <2>4
  <1>4. Number(f, n) = Cardinality({c \in Ids : f[c] # <<>>})
    <2> DEFINE T == {c \in Ids : f[c] # <<>>}
               U == S(n)
               g == [j \in U |-> Chunks[j]]
    <2>1. /\ \A i \in 1 .. n : Chunks[i] \in Ids
          /\ \A i, j \in 1 .. n : i # j => Chunks[i] # Chunks[j]
          /\ \A c \in Ids : \E i \in 1 .. n : Chunks[i] = c
      BY TheChunks
    <2>2. g \in [U -> T]
      BY <2>1
    <2>3. \A i, j \in U : i # j => g[i] # g[j]
      BY <2>1
    <2>4. \A c \in T : \E j \in U : g[j] = c
      BY <2>1
    <2>5. IsFiniteSet(U)
      BY <1>0, <1>1
    <2>n. Number(f, n) = Cardinality(U)
      BY DEF Number
    <2> HIDE DEF g, T, U
    <2>6. g \in Injection(U, T) /\ g \in Surjection(U, T)
      BY <2>2, <2>3, <2>4 DEF Injection, IsInjective, Surjection
    <2>7. Cardinality(T) = Cardinality(U)
      BY <2>5, <2>6, FS_Surjection
    <2>8. QED
      BY <2>7, <2>n DEF T
  <1>5. QED
    BY <1>1, <1>2, <1>3, <1>4 DEF Number

\* The bytes of an index.
LEMMA SerializedIs ==
    ASSUME NEW f \in IndexType
    PROVE  /\ Serialized(f) \in Seq(FieldType)
           /\ Len(Serialized(f)) = 1 + Offset(f, Len(Chunks))
           /\ Serialized(f)[1] = Field("identities", Number(f, Len(Chunks)))
           /\ \A j \in 1 .. Len(Chunks) : f[Chunks[j]] # <<>> =>
                /\ Placed(Serialized(f), Offset(f, j - 1) + 2, Chunks[j], f[Chunks[j]])
                /\ Offset(f, j) = Offset(f, j - 1) + (2 + Len(f[Chunks[j]]))
                /\ Offset(f, j) <= Offset(f, Len(Chunks))
  <1> DEFINE n == Len(Chunks)
             u == UpTo(f)[n]
             hd == Field("identities", Number(f, n))
             one == <<hd>>
             s == Serialized(f)
  <1>0. n \in Nat /\ n \in 0 .. n
    BY TheChunks
  <1>1. s = one \o u
    BY NumberStep DEF Serialized, UpTo
  <1>2. hd \in FieldType
    <2>1. \A i \in 0 .. n : Number(f, i) \in Nat
      BY NumberStep
    <2> HIDE DEF n
    <2>2. QED
      BY <1>0, <2>1, FieldsAre
  <1>3. u \in Seq(FieldType) /\ Offset(f, n) = Len(u)
    <2>1. UpTo(f) \in [0 .. n -> Seq(FieldType)]
      BY UpToStep
    <2> HIDE DEF n
    <2>2. QED
      BY <1>0, <2>1 DEF Offset
  <1> HIDE DEF hd, u, s
  <1>4. one \in Seq(FieldType) /\ Len(one) = 1 /\ one[1] = hd
    BY <1>2
  <1> HIDE DEF one
  <1>5. IsJoin(s, one, u, FieldType)
    BY <1>1, <1>3, <1>4, Joined
  <1>6. s \in Seq(FieldType) /\ Len(s) = 1 + Len(u) /\ s[1] = hd
    BY <1>4, <1>5 DEF IsJoin
  <1>7. ASSUME NEW j \in 1 .. n, f[Chunks[j]] # <<>>
        PROVE  /\ Placed(s, Offset(f, j - 1) + 2, Chunks[j], f[Chunks[j]])
               /\ Offset(f, j) = Offset(f, j - 1) + (2 + Len(f[Chunks[j]]))
               /\ Offset(f, j) <= Offset(f, n)
    <2> DEFINE own == f[Chunks[j]]
               at == Offset(f, j - 1) + 1
    <2>1. Placed(u, at, Chunks[j], own) /\ Offset(f, j) <= Offset(f, n) /\ Offset(f, n) \in Nat
      BY <1>0, <1>7, Layout DEF u
    <2>2. Offset(f, j - 1) \in Nat /\ Offset(f, j) = Offset(f, j - 1) + (2 + Len(own))
      BY <1>7, OffsetStep
    <2>3. own \in Seq(EntryType)
      BY TheChunks DEF IndexType
    <2>4. Len(own) \in Nat
      BY <2>3
    <2>5. at \in Nat \ {0} /\ at + 1 + Len(own) <= Len(u)
      <3> HIDE DEF own
      <3>1. QED
        BY <1>3, <2>1, <2>2, <2>4
    <2> HIDE DEF own
    <2>6. Len(one) + at = Offset(f, j - 1) + 2
      BY <1>4, <2>2
    <2> HIDE DEF at
    <2>7. Placed(one \o u, Len(one) + at, Chunks[j], own)
      BY <1>3, <1>4, <2>1, <2>3, <2>5, PlacedMoves
    <2>8. QED
      BY <1>1, <2>1, <2>2, <2>6, <2>7 DEF own
  <1>8. QED
    BY <1>3, <1>6, <1>7 DEF s, hd
-----------------------------------------------------------------------------
(* Reading an index.                                                       *)

\* Where the field behind an identity is.
NextPlace(bytes, before) ==
    IF before = 0 \/ ~IdentityReadable(bytes, before) THEN 0
    ELSE before + 2 + bytes[before + 1].value

Places(bytes, i) ==
    CHOOSE a : a = [k \in 0 .. i |-> IF k = 0 THEN 2
                                     ELSE IF a[k - 1] = 0 \/ ~IdentityReadable(bytes, a[k - 1]) THEN 0
                                          ELSE a[k - 1] + 2 + bytes[a[k - 1] + 1].value]

\* Places are numbers.
LEMMA NextPlaceType ==
    ASSUME NEW bytes \in Seq(FieldType), NEW before \in Nat
    PROVE  NextPlace(bytes, before) \in Nat
  <1>1. CASE before = 0 \/ ~IdentityReadable(bytes, before)
    BY <1>1 DEF NextPlace
  <1>2. CASE ~(before = 0 \/ ~IdentityReadable(bytes, before))
    <2>1. before + 1 <= Len(bytes) /\ bytes[before + 1].kind = "count"
      BY <1>2 DEF IdentityReadable, Reads
    <2> DEFINE i == before + 1
    <2>2. i \in 1 .. Len(bytes)
      BY <2>1
    <2> HIDE DEF i
    <2>3. bytes[i] \in FieldType /\ bytes[i].kind = "count"
      BY <2>1, <2>2 DEF i
    <2>4. bytes[i].value \in Nat
      BY <2>3 DEF FieldType
    <2>5. before + 2 + bytes[i].value \in Nat
      BY <2>4
    <2>6. QED
      BY <1>2, <2>5 DEF NextPlace, i
  <1>3. QED
    BY <1>1, <1>2

\* The loop over i identities.
LEMMA PlacesStep ==
    ASSUME NEW bytes \in Seq(FieldType), NEW i \in Nat
    PROVE  /\ Places(bytes, i)[0] = 2
           /\ \A k \in 0 .. i : Places(bytes, i)[k] \in Nat
           /\ \A k \in 1 .. i : Places(bytes, i)[k] = NextPlace(bytes, Places(bytes, i)[k - 1])
  <1> DEFINE F(a) == [k \in 0 .. i |-> IF k = 0 THEN 2
                                       ELSE IF a[k - 1] = 0 \/ ~IdentityReadable(bytes, a[k - 1]) THEN 0
                                            ELSE a[k - 1] + 2 + bytes[a[k - 1] + 1].value]
             step == [x \in (1 .. i) \X Nat |-> NextPlace(bytes, x[2])]
  <1>1. step \in [(1 .. i) \X Nat -> Nat] /\ \A k \in 1 .. i, b \in Nat : step[<<k, b>>] = NextPlace(bytes, b)
    <2>1. \A x \in (1 .. i) \X Nat : NextPlace(bytes, x[2]) \in Nat
      BY NextPlaceType
    <2>2. QED
      BY <2>1
  <1> HIDE DEF step
  <1>2. PICK a : IsFold(a, i, Nat, 2, step)
    BY <1>1, FoldExists
  <1>3. a \in [0 .. i -> Nat] /\ a[0] = 2 /\ \A k \in 1 .. i : a[k] = step[<<k, a[k - 1]>>]
    BY <1>2 DEF IsFold
  <1>4. \A k \in 1 .. i : k - 1 \in 0 .. i
    OBVIOUS
  <1>5. \A k \in 1 .. i : a[k] = NextPlace(bytes, a[k - 1])
    BY <1>1, <1>3, <1>4
  <1>6. \A k \in 0 .. i : k = 0 \/ k \in 1 .. i
    OBVIOUS
  <1>7. \A k \in 0 .. i : a[k] = IF k = 0 THEN 2
                                 ELSE IF a[k - 1] = 0 \/ ~IdentityReadable(bytes, a[k - 1]) THEN 0
                                      ELSE a[k - 1] + 2 + bytes[a[k - 1] + 1].value
    BY <1>3, <1>5, <1>6 DEF NextPlace
  <1>8. a = F(a)
    BY <1>3, <1>7
  <1>9. Places(bytes, i) = F(Places(bytes, i))
    BY <1>8 DEF Places
  <1> DEFINE g == Places(bytes, i)
  <1>10. g = F(g)
    BY <1>9
  <1> HIDE DEF g
  <1>11. 0 \in 0 .. i /\ \A k \in 1 .. i : k \in 0 .. i /\ k # 0
    OBVIOUS
  <1>12. g[0] = 2 /\ \A k \in 1 .. i : g[k] = NextPlace(bytes, g[k - 1])
    BY <1>10, <1>11 DEF NextPlace
  <1>13. \A k \in 0 .. i : g[k] \in Nat
    <2> DEFINE bad == {k \in 0 .. i : g[k] \notin Nat}
    <2>1. CASE bad = {}
      BY <2>1
    <2>2. CASE bad # {}
      <3>1. bad \in SUBSET Nat
        OBVIOUS
      <3> HIDE DEF bad
      <3>2. PICK k \in bad : \A j \in bad : k <= j
        BY <2>2, <3>1, Smallest
      <3>3. k \in 0 .. i /\ g[k] \notin Nat
        BY <3>2 DEF bad
      <3>4. k \in 1 .. i /\ k - 1 \in 0 .. i /\ k - 1 \notin bad
        BY <1>12, <3>2, <3>3
      <3>5. g[k - 1] \in Nat
        BY <3>4 DEF bad
      <3>6. QED
        BY <1>12, <3>3, <3>4, <3>5, NextPlaceType
    <2>3. QED
      BY <2>1, <2>2
  <1>14. QED
    BY <1>12, <1>13 DEF g

\* It does not matter how many identities follow.
LEMMA AfterStep ==
    ASSUME NEW bytes \in Seq(FieldType)
    PROVE  /\ After(bytes, 0) = 2
           /\ \A i \in Nat : After(bytes, i) \in Nat
           /\ \A i \in Nat \ {0} : After(bytes, i) = NextPlace(bytes, After(bytes, i - 1))
  <1>1. \A i \in Nat : After(bytes, i) = Places(bytes, i)[i]
    BY DEF After, Places
  <1>2. ASSUME NEW i \in Nat, NEW j \in Nat
        PROVE  \A k \in Nat : k <= i /\ k <= j => Places(bytes, i)[k] = Places(bytes, j)[k]
    <2> DEFINE a == Places(bytes, i)
               b == Places(bytes, j)
               bad == {k \in Nat : k <= i /\ k <= j /\ a[k] # b[k]}
    <2>1. a[0] = 2 /\ b[0] = 2
      BY PlacesStep
    <2>2. /\ \A k \in 1 .. i : a[k] = NextPlace(bytes, a[k - 1])
          /\ \A k \in 1 .. j : b[k] = NextPlace(bytes, b[k - 1])
      BY PlacesStep
    <2> HIDE DEF a, b
    <2>3. CASE bad = {}
      BY <2>3 DEF a, b
    <2>4. CASE bad # {}
      <3>1. bad \in SUBSET Nat
        OBVIOUS
      <3> HIDE DEF bad
      <3>2. PICK k \in bad : \A l \in bad : k <= l
        BY <2>4, <3>1, Smallest
      <3>3. k \in Nat /\ k <= i /\ k <= j /\ a[k] # b[k]
        BY <3>2 DEF bad
      <3>4. k # 0
        BY <2>1, <3>3
      <3>5. k - 1 \in Nat /\ k - 1 <= i /\ k - 1 <= j /\ k - 1 \notin bad /\ k \in 1 .. i /\ k \in 1 .. j
        BY <3>2, <3>3, <3>4
      <3>6. a[k - 1] = b[k - 1]
        BY <3>5 DEF bad
      <3>7. QED
        BY <2>2, <3>3, <3>5, <3>6
    <2>5. QED
      BY <2>3, <2>4
  <1>3. After(bytes, 0) = 2
    BY <1>1, PlacesStep
  <1>4. ASSUME NEW i \in Nat PROVE After(bytes, i) \in Nat
    <2>1. i \in 0 .. i
      OBVIOUS
    <2>2. Places(bytes, i)[i] \in Nat
      BY <2>1, PlacesStep
    <2>3. QED
      BY <1>1, <2>2
  <1>5. ASSUME NEW i \in Nat \ {0} PROVE After(bytes, i) = NextPlace(bytes, After(bytes, i - 1))
    <2>1. i - 1 \in Nat /\ i \in Nat /\ i - 1 <= i /\ i \in 1 .. i
      OBVIOUS
    <2>2. Places(bytes, i)[i - 1] = Places(bytes, i - 1)[i - 1]
      BY <1>2, <2>1
    <2>3. Places(bytes, i)[i] = NextPlace(bytes, Places(bytes, i)[i - 1])
      BY <2>1, PlacesStep
    <2>4. QED
      BY <1>1, <2>1, <2>2, <2>3
  <1>6. QED
    BY <1>3, <1>4, <1>5

\* bytes are full or the beginning of it.
CutOf(bytes, full) ==
    /\ bytes \in Seq(FieldType) /\ full \in Seq(FieldType) /\ Len(bytes) <= Len(full)
    /\ \A i \in 1 .. Len(bytes) : bytes[i] = full[i]

Oversized(f, i) == \E j \in 1 .. i : Len(f[Chunks[j]]) >= CountLimit

\* Where the j-th identity is in the bytes.
Place(f, j) == Offset(f, j - 1) + 2

\* What is read at the place of an identity: the identity and as many versions
\* as the count tells, if the bytes go that far.
IsRead(bytes, at, c, own) ==
    /\ c \in ValidChunks /\ bytes[at].value = c
    /\ bytes[at + 1].value = Len(own) % CountLimit
    /\ \A k \in 1 .. Len(own) % CountLimit : bytes[(at + 1) + k].value = own[k]
    /\ (at + 1) + (Len(own) % CountLimit) <= Len(bytes)

\* A count that is stored is the count, or a smaller one if it does not fit.
LEMMA Remainder ==
    ASSUME NEW n \in Nat
    PROVE  /\ n % CountLimit \in 0 .. n
           /\ n < CountLimit => n % CountLimit = n
           /\ n >= CountLimit => n % CountLimit < n
  <1>1. CountLimit \in Nat \ {0}
    BY IndexAssumption
  <1>2. QED
    BY <1>1

\* Reading where an identity was written fails, or gives what was written up
\* to the stored count.
LEMMA ReadPlace ==
    ASSUME NEW bytes, NEW full, CutOf(bytes, full), NEW at \in Nat \ {0}, NEW c,
           NEW own \in Seq(EntryType), Placed(full, at, c, own), at + 1 + Len(own) <= Len(full)
    PROVE  \/ NextPlace(bytes, at) = 0
           \/ /\ NextPlace(bytes, at) = at + 2 + (Len(own) % CountLimit)
              /\ IsRead(bytes, at, c, own)
  <1> SUFFICES ASSUME NextPlace(bytes, at) # 0
               PROVE  /\ NextPlace(bytes, at) = at + 2 + (Len(own) % CountLimit)
                      /\ IsRead(bytes, at, c, own)
    OBVIOUS
  <1> DEFINE n == Len(own)
             r == n % CountLimit
             m == Len(bytes)
  <1>0. bytes \in Seq(FieldType) /\ m \in Nat /\ n \in Nat /\ \A i \in 1 .. m : bytes[i] = full[i]
    BY DEF CutOf
  <1>1. r \in 0 .. n
    BY <1>0, Remainder
  <1>2. IdentityReadable(bytes, at) /\ NextPlace(bytes, at) = at + 2 + bytes[at + 1].value
    BY DEF NextPlace
  <1>3. /\ at <= m /\ bytes[at].value \in ValidChunks
        /\ at + 1 <= m
        /\ \A k \in 1 .. bytes[at + 1].value : at + 1 + k <= m
    BY <1>2 DEF IdentityReadable, Reads
  <1>4. /\ full[at] = Field("identity", c)
        /\ full[at + 1] = Field("count", r)
        /\ \A k \in 1 .. n : full[(at + 1) + k] = Field("version", own[k])
    BY DEF Placed
  <1> HIDE DEF n, r, m
  <1>5. at \in 1 .. m /\ at + 1 \in 1 .. m
    BY <1>0, <1>3
  <1>6. bytes[at] = Field("identity", c) /\ bytes[at + 1] = Field("count", r)
    <2> DEFINE i == at + 1
    <2> HIDE DEF i
    <2>1. bytes[at] = full[at] /\ bytes[i] = full[i]
      BY <1>0, <1>5 DEF i
    <2>2. QED
      BY <1>4, <2>1 DEF i
  <1>7. bytes[at].value = c /\ bytes[at + 1].value = r
    <2> DEFINE x == bytes[at]
               y == bytes[at + 1]
    <2> HIDE DEF x, y
    <2>1. x = Field("identity", c) /\ y = Field("count", r)
      BY <1>6 DEF x, y
    <2>2. x.value = c /\ y.value = r
      BY <2>1 DEF Field
    <2>3. QED
      BY <2>2 DEF x, y
  <1>8. \A k \in 1 .. r : k \in 1 .. n /\ (at + 1) + k \in 1 .. m
    <2> SUFFICES ASSUME NEW k \in 1 .. r PROVE k \in 1 .. n /\ (at + 1) + k \in 1 .. m
      OBVIOUS
    <2>1. at + 1 + k <= m
      BY <1>3, <1>7
    <2>2. QED
      BY <1>0, <1>1, <2>1
  <1>9. ASSUME NEW k \in 1 .. r PROVE bytes[(at + 1) + k].value = own[k]
    <2> DEFINE i == (at + 1) + k
    <2>1. full[i] = Field("version", own[k]) /\ i \in 1 .. m
      BY <1>4, <1>8
    <2> HIDE DEF i
    <2>2. bytes[i] = Field("version", own[k])
      BY <1>0, <2>1
    <2> DEFINE x == bytes[i]
    <2> HIDE DEF x
    <2>3. x = Field("version", own[k])
      BY <2>2 DEF x
    <2>4. x.value = own[k]
      BY <2>3 DEF Field
    <2>5. QED
      BY <2>4 DEF x, i
  <1>10. (at + 1) + r <= m
    <2>1. CASE r = 0
      BY <1>5, <2>1
    <2>2. CASE r # 0
      <3>1. r \in 1 .. r
        BY <1>1, <2>2
      <3>2. QED
        BY <1>0, <1>8, <3>1
    <2>3. QED
      BY <2>1, <2>2
  <1>11. IsRead(bytes, at, c, own)
    BY <1>3, <1>7, <1>9, <1>10 DEF IsRead, r, n, m
  <1>12. NextPlace(bytes, at) = at + 2 + r
    BY <1>2, <1>7
  <1>13. QED
    BY <1>11, <1>12 DEF r, n

\* Reading stops at a field that is not an identity.
LEMMA StrayPlace ==
    ASSUME NEW bytes, NEW full, CutOf(bytes, full), NEW at \in 1 .. Len(full), full[at].kind = "version"
    PROVE  NextPlace(bytes, at) = 0
  <1>1. bytes \in Seq(FieldType) /\ full \in Seq(FieldType) /\ \A i \in 1 .. Len(bytes) : bytes[i] = full[i]
    BY DEF CutOf
  <1>2. CASE at <= Len(bytes)
    <2>1. bytes[at] = full[at]
      BY <1>1, <1>2
    <2>2. bytes[at].kind # "identity"
      BY <2>1
    <2>3. QED
      BY <2>2 DEF NextPlace, IdentityReadable, Reads
  <1>3. CASE ~(at <= Len(bytes))
    BY <1>3 DEF NextPlace, IdentityReadable, Reads
  <1>4. QED
    BY <1>2, <1>3

\* How far the reader has come after the first i identities of the map: it has
\* given up, it stands where the writer stood, or behind a count that did not fit.
ReadTo(bytes, f, i) ==
    LET a == After(bytes, Number(f, i))
    IN  \/ a = 0
        \/ ~Oversized(f, i) /\ a = 2 + Offset(f, i)
        \/ /\ Oversized(f, i) /\ a < 2 + Offset(f, i)
           /\ a \in 1 .. Len(Serialized(f)) /\ Serialized(f)[a].kind = "version"

\* One identity further.
LEMMA ReadFurther ==
    ASSUME NEW f \in IndexType, NEW bytes, CutOf(bytes, Serialized(f)),
           NEW i \in 1 .. Len(Chunks), ReadTo(bytes, f, i - 1)
    PROVE  ReadTo(bytes, f, i)
  <1> DEFINE c == Chunks[i]
             own == f[c]
             full == Serialized(f)
             a == After(bytes, Number(f, i - 1))
             o == Offset(f, i - 1)
             n == Len(own)
             r == n % CountLimit
  <1>0. c \in Ids /\ own \in Seq(EntryType) /\ n \in Nat /\ i - 1 \in 0 .. Len(Chunks) /\ i \in 0 .. Len(Chunks)
    BY TheChunks DEF IndexType
  <1>1. bytes \in Seq(FieldType) /\ full \in Seq(FieldType)
    BY DEF CutOf
  <1>2. Number(f, i) = IF own = <<>> THEN Number(f, i - 1) ELSE Number(f, i - 1) + 1
    BY NumberStep
  <1>3. Number(f, i - 1) \in Nat
    BY <1>0, NumberStep
  <1>4. o \in Nat /\ (own = <<>> => Offset(f, i) = o) /\ (own # <<>> => Offset(f, i) = o + (2 + n))
    BY OffsetStep
  <1>5. Oversized(f, i) <=> Oversized(f, i - 1) \/ n >= CountLimit
    <2>1. \A j \in 1 .. i : j \in 1 .. i - 1 \/ j = i
      BY TheChunks
    <2>2. i \in 1 .. i /\ \A j \in 1 .. i - 1 : j \in 1 .. i
      BY TheChunks
    <2>3. QED
      BY <2>1, <2>2 DEF Oversized
  <1>6. CASE own = <<>>
    <2>1. n = 0
      BY <1>6
    <2>2. ~(n >= CountLimit)
      BY <2>1, IndexAssumption
    <2>3. Number(f, i) = Number(f, i - 1) /\ Offset(f, i) = o /\ (Oversized(f, i) <=> Oversized(f, i - 1))
      BY <1>2, <1>4, <1>5, <1>6, <2>2
    <2>4. QED
      BY <2>3 DEF ReadTo
  <1>7. CASE own # <<>>
    <2>1. After(bytes, Number(f, i)) = NextPlace(bytes, a)
      <3> DEFINE m == Number(f, i - 1) + 1
      <3>1. m \in Nat \ {0} /\ m - 1 = Number(f, i - 1) /\ Number(f, i) = m
        BY <1>2, <1>3, <1>7
      <3> HIDE DEF m
      <3>2. After(bytes, m) = NextPlace(bytes, After(bytes, m - 1))
        BY <1>1, <3>1, AfterStep
      <3>3. QED
        BY <3>1, <3>2
    <2>2. /\ Placed(full, o + 2, c, own) /\ Offset(f, i) <= Offset(f, Len(Chunks))
          /\ Len(full) = 1 + Offset(f, Len(Chunks))
      BY <1>7, SerializedIs
    <2>3. Offset(f, Len(Chunks)) \in Nat
      BY TheChunks, Layout
    <2>4. r \in 0 .. n /\ (n < CountLimit => r = n) /\ (n >= CountLimit => r < n)
      BY <1>0, Remainder
    <2>5. \/ a = 0
          \/ ~Oversized(f, i - 1) /\ a = 2 + o
          \/ Oversized(f, i - 1) /\ a \in 1 .. Len(full) /\ full[a].kind = "version"
      BY DEF ReadTo
    <2> HIDE DEF a, o, full, own, n, r
    <2>6. CASE a = 0
      <3>1. NextPlace(bytes, a) = 0
        BY <2>6 DEF NextPlace
      <3>2. QED
        BY <2>1, <3>1 DEF ReadTo
    <2>7. CASE Oversized(f, i - 1) /\ a \in 1 .. Len(full) /\ full[a].kind = "version"
      <3>1. NextPlace(bytes, a) = 0
        BY <2>7, StrayPlace DEF full
      <3>2. QED
        BY <2>1, <3>1 DEF ReadTo
    <2>8. CASE ~Oversized(f, i - 1) /\ a = 2 + o
      <3>1. a \in Nat \ {0} /\ a = o + 2 /\ a + 1 + n <= Len(full)
        BY <1>0, <1>4, <1>7, <2>2, <2>3, <2>8
      <3>2. NextPlace(bytes, a) = 0 \/ NextPlace(bytes, a) = a + 2 + r
        <4>1. Placed(full, a, c, own) /\ CutOf(bytes, full) /\ a + 1 + Len(own) <= Len(full)
          BY <2>2, <3>1 DEF full, n
        <4>2. QED
          BY <1>0, <3>1, <4>1, ReadPlace DEF r, n
      <3>3. CASE NextPlace(bytes, a) = 0
        BY <2>1, <3>3 DEF ReadTo
      <3>4. CASE NextPlace(bytes, a) = a + 2 + r
        <4>1. CASE n < CountLimit
          <5>1. ~(n >= CountLimit)
            BY <1>0, <4>1, IndexAssumption
          <5>2. ~Oversized(f, i) /\ a + 2 + r = 2 + Offset(f, i)
            BY <1>0, <1>4, <1>5, <1>7, <2>4, <2>8, <4>1, <5>1
          <5>3. QED
            BY <2>1, <3>4, <5>2 DEF ReadTo
        <4>2. CASE ~(n < CountLimit)
          <5>1. n >= CountLimit /\ r < n
            BY <1>0, <2>4, <4>2, IndexAssumption
          <5> DEFINE k == r + 1
          <5>2. /\ k \in 1 .. n /\ a + 2 + r = (a + 1) + k
                /\ a + 2 + r < 2 + Offset(f, i) /\ a + 2 + r \in 1 .. Len(full)
            BY <1>0, <1>4, <1>7, <2>4, <3>1, <5>1
          <5> HIDE DEF k
          <5>3. full[(a + 1) + k] = Field("version", own[k])
            BY <2>2, <3>1, <5>2 DEF Placed, n
          <5> DEFINE b == a + 2 + r
                     x == full[b]
          <5>4. x = Field("version", own[k])
            BY <5>2, <5>3
          <5> HIDE DEF x
          <5>5. x.kind = "version"
            BY <5>4 DEF Field
          <5>6. Oversized(f, i)
            BY <1>5, <5>1
          <5>7. QED
            BY <2>1, <3>4, <5>2, <5>5, <5>6 DEF ReadTo, x, full
        <4>3. QED
          BY <4>1, <4>2
      <3>5. QED
        BY <3>2, <3>3, <3>4
    <2>9. QED
      BY <2>5, <2>6, <2>7, <2>8
  <1>8. QED
    BY <1>6, <1>7

\* The loop of deserialize() follows the identities that were written until
\* it refuses the bytes or meets a count that did not fit.
LEMMA ReadAll ==
    ASSUME NEW f \in IndexType, NEW bytes, CutOf(bytes, Serialized(f))
    PROVE  \A i \in 0 .. Len(Chunks) : ReadTo(bytes, f, i)
  <1> DEFINE n == Len(Chunks)
             bad == {i \in 0 .. n : ~ReadTo(bytes, f, i)}
  <1>0. n \in Nat
    BY TheChunks
  <1>1. CASE bad = {}
    BY <1>1
  <1>2. CASE bad # {}
    <2>1. bad \in SUBSET Nat
      OBVIOUS
    <2> HIDE DEF bad
    <2>2. PICK i \in bad : \A j \in bad : i <= j
      BY <1>2, <2>1, Smallest
    <2>3. i \in 0 .. n /\ ~ReadTo(bytes, f, i)
      BY <2>2 DEF bad
    <2>4. CASE i = 0
      <3>1. UpTo(f)[0] = <<>> /\ Len(<<>>) = 0
        BY UpToStep
      <3>2. Offset(f, 0) = 0 /\ Number(f, 0) = 0
        BY <3>1, NumberStep DEF Offset
      <3>3. After(bytes, 0) = 2
        BY AfterStep DEF CutOf
      <3>4. ~Oversized(f, 0)
        BY DEF Oversized
      <3>5. ReadTo(bytes, f, 0)
        BY <3>2, <3>3, <3>4 DEF ReadTo
      <3>6. QED
        BY <2>3, <2>4, <3>5
    <2>5. CASE i # 0
      <3>1. i \in 1 .. n /\ i - 1 \in 0 .. n /\ i - 1 \notin bad
        BY <1>0, <2>2, <2>3, <2>5
      <3>2. ReadTo(bytes, f, i - 1)
        BY <3>1 DEF bad
      <3>3. QED
        BY <2>3, <3>1, <3>2, ReadFurther
    <2>6. QED
      BY <2>4, <2>5
  <1>3. QED
    BY <1>1, <1>2

\* More chunks have no fewer identities with versions among them.
LEMMA NumberGrows ==
    ASSUME NEW f \in IndexType, NEW i \in 0 .. Len(Chunks), NEW j \in 0 .. Len(Chunks), i <= j
    PROVE  Number(f, i) <= Number(f, j)
  <1> DEFINE S == {k \in 1 .. i : f[Chunks[k]] # <<>>}
             T == {k \in 1 .. j : f[Chunks[k]] # <<>>}
  <1>0. i \in Nat /\ j \in Nat
    BY TheChunks
  <1>1. S \subseteq T /\ T \subseteq 1 .. j
    BY <1>0
  <1>2. IsFiniteSet(1 .. j)
    BY <1>0, FS_Interval
  <1> HIDE DEF S, T
  <1>3. IsFiniteSet(T)
    BY <1>1, <1>2, FS_Subset
  <1>4. Cardinality(S) <= Cardinality(T)
    BY <1>1, <1>3, FS_Subset
  <1>5. QED
    BY <1>4 DEF Number, S, T

\* Every saved identity is one of the map.
LEMMA NumberReached ==
    ASSUME NEW f \in IndexType, NEW k \in 1 .. Number(f, Len(Chunks))
    PROVE  \E j \in 1 .. Len(Chunks) : f[Chunks[j]] # <<>> /\ Number(f, j - 1) = k - 1
  <1> DEFINE n == Len(Chunks)
             far == {j \in 0 .. n : Number(f, j) >= k}
  <1>0. n \in Nat /\ Number(f, 0) = 0 /\ \A i \in 0 .. n : Number(f, i) \in Nat
    BY TheChunks, NumberStep
  <1>1. n \in far
    BY <1>0
  <1>2. far \in SUBSET Nat /\ far # {}
    BY <1>1
  <1> HIDE DEF far
  <1>3. PICK j \in far : \A i \in far : j <= i
    BY <1>2, Smallest
  <1>4. j \in 0 .. n /\ Number(f, j) >= k
    BY <1>3 DEF far
  <1>5. j \in 1 .. n /\ j - 1 \in 0 .. n /\ j - 1 \notin far
    BY <1>0, <1>3, <1>4
  <1>6. ~(Number(f, j - 1) >= k) /\ Number(f, j - 1) \in Nat
    BY <1>0, <1>5 DEF far
  <1>7. Number(f, j) = IF f[Chunks[j]] = <<>> THEN Number(f, j - 1) ELSE Number(f, j - 1) + 1
    BY <1>5, NumberStep
  <1>8. k \in Nat
    BY <1>0
  <1>9. f[Chunks[j]] # <<>> /\ Number(f, j - 1) = k - 1
    BY <1>4, <1>6, <1>7, <1>8
  <1>10. QED
    BY <1>5, <1>9

\* A reader that has given up never starts again.
LEMMA GivenUp ==
    ASSUME NEW bytes \in Seq(FieldType), NEW n \in Nat, After(bytes, n) # 0
    PROVE  \A k \in 0 .. n : After(bytes, k) # 0
  <1> SUFFICES ASSUME NEW k \in 0 .. n, After(bytes, k) = 0 PROVE FALSE
    OBVIOUS
  <1> DEFINE on == {j \in Nat : j >= k /\ After(bytes, j) # 0}
  <1>1. n \in on
    OBVIOUS
  <1>2. on \in SUBSET Nat /\ on # {}
    BY <1>1
  <1> HIDE DEF on
  <1>3. PICK j \in on : \A i \in on : j <= i
    BY <1>2, Smallest
  <1>4. j \in Nat /\ j >= k /\ After(bytes, j) # 0
    BY <1>3 DEF on
  <1>5. j \in Nat \ {0} /\ j - 1 \in Nat /\ j - 1 >= k /\ j - 1 \notin on
    BY <1>3, <1>4
  <1>6. After(bytes, j - 1) = 0
    BY <1>5 DEF on
  <1>7. After(bytes, j) = NextPlace(bytes, 0)
    BY <1>5, <1>6, AfterStep
  <1>8. NextPlace(bytes, 0) = 0
    BY DEF NextPlace
  <1>9. QED
    BY <1>4, <1>7, <1>8

\* The number of identities that the bytes announce.
LEMMA Announced ==
    ASSUME NEW f \in IndexType, NEW bytes, CutOf(bytes, Serialized(f)), Reads(bytes, 1, "identities")
    PROVE  bytes[1].value = Number(f, Len(Chunks))
  <1> DEFINE n == Number(f, Len(Chunks))
             x == bytes[1]
  <1>1. 1 \in 1 .. Len(bytes)
    BY DEF Reads, CutOf
  <1>2. x = Serialized(f)[1]
    BY <1>1 DEF CutOf
  <1>3. x = Field("identities", n)
    BY <1>2, SerializedIs
  <1> HIDE DEF x, n
  <1>4. x.value = n
    BY <1>3 DEF Field
  <1>5. QED
    BY <1>4 DEF x, n

\* If the bytes are accepted, every identity was read in its place.
LEMMA AcceptedReads ==
    ASSUME NEW f \in IndexType, NEW bytes, CutOf(bytes, Serialized(f)), Accepted(bytes),
           NEW j \in 1 .. Len(Chunks), f[Chunks[j]] # <<>>
    PROVE  /\ Number(f, j - 1) + 1 \in 1 .. Number(f, Len(Chunks))
           /\ After(bytes, Number(f, j - 1)) = Place(f, j)
           /\ IsRead(bytes, Place(f, j), Chunks[j], f[Chunks[j]])
  <1> DEFINE n == Number(f, Len(Chunks))
             k == Number(f, j - 1)
             c == Chunks[j]
             own == f[c]
             full == Serialized(f)
             o == Offset(f, j - 1)
             a == After(bytes, k)
  <1>0. bytes \in Seq(FieldType) /\ Len(bytes) \in Nat
    BY DEF CutOf
  <1>1. Len(Chunks) \in Nat /\ j - 1 \in 0 .. Len(Chunks) /\ j \in 0 .. Len(Chunks)
        /\ Len(Chunks) \in 0 .. Len(Chunks)
    BY TheChunks
  <1>2. n \in Nat /\ k \in Nat /\ Number(f, j) = k + 1
    BY <1>1, NumberStep
  <1>3. k + 1 <= n
    <2>1. Number(f, j) <= n
      BY <1>1, NumberGrows
    <2>2. QED
      BY <1>2, <2>1
  <1>4. After(bytes, n) = Len(bytes) + 1
    BY Announced DEF Accepted
  <1>5. \A i \in 0 .. n : After(bytes, i) # 0
    BY <1>0, <1>2, <1>4, GivenUp
  <1>6. a # 0 /\ NextPlace(bytes, a) # 0
    <2> DEFINE i == k + 1
    <2>1. k \in 0 .. n /\ i \in 0 .. n /\ i \in Nat \ {0} /\ i - 1 = k
      BY <1>2, <1>3
    <2> HIDE DEF i, k, n
    <2>2. After(bytes, i) = NextPlace(bytes, After(bytes, k))
      BY <1>0, <2>1, AfterStep
    <2>3. QED
      BY <1>5, <2>1, <2>2
  <1>7. ReadTo(bytes, f, j - 1)
    BY <1>1, ReadAll
  <1>8. a = 2 + o \/ (a \in 1 .. Len(full) /\ full[a].kind = "version")
    BY <1>6, <1>7 DEF ReadTo
  <1>9. o \in Nat /\ Placed(full, o + 2, c, own) /\ Offset(f, j) = o + (2 + Len(own))
        /\ Offset(f, j) <= Offset(f, Len(Chunks)) /\ Len(full) = 1 + Offset(f, Len(Chunks))
        /\ Offset(f, Len(Chunks)) \in Nat
    BY <1>1, SerializedIs, OffsetStep, Layout
  <1>10. own \in Seq(EntryType)
    BY TheChunks DEF IndexType
  <1> HIDE DEF a, o, own, c, k, n, full
  <1>11. ~(a \in 1 .. Len(full) /\ full[a].kind = "version")
    BY <1>6, StrayPlace DEF full
  <1>12. a = o + 2 /\ a \in Nat \ {0} /\ a + 1 + Len(own) <= Len(full)
    <2>1. Len(own) \in Nat
      BY <1>10
    <2>2. QED
      BY <1>8, <1>9, <1>11, <2>1
  <1>13. IsRead(bytes, a, c, own)
    <2>1. CutOf(bytes, full) /\ Placed(full, a, c, own)
      BY <1>9, <1>12 DEF full
    <2>2. QED
      BY <1>6, <1>10, <1>12, <2>1, ReadPlace
  <1>14. k + 1 \in 1 .. n
    BY <1>2, <1>3
  <1>15. QED
    BY <1>12, <1>13, <1>14 DEF Place, o, a, k, c, own, n

\* What is read of each identity: the versions that its count tells.
LEMMA ReadBack ==
    ASSUME NEW f \in IndexType, NEW bytes, CutOf(bytes, Serialized(f)), Accepted(bytes), NEW c \in Ids
    PROVE  /\ Deserialized(bytes)[c] = [k \in 1 .. (Len(f[c]) % CountLimit) |-> f[c][k]]
           /\ f[c] # <<>> => c \in ValidChunks
  <1> DEFINE n == Number(f, Len(Chunks))
             own == {i \in 1 .. n : bytes[After(bytes, i - 1)].value = c}
             d == Deserialized(bytes)[c]
  <1>0. n \in Nat /\ \A i \in 0 .. Len(Chunks) : Number(f, i) \in Nat
    <2>1. Len(Chunks) \in 0 .. Len(Chunks)
      BY TheChunks
    <2>2. QED
      BY <2>1, NumberStep
  <1>1. PICK j \in 1 .. Len(Chunks) : Chunks[j] = c
    BY TheChunks
  <1>2. bytes[1].value = n
    BY Announced DEF Accepted
  <1>3. d = IF own = {} THEN <<>>
            ELSE LET at == After(bytes, (CHOOSE i \in own : TRUE) - 1)
                 IN  [k \in 1 .. bytes[at + 1].value |-> bytes[at + 1 + k].value]
    BY <1>2 DEF Deserialized
  <1> HIDE DEF n, d
  <1>4. ASSUME NEW i \in own
        PROVE  /\ f[c] # <<>> /\ After(bytes, i - 1) = Place(f, j)
    <2>1. PICK l \in 1 .. Len(Chunks) : f[Chunks[l]] # <<>> /\ Number(f, l - 1) = i - 1
      BY <1>4, NumberReached DEF n
    <2>2. /\ After(bytes, Number(f, l - 1)) = Place(f, l)
          /\ IsRead(bytes, Place(f, l), Chunks[l], f[Chunks[l]])
      BY <2>1, AcceptedReads
    <2>3. bytes[After(bytes, i - 1)].value = Chunks[l]
      BY <2>1, <2>2 DEF IsRead
    <2>4. Chunks[l] = c
      BY <1>4, <2>3
    <2>5. l = j
      BY <1>1, <2>4, TheChunks
    <2>6. QED
      BY <1>1, <2>1, <2>2, <2>5
  <1>5. CASE f[c] = <<>>
    <2>1. own = {}
      <3> HIDE DEF own
      <3>1. QED
        BY <1>4, <1>5
    <2>2. d = <<>>
      BY <1>3, <2>1
    <2>3. Len(f[c]) = 0 /\ 0 % CountLimit = 0
      BY <1>5, IndexAssumption
    <2>4. [k \in 1 .. (Len(f[c]) % CountLimit) |-> f[c][k]] = <<>>
      BY <2>3
    <2>5. QED
      BY <1>5, <2>2, <2>4 DEF d
  <1>6. CASE f[c] # <<>>
    <2>1. /\ Number(f, j - 1) + 1 \in 1 .. n
          /\ After(bytes, Number(f, j - 1)) = Place(f, j)
          /\ IsRead(bytes, Place(f, j), c, f[c])
      BY <1>1, <1>6, AcceptedReads DEF n
    <2>2. own # {}
      <3> DEFINE i == Number(f, j - 1) + 1
      <3>1. i - 1 = Number(f, j - 1)
        <4>1. j - 1 \in 0 .. Len(Chunks)
          BY TheChunks
        <4>2. Number(f, j - 1) \in Nat
          BY <1>0, <4>1
        <4>3. QED
          BY <4>2
      <3>2. i \in own
        BY <2>1, <3>1 DEF IsRead
      <3> HIDE DEF own
      <3>3. QED
        BY <3>2
    <2> DEFINE at == Place(f, j)
               r == Len(f[c]) % CountLimit
    <2> HIDE DEF own
    <2>3. (CHOOSE i \in own : TRUE) \in own
      BY <2>2
    <2>4. After(bytes, (CHOOSE i \in own : TRUE) - 1) = at
      BY <1>4, <2>3
    <2>5. d = [k \in 1 .. bytes[at + 1].value |-> bytes[at + 1 + k].value]
      BY <1>3, <2>2, <2>4
    <2>6. bytes[at + 1].value = r /\ c \in ValidChunks /\ \A k \in 1 .. r : bytes[(at + 1) + k].value = f[c][k]
      BY <2>1 DEF IsRead
    <2>7. at \in Nat
      BY OffsetStep DEF Place
    <2> HIDE DEF at, r
    <2>8. r \in Nat
      <3>1. Len(f[c]) \in Nat
        BY DEF IndexType
      <3>2. QED
        BY <3>1, Remainder, SMTT(30) DEF r
    <2>9. \A k \in 1 .. r : bytes[at + 1 + k].value = f[c][k]
      <3>1. \A k \in 1 .. r : at + 1 + k = (at + 1) + k
        BY <2>7, <2>8
      <3>2. QED
        BY <2>6, <3>1
    <2>10. d = [k \in 1 .. r |-> f[c][k]]
      BY <2>5, <2>6, <2>9
    <2>11. QED
      BY <2>6, <2>10 DEF d, r
  <1>7. QED
    BY <1>5, <1>6

\* The bytes end where they should.
LEMMA AcceptedLength ==
    ASSUME NEW f \in IndexType, NEW bytes, CutOf(bytes, Serialized(f)), Accepted(bytes)
    PROVE  Len(bytes) = Len(Serialized(f)) <=> ~Oversized(f, Len(Chunks))
  <1> DEFINE n == Number(f, Len(Chunks))
             full == Serialized(f)
             o == Offset(f, Len(Chunks))
  <1>1. Len(Chunks) \in 0 .. Len(Chunks)
    BY TheChunks
  <1>2. After(bytes, n) = Len(bytes) + 1
    BY Announced DEF Accepted
  <1>3. Len(full) = 1 + o /\ o \in Nat /\ Len(bytes) \in Nat
    BY <1>1, SerializedIs, Layout DEF CutOf
  <1>4. ReadTo(bytes, f, Len(Chunks))
    BY <1>1, ReadAll
  <1>5. \/ After(bytes, n) = 0
        \/ ~Oversized(f, Len(Chunks)) /\ After(bytes, n) = 2 + o
        \/ Oversized(f, Len(Chunks)) /\ After(bytes, n) < 2 + o
    BY <1>4 DEF ReadTo
  <1> HIDE DEF n, full, o
  <1>6. QED
    BY <1>2, <1>3, <1>5 DEF full

\* Whole bytes of valid identities whose counts fit are accepted.
LEMMA WholeIsAccepted ==
    ASSUME NEW f \in IndexType, ~Oversized(f, Len(Chunks)),
           \A c \in Ids : f[c] # <<>> => c \in ValidChunks
    PROVE  Accepted(Serialized(f))
  <1> DEFINE n == Len(Chunks)
             full == Serialized(f)
             bad == {i \in 0 .. n : After(full, Number(f, i)) # 2 + Offset(f, i)}
  <1>0. n \in Nat /\ n \in 0 .. n
    BY TheChunks
  <1>1. full \in Seq(FieldType) /\ Len(full) = 1 + Offset(f, n) /\ full[1] = Field("identities", Number(f, n))
    BY SerializedIs
  <1>2. Offset(f, n) \in Nat
    BY <1>0, Layout
  <1>3. bad = {}
    <2> SUFFICES ASSUME bad # {} PROVE FALSE
      OBVIOUS
    <2>1. bad \in SUBSET Nat
      OBVIOUS
    <2> HIDE DEF bad
    <2>2. PICK i \in bad : \A j \in bad : i <= j
      BY <2>1, Smallest
    <2>3. i \in 0 .. n /\ After(full, Number(f, i)) # 2 + Offset(f, i)
      BY <2>2 DEF bad
    <2>4. i # 0
      <3> SUFFICES ASSUME i = 0 PROVE FALSE
        OBVIOUS
      <3>1. UpTo(f)[0] = <<>> /\ Len(<<>>) = 0
        BY UpToStep
      <3>2. Offset(f, 0) = 0 /\ Number(f, 0) = 0
        BY <3>1, NumberStep DEF Offset
      <3>3. After(full, 0) = 2
        BY <1>1, AfterStep
      <3>4. QED
        BY <2>3, <3>2, <3>3
    <2>5. i \in 1 .. n /\ i - 1 \in 0 .. n /\ i - 1 \notin bad
      BY <1>0, <2>2, <2>3, <2>4
    <2> DEFINE c == Chunks[i]
               own == f[c]
               o == Offset(f, i - 1)
               m == Number(f, i - 1)
               l == Len(own)
    <2>6. After(full, m) = 2 + o
      BY <2>5 DEF bad
    <2>7. c \in Ids /\ own \in Seq(EntryType) /\ l \in Nat
      BY <2>5, TheChunks DEF IndexType
    <2>8. /\ m \in Nat
          /\ Number(f, i) = IF own = <<>> THEN m ELSE m + 1
      BY <2>5, NumberStep
    <2>9. o \in Nat /\ (own = <<>> => Offset(f, i) = o)
      BY <2>5, OffsetStep
    <2>10. own # <<>>
      BY <2>3, <2>6, <2>8, <2>9
    <2>11. /\ Placed(full, o + 2, c, own) /\ Offset(f, i) = o + (2 + l)
           /\ Offset(f, i) <= Offset(f, n)
      BY <2>5, <2>10, SerializedIs
    <2>12. l < CountLimit /\ c \in ValidChunks /\ CountLimit \in Nat
      <3>1. ~(l >= CountLimit)
        BY <2>5 DEF Oversized
      <3>2. QED
        BY <2>7, <2>10, <3>1, IndexAssumption
    <2>13. l % CountLimit = l
      BY <2>7, <2>12, Remainder
    <2> DEFINE at == o + 2
               x == full[at]
               y == full[at + 1]
    <2>14. /\ x = Field("identity", c) /\ y = Field("count", l)
           /\ \A k \in 1 .. l : full[(at + 1) + k] = Field("version", own[k])
      BY <2>11, <2>13 DEF Placed
    <2>15. After(full, Number(f, i)) = NextPlace(full, at)
      <3> DEFINE p == m + 1
      <3>1. p \in Nat \ {0} /\ p - 1 = m /\ Number(f, i) = p
        BY <2>8, <2>10
      <3> HIDE DEF p, m
      <3>2. After(full, p) = NextPlace(full, After(full, p - 1))
        BY <1>1, <3>1, AfterStep
      <3>3. After(full, m) = at
        BY <2>6, <2>9
      <3>4. QED
        BY <3>1, <3>2, <3>3
    <2> HIDE DEF x, y, l, own, c, o, full
    <2>16. x.kind = "identity" /\ x.value = c /\ y.kind = "count" /\ y.value = l
      BY <2>14 DEF Field
    <2>17. at + 1 + l <= Len(full) /\ at \in Nat \ {0}
      BY <1>1, <1>2, <2>7, <2>9, <2>11
    <2> HIDE DEF at
    <2>18. at <= Len(full) /\ at + 1 <= Len(full)
           /\ \A k \in 1 .. l : at + 1 + k <= Len(full) /\ at + 1 + k = (at + 1) + k
      <3>1. Len(full) \in Nat
        BY <1>1
      <3>2. QED
        BY <2>7, <2>17, <3>1
    <2>19. ASSUME NEW k \in 1 .. l PROVE full[at + 1 + k].kind = "version"
      <3> DEFINE z == full[at + 1 + k]
      <3>1. z = Field("version", own[k])
        BY <2>14, <2>18
      <3> HIDE DEF z
      <3>2. z.kind = "version"
        BY <3>1 DEF Field
      <3>3. QED
        BY <3>2 DEF z
    <2>20. IdentityReadable(full, at)
      BY <2>12, <2>16, <2>18, <2>19 DEF IdentityReadable, Reads, x, y
    <2>21. NextPlace(full, at) = at + 2 + l
      BY <2>16, <2>17, <2>20 DEF NextPlace, y
    <2>22. at + 2 + l = 2 + Offset(f, i)
      BY <2>7, <2>9, <2>11 DEF at
    <2>23. QED
      BY <2>3, <2>15, <2>21, <2>22
  <1>4. After(full, Number(f, n)) = Len(full) + 1
    <2>1. After(full, Number(f, n)) = 2 + Offset(f, n)
      BY <1>0, <1>3
    <2>2. QED
      BY <1>1, <1>2, <2>1
  <1>5. Reads(full, 1, "identities") /\ full[1].value = Number(f, n)
    <2> DEFINE x == full[1]
               m == Number(f, n)
    <2>1. x = Field("identities", m) /\ 1 <= Len(full)
      BY <1>1, <1>2
    <2> HIDE DEF x, m
    <2>2. x.kind = "identities" /\ x.value = m
      BY <2>1 DEF Field
    <2>3. QED
      BY <2>1, <2>2 DEF Reads, x, m
  <1>6. QED
    BY <1>4, <1>5 DEF Accepted
-----------------------------------------------------------------------------
(* The versioned index.                                                    *)

\* s has the entries of S, each once.
Listing(s, S) ==
    /\ s \in Seq(EntryType) /\ Elements(s) = S
    /\ \A i, j \in 1 .. Len(s) : i # j => s[i] # s[j]

InOrder(s) == \A i, j \in 1 .. Len(s) : i < j => s[i].timestamp <= s[j].timestamp

\* Sorting loses and doubles nothing.
LEMMA SortedIs ==
    ASSUME NEW s, NEW S, Listing(s, S), NEW t \in Sorted(s)
    PROVE  Listing(t, S) /\ InOrder(t)
  <1> DEFINE n == Len(s)
             D == 1 .. n
  <1>1. s \in Seq(EntryType) /\ Elements(s) = S /\ \A i, j \in D : i # j => s[i] # s[j]
    BY DEF Listing
  <1>2. n \in Nat /\ DOMAIN s = D /\ \A i \in D : s[i] \in EntryType
    BY <1>1
  <1>3. PICK p \in [D -> D] : /\ \A i, j \in D : i # j => p[i] # p[j]
                              /\ t = [i \in D |-> s[p[i]]]
                              /\ \A i, j \in DOMAIN t : i < j => t[i].timestamp <= t[j].timestamp
    BY <1>2 DEF Sorted
  <1>4. IsFiniteSet(D)
    BY <1>2, FS_Interval
  <1>d. D = 1 .. n
    OBVIOUS
  <1> HIDE DEF D, n
  <1>5. p \in Injection(D, D)
    BY <1>3 DEF Injection, IsInjective
  <1>6. p \in Surjection(D, D)
    BY <1>4, <1>5, FS_Injection
  <1>7. \A i \in D : \E j \in D : p[j] = i
    BY <1>6 DEF Surjection
  <1>8. \A i \in D : p[i] \in D /\ t[i] = s[p[i]]
    BY <1>3
  <1>9. t \in [D -> EntryType] /\ DOMAIN t = D
    BY <1>2, <1>3, <1>8
  <1>10. t \in Seq(EntryType) /\ Len(t) = n
    BY <1>2, <1>9, <1>d
  <1>11. Elements(t) = S
    <2>1. Elements(t) = {t[i] : i \in D} /\ S = {s[i] : i \in D}
      BY <1>1, <1>2, <1>9 DEF Elements
    <2>2. {t[i] : i \in D} = {s[i] : i \in D}
      BY <1>7, <1>8
    <2>3. QED
      BY <2>1, <2>2
  <1>12. \A i, j \in D : i # j => t[i] # t[j]
    BY <1>1, <1>3, <1>8
  <1>13. QED
    BY <1>3, <1>9, <1>10, <1>11, <1>12, <1>d, ZenonT(30) DEF Listing, InOrder

\* What the bytes were saved of, and how much of them is left.
SavedAs(f) ==
    /\ CutOf(saved, Serialized(f))
    /\ whole <=> Len(saved) = Len(Serialized(f))
    /\ \A c \in Ids : Listing(f[c], savedEntries[c])

IndexTypeOK ==
    /\ serial \in Nat /\ versions \in IndexType
    /\ entries \in [Ids -> SUBSET EntryType] /\ savedEntries \in [Ids -> SUBSET EntryType]

\* The index lists the entries it should hold, in the order of their times;
\* each is older than the next; and the bytes are those of an index, or the
\* beginning of them.
IndexInv ==
    /\ IndexTypeOK
    /\ \A c \in Ids : Listing(versions[c], entries[c]) /\ InOrder(versions[c])
    /\ \A c \in Ids : \A e \in entries[c] \cup savedEntries[c] : e.serial < serial
    /\ saved # Unsaved => \E f \in IndexType : SavedAs(f)

\* The empty index.
LEMMA IndexInitial == IndexInit => IndexInv
  <1> SUFFICES ASSUME IndexInit PROVE IndexInv
    OBVIOUS
  <1>1. versions = [c \in Ids |-> <<>>] /\ entries = NoEntries /\ serial = 0 /\ saved = Unsaved
        /\ savedEntries = NoEntries
    BY DEF IndexInit
  <1>2. IndexTypeOK
    BY <1>1 DEF IndexTypeOK, IndexType, NoEntries
  <1>3. Listing(<<>>, {}) /\ InOrder(<<>>)
    BY DEF Listing, InOrder, Elements
  <1>4. QED
    BY <1>1, <1>2, <1>3 DEF IndexInv, NoEntries

\* A version is put where its time belongs.
LEMMA AddVersionKeeps ==
    ASSUME IndexInv, NEW c \in Ids, NEW format \in Formats, NEW timestamp \in Timestamps,
           AddVersion(c, format, timestamp)
    PROVE  IndexInv'
  <1> DEFINE entry == [serial |-> serial, format |-> format, timestamp |-> timestamp]
             s == Append(versions[c], entry)
             S == entries[c] \cup {entry}
  <1>1. /\ serial \in Nat /\ versions \in IndexType
        /\ entries \in [Ids -> SUBSET EntryType] /\ savedEntries \in [Ids -> SUBSET EntryType]
    BY DEF IndexInv, IndexTypeOK
  <1>2. serial' = serial + 1 /\ entries' = [entries EXCEPT ![c] = @ \cup {entry}]
        /\ saved' = saved /\ savedEntries' = savedEntries /\ whole' = whole
    BY DEF AddVersion
  <1>3. PICK t \in Sorted(s) : versions' = [versions EXCEPT ![c] = t]
    BY DEF AddVersion
  <1>4. entry \in EntryType
    BY <1>1, IndexAssumption DEF EntryType
  <1>5. entry \notin entries[c]
    <2>1. \A e \in entries[c] : e.serial < serial
      BY DEF IndexInv
    <2>2. entry.serial = serial
      OBVIOUS
    <2> HIDE DEF entry
    <2>3. QED
      BY <1>1, <2>1, <2>2
  <1>e. entry.serial = serial
    OBVIOUS
  <1> HIDE DEF entry
  <1>6. Listing(s, S)
    <2> DEFINE v == versions[c]
               n == Len(v)
    <2>1. v \in Seq(EntryType) /\ Elements(v) = entries[c] /\ \A i, j \in 1 .. n : i # j => v[i] # v[j]
      BY DEF IndexInv, Listing
    <2> HIDE DEF v
    <2>2. n \in Nat /\ DOMAIN v = 1 .. n
      BY <2>1
    <2>3. s = Append(v, entry)
      BY DEF v
    <2>4. /\ Append(v, entry) \in Seq(EntryType) /\ Len(Append(v, entry)) = n + 1
          /\ (\A i \in 1 .. n : Append(v, entry)[i] = v[i]) /\ Append(v, entry)[n + 1] = entry
      BY <1>4, <2>1, AppendProperties
    <2>5. s \in Seq(EntryType) /\ Len(s) = n + 1 /\ (\A i \in 1 .. n : s[i] = v[i]) /\ s[n + 1] = entry
      BY <2>3, <2>4
    <2> HIDE DEF s, n
    <2>6. DOMAIN s = 1 .. n + 1 /\ n + 1 \in 1 .. n + 1
          /\ \A i \in 1 .. n + 1 : i \in 1 .. n \/ i = n + 1
      BY <2>2, <2>5
    <2>7. entries[c] = {v[i] : i \in 1 .. n}
      BY <2>1, <2>2 DEF Elements
    <2>8. Elements(s) = S
      <3>1. Elements(s) = {s[i] : i \in 1 .. n + 1}
        BY <2>6 DEF Elements
      <3>2. \A i \in 1 .. n : i \in 1 .. n + 1
        BY <2>2
      <3>3. {s[i] : i \in 1 .. n + 1} = {v[i] : i \in 1 .. n} \cup {entry}
        BY <2>5, <2>6, <3>2
      <3>4. QED
        BY <2>7, <3>1, <3>3
    <2>9. \A i \in 1 .. n : v[i] # entry
      BY <1>5, <2>7
    <2>10. ASSUME NEW i \in 1 .. n + 1, NEW j \in 1 .. n + 1, i # j PROVE s[i] # s[j]
      BY <2>1, <2>5, <2>6, <2>9, <2>10 DEF n
    <2>11. QED
      BY <2>5, <2>8, <2>10 DEF Listing
  <1>7. Listing(t, S) /\ InOrder(t)
    <2> HIDE DEF s, S
    <2>1. QED
      BY <1>3, <1>6, SortedIs
  <1>8. IndexTypeOK'
    <2>1. t \in Seq(EntryType)
      BY <1>7 DEF Listing
    <2>2. QED
      BY <1>1, <1>2, <1>3, <1>4, <2>1 DEF IndexTypeOK, IndexType
  <1>9. ASSUME NEW d \in Ids PROVE Listing(versions[d], entries[d])' /\ InOrder(versions[d])'
    <2>1. CASE d = c
      <3>1. versions'[d] = t /\ entries'[d] = S
        BY <1>1, <1>2, <1>3, <2>1 DEF IndexType
      <3> HIDE DEF S
      <3>2. Listing(versions'[d], entries'[d]) /\ InOrder(versions'[d])
        BY <1>7, <3>1
      <3>3. QED
        BY <3>2 DEF Listing, InOrder, Elements
    <2>2. CASE d # c
      <3>1. versions'[d] = versions[d] /\ entries'[d] = entries[d]
        BY <1>1, <1>2, <1>3, <2>2 DEF IndexType
      <3>2. Listing(versions[d], entries[d]) /\ InOrder(versions[d])
        BY DEF IndexInv
      <3>3. Listing(versions'[d], entries'[d]) /\ InOrder(versions'[d])
        BY <3>1, <3>2
      <3>4. QED
        BY <3>3 DEF Listing, InOrder, Elements
    <2>3. QED
      BY <2>1, <2>2
  <1>10. ASSUME NEW d \in Ids, NEW e \in entries'[d] \cup savedEntries'[d] PROVE e.serial < serial'
    <2>1. e = entry \/ e \in entries[d] \cup savedEntries[d]
      BY <1>1, <1>2
    <2>2. CASE e = entry
      BY <1>1, <1>2, <1>e, <2>2
    <2>3. CASE e \in entries[d] \cup savedEntries[d]
      <3>1. e.serial < serial /\ e \in EntryType
        BY <1>1, <2>3 DEF IndexInv
      <3>2. e.serial \in Nat
        BY <3>1 DEF EntryType
      <3>3. QED
        BY <1>1, <1>2, <3>1, <3>2
    <2>4. QED
      BY <2>1, <2>2, <2>3
  <1>11. ASSUME saved' # Unsaved PROVE \E f \in IndexType : SavedAs(f)'
    <2>1. PICK f \in IndexType : SavedAs(f)
      BY <1>2, <1>11 DEF IndexInv
    <2>2. SavedAs(f)'
      BY <1>2, <2>1 DEF SavedAs
    <2>3. QED
      BY <2>2
  <1>12. QED
    BY <1>8, <1>9, <1>10, <1>11 DEF IndexInv

\* Nothing is left, and what was saved stays saved.
LEMMA ClearKeeps ==
    ASSUME IndexInv, Clear
    PROVE  IndexInv'
  <1>1. versions' = [c \in Ids |-> <<>>] /\ entries' = NoEntries /\ serial' = serial
        /\ saved' = saved /\ savedEntries' = savedEntries /\ whole' = whole
    BY DEF Clear
  <1>2. IndexTypeOK'
    BY <1>1 DEF IndexInv, IndexTypeOK, IndexType, NoEntries
  <1>3. ASSUME NEW c \in Ids PROVE Listing(versions[c], entries[c])' /\ InOrder(versions[c])'
    <2>1. versions'[c] = <<>> /\ entries'[c] = {}
      BY <1>1 DEF NoEntries
    <2>2. QED
      BY <2>1 DEF Listing, InOrder, Elements
  <1>4. ASSUME NEW c \in Ids, NEW e \in entries'[c] \cup savedEntries'[c] PROVE e.serial < serial'
    BY <1>1 DEF IndexInv, NoEntries
  <1>5. ASSUME saved' # Unsaved PROVE \E f \in IndexType : SavedAs(f)'
    <2>1. PICK f \in IndexType : SavedAs(f)
      BY <1>1, <1>5 DEF IndexInv
    <2>2. SavedAs(f)'
      BY <1>1, <2>1 DEF SavedAs
    <2>3. QED
      BY <2>2
  <1>6. QED
    BY <1>2, <1>3, <1>4, <1>5 DEF IndexInv

\* The bytes are those of the versions, whole.
LEMMA SerializeKeeps ==
    ASSUME IndexInv, Serialize
    PROVE  IndexInv'
  <1>1. saved' = Serialized(versions) /\ savedEntries' = entries /\ whole' = TRUE
        /\ versions' = versions /\ entries' = entries /\ serial' = serial
    BY DEF Serialize
  <1>2. IndexTypeOK'
    BY <1>1 DEF IndexInv, IndexTypeOK
  <1>3. ASSUME NEW c \in Ids PROVE Listing(versions[c], entries[c])' /\ InOrder(versions[c])'
    <2>1. Listing(versions[c], entries[c]) /\ InOrder(versions[c])
      BY DEF IndexInv
    <2>2. QED
      BY <1>1, <2>1 DEF Listing, InOrder, Elements
  <1>4. ASSUME NEW c \in Ids, NEW e \in entries'[c] \cup savedEntries'[c] PROVE e.serial < serial'
    BY <1>1 DEF IndexInv
  <1>5. PICK f \in IndexType : f = versions
    BY DEF IndexInv, IndexTypeOK
  <1> DEFINE full == Serialized(f)
  <1>6. CutOf(full, full)
    <2>1. full \in Seq(FieldType)
      BY SerializedIs
    <2> HIDE DEF full
    <2>2. QED
      BY <2>1 DEF CutOf
  <1>7. SavedAs(f)'
    <2>1. saved' = full
      BY <1>1, <1>5
    <2>2. ASSUME NEW c \in Ids PROVE Listing(f[c], savedEntries[c])'
      <3>1. Listing(f[c], entries[c])
        BY <1>5 DEF IndexInv
      <3>2. QED
        BY <1>1, <3>1 DEF Listing, Elements
    <2>3. CutOf(saved, Serialized(f))' /\ (whole <=> Len(saved) = Len(Serialized(f)))'
      BY <1>1, <1>6, <2>1 DEF CutOf
    <2>4. QED
      BY <2>2, <2>3 DEF SavedAs
  <1>8. \E g \in IndexType : SavedAs(g)'
    BY <1>7
  <1>9. QED
    BY <1>2, <1>3, <1>4, <1>8 DEF IndexInv

\* Bytes that are cut are the first ones, and fewer.
LEMMA TruncateKeeps ==
    ASSUME IndexInv, Truncate
    PROVE  IndexInv'
  <1>1. saved # Unsaved /\ whole /\ whole' = FALSE
        /\ versions' = versions /\ entries' = entries /\ serial' = serial /\ savedEntries' = savedEntries
    BY DEF Truncate
  <1>2. PICK k \in 0 .. Len(saved) - 1 : saved' = SubSeq(saved, 1, k)
    BY DEF Truncate
  <1>3. PICK f \in IndexType : SavedAs(f)
    BY <1>1 DEF IndexInv
  <1> DEFINE full == Serialized(f)
  <1>4. /\ saved \in Seq(FieldType) /\ full \in Seq(FieldType) /\ Len(saved) = Len(full)
        /\ \A i \in 1 .. Len(saved) : saved[i] = full[i]
    BY <1>1, <1>3 DEF SavedAs, CutOf
  <1> HIDE DEF full
  <1>5. /\ SubSeq(saved, 1, k) \in Seq(FieldType) /\ Len(SubSeq(saved, 1, k)) = k
        /\ \A i \in 1 .. k : SubSeq(saved, 1, k)[i] = saved[i]
    BY <1>4
  <1>6. Len(saved) \in Nat /\ k \in Nat /\ k < Len(saved) /\ \A i \in 1 .. k : i \in 1 .. Len(saved)
    BY <1>4
  <1>7. CutOf(saved', full) /\ Len(saved') # Len(full)
    <2>1. saved' \in Seq(FieldType) /\ Len(saved') = k /\ \A i \in 1 .. k : saved'[i] = saved[i]
      BY <1>2, <1>5
    <2>2. QED
      BY <1>4, <1>6, <2>1, SMTT(30) DEF CutOf
  <1>8. SavedAs(f)'
    <2>1. ASSUME NEW c \in Ids PROVE Listing(f[c], savedEntries[c])'
      <3>1. Listing(f[c], savedEntries[c])
        BY <1>3 DEF SavedAs
      <3>2. QED
        BY <1>1, <3>1 DEF Listing, Elements
    <2>2. QED
      BY <1>1, <1>7, <2>1 DEF SavedAs, full, CutOf
  <1>9. IndexTypeOK'
    BY <1>1 DEF IndexInv, IndexTypeOK
  <1>10. ASSUME NEW c \in Ids PROVE Listing(versions[c], entries[c])' /\ InOrder(versions[c])'
    <2>1. Listing(versions[c], entries[c]) /\ InOrder(versions[c])
      BY DEF IndexInv
    <2>2. QED
      BY <1>1, <2>1 DEF Listing, InOrder, Elements
  <1>11. ASSUME NEW c \in Ids, NEW e \in entries'[c] \cup savedEntries'[c] PROVE e.serial < serial'
    BY <1>1 DEF IndexInv
  <1>12. \E g \in IndexType : SavedAs(g)'
    BY <1>8
  <1>13. QED
    BY <1>9, <1>10, <1>11, <1>12 DEF IndexInv

\* The counts that fit are those of the saved lists.
LEMMA FittingCounts ==
    ASSUME NEW f \in IndexType, SavedAs(f)
    PROVE  CountsFit(savedEntries) <=> ~Oversized(f, Len(Chunks))
  <1>1. ASSUME NEW c \in Ids PROVE Cardinality(savedEntries[c]) = Len(f[c]) /\ Len(f[c]) \in Nat
    <2>1. /\ f[c] \in Seq(EntryType) /\ Elements(f[c]) = savedEntries[c]
          /\ \A i, j \in 1 .. Len(f[c]) : i # j => f[c][i] # f[c][j]
      BY DEF SavedAs, Listing
    <2> DEFINE s == f[c]
    <2>s. s = f[c]
      OBVIOUS
    <2> HIDE DEF s
    <2>2. s \in Seq(EntryType) /\ \A i, j \in 1 .. Len(s) : i # j => s[i] # s[j]
      BY <2>1, <2>s
    <2>3. Cardinality({s[i] : i \in DOMAIN s}) = Len(s)
      BY <2>2, LengthIsNumber
    <2>4. Len(s) \in Nat
      BY <2>2
    <2>5. QED
      BY <2>1, <2>3, <2>4, <2>s DEF Elements
  <1>2. CountLimit \in Nat
    BY IndexAssumption
  <1>3. \A c \in Ids : Cardinality(savedEntries[c]) < CountLimit <=> ~(Len(f[c]) >= CountLimit)
    BY <1>1, <1>2
  <1>4. Ids = {Chunks[i] : i \in 1 .. Len(Chunks)}
    BY TheChunks
  <1>5. QED
    BY <1>3, <1>4 DEF CountsFit, Oversized

\* What is read are the saved versions, sorted again.
LEMMA DeserializeKeeps ==
    ASSUME IndexInv, Deserialize
    PROVE  IndexInv'
  <1> DEFINE index == Deserialized(saved)
  <1>1. saved # Unsaved /\ Accepted(saved)
        /\ serial' = serial /\ saved' = saved /\ savedEntries' = savedEntries /\ whole' = whole
        /\ entries' = IF whole \/ CountsFit(savedEntries) THEN savedEntries
                      ELSE [c \in Ids |-> Elements(index[c])]
    BY DEF Deserialize
  <1>2. /\ versions' \in [Ids -> UNION {Sorted(index[c]) : c \in Ids}]
        /\ \A c \in Ids : versions'[c] \in Sorted(index[c])
    BY DEF Deserialize
  <1>3. PICK f \in IndexType : SavedAs(f)
    BY <1>1 DEF IndexInv
  <1>4. CutOf(saved, Serialized(f))
    BY <1>3 DEF SavedAs
  <1>5. /\ savedEntries \in [Ids -> SUBSET EntryType] /\ serial \in Nat
        /\ \A c \in Ids : \A e \in savedEntries[c] : e.serial < serial
    BY DEF IndexInv, IndexTypeOK
  <1>6. ASSUME NEW c \in Ids
        PROVE  /\ Listing(index[c], Elements(index[c])) /\ Elements(index[c]) \subseteq savedEntries[c]
               /\ ~Oversized(f, Len(Chunks)) => Elements(index[c]) = savedEntries[c]
    <2> DEFINE s == f[c]
               n == Len(s)
               r == n % CountLimit
               d == index[c]
    <2>1. s \in Seq(EntryType) /\ Elements(s) = savedEntries[c] /\ \A i, j \in 1 .. n : i # j => s[i] # s[j]
      BY <1>3 DEF SavedAs, Listing
    <2>2. d = [k \in 1 .. r |-> s[k]]
      BY <1>1, <1>4, ReadBack
    <2>3. ~Oversized(f, Len(Chunks)) => ~(n >= CountLimit)
      <3>1. PICK j \in 1 .. Len(Chunks) : Chunks[j] = c
        BY TheChunks
      <3>2. QED
        BY <3>1 DEF Oversized
    <2> HIDE DEF s, d
    <2>4. n \in Nat /\ DOMAIN s = 1 .. n /\ \A i \in 1 .. n : s[i] \in EntryType
      BY <2>1
    <2>5. r \in 0 .. n /\ (n < CountLimit => r = n)
      BY <2>4, Remainder
    <2>c. CountLimit \in Nat
      BY IndexAssumption
    <2> HIDE DEF n, r
    <2>6. \A i \in 1 .. r : i \in 1 .. n /\ d[i] = s[i] /\ s[i] \in EntryType
      BY <2>2, <2>4, <2>5
    <2>7. d \in [1 .. r -> EntryType]
      BY <2>2, <2>6
    <2>8. d \in Seq(EntryType) /\ Len(d) = r /\ DOMAIN d = 1 .. r
      BY <2>4, <2>5, <2>7
    <2>9. Elements(d) = {d[i] : i \in 1 .. r} /\ savedEntries[c] = {s[i] : i \in 1 .. n}
      BY <2>1, <2>4, <2>8 DEF Elements
    <2>10. Elements(d) \subseteq savedEntries[c]
      BY <2>6, <2>9
    <2>11. Listing(d, Elements(d))
      BY <2>1, <2>6, <2>8 DEF Listing, n
    <2>12. ASSUME ~Oversized(f, Len(Chunks)) PROVE Elements(d) = savedEntries[c]
      <3>1. r = n
        BY <2>3, <2>4, <2>5, <2>12, <2>c
      <3>2. {d[i] : i \in 1 .. r} = {s[i] : i \in 1 .. n}
        BY <2>6, <3>1
      <3>3. QED
        BY <2>9, <3>2
    <2>13. QED
      BY <2>10, <2>11, <2>12 DEF d
  <1> HIDE DEF index
  <1>7. ASSUME whole \/ CountsFit(savedEntries) PROVE ~Oversized(f, Len(Chunks))
    <2>1. CASE whole
      <3>1. Len(saved) = Len(Serialized(f))
        BY <1>3, <2>1 DEF SavedAs
      <3>2. QED
        BY <1>1, <1>4, <3>1, AcceptedLength
    <2>2. CASE CountsFit(savedEntries)
      BY <1>3, <2>2, FittingCounts
    <2>3. QED
      BY <1>7, <2>1, <2>2
  <1>8. ASSUME NEW c \in Ids PROVE entries'[c] = Elements(index[c]) /\ entries'[c] \subseteq savedEntries[c]
    <2>1. CASE whole \/ CountsFit(savedEntries)
      BY <1>1, <1>6, <1>7, <2>1
    <2>2. CASE ~(whole \/ CountsFit(savedEntries))
      BY <1>1, <1>6, <2>2
    <2>3. QED
      BY <2>1, <2>2
  <1>9. entries' \in [Ids -> SUBSET EntryType]
    <2>1. \A c \in Ids : savedEntries[c] \subseteq EntryType
      BY <1>5
    <2>2. CASE whole \/ CountsFit(savedEntries)
      BY <1>1, <1>5, <2>2
    <2>3. CASE ~(whole \/ CountsFit(savedEntries))
      <3>1. \A c \in Ids : Elements(index[c]) \subseteq EntryType
        BY <1>6, <2>1
      <3>2. QED
        BY <1>1, <2>3, <3>1
    <2>4. QED
      BY <2>2, <2>3
  <1>10. ASSUME NEW c \in Ids PROVE Listing(versions'[c], entries'[c]) /\ InOrder(versions'[c])
    <2>1. Listing(index[c], Elements(index[c])) /\ versions'[c] \in Sorted(index[c])
      BY <1>2, <1>6
    <2>2. Listing(versions'[c], Elements(index[c])) /\ InOrder(versions'[c])
      BY <2>1, SortedIs
    <2>3. QED
      BY <1>8, <2>2
  <1>11. IndexTypeOK'
    <2>1. \A c \in Ids : versions'[c] \in Seq(EntryType)
      BY <1>10 DEF Listing
    <2>2. versions' \in [Ids -> Seq(EntryType)]
      BY <1>2, <2>1
    <2>3. QED
      BY <1>1, <1>5, <1>9, <2>2 DEF IndexTypeOK, IndexType
  <1>12. ASSUME NEW c \in Ids PROVE Listing(versions[c], entries[c])' /\ InOrder(versions[c])'
    BY <1>10 DEF Listing, InOrder, Elements
  <1>13. ASSUME NEW c \in Ids, NEW e \in entries'[c] \cup savedEntries'[c] PROVE e.serial < serial'
    BY <1>1, <1>5, <1>8
  <1>14. SavedAs(f)'
    BY <1>1, <1>3 DEF SavedAs
  <1>15. QED
    BY <1>11, <1>12, <1>13, <1>14 DEF IndexInv

\* The inductive invariant of the versioned index: what the index holds and what
\* its bytes hold are listings of the entries they should have, in order of
\* time, without repetition.
THEOREM IndexInvariant == IndexSpec => []IndexInv
  <1>1. IndexInit => IndexInv
    BY IndexInitial
  <1>2. IndexInv /\ [IndexNext]_indexVars => IndexInv'
    <2> SUFFICES ASSUME IndexInv, [IndexNext]_indexVars PROVE IndexInv'
      OBVIOUS
    <2>1. CASE \E c \in Ids, format \in Formats, timestamp \in Timestamps : AddVersion(c, format, timestamp)
      BY <2>1, AddVersionKeeps
    <2>2. CASE Clear
      BY <2>2, ClearKeeps
    <2>3. CASE Serialize
      BY <2>3, SerializeKeeps
    <2>4. CASE Truncate
      BY <2>4, TruncateKeeps
    <2>5. CASE Deserialize
      BY <2>5, DeserializeKeeps
    <2>6. CASE UNCHANGED indexVars
      <3>1. versions' = versions /\ entries' = entries /\ serial' = serial /\ saved' = saved
            /\ savedEntries' = savedEntries /\ whole' = whole
        BY <2>6 DEF indexVars
      <3>2. IndexTypeOK'
        BY <3>1 DEF IndexInv, IndexTypeOK
      <3>3. ASSUME NEW c \in Ids PROVE Listing(versions[c], entries[c])' /\ InOrder(versions[c])'
        <4>1. Listing(versions[c], entries[c]) /\ InOrder(versions[c])
          BY DEF IndexInv
        <4>2. QED
          BY <3>1, <4>1 DEF Listing, InOrder, Elements
      <3>4. ASSUME NEW c \in Ids, NEW e \in entries'[c] \cup savedEntries'[c] PROVE e.serial < serial'
        BY <3>1 DEF IndexInv
      <3>5. ASSUME saved' # Unsaved PROVE \E f \in IndexType : SavedAs(f)'
        <4>1. PICK f \in IndexType : SavedAs(f)
          BY <3>1, <3>5 DEF IndexInv
        <4>2. SavedAs(f)'
          BY <3>1, <4>1 DEF SavedAs
        <4>3. QED
          BY <4>2
      <3>6. QED
        BY <3>2, <3>3, <3>4, <3>5 DEF IndexInv
    <2>7. QED
      BY <2>1, <2>2, <2>3, <2>4, <2>5, <2>6 DEF IndexNext
  <1>3. QED
    BY <1>1, <1>2, PTL DEF IndexSpec

\* The last entry of a list in order of time, and the last of a format.
LEMMA LatestIsLatest ==
    ASSUME NEW c \in Ids, NEW e, IndexInv, e \in entries[c]
    PROVE  /\ GetLatestVersion(c).timestamp >= e.timestamp
           /\ GetLatestVersionWithFormat(c, e.format).format = e.format
           /\ GetLatestVersionWithFormat(c, e.format).timestamp >= e.timestamp
  <1> DEFINE v == versions[c]
             n == Len(v)
             matching == {i \in DOMAIN v : v[i].format = e.format}
             last == CHOOSE i \in matching : \A j \in matching : j <= i
  <1>1. v \in Seq(EntryType) /\ Elements(v) = entries[c]
        /\ \A i, j \in 1 .. n : i < j => v[i].timestamp <= v[j].timestamp
    BY DEF IndexInv, Listing, InOrder
  <1>g. /\ GetLatestVersion(c) = IF v = <<>> THEN NoVersion ELSE v[n]
        /\ GetLatestVersionWithFormat(c, e.format) = IF matching = {} THEN NoVersion ELSE v[last]
    BY DEF GetLatestVersion, GetLatestVersionWithFormat
  <1> HIDE DEF v
  <1>2. n \in Nat /\ DOMAIN v = 1 .. n
    BY <1>1
  <1>3. \A i \in 1 .. n : v[i] \in EntryType /\ v[i].timestamp \in Nat
    <2> SUFFICES ASSUME NEW i \in 1 .. n PROVE v[i] \in EntryType /\ v[i].timestamp \in Nat
      OBVIOUS
    <2> DEFINE x == v[i]
    <2>1. x \in EntryType
      BY <1>1
    <2> HIDE DEF x
    <2>2. x.timestamp \in Nat
      BY <2>1 DEF EntryType
    <2>3. QED
      BY <2>1, <2>2 DEF x
  <1>4. PICK k \in 1 .. n : v[k] = e
    BY <1>1, <1>2 DEF Elements
  <1>5. v # <<>> /\ n \in 1 .. n
    BY <1>2, <1>4
  <1> HIDE DEF n
  <1>6. \A i, j \in 1 .. n : i <= j => v[j].timestamp >= v[i].timestamp
    <2> SUFFICES ASSUME NEW i \in 1 .. n, NEW j \in 1 .. n, i <= j PROVE v[j].timestamp >= v[i].timestamp
      OBVIOUS
    <2>1. v[i].timestamp \in Nat /\ v[j].timestamp \in Nat
      BY <1>3
    <2>2. i = j \/ i < j
      BY <1>2
    <2>3. QED
      BY <1>1, <2>1, <2>2 DEF n
  <1>7. v[n].timestamp >= e.timestamp
    <2>1. k <= n
      BY <1>2
    <2>2. QED
      BY <1>4, <1>5, <1>6, <2>1
  <1>8. k \in matching /\ matching \subseteq 1 .. n
    BY <1>2, <1>4
  <1>9. \E i \in matching : \A j \in matching : j <= i
    <2> DEFINE back == {n - i : i \in matching}
    <2>1. back \in SUBSET Nat /\ back # {}
      BY <1>2, <1>8
    <2> HIDE DEF back
    <2>2. PICK b \in back : \A d \in back : b <= d
      BY <2>1, Smallest
    <2>3. PICK i \in matching : b = n - i
      BY <2>2 DEF back
    <2>4. ASSUME NEW j \in matching PROVE j <= i
      <3>1. n - j \in back
        BY DEF back
      <3>2. n - i <= n - j /\ i \in 1 .. n /\ j \in 1 .. n
        BY <1>8, <2>2, <2>3, <3>1
      <3>3. QED
        BY <1>2, <3>2
    <2>5. QED
      BY <2>3, <2>4
  <1>10. last \in matching /\ \A j \in matching : j <= last
    <2> HIDE DEF matching
    <2>1. QED
      BY <1>9
  <1> HIDE DEF last
  <1>11. v[last].format = e.format /\ last \in 1 .. n /\ k <= last
    BY <1>8, <1>10
  <1>12. v[last].timestamp >= e.timestamp
    BY <1>4, <1>6, <1>11
  <1>13. matching # {}
    BY <1>8
  <1> HIDE DEF matching
  <1>14. GetLatestVersion(c) = v[n] /\ GetLatestVersionWithFormat(c, e.format) = v[last]
    BY <1>5, <1>13, <1>g
  <1>15. QED
    BY <1>7, <1>11, <1>12, <1>14

\* VersionedChunkIndex loses, doubles and reorders no version, also when the
\* index is saved and read again; bytes that were cut are refused, and whole ones
\* are read if their counts fit and their identities are valid.
THEOREM IndexStaysWhole == IndexSpec => []IndexKeepsVersions
  <1>1. ASSUME IndexInv PROVE EntriesAreKept
    <2>1. ASSUME NEW c \in Ids
          PROVE  Elements(versions[c]) = entries[c] /\ Len(versions[c]) = Cardinality(entries[c])
      <3> DEFINE v == versions[c]
      <3>1. v \in Seq(EntryType) /\ Elements(v) = entries[c] /\ \A i, j \in 1 .. Len(v) : i # j => v[i] # v[j]
        BY <1>1 DEF IndexInv, Listing
      <3> HIDE DEF v
      <3>2. Cardinality({v[i] : i \in DOMAIN v}) = Len(v)
        BY <3>1, LengthIsNumber
      <3>3. Elements(v) = entries[c] /\ Len(v) = Cardinality(entries[c])
        BY <3>1, <3>2 DEF Elements
      <3>4. QED
        BY <3>3 DEF v
    <2>2. \A c \in Ids : \A e \in entries[c] :
            /\ GetLatestVersion(c).timestamp >= e.timestamp
            /\ GetLatestVersionWithFormat(c, e.format).format = e.format
            /\ GetLatestVersionWithFormat(c, e.format).timestamp >= e.timestamp
      BY <1>1, LatestIsLatest
    <2>3. QED
      BY <2>1, <2>2 DEF EntriesAreKept
  <1>2. ASSUME IndexInv PROVE SavedIndexIsReadable
    <2> DEFINE valid == \A c \in Ids \ ValidChunks : savedEntries[c] = {}
    <2> SUFFICES ASSUME saved # Unsaved
                 PROVE  IF CountsFit(savedEntries) THEN Accepted(saved) <=> whole /\ valid
                        ELSE whole => ~Accepted(saved)
      BY DEF SavedIndexIsReadable
    <2>1. PICK f \in IndexType : SavedAs(f)
      BY <1>2 DEF IndexInv
    <2> DEFINE full == Serialized(f)
    <2>2. CutOf(saved, full) /\ (whole <=> Len(saved) = Len(full))
      BY <2>1 DEF SavedAs
    <2>3. CountsFit(savedEntries) <=> ~Oversized(f, Len(Chunks))
      BY <2>1, FittingCounts
    <2>4. Accepted(saved) => (Len(saved) = Len(full) <=> ~Oversized(f, Len(Chunks)))
      BY <2>2, AcceptedLength
    <2>5. \A c \in Ids : savedEntries[c] = {} <=> f[c] = <<>>
      <3> SUFFICES ASSUME NEW c \in Ids PROVE savedEntries[c] = {} <=> f[c] = <<>>
        OBVIOUS
      <3> DEFINE s == f[c]
      <3>1. s \in Seq(EntryType) /\ Elements(s) = savedEntries[c]
        BY <2>1 DEF SavedAs, Listing
      <3> HIDE DEF s
      <3>2. s # <<>> => 1 \in DOMAIN s
        BY <3>1
      <3>3. s = <<>> => DOMAIN s = {}
        OBVIOUS
      <3>4. Elements(s) = {} <=> s = <<>>
        BY <3>2, <3>3 DEF Elements
      <3>5. QED
        BY <3>1, <3>4 DEF s
    <2>6. valid <=> \A c \in Ids : f[c] # <<>> => c \in ValidChunks
      BY <2>5
    <2>7. ASSUME Accepted(saved) PROVE valid
      <3>1. \A c \in Ids : f[c] # <<>> => c \in ValidChunks
        BY <2>2, <2>7, ReadBack
      <3> HIDE DEF valid
      <3>2. QED
        BY <2>6, <3>1
    <2>8. ASSUME whole, valid, ~Oversized(f, Len(Chunks)) PROVE Accepted(saved)
      <3>1. saved = full
        <4> HIDE DEF full
        <4>1. saved \in Seq(FieldType) /\ full \in Seq(FieldType) /\ Len(saved) = Len(full)
              /\ \A i \in 1 .. Len(saved) : saved[i] = full[i]
          BY <2>2, <2>8 DEF CutOf
        <4>2. QED
          BY <4>1, SeqEqual
      <3>2. Accepted(full)
        BY <2>6, <2>8, WholeIsAccepted
      <3>3. QED
        BY <3>1, <3>2
    <2> HIDE DEF valid, full
    <2>9. CASE CountsFit(savedEntries)
      BY <2>2, <2>3, <2>4, <2>7, <2>8, <2>9
    <2>10. CASE ~CountsFit(savedEntries)
      BY <2>2, <2>3, <2>4, <2>10
    <2>11. QED
      BY <2>9, <2>10
  <1>3. IndexInv => IndexKeepsVersions
    BY <1>1, <1>2 DEF IndexKeepsVersions
  <1>4. QED
    BY <1>3, IndexInvariant, PTL
-----------------------------------------------------------------------------
(* The decoders of records.                                                *)

\* Powers ascend.
LEMMA PowersAscend ==
    ASSUME NEW base \in Nat \ {0, 1}, NEW j \in Nat, NEW k \in Nat, j <= k
    PROVE  Power(base, j) <= Power(base, k)
  <1> DEFINE P(i) == Power(base, i)
             bad == {i \in Nat : j <= i /\ ~(P(j) <= P(i))}
  <1>1. \A i \in Nat : P(i) \in Nat /\ P(i) < P(i + 1)
    BY PowerGrows
  <1> HIDE DEF P
  <1>2. bad = {}
    <2> SUFFICES ASSUME bad # {} PROVE FALSE
      OBVIOUS
    <2>1. PICK i \in bad : \A l \in bad : i <= l
      <3>1. bad \in SUBSET Nat
        OBVIOUS
      <3> HIDE DEF bad
      <3>2. QED
        BY <3>1, Smallest
    <2>2. i # j
      BY <1>1, <2>1
    <2>3. i - 1 \in Nat /\ j <= i - 1 /\ i - 1 \notin bad /\ (i - 1) + 1 = i
      BY <2>1, <2>2
    <2>4. P(j) <= P(i - 1) /\ P(i - 1) < P(i) /\ P(j) \in Nat /\ P(i - 1) \in Nat /\ P(i) \in Nat
      BY <1>1, <2>1, <2>3
    <2>5. QED
      BY <2>1, <2>4
  <1>3. P(j) <= P(k)
    BY <1>2
  <1>4. QED
    BY <1>3 DEF P

\* The number of digits of an integer other than zero.
LEMMA SizeIs ==
    ASSUME NEW v \in Int, NEW k \in Nat \ {0},
           Power(Radix, k - 1) <= Absolute(v), Absolute(v) < Power(Radix, k)
    PROVE  v # 0 /\ MagnitudeSize(v) = k
  <1> DEFINE a == Absolute(v)
             P(i) == Power(Radix, i)
  <1>0. a \in Nat /\ (v = 0 <=> a = 0) /\ k - 1 \in Nat /\ k \in Nat /\ (k - 1) + 1 = k
    BY DEF Absolute
  <1>1. \A i \in Nat : P(i) \in Nat \ {0} /\ i < P(i)
    BY RecordAssumption, PowerGrows
  <1>2. \A i, j \in Nat : i <= j => P(i) <= P(j)
    BY RecordAssumption, PowersAscend
  <1>3. P(k - 1) <= a /\ a < P(k)
    OBVIOUS
  <1>m. MagnitudeSize(v) = IF v = 0 THEN 0 ELSE CHOOSE i \in 1 .. a : P(i - 1) <= a /\ a < P(i)
    BY DEF MagnitudeSize
  <1> HIDE DEF P, a
  <1>4. a # 0 /\ k \in 1 .. a
    BY <1>0, <1>1, <1>3
  <1>5. ASSUME NEW i \in 1 .. a, P(i - 1) <= a, a < P(i) PROVE i = k
    <2>1. i \in Nat /\ i - 1 \in Nat /\ P(i) \in Nat /\ P(i - 1) \in Nat /\ P(k) \in Nat /\ P(k - 1) \in Nat
      BY <1>0, <1>1
    <2>2. ~(i <= k - 1)
      BY <1>0, <1>2, <1>3, <1>5, <2>1
    <2>3. ~(k <= i - 1)
      BY <1>0, <1>2, <1>3, <1>5, <2>1
    <2>4. QED
      BY <1>0, <2>1, <2>2, <2>3
  <1>6. v # 0
    BY <1>0, <1>4
  <1> DEFINE c == CHOOSE i \in 1 .. a : P(i - 1) <= a /\ a < P(i)
  <1>7. c \in 1 .. a /\ P(c - 1) <= a /\ a < P(c)
    BY <1>3, <1>4
  <1> HIDE DEF c
  <1>8. c = k
    BY <1>5, <1>7
  <1>9. QED
    BY <1>m, <1>6, <1>8 DEF c

\* A number that is not zero has a number of bytes.
LEMMA SizeExists ==
    ASSUME NEW v \in Int, v # 0
    PROVE  \E k \in Nat \ {0} : Power(Radix, k - 1) <= Absolute(v) /\ Absolute(v) < Power(Radix, k)
  <1> DEFINE a == Absolute(v)
             P(i) == Power(Radix, i)
             above == {i \in Nat : a < P(i)}
  <1>0. a \in Nat \ {0}
    BY DEF Absolute
  <1>1. (\A i \in Nat : P(i) \in Nat \ {0} /\ i < P(i)) /\ P(0) = 1
    BY RecordAssumption, PowerGrows, PowerOfZero
  <1> HIDE DEF P, a
  <1>2. a \in above /\ above \in SUBSET Nat
    BY <1>0, <1>1
  <1>3. PICK k \in above : \A j \in above : k <= j
    <2> HIDE DEF above
    <2>1. QED
      BY <1>2, Smallest
  <1>4. k # 0
    BY <1>0, <1>1, <1>3
  <1>5. k \in Nat \ {0} /\ k - 1 \in Nat /\ k - 1 \notin above
    BY <1>3, <1>4
  <1>6. P(k - 1) <= a /\ a < P(k)
    BY <1>0, <1>1, <1>3, <1>5
  <1>7. QED
    BY <1>5, <1>6 DEF P, a

\* Import() takes the value of the digits.
LEMMA ImportIs ==
    ASSUME NEW sign, NEW magnitude
    PROVE  Import(sign, magnitude) = IF sign = "negative" THEN -Value(Radix, magnitude) ELSE Value(Radix, magnitude)
  BY DEF Import, Value, ValueTable

\* What is exported is canonical, and imported again it is the same integer.
THEOREM ExportImport ==
    ASSUME NEW v \in Int
    PROVE  /\ ExportMagnitude(v) \in Seq(0 .. Radix - 1)
           /\ MagnitudeSize(v) \in Nat /\ Len(ExportMagnitude(v)) = MagnitudeSize(v)
           /\ Canonical(SignOf(v), ExportMagnitude(v))
           /\ Import(SignOf(v), ExportMagnitude(v)) = v
  <1> DEFINE k == MagnitudeSize(v)
             a == Absolute(v)
             d == ExportMagnitude(v)
  <1>0. a \in Nat /\ (v < 0 => a = -v) /\ (~(v < 0) => a = v)
    BY DEF Absolute
  <1>1. k \in Nat /\ a < Power(Radix, k) /\ (v = 0 => k = 0) /\ (v # 0 => k > 0 /\ Power(Radix, k - 1) <= a)
    <2>1. CASE v = 0
      <3>1. k = 0 /\ a = 0
        BY <1>0, <2>1 DEF MagnitudeSize
      <3>2. Power(Radix, 0) = 1
        BY RecordAssumption, PowerOfZero
      <3>3. QED
        BY <2>1, <3>1, <3>2
    <2>2. CASE v # 0
      <3>1. PICK i \in Nat \ {0} : Power(Radix, i - 1) <= Absolute(v) /\ Absolute(v) < Power(Radix, i)
        BY <2>2, SizeExists
      <3>2. k = i
        BY <3>1, SizeIs
      <3>3. QED
        BY <2>2, <3>1, <3>2
    <2>3. QED
      BY <2>1, <2>2
  <1>2. d = DigitsOf(Radix, a, k)
    BY DEF ExportMagnitude, DigitsOf
  <1> HIDE DEF k, a, d
  <1>3. d \in Seq(0 .. Radix - 1) /\ Len(d) = k
    BY <1>0, <1>1, <1>2, RecordAssumption, DigitsAre
  <1>4. Value(Radix, d) = a
    BY <1>0, <1>1, <1>2, RecordAssumption, ValueOfDigits
  <1>5. Len(d) > 0 => (d[1] # 0 <=> Power(Radix, Len(d) - 1) <= Value(Radix, d))
    BY <1>3, RecordAssumption, DigitsOfValue
  <1>6. Canonical(SignOf(v), d)
    <2>1. CASE v = 0
      <3>1. Len(d) = 0
        BY <1>1, <1>3, <2>1
      <3>2. d = <<>>
        BY <1>3, <3>1, EmptySeq
      <3>3. QED
        BY <2>1, <3>2 DEF Canonical, SignOf
    <2>2. CASE v # 0
      <3>1. Len(d) > 0 /\ d[1] # 0
        BY <1>1, <1>3, <1>4, <1>5, <2>2
      <3>2. d # <<>>
        BY <1>3, <3>1
      <3>3. SignOf(v) \in {"positive", "negative"}
        BY <2>2 DEF SignOf
      <3>4. QED
        BY <3>1, <3>2, <3>3 DEF Canonical
    <2>3. QED
      BY <2>1, <2>2
  <1>7. Import(SignOf(v), d) = v
    <2>1. Import(SignOf(v), d) = IF SignOf(v) = "negative" THEN -a ELSE a
      BY <1>4, ImportIs
    <2>2. SignOf(v) = "negative" <=> v < 0
      BY DEF SignOf
    <2>3. QED
      BY <1>0, <2>1, <2>2
  <1>8. QED
    BY <1>1, <1>3, <1>6, <1>7 DEF d, k

\* What is canonical is the export of the integer that is imported from it.
LEMMA ImportExport ==
    ASSUME NEW sign, NEW d \in Seq(0 .. Radix - 1), Canonical(sign, d)
    PROVE  /\ Import(sign, d) \in Int /\ SignOf(Import(sign, d)) = sign
           /\ MagnitudeSize(Import(sign, d)) = Len(d) /\ ExportMagnitude(Import(sign, d)) = d
  <1> DEFINE n == Len(d)
             a == Value(Radix, d)
             v == Import(sign, d)
  <1>0. n \in Nat /\ d = [i \in 1 .. n |-> d[i]]
    OBVIOUS
  <1>1. /\ a \in Nat /\ a < Power(Radix, n)
        /\ \A i \in 1 .. n : (a \div Power(Radix, n - i)) % Radix = d[i]
        /\ n > 0 => (d[1] # 0 <=> Power(Radix, n - 1) <= a)
    BY RecordAssumption, DigitsOfValue
  <1>2. v = IF sign = "negative" THEN -a ELSE a
    BY ImportIs
  <1>c. \/ sign = "zero" /\ d = <<>>
        \/ sign \in {"positive", "negative"} /\ d # <<>> /\ d[1] # 0
    BY DEF Canonical
  <1>n. n = 0 <=> d = <<>>
    BY EmptySeq
  <1> HIDE DEF a, n, v
  <1>3. v \in Int /\ Absolute(v) = a
    BY <1>1, <1>2 DEF Absolute
  <1>4. MagnitudeSize(v) = n /\ SignOf(v) = sign
    <2>1. CASE d = <<>>
      <3>1. n = 0 /\ sign = "zero"
        BY <1>c, <1>n, <2>1
      <3>2. Power(Radix, 0) = 1
        BY RecordAssumption, PowerOfZero
      <3>3. a = 0
        BY <1>1, <3>1, <3>2
      <3>4. v = 0
        BY <1>2, <3>1, <3>3
      <3>5. QED
        BY <3>1, <3>4 DEF MagnitudeSize, SignOf
    <2>2. CASE d # <<>>
      <3>1. n \in Nat \ {0} /\ n > 0 /\ sign \in {"positive", "negative"} /\ d[1] # 0
        BY <1>0, <1>c, <1>n, <2>2
      <3>2. Power(Radix, n - 1) <= Absolute(v) /\ Absolute(v) < Power(Radix, n)
        BY <1>1, <1>3, <3>1
      <3>3. v # 0 /\ MagnitudeSize(v) = n
        BY <1>3, <3>1, <3>2, SizeIs
      <3>4. SignOf(v) = sign
        BY <1>1, <1>2, <3>1, <3>3 DEF SignOf
      <3>5. QED
        BY <3>3, <3>4
    <2>3. QED
      BY <2>1, <2>2
  <1>5. ExportMagnitude(v) = [i \in 1 .. n |-> (a \div Power(Radix, n - i)) % Radix]
    BY <1>3, <1>4 DEF ExportMagnitude
  <1>6. ExportMagnitude(v) = d
    BY <1>0, <1>1, <1>5
  <1>7. QED
    BY <1>3, <1>4, <1>6 DEF v, n

\* A slice of a sequence.
LEMMA SliceIs ==
    ASSUME NEW S, NEW p \in Seq(S), NEW s \in Seq(S), NEW k \in Nat, k + Len(s) <= Len(p),
           \A i \in 1 .. Len(s) : p[k + i] = s[i]
    PROVE  SubSeq(p, k + 1, k + Len(s)) = s
  <1> DEFINE n == Len(s)
             q == SubSeq(p, k + 1, k + n)
  <1>0. n \in Nat /\ Len(p) \in Nat /\ k + n <= Len(p) /\ k + 1 \in Int /\ k + n \in Int
    BY LenProperties
  <1>h. \A i \in 1 .. n : p[k + i] = s[i]
    OBVIOUS
  <1> HIDE DEF n
  <1>1. \A i \in k + 1 .. k + n : p[i] \in S
    <2>1. \A i \in k + 1 .. k + n : i \in 1 .. Len(p)
      BY <1>0
    <2>2. QED
      BY <2>1, ElementOfSeq
  <1>2. /\ q \in Seq(S) /\ Len(q) = (IF k + 1 <= k + n THEN k + n - (k + 1) + 1 ELSE 0)
        /\ \A i \in 1 .. k + n - (k + 1) + 1 : q[i] = p[k + 1 + i - 1]
    BY <1>0, <1>1, SubSeqProperties, SMTT(30)
  <1> HIDE DEF q
  <1>3. Len(q) = n /\ k + n - (k + 1) + 1 = n
    BY <1>0, <1>2
  <1>4. ASSUME NEW i \in 1 .. n PROVE q[i] = s[i]
    <2>1. k + 1 + i - 1 = k + i
      BY <1>0
    <2>2. q[i] = p[k + 1 + i - 1]
      BY <1>2, <1>3
    <2>3. QED
      BY <1>h, <2>1, <2>2
  <1>5. q \in Seq(S) /\ s \in Seq(S) /\ Len(q) = Len(s) /\ \A i \in 1 .. Len(q) : q[i] = s[i]
    BY <1>2, <1>3, <1>4 DEF n
  <1>6. q = s
    BY <1>5, SeqEqual
  <1>7. QED
    BY <1>6 DEF q, n

\* Three sequences one after the other are cut where they were joined.
LEMMA PartsOfJoin ==
    ASSUME NEW S, NEW a \in Seq(S), NEW b \in Seq(S), NEW c \in Seq(S),
           NEW l, l[1] = Len(a), l[2] = Len(b), l[3] = Len(c)
    PROVE  /\ a \o b \o c \in Seq(S) /\ Len(a \o b \o c) = Len(a) + Len(b) + Len(c)
           /\ Magnitudes(l, a \o b \o c) = <<a, b, c>>
  <1> DEFINE u == a \o b
             w == u \o c
             x == Len(a)
             y == Len(b)
             z == Len(c)
  <1>1. IsJoin(u, a, b, S)
    BY Joined
  <1>2. u \in Seq(S) /\ Len(u) = x + y /\ (\A i \in 1 .. x : u[i] = a[i]) /\ \A i \in 1 .. y : u[x + i] = b[i]
    BY <1>1 DEF IsJoin
  <1>3. IsJoin(w, u, c, S)
    BY <1>2, Joined
  <1> HIDE DEF u
  <1>4. /\ w \in Seq(S) /\ Len(w) = Len(u) + z
        /\ (\A i \in 1 .. Len(u) : w[i] = u[i]) /\ \A i \in 1 .. z : w[Len(u) + i] = c[i]
    BY <1>3 DEF IsJoin
  <1>5. x \in Nat /\ y \in Nat /\ z \in Nat
    BY LenProperties
  <1> HIDE DEF w
  <1>w. a \o b \o c = w
    BY DEF u, w
  <1>l. Len(a) = x /\ Len(b) = y /\ Len(c) = z /\ l[1] = x /\ l[2] = y /\ l[3] = z
    OBVIOUS
  <1> HIDE DEF x, y, z
  <1>6. Len(w) = x + y + z
    BY <1>2, <1>4
  <1>7. \A i \in 1 .. x : w[0 + i] = a[i]
    <2>1. \A i \in 1 .. x : i \in 1 .. x + y /\ 0 + i = i
      BY <1>5
    <2>2. QED
      BY <1>2, <1>4, <2>1
  <1>8. \A i \in 1 .. y : w[x + i] = b[i]
    <2>1. \A i \in 1 .. y : x + i \in 1 .. x + y
      BY <1>5
    <2>2. QED
      BY <1>2, <1>4, <2>1
  <1>9. \A i \in 1 .. z : w[(x + y) + i] = c[i]
    BY <1>2, <1>4
  <1>10. 0 + x <= Len(w) /\ x + y <= Len(w) /\ (x + y) + z <= Len(w) /\ x + y \in Nat /\ 0 \in Nat
    BY <1>5, <1>6
  <1>11. SubSeq(w, 0 + 1, 0 + x) = a
    BY <1>4, <1>7, <1>10, <1>l, SliceIs
  <1>12. SubSeq(w, x + 1, x + y) = b
    BY <1>4, <1>5, <1>8, <1>10, <1>l, SliceIs
  <1>13. SubSeq(w, (x + y) + 1, (x + y) + z) = c
    BY <1>4, <1>9, <1>10, <1>l, SliceIs, ZenonT(30)
  <1>14. 0 + 1 = 1 /\ 0 + x = x
    BY <1>5
  <1>15. Magnitudes(l, w) = <<a, b, c>>
    BY <1>11, <1>12, <1>13, <1>14, <1>l DEF Magnitudes
  <1>16. QED
    BY <1>4, <1>6, <1>15, <1>w, <1>l

\* And what is cut is joined again.
LEMMA JoinOfParts ==
    ASSUME NEW S, NEW p \in Seq(S), NEW l \in [Three -> Nat], l[1] + l[2] + l[3] = Len(p),
           NEW q, q = Magnitudes(l, p)
    PROVE  /\ \A i \in Three : q[i] \in Seq(S) /\ Len(q[i]) = l[i]
           /\ q[1] \o q[2] \o q[3] = p
  <1> DEFINE x == l[1]
             y == l[2]
             z == l[3]
             n == Len(p)
  <1>0. x \in Nat /\ y \in Nat /\ z \in Nat /\ x + y + z = n /\ n \in Nat
    BY LenProperties DEF Three
  <1>1. q = <<SubSeq(p, 1, x), SubSeq(p, x + 1, x + y), SubSeq(p, x + y + 1, x + y + z)>>
    BY DEF Magnitudes
  <1>e. \A i \in 1 .. n : p[i] \in S
    BY ElementOfSeq
  <1>f. SubSeq(p, 1, n) = p
    BY SubSeqFull
  <1> HIDE DEF n
  <1>g. n = Len(p)
    BY DEF n
  <1> HIDE DEF x, y, z
  <1>2. q[1] = SubSeq(p, 1, x) /\ q[2] = SubSeq(p, x + 1, x + y) /\ q[3] = SubSeq(p, x + y + 1, x + y + z)
    <2> DEFINE s1 == SubSeq(p, 1, x)
               s2 == SubSeq(p, x + 1, x + y)
               s3 == SubSeq(p, x + y + 1, x + y + z)
    <2>1. q = <<s1, s2, s3>>
      BY <1>1
    <2> HIDE DEF s1, s2, s3
    <2>2. q[1] = s1 /\ q[2] = s2 /\ q[3] = s3
      BY <2>1
    <2>3. QED
      BY <2>2 DEF s1, s2, s3
  <1>3. ASSUME NEW k \in 0 .. n, NEW m \in Nat, k + m <= n
        PROVE  SubSeq(p, k + 1, k + m) \in Seq(S) /\ Len(SubSeq(p, k + 1, k + m)) = m
    <2>1. k + 1 \in Int /\ k + m \in Int /\ \A i \in k + 1 .. k + m : i \in 1 .. n
      BY <1>0, <1>3
    <2>2. \A i \in k + 1 .. k + m : p[i] \in S
      BY <1>e, <2>1
    <2>3. /\ SubSeq(p, k + 1, k + m) \in Seq(S)
          /\ Len(SubSeq(p, k + 1, k + m)) = (IF k + 1 <= k + m THEN k + m - (k + 1) + 1 ELSE 0)
      BY <2>1, <2>2, SubSeqProperties
    <2>4. (IF k + 1 <= k + m THEN k + m - (k + 1) + 1 ELSE 0) = m
      BY <1>0
    <2>5. QED
      BY <2>3, <2>4
  <1>4. /\ 0 \in 0 .. n /\ 0 + x <= n /\ 0 + 1 = 1 /\ 0 + x = x
        /\ x \in 0 .. n /\ x + y <= n
        /\ x + y \in 0 .. n /\ (x + y) + z <= n
    BY <1>0
  <1>5. q[1] \in Seq(S) /\ Len(q[1]) = x
    <2>1. SubSeq(p, 0 + 1, 0 + x) \in Seq(S) /\ Len(SubSeq(p, 0 + 1, 0 + x)) = x
      BY <1>0, <1>3, <1>4
    <2>2. QED
      BY <1>2, <1>4, <2>1
  <1>6. q[2] \in Seq(S) /\ Len(q[2]) = y
    BY <1>0, <1>2, <1>3, <1>4, ZenonT(30)
  <1>7. q[3] \in Seq(S) /\ Len(q[3]) = z
    BY <1>0, <1>2, <1>3, <1>4, ZenonT(30)
  <1>8. SubSeq(p, 1, x) \o SubSeq(p, x + 1, x + y) = SubSeq(p, 1, x + y)
    <2>1. 1 \in 1 .. n + 1 /\ x \in 1 - 1 .. n /\ x + y \in x .. n
      BY <1>0
    <2>2. QED
      BY <1>g, <2>1, ConcatAdjacentSubSeq
  <1>9. SubSeq(p, 1, x + y) \o SubSeq(p, x + y + 1, n) = SubSeq(p, 1, n)
    <2>1. 1 \in 1 .. n + 1 /\ x + y \in 1 - 1 .. n /\ n \in x + y .. n
      BY <1>0
    <2>2. QED
      BY <1>g, <2>1, ConcatAdjacentSubSeq
  <1>10. q[1] \o q[2] \o q[3] = p
    BY <1>0, <1>2, <1>8, <1>9, <1>f
  <1>11. \A i \in Three : i = 1 \/ i = 2 \/ i = 3
    BY DEF Three
  <1>12. QED
    BY <1>5, <1>6, <1>7, <1>10, <1>11 DEF x, y, z

\* The sum of the lengths, if it fits a word.
LEMMA TotalIs ==
    ASSUME NEW l \in [Three -> Nat]
    PROVE  /\ TotalLength(l) = Overflow \/ TotalLength(l) = l[1] + l[2] + l[3]
           /\ l[1] + l[2] + l[3] <= Largest => TotalLength(l) = l[1] + l[2] + l[3]
  <1> DEFINE x == l[1]
             y == l[2]
             z == l[3]
  <1>0. x \in Nat /\ y \in Nat /\ z \in Nat /\ Largest \in Nat
    BY Words DEF Three
  <1>1. TotalLength(l) = CheckedAdd(CheckedAdd(x, y), z)
    BY DEF TotalLength
  <1> HIDE DEF x, y, z
  <1>2. TotalLength(l) = Overflow \/ TotalLength(l) = x + y + z
    BY <1>0, <1>1 DEF CheckedAdd, Overflow
  <1>3. x + y + z <= Largest => TotalLength(l) = x + y + z
    BY <1>0, <1>1 DEF CheckedAdd, Overflow
  <1>4. QED
    BY <1>2, <1>3 DEF x, y, z

Bytes == 0 .. Radix - 1

\* The integers that are written are read again.
LEMMA IntegersAreRead ==
    ASSUME NEW values \in Int \X Int \X Int,
           NEW signs, signs = [i \in Three |-> SignOf(values[i])],
           NEW lengths, lengths = [i \in Three |-> MagnitudeSize(values[i])],
           TotalLength(lengths) # Overflow
    PROVE  /\ CanonicalPayload(values) \in Seq(Bytes)
           /\ IntegersIn(signs, lengths, CanonicalPayload(values)) = values
  <1> DEFINE a == ExportMagnitude(values[1])
             b == ExportMagnitude(values[2])
             c == ExportMagnitude(values[3])
             m == <<a, b, c>>
  <1>1. \A i \in Three : values[i] \in Int
    BY DEF Three
  <1>2. ASSUME NEW i \in Three
        PROVE  /\ ExportMagnitude(values[i]) \in Seq(Bytes)
               /\ MagnitudeSize(values[i]) \in Nat
               /\ Len(ExportMagnitude(values[i])) = MagnitudeSize(values[i])
               /\ Canonical(SignOf(values[i]), ExportMagnitude(values[i]))
               /\ Import(SignOf(values[i]), ExportMagnitude(values[i])) = values[i]
    BY <1>1, ExportImport DEF Bytes
  <1>3. 1 \in Three /\ 2 \in Three /\ 3 \in Three /\ \A i \in Three : i = 1 \/ i = 2 \/ i = 3
    BY DEF Three
  <1>4. /\ lengths \in [Three -> Nat]
        /\ lengths[1] = Len(a) /\ lengths[2] = Len(b) /\ lengths[3] = Len(c)
        /\ a \in Seq(Bytes) /\ b \in Seq(Bytes) /\ c \in Seq(Bytes)
    BY <1>2, <1>3
  <1>5. CanonicalPayload(values) = a \o b \o c
    BY DEF CanonicalPayload
  <1>m. \A i \in Three : m[i] = ExportMagnitude(values[i])
    BY <1>3
  <1>v. values = [i \in Three |-> values[i]]
    BY DEF Three
  <1> HIDE DEF a, b, c
  <1>6. /\ a \o b \o c \in Seq(Bytes) /\ Len(a \o b \o c) = Len(a) + Len(b) + Len(c)
        /\ Magnitudes(lengths, a \o b \o c) = m
    BY <1>4, PartsOfJoin
  <1>7. TotalLength(lengths) = Len(a \o b \o c)
    BY <1>4, <1>6, TotalIs
  <1> HIDE DEF m
  <1>8. \A i \in Three : Canonical(signs[i], m[i]) /\ Import(signs[i], m[i]) = values[i]
    BY <1>2, <1>m
  <1>9. IntegersIn(signs, lengths, a \o b \o c) = [i \in Three |-> Import(signs[i], m[i])]
    BY <1>6, <1>7, <1>8 DEF IntegersIn
  <1>10. [i \in Three |-> Import(signs[i], m[i])] = [i \in Three |-> values[i]]
    BY <1>8
  <1>11. QED
    BY <1>5, <1>6, <1>9, <1>10, <1>v

\* The integers that are read are written in the same way.
AreWritten(values, signs, lengths, payload) ==
    /\ TotalLength(lengths) = Len(payload)
    /\ \A i \in Three : SignOf(values[i]) = signs[i] /\ MagnitudeSize(values[i]) = lengths[i]
    /\ CanonicalPayload(values) = payload

\* The integers that are read are those that were written.
LEMMA IntegersAreWritten ==
    ASSUME NEW signs, NEW lengths \in [Three -> Nat], NEW payload \in Seq(Bytes),
           IntegersIn(signs, lengths, payload) # Rejected
    PROVE  AreWritten(IntegersIn(signs, lengths, payload), signs, lengths, payload)
  <1> DEFINE q == Magnitudes(lengths, payload)
             values == IntegersIn(signs, lengths, payload)
  <1>1. /\ TotalLength(lengths) = Len(payload) /\ \A i \in Three : Canonical(signs[i], q[i])
        /\ values = [i \in Three |-> Import(signs[i], q[i])]
    BY DEF IntegersIn
  <1> HIDE DEF values
  <1>2. lengths[1] + lengths[2] + lengths[3] = Len(payload)
    <2>1. Len(payload) \in Nat
      BY LenProperties
    <2>2. TotalLength(lengths) # Overflow
      BY <1>1, <2>1 DEF Overflow
    <2>3. QED
      BY <1>1, <2>2, TotalIs
  <1>3. (\A i \in Three : q[i] \in Seq(Bytes) /\ Len(q[i]) = lengths[i]) /\ q[1] \o q[2] \o q[3] = payload
    BY <1>2, JoinOfParts
  <1> HIDE DEF q
  <1>4. ASSUME NEW i \in Three
        PROVE  /\ SignOf(values[i]) = signs[i] /\ MagnitudeSize(values[i]) = lengths[i]
               /\ ExportMagnitude(values[i]) = q[i]
    <2>1. values[i] = Import(signs[i], q[i]) /\ q[i] \in Seq(0 .. Radix - 1) /\ Canonical(signs[i], q[i])
      BY <1>1, <1>3 DEF Bytes
    <2>2. QED
      BY <1>3, <2>1, ImportExport
  <1>5. 1 \in Three /\ 2 \in Three /\ 3 \in Three
    BY DEF Three
  <1>6. CanonicalPayload(values) = payload
    BY <1>3, <1>4, <1>5 DEF CanonicalPayload
  <1>7. QED
    BY <1>1, <1>4, <1>6 DEF AreWritten, values

\* What is compressed is decompressed to the same bytes.
LEMMA CompressedIsRead ==
    ASSUME NEW p \in Seq(Bytes)
    PROVE  LZ4Compress(p) \in Seq(Bytes) /\ LZ4Decompress(LZ4Compress(p)) = p
  <1> DEFINE n == Len(p)
             run == n \in 2 .. Radix - 1 /\ \A i \in DOMAIN p : p[i] = p[1]
             c == LZ4Compress(p)
  <1>0. n \in Nat /\ DOMAIN p = 1 .. n /\ (\A i \in 1 .. n : p[i] \in Bytes) /\ p = [i \in 1 .. n |-> p[i]]
    BY LenProperties
  <1>1. c = IF run THEN <<Run, n, p[1]>> ELSE <<Literal>> \o p
    BY DEF LZ4Compress
  <1>2. Run \in Bytes /\ Literal \in Bytes /\ Run # Literal
    BY RecordAssumption DEF Run, Literal, Bytes
  <1> HIDE DEF n, c
  <1>3. CASE run
    <2>1. n \in Bytes /\ p[1] \in Bytes
      BY <1>0, <1>3 DEF Bytes
    <2>2. c = <<Run, n, p[1]>>
      BY <1>1, <1>3
    <2>3. c \in Seq(Bytes) /\ Len(c) = 3 /\ c[1] = Run /\ c[2] = n /\ c[3] = p[1]
      BY <1>2, <2>1, <2>2
    <2>4. LZ4Decompress(c) = [i \in 1 .. n |-> p[1]]
      BY <1>2, <2>3 DEF LZ4Decompress
    <2>5. [i \in 1 .. n |-> p[1]] = p
      BY <1>0, <1>3
    <2>6. QED
      BY <2>3, <2>4, <2>5 DEF c
  <1>4. CASE ~run
    <2> DEFINE head == <<Literal>>
    <2>1. c = head \o p
      BY <1>1, <1>4
    <2>2. head \in Seq(Bytes) /\ Len(head) = 1 /\ head[1] = Literal
      BY <1>2
    <2> HIDE DEF head
    <2>3. IsJoin(c, head, p, Bytes)
      BY <2>1, <2>2, Joined
    <2>4. c \in Seq(Bytes) /\ Len(c) = 1 + n /\ c[1] = Literal /\ \A i \in 1 .. n : c[1 + i] = p[i]
      BY <2>2, <2>3 DEF IsJoin, n
    <2>5. c # <<>>
      BY <1>0, <2>4
    <2>6. LZ4Decompress(c) = Tail(c)
      BY <2>4, <2>5 DEF LZ4Decompress
    <2>7. /\ Tail(c) \in Seq(Bytes) /\ Len(Tail(c)) = Len(c) - 1
          /\ \A i \in 1 .. Len(Tail(c)) : Tail(c)[i] = c[i + 1]
      BY <2>4, <2>5, HeadTailProperties
    <2>8. Len(Tail(c)) = n
      BY <1>0, <2>4, <2>7
    <2>9. ASSUME NEW i \in 1 .. n PROVE Tail(c)[i] = p[i]
      <3>1. 1 + i = i + 1
        BY <1>0
      <3>2. QED
        BY <2>4, <2>7, <2>8, <3>1
    <2>10. Tail(c) = p
      BY <2>7, <2>8, <2>9, SeqEqual DEF n
    <2>11. QED
      BY <2>4, <2>6, <2>10 DEF c
  <1>5. QED
    BY <1>3, <1>4

\* No form of some bytes is shorter than the one that is written.
LEMMA CompressedIsShort ==
    ASSUME NEW s \in Seq(Bytes), NEW p, p = LZ4Decompress(s), p # Rejected
    PROVE  p \in Seq(Bytes) /\ Len(LZ4Compress(p)) <= Len(s)
  <1>0. Len(s) \in Nat /\ (s = <<>> <=> Len(s) = 0) /\ \A i \in 1 .. Len(s) : s[i] \in Bytes
    BY EmptySeq, LenProperties
  <1>1. ASSUME NEW q \in Seq(Bytes)
        PROVE  /\ Len(q) \in Nat
               /\ Len(LZ4Compress(q)) = 3 \/ Len(LZ4Compress(q)) = 1 + Len(q)
               /\ Len(q) < Radix /\ Len(q) >= 2 /\ (\A i \in 1 .. Len(q) : q[i] = q[1])
                    => Len(LZ4Compress(q)) = 3
               /\ Len(q) < 2 => Len(LZ4Compress(q)) = 1 + Len(q)
    <2> DEFINE n == Len(q)
               run == n \in 2 .. Radix - 1 /\ \A i \in DOMAIN q : q[i] = q[1]
    <2>1. n \in Nat /\ DOMAIN q = 1 .. n
      BY LenProperties
    <2>2. LZ4Compress(q) = IF run THEN <<Run, n, q[1]>> ELSE <<Literal>> \o q
      BY DEF LZ4Compress
    <2>3. Len(<<Literal>> \o q) = 1 + n
      <3> DEFINE head == <<Literal>>
      <3>1. head \in Seq(Bytes) /\ Len(head) = 1
        BY RecordAssumption DEF Literal, Bytes
      <3> HIDE DEF head
      <3>2. IsJoin(head \o q, head, q, Bytes)
        BY <3>1, Joined
      <3>3. QED
        BY <3>1, <3>2 DEF IsJoin, head
    <2>4. Len(<<Run, n, q[1]>>) = 3
      OBVIOUS
    <2> HIDE DEF n
    <2>5. Radix \in Nat
      BY RecordAssumption
    <2>6. n < 2 => ~run
      BY <2>1
    <2>7. n < Radix /\ n >= 2 /\ (\A i \in 1 .. n : q[i] = q[1]) => run
      BY <2>1, <2>5
    <2>8. QED
      BY <2>1, <2>2, <2>3, <2>4, <2>6, <2>7 DEF n
  <1>2. CASE s # <<>> /\ s[1] = Literal
    <2>1. p = Tail(s)
      BY <1>2 DEF LZ4Decompress
    <2>2. p \in Seq(Bytes) /\ Len(p) = Len(s) - 1 /\ \A i \in 1 .. Len(Tail(s)) : Tail(s)[i] = s[i + 1]
      BY <1>2, <2>1, HeadTailProperties
    <2>3. CASE Len(p) < 2
      BY <1>0, <1>1, <2>2, <2>3
    <2>4. CASE Len(p) >= 2
      <3>1. Len(p) \in Nat /\ (Len(LZ4Compress(p)) = 3 \/ Len(LZ4Compress(p)) = 1 + Len(p))
        BY <1>1, <2>2
      <3>2. Len(s) = Len(p) + 1
        BY <1>0, <2>2, <3>1
      <3>3. Len(LZ4Compress(p)) <= Len(s)
        <4> DEFINE l == Len(LZ4Compress(p))
                   m == Len(p)
        <4>1. m >= 2 /\ m \in Nat /\ (l = 3 \/ l = 1 + m) /\ Len(s) = m + 1
          BY <2>4, <3>1, <3>2
        <4> HIDE DEF l, m
        <4>2. l <= m + 1
          BY <4>1
        <4>3. QED
          BY <4>1, <4>2 DEF l
      <3>4. QED
        BY <2>2, <3>3
    <2>5. QED
      BY <1>0, <2>2, <2>3, <2>4
  <1>3. CASE ~(s # <<>> /\ s[1] = Literal)
    <2>1. Len(s) = 3 /\ s[1] = Run /\ p = [i \in 1 .. s[2] |-> s[3]]
      BY <1>3 DEF LZ4Decompress
    <2>2. s[2] \in 0 .. Radix - 1 /\ s[3] \in Bytes /\ Radix \in Nat
      BY <1>0, <2>1, RecordAssumption DEF Bytes
    <2> DEFINE n == s[2]
               b == s[3]
    <2>3. n \in Nat /\ n < Radix /\ b \in Bytes /\ p = [i \in 1 .. n |-> b]
      BY <2>1, <2>2
    <2> HIDE DEF n, b
    <2>4. p \in Seq(Bytes) /\ Len(p) = n /\ \A i \in 1 .. n : p[i] = b
      BY <2>3
    <2>5. n >= 2 => \A i \in 1 .. n : p[i] = p[1]
      BY <2>3, <2>4
    <2>6. CASE n < 2
      BY <1>1, <2>1, <2>3, <2>4, <2>6
    <2>7. CASE n >= 2
      <3>1. Len(p) < Radix /\ Len(p) >= 2 /\ \A i \in 1 .. Len(p) : p[i] = p[1]
        BY <2>3, <2>4, <2>5, <2>7
      <3>2. Len(LZ4Compress(p)) = 3
        BY <1>1, <2>4, <3>1
      <3>3. Len(LZ4Compress(p)) = Len(s) /\ Len(s) = 3
        BY <2>1, <3>2
      <3>4. Len(LZ4Compress(p)) <= Len(s)
        BY <3>3
      <3>5. QED
        BY <2>4, <3>4
    <2>8. QED
      BY <2>3, <2>4, <2>6, <2>7
  <1>4. QED
    BY <1>2, <1>3

\* A record has the fields of the format, each with what it may hold.
Fields == {"format", "frame", "identity", "location", "compression", "uncompressed",
           "stored", "signs", "lengths", "checksum", "payload"}

IsRecord(r) == r = [f \in Fields |-> r[f]]

WellFormed(r) ==
    /\ IsRecord(r)
    /\ r.format \in {"block", "chunk"} /\ r.frame \in BOOLEAN
    /\ r.signs = [i \in Three |-> r.signs[i]] /\ r.lengths \in [Three -> Nat]
    /\ r.payload \in Seq(Bytes)
    /\ r.format = "block" => r.compression = "none" /\ r.uncompressed = 0 /\ r.stored = 0

\* The record is what an encoder wrote of c.
Intact(r, c) ==
    /\ c = [format |-> c.format, identity |-> c.identity, location |-> c.location,
            compression |-> c.compression, values |-> c.values]
    /\ c.values \in Int \X Int \X Int
    /\ r.format = c.format /\ r.identity = c.identity /\ r.location = c.location
    /\ r.compression = c.compression
    /\ r.frame /\ r.checksum = ChecksumOf(r)
    /\ ValidIdentity(r.identity) /\ ValidLocation(r.location, r.identity)
    /\ r.signs = [i \in Three |-> SignOf(c.values[i])]
    /\ r.lengths = [i \in Three |-> MagnitudeSize(c.values[i])]
    /\ TotalLength(r.lengths) # Overflow
    /\ r.format = "block" => r.payload = CanonicalPayload(c.values)
    /\ r.format = "chunk" =>
        /\ r.compression \in {"none", "lz4"}
        /\ r.payload = Compress(r.compression, CanonicalPayload(c.values))
        /\ r.uncompressed = Len(CanonicalPayload(c.values)) /\ r.uncompressed <= MaxPayload
        /\ r.stored = Len(r.payload) /\ r.stored <= MaxPayload
        /\ \A i \in Three : r.lengths[i] <= MaxPayload

\* An assignment to a field.
With(r, g, e) == [r EXCEPT ![g] = e]

Assigned(s, r, g, e) ==
    IsRecord(s) /\ \A f \in Fields : s[f] = IF f = g THEN e ELSE r[f]

\* An assignment changes one field.
LEMMA OneField ==
    ASSUME NEW r, IsRecord(r), NEW g \in Fields, NEW e
    PROVE  Assigned(With(r, g, e), r, g, e)
  <1>1. DOMAIN r = Fields
    BY DEF IsRecord
  <1> DEFINE s == With(r, g, e)
  <1>2. s = [f \in Fields |-> IF f = g THEN e ELSE r[f]]
    BY <1>1 DEF With
  <1> HIDE DEF s
  <1>3. \A f \in Fields : s[f] = IF f = g THEN e ELSE r[f]
    BY <1>2
  <1>4. s = [f \in Fields |-> s[f]]
    BY <1>2, <1>3
  <1>5. QED
    BY <1>3, <1>4 DEF IsRecord, Assigned, s

\* What the header is.
HasHeader(h, format, identity, location, compression, uncompressed, stored, values) ==
    /\ IsRecord(h)
    /\ h.format = format /\ h.frame = TRUE /\ h.identity = identity
    /\ h.location = location /\ h.compression = compression
    /\ h.uncompressed = uncompressed /\ h.stored = stored
    /\ h.signs = [i \in Three |-> SignOf(values[i])]
    /\ h.lengths = [i \in Three |-> MagnitudeSize(values[i])]
    /\ h.checksum = 0

\* A header has what it was made of, and no payload.
LEMMA HeaderIs ==
    ASSUME NEW format, NEW identity, NEW location, NEW compression, NEW uncompressed, NEW stored, NEW values
    PROVE  HasHeader(Header(format, identity, location, compression, uncompressed, stored, values),
                     format, identity, location, compression, uncompressed, stored, values)
  <1> DEFINE h == Header(format, identity, location, compression, uncompressed, stored, values)
  <1> DEFINE signs == [i \in Three |-> SignOf(values[i])]
             lengths == [i \in Three |-> MagnitudeSize(values[i])]
  <1>1. h = [format |-> format, frame |-> TRUE, identity |-> identity, location |-> location,
             compression |-> compression, uncompressed |-> uncompressed, stored |-> stored,
             signs |-> signs, lengths |-> lengths, checksum |-> 0, payload |-> <<>>]
    BY DEF Header
  <1> HIDE DEF signs, lengths, h
  <1>2. h = [f \in Fields |-> h[f]]
    BY <1>1 DEF Fields
  <1>3. /\ h.format = format /\ h.frame = TRUE /\ h.identity = identity
        /\ h.location = location /\ h.compression = compression
        /\ h.uncompressed = uncompressed /\ h.stored = stored
        /\ h.signs = signs /\ h.lengths = lengths /\ h.checksum = 0
    BY <1>1
  <1>4. QED
    BY <1>2, <1>3 DEF IsRecord, signs, lengths, HasHeader, h

\* The fields of s are those of r but for the one named g.
SameBut(s, r, g) == \A f \in Fields : f # g => s[f] = r[f]

\* The checksum is that of the record with the slot zeroed, before and after
\* it is put there.
LEMMA SealedIs ==
    ASSUME NEW r, IsRecord(r)
    PROVE  /\ IsRecord(Sealed(r)) /\ SameBut(Sealed(r), r, "checksum")
           /\ Sealed(r).checksum = ChecksumOf(Sealed(r))
           /\ Sealed(r).checksum = ChecksumOf(r)
           /\ IsRecord(ChecksumOf(r)) /\ SameBut(ChecksumOf(r), r, "checksum")
           /\ ChecksumOf(r).checksum = 0
  <1>0. "checksum" \in Fields
    BY DEF Fields
  <1> DEFINE s == Sealed(r)
             c == ChecksumOf(r)
             d == ChecksumOf(s)
  <1>a. c = With(r, "checksum", 0) /\ s = With(r, "checksum", c)
    BY DEF ChecksumOf, Sealed, With
  <1>b. d = With(s, "checksum", 0)
    BY DEF ChecksumOf, With
  <1> HIDE DEF c, s, d
  <1>c. Assigned(c, r, "checksum", 0) /\ Assigned(s, r, "checksum", c)
    BY <1>0, <1>a, OneField
  <1>1. IsRecord(c) /\ \A f \in Fields : c[f] = IF f = "checksum" THEN 0 ELSE r[f]
    BY <1>c DEF Assigned
  <1>3. IsRecord(s) /\ \A f \in Fields : s[f] = IF f = "checksum" THEN c ELSE r[f]
    BY <1>c DEF Assigned
  <1>d. Assigned(d, s, "checksum", 0)
    BY <1>0, <1>b, <1>3, OneField
  <1>4. IsRecord(d) /\ \A f \in Fields : d[f] = IF f = "checksum" THEN 0 ELSE s[f]
    BY <1>d DEF Assigned
  <1>5. \A f \in Fields : c[f] = d[f]
    BY <1>1, <1>3, <1>4
  <1>6. c = d
    <2>1. [f \in Fields |-> c[f]] = [f \in Fields |-> d[f]]
      BY <1>5
    <2>2. QED
      BY <1>1, <1>4, <2>1 DEF IsRecord
  <1>7. IsRecord(s) /\ SameBut(s, r, "checksum") /\ s.checksum = d /\ s.checksum = c
    BY <1>0, <1>3, <1>6 DEF SameBut
  <1>8. IsRecord(c) /\ SameBut(c, r, "checksum") /\ c.checksum = 0
    BY <1>0, <1>1 DEF SameBut
  <1>9. QED
    BY <1>7, <1>8 DEF s, c, d

\* What an encoder writes is well formed.
LEMMA BlockIsWritten ==
    ASSUME NEW identity, NEW location, NEW values \in Int \X Int \X Int,
           NEW r, r = EncodeBlock(identity, location, values), r # Rejected,
           NEW c, c = [format |-> "block", identity |-> identity, location |-> location,
                       compression |-> "none", values |-> values]
    PROVE  WellFormed(r) /\ Intact(r, c)
  <1> DEFINE h == Header("block", identity, location, "none", 0, 0, values)
             k == [h EXCEPT !.payload = CanonicalPayload(values)]
  <1>1. /\ ValidIdentity(identity) /\ ValidLocation(location, identity)
        /\ TotalLength(h.lengths) # Overflow
        /\ r = Sealed(k)
    BY DEF EncodeBlock
  <1>h. HasHeader(h, "block", identity, location, "none", 0, 0, values)
    BY HeaderIs
  <1>k. k = With(h, "payload", CanonicalPayload(values))
    BY DEF With
  <1> HIDE DEF h, k
  <1>2. /\ IsRecord(h)
        /\ h.format = "block" /\ h.frame = TRUE /\ h.identity = identity
        /\ h.location = location /\ h.compression = "none" /\ h.uncompressed = 0 /\ h.stored = 0
        /\ h.signs = [i \in Three |-> SignOf(values[i])]
        /\ h.lengths = [i \in Three |-> MagnitudeSize(values[i])]
    BY <1>h DEF HasHeader
  <1>3. IsRecord(k) /\ SameBut(k, h, "payload") /\ k.payload = CanonicalPayload(values)
    <2>1. "payload" \in Fields
      BY DEF Fields
    <2>2. Assigned(k, h, "payload", CanonicalPayload(values))
      BY <1>2, <1>k, <2>1, OneField
    <2>3. QED
      BY <2>1, <2>2 DEF SameBut, Assigned
  <1>4. IsRecord(r) /\ SameBut(r, k, "checksum") /\ r.checksum = ChecksumOf(r)
    BY <1>1, <1>3, SealedIs
  <1>5. /\ r.format = "block" /\ r.frame = TRUE /\ r.identity = identity
        /\ r.location = location /\ r.compression = "none" /\ r.uncompressed = 0 /\ r.stored = 0
        /\ r.signs = [i \in Three |-> SignOf(values[i])]
        /\ r.lengths = [i \in Three |-> MagnitudeSize(values[i])]
        /\ r.payload = CanonicalPayload(values)
    BY <1>2, <1>3, <1>4 DEF SameBut, Fields
  <1>6. TotalLength(r.lengths) # Overflow
    BY <1>1, <1>2, <1>5
  <1>7. r.payload \in Seq(Bytes)
    BY <1>5, <1>6, IntegersAreRead
  <1>8. r.lengths \in [Three -> Nat] /\ r.signs = [i \in Three |-> r.signs[i]]
    <2>1. \A i \in Three : values[i] \in Int
      BY DEF Three
    <2>2. \A i \in Three : MagnitudeSize(values[i]) \in Nat
      BY <2>1, ExportImport
    <2>3. QED
      BY <1>5, <2>2
  <1>9. WellFormed(r)
    BY <1>4, <1>5, <1>7, <1>8 DEF WellFormed
  <1>10. /\ c.format = "block" /\ c.identity = identity /\ c.location = location
         /\ c.compression = "none" /\ c.values = values
    OBVIOUS
  <1>11. Intact(r, c)
    BY <1>1, <1>4, <1>5, <1>6, <1>10 DEF Intact
  <1>12. QED
    BY <1>9, <1>11

\* The payload of three integers, and the payload of a chunk of them.
LEMMA PayloadIs ==
    ASSUME NEW values \in Int \X Int \X Int
    PROVE  /\ CanonicalPayload(values) \in Seq(Bytes)
           /\ \A i \in Three : MagnitudeSize(values[i]) \in Nat
           /\ Len(CanonicalPayload(values))
                = MagnitudeSize(values[1]) + MagnitudeSize(values[2]) + MagnitudeSize(values[3])
           /\ \A compression \in {"none", "lz4"} :
                Compress(compression, CanonicalPayload(values)) \in Seq(Bytes)
  <1> DEFINE a == ExportMagnitude(values[1])
             b == ExportMagnitude(values[2])
             c == ExportMagnitude(values[3])
             m == <<Len(a), Len(b), Len(c)>>
             p == a \o b \o c
  <1>1. \A i \in Three : values[i] \in Int
    BY DEF Three
  <1>2. \A i \in Three : /\ ExportMagnitude(values[i]) \in Seq(Bytes)
                         /\ MagnitudeSize(values[i]) \in Nat
                         /\ Len(ExportMagnitude(values[i])) = MagnitudeSize(values[i])
    BY <1>1, ExportImport DEF Bytes
  <1>3. 1 \in Three /\ 2 \in Three /\ 3 \in Three
    BY DEF Three
  <1>4. a \in Seq(Bytes) /\ b \in Seq(Bytes) /\ c \in Seq(Bytes)
    BY <1>2, <1>3
  <1>5. CanonicalPayload(values) = p
    BY DEF CanonicalPayload
  <1>l. Len(a) = MagnitudeSize(values[1]) /\ Len(b) = MagnitudeSize(values[2]) /\ Len(c) = MagnitudeSize(values[3])
    BY <1>2, <1>3
  <1> HIDE DEF a, b, c
  <1>m. m[1] = Len(a) /\ m[2] = Len(b) /\ m[3] = Len(c)
    OBVIOUS
  <1> HIDE DEF m
  <1>6. p \in Seq(Bytes) /\ Len(p) = Len(a) + Len(b) + Len(c)
    BY <1>4, <1>m, PartsOfJoin
  <1> HIDE DEF p
  <1>7. \A compression \in {"none", "lz4"} : Compress(compression, p) \in Seq(Bytes)
    BY <1>6, CompressedIsRead DEF Compress
  <1>8. QED
    BY <1>2, <1>5, <1>6, <1>7, <1>l

\* A chunk before it is sealed.
ChunkBody(identity, location, compression, uncompressed, stored, values) ==
    [Header("chunk", identity, location, compression, uncompressed, stored, values)
        EXCEPT !.payload = Compress(compression, CanonicalPayload(values))]

HasBody(b, identity, location, compression, uncompressed, stored, values) ==
    /\ IsRecord(b)
    /\ b.format = "chunk" /\ b.frame = TRUE /\ b.identity = identity
    /\ b.location = location /\ b.compression = compression
    /\ b.uncompressed = uncompressed /\ b.stored = stored
    /\ b.signs = [i \in Three |-> SignOf(values[i])]
    /\ b.lengths = [i \in Three |-> MagnitudeSize(values[i])]
    /\ b.checksum = 0
    /\ b.payload = Compress(compression, CanonicalPayload(values))
    /\ ChecksumOf(b) = b

\* A chunk before it is sealed: a header and the compressed payload.
LEMMA BodyIs ==
    ASSUME NEW identity, NEW location, NEW compression, NEW uncompressed, NEW stored, NEW values
    PROVE  HasBody(ChunkBody(identity, location, compression, uncompressed, stored, values),
                   identity, location, compression, uncompressed, stored, values)
  <1> DEFINE h == Header("chunk", identity, location, compression, uncompressed, stored, values)
             b == ChunkBody(identity, location, compression, uncompressed, stored, values)
  <1>1. HasHeader(h, "chunk", identity, location, compression, uncompressed, stored, values)
    BY HeaderIs
  <1>2. b = With(h, "payload", Compress(compression, CanonicalPayload(values)))
    BY DEF With, ChunkBody
  <1> HIDE DEF h, b
  <1>3. /\ IsRecord(h)
        /\ h.format = "chunk" /\ h.frame = TRUE /\ h.identity = identity
        /\ h.location = location /\ h.compression = compression
        /\ h.uncompressed = uncompressed /\ h.stored = stored
        /\ h.signs = [i \in Three |-> SignOf(values[i])]
        /\ h.lengths = [i \in Three |-> MagnitudeSize(values[i])]
        /\ h.checksum = 0
    BY <1>1 DEF HasHeader
  <1>4. Assigned(b, h, "payload", Compress(compression, CanonicalPayload(values)))
    BY <1>2, <1>3, OneField DEF Fields
  <1>5. /\ IsRecord(b)
        /\ b.format = h.format /\ b.frame = h.frame /\ b.identity = h.identity
        /\ b.location = h.location /\ b.compression = h.compression
        /\ b.uncompressed = h.uncompressed /\ b.stored = h.stored
        /\ b.signs = h.signs /\ b.lengths = h.lengths /\ b.checksum = h.checksum
        /\ b.payload = Compress(compression, CanonicalPayload(values))
    BY <1>4 DEF Assigned, Fields
  <1>6. IsRecord(ChecksumOf(b)) /\ SameBut(ChecksumOf(b), b, "checksum") /\ ChecksumOf(b).checksum = 0
    BY <1>5, SealedIs
  <1>7. ChecksumOf(b) = b
    <2> DEFINE c == ChecksumOf(b)
    <2> HIDE DEF c
    <2>1. IsRecord(c) /\ SameBut(c, b, "checksum") /\ c.checksum = 0
      BY <1>6 DEF c
    <2>2. \A f \in Fields : c[f] = b[f]
      BY <1>3, <1>5, <2>1 DEF SameBut
    <2>3. [f \in Fields |-> c[f]] = [f \in Fields |-> b[f]]
      BY <2>2
    <2>4. c = b
      BY <1>5, <2>1, <2>3 DEF IsRecord
    <2>5. QED
      BY <2>4 DEF c
  <1>8. QED
    BY <1>3, <1>5, <1>7 DEF HasBody, b

\* When encode() accepts the metadata of createMetadata(), and what it gives.
Encodable(identity, location, compression, earlier, values) ==
    LET u == Len(CanonicalPayload(earlier))
        s == Len(Compress(compression, CanonicalPayload(earlier)))
    IN  /\ ValidIdentity(identity) /\ ValidLocation(location, identity)
        /\ u <= MaxPayload /\ s <= MaxPayload /\ compression \in {"none", "lz4"}
        /\ u = Len(CanonicalPayload(values))
        /\ s = Len(Compress(compression, CanonicalPayload(values)))
        /\ ChunkBody(identity, location, compression, u, s, earlier)
            = ChunkBody(identity, location, compression, u, s, values)

\* The encoder of chunks, in terms of the body.
LEMMA EncodeChunkIs ==
    ASSUME NEW identity, NEW location, NEW compression, NEW earlier, NEW values
    PROVE  EncodeChunk(CreateMetadata(identity, location, compression, earlier), values)
            = IF Encodable(identity, location, compression, earlier, values)
              THEN Sealed(ChunkBody(identity, location, compression, Len(CanonicalPayload(earlier)),
                                    Len(Compress(compression, CanonicalPayload(earlier))), values))
              ELSE Rejected
  <1> DEFINE u == Len(CanonicalPayload(earlier))
             s == Len(Compress(compression, CanonicalPayload(earlier)))
             sized == [identity |-> identity, location |-> location, compression |-> compression,
                       uncompressed |-> u, stored |-> s, checksum |-> 0]
             m == CreateMetadata(identity, location, compression, earlier)
             b == ChunkBody(identity, location, compression, u, s, values)
  <1>1. m = [sized EXCEPT !.checksum = ChunkRecord(sized, earlier)]
    BY DEF CreateMetadata
  <1>2. \A v : ChunkRecord(sized, v) = ChunkBody(identity, location, compression, u, s, v)
    BY DEF ChunkRecord, ChunkHeader, ChunkBody
  <1> HIDE DEF m, u, s
  <1>3. /\ m.identity = identity /\ m.location = location /\ m.compression = compression
        /\ m.uncompressed = u /\ m.stored = s /\ m.checksum = ChunkRecord(sized, earlier)
    BY <1>1
  <1>4. ChunkRecord(m, values) = b
    BY <1>3 DEF ChunkRecord, ChunkHeader, ChunkBody
  <1>5. m.checksum = ChunkBody(identity, location, compression, u, s, earlier)
    BY <1>2, <1>3
  <1>6. HasBody(b, identity, location, compression, u, s, values)
    BY BodyIs
  <1> HIDE DEF b, sized
  <1>7. ChecksumOf(b) = b /\ b.payload = Compress(compression, CanonicalPayload(values))
    BY <1>6 DEF HasBody
  <1>8. EncodeChunk(m, values)
            = IF /\ ValidMetadata(m)
                 /\ m.uncompressed = Len(CanonicalPayload(values))
                 /\ m.stored = Len(b.payload)
                 /\ m.checksum = ChecksumOf(b)
              THEN Sealed(b) ELSE Rejected
    BY <1>4 DEF EncodeChunk
  <1> DEFINE A == /\ ValidMetadata(m)
                  /\ m.uncompressed = Len(CanonicalPayload(values))
                  /\ m.stored = Len(b.payload)
                  /\ m.checksum = ChecksumOf(b)
             E == Encodable(identity, location, compression, earlier, values)
  <1>9. E <=> /\ ValidIdentity(identity) /\ ValidLocation(location, identity)
              /\ u <= MaxPayload /\ s <= MaxPayload /\ compression \in {"none", "lz4"}
              /\ u = Len(CanonicalPayload(values))
              /\ s = Len(Compress(compression, CanonicalPayload(values)))
              /\ ChunkBody(identity, location, compression, u, s, earlier) = b
    BY DEF Encodable, u, s, b
  <1>10. ValidMetadata(m) <=> /\ ValidIdentity(identity) /\ ValidLocation(location, identity)
                              /\ u <= MaxPayload /\ s <= MaxPayload /\ compression \in {"none", "lz4"}
    BY <1>3 DEF ValidMetadata
  <1>11. A <=> E
    BY <1>3, <1>5, <1>7, <1>9, <1>10
  <1> HIDE DEF A, E
  <1>12. EncodeChunk(m, values) = IF E THEN Sealed(b) ELSE Rejected
    BY <1>8, <1>11 DEF A
  <1>13. QED
    BY <1>12 DEF m, E, b, u, s

\* A record that has its checksum is what sealing makes of its other fields.
LEMMA SealedAgain ==
    ASSUME NEW r, IsRecord(r), r.checksum = ChecksumOf(r),
           NEW k, IsRecord(k), \A f \in Fields : f # "checksum" => k[f] = r[f]
    PROVE  Sealed(k) = r
  <1> DEFINE s == Sealed(k)
             c == ChecksumOf(k)
             e == ChecksumOf(r)
  <1>1. IsRecord(s) /\ SameBut(s, k, "checksum") /\ s.checksum = c
    BY SealedIs
  <1>2. IsRecord(c) /\ SameBut(c, k, "checksum") /\ c.checksum = 0
    BY SealedIs
  <1>3. IsRecord(e) /\ SameBut(e, r, "checksum") /\ e.checksum = 0
    BY SealedIs
  <1>h. r.checksum = e
    OBVIOUS
  <1> HIDE DEF s, c, e
  <1>4. \A f \in Fields : c[f] = e[f]
    BY <1>2, <1>3 DEF SameBut
  <1>5. c = e
    <2>1. [f \in Fields |-> c[f]] = [f \in Fields |-> e[f]]
      BY <1>4
    <2>2. QED
      BY <1>2, <1>3, <2>1 DEF IsRecord
  <1>6. \A f \in Fields : s[f] = r[f]
    BY <1>1, <1>5, <1>h DEF SameBut
  <1>7. s = r
    <2>1. [f \in Fields |-> s[f]] = [f \in Fields |-> r[f]]
      BY <1>6
    <2>2. QED
      BY <1>1, <2>1 DEF IsRecord
  <1>8. QED
    BY <1>7 DEF s

\* A chunk that is written is a record, and is read as what was written.
LEMMA ChunkIsWritten ==
    ASSUME NEW identity, NEW location, NEW compression, NEW earlier, NEW values \in Int \X Int \X Int,
           NEW r, r = EncodeChunk(CreateMetadata(identity, location, compression, earlier), values),
           r # Rejected,
           NEW c, c = [format |-> "chunk", identity |-> identity, location |-> location,
                       compression |-> compression, values |-> values]
    PROVE  WellFormed(r) /\ Intact(r, c)
  <1> DEFINE u == Len(CanonicalPayload(earlier))
             s == Len(Compress(compression, CanonicalPayload(earlier)))
             b == ChunkBody(identity, location, compression, u, s, values)
             p == CanonicalPayload(values)
             n(i) == MagnitudeSize(values[i])
  <1>1. Encodable(identity, location, compression, earlier, values) /\ r = Sealed(b)
    BY EncodeChunkIs, Zenon
  <1>2. /\ ValidIdentity(identity) /\ ValidLocation(location, identity)
        /\ u <= MaxPayload /\ s <= MaxPayload /\ compression \in {"none", "lz4"}
        /\ u = Len(p) /\ s = Len(Compress(compression, p))
    BY <1>1 DEF Encodable
  <1>3. /\ p \in Seq(Bytes) /\ (\A i \in Three : n(i) \in Nat) /\ Len(p) = n(1) + n(2) + n(3)
        /\ Compress(compression, p) \in Seq(Bytes)
    BY <1>2, PayloadIs
  <1>4. HasBody(b, identity, location, compression, u, s, values)
    BY BodyIs
  <1>5. /\ IsRecord(b)
        /\ b.format = "chunk" /\ b.frame = TRUE /\ b.identity = identity
        /\ b.location = location /\ b.compression = compression
        /\ b.uncompressed = u /\ b.stored = s
        /\ b.signs = [i \in Three |-> SignOf(values[i])]
        /\ b.lengths = [i \in Three |-> n(i)]
        /\ b.payload = Compress(compression, p)
    BY <1>4 DEF HasBody
  <1> HIDE DEF b, p, u, s
  <1>6. IsRecord(r) /\ SameBut(r, b, "checksum") /\ r.checksum = ChecksumOf(r)
    BY <1>1, <1>5, SealedIs
  <1>7. /\ r.format = "chunk" /\ r.frame = TRUE /\ r.identity = identity
        /\ r.location = location /\ r.compression = compression
        /\ r.uncompressed = u /\ r.stored = s
        /\ r.signs = [i \in Three |-> SignOf(values[i])]
        /\ r.lengths = [i \in Three |-> n(i)]
        /\ r.payload = Compress(compression, p)
    BY <1>5, <1>6 DEF SameBut, Fields
  <1>8. r.lengths \in [Three -> Nat] /\ r.signs = [i \in Three |-> r.signs[i]]
    BY <1>3, <1>7
  <1>9. TotalLength(r.lengths) # Overflow /\ \A i \in Three : r.lengths[i] <= MaxPayload
    <2>1. MaxPayload \in Nat /\ MaxPayload <= Largest /\ Largest \in Nat
      BY Words, RecordAssumption
    <2>2. 1 \in Three /\ 2 \in Three /\ 3 \in Three /\ \A i \in Three : i = 1 \/ i = 2 \/ i = 3
      BY DEF Three
    <2>3. \A i \in Three : r.lengths[i] = n(i)
      BY <1>7
    <2>4. n(1) \in Nat /\ n(2) \in Nat /\ n(3) \in Nat /\ n(1) + n(2) + n(3) <= MaxPayload
      BY <1>2, <1>3, <2>2
    <2> HIDE DEF n
    <2>5. n(1) <= MaxPayload /\ n(2) <= MaxPayload /\ n(3) <= MaxPayload
          /\ n(1) + n(2) + n(3) <= Largest /\ n(1) + n(2) + n(3) \in Nat
      BY <2>1, <2>4
    <2>6. r.lengths[1] + r.lengths[2] + r.lengths[3] = n(1) + n(2) + n(3)
      BY <2>2, <2>3
    <2>7. TotalLength(r.lengths) = n(1) + n(2) + n(3)
      BY <1>8, <2>5, <2>6, TotalIs
    <2>8. n(1) + n(2) + n(3) # Overflow
      BY <2>5 DEF Overflow
    <2>9. \A i \in Three : r.lengths[i] <= MaxPayload
      BY <2>2, <2>3, <2>5
    <2>10. QED
      BY <2>7, <2>8, <2>9
  <1>10. WellFormed(r)
    BY <1>3, <1>6, <1>7, <1>8 DEF WellFormed
  <1>11. /\ c.format = "chunk" /\ c.identity = identity /\ c.location = location
         /\ c.compression = compression /\ c.values = values
    OBVIOUS
  <1>12. Intact(r, c)
    BY <1>2, <1>6, <1>7, <1>9, <1>11 DEF Intact, p
  <1>13. QED
    BY <1>10, <1>12

DecodeOf(r) == IF r.format = "block" THEN DecodeBlock(r) ELSE DecodeChunk(r)

\* What an encoder wrote is decoded to what was encoded.
LEMMA IntactIsDecoded ==
    ASSUME NEW r, NEW c, WellFormed(r), Intact(r, c)
    PROVE  DecodeOf(r) = c
  <1> DEFINE v == c.values
             p == CanonicalPayload(v)
  <1>0. v \in Int \X Int \X Int
    BY DEF Intact
  <1>1. /\ c = [format |-> r.format, identity |-> r.identity, location |-> r.location,
                compression |-> r.compression, values |-> v]
        /\ r.frame /\ r.checksum = ChecksumOf(r)
        /\ ValidIdentity(r.identity) /\ ValidLocation(r.location, r.identity)
        /\ r.signs = [i \in Three |-> SignOf(v[i])]
        /\ r.lengths = [i \in Three |-> MagnitudeSize(v[i])]
        /\ TotalLength(r.lengths) # Overflow
    BY DEF Intact
  <1>2. r.format = "block" => r.payload = p
    BY DEF Intact
  <1>3. r.format = "chunk" =>
        /\ r.compression \in {"none", "lz4"}
        /\ r.payload = Compress(r.compression, p)
        /\ r.uncompressed = Len(p) /\ r.uncompressed <= MaxPayload
        /\ r.stored = Len(r.payload) /\ r.stored <= MaxPayload
        /\ \A i \in Three : r.lengths[i] <= MaxPayload
    BY DEF Intact
  <1>4. p \in Seq(Bytes) /\ IntegersIn(r.signs, r.lengths, p) = v
    BY <1>0, <1>1, IntegersAreRead
  <1>5. v # Rejected /\ p # Rejected
    <2>1. v \in [1 .. 3 -> Int]
      BY <1>0
    <2>2. QED
      BY <1>4, <2>1, RejectedAssumption DEF Bytes
  <1> HIDE DEF v, p
  <1>6. Contents3(r, v) = c
    BY <1>1, <1>5 DEF Contents3
  <1>7. r.format \in {"block", "chunk"}
    BY DEF WellFormed
  <1>8. CASE r.format = "block"
    <2>1. BlockAcceptable(r)
      BY <1>1 DEF BlockAcceptable
    <2>2. DecodeBlock(r) = Contents3(r, v)
      BY <1>2, <1>4, <1>8, <2>1 DEF DecodeBlock
    <2>3. QED
      BY <1>6, <1>8, <2>2 DEF DecodeOf
  <1>9. CASE r.format = "chunk"
    <2>1. ChunkAcceptable(r)
      BY <1>1, <1>3, <1>9 DEF ChunkAcceptable, ValidMetadata
    <2>2. Decompress(r.compression, r.payload, r.uncompressed) = p
      <3>1. CASE r.compression = "none"
        BY <1>3, <1>5, <1>9, <3>1 DEF Decompress, Compress
      <3>2. CASE r.compression = "lz4"
        <4>1. r.payload = LZ4Compress(p)
          BY <1>3, <1>9, <3>2 DEF Compress
        <4>2. LZ4Decompress(r.payload) = p
          BY <1>4, <4>1, CompressedIsRead
        <4>3. QED
          BY <1>3, <1>5, <1>9, <3>2, <4>2 DEF Decompress
      <3>3. QED
        BY <1>3, <1>9, <3>1, <3>2
    <2>3. DecodeChunk(r) = Contents3(r, v)
      BY <1>4, <1>5, <2>1, <2>2 DEF DecodeChunk
    <2>4. QED
      BY <1>6, <1>9, <2>3 DEF DecodeOf
  <1>10. QED
    BY <1>7, <1>8, <1>9

\* The record is the encoding of d, but for the bytes that LZ4 made.
IsEncodingOf(r, d) ==
    LET canonical == Encode(d)
    IN  \/ r = canonical
        \/ /\ r.compression = "lz4"
           /\ r = [canonical EXCEPT !.payload  = r.payload,
                                    !.stored   = r.stored,
                                    !.checksum = r.checksum]

\* A block that is accepted is what encoding its content gives.
LEMMA AcceptedBlock ==
    ASSUME NEW r, WellFormed(r), r.format = "block", NEW d, d = DecodeOf(r), d # Rejected
    PROVE  IsEncodingOf(r, d)
  <1> DEFINE v == IntegersIn(r.signs, r.lengths, r.payload)
  <1>1. BlockAcceptable(r) /\ d = Contents3(r, v)
    BY DEF DecodeOf, DecodeBlock
  <1>2. /\ r.frame /\ ValidIdentity(r.identity) /\ ValidLocation(r.location, r.identity)
        /\ r.checksum = ChecksumOf(r)
    BY <1>1 DEF BlockAcceptable
  <1>3. /\ IsRecord(r) /\ r.frame = TRUE
        /\ r.signs = [i \in Three |-> r.signs[i]] /\ r.lengths = [i \in Three |-> r.lengths[i]]
        /\ r.lengths \in [Three -> Nat] /\ r.payload \in Seq(Bytes)
        /\ r.compression = "none" /\ r.uncompressed = 0 /\ r.stored = 0
    BY <1>2 DEF WellFormed
  <1> HIDE DEF v
  <1>4. v # Rejected /\ d.format = "block" /\ d.identity = r.identity /\ d.location = r.location /\ d.values = v
    BY <1>1 DEF Contents3
  <1>5. /\ TotalLength(r.lengths) = Len(r.payload)
        /\ \A i \in Three : SignOf(v[i]) = r.signs[i] /\ MagnitudeSize(v[i]) = r.lengths[i]
        /\ CanonicalPayload(v) = r.payload
    BY <1>3, <1>4, IntegersAreWritten, SMTT(30) DEF v, AreWritten
  <1> DEFINE h == Header("block", r.identity, r.location, "none", 0, 0, v)
             k == [h EXCEPT !.payload = CanonicalPayload(v)]
  <1>6. HasHeader(h, "block", r.identity, r.location, "none", 0, 0, v)
    BY HeaderIs
  <1>7. k = With(h, "payload", CanonicalPayload(v))
    BY DEF With
  <1>8. Encode(d) = IF /\ ValidIdentity(r.identity) /\ ValidLocation(r.location, r.identity)
                       /\ TotalLength(h.lengths) # Overflow
                    THEN Sealed(k) ELSE Rejected
    BY <1>4 DEF Encode, EncodeBlock
  <1> HIDE DEF h, k
  <1>9. /\ IsRecord(h)
        /\ h.format = "block" /\ h.frame = TRUE /\ h.identity = r.identity
        /\ h.location = r.location /\ h.compression = "none"
        /\ h.uncompressed = 0 /\ h.stored = 0
        /\ h.signs = [i \in Three |-> SignOf(v[i])]
        /\ h.lengths = [i \in Three |-> MagnitudeSize(v[i])]
    BY <1>6 DEF HasHeader
  <1>10. h.signs = r.signs /\ h.lengths = r.lengths
    <2>1. /\ [i \in Three |-> SignOf(v[i])] = [i \in Three |-> r.signs[i]]
          /\ [i \in Three |-> MagnitudeSize(v[i])] = [i \in Three |-> r.lengths[i]]
      BY <1>5
    <2>2. QED
      BY <1>3, <1>9, <2>1
  <1>11. Assigned(k, h, "payload", CanonicalPayload(v))
    BY <1>7, <1>9, OneField DEF Fields
  <1>12. TotalLength(h.lengths) # Overflow
    <2>1. Len(r.payload) \in Nat
      BY <1>3, LenProperties
    <2>2. QED
      BY <1>5, <1>10, <2>1 DEF Overflow
  <1>13. Encode(d) = Sealed(k)
    BY <1>2, <1>8, <1>12
  <1>14. IsRecord(k) /\ \A f \in Fields : f # "checksum" => k[f] = r[f]
    <2>1. /\ IsRecord(k)
          /\ k.format = h.format /\ k.frame = h.frame /\ k.identity = h.identity
          /\ k.location = h.location /\ k.compression = h.compression
          /\ k.uncompressed = h.uncompressed /\ k.stored = h.stored
          /\ k.signs = h.signs /\ k.lengths = h.lengths
          /\ k.payload = CanonicalPayload(v)
      BY <1>11 DEF Assigned, Fields
    <2>2. /\ k.format = r.format /\ k.frame = r.frame /\ k.identity = r.identity
          /\ k.location = r.location /\ k.compression = r.compression
          /\ k.uncompressed = r.uncompressed /\ k.stored = r.stored
          /\ k.signs = r.signs /\ k.lengths = r.lengths
          /\ k.payload = r.payload
      BY <1>3, <1>5, <1>9, <1>10, <2>1
    <2>3. QED
      BY <2>1, <2>2 DEF Fields
  <1>15. Sealed(k) = r
    BY <1>2, <1>3, <1>14, SealedAgain
  <1>16. QED
    BY <1>13, <1>15 DEF IsEncodingOf

\* A chunk that is accepted is that too, but for the choices of the compressor.
LEMMA AcceptedChunk ==
    ASSUME NEW r, WellFormed(r), r.format = "chunk", NEW d, d = DecodeOf(r), d # Rejected
    PROVE  IsEncodingOf(r, d)
  <1> DEFINE p == Decompress(r.compression, r.payload, r.uncompressed)
             v == IntegersIn(r.signs, r.lengths, p)
  <1>1. ChunkAcceptable(r) /\ p # Rejected /\ d = Contents3(r, v)
    BY DEF DecodeOf, DecodeChunk
  <1>2. /\ r.frame /\ ValidIdentity(r.identity) /\ ValidLocation(r.location, r.identity)
        /\ r.uncompressed <= MaxPayload /\ r.stored <= MaxPayload
        /\ r.compression \in {"none", "lz4"}
        /\ r.stored = Len(r.payload) /\ r.checksum = ChecksumOf(r)
    BY <1>1 DEF ChunkAcceptable, ValidMetadata
  <1>3. /\ IsRecord(r) /\ r.frame = TRUE
        /\ r.signs = [i \in Three |-> r.signs[i]] /\ r.lengths = [i \in Three |-> r.lengths[i]]
        /\ r.lengths \in [Three -> Nat] /\ r.payload \in Seq(Bytes)
    BY <1>2 DEF WellFormed
  <1>4. /\ p \in Seq(Bytes) /\ Len(p) = r.uncompressed
        /\ r.compression = "none" => p = r.payload
        /\ Len(Compress(r.compression, p)) <= Len(r.payload)
        /\ r.compression = "none" => Compress(r.compression, p) = r.payload
    <2>1. CASE r.compression = "none"
      <3>1. p = r.payload /\ Len(p) = r.uncompressed
        BY <1>1, <2>1 DEF Decompress
      <3>2. Compress(r.compression, p) = r.payload
        BY <2>1, <3>1 DEF Compress
      <3> HIDE DEF p
      <3>3. Len(r.payload) \in Nat
        BY <1>3, LenProperties
      <3>4. QED
        BY <1>3, <3>1, <3>2, <3>3
    <2>2. CASE r.compression = "lz4"
      <3>1. p = LZ4Decompress(r.payload) /\ Len(p) = r.uncompressed
        BY <1>1, <2>2 DEF Decompress
      <3>2. Compress(r.compression, p) = LZ4Compress(p)
        BY <2>2 DEF Compress
      <3> HIDE DEF p
      <3>3. p \in Seq(Bytes) /\ Len(LZ4Compress(p)) <= Len(r.payload)
        BY <1>1, <1>3, <3>1, CompressedIsShort
      <3>4. QED
        BY <2>2, <3>1, <3>2, <3>3
    <2>3. QED
      BY <1>2, <2>1, <2>2
  <1>c. p \in Seq(Bytes) => Compress(r.compression, p) \in Seq(Bytes)
    BY <1>2, CompressedIsRead DEF Compress
  <1> HIDE DEF p
  <1>v. v = IntegersIn(r.signs, r.lengths, p)
    OBVIOUS
  <1> HIDE DEF v
  <1>5. /\ v # Rejected /\ d.format = "chunk" /\ d.identity = r.identity /\ d.location = r.location
        /\ d.compression = r.compression /\ d.values = v
    BY <1>1 DEF Contents3
  <1>6. /\ \A i \in Three : SignOf(v[i]) = r.signs[i] /\ MagnitudeSize(v[i]) = r.lengths[i]
        /\ CanonicalPayload(v) = p
    <2>1. AreWritten(v, r.signs, r.lengths, p)
      BY <1>3, <1>4, <1>5, <1>v, IntegersAreWritten
    <2>2. QED
      BY <2>1 DEF AreWritten
  <1> DEFINE u == Len(CanonicalPayload(v))
             s == Len(Compress(r.compression, CanonicalPayload(v)))
             b == ChunkBody(r.identity, r.location, r.compression, u, s, v)
  <1>7. u = r.uncompressed /\ s <= MaxPayload
    <2>1. s \in Nat /\ Len(r.payload) \in Nat /\ MaxPayload \in Nat /\ s <= Len(r.payload) /\ Len(r.payload) <= MaxPayload
      <3>1. MaxPayload \in Nat
        BY Words, RecordAssumption
      <3>2. s \in Nat
        BY <1>4, <1>6, <1>c, LenProperties
      <3>3. QED
        BY <1>2, <1>3, <1>4, <1>6, <3>1, <3>2, LenProperties
    <2> HIDE DEF s
    <2>2. s <= MaxPayload
      BY <2>1
    <2>3. QED
      BY <1>4, <1>6, <2>2
  <1>8. Encodable(r.identity, r.location, r.compression, v, v)
    BY <1>2, <1>7 DEF Encodable
  <1>9. Encode(d) = Sealed(b)
    BY <1>5, <1>8, EncodeChunkIs DEF Encode
  <1>10. HasBody(b, r.identity, r.location, r.compression, u, s, v)
    BY BodyIs
  <1>11. /\ IsRecord(b)
         /\ b.format = "chunk" /\ b.frame = TRUE /\ b.identity = r.identity
         /\ b.location = r.location /\ b.compression = r.compression
         /\ b.uncompressed = u /\ b.stored = s
         /\ b.signs = [i \in Three |-> SignOf(v[i])]
         /\ b.lengths = [i \in Three |-> MagnitudeSize(v[i])]
         /\ b.payload = Compress(r.compression, CanonicalPayload(v))
    BY <1>10 DEF HasBody
  <1>12. b.signs = r.signs /\ b.lengths = r.lengths
    <2>1. /\ [i \in Three |-> SignOf(v[i])] = [i \in Three |-> r.signs[i]]
          /\ [i \in Three |-> MagnitudeSize(v[i])] = [i \in Three |-> r.lengths[i]]
      BY <1>6
    <2>2. QED
      BY <1>3, <1>11, <2>1
  <1>s. s = Len(Compress(r.compression, p))
    BY <1>6
  <1> HIDE DEF b, s, u
  <1>13. /\ b.format = r.format /\ b.frame = r.frame /\ b.identity = r.identity
         /\ b.location = r.location /\ b.compression = r.compression
         /\ b.uncompressed = r.uncompressed /\ b.signs = r.signs /\ b.lengths = r.lengths
    BY <1>3, <1>7, <1>11, <1>12
  <1>14. CASE r.compression = "none"
    <2>1. b.payload = r.payload /\ b.stored = r.stored
      BY <1>2, <1>4, <1>6, <1>11, <1>14, <1>s
    <2>2. \A f \in Fields : f # "checksum" => b[f] = r[f]
      BY <1>13, <2>1 DEF Fields
    <2>3. Sealed(b) = r
      BY <1>2, <1>3, <1>11, <2>2, SealedAgain
    <2>4. QED
      BY <1>9, <2>3 DEF IsEncodingOf
  <1>15. CASE r.compression = "lz4"
    <2> DEFINE c == Sealed(b)
               w == [c EXCEPT !.payload = r.payload, !.stored = r.stored, !.checksum = r.checksum]
    <2>1. IsRecord(c) /\ SameBut(c, b, "checksum")
      BY <1>11, SealedIs
    <2> HIDE DEF c
    <2>2. /\ c.format = r.format /\ c.frame = r.frame /\ c.identity = r.identity
          /\ c.location = r.location /\ c.compression = r.compression
          /\ c.uncompressed = r.uncompressed /\ c.signs = r.signs /\ c.lengths = r.lengths
      BY <1>13, <2>1 DEF SameBut, Fields
    <2>3. DOMAIN c = Fields
      BY <2>1 DEF IsRecord
    <2>4. w = [f \in Fields |-> IF f = "checksum" THEN r.checksum
                                ELSE IF f = "stored" THEN r.stored
                                ELSE IF f = "payload" THEN r.payload ELSE c[f]]
      BY <2>3 DEF Fields
    <2> HIDE DEF w
    <2>5. \A f \in Fields : w[f] = r[f]
      BY <2>2, <2>4 DEF Fields
    <2>6. w = [f \in Fields |-> w[f]]
      BY <2>4
    <2>7. [f \in Fields |-> w[f]] = [f \in Fields |-> r[f]]
      BY <2>5
    <2>8. w = r
      BY <1>3, <2>6, <2>7 DEF IsRecord
    <2>9. QED
      BY <1>9, <1>15, <2>8 DEF IsEncodingOf, c, w
  <1>16. QED
    BY <1>2, <1>14, <1>15

\* What may be put into a field.
Fits(r, g, e) ==
    /\ g \in Fields \ {"format"}
    /\ g = "frame" => e \in BOOLEAN
    /\ g = "signs" => e = [i \in Three |-> e[i]]
    /\ g = "lengths" => e \in [Three -> Nat]
    /\ g = "payload" => e \in Seq(Bytes)
    /\ g \in {"compression", "uncompressed", "stored"} => r.format = "chunk"

\* A fitting assignment leaves a record a record.
LEMMA FitsKeeps ==
    ASSUME NEW r, WellFormed(r), NEW g, NEW e, Fits(r, g, e)
    PROVE  WellFormed(With(r, g, e))
  <1> DEFINE s == With(r, g, e)
  <1>1. Assigned(s, r, g, e)
    BY OneField DEF WellFormed, Fits
  <1> HIDE DEF s
  <1>2. IsRecord(s) /\ \A f \in Fields : s[f] = IF f = g THEN e ELSE r[f]
    BY <1>1 DEF Assigned
  <1>3. s.format = r.format
    BY <1>2 DEF Fits, Fields
  <1>4. r.format \in {"block", "chunk"} /\ s.frame \in BOOLEAN
    BY <1>2 DEF Fits, Fields, WellFormed
  <1>5. s.signs = [i \in Three |-> s.signs[i]]
    BY <1>2 DEF Fits, Fields, WellFormed
  <1>6. s.lengths \in [Three -> Nat] /\ s.payload \in Seq(Bytes)
    BY <1>2 DEF Fits, Fields, WellFormed
  <1>7. s.format = "block" => s.compression = "none" /\ s.uncompressed = 0 /\ s.stored = 0
    BY <1>2, <1>3 DEF Fits, Fields, WellFormed
  <1>8. QED
    BY <1>2, <1>3, <1>4, <1>5, <1>6, <1>7 DEF WellFormed, s

\* Every alteration is such an assignment.
LEMMA AlteredIsWellFormed ==
    ASSUME NEW r, WellFormed(r), NEW s \in Altered(r)
    PROVE  WellFormed(s)
  <1>0. /\ r.payload \in Seq(Bytes) /\ r.lengths \in [Three -> Nat]
        /\ r.signs = [i \in Three |-> r.signs[i]] /\ DOMAIN r.payload = 1 .. Len(r.payload)
        /\ r.format \in {"block", "chunk"}
    BY LenProperties DEF WellFormed
  <1>b. 0 \in Bytes /\ 1 \in Bytes /\ \A n \in {0, 1, 2, Largest} : n \in Nat
    BY RecordAssumption, Words DEF Bytes
  <1>1. CASE s = [r EXCEPT !.frame = FALSE]
    <2>1. s = With(r, "frame", FALSE) /\ Fits(r, "frame", FALSE)
      BY <1>1 DEF With, Fits, Fields
    <2>2. QED
      BY <2>1, FitsKeeps
  <1>2. CASE s = [r EXCEPT !.identity.plan.terms = @ + 1]
    <2> DEFINE e == [r.identity EXCEPT !.plan.terms = @ + 1]
    <2>1. s = With(r, "identity", e)
      BY <1>2 DEF With
    <2> HIDE DEF e
    <2>2. Fits(r, "identity", e)
      BY DEF Fits, Fields
    <2>3. QED
      BY <2>1, <2>2, FitsKeeps
  <1>3. CASE s = [r EXCEPT !.location.end = @ + 1]
    <2> DEFINE e == [r.location EXCEPT !.end = @ + 1]
    <2>1. s = With(r, "location", e)
      BY <1>3 DEF With
    <2> HIDE DEF e
    <2>2. Fits(r, "location", e)
      BY DEF Fits, Fields
    <2>3. QED
      BY <2>1, <2>2, FitsKeeps
  <1>4. CASE s = [r EXCEPT !.payload = IF @ = <<>> THEN @ ELSE Tail(@)]
    <2> DEFINE e == IF r.payload = <<>> THEN r.payload ELSE Tail(r.payload)
    <2>1. s = With(r, "payload", e)
      BY <1>4 DEF With
    <2>2. e \in Seq(Bytes)
      BY <1>0, HeadTailProperties
    <2> HIDE DEF e
    <2>3. Fits(r, "payload", e)
      BY <2>2 DEF Fits, Fields
    <2>4. QED
      BY <2>1, <2>3, FitsKeeps
  <1>5. CASE s = [r EXCEPT !.payload = Append(@, 1)]
    <2> DEFINE e == Append(r.payload, 1)
    <2>1. s = With(r, "payload", e)
      BY <1>5 DEF With
    <2>2. e \in Seq(Bytes)
      BY <1>0, <1>b, AppendProperties
    <2> HIDE DEF e
    <2>3. Fits(r, "payload", e)
      BY <2>2 DEF Fits, Fields
    <2>4. QED
      BY <2>1, <2>3, FitsKeeps
  <1>6. CASE s \in {[r EXCEPT !.signs[i] = t] : i \in Three, t \in {"zero", "positive", "negative", "unknown"}}
    <2>1. PICK i \in Three, t \in {"zero", "positive", "negative", "unknown"} : s = [r EXCEPT !.signs[i] = t]
      BY <1>6
    <2> DEFINE e == [r.signs EXCEPT ![i] = t]
    <2>2. s = With(r, "signs", e)
      BY <2>1 DEF With
    <2>3. e = [j \in Three |-> e[j]]
      <3>1. DOMAIN r.signs = Three
        BY <1>0
      <3>2. QED
        BY <3>1
    <2> HIDE DEF e
    <2>4. Fits(r, "signs", e)
      BY <2>3 DEF Fits, Fields
    <2>5. QED
      BY <2>2, <2>4, FitsKeeps
  <1>7. CASE s \in {[r EXCEPT !.lengths[i] = n] : i \in Three, n \in {0, 1, 2, Largest}}
    <2>1. PICK i \in Three, n \in {0, 1, 2, Largest} : s = [r EXCEPT !.lengths[i] = n]
      BY <1>7
    <2> DEFINE e == [r.lengths EXCEPT ![i] = n]
    <2>2. s = With(r, "lengths", e)
      BY <2>1 DEF With
    <2>3. e \in [Three -> Nat]
      BY <1>0, <1>b
    <2> HIDE DEF e
    <2>4. Fits(r, "lengths", e)
      BY <2>3 DEF Fits, Fields
    <2>5. QED
      BY <2>2, <2>4, FitsKeeps
  <1>8. CASE s \in {[r EXCEPT !.payload[i] = b] : i \in DOMAIN r.payload, b \in {0, 1}}
    <2>1. PICK i \in DOMAIN r.payload, b \in {0, 1} : s = [r EXCEPT !.payload[i] = b]
      BY <1>8
    <2> DEFINE e == [r.payload EXCEPT ![i] = b]
    <2>2. s = With(r, "payload", e)
      BY <2>1 DEF With
    <2>3. e \in Seq(Bytes)
      <3>1. i \in 1 .. Len(r.payload) /\ b \in Bytes
        BY <1>0, <1>b
      <3>2. QED
        BY <1>0, <3>1, ExceptSeq
    <2> HIDE DEF e
    <2>4. Fits(r, "payload", e)
      BY <2>3 DEF Fits, Fields
    <2>5. QED
      BY <2>2, <2>4, FitsKeeps
  <1> DEFINE Sizes == {[r EXCEPT !.stored = @ + 1], [r EXCEPT !.stored = Len(r.payload)],
                       [r EXCEPT !.uncompressed = @ + 1],
                       [r EXCEPT !.compression = "unknown"],
                       [r EXCEPT !.compression = "none"]}
  <1>9. CASE r.format # "block" /\ s \in Sizes
    <2>1. \/ s = With(r, "stored", r.stored + 1)
          \/ s = With(r, "stored", Len(r.payload))
          \/ s = With(r, "uncompressed", r.uncompressed + 1)
          \/ s = With(r, "compression", "unknown")
          \/ s = With(r, "compression", "none")
      BY <1>9 DEF With
    <2>2. \A g \in {"stored", "uncompressed", "compression"} : \A e : Fits(r, g, e)
      BY <1>0, <1>9 DEF Fits, Fields
    <2>3. QED
      BY <2>1, <2>2, FitsKeeps
  <1>10. \/ s = [r EXCEPT !.frame = FALSE]
         \/ s = [r EXCEPT !.identity.plan.terms = @ + 1]
         \/ s = [r EXCEPT !.location.end = @ + 1]
         \/ s = [r EXCEPT !.payload = IF @ = <<>> THEN @ ELSE Tail(@)]
         \/ s = [r EXCEPT !.payload = Append(@, 1)]
         \/ s \in {[r EXCEPT !.signs[i] = t] : i \in Three, t \in {"zero", "positive", "negative", "unknown"}}
         \/ s \in {[r EXCEPT !.lengths[i] = n] : i \in Three, n \in {0, 1, 2, Largest}}
         \/ s \in {[r EXCEPT !.payload[i] = b] : i \in DOMAIN r.payload, b \in {0, 1}}
         \/ r.format # "block" /\ s \in Sizes
    <2> DEFINE a == [r EXCEPT !.frame = FALSE]
               b == [r EXCEPT !.identity.plan.terms = @ + 1]
               c == [r EXCEPT !.location.end = @ + 1]
               d == [r EXCEPT !.payload = IF @ = <<>> THEN @ ELSE Tail(@)]
               e == [r EXCEPT !.payload = Append(@, 1)]
               P == {[r EXCEPT !.signs[i] = t] : i \in Three, t \in {"zero", "positive", "negative", "unknown"}}
               Q == {[r EXCEPT !.lengths[i] = n] : i \in Three, n \in {0, 1, 2, Largest}}
               W == {[r EXCEPT !.payload[i] = n] : i \in DOMAIN r.payload, n \in {0, 1}}
    <2>1. s \in {a, b, c, d, e} \cup P \cup Q \cup W \cup (IF r.format = "block" THEN {} ELSE Sizes)
      BY DEF Altered
    <2> HIDE DEF a, b, c, d, e, P, Q, W, Sizes
    <2>2. s = a \/ s = b \/ s = c \/ s = d \/ s = e \/ s \in P \/ s \in Q \/ s \in W
          \/ (r.format # "block" /\ s \in Sizes)
      BY <2>1
    <2>3. QED
      BY <2>2 DEF a, b, c, d, e, P, Q, W
  <1> HIDE DEF Sizes
  <1>11. QED
    BY <1>1, <1>2, <1>3, <1>4, <1>5, <1>6, <1>7, <1>8, <1>9, <1>10

\* So is the sealing.
LEMMA SealedIsWellFormed ==
    ASSUME NEW r, WellFormed(r)
    PROVE  WellFormed(Sealed(r))
  <1>1. Sealed(r) = With(r, "checksum", ChecksumOf(r)) /\ Fits(r, "checksum", ChecksumOf(r))
    BY DEF Sealed, With, Fits, Fields
  <1>2. QED
    BY <1>1, FitsKeeps

\* The invariant: what is stored has the shape of a record, and until somebody
\* alters it, it is what an encoder wrote.
RecordInv ==
    /\ record \notin {Missing, Rejected} =>
        WellFormed(record) /\ (edits = 0 => Intact(record, encoded))
    /\ edits \in Nat
    /\ record = Missing => decoded = Missing
    /\ DecodersAreExact

LEMMA WriteKeeps ==
    ASSUME RecordInv,
           NEW requested \in DOMAIN Plan, NEW location \in Ranges, NEW values \in Integers3,
           \/ WriteBlock(requested, location, values)
           \/ \E compression \in {"none", "lz4"}, earlier \in Integers3 :
                WriteChunk(requested, location, compression, earlier, values)
    PROVE  RecordInv'
  <1>1. record = Missing /\ decoded = Missing /\ decoded' = decoded /\ edits' = edits /\ edits \in Nat
    BY DEF RecordInv, WriteBlock, WriteChunk
  <1>2. DecodersAreExact' /\ (record' = Missing => decoded' = Missing) /\ edits' \in Nat
    BY <1>1 DEF DecodersAreExact
  <1>3. values \in Int \X Int \X Int
    BY RecordAssumption
  <1>4. ASSUME record' \notin {Missing, Rejected}
        PROVE  WellFormed(record)' /\ Intact(record, encoded)'
    <2>1. PICK r : r = record'
      OBVIOUS
    <2>2. PICK c : c = encoded'
      OBVIOUS
    <2>3. CASE WriteBlock(requested, location, values)
      <3>1. /\ r = EncodeBlock(IdentityOf(requested), location, values) /\ r # Rejected
            /\ c = [format |-> "block", identity |-> IdentityOf(requested), location |-> location,
                    compression |-> "none", values |-> values]
        BY <1>4, <2>1, <2>2, <2>3 DEF WriteBlock, Remember
      <3>2. WellFormed(r) /\ Intact(r, c)
        BY <1>3, <3>1, BlockIsWritten, Zenon
      <3>3. QED
        BY <2>1, <2>2, <3>2
    <2>4. CASE \E compression \in {"none", "lz4"}, earlier \in Integers3 :
                    WriteChunk(requested, location, compression, earlier, values)
      <3>0. PICK compression \in {"none", "lz4"}, earlier \in Integers3 :
                    WriteChunk(requested, location, compression, earlier, values)
        BY <2>4
      <3>1. /\ r = EncodeChunk(CreateMetadata(IdentityOf(requested), location, compression, earlier), values)
            /\ r # Rejected
            /\ c = [format |-> "chunk", identity |-> IdentityOf(requested), location |-> location,
                    compression |-> compression, values |-> values]
        BY <1>4, <2>1, <2>2, <3>0 DEF WriteChunk, Remember
      <3>2. WellFormed(r) /\ Intact(r, c)
        BY <1>3, <3>1, ChunkIsWritten, Zenon
      <3>3. QED
        BY <2>1, <2>2, <3>2
    <2>5. QED
      BY <2>3, <2>4
  <1>5. QED
    BY <1>2, <1>4 DEF RecordInv

LEMMA AlterKeeps ==
    ASSUME RecordInv, Alter
    PROVE  RecordInv'
  <1>1. /\ record \notin {Missing, Rejected} /\ decoded = Missing /\ decoded' = decoded
        /\ edits' = edits + 1 /\ edits \in Nat /\ WellFormed(record)
    BY DEF RecordInv, Alter
  <1>2. DecodersAreExact' /\ (record' = Missing => decoded' = Missing) /\ edits' \in Nat /\ edits' # 0
    BY <1>1 DEF DecodersAreExact
  <1>3. PICK r \in Altered(record) : record' \in {r, Sealed(r)}
    BY DEF Alter
  <1>4. WellFormed(r)
    BY <1>1, <1>3, AlteredIsWellFormed
  <1>5. PICK s : s = record'
    OBVIOUS
  <1>6. WellFormed(s)
    BY <1>3, <1>4, <1>5, SealedIsWellFormed
  <1>7. WellFormed(record)'
    BY <1>5, <1>6
  <1>8. QED
    BY <1>2, <1>7 DEF RecordInv

LEMMA DecodeKeeps ==
    ASSUME RecordInv, Decode
    PROVE  RecordInv'
  <1>1. /\ record \notin {Missing, Rejected} /\ record' = record /\ encoded' = encoded /\ edits' = edits
        /\ edits \in Nat /\ WellFormed(record) /\ (edits = 0 => Intact(record, encoded))
        /\ decoded' = DecodeOf(record)
    BY DEF RecordInv, Decode, DecodeOf
  <1>2. PICK d : d = decoded'
    OBVIOUS
  <1>3. d = DecodeOf(record)
    BY <1>1, <1>2
  <1>4. edits = 0 => d = encoded
    BY <1>1, <1>3, IntactIsDecoded
  <1>5. ASSUME d # Rejected PROVE IsEncodingOf(record, d)
    <2>1. record.format \in {"block", "chunk"}
      BY <1>1 DEF WellFormed
    <2>2. CASE record.format = "block"
      BY <1>1, <1>3, <1>5, <2>2, AcceptedBlock
    <2>3. CASE record.format = "chunk"
      BY <1>1, <1>3, <1>5, <2>3, AcceptedChunk
    <2>4. QED
      BY <2>1, <2>2, <2>3
  <1>6. DecodersAreExact'
    BY <1>1, <1>2, <1>4, <1>5 DEF DecodersAreExact, IsEncodingOf
  <1>7. WellFormed(record)' /\ (edits' = 0 => Intact(record, encoded)')
    BY <1>1
  <1>8. QED
    BY <1>1, <1>6, <1>7 DEF RecordInv

\* Along every behaviour: what is stored is a record, intact until it is altered,
\* and what was decoded is exact.
THEOREM RecordInvariant == RecordSpec => []RecordInv
  <1>1. RecordInit => RecordInv
    BY DEF RecordInit, RecordInv, DecodersAreExact
  <1>2. RecordInv /\ [RecordNext]_recordVars => RecordInv'
    <2> SUFFICES ASSUME RecordInv, [RecordNext]_recordVars PROVE RecordInv'
      OBVIOUS
    <2>1. ASSUME NEW requested \in DOMAIN Plan, NEW location \in Ranges, NEW values \in Integers3,
                 \/ WriteBlock(requested, location, values)
                 \/ \E compression \in {"none", "lz4"}, earlier \in Integers3 :
                      WriteChunk(requested, location, compression, earlier, values)
          PROVE  RecordInv'
      BY <2>1, WriteKeeps
    <2>2. CASE Alter
      BY <2>2, AlterKeeps
    <2>3. CASE Decode
      BY <2>3, DecodeKeeps
    <2>4. CASE Discard
      <3>1. record' = Missing /\ edits' = 0 /\ decoded' = Missing
        BY <2>4 DEF Discard
      <3>2. QED
        BY <3>1 DEF RecordInv, DecodersAreExact
    <2>5. CASE UNCHANGED recordVars
      <3>1. record' = record /\ encoded' = encoded /\ edits' = edits /\ decoded' = decoded
        BY <2>5 DEF recordVars
      <3>2. DecodersAreExact' /\ (WellFormed(record)' <=> WellFormed(record))
            /\ (Intact(record, encoded)' <=> Intact(record, encoded))
        BY <3>1 DEF RecordInv, DecodersAreExact
      <3>3. QED
        BY <3>1, <3>2 DEF RecordInv
    <2>6. QED
      BY <2>1, <2>2, <2>3, <2>4, <2>5 DEF RecordNext
  <1>3. QED
    BY <1>1, <1>2, PTL DEF RecordSpec

\* Every record that was written is decoded to what was encoded, and whatever
\* is accepted is the encoding of what it is decoded to: for every radix, plan
\* and integer, and any number of alterations.
THEOREM RecordsAreExact == RecordSpec => []DecodersAreExact
  <1>1. RecordInv => DecodersAreExact
    BY DEF RecordInv
  <1>2. QED
    BY <1>1, RecordInvariant, PTL
-----------------------------------------------------------------------------
(* The right decimal, rounded.                                             *)

\* The power of a sum.
LEMMA PowerOfSum ==
    ASSUME NEW base \in Nat \ {0, 1}, NEW j \in Nat, NEW k \in Nat
    PROVE  Power(base, j + k) = Power(base, j) * Power(base, k)
  <1> DEFINE P(i) == Power(base, i)
             bad == {i \in Nat : P(j + i) # P(j) * P(i)}
  <1>1. (\A i \in Nat : P(i) \in Nat /\ P(i + 1) = base * P(i)) /\ P(0) = 1
    BY PowerGrows, PowerOfZero
  <1> HIDE DEF P
  <1>2. bad = {}
    <2> SUFFICES ASSUME bad # {} PROVE FALSE
      OBVIOUS
    <2>1. PICK i \in bad : \A l \in bad : i <= l
      <3>1. bad \in SUBSET Nat
        OBVIOUS
      <3> HIDE DEF bad
      <3>2. QED
        BY <3>1, Smallest
    <2>2. i # 0
      BY <1>1, <2>1
    <2> DEFINE h == i - 1
    <2>3. h \in Nat /\ h \notin bad /\ h + 1 = i /\ (j + h) + 1 = j + i /\ j + h \in Nat
      BY <2>1, <2>2
    <2>4. P(j + h) = P(j) * P(h) /\ P(i) = base * P(h) /\ P(j + i) = base * P(j + h)
          /\ P(j) \in Nat /\ P(h) \in Nat
      BY <1>1, <2>3
    <2>5. base * (P(j) * P(h)) = P(j) * (base * P(h))
      BY <2>4
    <2>6. QED
      BY <2>1, <2>4, <2>5
  <1>3. P(j + k) = P(j) * P(k)
    BY <1>2
  <1>4. QED
    BY <1>3 DEF P

\* Two sequences of digits that agree up to i have the same value up to there.
LEMMA SameValue ==
    ASSUME NEW base \in Nat, NEW d \in Seq(Nat), NEW e \in Seq(Nat),
           NEW v, IsValue(base, v, d), NEW w, IsValue(base, w, e),
           NEW n \in Nat, n <= Len(d), n <= Len(e), \A i \in 1 .. n : d[i] = e[i]
    PROVE  \A i \in 0 .. n : v[i] = w[i]
  <1> DEFINE bad == {i \in 0 .. n : v[i] # w[i]}
  <1>0. Len(d) \in Nat /\ Len(e) \in Nat
    BY LenProperties
  <1>1. v[0] = 0 /\ \A i \in 1 .. n : v[i] = base * v[i - 1] + d[i]
    BY <1>0, SMTT(30) DEF IsValue
  <1>2. w[0] = 0 /\ \A i \in 1 .. n : w[i] = base * w[i - 1] + e[i]
    BY <1>0, SMTT(30) DEF IsValue
  <1> SUFFICES ASSUME bad # {} PROVE FALSE
    OBVIOUS
  <1>3. PICK i \in bad : \A l \in bad : i <= l
    <2>1. bad \in SUBSET Nat
      OBVIOUS
    <2> HIDE DEF bad
    <2>2. QED
      BY <2>1, Smallest
  <1>4. i # 0
    BY <1>1, <1>2, <1>3
  <1>5. i \in 1 .. n /\ i - 1 \in 0 .. n /\ i - 1 \notin bad
    BY <1>3, <1>4
  <1>6. v[i - 1] = w[i - 1]
    BY <1>5
  <1>7. QED
    BY <1>1, <1>2, <1>3, <1>5, <1>6

\* The first n digits.
LEMMA PrefixIs ==
    ASSUME NEW S, NEW d \in Seq(S), NEW n \in 0 .. Len(d)
    PROVE  /\ SubSeq(d, 1, n) \in Seq(S) /\ Len(SubSeq(d, 1, n)) = n
           /\ \A i \in 1 .. n : SubSeq(d, 1, n)[i] = d[i]
  <1>0. Len(d) \in Nat /\ n \in Nat /\ n \in Int /\ 1 \in Int
    BY LenProperties
  <1>1. \A i \in 1 .. n : d[i] \in S
    <2>1. \A i \in 1 .. n : i \in 1 .. Len(d)
      BY <1>0
    <2>2. QED
      BY <2>1, ElementOfSeq
  <1> DEFINE e == SubSeq(d, 1, n)
  <1>2. /\ e \in Seq(S) /\ Len(e) = (IF 1 <= n THEN n - 1 + 1 ELSE 0)
        /\ \A i \in 1 .. n - 1 + 1 : e[i] = d[1 + i - 1]
    BY <1>0, <1>1, SubSeqProperties
  <1> HIDE DEF e
  <1>3. Len(e) = n /\ n - 1 + 1 = n /\ \A i \in 1 .. n : 1 + i - 1 = i
    BY <1>0, <1>2
  <1>4. \A i \in 1 .. n : e[i] = d[i]
    BY <1>2, <1>3
  <1>5. QED
    BY <1>2, <1>3, <1>4 DEF e

\* Half a unit of the last of n places is added, and the rest dropped: that
\* rounds up if the next digit is 5 or more.
LEMMA RoundingIs ==
    ASSUME NEW d \in Seq(Digit), NEW n \in 1 .. Len(d) - 1
    PROVE  (Value(10, d) + 5 * Power(10, Len(d) - n - 1)) \div Power(10, Len(d) - n)
            = Value(10, SubSeq(d, 1, n)) + (IF d[n + 1] >= 5 THEN 1 ELSE 0)
  <1> DEFINE l == Len(d)
             v == ValueTable(10, d)
             p == SubSeq(d, 1, n)
             w == ValueTable(10, p)
             P == Power(10, l - n - 1)
             N == v[l]
  <1>0. l \in Nat /\ n \in Nat \ {0} /\ n + 1 \in 1 .. l /\ n \in 0 .. l /\ n <= l /\ l - n - 1 \in 0 .. l
        /\ l - (l - n - 1) = n + 1 /\ l \in 0 .. l /\ (n + 1) - 1 = n /\ l - n = (l - n - 1) + 1 /\ l - n - 1 \in Nat
    BY LenProperties
  <1>1. d \in Seq(0 .. 10 - 1) /\ d \in Seq(Nat) /\ 10 \in Nat \ {0, 1} /\ \A i \in 1 .. l : d[i] \in 0 .. 9
    <2>1. 0 .. 9 \subseteq Nat /\ Digit = 0 .. 10 - 1
      BY DEF Digit
    <2>2. QED
      BY <2>1, SeqMonotonic DEF Digit
  <1>2. p \in Seq(Nat) /\ Len(p) = n /\ \A i \in 1 .. n : p[i] = d[i]
    BY <1>0, <1>1, PrefixIs
  <1>3. IsValue(10, v, d) /\ IsValue(10, w, p)
    BY <1>1, <1>2, ValueExists
  <1>v. Value(10, d) = N /\ Value(10, p) = w[n]
    BY <1>2 DEF Value
  <1> HIDE DEF v, w, p
  <1>4. w[n] = v[n]
    <2>1. n \in 0 .. n /\ n \in Nat /\ n <= Len(d) /\ n <= Len(p)
      BY <1>0, <1>2
    <2>2. \A i \in 1 .. n : d[i] = p[i]
      BY <1>2
    <2>3. \A i \in 0 .. n : v[i] = w[i]
      BY <1>1, <1>2, <1>3, <2>1, <2>2, SameValue, SMTT(30)
    <2>4. QED
      BY <2>1, <2>3
  <1>5. v[n] \in Nat /\ N \in Nat /\ v[n + 1] = 10 * v[n] + d[n + 1] /\ d[n + 1] \in 0 .. 9
    BY <1>0, <1>1, <1>3 DEF IsValue
  <1>6. N \div P = v[n + 1]
    <2>1. \A j \in 0 .. Len(d) : v[Len(d)] \div Power(10, j) = v[Len(d) - j]
      BY <1>1, <1>3, LeadingDigits
    <2>2. QED
      BY <1>0, <2>1
  <1>7. P \in Nat \ {0} /\ Power(10, l - n) = 10 * P
    <2> DEFINE k == l - n - 1
    <2>1. k \in Nat /\ l - n = k + 1 /\ 10 \in Nat \ {0, 1}
      BY <1>0
    <2> HIDE DEF k, l
    <2>2. Power(10, k) \in Nat \ {0} /\ Power(10, k + 1) = 10 * Power(10, k)
      BY <2>1, PowerGrows
    <2>3. P = Power(10, k)
      BY DEF k, P
    <2>4. QED
      BY <2>1, <2>2, <2>3
  <1> HIDE DEF P, N, l
  <1> DEFINE a == v[n]
             c == d[n + 1]
             r == N % P
             q == v[n + 1]
  <1>8. a \in Nat /\ c \in 0 .. 9 /\ N \in Nat /\ q = 10 * a + c /\ N \div P = q
    BY <1>5, <1>6
  <1>9. r \in 0 .. P - 1 /\ N = P * q + r
    <2> HIDE DEF q
    <2>1. PICK x \in Nat, y \in 0 .. P - 1 : N = P * x + y /\ x = N \div P /\ y = N % P
      BY <1>7, <1>8, Divided
    <2> HIDE DEF q
    <2>2. x = q
      BY <1>8, <2>1
    <2>3. QED
      BY <2>1, <2>2
  <1> HIDE DEF a, c, q, r
  <1> DEFINE k == P * a
             m == P * c
  <1>10. N = 10 * k + m + r /\ k \in Nat /\ m \in Nat /\ (10 * P) * a = 10 * k
         /\ (10 * P) * (a + 1) = 10 * k + 10 * P
    BY <1>7, <1>8, <1>9
  <1>11. c >= 5 => 5 * P <= m /\ m <= 9 * P
    BY <1>7, <1>8
  <1>12. c < 5 => m <= 4 * P
    BY <1>7, <1>8
  <1> HIDE DEF k, m
  <1> DEFINE z == N + 5 * P
             e == 10 * P
  <1>13. e \in Nat \ {0} /\ z \in Nat
    BY <1>7, <1>8
  <1>14. CASE c >= 5
    <2>1. z >= e * (a + 1) /\ z < e * (a + 1) + e
      BY <1>7, <1>9, <1>10, <1>11, <1>14
    <2> HIDE DEF z, e
    <2>2. z \div e = a + 1
      BY <1>8, <1>13, <2>1
    <2>3. z \div e = a + (IF c >= 5 THEN 1 ELSE 0)
      BY <1>14, <2>2
    <2>4. QED
      BY <1>4, <1>7, <1>v, <2>3 DEF z, e, P, l, a, c, p
  <1>15. CASE c < 5
    <2>1. z >= e * a /\ z < e * a + e
      BY <1>7, <1>9, <1>10, <1>12, <1>15
    <2> HIDE DEF z, e
    <2>2. z \div e = a
      BY <1>8, <1>13, <2>1
    <2>3. z \div e = a + (IF c >= 5 THEN 1 ELSE 0)
      BY <1>8, <1>15, <2>2
    <2>4. QED
      BY <1>4, <1>7, <1>v, <2>3 DEF z, e, P, l, a, c, p
  <1>16. QED
    BY <1>8, <1>14, <1>15
-----------------------------------------------------------------------------
(* Adding one to a sequence of digits.                                     *)

\* The digits behind m are nines, and that at m is not.
LastBelowNine(p, m) ==
    /\ m \in 1 .. Len(p) /\ p[m] # 9
    /\ \A i \in m + 1 .. Len(p) : p[i] = 9

\* If some digit is no nine, there is a last such digit.
LEMMA LastBelowNineExists ==
    ASSUME NEW p \in Seq(Digit), NEW k \in 1 .. Len(p), p[k] # 9
    PROVE  \E m \in k .. Len(p) : LastBelowNine(p, m)
  <1> DEFINE n == Len(p)
             S == {i \in Nat : i <= n - k /\ p[n - i] # 9}
  <1>0. n \in Nat /\ k \in 1 .. n /\ n - k \in Nat /\ n - (n - k) = k
    BY LenProperties
  <1>1. n - k \in S
    BY <1>0
  <1>2. PICK i \in S : \A l \in S : i <= l
    <2>1. S \in SUBSET Nat /\ S # {}
      BY <1>1
    <2> HIDE DEF S
    <2>2. QED
      BY <2>1, Smallest
  <1> DEFINE m == n - i
  <1>3. m \in k .. n /\ m \in 1 .. n /\ p[m] # 9
    BY <1>0, <1>2
  <1>4. \A j \in m + 1 .. n : p[j] = 9
    <2> SUFFICES ASSUME NEW j \in m + 1 .. n PROVE p[j] = 9
      OBVIOUS
    <2>1. n - j \in Nat /\ n - j < i /\ n - (n - j) = j /\ n - j <= n - k
      BY <1>0, <1>2
    <2> DEFINE h == n - j
    <2>2. h \in Nat /\ h < i /\ h <= n - k /\ n - h = j
      BY <2>1
    <2> HIDE DEF h
    <2>3. h \notin S
      <3>1. i \in Nat /\ (h \in S => i <= h)
        BY <1>2
      <3> HIDE DEF S
      <3>2. QED
        BY <2>2, <3>1
    <2>4. QED
      BY <2>2, <2>3
  <1>5. LastBelowNine(p, m)
    BY <1>3, <1>4 DEF LastBelowNine
  <1>6. QED
    BY <1>3, <1>5

\* RoundedUp clears the nines and counts the digit before them up.
IsRoundedUp(p, m, u) ==
    /\ u \in Seq(Digit) /\ Len(u) = Len(p)
    /\ \A i \in 1 .. Len(p) : u[i] = IF i > m THEN 0 ELSE IF i = m THEN p[i] + 1 ELSE p[i]

\* RoundedUp does that.
LEMMA RoundedUpIs ==
    ASSUME NEW p \in Seq(Digit), NEW m, LastBelowNine(p, m)
    PROVE  IsRoundedUp(p, m, RoundedUp(p))
  <1> DEFINE n == Len(p)
             nines == {i \in DOMAIN p : \A j \in i .. Len(p) : p[j] = 9}
             u == RoundedUp(p)
  <1>0. n \in Nat /\ DOMAIN p = 1 .. n /\ m \in 1 .. n /\ p[m] # 9 /\ \A i \in 1 .. n : p[i] \in 0 .. 9
    BY LenProperties, ElementOfSeq DEF LastBelowNine, Digit
  <1>1. nines = m + 1 .. n
    <2>1. ASSUME NEW i \in m + 1 .. n PROVE i \in nines
      <3>1. i \in 1 .. n /\ \A j \in i .. n : j \in m + 1 .. n
        BY <1>0
      <3>2. QED
        BY <1>0, <3>1 DEF LastBelowNine
    <2>2. ASSUME NEW i \in nines PROVE i \in m + 1 .. n
      <3>1. i \in 1 .. n /\ \A j \in i .. n : p[j] = 9
        BY <1>0
      <3>2. m \notin i .. n
        BY <1>0, <3>1
      <3>3. QED
        BY <1>0, <3>1, <3>2
    <2>3. QED
      BY <2>1, <2>2
  <1>2. Cardinality(nines) = n - m
    <2>1. m + 1 \in Int /\ n \in Int
      BY <1>0
    <2>2. Cardinality(m + 1 .. n) = IF m + 1 > n THEN 0 ELSE n - (m + 1) + 1
      BY <2>1, FS_Interval
    <2> HIDE DEF nines, n
    <2>3. (IF m + 1 > n THEN 0 ELSE n - (m + 1) + 1) = n - m
      BY <1>0
    <2>4. QED
      BY <1>1, <2>2, <2>3
  <1>3. n - Cardinality(nines) = m
    BY <1>0, <1>2
  <1>4. u = [i \in 1 .. n |-> IF i \in nines THEN 0 ELSE IF i = m THEN p[i] + 1 ELSE p[i]]
    BY <1>0, <1>3 DEF RoundedUp
  <1> HIDE DEF nines, u
  <1>5. \A i \in 1 .. n : u[i] = IF i > m THEN 0 ELSE IF i = m THEN p[i] + 1 ELSE p[i]
    BY <1>0, <1>1, <1>4
  <1>6. \A i \in 1 .. n : u[i] \in 0 .. 9
    BY <1>0, <1>5
  <1>7. u \in [1 .. n -> Digit]
    BY <1>4, <1>6 DEF Digit
  <1>8. u \in Seq(Digit) /\ Len(u) = n
    BY <1>0, <1>7
  <1>9. QED
    BY <1>5, <1>8 DEF u, IsRoundedUp

\* So its value is one more.
LEMMA RoundedUpValue ==
    ASSUME NEW p \in Seq(Digit), NEW m, LastBelowNine(p, m), NEW u, IsRoundedUp(p, m, u)
    PROVE  Value(10, u) = Value(10, p) + 1
  <1> DEFINE n == Len(p)
             v == ValueTable(10, p)
             w == ValueTable(10, u)
             bad == {i \in m .. n : w[i] # v[i] + 1}
  <1>0. n \in Nat /\ m \in 1 .. n /\ m \in Nat /\ n \in m .. n /\ m - 1 \in Nat /\ m - 1 <= n
        /\ m - 1 \in 0 .. m - 1 /\ Len(u) = n
    BY LenProperties DEF LastBelowNine, IsRoundedUp
  <1>1. p \in Seq(Nat) /\ u \in Seq(Nat) /\ 10 \in Nat \ {0, 1} /\ \A i \in 1 .. n : p[i] \in Nat
    <2>1. Digit \subseteq Nat
      BY DEF Digit
    <2>2. p \in Seq(Nat) /\ u \in Seq(Nat)
      BY <2>1, SeqMonotonic DEF IsRoundedUp
    <2>3. QED
      BY <2>2, ElementOfSeq
  <1>2. IsValue(10, v, p) /\ IsValue(10, w, u)
    BY <1>1, ValueExists
  <1>3. Value(10, p) = v[n] /\ Value(10, u) = w[n]
    BY <1>0 DEF Value
  <1> HIDE DEF v, w
  <1>4. /\ \A i \in 0 .. n : v[i] \in Nat
        /\ \A i \in 1 .. n : v[i] = 10 * v[i - 1] + p[i]
        /\ \A i \in 1 .. n : w[i] = 10 * w[i - 1] + u[i]
    BY <1>0, <1>2 DEF IsValue
  <1>5. w[m - 1] = v[m - 1]
    <2>1. \A i \in 1 .. m - 1 : p[i] = u[i]
      BY <1>0 DEF IsRoundedUp
    <2> DEFINE h == m - 1
    <2>2. h \in Nat /\ h <= Len(p) /\ h <= Len(u) /\ \A i \in 1 .. h : p[i] = u[i]
      BY <1>0, <2>1
    <2> HIDE DEF h
    <2>3. \A i \in 0 .. h : v[i] = w[i]
      BY <1>1, <1>2, <2>2, SameValue
    <2>4. QED
      BY <1>0, <2>3 DEF h
  <1>6. w[m] = v[m] + 1
    <2>1. w[m] = 10 * w[m - 1] + (p[m] + 1) /\ v[m] = 10 * v[m - 1] + p[m]
      BY <1>0, <1>4 DEF IsRoundedUp
    <2>2. v[m - 1] \in Nat /\ p[m] \in Nat
      BY <1>0, <1>1, <1>4
    <2> DEFINE a == v[m - 1]
               b == p[m]
    <2>3. a \in Nat /\ b \in Nat /\ w[m] = 10 * a + (b + 1) /\ v[m] = 10 * a + b
      BY <1>5, <2>1, <2>2
    <2> HIDE DEF a, b
    <2>4. QED
      BY <2>3
  <1>7. bad = {}
    <2> SUFFICES ASSUME bad # {} PROVE FALSE
      OBVIOUS
    <2>1. PICK i \in bad : \A l \in bad : i <= l
      <3>1. bad \in SUBSET Nat
        BY <1>0
      <3> HIDE DEF bad
      <3>2. QED
        BY <3>1, Smallest
    <2>2. i # m
      BY <1>6, <2>1
    <2>3. i \in m + 1 .. n /\ i \in 1 .. n /\ i - 1 \in m .. n /\ i - 1 \in 0 .. n /\ i - 1 \notin bad
      BY <1>0, <2>1, <2>2
    <2>4. w[i - 1] = v[i - 1] + 1 /\ v[i - 1] \in Nat
      BY <1>4, <2>3
    <2>5. p[i] = 9 /\ u[i] = 0
      BY <1>0, <2>3 DEF LastBelowNine, IsRoundedUp
    <2>6. w[i] = v[i] + 1
      <3> DEFINE a == v[i - 1]
      <3>1. a \in Nat /\ w[i] = 10 * (a + 1) + 0 /\ v[i] = 10 * a + 9
        BY <1>4, <2>3, <2>4, <2>5
      <3> HIDE DEF a
      <3>2. QED
        BY <3>1
    <2>7. QED
      BY <2>1, <2>6
  <1>8. QED
    BY <1>0, <1>3, <1>7
-----------------------------------------------------------------------------
(* The right decimal, digit by digit.                                      *)

Scaled(n) ==
    (Numerator(PiDecimal) + 5 * Power(10, Len(PiDecimal) - n - 1))
        \div Power(10, Len(PiDecimal) - n)

Rounded(n) ==
    IF PiDecimal[n + 1] >= 5 THEN RoundedUp(SubSeq(PiDecimal, 1, n)) ELSE SubSeq(PiDecimal, 1, n)

\* What Rounded is: the prefix, or the prefix with one added from the last
\* digit that is not a nine.
Carried(p, n, q) ==
    IF PiDecimal[n + 1] >= 5
    THEN \E m \in 1 .. n : LastBelowNine(p, m) /\ IsRoundedUp(p, m, q)
    ELSE q = p

\* Numerator is the value of the digits in base ten.
LEMMA NumeratorIsValue ==
    ASSUME NEW fraction
    PROVE  Numerator(fraction) = Value(10, fraction)
  BY DEF Numerator, Value, ValueTable

\* What is known of a request.
LEMMA RequestedIs ==
    ASSUME NEW n \in Requested
    PROVE  /\ n \in 1 .. Len(PiDecimal) - 1 /\ n \in Nat \ {0} /\ n \in 0 .. Len(PiDecimal)
           /\ Len(PiDecimal) \in Nat /\ n + 1 \in 1 .. Len(PiDecimal)
           /\ \A i \in 1 .. Len(PiDecimal) : PiDecimal[i] \in 0 .. 9
  <1>1. PiDecimal \in Seq(Digit) /\ Len(PiDecimal) \in Nat
    BY VerificationAssumption, LenProperties
  <1>2. \A i \in 1 .. Len(PiDecimal) : PiDecimal[i] \in 0 .. 9
    BY <1>1, ElementOfSeq DEF Digit
  <1>3. QED
    BY <1>1, <1>2, VerificationAssumption

\* The rounded digits are those of the scaled number.
LEMMA RoundedIs ==
    ASSUME NEW n \in Requested
    PROVE  /\ Rounded(n) \in Seq(Digit) /\ Len(Rounded(n)) = n
           /\ Carried(SubSeq(PiDecimal, 1, n), n, Rounded(n))
           /\ Value(10, Rounded(n)) = Scaled(n)
  <1> DEFINE p == SubSeq(PiDecimal, 1, n)
  <1>1. PiDecimal \in Seq(Digit) /\ n \in 1 .. Len(PiDecimal) - 1 /\ n \in 0 .. Len(PiDecimal) /\ n \in Nat \ {0}
    BY VerificationAssumption, RequestedIs
  <1>2. p \in Seq(Digit) /\ Len(p) = n /\ \A i \in 1 .. n : p[i] = PiDecimal[i]
    BY <1>1, PrefixIs
  <1>3. Scaled(n) = Value(10, p) + (IF PiDecimal[n + 1] >= 5 THEN 1 ELSE 0)
    BY <1>1, RoundingIs, NumeratorIsValue DEF Scaled
  <1>4. 1 \in 1 .. n /\ p[1] # 9
    BY <1>1, <1>2, PiAssumption
  <1>5. Value(10, p) \in Nat
    <2>1. p \in Seq(0 .. 10 - 1) /\ 10 \in Nat \ {0, 1}
      BY <1>2 DEF Digit
    <2> HIDE DEF p
    <2>2. QED
      BY <2>1, DigitsOfValue
  <1>6. Rounded(n) = IF PiDecimal[n + 1] >= 5 THEN RoundedUp(p) ELSE p
    BY DEF Rounded
  <1> HIDE DEF p
  <1>7. CASE PiDecimal[n + 1] >= 5
    <2>1. PICK m \in 1 .. n : LastBelowNine(p, m)
      BY <1>2, <1>4, LastBelowNineExists
    <2>2. IsRoundedUp(p, m, RoundedUp(p))
      BY <1>2, <2>1, RoundedUpIs
    <2>3. Value(10, RoundedUp(p)) = Value(10, p) + 1
      BY <1>2, <2>1, <2>2, RoundedUpValue
    <2>4. Rounded(n) = RoundedUp(p) /\ Scaled(n) = Value(10, p) + 1
      BY <1>3, <1>6, <1>7
    <2>5. Carried(p, n, Rounded(n))
      BY <1>7, <2>1, <2>2, <2>4 DEF Carried
    <2>6. RoundedUp(p) \in Seq(Digit) /\ Len(RoundedUp(p)) = n
      BY <1>2, <2>2 DEF IsRoundedUp
    <2>7. QED
      BY <2>3, <2>4, <2>5, <2>6 DEF p
  <1>8. CASE ~(PiDecimal[n + 1] >= 5)
    <2>1. Rounded(n) = p /\ Scaled(n) = Value(10, p) + 0
      BY <1>3, <1>6, <1>8
    <2>2. Carried(p, n, Rounded(n)) /\ Scaled(n) = Value(10, p)
      BY <1>5, <1>8, <2>1 DEF Carried
    <2>3. QED
      BY <1>2, <2>1, <2>2 DEF p
  <1>9. QED
    BY <1>7, <1>8

\* The right decimal is three, the point, and the rounded digits.
THEOREM RightDecimalIs ==
    ASSUME NEW n \in Requested
    PROVE  RightDecimal(n) = <<3, Point>> \o Rounded(n)
  <1> DEFINE q == Rounded(n)
             x == Value(10, q)
  <1>1. q \in Seq(0 .. 10 - 1) /\ 10 \in Nat \ {0, 1} /\ Len(q) = n /\ x = Scaled(n) /\ n \in Nat
    BY RoundedIs, RequestedIs DEF Digit
  <1>2. \A i \in 1 .. n : (x \div Power(10, n - i)) % 10 = q[i]
    <2> HIDE DEF q
    <2>1. \A i \in 1 .. Len(q) : (Value(10, q) \div Power(10, Len(q) - i)) % 10 = q[i]
      BY <1>1, DigitsOfValue
    <2>2. QED
      BY <1>1, <2>1
  <1>3. q = [i \in 1 .. n |-> q[i]]
    <2> HIDE DEF q
    <2>1. QED
      BY <1>1
  <1> HIDE DEF q
  <1>4. [i \in 1 .. n |-> (x \div Power(10, n - i)) % 10] = q
    BY <1>2, <1>3
  <1>5. [i \in 1 .. n |-> (Scaled(n) \div Power(10, n - i)) % 10] = q
    BY <1>1, <1>4
  <1>6. QED
    BY <1>5 DEF RightDecimal, Scaled, q
-----------------------------------------------------------------------------
(* The samples of the right decimal.                                       *)

\* The scaled number is within half a unit of the last place.
LEMMA ScaledIsNear ==
    ASSUME NEW n \in Requested
    PROVE  LET Q == Power(10, Len(PiDecimal) - n)
               N == Numerator(PiDecimal)
           IN  /\ N \in Nat /\ Q \in Nat \ {0} /\ Scaled(n) \in Nat
               /\ 2 * (Q * Scaled(n)) <= 2 * N + Q /\ 2 * N + Q < 2 * (Q * Scaled(n)) + 2 * Q
  <1> DEFINE l == Len(PiDecimal)
             k == l - n - 1
             P == Power(10, k)
             Q == Power(10, l - n)
             N == Numerator(PiDecimal)
             S == Scaled(n)
  <1>1. k \in Nat /\ l - n = k + 1 /\ 10 \in Nat \ {0, 1}
    BY RequestedIs
  <1>2. P \in Nat \ {0} /\ Q = 10 * P
    <2> HIDE DEF k, l
    <2>1. Power(10, k) \in Nat \ {0} /\ Power(10, k + 1) = 10 * Power(10, k)
      BY <1>1, PowerGrows
    <2>2. QED
      BY <1>1, <2>1
  <1>3. N \in Nat
    <2>1. PiDecimal \in Seq(0 .. 10 - 1)
      BY VerificationAssumption DEF Digit
    <2>2. Value(10, PiDecimal) \in Nat
      BY <1>1, <2>1, DigitsOfValue
    <2>3. QED
      BY <2>2, NumeratorIsValue
  <1>4. S = (N + 5 * P) \div Q
    BY DEF Scaled
  <1> HIDE DEF k, l, P, Q, N, S
  <1> DEFINE z == N + 5 * P
  <1>5. z \in Nat /\ Q \in Nat \ {0} /\ S = z \div Q
    BY <1>2, <1>3, <1>4
  <1>6. PICK x \in Nat, y \in 0 .. Q - 1 : z = Q * x + y /\ x = z \div Q /\ y = z % Q
    <2> HIDE DEF z
    <2>1. QED
      BY <1>5, Divided
  <1> DEFINE a == Q * S
  <1>7. S = x /\ S \in Nat /\ a \in Nat /\ z = a + y
    <2> HIDE DEF z
    <2>1. S = x /\ S \in Nat
      BY <1>5, <1>6
    <2>2. Q * x \in Nat /\ a = Q * x
      BY <1>5, <2>1
    <2>3. QED
      BY <1>6, <2>1, <2>2
  <1> HIDE DEF a
  <1>8. 2 * a <= 2 * N + Q /\ 2 * N + Q < 2 * a + 2 * Q
    BY <1>2, <1>3, <1>5, <1>6, <1>7
  <1>9. QED
    BY <1>3, <1>5, <1>7, <1>8 DEF a, S, N, Q, l

\* If the extractor finds one digit in the whole interval of the scaled
\* number, it is that of the number itself.
LEMMA SampleQuotient ==
    ASSUME NEW N \in Nat, NEW S \in Nat, NEW H \in Nat \ {0}, NEW T \in Nat \ {0}, NEW Q \in Nat \ {0},
           2 * (Q * S) <= 2 * N + Q, 2 * N + Q < 2 * (Q * S) + 2 * Q,
           (2 * S * H - H) \div (2 * T) = (2 * S * H + H) \div (2 * T)
    PROVE  (N * H) \div (T * Q) = (2 * S * H - H) \div (2 * T)
  <1> DEFINE l == (2 * S * H - H) \div (2 * T)
             p == S * H
             e == 2 * T
             f == e * l
             D == T * Q
             g == D * l
             a == p * Q
             b == H * Q
             m == N * H
  <1>0. p \in Nat /\ e \in Nat \ {0} /\ l \in Int /\ D \in Nat \ {0} /\ b \in Nat \ {0} /\ m \in Nat
    OBVIOUS
  <1>1. e * l <= 2 * p - H /\ 2 * p + H < e * (l + 1)
    OBVIOUS
  <1>2. a \in Nat /\ f \in Int /\ g \in Int /\ e * (l + 1) = f + e
    BY <1>0
  <1>3. f <= 2 * p - H /\ 2 * p + H < f + e
    BY <1>1, <1>2
  <1>4. 2 * a <= 2 * m + b /\ 2 * m + b < 2 * a + 2 * b
    <2> DEFINE r == Q * S
    <2>1. r \in Nat /\ 2 * r <= 2 * N + Q /\ 2 * N + Q < 2 * r + 2 * Q
      OBVIOUS
    <2>2. r * H = a /\ Q * H = b /\ N * H = m
      OBVIOUS
    <2> HIDE DEF r, a, b, m
    <2>3. (2 * r) * H <= (2 * N + Q) * H /\ (2 * N + Q) * H < (2 * r + 2 * Q) * H
      BY <2>1
    <2>4. (2 * r) * H = 2 * (r * H) /\ (2 * N + Q) * H = 2 * (N * H) + Q * H
          /\ (2 * r + 2 * Q) * H = 2 * (r * H) + 2 * (Q * H)
      BY <2>1
    <2>5. QED
      BY <2>2, <2>3, <2>4
  <1>5. f * Q = 2 * g /\ e * Q = 2 * D
    <2> HIDE DEF l
    <2>1. f * Q = (2 * T * l) * Q /\ (2 * T * l) * Q = 2 * ((T * Q) * l)
      BY <1>0
    <2>2. QED
      BY <1>0, <2>1
  <1>6. 2 * g <= 2 * a - b /\ 2 * a + b < 2 * g + 2 * D
    <2> HIDE DEF l, p, e, f
    <2>1. f * Q <= (2 * p - H) * Q /\ (2 * p + H) * Q < (f + e) * Q
      BY <1>0, <1>2, <1>3
    <2>2. (2 * p - H) * Q = 2 * (p * Q) - H * Q /\ (2 * p + H) * Q = 2 * (p * Q) + H * Q
          /\ (f + e) * Q = f * Q + e * Q
      BY <1>0, <1>2
    <2>3. QED
      BY <1>5, <2>1, <2>2
  <1>7. N * H = m /\ T * Q = D
    OBVIOUS
  <1> HIDE DEF p, e, f, a, b, m, D
  <1>8. g <= m /\ m < g + D
    <2> HIDE DEF g
    <2>1. QED
      BY <1>0, <1>2, <1>4, <1>6
  <1> HIDE DEF l
  <1>9. m \div D = l
    BY <1>0, <1>8
  <1>10. QED
    BY <1>7, <1>9 DEF l

\* A sample of the right decimal is the digit of pi, if there is one.
THEOREM RightSample ==
    ASSUME NEW n \in Requested, NEW position \in 0 .. SafePositionCount(n) - 1,
           Extract(Scaled(n), n, position) # Unresolved
    PROVE  Extract(Scaled(n), n, position) = PiHex[position + 1]
  <1> DEFINE L == Len(PiDecimal)
             N == Numerator(PiDecimal)
             S == Scaled(n)
             Q == Power(10, L - n)
             T == Power(10, n)
             H == Power(16, position + 1)
             lower == (2 * S * H - H) \div (2 * T)
             upper == (2 * S * H + H) \div (2 * T)
  <1>0. n \in Nat /\ L - n \in Nat /\ n + (L - n) = L /\ {16, 10} \subseteq Nat \ {0, 1}
    BY RequestedIs
  <1>1. position + 1 \in Nat /\ position + 1 \in 1 .. SafePositionCount(n)
    BY VerificationAssumption
  <1>2. /\ N \in Nat /\ Q \in Nat \ {0} /\ S \in Nat
        /\ 2 * (Q * S) <= 2 * N + Q /\ 2 * N + Q < 2 * (Q * S) + 2 * Q
    BY ScaledIsNear
  <1>3. T \in Nat \ {0} /\ H \in Nat \ {0}
    BY <1>0, <1>1, PowerGrows
  <1>4. Power(10, L) = T * Q
    <2> DEFINE k == L - n
    <2>1. k \in Nat /\ n + k = L
      BY <1>0
    <2> HIDE DEF k, L
    <2>2. Power(10, n + k) = Power(10, n) * Power(10, k)
      BY <1>0, <2>1, PowerOfSum
    <2>3. QED
      BY <2>1, <2>2 DEF k
  <1>5. Extract(S, n, position) = IF lower = upper THEN lower % 16 ELSE Unresolved
    BY DEF Extract
  <1>6. PiHex[position + 1] = ((N * H) \div Power(10, L)) % 16
    BY <1>1, PiAssumption
  <1> HIDE DEF L, N, S, Q, T, H
  <1>7. lower = upper /\ Extract(S, n, position) = lower % 16
    BY <1>5 DEF S
  <1>8. (N * H) \div (T * Q) = lower
    BY <1>2, <1>3, <1>7, SampleQuotient
  <1>9. Extract(S, n, position) = PiHex[position + 1]
    BY <1>4, <1>6, <1>7, <1>8
  <1>10. QED
    BY <1>9 DEF S

\* The positions are safe ones, and ascend.
PositionsOk(n) ==
    /\ Positions(n) \in Seq(0 .. SafePositionCount(n) - 1)
    /\ \A i \in 2 .. Len(Positions(n)) : Positions(n)[i - 1] < Positions(n)[i]

\* The policy selects such positions.
LEMMA PositionsAscend ==
    ASSUME NEW n \in Requested
    PROVE  PositionsOk(n)
  <1> DEFINE s == SafePositionCount(n)
             c == Select(s, MaximumSamples, Seed[n])
  <1>1. s \in Nat /\ MaximumSamples \in Nat \ {0} /\ Seed[n] \in Seq(Nat)
    <2> HIDE DEF s
    <2>1. s \in 0 .. Len(PiHex) /\ MaximumSamples \in 1 .. 32 /\ Seed[n] \in Seq(Nat)
      BY VerificationAssumption DEF s
    <2>2. Len(PiHex) \in Nat
      BY VerificationAssumption, LenProperties
    <2>3. QED
      BY <2>1, <2>2
  <1>2. c = Positions(n)
    BY DEF Positions
  <1>3. CASE s = 0
    <2>1. c = <<>>
      BY <1>3 DEF Select
    <2>2. QED
      BY <1>2, <2>1 DEF PositionsOk
  <1>4. CASE s # 0
    <2>1. s \in 1 .. Largest
      <3> DEFINE b == Wrap(Wrap(((n - 2) \div 100) * 83) + Wrap(((n - 2) % 100) * 83) \div 100)
      <3>1. s = IF n <= 2 THEN 0 ELSE Lesser(b, MaximumPosition + 1)
        BY DEF SafePositionCount
      <3>2. n > 2 /\ n \in Nat
        BY <1>4, <3>1, RequestedIs
      <3>3. b \in 0 .. Largest /\ Largest \in Nat
        <4> DEFINE x == ((n - 2) \div 100) * 83
                   y == ((n - 2) % 100) * 83
                   z == Wrap(x) + Wrap(y) \div 100
        <4>1. x \in Nat /\ y \in Nat
          BY <3>2
        <4> HIDE DEF x, y
        <4>2. Wrap(x) \in Nat /\ Wrap(y) \in Nat
          BY <4>1, Words
        <4>3. z \in Nat
          BY <4>2
        <4> HIDE DEF z
        <4>4. Wrap(z) \in 0 .. Largest /\ Largest \in Nat
          BY <4>3, Words
        <4>5. QED
          BY <4>4 DEF x, y, z
      <3> HIDE DEF b, s
      <3>4. MaximumPosition \in Int
        BY <3>3 DEF MaximumPosition
      <3>5. s <= b
        BY <1>1, <3>1, <3>2, <3>3, <3>4 DEF Lesser
      <3>6. QED
        BY <1>1, <1>4, <3>3, <3>5
    <2> HIDE DEF s, c
    <2>2. IsSpread(Select(s, MaximumSamples, Seed[n]), s, MaximumSamples)
      BY <1>1, <2>1, SelectionIsSpread
    <2>3. IsSpread(c, s, MaximumSamples)
      BY <2>2 DEF c
    <2>4. c \in Seq(0 .. s - 1) /\ \A i \in 2 .. Len(c) : c[i - 1] < c[i]
      BY <2>3 DEF IsSpread
    <2>5. QED
      BY <1>2, <2>4 DEF PositionsOk, s
  <1>5. QED
    BY <1>3, <1>4
-----------------------------------------------------------------------------
(* The stages and a right output.                                          *)

\* The fraction behind the point.
LEMMA FractionIs ==
    ASSUME NEW file \in Seq(Nat), NEW k \in Nat, k + 2 <= Len(file)
    PROVE  /\ SubSeq(file, 3, k + 2) \in Seq(Nat) /\ Len(SubSeq(file, 3, k + 2)) = k
           /\ \A i \in 1 .. k : SubSeq(file, 3, k + 2)[i] = file[i + 2]
  <1> DEFINE n == k + 2
             e == SubSeq(file, 3, n)
  <1>0. Len(file) \in Nat /\ 3 \in Int /\ n \in Int /\ n <= Len(file) /\ n - 3 + 1 = k
        /\ \A i \in 1 .. k : 3 + i - 1 = i + 2
    BY LenProperties
  <1>1. \A i \in 3 .. n : file[i] \in Nat
    <2>1. \A i \in 3 .. n : i \in 1 .. Len(file)
      BY <1>0
    <2>2. QED
      BY <2>1, ElementOfSeq
  <1> HIDE DEF n
  <1>2. /\ e \in Seq(Nat) /\ Len(e) = (IF 3 <= n THEN n - 3 + 1 ELSE 0)
        /\ \A i \in 1 .. n - 3 + 1 : e[i] = file[3 + i - 1]
    BY <1>0, <1>1, SubSeqProperties
  <1> HIDE DEF e
  <1>3. Len(e) = k
    BY <1>0, <1>2 DEF n
  <1>4. \A i \in 1 .. k : e[i] = file[i + 2]
    BY <1>0, <1>2
  <1>5. QED
    BY <1>2, <1>3, <1>4 DEF e, n

\* A right output, byte by byte.
IsRight(file, n) ==
    /\ file \in Seq(Nat) /\ Len(file) = n + 3
    /\ file[1] = 3 /\ file[2] = Point /\ file[n + 3] = NewLine
    /\ \A i \in 1 .. n : file[i + 2] = Rounded(n)[i] /\ Rounded(n)[i] \in Digit

\* The right decimal and a newline are a right output.
LEMMA RightOutput ==
    ASSUME NEW n \in Requested
    PROVE  /\ RightDecimal(n) \in Seq(Nat) /\ Len(RightDecimal(n)) = n + 2
           /\ IsRight(Append(RightDecimal(n), NewLine), n)
  <1> DEFINE q == Rounded(n)
             D == RightDecimal(n)
             F == Append(D, NewLine)
  <1>1. D = <<3, Point>> \o q /\ q \in Seq(Digit) /\ Len(q) = n /\ n \in Nat \ {0}
    BY RightDecimalIs, RoundedIs, RequestedIs
  <1> HIDE DEF q, D
  <1>2. q \in Seq(Nat) /\ \A i \in 1 .. n : q[i] \in Digit
    <2>1. Digit \subseteq Nat
      BY DEF Digit
    <2>2. QED
      BY <1>1, <2>1, SeqMonotonic, ElementOfSeq
  <1>3. <<3, Point>> \in Seq(Nat) /\ Len(<<3, Point>>) = 2
    BY DEF Point
  <1>4. /\ D \in Seq(Nat) /\ Len(D) = n + 2
        /\ D[1] = 3 /\ D[2] = Point /\ \A i \in 1 .. n : D[i + 2] = q[i]
    <2> DEFINE h == <<3, Point>>
    <2>1. h \in Seq(Nat) /\ Len(h) = 2 /\ h[1] = 3 /\ h[2] = Point
      BY <1>3
    <2> HIDE DEF h
    <2>2. /\ h \o q \in Seq(Nat) /\ Len(h \o q) = Len(h) + Len(q)
          /\ \A i \in 1 .. Len(h) + Len(q) :
                (h \o q)[i] = IF i <= Len(h) THEN h[i] ELSE q[i - Len(h)]
      BY <1>2, <2>1, ConcatProperties
    <2>3. D = h \o q
      BY <1>1 DEF h
    <2>4. \A i \in 1 .. n + 2 : D[i] = IF i <= 2 THEN h[i] ELSE q[i - 2]
      BY <1>1, <2>1, <2>2, <2>3
    <2>5. 1 \in 1 .. n + 2 /\ 2 \in 1 .. n + 2
      BY <1>1
    <2>6. \A i \in 1 .. n : i + 2 \in 1 .. n + 2 /\ ~(i + 2 <= 2) /\ (i + 2) - 2 = i
      BY <1>1
    <2>7. \A i \in 1 .. n : D[i + 2] = q[i]
      BY <2>4, <2>6
    <2>8. QED
      BY <1>1, <2>1, <2>2, <2>3, <2>4, <2>5, <2>7
  <1>5. /\ F \in Seq(Nat) /\ Len(F) = n + 3 /\ F[n + 3] = NewLine
        /\ \A i \in 1 .. n + 2 : F[i] = D[i]
    <2>1. NewLine \in Nat /\ (n + 2) + 1 = n + 3
      BY <1>1 DEF NewLine
    <2>2. /\ F \in Seq(Nat) /\ Len(F) = Len(D) + 1 /\ F[Len(D) + 1] = NewLine
          /\ \A i \in 1 .. Len(D) : F[i] = D[i]
      BY <1>4, <2>1, AppendProperties
    <2>3. QED
      BY <1>4, <2>1, <2>2
  <1> HIDE DEF F
  <1>6. 1 \in 1 .. n + 2 /\ 2 \in 1 .. n + 2 /\ \A i \in 1 .. n : i + 2 \in 1 .. n + 2
    BY <1>1
  <1>7. F[1] = 3 /\ F[2] = Point /\ \A i \in 1 .. n : F[i + 2] = q[i]
    BY <1>4, <1>5, <1>6
  <1>8. IsRight(F, n)
    BY <1>2, <1>5, <1>7 DEF IsRight, q
  <1>9. QED
    BY <1>4, <1>8 DEF D, F

\* expectedPrefix() is what the right output begins with.
LEMMA ExpectedIs ==
    ASSUME NEW n \in Requested
    PROVE  /\ Compared(n) \in 1 .. n /\ ExpectedPrefix(n) \in Seq(Nat)
           /\ Len(ExpectedPrefix(n)) = Compared(n)
           /\ \A i \in 1 .. Compared(n) : ExpectedPrefix(n)[i] = Rounded(n)[i]
  <1> DEFINE R == ReferenceDigits
             p == SubSeq(PiDecimal, 1, n)
             q == Rounded(n)
             x == SubSeq(PiDecimal, 1, R)
  <1>0. R \in Nat \ {0} /\ n \in Nat \ {0} /\ Digit \subseteq Nat /\ R \in 0 .. Len(PiDecimal)
    BY VerificationAssumption, RequestedIs, LenProperties DEF Digit
  <1>1. q \in Seq(Digit) /\ Len(q) = n /\ Carried(p, n, q)
    BY RoundedIs
  <1>2. CASE n <= R
    <2>1. Compared(n) = n
      BY <1>0, <1>2 DEF Compared, Lesser
    <2>2. ExpectedPrefix(n) = q
      BY <1>2, <2>1 DEF ExpectedPrefix, Rounded
    <2>3. q \in Seq(Nat)
      BY <1>0, <1>1, SeqMonotonic
    <2>4. QED
      BY <1>0, <1>1, <2>1, <2>2, <2>3
  <1>3. CASE ~(n <= R)
    <2>1. Compared(n) = R /\ R \in 1 .. n
      BY <1>0, <1>3 DEF Compared, Lesser
    <2>2. ExpectedPrefix(n) = x
      BY <1>3, <2>1 DEF ExpectedPrefix
    <2>3. PiDecimal \in Seq(Digit) /\ n \in 0 .. Len(PiDecimal)
      BY VerificationAssumption, RequestedIs
    <2>4. x \in Seq(Digit) /\ Len(x) = R /\ \A i \in 1 .. R : x[i] = PiDecimal[i]
      BY <1>0, <2>3, PrefixIs
    <2>5. Len(p) = n /\ \A i \in 1 .. n : p[i] = PiDecimal[i]
      BY <2>3, PrefixIs
    <2> HIDE DEF p, q, x, R
    <2>6. \A i \in 1 .. R : q[i] = p[i]
      <3>1. CASE PiDecimal[n + 1] >= 5
        <4>1. PICK m \in 1 .. n : LastBelowNine(p, m) /\ IsRoundedUp(p, m, q)
          BY <1>1, <3>1 DEF Carried
        <4>2. PICK j \in R + 1 .. n : PiDecimal[j] # 9
          BY <1>0, <1>3, <3>1, PiAssumption DEF R
        <4>3. p[j] # 9 /\ j \in 1 .. n
          BY <1>0, <2>5, <4>2
        <4>4. j \notin m + 1 .. n
          BY <2>5, <4>1, <4>3 DEF LastBelowNine
        <4>5. R < m
          BY <1>0, <4>2, <4>4
        <4>6. \A i \in 1 .. R : i \in 1 .. n /\ ~(i > m) /\ i # m
          BY <1>0, <2>1, <4>5
        <4>7. QED
          BY <2>5, <4>1, <4>6 DEF IsRoundedUp
      <3>2. CASE ~(PiDecimal[n + 1] >= 5)
        BY <1>1, <3>2 DEF Carried
      <3>3. QED
        BY <3>1, <3>2
    <2>7. \A i \in 1 .. R : x[i] = q[i]
      <3>1. \A i \in 1 .. R : i \in 1 .. n
        BY <1>0, <2>1
      <3>2. QED
        BY <2>4, <2>5, <2>6, <3>1
    <2>8. x \in Seq(Nat)
      BY <1>0, <2>4, SeqMonotonic
    <2>9. QED
      BY <2>1, <2>2, <2>4, <2>7, <2>8 DEF q
  <1>4. QED
    BY <1>2, <1>3

\* Every stage finds a right output right.
Passes(file, n) ==
    /\ InspectFile(file, n) /\ KnownDigitsMatch(file, n) /\ Hashable(file, n) /\ Framed(file, n)
    /\ CanonicalBytes(file, n) = RightDecimal(n)
    /\ Fraction(file, n) = Rounded(n)

\* The right output passes.
LEMMA RightPasses ==
    ASSUME NEW n \in Requested
    PROVE  Passes(Append(RightDecimal(n), NewLine), n)
  <1> DEFINE D == RightDecimal(n)
             F == Append(D, NewLine)
             q == Rounded(n)
             k == Compared(n)
  <1>0. n \in Nat \ {0} /\ q \in Seq(Digit) /\ Len(q) = n
    BY RequestedIs, RoundedIs
  <1>1. D \in Seq(Nat) /\ Len(D) = n + 2 /\ IsRight(F, n)
    BY RightOutput
  <1>a. \A i \in 1 .. n + 2 : F[i] = D[i]
    <2> HIDE DEF D
    <2>1. NewLine \in Nat
      BY DEF NewLine
    <2>2. \A i \in 1 .. Len(D) : Append(D, NewLine)[i] = D[i]
      BY <1>1, <2>1, AppendProperties
    <2>3. QED
      BY <1>1, <2>2
  <1> HIDE DEF F, D, q, k
  <1>2. /\ F \in Seq(Nat) /\ Len(F) = n + 3 /\ F[1] = 3 /\ F[2] = Point /\ F[n + 3] = NewLine
        /\ \A i \in 1 .. n : F[i + 2] = q[i] /\ q[i] \in Digit
    BY <1>1 DEF IsRight, q
  <1>3. Readable(F)
    BY <1>2, VerificationAssumption DEF Readable
  <1>4. \A i \in 3 .. n + 2 : F[i] \in Digit
    <2> SUFFICES ASSUME NEW i \in 3 .. n + 2 PROVE F[i] \in Digit
      OBVIOUS
    <2> DEFINE j == i - 2
    <2>1. j \in 1 .. n /\ j + 2 = i
      BY <1>0
    <2> HIDE DEF j
    <2>2. QED
      BY <1>2, <2>1
  <1>5. InspectFile(F, n)
    <2>1. DOMAIN F = 1 .. n + 3
      BY <1>2
    <2>2. ASSUME NEW i \in 1 .. n + 3 PROVE ~Misplaced(F[i], i - 1, n)
      <3>1. i = 1 \/ i = 2 \/ i \in 3 .. n + 2 \/ i = n + 3
        BY <1>0
      <3>2. CASE i = 1
        BY <1>0, <1>2, <3>2 DEF Misplaced
      <3>3. CASE i = 2
        BY <1>0, <1>2, <3>3 DEF Misplaced
      <3>4. CASE i \in 3 .. n + 2
        BY <1>0, <1>4, <3>4 DEF Misplaced
      <3>5. CASE i = n + 3
        BY <1>0, <1>2, <3>5 DEF Misplaced
      <3>6. QED
        BY <3>1, <3>2, <3>3, <3>4, <3>5
    <2>3. QED
      BY <1>2, <1>3, <2>1, <2>2 DEF InspectFile
  <1>6. Hashable(F, n) /\ Framed(F, n)
    BY <1>0, <1>2, <1>3, <1>4 DEF Hashable, Framed
  <1>7. CanonicalBytes(F, n) = D
    <2>1. n + 2 \in 0 .. Len(F)
      BY <1>0, <1>2
    <2> DEFINE h == n + 2
               e == SubSeq(F, 1, h)
    <2> HIDE DEF h
    <2>2. e \in Seq(Nat) /\ Len(e) = h /\ \A i \in 1 .. h : e[i] = F[i]
      BY <1>2, <2>1, PrefixIs DEF h
    <2> HIDE DEF e
    <2>3. Len(e) = Len(D) /\ \A i \in 1 .. Len(e) : e[i] = D[i]
      BY <1>1, <1>a, <2>2 DEF h
    <2>4. e = D
      BY <1>1, <2>2, <2>3, SeqEqual
    <2>5. QED
      BY <2>4 DEF CanonicalBytes, e, h
  <1>8. Fraction(F, n) = q
    <2> DEFINE e == SubSeq(F, 3, n + 2)
    <2>1. n + 2 <= Len(F) /\ n \in Nat
      BY <1>0, <1>2
    <2>2. e \in Seq(Nat) /\ Len(e) = n /\ \A i \in 1 .. n : e[i] = F[i + 2]
      BY <1>2, <2>1, FractionIs
    <2>3. q \in Seq(Nat)
      <3>1. Digit \subseteq Nat
        BY DEF Digit
      <3>2. QED
        BY <1>0, <3>1, SeqMonotonic
    <2> HIDE DEF e
    <2>4. e = q
      BY <1>0, <1>2, <2>2, <2>3, SeqEqual
    <2>5. QED
      BY <2>4 DEF Fraction, e
  <1>9. KnownDigitsMatch(F, n)
    <2> DEFINE e == SubSeq(F, 3, k + 2)
               x == ExpectedPrefix(n)
    <2>1. k \in 1 .. n /\ x \in Seq(Nat) /\ Len(x) = k /\ \A i \in 1 .. k : x[i] = q[i]
      BY ExpectedIs DEF k, q
    <2>2. k \in Nat /\ k + 2 <= Len(F) /\ \A i \in 1 .. k : i \in 1 .. n
      BY <1>0, <1>2, <2>1
    <2>3. e \in Seq(Nat) /\ Len(e) = k /\ \A i \in 1 .. k : e[i] = F[i + 2]
      BY <1>2, <2>2, FractionIs
    <2> HIDE DEF e, x
    <2>4. Len(e) = Len(x) /\ \A i \in 1 .. Len(e) : e[i] = x[i]
      BY <1>2, <2>1, <2>2, <2>3
    <2>5. e = x
      BY <2>1, <2>3, <2>4, SeqEqual
    <2>6. QED
      BY <1>2, <1>3, <2>2, <2>5 DEF KnownDigitsMatch, e, x, k
  <1>10. QED
    BY <1>5, <1>6, <1>7, <1>8, <1>9 DEF Passes, F, D, q
-----------------------------------------------------------------------------
(* A run in which nothing goes wrong.                                      *)

\* The samples are those of the policy, and all of them passed.
AllPassed(n, sampled) ==
    /\ DOMAIN sampled = DOMAIN Positions(n)
    /\ \A i \in DOMAIN Positions(n) :
        sampled[i].position = Positions(n)[i] /\ sampled[i].status = "passed"

\* How a clean run with the right decimal ends.
CleanEnd(n) ==
    /\ outcome = "completed" <=> options.plainName
    /\ output = IF outcome = "completed" /\ options.sameFile
                THEN ManifestText ELSE Append(RightDecimal(n), NewLine)
    /\ outcome = "completed" /\ ~options.sameFile =>
          manifest.sha256 = RightDecimal(n) /\ manifest.digits = n

\* What is so far when the right decimal for n digits is written and verified.
CleanSoFar(n) ==
    /\ pc # "idle" => expected = None /\ pc # "load"
    /\ pc \in {"written", "known", "hash", "bbp", "report", "publish"} =>
        output = Append(RightDecimal(n), NewLine)
    /\ pc \in {"known", "hash", "bbp", "report", "publish"} => checks["structure"] = "passed"
    /\ pc \in {"hash", "bbp", "report", "publish"} => checks["known"] = "passed"
    /\ pc \in {"bbp", "report", "publish"} =>
        checks["hash"] = "passed" /\ digest = <<RightDecimal(n)>>
    /\ pc \in {"report", "publish"} => checks["bbp"] \in Fine /\ AllPassed(n, samples)
    /\ pc = "idle" /\ outcome \in {"completed", "failed"} => CleanEnd(n)

Clean(n) == clean /\ digits = n /\ decimal = RightDecimal(n)

CleanInv ==
    /\ clean => digits \in Requested
    /\ \A n \in Requested : Clean(n) => CleanSoFar(n)

\* The samples of a right output pass if they are conclusive.
LEMMA SamplesPass ==
    ASSUME NEW n \in Requested, NEW file, Passes(file, n), NEW resolved,
           \A i \in DOMAIN Positions(n) : Sampled(file, n, resolved)[i].status # "inconclusive"
    PROVE  AllPassed(n, Sampled(file, n, resolved)) /\ Aggregate(Sampled(file, n, resolved)) \in Fine
  <1> DEFINE sampled == Sampled(file, n, resolved)
             P == Positions(n)
             numerator == Numerator(Fraction(file, n))
  <1>1. DOMAIN sampled = DOMAIN P
        /\ \A i \in DOMAIN P : /\ sampled[i].position = P[i]
                               /\ sampled[i].status = SampleStatus(file, n, P[i], resolved[i])
    BY DEF Sampled
  <1>2. numerator = Scaled(n)
    BY RoundedIs, NumeratorIsValue DEF Passes
  <1> HIDE DEF numerator
  <1>3. ASSUME NEW i \in DOMAIN P PROVE sampled[i].status = "passed"
    <2> DEFINE position == P[i]
               actual == Extract(numerator, n, position)
    <2>1. position \in 0 .. SafePositionCount(n) - 1
      <3>1. P \in Seq(0 .. SafePositionCount(n) - 1)
        BY PositionsAscend DEF PositionsOk
      <3> HIDE DEF P
      <3>2. i \in 1 .. Len(P)
        BY <3>1
      <3>3. P[i] \in 0 .. SafePositionCount(n) - 1
        BY <3>1, <3>2, ElementOfSeq
      <3>4. QED
        BY <3>3
    <2>2. sampled[i].status = SampleStatus(file, n, position, resolved[i]) /\ sampled[i].status # "inconclusive"
      BY <1>1
    <2> HIDE DEF position, sampled, P
    <2>3. SampleStatus(file, n, position, resolved[i])
            = IF ~resolved[i] \/ actual = Unresolved THEN "inconclusive"
              ELSE IF actual # PiHex[position + 1] THEN "failed" ELSE "passed"
      BY DEF SampleStatus, numerator
    <2>4. actual # Unresolved
      BY <2>2, <2>3
    <2>5. actual = PiHex[position + 1]
      BY <1>2, <2>1, <2>4, RightSample
    <2>6. QED
      BY <2>2, <2>3, <2>5
  <1>4. AllPassed(n, sampled)
    BY <1>1, <1>3 DEF AllPassed
  <1>5. Aggregate(sampled) \in Fine
    <2>1. CASE sampled = <<>>
      BY <2>1 DEF Aggregate, Fine
    <2>2. CASE sampled # <<>>
      <3> DEFINE S == {sampled[i].status : i \in DOMAIN sampled}
      <3>1. S \subseteq {"passed"}
        BY <1>1, <1>3
      <3> HIDE DEF S
      <3>2. S \in SUBSET Statuses
        BY <3>1 DEF Statuses
      <3>3. \E s \in S \cup {"skipped"} : \A t \in S : Severity[t] <= Severity[s]
        BY <3>2, WorstExists
      <3>4. Worst(S) \in S \cup {"skipped"}
        BY <3>3 DEF Worst
      <3>5. Worst(S) \in Fine
        BY <3>1, <3>4 DEF Fine
      <3>6. QED
        BY <2>2, <3>5 DEF Aggregate, S
    <2>3. QED
      BY <2>1, <2>2
  <1>6. QED
    BY <1>4, <1>5

\* A report on checks that are fine, one of them passed, is passed.
LEMMA WorstPassed ==
    ASSUME NEW S \in SUBSET Fine, "passed" \in S
    PROVE  Worst(S) = "passed"
  <1>1. S \in SUBSET Statuses
    BY DEF Fine, Statuses
  <1>2. \E s \in S \cup {"skipped"} : \A t \in S : Severity[t] <= Severity[s]
    BY <1>1, WorstExists
  <1>3. Worst(S) \in S \cup {"skipped"} /\ \A t \in S : Severity[t] <= Severity[Worst(S)]
    BY <1>2 DEF Worst
  <1>4. Worst(S) \in {"skipped", "passed"} /\ Severity["passed"] <= Severity[Worst(S)]
    BY <1>3 DEF Fine
  <1>5. QED
    BY <1>4, SeverityOrder DEF Statuses

\* At the start, and while the output is written.
LEMMA CleanWriting ==
    ASSUME VerifyInv, CleanInv,
           \/ \E n \in Requested : \E result \in Results[n], chosen \in Options :
                 Calculate(n, result, chosen)
           \/ OpenOutput \/ WriteOutput \/ SkipVerification
    PROVE  CleanInv'
  <1>0. pc # "idle" => outcome = "none"
    BY DEF VerifyInv, VerifyTypeOK
  <1>1. ASSUME NEW k \in Requested, NEW result \in Results[k], NEW chosen \in Options,
               Calculate(k, result, chosen)
        PROVE  CleanInv'
    <2>1. digits' \in Requested /\ pc' = "open" /\ expected' = None
      BY <1>1 DEF Calculate
    <2>2. QED
      BY <2>1 DEF CleanInv, CleanSoFar
  <1>2. CASE OpenOutput
    <2>1. UNCHANGED <<digits, decimal, expected>> /\ (clean' => clean)
      BY <1>2 DEF OpenOutput, call
    <2>2. clean' => pc' = "write" /\ outcome' = outcome
      BY <1>2 DEF OpenOutput
    <2>3. ASSUME NEW n \in Requested, CleanSoFar(n), clean' PROVE CleanSoFar(n)'
      BY <1>2, <2>1, <2>2, <2>3 DEF OpenOutput, CleanSoFar
    <2>4. QED
      BY <2>1, <2>3 DEF CleanInv, Clean
  <1>3. CASE WriteOutput
    <2>1. UNCHANGED <<digits, decimal, expected>> /\ (clean' => clean)
      BY <1>3 DEF WriteOutput, call
    <2>2. clean' => pc' = "written" /\ output' = Append(decimal, NewLine)
      BY <1>3 DEF WriteOutput
    <2>3. ASSUME NEW n \in Requested, Clean(n), CleanSoFar(n), clean' PROVE CleanSoFar(n)'
      BY <1>3, <2>1, <2>2, <2>3 DEF WriteOutput, CleanSoFar, Clean
    <2>4. QED
      BY <2>1, <2>3 DEF CleanInv, Clean
  <1>4. CASE SkipVerification
    <2>1. UNCHANGED <<digits, decimal, clean>> /\ pc' = "idle" /\ outcome' = "unverified"
      BY <1>4 DEF SkipVerification, call
    <2>2. QED
      BY <2>1 DEF CleanInv, Clean, CleanSoFar
  <1>5. QED
    BY <1>1, <1>2, <1>3, <1>4

\* No stage rejects the right output.
LEMMA CleanStages ==
    ASSUME VerifyInv, CleanInv, InspectOutput \/ VerifyKnownDigits \/ HashOutput \/ VerifySamples
    PROVE  CleanInv'
  <1>0. /\ pc # "idle" => outcome = "none"
        /\ checks \in [Stages -> Statuses]
    BY DEF VerifyInv, VerifyTypeOK
  <1>1. UNCHANGED <<output, expected, digits, decimal, outcome>> /\ (clean' => clean) /\ pc # "idle" /\ pc' # "idle"
    <2>1. CASE InspectOutput
      BY <2>1 DEF InspectOutput, call
    <2>2. CASE VerifyKnownDigits
      BY <2>2 DEF VerifyKnownDigits, call
    <2>3. CASE HashOutput
      BY <2>3 DEF HashOutput, call
    <2>4. CASE VerifySamples
      BY <2>4 DEF VerifySamples, call
    <2>5. QED
      BY <2>1, <2>2, <2>3, <2>4
  <1>2. ASSUME NEW n \in Requested, Clean(n), CleanSoFar(n), clean'
        PROVE  CleanSoFar(n)'
    <2>0. digits = n /\ pc # "load" /\ expected = None
      BY <1>1, <1>2 DEF Clean, CleanSoFar
    <2>1. ASSUME output = Append(RightDecimal(n), NewLine) PROVE Passes(output, n)
      BY <2>1, RightPasses
    <2>2. CASE InspectOutput
      <3>1. pc = "written"
        BY <2>0, <2>2 DEF InspectOutput
      <3>2. output = Append(RightDecimal(n), NewLine) /\ InspectFile(output, digits)
        BY <1>2, <2>0, <2>1, <3>1 DEF CleanSoFar, Passes
      <3>3. checks' = [Skipped EXCEPT !["structure"] = "passed"] /\ pc' = "known"
        BY <1>2, <2>2, <3>2 DEF InspectOutput
      <3>4. checks'["structure"] = "passed"
        BY <3>3 DEF Skipped, Stages
      <3>5. QED
        BY <1>1, <2>0, <3>2, <3>3, <3>4 DEF CleanSoFar
    <2>3. CASE VerifyKnownDigits
      <3>1. pc = "known" /\ pc' = "hash"
        BY <2>3 DEF VerifyKnownDigits
      <3>2. /\ output = Append(RightDecimal(n), NewLine) /\ KnownDigitsMatch(output, digits)
            /\ checks["structure"] = "passed"
        BY <1>2, <2>0, <2>1, <3>1 DEF CleanSoFar, Passes
      <3>3. checks' = [checks EXCEPT !["known"] = "passed"]
        BY <1>2, <2>3, <3>2 DEF VerifyKnownDigits
      <3>4. checks'["structure"] = "passed" /\ checks'["known"] = "passed"
        BY <1>0, <3>2, <3>3 DEF Stages
      <3>5. QED
        BY <1>1, <2>0, <3>1, <3>2, <3>4 DEF CleanSoFar
    <2>4. CASE HashOutput
      <3>1. pc = "hash" /\ pc' = "bbp"
        BY <2>4 DEF HashOutput
      <3>2. /\ output = Append(RightDecimal(n), NewLine) /\ Hashable(output, digits)
            /\ CanonicalBytes(output, digits) = RightDecimal(n)
            /\ checks["structure"] = "passed" /\ checks["known"] = "passed"
        BY <1>2, <2>0, <2>1, <3>1 DEF CleanSoFar, Passes
      <3>3. checks' = [checks EXCEPT !["hash"] = "passed"] /\ digest' = <<RightDecimal(n)>>
        BY <1>2, <2>4, <3>2 DEF HashOutput
      <3>4. checks'["structure"] = "passed" /\ checks'["known"] = "passed" /\ checks'["hash"] = "passed"
        BY <1>0, <3>2, <3>3 DEF Stages
      <3>5. QED
        BY <1>1, <2>0, <3>1, <3>2, <3>3, <3>4 DEF CleanSoFar
    <2>5. CASE VerifySamples
      <3>1. pc = "bbp" /\ pc' = "report" /\ digest' = digest
        BY <2>5 DEF VerifySamples
      <3>2. /\ output = Append(RightDecimal(n), NewLine) /\ Framed(output, digits)
            /\ Passes(output, n)
            /\ checks["structure"] = "passed" /\ checks["known"] = "passed"
            /\ checks["hash"] = "passed" /\ digest = <<RightDecimal(n)>>
        BY <1>2, <2>0, <2>1, <3>1 DEF CleanSoFar, Passes
      <3>3. PICK resolved \in Resolutions(digits) :
                /\ samples' = Sampled(output, digits, resolved)
                /\ checks' = [checks EXCEPT !["bbp"] = Aggregate(samples')]
                /\ clean' = (clean /\ \A i \in DOMAIN resolved : samples'[i].status # "inconclusive")
        BY <1>2, <2>5, <3>2 DEF VerifySamples
      <3>4. DOMAIN resolved = DOMAIN Positions(n)
        BY <2>0, <3>3 DEF Resolutions
      <3>5. \A i \in DOMAIN Positions(n) : Sampled(output, n, resolved)[i].status # "inconclusive"
        BY <1>2, <2>0, <3>3, <3>4
      <3> DEFINE sampled == Sampled(output, n, resolved)
      <3>6. AllPassed(n, sampled) /\ Aggregate(sampled) \in Fine
        BY <3>2, <3>5, SamplesPass
      <3>7. samples' = sampled /\ checks' = [checks EXCEPT !["bbp"] = Aggregate(sampled)]
        BY <2>0, <3>3
      <3> HIDE DEF sampled
      <3>8. /\ checks'["structure"] = "passed" /\ checks'["known"] = "passed" /\ checks'["hash"] = "passed"
            /\ checks'["bbp"] \in Fine
        BY <1>0, <3>2, <3>6, <3>7 DEF Stages
      <3>9. AllPassed(n, samples)'
        BY <3>6, <3>7 DEF AllPassed, Positions
      <3>10. QED
        BY <1>1, <2>0, <3>1, <3>2, <3>8, <3>9 DEF CleanSoFar
    <2>6. QED
      BY <2>2, <2>3, <2>4, <2>5
  <1>3. QED
    BY <1>1, <1>2 DEF CleanInv, Clean

\* So the report passes, and the manifest is saved.
LEMMA CleanReport ==
    ASSUME VerifyInv, CleanInv, Report
    PROVE  CleanInv'
  <1>0. /\ pc # "idle" => outcome = "none"
        /\ checks \in [Stages -> Statuses]
    BY DEF VerifyInv, VerifyTypeOK
  <1>1. pc = "report" /\ UNCHANGED <<output, manifest, expected, digits, decimal, checks, digest, samples, clean>>
    BY DEF Report, call, report
  <1>2. ASSUME NEW n \in Requested, Clean(n), CleanSoFar(n)
        PROVE  CleanSoFar(n)'
    <2>1. /\ expected = None
          /\ checks["structure"] = "passed" /\ checks["known"] = "passed"
          /\ checks["hash"] = "passed" /\ checks["bbp"] \in Fine
      BY <1>1, <1>2 DEF CleanSoFar
    <2>2. FinalChecks = checks
      BY <2>1 DEF FinalChecks, Mismatch
    <2>3. ReportStatus = "passed"
      <3> DEFINE S == {FinalChecks[stage] : stage \in Stages}
      <3>1. S \subseteq Fine /\ "passed" \in S
        BY <2>1, <2>2 DEF Stages, Fine
      <3> HIDE DEF S
      <3>2. Worst(S) = "passed"
        BY <3>1, WorstPassed
      <3>3. QED
        BY <3>2 DEF ReportStatus, S
    <2>4. pc' = "publish"
      BY <2>1, <2>3 DEF Report
    <2>5. AllPassed(n, samples)'
      BY <1>1, <1>2 DEF CleanSoFar, AllPassed, Positions
    <2>6. QED
      BY <1>1, <1>2, <2>4, <2>5 DEF CleanSoFar
  <1>3. QED
    BY <1>1, <1>2 DEF CleanInv, Clean

\* VerificationManifest::fromRun() and validate() accept a clean run, if they
\* accept the name of its output.
LEMMA CleanPublishable ==
    ASSUME NEW n \in Requested, Clean(n), CleanSoFar(n), pc = "publish"
    PROVE  Publishable <=> options.plainName
  <1> DEFINE P == Positions(n)
  <1>1. checks["known"] = "passed" /\ digest = <<RightDecimal(n)>> /\ AllPassed(n, samples)
    BY DEF CleanSoFar
  <1>2. digest # <<>>
    BY <1>1
  <1>3. Len(decimal) = digits + 2
    BY RightOutput DEF Clean
  <1>4. P \in Seq(0 .. SafePositionCount(n) - 1) /\ \A i \in 2 .. Len(P) : P[i - 1] < P[i]
    BY PositionsAscend DEF PositionsOk
  <1>5. /\ DOMAIN samples = DOMAIN P
        /\ \A i \in DOMAIN P : samples[i].position = P[i] /\ samples[i].status = "passed"
    BY <1>1 DEF AllPassed
  <1> HIDE DEF P
  <1>6. \A i \in 1 .. Len(P) : P[i] \in 0 .. SafePositionCount(n) - 1
    BY <1>4, ElementOfSeq
  <1>7. DOMAIN P = 1 .. Len(P) /\ Len(P) \in Nat
    BY <1>4, LenProperties
  <1>8. ASSUME NEW i \in DOMAIN samples, i > 1 PROVE samples[i].position > samples[i - 1].position
    <2> DEFINE h == i - 1
    <2>1. i \in 2 .. Len(P) /\ i \in DOMAIN P /\ h \in DOMAIN P
      BY <1>5, <1>7, <1>8
    <2>2. P[h] < P[i]
      BY <1>4, <2>1
    <2>3. P[h] \in Int /\ P[i] \in Int
      BY <1>6, <1>7, <2>1
    <2> HIDE DEF h
    <2>4. samples[i].position = P[i] /\ samples[h].position = P[h]
      BY <1>5, <2>1
    <2>5. samples[i].position > samples[h].position
      BY <2>2, <2>3, <2>4
    <2>6. QED
      BY <2>5 DEF h
  <1>9. QED
    BY <1>1, <1>2, <1>3, <1>5, <1>8 DEF Publishable

\* Saving publishes what was written; loading ends the clean run.
LEMMA CleanManifest ==
    ASSUME VerifyInv, CleanInv, SaveManifest \/ LoadManifest
    PROVE  CleanInv'
  <1>1. CASE SaveManifest
    <2>1. pc = "publish" /\ pc' = "idle" /\ UNCHANGED <<digits, decimal, options>> /\ (clean' => clean)
      BY <1>1 DEF SaveManifest, Fails, call
    <2>2. ASSUME NEW n \in Requested, Clean(n), CleanSoFar(n), clean'
          PROVE  CleanSoFar(n)'
      <3>1. Publishable <=> options.plainName
        BY <2>1, <2>2, CleanPublishable
      <3>2. digits = n /\ digest[1] = RightDecimal(n) /\ output = Append(RightDecimal(n), NewLine)
        BY <2>1, <2>2 DEF Clean, CleanSoFar
      <3>3. CASE Publishable
        <4>1. PutManifest({output}) /\ outcome' = "completed"
          BY <1>1, <2>2, <3>3 DEF SaveManifest
        <4>2. NewManifest.digits = digits /\ NewManifest.sha256 = digest[1]
          BY DEF NewManifest
        <4>3. IF options.sameFile THEN output' = ManifestText
              ELSE output' = output /\ manifest' = NewManifest
          BY <4>1 DEF PutManifest
        <4>4. CleanEnd(n)'
          BY <2>1, <3>1, <3>2, <3>3, <4>1, <4>2, <4>3 DEF CleanEnd, RightDecimal
        <4> QED  BY <2>1, <4>4 DEF CleanSoFar
      <3>4. CASE ~Publishable
        <4>1. UNCHANGED output /\ outcome' = "failed"
          BY <1>1, <3>4 DEF SaveManifest, Fails
        <4>2. CleanEnd(n)'
          BY <2>1, <3>1, <3>2, <3>4, <4>1 DEF CleanEnd, RightDecimal
        <4> QED  BY <2>1, <4>2 DEF CleanSoFar
      <3> QED  BY <3>3, <3>4
    <2>3. QED
      BY <2>1, <2>2 DEF CleanInv, Clean
  <1>2. CASE LoadManifest
    <2>1. ~clean'
      BY <1>2 DEF LoadManifest
    <2>2. QED
      BY <2>1 DEF CleanInv, Clean
  <1>3. QED
    BY <1>1, <1>2

\* Whoever interferes ends the clean run.
LEMMA CleanEnvironment ==
    ASSUME CleanInv, ChangeOutput \/ DamageManifest \/ Kill \/ PowerLoss
    PROVE  CleanInv'
  <1>1. CASE ChangeOutput \/ DamageManifest \/ PowerLoss
    <2>1. ~clean'
      BY <1>1 DEF ChangeOutput, DamageManifest, PowerLoss, Changes
    <2>2. QED
      BY <2>1 DEF CleanInv, Clean
  <1>2. CASE Kill
    <2>1. UNCHANGED <<digits, decimal, clean>> /\ pc' = "idle" /\ outcome' = "killed"
      BY <1>2 DEF Kill, call
    <2>2. QED
      BY <2>1 DEF CleanInv, Clean, CleanSoFar
  <1>3. QED
    BY <1>1, <1>2

\* Other components' steps leave it as it is.
LEMMA CleanStuttering ==
    ASSUME CleanInv, UNCHANGED verifyVars
    PROVE  CleanInv'
  <1>1. UNCHANGED <<output, manifest, pc, expected, digits, decimal, options, checks, digest, samples, outcome, clean>>
    BY DEF verifyVars, call, report
  <1>2. ASSUME NEW n \in Requested, CleanSoFar(n) PROVE CleanSoFar(n)'
    <2>1. AllPassed(n, samples) => AllPassed(n, samples)'
      BY <1>1 DEF AllPassed, Positions
    <2>2. CleanEnd(n) => CleanEnd(n)'
      BY <1>1 DEF CleanEnd, RightDecimal
    <2>3. QED
      BY <1>1, <1>2, <2>1, <2>2 DEF CleanSoFar
  <1>3. QED
    BY <1>1, <1>2 DEF CleanInv, Clean

\* Along every behaviour: as long as nothing went wrong, the right decimal has
\* passed every stage it has come to.
THEOREM CleanInvariant == VerifySpec => []CleanInv
  <1>1. VerifyInit => CleanInv
    BY DEF VerifyInit, CleanInv, Clean
  <1>2. VerifyInv /\ CleanInv /\ [VerifyNext]_verifyVars => CleanInv'
    BY CleanWriting, CleanStages, CleanReport, CleanManifest, CleanEnvironment, CleanStuttering
       DEF VerifyNext
  <1>3. QED
    BY <1>1, <1>2, VerifyInvariant, PTL DEF VerifySpec

\* A run that calculated pi right and was not disturbed is completed exactly if
\* the name of its output is one that the manifest may hold.  What it wrote is
\* then replaced by the manifest if the two have the same name, and otherwise
\* stays, with the manifest of it beside.
THEOREM CleanRunsPublish == VerifySpec => []CleanRunPublishes
  <1>1. VerifyInv /\ CleanInv => CleanRunPublishes
    <2> SUFFICES ASSUME VerifyInv, CleanInv, clean, decimal = RightDecimal(digits),
                        outcome \in {"completed", "failed"}
                 PROVE  /\ outcome = "completed" <=> options.plainName
                        /\ output = IF outcome = "completed" /\ options.sameFile
                                    THEN ManifestText ELSE Append(decimal, NewLine)
                        /\ outcome = "completed" /\ ~options.sameFile =>
                              manifest.sha256 = decimal /\ manifest.digits = digits
      BY DEF CleanRunPublishes
    <2>1. digits \in Requested /\ CleanSoFar(digits)
      BY DEF CleanInv, Clean
    <2>2. pc = "idle"
      BY DEF VerifyInv, VerifyTypeOK
    <2>3. QED
      BY <2>1, <2>2 DEF CleanSoFar, CleanEnd
  <1>2. QED
    BY <1>1, VerifyInvariant, CleanInvariant, PTL
=============================================================================
