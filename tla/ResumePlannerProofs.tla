------------------------- MODULE ResumePlannerProofs -------------------------
(***************************************************************************)
(* The plan of a resumed run is right for any number of terms, any         *)
(* manifest that can be decoded and any directory.                         *)
(***************************************************************************)
EXTENDS ResumePlanner, TLAPS

\* Sound entries before the index of the scan.
Seen(i) == i \in Indices /\ i < at /\ Sound(entries[i])

\* Before the scan: flags are those of the checks.
CheckInv ==
    /\ pc \in {"load", "check"} => furthest = 0
    /\ pc = "check" => \A i \in Indices : i < at => (rejected[i] <=> ~Sound(entries[i]))

\* During the scan: the entry with the furthest end stands for all that were
\* seen, and those seen are judged among themselves.
ScanInv ==
    pc = "scan" =>
        /\ \A i \in Indices : ~Sound(entries[i]) => rejected[i]
        /\ \A i \in Indices : i >= at /\ Sound(entries[i]) => ~rejected[i]
        /\ furthest # 0 => Seen(furthest)
        /\ \A i \in Indices : Seen(i) => furthest # 0 /\ entries[i].end <= entries[furthest].end
        /\ \A i \in Indices : Seen(i) =>
              (rejected[i] <=> \E j \in Indices \ {i} : Seen(j) /\ Overlap(entries[i], entries[j]))

\* Which entries have been accepted, and which names dealt with.
FileInv ==
    /\ pc \in {"load", "check", "scan", "refuse"} => accepted = {}
    /\ pc \in {"load", "check", "scan"} => processed = {}
    /\ \A i \in accepted :
          /\ ~rejected[i] /\ entries[i].name = Location(entries[i])
          /\ entries[i].name \in processed /\ blockFiles[entries[i].name] = "whole"
    /\ \A n \in processed : blockFiles[n] # "absent" =>
          n \in stuck \/ \E i \in accepted : entries[i].name = n
    /\ pc = "refuse" => \A i \in Indices : i < at /\ rejected[i] => entries[i].name \in processed
    /\ pc = "inspect" => \A i \in Indices : i < at \/ rejected[i] => entries[i].name \in processed
    /\ pc = "orphans" => \A i \in Indices : entries[i].name \in processed
    /\ pc \in {"complement", "planned"} => \A n \in Names : blockFiles[n] # "absent" => n \in processed

Covered(t) == \E i \in accepted : i < at /\ Within(t, entries[i])

Open(t) == \E g \in gaps : Within(t, g)

\* While the gaps are collected: what is below the cursor is settled.
GapInv ==
    /\ pc \notin {"complement", "planned"} => gaps = {} /\ cursor = 0
    /\ pc = "complement" =>
        /\ \A i \in accepted : i < at => entries[i].end <= cursor
        /\ \A i \in accepted : i >= at => cursor <= entries[i].start
        /\ \A g \in gaps : g.end <= cursor
        /\ \A t \in 0 .. cursor - 1 : Covered(t) <=> ~Open(t)
        /\ \A t \in Nat : \A g, h \in gaps : Within(t, g) /\ Within(t, h) => g = h

PlanInv ==
    /\ TypeOK /\ CheckInv /\ ScanInv /\ ScanIsExact
    /\ FileInv /\ GapInv /\ PlanPartitions

\* Entries are typed and sorted by their start.
LEMMA EntriesSorted ==
    ASSUME TypeOK
    PROVE  /\ Len(entries) \in Nat
           /\ \A i \in Indices : /\ entries[i] \in Entries
                                 /\ entries[i].start \in Nat /\ entries[i].end \in Nat
                                 /\ entries[i].start < entries[i].end
                                 /\ entries[i].end <= TermCount
                                 /\ entries[i].name \in Names
           /\ \A i, j \in Indices : i < j => entries[i].start <= entries[j].start
  <1>1. Len(entries) \in Nat /\ \A i \in Indices : entries[i] \in Entries
    BY DEF TypeOK, Indices
  <1>2. \A i \in Indices : /\ entries[i].start \in Nat /\ entries[i].end \in Nat
                           /\ entries[i].level \in Nat /\ entries[i].name \in Names
    BY <1>1, PlannerAssumption
  <1>3. \A i \in Indices : InRange(entries[i])
    BY DEF TypeOK, Decodable, Indices
  <1>4. \A i, j \in Indices : i < j => KeyLess(entries[i], entries[j])
    BY DEF TypeOK, Decodable, Indices
  <1>5. \A i, j \in Indices : i < j => entries[i].start <= entries[j].start
    BY <1>2, <1>4 DEF KeyLess
  <1> QED  BY <1>1, <1>2, <1>3, <1>5 DEF InRange

\* One turn of the scan: comparing with the furthest end is comparing with all.
LEMMA ScanTurn ==
    ASSUME TypeOK, ScanInv, Scan
    PROVE  ScanInv'
  <1> USE DEF Running, Continue, Begin
  <1>1. /\ pc = "scan" /\ pc' = "scan" /\ at \in Indices /\ ~rejected[at] /\ at' = at + 1
        /\ entries' = entries /\ Indices' = Indices
    BY DEF Scan, Indices
  <1> DEFINE Start(i) == entries[i].start
             End(i) == entries[i].end
             Ok(i) == Sound(entries[i])
             Meet(i, j) == Overlap(entries[i], entries[j])
  <1>2. /\ Len(entries) \in Nat /\ Indices = 1 .. Len(entries)
        /\ \A i \in Indices : Start(i) \in Nat /\ End(i) \in Nat /\ Start(i) < End(i)
        /\ \A i, j \in Indices : i < j => Start(i) <= Start(j)
        /\ \A i, j \in Indices : Meet(i, j) <=> Start(i) < End(j) /\ Start(j) < End(i)
    BY EntriesSorted DEF Indices, Overlap
  <1>3. Ok(at)
    BY <1>1 DEF ScanInv
  <1>4. /\ \A i \in Indices : ~Ok(i) => rejected[i]
        /\ \A i \in Indices : i >= at /\ Ok(i) => ~rejected[i]
        /\ furthest # 0 => furthest \in Indices /\ furthest < at /\ Ok(furthest)
        /\ \A i \in Indices : i < at /\ Ok(i) => furthest # 0 /\ End(i) <= End(furthest)
        /\ \A i \in Indices : i < at /\ Ok(i) =>
              (rejected[i] <=> \E j \in Indices \ {i} : j < at /\ Ok(j) /\ Meet(i, j))
    BY <1>1 DEF ScanInv, Seen
  <1>5. /\ furthest' = IF furthest = 0 \/ End(at) > End(furthest) THEN at ELSE furthest
        /\ \A i \in Indices : rejected'[i] <=>
              rejected[i] \/ (furthest # 0 /\ Start(at) < End(furthest) /\ i \in {at, furthest})
    BY <1>1 DEF Scan, FurthestSeen, Collides, Indices
  <1> HIDE DEF Start, End, Ok, Meet
  <1>6. /\ furthest' # 0 => furthest' \in Indices /\ furthest' < at + 1 /\ Ok(furthest')
        /\ \A i \in Indices : i < at + 1 /\ Ok(i) => furthest' # 0 /\ End(i) <= End(furthest')
    <2>1. CASE furthest = 0 \/ End(at) > End(furthest)
      <3>1. furthest' = at /\ at # 0
        BY <1>1, <1>2, <1>5, <2>1
      <3>2. \A i \in Indices : i < at /\ Ok(i) => End(i) <= End(at)
        BY <1>1, <1>2, <1>4, <2>1
      <3>3. \A i \in Indices : i < at + 1 => i < at \/ i = at
        BY <1>1, <1>2
      <3> QED  BY <1>1, <1>2, <1>3, <3>1, <3>2, <3>3
    <2>2. CASE ~(furthest = 0 \/ End(at) > End(furthest))
      <3>1. furthest' = furthest /\ furthest # 0
        BY <1>5, <2>2
      <3>2. End(at) <= End(furthest)
        BY <1>1, <1>2, <1>4, <2>2
      <3>3. \A i \in Indices : i < at + 1 => i < at \/ i = at
        BY <1>1, <1>2
      <3>4. furthest < at + 1
        BY <1>1, <1>2, <1>4, <3>1
      <3> QED  BY <1>1, <1>4, <3>1, <3>2, <3>3, <3>4
    <2> QED  BY <2>1, <2>2
  <1>7. /\ \A i \in Indices : ~Ok(i) => rejected'[i]
        /\ \A i \in Indices : i >= at + 1 /\ Ok(i) => ~rejected'[i]
    BY <1>1, <1>2, <1>4, <1>5
  <1>8. ASSUME NEW i \in Indices, i < at, Ok(i), Meet(i, at)
        PROVE  /\ furthest # 0 /\ Start(at) < End(furthest)
               /\ i # furthest => rejected[i]
    <2>1. furthest # 0 /\ Start(at) < End(furthest)
      BY <1>1, <1>2, <1>4, <1>8
    <2>2. ASSUME i # furthest PROVE Meet(i, furthest)
      BY <1>1, <1>2, <1>4, <1>8, <2>1, <2>2
    <2> QED  BY <1>1, <1>2, <1>4, <1>8, <2>1, <2>2
  <1>9. furthest # 0 /\ Start(at) < End(furthest) => Meet(furthest, at) /\ Meet(at, furthest)
    BY <1>1, <1>2, <1>4
  <1>10. ASSUME NEW i \in Indices, i < at + 1, Ok(i)
         PROVE  rejected'[i] <=> \E j \in Indices \ {i} : j < at + 1 /\ Ok(j) /\ Meet(i, j)
    <2>1. CASE i = at
      <3>1. \A j \in Indices : Meet(at, j) <=> Meet(j, at)
        BY <1>1, <1>2
      <3>2. ~rejected[at]
        BY <1>1
      <3> QED  BY <1>1, <1>2, <1>3, <1>4, <1>5, <1>8, <1>9, <2>1, <3>1, <3>2
    <2>2. CASE i < at
      <3>1. ASSUME rejected'[i]
            PROVE  \E j \in Indices \ {i} : j < at + 1 /\ Ok(j) /\ Meet(i, j)
        BY <1>1, <1>2, <1>3, <1>4, <1>5, <1>9, <1>10, <2>2, <3>1
      <3>2. ASSUME NEW j \in Indices \ {i}, j < at + 1, Ok(j), Meet(i, j)
            PROVE  rejected'[i]
        BY <1>1, <1>2, <1>4, <1>5, <1>8, <1>10, <2>2, <3>2
      <3> QED  BY <3>1, <3>2
    <2> QED  BY <1>1, <1>2, <1>10, <2>1, <2>2
  <1> QED
    BY <1>1, <1>6, <1>7, <1>10 DEF ScanInv, Seen, Ok, End, Meet

LEMMA InitEstablishes ==
    ASSUME Init
    PROVE  PlanInv
  <1>1. entries \in Seq(Entries) /\ Decodable(entries)
    BY PlannerAssumption DEF Init
  <1>2. TypeOK
    BY <1>1, DirectoryAssumption DEF Init, TypeOK, Stages, Indices
  <1>3. CheckInv /\ ScanInv /\ ScanIsExact
    BY <1>1 DEF Init, CheckInv, ScanInv, ScanIsExact, Indices
  <1>4. FileInv /\ GapInv /\ PlanPartitions
    BY DEF Init, FileInv, GapInv, PlanPartitions
  <1> QED  BY <1>2, <1>3, <1>4 DEF PlanInv

LEMMA TypeStep ==
    ASSUME TypeOK, CheckInv, FileInv, [Next]_vars
    PROVE  TypeOK'
  <1> USE DEF TypeOK, Indices, Stages, Running, Over, Continue, Begin, scan, ranges, directory
  <1>0. /\ Len(entries) \in Nat
        /\ \A i \in Indices : entries[i].start \in Nat /\ entries[i].end \in Nat /\ entries[i].name \in Names
    BY EntriesSorted
  <1>1. ASSUME UNCHANGED vars PROVE TypeOK'
    BY <1>1 DEF vars
  <1>2. ASSUME \/ Load \/ Checked \/ ScanSkips \/ Scanned \/ RefuseSkips \/ Refused
               \/ InspectSkips \/ Inspected \/ ComplementSkips
        PROVE  TypeOK'
    <2>1. UNCHANGED <<entries, rejected, furthest, accepted, cursor, gaps, processed, blockFiles, stuck>>
      BY <1>2 DEF Load, Checked, ScanSkips, Scanned, RefuseSkips, Refused, InspectSkips,
                  Inspected, ComplementSkips
    <2>2. pc' \in Stages /\ at' \in Nat \ {0}
      BY <1>2 DEF Load, Checked, ScanSkips, Scanned, RefuseSkips, Refused, InspectSkips,
                  Inspected, ComplementSkips
    <2> QED  BY <2>1, <2>2
  <1>3. ASSUME LoadFails PROVE TypeOK'
    <2>1. entries' = <<>> /\ Len(entries') = 0 /\ entries' \in Seq(Entries)
      BY <1>3 DEF LoadFails
    <2>2. Decodable(entries')
      BY <2>1 DEF Decodable
    <2>3. furthest' = 0
      BY <1>3 DEF LoadFails, CheckInv
    <2>4. rejected' \in [1 .. 0 -> BOOLEAN]
      BY <1>3 DEF LoadFails
    <2>5. accepted = {}
      BY <1>3 DEF LoadFails, FileInv
    <2> QED  BY <1>3, <2>1, <2>2, <2>3, <2>4, <2>5 DEF LoadFails
  <1>4. ASSUME Check PROVE TypeOK'
    BY <1>4 DEF Check
  <1>5. ASSUME Scan PROVE TypeOK'
    BY <1>5 DEF Scan, FurthestSeen
  <1>6. ASSUME Refuse \/ Reject PROVE TypeOK'
    <2>1. UNCHANGED <<pc, entries, rejected, furthest, accepted, cursor, gaps>> /\ at' = at + 1
      BY <1>6 DEF Refuse, Reject
    <2>2. at \in Indices /\ RejectFile(entries[at].name)
      BY <1>6 DEF Refuse, Reject
    <2>3. processed' \subseteq Names /\ stuck' \subseteq Names /\ blockFiles' \in [Names -> Contents]
      BY <1>0, <2>2 DEF RejectFile, Contents
    <2> QED  BY <2>1, <2>3
  <1>7. ASSUME Accept PROVE TypeOK'
    <2>1. UNCHANGED <<pc, entries, rejected, furthest, cursor, gaps, blockFiles, stuck>> /\ at' = at + 1
      BY <1>7 DEF Accept
    <2>2. accepted' \subseteq Indices /\ processed' \subseteq Names
      BY <1>0, <1>7 DEF Accept, Deals
    <2> QED  BY <2>1, <2>2
  <1>8. ASSUME RejectOrphans PROVE TypeOK'
    BY <1>8 DEF RejectOrphans, OrphanFiles, Contents
  <1>9. ASSUME Complement PROVE TypeOK'
    BY <1>0, <1>9 DEF Complement, Gap
  <1>10. ASSUME Planned PROVE TypeOK'
    BY <1>10, PlannerAssumption DEF Planned, TailGap, Gap
  <1> QED
    BY <1>1, <1>2, <1>3, <1>4, <1>5, <1>6, <1>7, <1>8, <1>9, <1>10 DEF Next

\* Only the first loops touch the manifest and the flags.
LEMMA LaterStages ==
    ASSUME [Next]_vars, pc \notin {"load", "check", "scan"}
    PROVE  /\ UNCHANGED <<entries, rejected, furthest>>
           /\ pc' \notin {"load", "check", "scan"}
  BY DEF Next, vars, scan, Running, Over, Continue, Begin,
         Load, LoadFails, Check, Checked, Scan, ScanSkips, Scanned,
         Refuse, RefuseSkips, Refused, Accept, Reject, InspectSkips, Inspected,
         RejectOrphans, Complement, ComplementSkips, Planned

LEMMA CheckStep ==
    ASSUME TypeOK, CheckInv, [Next]_vars
    PROVE  CheckInv'
  <1> USE DEF CheckInv, Indices, Running, Over, Continue, Begin, scan
  <1>0. Len(entries) \in Nat
    BY EntriesSorted
  <1>1. ASSUME UNCHANGED vars PROVE CheckInv'
    BY <1>1 DEF vars
  <1>2. ASSUME Load PROVE CheckInv'
    BY <1>0, <1>2 DEF Load
  <1>3. ASSUME LoadFails PROVE CheckInv'
    BY <1>0, <1>3 DEF LoadFails
  <1>4. ASSUME Check PROVE CheckInv'
    <2>1. /\ UNCHANGED <<pc, entries, furthest>> /\ at' = at + 1 /\ at \in Indices /\ pc = "check"
          /\ rejected' = [rejected EXCEPT ![at] = ~Sound(entries[at])]
      BY <1>4 DEF Check
    <2>2. \A i \in Indices : rejected'[i] = IF i = at THEN ~Sound(entries[i]) ELSE rejected[i]
      BY <2>1 DEF TypeOK
    <2>3. \A i \in Indices : i < at + 1 => i < at \/ i = at
      BY <1>0, <2>1
    <2> QED  BY <2>1, <2>2, <2>3
  <1>5. ASSUME Checked \/ Scan \/ ScanSkips \/ Scanned PROVE CheckInv'
    BY <1>5 DEF Checked, Scan, ScanSkips, Scanned
  <1>6. ASSUME pc \notin {"load", "check", "scan"} PROVE CheckInv'
    BY <1>6, LaterStages
  <1> QED
    BY <1>1, <1>2, <1>3, <1>4, <1>5, <1>6
    DEF Next, Refuse, RefuseSkips, Refused, Accept, Reject, InspectSkips, Inspected,
        RejectOrphans, Complement, ComplementSkips, Planned

LEMMA ScanStep ==
    ASSUME TypeOK, CheckInv, ScanInv, [Next]_vars
    PROVE  ScanInv'
  <1> USE DEF Indices, Running, Over, Continue, Begin, scan
  <1>0. Len(entries) \in Nat
    BY EntriesSorted
  <1>1. ASSUME UNCHANGED vars PROVE ScanInv'
    BY <1>1 DEF vars, ScanInv, Seen
  <1>2. ASSUME Load \/ LoadFails \/ Check \/ Scanned PROVE ScanInv'
    BY <1>2 DEF Load, LoadFails, Check, Scanned, ScanInv
  <1>3. ASSUME Checked PROVE ScanInv'
    <2>1. /\ UNCHANGED <<entries, rejected, furthest>> /\ pc = "check" /\ at' = 1
          /\ furthest = 0 /\ at \notin Indices
      BY <1>3 DEF Checked, CheckInv
    <2>2. \A i \in Indices : i < at
      BY <1>0, <2>1 DEF TypeOK
    <2>3. \A i \in Indices : rejected[i] <=> ~Sound(entries[i])
      BY <2>1, <2>2 DEF CheckInv
    <2>4. \A i \in Indices : ~(i < 1)
      BY <1>0
    <2> QED  BY <2>1, <2>3, <2>4 DEF ScanInv, Seen
  <1>4. ASSUME Scan PROVE ScanInv'
    BY <1>4, ScanTurn
  <1>5. ASSUME ScanSkips PROVE ScanInv'
    <2>1. /\ UNCHANGED <<pc, entries, rejected, furthest>> /\ pc = "scan" /\ at' = at + 1
          /\ at \in Indices /\ rejected[at]
      BY <1>5 DEF ScanSkips
    <2>2. ~Sound(entries[at])
      BY <1>0, <2>1 DEF ScanInv
    <2>3. \A i \in Indices : Seen(i)' <=> Seen(i)
      BY <1>0, <2>1, <2>2 DEF Seen
    <2>4. \A i \in Indices : i >= at + 1 => i >= at
      BY <1>0, <2>1
    <2>5. furthest # 0 => furthest \in Indices
      BY DEF TypeOK
    <2> QED  BY <2>1, <2>2, <2>3, <2>4, <2>5 DEF ScanInv
  <1>6. ASSUME pc \notin {"load", "check", "scan"} PROVE ScanInv'
    BY <1>6, LaterStages DEF ScanInv
  <1> QED
    BY <1>1, <1>2, <1>3, <1>4, <1>5, <1>6
    DEF Next, Refuse, RefuseSkips, Refused, Accept, Reject, InspectSkips, Inspected,
        RejectOrphans, Complement, ComplementSkips, Planned

LEMMA ExactStep ==
    ASSUME TypeOK, ScanInv, ScanIsExact, [Next]_vars
    PROVE  ScanIsExact'
  <1> USE DEF Running, Over, Continue, Begin, scan
  <1>1. ASSUME UNCHANGED vars PROVE ScanIsExact'
    BY <1>1 DEF vars, ScanIsExact, Survives, Indices
  <1>2. ASSUME Load \/ LoadFails \/ Check \/ Checked \/ Scan \/ ScanSkips PROVE ScanIsExact'
    BY <1>2 DEF Load, LoadFails, Check, Checked, Scan, ScanSkips, ScanIsExact
  <1>3. ASSUME Scanned PROVE ScanIsExact'
    <2>1. UNCHANGED <<entries, rejected>> /\ pc = "scan" /\ at \notin Indices
      BY <1>3 DEF Scanned
    <2>2. \A i \in Indices : i < at
      BY <2>1, EntriesSorted DEF TypeOK, Indices
    <2>3. \A i \in Indices : Seen(i) <=> Sound(entries[i])
      BY <2>2 DEF Seen
    <2>4. \A i \in Indices : rejected[i] <=> ~Survives(i)
      BY <2>1, <2>3 DEF ScanInv, Survives
    <2> QED  BY <2>1, <2>4 DEF ScanIsExact, Survives, Indices
  <1>4. ASSUME pc \notin {"load", "check", "scan"} PROVE ScanIsExact'
    BY <1>4, LaterStages DEF ScanIsExact, Survives, Indices
  <1> QED
    BY <1>1, <1>2, <1>3, <1>4
    DEF Next, Refuse, RefuseSkips, Refused, Accept, Reject, InspectSkips, Inspected,
        RejectOrphans, Complement, ComplementSkips, Planned

\* The part of FileInv that speaks of no loop.
Kept ==
    /\ \A i \in accepted :
          /\ ~rejected[i] /\ entries[i].name = Location(entries[i])
          /\ entries[i].name \in processed /\ blockFiles[entries[i].name] = "whole"
    /\ \A n \in processed : blockFiles[n] # "absent" =>
          n \in stuck \/ \E i \in accepted : entries[i].name = n

\* A file that is refused is not that of an accepted block.
LEMMA RejectKeeps ==
    ASSUME TypeOK, Kept, NEW n \in Names, RejectFile(n),
           UNCHANGED <<entries, rejected, accepted>>
    PROVE  /\ Kept' /\ processed' = processed \cup {n}
           /\ \A m \in Names : blockFiles'[m] # "absent" => blockFiles[m] # "absent"
  <1>1. CASE n \in processed \/ blockFiles[n] = "absent"
    BY <1>1 DEF Kept, RejectFile
  <1>2. CASE n \notin processed /\ blockFiles' = [blockFiles EXCEPT ![n] = "absent"] /\ UNCHANGED stuck
    <2>1. \A m \in Names : blockFiles'[m] = IF m = n THEN "absent" ELSE blockFiles[m]
      BY <1>2 DEF TypeOK
    <2>2. processed' = processed \cup {n} /\ processed \subseteq Names
      BY DEF RejectFile, TypeOK
    <2> QED  BY <1>2, <2>1, <2>2 DEF Kept
  <1>3. CASE stuck' = stuck \cup {n} /\ UNCHANGED blockFiles
    BY <1>3 DEF Kept, RejectFile
  <1> QED  BY <1>1, <1>2, <1>3 DEF RejectFile

LEMMA FileStep ==
    ASSUME TypeOK, FileInv, [Next]_vars
    PROVE  FileInv'
  <1> USE DEF Running, Over, Continue, Begin, scan, directory
  <1>0. /\ Len(entries) \in Nat /\ Indices = 1 .. Len(entries)
        /\ \A i \in Indices : entries[i].name \in Names
        /\ at \in Nat \ {0}
    BY EntriesSorted DEF Indices, TypeOK
  <1>1. ASSUME UNCHANGED vars PROVE FileInv'
    BY <1>1 DEF vars, FileInv, Indices
  <1>2. ASSUME Load \/ LoadFails \/ Check \/ Checked \/ Scan \/ ScanSkips PROVE FileInv'
    BY <1>2 DEF Load, LoadFails, Check, Checked, Scan, ScanSkips, FileInv
  <1>3. ASSUME Scanned PROVE FileInv'
    <2>1. \A i \in Indices : ~(i < 1)
      BY <1>0
    <2> QED  BY <1>3, <2>1 DEF Scanned, FileInv, Indices
  <1>4. ASSUME Refuse PROVE FileInv'
    <2>1. /\ pc = "refuse" /\ UNCHANGED <<pc, entries, rejected, accepted>> /\ Indices' = Indices
          /\ at \in Indices /\ at' = at + 1 /\ RejectFile(entries[at].name)
      BY <1>4 DEF Refuse, Indices
    <2>2. Kept' /\ processed' = processed \cup {entries[at].name}
      BY <1>0, <2>1, RejectKeeps DEF FileInv, Kept
    <2>3. \A i \in Indices : i < at + 1 => i < at \/ i = at
      BY <1>0, <2>1
    <2> QED  BY <2>1, <2>2, <2>3 DEF FileInv, Kept
  <1>5. ASSUME RefuseSkips PROVE FileInv'
    <2>1. \A i \in Indices : i < at + 1 => i < at \/ i = at
      BY <1>0, <1>5 DEF RefuseSkips
    <2> QED  BY <1>5, <2>1 DEF RefuseSkips, FileInv, Indices
  <1>6. ASSUME Refused PROVE FileInv'
    <2>1. \A i \in Indices : i < at /\ ~(i < 1)
      BY <1>0, <1>6 DEF Refused
    <2> QED  BY <1>6, <2>1 DEF Refused, FileInv, Indices
  <1>7. ASSUME Accept PROVE FileInv'
    <2>1. /\ pc = "inspect" /\ UNCHANGED <<pc, entries, rejected, blockFiles, stuck>> /\ Indices' = Indices
          /\ at \in Indices /\ at' = at + 1 /\ ~rejected[at] /\ Passes(entries[at])
          /\ accepted' = accepted \cup {at} /\ processed' = processed \cup {entries[at].name}
      BY <1>7 DEF Accept, Deals, Indices
    <2>2. \A i \in Indices : i < at + 1 => i < at \/ i = at
      BY <1>0, <2>1
    <2>3. blockFiles[entries[at].name] = "whole" /\ entries[at].name = Location(entries[at])
      BY <1>0, <2>1 DEF TypeOK, Contents, Passes, Inspects, BlockValid, Matches, ModularlyRight
    <2> QED  BY <2>1, <2>2, <2>3 DEF FileInv
  <1>8. ASSUME Reject PROVE FileInv'
    <2>1. /\ pc = "inspect" /\ UNCHANGED <<pc, entries, rejected, accepted>> /\ Indices' = Indices
          /\ at \in Indices /\ at' = at + 1 /\ RejectFile(entries[at].name)
      BY <1>8 DEF Reject, Indices
    <2>2. Kept' /\ processed' = processed \cup {entries[at].name}
      BY <1>0, <2>1, RejectKeeps DEF FileInv, Kept
    <2>3. \A i \in Indices : i < at + 1 => i < at \/ i = at
      BY <1>0, <2>1
    <2> QED  BY <2>1, <2>2, <2>3 DEF FileInv, Kept
  <1>9. ASSUME InspectSkips PROVE FileInv'
    <2>1. \A i \in Indices : i < at + 1 => i < at \/ i = at
      BY <1>0, <1>9 DEF InspectSkips
    <2> QED  BY <1>9, <2>1 DEF InspectSkips, FileInv, Indices
  <1>10. ASSUME Inspected PROVE FileInv'
    <2>1. \A i \in Indices : i < at
      BY <1>0, <1>10 DEF Inspected
    <2> QED  BY <1>10, <2>1 DEF Inspected, FileInv, Indices
  <1>11. ASSUME RejectOrphans PROVE FileInv'
    <2>1. /\ pc = "orphans" /\ pc' = "complement" /\ UNCHANGED <<entries, rejected, accepted>>
          /\ processed' = processed \cup OrphanFiles
      BY <1>11 DEF RejectOrphans
    <2>2. PICK failing \in SUBSET OrphanFiles :
             /\ blockFiles' = [n \in Names |-> IF n \in OrphanFiles \ failing THEN "absent" ELSE blockFiles[n]]
             /\ stuck' = stuck \cup failing
      BY <1>11 DEF RejectOrphans
    <2>3. \A n \in Names : blockFiles[n] # "absent" => n \in processed \/ n \in OrphanFiles
      BY <2>1 DEF OrphanFiles, FileInv
    <2>4. OrphanFiles \subseteq Names /\ OrphanFiles \cap processed = {} /\ processed \subseteq Names
      BY DEF OrphanFiles, TypeOK
    <2>5. /\ \A n \in Names \ OrphanFiles : blockFiles'[n] = blockFiles[n]
          /\ \A n \in OrphanFiles : blockFiles'[n] # "absent" => n \in stuck'
      BY <2>2, <2>4
    <2>6. \A n \in Names : blockFiles'[n] # "absent" => n \in processed'
      BY <2>1, <2>3, <2>5
    <2>7. \A i \in accepted' : /\ ~rejected'[i] /\ entries'[i].name = Location(entries'[i])
                               /\ entries'[i].name \in processed' /\ blockFiles'[entries'[i].name] = "whole"
      BY <2>1, <2>4, <2>5 DEF FileInv
    <2>8. \A n \in processed' : blockFiles'[n] # "absent" =>
             n \in stuck' \/ \E i \in accepted' : entries'[i].name = n
      BY <2>1, <2>2, <2>4, <2>5 DEF FileInv
    <2> QED  BY <2>1, <2>6, <2>7, <2>8 DEF FileInv
  <1>12. ASSUME Complement \/ ComplementSkips \/ Planned PROVE FileInv'
    BY <1>12 DEF Complement, ComplementSkips, Planned, FileInv
  <1> QED
    BY <1>1, <1>2, <1>3, <1>4, <1>5, <1>6, <1>7, <1>8, <1>9, <1>10, <1>11, <1>12 DEF Next

\* Accepted blocks do not overlap, and follow one another in the order of the
\* manifest.
LEMMA AcceptedApart ==
    ASSUME TypeOK, ScanIsExact, FileInv, pc \in {"complement", "planned"}
    PROVE  \A i, j \in accepted : i < j => entries[i].end <= entries[j].start
  <1> SUFFICES ASSUME NEW i \in accepted, NEW j \in accepted, i < j
               PROVE  entries[i].end <= entries[j].start
    OBVIOUS
  <1>1. i \in Indices /\ j \in Indices /\ i # j
    BY DEF TypeOK, Indices
  <1>2. Survives(i) /\ Survives(j)
    BY <1>1 DEF ScanIsExact, FileInv
  <1>3. ~Overlap(entries[i], entries[j])
    BY <1>1, <1>2 DEF Survives
  <1> QED  BY <1>1, <1>3, EntriesSorted DEF Overlap

LEMMA GapStep ==
    ASSUME TypeOK, ScanIsExact, FileInv, GapInv, [Next]_vars
    PROVE  GapInv'
  <1> USE DEF Running, Over, Continue, Begin, ranges
  <1>0. /\ Len(entries) \in Nat /\ Indices = 1 .. Len(entries) /\ accepted \subseteq Indices
        /\ at \in Nat \ {0} /\ cursor \in Nat /\ gaps \subseteq [start : Nat, end : Nat]
        /\ \A i \in Indices : /\ entries[i].start \in Nat /\ entries[i].end \in Nat
                              /\ entries[i].start < entries[i].end
    BY EntriesSorted DEF Indices, TypeOK
  <1>1. ASSUME UNCHANGED vars PROVE GapInv'
    BY <1>1 DEF vars, GapInv, Covered, Open
  <1>2. ASSUME \/ Load \/ LoadFails \/ Check \/ Checked \/ Scan \/ ScanSkips \/ Scanned
               \/ Refuse \/ RefuseSkips \/ Refused \/ Accept \/ Reject \/ InspectSkips \/ Inspected
        PROVE  GapInv'
    BY <1>2 DEF Load, LoadFails, Check, Checked, Scan, ScanSkips, Scanned,
                Refuse, RefuseSkips, Refused, Accept, Reject, InspectSkips, Inspected, GapInv
  <1>3. ASSUME RejectOrphans PROVE GapInv'
    <2>1. /\ UNCHANGED <<entries, accepted>> /\ at' = 1 /\ pc' = "complement"
          /\ cursor' = 0 /\ gaps' = {}
      BY <1>3 DEF RejectOrphans, GapInv
    <2>2. \A i \in accepted : ~(i < 1) /\ 0 <= entries[i].start
      BY <1>0
    <2> QED  BY <2>1, <2>2 DEF GapInv
  <1>4. ASSUME Complement PROVE GapInv'
    <2> DEFINE from == entries[at].start
               to   == entries[at].end
    <2>1. /\ UNCHANGED <<pc, entries, accepted>> /\ pc = "complement" /\ at' = at + 1
          /\ at \in accepted /\ at \in Indices
          /\ gaps' = gaps \cup Gap(cursor, from)
          /\ cursor' = IF to > cursor THEN to ELSE cursor
      BY <1>4 DEF Complement
    <2>2. /\ from \in Nat /\ to \in Nat /\ from < to
          /\ cursor <= from /\ cursor' = to
      BY <1>0, <2>1 DEF GapInv
    <2>3. \A i \in accepted : /\ i < at + 1 <=> i < at \/ i = at
                              /\ i >= at + 1 => at < i
      BY <1>0, <2>1
    <2>4. \A i \in accepted : i < at => entries[i].end <= cursor
      BY <2>1 DEF GapInv
    <2>5. \A g \in gaps : g.start \in Nat /\ g.end \in Nat /\ g.end <= cursor
      BY <1>0, <2>1 DEF GapInv
    <2>6. \A g \in gaps' : g \in gaps \/ (cursor < from /\ g = [start |-> cursor, end |-> from])
      BY <2>1 DEF Gap
    <2>7. cursor < from => [start |-> cursor, end |-> from] \in gaps'
      BY <2>1 DEF Gap
    <2>8. \A i \in accepted : i < at + 1 => entries[i].end <= to
      <3>1. to <= to /\ cursor <= to
        BY <1>0, <2>2
      <3>2. \A i \in accepted : i < at => entries[i].end <= to
        BY <1>0, <2>2, <2>4, <3>1
      <3> QED  BY <2>3, <3>1, <3>2
    <2>9. \A i \in accepted : i >= at + 1 => to <= entries[i].start
      BY <2>1, <2>3, AcceptedApart
    <2>10. \A g \in gaps' : g.end <= to
      BY <1>0, <2>2, <2>5, <2>6
    <2>11. ASSUME NEW t \in 0 .. to - 1 PROVE Covered(t)' <=> ~Open(t)'
      <3>0. t \in Nat /\ t < to
        BY <2>2, <2>11
      <3>1. Covered(t)' <=> Covered(t) \/ (from <= t /\ t < to)
        <4>1. Covered(t)' <=> \E i \in accepted : i < at + 1 /\ Within(t, entries[i])
          BY <2>1 DEF Covered
        <4>2. Within(t, entries[at]) <=> from <= t /\ t < to
          BY DEF Within
        <4> QED  BY <2>1, <2>3, <4>1, <4>2 DEF Covered
      <3>2. Open(t)' <=> Open(t) \/ (cursor <= t /\ t < from)
        <4>1. ASSUME Open(t)' PROVE Open(t) \/ (cursor <= t /\ t < from)
          BY <2>6, <4>1 DEF Open, Within
        <4>2. ASSUME Open(t) PROVE Open(t)'
          BY <2>1, <4>2 DEF Open
        <4>3. ASSUME cursor <= t, t < from PROVE Open(t)'
          <5>1. cursor < from
            BY <1>0, <2>2, <3>0, <4>3
          <5> QED  BY <2>7, <4>3, <5>1 DEF Open, Within
        <4> QED  BY <4>1, <4>2, <4>3
      <3>3. t < cursor => (Covered(t) <=> ~Open(t))
        BY <1>0, <2>1, <3>0 DEF GapInv
      <3>4. cursor <= t => ~Covered(t) /\ ~Open(t)
        BY <1>0, <2>4, <2>5, <3>0 DEF Covered, Open, Within
      <3>5. t < cursor \/ (cursor <= t /\ t < from) \/ (from <= t /\ cursor <= t)
        BY <1>0, <2>2, <3>0
      <3>6. t < cursor => ~(from <= t) /\ ~(cursor <= t)
        BY <1>0, <2>2, <3>0
      <3>7. from <= t => ~(t < from)
        BY <2>2, <3>0
      <3> QED  BY <3>0, <3>1, <3>2, <3>3, <3>4, <3>5, <3>6, <3>7
    <2>12. ASSUME NEW t \in Nat, NEW g \in gaps', NEW h \in gaps', Within(t, g), Within(t, h)
           PROVE  g = h
      <3>1. CASE g \in gaps /\ h \in gaps
        BY <2>1, <2>12, <3>1 DEF GapInv
      <3>2. CASE ~(g \in gaps /\ h \in gaps)
        BY <1>0, <2>2, <2>5, <2>6, <2>12, <3>2 DEF Within
      <3> QED  BY <3>1, <3>2
    <2>13. /\ \A t \in 0 .. to - 1 : Covered(t)' <=> ~Open(t)'
           /\ \A t \in Nat : \A g, h \in gaps' : Within(t, g) /\ Within(t, h) => g = h
      BY <2>11, <2>12
    <2> HIDE DEF from, to
    <2> QED  BY <2>1, <2>2, <2>8, <2>9, <2>10, <2>13 DEF GapInv
  <1>5. ASSUME ComplementSkips PROVE GapInv'
    <2>1. /\ UNCHANGED <<pc, entries, accepted, cursor, gaps>> /\ at' = at + 1 /\ at \notin accepted
          /\ pc = "complement"
      BY <1>5 DEF ComplementSkips
    <2>2. \A i \in accepted : /\ i < at + 1 <=> i < at
                              /\ i >= at + 1 => i >= at
      BY <1>0, <2>1
    <2>3. \A t : (Covered(t)' <=> Covered(t)) /\ (Open(t)' <=> Open(t))
      BY <2>1, <2>2 DEF Covered, Open
    <2> QED  BY <2>1, <2>2, <2>3 DEF GapInv
  <1>6. ASSUME Planned PROVE GapInv'
    BY <1>6 DEF Planned, GapInv
  <1> QED
    BY <1>1, <1>2, <1>3, <1>4, <1>5, <1>6 DEF Next

LEMMA PlanStep ==
    ASSUME TypeOK, ScanIsExact, FileInv, GapInv, PlanPartitions, [Next]_vars
    PROVE  PlanPartitions'
  <1> USE DEF Running, Over, Continue, Begin
  <1>0. /\ Len(entries) \in Nat /\ Indices = 1 .. Len(entries) /\ accepted \subseteq Indices
        /\ at \in Nat \ {0} /\ cursor \in Nat /\ gaps \subseteq [start : Nat, end : Nat]
        /\ \A i \in Indices : /\ entries[i].start \in Nat /\ entries[i].end \in Nat
                              /\ entries[i].start < entries[i].end
    BY EntriesSorted DEF Indices, TypeOK
  <1>1. ASSUME Planned PROVE PlanPartitions'
    <2>1. /\ pc = "complement" /\ UNCHANGED <<entries, accepted, cursor>> /\ at \notin Indices
          /\ gaps' = gaps \cup Gap(cursor, TermCount)
      BY <1>1 DEF Planned, TailGap
    <2>2. \A i \in accepted : i < at
      BY <1>0, <2>1
    <2>3. \A i \in accepted : entries[i].end <= cursor
      BY <2>1, <2>2 DEF GapInv
    <2>4. \A g \in gaps : g.start \in Nat /\ g.end \in Nat /\ g.end <= cursor
      BY <1>0, <2>1 DEF GapInv
    <2>5. /\ \A g \in gaps' : g \in gaps \/ (cursor < TermCount /\ g = [start |-> cursor, end |-> TermCount])
          /\ cursor < TermCount => [start |-> cursor, end |-> TermCount] \in gaps'
      BY <2>1 DEF Gap
    <2>6. ASSUME NEW t \in 0 .. TermCount - 1
          PROVE  (\E i \in accepted : Within(t, entries[i])) <=> ~ \E g \in gaps' : Within(t, g)
      <3>1. t \in Nat /\ t < TermCount /\ TermCount \in Nat
        BY <2>6, PlannerAssumption
      <3>2. (\E i \in accepted : Within(t, entries[i])) <=> Covered(t)
        BY <2>2 DEF Covered
      <3>3. CASE t < cursor
        <4>1. Covered(t) <=> ~Open(t)
          BY <1>0, <2>1, <3>1, <3>3 DEF GapInv
        <4>2. (\E g \in gaps' : Within(t, g)) <=> Open(t)
          BY <1>0, <2>1, <2>5, <3>1, <3>3 DEF Open, Within
        <4> QED  BY <3>2, <4>1, <4>2
      <3>4. CASE cursor <= t
        <4>1. ~ \E i \in accepted : Within(t, entries[i])
          BY <1>0, <2>3, <3>1, <3>4 DEF Within
        <4>2. [start |-> cursor, end |-> TermCount] \in gaps'
          BY <1>0, <2>5, <3>1, <3>4
        <4>3. \E g \in gaps' : Within(t, g)
          BY <3>1, <3>4, <4>2 DEF Within
        <4> QED  BY <4>1, <4>3
      <3>5. t < cursor \/ cursor <= t
        BY <1>0, <3>1
      <3> QED  BY <3>3, <3>4, <3>5
    <2>7. ASSUME NEW t \in 0 .. TermCount - 1, NEW i \in accepted, NEW j \in accepted,
                 Within(t, entries[i]), Within(t, entries[j])
          PROVE  i = j
      <3>1. t \in Nat
        BY <2>7, PlannerAssumption
      <3>2. ~(i < j) /\ ~(j < i)
        BY <1>0, <2>1, <2>7, <3>1, AcceptedApart DEF Within
      <3> QED  BY <1>0, <3>2
    <2>8. ASSUME NEW t \in 0 .. TermCount - 1, NEW g \in gaps', NEW h \in gaps',
                 Within(t, g), Within(t, h)
          PROVE  g = h
      <3>1. t \in Nat
        BY <2>8, PlannerAssumption
      <3>2. CASE g \in gaps /\ h \in gaps
        BY <2>1, <2>8, <3>1, <3>2 DEF GapInv
      <3>3. CASE ~(g \in gaps /\ h \in gaps)
        BY <1>0, <2>4, <2>5, <2>8, <3>1, <3>3, PlannerAssumption DEF Within
      <3> QED  BY <3>2, <3>3
    <2> QED  BY <2>1, <2>6, <2>7, <2>8 DEF PlanPartitions
  <1>2. ASSUME UNCHANGED vars PROVE PlanPartitions'
    BY <1>2 DEF vars, ranges, PlanPartitions
  <1>3. ASSUME Next, ~Planned PROVE PlanPartitions'
    <2>1. pc' # "planned"
      BY <1>3
      DEF Next, Load, LoadFails, Check, Checked, Scan, ScanSkips, Scanned, Refuse, RefuseSkips,
          Refused, Accept, Reject, InspectSkips, Inspected, RejectOrphans, Complement, ComplementSkips
    <2> QED  BY <2>1 DEF PlanPartitions
  <1> QED  BY <1>1, <1>2, <1>3

\* The inductive invariant: what each loop of create has established at the
\* index it stands at.
THEOREM PlannerInvariant == Spec => []PlanInv
  <1>1. Init => PlanInv
    BY InitEstablishes
  <1>2. PlanInv /\ [Next]_vars => PlanInv'
    <2> SUFFICES ASSUME PlanInv, [Next]_vars PROVE PlanInv'
      OBVIOUS
    <2>1. TypeOK /\ CheckInv /\ ScanInv /\ ScanIsExact /\ FileInv /\ GapInv /\ PlanPartitions
      BY DEF PlanInv
    <2>2. TypeOK' /\ CheckInv' /\ ScanInv' /\ ScanIsExact'
      BY <2>1, TypeStep, CheckStep, ScanStep, ExactStep
    <2>3. FileInv' /\ GapInv' /\ PlanPartitions'
      BY <2>1, FileStep, GapStep, PlanStep
    <2> QED  BY <2>2, <2>3 DEF PlanInv
  <1> QED  BY <1>1, <1>2, PTL DEF Spec

\* The single pass of CheckpointManifestValidator::validate, which compares an
\* entry only with the one that ends furthest, rejects exactly the entries that
\* overlap another sound one, for a manifest of any length.
THEOREM ScanExact == Spec => []ScanIsExact
  <1>1. PlanInv => ScanIsExact
    BY DEF PlanInv
  <1> QED  BY <1>1, PlannerInvariant, PTL

\* The plan of CheckpointResumePlanner::create neither loses a term nor counts
\* one twice, for any manifest and any directory.
THEOREM PlanIsPartition == Spec => []PlanPartitions
  <1>1. PlanInv => PlanPartitions
    BY DEF PlanInv
  <1> QED  BY <1>1, PlannerInvariant, PTL

\* The quarantine never takes the file of an accepted block, and leaves no
\* other checkpoint file that it was able to move.
THEOREM AcceptedFilesStay == Spec => []OnlyAcceptedFilesStay
  <1>1. PlanInv => OnlyAcceptedFilesStay
    BY DEF PlanInv, FileInv, OnlyAcceptedFilesStay
  <1> QED  BY <1>1, PlannerInvariant, PTL
=============================================================================
