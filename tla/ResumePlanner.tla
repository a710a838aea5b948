---------------------------- MODULE ResumePlanner ----------------------------
(***************************************************************************)
(* CheckpointResumePlanner::create: which blocks of a checkpoint directory *)
(* a resumed run may use.  The manifest is decoded, its entries are        *)
(* checked and scanned for overlaps in one pass, the files of the refused  *)
(* ones are quarantined, those of the others inspected, and what the       *)
(* accepted blocks do not cover is to be calculated again.                 *)
(*                                                                         *)
(* An action is one turn of one of these loops.  CheckpointFrontier takes  *)
(* the outcome in one step (Accepted, Gaps); here it is computed.          *)
(***************************************************************************)
EXTENDS Integers, Sequences

CONSTANTS
    TermCount,      \* termCount of the expected identity
    Entries,        \* what an entry of a manifest can be
    Manifests,      \* what the manifest file can hold
    Names,          \* checkpoint files; the name of a block is its location
    Directories     \* what the files can hold

Location(e) == [start |-> e.start, end |-> e.end, level |-> e.level]

\* BlockLocation::validate
InRange(e) == e.start < e.end /\ e.end <= TermCount

\* Entries are ordered by start, end and level.
KeyLess(a, b) ==
    \/ a.start < b.start
    \/ a.start = b.start /\ a.end < b.end
    \/ a.start = b.start /\ a.end = b.end /\ a.level < b.level

\* CheckpointManifestCodec::decode throws for anything else.
Decodable(m) ==
    /\ \A i \in 1 .. Len(m) : InRange(m[i])
    /\ \A i, j \in 1 .. Len(m) : i < j => KeyLess(m[i], m[j])

ASSUME PlannerAssumption ==
    /\ TermCount \in Nat \ {0}
    /\ Entries \subseteq [start : Nat, end : Nat, level : Nat, complete : BOOLEAN, name : Names]
    /\ \A m \in Manifests : m \in Seq(Entries) /\ Decodable(m)

\* A checkpoint file is not a block of this computation, or it is the block
\* of another location, or its values are wrong, or it is what its name says.
Contents == {"absent", "malformed", "misplaced", "wrong", "whole"}

ASSUME DirectoryAssumption == Directories \subseteq [Names -> Contents]

VARIABLES
    pc,             \* the loop that is running
    at,             \* and the index it is at
    entries,        \* manifest.entries
    rejected,       \* the flags of CheckpointManifestValidator::validate
    furthest,       \* furthestIndex, 0 if it has no value
    accepted,       \* the entries whose blocks are in acceptedBlocks
    cursor, gaps,   \* complement: rangesToRecalculate
    processed,      \* processedPaths
    blockFiles,     \* the directory
    stuck           \* files that could not be moved to quarantine

scan      == <<rejected, furthest>>
ranges    == <<cursor, gaps>>
directory == <<processed, blockFiles, stuck>>
vars      == <<pc, at, entries, scan, accepted, ranges, directory>>

Stages == {"load", "check", "scan", "refuse", "inspect", "orphans", "complement", "planned"}

Indices == 1 .. Len(entries)

TypeOK ==
    /\ pc \in Stages
    /\ at \in Nat \ {0}
    /\ entries \in Seq(Entries) /\ Decodable(entries)
    /\ rejected \in [Indices -> BOOLEAN]
    /\ furthest \in 0 .. Len(entries)
    /\ accepted \subseteq Indices
    /\ cursor \in Nat
    /\ gaps \subseteq [start : Nat, end : Nat]
    /\ processed \subseteq Names /\ stuck \subseteq Names
    /\ blockFiles \in [Names -> Contents]

Init ==
    /\ pc = "load" /\ at = 1
    /\ entries \in Manifests
    /\ rejected = [i \in Indices |-> FALSE] /\ furthest = 0
    /\ accepted = {} /\ cursor = 0 /\ gaps = {}
    /\ processed = {} /\ stuck = {}
    /\ blockFiles \in Directories

\* The loop goes on with the next index, or another one begins.
Continue == at' = at + 1 /\ UNCHANGED pc

Begin(stage) == pc' = stage /\ at' = 1

Running(loop) == pc = loop /\ at \in Indices

Over(loop) == pc = loop /\ at \notin Indices
-----------------------------------------------------------------------------
(* CheckpointManifestValidator::validate.                                  *)

\* store.loadManifest; without a manifest the planner goes on with none.
Load ==
    /\ pc = "load"
    /\ Begin("check")
    /\ UNCHANGED <<entries, scan, accepted, ranges, directory>>

LoadFails ==
    /\ pc = "load"
    /\ entries' = <<>> /\ rejected' = <<>>
    /\ Begin("check")
    /\ UNCHANGED <<furthest, accepted, ranges, directory>>

\* maximumTreeLevel
MaximumTreeLevel ==
    CHOOSE l \in 0 .. TermCount : 2 ^ l >= TermCount /\ \A k \in 0 .. l - 1 : 2 ^ k < TermCount

Sound(e) == InRange(e) /\ e.level <= MaximumTreeLevel /\ e.complete

Check ==
    /\ Running("check")
    /\ rejected' = [rejected EXCEPT ![at] = ~Sound(entries[at])]
    /\ Continue
    /\ UNCHANGED <<entries, furthest, accepted, ranges, directory>>

Checked ==
    /\ Over("check")
    /\ Begin("scan")
    /\ UNCHANGED <<entries, scan, accepted, ranges, directory>>

\* The entry with the furthest end so far; the mutant keeps the last one.
LastSeen == at

FurthestSeen ==
    IF furthest = 0 \/ entries[at].end > entries[furthest].end THEN at ELSE furthest

Collides == furthest # 0 /\ entries[at].start < entries[furthest].end

Scan ==
    /\ Running("scan") /\ ~rejected[at]
    /\ rejected' = [i \in Indices |->
                       rejected[i] \/ (Collides /\ i \in {at, furthest})]
    /\ furthest' = FurthestSeen
    /\ Continue
    /\ UNCHANGED <<entries, accepted, ranges, directory>>

ScanSkips ==
    /\ Running("scan") /\ rejected[at]
    /\ Continue
    /\ UNCHANGED <<entries, scan, accepted, ranges, directory>>

Scanned ==
    /\ Over("scan")
    /\ Begin("refuse")
    /\ UNCHANGED <<entries, scan, accepted, ranges, directory>>
-----------------------------------------------------------------------------
(* The files.                                                              *)

\* rejectFile: a path is dealt with once; a file that exists is moved away,
\* or stays if it cannot be moved.
RejectFile(n) ==
    /\ processed' = processed \cup {n}
    /\ IF n \in processed \/ blockFiles[n] = "absent"
       THEN UNCHANGED <<blockFiles, stuck>>
       ELSE \/ blockFiles' = [blockFiles EXCEPT ![n] = "absent"] /\ UNCHANGED stuck
            \/ stuck' = stuck \cup {n} /\ UNCHANGED blockFiles

\* Entries the validator has not accepted.
Refuse ==
    /\ Running("refuse") /\ rejected[at]
    /\ RejectFile(entries[at].name)
    /\ Continue
    /\ UNCHANGED <<entries, scan, accepted, ranges>>

RefuseSkips ==
    /\ Running("refuse") /\ ~rejected[at]
    /\ Continue
    /\ UNCHANGED <<entries, scan, accepted, ranges, directory>>

Refused ==
    /\ Over("refuse")
    /\ Begin("inspect")
    /\ UNCHANGED <<entries, scan, accepted, ranges, directory>>

\* CheckpointBlockValidator::validate: structure, checksum and identity.
BlockValid(n) == blockFiles[n] # "malformed"

\* CheckpointFileInspector::inspect
Inspects(n) == blockFiles[n] # "absent" /\ BlockValid(n)

\* ManifestEntryValidator::validate: the block in the file, and the name of the
\* file, are those of the entry.
Matches(e) == blockFiles[e.name] # "misplaced" /\ e.name = Location(e)

\* ModularPQTVerifier::validate
ModularlyRight(n) == blockFiles[n] # "wrong"

Passes(e) == Inspects(e.name) /\ Matches(e) /\ ModularlyRight(e.name)

\* An accepted path counts as dealt with; the mutant forgets that.
LeavesOpen(n) == processed' = processed

Deals(n) == processed' = processed \cup {n}

Accept ==
    /\ Running("inspect") /\ ~rejected[at] /\ Passes(entries[at])
    /\ accepted' = accepted \cup {at}
    /\ Deals(entries[at].name)
    /\ Continue
    /\ UNCHANGED <<entries, scan, ranges, blockFiles, stuck>>

\* A file that does not pass, or that could not be read.
Reject ==
    /\ Running("inspect") /\ ~rejected[at]
    /\ RejectFile(entries[at].name)
    /\ Continue
    /\ UNCHANGED <<entries, scan, accepted, ranges>>

InspectSkips ==
    /\ Running("inspect") /\ rejected[at]
    /\ Continue
    /\ UNCHANGED <<entries, scan, accepted, ranges, directory>>

Inspected ==
    /\ Over("inspect")
    /\ Begin("orphans")
    /\ UNCHANGED <<entries, scan, accepted, ranges, directory>>

\* Checkpoint files the manifest does not name; temporary files are left alone.
OrphanFiles ==
    {n \in Names \ processed : blockFiles[n] # "absent" /\ \A i \in Indices : entries[i].name # n}

RejectOrphans ==
    /\ pc = "orphans"
    /\ processed' = processed \cup OrphanFiles
    /\ \E failing \in SUBSET OrphanFiles :
          /\ blockFiles' = [n \in Names |-> IF n \in OrphanFiles \ failing THEN "absent" ELSE blockFiles[n]]
          /\ stuck' = stuck \cup failing
    /\ Begin("complement")
    /\ UNCHANGED <<entries, scan, accepted, ranges>>
-----------------------------------------------------------------------------
(* complement                                                              *)

Gap(from, to) == IF from < to THEN {[start |-> from, end |-> to]} ELSE {}

Complement ==
    /\ Running("complement") /\ at \in accepted
    /\ gaps' = gaps \cup Gap(cursor, entries[at].start)
    /\ cursor' = IF entries[at].end > cursor THEN entries[at].end ELSE cursor
    /\ Continue
    /\ UNCHANGED <<entries, scan, accepted, directory>>

ComplementSkips ==
    /\ Running("complement") /\ at \notin accepted
    /\ Continue
    /\ UNCHANGED <<entries, scan, accepted, ranges, directory>>

\* What follows the last block; the mutant leaves it out.
NoTail == {}

TailGap == Gap(cursor, TermCount)

Planned ==
    /\ Over("complement")
    /\ gaps' = gaps \cup TailGap
    /\ Begin("planned")
    /\ UNCHANGED <<entries, scan, accepted, cursor, directory>>
-----------------------------------------------------------------------------

Next ==
    \/ Load \/ LoadFails
    \/ Check \/ Checked \/ Scan \/ ScanSkips \/ Scanned
    \/ Refuse \/ RefuseSkips \/ Refused \/ Accept \/ Reject \/ InspectSkips \/ Inspected
    \/ RejectOrphans
    \/ Complement \/ ComplementSkips \/ Planned

Spec == Init /\ [][Next]_vars
-----------------------------------------------------------------------------
(* Properties.                                                             *)

Overlap(a, b) == a.start < b.end /\ b.start < a.end

\* What the scan is for: an entry survives it if it is sound and overlaps no
\* other sound entry, wherever that stands and whatever became of it.
Survives(i) ==
    /\ Sound(entries[i])
    /\ \A j \in Indices \ {i} : Sound(entries[j]) => ~Overlap(entries[i], entries[j])

\* The single pass that remembers only the furthest end rejects exactly the
\* entries that a comparison of all pairs would reject.
ScanIsExact ==
    pc \notin {"load", "check", "scan"} =>
        \A i \in Indices : rejected[i] <=> ~Survives(i)

Within(t, r) == r.start <= t /\ t < r.end

\* Every term of the computation is in exactly one accepted block or in exactly
\* one range to recalculate, and not in both.
PlanPartitions ==
    pc = "planned" => \A t \in 0 .. TermCount - 1 :
        /\ (\E i \in accepted : Within(t, entries[i])) <=> ~ \E g \in gaps : Within(t, g)
        /\ \A i, j \in accepted : Within(t, entries[i]) /\ Within(t, entries[j]) => i = j
        /\ \A g, h \in gaps : Within(t, g) /\ Within(t, h) => g = h

\* The file of an accepted block is whole and has not been moved away for
\* another entry's sake, and every other checkpoint file has been moved away
\* or could not be.
OnlyAcceptedFilesStay ==
    pc = "planned" =>
        /\ \A i \in accepted : blockFiles[entries[i].name] = "whole"
        /\ \A n \in Names : blockFiles[n] # "absent" =>
              n \in stuck \/ \E i \in accepted : entries[i].name = n
=============================================================================
