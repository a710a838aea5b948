------------------------- MODULE CheckpointFrontier -------------------------
(***************************************************************************)
(* One checkpoint directory over many runs of pi-engine: the staged merge  *)
(* publishes its frontier through CheckpointFrontierWriter, every file is  *)
(* written by AtomicFileCommit, and the next run starts from what          *)
(* CheckpointResumePlanner accepts.  Between any two steps the process may *)
(* die, the machine may lose power, or a file may go bad.                  *)
(*                                                                         *)
(* A name in the directory has the content a running process sees and the  *)
(* content that is on the medium; fsync of the directory makes the second  *)
(* equal to the first, and a power loss leaves each name with either.      *)
(* P, Q and T of a range are a function of the range, so a block file is   *)
(* either that value ("good"), not there, or unusable.                     *)
(***************************************************************************)
EXTENDS Integers, FiniteSets

CONSTANTS
    TermCount,      \* identity_.termCount
    TreeLevels,     \* maximumTreeLevel(TermCount)
    FreshRuns,      \* whether a run may also be started without --resume
    Faults,         \* which faults happen: a subset of FaultKinds
    MaxFaults       \* bound: how many

FaultKinds == {"powerLoss", "kill", "writeError", "syncError", "damage"}

ASSUME CheckpointAssumption ==
    /\ TermCount \in Nat \ {0}
    /\ TreeLevels \in Nat
    /\ FreshRuns \in BOOLEAN
    /\ Faults \subseteq FaultKinds
    /\ MaxFaults \in Nat

\* A BlockLocation, which is also what the block's file name encodes.
Locations == {l \in [start : 0 .. TermCount, end : 0 .. TermCount, level : 0 .. TreeLevels] :
                 l.start < l.end}

\* A manifest is the set of its entries.  A published one is never empty: the
\* planner goes on with an empty one if the file is absent or unreadable.
NoManifest == {}

VARIABLES
    \* the checkpoint directory
    vBlock, dBlock,         \* content of every block file: visible, durable
    vManifest, dManifest,   \* the manifest: visible, durable
    \* the running process
    pc,
    suspects,               \* rejected files the planner has still to quarantine
    nodes,                  \* the frontier of BinarySplitter::splitParallel
    entries,                \* CheckpointFrontierWriter::entries_
    committed,              \* commitCount_ # 0, lastCommit_ has a value
    unsaved,                \* new nodes of this commit without a block file yet
    temp,                   \* the temp file of AtomicFileCommit::write
    stale,                  \* superseded files still to be deleted
    \* history
    faults,                 \* faults so far
    published               \* the last manifest whose commit returned, until a file goes bad

disk    == <<vBlock, dBlock, vManifest, dManifest>>
writer  == <<entries, committed, unsaved, temp, stale>>
history == <<faults, published>>
vars    == <<disk, pc, suspects, nodes, writer, history>>

Content == {"absent", "cached", "good", "bad"}

PCs == {"down", "plan", "quarantine", "quarantineSync", "layout", "stage", "write",
        "syncBlock", "syncManifest", "delete", "merge", "done"}

TypeOK ==
    /\ vBlock \in [Locations -> Content] /\ dBlock \in [Locations -> Content]
    /\ vManifest \in SUBSET Locations /\ dManifest \in SUBSET Locations
    /\ pc \in PCs
    /\ suspects \in SUBSET Locations /\ nodes \in SUBSET Locations
    /\ entries \in SUBSET Locations /\ committed \in BOOLEAN
    /\ unsaved \in SUBSET Locations /\ stale \in SUBSET Locations
    /\ temp \in {"none", "written", "synced"}
    /\ faults \in Nat /\ published \in SUBSET Locations

Init ==
    /\ vBlock = [l \in Locations |-> "absent"] /\ dBlock = vBlock
    /\ vManifest = NoManifest /\ dManifest = NoManifest
    /\ pc = "down" /\ suspects = {} /\ nodes = {}
    /\ entries = {} /\ committed = FALSE /\ unsaved = {} /\ temp = "none" /\ stale = {}
    /\ faults = 0 /\ published = NoManifest

Goto(place) == pc' = place

Terms(l) == l.start .. l.end - 1

\* The process is gone, and with it everything it had in memory.
Vanish ==
    /\ Goto("down") /\ suspects' = {} /\ nodes' = {}
    /\ entries' = {} /\ committed' = FALSE /\ unsaved' = {} /\ temp' = "none" /\ stale' = {}

-----------------------------------------------------------------------------
(* main() and CheckpointResumePlanner::create.                             *)

\* --resume asks the planner; without it the whole range is recalculated.
Launch(resume) ==
    /\ pc = "down"
    /\ Goto(IF resume THEN "plan" ELSE "layout")
    /\ UNCHANGED <<disk, suspects, nodes, writer, history>>

\* CheckpointFileInspector, ManifestEntryValidator and ModularPQTVerifier
\* together accept a block file only if it is what the range determines.
Inspected(l) == vBlock[l] \in {"good", "cached"}

\* CheckpointManifestValidator: an entry that overlaps another is rejected.
Structural(manifest) ==
    {l \in manifest : \A k \in manifest \ {l} : Terms(k) \cap Terms(l) = {}}

Accepted == {l \in Structural(vManifest) : Inspected(l)}

\* Every other checkpoint file of the directory is quarantined; the mutant
\* sweeps the directory before it has noted what it accepts.
PlanSweepsAll ==
    /\ pc = "plan"
    /\ nodes' = Accepted
    /\ suspects' = {l \in Locations : vBlock[l] # "absent"}
    /\ Goto("quarantine")
    /\ UNCHANGED <<disk, writer, history>>

Plan ==
    /\ pc = "plan"
    /\ nodes' = Accepted
    /\ suspects' = {l \in Locations : vBlock[l] # "absent"} \ Accepted
    /\ Goto("quarantine")
    /\ UNCHANGED <<disk, writer, history>>

\* CheckpointQuarantine: the file is renamed away, or that fails and it stays.
QuarantineMove(l) ==
    /\ pc = "quarantine" /\ l \in suspects
    /\ vBlock' = [vBlock EXCEPT ![l] = "absent"]
    /\ suspects' = suspects \ {l}
    /\ Goto("quarantineSync")
    /\ UNCHANGED <<dBlock, vManifest, dManifest, nodes, writer, history>>

QuarantineFails(l) ==
    /\ pc = "quarantine" /\ l \in suspects
    /\ "writeError" \in Faults /\ faults < MaxFaults
    /\ faults' = faults + 1
    /\ suspects' = suspects \ {l}
    /\ UNCHANGED <<disk, pc, nodes, writer, published>>

\* fsync of the directory: what is visible is now on the medium.
FlushForgotten == UNCHANGED <<dBlock, dManifest>>

Flush == dBlock' = vBlock /\ dManifest' = vManifest

QuarantineSync ==
    /\ pc = "quarantineSync"
    /\ Flush
    /\ Goto("quarantine")
    /\ UNCHANGED <<vBlock, vManifest, suspects, nodes, writer, history>>

\* A failed fsync is reported in the outcome; the plan goes on.
QuarantineSyncFails ==
    /\ pc = "quarantineSync"
    /\ "syncError" \in Faults /\ faults < MaxFaults
    /\ faults' = faults + 1
    /\ Goto("quarantine")
    /\ UNCHANGED <<disk, suspects, nodes, writer, published>>

Planned ==
    /\ pc = "quarantine" /\ suspects = {}
    /\ entries' = nodes
    /\ Goto("layout")
    /\ UNCHANGED <<disk, suspects, nodes, committed, unsaved, temp, stale, history>>

-----------------------------------------------------------------------------
(* BinarySplitter::splitParallel, whose frontier is the set nodes.         *)

AtMost(m, n) == IF m <= n THEN m ELSE n

\* The cursor of the loop over the seeds, which are in order, when it arrives
\* at p: the end of the last seed before, or 0.
CoveredEnd(seeds, p) ==
    LET before == {l \in seeds : l.start < p}
    IN  IF before = {} THEN 0
        ELSE (CHOOSE l \in before : \A k \in before : k.start <= l.start).end

\* A gap is appended where the cursor is short of a seed, or of the end.
WideGaps(seeds) ==
    {[start |-> CoveredEnd(seeds, p), end |-> p] :
        p \in {q \in {l.start : l \in seeds} \cup {TermCount} : CoveredEnd(seeds, q) + 1 < q}}

Gaps(seeds) ==
    {[start |-> CoveredEnd(seeds, p), end |-> p] :
        p \in {q \in {l.start : l \in seeds} \cup {TermCount} : CoveredEnd(seeds, q) < q}}

\* most is workerCount * tasksPerWorker, or 1 without parallel execution.
BoundedBlockCount(size, cutoff, most) == AtMost(1 + (size - 1) \div cutoff, most)

\* appendGap(): adjacent blocks of nearly equal size, the larger ones first.
BlockStart(gap, count, i) ==
    LET size == gap.end - gap.start
    IN  gap.start + i * (size \div count) + AtMost(i, size % count)

Blocks(gap, count) ==
    {[start |-> BlockStart(gap, count, i), end |-> BlockStart(gap, count, i + 1), level |-> 0] :
        i \in 0 .. count - 1}

Leaves(seeds, cutoff, most) ==
    UNION {Blocks(g, BoundedBlockCount(g.end - g.start, cutoff, most)) : g \in Gaps(seeds)}

\* Seeds keep their place and level, the gaps are computed; how they are cut
\* depends on the options of this run.  A stage is handed to the checkpoint
\* coordinator only if something was computed in it.
Layout(cutoff, most) ==
    /\ pc = "layout"
    /\ nodes' = nodes \cup Leaves(nodes, cutoff, most)
    /\ Goto(IF Leaves(nodes, cutoff, most) = {} THEN "merge" ELSE "stage")
    /\ UNCHANGED <<disk, suspects, writer, history>>

AtLeast(m, n) == IF m >= n THEN m ELSE n

\* The parent of two adjacent nodes.
Parent(left, right) ==
    [start |-> left.start, end |-> right.end,
     level |-> AtMost(AtLeast(left.level, right.level) + 1, TreeLevels)]

\* A node with an even number of nodes before it is the left one of its pair;
\* a last one without a partner is carried over.
LeftOfPair(frontier) ==
    {l \in frontier : Cardinality({k \in frontier : k.start < l.start}) % 2 = 0}

PairsOfOneLevel(frontier) ==
    LET pairs == {q \in LeftOfPair(frontier) \X frontier :
                     q[2].start = q[1].end /\ q[2].level = q[1].level}
    IN {Parent(p[1], p[2]) : p \in pairs} \cup (frontier \ UNION {{p[1], p[2]} : p \in pairs})

NextLevel(frontier) ==
    {Parent(p[1], p[2]) :
        p \in {q \in LeftOfPair(frontier) \X frontier : q[2].start = q[1].end}}
    \cup {l \in LeftOfPair(frontier) : l.end = TermCount}

MergeLevel ==
    /\ pc = "merge" /\ Cardinality(nodes) > 1
    /\ nodes' = NextLevel(nodes)
    /\ Goto("stage")
    /\ UNCHANGED <<disk, suspects, writer, history>>

Finish ==
    /\ pc = "merge" /\ Cardinality(nodes) = 1
    /\ Goto("done")
    /\ UNCHANGED <<disk, suspects, nodes, writer, history>>

Exit ==
    /\ pc = "done"
    /\ Vanish
    /\ UNCHANGED <<disk, faults, published>>

-----------------------------------------------------------------------------
(* CheckpointFrontierWriter::commitFrontier.                               *)

\* Whether the interval since the last commit is over depends on the clock;
\* the first frontier and the final one are never skipped.
AnyFrontierMayWait == committed

MayWait == Cardinality(nodes) # 1 /\ committed

CommitSkips ==
    /\ pc = "stage" /\ MayWait
    /\ Goto("merge")
    /\ UNCHANGED <<disk, suspects, nodes, writer, history>>

\* Nodes that the published manifest already has keep their file.
CommitBegins ==
    /\ pc = "stage"
    /\ unsaved' = nodes \ entries
    /\ Goto("write")
    /\ UNCHANGED <<disk, suspects, nodes, entries, committed, temp, stale, history>>

\* AtomicFileCommit::write: the temp file is created and filled ...
WriteTemp ==
    /\ pc = "write" /\ temp = "none"
    /\ temp' = "written"
    /\ UNCHANGED <<disk, pc, suspects, nodes, entries, committed, unsaved, stale, history>>

\* ... its content is synced ...
SyncTemp ==
    /\ pc = "write" /\ temp = "written"
    /\ temp' = "synced"
    /\ UNCHANGED <<disk, pc, suspects, nodes, entries, committed, unsaved, stale, history>>

WrittenIsReady == temp \in {"written", "synced"}

TempReady == temp = "synced"

\* ... and it is renamed to its final name, here that of the next new block ...
RenameBlock(l) ==
    /\ pc = "write" /\ TempReady
    /\ l \in unsaved /\ \A k \in unsaved : l.start <= k.start
    /\ vBlock' = [vBlock EXCEPT ![l] = IF temp = "synced" THEN "good" ELSE "cached"]
    /\ unsaved' = unsaved \ {l}
    /\ temp' = "none"
    /\ Goto("syncBlock")
    /\ UNCHANGED <<dBlock, vManifest, dManifest, suspects, nodes, entries, committed, stale, history>>

\* ... and here, when every block is stored, that of the manifest.
RenameManifest ==
    /\ pc = "write" /\ TempReady
    /\ unsaved = {}
    /\ vManifest' = nodes
    /\ temp' = "none"
    /\ Goto("syncManifest")
    /\ UNCHANGED <<vBlock, dBlock, dManifest, suspects, nodes, entries, committed, unsaved, stale,
                   history>>

SyncBlock ==
    /\ pc = "syncBlock"
    /\ Flush
    /\ Goto("write")
    /\ UNCHANGED <<vBlock, vManifest, suspects, nodes, writer, history>>

\* The files of the previous frontier that the new one does not refer to.
AllPrevious == entries

Superseded == entries \ nodes

SyncManifest ==
    /\ pc = "syncManifest"
    /\ Flush
    /\ published' = IF \E l \in nodes : vBlock[l] = "bad" THEN NoManifest ELSE vManifest
    /\ stale' = Superseded
    /\ Goto("delete")
    /\ UNCHANGED <<vBlock, vManifest, suspects, nodes, entries, committed, unsaved, temp,
                   faults>>

\* std::filesystem::remove; an error is ignored, and nothing is synced.
Delete(l) ==
    /\ pc = "delete" /\ l \in stale
    /\ vBlock' = [vBlock EXCEPT ![l] = "absent"]
    /\ stale' = stale \ {l}
    /\ UNCHANGED <<dBlock, vManifest, dManifest, pc, suspects, nodes, entries, committed, unsaved,
                   temp, history>>

DeleteFails(l) ==
    /\ pc = "delete" /\ l \in stale
    /\ "writeError" \in Faults /\ faults < MaxFaults
    /\ faults' = faults + 1
    /\ stale' = stale \ {l}
    /\ UNCHANGED <<disk, pc, suspects, nodes, entries, committed, unsaved, temp,
                   published>>

CommitEnds ==
    /\ pc = "delete" /\ stale = {}
    /\ entries' = nodes
    /\ committed' = TRUE
    /\ Goto("merge")
    /\ UNCHANGED <<disk, suspects, nodes, unsaved, temp, stale, history>>

\* An error before the rename unlinks the temp file, one after it does not
\* undo the rename; either way the exception ends the run.
WriteFails ==
    /\ pc = "write"
    /\ "writeError" \in Faults /\ faults < MaxFaults
    /\ faults' = faults + 1
    /\ Vanish
    /\ UNCHANGED <<disk, published>>

SyncFails ==
    /\ pc \in {"syncBlock", "syncManifest"}
    /\ "syncError" \in Faults /\ faults < MaxFaults
    /\ faults' = faults + 1
    /\ Vanish
    /\ UNCHANGED <<disk, published>>

-----------------------------------------------------------------------------
(* What the process does not do itself.                                    *)

\* kill -9: the page cache survives.
Kill ==
    /\ "kill" \in Faults /\ faults < MaxFaults /\ pc # "down"
    /\ faults' = faults + 1
    /\ Vanish
    /\ UNCHANGED <<disk, published>>

\* After a power loss a name that was not synced has its old content or its
\* new one, and a file whose content was not synced may be torn.
PowerLoss ==
    /\ "powerLoss" \in Faults /\ faults < MaxFaults
    /\ faults' = faults + 1
    /\ \E lost \in SUBSET {l \in Locations : vBlock[l] # dBlock[l]} :
          vBlock' = [l \in Locations |->
                        LET survivor == IF l \in lost THEN dBlock[l] ELSE vBlock[l]
                        IN IF survivor = "cached" THEN "bad" ELSE survivor]
    /\ dBlock' = vBlock'
    /\ vManifest' \in {vManifest, dManifest}
    /\ dManifest' = vManifest'
    /\ Vanish
    /\ UNCHANGED published

\* A block file, or the manifest, goes bad on the medium.
DamageBlock(l) ==
    /\ "damage" \in Faults /\ faults < MaxFaults
    /\ vBlock[l] # "absent"
    /\ faults' = faults + 1 /\ published' = NoManifest
    /\ vBlock' = [vBlock EXCEPT ![l] = "bad"] /\ dBlock' = [dBlock EXCEPT ![l] = "bad"]
    /\ UNCHANGED <<vManifest, dManifest, pc, suspects, nodes, writer>>

DamageManifest ==
    /\ "damage" \in Faults /\ faults < MaxFaults
    /\ vManifest # NoManifest
    /\ faults' = faults + 1 /\ published' = NoManifest
    /\ vManifest' = NoManifest /\ dManifest' = NoManifest
    /\ UNCHANGED <<vBlock, dBlock, pc, suspects, nodes, writer>>

-----------------------------------------------------------------------------

\* The process itself, once it has been started.
Process ==
    \/ Plan \/ (\E l \in suspects : QuarantineMove(l)) \/ QuarantineSync \/ Planned
    \/ (\E cutoff, most \in 1 .. TermCount : Layout(cutoff, most)) \/ MergeLevel \/ Finish
    \/ CommitSkips \/ CommitBegins \/ WriteTemp \/ SyncTemp
    \/ (\E l \in unsaved : RenameBlock(l)) \/ RenameManifest \/ SyncBlock \/ SyncManifest
    \/ (\E l \in stale : Delete(l)) \/ CommitEnds

Fault ==
    \/ (\E l \in suspects : QuarantineFails(l)) \/ QuarantineSyncFails
    \/ WriteFails \/ SyncFails \/ (\E l \in stale : DeleteFails(l))
    \/ Kill \/ PowerLoss \/ (\E l \in Locations : DamageBlock(l)) \/ DamageManifest

Next ==
    \/ Launch(TRUE) \/ (FreshRuns /\ Launch(FALSE))
    \/ Process \/ Exit \/ Fault

Spec == Init /\ [][Next]_vars

\* A run goes on until a fault ends it, and a run that was ended is started
\* again; faults are never counted on.
FairSpec == Spec /\ WF_vars(Process) /\ WF_vars(Launch(TRUE))
-----------------------------------------------------------------------------
(* Properties.                                                             *)

\* Every term of the computation is in a block of the frontier.
Covers(frontier) == \A t \in 0 .. TermCount - 1 : \E l \in frontier : t \in Terms(l)

\* Whatever a power loss leaves of an unsynced directory, the manifest that
\* survives refers only to blocks that survive with it: blocks are durable
\* before the manifest, and the manifest before a superseded block goes.
Backed(manifest) ==
    \A l \in manifest : vBlock[l] = "good" /\ dBlock[l] = "good"

ManifestIsBacked == Backed(vManifest) /\ Backed(dManifest)

\* Once a frontier has been committed, and as long as no file goes bad, no
\* crash makes a resumed run compute a term again: the planner accepts blocks
\* that cover the whole range.
RestartLosesNothing ==
    published # NoManifest /\ pc = "plan" => Covers(Accepted)

\* The durable frontier only ever gets coarser, over all runs that resume:
\* no block of it is split up again.
FrontierOnlyGrows ==
    [][dManifest # NoManifest =>
          dManifest' # NoManifest
          /\ \A l \in dManifest : \E k \in dManifest' : Terms(l) \subseteq Terms(k)]_vars

\* A run that ends has published its result: the next one has nothing to do.
DoneIsDurable ==
    pc = "done" => vManifest = nodes /\ dManifest = nodes /\ Covers(nodes)

\* The frontier that is merged and committed is sorted, gap-free and without
\* overlap over [0, termCount), whatever was accepted and wherever gaps are cut.
FrontierPartitions ==
    pc \in {"stage", "write", "syncBlock", "syncManifest", "delete", "merge", "done"} =>
        /\ Covers(nodes)
        /\ \A l, k \in nodes : l # k => Terms(l) \cap Terms(k) = {}

\* No step removes a usable block while the manifest on disk names it: not the
\* deletion of superseded files, not quarantine, not a run without --resume.
NamedBlocksStay ==
    [][\A l \in vManifest' : vBlock[l] \in {"good", "cached"} => vBlock'[l] # "absent"]_vars

\* Faults being finite, the computation ends.
ComputationEnds == []<>(pc = "done")
=============================================================================
