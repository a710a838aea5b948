---------------------------- MODULE MCDirectories ----------------------------
(***************************************************************************)
(* Two directories whose files are named by a record that is written after *)
(* them: the chunks of the storage manager by its index, and the blocks of *)
(* a checkpoint by its manifest, which the planner of a resumed run reads. *)
(* They share no state, so each behaviour exercises one of them.           *)
(***************************************************************************)
EXTENDS StorageManager, ResumePlanner, TLC

VARIABLE subject

\* Two neighbours and a range that overlaps both.
ThreeOverlapping ==
    {[level |-> 0, start |-> 0, end |-> 2],
     [level |-> 0, start |-> 2, end |-> 4],
     [level |-> 0, start |-> 1, end |-> 3]}

CallersAreAlike == Permutations(Callers)

Leaf(from, to) == [start |-> from, end |-> to, level |-> 0]

\* The block files of three terms that a run could have written.
LeafNames == {l \in [start : 0 .. 2, end : 1 .. 3, level : {0}] : l.start < l.end}

Entry(l, complete, name) ==
    [start |-> l.start, end |-> l.end, level |-> l.level, complete |-> complete, name |-> name]

\* Regular entries, one that is incomplete, one of a level the tree does not
\* have, and two that name the file of another block.
SomeEntries ==
    {Entry(l, TRUE, l) : l \in LeafNames}
    \cup {Entry(Leaf(1, 3), FALSE, Leaf(1, 3)),
          Entry([Leaf(0, 2) EXCEPT !.level = 3], TRUE, Leaf(0, 2)),
          Entry(Leaf(1, 2), TRUE, Leaf(0, 1)),
          Entry(Leaf(0, 2), TRUE, Leaf(2, 3))}

\* Every manifest of at most three such entries that can be decoded.
SmallManifests ==
    {m \in UNION {[1 .. n -> SomeEntries] : n \in 0 .. 3} : Decodable(m)}

\* Every directory of at most three files, one of which may not be whole.
SmallDirectories ==
    {f \in [LeafNames -> Contents] :
        /\ Cardinality({n \in LeafNames : f[n] # "absent"}) <= 3
        /\ Cardinality({n \in LeafNames : f[n] \notin {"absent", "whole"}}) <= 1}

\* While the chunks are exercised the checkpoint directory is empty.
DirectoriesInit ==
    /\ \/ subject = "blocks"
       \/ subject = "chunks" /\ entries = <<>> /\ blockFiles = [n \in Names |-> "absent"]
    /\ StorageInit /\ Init

\* A finished plan is the only state from which nothing goes on.
DirectoriesNext ==
    /\ UNCHANGED subject
    /\ \/ subject = "chunks" /\ StorageNext /\ UNCHANGED vars
       \/ subject = "blocks" /\ Next /\ UNCHANGED storageVars
       \/ subject = "blocks" /\ pc = "planned" /\ UNCHANGED <<storageVars, vars>>

DirectoriesSpec ==
    DirectoriesInit /\ [][DirectoriesNext]_<<subject, storageVars, vars>>
=============================================================================
