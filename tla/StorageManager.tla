--------------------------- MODULE StorageManager ---------------------------
(***************************************************************************)
(* The chunk store and its index (StorageManager, ChunkStore, ChunkIndex): *)
(* threads store, load and remove chunks, the disk or the process may fail *)
(* at any step, and a restart rebuilds the manager from the published      *)
(* index.  A step is a critical section of indexMutex_ or one operation on *)
(* the disk that happens outside of it.                                    *)
(*                                                                         *)
(* Chunk files and the index are replaced by synchronised renames, so a    *)
(* file is never seen half written and what a step has put on the disk     *)
(* survives a power failure as it survives the end of the process.         *)
(***************************************************************************)
EXTENDS Naturals, FiniteSets

CONSTANTS
    Callers,        \* threads that call the manager
    Chunks,         \* chunk identities: [level, start, end]
    Faults,         \* the kinds of fault that may happen
    MaxFaults,      \* and how many of them, in all
    NoOne           \* no thread holds indexMutex_

FaultKinds == {"kill", "writeError", "indexError", "indexSyncError", "removeError", "corrupt"}

ASSUME StorageAssumption ==
    /\ Chunks \subseteq [level : Nat, start : Nat, end : Nat] /\ Chunks # {}
    /\ Faults \subseteq FaultKinds
    /\ MaxFaults \in Nat
    /\ NoOne \notin Callers

ASSUME CallersAreFinite == IsFiniteSet(Callers)

VARIABLES
    index,          \* index_, as the set of its identities
    published,      \* chunk-index-v1.bin
    files,          \* the chunk files
    inFlight,       \* inFlightStores_
    holder,         \* the thread that holds indexMutex_ between two steps
    call,           \* what each thread is doing: operation, chunk and step
    faults,         \* faults that have happened
    acked           \* history: chunks a caller was told are stored, and nobody
                    \* has removed or damaged since

store == <<index, published, files, inFlight, holder>>
storageVars == <<store, call, faults, acked>>

Steps == {"idle",
          "write", "publish", "undo", "stored", "failed",       \* store
          "read", "loaded", "missing",                          \* load
          "unpublish", "removed", "refused"}                    \* remove

\* The chunk of an idle call does not matter; any fixed one will do.
AnyChunk == CHOOSE c \in Chunks : TRUE

Idle == [step |-> "idle", chunk |-> AnyChunk]

Results == {"stored", "failed", "loaded", "missing", "removed", "refused"}

StorageTypeOK ==
    /\ index \subseteq Chunks
    /\ published \subseteq Chunks
    /\ files \in [Chunks -> {"absent", "whole", "corrupt"}]
    /\ inFlight \subseteq Chunks
    /\ holder \in Callers \cup {NoOne}
    /\ call \in [Callers -> [step : Steps, chunk : Chunks]]
    /\ faults \in 0 .. MaxFaults
    /\ acked \subseteq Chunks

StorageInit ==
    /\ index = {} /\ published = {}
    /\ files = [c \in Chunks |-> "absent"]
    /\ inFlight = {} /\ holder = NoOne
    /\ call = [k \in Callers |-> Idle]
    /\ faults = 0
    /\ acked = {}

\* overlaps(): chunks of one tree level whose ranges meet; the mutant takes
\* neighbours for overlapping.
Touch(a, b) == a.level = b.level /\ a.start <= b.end /\ b.start <= a.end

Overlaps(a, b) == a.level = b.level /\ a.start < b.end /\ b.start < a.end

\* ChunkIndex::add refuses the same identity and overlapping ranges.
Addable(c) == c \notin index /\ \A d \in index : ~Overlaps(c, d)

At(k, step) == call[k].step = step

Now(k, step) == call' = [call EXCEPT ![k].step = step]

Fails(kind) == kind \in Faults /\ faults < MaxFaults /\ faults' = faults + 1

Unlocked == holder = NoOne

\* contains()
ContainsChunk(c) == c \in index /\ files[c] # "absent"
-----------------------------------------------------------------------------
(* store                                                                   *)

\* A chunk that is indexed, or being stored by another thread, is refused;
\* the mutant only looks at the index.
RefusesIndexed(c) == c \in index

Refuses(c) == c \in index \/ c \in inFlight

StoreBegins(k, c) ==
    /\ At(k, "idle") /\ Unlocked
    /\ call' = [call EXCEPT ![k] = [step |-> IF Refuses(c) THEN "failed" ELSE "write", chunk |-> c]]
    /\ inFlight' = IF Refuses(c) THEN inFlight ELSE inFlight \cup {c}
    /\ UNCHANGED <<index, published, files, holder, faults, acked>>

WriteFile(k) ==
    /\ At(k, "write")
    /\ files' = [files EXCEPT ![call[k].chunk] = "whole"]
    /\ Now(k, "publish")
    /\ UNCHANGED <<index, published, inFlight, holder, faults, acked>>

\* ChunkStore::store throws, before or after the rename.
WriteFails(k) ==
    /\ At(k, "write") /\ Fails("writeError")
    /\ files' \in {files, [files EXCEPT ![call[k].chunk] = "whole"]}
    /\ Now(k, "undo")
    /\ UNCHANGED <<index, published, inFlight, holder, acked>>

Publish(k) ==
    /\ At(k, "publish") /\ Unlocked /\ Addable(call[k].chunk)
    /\ index' = index \cup {call[k].chunk}
    /\ published' = index'
    /\ inFlight' = inFlight \ {call[k].chunk}
    /\ acked' = acked \cup {call[k].chunk}
    /\ Now(k, "stored")
    /\ UNCHANGED <<files, holder, faults>>

PublishRefused(k) ==
    /\ At(k, "publish") /\ Unlocked /\ ~Addable(call[k].chunk)
    /\ Now(k, "undo")
    /\ UNCHANGED <<store, faults, acked>>

\* The index cannot be saved; or it has replaced the old one on the disk when
\* the synchronisation of the directory fails.
PublishFails(k) ==
    /\ At(k, "publish") /\ Unlocked /\ Addable(call[k].chunk)
    /\ \/ Fails("indexError") /\ UNCHANGED published
       \/ Fails("indexSyncError") /\ published' = index \cup {call[k].chunk}
    /\ Now(k, "undo")
    /\ UNCHANGED <<index, files, inFlight, holder, acked>>

\* The handler removes the file and lets the original exception go on; the
\* mutant leaves the file.
KeepFile(c) == files' = files

DropFile(c) == files' = [files EXCEPT ![c] = "absent"]

\* The chunk is no longer in flight; the mutant forgets to say so.
StaysInFlight(c) == inFlight' = inFlight

Landed(c) == inFlight' = inFlight \ {c}

Undo(k) ==
    /\ At(k, "undo") /\ Unlocked
    /\ \/ DropFile(call[k].chunk) /\ UNCHANGED faults
       \/ Fails("removeError") /\ UNCHANGED files
    /\ Landed(call[k].chunk)
    /\ Now(k, "failed")
    /\ UNCHANGED <<index, published, holder, acked>>
-----------------------------------------------------------------------------
(* load                                                                    *)

LoadBegins(k, c) ==
    /\ At(k, "idle") /\ Unlocked
    /\ call' = [call EXCEPT ![k] = [step |-> IF c \in index THEN "read" ELSE "missing", chunk |-> c]]
    /\ UNCHANGED <<store, faults, acked>>

\* The file is read without the lock; a damaged one does not decode.
LoadReads(k) ==
    /\ At(k, "read")
    /\ Now(k, CASE files[call[k].chunk] = "absent"  -> "missing"
                [] files[call[k].chunk] = "corrupt" -> "failed"
                [] files[call[k].chunk] = "whole"   -> "loaded")
    /\ UNCHANGED <<store, faults, acked>>
-----------------------------------------------------------------------------
(* remove                                                                  *)

\* The file goes first, then the index entry.
RemoveBegins(k, c) ==
    /\ At(k, "idle") /\ Unlocked
    /\ IF ContainsChunk(c)
       THEN /\ files' = [files EXCEPT ![c] = "absent"]
            /\ holder' = k
            /\ call' = [call EXCEPT ![k] = [step |-> "unpublish", chunk |-> c]]
       ELSE /\ call' = [call EXCEPT ![k] = [step |-> "refused", chunk |-> c]]
            /\ UNCHANGED <<files, holder>>
    /\ acked' = acked \ {c}
    /\ UNCHANGED <<index, published, inFlight, faults>>

\* The file cannot be unlinked, or its directory not be synchronised after.
RemoveFails(k, c) ==
    /\ At(k, "idle") /\ Unlocked /\ ContainsChunk(c) /\ Fails("removeError")
    /\ \/ /\ UNCHANGED files
          /\ call' = [call EXCEPT ![k] = [step |-> "refused", chunk |-> c]]
       \/ /\ files' = [files EXCEPT ![c] = "absent"]
          /\ call' = [call EXCEPT ![k] = [step |-> "failed", chunk |-> c]]
    /\ acked' = acked \ {c}
    /\ UNCHANGED <<index, published, inFlight, holder>>

Unpublish(k) ==
    /\ At(k, "unpublish")
    /\ index' = index \ {call[k].chunk}
    /\ published' = index'
    /\ holder' = NoOne
    /\ Now(k, "removed")
    /\ UNCHANGED <<files, inFlight, faults, acked>>

UnpublishFails(k) ==
    /\ At(k, "unpublish")
    /\ \/ Fails("indexError") /\ UNCHANGED published
       \/ Fails("indexSyncError") /\ published' = index \ {call[k].chunk}
    /\ holder' = NoOne
    /\ Now(k, "failed")
    /\ UNCHANGED <<index, files, inFlight, acked>>
-----------------------------------------------------------------------------
(* The callers and the environment.                                        *)

\* The caller goes on with the result of its call.
Returns(k) ==
    /\ call[k].step \in Results
    /\ call' = [call EXCEPT ![k] = Idle]
    /\ UNCHANGED <<store, faults, acked>>

\* The process ends, and a new one loads the published index.
Reopen ==
    /\ index' = published
    /\ inFlight' = {} /\ holder' = NoOne
    /\ call' = [k \in Callers |-> Idle]
    /\ UNCHANGED <<published, files, acked>>

Kill == Fails("kill") /\ Reopen

\* A chunk file goes bad after it was stored.
Corrupt(c) ==
    /\ c \in index /\ files[c] = "whole" /\ Fails("corrupt")
    /\ files' = [files EXCEPT ![c] = "corrupt"]
    /\ acked' = acked \ {c}
    /\ UNCHANGED <<index, published, inFlight, holder, call>>

\* A step inside a call.
StorageStep(k) ==
    \/ WriteFile(k) \/ WriteFails(k)
    \/ Publish(k) \/ PublishRefused(k) \/ PublishFails(k) \/ Undo(k)
    \/ LoadReads(k)
    \/ Unpublish(k) \/ UnpublishFails(k)

StorageNext ==
    \/ \E k \in Callers : StorageStep(k) \/ Returns(k)
    \/ \E k \in Callers, c \in Chunks :
          StoreBegins(k, c) \/ LoadBegins(k, c) \/ RemoveBegins(k, c) \/ RemoveFails(k, c)
    \/ Kill \/ \E c \in Chunks : Corrupt(c)

StorageSpec == StorageInit /\ [][StorageNext]_storageVars
-----------------------------------------------------------------------------
(* Properties.                                                             *)

Storing(k) == call[k].step \in {"write", "publish", "undo"}

\* Two threads never store the same chunk at once: they would share its
\* temporary file, and the one that fails would delete the other's chunk.
StoresAreExclusive ==
    \A a, b \in Callers :
        a # b /\ Storing(a) /\ Storing(b) => call[a].chunk # call[b].chunk

\* inFlightStores_ holds the chunks that are being stored and no others: one
\* left behind by a failed store could never be stored again.
InFlightIsExact ==
    inFlight = {call[k].chunk : k \in {k \in Callers : Storing(k)}}

\* A chunk whose store has returned stays in the index and on the disk until
\* somebody removes it, whatever other calls, I/O errors and restarts happen.
StoredStaysLoadable ==
    \A c \in acked : c \in index /\ c \in published /\ files[c] = "whole"

\* Chunks that an index names and that have no file; one that is being
\* removed loses its file before its entry.
Removing == {call[k].chunk : k \in {k \in Callers : At(k, "unpublish")}}

Dangling == {c \in index \cup published : files[c] = "absent"} \ Removing

\* Files of chunks that are neither in the index nor being stored.
Orphans == {c \in Chunks : files[c] # "absent"} \ (index \cup inFlight)

\* The files and the index in memory and on the disk differ by no more than the
\* faults account for: one entry without its file for each, and one file
\* without an entry for each thread that a fault may have stopped.  No
\* interleaving of calls and no later fault makes more of it.
FaultsAccountForDamage ==
    /\ Cardinality(Dangling) <= faults
    /\ Cardinality(Orphans) <= faults * Cardinality(Callers)

\* A store that fails leaves no file behind, unless its removal fails as well,
\* and no entry in the published index: "the newly written chunk is removed
\* and the previously published index remains unchanged"
\* (docs/DECISIONS.md:1101).
FailedStoreLeavesNothing ==
    [][\A k \in Callers : Undo(k) =>
          LET c == call[k].chunk
          IN (faults' = faults => files'[c] = "absent") /\ c \notin published']_storageVars
=============================================================================
