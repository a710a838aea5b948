---------------------------- MODULE StorageProofs ----------------------------
(***************************************************************************)
(* Proofs about StorageManager and OutOfCore, for any number of threads,   *)
(* chunks, terms and runs, any budget and any faults.                      *)
(*                                                                         *)
(* The store.  StoredStaysLoadable is not inductive: publishing adds a     *)
(* chunk because its file is whole, and undoing a store deletes a file     *)
(* because nobody was told of it.  StoresArePrivate says why both are so:  *)
(* a chunk that is being stored is not in the index, and two threads never *)
(* store the same one, so no other thread touches its file.                *)
(*                                                                         *)
(* The damage.  Each fault adds at most one entry without a file to what   *)
(* the two indexes name (Debt), and a file without an entry only for a     *)
(* chunk that was in flight; a step without a fault adds neither.  So both *)
(* are bounded by the faults, for any finite number of callers.            *)
(*                                                                         *)
(* The merge.  Its invariant OutOfCoreInv says where every request is (the *)
(* plan, the queue, one I/O thread or its handle), what each thread is in  *)
(* the middle of, what the lifecycles are at each stage, and which chunks  *)
(* that makes indispensable.  A run without faults keeps CleanInv as well: *)
(* the index and the files are those of the spilled nodes, and no call can *)
(* be refused.                                                             *)
(***************************************************************************)
EXTENDS OutOfCore, FunctionTheorems, FiniteSetTheorems, SequenceTheorems, WellFoundedInduction, TLAPS

\* What a thread in the middle of a store relies on.
StoresArePrivate ==
    /\ \A k \in Callers : Storing(k) => call[k].chunk \notin index
    /\ \A k \in Callers : At(k, "publish") => files[call[k].chunk] = "whole"

\* A thread between the two halves of remove holds the lock, and its chunk
\* is not one that anybody still counts on.
RemovesAreLocked ==
    \A k \in Callers :
        At(k, "unpublish") => holder = k /\ call[k].chunk \notin acked

StorageInv ==
    /\ StorageTypeOK
    /\ InFlightIsExact
    /\ StoresAreExclusive
    /\ StoresArePrivate
    /\ RemovesAreLocked
    /\ StoredStaysLoadable

\* The chunk of an idle call is a chunk.
LEMMA IdleIsACall == Idle \in [step : Steps, chunk : Chunks] /\ Idle.step = "idle"
  <1>1. AnyChunk \in Chunks
    BY StorageAssumption DEF AnyChunk
  <1> QED  BY <1>1 DEF Idle, Steps

\* Nothing is stored and nothing promised at the start.
LEMMA StorageInitially == StorageInit => StorageInv
  <1> SUFFICES ASSUME StorageInit PROVE StorageInv
    OBVIOUS
  <1>1. StorageTypeOK
    BY IdleIsACall, StorageAssumption DEF StorageInit, StorageTypeOK
  <1>2. \A k \in Callers : call[k].step = "idle"
    BY IdleIsACall DEF StorageInit
  <1> QED
    BY <1>1, <1>2 DEF StorageInit, StorageInv, InFlightIsExact, StoresAreExclusive,
       StoresArePrivate, RemovesAreLocked, StoredStaysLoadable, Storing, At

USE DEF StorageInv, StorageTypeOK, StoresAreExclusive, StoresArePrivate, RemovesAreLocked,
        StoredStaysLoadable, InFlightIsExact, Storing, At, Now, Fails, Unlocked, Steps, store

\* Every step of a thread inside a call keeps the invariant.
LEMMA StepsKeepStorage ==
    ASSUME StorageInv, NEW k \in Callers, StorageStep(k)
    PROVE  StorageInv'
  <1>1. CASE WriteFile(k)
    BY <1>1 DEF WriteFile
  <1>2. CASE WriteFails(k)
    BY <1>2, StorageAssumption DEF WriteFails
  <1>3. CASE Publish(k)
    <2> USE <1>3 DEF Publish
    <2>1. StorageTypeOK'
      OBVIOUS
    <2>2. /\ \A a \in Callers \ {k} : call'[a] = call[a]
          /\ call'[k].step = "stored" /\ call'[k].chunk = call[k].chunk
      OBVIOUS
    <2>3. \A a \in Callers \ {k} : Storing(a) => call[a].chunk # call[k].chunk
      OBVIOUS
    <2>4. InFlightIsExact'
      BY <2>2, <2>3
    <2>5. (StoresAreExclusive /\ StoresArePrivate /\ RemovesAreLocked)'
      BY <2>2, <2>3, StorageAssumption
    <2>6. StoredStaysLoadable'
      OBVIOUS
    <2> QED  BY <2>1, <2>4, <2>5, <2>6
  <1>4. CASE PublishRefused(k)
    BY <1>4 DEF PublishRefused
  <1>5. CASE PublishFails(k)
    BY <1>5, StorageAssumption DEF PublishFails
  <1>6. CASE Undo(k)
    BY <1>6, StorageAssumption DEF Undo, DropFile, Landed
  <1>7. CASE LoadReads(k)
    BY <1>7 DEF LoadReads
  <1>8. CASE Unpublish(k)
    BY <1>8, StorageAssumption DEF Unpublish
  <1>9. CASE UnpublishFails(k)
    BY <1>9, StorageAssumption DEF UnpublishFails
  <1> QED
    BY <1>1, <1>2, <1>3, <1>4, <1>5, <1>6, <1>7, <1>8, <1>9 DEF StorageStep

\* Starting and ending a call keeps the invariant.
LEMMA CallsKeepStorage ==
    ASSUME StorageInv, NEW k \in Callers, NEW c \in Chunks,
           \/ StoreBegins(k, c) \/ LoadBegins(k, c) \/ RemoveBegins(k, c) \/ RemoveFails(k, c)
           \/ Returns(k)
    PROVE  StorageInv'
  <1>1. CASE StoreBegins(k, c)
    BY <1>1 DEF StoreBegins, Refuses
  <1>2. CASE LoadBegins(k, c)
    BY <1>2 DEF LoadBegins
  <1>3. CASE RemoveBegins(k, c)
    <2> USE <1>3, StorageAssumption DEF RemoveBegins, ContainsChunk
    <2>1. StorageTypeOK'
      <3>1. CASE ContainsChunk(c)
        <4>1. call' = [call EXCEPT ![k] = [step |-> "unpublish", chunk |-> c]] /\ holder' = k
          BY <3>1
        <4>2. call' \in [Callers -> [step : Steps, chunk : Chunks]]
          BY <4>1
        <4>3. files' \in [Chunks -> {"absent", "whole", "corrupt"}]
          BY <3>1
        <4> QED  BY <4>1, <4>2, <4>3
      <3>2. CASE ~ContainsChunk(c)
        BY <3>2
      <3> QED  BY <3>1, <3>2
    <2>2. /\ \A a \in Callers \ {k} : call'[a] = call[a]
          /\ call[k].step = "idle"
          /\ call'[k].step \in {"unpublish", "refused", "failed"} /\ call'[k].chunk = c
      OBVIOUS
    <2>3. \A a \in Callers :
             /\ Storing(a)' <=> Storing(a)
             /\ Storing(a) => call'[a].chunk = call[a].chunk /\ files'[call[a].chunk] = files[call[a].chunk]
             /\ At(a, "publish")' <=> At(a, "publish")
      BY <2>2
    <2>4. InFlightIsExact'
      <3> HIDE DEF Storing
      <3> QED  BY <2>3
    <2>5. (StoresAreExclusive /\ StoresArePrivate)'
      <3> HIDE DEF Storing
      <3> QED  BY <2>3 DEF Storing
    <2>6. RemovesAreLocked'
      BY <2>2
    <2>7. StoredStaysLoadable'
      OBVIOUS
    <2> QED  BY <2>1, <2>4, <2>5, <2>6, <2>7
  <1>4. CASE RemoveFails(k, c)
    <2> USE <1>4, StorageAssumption DEF RemoveFails, ContainsChunk
    <2>1. StorageTypeOK'
      OBVIOUS
    <2>2. /\ \A a \in Callers \ {k} : call'[a] = call[a]
          /\ call[k].step = "idle"
          /\ call'[k].step \in {"unpublish", "refused", "failed"} /\ call'[k].chunk = c
      OBVIOUS
    <2>3. \A a \in Callers :
             /\ Storing(a)' <=> Storing(a)
             /\ Storing(a) => call'[a].chunk = call[a].chunk /\ call[a].chunk # c
             /\ At(a, "publish")' <=> At(a, "publish")
      BY <2>2
    <2>4. InFlightIsExact'
      <3> HIDE DEF Storing
      <3> QED  BY <2>3
    <2>5. (StoresAreExclusive /\ StoresArePrivate)'
      <3> HIDE DEF Storing
      <3> QED  BY <2>3 DEF Storing
    <2>6. RemovesAreLocked'
      BY <2>2
    <2>7. StoredStaysLoadable'
      OBVIOUS
    <2> QED  BY <2>1, <2>4, <2>5, <2>6, <2>7
  <1>5. CASE Returns(k)
    BY <1>5, IdleIsACall DEF Returns, Results
  <1> QED
    BY <1>1, <1>2, <1>3, <1>4, <1>5

\* A restart and damage to a file keep the invariant.
LEMMA FaultsKeepStorage ==
    ASSUME StorageInv, Kill \/ (\E c \in Chunks : Corrupt(c))
    PROVE  StorageInv'
  <1>1. CASE Kill
    BY <1>1, IdleIsACall, StorageAssumption DEF Kill, Reopen
  <1>2. ASSUME NEW c \in Chunks, Corrupt(c) PROVE StorageInv'
    BY <1>2, StorageAssumption DEF Corrupt
  <1> QED
    BY <1>1, <1>2

LEMMA StepsKeepStorageInv ==
    ASSUME StorageInv, [StorageNext]_storageVars
    PROVE  StorageInv'
  <1> HIDE DEF StorageInv
  <1>1. CASE UNCHANGED storageVars
    BY <1>1 DEF storageVars, StorageInv
  <1>2. ASSUME NEW k \in Callers, StorageStep(k) PROVE StorageInv'
    BY <1>2, StepsKeepStorage
  <1>3. ASSUME NEW k \in Callers, Returns(k) PROVE StorageInv'
    <2>1. PICK c \in Chunks : TRUE
      BY StorageAssumption
    <2> QED  BY <1>3, <2>1, CallsKeepStorage
  <1>4. ASSUME NEW k \in Callers, NEW c \in Chunks,
               StoreBegins(k, c) \/ LoadBegins(k, c) \/ RemoveBegins(k, c) \/ RemoveFails(k, c)
        PROVE  StorageInv'
    BY <1>4, CallsKeepStorage
  <1>5. CASE Kill \/ (\E c \in Chunks : Corrupt(c))
    BY <1>5, FaultsKeepStorage
  <1> QED  BY <1>1, <1>2, <1>3, <1>4, <1>5 DEF StorageNext

\* The inductive invariant of the chunk store.
THEOREM StorageInvariant == StorageSpec => []StorageInv
  <1>1. StorageInv /\ [StorageNext]_storageVars => StorageInv'
    BY StepsKeepStorageInv
  <1> QED
    BY <1>1, StorageInitially, PTL DEF StorageSpec

\* The index, the files and the calls keep their types.
THEOREM StorageTypeCorrect == StorageSpec => []StorageTypeOK
  <1>1. StorageInv => StorageTypeOK
    OBVIOUS
  <1> QED  BY <1>1, StorageInvariant, PTL

\* The set of stores in flight is exactly what the threads are storing.
THEOREM InFlightStaysExact == StorageSpec => []InFlightIsExact
  <1>1. StorageInv => InFlightIsExact
    OBVIOUS
  <1> QED  BY <1>1, StorageInvariant, PTL

\* No two threads ever store the same chunk at once.
THEOREM StoresStayExclusive == StorageSpec => []StoresAreExclusive
  <1>1. StorageInv => StoresAreExclusive
    OBVIOUS
  <1> QED  BY <1>1, StorageInvariant, PTL

\* What store() has reported as stored stays indexed, published and whole
\* through any other calls, I/O errors and restarts.
THEOREM StoredChunksStayLoadable == StorageSpec => []StoredStaysLoadable
  <1>1. StorageInv => StoredStaysLoadable
    OBVIOUS
  <1> QED  BY <1>1, StorageInvariant, PTL

\* What the index names without a file, now or after a restart, and what
\* only the index on the disk has.
Debt == Dangling \cup (published \ index)

\* A thread that removes a chunk has unlinked its file and not yet its entry;
\* what the index on the disk has lost has no file.
RemovesAreUnlinked ==
    /\ \A k \in Callers : At(k, "unpublish") =>
          call[k].chunk \in index /\ files[call[k].chunk] = "absent"
    /\ \A c \in index \ published : files[c] = "absent"

DamageInv ==
    /\ StorageInv
    /\ RemovesAreUnlinked
    /\ IsFiniteSet(Debt) /\ Cardinality(Debt) <= faults
    /\ IsFiniteSet(Orphans) /\ Cardinality(Orphans) <= faults * Cardinality(Callers)

\* A step without a fault adds nothing to the debt and no orphan.
Careful ==
    /\ faults' = faults
    /\ Debt' \subseteq Debt /\ Orphans' \subseteq Orphans

\* A fault adds one chunk to the debt, and to the orphans no others than those
\* that were in flight.
Faulty(c) ==
    /\ faults' = faults + 1
    /\ Debt' \subseteq Debt \cup {c}
    /\ Orphans' \subseteq Orphans \cup inFlight

LEMMA RemovesStayUnlinked ==
    ASSUME StorageInv, RemovesAreUnlinked, [StorageNext]_storageVars
    PROVE  RemovesAreUnlinked'
  <1> USE DEF RemovesAreUnlinked
  <1>1. CASE UNCHANGED storageVars
    BY <1>1 DEF storageVars
  <1>2. ASSUME NEW k \in Callers, StorageStep(k)
        PROVE  RemovesAreUnlinked'
    <2>1. CASE WriteFile(k)
      BY <2>1 DEF WriteFile
    <2>2. CASE WriteFails(k)
      BY <2>2 DEF WriteFails
    <2>3. CASE Publish(k) \/ PublishRefused(k) \/ PublishFails(k)
      BY <2>3 DEF Publish, PublishRefused, PublishFails
    <2>4. CASE Undo(k)
      BY <2>4 DEF Undo, DropFile
    <2>5. CASE LoadReads(k)
      BY <2>5 DEF LoadReads
    <2>6. CASE Unpublish(k)
      <3>1. \A a \in Callers : At(a, "unpublish") => a = k
        BY <2>6 DEF Unpublish
      <3>2. \A a \in Callers : ~At(a, "unpublish")'
        BY <2>6, <3>1 DEF Unpublish
      <3> QED  BY <2>6, <3>2 DEF Unpublish
    <2>7. CASE UnpublishFails(k)
      BY <2>7, StorageAssumption DEF UnpublishFails
    <2> QED  BY <1>2, <2>1, <2>2, <2>3, <2>4, <2>5, <2>6, <2>7 DEF StorageStep
  <1>3. ASSUME NEW k \in Callers, Returns(k)
        PROVE  RemovesAreUnlinked'
    BY <1>3, IdleIsACall DEF Returns
  <1>4. ASSUME NEW k \in Callers, NEW c \in Chunks,
               StoreBegins(k, c) \/ LoadBegins(k, c) \/ RemoveBegins(k, c) \/ RemoveFails(k, c)
        PROVE  RemovesAreUnlinked'
    BY <1>4 DEF StoreBegins, LoadBegins, RemoveBegins, RemoveFails, ContainsChunk
  <1>5. CASE Kill \/ (\E c \in Chunks : Corrupt(c))
    BY <1>5, IdleIsACall DEF Kill, Reopen, Corrupt
  <1> QED  BY <1>1, <1>2, <1>3, <1>4, <1>5 DEF StorageNext

\* One step of a call and its effect on what is left behind.
LEMMA StepsAccount ==
    ASSUME StorageInv, RemovesAreUnlinked, NEW k \in Callers, StorageStep(k)
    PROVE  Careful \/ \E c \in Chunks : Faulty(c)
  <1> USE DEF RemovesAreUnlinked, Debt, Dangling, Removing, Orphans
  <1> DEFINE c == call[k].chunk
  <1>0. c \in Chunks /\ \A a \in Callers \ {k} : call'[a] = call[a]
    BY DEF StorageStep, WriteFile, WriteFails, Publish, PublishRefused, PublishFails, Undo, LoadReads,
       Unpublish, UnpublishFails
  <1>a. Storing(k) => c \in inFlight /\ c \notin index
    OBVIOUS
  <1>1. CASE WriteFile(k)
    BY <1>0, <1>a, <1>1 DEF WriteFile, Careful
  <1>2. CASE WriteFails(k)
    <2>1. Debt' \subseteq Debt /\ Orphans' \subseteq Orphans /\ faults' = faults + 1
      BY <1>0, <1>a, <1>2 DEF WriteFails
    <2> QED  BY <1>0, <2>1 DEF Faulty
  <1>3. CASE Publish(k)
    BY <1>0, <1>a, <1>3 DEF Publish, Careful
  <1>4. CASE PublishRefused(k)
    BY <1>0, <1>4 DEF PublishRefused, Careful
  <1>5. CASE PublishFails(k)
    <2>1. Debt' \subseteq Debt \cup {c} /\ Orphans' \subseteq Orphans /\ faults' = faults + 1
      BY <1>0, <1>a, <1>5 DEF PublishFails
    <2> QED  BY <1>0, <2>1 DEF Faulty
  <1>6. CASE Undo(k)
    <2>1. CASE DropFile(c) /\ UNCHANGED faults
      BY <1>0, <1>a, <1>6, <2>1 DEF Undo, DropFile, Landed, Careful
    <2>2. CASE Fails("removeError") /\ UNCHANGED files
      BY <1>0, <1>a, <1>6, <2>2 DEF Undo, Landed, Faulty
    <2> QED  BY <1>6, <2>1, <2>2 DEF Undo
  <1>7. CASE LoadReads(k)
    BY <1>0, <1>7 DEF LoadReads, Careful
  <1>8. CASE Unpublish(k)
    <2>1. \A a \in Callers : At(a, "unpublish") => a = k
      BY <1>8 DEF Unpublish
    <2>2. Removing = {c} /\ Removing' = {}
      BY <1>0, <1>8, <2>1 DEF Unpublish
    <2>3. faults' = faults /\ index' = index \ {c} /\ published' = index' /\ files' = files /\ inFlight' = inFlight
      BY <1>8 DEF Unpublish
    <2>4. files[c] = "absent"
      BY <1>8 DEF Unpublish
    <2> HIDE DEF Removing
    <2> QED  BY <2>2, <2>3, <2>4 DEF Careful
  <1>9. CASE UnpublishFails(k)
    <2>1. \A a \in Callers : At(a, "unpublish") => a = k
      BY <1>9 DEF UnpublishFails
    <2>2. Removing = {c} /\ Removing' = {}
      BY <1>0, <1>9, <2>1 DEF UnpublishFails
    <2>3. /\ faults' = faults + 1 /\ index' = index /\ files' = files /\ inFlight' = inFlight
          /\ published' = published \/ published' = index \ {c}
      BY <1>9 DEF UnpublishFails
    <2> HIDE DEF Removing
    <2> QED  BY <1>0, <2>2, <2>3 DEF Faulty
  <1> QED
    BY <1>1, <1>2, <1>3, <1>4, <1>5, <1>6, <1>7, <1>8, <1>9 DEF StorageStep

LEMMA CallsAccount ==
    ASSUME StorageInv, RemovesAreUnlinked, NEW k \in Callers, NEW c \in Chunks,
           \/ StoreBegins(k, c) \/ LoadBegins(k, c) \/ RemoveBegins(k, c) \/ RemoveFails(k, c)
           \/ Returns(k)
    PROVE  Careful \/ Faulty(c)
  <1> USE DEF RemovesAreUnlinked, Debt, Dangling, Removing, Orphans
  <1>1. CASE StoreBegins(k, c)
    BY <1>1 DEF StoreBegins, Careful
  <1>2. CASE LoadBegins(k, c)
    BY <1>2 DEF LoadBegins, Careful
  <1>3. CASE RemoveBegins(k, c)
    <2>1. CASE ContainsChunk(c)
      <3>1. Removing = {}
        BY <1>3, StorageAssumption DEF RemoveBegins
      <3>2. Removing' = {c}
        BY <1>3, <2>1, StorageAssumption DEF RemoveBegins
      <3> HIDE DEF Removing
      <3> QED  BY <1>3, <2>1, <3>1, <3>2 DEF RemoveBegins, Careful
    <2>2. CASE ~ContainsChunk(c)
      BY <1>3, <2>2 DEF RemoveBegins, Careful
    <2> QED  BY <2>1, <2>2
  <1>4. CASE RemoveFails(k, c)
    <2>1. Removing = {} /\ Removing' = {}
      BY <1>4, StorageAssumption DEF RemoveFails
    <2> HIDE DEF Removing
    <2> QED  BY <1>4, <2>1 DEF RemoveFails, Faulty
  <1>5. CASE Returns(k)
    BY <1>5, IdleIsACall DEF Returns, Results, Careful
  <1> QED  BY <1>1, <1>2, <1>3, <1>4, <1>5

LEMMA EnvironmentAccounts ==
    ASSUME StorageInv, RemovesAreUnlinked, Kill \/ (\E c \in Chunks : Corrupt(c))
    PROVE  \E c \in Chunks : Faulty(c)
  <1> USE DEF RemovesAreUnlinked, Debt, Dangling, Orphans
  <1>1. CASE Kill
    <2>1. PICK c \in Chunks : Removing \subseteq {c}
      <3>1. CASE holder \in Callers
        BY <3>1, StorageAssumption DEF Removing
      <3>2. CASE holder \notin Callers
        BY <3>2, StorageAssumption DEF Removing
      <3> QED  BY <3>1, <3>2
    <2>2. /\ faults' = faults + 1 /\ index' = published /\ published' = published /\ files' = files
          /\ inFlight' = {}
      BY <1>1 DEF Kill, Reopen
    <2>3. Debt' \subseteq Debt \cup {c}
      BY <2>1, <2>2
    <2>4. Orphans' \subseteq Orphans \cup inFlight
      BY <2>2
    <2> QED  BY <2>2, <2>3, <2>4 DEF Faulty
  <1>2. ASSUME NEW c \in Chunks, Corrupt(c) PROVE Faulty(c)
    BY <1>2 DEF Corrupt, Faulty, Removing
  <1> QED  BY <1>1, <1>2

\* No more chunks are in flight than there are threads.
LEMMA InFlightIsBounded ==
    ASSUME StorageInv
    PROVE  /\ IsFiniteSet(inFlight) /\ Cardinality(inFlight) <= Cardinality(Callers)
           /\ Cardinality(Callers) \in Nat /\ Cardinality(inFlight) \in Nat
  <1> DEFINE busy == {k \in Callers : Storing(k)}
             f == [k \in busy |-> call[k].chunk]
  <1>1. IsFiniteSet(busy) /\ Cardinality(busy) <= Cardinality(Callers)
    BY FS_Subset, CallersAreFinite
  <1>2. inFlight = {call[k].chunk : k \in busy}
    OBVIOUS
  <1>3. f \in Surjection(busy, inFlight)
    <2>1. f \in [busy -> inFlight] /\ \A c \in inFlight : \E k \in busy : f[k] = c
      BY <1>2
    <2> QED  BY <2>1 DEF Surjection
  <1>4. IsFiniteSet(inFlight) /\ Cardinality(inFlight) <= Cardinality(busy)
    <2> HIDE DEF busy, f
    <2> QED  BY <1>1, <1>3, FS_Surjection
  <1>5. /\ Cardinality(Callers) \in Nat /\ Cardinality(busy) \in Nat /\ Cardinality(inFlight) \in Nat
    <2> HIDE DEF busy
    <2> QED  BY <1>1, <1>4, FS_CardinalityType, CallersAreFinite
  <1> HIDE DEF busy
  <1> QED  BY <1>1, <1>4, <1>5

\* The cardinality of a set that grew by no more than a finite set.
LEMMA GrowsBy ==
    ASSUME NEW A, NEW B, NEW X, IsFiniteSet(A), IsFiniteSet(X), B \subseteq A \cup X
    PROVE  /\ IsFiniteSet(B) /\ Cardinality(B) <= Cardinality(A) + Cardinality(X)
           /\ Cardinality(A) \in Nat /\ Cardinality(B) \in Nat /\ Cardinality(X) \in Nat
  <1>1. IsFiniteSet(A \cup X) /\ IsFiniteSet(A \cap X)
    BY FS_Union, FS_Subset
  <1>2. Cardinality(A \cup X) = Cardinality(A) + Cardinality(X) - Cardinality(A \cap X)
    BY FS_Union
  <1>3. IsFiniteSet(B) /\ Cardinality(B) <= Cardinality(A \cup X)
    BY <1>1, FS_Subset
  <1>4. /\ Cardinality(A) \in Nat /\ Cardinality(B) \in Nat /\ Cardinality(X) \in Nat
        /\ Cardinality(A \cup X) \in Nat /\ Cardinality(A \cap X) \in Nat
    BY <1>1, <1>3, FS_CardinalityType
  <1> QED  BY <1>2, <1>3, <1>4

LEMMA StepsKeepDamageInv ==
    ASSUME DamageInv, [StorageNext]_storageVars
    PROVE  DamageInv'
  <1> USE DEF DamageInv
  <1>1. StorageInv' /\ RemovesAreUnlinked'
    BY StepsKeepStorageInv, RemovesStayUnlinked
  <1>2. Careful \/ \E c \in Chunks : Faulty(c)
    <2>1. CASE UNCHANGED storageVars
      BY <2>1 DEF storageVars, Careful, Debt, Dangling, Removing, Orphans
    <2>2. ASSUME NEW k \in Callers, StorageStep(k)
          PROVE  Careful \/ \E c \in Chunks : Faulty(c)
      BY <2>2, StepsAccount
    <2>3. ASSUME NEW k \in Callers, Returns(k)
          PROVE  Careful \/ \E c \in Chunks : Faulty(c)
      BY <2>3, CallsAccount, StorageAssumption
    <2>4. ASSUME NEW k \in Callers, NEW c \in Chunks,
                 StoreBegins(k, c) \/ LoadBegins(k, c) \/ RemoveBegins(k, c) \/ RemoveFails(k, c)
          PROVE  Careful \/ \E d \in Chunks : Faulty(d)
      BY <2>4, CallsAccount
    <2>5. CASE Kill \/ (\E c \in Chunks : Corrupt(c))
      BY <2>5, EnvironmentAccounts
    <2> QED  BY <2>1, <2>2, <2>3, <2>4, <2>5 DEF StorageNext
  <1>3. /\ faults \in Nat /\ Cardinality(Callers) \in Nat
        /\ Cardinality(Debt) \in Nat /\ Cardinality(Orphans) \in Nat
    BY InFlightIsBounded, FS_CardinalityType, StorageAssumption
  <1>4. CASE Careful
    <2>1. /\ IsFiniteSet(Debt') /\ Cardinality(Debt') <= Cardinality(Debt) /\ Cardinality(Debt') \in Nat
          /\ IsFiniteSet(Orphans') /\ Cardinality(Orphans') <= Cardinality(Orphans)
          /\ Cardinality(Orphans') \in Nat
      BY <1>4, FS_Subset, FS_CardinalityType DEF Careful
    <2>2. Cardinality(Debt') <= faults'
      BY <1>3, <1>4, <2>1 DEF Careful
    <2>3. Cardinality(Orphans') <= faults' * Cardinality(Callers)
      <3>1. Cardinality(Orphans') <= faults * Cardinality(Callers)
        <4> DEFINE product == faults * Cardinality(Callers)
        <4>1. product \in Nat
          BY <1>3
        <4> HIDE DEF product
        <4>2. Cardinality(Orphans) <= product
          BY DEF product
        <4>3. Cardinality(Orphans') <= product
          BY <1>3, <2>1, <4>1, <4>2
        <4> QED  BY <4>3 DEF product
      <3> QED  BY <1>4, <3>1 DEF Careful
    <2> QED  BY <1>1, <2>1, <2>2, <2>3
  <1>5. ASSUME NEW c \in Chunks, Faulty(c) PROVE DamageInv'
    <2>1. IsFiniteSet({c}) /\ Cardinality({c}) = 1
      BY FS_Singleton
    <2>2. IsFiniteSet(Debt') /\ Cardinality(Debt') <= Cardinality(Debt) + 1 /\ Cardinality(Debt') \in Nat
      BY <1>5, <2>1, GrowsBy DEF Faulty
    <2>3. /\ IsFiniteSet(Orphans') /\ Cardinality(Orphans') <= Cardinality(Orphans) + Cardinality(inFlight)
          /\ Cardinality(Orphans') \in Nat
      BY <1>5, InFlightIsBounded, GrowsBy DEF Faulty
    <2>4. Cardinality(Debt') <= faults'
      BY <1>3, <1>5, <2>2 DEF Faulty
    <2>5. Cardinality(Orphans') <= faults' * Cardinality(Callers)
      <3>1. Cardinality(Orphans') <= faults * Cardinality(Callers) + Cardinality(Callers)
        <4> DEFINE product == faults * Cardinality(Callers)
        <4>1. product \in Nat
          BY <1>3
        <4> HIDE DEF product
        <4>2. Cardinality(Orphans) <= product
          BY DEF product
        <4>3. Cardinality(Orphans') <= product + Cardinality(Callers)
          BY <1>3, <2>3, <4>1, <4>2, InFlightIsBounded
        <4> QED  BY <4>3 DEF product
      <3>2. (faults + 1) * Cardinality(Callers) = faults * Cardinality(Callers) + Cardinality(Callers)
        <4> DEFINE n == Cardinality(Callers)
        <4>1. n \in Nat
          BY <1>3
        <4> HIDE DEF n
        <4>2. (faults + 1) * n = faults * n + n
          BY <1>3, <4>1
        <4> QED  BY <4>2 DEF n
      <3>3. faults' = faults + 1
        BY <1>5 DEF Faulty
      <3> QED  BY <3>1, <3>2, <3>3
    <2> QED  BY <1>1, <2>2, <2>3, <2>4, <2>5
  <1> QED  BY <1>2, <1>4, <1>5

\* Any number of threads, whatever they call and whichever faults happen: for
\* each fault there is at most one entry of an index without its file, and at
\* most one file without an entry for each thread.
THEOREM DamageIsAccounted == StorageSpec => []FaultsAccountForDamage
  <1>1. StorageInit => DamageInv
    <2> SUFFICES ASSUME StorageInit PROVE DamageInv
      OBVIOUS
    <2>1. Debt = {} /\ Orphans = {} /\ faults = 0
      BY DEF StorageInit, Debt, Dangling, Orphans
    <2>2. RemovesAreUnlinked
      BY IdleIsACall DEF StorageInit, RemovesAreUnlinked
    <2>3. StorageInv
      BY StorageInitially
    <2>4. 0 <= 0 * Cardinality(Callers)
      BY <2>3, InFlightIsBounded
    <2> QED  BY <2>1, <2>2, <2>3, <2>4, FS_EmptySet DEF DamageInv
  <1>2. DamageInv /\ [StorageNext]_storageVars => DamageInv'
    BY StepsKeepDamageInv
  <1>3. DamageInv => FaultsAccountForDamage
    <2> SUFFICES ASSUME DamageInv PROVE FaultsAccountForDamage
      OBVIOUS
    <2>1. Dangling \subseteq Debt
      BY DEF Debt
    <2>2. Cardinality(Dangling) <= Cardinality(Debt) /\ Cardinality(Dangling) \in Nat /\ Cardinality(Debt) \in Nat
      BY <2>1, FS_Subset, FS_CardinalityType DEF DamageInv
    <2>3. faults \in Nat
      BY StorageAssumption DEF DamageInv
    <2> QED  BY <2>2, <2>3 DEF FaultsAccountForDamage, DamageInv
  <1> QED  BY <1>1, <1>2, <1>3, PTL DEF StorageSpec

HIDE DEF StorageInv, StorageTypeOK, StoresAreExclusive, StoresArePrivate, RemovesAreLocked,
         StoredStaysLoadable, InFlightIsExact, Storing, At, Now, Fails, Unlocked, Steps, store
-----------------------------------------------------------------------------
(* The out-of-core merge.                                                  *)

Ran(s) == {s[i] : i \in 1 .. Len(s)}

Distinct(s) == \A i, j \in 1 .. Len(s) : i # j => s[i] # s[j]

\* The nodes of a level are ranges in order, fewer at each level.
LayoutInv ==
    /\ nodes \in Seq([start : 0 .. Terms - 1, end : 1 .. Terms]) /\ Len(nodes) >= 1
    /\ \A i \in Nodes : nodes[i].start < nodes[i].end
    /\ \A i, j \in Nodes : i < j => nodes[i].end <= nodes[j].start
    /\ level \in Nat /\ level + Len(nodes) <= Terms
    /\ retiring \in Seq(Chunks) /\ (stage \notin {"retire", "failed"} => retiring = <<>>)
    /\ stage \notin {"retire", "done", "failed"} => Len(nodes) >= 2
    /\ stage \in Stages /\ runs \in 1 .. MaxRuns

\* A request that is not settled is in the queue or with one I/O thread.
RequestInv ==
    /\ \A s \in {plan, queue, pending} : s \in Seq(Nodes) /\ Distinct(s)
    /\ Len(queue) <= QueueCapacity /\ Ran(plan) \cap Ran(pending) = {}
    /\ job \in [Workers -> Nodes \cup {0}] /\ outcome \in [Nodes -> {"none", "ok", "error"}]
    /\ \A i \in Ran(queue) : i \in Ran(pending) /\ outcome[i] = "none"
    /\ \A w \in Workers : job[w] # 0 =>
          /\ job[w] \in Ran(pending) \ Ran(queue) /\ outcome[job[w]] = "none"
          /\ \A v \in Workers : v # w => job[v] # job[w]

SpillStages == {"submit", "drain", "unwind"}

LoadStages == {"request", "restore"}

\* What the threads are in the middle of.
WorkerCall(w) ==
    IF job[w] = 0 THEN At(w, "idle")
    ELSE /\ call[w].chunk = Id(job[w])
         /\ stage \in SpillStages => call[w].step \in {"write", "publish", "undo", "stored", "failed"}
         /\ stage \in LoadStages => call[w].step \in {"read", "loaded", "missing", "failed"}

MainCall ==
    /\ call[Main].step \in {"idle", "unpublish", "removed", "refused", "failed"}
    /\ stage # "retire" => At(Main, "idle")
    /\ ~At(Main, "idle") => retiring # <<>>

CallInv == stage # "failed" => MainCall /\ \A w \in Workers : WorkerCall(w)

\* A lifecycle says whether its node holds a value.
LifeTypes ==
    /\ values \in [Nodes -> BOOLEAN] /\ life \in [Nodes -> Lives]
    /\ \A i \in Nodes : values[i] <=> life[i] \in {"resident", "spilling"}

\* What the nodes are in each part of a level.
LifeStages ==
    /\ stage \in {"retire", "plan", "merge", "done"} =>
          /\ plan = <<>> /\ pending = <<>>
          /\ \A i \in Nodes : life[i] = "resident"
    /\ stage \in {"drain", "unwind", "restore"} => plan = <<>>
    /\ stage \in SpillStages => \A i \in Nodes :
          /\ life[i] \in {"resident", "spilling", "stored"}
          /\ life[i] = "spilling" <=> i \in Ran(pending)
          /\ i \in Ran(plan) => life[i] = "resident"
    /\ stage \in LoadStages => \A i \in Nodes :
          /\ life[i] \in {"resident", "stored", "loading"}
          /\ life[i] = "loading" <=> i \in Ran(pending)
          /\ life[i] = "stored" <=> i \in Ran(plan)

LifeInv == LifeTypes /\ LifeStages

\* A value that is not in memory, or is about to be released, is stored.
KeptInv ==
    stage # "failed" =>
        /\ \A i \in Nodes : life[i] \in {"stored", "loading"} => ContainsChunk(Id(i))
        /\ \A i \in Nodes : life[i] = "spilling" /\ outcome[i] = "ok" => ContainsChunk(Id(i))
        /\ \A w \in Workers : At(w, "stored") => ContainsChunk(call[w].chunk)

Stored == {i \in Nodes : life[i] = "stored"}

BudgetInv ==
    /\ stage \in {"submit", "drain"} => BytesOf(Nodes \ (Ran(plan) \cup Ran(pending) \cup Stored)) <= Budget
    /\ stage = "request" => BytesOf({i \in Nodes : values[i]}) <= Budget

OutOfCoreInv == StorageInv /\ LayoutInv /\ RequestInv /\ CallInv /\ LifeInv /\ KeptInv /\ BudgetInv

\* A run in which nothing goes wrong.
FaultFree == runs = 1 /\ faults = 0

\* The index is on the disk, and so are its chunks and nothing else, but for
\* what a thread has just written or is about to take out of the index.
CleanFiles ==
    /\ published = index
    /\ \A c \in Chunks : files[c] # "absent" =>
          files[c] = "whole" /\ (c \in index \/ \E w \in Workers : At(w, "publish") /\ call[w].chunk = c)
    /\ \A c \in index : files[c] = "whole" \/ (At(Main, "unpublish") /\ call[Main].chunk = c)

\* The main thread is idle or removes the chunk that is next.
CleanMain ==
    /\ call[Main].step \in {"idle", "unpublish", "removed"}
    /\ ~At(Main, "idle") => call[Main].chunk = Head(retiring) /\ files[Head(retiring)] = "absent"
    /\ At(Main, "removed") => call[Main].chunk \notin index

\* The chunks are those of the nodes that have been spilled, and while the
\* last level is retired those of that level.
CleanIndex ==
    /\ stage = "retire" => index \subseteq Ran(retiring)
    /\ stage \in {"plan", "done"} => index = {}
    /\ stage # "retire" => index \subseteq {Id(i) : i \in Nodes}
    /\ stage \in SpillStages => \A i \in Nodes : Id(i) \in index =>
          \/ life[i] = "stored"
          \/ life[i] = "spilling" /\ (outcome[i] = "ok" \/ \E w \in Workers : job[w] = i /\ At(w, "stored"))

\* Nothing has failed.
CleanRequests ==
    /\ stage \notin {"failed", "unwind"}
    /\ \A i \in Nodes : outcome[i] # "error"
    /\ \A w \in Workers : call[w].step \notin {"failed", "missing", "undo"}

CleanInv == FaultFree => CleanFiles /\ CleanMain /\ CleanIndex /\ CleanRequests
-----------------------------------------------------------------------------
\* Sequences.
LEMMA EmptyOf ==
    ASSUME NEW S
    PROVE  /\ <<>> \in Seq(S) /\ Ran(<<>>) = {} /\ Distinct(<<>>) /\ Len(<<>>) = 0
           /\ \A s \in Seq(S) : Ran(s) = {} <=> s = <<>>
  <1>1. <<>> \in Seq(S) /\ Len(<<>>) = 0
    OBVIOUS
  <1>2. Ran(<<>>) = {} /\ Distinct(<<>>)
    BY <1>1 DEF Ran, Distinct
  <1>3. ASSUME NEW s \in Seq(S), s # <<>> PROVE Ran(s) # {}
    <2>1. Len(s) \in Nat /\ Len(s) # 0
      BY <1>3, EmptySeq, LenProperties
    <2>2. 1 \in 1 .. Len(s)
      BY <2>1
    <2> QED  BY <2>2 DEF Ran
  <1> QED  BY <1>1, <1>2, <1>3

LEMMA TailOf ==
    ASSUME NEW S, NEW s \in Seq(S), s # <<>>
    PROVE  /\ Head(s) \in S /\ Tail(s) \in Seq(S) /\ Len(Tail(s)) = Len(s) - 1 /\ Len(s) \in Nat
           /\ Ran(s) = Ran(Tail(s)) \cup {Head(s)}
           /\ Distinct(s) => Distinct(Tail(s)) /\ Head(s) \notin Ran(Tail(s))
  <1>1. /\ Head(s) \in S /\ Tail(s) \in Seq(S) /\ Len(Tail(s)) = Len(s) - 1
        /\ \A i \in 1 .. Len(Tail(s)) : Tail(s)[i] = s[i + 1]
    BY HeadTailProperties
  <1>2. Len(s) \in Nat \ {0} /\ Head(s) = s[1]
    BY EmptySeq, LenProperties
  <1>3. \A i \in 1 .. Len(s) - 1 : i + 1 \in 2 .. Len(s)
    BY <1>2
  <1>4. \A i \in 2 .. Len(s) : i - 1 \in 1 .. Len(s) - 1 /\ i - 1 + 1 = i /\ i \in 1 .. Len(s)
    BY <1>2
  <1>5. \A i \in 1 .. Len(s) : i = 1 \/ i \in 2 .. Len(s)
    BY <1>2
  <1>6. Ran(s) = Ran(Tail(s)) \cup {Head(s)}
    <2>1. \A x \in Ran(Tail(s)) : x \in Ran(s)
      BY <1>1, <1>3, <1>4 DEF Ran
    <2>2. Head(s) \in Ran(s)
      BY <1>2 DEF Ran
    <2>3. \A x \in Ran(s) : x \in Ran(Tail(s)) \/ x = Head(s)
      <3> SUFFICES ASSUME NEW i \in 1 .. Len(s) PROVE s[i] \in Ran(Tail(s)) \/ s[i] = Head(s)
        BY DEF Ran
      <3>1. CASE i = 1
        BY <1>2, <3>1
      <3>2. CASE i \in 2 .. Len(s)
        BY <1>1, <1>4, <3>2 DEF Ran
      <3> QED  BY <1>5, <3>1, <3>2
    <2> QED  BY <2>1, <2>2, <2>3
  <1>7. ASSUME Distinct(s) PROVE Distinct(Tail(s)) /\ Head(s) \notin Ran(Tail(s))
    <2>1. \A i, j \in 1 .. Len(s) - 1 : i # j => i + 1 # j + 1
      BY <1>2
    <2>2. Distinct(Tail(s))
      BY <1>1, <1>3, <1>4, <1>7, <2>1 DEF Distinct
    <2>3. \A i \in 2 .. Len(s) : s[i] # s[1]
      BY <1>2, <1>7 DEF Distinct
    <2> QED  BY <1>1, <1>2, <1>3, <2>2, <2>3 DEF Ran
  <1> QED  BY <1>1, <1>2, <1>6, <1>7

LEMMA AppendOf ==
    ASSUME NEW S, NEW s \in Seq(S), NEW x \in S
    PROVE  /\ Append(s, x) \in Seq(S) /\ Len(Append(s, x)) = Len(s) + 1 /\ Len(s) \in Nat
           /\ Ran(Append(s, x)) = Ran(s) \cup {x}
           /\ Distinct(s) /\ x \notin Ran(s) => Distinct(Append(s, x))
  <1>1. /\ Append(s, x) \in Seq(S) /\ Len(Append(s, x)) = Len(s) + 1 /\ Len(s) \in Nat
        /\ \A i \in 1 .. Len(s) : Append(s, x)[i] = s[i] /\ Append(s, x)[Len(s) + 1] = x
    BY AppendProperties, LenProperties
  <1>2. Append(s, x)[Len(s) + 1] = x
    BY AppendProperties
  <1>3. \A i \in 1 .. Len(s) + 1 : i \in 1 .. Len(s) \/ i = Len(s) + 1
    BY <1>1
  <1>4. \A i \in 1 .. Len(s) : i \in 1 .. Len(s) + 1
    BY <1>1
  <1>5. Len(s) + 1 \in 1 .. Len(s) + 1
    BY <1>1
  <1>6. Ran(Append(s, x)) = Ran(s) \cup {x}
    <2>1. \A y \in Ran(Append(s, x)) : y \in Ran(s) \/ y = x
      BY <1>1, <1>2, <1>3 DEF Ran
    <2>2. \A y \in Ran(s) : y \in Ran(Append(s, x))
      BY <1>1, <1>4 DEF Ran
    <2>3. x \in Ran(Append(s, x))
      BY <1>1, <1>2, <1>5 DEF Ran
    <2> QED  BY <2>1, <2>2, <2>3
  <1>7. ASSUME Distinct(s), x \notin Ran(s) PROVE Distinct(Append(s, x))
    <2>1. \A i \in 1 .. Len(s) : s[i] # x
      BY <1>7 DEF Ran
    <2> QED  BY <1>1, <1>2, <1>3, <1>7, <2>1 DEF Distinct
  <1> QED  BY <1>1, <1>6, <1>7

\* A sequence of as many different elements as a set has is all of it.
LEMMA SortedOf ==
    ASSUME NEW S, IsFiniteSet(S), NEW s \in [1 .. Cardinality(S) -> S],
           \A i, j \in 1 .. Cardinality(S) : i < j => s[i] # s[j]
    PROVE  s \in Seq(S) /\ Distinct(s) /\ Ran(s) = S
  <1> DEFINE n == Cardinality(S)
  <1>1. n \in Nat
    BY FS_CardinalityType
  <1>2. IsFiniteSet(1 .. n) /\ Cardinality(1 .. n) = n
    <2>1. 1 \in Int /\ n \in Int /\ (IF 1 > n THEN 0 ELSE n - 1 + 1) = n
      BY <1>1
    <2> QED  BY <2>1, FS_Interval
  <1>3. s \in Seq(S) /\ Len(s) = n
    BY <1>1, SeqDef, LenProperties
  <1>4. \A i, j \in 1 .. n : s[i] = s[j] => i = j
    <2> SUFFICES ASSUME NEW i \in 1 .. n, NEW j \in 1 .. n, s[i] = s[j] PROVE i = j
      OBVIOUS
    <2>1. i = j \/ i < j \/ j < i
      BY <1>1
    <2> QED  BY <2>1
  <1>5. s \in Injection(1 .. n, S)
    BY <1>4, Fun_IsInj
  <1>6. s \in Surjection(1 .. n, S)
    BY <1>2, <1>5, FS_Injection
  <1>7. \A x \in S : \E i \in 1 .. n : s[i] = x
    BY <1>6 DEF Surjection
  <1> QED  BY <1>3, <1>4, <1>7 DEF Ran, Distinct
-----------------------------------------------------------------------------
(* The nodes of a level.                                                   *)

NodeRanges == [start : 0 .. Terms - 1, end : 1 .. Terms]

\* What a run starts with and every merge keeps.
IsLayout(s) ==
    /\ s \in Seq(NodeRanges) /\ Len(s) >= 1
    /\ \A i \in DOMAIN s : s[i].start < s[i].end
    /\ \A i, j \in DOMAIN s : i < j => s[i].end <= s[j].start

LEMMA LayoutsAreLayouts ==
    ASSUME NEW layout \in Layouts
    PROVE  IsLayout(layout) /\ Len(layout) <= Terms /\ DOMAIN layout = 1 .. Len(layout)
  <1>0. PICK n \in 1 .. Terms : \E cut \in Cuts(n) :
            layout = [i \in 1 .. n |-> [start |-> cut[i - 1], end |-> cut[i]]]
    BY DEF Layouts
  <1>1. PICK cut \in Cuts(n) : layout = [i \in 1 .. n |-> [start |-> cut[i - 1], end |-> cut[i]]]
    BY <1>0
  <1>2. n \in Nat /\ n >= 1 /\ n <= Terms /\ Terms \in Nat
    BY OutOfCoreAssumption
  <1>3. /\ cut \in [0 .. n -> 0 .. Terms] /\ cut[0] = 0 /\ cut[n] = Terms
        /\ \A i, j \in 0 .. n : i < j => cut[i] < cut[j]
    BY DEF Cuts
  <1>4. ASSUME NEW i \in 1 .. n
        PROVE  /\ i \in 0 .. n /\ i - 1 \in 0 .. n /\ cut[i - 1] \in 0 .. Terms - 1 /\ cut[i] \in 1 .. Terms
               /\ cut[i - 1] < cut[i]
    <2>1. i \in 0 .. n /\ i - 1 \in 0 .. n /\ i - 1 < i /\ 0 \in 0 .. n
      BY <1>2
    <2>2. cut[i - 1] < cut[i] /\ cut[i - 1] \in 0 .. Terms /\ cut[i] \in 0 .. Terms
      BY <1>3, <2>1
    <2> QED  BY <1>2, <2>1, <2>2
  <1>5. \A i \in 1 .. n : layout[i] = [start |-> cut[i - 1], end |-> cut[i]] /\ layout[i] \in NodeRanges
    BY <1>1, <1>4 DEF NodeRanges
  <1>a. \A i \in 1 .. n : layout[i].start = cut[i - 1] /\ layout[i].end = cut[i]
    BY <1>1
  <1>6. layout \in [1 .. n -> NodeRanges]
    BY <1>1, <1>5
  <1>7. layout \in Seq(NodeRanges) /\ Len(layout) = n /\ DOMAIN layout = 1 .. n
    BY <1>2, <1>6, SeqDef, LenProperties
  <1>8. ASSUME NEW i \in 1 .. n, NEW j \in 1 .. n, i < j PROVE layout[i].end <= layout[j].start
    <2>1. i \in 0 .. n /\ j - 1 \in 0 .. n /\ (i = j - 1 \/ i < j - 1)
      BY <1>2, <1>8
    <2>2. cut[i] <= cut[j - 1]
      <3>1. CASE i = j - 1
        BY <1>3, <2>1, <3>1
      <3>2. CASE i < j - 1
        BY <1>3, <2>1, <3>2
      <3> QED  BY <2>1, <3>1, <3>2
    <2> QED  BY <1>a, <2>2
  <1>9. \A i \in 1 .. n : layout[i].start < layout[i].end
    BY <1>4, <1>a
  <1> QED  BY <1>2, <1>7, <1>8, <1>9 DEF IsLayout

LEMMA LayoutFields ==
    ASSUME LayoutInv
    PROVE  /\ Nodes = 1 .. Len(nodes) /\ Len(nodes) \in Nat /\ IsLayout(nodes) /\ level \in 0 .. Terms - 1
           /\ \A i \in Nodes : /\ nodes[i].start \in 0 .. Terms - 1 /\ nodes[i].end \in 1 .. Terms
                               /\ nodes[i].start < nodes[i].end
                               /\ Id(i) \in Chunks /\ i # 0
           /\ \A i, j \in Nodes : i # j => Id(i) # Id(j) /\ ~Overlaps(Id(i), Id(j))
  <1>1. Nodes = 1 .. Len(nodes) /\ Len(nodes) \in Nat /\ IsLayout(nodes)
    BY LenProperties DEF LayoutInv, Nodes, IsLayout, NodeRanges
  <1>2. level \in 0 .. Terms - 1
    BY <1>1, OutOfCoreAssumption DEF LayoutInv
  <1>3. ASSUME NEW i \in Nodes
        PROVE  /\ nodes[i].start \in 0 .. Terms - 1 /\ nodes[i].end \in 1 .. Terms
               /\ nodes[i].start < nodes[i].end /\ Id(i) \in Chunks /\ i # 0
    <2>1. nodes[i] \in NodeRanges
      BY <1>1, ElementOfSeq DEF IsLayout
    <2>2. nodes[i].start \in 0 .. Terms - 1 /\ nodes[i].end \in 1 .. Terms /\ nodes[i].start < nodes[i].end
      BY <2>1 DEF NodeRanges, LayoutInv
    <2> QED  BY <1>1, <1>2, <2>2, OutOfCoreAssumption DEF Id
  <1>4. ASSUME NEW i \in Nodes, NEW j \in Nodes, i < j
        PROVE  Id(i) # Id(j) /\ ~Overlaps(Id(i), Id(j)) /\ ~Overlaps(Id(j), Id(i))
    <2>1. nodes[i].end <= nodes[j].start
      BY <1>4 DEF LayoutInv
    <2>2. nodes[i].start # nodes[j].start
      BY <1>3, <2>1, OutOfCoreAssumption
    <2> QED  BY <1>3, <2>1, <2>2, OutOfCoreAssumption DEF Id, Overlaps
  <1>5. \A i, j \in Nodes : i = j \/ i < j \/ j < i
    BY <1>1
  <1> QED  BY <1>1, <1>2, <1>3, <1>4, <1>5

LEMMA MergedIsLayout ==
    ASSUME LayoutInv, Len(nodes) >= 2
    PROVE  /\ IsLayout(Merged) /\ DOMAIN Merged = 1 .. Len(Merged) /\ Len(Merged) \in Nat
           /\ Len(Merged) < Len(nodes)
  <1> DEFINE n == Len(nodes)
             m == (n + 1) \div 2
             R(i) == IF 2 * i <= n THEN 2 * i ELSE 2 * i - 1
  <1>1. /\ Nodes = 1 .. n /\ n \in Nat /\ n >= 2
        /\ \A i \in 1 .. n : nodes[i].start \in 0 .. Terms - 1 /\ nodes[i].end \in 1 .. Terms
                             /\ nodes[i].start < nodes[i].end
        /\ \A i, j \in 1 .. n : i < j => nodes[i].end <= nodes[j].start
    BY LayoutFields DEF LayoutInv
  <1> HIDE DEF n
  <1>2. m \in Nat /\ m >= 1 /\ m < n /\ 2 * m <= n + 1
    BY <1>1
  <1> HIDE DEF m
  <1>3. \A i \in 1 .. m : /\ 2 * i - 1 \in 1 .. n /\ R(i) \in 1 .. n /\ 2 * i - 1 <= R(i) /\ R(i) <= 2 * i
    BY <1>1, <1>2
  <1>4. Merged = [i \in 1 .. m |-> [start |-> nodes[2 * i - 1].start, end |-> nodes[R(i)].end]]
    BY DEF Merged, m, n
  <1> HIDE DEF R
  <1>5. ASSUME NEW i \in 1 .. m
        PROVE  /\ Merged[i].start = nodes[2 * i - 1].start /\ Merged[i].end = nodes[R(i)].end
               /\ Merged[i] \in NodeRanges /\ Merged[i].start < Merged[i].end
    <2> DEFINE a == 2 * i - 1
               b == R(i)
    <2>1. Merged[i] = [start |-> nodes[a].start, end |-> nodes[b].end]
      BY <1>4
    <2>2. a \in 1 .. n /\ b \in 1 .. n /\ a <= b
      BY <1>3
    <2> HIDE DEF a, b
    <2>3. /\ nodes[a].start \in 0 .. Terms - 1 /\ nodes[b].end \in 1 .. Terms
          /\ nodes[b].start \in 0 .. Terms - 1 /\ nodes[a].end \in 1 .. Terms
          /\ nodes[a].start < nodes[a].end /\ nodes[b].start < nodes[b].end
      BY <1>1, <2>2
    <2>4. a = b \/ nodes[a].end <= nodes[b].start
      BY <1>1, <2>2
    <2>5. nodes[a].start < nodes[b].end
      <3>1. CASE a = b
        BY <2>3, <3>1
      <3>2. CASE nodes[a].end <= nodes[b].start
        BY <2>3, <3>2, OutOfCoreAssumption
      <3> QED  BY <2>4, <3>1, <3>2
    <2>6. Merged[i].start = nodes[a].start /\ Merged[i].end = nodes[b].end /\ Merged[i] \in NodeRanges
      BY <2>1, <2>3 DEF NodeRanges
    <2>7. Merged[i].start < Merged[i].end
      BY <2>5, <2>6
    <2> QED  BY <2>6, <2>7 DEF a, b
  <1>6. Merged \in [1 .. m -> NodeRanges]
    BY <1>4, <1>5
  <1>7. Merged \in Seq(NodeRanges) /\ Len(Merged) = m /\ DOMAIN Merged = 1 .. m
    BY <1>2, <1>6, SeqDef, LenProperties
  <1>8. ASSUME NEW i \in 1 .. m, NEW j \in 1 .. m, i < j PROVE Merged[i].end <= Merged[j].start
    <2>1. R(i) < 2 * j - 1 /\ R(i) \in 1 .. n /\ 2 * j - 1 \in 1 .. n
      BY <1>1, <1>2, <1>3, <1>8
    <2> QED  BY <1>1, <1>5, <2>1
  <1> QED  BY <1>2, <1>5, <1>7, <1>8 DEF IsLayout, n
-----------------------------------------------------------------------------
(* The chunk store under the merge.                                        *)

LEMMA ReopenKeepsStorage ==
    ASSUME StorageInv, Reopen, UNCHANGED faults
    PROVE  StorageInv'
  BY IdleIsACall, StorageAssumption DEF Reopen, StorageInv, StorageTypeOK, StoresAreExclusive,
     StoresArePrivate, RemovesAreLocked, StoredStaysLoadable, InFlightIsExact, Storing, At, Steps

LEMMA CallersAre ==
    /\ \A w \in Workers : w \in Callers /\ w # Main
    /\ Main \in Callers
    /\ \A k \in Callers : k = Main \/ k \in Workers
  BY OutOfCoreAssumption

\* Every step of the merge is a step of the store or none of its business.
LEMMA MergeStepsKeepStorage ==
    ASSUME StorageInv, LayoutInv, RequestInv, [Next]_vars
    PROVE  StorageInv'
  <1>1. CASE UNCHANGED storageVars
    BY <1>1, StepsKeepStorageInv
  <1>2. CASE RetireBegins \/ RetireEnds
    <2>1. CASE RetireBegins
      <3>1. Head(retiring) \in Chunks
        BY <2>1, TailOf DEF RetireBegins, LayoutInv
      <3> QED  BY <2>1, <3>1, CallersAre, CallsKeepStorage DEF RetireBegins
    <2>2. CASE RetireEnds
      <3>1. PICK c \in Chunks : TRUE
        BY StorageAssumption
      <3> QED  BY <2>2, <3>1, CallersAre, CallsKeepStorage DEF RetireEnds
    <2> QED  BY <1>2, <2>1, <2>2
  <1>3. ASSUME NEW k \in Callers, ManagerStep(k) PROVE StorageInv'
    BY <1>3, StepsKeepStorage DEF ManagerStep
  <1>4. ASSUME NEW w \in Workers, Worker(w) PROVE StorageInv'
    <2>1. CASE WorkerBegins(w)
      <3>1. Head(queue) \in Nodes
        BY <2>1, TailOf DEF WorkerBegins, RequestInv
      <3>2. Id(Head(queue)) \in Chunks
        BY <3>1, LayoutFields
      <3>3. StoreBegins(w, Id(Head(queue))) \/ LoadBegins(w, Id(Head(queue)))
        BY <2>1 DEF WorkerBegins
      <3> QED  BY <3>2, <3>3, CallersAre, CallsKeepStorage
    <2>2. CASE WorkerEnds(w)
      <3>1. PICK c \in Chunks : TRUE
        BY StorageAssumption
      <3> QED  BY <2>2, <3>1, CallersAre, CallsKeepStorage DEF WorkerEnds
    <2> QED  BY <1>4, <2>1, <2>2 DEF Worker
  <1>5. CASE Interrupted
    BY <1>5, FaultsKeepStorage DEF Interrupted, Kill
  <1>6. CASE Rerun
    BY <1>6, ReopenKeepsStorage DEF Rerun
  <1>7. CASE ChunkDamaged
    BY <1>7, FaultsKeepStorage DEF ChunkDamaged
  <1>8. CASE \/ RetireSkips \/ Observed \/ Plan \/ Submit \/ Submitted \/ SpillWaits \/ SpillFails \/ Spilled
             \/ Request \/ Requested \/ Restore \/ RestoreFails \/ Restored \/ Merge \/ Ended \/ UNCHANGED vars
    BY <1>1, <1>8 DEF RetireSkips, Observed, Plan, Submit, Submitted, SpillWaits, SpillFails, Spilled, Request,
       Requested, Restore, RestoreFails, Restored, Merge, Ended, Enqueues, vars
  <1> QED  BY <1>2, <1>3, <1>4, <1>5, <1>6, <1>7, <1>8 DEF Next, MainStep

\* Only the second half of a removal takes a chunk away: a store that is undone
\* deletes a file that is not indexed.
LEMMA StepsKeepChunks ==
    ASSUME StorageInv, NEW k \in Callers, StorageStep(k), ~At(k, "unpublish"),
           NEW c \in Chunks, ContainsChunk(c)
    PROVE  ContainsChunk(c)'
  <1>1. /\ files \in [Chunks -> {"absent", "whole", "corrupt"}] /\ call[k].chunk \in Chunks
        /\ Storing(k) => call[k].chunk \notin index
    BY DEF StorageInv, StorageTypeOK, StoresArePrivate
  <1>2. c \in index /\ files[c] # "absent"
    BY DEF ContainsChunk
  <1>3. CASE WriteFile(k) \/ WriteFails(k)
    BY <1>1, <1>2, <1>3 DEF WriteFile, WriteFails, ContainsChunk
  <1>4. CASE Publish(k) \/ PublishRefused(k) \/ PublishFails(k) \/ LoadReads(k)
    BY <1>2, <1>4 DEF Publish, PublishRefused, PublishFails, LoadReads, ContainsChunk, store
  <1>5. CASE Undo(k)
    <2>1. call[k].chunk # c
      BY <1>1, <1>2, <1>5 DEF Undo, At, Storing
    <2> QED  BY <1>1, <1>2, <1>5, <2>1 DEF Undo, DropFile, ContainsChunk
  <1> QED  BY <1>3, <1>4, <1>5 DEF StorageStep, Unpublish, UnpublishFails
-----------------------------------------------------------------------------
(* The eviction plan.                                                      *)

LEMMA SmallestOf ==
    ASSUME NEW S \in SUBSET Nat, S # {}
    PROVE  \E m \in S : \A n \in S : m <= n
  <1> DEFINE R == OpToRel(<, Nat)
  <1>1. IsWellFoundedOn(R, Nat)
    BY NatLessThanWellFounded
  <1>2. R = {ss \in Nat \X Nat : ss[1] < ss[2]}
    BY DEF OpToRel
  <1> HIDE DEF R
  <1>3. PICK m \in S : \A n \in S : ~(<<n, m>> \in R)
    BY <1>1, WFMin, Zenon
  <1>4. \A n \in S : ~(n < m)
    BY <1>2, <1>3
  <1> QED  BY <1>4

\* Of any nodes one comes before all the others.
LEMMA FirstNode ==
    ASSUME LayoutInv, NEW S \in SUBSET Nodes, S # {}
    PROVE  \E i \in S : \A j \in S : Before(i, j)
  <1> DEFINE Slack == {Terms - Bytes(i) : i \in S}
  <1>1. Nodes \subseteq Nat /\ \A i \in Nodes : Bytes(i) \in 1 .. Terms
    BY LayoutFields, OutOfCoreAssumption DEF Bytes
  <1>2. Slack \in SUBSET Nat /\ Slack # {}
    <2>1. \A i \in S : Terms - Bytes(i) \in Nat
      <3> SUFFICES ASSUME NEW i \in S PROVE Terms - Bytes(i) \in Nat
        OBVIOUS
      <3>1. Bytes(i) \in 1 .. Terms
        BY <1>1
      <3> QED  BY <3>1, OutOfCoreAssumption
    <2> QED  BY <2>1
  <1>3. PICK b \in Slack : \A c \in Slack : b <= c
    BY <1>2, SmallestOf
  <1> DEFINE Largest == {i \in S : Terms - Bytes(i) = b}
  <1>4. Largest \in SUBSET Nat /\ Largest # {}
    BY <1>1, <1>3
  <1> HIDE DEF Slack
  <1>5. PICK i \in Largest : \A j \in Largest : i <= j
    <2> HIDE DEF Largest
    <2> QED  BY <1>4, SmallestOf
  <1>6. ASSUME NEW j \in S PROVE Before(i, j)
    <2>1. i \in S /\ Terms - Bytes(i) = b /\ b <= Terms - Bytes(j)
      BY <1>3, <1>5 DEF Slack
    <2>2. Bytes(i) >= Bytes(j) /\ Bytes(i) \in Int /\ Bytes(j) \in Int
      BY <1>1, <2>1, OutOfCoreAssumption
    <2>3. CASE Bytes(i) > Bytes(j)
      BY <2>3 DEF Before
    <2>4. CASE Bytes(i) = Bytes(j)
      <3>1. j \in Largest
        BY <2>1, <2>4
      <3> QED  BY <1>5, <2>4, <3>1 DEF Before
    <2> QED  BY <2>2, <2>3, <2>4
  <1> QED  BY <1>5, <1>6

\* The terms of some nodes.
TermsOf(S) == UNION {nodes[i].start .. nodes[i].end - 1 : i \in S}

LEMMA TermsAreDisjoint ==
    ASSUME LayoutInv, NEW S \in SUBSET Nodes, NEW T \in SUBSET Nodes, S \cap T = {}
    PROVE  /\ BytesOf(S) \in Nat /\ BytesOf(T) \in Nat /\ BytesOf(Nodes) \in Nat
           /\ BytesOf(S) + BytesOf(T) <= BytesOf(Nodes)
  <1>1. /\ \A i \in Nodes : nodes[i].start \in Nat /\ nodes[i].end \in 1 .. Terms
        /\ Nodes \subseteq Nat
        /\ \A i, j \in Nodes : i < j => nodes[i].end <= nodes[j].start
    BY LayoutFields, OutOfCoreAssumption DEF LayoutInv
  <1>2. IsFiniteSet(0 .. Terms - 1)
    BY FS_Interval, OutOfCoreAssumption
  <1>3. TermsOf(Nodes) \subseteq 0 .. Terms - 1
    BY <1>1, OutOfCoreAssumption DEF TermsOf
  <1>4. TermsOf(S) \subseteq TermsOf(Nodes) /\ TermsOf(T) \subseteq TermsOf(Nodes)
    BY DEF TermsOf
  <1>5. IsFiniteSet(TermsOf(Nodes)) /\ IsFiniteSet(TermsOf(S)) /\ IsFiniteSet(TermsOf(T))
    BY <1>2, <1>3, <1>4, FS_Subset
  <1>6. TermsOf(S) \cap TermsOf(T) = {}
    <2> SUFFICES ASSUME NEW i \in S, NEW j \in T, NEW t \in nodes[i].start .. nodes[i].end - 1,
                        t \in nodes[j].start .. nodes[j].end - 1
                 PROVE  FALSE
      BY DEF TermsOf
    <2>1. i \in Nodes /\ j \in Nodes /\ (i < j \/ j < i)
      BY <1>1
    <2> QED  BY <1>1, <2>1
  <1>7. IsFiniteSet(TermsOf(S) \cup TermsOf(T))
    BY <1>5, FS_Union
  <1>8. Cardinality(TermsOf(S) \cup TermsOf(T)) = Cardinality(TermsOf(S)) + Cardinality(TermsOf(T))
    <2>1. Cardinality(TermsOf(S) \cap TermsOf(T)) = 0
      BY <1>6, FS_EmptySet
    <2>2. Cardinality(TermsOf(S)) \in Nat /\ Cardinality(TermsOf(T)) \in Nat
      BY <1>5, FS_CardinalityType
    <2>3. Cardinality(TermsOf(S) \cup TermsOf(T)) =
          Cardinality(TermsOf(S)) + Cardinality(TermsOf(T)) - Cardinality(TermsOf(S) \cap TermsOf(T))
      BY <1>5, FS_Union, Zenon
    <2> QED  BY <2>1, <2>2, <2>3
  <1>9. Cardinality(TermsOf(S) \cup TermsOf(T)) <= Cardinality(TermsOf(Nodes))
    BY <1>4, <1>5, FS_Subset
  <1>10. /\ Cardinality(TermsOf(S)) \in Nat /\ Cardinality(TermsOf(T)) \in Nat
         /\ Cardinality(TermsOf(Nodes)) \in Nat
    BY <1>5, FS_CardinalityType
  <1>11. BytesOf(S) = Cardinality(TermsOf(S)) /\ BytesOf(T) = Cardinality(TermsOf(T))
         /\ BytesOf(Nodes) = Cardinality(TermsOf(Nodes))
    BY DEF BytesOf, TermsOf
  <1> QED  BY <1>8, <1>9, <1>10, <1>11

\* What the plan leaves in memory fits the budget.
LEMMA EvictionIsEnough ==
    ASSUME LayoutInv, BytesOf(Nodes) > Budget
    PROVE  BytesOf(Nodes \ Evicted(BytesOf(Nodes) - Budget)) <= Budget
  <1> DEFINE needed == BytesOf(Nodes) - Budget
             R == Nodes \ Evicted(needed)
  <1>1. BytesOf(Nodes) \in Nat /\ Budget \in Nat /\ needed \in Nat
    <2>1. {} \in SUBSET Nodes /\ {} \cap {} = {}
      OBVIOUS
    <2>2. BytesOf(Nodes) \in Nat
      BY <2>1, TermsAreDisjoint
    <2> QED  BY <2>2, OutOfCoreAssumption
  <1>2. CASE R = {}
    <2>1. BytesOf(R) = 0
      BY <1>2, FS_EmptySet DEF BytesOf
    <2> QED  BY <1>1, <2>1
  <1>3. CASE R # {}
    <2>1. PICK i \in R : \A j \in R : Before(i, j)
      BY <1>3, FirstNode
    <2> DEFINE P == {j \in Nodes \ {i} : Before(j, i)}
    <2>2. i \in Nodes /\ ~(BytesOf(P) < needed)
      BY DEF Evicted
    <2>3. R \cap P = {}
      <3> SUFFICES ASSUME NEW j \in R, j # i, Before(j, i) PROVE FALSE
        OBVIOUS
      <3>1. Before(i, j) /\ i \in Nat /\ j \in Nat /\ Bytes(i) \in Int /\ Bytes(j) \in Int
        BY <2>1, <2>2, LayoutFields, OutOfCoreAssumption DEF Bytes
      <3> QED  BY <3>1 DEF Before
    <2>4. /\ BytesOf(R) \in Nat /\ BytesOf(P) \in Nat
          /\ BytesOf(R) + BytesOf(P) <= BytesOf(Nodes)
      <3>1. P \in SUBSET Nodes /\ R \in SUBSET Nodes
        OBVIOUS
      <3> HIDE DEF P, R
      <3> QED  BY <2>3, <3>1, TermsAreDisjoint
    <2> HIDE DEF P, R
    <2> QED  BY <1>1, <2>2, <2>4 DEF needed, R
  <1> QED  BY <1>2, <1>3
-----------------------------------------------------------------------------
(* The start of a run.                                                     *)

Fresh ==
    /\ stage = "retire" /\ level = 0 /\ nodes \in Layouts
    /\ values = [i \in DOMAIN nodes |-> TRUE] /\ life = [i \in DOMAIN nodes |-> "resident"]
    /\ retiring = <<>> /\ plan = <<>> /\ queue = <<>> /\ pending = <<>>
    /\ job = [w \in Workers |-> 0] /\ outcome = [i \in DOMAIN nodes |-> "none"]
    /\ call = [k \in Callers |-> Idle] /\ runs \in 1 .. MaxRuns

LEMMA FreshRuns == Fresh => LayoutInv /\ RequestInv /\ CallInv /\ LifeInv /\ KeptInv /\ BudgetInv
  <1> SUFFICES ASSUME Fresh PROVE LayoutInv /\ RequestInv /\ CallInv /\ LifeInv /\ KeptInv /\ BudgetInv
    OBVIOUS
  <1> USE DEF Fresh
  <1>1. IsLayout(nodes) /\ Len(nodes) <= Terms /\ DOMAIN nodes = 1 .. Len(nodes)
    BY LayoutsAreLayouts
  <1>2. \A S : <<>> \in Seq(S) /\ Ran(<<>>) = {} /\ Distinct(<<>>) /\ Len(<<>>) = 0
    BY EmptyOf
  <1>3. \A k \in Callers : call[k].step = "idle"
    BY IdleIsACall
  <1>4. LayoutInv
    <2>1. Len(nodes) \in Nat
      BY <1>1, LenProperties DEF IsLayout
    <2> QED  BY <1>1, <1>2, <2>1 DEF LayoutInv, IsLayout, NodeRanges, Stages, Nodes
  <1>5. RequestInv
    <2>1. \A s \in {plan, queue, pending} : s \in Seq(Nodes) /\ Distinct(s)
      BY <1>2
    <2> QED  BY <1>2, <2>1, OutOfCoreAssumption DEF RequestInv, Nodes
  <1>6. CallInv
    BY <1>3, CallersAre DEF CallInv, WorkerCall, MainCall, SpillStages, LoadStages, At
  <1>7. LifeInv
    BY DEF LifeInv, LifeStages, LifeTypes, Nodes, Lives, SpillStages, LoadStages
  <1>8. KeptInv
    BY <1>3, CallersAre DEF KeptInv, Nodes, At
  <1>9. BudgetInv
    BY DEF BudgetInv
  <1> QED  BY <1>4, <1>5, <1>6, <1>7, <1>8, <1>9

LEMMA InitIsFresh == Init => Fresh
  <1> SUFFICES ASSUME Init PROVE Fresh
    OBVIOUS
  <1>1. runs \in 1 .. MaxRuns
    BY OutOfCoreAssumption DEF Init
  <1> QED  BY <1>1 DEF Init, StorageInit, Fresh, All, Nodes

LEMMA StartsAreFresh ==
    ASSUME LayoutInv, Interrupted \/ Rerun
    PROVE  Fresh'
  <1>1. runs' \in 1 .. MaxRuns
    BY OutOfCoreAssumption DEF Interrupted, Rerun, LayoutInv
  <1>2. Reopen /\ \E layout \in Layouts : Starts(layout)
    BY DEF Interrupted, Rerun
  <1>3. PICK layout \in Layouts : Starts(layout)
    BY <1>2
  <1>4. nodes' = layout /\ Layouts' = Layouts
    BY <1>3 DEF Starts, Layouts, Cuts
  <1> QED  BY <1>1, <1>2, <1>3, <1>4 DEF Starts, Reopen, Fresh

LEMMA StartsKeepInv ==
    ASSUME LayoutInv, Interrupted \/ Rerun
    PROVE  (LayoutInv /\ RequestInv /\ CallInv /\ LifeInv /\ KeptInv /\ BudgetInv)'
  <1>1. Fresh'
    BY StartsAreFresh
  <1>2. Fresh' => (LayoutInv /\ RequestInv /\ CallInv /\ LifeInv /\ KeptInv /\ BudgetInv)'
    BY FreshRuns, PTL
  <1> QED  BY <1>1, <1>2
-----------------------------------------------------------------------------
(* The layout.                                                             *)

\* The steps of a run, without the ones that start another.
RunStep ==
    \/ MainStep
    \/ \E k \in Callers : ManagerStep(k)
    \/ \E w \in Workers : Worker(w)
    \/ ChunkDamaged \/ Ended \/ UNCHANGED vars

LEMMA StepsKeepLayout ==
    ASSUME LayoutInv, CallInv, RunStep
    PROVE  LayoutInv'
  <1>1. ASSUME UNCHANGED <<nodes, level, runs>>, stage' \in Stages, retiring' \in Seq(Chunks),
               stage' \notin {"retire", "failed"} => retiring' = <<>>,
               stage' \notin {"retire", "done", "failed"} => Len(nodes) >= 2
        PROVE  LayoutInv'
    BY <1>1 DEF LayoutInv, Nodes
  <1>2. ASSUME UNCHANGED <<nodes, level, runs, stage, retiring>> PROVE LayoutInv'
    BY <1>1, <1>2 DEF LayoutInv
  <1>3. CASE RetireSkips \/ RetireEnds
    <2>1. retiring # <<>> => Tail(retiring) \in Seq(Chunks)
      BY TailOf DEF LayoutInv
    <2>2. CASE RetireSkips
      BY <1>1, <2>1, <2>2 DEF RetireSkips, LayoutInv, Stages
    <2>3. CASE RetireEnds
      <3>1. retiring # <<>>
        BY <2>3 DEF RetireEnds, Returns, Results, CallInv, MainCall, At
      <3> QED  BY <1>1, <2>1, <2>3, <3>1 DEF RetireEnds, RunFails, Goto, LayoutInv, Stages
    <2> QED  BY <1>3, <2>2, <2>3
  <1>4. CASE Observed
    <2>1. Len(nodes) \in Nat /\ Len(nodes) >= 1
      BY LayoutFields DEF LayoutInv
    <2>2. stage' = IF Len(nodes) = 1 THEN "done" ELSE "plan"
      BY <1>4 DEF Observed, Goto
    <2>3. stage' \in Stages /\ (stage' # "done" => Len(nodes) >= 2)
      <3>1. CASE Len(nodes) = 1
        BY <2>2, <3>1 DEF Stages
      <3>2. CASE Len(nodes) # 1
        <4>0. \A n \in Nat : n >= 1 /\ n # 1 => n >= 2
          OBVIOUS
        <4>1. Len(nodes) >= 2
          BY <2>1, <3>2, <4>0, Zenon
        <4> QED  BY <2>2, <3>2, <4>1 DEF Stages
      <3> QED  BY <3>1, <3>2
    <2> QED  BY <1>1, <1>4, <2>3 DEF Observed, LayoutInv
  <1>5. CASE \/ Plan \/ Submitted \/ SpillWaits \/ SpillFails \/ Spilled \/ Requested \/ RestoreFails \/ Restored
    BY <1>1, <1>5 DEF Plan, Submitted, SpillWaits, SpillFails, Spilled, Requested, RestoreFails, Restored,
       RunFails, Goto, LayoutInv, Stages
  <1>6. CASE \/ RetireBegins \/ Submit \/ Request \/ Restore \/ Ended \/ ChunkDamaged \/ UNCHANGED vars
    BY <1>2, <1>6 DEF RetireBegins, Submit, Request, Restore, Enqueues, Ended, ChunkDamaged, mergeVars, vars
  <1>7. ASSUME NEW k \in Callers, ManagerStep(k) PROVE LayoutInv'
    BY <1>2, <1>7 DEF ManagerStep, mergeVars
  <1>8. ASSUME NEW w \in Workers, Worker(w) PROVE LayoutInv'
    BY <1>2, <1>8 DEF Worker, WorkerBegins, WorkerEnds, mergeVars
  <1>9. CASE Merge
    <2>1. Len(nodes) >= 2
      BY <1>9 DEF Merge, LayoutInv
    <2>2. /\ IsLayout(Merged) /\ DOMAIN Merged = 1 .. Len(Merged) /\ Len(Merged) \in Nat
          /\ Len(Merged) < Len(nodes)
      BY <2>1, MergedIsLayout
    <2>3. Ids \in Seq(Chunks)
      <3>1. Nodes = 1 .. Len(nodes) /\ Len(nodes) \in Nat /\ \A i \in Nodes : Id(i) \in Chunks
        BY LayoutFields
      <3>2. Ids \in [1 .. Len(nodes) -> Chunks]
        BY <3>1 DEF Ids
      <3> QED  BY <3>1, <3>2, SeqDef
    <2>4. level \in Nat /\ level + 1 + Len(Merged) <= Terms
      BY <2>2, LayoutFields, OutOfCoreAssumption DEF LayoutInv
    <2>5. /\ nodes' = Merged /\ level' = level + 1 /\ retiring' = Ids /\ stage' = "retire" /\ runs' = runs
      BY <1>9 DEF Merge, Goto
    <2> QED  BY <2>2, <2>3, <2>4, <2>5 DEF LayoutInv, IsLayout, NodeRanges, Nodes, Stages
  <1> QED  BY <1>3, <1>4, <1>5, <1>6, <1>7, <1>8, <1>9 DEF RunStep, MainStep
-----------------------------------------------------------------------------
(* The requests.                                                           *)

LEMMA NothingRequested ==
    ASSUME LayoutInv, RequestInv, pending = <<>>
    PROVE  queue = <<>> /\ \A w \in Workers : job[w] = 0
  <1>1. Ran(pending) = {} /\ queue \in Seq(Nodes)
    BY EmptyOf DEF RequestInv
  <1>2. Ran(queue) = {}
    BY <1>1 DEF RequestInv
  <1>3. queue = <<>>
    BY <1>1, <1>2, EmptyOf
  <1> QED  BY <1>1, <1>3 DEF RequestInv

LEMMA NodesAreFinite ==
    ASSUME LayoutInv
    PROVE  IsFiniteSet(Nodes)
  BY LayoutFields, FS_Interval

\* Which sequences a sorted plan is.
LEMMA SortedNodes ==
    ASSUME LayoutInv, NEW S \in SUBSET Nodes, NEW s \in Sorted(S, Before) \cup Sorted(S, <=)
    PROVE  s \in Seq(Nodes) /\ Distinct(s) /\ Ran(s) = S
  <1>1. IsFiniteSet(Nodes)
    BY NodesAreFinite
  <1>2. IsFiniteSet(S)
    BY <1>1, FS_Subset
  <1>3. s \in [1 .. Cardinality(S) -> S] /\ \A i, j \in 1 .. Cardinality(S) : i < j => s[i] # s[j]
    BY DEF Sorted
  <1>4. s \in Seq(S) /\ Distinct(s) /\ Ran(s) = S
    BY <1>2, <1>3, SortedOf
  <1>5. s \in Seq(Nodes)
    <2>1. Cardinality(S) \in Nat /\ s \in [1 .. Cardinality(S) -> Nodes]
      BY <1>2, <1>3, FS_CardinalityType
    <2> QED  BY <2>1, SeqDef
  <1> QED  BY <1>4, <1>5

LEMMA StepsKeepRequests ==
    ASSUME LayoutInv, RequestInv, LifeInv, RunStep
    PROVE  RequestInv'
  <1>1. ASSUME UNCHANGED <<nodes, plan, ioVars>> PROVE RequestInv'
    BY <1>1 DEF RequestInv, Nodes, ioVars
  <1>0. /\ plan \in Seq(Nodes) /\ Distinct(plan) /\ queue \in Seq(Nodes) /\ Distinct(queue)
        /\ pending \in Seq(Nodes) /\ Distinct(pending) /\ Ran(plan) \cap Ran(pending) = {}
        /\ Len(queue) <= QueueCapacity
        /\ job \in [Workers -> Nodes \cup {0}] /\ outcome \in [Nodes -> {"none", "ok", "error"}]
        /\ \A i \in Ran(queue) : i \in Ran(pending) /\ outcome[i] = "none"
        /\ \A w \in Workers : job[w] # 0 =>
              /\ job[w] \in Ran(pending) \ Ran(queue) /\ outcome[job[w]] = "none"
              /\ \A v \in Workers : v # w => job[v] # job[w]
    BY DEF RequestInv
  <1>2. CASE \/ RetireBegins \/ RetireSkips \/ RetireEnds \/ Observed \/ Submitted \/ SpillFails \/ Requested
             \/ RestoreFails \/ Restored \/ ChunkDamaged \/ Ended \/ UNCHANGED vars
    BY <1>1, <1>2 DEF RetireBegins, RetireSkips, RetireEnds, Observed, Submitted, SpillFails, Requested,
       RestoreFails, Restored, ChunkDamaged, Ended, mergeVars, vars
  <1>3. ASSUME NEW k \in Callers, ManagerStep(k) PROVE RequestInv'
    BY <1>1, <1>3 DEF ManagerStep, mergeVars
  <1>4. CASE Plan \/ Spilled
    <2>1. pending = <<>> /\ Ran(pending) = {}
      BY <1>4, EmptyOf DEF Plan, Spilled, LifeInv, LifeStages, LifeTypes
    <2>2. plan' \in Seq(Nodes) /\ Distinct(plan')
      <3>1. CASE plan' = <<>>
        BY <3>1, EmptyOf
      <3>2. CASE plan' \in Sorted(Evicted(BytesOf(Resident) - Budget), Before)
        <4>1. Evicted(BytesOf(Resident) - Budget) \in SUBSET Nodes
          BY DEF Evicted
        <4> QED  BY <3>2, <4>1, SortedNodes
      <3>3. CASE plan' \in Sorted(ToLoad, <=)
        <4>1. ToLoad \in SUBSET Nodes
          BY DEF ToLoad
        <4> QED  BY <3>3, <4>1, SortedNodes
      <3> QED  BY <1>4, <3>1, <3>2, <3>3 DEF Plan, Spilled
    <2>3. UNCHANGED <<nodes, ioVars>>
      BY <1>4 DEF Plan, Spilled
    <2>4. \A s \in {plan', queue', pending'} : s \in Seq(Nodes) /\ Distinct(s)
      BY <1>0, <2>2, <2>3 DEF ioVars
    <2> QED  BY <1>0, <2>1, <2>2, <2>3, <2>4 DEF RequestInv, Nodes, ioVars
  <1>5. CASE Submit \/ Request
    <2> DEFINE h == Head(plan)
    <2>1. /\ plan # <<>> /\ Len(queue) < QueueCapacity /\ queue' = Append(queue, h) /\ pending' = Append(pending, h)
          /\ outcome' = [outcome EXCEPT ![h] = "none"] /\ plan' = Tail(plan) /\ UNCHANGED <<nodes, job>>
      BY <1>5 DEF Submit, Request, Enqueues, Room
    <2>2. /\ h \in Nodes /\ Tail(plan) \in Seq(Nodes) /\ Ran(plan) = Ran(Tail(plan)) \cup {h}
          /\ Distinct(Tail(plan)) /\ h \notin Ran(Tail(plan))
      BY <1>0, <2>1, TailOf
    <2> HIDE DEF h
    <2>3. h \notin Ran(pending) /\ h \notin Ran(queue)
      BY <1>0, <2>2
    <2>4. /\ queue' \in Seq(Nodes) /\ Distinct(queue') /\ Ran(queue') = Ran(queue) \cup {h}
          /\ pending' \in Seq(Nodes) /\ Distinct(pending') /\ Ran(pending') = Ran(pending) \cup {h}
      BY <1>0, <2>1, <2>2, <2>3, AppendOf
    <2>5. Len(queue') <= QueueCapacity
      <3>1. Len(queue') = Len(queue) + 1 /\ Len(queue) \in Nat
        BY <1>0, <2>1, <2>2, AppendOf
      <3> QED  BY <2>1, <3>1, OutOfCoreAssumption
    <2>6. \A s \in {plan', queue', pending'} : s \in Seq(Nodes) /\ Distinct(s)
      BY <2>1, <2>2, <2>4
    <2>7. Ran(plan') \cap Ran(pending') = {}
      BY <1>0, <2>1, <2>2, <2>4
    <2> QED  BY <1>0, <2>1, <2>2, <2>3, <2>4, <2>5, <2>6, <2>7 DEF RequestInv, Nodes
  <1>6. CASE SpillWaits \/ Restore
    <2> DEFINE h == Head(pending)
    <2>1. pending # <<>> /\ outcome[h] # "none" /\ pending' = Tail(pending) /\ UNCHANGED <<nodes, plan, queue, job, outcome>>
      BY <1>6 DEF SpillWaits, Restore
    <2>2. /\ h \in Nodes /\ Tail(pending) \in Seq(Nodes) /\ Ran(pending) = Ran(Tail(pending)) \cup {h}
          /\ Distinct(Tail(pending))
      BY <1>0, <2>1, TailOf
    <2> HIDE DEF h
    <2>3. \A s \in {plan', queue', pending'} : s \in Seq(Nodes) /\ Distinct(s)
      BY <1>0, <2>1, <2>2
    <2> QED  BY <1>0, <2>1, <2>2, <2>3 DEF RequestInv, Nodes
  <1>7. CASE Merge
    <2>1. plan = <<>> /\ pending = <<>>
      BY <1>7 DEF Merge, LifeInv, LifeStages, LifeTypes
    <2>2. queue = <<>> /\ \A w \in Workers : job[w] = 0
      BY <2>1, NothingRequested
    <2>3. plan' = <<>> /\ pending' = <<>> /\ queue' = <<>> /\ job' = job
      BY <1>7, <2>1, <2>2 DEF Merge
    <2>4. Ran(<<>>) = {} /\ Len(<<>>) = 0 /\ Distinct(<<>>) /\ <<>> \in Seq(Nodes')
      BY EmptyOf
    <2>5. job' \in [Workers -> Nodes' \cup {0}]
      BY <1>0, <2>2, <2>3
    <2>6. outcome' \in [Nodes' -> {"none", "ok", "error"}]
      BY <1>7 DEF Merge, Nodes
    <2>7. \A s \in {plan', queue', pending'} : s \in Seq(Nodes') /\ Distinct(s)
      BY <2>3, <2>4
    <2> QED  BY <2>2, <2>3, <2>4, <2>5, <2>6, <2>7, OutOfCoreAssumption DEF RequestInv
  <1>8. ASSUME NEW w \in Workers, WorkerBegins(w) PROVE RequestInv'
    <2> DEFINE h == Head(queue)
    <2>1. /\ queue # <<>> /\ job[w] = 0 /\ queue' = Tail(queue) /\ job' = [job EXCEPT ![w] = h]
          /\ UNCHANGED <<nodes, plan, pending, outcome>>
      BY <1>8 DEF WorkerBegins, mergeVars
    <2>2. /\ h \in Nodes /\ Tail(queue) \in Seq(Nodes) /\ Ran(queue) = Ran(Tail(queue)) \cup {h}
          /\ Distinct(Tail(queue)) /\ h \notin Ran(Tail(queue)) /\ Len(Tail(queue)) = Len(queue) - 1
          /\ Len(queue) \in Nat
      BY <1>0, <2>1, TailOf
    <2> HIDE DEF h
    <2>3. \A s \in {plan', queue', pending'} : s \in Seq(Nodes) /\ Distinct(s)
      BY <1>0, <2>1, <2>2
    <2>4. h # 0 /\ h \in Ran(pending) /\ outcome[h] = "none" /\ \A v \in Workers : job[v] # h
      BY <1>0, <2>2, LayoutFields
    <2>5. Len(queue') <= QueueCapacity
      BY <1>0, <2>1, <2>2, OutOfCoreAssumption
    <2>6. job' \in [Workers -> Nodes \cup {0}] /\ \A v \in Workers : job'[v] = IF v = w THEN h ELSE job[v]
      BY <1>0, <2>1, <2>2
    <2>7. \A i \in Ran(queue') : i \in Ran(pending) /\ outcome[i] = "none"
      BY <1>0, <2>1, <2>2
    <2>8. \A v \in Workers : job'[v] # 0 =>
              /\ job'[v] \in Ran(pending) \ Ran(queue') /\ outcome[job'[v]] = "none"
              /\ \A u \in Workers : u # v => job'[u] # job'[v]
      BY <1>0, <2>1, <2>2, <2>4, <2>6
    <2> QED  BY <1>0, <2>1, <2>3, <2>5, <2>6, <2>7, <2>8 DEF RequestInv, Nodes
  <1>9. ASSUME NEW w \in Workers, WorkerEnds(w) PROVE RequestInv'
    <2>1. /\ job[w] # 0 /\ outcome' = [outcome EXCEPT ![job[w]] = Settles(call[w].step)]
          /\ job' = [job EXCEPT ![w] = 0] /\ UNCHANGED <<nodes, plan, queue, pending>>
      BY <1>9 DEF WorkerEnds, mergeVars
    <2>2. job[w] \in Nodes /\ Settles(call[w].step) \in {"ok", "error"}
      BY <1>0, <2>1 DEF Settles
    <2> QED  BY <1>0, <2>1, <2>2 DEF RequestInv, Nodes
  <1> QED  BY <1>2, <1>3, <1>4, <1>5, <1>6, <1>7, <1>8, <1>9 DEF RunStep, MainStep, Worker
-----------------------------------------------------------------------------
(* The calls.                                                              *)

\* How a step inside a call goes on.
LEMMA StepMoves ==
    ASSUME StorageInv, NEW k \in Callers, StorageStep(k)
    PROVE  /\ \A a \in Callers : a # k => call'[a] = call[a]
           /\ call'[k].chunk = call[k].chunk
           /\ \/ call[k].step = "write" /\ call'[k].step \in {"publish", "undo"}
              \/ call[k].step = "publish" /\ call'[k].step \in {"stored", "undo"}
              \/ call[k].step = "undo" /\ call'[k].step = "failed"
              \/ call[k].step = "read" /\ call'[k].step \in {"missing", "failed", "loaded"}
              \/ call[k].step = "unpublish" /\ call'[k].step \in {"removed", "failed"}
  <1>1. call \in [Callers -> [step : Steps, chunk : Chunks]]
    BY DEF StorageInv, StorageTypeOK
  <1>2. ASSUME NEW step, Now(k, step)
        PROVE  /\ \A a \in Callers : a # k => call'[a] = call[a]
               /\ call'[k].chunk = call[k].chunk /\ call'[k].step = step
    BY <1>1, <1>2 DEF Now
  <1>3. CASE WriteFile(k) \/ WriteFails(k)
    BY <1>2, <1>3 DEF WriteFile, WriteFails, At
  <1>4. CASE Publish(k) \/ PublishRefused(k) \/ PublishFails(k) \/ Undo(k)
    BY <1>2, <1>4 DEF Publish, PublishRefused, PublishFails, Undo, At
  <1>5. CASE LoadReads(k)
    <2>1. files[call[k].chunk] \in {"absent", "corrupt", "whole"}
      BY <1>1 DEF StorageInv, StorageTypeOK
    <2>2. \E step \in {"missing", "failed", "loaded"} : Now(k, step)
      BY <1>5, <2>1 DEF LoadReads
    <2> QED  BY <1>2, <1>5, <2>2 DEF LoadReads, At
  <1>6. CASE Unpublish(k) \/ UnpublishFails(k)
    BY <1>2, <1>6 DEF Unpublish, UnpublishFails, At
  <1> QED  BY <1>3, <1>4, <1>5, <1>6 DEF StorageStep

\* While requests are pending the merge level is spilled or loaded.
LEMMA PendingStages ==
    ASSUME LayoutInv, RequestInv, LifeInv, stage # "failed", pending # <<>>
    PROVE  stage \in SpillStages \cup LoadStages
  BY DEF LayoutInv, LifeInv, LifeStages, LifeTypes, Stages, SpillStages, LoadStages

LEMMA QuietStages ==
    ASSUME LayoutInv, RequestInv, LifeInv, stage \notin SpillStages \cup LoadStages \cup {"failed"}
    PROVE  /\ pending = <<>> /\ plan = <<>> /\ queue = <<>> /\ \A w \in Workers : job[w] = 0
           /\ \A i \in Nodes : life[i] = "resident"
  <1>1. pending = <<>> /\ plan = <<>> /\ \A i \in Nodes : life[i] = "resident"
    BY DEF LayoutInv, LifeInv, LifeStages, LifeTypes, Stages, SpillStages, LoadStages
  <1> QED  BY <1>1, NothingRequested

\* A pending node is being spilled while spilling, and loaded while loading.
LEMMA PendingLife ==
    ASSUME LayoutInv, RequestInv, LifeInv, stage # "failed", NEW i \in Ran(pending)
    PROVE  /\ i \in Nodes
           /\ \/ stage \in SpillStages /\ stage \notin LoadStages /\ life[i] = "spilling"
              \/ stage \in LoadStages /\ stage \notin SpillStages /\ life[i] = "loading"
  <1>1. pending # <<>>
    BY EmptyOf
  <1>2. stage \in SpillStages \cup LoadStages
    BY <1>1, PendingStages
  <1>3. i \in Nodes
    BY ElementOfSeq DEF RequestInv, Ran
  <1> QED  BY <1>2, <1>3 DEF LifeInv, LifeStages, LifeTypes, SpillStages, LoadStages

LEMMA StepsKeepCalls ==
    ASSUME StorageInv, LayoutInv, RequestInv, CallInv, LifeInv, RunStep
    PROVE  CallInv'
  <1>0. call \in [Callers -> [step : Steps, chunk : Chunks]]
    BY DEF StorageInv, StorageTypeOK
  <1>1. ASSUME stage' = "failed" PROVE CallInv'
    BY <1>1 DEF CallInv
  <1>2. ASSUME UNCHANGED <<call, job, nodes, level, stage, retiring>> PROVE CallInv'
    BY <1>2 DEF CallInv, WorkerCall, MainCall, At, Id
  <1>3. ASSUME \A w \in Workers : job[w] = 0, UNCHANGED <<call, job>>, stage # "failed", At(Main, "idle")
        PROVE  CallInv'
    BY <1>3 DEF CallInv, WorkerCall, MainCall, At
  <1>4. ASSUME UNCHANGED <<call, job, nodes, level, retiring>>,
               \/ stage \in SpillStages /\ stage' \in SpillStages
               \/ stage \in LoadStages /\ stage' \in LoadStages
        PROVE  CallInv'
    BY <1>4 DEF CallInv, WorkerCall, MainCall, At, Id, SpillStages, LoadStages
  <1>5. CASE \/ Submit \/ Request \/ Restore \/ ChunkDamaged \/ Ended \/ UNCHANGED vars
    BY <1>2, <1>5 DEF Submit, Request, Restore, Enqueues, ChunkDamaged, Corrupt, Ended, mergeVars, ioVars,
       storageVars, vars
  <1>6. CASE SpillFails \/ RestoreFails
    BY <1>1, <1>6 DEF SpillFails, RestoreFails, RunFails, Goto
  <1>7. CASE Submitted \/ SpillWaits \/ Requested
    BY <1>4, <1>7 DEF Submitted, SpillWaits, Requested, Goto, SpillStages, LoadStages, storageVars, ioVars
  <1>8. CASE Observed \/ Plan \/ Spilled \/ Restored \/ Merge
    <2>1. stage # "failed" /\ UNCHANGED <<call, job>>
      BY <1>8 DEF Observed, Plan, Spilled, Restored, Merge, storageVars, ioVars
    <2>2. pending = <<>>
      BY <1>8 DEF Observed, Plan, Spilled, Restored, Merge, LifeInv, LifeStages, LifeTypes
    <2>3. At(Main, "idle")
      BY <1>8 DEF Observed, Plan, Spilled, Restored, Merge, CallInv, MainCall
    <2> QED  BY <1>3, <2>1, <2>2, <2>3, NothingRequested
  <1>9. CASE RetireBegins \/ RetireSkips \/ RetireEnds
    <2>1. stage = "retire" /\ UNCHANGED <<job, nodes, level>>
      BY <1>9 DEF RetireBegins, RetireSkips, RetireEnds, mergeVars, ioVars
    <2>2. /\ \A a \in Callers : a # Main => call'[a] = call[a]
          /\ call'[Main].step \in {"idle", "unpublish", "refused", "failed"}
          /\ call'[Main].step # "idle" => retiring' # <<>>
      <3>1. CASE RetireBegins
        BY <1>0, <3>1, CallersAre DEF RetireBegins, RemoveBegins, RemoveFails, mergeVars
      <3>2. CASE RetireSkips
        BY <3>2 DEF RetireSkips, storageVars, At
      <3>3. CASE RetireEnds
        BY <1>0, <3>3, CallersAre, IdleIsACall DEF RetireEnds, Returns
      <3> QED  BY <1>9, <3>1, <3>2, <3>3
    <2>3. \A w \in Workers : job[w] = 0
      BY <2>1, QuietStages DEF SpillStages, LoadStages
    <2>4. stage' \in {"retire", "failed"}
      BY <1>9, <2>1 DEF RetireBegins, RetireSkips, RetireEnds, mergeVars, RunFails, Goto
    <2> QED  BY <2>1, <2>2, <2>3, <2>4, CallersAre DEF CallInv, WorkerCall, MainCall, At
  <1>10. ASSUME NEW k \in Callers, ManagerStep(k) PROVE CallInv'
    <2>1. /\ \A a \in Callers : a # k => call'[a] = call[a]
          /\ call'[k].chunk = call[k].chunk
          /\ \/ call[k].step = "write" /\ call'[k].step \in {"publish", "undo"}
             \/ call[k].step = "publish" /\ call'[k].step \in {"stored", "undo"}
             \/ call[k].step = "undo" /\ call'[k].step = "failed"
             \/ call[k].step = "read" /\ call'[k].step \in {"missing", "failed", "loaded"}
             \/ call[k].step = "unpublish" /\ call'[k].step \in {"removed", "failed"}
      BY <1>10, StepMoves DEF ManagerStep
    <2>2. stage # "failed" /\ UNCHANGED <<job, nodes, level, stage, retiring>>
      BY <1>10 DEF ManagerStep, mergeVars, ioVars
    <2>3. MainCall /\ \A w \in Workers : WorkerCall(w)
      BY <2>2 DEF CallInv
    <2>4. CASE k = Main
      <3>1. \A w \in Workers : WorkerCall(w)'
        BY <2>1, <2>2, <2>3, <2>4, CallersAre DEF WorkerCall, At, Id
      <3>2. MainCall'
        BY <2>1, <2>2, <2>3, <2>4 DEF MainCall, At
      <3> QED  BY <3>1, <3>2 DEF CallInv
    <2>5. CASE k \in Workers
      <3>1. MainCall'
        BY <2>1, <2>2, <2>3, <2>5, CallersAre DEF MainCall, At
      <3>2. ASSUME NEW w \in Workers, w # k PROVE WorkerCall(w)'
        BY <2>1, <2>2, <2>3, <3>2, CallersAre DEF WorkerCall, At, Id
      <3>3. job[k] # 0
        BY <2>1, <2>3, <2>5 DEF WorkerCall, At
      <3>4. WorkerCall(k)'
        BY <2>1, <2>2, <2>3, <2>5, <3>3 DEF WorkerCall, At, Id
      <3> QED  BY <3>1, <3>2, <3>4 DEF CallInv
    <2> QED  BY <2>4, <2>5, CallersAre
  <1>11. ASSUME NEW w \in Workers, Worker(w) PROVE CallInv'
    <2>1. stage # "failed" /\ UNCHANGED <<nodes, level, stage, retiring>>
      BY <1>11 DEF Worker, WorkerBegins, WorkerEnds, mergeVars
    <2>2. MainCall /\ \A v \in Workers : WorkerCall(v)
      BY <2>1 DEF CallInv
    <2>3. ASSUME \A a \in Callers : a # w => call'[a] = call[a], \A v \in Workers : v # w => job'[v] = job[v],
                 WorkerCall(w)'
          PROVE  CallInv'
      <3>1. MainCall'
        BY <2>1, <2>2, <2>3, CallersAre DEF MainCall, At
      <3>2. ASSUME NEW v \in Workers, v # w PROVE WorkerCall(v)'
        BY <2>1, <2>2, <2>3, <3>2, CallersAre DEF WorkerCall, At, Id
      <3> QED  BY <2>3, <3>1, <3>2 DEF CallInv
    <2>4. w \in Callers /\ job \in [Workers -> Nodes \cup {0}]
      BY CallersAre DEF RequestInv
    <2>5. CASE WorkerBegins(w)
      <3> DEFINE h == Head(queue)
      <3>1. /\ queue # <<>> /\ job' = [job EXCEPT ![w] = h]
            /\ IF life[h] = "spilling" THEN StoreBegins(w, Id(h)) ELSE LoadBegins(w, Id(h))
        BY <2>5 DEF WorkerBegins
      <3>2. h \in Ran(queue) /\ h \in Nodes /\ h \in Ran(pending)
        BY <3>1, TailOf DEF RequestInv
      <3> HIDE DEF h
      <3>3. h # 0 /\ \/ stage \in SpillStages /\ stage \notin LoadStages /\ life[h] = "spilling"
                     \/ stage \in LoadStages /\ stage \notin SpillStages /\ life[h] = "loading"
        BY <2>1, <3>2, PendingLife, LayoutFields
      <3>4. \A a \in Callers : a # w => call'[a] = call[a]
        BY <1>0, <3>1 DEF StoreBegins, LoadBegins
      <3>5. call'[w].chunk = Id(h)
        BY <1>0, <2>4, <3>1 DEF StoreBegins, LoadBegins
      <3>6. stage \in SpillStages => call'[w].step \in {"write", "failed"}
        BY <1>0, <2>4, <3>1, <3>3 DEF StoreBegins
      <3>7. stage \in LoadStages => call'[w].step \in {"read", "missing"}
        BY <1>0, <2>4, <3>1, <3>3 DEF LoadBegins
      <3>8. job'[w] = h /\ \A v \in Workers : v # w => job'[v] = job[v]
        BY <2>4, <3>1
      <3>9. WorkerCall(w)'
        BY <2>1, <3>3, <3>5, <3>6, <3>7, <3>8 DEF WorkerCall, Id
      <3> QED  BY <2>3, <3>4, <3>8, <3>9
    <2>6. CASE WorkerEnds(w)
      <3>1. call' = [call EXCEPT ![w] = Idle] /\ job' = [job EXCEPT ![w] = 0]
        BY <2>6 DEF WorkerEnds, Returns
      <3>2. WorkerCall(w)'
        BY <1>0, <2>4, <3>1, IdleIsACall DEF WorkerCall, At
      <3> QED  BY <1>0, <2>3, <2>4, <3>1, <3>2
    <2> QED  BY <1>11, <2>5, <2>6 DEF Worker
  <1> QED  BY <1>5, <1>6, <1>7, <1>8, <1>9, <1>10, <1>11 DEF RunStep, MainStep
-----------------------------------------------------------------------------
(* The lifecycles.                                                         *)

LEMMA LifeOf ==
    ASSUME LayoutInv, RequestInv, LifeInv, NEW h \in Nodes, NEW state \in Lives, life' = [life EXCEPT ![h] = state],
           nodes' = nodes,
           \/ values' = values /\ (life[h] \in {"resident", "spilling"} <=> state \in {"resident", "spilling"})
           \/ \E b \in BOOLEAN : values' = [values EXCEPT ![h] = b] /\ (b <=> state \in {"resident", "spilling"})
    PROVE  LifeTypes' /\ life'[h] = state /\ \A i \in Nodes : i # h => life'[i] = life[i]
  <1>1. /\ values \in [Nodes -> BOOLEAN] /\ life \in [Nodes -> Lives]
        /\ \A i \in Nodes : values[i] <=> life[i] \in {"resident", "spilling"}
    BY DEF LifeInv, LifeTypes
  <1>2. /\ life' \in [Nodes -> Lives] /\ life'[h] = state /\ \A i \in Nodes : i # h => life'[i] = life[i]
    BY <1>1
  <1>3. ASSUME NEW b \in BOOLEAN, values' = [values EXCEPT ![h] = b]
        PROVE  values' \in [Nodes -> BOOLEAN] /\ values'[h] = b /\ \A i \in Nodes : i # h => values'[i] = values[i]
    BY <1>1, <1>3, Zenon
  <1>4. values' \in [Nodes -> BOOLEAN]
    BY <1>1, <1>3, Zenon
  <1>5. values'[h] <=> state \in {"resident", "spilling"}
    BY <1>1, <1>3, Zenon
  <1>6. \A i \in Nodes : i # h => values'[i] = values[i]
    BY <1>1, <1>3, Zenon
  <1>7. \A i \in Nodes : values'[i] <=> life'[i] \in {"resident", "spilling"}
    BY <1>1, <1>2, <1>5, <1>6, Zenon
  <1> QED  BY <1>2, <1>4, <1>7 DEF LifeTypes, Nodes

LEMMA StepsKeepLife ==
    ASSUME LayoutInv, RequestInv, LifeInv, RunStep
    PROVE  LifeInv'
  <1>0. /\ plan \in Seq(Nodes) /\ pending \in Seq(Nodes) /\ Distinct(plan) /\ Distinct(pending)
        /\ life \in [Nodes -> Lives] /\ Ran(plan) \cap Ran(pending) = {}
    BY DEF RequestInv, LifeInv, LifeTypes
  <1>1. ASSUME UNCHANGED <<values, life, nodes>>, LifeStages' PROVE LifeInv'
    BY <1>1 DEF LifeInv, LifeTypes, Nodes
  <1>2. ASSUME UNCHANGED <<values, life, nodes, plan, pending, stage>> PROVE LifeInv'
    BY <1>1, <1>2 DEF LifeInv, LifeStages, Nodes
  <1>3. ASSUME stage' = "failed" PROVE LifeStages'
    BY <1>3 DEF LifeStages, SpillStages, LoadStages
  <1>4. CASE RetireBegins \/ RetireSkips \/ ChunkDamaged \/ Ended \/ UNCHANGED vars
    BY <1>2, <1>4 DEF RetireBegins, RetireSkips, ChunkDamaged, Ended, mergeVars, ioVars, vars
  <1>5. ASSUME NEW k \in Callers, ManagerStep(k) PROVE LifeInv'
    BY <1>2, <1>5 DEF ManagerStep, mergeVars, ioVars
  <1>6. ASSUME NEW w \in Workers, Worker(w) PROVE LifeInv'
    BY <1>2, <1>6 DEF Worker, WorkerBegins, WorkerEnds, mergeVars
  <1>7. CASE RetireEnds \/ SpillFails
    <2>1. UNCHANGED <<values, life, nodes, plan, pending>> /\ stage' \in {stage, "failed"}
      BY <1>7 DEF RetireEnds, SpillFails, RunFails, Goto, ioVars
    <2> QED  BY <1>1, <1>2, <1>3, <2>1
  <1>8. CASE Observed
    <2>1. UNCHANGED <<values, life, nodes, plan, pending>> /\ stage' \in {"done", "plan"} /\ stage = "retire"
      BY <1>8 DEF Observed, Goto, ioVars
    <2>2. LifeStages'
      BY <2>1 DEF LifeInv, LifeStages, Nodes, SpillStages, LoadStages
    <2> QED  BY <1>1, <2>1, <2>2
  <1>9. CASE Plan
    <2>1. UNCHANGED <<values, life, nodes, pending>> /\ stage' = "submit" /\ stage = "plan"
      BY <1>9 DEF Plan, Goto, ioVars
    <2>2. pending = <<>> /\ Ran(pending) = {} /\ \A i \in Nodes : life[i] = "resident"
      BY <2>1, EmptyOf DEF LifeInv, LifeStages
    <2>3. LifeStages'
      BY <2>1, <2>2 DEF LifeStages, SpillStages, LoadStages, Nodes
    <2> QED  BY <1>1, <2>1, <2>3
  <1>10. CASE Submit \/ Request
    <2> DEFINE h == Head(plan)
    <2>1. /\ plan # <<>> /\ pending' = Append(pending, h) /\ plan' = Tail(plan) /\ UNCHANGED <<nodes, values, stage>>
          /\ \/ stage = "submit" /\ life' = [life EXCEPT ![h] = "spilling"]
             \/ stage = "request" /\ life' = [life EXCEPT ![h] = "loading"]
      BY <1>10 DEF Submit, Request, Enqueues
    <2>2. h \in Nodes /\ Ran(plan) = Ran(Tail(plan)) \cup {h} /\ h \notin Ran(Tail(plan))
      BY <1>0, <2>1, TailOf
    <2> HIDE DEF h
    <2>3. Ran(pending') = Ran(pending) \cup {h}
      BY <1>0, <2>1, <2>2, AppendOf
    <2>4. CASE stage = "submit"
      <3>1. life[h] = "resident" /\ life' = [life EXCEPT ![h] = "spilling"]
        BY <2>1, <2>2, <2>4 DEF LifeInv, LifeStages, SpillStages
      <3>2. LifeTypes' /\ life'[h] = "spilling" /\ \A i \in Nodes : i # h => life'[i] = life[i]
        BY <2>1, <2>2, <3>1, LifeOf DEF Lives
      <3>3. \A i \in Nodes : /\ life'[i] \in {"resident", "spilling", "stored"}
                             /\ life'[i] = "spilling" <=> i \in Ran(pending')
                             /\ i \in Ran(plan') => life'[i] = "resident"
        BY <2>1, <2>2, <2>3, <2>4, <3>2 DEF LifeInv, LifeStages, SpillStages
      <3>4. LifeStages'
        BY <2>1, <2>4, <3>3 DEF LifeStages, SpillStages, LoadStages, Nodes
      <3> QED  BY <3>2, <3>4 DEF LifeInv
    <2>5. CASE stage = "request"
      <3>1. life[h] = "stored" /\ life' = [life EXCEPT ![h] = "loading"]
        BY <2>1, <2>2, <2>5 DEF LifeInv, LifeStages, LoadStages
      <3>2. LifeTypes' /\ life'[h] = "loading" /\ \A i \in Nodes : i # h => life'[i] = life[i]
        BY <2>1, <2>2, <3>1, LifeOf DEF Lives
      <3>3. \A i \in Nodes : /\ life'[i] \in {"resident", "stored", "loading"}
                             /\ life'[i] = "loading" <=> i \in Ran(pending')
                             /\ life'[i] = "stored" <=> i \in Ran(plan')
        BY <2>1, <2>2, <2>3, <2>5, <3>2 DEF LifeInv, LifeStages, LoadStages
      <3>4. LifeStages'
        BY <2>1, <2>5, <3>3 DEF LifeStages, SpillStages, LoadStages, Nodes
      <3> QED  BY <3>2, <3>4 DEF LifeInv
    <2> QED  BY <2>1, <2>4, <2>5
  <1>11. CASE Submitted \/ Requested
    <2>1. /\ UNCHANGED <<values, life, nodes, plan, pending>> /\ plan = <<>>
          /\ \/ stage = "submit" /\ stage' = "drain"
             \/ stage = "request" /\ stage' = "restore"
      BY <1>11 DEF Submitted, Requested, Goto, ioVars
    <2>2. LifeStages'
      BY <2>1 DEF LifeInv, LifeStages, SpillStages, LoadStages, Nodes
    <2> QED  BY <1>1, <2>1, <2>2
  <1>12. CASE SpillWaits
    <2> DEFINE h == Head(pending)
               state == IF outcome[h] = "ok" THEN "stored" ELSE "resident"
    <2>1. /\ stage \in {"drain", "unwind"} /\ stage' \in {"drain", "unwind"} /\ pending # <<>>
          /\ pending' = Tail(pending) /\ UNCHANGED <<nodes, plan>>
          /\ life' = [life EXCEPT ![h] = state]
          /\ values' = [values EXCEPT ![h] = outcome[h] # "ok"]
      BY <1>12 DEF SpillWaits, FinishSpill, Goto
    <2>2. h \in Nodes /\ Ran(pending) = Ran(Tail(pending)) \cup {h} /\ h \notin Ran(Tail(pending))
      BY <1>0, <2>1, TailOf
    <2>3. state \in {"stored", "resident"} /\ ((outcome[h] # "ok") <=> state \in {"resident", "spilling"})
      OBVIOUS
    <2> HIDE DEF h, state
    <2>4. LifeTypes' /\ life'[h] = state /\ \A i \in Nodes : i # h => life'[i] = life[i]
      <3>1. state \in Lives
        BY <2>3 DEF Lives
      <3> QED  BY <2>1, <2>2, <2>3, <3>1, LifeOf
    <2>5. plan = <<>> /\ Ran(plan) = {}
      BY <2>1, EmptyOf DEF LifeInv, LifeStages
    <2>6. \A i \in Nodes : /\ life'[i] \in {"resident", "spilling", "stored"}
                           /\ life'[i] = "spilling" <=> i \in Ran(pending')
      BY <2>1, <2>2, <2>3, <2>4 DEF LifeInv, LifeStages, SpillStages
    <2>7. LifeStages'
      BY <2>1, <2>5, <2>6 DEF LifeStages, SpillStages, LoadStages, Nodes
    <2> QED  BY <2>4, <2>7 DEF LifeInv
  <1>13. CASE Spilled
    <2>1. /\ stage = "drain" /\ stage' = "request" /\ pending = <<>> /\ plan' \in Sorted(ToLoad, <=)
          /\ UNCHANGED <<values, life, nodes, pending>>
      BY <1>13 DEF Spilled, Goto, ioVars
    <2>2. Ran(plan') = ToLoad
      <3>1. ToLoad \in SUBSET Nodes
        BY DEF ToLoad
      <3> QED  BY <2>1, <3>1, SortedNodes
    <2>3. stage = "drain" /\ stage' = "request" /\ UNCHANGED <<values, life, nodes, pending>>
      BY <2>1
    <2>4. Ran(pending) = {}
      BY <2>1, EmptyOf
    <2>5. LifeStages'
      BY <2>2, <2>3, <2>4 DEF LifeInv, LifeStages, ToLoad, SpillStages, LoadStages, Nodes
    <2> QED  BY <1>1, <2>3, <2>5
  <1>14. CASE Restore
    <2> DEFINE h == Head(pending)
    <2>1. /\ stage = "restore" /\ stage' = stage /\ pending # <<>>
          /\ pending' = Tail(pending) /\ UNCHANGED <<nodes, plan>>
          /\ life' = [life EXCEPT ![h] = "resident"] /\ values' = [values EXCEPT ![h] = TRUE]
      BY <1>14 DEF Restore
    <2>2. h \in Nodes /\ Ran(pending) = Ran(Tail(pending)) \cup {h} /\ h \notin Ran(Tail(pending))
      BY <1>0, <2>1, TailOf
    <2> HIDE DEF h
    <2>3. LifeTypes' /\ life'[h] = "resident" /\ \A i \in Nodes : i # h => life'[i] = life[i]
      BY <2>1, <2>2, LifeOf DEF Lives
    <2>4. life[h] = "loading"
      BY <2>1, <2>2 DEF LifeInv, LifeStages, LoadStages
    <2>5. \A i \in Nodes : /\ life'[i] \in {"resident", "stored", "loading"}
                           /\ life'[i] = "loading" <=> i \in Ran(pending')
                           /\ life'[i] = "stored" <=> i \in Ran(plan)
      BY <2>1, <2>2, <2>3, <2>4 DEF LifeInv, LifeStages, LoadStages
    <2>6. LifeStages'
      BY <2>1, <2>5 DEF LifeInv, LifeStages, SpillStages, LoadStages, Nodes
    <2> QED  BY <2>3, <2>6 DEF LifeInv
  <1>15. CASE RestoreFails
    <2>1. /\ stage' = "failed" /\ UNCHANGED <<values, nodes>>
          /\ life' \in [Nodes -> Lives]
          /\ \A i \in Nodes : IF life[i] # "loading" THEN life'[i] = life[i] ELSE life'[i] \in {"removed", "corrupted"}
      BY <1>0, <1>15 DEF RestoreFails, RunFails, Goto, Lives
    <2>2. \A i \in Nodes : life[i] \in {"resident", "spilling"} <=> life'[i] \in {"resident", "spilling"}
      BY <2>1
    <2>3. LifeTypes'
      BY <2>1, <2>2, Zenon DEF LifeInv, LifeTypes, Nodes
    <2> QED  BY <1>3, <2>1, <2>3 DEF LifeInv
  <1>16. CASE Restored
    <2>1. stage = "restore" /\ stage' = "merge" /\ pending = <<>> /\ UNCHANGED <<values, life, nodes, plan, pending>>
      BY <1>16 DEF Restored, Goto, ioVars
    <2>2. plan = <<>> /\ Ran(plan) = {} /\ Ran(pending) = {}
      BY <2>1, EmptyOf DEF LifeInv, LifeStages
    <2>3. LifeStages'
      BY <2>1, <2>2 DEF LifeInv, LifeStages, SpillStages, LoadStages, Nodes
    <2> QED  BY <1>1, <2>1, <2>3
  <1>17. CASE Merge
    <2>1. /\ stage = "merge" /\ stage' = "retire" /\ UNCHANGED <<plan, pending>> /\ nodes' = Merged
          /\ values' = [i \in DOMAIN Merged |-> TRUE] /\ life' = [i \in DOMAIN Merged |-> "resident"]
      BY <1>17 DEF Merge, Goto
    <2>2. LifeStages'
      BY <2>1 DEF LifeInv, LifeStages, SpillStages, LoadStages, Nodes
    <2>3. LifeTypes'
      BY <2>1 DEF LifeTypes, Lives, Nodes
    <2> QED  BY <2>2, <2>3 DEF LifeInv
  <1> QED  BY <1>4, <1>5, <1>6, <1>7, <1>8, <1>9, <1>10, <1>11, <1>12, <1>13, <1>14, <1>15, <1>16, <1>17
           DEF RunStep, MainStep
-----------------------------------------------------------------------------
(* The values.                                                             *)

LEMMA QuietKept ==
    LayoutInv /\ RequestInv /\ CallInv /\ LifeInv /\ stage \notin SpillStages \cup LoadStages => KeptInv
  <1> SUFFICES ASSUME LayoutInv, RequestInv, CallInv, LifeInv, stage \notin SpillStages \cup LoadStages, stage # "failed"
               PROVE  KeptInv
    BY DEF KeptInv
  <1>1. /\ \A w \in Workers : job[w] = 0
        /\ \A i \in Nodes : life[i] = "resident"
    BY QuietStages
  <1>2. \A w \in Workers : At(w, "idle")
    BY <1>1 DEF CallInv, WorkerCall
  <1> QED  BY <1>1, <1>2 DEF KeptInv, At

LEMMA StepsKeepValues ==
    ASSUME StorageInv, LayoutInv, RequestInv, CallInv, LifeInv, KeptInv, RunStep,
           (LayoutInv /\ RequestInv /\ CallInv /\ LifeInv)'
    PROVE  KeptInv'
  <1>1. CASE stage' \notin SpillStages \cup LoadStages
    <2>1. (SpillStages \cup LoadStages)' = SpillStages \cup LoadStages
      BY DEF SpillStages, LoadStages
    <2>2. (LayoutInv /\ RequestInv /\ CallInv /\ LifeInv /\ stage \notin SpillStages \cup LoadStages)' => KeptInv'
      BY QuietKept, PTL
    <2> QED  BY <1>1, <2>1, <2>2
  <1>2. CASE stage' \in SpillStages \cup LoadStages
    <2>1. call \in [Callers -> [step : Steps, chunk : Chunks]] /\ \A i \in Nodes : Id(i) \in Chunks
      BY LayoutFields DEF StorageInv, StorageTypeOK
    <2>2. ASSUME stage # "failed", UNCHANGED <<nodes, level>>,
                 \A c \in Chunks : ContainsChunk(c) => ContainsChunk(c)',
                 \A i \in Nodes : life'[i] \in {"stored", "loading"} =>
                     \/ life[i] \in {"stored", "loading"} \/ (life[i] = "spilling" /\ outcome[i] = "ok"),
                 \A i \in Nodes : life'[i] = "spilling" /\ outcome'[i] = "ok" =>
                     (life[i] = "spilling" /\ outcome[i] = "ok") \/ ContainsChunk(Id(i)),
                 \A w \in Workers : call'[w].step = "stored" =>
                     call'[w] = call[w] \/ ContainsChunk(call[w].chunk)'
          PROVE  KeptInv'
      <3>1. \A i \in Nodes : Id(i)' = Id(i)
        BY <2>2 DEF Id
      <3>2. /\ \A i \in Nodes : life[i] \in {"stored", "loading"} => ContainsChunk(Id(i))
            /\ \A i \in Nodes : life[i] = "spilling" /\ outcome[i] = "ok" => ContainsChunk(Id(i))
            /\ \A w \in Workers : call[w].step = "stored" => ContainsChunk(call[w].chunk)
        BY <2>2 DEF KeptInv, At
      <3>3. \A i \in Nodes : life'[i] \in {"stored", "loading"} => ContainsChunk(Id(i))'
        BY <2>1, <2>2, <3>1, <3>2
      <3>4. \A i \in Nodes : life'[i] = "spilling" /\ outcome'[i] = "ok" => ContainsChunk(Id(i))'
        BY <2>1, <2>2, <3>1, <3>2
      <3>5. \A w \in Workers : call'[w].step = "stored" => ContainsChunk(call[w].chunk)'
        BY <2>1, <2>2, <3>2, CallersAre
      <3>6. Nodes' = Nodes
        BY <2>2 DEF Nodes
      <3> QED  BY <3>3, <3>4, <3>5, <3>6 DEF KeptInv, At
    <2>3. ASSUME UNCHANGED <<index, files>> PROVE \A c \in Chunks : ContainsChunk(c) => ContainsChunk(c)'
      BY <2>3 DEF ContainsChunk
    <2>4. stage' \notin {"retire", "plan", "merge", "done", "failed"}
      BY <1>2 DEF SpillStages, LoadStages
    <2>5. CASE Plan \/ Submitted \/ Spilled \/ Requested \/ Ended \/ UNCHANGED vars
      <3>1. UNCHANGED <<index, files, nodes, level, life, outcome, call>> /\ stage # "failed"
        BY <2>4, <2>5 DEF Plan, Submitted, Spilled, Requested, Ended, storageVars, store, ioVars, mergeVars, vars
      <3> QED  BY <2>2, <2>3, <3>1
    <2>6. CASE Submit \/ Request
      <3> DEFINE h == Head(plan)
      <3>1. /\ plan # <<>> /\ outcome' = [outcome EXCEPT ![h] = "none"] /\ stage' = stage
            /\ UNCHANGED <<index, files, nodes, level, call>>
            /\ \/ stage = "submit" /\ life' = [life EXCEPT ![h] = "spilling"]
               \/ stage = "request" /\ life' = [life EXCEPT ![h] = "loading"]
        BY <2>6 DEF Submit, Request, Enqueues, storageVars, store
      <3>2. h \in Nodes /\ h \in Ran(plan)
        BY <3>1, TailOf DEF RequestInv
      <3> HIDE DEF h
      <3>3. stage = "request" => life[h] = "stored"
        BY <3>2 DEF LifeInv, LifeStages, LoadStages
      <3>4. life \in [Nodes -> Lives] /\ outcome \in [Nodes -> {"none", "ok", "error"}]
        BY DEF LifeInv, LifeTypes, RequestInv
      <3> QED  BY <2>2, <2>3, <3>1, <3>2, <3>3, <3>4
    <2>7. CASE SpillWaits \/ Restore
      <3> DEFINE h == Head(pending)
      <3>1. /\ pending # <<>> /\ stage \in SpillStages \cup LoadStages /\ stage # "failed"
            /\ UNCHANGED <<index, files, nodes, level, call, outcome>>
            /\ \/ life' = [life EXCEPT ![h] = IF outcome[h] = "ok" THEN "stored" ELSE "resident"] /\ stage \in SpillStages
               \/ life' = [life EXCEPT ![h] = "resident"]
        BY <2>7 DEF SpillWaits, Restore, FinishSpill, storageVars, store, SpillStages, LoadStages
      <3>2. h \in Nodes /\ h \in Ran(pending)
        BY <3>1, TailOf DEF RequestInv
      <3> HIDE DEF h
      <3>3. stage \in SpillStages => life[h] = "spilling"
        BY <3>1, <3>2, PendingLife
      <3>4. life \in [Nodes -> Lives] /\ outcome \in [Nodes -> {"none", "ok", "error"}]
        BY DEF LifeInv, LifeTypes, RequestInv
      <3> QED  BY <2>2, <2>3, <3>1, <3>2, <3>3, <3>4
    <2>8. CASE ChunkDamaged
      <3>1. UNCHANGED <<nodes, level, life, outcome, call, stage>> /\ Running
        BY <2>8 DEF ChunkDamaged, Corrupt, mergeVars, ioVars
      <3>2. \A c \in Chunks : ContainsChunk(c) => ContainsChunk(c)'
        BY <2>8 DEF ChunkDamaged, Corrupt, ContainsChunk, StorageInv, StorageTypeOK
      <3> QED  BY <2>2, <3>1, <3>2 DEF Running
    <2>9. ASSUME NEW k \in Callers, ManagerStep(k) PROVE KeptInv'
      <3>1. UNCHANGED <<nodes, level, life, outcome, stage>> /\ stage # "failed" /\ StorageStep(k)
        BY <2>9 DEF ManagerStep, mergeVars, ioVars
      <3>2. stage \notin {"retire"} /\ stage \in SpillStages \cup LoadStages
        BY <1>2, <2>4, <3>1
      <3>3. /\ \A a \in Callers : a # k => call'[a] = call[a]
            /\ call'[k].chunk = call[k].chunk
            /\ call[k].step \in {"write", "publish", "undo", "read", "unpublish"}
        BY <3>1, StepMoves
      <3>4. k \in Workers /\ ~At(k, "unpublish")
        <4>1. k # Main
          BY <3>1, <3>2, <3>3 DEF CallInv, MainCall, At
        <4>2. WorkerCall(k)
          BY <3>1, <4>1, CallersAre DEF CallInv
        <4> QED  BY <3>2, <3>3, <4>1, <4>2, CallersAre DEF WorkerCall, At
      <3>5. \A c \in Chunks : ContainsChunk(c) => ContainsChunk(c)'
        BY <3>1, <3>4, StepsKeepChunks
      <3>6. call'[k].step = "stored" => ContainsChunk(call[k].chunk)'
        <4>1. call'[k].step = "stored" => Publish(k)
          <5>1. ASSUME NEW step, Now(k, step) PROVE call'[k].step = step
            BY <2>1, <5>1 DEF Now
          <5>2. LoadReads(k) => call'[k].step \in {"missing", "failed", "loaded"}
            BY StepMoves, <3>1 DEF LoadReads, At
          <5> QED  BY <3>1, <5>1, <5>2 DEF StorageStep, WriteFile, WriteFails, PublishRefused, PublishFails, Undo,
                Unpublish, UnpublishFails
        <4>2. ASSUME Publish(k) PROVE ContainsChunk(call[k].chunk)'
          BY <3>3, <4>2 DEF Publish, ContainsChunk, StorageInv, StoresArePrivate
        <4> QED  BY <4>1, <4>2
      <3> QED  BY <2>2, <3>1, <3>3, <3>5, <3>6, CallersAre
    <2>10. ASSUME NEW w \in Workers, Worker(w) PROVE KeptInv'
      <3>1. UNCHANGED <<nodes, level, life, index, files, stage>> /\ stage # "failed"
        BY <2>10 DEF Worker, WorkerBegins, WorkerEnds, StoreBegins, LoadBegins, Returns, mergeVars, store
      <3>2. /\ \A v \in Workers : v # w => call'[v] = call[v]
            /\ call'[w].step # "stored"
        BY <2>1, <2>10, CallersAre, IdleIsACall DEF Worker, WorkerBegins, WorkerEnds, StoreBegins, LoadBegins, Returns
      <3>3. CASE WorkerBegins(w)
        BY <2>2, <2>3, <3>1, <3>2, <3>3 DEF WorkerBegins
      <3>4. CASE WorkerEnds(w)
        <4>1. job[w] # 0 /\ outcome' = [outcome EXCEPT ![job[w]] = Settles(call[w].step)]
          BY <3>4 DEF WorkerEnds
        <4>2. job[w] \in Ran(pending) /\ job[w] \in Nodes /\ outcome \in [Nodes -> {"none", "ok", "error"}]
          BY <4>1 DEF RequestInv
        <4>3. \/ stage \in SpillStages /\ stage \notin LoadStages /\ life[job[w]] = "spilling"
              \/ stage \in LoadStages /\ stage \notin SpillStages /\ life[job[w]] = "loading"
          BY <3>1, <4>2, PendingLife
        <4>4. WorkerCall(w) /\ (call[w].step = "stored" => ContainsChunk(call[w].chunk))
          BY <3>1 DEF CallInv, KeptInv, At
        <4>5. life[job[w]] = "spilling" /\ outcome'[job[w]] = "ok" => ContainsChunk(Id(job[w]))
          BY <4>1, <4>2, <4>3, <4>4 DEF WorkerCall, Settles
        <4>6. \A i \in Nodes : life'[i] = "spilling" /\ outcome'[i] = "ok" =>
                     (life[i] = "spilling" /\ outcome[i] = "ok") \/ ContainsChunk(Id(i))
          BY <3>1, <4>1, <4>2, <4>5
        <4> QED  BY <2>2, <2>3, <3>1, <3>2, <4>6
      <3> QED  BY <2>10, <3>3, <3>4 DEF Worker
    <2> QED  BY <2>4, <2>5, <2>6, <2>7, <2>8, <2>9, <2>10 DEF RunStep, MainStep, RetireBegins, RetireSkips, RetireEnds,
             Observed, SpillFails, RestoreFails, Restored, Merge, RunFails, Goto, mergeVars
  <1> QED  BY <1>1, <1>2
-----------------------------------------------------------------------------
(* The budget.                                                             *)

LEMMA StepsKeepBudget ==
    ASSUME LayoutInv, RequestInv, LifeInv, BudgetInv, RunStep
    PROVE  BudgetInv'
  <1>0. /\ plan \in Seq(Nodes) /\ pending \in Seq(Nodes) /\ life \in [Nodes -> Lives]
    BY DEF RequestInv, LifeInv, LifeTypes
  <1>1. ASSUME stage' \notin {"submit", "drain", "request"} PROVE BudgetInv'
    BY <1>1 DEF BudgetInv
  <1>2. ASSUME UNCHANGED <<stage, nodes, values, life, plan, pending>> PROVE BudgetInv'
    BY <1>2 DEF BudgetInv, Stored, BytesOf, Nodes
  <1>3. ASSUME NEW S, nodes' = nodes PROVE BytesOf(S)' = BytesOf(S) /\ Nodes' = Nodes
    BY <1>3 DEF BytesOf, Nodes
  <1>4. CASE \/ Observed \/ SpillFails \/ Requested \/ Restore \/ RestoreFails \/ Restored \/ Merge
             \/ RetireBegins \/ RetireSkips \/ RetireEnds
    BY <1>1, <1>4 DEF Observed, SpillFails, Requested, Restore, RestoreFails, Restored, Merge, RetireBegins,
       RetireSkips, RetireEnds, mergeVars, RunFails, Goto
  <1>5. CASE ChunkDamaged \/ Ended \/ UNCHANGED vars
    BY <1>2, <1>5 DEF ChunkDamaged, Ended, mergeVars, ioVars, vars
  <1>6. ASSUME NEW k \in Callers, ManagerStep(k) PROVE BudgetInv'
    BY <1>2, <1>6 DEF ManagerStep, mergeVars, ioVars
  <1>7. ASSUME NEW w \in Workers, Worker(w) PROVE BudgetInv'
    BY <1>2, <1>7 DEF Worker, WorkerBegins, WorkerEnds, mergeVars
  <1>8. ASSUME stage \in {"submit", "drain"}, stage' \in {"submit", "drain"}, nodes' = nodes,
               Ran(plan') \cup Ran(pending') \cup Stored' = Ran(plan) \cup Ran(pending) \cup Stored
        PROVE  BudgetInv'
    <2>1. (Nodes \ (Ran(plan) \cup Ran(pending) \cup Stored))' = Nodes \ (Ran(plan) \cup Ran(pending) \cup Stored)
      BY <1>8 DEF Nodes
    <2> QED  BY <1>3, <1>8, <2>1 DEF BudgetInv
  <1>9. CASE Plan
    <2>1. /\ stage = "plan" /\ stage' = "submit" /\ UNCHANGED <<nodes, pending, life>>
          /\ \/ BytesOf(Resident) <= Budget /\ plan' = <<>>
             \/ ~(BytesOf(Resident) <= Budget) /\ plan' \in Sorted(Evicted(BytesOf(Resident) - Budget), Before)
      BY <1>9 DEF Plan, Goto, ioVars
    <2>2. pending = <<>> /\ Ran(pending) = {} /\ Resident = Nodes /\ Stored = {}
      BY <2>1, EmptyOf DEF LifeInv, LifeStages, Resident, Stored
    <2>3. Stored' = {} /\ Ran(pending') = {} /\ Nodes' = Nodes
      BY <2>1, <2>2 DEF Stored, Nodes
    <2>4. BytesOf(Nodes \ Ran(plan')) <= Budget
      <3>1. CASE BytesOf(Resident) <= Budget /\ plan' = <<>>
        <4>1. Ran(plan') = {} /\ Nodes \ {} = Nodes
          BY <3>1, EmptyOf
        <4> QED  BY <2>2, <3>1, <4>1
      <3>2. CASE ~(BytesOf(Resident) <= Budget) /\ plan' \in Sorted(Evicted(BytesOf(Resident) - Budget), Before)
        <4>1. Evicted(BytesOf(Resident) - Budget) \in SUBSET Nodes
          BY DEF Evicted
        <4>2. Ran(plan') = Evicted(BytesOf(Nodes) - Budget)
          BY <2>2, <3>2, <4>1, SortedNodes
        <4>3. BytesOf(Nodes) > Budget
          <5>1. {} \in SUBSET Nodes /\ {} \cap {} = {}
            OBVIOUS
          <5>2. BytesOf(Nodes) \in Nat
            BY <5>1, TermsAreDisjoint
          <5>3. ~(BytesOf(Nodes) <= Budget)
            BY <2>2, <3>2
          <5> QED  BY <5>2, <5>3, OutOfCoreAssumption
        <4> QED  BY <4>2, <4>3, EvictionIsEnough
      <3> QED  BY <2>1, <3>1, <3>2
    <2>5. (Nodes \ (Ran(plan) \cup Ran(pending) \cup Stored))' = Nodes \ Ran(plan')
      BY <2>3
    <2>6. stage' = "submit" /\ nodes' = nodes
      BY <2>1
    <2> QED  BY <1>3, <2>4, <2>5, <2>6 DEF BudgetInv
  <1>10. CASE Submit
    <2> DEFINE h == Head(plan)
    <2>1. /\ stage = "submit" /\ stage' = stage /\ nodes' = nodes /\ plan # <<>> /\ pending' = Append(pending, h)
          /\ plan' = Tail(plan) /\ life' = [life EXCEPT ![h] = "spilling"]
      BY <1>10 DEF Submit, Enqueues
    <2>2. h \in Nodes /\ Ran(plan) = Ran(Tail(plan)) \cup {h}
      BY <1>0, <2>1, TailOf
    <2> HIDE DEF h
    <2>3. Ran(pending') = Ran(pending) \cup {h}
      BY <1>0, <2>1, <2>2, AppendOf
    <2>4. life[h] = "resident"
      BY <2>1, <2>2 DEF LifeInv, LifeStages, SpillStages
    <2>5. Stored' = Stored
      BY <1>0, <2>1, <2>2, <2>4 DEF Stored, Nodes
    <2>6. Ran(plan') \cup Ran(pending') \cup Stored' = Ran(plan) \cup Ran(pending) \cup Stored
      BY <2>1, <2>2, <2>3, <2>5
    <2> QED  BY <1>8, <2>1, <2>6
  <1>11. CASE Submitted
    <2>1. stage = "submit" /\ stage' = "drain" /\ UNCHANGED <<nodes, plan, pending, life>>
      BY <1>11 DEF Submitted, Goto, ioVars
    <2> QED  BY <1>8, <2>1 DEF Stored, Nodes
  <1>12. CASE SpillWaits
    <2> DEFINE h == Head(pending)
    <2>1. /\ pending # <<>> /\ pending' = Tail(pending) /\ UNCHANGED <<nodes, plan>>
          /\ stage' = IF outcome[h] = "ok" THEN stage ELSE "unwind"
          /\ stage \in {"drain", "unwind"}
          /\ life' = [life EXCEPT ![h] = IF outcome[h] = "ok" THEN "stored" ELSE "resident"]
      BY <1>12 DEF SpillWaits, FinishSpill, Goto
    <2>2. h \in Nodes /\ Ran(pending) = Ran(Tail(pending)) \cup {h}
      BY <1>0, <2>1, TailOf
    <2> HIDE DEF h
    <2>3. CASE stage = "drain" /\ outcome[h] = "ok"
      <3>1. stage' = "drain" /\ life' = [life EXCEPT ![h] = "stored"]
        BY <2>1, <2>3
      <3>2. Stored' = Stored \cup {h}
        BY <1>0, <2>1, <2>2, <3>1 DEF Stored, Nodes
      <3>3. Ran(plan') \cup Ran(pending') \cup Stored' = Ran(plan) \cup Ran(pending) \cup Stored
        BY <2>1, <2>2, <3>2
      <3> QED  BY <1>8, <2>1, <2>3, <3>1, <3>3
    <2>4. CASE ~(stage = "drain" /\ outcome[h] = "ok")
      BY <1>1, <2>1, <2>4
    <2> QED  BY <2>3, <2>4
  <1>13. CASE Spilled
    <2>1. stage = "drain" /\ stage' = "request" /\ pending = <<>> /\ UNCHANGED <<nodes, values, life>>
      BY <1>13 DEF Spilled, Goto
    <2>2. plan = <<>> /\ Ran(plan) = {} /\ Ran(pending) = {}
      BY <2>1, EmptyOf DEF LifeInv, LifeStages
    <2>3. \A i \in Nodes : life[i] \in {"resident", "stored"}
      BY <2>1, <2>2 DEF LifeInv, LifeStages, SpillStages
    <2>4. \A i \in Nodes : values[i] <=> life[i] # "stored"
      BY <2>3, Zenon DEF LifeInv, LifeTypes
    <2>5. {i \in Nodes : values[i]} = Nodes \ (Ran(plan) \cup Ran(pending) \cup Stored)
      BY <2>2, <2>4 DEF Stored
    <2>6. {i \in Nodes : values[i]}' = {i \in Nodes : values[i]}
      BY <2>1 DEF Nodes
    <2> QED  BY <1>3, <2>1, <2>5, <2>6 DEF BudgetInv
  <1>14. CASE Request
    <2>1. stage' = stage /\ stage = "request" /\ UNCHANGED <<nodes, values>>
      BY <1>14 DEF Request, Enqueues
    <2>2. {i \in Nodes : values[i]}' = {i \in Nodes : values[i]}
      BY <2>1 DEF Nodes
    <2> QED  BY <1>3, <2>1, <2>2 DEF BudgetInv
  <1> QED  BY <1>4, <1>5, <1>6, <1>7, <1>9, <1>10, <1>11, <1>12, <1>13, <1>14 DEF RunStep, MainStep
-----------------------------------------------------------------------------
LEMMA StepsKeepOutOfCore ==
    ASSUME OutOfCoreInv, [Next]_vars
    PROVE  OutOfCoreInv'
  <1> USE DEF OutOfCoreInv
  <1>1. StorageInv'
    BY MergeStepsKeepStorage
  <1>2. CASE Interrupted \/ Rerun
    BY <1>1, <1>2, StartsKeepInv
  <1>3. CASE RunStep
    <2>1. (LayoutInv /\ RequestInv /\ CallInv /\ LifeInv)'
      BY <1>3, StepsKeepLayout, StepsKeepRequests, StepsKeepCalls, StepsKeepLife
    <2>2. KeptInv' /\ BudgetInv'
      BY <1>3, <2>1, StepsKeepValues, StepsKeepBudget
    <2> QED  BY <1>1, <2>1, <2>2
  <1> QED  BY <1>2, <1>3 DEF Next, RunStep

\* The inductive invariant of the merge, over runs that fail and are started
\* again, for any number of terms, threads and faults and any budget.
THEOREM OutOfCoreInvariant == Spec => []OutOfCoreInv
  <1>1. Init => OutOfCoreInv
    BY InitIsFresh, FreshRuns, StorageInitially DEF Init, OutOfCoreInv
  <1>2. OutOfCoreInv /\ [Next]_vars => OutOfCoreInv'
    BY StepsKeepOutOfCore
  <1> QED  BY <1>1, <1>2, PTL DEF Spec

\* No order of completions, errors and handlers releases a value that is not
\* stored, and a merge starts with the values of all its nodes.
THEOREM ValuesStayKept == Spec => []ValuesAreKept
  <1>1. OutOfCoreInv => ValuesAreKept
    <2> SUFFICES ASSUME OutOfCoreInv PROVE ValuesAreKept
      OBVIOUS
    <2>1. LayoutInv /\ LifeInv /\ KeptInv
      BY DEF OutOfCoreInv
    <2>2. ASSUME NEW i \in Nodes, stage # "failed", ~(life[i] \in {"resident", "spilling"})
          PROVE  ContainsChunk(Id(i))
      <3>1. stage \in {"retire", "plan", "merge", "done"} \cup SpillStages \cup LoadStages
        BY <2>1, <2>2 DEF LayoutInv, Stages, SpillStages, LoadStages
      <3>2. life[i] \in {"stored", "loading"}
        BY <2>1, <2>2, <3>1 DEF LifeInv, LifeStages
      <3> QED  BY <2>1, <2>2, <3>2 DEF KeptInv
    <2>3. \A i \in Nodes : values[i] <=> life[i] \in {"resident", "spilling"}
      BY <2>1 DEF LifeInv, LifeTypes
    <2>4. stage # "failed" => \A i \in Nodes : values[i] \/ ContainsChunk(Id(i))
      BY <2>2, <2>3, Zenon
    <2>5. stage = "merge" => \A i \in Nodes : life[i] \in {"resident", "spilling"}
      BY <2>1 DEF LifeInv, LifeStages
    <2>6. stage = "merge" => \A i \in Nodes : values[i]
      BY <2>3, <2>5, Zenon
    <2> QED  BY <2>4, <2>6 DEF ValuesAreKept
  <1> QED  BY <1>1, OutOfCoreInvariant, PTL

\* The bytes the coordinator plans with are those of the nodes that hold
\* values, and a spill that has returned leaves no more than the budget.
THEOREM AccountingStaysExact == Spec => []AccountingIsExact
  <1>1. OutOfCoreInv => AccountingIsExact
    <2> SUFFICES ASSUME OutOfCoreInv PROVE AccountingIsExact
      OBVIOUS
    <2>1. StorageTypeOK /\ LayoutInv /\ RequestInv /\ LifeInv /\ BudgetInv
      BY DEF OutOfCoreInv, StorageInv
    <2>2. /\ Nodes = 1 .. Len(nodes) /\ Nodes # {} /\ level \in 0 .. Terms
          /\ \A i \in Nodes : Id(i) \in Chunks
      <3>1. Nodes = 1 .. Len(nodes) /\ Len(nodes) \in Nat /\ Len(nodes) >= 1 /\ level \in 0 .. Terms - 1
        BY <2>1, LayoutFields DEF LayoutInv
      <3>2. 1 \in Nodes
        BY <3>1
      <3> QED  BY <2>1, <3>1, <3>2, LayoutFields, OutOfCoreAssumption
    <2>3. /\ stage \in Stages /\ retiring \in Seq(Chunks) /\ runs \in 1 .. MaxRuns
      BY <2>1 DEF LayoutInv
    <2>4. /\ \A s \in {plan, queue, pending} : s \in Seq(Nodes)
          /\ Len(queue) <= QueueCapacity
          /\ job \in [Workers -> Nodes \cup {0}] /\ outcome \in [Nodes -> {"none", "ok", "error"}]
      BY <2>1 DEF RequestInv
    <2>5. /\ values \in [Nodes -> BOOLEAN] /\ life \in [Nodes -> Lives]
          /\ \A i \in Nodes : values[i] <=> life[i] \in {"resident", "spilling"}
      BY <2>1 DEF LifeInv, LifeTypes
    <2>6. OutOfCoreTypeOK
      BY <2>1, <2>2, <2>3, <2>4, <2>5, Zenon DEF OutOfCoreTypeOK
    <2>7. Resident = {i \in Nodes : values[i]}
      BY <2>5, Zenon DEF Resident
    <2> QED  BY <2>1, <2>6, <2>7 DEF AccountingIsExact, BudgetInv
  <1> QED  BY <1>1, OutOfCoreInvariant, PTL
-----------------------------------------------------------------------------
(* A run in which nothing goes wrong.                                      *)

LEMMA NoFaults ==
    ASSUME OutOfCoreInv, FaultFree', [Next]_vars
    PROVE  FaultFree /\ RunStep /\ faults' = faults /\ \A kind : ~Fails(kind)
  <1>0. faults \in Nat /\ runs \in Nat /\ runs >= 1 /\ faults' = 0 /\ runs' = 1
    BY StorageAssumption, OutOfCoreAssumption DEF OutOfCoreInv, StorageInv, StorageTypeOK, LayoutInv, FaultFree
  <1>1. \A kind : ~Fails(kind)
    BY <1>0 DEF Fails
  <1>2. ~Interrupted /\ ~Rerun
    BY <1>0, <1>1 DEF Interrupted, Rerun
  <1>3. RunStep
    BY <1>2 DEF Next, RunStep
  <1>4. faults' = faults
    <2>1. ASSUME NEW k \in Callers, StorageStep(k) PROVE faults' = faults
      BY <1>1, <2>1 DEF StorageStep, WriteFile, WriteFails, Publish, PublishRefused, PublishFails, Undo, LoadReads,
         Unpublish, UnpublishFails
    <2>2. ASSUME NEW k \in Callers, ManagerStep(k) PROVE faults' = faults
      BY <2>1, <2>2 DEF ManagerStep
    <2>3. ASSUME NEW w \in Workers, Worker(w) PROVE faults' = faults
      BY <2>3 DEF Worker, WorkerBegins, WorkerEnds, StoreBegins, LoadBegins, Returns
    <2>4. CASE RetireBegins \/ RetireEnds
      BY <1>1, <2>4 DEF RetireBegins, RetireEnds, RemoveBegins, RemoveFails, Returns
    <2>5. CASE ChunkDamaged
      BY <1>1, <2>5 DEF ChunkDamaged, Corrupt
    <2>6. CASE \/ RetireSkips \/ Observed \/ Plan \/ Submit \/ Submitted \/ SpillWaits \/ SpillFails \/ Spilled
               \/ Request \/ Requested \/ Restore \/ RestoreFails \/ Restored \/ Merge \/ Ended \/ UNCHANGED vars
      BY <2>6 DEF RetireSkips, Observed, Plan, Submit, Submitted, SpillWaits, SpillFails, Spilled, Request,
         Requested, Restore, RestoreFails, Restored, Merge, Ended, Enqueues, vars, storageVars
    <2> QED  BY <1>3, <2>2, <2>3, <2>4, <2>5, <2>6 DEF RunStep, MainStep
  <1>5. runs' = runs
    BY <1>3 DEF RunStep, MainStep, RetireBegins, RetireSkips, RetireEnds, Observed, Plan, Submit, Submitted, SpillWaits,
       SpillFails, Spilled, Request, Requested, Restore, RestoreFails, Restored, Merge, Enqueues, ManagerStep, Worker,
       WorkerBegins, WorkerEnds, ChunkDamaged, Ended, vars
  <1> QED  BY <1>0, <1>1, <1>3, <1>4, <1>5 DEF FaultFree

Clean == OutOfCoreInv /\ CleanFiles /\ CleanMain /\ CleanIndex /\ CleanRequests

\* What a run without faults may rely on.
LEMMA CleanFacts ==
    ASSUME Clean
    PROVE  /\ StorageInv /\ LayoutInv /\ RequestInv /\ LifeInv /\ KeptInv /\ stage # "failed"
           /\ MainCall /\ \A w \in Workers : WorkerCall(w)
           /\ call \in [Callers -> [step : Steps, chunk : Chunks]]
           /\ files \in [Chunks -> {"absent", "whole", "corrupt"}] /\ index \subseteq Chunks
  BY DEF Clean, OutOfCoreInv, CallInv, CleanRequests, StorageInv, StorageTypeOK

\* Steps of the main thread that do not call the manager.
LEMMA MainKeepsClean ==
    ASSUME Clean,
           \/ RetireSkips \/ Observed \/ Plan \/ Submit \/ Submitted \/ SpillWaits \/ SpillFails \/ Spilled
           \/ Request \/ Requested \/ Restore \/ RestoreFails \/ Restored \/ Merge \/ Ended \/ UNCHANGED vars
    PROVE  (CleanFiles /\ CleanMain /\ CleanIndex /\ CleanRequests)'
  <1>0. UNCHANGED <<index, published, files, call>>
    BY DEF RetireSkips, Observed, Plan, Submit, Submitted, SpillWaits, SpillFails, Spilled, Request, Requested,
       Restore, RestoreFails, Restored, Merge, Ended, Enqueues, vars, storageVars, store
  <1>1. LayoutInv /\ RequestInv /\ LifeInv /\ stage # "failed" /\ CleanFiles /\ CleanMain /\ CleanIndex /\ CleanRequests
    BY CleanFacts DEF Clean
  <1>2. CleanFiles'
    BY <1>0, <1>1 DEF CleanFiles, At
  <1>3. ASSUME retiring' = retiring \/ At(Main, "idle") PROVE CleanMain'
    BY <1>0, <1>1, <1>3 DEF CleanMain, At
  <1>4. \A w \in Workers : call'[w].step \notin {"failed", "missing", "undo"}
    BY <1>0, <1>1 DEF CleanRequests
  <1>5. ASSUME nodes' = nodes, outcome' = outcome, stage' \notin {"failed", "unwind"} PROVE CleanRequests'
    BY <1>1, <1>4, <1>5 DEF CleanRequests, Nodes
  <1>6. CASE RetireSkips
    <2>1. /\ stage = "retire" /\ retiring # <<>> /\ At(Main, "idle") /\ ~ContainsChunk(Head(retiring))
          /\ retiring' = Tail(retiring) /\ UNCHANGED <<stage, nodes, outcome>>
      BY <1>6 DEF RetireSkips, Skips, ioVars
    <2>2. Head(retiring) \notin index
      BY <1>1, <2>1 DEF CleanFiles, ContainsChunk, At
    <2>3. Ran(retiring) = Ran(Tail(retiring)) \cup {Head(retiring)}
      BY <1>1, <2>1, TailOf DEF LayoutInv
    <2>4. CleanIndex'
      BY <1>0, <1>1, <2>1, <2>2, <2>3 DEF CleanIndex, SpillStages
    <2> QED  BY <1>1, <1>2, <1>3, <1>5, <2>1, <2>4 DEF CleanRequests
  <1>7. CASE Observed
    <2>1. stage = "retire" /\ retiring = <<>> /\ stage' \in {"done", "plan"} /\ UNCHANGED <<nodes, outcome, retiring>>
      BY <1>7 DEF Observed, Goto, ioVars
    <2>2. index = {}
      BY <1>1, <2>1, EmptyOf DEF CleanIndex
    <2>3. CleanIndex'
      BY <1>0, <2>1, <2>2 DEF CleanIndex, SpillStages
    <2> QED  BY <1>2, <1>3, <1>5, <2>1, <2>3
  <1>8. CASE Plan
    <2>1. stage = "plan" /\ stage' = "submit" /\ UNCHANGED <<nodes, outcome, retiring>>
      BY <1>8 DEF Plan, Goto, ioVars
    <2>2. CleanIndex'
      BY <1>0, <1>1, <2>1 DEF CleanIndex
    <2> QED  BY <1>2, <1>3, <1>5, <2>1, <2>2
  <1>9. CASE Submitted
    <2>1. stage = "submit" /\ stage' = "drain" /\ UNCHANGED <<nodes, level, outcome, retiring, life, job>>
      BY <1>9 DEF Submitted, Goto, ioVars
    <2>2. CleanIndex'
      BY <1>0, <1>1, <2>1 DEF CleanIndex, SpillStages, Nodes, Id, At
    <2> QED  BY <1>2, <1>3, <1>5, <2>1, <2>2
  <1>10. CASE Spilled \/ Requested \/ Restored \/ Restore
    <2>1. /\ stage \notin {"retire", "plan"} /\ stage' \in {"request", "restore", "merge"}
          /\ UNCHANGED <<nodes, level, outcome, retiring>>
      BY <1>10 DEF Spilled, Requested, Restored, Restore, Goto, ioVars
    <2>2. CleanIndex'
      BY <1>0, <1>1, <2>1 DEF CleanIndex, SpillStages, Nodes, Id
    <2> QED  BY <1>2, <1>3, <1>5, <2>1, <2>2
  <1>11. CASE Submit \/ Request
    <2> DEFINE h == Head(plan)
    <2>1. /\ plan # <<>> /\ outcome' = [outcome EXCEPT ![h] = "none"]
          /\ UNCHANGED <<nodes, level, stage, retiring, job>> /\ stage \in {"submit", "request"}
          /\ stage = "submit" => life' = [life EXCEPT ![h] = "spilling"]
      BY <1>11 DEF Submit, Request, Enqueues
    <2>2. h \in Nodes /\ h \in Ran(plan)
      BY <1>1, <2>1, TailOf DEF RequestInv
    <2> HIDE DEF h
    <2>3. outcome \in [Nodes -> {"none", "ok", "error"}] /\ life \in [Nodes -> Lives]
      BY <1>1 DEF RequestInv, LifeInv, LifeTypes
    <2>4. CleanRequests'
      BY <1>1, <1>4, <2>1, <2>2, <2>3 DEF CleanRequests, Nodes
    <2>5. stage = "submit" => life[h] = "resident"
      BY <1>1, <2>2 DEF LifeInv, LifeStages, SpillStages
    <2>6. CleanIndex'
      <3>1. CASE stage = "request"
        BY <1>0, <1>1, <2>1, <3>1 DEF CleanIndex, SpillStages, Nodes, Id
      <3>2. CASE stage = "submit"
        <4>1. Id(h) \notin index
          BY <1>1, <2>2, <2>5, <3>2 DEF CleanIndex, SpillStages
        <4>2. \A i \in Nodes : i # h => outcome'[i] = outcome[i] /\ life'[i] = life[i]
          BY <2>1, <2>2, <2>3, <3>2
        <4> QED  BY <1>0, <1>1, <2>1, <3>2, <4>1, <4>2 DEF CleanIndex, SpillStages, Nodes, Id, At
      <3> QED  BY <2>1, <3>1, <3>2
    <2> QED  BY <1>2, <1>3, <2>1, <2>4, <2>6
  <1>12. CASE SpillWaits
    <2> DEFINE h == Head(pending)
    <2>1. /\ pending # <<>> /\ outcome[h] # "none" /\ UNCHANGED <<nodes, level, retiring, job, outcome>>
          /\ life' = [life EXCEPT ![h] = IF outcome[h] = "ok" THEN "stored" ELSE "resident"]
          /\ stage' = IF outcome[h] = "ok" THEN stage ELSE "unwind"
          /\ stage \in {"drain", "unwind"}
      BY <1>12 DEF SpillWaits, FinishSpill, Goto
    <2>2. h \in Nodes /\ life \in [Nodes -> Lives] /\ outcome \in [Nodes -> {"none", "ok", "error"}]
      BY <1>1, <2>1, TailOf DEF RequestInv, LifeInv, LifeTypes
    <2> HIDE DEF h
    <2>3. outcome[h] = "ok"
      BY <1>1, <2>1, <2>2 DEF CleanRequests
    <2>4. life' = [life EXCEPT ![h] = "stored"] /\ stage' = stage
      BY <2>1, <2>3
    <2>5. life'[h] = "stored" /\ \A i \in Nodes : i # h => life'[i] = life[i]
      BY <2>2, <2>4
    <2>6. CleanIndex'
      BY <1>0, <1>1, <2>1, <2>4, <2>5 DEF CleanIndex, SpillStages, Nodes, Id, At
    <2> QED  BY <1>1, <1>2, <1>3, <1>5, <2>1, <2>4, <2>6 DEF CleanRequests
  <1>13. CASE SpillFails
    BY <1>1, <1>13 DEF SpillFails, CleanRequests
  <1>14. CASE RestoreFails
    <2>1. Head(pending) \in Nodes /\ outcome[Head(pending)] = "error"
      BY <1>1, <1>14, TailOf DEF RestoreFails, RequestInv
    <2> QED  BY <1>1, <2>1 DEF CleanRequests
  <1>15. CASE Merge
    <2>1. /\ stage = "merge" /\ stage' = "retire" /\ retiring' = Ids /\ nodes' = Merged
          /\ outcome' = [i \in DOMAIN Merged |-> "none"]
      BY <1>15 DEF Merge, Goto
    <2>2. At(Main, "idle")
      BY <2>1, CleanFacts DEF MainCall
    <2>3. {Id(i) : i \in Nodes} \subseteq Ran(Ids)
      <3>1. Nodes = 1 .. Len(nodes) /\ Len(nodes) \in Nat /\ \A i \in Nodes : Id(i) \in Chunks
        BY <1>1, LayoutFields
      <3>2. Ids \in [1 .. Len(nodes) -> Chunks] /\ \A i \in Nodes : Ids[i] = Id(i)
        BY <3>1 DEF Ids
      <3>3. Len(Ids) = Len(nodes)
        BY <3>1, <3>2, SeqDef, LenProperties
      <3> QED  BY <3>1, <3>2, <3>3 DEF Ran
    <2>4. CleanIndex'
      BY <1>0, <1>1, <2>1, <2>3 DEF CleanIndex, SpillStages
    <2>5. CleanRequests'
      BY <1>4, <2>1 DEF CleanRequests, Nodes
    <2> QED  BY <1>2, <1>3, <2>2, <2>4, <2>5
  <1>16. CASE UNCHANGED vars
    <2>1. UNCHANGED <<nodes, level, outcome, retiring, life, job, stage>>
      BY <1>16 DEF vars, mergeVars, ioVars
    <2>2. CleanIndex'
      BY <1>0, <1>1, <2>1 DEF CleanIndex, SpillStages, Nodes, Id, At
    <2> QED  BY <1>1, <1>2, <1>3, <1>5, <2>1, <2>2 DEF CleanRequests
  <1> QED  BY <1>6, <1>7, <1>8, <1>9, <1>10, <1>11, <1>12, <1>13, <1>14, <1>15, <1>16 DEF Ended
LEMMA RetiringKeepsClean ==
    ASSUME Clean, RetireBegins \/ RetireEnds, \A kind : ~Fails(kind)
    PROVE  (CleanFiles /\ CleanMain /\ CleanIndex /\ CleanRequests)'
  <1>0. /\ CleanFiles /\ CleanMain /\ CleanIndex /\ CleanRequests /\ LayoutInv
        /\ call \in [Callers -> [step : Steps, chunk : Chunks]] /\ Main \in Callers
        /\ files \in [Chunks -> {"absent", "whole", "corrupt"}] /\ index \subseteq Chunks
        /\ retiring \in Seq(Chunks)
    BY CleanFacts, CallersAre DEF Clean, LayoutInv
  <1>1. /\ stage = "retire" /\ UNCHANGED <<nodes, outcome, index, published>>
    BY DEF RetireBegins, RetireEnds, RemoveBegins, RemoveFails, Returns, mergeVars, ioVars, store
  <1>2. \A w \in Workers : call'[w] = call[w]
    BY <1>0, CallersAre DEF RetireBegins, RetireEnds, RemoveBegins, RemoveFails, Returns
  <1>3. ASSUME stage' = "retire", index \subseteq Ran(retiring') PROVE CleanIndex' /\ CleanRequests'
    BY <1>0, <1>1, <1>2, <1>3 DEF CleanIndex, CleanRequests, SpillStages, Nodes
  <1>4. CASE RetireBegins
    <2> DEFINE c == Head(retiring)
    <2>1. /\ retiring # <<>> /\ ContainsChunk(c) /\ RemoveBegins(Main, c) /\ UNCHANGED <<stage, retiring>>
      BY <1>4 DEF RetireBegins, RemoveFails, mergeVars
    <2>2. c \in Chunks
      BY <1>0, <2>1, TailOf
    <2> HIDE DEF c
    <2>3. /\ files' = [files EXCEPT ![c] = "absent"] /\ At(Main, "idle")
          /\ call' = [call EXCEPT ![Main] = [step |-> "unpublish", chunk |-> c]]
      BY <2>1 DEF RemoveBegins
    <2>4. call'[Main].step = "unpublish" /\ call'[Main].chunk = c /\ files'[c] = "absent"
          /\ \A d \in Chunks : d # c => files'[d] = files[d]
      BY <1>0, <2>2, <2>3
    <2>5. CleanFiles'
      BY <1>0, <1>1, <1>2, <2>3, <2>4 DEF CleanFiles, At
    <2>6. CleanMain'
      BY <2>1, <2>4 DEF CleanMain, At, c
    <2> QED  BY <1>0, <1>1, <1>3, <2>1, <2>5, <2>6 DEF CleanIndex
  <1>5. CASE RetireEnds
    <2>1. Returns(Main)
      BY <1>5 DEF RetireEnds
    <2>2. call[Main].step = "removed"
      BY <1>0, <2>1 DEF Returns, Results, CleanMain
    <2>3. retiring' = Tail(retiring) /\ stage' = stage /\ files' = files /\ call'[Main].step = "idle"
      BY <1>0, <1>5, <2>1, <2>2, IdleIsACall DEF RetireEnds, Returns, store
    <2>4. retiring # <<>>
      BY <2>2, CleanFacts DEF MainCall, At
    <2>5. Ran(retiring) = Ran(Tail(retiring)) \cup {Head(retiring)}
      BY <1>0, <2>4, TailOf
    <2>6. Head(retiring) \notin index
      BY <1>0, <2>2 DEF CleanMain, At
    <2>7. index \subseteq Ran(retiring')
      BY <1>0, <1>1, <2>3, <2>5, <2>6 DEF CleanIndex
    <2>8. CleanFiles'
      BY <1>0, <1>1, <1>2, <2>2, <2>3 DEF CleanFiles, At
    <2>9. CleanMain'
      BY <2>3 DEF CleanMain, At
    <2> QED  BY <1>1, <1>3, <2>3, <2>7, <2>8, <2>9
  <1> QED  BY <1>4, <1>5

\* A node that is being spilled is not refused: its chunk overlaps none of the
\* others of its level.
LEMMA SpillsAreAddable ==
    ASSUME Clean, stage # "retire", NEW i \in Nodes, Id(i) \notin index
    PROVE  Addable(Id(i))
  <1> SUFFICES ASSUME NEW d \in index PROVE ~Overlaps(Id(i), d)
    BY DEF Addable
  <1>1. PICK j \in Nodes : d = Id(j)
    BY DEF Clean, CleanIndex
  <1>2. i # j
    BY <1>1
  <1> QED  BY <1>1, <1>2, CleanFacts, LayoutFields

LEMMA ManagerKeepsClean ==
    ASSUME Clean, NEW k \in Callers, ManagerStep(k), \A kind : ~Fails(kind)
    PROVE  (CleanFiles /\ CleanMain /\ CleanIndex /\ CleanRequests)'
  <1>0. /\ CleanFiles /\ CleanMain /\ CleanIndex /\ CleanRequests
        /\ StorageInv /\ LayoutInv /\ RequestInv /\ LifeInv /\ KeptInv /\ stage # "failed"
        /\ MainCall /\ \A w \in Workers : WorkerCall(w)
        /\ call \in [Callers -> [step : Steps, chunk : Chunks]]
        /\ files \in [Chunks -> {"absent", "whole", "corrupt"}] /\ index \subseteq Chunks
    BY CleanFacts DEF Clean
  <1>1. StorageStep(k) /\ UNCHANGED <<stage, level, nodes, life, retiring, outcome, job>>
    BY DEF ManagerStep, mergeVars, ioVars
  <1>2. /\ \A a \in Callers : a # k => call'[a] = call[a]
        /\ call'[k].chunk = call[k].chunk
        /\ \/ call[k].step = "write" /\ call'[k].step \in {"publish", "undo"}
           \/ call[k].step = "publish" /\ call'[k].step \in {"stored", "undo"}
           \/ call[k].step = "undo" /\ call'[k].step = "failed"
           \/ call[k].step = "read" /\ call'[k].step \in {"missing", "failed", "loaded"}
           \/ call[k].step = "unpublish" /\ call'[k].step \in {"removed", "failed"}
    BY <1>0, <1>1, StepMoves
  <1>3. ASSUME NEW step, Now(k, step) PROVE call'[k].step = step
    BY <1>0, <1>3 DEF Now
  <1> DEFINE c == call[k].chunk
  <1>4. c \in Chunks
    BY <1>0
  <1>5. CASE k = Main
    <2>1. Unpublish(Main) /\ call[Main].step = "unpublish"
      BY <1>0, <1>1, <1>2, <1>5 DEF CleanMain, StorageStep, UnpublishFails, WriteFile, WriteFails, Publish,
         PublishRefused, PublishFails, Undo, LoadReads, At
    <2>2. /\ index' = index \ {c} /\ published' = index' /\ files' = files /\ call'[Main].step = "removed"
      BY <1>3, <1>5, <2>1 DEF Unpublish
    <2>3. files[c] = "absent" /\ stage = "retire" /\ c = Head(retiring)
      BY <1>0, <1>5, <2>1 DEF CleanMain, MainCall, At
    <2>4. \A w \in Workers : call'[w] = call[w]
      BY <1>2, <1>5, CallersAre
    <2> HIDE DEF c
    <2>5. CleanFiles'
      <3>1. \A d \in Chunks : files'[d] # "absent" =>
                files'[d] = "whole" /\ (d \in index' \/ \E w \in Workers : At(w, "publish")' /\ call'[w].chunk = d)
        BY <1>0, <2>2, <2>3, <2>4 DEF CleanFiles, At
      <3>2. \A d \in index' : files'[d] = "whole"
        BY <1>0, <1>5, <2>2 DEF CleanFiles, c
      <3> QED  BY <2>2, <3>1, <3>2 DEF CleanFiles
    <2>6. CleanMain'
      BY <1>1, <1>2, <1>5, <2>2, <2>3 DEF CleanMain, At, c
    <2>7. CleanIndex' /\ CleanRequests'
      BY <1>0, <1>1, <2>2, <2>3, <2>4 DEF CleanIndex, CleanRequests, SpillStages, Nodes
    <2> QED  BY <2>5, <2>6, <2>7
  <1>6. CASE k \in Workers
    <2>1. job[k] # 0
      BY <1>0, <1>2, <1>6 DEF WorkerCall, At
    <2>2. job[k] \in Nodes /\ job[k] \in Ran(pending) /\ c = Id(job[k]) /\ outcome[job[k]] = "none"
      BY <1>0, <1>6, <2>1 DEF RequestInv, WorkerCall
    <2>3. \/ stage \in SpillStages /\ stage \notin LoadStages /\ life[job[k]] = "spilling"
          \/ stage \in LoadStages /\ stage \notin SpillStages /\ life[job[k]] = "loading"
      BY <1>0, <2>2, PendingLife
    <2>4. stage \notin {"retire", "plan", "done"} /\ At(Main, "idle")
      BY <1>0, <2>3 DEF SpillStages, LoadStages, MainCall
    <2>5. call'[Main] = call[Main] /\ \A w \in Workers : w # k => call'[w] = call[w]
      BY <1>2, <1>6, CallersAre
    <2>6. WriteFile(k) \/ Publish(k) \/ LoadReads(k)
      <3>1. ~PublishRefused(k)
        <4> SUFFICES ASSUME PublishRefused(k) PROVE FALSE
          OBVIOUS
        <4>1. call[k].step = "publish" /\ ~Addable(c)
          BY DEF PublishRefused, At
        <4>2. c \notin index
          BY <1>0, <4>1 DEF StorageInv, StoresArePrivate, Storing
        <4> QED  BY <2>2, <2>4, <4>1, <4>2, SpillsAreAddable
      <3>2. call[k].step # "undo"
        BY <1>0, <1>6 DEF CleanRequests
      <3>3. call[k].step # "unpublish"
        BY <1>0, <1>6, <2>1, <2>3 DEF WorkerCall
      <3> QED  BY <1>1, <3>1, <3>2, <3>3 DEF StorageStep, WriteFails, PublishFails, Undo, Unpublish, UnpublishFails, At
    <2>7. ASSUME call'[k].step \notin {"failed", "missing", "undo"} PROVE CleanRequests'
      BY <1>0, <1>1, <2>5, <2>7 DEF CleanRequests, Nodes
    <2>8. ASSUME index' = index, call[k].step # "stored" PROVE CleanMain' /\ CleanIndex'
      <3>1. CleanMain'
        BY <1>0, <2>4, <2>5 DEF CleanMain, At
      <3>2. \A w \in Workers : At(w, "stored") => At(w, "stored")'
        BY <2>5, <2>8 DEF At
      <3>3. CleanIndex'
        BY <1>0, <1>1, <2>3, <2>4, <2>8, <3>2 DEF CleanIndex, Nodes, Id
      <3> QED  BY <3>1, <3>3
    <2>9. CASE WriteFile(k)
      <3>1. /\ call[k].step = "write" /\ call'[k].step = "publish" /\ UNCHANGED <<index, published>>
            /\ files' = [files EXCEPT ![c] = "whole"]
        BY <1>3, <2>9 DEF WriteFile, At
      <3>2. files'[c] = "whole" /\ \A d \in Chunks : d # c => files'[d] = files[d]
        BY <1>0, <1>4, <3>1
      <3>3. \A w \in Workers : At(w, "publish") => At(w, "publish")' /\ call'[w].chunk = call[w].chunk
        BY <1>2, <2>5, <3>1 DEF At
      <3>4. \A d \in Chunks : files'[d] # "absent" =>
                files'[d] = "whole" /\ (d \in index' \/ \E w \in Workers : At(w, "publish")' /\ call'[w].chunk = d)
        <4> SUFFICES ASSUME NEW d \in Chunks, files'[d] # "absent"
                     PROVE  files'[d] = "whole" /\ (d \in index' \/ \E w \in Workers : At(w, "publish")' /\ call'[w].chunk = d)
          OBVIOUS
        <4>1. CASE d = c
          BY <1>2, <1>6, <3>1, <3>2, <4>1 DEF At
        <4>2. CASE d # c
          BY <1>0, <3>1, <3>2, <3>3, <4>2 DEF CleanFiles
        <4> QED  BY <4>1, <4>2
      <3>5. CleanFiles'
        BY <1>0, <2>4, <2>5, <3>1, <3>2, <3>4 DEF CleanFiles, At
      <3> QED  BY <2>7, <2>8, <3>1, <3>5
    <2>10. CASE LoadReads(k)
      <3>1. UNCHANGED <<index, published, files>> /\ call[k].step = "read"
        BY <2>10 DEF LoadReads, store, At
      <3>2. life[job[k]] = "loading"
        BY <1>0, <1>6, <2>1, <2>3, <3>1 DEF WorkerCall
      <3>3. c \in index /\ files[c] = "whole"
        BY <1>0, <2>2, <2>4, <3>2 DEF KeptInv, ContainsChunk, CleanFiles, At
      <3>4. call'[k].step = "loaded"
        BY <1>3, <2>10, <3>3 DEF LoadReads
      <3>5. \A w \in Workers : At(w, "publish") => At(w, "publish")' /\ call'[w].chunk = call[w].chunk
        BY <2>5, <3>1 DEF At
      <3>6. CleanFiles'
        BY <1>0, <2>4, <2>5, <3>1, <3>5 DEF CleanFiles, At
      <3> QED  BY <2>7, <2>8, <3>1, <3>4, <3>6
    <2>11. CASE Publish(k)
      <3>1. /\ call[k].step = "publish" /\ call'[k].step = "stored" /\ files' = files
            /\ index' = index \cup {c} /\ published' = index'
        BY <1>3, <2>11 DEF Publish, At
      <3>2. files[c] = "whole"
        BY <1>0, <3>1 DEF StorageInv, StoresArePrivate, At
      <3>3. \A w \in Workers : At(w, "stored") => At(w, "stored")'
        BY <2>5, <3>1 DEF At
      <3>4. \A d \in Chunks : files'[d] # "absent" =>
                files'[d] = "whole" /\ (d \in index' \/ \E w \in Workers : At(w, "publish")' /\ call'[w].chunk = d)
        <4> SUFFICES ASSUME NEW d \in Chunks, files'[d] # "absent"
                     PROVE  files'[d] = "whole" /\ (d \in index' \/ \E w \in Workers : At(w, "publish")' /\ call'[w].chunk = d)
          OBVIOUS
        <4>1. CASE d = c
          BY <3>1, <3>2, <4>1
        <4>2. CASE d # c
          BY <1>0, <2>5, <3>1, <4>2 DEF CleanFiles, At
        <4> QED  BY <4>1, <4>2
      <3>5. \A d \in index' : files'[d] = "whole"
        BY <1>0, <2>4, <3>1, <3>2 DEF CleanFiles, At
      <3>6. CleanFiles'
        BY <3>1, <3>4, <3>5 DEF CleanFiles
      <3>7. CleanMain'
        BY <1>0, <2>4, <2>5 DEF CleanMain, At
      <3>8. index' \subseteq {Id(i) : i \in Nodes}
        BY <1>0, <2>2, <2>4, <3>1 DEF CleanIndex
      <3>9. stage \in SpillStages /\ life[job[k]] = "spilling"
        BY <1>0, <1>6, <2>1, <2>3, <3>1 DEF WorkerCall
      <3>10. ASSUME NEW i \in Nodes, Id(i) \in index'
             PROVE  \/ life[i] = "stored"
                    \/ life[i] = "spilling" /\ (outcome[i] = "ok" \/ \E w \in Workers : job[w] = i /\ At(w, "stored")')
        <4>1. CASE i = job[k]
          BY <1>6, <3>1, <3>9, <4>1 DEF At
        <4>2. CASE i # job[k]
          <5>1. Id(i) # c
            BY <1>0, <2>2, <4>2, LayoutFields
          <5>2. Id(i) \in index
            BY <3>1, <3>10, <5>1
          <5> QED  BY <1>0, <3>3, <3>9, <5>2 DEF CleanIndex
        <4> QED  BY <4>1, <4>2
      <3>11. CleanIndex'
        BY <1>1, <2>4, <3>8, <3>10 DEF CleanIndex, Nodes, Id
      <3> QED  BY <2>7, <3>1, <3>6, <3>7, <3>11
    <2> QED  BY <2>6, <2>9, <2>10, <2>11
  <1> QED  BY <1>5, <1>6, CallersAre

LEMMA WorkersKeepClean ==
    ASSUME Clean, NEW w \in Workers, Worker(w)
    PROVE  (CleanFiles /\ CleanMain /\ CleanIndex /\ CleanRequests)'
  <1>0. /\ CleanFiles /\ CleanMain /\ CleanIndex /\ CleanRequests
        /\ StorageInv /\ LayoutInv /\ RequestInv /\ LifeInv /\ KeptInv /\ stage # "failed"
        /\ MainCall /\ \A v \in Workers : WorkerCall(v)
        /\ call \in [Callers -> [step : Steps, chunk : Chunks]]
        /\ files \in [Chunks -> {"absent", "whole", "corrupt"}] /\ index \subseteq Chunks
        /\ job \in [Workers -> Nodes \cup {0}] /\ outcome \in [Nodes -> {"none", "ok", "error"}]
        /\ w \in Callers
    BY CleanFacts, CallersAre DEF Clean, RequestInv
  <1>1. UNCHANGED <<stage, level, nodes, life, retiring, index, published, files>>
    BY DEF Worker, WorkerBegins, WorkerEnds, StoreBegins, LoadBegins, Returns, mergeVars, store
  <1>2. \A a \in Callers : a # w => call'[a] = call[a]
    BY <1>0 DEF Worker, WorkerBegins, WorkerEnds, StoreBegins, LoadBegins, Returns
  <1>3. call'[Main] = call[Main] /\ \A v \in Workers : v # w => call'[v] = call[v]
    BY <1>2, CallersAre
  <1>4. CleanMain'
    BY <1>0, <1>1, <1>3 DEF CleanMain, At
  <1>5. ASSUME call[w].step # "publish" PROVE CleanFiles'
    <2>1. \A v \in Workers : At(v, "publish") => At(v, "publish")' /\ call'[v].chunk = call[v].chunk
      BY <1>3, <1>5 DEF At
    <2> QED  BY <1>0, <1>1, <1>3, <2>1 DEF CleanFiles, At
  <1>6. CASE WorkerBegins(w)
    <2> DEFINE h == Head(queue)
    <2>1. /\ queue # <<>> /\ job[w] = 0 /\ job' = [job EXCEPT ![w] = h] /\ outcome' = outcome
          /\ IF life[h] = "spilling" THEN StoreBegins(w, Id(h)) ELSE LoadBegins(w, Id(h))
      BY <1>6 DEF WorkerBegins
    <2>2. h \in Ran(queue) /\ h \in Nodes /\ h \in Ran(pending) /\ outcome[h] = "none"
      BY <1>0, <2>1, TailOf DEF RequestInv
    <2> HIDE DEF h
    <2>3. \/ stage \in SpillStages /\ stage \notin LoadStages /\ life[h] = "spilling"
          \/ stage \in LoadStages /\ stage \notin SpillStages /\ life[h] = "loading"
      BY <1>0, <2>2, PendingLife
    <2>4. call[w].step = "idle" /\ At(Main, "idle") /\ h # 0
      BY <1>0, <2>1, <2>2, <2>3, LayoutFields DEF WorkerCall, At, MainCall, SpillStages, LoadStages
    <2>5. \A v \in Workers : job[v] # h
      BY <1>0, <2>2, <2>4 DEF RequestInv
    <2>6. call'[w].step \in {"write", "read"}
      <3>1. CASE life[h] = "spilling"
        <4>1. stage \in SpillStages /\ StoreBegins(w, Id(h))
          BY <2>1, <2>3, <3>1
        <4>2. Id(h) \notin index
          BY <1>0, <2>2, <2>5, <3>1, <4>1 DEF CleanIndex
        <4>3. Id(h) \notin inFlight
          <5> SUFFICES ASSUME NEW k \in Callers, Storing(k), call[k].chunk = Id(h) PROVE FALSE
            BY <1>0 DEF StorageInv, InFlightIsExact
          <5>1. k \in Workers
            BY <2>4, CallersAre DEF Storing, At
          <5>2. job[k] # 0 /\ call[k].chunk = Id(job[k]) /\ job[k] \in Nodes
            BY <1>0, <5>1 DEF WorkerCall, At, Storing
          <5> QED  BY <1>0, <2>2, <2>5, <5>1, <5>2, LayoutFields
        <4>4. ~Refuses(Id(h))
          BY <4>2, <4>3 DEF Refuses
        <4> QED  BY <1>0, <4>1, <4>4 DEF StoreBegins
      <3>2. CASE life[h] = "loading"
        <4>1. LoadBegins(w, Id(h)) /\ Id(h) \in index
          BY <1>0, <2>1, <2>2, <3>2 DEF KeptInv, ContainsChunk
        <4> QED  BY <1>0, <4>1 DEF LoadBegins
      <3> QED  BY <2>3, <3>1, <3>2
    <2>7. CleanRequests'
      BY <1>0, <1>1, <1>3, <2>1, <2>6 DEF CleanRequests, Nodes
    <2>8. CleanIndex'
      <3>1. \A v \in Workers : At(v, "stored") => At(v, "stored")' /\ job'[v] = job[v]
        BY <1>0, <1>3, <2>1, <2>4 DEF At
      <3>2. ASSUME stage \in SpillStages, NEW i \in Nodes, Id(i) \in index
            PROVE  \/ life[i] = "stored"
                   \/ life[i] = "spilling" /\ (outcome[i] = "ok" \/ \E v \in Workers : job'[v] = i /\ At(v, "stored")')
        BY <1>0, <3>1, <3>2 DEF CleanIndex
      <3> QED  BY <1>0, <1>1, <2>1, <3>2 DEF CleanIndex, Nodes, Id
    <2> QED  BY <1>4, <1>5, <2>4, <2>7, <2>8
  <1>7. CASE WorkerEnds(w)
    <2>1. /\ job[w] # 0 /\ call[w].step \in Results /\ call' = [call EXCEPT ![w] = Idle]
          /\ outcome' = [outcome EXCEPT ![job[w]] = Settles(call[w].step)]
          /\ job' = [job EXCEPT ![w] = 0]
      BY <1>7 DEF WorkerEnds, Returns
    <2>2. job[w] \in Nodes /\ job[w] \in Ran(pending) /\ call[w].chunk = Id(job[w])
      BY <1>0, <2>1 DEF RequestInv, WorkerCall
    <2>3. \/ stage \in SpillStages /\ stage \notin LoadStages /\ life[job[w]] = "spilling"
          \/ stage \in LoadStages /\ stage \notin SpillStages /\ life[job[w]] = "loading"
      BY <1>0, <2>2, PendingLife
    <2>4. call[w].step \in {"stored", "loaded"}
      BY <1>0, <2>1, <2>3 DEF WorkerCall, CleanRequests, Results
    <2>5. outcome'[job[w]] = "ok" /\ \A i \in Nodes : i # job[w] => outcome'[i] = outcome[i]
      BY <1>0, <2>1, <2>2, <2>4 DEF Settles
    <2>6. call'[w].step = "idle" /\ \A v \in Workers : v # w => job'[v] = job[v]
      BY <1>0, <2>1, IdleIsACall
    <2>7. CleanRequests'
      BY <1>0, <1>1, <1>3, <2>5, <2>6 DEF CleanRequests, Nodes
    <2>8. CleanIndex'
      <3>1. ASSUME stage \in SpillStages, NEW i \in Nodes, Id(i) \in index
            PROVE  \/ life[i] = "stored"
                   \/ life[i] = "spilling" /\ (outcome'[i] = "ok" \/ \E v \in Workers : job'[v] = i /\ At(v, "stored")')
        <4>1. CASE i = job[w]
          BY <2>3, <2>5, <3>1, <4>1
        <4>2. CASE i # job[w]
          BY <1>0, <1>3, <2>5, <2>6, <3>1, <4>2 DEF CleanIndex, At
        <4> QED  BY <4>1, <4>2
      <3> QED  BY <1>0, <1>1, <3>1 DEF CleanIndex, Nodes, Id
    <2> QED  BY <1>4, <1>5, <2>4, <2>7, <2>8
  <1> QED  BY <1>6, <1>7 DEF Worker
LEMMA StepsKeepClean ==
    ASSUME OutOfCoreInv, CleanInv, [Next]_vars
    PROVE  CleanInv'
  <1> SUFFICES ASSUME FaultFree' PROVE (CleanFiles /\ CleanMain /\ CleanIndex /\ CleanRequests)'
    BY DEF CleanInv
  <1>1. FaultFree /\ RunStep /\ faults' = faults /\ \A kind : ~Fails(kind)
    BY NoFaults
  <1>2. Clean
    BY <1>1 DEF Clean, CleanInv
  <1>3. CASE RetireBegins \/ RetireEnds
    BY <1>1, <1>2, <1>3, RetiringKeepsClean
  <1>4. ASSUME NEW k \in Callers, ManagerStep(k)
        PROVE  (CleanFiles /\ CleanMain /\ CleanIndex /\ CleanRequests)'
    BY <1>1, <1>2, <1>4, ManagerKeepsClean
  <1>5. ASSUME NEW w \in Workers, Worker(w)
        PROVE  (CleanFiles /\ CleanMain /\ CleanIndex /\ CleanRequests)'
    BY <1>2, <1>5, WorkersKeepClean
  <1>6. ~ChunkDamaged
    BY <1>1 DEF ChunkDamaged, Corrupt
  <1>7. CASE \/ RetireSkips \/ Observed \/ Plan \/ Submit \/ Submitted \/ SpillWaits \/ SpillFails \/ Spilled
             \/ Request \/ Requested \/ Restore \/ RestoreFails \/ Restored \/ Merge \/ Ended \/ UNCHANGED vars
    BY <1>2, <1>7, MainKeepsClean
  <1> QED  BY <1>1, <1>3, <1>4, <1>5, <1>6, <1>7 DEF RunStep, MainStep

LEMMA InitIsClean == Init => CleanInv
  <1> SUFFICES ASSUME Init PROVE CleanFiles /\ CleanMain /\ CleanIndex /\ CleanRequests
    BY DEF CleanInv
  <1>1. \A k \in Callers : call[k].step = "idle"
    BY IdleIsACall DEF Init, StorageInit
  <1> QED  BY <1>1, CallersAre DEF Init, StorageInit, All, CleanFiles, CleanMain, CleanIndex, CleanRequests, SpillStages,
           At, Nodes

\* Without faults the first run does not fail, whatever the threads do in
\* which order, and it leaves no chunk, no file and no index entry.
THEOREM FaultFreeRunsSucceed == Spec => []FaultFreeRunSucceeds
  <1>1. Init => CleanInv
    BY InitIsClean
  <1>2. OutOfCoreInv /\ CleanInv /\ [Next]_vars => CleanInv'
    BY StepsKeepClean
  <1>3. OutOfCoreInv /\ CleanInv => FaultFreeRunSucceeds
    <2> SUFFICES ASSUME OutOfCoreInv, CleanInv, FaultFree
                 PROVE  /\ stage # "failed"
                        /\ stage = "done" => published = {} /\ \A c \in Chunks : files[c] = "absent"
      BY DEF FaultFreeRunSucceeds, FaultFree
    <2>1. Clean
      BY DEF Clean, CleanInv
    <2>2. stage # "failed" /\ LayoutInv /\ RequestInv /\ LifeInv /\ \A w \in Workers : WorkerCall(w)
      BY <2>1, CleanFacts
    <2>3. ASSUME stage = "done" PROVE published = {} /\ \A c \in Chunks : files[c] = "absent"
      <3>1. \A w \in Workers : job[w] = 0
        BY <2>2, <2>3, QuietStages DEF SpillStages, LoadStages
      <3>2. \A w \in Workers : At(w, "idle")
        BY <2>2, <3>1 DEF WorkerCall
      <3>3. index = {}
        BY <2>1, <2>3 DEF Clean, CleanIndex
      <3> QED  BY <2>1, <3>2, <3>3 DEF Clean, CleanFiles, At
    <2> QED  BY <2>2, <2>3
  <1> QED  BY <1>1, <1>2, <1>3, OutOfCoreInvariant, PTL DEF Spec
=============================================================================
