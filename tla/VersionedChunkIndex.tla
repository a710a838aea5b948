------------------------ MODULE VersionedChunkIndex ------------------------
(***************************************************************************)
(* VersionedChunkIndex: for each chunk identity its versions, ordered by   *)
(* timestamp, and the byte form in which an index is saved.                *)
(*                                                                         *)
(* The bytes are a sequence of fields, whose encoding is abstract: a field *)
(* that is read as one of another kind is refused.                         *)
(***************************************************************************)
EXTENDS Integers, Sequences, FiniteSets

CONSTANTS
    Chunks,         \* chunk identities, in the order of the map
    ValidChunks,    \* those that ChunkIdentity::validate() accepts
    Formats,        \* format versions
    Timestamps,     \* times at which versions are added; a clock may repeat
    CountLimit,     \* how many values the stored count of versions has: 2^16
    MaxVersions,    \* bound: versions added
    NoVersion, Unsaved

ASSUME IndexAssumption ==
    /\ Chunks \in Seq({Chunks[i] : i \in DOMAIN Chunks})
    /\ \A i, j \in DOMAIN Chunks : i # j => Chunks[i] # Chunks[j]
    /\ Timestamps \subseteq Nat
    /\ CountLimit \in Nat \ {0} /\ MaxVersions \in Nat

VARIABLES
    versions,       \* versions_: identity to its entries, none if it is not in the map
    entries,        \* history: the entries the index should hold, for each identity
    serial,         \* versions added so far
    saved,          \* bytes of serialize(), or Unsaved
    savedEntries,   \* history: entries when they were saved
    whole           \* history: the saved bytes are as they were written

indexVars == <<versions, entries, serial, saved, savedEntries, whole>>

Ids == {Chunks[i] : i \in DOMAIN Chunks}

NoEntries == [c \in Ids |-> {}]

IndexInit ==
    /\ versions = [c \in Ids |-> <<>>] /\ entries = NoEntries
    /\ serial = 0
    /\ saved = Unsaved /\ savedEntries = NoEntries /\ whole = FALSE

Elements(s) == {s[i] : i \in DOMAIN s}
-----------------------------------------------------------------------------
\* std::sort by timestamp leaves entries of one time in any order.
Sorted(s) ==
    LET orders == {p \in [DOMAIN s -> DOMAIN s] : \A i, j \in DOMAIN s : i # j => p[i] # p[j]}
    IN  {t \in {[i \in DOMAIN s |-> s[p[i]]] : p \in orders} :
            \A i, j \in DOMAIN t : i < j => t[i].timestamp <= t[j].timestamp}

AddVersion(c, format, timestamp) ==
    LET entry == [serial |-> serial, format |-> format, timestamp |-> timestamp]
    IN  /\ serial < MaxVersions /\ serial' = serial + 1
        /\ \E t \in Sorted(Append(versions[c], entry)) : versions' = [versions EXCEPT ![c] = t]
        /\ entries' = [entries EXCEPT ![c] = @ \cup {entry}]
        /\ UNCHANGED <<saved, savedEntries, whole>>

Clear ==
    /\ versions' = [c \in Ids |-> <<>>] /\ entries' = NoEntries
    /\ UNCHANGED <<serial, saved, savedEntries, whole>>

GetLatestVersion(c) ==
    IF versions[c] = <<>> THEN NoVersion ELSE versions[c][Len(versions[c])]

\* The search from the end of getLatestVersionWithFormat().
GetLatestVersionWithFormat(c, format) ==
    LET matching == {i \in DOMAIN versions[c] : versions[c][i].format = format}
    IN  IF matching = {} THEN NoVersion
        ELSE versions[c][CHOOSE i \in matching : \A j \in matching : j <= i]
-----------------------------------------------------------------------------
(* serialize() and deserialize().                                          *)

Field(kind, value) == [kind |-> kind, value |-> value]

\* An identity of the map, the count of its versions in two bytes, and each
\* version.
SavedIdentity(c, own) ==
    IF own = <<>> THEN <<>>
    ELSE <<Field("identity", c), Field("count", Len(own) % CountLimit)>>
            \o [i \in DOMAIN own |-> Field("version", own[i])]

Serialized(index) ==
    LET upTo[i \in 0 .. Len(Chunks)] ==
            IF i = 0 THEN <<>> ELSE upTo[i - 1] \o SavedIdentity(Chunks[i], index[Chunks[i]])
    IN  <<Field("identities", Cardinality({c \in Ids : index[c] # <<>>}))>>
            \o upTo[Len(Chunks)]

Reads(bytes, at, kind) == at <= Len(bytes) /\ bytes[at].kind = kind

\* One round of the loop over the identities: whether there is an identity
\* with all of its versions at a place, and what follows it.
IdentityReadable(bytes, at) ==
    /\ Reads(bytes, at, "identity") /\ bytes[at].value \in ValidChunks
    /\ Reads(bytes, at + 1, "count")
    /\ \A k \in 1 .. bytes[at + 1].value : Reads(bytes, at + 1 + k, "version")

\* Where the next field is after i identities, 0 if the bytes are refused
\* before.
After(bytes, i) ==
    LET after[k \in 0 .. i] ==
            IF k = 0 THEN 2
            ELSE LET before == after[k - 1]
                 IN  IF before = 0 \/ ~IdentityReadable(bytes, before) THEN 0
                     ELSE before + 2 + bytes[before + 1].value
    IN  after[i]

\* deserializeInternal() refuses bytes that end too soon, hold something
\* else, or go on; the mutant ignores what is left over.
AcceptedWithRest(bytes) ==
    Reads(bytes, 1, "identities") /\ After(bytes, bytes[1].value) # 0

Accepted(bytes) ==
    Reads(bytes, 1, "identities") /\ After(bytes, bytes[1].value) = Len(bytes) + 1

\* What is read is added version by version, so sorted again.
Deserialized(bytes) ==
    [c \in Ids |->
        LET own == {i \in 1 .. bytes[1].value : bytes[After(bytes, i - 1)].value = c}
        IN  IF own = {} THEN <<>>
            ELSE LET at == After(bytes, (CHOOSE i \in own : TRUE) - 1)
                 IN  [k \in 1 .. bytes[at + 1].value |-> bytes[at + 1 + k].value]]

CountsFit(index) == \A c \in Ids : Cardinality(index[c]) < CountLimit

Serialize ==
    /\ saved' = Serialized(versions) /\ savedEntries' = entries /\ whole' = TRUE
    /\ UNCHANGED <<versions, entries, serial>>

\* The bytes may be cut before they are read again.
Truncate ==
    /\ saved # Unsaved /\ whole
    /\ \E k \in 0 .. Len(saved) - 1 : saved' = SubSeq(saved, 1, k)
    /\ whole' = FALSE
    /\ UNCHANGED <<versions, entries, serial, savedEntries>>

Deserialize ==
    /\ saved # Unsaved /\ Accepted(saved)
    /\ LET index == Deserialized(saved)
       IN  /\ versions' \in {f \in [Ids -> UNION {Sorted(index[c]) : c \in Ids}] :
                                \A c \in Ids : f[c] \in Sorted(index[c])}
           /\ entries' = IF whole \/ CountsFit(savedEntries) THEN savedEntries
                         ELSE [c \in Ids |-> Elements(index[c])]
    /\ UNCHANGED <<serial, saved, savedEntries, whole>>

IndexNext ==
    \/ \E c \in Ids, format \in Formats, timestamp \in Timestamps : AddVersion(c, format, timestamp)
    \/ Clear \/ Serialize \/ Truncate \/ Deserialize

IndexSpec == IndexInit /\ [][IndexNext]_indexVars
-----------------------------------------------------------------------------
(* Properties.                                                             *)

\* The index holds every version that was added and no other, and what is
\* called the latest version, or the latest of a format, is as late as any.
EntriesAreKept ==
    \A c \in Ids :
        /\ Elements(versions[c]) = entries[c] /\ Len(versions[c]) = Cardinality(entries[c])
        /\ \A e \in entries[c] :
            /\ GetLatestVersion(c).timestamp >= e.timestamp
            /\ LET latest == GetLatestVersionWithFormat(c, e.format)
               IN  latest.format = e.format /\ latest.timestamp >= e.timestamp

\* Bytes that were cut are refused, and whole ones can be read again, unless a
\* chunk had more versions than their count can tell or an identity was not
\* valid when its version was added.
SavedIndexIsReadable ==
    saved # Unsaved =>
        LET valid == \A c \in Ids \ ValidChunks : savedEntries[c] = {}
        IN  IF CountsFit(savedEntries)
            THEN Accepted(saved) <=> whole /\ valid
            ELSE whole => ~Accepted(saved)

\* No version is lost, doubled or taken for a later one, also when the index is
\* saved, cut and read again.  (Bytes that were cut behind a count that did not
\* fit may be read as an index with fewer versions.)
IndexKeepsVersions == EntriesAreKept /\ SavedIndexIsReadable
=============================================================================
