--------------------------- MODULE RecordFormats ---------------------------
(***************************************************************************)
(* The two formats that hold the integers P, Q and T of a range of terms:  *)
(* checkpoint blocks and runtime chunks.  A client encodes a record,       *)
(* somebody may alter fields of it, and a client decodes what is left.     *)
(*                                                                         *)
(* A record is its fields.  What the decoders compare with a constant      *)
(* (magic, version, header size, flags, reserved fields, length and kind   *)
(* of the checksum) is one field `frame`, TRUE if all of it is as written. *)
(* A digit of a magnitude is a byte of Radix values.  CRC32C is taken to   *)
(* have no collisions: a checksum is the record it was calculated of.      *)
(***************************************************************************)
EXTENDS MachineWords, Sequences

CONSTANTS
    Radix,              \* 256 in the code
    MaxPayload,         \* maxChunkPayloadBytes
    Plan,               \* PrecisionPolicy: requested digits to a plan
    Ranges,             \* locations that are encoded, valid or not
    Integers3,          \* triples <<P, Q, T>> that are encoded
    MaxEdits,           \* bound: alterations of a record
    Missing, Rejected

ASSUME RecordAssumption ==
    /\ Radix \in Nat \ {0, 1} /\ MaxPayload \in 1 .. Largest
    /\ Integers3 \subseteq Int \X Int \X Int
    /\ MaxEdits \in Nat

ASSUME RejectedAssumption ==
    Rejected \notin Seq(0 .. Radix - 1) /\ Rejected \notin [1 .. 3 -> Int]

VARIABLES
    record,         \* the stored record, Missing, or Rejected by the encoder
    encoded,        \* history: what was encoded
    edits,          \* alterations so far
    decoded         \* what the last decode gave, Missing, or Rejected

recordVars == <<record, encoded, edits, decoded>>

RecordInit == record = Missing /\ encoded = Missing /\ edits = 0 /\ decoded = Missing

Three == 1 .. 3
-----------------------------------------------------------------------------
(* GMPSerialization.                                                       *)

Absolute(v) == IF v < 0 THEN -v ELSE v

SignOf(v) == IF v = 0 THEN "zero" ELSE IF v > 0 THEN "positive" ELSE "negative"

MagnitudeSize(v) ==
    IF v = 0 THEN 0
    ELSE CHOOSE k \in 1 .. Absolute(v) :
            Power(Radix, k - 1) <= Absolute(v) /\ Absolute(v) < Power(Radix, k)

ExportMagnitude(v) ==
    [i \in 1 .. MagnitudeSize(v) |->
        (Absolute(v) \div Power(Radix, MagnitudeSize(v) - i)) % Radix]

\* What decode() accepts; the mutant takes a leading zero.
CanonicalOrPadded(sign, magnitude) ==
    \/ sign = "zero" /\ magnitude = <<>>
    \/ sign \in {"positive", "negative"} /\ magnitude # <<>>

Canonical(sign, magnitude) ==
    \/ sign = "zero" /\ magnitude = <<>>
    \/ sign \in {"positive", "negative"} /\ magnitude # <<>> /\ magnitude[1] # 0

Import(sign, magnitude) ==
    LET value[i \in 0 .. Len(magnitude)] ==
            IF i = 0 THEN 0 ELSE Radix * value[i - 1] + magnitude[i]
    IN  IF sign = "negative" THEN -value[Len(magnitude)] ELSE value[Len(magnitude)]
-----------------------------------------------------------------------------
(* Identities and locations.                                               *)

\* ComputationIdentity::validate(): the plan must be that of the policy.
ValidIdentity(identity) ==
    identity.requested \in DOMAIN Plan /\ identity.plan = Plan[identity.requested]

ValidLocation(location, identity) ==
    location.start < location.end /\ location.end <= identity.plan.terms

IdentityOf(requested) == [requested |-> requested, plan |-> Plan[requested]]
-----------------------------------------------------------------------------
(* What both formats share.                                                *)

\* CanonicalPayload: the three magnitudes one after the other.
CanonicalPayload(values) ==
    ExportMagnitude(values[1]) \o ExportMagnitude(values[2]) \o ExportMagnitude(values[3])

Header(format, identity, location, compression, uncompressed, stored, values) ==
    [format       |-> format,
     frame        |-> TRUE,
     identity     |-> identity,
     location     |-> location,
     compression  |-> compression,
     uncompressed |-> uncompressed,
     stored       |-> stored,
     signs        |-> [i \in Three |-> SignOf(values[i])],
     lengths      |-> [i \in Three |-> MagnitudeSize(values[i])],
     checksum     |-> 0,
     payload      |-> <<>>]

\* The checksum is calculated with its own slot zeroed.
ChecksumOf(r) == [r EXCEPT !.checksum = 0]

Sealed(r) == [r EXCEPT !.checksum = ChecksumOf(r)]

TotalLength(lengths) == CheckedAdd(CheckedAdd(lengths[1], lengths[2]), lengths[3])

\* The Reader hands out the magnitudes in turn.
Magnitudes(lengths, payload) ==
    << SubSeq(payload, 1, lengths[1]),
       SubSeq(payload, lengths[1] + 1, lengths[1] + lengths[2]),
       SubSeq(payload, lengths[1] + lengths[2] + 1, lengths[1] + lengths[2] + lengths[3]) >>

\* The decoders fail unless the lengths add up and each integer is canonical.
IntegersIn(signs, lengths, payload) ==
    LET parts == Magnitudes(lengths, payload)
    IN  IF TotalLength(lengths) = Len(payload) /\ \A i \in Three : Canonical(signs[i], parts[i])
        THEN [i \in Three |-> Import(signs[i], parts[i])]
        ELSE Rejected
-----------------------------------------------------------------------------
(* CompressionCodec.  LZ4 is a library: here a short run of one byte is    *)
(* stored as its length and the byte, everything else after a mark.        *)

Run     == 0
Literal == 1

LZ4Compress(bytes) ==
    IF Len(bytes) \in 2 .. Radix - 1 /\ \A i \in DOMAIN bytes : bytes[i] = bytes[1]
    THEN <<Run, Len(bytes), bytes[1]>>
    ELSE <<Literal>> \o bytes

LZ4Decompress(bytes) ==
    IF bytes # <<>> /\ bytes[1] = Literal THEN Tail(bytes)
    ELSE IF Len(bytes) = 3 /\ bytes[1] = Run THEN [i \in 1 .. bytes[2] |-> bytes[3]]
    ELSE Rejected

Compress(algorithm, bytes) == IF algorithm = "none" THEN bytes ELSE LZ4Compress(bytes)

\* The output must have the size that the metadata announce.
Decompress(algorithm, bytes, size) ==
    LET output == IF algorithm = "none" THEN bytes ELSE LZ4Decompress(bytes)
    IN  IF output = Rejected THEN Rejected
        ELSE IF size <= MaxPayload /\ Len(output) = size THEN output ELSE Rejected
-----------------------------------------------------------------------------
(* CheckpointBlockCodec.                                                   *)

\* checkedPayloadSize() refuses lengths whose sum does not fit.
EncodeBlock(identity, location, values) ==
    LET header == Header("block", identity, location, "none", 0, 0, values)
    IN  IF /\ ValidIdentity(identity) /\ ValidLocation(location, identity)
           /\ TotalLength(header.lengths) # Overflow
        THEN Sealed([header EXCEPT !.payload = CanonicalPayload(values)])
        ELSE Rejected

BlockAcceptable(r) ==
    /\ r.frame /\ ValidIdentity(r.identity) /\ ValidLocation(r.location, r.identity)
    /\ r.checksum = ChecksumOf(r)

Contents3(r, values) ==
    IF values = Rejected THEN Rejected
    ELSE [format |-> r.format, identity |-> r.identity, location |-> r.location,
          compression |-> r.compression, values |-> values]

DecodeBlock(r) ==
    IF BlockAcceptable(r) THEN Contents3(r, IntegersIn(r.signs, r.lengths, r.payload))
    ELSE Rejected
-----------------------------------------------------------------------------
(* ChunkCodec and BinaryNodeChunkAdapter.                                  *)

ValidMetadata(metadata) ==
    /\ ValidIdentity(metadata.identity)
    /\ ValidLocation(metadata.location, metadata.identity)
    /\ metadata.uncompressed <= MaxPayload /\ metadata.stored <= MaxPayload
    /\ metadata.compression \in {"none", "lz4"}

ChunkHeader(metadata, values) ==
    Header("chunk", metadata.identity, metadata.location, metadata.compression,
           metadata.uncompressed, metadata.stored, values)

ChunkRecord(metadata, values) ==
    [ChunkHeader(metadata, values)
        EXCEPT !.payload = Compress(metadata.compression, CanonicalPayload(values))]

\* createMetadata(), which toChunk() calls for a node.
CreateMetadata(identity, location, compression, values) ==
    LET sized == [identity     |-> identity,
                  location     |-> location,
                  compression  |-> compression,
                  uncompressed |-> Len(CanonicalPayload(values)),
                  stored       |-> Len(Compress(compression, CanonicalPayload(values))),
                  checksum     |-> 0]
    IN  [sized EXCEPT !.checksum = ChunkRecord(sized, values)]

\* encode() refuses metadata that were made of other integers.
EncodeChunk(metadata, values) ==
    LET r == ChunkRecord(metadata, values)
    IN  IF /\ ValidMetadata(metadata)
           /\ metadata.uncompressed = Len(CanonicalPayload(values))
           /\ metadata.stored = Len(r.payload)
           /\ metadata.checksum = ChecksumOf(r)
        THEN Sealed(r)
        ELSE Rejected

ChunkAcceptable(r) ==
    /\ r.frame /\ ValidMetadata(r)
    /\ \A i \in Three : r.lengths[i] <= MaxPayload
    /\ r.stored = Len(r.payload) /\ r.checksum = ChecksumOf(r)

DecodeChunk(r) ==
    LET payload == Decompress(r.compression, r.payload, r.uncompressed)
    IN  IF ~ChunkAcceptable(r) THEN Rejected
        ELSE IF payload = Rejected THEN Rejected
        ELSE Contents3(r, IntegersIn(r.signs, r.lengths, payload))
-----------------------------------------------------------------------------
(* Clients and the disk.                                                   *)

Remember(format, identity, location, compression, values) ==
    encoded' = [format |-> format, identity |-> identity, location |-> location,
                compression |-> compression, values |-> values]

WriteBlock(requested, location, values) ==
    /\ record = Missing
    /\ record' = EncodeBlock(IdentityOf(requested), location, values)
    /\ Remember("block", IdentityOf(requested), location, "none", values)
    /\ UNCHANGED <<edits, decoded>>

\* The metadata may have been made before the integers changed.
WriteChunk(requested, location, compression, earlier, values) ==
    /\ record = Missing
    /\ record' = EncodeChunk(CreateMetadata(IdentityOf(requested), location, compression, earlier), values)
    /\ Remember("chunk", IdentityOf(requested), location, compression, values)
    /\ UNCHANGED <<edits, decoded>>

\* What one alteration can make of a record.  The checksum may fit the
\* altered record, as that of a file written by other code would.
Altered(r) ==
    {[r EXCEPT !.frame = FALSE],
     [r EXCEPT !.identity.plan.terms = @ + 1],
     [r EXCEPT !.location.end = @ + 1],
     [r EXCEPT !.payload = IF @ = <<>> THEN @ ELSE Tail(@)],
     [r EXCEPT !.payload = Append(@, 1)]}
    \cup {[r EXCEPT !.signs[i] = s] : i \in Three, s \in {"zero", "positive", "negative", "unknown"}}
    \cup {[r EXCEPT !.lengths[i] = n] : i \in Three, n \in {0, 1, 2, Largest}}
    \cup {[r EXCEPT !.payload[i] = b] : i \in DOMAIN r.payload, b \in {0, 1}}
    \cup (IF r.format = "block" THEN {}
          ELSE {[r EXCEPT !.stored = @ + 1], [r EXCEPT !.stored = Len(r.payload)],
                [r EXCEPT !.uncompressed = @ + 1],
                [r EXCEPT !.compression = "unknown"],
                [r EXCEPT !.compression = "none"]})

Alter ==
    /\ record \notin {Missing, Rejected} /\ decoded = Missing /\ edits < MaxEdits
    /\ \E r \in Altered(record) : record' \in {r, Sealed(r)}
    /\ edits' = edits + 1
    /\ UNCHANGED <<encoded, decoded>>

Decode ==
    /\ record \notin {Missing, Rejected} /\ decoded = Missing
    /\ decoded' = IF record.format = "block" THEN DecodeBlock(record) ELSE DecodeChunk(record)
    /\ UNCHANGED <<record, encoded, edits>>

Discard ==
    /\ record # Missing
    /\ record' = Missing /\ encoded' = Missing /\ edits' = 0 /\ decoded' = Missing

RecordNext ==
    \/ \E requested \in DOMAIN Plan, location \in Ranges, values \in Integers3 :
        \/ WriteBlock(requested, location, values)
        \/ \E compression \in {"none", "lz4"}, earlier \in Integers3 :
            WriteChunk(requested, location, compression, earlier, values)
    \/ Alter \/ Decode \/ Discard

RecordSpec == RecordInit /\ [][RecordNext]_recordVars
-----------------------------------------------------------------------------
(* Properties.                                                             *)

Encode(c) ==
    IF c.format = "block" THEN EncodeBlock(c.identity, c.location, c.values)
    ELSE EncodeChunk(CreateMetadata(c.identity, c.location, c.compression, c.values), c.values)

\* The decoders accept exactly what the encoders write.  Every record that an
\* encoder wrote, with metadata that may be of other integers, is decoded to
\* what was encoded; and a record that is accepted after any alterations is
\* byte for byte the encoding of what it was decoded to.  LZ4 has several forms
\* of the same bytes, so a compressed chunk may differ in the compressed bytes,
\* and then in their number and the checksum, but in nothing else.
DecodersAreExact ==
    decoded # Missing =>
        /\ edits = 0 => decoded = encoded
        /\ decoded # Rejected =>
            LET canonical == Encode(decoded)
            IN  \/ record = canonical
                \/ /\ record.compression = "lz4"
                   /\ record = [canonical EXCEPT !.payload  = record.payload,
                                                 !.stored   = record.stored,
                                                 !.checksum = record.checksum]
=============================================================================
