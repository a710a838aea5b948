-------------------------- MODULE FinalVerification --------------------------
(***************************************************************************)
(* The last stages of main(): the decimal is written to the output file,   *)
(* FinalVerifier reads the file again in four stages, and a manifest with  *)
(* the hash of the output is published beside it if all of them pass.      *)
(* Later a client may load the manifest and verify the file against it.    *)
(*                                                                         *)
(* Each stage opens the file anew, so somebody else may change the file    *)
(* between two of them.  The process may be killed, and a power loss may   *)
(* cut the output, which is never synced.  The names of the two files are  *)
(* the caller's; nothing keeps them apart, and validate() refuses some.    *)
(*                                                                         *)
(* Bytes are numbers: the digits 0 to 9 stand for themselves.  SHA-256 is  *)
(* taken to have no collisions: a digest is the bytes it was taken of.     *)
(***************************************************************************)
EXTENDS BBPSamples

CONSTANTS
    PiDecimal,          \* the digits of pi after the point
    PiHex,              \* and those of its hexadecimal expansion
    ReferenceDigits,    \* PUBLISHED_REFERENCE_DIGITS, 100 in the code
    Requested,          \* digit counts a run may be asked for
    Results,            \* the decimals a calculation may end with, for a count
    MaximumSamples,     \* config.bbp_sample_count
    Options,            \* what a run may be asked to do about its files
    Seed,               \* the draws of identitySeed() and mix() for a count
    Contents,           \* what somebody else may put into the output file
    MaxChanges,         \* bound: changes and power losses by the environment
    None, Damaged

Digit == 0 .. 9

Point   == 10
NewLine == 11

\* A manifest begins with a letter; the rest of its bytes does not matter.
Letter == 12

ManifestText == <<Letter>>

\* plainName: the name of the output passes validate().  On POSIX a file may
\* be created under one name that does not, one with a backslash.
\* sameFile: --verification-manifest names the output file.
FileOptions == [plainName : BOOLEAN, sameFile : BOOLEAN]

Defaults == [plainName |-> TRUE, sameFile |-> FALSE]

ASSUME VerificationAssumption ==
    /\ PiDecimal \in Seq(Digit) /\ ReferenceDigits \in 1 .. Len(PiDecimal) - 1
    /\ PiHex \in Seq(0 .. 15)
    /\ Requested \subseteq 1 .. Len(PiDecimal) - 1
    /\ \A n \in Requested :
        /\ Results[n] \subseteq Seq(Nat) /\ Seed[n] \in Seq(Nat)
        /\ SafePositionCount(n) \in 0 .. Len(PiHex)
    /\ MaximumSamples \in 1 .. 32
    /\ Options \subseteq FileOptions
    /\ Contents \subseteq Seq(Nat) /\ None \notin Seq(Nat)
    /\ MaxChanges \in Nat

Numerator(fraction) ==
    LET value[i \in 0 .. Len(fraction)] ==
            IF i = 0 THEN 0 ELSE 10 * value[i - 1] + fraction[i]
    IN  value[Len(fraction)]

\* Facts about pi: it does not begin with a nine, rounding does not carry into
\* the reference from behind it, and where samples are taken the two
\* expansions are of one number.
ASSUME PiAssumption ==
    /\ PiDecimal[1] # 9
    /\ \A n \in Requested :
        n > ReferenceDigits /\ PiDecimal[n + 1] >= 5 =>
            \E i \in ReferenceDigits + 1 .. n : PiDecimal[i] # 9
    /\ \A n \in Requested : \A i \in 1 .. SafePositionCount(n) :
        PiHex[i] = ((Numerator(PiDecimal) * Power(16, i)) \div Power(10, Len(PiDecimal))) % 16

VARIABLES
    output,         \* bytes of the output file, or None
    manifest,       \* the verification manifest, None, or Damaged
    pc,             \* where main() or the client stands
    expected,       \* the digest a client verifies against, None in main()
    digits,         \* identity.requestedDigits
    decimal,        \* result->decimal
    options,        \* config.output_file and config.verification_manifest_file
    checks,         \* the status of each stage
    digest,         \* run.sha256: empty or the digest
    samples,        \* run.bbpSamples: the status at each position
    outcome,        \* how the last call ended
    quiet,          \* history: nobody changed the output since it was inspected
    clean,          \* history: nothing went wrong in this call
    changes         \* changes by the environment so far

report == <<checks, digest, samples>>
call   == <<expected, digits, decimal, options>>
verifyVars == <<output, manifest, pc, call, report, outcome, quiet, clean, changes>>

Stages == {"structure", "known", "hash", "bbp"}

Skipped == [stage \in Stages |-> "skipped"]

VerifyInit ==
    /\ output = None /\ manifest = None
    /\ pc = "idle" /\ outcome = "none"
    /\ expected = None /\ digits = 1 /\ decimal = <<>> /\ options = Defaults
    /\ checks = Skipped /\ digest = <<>> /\ samples = <<>>
    /\ quiet = FALSE /\ clean = FALSE
    /\ changes = 0
-----------------------------------------------------------------------------
(* What the stages find in a file.                                         *)

Readable(file) == file # None

Fraction(file, n) == SubSeq(file, 3, n + 2)

\* The loop of inspectFile() rejects the first byte that is out of place.
Misplaced(value, offset, n) ==
    \/ offset = 0 /\ value # 3
    \/ offset = 1 /\ value # Point
    \/ offset >= 2 /\ offset < n + 2 /\ value \notin Digit
    \/ offset = n + 2 /\ value # NewLine
    \/ offset >= n + 3

InspectFile(file, n) ==
    /\ Readable(file)
    /\ \A i \in DOMAIN file : ~Misplaced(file[i], i - 1, n)
    /\ Len(file) = n + 3

\* expectedPrefix(): the reference, rounded up in its last digit if all
\* requested digits are in it and the next one is 5 or more.
RoundedUp(prefix) ==
    LET nines == {i \in DOMAIN prefix : \A j \in i .. Len(prefix) : prefix[j] = 9}
        last  == Len(prefix) - Cardinality(nines)
    IN  [i \in DOMAIN prefix |->
            IF i \in nines THEN 0 ELSE IF i = last THEN prefix[i] + 1 ELSE prefix[i]]

Compared(n) == Lesser(n, ReferenceDigits)

\* The mutant truncates.
TruncatedPrefix(n) == SubSeq(PiDecimal, 1, Compared(n))

ExpectedPrefix(n) ==
    IF n <= ReferenceDigits /\ PiDecimal[n + 1] >= 5
    THEN RoundedUp(SubSeq(PiDecimal, 1, Compared(n)))
    ELSE SubSeq(PiDecimal, 1, Compared(n))

\* KnownDigitsVerifier::verify() of a file.  The mutant compares one digit
\* less.
KnownDigitsButLastMatch(file, n) ==
    /\ Readable(file) /\ Len(file) >= Compared(n) + 2
    /\ file[1] = 3 /\ file[2] = Point
    /\ SubSeq(file, 3, Compared(n) + 1) = SubSeq(ExpectedPrefix(n), 1, Compared(n) - 1)

KnownDigitsMatch(file, n) ==
    /\ Readable(file) /\ Len(file) >= Compared(n) + 2
    /\ file[1] = 3 /\ file[2] = Point
    /\ SubSeq(file, 3, Compared(n) + 2) = ExpectedPrefix(n)

\* SHA256::hashFilePrefix() of the canonical bytes.
Hashable(file, n) == Readable(file) /\ Len(file) >= n + 2

CanonicalBytes(file, n) == SubSeq(file, 1, n + 2)

\* DecimalHexDigitExtractor::fromFile() checks what it reads.
Framed(file, n) ==
    /\ Readable(file) /\ Len(file) = n + 3
    /\ file[1] = 3 /\ file[2] = Point /\ file[n + 3] = NewLine
    /\ \A i \in 3 .. n + 2 : file[i] \in Digit

Positions(n) == Select(SafePositionCount(n), MaximumSamples, Seed[n])

\* One sample; resolved tells whether the BBP series left no doubt.
SampleStatus(file, n, position, resolved) ==
    LET actual == Extract(Numerator(Fraction(file, n)), n, position)
    IN  IF ~resolved \/ actual = Unresolved THEN "inconclusive"
        ELSE IF actual # PiHex[position + 1] THEN "failed" ELSE "passed"

\* BBPHexDigitCalculator::calculate() may find its error bound too large at
\* any position.
Resolutions(n) == [DOMAIN Positions(n) -> BOOLEAN]

Sampled(file, n, resolved) ==
    [i \in DOMAIN Positions(n) |->
        [position |-> Positions(n)[i],
         status   |-> SampleStatus(file, n, Positions(n)[i], resolved[i])]]

Severity == [skipped |-> 0, passed |-> 1, inconclusive |-> 2, failed |-> 3]

\* The status of a report, and of the samples of a stage.
Worst(statuses) ==
    CHOOSE s \in statuses \cup {"skipped"} :
        \A t \in statuses : Severity[t] <= Severity[s]

Aggregate(sampled) ==
    IF sampled = <<>> THEN "skipped" ELSE Worst({sampled[i].status : i \in DOMAIN sampled})
-----------------------------------------------------------------------------
(* main().                                                                 *)

Fails == pc' = "idle" /\ outcome' = "failed"

\* The calculation is over, with the right decimal or a wrong one.
Calculate(n, result, chosen) ==
    /\ pc = "idle"
    /\ digits' = n /\ decimal' = result /\ options' = chosen /\ expected' = None
    /\ checks' = Skipped /\ digest' = <<>> /\ samples' = <<>>
    /\ quiet' = FALSE /\ clean' = TRUE
    /\ pc' = "open" /\ outcome' = "none"
    /\ UNCHANGED <<output, manifest, changes>>

OpenOutput ==
    /\ pc = "open"
    /\ \/ output' = <<>> /\ pc' = "write" /\ UNCHANGED <<outcome, clean>>
       \/ Fails /\ clean' = FALSE /\ UNCHANGED output
    /\ UNCHANGED <<manifest, call, report, quiet, changes>>

\* The stream is written and closed, or fails after some bytes.
WriteOutput ==
    /\ pc = "write"
    /\ \/ /\ output' = Append(decimal, NewLine)
          /\ pc' = "written" /\ UNCHANGED <<outcome, clean>>
       \/ /\ \E k \in 0 .. Len(decimal) : output' = SubSeq(decimal, 1, k)
          /\ Fails /\ clean' = FALSE
    /\ UNCHANGED <<manifest, call, report, quiet, changes>>

\* Verification may be switched off.
SkipVerification ==
    /\ pc = "written"
    /\ pc' = "idle" /\ outcome' = "unverified"
    /\ UNCHANGED <<output, manifest, call, report, quiet, clean, changes>>
-----------------------------------------------------------------------------
(* FinalVerifier::verifyFile().  A stage may also fail to read.            *)

InspectOutput ==
    /\ pc \in {"written", "load"}
    /\ quiet' = TRUE
    /\ \E read \in BOOLEAN :
        /\ clean' = (clean /\ read)
        /\ IF read /\ InspectFile(output, digits)
           THEN checks' = [Skipped EXCEPT !["structure"] = "passed"] /\ pc' = "known"
           ELSE checks' = [Skipped EXCEPT !["structure"] = "failed"] /\ pc' = "report"
    /\ digest' = <<>> /\ samples' = <<>>
    /\ UNCHANGED <<output, manifest, call, outcome, changes>>

VerifyKnownDigits ==
    /\ pc = "known" /\ pc' = "hash"
    /\ \E read \in BOOLEAN :
        /\ clean' = (clean /\ read)
        /\ checks' = [checks EXCEPT !["known"] =
                        IF read /\ KnownDigitsMatch(output, digits) THEN "passed" ELSE "failed"]
    /\ UNCHANGED <<output, manifest, call, digest, samples, outcome, quiet, changes>>

HashOutput ==
    /\ pc = "hash" /\ pc' = "bbp"
    /\ \E read \in BOOLEAN :
        /\ clean' = (clean /\ read)
        /\ IF read /\ Hashable(output, digits)
           THEN /\ digest' = <<CanonicalBytes(output, digits)>>
                /\ checks' = [checks EXCEPT !["hash"] = "passed"]
           ELSE checks' = [checks EXCEPT !["hash"] = "failed"] /\ UNCHANGED digest
    /\ UNCHANGED <<output, manifest, call, samples, outcome, quiet, changes>>

VerifySamples ==
    /\ pc = "bbp" /\ pc' = "report"
    /\ \E read \in BOOLEAN :
        IF read /\ Framed(output, digits)
        THEN \E resolved \in Resolutions(digits) :
                /\ samples' = Sampled(output, digits, resolved)
                /\ checks' = [checks EXCEPT !["bbp"] = Aggregate(samples')]
                /\ clean' = (clean /\ \A i \in DOMAIN resolved : samples'[i].status # "inconclusive")
        ELSE /\ checks' = [checks EXCEPT !["bbp"] = "failed"]
             /\ clean' = (clean /\ read)
             /\ UNCHANGED samples
    /\ UNCHANGED <<output, manifest, call, digest, outcome, quiet, changes>>

\* The overload for a stored digest replaces the hash check; the mutant
\* compares only the lengths.
MismatchOfLength == expected # None /\ digest # <<>> /\ Len(digest[1]) # Len(expected)

Mismatch == expected # None /\ digest # <<>> /\ digest[1] # expected

FinalChecks == IF Mismatch THEN [checks EXCEPT !["hash"] = "failed"] ELSE checks

ReportStatus == Worst({FinalChecks[stage] : stage \in Stages})

Report ==
    /\ pc = "report"
    /\ \/ expected # None /\ pc' = "idle" /\ outcome' = ReportStatus
       \/ expected = None /\ ReportStatus = "passed" /\ pc' = "publish" /\ UNCHANGED outcome
       \/ expected = None /\ ReportStatus # "passed" /\ Fails
    /\ UNCHANGED <<output, manifest, call, report, quiet, clean, changes>>
-----------------------------------------------------------------------------
(* The manifest.                                                           *)

\* VerificationManifest::fromRun() and validate().
Publishable ==
    /\ options.plainName
    /\ digest # <<>> /\ checks["known"] = "passed"
    /\ \A i \in DOMAIN samples : samples[i].status = "passed"
    /\ \A i \in DOMAIN samples : i > 1 => samples[i].position > samples[i - 1].position
    /\ Len(decimal) = digits + 2

\* quiet is not stored: it tells of which manifests more can be said.
NewManifest ==
    [digits    |-> digits,
     sha256    |-> digest[1],
     positions |-> [i \in DOMAIN samples |-> samples[i].position],
     quiet     |-> quiet]

\* The rename puts the manifest into its place, which may be that of the
\* output.  A manifest there is of no use to a client: it does not verify
\* against itself.
PutManifest(outputs) ==
    IF options.sameFile
    THEN output' = ManifestText /\ UNCHANGED manifest
    ELSE output' \in outputs /\ manifest' = NewManifest

\* VerificationManifestStore::save() replaces the file atomically.  It fails
\* before, or after if only the directory cannot be synced.  A clock that
\* stands at 1970, which validate() refuses, counts as a failure before.
SaveManifest ==
    /\ pc = "publish"
    /\ \/ /\ Publishable /\ PutManifest({output})
          /\ pc' = "idle" /\ outcome' = "completed" /\ UNCHANGED clean
       \/ /\ Publishable /\ PutManifest({output})
          /\ Fails /\ clean' = FALSE
       \/ /\ Publishable
          /\ Fails /\ clean' = FALSE /\ UNCHANGED <<output, manifest>>
       \/ ~Publishable /\ Fails /\ UNCHANGED <<output, manifest, clean>>
    /\ UNCHANGED <<call, report, quiet, changes>>

\* A client loads the manifest, which the decoder refuses if it is damaged,
\* and verifies the output against it.
LoadManifest ==
    /\ pc = "idle" /\ manifest # None
    /\ checks' = Skipped /\ digest' = <<>> /\ samples' = <<>>
    /\ quiet' = FALSE /\ clean' = FALSE /\ options' = Defaults
    /\ IF manifest = Damaged
       THEN pc' = "idle" /\ outcome' = "refused" /\ UNCHANGED <<expected, digits, decimal>>
       ELSE /\ pc' = "load" /\ outcome' = "none"
            /\ digits' = manifest.digits /\ expected' = manifest.sha256
            /\ UNCHANGED decimal
    /\ UNCHANGED <<output, manifest, changes>>
-----------------------------------------------------------------------------
(* The environment.                                                        *)

Changes == changes < MaxChanges /\ changes' = changes + 1 /\ clean' = FALSE

ChangeOutput ==
    /\ Changes
    /\ output' \in Contents \cup {None} /\ quiet' = FALSE
    /\ UNCHANGED <<manifest, pc, call, report, outcome>>

DamageManifest ==
    /\ Changes
    /\ manifest' \in {None, Damaged}
    /\ UNCHANGED <<output, pc, call, report, outcome, quiet>>

Kill ==
    /\ pc # "idle"
    /\ pc' = "idle" /\ outcome' = "killed"
    /\ UNCHANGED <<output, manifest, call, report, quiet, clean, changes>>

\* The output is written back late: any prefix of it may be what survives, of
\* a manifest in its place all.
Surviving ==
    IF output = ManifestText THEN {output} ELSE {SubSeq(output, 1, k) : k \in 0 .. Len(output)}

\* A manifest being saved is the old one or the new one.
PowerLoss ==
    /\ Changes
    /\ output # None /\ quiet' = FALSE
    /\ \/ output' \in Surviving /\ UNCHANGED manifest
       \/ pc = "publish" /\ Publishable /\ PutManifest(Surviving)
    /\ pc' = "idle" /\ outcome' = "killed"
    /\ UNCHANGED <<call, report>>

VerifyNext ==
    \/ \E n \in Requested : \E result \in Results[n], chosen \in Options : Calculate(n, result, chosen)
    \/ OpenOutput \/ WriteOutput \/ SkipVerification
    \/ InspectOutput \/ VerifyKnownDigits \/ HashOutput \/ VerifySamples \/ Report
    \/ SaveManifest \/ LoadManifest
    \/ ChangeOutput \/ DamageManifest \/ Kill \/ PowerLoss

VerifySpec == VerifyInit /\ [][VerifyNext]_verifyVars
-----------------------------------------------------------------------------
(* Properties.                                                             *)

\* What four passed stages say of canonical bytes.
Evident(bytes, n, positions) ==
    /\ Len(bytes) = n + 2
    /\ bytes[1] = 3 /\ bytes[2] = Point /\ \A i \in 3 .. n + 2 : bytes[i] \in Digit
    /\ SubSeq(bytes, 3, Compared(n) + 2) = ExpectedPrefix(n)
    /\ positions = Positions(n)
    /\ \A i \in DOMAIN positions :
        Extract(Numerator(Fraction(bytes, n)), n, positions[i]) = PiHex[positions[i] + 1]

\* Whatever runs, crashes, power losses and changes came before: a manifest that
\* can be loaded is the evidence of four passed stages over the very bytes
\* whose hash it holds, if nobody changed the output between the stages.
ManifestIsEvidence ==
    manifest \notin {None, Damaged} /\ manifest.quiet =>
        Evident(manifest.sha256, manifest.digits, manifest.positions)

\* Verifying a file against a manifest accepts it only if the file is the one
\* that was hashed, down to the last digit, even if the manifest is a stale
\* one of an earlier run, or was published while the output was changed.
RecheckIsSound ==
    outcome = "passed" /\ quiet =>
        /\ output = Append(expected, NewLine)
        /\ Evident(expected, digits, Positions(digits))

\* pi rounded to n places.
RightDecimal(n) ==
    LET places == Len(PiDecimal)
        pi     == Numerator(PiDecimal)
        scaled == (pi + 5 * Power(10, places - n - 1)) \div Power(10, places - n)
    IN  <<3, Point>> \o [i \in 1 .. n |-> (scaled \div Power(10, n - i)) % 10]

\* What a run with the right decimal comes to if reading and writing succeed,
\* nobody interferes and no sample is inconclusive.  It is completed exactly
\* if validate() takes the name of its output; its output holds the decimal,
\* unless the run is completed and the manifest has the same name, which then
\* replaces it; and otherwise the manifest holds the hash of the decimal.
CleanRunPublishes ==
    clean /\ decimal = RightDecimal(digits) /\ outcome \in {"completed", "failed"} =>
        /\ outcome = "completed" <=> options.plainName
        /\ output = IF outcome = "completed" /\ options.sameFile
                    THEN ManifestText ELSE Append(decimal, NewLine)
        /\ outcome = "completed" /\ ~options.sameFile =>
              manifest.sha256 = decimal /\ manifest.digits = digits
=============================================================================
