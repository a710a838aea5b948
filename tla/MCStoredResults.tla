-------------------------- MODULE MCStoredResults --------------------------
(***************************************************************************)
(* What is written to disk and what is accepted when it is read again:     *)
(* records of integers, the versioned index, the output and its manifest,  *)
(* and the arithmetic under them.  The four parts share no state, so each  *)
(* behaviour exercises one of them.                                        *)
(***************************************************************************)
EXTENDS ArithmeticChecks, FinalVerification, RecordFormats, VersionedChunkIndex, TLC

VARIABLE subject

MCPerTerm == <<10, 141>>

MCPerDigit == <<33, 10>>

MCDraws == {[k \in 1 .. 28 |-> (37 * k) % 64], [k \in 1 .. 28 |-> 5]}

MCPiDecimal == <<1, 4, 1, 5, 9, 2, 6>>

MCPiHex == <<2, 4, 3, 15, 6>>

MCRequested == {1, 3, 5}

\* The right decimal, and one with a wrong last digit.
MCResults ==
    [n \in MCRequested |->
        {RightDecimal(n), [RightDecimal(n) EXCEPT ![n + 2] = (@ + 3) % 10]}]

MCSeed == [n \in MCRequested |-> [k \in 1 .. 8 |-> 3 * k + n]]

\* pi.txt; a\b; and pi.txt with --verification-manifest pi.txt.
Backslash == {[plainName |-> FALSE, sameFile |-> FALSE]}

SameFile == {[plainName |-> TRUE, sameFile |-> TRUE]}

MCOptions == {Defaults} \cup Backslash \cup SameFile

\* The right output, one wrong digit, a byte that is no digit, no newline,
\* something in the place of the newline.
MCContents ==
    LET right == Append(RightDecimal(5), NewLine)
    IN  {right, [right EXCEPT ![4] = 8], [right EXCEPT ![5] = 12],
         RightDecimal(5), [right EXCEPT ![8] = 7]}

MCPlan == 1 :> [working |-> 2, terms |-> 2]

\* One of the two ranges is past the last term.
MCRanges == {[start |-> 0, end |-> 1, level |-> 0], [start |-> 1, end |-> 3, level |-> 0]}

MCIntegers3 == {-5, 0, 6} \X {1} \X {0, 5}

MCChunks == <<1, 2, 3>>

StoredInit ==
    /\ subject \in {"arithmetic", "output", "records", "index"}
    /\ CountInit /\ VerifyInit /\ RecordInit /\ IndexInit

StoredNext ==
    /\ UNCHANGED subject
    /\ \/ /\ subject = "arithmetic" /\ CountNext
          /\ UNCHANGED <<verifyVars, recordVars, indexVars>>
       \/ /\ subject = "output" /\ VerifyNext
          /\ UNCHANGED <<word, recordVars, indexVars>>
       \/ /\ subject = "records" /\ RecordNext
          /\ UNCHANGED <<word, verifyVars, indexVars>>
       \/ /\ subject = "index" /\ IndexNext
          /\ UNCHANGED <<word, verifyVars, recordVars>>

StoredSpec == StoredInit /\ [][StoredNext]_<<subject, word, verifyVars, recordVars, indexVars>>
=============================================================================
