---------------------------- MODULE MCOutOfCore ----------------------------
EXTENDS OutOfCore, TLC

CONSTANTS w1, w2, main

\* Ranges of the calculation at each of its levels.
ChunksOfTerms ==
    {c \in [level : 0 .. Terms - 1, start : 0 .. Terms - 1, end : 1 .. Terms] : c.start < c.end}

WorkersAreAlike == Permutations(Workers)
=============================================================================
