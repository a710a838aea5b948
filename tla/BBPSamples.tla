----------------------------- MODULE BBPSamples -----------------------------
(***************************************************************************)
(* The arithmetic of the sampled check of the final output: which          *)
(* hexadecimal positions BBPSamplePolicy selects, what                     *)
(* DecimalHexDigitExtractor reads from the decimal at a position, and the  *)
(* modular powers under BBPHexDigitCalculator.                             *)
(***************************************************************************)
EXTENDS MachineWords, Sequences, FiniteSets
-----------------------------------------------------------------------------
(* BBPSamplePolicy.                                                        *)

MaximumPosition == (Largest - 6) \div 8 - 65

\* How many leading hexadecimal positions the requested decimal digits
\* determine: 83 for 100 digits.  The mutant multiplies first.
SafePositionCountMultipliedFirst(requestedDigits) ==
    IF requestedDigits <= 2 THEN 0
    ELSE Lesser(Wrap((requestedDigits - 2) * 83) \div 100, MaximumPosition + 1)

SafePositionCount(requestedDigits) ==
    LET usable == requestedDigits - 2
        bound  == Wrap(Wrap((usable \div 100) * 83) + Wrap((usable % 100) * 83) \div 100)
    IN  IF requestedDigits <= 2 THEN 0 ELSE Lesser(bound, MaximumPosition + 1)

FractionOf(value, numerator, denominator) ==
    Wrap(Wrap((value \div denominator) * numerator)
            + Wrap((value % denominator) * numerator) \div denominator)

AddUnique(positions, position, safeCount, maximumSamples) ==
    IF \/ position >= safeCount
       \/ Len(positions) >= maximumSamples
       \/ \E i \in DOMAIN positions : positions[i] = position
    THEN positions
    ELSE Append(positions, position)

\* The positions the four loops of select() offer, in their order: early ones,
\* the quarters, those drawn from the identity, and every position in turn.
\* The mutant forgets the last loop.
Quarters(last) == <<FractionOf(last, 1, 4), FractionOf(last, 1, 2), FractionOf(last, 3, 4)>>

CandidatesWithoutProbing(safeCount, draws) ==
    <<0, 1, 2>> \o Quarters(safeCount - 1) \o [k \in DOMAIN draws |-> draws[k] % safeCount]

Candidates(safeCount, draws) ==
    <<0, 1, 2>> \o Quarters(safeCount - 1) \o [k \in DOMAIN draws |-> draws[k] % safeCount]
    \o [k \in 1 .. safeCount |-> k - 1]

\* std::sort of different numbers.
Ascending(S) ==
    [i \in 1 .. Cardinality(S) |-> CHOOSE x \in S : Cardinality({y \in S : y < x}) = i - 1]

\* select(): the loops end when there are maximumSamples positions, which is
\* when AddUnique adds no more.
Select(safeCount, maximumSamples, draws) ==
    LET offered == Candidates(safeCount, draws)
        taken[i \in 0 .. Len(offered)] ==
            IF i = 0 THEN <<>>
            ELSE AddUnique(taken[i - 1], offered[i], safeCount, maximumSamples)
        result == taken[Len(offered)]
    IN  IF safeCount = 0 THEN <<>> ELSE Ascending({result[i] : i \in DOMAIN result})
-----------------------------------------------------------------------------
(* DecimalHexDigitExtractor and BBPHexDigit.                               *)

Unresolved == -1

\* extract(): the hexadecimal digit at the position of every value that rounds
\* to numerator / 10^digits, or none if they differ.
Extract(numerator, digits, position) ==
    LET scale  == Power(16, position + 1)
        center == 2 * numerator * scale
        lower  == (center - scale) \div (2 * Power(10, digits))
        upper  == (center + scale) \div (2 * Power(10, digits))
    IN  IF lower = upper THEN lower % 16 ELSE Unresolved

\* The sum of two residues without overflow.
AddModulo(left, right, modulus) ==
    IF left >= modulus - right THEN left - (modulus - right) ELSE Wrap(left + right)

\* A product that fits a word is reduced; another is summed bit by bit, over
\* the <<right, base, result>> of the loop.
MultiplyModulo(left, right, modulus) ==
    LET sum[s \in Nat \X Nat \X Nat] ==
            IF s[1] = 0 THEN s[3]
            ELSE sum[<<s[1] \div 2,
                       IF s[1] \div 2 = 0 THEN s[2] ELSE AddModulo(s[2], s[2], modulus),
                       IF s[1] % 2 = 1 THEN AddModulo(s[3], s[2], modulus) ELSE s[3]>>]
    IN  IF left = 0 \/ right <= Largest \div left
        THEN Wrap(left * right) % modulus
        ELSE sum[<<right, left % modulus, 0>>]

\* The same over the <<exponent, base, result>> of power16Modulo().
Power16Modulo(exponent, modulus) ==
    LET power[s \in Nat \X Nat \X Nat] ==
            IF s[1] = 0 THEN s[3]
            ELSE power[<<s[1] \div 2,
                         IF s[1] \div 2 = 0 THEN s[2] ELSE MultiplyModulo(s[2], s[2], modulus),
                         IF s[1] % 2 = 1 THEN MultiplyModulo(s[3], s[2], modulus) ELSE s[3]>>]
    IN  power[<<exponent, 16 % modulus, 1 % modulus>>]

\* series() divides by these, for k up to position and 65 terms of the tail.
TailTerms == 65

Denominator(k, offset) == Wrap(8 * k + offset)
=============================================================================
