-------------------------- MODULE ArithmeticChecks --------------------------
(***************************************************************************)
(* The integer arithmetic of PrecisionPolicy and of the sampled            *)
(* verification against what it should compute: a counter runs through all *)
(* words, and each is the argument of every operation.                     *)
(***************************************************************************)
EXTENDS BBPSamples

CONSTANTS
    PerTerm,        \* <<scale, digits>>: 1000000 and 14181647 in the code
    PerDigit,       \* <<numerator, denominator>>: 3322 and 1000 in the code
    Guards,         \* numbers of guard digits
    Moduli,         \* a distance between moduli that are tried
    MaxSafeCount,   \* bound: ranges that samples are drawn from
    MaxSamples,     \* bound: samples asked for
    Draws           \* sequences of values of mix()

ASSUME ArithmeticAssumption ==
    /\ \A r \in {PerTerm, PerDigit} :
        r \in (Nat \ {0}) \X (Nat \ {0}) /\ (r[2] - 1) * r[1] <= Largest
    /\ Guards \subseteq 0 .. Largest
    /\ 99 * 83 <= Largest
    /\ {Moduli, MaxSafeCount, MaxSamples} \subseteq Nat \ {0}
    /\ \A d \in Draws : d \in Seq(0 .. Largest)

VARIABLE word

CountInit == word = 0

CountNext == word' = Wrap(word + 1)

CountSpec == CountInit /\ [][CountNext]_word
-----------------------------------------------------------------------------
CeilRatio(value, ratio) == (value * ratio[1] + ratio[2] - 1) \div ratio[2]

\* The plan in unbounded integers, or none if a number does not fit a word.
ExactPlan(requested, guard) ==
    LET working == requested + guard
        terms   == CeilRatio(working, PerTerm) + 1
        bits    == CeilRatio(working + 2, PerDigit) + Headroom
    IN  IF requested = 0 \/ guard < MinimumGuardDigits
            \/ \E x \in {working, working + 2, terms, bits} : x > Largest
        THEN Overflow
        ELSE [working |-> working, terms |-> terms, bits |-> bits]

\* No operation loses anything to the width of a word, up to the largest one:
\* the plan of terms and bits, the number of safe positions and the fractions of the
\* range are the exact ones, what does not fit is reported, every denominator
\* of the series up to the largest position can be represented, and the modular
\* powers are right for moduli of every size.
WordsAreExact ==
    /\ \A guard \in Guards :
        CreatePlan(word, guard, PerTerm, PerDigit) = ExactPlan(word, guard)
    /\ word > 2 =>
        SafePositionCount(word) = Lesser(((word - 2) * 83) \div 100, MaximumPosition + 1)
    /\ \A r \in {<<1, 4>>, <<1, 2>>, <<3, 4>>} :
        FractionOf(word, r[1], r[2]) = (word * r[1]) \div r[2]
    /\ word <= MaximumPosition + TailTerms =>
        \A offset \in {1, 4, 5, 6} : Denominator(word, offset) = 8 * word + offset
    /\ word > 0 /\ (word % Moduli = 1 \/ word > Largest - Moduli) =>
        \A e \in 0 .. 6 : Power16Modulo(e, word) = 16^e % word

\* The samples are different positions in ascending order, as many as asked for
\* or as there are, none past the safe ones, and they include the first
\* three and the quarters of the range whenever there is room for them.
SamplesAreSpread ==
    word \in 1 .. MaxSafeCount =>
        \A m \in 1 .. MaxSamples, d \in Draws :
            LET chosen == Select(word, m, d)
                found  == {chosen[i] : i \in DOMAIN chosen}
            IN  /\ Len(chosen) = Lesser(m, word)
                /\ found \subseteq 0 .. word - 1
                /\ \A i \in 2 .. Len(chosen) : chosen[i - 1] < chosen[i]
                /\ m >= 3 => 0 .. Lesser(3, word) - 1 \subseteq found
                /\ m >= 6 => {(k * (word - 1)) \div 4 : k \in 1 .. 3} \subseteq found

\* A digit that is extracted from a decimal is that of every number that
\* rounds to the decimal.
DigitsAreNotGuessed ==
    \A n \in 1 .. 3 : word < Power(10, n) =>
        \A position \in 0 .. 1 :
            LET digit == Extract(word, n, position)
            IN  digit # Unresolved =>
                    \A k \in -10 .. 10 :
                        ((20 * word + k) * Power(16, position + 1)) \div (20 * Power(10, n)) % 16 = digit

\* What the sampled check looks at: positions that are spread over the safe
\* range, exactly as many as there should be, and digits that the decimal
\* determines; an unresolved one is never guessed.
SamplesAreSound == SamplesAreSpread /\ DigitsAreNotGuessed
=============================================================================
