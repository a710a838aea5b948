---------------------------- MODULE MachineWords ----------------------------
(***************************************************************************)
(* uint64 as a word of Width bits, and the checked arithmetic with which   *)
(* PrecisionPolicy turns a digit count into a number of terms.             *)
(***************************************************************************)
EXTENDS Integers

CONSTANT Width

ASSUME WidthAssumption == Width \in Nat \ {0}

WordSize == 2^Width

\* A fact about powers, which the provers do not know.
ASSUME PowerIsPositive == WordSize \in Nat \ {0}

Largest == WordSize - 1

Wrap(x) == x % WordSize

\* base to the k-th power, for the numbers that GMP holds.
Power(base, k) ==
    LET power[i \in 0 .. k] == IF i = 0 THEN 1 ELSE base * power[i - 1]
    IN  power[k]

Lesser(a, b) == IF a < b THEN a ELSE b

\* What an operation that throws std::overflow_error gives.
Overflow == -1

CheckedAdd(left, right) ==
    IF left = Overflow \/ right = Overflow \/ right > Largest - left
    THEN Overflow
    ELSE left + right

\* ceil(value * multiplier / divisor).
MultiplyDivideCeil(value, multiplier, divisor) ==
    LET quotient == value \div divisor
        product  == Wrap((value % divisor) * multiplier)
        fraction == product \div divisor + (IF product % divisor # 0 THEN 1 ELSE 0)
    IN  IF value = Overflow \/ quotient > Largest \div multiplier THEN Overflow
        ELSE CheckedAdd(quotient * multiplier, fraction)

\* PrecisionPolicy::create(): working digits, one term more than they need at
\* perTerm[2] / perTerm[1] digits a term, and the bits of the working numbers.
Headroom == 64

MinimumGuardDigits == 16

CreatePlan(requested, guard, perTerm, perDigit) ==
    LET working == CheckedAdd(requested, guard)
        terms   == CheckedAdd(MultiplyDivideCeil(working, perTerm[1], perTerm[2]), 1)
        bits    == CheckedAdd(MultiplyDivideCeil(CheckedAdd(working, 2), perDigit[1], perDigit[2]),
                              Headroom)
    IN  IF requested = 0 \/ guard < MinimumGuardDigits \/ Overflow \in {working, terms, bits}
        THEN Overflow
        ELSE [working |-> working, terms |-> terms, bits |-> bits]
=============================================================================
