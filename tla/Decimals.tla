------------------------------ MODULE Decimals ------------------------------
(***************************************************************************)
(* The decimal numbers of libcob (numeric.c): an integer of any length     *)
(* that stands for value * Radix^-scale.                                   *)
(***************************************************************************)
EXTENDS Integers, Sequences, FiniteSets, SequencesExt

CONSTANTS
  Radix,        \* values of a digit (10 in the code)
  DivideScale   \* decimals a division is carried to (37)

Abs(x) == IF x < 0 THEN -x ELSE x
SignOf(x) == IF x < 0 THEN -1 ELSE IF x > 0 THEN 1 ELSE 0

\* mpz_tdiv_q and C division: towards zero
Quotient(a, b) == SignOf(a) * SignOf(b) * (Abs(a) \div Abs(b))
Remainder(a, b) == a - b * Quotient(a, b)

\* most significant place first
Number(d, base) == FoldLeft(LAMBDA a, x : a * base + x, 0, d)
Numeral(v, base, len) == [i \in 1..len |-> (v \div base^(len - i)) % base]

Shift(d, n) ==
  [value |-> IF n >= 0 THEN d.value * Radix^n ELSE Quotient(d.value, Radix^(-n)),
   scale |-> d.scale + n]
Aligned(d, e) == IF d.scale < e.scale THEN Shift(d, e.scale - d.scale) ELSE d

DecimalAdd(d, e) ==
  [value |-> Aligned(d, e).value + Aligned(e, d).value, scale |-> Aligned(d, e).scale]
DecimalSub(d, e) ==
  [value |-> Aligned(d, e).value - Aligned(e, d).value, scale |-> Aligned(d, e).scale]
DecimalMul(d, e) == [value |-> d.value * e.value, scale |-> d.scale + e.scale]
DecimalCmp(d, e) == SignOf(Aligned(d, e).value - Aligned(e, d).value)
\* (d * Radix^k) / e, the whole part first
DecimalDiv(d, e) ==
  LET s == d.scale - e.scale
      k == DivideScale + IF s < 0 THEN -s ELSE 0
  IN  IF d.value = 0 THEN [value |-> 0, scale |-> 0]
      ELSE [value |-> Quotient(d.value, e.value) * Radix^k
                        + Quotient(Remainder(d.value, e.value) * Radix^k, e.value),
            scale |-> s + k]
=============================================================================
