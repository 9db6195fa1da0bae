-------------------------------- MODULE CText ----------------------------------
(***************************************************************************)
(* What the C library makes of the text of a number, and the text it makes *)
(* of one.  A text is a sequence of characters, hexadecimal digits are in  *)
(* lower case.                                                             *)
(***************************************************************************)
EXTENDS Integers, Sequences, SequencesExt

CONSTANT
    LongBits    \* the width of a long

DecDigits == <<"0", "1", "2", "3", "4", "5", "6", "7", "8", "9">>
HexDigits == DecDigits \o <<"a", "b", "c", "d", "e", "f">>
DigitsOf(base) == SubSeq(HexDigits, 1, base)
DigitValue(c) == CHOOSE i \in 0..15 : HexDigits[i + 1] = c

Unsigned(digits, base) == FoldLeft(LAMBDA v, c : v * base + DigitValue(c), 0, digits)

LongMax == 2^(LongBits - 1) - 1
ULongMax == 2 * LongMax + 1

ASSUME CTextAssumption == LongBits \in Nat \ {0} /\ LongMax \in Nat

Clamped(v) == IF v > LongMax THEN LongMax ELSE IF v < -LongMax - 1 THEN -LongMax - 1 ELSE v

\* The number that a text is from its first character to its last, as every caller demands,
\* in base 0 with the base it says itself; the empty text is 0.  Blanks and a plus sign are
\* left out.
Number(text, base) ==
    LET negative == IsPrefix(<<"-">>, text)
        body == IF negative THEN Tail(text) ELSE text
        hex == base \in {0, 16} /\ IsPrefix(<<"0", "x">>, body) /\ Len(body) > 2
        digits == IF hex THEN SubSeq(body, 3, Len(body)) ELSE body
        radix == IF base # 0 THEN base
                 ELSE IF hex THEN 16 ELSE IF IsPrefix(<<"0">>, body) THEN 8 ELSE 10
    IN  IF \/ body = <<>> /\ negative
           \/ ~(\A i \in 1..Len(digits) : digits[i] \in ToSet(DigitsOf(radix)))
        THEN [ok |-> FALSE, value |-> 0]
        ELSE [ok |-> TRUE,
              value |-> IF negative THEN -Unsigned(digits, radix) ELSE Unsigned(digits, radix)]

Strtol(text, base) == [Number(text, base) EXCEPT !.value = Clamped(@)]

\* strtoul with base 0: a negative text is negated in the type, too large a number is its
\* greatest value, with a sign as well.
Strtoul(text) ==
    [Number(text, 0) EXCEPT !.value = IF @ \in -ULongMax..ULongMax THEN @ % (ULongMax + 1) ELSE ULongMax]

\* "%ld" and "%lu".
Decimal(v) ==
    LET a == IF v < 0 THEN -v ELSE v
        n == CHOOSE n \in 1..LongBits : 10^n > a /\ (n = 1 \/ 10^(n - 1) <= a)
        digits == [i \in 1..n |-> DecDigits[((a \div 10^(n - i)) % 10) + 1]]
    IN  IF v < 0 THEN <<"-">> \o digits ELSE digits
================================================================================
