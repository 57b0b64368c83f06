------------------------------- MODULE Fixed -------------------------------
(***************************************************************************)
(* The checked arithmetic of prices, quantities and money                  *)
(* (internal/fixed/fixed.go) on two's-complement integers whose largest    *)
(* value is MaxInt: 2^63 - 1 in the program, any natural number here.      *)
(* Every sum, difference and product wraps as the machine's does, the ones *)
(* that the overflow guards themselves compute included.                   *)
(***************************************************************************)
EXTENDS Integers

CONSTANT MaxInt

MinInt == -MaxInt - 1
Int64  == MinInt..MaxInt

\* A result of the machine's arithmetic, signed and unsigned.
Wrap(x)  == ((x - MinInt) % (2 * MaxInt + 2)) + MinInt
UWrap(x) == x % (2 * MaxInt + 2)

Size(x) == IF x < 0 THEN -x ELSE x

\* Go's quotient: truncated toward zero.
Quo(a, b) ==
    LET q == Size(a) \div Size(b)
    IN  IF (a < 0) = (b < 0) THEN q ELSE -q

Ok(v) == [ok |-> TRUE, value |-> v]
Error == [ok |-> FALSE, value |-> 0]

Notional(a, b) ==
    IF a = 0 \/ b = 0 THEN Ok(0)
    ELSE IF \/ a > 0 /\ b > 0 /\ a > Quo(MaxInt, b)
            \/ a > 0 /\ b < 0 /\ b < Quo(MinInt, a)
            \/ a < 0 /\ b > 0 /\ a < Quo(MinInt, b)
            \/ a < 0 /\ b < 0 /\ a < Quo(MaxInt, b)
         THEN Error ELSE Ok(Wrap(a * b))

\* AddMoney, AddQty.
Add(a, b) ==
    IF \/ b > 0 /\ a > Wrap(MaxInt - b)
       \/ b < 0 /\ a < Wrap(MinInt - b)
    THEN Error ELSE Ok(Wrap(a + b))

\* NegMoney, NegQty.
Neg(v) == IF v = MinInt THEN Error ELSE Ok(Wrap(-v))

\* SubMoney, SubQty.
Sub(a, b) ==
    IF \/ b > 0 /\ a < Wrap(MinInt + b)
       \/ b < 0 /\ a > Wrap(MaxInt + b)
    THEN Error ELSE Ok(Wrap(a - b))

AbsQtyChecked(v) == IF v < 0 THEN Neg(v) ELSE Ok(v)

\* The magnitude as an unsigned integer: that of MinInt has no signed one.
Unsigned(v) == IF v < 0 THEN UWrap(UWrap(Wrap(-Wrap(v + 1))) + 1) ELSE v

\* scaleInt64(): the product has two words, of which the higher one must be
\* below the divisor for the quotient to fit one.
scaleInt64(v, numerator, denominator) ==
    LET product  == Unsigned(v) * numerator
        quotient == product \div denominator
        limit    == IF v < 0 THEN UWrap(MaxInt + 1) ELSE MaxInt
    IN  IF product \div (2 * MaxInt + 2) >= denominator \/ quotient > limit THEN Error
        ELSE IF v >= 0 THEN Ok(quotient)
        ELSE Ok(IF quotient = MaxInt + 1 THEN MinInt ELSE Wrap(-quotient))

\* ScaleMoney, ScalePrice.
Scale(v, numerator, denominator) ==
    IF denominator <= 0 \/ numerator < 0 THEN Error
    ELSE scaleInt64(v, numerator, denominator)

\* What each of them promises: the exact result, or an error where it cannot
\* be represented.
Exactly(x) == IF x \in Int64 THEN Ok(x) ELSE Error
=============================================================================
