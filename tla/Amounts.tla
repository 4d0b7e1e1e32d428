------------------------------- MODULE Amounts -------------------------------
(***************************************************************************)
(* The amounts of utils.ts: base units to a decimal text and back, and the *)
(* amounts the write methods accept.                                       *)
(*                                                                         *)
(* A decimal text is its sign, the number before the point and the digits  *)
(* after it; the thousands separators, which toStroops() takes out, and    *)
(* the surrounding spaces are left out.  A text in scientific notation has *)
(* the digits of a decimal text, and the exponent.                         *)
(***************************************************************************)
EXTENDS Integers, Sequences, SequencesExt

CONSTANT NoAmount   (* The error thrown for what is no amount.             *)

ASSUME AmountsAssumption == NoAmount \notin Int

LOCAL Magnitude(n) == IF n < 0 THEN -n ELSE n

(* padStart(): n in `width` decimal digits. *)
AmountDigits(n, width) == [i \in 1..width |-> (n \div 10^(width - i)) % 10]

(* padEnd(). *)
PadEnd(digits, width) ==
  digits \o [i \in 1..(width - Len(digits)) |-> 0]

(* replace(/0+$/, ''). *)
WithoutTrailingZeros(digits) ==
  LET kept == {n \in 0..Len(digits) : \A i \in n + 1 .. Len(digits) : digits[i] = 0}
  IN SubSeq(digits, 1, CHOOSE n \in kept : \A m \in kept : n <= m)

DigitsValue(digits) == FoldLeft(LAMBDA n, d : 10 * n + d, 0, digits)
-----------------------------------------------------------------------------
(* formatUSDC().                                                           *)

(* Half a cent and more is rounded up, where the token has smaller units. *)
ToCents(amount, decimals) ==
  LET divisor == 10^(decimals - 2)
      remainder == amount % divisor
  IN IF decimals <= 2 THEN amount
     ELSE IF remainder >= divisor \div 2 THEN amount + divisor - remainder
     ELSE amount - remainder

FormatUSDC(stroops, decimals) ==
  LET base == 10^decimals
      rounded == ToCents(Magnitude(stroops), decimals)
  IN [negative |-> stroops < 0,
      whole |-> rounded \div base,
      fraction |->
        PadEnd(WithoutTrailingZeros(AmountDigits(rounded % base, decimals)), 2)]

(* formatTokenAmount(), of a number or a text of digits. *)
FormatTokenAmount(units, decimals) == FormatUSDC(units, decimals)
-----------------------------------------------------------------------------
(* toStroops().                                                            *)

Scientific(text) == "exponent" \in DOMAIN text

(* expandScientificNotation(): the digits with the point where the         *)
(* exponent moves it.                                                      *)
Expanded(text) ==
  LET digits == text.before \o text.after
      point == Len(text.before) + text.exponent
  IN [negative |-> text.negative,
      point |-> point < Len(digits),
      before |-> IF point <= 0 THEN <<0>> ELSE SubSeq(PadEnd(digits, point), 1, point),
      after |-> IF point <= 0 THEN [i \in 1..(-point) |-> 0] \o digits
                ELSE SubSeq(digits, point + 1, Len(digits))]

(* The texts without any digit: '', '-' and '.'; '-.' passes. *)
Empty(text) ==
  /\ text.before = <<>> /\ text.after = <<>>
  /\ ~(text.negative /\ text.point)

(* What is checked is the expanded text, what is parsed the given one: its *)
(* exponent is refused, as too many digits or by BigInt().                 *)
ToStroops(text, decimals) ==
  LET checked == IF Scientific(text) THEN Expanded(text) ELSE text
      fraction == WithoutTrailingZeros(text.after)
      total == DigitsValue(text.before) * 10^decimals
                 + DigitsValue(PadEnd(fraction, decimals))
  IN IF Empty(checked) \/ Scientific(text) \/ Len(fraction) > decimals THEN NoAmount
     ELSE IF text.negative THEN -total ELSE total

(* validateAmount() of SoroWillClient: digits alone, above zero. *)
ValidateAmount(text) ==
  IF \/ Scientific(text) \/ text.negative \/ text.point
     \/ text.before = <<>> \/ DigitsValue(text.before) = 0
  THEN NoAmount
  ELSE DigitsValue(text.before)
=============================================================================
