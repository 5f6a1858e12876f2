------------------------------ MODULE Decimal ------------------------------
(***************************************************************************)
(* The fixed-point numbers of decimal.hpp, with both scaled back-ends.  A  *)
(* number is its raw integer, Scale of which make one, in Width bits; the  *)
(* code has 18 digits and 128 bits.  Int128 multiplies and divides in the  *)
(* same width, where the build wraps around; Wide has twice as many bits,  *)
(* enough for every product of two magnitudes.                             *)
(***************************************************************************)
EXTENDS Integers

CONSTANTS Digits,   \* decimal places kept
          Width     \* bits of Storage

ASSUME DecimalAssumption == Digits \in Nat /\ Width \in Nat \ {0}

\* True of every Digits and Width: arithmetic the provers do not know.
ASSUME PowerAssumption == /\ \A n \in 0 .. Digits : 10 ^ n \in Nat \ {0}
                          /\ 2 ^ (Width - 1) \in Nat \ {0}
                          /\ 2 ^ Width = 2 * 2 ^ (Width - 1)

Scale == 10 ^ Digits
FromInteger(integer) == integer * Scale

\* What a signed integer of Width bits makes of a result.
Stored(x) == ((x + 2 ^ (Width - 1)) % 2 ^ Width) - 2 ^ (Width - 1)

Abs(raw) == IF raw < 0 THEN Stored(-raw) ELSE raw

\* C++ division: towards zero.
Quotient(a, b) == IF a < 0 THEN -((-a) \div b) ELSE a \div b

\* WideType: Storage itself for Int128, 256 bits for Wide.
InWide(wide, x) == IF wide THEN x ELSE Stored(x)

Signed(magnitude, negative) ==
    IF negative THEN Stored(-Stored(magnitude)) ELSE Stored(magnitude)

Multiply(wide, lhs, rhs) ==
    Signed(Quotient(InWide(wide, Abs(lhs) * Abs(rhs)), Scale), (lhs < 0) # (rhs < 0))

\* A divisor of zero throws; no caller has one.
Divide(wide, lhs, rhs) ==
    Signed(Quotient(InWide(wide, Abs(lhs) * Scale), Abs(rhs)), (lhs < 0) # (rhs < 0))

-----------------------------------------------------------------------------
(* Text: [negative, whole, fraction, places], the fraction as the number   *)
(* its decimal places spell.                                               *)

\* The digits after the last place are cut off.
ToText(raw, precision) ==
    [negative |-> raw < 0,
     whole    |-> Abs(raw) \div Scale,
     fraction |-> (Abs(raw) % Scale) \div 10 ^ (Digits - precision),
     places   |-> precision]

\* Digits are filled up, or cut off, to what a number keeps.
FromString(text) ==
    LET fraction == IF text.places <= Digits
                    THEN text.fraction * 10 ^ (Digits - text.places)
                    ELSE text.fraction \div 10 ^ (text.places - Digits)
        raw == Stored(text.whole * Scale + fraction)
    IN  IF text.negative THEN Stored(-raw) ELSE raw

=============================================================================
