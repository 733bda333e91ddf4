----------------------------- MODULE NumberText ------------------------------
(***************************************************************************)
(* constexpr/int_to_string.hpp: the text of an integer in base 2, 8, 10 or *)
(* 16, left aligned and without prefix or plus sign, the only formats of   *)
(* that header that compile.  A digit is its value, the sign is Minus.     *)
(***************************************************************************)
EXTENDS IntCodec, SequencesExt

Bases == {2, 8, 10, 16}
Minus == -1

Magnitude(v) == IF v < 0 THEN -v ELSE v

\* What is divided digit by digit: the bits of the value unless it is decimal.
Digital(t, v, base) == IF base = 10 THEN Magnitude(v) ELSE Narrow(t, v)

\* What n divisions by base leave of w, and how many bring it to zero.
Left(w, base, n) == LET left[k \in 0 .. n] == IF k = 0 THEN w ELSE left[k - 1] \div base
                    IN  left[n]
Divisions(w, base) ==
  CHOOSE n \in 0 .. w : Left(w, base, n) = 0 /\ (n > 0 => Left(w, base, n - 1) # 0)

\* Mutant of DigitsRequired: no room for the sign.
DigitsWithoutSign(t, v, base) ==
  Divisions(Digital(t, v, base), base) + (IF v = 0 THEN 1 ELSE 0)

DigitsRequired(t, v, base) ==
  Divisions(Digital(t, v, base), base)
    + (IF v = 0 \/ (v < 0 /\ base = 10) THEN 1 ELSE 0)

MaxDigitsRequired(t, base) ==
  DigitsRequired(t, IF t.signed THEN -(2^ValueBits(t)) ELSE UnsignedMax(t), base)

\* append_reversed_digits() stops where the buffer ends.
ReversedDigits(w, base, room) ==
  LET n == Divisions(w, base)
  IN  [k \in 1 .. IF n < room THEN n ELSE room |-> Left(w, base, k - 1) % base]

\* Of string<storage>; append_char() asserts that there is room for the sign.
IntToString(t, v, base, storage) ==
  LET digits == IF v = 0 THEN <<0>> ELSE ReversedDigits(Digital(t, v, base), base, storage - 1)
      sign   == IF v < 0 /\ base = 10 THEN <<Minus>> ELSE <<>>
  IN  Reverse(digits \o sign)
=============================================================================
