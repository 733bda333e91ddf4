----------------------------- MODULE MaskedBits ------------------------------
(***************************************************************************)
(* The arithmetic on the bits of a mask: constexpr/masked_bits.hpp, the    *)
(* bit helpers of enum_ir.hpp and bit.hpp, and the numeric field that the  *)
(* renderer extracts with them.  A word is an unsigned integer of `Digits' *)
(* bits.  A loop that shifts bit after bit through a word is a function of *)
(* the number of its rounds.                                               *)
(***************************************************************************)
EXTENDS Integers, FiniteSetsExt

CONSTANT Digits   \* std::numeric_limits<unsigned>::digits of the value type

ASSUME DigitsAssumption == Digits \in Nat \ {0}

Modulus == 2^Digits
Word    == 0 .. Modulus - 1

Bit(v, i)   == (v \div 2^i) % 2 = 1
BitsOf(v)   == {i \in 0 .. Digits - 1 : Bit(v, i)}
WordOf(S, n) ==
  LET word[k \in 0 .. n] ==
        IF k = 0 THEN 0 ELSE word[k - 1] + IF k - 1 \in S THEN 2^(k - 1) ELSE 0
  IN  word[n]
FromBits(S) == WordOf(S, Digits)
And(v, w)   == FromBits(BitsOf(v) \cap BitsOf(w))
Or(v, w)    == FromBits(BitsOf(v) \cup BitsOf(w))

ToUnsigned(v) == v % Modulus
BitCast(v)    == IF Bit(v, Digits - 1) THEN v - Modulus ELSE v

LeastSetBitIndex(v) == Min(BitsOf(v))
MostSetBitIndex(v)  == Max(BitsOf(v))
CountBitsSet(v)     == Cardinality(BitsOf(v))
HasOnlyOneBitSet(v) == v # 0 /\ And(v, v - 1) = 0

\* How many bits of the mask lie below position i.
Rank(mask, i) == Cardinality({j \in BitsOf(mask) : j < i})

\* Shifting one more bit into a word, from its top.
ShiftIn(word, set) == word \div 2 + IF set THEN Modulus \div 2 ELSE 0

-----------------------------------------------------------------------------
(***************************************************************************)
(* condense() gathers the bits of the value that the mask selects at the   *)
(* top of a word and shifts them back, to bit 0 or to where the mask       *)
(* starts; expand() spreads them out again.                                *)
(***************************************************************************)
Gathered(mask, value) ==
  LET word[k \in 0 .. MostSetBitIndex(mask) + 1] ==
        IF k = 0 THEN 0
        ELSE IF Bit(mask, k - 1) THEN ShiftIn(word[k - 1], Bit(value, k - 1)) ELSE word[k - 1]
  IN  word[MostSetBitIndex(mask) + 1]

\* Mutant of ShiftBack: always to bit 0.
ShiftBackToBottom(mask, align_to_lsb) == Digits - CountBitsSet(mask)

ShiftBack(mask, align_to_lsb) ==
  Digits - CountBitsSet(mask) - IF align_to_lsb THEN 0 ELSE LeastSetBitIndex(mask)

\* ~(~0 >> shift): the bits that shifting back leaves free.
FreedBits(shift) == Modulus - 2^(Digits - shift)

Condense(mask, value, align_to_lsb, extend) ==
  LET gathered == Gathered(mask, value)
      shift    == ShiftBack(mask, align_to_lsb)
      negative == extend /\ Bit(gathered, Digits - 1)
  IN  gathered \div 2^shift + IF negative THEN FreedBits(shift) ELSE 0

\* The word after k rounds, and the bits that are left to spread.
Spread(mask, packed, min_bit, mask_span) ==
  LET step[k \in 0 .. mask_span] ==
        LET before == step[k - 1]
            selects == Bit(mask, min_bit + k - 1)
        IN  IF k = 0 THEN [word |-> 0, left |-> packed]
            ELSE [word |-> ShiftIn(before.word, selects /\ Bit(before.left, 0)),
                  left |-> IF selects THEN before.left \div 2 ELSE before.left]
  IN  step[mask_span].word

Expand(mask, value, read_from_lsb) ==
  LET min_bit   == LeastSetBitIndex(mask)
      mask_span == MostSetBitIndex(mask) - min_bit + 1
      packed    == IF read_from_lsb THEN value ELSE value \div 2^min_bit
  IN  Spread(mask, packed, min_bit, mask_span) \div 2^(Digits - mask_span - min_bit)

SignExtend(value, sign_bit_index) ==
  LET width_mask == 2^(sign_bit_index + 1) - 1
  IN  IF Bit(value, sign_bit_index) THEN BitCast(Or(value, Modulus - 1 - width_mask))
      ELSE And(value, width_mask)

\* encode_int()/read_scoped_value() of a compressed program.
ReadsAsScoped(scope, condensed) ==
  Condense(scope, Expand(scope, condensed, TRUE), TRUE, FALSE) = condensed

(***************************************************************************)
(* format_numeric_value(): the number that a Numeric command shows.  fmt   *)
(* says whether the bits are packed, shifted and signed; packed wins.      *)
(***************************************************************************)
FieldWord(mask, value, fmt) ==
  IF fmt.packed THEN Condense(mask, value, TRUE, FALSE)
  ELSE IF fmt.shifted THEN And(value, mask) \div 2^LeastSetBitIndex(mask)
  ELSE And(value, mask)

\* Mutant of SignBitIndex: a shifted field keeps the sign bit of its mask.
SignBitOfMask(mask, fmt) ==
  IF fmt.packed THEN CountBitsSet(mask) - 1 ELSE MostSetBitIndex(mask)

SignBitIndex(mask, fmt) ==
  IF fmt.packed THEN CountBitsSet(mask) - 1
  ELSE MostSetBitIndex(mask) - IF fmt.shifted THEN LeastSetBitIndex(mask) ELSE 0

RenderedNumber(mask, value, fmt) ==
  IF fmt.signed THEN SignExtend(FieldWord(mask, value, fmt), SignBitIndex(mask, fmt))
  ELSE FieldWord(mask, value, fmt)
=============================================================================
