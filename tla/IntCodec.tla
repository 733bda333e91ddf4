------------------------------ MODULE IntCodec -------------------------------
(***************************************************************************)
(* constexpr/int_codec.hpp: integers as fixed-width little-endian bytes    *)
(* and as dints, groups of `Payload' bits with a continuation bit, least   *)
(* significant first.  In the source a group has 7 bits and a byte 8.      *)
(* An integer type is [digits, signed]: the width of its unsigned form in  *)
(* bits, a multiple of a byte, and whether it has a sign.                  *)
(***************************************************************************)
EXTENDS Integers, Sequences, FiniteSetsExt

CONSTANT Payload

ASSUME PayloadAssumption == Payload \in Nat \ {0, 1}

IsIntType(t) ==
  t.digits \in Nat \ {0} /\ t.digits % (Payload + 1) = 0 /\ t.signed \in BOOLEAN

Group        == 2^Payload        \* also the continuation bit of a byte
ByteValues   == 2 * Group
Byte         == 0 .. ByteValues - 1
SignBit      == 2^(Payload - 1)  \* of the group that ends a signed dint
SizeOf(t)    == t.digits \div (Payload + 1)
UnsignedMax(t) == 2^t.digits - 1
ValueBits(t) == IF t.signed THEN t.digits - 1 ELSE t.digits
Values(t)    == IF t.signed THEN -(2^ValueBits(t)) .. 2^ValueBits(t) - 1 ELSE 0 .. UnsignedMax(t)

Narrow(t, v)   == v % 2^t.digits
FromWord(t, w) == IF t.signed /\ w >= 2^ValueBits(t) THEN w - 2^t.digits ELSE w

Continues(byte) == byte >= Group
GroupOf(byte)   == byte % Group

\* The bits from group k, or from byte k, of a word on.
FromGroup(bits, k) == bits \div 2^(Payload * (k - 1))
FromByte(bits, k)  == bits \div 2^((Payload + 1) * (k - 1))

-----------------------------------------------------------------------------
EncodeInt(t, v) ==
  [k \in 1 .. SizeOf(t) |-> FromByte(Narrow(t, v), k) % ByteValues]

\* decode_int(): asserts that the bytes are there.
DecodeInt(t, bytes, from) ==
  LET word[k \in 0 .. SizeOf(t)] ==
        IF k = 0 THEN 0 ELSE word[k - 1] + bytes[from + k - 1] * 2^((Payload + 1) * (k - 1))
  IN  FromWord(t, word[SizeOf(t)])

\* The groups that do ... while (v) writes: one, and each further one that has bits left.
GroupCount(t, bits) ==
  Max({1} \cup {n \in 1 .. t.digits \div Payload + 1 : FromGroup(bits, n) # 0})

\* A negative value is written with its bits inverted, its sign in the last
\* group.  If that group has no bit to spare, a group for the sign follows.
EncodeDint(t, v) ==
  LET bits     == IF v < 0 THEN -v - 1 ELSE v
      n        == GroupCount(t, bits)
      full     == t.signed /\ FromGroup(bits, n) >= SignBit
      size     == IF full THEN n + 1 ELSE n
      payload(k) == FromGroup(bits, k) % Group
      flag(k)  == IF k < size THEN Group ELSE IF v < 0 THEN SignBit ELSE 0
  IN  [k \in 1 .. size |-> payload(k) + flag(k)]

\* Mutant of MaxDintSize: without the group for the sign.
MaxDintSizeUnsigned(t) == (ValueBits(t) + Payload - 1) \div Payload

MaxDintSize(t) ==
  (ValueBits(t) + Payload - 1) \div Payload
    + IF t.signed /\ ValueBits(t) % Payload = 0 THEN 1 ELSE 0

-----------------------------------------------------------------------------
(***************************************************************************)
(* decode_dint(): finds the byte that ends the dint, then goes back from   *)
(* it.  A failure is thrown or, with NoThrow, leaves the cursor where it   *)
(* was; both show as next = from here.                                     *)
(***************************************************************************)
Failed(from) == [next |-> from, value |-> 0]

Ends(bytes, from) == {k \in from .. Len(bytes) : ~Continues(bytes[k])}
LastByte(bytes, from) == CHOOSE k \in Ends(bytes, from) : \A j \in Ends(bytes, from) : k <= j

\* Mutant of Overflows: one bit late.
OverflowsLate(t, word) == word >= 2^(t.digits - Payload + 1)

\* Any of the upper `Payload' bits of the word: another group does not fit.
Overflows(t, word) == word >= 2^(t.digits - Payload)

DecodeDint(t, bytes, from) ==
  LET last == LastByte(bytes, from)
      top  == IF t.signed THEN GroupOf(bytes[last]) % SignBit ELSE GroupOf(bytes[last])
      negative == t.signed /\ GroupOf(bytes[last]) >= SignBit
      \* [ok, word] when the groups from byte k on have been read
      read[k \in from .. last] ==
        IF k = last THEN [ok |-> TRUE, word |-> top]
        ELSE [ok   |-> read[k + 1].ok /\ ~Overflows(t, read[k + 1].word),
              word |-> Narrow(t, read[k + 1].word * Group) + GroupOf(bytes[k])]
      word == read[from].word
  IN  IF Ends(bytes, from) = {} \/ ~read[from].ok THEN Failed(from)
      ELSE [next |-> last + 1, value |-> FromWord(t, IF negative THEN UnsignedMax(t) - word ELSE word)]
=============================================================================
