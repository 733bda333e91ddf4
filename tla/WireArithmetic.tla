--------------------------- MODULE WireArithmetic ----------------------------
(***************************************************************************)
(* The calls that the encoder, the decoder and the renderer make on        *)
(* integers and on words, one at a time: a number that is written and      *)
(* read, as bytes, as a dint or as digits; bytes that are read as a dint;  *)
(* a mask and the word under it; the checksum of a message.  What their    *)
(* results have to be is said with the sums that a reader of the           *)
(* documentation would write down.                                         *)
(***************************************************************************)
EXTENDS NumberText, Crc

CONSTANTS
  IntTypes,    \* the integer types, as IntCodec describes them
  MaxBytes,    \* the longest byte string given to decode_dint()
  CrcBytes,    \* the bytes of the messages whose CRC is taken, at most MaxBytes of them
  CrcSeeds

ASSUME IntTypesAssumption == \A t \in IntTypes : IsIntType(t)

ASSUME CrcAssumption == CrcBytes \subseteq 0 .. 255 /\ CrcSeeds \subseteq CrcWord

VARIABLE call

Calls(op, Args) == {[op |-> op, args |-> args] : args \in Args}
Strings(B)      == UNION {[1 .. n -> B] : n \in 0 .. MaxBytes}

CallInit == call = [op |-> "none"]

ArithmeticNext ==
  /\ call.op = "none"
  /\ \/ \E t \in IntTypes : call' \in Calls("number", {t} \X Values(t))
     \/ \E t \in IntTypes : call' \in Calls("bytes", {t} \X Strings(Byte))
     \/ call' \in Calls("mask", (Word \ {0}) \X Word)
     \/ call' \in Calls("crc", CrcSeeds \X Strings(CrcBytes) \X CrcBytes)

ArithmeticSpec == CallInit /\ [][ArithmeticNext]_call

First  == call.args[1]
Second == call.args[2]

-----------------------------------------------------------------------------
(* What encode_int() and encode_dint() write, their decoders read back     *)
(* from the middle of other bytes, leaving the cursor behind it; and no    *)
(* dint is longer than max_dint_size_v, which the greatest one reaches.    *)
IntegersReadBack ==
  call.op = "number" =>
    LET t == First
        dint == EncodeDint(t, Second)
        Between(bytes) == <<ByteValues - 1>> \o bytes \o <<ByteValues - 1, 0>>
    IN  /\ DecodeDint(t, Between(dint), 2) = [next |-> 2 + Len(dint), value |-> Second]
        /\ DecodeInt(t, Between(EncodeInt(t, Second)), 2) = Second
        /\ Len(dint) <= MaxDintSize(t)
        /\ Len(EncodeDint(t, 2^ValueBits(t) - 1)) = MaxDintSize(t)

-----------------------------------------------------------------------------
\* The number that the groups of a terminated dint spell, before its sign.
GroupAt(t, bytes, k) ==
  IF k = LastByte(bytes, 1) /\ t.signed THEN GroupOf(bytes[k]) % SignBit ELSE GroupOf(bytes[k])
Spelled(t, bytes) ==
  LET sum[k \in 0 .. LastByte(bytes, 1)] ==
        IF k = 0 THEN 0 ELSE sum[k - 1] + GroupAt(t, bytes, k) * 2^(Payload * (k - 1))
  IN  sum[LastByte(bytes, 1)]
Negative(t, bytes) == t.signed /\ GroupOf(bytes[LastByte(bytes, 1)]) >= SignBit

(* Whatever bytes a program holds, decode_dint() reads the number that     *)
(* their groups spell if that number fits; if the bytes do not end, or     *)
(* the number needs more bits than the word has, it fails and stays where  *)
(* it was.  A magnitude that needs exactly the sign bit is let through.    *)
DintsAreExactOrRefused ==
  call.op = "bytes" =>
    LET t == First
        bytes == Second
        got == DecodeDint(t, bytes, 1)
        spelled == Spelled(t, bytes)
    IN  IF Ends(bytes, 1) = {} THEN got.next = 1
        ELSE /\ spelled < 2^ValueBits(t) =>
                  got = [next |-> LastByte(bytes, 1) + 1,
                         value |-> IF Negative(t, bytes) THEN -spelled - 1 ELSE spelled]
             /\ spelled > UnsignedMax(t) => got.next = 1

(* The decoder's documentation: a value that needs more bits than T has is *)
(* refused.  What is accepted is what the groups spell.                    *)
DecodedFits ==
  call.op = "bytes" /\ DecodeDint(First, Second, 1).next # 1 =>
    DecodeDint(First, Second, 1).value =
      IF Negative(First, Second) THEN -Spelled(First, Second) - 1 ELSE Spelled(First, Second)

-----------------------------------------------------------------------------
\* What a text says in its base, before its sign.
Read(text, base) ==
  LET digits == IF Head(text) = Minus THEN Tail(text) ELSE text
      read[k \in 0 .. Len(digits)] == IF k = 0 THEN 0 ELSE read[k - 1] * base + digits[k]
  IN  read[Len(digits)]

(* The text of a number says the number, of its bits unless it is decimal, *)
(* takes digits_required characters and fits max_digits_required.          *)
NumberTextsReadBack ==
  call.op = "number" =>
    \A base \in Bases :
      LET t == First
          room == MaxDigitsRequired(t, base)
          text == IntToString(t, Second, base, room + 1)
      IN  /\ Read(text, base) = Digital(t, Second, base)
          /\ Head(text) = Minus <=> base = 10 /\ Second < 0
          /\ Len(text) = DigitsRequired(t, Second, base) /\ Len(text) <= room

-----------------------------------------------------------------------------
(* Condensing and expanding under the same mask are inverses, aligned to   *)
(* the bottom or in place, for every mask, the full one and the top bit    *)
(* alone included; and the decoder takes a condensed value for readable    *)
(* exactly when it has no more bits than the scope.                        *)
ScopedValuesReadBack ==
  call.op = "mask" =>
    /\ \A aligned \in BOOLEAN :
         Expand(First, Condense(First, Second, aligned, FALSE), aligned) = And(First, Second)
    /\ ReadsAsScoped(First, Second) <=> Second < 2^CountBitsSet(First)
    /\ HasOnlyOneBitSet(First) <=> LeastSetBitIndex(First) = MostSetBitIndex(First)

Formats == [packed : BOOLEAN, shifted : BOOLEAN, signed : BOOLEAN]

Weight(mask, i, fmt) ==
  IF fmt.packed THEN 2^Rank(mask, i)
  ELSE IF fmt.shifted THEN 2^(i - LeastSetBitIndex(mask)) ELSE 2^i

WeightedSum(mask, value, fmt) ==
  LET weight(i) == IF fmt.signed /\ i = MostSetBitIndex(mask)
                   THEN -Weight(mask, i, fmt) ELSE Weight(mask, i, fmt)
      sum[k \in 0 .. Digits] ==
        IF k = 0 THEN 0
        ELSE sum[k - 1]
               + IF k - 1 \in BitsOf(mask) \cap BitsOf(value) THEN weight(k - 1) ELSE 0
  IN  sum[Digits]

(* A numeric field shows the sum of the weights of its bits, the weight of *)
(* the mask's top bit negative if it is signed, and a gap in the mask adds *)
(* nothing; condense() with sign extension shows the same packed number.   *)
NumericFieldsAreSums ==
  call.op = "mask" =>
    /\ \A fmt \in Formats : RenderedNumber(First, Second, fmt) = WeightedSum(First, Second, fmt)
    /\ BitCast(Condense(First, Second, TRUE, TRUE))
         = RenderedNumber(First, Second, [packed |-> TRUE, shifted |-> FALSE, signed |-> TRUE])

-----------------------------------------------------------------------------
(* A message followed by its CRC has the CRC 0, and a message in which one *)
(* byte is another has another CRC: the receiver sees the change.          *)
CrcSeesChanges ==
  call.op = "crc" =>
    LET message == Second
        crc == Crc16(message, First)
        other == call.args[3]
    IN  /\ Crc16(message \o <<crc \div 256, crc % 256>>, First) = 0
        /\ \A k \in DOMAIN message :
             message[k] # other => Crc16([message EXCEPT ![k] = other], First) # crc
=============================================================================
