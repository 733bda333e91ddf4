------------------------ MODULE WireArithmeticProofs -------------------------
(***************************************************************************)
(* The calls of WireArithmetic, each of them for every argument: what is   *)
(* written is read back, any bytes are read exactly or refused, masks and  *)
(* numeric fields show the sums they stand for, a checksum notices a byte, *)
(* and the text of a number is the number.                                 *)
(***************************************************************************)
EXTENDS WireArithmetic, WordProofs

-----------------------------------------------------------------------------
(* Dints from any bytes.                                                   *)

\* The groups of a terminated dint.
LEMMA GroupsOfDint ==
  ASSUME NEW t, IsIntType(t), NEW bytes \in Seq(Byte), Ends(bytes, 1) # {}, NEW k \in 1 .. LastByte(bytes, 1)
  PROVE  GroupAt(t, bytes, k) \in Nat /\ GroupAt(t, bytes, k) < Group
  <1>1. Len(bytes) \in Nat /\ LastByte(bytes, 1) \in Nat \ {0} /\ LastByte(bytes, 1) <= Len(bytes)
    BY FirstEnd
  <1>2. bytes[k] \in Int
    <2>1. k \in 1 .. Len(bytes)
      BY <1>1
    <2>2. bytes[k] \in Byte
      BY <2>1
    <2>3. ByteValues \in Nat
      BY GroupValues
    <2> QED BY <2>2, <2>3 DEF Byte
  <1>3. Group \in Nat \ {0} /\ SignBit \in Nat \ {0} /\ Group = 2 * SignBit
    BY GroupValues
  <1>4. GroupOf(bytes[k]) \in Nat /\ GroupOf(bytes[k]) < Group
    BY <1>2, <1>3, Division, Zenon DEF GroupOf
  <1>5. GroupOf(bytes[k]) % SignBit \in Nat /\ GroupOf(bytes[k]) % SignBit < SignBit
    BY <1>3, <1>4, GroupOf(bytes[k]) \in Int, Division, Zenon
  <1> QED BY <1>3, <1>4, <1>5 DEF GroupAt

\* The sums of the groups' weights.
SumLoop(sum, t, bytes, last) ==
  sum = [k \in 0 .. last |->
           IF k = 0 THEN 0 ELSE sum[k - 1] + GroupAt(t, bytes, k) * 2^(Payload * (k - 1))]

\* Spelled is the last value of a function that adds group after group.
LEMMA SumOfGroups ==
  ASSUME NEW t, IsIntType(t), NEW bytes \in Seq(Byte), Ends(bytes, 1) # {}
  PROVE  \E sum : /\ SumLoop(sum, t, bytes, LastByte(bytes, 1))
                  /\ Spelled(t, bytes) = sum[LastByte(bytes, 1)]
  <1> DEFINE last == LastByte(bytes, 1)
             sum[k \in 0 .. last] ==
               IF k = 0 THEN 0 ELSE sum[k - 1] + GroupAt(t, bytes, k) * 2^(Payload * (k - 1))
             term == [k \in 1 .. last |-> GroupAt(t, bytes, k) * 2^(Payload * (k - 1))]
  <1>1. last \in Nat \ {0}
    BY FirstEnd
  <1>2. Spelled(t, bytes) = sum[last]
    BY DEF Spelled
  <1> HIDE DEF last
  <1>3. \A k \in 0 .. last : k # 0 => term[k] = GroupAt(t, bytes, k) * 2^(Payload * (k - 1))
    BY <1>1
  <1> HIDE DEF term
  <1>4. PICK f : f = [k \in 0 .. last |-> IF k = 0 THEN 0 ELSE f[k - 1] + term[k]]
    BY <1>1, SumsExist
  <1>5. f = [k \in 0 .. last |-> IF k = 0 THEN 0
                                 ELSE f[k - 1] + GroupAt(t, bytes, k) * 2^(Payload * (k - 1))]
    BY <1>3, <1>4
  <1>6. sum = [k \in 0 .. last |-> IF k = 0 THEN 0
                                 ELSE sum[k - 1] + GroupAt(t, bytes, k) * 2^(Payload * (k - 1))]
    BY <1>5
  <1> HIDE DEF sum
  <1>7. SumLoop(sum, t, bytes, last)
    BY <1>6 DEF SumLoop
  <1> QED BY <1>2, <1>7 DEF last

\* The sums are naturals, each one term more than the one before.
LEMMA SumByTerm ==
  ASSUME NEW t, IsIntType(t), NEW bytes \in Seq(Byte), Ends(bytes, 1) # {},
         NEW sum, SumLoop(sum, t, bytes, LastByte(bytes, 1))
  PROVE  /\ sum[0] = 0 /\ \A k \in 0 .. LastByte(bytes, 1) : sum[k] \in Nat
         /\ \A k \in 1 .. LastByte(bytes, 1) :
              sum[k] = sum[k - 1] + GroupAt(t, bytes, k) * 2^(Payload * (k - 1))
  <1> DEFINE last == LastByte(bytes, 1)
             Term(k) == GroupAt(t, bytes, k) * 2^(Payload * (k - 1))
             T == {k \in Nat : k <= last => sum[k] \in Nat}
  <1>1. last \in Nat \ {0}
    BY FirstEnd
  <1>2. ASSUME NEW k \in 1 .. last PROVE Term(k) \in Nat
    <2>1. GroupAt(t, bytes, k) \in Nat
      BY GroupsOfDint
    <2> DEFINE m == Payload * (k - 1)
    <2>2. m \in Nat
      BY <1>1, GroupValues
    <2> HIDE DEF m
    <2>3. 2^m \in Nat
      BY <2>2, PowerIsPositive
    <2>4. GroupAt(t, bytes, k) * 2^m \in Nat
      BY <2>1, <2>3
    <2> QED BY <2>4 DEF m
  <1>3. sum = [k \in 0 .. last |-> IF k = 0 THEN 0 ELSE sum[k - 1] + Term(k)]
    BY DEF SumLoop
  <1> HIDE DEF last, Term
  <1>4. \A k \in 0 .. last : sum[k] = IF k = 0 THEN 0 ELSE sum[k - 1] + Term(k)
    BY <1>3
  <1>5. sum[0] = 0
    BY <1>1, <1>4
  <1>6. \A k \in 1 .. last : k \in 0 .. last /\ k # 0
    BY <1>1
  <1>7. \A k \in 1 .. last : sum[k] = sum[k - 1] + Term(k)
    BY <1>4, <1>6
  <1>8. 0 \in T
    BY <1>5
  <1>9. ASSUME NEW j \in T PROVE j + 1 \in T
    <2> SUFFICES ASSUME j + 1 <= last PROVE sum[j + 1] \in Nat
      OBVIOUS
    <2>1. PICK k : k = j + 1
      OBVIOUS
    <2>2. k \in 1 .. last /\ k - 1 = j /\ sum[j] \in Nat
      BY <1>1, <2>1
    <2>3. sum[k] = sum[j] + Term(k) /\ Term(k) \in Nat
      BY <1>2, <1>7, <2>2
    <2> QED BY <2>1, <2>2, <2>3
  <1>10. T \in SUBSET Nat
    OBVIOUS
  <1> HIDE DEF T
  <1>11. T = Nat
    BY <1>8, <1>9, <1>10, Induction
  <1>12. \A k \in 0 .. last : sum[k] \in Nat
    BY <1>1, <1>11 DEF T
  <1> QED BY <1>5, <1>7, <1>12 DEF last, Term

\* The end of the loop: all the groups are read, or the number does not fit.
LEMMA AnyDintIsRead ==
  ASSUME NEW t, IsIntType(t), NEW bytes \in Seq(Byte), Ends(bytes, 1) # {},
         NEW read, DintLoop(read, t, bytes, 1, LastByte(bytes, 1), GroupAt(t, bytes, LastByte(bytes, 1)))
  PROVE  /\ read[1].ok \in BOOLEAN
         /\ read[1].ok => read[1].word = Spelled(t, bytes)
         /\ read[1].ok <=> Spelled(t, bytes) < 2^t.digits
         /\ Spelled(t, bytes) \in Nat
  <1> DEFINE last == LastByte(bytes, 1)
             G(k) == GroupAt(t, bytes, k)
  <1>1. last \in Nat \ {0}
    BY FirstEnd
  <1>2. PICK sum : SumLoop(sum, t, bytes, last) /\ Spelled(t, bytes) = sum[last]
    BY SumOfGroups
  <1>3. /\ sum[0] = 0 /\ \A k \in 0 .. last : sum[k] \in Nat
        /\ \A k \in 1 .. last : sum[k] = sum[k - 1] + G(k) * 2^(Payload * (k - 1))
    BY <1>2, SumByTerm
  <1>4. \A k \in 1 .. last : G(k) \in Nat /\ G(k) < Group
    BY GroupsOfDint
  <1>5. \A k \in 1 .. last : k # last => G(k) = GroupOf(bytes[k])
    BY DEF GroupAt
  <1>6. 1 + last - 1 = last
    BY <1>1
  <1>7. read = [k \in 1 .. last |->
                  IF k = last THEN [ok |-> TRUE, word |-> G(last)]
                  ELSE [ok   |-> read[k + 1].ok /\ ~Overflows(t, read[k + 1].word),
                        word |-> Narrow(t, read[k + 1].word * Group) + GroupOf(bytes[k])]]
    BY <1>6 DEF DintLoop
  <1> HIDE DEF last, G
  <1>8. \A k \in 1 .. last :
          read[k] = IF k = last THEN [ok |-> TRUE, word |-> G(last)]
                    ELSE [ok   |-> read[k + 1].ok /\ ~Overflows(t, read[k + 1].word),
                          word |-> Narrow(t, read[k + 1].word * Group) + GroupOf(bytes[k])]
    BY <1>7, Zenon
  <1> DEFINE Agrees(k) == ReadSoFar(t, sum[last], sum[k - 1], k, read[k])
             T == {i \in Nat : i < last => Agrees(last - i)}
  <1>9. 0 \in T
    <2>1. last - 0 = last /\ last \in 1 .. last /\ last \in 0 .. last
      BY <1>1
    <2>2. read[last] = [ok |-> TRUE, word |-> G(last)]
      BY <1>8, <2>1
    <2>3. G(last) \in Nat /\ G(last) < 2^t.digits
      <3>1. Group <= 2^t.digits /\ Group \in Nat /\ 2^t.digits \in Nat
        BY Widths, GroupValues, PowerGrows, PowerIsPositive
      <3> QED BY <1>4, <2>1, <3>1
    <2>4. G(last) * 2^(Payload * (last - 1)) + sum[last - 1] = sum[last]
      <3> DEFINE x == G(last) * 2^(Payload * (last - 1))
      <3>1. sum[last] = sum[last - 1] + x
        BY <1>3, <2>1
      <3>2. x \in Nat
        <4> DEFINE m == Payload * (last - 1)
        <4>1. m \in Nat
          BY <1>1, GroupValues
        <4> HIDE DEF m
        <4>2. 2^m \in Nat
          BY <4>1, PowerIsPositive
        <4>3. G(last) * 2^m \in Nat
          BY <2>3, <4>2
        <4> QED BY <4>3 DEF m
      <3>3. sum[last - 1] \in Nat
        BY <1>1, <1>3, last - 1 \in 0 .. last
      <3> HIDE DEF x
      <3>4. x + sum[last - 1] = sum[last]
        BY <3>1, <3>2, <3>3
      <3> QED BY <3>4 DEF x
    <2>5. Agrees(last)
      BY <2>2, <2>3, <2>4 DEF ReadSoFar, Weighs
    <2> QED BY <2>1, <2>5
  <1>10. ASSUME NEW i \in T PROVE i + 1 \in T
    <2> SUFFICES ASSUME i + 1 < last PROVE Agrees(last - (i + 1))
      OBVIOUS
    <2>1. PICK k : k = last - (i + 1)
      OBVIOUS
    <2>2. /\ k \in 1 .. last /\ k # last /\ k \in Nat \ {0} /\ k + 1 = last - i /\ (k + 1) - 1 = k
          /\ k \in 0 .. last /\ k - 1 \in 0 .. last /\ last \in 0 .. last
      BY <1>1, <2>1
    <2>3. Agrees(k + 1)
      BY <2>2
    <2>4. PICK after : after = read[k + 1]
      OBVIOUS
    <2> DEFINE total == sum[last]
               low == sum[k - 1]
               g == G(k)
               y == Narrow(t, after.word * Group) + g
    <2>5. read[k] = [ok |-> after.ok /\ ~Overflows(t, after.word), word |-> y]
      BY <1>5, <1>8, <2>2, <2>4, Zenon
    <2>6. /\ after.ok \in BOOLEAN
          /\ after.ok => /\ after.word \in Nat /\ Weighs(after.word, k + 1, sum[k], total)
          /\ total < 2^t.digits => after.ok
      BY <2>2, <2>3, <2>4, Zenon DEF ReadSoFar
    <2>7. total \in Nat /\ low \in Nat /\ g \in Nat /\ g < Group
          /\ sum[k] = WithGroup(low, g, k)
      BY <1>3, <1>4, <2>2 DEF WithGroup
    <2> HIDE DEF total, low, g
    <2>8. ASSUME after.ok
          PROVE  /\ ~Overflows(t, after.word) =>
                      y \in Nat /\ y < 2^t.digits /\ Weighs(y, k, low, total)
                 /\ total < 2^t.digits => ~Overflows(t, after.word)
      <3>1. PICK x : x = after.word
        OBVIOUS
      <3>2. x \in Nat /\ Weighs(x, k + 1, WithGroup(low, g, k), total)
        BY <2>6, <2>7, <2>8, <3>1, Zenon
      <3>3. /\ ~Overflows(t, x) =>
                  /\ Narrow(t, x * Group) + g \in Nat /\ Narrow(t, x * Group) + g < 2^t.digits
                  /\ Weighs(Narrow(t, x * Group) + g, k, low, total)
            /\ total < 2^t.digits => ~Overflows(t, x)
        <4>1. PICK j : j = k + 1
          OBVIOUS
        <4>2. j \in Nat /\ Weighs(x, j, WithGroup(low, g, k), total)
          BY <2>2, <3>2, <4>1
        <4> QED BY <2>2, <2>7, <3>2, <4>1, <4>2, TurnWeighs
      <3> QED BY <3>1, <3>3, Zenon
    <2> HIDE DEF y
    <2>9. read[k].ok = (after.ok /\ ~Overflows(t, after.word)) /\ read[k].word = y
      BY <2>5
    <2>10. ReadSoFar(t, total, low, k, read[k])
      <3>1. Overflows(t, after.word) \in BOOLEAN
        BY DEF Overflows
      <3>2. read[k].ok \in BOOLEAN
        BY <2>6, <2>9, <3>1, Zenon
      <3>3. read[k].ok <=> (after.ok /\ ~Overflows(t, after.word))
        BY <2>9, Zenon
      <3>4. read[k].ok => /\ read[k].word \in Nat /\ read[k].word < 2^t.digits
                          /\ Weighs(read[k].word, k, low, total)
        BY <2>8, <2>9, <3>3, Zenon
      <3>5. total < 2^t.digits => read[k].ok
        BY <2>6, <2>8, <3>3, Zenon
      <3> QED BY <3>2, <3>4, <3>5, Zenon DEF ReadSoFar
    <2> QED BY <2>1, <2>10 DEF total, low
  <1>11. T \in SUBSET Nat
    OBVIOUS
  <1>12. Agrees(1)
    <2> HIDE DEF T
    <2>1. T = Nat
      BY <1>9, <1>10, <1>11, Induction
    <2>2. last - 1 \in T /\ last - 1 < last /\ last - (last - 1) = 1
      BY <1>1, <2>1
    <2> QED BY <2>2 DEF T
  <1>13. /\ read[1].ok \in BOOLEAN
         /\ read[1].ok => /\ read[1].word \in Nat /\ read[1].word < 2^t.digits
                          /\ read[1].word = sum[last]
         /\ sum[last] < 2^t.digits => read[1].ok
    <2>1. PICK r : r = read[1]
      OBVIOUS
    <2>2. 1 - 1 = 0 /\ Payload * 0 = 0 /\ 2^0 = 1
      BY GroupValues, PowerIsPositive
    <2>3. ReadSoFar(t, sum[last], sum[0], 1, r)
      BY <1>12, <2>1, <2>2
    <2>4. r.word \in Nat => r.word * 2^(Payload * (1 - 1)) + 0 = r.word
      <3> DEFINE e == 2^(Payload * (1 - 1))
      <3>1. e = 1
        BY <2>2, Zenon
      <3> HIDE DEF e
      <3>2. r.word \in Nat => r.word * e + 0 = r.word
        BY <3>1
      <3> QED BY <3>2 DEF e
    <2>5. /\ r.ok \in BOOLEAN
          /\ r.ok => /\ r.word \in Nat /\ r.word < 2^t.digits
                     /\ r.word * 2^(Payload * (1 - 1)) + 0 = sum[last]
          /\ sum[last] < 2^t.digits => r.ok
      BY <1>3, <2>3, Zenon DEF ReadSoFar, Weighs
    <2> QED BY <2>1, <2>4, <2>5, Zenon
  <1>14. sum[last] \in Nat
    BY <1>1, <1>3, last \in 0 .. last
  <1> QED BY <1>2, <1>13, <1>14, Zenon DEF last

\* What decode_dint() makes of a terminated dint.
LEMMA DecodedDint ==
  ASSUME NEW t, IsIntType(t), NEW bytes \in Seq(Byte), Ends(bytes, 1) # {}
  PROVE  LET spelled == Spelled(t, bytes)
         IN  /\ spelled \in Nat
             /\ DecodeDint(t, bytes, 1) =
                  IF ~(spelled < 2^t.digits) THEN Failed(1)
                  ELSE [next |-> LastByte(bytes, 1) + 1,
                        value |-> FromWord(t, IF Negative(t, bytes) THEN UnsignedMax(t) - spelled
                                              ELSE spelled)]
  <1> DEFINE last == LastByte(bytes, 1)
             top == IF t.signed THEN GroupOf(bytes[last]) % SignBit ELSE GroupOf(bytes[last])
             read[k \in 1 .. last] ==
               IF k = last THEN [ok |-> TRUE, word |-> top]
               ELSE [ok   |-> read[k + 1].ok /\ ~Overflows(t, read[k + 1].word),
                     word |-> Narrow(t, read[k + 1].word * Group) + GroupOf(bytes[k])]
             negative == t.signed /\ GroupOf(bytes[last]) >= SignBit
             word == read[1].word
             spelled == Spelled(t, bytes)
  <1>1. last \in Nat \ {0} /\ 1 + last - 1 = last
    BY FirstEnd
  <1>2. DecodeDint(t, bytes, 1) =
          IF Ends(bytes, 1) = {} \/ ~read[1].ok THEN Failed(1)
          ELSE [next |-> last + 1,
                value |-> FromWord(t, IF negative THEN UnsignedMax(t) - word ELSE word)]
    BY DEF DecodeDint
  <1>3. top = GroupAt(t, bytes, last) /\ (negative <=> Negative(t, bytes))
    BY DEF GroupAt, Negative
  <1> HIDE DEF last, top, negative, spelled
  <1>4. PICK f : DintLoop(f, t, bytes, 1, last, top)
    BY <1>1, DintLoopExists
  <1>5. f = [k \in 1 .. last |->
               IF k = last THEN [ok |-> TRUE, word |-> top]
               ELSE [ok   |-> f[k + 1].ok /\ ~Overflows(t, f[k + 1].word),
                     word |-> Narrow(t, f[k + 1].word * Group) + GroupOf(bytes[k])]]
    BY <1>1, <1>4 DEF DintLoop
  <1>6. read = [k \in 1 .. last |->
               IF k = last THEN [ok |-> TRUE, word |-> top]
               ELSE [ok   |-> read[k + 1].ok /\ ~Overflows(t, read[k + 1].word),
                     word |-> Narrow(t, read[k + 1].word * Group) + GroupOf(bytes[k])]]
    BY <1>5
  <1> HIDE DEF read
  <1>7. DintLoop(read, t, bytes, 1, last, top)
    BY <1>1, <1>6 DEF DintLoop
  <1>8. /\ read[1].ok \in BOOLEAN /\ (read[1].ok => word = spelled)
        /\ (read[1].ok <=> spelled < 2^t.digits) /\ spelled \in Nat
    <2>1. DintLoop(read, t, bytes, 1, LastByte(bytes, 1), GroupAt(t, bytes, LastByte(bytes, 1)))
      BY <1>3, <1>7 DEF last
    <2> QED BY <2>1, AnyDintIsRead DEF spelled
  <1> HIDE DEF word
  <1> QED BY <1>2, <1>3, <1>8, Zenon DEF last, spelled

\* What DintsAreExactOrRefused says of one byte string and one type.
LEMMA DintExactOrRefused ==
  ASSUME NEW t, IsIntType(t), NEW bytes \in Seq(Byte)
  PROVE  LET got == DecodeDint(t, bytes, 1)
             spelled == Spelled(t, bytes)
         IN  IF Ends(bytes, 1) = {} THEN got.next = 1
             ELSE /\ spelled < 2^ValueBits(t) =>
                       got = [next |-> LastByte(bytes, 1) + 1,
                              value |-> IF Negative(t, bytes) THEN -spelled - 1 ELSE spelled]
                  /\ spelled > UnsignedMax(t) => got.next = 1
  <1> DEFINE got == DecodeDint(t, bytes, 1)
             spelled == Spelled(t, bytes)
             negative == Negative(t, bytes)
             last == LastByte(bytes, 1)
             d == 2^t.digits
             e == 2^ValueBits(t)
  <1>1. CASE Ends(bytes, 1) = {}
    <2>1. got = Failed(1)
      BY <1>1 DEF DecodeDint
    <2> HIDE DEF got
    <2> QED BY <1>1, <2>1 DEF Failed, got
  <1>2. CASE Ends(bytes, 1) # {}
    <2>1. /\ spelled \in Nat
          /\ got = IF ~(spelled < d) THEN Failed(1)
                   ELSE [next |-> last + 1,
                         value |-> FromWord(t, IF negative THEN UnsignedMax(t) - spelled ELSE spelled)]
      BY <1>2, DecodedDint
    <2>2. d \in Nat \ {0} /\ e \in Nat \ {0} /\ e <= d /\ UnsignedMax(t) = d - 1
      <3>1. t.digits \in Nat /\ ValueBits(t) \in Nat /\ ValueBits(t) <= t.digits
        BY Widths DEF ValueBits
      <3>2. d \in Nat \ {0} /\ e \in Nat \ {0}
        BY <3>1, PowerIsPositive
      <3>3. e <= d
        BY <3>1, PowerGrows
      <3>4. UnsignedMax(t) = d - 1
        BY DEF UnsignedMax
      <3> QED BY <3>2, <3>3, <3>4, Zenon
    <2>3. negative => t.signed
      BY DEF Negative
    <2> DEFINE v == IF negative THEN -spelled - 1 ELSE spelled
    <2>4. /\ t.signed => Values(t) = -e .. e - 1
          /\ ~t.signed => Values(t) = 0 .. e - 1
      BY Widths DEF Values, UnsignedMax
    <2> HIDE DEF got, spelled, negative, last, d, e
    <2>5. ASSUME spelled < e PROVE got = [next |-> last + 1, value |-> v]
      <3>1. v \in Values(t) /\ Shifted(v) = spelled /\ (v < 0 <=> negative) /\ spelled < d
        <4>1. CASE negative
          <5>1. v = -spelled - 1 /\ v \in -e .. e - 1 /\ v < 0 /\ -v - 1 = spelled
            BY <2>1, <2>2, <2>5, <4>1
          <5> HIDE DEF v
          <5> QED BY <2>1, <2>2, <2>3, <2>4, <2>5, <4>1, <5>1 DEF Shifted
        <4>2. CASE ~negative
          <5>1. v = spelled /\ v \in 0 .. e - 1 /\ v \in -e .. e - 1 /\ ~(v < 0)
            BY <2>1, <2>2, <2>5, <4>2
          <5> HIDE DEF v
          <5> QED BY <2>1, <2>2, <2>4, <2>5, <4>2, <5>1 DEF Shifted
        <4> QED BY <4>1, <4>2
      <3> HIDE DEF v
      <3>2. FromWord(t, IF t.signed /\ v < 0 THEN UnsignedMax(t) - spelled ELSE spelled) = v
        BY <3>1, SignedWord
      <3>3. (t.signed /\ v < 0) <=> negative
        BY <2>3, <3>1
      <3>4. FromWord(t, IF negative THEN UnsignedMax(t) - spelled ELSE spelled) = v
        BY <3>2, <3>3
      <3> QED BY <2>1, <3>1, <3>4, Zenon
    <2>6. ASSUME spelled > UnsignedMax(t) PROVE got.next = 1
      <3>1. ~(spelled < d)
        BY <2>1, <2>2, <2>6
      <3>2. got = Failed(1)
        BY <2>1, <3>1, Zenon
      <3> QED BY <3>2 DEF Failed
    <2> QED BY <1>2, <2>5, <2>6, Zenon DEF got, spelled, negative, last, e, v
  <1> QED BY <1>1, <1>2

-----------------------------------------------------------------------------
(* The calls, and integers.                                                *)

\* What the calls of each kind are given.
CallsTyped ==
  /\ call.op = "number" => First \in IntTypes /\ Second \in Values(First)
  /\ call.op = "bytes" => First \in IntTypes /\ Second \in Seq(Byte)
  /\ call.op = "mask" => First \in Word \ {0} /\ Second \in Word
  /\ call.op = "crc" => First \in CrcWord /\ Second \in Seq(0 .. 255) /\ call.args[3] \in 0 .. 255

\* Every call is one of those.
LEMMA CallsAreTyped == ArithmeticSpec => []CallsTyped
  <1>1. CallInit => CallsTyped
    BY DEF CallInit, CallsTyped
  <1>2. Strings(Byte) \subseteq Seq(Byte) /\ Strings(CrcBytes) \subseteq Seq(0 .. 255)
    <2>1. \A B : Strings(B) \subseteq Seq(B)
      BY DEF Strings
    <2>2. ASSUME NEW s \in Strings(CrcBytes) PROVE s \in Seq(0 .. 255)
      <3>1. CrcBytes \subseteq 0 .. 255
        BY CrcAssumption
      <3>2. PICK n \in 0 .. MaxBytes : s \in [1 .. n -> CrcBytes]
        BY DEF Strings
      <3>3. n \in Nat
        OBVIOUS
      <3>4. \A k \in 1 .. n : s[k] \in 0 .. 255
        BY <3>1, <3>2
      <3>5. s = [k \in 1 .. n |-> s[k]]
        BY <3>2
      <3>6. s \in [1 .. n -> 0 .. 255]
        BY <3>4, <3>5
      <3> QED BY <3>3, <3>6
    <2> QED BY <2>1, <2>2
  <1>3. CallsTyped /\ [ArithmeticNext]_call => CallsTyped'
    <2> SUFFICES ASSUME CallsTyped, [ArithmeticNext]_call PROVE CallsTyped'
      OBVIOUS
    <2>1. CASE UNCHANGED call
      BY <2>1 DEF CallsTyped, First, Second
    <2>2. CASE \E t \in IntTypes : call' \in Calls("number", {t} \X Values(t))
      <3>1. PICK t \in IntTypes : call' \in Calls("number", {t} \X Values(t))
        BY <2>2
      <3>2. PICK v \in Values(t) : call' = [op |-> "number", args |-> <<t, v>>]
        BY <3>1 DEF Calls
      <3> QED BY <3>2 DEF CallsTyped, First, Second
    <2>3. CASE \E t \in IntTypes : call' \in Calls("bytes", {t} \X Strings(Byte))
      <3>1. PICK t \in IntTypes : call' \in Calls("bytes", {t} \X Strings(Byte))
        BY <2>3
      <3>2. PICK b \in Strings(Byte) : call' = [op |-> "bytes", args |-> <<t, b>>]
        BY <3>1 DEF Calls
      <3> QED BY <1>2, <3>2 DEF CallsTyped, First, Second
    <2>4. CASE call' \in Calls("mask", (Word \ {0}) \X Word)
      <3>1. PICK m \in Word \ {0}, v \in Word : call' = [op |-> "mask", args |-> <<m, v>>]
        BY <2>4 DEF Calls
      <3> QED BY <3>1 DEF CallsTyped, First, Second
    <2>5. CASE call' \in Calls("crc", CrcSeeds \X Strings(CrcBytes) \X CrcBytes)
      <3>1. PICK seed \in CrcSeeds, message \in Strings(CrcBytes), other \in CrcBytes :
              call' = [op |-> "crc", args |-> <<seed, message, other>>]
        BY <2>5 DEF Calls
      <3>2. seed \in CrcWord /\ other \in 0 .. 255 /\ message \in Seq(0 .. 255)
        BY <1>2, CrcAssumption
      <3> QED BY <3>1, <3>2 DEF CallsTyped, First, Second
    <2> QED BY <2>1, <2>2, <2>3, <2>4, <2>5 DEF ArithmeticNext
  <1> QED BY <1>1, <1>3, PTL DEF ArithmeticSpec

(* Every value that encode_int() or encode_dint() writes is read back from *)
(* the middle of other bytes, by the decoder of the same type, which then  *)
(* stands behind it; max_dint_size_v is the length of the longest dint.    *)
THEOREM WrittenIntegersReadBack == ArithmeticSpec => []IntegersReadBack
  <1>1. CallsTyped => IntegersReadBack
    <2> SUFFICES ASSUME CallsTyped, call.op = "number" PROVE IntegersReadBack
      BY DEF IntegersReadBack
    <2> DEFINE t == First
               v == Second
    <2>1. IsIntType(t) /\ v \in Values(t)
      BY IntTypesAssumption DEF CallsTyped
    <2> HIDE DEF t, v
    <2> DEFINE dint == EncodeDint(t, v)
               Between(bytes) == <<ByteValues - 1>> \o bytes \o <<ByteValues - 1, 0>>
    <2>2. /\ DecodeDint(t, Between(dint), 2) = [next |-> 2 + Len(dint), value |-> v]
          /\ DecodeInt(t, Between(EncodeInt(t, v)), 2) = v
          /\ Len(dint) <= MaxDintSize(t)
          /\ Len(EncodeDint(t, 2^ValueBits(t) - 1)) = MaxDintSize(t)
      BY <2>1, ValueReadsBack
    <2> QED BY <2>2, Zenon DEF IntegersReadBack, t, v
  <1> QED BY CallsAreTyped, <1>1, PTL

(* Whatever bytes decode_dint() is given, of any number and any values, it *)
(* reads the number that their groups spell if the type has that number;   *)
(* if no byte ends them, or the number needs more bits than the word has,  *)
(* it gives up with the cursor where it was.                               *)
THEOREM AnyBytesExactOrRefused == ArithmeticSpec => []DintsAreExactOrRefused
  <1>1. CallsTyped => DintsAreExactOrRefused
    <2> SUFFICES ASSUME CallsTyped, call.op = "bytes" PROVE DintsAreExactOrRefused
      BY DEF DintsAreExactOrRefused
    <2> DEFINE t == First
               bytes == Second
    <2>1. IsIntType(t) /\ bytes \in Seq(Byte)
      BY IntTypesAssumption DEF CallsTyped
    <2> HIDE DEF t, bytes
    <2>2. IF Ends(bytes, 1) = {} THEN DecodeDint(t, bytes, 1).next = 1
          ELSE /\ Spelled(t, bytes) < 2^ValueBits(t) =>
                    DecodeDint(t, bytes, 1) =
                      [next |-> LastByte(bytes, 1) + 1,
                       value |-> IF Negative(t, bytes) THEN -Spelled(t, bytes) - 1
                                 ELSE Spelled(t, bytes)]
               /\ Spelled(t, bytes) > UnsignedMax(t) => DecodeDint(t, bytes, 1).next = 1
      BY <2>1, DintExactOrRefused
    <2> QED BY <2>2, Zenon DEF DintsAreExactOrRefused, t, bytes
  <1> QED BY CallsAreTyped, <1>1, PTL

-----------------------------------------------------------------------------
(* Masked values.                                                          *)

(* For every width of a word, every mask with a bit and every value:       *)
(* condense() and expand() are inverses on the bits of the mask, aligned   *)
(* or in place; the decoder's test that a value needs no more bits than    *)
(* the scope has is exact; and so is the test for a mask of one bit.       *)
THEOREM MaskedValuesReadBack == ArithmeticSpec => []ScopedValuesReadBack
  <1>1. CallsTyped => ScopedValuesReadBack
    <2> SUFFICES ASSUME CallsTyped, call.op = "mask" PROVE ScopedValuesReadBack
      BY DEF ScopedValuesReadBack
    <2> DEFINE m == First
               v == Second
    <2>1. m \in Word \ {0} /\ v \in Word
      BY DEF CallsTyped
    <2> HIDE DEF m, v
    <2>2. \A aligned \in BOOLEAN : Expand(m, Condense(m, v, aligned, FALSE), aligned) = And(m, v)
      BY <2>1, ExpandedAgain
    <2>3. /\ ReadsAsScoped(m, v) <=> v < 2^CountBitsSet(m)
          /\ HasOnlyOneBitSet(m) <=> LeastSetBitIndex(m) = MostSetBitIndex(m)
      BY <2>1, CondensedAgain, OneBit
    <2> QED BY <2>2, <2>3, Zenon DEF ScopedValuesReadBack, m, v
  <1> QED BY CallsAreTyped, <1>1, PTL

-----------------------------------------------------------------------------
(* Numeric fields.                                                         *)

\* Exponents grow with the positions of the bits, and the last is that of the sign.
LEMMA Exponents ==
  ASSUME NEW mask \in Word \ {0}, NEW fmt \in Formats
  PROVE  /\ \A j \in BitsOf(mask) :
              /\ ExponentOf(mask, j, fmt) \in Nat /\ ExponentOf(mask, j, fmt) <= j
              /\ Weight(mask, j, fmt) = 2^ExponentOf(mask, j, fmt)
         /\ \A i, j \in BitsOf(mask) :
              i < j => ExponentOf(mask, i, fmt) < ExponentOf(mask, j, fmt)
         /\ SignBitIndex(mask, fmt) = ExponentOf(mask, MostSetBitIndex(mask), fmt)
         /\ SignBitIndex(mask, fmt) \in 0 .. Digits - 1
  <1> DEFINE S     == BitsOf(mask)
             least == LeastSetBitIndex(mask)
             most  == MostSetBitIndex(mask)
             e(j)  == ExponentOf(mask, j, fmt)
             R(j)  == Rank(mask, j)
  <1>1. /\ least \in Nat /\ most \in S /\ \A j \in S : least <= j /\ j <= most
        /\ R(most) = CountBitsSet(mask) - 1
    BY MaskShape
  <1>2. \A j \in S : j \in Nat /\ j <= Digits - 1
    BY DEF BitsOf
  <1>3. \A j \in S : R(j) \in Nat /\ R(j) <= j
    <2> SUFFICES ASSUME NEW j \in S PROVE R(j) \in Nat /\ R(j) <= j
      OBVIOUS
    <2>1. R(j) \in Nat /\ R(0) = 0 /\ j \in Nat
      BY <1>2, RankGrows
    <2>2. R(j) - R(0) <= j - 0
      BY <2>1, 0 \in Nat, RankOrder
    <2> QED BY <2>1, <2>2
  <1>4. \A i, j \in S : i < j => R(i) < R(j)
    BY <1>2, RankOrder
  <1>5. fmt.packed \in BOOLEAN /\ fmt.shifted \in BOOLEAN
    BY DEF Formats
  <1>6. \A j \in S : e(j) = IF fmt.packed THEN R(j) ELSE IF fmt.shifted THEN j - least ELSE j
    BY DEF ExponentOf
  <1>7. \A j \in S : Weight(mask, j, fmt) = 2^e(j)
    BY <1>5 DEF ExponentOf, Weight
  <1>8. SignBitIndex(mask, fmt) = e(most)
    <2>1. most - 0 = most
      BY <1>1, <1>2
    <2> HIDE DEF most, least
    <2> QED BY <1>1, <1>5, <1>6, <2>1 DEF SignBitIndex, most, least
  <1> HIDE DEF S, least, most, e, R
  <1>9. \A j \in S : e(j) \in Nat /\ e(j) <= j
    BY <1>1, <1>2, <1>3, <1>5, <1>6
  <1>10. \A i, j \in S : i < j => e(i) < e(j)
    <2> SUFFICES ASSUME NEW i \in S, NEW j \in S, i < j PROVE e(i) < e(j)
      OBVIOUS
    <2>1. R(i) < R(j) /\ i \in Nat /\ j \in Nat
      BY <1>2, <1>4
    <2>2. i - least < j - least
      BY <1>1, <2>1
    <2> QED BY <1>5, <1>6, <2>1, <2>2
  <1>11. e(most) \in 0 .. Digits - 1
    BY <1>1, <1>2, <1>9, WordSize
  <1> QED BY <1>7, <1>8, <1>9, <1>10, <1>11 DEF S, e, most

\* The field that is extracted has the selected bits at their exponents.
LEMMA FieldBits ==
  ASSUME NEW mask \in Word \ {0}, NEW value \in Word, NEW fmt \in Formats
  PROVE  /\ FieldWord(mask, value, fmt) \in Word
         /\ \A i \in Nat :
              Bit(FieldWord(mask, value, fmt), i) <=>
                \E j \in BitsOf(mask) \cap BitsOf(value) : i = ExponentOf(mask, j, fmt)
  <1> DEFINE V     == BitsOf(mask) \cap BitsOf(value)
             least == LeastSetBitIndex(mask)
             both  == And(value, mask)
             w     == FieldWord(mask, value, fmt)
  <1>1. fmt.packed \in BOOLEAN /\ fmt.shifted \in BOOLEAN
    BY DEF Formats
  <1>2. least \in Nat /\ \A j \in V : least <= j /\ j \in Nat
    <2>1. \A j \in V : j \in Nat
      BY DEF BitsOf
    <2> QED BY <2>1, MaskShape
  <1>3. both \in Word /\ BitsOf(both) = V
    BY AndOr
  <1>4. both \in Nat /\ both < Modulus /\ \A i \in Nat : Bit(both, i) <=> i \in V
    <2> HIDE DEF V, both
    <2> QED BY <1>3, WordsByBits, WordSize
  <1>5. CASE fmt.packed
    <2>1. w = Condense(mask, value, TRUE, FALSE)
      BY <1>5 DEF FieldWord
    <2>2. Gathers(w, mask, value, 0)
      <3>1. TRUE \in BOOLEAN /\ BaseOf(mask, TRUE) = 0
        BY DEF BaseOf
      <3> QED BY <2>1, <3>1, CondensedBits
    <2>3. \A j \in BitsOf(mask) : 0 + Rank(mask, j) = Rank(mask, j) /\ j \in Nat
      <3>1. \A j \in BitsOf(mask) : j \in Nat
        BY DEF BitsOf
      <3>2. \A j \in BitsOf(mask) : Rank(mask, j) \in Nat
        BY <3>1, RankGrows
      <3> QED BY <3>1, <3>2
    <2>4. \A j \in V : ExponentOf(mask, j, fmt) = Rank(mask, j)
      BY <1>5 DEF ExponentOf
    <2>5. \A i \in Nat : Bit(value, i) <=> i \in BitsOf(value)
      BY WordsByBits
    <2> HIDE DEF w
    <2>6. w \in Word /\ \A i \in Nat : Bit(w, i) <=> \E j \in BitsOf(mask) :
                                         Bit(value, j) /\ i = 0 + Rank(mask, j)
      BY <2>2 DEF Gathers
    <2>7. \A i \in Nat : Bit(w, i) <=> \E j \in V : i = ExponentOf(mask, j, fmt)
      BY <2>3, <2>4, <2>5, <2>6
    <2> QED BY <2>6, <2>7 DEF w
  <1>6. CASE ~fmt.packed /\ fmt.shifted
    <2>1. w = both \div 2^least
      BY <1>6 DEF FieldWord
    <2>2. \A j \in V : ExponentOf(mask, j, fmt) = j - least
      BY <1>6 DEF ExponentOf
    <2> HIDE DEF w, V, both, least
    <2>3. ASSUME NEW i \in Nat
          PROVE  /\ Bit(w, i) <=> Bit(both, least + i)
                 /\ w \in Nat /\ w <= both
      BY <1>2, <1>4, <2>1, BitShifted
    <2>4. w \in Word
      BY <1>4, <2>3, 0 \in Nat, WordSize DEF Word
    <2>5. ASSUME NEW i \in Nat PROVE Bit(w, i) <=> \E j \in V : i = ExponentOf(mask, j, fmt)
      <3>1. Bit(w, i) <=> least + i \in V
        BY <1>2, <1>4, <2>3, least + i \in Nat
      <3>2. \A j \in V : i = j - least <=> j = least + i
        BY <1>2
      <3> QED BY <2>2, <3>1, <3>2
    <2> QED BY <2>4, <2>5 DEF w, V
  <1>7. CASE ~fmt.packed /\ ~fmt.shifted
    <2>1. w = both
      BY <1>7 DEF FieldWord
    <2>2. \A j \in V : ExponentOf(mask, j, fmt) = j
      BY <1>7 DEF ExponentOf
    <2> HIDE DEF w, V, both
    <2>3. \A i \in Nat : Bit(w, i) <=> \E j \in V : i = ExponentOf(mask, j, fmt)
      BY <1>4, <2>1, <2>2
    <2> QED BY <1>3, <2>1, <2>3 DEF w, V
  <1> QED BY <1>1, <1>5, <1>6, <1>7

\* Adding up the powers of two with the exponents of the selected bits gives the field.
LEMMA FieldIsSum ==
  ASSUME NEW mask \in Word \ {0}, NEW value \in Word, NEW fmt \in Formats,
         NEW V, V = BitsOf(mask) \cap BitsOf(value),
         NEW e, e = [j \in V |-> ExponentOf(mask, j, fmt)],
         NEW f, PowerLoop(f, V, e, Digits)
  PROVE  f[Digits] = FieldWord(mask, value, fmt) /\ \A k \in 0 .. Digits : f[k] \in Nat
  <1> DEFINE w == FieldWord(mask, value, fmt)
             u == f[Digits]
  <1>1. V \in SUBSET (0 .. Digits - 1) /\ V \in SUBSET BitsOf(mask) /\ \A j \in V : j \in Nat
    BY DEF BitsOf
  <1>2. /\ e \in [V -> Nat]
        /\ \A i, j \in V : i < j => e[i] < e[j]
        /\ \A j \in V : e[j] = ExponentOf(mask, j, fmt) /\ e[j] <= j
    BY <1>1, Exponents
  <1>3. \A k \in 0 .. Digits :
          f[k] \in Nat /\ \A i \in Nat : Bit(f[k], i) <=> \E j \in V : j < k /\ i = e[j]
    BY <1>1, <1>2, WordSize, SumOfPowers
  <1>4. Digits \in 0 .. Digits /\ \A j \in V : j < Digits
    BY <1>1, WordSize
  <1>5. u \in Nat /\ \A i \in Nat : Bit(u, i) <=> \E j \in V : i = e[j]
    BY <1>3, <1>4
  <1>6. u \in Word
    <2>1. u < 2^u
      BY <1>5, BelowItsPower
    <2>2. \A j \in V : e[j] < Digits
      BY <1>1, <1>2, <1>4, WordSize
    <2>3. \A i \in Nat : Digits <= i => ~Bit(u, i)
      BY <1>2, <1>5, <2>2, WordSize
    <2> HIDE DEF u
    <2>4. u < 2^Digits
      BY <1>5, <2>1, <2>3, WordSize, BoundByBits
    <2> QED BY <1>5, <2>4, WordSize DEF Word
  <1>7. w \in Word /\ \A i \in Nat : Bit(w, i) <=> \E j \in V : i = ExponentOf(mask, j, fmt)
    BY FieldBits
  <1> HIDE DEF u, w
  <1>8. \A i \in Nat : Bit(u, i) <=> Bit(w, i)
    BY <1>2, <1>5, <1>7
  <1>9. u = w
    BY <1>6, <1>7, <1>8, SameWord
  <1> QED BY <1>3, <1>9 DEF u, w

\* With a negative weight of the sign, the sum is the field less twice that weight.
LEMMA SumOfWeights ==
  ASSUME NEW mask \in Word \ {0}, NEW value \in Word, NEW fmt \in Formats
  PROVE  WeightedSum(mask, value, fmt) =
           FieldWord(mask, value, fmt)
             - IF fmt.signed /\ MostSetBitIndex(mask) \in BitsOf(value)
               THEN 2^(SignBitIndex(mask, fmt) + 1) ELSE 0
  <1> DEFINE V    == BitsOf(mask) \cap BitsOf(value)
             most == MostSetBitIndex(mask)
             s    == SignBitIndex(mask, fmt)
             weight(i) == IF fmt.signed /\ i = most THEN -Weight(mask, i, fmt)
                          ELSE Weight(mask, i, fmt)
             sum[k \in 0 .. Digits] ==
               IF k = 0 THEN 0
               ELSE sum[k - 1] + IF k - 1 \in BitsOf(mask) \cap BitsOf(value) THEN weight(k - 1) ELSE 0
             e     == [j \in V |-> ExponentOf(mask, j, fmt)]
             term  == [k \in 1 .. Digits |-> IF k - 1 \in V THEN weight(k - 1) ELSE 0]
             power == [k \in 1 .. Digits |-> IF k - 1 \in V THEN 2^e[k - 1] ELSE 0]
             negative == fmt.signed /\ most \in V
             drop(k)  == IF negative /\ most < k THEN 2^(s + 1) ELSE 0
  <1>1. WeightedSum(mask, value, fmt) = sum[Digits]
    BY DEF WeightedSum
  <1>2. /\ most \in BitsOf(mask) /\ most \in Nat /\ most < Digits
        /\ fmt.signed \in BOOLEAN /\ Digits \in Nat
    <2>1. most \in BitsOf(mask) /\ most \in 0 .. Digits - 1
      BY MaskShape
    <2> HIDE DEF most
    <2> QED BY <2>1, WordSize DEF Formats
  <1>3. /\ \A j \in V : Weight(mask, j, fmt) = 2^e[j] /\ e[j] \in Nat
        /\ most \in V => s = e[most]
        /\ s \in Nat
    <2>1. \A j \in V : e[j] = ExponentOf(mask, j, fmt) /\ j \in BitsOf(mask)
      OBVIOUS
    <2>2. s = ExponentOf(mask, most, fmt) /\ s \in 0 .. Digits - 1
      BY Exponents
    <2> HIDE DEF e, s, most
    <2> QED BY <2>1, <2>2, Exponents
  <1> HIDE DEF weight
  <1>4. \A k \in 0 .. Digits : k # 0 => /\ term[k] = IF k - 1 \in V THEN weight(k - 1) ELSE 0
                                        /\ power[k] = IF k - 1 \in V THEN 2^e[k - 1] ELSE 0
    BY <1>2
  <1> HIDE DEF term, power, e
  <1>5. PICK g : g = [k \in 0 .. Digits |-> IF k = 0 THEN 0 ELSE g[k - 1] + term[k]]
    BY <1>2, SumsExist
  <1>6. g = [k \in 0 .. Digits |->
               IF k = 0 THEN 0 ELSE g[k - 1] + IF k - 1 \in V THEN weight(k - 1) ELSE 0]
    BY <1>4, <1>5
  <1>7. sum = [k \in 0 .. Digits |->
                 IF k = 0 THEN 0 ELSE sum[k - 1] + IF k - 1 \in V THEN weight(k - 1) ELSE 0]
    BY <1>6
  <1> HIDE DEF sum
  <1>8. PICK f : f = [k \in 0 .. Digits |-> IF k = 0 THEN 0 ELSE f[k - 1] + power[k]]
    BY <1>2, SumsExist
  <1>9. f = [k \in 0 .. Digits |->
               IF k = 0 THEN 0 ELSE f[k - 1] + IF k - 1 \in V THEN 2^e[k - 1] ELSE 0]
    BY <1>4, <1>8
  <1>10. f[Digits] = FieldWord(mask, value, fmt) /\ \A k \in 0 .. Digits : f[k] \in Nat
    <2>1. PowerLoop(f, V, e, Digits)
      BY <1>9 DEF PowerLoop
    <2> HIDE DEF V
    <2> QED BY <2>1, FieldIsSum DEF e, V
  <1> HIDE DEF V
  <1>11. ASSUME NEW k \in Nat, k + 1 <= Digits
         PROVE  /\ sum[k + 1] = sum[k] + IF k \in V THEN weight(k) ELSE 0
                /\ f[k + 1] = f[k] + IF k \in V THEN 2^e[k] ELSE 0
    <2>1. PICK q \in 0 .. Digits : q = k + 1 /\ q - 1 = k /\ q # 0
      BY <1>2, <1>11
    <2>2. /\ sum[q] = sum[q - 1] + IF q - 1 \in V THEN weight(q - 1) ELSE 0
          /\ f[q] = f[q - 1] + IF q - 1 \in V THEN 2^e[q - 1] ELSE 0
      BY <1>7, <1>9, <2>1
    <2> QED BY <2>1, <2>2
  <1>12. sum[0] = 0 /\ f[0] = 0
    BY <1>2, <1>7, <1>9
  <1>13. 2^(s + 1) = 2 * 2^s /\ 2^s \in Nat
    BY <1>3, PowerDoubles, PowerIsPositive
  <1> DEFINE Less(k) == sum[k] = f[k] - drop(k)
             T == {k \in Nat : k <= Digits => Less(k)}
  <1> HIDE DEF most, s
  <1>14. 0 \in T
    <2>1. drop(0) = 0
      BY <1>2
    <2> QED BY <1>12, <2>1
  <1>15. ASSUME NEW k \in T PROVE k + 1 \in T
    <2> SUFFICES ASSUME k + 1 <= Digits PROVE Less(k + 1)
      OBVIOUS
    <2>1. k \in Nat /\ sum[k] = f[k] - drop(k)
      BY <1>2
    <2> HIDE DEF T
    <2>2. f[k] \in Nat
      BY <1>2, <1>10, <2>1
    <2>3. CASE k \notin V
      <3>1. sum[k + 1] = sum[k] + 0 /\ f[k + 1] = f[k] + 0
        BY <1>11, <2>1, <2>3
      <3>2. drop(k + 1) = drop(k) /\ drop(k) \in Nat
        <4>1. negative => most # k
          BY <2>3
        <4>2. most # k => (most < k + 1 <=> most < k)
          BY <1>2, <2>1
        <4> QED BY <1>13, <4>1, <4>2
      <3> QED BY <2>1, <2>2, <3>1, <3>2
    <2>4. CASE k \in V /\ ~(fmt.signed /\ k = most)
      <3>1. weight(k) = 2^e[k] /\ 2^e[k] \in Nat
        BY <1>3, <2>4, PowerIsPositive DEF weight
      <3>2. sum[k + 1] = sum[k] + 2^e[k] /\ f[k + 1] = f[k] + 2^e[k]
        BY <1>11, <2>1, <2>4, <3>1
      <3>3. drop(k + 1) = drop(k) /\ drop(k) \in Nat
        <4>1. negative => most # k
          BY <2>4
        <4>2. most # k => (most < k + 1 <=> most < k)
          BY <1>2, <2>1
        <4> QED BY <1>13, <4>1, <4>2
      <3> HIDE DEF drop
      <3> QED BY <2>1, <2>2, <3>1, <3>2, <3>3
    <2>5. CASE k \in V /\ fmt.signed /\ k = most
      <3>1. weight(k) = -2^s /\ 2^e[k] = 2^s
        BY <1>3, <2>5 DEF weight
      <3>2. sum[k + 1] = sum[k] + -2^s /\ f[k + 1] = f[k] + 2^s
        BY <1>11, <2>1, <2>5, <3>1
      <3>3. drop(k) = 0 /\ drop(k + 1) = 2 * 2^s
        <4>1. ~(most < k) /\ most < k + 1 /\ negative
          BY <1>2, <2>5
        <4> QED BY <1>13, <4>1
      <3> HIDE DEF drop
      <3> QED BY <1>13, <2>1, <2>2, <3>2, <3>3
    <2> QED BY <2>3, <2>4, <2>5
  <1>16. T \in SUBSET Nat
    OBVIOUS
  <1> HIDE DEF T
  <1>17. sum[Digits] = f[Digits] - drop(Digits)
    <2>1. Digits \in T
      BY <1>2, <1>14, <1>15, <1>16, Induction
    <2> QED BY <1>2, <2>1 DEF T
  <1>18. drop(Digits) = IF fmt.signed /\ most \in BitsOf(value) THEN 2^(s + 1) ELSE 0
    BY <1>2 DEF V
  <1> QED BY <1>1, <1>10, <1>17, <1>18 DEF most, s

\* The number shown is that sum.
LEMMA RenderedIsSum ==
  ASSUME NEW mask \in Word \ {0}, NEW value \in Word, NEW fmt \in Formats
  PROVE  RenderedNumber(mask, value, fmt) = WeightedSum(mask, value, fmt)
  <1> DEFINE w    == FieldWord(mask, value, fmt)
             s    == SignBitIndex(mask, fmt)
             most == MostSetBitIndex(mask)
             V    == BitsOf(mask) \cap BitsOf(value)
             e(j) == ExponentOf(mask, j, fmt)
  <1>1. w \in Word /\ \A i \in Nat : Bit(w, i) <=> \E j \in V : i = e(j)
    BY FieldBits
  <1>2. /\ s \in 0 .. Digits - 1 /\ s \in Nat /\ s = e(most)
        /\ \A i, j \in BitsOf(mask) : i < j => e(i) < e(j)
        /\ \A j \in BitsOf(mask) : e(j) \in Nat
    BY Exponents
  <1>3. most \in BitsOf(mask) /\ \A j \in BitsOf(mask) : j <= most /\ j \in Nat
    <2>1. \A j \in BitsOf(mask) : j \in Nat
      BY DEF BitsOf
    <2> QED BY <2>1, MaskShape
  <1>4. fmt.signed \in BOOLEAN
    BY DEF Formats
  <1>5. WeightedSum(mask, value, fmt) =
          w - IF fmt.signed /\ most \in BitsOf(value) THEN 2^(s + 1) ELSE 0
    BY SumOfWeights
  <1>6. RenderedNumber(mask, value, fmt) = IF fmt.signed THEN SignExtend(w, s) ELSE w
    BY DEF RenderedNumber
  <1> HIDE DEF w, s, most, e
  <1>7. \A j \in V : e(j) <= s /\ (e(j) = s => j = most)
    <2> SUFFICES ASSUME NEW j \in V PROVE e(j) <= s /\ (e(j) = s => j = most)
      OBVIOUS
    <2>1. j \in BitsOf(mask) /\ (j < most \/ j = most)
      BY <1>3
    <2>2. j < most => e(j) < s
      BY <1>2, <1>3, <2>1
    <2>3. e(j) \in Nat
      BY <1>2, <2>1
    <2> QED BY <1>2, <2>1, <2>2, <2>3
  <1>8. \A i \in Nat : Bit(w, i) => i <= s
    BY <1>1, <1>7
  <1>9. Bit(w, s) <=> most \in BitsOf(value)
    BY <1>1, <1>2, <1>3, <1>7
  <1>10. SignExtend(w, s) = SignedAt(w, s)
    BY <1>1, <1>2, <1>8, SignExtended
  <1>11. w \in Nat
    BY <1>1, WordsByBits
  <1> QED BY <1>4, <1>5, <1>6, <1>9, <1>10, <1>11 DEF SignedAt

\* Condensing with the sign extended shows the packed number as well.
LEMMA ExtendedIsPacked ==
  ASSUME NEW mask \in Word \ {0}, NEW value \in Word
  PROVE  BitCast(Condense(mask, value, TRUE, TRUE)) =
           RenderedNumber(mask, value, [packed |-> TRUE, shifted |-> FALSE, signed |-> TRUE])
  <1> DEFINE fmt   == [packed |-> TRUE, shifted |-> FALSE, signed |-> TRUE]
             g     == Gathered(mask, value)
             count == CountBitsSet(mask)
             shift == ShiftBack(mask, TRUE)
             w     == Condense(mask, value, TRUE, FALSE)
             s     == count - 1
  <1>1. /\ count \in Nat \ {0} /\ Digits \in Nat /\ shift \in Nat
        /\ Digits - shift = s + 1 /\ s \in 0 .. Digits - 1 /\ s \in Nat /\ shift + s = Digits - 1
    <2>1. count \in Nat \ {0} /\ count <= Digits - LeastSetBitIndex(mask)
          /\ LeastSetBitIndex(mask) \in 0 .. Digits - 1
      BY MaskShape
    <2>2. shift = Digits - count - 0
      BY DEF ShiftBack
    <2> HIDE DEF count, shift
    <2> QED BY <2>1, <2>2, WordSize
  <1>2. g \in Word /\ g \in Nat
    BY GatheredBits, WordSize DEF Word
  <1>3. g \div 2^shift \in Nat /\ (Bit(g \div 2^shift, s) <=> Bit(g, Digits - 1))
    <2>1. Bit(g \div 2^shift, s) <=> Bit(g, shift + s)
      BY <1>1, <1>2, BitShifted
    <2> QED BY <1>1, <1>2, <2>1, BitShifted
  <1>4. w = g \div 2^shift
    <2>1. w = g \div 2^shift + 0
      BY Zenon DEF Condense
    <2> HIDE DEF w, g, shift
    <2> QED BY <1>3, <2>1
  <1>5. Condense(mask, value, TRUE, TRUE) = w + IF Bit(w, s) THEN Modulus - 2^(s + 1) ELSE 0
    <2>1. Condense(mask, value, TRUE, TRUE) =
            g \div 2^shift + IF Bit(g, Digits - 1) THEN FreedBits(shift) ELSE 0
      BY DEF Condense
    <2> HIDE DEF g, shift, w, s
    <2> QED BY <1>1, <1>3, <1>4, <2>1 DEF FreedBits
  <1>6. fmt \in Formats /\ fmt.packed /\ fmt.signed
    BY DEF Formats
  <1>7. FieldWord(mask, value, fmt) = w /\ SignBitIndex(mask, fmt) = s
    BY DEF FieldWord, SignBitIndex
  <1>8. RenderedNumber(mask, value, fmt) = SignExtend(w, s)
    BY <1>7 DEF RenderedNumber
  <1>9. w \in Word /\ \A i \in Nat : Bit(w, i) => i <= s
    <2>1. w \in Word /\ \A i \in Nat : Bit(w, i) => \E j \in BitsOf(mask) : i = ExponentOf(mask, j, fmt)
      <3> HIDE DEF w, fmt
      <3> QED BY <1>6, <1>7, FieldBits
    <2>2. \A j \in BitsOf(mask) : ExponentOf(mask, j, fmt) <= s
      <3> HIDE DEF fmt, s
      <3>1. MostSetBitIndex(mask) \in BitsOf(mask) /\ \A j \in BitsOf(mask) : j <= MostSetBitIndex(mask) /\ j \in Nat
        <4>1. \A j \in BitsOf(mask) : j \in Nat
          BY DEF BitsOf
        <4> QED BY <4>1, MaskShape
      <3>2. /\ s = ExponentOf(mask, MostSetBitIndex(mask), fmt)
            /\ \A i, j \in BitsOf(mask) :
                 i < j => ExponentOf(mask, i, fmt) < ExponentOf(mask, j, fmt)
            /\ \A j \in BitsOf(mask) : ExponentOf(mask, j, fmt) \in Nat
        BY <1>6, <1>7, Exponents
      <3> SUFFICES ASSUME NEW j \in BitsOf(mask) PROVE ExponentOf(mask, j, fmt) <= s
        OBVIOUS
      <3>3. j = MostSetBitIndex(mask) \/ j < MostSetBitIndex(mask)
        BY <3>1
      <3> QED BY <1>1, <3>1, <3>2, <3>3
    <2> HIDE DEF w, fmt, s
    <2> QED BY <2>1, <2>2
  <1>10. /\ SignExtend(w, s) = SignedAt(w, s)
         /\ BitCast(w + IF Bit(w, s) THEN Modulus - 2^(s + 1) ELSE 0) = SignedAt(w, s)
    <2> HIDE DEF w, s
    <2> QED BY <1>1, <1>9, SignExtended
  <1> QED BY <1>5, <1>8, <1>10

(* For every width of a word, every mask, value and format: the number     *)
(* that format_numeric_value() shows is the sum of the weights of the      *)
(* field's bits, with the sign's weight negative; and condense() with sign *)
(* extension gives the same number.                                        *)
THEOREM ShownNumbersAreSums == ArithmeticSpec => []NumericFieldsAreSums
  <1>1. CallsTyped => NumericFieldsAreSums
    <2> SUFFICES ASSUME CallsTyped, call.op = "mask" PROVE NumericFieldsAreSums
      BY DEF NumericFieldsAreSums
    <2> DEFINE m == First
               v == Second
    <2>1. m \in Word \ {0} /\ v \in Word
      BY DEF CallsTyped
    <2> HIDE DEF m, v
    <2>2. \A fmt \in Formats : RenderedNumber(m, v, fmt) = WeightedSum(m, v, fmt)
      BY <2>1, RenderedIsSum
    <2>3. BitCast(Condense(m, v, TRUE, TRUE)) =
            RenderedNumber(m, v, [packed |-> TRUE, shifted |-> FALSE, signed |-> TRUE])
      BY <2>1, ExtendedIsPacked
    <2> QED BY <2>2, <2>3, Zenon DEF NumericFieldsAreSums, m, v
  <1> QED BY CallsAreTyped, <1>1, PTL

-----------------------------------------------------------------------------
(* The checksum.                                                           *)

\* The words of a checksum, and the bytes in them.
LEMMA CrcWordSize ==
  /\ 2^8 = 256 /\ 2^16 = 65536 /\ CrcModulus = 65536 /\ CrcModulus \div 2 = 32768
  /\ 16 \in Nat /\ 8 \in Nat
  /\ \A x \in CrcWord : x \in Nat /\ x < 65536
  /\ \A x \in Nat : x < 65536 => x \in CrcWord
  /\ Polynomial \in CrcWord /\ Bit(Polynomial, 0)
  <1>1. 2^(1 + 1) = 2^1 * 2^1 /\ 2^1 = 2
    BY PowerOfSum, PowerIsPositive
  <1>2. 2^(2 + 2) = 2^2 * 2^2
    BY PowerOfSum
  <1>3. 2^(4 + 4) = 2^4 * 2^4
    BY PowerOfSum
  <1>4. 2^(8 + 8) = 2^8 * 2^8
    BY PowerOfSum
  <1>5. 2^2 = 4
    BY <1>1
  <1>6. 2^4 = 16
    BY <1>2, <1>5
  <1>7. 2^8 = 256
    BY <1>3, <1>6
  <1>8. 2^16 = 65536
    BY <1>4, <1>7
  <1>9. CrcModulus = 65536 /\ CrcModulus \div 2 = 32768
    BY <1>8 DEF CrcModulus
  <1>10. /\ \A x \in CrcWord : x \in Nat /\ x < 65536
         /\ \A x \in Nat : x < 65536 => x \in CrcWord
    <2>0. PICK n \in Nat : n = CrcModulus
      BY <1>9, SMT
    <2>1. CrcWord = 0 .. n - 1
      BY <2>0 DEF CrcWord
    <2>2. n = 65536
      BY <1>9, <2>0, SMT
    <2>3. \A x \in 0 .. n - 1 : x \in Nat /\ x < n
      OBVIOUS
    <2>4. \A x \in Nat : x < n => x \in 0 .. n - 1
      OBVIOUS
    <2>5. /\ \A x \in CrcWord : x \in Nat /\ x < n
          /\ \A x \in Nat : x < n => x \in CrcWord
      BY <2>1, <2>3, <2>4, Zenon
    <2> QED BY <2>2, <2>5, SMT
  <1>11. Bit(Polynomial, 0)
    <2>1. 2^0 = 1 /\ (4129 \div 1) % 2 = 1
      BY PowerIsPositive
    <2> QED BY <2>1 DEF Bit, Polynomial
  <1> QED BY <1>7, <1>8, <1>9, <1>10, <1>11 DEF Polynomial

\* The same, with the size as a power: what the lemmas on bits speak of.
LEMMA CrcWordBits ==
  \E n \in Nat : /\ n = 16
                 /\ \A x \in CrcWord : x \in Nat /\ x < 2^n
                 /\ \A x \in Nat : x < 2^n => x \in CrcWord
                 /\ 0 .. 15 = 0 .. n - 1
  <1>1. PICK n \in Nat : n = 16
    OBVIOUS
  <1>2. 2^n = 65536
    BY <1>1, CrcWordSize, SMT
  <1>3. /\ \A x \in CrcWord : x \in Nat /\ x < 2^n
        /\ \A x \in Nat : x < 2^n => x \in CrcWord
    BY <1>2, CrcWordSize, SMT
  <1>4. 0 .. 15 = 0 .. n - 1
    BY <1>1
  <1> QED BY <1>1, <1>3, <1>4, Zenon

\* The bits of the words of a checksum.
LEMMA CrcBits ==
  ASSUME NEW v \in CrcWord
  PROVE  /\ v \in Nat /\ \A i \in Nat : 16 <= i => ~Bit(v, i)
         /\ \A w \in CrcWord : (\A i \in Nat : Bit(v, i) <=> Bit(w, i)) => v = w
  <1>0. PICK n \in Nat : /\ n = 16
                         /\ \A x \in CrcWord : x \in Nat /\ x < 2^n
    BY CrcWordBits, Zenon
  <1>1. ASSUME NEW w \in CrcWord PROVE w \in Nat /\ w < 2^n
    BY <1>0
  <1>2. \A i \in Nat : n <= i => ~Bit(v, i)
    BY <1>1, NoBitsAbove
  <1>3. ASSUME NEW w \in CrcWord, \A i \in Nat : Bit(v, i) <=> Bit(w, i) PROVE v = w
    <2>1. \A i \in 0 .. n - 1 : Bit(v, i) <=> Bit(w, i)
      <3>1. \A i \in 0 .. n - 1 : i \in Nat
        OBVIOUS
      <3> QED BY <1>3, <3>1
    <2>2. v \in Nat /\ v < 2^n /\ w \in Nat /\ w < 2^n
      BY <1>1
    <2> QED BY <2>1, <2>2, SameBits
  <1> QED BY <1>0, <1>1, <1>2, <1>3

\* Xor(), bit by bit.
LEMMA XorBits ==
  ASSUME NEW v \in CrcWord, NEW w \in CrcWord
  PROVE  /\ Xor(v, w) \in CrcWord
         /\ \A i \in Nat : Bit(Xor(v, w), i) <=> ~(Bit(v, i) <=> Bit(w, i))
  <1> DEFINE S == {i \in 0 .. 15 : Bit(v, i) # Bit(w, i)}
             x == WordOf(S, 16)
  <1>1. Xor(v, w) = x
    BY DEF Xor
  <1>0. PICK n \in Nat : /\ n = 16
                         /\ \A z \in Nat : z < 2^n => z \in CrcWord
                         /\ 0 .. 15 = 0 .. n - 1
    BY CrcWordBits, Zenon
  <1>2. S \in SUBSET (0 .. n - 1) /\ x = WordOf(S, n)
    BY <1>0
  <1>3. \A i \in Nat : i \in S <=> ~(Bit(v, i) <=> Bit(w, i))
    <2> SUFFICES ASSUME NEW i \in Nat PROVE i \in S <=> ~(Bit(v, i) <=> Bit(w, i))
      OBVIOUS
    <2>1. CASE i < 16
      <3>1. i \in 0 .. 15
        BY <2>1
      <3>2. Bit(v, i) \in BOOLEAN /\ Bit(w, i) \in BOOLEAN
        BY DEF Bit
      <3> QED BY <3>1, <3>2
    <2>2. CASE ~(i < 16)
      <3>1. i \notin 0 .. 15 /\ 16 <= i
        BY <2>2
      <3>2. ~Bit(v, i) /\ ~Bit(w, i)
        BY <3>1, CrcBits
      <3> QED BY <3>1, <3>2
    <2> QED BY <2>1, <2>2
  <1> HIDE DEF S, x
  <1>4. x \in Nat /\ x < 2^n /\ \A i \in Nat : Bit(x, i) <=> i \in S
    BY <1>2, BitsMakeNumber, Zenon
  <1>5. x \in CrcWord
    BY <1>0, <1>4
  <1> QED BY <1>1, <1>3, <1>4, <1>5

\* A word is known from its difference to another.
LEMMA XorCancels ==
  ASSUME NEW u \in CrcWord, NEW v \in CrcWord, NEW w \in CrcWord
  PROVE  /\ Xor(v, u) = Xor(w, u) => v = w
         /\ Xor(u, v) = Xor(u, w) => v = w
         /\ Xor(u, u) = 0
  <1>1. ASSUME Xor(v, u) = Xor(w, u) PROVE v = w
    <2>1. \A i \in Nat : Bit(v, i) <=> Bit(w, i)
      BY <1>1, XorBits
    <2> QED BY <2>1, CrcBits
  <1>2. ASSUME Xor(u, v) = Xor(u, w) PROVE v = w
    <2>1. \A i \in Nat : Bit(v, i) <=> Bit(w, i)
      BY <1>2, XorBits
    <2> QED BY <2>1, CrcBits
  <1>3. Xor(u, u) = 0
    <2>1. Xor(u, u) \in CrcWord /\ 0 \in CrcWord
      BY XorBits, CrcWordSize
    <2>2. \A i \in Nat : Bit(Xor(u, u), i) <=> Bit(0, i)
      BY XorBits, ZeroHasNoBits
    <2> QED BY <2>1, <2>2, CrcBits
  <1> QED BY <1>1, <1>2, <1>3

\* The bit that was shifted out shows in the lowest one, so that no two words meet.
LEMMA ShiftedOutKeeps ==
  ASSUME NEW x \in CrcWord, NEW y \in CrcWord
  PROVE  /\ ShiftedOut(x) \in CrcWord
         /\ ShiftedOut(x) = ShiftedOut(y) => x = y
         /\ x < 32768 => ShiftedOut(x) = 2 * x
  <1>1. ASSUME NEW z \in CrcWord
        PROVE  /\ z < 32768 => ShiftedOut(z) = 2 * z /\ 2 * z \in CrcWord /\ ~Bit(2 * z, 0)
               /\ ~(z < 32768) => /\ ShiftedOut(z) = Xor(2 * z - 65536, Polynomial)
                                  /\ 2 * z - 65536 \in CrcWord
                                  /\ Bit(Xor(2 * z - 65536, Polynomial), 0)
    <2>1. z \in Nat /\ z < 65536
      BY CrcWordSize
    <2>2. \A n \in Nat : ~Bit(2 * n, 0)
      <3> SUFFICES ASSUME NEW n \in Nat PROVE ~Bit(2 * n, 0)
        OBVIOUS
      <3>1. 2^0 = 1
        BY PowerIsPositive
      <3>2. (2 * n) \div 1 = 2 * n /\ (2 * n) % 2 = 0
        OBVIOUS
      <3>3. ((2 * n) \div 2^0) % 2 = 0
        BY <3>1, <3>2
      <3> QED BY <3>3 DEF Bit
    <2>3. CASE z < 32768
      <3>1. ShiftedOut(z) = 2 * z
        BY <2>1, <2>3, CrcWordSize DEF ShiftedOut
      <3>2. 2 * z \in Nat /\ 2 * z < 65536
        BY <2>1, <2>3
      <3> QED BY <2>2, <2>3, <3>1, <3>2, CrcWordSize
    <2>4. CASE ~(z < 32768)
      <3>1. ShiftedOut(z) = Xor((2 * z) % 65536, Polynomial)
        BY <2>1, <2>4, CrcWordSize DEF ShiftedOut
      <3>2. (2 * z) % 65536 = 2 * z - 65536 /\ 2 * z - 65536 \in Nat /\ 2 * z - 65536 < 65536
        BY <2>1, <2>4
      <3>3. PICK n \in Nat : 2 * z - 65536 = 2 * n
        BY <2>1, <2>4, z - 32768 \in Nat, 2 * z - 65536 = 2 * (z - 32768)
      <3>4. ~Bit(2 * z - 65536, 0)
        BY <2>2, <3>3
      <3>5. 2 * z - 65536 \in CrcWord /\ Polynomial \in CrcWord /\ Bit(Polynomial, 0)
        BY <3>2, CrcWordSize
      <3>6. Bit(Xor(2 * z - 65536, Polynomial), 0)
        BY <3>4, <3>5, XorBits, 0 \in Nat
      <3> QED BY <2>4, <3>1, <3>2, <3>5, <3>6
    <2> QED BY <2>3, <2>4
  <1>2. ShiftedOut(x) \in CrcWord
    BY <1>1, XorBits, CrcWordSize
  <1>3. ASSUME ShiftedOut(x) = ShiftedOut(y) PROVE x = y
    <2>0. x \in Int /\ y \in Int
      BY CrcWordSize
    <2>1. CASE x < 32768 /\ y < 32768
      <3>1. 2 * x = 2 * y
        BY <1>1, <1>3, <2>1
      <3> QED BY <2>0, <3>1
    <2>2. CASE ~(x < 32768) /\ ~(y < 32768)
      <3>1. Xor(2 * x - 65536, Polynomial) = Xor(2 * y - 65536, Polynomial)
        BY <1>1, <1>3, <2>2
      <3>2. 2 * x - 65536 \in CrcWord /\ 2 * y - 65536 \in CrcWord /\ Polynomial \in CrcWord
        BY <1>1, <2>2, CrcWordSize
      <3>3. 2 * x - 65536 = 2 * y - 65536
        BY <3>1, <3>2, XorCancels
      <3> QED BY <2>0, <3>3
    <2>3. CASE (x < 32768) # (y < 32768)
      BY <1>1, <1>3, <2>3
    <2> QED BY <2>1, <2>2, <2>3
  <1> QED BY <1>1, <1>2, <1>3

\* f gives the word after each of the eight rounds.
CrcRounds(f, x) == f = [i \in 0 .. 8 |-> IF i = 0 THEN x ELSE ShiftedOut(f[i - 1])]

\* What the rounds do: they start with the word, keep words apart, and multiply a byte.
LEMMA RoundsOfCrc ==
  ASSUME NEW x \in CrcWord, NEW f, CrcRounds(f, x)
  PROVE  /\ f[8] \in CrcWord
         /\ \A y \in CrcWord : \A g : CrcRounds(g, y) /\ f[8] = g[8] => x = y
         /\ x < 256 => f[8] = 256 * x
  <1>1. ASSUME NEW y, NEW g, CrcRounds(g, y)
        PROVE  g[0] = y /\ \A i \in 0 .. 7 : g[i + 1] = ShiftedOut(g[i])
    <2>1. \A i \in 0 .. 8 : g[i] = IF i = 0 THEN y ELSE ShiftedOut(g[i - 1])
      BY <1>1 DEF CrcRounds
    <2>2. ASSUME NEW i \in 0 .. 7 PROVE g[i + 1] = ShiftedOut(g[i])
      <3>1. PICK j \in 0 .. 8 : j = i + 1 /\ j # 0 /\ j - 1 = i
        OBVIOUS
      <3> QED BY <2>1, <3>1
    <2> QED BY <2>1, <2>2
  <1>2. ASSUME NEW y \in CrcWord, NEW g, CrcRounds(g, y)
        PROVE  \A i \in 0 .. 8 : g[i] \in CrcWord /\ (f[i] = g[i] => x = y)
    <2> DEFINE T == {i \in Nat : i <= 8 =>
                       f[i] \in CrcWord /\ g[i] \in CrcWord /\ (f[i] = g[i] => x = y)}
    <2>1. 0 \in T
      BY <1>1, <1>2
    <2>2. ASSUME NEW i \in T PROVE i + 1 \in T
      <3> SUFFICES ASSUME i + 1 <= 8
                   PROVE  /\ f[i + 1] \in CrcWord /\ g[i + 1] \in CrcWord
                          /\ f[i + 1] = g[i + 1] => x = y
        OBVIOUS
      <3>1. i \in 0 .. 7 /\ f[i] \in CrcWord /\ g[i] \in CrcWord /\ (f[i] = g[i] => x = y)
        OBVIOUS
      <3> HIDE DEF T
      <3>2. f[i + 1] = ShiftedOut(f[i]) /\ g[i + 1] = ShiftedOut(g[i])
        BY <1>1, <1>2, <3>1
      <3> QED BY <3>1, <3>2, ShiftedOutKeeps
    <2>3. T \in SUBSET Nat
      OBVIOUS
    <2> HIDE DEF T
    <2>4. \A i \in 0 .. 8 : i \in T
      BY <2>1, <2>2, <2>3, Induction
    <2> QED BY <2>4 DEF T
  <1>3. ASSUME x < 256 PROVE f[8] = 256 * x
    <2>1. x \in Nat /\ f[0] = x /\ \A i \in 0 .. 7 : f[i + 1] = ShiftedOut(f[i])
      BY <1>1, CrcBits
    <2>2. ASSUME NEW n \in Nat, n < 32768 PROVE ShiftedOut(n) = 2 * n
      BY <2>2, CrcWordSize, ShiftedOutKeeps
    <2>3. f[1] = 2 * x /\ f[2] = 4 * x
      <3>1. f[0 + 1] = 2 * x
        BY <1>3, <2>1, <2>2
      <3>2. f[1 + 1] = ShiftedOut(2 * x)
        BY <2>1, <3>1
      <3> QED BY <1>3, <2>1, <2>2, <3>1, <3>2
    <2>4. f[3] = 8 * x /\ f[4] = 16 * x
      <3>1. f[2 + 1] = 2 * (4 * x)
        BY <1>3, <2>1, <2>2, <2>3
      <3>2. f[3 + 1] = ShiftedOut(8 * x)
        BY <2>1, <3>1
      <3> QED BY <1>3, <2>1, <2>2, <3>1, <3>2
    <2>5. f[5] = 32 * x /\ f[6] = 64 * x
      <3>1. f[4 + 1] = 2 * (16 * x)
        BY <1>3, <2>1, <2>2, <2>4
      <3>2. f[5 + 1] = ShiftedOut(32 * x)
        BY <2>1, <3>1
      <3> QED BY <1>3, <2>1, <2>2, <3>1, <3>2
    <2>6. f[7] = 128 * x /\ f[8] = 256 * x
      <3>1. f[6 + 1] = 2 * (64 * x)
        BY <1>3, <2>1, <2>2, <2>5
      <3>2. f[7 + 1] = ShiftedOut(128 * x)
        BY <2>1, <3>1
      <3> QED BY <1>3, <2>1, <2>2, <3>1, <3>2
    <2> QED BY <2>6
  <1> QED BY <1>2, <1>3

\* The bytes, and where one enters the checksum: names that spare the provers the numerals.
Octets      == 0 .. 255
Upper(byte) == byte * 256

\* A byte passes into the checksum by the eight rounds.
LEMMA UpdateRounds ==
  ASSUME NEW crc \in CrcWord, NEW byte \in Octets
  PROVE  /\ Xor(crc, Upper(byte)) \in CrcWord /\ Upper(byte) \in CrcWord
         /\ \E f : CrcRounds(f, Xor(crc, Upper(byte))) /\ Crc16UpdateByte(crc, byte) = f[8]
  <1> DEFINE x == Xor(crc, Upper(byte))
             round[i \in 0 .. 8] == IF i = 0 THEN x ELSE ShiftedOut(round[i - 1])
             step == [p \in CrcWord \X Nat |-> ShiftedOut(p[1])]
  <1>1. Upper(byte) \in CrcWord
    <2>1. Upper(byte) \in Nat /\ Upper(byte) < 65536
      BY DEF Octets, Upper
    <2> QED BY <2>1, CrcWordSize, SMT
  <1>2. x \in CrcWord
    BY <1>1, XorBits
  <1>3. Crc16UpdateByte(crc, byte) = round[8]
    BY Zenon DEF Crc16UpdateByte, Upper
  <1> HIDE DEF x
  <1>4. step \in [CrcWord \X Nat -> CrcWord]
    <2>1. \A p \in CrcWord \X Nat : ShiftedOut(p[1]) \in CrcWord
      BY ShiftedOutKeeps
    <2> QED BY <2>1
  <1>5. \A v \in CrcWord, i \in Nat : step[<<v, i>>] = ShiftedOut(v)
    OBVIOUS
  <1> HIDE DEF step
  <1>6. PICK f : Rounds(f, CrcWord, x, step, 8)
    BY <1>2, <1>4, LoopExists, 8 \in Nat
  <1>7. \A i \in 0 .. 8 : i # 0 => step[<<f[i - 1], i>>] = ShiftedOut(f[i - 1])
    <2> SUFFICES ASSUME NEW i \in 0 .. 8, i # 0 PROVE step[<<f[i - 1], i>>] = ShiftedOut(f[i - 1])
      OBVIOUS
    <2>1. i - 1 \in 0 .. 8 /\ i \in Nat
      OBVIOUS
    <2>2. f[i - 1] \in CrcWord
      BY <1>6, <2>1 DEF Rounds
    <2> QED BY <1>5, <2>1, <2>2
  <1>8. CrcRounds(f, x)
    BY <1>6, <1>7 DEF Rounds, CrcRounds
  <1>9. CrcRounds(round, x)
    <2>1. f = [i \in 0 .. 8 |-> IF i = 0 THEN x ELSE ShiftedOut(f[i - 1])]
      BY <1>8 DEF CrcRounds
    <2>2. round = [i \in 0 .. 8 |-> IF i = 0 THEN x ELSE ShiftedOut(round[i - 1])]
      BY <2>1, Zenon
    <2> HIDE DEF round
    <2> QED BY <2>2, Zenon DEF CrcRounds
  <1> HIDE DEF round
  <1>10. \E g : CrcRounds(g, x) /\ Crc16UpdateByte(crc, byte) = g[8]
    BY <1>3, <1>9, Zenon
  <1> QED BY <1>1, <1>2, <1>10, Zenon DEF x

\* The checksum after a byte tells the one before it, and the byte.
LEMMA UpdateKeeps ==
  ASSUME NEW c \in CrcWord, NEW a \in Octets
  PROVE  /\ Crc16UpdateByte(c, a) \in CrcWord
         /\ \A d \in CrcWord : Crc16UpdateByte(c, a) = Crc16UpdateByte(d, a) => c = d
         /\ \A b \in Octets : Crc16UpdateByte(c, a) = Crc16UpdateByte(c, b) => a = b
  <1>1. ASSUME NEW d \in CrcWord, NEW b \in Octets
        PROVE  /\ Crc16UpdateByte(c, a) \in CrcWord
               /\ Crc16UpdateByte(c, a) = Crc16UpdateByte(d, b) =>
                    Xor(c, Upper(a)) = Xor(d, Upper(b))
    <2>1. PICK f : CrcRounds(f, Xor(c, Upper(a))) /\ Crc16UpdateByte(c, a) = f[8]
      BY UpdateRounds
    <2>2. PICK g : CrcRounds(g, Xor(d, Upper(b))) /\ Crc16UpdateByte(d, b) = g[8]
      BY UpdateRounds
    <2>3. Xor(c, Upper(a)) \in CrcWord /\ Xor(d, Upper(b)) \in CrcWord
      BY UpdateRounds
    <2>4. f[8] \in CrcWord /\ (f[8] = g[8] => Xor(c, Upper(a)) = Xor(d, Upper(b)))
      BY <2>1, <2>2, <2>3, RoundsOfCrc
    <2> QED BY <2>1, <2>2, <2>4, Zenon
  <1>2. Upper(a) \in CrcWord /\ \A b \in Octets : Upper(b) \in CrcWord
    BY UpdateRounds
  <1>3. ASSUME NEW d \in CrcWord, Crc16UpdateByte(c, a) = Crc16UpdateByte(d, a) PROVE c = d
    <2>1. Xor(c, Upper(a)) = Xor(d, Upper(a))
      BY <1>1, <1>3
    <2> QED BY <1>2, <2>1, XorCancels
  <1>4. ASSUME NEW b \in Octets, Crc16UpdateByte(c, a) = Crc16UpdateByte(c, b) PROVE a = b
    <2>1. Xor(c, Upper(a)) = Xor(c, Upper(b))
      BY <1>1, <1>4
    <2>2. Upper(a) = Upper(b)
      BY <1>2, <2>1, XorCancels
    <2> QED BY <2>2 DEF Upper, Octets
  <1> QED BY <1>1, <1>3, <1>4, Zenon

\* The upper byte cancels; its rounds put the lower one in its place.
LEMMA UpperByteCancels ==
  ASSUME NEW crc \in CrcWord
  PROVE  \E hi, lo \in Octets :
           /\ hi = crc \div 256 /\ lo = crc % 256
           /\ Crc16UpdateByte(crc, hi) = Upper(lo) /\ Upper(lo) \in CrcWord
           /\ Crc16UpdateByte(Upper(lo), lo) = 0
  <1>1. crc \in Nat /\ crc < 65536
    BY CrcWordSize, SMT
  <1>2. PICK hi \in Octets, lo \in Octets :
          hi = crc \div 256 /\ lo = crc % 256 /\ crc = 256 * hi + lo
    <2>1. /\ crc \div 256 \in Octets /\ crc % 256 \in Octets
          /\ crc = 256 * (crc \div 256) + (crc % 256)
      BY <1>1, SMT DEF Octets
    <2> QED BY <2>1, SMT
  <1>3. hi \in Nat /\ lo \in Nat /\ lo < 256
    BY <1>2, SMT DEF Octets
  <1>4. Upper(hi) \in CrcWord /\ Upper(lo) \in CrcWord
    BY UpdateRounds
  <1>5. lo \in CrcWord /\ 0 \in CrcWord
    BY <1>3, CrcWordSize, SMT
  <1>6. PICK k \in Nat : k = 8
    OBVIOUS
  <1>7. 2^k = 256
    BY <1>6, CrcWordSize, SMT
  <1>8. Xor(crc, Upper(hi)) = lo
    <2>1. lo < 2^k /\ 0 < 2^k /\ 0 \in Nat
      BY <1>3, <1>7
    <2>2. \A i \in Nat : Bit(2^k * hi + lo, i) <=> IF i < k THEN Bit(lo, i) ELSE Bit(hi, i - k)
      BY <1>3, <2>1, Joined, Zenon
    <2>3. \A i \in Nat : Bit(2^k * hi + 0, i) <=> IF i < k THEN Bit(0, i) ELSE Bit(hi, i - k)
      BY <1>3, <2>1, Joined, Zenon
    <2>4. 2^k * hi + lo = crc /\ 2^k * hi + 0 = Upper(hi)
      BY <1>2, <1>3, <1>7 DEF Upper
    <2>5. \A i \in Nat : ~Bit(0, i)
      BY ZeroHasNoBits
    <2>6. \A i \in Nat : k <= i => ~Bit(lo, i)
      BY <1>3, <2>1, NoBitsAbove, Zenon
    <2>7. \A i \in Nat : i < k \/ k <= i
      OBVIOUS
    <2>8. \A i \in Nat : Bit(lo, i) <=> ~(Bit(crc, i) <=> Bit(Upper(hi), i))
      <3> SUFFICES ASSUME NEW i \in Nat PROVE Bit(lo, i) <=> ~(Bit(crc, i) <=> Bit(Upper(hi), i))
        OBVIOUS
      <3>1. Bit(crc, i) <=> IF i < k THEN Bit(lo, i) ELSE Bit(hi, i - k)
        BY <2>2, <2>4, Zenon
      <3>2. Bit(Upper(hi), i) <=> IF i < k THEN FALSE ELSE Bit(hi, i - k)
        BY <2>3, <2>4, <2>5, Zenon
      <3>3. CASE i < k
        BY <3>1, <3>2, <3>3, Zenon
      <3>4. CASE ~(i < k)
        <4>1. ~Bit(lo, i)
          BY <2>6, <2>7, <3>4, Zenon
        <4> QED BY <3>1, <3>2, <3>4, <4>1, Zenon
      <3> QED BY <3>3, <3>4
    <2>9. /\ Xor(crc, Upper(hi)) \in CrcWord
          /\ \A i \in Nat : Bit(Xor(crc, Upper(hi)), i) <=> ~(Bit(crc, i) <=> Bit(Upper(hi), i))
      BY <1>4, XorBits, Zenon
    <2>10. \A i \in Nat : Bit(lo, i) <=> Bit(Xor(crc, Upper(hi)), i)
      BY <2>8, <2>9, Zenon
    <2> QED BY <1>5, <2>9, <2>10, CrcBits, Zenon
  <1>9. Crc16UpdateByte(crc, hi) = Upper(lo)
    <2>1. PICK f : CrcRounds(f, lo) /\ Crc16UpdateByte(crc, hi) = f[8]
      BY <1>8, UpdateRounds, Zenon
    <2> QED BY <1>3, <1>5, <2>1, RoundsOfCrc DEF Upper
  <1>10. Crc16UpdateByte(Upper(lo), lo) = 0
    <2>1. Xor(Upper(lo), Upper(lo)) = 0
      BY <1>4, XorCancels, Zenon
    <2>2. PICK f : CrcRounds(f, 0) /\ Crc16UpdateByte(Upper(lo), lo) = f[8]
      BY <1>4, <2>1, UpdateRounds, Zenon
    <2>3. f[8] = 256 * 0
      BY <1>5, <2>2, RoundsOfCrc
    <2> QED BY <2>2, <2>3
  <1> QED BY <1>2, <1>4, <1>9, <1>10

\* f gives the checksum after each byte of a message.
MessageLoop(f, bytes, seed) ==
  f = [k \in 0 .. Len(bytes) |-> IF k = 0 THEN seed ELSE Crc16UpdateByte(f[k - 1], bytes[k])]

\* Byte by byte.
ByteByByte(f, bytes, seed) ==
  /\ f[0] = seed
  /\ \A k \in 0 .. Len(bytes) : f[k] \in CrcWord
  /\ \A k \in Nat : k < Len(bytes) => f[k + 1] = Crc16UpdateByte(f[k], bytes[k + 1])

LEMMA BytesPass ==
  ASSUME NEW bytes \in Seq(Octets), NEW seed \in CrcWord
  PROVE  \E f : ByteByByte(f, bytes, seed) /\ Crc16(bytes, seed) = f[Len(bytes)]
  <1> DEFINE n == Len(bytes)
             crc[k \in 0 .. Len(bytes)] ==
               IF k = 0 THEN seed ELSE Crc16UpdateByte(crc[k - 1], bytes[k])
             byte(k) == IF k \in 1 .. n THEN bytes[k] ELSE 0
             step == [p \in CrcWord \X Nat |-> Crc16UpdateByte(p[1], byte(p[2]))]
  <1>1. n \in Nat /\ \A k \in 1 .. n : bytes[k] \in Octets
    OBVIOUS
  <1>2. Crc16(bytes, seed) = crc[n]
    BY Zenon DEF Crc16
  <1>3. \A k \in Nat : byte(k) \in Octets
    BY <1>1 DEF Octets
  <1>4. \A k \in 1 .. n : byte(k) = bytes[k]
    OBVIOUS
  <1> HIDE DEF byte
  <1>5. step \in [CrcWord \X Nat -> CrcWord]
    <2>1. \A p \in CrcWord \X Nat : Crc16UpdateByte(p[1], byte(p[2])) \in CrcWord
      BY <1>3, UpdateKeeps
    <2> QED BY <2>1
  <1>6. \A v \in CrcWord, k \in Nat : step[<<v, k>>] = Crc16UpdateByte(v, byte(k))
    OBVIOUS
  <1> HIDE DEF step
  <1>7. PICK f : Rounds(f, CrcWord, seed, step, n)
    BY <1>1, <1>5, LoopExists
  <1>8. \A k \in 0 .. n : k # 0 => step[<<f[k - 1], k>>] = Crc16UpdateByte(f[k - 1], bytes[k])
    <2> SUFFICES ASSUME NEW k \in 0 .. n, k # 0
                 PROVE  step[<<f[k - 1], k>>] = Crc16UpdateByte(f[k - 1], bytes[k])
      OBVIOUS
    <2>1. k - 1 \in 0 .. n /\ k \in Nat /\ k \in 1 .. n
      BY <1>1
    <2>2. f[k - 1] \in CrcWord
      BY <1>7, <2>1 DEF Rounds
    <2> QED BY <1>4, <1>6, <2>1, <2>2
  <1>9. MessageLoop(f, bytes, seed)
    BY <1>7, <1>8 DEF Rounds, MessageLoop
  <1>10. MessageLoop(crc, bytes, seed)
    <2>1. crc = [k \in 0 .. Len(bytes) |->
                   IF k = 0 THEN seed ELSE Crc16UpdateByte(crc[k - 1], bytes[k])]
      BY <1>9, Zenon DEF MessageLoop
    <2> HIDE DEF crc
    <2> QED BY <2>1, Zenon DEF MessageLoop
  <1> HIDE DEF crc
  <1>11. \A k \in 0 .. n : crc[k] = IF k = 0 THEN seed ELSE Crc16UpdateByte(crc[k - 1], bytes[k])
    BY <1>10 DEF MessageLoop
  <1>12. ASSUME NEW k \in Nat, k < n PROVE crc[k + 1] = Crc16UpdateByte(crc[k], bytes[k + 1])
    <2>1. PICK q \in 0 .. n : q = k + 1 /\ q # 0 /\ q - 1 = k
      BY <1>1, <1>12
    <2> QED BY <1>11, <2>1
  <1>13. crc[0] = seed
    BY <1>1, <1>11
  <1> DEFINE T == {k \in Nat : k <= n => crc[k] \in CrcWord}
  <1>14. 0 \in T
    BY <1>13
  <1>15. ASSUME NEW k \in T PROVE k + 1 \in T
    <2> SUFFICES ASSUME k + 1 <= n PROVE crc[k + 1] \in CrcWord
      OBVIOUS
    <2>1. k \in Nat /\ k < n /\ crc[k] \in CrcWord /\ k + 1 \in 1 .. n
      BY <1>1
    <2> HIDE DEF T
    <2>2. bytes[k + 1] \in Octets
      BY <1>1, <2>1
    <2> QED BY <1>12, <2>1, <2>2, UpdateKeeps
  <1>16. T \in SUBSET Nat
    OBVIOUS
  <1> HIDE DEF T
  <1>17. \A k \in 0 .. n : k \in T
    <2>1. T = Nat
      BY <1>14, <1>15, <1>16, Induction
    <2>2. \A k \in 0 .. n : k \in Nat
      BY <1>1
    <2> QED BY <2>1, <2>2
  <1>18. \A k \in 0 .. n : crc[k] \in CrcWord
    BY <1>17 DEF T
  <1>19. ByteByByte(crc, bytes, seed)
    BY <1>12, <1>13, <1>18 DEF ByteByByte
  <1> QED BY <1>2, <1>19

\* One other byte leads the checksum astray for good.
LEMMA OneByteShows ==
  ASSUME NEW bytes \in Seq(Octets), NEW others \in Seq(Octets), NEW seed \in CrcWord,
         Len(others) = Len(bytes), NEW m \in 1 .. Len(bytes),
         others[m] # bytes[m], \A j \in 1 .. Len(bytes) : j # m => others[j] = bytes[j]
  PROVE  Crc16(others, seed) # Crc16(bytes, seed)
  <1> DEFINE n == Len(bytes)
  <1>1. PICK f : ByteByByte(f, bytes, seed) /\ Crc16(bytes, seed) = f[n]
    BY BytesPass
  <1>2. PICK g : ByteByByte(g, others, seed) /\ Crc16(others, seed) = g[Len(others)]
    BY BytesPass
  <1>3. n \in Nat /\ m \in Nat /\ m <= n /\ 1 <= m
    OBVIOUS
  <1>4. /\ f[0] = g[0]
        /\ \A k \in Nat : k < n => /\ f[k + 1] = Crc16UpdateByte(f[k], bytes[k + 1])
                                   /\ g[k + 1] = Crc16UpdateByte(g[k], others[k + 1])
        /\ \A k \in 0 .. n : f[k] \in CrcWord /\ g[k] \in CrcWord
    BY <1>1, <1>2 DEF ByteByByte
  <1>5. \A k \in 1 .. n : bytes[k] \in Octets /\ others[k] \in Octets
    OBVIOUS
  <1> HIDE DEF n
  <1> DEFINE T == {k \in Nat : k <= n => (f[k] = g[k] <=> k < m)}
  <1>6. 0 \in T
    BY <1>3, <1>4
  <1>7. ASSUME NEW k \in T PROVE k + 1 \in T
    <2>1. k \in Nat /\ (k <= n => (f[k] = g[k] <=> k < m))
      OBVIOUS
    <2> SUFFICES ASSUME k + 1 <= n PROVE f[k + 1] = g[k + 1] <=> k + 1 < m
      BY <2>1
    <2> HIDE DEF T
    <2> DEFINE q == k + 1
    <2>2. k \in 0 .. n /\ k < n /\ q \in 1 .. n /\ (q < m \/ q = m \/ m < q)
          /\ (q < m => k < m) /\ (q = m => k < m) /\ (m < q => ~(k < m)) /\ (q = m => ~(q < m))
          /\ (m < q => ~(q < m) /\ q # m) /\ (q < m => q # m)
      BY <1>3, <2>1
    <2>3. f[q] = Crc16UpdateByte(f[k], bytes[q]) /\ g[q] = Crc16UpdateByte(g[k], others[q])
      BY <1>4, <2>1, <2>2
    <2>4. f[k] \in CrcWord /\ g[k] \in CrcWord /\ bytes[q] \in Octets /\ others[q] \in Octets
      BY <1>4, <1>5, <2>2
    <2>5. f[k] = g[k] <=> k < m
      BY <2>1, <2>2
    <2>6. q # m => others[q] = bytes[q]
      BY <2>2 DEF n
    <2> HIDE DEF q
    <2>7. CASE q < m
      BY <2>2, <2>3, <2>5, <2>6, <2>7 DEF q
    <2>8. CASE q = m
      <3>1. f[q] = Crc16UpdateByte(f[k], bytes[q]) /\ g[q] = Crc16UpdateByte(f[k], others[q])
            /\ bytes[q] # others[q]
        BY <2>2, <2>3, <2>5, <2>8
      <3>2. f[q] # g[q]
        BY <2>4, <3>1, UpdateKeeps
      <3> QED BY <2>2, <2>8, <3>2 DEF q
    <2>9. CASE m < q
      <3>1. f[k] # g[k] /\ others[q] = bytes[q]
        BY <2>2, <2>5, <2>6, <2>9
      <3>2. g[q] = Crc16UpdateByte(g[k], bytes[q])
        BY <2>3, <3>1
      <3>3. Crc16UpdateByte(f[k], bytes[q]) # Crc16UpdateByte(g[k], bytes[q])
        BY <2>4, <3>1, UpdateKeeps, Zenon
      <3>4. f[q] # g[q]
        BY <2>3, <3>2, <3>3, Zenon
      <3> QED BY <2>2, <2>9, <3>4 DEF q
    <2> QED BY <2>2, <2>7, <2>8, <2>9
  <1>8. T \in SUBSET Nat
    OBVIOUS
  <1> HIDE DEF T
  <1>9. n \in T
    BY <1>3, <1>6, <1>7, <1>8, Induction
  <1>10. f[n] # g[n]
    BY <1>3, <1>9 DEF T
  <1> QED BY <1>1, <1>2, <1>10 DEF n

\* A message with its checksum behind it has none left.
LEMMA ChecksumCancels ==
  ASSUME NEW bytes \in Seq(Octets), NEW seed \in CrcWord
  PROVE  LET crc == Crc16(bytes, seed)
         IN  Crc16(bytes \o <<crc \div 256, crc % 256>>, seed) = 0
  <1> DEFINE n == Len(bytes)
             crc == Crc16(bytes, seed)
             all == bytes \o <<crc \div 256, crc % 256>>
  <1>1. PICK f : ByteByByte(f, bytes, seed) /\ crc = f[n]
    BY BytesPass
  <1>2. n \in Nat
    OBVIOUS
  <1>3. crc \in CrcWord
    BY <1>1, <1>2 DEF ByteByByte
  <1> HIDE DEF crc
  <1>4. PICK hi \in Octets, lo \in Octets :
          /\ hi = crc \div 256 /\ lo = crc % 256
          /\ Crc16UpdateByte(crc, hi) = Upper(lo)
          /\ Crc16UpdateByte(Upper(lo), lo) = 0
    BY <1>3, UpperByteCancels
  <1>5. all = bytes \o <<hi, lo>>
    BY <1>4
  <1> HIDE DEF all
  <1>6. /\ all \in Seq(Octets) /\ Len(all) = n + 2 /\ all[n + 1] = hi /\ all[n + 2] = lo
        /\ \A k \in 1 .. n : all[k] = bytes[k]
    BY <1>2, <1>5
  <1> HIDE DEF n
  <1>7. PICK g : ByteByByte(g, all, seed) /\ Crc16(all, seed) = g[n + 2]
    BY <1>6, BytesPass
  <1>8. /\ f[0] = g[0]
        /\ \A k \in Nat : k < n => f[k + 1] = Crc16UpdateByte(f[k], bytes[k + 1])
        /\ \A k \in Nat : k < n + 2 => g[k + 1] = Crc16UpdateByte(g[k], all[k + 1])
    BY <1>1, <1>6, <1>7 DEF ByteByByte, n
  <1> DEFINE T == {k \in Nat : k <= n => g[k] = f[k]}
  <1>9. 0 \in T
    BY <1>8
  <1>10. ASSUME NEW k \in T PROVE k + 1 \in T
    <2>1. k \in Nat /\ (k <= n => g[k] = f[k])
      OBVIOUS
    <2> SUFFICES ASSUME k + 1 <= n PROVE g[k + 1] = f[k + 1]
      BY <2>1
    <2> HIDE DEF T
    <2>2. k < n /\ k < n + 2 /\ g[k] = f[k] /\ k + 1 \in 1 .. n
      BY <1>2, <2>1
    <2> QED BY <1>6, <1>8, <2>1, <2>2
  <1>11. T \in SUBSET Nat
    OBVIOUS
  <1> HIDE DEF T
  <1>12. n \in T
    BY <1>2, <1>9, <1>10, <1>11, Induction
  <1>13. g[n] = crc
    BY <1>1, <1>2, <1>12 DEF T
  <1>14. g[n + 1] = Upper(lo)
    BY <1>2, <1>4, <1>6, <1>8, <1>13
  <1>15. g[n + 2] = 0
    <2>1. PICK q \in Nat : q = n + 1 /\ q + 1 = n + 2 /\ q < n + 2
      BY <1>2
    <2>2. g[q + 1] = Crc16UpdateByte(g[q], all[q + 1])
      BY <1>8, <2>1
    <2> QED BY <1>4, <1>6, <1>14, <2>1, <2>2
  <1> QED BY <1>7, <1>15 DEF all, crc

(* For messages of any length over any bytes, and any seed: the checksum   *)
(* of a message with its own checksum behind it is 0, and a message in     *)
(* which one byte is another has another checksum.                         *)
THEOREM ChecksumsNoticeAByte == ArithmeticSpec => []CrcSeesChanges
  <1>1. CallsTyped => CrcSeesChanges
    <2> SUFFICES ASSUME CallsTyped, call.op = "crc" PROVE CrcSeesChanges
      BY DEF CrcSeesChanges
    <2> DEFINE seed == First
               message == Second
               other == call.args[3]
    <2>1. seed \in CrcWord /\ message \in Seq(Octets) /\ other \in Octets
      BY DEF CallsTyped, Octets
    <2> HIDE DEF seed, message, other
    <2>2. LET crc == Crc16(message, seed)
          IN  Crc16(message \o <<crc \div 256, crc % 256>>, seed) = 0
      BY <2>1, ChecksumCancels
    <2>3. ASSUME NEW k \in DOMAIN message, message[k] # other
          PROVE  Crc16([message EXCEPT ![k] = other], seed) # Crc16(message, seed)
      <3> DEFINE changed == [message EXCEPT ![k] = other]
      <3>1. /\ changed \in Seq(Octets) /\ Len(changed) = Len(message) /\ k \in 1 .. Len(message)
            /\ changed[k] = other
            /\ \A j \in 1 .. Len(message) : j # k => changed[j] = message[j]
        BY <2>1
      <3> HIDE DEF changed
      <3>2. Crc16(changed, seed) # Crc16(message, seed)
        BY <2>1, <2>3, <3>1, OneByteShows
      <3> QED BY <3>2 DEF changed
    <2> QED BY <2>2, <2>3, Zenon DEF CrcSeesChanges, seed, message, other
  <1> QED BY CallsAreTyped, <1>1, PTL

-----------------------------------------------------------------------------
(* The digits of numbers.                                                  *)

\* A number, its quotient and its last digit.
LEMMA Quotient ==
  ASSUME NEW a \in Nat, NEW base \in Nat \ {0, 1}
  PROVE  /\ a \div base \in Nat /\ a % base \in Nat
         /\ a = (a \div base) * base + (a % base)
         /\ a # 0 => a \div base < a
         /\ \A c \in Nat : a <= c => a \div base <= c \div base
  <1> DEFINE q == a \div base
             r == a % base
  <1>1. q \in Nat /\ r \in Nat /\ r < base /\ a = base * q + r
    BY a \in Int, base \in Nat \ {0}, Division
  <1> HIDE DEF q, r
  <1>2. base * q = q * base
    BY <1>1
  <1>3. ASSUME a # 0 PROVE q < a
    <2>1. CASE q = 0
      BY <1>1, <1>3, <2>1
    <2>2. CASE q # 0
      <3>1. PICK z \in Nat : base = 2 + z
        BY base - 2 \in Nat, base = 2 + (base - 2)
      <3>2. base * q = q + q + z * q /\ z * q \in Nat
        BY <1>1, <3>1
      <3> QED BY <1>1, <2>2, <3>2
    <2> QED BY <2>1, <2>2
  <1>4. ASSUME NEW c \in Nat, a <= c PROVE q <= c \div base
    <2> DEFINE p == c \div base
               s == c % base
    <2>1. p \in Nat /\ s \in Nat /\ s < base /\ c = base * p + s
      BY c \in Int, base \in Nat \ {0}, Division
    <2> HIDE DEF p, s
    <2> SUFFICES ASSUME p < q PROVE FALSE
      BY <1>1, <2>1 DEF p
    <2>2. PICK z \in Nat : q = p + 1 + z
      BY <1>1, <2>1, q - p - 1 \in Nat, q = p + 1 + (q - p - 1)
    <2>3. base * q = base * p + base + base * z /\ base * z \in Nat /\ base * p \in Nat
      BY <2>1, <2>2
    <2> QED BY <1>1, <1>4, <2>1, <2>3
  <1> QED BY <1>1, <1>2, <1>3, <1>4 DEF q, r

\* f gives what each division leaves.
Divided(f, w, base, n) == f = [k \in 0 .. n |-> IF k = 0 THEN w ELSE f[k - 1] \div base]

\* One by one.
OneByOne(f, w, base, n) ==
  /\ f[0] = w /\ f[n] \in Nat
  /\ \A k \in Nat : k < n => f[k + 1] = f[k] \div base

LEMMA DivisionsRun ==
  ASSUME NEW w \in Nat, NEW base \in Nat \ {0, 1}, NEW n \in Nat
  PROVE  \E f : OneByOne(f, w, base, n) /\ Left(w, base, n) = f[n]
  <1> DEFINE left[k \in 0 .. n] == IF k = 0 THEN w ELSE left[k - 1] \div base
             step == [p \in Nat \X Nat |-> p[1] \div base]
  <1>1. Left(w, base, n) = left[n]
    BY Zenon DEF Left
  <1>2. step \in [Nat \X Nat -> Nat] /\ \A a, k \in Nat : step[<<a, k>>] = a \div base
    <2>1. \A p \in Nat \X Nat : p[1] \div base \in Nat
      BY Quotient
    <2> QED BY <2>1
  <1> HIDE DEF step
  <1>3. PICK f : Rounds(f, Nat, w, step, n)
    BY <1>2, LoopExists
  <1>4. \A k \in 0 .. n : k # 0 => step[<<f[k - 1], k>>] = f[k - 1] \div base
    <2> SUFFICES ASSUME NEW k \in 0 .. n, k # 0 PROVE step[<<f[k - 1], k>>] = f[k - 1] \div base
      OBVIOUS
    <2>1. k - 1 \in 0 .. n /\ k \in Nat
      OBVIOUS
    <2>2. f[k - 1] \in Nat
      BY <1>3, <2>1 DEF Rounds
    <2> QED BY <1>2, <2>1, <2>2
  <1>5. Divided(f, w, base, n)
    BY <1>3, <1>4 DEF Rounds, Divided
  <1>6. Divided(left, w, base, n)
    <2>1. left = [k \in 0 .. n |-> IF k = 0 THEN w ELSE left[k - 1] \div base]
      BY <1>5, Zenon DEF Divided
    <2> HIDE DEF left
    <2> QED BY <2>1, Zenon DEF Divided
  <1> HIDE DEF left
  <1>7. \A k \in 0 .. n : left[k] = IF k = 0 THEN w ELSE left[k - 1] \div base
    BY <1>6 DEF Divided
  <1>8. ASSUME NEW k \in Nat, k < n PROVE left[k + 1] = left[k] \div base
    <2>1. PICK q \in 0 .. n : q = k + 1 /\ q # 0 /\ q - 1 = k
      BY <1>8
    <2> QED BY <1>7, <2>1
  <1>9. left[0] = w
    BY <1>7
  <1> DEFINE T == {k \in Nat : k <= n => left[k] \in Nat}
  <1>10. 0 \in T
    BY <1>9
  <1>11. ASSUME NEW k \in T PROVE k + 1 \in T
    <2> SUFFICES ASSUME k + 1 <= n PROVE left[k + 1] \in Nat
      OBVIOUS
    <2>1. k \in Nat /\ k < n /\ left[k] \in Nat
      OBVIOUS
    <2> HIDE DEF T
    <2> QED BY <1>8, <2>1, Quotient
  <1>12. T \in SUBSET Nat
    OBVIOUS
  <1> HIDE DEF T
  <1>13. T = Nat
    BY <1>10, <1>11, <1>12, Induction
  <1>14. \A k \in Nat : k <= n => left[k] \in Nat
    BY <1>13 DEF T
  <1>15. OneByOne(left, w, base, n)
    BY <1>8, <1>9, <1>14 DEF OneByOne
  <1> QED BY <1>1, <1>15

\* What one more division leaves.
LEMMA OneMoreDivision ==
  ASSUME NEW w \in Nat, NEW base \in Nat \ {0, 1}
  PROVE  /\ Left(w, base, 0) = w
         /\ \A n \in Nat : /\ Left(w, base, n) \in Nat
                           /\ Left(w, base, n + 1) = Left(w, base, n) \div base
  <1>1. Left(w, base, 0) = w
    <2>1. PICK f : OneByOne(f, w, base, 0) /\ Left(w, base, 0) = f[0]
      BY DivisionsRun
    <2> QED BY <2>1 DEF OneByOne
  <1>2. ASSUME NEW n \in Nat
        PROVE  Left(w, base, n) \in Nat /\ Left(w, base, n + 1) = Left(w, base, n) \div base
    <2>1. PICK f : OneByOne(f, w, base, n) /\ Left(w, base, n) = f[n]
      BY DivisionsRun
    <2>2. PICK m \in Nat : m = n + 1
      OBVIOUS
    <2>3. PICK g : OneByOne(g, w, base, m) /\ Left(w, base, m) = g[m]
      BY DivisionsRun
    <2> USE DEF OneByOne
    <2> DEFINE T == {k \in Nat : k <= n => f[k] = g[k]}
    <2>4. 0 \in T
      BY <2>1, <2>3
    <2>5. ASSUME NEW k \in T PROVE k + 1 \in T
      <3> SUFFICES ASSUME k + 1 <= n PROVE f[k + 1] = g[k + 1]
        OBVIOUS
      <3>1. k \in Nat /\ k < n /\ k < m /\ f[k] = g[k]
        BY <2>2
      <3> HIDE DEF T
      <3> QED BY <2>1, <2>3, <3>1
    <2>6. T \in SUBSET Nat
      OBVIOUS
    <2> HIDE DEF T
    <2>7. T = Nat
      BY <2>4, <2>5, <2>6, Induction
    <2>8. f[n] = g[n]
      BY <2>7 DEF T
    <2>9. g[n + 1] = g[n] \div base
      BY <2>2, <2>3
    <2> QED BY <2>1, <2>2, <2>3, <2>8, <2>9
  <1> QED BY <1>1, <1>2

\* Divisions() counts them: before that many something is left, and from there on nothing.
LEMMA DivisionsCount ==
  ASSUME NEW w \in Nat, NEW base \in Nat \ {0, 1}
  PROVE  /\ Divisions(w, base) \in Nat
         /\ \A n \in Nat : Left(w, base, n) = 0 <=> Divisions(w, base) <= n
  <1>1. /\ Left(w, base, 0) = w
        /\ \A n \in Nat : /\ Left(w, base, n) \in Nat
                          /\ Left(w, base, n + 1) = Left(w, base, n) \div base
    BY OneMoreDivision
  <1>2. \A n \in Nat : /\ Left(w, base, n) # 0 => Left(w, base, n + 1) < Left(w, base, n)
                       /\ Left(w, base, n) = 0 => Left(w, base, n + 1) = 0
    <2> SUFFICES ASSUME NEW n \in Nat
                 PROVE  /\ Left(w, base, n) # 0 => Left(w, base, n + 1) < Left(w, base, n)
                        /\ Left(w, base, n) = 0 => Left(w, base, n + 1) = 0
      OBVIOUS
    <2> DEFINE a == Left(w, base, n)
               b == Left(w, base, n + 1)
    <2>1. a \in Nat /\ b = a \div base
      BY <1>1
    <2> HIDE DEF a, b
    <2>2. a # 0 => b < a
      BY <2>1, Quotient
    <2>3. a = 0 => b = 0
      BY <2>1
    <2> QED BY <2>2, <2>3 DEF a, b
  <1> DEFINE T == {n \in Nat : Left(w, base, n) = 0 \/ Left(w, base, n) + n <= w}
             Z == {n \in Nat : Left(w, base, n) = 0}
  <1>3. T = Nat
    <2>1. 0 \in T
      BY <1>1
    <2>2. ASSUME NEW n \in T PROVE n + 1 \in T
      <3>1. n \in Nat /\ n + 1 \in Nat /\ (Left(w, base, n) = 0 \/ Left(w, base, n) + n <= w)
        OBVIOUS
      <3>2. Left(w, base, n + 1) \in Nat /\ Left(w, base, n) \in Nat
        BY <1>1, <3>1
      <3>3. Left(w, base, n + 1) = 0 \/ Left(w, base, n + 1) + (n + 1) <= w
        BY <1>2, <3>1, <3>2
      <3> QED BY <3>1, <3>3
    <2>3. T \in SUBSET Nat
      OBVIOUS
    <2> HIDE DEF T
    <2> QED BY <2>1, <2>2, <2>3, Induction
  <1>4. w \in Z
    <2>1. w \in T
      BY <1>3
    <2>2. Left(w, base, w) \in Nat
      BY <1>1
    <2>3. Left(w, base, w) = 0
      BY <2>1, <2>2
    <2> QED BY <2>3
  <1>5. PICK d \in Z : \A n \in Z : d <= n
    <2>1. Z \in SUBSET Nat /\ Z # {}
      BY <1>4
    <2> HIDE DEF Z
    <2> QED BY <2>1, LeastNatural
  <1>6. d \in 0 .. w /\ Left(w, base, d) = 0 /\ (d > 0 => Left(w, base, d - 1) # 0)
    <2>1. d \in Nat /\ d <= w /\ Left(w, base, d) = 0
      BY <1>4, <1>5
    <2>2. d > 0 => Left(w, base, d - 1) # 0
      <3> SUFFICES ASSUME d > 0, Left(w, base, d - 1) = 0 PROVE FALSE
        OBVIOUS
      <3>1. PICK n \in Nat : n = d - 1
        BY <2>1
      <3>2. n \in Z
        BY <3>1
      <3> QED BY <1>5, <2>1, <3>1, <3>2
    <2> QED BY <2>1, <2>2
  <1>7. \A e \in Nat : Left(w, base, e) = 0 => \A n \in Nat : e <= n => Left(w, base, n) = 0
    <2> SUFFICES ASSUME NEW e \in Nat, Left(w, base, e) = 0
                 PROVE  \A n \in Nat : e <= n => Left(w, base, n) = 0
      OBVIOUS
    <2> DEFINE U == {n \in Nat : e <= n => Left(w, base, n) = 0}
    <2>1. 0 \in U
      OBVIOUS
    <2>2. ASSUME NEW n \in U PROVE n + 1 \in U
      <3>1. n \in Nat /\ n + 1 \in Nat /\ (e <= n => Left(w, base, n) = 0)
        OBVIOUS
      <3>2. e <= n + 1 => e <= n \/ e = n + 1
        BY <3>1
      <3>3. e <= n + 1 => Left(w, base, n + 1) = 0
        BY <1>2, <3>1, <3>2
      <3> QED BY <3>1, <3>3
    <2>3. U \in SUBSET Nat
      OBVIOUS
    <2> HIDE DEF U
    <2>4. U = Nat
      BY <2>1, <2>2, <2>3, Induction
    <2> QED BY <2>4 DEF U
  <1> HIDE DEF Z, T
  <1>8. \A e \in 0 .. w : Left(w, base, e) = 0 /\ (e > 0 => Left(w, base, e - 1) # 0) => e = d
    <2> SUFFICES ASSUME NEW e \in 0 .. w, Left(w, base, e) = 0,
                        e > 0 => Left(w, base, e - 1) # 0
                 PROVE  e = d
      OBVIOUS
    <2>1. e \in Nat /\ d \in Nat
      BY <1>6
    <2>2. ~(d < e)
      <3> SUFFICES ASSUME d < e PROVE FALSE
        OBVIOUS
      <3>1. PICK n \in Nat : n = e - 1 /\ d <= n /\ e > 0
        BY <2>1
      <3> QED BY <1>6, <1>7, <2>1, <3>1
    <2>3. ~(e < d)
      <3> SUFFICES ASSUME e < d PROVE FALSE
        OBVIOUS
      <3>1. PICK n \in Nat : n = d - 1 /\ e <= n /\ d > 0
        BY <2>1
      <3> QED BY <1>6, <1>7, <2>1, <3>1
    <2> QED BY <2>1, <2>2, <2>3
  <1>9. Divisions(w, base) = d
    BY <1>6, <1>8, Zenon DEF Divisions
  <1>10. \A n \in Nat : Left(w, base, n) = 0 <=> d <= n
    <2> SUFFICES ASSUME NEW n \in Nat PROVE Left(w, base, n) = 0 <=> d <= n
      OBVIOUS
    <2>1. d \in Nat
      BY <1>6
    <2>2. ASSUME Left(w, base, n) = 0 PROVE d <= n
      <3> SUFFICES ASSUME n < d PROVE FALSE
        BY <2>1
      <3>1. PICK m \in Nat : m = d - 1 /\ n <= m /\ d > 0
        BY <2>1
      <3> QED BY <1>6, <1>7, <2>2, <3>1
    <2> QED BY <1>6, <1>7, <2>1, <2>2
  <1> QED BY <1>6, <1>9, <1>10

\* A greater number has no fewer digits.
LEMMA MoreHasMoreDigits ==
  ASSUME NEW w \in Nat, NEW u \in Nat, w <= u, NEW base \in Nat \ {0, 1}
  PROVE  Divisions(w, base) <= Divisions(u, base)
  <1> DEFINE T == {n \in Nat : Left(w, base, n) <= Left(u, base, n)}
  <1>1. /\ Left(w, base, 0) = w /\ Left(u, base, 0) = u
        /\ \A n \in Nat : /\ Left(w, base, n) \in Nat /\ Left(u, base, n) \in Nat
                          /\ Left(w, base, n + 1) = Left(w, base, n) \div base
                          /\ Left(u, base, n + 1) = Left(u, base, n) \div base
    BY OneMoreDivision
  <1>2. 0 \in T
    BY <1>1
  <1>3. ASSUME NEW n \in T PROVE n + 1 \in T
    <2>1. n \in Nat /\ n + 1 \in Nat /\ Left(w, base, n) <= Left(u, base, n)
      OBVIOUS
    <2>2. Left(w, base, n) \div base <= Left(u, base, n) \div base
      <3>1. Left(w, base, n) \in Nat /\ Left(u, base, n) \in Nat
        BY <1>1, <2>1
      <3> QED BY <2>1, <3>1, Quotient, Zenon
    <2>3. Left(w, base, n + 1) <= Left(u, base, n + 1)
      BY <1>1, <2>1, <2>2
    <2> QED BY <2>1, <2>3
  <1>4. T \in SUBSET Nat
    OBVIOUS
  <1> HIDE DEF T
  <1>5. T = Nat
    BY <1>2, <1>3, <1>4, Induction
  <1> DEFINE d == Divisions(u, base)
  <1>6. d \in Nat /\ Left(u, base, d) = 0
    BY DivisionsCount
  <1> HIDE DEF d
  <1>7. Left(w, base, d) = 0
    <2>1. Left(w, base, d) <= Left(u, base, d)
      BY <1>5, <1>6 DEF T
    <2> QED BY <1>1, <1>6, <2>1
  <1> QED BY <1>6, <1>7, DivisionsCount DEF d

\* In a base that is a power of two, the divisions shift.
LEMMA DivisionsShift ==
  ASSUME NEW w \in Nat, NEW s \in Nat \ {0}, NEW n \in Nat
  PROVE  Left(w, 2^s, n) = 0 <=> w < 2^(s * n)
  <1> DEFINE base == 2^s
             T == {k \in Nat : Left(w, base, k) = w \div 2^(s * k)}
  <1>1. base \in Nat \ {0, 1}
    <2>1. 2^0 < 2^s /\ 2^0 = 1 /\ 2^s \in Nat
      BY PowerOrder, PowerIsPositive
    <2> QED BY <2>1
  <1>2. base \in Nat \ {0} /\ s \in Nat /\ \A k \in Nat : 2^(s * k) \in Nat \ {0} /\ s * k \in Nat
    BY <1>1, PowerIsPositive
  <1> HIDE DEF base
  <1>3. /\ Left(w, base, 0) = w
        /\ \A k \in Nat : Left(w, base, k + 1) = Left(w, base, k) \div base
    BY <1>1, OneMoreDivision
  <1>4. 0 \in T
    <2>1. s * 0 = 0 /\ 2^0 = 1 /\ w \div 1 = w
      BY PowerIsPositive
    <2>2. w \div 2^(s * 0) = w
      BY <2>1
    <2> QED BY <1>3, <2>2
  <1>5. ASSUME NEW k \in T PROVE k + 1 \in T
    <2>1. k \in Nat /\ k + 1 \in Nat /\ Left(w, base, k) = w \div 2^(s * k)
      OBVIOUS
    <2>2. s * k \in Nat /\ s * (k + 1) = s * k + s
      BY <2>1
    <2>3. 2^(s * k + s) = 2^(s * k) * base
      BY <2>2, PowerOfSum DEF base
    <2>4. w \div (2^(s * k) * base) = (w \div 2^(s * k)) \div base
      BY <1>2, <2>1, w \in Int, DivisionTwice, Zenon
    <2>5. Left(w, base, k + 1) = w \div 2^(s * (k + 1))
      BY <1>3, <2>1, <2>2, <2>3, <2>4
    <2> QED BY <2>1, <2>5
  <1>6. T \in SUBSET Nat
    OBVIOUS
  <1> HIDE DEF T
  <1>7. T = Nat
    BY <1>4, <1>5, <1>6, Induction
  <1>8. Left(w, base, n) = w \div 2^(s * n)
    BY <1>7 DEF T
  <1> DEFINE d == 2^(s * n)
             q == w \div d
  <1>9. d \in Nat \ {0}
    BY <1>2
  <1>10. q \in Nat /\ w % d \in Nat /\ w % d < d /\ w = d * q + (w % d)
    BY <1>9, w \in Int, Division, Zenon
  <1>11. w < d => q = 0
    BY <1>9, SmallIsRemainder
  <1> HIDE DEF q, d
  <1>12. q = 0 => w < d
    BY <1>9, <1>10
  <1> QED BY <1>8, <1>11, <1>12 DEF base, q, d

\* In such a base, the words with their top bit have as many digits as any word.
LEMMA TopBitHasAllDigits ==
  ASSUME NEW s \in Nat \ {0}, NEW e \in Nat, NEW w \in Nat, w < 2^(e + 1)
  PROVE  Divisions(w, 2^s) <= Divisions(2^e, 2^s)
  <1> DEFINE base == 2^s
             top == 2^e
             d == Divisions(top, base)
  <1>1. base \in Nat \ {0, 1}
    <2>1. 2^0 < 2^s /\ 2^0 = 1 /\ 2^s \in Nat
      BY PowerOrder, PowerIsPositive
    <2> QED BY <2>1
  <1>2. top \in Nat
    BY PowerIsPositive
  <1>3. d \in Nat /\ Left(top, base, d) = 0
    <2> HIDE DEF base, top
    <2> QED BY <1>1, <1>2, DivisionsCount
  <1> HIDE DEF d
  <1>4. top < 2^(s * d)
    BY <1>2, <1>3, DivisionsShift
  <1>5. s * d \in Nat /\ e + 1 \in Nat
    BY <1>3
  <1>6. e < s * d
    BY <1>4, <1>5, PowerOrder
  <1>7. 2^(e + 1) <= 2^(s * d) /\ 2^(e + 1) \in Nat /\ 2^(s * d) \in Nat
    BY <1>5, <1>6, PowerGrows, PowerIsPositive
  <1>8. w < 2^(s * d)
    BY <1>7
  <1>9. Left(w, base, d) = 0
    BY <1>3, <1>8, DivisionsShift
  <1>10. Divisions(w, base) <= d
    <2> HIDE DEF base
    <2> QED BY <1>1, <1>3, <1>9, DivisionsCount
  <1> QED BY <1>10 DEF d

\* The bases, and the exponents of those that are powers of two.
LEMMA BasesArePowers ==
  ASSUME NEW base \in Bases
  PROVE  /\ base \in Nat \ {0, 1}
         /\ base # 10 => \E s \in Nat \ {0} : base = 2^s
  <1>1. 2^1 = 2 /\ 2^(1 + 1) = 2^1 * 2^1
    BY PowerIsPositive, PowerOfSum
  <1>2. 2^(2 + 1) = 2^2 * 2^1 /\ 2^(2 + 2) = 2^2 * 2^2
    BY PowerOfSum
  <1>3. 2^1 = 2 /\ 2^3 = 8 /\ 2^4 = 16
    BY <1>1, <1>2
  <1>4. base \in {2, 8, 10, 16}
    BY DEF Bases
  <1>5. base \in Nat \ {0, 1}
    BY <1>4
  <1>6. base = 10 \/ base = 2^1 \/ base = 2^3 \/ base = 2^4
    BY <1>3, <1>4
  <1>7. 1 \in Nat \ {0} /\ 3 \in Nat \ {0} /\ 4 \in Nat \ {0}
    OBVIOUS
  <1> QED BY <1>5, <1>6, <1>7, Zenon

\* What is divided, and that max_digits_required() leaves room for its digits and its sign.
LEMMA DigitsFit ==
  ASSUME NEW t, IsIntType(t), NEW v \in Values(t), NEW base \in Bases
  PROVE  LET w == Digital(t, v, base)
             sign == v < 0 /\ base = 10
         IN  /\ w \in Nat /\ (w = 0 <=> v = 0) /\ v \in Int
             /\ MaxDigitsRequired(t, base) \in Nat \ {0}
             /\ DigitsRequired(t, v, base)
                  = Divisions(w, base) + IF v = 0 \/ sign THEN 1 ELSE 0
             /\ Divisions(w, base) + (IF sign THEN 1 ELSE 0) <= MaxDigitsRequired(t, base)
  <1> DEFINE d == 2^t.digits
             e == 2^ValueBits(t)
             w == Digital(t, v, base)
             sign == v < 0 /\ base = 10
             low == IF t.signed THEN -e ELSE d - 1
             u == Digital(t, low, base)
  <1>1. /\ t.digits \in Nat \ {0} /\ ValueBits(t) \in Nat /\ t.signed \in BOOLEAN
        /\ t.signed => t.digits = ValueBits(t) + 1
        /\ ~t.signed => t.digits = ValueBits(t)
    BY Widths DEF IsIntType
  <1>2. d \in Nat /\ d >= 2 /\ e \in Nat \ {0} /\ (t.signed => d = 2 * e) /\ (~t.signed => d = e)
    <2>1. d \in Nat /\ e \in Nat \ {0} /\ 2^0 < 2^t.digits /\ 2^0 = 1
      BY <1>1, PowerIsPositive, PowerOrder
    <2>2. t.signed => d = 2 * e
      BY <1>1, PowerDoubles
    <2> QED BY <1>1, <2>1, <2>2
  <1>3. /\ v \in Int /\ (t.signed => -e <= v /\ v < e) /\ (~t.signed => 0 <= v /\ v < d)
    BY <1>2 DEF Values, UnsignedMax
  <1>4. \A x \in Int : Digital(t, x, base) = IF base = 10 THEN (IF x < 0 THEN -x ELSE x) ELSE x % d
    BY DEF Digital, Magnitude, Narrow
  <1>5. /\ MaxDigitsRequired(t, base) = DigitsRequired(t, low, base)
        /\ low \in Int /\ low # 0 /\ (low < 0 <=> t.signed)
    <2>1. MaxDigitsRequired(t, base) = DigitsRequired(t, low, base)
      BY DEF MaxDigitsRequired, UnsignedMax
    <2> QED BY <1>2, <2>1
  <1>6. /\ DigitsRequired(t, v, base) = Divisions(w, base) + IF v = 0 \/ sign THEN 1 ELSE 0
        /\ DigitsRequired(t, low, base)
             = Divisions(u, base) + IF low = 0 \/ (low < 0 /\ base = 10) THEN 1 ELSE 0
    BY DEF DigitsRequired
  <1>7. base \in Nat \ {0, 1}
    BY BasesArePowers
  <1> HIDE DEF d, e
  <1>8. \A x \in Int : x % d \in Nat /\ x % d < d /\ x = d * (x \div d) + (x % d) /\ x \div d \in Int
    BY <1>2, d \in Nat \ {0}, Division
  <1>9. w \in Nat /\ (w = 0 <=> v = 0)
    <2>1. CASE base = 10
      BY <1>3, <1>4, <2>1
    <2>2. CASE base # 10
      <3>1. w = v % d
        BY <1>3, <1>4, <2>2
      <3>2. w \in Nat
        BY <1>3, <1>8, <3>1
      <3>3. v = 0 => w = 0
        <4>1. 0 % d = 0
          BY <1>2, d \in Nat \ {0}, SmallIsRemainder
        <4> QED BY <3>1, <4>1
      <3>4. w = 0 => v = 0
        <4> SUFFICES ASSUME w = 0 PROVE v = 0
          OBVIOUS
        <4> DEFINE q == v \div d
        <4>1. q \in Int /\ v = d * q
          BY <1>2, <1>3, <1>8, <3>1
        <4> HIDE DEF q, w
        <4>2. v < d /\ -d < v
          BY <1>1, <1>2, <1>3
        <4>3. CASE q > 0
          <5>1. d * q = d + d * (q - 1) /\ d * (q - 1) >= 0
            BY <1>2, <4>1, <4>3
          <5> QED BY <1>2, <1>3, <4>1, <4>2, <5>1
        <4>4. CASE q < 0
          <5>1. PICK z \in Nat : q = -1 - z
            BY <4>1, <4>4, -1 - q \in Nat, q = -1 - (-1 - q)
          <5>2. d * q = -d - d * z /\ d * z \in Nat
            BY <1>2, <5>1
          <5> QED BY <1>2, <1>3, <4>1, <4>2, <5>2
        <4>5. CASE q = 0
          BY <1>2, <4>1, <4>5
        <4> QED BY <4>1, <4>3, <4>4, <4>5
      <3> QED BY <3>2, <3>3, <3>4
    <2> QED BY <2>1, <2>2
  <1>10. u \in Nat /\ u # 0 /\ Divisions(w, base) <= Divisions(u, base)
    <2>1. CASE base = 10
      <3>1. u = (IF t.signed THEN e ELSE d - 1) /\ w = (IF v < 0 THEN -v ELSE v)
        BY <1>2, <1>3, <1>4, <1>5, <2>1
      <3>2. u \in Nat /\ u # 0 /\ w <= u
        BY <1>2, <1>3, <3>1
      <3> HIDE DEF u, w
      <3> QED BY <1>7, <1>9, <3>2, MoreHasMoreDigits
    <2>2. CASE base # 10 /\ t.signed
      <3>1. u = e
        <4>1. u = (-e) % d
          BY <1>2, <1>4, <2>2
        <4>2. (d * (-1) + e) \div d = -1 /\ (d * (-1) + e) % d = e
          BY <1>2, <2>2, DivisionIsUnique, d \in Nat \ {0}, -1 \in Int, e \in Nat, e < d
        <4>3. d * (-1) + e = -e
          BY <1>2, <2>2
        <4> QED BY <4>1, <4>2, <4>3
      <3>2. PICK s \in Nat \ {0} : base = 2^s
        BY <2>2, BasesArePowers
      <3>3. w < 2^(ValueBits(t) + 1)
        BY <1>1, <1>3, <1>4, <1>8, <2>2 DEF d
      <3> HIDE DEF u, w
      <3>4. Divisions(w, 2^s) <= Divisions(2^ValueBits(t), 2^s)
        BY <1>1, <1>9, <3>3, TopBitHasAllDigits
      <3> QED BY <1>2, <3>1, <3>2, <3>4 DEF e
    <2>3. CASE base # 10 /\ ~t.signed
      <3>1. u = d - 1
        <4>1. u = (d - 1) % d
          BY <1>2, <1>4, <2>3
        <4> QED BY <1>2, <4>1, d \in Nat \ {0}, d - 1 \in Nat, SmallIsRemainder
      <3>2. w <= u /\ u \in Nat /\ u # 0
        BY <1>2, <1>3, <1>4, <1>8, <2>3, <3>1
      <3> HIDE DEF u, w
      <3> QED BY <1>7, <1>9, <3>2, MoreHasMoreDigits
    <2> QED BY <2>1, <2>2, <2>3
  <1> HIDE DEF u, w
  <1>11. Divisions(u, base) \in Nat \ {0} /\ Divisions(w, base) \in Nat
    <2>1. Divisions(u, base) \in Nat /\ Divisions(w, base) \in Nat
      BY <1>7, <1>9, <1>10, DivisionsCount
    <2>2. Left(u, base, 0) # 0
      BY <1>7, <1>10, OneMoreDivision
    <2>3. ~(Divisions(u, base) <= 0)
      BY <1>7, <1>10, <2>2, DivisionsCount, 0 \in Nat
    <2> QED BY <2>1, <2>3
  <1>12. /\ MaxDigitsRequired(t, base) \in Nat \ {0}
         /\ Divisions(w, base) + (IF sign THEN 1 ELSE 0) <= MaxDigitsRequired(t, base)
    <2>1. sign => low < 0 /\ base = 10
      BY <1>3, <1>5, <1>1
    <2> HIDE DEF low, sign
    <2> QED BY <1>5, <1>6, <1>10, <1>11, <2>1
  <1> QED BY <1>3, <1>6, <1>9, <1>12 DEF w

\* The number that digits spell, most significant first.
Spells(digits, base) ==
  LET read[k \in 0 .. Len(digits)] == IF k = 0 THEN 0 ELSE read[k - 1] * base + digits[k]
  IN  read[Len(digits)]

ReadLoop(f, digits, base) ==
  f = [k \in 0 .. Len(digits) |-> IF k = 0 THEN 0 ELSE f[k - 1] * base + digits[k]]

\* It is h's last value if h takes a digit at a time.
LEMMA DigitByDigit ==
  ASSUME NEW digits \in Seq(Nat), NEW base \in Nat, NEW h,
         h[0] = 0, \A k \in Nat : h[k] \in Nat,
         \A k \in Nat : k < Len(digits) => h[k + 1] = h[k] * base + digits[k + 1]
  PROVE  Spells(digits, base) = h[Len(digits)]
  <1> DEFINE n == Len(digits)
             read[k \in 0 .. Len(digits)] ==
               IF k = 0 THEN 0 ELSE read[k - 1] * base + digits[k]
             f == [k \in 0 .. Len(digits) |-> h[k]]
  <1>1. Spells(digits, base) = read[n]
    BY Zenon DEF Spells
  <1>2. n \in Nat
    OBVIOUS
  <1>3. \A k \in 0 .. n : f[k] = IF k = 0 THEN 0 ELSE f[k - 1] * base + digits[k]
    <2> SUFFICES ASSUME NEW k \in 0 .. n
                 PROVE  f[k] = IF k = 0 THEN 0 ELSE f[k - 1] * base + digits[k]
      OBVIOUS
    <2>1. CASE k = 0
      BY <2>1
    <2>2. CASE k # 0
      <3>1. PICK j \in Nat : j + 1 = k /\ j = k - 1 /\ j < n /\ j \in 0 .. n
        BY <1>2, <2>2
      <3>2. h[j + 1] = h[j] * base + digits[j + 1]
        BY <3>1
      <3>3. f[k] = h[k] /\ f[j] = h[j]
        BY <3>1
      <3> QED BY <2>2, <3>1, <3>2, <3>3
    <2> QED BY <2>1, <2>2
  <1>4. f = [k \in 0 .. n |-> f[k]]
    OBVIOUS
  <1>5. f[n] = h[n]
    BY <1>2
  <1> HIDE DEF f
  <1>6. ReadLoop(f, digits, base)
    BY <1>3, <1>4 DEF ReadLoop
  <1>7. ReadLoop(read, digits, base)
    <2>1. read = [k \in 0 .. Len(digits) |->
                    IF k = 0 THEN 0 ELSE read[k - 1] * base + digits[k]]
      BY <1>6, Zenon DEF ReadLoop
    <2> HIDE DEF read
    <2> QED BY <2>1, Zenon DEF ReadLoop
  <1> HIDE DEF read
  <1> DEFINE T == {k \in Nat : k <= n => read[k] = f[k]}
  <1>8. \A k \in 0 .. n : read[k] = IF k = 0 THEN 0 ELSE read[k - 1] * base + digits[k]
    BY <1>7 DEF ReadLoop
  <1>9. 0 \in T
    BY <1>2, <1>3, <1>8
  <1>10. ASSUME NEW k \in T PROVE k + 1 \in T
    <2> SUFFICES ASSUME k + 1 <= n PROVE read[k + 1] = f[k + 1]
      OBVIOUS
    <2>1. PICK j \in 0 .. n : j = k + 1 /\ j # 0 /\ j - 1 = k
      BY <1>2
    <2>2. read[k] = f[k]
      BY <1>2
    <2> HIDE DEF T
    <2> QED BY <1>3, <1>8, <2>1, <2>2
  <1>11. T \in SUBSET Nat
    OBVIOUS
  <1> HIDE DEF T
  <1>12. n \in T
    BY <1>2, <1>9, <1>10, <1>11, Induction
  <1>13. read[n] = f[n]
    BY <1>2, <1>12 DEF T
  <1> QED BY <1>1, <1>5, <1>13

\* The digits of a number, turned around, spell it.
LEMMA DigitsSpell ==
  ASSUME NEW w \in Nat, NEW base \in Nat \ {0, 1}, NEW room \in Nat, Divisions(w, base) <= room
  PROVE  LET digits == ReversedDigits(w, base, room)
         IN  /\ digits \in Seq(Nat) /\ Len(digits) = Divisions(w, base)
             /\ Reverse(digits) \in Seq(Nat) /\ Len(Reverse(digits)) = Divisions(w, base)
             /\ Spells(Reverse(digits), base) = w
  <1> DEFINE n == Divisions(w, base)
             digits == ReversedDigits(w, base, room)
             text == Reverse(digits)
             h == [k \in Nat |-> Left(w, base, IF k <= n THEN n - k ELSE 0)]
  <1>1. n \in Nat /\ Left(w, base, n) = 0
    BY DivisionsCount
  <1>2. /\ Left(w, base, 0) = w
        /\ \A k \in Nat : /\ Left(w, base, k) \in Nat
                          /\ Left(w, base, k + 1) = Left(w, base, k) \div base
    BY OneMoreDivision
  <1>3. digits = [k \in 1 .. n |-> Left(w, base, k - 1) % base]
    <2>1. (IF n < room THEN n ELSE room) = n
      BY <1>1
    <2> QED BY <2>1 DEF ReversedDigits
  <1> HIDE DEF n, digits
  <1>4. \A k \in 1 .. n : Left(w, base, k - 1) % base \in Nat
    <2> SUFFICES ASSUME NEW k \in 1 .. n PROVE Left(w, base, k - 1) % base \in Nat
      OBVIOUS
    <2>1. PICK j \in Nat : j = k - 1
      BY <1>1
    <2>2. Left(w, base, j) \in Nat
      BY <1>2
    <2> QED BY <2>1, <2>2, Quotient
  <1>5. digits \in Seq(Nat) /\ Len(digits) = n
    BY <1>1, <1>3, <1>4
  <1>6. \A k \in 1 .. n : digits[k] = Left(w, base, k - 1) % base
    BY <1>3
  <1>7. text = [k \in 1 .. n |-> digits[n - k + 1]]
    BY <1>5 DEF Reverse
  <1> HIDE DEF text
  <1>8. \A k \in 1 .. n : n - k + 1 \in 1 .. n
    BY <1>1
  <1>9. \A k \in 1 .. n : digits[n - k + 1] \in Nat
    <2> HIDE DEF h
    <2>1. \A i \in 1 .. n : digits[i] \in Nat
      BY <1>4, <1>6
    <2> QED BY <1>8, <2>1, Zenon
  <1>10. text \in Seq(Nat) /\ Len(text) = n
    BY <1>1, <1>7, <1>9
  <1>11. \A k \in Nat : k <= n => h[k] = Left(w, base, n - k)
    OBVIOUS
  <1>12. \A k \in Nat : h[k] \in Nat
    <2> SUFFICES ASSUME NEW k \in Nat PROVE h[k] \in Nat
      OBVIOUS
    <2> DEFINE j == IF k <= n THEN n - k ELSE 0
    <2>1. j \in Nat
      BY <1>1
    <2>2. h[k] = Left(w, base, j)
      OBVIOUS
    <2> HIDE DEF j, h
    <2> QED BY <1>2, <2>1, <2>2
  <1>13. h[0] = 0
    BY <1>1, <1>11
  <1>14. h[n] = w
    BY <1>1, <1>2, <1>11
  <1> HIDE DEF h
  <1>15. ASSUME NEW k \in Nat, k < n PROVE h[k + 1] = h[k] * base + text[k + 1]
    <2>1. PICK j \in Nat : j = n - k - 1
      BY <1>1, <1>15
    <2>2. j + 1 = n - k /\ k + 1 \in 1 .. n /\ n - (k + 1) + 1 = j + 1 /\ j + 1 \in 1 .. n
          /\ n - (k + 1) = j /\ (j + 1) - 1 = j
      BY <1>1, <1>15, <2>1
    <2>3. text[k + 1] = digits[j + 1]
      BY <1>7, <2>2
    <2>4. digits[j + 1] = Left(w, base, j) % base
      BY <1>6, <2>2
    <2>5. h[k] = Left(w, base, j + 1) /\ h[k + 1] = Left(w, base, j)
      <3>1. PICK q \in Nat : q = k + 1 /\ q <= n /\ n - q = j
        BY <1>1, <1>15, <2>2
      <3>2. h[q] = Left(w, base, n - q) /\ h[k] = Left(w, base, n - k)
        <4>1. k <= n
          BY <1>1, <1>15
        <4> QED BY <1>11, <3>1, <4>1, Zenon
      <3> QED BY <2>2, <3>1, <3>2
    <2>6. Left(w, base, j + 1) = Left(w, base, j) \div base /\ Left(w, base, j) \in Nat
      BY <1>2
    <2>7. Left(w, base, j) = (Left(w, base, j) \div base) * base + (Left(w, base, j) % base)
      BY <2>6, Quotient, Zenon
    <2> QED BY <2>3, <2>4, <2>5, <2>6, <2>7, Zenon
  <1>16. Spells(text, base) = h[Len(text)]
    BY <1>10, <1>12, <1>13, <1>15, DigitByDigit
  <1> QED BY <1>5, <1>10, <1>14, <1>16 DEF n, digits, text

\* A text says the number that its digits spell.
LEMMA TextIsRead ==
  ASSUME NEW text, NEW base
  PROVE  /\ Head(text) = Minus => Read(text, base) = Spells(Tail(text), base)
         /\ Head(text) # Minus => Read(text, base) = Spells(text, base)
  BY Zenon DEF Read, Spells

\* What int_to_string() writes.
LEMMA TextReadsBack ==
  ASSUME NEW t, IsIntType(t), NEW v \in Values(t), NEW base \in Bases
  PROVE  LET room == MaxDigitsRequired(t, base)
             text == IntToString(t, v, base, room + 1)
         IN  /\ Read(text, base) = Digital(t, v, base)
             /\ Head(text) = Minus <=> base = 10 /\ v < 0
             /\ Len(text) = DigitsRequired(t, v, base) /\ Len(text) <= room
  <1> DEFINE room == MaxDigitsRequired(t, base)
             text == IntToString(t, v, base, room + 1)
             w == Digital(t, v, base)
             negative == v < 0 /\ base = 10
             reversed == ReversedDigits(w, base, room)
             digits == Reverse(reversed)
             n == Divisions(w, base)
  <1>1. base \in Nat \ {0, 1}
    BY BasesArePowers
  <1>2. /\ w \in Nat /\ (w = 0 <=> v = 0) /\ v \in Int
        /\ room \in Nat \ {0}
        /\ DigitsRequired(t, v, base) = n + IF v = 0 \/ negative THEN 1 ELSE 0
        /\ n + (IF negative THEN 1 ELSE 0) <= room
    BY DigitsFit
  <1>3. n \in Nat /\ Minus = -1
    <2> HIDE DEF w
    <2> QED BY <1>1, <1>2, DivisionsCount DEF Minus
  <1>4. (room + 1) - 1 = room
    BY <1>2
  <1>5. text = Reverse((IF v = 0 THEN <<0>> ELSE reversed)
                         \o (IF negative THEN <<Minus>> ELSE << >>))
    BY <1>4 DEF IntToString
  <1> HIDE DEF room, text, w
  <1>6. /\ reversed \in Seq(Nat) /\ Len(reversed) = n
        /\ digits \in Seq(Nat) /\ Len(digits) = n /\ Spells(digits, base) = w
    <2>1. n <= room
      BY <1>2, <1>3
    <2> QED BY <1>1, <1>2, <2>1, DigitsSpell
  <1>7. digits = [k \in 1 .. n |-> reversed[n - k + 1]]
    BY <1>6 DEF Reverse
  <1> HIDE DEF reversed, digits
  <1>8. v # 0 => n # 0
    <2>1. Left(w, base, 0) = w
      BY <1>1, <1>2, OneMoreDivision
    <2>2. Left(w, base, 0) = 0 <=> n <= 0
      BY <1>1, <1>2, DivisionsCount, 0 \in Nat
    <2> HIDE DEF n
    <2> QED BY <1>2, <1>3, <2>1, <2>2
  <1>9. v = 0 => n = 0
    <2>1. Left(w, base, 0) = w
      BY <1>1, <1>2, OneMoreDivision
    <2>2. Left(w, base, 0) = 0 <=> n <= 0
      BY <1>1, <1>2, DivisionsCount, 0 \in Nat
    <2> HIDE DEF n
    <2> QED BY <1>2, <1>3, <2>1, <2>2
  <1> HIDE DEF n
  <1>10. CASE v = 0
    <2>1. text = Reverse(<<0>> \o << >>)
      BY <1>5, <1>10
    <2>2. text = <<0>>
      <3>1. <<0>> \o << >> = <<0>>
        OBVIOUS
      <3>2. Reverse(<<0>>) = <<0>>
        BY DEF Reverse
      <3> QED BY <2>1, <3>1, <3>2
    <2>3. Spells(<<0>>, base) = 0
      <3> DEFINE h == [k \in Nat |-> 0]
      <3>1. /\ h[0] = 0 /\ \A k \in Nat : h[k] \in Nat
            /\ \A k \in Nat : k < Len(<<0>>) => h[k + 1] = h[k] * base + <<0>>[k + 1]
        <4>1. ASSUME NEW k \in Nat, k < Len(<< 0 >>) PROVE h[k + 1] = h[k] * base + << 0 >>[k + 1]
          <5>1. k = 0 /\ h[0] = 0 /\ h[1] = 0 /\ <<0>>[1] = 0 /\ 0 * base = 0
            BY <1>1, <4>1
          <5> QED BY <5>1
        <4> QED BY <4>1
      <3>2. <<0>> \in Seq(Nat) /\ Len(<<0>>) = 1 /\ h[1] = 0 /\ base \in Nat
        BY <1>1
      <3> HIDE DEF h
      <3> QED BY <3>1, <3>2, DigitByDigit
    <2>4. Head(<<0>>) = 0 /\ Len(<<0>>) = 1
      OBVIOUS
    <2>5. Read(text, base) = 0
      BY <1>3, <2>2, <2>3, <2>4, TextIsRead
    <2>6. ~negative
      BY <1>10
    <2>7. Len(text) = DigitsRequired(t, v, base) /\ Len(text) <= room
      BY <1>2, <1>9, <1>10, <2>2, <2>4, <2>6
    <2>8. Read(text, base) = w /\ Head(text) # Minus
      BY <1>2, <1>3, <1>10, <2>2, <2>4, <2>5
    <2> QED BY <2>6, <2>7, <2>8, Zenon DEF room, text, w
  <1>11. CASE v # 0 /\ ~negative
    <2>1. text = Reverse(reversed \o << >>)
      BY <1>5, <1>11
    <2>2. reversed \o << >> = reversed
      BY <1>6
    <2>3. text = digits
      BY <2>1, <2>2 DEF digits
    <2>4. Head(digits) \in Nat
      <3>1. Head(digits) = digits[1] /\ 1 \in 1 .. Len(digits)
        BY <1>3, <1>6, <1>8, <1>11
      <3> QED BY <1>6, <3>1
    <2>5. Head(text) # Minus
      BY <1>3, <2>3, <2>4
    <2>6. Read(text, base) = w
      BY <1>6, <2>3, <2>5, TextIsRead
    <2>7. Len(text) = n /\ DigitsRequired(t, v, base) = n /\ n <= room
      BY <1>2, <1>3, <1>6, <1>11, <2>3
    <2> QED BY <1>11, <2>5, <2>6, <2>7 DEF room, text, w
  <1>12. CASE v # 0 /\ negative
    <2> DEFINE all == reversed \o <<Minus>>
    <2>1. text = Reverse(all)
      BY <1>5, <1>12
    <2>2. /\ Len(all) = n + 1 /\ all[n + 1] = Minus
          /\ \A k \in 1 .. n : all[k] = reversed[k]
      BY <1>3, <1>6
    <2> HIDE DEF all
    <2>3. text = [k \in 1 .. n + 1 |-> all[n + 1 - k + 1]]
      <3>1. text = [k \in 1 .. Len(all) |-> all[Len(all) - k + 1]]
        BY <2>1, Zenon DEF Reverse
      <3> QED BY <1>3, <2>2, <3>1
    <2>4. text[1] = Minus
      BY <1>3, <2>2, <2>3
    <2>5. \A k \in 1 .. n : text[k + 1] = digits[k]
      <3> SUFFICES ASSUME NEW k \in 1 .. n PROVE text[k + 1] = digits[k]
        OBVIOUS
      <3>1. PICK j \in 1 .. n : j = n - k + 1
        BY <1>3
      <3>2. k + 1 \in 1 .. n + 1 /\ n + 1 - (k + 1) + 1 = j
        BY <1>3, <3>1
      <3>3. text[k + 1] = all[j]
        BY <2>3, <3>2
      <3>4. all[j] = reversed[j]
        BY <2>2
      <3>5. digits[k] = reversed[j]
        BY <1>7, <3>1
      <3> QED BY <3>3, <3>4, <3>5
    <2>6. Len(text) = n + 1 /\ Head(text) = text[1] /\ text \in Seq(Int)
      <3>1. \A k \in 1 .. n + 1 : all[n + 1 - k + 1] \in Int
        <4> SUFFICES ASSUME NEW k \in 1 .. n + 1 PROVE all[n + 1 - k + 1] \in Int
          OBVIOUS
        <4>1. PICK j \in 1 .. n + 1 : j = n + 1 - k + 1
          BY <1>3
        <4>2. j \in 1 .. n \/ j = n + 1
          BY <1>3
        <4>3. \A i \in 1 .. n : reversed[i] \in Int
          BY <1>3, <1>6
        <4> QED BY <1>3, <2>2, <4>1, <4>2, <4>3
      <3>2. text \in [1 .. n + 1 -> Int]
        BY <2>3, <3>1
      <3>3. n + 1 \in Nat
        BY <1>3
      <3>4. text \in Seq(Int) /\ Len(text) = n + 1
        BY <3>2, <3>3
      <3> QED BY <3>4
    <2>7. Tail(text) = digits
      <3>1. Tail(text) = [k \in 1 .. n |-> text[k + 1]]
        <4>1. text \in Seq(Int) /\ Len(text) = n + 1 /\ n \in Nat
          BY <1>3, <2>6
        <4>2. /\ Tail(text) \in Seq(Int) /\ Len(Tail(text)) = n
              /\ \A k \in 1 .. n : Tail(text)[k] = text[k + 1]
          BY <4>1
        <4>3. Tail(text) = [k \in 1 .. n |-> Tail(text)[k]]
          <5> DEFINE rest == Tail(text)
          <5>1. rest \in Seq(Int) /\ Len(rest) = n /\ n \in Nat
            BY <4>1, <4>2
          <5> HIDE DEF rest
          <5>2. rest = [k \in 1 .. n |-> rest[k]]
            BY <5>1
          <5> QED BY <5>2 DEF rest
        <4> QED BY <4>2, <4>3
      <3>2. digits = [k \in 1 .. n |-> digits[k]]
        BY <1>3, <1>6
      <3> QED BY <2>5, <3>1, <3>2
    <2>8. Head(text) = Minus
      BY <2>4, <2>6
    <2>9. Read(text, base) = w
      BY <1>6, <2>7, <2>8, TextIsRead
    <2>10. DigitsRequired(t, v, base) = n + 1 /\ n + 1 <= room
      BY <1>2, <1>3, <1>12
    <2> QED BY <1>12, <2>6, <2>8, <2>9, <2>10 DEF room, text, w
  <1> QED BY <1>10, <1>11, <1>12

(* For integer types of any width: the text of a number reads back as the  *)
(* number, of its bits unless the base is ten, has a minus sign exactly if *)
(* it is a negative decimal, and is as long as digits_required() says,     *)
(* which max_digits_required() leaves room for.                            *)
THEOREM TextsOfNumbersReadBack == ArithmeticSpec => []NumberTextsReadBack
  <1>1. CallsTyped => NumberTextsReadBack
    <2> SUFFICES ASSUME CallsTyped, call.op = "number" PROVE NumberTextsReadBack
      BY DEF NumberTextsReadBack
    <2> DEFINE t == First
               v == Second
    <2>1. IsIntType(t) /\ v \in Values(t)
      BY IntTypesAssumption DEF CallsTyped
    <2> HIDE DEF t, v
    <2>2. ASSUME NEW base \in Bases
          PROVE  LET room == MaxDigitsRequired(t, base)
                     text == IntToString(t, v, base, room + 1)
                 IN  /\ Read(text, base) = Digital(t, v, base)
                     /\ Head(text) = Minus <=> base = 10 /\ v < 0
                     /\ Len(text) = DigitsRequired(t, v, base) /\ Len(text) <= room
      BY <2>1, TextReadsBack
    <2> QED BY <2>2, Zenon DEF NumberTextsReadBack, t, v
  <1> QED BY CallsAreTyped, <1>1, PTL
=============================================================================
