---------------------------- MODULE StorageProofs ----------------------------
(***************************************************************************)
(* A program as it is stored.  The pass that counts and the pass that      *)
(* writes agree on every cursor; what is written is read back, token by    *)
(* token, and a program that was cut off inside of a token is noticed      *)
(* there; the switch over the header of a program is total and exact, and  *)
(* the views of a value show it.                                           *)
(***************************************************************************)
EXTENDS ProgramBytes, AnyEnum, WellFoundedInduction, TLAPS

-----------------------------------------------------------------------------
(* Sequences whose elements nothing is said about.                         *)

IsSequence(s) == \E S : s \in Seq(S)

\* What is known of the sequence that follows another.
LEMMA Concatenated ==
  ASSUME NEW s, NEW t, IsSequence(s), IsSequence(t)
  PROVE  /\ IsSequence(s \o t) /\ Len(s) \in Nat /\ Len(t) \in Nat
         /\ Len(s \o t) = Len(s) + Len(t)
         /\ \A i \in 1 .. Len(s) : (s \o t)[i] = s[i]
         /\ \A i \in 1 .. Len(t) : (s \o t)[Len(s) + i] = t[i]
  <1>1. PICK S : s \in Seq(S)
    BY DEF IsSequence
  <1>2. PICK T : t \in Seq(T)
    BY DEF IsSequence
  <1>3. s \in Seq(S \cup T) /\ t \in Seq(S \cup T)
    BY <1>1, <1>2
  <1>4. s \o t \in Seq(S \cup T)
    BY <1>3
  <1> QED BY <1>3, <1>4 DEF IsSequence

\* A sequence of one element.
LEMMA Single ==
  ASSUME NEW x PROVE IsSequence(<<x>>) /\ Len(<<x>>) = 1 /\ <<x>>[1] = x
  <1>1. <<x>> \in Seq({x})
    OBVIOUS
  <1> QED BY <1>1 DEF IsSequence

\* The empty sequence.
LEMMA EmptySequence == IsSequence(<<>>) /\ Len(<<>>) = 0
  <1>1. <<>> \in Seq({})
    OBVIOUS
  <1> QED BY <1>1 DEF IsSequence

\* A function on 1 .. n is a sequence of n elements.
LEMMA FunctionIsSequence ==
  ASSUME NEW n \in Nat, NEW f, f = [k \in 1 .. n |-> f[k]]
  PROVE  IsSequence(f) /\ Len(f) = n
  <1>1. f \in Seq({f[k] : k \in 1 .. n})
    OBVIOUS
  <1>2. Len(f) = n
    OBVIOUS
  <1> QED BY <1>1, <1>2 DEF IsSequence
-----------------------------------------------------------------------------
(* What is handed to the writers.                                          *)

\* A piece adds to the counting writer what it appends to the other.
Sized(piece) == IsSequence(piece.bytes) /\ piece.size = Len(piece.bytes)

\* A set of naturals up to a bound has a greatest element.
LEMMA GreatestElement ==
  ASSUME NEW d \in Nat, NEW T \in SUBSET (0 .. d), T # {}
  PROVE  \E m \in T : \A n \in T : m >= n
  <1> DEFINE R == OpToRel(<, Nat)
             D == {k \in Nat : d - k \in T}
  <1>1. IsWellFoundedOn(R, Nat)
    BY NatLessThanWellFounded
  <1>2. \A n, m \in Nat : n < m => <<n, m>> \in R
    BY DEF OpToRel
  <1>3. D \in SUBSET Nat /\ D # {}
    <2>1. PICK n \in T : TRUE
      OBVIOUS
    <2>2. n \in Nat /\ d - n \in Nat /\ d - (d - n) = n
      BY <2>1
    <2> QED BY <2>1, <2>2
  <1> HIDE DEF R
  <1>4. PICK k \in D : \A j \in D : <<j, k>> \notin R
    BY <1>1, <1>3, WFMin
  <1>5. \A j \in D : ~(j < k) /\ j \in Nat /\ k \in Nat
    BY <1>2, <1>4
  <1>6. ASSUME NEW n \in T PROVE d - k >= n
    <2>1. n \in Nat /\ d - n \in Nat /\ d - (d - n) = n
      OBVIOUS
    <2>2. d - n \in D
      BY <2>1
    <2> QED BY <1>5, <2>1, <2>2
  <1> QED BY <1>4, <1>6

\* A dint has one group at least.
LEMMA SomeGroups ==
  ASSUME NEW t, t.digits \in Nat, NEW bits PROVE C!GroupCount(t, bits) \in Nat \ {0}
  <1> DEFINE d == t.digits \div (ByteDigits - 1) + 1
             T == {1} \cup {n \in 1 .. d : C!FromGroup(bits, n) # 0}
  <1>1. d \in Nat /\ T \in SUBSET (0 .. d) /\ T # {}
    <2>1. \A p \in Nat \ {0, 1} : t.digits \div p \in Nat
      OBVIOUS
    <2>2. t.digits \div (ByteDigits - 1) \in Nat
      <3>1. \A n \in Nat : n >= 8 => n - 1 \in Nat \ {0, 1}
        OBVIOUS
      <3>2. ByteDigits - 1 \in Nat \ {0, 1}
        BY ONLY <3>1, ProgramAssumption, Zenon
      <3> QED BY ONLY <2>1, <3>2, Zenon
    <2>3. \A q \in Nat : q + 1 \in Nat /\ q + 1 >= 1
      OBVIOUS
    <2>4. d \in Nat /\ d >= 1
      BY <2>2, <2>3
    <2> HIDE DEF d
    <2> QED BY <2>4
  <1>2. \A n \in T : n \in Nat \ {0}
    OBVIOUS
  <1> HIDE DEF T
  <1>3. \E m \in T : \A n \in T : m >= n
    BY <1>1, GreatestElement
  <1>4. C!Max(T) \in T
    BY <1>3 DEF C!Max
  <1>5. C!GroupCount(t, bits) = C!Max(T)
    BY DEF C!GroupCount, T, d
  <1> QED BY <1>2, <1>4, <1>5

\* A dint is a sequence of bytes.
LEMMA DintIsSequence ==
  ASSUME NEW t, t.digits \in Nat, NEW v
  PROVE  IsSequence(C!EncodeDint(t, v)) /\ Len(C!EncodeDint(t, v)) \in Nat
  <1> DEFINE bits    == IF v < 0 THEN -v - 1 ELSE v
             n       == C!GroupCount(t, bits)
             full    == t.signed /\ C!FromGroup(bits, n) >= C!SignBit
             size    == IF full THEN n + 1 ELSE n
             F(k)    == (C!FromGroup(bits, k) % C!Group)
                          + IF k < size THEN C!Group ELSE IF v < 0 THEN C!SignBit ELSE 0
  <1>1. n \in Nat \ {0}
    BY SomeGroups
  <1>2. size \in Nat
    BY <1>1
  <1>3. C!EncodeDint(t, v) = [k \in 1 .. size |-> F(k)]
    BY Zenon DEF C!EncodeDint
  <1> HIDE DEF size, F
  <1> DEFINE f == [k \in 1 .. size |-> F(k)]
  <1>4. f = [k \in 1 .. size |-> f[k]]
    OBVIOUS
  <1> HIDE DEF f
  <1>5. IsSequence(f) /\ Len(f) = size
    BY <1>2, <1>4, FunctionIsSequence
  <1> QED BY <1>2, <1>3, <1>5 DEF f

\* An integer of fixed width has the size of its type.
LEMMA IntIsSequence ==
  ASSUME NEW t, t.digits \in Nat, NEW v
  PROVE  IsSequence(C!EncodeInt(t, v)) /\ Len(C!EncodeInt(t, v)) = C!SizeOf(t)
  <1>1. C!SizeOf(t) \in Nat
    BY ByteDigitsAssumption DEF C!SizeOf
  <1> DEFINE F(k) == C!FromByte(C!Narrow(t, v), k) % C!ByteValues
  <1>2. C!EncodeInt(t, v) = [k \in 1 .. C!SizeOf(t) |-> F(k)]
    BY Zenon DEF C!EncodeInt
  <1> HIDE DEF F
  <1> DEFINE f == [k \in 1 .. C!SizeOf(t) |-> F(k)]
  <1>3. f = [k \in 1 .. C!SizeOf(t) |-> f[k]]
    OBVIOUS
  <1> HIDE DEF f
  <1>4. IsSequence(f) /\ Len(f) = C!SizeOf(t)
    BY <1>1, <1>3, FunctionIsSequence
  <1> QED BY <1>2, <1>4 DEF f
\* The digits of a type are a number.
LEMMA DigitsAreNumbers == \A t \in ProgramTypes : t.digits \in Nat
  <1>1. ASSUME NEW w \in 0 .. 3 PROVE 2^w \in Nat
    <2>1. 2^0 = 1 /\ 2^1 = 2 /\ 2^2 = 4 /\ 2^3 = 8
      BY SMT
    <2>2. w = 0 \/ w = 1 \/ w = 2 \/ w = 3
      OBVIOUS
    <2>3. CASE w = 0
      BY <2>1, <2>3
    <2>4. CASE w = 1
      BY <2>1, <2>4
    <2>5. CASE w = 2
      BY <2>1, <2>5
    <2>6. CASE w = 3
      BY <2>1, <2>6
    <2> QED BY <2>2, <2>3, <2>4, <2>5, <2>6
  <1>2. \A w \in 0 .. 3 : ByteDigits * 2^w \in Nat
    <2>1. \A p \in Nat : ByteDigits * p \in Nat
      BY ByteDigitsAssumption
    <2> QED BY <1>1, <2>1
  <1>3. ASSUME NEW t \in StorageTypes PROVE t.digits \in Nat
    <2>1. t.digits \in {ByteDigits * 2^w : w \in 0 .. 3}
      BY DEF StorageTypes, WidthCodes
    <2> QED BY <1>2, <2>1
  <1> QED BY <1>3, ProgramAssumption

\* Texts, bytes and nothing.
LEMMA SizedFields ==
  /\ \A name \in Seq(Nat) : Sized(CString(name))
  /\ \A has, label : label \in Seq(Nat) => Sized(Label(has, label))
  /\ \A byte : Sized(OneByte(byte))
  /\ Sized(Nothing)
  <1>1. ASSUME NEW name \in Seq(Nat) PROVE Sized(CString(name))
    <2>1. IsSequence(name)
      BY DEF IsSequence
    <2>2. IsSequence(<<0>>) /\ Len(<<0>>) = 1
      BY Single
    <2>3. IsSequence(name \o <<0>>) /\ Len(name \o <<0>>) = Len(name) + 1
      BY <2>1, <2>2, Concatenated
    <2> QED BY <2>3 DEF Sized, CString, Piece
  <1>2. ASSUME NEW byte PROVE Sized(OneByte(byte))
    BY Single DEF Sized, OneByte, Piece
  <1>3. Sized(Nothing)
    BY EmptySequence DEF Sized, Nothing, Piece
  <1>4. ASSUME NEW has, NEW label, label \in Seq(Nat) PROVE Sized(Label(has, label))
    BY <1>1, <1>3, <1>4 DEF Label
  <1> QED BY <1>1, <1>2, <1>3, <1>4

\* Two pieces one behind the other.
LEMMA SizedJoin ==
  ASSUME NEW p, NEW q, Sized(p), Sized(q) PROVE Sized(Join(p, q))
  <1>1. /\ IsSequence(p.bytes \o q.bytes)
        /\ Len(p.bytes \o q.bytes) = Len(p.bytes) + Len(q.bytes)
    BY Concatenated DEF Sized
  <1>2. p.size = Len(p.bytes) /\ q.size = Len(q.bytes)
    BY DEF Sized
  <1>3. /\ Join(p, q).bytes = p.bytes \o q.bytes
        /\ Join(p, q).size = p.size + q.size
    BY DEF Join, Piece
  <1> QED BY <1>1, <1>2, <1>3 DEF Sized

\* A value or a mask, condensed or not.
LEMMA SizedScoped ==
  ASSUME type \in ProgramTypes, NEW value, NEW scope PROVE Sized(ScopedInt(value, scope))
  <1>1. type.digits \in Nat
    BY DigitsAreNumbers
  <1>2. PICK digits, signed : type = [digits |-> digits, signed |-> signed]
    BY ProgramAssumption DEF StorageTypes
  <1>3. Unsigned.digits \in Nat
    BY <1>1, <1>2 DEF Unsigned
  <1>4. CASE compress
    <2> DEFINE dint == C!EncodeDint(Unsigned, M!Condense(scope, value, TRUE, FALSE))
    <2>1. IsSequence(dint)
      BY <1>3, DintIsSequence
    <2>2. ScopedInt(value, scope) = Piece(dint, Len(dint), WordField(value))
      BY <1>4 DEF ScopedInt
    <2> HIDE DEF dint
    <2> QED BY <2>1, <2>2 DEF Sized, Piece
  <1>5. CASE ~compress
    <2> DEFINE bytes == C!EncodeInt(type, value)
    <2>1. IsSequence(bytes) /\ Len(bytes) = C!SizeOf(type)
      BY <1>1, IntIsSequence
    <2>2. ScopedInt(value, scope) = Piece(bytes, C!SizeOf(type), WordField(value))
      BY <1>5 DEF ScopedInt
    <2> HIDE DEF bytes
    <2> QED BY <2>1, <2>2 DEF Sized, Piece
  <1> QED BY <1>4, <1>5

\* The fields of a conditional.
LEMMA SizedIf ==
  ASSUME type \in ProgramTypes, NEW shift, NEW mask, NEW has_label, NEW label \in Seq(Nat)
  PROVE  Sized(IfFields(shift, mask, has_label, label))
  <1>1. Sized(ScopedInt(mask, Scope))
    BY SizedScoped
  <1>2. Sized(Label(has_label, label)) /\ Sized(OneByte(shift))
    BY SizedFields
  <1>3. Sized(Join(ScopedInt(mask, Scope), Label(has_label, label)))
    BY <1>1, <1>2, SizedJoin
  <1>4. Sized(Join(OneByte(shift), Join(ScopedInt(mask, Scope), Label(has_label, label))))
    BY <1>2, <1>3, SizedJoin
  <1> QED BY <1>4 DEF IfFields

-----------------------------------------------------------------------------
(* The inductive invariant: the blocks that are open have their opcodes    *)
(* reserved one behind the other, and nothing but its Patch clears one.    *)

IsBlock(b) ==
  b = [pc |-> b.pc, entry |-> b.entry, op |-> b.op, kind |-> b.kind, scope |-> b.scope,
       bits |-> b.bits, items |-> b.items, ended |-> b.ended]

\* Blocks whose opcodes are reserved among these bytes.
ReservedIn(blocks, bytes) ==
  /\ IsSequence(blocks)
  /\ \A k \in 1 .. Len(blocks) :
       /\ IsBlock(blocks[k])
       /\ blocks[k].pc \in 1 .. Len(bytes) /\ bytes[blocks[k].pc] = Opcode.Terminate
       /\ \A j \in 1 .. k - 1 : blocks[j].pc < blocks[k].pc

BInv ==
  /\ type \in ProgramTypes
  /\ IsSequence(out) /\ counted = Len(out)
  /\ ReservedIn(open, out)

\* A block that differs in the number of its elements, or has ended.
LEMMA SameBlock ==
  ASSUME NEW b, IsBlock(b), NEW x
  PROVE  /\ IsBlock([b EXCEPT !.items = x]) /\ [b EXCEPT !.items = x].pc = b.pc
         /\ IsBlock([b EXCEPT !.ended = x]) /\ [b EXCEPT !.ended = x].pc = b.pc
  BY DEF IsBlock

\* Blocks of the same number at the same places.
LEMMA SamePlaces ==
  ASSUME NEW blocks, NEW others, NEW bytes, ReservedIn(blocks, bytes),
         IsSequence(others), Len(others) = Len(blocks),
         \A k \in 1 .. Len(blocks) : IsBlock(others[k]) /\ others[k].pc = blocks[k].pc
  PROVE  ReservedIn(others, bytes)
  <1>1. Len(blocks) \in Nat
    BY DEF ReservedIn, IsSequence
  <1>2. ASSUME NEW k \in 1 .. Len(others), NEW j \in 1 .. k - 1
        PROVE  others[j].pc < others[k].pc
    <2>1. j \in 1 .. Len(blocks)
      BY <1>1
    <2> QED BY <2>1 DEF ReservedIn
  <1> QED BY <1>2 DEF ReservedIn

\* Further bytes behind.
LEMMA MoreBytes ==
  ASSUME NEW blocks, NEW bytes, NEW more, ReservedIn(blocks, bytes),
         Len(bytes) \in Nat, Len(more) \in Nat, Len(bytes) <= Len(more),
         \A i \in 1 .. Len(bytes) : more[i] = bytes[i]
  PROVE  ReservedIn(blocks, more)
  <1>1. ASSUME NEW k \in 1 .. Len(blocks)
        PROVE  blocks[k].pc \in 1 .. Len(more) /\ more[blocks[k].pc] = Opcode.Terminate
    BY DEF ReservedIn
  <1> QED BY <1>1 DEF ReservedIn

\* One more block, whose opcode is behind all others.
LEMMA OneMoreBlock ==
  ASSUME NEW blocks, NEW bytes, NEW more, ReservedIn(blocks, bytes), ReservedIn(blocks, more),
         Len(bytes) \in Nat, Len(more) \in Nat, Len(bytes) < Len(more),
         NEW b, IsBlock(b), b.pc = Len(bytes) + 1, more[b.pc] = Opcode.Terminate
  PROVE  ReservedIn(Append(blocks, b), more)
  <1>1. PICK S : blocks \in Seq(S)
    BY DEF ReservedIn, IsSequence
  <1>2. blocks \in Seq(S \cup {b})
    BY <1>1
  <1> DEFINE next == Append(blocks, b)
  <1>3. /\ next \in Seq(S \cup {b}) /\ Len(next) = Len(blocks) + 1 /\ Len(blocks) \in Nat
        /\ next[Len(blocks) + 1] = b
        /\ \A k \in 1 .. Len(blocks) : next[k] = blocks[k]
    BY <1>2
  <1> HIDE DEF next
  <1>4. IsSequence(next)
    BY <1>3 DEF IsSequence
  <1>5. ASSUME NEW k \in 1 .. Len(next)
        PROVE  /\ IsBlock(next[k])
               /\ next[k].pc \in 1 .. Len(more) /\ more[next[k].pc] = Opcode.Terminate
               /\ \A j \in 1 .. k - 1 : next[j].pc < next[k].pc
    <2>1. CASE k = Len(blocks) + 1
      <3>1. next[k] = b /\ b.pc \in 1 .. Len(more)
        BY <1>3, <2>1
      <3>2. ASSUME NEW j \in 1 .. k - 1 PROVE next[j].pc < next[k].pc
        <4>1. j \in 1 .. Len(blocks) /\ next[j] = blocks[j]
          BY <1>3, <2>1
        <4>2. blocks[j].pc \in 1 .. Len(bytes)
          BY <4>1 DEF ReservedIn
        <4> QED BY <3>1, <4>1, <4>2
      <3> QED BY <3>1, <3>2
    <2>2. CASE k # Len(blocks) + 1
      <3>1. k \in 1 .. Len(blocks) /\ next[k] = blocks[k]
        BY <1>3, <2>2
      <3>2. \A j \in 1 .. k - 1 : j \in 1 .. Len(blocks) /\ next[j] = blocks[j]
        BY <1>3, <3>1
      <3> QED BY <3>1, <3>2 DEF ReservedIn
    <2> QED BY <2>1, <2>2
  <1>6. ReservedIn(next, more)
    BY <1>4, <1>5 DEF ReservedIn
  <1> QED BY <1>6 DEF next

\* The innermost block is patched and taken off.
LEMMA OneBlockLess ==
  ASSUME NEW blocks, NEW bytes, ReservedIn(blocks, bytes), blocks # <<>>, IsSequence(bytes),
         NEW x
  PROVE  /\ ReservedIn(Front(blocks), [bytes EXCEPT ![Last(blocks).pc] = x])
         /\ IsSequence([bytes EXCEPT ![Last(blocks).pc] = x])
         /\ Len([bytes EXCEPT ![Last(blocks).pc] = x]) = Len(bytes)
  <1>1. PICK S : blocks \in Seq(S)
    BY DEF ReservedIn, IsSequence
  <1>2. PICK T : bytes \in Seq(T)
    BY DEF IsSequence
  <1>3. Len(blocks) \in Nat /\ Len(blocks) > 0 /\ Last(blocks) = blocks[Len(blocks)]
    BY <1>1 DEF Last
  <1> DEFINE pc   == Last(blocks).pc
             less == Front(blocks)
             set  == [bytes EXCEPT ![pc] = x]
  <1>4. /\ less \in Seq(S) /\ Len(less) = Len(blocks) - 1
        /\ \A k \in 1 .. Len(less) : less[k] = blocks[k]
    <2>1. less = SubSeq(blocks, 1, Len(blocks) - 1)
      BY DEF Front
    <2>2. \A k \in 1 .. Len(blocks) - 1 : blocks[k] \in S
      BY <1>1, <1>3
    <2> HIDE DEF less
    <2>3. less = [k \in 1 .. Len(blocks) - 1 |-> blocks[k]]
      BY <1>1, <1>3, <2>1
    <2> QED BY <1>3, <2>2, <2>3
  <1>5. pc \in 1 .. Len(bytes)
    BY <1>3 DEF ReservedIn
  <1> HIDE DEF pc, less
  <1>6. /\ set \in Seq(T \cup {x}) /\ Len(set) = Len(bytes)
        /\ \A i \in 1 .. Len(bytes) : i # pc => set[i] = bytes[i]
    BY <1>2, <1>5
  <1> HIDE DEF set
  <1>7. ASSUME NEW k \in 1 .. Len(less)
        PROVE  /\ IsBlock(less[k])
               /\ less[k].pc \in 1 .. Len(set) /\ set[less[k].pc] = Opcode.Terminate
               /\ \A j \in 1 .. k - 1 : less[j].pc < less[k].pc
    <2>1. k \in 1 .. Len(blocks) - 1 /\ less[k] = blocks[k] /\ Len(less) \in Nat
      BY <1>3, <1>4
    <2>2. blocks[k].pc < blocks[Len(blocks)].pc
      BY <1>3, <2>1 DEF ReservedIn
    <2>3. /\ IsBlock(blocks[k]) /\ blocks[k].pc \in 1 .. Len(bytes)
          /\ bytes[blocks[k].pc] = Opcode.Terminate
      BY <1>3, <2>1 DEF ReservedIn
    <2>4. blocks[k].pc # pc
      BY <1>3, <1>5, <2>2, <2>3 DEF pc
    <2>5. set[blocks[k].pc] = Opcode.Terminate /\ blocks[k].pc \in 1 .. Len(set)
      BY <1>6, <2>3, <2>4
    <2>6. ASSUME NEW j \in 1 .. k - 1 PROVE less[j].pc < less[k].pc
      <3>1. j \in 1 .. Len(less) /\ j \in 1 .. Len(blocks) /\ k \in 1 .. Len(blocks)
        BY <1>3, <1>4, <2>1
      <3>2. blocks[j].pc < blocks[k].pc
        BY <3>1 DEF ReservedIn
      <3> QED BY <1>4, <2>1, <3>1, <3>2
    <2> QED BY <2>1, <2>3, <2>5, <2>6
  <1>8. IsSequence(less) /\ IsSequence(set)
    BY <1>4, <1>6 DEF IsSequence
  <1>9. ReservedIn(less, set)
    BY <1>7, <1>8 DEF ReservedIn
  <1> QED BY <1>6, <1>8, <1>9 DEF less, set, pc
-----------------------------------------------------------------------------
(* The steps.                                                              *)

\* An element more is counted in its block.
LEMMA CountElementKeeps ==
  ASSUME ReservedIn(open, out) PROVE ReservedIn(CountElement, out)
  <1>1. PICK blocks : blocks = open
    OBVIOUS
  <1>2. PICK S : blocks \in Seq(S)
    BY <1>1 DEF ReservedIn, IsSequence
  <1>3. CASE open = <<>>
    BY <1>3 DEF CountElement
  <1>4. CASE open # <<>>
    <2> DEFINE n      == Len(blocks)
               b      == [blocks[n] EXCEPT !.items = @ + 1]
               others == [blocks EXCEPT ![n] = b]
    <2>1. n \in Nat /\ n \in 1 .. n
      BY <1>1, <1>2, <1>4
    <2>2. CountElement = others
      BY <1>1, <1>4 DEF CountElement
    <2>3. IsBlock(b) /\ b.pc = blocks[n].pc
      BY <1>1, <2>1, SameBlock DEF ReservedIn
    <2> HIDE DEF b
    <2>4. /\ others \in Seq(S \cup {b}) /\ Len(others) = n
          /\ \A k \in 1 .. n : others[k] = IF k = n THEN b ELSE blocks[k]
      BY <1>2, <2>1
    <2> HIDE DEF others
    <2>5. \A k \in 1 .. Len(blocks) : IsBlock(others[k]) /\ others[k].pc = blocks[k].pc
      BY <1>1, <2>3, <2>4 DEF ReservedIn
    <2>6. IsSequence(others)
      BY <2>4 DEF IsSequence
    <2>7. ReservedIn(blocks, out)
      BY <1>1
    <2>8. ReservedIn(others, out)
      BY <2>4, <2>5, <2>6, <2>7, SamePlaces
    <2> QED BY <2>2, <2>8
  <1> QED BY <1>3, <1>4

\* What both writers do with an opcode and a piece.
LEMMA EmitStep ==
  ASSUME BInv, NEW opcode, IsSequence(opcode), NEW piece, Sized(piece),
         NEW expects, NEW scope, NEW token, Emit(opcode, expects, scope, token, piece)
  PROVE  /\ type' = type /\ IsSequence(out') /\ counted' = Len(out')
         /\ Len(out) \in Nat /\ Len(out') \in Nat
         /\ Len(opcode) \in Nat /\ Len(out') >= Len(out) + Len(opcode)
         /\ \A i \in 1 .. Len(out) : out'[i] = out[i]
         /\ \A i \in 1 .. Len(opcode) : out'[Len(out) + i] = opcode[i]
  <1>1. PICK before, bytes, size : before = out /\ bytes = piece.bytes /\ size = piece.size
    OBVIOUS
  <1>2. /\ IsSequence(before) /\ counted = Len(before)
        /\ IsSequence(bytes) /\ size = Len(bytes)
    BY <1>1 DEF BInv, Sized
  <1>3. /\ out' = before \o opcode \o bytes
        /\ counted' = counted + Len(opcode) + size /\ type' = type
    BY <1>1 DEF Emit
  <1> DEFINE first == before \o opcode
             all   == first \o bytes
  <1>4. /\ IsSequence(first) /\ Len(before) \in Nat /\ Len(opcode) \in Nat
        /\ Len(first) = Len(before) + Len(opcode)
        /\ \A i \in 1 .. Len(before) : first[i] = before[i]
        /\ \A i \in 1 .. Len(opcode) : first[Len(before) + i] = opcode[i]
    BY <1>2, Concatenated
  <1> HIDE DEF first
  <1>5. /\ IsSequence(all) /\ Len(bytes) \in Nat /\ Len(all) = Len(first) + Len(bytes)
        /\ \A i \in 1 .. Len(first) : all[i] = first[i]
    <2>1. IsSequence(first) /\ IsSequence(bytes)
      BY <1>2, <1>4
    <2> QED BY <2>1, Concatenated
  <1>6. out' = all
    BY <1>3 DEF first
  <1> HIDE DEF all
  <1>7. /\ IsSequence(all) /\ counted' = Len(all) /\ Len(all) \in Nat
        /\ Len(all) >= Len(before) + Len(opcode)
    BY <1>2, <1>3, <1>4, <1>5
  <1>8. \A i \in 1 .. Len(before) : all[i] = before[i]
    BY <1>4, <1>5
  <1>9. \A i \in 1 .. Len(opcode) : all[Len(before) + i] = opcode[i]
    <2>1. \A i \in 1 .. Len(opcode) : Len(before) + i \in 1 .. Len(first)
      BY <1>4
    <2> QED BY <1>4, <1>5, <2>1
  <1> QED BY <1>1, <1>3, <1>4, <1>6, <1>7, <1>8, <1>9

\* A step that writes and opens no block.
LEMMA WriteStep ==
  ASSUME BInv, NEW opcode, IsSequence(opcode), NEW piece, Sized(piece),
         NEW expects, NEW scope, NEW token, Emit(opcode, expects, scope, token, piece),
         open' = CountElement
  PROVE  BInv'
  <1>1. /\ type' = type /\ IsSequence(out') /\ counted' = Len(out')
        /\ Len(out) \in Nat /\ Len(out') \in Nat /\ Len(out') >= Len(out)
        /\ \A i \in 1 .. Len(out) : out'[i] = out[i]
    BY EmitStep
  <1>2. ReservedIn(CountElement, out)
    BY CountElementKeeps DEF BInv
  <1>3. \A blocks : ReservedIn(blocks, out) => ReservedIn(blocks, out')
    BY <1>1, MoreBytes
  <1>4. ReservedIn(open', out')
    BY <1>2, <1>3
  <1> QED BY <1>1, <1>4 DEF BInv

\* A step that reserves an opcode and opens its block.
LEMMA OpenStep ==
  ASSUME BInv, NEW piece, Sized(piece),
         NEW expects, NEW scope, NEW token, Emit(Reserved, expects, scope, token, piece),
         NEW blocks, ReservedIn(blocks, out),
         NEW op, NEW kind, NEW within, NEW bits,
         open' = Append(blocks, Block(op, kind, within, bits))
  PROVE  BInv'
  <1> DEFINE b == Block(op, kind, within, bits)
  <1>1. IsSequence(Reserved) /\ Len(Reserved) = 1 /\ Reserved[1] = Opcode.Terminate
    BY Single DEF Reserved
  <1>2. /\ type' = type /\ IsSequence(out') /\ counted' = Len(out')
        /\ Len(out) \in Nat /\ Len(out') \in Nat /\ Len(out') >= Len(out) + 1
        /\ \A i \in 1 .. Len(out) : out'[i] = out[i]
        /\ \A i \in 1 .. 1 : out'[Len(out) + i] = Reserved[i]
    BY <1>1, EmitStep
  <1>3. IsBlock(b) /\ b.pc = Len(out) + 1
    BY DEF IsBlock, Block
  <1> HIDE DEF b
  <1>4. out'[b.pc] = Opcode.Terminate
    BY <1>1, <1>2, <1>3
  <1>5. ReservedIn(blocks, out')
    BY <1>2, MoreBytes
  <1>6. Len(out) < Len(out')
    BY <1>2
  <1>7. ReservedIn(Append(blocks, b), out')
    BY <1>2, <1>3, <1>4, <1>5, <1>6, OneMoreBlock
  <1>8. ReservedIn(open', out')
    BY <1>7 DEF b
  <1> QED BY <1>2, <1>8 DEF BInv

\* The innermost block ends.
LEMMA PatchStep ==
  ASSUME BInv, Patch PROVE BInv'
  <1>1. PICK blocks, bytes : blocks = open /\ bytes = out
    OBVIOUS
  <1> DEFINE b     == Last(blocks)
             outer == Front(blocks)
             x     == M!Or(M!Or(bytes[b.pc], IF StartsFromOne(b) THEN b.items - 1 ELSE b.items), b.bits)
             set   == [bytes EXCEPT ![b.pc] = x]
             n     == Len(outer)
             ended == [outer EXCEPT ![n].ended = TRUE]
  <1>2. /\ open # <<>> /\ out' = set /\ counted' = counted /\ type' = type
        /\ open' = ended \/ open' = outer
    BY <1>1 DEF Patch, Inner
  <1>3. ReservedIn(blocks, bytes) /\ IsSequence(bytes) /\ counted = Len(bytes) /\ blocks # <<>>
    BY <1>1, <1>2 DEF BInv
  <1> HIDE DEF x
  <1>4. ReservedIn(outer, set) /\ IsSequence(set) /\ Len(set) = Len(bytes)
    BY <1>3, OneBlockLess
  <1> HIDE DEF set, outer
  <1>5. ReservedIn(ended, set)
    <2>1. PICK S : outer \in Seq(S)
      BY <1>4 DEF ReservedIn, IsSequence
    <2>2. CASE n = 0
      <3>1. ended = outer
        BY <2>1, <2>2
      <3> QED BY <1>4, <3>1
    <2>3. CASE n # 0
      <3> DEFINE c == [outer[n] EXCEPT !.ended = TRUE]
      <3>1. n \in Nat /\ n \in 1 .. n
        BY <2>1, <2>3
      <3>2. IsBlock(c) /\ c.pc = outer[n].pc
        BY <1>4, <3>1, SameBlock DEF ReservedIn
      <3>3. ended = [outer EXCEPT ![n] = c]
        OBVIOUS
      <3> HIDE DEF c, ended
      <3>4. /\ ended \in Seq(S \cup {c}) /\ Len(ended) = n
            /\ \A k \in 1 .. n : ended[k] = IF k = n THEN c ELSE outer[k]
        BY <2>1, <3>1, <3>3
      <3>5. \A k \in 1 .. Len(outer) : IsBlock(ended[k]) /\ ended[k].pc = outer[k].pc
        BY <1>4, <3>2, <3>4 DEF ReservedIn
      <3>6. IsSequence(ended)
        BY <3>4 DEF IsSequence
      <3> QED BY <1>4, <3>4, <3>5, <3>6, SamePlaces
    <2> QED BY <2>2, <2>3
  <1> HIDE DEF ended
  <1>6. ReservedIn(open', out')
    BY <1>2, <1>4, <1>5
  <1>7. IsSequence(out') /\ counted' = Len(out')
    BY <1>2, <1>3, <1>4
  <1>8. type' \in ProgramTypes
    BY <1>2 DEF BInv
  <1> QED BY <1>6, <1>7, <1>8 DEF BInv

\* The end of the program.
LEMMA FinishStep ==
  ASSUME BInv, NEW append_terminate \in BOOLEAN, Finish(append_terminate) PROVE BInv'
  <1>1. type' = type /\ open' = open /\ open = <<>>
    BY DEF Finish
  <1>2. CASE append_terminate
    <2>1. PICK bytes, more : bytes = out /\ more = <<Opcode.Terminate>>
      OBVIOUS
    <2>2. IsSequence(bytes) /\ IsSequence(more) /\ Len(more) = 1 /\ counted = Len(bytes)
      BY <2>1, Single DEF BInv
    <2>3. out' = bytes \o more /\ counted' = counted + 1
      <3>1. out' = Append(bytes, Opcode.Terminate) /\ counted' = counted + 1
        BY <1>2, <2>1 DEF Finish
      <3>2. PICK S : bytes \in Seq(S)
        BY <2>2 DEF IsSequence
      <3>3. bytes \in Seq(S \cup {Opcode.Terminate})
        BY <3>2
      <3>4. Append(bytes, Opcode.Terminate) = bytes \o <<Opcode.Terminate>>
        BY <3>3
      <3> QED BY <2>1, <3>1, <3>4
    <2> DEFINE all == bytes \o more
    <2>4. IsSequence(all) /\ Len(all) = Len(bytes) + Len(more)
      BY <2>2, Concatenated
    <2> HIDE DEF all
    <2>6. out' = all
      BY <2>3 DEF all
    <2>7. IsSequence(out') /\ counted' = Len(out')
      BY <2>2, <2>3, <2>4, <2>6
    <2>5. ReservedIn(open', out')
      BY <1>1, EmptySequence DEF ReservedIn
    <2> QED BY <1>1, <2>5, <2>7 DEF BInv
  <1>3. CASE ~append_terminate
    BY <1>1, <1>3 DEF Finish, BInv
  <1> QED BY <1>2, <1>3

\* The header is the one byte that is there from the start.
LEMMA BytesStart ==
  ASSUME BytesInit PROVE BInv
  <1>1. PICK header : out = <<header>>
    BY DEF BytesInit
  <1>2. counted = 1 /\ open = <<>> /\ type \in ProgramTypes
    BY DEF BytesInit
  <1>3. IsSequence(out) /\ Len(out) = 1
    BY <1>1, Single
  <1>4. ReservedIn(open, out)
    BY <1>2, EmptySequence DEF ReservedIn
  <1> QED BY <1>2, <1>3, <1>4 DEF BInv

\* Every call of the encoder keeps the invariant.
LEMMA BytesStep ==
  ASSUME BInv, [BytesNext]_bytevars PROVE BInv'
  <1>1. type \in ProgramTypes /\ ReservedIn(open, out) /\ ReservedIn(CountElement, out)
    BY CountElementKeeps DEF BInv
  <1>2. ASSUME NEW a \in Arguments PROVE a.name \in Seq(Nat) /\ a.label \in Seq(Nat)
    <2>1. \A s \in Seq(Nat \ {0}) : s \in Seq(Nat)
      OBVIOUS
    <2>2. a.name \in Seq(Nat \ {0}) /\ a.label \in Seq(Nat \ {0})
      BY ProgramAssumption
    <2> QED BY <2>1, <2>2
  <1>3. ASSUME NEW a \in Arguments, NEW has_mask \in BOOLEAN, BeginNamed(has_mask, a.bits)
        PROVE  BInv'
    <2> DEFINE mask  == InScope(a.bits)
               piece == IF has_mask THEN ScopedInt(mask, Scope) ELSE Nothing
    <2>1. Sized(piece)
      <3>1. Sized(ScopedInt(mask, Scope)) /\ Sized(Nothing)
        BY <1>1, SizedScoped, SizedFields
      <3> HIDE DEF mask
      <3> QED BY <3>1
    <2>2. /\ Emit(Reserved, "command", Scope, Token("Named", has_mask, FALSE, 0, <<>>), piece)
          /\ open' = Append(CountElement, Block("Named", "pairs", IF has_mask THEN mask ELSE Scope,
                                                Bits(has_mask, FALSE)))
      BY <1>3 DEF BeginNamed
    <2> HIDE DEF piece, mask
    <2> QED BY <1>1, <2>1, <2>2, OpenStep
  <1>4. ASSUME NEW a \in Arguments, WritePair(a.bits, a.name) PROVE BInv'
    <2> DEFINE piece == Join(ScopedInt(InScope(a.bits), Scope), CString(a.name))
    <2>1. Sized(piece)
      BY <1>1, <1>2, SizedScoped, SizedFields, SizedJoin
    <2>2. /\ Emit(<<>>, "pair", Scope, Token("Pair", FALSE, FALSE, 0, <<>>), piece)
          /\ open' = CountElement
      BY <1>4 DEF WritePair
    <2> HIDE DEF piece
    <2> QED BY <2>1, <2>2, EmptySequence, WriteStep
  <1>5. ASSUME NEW a \in Arguments, WriteNumeric(a.bits, a.format, a.name) PROVE BInv'
    <2> DEFINE piece == Join(ScopedInt(InScope(a.bits), Scope), CString(a.name))
               byte  == Opcode.Numeric + a.format
    <2>1. Sized(piece)
      BY <1>1, <1>2, SizedScoped, SizedFields, SizedJoin
    <2>2. /\ Emit(<<byte>>, "command", Scope, Token("Numeric", FALSE, FALSE, a.format, <<>>), piece)
          /\ open' = CountElement
      BY <1>5 DEF WriteNumeric
    <2> HIDE DEF piece, byte
    <2>3. IsSequence(<<byte>>)
      BY Single
    <2> QED BY <2>1, <2>2, <2>3, WriteStep
  <1>6. ASSUME NEW a \in Arguments, NEW op \in {"GroupIf", "GroupIfNamed"},
               BeginIf(op, a.shift, a.bits, a.named, a.label)
        PROVE  BInv'
    <2> DEFINE mask  == InScope(a.bits)
               piece == IfFields(a.shift, mask, a.named, a.label)
    <2>1. Sized(piece)
      BY <1>1, <1>2, SizedIf
    <2>2. /\ Emit(Reserved, "command", Scope, Token(op, a.named, FALSE, 0, <<>>), piece)
          /\ open' = Append(CountElement,
                            Block(op, IF op = "GroupIf" THEN "commands" ELSE "pairs", mask,
                                  Bits(a.named, FALSE)))
      BY <1>6 DEF BeginIf
    <2> HIDE DEF piece, mask
    <2> QED BY <1>1, <2>1, <2>2, OpenStep
  <1>7. ASSUME NEW a \in Arguments,
               WriteIfNumeric(a.shift, a.bits, a.named, a.label, a.format, a.negate, a.name)
        PROVE  BInv'
    <2> DEFINE mask  == InScope(a.bits)
               piece == Join(IfFields(a.shift, mask, a.named, a.label), CString(a.name))
               byte  == M!Or(Opcode.GroupIfNumeric + Bits(a.named, a.negate), a.format)
    <2>1. Sized(piece)
      BY <1>1, <1>2, SizedIf, SizedFields, SizedJoin
    <2>2. /\ Emit(<<byte>>, "command", Scope,
                  Token("GroupIfNumeric", a.named, a.negate, a.format, <<>>), piece)
          /\ open' = CountElement
      BY <1>7 DEF WriteIfNumeric
    <2> HIDE DEF piece, byte
    <2>3. IsSequence(<<byte>>)
      BY Single
    <2> QED BY <2>1, <2>2, <2>3, WriteStep
  <1>8. ASSUME NEW a \in Arguments, NEW commands \in BOOLEAN, BeginElse(commands, a.named, a.label)
        PROVE  BInv'
    <2> DEFINE piece == Label(a.named, a.label)
               mask  == last_if.mask
    <2>1. Sized(piece)
      BY <1>2, SizedFields
    <2>2. /\ Emit(Reserved, "postfix", Scope, Token("Else", a.named, commands, 0, <<>>), piece)
          /\ open' = Append(open, Block("Else", IF commands THEN "commands" ELSE "pairs", mask,
                                        Bits(a.named, commands)))
      BY <1>8 DEF BeginElse
    <2> HIDE DEF piece, mask
    <2> QED BY <1>1, <2>1, <2>2, OpenStep
  <1>9. CASE Spill
    <2>1. /\ Emit(Reserved, "postfix", Scope, Token("ContinueScope", FALSE, FALSE, 0, <<>>), Nothing)
          /\ open' = Append(open, Block("ContinueScope", Inner.kind, Scope, 0))
      BY <1>9 DEF Spill
    <2>2. Sized(Nothing)
      BY SizedFields
    <2> QED BY <1>1, <2>1, <2>2, OpenStep
  <1>10. CASE UNCHANGED bytevars
    BY <1>10 DEF bytevars, BInv
  <1> QED BY <1>3, <1>4, <1>5, <1>6, <1>7, <1>8, <1>9, <1>10, PatchStep, FinishStep DEF BytesNext

\* The counting and the writing pass have the same cursor before and after
\* every call of the encoder, so that the program fills what was allocated
\* for it to the last byte; and the opcode of a block that is still open is
\* a byte already written whose bits are all clear, however many blocks were
\* opened and patched inside it.
THEOREM PassesAgree == BytesSpec => []SizesAgree
  <1>1. BInv => SizesAgree
    <2> SUFFICES ASSUME BInv PROVE SizesAgree
      OBVIOUS
    <2>1. PICK S : open \in Seq(S)
      BY DEF BInv, ReservedIn, IsSequence
    <2>2. DOMAIN open = 1 .. Len(open)
      BY <2>1
    <2>3. Len(out) \in Nat
      BY DEF BInv, IsSequence
    <2>4. ASSUME NEW k \in DOMAIN open
          PROVE  open[k].pc <= Len(out) /\ out[open[k].pc] = Opcode.Terminate
      BY <2>2, <2>3 DEF BInv, ReservedIn
    <2> QED BY <2>4 DEF BInv, SizesAgree
  <1> QED BY <1>1, BytesStart, BytesStep, PTL DEF BytesSpec
-----------------------------------------------------------------------------
(* What a reader makes of the bytes.  What is known of integers and of     *)
(* words is known of those in a program: CP is about its bytes, WP about   *)
(* the words that have the type of the description.                        *)

CP == INSTANCE WordProofs WITH Digits <- ByteDigits, Payload <- ByteDigits - 1
WP == INSTANCE WordProofs WITH Digits <- type.digits, Payload <- ByteDigits - 1

\* The instances name the same operations on integers.
LEMMA SameCodec ==
  /\ \A t, v : C!EncodeInt(t, v) = CP!EncodeInt(t, v)
  /\ \A t, v : C!EncodeDint(t, v) = CP!EncodeDint(t, v)
  /\ \A t, bytes, from : C!DecodeInt(t, bytes, from) = CP!DecodeInt(t, bytes, from)
  /\ \A t, bytes, from : C!DecodeDint(t, bytes, from) = CP!DecodeDint(t, bytes, from)
  /\ \A t : C!SizeOf(t) = CP!SizeOf(t)
  /\ \A bytes, from : C!Ends(bytes, from) = CP!Ends(bytes, from)
  <1>1. \A t, v : C!EncodeInt(t, v) = CP!EncodeInt(t, v)
    BY Zenon DEF C!EncodeInt, CP!EncodeInt, C!SizeOf, CP!SizeOf, C!FromByte, CP!FromByte, C!Narrow,
       CP!Narrow, C!ByteValues, CP!ByteValues, C!Group, CP!Group
  <1>2. \A t, v : C!EncodeDint(t, v) = CP!EncodeDint(t, v)
    BY Zenon DEF C!EncodeDint, CP!EncodeDint, C!GroupCount, CP!GroupCount, C!FromGroup, CP!FromGroup,
       C!SignBit, CP!SignBit, C!Group, CP!Group, C!Max, CP!Max
  <1>3. \A t, bytes, from : C!DecodeInt(t, bytes, from) = CP!DecodeInt(t, bytes, from)
    BY Zenon DEF C!DecodeInt, CP!DecodeInt, C!SizeOf, CP!SizeOf, C!FromWord, CP!FromWord,
       C!ValueBits, CP!ValueBits
  <1>4. ASSUME NEW t, NEW bytes, NEW from
        PROVE  C!DecodeDint(t, bytes, from) = CP!DecodeDint(t, bytes, from)
    <2> DEFINE Turned(after, byte) == [ok   |-> after.ok /\ ~CP!Overflows(t, after.word),
                                       word |-> CP!Narrow(t, after.word * CP!Group) + CP!GroupOf(byte)]
               Dint(last) ==
                 LET top  == IF t.signed THEN CP!GroupOf(bytes[last]) % CP!SignBit
                             ELSE CP!GroupOf(bytes[last])
                     negative == t.signed /\ CP!GroupOf(bytes[last]) >= CP!SignBit
                     read[k \in from .. last] ==
                       IF k = last THEN [ok |-> TRUE, word |-> top] ELSE Turned(read[k + 1], bytes[k])
                     word == read[from].word
                 IN  IF CP!Ends(bytes, from) = {} \/ ~read[from].ok THEN CP!Failed(from)
                     ELSE [next |-> last + 1,
                           value |-> CP!FromWord(t, IF negative THEN CP!UnsignedMax(t) - word ELSE word)]
    <2>1. C!DecodeDint(t, bytes, from) = Dint(C!LastByte(bytes, from))
      BY Zenon DEF C!DecodeDint, C!Failed, CP!Failed, C!Ends,
       CP!Ends, C!Continues, CP!Continues, C!GroupOf, CP!GroupOf, C!Overflows, CP!Overflows,
       C!Narrow, CP!Narrow, C!FromWord, CP!FromWord, C!ValueBits, CP!ValueBits, C!UnsignedMax,
       CP!UnsignedMax, C!SignBit, CP!SignBit, C!Group, CP!Group
    <2>2. CP!DecodeDint(t, bytes, from) = Dint(CP!LastByte(bytes, from))
      BY Zenon DEF CP!DecodeDint
    <2>3. C!LastByte(bytes, from) = CP!LastByte(bytes, from)
      BY Zenon DEF C!LastByte, CP!LastByte, C!Ends, CP!Ends, C!Continues, CP!Continues, C!Group,
         CP!Group
    <2> HIDE DEF Dint
    <2> QED BY <2>1, <2>2, <2>3
  <1>5. \A t : C!SizeOf(t) = CP!SizeOf(t)
    BY Zenon DEF C!SizeOf, CP!SizeOf
  <1>6. \A bytes, from : C!Ends(bytes, from) = CP!Ends(bytes, from)
    BY Zenon DEF C!Ends, CP!Ends, C!Continues, CP!Continues, C!Group, CP!Group
  <1> QED BY <1>1, <1>2, <1>3, <1>4, <1>5, <1>6

\* And the same operations on words.
LEMMA SameMasks ==
  /\ M!Modulus = WP!Modulus /\ WP!Modulus = 2^type.digits
  /\ \A v, i : (M!Bit(v, i) <=> WP!Bit(v, i)) /\ (CP!Bit(v, i) <=> WP!Bit(v, i))
  /\ \A v, w : M!And(v, w) = WP!And(v, w) /\ M!Or(v, w) = WP!Or(v, w)
  /\ \A v : M!ToUnsigned(v) = v % 2^type.digits
  /\ \A s, v : M!Condense(s, v, TRUE, FALSE) = WP!Condense(s, v, TRUE, FALSE)
  /\ \A s, v : M!Expand(s, v, TRUE) = WP!Expand(s, v, TRUE)
  /\ \A s, v : M!ReadsAsScoped(s, v) <=> WP!ReadsAsScoped(s, v)
  <1>1. M!Modulus = WP!Modulus /\ WP!Modulus = 2^type.digits
    BY Zenon DEF M!Modulus, WP!Modulus
  <1>2. \A v, i : (M!Bit(v, i) <=> WP!Bit(v, i)) /\ (CP!Bit(v, i) <=> WP!Bit(v, i))
    BY Zenon DEF M!Bit, WP!Bit, CP!Bit
  <1>3. \A v, w : M!And(v, w) = WP!And(v, w)
    BY Zenon DEF M!And, WP!And, M!FromBits, WP!FromBits, M!WordOf, WP!WordOf, M!BitsOf, WP!BitsOf,
       M!Bit, WP!Bit
  <1>4. \A v, w : M!Or(v, w) = WP!Or(v, w)
    BY Zenon DEF M!Or, WP!Or, M!FromBits, WP!FromBits, M!WordOf, WP!WordOf, M!BitsOf, WP!BitsOf,
       M!Bit, WP!Bit
  <1>5. \A v : M!ToUnsigned(v) = v % 2^type.digits
    BY <1>1, Zenon DEF M!ToUnsigned
  <1>6. \A s, v : M!Condense(s, v, TRUE, FALSE) = WP!Condense(s, v, TRUE, FALSE)
    BY Zenon DEF M!Condense, WP!Condense, M!Gathered, WP!Gathered, M!ShiftBack, WP!ShiftBack,
       M!MostSetBitIndex, WP!MostSetBitIndex, M!LeastSetBitIndex, WP!LeastSetBitIndex,
       M!CountBitsSet, WP!CountBitsSet, M!Cardinality, WP!Cardinality, M!FreedBits, WP!FreedBits, M!ShiftIn, WP!ShiftIn,
       M!BitsOf, WP!BitsOf, M!Bit, WP!Bit, M!Modulus, WP!Modulus, M!Max, WP!Max, M!Min, WP!Min
  <1>7. \A s, v : M!Expand(s, v, TRUE) = WP!Expand(s, v, TRUE)
    BY Zenon DEF M!Expand, WP!Expand, M!Spread, WP!Spread,
       M!MostSetBitIndex, WP!MostSetBitIndex, M!LeastSetBitIndex, WP!LeastSetBitIndex,
       M!ShiftIn, WP!ShiftIn, M!BitsOf, WP!BitsOf, M!Bit, WP!Bit, M!Modulus, WP!Modulus,
       M!Max, WP!Max, M!Min, WP!Min
  <1>8. \A s, v : M!ReadsAsScoped(s, v) <=> WP!ReadsAsScoped(s, v)
    BY <1>6, <1>7, Zenon DEF M!ReadsAsScoped, WP!ReadsAsScoped
  <1> QED BY <1>1, <1>2, <1>3, <1>4, <1>5, <1>6, <1>7, <1>8

Unsign(t) == [t EXCEPT !.signed = FALSE]

\* The types of the descriptions are integer types of whole bytes, wide
\* enough for an opcode.
LEMMA TypesAreWide ==
  ASSUME NEW t \in ProgramTypes
  PROVE  /\ CP!DigitsAssumption /\ CP!PayloadAssumption
         /\ t.digits \in Nat /\ t.digits >= 8 /\ 2^t.digits \in Nat /\ 256 <= 2^t.digits
         /\ CP!IsIntType(t) /\ CP!IsIntType(Unsign(t)) /\ CP!SizeOf(t) \in Nat \ {0}
         /\ Unsign(t).digits = t.digits /\ ~Unsign(t).signed
         /\ CP!Values(Unsign(t)) = 0 .. 2^t.digits - 1
  <1>1. PICK k \in 0 .. 3, signed \in BOOLEAN : t = [digits |-> ByteDigits * 2^k, signed |-> signed]
    BY ProgramAssumption DEF StorageTypes, WidthCodes
  <1>2. ByteDigits \in Nat /\ ByteDigits >= 8
    BY ProgramAssumption
  <1>3. CP!DigitsAssumption /\ CP!PayloadAssumption
    <2>1. ByteDigits \in Nat \ {0} /\ ByteDigits - 1 \in Nat \ {0, 1}
      BY <1>2
    <2> QED BY <2>1 DEF CP!DigitsAssumption, CP!PayloadAssumption
  <1>4. 2^k \in Nat \ {0}
    BY <1>3, CP!PowerIsPositive
  <1>5. \A b, n : b \in Nat /\ b >= 8 /\ n \in Nat \ {0} =>
          b * n \in Nat /\ b * n >= 8 /\ b * n # 0
    <2>1. ASSUME NEW b \in Nat, b >= 8, NEW n \in Nat \ {0} PROVE b * n \in Nat /\ b <= b * n
      BY <1>3, <2>1, CP!Product, b # 0
    <2> QED BY <2>1
  <1>6. t.digits \in Nat /\ t.digits >= 8 /\ t.digits = ByteDigits * 2^k /\ t.signed \in BOOLEAN
    BY <1>1, <1>2, <1>4, <1>5
  <1>7. t.digits % ByteDigits = 0 /\ (ByteDigits - 1) + 1 = ByteDigits
    <2>1. ByteDigits \in Nat \ {0} /\ 2^k \in Int /\ 0 \in Nat /\ 0 < ByteDigits
      BY <1>2, <1>4
    <2>2. (ByteDigits * 2^k + 0) % ByteDigits = 0
      BY <1>3, <2>1, CP!DivisionIsUnique, Zenon
    <2>3. \A x \in Nat : x + 0 = x
      OBVIOUS
    <2>4. ByteDigits * 2^k + 0 = t.digits
      BY <1>6, <2>3, Zenon
    <2> QED BY <1>2, <1>6, <2>2, <2>4
  <1>8. 256 <= 2^t.digits /\ 2^t.digits \in Nat
    <2>1. 2^8 = 256
      BY SMT
    <2>2. 8 \in Nat /\ 8 <= t.digits
      BY <1>6
    <2>3. 2^8 <= 2^t.digits
      BY <1>3, <1>6, <2>2, CP!PowerGrows
    <2> QED BY <1>3, <1>6, <2>1, <2>3, CP!PowerIsPositive, SMT
  <1>9. Unsign(t).digits = t.digits /\ Unsign(t).signed = FALSE
    BY <1>1 DEF Unsign
  <1>10. t.digits \in Nat \ {0}
    BY <1>6
  <1>11. CP!IsIntType(t) /\ CP!IsIntType(Unsign(t))
    BY <1>6, <1>7, <1>9, <1>10 DEF CP!IsIntType
  <1>12. CP!SizeOf(t) \in Nat \ {0}
    BY <1>3, <1>11, CP!Widths
  <1>13. CP!Values(Unsign(t)) = 0 .. 2^t.digits - 1
    BY <1>9 DEF CP!Values, CP!UnsignedMax
  <1> QED BY <1>3, <1>6, <1>8, <1>9, <1>11, <1>12, <1>13

-----------------------------------------------------------------------------
(* Fields.  What lies in the bytes from one place up to another, told      *)
(* without the encoder and without the decoder: t is the type of the       *)
(* description, packed says whether it is compressed.                      *)

Within(scope, word) == \A i \in Nat : CP!Bit(word, i) => CP!Bit(scope, i)

\* The bits of the word that the scope selects, one after the other.
ScopeBits(d, scope) == {i \in 0 .. d - 1 : CP!Bit(scope, i)}
Condensed(d, scope, word, c) ==
  /\ c \in 0 .. 2^d - 1
  /\ \A i \in Nat :
       CP!Bit(c, i) <=> \E j \in ScopeBits(d, scope) :
         CP!Bit(word, j) /\ i = Cardinality({m \in ScopeBits(d, scope) : m < j})

\* The dint or the integer that a word under a scope is written as.
PackedAt(word, t, scope, bytes, from, to) ==
  \E c \in 0 .. 2^t.digits - 1, n \in Nat \ {0} :
    /\ Condensed(t.digits, scope, word, c)
    /\ CP!HoldsDint(Unsign(t), bytes, from, c, n) /\ to = from + n
FixedAt(word, t, bytes, from, to) ==
  CP!HoldsWord(bytes, from, word, CP!SizeOf(t)) /\ to = from + CP!SizeOf(t)

ScopedAt(f, t, packed, scope, bytes, from, to) ==
  /\ f = [word |-> f.word, text |-> <<>>]
  /\ f.word \in 0 .. 2^t.digits - 1 /\ Within(scope, f.word)
  /\ packed => PackedAt(f.word, t, scope, bytes, from, to)
  /\ ~packed => FixedAt(f.word, t, bytes, from, to)

TextAt(f, bytes, from, to) ==
  /\ f = [word |-> 0, text |-> f.text] /\ f.text \in Seq(Nat \ {0})
  /\ \A i \in 1 .. Len(f.text) : bytes[from + i - 1] = f.text[i]
  /\ to = from + Len(f.text) + 1 /\ bytes[to - 1] = 0

ShiftAt(f, t, scope, bytes, from, to) ==
  /\ f = [word |-> bytes[from], text |-> <<>>]
  /\ bytes[from] \in 0 .. t.digits - 1 /\ CP!Bit(scope, bytes[from])
  /\ to = from + 1

FieldAt(kind, f, t, packed, scope, bytes, from, to) ==
  \/ kind = "scoped" /\ ScopedAt(f, t, packed, scope, bytes, from, to)
  \/ kind = "text" /\ TextAt(f, bytes, from, to)
  \/ kind = "shift" /\ ShiftAt(f, t, scope, bytes, from, to)

\* Fields one behind the other.
FieldsAt(kinds, fields, t, packed, scope, bytes, from, to) ==
  /\ IsSequence(fields) /\ Len(fields) = Len(kinds)
  /\ \E p \in [0 .. Len(kinds) -> from .. to] :
       /\ p[0] = from /\ p[Len(kinds)] = to
       /\ \A i \in 1 .. Len(kinds) :
            FieldAt(kinds[i], fields[i], t, packed, scope, bytes, p[i - 1], p[i])

\* A field lies elsewhere as well if the same bytes do; and it has a byte.
LEMMA FieldMoves ==
  ASSUME NEW t \in ProgramTypes, NEW packed \in BOOLEAN, NEW kind, NEW f, NEW scope, NEW bytes,
         NEW from \in Nat, NEW to \in Int, FieldAt(kind, f, t, packed, scope, bytes, from, to)
  PROVE  /\ from < to
         /\ \A other : \A d \in Nat :
              (\A i \in from .. to - 1 : other[i + d] = bytes[i])
                => FieldAt(kind, f, t, packed, scope, other, from + d, to + d)
  <1>1. CP!SizeOf(t) \in Nat \ {0}
    BY TypesAreWide
  <1>2. ASSUME NEW other, NEW d \in Nat, NEW n \in Nat, from + n <= to, NEW k \in 1 .. n,
               \A i \in from .. to - 1 : other[i + d] = bytes[i]
        PROVE  other[from + d + k - 1] = bytes[from + k - 1]
    <2>1. from + k - 1 \in from .. to - 1 /\ (from + k - 1) + d = from + d + k - 1
      BY <1>2
    <2> QED BY <1>2, <2>1
  <1>3. CASE kind = "scoped" /\ ScopedAt(f, t, packed, scope, bytes, from, to)
    <2>1. CASE packed
      <3>1. PICK c \in 0 .. 2^t.digits - 1, n \in Nat \ {0} :
              /\ Condensed(t.digits, scope, f.word, c)
              /\ CP!HoldsDint(Unsign(t), bytes, from, c, n) /\ to = from + n
        BY <1>3, <2>1 DEF ScopedAt, PackedAt
      <3>2. from < to
        BY <3>1
      <3>3. ASSUME NEW other, NEW d \in Nat, \A i \in from .. to - 1 : other[i + d] = bytes[i]
            PROVE  FieldAt(kind, f, t, packed, scope, other, from + d, to + d)
        <4>1. \A k \in 1 .. n : other[from + d + k - 1] = bytes[from + k - 1]
          BY <1>2, <3>1, <3>3
        <4>2. n \in 1 .. n /\ \A k \in 1 .. n - 1 : k \in 1 .. n
          OBVIOUS
        <4>3. CP!HoldsDint(Unsign(t), other, from + d, c, n)
          BY <3>1, <4>1, <4>2 DEF CP!HoldsDint
        <4>4. to + d = from + d + n
          BY <3>1
        <4>5. PackedAt(f.word, t, scope, other, from + d, to + d)
          BY <3>1, <4>3, <4>4 DEF PackedAt
        <4> QED BY <1>3, <2>1, <4>5 DEF ScopedAt, FieldAt
      <3> QED BY <3>2, <3>3
    <2>2. CASE ~packed
      <3> DEFINE n == CP!SizeOf(t)
      <3>1. CP!HoldsWord(bytes, from, f.word, n) /\ to = from + n
        BY <1>3, <2>2 DEF ScopedAt, FixedAt
      <3> HIDE DEF n
      <3>2. n \in Nat \ {0} /\ from < to
        BY <1>1, <3>1 DEF n
      <3>3. ASSUME NEW other, NEW d \in Nat, \A i \in from .. to - 1 : other[i + d] = bytes[i]
            PROVE  FieldAt(kind, f, t, packed, scope, other, from + d, to + d)
        <4>1. \A k \in 1 .. n : other[from + d + k - 1] = bytes[from + k - 1]
          BY <1>2, <3>1, <3>2, <3>3
        <4>2. CP!HoldsWord(other, from + d, f.word, n)
          BY <3>1, <4>1 DEF CP!HoldsWord
        <4>3. to + d = from + d + n
          BY <3>1, <3>2
        <4>4. FixedAt(f.word, t, other, from + d, to + d)
          BY <4>2, <4>3 DEF FixedAt, n
        <4> QED BY <1>3, <2>2, <4>4 DEF ScopedAt, FieldAt
      <3> QED BY <3>2, <3>3
    <2> QED BY <2>1, <2>2
  <1>4. CASE kind = "text" /\ TextAt(f, bytes, from, to)
    <2> DEFINE n == Len(f.text)
    <2>1. n \in Nat /\ to = from + n + 1 /\ bytes[to - 1] = 0
          /\ \A i \in 1 .. n : bytes[from + i - 1] = f.text[i]
      BY <1>4 DEF TextAt
    <2>2. ASSUME NEW other, NEW d \in Nat, \A i \in from .. to - 1 : other[i + d] = bytes[i]
          PROVE  FieldAt(kind, f, t, packed, scope, other, from + d, to + d)
      <3> HIDE DEF n
      <3>1. \A k \in 1 .. n : other[from + d + k - 1] = bytes[from + k - 1]
        BY <1>2, <2>1, <2>2
      <3>2. other[to + d - 1] = bytes[to - 1]
        <4>1. to - 1 \in from .. to - 1 /\ (to - 1) + d = to + d - 1
          BY <2>1
        <4> QED BY <2>2, <4>1
      <3>3. to + d = (from + d) + n + 1
        BY <2>1
      <3>4. TextAt(f, other, from + d, to + d)
        BY <1>4, <2>1, <3>1, <3>2, <3>3 DEF TextAt, n
      <3> QED BY <1>4, <3>4 DEF FieldAt
    <2>3. from < to
      BY <2>1
    <2> QED BY <2>2, <2>3
  <1>5. CASE kind = "shift" /\ ShiftAt(f, t, scope, bytes, from, to)
    <2>1. to = from + 1
      BY <1>5 DEF ShiftAt
    <2>2. ASSUME NEW other, NEW d \in Nat, \A i \in from .. to - 1 : other[i + d] = bytes[i]
          PROVE  FieldAt(kind, f, t, packed, scope, other, from + d, to + d)
      <3>1. other[from + d] = bytes[from] /\ to + d = (from + d) + 1
        BY <2>1, <2>2
      <3>2. ShiftAt(f, t, scope, other, from + d, to + d)
        BY <1>5, <3>1 DEF ShiftAt
      <3> QED BY <1>5, <3>2 DEF FieldAt
    <2> QED BY <2>1, <2>2
  <1> QED BY <1>3, <1>4, <1>5 DEF FieldAt

\* So do fields.
LEMMA FieldsMove ==
  ASSUME NEW t \in ProgramTypes, NEW packed \in BOOLEAN, NEW kinds, NEW fields, NEW scope, NEW bytes,
         NEW from \in Nat, NEW to \in Int, IsSequence(kinds),
         FieldsAt(kinds, fields, t, packed, scope, bytes, from, to),
         NEW other, NEW d \in Nat, \A i \in from .. to - 1 : other[i + d] = bytes[i]
  PROVE  FieldsAt(kinds, fields, t, packed, scope, other, from + d, to + d)
  <1> DEFINE n == Len(kinds)
  <1>1. n \in Nat
    BY DEF IsSequence
  <1>2. PICK p \in [0 .. n -> from .. to] :
          /\ p[0] = from /\ p[n] = to
          /\ \A i \in 1 .. n : FieldAt(kinds[i], fields[i], t, packed, scope, bytes, p[i - 1], p[i])
    BY DEF FieldsAt
  <1>3. IsSequence(fields) /\ Len(fields) = n
    BY DEF FieldsAt
  <1> HIDE DEF n
  <1> DEFINE q == [i \in 0 .. n |-> p[i] + d]
  <1>4. /\ q \in [0 .. n -> from + d .. to + d]
        /\ q[0] = from + d /\ q[n] = to + d
    <2>1. \A i \in 0 .. n : p[i] \in from .. to
      BY <1>2
    <2>2. \A i \in 0 .. n : p[i] + d \in from + d .. to + d
      BY <2>1
    <2>3. 0 \in 0 .. n /\ n \in 0 .. n
      BY <1>1
    <2> QED BY <1>2, <2>2, <2>3
  <1>5. ASSUME NEW i \in 1 .. n
        PROVE  FieldAt(kinds[i], fields[i], t, packed, scope, other, q[i - 1], q[i])
    <2>1. i \in 0 .. n /\ i - 1 \in 0 .. n
      BY <1>1
    <2>2. p[i] \in from .. to /\ p[i - 1] \in from .. to
      BY <1>2, <2>1
    <2>3. \A j \in p[i - 1] .. p[i] - 1 : other[j + d] = bytes[j]
      <3>1. \A j \in p[i - 1] .. p[i] - 1 : j \in from .. to - 1
        BY <2>2
      <3> QED BY <3>1
    <2>4. p[i - 1] \in Nat /\ p[i] \in Int
      BY <2>2
    <2>5. FieldAt(kinds[i], fields[i], t, packed, scope, bytes, p[i - 1], p[i])
      BY <1>2
    <2>6. FieldAt(kinds[i], fields[i], t, packed, scope, other, p[i - 1] + d, p[i] + d)
      BY <2>3, <2>4, <2>5, FieldMoves
    <2> QED BY <2>1, <2>6
  <1> HIDE DEF q
  <1>6. \E r \in [0 .. n -> from + d .. to + d] :
          /\ r[0] = from + d /\ r[n] = to + d
          /\ \A i \in 1 .. n : FieldAt(kinds[i], fields[i], t, packed, scope, other, r[i - 1], r[i])
    BY <1>4, <1>5
  <1> QED BY <1>3, <1>6 DEF FieldsAt, n

\* Fields behind fields.
LEMMA FieldsJoin ==
  ASSUME NEW t \in ProgramTypes, NEW packed \in BOOLEAN, NEW scope, NEW bytes,
         NEW from \in Nat, NEW mid \in Nat, NEW to \in Nat, NEW k, NEW m, NEW f, NEW g,
         IsSequence(k), IsSequence(m),
         FieldsAt(k, f, t, packed, scope, bytes, from, mid),
         FieldsAt(m, g, t, packed, scope, bytes, mid, to)
  PROVE  FieldsAt(k \o m, f \o g, t, packed, scope, bytes, from, to)
  <1> DEFINE a == Len(k)
             b == Len(m)
             At(i) == FieldAt(k[i], f[i], t, packed, scope, bytes, from, to)
  <1>1. /\ a \in Nat /\ b \in Nat /\ Len(k \o m) = a + b
        /\ \A i \in 1 .. a : (k \o m)[i] = k[i]
        /\ \A i \in 1 .. b : (k \o m)[a + i] = m[i]
    BY Concatenated
  <1>2. /\ IsSequence(f) /\ Len(f) = a /\ IsSequence(g) /\ Len(g) = b
    BY DEF FieldsAt
  <1>3. /\ IsSequence(f \o g) /\ Len(f \o g) = a + b
        /\ \A i \in 1 .. a : (f \o g)[i] = f[i]
        /\ \A i \in 1 .. b : (f \o g)[a + i] = g[i]
    <2>1. /\ IsSequence(f \o g) /\ Len(f \o g) = Len(f) + Len(g)
          /\ \A i \in 1 .. Len(f) : (f \o g)[i] = f[i]
          /\ \A i \in 1 .. Len(g) : (f \o g)[Len(f) + i] = g[i]
      BY <1>2, Concatenated
    <2> QED BY <1>2, <2>1
  <1>4. PICK p \in [0 .. a -> from .. mid] :
          /\ p[0] = from /\ p[a] = mid
          /\ \A i \in 1 .. a : FieldAt(k[i], f[i], t, packed, scope, bytes, p[i - 1], p[i])
    BY DEF FieldsAt
  <1>5. PICK q \in [0 .. b -> mid .. to] :
          /\ q[0] = mid /\ q[b] = to
          /\ \A i \in 1 .. b : FieldAt(m[i], g[i], t, packed, scope, bytes, q[i - 1], q[i])
    BY DEF FieldsAt
  <1> DEFINE n == Len(k \o m)
  <1>6. n = a + b /\ n \in Nat
    BY <1>1
  <1> HIDE DEF a, b, n
  <1> DEFINE r == [i \in 0 .. n |-> IF i <= a THEN p[i] ELSE q[i - a]]
  <1>7. from <= mid /\ mid <= to
    <2>1. p[0] \in from .. mid /\ q[0] \in mid .. to
      BY <1>1, <1>6, <1>4, <1>5
    <2> QED BY <1>4, <1>5, <2>1
  <1>8. \A i \in 0 .. n : r[i] \in from .. to
    <2> SUFFICES ASSUME NEW i \in 0 .. n PROVE r[i] \in from .. to
      OBVIOUS
    <2>1. CASE i <= a
      <3>1. i \in 0 .. a /\ p[i] \in from .. mid
        BY <1>1, <1>6, <1>4, <2>1
      <3> QED BY <1>7, <2>1, <3>1
    <2>2. CASE ~(i <= a)
      <3>1. i - a \in 0 .. b /\ q[i - a] \in mid .. to
        BY <1>1, <1>6, <1>5, <2>2
      <3> QED BY <1>7, <2>2, <3>1
    <2> QED BY <2>1, <2>2
  <1>9. r \in [0 .. n -> from .. to]
    BY <1>8
  <1>10. r[0] = from /\ r[n] = to
    <2>1. 0 \in 0 .. n /\ 0 <= a /\ r[0] = p[0]
      BY <1>1, <1>6
    <2>2. n \in 0 .. n
      BY <1>1, <1>6
    <2>3. CASE b = 0
      <3>1. n = a /\ a <= a
        BY <1>1, <1>6, <2>3
      <3>2. r[n] = p[a]
        BY <2>2, <3>1
      <3> QED BY <1>4, <1>5, <2>1, <2>3, <3>2
    <2>4. CASE b # 0
      <3>1. ~(n <= a) /\ n - a = b
        BY <1>1, <1>6, <2>4
      <3>2. r[n] = q[b]
        BY <2>2, <3>1
      <3> QED BY <1>4, <1>5, <2>1, <3>2
    <2> QED BY <2>3, <2>4
  <1>11. ASSUME NEW i \in 1 .. n
         PROVE  FieldAt((k \o m)[i], (f \o g)[i], t, packed, scope, bytes, r[i - 1], r[i])
    <2>1. i \in 0 .. n /\ i - 1 \in 0 .. n
      BY <1>1, <1>6
    <2>2. CASE i <= a
      <3>1. i \in 1 .. a /\ i - 1 <= a /\ r[i] = p[i] /\ r[i - 1] = p[i - 1]
        BY <1>1, <1>6, <2>1, <2>2
      <3>2. FieldAt(k[i], f[i], t, packed, scope, bytes, p[i - 1], p[i])
        BY <1>4, <3>1
      <3> QED BY <1>1, <1>6, <1>3, <3>1, <3>2
    <2>3. CASE ~(i <= a)
      <3> DEFINE j == i - a
      <3>1. j \in 1 .. b /\ a + j = i /\ r[i] = q[j]
        BY <1>1, <1>6, <2>1, <2>3
      <3>2. r[i - 1] = q[j - 1]
        <4>1. CASE i - 1 <= a
          <5>1. i - 1 = a /\ j - 1 = 0
            BY <1>1, <1>6, <2>3, <4>1
          <5>2. r[i - 1] = p[a]
            BY <2>1, <4>1, <5>1
          <5> QED BY <1>4, <1>5, <5>1, <5>2
        <4>2. CASE ~(i - 1 <= a)
          <5>1. (i - 1) - a = j - 1
            BY <1>1, <1>6
          <5> QED BY <2>1, <4>2, <5>1
        <4> QED BY <4>1, <4>2
      <3> HIDE DEF j, r
      <3>3. FieldAt(m[j], g[j], t, packed, scope, bytes, q[j - 1], q[j])
        BY <1>5, <3>1
      <3>4. (k \o m)[i] = m[j] /\ (f \o g)[i] = g[j]
        BY <1>1, <1>6, <1>3, <3>1
      <3> QED BY <3>1, <3>2, <3>3, <3>4
    <2> QED BY <2>2, <2>3
  <1> HIDE DEF r
  <1>12. \E s \in [0 .. n -> from .. to] :
           /\ s[0] = from /\ s[n] = to
           /\ \A i \in 1 .. n :
                FieldAt((k \o m)[i], (f \o g)[i], t, packed, scope, bytes, s[i - 1], s[i])
    BY <1>9, <1>10, <1>11
  <1>13. Len(f \o g) = n
    BY <1>3, <1>6
  <1> QED BY <1>3, <1>12, <1>13 DEF FieldsAt, n

\* One field, and none.
LEMMA FewFields ==
  ASSUME NEW t \in ProgramTypes, NEW packed \in BOOLEAN, NEW scope, NEW bytes, NEW from \in Nat
  PROVE  /\ FieldsAt(<<>>, <<>>, t, packed, scope, bytes, from, from)
         /\ \A kind, f : \A to \in Nat :
              FieldAt(kind, f, t, packed, scope, bytes, from, to) =>
                FieldsAt(<<kind>>, <<f>>, t, packed, scope, bytes, from, to)
  <1>1. FieldsAt(<<>>, <<>>, t, packed, scope, bytes, from, from)
    <2> DEFINE n == Len(<<>>)
               e == <<>>
               p == [i \in 0 .. n |-> from]
    <2>1. IsSequence(<<>>) /\ n = 0
      BY EmptySequence
    <2>2. p \in [0 .. n -> from .. from] /\ p[0] = from /\ p[n] = from
      BY <2>1
    <2>3. 1 .. n = {}
      BY <2>1
    <2> HIDE DEF p, n
    <2>4. \E q \in [0 .. n -> from .. from] :
            /\ q[0] = from /\ q[n] = from
            /\ \A i \in 1 .. n : FieldAt(e[i], e[i], t, packed, scope, bytes, q[i - 1], q[i])
      BY <2>2, <2>3
    <2> QED BY <2>1, <2>4 DEF FieldsAt, n
  <1>2. ASSUME NEW kind, NEW f, NEW to \in Nat, FieldAt(kind, f, t, packed, scope, bytes, from, to)
        PROVE  FieldsAt(<<kind>>, <<f>>, t, packed, scope, bytes, from, to)
    <2> DEFINE k == <<kind>>
               g == <<f>>
               n == Len(k)
               p == [i \in 0 .. n |-> IF i = 0 THEN from ELSE to]
    <2>1. n = 1 /\ IsSequence(g) /\ Len(g) = 1 /\ k[1] = kind /\ g[1] = f
      <3>1. IsSequence(<<f>>) /\ Len(<<f>>) = 1 /\ <<f>>[1] = f
        BY Single
      <3>2. Len(<<kind>>) = 1 /\ <<kind>>[1] = kind
        BY Single
      <3> QED BY <3>1, <3>2
    <2>2. from < to
      BY <1>2, to \in Int, FieldMoves
    <2>3. p \in [0 .. n -> from .. to] /\ p[0] = from /\ p[n] = to
      BY <2>1, <2>2
    <2>4. \A i \in 1 .. n : i = 1 /\ i - 1 = 0 /\ n = 1
      BY <2>1
    <2> HIDE DEF p, n, k, g
    <2>5. \A i \in 1 .. n : FieldAt(k[i], g[i], t, packed, scope, bytes, p[i - 1], p[i])
      BY <1>2, <2>1, <2>3, <2>4
    <2>6. \E q \in [0 .. n -> from .. to] :
            /\ q[0] = from /\ q[n] = to
            /\ \A i \in 1 .. n : FieldAt(k[i], g[i], t, packed, scope, bytes, q[i - 1], q[i])
      BY <2>3, <2>5
    <2>7. FieldsAt(k, g, t, packed, scope, bytes, from, to)
      BY <2>1, <2>6 DEF FieldsAt, n
    <2> QED BY <2>7 DEF k, g
  <1> QED BY <1>1, <1>2

-----------------------------------------------------------------------------
(* What the encoder hands to the writers lies in its own bytes.            *)

PieceOf(kinds, piece, scope) ==
  /\ Sized(piece) /\ IsSequence(kinds) /\ Len(piece.bytes) \in Nat
  /\ FieldsAt(kinds, piece.fields, type, compress, scope, piece.bytes, 1, Len(piece.bytes) + 1)

Typed == type \in ProgramTypes /\ compress \in BOOLEAN

\* The words of the type of the description, and what they have in common.
Words  == 0 .. 2^type.digits - 1
Scopes == Words \ {0}

LEMMA WordFacts ==
  ASSUME Typed
  PROVE  /\ Words = WP!Word /\ WP!DigitsAssumption /\ WP!PayloadAssumption /\ CP!DigitsAssumption /\ CP!PayloadAssumption
         /\ type.digits \in Nat /\ type.digits >= 8 /\ 2^type.digits \in Nat \ {0} /\ 0 .. 255 \subseteq Words
         /\ \A v \in Words : v \in Nat /\ v < 2^type.digits
         /\ Unsigned = Unsign(type)
  <1>1. /\ type.digits \in Nat /\ type.digits >= 8 /\ 2^type.digits \in Nat /\ 256 <= 2^type.digits
        /\ CP!DigitsAssumption /\ CP!PayloadAssumption
    BY TypesAreWide DEF Typed
  <1>2. WP!DigitsAssumption /\ WP!PayloadAssumption
    <2>1. WP!DigitsAssumption
      BY <1>1 DEF WP!DigitsAssumption
    <2>2. WP!PayloadAssumption
      BY <1>1 DEF WP!PayloadAssumption, CP!PayloadAssumption
    <2> QED BY <2>1, <2>2
  <1>3. Words = WP!Word
    BY Zenon DEF Words, WP!Word, WP!Modulus
  <1>4. Unsigned = Unsign(type)
    BY DEF Unsigned, Unsign
  <1> DEFINE m == 2^type.digits
  <1>5. m \in Nat \ {0} /\ 0 .. 255 \subseteq 0 .. m - 1 /\ \A v \in 0 .. m - 1 : v \in Nat /\ v < m
    <2>1. m \in Nat /\ 256 <= m
      BY <1>1
    <2> HIDE DEF m
    <2> QED BY <2>1, SMT
  <1> QED BY <1>1, <1>2, <1>3, <1>4, <1>5 DEF Words

\* condense() is the only number that has the bits of the word in the scope.
LEMMA CondensedIs ==
  ASSUME Typed, NEW scope \in Scopes, NEW word
  PROVE  /\ Condensed(type.digits, scope, word, M!Condense(scope, word, TRUE, FALSE))
         /\ \A c : Condensed(type.digits, scope, word, c) => c = M!Condense(scope, word, TRUE, FALSE)
  <1> DEFINE d == type.digits
             S == WP!BitsOf(scope)
             e == WP!Condense(scope, word, TRUE, FALSE)
             Gathered(c) == \A i \in Nat :
               WP!Bit(c, i) <=> \E j \in S : WP!Bit(word, j) /\ i = 0 + WP!Rank(scope, j)
  <1>1. /\ scope \in WP!Word \ {0} /\ WP!DigitsAssumption /\ WP!PayloadAssumption /\ WP!Word = 0 .. 2^d - 1
    BY WordFacts DEF Scopes, Words
  <1>2. WP!Gathers(e, scope, word, WP!BaseOf(scope, TRUE))
    BY <1>1, TRUE \in BOOLEAN, WP!CondensedBits
  <1>3. e \in WP!Word /\ Gathered(e)
    BY <1>2 DEF WP!Gathers, WP!BaseOf
  <1>4. S = ScopeBits(d, scope)
    BY Zenon, SameMasks DEF WP!BitsOf, ScopeBits, CP!Bit, WP!Bit
  <1>5. \A j : WP!Rank(scope, j) = Cardinality({m \in S : m < j})
    BY Zenon DEF WP!Rank, WP!Cardinality, Cardinality
  <1>6. \A j \in S : WP!Rank(scope, j) \in Nat
    <2>1. \A j \in S : j \in Nat
      BY <1>1 DEF WP!BitsOf
    <2> QED BY <1>1, <2>1, WP!RankGrows
  <1>7. \A c : Condensed(d, scope, word, c) <=> c \in WP!Word /\ Gathered(c)
    <2> SUFFICES ASSUME NEW c
                 PROVE  Condensed(d, scope, word, c) <=> c \in WP!Word /\ Gathered(c)
      OBVIOUS
    <2> DEFINE R(j) == Cardinality({m \in S : m < j})
    <2>1. Condensed(d, scope, word, c) <=>
            /\ c \in 0 .. 2^d - 1
            /\ \A i \in Nat : CP!Bit(c, i) <=> \E j \in S : CP!Bit(word, j) /\ i = R(j)
      BY <1>4, Zenon DEF Condensed
    <2>2. \A j \in S : 0 + WP!Rank(scope, j) = R(j)
      <3> HIDE DEF R
      <3>1. \A j : WP!Rank(scope, j) = R(j)
        BY <1>5 DEF R
      <3> QED BY <1>6, <3>1
    <2> HIDE DEF R, S
    <2> QED BY <1>1, <2>1, <2>2, SameMasks
  <1> HIDE DEF S
  <1>8. ASSUME NEW c, Condensed(d, scope, word, c) PROVE c = e
    <2>1. c \in WP!Word /\ \A i \in Nat : WP!Bit(c, i) <=> WP!Bit(e, i)
      <3>1. c \in WP!Word /\ Gathered(c)
        BY <1>7, <1>8
      <3> QED BY <1>3, <3>1
    <2> QED BY <1>1, <1>3, <2>1, WP!SameWord
  <1>9. M!Condense(scope, word, TRUE, FALSE) = e
    BY SameMasks
  <1> QED BY <1>3, <1>7, <1>8, <1>9

\* A word under a scope.
LEMMA ScopedPiece ==
  ASSUME Typed, NEW scope \in Scopes, NEW word \in Words, Within(scope, word)
  PROVE  PieceOf(<<"scoped">>, ScopedInt(word, scope), scope)
  <1> DEFINE piece == ScopedInt(word, scope)
             f     == [word |-> word, text |-> <<>>]
             n     == Len(piece.bytes)
  <1>1. Sized(piece) /\ piece.fields = <<f>>
    <2>1. Sized(piece)
      BY SizedScoped DEF Typed
    <2>2. piece.fields = <<f>>
      BY DEF ScopedInt, Piece, WordField
    <2> QED BY <2>1, <2>2
  <1>2. IsSequence(piece.bytes) /\ n \in Nat
    BY <1>1, Concatenated DEF Sized
  <1>3. CASE compress
    <2> DEFINE c == M!Condense(scope, word, TRUE, FALSE)
               dint == C!EncodeDint(Unsigned, c)
    <2>1. piece.bytes = dint
      BY <1>3 DEF ScopedInt, Piece
    <2>2. Condensed(type.digits, scope, word, c)
      BY CondensedIs
    <2> HIDE DEF c
    <2>3. c \in 0 .. 2^type.digits - 1
      BY <2>2 DEF Condensed
    <2>4. dint = CP!EncodeDint(Unsign(type), c)
      BY WordFacts, SameCodec
    <2>5. CP!IsIntType(Unsign(type)) /\ c \in CP!Values(Unsign(type))
      BY <2>3, TypesAreWide DEF Typed
    <2>6. n \in Nat \ {0} /\ CP!HoldsDint(Unsign(type), dint, 1, c, n)
      <3> HIDE DEF piece, dint
      <3> QED BY <2>1, <2>4, <2>5, WordFacts, CP!DintHolds
    <2> HIDE DEF dint, piece
    <2>7. n + 1 = 1 + n
      BY <1>2
    <2>8. PackedAt(word, type, scope, piece.bytes, 1, n + 1)
      BY <2>1, <2>2, <2>3, <2>6, <2>7 DEF PackedAt
    <2>9. ScopedAt(f, type, compress, scope, piece.bytes, 1, n + 1)
      BY <1>3, <2>8 DEF ScopedAt, Words
    <2>10. FieldAt("scoped", f, type, compress, scope, piece.bytes, 1, n + 1)
      BY <2>9 DEF FieldAt
    <2>11. FieldsAt(<<"scoped">>, <<f>>, type, compress, scope, piece.bytes, 1, n + 1)
      BY <1>2, <2>10, FewFields, 1 \in Nat, n + 1 \in Nat DEF Typed
    <2>12. IsSequence(<<"scoped">>)
      BY Single
    <2> QED BY <1>1, <1>2, <2>11, <2>12 DEF PieceOf, piece
  <1>4. CASE ~compress
    <2> DEFINE bytes == CP!EncodeInt(type, word)
    <2>1. piece.bytes = bytes
      BY <1>4, SameCodec DEF ScopedInt, Piece
    <2>2. CP!Narrow(type, word) = word
      <3>1. word \in Nat /\ word < 2^type.digits /\ 2^type.digits \in Nat \ {0} /\ CP!DigitsAssumption /\ CP!PayloadAssumption
        BY WordFacts
      <3> QED BY <3>1, CP!SmallIsRemainder DEF CP!Narrow
    <2>3. CP!HoldsWord(bytes, 1, word, CP!SizeOf(type))
      <3> DEFINE F(k) == CP!FromByte(word, k) % CP!ByteValues
                 s == CP!SizeOf(type)
      <3>1. bytes = [k \in 1 .. s |-> F(k)]
        BY <2>2, Zenon DEF CP!EncodeInt
      <3> HIDE DEF F, s, bytes
      <3>2. \A k \in 1 .. s : bytes[k] = F(k) /\ 1 + k - 1 = k
        BY <3>1
      <3>3. \A k \in 1 .. s : bytes[1 + k - 1] = F(k)
        BY <3>2
      <3> QED BY <3>3 DEF CP!HoldsWord, F, s
    <2>4. n = CP!SizeOf(type)
      <3>1. type.digits \in Nat /\ piece.bytes = C!EncodeInt(type, word)
        BY <1>4, WordFacts DEF ScopedInt, Piece
      <3> QED BY <3>1, IntIsSequence, SameCodec
    <2> HIDE DEF bytes, piece
    <2>5. n + 1 = 1 + n
      BY <1>2
    <2>6. FixedAt(word, type, piece.bytes, 1, n + 1)
      BY <2>1, <2>3, <2>4, <2>5 DEF FixedAt
    <2>7. ScopedAt(f, type, compress, scope, piece.bytes, 1, n + 1)
      BY <1>4, <2>6 DEF ScopedAt, Words
    <2>8. FieldAt("scoped", f, type, compress, scope, piece.bytes, 1, n + 1)
      BY <2>7 DEF FieldAt
    <2>9. FieldsAt(<<"scoped">>, <<f>>, type, compress, scope, piece.bytes, 1, n + 1)
      BY <1>2, <2>8, FewFields, 1 \in Nat, n + 1 \in Nat DEF Typed
    <2>10. IsSequence(<<"scoped">>)
      BY Single
    <2> QED BY <1>1, <1>2, <2>9, <2>10 DEF PieceOf, piece
  <1> QED BY <1>3, <1>4

\* A text, a bit of the scope, a label that is there or not, and pieces one
\* behind the other.
LEMMA OtherPieces ==
  ASSUME Typed, NEW scope
  PROVE  /\ \A name \in Seq(Nat \ {0}) : PieceOf(<<"text">>, CString(name), scope)
         /\ \A byte \in 0 .. type.digits - 1 : CP!Bit(scope, byte) => PieceOf(<<"shift">>, OneByte(byte), scope)
         /\ PieceOf(<<>>, Nothing, scope)
         /\ \A has \in BOOLEAN : \A label \in Seq(Nat \ {0}) :
              PieceOf(IF has THEN <<"text">> ELSE <<>>, Label(has, label), scope)
  <1>1. ASSUME NEW name \in Seq(Nat \ {0}) PROVE PieceOf(<<"text">>, CString(name), scope)
    <2> DEFINE piece == CString(name)
               f     == [word |-> 0, text |-> name]
               bytes == name \o <<0>>
               n     == Len(name)
    <2>1. name \in Seq(Nat) /\ n \in Nat
      OBVIOUS
    <2>2. Sized(piece) /\ piece.bytes = bytes /\ piece.fields = <<f>>
      <3>1. Sized(piece)
        BY <2>1, SizedFields
      <3>2. piece.bytes = bytes /\ piece.fields = <<f>>
        BY DEF CString, Piece, TextField
      <3> QED BY <3>1, <3>2
    <2>3. bytes \in Seq(Nat) /\ Len(bytes) = n + 1 /\ bytes[n + 1] = 0 /\ \A i \in 1 .. n : bytes[i] = name[i]
      BY <2>1
    <2> HIDE DEF bytes, piece
    <2>4. TextAt(f, bytes, 1, n + 2)
      <3>1. \A i \in 1 .. n : bytes[1 + i - 1] = name[i]
        <4>1. \A i \in 1 .. n : 1 + i - 1 = i
          OBVIOUS
        <4> QED BY <2>3, <4>1
      <3>2. n + 2 = 1 + n + 1 /\ (n + 2) - 1 = n + 1
        BY <2>1
      <3> QED BY <2>3, <3>1, <3>2 DEF TextAt
    <2>5. FieldAt("text", f, type, compress, scope, bytes, 1, n + 2)
      BY <2>4 DEF FieldAt
    <2>6. FieldsAt(<<"text">>, <<f>>, type, compress, scope, bytes, 1, n + 2)
      BY <2>1, <2>5, FewFields, 1 \in Nat, n + 2 \in Nat DEF Typed
    <2>7. Len(bytes) + 1 = n + 2 /\ Len(bytes) \in Nat
      BY <2>1, <2>3
    <2>8. IsSequence(<<"text">>)
      BY Single
    <2> QED BY <2>2, <2>6, <2>7, <2>8 DEF PieceOf, piece
  <1>2. ASSUME NEW byte \in 0 .. type.digits - 1, CP!Bit(scope, byte)
        PROVE  PieceOf(<<"shift">>, OneByte(byte), scope)
    <2> DEFINE f     == [word |-> byte, text |-> <<>>]
               bytes == <<byte>>
    <2>1. Sized(OneByte(byte)) /\ OneByte(byte).bytes = bytes /\ OneByte(byte).fields = <<f>>
      <3>1. Sized(OneByte(byte))
        BY SizedFields
      <3> QED BY <3>1 DEF OneByte, Piece, WordField
    <2>2. bytes[1] = byte /\ Len(bytes) = 1
      BY Single
    <2> HIDE DEF bytes
    <2>3. ShiftAt(f, type, scope, bytes, 1, 2)
      BY <1>2, <2>2 DEF ShiftAt
    <2>4. FieldAt("shift", f, type, compress, scope, bytes, 1, 2)
      BY <2>3 DEF FieldAt
    <2>5. FieldsAt(<<"shift">>, <<f>>, type, compress, scope, bytes, 1, 2)
      BY <2>4, FewFields, 1 \in Nat, 2 \in Nat DEF Typed
    <2>6. Len(bytes) + 1 = 2 /\ Len(bytes) \in Nat
      BY <2>2
    <2>7. IsSequence(<<"shift">>)
      BY Single
    <2> QED BY <2>1, <2>5, <2>6, <2>7 DEF PieceOf
  <1>3. PieceOf(<<>>, Nothing, scope)
    <2>1. Sized(Nothing) /\ Nothing.bytes = <<>> /\ Nothing.fields = <<>>
      <3>1. Sized(Nothing)
        BY SizedFields
      <3> QED BY <3>1 DEF Nothing, Piece
    <2> DEFINE e == <<>>
    <2>2. IsSequence(e) /\ Len(e) = 0
      BY EmptySequence
    <2>3. FieldsAt(<<>>, <<>>, type, compress, scope, e, 1, 1)
      BY FewFields, 1 \in Nat DEF Typed
    <2> HIDE DEF e
    <2>4. Len(e) + 1 = 1 /\ Len(e) \in Nat
      BY <2>2
    <2> QED BY <2>1, <2>2, <2>3, <2>4 DEF PieceOf, e
  <1>4. ASSUME NEW has \in BOOLEAN, NEW label \in Seq(Nat \ {0})
        PROVE  PieceOf(IF has THEN <<"text">> ELSE <<>>, Label(has, label), scope)
    BY <1>1, <1>3 DEF Label
  <1> QED BY <1>1, <1>2, <1>3, <1>4

LEMMA JoinedPieces ==
  ASSUME Typed, NEW scope, NEW p, NEW q, NEW k, NEW m, PieceOf(k, p, scope), PieceOf(m, q, scope)
  PROVE  PieceOf(k \o m, Join(p, q), scope)
  <1>1. PICK s, t, f, g : s = p.bytes /\ t = q.bytes /\ f = p.fields /\ g = q.fields
    OBVIOUS
  <1> DEFINE a == Len(s)
             b == Len(t)
             all == s \o t
             piece == Join(p, q)
  <1>2. /\ Sized(piece) /\ IsSequence(k) /\ IsSequence(m) /\ IsSequence(k \o m)
        /\ IsSequence(s) /\ IsSequence(t)
    <2>1. Sized(p) /\ Sized(q) /\ IsSequence(k) /\ IsSequence(m)
      BY DEF PieceOf
    <2> QED BY <1>1, <2>1, SizedJoin, Concatenated DEF Sized
  <1>3. piece.bytes = all /\ piece.fields = f \o g
    BY <1>1 DEF Join, Piece
  <1>4. /\ a \in Nat /\ b \in Nat /\ Len(all) = a + b
        /\ \A i \in 1 .. a : all[i] = s[i]
        /\ \A i \in 1 .. b : all[a + i] = t[i]
    BY <1>2, Concatenated
  <1>5. /\ FieldsAt(k, f, type, compress, scope, s, 1, a + 1)
        /\ FieldsAt(m, g, type, compress, scope, t, 1, b + 1)
    BY <1>1 DEF PieceOf
  <1> HIDE DEF all, piece, a, b
  <1>6. FieldsAt(k, f, type, compress, scope, all, 1 + 0, (a + 1) + 0)
    <2>1. \A i \in 1 .. (a + 1) - 1 : all[i + 0] = s[i]
      <3>1. \A i \in 1 .. (a + 1) - 1 : i + 0 = i /\ i \in 1 .. a
        BY <1>4
      <3> QED BY <1>4, <3>1
    <2>2. a + 1 \in Int
      BY <1>4
    <2> QED BY <1>2, <1>5, <2>1, <2>2, FieldsMove, 0 \in Nat, 1 \in Nat DEF Typed
  <1>7. FieldsAt(m, g, type, compress, scope, all, 1 + a, (b + 1) + a)
    <2>1. \A i \in 1 .. (b + 1) - 1 : all[i + a] = t[i]
      <3>1. \A i \in 1 .. (b + 1) - 1 : i + a = a + i /\ i \in 1 .. b
        BY <1>4
      <3> QED BY <1>4, <3>1
    <2>2. b + 1 \in Int /\ a \in Nat
      BY <1>4
    <2> QED BY <1>2, <1>5, <2>1, <2>2, FieldsMove, 1 \in Nat DEF Typed
  <1>8. /\ 1 + 0 = 1 /\ (a + 1) + 0 = a + 1 /\ 1 + a = a + 1 /\ (b + 1) + a = Len(all) + 1
        /\ a + 1 \in Nat /\ Len(all) + 1 \in Nat /\ Len(all) \in Nat
    BY <1>4
  <1>9. FieldsAt(k \o m, f \o g, type, compress, scope, all, 1, Len(all) + 1)
    <2>1. /\ FieldsAt(k, f, type, compress, scope, all, 1, a + 1)
          /\ FieldsAt(m, g, type, compress, scope, all, a + 1, Len(all) + 1)
      BY <1>6, <1>7, <1>8
    <2> QED BY <1>2, <1>8, <2>1, FieldsJoin, 1 \in Nat DEF Typed
  <1>10. PieceOf(k \o m, piece, scope)
    BY <1>2, <1>3, <1>8, <1>9 DEF PieceOf
  <1> QED BY <1>10 DEF piece

-----------------------------------------------------------------------------
(* The reader finds the fields that lie in the bytes, and notices when a   *)
(* field ends too early.                                                   *)

\* A word is the unsigned form of one value of its type.
LEMMA WordAsValue ==
  ASSUME NEW t \in ProgramTypes, NEW w \in 0 .. 2^t.digits - 1
  PROVE  /\ CP!FromWord(t, w) \in CP!Values(t)
         /\ CP!Narrow(t, CP!FromWord(t, w)) = w
  <1> DEFINE m == 2^t.digits
             e == 2^(t.digits - 1)
             v == CP!FromWord(t, w)
  <1>1. /\ t.digits \in Nat /\ t.digits >= 8 /\ t.signed \in BOOLEAN
        /\ CP!DigitsAssumption /\ CP!PayloadAssumption
    BY TypesAreWide DEF CP!IsIntType
  <1>2. t.digits - 1 \in Nat /\ (t.digits - 1) + 1 = t.digits
    BY <1>1
  <1>3. m \in Nat \ {0} /\ e \in Nat \ {0} /\ m = 2 * e
    BY <1>1, <1>2, CP!PowerIsPositive, CP!PowerDoubles
  <1>4. w \in Nat /\ w < m
    BY <1>3
  <1>5. CP!Narrow(t, v) = v % m
    BY Zenon DEF CP!Narrow
  <1>6. w % m = w
    BY <1>1, <1>3, <1>4, CP!SmallIsRemainder
  <1>7. CASE ~t.signed
    <2>1. v = w
      BY <1>7 DEF CP!FromWord
    <2>2. CP!Values(t) = 0 .. m - 1
      BY <1>7 DEF CP!Values, CP!UnsignedMax
    <2> HIDE DEF m, v
    <2> QED BY <1>3, <1>4, <1>5, <1>6, <2>1, <2>2 DEF v
  <1>8. CASE t.signed
    <2>1. v = IF w >= e THEN w - m ELSE w
      BY <1>8 DEF CP!FromWord, CP!ValueBits
    <2>2. CP!Values(t) = -e .. e - 1
      BY <1>8 DEF CP!Values, CP!ValueBits
    <2> HIDE DEF m, e
    <2>3. CASE w >= e
      <3>1. v = w - m /\ v \in -e .. e - 1
        BY <1>3, <1>4, <2>1, <2>3
      <3> DEFINE q == -1
      <3>2. q \in Int /\ m * q + w = w - m
        BY <1>3, <1>4
      <3> HIDE DEF q
      <3>3. (m * q + w) % m = w
        BY <1>1, <1>3, <1>4, <3>2, CP!DivisionIsUnique
      <3> HIDE DEF v
      <3> QED BY <1>5, <2>2, <3>1, <3>2, <3>3 DEF v
    <2>4. CASE ~(w >= e)
      <3>1. v = w /\ v \in -e .. e - 1
        BY <1>3, <1>4, <2>1, <2>4
      <3> HIDE DEF v
      <3> QED BY <1>5, <1>6, <2>2, <3>1 DEF v
    <2> QED BY <2>3, <2>4
  <1> QED BY <1>1, <1>7, <1>8

\* A word within the scope is its own part of the scope.
LEMMA WithinScope ==
  ASSUME Typed, NEW scope \in Words, NEW word \in Words, Within(scope, word)
  PROVE  M!And(word, scope) = word /\ WP!And(scope, word) = word
  <1>1. /\ scope \in WP!Word /\ word \in WP!Word /\ WP!DigitsAssumption /\ WP!PayloadAssumption
    BY WordFacts
  <1>2. WP!BitsOf(word) \in SUBSET WP!BitsOf(scope)
    BY SameMasks, <1>1 DEF WP!BitsOf, Within
  <1>3. ASSUME NEW a, a \in WP!Word, WP!BitsOf(a) = WP!BitsOf(word) PROVE a = word
    BY <1>1, <1>3, WP!WordsByBits
  <1>4. /\ WP!And(word, scope) \in WP!Word
        /\ WP!BitsOf(WP!And(word, scope)) = WP!BitsOf(word) \cap WP!BitsOf(scope)
        /\ WP!And(scope, word) \in WP!Word
        /\ WP!BitsOf(WP!And(scope, word)) = WP!BitsOf(scope) \cap WP!BitsOf(word)
    BY <1>1, WP!AndOr
  <1>5. WP!And(word, scope) = word /\ WP!And(scope, word) = word
    BY <1>2, <1>3, <1>4
  <1> QED BY <1>5, SameMasks

\* A word under a scope is read back, condensed or not.
LEMMA ScopedRead ==
  ASSUME Typed, NEW scope \in Scopes, NEW f, NEW bytes, IsSequence(bytes),
         NEW from \in Nat \ {0}, NEW to \in Nat, to - 1 <= Len(bytes),
         ScopedAt(f, type, compress, scope, bytes, from, to)
  PROVE  ReadScoped(bytes, from, scope) = ReadTo(to, <<f>>)
  <1> DEFINE word == f.word
             F(w) == <<[word |-> w, text |-> <<>>]>>
  <1>1. f = [word |-> word, text |-> <<>>] /\ word \in Words /\ Within(scope, word)
    BY DEF ScopedAt, Words
  <1>2. /\ CP!DigitsAssumption /\ CP!PayloadAssumption /\ CP!IsIntType(type) /\ CP!SizeOf(type) \in Nat \ {0}
        /\ CP!IsIntType(Unsign(type)) /\ CP!Values(Unsign(type)) = Words
    BY TypesAreWide DEF Typed, Words
  <1>3. M!And(word, scope) = word /\ WP!And(scope, word) = word
    BY <1>1, WithinScope DEF Scopes
  <1>4. Len(bytes) \in Nat
    BY DEF IsSequence
  <1>5. \A w : F(w) = WordField(w) /\ WordField(w)[1].word = w
    BY DEF WordField
  <1>6. WordField(word) = <<f>>
    BY <1>1, <1>5
  <1>7. from < to
    <2>1. FieldAt("scoped", f, type, compress, scope, bytes, from, to)
      BY DEF FieldAt
    <2> QED BY <2>1, FieldMoves, from \in Nat, to \in Int DEF Typed
  <1> HIDE DEF word, F
  <1>8. CASE compress
    <2>1. PICK c \in 0 .. 2^type.digits - 1, n \in Nat \ {0} :
            /\ Condensed(type.digits, scope, word, c)
            /\ CP!HoldsDint(Unsign(type), bytes, from, c, n) /\ to = from + n
      BY <1>8 DEF ScopedAt, PackedAt, word
    <2>2. c = M!Condense(scope, word, TRUE, FALSE)
      BY <2>1, CondensedIs
    <2>3. CP!DecodeDint(Unsign(type), bytes, from) = [next |-> to, value |-> c]
      <3>1. from + n - 1 <= Len(bytes) /\ from \in Nat
        BY <2>1
      <3>2. c \in CP!Values(Unsign(type))
        BY <1>2, <2>1 DEF Words
      <3> QED BY <1>2, <1>4, <2>1, <3>1, <3>2, CP!DintReadsBack
    <2>4. ReadDint(bytes, from) = ReadTo(to, WordField(c))
      <3>1. C!DecodeDint(Unsigned, bytes, from) = [next |-> to, value |-> c]
        BY <2>3, SameCodec, WordFacts
      <3> QED BY <3>1 DEF ReadDint
    <2>5. M!Expand(scope, c, TRUE) = word
      <3>1. /\ scope \in WP!Word \ {0} /\ word \in WP!Word /\ TRUE \in BOOLEAN
            /\ WP!DigitsAssumption /\ WP!PayloadAssumption
        BY <1>1, WordFacts DEF Scopes
      <3>2. WP!Expand(scope, WP!Condense(scope, word, TRUE, FALSE), TRUE) = WP!And(scope, word)
        BY <3>1, WP!ExpandedAgain
      <3>3. c = WP!Condense(scope, word, TRUE, FALSE)
        BY <2>2, SameMasks
      <3>4. M!Expand(scope, c, TRUE) = WP!Expand(scope, c, TRUE)
        BY SameMasks
      <3> QED BY <1>3, <3>2, <3>3, <3>4
    <2>6. InsideScope(c, scope)
      BY <1>8, <2>2, <2>5 DEF InsideScope, M!ReadsAsScoped
    <2> DEFINE raw == ReadTo(to, WordField(c))
    <2>7. raw.next = to /\ raw.fields[1].word = c
      BY <1>5 DEF ReadTo
    <2>8. Scoped(raw, from, scope) = ReadTo(to, WordField(word))
      <3> HIDE DEF raw
      <3>1. /\ ~(raw.next = from) /\ InsideScope(raw.fields[1].word, scope)
            /\ M!Expand(scope, raw.fields[1].word, TRUE) = word
        <4>1. ~(raw.next = from)
          BY <1>7, <2>7
        <4> QED BY <2>5, <2>6, <2>7, <4>1, Zenon
      <3> QED BY <1>8, <2>7, <3>1, Zenon DEF Scoped
    <2> QED BY <1>6, <1>8, <2>4, <2>8 DEF ReadScoped
  <1>9. CASE ~compress
    <2> DEFINE s == CP!SizeOf(type)
               v == CP!FromWord(type, word)
    <2>1. CP!HoldsWord(bytes, from, word, s) /\ to = from + s
      BY <1>9 DEF ScopedAt, FixedAt, word
    <2>2. v \in CP!Values(type) /\ CP!Narrow(type, v) = word
      BY <1>1, WordAsValue DEF Typed, Words
    <2> HIDE DEF v
    <2>3. \A k \in 1 .. s : bytes[from + k - 1] = CP!EncodeInt(type, v)[k]
      <3> DEFINE B(k) == CP!FromByte(word, k) % CP!ByteValues
      <3>1. CP!EncodeInt(type, v) = [k \in 1 .. s |-> B(k)]
        BY <2>2, Zenon DEF CP!EncodeInt
      <3>2. \A k \in 1 .. s : bytes[from + k - 1] = B(k)
        BY <2>1 DEF CP!HoldsWord
      <3> HIDE DEF B, s
      <3> QED BY <3>1, <3>2
    <2>4. CP!DecodeInt(type, bytes, from) = v
      BY <1>2, <2>2, <2>3, CP!FixedWidthReadsBack, from \in Nat
    <2>5. M!ToUnsigned(C!DecodeInt(type, bytes, from)) = word
      BY <2>2, <2>4, SameCodec, SameMasks DEF CP!Narrow
    <2>6. C!SizeOf(type) = s /\ s \in Nat
      BY <1>2, SameCodec
    <2>7. ~(Len(bytes) - from + 1 < s)
      <3> HIDE DEF s
      <3> QED BY <1>4, <2>1, <2>6
    <2>8. ReadFixed(bytes, from, type) = ReadTo(to, WordField(word))
      BY <2>1, <2>5, <2>6, <2>7 DEF ReadFixed
    <2> DEFINE raw == ReadTo(to, WordField(word))
    <2>9. raw.next = to /\ raw.fields[1].word = word
      BY <1>5 DEF ReadTo
    <2>10. InsideScope(word, scope)
      BY <1>3, <1>9 DEF InsideScope
    <2>11. Scoped(raw, from, scope) = raw
      <3> HIDE DEF raw
      <3> QED BY <1>7, <1>9, <2>9, <2>10 DEF Scoped
    <2> QED BY <1>6, <1>9, <2>8, <2>11 DEF ReadScoped
  <1> QED BY <1>8, <1>9

\* One that has lost its last bytes is not read.
LEMMA ScopedCut ==
  ASSUME Typed, NEW scope, NEW f, NEW bytes, NEW cut, Len(cut) \in Nat,
         NEW from \in Nat \ {0}, NEW to \in Nat,
         ScopedAt(f, type, compress, scope, bytes, from, to),
         from - 1 <= Len(cut), Len(cut) <= to - 2,
         \A i \in from .. to - 1 : i <= Len(cut) => cut[i] = bytes[i]
  PROVE  ReadScoped(cut, from, scope) = ReadTo(from, <<>>)
  <1>1. /\ CP!DigitsAssumption /\ CP!PayloadAssumption /\ CP!SizeOf(type) \in Nat \ {0}
    BY TypesAreWide DEF Typed
  <1>2. ASSUME NEW raw, raw.next = from PROVE Scoped(raw, from, scope) = ReadTo(from, <<>>)
    BY <1>2 DEF Scoped
  <1>3. CASE compress
    <2>1. PICK c \in 0 .. 2^type.digits - 1, n \in Nat \ {0} :
            CP!HoldsDint(Unsign(type), bytes, from, c, n) /\ to = from + n
      BY <1>3 DEF ScopedAt, PackedAt
    <2>2. ASSUME NEW k \in from .. Len(cut) PROVE CP!Continues(cut[k])
      <3> DEFINE j == k - from + 1
                 x == CP!FromGroup(CP!Shifted(c), j)
      <3>1. k \in from .. to - 1 /\ k <= Len(cut) /\ j \in 1 .. n - 1 /\ from + j - 1 = k
        BY <2>1
      <3>2. cut[k] = bytes[from + j - 1]
        BY <3>1
      <3>3. bytes[from + j - 1] = (x % CP!Group) + CP!Group
        <4> HIDE DEF j
        <4> QED BY <2>1, <3>1 DEF CP!HoldsDint
      <3>4. CP!Group \in Nat \ {0}
        BY <1>1, CP!GroupValues
      <3>5. x \in Nat
        <4>1. CP!Shifted(c) \in Nat
          <5>1. ~(c < 0) /\ c \in Nat
            BY WordFacts DEF Words
          <5> QED BY <5>1 DEF CP!Shifted
        <4>2. j \in Nat \ {0}
          BY <3>1
        <4> HIDE DEF j
        <4> QED BY <1>1, <4>1, <4>2, CP!GroupByGroup
      <3> HIDE DEF x, j
      <3>6. x % CP!Group \in Nat
        BY <3>4, <3>5
      <3>7. (x % CP!Group) + CP!Group >= CP!Group
        BY <3>4, <3>6
      <3> QED BY <3>2, <3>3, <3>7 DEF CP!Continues
    <2>3. C!Ends(cut, from) = {}
      <3>1. CP!Ends(cut, from) = {}
        BY <2>2 DEF CP!Ends
      <3> QED BY <3>1, SameCodec
    <2>4. C!DecodeDint(Unsigned, cut, from) = C!Failed(from)
      BY <2>3, Zenon DEF C!DecodeDint
    <2>5. ReadDint(cut, from).next = from
      BY <2>4 DEF ReadDint, ReadTo, C!Failed
    <2> QED BY <1>2, <1>3, <2>5 DEF ReadScoped
  <1>4. CASE ~compress
    <2>1. to = from + CP!SizeOf(type) /\ C!SizeOf(type) = CP!SizeOf(type)
      BY <1>4, SameCodec DEF ScopedAt, FixedAt
    <2>2. Len(cut) - from + 1 < C!SizeOf(type)
      BY <1>1, <2>1
    <2>3. ReadFixed(cut, from, type).next = from
      BY <2>2 DEF ReadFixed, ReadTo
    <2> QED BY <1>2, <1>4, <2>3 DEF ReadScoped
  <1> QED BY <1>3, <1>4

\* A text is read up to its NUL, and not without it.
LEMMA TextRead ==
  ASSUME NEW f, NEW bytes, IsSequence(bytes), NEW from \in Nat \ {0}, NEW to \in Nat,
         TextAt(f, bytes, from, to)
  PROVE  /\ to - 1 <= Len(bytes) => ReadCString(bytes, from) = ReadTo(to, <<f>>)
         /\ \A cut : /\ Len(cut) \in Nat /\ from - 1 <= Len(cut) /\ Len(cut) <= to - 2
                     /\ \A i \in from .. to - 1 : i <= Len(cut) => cut[i] = bytes[i]
              => ReadCString(cut, from) = ReadTo(from, <<>>)
  <1> DEFINE n == Len(f.text)
             text == f.text
  <1>1. f = [word |-> 0, text |-> text] /\ text \in Seq(Nat \ {0}) /\ n \in Nat
    BY DEF TextAt
  <1>2. /\ to = from + n + 1 /\ bytes[to - 1] = 0
        /\ \A i \in 1 .. n : bytes[from + i - 1] = text[i]
    BY DEF TextAt
  <1>3. \A k \in from .. to - 2 : bytes[k] # 0
    <2> SUFFICES ASSUME NEW k \in from .. to - 2 PROVE bytes[k] # 0
      OBVIOUS
    <2>1. k - from + 1 \in 1 .. n /\ from + (k - from + 1) - 1 = k
      BY <1>1, <1>2
    <2>2. bytes[k] = text[k - from + 1]
      BY <1>2, <2>1
    <2> QED BY <1>1, <2>1, <2>2
  <1>4. ASSUME to - 1 <= Len(bytes) PROVE ReadCString(bytes, from) = ReadTo(to, <<f>>)
    <2> DEFINE ends == {k \in from .. Len(bytes) : bytes[k] = 0}
               end  == CHOOSE k \in ends : \A j \in ends : k <= j
    <2>1. to - 1 \in ends /\ \A k \in ends : to - 1 <= k
      <3>1. Len(bytes) \in Nat
        BY DEF IsSequence
      <3>2. to - 1 \in from .. Len(bytes)
        BY <1>1, <1>2, <1>4, <3>1
      <3>3. ASSUME NEW k \in ends PROVE to - 1 <= k
        <4>1. k \in from .. Len(bytes) /\ bytes[k] = 0
          OBVIOUS
        <4>2. ~(k <= to - 2)
          BY <1>3, <3>1, <4>1
        <4> QED BY <3>1, <4>1, <4>2
      <3> QED BY <1>2, <3>2, <3>3
    <2>2. end = to - 1
      <3>1. \A k \in ends : k \in Int
        BY DEF IsSequence
      <3> HIDE DEF ends
      <3> QED BY <2>1, <3>1
    <2>3. ReadCString(bytes, from) = ReadTo(end + 1, TextField(SubSeq(bytes, from, end - 1)))
      <3>1. ends # {}
        BY <2>1
      <3> QED BY <3>1, Zenon DEF ReadCString
    <2>4. SubSeq(bytes, from, to - 2) = text
      <3>1. PICK S : bytes \in Seq(S)
        BY DEF IsSequence
      <3> DEFINE part == SubSeq(bytes, from, to - 2)
      <3>2. part = [i \in 1 .. n |-> bytes[from + i - 1]]
        <4> DEFINE last == to - 2
        <4>1. Len(bytes) \in Nat /\ from \in 1 .. Len(bytes) + 1
          BY <1>1, <1>2, <1>4, <3>1
        <4>2. last \in Int /\ last <= Len(bytes) /\ (last - from) + 1 = n
          BY <1>1, <1>2, <1>4, <3>1
        <4> HIDE DEF last, n
        <4>3. SubSeq(bytes, from, last) = [i \in 1 .. (last - from) + 1 |-> bytes[from + i - 1]]
          BY <3>1, <4>1, <4>2
        <4> QED BY <4>2, <4>3 DEF last
      <3>3. text = [i \in 1 .. n |-> text[i]]
        BY <1>1
      <3> HIDE DEF part, text, n
      <3> QED BY <1>2, <3>2, <3>3 DEF part
    <2> HIDE DEF end, text
    <2>5. end + 1 = to /\ end - 1 = to - 2
      BY <2>2
    <2> QED BY <1>1, <2>3, <2>4, <2>5 DEF TextField
  <1>5. ASSUME NEW cut, Len(cut) \in Nat, from - 1 <= Len(cut), Len(cut) <= to - 2,
               \A i \in from .. to - 1 : i <= Len(cut) => cut[i] = bytes[i]
        PROVE  ReadCString(cut, from) = ReadTo(from, <<>>)
    <2>1. {k \in from .. Len(cut) : cut[k] = 0} = {}
      <3> SUFFICES ASSUME NEW k \in from .. Len(cut) PROVE cut[k] # 0
        OBVIOUS
      <3>1. k \in from .. to - 1 /\ k <= Len(cut) /\ k \in from .. to - 2
        BY <1>5
      <3>2. cut[k] = bytes[k]
        BY <1>5, <3>1
      <3> QED BY <1>3, <3>1, <3>2
    <2> QED BY <2>1, Zenon DEF ReadCString
  <1> QED BY <1>4, <1>5

\* A program that was cut inside of what lies from one place up to another.
CutInside(cut, bytes, from, to) ==
  /\ Len(cut) \in Nat /\ from - 1 <= Len(cut) /\ Len(cut) <= to - 2
  /\ \A i \in from .. to - 1 : i <= Len(cut) => cut[i] = bytes[i]

GotField(got, f, to) == got = ReadTo(to, <<f>>)

\* A field, whichever it is.
LEMMA FieldRead ==
  ASSUME NEW scope, NEW kind, NEW f, NEW bytes, NEW from, NEW to,
         Typed, scope \in Scopes, IsSequence(bytes), from \in Nat \ {0}, to \in Nat,
         FieldAt(kind, f, type, compress, scope, bytes, from, to)
  PROVE  /\ to - 1 <= Len(bytes) => GotField(ReadField(kind, bytes, from, scope), f, to)
         /\ \A cut : CutInside(cut, bytes, from, to) => ReadField(kind, cut, from, scope) = ReadTo(from, <<>>)
  <1>1. CASE kind = "scoped" /\ ScopedAt(f, type, compress, scope, bytes, from, to)
    <2>1. \A any : ReadField(kind, any, from, scope) = ReadScoped(any, from, scope)
      BY <1>1 DEF ReadField
    <2> QED BY <1>1, <2>1, ScopedRead, ScopedCut DEF CutInside, GotField
  <1>2. CASE kind = "text" /\ TextAt(f, bytes, from, to)
    <2>1. \A any : ReadField(kind, any, from, scope) = ReadCString(any, from)
      BY <1>2 DEF ReadField
    <2> QED BY <1>2, <2>1, TextRead DEF CutInside, GotField
  <1>3. CASE kind = "shift" /\ ShiftAt(f, type, scope, bytes, from, to)
    <2>1. \A any : ReadField(kind, any, from, scope) = ReadShift(any, from, scope)
      BY <1>3 DEF ReadField
    <2>2. /\ f = [word |-> bytes[from], text |-> <<>>] /\ to = from + 1
          /\ bytes[from] \in 0 .. type.digits - 1 /\ M!Bit(scope, bytes[from])
      BY <1>3, SameMasks DEF ShiftAt
    <2>3. type.digits \in Nat /\ Len(bytes) \in Nat
      BY WordFacts DEF IsSequence
    <2>4. ASSUME to - 1 <= Len(bytes) PROVE ReadShift(bytes, from, scope) = ReadTo(to, <<f>>)
      <3>1. from <= Len(bytes) /\ bytes[from] < type.digits
        BY <2>2, <2>3, <2>4
      <3> QED BY <2>2, <3>1 DEF ReadShift, WordField
    <2>5. ASSUME NEW cut, Len(cut) \in Nat, Len(cut) <= to - 2
          PROVE  ReadShift(cut, from, scope) = ReadTo(from, <<>>)
      <3>1. ~(from <= Len(cut))
        BY <2>2, <2>5
      <3> QED BY <3>1 DEF ReadShift
    <2> QED BY <2>1, <2>4, <2>5 DEF CutInside, GotField
  <1> QED BY <1>1, <1>2, <1>3 DEF FieldAt

\* The loop over the fields of a token.
NextField(before, kind, bytes, scope) ==
  IF before.ok THEN Then(before, ReadField(kind, bytes, before.next, scope)) ELSE before
FieldLoop(f, kinds, bytes, at, scope) ==
  f = [k \in 0 .. Len(kinds) |-> IF k = 0 THEN [ok |-> TRUE, next |-> at, fields |-> <<>>]
                                 ELSE NextField(f[k - 1], kinds[k], bytes, scope)]

\* The first m fields are read, and the one behind them, if there is one, is not.
FieldsUpTo(m, p, fields, kinds, bytes, scope) ==
  /\ \A i \in 1 .. m : /\ p[i] # p[i - 1]
                       /\ GotField(ReadField(kinds[i], bytes, p[i - 1], scope), fields[i], p[i])
  /\ m < Len(kinds) => ReadField(kinds[m + 1], bytes, p[m], scope) = ReadTo(p[m], <<>>)

\* What the loop knows after k rounds.
AfterFields(k, m, p, fields) ==
  IF k <= m THEN [ok |-> TRUE, next |-> p[k], fields |-> [i \in 1 .. k |-> fields[i]]]
  ELSE [ok |-> FALSE, next |-> p[m], fields |-> [i \in 1 .. m |-> fields[i]]]

\* One round more.
LEMMA FieldRound ==
  ASSUME NEW kinds, IsSequence(kinds), NEW bytes, NEW scope, NEW fields,
         NEW p, NEW m \in 0 .. Len(kinds), FieldsUpTo(m, p, fields, kinds, bytes, scope),
         NEW k \in 1 .. Len(kinds)
  PROVE  NextField(AfterFields(k - 1, m, p, fields), kinds[k], bytes, scope) = AfterFields(k, m, p, fields)
  <1> DEFINE Q(j) == [i \in 1 .. j |-> fields[i]]
             before == AfterFields(k - 1, m, p, fields)
  <1>1. Len(kinds) \in Nat
    BY DEF IsSequence
  <1>2. ASSUME NEW j \in Nat
        PROVE  /\ Q(j) \o <<>> = Q(j) /\ j # 0 => Q(j - 1) \o <<fields[j]>> = Q(j)
    <2> DEFINE S == {fields[i] : i \in 1 .. j}
    <2>1. \A i \in 1 .. j : fields[i] \in S
      OBVIOUS
    <2> HIDE DEF S
    <2>2. Q(j) \in Seq(S) /\ Len(Q(j)) = j
      BY <2>1
    <2>3. Q(j) \o <<>> = Q(j)
      <3> HIDE DEF Q
      <3> QED BY <2>2
    <2>4. CASE j # 0
      <3>1. Q(j - 1) \in Seq(S) /\ Len(Q(j - 1)) = j - 1 /\ fields[j] \in S
        BY <2>1, <2>4
      <3> DEFINE all == Q(j - 1) \o <<fields[j]>>
      <3>2. all \in Seq(S) /\ Len(all) = j /\ all[j] = fields[j] /\ \A i \in 1 .. j - 1 : all[i] = Q(j - 1)[i]
        <4> HIDE DEF Q
        <4> QED BY <2>4, <3>1
      <3> HIDE DEF all
      <3>3. \A i \in 1 .. j : all[i] = Q(j)[i]
        BY <3>2
      <3>4. all = Q(j)
        <4> HIDE DEF Q
        <4> QED BY <2>2, <3>2, <3>3
      <3> QED BY <2>3, <3>4 DEF all
    <2> QED BY <2>3, <2>4
  <1>3. CASE k <= m
    <2>1. k \in 1 .. m /\ k - 1 <= m /\ k - 1 \in Nat
      BY <1>1, <1>3
    <2>2. /\ p[k] # p[k - 1]
          /\ ReadField(kinds[k], bytes, p[k - 1], scope) = ReadTo(p[k], <<fields[k]>>)
      BY <2>1 DEF FieldsUpTo, GotField
    <2>3. before = [ok |-> TRUE, next |-> p[k - 1], fields |-> Q(k - 1)]
      BY <2>1 DEF AfterFields
    <2>4. Q(k - 1) \o <<fields[k]>> = Q(k)
      BY <1>2, k \in Nat, k # 0
    <2> HIDE DEF before, Q
    <2> DEFINE got == ReadField(kinds[k], bytes, before.next, scope)
    <2>5. NextField(before, kinds[k], bytes, scope)
            = [ok |-> TRUE, next |-> p[k], fields |-> Q(k - 1) \o <<fields[k]>>]
      <3>1. before.ok = TRUE /\ before.next = p[k - 1] /\ before.fields = Q(k - 1)
        BY <2>3
      <3>2. got = ReadTo(p[k], <<fields[k]>>)
        BY <2>2, <3>1
      <3>3. got.next = p[k] /\ got.fields = <<fields[k]>>
        BY <3>2 DEF ReadTo
      <3> HIDE DEF got
      <3>4. Then(before, got) = [ok |-> p[k] # p[k - 1], next |-> p[k], fields |-> Q(k - 1) \o <<fields[k]>>]
        BY <3>1, <3>3, Zenon DEF Then
      <3>5. NextField(before, kinds[k], bytes, scope) = Then(before, got)
        BY <3>1, Zenon DEF NextField, got
      <3>6. (p[k] # p[k - 1]) = TRUE
        BY <2>2
      <3> QED BY <3>4, <3>5, <3>6, Zenon
    <2> QED BY <1>3, <2>4, <2>5 DEF AfterFields, before, Q
  <1>4. CASE k = m + 1
    <2>1. k - 1 = m /\ m < Len(kinds) /\ m \in Nat /\ k - 1 <= m /\ ~(k <= m)
      BY <1>1, <1>4
    <2>2. ReadField(kinds[k], bytes, p[m], scope) = ReadTo(p[m], <<>>)
      BY <1>4, <2>1 DEF FieldsUpTo
    <2>3. before = [ok |-> TRUE, next |-> p[m], fields |-> Q(m)]
      BY <2>1 DEF AfterFields
    <2>4. Q(m) \o <<>> = Q(m)
      BY <1>2, <2>1
    <2> HIDE DEF before, Q
    <2> DEFINE got == ReadField(kinds[k], bytes, before.next, scope)
    <2>5. NextField(before, kinds[k], bytes, scope)
            = [ok |-> FALSE, next |-> p[m], fields |-> Q(m) \o <<>>]
      <3>1. before.ok = TRUE /\ before.next = p[m] /\ before.fields = Q(m)
        BY <2>3
      <3>2. got = ReadTo(p[m], <<>>)
        BY <2>2, <3>1
      <3>3. got.next = p[m] /\ got.fields = <<>>
        BY <3>2 DEF ReadTo
      <3> HIDE DEF got
      <3>4. Then(before, got) = [ok |-> p[m] # p[m], next |-> p[m], fields |-> Q(m) \o <<>>]
        BY <3>1, <3>3, Zenon DEF Then
      <3>5. NextField(before, kinds[k], bytes, scope) = Then(before, got)
        BY <3>1, Zenon DEF NextField, got
      <3>6. (p[m] # p[m]) = FALSE
        OBVIOUS
      <3> QED BY <3>4, <3>5, <3>6, Zenon
    <2> QED BY <2>1, <2>4, <2>5 DEF AfterFields, before, Q
  <1>5. CASE k > m + 1
    <2>1. ~(k - 1 <= m) /\ ~(k <= m)
      BY <1>1, <1>5
    <2>2. before = AfterFields(k, m, p, fields) /\ before.ok = FALSE
      BY <2>1 DEF AfterFields
    <2> HIDE DEF before
    <2>3. NextField(before, kinds[k], bytes, scope) = before
      BY <2>2 DEF NextField
    <2> QED BY <2>2, <2>3 DEF before
  <1> QED BY <1>1, <1>3, <1>4, <1>5

\* The fields are read if all of them are, and not otherwise.
LEMMA FieldsAreRead ==
  ASSUME NEW kinds, NEW bytes, NEW scope, NEW fields, NEW p, NEW m \in 0 .. Len(kinds),
         Typed, IsSequence(kinds), IsSequence(fields), Len(fields) = Len(kinds),
         FieldsUpTo(m, p, fields, kinds, bytes, scope)
  PROVE  /\ m = Len(kinds) => ReadFields(kinds, bytes, p[0], scope)
                                = [ok |-> TRUE, next |-> p[Len(kinds)], fields |-> fields]
         /\ m # Len(kinds) => ~ReadFields(kinds, bytes, p[0], scope).ok
  <1> DEFINE n == Len(kinds)
             A(k) == AfterFields(k, m, p, fields)
             start == [ok |-> TRUE, next |-> p[0], fields |-> <<>>]
             Loop(f) == FieldLoop(f, kinds, bytes, p[0], scope)
             read[k \in 0 .. Len(kinds)] ==
               IF k = 0 THEN [ok |-> TRUE, next |-> p[0], fields |-> <<>>]
               ELSE IF read[k - 1].ok
               THEN Then(read[k - 1], ReadField(kinds[k], bytes, read[k - 1].next, scope))
               ELSE read[k - 1]
  <1>1. n \in Nat /\ CP!DigitsAssumption /\ CP!PayloadAssumption
    BY WordFacts DEF IsSequence
  <1>2. A(0) = start
    <2>1. [i \in 1 .. 0 |-> fields[i]] = <<>>
      OBVIOUS
    <2>2. 0 <= m
      BY <1>1
    <2> QED BY <2>1, <2>2 DEF AfterFields
  <1>3. \A k \in 1 .. n : NextField(A(k - 1), kinds[k], bytes, scope) = A(k)
    BY FieldRound
  <1>4. Loop([k \in 0 .. n |-> A(k)])
    <2> DEFINE g == [k \in 0 .. n |-> A(k)]
               h == [k \in 0 .. n |-> IF k = 0 THEN start ELSE NextField(g[k - 1], kinds[k], bytes, scope)]
    <2> HIDE DEF A
    <2>1. ASSUME NEW k \in 0 .. n
          PROVE  A(k) = IF k = 0 THEN start ELSE NextField(g[k - 1], kinds[k], bytes, scope)
      <3>1. CASE k = 0
        BY <1>2, <3>1
      <3>2. CASE k # 0
        <4>1. k \in 1 .. n /\ k - 1 \in 0 .. n
          BY <1>1, <3>2
        <4>2. g[k - 1] = A(k - 1)
          BY <4>1
        <4> QED BY <1>3, <3>2, <4>1, <4>2
      <3> QED BY <3>1, <3>2
    <2>2. g = h
      <3>1. \A k \in 0 .. n : g[k] = h[k]
        BY <2>1
      <3> HIDE DEF start
      <3> QED BY <3>1
    <2> QED BY <2>2, Zenon DEF FieldLoop
  <1>5. read = CHOOSE f : Loop(f)
    BY Zenon DEF FieldLoop, NextField
  <1> HIDE DEF read
  <1>6. Loop(read)
    <2> HIDE DEF Loop, A
    <2> QED BY <1>4, <1>5, Zenon
  <1>7. /\ read[0] = start
        /\ \A k \in 1 .. n : read[k] = NextField(read[k - 1], kinds[k], bytes, scope)
    <2> HIDE DEF start
    <2>1. read = [k \in 0 .. n |-> IF k = 0 THEN start ELSE NextField(read[k - 1], kinds[k], bytes, scope)]
      BY <1>6, Zenon DEF FieldLoop, start
    <2>2. \A k \in 0 .. n : read[k] = IF k = 0 THEN start ELSE NextField(read[k - 1], kinds[k], bytes, scope)
      BY <2>1, Zenon
    <2>3. 0 \in 0 .. n /\ \A k \in 1 .. n : k \in 0 .. n /\ k # 0
      BY <1>1
    <2> QED BY <2>2, <2>3
  <1>8. read[n] = A(n)
    <2> DEFINE T == {k \in Nat : k <= n => read[k] = A(k)}
    <2> HIDE DEF A, start
    <2>1. 0 \in T
      BY <1>2, <1>7
    <2>2. ASSUME NEW k \in T PROVE k + 1 \in T
      <3> SUFFICES ASSUME k + 1 <= n PROVE read[k + 1] = A(k + 1)
        BY k + 1 \in Nat
      <3>1. k + 1 \in 1 .. n /\ (k + 1) - 1 = k /\ k <= n
        BY <1>1
      <3>2. read[k] = A(k)
        BY <3>1
      <3>3. read[k + 1] = NextField(read[(k + 1) - 1], kinds[k + 1], bytes, scope)
        BY <1>7, <3>1
      <3>4. NextField(A((k + 1) - 1), kinds[k + 1], bytes, scope) = A(k + 1)
        BY <1>3, <3>1
      <3> QED BY <3>1, <3>2, <3>3, <3>4
    <2>3. T \in SUBSET Nat
      OBVIOUS
    <2> HIDE DEF T
    <2>4. T = Nat
      BY <1>1, <2>1, <2>2, <2>3, CP!Induction
    <2> QED BY <1>1, <2>4 DEF T
  <1>9. ReadFields(kinds, bytes, p[0], scope) = read[n]
    BY Zenon DEF ReadFields, read
  <1>10. CASE m = n
    <2>1. A(n) = [ok |-> TRUE, next |-> p[n], fields |-> [i \in 1 .. n |-> fields[i]]]
      BY <1>1, <1>10 DEF AfterFields
    <2>2. [i \in 1 .. n |-> fields[i]] = fields
      BY DEF IsSequence
    <2> HIDE DEF A, n
    <2> QED BY <1>8, <1>9, <1>10, <2>1, <2>2 DEF n
  <1>11. CASE m # n
    <2>1. ~(n <= m)
      BY <1>1, <1>11
    <2>2. ~A(n).ok
      BY <2>1 DEF AfterFields
    <2> HIDE DEF A
    <2> QED BY <1>8, <1>9, <1>11, <2>2
  <1> QED BY <1>10, <1>11

\* Where one field ends the next one begins.
Path(p, kinds, fields, scope, bytes, from, to) ==
  /\ p \in [0 .. Len(kinds) -> from .. to] /\ p[0] = from /\ p[Len(kinds)] = to
  /\ \A i \in 1 .. Len(kinds) :
       FieldAt(kinds[i], fields[i], type, compress, scope, bytes, p[i - 1], p[i])

\* Fields are read where they lie, and those of a program that was cut inside
\* them are not all read.
LEMMA FieldsRead ==
  ASSUME NEW scope, NEW kinds, NEW fields, NEW bytes, NEW from, NEW to,
         Typed, scope \in Scopes, IsSequence(kinds), IsSequence(bytes),
         from \in Nat \ {0}, to \in Nat, to - 1 <= Len(bytes),
         FieldsAt(kinds, fields, type, compress, scope, bytes, from, to)
  PROVE  /\ ReadFields(kinds, bytes, from, scope) = [ok |-> TRUE, next |-> to, fields |-> fields]
         /\ \A cut : IsSequence(cut) /\ CutInside(cut, bytes, from, to)
              => ~ReadFields(kinds, cut, from, scope).ok
  <1> DEFINE n == Len(kinds)
  <1>1. n \in Nat /\ IsSequence(fields) /\ Len(fields) = n /\ CP!DigitsAssumption /\ CP!PayloadAssumption
    <2>1. n \in Nat
      BY DEF IsSequence
    <2>2. IsSequence(fields) /\ Len(fields) = n
      BY DEF FieldsAt
    <2> QED BY <2>1, <2>2, WordFacts
  <1>0. PICK p : Path(p, kinds, fields, scope, bytes, from, to)
    BY DEF FieldsAt, Path
  <1>2. /\ p[0] = from /\ p[n] = to /\ \A i \in 0 .. n : p[i] \in from .. to
        /\ \A i \in 1 .. n : FieldAt(kinds[i], fields[i], type, compress, scope, bytes, p[i - 1], p[i])
    BY <1>0 DEF Path
  <1>3. type \in ProgramTypes /\ compress \in BOOLEAN
    BY DEF Typed
  <1> HIDE DEF n
  <1>4. ASSUME NEW i \in 1 .. n
        PROVE  /\ i - 1 \in 0 .. n /\ i \in 0 .. n
               /\ p[i - 1] \in Nat \ {0} /\ p[i] \in Nat /\ p[i - 1] < p[i]
               /\ p[i] <= to /\ from <= p[i - 1]
               /\ FieldAt(kinds[i], fields[i], type, compress, scope, bytes, p[i - 1], p[i])
    <2>1. i - 1 \in 0 .. n /\ i \in 0 .. n
      BY <1>1
    <2>2. p[i - 1] \in from .. to /\ p[i] \in from .. to
      BY <1>2, <2>1
    <2>3. FieldAt(kinds[i], fields[i], type, compress, scope, bytes, p[i - 1], p[i])
      BY <1>2
    <2>4. p[i - 1] \in Nat /\ p[i] \in Int
      BY <2>2
    <2>5. p[i - 1] < p[i]
      BY <1>3, <2>3, <2>4, FieldMoves
    <2> QED BY <2>1, <2>2, <2>3, <2>5
  <1>5. ReadFields(kinds, bytes, from, scope) = [ok |-> TRUE, next |-> to, fields |-> fields]
    <2>1. ASSUME NEW i \in 1 .. n
          PROVE  /\ p[i] # p[i - 1]
                 /\ GotField(ReadField(kinds[i], bytes, p[i - 1], scope), fields[i], p[i])
      <3>1. p[i] - 1 <= Len(bytes)
        <4>1. Len(bytes) \in Nat
          BY DEF IsSequence
        <4> QED BY <1>4, <4>1
      <3> QED BY <1>4, <3>1, FieldRead
    <2>2. FieldsUpTo(n, p, fields, kinds, bytes, scope)
      BY <1>1, <2>1 DEF FieldsUpTo, n
    <2>3. n \in 0 .. Len(kinds) /\ n = Len(kinds)
      BY <1>1 DEF n
    <2>4. ReadFields(kinds, bytes, p[0], scope) = [ok |-> TRUE, next |-> p[Len(kinds)], fields |-> fields]
      <3>1. Len(fields) = Len(kinds)
        BY <1>1 DEF n
      <3>2. IsSequence(kinds) /\ IsSequence(fields) /\ Typed
        BY <1>1
      <3>3. /\ n = Len(kinds) => ReadFields(kinds, bytes, p[0], scope)
                                = [ok |-> TRUE, next |-> p[Len(kinds)], fields |-> fields]
            /\ n # Len(kinds) => ~ReadFields(kinds, bytes, p[0], scope).ok
        BY <3>1, <3>2, <2>2, <2>3, FieldsAreRead
      <3> QED BY <3>3, <2>3
    <2> QED BY <1>2, <2>3, <2>4
  <1>6. ASSUME NEW cut, IsSequence(cut), CutInside(cut, bytes, from, to)
        PROVE  ~ReadFields(kinds, cut, from, scope).ok
    <2> DEFINE l == Len(cut)
               T == {i \in Nat : i <= n => p[i] > l + 1}
    <2>1. l \in Nat /\ from - 1 <= l /\ l <= to - 2
      BY <1>6 DEF CutInside
    <2>0. \A i \in from .. to - 1 : i <= Len(cut) => cut[i] = bytes[i]
      BY <1>6 DEF CutInside
    <2>2. n \in T /\ 0 \notin T
      <3> HIDE DEF l
      <3>1. p[n] > l + 1 /\ ~(p[0] > l + 1)
        BY <1>2, <2>1
      <3> QED BY <1>1, <3>1
    <2>3. PICK e \in T : \A i \in T : e <= i
      <3>1. T \in SUBSET Nat /\ T # {}
        BY <2>2
      <3> HIDE DEF T
      <3> QED BY <1>1, <3>1, CP!LeastNatural
    <2> DEFINE m == e - 1
    <2>4. e \in 1 .. n /\ m \in 0 .. n /\ m < n /\ m + 1 = e
      <3>1. e \in Nat /\ e # 0 /\ e <= n
        BY <2>2, <2>3
      <3> QED BY <1>1, <3>1
    <2>5. p[e] > l + 1
      BY <2>3, <2>4
    <2>6. \A i \in 0 .. m : p[i] <= l + 1
      <3> SUFFICES ASSUME NEW i \in 0 .. m PROVE p[i] <= l + 1
        OBVIOUS
      <3>1. i \in Nat /\ i \in 0 .. n /\ ~(e <= i)
        <4>1. i \in Int /\ 0 <= i /\ i <= e - 1 /\ e \in Int /\ e <= n
          BY <1>1, <2>4
        <4> HIDE DEF m
        <4> QED BY <1>1, <4>1
      <3>2. i \notin T
        <4> HIDE DEF T
        <4> QED BY <2>3, <3>1
      <3>3. ~(p[i] > l + 1)
        BY <3>1, <3>2
      <3>4. p[i] \in from .. to
        BY <1>2, <3>1
      <3> QED BY <2>1, <3>3, <3>4
    <2> HIDE DEF T, l, m
    <2>7. ASSUME NEW i \in 1 .. m
          PROVE  /\ p[i] # p[i - 1]
                 /\ GotField(ReadField(kinds[i], cut, p[i - 1], scope), fields[i], p[i])
      <3>1. i \in 1 .. n /\ i \in 0 .. m
        BY <1>1, <2>4
      <3>2. /\ p[i - 1] \in Nat \ {0} /\ p[i] \in Nat /\ p[i - 1] < p[i] /\ p[i] <= to /\ from <= p[i - 1]
            /\ FieldAt(kinds[i], fields[i], type, compress, scope, bytes, p[i - 1], p[i])
        BY <1>4, <3>1
      <3>3. p[i] - 1 <= Len(cut)
        BY <2>1, <2>6, <3>1, <3>2 DEF l
      <3>4. \A j \in p[i - 1] .. p[i] - 1 : cut[j + 0] = bytes[j]
        <4>1. \A j \in p[i - 1] .. p[i] - 1 : j \in from .. to - 1 /\ j <= Len(cut) /\ j + 0 = j
          BY <2>1, <3>2, <3>3 DEF l
        <4> QED BY <2>0, <4>1
      <3>5. FieldAt(kinds[i], fields[i], type, compress, scope, cut, p[i - 1] + 0, p[i] + 0)
        <4>1. p[i - 1] \in Nat /\ p[i] \in Int /\ 0 \in Nat
          BY <3>2
        <4> QED BY <1>3, <3>2, <3>4, <4>1, FieldMoves
      <3>6. p[i - 1] + 0 = p[i - 1] /\ p[i] + 0 = p[i]
        BY <3>2
      <3>7. FieldAt(kinds[i], fields[i], type, compress, scope, cut, p[i - 1], p[i])
        BY <3>5, <3>6
      <3>8. p[i] # p[i - 1]
        BY <3>2
      <3> QED BY <1>6, <3>2, <3>3, <3>7, <3>8, FieldRead
    <2>8. ReadField(kinds[m + 1], cut, p[m], scope) = ReadTo(p[m], <<>>)
      <3>1. /\ p[e - 1] \in Nat \ {0} /\ p[e] \in Nat /\ p[e] <= to /\ from <= p[e - 1]
            /\ FieldAt(kinds[e], fields[e], type, compress, scope, bytes, p[e - 1], p[e])
        BY <1>4, <2>4
      <3>2. e - 1 = m /\ m \in 0 .. m
        BY <2>4 DEF m
      <3>3. p[e - 1] - 1 <= Len(cut) /\ Len(cut) <= p[e] - 2 /\ Len(cut) \in Nat
        BY <2>1, <2>5, <2>6, <3>1, <3>2 DEF l
      <3>4. \A i \in p[e - 1] .. p[e] - 1 : i <= Len(cut) => cut[i] = bytes[i]
        <4>1. \A i \in p[e - 1] .. p[e] - 1 : i \in from .. to - 1
          BY <3>1
        <4> QED BY <2>0, <4>1
      <3>5. CutInside(cut, bytes, p[e - 1], p[e])
        BY <3>3, <3>4 DEF CutInside
      <3>6. ReadField(kinds[e], cut, p[e - 1], scope) = ReadTo(p[e - 1], <<>>)
        BY <3>1, <3>5, FieldRead
      <3> QED BY <2>4, <3>2, <3>6
    <2>9. FieldsUpTo(m, p, fields, kinds, cut, scope)
      BY <2>7, <2>8 DEF FieldsUpTo
    <2>10. m \in 0 .. Len(kinds) /\ m # Len(kinds)
      BY <1>1, <2>4 DEF n
    <2>11. ~ReadFields(kinds, cut, p[0], scope).ok
      <3>1. Len(fields) = Len(kinds)
        BY <1>1 DEF n
      <3>2. IsSequence(kinds) /\ IsSequence(fields)
        BY <1>1
      <3>3. m # Len(kinds) => ~ReadFields(kinds, cut, p[0], scope).ok
        BY <2>9, <2>10, <3>1, <3>2, FieldsAreRead
      <3> QED BY <2>10, <3>3
    <2> QED BY <1>2, <2>11
  <1> QED BY <1>5, <1>6

-----------------------------------------------------------------------------
(* The byte of an opcode.                                                  *)

Blocks == {"Named", "GroupIf", "GroupIfNamed", "Else", "ContinueScope"}
Ops    == Blocks \cup {"Numeric", "GroupIfNumeric", "Terminate", "Pair"}

ExpectsOf(op) ==
  IF op = "Pair" THEN "pair" ELSE IF op \in {"Else", "ContinueScope"} THEN "postfix"
  ELSE IF op = "Terminate" THEN "root" ELSE "command"

HeadLen(op) == IF op = "Pair" THEN 0 ELSE 1

TokenKinds(op, flag) ==
  CASE op = "Named" -> IF flag THEN <<"scoped">> ELSE <<>>
    [] op \in {"Pair", "Numeric"} -> <<"scoped", "text">>
    [] op \in {"GroupIf", "GroupIfNamed"} -> <<"shift", "scoped">> \o IF flag THEN <<"text">> ELSE <<>>
    [] op = "GroupIfNumeric" -> (<<"shift", "scoped">> \o IF flag THEN <<"text">> ELSE <<>>) \o <<"text">>
    [] op = "Else" -> IF flag THEN <<"text">> ELSE <<>>
    [] op \in {"ContinueScope", "Terminate"} -> <<>>

\* How many bits of its byte an opcode has for the count of its block, from
\* which number it starts, and what is stored there.
CountBits(op) == CASE op \in {"Named", "GroupIf", "GroupIfNamed"} -> 4 [] op = "Else" -> 3
                   [] op = "ContinueScope" -> 5
FirstCount(op) == IF op \in {"Named", "Else", "ContinueScope"} THEN 1 ELSE 0

IsToken(token) ==
  /\ token = [op |-> token.op, flag |-> token.flag, low |-> token.low, format |-> token.format,
              items |-> token.items, fields |-> token.fields]
  /\ token.op \in Ops /\ token.flag \in BOOLEAN /\ token.low \in BOOLEAN
  /\ token.op \in {"ContinueScope", "Numeric", "Terminate", "Pair"} => token.flag = FALSE
  /\ token.op \notin {"Else", "GroupIfNumeric"} => token.low = FALSE
  /\ token.format \in 0 .. 7
  /\ token.op \notin {"Numeric", "GroupIfNumeric"} => token.format = 0

\* The opcode is written in full.
Headed(token, byte) ==
  /\ token.op \notin Blocks => token.items = 0
  /\ token.op \in Blocks => /\ token.items \in Nat
                            /\ token.items - FirstCount(token.op) \in 0 .. 2^CountBits(token.op) - 1
  /\ token.op # "Pair" =>
       byte = Opcode[token.op] + Bits(token.flag, token.low)
                + (IF token.op \in Blocks THEN token.items - FirstCount(token.op) ELSE token.format)

\* What the reader makes of it.
LEMMA HeadIsRead ==
  ASSUME NEW token, IsToken(token), token.op # "Pair", NEW byte, Headed(token, byte)
  PROVE  /\ LegalOpcode(byte, ExpectsOf(token.op))
         /\ FieldKinds(byte) = TokenKinds(token.op, token.flag)
         /\ HeadToken(byte, token.fields) = token
  <1> DEFINE op   == token.op
             flag == token.flag
             low  == token.low
             format == token.format
             items == token.items
             F == IF flag THEN 16 ELSE 0
             L == IF low THEN 8 ELSE 0
             v == byte - Opcode[op] - F - L
  <1>1. /\ op \in Ops /\ op # "Pair" /\ flag \in BOOLEAN /\ low \in BOOLEAN /\ format \in 0 .. 7
        /\ op \in {"ContinueScope", "Numeric", "Terminate"} => flag = FALSE
        /\ op \notin {"Else", "GroupIfNumeric"} => low = FALSE
        /\ op \notin {"Numeric", "GroupIfNumeric"} => format = 0
    BY DEF IsToken
  <1>2. 2^4 = 16 /\ 2^3 = 8 /\ 2^5 = 32
    BY SMT
  <1>3. /\ Opcode["Terminate"] = 0 /\ Opcode["Named"] = 32 /\ Opcode["Numeric"] = 64
        /\ Opcode["GroupIf"] = 96 /\ Opcode["GroupIfNamed"] = 128 /\ Opcode["Else"] = 160
        /\ Opcode["ContinueScope"] = 192 /\ Opcode["GroupIfNumeric"] = 224
        /\ DOMAIN Opcode = {"Terminate", "Named", "Numeric", "GroupIf", "GroupIfNamed", "Else",
                            "ContinueScope", "GroupIfNumeric"}
    BY SMT DEF Opcode
  <1>4. /\ op \in {"Named", "GroupIf", "GroupIfNamed"} => CountBits(op) = 4
        /\ op = "Else" => CountBits(op) = 3
        /\ op = "ContinueScope" => CountBits(op) = 5
    BY DEF CountBits
  <1>5. /\ op \in {"Named", "Else", "ContinueScope"} => FirstCount(op) = 1
        /\ op \in {"GroupIf", "GroupIfNamed"} => FirstCount(op) = 0
    BY DEF FirstCount
  <1>6. Bits(flag, low) = F + L
    BY DEF Bits, FlagBit, LowBit
  <1>7. /\ op \in {"Named", "GroupIf", "GroupIfNamed"} =>
             items \in Nat /\ items - FirstCount(op) \in 0 .. 15
               /\ byte = Opcode[op] + F + L + (items - FirstCount(op))
        /\ op = "Else" => items \in Nat /\ items - 1 \in 0 .. 7 /\ byte = Opcode[op] + F + L + (items - 1)
        /\ op = "ContinueScope" =>
             items \in Nat /\ items - 1 \in 0 .. 31 /\ byte = Opcode[op] + F + L + (items - 1)
        /\ op \notin Blocks => items = 0 /\ byte = Opcode[op] + F + L + format
    <2>1. op \in Blocks => items \in Nat /\ items - FirstCount(op) \in 0 .. 2^CountBits(op) - 1
      BY DEF Headed
    <2>2. op \in Blocks => byte = Opcode[op] + (F + L) + (items - FirstCount(op))
      BY <1>6 DEF Headed
    <2>3. op \notin Blocks => items = 0 /\ byte = Opcode[op] + (F + L) + format
      BY <1>6 DEF Headed
    <2>4. F \in {0, 16} /\ L \in {0, 8} /\ Opcode[op] \in Nat
      BY <1>1, <1>3 DEF Ops, Blocks
    <2>5. op \in {"Named", "GroupIf", "GroupIfNamed", "Else", "ContinueScope"} <=> op \in Blocks
      BY DEF Blocks
    <2> HIDE DEF op, items, format, F, L
    <2> DEFINE o == Opcode[op]
               i == items - FirstCount(op)
    <2>6. /\ F \in Int /\ L \in Int /\ o \in Int /\ format \in Int
          /\ op \in Blocks => i \in Int
      BY <1>1, <2>1, <2>4
    <2>7. (op \in Blocks => byte = o + (F + L) + i) /\ (op \notin Blocks => byte = o + (F + L) + format)
      BY <2>2, <2>3
    <2>8. /\ op \in {"Named", "GroupIf", "GroupIfNamed"} => i \in 0 .. 15
          /\ op = "Else" => i \in 0 .. 7
          /\ op = "ContinueScope" => i \in 0 .. 31
      <3>1. /\ op \in {"Named", "GroupIf", "GroupIfNamed"} => i \in 0 .. 16 - 1
            /\ op = "Else" => i \in 0 .. 8 - 1
            /\ op = "ContinueScope" => i \in 0 .. 32 - 1
        BY <1>2, <1>4, <2>1, <2>5, Zenon
      <3> HIDE DEF i
      <3> QED BY <3>1
    <2>10. op \in {"Else", "ContinueScope"} => i = items - 1
      BY <1>5
    <2> HIDE DEF o, i
    <2>9. (op \in Blocks => byte = o + F + L + i) /\ (op \notin Blocks => byte = o + F + L + format)
      BY <2>6, <2>7
    <2> QED BY <2>1, <2>3, <2>5, <2>8, <2>9, <2>10 DEF o, i
  <1>8. token = [op |-> op, flag |-> flag, low |-> low, format |-> format, items |-> items,
                 fields |-> token.fields]
    BY DEF IsToken
  <1>9. \A f, l \in BOOLEAN : (IF f THEN 16 ELSE 0) \in {0, 16} /\ (IF l THEN 8 ELSE 0) \in {0, 8}
    OBVIOUS
  <1>10. F = (IF flag THEN 16 ELSE 0) /\ L = (IF low THEN 8 ELSE 0) /\ F \in {0, 16} /\ L \in {0, 8}
    BY <1>1
  <1> DEFINE o == Opcode[op]
  <1> HIDE DEF op, flag, low, format, items, F, L
  <1>11. /\ byte \in Nat /\ 32 * (byte \div 32) = o
         /\ op \in {"Named", "GroupIf", "GroupIfNamed"} => (byte % 16) + FirstCount(op) = items
         /\ op = "Else" => (byte % 8) + 1 = items
         /\ op = "ContinueScope" => (byte % 32) + 1 = items
         /\ op \in {"Numeric", "GroupIfNumeric"} => byte % 8 = format
         /\ op # "ContinueScope" => ((byte \div 16) % 2 = 1 <=> flag)
         /\ op \in {"Numeric", "Else", "GroupIfNumeric"} => ((byte \div 8) % 2 = 1 <=> low)
         /\ op = "Terminate" => byte = 0
    <2>1. CASE op \in {"Named", "GroupIf", "GroupIfNamed"}
      <3>1. o \in {32, 96, 128} /\ L = 0 /\ items - FirstCount(op) \in 0 .. 15 /\ FirstCount(op) \in {0, 1}
            /\ byte = o + F + (items - FirstCount(op)) /\ items \in Nat
        BY <1>1, <1>3, <1>5, <1>7, <1>10, <2>1
      <3> HIDE DEF o
      <3>2. byte \in Nat /\ 32 * (byte \div 32) = o /\ (byte % 16) + FirstCount(op) = items
        BY <1>10, <3>1
      <3>3. (byte \div 16) % 2 = 1 <=> flag
        BY <1>1, <1>10, <3>1
      <3> QED BY <2>1, <3>2, <3>3
    <2>2. CASE op = "Else"
      <3>1. o = 160 /\ items - 1 \in 0 .. 7 /\ byte = o + F + L + (items - 1) /\ items \in Nat
        BY <1>3, <1>7, <1>10, <2>2
      <3> HIDE DEF o
      <3>2. byte \in Nat /\ 32 * (byte \div 32) = o /\ (byte % 8) + 1 = items
        BY <1>10, <3>1
      <3>3. ((byte \div 16) % 2 = 1 <=> flag) /\ ((byte \div 8) % 2 = 1 <=> low)
        BY <1>1, <1>10, <3>1
      <3> QED BY <2>2, <3>2, <3>3
    <2>3. CASE op = "ContinueScope"
      <3>1. o = 192 /\ items - 1 \in 0 .. 31 /\ byte = o + (items - 1) /\ items \in Nat
        BY <1>1, <1>3, <1>7, <1>10, <2>3
      <3> HIDE DEF o
      <3> QED BY <2>3, <3>1
    <2>4. CASE op \in {"Numeric", "GroupIfNumeric", "Terminate"}
      <3>1. o \in {0, 64, 224} /\ byte = o + F + L + format /\ items = 0
        <4>1. op \notin Blocks
          BY <2>4 DEF Blocks
        <4> QED BY <1>3, <1>7, <2>4, <4>1
      <3>2. op = "Terminate" => byte = 0
        BY <1>1, <1>3, <1>10, <3>1
      <3> HIDE DEF o
      <3>3. byte \in Nat /\ 32 * (byte \div 32) = o /\ byte % 8 = format
        BY <1>1, <1>10, <3>1
      <3>4. ((byte \div 16) % 2 = 1 <=> flag) /\ ((byte \div 8) % 2 = 1 <=> low)
        BY <1>1, <1>10, <3>1
      <3> QED BY <2>4, <3>2, <3>3, <3>4
    <2> QED BY <1>1, <2>1, <2>2, <2>3, <2>4 DEF Ops, Blocks
  <1>12. OpOf(byte) = op
    <2>1. op \in DOMAIN Opcode
      BY <1>1, <1>3 DEF Ops, Blocks
    <2>2. \A other \in DOMAIN Opcode : Opcode[other] = o => other = op
      BY <1>3, <2>1 DEF o
    <2>3. \A other \in DOMAIN Opcode : Opcode[other] = 32 * (byte \div 32) <=> other = op
      BY <1>11, <2>1, <2>2 DEF o
    <2> QED BY <2>1, <2>3 DEF OpOf
  <1>13. (Flag(byte) <=> (byte \div 16) % 2 = 1) /\ (Low(byte) <=> (byte \div 8) % 2 = 1)
    BY DEF Flag, Low, FlagBit, LowBit
  <1>14. /\ op # "ContinueScope" => (Flag(byte) <=> flag)
         /\ op \in {"Numeric", "Else", "GroupIfNumeric"} => (Low(byte) <=> low)
    BY <1>11, <1>13
  <1>15. LegalOpcode(byte, ExpectsOf(op))
    <2>1. op = "Numeric" => ~Flag(byte) /\ ~Low(byte)
      BY <1>1, <1>14
    <2>2. ExpectsOf(op) = "postfix" <=> op \in {"Else", "ContinueScope"}
      BY <1>1 DEF ExpectsOf
    <2>3. op = "Terminate" => ExpectsOf(op) = "root" /\ byte = Opcode.Terminate
      BY <1>3, <1>11 DEF ExpectsOf
    <2> QED BY <1>12, <2>1, <2>2, <2>3 DEF LegalOpcode
  <1>16. FieldKinds(byte) = TokenKinds(op, flag)
    <2>1. IfKinds(byte) = <<"shift", "scoped">> \o IF Flag(byte) THEN <<"text">> ELSE <<>>
      BY DEF IfKinds
    <2>2. CASE op = "ContinueScope" \/ op = "Terminate"
      BY <1>12, <2>2 DEF FieldKinds, TokenKinds
    <2>3. CASE op \in {"GroupIf", "GroupIfNamed"}
      <3>1. FieldKinds(byte) = IfKinds(byte)
        BY <1>12, <2>3 DEF FieldKinds
      <3>2. TokenKinds(op, flag) = <<"shift", "scoped">> \o IF flag THEN <<"text">> ELSE <<>>
        BY <2>3 DEF TokenKinds
      <3>3. Flag(byte) <=> flag
        BY <1>14, <2>3
      <3> QED BY <1>1, <2>1, <3>1, <3>2, <3>3, Zenon
    <2>4. CASE op = "GroupIfNumeric"
      <3>1. FieldKinds(byte) = IfKinds(byte) \o <<"text">>
        BY <1>12, <2>4 DEF FieldKinds
      <3>2. TokenKinds(op, flag) = (<<"shift", "scoped">> \o IF flag THEN <<"text">> ELSE <<>>) \o <<"text">>
        BY <2>4 DEF TokenKinds
      <3>3. Flag(byte) <=> flag
        BY <1>14, <2>4
      <3> QED BY <1>1, <2>1, <3>1, <3>2, <3>3, Zenon
    <2>5. CASE op \in {"Named", "Else", "Numeric"}
      <3>1. Flag(byte) <=> flag
        BY <1>14, <2>5
      <3> QED BY <1>1, <1>12, <2>5, <3>1 DEF FieldKinds, TokenKinds
    <2> QED BY <1>1, <2>2, <2>3, <2>4, <2>5 DEF Ops, Blocks
  <1>17. ItemsOf(byte) = items
    <2>1. CASE op \in {"Named", "GroupIf", "GroupIfNamed"}
      <3>1. byte % 16 \in Int
        BY <1>11
      <3>2. op \in {"GroupIf", "GroupIfNamed"} => byte % 16 = items
        BY <1>5, <1>11, <2>1, <3>1
      <3>3. op = "Named" => (byte % 16) + 1 = items
        BY <1>5, <1>11, <2>1
      <3> QED BY <1>12, <2>1, <3>2, <3>3 DEF ItemsOf
    <2>2. CASE op \in {"Else", "ContinueScope"}
      BY <1>11, <1>12, <2>2 DEF ItemsOf
    <2>3. CASE op \in {"Numeric", "GroupIfNumeric", "Terminate"}
      <3>1. items = 0
        BY <1>7, <2>3 DEF Blocks
      <3> QED BY <1>12, <2>3, <3>1 DEF ItemsOf
    <2> QED BY <1>1, <2>1, <2>2, <2>3 DEF Ops, Blocks
  <1>18. (op # "ContinueScope" /\ Flag(byte)) = flag
    BY <1>1, <1>14
  <1>19. (HasLow(op) /\ Low(byte)) = low
    BY <1>1, <1>14 DEF HasLow
  <1>20. (IF HasFormat(op) THEN byte % 8 ELSE 0) = format
    BY <1>1, <1>11 DEF HasFormat
  <1>21. HeadToken(byte, token.fields) = token
    <2>1. HeadToken(byte, token.fields)
            = [op |-> op, flag |-> (op # "ContinueScope" /\ Flag(byte)), low |-> (HasLow(op) /\ Low(byte)),
               format |-> IF HasFormat(op) THEN byte % 8 ELSE 0, items |-> ItemsOf(byte),
               fields |-> token.fields]
      BY <1>12, Zenon DEF HeadToken
    <2> QED BY <1>8, <1>17, <1>18, <1>19, <1>20, <2>1, Zenon
  <1> QED BY <1>15, <1>16, <1>21 DEF op, flag

-----------------------------------------------------------------------------
(* The inductive invariant: where the tokens lie, and what is left to do.  *)

\* Where token k ends.
EndIn(tokens, bytes, k) == IF k < Len(tokens) THEN tokens[k + 1].at ELSE Len(bytes) + 1

\* A token with its fields, up to the byte where the next one begins.
Placed(w, end, t, packed, bytes) ==
  /\ w = [at |-> w.at, expects |-> w.expects, scope |-> w.scope, token |-> w.token]
  /\ w.at \in Nat /\ w.at >= 2 /\ w.at < end
  /\ w.scope \in 0 .. 2^t.digits - 1 /\ w.scope # 0
  /\ IsToken(w.token) /\ w.expects = ExpectsOf(w.token.op)
  /\ FieldsAt(TokenKinds(w.token.op, w.token.flag), w.token.fields, t, packed, w.scope, bytes,
              w.at + HeadLen(w.token.op), end)

\* Tokens one behind the other.
Placement(tokens, t, packed, bytes) ==
  /\ IsSequence(tokens)
  /\ \A k \in 1 .. Len(tokens) :
       /\ Placed(tokens[k], EndIn(tokens, bytes, k), t, packed, bytes)
       /\ \A j \in 1 .. k - 1 : tokens[j].at < tokens[k].at

\* A token's opcode is written in full, unless a block waits to patch it.
Waits(blocks, k) == \E j \in 1 .. Len(blocks) : blocks[j].entry = k
HeadsDone(tokens, blocks, bytes) ==
  \A k \in 1 .. Len(tokens) : Waits(blocks, k) \/ Headed(tokens[k].token, bytes[tokens[k].at])

\* A block that waits to patch the opcode of a token.
BlockOf(b, tokens, t) ==
  /\ b.op \in Blocks /\ b.entry \in 1 .. Len(tokens)
  /\ tokens[b.entry].at = b.pc /\ tokens[b.entry].token.op = b.op
  /\ b.bits = Opcode[b.op] + Bits(tokens[b.entry].token.flag, tokens[b.entry].token.low)
  /\ b.scope \in 0 .. 2^t.digits - 1 /\ b.scope # 0
  /\ b.items \in Nat /\ b.items <= Limit(b)
BlocksOf(blocks, tokens, t) == \A j \in 1 .. Len(blocks) : BlockOf(blocks[j], tokens, t)

HeaderIn(bytes, t, packed) ==
  /\ Len(bytes) >= 1
  /\ bytes[1] = StorageTypeOf(t) + IF packed THEN CompressFlag ELSE 0

\* Beside the cursors, and together with them.
TokenInv ==
  /\ Typed /\ HeaderIn(out, type, compress)
  /\ Placement(written, type, compress, out)
  /\ HeadsDone(written, open, out)
  /\ BlocksOf(open, written, type)
  /\ last_if.mask \in 0 .. 2^type.digits - 1
  /\ phase = "done" => open = <<>>

TInv == BInv /\ TokenInv

-----------------------------------------------------------------------------
(* What a token more, or more bytes, leave as it is.                       *)

\* All tokens begin before the end.
LEMMA BeginInside ==
  ASSUME NEW tokens, NEW t, NEW packed, NEW bytes, Placement(tokens, t, packed, bytes), Len(bytes) \in Nat,
         NEW k \in 1 .. Len(tokens)
  PROVE  /\ tokens[k].at \in Nat /\ tokens[k].at >= 2 /\ tokens[k].at <= Len(bytes)
         /\ EndIn(tokens, bytes, k) \in Nat /\ tokens[k].at < EndIn(tokens, bytes, k)
         /\ EndIn(tokens, bytes, k) <= Len(bytes) + 1
  <1> DEFINE n == Len(tokens)
             At(i) == tokens[i].at
             E(i) == EndIn(tokens, bytes, i)
  <1>1. n \in Nat
    BY DEF Placement, IsSequence
  <1>2. \A i \in 1 .. n : At(i) \in Nat /\ At(i) >= 2 /\ At(i) < E(i)
    BY DEF Placement, Placed
  <1>3. \A i \in 1 .. n : \A j \in 1 .. i - 1 : At(j) < At(i)
    BY DEF Placement
  <1>4. \A i \in 1 .. n : E(i) = IF i < n THEN At(i + 1) ELSE Len(bytes) + 1
    BY DEF EndIn
  <1> HIDE DEF n, At, E
  <1>5. At(n) <= Len(bytes)
    <2>1. n \in 1 .. n
      BY <1>1 DEF n
    <2>2. E(n) = Len(bytes) + 1
      BY <1>1, <1>4, <2>1
    <2> QED BY <1>2, <2>1, <2>2
  <1>6. \A i \in 1 .. n : At(i) <= Len(bytes)
    <2> SUFFICES ASSUME NEW i \in 1 .. n PROVE At(i) <= Len(bytes)
      OBVIOUS
    <2>1. CASE i = n
      BY <1>5, <2>1
    <2>2. CASE i # n
      <3>1. n \in 1 .. n /\ i \in 1 .. n - 1
        BY <1>1, <2>2
      <3>2. At(i) < At(n)
        BY <1>3, <3>1
      <3> QED BY <1>2, <1>5, <3>1, <3>2
    <2> QED BY <2>1, <2>2
  <1>7. k \in 1 .. n
    BY DEF n
  <1>8. E(k) \in Nat /\ E(k) <= Len(bytes) + 1
    <2>1. CASE k < n
      <3>1. k + 1 \in 1 .. n
        BY <1>1, <1>7, <2>1
      <3>2. E(k) = At(k + 1) /\ At(k + 1) \in Nat /\ At(k + 1) <= Len(bytes)
        BY <1>2, <1>4, <1>6, <1>7, <2>1, <3>1
      <3> QED BY <3>2
    <2>2. CASE ~(k < n)
      BY <1>4, <1>7, <2>2
    <2> QED BY <2>1, <2>2
  <1> QED BY <1>2, <1>6, <1>7, <1>8 DEF At, E

\* The kinds of the fields are listed.
LEMMA KindsAreSequences ==
  ASSUME NEW op \in Ops, NEW flag PROVE IsSequence(TokenKinds(op, flag))
  <1>1. /\ IsSequence(<<>>) /\ IsSequence(<<"scoped">>) /\ IsSequence(<<"text">>)
        /\ IsSequence(<<"shift">>)
    BY EmptySequence, Single
  <1>2. IsSequence(<<"scoped", "text">>) /\ IsSequence(<<"shift", "scoped">>)
    <2>1. <<"scoped", "text">> \in Seq({"scoped", "text"}) /\ <<"shift", "scoped">> \in Seq({"shift", "scoped"})
      OBVIOUS
    <2> QED BY <2>1 DEF IsSequence
  <1> DEFINE labelled == <<"shift", "scoped">> \o IF flag THEN <<"text">> ELSE <<>>
  <1>3. IsSequence(IF flag THEN <<"text">> ELSE <<>>)
    BY <1>1, Zenon
  <1>4. IsSequence(labelled)
    BY <1>2, <1>3, Concatenated, Zenon
  <1>5. IsSequence(labelled \o <<"text">>)
    BY <1>1, <1>4, Concatenated, Zenon
  <1>6. IsSequence(IF flag THEN <<"scoped">> ELSE <<>>)
    BY <1>1, Zenon
  <1> HIDE DEF IsSequence
  <1> QED BY <1>1, <1>2, <1>3, <1>4, <1>5, <1>6, Zenon DEF TokenKinds, Ops, Blocks

\* Tokens lie in other bytes as well if those only differ in their opcodes.
LEMMA PlacedAgain ==
  ASSUME NEW w, NEW end, NEW t, NEW packed, NEW bytes, NEW other,
         t \in ProgramTypes, packed \in BOOLEAN, end \in Nat, Placed(w, end, t, packed, bytes),
         \A i \in w.at + HeadLen(w.token.op) .. end - 1 : other[i] = bytes[i]
  PROVE  Placed(w, end, t, packed, other)
  <1> DEFINE kinds  == TokenKinds(w.token.op, w.token.flag)
             fields == w.token.fields
             from   == w.at + HeadLen(w.token.op)
  <1>1. /\ FieldsAt(kinds, fields, t, packed, w.scope, bytes, from, end) /\ from \in Nat
    BY DEF Placed, HeadLen
  <1>2. IsSequence(kinds)
    BY KindsAreSequences DEF Placed, IsToken
  <1>3. \A i \in from .. end - 1 : other[i + 0] = bytes[i]
    <2>1. \A i \in from .. end - 1 : i + 0 = i /\ other[i] = bytes[i]
      BY <1>1
    <2> QED BY <2>1
  <1> HIDE DEF kinds, fields, from
  <1>4. FieldsAt(kinds, fields, t, packed, w.scope, other, from + 0, end + 0)
    <2>1. 0 \in Nat /\ end \in Int
      OBVIOUS
    <2> QED BY <1>1, <1>2, <1>3, <2>1, FieldsMove
  <1>5. from + 0 = from /\ end + 0 = end
    BY <1>1
  <1>6. FieldsAt(kinds, fields, t, packed, w.scope, other, from, end)
    BY <1>4, <1>5
  <1> QED BY <1>6 DEF Placed, kinds, fields, from

\* Bytes behind other bytes, and one more token.
Keeps(more, bytes) ==
  /\ Len(bytes) \in Nat /\ Len(more) \in Nat
  /\ \A i \in 1 .. Len(bytes) : more[i] = bytes[i]
Extended(next, tokens, w) == next = Append(tokens, w)
Behind(next, tokens, w) ==
  /\ Len(tokens) \in Nat /\ Len(next) = Len(tokens) + 1 /\ next[Len(tokens) + 1] = w
  /\ \A k \in 1 .. Len(tokens) : next[k] = tokens[k]

\* One more token at the end.
LEMMA OneMoreToken ==
  ASSUME NEW tokens, NEW t, NEW packed, NEW bytes, NEW more, NEW w, NEW next,
         Extended(next, tokens, w), t \in ProgramTypes, packed \in BOOLEAN,
         Placement(tokens, t, packed, bytes), Keeps(more, bytes),
         w.at = Len(bytes) + 1, Placed(w, Len(more) + 1, t, packed, more)
  PROVE  Placement(next, t, packed, more) /\ Behind(next, tokens, w)
  <1> DEFINE n == Len(tokens)
  <1>0. /\ next = Append(tokens, w) /\ Len(bytes) \in Nat /\ Len(more) \in Nat
        /\ \A i \in 1 .. Len(bytes) : more[i] = bytes[i]
    BY DEF Extended, Keeps
  <1>1. /\ IsSequence(next) /\ n \in Nat /\ Len(next) = n + 1 /\ next[n + 1] = w
        /\ \A k \in 1 .. n : next[k] = tokens[k]
    <2>1. PICK S : tokens \in Seq(S)
      BY DEF Placement, IsSequence
    <2>2. tokens \in Seq(S \cup {w})
      BY <2>1
    <2>3. next \in Seq(S \cup {w})
      BY <1>0, <2>2
    <2> QED BY <1>0, <2>2, <2>3 DEF IsSequence
  <1> HIDE DEF n
  <1>2. \A k \in 1 .. n : tokens[k].at \in Nat /\ tokens[k].at >= 2 /\ tokens[k].at <= Len(bytes)
                          /\ EndIn(tokens, bytes, k) \in Nat /\ EndIn(tokens, bytes, k) <= Len(bytes) + 1
    BY <1>0, BeginInside DEF n
  <1>3. ASSUME NEW k \in 1 .. n
        PROVE  EndIn(next, more, k) = EndIn(tokens, bytes, k)
    <2>1. k < Len(next)
      BY <1>1
    <2>2. CASE k < n
      <3>1. k + 1 \in 1 .. n
        BY <1>1, <2>2
      <3> QED BY <1>1, <2>1, <2>2, <3>1 DEF EndIn, n
    <2>3. CASE ~(k < n)
      <3>1. k + 1 = n + 1
        BY <1>1, <2>3
      <3>2. EndIn(next, more, k) = next[n + 1].at
        BY <2>1, <3>1 DEF EndIn
      <3>3. EndIn(tokens, bytes, k) = Len(bytes) + 1
        BY <2>3 DEF EndIn, n
      <3> QED BY <1>1, <3>2, <3>3
    <2> QED BY <2>2, <2>3
  <1>4. ASSUME NEW k \in 1 .. Len(next)
        PROVE  /\ Placed(next[k], EndIn(next, more, k), t, packed, more)
               /\ \A j \in 1 .. k - 1 : next[j].at < next[k].at
    <2>1. CASE k = n + 1
      <3>1. EndIn(next, more, k) = Len(more) + 1
        BY <1>1, <2>1 DEF EndIn
      <3>2. ASSUME NEW j \in 1 .. k - 1 PROVE next[j].at < next[k].at
        <4>1. j \in 1 .. n
          BY <1>1, <2>1
        <4> QED BY <1>0, <1>1, <1>2, <2>1, <4>1
      <3> QED BY <1>0, <1>1, <2>1, <3>1, <3>2
    <2>2. CASE k # n + 1
      <3>1. k \in 1 .. n
        BY <1>1, <2>2
      <3> DEFINE u == tokens[k]
                 end == EndIn(tokens, bytes, k)
      <3>2. Placed(u, end, t, packed, bytes) /\ end \in Nat /\ end <= Len(bytes) + 1
            /\ u.at \in Nat /\ u.at >= 2 /\ HeadLen(u.token.op) \in Nat
        BY <1>2, <3>1 DEF Placement, n, HeadLen
      <3> HIDE DEF u, end
      <3>3. \A i \in u.at + HeadLen(u.token.op) .. end - 1 : more[i] = bytes[i]
        <4>1. \A i \in u.at + HeadLen(u.token.op) .. end - 1 : i \in 1 .. Len(bytes)
          BY <1>0, <3>2
        <4> QED BY <1>0, <4>1
      <3>4. Placed(u, end, t, packed, more)
        BY <3>2, <3>3, PlacedAgain
      <3>5. \A j \in 1 .. k - 1 : next[j].at < next[k].at
        <4>1. \A j \in 1 .. k - 1 : j \in 1 .. n /\ tokens[j].at < tokens[k].at
          BY <1>1, <3>1 DEF Placement, n
        <4> QED BY <1>1, <3>1, <4>1
      <3> QED BY <1>1, <1>3, <3>1, <3>4, <3>5 DEF u, end
    <2> QED BY <2>1, <2>2
  <1>5. Placement(next, t, packed, more)
    BY <1>1, <1>4 DEF Placement
  <1> QED BY <1>1, <1>5 DEF n, Behind

-----------------------------------------------------------------------------
(* Words that are put together, and masks in a scope.                      *)

\* Numbers without a common bit are added by or.
LEMMA OrAdds ==
  ASSUME NEW k, NEW q, NEW v, Typed, k \in Nat, q \in Nat, v \in Nat, v < 2^k, 2^k * q + v \in 0 .. 255
  PROVE  M!Or(v, 2^k * q) = 2^k * q + v /\ M!Or(2^k * q, v) = 2^k * q + v
  <1> DEFINE x == 2^k * q
  <1>1. /\ CP!DigitsAssumption /\ CP!PayloadAssumption /\ WP!DigitsAssumption /\ WP!PayloadAssumption
        /\ 0 .. 255 \subseteq Words /\ Words = WP!Word /\ type.digits \in Nat
    BY WordFacts
  <1>2. 2^k \in Nat \ {0}
    BY <1>1, CP!PowerIsPositive
  <1>3. x \in Nat /\ x + 0 = x
    <2>1. \A a, b \in Nat : a * b \in Nat /\ (a * b) + 0 = a * b
      OBVIOUS
    <2> QED BY <1>2, <2>1
  <1>4. \A w \in Nat : w < 2^k => \A i \in Nat :
          WP!Bit(x + w, i) <=> IF i < k THEN WP!Bit(w, i) ELSE WP!Bit(q, i - k)
    BY <1>1, WP!Joined
  <1>5. 0 < 2^k /\ 0 \in Nat
    BY <1>2
  <1>6. \A i \in Nat : WP!Bit(x, i) <=> IF i < k THEN WP!Bit(0, i) ELSE WP!Bit(q, i - k)
    <2>1. \A i \in Nat : WP!Bit(x + 0, i) <=> IF i < k THEN WP!Bit(0, i) ELSE WP!Bit(q, i - k)
      BY <1>4, <1>5
    <2> HIDE DEF x
    <2> QED BY <1>3, <2>1
  <1> HIDE DEF x
  <1>7. \A i \in Nat : ~WP!Bit(0, i)
    BY <1>1, WP!ZeroHasNoBits
  <1>8. \A i \in Nat : k <= i => ~WP!Bit(v, i)
    BY <1>1, WP!NoBitsAbove
  <1>9. \A i \in Nat : WP!Bit(x + v, i) <=> WP!Bit(x, i) \/ WP!Bit(v, i)
    <2> SUFFICES ASSUME NEW i \in Nat PROVE WP!Bit(x + v, i) <=> WP!Bit(x, i) \/ WP!Bit(v, i)
      OBVIOUS
    <2>1. CASE i < k
      <3>1. WP!Bit(x + v, i) <=> WP!Bit(v, i)
        BY <1>4, <2>1
      <3>2. ~WP!Bit(x, i)
        BY <1>6, <1>7, <2>1
      <3> QED BY <3>1, <3>2
    <2>2. CASE ~(i < k)
      <3>1. WP!Bit(x + v, i) <=> WP!Bit(q, i - k)
        BY <1>4, <2>2
      <3>2. WP!Bit(x, i) <=> WP!Bit(q, i - k)
        BY <1>6, <2>2
      <3>3. ~WP!Bit(v, i)
        BY <1>8, <2>2
      <3> QED BY <3>1, <3>2, <3>3
    <2> QED BY <2>1, <2>2
  <1>10. x + v \in WP!Word
    BY <1>1 DEF x
  <1>11. \A r : r \in WP!Word /\ WP!BitsOf(r) = WP!BitsOf(x) \cup WP!BitsOf(v) => r = x + v
    <2> SUFFICES ASSUME NEW r, r \in WP!Word, WP!BitsOf(r) = WP!BitsOf(x) \cup WP!BitsOf(v) PROVE r = x + v
      OBVIOUS
    <2> DEFINE d == type.digits
    <2>1. \A i \in 0 .. d - 1 : WP!Bit(r, i) <=> WP!Bit(x, i) \/ WP!Bit(v, i)
      BY DEF WP!BitsOf
    <2>2. r \in Nat /\ r < 2^d /\ x + v \in Nat /\ x + v < 2^d
      BY <1>1, <1>10, WordFacts
    <2>3. d \in Nat
      BY <1>1
    <2>4. \A i \in Nat : d <= i => ~WP!Bit(r, i) /\ ~WP!Bit(x + v, i)
      BY <1>1, <2>2, <2>3, WP!NoBitsAbove
    <2>5. \A i \in Nat : WP!Bit(r, i) <=> WP!Bit(x + v, i)
      <3> HIDE DEF d
      <3>1. \A i \in Nat : i \in 0 .. d - 1 \/ d <= i
        BY <2>3
      <3> QED BY <1>9, <2>1, <2>4, <3>1
    <2> QED BY <1>1, <1>10, <2>5, WP!SameWord
  <1>12. /\ WP!Or(v, x) \in WP!Word /\ WP!BitsOf(WP!Or(v, x)) = WP!BitsOf(v) \cup WP!BitsOf(x)
         /\ WP!Or(x, v) \in WP!Word /\ WP!BitsOf(WP!Or(x, v)) = WP!BitsOf(x) \cup WP!BitsOf(v)
    BY <1>1, WP!AndOr
  <1>13. WP!BitsOf(v) \cup WP!BitsOf(x) = WP!BitsOf(x) \cup WP!BitsOf(v)
    OBVIOUS
  <1>14. WP!Or(v, x) = x + v /\ WP!Or(x, v) = x + v
    BY <1>11, <1>12, <1>13
  <1> QED BY <1>14, SameMasks DEF x

\* Nothing is added to what is reserved.
LEMMA OrNothing ==
  ASSUME NEW v, Typed, v \in 0 .. 31 PROVE M!Or(0, v) = v
  <1>1. 2^5 = 32
    BY SMT
  <1>2. 2^5 * 0 + v = v /\ 2^5 * 0 = 0 /\ v < 2^5 /\ v \in Nat /\ v \in 0 .. 255
    BY <1>1
  <1>3. 5 \in Nat /\ 0 \in Nat
    OBVIOUS
  <1>4. 2^5 * 0 + v \in 0 .. 255
    BY <1>2
  <1>5. M!Or(2^5 * 0, v) = 2^5 * 0 + v
    BY <1>2, <1>3, <1>4, OrAdds
  <1> QED BY <1>2, <1>5, Zenon

\* What is cut to a scope lies within it, and a bit of a scope is a bit of a word.
LEMMA ScopeFacts ==
  ASSUME NEW scope, Typed, scope \in Scopes
  PROVE  /\ \A x : M!And(scope, x) \in Words /\ Within(scope, M!And(scope, x))
         /\ \A x : M!And(scope, x) # 0 => M!And(scope, x) \in Scopes
         /\ \A shift \in Nat : M!Bit(scope, shift) => shift \in 0 .. type.digits - 1 /\ CP!Bit(scope, shift)
  <1>1. /\ WP!DigitsAssumption /\ WP!PayloadAssumption /\ Words = WP!Word /\ type.digits \in Nat
        /\ scope \in Nat /\ scope < 2^type.digits /\ \A v \in Words : v \in Nat /\ v < 2^type.digits
    BY WordFacts DEF Scopes
  <1>2. ASSUME NEW x PROVE M!And(scope, x) \in Words /\ Within(scope, M!And(scope, x))
    <2> DEFINE r == WP!And(scope, x)
    <2>1. r \in WP!Word /\ WP!BitsOf(r) = WP!BitsOf(scope) \cap WP!BitsOf(x)
      BY <1>1, WP!AndOr
    <2>2. \A i \in 0 .. type.digits - 1 : WP!Bit(r, i) => WP!Bit(scope, i)
      BY <2>1 DEF WP!BitsOf
    <2>3. r \in Nat /\ r < 2^type.digits
      BY <1>1, <2>1
    <2> HIDE DEF r
    <2>4. \A i \in Nat : type.digits <= i => ~WP!Bit(r, i)
      BY <1>1, <2>3, WP!NoBitsAbove
    <2>5. \A i \in Nat : i \in 0 .. type.digits - 1 \/ type.digits <= i
      BY <1>1
    <2>6. \A i \in Nat : WP!Bit(r, i) => WP!Bit(scope, i)
      BY <2>2, <2>4, <2>5
    <2>7. Within(scope, r)
      BY <2>6, SameMasks DEF Within
    <2>8. M!And(scope, x) = r
      BY SameMasks DEF r
    <2> QED BY <1>1, <2>1, <2>7, <2>8
  <1>3. ASSUME NEW shift \in Nat, M!Bit(scope, shift)
        PROVE  shift \in 0 .. type.digits - 1 /\ CP!Bit(scope, shift)
    <2>1. WP!Bit(scope, shift) /\ CP!Bit(scope, shift)
      BY <1>3, SameMasks
    <2>2. ~(type.digits <= shift)
      BY <1>1, <2>1, WP!NoBitsAbove
    <2> QED BY <1>1, <2>1, <2>2
  <1> QED BY <1>2, <1>3 DEF Scopes

\* The scope of what is written next.
LEMMA ScopeIsOne ==
  ASSUME BInv, Typed, BlocksOf(open, written, type) PROVE Scope \in Scopes
  <1> DEFINE m == 2^type.digits
  <1>1. m \in Nat /\ m >= 2
    <2>1. m \in Nat /\ 256 <= m
      BY TypesAreWide DEF Typed
    <2> HIDE DEF m
    <2> QED BY <2>1, SMT
  <1>2. CASE open = <<>>
    <2>1. Full = m - 1
      <3>1. M!Modulus = m
        BY SameMasks, Zenon
      <3> QED BY <3>1, Zenon DEF Full
    <2>2. m - 1 \in 0 .. m - 1 /\ m - 1 # 0
      <3> HIDE DEF m
      <3> QED BY <1>1
    <2> QED BY <1>2, <2>1, <2>2 DEF Scope, Scopes, Words
  <1>3. CASE open # <<>>
    <2>1. PICK S : open \in Seq(S)
      BY DEF BInv, ReservedIn, IsSequence
    <2>2. Len(open) \in 1 .. Len(open) /\ Inner = open[Len(open)]
      BY <1>3, <2>1 DEF Inner, Last
    <2>3. BlockOf(Inner, written, type)
      BY <2>2 DEF BlocksOf
    <2> QED BY <1>3, <2>3 DEF Scope, Scopes, Words, BlockOf
  <1> QED BY <1>2, <1>3

-----------------------------------------------------------------------------
(* The blocks around what is written.                                      *)

\* The blocks are those that are open, but for the number of their elements.
Outer(blocks) ==
  /\ IsSequence(blocks) /\ Len(blocks) = Len(open) /\ BlocksOf(blocks, written, type)
  /\ \A j \in 1 .. Len(open) : blocks[j].entry = open[j].entry

LEMMA OpenIsOuter ==
  ASSUME BInv, BlocksOf(open, written, type) PROVE Outer(open)
  BY DEF BInv, ReservedIn, Outer

\* The count of a full block is a number that its opcode can hold.
LEMMA LimitFits ==
  ASSUME NEW b, b.op \in Blocks
  PROVE  /\ Limit(b) \in Nat /\ Limit(b) - FirstCount(b.op) <= 2^CountBits(b.op) - 1
         /\ 2^CountBits(b.op) \in Nat /\ CountBits(b.op) \in Nat /\ FirstCount(b.op) \in {0, 1}
  <1>1. 2^4 = 16 /\ 2^3 = 8 /\ 2^5 = 32
    BY SMT
  <1>2. PairLimit \in 1 .. 16 /\ IfLimit \in 1 .. 15 /\ ElseLimit \in 1 .. 8 /\ ContLimit \in 1 .. 32
    BY ProgramAssumption
  <1>3. CASE b.op = "Named"
    <2>1. Limit(b) = PairLimit /\ FirstCount(b.op) = 1 /\ CountBits(b.op) = 4
      BY <1>3 DEF Limit, FirstCount, CountBits
    <2> QED BY <1>1, <1>2, <2>1
  <1>4. CASE b.op \in {"GroupIf", "GroupIfNamed"}
    <2>1. Limit(b) = IfLimit /\ FirstCount(b.op) = 0 /\ CountBits(b.op) = 4
      BY <1>4 DEF Limit, FirstCount, CountBits
    <2> QED BY <1>1, <1>2, <2>1
  <1>5. CASE b.op = "Else"
    <2>1. Limit(b) = ElseLimit /\ FirstCount(b.op) = 1 /\ CountBits(b.op) = 3
      BY <1>5 DEF Limit, FirstCount, CountBits
    <2> QED BY <1>1, <1>2, <2>1
  <1>6. CASE b.op = "ContinueScope"
    <2>1. Limit(b) = ContLimit /\ FirstCount(b.op) = 1 /\ CountBits(b.op) = 5
      BY <1>6 DEF Limit, FirstCount, CountBits
    <2> QED BY <1>1, <1>2, <2>1
  <1> QED BY <1>3, <1>4, <1>5, <1>6 DEF Blocks

\* The block that takes an element has room for it.
LEMMA CountedIsOuter ==
  ASSUME BInv, BlocksOf(open, written, type), NEW kind, Takes(kind) PROVE Outer(CountElement)
  <1>1. PICK blocks : blocks = open
    OBVIOUS
  <1>2. PICK S : blocks \in Seq(S)
    BY <1>1 DEF BInv, ReservedIn, IsSequence
  <1>3. CASE open = <<>>
    BY <1>3, OpenIsOuter DEF CountElement
  <1>4. CASE open # <<>>
    <2> DEFINE n      == Len(blocks)
               c      == blocks[n]
               b      == [c EXCEPT !.items = @ + 1]
               others == [blocks EXCEPT ![n] = b]
    <2>1. n \in Nat /\ n \in 1 .. n
      BY <1>1, <1>2, <1>4
    <2>2. CountElement = others
      BY <1>1, <1>4 DEF CountElement
    <2>3. Inner.items < Limit(Inner) /\ Inner = c
      BY <1>1, <1>2, <1>4, <2>1 DEF Takes, Inner, Last
    <2>4. IsBlock(c) /\ BlockOf(c, written, type)
      BY <1>1, <2>1 DEF BInv, ReservedIn, BlocksOf
    <2>5. /\ b.items = c.items + 1 /\ b.op = c.op /\ b.entry = c.entry /\ b.pc = c.pc
          /\ b.bits = c.bits /\ b.scope = c.scope
      BY <2>4 DEF IsBlock
    <2> HIDE DEF b, c
    <2>6. Limit(b) = Limit(c)
      BY <2>5, Zenon DEF Limit
    <2>7. Limit(c) \in Int
      BY <2>4, LimitFits DEF BlockOf
    <2>8. BlockOf(b, written, type)
      <3>1. c.items \in Nat /\ c.items < Limit(c)
        BY <2>3, <2>4 DEF BlockOf
      <3>2. b.items \in Nat /\ b.items <= Limit(b)
        BY <2>5, <2>6, <2>7, <3>1
      <3> QED BY <2>4, <2>5, <3>2 DEF BlockOf
    <2>9. /\ others \in Seq(S \cup {b}) /\ Len(others) = n
          /\ \A k \in 1 .. n : others[k] = IF k = n THEN b ELSE blocks[k]
      BY <1>2, <2>1
    <2> HIDE DEF others
    <2>10. \A k \in 1 .. n : BlockOf(others[k], written, type) /\ others[k].entry = blocks[k].entry
      BY <1>1, <2>5, <2>8, <2>9 DEF BlocksOf, c
    <2>11. IsSequence(others)
      BY <2>9 DEF IsSequence
    <2> QED BY <1>1, <2>2, <2>9, <2>10, <2>11 DEF Outer, BlocksOf
  <1> QED BY <1>3, <1>4

\* A block is one of some tokens and of more.
LEMMA BlocksOfMore ==
  ASSUME NEW blocks, NEW tokens, NEW next, NEW t, BlocksOf(blocks, tokens, t),
         Len(tokens) \in Nat, Len(next) \in Nat, Len(tokens) <= Len(next),
         \A k \in 1 .. Len(tokens) : next[k] = tokens[k]
  PROVE  BlocksOf(blocks, next, t)
  <1>1. ASSUME NEW j \in 1 .. Len(blocks) PROVE BlockOf(blocks[j], next, t)
    <2>1. BlockOf(blocks[j], tokens, t)
      BY DEF BlocksOf
    <2>2. blocks[j].entry \in 1 .. Len(tokens) /\ blocks[j].entry \in 1 .. Len(next)
      BY <2>1 DEF BlockOf
    <2> QED BY <2>1, <2>2 DEF BlockOf
  <1> QED BY <1>1 DEF BlocksOf

\* One more block.
LEMMA BlockMore ==
  ASSUME NEW blocks, NEW b, NEW tokens, NEW t, IsSequence(blocks), BlocksOf(blocks, tokens, t),
         BlockOf(b, tokens, t)
  PROVE  /\ BlocksOf(Append(blocks, b), tokens, t) /\ Len(blocks) \in Nat
         /\ Len(Append(blocks, b)) = Len(blocks) + 1 /\ Append(blocks, b)[Len(blocks) + 1] = b
         /\ \A k \in 1 .. Len(blocks) : Append(blocks, b)[k] = blocks[k]
  <1> DEFINE next == Append(blocks, b)
             n    == Len(blocks)
  <1>1. PICK S : blocks \in Seq(S)
    BY DEF IsSequence
  <1>2. blocks \in Seq(S \cup {b})
    BY <1>1
  <1>3. /\ Len(next) = n + 1 /\ n \in Nat /\ next[n + 1] = b /\ \A k \in 1 .. n : next[k] = blocks[k]
    BY <1>2
  <1> HIDE DEF next
  <1>4. \A k \in 1 .. n : BlockOf(next[k], tokens, t)
    BY <1>3 DEF BlocksOf
  <1> HIDE DEF n
  <1>5. \A k \in 1 .. n + 1 : k \in 1 .. n \/ k = n + 1
    BY <1>3
  <1>6. \A k \in 1 .. n + 1 : BlockOf(next[k], tokens, t)
    BY <1>3, <1>4, <1>5
  <1> QED BY <1>3, <1>6 DEF BlocksOf, next, n

-----------------------------------------------------------------------------
(* What is written.                                                        *)

\* The flags and the format that a token of an opcode can have.
Allowed(op, flag, low, format) ==
  /\ op \in Ops /\ flag \in BOOLEAN /\ low \in BOOLEAN /\ format \in 0 .. 7
  /\ op \in {"ContinueScope", "Numeric", "Terminate", "Pair"} => flag = FALSE
  /\ op \notin {"Else", "GroupIfNumeric"} => low = FALSE
  /\ op \notin {"Numeric", "GroupIfNumeric"} => format = 0

LEMMA TokenFields ==
  ASSUME NEW op, NEW flag, NEW low, NEW format, NEW fields, Allowed(op, flag, low, format)
  PROVE  /\ [Token(op, flag, low, format, <<>>) EXCEPT !.fields = fields] = Token(op, flag, low, format, fields)
         /\ IsToken(Token(op, flag, low, format, fields))
         /\ Token(op, flag, low, format, fields).op = op /\ Token(op, flag, low, format, fields).flag = flag
         /\ Token(op, flag, low, format, fields).low = low /\ Token(op, flag, low, format, fields).items = 0
         /\ Token(op, flag, low, format, fields).format = format
         /\ Token(op, flag, low, format, fields).fields = fields
  BY DEF Token, IsToken, Allowed

\* The tokens are followed by one more.
Followed(next, token, at) ==
  /\ Len(written) \in Nat /\ IsSequence(next) /\ Len(next) = Len(written) + 1
  /\ \A k \in 1 .. Len(written) : next[k] = written[k]
  /\ next[Len(written) + 1].token = token /\ next[Len(written) + 1].at = at

LEMMA TokenEmitted ==
  ASSUME TInv, NEW op, NEW flag, NEW low, NEW format, NEW scope, NEW opcode, NEW piece,
         Allowed(op, flag, low, format), scope \in Scopes, IsSequence(opcode), Len(opcode) = HeadLen(op),
         PieceOf(TokenKinds(op, flag), piece, scope), op = "Pair" => Len(piece.bytes) > 0,
         Emit(opcode, ExpectsOf(op), scope, Token(op, flag, low, format, <<>>), piece)
  PROVE  /\ type' = type /\ compress' = compress /\ phase' = phase
         /\ Len(out) \in Nat /\ Len(out') \in Nat /\ Len(out) <= Len(out')
         /\ \A i \in 1 .. Len(out) : out'[i] = out[i]
         /\ op # "Pair" => out'[Len(out) + 1] = opcode[1]
         /\ Placement(written', type', compress', out')
         /\ Followed(written', Token(op, flag, low, format, piece.fields), Len(out) + 1)
  <1>1. PICK before, more, bytes, tokens, next, t, packed :
          /\ before = out /\ more = out' /\ bytes = piece.bytes /\ tokens = written /\ next = written'
          /\ t = type /\ packed = compress
    OBVIOUS
  <1>2. /\ IsSequence(before) /\ t \in ProgramTypes /\ packed \in BOOLEAN
        /\ Placement(tokens, t, packed, before)
    BY <1>1 DEF TInv, BInv, TokenInv, Typed
  <1> DEFINE kinds == TokenKinds(op, flag)
             token == Token(op, flag, low, format, piece.fields)
             w     == [at |-> Len(before) + 1, expects |-> ExpectsOf(op), scope |-> scope, token |-> token]
             h     == HeadLen(op)
  <1>3. /\ IsSequence(bytes) /\ IsSequence(kinds) /\ Len(bytes) \in Nat
        /\ FieldsAt(kinds, piece.fields, t, packed, scope, bytes, 1, Len(bytes) + 1)
    BY <1>1 DEF PieceOf, Sized
  <1>4. /\ more = before \o opcode \o bytes /\ next = Append(tokens, w)
        /\ type' = type /\ compress' = compress /\ phase' = phase
    BY <1>1, TokenFields DEF Emit
  <1> DEFINE first == before \o opcode
             all   == first \o bytes
  <1>5. /\ IsSequence(first) /\ Len(before) \in Nat /\ Len(opcode) \in Nat
        /\ Len(first) = Len(before) + Len(opcode)
        /\ \A i \in 1 .. Len(before) : first[i] = before[i]
        /\ \A i \in 1 .. Len(opcode) : first[Len(before) + i] = opcode[i]
    BY <1>2, Concatenated
  <1> HIDE DEF first
  <1>6. /\ IsSequence(all) /\ Len(all) = Len(first) + Len(bytes)
        /\ \A i \in 1 .. Len(first) : all[i] = first[i]
        /\ \A i \in 1 .. Len(bytes) : all[Len(first) + i] = bytes[i]
    <2>1. IsSequence(first) /\ IsSequence(bytes)
      BY <1>3, <1>5
    <2> QED BY <2>1, Concatenated
  <1>7. more = all
    BY <1>4 DEF first
  <1> HIDE DEF all, kinds, token, w, h
  <1>8. /\ h \in {0, 1} /\ Len(opcode) = h /\ (op # "Pair" => h = 1)
    BY DEF h, HeadLen
  <1> DEFINE a == Len(before)
             l == Len(more)
             s == Len(bytes)
  <1>9. /\ a \in Nat /\ s \in Nat /\ l = a + h + s
        /\ \A i \in 1 .. a : more[i] = before[i]
        /\ h = 1 => more[a + 1] = opcode[1]
        /\ \A i \in 1 .. s : more[a + h + i] = bytes[i]
    <2> HIDE DEF a, l, s
    <2>1. Len(first) = a + h
      BY <1>5, <1>8 DEF a
    <2>2. \A i \in 1 .. a : i \in 1 .. Len(first) /\ more[i] = before[i]
      BY <1>5, <1>6, <1>7, <1>8, <2>1 DEF a
    <2>3. h = 1 => more[a + 1] = opcode[1]
      <3> SUFFICES ASSUME h = 1 PROVE more[a + 1] = opcode[1]
        OBVIOUS
      <3>1. 1 \in 1 .. Len(opcode) /\ a + 1 \in 1 .. Len(first)
        BY <1>5, <1>8, <2>1 DEF a
      <3>2. first[a + 1] = opcode[1]
        BY <1>5, <3>1 DEF a
      <3> QED BY <1>6, <1>7, <3>1, <3>2
    <2> QED BY <1>3, <1>5, <1>6, <1>7, <1>8, <2>1, <2>2, <2>3 DEF a, l, s
  <1> HIDE DEF a, l, s
  <1>10. FieldsAt(kinds, piece.fields, t, packed, scope, more, a + 1 + h, l + 1)
    <2>1. \A i \in 1 .. (s + 1) - 1 : more[i + (a + h)] = bytes[i]
      <3>1. \A i \in 1 .. (s + 1) - 1 : i \in 1 .. s /\ i + (a + h) = a + h + i
        BY <1>8, <1>9
      <3> QED BY <1>9, <3>1
    <2>2. a + h \in Nat /\ 1 \in Nat /\ s + 1 \in Int
      BY <1>8, <1>9
    <2>3. FieldsAt(kinds, piece.fields, t, packed, scope, bytes, 1, s + 1)
      BY <1>3 DEF s
    <2>4. FieldsAt(kinds, piece.fields, t, packed, scope, more, 1 + (a + h), (s + 1) + (a + h))
      BY <1>2, <1>3, <2>1, <2>2, <2>3, FieldsMove
    <2>5. 1 + (a + h) = a + 1 + h /\ (s + 1) + (a + h) = l + 1
      BY <1>8, <1>9
    <2> QED BY <2>4, <2>5
  <1>11. a >= 1 /\ a + 1 >= 2
    <2>1. Len(before) >= 1
      BY <1>1 DEF TInv, TokenInv, HeaderIn
    <2> QED BY <1>9, <2>1 DEF a
  <1>12. a + 1 < l + 1
    <2>1. op = "Pair" => s > 0
      BY <1>1 DEF s
    <2> QED BY <1>8, <1>9, <2>1
  <1>13. /\ w = [at |-> w.at, expects |-> w.expects, scope |-> w.scope, token |-> w.token]
         /\ w.at = a + 1 /\ w.expects = ExpectsOf(op) /\ w.scope = scope /\ w.token = token
    BY DEF w, a
  <1>14. /\ IsToken(token) /\ token.op = op /\ token.flag = flag /\ token.fields = piece.fields
    BY TokenFields DEF token
  <1>15. scope \in 0 .. 2^t.digits - 1 /\ scope # 0
    BY <1>1 DEF Scopes, Words
  <1>16. Placed(w, l + 1, t, packed, more)
    BY <1>9, <1>10, <1>11, <1>12, <1>13, <1>14, <1>15 DEF Placed, kinds, h
  <1>17. /\ Len(before) \in Nat /\ Len(more) \in Nat /\ Len(before) <= Len(more)
         /\ \A i \in 1 .. Len(before) : more[i] = before[i]
         /\ w.at = Len(before) + 1 /\ Placed(w, Len(more) + 1, t, packed, more)
    BY <1>8, <1>9, <1>13, <1>16 DEF a, l
  <1>18. /\ Placement(next, t, packed, more)
         /\ Len(tokens) \in Nat /\ Len(next) = Len(tokens) + 1 /\ next[Len(tokens) + 1] = w
         /\ \A k \in 1 .. Len(tokens) : next[k] = tokens[k]
    <2>1. Extended(next, tokens, w)
      BY <1>4, Zenon DEF Extended
    <2>2. Keeps(more, before)
      BY <1>17 DEF Keeps
    <2>3. Placement(tokens, t, packed, before)
      BY <1>2
    <2>4. w.at = Len(before) + 1
      BY <1>17
    <2>5. Placed(w, Len(more) + 1, t, packed, more)
      BY <1>17
    <2>6. t \in ProgramTypes
      BY <1>2
    <2>7. packed \in BOOLEAN
      BY <1>2
    <2>8. Placement(next, t, packed, more) /\ Behind(next, tokens, w)
      BY <2>1, <2>2, <2>3, <2>4, <2>5, <2>6, <2>7, OneMoreToken, Zenon
    <2> QED BY <2>8 DEF Behind
  <1>19. Followed(written', token, Len(out) + 1)
    <2>1. IsSequence(next)
      BY <1>18 DEF Placement
    <2>2. next[Len(tokens) + 1].token = token /\ next[Len(tokens) + 1].at = Len(out) + 1
      BY <1>1, <1>13, <1>17, <1>18 DEF a
    <2>3. tokens = written /\ next = written'
      BY <1>1
    <2> QED BY <1>18, <2>1, <2>2, <2>3, Zenon DEF Followed
  <1>20. op # "Pair" => out'[Len(out) + 1] = opcode[1]
    BY <1>1, <1>8, <1>9 DEF a
  <1> QED BY <1>1, <1>4, <1>17, <1>18, <1>19, <1>20 DEF token

\* The heads of the tokens when one more has been written.
LEMMA HeadsFollow ==
  ASSUME TInv, NEW next, NEW more, NEW blocks, NEW token, Followed(next, token, Len(out) + 1),
         Len(out) \in Nat, \A i \in 1 .. Len(out) : more[i] = out[i],
         Len(blocks) \in Nat, Len(open) \in Nat, Len(open) <= Len(blocks),
         \A j \in 1 .. Len(open) : blocks[j].entry = open[j].entry,
         Waits(blocks, Len(written) + 1) \/ Headed(token, more[Len(out) + 1])
  PROVE  HeadsDone(next, blocks, more)
  <1> DEFINE n == Len(written)
  <1>1. /\ n \in Nat /\ Len(next) = n + 1 /\ \A k \in 1 .. n : next[k] = written[k]
        /\ next[n + 1].token = token /\ next[n + 1].at = Len(out) + 1
    BY DEF Followed
  <1>2. ASSUME NEW k \in 1 .. n
        PROVE  Waits(blocks, k) \/ Headed(next[k].token, more[next[k].at])
    <2>1. CASE Waits(open, k)
      <3>1. PICK j \in 1 .. Len(open) : open[j].entry = k
        BY <2>1 DEF Waits
      <3>2. j \in 1 .. Len(blocks) /\ blocks[j].entry = k
        BY <3>1
      <3> QED BY <3>2 DEF Waits
    <2>2. CASE Headed(written[k].token, out[written[k].at])
      <3>1. Placement(written, type, compress, out)
        BY DEF TInv, TokenInv
      <3>2. written[k].at \in 1 .. Len(out)
        BY <3>1, BeginInside
      <3> QED BY <1>1, <2>2, <3>2
    <2> QED BY <2>1, <2>2 DEF TInv, TokenInv, HeadsDone
  <1> HIDE DEF n
  <1>3. \A k \in 1 .. n + 1 : k \in 1 .. n \/ k = n + 1
    BY <1>1
  <1>4. \A k \in 1 .. n + 1 : Waits(blocks, k) \/ Headed(next[k].token, more[next[k].at])
    BY <1>1, <1>2, <1>3 DEF n
  <1> QED BY <1>1, <1>4 DEF HeadsDone

\* An element that is written in full.
LEMMA ElementWritten ==
  ASSUME TInv, NEW op, NEW flag, NEW low, NEW format, NEW scope, NEW opcode, NEW piece,
         Allowed(op, flag, low, format), scope \in Scopes, IsSequence(opcode), Len(opcode) = HeadLen(op),
         PieceOf(TokenKinds(op, flag), piece, scope), op = "Pair" => Len(piece.bytes) > 0,
         Emit(opcode, ExpectsOf(op), scope, Token(op, flag, low, format, <<>>), piece),
         op \notin Blocks, op # "Pair" => opcode[1] = Opcode[op] + Bits(flag, low) + format,
         NEW kind, Takes(kind), open' = CountElement, last_if'.mask \in Words
  PROVE  TokenInv'
  <1> DEFINE token == Token(op, flag, low, format, piece.fields)
             blocks == CountElement
  <1>1. /\ type' = type /\ compress' = compress /\ phase' = phase
        /\ Len(out) \in Nat /\ Len(out') \in Nat /\ Len(out) <= Len(out')
        /\ \A i \in 1 .. Len(out) : out'[i] = out[i]
        /\ op # "Pair" => out'[Len(out) + 1] = opcode[1]
        /\ Placement(written', type', compress', out')
        /\ Followed(written', token, Len(out) + 1)
    BY TokenEmitted
  <1>2. Outer(blocks)
    BY CountedIsOuter DEF TInv, TokenInv
  <1>3. Headed(token, out'[Len(out) + 1])
    <2>1. token.op = op /\ token.flag = flag /\ token.low = low /\ token.items = 0 /\ token.format = format
      BY TokenFields
    <2> HIDE DEF token
    <2> QED BY <1>1, <2>1 DEF Headed
  <1>4. Len(blocks) \in Nat /\ Len(open) \in Nat /\ Len(open) <= Len(blocks)
    BY <1>2 DEF Outer, IsSequence
  <1> HIDE DEF token, blocks
  <1>5. \A j \in 1 .. Len(open) : blocks[j].entry = open[j].entry
    BY <1>2 DEF Outer
  <1>6. HeadsDone(written', blocks, out')
    BY <1>1, <1>3, <1>4, <1>5, HeadsFollow
  <1>7. BlocksOf(blocks, written', type)
    <2>1. /\ Len(written) \in Nat /\ Len(written') \in Nat /\ Len(written) <= Len(written')
          /\ \A k \in 1 .. Len(written) : written'[k] = written[k]
      BY <1>1 DEF Followed
    <2> QED BY <1>2, <2>1, BlocksOfMore DEF Outer
  <1>8. HeaderIn(out', type, compress)
    BY <1>1 DEF TInv, TokenInv, HeaderIn
  <1>9. phase' = "writing"
    BY <1>1 DEF Takes
  <1>10. last_if'.mask \in 0 .. 2^type'.digits - 1
    BY <1>1 DEF Words
  <1>11. HeadsDone(written', open', out') /\ BlocksOf(open', written', type') /\ HeaderIn(out', type', compress')
    BY <1>1, <1>6, <1>7, <1>8 DEF blocks
  <1>12. Typed'
    BY <1>1 DEF TInv, TokenInv, Typed
  <1> QED BY <1>1, <1>9, <1>10, <1>11, <1>12 DEF TokenInv

\* An opcode is reserved and its block is opened.
LEMMA BlockOpened ==
  ASSUME TInv, NEW op, NEW flag, NEW low, NEW piece, Allowed(op, flag, low, 0), op \in Blocks,
         PieceOf(TokenKinds(op, flag), piece, Scope), Scope \in Scopes,
         Emit(Reserved, ExpectsOf(op), Scope, Token(op, flag, low, 0, <<>>), piece),
         NEW blocks, Outer(blocks), NEW kind, NEW within, within \in Scopes,
         open' = Append(blocks, Block(op, kind, within, Bits(flag, low))),
         last_if' = NoIf, phase = "writing"
  PROVE  TokenInv'
  <1>0. PICK scope : scope = Scope
    OBVIOUS
  <1> DEFINE token == Token(op, flag, low, 0, piece.fields)
             b == Block(op, kind, within, Bits(flag, low))
  <1>1. /\ type' = type /\ compress' = compress /\ phase' = phase
        /\ Len(out) \in Nat /\ Len(out') \in Nat /\ Len(out) <= Len(out')
        /\ \A i \in 1 .. Len(out) : out'[i] = out[i]
        /\ Placement(written', type', compress', out')
        /\ Followed(written', token, Len(out) + 1)
    <2>1. IsSequence(Reserved) /\ Len(Reserved) = 1
      BY Single DEF Reserved
    <2>2. op # "Pair" /\ HeadLen(op) = 1
      BY DEF Blocks, HeadLen
    <2> QED BY <1>0, <2>1, <2>2, TokenEmitted
  <1>2. /\ b.pc = Len(out) + 1 /\ b.entry = Len(written) + 1 /\ b.op = op /\ b.scope = within
        /\ b.bits = Opcode[op] + Bits(flag, low) /\ b.items = 0
    BY DEF Block
  <1>3. token.op = op /\ token.flag = flag /\ token.low = low
    BY TokenFields
  <1> HIDE DEF token, b
  <1>4. /\ Len(written) \in Nat /\ Len(written') \in Nat /\ Len(written) <= Len(written')
        /\ Len(written) + 1 \in 1 .. Len(written')
        /\ \A k \in 1 .. Len(written) : written'[k] = written[k]
        /\ written'[Len(written) + 1].token = token /\ written'[Len(written) + 1].at = Len(out) + 1
    BY <1>1 DEF Followed
  <1>5. BlockOf(b, written', type)
    <2>1. 0 <= Limit(b) /\ 0 \in Nat
      BY <1>2, LimitFits
    <2> QED BY <1>2, <1>3, <1>4, <2>1 DEF BlockOf, Scopes, Words
  <1>6. IsSequence(blocks) /\ BlocksOf(blocks, written', type)
    BY <1>4, BlocksOfMore DEF Outer
  <1> DEFINE next == Append(blocks, b)
  <1>7. /\ BlocksOf(next, written', type) /\ Len(blocks) \in Nat
        /\ Len(next) = Len(blocks) + 1 /\ next[Len(blocks) + 1] = b
        /\ \A k \in 1 .. Len(blocks) : next[k] = blocks[k]
    BY <1>5, <1>6, BlockMore
  <1>8. open' = next
    BY DEF b
  <1> HIDE DEF next
  <1>9. /\ Len(next) \in Nat /\ Len(open) \in Nat /\ Len(open) <= Len(next)
        /\ \A j \in 1 .. Len(open) : next[j].entry = open[j].entry
    BY <1>7 DEF Outer
  <1>10. Waits(next, Len(written) + 1)
    <2>1. Len(blocks) + 1 \in 1 .. Len(next)
      BY <1>7
    <2> QED BY <1>2, <1>7, <2>1 DEF Waits
  <1>11. HeadsDone(written', next, out')
    BY <1>1, <1>9, <1>10, HeadsFollow
  <1>12. HeaderIn(out', type, compress)
    BY <1>1 DEF TInv, TokenInv, HeaderIn
  <1>13. last_if'.mask \in 0 .. 2^type'.digits - 1
    <2>1. 0 \in Words /\ last_if'.mask = 0
      <3>1. 0 \in 0 .. 255 /\ Typed
        BY DEF TInv, TokenInv
      <3> QED BY <3>1, WordFacts DEF NoIf
    <2> QED BY <1>1, <2>1 DEF Words
  <1>14. Typed'
    BY <1>1 DEF TInv, TokenInv, Typed
  <1> QED BY <1>1, <1>7, <1>8, <1>11, <1>12, <1>13, <1>14 DEF TokenInv

-----------------------------------------------------------------------------
(* The calls of the encoder.                                               *)

LEMMA ArgumentFacts ==
  ASSUME NEW a \in Arguments
  PROVE  /\ a.shift \in Nat /\ a.named \in BOOLEAN /\ a.label \in Seq(Nat \ {0})
         /\ a.name \in Seq(Nat \ {0}) /\ a.format \in 0 .. 7 /\ a.negate \in BOOLEAN
  BY ProgramAssumption

\* Sequences of the same length with the same elements are the same.
LEMMA SameElements ==
  ASSUME NEW S, NEW s \in Seq(S), NEW t \in Seq(S), Len(s) = Len(t), \A i \in 1 .. Len(s) : s[i] = t[i]
  PROVE  s = t
  OBVIOUS

\* A sequence behind another.
LEMMA ElementsBehind ==
  ASSUME NEW S, NEW t \in Seq(S), NEW u \in Seq(S)
  PROVE  /\ t \o u \in Seq(S) /\ Len(t \o u) = Len(t) + Len(u)
         /\ \A k \in 1 .. Len(t) : (t \o u)[k] = t[k]
         /\ \A k \in 1 .. Len(u) : (t \o u)[Len(t) + k] = u[k]
  OBVIOUS

\* Kinds one behind the other.
LEMMA KindsJoin ==
  ASSUME NEW a, NEW b, NEW S, NEW k \in Seq(S), a \in S, b \in S
  PROVE  /\ <<a>> \o <<b>> = <<a, b>>
         /\ <<a>> \o (<<b>> \o k) = <<a, b>> \o k
  <1> DEFINE s == <<a>> \o <<b>>
             u == <<a, b>>
  <1>1. <<a>> \in Seq(S) /\ <<b>> \in Seq(S) /\ u \in Seq(S) /\ Len(u) = 2 /\ u[1] = a /\ u[2] = b
    OBVIOUS
  <1>2. s \in Seq(S) /\ Len(s) = 2 /\ s[1] = a /\ s[2] = b
    BY <1>1
  <1> HIDE DEF s, u
  <1>3. \A i \in 1 .. Len(s) : i = 1 \/ i = 2
    BY <1>2
  <1>4. s = u
    BY <1>1, <1>2, <1>3, SameElements
  <1> DEFINE right == <<b>> \o k
             first == <<a>> \o right
             second == u \o k
  <1>5. right \in Seq(S) /\ Len(right) = Len(k) + 1 /\ right[1] = b /\ Len(k) \in Nat
        /\ \A i \in 1 .. Len(k) : right[1 + i] = k[i]
    BY <1>1
  <1> HIDE DEF right
  <1>6. first \in Seq(S) /\ Len(first) = Len(right) + 1 /\ first[1] = a
        /\ \A i \in 1 .. Len(right) : first[1 + i] = right[i]
    BY <1>1, <1>5
  <1>7. second \in Seq(S) /\ Len(second) = Len(k) + 2 /\ second[1] = a /\ second[2] = b
        /\ \A i \in 1 .. Len(k) : second[2 + i] = k[i]
    <2>1. u \in Seq(S) /\ Len(u) = 2 /\ u[1] = a /\ u[2] = b
      BY <1>1
    <2>2. /\ second \in Seq(S) /\ Len(second) = Len(u) + Len(k)
          /\ \A i \in 1 .. Len(u) : second[i] = u[i]
          /\ \A i \in 1 .. Len(k) : second[Len(u) + i] = k[i]
      BY <2>1, ElementsBehind
    <2> QED BY <1>5, <2>1, <2>2
  <1> HIDE DEF first, second
  <1>8. ASSUME NEW i \in 1 .. Len(first) PROVE first[i] = second[i]
    <2>1. CASE i = 1
      BY <1>6, <1>7, <2>1
    <2>2. CASE i = 2
      <3>1. 1 \in 1 .. Len(right) /\ i = 1 + 1
        BY <1>5, <2>2
      <3> QED BY <1>5, <1>6, <1>7, <2>2, <3>1
    <2>3. CASE i > 2
      <3>1. i - 1 \in 1 .. Len(right) /\ i = 1 + (i - 1)
        BY <1>5, <1>6, <2>3
      <3>2. i - 2 \in 1 .. Len(k) /\ i - 1 = 1 + (i - 2) /\ i = 2 + (i - 2)
        BY <1>5, <1>6, <2>3
      <3>3. first[i] = right[i - 1]
        BY <1>6, <3>1
      <3>4. right[i - 1] = k[i - 2] /\ second[i] = k[i - 2]
        BY <1>5, <1>7, <3>2
      <3> QED BY <3>3, <3>4
    <2> QED BY <1>5, <1>6, <2>1, <2>2, <2>3
  <1>9. first = second
    BY <1>5, <1>6, <1>7, <1>8, SameElements
  <1> QED BY <1>4, <1>9 DEF s, u, right, first, second

\* What the calls write under the scope.
LEMMA PiecesInScope ==
  ASSUME TInv
  PROVE  /\ Scope \in Scopes /\ BlocksOf(open, written, type) /\ BInv
         /\ \A x : PieceOf(<<"scoped">>, ScopedInt(InScope(x), Scope), Scope)
         /\ \A x : InScope(x) # 0 => InScope(x) \in Scopes
         /\ \A x : \A name \in Seq(Nat \ {0}) :
              LET piece == Join(ScopedInt(InScope(x), Scope), CString(name))
              IN  PieceOf(<<"scoped", "text">>, piece, Scope) /\ Len(piece.bytes) > 0
         /\ \A x : \A shift \in Nat : \A has \in BOOLEAN : \A label \in Seq(Nat \ {0}) :
              M!Bit(Scope, shift) =>
                PieceOf(<<"shift", "scoped">> \o IF has THEN <<"text">> ELSE <<>>,
                        IfFields(shift, InScope(x), has, label), Scope)
  <1>1. Typed /\ BInv /\ BlocksOf(open, written, type)
    BY DEF TInv, TokenInv
  <1>2. PICK scope : scope = Scope
    OBVIOUS
  <1>3. scope \in Scopes
    BY <1>1, <1>2, ScopeIsOne
  <1>4. \A x : M!And(scope, x) \in Words /\ Within(scope, M!And(scope, x))
               /\ (M!And(scope, x) # 0 => M!And(scope, x) \in Scopes)
    BY <1>1, <1>3, ScopeFacts
  <1>5. \A x : InScope(x) = M!And(scope, x)
    BY <1>2 DEF InScope
  <1>6. \A x : PieceOf(<<"scoped">>, ScopedInt(InScope(x), scope), scope)
    BY <1>1, <1>3, <1>4, <1>5, ScopedPiece
  <1>7. ASSUME NEW x, NEW name \in Seq(Nat \ {0})
        PROVE  LET piece == Join(ScopedInt(InScope(x), scope), CString(name))
               IN  PieceOf(<<"scoped", "text">>, piece, scope) /\ Len(piece.bytes) > 0
    <2> DEFINE p == ScopedInt(InScope(x), scope)
               q == CString(name)
               piece == Join(p, q)
    <2>1. PieceOf(<<"text">>, q, scope)
      BY <1>1, OtherPieces
    <2>2. PieceOf(<<"scoped">>, p, scope)
      BY <1>6
    <2>3. PICK u, v : u = p.bytes /\ v = q.bytes /\ v = name \o << 0 >> /\ piece.bytes = u \o v
      BY DEF CString, Piece, Join
    <2> HIDE DEF p, q
    <2>4. PieceOf(<<"scoped">> \o <<"text">>, piece, scope)
      BY <1>1, <2>1, <2>2, JoinedPieces
    <2>5. <<"scoped">> \o <<"text">> = <<"scoped", "text">>
      <3>1. <<>> \in Seq({"scoped", "text"}) /\ "scoped" \in {"scoped", "text"} /\ "text" \in {"scoped", "text"}
        OBVIOUS
      <3> QED BY <3>1, KindsJoin
    <2>6. IsSequence(u) /\ IsSequence(v)
      BY <2>1, <2>2, <2>3 DEF PieceOf, Sized
    <2>7. Len(v) \in Nat /\ Len(v) > 0
      <3>1. IsSequence(name) /\ IsSequence(<< 0 >>) /\ Len(<< 0 >>) = 1
        BY Single DEF IsSequence
      <3>2. Len(name \o << 0 >>) = Len(name) + 1 /\ Len(name) \in Nat
        BY <3>1, Concatenated
      <3> QED BY <2>3, <3>2
    <2>8. Len(u \o v) = Len(u) + Len(v) /\ Len(u) \in Nat
      BY <2>6, Concatenated
    <2>9. Len(piece.bytes) > 0
      <3>1. Len(u \o v) > 0
        BY <2>7, <2>8
      <3>2. piece.bytes = u \o v
        BY <2>3
      <3> HIDE DEF piece
      <3> QED BY <3>1, <3>2, Zenon
    <2>10. PieceOf(<<"scoped", "text">>, piece, scope)
      BY <2>4, <2>5
    <2> QED BY <2>9, <2>10 DEF p, q
  <1>8. ASSUME NEW x, NEW shift \in Nat, NEW has \in BOOLEAN, NEW label \in Seq(Nat \ {0}), M!Bit(scope, shift)
        PROVE  PieceOf(<<"shift", "scoped">> \o IF has THEN <<"text">> ELSE <<>>,
                       IfFields(shift, InScope(x), has, label), scope)
    <2> DEFINE k == IF has THEN <<"text">> ELSE <<>>
               p == OneByte(shift)
               q == ScopedInt(InScope(x), scope)
               r == Label(has, label)
    <2>1. PieceOf(k, r, scope)
      BY <1>1, OtherPieces
    <2>2. PieceOf(<<"scoped">>, q, scope)
      BY <1>6
    <2>3. PieceOf(<<"shift">>, p, scope)
      BY <1>1, <1>3, <1>8, ScopeFacts, OtherPieces
    <2> DEFINE all == Join(p, Join(q, r))
    <2>4. IfFields(shift, InScope(x), has, label) = all
      BY <1>2, Zenon DEF IfFields
    <2>5. <<"shift">> \o (<<"scoped">> \o k) = <<"shift", "scoped">> \o k
      <3>1. /\ k \in Seq({"shift", "scoped", "text"})
            /\ "shift" \in {"shift", "scoped", "text"} /\ "scoped" \in {"shift", "scoped", "text"}
        <4>1. /\ <<"text">> \in Seq({"shift", "scoped", "text"}) /\ <<>> \in Seq({"shift", "scoped", "text"})
              /\ "shift" \in {"shift", "scoped", "text"} /\ "scoped" \in {"shift", "scoped", "text"}
          OBVIOUS
        <4> QED BY <4>1, Zenon
      <3> HIDE DEF k
      <3> QED BY <3>1, KindsJoin
    <2> HIDE DEF k, p, q, r
    <2>6. PieceOf(<<"scoped">> \o k, Join(q, r), scope)
      BY <1>1, <2>1, <2>2, JoinedPieces
    <2>7. PieceOf(<<"shift">> \o (<<"scoped">> \o k), all, scope)
      BY <1>1, <2>3, <2>6, JoinedPieces
    <2>8. PieceOf(<<"shift", "scoped">> \o k, IfFields(shift, InScope(x), has, label), scope)
      BY <2>4, <2>5, <2>7, Zenon
    <2> QED BY <2>8 DEF k
  <1> QED BY <1>1, <1>2, <1>3, <1>4, <1>5, <1>6, <1>7, <1>8

\* A description of named values.
LEMMA NamedStep ==
  ASSUME TInv, NEW a \in Arguments, NEW has_mask \in BOOLEAN, BeginNamed(has_mask, a.bits)
  PROVE  TokenInv'
  <1> DEFINE mask   == InScope(a.bits)
             piece  == IF has_mask THEN ScopedInt(mask, Scope) ELSE Nothing
             within == IF has_mask THEN mask ELSE Scope
             kinds  == IF has_mask THEN <<"scoped">> ELSE <<>>
  <1>1. /\ Takes("commands") /\ (has_mask => mask # 0)
        /\ Emit(Reserved, "command", Scope, Token("Named", has_mask, FALSE, 0, <<>>), piece)
        /\ open' = Append(CountElement, Block("Named", "pairs", within, Bits(has_mask, FALSE)))
        /\ last_if' = NoIf
    BY DEF BeginNamed
  <1>2. /\ Scope \in Scopes /\ BInv /\ BlocksOf(open, written, type) /\ Typed
        /\ PieceOf(<<"scoped">>, ScopedInt(mask, Scope), Scope) /\ (mask # 0 => mask \in Scopes)
        /\ PieceOf(<<>>, Nothing, Scope)
    BY PiecesInScope, OtherPieces DEF TInv, TokenInv
  <1> HIDE DEF mask
  <1>3. PieceOf(kinds, piece, Scope) /\ within \in Scopes
    BY <1>1, <1>2
  <1>4. kinds = TokenKinds("Named", has_mask) /\ ExpectsOf("Named") = "command" /\ "Named" \in Blocks
        /\ Allowed("Named", has_mask, FALSE, 0)
    BY DEF TokenKinds, ExpectsOf, Blocks, Ops, Allowed
  <1>5. Outer(CountElement) /\ phase = "writing"
    BY <1>1, <1>2, CountedIsOuter DEF Takes
  <1> HIDE DEF piece, within, kinds
  <1> QED BY <1>1, <1>2, <1>3, <1>4, <1>5, BlockOpened

\* A conditional.
LEMMA IfStep ==
  ASSUME TInv, NEW a \in Arguments, NEW op \in {"GroupIf", "GroupIfNamed"},
         BeginIf(op, a.shift, a.bits, a.named, a.label)
  PROVE  TokenInv'
  <1> DEFINE mask  == InScope(a.bits)
             flag  == a.named
             piece == IfFields(a.shift, mask, flag, a.label)
             kind  == IF op = "GroupIf" THEN "commands" ELSE "pairs"
             kinds == <<"shift", "scoped">> \o IF flag THEN <<"text">> ELSE <<>>
  <1>1. /\ Takes("commands") /\ mask # 0 /\ M!Bit(Scope, a.shift)
        /\ Emit(Reserved, "command", Scope, Token(op, flag, FALSE, 0, <<>>), piece)
        /\ open' = Append(CountElement, Block(op, kind, mask, Bits(flag, FALSE)))
        /\ last_if' = NoIf
    BY DEF BeginIf
  <1>2. flag \in BOOLEAN /\ a.shift \in Nat /\ a.label \in Seq(Nat \ {0})
    BY ArgumentFacts
  <1>3. /\ Scope \in Scopes /\ BInv /\ BlocksOf(open, written, type)
        /\ mask \in Scopes /\ PieceOf(kinds, piece, Scope)
    BY <1>1, <1>2, PiecesInScope
  <1>4. kinds = TokenKinds(op, flag)
    BY Zenon DEF TokenKinds
  <1>5. ExpectsOf(op) = "command" /\ op \in Blocks /\ Allowed(op, flag, FALSE, 0)
    BY <1>2 DEF ExpectsOf, Blocks, Ops, Allowed
  <1>6. Outer(CountElement) /\ phase = "writing"
    BY <1>1, <1>3, CountedIsOuter DEF Takes
  <1> HIDE DEF mask, flag, piece, kind, kinds
  <1> QED BY <1>1, <1>3, <1>4, <1>5, <1>6, BlockOpened

\* Its other branch.
LEMMA ElseStep ==
  ASSUME TInv, NEW a \in Arguments, NEW commands \in BOOLEAN, BeginElse(commands, a.named, a.label)
  PROVE  TokenInv'
  <1> DEFINE mask  == last_if.mask
             flag  == a.named
             piece == Label(flag, a.label)
             kind  == IF commands THEN "commands" ELSE "pairs"
             kinds == IF flag THEN <<"text">> ELSE <<>>
  <1>1. /\ phase = "writing" /\ mask # 0
        /\ Emit(Reserved, "postfix", Scope, Token("Else", flag, commands, 0, <<>>), piece)
        /\ open' = Append(open, Block("Else", kind, mask, Bits(flag, commands)))
        /\ last_if' = NoIf
    BY DEF BeginElse
  <1>2. flag \in BOOLEAN /\ a.label \in Seq(Nat \ {0})
    BY ArgumentFacts
  <1>3. Scope \in Scopes /\ BInv /\ BlocksOf(open, written, type) /\ Typed
    BY PiecesInScope DEF TInv, TokenInv
  <1>4. PieceOf(kinds, piece, Scope)
    BY <1>2, <1>3, OtherPieces
  <1>5. mask \in Scopes
    BY <1>1 DEF TInv, TokenInv, Scopes, Words
  <1>6. kinds = TokenKinds("Else", flag) /\ ExpectsOf("Else") = "postfix" /\ "Else" \in Blocks
        /\ Allowed("Else", flag, commands, 0)
    BY <1>2 DEF TokenKinds, ExpectsOf, Blocks, Ops, Allowed
  <1>7. Outer(open)
    BY <1>3, OpenIsOuter
  <1> HIDE DEF mask, flag, piece, kind, kinds
  <1> QED BY <1>1, <1>3, <1>4, <1>5, <1>6, <1>7, BlockOpened

\* The rest of a full block.
LEMMA SpillStep ==
  ASSUME TInv, Spill PROVE TokenInv'
  <1>1. /\ phase = "writing"
        /\ Emit(Reserved, "postfix", Scope, Token("ContinueScope", FALSE, FALSE, 0, <<>>), Nothing)
        /\ open' = Append(open, Block("ContinueScope", Inner.kind, Scope, 0))
        /\ last_if' = NoIf
    BY DEF Spill
  <1>2. Scope \in Scopes /\ BInv /\ BlocksOf(open, written, type) /\ Typed
    BY PiecesInScope DEF TInv, TokenInv
  <1>3. PieceOf(<<>>, Nothing, Scope)
    BY <1>2, OtherPieces
  <1>4. <<>> = TokenKinds("ContinueScope", FALSE) /\ ExpectsOf("ContinueScope") = "postfix"
        /\ "ContinueScope" \in Blocks /\ Allowed("ContinueScope", FALSE, FALSE, 0)
        /\ Bits(FALSE, FALSE) = 0
    BY DEF TokenKinds, ExpectsOf, Blocks, Ops, Allowed, Bits
  <1>5. Outer(open)
    BY <1>2, OpenIsOuter
  <1>6. PICK kind : kind = Inner.kind
    OBVIOUS
  <1>7. open' = Append(open, Block("ContinueScope", kind, Scope, Bits(FALSE, FALSE)))
    BY <1>1, <1>4, <1>6
  <1> QED BY <1>1, <1>2, <1>3, <1>4, <1>5, <1>7, BlockOpened

\* A value with its name.
LEMMA PairStep ==
  ASSUME TInv, NEW a \in Arguments, WritePair(a.bits, a.name) PROVE TokenInv'
  <1> DEFINE piece == Join(ScopedInt(InScope(a.bits), Scope), CString(a.name))
  <1>1. /\ Takes("pairs") /\ Emit(<<>>, "pair", Scope, Token("Pair", FALSE, FALSE, 0, <<>>), piece)
        /\ open' = CountElement /\ last_if' = NoIf
    BY DEF WritePair
  <1>2. a.name \in Seq(Nat \ {0})
    BY ArgumentFacts
  <1>3. /\ Scope \in Scopes /\ Typed
        /\ PieceOf(<<"scoped", "text">>, piece, Scope) /\ Len(piece.bytes) > 0
    BY <1>2, PiecesInScope DEF TInv, TokenInv
  <1>4. <<"scoped", "text">> = TokenKinds("Pair", FALSE) /\ ExpectsOf("Pair") = "pair"
        /\ "Pair" \notin Blocks /\ Allowed("Pair", FALSE, FALSE, 0) /\ HeadLen("Pair") = 0
    BY DEF TokenKinds, ExpectsOf, Blocks, Ops, Allowed, HeadLen
  <1>5. last_if'.mask \in Words
    BY <1>1, <1>3, WordFacts DEF NoIf
  <1> DEFINE opcode == <<>>
  <1>6. IsSequence(opcode) /\ Len(opcode) = 0
    BY EmptySequence
  <1>7. Emit(opcode, ExpectsOf("Pair"), Scope, Token("Pair", FALSE, FALSE, 0, <<>>), piece)
    BY <1>1, <1>4
  <1> HIDE DEF piece, opcode
  <1> QED BY <1>1, <1>3, <1>4, <1>5, <1>6, <1>7, ElementWritten

LEMMA BitsAre ==
  ASSUME NEW flag \in BOOLEAN, NEW low \in BOOLEAN
  PROVE  /\ Bits(flag, low) \in {0, 8, 16, 24}
         /\ low = FALSE => Bits(flag, low) \in {0, 16}
         /\ flag = FALSE /\ low = FALSE => Bits(flag, low) = 0
  BY DEF Bits, FlagBit, LowBit

LEMMA OpcodesAre ==
  /\ Opcode["Terminate"] = 0 /\ Opcode["Named"] = 32 /\ Opcode["Numeric"] = 64
  /\ Opcode["GroupIf"] = 96 /\ Opcode["GroupIfNamed"] = 128 /\ Opcode["Else"] = 160
  /\ Opcode["ContinueScope"] = 192 /\ Opcode["GroupIfNumeric"] = 224
  BY SMT DEF Opcode

\* A numeric field, alone.
LEMMA NumericStep ==
  ASSUME TInv, NEW a \in Arguments, WriteNumeric(a.bits, a.format, a.name) PROVE TokenInv'
  <1> DEFINE piece  == Join(ScopedInt(InScope(a.bits), Scope), CString(a.name))
             format == a.format
             byte   == Opcode["Numeric"] + format
             opcode == <<byte>>
  <1>1. /\ Takes("commands")
        /\ Emit(opcode, "command", Scope, Token("Numeric", FALSE, FALSE, format, <<>>), piece)
        /\ open' = CountElement /\ last_if' = NoIf
    BY DEF WriteNumeric
  <1>2. a.name \in Seq(Nat \ {0}) /\ format \in 0 .. 7
    BY ArgumentFacts
  <1>3. Scope \in Scopes /\ Typed /\ PieceOf(<<"scoped", "text">>, piece, Scope)
    BY <1>2, PiecesInScope DEF TInv, TokenInv
  <1>4. /\ <<"scoped", "text">> = TokenKinds("Numeric", FALSE) /\ ExpectsOf("Numeric") = "command"
        /\ "Numeric" \notin Blocks /\ Allowed("Numeric", FALSE, FALSE, format) /\ HeadLen("Numeric") = 1
    BY <1>2 DEF TokenKinds, ExpectsOf, Blocks, Ops, Allowed, HeadLen
  <1>5. last_if'.mask \in Words
    BY <1>1, <1>3, WordFacts DEF NoIf
  <1>6. IsSequence(opcode) /\ Len(opcode) = 1 /\ opcode[1] = byte
    BY Single
  <1>7. byte = Opcode["Numeric"] + Bits(FALSE, FALSE) + format
    <2>1. Bits(FALSE, FALSE) = 0
      BY BitsAre
    <2>2. 64 + 0 + format = 64 + format
      <3> HIDE DEF format
      <3> QED BY <1>2
    <2> QED BY OpcodesAre, <2>1, <2>2, Zenon
  <1> HIDE DEF piece, opcode, format, byte
  <1>8. Emit(opcode, ExpectsOf("Numeric"), Scope, Token("Numeric", FALSE, FALSE, format, <<>>), piece)
    BY <1>1, <1>4
  <1>9. opcode[1] = Opcode["Numeric"] + Bits(FALSE, FALSE) + format
    BY <1>6, <1>7
  <1>10. "Numeric" # "Pair"
    OBVIOUS
  <1> QED BY <1>1, <1>3, <1>4, <1>5, <1>6, <1>8, <1>9, <1>10, ElementWritten

\* A numeric field under a condition.
LEMMA IfNumericStep ==
  ASSUME TInv, NEW a \in Arguments,
         WriteIfNumeric(a.shift, a.bits, a.named, a.label, a.format, a.negate, a.name)
  PROVE  TokenInv'
  <1> DEFINE mask   == InScope(a.bits)
             flag   == a.named
             low    == a.negate
             format == a.format
             fields == IfFields(a.shift, mask, flag, a.label)
             kinds  == <<"shift", "scoped">> \o IF flag THEN <<"text">> ELSE <<>>
             piece  == Join(fields, CString(a.name))
             byte   == M!Or(Opcode["GroupIfNumeric"] + Bits(flag, low), format)
             opcode == <<byte>>
  <1>1. /\ Takes("commands") /\ mask # 0 /\ M!Bit(Scope, a.shift)
        /\ Emit(opcode, "command", Scope, Token("GroupIfNumeric", flag, low, format, <<>>), piece)
        /\ open' = CountElement /\ last_if' = [mask |-> mask, needs_else |-> FALSE]
    BY DEF WriteIfNumeric
  <1>2. /\ a.name \in Seq(Nat \ {0}) /\ format \in 0 .. 7 /\ flag \in BOOLEAN /\ low \in BOOLEAN
        /\ a.shift \in Nat /\ a.label \in Seq(Nat \ {0})
    BY ArgumentFacts
  <1>3. Scope \in Scopes /\ Typed /\ mask \in Scopes
    BY <1>1, PiecesInScope DEF TInv, TokenInv
  <1>4. PieceOf(kinds, fields, Scope)
    BY <1>1, <1>2, PiecesInScope
  <1>5. PieceOf(<<"text">>, CString(a.name), Scope)
    BY <1>2, <1>3, OtherPieces
  <1>6. kinds \o <<"text">> = TokenKinds("GroupIfNumeric", flag)
    BY Zenon DEF TokenKinds
  <1>7. byte = Opcode["GroupIfNumeric"] + Bits(flag, low) + format
    <2>1. Bits(flag, low) \in {0, 8, 16, 24} /\ Opcode["GroupIfNumeric"] = 224
      BY <1>2, BitsAre, OpcodesAre
    <2>2. PICK q \in 28 .. 31 : 224 + Bits(flag, low) = 8 * q
      <3>1. \A n \in {0, 8, 16, 24} : 28 + (n \div 8) \in 28 .. 31 /\ 224 + n = 8 * (28 + (n \div 8))
        OBVIOUS
      <3> QED BY <2>1, <3>1
    <2>3. 2^3 = 8 /\ 3 \in Nat
      BY SMT
    <2>4. M!Or(2^3 * q, format) = 2^3 * q + format
      <3>1. q \in Nat /\ format \in Nat /\ format < 2^3 /\ 2^3 * q + format \in 0 .. 255
        <4> HIDE DEF format
        <4> QED BY <1>2, <2>3
      <3> HIDE DEF format
      <3> QED BY <1>3, <2>3, <3>1, OrAdds
    <2> QED BY <2>1, <2>2, <2>3, <2>4
  <1>8. IsSequence(opcode) /\ Len(opcode) = 1 /\ opcode[1] = byte
    BY Single
  <1>9. /\ ExpectsOf("GroupIfNumeric") = "command" /\ "GroupIfNumeric" \notin Blocks
        /\ Allowed("GroupIfNumeric", flag, low, format) /\ HeadLen("GroupIfNumeric") = 1
    BY <1>2 DEF ExpectsOf, Blocks, Ops, Allowed, HeadLen
  <1>10. last_if'.mask \in Words
    BY <1>1, <1>3 DEF Scopes
  <1> HIDE DEF mask, flag, low, format, fields, kinds, byte, opcode
  <1>11. PieceOf(kinds \o <<"text">>, piece, Scope)
    BY <1>3, <1>4, <1>5, JoinedPieces
  <1> HIDE DEF piece
  <1>12. PieceOf(TokenKinds("GroupIfNumeric", flag), piece, Scope)
    BY <1>6, <1>11, Zenon
  <1>13. Emit(opcode, ExpectsOf("GroupIfNumeric"), Scope,
              Token("GroupIfNumeric", flag, low, format, <<>>), piece)
    BY <1>1, <1>9
  <1>14. opcode[1] = Opcode["GroupIfNumeric"] + Bits(flag, low) + format
    BY <1>7, <1>8
  <1>15. "GroupIfNumeric" # "Pair"
    OBVIOUS
  <1> QED BY <1>1, <1>3, <1>8, <1>9, <1>10, <1>12, <1>13, <1>14, <1>15, ElementWritten

\* The end of the program.
LEMMA FinishTokens ==
  ASSUME TInv, NEW append_terminate \in BOOLEAN, Finish(append_terminate) PROVE TokenInv'
  <1>1. /\ open = <<>> /\ phase' = "done" /\ type' = type /\ compress' = compress
        /\ open' = open /\ last_if' = last_if
    BY DEF Finish
  <1>2. CASE ~append_terminate
    <2>1. out' = out /\ written' = written
      BY <1>2 DEF Finish
    <2> QED BY <1>1, <2>1 DEF TInv, TokenInv, Typed, HeadsDone, Waits, Headed
  <1>3. CASE append_terminate
    <2> DEFINE token == Token("Terminate", FALSE, FALSE, 0, <<>>)
               w     == [at |-> Len(out) + 1, expects |-> "root", scope |-> Full, token |-> token]
    <2>1. PICK before, more, tokens, next, t, packed :
            /\ before = out /\ more = out' /\ tokens = written /\ next = written' /\ t = type
            /\ packed = compress
      OBVIOUS
    <2>2. more = Append(before, 0) /\ next = Append(tokens, w)
      <3>1. Opcode.Terminate = 0
        BY DEF Opcode
      <3> QED BY <1>3, <2>1, <3>1 DEF Finish
    <2>3. /\ IsSequence(before) /\ t \in ProgramTypes /\ packed \in BOOLEAN /\ Len(before) >= 1
          /\ Placement(tokens, t, packed, before)
      BY <2>1 DEF TInv, BInv, TokenInv, Typed, HeaderIn
    <2>4. Keeps(more, before) /\ Len(more) = Len(before) + 1 /\ more[Len(before) + 1] = 0
      <3>1. PICK S : before \in Seq(S)
        BY <2>3 DEF IsSequence
      <3>2. before \in Seq(S \cup {0})
        BY <3>1
      <3> QED BY <2>2, <3>2 DEF Keeps
    <2>5. /\ token.op = "Terminate" /\ token.flag = FALSE /\ token.low = FALSE /\ token.items = 0
          /\ token.format = 0 /\ token.fields = <<>> /\ IsToken(token)
      BY DEF Token, IsToken, Ops
    <2>6. Full \in 0 .. 2^t.digits - 1 /\ Full # 0
      <3>1. Scope = Full /\ Scope \in Scopes
        BY <1>1, PiecesInScope DEF Scope
      <3> QED BY <2>1, <3>1 DEF Scopes, Words
    <2>7. /\ w = [at |-> w.at, expects |-> w.expects, scope |-> w.scope, token |-> w.token]
          /\ w.at = Len(before) + 1 /\ w.expects = "root" /\ w.scope = Full /\ w.token = token
      BY <2>1
    <2> HIDE DEF token, w
    <2>8. Placed(w, Len(more) + 1, t, packed, more)
      <3> DEFINE l == Len(before)
      <3>1. l \in Nat /\ l >= 1 /\ Len(more) = l + 1
        BY <2>3, <2>4 DEF Keeps
      <3>2. HeadLen("Terminate") = 1 /\ ExpectsOf("Terminate") = "root" /\ TokenKinds("Terminate", FALSE) = <<>>
        BY DEF HeadLen, ExpectsOf, TokenKinds
      <3> DEFINE e == l + 2
      <3>3. e \in Nat /\ Len(more) + 1 = e /\ w.at = l + 1 /\ w.at + HeadLen(w.token.op) = e
        BY <2>5, <2>7, <3>1, <3>2
      <3> HIDE DEF e
      <3>4. FieldsAt(<<>>, <<>>, t, packed, Full, more, e, e)
        BY <2>3, <3>3, FewFields
      <3>5. l + 1 \in Nat /\ l + 1 >= 2 /\ l + 1 < e
        BY <3>1 DEF e
      <3>6. FieldsAt(TokenKinds(w.token.op, w.token.flag), w.token.fields, t, packed, w.scope, more,
                     w.at + HeadLen(w.token.op), Len(more) + 1)
        BY <2>5, <2>7, <3>2, <3>3, <3>4
      <3> HIDE DEF l
      <3> QED BY <2>5, <2>6, <2>7, <3>2, <3>3, <3>5, <3>6 DEF Placed
    <2>9. Extended(next, tokens, w)
      BY <2>2 DEF Extended
    <2>10. w.at = Len(before) + 1
      BY <2>7
    <2>11. Placement(next, t, packed, more) /\ Behind(next, tokens, w)
      <3>1. t \in ProgramTypes /\ packed \in BOOLEAN /\ Placement(tokens, t, packed, before)
            /\ Keeps(more, before)
        BY <2>3, <2>4
      <3> QED BY <2>8, <2>9, <2>10, <3>1, OneMoreToken
    <2>12. Followed(written', token, Len(out) + 1)
      BY <2>1, <2>7, <2>11 DEF Behind, Placement, Followed
    <2>13. Headed(token, more[Len(out) + 1])
      <3>1. Opcode["Terminate"] + Bits(FALSE, FALSE) + 0 = 0
        <4>1. Bits(FALSE, FALSE) = 0
          BY BitsAre
        <4>2. 0 + 0 + 0 = 0
          OBVIOUS
        <4> QED BY OpcodesAre, <4>1, <4>2, Zenon
      <3>2. "Terminate" \notin Blocks
        BY DEF Blocks
      <3> QED BY <2>1, <2>4, <2>5, <3>1, <3>2 DEF Headed
    <2>14. Len(out) \in Nat /\ Len(open) \in Nat /\ Len(open) = 0
           /\ \A i \in 1 .. Len(out) : out'[i] = out[i]
      BY <1>1, <2>1, <2>4, EmptySequence DEF Keeps
    <2>15. HeadsDone(written', open, out')
      BY <2>1, <2>12, <2>13, <2>14, HeadsFollow
    <2>16. BlocksOf(open', written', type')
      BY <1>1, <2>14 DEF BlocksOf
    <2>17. HeaderIn(out', type', compress')
      BY <1>1, <2>1, <2>3, <2>4, <2>14 DEF TInv, TokenInv, HeaderIn, Keeps
    <2> QED BY <1>1, <2>1, <2>11, <2>15, <2>16, <2>17 DEF TInv, TokenInv, Typed
  <1> QED BY <1>2, <1>3

-----------------------------------------------------------------------------
(* The opcode of a block is patched.                                       *)

\* The flags that the opcode of a block can have.
BlockFlags(op, flag, low) ==
  /\ op \in Blocks /\ flag \in BOOLEAN /\ low \in BOOLEAN
  /\ op = "ContinueScope" => flag = FALSE
  /\ op # "Else" => low = FALSE

\* What has been reserved is filled with the count and the opcode.
LEMMA PatchedByte ==
  ASSUME NEW op, NEW flag, NEW low, NEW v, Typed, BlockFlags(op, flag, low), v \in 0 .. 2^CountBits(op) - 1
  PROVE  M!Or(M!Or(0, v), Opcode[op] + Bits(flag, low)) = Opcode[op] + Bits(flag, low) + v
  <1> DEFINE k == CountBits(op)
             x == Opcode[op] + Bits(flag, low)
  <1>0. /\ op \in Blocks /\ flag \in BOOLEAN /\ low \in BOOLEAN
        /\ op = "ContinueScope" => flag = FALSE
        /\ op # "Else" => low = FALSE
    BY DEF BlockFlags
  <1>1. 2^4 = 16 /\ 2^3 = 8 /\ 2^5 = 32
    BY SMT
  <1>2. /\ op \in {"Named", "GroupIf", "GroupIfNamed"} => k = 4
        /\ op = "Else" => k = 3
        /\ op = "ContinueScope" => k = 5
    BY DEF CountBits
  <1>3. /\ Bits(flag, low) \in {0, 8, 16, 24}
        /\ op # "Else" => Bits(flag, low) \in {0, 16}
        /\ op = "ContinueScope" => Bits(flag, low) = 0
    BY <1>0, BitsAre
  <1>4. \E q \in Nat : /\ x = 2^k * q /\ k \in Nat /\ v \in Nat /\ v < 2^k /\ v \in 0 .. 31
                       /\ 2^k * q + v \in 0 .. 255
    <2> DEFINE b == Bits(flag, low)
               o == Opcode[op]
    <2>1. \A n \in {0, 16} : \A c \in {32, 96, 128} :
            c + n = 16 * ((c + n) \div 16) /\ (c + n) \div 16 \in Nat
      OBVIOUS
    <2>2. \A n \in {0, 8, 16, 24} : 160 + n = 8 * ((160 + n) \div 8) /\ (160 + n) \div 8 \in Nat
      OBVIOUS
    <2>3. CASE op \in {"Named", "GroupIf", "GroupIfNamed"}
      <3>1. k = 4 /\ op # "Else" /\ b \in {0, 16} /\ o \in {32, 96, 128}
        BY <1>2, <1>3, <2>3, OpcodesAre
      <3>2. 2^k = 16 /\ v \in 0 .. 16 - 1
        BY <1>1, <3>1, Zenon
      <3> HIDE DEF k, b, o
      <3>3. x = 16 * ((o + b) \div 16) /\ (o + b) \div 16 \in Nat
        BY <2>1, <3>1 DEF x, o, b
      <3>4. PICK q \in Nat : q = (o + b) \div 16 /\ x = 16 * q
        BY <3>3
      <3>5. 16 * q + v \in 0 .. 255 /\ v \in Nat /\ v < 16 /\ v \in 0 .. 31
        BY <3>1, <3>2, <3>4
      <3> HIDE DEF x
      <3> QED BY <3>1, <3>2, <3>4, <3>5, 4 \in Nat
    <2>4. CASE op = "Else"
      <3>1. k = 3 /\ b \in {0, 8, 16, 24} /\ o = 160
        BY <1>2, <1>3, <2>4, OpcodesAre
      <3>2. 2^k = 8 /\ v \in 0 .. 8 - 1
        BY <1>1, <3>1, Zenon
      <3> HIDE DEF k, b, o
      <3>3. x = 8 * ((160 + b) \div 8) /\ (160 + b) \div 8 \in Nat
        BY <2>2, <3>1 DEF x, o, b
      <3>4. PICK q \in Nat : q = (160 + b) \div 8 /\ x = 8 * q
        BY <3>3
      <3>5. 8 * q + v \in 0 .. 255 /\ v \in Nat /\ v < 8 /\ v \in 0 .. 31
        BY <3>1, <3>2, <3>4
      <3> HIDE DEF x
      <3> QED BY <3>1, <3>2, <3>4, <3>5, 3 \in Nat
    <2>5. CASE op = "ContinueScope"
      <3>1. k = 5 /\ b = 0 /\ o = 192
        BY <1>2, <1>3, <2>5, OpcodesAre
      <3>2. 2^k = 32 /\ v \in 0 .. 32 - 1
        BY <1>1, <3>1, Zenon
      <3> HIDE DEF k, b, o
      <3>3. x = 32 * 6
        BY <3>1 DEF x, o, b
      <3>4. 32 * 6 + v \in 0 .. 255 /\ v \in Nat /\ v < 32 /\ v \in 0 .. 31
        BY <3>2
      <3> HIDE DEF x
      <3> QED BY <3>1, <3>2, <3>3, <3>4, 5 \in Nat, 6 \in Nat
    <2> QED BY <1>0, <2>3, <2>4, <2>5 DEF Blocks
  <1> HIDE DEF k, x
  <1>5. M!Or(0, v) = v
    BY <1>4, OrNothing
  <1>6. M!Or(v, x) = x + v
    BY <1>4, OrAdds
  <1> QED BY <1>5, <1>6, Zenon DEF x

\* One byte is another, and one token has its count.
Patched(more, bytes, pc, x) ==
  /\ Len(bytes) \in Nat /\ Len(more) = Len(bytes) /\ pc \in 1 .. Len(bytes) /\ more[pc] = x
  /\ \A i \in 1 .. Len(bytes) : i # pc => more[i] = bytes[i]
Recounted(next, tokens, e, items) ==
  /\ IsSequence(next) /\ Len(tokens) \in Nat /\ Len(next) = Len(tokens) /\ e \in 1 .. Len(tokens)
  /\ next[e] = [tokens[e] EXCEPT !.token.items = items]
  /\ \A k \in 1 .. Len(tokens) : k # e => next[k] = tokens[k]

\* What a token keeps.
LEMMA TokenRecounted ==
  ASSUME NEW w, NEW items, NEW u, u = [w EXCEPT !.token.items = items], IsToken(w.token),
         w = [at |-> w.at, expects |-> w.expects, scope |-> w.scope, token |-> w.token]
  PROVE  /\ u.at = w.at /\ u.expects = w.expects /\ u.scope = w.scope /\ IsToken(u.token)
         /\ u = [at |-> u.at, expects |-> u.expects, scope |-> u.scope, token |-> u.token]
         /\ u.token.op = w.token.op /\ u.token.flag = w.token.flag /\ u.token.low = w.token.low
         /\ u.token.fields = w.token.fields /\ u.token.format = w.token.format /\ u.token.items = items
  <1> DEFINE token == [w.token EXCEPT !.items = items]
  <1>1. /\ token.op = w.token.op /\ token.flag = w.token.flag /\ token.low = w.token.low
        /\ token.fields = w.token.fields /\ token.format = w.token.format /\ token.items = items
        /\ IsToken(token)
    BY DEF IsToken
  <1>2. u = [at |-> w.at, expects |-> w.expects, scope |-> w.scope, token |-> token]
    OBVIOUS
  <1> HIDE DEF token
  <1> QED BY <1>1, <1>2

\* The tokens lie where they lay.
LEMMA PlacementPatched ==
  ASSUME NEW tokens, NEW t, NEW packed, NEW bytes, NEW more, NEW next, NEW e, NEW x, NEW items,
         t \in ProgramTypes, packed \in BOOLEAN, Placement(tokens, t, packed, bytes),
         e \in 1 .. Len(tokens), tokens[e].token.op \in Blocks,
         Patched(more, bytes, tokens[e].at, x), Recounted(next, tokens, e, items)
  PROVE  Placement(next, t, packed, more)
  <1> DEFINE n  == Len(tokens)
             pc == tokens[e].at
  <1>1. /\ Len(bytes) \in Nat /\ Len(more) = Len(bytes) /\ \A i \in 1 .. Len(bytes) : i # pc => more[i] = bytes[i]
    BY DEF Patched
  <1>2. n \in Nat /\ Len(next) = n /\ IsSequence(next) /\ e \in 1 .. n
    BY DEF Recounted
  <1>3. \A k \in 1 .. n : /\ Placed(tokens[k], EndIn(tokens, bytes, k), t, packed, bytes)
                          /\ \A j \in 1 .. k - 1 : tokens[j].at < tokens[k].at
    BY DEF Placement
  <1>4. \A k \in 1 .. n : /\ tokens[k].at \in Nat /\ tokens[k].at >= 2
                          /\ EndIn(tokens, bytes, k) \in Nat /\ EndIn(tokens, bytes, k) <= Len(bytes) + 1
    BY <1>1, BeginInside
  <1>5. ASSUME NEW k \in 1 .. n
        PROVE  /\ next[k].at = tokens[k].at
               /\ \A end, other : Placed(tokens[k], end, t, packed, other) => Placed(next[k], end, t, packed, other)
    <2>1. CASE k = e
      <3> DEFINE w == tokens[e]
                 u == next[e]
      <3>1. /\ IsToken(w.token)
            /\ w = [at |-> w.at, expects |-> w.expects, scope |-> w.scope, token |-> w.token]
        BY <1>3 DEF Placed
      <3>2. u = [w EXCEPT !.token.items = items]
        BY DEF Recounted
      <3> HIDE DEF w, u
      <3>3. /\ u.at = w.at /\ u.expects = w.expects /\ u.scope = w.scope /\ IsToken(u.token)
            /\ u = [at |-> u.at, expects |-> u.expects, scope |-> u.scope, token |-> u.token]
            /\ u.token.op = w.token.op /\ u.token.flag = w.token.flag /\ u.token.fields = w.token.fields
        BY <3>1, <3>2, TokenRecounted
      <3>4. ASSUME NEW end, NEW other, Placed(w, end, t, packed, other) PROVE Placed(u, end, t, packed, other)
        BY <3>3, <3>4 DEF Placed
      <3>5. u.at = w.at
        BY <3>3
      <3> QED BY <2>1, <3>4, <3>5 DEF u, w
    <2>2. CASE k # e
      BY <2>2 DEF Recounted
    <2> QED BY <2>1, <2>2
  <1>6. ASSUME NEW k \in 1 .. n PROVE EndIn(next, more, k) = EndIn(tokens, bytes, k)
    <2>1. CASE k < n
      <3>1. k + 1 \in 1 .. n
        BY <1>2, <2>1
      <3> QED BY <1>2, <1>5, <2>1, <3>1 DEF EndIn
    <2>2. CASE ~(k < n)
      BY <1>1, <1>2, <2>2 DEF EndIn
    <2> QED BY <2>1, <2>2
  <1>7. ASSUME NEW k \in 1 .. n
        PROVE  Placed(next[k], EndIn(next, more, k), t, packed, more)
    <2> DEFINE w   == tokens[k]
               end == EndIn(tokens, bytes, k)
               h   == HeadLen(w.token.op)
    <2>1. Placed(w, end, t, packed, bytes) /\ end \in Nat /\ end <= Len(bytes) + 1 /\ w.at \in Nat /\ w.at >= 2
      BY <1>3, <1>4
    <2>2. h \in {0, 1} /\ (k = e => h = 1)
      BY DEF HeadLen, Blocks
    <2>3. k < e => end <= pc
      <3> SUFFICES ASSUME k < e PROVE end <= pc
        OBVIOUS
      <3>1. end = tokens[k + 1].at /\ k + 1 \in 1 .. n
        BY <1>2 DEF EndIn
      <3>2. k + 1 # e => k + 1 \in 1 .. e - 1
        BY <1>2
      <3>3. k + 1 # e => tokens[k + 1].at < pc
        BY <1>2, <1>3, <3>2
      <3>4. tokens[k + 1].at \in Nat /\ pc \in Nat
        BY <1>2, <1>4, <3>1
      <3> QED BY <3>1, <3>3, <3>4
    <2>4. k > e => pc < w.at
      <3>1. k > e => e \in 1 .. k - 1
        BY <1>2
      <3> QED BY <1>3, <3>1
    <2>5. pc \in Nat
      BY <1>2, <1>4
    <2>6. k = e => pc = w.at
      OBVIOUS
    <2> HIDE DEF w, end, h, pc
    <2>7. \A i \in w.at + h .. end - 1 : i # pc /\ i \in 1 .. Len(bytes)
      <3>1. k < e \/ k = e \/ k > e
        BY <1>2
      <3> QED BY <1>1, <2>1, <2>2, <2>3, <2>4, <2>5, <2>6, <3>1
    <2>8. \A i \in w.at + h .. end - 1 : more[i] = bytes[i]
      BY <1>1, <2>7
    <2>9. Placed(w, end, t, packed, more)
      BY <2>1, <2>8, PlacedAgain DEF h
    <2> QED BY <1>5, <1>6, <2>9 DEF w, end
  <1>8. ASSUME NEW k \in 1 .. n, NEW j \in 1 .. k - 1 PROVE next[j].at < next[k].at
    <2>1. j \in 1 .. n
      BY <1>2
    <2> QED BY <1>3, <1>5, <2>1
  <1> HIDE DEF n
  <1> QED BY <1>2, <1>7, <1>8 DEF Placement

\* The blocks but the innermost, one of which may have ended.
Left(others, blocks) ==
  /\ Len(blocks) \in Nat /\ Len(blocks) > 0 /\ Len(others) = Len(blocks) - 1
  /\ \A j \in 1 .. Len(blocks) - 1 :
       /\ others[j].op = blocks[j].op /\ others[j].entry = blocks[j].entry /\ others[j].pc = blocks[j].pc
       /\ others[j].bits = blocks[j].bits /\ others[j].scope = blocks[j].scope
       /\ others[j].items = blocks[j].items

LEMMA FrontIsLeft ==
  ASSUME NEW blocks, IsSequence(blocks), blocks # <<>>, \A j \in 1 .. Len(blocks) : IsBlock(blocks[j])
  PROVE  /\ Left(Front(blocks), blocks)
         /\ Left([Front(blocks) EXCEPT ![Len(Front(blocks))].ended = TRUE], blocks)
         /\ Last(blocks) = blocks[Len(blocks)]
  <1>1. PICK S : blocks \in Seq(S)
    BY DEF IsSequence
  <1> DEFINE n == Len(blocks)
             outer == Front(blocks)
             l == Len(outer)
             ended == [outer EXCEPT ![l].ended = TRUE]
  <1>2. n \in Nat /\ n > 0 /\ Last(blocks) = blocks[n]
    BY <1>1 DEF Last
  <1>3. outer \in Seq(S) /\ l = n - 1 /\ \A j \in 1 .. n - 1 : outer[j] = blocks[j]
    <2>1. outer = SubSeq(blocks, 1, n - 1)
      BY DEF Front
    <2>2. \A j \in 1 .. n - 1 : blocks[j] \in S
      BY <1>1, <1>2
    <2> HIDE DEF outer
    <2>3. outer = [j \in 1 .. n - 1 |-> blocks[j]]
      BY <1>1, <1>2, <2>1
    <2> QED BY <1>2, <2>2, <2>3
  <1> HIDE DEF outer
  <1>4. Left(outer, blocks)
    BY <1>2, <1>3 DEF Left
  <1>5. Left(ended, blocks)
    <2>1. CASE l = 0
      <3>1. ended = outer
        BY <1>3, <2>1
      <3> QED BY <1>4, <3>1
    <2>2. CASE l # 0
      <3> DEFINE c == [outer[l] EXCEPT !.ended = TRUE]
      <3>1. l \in 1 .. n - 1 /\ l \in 1 .. l /\ IsBlock(outer[l])
        BY <1>2, <1>3, <2>2
      <3>2. /\ c.op = outer[l].op /\ c.entry = outer[l].entry /\ c.pc = outer[l].pc
            /\ c.bits = outer[l].bits /\ c.scope = outer[l].scope /\ c.items = outer[l].items
        BY <3>1 DEF IsBlock
      <3>3. ended = [outer EXCEPT ![l] = c]
        OBVIOUS
      <3> HIDE DEF c, ended
      <3>4. Len(ended) = l /\ \A j \in 1 .. l : ended[j] = IF j = l THEN c ELSE outer[j]
        BY <1>3, <3>1, <3>3
      <3> QED BY <1>2, <1>3, <3>2, <3>4 DEF Left
    <2> QED BY <2>1, <2>2
  <1> QED BY <1>2, <1>4, <1>5 DEF outer

\* The blocks that are left wait for the opcodes they waited for.
LEMMA BlocksLeft ==
  ASSUME NEW blocks, NEW others, NEW tokens, NEW next, NEW t, NEW items, NEW e,
         BlocksOf(blocks, tokens, t), Left(others, blocks), Recounted(next, tokens, e, items),
         IsToken(tokens[e].token),
         tokens[e] = [at |-> tokens[e].at, expects |-> tokens[e].expects, scope |-> tokens[e].scope,
                      token |-> tokens[e].token]
  PROVE  BlocksOf(others, next, t)
  <1>1. \A k \in 1 .. Len(tokens) :
          /\ next[k].at = tokens[k].at /\ next[k].token.op = tokens[k].token.op
          /\ next[k].token.flag = tokens[k].token.flag /\ next[k].token.low = tokens[k].token.low
    <2> SUFFICES ASSUME NEW k \in 1 .. Len(tokens)
                 PROVE  /\ next[k].at = tokens[k].at /\ next[k].token.op = tokens[k].token.op
                        /\ next[k].token.flag = tokens[k].token.flag /\ next[k].token.low = tokens[k].token.low
      OBVIOUS
    <2>1. CASE k = e
      <3>1. PICK w, u : w = tokens[e] /\ u = next[e]
        OBVIOUS
      <3>2. /\ u = [w EXCEPT !.token.items = items] /\ IsToken(w.token)
            /\ w = [at |-> w.at, expects |-> w.expects, scope |-> w.scope, token |-> w.token]
        BY <3>1 DEF Recounted
      <3>3. u.at = w.at /\ u.token.op = w.token.op /\ u.token.flag = w.token.flag /\ u.token.low = w.token.low
        BY <3>2, TokenRecounted
      <3> QED BY <2>1, <3>1, <3>3
    <2>2. CASE k # e
      BY <2>2 DEF Recounted
    <2> QED BY <2>1, <2>2
  <1>2. ASSUME NEW j \in 1 .. Len(others) PROVE BlockOf(others[j], next, t)
    <2>1. j \in 1 .. Len(blocks) /\ j \in 1 .. Len(blocks) - 1
      BY DEF Left
    <2>2. PICK b, c, k : b = blocks[j] /\ c = others[j] /\ k = b.entry
      OBVIOUS
    <2>3. BlockOf(b, tokens, t)
      BY <2>1, <2>2 DEF BlocksOf
    <2>4. /\ c.op = b.op /\ c.entry = b.entry /\ c.pc = b.pc /\ c.bits = b.bits /\ c.scope = b.scope
          /\ c.items = b.items
      BY <2>1, <2>2 DEF Left
    <2>5. k \in 1 .. Len(tokens) /\ Len(next) = Len(tokens)
      BY <2>2, <2>3 DEF BlockOf, Recounted
    <2>6. Limit(c) = Limit(b)
      BY <2>4, Zenon DEF Limit
    <2>7. BlockOf(c, next, t)
      BY <1>1, <2>2, <2>3, <2>4, <2>5, <2>6 DEF BlockOf
    <2> QED BY <2>2, <2>7
  <1> QED BY <1>2 DEF BlocksOf

\* All opcodes that were written in full still are.
Innermost(blocks, e) == blocks[Len(blocks)].entry = e

LEMMA HeadsLeft ==
  ASSUME NEW tokens, NEW t, NEW packed, NEW bytes, NEW more, NEW next, NEW e, NEW x, NEW items,
         NEW blocks, NEW others,
         Placement(tokens, t, packed, bytes), HeadsDone(tokens, blocks, bytes),
         e \in 1 .. Len(tokens), Patched(more, bytes, tokens[e].at, x), Recounted(next, tokens, e, items),
         Left(others, blocks), Innermost(blocks, e), next[e].at = tokens[e].at, Headed(next[e].token, x)
  PROVE  HeadsDone(next, others, more)
  <1> DEFINE n == Len(tokens)
             m == Len(blocks)
  <1>1. n \in Nat /\ Len(next) = n /\ \A k \in 1 .. n : k # e => next[k] = tokens[k]
    BY DEF Recounted
  <1>2. /\ Len(bytes) \in Nat /\ more[tokens[e].at] = x
        /\ \A i \in 1 .. Len(bytes) : i # tokens[e].at => more[i] = bytes[i]
    BY DEF Patched
  <1>3. m \in Nat /\ m > 0 /\ Len(others) = m - 1 /\ \A j \in 1 .. m - 1 : others[j].entry = blocks[j].entry
    BY DEF Left
  <1>5. blocks[m].entry = e
    BY DEF Innermost
  <1>4. ASSUME NEW k \in 1 .. n PROVE Waits(others, k) \/ Headed(next[k].token, more[next[k].at])
    <2>1. CASE k = e
      BY <1>2, <2>1
    <2>2. CASE k # e /\ Waits(blocks, k)
      <3>1. PICK j \in 1 .. m : blocks[j].entry = k
        BY <2>2 DEF Waits
      <3>2. j # m
        BY <1>5, <2>2, <3>1
      <3>3. j \in 1 .. m - 1
        BY <1>3, <3>1, <3>2
      <3>4. j \in 1 .. Len(others) /\ others[j].entry = k
        BY <1>3, <3>1, <3>3
      <3> QED BY <3>4 DEF Waits
    <2>3. CASE k # e /\ ~Waits(blocks, k)
      <3>1. Headed(tokens[k].token, bytes[tokens[k].at])
        BY <2>3 DEF HeadsDone
      <3>2. tokens[k].at \in 1 .. Len(bytes)
        BY <1>2, BeginInside
      <3>3. tokens[k].at # tokens[e].at
        <4>1. tokens[k].at \in Nat /\ tokens[e].at \in Nat
          BY <1>2, BeginInside
        <4>2. k \in 1 .. e - 1 \/ e \in 1 .. k - 1
          BY <1>1, <2>3
        <4>3. tokens[k].at < tokens[e].at \/ tokens[e].at < tokens[k].at
          BY <4>2 DEF Placement
        <4> QED BY <4>1, <4>3
      <3>4. more[tokens[k].at] = bytes[tokens[k].at]
        BY <1>2, <3>2, <3>3
      <3> QED BY <1>1, <2>3, <3>1, <3>4
    <2> QED BY <2>1, <2>2, <2>3
  <1> HIDE DEF n
  <1> QED BY <1>1, <1>4 DEF HeadsDone

\* The innermost block ends.
LEMMA PatchTokens ==
  ASSUME TInv, Patch PROVE TokenInv'
  <1>1. PICK blocks, bytes, tokens, more, next, others, t, packed :
          /\ blocks = open /\ bytes = out /\ tokens = written /\ more = out' /\ next = written'
          /\ others = open' /\ t = type /\ packed = compress
    OBVIOUS
  <1> DEFINE b     == blocks[Len(blocks)]
             e     == b.entry
             w     == tokens[e]
             token == w.token
             v     == IF StartsFromOne(b) THEN b.items - 1 ELSE b.items
             x     == M!Or(M!Or(bytes[b.pc], v), b.bits)
  <1>2. /\ IsSequence(blocks) /\ \A j \in 1 .. Len(blocks) : IsBlock(blocks[j])
        /\ IsSequence(bytes) /\ ReservedIn(blocks, bytes)
    BY <1>1 DEF TInv, BInv, ReservedIn
  <1>3. /\ Typed /\ t \in ProgramTypes /\ packed \in BOOLEAN /\ Placement(tokens, t, packed, bytes)
        /\ HeadsDone(tokens, blocks, bytes) /\ BlocksOf(blocks, tokens, t) /\ HeaderIn(bytes, t, packed)
    BY <1>1 DEF TInv, TokenInv, Typed
  <1>4. blocks # <<>> /\ phase = "writing"
    BY <1>1 DEF Patch
  <1>5. /\ Left(Front(blocks), blocks) /\ Last(blocks) = b
        /\ Left([Front(blocks) EXCEPT ![Len(Front(blocks))].ended = TRUE], blocks)
    BY <1>2, <1>4, FrontIsLeft
  <1>6. Inner = b
    BY <1>1, <1>5 DEF Inner
  <1>7. /\ b.items > 0 \/ b.op = "GroupIf"
        /\ more = [bytes EXCEPT ![b.pc] = x]
        /\ next = [tokens EXCEPT ![e].token.items = b.items]
        /\ \/ others = Front(blocks)
           \/ others = [Front(blocks) EXCEPT ![Len(Front(blocks))].ended = TRUE]
        /\ last_if'.mask \in {b.scope, 0}
        /\ type' = type /\ compress' = compress /\ phase' = phase
    <2>1. /\ b.items > 0 \/ b.op = "GroupIf"
          /\ out' = [out EXCEPT ![b.pc] = M!Or(M!Or(out[b.pc], v), b.bits)]
          /\ written' = [written EXCEPT ![e].token.items = b.items]
          /\ \/ open' = Front(open)
             \/ open' = [Front(open) EXCEPT ![Len(Front(open))].ended = TRUE]
          /\ \/ last_if' = [mask |-> b.scope, needs_else |-> b.items = 0]
             \/ last_if' = NoIf
          /\ type' = type /\ compress' = compress /\ phase' = phase
      <3> HIDE DEF b
      <3> QED BY <1>6 DEF Patch
    <2>2. last_if'.mask \in {b.scope, 0}
      BY <2>1 DEF NoIf
    <2> QED BY <1>1, <2>1, <2>2
  <1>8. Left(others, blocks)
    BY <1>5, <1>7
  <1>9. Len(blocks) \in 1 .. Len(blocks)
    BY <1>5 DEF Left
  <1>10. BlockOf(b, tokens, t) /\ b.pc \in 1 .. Len(bytes) /\ bytes[b.pc] = 0
    <2>1. Opcode.Terminate = 0
      BY OpcodesAre
    <2> QED BY <1>2, <1>3, <1>9, <2>1 DEF BlocksOf, ReservedIn
  <1> HIDE DEF b
  <1>11. /\ e \in 1 .. Len(tokens) /\ w.at = b.pc /\ token.op = b.op /\ b.op \in Blocks
         /\ b.bits = Opcode[b.op] + Bits(token.flag, token.low)
         /\ b.items \in Nat /\ b.items <= Limit(b) /\ b.scope \in 0 .. 2^t.digits - 1
    BY <1>10 DEF BlockOf
  <1>12. /\ IsToken(token)
         /\ w = [at |-> w.at, expects |-> w.expects, scope |-> w.scope, token |-> w.token]
    BY <1>3, <1>11 DEF Placement, Placed
  <1>13. IsSequence(tokens)
    BY <1>3 DEF Placement
  <1> HIDE DEF x, v
  <1>14. Patched(more, bytes, w.at, x)
    <2>1. PICK S : bytes \in Seq(S)
      BY <1>2 DEF IsSequence
    <2>2. /\ Len(bytes) \in Nat /\ Len(more) = Len(bytes) /\ more[b.pc] = x
          /\ \A i \in 1 .. Len(bytes) : i # b.pc => more[i] = bytes[i]
      BY <1>7, <1>10, <2>1
    <2> QED BY <1>10, <1>11, <2>2 DEF Patched
  <1> DEFINE u == [w EXCEPT !.token.items = b.items]
  <1>15. Recounted(next, tokens, e, b.items) /\ next[e] = u
    <2>1. PICK S : tokens \in Seq(S)
      BY <1>13 DEF IsSequence
    <2>2. next = [tokens EXCEPT ![e] = u]
      BY <1>7
    <2> HIDE DEF u, w
    <2>3. /\ next \in Seq(S \cup {u}) /\ Len(tokens) \in Nat /\ Len(next) = Len(tokens) /\ next[e] = u
          /\ \A k \in 1 .. Len(tokens) : k # e => next[k] = tokens[k]
      BY <1>11, <2>1, <2>2
    <2> QED BY <1>11, <2>3 DEF Recounted, IsSequence, u, w
  <1> HIDE DEF u, w, e
  <1>16. /\ u.at = w.at /\ u.token.op = token.op /\ u.token.flag = token.flag /\ u.token.low = token.low
         /\ u.token.items = b.items
    <2>1. u = [w EXCEPT !.token.items = b.items] /\ IsToken(w.token)
          /\ w = [at |-> w.at, expects |-> w.expects, scope |-> w.scope, token |-> w.token]
      BY <1>12 DEF u
    <2> QED BY <2>1, TokenRecounted
  <1>17. Headed(u.token, x)
    <2> DEFINE op == b.op
               i  == b.items
    <2>1. i - FirstCount(op) \in 0 .. 2^CountBits(op) - 1 /\ v = i - FirstCount(op)
      <3>1. /\ Limit(b) \in Nat /\ Limit(b) - FirstCount(b.op) <= 2^CountBits(b.op) - 1
            /\ 2^CountBits(b.op) \in Nat /\ FirstCount(b.op) \in {0, 1}
        BY <1>11, LimitFits
      <3>2. StartsFromOne(b) <=> FirstCount(b.op) = 1
        BY DEF StartsFromOne, FirstCount
      <3>3. FirstCount(b.op) = 1 => b.items > 0
        BY <1>7 DEF FirstCount
      <3> DEFINE f == FirstCount(op)
                 p == 2^CountBits(op)
                 lim == Limit(b)
      <3>4. /\ lim \in Nat /\ lim - f <= p - 1 /\ p \in Nat /\ f \in {0, 1} /\ (f = 1 => i > 0)
            /\ i \in Nat /\ i <= lim
        BY <1>11, <3>1, <3>3
      <3> HIDE DEF f, p, lim, i
      <3>5. i - f \in 0 .. p - 1
        BY <3>4
      <3>6. v = i - f
        BY <3>2, <3>4 DEF v, f, i
      <3> QED BY <3>5, <3>6 DEF f, p
    <2>2. /\ token.flag \in BOOLEAN /\ token.low \in BOOLEAN
          /\ op = "ContinueScope" => token.flag = FALSE
          /\ op # "Else" => token.low = FALSE
      BY <1>11, <1>12 DEF IsToken, Blocks
    <2> HIDE DEF token
    <2>3. M!Or(M!Or(0, v), Opcode[op] + Bits(token.flag, token.low))
            = Opcode[op] + Bits(token.flag, token.low) + v
      <3>1. v \in 0 .. 2^CountBits(op) - 1 /\ op \in Blocks /\ Typed
        BY <1>3, <1>11, <2>1, Zenon
      <3> HIDE DEF v
      <3>2. BlockFlags(op, token.flag, token.low)
        BY <1>11, <2>2 DEF BlockFlags
      <3> QED BY <3>1, <3>2, PatchedByte
    <2>4. x = Opcode[op] + Bits(token.flag, token.low) + v
      BY <1>10, <1>11, <2>3, Zenon DEF x
    <2> QED BY <1>11, <1>16, <2>1, <2>4 DEF Headed
  <1>18. Placement(next, t, packed, more)
    <2>1. /\ e \in 1 .. Len(tokens) /\ tokens[e].token.op \in Blocks /\ Patched(more, bytes, tokens[e].at, x)
          /\ Recounted(next, tokens, e, b.items)
      BY <1>11, <1>14, <1>15 DEF w
    <2> QED BY <1>3, <2>1, PlacementPatched
  <1>19. HeadsDone(next, others, more)
    <2>1. /\ e \in 1 .. Len(tokens) /\ Patched(more, bytes, tokens[e].at, x)
          /\ Recounted(next, tokens, e, b.items) /\ next[e].at = tokens[e].at /\ Headed(next[e].token, x)
      BY <1>11, <1>14, <1>15, <1>16, <1>17 DEF w
    <2>2. Innermost(blocks, e)
      BY DEF Innermost, e, b
    <2>3. next[e].at = tokens[e].at /\ Headed(next[e].token, x)
      BY <2>1
    <2>4. Patched(more, bytes, tokens[e].at, x) /\ Recounted(next, tokens, e, b.items) /\ e \in 1 .. Len(tokens)
      BY <2>1
    <2>5. Placement(tokens, t, packed, bytes) /\ HeadsDone(tokens, blocks, bytes) /\ Left(others, blocks)
      BY <1>3, <1>8
    <2> QED BY <2>2, <2>3, <2>4, <2>5, HeadsLeft
  <1>20. BlocksOf(others, next, t)
    <2>1. /\ IsToken(tokens[e].token) /\ Recounted(next, tokens, e, b.items)
          /\ tokens[e] = [at |-> tokens[e].at, expects |-> tokens[e].expects, scope |-> tokens[e].scope,
                          token |-> tokens[e].token]
      BY <1>12, <1>15 DEF w
    <2> QED BY <1>3, <1>8, <2>1, BlocksLeft
  <1>21. HeaderIn(more, t, packed)
    <2>1. w.at >= 2 /\ w.at \in Nat /\ Len(bytes) \in Nat /\ Len(bytes) >= 1
      BY <1>3, <1>11, <1>14, BeginInside DEF w, Patched, HeaderIn
    <2>2. 1 \in 1 .. Len(bytes) /\ 1 # w.at
      BY <2>1
    <2>3. more[1] = bytes[1] /\ Len(more) = Len(bytes)
      BY <1>14, <2>2 DEF Patched
    <2> QED BY <1>3, <2>1, <2>3 DEF HeaderIn
  <1>22. last_if'.mask \in 0 .. 2^t.digits - 1
    <2>1. 0 \in Words
      BY <1>3, WordFacts
    <2> QED BY <1>1, <1>7, <1>11, <2>1 DEF Words
  <1>23. Typed'
    BY <1>3, <1>7 DEF Typed
  <1> QED BY <1>1, <1>4, <1>7, <1>18, <1>19, <1>20, <1>21, <1>22, <1>23 DEF TokenInv

\* No token is written before the first call.
LEMMA TokensStart ==
  ASSUME BytesInit PROVE TInv
  <1>1. PICK asked \in BOOLEAN : compress = Compresses(type, asked) /\ out = <<HeaderFor(type, asked)>>
    BY DEF BytesInit
  <1>2. /\ type \in ProgramTypes /\ open = <<>> /\ written = <<>> /\ phase = "writing" /\ last_if.mask = 0
    BY DEF BytesInit, NoIf
  <1>3. compress \in BOOLEAN
    BY <1>1 DEF Compresses
  <1>4. Typed
    BY <1>2, <1>3 DEF Typed
  <1>5. HeaderIn(out, type, compress)
    <2> DEFINE header == HeaderFor(type, asked)
    <2>1. header = StorageTypeOf(type) + IF compress THEN CompressFlag ELSE 0
      BY <1>1, Zenon DEF HeaderFor
    <2> HIDE DEF header
    <2>2. Len(<<header>>) = 1 /\ <<header>>[1] = header
      BY Single
    <2>3. Len(out) = 1 /\ out[1] = header
      BY <1>1, <2>2 DEF header
    <2> QED BY <2>1, <2>3 DEF HeaderIn
  <1>6. IsSequence(written) /\ Len(written) = 0 /\ Len(open) = 0 /\ 1 .. 0 = {}
    BY <1>2, EmptySequence
  <1>7. Placement(written, type, compress, out) /\ HeadsDone(written, open, out) /\ BlocksOf(open, written, type)
    BY <1>6 DEF Placement, HeadsDone, BlocksOf
  <1>8. last_if.mask \in 0 .. 2^type.digits - 1
    <2>1. 0 \in Words
      BY <1>4, WordFacts
    <2> QED BY <1>2, <2>1 DEF Words
  <1>9. TokenInv
    BY <1>2, <1>4, <1>5, <1>7, <1>8 DEF TokenInv
  <1> QED BY <1>9, BytesStart DEF TInv

\* Every call of the encoder keeps what is known of the tokens.
LEMMA TokensStep ==
  ASSUME TInv, [BytesNext]_bytevars PROVE TInv'
  <1>1. TokenInv'
    <2>1. CASE UNCHANGED bytevars
      BY <2>1 DEF bytevars, TInv, TokenInv, Typed, HeadsDone, Waits, Headed
    <2> QED BY <2>1, NamedStep, PairStep, NumericStep, IfStep, IfNumericStep, ElseStep, SpillStep,
               PatchTokens, FinishTokens DEF BytesNext
  <1> QED BY <1>1, BytesStep DEF TInv

-----------------------------------------------------------------------------
(* A token is read.                                                        *)

LEMMA TokenRead ==
  ASSUME NEW w, NEW end, NEW bytes, Typed, IsSequence(bytes), end \in Nat, end - 1 <= Len(bytes),
         Placed(w, end, type, compress, bytes), Headed(w.token, bytes[w.at])
  PROVE  /\ Reads(bytes, w) = [next |-> end, token |-> w.token]
         /\ \A cut : IsSequence(cut) /\ CutInside(cut, bytes, w.at, end) => Reads(cut, w) = [next |-> w.at]
  <1> DEFINE at     == w.at
             scope  == w.scope
             op     == w.token.op
             flag   == w.token.flag
             fields == w.token.fields
             kinds  == TokenKinds(op, flag)
             from   == at + HeadLen(op)
             byte   == bytes[at]
  <1>1. /\ at \in Nat /\ at >= 2 /\ at < end /\ scope \in Scopes /\ IsToken(w.token)
        /\ w.expects = ExpectsOf(op)
        /\ FieldsAt(kinds, fields, type, compress, scope, bytes, from, end)
    BY DEF Placed, Scopes, Words
  <1>2. Len(bytes) \in Nat
    BY DEF IsSequence
  <1>3. at <= Len(bytes)
    <2> HIDE DEF at
    <2> QED BY <1>1, <1>2
  <1>4. op \in Ops /\ IsSequence(kinds) /\ HeadLen(op) \in {0, 1}
    BY <1>1, KindsAreSequences DEF IsToken, HeadLen
  <1>5. from \in Nat \ {0}
    <2> HIDE DEF at, op
    <2> QED BY <1>1, <1>4
  <1> HIDE DEF at, scope, fields, kinds, from, byte
  <1>6. /\ ReadFields(kinds, bytes, from, scope) = [ok |-> TRUE, next |-> end, fields |-> fields]
        /\ \A cut : IsSequence(cut) /\ CutInside(cut, bytes, from, end) => ~ReadFields(kinds, cut, from, scope).ok
    BY <1>1, <1>4, <1>5, FieldsRead
  <1> DEFINE got == ReadFields(kinds, bytes, from, scope)
  <1>7. got.ok /\ got.next = end /\ got.fields = fields
    BY <1>6
  <1> HIDE DEF got
  <1>8. \A any : Reads(any, w) = ReadToken(any, at, ExpectsOf(op), scope)
    BY <1>1, Zenon DEF Reads, at, scope
  <1>9. CASE op = "Pair"
    <2>1. ExpectsOf(op) = "pair" /\ kinds = <<"scoped", "text">> /\ HeadLen(op) = 0
      BY <1>9 DEF ExpectsOf, TokenKinds, HeadLen, kinds
    <2>2. from = at
      BY <1>1, <2>1 DEF from
    <2>3. \A any : Len(any) \in Nat /\ at <= Len(any) =>
            Reads(any, w) = PairRead(ReadFields(kinds, any, from, scope), at)
      <3> SUFFICES ASSUME NEW any, Len(any) \in Nat, at <= Len(any)
                   PROVE  Reads(any, w) = PairRead(ReadFields(kinds, any, from, scope), at)
        OBVIOUS
      <3>1. ~(at > Len(any))
        BY <1>1
      <3> QED BY <1>8, <2>1, <2>2, <3>1, Zenon DEF ReadToken
    <2>4. w.token = Token("Pair", FALSE, FALSE, 0, fields)
      <3>1. w.token.items = 0 /\ w.token.flag = FALSE /\ w.token.low = FALSE /\ w.token.format = 0
        BY <1>1, <1>9 DEF IsToken, Headed, Blocks
      <3> QED BY <1>1, <1>9, <3>1 DEF IsToken, Token, fields
    <2>5. Reads(bytes, w) = [next |-> end, token |-> w.token]
      <3>1. Reads(bytes, w) = PairRead(got, at)
        BY <1>2, <1>3, <2>3 DEF got
      <3> QED BY <1>7, <2>4, <3>1, Zenon DEF PairRead
    <2>6. ASSUME NEW cut, IsSequence(cut), CutInside(cut, bytes, at, end) PROVE Reads(cut, w) = [next |-> at]
      <3>1. Len(cut) \in Nat
        BY <2>6 DEF IsSequence
      <3>2. CASE at > Len(cut)
        BY <1>8, <3>2, Zenon DEF ReadToken, Unread
      <3>3. CASE ~(at > Len(cut))
        <4>1. at <= Len(cut)
          BY <1>1, <3>1, <3>3
        <4>2. ~ReadFields(kinds, cut, from, scope).ok
          BY <1>6, <2>2, <2>6
        <4>3. Reads(cut, w) = PairRead(ReadFields(kinds, cut, from, scope), at)
          BY <2>3, <3>1, <4>1
        <4> QED BY <4>2, <4>3, Zenon DEF PairRead, Unread
      <3> QED BY <3>2, <3>3
    <2> QED BY <2>5, <2>6 DEF at
  <1>10. CASE op # "Pair"
    <2>1. /\ LegalOpcode(byte, ExpectsOf(op)) /\ FieldKinds(byte) = kinds
          /\ HeadToken(byte, fields) = w.token
      BY <1>1, <1>10, HeadIsRead DEF byte, at, kinds, fields
    <2>2. ExpectsOf(op) # "pair" /\ HeadLen(op) = 1
      BY <1>10 DEF ExpectsOf, HeadLen
    <2>3. from = at + 1
      BY <2>2 DEF from
    <2>4. \A any : Len(any) \in Nat /\ at <= Len(any) /\ any[at] = byte =>
            Reads(any, w) = CommandRead(ReadFields(kinds, any, from, scope), byte, at)
      <3> SUFFICES ASSUME NEW any, Len(any) \in Nat, at <= Len(any), any[at] = byte
                   PROVE  Reads(any, w) = CommandRead(ReadFields(kinds, any, from, scope), byte, at)
        OBVIOUS
      <3>1. ~(at > Len(any))
        BY <1>1
      <3> QED BY <1>8, <2>1, <2>2, <2>3, <3>1, Zenon DEF ReadToken
    <2>5. Reads(bytes, w) = [next |-> end, token |-> w.token]
      <3>1. Reads(bytes, w) = CommandRead(got, byte, at)
        BY <1>2, <1>3, <2>4 DEF got, byte
      <3> QED BY <1>7, <2>1, <3>1, Zenon DEF CommandRead
    <2>6. ASSUME NEW cut, IsSequence(cut), CutInside(cut, bytes, at, end) PROVE Reads(cut, w) = [next |-> at]
      <3>1. /\ Len(cut) \in Nat /\ Len(cut) <= end - 2
            /\ \A i \in at .. end - 1 : i <= Len(cut) => cut[i] = bytes[i]
        BY <2>6 DEF CutInside
      <3>2. CASE at > Len(cut)
        BY <1>8, <3>2, Zenon DEF ReadToken, Unread
      <3>3. CASE ~(at > Len(cut))
        <4>1. at <= Len(cut)
          BY <1>1, <3>1, <3>3
        <4>2. cut[at] = byte
          <5>1. at \in at .. end - 1
            BY <1>1
          <5> QED BY <3>1, <4>1, <5>1 DEF byte
        <4>3. CutInside(cut, bytes, from, end)
          <5>1. from - 1 <= Len(cut) /\ \A i \in from .. end - 1 : i \in at .. end - 1
            BY <1>1, <2>3, <4>1
          <5> QED BY <3>1, <5>1 DEF CutInside
        <4>4. ~ReadFields(kinds, cut, from, scope).ok
          BY <1>6, <2>6, <4>3
        <4>5. Reads(cut, w) = CommandRead(ReadFields(kinds, cut, from, scope), byte, at)
          BY <2>4, <3>1, <4>1, <4>2
        <4> QED BY <4>4, <4>5, Zenon DEF CommandRead, Unread
      <3> QED BY <3>2, <3>3
    <2> QED BY <2>5, <2>6 DEF at
  <1> QED BY <1>9, <1>10

\* The header is read.
LEMMA HeaderRead ==
  ASSUME NEW t \in ProgramTypes, NEW packed \in BOOLEAN, NEW bytes, IsSequence(bytes), HeaderIn(bytes, t, packed)
  PROVE  /\ HeaderError(bytes) = "none" /\ StorageTypeBase(bytes[1]) = StorageTypeOf(t)
         /\ StorageTypeIsCompressed(bytes[1]) = packed
  <1> DEFINE c == StorageTypeOf(t)
             h == bytes[1]
  <1>1. c \in 0 .. 7
    <2> DEFINE code == CHOOSE w \in 0 .. 3 : t.digits = ByteDigits * 2^w
    <2>1. \E w \in 0 .. 3 : t.digits = ByteDigits * 2^w
      BY ProgramAssumption DEF StorageTypes, WidthCodes
    <2>2. code \in 0 .. 3
      BY <2>1
    <2>3. c = code + IF t.signed THEN 4 ELSE 0
      BY DEF StorageTypeOf, WidthCodes, IsSignedFlag
    <2> HIDE DEF code, c
    <2> QED BY <2>2, <2>3
  <1>2. h = c + (IF packed THEN 8 ELSE 0) /\ Len(bytes) >= 1
    BY DEF HeaderIn, CompressFlag
  <1>3. bytes # <<>>
    BY <1>2, EmptySequence
  <1> HIDE DEF c, h
  <1>4. h % 8 = c /\ ((h \div 8) % 2 = 1 <=> packed) /\ ~(h >= 16)
    <2>1. CASE packed
      BY <1>1, <1>2, <2>1
    <2>2. CASE ~packed
      BY <1>1, <1>2, <2>2
    <2> QED BY <2>1, <2>2
  <1>5. HeaderError(bytes) = "none"
    <2>1. ~(bytes[1] >= 2 * 8)
      BY <1>4 DEF h
    <2> QED BY <1>3, <2>1 DEF HeaderError, CompressFlag
  <1> QED BY <1>4, <1>5 DEF StorageTypeBase, StorageTypeIsCompressed, CompressFlag, c, h

\* What the invariant says when all has been written.
LEMMA AllIsRead ==
  ASSUME TInv PROVE ReadsWhatWasWritten /\ CutIsNoticed
  <1> SUFFICES ASSUME phase = "done" PROVE ReadsWhatWasWritten /\ CutIsNoticed
    BY DEF ReadsWhatWasWritten, CutIsNoticed
  <1>1. PICK bytes, tokens : bytes = out /\ tokens = written
    OBVIOUS
  <1>2. /\ Typed /\ IsSequence(bytes) /\ Placement(tokens, type, compress, bytes)
        /\ HeadsDone(tokens, open, bytes) /\ HeaderIn(bytes, type, compress) /\ open = <<>>
    BY <1>1 DEF TInv, BInv, TokenInv
  <1>3. PICK S : bytes \in Seq(S)
    BY <1>2 DEF IsSequence
  <1>4. Len(bytes) \in Nat /\ IsSequence(tokens) /\ DOMAIN tokens = 1 .. Len(tokens)
    <2>1. PICK T : tokens \in Seq(T)
      BY <1>2 DEF Placement, IsSequence
    <2> QED BY <1>3, <2>1 DEF IsSequence
  <1>5. ASSUME NEW k \in 1 .. Len(tokens)
        PROVE  LET w   == tokens[k]
                   end == EndIn(tokens, bytes, k)
               IN  /\ Reads(bytes, w) = [next |-> end, token |-> w.token]
                   /\ \A cut : IsSequence(cut) /\ CutInside(cut, bytes, w.at, end) => Reads(cut, w) = [next |-> w.at]
                   /\ w.at \in Nat /\ w.at >= 2 /\ end \in Nat /\ end - 1 <= Len(bytes) /\ w.at < end
    <2> DEFINE w   == tokens[k]
               end == EndIn(tokens, bytes, k)
    <2>1. /\ w.at \in Nat /\ w.at >= 2 /\ end \in Nat /\ w.at < end /\ end <= Len(bytes) + 1
      BY <1>2, <1>4, BeginInside
    <2>2. Placed(w, end, type, compress, bytes)
      BY <1>2 DEF Placement
    <2>3. Headed(w.token, bytes[w.at])
      <3>1. ~Waits(open, k)
        BY <1>2, EmptySequence DEF Waits
      <3> QED BY <1>2, <3>1 DEF HeadsDone
    <2> HIDE DEF w, end
    <2>4. end - 1 <= Len(bytes)
      BY <1>4, <2>1
    <2>5. /\ Reads(bytes, w) = [next |-> end, token |-> w.token]
          /\ \A cut : IsSequence(cut) /\ CutInside(cut, bytes, w.at, end) => Reads(cut, w) = [next |-> w.at]
      BY <1>2, <2>1, <2>2, <2>3, <2>4, TokenRead
    <2> QED BY <2>1, <2>4, <2>5 DEF w, end
  <1>6. \A k : End(k) = EndIn(tokens, bytes, k)
    BY <1>1, Zenon DEF End, EndIn
  <1>7. ReadsWhatWasWritten
    <2>1. /\ HeaderError(bytes) = "none" /\ StorageTypeBase(bytes[1]) = StorageTypeOf(type)
          /\ StorageTypeIsCompressed(bytes[1]) = compress
      BY <1>2, HeaderRead DEF Typed
    <2>2. \A k \in DOMAIN tokens : Reads(bytes, tokens[k]) = [next |-> End(k), token |-> tokens[k].token]
      BY <1>4, <1>5, <1>6
    <2> QED BY <1>1, <2>1, <2>2 DEF ReadsWhatWasWritten
  <1>8. ASSUME NEW k \in DOMAIN tokens, NEW n \in tokens[k].at - 1 .. End(k) - 2
        PROVE  Reads(SubSeq(bytes, 1, n), tokens[k]) = [next |-> tokens[k].at]
    <2> DEFINE w   == tokens[k]
               end == EndIn(tokens, bytes, k)
               cut == SubSeq(bytes, 1, n)
    <2>1. /\ \A c : IsSequence(c) /\ CutInside(c, bytes, w.at, end) => Reads(c, w) = [next |-> w.at]
          /\ w.at \in Nat /\ w.at >= 2 /\ end \in Nat /\ end - 1 <= Len(bytes) /\ w.at < end
      BY <1>4, <1>5
    <2>2. n \in w.at - 1 .. end - 2
      BY <1>6
    <2> HIDE DEF w, end
    <2>3. n \in Nat /\ n >= 1 /\ n <= Len(bytes) /\ w.at - 1 <= n /\ n <= end - 2
      BY <1>4, <2>1, <2>2
    <2>4. cut \in Seq(S) /\ Len(cut) = n /\ \A i \in 1 .. n : cut[i] = bytes[i]
      BY <1>3, <2>3
    <2> HIDE DEF cut
    <2>5. \A i \in w.at .. end - 1 : i <= Len(cut) => cut[i] = bytes[i]
      <3>1. \A i \in w.at .. end - 1 : i <= n => i \in 1 .. n
        BY <2>1, <2>3
      <3> QED BY <2>4, <3>1
    <2>6. CutInside(cut, bytes, w.at, end)
      BY <2>3, <2>4, <2>5 DEF CutInside
    <2>7. IsSequence(cut)
      BY <2>4 DEF IsSequence
    <2> QED BY <2>1, <2>6, <2>7 DEF w, cut
  <1>9. CutIsNoticed
    BY <1>1, <1>8, Zenon DEF CutIsNoticed
  <1> QED BY <1>7, <1>9

\* The header of every program, and every token in it, is read back as it
\* was written: the count of each block, which was patched in when all that
\* is inside of it, and the blocks that continue it, had been written, its
\* flags, and every value, mask and text, whether it was condensed or not,
\* up to the byte where the next token begins.
THEOREM ProgramsReadBack == BytesSpec => []ReadsWhatWasWritten
  BY TokensStart, TokensStep, AllIsRead, PTL DEF BytesSpec

\* Wherever a program is cut off inside of a token, the reader refuses that
\* token, and nowhere takes what is left of it for a whole one.
THEOREM CutsAreNoticed == BytesSpec => []CutIsNoticed
  BY TokensStart, TokensStep, AllIsRead, PTL DEF BytesSpec

-----------------------------------------------------------------------------
(* The eight types.                                                        *)

\* A type with its place in the switch: the code of its width, and 4 for a sign.
IsBase(t, base) ==
  \E w \in 0 .. 3, signed \in BOOLEAN :
    /\ base = w + (IF signed THEN 4 ELSE 0)
    /\ t = [digits |-> AnyDigits * 2^w, signed |-> signed]

\* The four widths differ.
LEMMA WidthsDiffer ==
  ASSUME NEW d \in Nat \ {0} PROVE d * 1 # d * 2 /\ d * 1 # d * 4 /\ d * 1 # d * 8
                                 /\ d * 2 # d * 4 /\ d * 2 # d * 8 /\ d * 4 # d * 8
  OBVIOUS

\* The code of a width is the exponent that it was made with.
LEMMA CodeOfWidth ==
  ASSUME NEW w \in 0 .. 3
  PROVE  (CHOOSE v \in 0 .. 3 : AnyDigits * 2^w = AnyDigits * 2^v) = w
  <1>1. 2^0 = 1 /\ 2^1 = 2 /\ 2^2 = 4 /\ 2^3 = 8
    BY SMT
  <1>2. \A v \in 0 .. 3 : v = 0 \/ v = 1 \/ v = 2 \/ v = 3
    OBVIOUS
  <1>3. AnyDigits \in Nat \ {0}
    BY AnyAssumption
  <1>4. \A v \in 0 .. 3 : AnyDigits * 2^w = AnyDigits * 2^v => v = w
    BY <1>1, <1>2, <1>3, WidthsDiffer
  <1> QED BY <1>4

\* The switch has the types in the order of their codes.
LEMMA SwitchInOrder ==
  \A base \in 0 .. 7 : IsBase(Dispatch[base + 1], base)
  <1>1. 2^0 = 1 /\ 2^1 = 2 /\ 2^2 = 4 /\ 2^3 = 8
    BY SMT
  <1>2. /\ 1 * AnyDigits = AnyDigits * 2^0 /\ 2 * AnyDigits = AnyDigits * 2^1
        /\ 4 * AnyDigits = AnyDigits * 2^2 /\ 8 * AnyDigits = AnyDigits * 2^3
    BY <1>1, AnyAssumption
  <1>3. ASSUME NEW signed \in BOOLEAN
        PROVE  /\ Type(1, signed) = [digits |-> AnyDigits * 2^0, signed |-> signed]
               /\ Type(2, signed) = [digits |-> AnyDigits * 2^1, signed |-> signed]
               /\ Type(4, signed) = [digits |-> AnyDigits * 2^2, signed |-> signed]
               /\ Type(8, signed) = [digits |-> AnyDigits * 2^3, signed |-> signed]
    BY <1>2, Zenon DEF Type
  <1>4. /\ Dispatch[1] = Type(1, FALSE) /\ Dispatch[2] = Type(2, FALSE)
        /\ Dispatch[3] = Type(4, FALSE) /\ Dispatch[4] = Type(8, FALSE)
        /\ Dispatch[5] = Type(1, TRUE) /\ Dispatch[6] = Type(2, TRUE)
        /\ Dispatch[7] = Type(4, TRUE) /\ Dispatch[8] = Type(8, TRUE)
    BY DEF Dispatch
  <1>5. \A t : \A w \in 0 .. 3, signed \in BOOLEAN :
          t = [digits |-> AnyDigits * 2^w, signed |-> signed]
            => IsBase(t, w + (IF signed THEN 4 ELSE 0))
    BY DEF IsBase
  <1>6. \A t : \A w \in 0 .. 3 :
          /\ t = [digits |-> AnyDigits * 2^w, signed |-> FALSE] => IsBase(t, w + 0)
          /\ t = [digits |-> AnyDigits * 2^w, signed |-> TRUE] => IsBase(t, w + 4)
    BY <1>5, Zenon
  <1>7. 0 \in 0 .. 3 /\ 1 \in 0 .. 3 /\ 2 \in 0 .. 3 /\ 3 \in 0 .. 3
    OBVIOUS
  <1>8. /\ IsBase(Dispatch[1], 0 + 0) /\ IsBase(Dispatch[2], 1 + 0)
        /\ IsBase(Dispatch[3], 2 + 0) /\ IsBase(Dispatch[4], 3 + 0)
        /\ IsBase(Dispatch[5], 0 + 4) /\ IsBase(Dispatch[6], 1 + 4)
        /\ IsBase(Dispatch[7], 2 + 4) /\ IsBase(Dispatch[8], 3 + 4)
    BY <1>3, <1>4, <1>6, <1>7, Zenon
  <1>9. \A base \in 0 .. 7 :
          \/ (base = 0 + 0 /\ base + 1 = 1) \/ (base = 1 + 0 /\ base + 1 = 2)
          \/ (base = 2 + 0 /\ base + 1 = 3) \/ (base = 3 + 0 /\ base + 1 = 4)
          \/ (base = 0 + 4 /\ base + 1 = 5) \/ (base = 1 + 4 /\ base + 1 = 6)
          \/ (base = 2 + 4 /\ base + 1 = 7) \/ (base = 3 + 4 /\ base + 1 = 8)
    OBVIOUS
  <1> DEFINE InSwitch(k, base) == IsBase(Dispatch[k], base)
  <1>10. ASSUME NEW base \in 0 .. 7, NEW k, base + 1 = k, InSwitch(k, base)
         PROVE  InSwitch(base + 1, base)
    BY <1>10
  <1>11. /\ InSwitch(1, 0 + 0) /\ InSwitch(2, 1 + 0) /\ InSwitch(3, 2 + 0) /\ InSwitch(4, 3 + 0)
         /\ InSwitch(5, 0 + 4) /\ InSwitch(6, 1 + 4) /\ InSwitch(7, 2 + 4) /\ InSwitch(8, 3 + 4)
    BY <1>8
  <1> HIDE DEF InSwitch
  <1>12. \A base \in 0 .. 7 : InSwitch(base + 1, base)
    BY <1>9, <1>10, <1>11
  <1> QED BY <1>12 DEF InSwitch

\* A type of the switch is a type that a header can name, with this code.
LEMMA CodeOfBase ==
  ASSUME NEW t, NEW base, IsBase(t, base)
  PROVE  base \in 0 .. 7 /\ t \in H!StorageTypes /\ H!StorageTypeOf(t) = base
  <1>1. PICK w \in 0 .. 3, signed \in BOOLEAN :
          /\ base = w + (IF signed THEN 4 ELSE 0)
          /\ t = [digits |-> AnyDigits * 2^w, signed |-> signed]
    BY DEF IsBase
  <1>2. (CHOOSE v \in 0 .. 3 : t.digits = AnyDigits * 2^v) = w
    BY <1>1, CodeOfWidth
  <1>3. H!StorageTypeOf(t) = w + (IF signed THEN 4 ELSE 0)
    BY <1>1, <1>2 DEF H!StorageTypeOf, H!WidthCodes, H!IsSignedFlag
  <1>4. base \in 0 .. 7
    BY <1>1
  <1>5. t \in H!StorageTypes
    BY <1>1 DEF H!StorageTypes, H!WidthCodes
  <1>6. H!StorageTypeOf(t) = base
    BY <1>1, <1>3, Zenon
  <1> QED BY <1>4, <1>5, <1>6

\* The other way round: the code of a type that a header can name is its place.
LEMMA BaseOfCode ==
  ASSUME NEW t \in H!StorageTypes PROVE IsBase(t, H!StorageTypeOf(t))
  <1>1. PICK w \in 0 .. 3, signed \in BOOLEAN :
          t = [digits |-> AnyDigits * 2^w, signed |-> signed]
    BY DEF H!StorageTypes, H!WidthCodes
  <1>2. (CHOOSE v \in 0 .. 3 : t.digits = AnyDigits * 2^v) = w
    BY <1>1, CodeOfWidth
  <1>3. H!StorageTypeOf(t) = w + (IF signed THEN 4 ELSE 0)
    BY <1>1, <1>2 DEF H!StorageTypeOf, H!WidthCodes, H!IsSignedFlag
  <1> QED BY <1>1, <1>3 DEF IsBase

\* A place has one type.
LEMMA OneTypeEach ==
  ASSUME NEW t, NEW u, NEW base, IsBase(t, base), IsBase(u, base) PROVE t = u
  <1>1. PICK w \in 0 .. 3, signed \in BOOLEAN :
          /\ base = w + (IF signed THEN 4 ELSE 0)
          /\ t = [digits |-> AnyDigits * 2^w, signed |-> signed]
    BY DEF IsBase
  <1>2. PICK v \in 0 .. 3, sign \in BOOLEAN :
          /\ base = v + (IF sign THEN 4 ELSE 0)
          /\ u = [digits |-> AnyDigits * 2^v, signed |-> sign]
    BY DEF IsBase
  <1>3. w = v /\ signed = sign
    BY <1>1, <1>2
  <1> QED BY <1>1, <1>2, <1>3

-----------------------------------------------------------------------------
(* The inductive invariant: what the buffer and the description can be.    *)

BufferTyped    == program.bytes = <<>> \/ \E header \in Nat : program.bytes = <<header>>
DescribedTyped == described = NoType \/ \E base \in 0 .. 7 : IsBase(described, base)
AInv           == BufferTyped /\ DescribedTyped

\* The header of a description, compressed or not, is a byte that is let through.
LEMMA HeaderNamesType ==
  ASSUME NEW t, NEW base, IsBase(t, base), NEW compressed \in BOOLEAN
  PROVE  /\ H!HeaderFor(t, compressed) \in Nat
         /\ H!HeaderFor(t, compressed) % 8 = base
  <1>1. H!StorageTypeOf(t) = base /\ base \in 0 .. 7
    BY CodeOfBase DEF IsBase
  <1>2. H!HeaderFor(t, compressed) = base \/ H!HeaderFor(t, compressed) = base + 8
    BY <1>1 DEF H!HeaderFor, H!CompressFlag
  <1> QED BY <1>1, <1>2

\* What the switch makes of a header that is let through.
LEMMA SwitchOnHeader ==
  ASSUME NEW header \in Nat
  PROVE  /\ header % 8 \in 0 .. 7
         /\ DispatchedType(<<header>>) = Dispatch[(header % 8) + 1]
         /\ IsBase(DispatchedType(<<header>>), header % 8)
  <1>1. header % 8 \in 0 .. 7
    OBVIOUS
  <1>2. <<header>>[1] = header
    OBVIOUS
  <1>3. DispatchedType(<<header>>) = Dispatch[(header % 8) + 1]
    BY <1>2 DEF DispatchedType, H!StorageTypeBase, H!CompressFlag
  <1>4. IsBase(Dispatch[(header % 8) + 1], header % 8)
    BY <1>1, SwitchInOrder
  <1> QED BY <1>1, <1>3, <1>4

\* The invariant holds from the start and each call keeps it.
LEMMA AnyInductive ==
  /\ AnyInit => AInv
  /\ AInv /\ [AnyNext]_anyvars => AInv'
  <1>1. AnyInit => AInv
    BY DEF AnyInit, AInv, BufferTyped, DescribedTyped
  <1>2. ASSUME AInv, [AnyNext]_anyvars PROVE AInv'
    <2>1. CASE \E header \in {<<>>} \cup {<<h>> : h \in Headers}, sound \in BOOLEAN :
                 WriteProgram(header, sound)
      <3>1. PICK header \in {<<>>} \cup {<<h>> : h \in Headers}, sound \in BOOLEAN :
              WriteProgram(header, sound)
        BY <2>1
      <3>2. program'.bytes = header /\ described' = described
        BY <3>1 DEF WriteProgram
      <3>3. header = <<>> \/ \E h \in Nat : header = <<h>>
        BY AnyAssumption
      <3> QED BY <1>2, <3>2, <3>3 DEF AInv, BufferTyped, DescribedTyped
    <2>2. CASE DecodeProgram
      BY <1>2, <2>2 DEF DecodeProgram, AInv, BufferTyped, DescribedTyped
    <2>3. CASE Build
      <3>1. /\ H!HeaderError(program.bytes) = "none" /\ program' = program
            /\ described' = DispatchedType(program.bytes)
        BY <2>3 DEF Build
      <3>2. program.bytes # <<>>
        BY <3>1 DEF H!HeaderError, H!EmptyInput
      <3>3. PICK header \in Nat : program.bytes = <<header>>
        BY <1>2, <3>2 DEF AInv, BufferTyped
      <3>4. header % 8 \in 0 .. 7 /\ IsBase(described', header % 8)
        BY <3>1, <3>3, SwitchOnHeader
      <3> QED BY <1>2, <3>1, <3>4 DEF AInv, BufferTyped, DescribedTyped
    <2>4. CASE \E compressed \in BOOLEAN : OutputProgram(compressed)
      <3>1. PICK compressed \in BOOLEAN : OutputProgram(compressed)
        BY <2>4
      <3>2. /\ described # NoType /\ described' = described
            /\ program'.bytes = <<H!HeaderFor(described, compressed)>>
        BY <3>1 DEF OutputProgram
      <3>3. PICK base \in 0 .. 7 : IsBase(described, base)
        BY <1>2, <3>2 DEF AInv, DescribedTyped
      <3>4. H!HeaderFor(described, compressed) \in Nat
        BY <3>3, HeaderNamesType
      <3> QED BY <1>2, <3>2, <3>4 DEF AInv, BufferTyped, DescribedTyped
    <2>5. CASE \E value \in Asked : ValueUnsigned(value) \/ ValueSigned(value)
      <3>1. program' = program /\ described' = described
        BY <2>5 DEF ValueUnsigned, ValueSigned, Views, Refuses
      <3> QED BY <1>2, <3>1 DEF AInv, BufferTyped, DescribedTyped
    <2>6. CASE UNCHANGED anyvars
      BY <1>2, <2>6 DEF anyvars, AInv, BufferTyped, DescribedTyped
    <2> QED BY <1>2, <2>1, <2>2, <2>3, <2>4, <2>5, <2>6 DEF AnyNext
  <1> QED BY <1>1, <1>2

-----------------------------------------------------------------------------
\* One type accepts the program, and it is the one that the switch takes.
LEMMA OneDecoderAccepts ==
  ASSUME BufferTyped, H!HeaderError(program.bytes) = "none"
  PROVE  {t \in H!StorageTypes : DecoderAccepts(t, program.bytes)}
           = {DispatchedType(program.bytes)}
  <1>1. program.bytes # <<>>
    BY DEF H!HeaderError, H!EmptyInput
  <1>2. PICK header \in Nat : program.bytes = <<header>>
    BY <1>1 DEF BufferTyped
  <1>3. H!StorageTypeBase(program.bytes[1]) = header % 8
    BY <1>2 DEF H!StorageTypeBase, H!CompressFlag
  <1>4. IsBase(DispatchedType(program.bytes), header % 8)
    BY <1>2, SwitchOnHeader
  <1>5. /\ DispatchedType(program.bytes) \in H!StorageTypes
        /\ DecoderAccepts(DispatchedType(program.bytes), program.bytes)
    BY <1>3, <1>4, CodeOfBase DEF DecoderAccepts
  <1>6. ASSUME NEW t \in H!StorageTypes, DecoderAccepts(t, program.bytes)
        PROVE  t = DispatchedType(program.bytes)
    <2>1. IsBase(t, header % 8)
      BY <1>3, <1>6, BaseOfCode DEF DecoderAccepts
    <2> QED BY <1>4, <2>1, OneTypeEach
  <1> QED BY <1>5, <1>6

\* A description that is written out is built again with the type it had.
LEMMA BuiltAgain ==
  ASSUME DescribedTyped, described # NoType, NEW compressed \in BOOLEAN
  PROVE  DispatchedType(<<H!HeaderFor(described, compressed)>>) = described
  <1>1. PICK base \in 0 .. 7 : IsBase(described, base)
    BY DEF DescribedTyped
  <1>2. /\ H!HeaderFor(described, compressed) \in Nat
        /\ H!HeaderFor(described, compressed) % 8 = base
    BY <1>1, HeaderNamesType
  <1>3. IsBase(DispatchedType(<<H!HeaderFor(described, compressed)>>), base)
    BY <1>2, SwitchOnHeader
  <1> QED BY <1>1, <1>3, OneTypeEach

\* Whatever headers a caller writes into the buffer, and whenever: a header
\* that read_storage_header() lets through has one case in the switch of
\* Build() and one decoder that accepts it, both of the same type, and what
\* is written out is built again with its type.
THEOREM DispatchCorrect == AnySpec => []DispatchIsTotal
  <1>1. AInv => DispatchIsTotal
    BY OneDecoderAccepts, BuiltAgain DEF AInv, DispatchIsTotal
  <1> QED BY <1>1, AnyInductive, PTL DEF AnySpec

-----------------------------------------------------------------------------
(* Value views.  What is known of words is known of those of the type that *)
(* the description has; a view has nothing to do with the groups of dints. *)

VP == INSTANCE WordProofs WITH Digits <- described.digits, Payload <- 7

\* The two instances name the same operations on words.
LEMMA SameWords ==
  /\ V!Modulus = 2^described.digits /\ VP!Modulus = 2^described.digits
  /\ \A v : V!ToUnsigned(v) = v % 2^described.digits
  /\ \A v, s : V!SignExtend(v, s) = VP!SignExtend(v, s)
  <1>1. \A v, s : V!SignExtend(v, s) = VP!SignExtend(v, s)
    BY Zenon DEF V!SignExtend, VP!SignExtend, V!Bit, VP!Bit, V!BitCast, VP!BitCast, V!Or, VP!Or,
       V!And, VP!And, V!FromBits, VP!FromBits, V!WordOf, VP!WordOf, V!BitsOf, VP!BitsOf,
       V!Modulus, VP!Modulus
  <1>2. V!Modulus = 2^described.digits /\ VP!Modulus = 2^described.digits
    BY Zenon DEF V!Modulus, VP!Modulus
  <1>3. \A v : V!ToUnsigned(v) = v % 2^described.digits
    BY <1>2, Zenon DEF V!ToUnsigned
  <1> QED BY <1>1, <1>2, <1>3

\* What a description's type is, once there is one.
LEMMA DescribedWidth ==
  ASSUME DescribedTyped, described # NoType
  PROVE  /\ described.digits \in Nat \ {0} /\ described.signed \in BOOLEAN
         /\ VP!DigitsAssumption /\ VP!PayloadAssumption
  <1>1. PICK w \in 0 .. 3, signed \in BOOLEAN :
          described = [digits |-> AnyDigits * 2^w, signed |-> signed]
    BY DEF DescribedTyped, IsBase
  <1>2. 2^0 = 1 /\ 2^1 = 2 /\ 2^2 = 4 /\ 2^3 = 8
    BY SMT
  <1>3. w = 0 \/ w = 1 \/ w = 2 \/ w = 3
    OBVIOUS
  <1>4. AnyDigits \in Nat \ {0}
    BY AnyAssumption
  <1>5. \E p \in {1, 2, 4, 8} : AnyDigits * 2^w = AnyDigits * p
    BY <1>2, <1>3
  <1>6. \A d \in Nat \ {0} : \A p \in {1, 2, 4, 8} : d * p \in Nat \ {0}
    OBVIOUS
  <1>7. AnyDigits * 2^w \in Nat \ {0}
    BY <1>4, <1>5, <1>6
  <1>8. described.digits \in Nat \ {0} /\ described.signed \in BOOLEAN
    BY <1>1, <1>7
  <1> QED BY <1>8 DEF VP!DigitsAssumption, VP!PayloadAssumption

\* The limits of that type.
LEMMA LimitsAreNumbers ==
  ASSUME DescribedTyped, described # NoType
  PROVE  LeastOf(described) \in Int /\ GreatestOf(described) \in Int
  <1>1. /\ described.digits \in Nat \ {0}
        /\ VP!DigitsAssumption /\ VP!PayloadAssumption
    BY DescribedWidth
  <1>2. 2^described.digits \in Nat /\ 2^(described.digits - 1) \in Nat
    BY <1>1, VP!PowerIsPositive, described.digits - 1 \in Nat
  <1> QED BY <1>2 DEF LeastOf, GreatestOf

\* The bits of a value that the type has are a word, and its top bit is the sign.
LEMMA BitsShowValue ==
  ASSUME DescribedTyped, described # NoType, NEW v \in Int,
         LeastOf(described) <= v, v <= GreatestOf(described)
  PROVE  TypedValueFromBits(described, v % 2^described.digits) = v
  <1> DEFINE d == described.digits
             m == 2^d
             h == 2^(d - 1)
             w == v % m
  <1>1. /\ d \in Nat \ {0} /\ described.signed \in BOOLEAN
        /\ VP!DigitsAssumption /\ VP!PayloadAssumption
    BY DescribedWidth
  <1>2. d - 1 \in Nat /\ (d - 1) + 1 = d
    BY <1>1
  <1>3. m \in Nat \ {0} /\ h \in Nat \ {0} /\ m = 2 * h /\ VP!Modulus = m
    BY <1>1, <1>2, VP!PowerIsPositive, VP!PowerDoubles, SameWords
  <1>4. w \in Nat /\ w < m /\ w % m = w
    <2>1. w \in Nat /\ w < m
      BY <1>3, VP!Division, <1>1
    <2> QED BY <1>1, <1>3, <2>1, VP!SmallIsRemainder
  <1>5. V!ToUnsigned(w) = w
    BY <1>4, SameWords
  <1>6. CASE ~described.signed
    <2>1. 0 <= v /\ v <= m - 1
      BY <1>6 DEF LeastOf, GreatestOf
    <2>2. v \in Nat /\ v < m
      BY <1>3, <2>1
    <2>3. w = v
      BY <1>1, <1>3, <2>2, VP!SmallIsRemainder
    <2> QED BY <1>5, <1>6, <2>3 DEF TypedValueFromBits
  <1>7. CASE described.signed
    <2>1. -h <= v /\ v <= h - 1
      BY <1>7 DEF LeastOf, GreatestOf
    <2>2. TypedValueFromBits(described, w) = IF VP!Bit(w, d - 1) THEN w - m ELSE w
      <3>1. w \in VP!Word /\ d - 1 \in 0 .. d - 1
        <4>1. w \in 0 .. m - 1
          BY <1>3, <1>4
        <4>2. VP!Word = 0 .. m - 1
          BY <1>3, Zenon DEF VP!Word
        <4>3. d - 1 \in 0 .. d - 1
          BY <1>2
        <4> QED BY <4>1, <4>2, <4>3, Zenon
      <3>2. \A i \in Nat : VP!Bit(w, i) => i <= d - 1
        <4> SUFFICES ASSUME NEW i \in Nat, ~(i <= d - 1) PROVE ~VP!Bit(w, i)
          OBVIOUS
        <4>1. d <= i
          BY <1>1
        <4> QED BY <1>1, <1>4, <4>1, VP!NoBitsAbove
      <3>3. VP!SignExtend(w, d - 1) = VP!SignedAt(w, d - 1)
        BY <1>1, <3>1, <3>2, VP!SignExtended
      <3> QED BY <1>2, <1>5, <1>7, <3>3, SameWords DEF TypedValueFromBits, VP!SignedAt
    <2>3. CASE v >= 0
      <3>1. v \in Nat /\ v < h /\ v < m
        BY <1>3, <2>1, <2>3
      <3>2. w = v
        BY <1>1, <1>3, <3>1, VP!SmallIsRemainder
      <3>3. ~VP!Bit(v, d - 1)
        BY <1>1, <1>2, <3>1, VP!NoBitsAbove
      <3> QED BY <2>2, <3>2, <3>3
    <2>4. CASE v < 0
      <3> DEFINE x == v + h
      <3> DEFINE r == x + h
                 q == -1
      <3>1. \A m0, h0 \in Nat \ {0}, v0 \in Int :
              m0 = 2 * h0 /\ -h0 <= v0 /\ v0 < 0
                => /\ v0 + h0 \in Nat /\ v0 + h0 < h0 /\ (v0 + h0) + h0 \in Nat
                   /\ (v0 + h0) + h0 < m0 /\ v0 = ((v0 + h0) + h0) - m0 /\ v0 = m0 * (-1) + ((v0 + h0) + h0)
        OBVIOUS
      <3>2. x \in Nat /\ x < h /\ r \in Nat /\ r < m /\ v = r - m /\ v = m * q + r
        BY <1>3, <2>1, <2>4, <3>1
      <3>3. q \in Int
        OBVIOUS
      <3>4. (m * q + r) % m = r
        <4> HIDE DEF q, r, m
        <4> QED BY <1>1, <1>3, <3>2, <3>3, VP!DivisionIsUnique
      <3>5. w = r
        BY <3>2, <3>4
      <3>6. VP!Bit(r, d - 1)
        BY <1>1, <1>2, <3>2, VP!PowerSetsBit
      <3> QED BY <2>2, <3>2, <3>5, <3>6
    <2> QED BY <2>3, <2>4
  <1> QED BY <1>1, <1>6, <1>7

\* What a view keeps of the value, and why a value is refused.
ViewTyped ==
  view # NoView =>
    /\ described # NoType /\ view.value \in Int
    /\ LeastOf(described) <= view.value /\ view.value <= GreatestOf(described)
    /\ view.bits = view.value % 2^described.digits
RefusalTyped ==
  refusal # NoRefusal =>
    \/ refusal.signed # described.signed
    \/ ~(LeastOf(described) <= refusal.value /\ refusal.value <= GreatestOf(described))

\* Views and refusals are of the type that the description has: both go with it.
LEMMA ViewsInductive ==
  /\ AnyInit => ViewTyped /\ RefusalTyped
  /\ AInv /\ ViewTyped /\ RefusalTyped /\ [AnyNext]_anyvars => (ViewTyped /\ RefusalTyped)'
  <1>1. AnyInit => ViewTyped /\ RefusalTyped
    BY DEF AnyInit, ViewTyped, RefusalTyped
  <1>2. ASSUME AInv, ViewTyped, RefusalTyped, [AnyNext]_anyvars PROVE (ViewTyped /\ RefusalTyped)'
    <2>1. CASE UNCHANGED <<described, view, refusal>>
      BY <1>2, <2>1 DEF ViewTyped, RefusalTyped, LeastOf, GreatestOf
    <2>2. CASE Build
      BY <2>2 DEF Build, ViewTyped, RefusalTyped
    <2>3. ASSUME NEW value \in Asked, ValueUnsigned(value) PROVE (ViewTyped /\ RefusalTyped)'
      <3>1. /\ described # NoType /\ described' = described /\ value \in Int /\ 0 <= value
            /\ described.signed \in BOOLEAN
        BY <1>2, <2>3, DescribedWidth DEF ValueUnsigned, Views, Refuses, AInv
      <3>2. CASE ~described.signed /\ value <= GreatestOf(described)
                 /\ Views(value, V!ToUnsigned(value))
        <4>1. /\ view' = [type |-> described, value |-> value, bits |-> V!ToUnsigned(value)]
              /\ refusal' = NoRefusal
          BY <3>2 DEF Views
        <4>2. V!ToUnsigned(value) = value % 2^described.digits
          BY SameWords
        <4>3. LeastOf(described) = 0
          BY <3>2 DEF LeastOf
        <4> QED BY <3>1, <3>2, <4>1, <4>2, <4>3 DEF ViewTyped, RefusalTyped, LeastOf, GreatestOf
      <3>3. CASE (described.signed \/ value > GreatestOf(described)) /\ Refuses(value, FALSE)
        <4>1. /\ refusal' = [type |-> described, value |-> value, signed |-> FALSE]
              /\ view' = NoView
          BY <3>3 DEF Refuses
        <4>2. GreatestOf(described) \in Int
          BY <1>2, <3>1, LimitsAreNumbers DEF AInv
        <4>3. described.signed = TRUE \/ ~(value <= GreatestOf(described))
          BY <3>1, <3>3, <4>2
        <4> QED BY <3>1, <4>1, <4>3 DEF ViewTyped, RefusalTyped, LeastOf, GreatestOf
      <3> QED BY <2>3, <3>2, <3>3 DEF ValueUnsigned
    <2>4. ASSUME NEW value \in Asked, ValueSigned(value) PROVE (ViewTyped /\ RefusalTyped)'
      <3>1. /\ described # NoType /\ described' = described /\ value \in Int
            /\ described.signed \in BOOLEAN
        BY <1>2, <2>4, DescribedWidth DEF ValueSigned, Views, Refuses, AInv
      <3>2. CASE described.signed /\ LeastOf(described) <= value /\ value <= GreatestOf(described)
                 /\ Views(value, V!ToUnsigned(value))
        <4>1. /\ view' = [type |-> described, value |-> value, bits |-> V!ToUnsigned(value)]
              /\ refusal' = NoRefusal
          BY <3>2 DEF Views
        <4>2. V!ToUnsigned(value) = value % 2^described.digits
          BY SameWords
        <4> QED BY <3>1, <3>2, <4>1, <4>2 DEF ViewTyped, RefusalTyped, LeastOf, GreatestOf
      <3>3. CASE (~described.signed \/ value < LeastOf(described) \/ value > GreatestOf(described))
                 /\ Refuses(value, TRUE)
        <4>1. /\ refusal' = [type |-> described, value |-> value, signed |-> TRUE]
              /\ view' = NoView
          BY <3>3 DEF Refuses
        <4>2. LeastOf(described) \in Int /\ GreatestOf(described) \in Int
          BY <1>2, <3>1, LimitsAreNumbers DEF AInv
        <4>3. \/ described.signed = FALSE
              \/ ~(LeastOf(described) <= value /\ value <= GreatestOf(described))
          BY <3>1, <3>3, <4>2
        <4> QED BY <3>1, <4>1, <4>3 DEF ViewTyped, RefusalTyped, LeastOf, GreatestOf
      <3> QED BY <2>4, <3>2, <3>3 DEF ValueSigned
    <2>5. \A header, sound : WriteProgram(header, sound) => UNCHANGED <<described, view, refusal>>
      BY DEF WriteProgram
    <2>6. DecodeProgram => UNCHANGED <<described, view, refusal>>
      BY DEF DecodeProgram
    <2>7. \A c : OutputProgram(c) => UNCHANGED <<described, view, refusal>>
      BY DEF OutputProgram
    <2>8. UNCHANGED anyvars => UNCHANGED <<described, view, refusal>>
      BY DEF anyvars
    <2> QED BY <1>2, <2>1, <2>2, <2>3, <2>4, <2>5, <2>6, <2>7, <2>8, Zenon DEF AnyNext
  <1> QED BY <1>1, <1>2

(* Whichever program was built and whatever value was asked for, a view    *)
(* renders the value it was made of, from the bits that it keeps, for      *)
(* every width of a byte; and only a value that the type does not have, or *)
(* that was asked for by the other function, is refused.                   *)
THEOREM ViewsShowValues == AnySpec => []ViewsShowTheirValue
  <1>1. AInv /\ ViewTyped /\ RefusalTyped => ViewsShowTheirValue
    <2> SUFFICES ASSUME AInv, ViewTyped, RefusalTyped PROVE ViewsShowTheirValue
      OBVIOUS
    <2>1. view # NoView => TypedValueFromBits(described, view.bits) = view.value
      BY BitsShowValue DEF AInv, ViewTyped
    <2>2. ASSUME NEW value, ~(LeastOf(described) <= value /\ value <= GreatestOf(described))
          PROVE  value \notin I!Values(described)
      BY <2>2 DEF I!Values, I!ValueBits, I!UnsignedMax, LeastOf, GreatestOf
    <2> QED BY <2>1, <2>2 DEF RefusalTyped, ViewsShowTheirValue
  <1> QED BY <1>1, AnyInductive, ViewsInductive, PTL DEF AnySpec
==============================================================================
