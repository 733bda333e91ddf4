---------------------------- MODULE ProgramBytes -----------------------------
(***************************************************************************)
(* The bytes of a program.  output_program() runs the same encoder twice,  *)
(* over a CountingProgramWriter to learn the size and over a ProgramWriter *)
(* to fill the buffer: here both advance together.  An opcode whose count  *)
(* is not known yet is a reserved byte, patched when its block has been    *)
(* written; a ContinueScope is reserved, and patched, inside the block it  *)
(* continues.  The tokens of EnumProgram stand for what is written here.   *)
(***************************************************************************)
EXTENDS StorageHeader, SequencesExt

CONSTANTS
  ProgramTypes,  \* the value types of the descriptions
  Arguments,     \* of a call: [bits, shift, named, label, name, format, negate]; a mask or
                 \* value is what the word `bits' has in scope, names are sequences of bytes
  PairLimit, IfLimit, ElseLimit, ContLimit,  \* max_items_for_block()
  MaxTokens      \* bound: opcodes and pairs of a program

\* A byte has room for an opcode, a group of a dint is a byte without its
\* continuation bit, and the count of a block fits the bits that its opcode
\* has for it.  Texts come from the heap, which reads them up to a NUL.
ASSUME ProgramAssumption ==
  /\ ByteDigits \in Nat /\ ByteDigits >= 8
  /\ ProgramTypes \subseteq StorageTypes
  /\ Arguments \subseteq [bits : Nat, shift : Nat, named : BOOLEAN, label : Seq(Nat \ {0}),
                           name : Seq(Nat \ {0}), format : 0 .. 7, negate : BOOLEAN]
  /\ PairLimit \in 1 .. 16 /\ IfLimit \in 1 .. 15 /\ ElseLimit \in 1 .. 8 /\ ContLimit \in 1 .. 32

VARIABLES
  type, compress, \* of the description that is encoded
  out,      \* the bytes before the ProgramWriter's cursor
  counted,  \* m_size of the CountingProgramWriter
  open,     \* the blocks that are being written, the innermost last
  last_if,  \* the conditional written just before, which may get its Else
  written,  \* history: the tokens and where they are
  phase     \* "writing" or "done"

bytevars == <<type, compress, out, counted, open, last_if, written, phase>>

M == INSTANCE MaskedBits WITH Digits <- type.digits
C == INSTANCE IntCodec WITH Payload <- ByteDigits - 1

Unsigned == [type EXCEPT !.signed = FALSE]
Full     == M!Modulus - 1

-----------------------------------------------------------------------------
(***************************************************************************)
(* Fields.  A piece is what one call of the encoder hands to both writers: *)
(* the bytes that one appends and the size that the other adds.            *)
(***************************************************************************)
Piece(bytes, size, field) == [bytes |-> bytes, size |-> size, fields |-> field]
WordField(w) == <<[word |-> w, text |-> <<>>]>>
TextField(t) == <<[word |-> 0, text |-> t]>>

\* encode_int(value, scope_bitmask) and encode_string().
ScopedInt(value, scope) ==
  IF compress
  THEN LET dint == C!EncodeDint(Unsigned, M!Condense(scope, value, TRUE, FALSE))
       IN  Piece(dint, Len(dint), WordField(value))
  ELSE Piece(C!EncodeInt(type, value), C!SizeOf(type), WordField(value))

\* Mutant of CString: the counting pass forgets the NUL.
CStringCountedShort(name) == Piece(name \o <<0>>, Len(name), TextField(name))

CString(name)     == Piece(name \o <<0>>, Len(name) + 1, TextField(name))
OneByte(byte)     == Piece(<<byte>>, 1, WordField(byte))
Nothing           == Piece(<<>>, 0, <<>>)
Label(has, label) == IF has THEN CString(label) ELSE Nothing

Join(p, q) == Piece(p.bytes \o q.bytes, p.size + q.size, p.fields \o q.fields)

-----------------------------------------------------------------------------
Opcode == [Terminate |-> 0, Named |-> 32, Numeric |-> 64, GroupIf |-> 96,
           GroupIfNamed |-> 128, Else |-> 160, ContinueScope |-> 192, GroupIfNumeric |-> 224]

\* fHasBitmask and fHasGroupName, fElseCmds and fNegate share a bit.
FlagBit == 16
LowBit  == 8
Bits(flag, low) == (IF flag THEN FlagBit ELSE 0) + IF low THEN LowBit ELSE 0

\* What a reader is to find: items counts the elements of the block.
Token(op, flag, low, format, fields) ==
  [op |-> op, flag |-> flag, low |-> low, format |-> format, items |-> 0, fields |-> fields]

Block(op, kind, scope, bits) ==
  [pc |-> Len(out) + 1, entry |-> Len(written) + 1, op |-> op, kind |-> kind, scope |-> scope,
   bits |-> Opcode[op] + bits, items |-> 0, ended |-> FALSE]

Limit(b) ==
  CASE b.op = "Named" -> PairLimit
    [] b.op \in {"GroupIf", "GroupIfNamed"} -> IfLimit
    [] b.op = "Else" -> ElseLimit
    [] b.op = "ContinueScope" -> ContLimit

\* Mutant of StartsFromOne: the count of a Named block is stored as it is.
StartsFromOneUnlessNamed(b) == b.op \in {"Else", "ContinueScope"}

StartsFromOne(b) == b.op \in {"Named", "Else", "ContinueScope"}

Inner     == Last(open)
Scope     == IF open = <<>> THEN Full ELSE Inner.scope
InScope(x) == M!And(Scope, x)

\* Whether an element of this kind may be written next.
Takes(kind) ==
  /\ phase = "writing" /\ Len(written) < MaxTokens
  /\ last_if.needs_else = FALSE
  /\ \/ open = <<>> /\ kind = "commands"
     \/ open # <<>> /\ Inner.kind = kind /\ ~Inner.ended /\ Inner.items < Limit(Inner)

CountElement == IF open = <<>> THEN open ELSE [open EXCEPT ![Len(open)].items = @ + 1]

NoIf == [mask |-> 0, needs_else |-> FALSE]

Emit(opcode, expects, scope, token, piece) ==
  /\ out' = out \o opcode \o piece.bytes
  /\ counted' = counted + Len(opcode) + piece.size
  /\ written' = Append(written, [at |-> Len(out) + 1, expects |-> expects, scope |-> scope,
                                 token |-> [token EXCEPT !.fields = piece.fields]])
  /\ UNCHANGED <<type, compress, phase>>

Reserved == <<Opcode.Terminate>>

-----------------------------------------------------------------------------
BeginNamed(has_mask, x) ==
  LET mask == InScope(x)
  IN  /\ Takes("commands") /\ (has_mask => mask # 0)
      /\ Emit(Reserved, "command", Scope, Token("Named", has_mask, FALSE, 0, <<>>),
              IF has_mask THEN ScopedInt(mask, Scope) ELSE Nothing)
      /\ open' = Append(CountElement,
                   Block("Named", "pairs", IF has_mask THEN mask ELSE Scope, Bits(has_mask, FALSE)))
      /\ last_if' = NoIf

WritePair(x, name) ==
  /\ Takes("pairs")
  /\ Emit(<<>>, "pair", Scope, Token("Pair", FALSE, FALSE, 0, <<>>),
          Join(ScopedInt(InScope(x), Scope), CString(name)))
  /\ open' = CountElement
  /\ last_if' = NoIf

WriteNumeric(x, format, name) ==
  /\ Takes("commands") /\ InScope(x) # 0
  /\ Emit(<<Opcode.Numeric + format>>, "command", Scope, Token("Numeric", FALSE, FALSE, format, <<>>),
          Join(ScopedInt(InScope(x), Scope), CString(name)))
  /\ open' = CountElement
  /\ last_if' = NoIf

\* The fields that all three conditionals begin with.
IfFields(shift, mask, has_label, label) ==
  Join(OneByte(shift), Join(ScopedInt(mask, Scope), Label(has_label, label)))

BeginIf(op, shift, x, has_label, label) ==
  LET mask == InScope(x)
  IN  /\ Takes("commands") /\ mask # 0 /\ M!Bit(Scope, shift)
      /\ Emit(Reserved, "command", Scope, Token(op, has_label, FALSE, 0, <<>>),
              IfFields(shift, mask, has_label, label))
      /\ open' = Append(CountElement, Block(op, IF op = "GroupIf" THEN "commands" ELSE "pairs",
                                            mask, Bits(has_label, FALSE)))
      /\ last_if' = NoIf

\* The inline numeric form: nothing is counted and the byte is patched at once.
WriteIfNumeric(shift, x, has_label, label, format, negate, name) ==
  LET mask == InScope(x)
  IN  /\ Takes("commands") /\ mask # 0 /\ M!Bit(Scope, shift)
      /\ Emit(<<M!Or(Opcode.GroupIfNumeric + Bits(has_label, negate), format)>>, "command", Scope,
              Token("GroupIfNumeric", has_label, negate, format, <<>>),
              Join(IfFields(shift, mask, has_label, label), CString(name)))
      /\ open' = CountElement
      /\ last_if' = [mask |-> mask, needs_else |-> FALSE]

BeginElse(commands, has_label, label) ==
  /\ phase = "writing" /\ Len(written) < MaxTokens
  /\ last_if.mask # 0
  /\ Emit(Reserved, "postfix", Scope, Token("Else", has_label, commands, 0, <<>>),
          Label(has_label, label))
  /\ open' = Append(open, Block("Else", IF commands THEN "commands" ELSE "pairs",
                                last_if.mask, Bits(has_label, commands)))
  /\ last_if' = NoIf

\* The block is full and another element follows.
Spill ==
  /\ phase = "writing" /\ Len(written) < MaxTokens
  /\ open # <<>> /\ Inner.items = Limit(Inner) /\ ~Inner.ended /\ ~last_if.needs_else
  /\ Emit(Reserved, "postfix", Scope, Token("ContinueScope", FALSE, FALSE, 0, <<>>), Nothing)
  /\ open' = Append(open, Block("ContinueScope", Inner.kind, Scope, 0))
  /\ last_if' = NoIf

\* Ends the innermost block: or_byte_at() of its count and opcode.  Only a
\* GroupIf without a true branch is empty, has no label, and an Else follows.
Patch ==
  LET b      == Inner
      stored == IF StartsFromOne(b) THEN b.items - 1 ELSE b.items
      is_if  == b.op \in {"GroupIf", "GroupIfNamed"}
      outer  == Front(open)
  IN  /\ phase = "writing" /\ open # <<>> /\ ~last_if.needs_else
      /\ b.items > 0 \/ (b.op = "GroupIf" /\ ~written[b.entry].token.flag)
      /\ out' = [out EXCEPT ![b.pc] = M!Or(M!Or(@, stored), b.bits)]
      /\ written' = [written EXCEPT ![b.entry].token.items = b.items]
      /\ open' = IF b.op = "ContinueScope" THEN [outer EXCEPT ![Len(outer)].ended = TRUE] ELSE outer
      /\ last_if' = IF is_if THEN [mask |-> b.scope, needs_else |-> b.items = 0] ELSE NoIf
      /\ UNCHANGED <<type, compress, counted, phase>>

Finish(append_terminate) ==
  /\ phase = "writing" /\ open = <<>> /\ ~last_if.needs_else
  /\ phase' = "done"
  /\ \/ ~append_terminate /\ UNCHANGED <<out, counted, written>>
     \/ /\ append_terminate
        /\ out' = Append(out, Opcode.Terminate)
        /\ counted' = counted + 1
        /\ written' = Append(written, [at |-> Len(out) + 1, expects |-> "root", scope |-> Full,
                         token |-> Token("Terminate", FALSE, FALSE, 0, <<>>)])
  /\ UNCHANGED <<type, compress, open, last_if>>

BytesInit ==
  /\ type \in ProgramTypes
  /\ \E asked \in BOOLEAN : /\ compress = Compresses(type, asked)
                            /\ out = <<HeaderFor(type, asked)>>
  /\ counted = 1 /\ open = <<>> /\ last_if = NoIf /\ written = <<>> /\ phase = "writing"

BytesNext ==
  \/ \E a \in Arguments :
       \/ \E has_mask \in BOOLEAN : BeginNamed(has_mask, a.bits)
       \/ WritePair(a.bits, a.name)
       \/ WriteNumeric(a.bits, a.format, a.name)
       \/ \E op \in {"GroupIf", "GroupIfNamed"} : BeginIf(op, a.shift, a.bits, a.named, a.label)
       \/ WriteIfNumeric(a.shift, a.bits, a.named, a.label, a.format, a.negate, a.name)
       \/ \E commands \in BOOLEAN : BeginElse(commands, a.named, a.label)
  \/ Spill
  \/ Patch
  \/ \E append_terminate \in BOOLEAN : Finish(append_terminate)

BytesSpec == BytesInit /\ [][BytesNext]_bytevars

-----------------------------------------------------------------------------
(***************************************************************************)
(* The reader: one token at a time, told as the decoder is by its counts   *)
(* and scopes whether a pair or an opcode is next and under which mask.  A *)
(* read that throws is shown by a cursor that has not moved.               *)
(***************************************************************************)
ReadTo(next, fields) == [next |-> next, fields |-> fields]

ReadFixed(bytes, at, t) ==
  IF Len(bytes) - at + 1 < C!SizeOf(t) THEN ReadTo(at, <<>>)
  ELSE ReadTo(at + C!SizeOf(t), WordField(M!ToUnsigned(C!DecodeInt(t, bytes, at))))

ReadDint(bytes, at) ==
  LET got == C!DecodeDint(Unsigned, bytes, at) IN ReadTo(got.next, WordField(got.value))

\* A fixed value must lie in the scope, a condensed one must fit it.
InsideScope(word, scope) ==
  IF compress THEN M!ReadsAsScoped(scope, word) ELSE M!And(word, scope) = word

Scoped(raw, at, scope) ==
  IF raw.next = at \/ ~InsideScope(raw.fields[1].word, scope) THEN ReadTo(at, <<>>)
  ELSE IF compress THEN ReadTo(raw.next, WordField(M!Expand(scope, raw.fields[1].word, TRUE)))
  ELSE raw

ReadScoped(bytes, at, scope) ==
  Scoped(IF compress THEN ReadDint(bytes, at) ELSE ReadFixed(bytes, at, type), at, scope)

\* Mutant of ReadCString: the end of the program ends a text.
ReadCStringToEnd(bytes, at) ==
  LET ends == {k \in at .. Len(bytes) : bytes[k] = 0} \cup {Len(bytes) + 1}
      end  == CHOOSE k \in ends : \A j \in ends : k <= j
  IN  ReadTo(end + 1, TextField(SubSeq(bytes, at, end - 1)))

ReadCString(bytes, at) ==
  LET ends == {k \in at .. Len(bytes) : bytes[k] = 0}
      end  == CHOOSE k \in ends : \A j \in ends : k <= j
  IN  IF ends = {} THEN ReadTo(at, <<>>) ELSE ReadTo(end + 1, TextField(SubSeq(bytes, at, end - 1)))

\* read_scoped_group_mask_value(): the bit must exist and lie in the scope.
ReadShift(bytes, at, scope) ==
  IF at <= Len(bytes) /\ bytes[at] < type.digits /\ M!Bit(scope, bytes[at])
  THEN ReadTo(at + 1, WordField(bytes[at])) ELSE ReadTo(at, <<>>)

ReadField(kind, bytes, at, scope) ==
  CASE kind = "scoped" -> ReadScoped(bytes, at, scope)
    [] kind = "text"   -> ReadCString(bytes, at)
    [] kind = "shift"  -> ReadShift(bytes, at, scope)

\* The fields one behind the other; the first that cannot be read ends it.
Then(before, got) ==
  [ok |-> got.next # before.next, next |-> got.next, fields |-> before.fields \o got.fields]

ReadFields(kinds, bytes, at, scope) ==
  LET read[k \in 0 .. Len(kinds)] ==
        IF k = 0 THEN [ok |-> TRUE, next |-> at, fields |-> <<>>]
        ELSE IF read[k - 1].ok
        THEN Then(read[k - 1], ReadField(kinds[k], bytes, read[k - 1].next, scope))
        ELSE read[k - 1]
  IN  read[Len(kinds)]

OpOf(byte)  == CHOOSE op \in DOMAIN Opcode : Opcode[op] = 32 * (byte \div 32)
Flag(byte)  == (byte \div FlagBit) % 2 = 1
Low(byte)   == (byte \div LowBit) % 2 = 1

IfKinds(byte) == <<"shift", "scoped">> \o IF Flag(byte) THEN <<"text">> ELSE <<>>

FieldKinds(byte) ==
  LET op == OpOf(byte)
  IN  CASE op = "Named" -> IF Flag(byte) THEN <<"scoped">> ELSE <<>>
        [] op = "Numeric" -> <<"scoped", "text">>
        [] op \in {"GroupIf", "GroupIfNamed"} -> IfKinds(byte)
        [] op = "GroupIfNumeric" -> IfKinds(byte) \o <<"text">>
        [] op = "Else" -> IF Flag(byte) THEN <<"text">> ELSE <<>>
        [] op \in {"ContinueScope", "Terminate"} -> <<>>

\* decode_count_plus_one() and decode_count_direct() with the masks of the opcodes.
ItemsOf(byte) ==
  LET op == OpOf(byte)
  IN  CASE op = "Named" -> (byte % 16) + 1
        [] op \in {"GroupIf", "GroupIfNamed"} -> byte % 16
        [] op = "Else" -> (byte % 8) + 1
        [] op = "ContinueScope" -> (byte % 32) + 1
        [] op \in {"Numeric", "GroupIfNumeric", "Terminate"} -> 0

HasFormat(op) == op \in {"Numeric", "GroupIfNumeric"}
HasLow(op)    == op \in {"Else", "GroupIfNumeric"}

\* validate_numeric_opcode(), the reserved bits of Terminate, and what may begin here.
LegalOpcode(byte, expects) ==
  LET op == OpOf(byte)
  IN  /\ op = "Numeric" => ~Flag(byte) /\ ~Low(byte)
      /\ expects = "postfix" <=> op \in {"Else", "ContinueScope"}
      /\ op = "Terminate" => expects = "root" /\ byte = Opcode.Terminate

HeadToken(byte, fields) ==
  LET op == OpOf(byte)
  IN  [op |-> op, flag |-> op # "ContinueScope" /\ Flag(byte), low |-> HasLow(op) /\ Low(byte),
       format |-> IF HasFormat(op) THEN byte % 8 ELSE 0, items |-> ItemsOf(byte), fields |-> fields]

Unread(at) == [next |-> at]

PairRead(got, at) ==
  IF got.ok THEN [next |-> got.next, token |-> Token("Pair", FALSE, FALSE, 0, got.fields)]
  ELSE Unread(at)

CommandRead(got, byte, at) ==
  IF got.ok THEN [next |-> got.next, token |-> HeadToken(byte, got.fields)] ELSE Unread(at)

ReadToken(bytes, at, expects, scope) ==
  IF at > Len(bytes) THEN Unread(at)
  ELSE IF expects = "pair"
  THEN PairRead(ReadFields(<<"scoped", "text">>, bytes, at, scope), at)
  ELSE IF ~LegalOpcode(bytes[at], expects) THEN Unread(at)
  ELSE CommandRead(ReadFields(FieldKinds(bytes[at]), bytes, at + 1, scope), bytes[at], at)

-----------------------------------------------------------------------------
\* A token ends where the next one begins.
End(k) == IF k < Len(written) THEN written[k + 1].at ELSE Len(out) + 1

Reads(bytes, w) == ReadToken(bytes, w.at, w.expects, w.scope)

(* The size that the counting pass finds is the size that the writing pass *)
(* fills, opcode by opcode, and an opcode that is still to be patched is a *)
(* byte already written whose bits are all clear.                          *)
SizesAgree ==
  /\ counted = Len(out)
  /\ \A k \in DOMAIN open : open[k].pc <= Len(out) /\ out[open[k].pc] = Opcode.Terminate

(* The header and every token are read back as they were meant: the count  *)
(* of each block, patched in after everything inside it, its flags, and    *)
(* every field, condensed or not, up to the byte where the next begins.    *)
ReadsWhatWasWritten ==
  phase = "done" =>
    /\ HeaderError(out) = "none"
    /\ StorageTypeBase(out[1]) = StorageTypeOf(type)
    /\ StorageTypeIsCompressed(out[1]) = compress
    /\ \A k \in DOMAIN written :
         Reads(out, written[k]) = [next |-> End(k), token |-> written[k].token]

(* A program that is cut off anywhere inside a token is noticed there.     *)
CutIsNoticed ==
  phase = "done" =>
    \A k \in DOMAIN written : \A n \in written[k].at - 1 .. End(k) - 2 :
      Reads(SubSeq(out, 1, n), written[k]) = [next |-> written[k].at]
=============================================================================
