------------------------------ MODULE AnyEnum --------------------------------
(***************************************************************************)
(* A description whose integer type is chosen by the program's header when *)
(* it is decoded (AnyEnumBuilder, AnyEnumDescription, AnyEnumValueView).   *)
(* Values travel through it as 64 bits, whatever the type.  The program is *)
(* the caller's buffer: its first byte and whether what follows is sound.  *)
(***************************************************************************)
EXTENDS Integers, Sequences

CONSTANTS
  AnyDigits,  \* the digits of an int8_t; the other types have 2, 4 and 8 times as many
  Headers,    \* the first bytes of the programs
  Asked       \* the values that are asked for

ASSUME AnyAssumption == AnyDigits \in Nat \ {0} /\ Headers \subseteq Nat

VARIABLES
  program,    \* [bytes, sound] in the caller's buffer
  builder,    \* decode_program() was called: the builder has a view of the buffer
  described,  \* the type of the description, or NoType
  view,       \* what the latest value_signed() or value_unsigned() gave, or NoView
  refusal     \* ... or why it threw, or NoRefusal

anyvars == <<program, builder, described, view, refusal>>

H == INSTANCE StorageHeader WITH ByteDigits <- AnyDigits
W == INSTANCE MaskedBits WITH Digits <- 8 * AnyDigits          \* std::uint64_t
V == INSTANCE MaskedBits WITH Digits <- described.digits       \* of the description
I == INSTANCE IntCodec WITH Payload <- AnyDigits - 1

NoType    == [digits |-> 0, signed |-> FALSE]
NoView    == [type |-> NoType, value |-> 0, bits |-> 0]
NoRefusal == [type |-> NoType, value |-> 0, signed |-> FALSE]

Type(times, signed) == [digits |-> times * AnyDigits, signed |-> signed]

-----------------------------------------------------------------------------
\* The switch of Build(), for the bases from 0 on.
\* Mutant of Dispatch: two cases in the wrong order.
DispatchSwapped == <<Type(1, FALSE), Type(2, FALSE), Type(4, FALSE), Type(8, FALSE),
                     Type(1, TRUE), Type(2, TRUE), Type(8, TRUE), Type(4, TRUE)>>

Dispatch == <<Type(1, FALSE), Type(2, FALSE), Type(4, FALSE), Type(8, FALSE),
              Type(1, TRUE), Type(2, TRUE), Type(4, TRUE), Type(8, TRUE)>>

DispatchedType(bytes) == Dispatch[H!StorageTypeBase(bytes[1]) + 1]

\* EnumDecoder::read_header() of a decoder for type t.
DecoderAccepts(t, bytes) ==
  H!HeaderError(bytes) = "none" /\ H!StorageTypeBase(bytes[1]) = H!StorageTypeOf(t)

\* The caller writes another program over the buffer.
WriteProgram(header, sound) ==
  /\ program' = [bytes |-> header, sound |-> sound]
  /\ UNCHANGED <<builder, described, view, refusal>>

DecodeProgram == builder' = TRUE /\ UNCHANGED <<program, described, view, refusal>>

\* Build() reads the buffer as it is now.  If it throws, nothing is built.
Build ==
  /\ builder
  /\ H!HeaderError(program.bytes) = "none"
  /\ DecoderAccepts(DispatchedType(program.bytes), program.bytes) /\ program.sound
  /\ described' = DispatchedType(program.bytes)
  /\ view' = NoView /\ refusal' = NoRefusal
  /\ UNCHANGED <<program, builder>>

\* output_program() into the buffer, after the size was asked for.
OutputProgram(compress) ==
  /\ described # NoType
  /\ program' = [bytes |-> <<H!HeaderFor(described, compress)>>, sound |-> TRUE]
  /\ UNCHANGED <<builder, described, view, refusal>>

-----------------------------------------------------------------------------
LeastOf(t)    == IF t.signed THEN -(2^(t.digits - 1)) ELSE 0
GreatestOf(t) == IF t.signed THEN 2^(t.digits - 1) - 1 ELSE 2^t.digits - 1

Views(value, bits) ==
  /\ view' = [type |-> described, value |-> value, bits |-> bits] /\ refusal' = NoRefusal
  /\ UNCHANGED <<program, builder, described>>

Refuses(value, signed) ==
  /\ refusal' = [type |-> described, value |-> value, signed |-> signed] /\ view' = NoView
  /\ UNCHANGED <<program, builder, described>>

\* The argument is a std::uint64_t, resp. a std::int64_t.
ValueUnsigned(value) ==
  /\ described # NoType /\ value \in 0 .. W!Modulus - 1
  /\ \/ ~described.signed /\ value <= GreatestOf(described)
        /\ Views(value, V!ToUnsigned(value))
     \/ (described.signed \/ value > GreatestOf(described)) /\ Refuses(value, FALSE)

ValueSigned(value) ==
  /\ described # NoType /\ value \in -(W!Modulus \div 2) .. W!Modulus \div 2 - 1
  /\ \/ described.signed /\ LeastOf(described) <= value /\ value <= GreatestOf(described)
        /\ Views(value, V!ToUnsigned(value))
     \/ (~described.signed \/ value < LeastOf(described) \/ value > GreatestOf(described))
        /\ Refuses(value, TRUE)

\* The value that to_string() renders.
\* Mutant of TypedValueFromBits: the sign is lost.
TypedValueUnextended(t, bits) == V!ToUnsigned(bits)

TypedValueFromBits(t, bits) ==
  IF t.signed THEN V!SignExtend(V!ToUnsigned(bits), t.digits - 1) ELSE V!ToUnsigned(bits)

-----------------------------------------------------------------------------
AnyInit ==
  /\ program = [bytes |-> <<>>, sound |-> FALSE] /\ builder = FALSE
  /\ described = NoType /\ view = NoView /\ refusal = NoRefusal

AnyNext ==
  \/ \E header \in {<<>>} \cup {<<h>> : h \in Headers}, sound \in BOOLEAN :
       WriteProgram(header, sound)
  \/ DecodeProgram
  \/ Build
  \/ \E compress \in BOOLEAN : OutputProgram(compress)
  \/ \E value \in Asked : ValueUnsigned(value) \/ ValueSigned(value)

AnySpec == AnyInit /\ [][AnyNext]_anyvars

-----------------------------------------------------------------------------
(* A view shows the value that was asked for, though it keeps it as the    *)
(* unsigned bits of the description's type; and a value is refused only if *)
(* the type does not have it or the other of the two functions is for it.  *)
ViewsShowTheirValue ==
  /\ view # NoView => TypedValueFromBits(described, view.bits) = view.value
  /\ refusal # NoRefusal =>
       \/ refusal.signed # described.signed
       \/ refusal.value \notin I!Values(described)

(* A header that read_storage_header() lets through names one type: Build  *)
(* dispatches to it, the decoder of that type and of no other accepts the  *)
(* program, and the two assertions behind the switch cannot be reached.  A *)
(* description that is written out, compressed or not, is built again with *)
(* the type it had.                                                        *)
DispatchIsTotal ==
  /\ H!HeaderError(program.bytes) = "none" =>
       {t \in H!StorageTypes : DecoderAccepts(t, program.bytes)} = {DispatchedType(program.bytes)}
  /\ described # NoType =>
       \A compress \in BOOLEAN : DispatchedType(<<H!HeaderFor(described, compress)>>) = described
=============================================================================
