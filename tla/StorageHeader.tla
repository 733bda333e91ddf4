---------------------------- MODULE StorageHeader ----------------------------
(***************************************************************************)
(* The first byte of a program: which integer type its values have and     *)
(* whether the values and masks in it are condensed (eEnumStorageType and  *)
(* the functions of enum_ir.hpp about it).  An integer type is             *)
(* [digits, signed]; ByteDigits is the width of a byte.                    *)
(***************************************************************************)
EXTENDS Integers, Sequences

CONSTANT ByteDigits

ASSUME ByteDigitsAssumption == ByteDigits \in Nat \ {0}

IsSignedFlag == 4
CompressFlag == 8

\* sizeof() is 1, 2, 4 or 8.
WidthCodes == 0 .. 3
StorageTypes == [digits : {ByteDigits * 2^w : w \in WidthCodes}, signed : BOOLEAN]

StorageTypeOf(t) ==
  (CHOOSE w \in WidthCodes : t.digits = ByteDigits * 2^w) + IF t.signed THEN IsSignedFlag ELSE 0

\* output_program_impl() ignores compress for a type of one byte.
Compresses(t, compress) == compress /\ t.digits > ByteDigits

HeaderFor(t, compress) ==
  StorageTypeOf(t) + IF Compresses(t, compress) THEN CompressFlag ELSE 0

\* read_storage_header() of the bytes of a program, or why it throws.
EmptyInput     == "EnumParseEmptyInput"
HeaderMismatch == "EnumParseHeaderMismatch"

HeaderError(bytes) ==
  IF bytes = <<>> THEN EmptyInput
  ELSE IF bytes[1] >= 2 * CompressFlag THEN HeaderMismatch ELSE "none"

StorageTypeBase(header)         == header % CompressFlag
StorageTypeIsCompressed(header) == (header \div CompressFlag) % 2 = 1
=============================================================================
