----------------------------- MODULE EnumProgram -----------------------------
(***************************************************************************)
(* The programs that the encoder of constexpr/enum_ir.hpp writes and the   *)
(* decoder of constexpr/enum_decode.hpp reads: sequences of tokens, one    *)
(* for each opcode with the fields that follow it and one for each pair.   *)
(* `count' is the field as it stands in the opcode byte.  A value or mask  *)
(* field reads back as what was written, compressed or not, because both   *)
(* sides condense it under the same scope bitmask.                         *)
(***************************************************************************)
EXTENDS EnumIR

CONSTANTS
  IfLimit,     \* most elements of the first block of GroupIf and GroupIfNamed
  ElseLimit,   \* ... of Else
  PairLimit,   \* ... of Named
  ContLimit,   \* ... of ContinueScope
  Shifts       \* the values a group_shift byte may have

ASSUME LimitsAssumption == {IfLimit, ElseLimit, PairLimit, ContLimit} \subseteq Nat \ {0}
ASSUME ShiftsAssumption == Bits \subseteq Shifts

\* The If counts may be 0 and are stored as they are; the others start from
\* one and are stored as one less.
IfCounts     == 0 .. IfLimit
Below(limit) == 0 .. limit - 1

NamedTokens ==
  {t \in [op : {"Named"}, has_mask : BOOLEAN, mask : Mask, count : Below(PairLimit)] :
     ~t.has_mask => t.mask = {}}
PairTokens == [op : {"Pair"}, value : Mask, name : Names]
NumericTokens == [op : {"Numeric"}, mask : Mask, format : Formats, name : Names]
IfTokens == [op : {"GroupIf", "GroupIfNamed"}, shift : Shifts, mask : Mask,
             label : GroupNames, count : IfCounts]
IfNumericTokens == [op : {"GroupIfNumeric"}, shift : Shifts, mask : Mask, label : GroupNames,
                    format : Formats, negate : BOOLEAN, name : Names]
ElseTokens == [op : {"Else"}, label : GroupNames, commands : BOOLEAN, count : Below(ElseLimit)]
ContinueTokens == [op : {"ContinueScope"}, count : Below(ContLimit)]
TerminateTokens == [op : {"Terminate"}]

CommandTokens == NamedTokens \union NumericTokens \union IfTokens \union IfNumericTokens
PostfixTokens == ElseTokens \union ContinueTokens \union TerminateTokens
Token == CommandTokens \union PairTokens \union PostfixTokens

\* What the reader finds behind the last token.
Eof == [op |-> "Eof"]
=============================================================================
