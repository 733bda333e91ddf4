------------------------------- MODULE EnumIR -------------------------------
(***************************************************************************)
(* The stored form of an enum description: constexpr/enum_ir.hpp's item    *)
(* variants, as they lie in the fixed-capacity item heap of                *)
(* constexpr/heap.hpp, and what the renderer reads out of them.            *)
(*                                                                         *)
(* An enum value, and every bitmask over it, is the set of its one bits:   *)
(* `value & mask` is an intersection and "is a subset of the scope" is     *)
(* \subseteq.  A stored name is the name itself: heap.hpp's string ids     *)
(* never move, and the capacity of the string heap is counted in the       *)
(* modules that add strings.  Id 0 is "none", as in the source.            *)
(***************************************************************************)
EXTENDS Naturals, Sequences

CONSTANTS
  Bits,        \* the bits of the enum's underlying type
  Names,       \* the strings a description may store
  NoName,      \* string id 0: a group without a name
  Formats,     \* the Numeric format flag combinations in use
  ItemSpace    \* number of slots of the item heap

ASSUME NoNameAssumption == NoName \notin Names
ASSUME ItemSpaceAssumption == ItemSpace \in Nat

Mask       == SUBSET Bits
ItemIds    == 1 .. ItemSpace
OptId      == 0 .. ItemSpace
GroupNames == Names \union {NoName}

(***************************************************************************)
(* The alternatives of the stored variant.  `has_mask' of Named is         *)
(* `mask # {}': the builder and the decoder refuse a zero command mask.    *)
(***************************************************************************)
PairsItems   == [kind : {"Pairs"}, value : Mask, name : Names, next : OptId]
NamedItems   == [kind : {"Named"}, mask : Mask, pairs : OptId]
NumericItems == [kind : {"Numeric"}, mask : Mask, format : Formats, name : Names]
GroupItems   == [kind : {"Group"}, name : GroupNames, cmds : OptId]
CondItems    == [kind : {"Conditional"}, group_bitmask : Mask, bitmask : Mask,
                 true_group : OptId, false_group : OptId]
CmdsItems    == [kind : {"Cmds"}, command : OptId, next : OptId]
FreeItems    == [kind : {"Free"}]
Item == PairsItems \union NamedItems \union NumericItems \union GroupItems
          \union CondItems \union CmdsItems \union FreeItems

FreeItem == [kind |-> "Free"]
PairsItem(value, name) ==
  [kind |-> "Pairs", value |-> value, name |-> name, next |-> 0]
NamedItem(mask) == [kind |-> "Named", mask |-> mask, pairs |-> 0]
NumericItem(mask, format, name) ==
  [kind |-> "Numeric", mask |-> mask, format |-> format, name |-> name]
GroupItem(name) == [kind |-> "Group", name |-> name, cmds |-> 0]
CmdsItem(command) == [kind |-> "Cmds", command |-> command, next |-> 0]
CondItem(group_bitmask, bitmask, true_group, false_group) ==
  [kind |-> "Conditional", group_bitmask |-> group_bitmask, bitmask |-> bitmask,
   true_group |-> true_group, false_group |-> false_group]

CommandKinds == {"Named", "Numeric", "Conditional"}

(***************************************************************************)
(* What rendering `v' consults, in order: every pair and every numeric     *)
(* field met by render_cmds as it follows the lists and takes, at each     *)
(* conditional, the branch that v selects.  Whether the pair matches, and  *)
(* the text it then adds, follow from the line and v alone.                *)
(***************************************************************************)
PairLine(mask, value, name, group) ==
  [is |-> "pair", mask |-> mask, value |-> value, name |-> name, group |-> group]
NumericLine(mask, format, name, group) ==
  [is |-> "numeric", mask |-> mask, format |-> format, name |-> name, group |-> group]

PairLines(items, first, mask, group) ==
  LET from[p \in OptId] ==
        IF p = 0 THEN <<>>
        ELSE <<PairLine(mask, items[p].value, items[p].name, group)>>
               \o from[items[p].next]
  IN  from[first]

BranchFor(cond, v) ==
  IF cond.group_bitmask \cap v # {} THEN cond.true_group ELSE cond.false_group

Consulted(items, first, v) ==
  LET from[c \in OptId, scope \in Mask, group \in GroupNames] ==
        IF c = 0 THEN <<>>
        ELSE LET cmd == items[items[c].command]
                 lines ==
                   CASE cmd.kind = "Named" ->
                          PairLines(items, cmd.pairs,
                                    IF cmd.mask # {} THEN cmd.mask ELSE scope, group)
                     [] cmd.kind = "Numeric" ->
                          <<NumericLine(cmd.mask, cmd.format, cmd.name, group)>>
                     [] cmd.kind = "Conditional" ->
                          LET b == BranchFor(cmd, v)
                          IN  IF b = 0 THEN <<>>
                              ELSE from[items[b].cmds, cmd.bitmask, items[b].name]
             IN  lines \o from[items[c].next, scope, group]
  IN  from[first, Bits, NoName]

\* The values already stored in one Named command, along its pair list.
PairValues(items, named) ==
  LET from[p \in OptId] ==
        IF p = 0 THEN {} ELSE {items[p].value} \union from[items[p].next]
  IN  from[items[named].pairs]
=============================================================================
