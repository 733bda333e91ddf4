----------------------------- MODULE EnumEncoder -----------------------------
(***************************************************************************)
(* The encode half of constexpr/enum_ir.hpp: the program that an item      *)
(* graph is written as.                                                    *)
(*                                                                         *)
(* A block holds as many elements as its count field can express; the rest *)
(* follow in blocks of their own, each after a ContinueScope opcode.  The  *)
(* source recurses from one block into its continuation: what it emits is  *)
(* the flat sequence written here.                                         *)
(***************************************************************************)
EXTENDS EnumProgram, SequencesExt

(***************************************************************************)
(* Blocks.  max_items_for_block() and does_count_start_from_one() give the *)
(* limit and the lowest count of each.                                     *)
(***************************************************************************)
AtMost(limit, n) == IF n < limit THEN n ELSE limit

\* Mutant of StoredCount: the field of a block that counts from one is not reduced.
RawCount(from, n) == n

StoredCount(from, n) == n - from

\* Mutant of StartsBlock: only the first block may overflow.
StartsSecond(k, limit) == k = limit + 1

\* Element k opens a continuation block.
StartsBlock(k, limit) == k > limit /\ (k - limit - 1) % ContLimit = 0

\* A list of elements, each a sequence of tokens, behind a block of `limit'.
InBlocks(elements, limit) ==
  LET n == Len(elements)
      continue(k) == [op |-> "ContinueScope",
                      count |-> StoredCount(1, AtMost(ContLimit, n - k + 1))]
  IN  FlattenSeq([k \in 1 .. n |->
        IF StartsBlock(k, limit) THEN <<continue(k)>> \o elements[k] ELSE elements[k]])

-----------------------------------------------------------------------------
(***************************************************************************)
(* Lists of the graph.                                                     *)
(***************************************************************************)
Commands(items, first) ==
  LET from[c \in OptId] == IF c = 0 THEN <<>> ELSE <<items[c].command>> \o from[items[c].next]
  IN  from[first]

PairsOf(items, named) ==
  LET from[p \in OptId] == IF p = 0 THEN <<>> ELSE <<items[p]>> \o from[items[p].next]
  IN  from[items[named].pairs]

\* has_only_one_Numeric() and has_only_one_Named_with_no_bitmask()
OnlyCommand(items, g, kind) ==
  /\ g # 0
  /\ items[items[g].cmds].next = 0
  /\ items[items[items[g].cmds].command].kind = kind
OnlyNumeric(items, g) == OnlyCommand(items, g, "Numeric")
OnlyNamed(items, g) ==
  OnlyCommand(items, g, "Named") /\ items[items[items[g].cmds].command].mask = {}

Inlined(items, g) == items[items[items[g].cmds].command]

(***************************************************************************)
(* Which branch a Conditional writes first, and in what form.  A lone      *)
(* Numeric goes inline, from the else side if need be, which `negate'      *)
(* tells; a lone Named without a mask goes as bare pairs.                  *)
(***************************************************************************)
FirstForm(items, cond) ==
  IF OnlyNumeric(items, cond.true_group) THEN [op |-> "GroupIfNumeric", negate |-> FALSE]
  ELSE IF OnlyNumeric(items, cond.false_group) THEN [op |-> "GroupIfNumeric", negate |-> TRUE]
  ELSE IF OnlyNamed(items, cond.true_group) THEN [op |-> "GroupIfNamed", negate |-> FALSE]
  ELSE [op |-> "GroupIf", negate |-> FALSE]

IfGroup(items, cond) ==
  IF FirstForm(items, cond).negate THEN cond.false_group ELSE cond.true_group
ElseGroup(items, cond) ==
  IF FirstForm(items, cond).negate THEN cond.true_group ELSE cond.false_group

LabelOf(items, g) == IF g = 0 THEN NoName ELSE items[g].name

-----------------------------------------------------------------------------
(***************************************************************************)
(* The encode() of each kind of command, on the whole of the graph below   *)
(* it: encode[i] is what command i is written as.                          *)
(***************************************************************************)
PairsAsTokens(items, named) ==
  LET pairs == PairsOf(items, named)
  IN  [k \in DOMAIN pairs |->
         <<[op |-> "Pair", value |-> pairs[k].value, name |-> pairs[k].name]>>]

NamedToken(named, n) ==
  [op |-> "Named", has_mask |-> named.mask # {}, mask |-> named.mask,
   count |-> StoredCount(1, AtMost(PairLimit, n))]
NumericToken(numeric) ==
  [op |-> "Numeric", mask |-> numeric.mask, format |-> numeric.format, name |-> numeric.name]
\* least_set_bit_index(): the builder made sure that there is one bit only.
Shift(selector) == CHOOSE b \in selector : TRUE

IfToken(op, cond, label, n) ==
  [op |-> op, shift |-> Shift(cond.group_bitmask), mask |-> cond.bitmask, label |-> label,
   count |-> StoredCount(0, AtMost(IfLimit, n))]
IfNumericToken(cond, label, negate, numeric) ==
  [op |-> "GroupIfNumeric", shift |-> Shift(cond.group_bitmask), mask |-> cond.bitmask,
   label |-> label, format |-> numeric.format, negate |-> negate, name |-> numeric.name]
ElseToken(label, commands, n) ==
  [op |-> "Else", label |-> label, commands |-> commands,
   count |-> StoredCount(1, AtMost(ElseLimit, n))]

EncodedCommands(items) ==
  LET encode[i \in ItemIds] ==
        LET cmd == items[i]
            commandsIn(g) ==
              LET list == IF g = 0 THEN <<>> ELSE Commands(items, items[g].cmds)
              IN  [k \in DOMAIN list |-> encode[list[k]]]
            pairsIn(g) == PairsAsTokens(items, items[items[g].cmds].command)
            pairs      == PairsAsTokens(items, i)
            form       == FirstForm(items, cmd)
            if_group   == IfGroup(items, cmd)
            else_group == ElseGroup(items, cmd)
            if_list    == IF form.op = "GroupIfNamed" THEN pairsIn(if_group)
                          ELSE commandsIn(if_group)
            else_list  == IF OnlyNamed(items, else_group) THEN pairsIn(else_group)
                          ELSE commandsIn(else_group)
            if_part ==
              IF form.op = "GroupIfNumeric"
              THEN <<IfNumericToken(cmd, LabelOf(items, if_group), form.negate,
                                    Inlined(items, if_group))>>
              ELSE <<IfToken(form.op, cmd, LabelOf(items, if_group), Len(if_list))>>
                     \o InBlocks(if_list, IfLimit)
            else_part ==
              IF else_group = 0 THEN <<>>
              ELSE <<ElseToken(LabelOf(items, else_group), ~OnlyNamed(items, else_group),
                               Len(else_list))>>
                     \o InBlocks(else_list, ElseLimit)
        IN  CASE cmd.kind = "Named" ->
                   <<NamedToken(cmd, Len(pairs))>> \o InBlocks(pairs, PairLimit)
              [] cmd.kind = "Numeric" -> <<NumericToken(cmd)>>
              [] cmd.kind = "Conditional" -> if_part \o else_part
  IN  encode

\* The program of a graph: the root list has no block limit.
Program(items, first) ==
  LET list   == Commands(items, first)
      encode == EncodedCommands(items)
  IN  FlattenSeq([k \in DOMAIN list |-> encode[list[k]]])

(***************************************************************************)
(* The assertions of encode() that a graph from the builder may meet: no   *)
(* Named without a pair, a branch for each Conditional, a command in each  *)
(* branch, and an inline Numeric that covers the whole of its conditional. *)
(***************************************************************************)
Reachable(items, first) ==
  LET below[i \in ItemIds] ==
        {i} \union
          IF items[i].kind # "Conditional" THEN {}
          ELSE UNION {UNION {below[c] : c \in ToSet(Commands(items, items[g].cmds))} :
                        g \in {items[i].true_group, items[i].false_group} \ {0}}
  IN  UNION {below[c] : c \in ToSet(Commands(items, first))}

Encodable(items, first) ==
  \A i \in Reachable(items, first) :
    /\ items[i].kind = "Named" => items[i].pairs # 0
    /\ items[i].kind = "Conditional" =>
         LET groups == {items[i].true_group, items[i].false_group} \ {0}
         IN  /\ groups # {}
             /\ \A g \in groups : items[g].cmds # 0
             /\ FirstForm(items, items[i]).op = "GroupIfNumeric" =>
                  Inlined(items, IfGroup(items, items[i])).mask = items[i].bitmask
=============================================================================
