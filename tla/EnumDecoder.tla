----------------------------- MODULE EnumDecoder -----------------------------
(***************************************************************************)
(* EnumDecoder of constexpr/enum_decode.hpp: it rebuilds an item graph     *)
(* from a program.  Its recursive descent is a stack: a "branch" entry is  *)
(* a run of parse_command_branch, parse_pair_branch or                     *)
(* parse_root_commands, a "cond" entry one of parse_conditional_command.   *)
(*                                                                         *)
(* `next' is the token under the cursor, which the decoder looks at before *)
(* it decides whether to read it; each action that reads it is given the   *)
(* token that comes `after' it.                                            *)
(***************************************************************************)
EXTENDS EnumProgram, FiniteSets

CONSTANTS
  NameLen,           \* name -> its length
  StringSpace,       \* characters (NULs included) the string heap holds
  ThrowOnTerminate,  \* throw_on_terminate of decode_program
  Tokens             \* the tokens a program may be made of

ASSUME NameLenAssumption == NameLen \in [Names -> Nat]
ASSUME StringSpaceAssumption == StringSpace \in Nat
ASSUME TerminateAssumption == ThrowOnTerminate \in BOOLEAN
ASSUME TokensAssumption == Tokens \subseteq Token

VARIABLES
  items,    \* Items<N>::memory of m_enum
  used,     \* Items<N>::next_id
  chars,    \* Strings<N>::memory.size()
  cmds_id,  \* Enum::m_cmds_id
  stack,    \* the calls of the parse functions in progress, innermost last
  next,     \* the token at m_cursor, Eof at m_end
  status    \* "reading", "done", "threw" or "misread"

heap == <<items, used, chars>>
vars == <<items, used, chars, cmds_id, stack, next, status>>

(***************************************************************************)
(* Stack entries.  A branch holds commands or pairs: `head' and `tail' are *)
(* its first and last command node, or its Named item and last pair; `own' *)
(* is the mask of the Named item, `left' what is still to be read of the   *)
(* present block.                                                          *)
(***************************************************************************)
Branches == [is : {"branch"}, role : {"Root", "Named", "If", "Else"},
             holds : {"commands", "pairs"}, scope : Mask, own : Mask, label : GroupNames,
             left : Nat, head : OptId, tail : OptId]
Conds == [is : {"cond"}, bit : Mask, mask : Mask, negate : BOOLEAN, else_read : BOOLEAN,
          true_group : OptId, false_group : OptId]

Branch(role, holds, scope, own, label, left) ==
  [is |-> "branch", role |-> role, holds |-> holds, scope |-> scope, own |-> own,
   label |-> label, left |-> left, head |-> 0, tail |-> 0]
Cond(t, true_group, false_group, negate) ==
  [is |-> "cond", bit |-> {t.shift}, mask |-> t.mask, negate |-> negate, else_read |-> FALSE,
   true_group |-> true_group, false_group |-> false_group]

Top == stack[Len(stack)]
WithTop(e) == [stack EXCEPT ![Len(stack)] = e]
Popped == SubSeq(stack, 1, Len(stack) - 1)

ExpectsCommand == Top.is = "branch" /\ Top.holds = "commands" /\ (Top.role = "Root" \/ Top.left > 0)
ExpectsPair    == Top.is = "branch" /\ Top.holds = "pairs" /\ Top.left > 0
\* Mutant of BlockRead: a block is not over where the program is.
BlockReadInside == /\ Top.is = "branch" /\ Top.role # "Root" /\ Top.left = 0
                   /\ next.op \notin {"Eof", "Terminate"}

BlockRead      == Top.is = "branch" /\ Top.role # "Root" /\ Top.left = 0
ConditionRead  == Top.is = "cond" /\ (Top.else_read \/ next.op # "Else")
ElseFollows    == Top.is = "cond" /\ ~Top.else_read /\ next.op = "Else"

\* One element of the block under way is being read.
OneLess(b) == IF b.role = "Root" THEN b ELSE [b EXCEPT !.left = @ - 1]

-----------------------------------------------------------------------------
(***************************************************************************)
(* The heaps: ensure_item_capacity(), ensure_string_capacity().            *)
(***************************************************************************)
Room(n) == used + n <= ItemSpace
Needed(name) == IF name = NoName THEN 0 ELSE NameLen[name] + 1
\* Mutant of Fits: the capacity of the string heap is not tested.
AlwaysFits(n) == TRUE

Fits(n) == chars + n <= StringSpace

\* append_command_node() on a branch.
AppendNode(its, b, command, c) ==
  LET stored == [its EXCEPT ![c] = CmdsItem(command)]
  IN  IF b.head = 0 THEN stored ELSE [stored EXCEPT ![b.tail].next = c]

\* Mutant of Appended: the tail stays with the first node.
AppendedToFirst(b, c) == [b EXCEPT !.head = IF @ = 0 THEN c ELSE @, !.tail = IF @ = 0 THEN c ELSE @]

Appended(b, c) == [b EXCEPT !.head = IF @ = 0 THEN c ELSE @, !.tail = c]

-----------------------------------------------------------------------------
(***************************************************************************)
(* parse_command: one action for each kind of command.                     *)
(***************************************************************************)
\* Mutant of InScope: the parent's scope is not looked at.
NotZero(mask) == mask # {}

InScope(mask) == mask # {} /\ mask \subseteq Top.scope

NamedLegal == next.op = "Named" /\ (next.has_mask => InScope(next.mask))
NumericLegal == /\ next.op = "Numeric" /\ InScope(next.mask)
                /\ Fits(Needed(next.name)) /\ Room(2)
IfLegal == /\ next.op \in {"GroupIf", "GroupIfNamed"}
           /\ {next.shift} \subseteq Top.scope /\ InScope(next.mask)
           /\ Fits(Needed(next.label))
IfNumericLegal == /\ next.op = "GroupIfNumeric"
                  /\ {next.shift} \subseteq Top.scope /\ InScope(next.mask)
                  /\ Fits(Needed(next.label) + Needed(next.name)) /\ Room(3)

ReadNamed(after) ==
  LET mask == IF next.has_mask THEN next.mask ELSE Top.scope
  IN  /\ ExpectsCommand /\ NamedLegal
      /\ stack' = Append(WithTop(OneLess(Top)),
                         Branch("Named", "pairs", mask, next.mask, NoName, next.count + 1))
      /\ next' = after
      /\ UNCHANGED <<heap, cmds_id, status>>

ReadNumeric(after) ==
  LET n == used + 1
      c == used + 2
  IN  /\ ExpectsCommand /\ NumericLegal
      /\ items' = AppendNode([items EXCEPT ![n] = NumericItem(next.mask, next.format, next.name)],
                             Top, n, c)
      /\ used' = c
      /\ chars' = chars + Needed(next.name)
      /\ stack' = WithTop(Appended(OneLess(Top), c))
      /\ next' = after
      /\ UNCHANGED <<cmds_id, status>>

ReadIf(after) ==
  LET holds == IF next.op = "GroupIf" THEN "commands" ELSE "pairs"
  IN  /\ ExpectsCommand /\ IfLegal
      /\ chars' = chars + Needed(next.label)
      /\ stack' = WithTop(OneLess(Top))
                    \o <<Cond(next, 0, 0, FALSE),
                         Branch("If", holds, next.mask, {}, next.label, next.count)>>
      /\ next' = after
      /\ UNCHANGED <<items, used, cmds_id, status>>

ReadIfNumeric(after) ==
  LET n == used + 1
      c == used + 2
      g == used + 3
  IN  /\ ExpectsCommand /\ IfNumericLegal
      /\ items' = [items EXCEPT ![n] = NumericItem(next.mask, next.format, next.name),
                                ![c] = CmdsItem(n),
                                ![g] = [GroupItem(next.label) EXCEPT !.cmds = c]]
      /\ used' = g
      /\ chars' = chars + Needed(next.label) + Needed(next.name)
      /\ stack' = Append(WithTop(OneLess(Top)),
                         IF next.negate THEN Cond(next, 0, g, TRUE) ELSE Cond(next, g, 0, FALSE))
      /\ next' = after
      /\ UNCHANGED <<cmds_id, status>>

-----------------------------------------------------------------------------
(***************************************************************************)
(* The pairs of a branch.  Its Named item is stored with its first pair.   *)
(***************************************************************************)
PairLegal ==
  /\ next.op = "Pair" /\ next.value \subseteq Top.scope
  /\ Fits(Needed(next.name))
  /\ Room(IF Top.head = 0 THEN 2 ELSE 1)
  /\ Top.head # 0 => next.value \notin PairValues(items, Top.head)

ReadPair(after) ==
  LET named == IF Top.head = 0 THEN used + 1 ELSE Top.head
      p     == IF Top.head = 0 THEN used + 2 ELSE used + 1
      pair  == PairsItem(next.value, next.name)
  IN  /\ ExpectsPair /\ PairLegal
      /\ items' = IF Top.head = 0
                  THEN [items EXCEPT ![named] = [NamedItem(Top.own) EXCEPT !.pairs = p],
                                     ![p] = pair]
                  ELSE [items EXCEPT ![p] = pair, ![Top.tail].next = p]
      /\ used' = p
      /\ chars' = chars + Needed(next.name)
      /\ stack' = WithTop([OneLess(Top) EXCEPT !.head = named, !.tail = p])
      /\ next' = after
      /\ UNCHANGED <<cmds_id, status>>

-----------------------------------------------------------------------------
(***************************************************************************)
(* The end of a block: the branch goes on while a ContinueScope follows.   *)
(* A finished Named is appended to the branch it stands in; the branch of  *)
(* a conditional becomes a Group of it, unless it is an If branch in which *)
(* nothing was stored.                                                     *)
(***************************************************************************)
ReadContinue(after) ==
  /\ BlockRead /\ next.op = "ContinueScope"
  /\ stack' = WithTop([Top EXCEPT !.left = next.count + 1])
  /\ next' = after
  /\ UNCHANGED <<heap, cmds_id, status>>

Ends == BlockRead /\ next.op # "ContinueScope"

EndNamed ==
  LET c      == used + 1
      parent == stack[Len(stack) - 1]
  IN  /\ Ends /\ Top.role = "Named" /\ Room(1)
      /\ items' = AppendNode(items, parent, Top.head, c)
      /\ used' = c
      /\ stack' = [Popped EXCEPT ![Len(stack) - 1] = Appended(parent, c)]
      /\ UNCHANGED <<chars, cmds_id, next, status>>

\* wrap_single_command() puts the Named of a pair branch in a list of its own.
GroupSize == IF Top.holds = "pairs" THEN 2 ELSE 1
WithGroup(g) ==
  IF Top.holds = "pairs"
  THEN [items EXCEPT ![g - 1] = CmdsItem(Top.head),
                     ![g] = [GroupItem(Top.label) EXCEPT !.cmds = g - 1]]
  ELSE [items EXCEPT ![g] = [GroupItem(Top.label) EXCEPT !.cmds = Top.head]]

\* Mutant of InSide: the group read last is always the false one.
InFalse(cond, side, g) == [cond EXCEPT !.false_group = g]

InSide(cond, side, g) ==
  IF side THEN [cond EXCEPT !.true_group = g] ELSE [cond EXCEPT !.false_group = g]

EndBranch ==
  LET g    == used + GroupSize
      cond == stack[Len(stack) - 1]
      side == IF Top.role = "If" THEN TRUE ELSE cond.negate
  IN  /\ Ends /\ Top.role \in {"If", "Else"} /\ Top.head # 0 /\ Room(GroupSize)
      /\ items' = WithGroup(g)
      /\ used' = g
      /\ stack' = [Popped EXCEPT ![Len(stack) - 1] = InSide(cond, side, g)]
      /\ UNCHANGED <<chars, cmds_id, next, status>>

EndEmptyIf ==
  /\ Ends /\ Top.role = "If" /\ Top.head = 0
  /\ stack' = Popped
  /\ UNCHANGED <<heap, cmds_id, next, status>>

(***************************************************************************)
(* parse_optional_else_group, and the end of parse_conditional_command: a  *)
(* conditional without a branch is not stored.                             *)
(***************************************************************************)
ReadElse(after) ==
  LET holds == IF next.commands THEN "commands" ELSE "pairs"
  IN  /\ ElseFollows /\ Fits(Needed(next.label))
      /\ chars' = chars + Needed(next.label)
      /\ stack' = Append(WithTop([Top EXCEPT !.else_read = TRUE]),
                         Branch("Else", holds, Top.mask, {}, next.label, next.count + 1))
      /\ next' = after
      /\ UNCHANGED <<items, used, cmds_id, status>>

\* Mutant of IsEmpty: a conditional without a branch is stored.
NeverEmpty(cond) == FALSE

IsEmpty(cond) == cond.true_group = 0 /\ cond.false_group = 0

EndCond ==
  LET cond   == used + 1
      c      == used + 2
      parent == stack[Len(stack) - 1]
  IN  /\ ConditionRead /\ ~IsEmpty(Top) /\ Room(2)
      /\ items' = AppendNode([items EXCEPT ![cond] = CondItem(Top.bit, Top.mask, Top.true_group,
                                                              Top.false_group)],
                             parent, cond, c)
      /\ used' = c
      /\ stack' = [Popped EXCEPT ![Len(stack) - 1] = Appended(parent, c)]
      /\ UNCHANGED <<chars, cmds_id, next, status>>

DropCond ==
  /\ ConditionRead /\ IsEmpty(Top)
  /\ stack' = Popped
  /\ UNCHANGED <<heap, cmds_id, next, status>>

-----------------------------------------------------------------------------
(***************************************************************************)
(* The end of the program, and the programs that are refused.              *)
(***************************************************************************)
Finish ==
  /\ Top.is = "branch" /\ Top.role = "Root" /\ next = Eof
  /\ cmds_id' = Top.head
  /\ status' = "done"
  /\ UNCHANGED <<heap, stack, next>>

Terminate(after) ==
  /\ Top.is = "branch" /\ Top.role = "Root" /\ next.op = "Terminate"
  /\ IF ThrowOnTerminate \/ after # Eof
     THEN status' = "threw" /\ UNCHANGED cmds_id
     ELSE status' = "done" /\ cmds_id' = Top.head
  /\ next' = after
  /\ UNCHANGED <<heap, stack>>

\* An opcode stands where a pair is due, as in a program whose ContinueScope
\* was meant for another branch.  Its bytes are read as a pair: what comes of
\* that depends on the bytes, and the decoder no longer follows the tokens.
Misread ==
  /\ ExpectsPair /\ next.op \notin {"Pair", "Eof"}
  /\ status' = "misread"
  /\ UNCHANGED <<heap, cmds_id, stack, next>>

AtRootEnd == Top.role = "Root" /\ next.op \in {"Eof", "Terminate"}

\* Every exception discards the half-built enum: nothing else is left of it.
Refuse ==
  /\ \/ ExpectsCommand /\ ~AtRootEnd
          /\ ~NamedLegal /\ ~NumericLegal /\ ~IfLegal /\ ~IfNumericLegal
     \/ ExpectsPair /\ next.op \in {"Pair", "Eof"} /\ ~PairLegal
     \/ Ends /\ Top.role = "Named" /\ ~Room(1)
     \/ Ends /\ Top.role \in {"If", "Else"} /\ Top.head # 0 /\ ~Room(GroupSize)
     \/ Ends /\ Top.role = "Else" /\ Top.head = 0
     \/ ElseFollows /\ ~Fits(Needed(next.label))
     \/ ConditionRead /\ ~IsEmpty(Top) /\ ~Room(2)
  /\ status' = "threw"
  /\ UNCHANGED <<heap, cmds_id, stack, next>>

-----------------------------------------------------------------------------
Start(first) ==
  /\ items = [i \in ItemIds |-> FreeItem]
  /\ used = 0
  /\ chars = 0
  /\ cmds_id = 0
  /\ stack = <<Branch("Root", "commands", Bits, {}, NoName, 0)>>
  /\ next = first
  /\ status = "reading"

Read(after) ==
  \/ ReadNamed(after) \/ ReadNumeric(after) \/ ReadIf(after) \/ ReadIfNumeric(after)
  \/ ReadPair(after) \/ ReadContinue(after) \/ ReadElse(after) \/ Terminate(after)

Return == EndNamed \/ EndBranch \/ EndEmptyIf \/ EndCond \/ DropCond \/ Finish \/ Misread \/ Refuse

\* Any program at all.  Programs are bytes: where a pair is due they are read
\* as a pair, and nowhere else.
PairWhereDue == IF ExpectsPair THEN next.op \in {"Pair", "Eof"} ELSE next.op # "Pair"

Init == (\E first \in Tokens \union {Eof} : Start(first)) /\ PairWhereDue
Next == /\ status = "reading"
        /\ Return \/ \E after \in Tokens \union {Eof} : Read(after)
        /\ PairWhereDue'
Spec == Init /\ [][Next]_vars

-----------------------------------------------------------------------------
(***************************************************************************)
(* Properties.                                                             *)
(***************************************************************************)

(* Every variable holds what its C++ type can hold: the heaps stay within  *)
(* their capacity whatever program is read.                                *)
TypeOK ==
  /\ items \in [ItemIds -> Item]
  /\ used \in OptId
  /\ chars \in 0 .. StringSpace
  /\ cmds_id \in OptId
  /\ stack \in Seq(Branches \union Conds)
  /\ next \in Tokens \union {Eof}
  /\ status \in {"reading", "done", "threw", "misread"}

Stored(i, kinds) == i \in 1 .. used /\ items[i].kind \in kinds
Onward(i, j, kind) == j = 0 \/ (i < j /\ Stored(j, {kind}))
Earlier(i, j, kinds) == j < i /\ Stored(j, kinds)

LinksOf(i) ==
  LET x == items[i]
  IN  /\ x.kind = "Pairs" => Onward(i, x.next, "Pairs")
      /\ x.kind = "Named" => x.pairs # 0 /\ Onward(i, x.pairs, "Pairs")
      /\ x.kind = "Group" => Earlier(i, x.cmds, {"Cmds"})
      /\ x.kind = "Cmds" => /\ Onward(i, x.next, "Cmds")
                            /\ Earlier(i, x.command, CommandKinds)
      /\ x.kind = "Conditional" =>
           /\ x.true_group # 0 \/ x.false_group # 0
           /\ x.true_group # 0 => Earlier(i, x.true_group, {"Group"})
           /\ x.false_group # 0 => Earlier(i, x.false_group, {"Group"})

(* Whatever program is read, each link of a stored item leads to an item   *)
(* of the kind its readers std::get, lists end, and what encode() and the  *)
(* renderer take for granted is there: a pair in each Named, a command in  *)
(* each Group, a Group in each Conditional.                                *)
LinksTyped == \A i \in 1 .. used : LinksOf(i)

LinksFrom(i) ==
  LET x == items[i]
  IN  CASE x.kind = "Pairs"       -> {x.next}
        [] x.kind = "Named"       -> {x.pairs}
        [] x.kind = "Group"       -> {x.cmds}
        [] x.kind = "Cmds"        -> {x.command, x.next}
        [] x.kind = "Conditional" -> {x.true_group, x.false_group}
        [] OTHER                  -> {}

(* A program that is accepted leaves nothing behind: of the items stored   *)
(* for it all but the first command node are the part of exactly one other.*)
AllOwnedOnce ==
  status = "done" =>
    \A i \in 1 .. used : i # cmds_id =>
      Cardinality({j \in 1 .. used : i \in LinksFrom(j)}) = 1

\* The nodes or pairs of the list from `first': those in every set of such
\* items that has `first' in it and, with an item, the next one.
ListFrom(first) ==
  LET same == {j \in 1 .. used : first # 0 /\ items[j].kind = items[first].kind}
  IN  {i \in same : \A S \in SUBSET same :
         first \in S /\ (\A j \in S : items[j].next \in S \union {0}) => i \in S}

\* The command of node `c' keeps within the scope bitmask.
KeepsWithin(c, bitmask) ==
  LET cmd  == items[items[c].command]
      mask == IF cmd.mask # {} THEN cmd.mask ELSE bitmask
  IN  /\ cmd.kind = "Numeric" => cmd.mask \subseteq bitmask
      /\ cmd.kind = "Named" =>
           mask \subseteq bitmask /\ \A p \in ListFrom(cmd.pairs) : items[p].value \subseteq mask
      /\ cmd.kind = "Conditional" => cmd.group_bitmask \union cmd.bitmask \subseteq bitmask

(* Every mask, selector bit and value of a decoded description keeps       *)
(* within the scope of the branch it stands in, all bits or the mask of    *)
(* the Conditional whose branch it is, as encode() will assert.            *)
ScopesNarrow ==
  status = "done" =>
    /\ \A c \in ListFrom(cmds_id) : KeepsWithin(c, Bits)
    /\ \A x \in 1 .. used : items[x].kind = "Conditional" =>
         \A g \in {items[x].true_group, items[x].false_group} \ {0} :
           \A c \in ListFrom(items[g].cmds) : KeepsWithin(c, items[x].bitmask)
=============================================================================
