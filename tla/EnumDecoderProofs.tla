------------------------ MODULE EnumDecoderProofs ------------------------
(***************************************************************************)
(* Whatever program is read, the decoder builds a graph: proofs about      *)
(* EnumDecoder for every capacity of the heaps, every set of names and     *)
(* every set of tokens, legal in their place or not.                       *)
(*                                                                         *)
(* DInv says what a half-built graph and the calls in progress have to do  *)
(* with one another.  Each stored item is a part of one other or is kept   *)
(* by one call (OneHolder): a list hangs off the enum, a Group off its     *)
(* Conditional and a command off its node only once the call that built it *)
(* returns.  That a call appends behind the end of its own list rests on   *)
(* the shape of the stack and on no two calls having one tail (StackTyped).*)
(*                                                                         *)
(* The proof takes the actions one by one, for each part of DInv; what     *)
(* they have in common is that of the items stored before at most one      *)
(* changes, the end of a list that the new items are linked to (Extends).  *)
(***************************************************************************)
EXTENDS EnumDecoder, TLAPS, FiniteSetTheorems, SequenceTheorems
-----------------------------------------------------------------------------
(* The invariant.                                                          *)

AnyCall == Branches \union Conds
Calls == 1 .. Len(stack)

\* Calls stand on one another as the parse functions call: commands are
\* parsed at the root or in a branch, branches in a conditional.
IsRoot(e) == e.is = "branch" /\ e.role = "Root" /\ e.holds = "commands"
HoldsCommands(e) == e.is = "branch" /\ e.holds = "commands"
StandsOn(e, below) ==
  \/ e.is = "branch" /\ e.role = "Named" /\ e.holds = "pairs" /\ HoldsCommands(below)
  \/ e.is = "cond" /\ HoldsCommands(below)
  \/ /\ e.is = "branch" /\ e.role = "If"
     /\ below.is = "cond" /\ ~below.negate
     /\ below.true_group = 0 /\ below.false_group = 0
  \/ /\ e.is = "branch" /\ e.role = "Else"
     /\ below.is = "cond" /\ below.else_read
     /\ below.negate => below.true_group = 0
     /\ ~below.negate => below.false_group = 0
Shape(k) == IF k = 1 THEN IsRoot(stack[1]) ELSE StandsOn(stack[k], stack[k - 1])

\* A conditional whose Else is still to come has room for its Group.
ElseFits(e) ==
  e.is = "cond" /\ ~e.else_read =>
    /\ e.negate => e.true_group = 0
    /\ ~e.negate => e.false_group = 0

\* What a call keeps of the graph: the ends of a list, or finished Groups.
Keeps(e) ==
  /\ e.is = "branch" =>
       /\ e.head = 0 <=> e.tail = 0
       /\ (e.head = 0 /\ e.role = "Named") => e.left > 0
       /\ (e.head # 0 /\ e.holds = "commands") =>
            Stored(e.head, {"Cmds"}) /\ Stored(e.tail, {"Cmds"})
       /\ (e.head # 0 /\ e.holds = "pairs") =>
            Stored(e.head, {"Named"}) /\ Stored(e.tail, {"Pairs"})
       /\ e.tail # 0 => items[e.tail].next = 0
  /\ e.is = "cond" =>
       /\ e.true_group # 0 => Stored(e.true_group, {"Group"})
       /\ e.false_group # 0 => Stored(e.false_group, {"Group"})

TailsApart ==
  \A k, l \in Calls : k # l /\ stack[k].is = "branch" /\ stack[l].is = "branch" =>
    stack[k].tail = 0 \/ stack[k].tail # stack[l].tail

\* The stack is one the parse functions build, and its ids are good.
StackTyped ==
  /\ Len(stack) >= 1
  /\ \A k \in Calls : Shape(k) /\ ElseFits(stack[k]) /\ Keeps(stack[k])
  /\ TailsApart

\* Entry e keeps item i as the first of its list, or as a branch.
KeepsAs(e, f, i) ==
  \/ f = "head" /\ e.is = "branch" /\ i = e.head
  \/ f = "true" /\ e.is = "cond" /\ i = e.true_group
  \/ f = "false" /\ e.is = "cond" /\ i = e.false_group

\* Item x has i as a part, or call x keeps i.
Holds(x, f, i) ==
  \/ f = "item" /\ x \in 1 .. used /\ i \in LinksFrom(x)
  \/ x \in Calls /\ KeepsAs(stack[x], f, i)

\* An item is a part of exactly one other, or kept by exactly one call.
OneHolder ==
  \A i \in 1 .. used :
    \E x, f : \A y, g : Holds(y, g, i) <=> y = x /\ g = f

\* Once the root's block is over, the enum takes its list.
RootTaken == status = "done" => Len(stack) = 1 /\ cmds_id = stack[1].head

DInv == TypeOK /\ LinksTyped /\ StackTyped /\ OneHolder /\ RootTaken
-----------------------------------------------------------------------------
(* Typing.                                                                 *)

\* Item ids are the positive ids of the heap.
LEMMA Ids ==
  ASSUME used \in OptId
  PROVE  /\ used \in Nat /\ 1 .. used \subseteq ItemIds /\ ItemIds \subseteq Nat
         /\ OptId \subseteq Nat /\ ItemIds \subseteq OptId /\ 0 \in OptId
  BY ItemSpaceAssumption DEF OptId, ItemIds

\* The kind field tells which alternative of the stored variant an item is.
LEMMA ItemKinds ==
  ASSUME NEW x \in Item
  PROVE  /\ x.kind = "Pairs" => x \in PairsItems
         /\ x.kind = "Named" => x \in NamedItems
         /\ x.kind = "Group" => x \in GroupItems
         /\ x.kind = "Conditional" => x \in CondItems
         /\ x.kind = "Cmds" => x \in CmdsItems
  BY DEF Item, PairsItems, NamedItems, NumericItems, GroupItems, CondItems, CmdsItems, FreeItems

\* What the decoder stores are items of the heap's variant.
LEMMA ItemMade ==
  /\ \A command \in OptId : CmdsItem(command) \in CmdsItems
  /\ \A mask \in Mask, p \in OptId : [NamedItem(mask) EXCEPT !.pairs = p] \in NamedItems
  /\ \A value \in Mask, name \in Names : PairsItem(value, name) \in PairsItems
  /\ \A mask \in Mask, format \in Formats, name \in Names :
       NumericItem(mask, format, name) \in NumericItems
  /\ \A name \in GroupNames, c \in OptId : [GroupItem(name) EXCEPT !.cmds = c] \in GroupItems
  /\ \A selector, mask \in Mask, t, f \in OptId : CondItem(selector, mask, t, f) \in CondItems
  BY ItemSpaceAssumption
     DEF PairsItems, NamedItems, NumericItems, GroupItems, CondItems, CmdsItems,
         PairsItem, NamedItem, NumericItem, GroupItem, CondItem, CmdsItem, OptId

\* Linking the end of a list leaves it an item of the same alternative.
LEMMA ItemChanged ==
  ASSUME NEW id \in OptId, NEW x
  PROVE  /\ x \in CmdsItems => [x EXCEPT !.next = id] \in CmdsItems
         /\ x \in PairsItems => [x EXCEPT !.next = id] \in PairsItems
  BY DEF PairsItems, CmdsItems

\* The op field tells which token was read.
LEMMA TokenKinds ==
  ASSUME NEW t \in Tokens \union {Eof}
  PROVE  /\ t.op = "Named" => t \in NamedTokens
         /\ t.op = "Pair" => t \in PairTokens
         /\ t.op = "Numeric" => t \in NumericTokens
         /\ t.op \in {"GroupIf", "GroupIfNamed"} => t \in IfTokens
         /\ t.op = "GroupIfNumeric" => t \in IfNumericTokens
         /\ t.op = "Else" => t \in ElseTokens
         /\ t.op = "ContinueScope" => t \in ContinueTokens
  BY TokensAssumption
     DEF Token, CommandTokens, PostfixTokens, NamedTokens, PairTokens, NumericTokens, IfTokens,
         IfNumericTokens, ElseTokens, ContinueTokens, TerminateTokens, Eof

\* The fields of a token are masks, names, labels and counts.
LEMMA TokenFields ==
  /\ \A t \in NamedTokens : t.mask \in Mask /\ t.count \in Nat
  /\ \A t \in PairTokens : t.value \in Mask /\ t.name \in Names
  /\ \A t \in NumericTokens : t.mask \in Mask /\ t.format \in Formats /\ t.name \in Names
  /\ \A t \in IfTokens : t.mask \in Mask /\ t.label \in GroupNames /\ t.count \in Nat
  /\ \A t \in IfNumericTokens : /\ t.mask \in Mask /\ t.label \in GroupNames
                                /\ t.format \in Formats /\ t.name \in Names
  /\ \A t \in ElseTokens : t.label \in GroupNames /\ t.count \in Nat
  /\ \A t \in ContinueTokens : t.count \in Nat
  BY LimitsAssumption
     DEF NamedTokens, PairTokens, NumericTokens, IfTokens, IfNumericTokens, ElseTokens,
         ContinueTokens, Below, IfCounts

\* The is field tells what a call parses.
LEMMA CallKinds ==
  ASSUME NEW e \in Branches \union Conds
  PROVE  /\ e.is = "branch" => e \in Branches
         /\ e.is = "cond" => e \in Conds
         /\ e.is \in {"branch", "cond"}
  BY DEF Branches, Conds

\* The calls that the decoder makes are calls.
LEMMA CallMade ==
  ASSUME NEW role \in {"Root", "Named", "If", "Else"}, NEW holds \in {"commands", "pairs"},
         NEW scope \in Mask, NEW own \in Mask, NEW label \in GroupNames, NEW left \in Nat,
         NEW t, NEW id \in OptId, t.shift \in Bits, t.mask \in Mask
  PROVE  /\ Branch(role, holds, scope, own, label, left) \in Branches
         /\ \A negate \in BOOLEAN : Cond(t, id, 0, negate) \in Conds /\ Cond(t, 0, id, negate) \in Conds
  BY ItemSpaceAssumption DEF Branches, Conds, Branch, Cond, Mask, OptId

\* What a call in progress keeps may change.
LEMMA CallChanged ==
  /\ \A b \in Branches, c \in OptId : Appended(b, c) \in Branches
  /\ \A b \in Branches : (b.role = "Root" \/ b.left > 0) => OneLess(b) \in Branches
  /\ \A b \in Branches, h, t \in OptId : [b EXCEPT !.head = h, !.tail = t] \in Branches
  /\ \A b \in Branches, n \in Nat : [b EXCEPT !.left = n] \in Branches
  /\ \A e \in Conds : [e EXCEPT !.else_read = TRUE] \in Conds
  /\ \A e \in Conds, g \in OptId : InSide(e, TRUE, g) \in Conds /\ InSide(e, FALSE, g) \in Conds
  <1>1. \A b \in Branches, c \in OptId : Appended(b, c) \in Branches
    BY DEF Appended, Branches
  <1>2. \A b \in Branches : (b.role = "Root" \/ b.left > 0) => OneLess(b) \in Branches
    BY DEF OneLess, Branches
  <1>3. \A e \in Conds, g \in OptId : InSide(e, TRUE, g) \in Conds /\ InSide(e, FALSE, g) \in Conds
    BY DEF Conds, InSide
  <1> QED BY <1>1, <1>2, <1>3 DEF Branches, Conds

\* The characters of a name, counted with its NUL.
LEMMA NeededIsNat == \A name \in GroupNames : Needed(name) \in Nat
  BY NameLenAssumption DEF Needed, GroupNames
-----------------------------------------------------------------------------
(* What a step does to the calls in progress.                              *)

\* A sequence goes on with another behind it.
LEMMA Joined ==
  ASSUME NEW S, NEW s \in Seq(S), NEW t \in Seq(S)
  PROVE  /\ s \o t \in Seq(S)
         /\ Len(s \o t) = Len(s) + Len(t)
         /\ \A k \in 1 .. Len(s) : (s \o t)[k] = s[k]
         /\ \A k \in 1 .. Len(t) : (s \o t)[Len(s) + k] = t[k]
  OBVIOUS

\* The first n elements of a sequence.
LEMMA Prefix ==
  ASSUME NEW S, NEW s \in Seq(S), NEW n \in 0 .. Len(s)
  PROVE  /\ SubSeq(s, 1, n) \in Seq(S)
         /\ Len(SubSeq(s, 1, n)) = n
         /\ \A k \in 1 .. n : SubSeq(s, 1, n)[k] = s[k]
  OBVIOUS

\* The first m calls stay, and the calls s stand on them.
Rest(m, s) ==
  /\ m \in 0 .. Len(stack) /\ Len(s) \in Nat
  /\ stack' \in Seq(AnyCall) /\ Len(stack') = m + Len(s)
  /\ \A k \in 1 .. m : stack'[k] = stack[k]
  /\ \A k \in 1 .. Len(s) : stack'[m + k] = s[k]

\* A step replaces the innermost call, begins one or two, or ends one.
LEMMA RestsOn ==
  ASSUME stack \in Seq(AnyCall), Len(stack) >= 1,
         NEW e \in AnyCall, NEW f \in AnyCall, NEW h \in AnyCall
  PROVE  /\ stack' = WithTop(e) => Rest(Len(stack) - 1, <<e>>)
         /\ stack' = Append(WithTop(e), f) => Rest(Len(stack) - 1, <<e, f>>)
         /\ stack' = WithTop(e) \o <<f, h>> => Rest(Len(stack) - 1, <<e, f, h>>)
  <1>1. Len(stack) \in Nat
    OBVIOUS
  <1> DEFINE w == WithTop(e)
  <1>2. /\ w \in Seq(AnyCall) /\ Len(w) = Len(stack)
        /\ \A k \in 1 .. Len(stack) - 1 : w[k] = stack[k]
        /\ w[Len(stack)] = e
    BY DEF WithTop
  <1> HIDE DEF w
  <1>3. stack' = w => Rest(Len(stack) - 1, <<e>>)
    BY <1>1, <1>2 DEF Rest
  <1>4. stack' = Append(w, f) => Rest(Len(stack) - 1, <<e, f>>)
    <2> SUFFICES ASSUME stack' = Append(w, f) PROVE Rest(Len(stack) - 1, <<e, f>>)
      OBVIOUS
    <2>1. /\ stack' \in Seq(AnyCall) /\ Len(stack') = Len(stack) + 1
          /\ \A k \in 1 .. Len(stack) : stack'[k] = w[k]
          /\ stack'[Len(stack) + 1] = f
      BY <1>1, <1>2
    <2>2. Len(stack) = Len(stack) - 1 + 1 /\ Len(stack) + 1 = Len(stack) - 1 + 2
      BY <1>1
    <2> QED BY <1>1, <1>2, <2>1, <2>2 DEF Rest
  <1>5. stack' = w \o <<f, h>> => Rest(Len(stack) - 1, <<e, f, h>>)
    <2> SUFFICES ASSUME stack' = w \o <<f, h>> PROVE Rest(Len(stack) - 1, <<e, f, h>>)
      OBVIOUS
    <2>2. /\ stack' \in Seq(AnyCall) /\ Len(stack') = Len(stack) + 2
          /\ \A k \in 1 .. Len(stack) : stack'[k] = w[k]
          /\ stack'[Len(stack) + 1] = f /\ stack'[Len(stack) + 2] = h
      <3> DEFINE fh == <<f, h>>
      <3>1. fh \in Seq(AnyCall) /\ Len(fh) = 2 /\ fh[1] = f /\ fh[2] = h
        OBVIOUS
      <3>2. stack' = w \o fh
        OBVIOUS
      <3> HIDE DEF fh
      <3>3. \A s, t \in Seq(AnyCall) :
              /\ s \o t \in Seq(AnyCall) /\ Len(s \o t) = Len(s) + Len(t)
              /\ \A k \in 1 .. Len(s) : (s \o t)[k] = s[k]
              /\ \A k \in 1 .. Len(t) : (s \o t)[Len(s) + k] = t[k]
        BY Joined
      <3>4. /\ w \o fh \in Seq(AnyCall) /\ Len(w \o fh) = Len(w) + Len(fh)
            /\ \A k \in 1 .. Len(w) : (w \o fh)[k] = w[k]
            /\ \A k \in 1 .. Len(fh) : (w \o fh)[Len(w) + k] = fh[k]
        BY <1>2, <3>1, <3>3
      <3>5. PICK v : v = w \o fh
        OBVIOUS
      <3>6. stack' = v /\ 1 \in 1 .. Len(fh) /\ 2 \in 1 .. Len(fh)
        BY <3>1, <3>2, <3>5
      <3> QED BY <1>1, <1>2, <3>1, <3>4, <3>5, <3>6
    <2>3. /\ Len(stack) = Len(stack) - 1 + 1 /\ Len(stack) + 1 = Len(stack) - 1 + 2
          /\ Len(stack) + 2 = Len(stack) - 1 + 3
      BY <1>1
    <2> QED BY <1>1, <1>2, <2>2, <2>3 DEF Rest
  <1> QED BY <1>3, <1>4, <1>5 DEF w

\* A call that returns may leave something to the one it stood on.
LEMMA RestsBelow ==
  ASSUME stack \in Seq(AnyCall), Len(stack) >= 1, NEW e \in AnyCall
  PROVE  /\ stack' = Popped => Rest(Len(stack) - 1, <<>>)
         /\ Len(stack) >= 2 /\ stack' = [Popped EXCEPT ![Len(stack) - 1] = e] =>
              Rest(Len(stack) - 2, <<e>>)
  <1>1. Len(stack) \in Nat
    OBVIOUS
  <1> DEFINE p == Popped
  <1>2. /\ p \in Seq(AnyCall) /\ Len(p) = Len(stack) - 1
        /\ \A k \in 1 .. Len(stack) - 1 : p[k] = stack[k]
    <2>1. Len(stack) - 1 \in 0 .. Len(stack)
      BY <1>1
    <2> QED BY <2>1, Prefix DEF Popped
  <1> HIDE DEF p
  <1>3. stack' = p => Rest(Len(stack) - 1, <<>>)
    BY <1>1, <1>2 DEF Rest
  <1>4. ASSUME Len(stack) >= 2, stack' = [p EXCEPT ![Len(stack) - 1] = e]
        PROVE  Rest(Len(stack) - 2, <<e>>)
    <2>1. /\ stack' \in Seq(AnyCall) /\ Len(stack') = Len(stack) - 1
          /\ \A k \in 1 .. Len(stack) - 2 : stack'[k] = p[k]
          /\ stack'[Len(stack) - 1] = e
      BY <1>1, <1>2, <1>4
    <2>2. Len(stack) - 1 = Len(stack) - 2 + 1
      BY <1>1
    <2> QED BY <1>1, <1>2, <1>4, <2>1, <2>2 DEF Rest
  <1> QED BY <1>3, <1>4 DEF p
-----------------------------------------------------------------------------
(* What a step does to the items stored before it.                         *)

\* Of them only t changes, the end of a list, which now leads to c.
Extends(t, c) ==
  /\ used' \in OptId /\ used <= used'
  /\ \A i \in 1 .. used : i # t => items'[i] = items[i]
  /\ t # 0 =>
       /\ t \in 1 .. used /\ items[t].next = 0
       /\ c \in used + 1 .. used'
       /\ items'[t] = [items[t] EXCEPT !.next = c]
       /\ \/ items[t] \in CmdsItems /\ items'[c].kind = "Cmds"
          \/ items[t] \in PairsItems /\ items'[c].kind = "Pairs"

\* A stored item stays stored and of its kind.
LEMMA StoredStays ==
  ASSUME TypeOK, NEW t, NEW c, Extends(t, c), NEW j, NEW kinds, Stored(j, kinds)
  PROVE  Stored(j, kinds)'
  <1>1. used \in Nat /\ used' \in Nat /\ j \in 1 .. used /\ items[j].kind \in kinds
    BY Ids, ItemSpaceAssumption DEF TypeOK, Extends, OptId, Stored
  <1>2. items'[j].kind = items[j].kind
    <2>1. CASE j # t
      BY <1>1, <2>1 DEF Extends
    <2>2. CASE j = t
      BY <1>1, <2>2 DEF Extends, CmdsItems, PairsItems
    <2> QED BY <2>1, <2>2
  <1> QED BY <1>1, <1>2 DEF Stored, Extends

\* The links of stored items stay good.
LEMMA LinksStay ==
  ASSUME TypeOK, LinksTyped, NEW t, NEW c, Extends(t, c)
  PROVE  \A i \in 1 .. used : LinksOf(i)'
  <1> SUFFICES ASSUME NEW i \in 1 .. used PROVE LinksOf(i)'
    OBVIOUS
  <1>1. LinksOf(i)
    BY DEF LinksTyped
  <1>2. \A j, kinds : Stored(j, kinds) => Stored(j, kinds)'
    BY StoredStays
  <1>3. CASE i # t
    <2>1. items'[i] = items[i]
      BY <1>3 DEF Extends
    <2>2. \A j, kind : Onward(i, j, kind) => Onward(i, j, kind)'
      BY <1>2 DEF Onward
    <2>3. \A j, kinds : Earlier(i, j, kinds) => Earlier(i, j, kinds)'
      BY <1>2 DEF Earlier
    <2> QED BY <1>1, <2>1, <2>2, <2>3 DEF LinksOf
  <1>4. CASE i = t
    <2>1. /\ t \in 1 .. used /\ used \in Nat /\ used' \in Nat /\ c \in used + 1 .. used'
          /\ items'[t] = [items[t] EXCEPT !.next = c] /\ t < c /\ c \in 1 .. used' /\ t # 0
      BY <1>4, Ids, ItemSpaceAssumption DEF TypeOK, Extends, OptId
    <2>2. CASE items[t] \in CmdsItems /\ items'[c].kind = "Cmds"
      <3>1. PICK command : command = items[t].command
        OBVIOUS
      <3>2. items'[t].kind = "Cmds" /\ items'[t].next = c /\ items'[t].command = command
        BY <2>1, <2>2, <3>1 DEF CmdsItems
      <3>3. Earlier(t, command, CommandKinds)
        BY <1>1, <1>4, <2>2, <3>1 DEF LinksOf, CmdsItems
      <3>4. Stored(c, {"Cmds"})'
        BY <2>1, <2>2 DEF Stored
      <3>5. Earlier(t, command, CommandKinds)'
        BY <1>2, <3>3 DEF Earlier
      <3> QED BY <1>4, <2>1, <3>2, <3>4, <3>5 DEF LinksOf, Onward
    <2>3. CASE items[t] \in PairsItems /\ items'[c].kind = "Pairs"
      <3>1. items'[t].kind = "Pairs" /\ items'[t].next = c
        BY <2>1, <2>3 DEF PairsItems
      <3>2. Stored(c, {"Pairs"})'
        BY <2>1, <2>3 DEF Stored
      <3> QED BY <1>4, <2>1, <3>1, <3>2 DEF LinksOf, Onward
    <2> QED BY <2>1, <2>2, <2>3 DEF Extends
  <1> QED BY <1>3, <1>4

\* A stored item has the parts that it had, but that t has c.
LEMMA PartsStay ==
  ASSUME TypeOK, NEW t, NEW c, Extends(t, c), NEW x \in 1 .. used, NEW i \in 1 .. used'
  PROVE  (i \in LinksFrom(x))' <=> (i \in LinksFrom(x) \/ (x = t /\ i = c))
  <1>0. i # 0 /\ used \in Nat /\ used' \in Nat
    BY Ids, ItemSpaceAssumption DEF TypeOK, Extends, OptId
  <1>1. CASE x # t
    BY <1>1 DEF Extends, LinksFrom
  <1>2. CASE x = t
    <2>1. t # 0 /\ items[t].next = 0 /\ items'[t] = [items[t] EXCEPT !.next = c]
      BY <1>0, <1>2 DEF Extends
    <2>2. CASE items[t] \in CmdsItems
      <3>1. /\ items[t].kind = "Cmds" /\ items'[t].kind = "Cmds" /\ items'[t].next = c
            /\ items'[t].command = items[t].command
        BY <2>1, <2>2 DEF CmdsItems
      <3>2. LinksFrom(t) = {items[t].command, items[t].next}
        BY <3>1 DEF LinksFrom
      <3>3. LinksFrom(t)' = {items'[t].command, items'[t].next}
        BY <3>1 DEF LinksFrom
      <3> QED BY <1>0, <1>2, <2>1, <3>1, <3>2, <3>3
    <2>3. CASE items[t] \in PairsItems
      <3>1. items[t].kind = "Pairs" /\ items'[t].kind = "Pairs" /\ items'[t].next = c
        BY <2>1, <2>3 DEF PairsItems
      <3>2. LinksFrom(t) = {items[t].next}
        BY <3>1 DEF LinksFrom
      <3>3. LinksFrom(t)' = {items'[t].next}
        BY <3>1 DEF LinksFrom
      <3> QED BY <1>0, <1>2, <2>1, <3>1, <3>2, <3>3
    <2> QED BY <2>1, <2>2, <2>3 DEF Extends
  <1> QED BY <1>1, <1>2

\* What a call keeps stays good while no other list than its own grows.
LEMMA KeepsStay ==
  ASSUME TypeOK, NEW t, NEW c, Extends(t, c), NEW e \in AnyCall, Keeps(e),
         e.is = "branch" => e.tail = 0 \/ e.tail # t
  PROVE  Keeps(e)'
  <1>1. \A j, kinds : Stored(j, kinds) => Stored(j, kinds)'
    BY StoredStays
  <1>2. CASE e.is = "cond"
    BY <1>1, <1>2 DEF Keeps
  <1>3. CASE e.is = "branch"
    <2>1. e \in Branches
      BY <1>3, CallKinds DEF AnyCall
    <2>2. e.tail # 0 => e.tail \in 1 .. used
      <3>1. CASE e.holds = "commands"
        BY <1>3, <3>1 DEF Keeps, Stored
      <3>2. CASE e.holds = "pairs"
        BY <1>3, <3>2 DEF Keeps, Stored
      <3> QED BY <2>1, <3>1, <3>2 DEF Branches
    <2>3. e.tail # 0 => items'[e.tail].next = 0
      BY <1>3, <2>2 DEF Keeps, Extends
    <2> QED BY <1>1, <1>3, <2>3 DEF Keeps
  <1> QED BY <1>2, <1>3, CallKinds DEF AnyCall
\* A command, stored before or with it, gets a node at the end of a branch.
Appends(its, b, command, c) ==
  /\ its \in [ItemIds -> Item] /\ \A i \in 1 .. used : its[i] = items[i]
  /\ used' \in OptId /\ c \in used + 1 .. used'
  /\ command \in 1 .. c - 1 /\ its[command].kind \in CommandKinds
  /\ items' = AppendNode(its, b, command, c)

\* append_command_node() sets one link, the end of the branch's list.
LEMMA AppendEffect ==
  ASSUME TypeOK, NEW b \in Branches, Keeps(b), HoldsCommands(b),
         NEW its, NEW command, NEW c, Appends(its, b, command, c)
  PROVE  /\ items' \in [ItemIds -> Item]
         /\ Extends(b.tail, c)
         /\ items'[c] = CmdsItem(command)
         /\ \A i \in ItemIds : i > used /\ i # c => items'[i] = its[i]
         /\ LinksOf(c)'
  <1>1. /\ its \in [ItemIds -> Item] /\ \A i \in 1 .. used : its[i] = items[i]
        /\ used \in Nat /\ used' \in Nat /\ c \in Nat /\ used < c /\ c <= used'
        /\ c \in ItemIds /\ c \in OptId /\ command \in OptId /\ used' \in OptId
        /\ command \in 1 .. c - 1 /\ command \in ItemIds /\ its[command].kind \in CommandKinds
        /\ 1 .. used \subseteq ItemIds /\ ItemIds \subseteq Nat
    BY Ids, ItemSpaceAssumption DEF TypeOK, Appends, OptId, ItemIds
  <1> DEFINE stored == [its EXCEPT ![c] = CmdsItem(command)]
  <1>2. /\ stored \in [ItemIds -> Item] /\ stored[c] = CmdsItem(command)
        /\ \A i \in ItemIds : i # c => stored[i] = its[i]
    BY <1>1, ItemMade DEF Item
  <1>3. items' = IF b.head = 0 THEN stored ELSE [stored EXCEPT ![b.tail].next = c]
    BY DEF Appends, AppendNode
  <1> HIDE DEF stored
  <1>4. /\ items' \in [ItemIds -> Item]
        /\ Extends(b.tail, c)
        /\ items'[c] = CmdsItem(command)
        /\ \A i \in ItemIds : i > used /\ i # c => items'[i] = its[i]
        /\ items'[command].kind = its[command].kind
    <2>1. CASE b.head = 0
      <3>1. b.tail = 0 /\ items' = stored
        BY <1>3, <2>1 DEF Keeps, HoldsCommands
      <3>2. \A i \in 1 .. used : items'[i] = items[i]
        BY <1>1, <1>2, <3>1
      <3>3. Extends(b.tail, c)
        BY <1>1, <3>1, <3>2 DEF Extends
      <3> QED BY <1>1, <1>2, <3>1, <3>3
    <2>2. CASE b.head # 0
      <3>0. PICK t : t = b.tail
        OBVIOUS
      <3>1. /\ t \in 1 .. used /\ t \in ItemIds /\ t # c /\ t # 0
            /\ items[t].kind = "Cmds" /\ items[t].next = 0 /\ items[t] \in Item
        BY <1>1, <2>2, <3>0 DEF Keeps, HoldsCommands, Stored, TypeOK
      <3>2. items[t] \in CmdsItems /\ stored[t] = items[t] /\ items' = [stored EXCEPT ![t].next = c]
        BY <1>1, <1>2, <1>3, <2>2, <3>0, <3>1, ItemKinds
      <3>3. PICK x : x = [items[t] EXCEPT !.next = c]
        OBVIOUS
      <3>4. x \in CmdsItems /\ x \in Item /\ x.kind = "Cmds"
        BY <1>1, <3>2, <3>3, ItemChanged DEF Item, CmdsItems
      <3>5. items' = [stored EXCEPT ![t] = x]
        BY <3>2, <3>3
      <3>6. /\ items' \in [ItemIds -> Item] /\ items'[t] = x
            /\ \A i \in ItemIds : i # t => items'[i] = stored[i]
        BY <1>2, <3>1, <3>4, <3>5
      <3>7. items'[c].kind = "Cmds" /\ items'[c] = CmdsItem(command)
        BY <1>1, <1>2, <3>1, <3>6 DEF CmdsItem
      <3>8. \A i \in 1 .. used : i # t => items'[i] = items[i]
        BY <1>1, <1>2, <3>6
      <3>9. Extends(b.tail, c)
        BY <1>1, <3>0, <3>1, <3>2, <3>3, <3>6, <3>7, <3>8 DEF Extends
      <3>10. command # t
        BY <1>1, <3>1 DEF CommandKinds
      <3> QED BY <1>1, <1>2, <3>1, <3>6, <3>7, <3>9, <3>10
    <2> QED BY <2>1, <2>2
  <1>5. LinksOf(c)'
    BY <1>1, <1>4 DEF LinksOf, CmdsItem, Onward, Earlier, Stored
  <1> QED BY <1>4, <1>5

\* The branch then ends in the new node.
LEMMA AppendedKeeps ==
  ASSUME TypeOK, NEW b \in Branches, Keeps(b), HoldsCommands(b), NEW t, NEW c, Extends(t, c),
         c \in used + 1 .. used', NEW command, items'[c] = CmdsItem(command),
         NEW a \in {b, OneLess(b)}
  PROVE  Keeps(Appended(a, c))'
  <1>1. PICK e : e = Appended(a, c)
    OBVIOUS
  <1>2. /\ used \in Nat /\ used' \in Nat /\ c # 0
    BY Ids, ItemSpaceAssumption DEF TypeOK, Extends, OptId
  <1>3. /\ a.is = "branch" /\ a.head = b.head /\ a.holds = "commands" /\ DOMAIN a = DOMAIN b
    BY DEF OneLess, Branches, HoldsCommands
  <1>4. /\ e.is = "branch" /\ e.tail = c /\ e.holds = "commands"
        /\ e.head = IF b.head = 0 THEN c ELSE b.head
    BY <1>1, <1>3 DEF Appended, OneLess, Branches
  <1>5. Stored(c, {"Cmds"})' /\ items'[c].next = 0
    BY <1>2 DEF Stored, CmdsItem
  <1>6. e.head # 0 /\ Stored(e.head, {"Cmds"})'
    <2>1. CASE b.head = 0
      BY <1>2, <1>4, <1>5, <2>1
    <2>2. CASE b.head # 0
      BY <1>4, <2>2, StoredStays DEF Keeps, HoldsCommands
    <2> QED BY <2>1, <2>2
  <1>7. Keeps(e)'
    BY <1>2, <1>4, <1>5, <1>6 DEF Keeps
  <1> QED BY <1>1, <1>7
-----------------------------------------------------------------------------
(* The stack stays one that the parse functions build.                     *)

\* What a call parses does not change while it is in progress.
SameKind(e, b) ==
  /\ e.is = b.is
  /\ e.is = "branch" => e.role = b.role /\ e.holds = b.holds

\* The calls s on top of the first m: the lowest of them one of those that
\* were in progress, the others new.
StandingCalls(m, s) ==
  /\ m >= 1 \/ Len(s) >= 1
  /\ Len(s) >= 1 => m < Len(stack) /\ SameKind(s[1], stack[m + 1])
  /\ \A k \in 2 .. Len(s) : StandsOn(s[k], s[k - 1])
  /\ \A k \in 1 .. Len(s) : ElseFits(s[k])

\* The lists that the calls s build are theirs.
OwnLists(m, s) ==
  /\ \A k \in 2 .. Len(s) : s[k].is = "branch" => s[k].tail = 0
  /\ (Len(s) >= 1 /\ s[1].is = "branch") => s[1].tail > used \/ s[1].tail = stack[m + 1].tail

\* Where a branch's list ends is no other item than one of the stored ones.
LEMMA TailStored ==
  ASSUME NEW e \in Branches, Keeps(e)
  PROVE  e.tail = 0 \/ e.tail \in 1 .. used
  <1>1. CASE e.holds = "commands"
    BY <1>1 DEF Keeps, Stored, Branches
  <1>2. CASE e.holds = "pairs"
    BY <1>2 DEF Keeps, Stored, Branches
  <1> QED BY <1>1, <1>2 DEF Branches

\* Calls that come, go and grow their lists leave such a stack.
LEMMA StackStays ==
  ASSUME TypeOK, StackTyped, NEW m, NEW s, Rest(m, s), NEW t, NEW c, Extends(t, c),
         t = 0 \/ (m < Len(stack) /\ stack[m + 1].is = "branch" /\ t = stack[m + 1].tail),
         StandingCalls(m, s), OwnLists(m, s),
         \A k \in 1 .. Len(s) : Keeps(s[k])'
  PROVE  StackTyped'
  <1>1. /\ stack \in Seq(AnyCall) /\ Len(stack) \in Nat /\ m \in 0 .. Len(stack) /\ Len(s) \in Nat
        /\ stack' \in Seq(AnyCall) /\ Len(stack') = m + Len(s) /\ used \in Nat
        /\ \A k \in 1 .. m : stack'[k] = stack[k]
        /\ \A k \in 1 .. Len(s) : stack'[m + k] = s[k]
    BY Ids DEF TypeOK, Rest, AnyCall
  <1>2. /\ \A k \in Calls : stack[k] \in AnyCall
        /\ \A k \in Calls' : stack'[k] \in AnyCall
    BY <1>1 DEF Calls
  <1>3. \A k \in Calls' : k \in 1 .. m \/ \E j \in 1 .. Len(s) : k = m + j
    <2> SUFFICES ASSUME NEW k \in Calls', k \notin 1 .. m PROVE \E j \in 1 .. Len(s) : k = m + j
      OBVIOUS
    <2>1. k - m \in 1 .. Len(s) /\ k = m + (k - m)
      BY <1>1 DEF Calls
    <2> QED BY <2>1
  <1>4. Len(stack') >= 1
    BY <1>1 DEF StandingCalls
  <1>5. ASSUME NEW k \in 1 .. m
        PROVE  stack'[k] = stack[k] /\ k \in Calls /\ k - 1 \in Nat /\ (k # 1 => k - 1 \in 1 .. m)
    BY <1>1 DEF Calls
  <1>6. ASSUME NEW k \in Calls'
        PROVE  Shape(k)' /\ ElseFits(stack[k])' /\ Keeps(stack[k])'
    <2>1. CASE k \in 1 .. m
      <3>1. /\ stack'[k] = stack[k] /\ Shape(k) /\ ElseFits(stack[k]) /\ Keeps(stack[k])
            /\ k \in Calls /\ stack[k] \in AnyCall
        BY <1>2, <1>5, <2>1 DEF StackTyped
      <3>2. Shape(k)'
        BY <1>5, <2>1, <3>1 DEF Shape
      <3>3. PICK e \in AnyCall : e = stack[k]
        BY <3>1
      <3>4. e.is = "branch" => e.tail = 0 \/ e.tail # t
        <4> SUFFICES ASSUME e.is = "branch", t # 0, e.tail # 0 PROVE e.tail # t
          OBVIOUS
        <4>1. /\ m + 1 \in Calls /\ k \in Calls /\ k # m + 1
              /\ stack[m + 1].is = "branch" /\ t = stack[m + 1].tail
          BY <1>1, <2>1 DEF Calls
        <4>2. TailsApart
          BY DEF StackTyped
        <4> QED BY <3>3, <4>1, <4>2 DEF TailsApart
      <3>5. Keeps(e)'
        BY <3>1, <3>3, <3>4, KeepsStay
      <3>6. ElseFits(e)
        BY <3>1, <3>3
      <3> QED BY <3>1, <3>2, <3>3, <3>5, <3>6 DEF ElseFits
    <2>2. CASE \E j \in 1 .. Len(s) : k = m + j
      <3>1. PICK j \in 1 .. Len(s) : k = m + j
        BY <2>2
      <3>2. PICK e : e = s[j]
        OBVIOUS
      <3>3. stack'[k] = e /\ Keeps(e)' /\ ElseFits(e)
        BY <1>1, <3>1, <3>2 DEF StandingCalls
      <3>4. Shape(k)'
        <4>1. CASE j = 1
          <5>1. /\ k = m + 1 /\ k \in Calls /\ SameKind(e, stack[k]) /\ Shape(k)
                /\ (k # 1 => m \in 1 .. m /\ k - 1 = m)
            BY <1>1, <3>1, <3>2, <4>1 DEF StandingCalls, Calls, StackTyped
          <5>2. CASE k = 1
            BY <3>3, <5>1, <5>2 DEF Shape, SameKind, IsRoot
          <5>3. CASE k # 1
            <6>1. stack'[k - 1] = stack[k - 1]
              BY <1>1, <5>1, <5>3
            <6>2. StandsOn(stack[k], stack[k - 1])
              BY <5>1, <5>3 DEF Shape
            <6>3. StandsOn(e, stack[k - 1])
              BY <5>1, <6>2 DEF StandsOn, SameKind
            <6> QED BY <3>3, <5>3, <6>1, <6>3 DEF Shape, StandsOn
          <5> QED BY <5>2, <5>3
        <4>2. CASE j # 1
          <5>1. /\ j \in 2 .. Len(s) /\ j - 1 \in 1 .. Len(s) /\ k # 1 /\ k - 1 = m + (j - 1)
            BY <1>1, <3>1, <4>2
          <5>2. stack'[k - 1] = s[j - 1]
            BY <1>1, <5>1
          <5>3. StandsOn(e, s[j - 1])
            BY <3>2, <5>1 DEF StandingCalls
          <5> QED BY <3>3, <5>1, <5>2, <5>3 DEF Shape, StandsOn
        <4> QED BY <4>1, <4>2
      <3> QED BY <3>3, <3>4 DEF ElseFits, Keeps
    <2> QED BY <1>3, <2>1, <2>2
  <1>7. TailsApart'
    <2> DEFINE Tailed(k) == stack'[k].is = "branch" /\ stack'[k].tail # 0
    <2>1. ASSUME NEW k \in Calls', Tailed(k)
          PROVE  k \in 1 .. m + 1
      <3>1. CASE k \in 1 .. m
        BY <1>1, <3>1
      <3>2. ASSUME NEW j \in 1 .. Len(s), k = m + j PROVE j = 1
        BY <1>1, <2>1, <3>2 DEF OwnLists
      <3> QED BY <1>1, <1>3, <3>1, <3>2
    <2>2. ASSUME NEW k \in Calls', NEW l \in 1 .. m, Tailed(k), Tailed(l), k = m + 1
          PROVE  stack'[k].tail # stack'[l].tail
      <3>1. 1 \in 1 .. Len(s)
        BY <1>1, <2>2 DEF Calls
      <3>2. /\ stack'[k] = s[1] /\ stack'[l] = stack[l] /\ l \in Calls /\ k \in Calls /\ l # k
            /\ stack[k].is = "branch"
        BY <1>1, <2>2, <3>1 DEF StandingCalls, SameKind, Calls
      <3>3. stack[l] \in Branches /\ Keeps(stack[l])
        BY <1>2, <2>2, <3>2, CallKinds DEF AnyCall, StackTyped
      <3>4. stack[l].tail \in 1 .. used
        BY <2>2, <3>2, <3>3, TailStored
      <3>5. CASE s[1].tail > used
        BY <1>1, <3>2, <3>4, <3>5
      <3>6. CASE s[1].tail = stack[m + 1].tail
        BY <2>2, <3>2, <3>6 DEF StackTyped, TailsApart
      <3> QED BY <1>1, <2>2, <3>1, <3>2, <3>5, <3>6 DEF OwnLists
    <2>3. ASSUME NEW k \in 1 .. m, NEW l \in 1 .. m, Tailed(k), Tailed(l), k # l
          PROVE  stack'[k].tail # stack'[l].tail
      BY <1>5, <2>3 DEF StackTyped, TailsApart
    <2>4. \A k \in 1 .. m + 1 : k \in 1 .. m \/ k = m + 1
      BY <1>1
    <2>5. SUFFICES ASSUME NEW k \in Calls', NEW l \in Calls', k # l, Tailed(k), Tailed(l)
                   PROVE  stack'[k].tail # stack'[l].tail
      BY DEF TailsApart
    <2> HIDE DEF Tailed
    <2>6. k \in 1 .. m + 1 /\ l \in 1 .. m + 1
      BY <2>1, <2>5
    <2> QED BY <2>2, <2>3, <2>4, <2>5, <2>6
  <1> QED BY <1>4, <1>6, <1>7 DEF StackTyped
-----------------------------------------------------------------------------
(* Each item keeps one holder.                                             *)

\* The parts of a stored item are stored.
LEMMA PartsStored ==
  ASSUME TypeOK, LinksTyped, NEW x \in 1 .. used, NEW i \in LinksFrom(x)
  PROVE  i \in 0 .. used
  <1>1. LinksOf(x) /\ used \in Nat
    BY Ids DEF LinksTyped, TypeOK
  <1>2. \A j, kind : Onward(x, j, kind) => j \in 0 .. used
    BY <1>1 DEF Onward, Stored
  <1>3. \A j, kinds : Earlier(x, j, kinds) => j \in 0 .. used
    BY <1>1 DEF Earlier, Stored
  <1>4. 0 \in 0 .. used
    BY <1>1
  <1> DEFINE it == items[x]
  <1>5. CASE it.kind = "Pairs"
    BY <1>1, <1>2, <1>5 DEF LinksFrom, LinksOf
  <1>6. CASE it.kind = "Named"
    BY <1>1, <1>2, <1>6 DEF LinksFrom, LinksOf
  <1>7. CASE it.kind = "Group"
    BY <1>1, <1>3, <1>7 DEF LinksFrom, LinksOf
  <1>8. CASE it.kind = "Cmds"
    BY <1>1, <1>2, <1>3, <1>8 DEF LinksFrom, LinksOf
  <1>9. CASE it.kind = "Conditional"
    BY <1>1, <1>3, <1>4, <1>9 DEF LinksFrom, LinksOf
  <1> QED BY <1>5, <1>6, <1>7, <1>8, <1>9 DEF LinksFrom

\* What a call keeps is stored.
LEMMA KeptStored ==
  ASSUME NEW e \in AnyCall, Keeps(e), NEW f, NEW i, KeepsAs(e, f, i)
  PROVE  i = 0 \/ i \in 1 .. used
  <1>1. CASE e.is = "cond"
    BY <1>1 DEF KeepsAs, Keeps, Stored
  <1>2. CASE e.is = "branch"
    <2>1. e.holds \in {"commands", "pairs"}
      BY <1>2, CallKinds DEF AnyCall, Branches
    <2> QED BY <1>2, <2>1 DEF KeepsAs, Keeps, Stored
  <1> QED BY <1>1, <1>2, CallKinds DEF AnyCall

\* Item i is a part of no new item, or of one.
PartOfNone(i) == \A x \in used + 1 .. used' : i \notin LinksFrom(x)'
PartOfOne(i) ==
  \E x \in used + 1 .. used' : \A y \in used + 1 .. used' : i \in LinksFrom(y)' <=> y = x

\* Item i is no part of a new item, and the calls that came and went keep
\* it as before.
Unmoved(m, s, i) ==
  /\ PartOfNone(i)
  /\ \A f, k : (k \in 1 .. Len(s) /\ KeepsAs(s[k], f, i))
                 <=> (k \in Nat \ {0} /\ m + k \in Calls /\ KeepsAs(stack[m + k], f, i))

\* Item i, which a call kept, becomes a part of one new item.
Moved(m, s, i) ==
  /\ \E k \in Calls : k > m /\ \E f : KeepsAs(stack[k], f, i)
  /\ \A f, k : k \in 1 .. Len(s) => ~KeepsAs(s[k], f, i)
  /\ PartOfOne(i)

\* A new item i is a part of t or of a new item, or kept by one of the calls s.
NewHolds(m, s, t, c, y, g, i) ==
  \/ g = "item" /\ y = t /\ t # 0 /\ i = c
  \/ g = "item" /\ y \in used + 1 .. used' /\ i \in LinksFrom(y)'
  \/ \E k \in 1 .. Len(s) : y = m + k /\ KeepsAs(s[k], g, i)

\* Each item has one holder after a step in which items go from call to item.
LEMMA HoldersStay ==
  ASSUME TypeOK, LinksTyped, StackTyped, OneHolder,
         NEW m, NEW s, Rest(m, s), NEW t, NEW c, Extends(t, c),
         \A i \in 1 .. used : Unmoved(m, s, i) \/ Moved(m, s, i),
         \A i \in used + 1 .. used' :
           \E x, f : \A y, g : NewHolds(m, s, t, c, y, g, i) <=> y = x /\ g = f
  PROVE  OneHolder'
  <1>1. /\ stack \in Seq(AnyCall) /\ Len(stack) \in Nat /\ m \in 0 .. Len(stack) /\ Len(s) \in Nat
        /\ Len(stack') = m + Len(s) /\ used \in Nat /\ used' \in Nat /\ used <= used'
        /\ \A k \in 1 .. m : stack'[k] = stack[k]
        /\ \A k \in 1 .. Len(s) : stack'[m + k] = s[k]
    BY Ids, ItemSpaceAssumption DEF TypeOK, Rest, AnyCall, Extends, OptId
  <1>2. \A k \in Calls' : k \in 1 .. m \/ (k - m \in 1 .. Len(s) /\ k = m + (k - m))
    BY <1>1 DEF Calls
  <1>3. \A k \in 1 .. Len(s) : m + k \in Calls' /\ m + k - m = k /\ m + k \notin 1 .. m
    BY <1>1 DEF Calls
  <1>4. 1 .. m \subseteq Calls /\ 1 .. m \subseteq Calls'
    BY <1>1 DEF Calls
  <1>5. ASSUME NEW y, NEW g, NEW i \in 1 .. used'
        PROVE  Holds(y, g, i)' <=>
                 \/ g = "item" /\ y \in 1 .. used /\ (i \in LinksFrom(y) \/ (y = t /\ i = c))
                 \/ g = "item" /\ y \in used + 1 .. used' /\ i \in LinksFrom(y)'
                 \/ y \in 1 .. m /\ KeepsAs(stack[y], g, i)
                 \/ \E k \in 1 .. Len(s) : y = m + k /\ KeepsAs(s[k], g, i)
    <2>1. y \in 1 .. used' <=> y \in 1 .. used \/ y \in used + 1 .. used'
      BY <1>1
    <2>2. y \in 1 .. used => ((i \in LinksFrom(y))' <=> (i \in LinksFrom(y) \/ (y = t /\ i = c)))
      BY PartsStay
    <2>3. (y \in Calls' /\ KeepsAs(stack[y], g, i)') <=>
            \/ y \in 1 .. m /\ KeepsAs(stack[y], g, i)
            \/ \E k \in 1 .. Len(s) : y = m + k /\ KeepsAs(s[k], g, i)
      <3>1. CASE y \in 1 .. m
        <4>1. stack'[y] = stack[y] /\ y \in Calls' /\ \A k \in 1 .. Len(s) : y # m + k
          BY <1>1, <1>3, <1>4, <3>1
        <4> QED BY <3>1, <4>1 DEF KeepsAs
      <3>2. CASE y \notin 1 .. m /\ y \in Calls'
        <4>1. PICK k \in 1 .. Len(s) : y = m + k
          BY <1>2, <3>2
        <4>2. stack'[y] = s[k] /\ \A l \in 1 .. Len(s) : y = m + l => l = k
          BY <1>1, <1>3, <4>1
        <4> QED BY <3>2, <4>1, <4>2 DEF KeepsAs
      <3>3. CASE y \notin 1 .. m /\ y \notin Calls'
        BY <1>3, <3>3
      <3> QED BY <3>1, <3>2, <3>3
    <2> QED BY <2>1, <2>2, <2>3 DEF Holds
  <1>6. ASSUME NEW i \in 1 .. used
        PROVE  /\ i \in 1 .. used'
               /\ ~(t # 0 /\ i = c)
    BY <1>1 DEF Extends
  <1>7. ASSUME NEW i \in 1 .. used, Unmoved(m, s, i)
        PROVE  \E x, f : \A y, g : Holds(y, g, i)' <=> y = x /\ g = f
    <2>1. PICK x, f : \A y, g : Holds(y, g, i) <=> y = x /\ g = f
      BY DEF OneHolder
    <2>2. ASSUME NEW y, NEW g
          PROVE  Holds(y, g, i)' <=> Holds(y, g, i)
      <3>1. (\E k \in 1 .. Len(s) : y = m + k /\ KeepsAs(s[k], g, i)) <=>
              (y \in Calls /\ y \notin 1 .. m /\ KeepsAs(stack[y], g, i))
        <4>1. ASSUME y \in Calls, y \notin 1 .. m
              PROVE  \E k \in Nat \ {0} : y = m + k
          <5>1. y - m \in Nat \ {0} /\ y = m + (y - m)
            BY <1>1, <4>1 DEF Calls
          <5> QED BY <5>1
        <4>2. \A k \in 1 .. Len(s) : m + k \notin 1 .. m
          BY <1>3
        <4>3. \A k, l \in Nat : m + k = m + l => k = l
          BY <1>1
        <4>4. \A h, k : (k \in 1 .. Len(s) /\ KeepsAs(s[k], h, i))
                 <=> (k \in Nat \ {0} /\ m + k \in Calls /\ KeepsAs(stack[m + k], h, i))
          BY <1>7 DEF Unmoved
        <4>5. ASSUME NEW k \in 1 .. Len(s), y = m + k, KeepsAs(s[k], g, i)
              PROVE  y \in Calls /\ y \notin 1 .. m /\ KeepsAs(stack[y], g, i)
          BY <4>2, <4>4, <4>5
        <4>6. ASSUME y \in Calls, y \notin 1 .. m, KeepsAs(stack[y], g, i)
              PROVE  \E k \in 1 .. Len(s) : y = m + k /\ KeepsAs(s[k], g, i)
          <5>1. PICK k \in Nat \ {0} : y = m + k
            BY <4>1, <4>6
          <5>2. k \in 1 .. Len(s) /\ KeepsAs(s[k], g, i)
            BY <4>4, <4>6, <5>1
          <5> QED BY <5>1, <5>2
        <4> QED BY <4>5, <4>6
      <3>2. y \in 1 .. used /\ y = t => t # 0
        BY <1>1
      <3>3. Holds(y, g, i)' <=>
              \/ g = "item" /\ y \in 1 .. used /\ i \in LinksFrom(y)
              \/ y \in 1 .. m /\ KeepsAs(stack[y], g, i)
              \/ \E k \in 1 .. Len(s) : y = m + k /\ KeepsAs(s[k], g, i)
        BY <1>5, <1>6, <1>7, <3>2 DEF Unmoved, PartOfNone
      <3> QED BY <1>4, <3>1, <3>3 DEF Holds
    <2> QED BY <2>1, <2>2
  <1>8. ASSUME NEW i \in 1 .. used, Moved(m, s, i)
        PROVE  \E x, f : \A y, g : Holds(y, g, i)' <=> y = x /\ g = f
    <2>0. PICK k \in Calls : k > m /\ \E f : KeepsAs(stack[k], f, i)
      BY <1>8 DEF Moved, PartOfOne
    <2>1. PICK f : k > m /\ KeepsAs(stack[k], f, i)
      BY <2>0
    <2>2. PICK x \in used + 1 .. used' : \A y \in used + 1 .. used' : i \in LinksFrom(y)' <=> y = x
      BY <1>8 DEF Moved, PartOfOne
    <2>3. Holds(k, f, i)
      BY <2>1 DEF Holds
    <2>4. \A y, g : Holds(y, g, i) => y = k /\ g = f
      BY <2>3 DEF OneHolder
    <2>5. \A y \in 1 .. used : i \notin LinksFrom(y)
      <3> SUFFICES ASSUME NEW y \in 1 .. used, i \in LinksFrom(y) PROVE FALSE
        OBVIOUS
      <3>1. Holds(y, "item", i)
        BY DEF Holds
      <3> QED BY <2>1, <2>4, <3>1 DEF KeepsAs
    <2>6. \A y \in 1 .. m : \A g : ~KeepsAs(stack[y], g, i)
      <3> SUFFICES ASSUME NEW y \in 1 .. m, NEW g, KeepsAs(stack[y], g, i) PROVE FALSE
        OBVIOUS
      <3>1. Holds(y, g, i)
        BY <1>4 DEF Holds
      <3>2. y # k
        BY <1>1, <2>1
      <3> QED BY <2>4, <3>1, <3>2
    <2>7. \A y \in 1 .. used : ~(y = t /\ i = c)
      BY <1>1, <1>6
    <2>8. ASSUME NEW y, NEW g
          PROVE  Holds(y, g, i)' <=> y = x /\ g = "item"
      <3>1. ~\E l \in 1 .. Len(s) : y = m + l /\ KeepsAs(s[l], g, i)
        BY <1>8 DEF Moved, PartOfOne
      <3>2. (y \in used + 1 .. used' /\ i \in LinksFrom(y)') <=> y = x
        BY <2>2
      <3> QED BY <1>5, <1>6, <2>5, <2>6, <2>7, <3>1, <3>2
    <2> QED BY <2>8
  <1>9. ASSUME NEW i \in used + 1 .. used'
        PROVE  \E x, f : \A y, g : Holds(y, g, i)' <=> y = x /\ g = f
    <2>1. i \in 1 .. used' /\ i \notin 0 .. used
      BY <1>1
    <2>2. \A y \in 1 .. used : i \notin LinksFrom(y)
      BY <2>1, PartsStored
    <2>3. \A y \in 1 .. m : \A g : ~KeepsAs(stack[y], g, i)
      <3> SUFFICES ASSUME NEW y \in 1 .. m, NEW g, KeepsAs(stack[y], g, i) PROVE FALSE
        OBVIOUS
      <3>1. stack[y] \in AnyCall /\ Keeps(stack[y])
        BY <1>1, <1>4 DEF StackTyped, Calls
      <3> QED BY <1>1, <2>1, <3>1, KeptStored
    <2>4. ASSUME NEW y, NEW g
          PROVE  Holds(y, g, i)' <=> NewHolds(m, s, t, c, y, g, i)
      <3>1. (y = t /\ t # 0 /\ i = c) <=> (y \in 1 .. used /\ y = t /\ i = c)
        BY <1>1 DEF Extends
      <3>2. Holds(y, g, i)' <=>
              \/ g = "item" /\ y \in 1 .. used /\ (i \in LinksFrom(y) \/ (y = t /\ i = c))
              \/ g = "item" /\ y \in used + 1 .. used' /\ i \in LinksFrom(y)'
              \/ y \in 1 .. m /\ KeepsAs(stack[y], g, i)
              \/ \E k \in 1 .. Len(s) : y = m + k /\ KeepsAs(s[k], g, i)
        BY <1>5, <2>1
      <3>3. y \in 1 .. used => i \notin LinksFrom(y)
        BY <2>2
      <3>4. y \in 1 .. m => ~KeepsAs(stack[y], g, i)
        BY <2>3
      <3>5. NewHolds(m, s, t, c, y, g, i) <=>
              \/ g = "item" /\ y = t /\ t # 0 /\ i = c
              \/ g = "item" /\ y \in used + 1 .. used' /\ i \in LinksFrom(y)'
              \/ \E k \in 1 .. Len(s) : y = m + k /\ KeepsAs(s[k], g, i)
        BY DEF NewHolds
      <3> QED BY <3>1, <3>2, <3>3, <3>4, <3>5
    <2>5. PICK x, f : \A y, g : NewHolds(m, s, t, c, y, g, i) <=> y = x /\ g = f
      BY <1>9
    <2>6. \A y, g : Holds(y, g, i)' <=> y = x /\ g = f
      BY <2>4, <2>5
    <2> QED BY <2>6
  <1> SUFFICES ASSUME NEW i \in 1 .. used'
               PROVE  \E x, f : \A y, g : Holds(y, g, i)' <=> y = x /\ g = f
    BY DEF OneHolder
  <1>10. CASE i \in 1 .. used
    BY <1>7, <1>8, <1>10
  <1>11. i \in 1 .. used \/ i \in used + 1 .. used'
    BY <1>1
  <1> QED BY <1>9, <1>10, <1>11
-----------------------------------------------------------------------------
(* The steps that store nothing.                                           *)

\* The innermost call, and what is known of it.
LEMMA TopCall ==
  ASSUME TypeOK, StackTyped
  PROVE  /\ stack \in Seq(AnyCall) /\ Len(stack) \in Nat /\ Len(stack) >= 1
         /\ Len(stack) \in Calls /\ Top \in AnyCall
         /\ Shape(Len(stack)) /\ ElseFits(Top) /\ Keeps(Top)
         /\ used \in Nat
  BY Ids DEF TypeOK, StackTyped, Calls, Top, AnyCall

\* The call it stands on, unless it is the root's.
LEMMA ParentCall ==
  ASSUME TypeOK, StackTyped, Top.is = "cond" \/ Top.role # "Root"
  PROVE  /\ Len(stack) >= 2 /\ Len(stack) - 1 \in Calls
         /\ stack[Len(stack) - 1] \in AnyCall /\ Keeps(stack[Len(stack) - 1])
         /\ ElseFits(stack[Len(stack) - 1])
         /\ StandsOn(Top, stack[Len(stack) - 1])
  <1>1. /\ stack \in Seq(AnyCall) /\ Len(stack) \in Nat /\ Len(stack) >= 1
        /\ Shape(Len(stack))
    BY TopCall
  <1>2. Len(stack) # 1
    BY <1>1 DEF Shape, IsRoot, Top
  <1>3. Len(stack) >= 2 /\ Len(stack) - 1 \in Calls
    <2>1. \A n \in Nat : n >= 1 /\ n # 1 => n >= 2 /\ n - 1 \in 1 .. n
      OBVIOUS
    <2> QED BY <1>1, <1>2, <2>1 DEF Calls
  <1>4. \A k \in Calls : stack[k] \in AnyCall /\ ElseFits(stack[k]) /\ Keeps(stack[k])
    BY <1>1 DEF StackTyped, Calls
  <1>5. StandsOn(Top, stack[Len(stack) - 1])
    BY <1>1, <1>2 DEF Shape, Top
  <1> QED BY <1>3, <1>4, <1>5

\* A step that stores nothing keeps the graph and its holders.
LEMMA QuietStays ==
  ASSUME TypeOK, LinksTyped, StackTyped, OneHolder, UNCHANGED <<items, used>>,
         NEW m, NEW s, Rest(m, s), StandingCalls(m, s), OwnLists(m, s),
         \A k \in 1 .. Len(s) : Keeps(s[k]),
         \A i \in 1 .. used : Unmoved(m, s, i)
  PROVE  LinksTyped' /\ StackTyped' /\ OneHolder'
  <1>1. Extends(0, 0)
    BY Ids DEF Extends, TypeOK
  <1>2. LinksTyped'
    BY <1>1, LinksStay DEF LinksTyped
  <1>3. \A k \in 1 .. Len(s) : Keeps(s[k])'
    BY DEF Keeps, Stored
  <1>4. StackTyped'
    BY <1>1, <1>3, StackStays
  <1>5. used + 1 .. used' = {}
    BY Ids DEF TypeOK
  <1>6. OneHolder'
    BY <1>1, <1>5, HoldersStay
  <1> QED BY <1>2, <1>4, <1>6

\* The calls on top keep what those that came and went kept.
LEMMA CallsUnmoved ==
  ASSUME stack \in Seq(AnyCall), NEW m \in 0 .. Len(stack) - 1, NEW s, Len(s) \in Nat,
         NEW i, PartOfNone(i),
         \A f : (Len(s) >= 1 /\ KeepsAs(s[1], f, i)) <=> KeepsAs(stack[m + 1], f, i),
         \A k \in 2 .. Len(s) : \A f : ~KeepsAs(s[k], f, i),
         \A k \in Calls : k > m + 1 => \A f : ~KeepsAs(stack[k], f, i)
  PROVE  Unmoved(m, s, i)
  <1>1. Len(stack) \in Nat /\ m \in Nat
    OBVIOUS
  <1>2. ASSUME NEW f, NEW k
        PROVE  (k \in 1 .. Len(s) /\ KeepsAs(s[k], f, i))
                 <=> (k \in Nat \ {0} /\ m + k \in Calls /\ KeepsAs(stack[m + k], f, i))
    <2>1. CASE k = 1
      <3>1. m + 1 \in Calls /\ k \in Nat \ {0}
        BY <1>1, <2>1 DEF Calls
      <3> QED BY <2>1, <3>1
    <2>2. CASE k # 1
      <3>1. k \in Nat \ {0} => m + k > m + 1
        BY <1>1, <2>2
      <3>2. k \in 1 .. Len(s) => k \in 2 .. Len(s)
        BY <2>2
      <3> QED BY <3>1, <3>2
    <2> QED BY <2>1, <2>2
  <1> QED BY <1>2 DEF Unmoved

\* When nothing is stored, the calls on top keep what the innermost one kept.
LEMMA TopUnmoved ==
  ASSUME TypeOK, StackTyped, used' = used, NEW s, Len(s) \in Nat, NEW i \in 1 .. used,
         \A f : (Len(s) >= 1 /\ KeepsAs(s[1], f, i)) <=> KeepsAs(Top, f, i),
         \A k \in 2 .. Len(s) : \A f : ~KeepsAs(s[k], f, i)
  PROVE  Unmoved(Len(stack) - 1, s, i)
  <1>1. Len(stack) \in Nat /\ Len(stack) >= 1 /\ used \in Nat /\ stack \in Seq(AnyCall)
    BY TopCall
  <1>2. PartOfNone(i)
    BY <1>1 DEF PartOfNone
  <1>3. Len(stack) - 1 \in 0 .. Len(stack) - 1 /\ Len(stack) - 1 + 1 = Len(stack)
    BY <1>1
  <1>4. \A k \in Calls : ~(k > Len(stack) - 1 + 1)
    BY <1>1 DEF Calls
  <1>5. \A f : (Len(s) >= 1 /\ KeepsAs(s[1], f, i)) <=> KeepsAs(stack[Len(stack) - 1 + 1], f, i)
    BY <1>3 DEF Top
  <1> QED BY <1>1, <1>2, <1>3, <1>4, <1>5, CallsUnmoved

\* The parse of a Named begins.
LEMMA ReadNamedStep ==
  ASSUME DInv, status = "reading", NEW after \in Tokens \union {Eof}, ReadNamed(after)
  PROVE  DInv'
  <1> USE DEF DInv
  <1> DEFINE mask == IF next.has_mask THEN next.mask ELSE Top.scope
             e == OneLess(Top)
             b == Branch("Named", "pairs", mask, next.mask, NoName, next.count + 1)
             s == <<e, b>>
  <1>1. /\ ExpectsCommand /\ next.op = "Named" /\ stack' = Append(WithTop(e), b)
        /\ next' = after /\ UNCHANGED <<heap, cmds_id, status>>
    BY DEF ReadNamed, NamedLegal
  <1>2. /\ Top \in Branches /\ HoldsCommands(Top) /\ (Top.role = "Root" \/ Top.left > 0)
        /\ Keeps(Top) /\ stack \in Seq(AnyCall) /\ Len(stack) \in Nat /\ Len(stack) >= 1
    BY <1>1, TopCall, CallKinds DEF ExpectsCommand, HoldsCommands, AnyCall
  <1>3. /\ next.mask \in Mask /\ next.count \in Nat /\ Top.scope \in Mask
        /\ {} \in Mask /\ NoName \in GroupNames
    BY <1>1, <1>2, TokenKinds, TokenFields DEF TypeOK, Branches, Mask, GroupNames
  <1>4. /\ e \in Branches /\ e.is = "branch" /\ e.role = Top.role /\ e.holds = "commands"
        /\ e.head = Top.head /\ e.tail = Top.tail
    BY <1>2, CallChanged DEF OneLess, Branches, HoldsCommands
  <1>5. /\ b \in Branches /\ b.is = "branch" /\ b.role = "Named" /\ b.holds = "pairs"
        /\ b.left > 0 /\ b.head = 0 /\ b.tail = 0
    BY <1>3, ItemSpaceAssumption DEF Branches, Branch, OptId
  <1> HIDE DEF e, b
  <1>6. Rest(Len(stack) - 1, s)
    BY <1>1, <1>2, <1>4, <1>5, RestsOn DEF AnyCall
  <1>7. s[1] = e /\ s[2] = b /\ Len(s) = 2 /\ 2 .. Len(s) = {2} /\ 1 .. Len(s) = {1, 2}
    OBVIOUS
  <1> HIDE DEF s
  <1>8. Len(stack) - 1 + 1 = Len(stack) /\ Top.role # "Named"
    BY <1>2, TopCall DEF Shape, IsRoot, StandsOn, Top, HoldsCommands
  <1>9. StandingCalls(Len(stack) - 1, s)
    BY <1>2, <1>4, <1>5, <1>7, <1>8
       DEF StandingCalls, SameKind, StandsOn, HoldsCommands, ElseFits, Top
  <1>10. OwnLists(Len(stack) - 1, s)
    BY <1>4, <1>5, <1>7, <1>8 DEF OwnLists, Top
  <1>11. Keeps(e) /\ Keeps(b)
    BY <1>2, <1>4, <1>5, <1>8 DEF Keeps, HoldsCommands
  <1>12. \A i \in 1 .. used : Unmoved(Len(stack) - 1, s, i)
    <2> SUFFICES ASSUME NEW i \in 1 .. used PROVE Unmoved(Len(stack) - 1, s, i)
      OBVIOUS
    <2>1. \A f : KeepsAs(e, f, i) <=> KeepsAs(Top, f, i)
      BY <1>2, <1>4 DEF KeepsAs, HoldsCommands
    <2>2. \A f : ~KeepsAs(b, f, i)
      BY <1>5 DEF KeepsAs
    <2>3. /\ \A f : (Len(s) >= 1 /\ KeepsAs(s[1], f, i)) <=> KeepsAs(Top, f, i)
          /\ \A k \in 2 .. Len(s) : \A f : ~KeepsAs(s[k], f, i)
      BY <1>7, <2>1, <2>2
    <2>4. used' = used /\ Len(s) \in Nat
      BY <1>1, <1>7 DEF heap
    <2> QED BY <2>3, <2>4, TopUnmoved
  <1>13. LinksTyped' /\ StackTyped' /\ OneHolder'
    BY <1>1, <1>6, <1>7, <1>9, <1>10, <1>11, <1>12, QuietStays DEF heap
  <1>14. TypeOK'
    BY <1>1, <1>6 DEF TypeOK, heap, Rest, AnyCall
  <1>15. RootTaken'
    BY <1>1 DEF RootTaken
  <1> QED BY <1>13, <1>14, <1>15

\* The parse of a conditional begins, with that of its If branch.
LEMMA ReadIfStep ==
  ASSUME DInv, status = "reading", NEW after \in Tokens \union {Eof}, ReadIf(after)
  PROVE  DInv'
  <1> USE DEF DInv
  <1> DEFINE holds == IF next.op = "GroupIf" THEN "commands" ELSE "pairs"
             e == OneLess(Top)
             d == Cond(next, 0, 0, FALSE)
             b == Branch("If", holds, next.mask, {}, next.label, next.count)
             s == <<e, d, b>>
  <1>1. /\ ExpectsCommand /\ next.op \in {"GroupIf", "GroupIfNamed"}
        /\ {next.shift} \subseteq Top.scope /\ Fits(Needed(next.label))
        /\ stack' = WithTop(e) \o <<d, b>>
        /\ chars' = chars + Needed(next.label)
        /\ next' = after /\ UNCHANGED <<items, used, cmds_id, status>>
    BY DEF ReadIf, IfLegal
  <1>2. /\ Top \in Branches /\ HoldsCommands(Top) /\ (Top.role = "Root" \/ Top.left > 0)
        /\ Keeps(Top) /\ stack \in Seq(AnyCall) /\ Len(stack) \in Nat /\ Len(stack) >= 1
    BY <1>1, TopCall, CallKinds DEF ExpectsCommand, HoldsCommands, AnyCall
  <1>3. /\ next.mask \in Mask /\ next.label \in GroupNames /\ next.count \in Nat
        /\ {} \in Mask /\ next.shift \in Bits
    BY <1>1, <1>2, TokenKinds, TokenFields DEF TypeOK, Mask, Branches
  <1>4. /\ e \in Branches /\ e.is = "branch" /\ e.role = Top.role /\ e.holds = "commands"
        /\ e.head = Top.head /\ e.tail = Top.tail
    BY <1>2, CallChanged DEF OneLess, Branches, HoldsCommands
  <1>5. /\ d \in Conds /\ d.is = "cond" /\ ~d.negate /\ ~d.else_read
        /\ d.true_group = 0 /\ d.false_group = 0
    BY <1>3, ItemSpaceAssumption DEF Cond, Conds, OptId, Mask
  <1>6. /\ b \in Branches /\ b.is = "branch" /\ b.role = "If" /\ b.head = 0 /\ b.tail = 0
    BY <1>3, ItemSpaceAssumption DEF Branches, Branch, OptId
  <1> HIDE DEF e, d, b
  <1>7. Rest(Len(stack) - 1, s)
    BY <1>1, <1>2, <1>4, <1>5, <1>6, RestsOn DEF AnyCall
  <1>8. /\ s[1] = e /\ s[2] = d /\ s[3] = b /\ Len(s) = 3
        /\ 2 .. Len(s) = {2, 3} /\ 1 .. Len(s) = {1, 2, 3}
    OBVIOUS
  <1> HIDE DEF s
  <1>9. Len(stack) - 1 + 1 = Len(stack) /\ Top.role # "Named"
    BY <1>2, TopCall DEF Shape, IsRoot, StandsOn, Top, HoldsCommands
  <1>10. StandingCalls(Len(stack) - 1, s)
    BY <1>2, <1>4, <1>5, <1>6, <1>8, <1>9
       DEF StandingCalls, SameKind, StandsOn, HoldsCommands, ElseFits, Top
  <1>11. OwnLists(Len(stack) - 1, s)
    BY <1>4, <1>5, <1>6, <1>8, <1>9 DEF OwnLists, Top
  <1>12. Keeps(e) /\ Keeps(d) /\ Keeps(b)
    BY <1>2, <1>4, <1>5, <1>6, <1>9 DEF Keeps, HoldsCommands
  <1>13. \A i \in 1 .. used : Unmoved(Len(stack) - 1, s, i)
    <2> SUFFICES ASSUME NEW i \in 1 .. used PROVE Unmoved(Len(stack) - 1, s, i)
      OBVIOUS
    <2>1. \A f : KeepsAs(e, f, i) <=> KeepsAs(Top, f, i)
      BY <1>2, <1>4 DEF KeepsAs, HoldsCommands
    <2>2. \A f : ~KeepsAs(d, f, i) /\ ~KeepsAs(b, f, i)
      BY <1>5, <1>6 DEF KeepsAs
    <2>3. /\ \A f : (Len(s) >= 1 /\ KeepsAs(s[1], f, i)) <=> KeepsAs(Top, f, i)
          /\ \A k \in 2 .. Len(s) : \A f : ~KeepsAs(s[k], f, i)
      BY <1>8, <2>1, <2>2
    <2>4. used' = used /\ Len(s) \in Nat
      BY <1>1, <1>8
    <2> QED BY <2>3, <2>4, TopUnmoved
  <1>14. LinksTyped' /\ StackTyped' /\ OneHolder'
    BY <1>1, <1>7, <1>8, <1>10, <1>11, <1>12, <1>13, QuietStays
  <1>15. TypeOK'
    <2>1. chars' \in 0 .. StringSpace
      BY <1>1, <1>3, NeededIsNat, StringSpaceAssumption DEF TypeOK, Fits
    <2> QED BY <1>1, <1>7, <2>1 DEF TypeOK, Rest, AnyCall
  <1>16. RootTaken'
    BY <1>1 DEF RootTaken
  <1> QED BY <1>14, <1>15, <1>16

\* A branch goes on with another block.
LEMMA ReadContinueStep ==
  ASSUME DInv, status = "reading", NEW after \in Tokens \union {Eof}, ReadContinue(after)
  PROVE  DInv'
  <1> USE DEF DInv
  <1> DEFINE e == [Top EXCEPT !.left = next.count + 1]
             s == <<e>>
  <1>1. /\ BlockRead /\ next.op = "ContinueScope" /\ stack' = WithTop(e)
        /\ next' = after /\ UNCHANGED <<heap, cmds_id, status>>
    BY DEF ReadContinue
  <1>2. /\ Top \in Branches /\ Top.is = "branch"
        /\ Keeps(Top) /\ stack \in Seq(AnyCall) /\ Len(stack) \in Nat /\ Len(stack) >= 1
    BY <1>1, TopCall, CallKinds DEF BlockRead, AnyCall
  <1>3. next.count \in Nat
    BY <1>1, TokenKinds, TokenFields DEF TypeOK
  <1>4. /\ e \in Branches /\ e.is = "branch" /\ e.role = Top.role /\ e.holds = Top.holds
        /\ e.head = Top.head /\ e.tail = Top.tail /\ e.left > 0
    BY <1>2, <1>3 DEF Branches
  <1> HIDE DEF e
  <1>5. Rest(Len(stack) - 1, s)
    BY <1>1, <1>2, <1>4, RestsOn DEF AnyCall
  <1>6. s[1] = e /\ Len(s) = 1 /\ 2 .. Len(s) = {} /\ 1 .. Len(s) = {1}
    OBVIOUS
  <1> HIDE DEF s
  <1>7. Len(stack) - 1 + 1 = Len(stack)
    BY <1>2
  <1>8. StandingCalls(Len(stack) - 1, s)
    BY <1>2, <1>4, <1>6, <1>7 DEF StandingCalls, SameKind, ElseFits, Top
  <1>9. OwnLists(Len(stack) - 1, s)
    BY <1>4, <1>6, <1>7 DEF OwnLists, Top
  <1>10. Keeps(e)
    BY <1>2, <1>4 DEF Keeps
  <1>11. \A i \in 1 .. used : Unmoved(Len(stack) - 1, s, i)
    <2> SUFFICES ASSUME NEW i \in 1 .. used PROVE Unmoved(Len(stack) - 1, s, i)
      OBVIOUS
    <2>1. \A f : KeepsAs(e, f, i) <=> KeepsAs(Top, f, i)
      BY <1>2, <1>4 DEF KeepsAs
    <2>2. /\ \A f : (Len(s) >= 1 /\ KeepsAs(s[1], f, i)) <=> KeepsAs(Top, f, i)
          /\ \A k \in 2 .. Len(s) : \A f : ~KeepsAs(s[k], f, i)
      BY <1>6, <2>1
    <2>3. used' = used /\ Len(s) \in Nat
      BY <1>1, <1>6 DEF heap
    <2> QED BY <2>2, <2>3, TopUnmoved
  <1>12. LinksTyped' /\ StackTyped' /\ OneHolder'
    BY <1>1, <1>5, <1>6, <1>8, <1>9, <1>10, <1>11, QuietStays DEF heap
  <1>13. TypeOK'
    BY <1>1, <1>5 DEF TypeOK, heap, Rest, AnyCall
  <1>14. RootTaken'
    BY <1>1 DEF RootTaken
  <1> QED BY <1>12, <1>13, <1>14

\* The parse of an Else branch begins.
LEMMA ReadElseStep ==
  ASSUME DInv, status = "reading", NEW after \in Tokens \union {Eof}, ReadElse(after)
  PROVE  DInv'
  <1> USE DEF DInv
  <1> DEFINE holds == IF next.commands THEN "commands" ELSE "pairs"
             e == [Top EXCEPT !.else_read = TRUE]
             b == Branch("Else", holds, Top.mask, {}, next.label, next.count + 1)
             s == <<e, b>>
  <1>1. /\ ElseFollows /\ Fits(Needed(next.label)) /\ stack' = Append(WithTop(e), b)
        /\ chars' = chars + Needed(next.label)
        /\ next' = after /\ UNCHANGED <<items, used, cmds_id, status>>
    BY DEF ReadElse
  <1>2. /\ Top \in Conds /\ Top.is = "cond" /\ ~Top.else_read /\ ElseFits(Top)
        /\ Keeps(Top) /\ stack \in Seq(AnyCall) /\ Len(stack) \in Nat /\ Len(stack) >= 1
    BY <1>1, TopCall, CallKinds DEF ElseFollows, AnyCall
  <1>3. next.label \in GroupNames /\ next.count \in Nat /\ Top.mask \in Mask /\ {} \in Mask
    BY <1>1, <1>2, TokenKinds, TokenFields DEF ElseFollows, TypeOK, Conds, Mask
  <1>4. /\ e \in Conds /\ e.is = "cond" /\ e.else_read
        /\ e.true_group = Top.true_group /\ e.false_group = Top.false_group
        /\ e.negate = Top.negate
    BY <1>2 DEF Conds
  <1>5. /\ b \in Branches /\ b.is = "branch" /\ b.role = "Else" /\ b.head = 0 /\ b.tail = 0
    BY <1>3, ItemSpaceAssumption DEF Branches, Branch, OptId
  <1> HIDE DEF e, b
  <1>6. Rest(Len(stack) - 1, s)
    BY <1>1, <1>2, <1>4, <1>5, RestsOn DEF AnyCall
  <1>7. s[1] = e /\ s[2] = b /\ Len(s) = 2 /\ 2 .. Len(s) = {2} /\ 1 .. Len(s) = {1, 2}
    OBVIOUS
  <1> HIDE DEF s
  <1>8. Len(stack) - 1 + 1 = Len(stack)
    BY <1>2
  <1>9. StandingCalls(Len(stack) - 1, s)
    <2>1. StandsOn(b, e)
      BY <1>2, <1>4, <1>5 DEF StandsOn, ElseFits
    <2> QED BY <1>2, <1>4, <1>5, <1>7, <1>8, <2>1 DEF StandingCalls, SameKind, ElseFits, Top
  <1>10. OwnLists(Len(stack) - 1, s)
    BY <1>4, <1>5, <1>7, <1>8 DEF OwnLists, Top
  <1>11. Keeps(e) /\ Keeps(b)
    BY <1>2, <1>4, <1>5 DEF Keeps
  <1>12. \A i \in 1 .. used : Unmoved(Len(stack) - 1, s, i)
    <2> SUFFICES ASSUME NEW i \in 1 .. used PROVE Unmoved(Len(stack) - 1, s, i)
      OBVIOUS
    <2>1. \A f : KeepsAs(e, f, i) <=> KeepsAs(Top, f, i)
      BY <1>2, <1>4 DEF KeepsAs
    <2>2. \A f : ~KeepsAs(b, f, i)
      BY <1>5 DEF KeepsAs
    <2>3. /\ \A f : (Len(s) >= 1 /\ KeepsAs(s[1], f, i)) <=> KeepsAs(Top, f, i)
          /\ \A k \in 2 .. Len(s) : \A f : ~KeepsAs(s[k], f, i)
      BY <1>7, <2>1, <2>2
    <2>4. used' = used /\ Len(s) \in Nat
      BY <1>1, <1>7
    <2> QED BY <2>3, <2>4, TopUnmoved
  <1>13. LinksTyped' /\ StackTyped' /\ OneHolder'
    BY <1>1, <1>6, <1>7, <1>9, <1>10, <1>11, <1>12, QuietStays
  <1>14. TypeOK'
    <2>1. chars' \in 0 .. StringSpace
      BY <1>1, <1>3, NeededIsNat, StringSpaceAssumption DEF TypeOK, Fits
    <2> QED BY <1>1, <1>6, <2>1 DEF TypeOK, Rest, AnyCall
  <1>15. RootTaken'
    BY <1>1 DEF RootTaken
  <1> QED BY <1>13, <1>14, <1>15

\* A call that kept nothing returns.
LEMMA PopStep ==
  ASSUME DInv, status = "reading", UNCHANGED <<heap, cmds_id, next, status>>, stack' = Popped,
         Top.is = "cond" \/ Top.role # "Root",
         \A i \in 1 .. used : \A f : ~KeepsAs(Top, f, i)
  PROVE  DInv'
  <1> USE DEF DInv
  <1> DEFINE s == <<>>
  <1>1. stack \in Seq(AnyCall) /\ Len(stack) \in Nat /\ Len(stack) >= 2 /\ Top \in AnyCall
    BY TopCall, ParentCall
  <1>2. Rest(Len(stack) - 1, <<>>)
    <2>1. Len(stack) >= 1
      BY <1>1
    <2> QED BY <1>1, <2>1, RestsBelow
  <1>3. Len(s) = 0 /\ 2 .. Len(s) = {} /\ 1 .. Len(s) = {} /\ Rest(Len(stack) - 1, s)
    BY <1>2
  <1> HIDE DEF s
  <1>4. StandingCalls(Len(stack) - 1, s) /\ OwnLists(Len(stack) - 1, s)
    BY <1>1, <1>3 DEF StandingCalls, OwnLists
  <1>5. \A i \in 1 .. used : Unmoved(Len(stack) - 1, s, i)
    <2> SUFFICES ASSUME NEW i \in 1 .. used PROVE Unmoved(Len(stack) - 1, s, i)
      OBVIOUS
    <2>1. /\ \A f : (Len(s) >= 1 /\ KeepsAs(s[1], f, i)) <=> KeepsAs(Top, f, i)
          /\ \A k \in 2 .. Len(s) : \A f : ~KeepsAs(s[k], f, i)
      BY <1>3
    <2>2. used' = used /\ Len(s) \in Nat
      BY <1>3 DEF heap
    <2> QED BY <2>1, <2>2, TopUnmoved
  <1>6. LinksTyped' /\ StackTyped' /\ OneHolder'
    BY <1>3, <1>4, <1>5, QuietStays DEF heap
  <1>7. TypeOK'
    BY <1>2 DEF TypeOK, heap, Rest, AnyCall
  <1>8. RootTaken'
    BY DEF RootTaken
  <1> QED BY <1>6, <1>7, <1>8

\* An If branch in which nothing was stored ends.
LEMMA EndEmptyIfStep ==
  ASSUME DInv, status = "reading", EndEmptyIf
  PROVE  DInv'
  <1>1. Top.is = "branch" /\ Top.role = "If" /\ Top.head = 0
    BY DEF EndEmptyIf, Ends, BlockRead
  <1>2. \A i \in 1 .. used : \A f : ~KeepsAs(Top, f, i)
    BY <1>1 DEF KeepsAs
  <1> QED BY <1>1, <1>2, PopStep DEF EndEmptyIf

\* A conditional without a branch is dropped.
LEMMA DropCondStep ==
  ASSUME DInv, status = "reading", DropCond
  PROVE  DInv'
  <1>1. Top.is = "cond" /\ Top.true_group = 0 /\ Top.false_group = 0
    BY DEF DropCond, ConditionRead, IsEmpty
  <1>2. \A i \in 1 .. used : \A f : ~KeepsAs(Top, f, i)
    BY <1>1 DEF KeepsAs
  <1> QED BY <1>1, <1>2, PopStep DEF DropCond

\* A step that changes neither the heap nor the stack.
LEMMA StutterStep ==
  ASSUME DInv, UNCHANGED <<heap, stack>>, TypeOK', RootTaken'
  PROVE  DInv'
  <1> USE DEF DInv
  <1>1. LinksTyped'
    BY DEF heap, LinksTyped, LinksOf, Onward, Earlier, Stored
  <1>2. StackTyped'
    BY DEF heap, StackTyped, Calls, Shape, ElseFits, Keeps, Stored, TailsApart
  <1>3. \A x, f, i : Holds(x, f, i)' <=> Holds(x, f, i)
    BY DEF heap, Holds, LinksFrom, Calls, KeepsAs
  <1>4. OneHolder'
    <2> SUFFICES ASSUME NEW i \in 1 .. used
                 PROVE  \E x, f : \A y, g : Holds(y, g, i)' <=> y = x /\ g = f
      BY DEF heap, OneHolder
    <2>1. PICK x, f : \A y, g : Holds(y, g, i) <=> y = x /\ g = f
      BY DEF OneHolder
    <2>2. \A y, g : Holds(y, g, i)' <=> y = x /\ g = f
      BY <1>3, <2>1
    <2> QED BY <2>2
  <1> QED BY <1>1, <1>2, <1>4
-----------------------------------------------------------------------------
(* The steps that append a command to a branch.                            *)

\* The branch keeps the first node of its list, whether new or not.
LEMMA AppendedKept ==
  ASSUME TypeOK, NEW b \in Branches, Keeps(b), HoldsCommands(b), NEW a \in {b, OneLess(b)},
         NEW c, used < c, c \in Nat
  PROVE  /\ Appended(a, c).is = "branch" /\ Appended(a, c).role = b.role
         /\ Appended(a, c).holds = b.holds /\ Appended(a, c).tail = c
         /\ \A i \in 1 .. used : \A f : KeepsAs(Appended(a, c), f, i) <=> KeepsAs(b, f, i)
         /\ \A i, f : i # 0 /\ i \notin 1 .. used =>
              (KeepsAs(Appended(a, c), f, i) <=> f = "head" /\ b.head = 0 /\ i = c)
  <1>1. PICK e : e = Appended(a, c)
    OBVIOUS
  <1>2. /\ a.is = "branch" /\ a.head = b.head /\ a.holds = "commands" /\ DOMAIN a = DOMAIN b
        /\ a.role = b.role
    BY DEF OneLess, Branches, HoldsCommands
  <1>3. /\ e.is = "branch" /\ e.tail = c /\ e.holds = "commands" /\ e.role = b.role
        /\ e.head = IF b.head = 0 THEN c ELSE b.head
    BY <1>1, <1>2 DEF Appended, OneLess, Branches
  <1>4. b.is = "branch" /\ b.holds = "commands" /\ used \in Nat /\ c \notin 0 .. used
    BY Ids DEF HoldsCommands, TypeOK
  <1>5. b.head = 0 \/ b.head \in 1 .. used
    BY <1>4 DEF Keeps, Stored
  <1>6. \A i \in 1 .. used : \A f : KeepsAs(e, f, i) <=> KeepsAs(b, f, i)
    BY <1>3, <1>4 DEF KeepsAs
  <1>7. \A i, f : i # 0 /\ i \notin 1 .. used =>
          (KeepsAs(e, f, i) <=> f = "head" /\ b.head = 0 /\ i = c)
    BY <1>3, <1>4, <1>5 DEF KeepsAs
  <1> QED BY <1>1, <1>3, <1>4, <1>6, <1>7

\* Item i was kept by a call that returned, and becomes a part of a new item.
Returned(m, i) ==
  /\ PartOfOne(i)
  /\ \E k \in Calls : k > m + 1 /\ \E f : KeepsAs(stack[k], f, i)

\* No call that returned kept item i.
NotReturned(m, i) ==
  /\ PartOfNone(i)
  /\ \A k \in Calls : k > m + 1 => \A f : ~KeepsAs(stack[k], f, i)

\* The graph and its holders after a command is appended to the branch m + 1.
LEMMA AppendStays ==
  ASSUME TypeOK, LinksTyped, StackTyped, OneHolder,
         NEW m \in Nat, m + 1 \in Calls, HoldsCommands(stack[m + 1]),
         NEW b, b = stack[m + 1], NEW a \in {b, OneLess(b)}, a \in Branches,
         NEW its, NEW command, NEW c, Appends(its, b, command, c),
         Rest(m, <<Appended(a, c)>>),
         \A x \in used + 1 .. used' : x # c => LinksOf(x)',
         \A i \in used + 1 .. used' : i # c => PartOfOne(i),
         PartOfNone(c),
         \A i \in 1 .. used : Returned(m, i) \/ NotReturned(m, i)
  PROVE  LinksTyped' /\ StackTyped' /\ OneHolder'
  <1>1. /\ used \in Nat /\ used' \in Nat /\ c \in used + 1 .. used' /\ used <= used'
        /\ c \in Nat /\ used < c /\ c # 0 /\ c \notin 1 .. used /\ used' \in OptId
    BY Ids, ItemSpaceAssumption DEF Appends, TypeOK, OptId
  <1>2. /\ stack \in Seq(AnyCall) /\ Len(stack) \in Nat /\ b \in Branches /\ b.is = "branch"
        /\ Keeps(b) /\ HoldsCommands(b) /\ m \in 0 .. Len(stack) - 1 /\ m < Len(stack)
    BY TopCall, CallKinds DEF Calls, HoldsCommands, StackTyped, AnyCall
  <1>3. Extends(b.tail, c) /\ items'[c] = CmdsItem(command) /\ LinksOf(c)'
    BY <1>2, AppendEffect
  <1>4. LinksTyped'
    <2>1. \A i \in 1 .. used' : i \in 1 .. used \/ i \in used + 1 .. used'
      BY <1>1
    <2>2. \A i \in 1 .. used : LinksOf(i)'
      BY <1>3, LinksStay
    <2>3. \A i \in used + 1 .. used' : LinksOf(i)'
      BY <1>3
    <2> QED BY <2>1, <2>2, <2>3 DEF LinksTyped
  <1>5. PICK e : e = Appended(a, c)
    OBVIOUS
  <1>6. /\ e.is = "branch" /\ e.role = b.role /\ e.holds = b.holds /\ e.tail = c
        /\ \A i \in 1 .. used : \A f : KeepsAs(e, f, i) <=> KeepsAs(b, f, i)
        /\ \A i, f : i # 0 /\ i \notin 1 .. used =>
             (KeepsAs(e, f, i) <=> f = "head" /\ b.head = 0 /\ i = c)
    BY <1>1, <1>2, <1>5, AppendedKept
  <1>7. Keeps(e)'
    <2>1. Keeps(Appended(a, c))'
      BY <1>1, <1>2, <1>3, AppendedKeeps
    <2> QED BY <1>5, <2>1
  <1> DEFINE s == <<e>>
  <1>8. s[1] = e /\ Len(s) = 1 /\ 2 .. Len(s) = {} /\ 1 .. Len(s) = {1} /\ Rest(m, s)
    BY <1>5
  <1> HIDE DEF s
  <1>9. StackTyped'
    <2>1. StandingCalls(m, s)
      BY <1>2, <1>6, <1>8 DEF StandingCalls, SameKind, ElseFits
    <2>2. OwnLists(m, s)
      BY <1>1, <1>6, <1>8 DEF OwnLists
    <2>3. \A k \in 1 .. Len(s) : Keeps(s[k])'
      BY <1>7, <1>8
    <2> QED BY <1>2, <1>3, <1>8, <2>1, <2>2, <2>3, StackStays
  <1>10. ASSUME NEW i \in 1 .. used PROVE Unmoved(m, s, i) \/ Moved(m, s, i)
    <2>1. CASE NotReturned(m, i)
      <3>1. \A f : (Len(s) >= 1 /\ KeepsAs(s[1], f, i)) <=> KeepsAs(stack[m + 1], f, i)
        BY <1>6, <1>8
      <3>2. PartOfNone(i) /\ \A k \in Calls : k > m + 1 => \A f : ~KeepsAs(stack[k], f, i)
        BY <2>1 DEF NotReturned
      <3>3. Len(s) \in Nat /\ \A k \in 2 .. Len(s) : \A f : ~KeepsAs(s[k], f, i)
        BY <1>8
      <3>4. Unmoved(m, s, i)
        BY <1>2, <3>1, <3>2, <3>3, CallsUnmoved
      <3> QED BY <3>4
    <2>2. CASE Returned(m, i)
      <3>1. PICK k \in Calls : k > m + 1 /\ \E f : KeepsAs(stack[k], f, i)
        BY <2>2 DEF Returned
      <3>2. PICK f : KeepsAs(stack[k], f, i)
        BY <3>1
      <3>3. \A g : ~KeepsAs(b, g, i)
        <4> SUFFICES ASSUME NEW g, KeepsAs(b, g, i) PROVE FALSE
          OBVIOUS
        <4>1. Holds(k, f, i) /\ Holds(m + 1, g, i)
          BY <3>2 DEF Holds
        <4>2. k # m + 1
          BY <3>1
        <4> QED BY <4>1, <4>2 DEF OneHolder
      <3>4. \A g, l : l \in 1 .. Len(s) => ~KeepsAs(s[l], g, i)
        BY <1>6, <1>8, <3>3
      <3>5. k > m
        BY <1>2, <3>1 DEF Calls
      <3>6. Moved(m, s, i)
        BY <2>2, <3>1, <3>4, <3>5 DEF Moved, Returned
      <3> QED BY <3>6
    <2> QED BY <2>1, <2>2
  <1>11. ASSUME NEW i \in used + 1 .. used'
         PROVE  \E x, f : \A y, g : NewHolds(m, s, b.tail, c, y, g, i) <=> y = x /\ g = f
    <2>1. i # 0 /\ i \notin 1 .. used
      BY <1>1
    <2>2. \A y, g : (\E k \in 1 .. Len(s) : y = m + k /\ KeepsAs(s[k], g, i))
                      <=> y = m + 1 /\ g = "head" /\ b.head = 0 /\ i = c
      BY <1>6, <1>8, <2>1
    <2>3. CASE i # c
      <3>1. PICK x \in used + 1 .. used' :
                   \A y \in used + 1 .. used' : i \in LinksFrom(y)' <=> y = x
        BY <1>11, <2>3 DEF PartOfOne
      <3>2. ASSUME NEW y, NEW g
            PROVE  NewHolds(m, s, b.tail, c, y, g, i) <=> y = x /\ g = "item"
        <4>1. (y \in used + 1 .. used' /\ i \in LinksFrom(y)') <=> y = x
          BY <3>1
        <4>2. ~\E k \in 1 .. Len(s) : y = m + k /\ KeepsAs(s[k], g, i)
          BY <2>2, <2>3
        <4>3. NewHolds(m, s, b.tail, c, y, g, i) <=>
                g = "item" /\ y \in used + 1 .. used' /\ i \in LinksFrom(y)'
          BY <2>3, <4>2 DEF NewHolds
        <4> QED BY <4>1, <4>3
      <3>3. \A y, g : NewHolds(m, s, b.tail, c, y, g, i) <=> y = x /\ g = "item"
        BY <3>2
      <3>4. PICK f : f = "item"
        OBVIOUS
      <3>5. \A y, g : NewHolds(m, s, b.tail, c, y, g, i) <=> y = x /\ g = f
        BY <3>3, <3>4
      <3> QED BY <3>5
    <2>4. CASE i = c
      <3>1. ASSUME NEW y, NEW g
            PROVE  NewHolds(m, s, b.tail, c, y, g, i) <=>
                     \/ g = "item" /\ y = b.tail /\ b.tail # 0
                     \/ y = m + 1 /\ g = "head" /\ b.head = 0
        <4>1. ~(y \in used + 1 .. used' /\ i \in LinksFrom(y)')
          BY <2>4 DEF PartOfNone
        <4> QED BY <2>2, <2>4, <4>1 DEF NewHolds
      <3>2. b.head = 0 <=> b.tail = 0
        BY <1>2 DEF Keeps
      <3>3. CASE b.head = 0
        <4>1. ASSUME NEW y, NEW g
              PROVE  NewHolds(m, s, b.tail, c, y, g, i) <=> y = m + 1 /\ g = "head"
          BY <3>1, <3>2, <3>3
        <4>2. \A y, g : NewHolds(m, s, b.tail, c, y, g, i) <=> y = m + 1 /\ g = "head"
          BY <4>1
        <4>3. PICK x, f : x = m + 1 /\ f = "head"
          OBVIOUS
        <4>4. \A y, g : NewHolds(m, s, b.tail, c, y, g, i) <=> y = x /\ g = f
          BY <4>2, <4>3
        <4> QED BY <4>4
      <3>4. CASE b.head # 0
        <4>1. ASSUME NEW y, NEW g
              PROVE  NewHolds(m, s, b.tail, c, y, g, i) <=> y = b.tail /\ g = "item"
          BY <3>1, <3>2, <3>4
        <4>2. \A y, g : NewHolds(m, s, b.tail, c, y, g, i) <=> y = b.tail /\ g = "item"
          BY <4>1
        <4>3. PICK x, f : x = b.tail /\ f = "item"
          OBVIOUS
        <4>4. \A y, g : NewHolds(m, s, b.tail, c, y, g, i) <=> y = x /\ g = f
          BY <4>2, <4>3
        <4> QED BY <4>4
      <3> QED BY <3>3, <3>4
    <2> QED BY <2>3, <2>4
  <1>12. OneHolder'
    BY <1>3, <1>8, <1>10, <1>11, HoldersStay
  <1> QED BY <1>4, <1>9, <1>12

\* What the new items are parts of, kind by kind.
LEMMA PartsMade ==
  ASSUME NEW x
  PROVE  /\ \A mask, format, name : items'[x] = NumericItem(mask, format, name) => LinksFrom(x)' = {}
         /\ \A command : items'[x] = CmdsItem(command) => LinksFrom(x)' = {command, 0}
         /\ \A name, c : items'[x] = [GroupItem(name) EXCEPT !.cmds = c] => LinksFrom(x)' = {c}
         /\ \A value, name : items'[x] = PairsItem(value, name) => LinksFrom(x)' = {0}
         /\ \A mask, p : items'[x] = [NamedItem(mask) EXCEPT !.pairs = p] => LinksFrom(x)' = {p}
         /\ \A bit, mask, t, f :
              items'[x] = CondItem(bit, mask, t, f) => LinksFrom(x)' = {t, f}
  BY DEF LinksFrom, NumericItem, CmdsItem, GroupItem, PairsItem, NamedItem, CondItem

\* A numeric field is stored with its node.
LEMMA ReadNumericStep ==
  ASSUME DInv, status = "reading", NEW after \in Tokens \union {Eof}, ReadNumeric(after)
  PROVE  DInv'
  <1> USE DEF DInv
  <1>0. PICK n, c : n = used + 1 /\ c = used + 2
    OBVIOUS
  <1> DEFINE a == OneLess(Top)
             x == NumericItem(next.mask, next.format, next.name)
             its == [items EXCEPT ![n] = x]
             m == Len(stack) - 1
  <1>1. /\ ExpectsCommand /\ next.op = "Numeric" /\ Fits(Needed(next.name)) /\ Room(2)
        /\ items' = AppendNode(its, Top, n, c) /\ used' = c
        /\ chars' = chars + Needed(next.name) /\ stack' = WithTop(Appended(a, c))
        /\ next' = after /\ UNCHANGED <<cmds_id, status>>
    BY <1>0 DEF ReadNumeric, NumericLegal
  <1>2. /\ Top \in Branches /\ HoldsCommands(Top) /\ (Top.role = "Root" \/ Top.left > 0)
        /\ Keeps(Top) /\ stack \in Seq(AnyCall) /\ Len(stack) \in Nat /\ Len(stack) >= 1
    BY <1>1, TopCall, CallKinds DEF ExpectsCommand, HoldsCommands, AnyCall
  <1>3. next.mask \in Mask /\ next.format \in Formats /\ next.name \in Names
    BY <1>1, TokenKinds, TokenFields DEF TypeOK
  <1>4. a \in Branches /\ Appended(a, c) \in Branches /\ c \in OptId /\ used' \in OptId
    <2>1. c \in OptId
      BY <1>0, <1>1, Ids, ItemSpaceAssumption DEF Room, OptId, TypeOK
    <2> QED BY <1>1, <1>2, <2>1, CallChanged
  <1>5. Rest(m, <<Appended(a, c)>>)
    BY <1>1, <1>2, <1>4, RestsOn DEF AnyCall
  <1>6. /\ used \in Nat /\ n \in ItemIds /\ c \in ItemIds /\ n # c /\ n \notin 1 .. used
        /\ 1 .. used \subseteq ItemIds /\ items \in [ItemIds -> Item]
        /\ used + 1 .. used' = {n, c} /\ n \in 1 .. c - 1
    BY <1>0, <1>1, <1>4, Ids, ItemSpaceAssumption DEF TypeOK, OptId, ItemIds
  <1>7. x \in NumericItems /\ x \in Item /\ x.kind = "Numeric"
    BY <1>3, ItemMade DEF Item, NumericItems
  <1> HIDE DEF a, x
  <1>8. /\ its \in [ItemIds -> Item] /\ its[n] = x
        /\ \A i \in 1 .. used : its[i] = items[i]
    BY <1>6, <1>7
  <1>9. Appends(its, Top, n, c)
    BY <1>1, <1>4, <1>6, <1>7, <1>8 DEF Appends, CommandKinds
  <1> HIDE DEF its
  <1>10. /\ items' \in [ItemIds -> Item] /\ items'[n] = x /\ items'[c] = CmdsItem(n)
    BY <1>2, <1>6, <1>8, <1>9, AppendEffect
  <1>11. LinksFrom(n)' = {} /\ LinksFrom(c)' = {n, 0}
    BY <1>10, PartsMade DEF x
  <1>12. LinksOf(n)'
    BY <1>7, <1>10 DEF LinksOf
  <1>13. /\ PartOfOne(n) /\ PartOfNone(c)
         /\ \A i \in 1 .. used : PartOfNone(i)
    BY <1>6, <1>11 DEF PartOfOne, PartOfNone
  <1>14. m \in Nat /\ m + 1 = Len(stack) /\ m + 1 \in Calls /\ Top = stack[m + 1]
    BY <1>2 DEF Calls, Top
  <1>15. \A i \in 1 .. used : NotReturned(m, i)
    BY <1>13, <1>14 DEF NotReturned, Calls
  <1>16. a \in {Top, OneLess(Top)}
    BY DEF a
  <1> HIDE DEF m
  <1>17. LinksTyped' /\ StackTyped' /\ OneHolder'
    BY <1>2, <1>4, <1>5, <1>6, <1>9, <1>12, <1>13, <1>14, <1>15, <1>16, AppendStays
  <1>18. TypeOK'
    <2>1. chars' \in 0 .. StringSpace
      BY <1>1, <1>3, NeededIsNat, StringSpaceAssumption DEF TypeOK, Fits, GroupNames
    <2> QED BY <1>1, <1>4, <1>5, <1>10, <2>1 DEF TypeOK, Rest, AnyCall
  <1>19. RootTaken'
    BY <1>1 DEF RootTaken
  <1> QED BY <1>17, <1>18, <1>19

\* A finished Named is appended to the branch that it stands in.
LEMMA EndNamedStep ==
  ASSUME DInv, status = "reading", EndNamed
  PROVE  DInv'
  <1> USE DEF DInv
  <1>0. PICK c, h : c = used + 1 /\ h = Top.head
    OBVIOUS
  <1> DEFINE b == stack[Len(stack) - 1]
             m == Len(stack) - 2
  <1>1. /\ Top.is = "branch" /\ Top.role = "Named" /\ Top.left = 0 /\ Room(1)
        /\ items' = AppendNode(items, b, h, c) /\ used' = c
        /\ stack' = [Popped EXCEPT ![Len(stack) - 1] = Appended(b, c)]
        /\ UNCHANGED <<chars, cmds_id, next, status>>
    BY <1>0 DEF EndNamed, Ends, BlockRead
  <1>2. /\ stack \in Seq(AnyCall) /\ Len(stack) \in Nat /\ Len(stack) >= 2 /\ Len(stack) >= 1
        /\ Top \in Branches /\ Keeps(Top) /\ b \in AnyCall /\ Keeps(b) /\ StandsOn(Top, b)
    BY <1>1, TopCall, ParentCall, CallKinds DEF AnyCall
  <1>3. HoldsCommands(b) /\ b \in Branches /\ Top.holds = "pairs"
    BY <1>1, <1>2, CallKinds DEF StandsOn, HoldsCommands, AnyCall
  <1>4. h # 0 /\ h \in 1 .. used /\ items[h].kind = "Named"
    BY <1>0, <1>1, <1>2, <1>3 DEF Keeps, Stored
  <1>5. c \in OptId /\ used' \in OptId /\ Appended(b, c) \in Branches
    <2>1. c \in OptId
      BY <1>0, <1>1, Ids, ItemSpaceAssumption DEF Room, OptId, TypeOK
    <2> QED BY <1>1, <1>3, <2>1, CallChanged
  <1>6. Rest(m, <<Appended(b, c)>>)
    BY <1>1, <1>2, <1>5, RestsBelow DEF AnyCall
  <1>7. /\ used \in Nat /\ c \notin 0 .. used /\ items \in [ItemIds -> Item]
        /\ used + 1 .. used' = {c} /\ h \in 1 .. c - 1 /\ c - 1 = used
    <2>1. used \in Nat /\ items \in [ItemIds -> Item]
      BY Ids DEF TypeOK
    <2>2. c = used + 1 /\ used' = c
      BY <1>0, <1>1
    <2> QED BY <1>4, <2>1, <2>2
  <1>8. Appends(items, b, h, c)
    BY <1>1, <1>4, <1>5, <1>7 DEF Appends, CommandKinds
  <1>9. items' \in [ItemIds -> Item] /\ items'[c] = CmdsItem(h)
    BY <1>3, <1>2, <1>8, AppendEffect
  <1>10. LinksFrom(c)' = {h, 0}
    BY <1>9, PartsMade
  <1>11. PartOfNone(c)
    BY <1>4, <1>7, <1>10 DEF PartOfNone
  <1>12. /\ m \in Nat /\ m + 1 = Len(stack) - 1 /\ m + 1 \in Calls /\ b = stack[m + 1]
         /\ Len(stack) \in Calls /\ Len(stack) > m + 1
         /\ \A k \in Calls : k > m + 1 => k = Len(stack)
    BY <1>2 DEF Calls
  <1>13. ASSUME NEW i \in 1 .. used PROVE Returned(m, i) \/ NotReturned(m, i)
    <2>1. CASE i = h
      <3>1. PartOfOne(i)
        BY <1>7, <1>10, <2>1 DEF PartOfOne
      <3>2. KeepsAs(stack[Len(stack)], "head", i)
        BY <1>0, <1>1, <2>1 DEF KeepsAs, Top
      <3> QED BY <1>12, <3>1, <3>2 DEF Returned
    <2>2. CASE i # h
      <3>1. PartOfNone(i)
        BY <1>7, <1>10, <2>2 DEF PartOfNone
      <3>2. \A f : ~KeepsAs(stack[Len(stack)], f, i)
        BY <1>0, <1>1, <2>2 DEF KeepsAs, Top
      <3> QED BY <1>12, <3>1, <3>2 DEF NotReturned
    <2> QED BY <2>1, <2>2
  <1> HIDE DEF m, b
  <1>14. LinksTyped' /\ StackTyped' /\ OneHolder'
    BY <1>3, <1>6, <1>7, <1>8, <1>11, <1>12, <1>13, AppendStays
  <1>15. TypeOK'
    BY <1>1, <1>5, <1>6, <1>9 DEF TypeOK, Rest, AnyCall
  <1>16. RootTaken'
    BY <1>1 DEF RootTaken
  <1> QED BY <1>14, <1>15, <1>16

\* A finished conditional is stored and appended to the branch it stands in.
LEMMA EndCondStep ==
  ASSUME DInv, status = "reading", EndCond
  PROVE  DInv'
  <1> USE DEF DInv
  <1>0. PICK n, c, t, f : /\ n = used + 1 /\ c = used + 2
                         /\ t = Top.true_group /\ f = Top.false_group
    OBVIOUS
  <1> DEFINE b == stack[Len(stack) - 1]
             x == CondItem(Top.bit, Top.mask, t, f)
             its == [items EXCEPT ![n] = x]
             m == Len(stack) - 2
  <1>1. /\ Top.is = "cond" /\ ~IsEmpty(Top) /\ Room(2)
        /\ items' = AppendNode(its, b, n, c) /\ used' = c
        /\ stack' = [Popped EXCEPT ![Len(stack) - 1] = Appended(b, c)]
        /\ UNCHANGED <<chars, cmds_id, next, status>>
    BY <1>0 DEF EndCond, ConditionRead
  <1>2. /\ stack \in Seq(AnyCall) /\ Len(stack) \in Nat /\ Len(stack) >= 2 /\ Len(stack) >= 1
        /\ Top \in Conds /\ Keeps(Top) /\ b \in AnyCall /\ Keeps(b) /\ StandsOn(Top, b)
    BY <1>1, TopCall, ParentCall, CallKinds DEF AnyCall
  <1>3. HoldsCommands(b) /\ b \in Branches
    BY <1>1, <1>2, CallKinds DEF StandsOn, HoldsCommands, AnyCall
  <1>4. /\ t \in 0 .. used /\ f \in 0 .. used /\ (t # 0 \/ f # 0)
        /\ t # 0 => Stored(t, {"Group"})
        /\ f # 0 => Stored(f, {"Group"})
    BY <1>0, <1>1, <1>2, Ids DEF Keeps, Stored, IsEmpty, TypeOK
  <1>5. c \in OptId /\ used' \in OptId /\ Appended(b, c) \in Branches
    <2>1. c \in OptId
      BY <1>0, <1>1, Ids, ItemSpaceAssumption DEF Room, OptId, TypeOK
    <2> QED BY <1>1, <1>3, <2>1, CallChanged
  <1>6. Rest(m, <<Appended(b, c)>>)
    BY <1>1, <1>2, <1>5, RestsBelow DEF AnyCall
  <1>7. /\ used \in Nat /\ n \in ItemIds /\ c \in ItemIds /\ n # c /\ n \notin 0 .. used
        /\ c \notin 0 .. used
        /\ 1 .. used \subseteq ItemIds /\ items \in [ItemIds -> Item]
        /\ used + 1 .. used' = {n, c} /\ n \in 1 .. c - 1
    BY <1>0, <1>1, <1>5, Ids, ItemSpaceAssumption DEF TypeOK, OptId, ItemIds
  <1>8. x \in CondItems /\ x \in Item /\ x.kind = "Conditional"
    BY <1>0, <1>2, ItemMade DEF Item, CondItems, Conds
  <1>9. x.true_group = t /\ x.false_group = f
    BY DEF CondItem
  <1> HIDE DEF x
  <1>10. /\ its \in [ItemIds -> Item] /\ its[n] = x
         /\ \A i \in 1 .. used : its[i] = items[i]
    BY <1>7, <1>8
  <1>11. Appends(its, b, n, c)
    BY <1>1, <1>5, <1>7, <1>8, <1>10 DEF Appends, CommandKinds
  <1> HIDE DEF its
  <1>12. /\ items' \in [ItemIds -> Item] /\ items'[n] = x /\ items'[c] = CmdsItem(n)
         /\ Extends(b.tail, c)
    BY <1>2, <1>3, <1>7, <1>10, <1>11, AppendEffect
  <1>13. LinksFrom(n)' = {t, f} /\ LinksFrom(c)' = {n, 0}
    BY <1>12, PartsMade DEF x
  <1>14. LinksOf(n)'
    <2>1. /\ t # 0 => Stored(t, {"Group"})' /\ t < n
          /\ f # 0 => Stored(f, {"Group"})' /\ f < n
      BY <1>4, <1>7, <1>12, StoredStays
    <2> QED BY <1>4, <1>8, <1>9, <1>12, <2>1 DEF LinksOf, Earlier
  <1>15. PartOfOne(n) /\ PartOfNone(c)
    BY <1>4, <1>7, <1>13 DEF PartOfOne, PartOfNone
  <1>16. /\ m \in Nat /\ m + 1 = Len(stack) - 1 /\ m + 1 \in Calls /\ b = stack[m + 1]
         /\ Len(stack) \in Calls /\ Len(stack) > m + 1
         /\ \A k \in Calls : k > m + 1 => k = Len(stack)
    BY <1>2 DEF Calls
  <1>17. ASSUME NEW i \in 1 .. used PROVE Returned(m, i) \/ NotReturned(m, i)
    <2>1. CASE i = t \/ i = f
      <3>1. PartOfOne(i)
        BY <1>7, <1>13, <2>1 DEF PartOfOne
      <3>2. \E g : KeepsAs(stack[Len(stack)], g, i)
        BY <1>0, <1>1, <2>1 DEF KeepsAs, Top
      <3> QED BY <1>16, <3>1, <3>2 DEF Returned
    <2>2. CASE i # t /\ i # f
      <3>1. PartOfNone(i)
        BY <1>7, <1>13, <2>2 DEF PartOfNone
      <3>2. \A g : ~KeepsAs(stack[Len(stack)], g, i)
        BY <1>0, <1>1, <2>2 DEF KeepsAs, Top
      <3> QED BY <1>16, <3>1, <3>2 DEF NotReturned
    <2> QED BY <2>1, <2>2
  <1> HIDE DEF m, b
  <1>18. LinksTyped' /\ StackTyped' /\ OneHolder'
    BY <1>3, <1>6, <1>7, <1>11, <1>14, <1>15, <1>16, <1>17, AppendStays
  <1>19. TypeOK'
    BY <1>1, <1>5, <1>6, <1>12 DEF TypeOK, Rest, AnyCall
  <1>20. RootTaken'
    BY <1>1 DEF RootTaken
  <1> QED BY <1>18, <1>19, <1>20
-----------------------------------------------------------------------------
(* The steps that store Groups and pairs.                                  *)

HeldBy(m, s, t, c, i, x, f) == \A y, g : NewHolds(m, s, t, c, y, g, i) <=> y = x /\ g = f
OneNewHolder(m, s, t, c, i) == \E x, f : HeldBy(m, s, t, c, i, x, f)

\* A new item that is a part of another has that one holder.
LEMMA HeldByItem ==
  ASSUME NEW m, NEW s, NEW t, NEW c, NEW i, PartOfOne(i), t = 0 \/ i # c,
         \A k \in 1 .. Len(s) : \A g : ~KeepsAs(s[k], g, i)
  PROVE  OneNewHolder(m, s, t, c, i)
  <1>1. PICK x \in used + 1 .. used' : \A y \in used + 1 .. used' : i \in LinksFrom(y)' <=> y = x
    BY DEF PartOfOne
  <1>2. ASSUME NEW y, NEW g
        PROVE  NewHolds(m, s, t, c, y, g, i) <=> y = x /\ g = "item"
    <2>1. (y \in used + 1 .. used' /\ i \in LinksFrom(y)') <=> y = x
      BY <1>1
    <2>2. ~\E k \in 1 .. Len(s) : y = m + k /\ KeepsAs(s[k], g, i)
      OBVIOUS
    <2>3. NewHolds(m, s, t, c, y, g, i) <=>
            g = "item" /\ y \in used + 1 .. used' /\ i \in LinksFrom(y)'
      BY <2>2 DEF NewHolds
    <2> QED BY <2>1, <2>3
  <1>3. HeldBy(m, s, t, c, i, x, "item")
    BY <1>2 DEF HeldBy
  <1> QED BY <1>3 DEF OneNewHolder

\* So has the one that goes to the end of a list.
LEMMA HeldByTail ==
  ASSUME NEW m, NEW s, NEW t, NEW c, PartOfNone(c), t # 0,
         \A k \in 1 .. Len(s) : \A g : ~KeepsAs(s[k], g, c)
  PROVE  OneNewHolder(m, s, t, c, c)
  <1>1. ASSUME NEW y, NEW g
        PROVE  NewHolds(m, s, t, c, y, g, c) <=> y = t /\ g = "item"
    BY DEF NewHolds, PartOfNone
  <1>2. HeldBy(m, s, t, c, c, t, "item")
    BY <1>1 DEF HeldBy
  <1> QED BY <1>2 DEF OneNewHolder

\* So has the one that a call keeps.
LEMMA HeldByCall ==
  ASSUME NEW m, NEW s, NEW t, NEW c, NEW i, PartOfNone(i), t = 0 \/ i # c,
         NEW l \in 1 .. Len(s), NEW h, KeepsAs(s[l], h, i),
         \A k \in 1 .. Len(s) : \A g : KeepsAs(s[k], g, i) => k = l /\ g = h
  PROVE  OneNewHolder(m, s, t, c, i)
  <1>1. ASSUME NEW y, NEW g
        PROVE  NewHolds(m, s, t, c, y, g, i) <=> y = m + l /\ g = h
    <2>1. ~(y \in used + 1 .. used' /\ i \in LinksFrom(y)')
      BY DEF PartOfNone
    <2>2. NewHolds(m, s, t, c, y, g, i) <=>
            \E k \in 1 .. Len(s) : y = m + k /\ KeepsAs(s[k], g, i)
      BY <2>1 DEF NewHolds
    <2>3. (\E k \in 1 .. Len(s) : y = m + k /\ KeepsAs(s[k], g, i)) <=> y = m + l /\ g = h
      <3>1. ASSUME NEW k \in 1 .. Len(s), y = m + k, KeepsAs(s[k], g, i)
            PROVE  y = m + l /\ g = h
        BY <3>1
      <3> QED BY <3>1
    <2> QED BY <2>2, <2>3
  <1>2. HeldBy(m, s, t, c, i, m + l, h)
    BY <1>1 DEF HeldBy
  <1> QED BY <1>2 DEF OneNewHolder

\* The graph, the stack and the holders after a step that stores items.
LEMMA StoreStays ==
  ASSUME TypeOK, LinksTyped, StackTyped, OneHolder,
         NEW m, NEW s, Rest(m, s), NEW t, NEW c, Extends(t, c),
         t = 0 \/ (m < Len(stack) /\ stack[m + 1].is = "branch" /\ t = stack[m + 1].tail),
         StandingCalls(m, s), OwnLists(m, s),
         \A k \in 1 .. Len(s) : Keeps(s[k])',
         \A i \in used + 1 .. used' : LinksOf(i)',
         \A i \in 1 .. used : Unmoved(m, s, i) \/ Moved(m, s, i),
         \A i \in used + 1 .. used' : OneNewHolder(m, s, t, c, i)
  PROVE  LinksTyped' /\ StackTyped' /\ OneHolder'
  <1>1. used \in Nat /\ used' \in Nat
    BY Ids, ItemSpaceAssumption DEF TypeOK, Extends, OptId
  <1>2. \A i \in 1 .. used' : i \in 1 .. used \/ i \in used + 1 .. used'
    BY <1>1
  <1>3. \A i \in 1 .. used : LinksOf(i)'
    BY LinksStay
  <1>4. LinksTyped'
    BY <1>2, <1>3 DEF LinksTyped
  <1>5. StackTyped'
    BY StackStays
  <1>6. OneHolder'
    <2>1. \A i \in used + 1 .. used' :
            \E x, f : \A y, g : NewHolds(m, s, t, c, y, g, i) <=> y = x /\ g = f
      BY DEF OneNewHolder, HeldBy
    <2> QED BY <2>1, HoldersStay
  <1> QED BY <1>4, <1>5, <1>6

\* A conditional whose first branch is a single numeric field is begun, with
\* that branch's Group stored.
LEMMA ReadIfNumericStep ==
  ASSUME DInv, status = "reading", NEW after \in Tokens \union {Eof}, ReadIfNumeric(after)
  PROVE  DInv'
  <1> USE DEF DInv
  <1>0. PICK n, c, g, a, d :
               /\ n = used + 1 /\ c = used + 2 /\ g = used + 3 /\ a = OneLess(Top)
               /\ d = IF next.negate THEN Cond(next, 0, g, TRUE) ELSE Cond(next, g, 0, FALSE)
    OBVIOUS
  <1> DEFINE x == NumericItem(next.mask, next.format, next.name)
             z == [GroupItem(next.label) EXCEPT !.cmds = c]
             s == <<a, d>>
             m == Len(stack) - 1
  <1>1. /\ ExpectsCommand /\ next.op = "GroupIfNumeric" /\ {next.shift} \subseteq Top.scope
        /\ Fits(Needed(next.label) + Needed(next.name)) /\ Room(3)
        /\ items' = [items EXCEPT ![n] = x, ![c] = CmdsItem(n), ![g] = z] /\ used' = g
        /\ chars' = chars + Needed(next.label) + Needed(next.name)
        /\ stack' = Append(WithTop(a), d)
        /\ next' = after /\ UNCHANGED <<cmds_id, status>>
    BY <1>0 DEF ReadIfNumeric, IfNumericLegal
  <1>2. /\ Top \in Branches /\ HoldsCommands(Top) /\ (Top.role = "Root" \/ Top.left > 0)
        /\ Keeps(Top) /\ stack \in Seq(AnyCall) /\ Len(stack) \in Nat /\ Len(stack) >= 1
        /\ Shape(Len(stack))
    BY <1>1, TopCall, CallKinds DEF ExpectsCommand, HoldsCommands, AnyCall
  <1>3. /\ next.mask \in Mask /\ next.label \in GroupNames
        /\ next.format \in Formats /\ next.name \in Names /\ next.shift \in Bits
    BY <1>1, <1>2, TokenKinds, TokenFields DEF TypeOK, Mask, Branches
  <1>4. /\ a \in Branches /\ a.is = "branch" /\ a.role = Top.role /\ a.holds = "commands"
        /\ a.head = Top.head /\ a.tail = Top.tail
    BY <1>0, <1>2, CallChanged DEF OneLess, Branches, HoldsCommands
  <1>5. /\ used \in Nat /\ g \in OptId /\ c \in OptId /\ n \in OptId /\ g # 0
        /\ n \in ItemIds /\ c \in ItemIds /\ g \in ItemIds
        /\ n # c /\ n # g /\ c # g /\ n < c /\ c < g
        /\ n \notin 0 .. used /\ c \notin 0 .. used /\ g \notin 0 .. used
        /\ 1 .. used \subseteq ItemIds /\ items \in [ItemIds -> Item]
    BY <1>0, <1>1, Ids, ItemSpaceAssumption DEF Room, TypeOK, OptId, ItemIds
  <1>6. /\ used + 1 .. used' = {n, c, g} /\ used <= used' /\ used' \in Nat
        /\ n \in 1 .. used' /\ c \in 1 .. used' /\ g \in 1 .. used'
    <2>1. \A u \in Nat : u + 1 .. u + 3 = {u + 1, u + 2, u + 3}
      OBVIOUS
    <2>2. used + 1 .. used + 3 = {n, c, g} /\ used' = used + 3
      BY <1>0, <1>1, <1>5, <2>1
    <2> QED BY <1>0, <1>5, <2>2
  <1>7. /\ d \in Conds /\ d.is = "cond" /\ ~d.else_read
        /\ \/ d.negate /\ d.true_group = 0 /\ d.false_group = g
           \/ ~d.negate /\ d.true_group = g /\ d.false_group = 0
    <2>1. 0 \in OptId /\ {next.shift} \in Mask
      BY <1>3, <1>5, Ids DEF Mask, TypeOK
    <2> QED BY <1>0, <1>3, <1>5, <2>1 DEF Cond, Conds
  <1>8. x \in Item /\ x.kind = "Numeric" /\ CmdsItem(n) \in Item /\ z \in Item
    BY <1>3, <1>5, ItemMade DEF Item, NumericItems
  <1>9. Rest(m, s)
    BY <1>1, <1>2, <1>4, <1>7, RestsOn DEF AnyCall
  <1>10. s[1] = a /\ s[2] = d /\ Len(s) = 2 /\ 2 .. Len(s) = {2} /\ 1 .. Len(s) = {1, 2}
    OBVIOUS
  <1> HIDE DEF s, x, z
  <1>11. /\ items' \in [ItemIds -> Item] /\ items'[n] = x /\ items'[c] = CmdsItem(n)
         /\ items'[g] = z /\ \A i \in 1 .. used : items'[i] = items[i]
    BY <1>1, <1>5, <1>8
  <1>12. LinksFrom(n)' = {} /\ LinksFrom(c)' = {n, 0} /\ LinksFrom(g)' = {c}
    <2>1. LinksFrom(n)' = {}
      BY <1>11, PartsMade DEF x
    <2>2. LinksFrom(c)' = {n, 0}
      BY <1>11, PartsMade
    <2>3. LinksFrom(g)' = {c}
      <3>1. items'[g].kind = "Group" /\ items'[g].cmds = c
        BY <1>11 DEF GroupItem, z
      <3> QED BY <3>1 DEF LinksFrom
    <2> QED BY <2>1, <2>2, <2>3
  <1>13. Extends(0, c)
    BY <1>1, <1>5, <1>6, <1>11 DEF Extends
  <1>14. \A i \in used + 1 .. used' : LinksOf(i)'
    <2>1. LinksOf(n)'
      BY <1>8, <1>11 DEF LinksOf
    <2>2. Earlier(c, n, CommandKinds)'
      BY <1>5, <1>6, <1>8, <1>11 DEF Earlier, Stored, CommandKinds
    <2>3. LinksOf(c)'
      BY <1>11, <2>2 DEF LinksOf, Onward, CmdsItem
    <2>4. Earlier(g, c, {"Cmds"})'
      BY <1>5, <1>6, <1>11 DEF Earlier, Stored, CmdsItem
    <2>5. LinksOf(g)'
      BY <1>11, <2>4 DEF LinksOf, GroupItem, z
    <2> QED BY <1>6, <2>1, <2>3, <2>5
  <1>15. m + 1 = Len(stack) /\ m \in 0 .. Len(stack) - 1 /\ Top = stack[m + 1]
         /\ m < Len(stack) /\ m \in Nat /\ \A k \in Calls : ~(k > m + 1)
    BY <1>2 DEF Top, Calls
  <1> HIDE DEF m
  <1>16. StandingCalls(m, s)
    BY <1>2, <1>4, <1>7, <1>10, <1>15
       DEF StandingCalls, SameKind, StandsOn, HoldsCommands, ElseFits
  <1>17. OwnLists(m, s)
    BY <1>4, <1>7, <1>10, <1>15 DEF OwnLists
  <1>18. \A k \in 1 .. Len(s) : Keeps(s[k])'
    <2>1. Keeps(a)
      <3>1. Top.role # "Named"
        BY <1>2 DEF Shape, IsRoot, StandsOn, Top, HoldsCommands
      <3> QED BY <1>2, <1>4, <3>1 DEF Keeps, HoldsCommands
    <2>2. Keeps(a)'
      BY <1>4, <1>13, <2>1, KeepsStay DEF AnyCall
    <2>3. Stored(g, {"Group"})'
      BY <1>6, <1>11 DEF Stored, GroupItem, z
    <2>4. Keeps(d)'
      BY <1>7, <2>3 DEF Keeps
    <2> QED BY <1>10, <2>2, <2>4
  <1>19. ASSUME NEW i \in 1 .. used PROVE Unmoved(m, s, i)
    <2>1. \A f : KeepsAs(a, f, i) <=> KeepsAs(Top, f, i)
      BY <1>2, <1>4 DEF KeepsAs, HoldsCommands
    <2>2. \A f : ~KeepsAs(d, f, i)
      BY <1>5, <1>7 DEF KeepsAs
    <2>3. PartOfNone(i)
      BY <1>5, <1>6, <1>12 DEF PartOfNone
    <2>4. /\ \A f : (Len(s) >= 1 /\ KeepsAs(s[1], f, i)) <=> KeepsAs(stack[m + 1], f, i)
          /\ \A k \in 2 .. Len(s) : \A f : ~KeepsAs(s[k], f, i)
          /\ Len(s) \in Nat
      BY <1>10, <1>15, <2>1, <2>2
    <2> QED BY <1>2, <1>15, <2>3, <2>4, CallsUnmoved
  <1>20. ASSUME NEW i \in used + 1 .. used'
         PROVE  OneNewHolder(m, s, 0, c, i)
    <2>1. \A f : ~KeepsAs(a, f, i)
      <3>1. i # 0 /\ i \notin 1 .. used
        BY <1>5, <1>6
      <3> QED BY <1>2, <1>4, <3>1 DEF KeepsAs, Keeps, Stored, HoldsCommands
    <2>2. CASE i = n \/ i = c
      <3>1. PartOfOne(i)
        <4>1. CASE i = n
          BY <1>5, <1>6, <1>12, <4>1 DEF PartOfOne
        <4>2. CASE i = c
          BY <1>5, <1>6, <1>12, <4>2 DEF PartOfOne
        <4> QED BY <2>2, <4>1, <4>2
      <3>2. i # 0 /\ i # g
        BY <1>5, <2>2
      <3>3. \A h : ~KeepsAs(d, h, i)
        BY <1>7, <3>2 DEF KeepsAs
      <3>4. \A k \in 1 .. Len(s) : \A h : ~KeepsAs(s[k], h, i)
        BY <1>10, <2>1, <3>3
      <3> QED BY <3>1, <3>4, HeldByItem
    <2>3. CASE i = g
      <3>1. PartOfNone(i)
        BY <1>5, <1>6, <1>12, <2>3 DEF PartOfNone
      <3>2. PICK l, h : l = 2 /\ h = IF d.negate THEN "false" ELSE "true"
        OBVIOUS
      <3>3. \A f : KeepsAs(d, f, i) <=> f = h
        BY <1>5, <1>7, <2>3, <3>2 DEF KeepsAs
      <3>4. l \in 1 .. Len(s) /\ s[l] = d /\ KeepsAs(s[l], h, i)
        BY <1>10, <3>2, <3>3
      <3>5. \A k \in 1 .. Len(s) : k = l \/ s[k] = a
        BY <1>10, <3>2
      <3>6. ASSUME NEW k \in 1 .. Len(s), NEW f PROVE KeepsAs(s[k], f, i) => k = l /\ f = h
        <4>1. CASE k = l
          BY <3>3, <3>4, <4>1
        <4>2. CASE k # l
          BY <2>1, <3>5, <4>2
        <4> QED BY <4>1, <4>2
      <3> QED BY <3>1, <3>4, <3>6, HeldByCall
    <2> QED BY <1>6, <2>2, <2>3
  <1>21. LinksTyped' /\ StackTyped' /\ OneHolder'
    BY <1>9, <1>13, <1>14, <1>16, <1>17, <1>18, <1>19, <1>20, StoreStays
  <1>22. TypeOK'
    <2>1. chars' \in 0 .. StringSpace
      <3>1. Needed(next.label) \in Nat /\ Needed(next.name) \in Nat
        BY <1>3, NeededIsNat DEF GroupNames
      <3> QED BY <1>1, <3>1, StringSpaceAssumption DEF TypeOK, Fits
    <2> QED BY <1>1, <1>5, <1>9, <1>11, <2>1 DEF TypeOK, Rest, AnyCall
  <1>23. RootTaken'
    BY <1>1 DEF RootTaken
  <1> QED BY <1>21, <1>22, <1>23

\* What a finished branch leaves in the heap: a Group, and before it, if the
\* branch held pairs, a list of one command.
GroupStored(h, q, g) ==
  /\ h = Top.head /\ h \in 1 .. used /\ g \in ItemIds /\ g \in OptId /\ g \notin 0 .. used
  /\ items' \in [ItemIds -> Item] /\ Extends(0, g)
  /\ LinksFrom(g)' = {q} /\ LinksOf(g)' /\ items'[g].kind = "Group" /\ items'[g].cmds = q
  /\ g \in used + 1 .. used'
  /\ \/ q = h /\ used + 1 .. used' = {g}
     \/ /\ q # h /\ q # g /\ q \notin 0 .. used /\ used + 1 .. used' = {q, g}
        /\ LinksFrom(q)' = {h, 0} /\ LinksOf(q)'
        /\ items'[q] = CmdsItem(h) /\ Stored(h, {"Named"})

\* A finished branch, of commands or of pairs, leaves that.
LEMMA BranchStored ==
  ASSUME DInv, status = "reading", EndBranch, NEW g, g = used'
  PROVE  \E h, q : GroupStored(h, q, g)
  <1> USE DEF DInv
  <1>0. PICK h : h = Top.head
    OBVIOUS
  <1>1. /\ Top.is = "branch" /\ h # 0 /\ Room(GroupSize) /\ g = used + GroupSize
        /\ items' = WithGroup(g) /\ Top.role \in {"If", "Else"}
    BY <1>0 DEF EndBranch, Ends, BlockRead
  <1>2. Top \in Branches /\ Keeps(Top) /\ used \in Nat /\ items \in [ItemIds -> Item]
    BY <1>1, TopCall, CallKinds DEF AnyCall, TypeOK
  <1>3. Top.label \in GroupNames /\ Top.holds \in {"commands", "pairs"}
    BY <1>2 DEF Branches
  <1>4. /\ GroupSize \in {1, 2} /\ g \in ItemIds /\ g \in OptId /\ g \notin 0 .. used
        /\ used <= g /\ g \in Nat /\ g \in 1 .. used' /\ used' \in Nat
        /\ 1 .. used \subseteq ItemIds /\ ItemIds \subseteq OptId
    BY <1>1, <1>2, Ids, ItemSpaceAssumption DEF Room, TypeOK, OptId, ItemIds, GroupSize
  <1>5. CASE Top.holds = "commands"
    <2> DEFINE z == [GroupItem(Top.label) EXCEPT !.cmds = h]
    <2>1. Stored(h, {"Cmds"}) /\ h \in 1 .. used /\ h \in OptId
      BY <1>0, <1>1, <1>2, <1>4, <1>5 DEF Keeps, Stored
    <2>2. items' = [items EXCEPT ![g] = z] /\ used' = used + 1 /\ g = used + 1
      BY <1>0, <1>1, <1>5 DEF WithGroup, GroupSize
    <2>3. z \in Item
      BY <1>3, <2>1, ItemMade DEF Item
    <2>4. z.kind = "Group" /\ z.cmds = h
      BY DEF GroupItem
    <2> HIDE DEF z
    <2>5. /\ items' \in [ItemIds -> Item] /\ items'[g] = z
          /\ \A i \in 1 .. used : items'[i] = items[i]
      BY <1>2, <1>4, <2>2, <2>3
    <2>6. Extends(0, g)
      BY <1>1, <1>4, <2>5 DEF Extends
    <2>7. Stored(h, {"Cmds"})' /\ h < g
      BY <1>2, <1>4, <2>1, <2>6, StoredStays
    <2>8. LinksOf(g)'
      BY <2>4, <2>5, <2>7 DEF LinksOf, Earlier
    <2>9. LinksFrom(g)' = {h}
      BY <2>4, <2>5 DEF LinksFrom
    <2>10. used + 1 .. used' = {g}
      BY <1>1, <1>2, <2>2
    <2>11. GroupStored(h, h, g)
      BY <1>0, <1>4, <2>1, <2>4, <2>5, <2>6, <2>8, <2>9, <2>10 DEF GroupStored
    <2> QED BY <2>11
  <1>6. CASE Top.holds = "pairs"
    <2>0. PICK q : q = g - 1
      OBVIOUS
    <2> DEFINE z == [GroupItem(Top.label) EXCEPT !.cmds = q]
    <2>1. Stored(h, {"Named"}) /\ h \in 1 .. used /\ h \in OptId
      BY <1>0, <1>1, <1>2, <1>4, <1>6 DEF Keeps, Stored
    <2>2. items' = [items EXCEPT ![q] = CmdsItem(h), ![g] = z] /\ used' = used + 2
      BY <1>0, <1>1, <1>6, <2>0 DEF WithGroup, GroupSize
    <2>3. /\ q = used + 1 /\ g = used + 2 /\ q \in ItemIds /\ q \in OptId /\ q # g /\ q # h
          /\ q \notin 0 .. used /\ q \in 1 .. used' /\ h < q /\ q < g
      <3>1. used' = used + 2 /\ g = used + 2 /\ q = used + 1
        BY <1>1, <1>2, <1>6, <2>0 DEF GroupSize
      <3> QED BY <1>2, <1>4, <2>1, <3>1, ItemSpaceAssumption DEF ItemIds, OptId
    <2>4. z \in Item /\ CmdsItem(h) \in Item
      BY <1>3, <2>1, <2>3, ItemMade DEF Item
    <2>5. z.kind = "Group" /\ z.cmds = q
      BY DEF GroupItem
    <2> HIDE DEF z
    <2>6. /\ items' \in [ItemIds -> Item] /\ items'[g] = z /\ items'[q] = CmdsItem(h)
          /\ \A i \in 1 .. used : items'[i] = items[i]
      BY <1>2, <1>4, <2>2, <2>3, <2>4
    <2>7. Extends(0, g)
      BY <1>1, <1>4, <2>6 DEF Extends
    <2>8. Stored(h, {"Named"})' /\ Stored(q, {"Cmds"})'
      BY <2>1, <2>3, <2>6, <2>7, StoredStays DEF Stored, CmdsItem
    <2>9. LinksOf(q)'
      BY <2>3, <2>6, <2>8 DEF LinksOf, Earlier, Onward, CmdsItem, Stored, CommandKinds
    <2>10. LinksOf(g)'
      BY <2>3, <2>5, <2>6, <2>8 DEF LinksOf, Earlier
    <2>11. LinksFrom(g)' = {q}
      BY <2>5, <2>6 DEF LinksFrom
    <2>12. LinksFrom(q)' = {h, 0}
      BY <2>6, PartsMade
    <2>13. used + 1 .. used' = {q, g}
      BY <1>2, <2>2, <2>3
    <2>14. GroupStored(h, q, g)
      BY <1>0, <1>4, <2>1, <2>3, <2>5, <2>6, <2>7, <2>9, <2>10, <2>11, <2>12, <2>13
         DEF GroupStored
    <2> QED BY <2>14
  <1> QED BY <1>3, <1>5, <1>6

\* A finished branch becomes a Group of the conditional that it stands in.
LEMMA EndBranchStep ==
  ASSUME DInv, status = "reading", EndBranch
  PROVE  DInv'
  <1> USE DEF DInv
  <1>0. PICK g, b, e, side :
          /\ g = used' /\ b = stack[Len(stack) - 1]
          /\ side = (IF Top.role = "If" THEN TRUE ELSE b.negate) /\ e = InSide(b, side, g)
    OBVIOUS
  <1> DEFINE m == Len(stack) - 2
             s == <<e>>
  <1>1. /\ Top.is = "branch" /\ Top.role \in {"If", "Else"} /\ Top.head # 0
        /\ stack' = [Popped EXCEPT ![Len(stack) - 1] = e]
        /\ UNCHANGED <<chars, cmds_id, next, status>>
    BY <1>0 DEF EndBranch, Ends, BlockRead
  <1>2. /\ stack \in Seq(AnyCall) /\ Len(stack) \in Nat /\ Len(stack) >= 2 /\ Len(stack) >= 1
        /\ Top \in Branches /\ Keeps(Top) /\ b \in AnyCall /\ Keeps(b) /\ StandsOn(Top, b)
        /\ ElseFits(b) /\ used \in Nat
    BY <1>0, <1>1, TopCall, ParentCall, CallKinds DEF AnyCall
  <1>3. PICK h, q : GroupStored(h, q, g)
    BY <1>0, BranchStored
  <1>4. /\ h = Top.head /\ h \in 1 .. used /\ g \in ItemIds /\ g \in OptId /\ g \notin 0 .. used
        /\ items' \in [ItemIds -> Item] /\ Extends(0, g)
        /\ LinksFrom(g)' = {q} /\ LinksOf(g)' /\ items'[g].kind = "Group"
        /\ \/ q = h /\ used + 1 .. used' = {g}
           \/ /\ q # h /\ q # g /\ q \notin 0 .. used /\ used + 1 .. used' = {q, g}
              /\ LinksFrom(q)' = {h, 0} /\ LinksOf(q)'
    BY <1>3 DEF GroupStored
  <1>5. /\ b.is = "cond" /\ b \in Conds /\ side \in BOOLEAN
        /\ side => b.true_group = 0
        /\ ~side => b.false_group = 0
        /\ ~b.else_read => side /\ ~b.negate /\ b.false_group = 0
    BY <1>0, <1>1, <1>2, CallKinds DEF StandsOn, AnyCall, Conds
  <1>6. /\ e \in Conds /\ e.is = "cond" /\ e.negate = b.negate /\ e.else_read = b.else_read
        /\ side => e.true_group = g /\ e.false_group = b.false_group
        /\ ~side => e.false_group = g /\ e.true_group = b.true_group
    BY <1>0, <1>4, <1>5 DEF InSide, Conds
  <1>7. Rest(m, s)
    BY <1>1, <1>2, <1>6, RestsBelow DEF AnyCall
  <1>8. s[1] = e /\ Len(s) = 1 /\ 2 .. Len(s) = {} /\ 1 .. Len(s) = {1}
    OBVIOUS
  <1> HIDE DEF s
  <1>9. /\ m \in Nat /\ m + 1 = Len(stack) - 1 /\ m + 1 \in Calls /\ b = stack[m + 1]
        /\ m \in 0 .. Len(stack) - 1 /\ m < Len(stack)
        /\ Len(stack) \in Calls /\ Len(stack) > m + 1 /\ Len(stack) > m
        /\ \A k \in Calls : k > m + 1 => k = Len(stack)
    BY <1>0, <1>2 DEF Calls
  <1> HIDE DEF m
  <1>10. StandingCalls(m, s)
    BY <1>5, <1>6, <1>8, <1>9 DEF StandingCalls, SameKind, ElseFits
  <1>11. OwnLists(m, s)
    BY <1>6, <1>8 DEF OwnLists
  <1>12. \A i \in used + 1 .. used' : LinksOf(i)'
    BY <1>4
  <1>13. \A k \in 1 .. Len(s) : Keeps(s[k])'
    <2>1. /\ b.true_group # 0 => Stored(b.true_group, {"Group"})'
          /\ b.false_group # 0 => Stored(b.false_group, {"Group"})'
      BY <1>2, <1>4, <1>5, StoredStays DEF Keeps
    <2>2. used' \in Nat /\ g \in 1 .. used'
      BY <1>0, <1>4, Ids DEF ItemIds
    <2>3. Stored(g, {"Group"})'
      BY <1>4, <2>2 DEF Stored
    <2>4. Keeps(e)'
      BY <1>5, <1>6, <2>1, <2>3 DEF Keeps
    <2> QED BY <1>8, <2>4
  <1>14. /\ b.true_group = 0 \/ b.true_group \in 1 .. used
         /\ b.false_group = 0 \/ b.false_group \in 1 .. used
    BY <1>2, <1>5 DEF Keeps, Stored
  <1>15. \A i \in 1 .. used : i # 0 /\ i # g
    BY <1>2, <1>4
  <1>16. \A i \in 1 .. used : \A f : KeepsAs(e, f, i) <=> KeepsAs(b, f, i)
    BY <1>5, <1>6, <1>15 DEF KeepsAs
  <1>17. ASSUME NEW i \in 1 .. used PROVE Unmoved(m, s, i) \/ Moved(m, s, i)
    <2>1. CASE i = h
      <3>1. KeepsAs(stack[Len(stack)], "head", i)
        BY <1>1, <1>4, <2>1 DEF KeepsAs, Top
      <3>2. \A f : ~KeepsAs(b, f, i)
        <4> SUFFICES ASSUME NEW f, KeepsAs(b, f, i) PROVE FALSE
          OBVIOUS
        <4>1. Holds(Len(stack), "head", i) /\ Holds(m + 1, f, i)
          BY <1>9, <3>1 DEF Holds
        <4>2. Len(stack) # m + 1
          BY <1>2, <1>9
        <4> QED BY <4>1, <4>2 DEF OneHolder
      <3>3. \A f, k : k \in 1 .. Len(s) => ~KeepsAs(s[k], f, i)
        BY <1>8, <1>16, <3>2
      <3>4. PartOfOne(i)
        <4>1. CASE q = h /\ used + 1 .. used' = {g}
          BY <1>4, <2>1, <4>1 DEF PartOfOne
        <4>2. CASE /\ q # h /\ q # g /\ q \notin 0 .. used /\ used + 1 .. used' = {q, g}
                   /\ LinksFrom(q)' = {h, 0}
          BY <1>4, <2>1, <4>2 DEF PartOfOne
        <4> QED BY <1>4, <4>1, <4>2
      <3> QED BY <1>9, <3>1, <3>3, <3>4 DEF Moved
    <2>2. CASE i # h
      <3>1. PartOfNone(i)
        BY <1>4, <1>15, <2>2 DEF PartOfNone
      <3>2. \A k \in Calls : k > m + 1 => \A f : ~KeepsAs(stack[k], f, i)
        BY <1>1, <1>4, <1>9, <2>2 DEF KeepsAs, Top
      <3>3. /\ \A f : (Len(s) >= 1 /\ KeepsAs(s[1], f, i)) <=> KeepsAs(stack[m + 1], f, i)
            /\ \A k \in 2 .. Len(s) : \A f : ~KeepsAs(s[k], f, i)
            /\ Len(s) \in Nat
        BY <1>8, <1>9, <1>16
      <3>4. Unmoved(m, s, i)
        BY <1>2, <1>9, <3>1, <3>2, <3>3, CallsUnmoved
      <3> QED BY <3>4
    <2> QED BY <2>1, <2>2
  <1>18. ASSUME NEW i \in used + 1 .. used' PROVE OneNewHolder(m, s, 0, g, i)
    <2>1. i # 0 /\ i \notin 1 .. used
      BY <1>2
    <2>2. CASE i # g
      <3>1. /\ i = q /\ q # h /\ q # g /\ used + 1 .. used' = {q, g} /\ LinksFrom(q)' = {h, 0}
            /\ LinksFrom(g)' = {q} /\ q # 0
        BY <1>4, <2>1, <2>2
      <3>2. PartOfOne(i)
        BY <3>1 DEF PartOfOne
      <3>3. \A k \in 1 .. Len(s) : \A f : ~KeepsAs(s[k], f, i)
        BY <1>5, <1>6, <1>8, <1>14, <2>1, <2>2 DEF KeepsAs
      <3> QED BY <3>2, <3>3, HeldByItem
    <2>3. CASE i = g
      <3>1. PartOfNone(i)
        BY <1>4, <2>1, <2>3 DEF PartOfNone
      <3>2. PICK l, f : l = 1 /\ f = IF side THEN "true" ELSE "false"
        OBVIOUS
      <3>3. l \in 1 .. Len(s) /\ KeepsAs(s[l], f, i)
        BY <1>5, <1>6, <1>8, <2>3, <3>2 DEF KeepsAs
      <3>4. \A k \in 1 .. Len(s) : \A j : KeepsAs(s[k], j, i) => k = l /\ j = f
        BY <1>5, <1>6, <1>8, <1>14, <2>1, <2>3, <3>2 DEF KeepsAs
      <3> QED BY <3>1, <3>3, <3>4, HeldByCall
    <2> QED BY <2>2, <2>3
  <1>19. LinksTyped' /\ StackTyped' /\ OneHolder'
    BY <1>4, <1>7, <1>10, <1>11, <1>12, <1>13, <1>17, <1>18, StoreStays
  <1>20. TypeOK'
    BY <1>0, <1>1, <1>4, <1>7 DEF TypeOK, Rest, AnyCall
  <1>21. RootTaken'
    BY <1>1 DEF RootTaken
  <1> QED BY <1>19, <1>20, <1>21

\* What a pair leaves in the heap: itself, at the end of its branch's list if
\* there is one, and otherwise behind a Named item of the branch.
PairStored(h, p, t) ==
  /\ items' \in [ItemIds -> Item] /\ used' = p /\ p \in OptId /\ p \notin 0 .. used
  /\ Extends(t, p) /\ \A i \in used + 1 .. used' : LinksOf(i)'
  /\ LinksFrom(p)' = {0} /\ items'[p].next = 0
  /\ items'[p] = PairsItem(next.value, next.name) /\ p \in used + 1 .. used'
  /\ h # 0 /\ h \in OptId /\ Stored(h, {"Named"})' /\ Stored(p, {"Pairs"})'
  /\ \/ /\ t = 0 /\ Top.head = 0 /\ h \notin 0 .. used /\ h # p
        /\ used + 1 .. used' = {h, p} /\ LinksFrom(h)' = {p}
        /\ items'[h] = [NamedItem(Top.own) EXCEPT !.pairs = p]
     \/ t # 0 /\ t = Top.tail /\ h = Top.head /\ h \in 1 .. used /\ used + 1 .. used' = {p}

\* The first pair of a branch.
LEMMA FirstPairStored ==
  ASSUME DInv, status = "reading", NEW after \in Tokens \union {Eof}, ReadPair(after), Top.head = 0
  PROVE  \E h, p, t : PairStored(h, p, t) /\ stack' = WithTop([OneLess(Top) EXCEPT !.head = h, !.tail = p])
  <1> USE DEF DInv
  <1>0. PICK h, p, t : h = used + 1 /\ p = used + 2 /\ t = 0
    OBVIOUS
  <1> DEFINE z == [NamedItem(Top.own) EXCEPT !.pairs = p]
             x == PairsItem(next.value, next.name)
  <1>1. /\ ExpectsPair /\ next.op = "Pair" /\ Room(2)
        /\ items' = [items EXCEPT ![h] = z, ![p] = x] /\ used' = p
        /\ stack' = WithTop([OneLess(Top) EXCEPT !.head = h, !.tail = p])
    BY <1>0 DEF ReadPair, PairLegal
  <1>2. /\ Top \in Branches /\ used \in Nat /\ items \in [ItemIds -> Item]
        /\ 1 .. used \subseteq ItemIds /\ ItemIds \subseteq OptId
    BY <1>1, TopCall, CallKinds, Ids DEF ExpectsPair, AnyCall, TypeOK
  <1>3. next.value \in Mask /\ next.name \in Names /\ Top.own \in Mask
    BY <1>1, <1>2, TokenKinds, TokenFields DEF TypeOK, Branches
  <1>4. /\ h \in ItemIds /\ p \in ItemIds /\ h # p /\ h < p /\ h # 0 /\ p # 0
        /\ h \notin 0 .. used /\ p \notin 0 .. used /\ h \in OptId /\ p \in OptId
        /\ h \in 1 .. used' /\ p \in 1 .. used' /\ used <= used'
    BY <1>0, <1>1, <1>2, ItemSpaceAssumption DEF Room, ItemIds, OptId
  <1>5. used + 1 .. used' = {h, p}
    BY <1>0, <1>1, <1>2
  <1>6. z \in Item /\ x \in Item
    BY <1>3, <1>4, ItemMade DEF Item
  <1>7. z.kind = "Named" /\ z.pairs = p /\ x.kind = "Pairs" /\ x.next = 0
    BY DEF NamedItem, PairsItem
  <1> HIDE DEF z, x
  <1>8. /\ items' \in [ItemIds -> Item] /\ items'[h] = z /\ items'[p] = x
        /\ \A i \in 1 .. used : items'[i] = items[i]
    BY <1>1, <1>2, <1>4, <1>6
  <1>9. Extends(t, p)
    BY <1>0, <1>1, <1>4, <1>8 DEF Extends
  <1>10. Stored(h, {"Named"})' /\ Stored(p, {"Pairs"})'
    BY <1>4, <1>7, <1>8 DEF Stored
  <1>11. LinksOf(p)'
    BY <1>7, <1>8 DEF LinksOf, Onward
  <1>12. LinksOf(h)'
    BY <1>4, <1>7, <1>8, <1>10 DEF LinksOf, Onward
  <1>13. LinksFrom(h)' = {p} /\ LinksFrom(p)' = {0}
    BY <1>7, <1>8 DEF LinksFrom
  <1>14. /\ items'[h] = [NamedItem(Top.own) EXCEPT !.pairs = p]
         /\ items'[p] = PairsItem(next.value, next.name) /\ p \in used + 1 .. used'
    BY <1>5, <1>8 DEF z, x
  <1>15. PairStored(h, p, t)
    BY <1>0, <1>1, <1>4, <1>5, <1>7, <1>8, <1>9, <1>10, <1>11, <1>12, <1>13, <1>14 DEF PairStored
  <1> QED BY <1>1, <1>15

\* Another pair of a branch.
LEMMA NextPairStored ==
  ASSUME DInv, status = "reading", NEW after \in Tokens \union {Eof}, ReadPair(after), Top.head # 0
  PROVE  \E h, p, t : PairStored(h, p, t) /\ stack' = WithTop([OneLess(Top) EXCEPT !.head = h, !.tail = p])
  <1> USE DEF DInv
  <1>0. PICK h, p, t : h = Top.head /\ p = used + 1 /\ t = Top.tail
    OBVIOUS
  <1> DEFINE x == PairsItem(next.value, next.name)
             its == [items EXCEPT ![p] = x]
  <1>1. /\ ExpectsPair /\ next.op = "Pair" /\ Room(1) /\ h # 0
        /\ items' = [items EXCEPT ![p] = x, ![t].next = p] /\ used' = p
        /\ stack' = WithTop([OneLess(Top) EXCEPT !.head = h, !.tail = p])
    BY <1>0 DEF ReadPair, PairLegal
  <1>2. /\ Top \in Branches /\ Keeps(Top) /\ used \in Nat /\ items \in [ItemIds -> Item]
        /\ 1 .. used \subseteq ItemIds /\ ItemIds \subseteq OptId /\ Top.is = "branch"
        /\ Top.holds = "pairs"
    BY <1>1, TopCall, CallKinds, Ids DEF ExpectsPair, AnyCall, TypeOK
  <1>3. next.value \in Mask /\ next.name \in Names
    BY <1>1, TokenKinds, TokenFields DEF TypeOK
  <1>4. /\ p \in ItemIds /\ p \in OptId /\ p \notin 0 .. used /\ p \in 1 .. used'
        /\ used <= used' /\ p # 0
    BY <1>0, <1>1, <1>2, ItemSpaceAssumption DEF Room, ItemIds, OptId
  <1>5. used + 1 .. used' = {p}
    BY <1>0, <1>1, <1>2
  <1>6. /\ Stored(h, {"Named"}) /\ Stored(t, {"Pairs"}) /\ items[t].next = 0
        /\ h \in 1 .. used /\ t \in 1 .. used /\ t # 0 /\ t # p
    BY <1>0, <1>1, <1>2, <1>4 DEF Keeps, Stored
  <1>7. x \in Item /\ x.kind = "Pairs" /\ x.next = 0
    <2>1. x \in Item
      BY <1>3, ItemMade DEF Item
    <2> QED BY <2>1 DEF PairsItem
  <1> HIDE DEF x
  <1>8. PICK y : y = [items[t] EXCEPT !.next = p]
    OBVIOUS
  <1>9. items[t] \in PairsItems /\ y \in PairsItems /\ y \in Item
    BY <1>2, <1>4, <1>6, <1>8, ItemKinds, ItemChanged DEF Stored, Item
  <1>10. items' = [its EXCEPT ![t] = y]
    BY <1>1, <1>2, <1>4, <1>6, <1>8
  <1>11. /\ its \in [ItemIds -> Item] /\ its[p] = x
         /\ \A i \in ItemIds : i # p => its[i] = items[i]
    BY <1>2, <1>4, <1>7
  <1> HIDE DEF its
  <1>12. /\ items' \in [ItemIds -> Item] /\ items'[p] = x /\ items'[t] = y
         /\ \A i \in ItemIds : i # p /\ i # t => items'[i] = items[i]
    BY <1>2, <1>4, <1>6, <1>9, <1>10, <1>11
  <1>13. Extends(t, p)
    BY <1>1, <1>2, <1>4, <1>5, <1>6, <1>7, <1>8, <1>9, <1>12 DEF Extends
  <1>14. Stored(h, {"Named"})' /\ Stored(p, {"Pairs"})'
    <2>1. Stored(h, {"Named"})'
      BY <1>6, <1>13, StoredStays
    <2> QED BY <1>4, <1>7, <1>12, <2>1 DEF Stored
  <1>15. LinksOf(p)'
    BY <1>7, <1>12 DEF LinksOf, Onward
  <1>16. LinksFrom(p)' = {0}
    BY <1>7, <1>12 DEF LinksFrom
  <1>17. h \in OptId
    BY <1>2, <1>6
  <1>18. items'[p] = PairsItem(next.value, next.name) /\ p \in used + 1 .. used'
    BY <1>5, <1>12 DEF x
  <1>19. PairStored(h, p, t)
    BY <1>0, <1>1, <1>4, <1>5, <1>6, <1>7, <1>12, <1>13, <1>14, <1>15, <1>16, <1>17, <1>18
       DEF PairStored
  <1> QED BY <1>1, <1>19

\* A pair is stored at the end of its branch's list.
LEMMA ReadPairStep ==
  ASSUME DInv, status = "reading", NEW after \in Tokens \union {Eof}, ReadPair(after)
  PROVE  DInv'
  <1> USE DEF DInv
  <1>1. PICK h, p, t : PairStored(h, p, t) /\ stack' = WithTop([OneLess(Top) EXCEPT !.head = h, !.tail = p])
    BY FirstPairStored, NextPairStored
  <1>2. PICK e : e = [OneLess(Top) EXCEPT !.head = h, !.tail = p]
    OBVIOUS
  <1> DEFINE m == Len(stack) - 1
             s == <<e>>
  <1>3. /\ ExpectsPair /\ next.op = "Pair" /\ Fits(Needed(next.name)) /\ next' = after
        /\ chars' = chars + Needed(next.name) /\ UNCHANGED <<cmds_id, status>>
    BY DEF ReadPair, PairLegal
  <1>4. /\ Top \in Branches /\ Top.is = "branch" /\ Top.holds = "pairs" /\ Top.left > 0
        /\ Keeps(Top) /\ stack \in Seq(AnyCall) /\ Len(stack) \in Nat /\ Len(stack) >= 1
        /\ used \in Nat
    BY <1>3, TopCall, CallKinds DEF ExpectsPair, AnyCall
  <1>5. /\ items' \in [ItemIds -> Item] /\ used' = p /\ p \in OptId /\ p \notin 0 .. used
        /\ Extends(t, p) /\ \A i \in used + 1 .. used' : LinksOf(i)'
        /\ LinksFrom(p)' = {0} /\ items'[p].next = 0
        /\ h # 0 /\ h \in OptId /\ Stored(h, {"Named"})' /\ Stored(p, {"Pairs"})'
        /\ \/ /\ t = 0 /\ Top.head = 0 /\ h \notin 0 .. used /\ h # p
              /\ used + 1 .. used' = {h, p} /\ LinksFrom(h)' = {p}
           \/ t # 0 /\ t = Top.tail /\ h = Top.head /\ h \in 1 .. used /\ used + 1 .. used' = {p}
    BY <1>1 DEF PairStored
  <1>6. /\ e \in Branches /\ e.is = "branch" /\ e.role = Top.role /\ e.holds = "pairs"
        /\ e.head = h /\ e.tail = p
    <2>1. OneLess(Top) \in Branches
      BY <1>4, CallChanged
    <2>2. e \in Branches
      BY <1>2, <1>5, <2>1, CallChanged
    <2> QED BY <1>2, <1>4, <2>2 DEF OneLess, Branches
  <1>7. Rest(m, s)
    BY <1>1, <1>2, <1>4, <1>6, RestsOn DEF AnyCall
  <1>8. s[1] = e /\ Len(s) = 1 /\ 2 .. Len(s) = {} /\ 1 .. Len(s) = {1}
    OBVIOUS
  <1> HIDE DEF s
  <1>9. /\ m + 1 = Len(stack) /\ m \in 0 .. Len(stack) - 1 /\ Top = stack[m + 1]
        /\ m < Len(stack) /\ m \in Nat /\ \A k \in Calls : ~(k > m + 1)
    BY <1>4 DEF Top, Calls
  <1> HIDE DEF m
  <1>10. StandingCalls(m, s)
    BY <1>4, <1>6, <1>8, <1>9 DEF StandingCalls, SameKind, ElseFits
  <1>11. p > used /\ p # 0
    BY <1>4, <1>5, Ids DEF TypeOK
  <1>12. OwnLists(m, s)
    BY <1>6, <1>8, <1>11 DEF OwnLists
  <1>13. \A k \in 1 .. Len(s) : Keeps(s[k])'
    <2>1. Keeps(e)'
      BY <1>5, <1>6, <1>11 DEF Keeps
    <2> QED BY <1>8, <2>1
  <1>14. t = 0 \/ (m < Len(stack) /\ stack[m + 1].is = "branch" /\ t = stack[m + 1].tail)
    BY <1>4, <1>5, <1>9
  <1>15. ASSUME NEW i \in 1 .. used PROVE Unmoved(m, s, i)
    <2>0. i # 0 /\ i # p
      BY <1>4, <1>5
    <2>1. PartOfNone(i)
      BY <1>5, <2>0 DEF PartOfNone
    <2>2. \A f : KeepsAs(e, f, i) <=> KeepsAs(Top, f, i)
      BY <1>4, <1>5, <1>6, <2>0 DEF KeepsAs
    <2>3. /\ \A f : (Len(s) >= 1 /\ KeepsAs(s[1], f, i)) <=> KeepsAs(stack[m + 1], f, i)
          /\ \A k \in 2 .. Len(s) : \A f : ~KeepsAs(s[k], f, i)
          /\ \A k \in Calls : k > m + 1 => \A f : ~KeepsAs(stack[k], f, i)
          /\ Len(s) \in Nat
      BY <1>8, <1>9, <2>2
    <2> QED BY <1>4, <1>9, <2>1, <2>3, CallsUnmoved
  <1>16. ASSUME NEW i \in used + 1 .. used' PROVE OneNewHolder(m, s, t, p, i)
    <2>1. i # 0 /\ i \notin 1 .. used
      BY <1>4
    <2>2. CASE t = 0
      <3>1. /\ h \notin 0 .. used /\ h # p /\ used + 1 .. used' = {h, p} /\ LinksFrom(h)' = {p}
            /\ LinksFrom(p)' = {0}
        BY <1>5, <2>2
      <3>2. CASE i = h
        <4>1. PartOfNone(i)
          BY <2>1, <3>1, <3>2 DEF PartOfNone
        <4>2. PICK l, f : l = 1 /\ f = "head"
          OBVIOUS
        <4>3. l \in 1 .. Len(s) /\ KeepsAs(s[l], f, i)
          BY <1>6, <1>8, <3>2, <4>2 DEF KeepsAs
        <4>4. \A k \in 1 .. Len(s) : \A g : KeepsAs(s[k], g, i) => k = l /\ g = f
          BY <1>6, <1>8, <4>2 DEF KeepsAs
        <4> QED BY <2>2, <4>1, <4>3, <4>4, HeldByCall
      <3>3. CASE i = p
        <4>1. PartOfOne(i)
          BY <2>1, <3>1, <3>3 DEF PartOfOne
        <4>2. \A k \in 1 .. Len(s) : \A g : ~KeepsAs(s[k], g, i)
          BY <1>6, <1>8, <3>1, <3>3 DEF KeepsAs
        <4> QED BY <2>2, <4>1, <4>2, HeldByItem
      <3> QED BY <3>1, <3>2, <3>3
    <2>3. CASE t # 0
      <3>1. i = p /\ h \in 1 .. used /\ used + 1 .. used' = {p} /\ LinksFrom(p)' = {0}
        BY <1>5, <2>3
      <3>2. PartOfNone(p)
        BY <1>11, <3>1 DEF PartOfNone
      <3>3. \A k \in 1 .. Len(s) : \A g : ~KeepsAs(s[k], g, p)
        BY <1>6, <1>8, <2>1, <3>1 DEF KeepsAs
      <3> QED BY <2>3, <3>1, <3>2, <3>3, HeldByTail
    <2> QED BY <2>2, <2>3
  <1>17. LinksTyped' /\ StackTyped' /\ OneHolder'
    BY <1>5, <1>7, <1>10, <1>12, <1>13, <1>14, <1>15, <1>16, StoreStays
  <1>18. TypeOK'
    <2>1. next.name \in Names
      BY <1>3, TokenKinds, TokenFields DEF TypeOK
    <2>2. chars' \in 0 .. StringSpace
      <3>1. Needed(next.name) \in Nat
        BY <2>1, NeededIsNat DEF GroupNames
      <3> QED BY <1>3, <3>1, StringSpaceAssumption DEF TypeOK, Fits
    <2> QED BY <1>3, <1>5, <1>7, <2>2 DEF TypeOK, Rest, AnyCall
  <1>19. RootTaken'
    BY <1>3 DEF RootTaken
  <1> QED BY <1>17, <1>18, <1>19
-----------------------------------------------------------------------------
(* The steps that end the program, and the theorems.                       *)

\* The root's list is over only when no other call is in progress.
LEMMA RootIsLast ==
  ASSUME TypeOK, StackTyped, Top.is = "branch", Top.role = "Root"
  PROVE  Len(stack) = 1 /\ Top = stack[1] /\ Top.head \in OptId
  <1>1. Len(stack) \in Nat /\ Top \in Branches /\ Shape(Len(stack))
    BY TopCall, CallKinds DEF AnyCall
  <1>2. Len(stack) = 1
    BY <1>1 DEF Shape, StandsOn, Top
  <1> QED BY <1>1, <1>2 DEF Top, Branches

\* The program ends, with its graph accepted or refused.
LEMMA EndStep ==
  ASSUME DInv, status = "reading",
         Finish \/ Misread \/ Refuse \/ \E after \in Tokens \union {Eof} : Terminate(after)
  PROVE  DInv'
  <1> USE DEF DInv
  <1>1. /\ UNCHANGED <<heap, stack>> /\ next' \in Tokens \union {Eof}
        /\ status' \in {"done", "threw", "misread"}
    BY DEF Finish, Misread, Refuse, Terminate, TypeOK
  <1>2. \/ status' # "done" /\ cmds_id' = cmds_id
        \/ Top.is = "branch" /\ Top.role = "Root" /\ cmds_id' = Top.head
    BY DEF Finish, Misread, Refuse, Terminate
  <1>3. TypeOK'
    BY <1>1, <1>2, RootIsLast DEF TypeOK, heap
  <1>4. RootTaken'
    BY <1>1, <1>2, RootIsLast DEF RootTaken
  <1> QED BY <1>1, <1>3, <1>4, StutterStep

\* Before a token is read there is the root's branch, and it is empty.
LEMMA DecoderBegins == Init => DInv
  <1> SUFFICES ASSUME Init PROVE DInv
    OBVIOUS
  <1>1. /\ items = [i \in ItemIds |-> FreeItem] /\ used = 0 /\ chars = 0 /\ cmds_id = 0
        /\ stack = <<Branch("Root", "commands", Bits, {}, NoName, 0)>>
        /\ next \in Tokens \union {Eof} /\ status = "reading"
    BY DEF Init, Start
  <1>2. PICK b : b = Branch("Root", "commands", Bits, {}, NoName, 0)
    OBVIOUS
  <1>3. /\ b \in Branches /\ b.is = "branch" /\ b.role = "Root" /\ b.holds = "commands"
        /\ b.head = 0 /\ b.tail = 0
    BY <1>2, ItemSpaceAssumption DEF Branch, Branches, Mask, GroupNames, OptId
  <1>4. stack = <<b>> /\ Len(stack) = 1 /\ Calls = {1} /\ stack[1] = b
    BY <1>1, <1>2 DEF Calls
  <1>5. TypeOK
    <2>1. items \in [ItemIds -> Item]
      BY <1>1 DEF Item, FreeItems, FreeItem
    <2>2. stack \in Seq(Branches \union Conds)
      BY <1>3, <1>4
    <2> QED BY <1>1, <2>1, <2>2, ItemSpaceAssumption, StringSpaceAssumption DEF TypeOK, OptId
  <1>6. 1 .. used = {}
    BY <1>1
  <1>7. StackTyped
    BY <1>3, <1>4 DEF StackTyped, Shape, IsRoot, ElseFits, Keeps, TailsApart
  <1> QED BY <1>1, <1>5, <1>6, <1>7 DEF DInv, LinksTyped, OneHolder, RootTaken

\* Each step keeps the invariant.
LEMMA DecoderSteps == DInv /\ [Next]_vars => DInv'
  <1> SUFFICES ASSUME DInv, [Next]_vars PROVE DInv'
    OBVIOUS
  <1>1. CASE Next
    <2>1. status = "reading"
      BY <1>1 DEF Next
    <2>2. CASE Return
      <3>1. CASE EndNamed
        BY <2>1, <3>1, EndNamedStep
      <3>2. CASE EndBranch
        BY <2>1, <3>2, EndBranchStep
      <3>3. CASE EndEmptyIf
        BY <2>1, <3>3, EndEmptyIfStep
      <3>4. CASE EndCond
        BY <2>1, <3>4, EndCondStep
      <3>5. CASE DropCond
        BY <2>1, <3>5, DropCondStep
      <3>6. CASE Finish \/ Misread \/ Refuse
        BY <2>1, <3>6, EndStep
      <3> QED BY <2>2, <3>1, <3>2, <3>3, <3>4, <3>5, <3>6 DEF Return
    <2>3. ASSUME NEW after \in Tokens \union {Eof}, Read(after) PROVE DInv'
      <3>1. CASE ReadNamed(after)
        BY <2>1, <3>1, ReadNamedStep
      <3>2. CASE ReadNumeric(after)
        BY <2>1, <3>2, ReadNumericStep
      <3>3. CASE ReadIf(after)
        BY <2>1, <3>3, ReadIfStep
      <3>4. CASE ReadIfNumeric(after)
        BY <2>1, <3>4, ReadIfNumericStep
      <3>5. CASE ReadPair(after)
        BY <2>1, <3>5, ReadPairStep
      <3>6. CASE ReadContinue(after)
        BY <2>1, <3>6, ReadContinueStep
      <3>7. CASE ReadElse(after)
        BY <2>1, <3>7, ReadElseStep
      <3>8. CASE Terminate(after)
        BY <2>1, <3>8, EndStep
      <3> QED BY <2>3, <3>1, <3>2, <3>3, <3>4, <3>5, <3>6, <3>7, <3>8 DEF Read
    <2> QED BY <1>1, <2>2, <2>3 DEF Next
  <1>2. CASE UNCHANGED vars
    <2>1. UNCHANGED <<heap, stack>> /\ TypeOK' /\ RootTaken'
      BY <1>2 DEF vars, heap, DInv, TypeOK, RootTaken
    <2> QED BY <2>1, StutterStep
  <1> QED BY <1>1, <1>2

\* The invariant holds whatever program is read.
THEOREM DecoderInvariant == Spec => []DInv
  <1> QED BY DecoderBegins, DecoderSteps, PTL DEF Spec

(* EnumDecoder::run(): whatever program is read, the two heaps of the enum *)
(* under construction stay within their capacity, and every variable holds *)
(* what its C++ type can hold.                                             *)
THEOREM HeapsStayInBounds == Spec => []TypeOK
  <1>1. DInv => TypeOK
    BY DEF DInv
  <1> QED BY <1>1, DecoderInvariant, PTL

(* Whatever program is read, each link that the decoder has stored leads   *)
(* to a stored item of the alternative that its readers std::get, lists    *)
(* end, and no Named is without a pair, no Group without a command, no     *)
(* Conditional without a Group: what encode() and the renderer rely on     *)
(* without looking.                                                        *)
THEOREM DecodedLinksAreTyped == Spec => []LinksTyped
  <1>1. DInv => LinksTyped
    BY DEF DInv
  <1> QED BY <1>1, DecoderInvariant, PTL

\* In an accepted graph an item's one holder is another item.
LEMMA HeldInGraph ==
  ASSUME DInv, status = "done", NEW i \in 1 .. used, i # cmds_id
  PROVE  Cardinality({j \in 1 .. used : i \in LinksFrom(j)}) = 1
  <1>1. Len(stack) = 1 /\ cmds_id = stack[1].head /\ Calls = {1} /\ IsRoot(stack[1])
    <2>1. Len(stack) = 1 /\ cmds_id = stack[1].head
      BY DEF DInv, RootTaken
    <2>2. Calls = {1}
      BY <2>1 DEF Calls
    <2>3. Shape(1)
      BY <2>2 DEF DInv, StackTyped
    <2> QED BY <2>1, <2>2, <2>3 DEF Shape
  <1>2. PICK x, f : \A y, g : Holds(y, g, i) <=> y = x /\ g = f
    BY DEF DInv, OneHolder
  <1>3. \A y \in Calls : \A g : ~KeepsAs(stack[y], g, i)
    BY <1>1 DEF KeepsAs, IsRoot
  <1>4. \A y, g : Holds(y, g, i) <=> g = "item" /\ y \in 1 .. used /\ i \in LinksFrom(y)
    BY <1>3 DEF Holds
  <1>5. f = "item" /\ x \in 1 .. used /\ i \in LinksFrom(x)
    BY <1>2, <1>4
  <1>6. \A y \in 1 .. used : i \in LinksFrom(y) <=> y = x
    BY <1>2, <1>4, <1>5
  <1>7. {j \in 1 .. used : i \in LinksFrom(j)} = {x}
    BY <1>5, <1>6
  <1> QED BY <1>7, FS_Singleton

(* A program that is accepted leaves nothing behind: each item that was    *)
(* stored for it, but the first command node of the root, is a part of     *)
(* exactly one other, so that the lists neither share a tail nor lose one. *)
THEOREM AcceptedGraphIsOwned == Spec => []AllOwnedOnce
  <1>1. DInv => AllOwnedOnce
    BY HeldInGraph DEF AllOwnedOnce
  <1> QED BY <1>1, DecoderInvariant, PTL
-----------------------------------------------------------------------------
(***************************************************************************)
(* Scopes.  A second invariant labels every stored item with the scope     *)
(* bitmask it was read in: that of its branch, or for a pair the mask of   *)
(* its Named.  Labels never change, since a list is only ever extended by  *)
(* the call that reads its branch, and they narrow from a conditional to   *)
(* its branches.                                                           *)
(***************************************************************************)

\* The command of node i keeps within the label of the node.
CommandScoped(w, i) ==
  LET x == items[i]
      command == items[x.command]
  IN  /\ command.kind = "Numeric" => command.mask \subseteq w[i]
      /\ command.kind = "Named" => w[x.command] \subseteq w[i]
      /\ command.kind = "Conditional" => command.group_bitmask \union command.bitmask \subseteq w[i]

\* Item i and its parts have the labels they should.
ItemScoped(w, i) ==
  LET x == items[i]
  IN  /\ x.kind = "Pairs" => x.value \subseteq w[i] /\ (x.next # 0 => w[x.next] = w[i])
      /\ x.kind = "Named" => (x.mask # {} => x.mask = w[i]) /\ w[x.pairs] = w[i]
      /\ x.kind = "Group" => w[x.cmds] = w[i]
      /\ x.kind = "Conditional" =>
           /\ x.true_group # 0 => w[x.true_group] = x.bitmask
           /\ x.false_group # 0 => w[x.false_group] = x.bitmask
      /\ x.kind = "Cmds" => CommandScoped(w, i) /\ (x.next # 0 => w[x.next] = w[i])

\* What a call keeps has the label of the call.
CallScoped(w, e) ==
  /\ e.is = "branch" =>
       /\ e.own # {} => e.own = e.scope
       /\ e.head # 0 => w[e.head] = e.scope
       /\ e.tail # 0 => w[e.tail] = e.scope
  /\ e.is = "cond" =>
       /\ e.true_group # 0 => w[e.true_group] = e.mask
       /\ e.false_group # 0 => w[e.false_group] = e.mask

\* A call keeps within the scope of the one it stands on.
StandsWithin(e, below) ==
  /\ e.is = "branch" /\ e.role = "Named" => e.scope \subseteq below.scope
  /\ e.is = "branch" /\ e.role \in {"If", "Else"} => e.scope = below.mask
  /\ e.is = "cond" => e.bit \union e.mask \subseteq below.scope
Placed(e, m) == IF m = 0 THEN e.scope = Bits ELSE StandsWithin(e, stack[m])

Labelled(w) ==
  /\ \A i \in 1 .. used : ItemScoped(w, i)
  /\ \A k \in Calls : CallScoped(w, stack[k]) /\ Placed(stack[k], k - 1)

Scoped == \E w \in [ItemIds -> Mask] : Labelled(w)

\* The new items of a step get the label M.
NewLabels(w, v, M) ==
  /\ v \in [ItemIds -> Mask]
  /\ \A i \in 1 .. used : v[i] = w[i]
  /\ \A i \in used + 1 .. used' : v[i] = M

\* New items can be labelled.
LEMMA Relabels ==
  ASSUME TypeOK, used' \in OptId, NEW w \in [ItemIds -> Mask], NEW M \in Mask
  PROVE  \E v : NewLabels(w, v, M)
  <1>1. PICK v : v = [i \in ItemIds |-> IF i <= used THEN w[i] ELSE M]
    OBVIOUS
  <1>2. /\ used \in Nat /\ 1 .. used \subseteq ItemIds
        /\ \A i \in used + 1 .. used' : i \in ItemIds /\ ~(i <= used)
    BY Ids, ItemSpaceAssumption DEF TypeOK, OptId, ItemIds
  <1>3. v \in [ItemIds -> Mask]
    BY <1>1
  <1>4. \A i \in 1 .. used : i <= used
    BY <1>2
  <1> QED BY <1>1, <1>2, <1>3, <1>4 DEF NewLabels

\* Items stored before keep their labels.
LEMMA ItemStaysScoped ==
  ASSUME TypeOK, LinksTyped, NEW t, NEW c, Extends(t, c),
         NEW w, NEW v, NEW M, NewLabels(w, v, M), t # 0 => M = w[t],
         NEW i \in 1 .. used, ItemScoped(w, i)
  PROVE  ItemScoped(v, i)'
  <1>1. LinksOf(i) /\ used \in Nat
    BY Ids DEF LinksTyped, TypeOK
  <1>2. \A j \in 1 .. used : v[j] = w[j]
    BY DEF NewLabels
  <1>3. PICK x, y : x = items[i] /\ y = items'[i]
    OBVIOUS
  <1>4. \A j \in 1 .. used : j # t => items'[j] = items[j]
    BY DEF Extends
  <1>5. t # 0 => /\ t \in 1 .. used /\ items[t].next = 0 /\ v[c] = w[t]
                 /\ items'[t] = [items[t] EXCEPT !.next = c]
                 /\ items[t] \in CmdsItems \union PairsItems
    BY DEF Extends, NewLabels
  <1>6. \A j \in 1 .. used : j = t => t # 0
    BY <1>1
  <1>7. x.kind = "Cmds" => CommandScoped(v, i)'
    <2> SUFFICES ASSUME x.kind = "Cmds" PROVE CommandScoped(v, i)'
      OBVIOUS
    <2>1. x.command \in 1 .. used /\ items[x.command].kind \in CommandKinds /\ CommandScoped(w, i)
      BY <1>1, <1>3 DEF LinksOf, Earlier, Stored, ItemScoped
    <2>2. x.command # t
      BY <1>5, <1>6, <2>1 DEF CommandKinds, CmdsItems, PairsItems
    <2>3. items'[x.command] = items[x.command]
      BY <1>4, <2>1, <2>2
    <2>4. y.command = x.command
      <3>1. CASE i = t
        BY <1>3, <1>5, <1>6, <3>1 DEF CmdsItems, PairsItems
      <3>2. CASE i # t
        BY <1>3, <1>4, <3>2
      <3> QED BY <3>1, <3>2
    <2> QED BY <1>2, <1>3, <2>1, <2>3, <2>4 DEF CommandScoped
  <1>8. CASE i # t
    <2>1. y = x
      BY <1>3, <1>4, <1>8
    <2>2. /\ x.kind = "Pairs" /\ x.next # 0 => x.next \in 1 .. used
          /\ x.kind = "Named" => x.pairs \in 1 .. used
          /\ x.kind = "Group" => x.cmds \in 1 .. used
          /\ x.kind = "Cmds" /\ x.next # 0 => x.next \in 1 .. used
          /\ x.kind = "Conditional" =>
               /\ x.true_group # 0 => x.true_group \in 1 .. used
               /\ x.false_group # 0 => x.false_group \in 1 .. used
      BY <1>1, <1>3 DEF LinksOf, Onward, Earlier, Stored
    <2>3. x.kind = "Pairs" => x.value \subseteq v[i] /\ (x.next # 0 => v[x.next] = v[i])
      BY <1>2, <1>3, <2>2 DEF ItemScoped
    <2>4. x.kind = "Named" => (x.mask # {} => x.mask = v[i]) /\ v[x.pairs] = v[i]
      BY <1>2, <1>3, <2>2 DEF ItemScoped
    <2>5. x.kind = "Group" => v[x.cmds] = v[i]
      BY <1>2, <1>3, <2>2 DEF ItemScoped
    <2>6. x.kind = "Conditional" =>
            /\ x.true_group # 0 => v[x.true_group] = x.bitmask
            /\ x.false_group # 0 => v[x.false_group] = x.bitmask
      BY <1>2, <1>3, <2>2 DEF ItemScoped
    <2>7. x.kind = "Cmds" => (x.next # 0 => v[x.next] = v[i])
      BY <1>2, <1>3, <2>2 DEF ItemScoped
    <2> QED BY <1>3, <1>7, <2>1, <2>3, <2>4, <2>5, <2>6, <2>7 DEF ItemScoped
  <1>9. CASE i = t
    <2>1. x \in CmdsItems \union PairsItems /\ y = [x EXCEPT !.next = c] /\ v[c] = v[i]
      BY <1>2, <1>3, <1>5, <1>6, <1>9
    <2>2. CASE x \in CmdsItems
      <3>1. x.kind = "Cmds" /\ y.kind = "Cmds" /\ y.next = c
        BY <2>1, <2>2 DEF CmdsItems
      <3> QED BY <1>3, <1>7, <2>1, <3>1 DEF ItemScoped
    <2>3. CASE x \in PairsItems
      <3>1. x.kind = "Pairs" /\ y.kind = "Pairs" /\ y.next = c /\ y.value = x.value
        BY <2>1, <2>3 DEF PairsItems
      <3>2. x.value \subseteq v[i]
        BY <1>2, <1>3, <3>1 DEF ItemScoped
      <3> QED BY <1>3, <2>1, <3>1, <3>2 DEF ItemScoped
    <2> QED BY <2>1, <2>2, <2>3
  <1> QED BY <1>8, <1>9

\* What a call keeps keeps its label.
LEMMA CallStaysScoped ==
  ASSUME TypeOK, NEW e \in AnyCall, Keeps(e), NEW w, NEW v, NEW M, NewLabels(w, v, M),
         CallScoped(w, e)
  PROVE  CallScoped(v, e)
  <1>1. \A j \in 1 .. used : v[j] = w[j]
    BY DEF NewLabels
  <1>2. CASE e.is = "branch"
    <2>1. e \in Branches /\ (e.tail # 0 => e.head # 0) /\ (e.head # 0 => e.tail # 0)
      BY <1>2, CallKinds DEF Keeps, AnyCall
    <2>2. (e.head # 0 => e.head \in 1 .. used) /\ (e.tail # 0 => e.tail \in 1 .. used)
      BY <1>2, <2>1 DEF Keeps, Stored, Branches
    <2> QED BY <1>1, <1>2, <2>2 DEF CallScoped
  <1>3. CASE e.is = "cond"
    BY <1>1, <1>3 DEF Keeps, Stored, CallScoped
  <1> QED BY <1>2, <1>3, CallKinds DEF AnyCall

\* A step of the parse functions keeps the labels.
LEMMA ScopedStays ==
  ASSUME TypeOK, LinksTyped, StackTyped, NEW w \in [ItemIds -> Mask], Labelled(w),
         NEW t, NEW c, Extends(t, c), NEW m, NEW s, Rest(m, s),
         NEW v, NEW M, NewLabels(w, v, M), t # 0 => M = w[t],
         \A i \in used + 1 .. used' : ItemScoped(v, i)',
         \A k \in 1 .. Len(s) : CallScoped(v, s[k]),
         Len(s) = 0 \/ Placed(s[1], m),
         \A k \in 2 .. Len(s) : StandsWithin(s[k], s[k - 1])
  PROVE  Scoped'
  <1>1. v \in [ItemIds -> Mask]
    BY DEF NewLabels
  <1>2. ASSUME NEW i \in 1 .. used' PROVE ItemScoped(v, i)'
    <2>1. used \in Nat /\ used' \in Nat
      BY Ids, ItemSpaceAssumption DEF TypeOK, Extends, OptId
    <2>2. i \in 1 .. used \/ i \in used + 1 .. used'
      BY <2>1
    <2>3. \A j \in 1 .. used : ItemScoped(v, j)'
      BY ItemStaysScoped DEF Labelled
    <2> QED BY <2>2, <2>3
  <1>3. /\ m \in 0 .. Len(stack) /\ Len(s) \in Nat /\ Len(stack) \in Nat
        /\ Len(stack') = m + Len(s)
        /\ \A k \in 1 .. m : stack'[k] = stack[k]
        /\ \A k \in 1 .. Len(s) : stack'[m + k] = s[k]
        /\ \A k \in Calls : stack[k] \in AnyCall
    BY DEF Rest, TypeOK, Calls, AnyCall
  <1>4. ASSUME NEW k \in 1 .. m PROVE CallScoped(v, stack'[k]) /\ Placed(stack[k], k - 1)'
    <2>1. k \in Calls /\ stack'[k] = stack[k] /\ k - 1 \in 0 .. m
      BY <1>3 DEF Calls
    <2>2. CallScoped(w, stack[k]) /\ Placed(stack[k], k - 1) /\ Keeps(stack[k]) /\ stack[k] \in AnyCall
      BY <1>3, <2>1 DEF Labelled, StackTyped
    <2>3. CallScoped(v, stack[k])
      BY <2>2, CallStaysScoped
    <2>4. k - 1 # 0 => stack'[k - 1] = stack[k - 1]
      BY <1>3, <2>1
    <2> QED BY <2>1, <2>2, <2>3, <2>4 DEF Placed
  <1>5. ASSUME NEW j \in 1 .. Len(s), NEW k, k = m + j
        PROVE  CallScoped(v, stack'[k]) /\ Placed(stack[k], k - 1)'
    <2>1. stack'[k] = s[j] /\ CallScoped(v, s[j])
      BY <1>3, <1>5
    <2>2. CASE j = 1
      <3>1. Placed(s[1], m) /\ k - 1 = m
        BY <1>3, <1>5, <2>2
      <3>2. m # 0 => stack'[m] = stack[m]
        BY <1>3
      <3> QED BY <2>1, <2>2, <3>1, <3>2 DEF Placed
    <2>3. CASE j # 1
      <3>1. /\ j \in 2 .. Len(s) /\ j - 1 \in 1 .. Len(s) /\ k - 1 = m + (j - 1)
            /\ k - 1 # 0
        BY <1>3, <1>5, <2>3
      <3>2. StandsWithin(s[j], s[j - 1]) /\ stack'[k - 1] = s[j - 1]
        BY <1>3, <3>1
      <3> QED BY <2>1, <3>1, <3>2 DEF Placed
    <2> QED BY <2>2, <2>3
  <1>6. ASSUME NEW k \in 1 .. m + Len(s)
        PROVE  CallScoped(v, stack'[k]) /\ Placed(stack[k], k - 1)'
    <2>1. CASE k <= m
      <3>1. k \in 1 .. m
        BY <1>3, <2>1
      <3> QED BY <1>4, <3>1
    <2>2. CASE ~(k <= m)
      <3>1. PICK j : j = k - m
        OBVIOUS
      <3>2. j \in 1 .. Len(s) /\ k = m + j
        BY <1>3, <2>2, <3>1
      <3> QED BY <1>5, <3>2
    <2> QED BY <2>1, <2>2
  <1>7. Labelled(v)'
    <2>1. Calls' = 1 .. m + Len(s)
      BY <1>3 DEF Calls
    <2>2. \A i \in (1 .. used)' : ItemScoped(v, i)'
      BY <1>2
    <2>3. \A k \in Calls' : (CallScoped(v, stack[k]) /\ Placed(stack[k], k - 1))'
      BY <1>6, <2>1
    <2> QED BY <2>2, <2>3 DEF Labelled
  <1> QED BY <1>1, <1>7 DEF Scoped

\* A step that stores nothing.
LEMMA QuietScoped ==
  ASSUME DInv, NEW w \in [ItemIds -> Mask], Labelled(w), UNCHANGED <<items, used>>,
         NEW m, NEW s, Rest(m, s),
         \A k \in 1 .. Len(s) : CallScoped(w, s[k]),
         Len(s) = 0 \/ Placed(s[1], m),
         \A k \in 2 .. Len(s) : StandsWithin(s[k], s[k - 1])
  PROVE  Scoped'
  <1> USE DEF DInv
  <1>1. used' \in OptId /\ used \in Nat /\ used <= used' /\ used + 1 .. used' = {}
    BY Ids DEF TypeOK
  <1>2. PICK t, M : t = 0 /\ M = Bits
    OBVIOUS
  <1>3. Extends(t, 0)
    BY <1>1, <1>2 DEF Extends
  <1>4. NewLabels(w, w, M)
    BY <1>1 DEF NewLabels
  <1>5. t # 0 => M = w[t]
    BY <1>2
  <1>6. \A i \in used + 1 .. used' : ItemScoped(w, i)'
    BY <1>1
  <1> QED BY <1>3, <1>4, <1>5, <1>6, ScopedStays

\* The labels of the innermost call and of the one below it.
LEMMA TopScoped ==
  ASSUME DInv, NEW w, Labelled(w)
  PROVE  /\ CallScoped(w, Top) /\ Placed(Top, Len(stack) - 1)
         /\ Len(stack) >= 2 =>
              /\ CallScoped(w, stack[Len(stack) - 1]) /\ Placed(stack[Len(stack) - 1], Len(stack) - 2)
              /\ StandsWithin(Top, stack[Len(stack) - 1])
  <1>1. Len(stack) \in Nat /\ Len(stack) \in Calls /\ Len(stack) >= 1
    BY TopCall DEF DInv
  <1>2. CallScoped(w, Top) /\ Placed(Top, Len(stack) - 1)
    BY <1>1 DEF Labelled, Top
  <1>3. ASSUME Len(stack) >= 2
        PROVE  /\ CallScoped(w, stack[Len(stack) - 1])
               /\ Placed(stack[Len(stack) - 1], Len(stack) - 2)
               /\ StandsWithin(Top, stack[Len(stack) - 1])
    <2>1. Len(stack) - 1 \in Calls /\ Len(stack) - 1 - 1 = Len(stack) - 2 /\ Len(stack) - 1 # 0
      BY <1>1, <1>3 DEF Calls
    <2>2. /\ CallScoped(w, stack[Len(stack) - 1])
          /\ Placed(stack[Len(stack) - 1], Len(stack) - 1 - 1)
      BY <2>1 DEF Labelled
    <2> QED BY <1>2, <2>1, <2>2 DEF Placed
  <1> QED BY <1>2, <1>3

\* A call that has read on is still a call of its kind with its scope.
SameScope(e, b) ==
  /\ e.is = b.is
  /\ b.is = "branch" => e.role = b.role /\ e.scope = b.scope /\ e.own = b.own
  /\ b.is = "cond" => e.bit = b.bit /\ e.mask = b.mask

\* Such a call stands where it stood, and others stand on it.
LEMMA SamePlace ==
  ASSUME NEW e, NEW b, SameScope(e, b), b.is \in {"branch", "cond"}
  PROVE  /\ \A m \in Nat : m # 0 /\ Placed(b, m) => Placed(e, m)
         /\ b.is = "branch" /\ Placed(b, 0) => Placed(e, 0)
  BY DEF SameScope, Placed, StandsWithin

\* A branch that reads on keeps its list.
LEMMA OneLessScope ==
  ASSUME NEW b \in Branches, NEW e, e = OneLess(b)
  PROVE  /\ SameScope(e, b) /\ e.head = b.head /\ e.tail = b.tail
         /\ (b.role = "Root" \/ b.left > 0) => e \in Branches
  BY DEF OneLess, Branches, SameScope

\* A branch that goes on in another block keeps its list.
LEMMA ContinuedScope ==
  ASSUME NEW b \in Branches, NEW n, NEW e, e = [b EXCEPT !.left = n]
  PROVE  /\ SameScope(e, b) /\ e.head = b.head /\ e.tail = b.tail
         /\ n \in Nat => e \in Branches
  BY DEF Branches, SameScope

\* A branch to which a node is appended keeps the rest.
LEMMA AppendedScope ==
  ASSUME NEW b \in Branches, NEW a \in {b, OneLess(b)}, NEW c, NEW e, e = Appended(a, c)
  PROVE  /\ SameScope(e, b) /\ e.tail = c /\ e.head = IF b.head = 0 THEN c ELSE b.head
         /\ a \in Branches /\ c \in OptId => e \in Branches
  BY DEF Branches, SameScope, Appended, OneLess

\* A Named item is begun: its mask, or none, is within the scope.
LEMMA ReadNamedScoped ==
  ASSUME DInv, Scoped, NEW after \in Tokens \union {Eof}, ReadNamed(after)
  PROVE  Scoped'
  <1> USE DEF DInv
  <1>1. PICK w \in [ItemIds -> Mask] : Labelled(w)
    BY DEF Scoped
  <1>2. PICK m, e, b : /\ m = Len(stack) - 1 /\ e = OneLess(Top)
                       /\ b = Branch("Named", "pairs", IF next.has_mask THEN next.mask ELSE Top.scope,
                                     next.mask, NoName, next.count + 1)
    OBVIOUS
  <1>3. /\ ExpectsCommand /\ next.op = "Named" /\ stack' = Append(WithTop(e), b)
        /\ next.has_mask => InScope(next.mask)
        /\ UNCHANGED <<items, used>>
    BY <1>2 DEF ReadNamed, NamedLegal, heap
  <1>4. /\ Top \in Branches /\ Top.is = "branch" /\ Top.scope \in Mask
        /\ (Top.role = "Root" \/ Top.left > 0)
        /\ stack \in Seq(AnyCall) /\ Len(stack) \in Nat /\ Len(stack) >= 1
    BY <1>3, TopCall, CallKinds DEF ExpectsCommand, AnyCall, Branches
  <1>5. /\ next.mask \in Mask /\ next.count \in Nat
        /\ ~next.has_mask => next.mask = {}
        /\ next.has_mask \in BOOLEAN
    <2>1. next \in NamedTokens
      BY <1>3, TokenKinds DEF TypeOK
    <2> QED BY <2>1, TokenFields DEF NamedTokens
  <1>6. e \in AnyCall /\ b \in AnyCall
    <2>1. e \in Branches
      <3>1. e = OneLess(Top)
        BY <1>2
      <3> QED BY <1>4, <3>1, OneLessScope
    <2>2. /\ 0 \in OptId /\ NoName \in GroupNames /\ next.count + 1 \in Nat
          /\ (IF next.has_mask THEN next.mask ELSE Top.scope) \in Mask
      BY <1>4, <1>5, Ids DEF GroupNames, TypeOK
    <2>3. b \in Branches
      BY <1>2, <1>5, <2>2 DEF Branch, Branches
    <2> QED BY <2>1, <2>3 DEF AnyCall
  <1>7. PICK s : s = <<e, b>>
    OBVIOUS
  <1>8. s[1] = e /\ s[2] = b /\ Len(s) = 2 /\ 1 .. Len(s) = {1, 2} /\ 2 .. Len(s) = {2}
    BY <1>7
  <1>9. Rest(m, s)
    BY <1>2, <1>3, <1>4, <1>6, <1>7, RestsOn
  <1>10. CallScoped(w, Top) /\ Placed(Top, m)
    BY <1>1, <1>2, TopScoped
  <1>11. SameScope(e, Top) /\ e.head = Top.head /\ e.tail = Top.tail
    <2>1. e = OneLess(Top)
      BY <1>2
    <2> QED BY <1>4, <2>1, OneLessScope
  <1>12. CallScoped(w, e)
    BY <1>4, <1>10, <1>11 DEF CallScoped, SameScope
  <1>13. Placed(e, m)
    BY <1>2, <1>4, <1>10, <1>11, SamePlace
  <1>14. /\ b.is = "branch" /\ b.role = "Named" /\ b.own = next.mask /\ b.head = 0 /\ b.tail = 0
         /\ b.scope = IF next.has_mask THEN next.mask ELSE Top.scope
    BY <1>2 DEF Branch
  <1>15. CallScoped(w, b)
    BY <1>5, <1>14 DEF CallScoped
  <1>16. StandsWithin(b, e)
    BY <1>3, <1>4, <1>11, <1>14 DEF StandsWithin, InScope, SameScope
  <1> QED BY <1>1, <1>3, <1>8, <1>9, <1>12, <1>13, <1>15, <1>16, QuietScoped

\* A conditional is begun with its first branch: its selector and its mask are
\* within the scope, and the mask is the scope of the branch.
LEMMA ReadIfScoped ==
  ASSUME DInv, Scoped, NEW after \in Tokens \union {Eof}, ReadIf(after)
  PROVE  Scoped'
  <1> USE DEF DInv
  <1>1. PICK w \in [ItemIds -> Mask] : Labelled(w)
    BY DEF Scoped
  <1>2. PICK m, e, d, b :
          /\ m = Len(stack) - 1 /\ e = OneLess(Top) /\ d = Cond(next, 0, 0, FALSE)
          /\ b = Branch("If", IF next.op = "GroupIf" THEN "commands" ELSE "pairs", next.mask, {},
                        next.label, next.count)
    OBVIOUS
  <1>3. /\ ExpectsCommand /\ next.op \in {"GroupIf", "GroupIfNamed"}
        /\ stack' = WithTop(e) \o <<d, b>>
        /\ {next.shift} \subseteq Top.scope /\ InScope(next.mask)
        /\ UNCHANGED <<items, used>>
    BY <1>2 DEF ReadIf, IfLegal
  <1>4. /\ Top \in Branches /\ Top.is = "branch" /\ Top.scope \in Mask
        /\ (Top.role = "Root" \/ Top.left > 0)
        /\ stack \in Seq(AnyCall) /\ Len(stack) \in Nat /\ Len(stack) >= 1
    BY <1>3, TopCall, CallKinds DEF ExpectsCommand, AnyCall, Branches
  <1>5. next.mask \in Mask /\ next.count \in Nat /\ next.label \in GroupNames
    BY <1>3, TokenKinds, TokenFields DEF TypeOK
  <1>6. e \in AnyCall /\ d \in AnyCall /\ b \in AnyCall
    <2>1. e \in Branches
      <3>1. e = OneLess(Top)
        BY <1>2
      <3> QED BY <1>4, <3>1, OneLessScope
    <2>2. next.shift \in Bits /\ 0 \in OptId /\ {} \in Mask
      BY <1>3, <1>4, Ids DEF Mask, TypeOK
    <2>3. d \in Conds
      BY <1>2, <1>5, <2>2 DEF Cond, Conds, Mask
    <2>4. b \in Branches
      BY <1>2, <1>5, <2>2 DEF Branch, Branches
    <2> QED BY <2>1, <2>3, <2>4 DEF AnyCall
  <1>7. PICK s : s = <<e, d, b>>
    OBVIOUS
  <1>8. /\ s[1] = e /\ s[2] = d /\ s[3] = b /\ Len(s) = 3 /\ 1 .. Len(s) = {1, 2, 3}
        /\ 2 .. Len(s) = {2, 3}
    BY <1>7
  <1>9. Rest(m, s)
    BY <1>2, <1>3, <1>4, <1>6, <1>7, RestsOn
  <1>10. CallScoped(w, Top) /\ Placed(Top, m)
    BY <1>1, <1>2, TopScoped
  <1>11. SameScope(e, Top) /\ e.head = Top.head /\ e.tail = Top.tail
    <2>1. e = OneLess(Top)
      BY <1>2
    <2> QED BY <1>4, <2>1, OneLessScope
  <1>12. CallScoped(w, e)
    BY <1>4, <1>10, <1>11 DEF CallScoped, SameScope
  <1>13. Placed(e, m)
    BY <1>2, <1>4, <1>10, <1>11, SamePlace
  <1>14. /\ d.is = "cond" /\ d.bit = {next.shift} /\ d.mask = next.mask
         /\ d.true_group = 0 /\ d.false_group = 0
         /\ b.is = "branch" /\ b.role = "If" /\ b.own = {} /\ b.head = 0 /\ b.tail = 0
         /\ b.scope = next.mask
    BY <1>2 DEF Branch, Cond
  <1>15. CallScoped(w, d) /\ CallScoped(w, b)
    BY <1>14 DEF CallScoped
  <1>16. StandsWithin(d, e) /\ StandsWithin(b, d)
    BY <1>3, <1>4, <1>11, <1>14 DEF StandsWithin, InScope, SameScope
  <1>17. \A k \in 1 .. Len(s) : CallScoped(w, s[k])
    BY <1>8, <1>12, <1>15
  <1>18. \A k \in 2 .. Len(s) : StandsWithin(s[k], s[k - 1])
    BY <1>8, <1>16
  <1>19. Placed(s[1], m)
    BY <1>8, <1>13
  <1> QED BY <1>1, <1>3, <1>9, <1>17, <1>18, <1>19, QuietScoped

\* A block goes on.
LEMMA ReadContinueScoped ==
  ASSUME DInv, Scoped, NEW after \in Tokens \union {Eof}, ReadContinue(after)
  PROVE  Scoped'
  <1> USE DEF DInv
  <1>1. PICK w \in [ItemIds -> Mask] : Labelled(w)
    BY DEF Scoped
  <1>2. PICK m, e, s : /\ m = Len(stack) - 1 /\ e = [Top EXCEPT !.left = next.count + 1]
                       /\ s = <<e>>
    OBVIOUS
  <1>3. BlockRead /\ next.op = "ContinueScope" /\ stack' = WithTop(e) /\ UNCHANGED <<items, used>>
    BY <1>2 DEF ReadContinue, heap
  <1>4. /\ Top \in Branches /\ Top.is = "branch"
        /\ stack \in Seq(AnyCall) /\ Len(stack) \in Nat /\ Len(stack) >= 1
    BY <1>3, TopCall, CallKinds DEF BlockRead, AnyCall
  <1>5. e \in AnyCall
    <2>1. next.count \in Nat
      BY <1>3, TokenKinds, TokenFields DEF TypeOK
    <2>2. next.count + 1 \in Nat /\ e = [Top EXCEPT !.left = next.count + 1]
      BY <1>2, <2>1
    <2> QED BY <1>4, <2>2, ContinuedScope DEF AnyCall
  <1>6. s[1] = e /\ Len(s) = 1 /\ 1 .. Len(s) = {1} /\ 2 .. Len(s) = {}
    BY <1>2
  <1>7. Rest(m, s)
    BY <1>2, <1>3, <1>4, <1>5, RestsOn
  <1>8. CallScoped(w, Top) /\ Placed(Top, m)
    BY <1>1, <1>2, TopScoped
  <1>9. SameScope(e, Top) /\ e.head = Top.head /\ e.tail = Top.tail
    <2>1. e = [Top EXCEPT !.left = next.count + 1]
      BY <1>2
    <2> QED BY <1>4, <2>1, ContinuedScope
  <1>10. CallScoped(w, e)
    BY <1>4, <1>8, <1>9 DEF CallScoped, SameScope
  <1>11. Placed(e, m)
    BY <1>2, <1>4, <1>8, <1>9, SamePlace
  <1> QED BY <1>1, <1>3, <1>6, <1>7, <1>10, <1>11, QuietScoped

\* The Else of a conditional is begun in the scope of its If.
LEMMA ReadElseScoped ==
  ASSUME DInv, Scoped, NEW after \in Tokens \union {Eof}, ReadElse(after)
  PROVE  Scoped'
  <1> USE DEF DInv
  <1>1. PICK w \in [ItemIds -> Mask] : Labelled(w)
    BY DEF Scoped
  <1>2. PICK m, e, b :
          /\ m = Len(stack) - 1 /\ e = [Top EXCEPT !.else_read = TRUE]
          /\ b = Branch("Else", IF next.commands THEN "commands" ELSE "pairs", Top.mask, {},
                        next.label, next.count + 1)
    OBVIOUS
  <1>3. ElseFollows /\ stack' = Append(WithTop(e), b) /\ UNCHANGED <<items, used>>
    BY <1>2 DEF ReadElse
  <1>4. /\ Top \in Conds /\ Top.is = "cond" /\ Top.mask \in Mask /\ Len(stack) >= 2
        /\ stack \in Seq(AnyCall) /\ Len(stack) \in Nat /\ Len(stack) >= 1 /\ m # 0
    <2>1. Top.is = "cond" /\ stack \in Seq(AnyCall) /\ Len(stack) \in Nat /\ Top \in AnyCall
      BY <1>3, TopCall DEF ElseFollows
    <2>2. Len(stack) >= 2
      BY <2>1, ParentCall
    <2>3. Top \in Conds
      BY <2>1, CallKinds DEF AnyCall
    <2>4. Top.mask \in Mask
      BY <2>3 DEF Conds
    <2>5. m # 0 /\ Len(stack) >= 1
      <3>1. m = Len(stack) - 1
        BY <1>2
      <3> QED BY <2>1, <2>2, <3>1
    <2> QED BY <2>1, <2>2, <2>3, <2>4, <2>5
  <1>5. next.count \in Nat /\ next.label \in GroupNames
    BY <1>3, TokenKinds, TokenFields DEF TypeOK, ElseFollows
  <1>6. e \in Conds /\ e \in AnyCall /\ b \in AnyCall
    <2>1. e \in Conds
      <3>1. e = [Top EXCEPT !.else_read = TRUE]
        BY <1>2
      <3> QED BY <1>4, <3>1 DEF Conds
    <2>2. 0 \in OptId /\ {} \in Mask
      BY Ids DEF Mask, TypeOK
    <2>3. b \in Branches
      BY <1>2, <1>4, <1>5, <2>2 DEF Branch, Branches
    <2> QED BY <2>1, <2>3 DEF AnyCall
  <1>7. PICK s : s = <<e, b>>
    OBVIOUS
  <1>8. s[1] = e /\ s[2] = b /\ Len(s) = 2 /\ 1 .. Len(s) = {1, 2} /\ 2 .. Len(s) = {2}
    BY <1>7
  <1>9. Rest(m, s)
    BY <1>2, <1>3, <1>4, <1>6, <1>7, RestsOn
  <1>10. CallScoped(w, Top) /\ Placed(Top, m)
    BY <1>1, <1>2, TopScoped
  <1>11. /\ e.is = "cond" /\ e.mask = Top.mask /\ e.bit = Top.bit
         /\ e.true_group = Top.true_group /\ e.false_group = Top.false_group
    BY <1>2, <1>4 DEF Conds
  <1>12. CallScoped(w, e)
    BY <1>4, <1>10, <1>11 DEF CallScoped
  <1>13. Placed(e, m)
    BY <1>4, <1>10, <1>11 DEF Placed, StandsWithin
  <1>14. /\ b.is = "branch" /\ b.role = "Else" /\ b.own = {} /\ b.head = 0 /\ b.tail = 0
         /\ b.scope = Top.mask
    BY <1>2 DEF Branch
  <1>15. CallScoped(w, b)
    BY <1>14 DEF CallScoped
  <1>16. StandsWithin(b, e)
    BY <1>11, <1>14 DEF StandsWithin
  <1> QED BY <1>1, <1>3, <1>8, <1>9, <1>12, <1>13, <1>15, <1>16, QuietScoped

\* A branch or a conditional without a part is left.
LEMMA PopScoped ==
  ASSUME DInv, Scoped, EndEmptyIf \/ DropCond
  PROVE  Scoped'
  <1> USE DEF DInv
  <1>1. PICK w \in [ItemIds -> Mask] : Labelled(w)
    BY DEF Scoped
  <1>2. stack' = Popped /\ UNCHANGED <<items, used>>
    BY DEF EndEmptyIf, DropCond, heap
  <1>3. stack \in Seq(AnyCall) /\ Len(stack) >= 1 /\ Top \in AnyCall
    BY TopCall
  <1>4. PICK m, s : m = Len(stack) - 1 /\ s = <<>>
    OBVIOUS
  <1>5. Len(s) = 0 /\ 1 .. Len(s) = {} /\ 2 .. Len(s) = {}
    BY <1>4
  <1>6. Rest(m, s)
    BY <1>2, <1>3, <1>4, RestsBelow
  <1> QED BY <1>1, <1>2, <1>5, <1>6, QuietScoped

\* New items are labelled rightly if their parts are.
LEMMA NewScoped ==
  ASSUME NEW v, NEW x
  PROVE  /\ \A mask, format, name : items'[x] = NumericItem(mask, format, name) => ItemScoped(v, x)'
         /\ \A value, name :
              items'[x] = PairsItem(value, name) /\ value \subseteq v[x] => ItemScoped(v, x)'
         /\ \A name, c :
              items'[x] = [GroupItem(name) EXCEPT !.cmds = c] /\ v[c] = v[x] => ItemScoped(v, x)'
         /\ \A mask, p :
              /\ items'[x] = [NamedItem(mask) EXCEPT !.pairs = p]
              /\ mask = {} \/ mask = v[x]
              /\ v[p] = v[x]
              => ItemScoped(v, x)'
         /\ \A bit, mask, t, f :
              /\ items'[x] = CondItem(bit, mask, t, f)
              /\ t # 0 => v[t] = mask
              /\ f # 0 => v[f] = mask
              => ItemScoped(v, x)'
         /\ \A command : items'[x] = CmdsItem(command) /\ CommandScoped(v, x)' => ItemScoped(v, x)'
  BY DEF ItemScoped, NumericItem, CmdsItem, GroupItem, PairsItem, NamedItem, CondItem

\* Under the scope M, node c keeps what it should, and so do the other new items.
NewFit(w, M, c) ==
  \A v : NewLabels(w, v, M) =>
    /\ CommandScoped(v, c)'
    /\ \A i \in used + 1 .. used' : i # c => ItemScoped(v, i)'

\* A command that is appended gets the label of its branch.
LEMMA AppendScoped ==
  ASSUME DInv, NEW w \in [ItemIds -> Mask], Labelled(w),
         NEW m \in Nat, m + 1 \in Calls, NEW b, b = stack[m + 1], HoldsCommands(b),
         NEW a \in {b, OneLess(b)},
         NEW its, NEW command, NEW c, Appends(its, b, command, c),
         NEW e, e = Appended(a, c), Rest(m, <<e>>),
         NewFit(w, b.scope, c)
  PROVE  Scoped'
  <1> USE DEF DInv
  <1>1. /\ b \in Branches /\ b.is = "branch" /\ b.scope \in Mask /\ Keeps(b)
        /\ CallScoped(w, b) /\ Placed(b, m)
    <2>1. b \in AnyCall /\ Keeps(b)
      BY DEF TypeOK, StackTyped, Calls, AnyCall
    <2>2. b \in Branches /\ b.is = "branch"
      BY <2>1, CallKinds DEF AnyCall, HoldsCommands
    <2>3. m + 1 - 1 = m
      OBVIOUS
    <2>4. CallScoped(w, stack[m + 1]) /\ Placed(stack[m + 1], m + 1 - 1)
      BY DEF Labelled
    <2> QED BY <2>1, <2>2, <2>3, <2>4 DEF Branches
  <1>2. Extends(b.tail, c) /\ items'[c] = CmdsItem(command)
    BY <1>1, AppendEffect
  <1>3. used' \in OptId /\ c \in used + 1 .. used'
    BY DEF Appends
  <1>4. PICK v : NewLabels(w, v, b.scope)
    BY <1>1, <1>3, Relabels
  <1>5. v[c] = b.scope
    BY <1>3, <1>4 DEF NewLabels
  <1>6. \A i \in used + 1 .. used' : ItemScoped(v, i)'
    <2>1. CommandScoped(v, c)' /\ \A i \in used + 1 .. used' : i # c => ItemScoped(v, i)'
      BY <1>4 DEF NewFit
    <2>2. ItemScoped(v, c)'
      BY <1>2, <2>1, NewScoped
    <2> QED BY <2>1, <2>2
  <1>7. b.tail # 0 => b.scope = w[b.tail]
    BY <1>1 DEF CallScoped
  <1>8. SameScope(e, b) /\ e.tail = c /\ e.head = IF b.head = 0 THEN c ELSE b.head
    BY <1>1, AppendedScope
  <1>9. CallScoped(v, b)
    <2>1. b \in AnyCall
      BY <1>1 DEF AnyCall
    <2> QED BY <1>1, <1>4, <2>1, CallStaysScoped
  <1>10. CallScoped(v, e)
    BY <1>1, <1>5, <1>8, <1>9 DEF CallScoped, SameScope
  <1>11. Placed(e, m)
    BY <1>1, <1>8, SamePlace
  <1>12. PICK s : s = <<e>>
    OBVIOUS
  <1>13. s[1] = e /\ Len(s) = 1 /\ 1 .. Len(s) = {1} /\ 2 .. Len(s) = {}
    BY <1>12
  <1>14. PICK t, M : t = b.tail /\ M = b.scope
    OBVIOUS
  <1>15. Rest(m, s)
    BY <1>12
  <1>16. Extends(t, c) /\ NewLabels(w, v, M) /\ (t # 0 => M = w[t])
    BY <1>2, <1>4, <1>7, <1>14
  <1> QED BY <1>6, <1>10, <1>11, <1>13, <1>15, <1>16, ScopedStays

\* A numeric field is within the scope.
LEMMA ReadNumericScoped ==
  ASSUME DInv, Scoped, NEW after \in Tokens \union {Eof}, ReadNumeric(after)
  PROVE  Scoped'
  <1> USE DEF DInv
  <1>1. PICK w \in [ItemIds -> Mask] : Labelled(w)
    BY DEF Scoped
  <1>2. PICK n, c, b, a, m, e, x, its :
          /\ n = used + 1 /\ c = used + 2 /\ b = Top /\ a = OneLess(b) /\ m = Len(stack) - 1
          /\ e = Appended(a, c) /\ x = NumericItem(next.mask, next.format, next.name)
          /\ its = [items EXCEPT ![n] = x]
    OBVIOUS
  <1>3. /\ ExpectsCommand /\ next.op = "Numeric" /\ InScope(next.mask) /\ Room(2)
        /\ items' = AppendNode(its, b, n, c) /\ used' = c /\ stack' = WithTop(e)
    BY <1>2 DEF ReadNumeric, NumericLegal
  <1>4. /\ b \in Branches /\ HoldsCommands(b) /\ (b.role = "Root" \/ b.left > 0)
        /\ Keeps(b) /\ stack \in Seq(AnyCall) /\ Len(stack) \in Nat /\ Len(stack) >= 1
        /\ m \in Nat /\ m + 1 = Len(stack) /\ m + 1 \in Calls /\ b = stack[m + 1]
    <2>1. b = Top /\ m = Len(stack) - 1
      BY <1>2
    <2>2. /\ b \in Branches /\ HoldsCommands(b) /\ (b.role = "Root" \/ b.left > 0)
          /\ Keeps(b) /\ stack \in Seq(AnyCall) /\ Len(stack) \in Nat /\ Len(stack) >= 1
      BY <1>3, <2>1, TopCall, CallKinds DEF ExpectsCommand, HoldsCommands, AnyCall
    <2> QED BY <2>1, <2>2 DEF Calls, Top
  <1>5. next.mask \in Mask /\ next.format \in Formats /\ next.name \in Names
    BY <1>3, TokenKinds, TokenFields DEF TypeOK
  <1>6. c \in OptId /\ used' \in OptId
    <2>1. n = used + 1 /\ c = used + 2
      BY <1>2
    <2> QED BY <1>3, <2>1, Ids, ItemSpaceAssumption DEF Room, OptId, TypeOK
  <1>7. a \in Branches /\ e \in AnyCall /\ a \in {b, OneLess(b)} /\ e = Appended(a, c)
    <2>1. a = OneLess(b) /\ e = Appended(a, c)
      BY <1>2
    <2>2. a \in Branches
      BY <1>4, <2>1, OneLessScope
    <2>3. e \in Branches
      BY <1>4, <1>6, <2>1, <2>2, AppendedScope
    <2> QED BY <2>1, <2>2, <2>3 DEF AnyCall
  <1>8. Rest(m, <<e>>)
    <2>1. m = Len(stack) - 1
      BY <1>2
    <2> QED BY <1>3, <1>4, <1>7, <2>1, RestsOn
  <1>9. /\ used \in Nat /\ n \in ItemIds /\ c \in ItemIds /\ n # c /\ n \notin 1 .. used
        /\ n > used
        /\ 1 .. used \subseteq ItemIds /\ items \in [ItemIds -> Item]
        /\ used + 1 .. used' = {n, c} /\ n \in 1 .. c - 1
    <2>1. n = used + 1 /\ c = used + 2
      BY <1>2
    <2> QED BY <1>3, <1>6, <2>1, Ids, ItemSpaceAssumption DEF TypeOK, OptId, ItemIds
  <1>10. x \in Item /\ x.kind = "Numeric" /\ x.mask = next.mask
    <2>1. x = NumericItem(next.mask, next.format, next.name)
      BY <1>2
    <2> QED BY <1>5, <2>1, ItemMade DEF Item, NumericItem
  <1>11. its \in [ItemIds -> Item] /\ its[n] = x /\ \A i \in 1 .. used : its[i] = items[i]
    <2>1. its = [items EXCEPT ![n] = x]
      BY <1>2
    <2> QED BY <1>9, <1>10, <2>1
  <1>12. Appends(its, b, n, c)
    BY <1>3, <1>6, <1>9, <1>10, <1>11 DEF Appends, CommandKinds
  <1>13. items'[n] = x /\ items'[c] = CmdsItem(n)
    BY <1>4, <1>9, <1>11, <1>12, AppendEffect
  <1>14. next.mask \subseteq b.scope
    BY <1>2, <1>3 DEF InScope
  <1>15. ASSUME NEW v, NewLabels(w, v, b.scope)
         PROVE  CommandScoped(v, c)' /\ ItemScoped(v, n)'
    <2>1. v[c] = b.scope
      BY <1>9, <1>15 DEF NewLabels
    <2>2. items'[c].command = n
      BY <1>13 DEF CmdsItem
    <2>3. CommandScoped(v, c)'
      BY <1>10, <1>13, <1>14, <2>1, <2>2 DEF CommandScoped
    <2>4. ItemScoped(v, n)'
      BY <1>10, <1>13 DEF ItemScoped
    <2> QED BY <2>3, <2>4
  <1>16. NewFit(w, b.scope, c)
    BY <1>9, <1>15 DEF NewFit
  <1> QED BY <1>1, <1>4, <1>7, <1>8, <1>12, <1>16, AppendScoped

\* A Named is appended to the branch that its mask is within the scope of.
LEMMA EndNamedScoped ==
  ASSUME DInv, Scoped, EndNamed
  PROVE  Scoped'
  <1> USE DEF DInv
  <1>1. PICK w \in [ItemIds -> Mask] : Labelled(w)
    BY DEF Scoped
  <1>2. PICK c, h, b, m, e :
          /\ c = used + 1 /\ h = Top.head /\ b = stack[Len(stack) - 1] /\ m = Len(stack) - 2
          /\ e = Appended(b, c)
    OBVIOUS
  <1>3. /\ Top.is = "branch" /\ Top.role = "Named" /\ Top.left = 0 /\ Room(1)
        /\ items' = AppendNode(items, b, h, c) /\ used' = c
        /\ stack' = [Popped EXCEPT ![Len(stack) - 1] = e]
    BY <1>2 DEF EndNamed, Ends, BlockRead
  <1>4. /\ stack \in Seq(AnyCall) /\ Len(stack) \in Nat /\ Len(stack) >= 2 /\ Len(stack) >= 1
        /\ Top \in Branches /\ Keeps(Top) /\ b \in AnyCall /\ Keeps(b) /\ StandsOn(Top, b)
    BY <1>2, <1>3, TopCall, ParentCall, CallKinds DEF AnyCall
  <1>5. HoldsCommands(b) /\ b \in Branches /\ Top.holds = "pairs"
    BY <1>3, <1>4, CallKinds DEF StandsOn, HoldsCommands, AnyCall
  <1>6. m \in Nat /\ m + 1 \in Calls /\ b = stack[m + 1]
    BY <1>2, <1>4 DEF Calls
  <1>7. h # 0 /\ h \in 1 .. used /\ items[h].kind = "Named"
    BY <1>2, <1>3, <1>4, <1>5 DEF Keeps, Stored
  <1>8. c \in OptId /\ used' \in OptId
    BY <1>2, <1>3, Ids, ItemSpaceAssumption DEF Room, OptId, TypeOK
  <1>9. e \in AnyCall
    BY <1>2, <1>5, <1>8, AppendedScope DEF AnyCall
  <1>10. Rest(m, <<e>>)
    BY <1>2, <1>3, <1>4, <1>9, RestsBelow
  <1>11. /\ used \in Nat /\ c \notin 0 .. used /\ items \in [ItemIds -> Item]
         /\ used + 1 .. used' = {c} /\ h \in 1 .. c - 1 /\ c \in used + 1 .. used'
    <2>1. used \in Nat /\ items \in [ItemIds -> Item]
      BY Ids DEF TypeOK
    <2> QED BY <1>2, <1>3, <1>7, <2>1
  <1>12. Appends(items, b, h, c)
    BY <1>3, <1>7, <1>8, <1>11 DEF Appends, CommandKinds
  <1>13. Extends(b.tail, c) /\ items'[c] = CmdsItem(h)
    BY <1>4, <1>5, <1>12, AppendEffect
  <1>14. Stored(h, {"Named"})'
    BY <1>7, <1>13, StoredStays DEF Stored
  <1>15. w[h] = Top.scope /\ Top.scope \subseteq b.scope
    BY <1>1, <1>2, <1>3, <1>4, <1>7, TopScoped DEF CallScoped, StandsWithin
  <1>16. ASSUME NEW v, NewLabels(w, v, b.scope)
         PROVE  CommandScoped(v, c)'
    <2>1. v[c] = b.scope /\ v[h] = w[h]
      BY <1>7, <1>11, <1>16 DEF NewLabels
    <2>2. items'[c].command = h /\ items'[h].kind = "Named"
      BY <1>13, <1>14 DEF CmdsItem, Stored
    <2> QED BY <1>15, <2>1, <2>2 DEF CommandScoped
  <1>17. NewFit(w, b.scope, c)
    BY <1>11, <1>16 DEF NewFit
  <1> QED BY <1>1, <1>2, <1>5, <1>6, <1>10, <1>12, <1>17, AppendScoped

\* A conditional is appended to the branch that it is within the scope of.
LEMMA EndCondScoped ==
  ASSUME DInv, Scoped, EndCond
  PROVE  Scoped'
  <1> USE DEF DInv
  <1>1. PICK w \in [ItemIds -> Mask] : Labelled(w)
    BY DEF Scoped
  <1>2. PICK n, c, t, f, b, m, e, x, its :
          /\ n = used + 1 /\ c = used + 2 /\ t = Top.true_group /\ f = Top.false_group
          /\ b = stack[Len(stack) - 1] /\ m = Len(stack) - 2 /\ e = Appended(b, c)
          /\ x = CondItem(Top.bit, Top.mask, t, f) /\ its = [items EXCEPT ![n] = x]
    OBVIOUS
  <1>3. /\ Top.is = "cond" /\ ~IsEmpty(Top) /\ Room(2)
        /\ items' = AppendNode(its, b, n, c) /\ used' = c
        /\ stack' = [Popped EXCEPT ![Len(stack) - 1] = e]
    BY <1>2 DEF EndCond, ConditionRead
  <1>4. b = stack[Len(stack) - 1] /\ m = Len(stack) - 2 /\ e = Appended(b, c)
    BY <1>2
  <1>5. /\ stack \in Seq(AnyCall) /\ Len(stack) \in Nat /\ Len(stack) >= 2 /\ Len(stack) >= 1
        /\ Top \in Conds /\ Keeps(Top) /\ b \in AnyCall /\ Keeps(b) /\ StandsOn(Top, b)
    BY <1>3, <1>4, TopCall, ParentCall, CallKinds DEF AnyCall
  <1>6. HoldsCommands(b) /\ b \in Branches
    BY <1>3, <1>5, CallKinds DEF StandsOn, HoldsCommands, AnyCall
  <1>7. m \in Nat /\ m + 1 \in Calls /\ b = stack[m + 1]
    BY <1>4, <1>5 DEF Calls
  <1>8. /\ t = Top.true_group /\ f = Top.false_group
        /\ t # 0 => Stored(t, {"Group"})
        /\ f # 0 => Stored(f, {"Group"})
    BY <1>2, <1>3, <1>5 DEF Keeps
  <1>9. n = used + 1 /\ c = used + 2
    BY <1>2
  <1>10. c \in OptId /\ used' \in OptId
    BY <1>3, <1>9, Ids, ItemSpaceAssumption DEF Room, OptId, TypeOK
  <1>11. e \in AnyCall
    BY <1>4, <1>6, <1>10, AppendedScope DEF AnyCall
  <1>12. Rest(m, <<e>>)
    BY <1>3, <1>4, <1>5, <1>11, RestsBelow
  <1>13. /\ used \in Nat /\ n \in ItemIds /\ c \in ItemIds /\ n # c /\ n > used
         /\ n \notin 1 .. used /\ 1 .. used \subseteq ItemIds /\ items \in [ItemIds -> Item]
         /\ used + 1 .. used' = {n, c} /\ n \in 1 .. c - 1 /\ c \in used + 1 .. used'
    BY <1>3, <1>9, <1>10, Ids, ItemSpaceAssumption DEF TypeOK, OptId, ItemIds
  <1>14. x = CondItem(Top.bit, Top.mask, t, f) /\ its = [items EXCEPT ![n] = x]
    BY <1>2
  <1>15. x \in Item /\ x.kind = "Conditional" /\ x.group_bitmask = Top.bit /\ x.bitmask = Top.mask
    <2>1. Top.bit \in Mask /\ Top.mask \in Mask /\ t \in OptId /\ f \in OptId
      BY <1>5, <1>8 DEF Conds
    <2> QED BY <1>14, <2>1, ItemMade DEF Item, CondItem
  <1>16. its \in [ItemIds -> Item] /\ its[n] = x /\ \A i \in 1 .. used : its[i] = items[i]
    BY <1>13, <1>14, <1>15
  <1>17. Appends(its, b, n, c)
    BY <1>3, <1>10, <1>13, <1>15, <1>16 DEF Appends, CommandKinds
  <1>18. items'[n] = x /\ items'[c] = CmdsItem(n)
    BY <1>5, <1>6, <1>13, <1>16, <1>17, AppendEffect
  <1>19. /\ t # 0 => w[t] = Top.mask
         /\ f # 0 => w[f] = Top.mask
         /\ Top.bit \union Top.mask \subseteq b.scope
    BY <1>1, <1>3, <1>4, <1>5, <1>8, TopScoped DEF CallScoped, StandsWithin
  <1>20. ASSUME NEW v, NewLabels(w, v, b.scope)
         PROVE  CommandScoped(v, c)' /\ ItemScoped(v, n)'
    <2>1. v[c] = b.scope /\ \A i \in 1 .. used : v[i] = w[i]
      BY <1>13, <1>20 DEF NewLabels
    <2>2. items'[c].command = n
      BY <1>18 DEF CmdsItem
    <2>3. CommandScoped(v, c)'
      BY <1>15, <1>18, <1>19, <2>1, <2>2 DEF CommandScoped
    <2>4. /\ t # 0 => v[t] = Top.mask
          /\ f # 0 => v[f] = Top.mask
      BY <1>8, <1>19, <2>1 DEF Stored
    <2>5. ItemScoped(v, n)'
      BY <1>14, <1>18, <2>4, NewScoped
    <2> QED BY <2>3, <2>5
  <1>21. NewFit(w, b.scope, c)
    BY <1>13, <1>20 DEF NewFit
  <1> QED BY <1>1, <1>4, <1>6, <1>7, <1>12, <1>17, <1>21, AppendScoped

\* A branch that becomes a Group was read under the mask of its conditional.
LEMMA EndBranchScoped ==
  ASSUME DInv, Scoped, status = "reading", EndBranch
  PROVE  Scoped'
  <1> USE DEF DInv
  <1>1. PICK w \in [ItemIds -> Mask] : Labelled(w)
    BY DEF Scoped
  <1>2. PICK g, b, e, side, m, M :
          /\ g = used' /\ b = stack[Len(stack) - 1] /\ m = Len(stack) - 2 /\ M = Top.scope
          /\ side = (IF Top.role = "If" THEN TRUE ELSE b.negate) /\ e = InSide(b, side, g)
    OBVIOUS
  <1>3. /\ Top.is = "branch" /\ Top.role \in {"If", "Else"} /\ Top.head # 0
        /\ stack' = [Popped EXCEPT ![Len(stack) - 1] = e]
    BY <1>2 DEF EndBranch, Ends, BlockRead
  <1>4. g = used' /\ b = stack[Len(stack) - 1] /\ m = Len(stack) - 2 /\ M = Top.scope
    BY <1>2
  <1>5. /\ stack \in Seq(AnyCall) /\ Len(stack) \in Nat /\ Len(stack) >= 2 /\ Len(stack) >= 1
        /\ Top \in Branches /\ b \in AnyCall /\ Keeps(b) /\ StandsOn(Top, b)
        /\ Len(stack) - 1 \in Calls
    BY <1>3, <1>4, TopCall, ParentCall, CallKinds DEF AnyCall
  <1>6. b.is = "cond" /\ b \in Conds /\ M \in Mask
    BY <1>3, <1>4, <1>5, CallKinds DEF StandsOn, AnyCall, Branches
  <1>7. m \in Nat /\ m # 0
    <2>1. Shape(1)
      BY <1>5 DEF StackTyped, Calls
    <2>2. Len(stack) - 1 # 1
      BY <1>4, <1>6, <2>1 DEF Shape, IsRoot
    <2> QED BY <1>4, <1>5, <2>2
  <1>8. PICK h, q : GroupStored(h, q, g)
    BY <1>4, BranchStored
  <1>9. /\ h = Top.head /\ h \in 1 .. used /\ g \in OptId /\ g \in used + 1 .. used'
        /\ Extends(0, g) /\ items'[g].kind = "Group" /\ items'[g].cmds = q
        /\ \/ q = h /\ used + 1 .. used' = {g}
           \/ /\ used + 1 .. used' = {q, g} /\ items'[q] = CmdsItem(h) /\ Stored(h, {"Named"})
    BY <1>8 DEF GroupStored
  <1>10. /\ CallScoped(w, b) /\ Placed(b, m) /\ M = b.mask /\ w[h] = M
    <2>1. /\ CallScoped(w, Top) /\ CallScoped(w, b) /\ Placed(b, m) /\ StandsWithin(Top, b)
      BY <1>1, <1>4, <1>5, TopScoped
    <2> QED BY <1>3, <1>4, <1>9, <2>1 DEF CallScoped, StandsWithin
  <1>11. used' \in OptId
    BY <1>4, <1>9
  <1>12. PICK v : NewLabels(w, v, M)
    BY <1>6, <1>11, Relabels
  <1>13. v[h] = M /\ v[g] = M /\ v[q] = M
    BY <1>9, <1>10, <1>12 DEF NewLabels
  <1>14. ItemScoped(v, g)'
    BY <1>9, <1>13 DEF ItemScoped
  <1>15. items'[q] = CmdsItem(h) /\ Stored(h, {"Named"}) => ItemScoped(v, q)'
    <2> SUFFICES ASSUME items'[q] = CmdsItem(h), Stored(h, {"Named"}) PROVE ItemScoped(v, q)'
      OBVIOUS
    <2>1. Stored(h, {"Named"})'
      BY <1>9, StoredStays
    <2>2. items'[q].command = h /\ items'[h].kind = "Named"
      BY <2>1 DEF CmdsItem, Stored
    <2>3. CommandScoped(v, q)'
      BY <1>13, <2>2 DEF CommandScoped
    <2> QED BY <2>3, NewScoped
  <1>16. \A i \in used + 1 .. used' : ItemScoped(v, i)'
    BY <1>9, <1>14, <1>15
  <1>17. /\ e \in AnyCall /\ e.is = "cond" /\ e.bit = b.bit /\ e.mask = b.mask
         /\ e.true_group \in {b.true_group, g} /\ e.false_group \in {b.false_group, g}
    <2>1. e = InSide(b, side, g)
      BY <1>2
    <2>2. e \in Conds
      BY <1>6, <1>9, <2>1 DEF InSide, Conds
    <2> QED BY <1>6, <2>1, <2>2 DEF InSide, Conds, AnyCall
  <1>18. CallScoped(v, e)
    <2>1. CallScoped(v, b)
      BY <1>5, <1>10, <1>12, CallStaysScoped
    <2> QED BY <1>6, <1>10, <1>13, <1>17, <2>1 DEF CallScoped
  <1>19. Placed(e, m)
    BY <1>6, <1>7, <1>10, <1>17 DEF Placed, StandsWithin
  <1>20. PICK s, t : s = <<e>> /\ t = 0
    OBVIOUS
  <1>21. s[1] = e /\ Len(s) = 1 /\ 1 .. Len(s) = {1} /\ 2 .. Len(s) = {}
    BY <1>20
  <1>22. Rest(m, s) /\ Extends(t, g) /\ (t # 0 => M = w[t])
    BY <1>3, <1>4, <1>5, <1>9, <1>17, <1>20, RestsBelow
  <1> QED BY <1>1, <1>12, <1>16, <1>18, <1>19, <1>21, <1>22, ScopedStays

\* A pair is within the mask of its Named, which is none or that of the branch.
LEMMA ReadPairScoped ==
  ASSUME DInv, Scoped, status = "reading", NEW after \in Tokens \union {Eof}, ReadPair(after)
  PROVE  Scoped'
  <1> USE DEF DInv
  <1>1. PICK w \in [ItemIds -> Mask] : Labelled(w)
    BY DEF Scoped
  <1>2. PICK h, p, t :
          PairStored(h, p, t) /\ stack' = WithTop([OneLess(Top) EXCEPT !.head = h, !.tail = p])
    BY FirstPairStored, NextPairStored
  <1>3. PICK e, a, b, m, M : /\ b = Top /\ a = OneLess(b)
                             /\ e = [a EXCEPT !.head = h, !.tail = p]
                             /\ m = Len(stack) - 1 /\ M = b.scope
    OBVIOUS
  <1>4. b = Top /\ m = Len(stack) - 1 /\ M = b.scope /\ stack' = WithTop(e)
    BY <1>2, <1>3
  <1>5. ExpectsPair /\ next.value \subseteq M
    BY <1>4 DEF ReadPair, PairLegal
  <1>6. /\ b \in Branches /\ b.is = "branch" /\ b.left > 0 /\ M \in Mask
        /\ stack \in Seq(AnyCall) /\ Len(stack) \in Nat /\ Len(stack) >= 1
    BY <1>4, <1>5, TopCall, CallKinds DEF ExpectsPair, AnyCall, Branches
  <1>7. /\ used' = p /\ p \in OptId /\ h \in OptId /\ p \in used + 1 .. used' /\ Extends(t, p)
        /\ items'[p] = PairsItem(next.value, next.name)
        /\ \/ /\ t = 0 /\ used + 1 .. used' = {h, p}
              /\ items'[h] = [NamedItem(b.own) EXCEPT !.pairs = p]
           \/ /\ t = b.tail /\ t # 0 /\ h = b.head /\ h # 0 /\ h \in 1 .. used
              /\ used + 1 .. used' = {p}
    BY <1>2, <1>4 DEF PairStored
  <1>8. CallScoped(w, b) /\ Placed(b, m)
    BY <1>1, <1>4, TopScoped
  <1>9. used' \in OptId
    BY <1>7
  <1>10. PICK v : NewLabels(w, v, M)
    BY <1>6, <1>9, Relabels
  <1>11. v[p] = M /\ v[h] = M
    BY <1>4, <1>6, <1>7, <1>8, <1>10 DEF NewLabels, CallScoped
  <1>12. b.own = {} \/ b.own = M
    BY <1>4, <1>6, <1>8 DEF CallScoped
  <1>13. ItemScoped(v, p)'
    BY <1>5, <1>7, <1>11, NewScoped
  <1>14. items'[h] = [NamedItem(b.own) EXCEPT !.pairs = p] => ItemScoped(v, h)'
    BY <1>11, <1>12, NewScoped
  <1>15. \A i \in used + 1 .. used' : ItemScoped(v, i)'
    BY <1>7, <1>13, <1>14
  <1>16. SameScope(e, b) /\ e.head = h /\ e.tail = p /\ e \in AnyCall
    <2>1. a = OneLess(b) /\ e = [a EXCEPT !.head = h, !.tail = p]
      BY <1>3
    <2>2. e \in Branches /\ SameScope(e, b) /\ e.head = h /\ e.tail = p
      <3>1. b \in Branches /\ b.left > 0 /\ h \in OptId /\ p \in OptId
        BY <1>6, <1>7
      <3>2. SameScope(a, b) /\ a \in Branches
        BY <2>1, <3>1, OneLessScope
      <3> QED BY <2>1, <3>1, <3>2 DEF Branches, SameScope
    <2> QED BY <2>2 DEF AnyCall
  <1>17. CallScoped(v, e)
    BY <1>4, <1>6, <1>8, <1>11, <1>16 DEF CallScoped, SameScope
  <1>18. Placed(e, m)
    BY <1>4, <1>6, <1>8, <1>16, SamePlace
  <1>19. PICK s : s = <<e>>
    OBVIOUS
  <1>20. s[1] = e /\ Len(s) = 1 /\ 1 .. Len(s) = {1} /\ 2 .. Len(s) = {}
    BY <1>19
  <1>21. Rest(m, s)
    BY <1>4, <1>6, <1>16, <1>19, RestsOn
  <1>22. t # 0 => M = w[t]
    BY <1>4, <1>6, <1>7, <1>8 DEF CallScoped
  <1> QED BY <1>1, <1>7, <1>10, <1>15, <1>17, <1>18, <1>20, <1>21, <1>22, ScopedStays

\* The single numeric field of a branch has the mask of its conditional.
LEMMA ReadIfNumericScoped ==
  ASSUME DInv, Scoped, NEW after \in Tokens \union {Eof}, ReadIfNumeric(after)
  PROVE  Scoped'
  <1> USE DEF DInv
  <1>1. PICK w \in [ItemIds -> Mask] : Labelled(w)
    BY DEF Scoped
  <1>2. PICK n, c, g, b, a, d, m, M, x, z :
          /\ n = used + 1 /\ c = used + 2 /\ g = used + 3 /\ b = Top /\ a = OneLess(b)
          /\ d = IF next.negate THEN Cond(next, 0, g, TRUE) ELSE Cond(next, g, 0, FALSE)
          /\ m = Len(stack) - 1 /\ M = next.mask
          /\ x = NumericItem(next.mask, next.format, next.name)
          /\ z = [GroupItem(next.label) EXCEPT !.cmds = c]
    OBVIOUS
  <1>3. /\ ExpectsCommand /\ next.op = "GroupIfNumeric" /\ {next.shift} \subseteq b.scope
        /\ InScope(next.mask) /\ Room(3)
        /\ items' = [items EXCEPT ![n] = x, ![c] = CmdsItem(n), ![g] = z] /\ used' = g
        /\ stack' = Append(WithTop(a), d)
    BY <1>2 DEF ReadIfNumeric, IfNumericLegal
  <1>4. b = Top /\ a = OneLess(b) /\ m = Len(stack) - 1 /\ M = next.mask
    BY <1>2
  <1>5. /\ b \in Branches /\ b.is = "branch" /\ (b.role = "Root" \/ b.left > 0) /\ b.scope \in Mask
        /\ stack \in Seq(AnyCall) /\ Len(stack) \in Nat /\ Len(stack) >= 1 /\ m \in Nat
    BY <1>3, <1>4, TopCall, CallKinds DEF ExpectsCommand, AnyCall, Branches
  <1>6. /\ next.mask \in Mask /\ next.label \in GroupNames /\ M \in Mask
        /\ next.format \in Formats /\ next.name \in Names
    BY <1>3, <1>4, TokenKinds, TokenFields DEF TypeOK
  <1>7. n = used + 1 /\ c = used + 2 /\ g = used + 3
    BY <1>2
  <1>8. /\ used \in Nat /\ g \in OptId /\ c \in OptId /\ g # 0 /\ used' = g /\ used' \in OptId
        /\ n \in ItemIds /\ c \in ItemIds /\ g \in ItemIds /\ n # c /\ n # g /\ c # g
        /\ n \notin 1 .. used /\ c \notin 1 .. used /\ g \notin 1 .. used /\ used <= used'
        /\ items \in [ItemIds -> Item] /\ 1 .. used \subseteq ItemIds
    BY <1>3, <1>7, Ids, ItemSpaceAssumption DEF Room, TypeOK, OptId, ItemIds
  <1>9. used + 1 .. used' = {n, c, g}
    <2>1. \A u \in Nat : u + 1 .. u + 3 = {u + 1, u + 2, u + 3}
      OBVIOUS
    <2>2. used + 1 .. used + 3 = {used + 1, used + 2, used + 3} /\ used' = used + 3
      BY <1>7, <1>8, <2>1
    <2> QED BY <1>7, <2>2
  <1>10. x = NumericItem(next.mask, next.format, next.name) /\ z = [GroupItem(next.label) EXCEPT !.cmds = c]
    BY <1>2
  <1>11. /\ items'[n] = x /\ items'[c] = CmdsItem(n) /\ items'[g] = z
         /\ \A i \in 1 .. used : items'[i] = items[i]
    BY <1>3, <1>8
  <1>12. PICK t : t = 0
    OBVIOUS
  <1>13. Extends(t, 0)
    BY <1>8, <1>11, <1>12 DEF Extends
  <1>14. PICK v : NewLabels(w, v, M)
    BY <1>6, <1>8, Relabels
  <1>15. v[n] = M /\ v[c] = M /\ v[g] = M
    BY <1>9, <1>14 DEF NewLabels
  <1>16. ItemScoped(v, n)' /\ ItemScoped(v, g)'
    <2>1. items'[n].kind = "Numeric"
      BY <1>10, <1>11 DEF NumericItem
    <2>2. items'[g].kind = "Group" /\ items'[g].cmds = c
      BY <1>10, <1>11 DEF GroupItem
    <2> QED BY <1>15, <2>1, <2>2 DEF ItemScoped
  <1>17. ItemScoped(v, c)'
    <2>1. /\ items'[c].command = n /\ items'[n].kind = "Numeric" /\ items'[n].mask = M
      BY <1>4, <1>10, <1>11 DEF NumericItem, CmdsItem
    <2>2. CommandScoped(v, c)'
      BY <1>15, <2>1 DEF CommandScoped
    <2> QED BY <1>11, <2>2, NewScoped
  <1>18. \A i \in used + 1 .. used' : ItemScoped(v, i)'
    BY <1>9, <1>16, <1>17
  <1>19. CallScoped(w, b) /\ Placed(b, m)
    BY <1>1, <1>4, TopScoped
  <1>20. SameScope(a, b) /\ a.head = b.head /\ a.tail = b.tail /\ a \in AnyCall
    BY <1>4, <1>5, OneLessScope DEF AnyCall
  <1>21. CallScoped(v, a)
    <2>1. b \in AnyCall /\ Keeps(b)
      BY <1>4, TopCall
    <2>2. CallScoped(v, b)
      BY <1>14, <1>19, <2>1, CallStaysScoped
    <2> QED BY <1>5, <1>20, <2>2 DEF CallScoped, SameScope
  <1>22. Placed(a, m)
    BY <1>5, <1>19, <1>20, SamePlace
  <1>23. /\ d \in AnyCall /\ d.is = "cond" /\ d.bit = {next.shift} /\ d.mask = M
         /\ d.true_group \in {0, g} /\ d.false_group \in {0, g}
    <2>1. d = IF next.negate THEN Cond(next, 0, g, TRUE) ELSE Cond(next, g, 0, FALSE)
      BY <1>2
    <2>2. {next.shift} \in Mask /\ 0 \in OptId
      BY <1>3, <1>5, Ids DEF Mask, TypeOK
    <2> QED BY <1>4, <1>6, <1>8, <2>1, <2>2 DEF Cond, Conds, AnyCall
  <1>24. CallScoped(v, d)
    BY <1>15, <1>23 DEF CallScoped
  <1>25. StandsWithin(d, a)
    BY <1>3, <1>4, <1>5, <1>20, <1>23 DEF StandsWithin, InScope, SameScope
  <1>26. PICK s : s = <<a, d>>
    OBVIOUS
  <1>27. s[1] = a /\ s[2] = d /\ Len(s) = 2 /\ 1 .. Len(s) = {1, 2} /\ 2 .. Len(s) = {2}
    BY <1>26
  <1>28. Rest(m, s)
    BY <1>3, <1>4, <1>5, <1>20, <1>23, <1>26, RestsOn
  <1>29. t # 0 => M = w[t]
    BY <1>12
  <1> QED BY <1>1, <1>13, <1>14, <1>18, <1>21, <1>22, <1>24, <1>25, <1>27, <1>28, <1>29, ScopedStays

-----------------------------------------------------------------------------
(* The scopes of an accepted graph.                                        *)

\* A step that changes neither the heap nor the stack.
LEMMA EndScoped ==
  ASSUME DInv, Scoped, UNCHANGED <<items, used, stack>>
  PROVE  Scoped'
  <1>1. PICK w \in [ItemIds -> Mask] : Labelled(w)
    BY DEF Scoped
  <1>2. Labelled(w)'
    BY <1>1 DEF Labelled, ItemScoped, CommandScoped, Placed, Calls
  <1> QED BY <1>2 DEF Scoped

\* Before a token is read the root's branch has all bits as its scope.
LEMMA ScopesBegin == Init => Scoped
  <1> SUFFICES ASSUME Init PROVE Scoped
    OBVIOUS
  <1>1. used = 0 /\ stack = <<Branch("Root", "commands", Bits, {}, NoName, 0)>>
    BY DEF Init, Start
  <1>2. PICK b : b = Branch("Root", "commands", Bits, {}, NoName, 0)
    OBVIOUS
  <1>3. b.is = "branch" /\ b.own = {} /\ b.scope = Bits /\ b.head = 0 /\ b.tail = 0
    BY <1>2 DEF Branch
  <1>4. Calls = {1} /\ stack[1] = b /\ 1 .. used = {}
    BY <1>1, <1>2 DEF Calls
  <1>5. PICK w : w = [i \in ItemIds |-> {}]
    OBVIOUS
  <1>6. w \in [ItemIds -> Mask]
    BY <1>5 DEF Mask
  <1>7. CallScoped(w, b) /\ Placed(b, 0)
    BY <1>3 DEF CallScoped, Placed
  <1>8. Labelled(w)
    BY <1>4, <1>7 DEF Labelled
  <1> QED BY <1>6, <1>8 DEF Scoped

\* Each step keeps the labels.
LEMMA ScopesStep == DInv /\ Scoped /\ [Next]_vars => Scoped'
  <1> SUFFICES ASSUME DInv, Scoped, [Next]_vars PROVE Scoped'
    OBVIOUS
  <1>1. CASE Next
    <2>1. status = "reading"
      BY <1>1 DEF Next
    <2>2. CASE Return
      <3>1. CASE EndNamed
        BY <3>1, EndNamedScoped
      <3>2. CASE EndBranch
        BY <2>1, <3>2, EndBranchScoped
      <3>3. CASE EndEmptyIf \/ DropCond
        BY <3>3, PopScoped
      <3>4. CASE EndCond
        BY <3>4, EndCondScoped
      <3>5. CASE Finish \/ Misread \/ Refuse
        BY <3>5, EndScoped DEF Finish, Misread, Refuse, heap
      <3> QED BY <2>2, <3>1, <3>2, <3>3, <3>4, <3>5 DEF Return
    <2>3. ASSUME NEW after \in Tokens \union {Eof}, Read(after) PROVE Scoped'
      <3>1. CASE ReadNamed(after)
        BY <3>1, ReadNamedScoped
      <3>2. CASE ReadNumeric(after)
        BY <3>2, ReadNumericScoped
      <3>3. CASE ReadIf(after)
        BY <3>3, ReadIfScoped
      <3>4. CASE ReadIfNumeric(after)
        BY <3>4, ReadIfNumericScoped
      <3>5. CASE ReadPair(after)
        BY <2>1, <3>5, ReadPairScoped
      <3>6. CASE ReadContinue(after)
        BY <3>6, ReadContinueScoped
      <3>7. CASE ReadElse(after)
        BY <3>7, ReadElseScoped
      <3>8. CASE Terminate(after)
        BY <3>8, EndScoped DEF Terminate, heap
      <3> QED BY <2>3, <3>1, <3>2, <3>3, <3>4, <3>5, <3>6, <3>7, <3>8 DEF Read
    <2> QED BY <1>1, <2>2, <2>3 DEF Next
  <1>2. CASE UNCHANGED vars
    BY <1>2, EndScoped DEF vars, heap
  <1> QED BY <1>1, <1>2

\* Whatever program is read, the items can be labelled with their scopes.
THEOREM ScopesInvariant == Spec => [](DInv /\ Scoped)
  <1> QED BY DecoderBegins, DecoderSteps, ScopesBegin, ScopesStep, PTL DEF Spec

\* The items of a list have the label of its first.
LEMMA ListScoped ==
  ASSUME DInv, NEW w, Labelled(w), NEW c \in 0 .. used,
         c # 0 => items[c].kind \in {"Cmds", "Pairs"}, NEW i \in ListFrom(c)
  PROVE  i \in 1 .. used /\ c # 0 /\ items[i].kind = items[c].kind /\ w[i] = w[c]
  <1>1. PICK same : same = {j \in 1 .. used : c # 0 /\ items[j].kind = items[c].kind}
    OBVIOUS
  <1>2. /\ i \in same
        /\ \A S \in SUBSET same :
             c \in S /\ (\A j \in S : items[j].next \in S \union {0}) => i \in S
    BY <1>1 DEF ListFrom
  <1>3. i \in 1 .. used /\ c # 0 /\ items[i].kind = items[c].kind
    BY <1>1, <1>2
  <1>4. PICK S : S = {j \in same : w[j] = w[c]}
    OBVIOUS
  <1>5. S \in SUBSET same /\ c \in S
    BY <1>1, <1>3, <1>4
  <1>6. ASSUME NEW j \in S PROVE items[j].next \in S \union {0}
    <2>1. j \in 1 .. used /\ items[j].kind = items[c].kind /\ w[j] = w[c]
      BY <1>1, <1>4
    <2>2. LinksOf(j) /\ ItemScoped(w, j)
      BY <2>1 DEF DInv, LinksTyped, Labelled
    <2>3. \/ items[j].next = 0
          \/ /\ items[j].next \in 1 .. used /\ items[items[j].next].kind = items[j].kind
             /\ w[items[j].next] = w[j]
      <3>1. CASE items[j].kind = "Cmds"
        BY <2>2, <3>1 DEF LinksOf, Onward, Stored, ItemScoped
      <3>2. CASE items[j].kind = "Pairs"
        BY <2>2, <3>2 DEF LinksOf, Onward, Stored, ItemScoped
      <3> QED BY <1>3, <2>1, <3>1, <3>2
    <2> QED BY <1>1, <1>3, <1>4, <2>1, <2>3
  <1>7. w[i] = w[c]
    BY <1>2, <1>4, <1>5, <1>6
  <1> QED BY <1>3, <1>7

\* A node's command keeps within the label of its list.
LEMMA ListKeepsWithin ==
  ASSUME DInv, NEW w, Labelled(w), NEW first \in 0 .. used,
         first # 0 => items[first].kind = "Cmds", NEW c \in ListFrom(first)
  PROVE  KeepsWithin(c, w[first])
  <1>1. c \in 1 .. used /\ items[c].kind = "Cmds" /\ w[c] = w[first]
    BY ListScoped
  <1>2. LinksOf(c) /\ ItemScoped(w, c)
    BY <1>1 DEF DInv, LinksTyped, Labelled
  <1>3. PICK k, cmd : k = items[c].command /\ cmd = items[k]
    OBVIOUS
  <1>4. k \in 1 .. used /\ CommandScoped(w, c)
    BY <1>1, <1>2, <1>3 DEF LinksOf, Earlier, Stored, ItemScoped
  <1>5. LinksOf(k) /\ ItemScoped(w, k)
    BY <1>4 DEF DInv, LinksTyped, Labelled
  <1>6. PICK mask : mask = IF cmd.mask # {} THEN cmd.mask ELSE w[first]
    OBVIOUS
  <1>7. CASE cmd.kind = "Named"
    <2>1. w[k] \subseteq w[first] /\ (cmd.mask # {} => cmd.mask = w[k]) /\ w[cmd.pairs] = w[k]
      BY <1>1, <1>3, <1>4, <1>5, <1>7 DEF CommandScoped, ItemScoped
    <2>2. mask \subseteq w[first] /\ w[k] \subseteq mask
      BY <1>6, <2>1
    <2>3. cmd.pairs \in 0 .. used /\ (cmd.pairs # 0 => items[cmd.pairs].kind = "Pairs")
      BY <1>3, <1>5, <1>7 DEF LinksOf, Onward, Stored
    <2>4. ASSUME NEW p \in ListFrom(cmd.pairs) PROVE items[p].value \subseteq mask
      <3>1. PICK q : q = cmd.pairs
        OBVIOUS
      <3>2. p \in 1 .. used /\ items[p].kind = items[q].kind /\ q # 0 /\ w[p] = w[q]
        BY <2>3, <2>4, <3>1, ListScoped
      <3>3. ItemScoped(w, p) /\ items[p].kind = "Pairs"
        BY <2>3, <3>1, <3>2 DEF Labelled
      <3> QED BY <2>1, <2>2, <3>1, <3>2, <3>3 DEF ItemScoped
    <2> QED BY <1>3, <1>6, <1>7, <2>2, <2>4 DEF KeepsWithin
  <1>8. CASE cmd.kind # "Named"
    BY <1>1, <1>3, <1>4, <1>8 DEF KeepsWithin, CommandScoped
  <1> QED BY <1>7, <1>8

(* Every mask, selector bit and value of an accepted description keeps     *)
(* within the scope of the branch it stands in, whatever program it was    *)
(* decoded from: the decoder asks so much of every program that the        *)
(* encoder's assertions hold for what it builds.                           *)
THEOREM DecodedScopesNarrow == Spec => []ScopesNarrow
  <1>1. DInv /\ Scoped => ScopesNarrow
    <2> SUFFICES ASSUME DInv, Scoped, status = "done" PROVE ScopesNarrow
      BY DEF ScopesNarrow
    <2>1. PICK w \in [ItemIds -> Mask] : Labelled(w)
      BY DEF Scoped
    <2>2. /\ Len(stack) = 1 /\ cmds_id = stack[1].head /\ 1 \in Calls
      BY DEF DInv, RootTaken, Calls
    <2>3. IsRoot(stack[1]) /\ Keeps(stack[1]) /\ CallScoped(w, stack[1]) /\ stack[1].scope = Bits
      BY <2>1, <2>2 DEF DInv, StackTyped, Shape, Labelled, Placed
    <2>4. /\ cmds_id \in 0 .. used
          /\ cmds_id # 0 => items[cmds_id].kind = "Cmds" /\ w[cmds_id] = Bits
      <3>1. used \in Nat
        BY Ids DEF DInv, TypeOK
      <3> QED BY <2>2, <2>3, <3>1 DEF IsRoot, Keeps, Stored, CallScoped
    <2>5. ASSUME NEW c \in ListFrom(cmds_id) PROVE KeepsWithin(c, Bits)
      <3>1. cmds_id # 0
        BY <2>1, <2>4, <2>5, ListScoped
      <3> QED BY <2>1, <2>4, <2>5, <3>1, ListKeepsWithin
    <2>6. ASSUME NEW x \in 1 .. used, items[x].kind = "Conditional",
                 NEW g \in {items[x].true_group, items[x].false_group} \ {0},
                 NEW c \in ListFrom(items[g].cmds)
          PROVE  KeepsWithin(c, items[x].bitmask)
      <3>1. LinksOf(x) /\ ItemScoped(w, x)
        BY <2>1 DEF DInv, LinksTyped, Labelled
      <3>2. g \in 1 .. used /\ items[g].kind = "Group" /\ w[g] = items[x].bitmask
        BY <2>6, <3>1 DEF LinksOf, Earlier, Stored, ItemScoped
      <3>3. LinksOf(g) /\ ItemScoped(w, g)
        BY <2>1, <3>2 DEF DInv, LinksTyped, Labelled
      <3>4. PICK first : first = items[g].cmds
        OBVIOUS
      <3>5. first \in 1 .. used /\ items[first].kind = "Cmds" /\ w[first] = w[g]
        BY <3>2, <3>3, <3>4 DEF LinksOf, Earlier, Stored, ItemScoped
      <3>6. KeepsWithin(c, w[first])
        BY <2>1, <2>6, <3>4, <3>5, ListKeepsWithin
      <3> QED BY <3>2, <3>5, <3>6
    <2> QED BY <2>5, <2>6 DEF ScopesNarrow
  <1> QED BY <1>1, ScopesInvariant, PTL

=============================================================================
