----------------------------- MODULE EnumBuilder -----------------------------
(***************************************************************************)
(* constexpr/enum_builder.hpp: the fluent builder of enum descriptions.    *)
(*                                                                         *)
(* The builder's scopes (EnumBuilder, IfScope, ElseScope) append commands  *)
(* to one shared item heap.  A scope is named by the Group item that holds *)
(* its branch, the root by 0.  A scope may be used until End() or Else()   *)
(* is called on it.  Next lets any open scope be used, as code that keeps  *)
(* scopes in variables may do; one fluent chain, which uses only the       *)
(* innermost one, is EnumAuthor.                                           *)
(*                                                                         *)
(* The asserts of the source are guards: a call that fails one aborts.     *)
(* The exceptions (full string heap, full item heap, a selector that is    *)
(* not one bit) are the ...Throws actions: they keep whatever the handler  *)
(* had stored when it gave up, and the scope may be used again.            *)
(***************************************************************************)
EXTENDS EnumIR, FiniteSets

CONSTANTS
  NameLen,      \* name -> its length
  StringSpace,  \* characters (NULs included) the string heap holds
  CallMasks,    \* the masks passed to Named, Numeric, If
  Selectors,    \* the group bitmasks passed to If
  Labels        \* the group names passed to If and Else, NoName for none

ASSUME NameLenAssumption == NameLen \in [Names -> Nat]
ASSUME StringSpaceAssumption == StringSpace \in Nat
ASSUME ArgumentsAssumption == /\ CallMasks \subseteq Mask
                              /\ Selectors \subseteq Mask
                              /\ Labels \subseteq GroupNames

VARIABLES
  items,    \* Items<N>::memory
  used,     \* Items<N>::next_id, the id given last
  chars,    \* Strings<N>::memory.size()
  cmds_id,  \* Enum::m_cmds_id
  scope,    \* group id -> the builder scope extending that branch
  thrown    \* history: some call has thrown

heap == <<items, used, chars>>
vars == <<items, used, chars, cmds_id, scope, thrown>>

(***************************************************************************)
(* Builder scopes: CommandScopeState with the fields of IfScope/ElseScope. *)
(***************************************************************************)
ImplicitNamed == [named : OptId, last_pair : OptId, mask : Mask]
NoImplicit == [named |-> 0, last_pair |-> 0, mask |-> {}]

Scopes == [kind : {"Root", "If", "Else"}, cond : OptId, mask : Mask,
           first : OptId, last : OptId, implicit : ImplicitNamed]
Closed == [kind |-> "Closed"]

NewScope(kind, cond, mask) ==
  [kind |-> kind, cond |-> cond, mask |-> mask,
   first |-> 0, last |-> 0, implicit |-> NoImplicit]

OpenScopes == {g \in OptId : scope[g].kind # "Closed"}
Innermost  == CHOOSE g \in OpenScopes : \A h \in OpenScopes : h <= g

-----------------------------------------------------------------------------
(***************************************************************************)
(* The two heaps.                                                          *)
(***************************************************************************)
Room(n) == used + n <= ItemSpace

Needed(name) == IF name = NoName THEN 0 ELSE NameLen[name] + 1

Fits(name) == chars + Needed(name) <= StringSpace

\* Mutant of CharsAfter: the capacity test is gone.
CharsUnbounded(name) == chars + Needed(name)

\* add_string() appends the characters, then the NUL: when only the NUL does
\* not fit, the characters stay.
CharsAfter(name) ==
  IF Fits(name) THEN chars + Needed(name)
  ELSE IF chars + Needed(name) = StringSpace + 1 THEN StringSpace
  ELSE chars

\* Mutant of AppendNode: a branch starts from its command, not from its node.
AppendCommand(its, g, command, c) ==
  LET stored == [its EXCEPT ![c] = CmdsItem(command)]
  IN  IF scope[g].first # 0 THEN [stored EXCEPT ![scope[g].last].next = c]
      ELSE IF g # 0 THEN [stored EXCEPT ![g].cmds = command]
      ELSE stored

\* append_command_node(): `c' becomes the last node of scope g's list.
AppendNode(its, g, command, c) ==
  LET stored == [its EXCEPT ![c] = CmdsItem(command)]
  IN  IF scope[g].first # 0 THEN [stored EXCEPT ![scope[g].last].next = c]
      ELSE IF g # 0 THEN [stored EXCEPT ![g].cmds = c]
      ELSE stored

\* Mutant of Appended: the last node is set once only.
AppendedOnce(g, c) ==
  [scope[g] EXCEPT !.first = IF @ = 0 THEN c ELSE @, !.last = IF @ = 0 THEN c ELSE @]

Appended(g, c) ==
  [scope[g] EXCEPT !.first = IF @ = 0 THEN c ELSE @, !.last = c]

RootAfter(g, c) == IF g = 0 /\ scope[g].first = 0 THEN c ELSE cmds_id

\* Mutant of Cut: the Named command stays open behind other commands.
NotCut(s) == s

\* clear_implicit_named()
Cut(s) == [s EXCEPT !.implicit = NoImplicit]

Cleared(g) == [scope EXCEPT ![g] = Cut(scope[g])]

-----------------------------------------------------------------------------
(***************************************************************************)
(* Named(value, name) and Named(value, name, mask); mask = {} is the form  *)
(* without one.  A Named command stays open for further pairs while the    *)
(* mask stays the same and nothing else is added to the scope.             *)
(***************************************************************************)
NamedAllowed(g, mask, value) ==
  /\ mask \subseteq scope[g].mask
  /\ value \subseteq IF mask # {} THEN mask ELSE scope[g].mask

\* Mutant of Reusable: only a Named with a mask of its own is extended.
ReusableMasked(g, mask) ==
  mask # {} /\ scope[g].implicit.named # 0 /\ scope[g].implicit.mask = mask

Reusable(g, mask) ==
  scope[g].implicit.named # 0 /\ scope[g].implicit.mask = mask

\* Mutant of LinkPair: the pair always goes behind the last one, even when
\* there is none.
LinkBehind(its, g, p) == [its EXCEPT ![scope[g].implicit.last_pair].next = p]

LinkPair(its, g, p) ==
  LET imp == scope[g].implicit
  IN  IF its[imp.named].pairs = 0 THEN [its EXCEPT ![imp.named].pairs = p]
      ELSE [its EXCEPT ![imp.last_pair].next = p]

ExtendNamed(g, mask, value, name) ==
  LET p == used + 1
  IN  /\ NamedAllowed(g, mask, value)
      /\ Reusable(g, mask)
      /\ value \notin PairValues(items, scope[g].implicit.named)
      /\ Fits(name) /\ Room(1)
      /\ items' = LinkPair([items EXCEPT ![p] = PairsItem(value, name)], g, p)
      /\ used' = p
      /\ chars' = CharsAfter(name)
      /\ scope' = [scope EXCEPT ![g].implicit.last_pair = p]
      /\ UNCHANGED <<cmds_id, thrown>>

StartNamed(g, mask, value, name) ==
  LET n == used + 1
      c == used + 2
      p == used + 3
  IN  /\ NamedAllowed(g, mask, value)
      /\ ~Reusable(g, mask)
      /\ Fits(name) /\ Room(3)
      /\ items' = AppendNode([items EXCEPT ![n] = [NamedItem(mask) EXCEPT !.pairs = p],
                                           ![p] = PairsItem(value, name)], g, n, c)
      /\ used' = p
      /\ chars' = CharsAfter(name)
      /\ cmds_id' = RootAfter(g, c)
      /\ scope' = [scope EXCEPT ![g] = [Appended(g, c) EXCEPT
                     !.implicit = [named |-> n, last_pair |-> p, mask |-> mask]]]
      /\ UNCHANGED thrown

\* The pair does not fit, and the Named command it would have extended is there.
ExtendNamedThrows(g, mask, value, name) ==
  /\ NamedAllowed(g, mask, value)
  /\ Reusable(g, mask)
  /\ value \notin PairValues(items, scope[g].implicit.named)
  /\ ~(Fits(name) /\ Room(1))
  /\ chars' = CharsAfter(name)
  /\ thrown' = TRUE
  /\ UNCHANGED <<items, used, cmds_id, scope>>

\* No room for the Named item and its list node: the item alone may be stored.
StartNamedThrows(g, mask, value) ==
  /\ NamedAllowed(g, mask, value)
  /\ ~Reusable(g, mask)
  /\ ~Room(2)
  /\ items' = [i \in ItemIds |-> IF i = used + 1 THEN NamedItem(mask) ELSE items[i]]
  /\ used' = ItemSpace
  /\ scope' = Cleared(g)
  /\ thrown' = TRUE
  /\ UNCHANGED <<chars, cmds_id>>

\* The Named command is in the list, and its first pair does not fit.
FirstPairThrows(g, mask, value, name) ==
  LET n == used + 1
      c == used + 2
  IN  /\ NamedAllowed(g, mask, value)
      /\ ~Reusable(g, mask)
      /\ Room(2) /\ ~(Fits(name) /\ Room(3))
      /\ items' = AppendNode([items EXCEPT ![n] = NamedItem(mask)], g, n, c)
      /\ used' = c
      /\ chars' = CharsAfter(name)
      /\ cmds_id' = RootAfter(g, c)
      /\ scope' = [scope EXCEPT ![g] = [Appended(g, c) EXCEPT
                     !.implicit = [named |-> n, last_pair |-> 0, mask |-> mask]]]
      /\ thrown' = TRUE

Named(g, mask, value, name) ==
  \/ ExtendNamed(g, mask, value, name)
  \/ StartNamed(g, mask, value, name)
  \/ ExtendNamedThrows(g, mask, value, name)
  \/ StartNamedThrows(g, mask, value)
  \/ FirstPairThrows(g, mask, value, name)

-----------------------------------------------------------------------------
(***************************************************************************)
(* Numeric(mask, name, format)                                             *)
(***************************************************************************)
NumericAllowed(g, mask) == mask # {} /\ mask \subseteq scope[g].mask

AddNumeric(g, mask, name, format) ==
  LET n == used + 1
      c == used + 2
  IN  /\ NumericAllowed(g, mask)
      /\ Fits(name) /\ Room(2)
      /\ items' = AppendNode([items EXCEPT ![n] = NumericItem(mask, format, name)], g, n, c)
      /\ used' = c
      /\ chars' = CharsAfter(name)
      /\ cmds_id' = RootAfter(g, c)
      /\ scope' = [scope EXCEPT ![g] = Cut(Appended(g, c))]
      /\ UNCHANGED thrown

NumericThrows(g, mask, name, format) ==
  LET stored == IF Fits(name) /\ Room(1) THEN 1 ELSE 0
  IN  /\ NumericAllowed(g, mask)
      /\ ~(Fits(name) /\ Room(2))
      /\ items' = [i \in ItemIds |-> IF i = used + stored /\ stored = 1
                                     THEN NumericItem(mask, format, name) ELSE items[i]]
      /\ used' = used + stored
      /\ chars' = CharsAfter(name)
      /\ scope' = Cleared(g)
      /\ thrown' = TRUE
      /\ UNCHANGED cmds_id

Numeric(g, mask, name, format) ==
  AddNumeric(g, mask, name, format) \/ NumericThrows(g, mask, name, format)

-----------------------------------------------------------------------------
(***************************************************************************)
(* If and IfNot: a Group for the first branch, the Conditional that owns   *)
(* it, and the Conditional's node in the list of scope g.  `when' is the   *)
(* side authored first: TRUE for If, FALSE for IfNot.                      *)
(***************************************************************************)
IfAllowed(g, selector, mask) ==
  /\ selector \subseteq scope[g].mask
  /\ mask # {} /\ mask \subseteq scope[g].mask

OneBit(selector) == Cardinality(selector) = 1

FirstBranch(selector, mask, when, grp) ==
  CondItem(selector, mask, IF when THEN grp ELSE 0, IF when THEN 0 ELSE grp)

OpenIf(g, selector, mask, when, label) ==
  LET grp  == used + 1
      cond == used + 2
      c    == used + 3
  IN  /\ OneBit(selector) /\ IfAllowed(g, selector, mask)
      /\ Fits(label) /\ Room(3)
      /\ items' = AppendNode([items EXCEPT ![grp]  = GroupItem(label),
                                           ![cond] = FirstBranch(selector, mask, when, grp)],
                             g, cond, c)
      /\ used' = c
      /\ chars' = CharsAfter(label)
      /\ cmds_id' = RootAfter(g, c)
      /\ scope' = [scope EXCEPT ![g] = Cut(Appended(g, c)),
                                ![grp] = NewScope("If", cond, mask)]
      /\ UNCHANGED thrown

\* The selector is tested after the Group has been stored, the scope masks
\* after that.
IfThrows(g, selector, mask, when, label) ==
  LET grp    == used + 1
      stored == IF ~Fits(label) \/ ~Room(1) THEN 0
                ELSE IF ~OneBit(selector) \/ ~Room(2) THEN 1 ELSE 2
  IN  /\ \/ ~Fits(label) \/ ~Room(1)
         \/ ~OneBit(selector)
         \/ ~Room(3) /\ IfAllowed(g, selector, mask)
      /\ items' = [i \in ItemIds |->
                     IF i = grp /\ stored >= 1 THEN GroupItem(label)
                     ELSE IF i = grp + 1 /\ stored = 2
                          THEN FirstBranch(selector, mask, when, grp)
                     ELSE items[i]]
      /\ used' = used + stored
      /\ chars' = CharsAfter(label)
      /\ scope' = Cleared(g)
      /\ thrown' = TRUE
      /\ UNCHANGED cmds_id

If(g, selector, mask, when, label) ==
  OpenIf(g, selector, mask, when, label) \/ IfThrows(g, selector, mask, when, label)

-----------------------------------------------------------------------------
(***************************************************************************)
(* Else on an IfScope.  A first branch that is still empty is not kept:    *)
(* its Group becomes the else branch.                                      *)
(***************************************************************************)
HasCommands(g) == items[g].cmds # 0

\* Mutant of OtherSide: the new branch takes the place of the first one.
SameSide(cond, g, grp) ==
  IF cond.true_group = g THEN [cond EXCEPT !.true_group = grp]
  ELSE [cond EXCEPT !.false_group = grp]

OtherSide(cond, g, grp) ==
  IF cond.true_group = g THEN [cond EXCEPT !.false_group = grp]
  ELSE [cond EXCEPT !.true_group = grp]

Flipped(cond, g) ==
  IF cond.true_group = g THEN [cond EXCEPT !.true_group = 0, !.false_group = g]
  ELSE [cond EXCEPT !.false_group = 0, !.true_group = g]

OpenElse(g, label) ==
  LET grp  == used + 1
      cond == scope[g].cond
  IN  /\ scope[g].kind = "If"
      /\ HasCommands(g)
      /\ Fits(label) /\ Room(1)
      /\ items' = [items EXCEPT ![grp] = GroupItem(label), ![cond] = OtherSide(@, g, grp)]
      /\ used' = grp
      /\ chars' = CharsAfter(label)
      /\ scope' = [scope EXCEPT ![g] = Closed, ![grp] = NewScope("Else", cond, scope[g].mask)]
      /\ UNCHANGED <<cmds_id, thrown>>

ReuseAsElse(g, label) ==
  LET cond == scope[g].cond
  IN  /\ scope[g].kind = "If"
      /\ ~HasCommands(g)
      /\ Fits(label)
      /\ items' = [items EXCEPT ![g].name = label, ![cond] = Flipped(@, g)]
      /\ chars' = CharsAfter(label)
      /\ scope' = [scope EXCEPT ![g] = NewScope("Else", cond, scope[g].mask)]
      /\ UNCHANGED <<used, cmds_id, thrown>>

ElseThrows(g, label) ==
  /\ scope[g].kind = "If"
  /\ ~Fits(label) \/ (HasCommands(g) /\ ~Room(1))
  /\ chars' = CharsAfter(label)
  /\ scope' = Cleared(g)
  /\ thrown' = TRUE
  /\ UNCHANGED <<items, used, cmds_id>>

Else(g, label) == OpenElse(g, label) \/ ReuseAsElse(g, label) \/ ElseThrows(g, label)

-----------------------------------------------------------------------------
(***************************************************************************)
(* End on an IfScope or an ElseScope.  An else branch that stayed empty is *)
(* taken out of its conditional, which must keep its other branch.         *)
(***************************************************************************)
\* Mutant of WithoutBranch: the empty branch stays.
WithEmptyBranch(cond, g) == cond

WithoutBranch(cond, g) ==
  IF cond.true_group = g THEN [cond EXCEPT !.true_group = 0]
  ELSE [cond EXCEPT !.false_group = 0]

EndBranch(g) ==
  /\ scope[g].kind \in {"If", "Else"}
  /\ HasCommands(g)
  /\ scope' = [scope EXCEPT ![g] = Closed]
  /\ UNCHANGED <<items, used, chars, cmds_id, thrown>>

DropEmptyElse(g) ==
  LET cond == WithoutBranch(items[scope[g].cond], g)
  IN  /\ scope[g].kind = "Else"
      /\ ~HasCommands(g)
      /\ cond.true_group # 0 \/ cond.false_group # 0
      /\ items' = [items EXCEPT ![scope[g].cond] = cond, ![g].name = NoName]
      /\ scope' = [scope EXCEPT ![g] = Closed]
      /\ UNCHANGED <<used, chars, cmds_id, thrown>>

End(g) == EndBranch(g) \/ DropEmptyElse(g)

-----------------------------------------------------------------------------
Init ==
  /\ items = [i \in ItemIds |-> FreeItem]
  /\ used = 0
  /\ chars = 0
  /\ cmds_id = 0
  /\ scope = [g \in OptId |-> IF g = 0 THEN NewScope("Root", 0, Bits) ELSE Closed]
  /\ thrown = FALSE

Call(g) ==
  \/ \E mask \in CallMasks \union {{}}, value \in Mask, name \in Names :
       Named(g, mask, value, name)
  \/ \E mask \in CallMasks, name \in Names, format \in Formats :
       Numeric(g, mask, name, format)
  \/ \E selector \in Selectors, mask \in CallMasks, when \in BOOLEAN, label \in Labels :
       If(g, selector, mask, when, label)
  \/ \E label \in Labels : Else(g, label)
  \/ End(g)

Next == \E g \in OpenScopes : Call(g)
Spec == Init /\ [][Next]_vars

\* Build(): a copy of the graph whose root list starts at the root scope's
\* first node.
Build == [items |-> items, cmds_id |-> scope[0].first]

-----------------------------------------------------------------------------
(***************************************************************************)
(* Properties.                                                             *)
(***************************************************************************)

(* Every variable holds what its C++ type can hold, and the heaps never    *)
(* hold more than their capacity.                                          *)
TypeOK ==
  /\ items \in [ItemIds -> Item]
  /\ used \in OptId
  /\ chars \in 0 .. StringSpace
  /\ cmds_id \in OptId
  /\ scope \in [OptId -> Scopes \union {Closed}]
  /\ thrown \in BOOLEAN

Stored(i, kinds) == i \in 1 .. used /\ items[i].kind \in kinds

\* A list link leads to a later item, so following it terminates.
Onward(i, j, kind) == j = 0 \/ (i < j /\ Stored(j, {kind}))

\* A link to an owned part leads to an item stored before its owner.
Earlier(i, j, kinds) == j < i /\ Stored(j, kinds)

LinksOf(i) ==
  LET x == items[i]
  IN  /\ x.kind = "Pairs" => Onward(i, x.next, "Pairs")
      /\ x.kind = "Named" => Onward(i, x.pairs, "Pairs")
      /\ x.kind = "Group" => Onward(i, x.cmds, "Cmds")
      /\ x.kind = "Cmds" => /\ Onward(i, x.next, "Cmds")
                            /\ Earlier(i, x.command, CommandKinds)
      /\ x.kind = "Conditional" =>
           /\ x.true_group = 0 \/ Stored(x.true_group, {"Group"})
           /\ x.false_group = 0 \/ Stored(x.false_group, {"Group"})

(* item<T>(id) is a std::get on the stored variant: it throws when the id   *)
(* leads to another kind of item.  Every link stored in an item leads to    *)
(* an item of the kind its readers ask for, and list links lead onward.     *)
LinksTyped == \A i \in 1 .. used : LinksOf(i)

ScopeLinks(g) ==
  LET s == scope[g]
  IN  /\ g = 0 <=> s.kind = "Root"
      /\ g # 0 => Stored(g, {"Group"}) /\ Stored(s.cond, {"Conditional"})
      /\ s.first = 0 <=> s.last = 0
      /\ s.first = IF g = 0 THEN cmds_id ELSE items[g].cmds
      /\ s.last # 0 => Stored(s.last, {"Cmds"}) /\ items[s.last].next = 0
      /\ s.implicit.named = 0 => s.implicit.last_pair = 0
      /\ s.implicit.named # 0 =>
           /\ Stored(s.implicit.named, {"Named"})
           /\ items[s.implicit.named].mask = s.implicit.mask
           /\ items[s.implicit.named].pairs = 0 <=> s.implicit.last_pair = 0
           /\ s.implicit.last_pair # 0 => /\ Stored(s.implicit.last_pair, {"Pairs"})
                                          /\ items[s.implicit.last_pair].next = 0

\* No two open scopes append to one list, or to one Named command.
Apart(g, h) ==
  LET s == scope[g]
      t == scope[h]
  IN  /\ s.last # 0 => s.last # t.last
      /\ s.implicit.named # 0 => s.implicit.named # t.implicit.named
      /\ s.implicit.last_pair # 0 => s.implicit.last_pair # t.implicit.last_pair

(* The ids a builder scope keeps stay good while other scopes, or failed   *)
(* calls, add items: its last node and last pair are the ends of lists     *)
(* that no other scope extends, and its first node is the one its Group    *)
(* (or the enum) starts from, so that linking behind them never cuts off   *)
(* what is already there.                                                  *)
ScopesTyped ==
  /\ \A g \in OpenScopes : ScopeLinks(g)
  /\ \A g, h \in OpenScopes : g # h => Apart(g, h)

\* Every link from an item, or from the enum, to an item: <<owner, field, item>>.
Links ==
  LET Of(kinds) == {i \in ItemIds : items[i].kind \in kinds}
  IN  {<<0, "cmds", cmds_id>>}
        \union {<<i, "next", items[i].next>> : i \in Of({"Pairs", "Cmds"})}
        \union {<<i, "command", items[i].command>> : i \in Of({"Cmds"})}
        \union {<<i, "pairs", items[i].pairs>> : i \in Of({"Named"})}
        \union {<<i, "cmds", items[i].cmds>> : i \in Of({"Group"})}
        \union {<<i, "true", items[i].true_group>> : i \in Of({"Conditional"})}
        \union {<<i, "false", items[i].false_group>> : i \in Of({"Conditional"})}

(* Nothing the author wrote is lost or shown twice: every list node and    *)
(* every pair has exactly one owner, whatever calls failed before or were  *)
(* made on other scopes in between; no other item has more than one.       *)
OwnedOnce ==
  LET links == Links
      owners(i) == Cardinality({l \in links : l[3] = i})
  IN  \A i \in 1 .. used :
        /\ owners(i) <= 1
        /\ items[i].kind \in {"Cmds", "Pairs"} => owners(i) = 1

(* When no call has thrown and all branches are ended, the graph has what  *)
(* Named::encode and Conditional::encode assert: no Named without a pair,  *)
(* no Conditional without a branch, no branch without a command.           *)
EncodableWhenComplete ==
  ~thrown /\ OpenScopes = {0} =>
    \A c \in 1 .. used : items[c].kind = "Cmds" =>
      LET cmd == items[items[c].command]
      IN  /\ cmd.kind = "Named" => cmd.pairs # 0
          /\ cmd.kind = "Conditional" =>
               /\ cmd.true_group # 0 \/ cmd.false_group # 0
               /\ \A b \in {cmd.true_group, cmd.false_group} \ {0} : items[b].cmds # 0

(* Consecutive Named calls of one scope with one mask make one command:    *)
(* unless a call has thrown, no two neighbours in a list could be merged.  *)
NeighboursDiffer ==
  ~thrown =>
    \A c \in 1 .. used : items[c].kind = "Cmds" /\ items[c].next # 0 =>
      LET a == items[items[c].command]
          b == items[items[items[c].next].command]
      IN  ~(a.kind = "Named" /\ b.kind = "Named" /\ a.mask = b.mask)

\* What later calls may still set in a stored item.
Settled(x, y) ==
  /\ x.kind = y.kind
  /\ x.kind = "Pairs" => [x EXCEPT !.next = y.next] = y /\ x.next \in {0, y.next}
  /\ x.kind = "Named" => [x EXCEPT !.pairs = y.pairs] = y /\ x.pairs \in {0, y.pairs}
  /\ x.kind = "Numeric" => x = y
  /\ x.kind = "Group" => x.cmds \in {0, y.cmds} /\ (x.name # y.name => y.cmds = 0)
  /\ x.kind = "Cmds" => x.command = y.command /\ x.next \in {0, y.next}
  /\ x.kind = "Conditional" => x.group_bitmask = y.group_bitmask /\ x.bitmask = y.bitmask

NoCommands(its, branch) == branch = 0 \/ its[branch].cmds = 0

\* A branch of a Conditional is taken away, or put in, only while it is empty.
BranchKept(before, after) ==
  before = after \/ (NoCommands(items, before) /\ NoCommands(items', after))

BranchesKept(i) ==
  items[i].kind = "Conditional" =>
    /\ BranchKept(items[i].true_group, items'[i].true_group)
    /\ BranchKept(items[i].false_group, items'[i].false_group)

(* The heap only grows: no call, failed or not, rewrites what an earlier   *)
(* one stored, and a link that is set is not set again.  A list is only    *)
(* extended at its end.  What Else and End do change, the branches of a    *)
(* Conditional and the name of a branch, they change only while the branch *)
(* is empty: one with commands stays on its side for ever.                 *)
OnlyGrows ==
  [][/\ used' >= used
     /\ chars' >= chars
     /\ \A i \in 1 .. used :
          items'[i] # items[i] => Settled(items[i], items'[i]) /\ BranchesKept(i)]_vars

(* encode() asserts "Can't define a Named block with no pairs." of every   *)
(* Named it meets (constexpr/enum_ir.hpp:1137): when all branches are      *)
(* ended, no Named command in a list is empty.                             *)
NamedNeverEmpty ==
  OpenScopes = {0} =>
    \A c \in 1 .. used : items[c].kind = "Cmds" =>
      (items[items[c].command].kind = "Named" => items[items[c].command].pairs # 0)
=============================================================================
