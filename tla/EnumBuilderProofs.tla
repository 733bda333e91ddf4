------------------------- MODULE EnumBuilderProofs -------------------------
(***************************************************************************)
(* The builder never builds a graph that is not one: proofs about          *)
(* EnumBuilder for every capacity of the heaps, every set of names, masks  *)
(* and selectors, and every order in which calls on open scopes, failed    *)
(* ones included, may come.                                                *)
(*                                                                         *)
(* IInv joins three facts that only hold together.  That a stored link is  *)
(* sound (LinksTyped) rests on the ids from which scopes link new items    *)
(* (ScopesTyped): a last node that is still the end of its list, apart     *)
(* from those of all other scopes.  The proof takes the steps one by one;  *)
(* AppendInv, QuietInv and OnlyNewKeeps say once what the calls that       *)
(* append a node, that do not, and that give up have in common.            *)
(***************************************************************************)
EXTENDS EnumBuilder, TLAPS, FiniteSetTheorems

\* The kind field tells which alternative of the stored variant an item is.
LEMMA ItemKinds ==
  ASSUME NEW x \in Item
  PROVE  /\ x.kind = "Pairs" => x \in PairsItems
         /\ x.kind = "Named" => x \in NamedItems
         /\ x.kind = "Numeric" => x \in NumericItems
         /\ x.kind = "Group" => x \in GroupItems
         /\ x.kind = "Conditional" => x \in CondItems
         /\ x.kind = "Cmds" => x \in CmdsItems
         /\ x.kind = "Free" => x \in FreeItems
  BY DEF Item, PairsItems, NamedItems, NumericItems, GroupItems, CondItems, CmdsItems, FreeItems

\* The items that add_item() is given are items of the heap's variant.
LEMMA ItemMade ==
  /\ FreeItem \in FreeItems
  /\ \A command \in OptId : CmdsItem(command) \in CmdsItems
  /\ \A mask \in Mask : NamedItem(mask) \in NamedItems
  /\ \A value \in Mask, name \in Names : PairsItem(value, name) \in PairsItems
  /\ \A mask \in Mask, format \in Formats, name \in Names :
       NumericItem(mask, format, name) \in NumericItems
  /\ \A name \in GroupNames : GroupItem(name) \in GroupItems
  /\ \A selector, mask \in Mask, t, f \in OptId :
       CondItem(selector, mask, t, f) \in CondItems
  BY ItemSpaceAssumption DEF PairsItems, NamedItems, NumericItems, GroupItems, CondItems, CmdsItems, FreeItems,
    PairsItem, NamedItem, NumericItem, GroupItem, CondItem, CmdsItem, FreeItem, OptId

\* Setting a link of an item leaves it an item of the same alternative.
LEMMA ItemChanged ==
  ASSUME NEW id \in OptId, NEW x
  PROVE  /\ x \in CmdsItems => [x EXCEPT !.next = id] \in CmdsItems
         /\ x \in PairsItems => [x EXCEPT !.next = id] \in PairsItems
         /\ x \in NamedItems => [x EXCEPT !.pairs = id] \in NamedItems
         /\ x \in GroupItems => [x EXCEPT !.cmds = id] \in GroupItems
         /\ x \in CondItems => [x EXCEPT !.true_group = id] \in CondItems
         /\ x \in CondItems => [x EXCEPT !.false_group = id] \in CondItems
  BY DEF PairsItems, NamedItems, GroupItems, CondItems, CmdsItems
-----------------------------------------------------------------------------
(* Builder scopes.                                                         *)

\* The state of an open scope is that of a builder scope, not of a closed one.
LEMMA OpenIsScope ==
  ASSUME TypeOK, NEW g \in OpenScopes
  PROVE  g \in OptId /\ scope[g] \in Scopes
  BY DEF OpenScopes, TypeOK, Closed

\* What begin_if_scope() and make_else_scope_impl() return is a scope.
LEMMA ScopeMade ==
  ASSUME NEW kind \in {"Root", "If", "Else"}, NEW cond \in OptId, NEW mask \in Mask
  PROVE  NewScope(kind, cond, mask) \in Scopes
  BY ItemSpaceAssumption DEF NewScope, Scopes, NoImplicit, ImplicitNamed, OptId, Mask

\* Appending a node to a scope, and clearing or setting its open Named, keep it one.
LEMMA ScopeChanged ==
  ASSUME NEW g, scope[g] \in Scopes, NEW c \in OptId, NEW imp \in ImplicitNamed
  PROVE  /\ Appended(g, c) \in Scopes
         /\ [scope[g] EXCEPT !.implicit = imp] \in Scopes
         /\ [Appended(g, c) EXCEPT !.implicit = imp] \in Scopes
         /\ Cut(scope[g]) \in Scopes
         /\ Cut(Appended(g, c)) \in Scopes
  <1> NoImplicit \in ImplicitNamed
    BY ItemSpaceAssumption DEF NoImplicit, ImplicitNamed, OptId, Mask
  <1> QED BY DEF Appended, Cut, Scopes

\* A scope is closed or is one of the builder scopes, never both.
LEMMA ClosedIsClosed == \A s \in Scopes : s # Closed /\ s.kind # "Closed" /\ Closed.kind = "Closed"
  BY DEF Scopes, Closed

\* add_string() never leaves more characters than the string heap has room for.
LEMMA CharsBounded ==
  ASSUME NEW name \in GroupNames, chars \in 0 .. StringSpace
  PROVE  CharsAfter(name) \in 0 .. StringSpace
  <1> Needed(name) \in Nat
    BY NameLenAssumption DEF Needed, GroupNames
  <1> QED BY StringSpaceAssumption DEF CharsAfter, Fits

-----------------------------------------------------------------------------
(* How links survive a step.                                               *)

HeapGrows ==
  /\ used' \in OptId
  /\ used <= used'
  /\ \A i \in 1 .. used : items'[i].kind = items[i].kind

\* While the heap only grows, a stored item stays stored and of its kind.
LEMMA StoredStays ==
  ASSUME TypeOK, HeapGrows, NEW j, NEW kinds, Stored(j, kinds)
  PROVE  Stored(j, kinds)'
  BY ItemSpaceAssumption DEF TypeOK, HeapGrows, Stored, OptId

\* While the heap only grows, the links of an item that did not change stay good.
LEMMA LinksStay ==
  ASSUME TypeOK, HeapGrows, NEW i \in 1 .. used, LinksOf(i), items'[i] = items[i]
  PROVE  LinksOf(i)'
  BY StoredStays DEF LinksOf, Onward, Earlier

(* What a scope keeps stays good when the items it names are not touched.  *)
Untouched(g) ==
  LET s == scope[g]
  IN  /\ g # 0 => items'[g].cmds = items[g].cmds
      /\ g = 0 => cmds_id' = cmds_id
      /\ s.last # 0 => items'[s.last].next = items[s.last].next
      /\ s.implicit.named # 0 => items'[s.implicit.named] = items[s.implicit.named]
      /\ s.implicit.last_pair # 0 =>
           items'[s.implicit.last_pair] = items[s.implicit.last_pair]

\* While the heap only grows, what an untouched scope keeps stays good.
LEMMA ScopeStays ==
  ASSUME TypeOK, HeapGrows, NEW g \in OpenScopes, ScopeLinks(g), Untouched(g),
         scope'[g] = scope[g] \/ scope'[g] = Cut(scope[g])
  PROVE  ScopeLinks(g)'
  <1>1. scope[g] \in Scopes
    BY OpenIsScope
  <1>2. CASE scope'[g] = scope[g]
    BY <1>2, StoredStays DEF ScopeLinks, Untouched
  <1>3. CASE scope'[g] = Cut(scope[g])
    <2>1. /\ scope'[g].cond = scope[g].cond
          /\ scope'[g].first = scope[g].first
          /\ scope'[g].last = scope[g].last
          /\ scope'[g].implicit.named = 0
      BY <1>1, <1>3 DEF Cut, Scopes, NoImplicit
    <2>2. scope'[g].implicit.last_pair = 0 /\ scope'[g].kind = scope[g].kind
      BY <1>1, <1>3 DEF Cut, Scopes, NoImplicit
    <2> QED BY <2>1, <2>2, StoredStays DEF ScopeLinks, Untouched
  <1> QED BY <1>2, <1>3
-----------------------------------------------------------------------------
(* The inductive invariant, and what every step has to show for it.        *)

IInv == TypeOK /\ LinksTyped /\ ScopesTyped

\* The ids that an open scope keeps are ids of stored items, or 0.
LEMMA ScopeIds ==
  ASSUME TypeOK, ScopesTyped, NEW g \in OpenScopes
  PROVE  /\ g \in 0 .. used
         /\ scope[g].last \in 0 .. used
         /\ scope[g].first = 0 <=> scope[g].last = 0
         /\ scope[g].implicit.named \in 0 .. used
         /\ scope[g].implicit.last_pair \in 0 .. used
  <1>1. scope[g] \in Scopes /\ g \in OptId /\ used \in OptId
    BY OpenIsScope DEF TypeOK
  <1>2. ScopeLinks(g)
    BY DEF ScopesTyped
  <1>3. scope[g].implicit \in ImplicitNamed
    BY <1>1 DEF Scopes
  <1>4. scope[g].implicit.named \in 0 .. used /\ scope[g].implicit.last_pair \in 0 .. used
    BY <1>1, <1>2, <1>3, ItemSpaceAssumption DEF ScopeLinks, Stored, ImplicitNamed, OptId
  <1>5. g \in 0 .. used /\ scope[g].last \in 0 .. used /\ (scope[g].first = 0 <=> scope[g].last = 0)
    BY <1>1, <1>2, ItemSpaceAssumption DEF ScopeLinks, Stored, Scopes, OptId
  <1> QED BY <1>4, <1>5

(* A scope that is new, or that has taken over only new ids, or kept its   *)
(* own, is apart from all others.                                          *)
KeepsOrRenews(g) ==
  LET s == scope[g]
      t == scope'[g]
  IN  /\ t.last = s.last \/ t.last > used
      /\ t.implicit.named = s.implicit.named \/ t.implicit.named = 0
           \/ t.implicit.named > used
      /\ t.implicit.last_pair = s.implicit.last_pair \/ t.implicit.last_pair = 0
           \/ t.implicit.last_pair > used

Blank(s) == s.last = 0 /\ s.implicit = NoImplicit

\* Scopes stay apart when one of them takes new ids only and others open empty.
LEMMA ApartStays ==
  ASSUME TypeOK, ScopesTyped, TypeOK', NEW g \in OpenScopes,
         \A h \in OpenScopes' : \/ Blank(scope'[h])
                                \/ h # g /\ h \in OpenScopes /\ scope'[h] = scope[h]
                                \/ h = g /\ KeepsOrRenews(g)
  PROVE  \A h, k \in OpenScopes' : h # k => Apart(h, k)'
  <1> SUFFICES ASSUME NEW h \in OpenScopes', NEW k \in OpenScopes', h # k
               PROVE  Apart(h, k)'
    OBVIOUS
  <1>1. \A l \in OpenScopes : /\ scope[l].last \in 0 .. used
                              /\ scope[l].implicit.named \in 0 .. used
                              /\ scope[l].implicit.last_pair \in 0 .. used
    BY ScopeIds
  <1>2. used \in Nat
    BY ItemSpaceAssumption DEF TypeOK, OptId
  <1>3. CASE Blank(scope'[h])
    BY <1>3 DEF Blank, Apart, NoImplicit
  <1>4. CASE Blank(scope'[k])
    BY <1>4 DEF Blank, Apart, NoImplicit
  <1>5. CASE /\ h # g /\ h \in OpenScopes /\ scope'[h] = scope[h]
             /\ k # g /\ k \in OpenScopes /\ scope'[k] = scope[k]
    BY <1>5 DEF ScopesTyped, Apart
  <1>6. CASE /\ h # g /\ h \in OpenScopes /\ scope'[h] = scope[h]
             /\ k = g /\ KeepsOrRenews(g)
    BY <1>1, <1>2, <1>6 DEF ScopesTyped, Apart, KeepsOrRenews
  <1>7. CASE /\ k # g /\ k \in OpenScopes /\ scope'[k] = scope[k]
             /\ h = g /\ KeepsOrRenews(g)
    BY <1>1, <1>2, <1>7 DEF ScopesTyped, Apart, KeepsOrRenews
  <1> QED BY <1>3, <1>4, <1>5, <1>6, <1>7

(* A command appended to a scope: everything stored before keeps its       *)
(* links, and the new node is good.                                        *)
Appending(g, its, command, c) ==
  /\ its \in [ItemIds -> Item]
  /\ \A i \in 1 .. used : its[i] = items[i]
  /\ command \in OptId /\ c \in OptId /\ used' \in OptId
  /\ used < command /\ command < c /\ c <= used'
  /\ its[command].kind \in CommandKinds
  /\ items' = AppendNode(its, g, command, c)
  /\ cmds_id' = RootAfter(g, c)

\* append_command_node() spoils no link of a stored item and no other scope.
LEMMA AppendKeeps ==
  ASSUME IInv, NEW g \in OpenScopes, NEW its, NEW command, NEW c,
         Appending(g, its, command, c)
  PROVE  /\ items' \in [ItemIds -> Item]
         /\ HeapGrows
         /\ \A i \in 1 .. used : LinksOf(i)'
         /\ LinksOf(c)'
         /\ items'[c] = CmdsItem(command)
         /\ \A i \in ItemIds : i > used /\ i # c => items'[i] = its[i]
         /\ \A h \in OpenScopes : h # g => Untouched(h)
         /\ \A i \in 1 .. used : items[i].kind \in {"Named", "Pairs"} => items'[i] = items[i]
         /\ g # 0 => items'[g].cmds = Appended(g, c).first
         /\ g = 0 => cmds_id' = Appended(g, c).first
  <1>0. /\ TypeOK /\ LinksTyped /\ ScopesTyped
        /\ its \in [ItemIds -> Item]
        /\ \A i \in 1 .. used : its[i] = items[i]
        /\ command \in OptId /\ c \in OptId /\ used' \in OptId
        /\ used < command /\ command < c /\ c <= used'
        /\ its[command].kind \in CommandKinds
        /\ items' = AppendNode(its, g, command, c)
        /\ cmds_id' = RootAfter(g, c)
    BY DEF IInv, Appending
  <1> USE <1>0
  <1>1. /\ scope[g] \in Scopes /\ used \in OptId
        /\ used \in Nat /\ used' \in Nat /\ c \in Nat /\ command \in Nat
        /\ c \in ItemIds /\ command \in ItemIds /\ 1 .. used \subseteq ItemIds
    BY OpenIsScope, ItemSpaceAssumption DEF TypeOK, OptId, ItemIds
  <1>2. ScopeLinks(g)
    BY DEF ScopesTyped
  <1> DEFINE stored == [its EXCEPT ![c] = CmdsItem(command)]
  <1>3. stored \in [ItemIds -> Item]
    BY ItemMade DEF Item
  <1>4. CASE scope[g].first # 0
    <2>0. PICK last : last = scope[g].last
      OBVIOUS
    <2>1. /\ last \in 1 .. used /\ items[last].kind = "Cmds" /\ items[last].next = 0
          /\ items[last] \in CmdsItems
      BY <1>1, <1>2, <1>4, <2>0, ItemKinds DEF ScopeLinks, Stored, TypeOK
    <2>2. items' = [stored EXCEPT ![last].next = c]
      BY <1>4, <2>0 DEF AppendNode
    <2>3. /\ items'[last] = [items[last] EXCEPT !.next = c]
          /\ items'[last] \in CmdsItems
          /\ \A i \in ItemIds : i # last /\ i # c => items'[i] = its[i]
          /\ items'[c] = CmdsItem(command)
          /\ items' \in [ItemIds -> Item]
      <3>0. last # c /\ last \in ItemIds
        BY <1>1, <2>1
      <3>1. stored[last] = items[last]
        BY <2>1, <3>0
      <3>2. [items[last] EXCEPT !.next = c] \in CmdsItems
        BY <2>1, ItemChanged
      <3>3. [items[last] EXCEPT !.next = c] \in Item
        BY <3>2 DEF Item
      <3> QED BY <1>1, <1>3, <2>2, <3>0, <3>1, <3>2, <3>3
    <2>4. HeapGrows
      BY <1>1, <2>1, <2>3 DEF HeapGrows, CmdsItems
    <2>5. Stored(c, {"Cmds"})' /\ Stored(command, CommandKinds)'
      BY <1>1, <2>1, <2>3 DEF Stored, CmdsItem
    <2>6. LinksOf(c)'
      BY <1>1, <2>3, <2>5 DEF LinksOf, CmdsItem, Onward, Earlier
    <2>7. LinksOf(last)'
      <3>1. LinksOf(last)
        BY <2>1 DEF LinksTyped
      <3>2. items'[last].kind = "Cmds" /\ items'[last].next = c
            /\ items'[last].command = items[last].command
        BY <2>1, <2>3 DEF CmdsItems
      <3>3. Earlier(last, items[last].command, CommandKinds)
        BY <2>1, <3>1 DEF LinksOf
      <3>4. Earlier(last, items[last].command, CommandKinds)'
        BY <2>4, <3>2, <3>3, StoredStays DEF Earlier
      <3> QED BY <1>1, <2>1, <2>5, <3>2, <3>4 DEF LinksOf, Onward
    <2>8. \A i \in 1 .. used : LinksOf(i)'
      <3> SUFFICES ASSUME NEW i \in 1 .. used, i # last PROVE LinksOf(i)'
        BY <2>7
      <3>1. items'[i] = items[i]
        BY <1>1, <2>3
      <3> QED BY <2>4, <3>1, LinksStay DEF LinksTyped
    <2>9. \A h \in OpenScopes : h # g => Untouched(h)
      <3> SUFFICES ASSUME NEW h \in OpenScopes, h # g PROVE Untouched(h)
        OBVIOUS
      <3>1. ScopeLinks(h) /\ Apart(h, g)
        BY DEF ScopesTyped
      <3>2. h # 0 => h \in 1 .. used /\ items'[h] = items[h]
        BY <1>1, <2>1, <2>3, <3>1 DEF ScopeLinks, Stored
      <3>3. scope[h].last # 0 => items'[scope[h].last] = items[scope[h].last]
        BY <1>1, <2>0, <2>3, <3>1 DEF ScopeLinks, Stored, Apart
      <3>4. /\ scope[h].implicit.named # 0 =>
                  items'[scope[h].implicit.named] = items[scope[h].implicit.named]
            /\ scope[h].implicit.last_pair # 0 =>
                  items'[scope[h].implicit.last_pair] = items[scope[h].implicit.last_pair]
        BY <1>1, <2>1, <2>3, <3>1 DEF ScopeLinks, Stored
      <3>5. h = 0 => cmds_id' = cmds_id
        BY DEF RootAfter
      <3> QED BY <3>2, <3>3, <3>4, <3>5 DEF Untouched
    <2>10. Appended(g, c).first = scope[g].first
      BY <1>1, <1>4 DEF Appended, Scopes
    <2>11. /\ g # 0 => g \in 1 .. used /\ items'[g] = items[g]
           /\ cmds_id' = cmds_id
      BY <1>1, <1>2, <1>4, <2>1, <2>3 DEF ScopeLinks, Stored, RootAfter
    <2> QED BY <1>1, <1>2, <2>1, <2>3, <2>4, <2>6, <2>8, <2>9, <2>10, <2>11 DEF ScopeLinks
  <1>5. CASE scope[g].first = 0 /\ g # 0
    <2>1. /\ g \in 1 .. used /\ items[g].kind = "Group" /\ items[g] \in GroupItems
      BY <1>1, <1>2, <1>5, ItemKinds DEF ScopeLinks, Stored, TypeOK
    <2>2. items' = [stored EXCEPT ![g].cmds = c]
      BY <1>5 DEF AppendNode
    <2>3. /\ items'[g] = [items[g] EXCEPT !.cmds = c]
          /\ items'[g] \in GroupItems
          /\ \A i \in ItemIds : i # g /\ i # c => items'[i] = its[i]
          /\ items'[c] = CmdsItem(command)
          /\ items' \in [ItemIds -> Item]
      <3>0. g # c /\ g \in ItemIds
        BY <1>1, <2>1
      <3>1. stored[g] = items[g]
        BY <2>1, <3>0
      <3>2. [items[g] EXCEPT !.cmds = c] \in GroupItems
        BY <2>1, ItemChanged
      <3>3. [items[g] EXCEPT !.cmds = c] \in Item
        BY <3>2 DEF Item
      <3> QED BY <1>1, <1>3, <2>2, <3>0, <3>1, <3>2, <3>3
    <2>4. HeapGrows
      BY <1>1, <2>1, <2>3 DEF HeapGrows, GroupItems
    <2>5. Stored(c, {"Cmds"})' /\ Stored(command, CommandKinds)'
      BY <1>1, <2>1, <2>3 DEF Stored, CmdsItem
    <2>6. LinksOf(c)'
      BY <1>1, <2>3, <2>5 DEF LinksOf, CmdsItem, Onward, Earlier
    <2>7. LinksOf(g)'
      <3>1. items'[g].kind = "Group" /\ items'[g].cmds = c
        BY <2>1, <2>3 DEF GroupItems
      <3> QED BY <1>1, <2>1, <2>5, <3>1 DEF LinksOf, Onward
    <2>8. \A i \in 1 .. used : LinksOf(i)'
      BY <1>1, <2>3, <2>4, <2>7, LinksStay DEF LinksTyped
    <2>9. \A h \in OpenScopes : h # g => Untouched(h)
      <3> SUFFICES ASSUME NEW h \in OpenScopes, h # g PROVE Untouched(h)
        OBVIOUS
      <3>1. ScopeLinks(h)
        BY DEF ScopesTyped
      <3>2. h # 0 => h \in 1 .. used /\ items'[h] = items[h]
        BY <1>1, <2>1, <2>3, <3>1 DEF ScopeLinks, Stored
      <3>3. scope[h].last # 0 => items'[scope[h].last] = items[scope[h].last]
        BY <1>1, <2>1, <2>3, <3>1 DEF ScopeLinks, Stored
      <3>4. /\ scope[h].implicit.named # 0 =>
                  items'[scope[h].implicit.named] = items[scope[h].implicit.named]
            /\ scope[h].implicit.last_pair # 0 =>
                  items'[scope[h].implicit.last_pair] = items[scope[h].implicit.last_pair]
        BY <1>1, <2>1, <2>3, <3>1 DEF ScopeLinks, Stored
      <3>5. h = 0 => cmds_id' = cmds_id
        BY DEF RootAfter
      <3> QED BY <3>2, <3>3, <3>4, <3>5 DEF Untouched
    <2>10. Appended(g, c).first = c /\ items'[g].cmds = c
      BY <1>1, <1>5, <2>1, <2>3 DEF Appended, Scopes, GroupItems
    <2> QED BY <1>1, <1>5, <2>1, <2>3, <2>4, <2>6, <2>8, <2>9, <2>10
  <1>6. CASE scope[g].first = 0 /\ g = 0
    <2>1. items' = stored /\ cmds_id' = c
      BY <1>6 DEF AppendNode, RootAfter
    <2>2. /\ \A i \in ItemIds : i # c => items'[i] = its[i]
          /\ items'[c] = CmdsItem(command)
          /\ items' \in [ItemIds -> Item]
      BY <1>1, <1>3, <2>1
    <2>3. HeapGrows
      BY <1>1, <2>2 DEF HeapGrows
    <2>4. Stored(c, {"Cmds"})' /\ Stored(command, CommandKinds)'
      BY <1>1, <2>2 DEF Stored, CmdsItem
    <2>5. LinksOf(c)'
      BY <1>1, <2>2, <2>4 DEF LinksOf, CmdsItem, Onward, Earlier
    <2>6. \A i \in 1 .. used : items'[i] = items[i] /\ LinksOf(i)'
      BY <1>1, <2>2, <2>3, LinksStay DEF LinksTyped
    <2>7. \A h \in OpenScopes : h # g => Untouched(h)
      BY <1>1, <1>6, <2>6 DEF ScopesTyped, ScopeLinks, Stored, Untouched
    <2>8. Appended(g, c).first = c
      BY <1>1, <1>6 DEF Appended, Scopes
    <2> QED BY <1>1, <1>6, <2>1, <2>2, <2>3, <2>5, <2>6, <2>7, <2>8
  <1> QED BY <1>4, <1>5, <1>6
-----------------------------------------------------------------------------
(* What is left to show of a step that appends a command, of one that      *)
(* appends none, and of both.                                              *)

\* Scope g now ends in node c and has imp as its open Named command: none,
\* or a new one.  The other scopes are as before, or new.
Extending(g, c, imp) ==
  /\ imp \in ImplicitNamed
  /\ scope'[g] = [Appended(g, c) EXCEPT !.implicit = imp]
  /\ \/ imp = NoImplicit
     \/ /\ imp.named > used /\ Stored(imp.named, {"Named"})'
        /\ items'[imp.named].mask = imp.mask
        /\ items'[imp.named].pairs = 0 <=> imp.last_pair = 0
        /\ imp.last_pair # 0 => /\ imp.last_pair > used
                                /\ Stored(imp.last_pair, {"Pairs"})'
                                /\ items'[imp.last_pair].next = 0
  /\ \A h \in OpenScopes' :
       \/ h = g
       \/ h \in OpenScopes /\ scope'[h] = scope[h]
       \/ Blank(scope'[h]) /\ ScopeLinks(h)'

NewLinked(c) == \A i \in ItemIds : used < i /\ i <= used' /\ i # c => LinksOf(i)'

\* A call that appends one command node, behind new items with good links, keeps IInv.
LEMMA AppendInv ==
  ASSUME IInv, TypeOK', NEW g \in OpenScopes,
         NEW its, NEW command, NEW c, NEW imp,
         Appending(g, its, command, c), Extending(g, c, imp), NewLinked(c)
  PROVE  IInv'
  <1>0. /\ c \in OptId /\ command \in OptId /\ used' \in OptId
        /\ used < command /\ command < c /\ c <= used'
    BY DEF Appending
  <1>a. imp \in ImplicitNamed
    BY DEF Extending
  <1> USE <1>0, <1>a
  <1>1. /\ scope[g] \in Scopes /\ used \in Nat /\ used' \in Nat /\ c \in Nat /\ command \in Nat /\ used' \in OptId
        /\ 1 .. used \subseteq ItemIds /\ 1 .. used' \subseteq ItemIds /\ c \in ItemIds
    BY OpenIsScope, ItemSpaceAssumption DEF IInv, TypeOK, OptId, ItemIds
  <1>2. /\ HeapGrows
        /\ \A i \in 1 .. used : LinksOf(i)'
        /\ LinksOf(c)'
        /\ items'[c] = CmdsItem(command)
        /\ \A h \in OpenScopes : h # g => Untouched(h)
        /\ g # 0 => items'[g].cmds = Appended(g, c).first
        /\ g = 0 => cmds_id' = Appended(g, c).first
    BY <1>1, AppendKeeps DEF IInv
  <1>3. LinksTyped'
    BY <1>1, <1>2 DEF LinksTyped, NewLinked
  <1>4. /\ scope'[g].cond = scope[g].cond /\ scope'[g].kind = scope[g].kind
        /\ scope'[g].first = Appended(g, c).first /\ scope'[g].first # 0
        /\ scope'[g].last = c /\ c # 0
        /\ scope'[g].implicit = imp
    BY <1>1 DEF Appended, Scopes, ItemIds, Extending
  <1>5. ScopeLinks(g)'
    <2>1. ScopeLinks(g)
      BY DEF IInv, ScopesTyped
    <2>2. g # 0 => Stored(g, {"Group"})' /\ Stored(scope[g].cond, {"Conditional"})'
      BY <1>2, <1>4, <2>1, StoredStays DEF ScopeLinks, IInv
    <2>3. Stored(c, {"Cmds"})' /\ items'[c].next = 0
      BY <1>1, <1>2 DEF Stored, CmdsItem, ItemIds
    <2>4. /\ imp.named = 0 => imp.last_pair = 0
          /\ imp.named # 0 => imp # NoImplicit
      BY <1>1 DEF NoImplicit, Extending
    <2>5. g # 0 => scope'[g].first = items'[g].cmds
      BY <1>2, <1>4
    <2>6. g = 0 => scope'[g].first = cmds_id'
      BY <1>2, <1>4
    <2>7. imp.named # 0 =>
            /\ Stored(imp.named, {"Named"})'
            /\ items'[imp.named].mask = imp.mask
            /\ items'[imp.named].pairs = 0 <=> imp.last_pair = 0
            /\ imp.last_pair # 0 => /\ Stored(imp.last_pair, {"Pairs"})'
                                    /\ items'[imp.last_pair].next = 0
      BY <2>4 DEF Extending
    <2>8. scope'[g].first = 0 <=> scope'[g].last = 0
      BY <1>4
    <2> QED BY <1>4, <2>1, <2>2, <2>3, <2>4, <2>5, <2>6, <2>7, <2>8 DEF ScopeLinks, Stored
  <1>6. \A h \in OpenScopes' : ScopeLinks(h)'
    <2> SUFFICES ASSUME NEW h \in OpenScopes', h # g, h \in OpenScopes, scope'[h] = scope[h]
                 PROVE  ScopeLinks(h)'
      BY <1>5 DEF Extending
    <2>1. ScopeLinks(h) /\ Untouched(h)
      BY <1>2 DEF IInv, ScopesTyped
    <2> QED BY <1>2, <2>1, ScopeStays DEF IInv
  <1>7. KeepsOrRenews(g)
    <2>1. /\ imp.named = 0 \/ imp.named > used
          /\ imp.last_pair = 0 \/ imp.last_pair > used
      BY DEF NoImplicit, Extending
    <2>2. c > used
      BY <1>1
    <2> QED BY <1>4, <2>1, <2>2 DEF KeepsOrRenews
  <1>8. \A h, k \in OpenScopes' : h # k => Apart(h, k)'
    <2>1. \A h \in OpenScopes' : \/ Blank(scope'[h])
                                 \/ h # g /\ h \in OpenScopes /\ scope'[h] = scope[h]
                                 \/ h = g /\ KeepsOrRenews(g)
      BY <1>7 DEF Extending
    <2> QED BY <2>1, ApartStays DEF IInv
  <1> QED BY <1>3, <1>6, <1>8 DEF IInv, ScopesTyped

\* No list gets longer: scope g at most forgets its open Named command.
Quiet(g) ==
  /\ HeapGrows
  /\ \A h \in OpenScopes' :
       \/ Blank(scope'[h]) /\ ScopeLinks(h)'
       \/ /\ h \in OpenScopes /\ Untouched(h)
          /\ scope'[h] = scope[h] \/ (h = g /\ scope'[h] = Cut(scope[h]))
  /\ \A i \in ItemIds : i <= used' => (i <= used /\ items'[i] = items[i]) \/ LinksOf(i)'

\* A call that appends no command node and sets no last node or pair keeps IInv.
LEMMA QuietInv ==
  ASSUME IInv, TypeOK', NEW g \in OpenScopes, Quiet(g)
  PROVE  IInv'
  <1> USE DEF Quiet
  <1>1. LinksTyped'
    <2> SUFFICES ASSUME NEW i \in 1 .. used' PROVE LinksOf(i)'
      BY DEF LinksTyped
    <2>1. used \in Nat /\ used' \in Nat /\ i \in ItemIds /\ i \in Nat
      BY ItemSpaceAssumption DEF HeapGrows, IInv, TypeOK, OptId, ItemIds
    <2>2. CASE i <= used /\ items'[i] = items[i]
      BY <2>1, <2>2, LinksStay DEF IInv, LinksTyped, ItemIds
    <2> QED BY <2>1, <2>2
  <1>2. \A h \in OpenScopes' : ScopeLinks(h)'
    <2> SUFFICES ASSUME NEW h \in OpenScopes', h \in OpenScopes, Untouched(h),
                        scope'[h] = scope[h] \/ scope'[h] = Cut(scope[h])
                 PROVE  ScopeLinks(h)'
      OBVIOUS
    <2> QED BY ScopeStays DEF IInv, ScopesTyped
  <1>3. \A h, k \in OpenScopes' : h # k => Apart(h, k)'
    <2>1. \A h \in OpenScopes' : \/ Blank(scope'[h])
                                 \/ h # g /\ h \in OpenScopes /\ scope'[h] = scope[h]
                                 \/ h = g /\ KeepsOrRenews(g)
      <3>1. scope[g] \in Scopes
        BY OpenIsScope DEF IInv
      <3>2. Cut(scope[g]).last = scope[g].last /\ Cut(scope[g]).implicit = NoImplicit
        BY <3>1 DEF Cut, Scopes
      <3> QED BY <3>2 DEF KeepsOrRenews, NoImplicit
    <2> QED BY <2>1, ApartStays DEF IInv
  <1> QED BY <1>1, <1>2, <1>3 DEF IInv, ScopesTyped
-----------------------------------------------------------------------------
(* One lemma per operation: it keeps the invariant.                        *)

\* Item ids are natural numbers; 0 and the heap's slots are ids.
LEMMA Ids == OptId \subseteq Nat /\ ItemIds \subseteq OptId /\ 0 \in OptId
             /\ \A i \in OptId : i # 0 => i \in ItemIds
  BY ItemSpaceAssumption DEF OptId, ItemIds

\* Named with a mask that is not the open one, or first in its scope, keeps IInv.
LEMMA StartNamedKeeps ==
  ASSUME IInv, NEW g \in OpenScopes, NEW mask \in Mask, NEW value \in Mask,
         NEW name \in Names, StartNamed(g, mask, value, name)
  PROVE  IInv'
  <1>0. PICK n, c, p : n = used + 1 /\ c = used + 2 /\ p = used + 3
    OBVIOUS
  <1>a. PICK its : its = [items EXCEPT ![n] = [NamedItem(mask) EXCEPT !.pairs = p],
                                       ![p] = PairsItem(value, name)]
    OBVIOUS
  <1>b. PICK imp : imp = [named |-> n, last_pair |-> p, mask |-> mask]
    OBVIOUS
  <1>1. /\ used \in Nat /\ p <= ItemSpace /\ used' = p
        /\ n \in ItemIds /\ c \in ItemIds /\ p \in ItemIds
        /\ g \in OptId /\ scope[g] \in Scopes
    BY <1>0, Ids, OpenIsScope, ItemSpaceAssumption DEF IInv, TypeOK, StartNamed, Room, OptId, ItemIds
  <1>2. /\ items' = AppendNode(its, g, n, c)
        /\ cmds_id' = RootAfter(g, c)
        /\ scope' = [scope EXCEPT ![g] = [Appended(g, c) EXCEPT !.implicit = imp]]
        /\ chars' = CharsAfter(name) /\ thrown' = thrown
    BY <1>0, <1>a, <1>b DEF StartNamed
  <1>3. /\ its \in [ItemIds -> Item]
        /\ \A i \in 1 .. used : its[i] = items[i]
        /\ its[n] = [NamedItem(mask) EXCEPT !.pairs = p] /\ its[n] \in NamedItems
        /\ its[p] = PairsItem(value, name) /\ its[p] \in PairsItems
    <2>1. [NamedItem(mask) EXCEPT !.pairs = p] \in NamedItems /\ PairsItem(value, name) \in PairsItems
      BY <1>1, Ids, ItemMade, ItemChanged
    <2>2. [NamedItem(mask) EXCEPT !.pairs = p] \in Item /\ PairsItem(value, name) \in Item
      BY <2>1 DEF Item
    <2>3. n # p /\ \A i \in 1 .. used : i # n /\ i # p /\ i \in ItemIds
      BY <1>0, <1>1, ItemSpaceAssumption DEF ItemIds
    <2>4. items \in [ItemIds -> Item]
      BY DEF IInv, TypeOK
    <2> QED BY <1>1, <1>a, <2>1, <2>2, <2>3, <2>4
  <1>4. Appending(g, its, n, c)
    <2>1. /\ n \in OptId /\ c \in OptId /\ used' \in OptId
          /\ used < n /\ n < c /\ c <= used'
      BY <1>0, <1>1, Ids
    <2>2. its[n].kind \in CommandKinds
      BY <1>3 DEF NamedItems, CommandKinds
    <2> QED BY <1>2, <1>3, <2>1, <2>2 DEF Appending
  <1>5. /\ items' \in [ItemIds -> Item]
        /\ items'[n] = its[n] /\ items'[p] = its[p]
    BY <1>0, <1>1, <1>4, AppendKeeps
  <1>6. imp \in ImplicitNamed
    BY <1>1, <1>b, Ids DEF ImplicitNamed
  <1>7. TypeOK'
    <2>1. chars' \in 0 .. StringSpace
      BY <1>2, CharsBounded DEF IInv, TypeOK, GroupNames
    <2>2. cmds_id' \in OptId
      BY <1>1, <1>2, Ids DEF RootAfter, IInv, TypeOK
    <2>3. scope' \in [OptId -> Scopes \union {Closed}]
      BY <1>1, <1>2, <1>6, Ids, ScopeChanged DEF IInv, TypeOK
    <2> QED BY <1>1, <1>2, <1>5, <2>1, <2>2, <2>3, Ids DEF IInv, TypeOK
  <1>8. /\ Stored(p, {"Pairs"})' /\ items'[p].next = 0 /\ items'[p].kind = "Pairs"
        /\ Stored(n, {"Named"})' /\ items'[n].mask = mask /\ items'[n].pairs = p
        /\ items'[n].kind = "Named"
    BY <1>0, <1>1, <1>3, <1>5 DEF Stored, NamedItems, PairsItem, NamedItem
  <1>9. NewLinked(c)
    <2>1. LinksOf(n)' /\ LinksOf(p)'
      BY <1>0, <1>1, <1>8 DEF LinksOf, Onward
    <2> QED BY <1>0, <1>1, <2>1 DEF ItemIds, NewLinked
  <1>10. Extending(g, c, imp)
    <2>1. /\ scope'[g] = [Appended(g, c) EXCEPT !.implicit = imp]
          /\ \A h \in OpenScopes' : h = g \/ (h \in OpenScopes /\ scope'[h] = scope[h])
      BY <1>1, <1>2 DEF OpenScopes, IInv, TypeOK
    <2>2. /\ imp.named = n /\ imp.last_pair = p /\ imp.mask = mask
          /\ n > used /\ p > used /\ p # 0
      BY <1>0, <1>1, <1>b
    <2>3. /\ Stored(imp.named, {"Named"})' /\ items'[imp.named].mask = imp.mask
          /\ items'[imp.named].pairs # 0 /\ imp.last_pair # 0
          /\ Stored(imp.last_pair, {"Pairs"})' /\ items'[imp.last_pair].next = 0
      BY <1>8, <2>2 DEF Stored
    <2>4. imp.named > used /\ imp.last_pair > used
      BY <2>2
    <2> QED BY <1>6, <2>1, <2>3, <2>4 DEF Extending
  <1> QED BY <1>4, <1>7, <1>9, <1>10, AppendInv

\* Named that throws after its node was linked, before its pair was, keeps IInv.
LEMMA FirstPairThrowsKeeps ==
  ASSUME IInv, NEW g \in OpenScopes, NEW mask \in Mask, NEW value \in Mask,
         NEW name \in Names, FirstPairThrows(g, mask, value, name)
  PROVE  IInv'
  <1>0. PICK n, c : n = used + 1 /\ c = used + 2
    OBVIOUS
  <1>a. PICK its : its = [items EXCEPT ![n] = NamedItem(mask)]
    OBVIOUS
  <1>b. PICK imp : imp = [named |-> n, last_pair |-> 0, mask |-> mask]
    OBVIOUS
  <1>1. /\ used \in Nat /\ c <= ItemSpace /\ used' = c
        /\ n \in ItemIds /\ c \in ItemIds
        /\ g \in OptId /\ scope[g] \in Scopes
    BY <1>0, Ids, OpenIsScope, ItemSpaceAssumption
       DEF IInv, TypeOK, FirstPairThrows, Room, OptId, ItemIds
  <1>2. /\ items' = AppendNode(its, g, n, c)
        /\ cmds_id' = RootAfter(g, c)
        /\ scope' = [scope EXCEPT ![g] = [Appended(g, c) EXCEPT !.implicit = imp]]
        /\ chars' = CharsAfter(name) /\ thrown' = TRUE
    BY <1>0, <1>a, <1>b DEF FirstPairThrows
  <1>3. /\ its \in [ItemIds -> Item]
        /\ \A i \in 1 .. used : its[i] = items[i]
        /\ its[n] = NamedItem(mask) /\ its[n] \in NamedItems
    <2>1. NamedItem(mask) \in NamedItems /\ NamedItem(mask) \in Item
      BY ItemMade DEF Item
    <2>2. \A i \in 1 .. used : i # n /\ i \in ItemIds
      BY <1>0, <1>1, ItemSpaceAssumption DEF ItemIds
    <2>3. items \in [ItemIds -> Item]
      BY DEF IInv, TypeOK
    <2> QED BY <1>1, <1>a, <2>1, <2>2, <2>3
  <1>4. Appending(g, its, n, c)
    <2>1. /\ n \in OptId /\ c \in OptId /\ used' \in OptId
          /\ used < n /\ n < c /\ c <= used'
      BY <1>0, <1>1, Ids
    <2>2. its[n].kind \in CommandKinds
      BY <1>3 DEF NamedItems, CommandKinds
    <2> QED BY <1>2, <1>3, <2>1, <2>2 DEF Appending
  <1>5. items' \in [ItemIds -> Item] /\ items'[n] = its[n]
    BY <1>0, <1>1, <1>4, AppendKeeps
  <1>6. imp \in ImplicitNamed
    BY <1>1, <1>b, Ids DEF ImplicitNamed
  <1>7. TypeOK'
    <2>1. chars' \in 0 .. StringSpace
      BY <1>2, CharsBounded DEF IInv, TypeOK, GroupNames
    <2>2. cmds_id' \in OptId
      BY <1>1, <1>2, Ids DEF RootAfter, IInv, TypeOK
    <2>3. scope' \in [OptId -> Scopes \union {Closed}]
      BY <1>1, <1>2, <1>6, Ids, ScopeChanged DEF IInv, TypeOK
    <2> QED BY <1>1, <1>2, <1>5, <2>1, <2>2, <2>3, Ids DEF IInv, TypeOK
  <1>8. /\ Stored(n, {"Named"})' /\ items'[n].mask = mask /\ items'[n].pairs = 0
        /\ items'[n].kind = "Named"
    BY <1>0, <1>1, <1>3, <1>5 DEF Stored, NamedItems, NamedItem
  <1>9. NewLinked(c)
    <2>1. LinksOf(n)'
      BY <1>0, <1>1, <1>8 DEF LinksOf, Onward
    <2> QED BY <1>0, <1>1, <2>1 DEF ItemIds, NewLinked
  <1>10. Extending(g, c, imp)
    <2>1. /\ scope'[g] = [Appended(g, c) EXCEPT !.implicit = imp]
          /\ \A h \in OpenScopes' : h = g \/ (h \in OpenScopes /\ scope'[h] = scope[h])
      BY <1>1, <1>2 DEF OpenScopes, IInv, TypeOK
    <2>2. /\ imp.named = n /\ imp.last_pair = 0 /\ imp.mask = mask /\ n > used
      BY <1>0, <1>1, <1>b
    <2>3. /\ Stored(imp.named, {"Named"})' /\ items'[imp.named].mask = imp.mask
          /\ items'[imp.named].pairs = 0 /\ imp.last_pair = 0 /\ imp.named > used
      BY <1>8, <2>2 DEF Stored
    <2> QED BY <1>6, <2>1, <2>3 DEF Extending
  <1> QED BY <1>4, <1>7, <1>9, <1>10, AppendInv

\* clear_implicit_named() leaves a valid state of the open Named.
LEMMA NoImplicitIsImplicit == NoImplicit \in ImplicitNamed
  BY Ids DEF NoImplicit, ImplicitNamed, Mask

\* Numeric keeps IInv.
LEMMA AddNumericKeeps ==
  ASSUME IInv, NEW g \in OpenScopes, NEW mask \in Mask, NEW name \in Names,
         NEW format \in Formats, AddNumeric(g, mask, name, format)
  PROVE  IInv'
  <1>0. PICK n, c : n = used + 1 /\ c = used + 2
    OBVIOUS
  <1>a. PICK its : its = [items EXCEPT ![n] = NumericItem(mask, format, name)]
    OBVIOUS
  <1>1. /\ used \in Nat /\ c <= ItemSpace /\ used' = c
        /\ n \in ItemIds /\ c \in ItemIds
        /\ g \in OptId /\ scope[g] \in Scopes
    BY <1>0, Ids, OpenIsScope, ItemSpaceAssumption
       DEF IInv, TypeOK, AddNumeric, Room, OptId, ItemIds
  <1>2. /\ items' = AppendNode(its, g, n, c)
        /\ cmds_id' = RootAfter(g, c)
        /\ scope' = [scope EXCEPT ![g] = [Appended(g, c) EXCEPT !.implicit = NoImplicit]]
        /\ chars' = CharsAfter(name) /\ thrown' = thrown
    BY <1>0, <1>a DEF AddNumeric, Cut
  <1>3. /\ its \in [ItemIds -> Item]
        /\ \A i \in 1 .. used : its[i] = items[i]
        /\ its[n] \in NumericItems
    <2>1. NumericItem(mask, format, name) \in NumericItems /\ NumericItem(mask, format, name) \in Item
      BY ItemMade DEF Item
    <2>2. \A i \in 1 .. used : i # n /\ i \in ItemIds
      BY <1>0, <1>1, ItemSpaceAssumption DEF ItemIds
    <2>3. items \in [ItemIds -> Item]
      BY DEF IInv, TypeOK
    <2> QED BY <1>1, <1>a, <2>1, <2>2, <2>3
  <1>4. Appending(g, its, n, c)
    <2>1. /\ n \in OptId /\ c \in OptId /\ used' \in OptId
          /\ used < n /\ n < c /\ c <= used'
      BY <1>0, <1>1, Ids
    <2>2. its[n].kind \in CommandKinds
      BY <1>3 DEF NumericItems, CommandKinds
    <2> QED BY <1>2, <1>3, <2>1, <2>2 DEF Appending
  <1>5. items' \in [ItemIds -> Item] /\ items'[n] = its[n]
    BY <1>0, <1>1, <1>4, AppendKeeps
  <1>6. TypeOK'
    <2>1. chars' \in 0 .. StringSpace
      BY <1>2, CharsBounded DEF IInv, TypeOK, GroupNames
    <2>2. cmds_id' \in OptId
      BY <1>1, <1>2, Ids DEF RootAfter, IInv, TypeOK
    <2>3. scope' \in [OptId -> Scopes \union {Closed}]
      BY <1>1, <1>2, Ids, ScopeChanged, NoImplicitIsImplicit DEF IInv, TypeOK
    <2> QED BY <1>1, <1>2, <1>5, <2>1, <2>2, <2>3, Ids DEF IInv, TypeOK
  <1>7. NewLinked(c)
    <2>1. LinksOf(n)'
      BY <1>3, <1>5 DEF LinksOf, NumericItems
    <2> QED BY <1>0, <1>1, <2>1 DEF ItemIds, NewLinked
  <1>8. Extending(g, c, NoImplicit)
    <2>1. /\ scope'[g] = [Appended(g, c) EXCEPT !.implicit = NoImplicit]
          /\ \A h \in OpenScopes' : h = g \/ (h \in OpenScopes /\ scope'[h] = scope[h])
      BY <1>1, <1>2 DEF OpenScopes, IInv, TypeOK
    <2> QED BY <2>1, NoImplicitIsImplicit DEF Extending
  <1> QED BY <1>4, <1>6, <1>7, <1>8, AppendInv

\* The Conditional that If and IfNot store leads to its Group or to none.
LEMMA FirstBranchMade ==
  ASSUME NEW selector \in Mask, NEW mask \in Mask, NEW when \in BOOLEAN, NEW grp \in OptId
  PROVE  /\ FirstBranch(selector, mask, when, grp) \in CondItems
         /\ FirstBranch(selector, mask, when, grp).true_group \in {0, grp}
         /\ FirstBranch(selector, mask, when, grp).false_group \in {0, grp}
         /\ \/ FirstBranch(selector, mask, when, grp).true_group = 0
            \/ FirstBranch(selector, mask, when, grp).false_group = 0
  <1>1. CASE when
    BY <1>1, Ids, ItemMade DEF FirstBranch, CondItem
  <1>2. CASE ~when
    BY <1>2, Ids, ItemMade DEF FirstBranch, CondItem
  <1> QED BY <1>1, <1>2

\* If and IfNot keep IInv.
LEMMA OpenIfKeeps ==
  ASSUME IInv, NEW g \in OpenScopes, NEW selector \in Mask, NEW mask \in Mask,
         NEW when \in BOOLEAN, NEW label \in GroupNames,
         OpenIf(g, selector, mask, when, label)
  PROVE  IInv'
  <1>0. PICK grp, cond, c : grp = used + 1 /\ cond = used + 2 /\ c = used + 3
    OBVIOUS
  <1>a. PICK its : its = [items EXCEPT ![grp] = GroupItem(label),
                                       ![cond] = FirstBranch(selector, mask, when, grp)]
    OBVIOUS
  <1>1. /\ used \in Nat /\ c <= ItemSpace /\ used' = c
        /\ grp \in ItemIds /\ cond \in ItemIds /\ c \in ItemIds /\ grp # 0
        /\ g \in OptId /\ scope[g] \in Scopes /\ g <= used /\ g # grp
    BY <1>0, Ids, OpenIsScope, ScopeIds, ItemSpaceAssumption
       DEF IInv, TypeOK, OpenIf, Room, OptId, ItemIds
  <1>2. /\ items' = AppendNode(its, g, cond, c)
        /\ cmds_id' = RootAfter(g, c)
        /\ scope' = [scope EXCEPT ![g] = [Appended(g, c) EXCEPT !.implicit = NoImplicit],
                                  ![grp] = NewScope("If", cond, mask)]
        /\ chars' = CharsAfter(label) /\ thrown' = thrown
    BY <1>0, <1>a DEF OpenIf, Cut
  <1>3. /\ its \in [ItemIds -> Item]
        /\ \A i \in 1 .. used : its[i] = items[i]
        /\ its[grp] = GroupItem(label)
        /\ its[cond] \in CondItems
        /\ its[cond].true_group \in {0, grp} /\ its[cond].false_group \in {0, grp}
    <2>1. GroupItem(label) \in Item /\ FirstBranch(selector, mask, when, grp) \in Item
      BY <1>1, Ids, ItemMade, FirstBranchMade DEF Item
    <2>2. grp # cond /\ \A i \in 1 .. used : i # grp /\ i # cond /\ i \in ItemIds
      BY <1>0, <1>1, ItemSpaceAssumption DEF ItemIds
    <2>3. items \in [ItemIds -> Item]
      BY DEF IInv, TypeOK
    <2>4. /\ its[cond] = FirstBranch(selector, mask, when, grp) /\ its[grp] = GroupItem(label)
          /\ its \in [ItemIds -> Item] /\ \A i \in 1 .. used : its[i] = items[i]
      BY <1>1, <1>a, <2>1, <2>2, <2>3
    <2>5. /\ FirstBranch(selector, mask, when, grp) \in CondItems
          /\ FirstBranch(selector, mask, when, grp).true_group \in {0, grp}
          /\ FirstBranch(selector, mask, when, grp).false_group \in {0, grp}
      BY <1>1, Ids, FirstBranchMade
    <2> QED BY <2>4, <2>5
  <1>4. Appending(g, its, cond, c)
    <2>1. /\ cond \in OptId /\ c \in OptId /\ used' \in OptId
          /\ used < cond /\ cond < c /\ c <= used'
      BY <1>0, <1>1, Ids
    <2>2. its[cond].kind \in CommandKinds
      BY <1>3 DEF CondItems, CommandKinds
    <2> QED BY <1>2, <1>3, <2>1, <2>2 DEF Appending
  <1>5. items' \in [ItemIds -> Item] /\ items'[grp] = its[grp] /\ items'[cond] = its[cond]
    BY <1>0, <1>1, <1>4, AppendKeeps
  <1>6. NewScope("If", cond, mask) \in Scopes
    BY <1>1, Ids, ScopeMade
  <1>7. TypeOK'
    <2>1. chars' \in 0 .. StringSpace
      BY <1>2, CharsBounded DEF IInv, TypeOK
    <2>2. cmds_id' \in OptId
      BY <1>1, <1>2, Ids DEF RootAfter, IInv, TypeOK
    <2>3. scope' \in [OptId -> Scopes \union {Closed}]
      BY <1>1, <1>2, <1>6, Ids, ScopeChanged, NoImplicitIsImplicit DEF IInv, TypeOK
    <2> QED BY <1>1, <1>2, <1>5, <2>1, <2>2, <2>3, Ids DEF IInv, TypeOK
  <1>8. /\ Stored(grp, {"Group"})' /\ items'[grp].cmds = 0 /\ items'[grp].kind = "Group"
        /\ Stored(cond, {"Conditional"})' /\ items'[cond].kind = "Conditional"
        /\ items'[cond].true_group \in {0, grp} /\ items'[cond].false_group \in {0, grp}
    BY <1>0, <1>1, <1>3, <1>5 DEF Stored, CondItems, GroupItem
  <1>9. NewLinked(c)
    <2>1. LinksOf(grp)'
      BY <1>8 DEF LinksOf, Onward
    <2>2. LinksOf(cond)'
      BY <1>8 DEF LinksOf, Stored
    <2> QED BY <1>0, <1>1, <2>1, <2>2 DEF ItemIds, NewLinked
  <1>10. Extending(g, c, NoImplicit)
    <2>1. /\ scope'[g] = [Appended(g, c) EXCEPT !.implicit = NoImplicit]
          /\ scope'[grp] = NewScope("If", cond, mask)
          /\ \A h \in OpenScopes' : h = g \/ h = grp \/ (h \in OpenScopes /\ scope'[h] = scope[h])
      BY <1>1, <1>2, Ids DEF OpenScopes, IInv, TypeOK
    <2>2. Blank(scope'[grp]) /\ ScopeLinks(grp)'
      BY <1>1, <1>8, <2>1 DEF Blank, NewScope, ScopeLinks, Stored, NoImplicit
    <2> QED BY <2>1, <2>2, NoImplicitIsImplicit DEF Extending
  <1> QED BY <1>4, <1>7, <1>9, <1>10, AppendInv

\* The item that a further pair of scope g is linked from.
LEMMA LinkPairEffect ==
  ASSUME IInv, NEW g \in OpenScopes, scope[g].implicit.named # 0, used + 1 \in ItemIds,
         NEW pair \in PairsItems,
         items' = LinkPair([items EXCEPT ![used + 1] = pair], g, used + 1)
  PROVE  /\ items' \in [ItemIds -> Item]
         /\ items'[used + 1] = pair
         /\ \E o \in 1 .. used :
              /\ \A i \in 1 .. used : i # o => items'[i] = items[i]
              /\ \/ /\ o = scope[g].implicit.named /\ items[o].pairs = 0
                    /\ items[o] \in NamedItems
                    /\ items'[o] = [items[o] EXCEPT !.pairs = used + 1]
                 \/ /\ o = scope[g].implicit.last_pair /\ items[o].next = 0
                    /\ items[o] \in PairsItems
                    /\ items'[o] = [items[o] EXCEPT !.next = used + 1]
                    /\ items[scope[g].implicit.named].pairs # 0
  <1>0. PICK p : p = used + 1
    OBVIOUS
  <1>1. /\ used \in Nat /\ p \in ItemIds /\ p \in OptId /\ 1 .. used \subseteq ItemIds
        /\ items \in [ItemIds -> Item] /\ pair \in Item /\ p \notin 1 .. used
    BY <1>0, Ids, ItemSpaceAssumption DEF IInv, TypeOK, OptId, ItemIds, Item
  <1>2. PICK its : its = [items EXCEPT ![p] = pair]
    OBVIOUS
  <1>3. its \in [ItemIds -> Item] /\ its[p] = pair /\ \A i \in 1 .. used : its[i] = items[i]
    BY <1>1, <1>2
  <1>4. PICK n : n = scope[g].implicit.named
    OBVIOUS
  <1>5. PICK l : l = scope[g].implicit.last_pair
    OBVIOUS
  <1>6. /\ n \in 1 .. used /\ items[n].kind = "Named"
        /\ items[n].pairs = 0 <=> l = 0
        /\ l # 0 => l \in 1 .. used /\ items[l].kind = "Pairs" /\ items[l].next = 0
    BY <1>4, <1>5 DEF IInv, ScopesTyped, ScopeLinks, Stored
  <1>7. CASE items[n].pairs = 0
    <2>1. items' = [its EXCEPT ![n].pairs = p]
      BY <1>0, <1>2, <1>3, <1>4, <1>6, <1>7 DEF LinkPair
    <2>2. items[n] \in NamedItems
      BY <1>1, <1>6, ItemKinds
    <2>3. [items[n] EXCEPT !.pairs = p] \in Item
      BY <1>1, <2>2, ItemChanged DEF Item
    <2>4. /\ items' \in [ItemIds -> Item] /\ items'[p] = pair
          /\ items'[n] = [items[n] EXCEPT !.pairs = p]
          /\ \A i \in 1 .. used : i # n => items'[i] = items[i]
      <3>1. n \in ItemIds /\ n # p /\ its[n] = items[n]
        BY <1>1, <1>3, <1>6
      <3>2. items' = [its EXCEPT ![n] = [items[n] EXCEPT !.pairs = p]]
        BY <2>1, <3>1
      <3>3. \A i \in 1 .. used : i \in ItemIds /\ i # p
        BY <1>1
      <3> QED BY <1>3, <2>3, <3>1, <3>2, <3>3, <1>1
    <2> QED BY <1>0, <1>4, <1>6, <1>7, <2>2, <2>4
  <1>8. CASE items[n].pairs # 0
    <2>1. items' = [its EXCEPT ![l].next = p]
      BY <1>0, <1>2, <1>3, <1>4, <1>5, <1>6, <1>8 DEF LinkPair
    <2>2. items[l] \in PairsItems /\ l \in 1 .. used /\ items[l].next = 0
      BY <1>1, <1>6, <1>8, ItemKinds
    <2>3. [items[l] EXCEPT !.next = p] \in Item
      BY <1>1, <2>2, ItemChanged DEF Item
    <2>4. /\ items' \in [ItemIds -> Item] /\ items'[p] = pair
          /\ items'[l] = [items[l] EXCEPT !.next = p]
          /\ \A i \in 1 .. used : i # l => items'[i] = items[i]
      <3>1. l \in ItemIds /\ l # p /\ its[l] = items[l]
        BY <1>1, <1>3, <2>2
      <3>2. items' = [its EXCEPT ![l] = [items[l] EXCEPT !.next = p]]
        BY <2>1, <3>1
      <3>3. \A i \in 1 .. used : i \in ItemIds /\ i # p
        BY <1>1
      <3> QED BY <1>3, <2>3, <3>1, <3>2, <3>3, <1>1
    <2> QED BY <1>0, <1>4, <1>5, <1>8, <2>2, <2>4
  <1> QED BY <1>7, <1>8

\* A further pair for the Named that is open keeps IInv.
LEMMA ExtendNamedKeeps ==
  ASSUME IInv, NEW g \in OpenScopes, NEW mask \in Mask, NEW value \in Mask,
         NEW name \in Names, ExtendNamed(g, mask, value, name)
  PROVE  IInv'
  <1>0. PICK p : p = used + 1
    OBVIOUS
  <1>1. /\ used \in Nat /\ p <= ItemSpace /\ used' = p /\ p \in ItemIds /\ p \in OptId
        /\ g \in OptId /\ scope[g] \in Scopes /\ scope[g].implicit.named # 0
    BY <1>0, Ids, OpenIsScope, ItemSpaceAssumption
       DEF IInv, TypeOK, ExtendNamed, Reusable, Room, OptId, ItemIds
  <1>2. /\ items' = LinkPair([items EXCEPT ![p] = PairsItem(value, name)], g, p)
        /\ scope' = [scope EXCEPT ![g].implicit.last_pair = p]
        /\ chars' = CharsAfter(name) /\ cmds_id' = cmds_id /\ thrown' = thrown
    BY <1>0 DEF ExtendNamed
  <1>3. PairsItem(value, name) \in PairsItems
    BY ItemMade
  <1>4. /\ items' \in [ItemIds -> Item]
        /\ items'[p] = PairsItem(value, name)
        /\ \E o \in 1 .. used :
             /\ \A i \in 1 .. used : i # o => items'[i] = items[i]
             /\ \/ /\ o = scope[g].implicit.named /\ items[o].pairs = 0
                   /\ items[o] \in NamedItems
                   /\ items'[o] = [items[o] EXCEPT !.pairs = p]
                \/ /\ o = scope[g].implicit.last_pair /\ items[o].next = 0
                   /\ items[o] \in PairsItems
                   /\ items'[o] = [items[o] EXCEPT !.next = p]
                   /\ items[scope[g].implicit.named].pairs # 0
    BY <1>0, <1>1, <1>2, <1>3, LinkPairEffect
  <1>5. PICK o \in 1 .. used :
             /\ \A i \in 1 .. used : i # o => items'[i] = items[i]
             /\ \/ /\ o = scope[g].implicit.named /\ items[o].pairs = 0
                   /\ items[o] \in NamedItems
                   /\ items'[o] = [items[o] EXCEPT !.pairs = p]
                \/ /\ o = scope[g].implicit.last_pair /\ items[o].next = 0
                   /\ items[o] \in PairsItems
                   /\ items'[o] = [items[o] EXCEPT !.next = p]
                   /\ items[scope[g].implicit.named].pairs # 0
    BY <1>4
  <1>6. /\ scope[g].implicit \in ImplicitNamed
        /\ scope'[g] = [scope[g] EXCEPT !.implicit = [@ EXCEPT !.last_pair = p]]
        /\ [scope[g].implicit EXCEPT !.last_pair = p] \in ImplicitNamed
        /\ \A h \in OptId : h # g => scope'[h] = scope[h]
    BY <1>1, <1>2 DEF Scopes, ImplicitNamed, IInv, TypeOK
  <1>7. /\ scope'[g] \in Scopes /\ scope'[g].kind = scope[g].kind
        /\ scope'[g].cond = scope[g].cond
        /\ scope'[g].first = scope[g].first /\ scope'[g].last = scope[g].last
        /\ scope'[g].implicit.named = scope[g].implicit.named
        /\ scope'[g].implicit.mask = scope[g].implicit.mask
        /\ scope'[g].implicit.last_pair = p
    BY <1>1, <1>6 DEF Scopes, ImplicitNamed
  <1>8. TypeOK'
    <2>1. chars' \in 0 .. StringSpace
      BY <1>2, CharsBounded DEF IInv, TypeOK, GroupNames
    <2>2. scope' \in [OptId -> Scopes \union {Closed}]
      BY <1>1, <1>2, <1>7, <1>6 DEF IInv, TypeOK
    <2> QED BY <1>1, <1>2, <1>4, <2>1, <2>2 DEF IInv, TypeOK
  <1>9. HeapGrows
    BY <1>0, <1>1, <1>5 DEF HeapGrows, NamedItems, PairsItems
  <1>10. Stored(p, {"Pairs"})' /\ items'[p].next = 0 /\ items'[p].kind = "Pairs" /\ o < p
    BY <1>0, <1>1, <1>4, <1>5 DEF Stored, PairsItem
  <1>11. LinksTyped'
    <2>1. LinksOf(o)'
      BY <1>1, <1>5, <1>10 DEF LinksOf, Onward, NamedItems, PairsItems
    <2>2. LinksOf(p)'
      BY <1>10 DEF LinksOf, Onward
    <2>3. \A i \in 1 .. used : i # o => LinksOf(i)'
      BY <1>5, <1>9, LinksStay DEF IInv, LinksTyped
    <2> QED BY <1>0, <1>1, <2>1, <2>2, <2>3 DEF LinksTyped
  <1>12. OpenScopes' = OpenScopes
    BY <1>1, <1>6, <1>7, ClosedIsClosed DEF OpenScopes
  <1>13. items'[o].kind = items[o].kind /\ items[o].kind \in {"Named", "Pairs"}
    BY <1>5 DEF NamedItems, PairsItems
  <1>14. ScopeLinks(g)'
    <2>1. ScopeLinks(g)
      BY DEF IInv, ScopesTyped
    <2>2. g # 0 => /\ Stored(g, {"Group"})' /\ Stored(scope[g].cond, {"Conditional"})'
                   /\ items'[g].cmds = items[g].cmds
      BY <1>5, <1>7, <1>9, <1>13, <2>1, StoredStays DEF ScopeLinks, IInv, Stored
    <2>3. scope[g].last # 0 => /\ Stored(scope[g].last, {"Cmds"})'
                               /\ items'[scope[g].last].next = 0
      BY <1>5, <1>7, <1>9, <1>13, <2>1, StoredStays DEF ScopeLinks, IInv, Stored
    <2>4. /\ Stored(scope[g].implicit.named, {"Named"})'
          /\ items'[scope[g].implicit.named].mask = scope[g].implicit.mask
          /\ items'[scope[g].implicit.named].pairs # 0
      BY <1>0, <1>1, <1>5, <1>7, <1>9, <2>1, StoredStays
         DEF ScopeLinks, IInv, Stored, NamedItems, PairsItems
    <2>5. p # 0
      BY <1>0, <1>1
    <2> QED BY <1>1, <1>2, <1>7, <1>10, <2>1, <2>2, <2>3, <2>4, <2>5 DEF ScopeLinks, Stored
  <1>15. \A h \in OpenScopes' : ScopeLinks(h)'
    <2> SUFFICES ASSUME NEW h \in OpenScopes, h # g PROVE ScopeLinks(h)'
      BY <1>12, <1>14
    <2>1. ScopeLinks(h) /\ Apart(g, h) /\ Apart(h, g)
      BY DEF IInv, ScopesTyped
    <2>2. scope'[h] = scope[h]
      BY <1>6 DEF OpenScopes
    <2>3. Untouched(h)
      <3>1. h # 0 => items'[h] = items[h]
        BY <1>5, <1>13, <2>1 DEF ScopeLinks, Stored
      <3>2. scope[h].last # 0 => items'[scope[h].last] = items[scope[h].last]
        BY <1>5, <1>13, <2>1 DEF ScopeLinks, Stored
      <3>3. scope[h].implicit.named # 0 =>
              scope[h].implicit.named \in 1 .. used /\ scope[h].implicit.named # o
        <4>1. CASE o = scope[g].implicit.named
          BY <1>1, <2>1, <4>1 DEF ScopeLinks, Stored, Apart
        <4>2. CASE items[o] \in PairsItems
          BY <2>1, <4>2 DEF ScopeLinks, Stored, PairsItems
        <4> QED BY <1>5, <4>1, <4>2
      <3>4. scope[h].implicit.last_pair # 0 =>
              scope[h].implicit.last_pair \in 1 .. used /\ scope[h].implicit.last_pair # o
        <4>1. CASE o = scope[g].implicit.last_pair
          BY <1>1, <2>1, <4>1 DEF ScopeLinks, Stored, Apart
        <4>2. CASE items[o] \in NamedItems
          BY <2>1, <4>2 DEF ScopeLinks, Stored, NamedItems
        <4> QED BY <1>5, <4>1, <4>2
      <3> QED BY <1>2, <1>5, <3>1, <3>2, <3>3, <3>4 DEF Untouched
    <2> QED BY <1>9, <2>1, <2>2, <2>3, ScopeStays DEF IInv
  <1>16. \A h, k \in OpenScopes' : h # k => Apart(h, k)'
    <2>1. KeepsOrRenews(g)
      BY <1>0, <1>1, <1>7 DEF KeepsOrRenews
    <2>2. \A h \in OpenScopes' : \/ Blank(scope'[h])
                                 \/ h # g /\ h \in OpenScopes /\ scope'[h] = scope[h]
                                 \/ h = g /\ KeepsOrRenews(g)
      BY <1>6, <1>12, <2>1 DEF OpenScopes
    <2> QED BY <1>8, <2>2, ApartStays DEF IInv
  <1> QED BY <1>8, <1>11, <1>15, <1>16 DEF IInv, ScopesTyped

\* An item that a call has stored before it gave up: not a list node or a
\* pair, and with no link but that of a Conditional to the Group stored before it.
Loose(x, i) ==
  \/ x.kind = "Named" /\ x.pairs = 0
  \/ x.kind = "Numeric"
  \/ x.kind = "Group" /\ x.cmds = 0
  \/ /\ x.kind = "Conditional" /\ used < i - 1
     /\ x.true_group \in {0, i - 1} /\ x.false_group \in {0, i - 1}
     /\ x.true_group = 0 \/ x.false_group = 0

\* A call that gives up: at most items that nothing leads to are new, and
\* scope g has at most forgotten its open Named command.
OnlyNew(g) ==
  /\ items' \in [ItemIds -> Item]
  /\ used' \in OptId /\ used <= used'
  /\ \A i \in 1 .. used : items'[i] = items[i]
  /\ \A i \in ItemIds : used < i /\ i <= used' => LinksOf(i)' /\ Loose(items'[i], i)
  /\ \A i \in ItemIds : used' < i => items'[i] = items[i]
  /\ scope' = scope \/ scope' = Cleared(g)
  /\ cmds_id' = cmds_id
  /\ chars' \in 0 .. StringSpace
  /\ thrown' \in BOOLEAN

\* A call that at most stores new, unlinked items and clears its scope's open Named keeps IInv.
LEMMA OnlyNewKeeps ==
  ASSUME IInv, NEW g \in OpenScopes, OnlyNew(g)
  PROVE  IInv'
  <1>1. g \in OptId /\ scope[g] \in Scopes /\ Cut(scope[g]) \in Scopes
    BY Ids, OpenIsScope, ScopeChanged, NoImplicitIsImplicit DEF IInv
  <1>2. /\ \A h \in OptId : scope'[h] = scope[h] \/ (h = g /\ scope'[h] = Cut(scope[h]))
        /\ scope' \in [OptId -> Scopes \union {Closed}]
    BY <1>1 DEF OnlyNew, Cleared, IInv, TypeOK
  <1>3. TypeOK'
    BY <1>2 DEF OnlyNew, IInv, TypeOK
  <1>4. OpenScopes' = OpenScopes
    BY <1>1, <1>2, ClosedIsClosed DEF OpenScopes
  <1>5. HeapGrows
    BY DEF HeapGrows, OnlyNew
  <1>6. \A h \in OpenScopes : Untouched(h)
    BY DEF IInv, ScopesTyped, ScopeLinks, Stored, Untouched, OnlyNew
  <1>7. \A i \in ItemIds : i <= used' => (i <= used /\ items'[i] = items[i]) \/ LinksOf(i)'
    BY ItemSpaceAssumption DEF OnlyNew, IInv, TypeOK, OptId, ItemIds
  <1>8. \A h \in OpenScopes' : /\ h \in OpenScopes /\ Untouched(h)
                               /\ scope'[h] = scope[h] \/ (h = g /\ scope'[h] = Cut(scope[h]))
    BY <1>2, <1>4, <1>6 DEF OpenScopes
  <1>9. Quiet(g)
    BY <1>5, <1>7, <1>8 DEF Quiet
  <1> QED BY <1>3, <1>9, QuietInv

\* A further pair that does not fit changes nothing that is stored.
LEMMA ExtendNamedThrowsGivesUp ==
  ASSUME IInv, NEW g \in OpenScopes, NEW mask \in Mask, NEW value \in Mask,
         NEW name \in Names, ExtendNamedThrows(g, mask, value, name)
  PROVE  OnlyNew(g)
  <1>1. chars' \in 0 .. StringSpace
    BY CharsBounded DEF ExtendNamedThrows, IInv, TypeOK, GroupNames
  <1>2. used \in Nat
    BY Ids DEF IInv, TypeOK
  <1> QED BY <1>1, <1>2, Ids DEF OnlyNew, ExtendNamedThrows, IInv, TypeOK

\* Named that throws before its node is linked leaves at most a loose Named item.
LEMMA StartNamedThrowsGivesUp ==
  ASSUME IInv, NEW g \in OpenScopes, NEW mask \in Mask, NEW value \in Mask,
         StartNamedThrows(g, mask, value)
  PROVE  OnlyNew(g)
  <1>1. /\ used \in Nat /\ used <= ItemSpace /\ ItemSpace \in OptId /\ ItemSpace < used + 2
        /\ items \in [ItemIds -> Item] /\ ItemIds \subseteq Nat /\ ItemSpace \in Nat
    BY ItemSpaceAssumption DEF IInv, TypeOK, OptId, ItemIds, StartNamedThrows, Room
  <1>2. /\ items' = [i \in ItemIds |-> IF i = used + 1 THEN NamedItem(mask) ELSE items[i]]
        /\ used' = ItemSpace
    BY DEF StartNamedThrows
  <1>3. NamedItem(mask) \in Item /\ NamedItem(mask) = [kind |-> "Named", mask |-> mask, pairs |-> 0]
    BY ItemMade DEF Item, NamedItem
  <1>4. items' \in [ItemIds -> Item] /\ \A i \in 1 .. used : items'[i] = items[i]
    BY <1>1, <1>2, <1>3 DEF ItemIds
  <1>5. \A i \in ItemIds : used < i /\ i <= used' => LinksOf(i)' /\ Loose(items'[i], i)
    <2> SUFFICES ASSUME NEW i \in ItemIds, used < i, i <= used'
                 PROVE  LinksOf(i)' /\ Loose(items'[i], i)
      OBVIOUS
    <2>1. i = used + 1
      BY <1>1, <1>2
    <2>2. items'[i].kind = "Named" /\ items'[i].pairs = 0
      BY <1>2, <1>3, <2>1
    <2> QED BY <2>2 DEF LinksOf, Onward, Loose
  <1>6. \A i \in ItemIds : ~(used' < i)
    BY <1>1, <1>2 DEF ItemIds
  <1> QED BY <1>1, <1>2, <1>4, <1>5, <1>6 DEF OnlyNew, StartNamedThrows, IInv, TypeOK

\* Numeric that throws leaves at most a loose Numeric item.
LEMMA NumericThrowsGivesUp ==
  ASSUME IInv, NEW g \in OpenScopes, NEW mask \in Mask, NEW name \in Names,
         NEW format \in Formats, NumericThrows(g, mask, name, format)
  PROVE  OnlyNew(g)
  <1>1. /\ used \in Nat /\ items \in [ItemIds -> Item] /\ ItemIds \subseteq Nat
    BY Ids DEF IInv, TypeOK
  <1>2. PICK stored \in {0, 1} :
          /\ stored = 1 => Room(1)
          /\ items' = [i \in ItemIds |-> IF i = used + stored /\ stored = 1
                                         THEN NumericItem(mask, format, name) ELSE items[i]]
          /\ used' = used + stored
    BY DEF NumericThrows
  <1>3. chars' \in 0 .. StringSpace
    BY CharsBounded DEF NumericThrows, IInv, TypeOK, GroupNames
  <1>4. NumericItem(mask, format, name) \in Item /\ NumericItem(mask, format, name).kind = "Numeric"
    BY ItemMade DEF Item, NumericItem
  <1>5. used' \in OptId /\ used <= used'
    BY <1>1, <1>2, ItemSpaceAssumption DEF Room, OptId, IInv, TypeOK
  <1>6. items' \in [ItemIds -> Item] /\ \A i \in 1 .. used : items'[i] = items[i]
    BY <1>1, <1>2, <1>4, ItemSpaceAssumption DEF ItemIds, IInv, TypeOK, OptId
  <1>7. \A i \in ItemIds : used < i /\ i <= used' => LinksOf(i)' /\ Loose(items'[i], i)
    <2> SUFFICES ASSUME NEW i \in ItemIds, used < i, i <= used'
                 PROVE  LinksOf(i)' /\ Loose(items'[i], i)
      OBVIOUS
    <2>1. items'[i].kind = "Numeric"
      BY <1>1, <1>2, <1>4
    <2> QED BY <2>1 DEF LinksOf, Loose
  <1>8. \A i \in ItemIds : used' < i => items'[i] = items[i]
    BY <1>1, <1>2
  <1> QED BY <1>3, <1>5, <1>6, <1>7, <1>8 DEF OnlyNew, NumericThrows, IInv, TypeOK

\* If or IfNot that throws leaves at most a loose Group and Conditional.
LEMMA IfThrowsGivesUp ==
  ASSUME IInv, NEW g \in OpenScopes, NEW selector \in Mask, NEW mask \in Mask,
         NEW when \in BOOLEAN, NEW label \in GroupNames,
         IfThrows(g, selector, mask, when, label)
  PROVE  OnlyNew(g)
  <1>1. /\ used \in Nat /\ items \in [ItemIds -> Item] /\ ItemIds \subseteq Nat
        /\ used <= ItemSpace /\ ItemSpace \in Nat
    BY Ids, ItemSpaceAssumption DEF IInv, TypeOK, OptId
  <1>2. PICK stored \in {0, 1, 2} :
          /\ stored >= 1 => Room(1)
          /\ stored = 2 => Room(2)
          /\ items' = [i \in ItemIds |->
                         IF i = used + 1 /\ stored >= 1 THEN GroupItem(label)
                         ELSE IF i = used + 1 + 1 /\ stored = 2
                              THEN FirstBranch(selector, mask, when, used + 1)
                         ELSE items[i]]
          /\ used' = used + stored
    BY DEF IfThrows
  <1>3. chars' \in 0 .. StringSpace
    BY CharsBounded DEF IfThrows, IInv, TypeOK
  <1>4. PICK grp : grp = used + 1
    OBVIOUS
  <1>5. used' \in OptId /\ used <= used'
    BY <1>1, <1>2 DEF Room, OptId
  <1>6. GroupItem(label) \in Item /\ GroupItem(label) = [kind |-> "Group", name |-> label, cmds |-> 0]
    BY ItemMade DEF Item, GroupItem
  <1>7. stored = 2 => /\ FirstBranch(selector, mask, when, grp) \in CondItems
                      /\ FirstBranch(selector, mask, when, grp) \in Item
                      /\ FirstBranch(selector, mask, when, grp).true_group \in {0, grp}
                      /\ FirstBranch(selector, mask, when, grp).false_group \in {0, grp}
                      /\ \/ FirstBranch(selector, mask, when, grp).true_group = 0
                         \/ FirstBranch(selector, mask, when, grp).false_group = 0
    <2> SUFFICES ASSUME stored = 2 PROVE grp \in OptId
      BY FirstBranchMade DEF Item
    <2> QED BY <1>1, <1>2, <1>4 DEF Room, OptId
  <1>8. items' \in [ItemIds -> Item] /\ \A i \in 1 .. used : items'[i] = items[i]
    BY <1>1, <1>2, <1>4, <1>6, <1>7 DEF ItemIds
  <1>9. \A i \in ItemIds : used < i /\ i <= used' => LinksOf(i)' /\ Loose(items'[i], i)
    <2> SUFFICES ASSUME NEW i \in ItemIds, used < i, i <= used'
                 PROVE  LinksOf(i)' /\ Loose(items'[i], i)
      OBVIOUS
    <2>1. CASE i = used + 1
      <3>1. items'[i].kind = "Group" /\ items'[i].cmds = 0
        BY <1>1, <1>2, <1>6, <2>1
      <3> QED BY <3>1 DEF LinksOf, Onward, Loose
    <2>2. CASE i # used + 1
      <3>1. stored = 2 /\ i = used + 2 /\ used + 1 \in ItemIds
        BY <1>1, <1>2, <2>2 DEF ItemIds
      <3>2. items'[i] = FirstBranch(selector, mask, when, grp)
        BY <1>1, <1>2, <1>4, <3>1
      <3>3. items'[grp].kind = "Group" /\ grp \in 1 .. used'
        BY <1>1, <1>2, <1>4, <1>6, <3>1
      <3>4. grp = i - 1 /\ used < i - 1
        BY <1>1, <1>4, <3>1
      <3> QED BY <1>7, <3>1, <3>2, <3>3, <3>4 DEF LinksOf, Stored, CondItems, Loose
    <2> QED BY <2>1, <2>2
  <1>10. \A i \in ItemIds : used' < i => items'[i] = items[i]
    BY <1>1, <1>2
  <1> QED BY <1>3, <1>5, <1>8, <1>9, <1>10 DEF OnlyNew, IfThrows, IInv, TypeOK

\* Else that throws changes nothing that is stored.
LEMMA ElseThrowsGivesUp ==
  ASSUME IInv, NEW g \in OpenScopes, NEW label \in GroupNames, ElseThrows(g, label)
  PROVE  OnlyNew(g)
  <1>1. chars' \in 0 .. StringSpace
    BY CharsBounded DEF ElseThrows, IInv, TypeOK
  <1>2. used \in Nat
    BY Ids DEF IInv, TypeOK
  <1> QED BY <1>1, <1>2, Ids DEF OnlyNew, ElseThrows, IInv, TypeOK

\* A branch scope, its Group and its Conditional.
LEMMA BranchItems ==
  ASSUME IInv, NEW g \in OpenScopes, scope[g].kind # "Root"
  PROVE  /\ g \in 1 .. used /\ items[g].kind = "Group" /\ items[g] \in GroupItems
         /\ scope[g].cond \in 1 .. used /\ items[scope[g].cond].kind = "Conditional"
         /\ items[scope[g].cond] \in CondItems
         /\ scope[g].mask \in Mask /\ scope[g].cond \in OptId
         /\ LinksOf(scope[g].cond) /\ LinksOf(g)
         /\ 1 .. used \subseteq ItemIds
  <1>1. ScopeLinks(g) /\ scope[g] \in Scopes
    BY OpenIsScope DEF IInv, ScopesTyped
  <1>2. 1 .. used \subseteq ItemIds
    BY ItemSpaceAssumption DEF IInv, TypeOK, OptId, ItemIds
  <1>3. /\ g \in 1 .. used /\ items[g].kind = "Group"
        /\ scope[g].cond \in 1 .. used /\ items[scope[g].cond].kind = "Conditional"
    BY <1>1 DEF ScopeLinks, Stored
  <1>4. items[g] \in Item /\ items[scope[g].cond] \in Item
    BY <1>2, <1>3 DEF IInv, TypeOK
  <1> QED BY <1>1, <1>2, <1>3, <1>4, ItemKinds DEF IInv, LinksTyped, Scopes

\* What Else and End do to a Conditional leaves it one that leads to its Groups.
LEMMA CondChanged ==
  ASSUME NEW cond \in CondItems, NEW g \in OptId, NEW grp \in OptId
  PROVE  /\ OtherSide(cond, g, grp) \in CondItems
         /\ OtherSide(cond, g, grp).true_group \in {cond.true_group, grp}
         /\ OtherSide(cond, g, grp).false_group \in {cond.false_group, grp}
         /\ Flipped(cond, g) \in CondItems
         /\ Flipped(cond, g).true_group \in {0, g}
         /\ Flipped(cond, g).false_group \in {0, g}
         /\ WithoutBranch(cond, g) \in CondItems
         /\ WithoutBranch(cond, g).true_group \in {cond.true_group, 0}
         /\ WithoutBranch(cond, g).false_group \in {cond.false_group, 0}
  BY Ids DEF OtherSide, Flipped, WithoutBranch, CondItems

\* Replacing a Conditional by one that leads to its old Groups, to stored
\* ones or to none, and renaming Group g, touches no list.
LEMMA ConditionalLinks ==
  ASSUME TypeOK, HeapGrows, NEW k \in 1 .. used, LinksOf(k), items[k] \in CondItems,
         items'[k] \in CondItems,
         items'[k].true_group = 0 \/ items'[k].true_group = items[k].true_group
           \/ Stored(items[k].true_group, {"Group"})',
         items'[k].false_group = 0 \/ items'[k].false_group = items[k].false_group
           \/ Stored(items[k].false_group, {"Group"})'
  PROVE  LinksOf(k)'
  <1>1. items[k].kind = "Conditional" /\ items'[k].kind = "Conditional"
    BY DEF CondItems
  <1>2. /\ items[k].true_group = 0 \/ Stored(items[k].true_group, {"Group"})
        /\ items[k].false_group = 0 \/ Stored(items[k].false_group, {"Group"})
    BY <1>1 DEF LinksOf
  <1> QED BY <1>1, <1>2, StoredStays DEF LinksOf, Stored

\* A scope that has just been opened on an empty Group is sound.
LEMMA FreshScope ==
  ASSUME NEW h \in OptId, h # 0, NEW k, NEW mask, NEW kind \in {"If", "Else"},
         scope'[h] = NewScope(kind, k, mask),
         Stored(h, {"Group"})', items'[h].cmds = 0, Stored(k, {"Conditional"})'
  PROVE  Blank(scope'[h]) /\ ScopeLinks(h)'
  <1>1. /\ scope'[h].kind = kind /\ scope'[h].cond = k /\ scope'[h].first = 0
        /\ scope'[h].last = 0 /\ scope'[h].implicit = NoImplicit
        /\ scope'[h].implicit.named = 0 /\ scope'[h].implicit.last_pair = 0
    BY DEF NewScope, NoImplicit
  <1>2. Blank(scope'[h])
    BY <1>1 DEF Blank
  <1>3. Stored(scope[h].cond, {"Conditional"})'
    BY <1>1 DEF Stored
  <1>4. ScopeLinks(h)'
    BY <1>1, <1>3 DEF ScopeLinks
  <1> QED BY <1>2, <1>4

\* Else behind a branch with commands keeps IInv.
LEMMA OpenElseKeeps ==
  ASSUME IInv, NEW g \in OpenScopes, NEW label \in GroupNames, OpenElse(g, label)
  PROVE  IInv'
  <1>0. PICK grp, k : grp = used + 1 /\ k = scope[g].cond
    OBVIOUS
  <1>1. /\ used \in Nat /\ used' = grp /\ grp \in ItemIds /\ grp \in OptId /\ grp # 0
        /\ g \in OptId /\ scope[g] \in Scopes /\ scope[g].kind = "If"
        /\ grp \notin 1 .. used /\ items \in [ItemIds -> Item]
    BY <1>0, Ids, OpenIsScope, ItemSpaceAssumption
       DEF IInv, TypeOK, OpenElse, Room, OptId, ItemIds
  <1>2. /\ items' = [items EXCEPT ![grp] = GroupItem(label), ![k] = OtherSide(@, g, grp)]
        /\ scope' = [scope EXCEPT ![g] = Closed, ![grp] = NewScope("Else", k, scope[g].mask)]
        /\ chars' = CharsAfter(label) /\ cmds_id' = cmds_id /\ thrown' = thrown
    BY <1>0 DEF OpenElse
  <1>3. /\ g \in 1 .. used /\ items[g].kind = "Group" /\ k \in 1 .. used
        /\ items[k] \in CondItems /\ items[k].kind = "Conditional" /\ LinksOf(k)
        /\ scope[g].mask \in Mask /\ k \in OptId /\ 1 .. used \subseteq ItemIds
    BY <1>0, <1>1, BranchItems
  <1>4. GroupItem(label) \in Item /\ GroupItem(label) = [kind |-> "Group", name |-> label, cmds |-> 0]
    BY ItemMade DEF Item, GroupItem
  <1>5. /\ OtherSide(items[k], g, grp) \in CondItems
        /\ OtherSide(items[k], g, grp) \in Item
        /\ OtherSide(items[k], g, grp).true_group \in {items[k].true_group, grp}
        /\ OtherSide(items[k], g, grp).false_group \in {items[k].false_group, grp}
    BY <1>1, <1>3, CondChanged DEF Item
  <1>6. /\ items' \in [ItemIds -> Item]
        /\ items'[grp] = GroupItem(label)
        /\ items'[k] = OtherSide(items[k], g, grp)
        /\ \A i \in 1 .. used : i # k => items'[i] = items[i]
    <2>1. k # grp /\ k \in ItemIds
      BY <1>1, <1>3
    <2>2. \A i \in 1 .. used : i # grp /\ i \in ItemIds
      BY <1>1, <1>3
    <2> QED BY <1>1, <1>2, <1>4, <1>5, <2>1, <2>2
  <1>7. NewScope("Else", k, scope[g].mask) \in Scopes
    BY <1>3, ScopeMade
  <1>8. TypeOK'
    <2>1. chars' \in 0 .. StringSpace
      BY <1>2, CharsBounded DEF IInv, TypeOK
    <2>2. scope' \in [OptId -> Scopes \union {Closed}]
      BY <1>1, <1>2, <1>7 DEF IInv, TypeOK
    <2> QED BY <1>1, <1>2, <1>6, <2>1, <2>2 DEF IInv, TypeOK
  <1>9. HeapGrows
    BY <1>0, <1>1, <1>3, <1>5, <1>6 DEF HeapGrows, CondItems
  <1>10. /\ scope'[g] = Closed /\ scope'[grp] = NewScope("Else", k, scope[g].mask)
         /\ \A h \in OptId : h # g /\ h # grp => scope'[h] = scope[h]
    BY <1>1, <1>2, <1>3 DEF IInv, TypeOK
  <1>11. Stored(grp, {"Group"})' /\ items'[grp].cmds = 0 /\ items'[grp].kind = "Group"
    BY <1>0, <1>1, <1>4, <1>6 DEF Stored
  <1>12. Quiet(g)
    <2>1. ASSUME NEW h \in OpenScopes'
          PROVE  \/ Blank(scope'[h]) /\ ScopeLinks(h)'
                 \/ h \in OpenScopes /\ Untouched(h) /\ scope'[h] = scope[h]
      <3>1. CASE h = grp
        <4>1. Stored(k, {"Conditional"})'
          BY <1>3, <1>9, StoredStays DEF Stored, IInv
        <4> QED BY <1>1, <1>10, <1>11, <3>1, <4>1, FreshScope
      <3>2. CASE h # grp
        <4>1. h # g /\ h \in OpenScopes /\ scope'[h] = scope[h]
          BY <1>10, <3>2 DEF OpenScopes, Closed
        <4>2. ScopeLinks(h)
          BY <4>1 DEF IInv, ScopesTyped
        <4>3. Untouched(h)
          BY <1>2, <1>3, <1>6, <4>2 DEF Untouched, ScopeLinks, Stored
        <4> QED BY <4>1, <4>3
      <3> QED BY <3>1, <3>2
    <2>2. LinksOf(grp)'
      BY <1>11 DEF LinksOf, Onward
    <2>3. LinksOf(k)'
      <3>1. /\ items'[k].true_group \in {items[k].true_group, grp}
            /\ items'[k].false_group \in {items[k].false_group, grp}
            /\ items'[k] \in CondItems
        BY <1>5, <1>6
      <3> QED BY <1>3, <1>9, <1>11, <3>1, ConditionalLinks DEF IInv, Stored
    <2>4. \A i \in ItemIds : i <= used' => (i <= used /\ items'[i] = items[i]) \/ LinksOf(i)'
      BY <1>0, <1>1, <1>6, <2>2, <2>3 DEF ItemIds
    <2> QED BY <1>9, <2>1, <2>4 DEF Quiet
  <1> QED BY <1>8, <1>12, QuietInv

\* Else behind an empty branch, which reuses its Group, keeps IInv.
LEMMA ReuseAsElseKeeps ==
  ASSUME IInv, NEW g \in OpenScopes, NEW label \in GroupNames, ReuseAsElse(g, label)
  PROVE  IInv'
  <1>0. PICK k : k = scope[g].cond
    OBVIOUS
  <1>1. /\ used \in Nat /\ used' = used
        /\ g \in OptId /\ scope[g] \in Scopes /\ scope[g].kind = "If"
        /\ items \in [ItemIds -> Item] /\ items[g].cmds = 0
    BY <1>0, Ids, OpenIsScope DEF IInv, TypeOK, ReuseAsElse, HasCommands
  <1>2. /\ items' = [items EXCEPT ![g].name = label, ![k] = Flipped(@, g)]
        /\ scope' = [scope EXCEPT ![g] = NewScope("Else", k, scope[g].mask)]
        /\ chars' = CharsAfter(label) /\ cmds_id' = cmds_id /\ thrown' = thrown
    BY <1>0 DEF ReuseAsElse
  <1>3. /\ g \in 1 .. used /\ items[g].kind = "Group" /\ items[g] \in GroupItems /\ k \in 1 .. used
        /\ items[k] \in CondItems /\ items[k].kind = "Conditional" /\ LinksOf(k) /\ LinksOf(g)
        /\ scope[g].mask \in Mask /\ k \in OptId /\ 1 .. used \subseteq ItemIds /\ g # 0
    BY <1>0, <1>1, BranchItems
  <1>4. PICK x : x = [items[g] EXCEPT !.name = label]
    OBVIOUS
  <1>5. x \in GroupItems /\ x \in Item /\ x.kind = "Group" /\ x.cmds = 0
    BY <1>1, <1>3, <1>4 DEF GroupItems, Item
  <1>6. /\ Flipped(items[k], g) \in CondItems
        /\ Flipped(items[k], g) \in Item
        /\ Flipped(items[k], g).true_group \in {0, g}
        /\ Flipped(items[k], g).false_group \in {0, g}
    BY <1>1, <1>3, CondChanged DEF Item
  <1>7. /\ items' \in [ItemIds -> Item]
        /\ items'[g] = x
        /\ items'[k] = Flipped(items[k], g)
        /\ \A i \in 1 .. used : i # k /\ i # g => items'[i] = items[i]
    <2>1. k # g /\ k \in ItemIds /\ g \in ItemIds
      BY <1>1, <1>3
    <2>2. items' = [items EXCEPT ![g] = x, ![k] = Flipped(items[k], g)]
      BY <1>1, <1>2, <1>4, <2>1
    <2> QED BY <1>1, <1>3, <1>5, <1>6, <2>1, <2>2
  <1>8. NewScope("Else", k, scope[g].mask) \in Scopes
    BY <1>3, ScopeMade
  <1>9. TypeOK'
    <2>1. chars' \in 0 .. StringSpace
      BY <1>2, CharsBounded DEF IInv, TypeOK
    <2>2. scope' \in [OptId -> Scopes \union {Closed}]
      BY <1>1, <1>2, <1>8 DEF IInv, TypeOK
    <2> QED BY <1>1, <1>2, <1>7, <2>1, <2>2 DEF IInv, TypeOK
  <1>10. HeapGrows
    BY <1>1, <1>3, <1>5, <1>6, <1>7 DEF HeapGrows, CondItems, IInv, TypeOK
  <1>11. /\ scope'[g] = NewScope("Else", k, scope[g].mask)
         /\ \A h \in OptId : h # g => scope'[h] = scope[h]
    BY <1>1, <1>2 DEF IInv, TypeOK
  <1>12. Stored(g, {"Group"})' /\ items'[g].cmds = 0 /\ items'[g].kind = "Group"
    BY <1>1, <1>3, <1>5, <1>7 DEF Stored
  <1>13. Quiet(g)
    <2>1. ASSUME NEW h \in OpenScopes'
          PROVE  \/ Blank(scope'[h]) /\ ScopeLinks(h)'
                 \/ h \in OpenScopes /\ Untouched(h) /\ scope'[h] = scope[h]
      <3>1. CASE h = g
        <4>1. Stored(k, {"Conditional"})'
          BY <1>3, <1>10, StoredStays DEF Stored, IInv
        <4> QED BY <1>1, <1>3, <1>11, <1>12, <3>1, <4>1, FreshScope
      <3>2. CASE h # g
        <4>1. h \in OpenScopes /\ scope'[h] = scope[h]
          BY <1>11, <3>2 DEF OpenScopes, Closed
        <4>2. ScopeLinks(h)
          BY <4>1 DEF IInv, ScopesTyped
        <4>3. Untouched(h)
          BY <1>2, <1>3, <1>7, <3>2, <4>2 DEF Untouched, ScopeLinks, Stored
        <4> QED BY <4>1, <4>3
      <3> QED BY <3>1, <3>2
    <2>2. LinksOf(g)'
      BY <1>12 DEF LinksOf, Onward
    <2>3. LinksOf(k)'
      <3>1. /\ items'[k].true_group \in {0, g}
            /\ items'[k].false_group \in {0, g}
            /\ items'[k] \in CondItems
        BY <1>6, <1>7
      <3> QED BY <1>3, <1>10, <1>12, <3>1, ConditionalLinks DEF IInv, Stored
    <2>4. \A i \in ItemIds : i <= used' => (i <= used /\ items'[i] = items[i]) \/ LinksOf(i)'
      BY <1>1, <1>7, <2>2, <2>3 DEF ItemIds
    <2> QED BY <1>10, <2>1, <2>4 DEF Quiet
  <1> QED BY <1>9, <1>13, QuietInv

\* End of a branch with commands keeps IInv.
LEMMA EndBranchKeeps ==
  ASSUME IInv, NEW g \in OpenScopes, EndBranch(g)
  PROVE  IInv'
  <1>1. /\ g \in OptId /\ used \in Nat
        /\ scope' = [scope EXCEPT ![g] = Closed]
        /\ items' = items /\ used' = used /\ chars' = chars /\ cmds_id' = cmds_id /\ thrown' = thrown
    BY Ids, OpenIsScope DEF EndBranch, IInv, TypeOK
  <1>2. TypeOK'
    BY <1>1 DEF IInv, TypeOK
  <1>3. \A h \in OpenScopes' : h \in OpenScopes /\ scope'[h] = scope[h]
    BY <1>1 DEF OpenScopes, IInv, TypeOK, Closed
  <1>4. Quiet(g)
    BY <1>1, <1>3 DEF Quiet, HeapGrows, Untouched, IInv, TypeOK
  <1> QED BY <1>2, <1>4, QuietInv

\* End of an empty else branch keeps IInv.
LEMMA DropEmptyElseKeeps ==
  ASSUME IInv, NEW g \in OpenScopes, DropEmptyElse(g)
  PROVE  IInv'
  <1>0. PICK k : k = scope[g].cond
    OBVIOUS
  <1>1. /\ used \in Nat /\ used' = used
        /\ g \in OptId /\ scope[g] \in Scopes /\ scope[g].kind = "Else"
        /\ items \in [ItemIds -> Item] /\ items[g].cmds = 0
    BY <1>0, Ids, OpenIsScope DEF IInv, TypeOK, DropEmptyElse, HasCommands
  <1>2. /\ items' = [items EXCEPT ![k] = WithoutBranch(items[k], g), ![g].name = NoName]
        /\ scope' = [scope EXCEPT ![g] = Closed]
        /\ chars' = chars /\ cmds_id' = cmds_id /\ thrown' = thrown
    BY <1>0 DEF DropEmptyElse
  <1>3. /\ g \in 1 .. used /\ items[g].kind = "Group" /\ items[g] \in GroupItems /\ k \in 1 .. used
        /\ items[k] \in CondItems /\ items[k].kind = "Conditional" /\ LinksOf(k)
        /\ k \in OptId /\ 1 .. used \subseteq ItemIds /\ g # 0
    BY <1>0, <1>1, BranchItems
  <1>4. PICK x : x = [items[g] EXCEPT !.name = NoName]
    OBVIOUS
  <1>5. x \in GroupItems /\ x \in Item /\ x.kind = "Group" /\ x.cmds = 0
    BY <1>1, <1>3, <1>4 DEF GroupItems, Item, GroupNames
  <1>6. /\ WithoutBranch(items[k], g) \in CondItems
        /\ WithoutBranch(items[k], g) \in Item
        /\ WithoutBranch(items[k], g).true_group \in {items[k].true_group, 0}
        /\ WithoutBranch(items[k], g).false_group \in {items[k].false_group, 0}
    BY <1>1, <1>3, Ids, CondChanged DEF Item
  <1>7. /\ items' \in [ItemIds -> Item]
        /\ items'[g] = x
        /\ items'[k] = WithoutBranch(items[k], g)
        /\ \A i \in 1 .. used : i # k /\ i # g => items'[i] = items[i]
    <2>1. k # g /\ k \in ItemIds /\ g \in ItemIds
      BY <1>1, <1>3
    <2>2. items' = [items EXCEPT ![k] = WithoutBranch(items[k], g), ![g] = x]
      BY <1>1, <1>2, <1>4, <2>1
    <2> QED BY <1>1, <1>3, <1>5, <1>6, <2>1, <2>2
  <1>8. TypeOK'
    BY <1>1, <1>2, <1>7 DEF IInv, TypeOK
  <1>9. HeapGrows
    BY <1>1, <1>3, <1>5, <1>6, <1>7 DEF HeapGrows, CondItems, IInv, TypeOK
  <1>10. \A h \in OpenScopes' : h # g /\ h \in OpenScopes /\ scope'[h] = scope[h]
    BY <1>1, <1>2 DEF OpenScopes, IInv, TypeOK, Closed
  <1>11. Quiet(g)
    <2>1. ASSUME NEW h \in OpenScopes'
          PROVE  h \in OpenScopes /\ Untouched(h) /\ scope'[h] = scope[h]
      <3>1. h # g /\ h \in OpenScopes /\ scope'[h] = scope[h] /\ ScopeLinks(h)
        BY <1>10 DEF IInv, ScopesTyped
      <3> QED BY <1>2, <1>3, <1>7, <3>1 DEF Untouched, ScopeLinks, Stored
    <2>2. LinksOf(g)'
      BY <1>5, <1>7 DEF LinksOf, Onward
    <2>3. LinksOf(k)'
      <3>1. /\ items'[k].true_group \in {items[k].true_group, 0}
            /\ items'[k].false_group \in {items[k].false_group, 0}
            /\ items'[k] \in CondItems
        BY <1>6, <1>7
      <3> QED BY <1>3, <1>9, <3>1, ConditionalLinks DEF IInv
    <2>4. \A i \in ItemIds : i <= used' => (i <= used /\ items'[i] = items[i]) \/ LinksOf(i)'
      BY <1>1, <1>7, <2>2, <2>3 DEF ItemIds
    <2> QED BY <1>9, <2>1, <2>4 DEF Quiet
  <1> QED BY <1>8, <1>11, QuietInv
-----------------------------------------------------------------------------
(* The theorems.                                                           *)

\* The invariant holds for a builder that has just been made.
LEMMA InitIInv == Init => IInv
  <1> SUFFICES ASSUME Init PROVE IInv
    OBVIOUS
  <1> USE DEF Init
  <1>1. NewScope("Root", 0, Bits) \in Scopes
    BY Ids, ScopeMade DEF Mask
  <1>2. FreeItem \in Item
    BY ItemMade DEF Item
  <1>3. TypeOK
    <2>1. items \in [ItemIds -> Item] /\ scope \in [OptId -> Scopes \union {Closed}]
      BY <1>1, <1>2
    <2>2. used \in OptId /\ cmds_id \in OptId /\ chars \in 0 .. StringSpace
      BY Ids, StringSpaceAssumption
    <2>3. thrown \in BOOLEAN
      OBVIOUS
    <2> HIDE DEF Init
    <2> QED BY <2>1, <2>2, <2>3 DEF TypeOK
  <1>4. LinksTyped
    BY DEF LinksTyped
  <1>5. OpenScopes \subseteq {0}
    BY DEF OpenScopes, Closed
  <1>6. scope[0] = NewScope("Root", 0, Bits)
    BY Ids
  <1>7. ScopeLinks(0)
    BY <1>6 DEF ScopeLinks, NewScope, NoImplicit
  <1>8. ScopesTyped
    BY <1>5, <1>7 DEF ScopesTyped
  <1> QED BY <1>3, <1>4, <1>8 DEF IInv

\* Masks, selectors and labels that calls are made with are of the types the operations take.
LEMMA ArgumentTypes ==
  /\ CallMasks \subseteq Mask /\ CallMasks \union {{}} \subseteq Mask
  /\ Selectors \subseteq Mask /\ Labels \subseteq GroupNames
  BY ArgumentsAssumption DEF Mask

\* Every call on an open scope keeps the invariant.
LEMMA CallIInv ==
  ASSUME IInv, NEW g \in OpenScopes, Call(g)
  PROVE  IInv'
  <1>1. ASSUME NEW mask \in CallMasks \union {{}}, NEW value \in Mask, NEW name \in Names,
               Named(g, mask, value, name)
        PROVE  IInv'
    <2>1. mask \in Mask
      BY ArgumentTypes
    <2>2. CASE ExtendNamed(g, mask, value, name)
      BY <2>1, <2>2, ExtendNamedKeeps
    <2>3. CASE StartNamed(g, mask, value, name)
      BY <2>1, <2>3, StartNamedKeeps
    <2>4. CASE ExtendNamedThrows(g, mask, value, name)
      BY <2>1, <2>4, ExtendNamedThrowsGivesUp, OnlyNewKeeps
    <2>5. CASE StartNamedThrows(g, mask, value)
      BY <2>1, <2>5, StartNamedThrowsGivesUp, OnlyNewKeeps
    <2>6. CASE FirstPairThrows(g, mask, value, name)
      BY <2>1, <2>6, FirstPairThrowsKeeps
    <2> QED BY <1>1, <2>2, <2>3, <2>4, <2>5, <2>6 DEF Named
  <1>2. ASSUME NEW mask \in CallMasks, NEW name \in Names, NEW format \in Formats,
               Numeric(g, mask, name, format)
        PROVE  IInv'
    <2>1. mask \in Mask
      BY ArgumentTypes
    <2>2. CASE AddNumeric(g, mask, name, format)
      BY <2>1, <2>2, AddNumericKeeps
    <2>3. CASE NumericThrows(g, mask, name, format)
      BY <2>1, <2>3, NumericThrowsGivesUp, OnlyNewKeeps
    <2> QED BY <1>2, <2>2, <2>3 DEF Numeric
  <1>3. ASSUME NEW selector \in Selectors, NEW mask \in CallMasks, NEW when \in BOOLEAN,
               NEW label \in Labels, If(g, selector, mask, when, label)
        PROVE  IInv'
    <2>1. selector \in Mask /\ mask \in Mask /\ label \in GroupNames
      BY ArgumentTypes
    <2>2. CASE OpenIf(g, selector, mask, when, label)
      BY <2>1, <2>2, OpenIfKeeps
    <2>3. CASE IfThrows(g, selector, mask, when, label)
      BY <2>1, <2>3, IfThrowsGivesUp, OnlyNewKeeps
    <2> QED BY <1>3, <2>2, <2>3 DEF If
  <1>4. ASSUME NEW label \in Labels, Else(g, label)
        PROVE  IInv'
    <2>1. label \in GroupNames
      BY ArgumentTypes
    <2>2. CASE OpenElse(g, label)
      BY <2>1, <2>2, OpenElseKeeps
    <2>3. CASE ReuseAsElse(g, label)
      BY <2>1, <2>3, ReuseAsElseKeeps
    <2>4. CASE ElseThrows(g, label)
      BY <2>1, <2>4, ElseThrowsGivesUp, OnlyNewKeeps
    <2> QED BY <1>4, <2>2, <2>3, <2>4 DEF Else
  <1>5. CASE End(g)
    BY <1>5, EndBranchKeeps, DropEmptyElseKeeps DEF End
  <1> QED BY <1>1, <1>2, <1>3, <1>4, <1>5 DEF Call

\* A step that changes nothing keeps the invariant.
LEMMA StutterIInv == IInv /\ UNCHANGED vars => IInv'
  <1> SUFFICES ASSUME IInv, UNCHANGED vars PROVE IInv'
    OBVIOUS
  <1>1. /\ items' = items /\ used' = used /\ chars' = chars /\ cmds_id' = cmds_id
        /\ scope' = scope /\ thrown' = thrown
    BY DEF vars
  <1>2. TypeOK'
    BY <1>1 DEF IInv, TypeOK
  <1>3. LinksTyped'
    BY <1>1 DEF IInv, LinksTyped, LinksOf, Onward, Earlier, Stored
  <1>4. ScopesTyped'
    BY <1>1 DEF IInv, ScopesTyped, OpenScopes, ScopeLinks, Apart, Stored
  <1> QED BY <1>2, <1>3, <1>4 DEF IInv

\* The invariant holds whichever open scope the calls are made on.
THEOREM Inductive == Spec => []IInv
  <1>1. IInv /\ [Next]_vars => IInv'
    BY CallIInv, StutterIInv DEF Next
  <1> QED BY InitIInv, <1>1, PTL DEF Spec

(* The heaps never hold more than they can, and every variable of the      *)
(* builder stays in its C++ type, for all capacities, names and masks.     *)
THEOREM TypeCorrect == Spec => []TypeOK
  <1>1. IInv => TypeOK
    BY DEF IInv
  <1> QED BY Inductive, <1>1, PTL

(* No chain of builder calls, failed ones included, makes item<T>() meet   *)
(* an item of another kind, and every list it follows ends.                *)
THEOREM LinksAreTyped == Spec => []LinksTyped
  <1>1. IInv => LinksTyped
    BY DEF IInv
  <1> QED BY Inductive, <1>1, PTL

(* A scope's own ids stay the ends of its list and of its open Named       *)
(* command, however the calls on different scopes are interleaved.         *)
THEOREM ScopesAreTyped == Spec => []ScopesTyped
  <1>1. IInv => ScopesTyped
    BY DEF IInv
  <1> QED BY Inductive, <1>1, PTL
-----------------------------------------------------------------------------
(***************************************************************************)
(* What the graph keeps, whatever is called on it, beyond the soundness of *)
(* single links:                                                           *)
(*                                                                         *)
(*   - every list node and every pair has one owner (OwnedOnce);           *)
(*   - no call rewrites what an earlier one stored, nor takes a branch     *)
(*     with commands from its Conditional (OnlyGrows);                     *)
(*   - a complete description has no empty command (EncodableWhenComplete);*)
(*   - neighbours in a list could not be one command (NeighboursDiffer).   *)
(*                                                                         *)
(* A call does one of three things to what is stored: it sets one link     *)
(* that was 0 (Grows: the end of a list or of a pair list, or an empty     *)
(* Group), it changes the branches of one Conditional (Rebranches), or it  *)
(* changes nothing (Still).  The lemmas called ...Effect say so for every  *)
(* operation; the properties are then proved once for each of the three.   *)
(***************************************************************************)
(* Links, one by one.                                                      *)

LinkFields == {"next", "pairs", "cmds", "command", "true", "false"}

\* Field f of item x leads to j.
LinkFrom(x, f, j) ==
  \/ f = "next" /\ x.kind \in {"Pairs", "Cmds"} /\ j = x.next
  \/ f = "pairs" /\ x.kind = "Named" /\ j = x.pairs
  \/ f = "cmds" /\ x.kind = "Group" /\ j = x.cmds
  \/ f = "command" /\ x.kind = "Cmds" /\ j = x.command
  \/ f = "true" /\ x.kind = "Conditional" /\ j = x.true_group
  \/ f = "false" /\ x.kind = "Conditional" /\ j = x.false_group

\* Field f of item i, or of the enum for i = 0, leads to j.
Linked(i, f, j) ==
  \/ i = 0 /\ f = "cmds" /\ j = cmds_id
  \/ i \in ItemIds /\ LinkFrom(items[i], f, j)

\* Links is the set of these links.
LEMMA LinksAreLinked ==
  \A l : l \in Links <=>
         \E i \in OptId, f \in LinkFields : \E j : l = <<i, f, j>> /\ Linked(i, f, j)
  <1> TAKE l
  <1> DEFINE Of(kinds) == {i \in ItemIds : items[i].kind \in kinds}
  <1>1. 0 \in OptId /\ ItemIds \subseteq OptId
    BY Ids
  <1>2. l \in Links <=>
          \/ l = <<0, "cmds", cmds_id>>
          \/ \E i \in Of({"Pairs", "Cmds"}) : l = <<i, "next", items[i].next>>
          \/ \E i \in Of({"Cmds"}) : l = <<i, "command", items[i].command>>
          \/ \E i \in Of({"Named"}) : l = <<i, "pairs", items[i].pairs>>
          \/ \E i \in Of({"Group"}) : l = <<i, "cmds", items[i].cmds>>
          \/ \E i \in Of({"Conditional"}) : l = <<i, "true", items[i].true_group>>
          \/ \E i \in Of({"Conditional"}) : l = <<i, "false", items[i].false_group>>
    BY DEF Links
  <1> QED BY <1>1, <1>2 DEF Linked, LinkFrom, LinkFields

\* A stored item is settled towards itself.
LEMMA SettledItself ==
  ASSUME NEW x \in Item
  PROVE  Settled(x, x)
  BY DEF Settled, Item, PairsItems, NamedItems, NumericItems, GroupItems, CondItems,
         CmdsItems, FreeItems
-----------------------------------------------------------------------------
(* What a call does to the items that were stored before it.               *)

\* One link that was 0, field f of item o, now leads to the new item c.
Grows(o, f, c) ==
  /\ c \in ItemIds /\ used < c /\ c <= used' /\ used' \in OptId
  /\ \/ /\ o = 0 /\ f = "cmds" /\ cmds_id = 0 /\ cmds_id' = c
        /\ \A i \in 1 .. used : items'[i] = items[i]
     \/ /\ o \in 1 .. used /\ cmds_id' = cmds_id
        /\ \A i \in 1 .. used : i # o => items'[i] = items[i]
        /\ \/ /\ f = "next" /\ items[o] \in PairsItems \union CmdsItems /\ items[o].next = 0
              /\ items'[o] = [items[o] EXCEPT !.next = c]
           \/ /\ f = "pairs" /\ items[o] \in NamedItems /\ items[o].pairs = 0
              /\ items'[o] = [items[o] EXCEPT !.pairs = c]
           \/ /\ f = "cmds" /\ items[o] \in GroupItems /\ items[o].cmds = 0
              /\ items'[o] = [items[o] EXCEPT !.cmds = c]

\* The branches of Conditional k change, and the name of an empty Group may.
Rebranches(k) ==
  /\ used' \in OptId /\ used <= used' /\ cmds_id' = cmds_id
  /\ k \in 1 .. used
  /\ items[k] \in CondItems /\ items'[k] \in CondItems
  /\ items'[k].group_bitmask = items[k].group_bitmask /\ items'[k].bitmask = items[k].bitmask
  /\ \A i \in 1 .. used : i # k =>
       \/ items'[i] = items[i]
       \/ /\ items[i] \in GroupItems /\ items'[i] \in GroupItems
          /\ items[i].cmds = 0 /\ items'[i].cmds = 0

Still ==
  /\ used' \in OptId /\ used <= used' /\ cmds_id' = cmds_id
  /\ \A i \in 1 .. used : items'[i] = items[i]

\* What OnlyGrows says of the single links, and the enum's first node.
Kept ==
  /\ used <= used'
  /\ cmds_id \in {0, cmds_id'}
  /\ \A i \in 1 .. used : Settled(items[i], items'[i])

\* Each of the three ways a call changes what is stored only adds to it.
LEMMA GrowsKept ==
  ASSUME TypeOK, NEW o, NEW f, NEW c, Grows(o, f, c)
  PROVE  Kept
  <1>1. /\ used \in Nat /\ used' \in Nat /\ 1 .. used \subseteq ItemIds /\ c \in Nat
        /\ \A i \in 1 .. used : items[i] \in Item
    BY Ids, ItemSpaceAssumption DEF TypeOK, OptId, ItemIds, Grows
  <1>2. \A i \in 1 .. used : Settled(items[i], items[i])
    BY <1>1, SettledItself
  <1>3. CASE o = 0 /\ cmds_id = 0 /\ \A i \in 1 .. used : items'[i] = items[i]
    BY <1>1, <1>2, <1>3 DEF Kept, Grows
  <1>4. CASE /\ o \in 1 .. used /\ cmds_id' = cmds_id
             /\ \A i \in 1 .. used : i # o => items'[i] = items[i]
             /\ Settled(items[o], items'[o])
    BY <1>1, <1>2, <1>4 DEF Kept, Grows
  <1>5. ASSUME NEW x, NEW y,
               \/ x \in PairsItems \union CmdsItems /\ x.next = 0 /\ y = [x EXCEPT !.next = c]
               \/ x \in NamedItems /\ x.pairs = 0 /\ y = [x EXCEPT !.pairs = c]
               \/ x \in GroupItems /\ x.cmds = 0 /\ y = [x EXCEPT !.cmds = c]
        PROVE  Settled(x, y)
    <2>1. CASE x \in PairsItems /\ x.next = 0 /\ y = [x EXCEPT !.next = c]
      BY <2>1 DEF Settled, PairsItems
    <2>2. CASE x \in CmdsItems /\ x.next = 0 /\ y = [x EXCEPT !.next = c]
      BY <2>2 DEF Settled, CmdsItems
    <2>3. CASE x \in NamedItems /\ x.pairs = 0 /\ y = [x EXCEPT !.pairs = c]
      BY <2>3 DEF Settled, NamedItems
    <2>4. CASE x \in GroupItems /\ x.cmds = 0 /\ y = [x EXCEPT !.cmds = c]
      BY <2>4 DEF Settled, GroupItems
    <2> QED BY <1>5, <2>1, <2>2, <2>3, <2>4
  <1> QED BY <1>3, <1>4, <1>5 DEF Grows

LEMMA RebranchesKept ==
  ASSUME TypeOK, NEW k, Rebranches(k)
  PROVE  Kept
  <1>1. /\ used \in Nat /\ 1 .. used \subseteq ItemIds
        /\ \A i \in 1 .. used : items[i] \in Item
    BY Ids, ItemSpaceAssumption DEF TypeOK, OptId, ItemIds
  <1>2. \A i \in 1 .. used : Settled(items[i], items[i])
    BY <1>1, SettledItself
  <1>3. Settled(items[k], items'[k])
    BY DEF Rebranches, Settled, CondItems
  <1>4. ASSUME NEW i \in 1 .. used, items[i] \in GroupItems, items'[i] \in GroupItems,
               items[i].cmds = 0, items'[i].cmds = 0
        PROVE  Settled(items[i], items'[i])
    BY <1>4 DEF Settled, GroupItems
  <1> QED BY <1>2, <1>3, <1>4 DEF Kept, Rebranches

LEMMA StillKept ==
  ASSUME TypeOK, Still
  PROVE  Kept
  <1>1. 1 .. used \subseteq ItemIds /\ \A i \in 1 .. used : items[i] \in Item
    BY Ids, ItemSpaceAssumption DEF TypeOK, OptId, ItemIds
  <1> QED BY <1>1, SettledItself DEF Kept, Still

\* add_string() takes no character back.
LEMMA CharsGrow ==
  ASSUME NEW name \in GroupNames, chars \in 0 .. StringSpace
  PROVE  CharsAfter(name) >= chars
  <1> Needed(name) \in Nat
    BY NameLenAssumption DEF Needed, GroupNames
  <1> QED BY StringSpaceAssumption DEF CharsAfter, Fits

-----------------------------------------------------------------------------
(* What each call does.                                                    *)

\* The new node c of `command' is linked behind what scope g ends in.
AppendedTo(g, command, c) ==
  /\ items'[c] = CmdsItem(command)
  /\ IF scope[g].last # 0 THEN Grows(scope[g].last, "next", c) ELSE Grows(g, "cmds", c)

\* append_command_node() sets one link.
LEMMA AppendEffect ==
  ASSUME IInv, NEW g \in OpenScopes, NEW its, NEW command, NEW c,
         Appending(g, its, command, c)
  PROVE  /\ AppendedTo(g, command, c)
         /\ \A i \in ItemIds : i > used /\ i # c => items'[i] = its[i]
  <1>1. /\ its \in [ItemIds -> Item]
        /\ \A i \in 1 .. used : its[i] = items[i]
        /\ command \in OptId /\ c \in OptId /\ used' \in OptId
        /\ used < command /\ command < c /\ c <= used'
        /\ items' = AppendNode(its, g, command, c)
        /\ cmds_id' = RootAfter(g, c)
    BY DEF Appending
  <1>2. /\ scope[g] \in Scopes /\ used \in Nat /\ c \in Nat /\ c \in ItemIds /\ command \in Nat
        /\ 1 .. used \subseteq ItemIds /\ c \notin 1 .. used /\ ItemIds \subseteq Nat
        /\ items \in [ItemIds -> Item]
    BY <1>1, OpenIsScope, Ids, ItemSpaceAssumption DEF IInv, TypeOK, OptId, ItemIds
  <1>3. ScopeLinks(g)
    BY DEF IInv, ScopesTyped
  <1>4. /\ items'[c] = CmdsItem(command)
        /\ \A i \in ItemIds : i > used /\ i # c => items'[i] = its[i]
    BY <1>1, AppendKeeps
  <1> DEFINE stored == [its EXCEPT ![c] = CmdsItem(command)]
  <1>5. stored[c] = CmdsItem(command) /\ \A i \in 1 .. used : stored[i] = items[i]
    BY <1>1, <1>2
  <1>6. stored = [i \in ItemIds |-> stored[i]]
    BY <1>1
  <1>7. CASE scope[g].last # 0
    <2>0. PICK l : l = scope[g].last
      OBVIOUS
    <2>1. /\ l \in 1 .. used /\ items[l].kind = "Cmds" /\ items[l].next = 0
          /\ scope[g].first # 0 /\ l # c /\ l \in ItemIds /\ items[l] \in CmdsItems
      BY <1>2, <1>3, <1>7, <2>0, ItemKinds DEF ScopeLinks, Stored
    <2>2. items' = [stored EXCEPT ![l].next = c]
      BY <1>1, <2>0, <2>1 DEF AppendNode
    <2> HIDE DEF stored
    <2>3. items'[l] = [items[l] EXCEPT !.next = c] /\ \A i \in 1 .. used : i # l => items'[i] = items[i]
      BY <1>2, <1>5, <1>6, <2>1, <2>2
    <2>4. cmds_id' = cmds_id
      BY <1>1, <2>1 DEF RootAfter
    <2>5. Grows(l, "next", c)
      BY <1>1, <1>2, <2>1, <2>3, <2>4 DEF Grows
    <2> QED BY <1>4, <1>7, <2>0, <2>5 DEF AppendedTo
  <1>8. CASE scope[g].last = 0 /\ g # 0
    <2>1. /\ g \in 1 .. used /\ items[g].kind = "Group" /\ scope[g].first = 0 /\ items[g].cmds = 0
          /\ g # c /\ g \in ItemIds /\ items[g] \in GroupItems
      BY <1>2, <1>3, <1>8, ItemKinds DEF ScopeLinks, Stored
    <2>2. items' = [stored EXCEPT ![g].cmds = c]
      BY <1>1, <1>8, <2>1 DEF AppendNode
    <2> HIDE DEF stored
    <2>3. items'[g] = [items[g] EXCEPT !.cmds = c] /\ \A i \in 1 .. used : i # g => items'[i] = items[i]
      BY <1>2, <1>5, <1>6, <2>1, <2>2
    <2>4. cmds_id' = cmds_id
      BY <1>1, <1>8 DEF RootAfter
    <2>5. Grows(g, "cmds", c)
      BY <1>1, <1>2, <2>1, <2>3, <2>4 DEF Grows
    <2> QED BY <1>4, <1>8, <2>5 DEF AppendedTo
  <1>9. CASE scope[g].last = 0 /\ g = 0
    <2>1. scope[g].first = 0 /\ cmds_id = 0
      BY <1>3, <1>9 DEF ScopeLinks
    <2>2. items' = stored /\ cmds_id' = c
      BY <1>1, <1>9, <2>1 DEF AppendNode, RootAfter
    <2>3. \A i \in 1 .. used : items'[i] = items[i]
      BY <1>5, <2>2
    <2>4. Grows(g, "cmds", c)
      BY <1>1, <1>2, <1>9, <2>1, <2>2, <2>3 DEF Grows
    <2> QED BY <1>4, <1>9, <2>4 DEF AppendedTo
  <1> QED BY <1>7, <1>8, <1>9

\* A call that gives up changes nothing that was there.
LEMMA StillEffect ==
  ASSUME NEW g, OnlyNew(g)
  PROVE  Still
  BY DEF OnlyNew, Still

\* Named that starts a command stores the command, its node and its pair.
LEMMA StartNamedEffect ==
  ASSUME IInv, NEW g \in OpenScopes, NEW mask \in Mask, NEW value \in Mask,
         NEW name \in Names, StartNamed(g, mask, value, name)
  PROVE  /\ used' = used + 3
         /\ AppendedTo(g, used + 1, used + 2)
         /\ items'[used + 1] = [NamedItem(mask) EXCEPT !.pairs = used + 3]
         /\ items'[used + 3] = PairsItem(value, name)
         /\ \A i \in ItemIds : i > used + 3 => items'[i] = items[i]
  <1> DEFINE n == used + 1
             c == used + 2
             p == used + 3
             its == [items EXCEPT ![n] = [NamedItem(mask) EXCEPT !.pairs = p],
                                  ![p] = PairsItem(value, name)]
  <1>1. /\ used \in Nat /\ used' = p /\ ItemIds \subseteq Nat /\ OptId \subseteq Nat
        /\ n \in ItemIds /\ c \in ItemIds /\ p \in ItemIds /\ ItemIds \subseteq OptId
        /\ items \in [ItemIds -> Item]
    BY Ids, ItemSpaceAssumption DEF IInv, TypeOK, StartNamed, Room, OptId, ItemIds
  <1>2. items' = AppendNode(its, g, n, c) /\ cmds_id' = RootAfter(g, c)
    BY DEF StartNamed
  <1>3. /\ [NamedItem(mask) EXCEPT !.pairs = p] \in NamedItems
        /\ PairsItem(value, name) \in PairsItems
    BY <1>1, ItemMade, ItemChanged
  <1>4. /\ its \in [ItemIds -> Item]
        /\ \A i \in ItemIds : i # n /\ i # p => its[i] = items[i]
        /\ its[n] = [NamedItem(mask) EXCEPT !.pairs = p]
        /\ its[p] = PairsItem(value, name)
    <2>1. [NamedItem(mask) EXCEPT !.pairs = p] \in Item /\ PairsItem(value, name) \in Item /\ n # p
      BY <1>1, <1>3 DEF Item
    <2> QED BY <1>1, <2>1
  <1>5. its[n].kind \in CommandKinds
    BY <1>3, <1>4 DEF NamedItems, CommandKinds
  <1> HIDE DEF its
  <1>6. Appending(g, its, n, c)
    <2>1. \A i \in 1 .. used : its[i] = items[i]
      BY <1>1, <1>4, ItemSpaceAssumption DEF ItemIds
    <2> QED BY <1>1, <1>2, <1>4, <1>5, <2>1 DEF Appending
  <1>7. /\ AppendedTo(g, n, c)
        /\ \A i \in ItemIds : i > used /\ i # c => items'[i] = its[i]
    BY <1>6, AppendEffect
  <1> QED BY <1>1, <1>4, <1>7

\* Named whose pair does not fit has stored the command, still empty, and its node.
LEMMA FirstPairEffect ==
  ASSUME IInv, NEW g \in OpenScopes, NEW mask \in Mask, NEW value \in Mask,
         NEW name \in Names, FirstPairThrows(g, mask, value, name)
  PROVE  /\ used' = used + 2
         /\ AppendedTo(g, used + 1, used + 2)
         /\ items'[used + 1] = NamedItem(mask)
         /\ \A i \in ItemIds : i > used + 2 => items'[i] = items[i]
  <1> DEFINE n == used + 1
             c == used + 2
             its == [items EXCEPT ![n] = NamedItem(mask)]
  <1>1. /\ used \in Nat /\ used' = c /\ ItemIds \subseteq Nat /\ OptId \subseteq Nat
        /\ n \in ItemIds /\ c \in ItemIds /\ ItemIds \subseteq OptId
        /\ items \in [ItemIds -> Item]
    BY Ids, ItemSpaceAssumption DEF IInv, TypeOK, FirstPairThrows, Room, OptId, ItemIds
  <1>2. items' = AppendNode(its, g, n, c) /\ cmds_id' = RootAfter(g, c)
    BY DEF FirstPairThrows
  <1>3. NamedItem(mask) \in NamedItems
    BY ItemMade
  <1>4. /\ its \in [ItemIds -> Item]
        /\ \A i \in ItemIds : i # n => its[i] = items[i]
        /\ its[n] = NamedItem(mask)
    <2>1. NamedItem(mask) \in Item
      BY <1>3 DEF Item
    <2> QED BY <1>1, <2>1
  <1>5. its[n].kind \in CommandKinds
    BY <1>3, <1>4 DEF NamedItems, CommandKinds
  <1> HIDE DEF its
  <1>6. Appending(g, its, n, c)
    <2>1. \A i \in 1 .. used : its[i] = items[i]
      BY <1>1, <1>4, ItemSpaceAssumption DEF ItemIds
    <2> QED BY <1>1, <1>2, <1>4, <1>5, <2>1 DEF Appending
  <1>7. /\ AppendedTo(g, n, c)
        /\ \A i \in ItemIds : i > used /\ i # c => items'[i] = its[i]
    BY <1>6, AppendEffect
  <1> QED BY <1>1, <1>4, <1>7

\* Numeric stores the field and its node.
LEMMA AddNumericEffect ==
  ASSUME IInv, NEW g \in OpenScopes, NEW mask \in Mask, NEW name \in Names,
         NEW format \in Formats, AddNumeric(g, mask, name, format)
  PROVE  /\ used' = used + 2
         /\ AppendedTo(g, used + 1, used + 2)
         /\ items'[used + 1] = NumericItem(mask, format, name)
         /\ \A i \in ItemIds : i > used + 2 => items'[i] = items[i]
  <1> DEFINE n == used + 1
             c == used + 2
             its == [items EXCEPT ![n] = NumericItem(mask, format, name)]
  <1>1. /\ used \in Nat /\ used' = c /\ ItemIds \subseteq Nat /\ OptId \subseteq Nat
        /\ n \in ItemIds /\ c \in ItemIds /\ ItemIds \subseteq OptId
        /\ items \in [ItemIds -> Item]
    BY Ids, ItemSpaceAssumption DEF IInv, TypeOK, AddNumeric, Room, OptId, ItemIds
  <1>2. items' = AppendNode(its, g, n, c) /\ cmds_id' = RootAfter(g, c)
    BY DEF AddNumeric
  <1>3. NumericItem(mask, format, name) \in NumericItems
    BY ItemMade
  <1>4. /\ its \in [ItemIds -> Item]
        /\ \A i \in ItemIds : i # n => its[i] = items[i]
        /\ its[n] = NumericItem(mask, format, name)
    <2>1. NumericItem(mask, format, name) \in Item
      BY <1>3 DEF Item
    <2> QED BY <1>1, <2>1
  <1>5. its[n].kind \in CommandKinds
    BY <1>3, <1>4 DEF NumericItems, CommandKinds
  <1> HIDE DEF its
  <1>6. Appending(g, its, n, c)
    <2>1. \A i \in 1 .. used : its[i] = items[i]
      BY <1>1, <1>4, ItemSpaceAssumption DEF ItemIds
    <2> QED BY <1>1, <1>2, <1>4, <1>5, <2>1 DEF Appending
  <1>7. /\ AppendedTo(g, n, c)
        /\ \A i \in ItemIds : i > used /\ i # c => items'[i] = its[i]
    BY <1>6, AppendEffect
  <1> QED BY <1>1, <1>4, <1>7

\* If and IfNot store the Group, the Conditional and its node.
LEMMA OpenIfEffect ==
  ASSUME IInv, NEW g \in OpenScopes, NEW selector \in Mask, NEW mask \in Mask,
         NEW when \in BOOLEAN, NEW label \in GroupNames,
         OpenIf(g, selector, mask, when, label)
  PROVE  /\ used' = used + 3
         /\ AppendedTo(g, used + 2, used + 3)
         /\ items'[used + 1] = GroupItem(label)
         /\ items'[used + 2] = FirstBranch(selector, mask, when, used + 1)
         /\ \A i \in ItemIds : i > used + 3 => items'[i] = items[i]
  <1> DEFINE grp == used + 1
             cond == used + 2
             c == used + 3
             its == [items EXCEPT ![grp] = GroupItem(label),
                                  ![cond] = FirstBranch(selector, mask, when, grp)]
  <1>1. /\ used \in Nat /\ used' = c /\ ItemIds \subseteq Nat /\ OptId \subseteq Nat
        /\ grp \in ItemIds /\ cond \in ItemIds /\ c \in ItemIds /\ ItemIds \subseteq OptId
        /\ items \in [ItemIds -> Item]
    BY Ids, ItemSpaceAssumption DEF IInv, TypeOK, OpenIf, Room, OptId, ItemIds
  <1>2. items' = AppendNode(its, g, cond, c) /\ cmds_id' = RootAfter(g, c)
    BY DEF OpenIf
  <1>3. /\ GroupItem(label) \in GroupItems
        /\ FirstBranch(selector, mask, when, grp) \in CondItems
    BY <1>1, ItemMade, FirstBranchMade
  <1>4. /\ its \in [ItemIds -> Item]
        /\ \A i \in ItemIds : i # grp /\ i # cond => its[i] = items[i]
        /\ its[grp] = GroupItem(label)
        /\ its[cond] = FirstBranch(selector, mask, when, grp)
    <2>1. /\ GroupItem(label) \in Item /\ FirstBranch(selector, mask, when, grp) \in Item
          /\ grp # cond
      BY <1>1, <1>3 DEF Item
    <2> QED BY <1>1, <2>1
  <1>5. its[cond].kind \in CommandKinds
    BY <1>3, <1>4 DEF CondItems, CommandKinds
  <1> HIDE DEF its
  <1>6. Appending(g, its, cond, c)
    <2>1. \A i \in 1 .. used : its[i] = items[i]
      BY <1>1, <1>4, ItemSpaceAssumption DEF ItemIds
    <2> QED BY <1>1, <1>2, <1>4, <1>5, <2>1 DEF Appending
  <1>7. /\ AppendedTo(g, cond, c)
        /\ \A i \in ItemIds : i > used /\ i # c => items'[i] = its[i]
    BY <1>6, AppendEffect
  <1> QED BY <1>1, <1>4, <1>7

\* A further pair is linked behind the last one, or becomes the first one.
LEMMA ExtendNamedEffect ==
  ASSUME IInv, NEW g \in OpenScopes, NEW mask \in Mask, NEW value \in Mask,
         NEW name \in Names, ExtendNamed(g, mask, value, name)
  PROVE  /\ used' = used + 1
         /\ \/ Grows(scope[g].implicit.last_pair, "next", used + 1)
            \/ Grows(scope[g].implicit.named, "pairs", used + 1)
         /\ items'[used + 1] = PairsItem(value, name)
         /\ \A i \in ItemIds : i > used + 1 => items'[i] = items[i]
  <1> DEFINE p == used + 1
             imp == scope[g].implicit
  <1>1. /\ used \in Nat /\ used' = p /\ p \in ItemIds /\ ItemIds \subseteq OptId /\ ItemIds \subseteq Nat
        /\ items \in [ItemIds -> Item] /\ scope[g].implicit.named # 0
        /\ cmds_id' = cmds_id
    BY Ids, ItemSpaceAssumption
       DEF IInv, TypeOK, ExtendNamed, Room, OptId, ItemIds, Reusable
  <1>2. PairsItem(value, name) \in PairsItems
    BY ItemMade
  <1>3. items' = LinkPair([items EXCEPT ![p] = PairsItem(value, name)], g, p)
    BY DEF ExtendNamed
  <1>4. /\ items'[p] = PairsItem(value, name)
        /\ \E o \in 1 .. used :
             /\ \A i \in 1 .. used : i # o => items'[i] = items[i]
             /\ \/ /\ o = imp.named /\ items[o].pairs = 0
                   /\ items[o] \in NamedItems
                   /\ items'[o] = [items[o] EXCEPT !.pairs = p]
                \/ /\ o = imp.last_pair /\ items[o].next = 0
                   /\ items[o] \in PairsItems
                   /\ items'[o] = [items[o] EXCEPT !.next = p]
    <2>1. PICK pair : pair = PairsItem(value, name)
      OBVIOUS
    <2>2. pair \in PairsItems /\ items' = LinkPair([items EXCEPT ![used + 1] = pair], g, used + 1)
      BY <1>2, <1>3, <2>1
    <2>3. /\ items'[used + 1] = pair
          /\ \E o \in 1 .. used :
               /\ \A i \in 1 .. used : i # o => items'[i] = items[i]
               /\ \/ /\ o = scope[g].implicit.named /\ items[o].pairs = 0
                     /\ items[o] \in NamedItems
                     /\ items'[o] = [items[o] EXCEPT !.pairs = used + 1]
                  \/ /\ o = scope[g].implicit.last_pair /\ items[o].next = 0
                     /\ items[o] \in PairsItems
                     /\ items'[o] = [items[o] EXCEPT !.next = used + 1]
      BY <1>1, <2>2, LinkPairEffect
    <2> QED BY <2>1, <2>3
  <1>5. \/ Grows(imp.last_pair, "next", p)
        \/ Grows(imp.named, "pairs", p)
    BY <1>1, <1>4 DEF Grows
  <1>6. /\ imp.named \in 1 .. used
        /\ imp.last_pair # 0 => imp.last_pair \in 1 .. used
        /\ items[imp.named].pairs = 0 <=> imp.last_pair = 0
    BY <1>1 DEF IInv, ScopesTyped, ScopeLinks, Stored
  <1>7. \A i \in ItemIds : i > p => items'[i] = items[i]
    <2>1. PICK its : its = [items EXCEPT ![p] = PairsItem(value, name)]
      OBVIOUS
    <2>2. /\ \A i \in ItemIds : i # p => its[i] = items[i]
          /\ DOMAIN its = ItemIds
      BY <1>1, <2>1
    <2>3. \/ items' = [its EXCEPT ![imp.named].pairs = p]
          \/ imp.last_pair # 0 /\ items' = [its EXCEPT ![imp.last_pair].next = p]
      <3>1. imp.named \in ItemIds /\ imp.named # p
        BY <1>1, <1>6, ItemSpaceAssumption DEF ItemIds
      <3> QED BY <1>3, <1>6, <2>1, <2>2, <3>1 DEF LinkPair
    <2>4. \A i \in ItemIds : i # imp.named /\ i # imp.last_pair => items'[i] = its[i]
      BY <2>2, <2>3
    <2>5. \A i \in ItemIds : i > p => i # p /\ i \notin 1 .. used /\ i # 0
      BY <1>1
    <2> HIDE DEF imp
    <2> QED BY <1>6, <2>2, <2>4, <2>5
  <1> QED BY <1>1, <1>4, <1>5, <1>7

\* Else behind a branch with commands gives the Conditional its other branch.
LEMMA OpenElseEffect ==
  ASSUME IInv, NEW g \in OpenScopes, NEW label \in GroupNames, OpenElse(g, label)
  PROVE  /\ used' = used + 1 /\ used + 1 \in ItemIds
         /\ Rebranches(scope[g].cond)
         /\ items'[scope[g].cond] = OtherSide(items[scope[g].cond], g, used + 1)
         /\ items'[used + 1] = GroupItem(label)
         /\ \A i \in ItemIds : i # scope[g].cond /\ i # used + 1 => items'[i] = items[i]
  <1>0. PICK grp, k : grp = used + 1 /\ k = scope[g].cond
    OBVIOUS
  <1>1. /\ used \in Nat /\ used' = grp /\ grp \in ItemIds /\ grp \in OptId
        /\ grp \notin 1 .. used /\ items \in [ItemIds -> Item]
        /\ scope[g].kind # "Root"
    BY <1>0, Ids, ItemSpaceAssumption
       DEF IInv, TypeOK, OpenElse, Room, OptId, ItemIds
  <1>2. /\ items' = [items EXCEPT ![grp] = GroupItem(label), ![k] = OtherSide(@, g, grp)]
        /\ cmds_id' = cmds_id
    BY <1>0 DEF OpenElse
  <1>3. k \in 1 .. used /\ items[k] \in CondItems /\ 1 .. used \subseteq ItemIds /\ g \in OptId
    BY <1>0, <1>1, BranchItems, OpenIsScope DEF IInv
  <1>4. /\ items'[k] = OtherSide(items[k], g, grp)
        /\ items'[grp] = GroupItem(label)
        /\ \A i \in ItemIds : i # k /\ i # grp => items'[i] = items[i]
    <2>1. k # grp /\ k \in ItemIds
      BY <1>1, <1>3
    <2> QED BY <1>1, <1>2, <2>1
  <1>5. /\ items'[k] \in CondItems
        /\ items'[k].group_bitmask = items[k].group_bitmask
        /\ items'[k].bitmask = items[k].bitmask
    BY <1>1, <1>3, <1>4, CondChanged DEF OtherSide, CondItems
  <1>6. \A i \in 1 .. used : i # k => items'[i] = items[i]
    BY <1>1, <1>3, <1>4
  <1>7. Rebranches(k)
    BY <1>0, <1>1, <1>2, <1>3, <1>5, <1>6 DEF Rebranches
  <1> QED BY <1>0, <1>1, <1>4, <1>7

\* Else behind an empty branch moves its Group to the other side.
LEMMA ReuseAsElseEffect ==
  ASSUME IInv, NEW g \in OpenScopes, NEW label \in GroupNames, ReuseAsElse(g, label)
  PROVE  /\ used' = used /\ scope[g].cond # g
         /\ Rebranches(scope[g].cond)
         /\ items'[scope[g].cond] = Flipped(items[scope[g].cond], g)
         /\ items'[g] = [items[g] EXCEPT !.name = label]
         /\ \A i \in ItemIds : i # scope[g].cond /\ i # g => items'[i] = items[i]
  <1>0. PICK k : k = scope[g].cond
    OBVIOUS
  <1>1. /\ used \in Nat /\ used' = used /\ used \in OptId /\ items \in [ItemIds -> Item]
        /\ scope[g].kind # "Root" /\ items[g].cmds = 0
    BY <1>0, Ids DEF IInv, TypeOK, ReuseAsElse, HasCommands
  <1>2. /\ items' = [items EXCEPT ![g].name = label, ![k] = Flipped(@, g)]
        /\ cmds_id' = cmds_id
    BY <1>0 DEF ReuseAsElse
  <1>3. /\ k \in 1 .. used /\ items[k] \in CondItems /\ items[k].kind = "Conditional"
        /\ g \in 1 .. used /\ items[g] \in GroupItems /\ items[g].kind = "Group"
        /\ 1 .. used \subseteq ItemIds /\ g \in OptId
    BY <1>0, <1>1, BranchItems, OpenIsScope DEF IInv
  <1>4. /\ items'[k] = Flipped(items[k], g)
        /\ items'[g] = [items[g] EXCEPT !.name = label]
        /\ \A i \in ItemIds : i # k /\ i # g => items'[i] = items[i]
        /\ k # g
    <2>1. k # g /\ k \in ItemIds /\ g \in ItemIds
      BY <1>3
    <2> QED BY <1>1, <1>2, <2>1
  <1>5. /\ items'[k] \in CondItems
        /\ items'[k].group_bitmask = items[k].group_bitmask
        /\ items'[k].bitmask = items[k].bitmask
    <2>1. Flipped(items[k], g) \in CondItems
      BY <1>3, Ids, CondChanged
    <2> QED BY <1>3, <1>4, <2>1 DEF Flipped, CondItems
  <1>6. items'[g] \in GroupItems /\ items'[g].cmds = 0
    BY <1>1, <1>3, <1>4 DEF GroupItems
  <1>7. Rebranches(k)
    BY <1>1, <1>2, <1>3, <1>4, <1>5, <1>6 DEF Rebranches
  <1> QED BY <1>0, <1>1, <1>4, <1>7

\* End of an empty else branch takes it out of the Conditional.
LEMMA DropEmptyElseEffect ==
  ASSUME IInv, NEW g \in OpenScopes, DropEmptyElse(g)
  PROVE  /\ used' = used /\ scope[g].cond # g
         /\ Rebranches(scope[g].cond)
         /\ items'[scope[g].cond] = WithoutBranch(items[scope[g].cond], g)
         /\ items'[g] = [items[g] EXCEPT !.name = NoName]
         /\ \A i \in ItemIds : i # scope[g].cond /\ i # g => items'[i] = items[i]
  <1>0. PICK k : k = scope[g].cond
    OBVIOUS
  <1>1. /\ used \in Nat /\ used' = used /\ used \in OptId /\ items \in [ItemIds -> Item]
        /\ scope[g].kind # "Root" /\ items[g].cmds = 0
    BY <1>0, Ids DEF IInv, TypeOK, DropEmptyElse, HasCommands
  <1>2. /\ items' = [items EXCEPT ![k] = WithoutBranch(items[k], g), ![g].name = NoName]
        /\ cmds_id' = cmds_id
    BY <1>0 DEF DropEmptyElse
  <1>3. /\ k \in 1 .. used /\ items[k] \in CondItems /\ items[k].kind = "Conditional"
        /\ g \in 1 .. used /\ items[g] \in GroupItems /\ items[g].kind = "Group"
        /\ 1 .. used \subseteq ItemIds /\ g \in OptId
    BY <1>0, <1>1, BranchItems, OpenIsScope DEF IInv
  <1>4. /\ items'[k] = WithoutBranch(items[k], g)
        /\ items'[g] = [items[g] EXCEPT !.name = NoName]
        /\ \A i \in ItemIds : i # k /\ i # g => items'[i] = items[i]
        /\ k # g
    <2>1. k # g /\ k \in ItemIds /\ g \in ItemIds
      BY <1>3
    <2> QED BY <1>1, <1>2, <2>1
  <1>5. /\ items'[k] \in CondItems
        /\ items'[k].group_bitmask = items[k].group_bitmask
        /\ items'[k].bitmask = items[k].bitmask
    <2>1. WithoutBranch(items[k], g) \in CondItems
      BY <1>3, Ids, CondChanged
    <2> QED BY <1>3, <1>4, <2>1 DEF WithoutBranch, CondItems
  <1>6. items'[g] \in GroupItems /\ items'[g].cmds = 0
    BY <1>1, <1>3, <1>4 DEF GroupItems, GroupNames
  <1>7. Rebranches(k)
    BY <1>1, <1>2, <1>3, <1>4, <1>5, <1>6 DEF Rebranches
  <1> QED BY <1>0, <1>1, <1>4, <1>7
-----------------------------------------------------------------------------
(* No call rewrites what is stored.                                        *)

\* Linking a command's node only adds to what is stored.
LEMMA AppendedKept ==
  ASSUME TypeOK, NEW g, NEW command, NEW c, AppendedTo(g, command, c)
  PROVE  Kept
  BY GrowsKept DEF AppendedTo

\* A call that gives up only adds to what is stored.
LEMMA GivesUpKept ==
  ASSUME IInv, NEW g, OnlyNew(g)
  PROVE  Kept
  BY StillEffect, StillKept DEF IInv

\* Every call on an open scope only adds to both heaps.
LEMMA CallKept ==
  ASSUME IInv, NEW g \in OpenScopes, Call(g)
  PROVE  Kept /\ chars' >= chars
  <1>0. /\ TypeOK /\ chars \in 0 .. StringSpace /\ chars \in Nat
        /\ Names \subseteq GroupNames /\ \A name \in GroupNames : CharsAfter(name) >= chars
    BY CharsGrow, StringSpaceAssumption DEF IInv, TypeOK, GroupNames
  <1>1. ASSUME NEW mask \in CallMasks \union {{}}, NEW value \in Mask, NEW name \in Names,
               Named(g, mask, value, name)
        PROVE  Kept /\ chars' >= chars
    <2>1. mask \in Mask
      BY ArgumentTypes
    <2>2. CASE ExtendNamed(g, mask, value, name)
      <3>1. Kept
        BY <1>0, <2>1, <2>2, ExtendNamedEffect, GrowsKept
      <3> QED BY <1>0, <2>2, <3>1 DEF ExtendNamed
    <2>3. CASE StartNamed(g, mask, value, name)
      <3>1. Kept
        BY <1>0, <2>1, <2>3, StartNamedEffect, AppendedKept
      <3> QED BY <1>0, <2>3, <3>1 DEF StartNamed
    <2>4. CASE ExtendNamedThrows(g, mask, value, name)
      <3>1. Kept
        BY <2>1, <2>4, ExtendNamedThrowsGivesUp, GivesUpKept
      <3> QED BY <1>0, <2>4, <3>1 DEF ExtendNamedThrows
    <2>5. CASE StartNamedThrows(g, mask, value)
      <3>1. Kept
        BY <2>1, <2>5, StartNamedThrowsGivesUp, GivesUpKept
      <3> QED BY <1>0, <2>5, <3>1 DEF StartNamedThrows
    <2>6. CASE FirstPairThrows(g, mask, value, name)
      <3>1. Kept
        BY <1>0, <2>1, <2>6, FirstPairEffect, AppendedKept
      <3> QED BY <1>0, <2>6, <3>1 DEF FirstPairThrows
    <2> QED BY <1>1, <2>2, <2>3, <2>4, <2>5, <2>6 DEF Named
  <1>2. ASSUME NEW mask \in CallMasks, NEW name \in Names, NEW format \in Formats,
               Numeric(g, mask, name, format)
        PROVE  Kept /\ chars' >= chars
    <2>1. mask \in Mask
      BY ArgumentTypes
    <2>2. CASE AddNumeric(g, mask, name, format)
      <3>1. Kept
        BY <1>0, <2>1, <2>2, AddNumericEffect, AppendedKept
      <3> QED BY <1>0, <2>2, <3>1 DEF AddNumeric
    <2>3. CASE NumericThrows(g, mask, name, format)
      <3>1. Kept
        BY <2>1, <2>3, NumericThrowsGivesUp, GivesUpKept
      <3> QED BY <1>0, <2>3, <3>1 DEF NumericThrows
    <2> QED BY <1>2, <2>2, <2>3 DEF Numeric
  <1>3. ASSUME NEW selector \in Selectors, NEW mask \in CallMasks, NEW when \in BOOLEAN,
               NEW label \in Labels, If(g, selector, mask, when, label)
        PROVE  Kept /\ chars' >= chars
    <2>1. selector \in Mask /\ mask \in Mask /\ label \in GroupNames
      BY ArgumentTypes
    <2>2. CASE OpenIf(g, selector, mask, when, label)
      <3>1. Kept
        BY <1>0, <2>1, <2>2, OpenIfEffect, AppendedKept
      <3> QED BY <1>0, <2>1, <2>2, <3>1 DEF OpenIf
    <2>3. CASE IfThrows(g, selector, mask, when, label)
      <3>1. Kept
        BY <2>1, <2>3, IfThrowsGivesUp, GivesUpKept
      <3> QED BY <1>0, <2>1, <2>3, <3>1 DEF IfThrows
    <2> QED BY <1>3, <2>2, <2>3 DEF If
  <1>4. ASSUME NEW label \in Labels, Else(g, label)
        PROVE  Kept /\ chars' >= chars
    <2>1. label \in GroupNames
      BY ArgumentTypes
    <2>2. CASE OpenElse(g, label)
      <3>1. Kept
        BY <1>0, <2>1, <2>2, OpenElseEffect, RebranchesKept
      <3> QED BY <1>0, <2>1, <2>2, <3>1 DEF OpenElse
    <2>3. CASE ReuseAsElse(g, label)
      <3>1. Kept
        BY <1>0, <2>1, <2>3, ReuseAsElseEffect, RebranchesKept
      <3> QED BY <1>0, <2>1, <2>3, <3>1 DEF ReuseAsElse
    <2>4. CASE ElseThrows(g, label)
      <3>1. Kept
        BY <2>1, <2>4, ElseThrowsGivesUp, GivesUpKept
      <3> QED BY <1>0, <2>1, <2>4, <3>1 DEF ElseThrows
    <2> QED BY <1>4, <2>2, <2>3, <2>4 DEF Else
  <1>5. CASE EndBranch(g)
    <2>1. Still
      BY <1>0, <1>5, Ids DEF EndBranch, Still, TypeOK
    <2> QED BY <1>0, <1>5, <2>1, StillKept DEF EndBranch
  <1>6. CASE DropEmptyElse(g)
    <2>1. Kept
      BY <1>0, <1>6, DropEmptyElseEffect, RebranchesKept
    <2> QED BY <1>0, <1>6, <2>1 DEF DropEmptyElse
  <1> QED BY <1>1, <1>2, <1>3, <1>4, <1>5, <1>6 DEF Call, End

-----------------------------------------------------------------------------
(* Who owns what: the invariant of the links.                              *)

\* The slots that are not in use hold nothing.
FreeAbove == \A i \in ItemIds : i > used => items[i].kind = "Free"

\* The enum's list starts in the heap.
RootInside == cmds_id \in 0 .. used

OneOwner ==
  \A i, k \in OptId, e, f \in LinkFields, j \in ItemIds :
    Linked(i, e, j) /\ Linked(k, f, j) => i = k /\ e = f

ListsOwned ==
  \A j \in 1 .. used : items[j].kind \in {"Cmds", "Pairs"} =>
    \E i \in OptId, f \in LinkFields : Linked(i, f, j)

Owners == FreeAbove /\ RootInside /\ OneOwner /\ ListsOwned

\* All links are inside the used part of the heap.
LEMMA LinksInside ==
  ASSUME TypeOK, LinksTyped, FreeAbove, RootInside,
         NEW i \in OptId, NEW f \in LinkFields, NEW j \in ItemIds, Linked(i, f, j)
  PROVE  j \in 1 .. used /\ i \in 0 .. used
  <1>1. used \in Nat /\ i \in Nat /\ j \in Nat /\ j # 0
    BY Ids DEF TypeOK, ItemIds
  <1>2. CASE i = 0 /\ f = "cmds" /\ j = cmds_id
    BY <1>1, <1>2 DEF RootInside
  <1>3. CASE i \in ItemIds /\ LinkFrom(items[i], f, j)
    <2>1. items[i].kind # "Free"
      BY <1>3 DEF LinkFrom
    <2>2. i \in 1 .. used
      BY <1>1, <1>3, <2>1 DEF FreeAbove, ItemIds
    <2>3. LinksOf(i)
      BY <2>2 DEF LinksTyped
    <2> QED BY <1>1, <1>3, <2>2, <2>3 DEF LinkFrom, LinksOf, Onward, Earlier, Stored
  <1> QED BY <1>2, <1>3 DEF Linked

\* The items a call has stored link only to each other, each at most once,
\* and c, the one that is linked from an older item, from none of them.
NewSound(c) ==
  /\ \A i \in ItemIds : i > used' => items'[i] = items[i]
  /\ \A i, j \in ItemIds, f \in LinkFields : i > used /\ LinkFrom(items'[i], f, j) =>
       /\ j > used /\ j # c
       /\ \A k \in ItemIds, e \in LinkFields : k > used /\ LinkFrom(items'[k], e, j) => k = i /\ e = f
  /\ \A j \in ItemIds : j > used /\ items'[j].kind \in {"Cmds", "Pairs"} =>
       j = c \/ \E i \in ItemIds, f \in LinkFields : i > used /\ LinkFrom(items'[i], f, j)

\* The links that are there after an older item took over a new one.
LEMMA GrowsLinks ==
  ASSUME TypeOK, TypeOK', NEW o, NEW fo, NEW c, Grows(o, fo, c)
  PROVE  /\ fo \in LinkFields /\ o \in OptId
         /\ Linked(o, fo, c)'
         /\ \A i \in OptId, f \in LinkFields, j \in ItemIds : Linked(i, f, j)' =>
              \/ Linked(i, f, j) /\ i \in 0 .. used
              \/ i = o /\ f = fo /\ j = c
              \/ i \in ItemIds /\ i > used /\ LinkFrom(items'[i], f, j)
  <1>1. /\ used \in Nat /\ 0 \in OptId /\ 1 .. used \subseteq ItemIds /\ ItemIds \subseteq OptId
        /\ ItemIds \subseteq Nat /\ OptId \subseteq Nat /\ 0 \notin ItemIds /\ c \in ItemIds
        /\ \A i \in ItemIds : i > used \/ i \in 1 .. used
    BY Ids, ItemSpaceAssumption DEF TypeOK, OptId, ItemIds, Grows
  <1>2. CASE /\ o = 0 /\ fo = "cmds" /\ cmds_id' = c
             /\ \A i \in 1 .. used : items'[i] = items[i]
    <2>1. fo \in LinkFields /\ o \in OptId /\ Linked(o, fo, c)'
      BY <1>1, <1>2 DEF Linked, LinkFields
    <2>2. ASSUME NEW i \in OptId, NEW f \in LinkFields, NEW j \in ItemIds, Linked(i, f, j)'
          PROVE  \/ Linked(i, f, j) /\ i \in 0 .. used
                 \/ i = o /\ f = fo /\ j = c
                 \/ i \in ItemIds /\ i > used /\ LinkFrom(items'[i], f, j)
      <3>1. CASE i = 0 /\ f = "cmds" /\ j = cmds_id'
        BY <1>2, <3>1
      <3>2. CASE i \in ItemIds /\ i \in 1 .. used /\ LinkFrom(items'[i], f, j)
        BY <1>1, <1>2, <3>2 DEF Linked
      <3>3. CASE i \in ItemIds /\ i > used /\ LinkFrom(items'[i], f, j)
        BY <3>3
      <3> QED BY <1>1, <2>2, <3>1, <3>2, <3>3 DEF Linked
    <2> QED BY <2>1, <2>2
  <1>3. CASE /\ o \in 1 .. used /\ cmds_id' = cmds_id
             /\ \A i \in 1 .. used : i # o => items'[i] = items[i]
             /\ \/ /\ fo = "next" /\ items[o] \in PairsItems \union CmdsItems
                   /\ items'[o] = [items[o] EXCEPT !.next = c]
                \/ /\ fo = "pairs" /\ items[o] \in NamedItems
                   /\ items'[o] = [items[o] EXCEPT !.pairs = c]
                \/ /\ fo = "cmds" /\ items[o] \in GroupItems
                   /\ items'[o] = [items[o] EXCEPT !.cmds = c]
    <2>1. \A f \in LinkFields : \A j : LinkFrom(items'[o], f, j) =>
            LinkFrom(items[o], f, j) \/ (f = fo /\ j = c)
      <3>1. CASE fo = "next" /\ items[o] \in PairsItems /\ items'[o] = [items[o] EXCEPT !.next = c]
        BY <3>1 DEF LinkFrom, PairsItems
      <3>2. CASE fo = "next" /\ items[o] \in CmdsItems /\ items'[o] = [items[o] EXCEPT !.next = c]
        BY <3>2 DEF LinkFrom, CmdsItems
      <3>3. CASE fo = "pairs" /\ items[o] \in NamedItems /\ items'[o] = [items[o] EXCEPT !.pairs = c]
        BY <3>3 DEF LinkFrom, NamedItems
      <3>4. CASE fo = "cmds" /\ items[o] \in GroupItems /\ items'[o] = [items[o] EXCEPT !.cmds = c]
        BY <3>4 DEF LinkFrom, GroupItems
      <3> QED BY <1>3, <3>1, <3>2, <3>3, <3>4
    <2>2. LinkFrom(items'[o], fo, c) /\ fo \in LinkFields
      BY <1>3 DEF LinkFrom, LinkFields, PairsItems, CmdsItems, NamedItems, GroupItems
    <2>3. o # 0 /\ o \in ItemIds
      BY <1>1, <1>3
    <2>4. ASSUME NEW i \in OptId, NEW f \in LinkFields, NEW j \in ItemIds, Linked(i, f, j)'
          PROVE  \/ Linked(i, f, j) /\ i \in 0 .. used
                 \/ i = o /\ f = fo /\ j = c
                 \/ i \in ItemIds /\ i > used /\ LinkFrom(items'[i], f, j)
      <3>1. CASE i = 0 /\ f = "cmds" /\ j = cmds_id'
        BY <1>1, <1>3, <3>1 DEF Linked
      <3>2. CASE i \in ItemIds /\ LinkFrom(items'[i], f, j) /\ i # o
        BY <1>1, <1>3, <3>2 DEF Linked
      <3>3. CASE i = o /\ LinkFrom(items'[i], f, j)
        BY <1>1, <2>1, <2>3, <3>3, <1>3 DEF Linked
      <3> QED BY <2>4, <3>1, <3>2, <3>3 DEF Linked
    <2> QED BY <1>1, <2>2, <2>3, <2>4 DEF Linked
  <1> QED BY <1>2, <1>3 DEF Grows

\* Links to list nodes and pairs are never cut.
LEMMA LinksAreKept ==
  ASSUME TypeOK, LinksTyped, FreeAbove, RootInside, Kept, NEW j \in 1 .. used,
         items[j].kind \in {"Cmds", "Pairs"},
         NEW i \in OptId, NEW f \in LinkFields, Linked(i, f, j)
  PROVE  Linked(i, f, j)'
  <1>1. j \in ItemIds /\ j # 0
    BY Ids, ItemSpaceAssumption DEF TypeOK, OptId, ItemIds
  <1>2. CASE i = 0 /\ f = "cmds" /\ j = cmds_id
    BY <1>1, <1>2 DEF Linked, Kept
  <1>3. CASE i \in ItemIds /\ LinkFrom(items[i], f, j)
    <2>1. i \in 1 .. used
      BY <1>1, <1>3, LinksInside DEF ItemIds
    <2>2. Settled(items[i], items'[i]) /\ LinksOf(i) /\ items[i] \in Item
      BY <1>3, <2>1 DEF Kept, LinksTyped, TypeOK
    <2>3. f \notin {"true", "false"}
      BY <1>1, <1>3, <2>2 DEF LinkFrom, LinksOf, Stored
    <2>4. CASE f = "next" /\ items[i].kind = "Pairs" /\ j = items[i].next
      BY <1>1, <1>3, <2>2, <2>4 DEF Settled, Linked, LinkFrom
    <2>5. CASE f = "next" /\ items[i].kind = "Cmds" /\ j = items[i].next
      BY <1>1, <1>3, <2>2, <2>5 DEF Settled, Linked, LinkFrom
    <2>6. CASE f = "pairs" /\ items[i].kind = "Named" /\ j = items[i].pairs
      BY <1>1, <1>3, <2>2, <2>6 DEF Settled, Linked, LinkFrom
    <2>7. CASE f = "cmds" /\ items[i].kind = "Group" /\ j = items[i].cmds
      BY <1>1, <1>3, <2>2, <2>7 DEF Settled, Linked, LinkFrom
    <2>8. CASE f = "command" /\ items[i].kind = "Cmds" /\ j = items[i].command
      BY <1>1, <1>3, <2>2, <2>8 DEF Settled, Linked, LinkFrom
    <2> QED BY <1>3, <2>3, <2>4, <2>5, <2>6, <2>7, <2>8 DEF LinkFrom
  <1> QED BY <1>2, <1>3 DEF Linked

\* New list nodes and pairs that are linked, and old ones that stay linked.
LEMMA ListsStayOwned ==
  ASSUME TypeOK, TypeOK', LinksTyped, HeapGrows, FreeAbove, RootInside, ListsOwned, Kept,
         \A j \in ItemIds : used < j /\ j <= used' /\ items'[j].kind \in {"Cmds", "Pairs"} =>
           \E i \in OptId, f \in LinkFields : Linked(i, f, j)'
  PROVE  ListsOwned'
  <1> SUFFICES ASSUME NEW j \in 1 .. used', items'[j].kind \in {"Cmds", "Pairs"}
               PROVE  \E i \in OptId, f \in LinkFields : Linked(i, f, j)'
    BY DEF ListsOwned
  <1>1. used \in Nat /\ used' \in Nat /\ j \in ItemIds /\ j \in Nat
    BY Ids, ItemSpaceAssumption DEF TypeOK, OptId, ItemIds
  <1>2. CASE j \in 1 .. used
    <2>1. items[j].kind \in {"Cmds", "Pairs"}
      BY <1>2 DEF HeapGrows
    <2>2. PICK i \in OptId, f \in LinkFields : Linked(i, f, j)
      BY <1>2, <2>1 DEF ListsOwned
    <2>3. Linked(i, f, j)'
      BY <1>2, <2>1, <2>2, LinksAreKept
    <2> QED BY <2>3
  <1> QED BY <1>1, <1>2

\* A step keeps single ownership if each link that it makes is the only one to its item.
LEMMA OwnersStaySingle ==
  ASSUME OneOwner,
         \A i \in OptId, f \in LinkFields, j \in ItemIds : Linked(i, f, j)' =>
           \/ Linked(i, f, j)
           \/ \A k \in OptId, e \in LinkFields : Linked(k, e, j)' => k = i /\ e = f
  PROVE  OneOwner'
  BY DEF OneOwner

\* A call that links its new items once, or not at all, keeps every item's owner.
LEMMA OwnersStay ==
  ASSUME IInv, TypeOK', HeapGrows, Owners, NEW c, NewSound(c),
         (\E o, f : Grows(o, f, c)) \/ (c = 0 /\ Still)
  PROVE  Owners'
  <1>0. /\ TypeOK /\ LinksTyped /\ FreeAbove /\ RootInside /\ OneOwner /\ ListsOwned
        /\ used \in Nat /\ used' \in Nat /\ used <= used' /\ ItemIds \subseteq OptId /\ ItemIds \subseteq Nat
        /\ OptId \subseteq Nat /\ 0 \in OptId /\ 0 \notin ItemIds
    BY Ids DEF IInv, Owners, TypeOK, HeapGrows, ItemIds
  <1>1. Kept
    BY <1>0, GrowsKept, StillKept
  <1>2. FreeAbove'
    BY <1>0 DEF FreeAbove, NewSound
  <1>3. RootInside'
    <2>1. ASSUME NEW o, NEW f, Grows(o, f, c)
          PROVE  cmds_id' \in {cmds_id, c} /\ c <= used' /\ c \in Nat
      BY <1>0, <2>1 DEF Grows
    <2>2. CASE c = 0 /\ Still
      BY <1>0, <2>2 DEF RootInside, Still
    <2> QED BY <1>0, <2>1, <2>2 DEF RootInside
  <1>4. ASSUME NEW o, NEW fo, Grows(o, fo, c)
        PROVE  OneOwner' /\ ListsOwned'
    <2>0. c \in ItemIds /\ c > used
      BY <1>0, <1>4 DEF Grows
    <2>1. /\ fo \in LinkFields /\ o \in OptId /\ Linked(o, fo, c)'
          /\ \A i \in OptId, f \in LinkFields, j \in ItemIds : Linked(i, f, j)' =>
               \/ Linked(i, f, j) /\ i \in 0 .. used
               \/ i = o /\ f = fo /\ j = c
               \/ i \in ItemIds /\ i > used /\ LinkFrom(items'[i], f, j)
      BY <1>0, <1>4, GrowsLinks
    <2>2. \A i \in OptId, f \in LinkFields, j \in ItemIds : Linked(i, f, j) => j <= used
      BY <1>0, LinksInside
    <2>3. \A i \in OptId, f \in LinkFields, j \in ItemIds : Linked(i, f, j)' =>
            \/ Linked(i, f, j)
            \/ \A k \in OptId, e \in LinkFields : Linked(k, e, j)' => k = i /\ e = f
      <3> SUFFICES ASSUME NEW i \in OptId, NEW f \in LinkFields, NEW j \in ItemIds,
                          Linked(i, f, j)', ~Linked(i, f, j),
                          NEW k \in OptId, NEW e \in LinkFields, Linked(k, e, j)'
                   PROVE  k = i /\ e = f
        OBVIOUS
      <3>1. CASE i = o /\ f = fo /\ j = c
        <4>1. ~Linked(k, e, j)
          BY <1>0, <2>0, <2>1, <2>2, <3>1
        <4>2. ~(k \in ItemIds /\ k > used /\ LinkFrom(items'[k], e, j))
          BY <3>1 DEF NewSound
        <4> QED BY <2>0, <2>1, <3>1, <4>1, <4>2
      <3>2. CASE i \in ItemIds /\ i > used /\ LinkFrom(items'[i], f, j)
        <4>1. /\ j > used /\ j # c
              /\ k \in ItemIds /\ k > used /\ LinkFrom(items'[k], e, j) => k = i /\ e = f
          BY <3>2 DEF NewSound
        <4>2. ~Linked(k, e, j)
          BY <1>0, <2>2, <4>1
        <4> QED BY <2>1, <4>1, <4>2
      <3> QED BY <2>1, <3>1, <3>2
    <2>4. OneOwner'
      BY <1>0, <2>3, OwnersStaySingle
    <2>5. \A j \in ItemIds : used < j /\ j <= used' /\ items'[j].kind \in {"Cmds", "Pairs"} =>
            \E i \in OptId, f \in LinkFields : Linked(i, f, j)'
      BY <1>0, <2>0, <2>1 DEF NewSound, Linked
    <2>6. ListsOwned'
      BY <1>0, <1>1, <2>5, ListsStayOwned
    <2> QED BY <2>4, <2>6
  <1>5. CASE c = 0 /\ Still
    <2>1. \A i \in OptId, f \in LinkFields, j \in ItemIds : Linked(i, f, j)' =>
            Linked(i, f, j) \/ (i \in ItemIds /\ i > used /\ LinkFrom(items'[i], f, j))
      <3>1. \A i \in ItemIds : i > used \/ i \in 1 .. used
        BY <1>0 DEF ItemIds
      <3> QED BY <1>5, <3>1 DEF Still, Linked
    <2>2. \A i \in OptId, f \in LinkFields, j \in ItemIds : Linked(i, f, j) => j <= used
      BY <1>0, LinksInside
    <2>3. \A i \in OptId, f \in LinkFields, j \in ItemIds : Linked(i, f, j)' =>
            \/ Linked(i, f, j)
            \/ \A k \in OptId, e \in LinkFields : Linked(k, e, j)' => k = i /\ e = f
      <3> SUFFICES ASSUME NEW i \in OptId, NEW f \in LinkFields, NEW j \in ItemIds,
                          Linked(i, f, j)', ~Linked(i, f, j),
                          NEW k \in OptId, NEW e \in LinkFields, Linked(k, e, j)'
                   PROVE  k = i /\ e = f
        OBVIOUS
      <3>1. i \in ItemIds /\ i > used /\ LinkFrom(items'[i], f, j)
        BY <2>1
      <3>2. /\ j > used
            /\ k \in ItemIds /\ k > used /\ LinkFrom(items'[k], e, j) => k = i /\ e = f
        BY <3>1 DEF NewSound
      <3>3. ~Linked(k, e, j)
        BY <1>0, <2>2, <3>2
      <3> QED BY <2>1, <3>2, <3>3
    <2>4. OneOwner'
      BY <1>0, <2>3, OwnersStaySingle
    <2>5. \A j \in ItemIds : used < j /\ j <= used' /\ items'[j].kind \in {"Cmds", "Pairs"} =>
            \E i \in OptId, f \in LinkFields : Linked(i, f, j)'
      BY <1>0, <1>5 DEF NewSound, Linked
    <2>6. ListsOwned'
      BY <1>0, <1>1, <2>5, ListsStayOwned
    <2> QED BY <1>2, <1>3, <2>4, <2>6 DEF Owners
  <1> QED BY <1>2, <1>3, <1>4, <1>5 DEF Owners

\* A change of one Conditional's branches keeps every item's owner, when the
\* branches it now has were its own or are new, and are not both the same.
LEMMA OwnersStayWithBranches ==
  ASSUME IInv, TypeOK', HeapGrows, Owners, NEW k, Rebranches(k),
         \A i \in ItemIds : i > used => items'[i].kind \in {"Free", "Group"},
         \A i \in ItemIds : i > used' => items'[i].kind = "Free",
         \A i \in ItemIds : i > used /\ items'[i].kind = "Group" => items'[i].cmds = 0,
         \A b \in {items'[k].true_group, items'[k].false_group} \ {0} :
           b \in {items[k].true_group, items[k].false_group} \/ b > used,
         items'[k].true_group = items'[k].false_group => items'[k].true_group = 0
  PROVE  Owners'
  <1>0. /\ TypeOK /\ LinksTyped /\ FreeAbove /\ RootInside /\ OneOwner /\ ListsOwned
        /\ used \in Nat /\ used' \in Nat /\ used <= used' /\ ItemIds \subseteq OptId /\ ItemIds \subseteq Nat
        /\ OptId \subseteq Nat /\ 0 \in OptId /\ 0 \notin ItemIds /\ cmds_id' = cmds_id
        /\ k \in ItemIds /\ k \in 1 .. used /\ 1 .. used \subseteq ItemIds
    BY Ids, ItemSpaceAssumption DEF IInv, Owners, TypeOK, HeapGrows, ItemIds, OptId, Rebranches
  <1>1. Kept
    BY <1>0, RebranchesKept
  <1>2. FreeAbove'
    BY DEF FreeAbove
  <1>3. RootInside'
    BY <1>0 DEF RootInside
  <1>4. \A i \in ItemIds, f \in LinkFields, j \in ItemIds : i # k /\ LinkFrom(items'[i], f, j) =>
          LinkFrom(items[i], f, j) /\ i \in 1 .. used
    <2> SUFFICES ASSUME NEW i \in ItemIds, NEW f \in LinkFields, NEW j \in ItemIds,
                        i # k, LinkFrom(items'[i], f, j)
                 PROVE  LinkFrom(items[i], f, j) /\ i \in 1 .. used
      OBVIOUS
    <2>1. i \in 1 .. used
      <3>1. i > used => items'[i].kind = "Group" /\ items'[i].cmds = 0
        BY DEF LinkFrom
      <3> QED BY <1>0, <3>1 DEF LinkFrom, ItemIds
    <2>2. CASE items'[i] = items[i]
      BY <2>1, <2>2
    <2>3. CASE items'[i] \in GroupItems /\ items'[i].cmds = 0
      BY <1>0, <2>3 DEF LinkFrom, GroupItems
    <2> QED BY <2>1, <2>2, <2>3 DEF Rebranches
  <1>5. \A f \in LinkFields, j \in ItemIds : LinkFrom(items'[k], f, j) =>
          \/ f = "true" /\ j = items'[k].true_group /\ j # items'[k].false_group
          \/ f = "false" /\ j = items'[k].false_group /\ j # items'[k].true_group
    BY <1>0 DEF LinkFrom, Rebranches, CondItems
  <1>6. \A b \in ItemIds : b \in {items[k].true_group, items[k].false_group} =>
          \E f \in LinkFields : Linked(k, f, b)
    BY <1>0 DEF Linked, LinkFrom, Rebranches, CondItems, LinkFields
  <1>7. \A i \in OptId, f \in LinkFields, j \in ItemIds : Linked(i, f, j) => j <= used
    BY <1>0, LinksInside
  <1>8. \A i \in OptId, f \in LinkFields, j \in ItemIds : Linked(i, f, j)' =>
          \/ Linked(i, f, j)
          \/ \A h \in OptId, e \in LinkFields : Linked(h, e, j)' => h = i /\ e = f
    <2> SUFFICES ASSUME NEW i \in OptId, NEW f \in LinkFields, NEW j \in ItemIds,
                        Linked(i, f, j)', ~Linked(i, f, j),
                        NEW h \in OptId, NEW e \in LinkFields, Linked(h, e, j)'
                 PROVE  h = i /\ e = f
      OBVIOUS
    <2>1. i = k /\ LinkFrom(items'[k], f, j)
      BY <1>0, <1>4 DEF Linked
    <2>2. h # k => Linked(h, e, j)
      BY <1>0, <1>4 DEF Linked
    <2>3. h = k => LinkFrom(items'[k], e, j)
      BY <1>0 DEF Linked
    <2>4. j > used \/ \E d \in LinkFields : Linked(k, d, j)
      BY <1>0, <1>5, <1>6, <2>1
    <2>5. h = k
      BY <1>0, <1>7, <2>2, <2>4 DEF OneOwner
    <2> QED BY <1>5, <2>1, <2>3, <2>5
  <1>9. OneOwner'
    BY <1>0, <1>8, OwnersStaySingle
  <1>10. ListsOwned'
    <2>1. \A j \in ItemIds : ~(used < j /\ items'[j].kind \in {"Cmds", "Pairs"})
      BY <1>0
    <2> QED BY <1>0, <1>1, <2>1, ListsStayOwned
  <1> QED BY <1>2, <1>3, <1>9, <1>10 DEF Owners
-----------------------------------------------------------------------------
(* What each call stores is linked soundly.                                *)

\* Above what a call has stored, the heap is as free as before.
LEMMA FreeBeyond ==
  ASSUME TypeOK, FreeAbove, NEW n \in Nat,
         \A i \in ItemIds : i > used + n => items'[i] = items[i]
  PROVE  \A i \in ItemIds : i > used + n => items'[i].kind = "Free"
  <1> SUFFICES ASSUME NEW i \in ItemIds, i > used + n PROVE items'[i].kind = "Free"
    OBVIOUS
  <1>1. i \in Nat /\ used \in Nat
    BY Ids DEF TypeOK
  <1>2. i > used
    BY <1>1
  <1> QED BY <1>2 DEF FreeAbove

\* Named with its first pair.
LEMMA StartNamedSound ==
  ASSUME IInv, TypeOK', FreeAbove, NEW g \in OpenScopes, NEW mask \in Mask, NEW value \in Mask,
         NEW name \in Names, StartNamed(g, mask, value, name)
  PROVE  NewSound(used + 2)
  <1>1. /\ used' = used + 3
        /\ items'[used + 1] = [NamedItem(mask) EXCEPT !.pairs = used + 3]
        /\ items'[used + 2] = CmdsItem(used + 1)
        /\ items'[used + 3] = PairsItem(value, name)
        /\ \A i \in ItemIds : i > used + 3 => items'[i] = items[i]
    BY StartNamedEffect DEF AppendedTo
  <1>2. /\ used \in Nat /\ used' \in Nat /\ ItemIds \subseteq Nat /\ 0 \notin ItemIds
        /\ \A i \in ItemIds : i > used => i \in {used + 1, used + 2, used + 3} \/ i > used + 3
        /\ used + 1 \in ItemIds /\ used + 2 \in ItemIds
    <2>1. used \in Nat /\ used' \in OptId
      BY Ids DEF IInv, TypeOK
    <2> QED BY <1>1, <2>1, Ids, ItemSpaceAssumption DEF ItemIds, OptId
  <1>3. \A i \in ItemIds : i > used + 3 => items'[i].kind = "Free"
    BY <1>1, FreeBeyond DEF IInv
  <1>4. \A i, j \in ItemIds, f \in LinkFields : i > used /\ LinkFrom(items'[i], f, j) =>
          \/ i = used + 1 /\ f = "pairs" /\ j = used + 3
          \/ i = used + 2 /\ f = "command" /\ j = used + 1
    BY <1>1, <1>2, <1>3 DEF LinkFrom, NamedItem, CmdsItem, PairsItem
  <1>5. \A j \in ItemIds : j > used /\ items'[j].kind \in {"Cmds", "Pairs"} =>
          j = used + 2 \/ j = used + 3
    BY <1>1, <1>2, <1>3 DEF NamedItem
  <1>6. LinkFrom(items'[used + 1], "pairs", used + 3)
    BY <1>1 DEF LinkFrom, NamedItem
  <1> QED BY <1>1, <1>2, <1>4, <1>5, <1>6 DEF NewSound, LinkFields

\* A command without links of its own, and the node that leads to it.
LEMMA CommandNodeSound ==
  ASSUME TypeOK, TypeOK', FreeAbove, used' = used + 2,
         items'[used + 1].kind \in {"Named", "Numeric"},
         items'[used + 1].kind = "Named" => items'[used + 1].pairs = 0,
         items'[used + 2] = CmdsItem(used + 1),
         \A i \in ItemIds : i > used + 2 => items'[i] = items[i]
  PROVE  NewSound(used + 2)
  <1>1. /\ used \in Nat /\ ItemIds \subseteq Nat /\ 0 \notin ItemIds
        /\ \A i \in ItemIds : i > used => i \in {used + 1, used + 2} \/ i > used + 2
    BY Ids DEF TypeOK, ItemIds
  <1>2. \A i \in ItemIds : i > used + 2 => items'[i].kind = "Free"
    BY FreeBeyond
  <1>3. \A i, j \in ItemIds, f \in LinkFields : i > used /\ LinkFrom(items'[i], f, j) =>
          i = used + 2 /\ f = "command" /\ j = used + 1
    BY <1>1, <1>2 DEF LinkFrom, CmdsItem
  <1>4. \A j \in ItemIds : j > used /\ items'[j].kind \in {"Cmds", "Pairs"} => j = used + 2
    BY <1>1, <1>2
  <1>5. used + 1 > used /\ used + 1 # used + 2
    BY <1>1
  <1> QED BY <1>3, <1>4, <1>5 DEF NewSound

\* Named whose first pair does not fit.
LEMMA FirstPairSound ==
  ASSUME IInv, TypeOK', FreeAbove, NEW g \in OpenScopes, NEW mask \in Mask, NEW value \in Mask,
         NEW name \in Names, FirstPairThrows(g, mask, value, name)
  PROVE  NewSound(used + 2)
  <1>1. /\ used' = used + 2
        /\ items'[used + 1] = NamedItem(mask)
        /\ items'[used + 2] = CmdsItem(used + 1)
        /\ \A i \in ItemIds : i > used + 2 => items'[i] = items[i]
    BY FirstPairEffect DEF AppendedTo
  <1>2. items'[used + 1].kind = "Named" /\ items'[used + 1].pairs = 0
    BY <1>1 DEF NamedItem
  <1> QED BY <1>1, <1>2, CommandNodeSound DEF IInv

\* Numeric.
LEMMA AddNumericSound ==
  ASSUME IInv, TypeOK', FreeAbove, NEW g \in OpenScopes, NEW mask \in Mask, NEW name \in Names,
         NEW format \in Formats, AddNumeric(g, mask, name, format)
  PROVE  NewSound(used + 2)
  <1>1. /\ used' = used + 2
        /\ items'[used + 1] = NumericItem(mask, format, name)
        /\ items'[used + 2] = CmdsItem(used + 1)
        /\ \A i \in ItemIds : i > used + 2 => items'[i] = items[i]
    BY AddNumericEffect DEF AppendedTo
  <1>2. items'[used + 1].kind = "Numeric"
    BY <1>1 DEF NumericItem
  <1> QED BY <1>1, <1>2, CommandNodeSound DEF IInv

\* If and IfNot.
LEMMA OpenIfSound ==
  ASSUME IInv, TypeOK', FreeAbove, NEW g \in OpenScopes, NEW selector \in Mask, NEW mask \in Mask,
         NEW when \in BOOLEAN, NEW label \in GroupNames,
         OpenIf(g, selector, mask, when, label)
  PROVE  NewSound(used + 3)
  <1>1. /\ used' = used + 3
        /\ items'[used + 1] = GroupItem(label)
        /\ items'[used + 2] = FirstBranch(selector, mask, when, used + 1)
        /\ items'[used + 3] = CmdsItem(used + 2)
        /\ \A i \in ItemIds : i > used + 3 => items'[i] = items[i]
    BY OpenIfEffect DEF AppendedTo
  <1>2. /\ used \in Nat /\ used' \in Nat /\ ItemIds \subseteq Nat /\ 0 \notin ItemIds
        /\ \A i \in ItemIds : i > used => i \in {used + 1, used + 2, used + 3} \/ i > used + 3
        /\ used + 1 \in OptId
    BY <1>1, Ids, ItemSpaceAssumption DEF IInv, TypeOK, ItemIds, OptId
  <1>3. \A i \in ItemIds : i > used + 3 => items'[i].kind = "Free"
    BY <1>1, FreeBeyond DEF IInv
  <1>4. PICK cond : cond = FirstBranch(selector, mask, when, used + 1)
    OBVIOUS
  <1>5. /\ cond.kind = "Conditional"
        /\ cond.true_group \in {0, used + 1} /\ cond.false_group \in {0, used + 1}
        /\ cond.true_group = 0 \/ cond.false_group = 0
    BY <1>2, <1>4, FirstBranchMade DEF CondItems
  <1>6. \A i, j \in ItemIds, f \in LinkFields : i > used /\ LinkFrom(items'[i], f, j) =>
          \/ i = used + 2 /\ f = "true" /\ j = used + 1 /\ cond.true_group = j
          \/ i = used + 2 /\ f = "false" /\ j = used + 1 /\ cond.false_group = j
          \/ i = used + 3 /\ f = "command" /\ j = used + 2
    BY <1>1, <1>2, <1>3, <1>4, <1>5 DEF LinkFrom, GroupItem, CmdsItem
  <1>7. \A j \in ItemIds : j > used /\ items'[j].kind \in {"Cmds", "Pairs"} => j = used + 3
    <2>1. items'[used + 1].kind = "Group" /\ items'[used + 2].kind = "Conditional"
      BY <1>1, <1>4, <1>5 DEF GroupItem
    <2> QED BY <1>2, <1>3, <2>1
  <1> QED BY <1>1, <1>2, <1>5, <1>6, <1>7 DEF NewSound

\* A further pair.
LEMMA ExtendNamedSound ==
  ASSUME IInv, TypeOK', FreeAbove, NEW g \in OpenScopes, NEW mask \in Mask, NEW value \in Mask,
         NEW name \in Names, ExtendNamed(g, mask, value, name)
  PROVE  NewSound(used + 1)
  <1>1. /\ used' = used + 1
        /\ items'[used + 1] = PairsItem(value, name)
        /\ \A i \in ItemIds : i > used + 1 => items'[i] = items[i]
    BY ExtendNamedEffect
  <1>2. /\ used \in Nat /\ used' \in Nat /\ ItemIds \subseteq Nat /\ 0 \notin ItemIds
        /\ \A i \in ItemIds : i > used => i = used + 1 \/ i > used + 1
    BY <1>1, Ids, ItemSpaceAssumption DEF IInv, TypeOK, ItemIds, OptId
  <1>3. \A i \in ItemIds : i > used + 1 => items'[i].kind = "Free"
    BY <1>1, FreeBeyond DEF IInv
  <1>4. \A i, j \in ItemIds, f \in LinkFields : ~(i > used /\ LinkFrom(items'[i], f, j))
    <2>1. items'[used + 1].kind = "Pairs" /\ items'[used + 1].next = 0
      BY <1>1 DEF PairsItem
    <2>2. \A j \in ItemIds, f \in LinkFields : ~LinkFrom(items'[used + 1], f, j)
      BY <1>2, <2>1 DEF LinkFrom
    <2>3. \A i, j \in ItemIds, f \in LinkFields : i > used + 1 => ~LinkFrom(items'[i], f, j)
      BY <1>3 DEF LinkFrom
    <2> QED BY <1>2, <2>2, <2>3
  <1>5. \A j \in ItemIds : j > used /\ items'[j].kind \in {"Cmds", "Pairs"} => j = used + 1
    BY <1>1, <1>2, <1>3
  <1> QED BY <1>1, <1>2, <1>4, <1>5 DEF NewSound

\* A call that gives up.
LEMMA GivesUpSound ==
  ASSUME IInv, TypeOK', FreeAbove, NEW g, OnlyNew(g)
  PROVE  NewSound(0)
  <1>1. /\ used \in Nat /\ used' \in Nat /\ used <= used' /\ ItemIds \subseteq Nat /\ 0 \notin ItemIds
        /\ \A i \in ItemIds : used' < i => items'[i] = items[i]
        /\ \A i \in ItemIds : used < i /\ i <= used' => Loose(items'[i], i)
    BY Ids DEF OnlyNew, IInv, TypeOK, ItemIds
  <1>2. \A i \in ItemIds : used' < i => items'[i].kind = "Free"
    BY <1>1 DEF FreeAbove
  <1>3. \A i, j \in ItemIds, f \in LinkFields : i > used /\ LinkFrom(items'[i], f, j) =>
          /\ j = i - 1 /\ j > used
          /\ items'[i].kind = "Conditional"
          /\ items'[i].false_group = 0 \/ items'[i].true_group = 0
    <2> SUFFICES ASSUME NEW i \in ItemIds, NEW j \in ItemIds, NEW f \in LinkFields,
                        i > used, LinkFrom(items'[i], f, j)
                 PROVE  /\ j = i - 1 /\ j > used
                        /\ items'[i].kind = "Conditional"
                        /\ items'[i].false_group = 0 \/ items'[i].true_group = 0
      OBVIOUS
    <2>1. j # 0 /\ i \in Nat /\ items'[i].kind # "Free"
      BY <1>1 DEF LinkFrom
    <2>2. Loose(items'[i], i)
      BY <1>1, <1>2, <2>1
    <2> QED BY <1>1, <2>1, <2>2 DEF LinkFrom, Loose
  <1>4. \A j \in ItemIds : ~(j > used /\ items'[j].kind \in {"Cmds", "Pairs"})
    <2> SUFFICES ASSUME NEW j \in ItemIds, j > used, items'[j].kind \in {"Cmds", "Pairs"}
                 PROVE  FALSE
      OBVIOUS
    <2>1. Loose(items'[j], j)
      BY <1>1, <1>2
    <2> QED BY <2>1 DEF Loose
  <1>5. \A i, j, k \in ItemIds, f, e \in LinkFields :
          i > used /\ LinkFrom(items'[i], f, j) /\ k > used /\ LinkFrom(items'[k], e, j) =>
            k = i /\ e = f
    <2> SUFFICES ASSUME NEW i \in ItemIds, NEW j \in ItemIds, NEW k \in ItemIds,
                        NEW f \in LinkFields, NEW e \in LinkFields,
                        i > used, LinkFrom(items'[i], f, j), k > used, LinkFrom(items'[k], e, j)
                 PROVE  k = i /\ e = f
      OBVIOUS
    <2>1. j = i - 1 /\ j = k - 1
      BY <1>3
    <2>2. k = i
      BY <1>1, <2>1
    <2>3. j # 0 /\ items'[i].kind = "Conditional"
          /\ (items'[i].false_group = 0 \/ items'[i].true_group = 0)
      BY <1>1, <1>3
    <2> QED BY <2>2, <2>3 DEF LinkFrom
  <1> QED BY <1>1, <1>3, <1>4, <1>5 DEF NewSound
-----------------------------------------------------------------------------
(* Branch scopes and the Conditionals they belong to.                      *)

\* The branch that scope g extends is a branch of its Conditional, the only
\* one before Else.
HeldBranch(g) ==
  LET branches == {items[scope[g].cond].true_group, items[scope[g].cond].false_group}
  IN  g \in branches /\ (scope[g].kind = "If" => 0 \in branches)

(* A branch scope that is open extends a branch of its Conditional, and is *)
(* the only one that is open on it.                                        *)
BranchScopes ==
  \A g \in OpenScopes \ {0} :
    /\ HeldBranch(g)
    /\ \A h \in OpenScopes \ {0} : h # g => scope[h].cond # scope[g].cond

Graph == Owners /\ BranchScopes

\* Scope h was open before, for the same branch of the same Conditional.
SameBranch(h) ==
  h \in OpenScopes /\ scope'[h].cond = scope[h].cond /\ scope'[h].kind = scope[h].kind

SameBranches == \A h \in OpenScopes' \ {0} : SameBranch(h)

\* Linking a new item changes no Conditional.
LEMMA ConditionalsStay ==
  ASSUME TypeOK, (\E o, f, c : Grows(o, f, c)) \/ Still
  PROVE  \A k \in 1 .. used : items[k].kind = "Conditional" => items'[k] = items[k]
  <1>1. ASSUME NEW o, NEW f, NEW c, Grows(o, f, c)
        PROVE  \A k \in 1 .. used : items[k].kind = "Conditional" => items'[k] = items[k]
    BY <1>1 DEF Grows, PairsItems, CmdsItems, NamedItems, GroupItems
  <1> QED BY <1>1 DEF Still

\* A step that changes no Conditional and opens no branch keeps BranchScopes.
LEMMA BranchScopesStay ==
  ASSUME IInv, BranchScopes, SameBranches,
         \A k \in 1 .. used : items[k].kind = "Conditional" => items'[k] = items[k]
  PROVE  BranchScopes'
  <1> SUFFICES ASSUME NEW g \in OpenScopes' \ {0}
               PROVE  /\ HeldBranch(g)'
                      /\ \A h \in OpenScopes' \ {0} : h # g => scope'[h].cond # scope'[g].cond
    BY DEF BranchScopes
  <1>1. g \in OpenScopes \ {0} /\ scope'[g].cond = scope[g].cond /\ scope'[g].kind = scope[g].kind
    BY DEF SameBranches, SameBranch
  <1>2. scope[g].cond \in 1 .. used /\ items[scope[g].cond].kind = "Conditional"
    BY <1>1 DEF IInv, ScopesTyped, ScopeLinks, Stored
  <1>3. HeldBranch(g)'
    BY <1>1, <1>2 DEF HeldBranch, BranchScopes
  <1> QED BY <1>1, <1>3 DEF BranchScopes, SameBranches, SameBranch

\* A call that changes scope g only, and not its Conditional, opens no branch.
LEMMA ScopeAlone ==
  ASSUME TypeOK, NEW g \in OpenScopes, NEW s, s.cond = scope[g].cond, s.kind = scope[g].kind,
         scope' = [scope EXCEPT ![g] = s]
  PROVE  SameBranches
  <1>1. g \in OptId /\ \A h \in OptId : scope'[h] = IF h = g THEN s ELSE scope[h]
    BY DEF TypeOK, OpenScopes
  <1> QED BY <1>1 DEF SameBranches, SameBranch, OpenScopes

\* A call that links what it stores once, or not at all, and opens no branch.
LEMMA LinkedGraph ==
  ASSUME IInv, TypeOK', HeapGrows, Graph, NEW c, NewSound(c), SameBranches,
         (\E o, f : Grows(o, f, c)) \/ (c = 0 /\ Still)
  PROVE  Graph'
  <1>1. Owners'
    BY OwnersStay DEF Graph
  <1>2. BranchScopes'
    BY ConditionalsStay, BranchScopesStay DEF Graph, IInv
  <1> QED BY <1>1, <1>2 DEF Graph

\* Named with its first pair.
LEMMA StartNamedGraph ==
  ASSUME IInv, TypeOK', HeapGrows, Graph, NEW g \in OpenScopes, NEW mask \in Mask,
         NEW value \in Mask, NEW name \in Names, StartNamed(g, mask, value, name)
  PROVE  Graph'
  <1>1. NewSound(used + 2)
    BY StartNamedSound DEF Graph, Owners
  <1>2. \E o, f : Grows(o, f, used + 2)
    BY StartNamedEffect DEF AppendedTo
  <1>3. PICK s : s = [Appended(g, used + 2) EXCEPT
                        !.implicit = [named |-> used + 1, last_pair |-> used + 3, mask |-> mask]]
    OBVIOUS
  <1>4. s.cond = scope[g].cond /\ s.kind = scope[g].kind
    BY <1>3, OpenIsScope DEF Appended, IInv, Scopes
  <1>5. SameBranches
    BY <1>3, <1>4, ScopeAlone DEF StartNamed, IInv
  <1> QED BY <1>1, <1>2, <1>5, LinkedGraph

\* Named whose first pair does not fit.
LEMMA FirstPairGraph ==
  ASSUME IInv, TypeOK', HeapGrows, Graph, NEW g \in OpenScopes, NEW mask \in Mask,
         NEW value \in Mask, NEW name \in Names, FirstPairThrows(g, mask, value, name)
  PROVE  Graph'
  <1>1. NewSound(used + 2)
    BY FirstPairSound DEF Graph, Owners
  <1>2. \E o, f : Grows(o, f, used + 2)
    BY FirstPairEffect DEF AppendedTo
  <1>3. PICK s : s = [Appended(g, used + 2) EXCEPT
                        !.implicit = [named |-> used + 1, last_pair |-> 0, mask |-> mask]]
    OBVIOUS
  <1>4. s.cond = scope[g].cond /\ s.kind = scope[g].kind
    BY <1>3, OpenIsScope DEF Appended, IInv, Scopes
  <1>5. SameBranches
    BY <1>3, <1>4, ScopeAlone DEF FirstPairThrows, IInv
  <1> QED BY <1>1, <1>2, <1>5, LinkedGraph

\* Numeric.
LEMMA AddNumericGraph ==
  ASSUME IInv, TypeOK', HeapGrows, Graph, NEW g \in OpenScopes, NEW mask \in Mask,
         NEW name \in Names, NEW format \in Formats, AddNumeric(g, mask, name, format)
  PROVE  Graph'
  <1>1. NewSound(used + 2)
    BY AddNumericSound DEF Graph, Owners
  <1>2. \E o, f : Grows(o, f, used + 2)
    BY AddNumericEffect DEF AppendedTo
  <1>3. PICK s : s = Cut(Appended(g, used + 2))
    OBVIOUS
  <1>4. s.cond = scope[g].cond /\ s.kind = scope[g].kind
    BY <1>3, OpenIsScope DEF Appended, Cut, IInv, Scopes
  <1>5. SameBranches
    BY <1>3, <1>4, ScopeAlone DEF AddNumeric, IInv
  <1> QED BY <1>1, <1>2, <1>5, LinkedGraph

\* A further pair.
LEMMA ExtendNamedGraph ==
  ASSUME IInv, TypeOK', HeapGrows, Graph, NEW g \in OpenScopes, NEW mask \in Mask,
         NEW value \in Mask, NEW name \in Names, ExtendNamed(g, mask, value, name)
  PROVE  Graph'
  <1>1. NewSound(used + 1)
    BY ExtendNamedSound DEF Graph, Owners
  <1>2. \E o, f : Grows(o, f, used + 1)
    BY ExtendNamedEffect
  <1>3. PICK s : s = [scope[g] EXCEPT !.implicit.last_pair = used + 1]
    OBVIOUS
  <1>4. s.cond = scope[g].cond /\ s.kind = scope[g].kind
    BY <1>3, OpenIsScope DEF IInv, Scopes
  <1>5. SameBranches
    BY <1>3, <1>4, ScopeAlone DEF ExtendNamed, IInv
  <1> QED BY <1>1, <1>2, <1>5, LinkedGraph

\* A call that gives up.
LEMMA GivesUpGraph ==
  ASSUME IInv, TypeOK', HeapGrows, Graph, NEW g \in OpenScopes, OnlyNew(g)
  PROVE  Graph'
  <1>1. NewSound(0) /\ Still
    BY GivesUpSound, StillEffect DEF Graph, Owners
  <1>2. CASE scope' = scope
    <2>1. SameBranches
      BY <1>2 DEF SameBranches, SameBranch, OpenScopes
    <2> QED BY <1>1, <2>1, LinkedGraph
  <1>3. CASE scope' = Cleared(g)
    <2>1. PICK s : s = Cut(scope[g])
      OBVIOUS
    <2>2. s.cond = scope[g].cond /\ s.kind = scope[g].kind
      BY <2>1, OpenIsScope DEF Cut, IInv, Scopes
    <2>3. SameBranches
      BY <1>3, <2>1, <2>2, ScopeAlone DEF Cleared, IInv
    <2> QED BY <1>1, <2>3, LinkedGraph
  <1> QED BY <1>2, <1>3 DEF OnlyNew

\* End of a branch with commands.
LEMMA EndBranchGraph ==
  ASSUME IInv, TypeOK', HeapGrows, Graph, NEW g \in OpenScopes, EndBranch(g)
  PROVE  Graph'
  <1>1. /\ items' = items /\ used' = used /\ cmds_id' = cmds_id
        /\ scope' = [scope EXCEPT ![g] = Closed]
    BY DEF EndBranch
  <1>2. SameBranches
    BY <1>1 DEF SameBranches, SameBranch, OpenScopes, Closed, IInv, TypeOK
  <1>3. BranchScopes'
    BY <1>1, <1>2, BranchScopesStay DEF Graph
  <1>4. Owners'
    BY <1>1 DEF Graph, Owners, FreeAbove, RootInside, OneOwner, ListsOwned, Linked
  <1> QED BY <1>3, <1>4 DEF Graph

\* If and IfNot.
LEMMA OpenIfGraph ==
  ASSUME IInv, TypeOK', HeapGrows, Graph, NEW g \in OpenScopes, NEW selector \in Mask,
         NEW mask \in Mask, NEW when \in BOOLEAN, NEW label \in GroupNames,
         OpenIf(g, selector, mask, when, label)
  PROVE  Graph'
  <1>1. /\ NewSound(used + 3)
        /\ \E o, f : Grows(o, f, used + 3)
        /\ items'[used + 2] = FirstBranch(selector, mask, when, used + 1)
    BY OpenIfSound, OpenIfEffect DEF Graph, Owners, AppendedTo
  <1>2. Owners'
    BY <1>1, OwnersStay DEF Graph
  <1>3. PICK s : s = Cut(Appended(g, used + 3))
    OBVIOUS
  <1>4. s.cond = scope[g].cond /\ s.kind = scope[g].kind /\ g \in OptId
    BY <1>3, OpenIsScope DEF Appended, Cut, IInv, Scopes
  <1>5. used \in Nat /\ used + 1 \in OptId
    BY Ids DEF IInv, TypeOK, OpenIf, Room, OptId
  <1>6. PICK t : t = NewScope("If", used + 2, mask)
    OBVIOUS
  <1>7. t.cond = used + 2
    BY <1>6 DEF NewScope
  <1>8. \A h \in OptId : scope'[h] = IF h = used + 1 THEN t ELSE IF h = g THEN s ELSE scope[h]
    <2>1. scope' = [scope EXCEPT ![g] = s, ![used + 1] = t]
      BY <1>3, <1>6 DEF OpenIf
    <2> QED BY <1>4, <1>5, <2>1 DEF IInv, TypeOK
  <1>9. \A h \in OpenScopes' \ {0} : h # used + 1 =>
          /\ SameBranch(h)
          /\ scope[h].cond \in 1 .. used /\ items[scope[h].cond].kind = "Conditional"
    BY <1>4, <1>8 DEF SameBranch, OpenScopes, IInv, ScopesTyped, ScopeLinks, Stored
  <1>10. \A k \in 1 .. used : items[k].kind = "Conditional" => items'[k] = items[k]
    BY <1>1, ConditionalsStay DEF IInv
  <1>11. scope'[used + 1].cond = used + 2
    BY <1>5, <1>7, <1>8
  <1>12. ASSUME NEW h \in OpenScopes' \ {0}
         PROVE  HeldBranch(h)'
    <2>1. CASE h = used + 1
      <3>1. PICK x : x = FirstBranch(selector, mask, when, used + 1)
        OBVIOUS
      <3>2. used + 1 \in {x.true_group, x.false_group} /\ 0 \in {x.true_group, x.false_group}
        BY <3>1 DEF FirstBranch, CondItem
      <3> QED BY <1>1, <1>11, <2>1, <3>1, <3>2 DEF HeldBranch
    <2>2. CASE h # used + 1
      BY <1>9, <1>10, <1>12, <2>2 DEF SameBranch, HeldBranch, Graph, BranchScopes
    <2> QED BY <2>1, <2>2
  <1>13. ASSUME NEW h \in OpenScopes' \ {0}, NEW k \in OpenScopes' \ {0}, h # k
         PROVE  scope'[h].cond # scope'[k].cond
    <2>1. CASE h = used + 1 \/ k = used + 1
      BY <1>5, <1>9, <1>11, <1>13, <2>1 DEF SameBranch
    <2>2. CASE h # used + 1 /\ k # used + 1
      BY <1>9, <1>13, <2>2 DEF SameBranch, Graph, BranchScopes
    <2> QED BY <2>1, <2>2
  <1>14. BranchScopes'
    BY <1>12, <1>13 DEF BranchScopes
  <1> QED BY <1>2, <1>14 DEF Graph

\* A call that hands a Conditional's open branch on from scope g to scope
\* grp, or closes it, and leaves every other Conditional alone.
LEMMA HandedOn ==
  ASSUME IInv, BranchScopes, NEW g \in OpenScopes \ {0}, NEW grp,
         \A h \in OpenScopes' \ {0} : h # grp => h # g /\ SameBranch(h),
         grp \in OpenScopes' => scope'[grp].cond = scope[g].cond /\ HeldBranch(grp)',
         \A k \in 1 .. used : items[k].kind = "Conditional" /\ k # scope[g].cond =>
           items'[k] = items[k]
  PROVE  BranchScopes'
  <1>1. ASSUME NEW h \in OpenScopes' \ {0}, h # grp
        PROVE  /\ scope'[h].cond = scope[h].cond /\ scope[h].cond # scope[g].cond
               /\ HeldBranch(h)'
    <2>1. h \in OpenScopes \ {0} /\ h # g /\ scope'[h].cond = scope[h].cond
          /\ scope'[h].kind = scope[h].kind
      BY <1>1 DEF SameBranch
    <2>2. scope[h].cond \in 1 .. used /\ items[scope[h].cond].kind = "Conditional"
      BY <2>1 DEF IInv, ScopesTyped, ScopeLinks, Stored
    <2>3. scope[h].cond # scope[g].cond
      BY <2>1 DEF BranchScopes
    <2> QED BY <2>1, <2>2, <2>3 DEF HeldBranch, BranchScopes
  <1>2. ASSUME NEW h \in OpenScopes' \ {0}, NEW k \in OpenScopes' \ {0}, h # k
        PROVE  scope'[h].cond # scope'[k].cond
    <2>1. CASE h = grp \/ k = grp
      BY <1>1, <1>2, <2>1
    <2>2. CASE h # grp /\ k # grp
      BY <1>2, <2>2 DEF SameBranch, BranchScopes
    <2> QED BY <2>1, <2>2
  <1> QED BY <1>1, <1>2 DEF BranchScopes

\* Else behind a branch with commands.
LEMMA OpenElseGraph ==
  ASSUME IInv, TypeOK', HeapGrows, Graph, NEW g \in OpenScopes, NEW label \in GroupNames,
         OpenElse(g, label)
  PROVE  Graph'
  <1>0. PICK k, grp : k = scope[g].cond /\ grp = used + 1
    OBVIOUS
  <1>1. /\ used' = used + 1
        /\ Rebranches(k)
        /\ items'[k] = OtherSide(items[k], g, used + 1)
        /\ items'[used + 1] = GroupItem(label)
        /\ \A i \in ItemIds : i # k /\ i # used + 1 => items'[i] = items[i]
    BY <1>0, OpenElseEffect
  <1>a. items'[used + 1].kind = "Group" /\ items'[used + 1].cmds = 0
    BY <1>1 DEF GroupItem
  <1>2. /\ used \in Nat /\ used' \in Nat /\ ItemIds \subseteq Nat /\ g \in OptId /\ g # 0
        /\ k \in 1 .. used /\ items[k] \in CondItems /\ g \in 1 .. used
        /\ \A i \in ItemIds : i > used => i = used + 1 \/ i > used + 1
        /\ used + 1 \in OptId /\ 1 .. used \subseteq ItemIds
        /\ scope[g].kind = "If"
    BY <1>0, <1>1, Ids, BranchItems, OpenIsScope DEF IInv, TypeOK, OpenElse, Room, OptId
  <1>3. \A i \in ItemIds : i > used + 1 => items'[i].kind = "Free"
    <2> SUFFICES ASSUME NEW i \in ItemIds, i > used + 1 PROVE items'[i].kind = "Free"
      OBVIOUS
    <2>1. i \in Nat /\ k \in Nat /\ k <= used /\ used \in Nat
      BY <1>2
    <2>2. i > used /\ i # k /\ i # used + 1
      BY <2>1
    <2> QED BY <1>1, <2>2 DEF Graph, Owners, FreeAbove
  <1>4. PICK x : x = OtherSide(items[k], g, used + 1)
    OBVIOUS
  <1>5. \/ items[k].true_group = g /\ x.true_group = g /\ x.false_group = used + 1
        \/ items[k].true_group # g /\ x.true_group = used + 1
           /\ x.false_group = items[k].false_group
    BY <1>2, <1>4 DEF OtherSide, CondItems
  <1>6. items[k].false_group \in 0 .. used
    BY <1>2 DEF IInv, LinksTyped, LinksOf, Stored, CondItems
  <1>7. Owners'
    <2>1. \A i \in ItemIds : i > used => items'[i].kind \in {"Free", "Group"}
      BY <1>a, <1>2, <1>3
    <2>2. \A i \in ItemIds : i > used' => items'[i].kind = "Free"
      BY <1>1, <1>3
    <2>3. \A i \in ItemIds : i > used /\ items'[i].kind = "Group" => items'[i].cmds = 0
      BY <1>a, <1>2, <1>3
    <2>4. \A b \in {items'[k].true_group, items'[k].false_group} \ {0} :
            b \in {items[k].true_group, items[k].false_group} \/ b > used
      BY <1>1, <1>2, <1>4, <1>5
    <2>5. items'[k].true_group = items'[k].false_group => items'[k].true_group = 0
      BY <1>1, <1>2, <1>4, <1>5, <1>6
    <2> QED BY <1>1, <2>1, <2>2, <2>3, <2>4, <2>5, OwnersStayWithBranches DEF Graph
  <1>8. PICK t : t = NewScope("Else", k, scope[g].mask)
    OBVIOUS
  <1>9. \A h \in OptId : scope'[h] = IF h = used + 1 THEN t ELSE IF h = g THEN Closed ELSE scope[h]
    <2>1. scope' = [scope EXCEPT ![g] = Closed, ![used + 1] = t]
      BY <1>0, <1>8 DEF OpenElse
    <2> QED BY <1>2, <2>1 DEF IInv, TypeOK
  <1>10. scope'[grp].cond = k /\ HeldBranch(grp)'
    <2>1. scope'[grp].cond = k /\ scope'[grp].kind = "Else"
      BY <1>0, <1>2, <1>8, <1>9 DEF NewScope
    <2> QED BY <1>0, <1>1, <1>4, <1>5, <2>1 DEF HeldBranch
  <1>11. \A h \in OpenScopes' \ {0} : h # grp => h # g /\ SameBranch(h)
    BY <1>0, <1>9 DEF SameBranch, OpenScopes, Closed
  <1>12. \A i \in 1 .. used : items[i].kind = "Conditional" /\ i # k => items'[i] = items[i]
    BY <1>1, <1>2
  <1>13. BranchScopes'
    BY <1>0, <1>2, <1>10, <1>11, <1>12, HandedOn DEF Graph
  <1> QED BY <1>7, <1>13 DEF Graph

\* Else behind an empty branch.
LEMMA ReuseAsElseGraph ==
  ASSUME IInv, TypeOK', HeapGrows, Graph, NEW g \in OpenScopes, NEW label \in GroupNames,
         ReuseAsElse(g, label)
  PROVE  Graph'
  <1>0. PICK k : k = scope[g].cond
    OBVIOUS
  <1>1. /\ used' = used
        /\ Rebranches(k)
        /\ items'[k] = Flipped(items[k], g)
        /\ \A i \in ItemIds : i # k /\ i # g => items'[i] = items[i]
    BY <1>0, ReuseAsElseEffect
  <1>2. /\ used \in Nat /\ ItemIds \subseteq Nat /\ g \in OptId /\ g # 0 /\ g \in 1 .. used
        /\ k \in 1 .. used /\ items[k] \in CondItems /\ items[g].kind = "Group"
        /\ 1 .. used \subseteq ItemIds /\ scope[g].kind = "If"
    BY <1>0, Ids, BranchItems, OpenIsScope DEF IInv, TypeOK, ReuseAsElse
  <1>3. \A i \in ItemIds : i > used => items'[i].kind = "Free"
    <2>1. \A i \in ItemIds : i > used => i # k /\ i # g
      BY <1>2
    <2> QED BY <1>1, <2>1 DEF Graph, Owners, FreeAbove
  <1>4. g \in {items[k].true_group, items[k].false_group}
    BY <1>0, <1>2 DEF Graph, BranchScopes, HeldBranch
  <1>5. PICK x : x = Flipped(items[k], g)
    OBVIOUS
  <1>6. \/ x.true_group = 0 /\ x.false_group = g
        \/ x.true_group = g /\ x.false_group = 0
    BY <1>2, <1>5 DEF Flipped, CondItems
  <1>7. Owners'
    <2>1. \A b \in {items'[k].true_group, items'[k].false_group} \ {0} :
            b \in {items[k].true_group, items[k].false_group} \/ b > used
      BY <1>1, <1>4, <1>5, <1>6
    <2>2. items'[k].true_group = items'[k].false_group => items'[k].true_group = 0
      BY <1>1, <1>2, <1>5, <1>6
    <2>3. /\ \A i \in ItemIds : i > used => items'[i].kind \in {"Free", "Group"}
          /\ \A i \in ItemIds : i > used' => items'[i].kind = "Free"
          /\ \A i \in ItemIds : i > used /\ items'[i].kind = "Group" => items'[i].cmds = 0
      BY <1>1, <1>3
    <2> QED BY <1>1, <2>1, <2>2, <2>3, OwnersStayWithBranches DEF Graph
  <1>8. PICK t : t = NewScope("Else", k, scope[g].mask)
    OBVIOUS
  <1>9. \A h \in OptId : scope'[h] = IF h = g THEN t ELSE scope[h]
    <2>1. scope' = [scope EXCEPT ![g] = t]
      BY <1>0, <1>8 DEF ReuseAsElse
    <2> QED BY <1>2, <2>1 DEF IInv, TypeOK
  <1>10. scope'[g].cond = k /\ HeldBranch(g)'
    <2>1. scope'[g].cond = k /\ scope'[g].kind = "Else"
      BY <1>2, <1>8, <1>9 DEF NewScope
    <2> QED BY <1>1, <1>5, <1>6, <2>1 DEF HeldBranch
  <1>11. \A h \in OpenScopes' \ {0} : h # g => SameBranch(h)
    BY <1>9 DEF SameBranch, OpenScopes
  <1>12. \A i \in 1 .. used : items[i].kind = "Conditional" /\ i # k => items'[i] = items[i]
    BY <1>1, <1>2
  <1>13. BranchScopes'
    BY <1>0, <1>2, <1>10, <1>11, <1>12, HandedOn DEF Graph
  <1> QED BY <1>7, <1>13 DEF Graph

\* End of an empty else branch.
LEMMA DropEmptyElseGraph ==
  ASSUME IInv, TypeOK', HeapGrows, Graph, NEW g \in OpenScopes, DropEmptyElse(g)
  PROVE  Graph'
  <1>0. PICK k : k = scope[g].cond
    OBVIOUS
  <1>1. /\ used' = used
        /\ Rebranches(k)
        /\ items'[k] = WithoutBranch(items[k], g)
        /\ \A i \in ItemIds : i # k /\ i # g => items'[i] = items[i]
    BY <1>0, DropEmptyElseEffect
  <1>2. /\ used \in Nat /\ ItemIds \subseteq Nat /\ g \in OptId /\ g # 0 /\ g \in 1 .. used
        /\ k \in 1 .. used /\ items[k] \in CondItems /\ items[g].kind = "Group"
        /\ 1 .. used \subseteq ItemIds
    BY <1>0, Ids, BranchItems, OpenIsScope DEF IInv, TypeOK, DropEmptyElse
  <1>3. \A i \in ItemIds : i > used => items'[i].kind = "Free"
    <2>1. \A i \in ItemIds : i > used => i # k /\ i # g
      BY <1>2
    <2> QED BY <1>1, <2>1 DEF Graph, Owners, FreeAbove
  <1>4. PICK x : x = WithoutBranch(items[k], g)
    OBVIOUS
  <1>5. \/ x.true_group = 0 /\ x.false_group = items[k].false_group
        \/ x.true_group = items[k].true_group /\ x.false_group = 0
    BY <1>2, <1>4 DEF WithoutBranch, CondItems
  <1>6. Owners'
    <2>1. \A b \in {items'[k].true_group, items'[k].false_group} \ {0} :
            b \in {items[k].true_group, items[k].false_group} \/ b > used
      BY <1>1, <1>4, <1>5
    <2>2. items'[k].true_group = items'[k].false_group => items'[k].true_group = 0
      BY <1>1, <1>2, <1>4, <1>5
    <2>3. /\ \A i \in ItemIds : i > used => items'[i].kind \in {"Free", "Group"}
          /\ \A i \in ItemIds : i > used' => items'[i].kind = "Free"
          /\ \A i \in ItemIds : i > used /\ items'[i].kind = "Group" => items'[i].cmds = 0
      BY <1>1, <1>3
    <2> QED BY <1>1, <2>1, <2>2, <2>3, OwnersStayWithBranches DEF Graph
  <1>7. \A h \in OptId : scope'[h] = IF h = g THEN Closed ELSE scope[h]
    BY <1>2 DEF DropEmptyElse, IInv, TypeOK
  <1>8. \A h \in OpenScopes' \ {0} : h # g /\ SameBranch(h)
    BY <1>7 DEF SameBranch, OpenScopes, Closed
  <1>9. g \notin OpenScopes'
    BY <1>2, <1>7 DEF OpenScopes, Closed
  <1>10. \A i \in 1 .. used : items[i].kind = "Conditional" /\ i # k => items'[i] = items[i]
    BY <1>1, <1>2
  <1>11. BranchScopes'
    BY <1>0, <1>2, <1>8, <1>9, <1>10, HandedOn DEF Graph
  <1> QED BY <1>6, <1>11 DEF Graph

\* What only adds keeps every item's kind.
LEMMA KeptGrows ==
  ASSUME Kept, TypeOK'
  PROVE  HeapGrows
  BY DEF Kept, HeapGrows, Settled, TypeOK

\* Every call on an open scope keeps the graph's invariant.
LEMMA CallGraph ==
  ASSUME IInv, Graph, NEW g \in OpenScopes, Call(g)
  PROVE  Graph'
  <1>0. TypeOK' /\ HeapGrows
    BY CallIInv, CallKept, KeptGrows DEF IInv
  <1>1. ASSUME NEW mask \in CallMasks \union {{}}, NEW value \in Mask, NEW name \in Names,
               Named(g, mask, value, name)
        PROVE  Graph'
    <2>1. mask \in Mask
      BY ArgumentTypes
    <2>2. CASE ExtendNamed(g, mask, value, name)
      BY <1>0, <2>1, <2>2, ExtendNamedGraph
    <2>3. CASE StartNamed(g, mask, value, name)
      BY <1>0, <2>1, <2>3, StartNamedGraph
    <2>4. CASE ExtendNamedThrows(g, mask, value, name)
      BY <1>0, <2>1, <2>4, ExtendNamedThrowsGivesUp, GivesUpGraph
    <2>5. CASE StartNamedThrows(g, mask, value)
      BY <1>0, <2>1, <2>5, StartNamedThrowsGivesUp, GivesUpGraph
    <2>6. CASE FirstPairThrows(g, mask, value, name)
      BY <1>0, <2>1, <2>6, FirstPairGraph
    <2> QED BY <1>1, <2>2, <2>3, <2>4, <2>5, <2>6 DEF Named
  <1>2. ASSUME NEW mask \in CallMasks, NEW name \in Names, NEW format \in Formats,
               Numeric(g, mask, name, format)
        PROVE  Graph'
    <2>1. mask \in Mask
      BY ArgumentTypes
    <2>2. CASE AddNumeric(g, mask, name, format)
      BY <1>0, <2>1, <2>2, AddNumericGraph
    <2>3. CASE NumericThrows(g, mask, name, format)
      BY <1>0, <2>1, <2>3, NumericThrowsGivesUp, GivesUpGraph
    <2> QED BY <1>2, <2>2, <2>3 DEF Numeric
  <1>3. ASSUME NEW selector \in Selectors, NEW mask \in CallMasks, NEW when \in BOOLEAN,
               NEW label \in Labels, If(g, selector, mask, when, label)
        PROVE  Graph'
    <2>1. selector \in Mask /\ mask \in Mask /\ label \in GroupNames
      BY ArgumentTypes
    <2>2. CASE OpenIf(g, selector, mask, when, label)
      BY <1>0, <2>1, <2>2, OpenIfGraph
    <2>3. CASE IfThrows(g, selector, mask, when, label)
      BY <1>0, <2>1, <2>3, IfThrowsGivesUp, GivesUpGraph
    <2> QED BY <1>3, <2>2, <2>3 DEF If
  <1>4. ASSUME NEW label \in Labels, Else(g, label)
        PROVE  Graph'
    <2>1. label \in GroupNames
      BY ArgumentTypes
    <2>2. CASE OpenElse(g, label)
      BY <1>0, <2>1, <2>2, OpenElseGraph
    <2>3. CASE ReuseAsElse(g, label)
      BY <1>0, <2>1, <2>3, ReuseAsElseGraph
    <2>4. CASE ElseThrows(g, label)
      BY <1>0, <2>1, <2>4, ElseThrowsGivesUp, GivesUpGraph
    <2> QED BY <1>4, <2>2, <2>3, <2>4 DEF Else
  <1>5. CASE End(g)
    BY <1>0, <1>5, EndBranchGraph, DropEmptyElseGraph DEF End
  <1> QED BY <1>1, <1>2, <1>3, <1>4, <1>5 DEF Call

\* Nothing is linked in a builder that has just been made.
LEMMA InitGraph == Init => Graph
  <1> SUFFICES ASSUME Init PROVE Graph
    OBVIOUS
  <1>1. /\ \A i \in ItemIds : items[i].kind = "Free"
        /\ used = 0 /\ cmds_id = 0 /\ 0 \notin ItemIds
        /\ OpenScopes \subseteq {0}
    BY DEF Init, FreeItem, OpenScopes, Closed, ItemIds
  <1>2. \A i \in OptId, f \in LinkFields, j \in ItemIds : ~Linked(i, f, j)
    BY <1>1 DEF Linked, LinkFrom
  <1>3. FreeAbove /\ RootInside
    BY <1>1 DEF FreeAbove, RootInside
  <1>4. OneOwner /\ ListsOwned
    BY <1>1, <1>2 DEF OneOwner, ListsOwned
  <1>5. BranchScopes
    BY <1>1 DEF BranchScopes
  <1> QED BY <1>3, <1>4, <1>5 DEF Graph, Owners

\* A step that changes nothing keeps it.
LEMMA StutterGraph == Graph /\ UNCHANGED vars => Graph'
  <1> SUFFICES ASSUME Graph, UNCHANGED vars PROVE Graph'
    OBVIOUS
  <1>1. items' = items /\ used' = used /\ cmds_id' = cmds_id /\ scope' = scope
    BY DEF vars
  <1>2. Owners'
    BY <1>1 DEF Graph, Owners, FreeAbove, RootInside, OneOwner, ListsOwned, Linked
  <1>3. BranchScopes'
    BY <1>1 DEF Graph, BranchScopes, OpenScopes, HeldBranch
  <1> QED BY <1>2, <1>3 DEF Graph

\* The graph's invariant holds whichever open scope the calls are made on.
LEMMA GraphInductive == Spec => []Graph
  <1>1. IInv /\ Graph /\ [Next]_vars => Graph'
    BY CallGraph, StutterGraph DEF Next
  <1> QED BY Inductive, InitGraph, <1>1, PTL DEF Spec

-----------------------------------------------------------------------------
(* No call rewrites what is stored, nor unlinks a branch with commands.    *)

\* What linking a new item, or nothing, leaves of the branches: all of them.
LEMMA BranchesStay ==
  ASSUME TypeOK, (\E o, f, c : Grows(o, f, c)) \/ Still
  PROVE  \A i \in 1 .. used : BranchesKept(i)
  BY ConditionalsStay DEF BranchesKept, BranchKept

\* Only the branches of the Conditional k of scope g are to be looked at.
LEMMA OneRebranched ==
  ASSUME TypeOK, NEW k, Rebranches(k),
         BranchKept(items[k].true_group, items'[k].true_group),
         BranchKept(items[k].false_group, items'[k].false_group)
  PROVE  \A i \in 1 .. used : BranchesKept(i)
  BY DEF Rebranches, GroupItems, BranchesKept, BranchKept

\* The open branch scopes hold a branch of their Conditional.
LEMMA HeldBranches ==
  ASSUME IInv, Graph, NEW g \in OpenScopes, scope[g].kind \in {"If", "Else"}
  PROVE  g # 0 /\ HeldBranch(g) /\ items[scope[g].cond] \in CondItems
  BY BranchItems DEF IInv, ScopesTyped, ScopeLinks, Graph, BranchScopes

\* Else behind a branch with commands fills the side that was not in use.
LEMMA OpenElseBranches ==
  ASSUME IInv, Graph, NEW g \in OpenScopes, NEW label \in GroupNames, OpenElse(g, label)
  PROVE  \A i \in 1 .. used : BranchesKept(i)
  <1>0. PICK k, x : k = scope[g].cond /\ x = OtherSide(items[k], g, used + 1)
    OBVIOUS
  <1>1. /\ Rebranches(k) /\ items'[k] = x
        /\ items'[used + 1].cmds = 0
    <2>1. GroupItem(label).cmds = 0
      BY DEF GroupItem
    <2> QED BY <1>0, <2>1, OpenElseEffect
  <1>2. /\ g # 0 /\ items[k] \in CondItems
        /\ g \in {items[k].true_group, items[k].false_group}
        /\ 0 \in {items[k].true_group, items[k].false_group}
    BY <1>0, HeldBranches DEF OpenElse, HeldBranch
  <1>3. \/ /\ items[k].true_group = x.true_group
           /\ items[k].false_group = 0 /\ x.false_group = used + 1
        \/ /\ items[k].true_group = 0 /\ x.true_group = used + 1
           /\ items[k].false_group = x.false_group
    BY <1>0, <1>2 DEF OtherSide, CondItems
  <1>4. /\ BranchKept(items[k].true_group, items'[k].true_group)
        /\ BranchKept(items[k].false_group, items'[k].false_group)
    BY <1>1, <1>3 DEF BranchKept, NoCommands
  <1> QED BY <1>1, <1>4, OneRebranched DEF IInv

\* Else behind an empty branch moves that branch, and nothing else.
LEMMA ReuseAsElseBranches ==
  ASSUME IInv, Graph, NEW g \in OpenScopes, NEW label \in GroupNames, ReuseAsElse(g, label)
  PROVE  \A i \in 1 .. used : BranchesKept(i)
  <1>0. PICK k, x : k = scope[g].cond /\ x = Flipped(items[k], g)
    OBVIOUS
  <1>1. /\ Rebranches(k) /\ items'[k] = x
        /\ items[g].cmds = 0 /\ items'[g].cmds = 0
    <2>1. /\ Rebranches(k) /\ items'[k] = x
          /\ items'[g] = [items[g] EXCEPT !.name = label] /\ items[g].cmds = 0
      BY <1>0, ReuseAsElseEffect DEF ReuseAsElse, HasCommands
    <2>2. items[g] \in GroupItems
      BY BranchItems DEF ReuseAsElse, IInv
    <2> QED BY <2>1, <2>2 DEF GroupItems
  <1>2. /\ g # 0 /\ items[k] \in CondItems
        /\ g \in {items[k].true_group, items[k].false_group}
        /\ 0 \in {items[k].true_group, items[k].false_group}
    BY <1>0, HeldBranches DEF ReuseAsElse, HeldBranch
  <1>3. {items[k].true_group, items[k].false_group, x.true_group, x.false_group} \subseteq {0, g}
    BY <1>0, <1>2 DEF Flipped, CondItems
  <1>4. /\ BranchKept(items[k].true_group, items'[k].true_group)
        /\ BranchKept(items[k].false_group, items'[k].false_group)
    BY <1>1, <1>3 DEF BranchKept, NoCommands
  <1> QED BY <1>1, <1>4, OneRebranched DEF IInv

\* End takes an else branch away only when it is empty.
LEMMA DropEmptyElseBranches ==
  ASSUME IInv, Graph, NEW g \in OpenScopes, DropEmptyElse(g)
  PROVE  \A i \in 1 .. used : BranchesKept(i)
  <1>0. PICK k, x : k = scope[g].cond /\ x = WithoutBranch(items[k], g)
    OBVIOUS
  <1>1. Rebranches(k) /\ items'[k] = x /\ items[g].cmds = 0
    BY <1>0, DropEmptyElseEffect DEF DropEmptyElse, HasCommands
  <1>2. /\ items[k] \in CondItems
        /\ g \in {items[k].true_group, items[k].false_group}
    BY <1>0, HeldBranches DEF DropEmptyElse, HeldBranch
  <1>3. \/ /\ items[k].true_group = g /\ x.true_group = 0
           /\ items[k].false_group = x.false_group
        \/ /\ items[k].true_group = x.true_group
           /\ items[k].false_group = g /\ x.false_group = 0
    BY <1>0, <1>2 DEF WithoutBranch, CondItems
  <1>4. /\ BranchKept(items[k].true_group, items'[k].true_group)
        /\ BranchKept(items[k].false_group, items'[k].false_group)
    BY <1>1, <1>3 DEF BranchKept, NoCommands
  <1> QED BY <1>1, <1>4, OneRebranched DEF IInv

\* A call that gives up leaves all branches.
LEMMA GivesUpBranches ==
  ASSUME IInv, NEW g, OnlyNew(g)
  PROVE  \A i \in 1 .. used : BranchesKept(i)
  BY StillEffect, BranchesStay DEF IInv

\* A command's new node leaves all branches.
LEMMA AppendedBranches ==
  ASSUME TypeOK, NEW g, NEW command, NEW c, AppendedTo(g, command, c)
  PROVE  \A i \in 1 .. used : BranchesKept(i)
  BY BranchesStay DEF AppendedTo

\* No call takes a branch with commands from its Conditional.
LEMMA CallBranches ==
  ASSUME IInv, Graph, NEW g \in OpenScopes, Call(g)
  PROVE  \A i \in 1 .. used : BranchesKept(i)
  <1> DEFINE AllKept == \A i \in 1 .. used : BranchesKept(i)
  <1>0. TypeOK /\ Names \subseteq GroupNames
    BY DEF IInv, GroupNames
  <1>1. ASSUME NEW mask \in CallMasks \union {{}}, NEW value \in Mask, NEW name \in Names,
               Named(g, mask, value, name)
        PROVE  AllKept
    <2>1. mask \in Mask
      BY ArgumentTypes
    <2>2. CASE ExtendNamed(g, mask, value, name)
      BY <1>0, <2>1, <2>2, ExtendNamedEffect, BranchesStay
    <2>3. CASE StartNamed(g, mask, value, name)
      BY <1>0, <2>1, <2>3, StartNamedEffect, AppendedBranches
    <2>4. CASE ExtendNamedThrows(g, mask, value, name)
      BY <2>1, <2>4, ExtendNamedThrowsGivesUp, GivesUpBranches
    <2>5. CASE StartNamedThrows(g, mask, value)
      BY <2>1, <2>5, StartNamedThrowsGivesUp, GivesUpBranches
    <2>6. CASE FirstPairThrows(g, mask, value, name)
      BY <1>0, <2>1, <2>6, FirstPairEffect, AppendedBranches
    <2> QED BY <1>1, <2>2, <2>3, <2>4, <2>5, <2>6 DEF Named
  <1>2. ASSUME NEW mask \in CallMasks, NEW name \in Names, NEW format \in Formats,
               Numeric(g, mask, name, format)
        PROVE  AllKept
    <2>1. mask \in Mask
      BY ArgumentTypes
    <2>2. CASE AddNumeric(g, mask, name, format)
      BY <1>0, <2>1, <2>2, AddNumericEffect, AppendedBranches
    <2>3. CASE NumericThrows(g, mask, name, format)
      BY <2>1, <2>3, NumericThrowsGivesUp, GivesUpBranches
    <2> QED BY <1>2, <2>2, <2>3 DEF Numeric
  <1>3. ASSUME NEW selector \in Selectors, NEW mask \in CallMasks, NEW when \in BOOLEAN,
               NEW label \in Labels, If(g, selector, mask, when, label)
        PROVE  AllKept
    <2>1. selector \in Mask /\ mask \in Mask /\ label \in GroupNames
      BY ArgumentTypes
    <2>2. CASE OpenIf(g, selector, mask, when, label)
      BY <1>0, <2>1, <2>2, OpenIfEffect, AppendedBranches
    <2>3. CASE IfThrows(g, selector, mask, when, label)
      BY <2>1, <2>3, IfThrowsGivesUp, GivesUpBranches
    <2> QED BY <1>3, <2>2, <2>3 DEF If
  <1>4. ASSUME NEW label \in Labels, Else(g, label)
        PROVE  AllKept
    <2>1. label \in GroupNames
      BY ArgumentTypes
    <2> QED BY <1>4, <2>1, OpenElseBranches, ReuseAsElseBranches, ElseThrowsGivesUp,
               GivesUpBranches DEF Else
  <1>5. CASE EndBranch(g)
    <2>1. Still
      BY <1>0, <1>5, Ids DEF EndBranch, Still, TypeOK
    <2> QED BY <1>0, <2>1, BranchesStay
  <1>6. CASE DropEmptyElse(g)
    BY <1>6, DropEmptyElseBranches
  <1> QED BY <1>1, <1>2, <1>3, <1>4, <1>5, <1>6 DEF Call, End

(* Whatever calls are made on whichever scopes, and wherever they fail, no *)
(* stored item is rewritten, no link that is set is set again, and the     *)
(* branches of a Conditional change only while they are empty: Else turns  *)
(* or fills, and End drops, nothing that has commands.                     *)
THEOREM HeapOnlyGrows == Spec => OnlyGrows
  <1> DEFINE Growth == /\ used' >= used
                       /\ chars' >= chars
                       /\ \A i \in 1 .. used :
                            items'[i] # items[i] => Settled(items[i], items'[i]) /\ BranchesKept(i)
  <1>1. IInv /\ Graph /\ [Next]_vars => [Growth]_vars
    BY CallKept, CallBranches DEF Next, Kept, IInv, TypeOK
  <1> QED BY Inductive, GraphInductive, <1>1, PTL DEF Spec, OnlyGrows
-----------------------------------------------------------------------------
(* Who owns what, counted.                                                 *)

\* The invariant of the links, counted.
LEMMA OwnersCounted ==
  ASSUME IInv, Graph
  PROVE  OwnedOnce
  <1> DEFINE owners(i) == {l \in Links : l[3] = i}
  <1> SUFFICES ASSUME NEW i \in 1 .. used
               PROVE  /\ Cardinality(owners(i)) <= 1
                      /\ items[i].kind \in {"Cmds", "Pairs"} => Cardinality(owners(i)) = 1
    BY DEF OwnedOnce
  <1>1. i \in ItemIds
    BY Ids, ItemSpaceAssumption DEF IInv, TypeOK, OptId, ItemIds
  <1>2. \A l : l \in owners(i) <=> \E k \in OptId, f \in LinkFields : l = <<k, f, i>> /\ Linked(k, f, i)
    BY LinksAreLinked
  <1>3. \A l, m \in owners(i) : l = m
    <2> SUFFICES ASSUME NEW l \in owners(i), NEW m \in owners(i) PROVE l = m
      OBVIOUS
    <2>1. PICK k \in OptId, f \in LinkFields : l = <<k, f, i>> /\ Linked(k, f, i)
      BY <1>2
    <2>2. PICK h \in OptId, e \in LinkFields : m = <<h, e, i>> /\ Linked(h, e, i)
      BY <1>2
    <2>3. k = h /\ f = e
      BY <1>1, <2>1, <2>2 DEF Graph, Owners, OneOwner
    <2> QED BY <2>1, <2>2, <2>3
  <1> HIDE DEF owners
  <1>4. CASE owners(i) = {}
    <2>1. items[i].kind \notin {"Cmds", "Pairs"}
      BY <1>2, <1>4 DEF Graph, Owners, ListsOwned
    <2> QED BY <1>4, <2>1, FS_EmptySet
  <1>5. CASE owners(i) # {}
    <2>1. PICK l : l \in owners(i)
      BY <1>5
    <2>2. owners(i) = {l}
      BY <1>3, <2>1
    <2>3. Cardinality({l}) = 1
      BY FS_Singleton
    <2> QED BY <2>2, <2>3
  <1> QED BY <1>4, <1>5

(* Whatever calls are made on whichever scopes, and wherever they fail, no *)
(* list node and no pair is lost or shared, for every size of the heaps.   *)
THEOREM EveryItemOwnedOnce == Spec => []OwnedOnce
  <1>1. IInv /\ Graph => OwnedOnce
    BY OwnersCounted
  <1> QED BY Inductive, GraphInductive, <1>1, PTL
-----------------------------------------------------------------------------
(* Complete descriptions: no command is left without what it encodes.      *)

\* Item c, if it is a command, has what encode() asks of it; a branch may
\* still be empty while its scope is open.
CommandFull(c) ==
  /\ items[c].kind = "Named" => items[c].pairs # 0
  /\ items[c].kind = "Conditional" =>
       /\ items[c].true_group # 0 \/ items[c].false_group # 0
       /\ \A b \in {items[c].true_group, items[c].false_group} \ {0} :
            items[b].cmds # 0 \/ b \in OpenScopes

CommandsFull == ~thrown => \A c \in 1 .. used : CommandFull(c)

\* What a step has to show when it changes no Conditional but k.
LEMMA CommandsFullStay ==
  ASSUME IInv, CommandsFull, Kept, TypeOK', ~thrown' => ~thrown, NEW k,
         \A c \in 1 .. used : items[c].kind = "Conditional" /\ c # k =>
           /\ items'[c] = items[c]
           /\ \A b \in {items[c].true_group, items[c].false_group} \ {0} :
                b \in OpenScopes => b \in OpenScopes' \/ items'[b].cmds # 0,
         \A c \in 1 .. used' : c > used \/ c = k => CommandFull(c)'
  PROVE  CommandsFull'
  <1> SUFFICES ASSUME ~thrown', NEW c \in 1 .. used' PROVE CommandFull(c)'
    BY DEF CommandsFull
  <1>1. used \in Nat /\ used' \in Nat /\ 0 \notin ItemIds /\ 1 .. used \subseteq ItemIds
    BY Ids, ItemSpaceAssumption DEF IInv, TypeOK, OptId, ItemIds
  <1>2. CASE c > used \/ c = k
    BY <1>2
  <1>3. CASE c \in 1 .. used /\ c # k
    <2>1. CommandFull(c)
      BY <1>3 DEF CommandsFull
    <2>2. Settled(items[c], items'[c]) /\ LinksOf(c)
      BY <1>3 DEF Kept, IInv, LinksTyped
    <2>3. CASE items[c].kind = "Conditional"
      <3>1. items'[c] = items[c]
        BY <1>3, <2>3
      <3>2. ASSUME NEW b \in {items[c].true_group, items[c].false_group} \ {0}
            PROVE  items'[b].cmds # 0 \/ b \in OpenScopes'
        <4>1. items[b].cmds # 0 \/ b \in OpenScopes
          BY <2>1, <2>3, <3>2 DEF CommandFull
        <4>2. b \in 1 .. used /\ items[b].kind = "Group"
          BY <2>2, <2>3, <3>2 DEF LinksOf, Stored
        <4>3. items[b].cmds \in {0, items'[b].cmds}
          BY <4>2 DEF Kept, Settled
        <4> QED BY <1>3, <2>3, <3>2, <4>1, <4>3
      <3> QED BY <2>1, <2>3, <3>1, <3>2 DEF CommandFull
    <2>4. CASE items[c].kind = "Named"
      BY <2>1, <2>2, <2>4 DEF CommandFull, Settled
    <2>5. CASE items[c].kind \notin {"Named", "Conditional"}
      BY <2>2, <2>5 DEF CommandFull, Settled
    <2> QED BY <2>3, <2>4, <2>5
  <1> QED BY <1>1, <1>2, <1>3

\* A call that links new commands which are full, and closes no scope.
LEMMA CommandsFullLinked ==
  ASSUME IInv, CommandsFull, TypeOK', ~thrown' => ~thrown,
         \E o, f, c : Grows(o, f, c),
         OpenScopes \subseteq OpenScopes',
         \A c \in 1 .. used' : c > used => CommandFull(c)'
  PROVE  CommandsFull'
  <1>1. Kept /\ TypeOK /\ 0 \notin 1 .. used'
    BY GrowsKept DEF IInv
  <1>2. \A c \in 1 .. used : items[c].kind = "Conditional" => items'[c] = items[c]
    BY <1>1, ConditionalsStay
  <1> QED BY <1>1, <1>2, CommandsFullStay

\* A call that changes scope g only, and does not close it, leaves all open.
LEMMA ScopesStayOpen ==
  ASSUME TypeOK, NEW g \in OpenScopes, NEW s, s.kind = scope[g].kind,
         scope' = [scope EXCEPT ![g] = s]
  PROVE  OpenScopes' = OpenScopes
  <1>1. g \in OptId /\ \A h \in OptId : scope'[h] = IF h = g THEN s ELSE scope[h]
    BY DEF TypeOK, OpenScopes
  <1> QED BY <1>1 DEF OpenScopes

\* Named with its first pair.
LEMMA StartNamedFull ==
  ASSUME IInv, CommandsFull, TypeOK', NEW g \in OpenScopes, NEW mask \in Mask,
         NEW value \in Mask, NEW name \in Names, StartNamed(g, mask, value, name)
  PROVE  CommandsFull'
  <1>1. /\ used' = used + 3
        /\ items'[used + 1] = [NamedItem(mask) EXCEPT !.pairs = used + 3]
        /\ items'[used + 2] = CmdsItem(used + 1)
        /\ items'[used + 3] = PairsItem(value, name)
        /\ \E o, f : Grows(o, f, used + 2)
    BY StartNamedEffect DEF AppendedTo
  <1>2. used \in Nat /\ \A c \in 1 .. used' : c > used => c \in {used + 1, used + 2, used + 3}
    BY <1>1, Ids DEF IInv, TypeOK
  <1>3. \A c \in 1 .. used' : c > used => CommandFull(c)'
    BY <1>1, <1>2 DEF CommandFull, NamedItem, CmdsItem, PairsItem
  <1>4. PICK s : s = [Appended(g, used + 2) EXCEPT
                        !.implicit = [named |-> used + 1, last_pair |-> used + 3, mask |-> mask]]
    OBVIOUS
  <1>5. s.kind = scope[g].kind
    BY <1>4, OpenIsScope DEF Appended, IInv, Scopes
  <1>6. OpenScopes' = OpenScopes
    BY <1>4, <1>5, ScopesStayOpen DEF StartNamed, IInv
  <1>7. thrown' = thrown
    BY DEF StartNamed
  <1> QED BY <1>1, <1>3, <1>6, <1>7, CommandsFullLinked

\* Numeric.
LEMMA AddNumericFull ==
  ASSUME IInv, CommandsFull, TypeOK', NEW g \in OpenScopes, NEW mask \in Mask,
         NEW name \in Names, NEW format \in Formats, AddNumeric(g, mask, name, format)
  PROVE  CommandsFull'
  <1>1. /\ used' = used + 2
        /\ items'[used + 1] = NumericItem(mask, format, name)
        /\ items'[used + 2] = CmdsItem(used + 1)
        /\ \E o, f : Grows(o, f, used + 2)
    BY AddNumericEffect DEF AppendedTo
  <1>2. used \in Nat /\ \A c \in 1 .. used' : c > used => c \in {used + 1, used + 2}
    BY <1>1, Ids DEF IInv, TypeOK
  <1>3. \A c \in 1 .. used' : c > used => CommandFull(c)'
    BY <1>1, <1>2 DEF CommandFull, NumericItem, CmdsItem
  <1>4. PICK s : s = Cut(Appended(g, used + 2))
    OBVIOUS
  <1>5. s.kind = scope[g].kind
    BY <1>4, OpenIsScope DEF Appended, Cut, IInv, Scopes
  <1>6. OpenScopes' = OpenScopes
    BY <1>4, <1>5, ScopesStayOpen DEF AddNumeric, IInv
  <1>7. thrown' = thrown
    BY DEF AddNumeric
  <1> QED BY <1>1, <1>3, <1>6, <1>7, CommandsFullLinked

\* A further pair.
LEMMA ExtendNamedFull ==
  ASSUME IInv, CommandsFull, TypeOK', NEW g \in OpenScopes, NEW mask \in Mask,
         NEW value \in Mask, NEW name \in Names, ExtendNamed(g, mask, value, name)
  PROVE  CommandsFull'
  <1>1. /\ used' = used + 1
        /\ items'[used + 1] = PairsItem(value, name)
        /\ \E o, f : Grows(o, f, used + 1)
    BY ExtendNamedEffect
  <1>2. used \in Nat /\ \A c \in 1 .. used' : c > used => c = used + 1
    BY <1>1, Ids DEF IInv, TypeOK
  <1>3. \A c \in 1 .. used' : c > used => CommandFull(c)'
    BY <1>1, <1>2 DEF CommandFull, PairsItem
  <1>4. PICK s : s = [scope[g] EXCEPT !.implicit.last_pair = used + 1]
    OBVIOUS
  <1>5. s.kind = scope[g].kind
    BY <1>4, OpenIsScope DEF IInv, Scopes
  <1>6. OpenScopes' = OpenScopes
    BY <1>4, <1>5, ScopesStayOpen DEF ExtendNamed, IInv
  <1>7. thrown' = thrown
    BY DEF ExtendNamed
  <1> QED BY <1>1, <1>3, <1>6, <1>7, CommandsFullLinked

\* If and IfNot.
LEMMA OpenIfFull ==
  ASSUME IInv, CommandsFull, TypeOK', NEW g \in OpenScopes, NEW selector \in Mask,
         NEW mask \in Mask, NEW when \in BOOLEAN, NEW label \in GroupNames,
         OpenIf(g, selector, mask, when, label)
  PROVE  CommandsFull'
  <1>0. PICK x : x = FirstBranch(selector, mask, when, used + 1)
    OBVIOUS
  <1>1. /\ used' = used + 3
        /\ items'[used + 1] = GroupItem(label)
        /\ items'[used + 2] = x
        /\ items'[used + 3] = CmdsItem(used + 2)
        /\ \E o, f : Grows(o, f, used + 3)
    BY <1>0, OpenIfEffect DEF AppendedTo
  <1>2. /\ used \in Nat /\ used + 1 \in OptId /\ g \in OptId
        /\ \A c \in 1 .. used' : c > used => c \in {used + 1, used + 2, used + 3}
    BY <1>1, Ids, OpenIsScope DEF IInv, TypeOK, OpenIf, Room, OptId
  <1>3. /\ x.kind = "Conditional"
        /\ {x.true_group, x.false_group} \ {0} = {used + 1}
        /\ x.true_group # 0 \/ x.false_group # 0
    BY <1>0, <1>2 DEF FirstBranch, CondItem
  <1>4. PICK s, t : s = Cut(Appended(g, used + 3)) /\ t = NewScope("If", used + 2, mask)
    OBVIOUS
  <1>5. s.kind = scope[g].kind /\ t.kind = "If"
    BY <1>4, OpenIsScope DEF Appended, Cut, NewScope, IInv, Scopes
  <1>6. \A h \in OptId : scope'[h] = IF h = used + 1 THEN t ELSE IF h = g THEN s ELSE scope[h]
    <2>1. scope' = [scope EXCEPT ![g] = s, ![used + 1] = t]
      BY <1>4 DEF OpenIf
    <2> QED BY <1>2, <2>1 DEF IInv, TypeOK
  <1>7. OpenScopes \subseteq OpenScopes' /\ used + 1 \in OpenScopes'
    BY <1>2, <1>5, <1>6 DEF OpenScopes
  <1>8. \A c \in 1 .. used' : c > used => CommandFull(c)'
    <2> SUFFICES ASSUME NEW c \in 1 .. used', c > used PROVE CommandFull(c)'
      OBVIOUS
    <2>1. CASE c = used + 1
      BY <1>1, <2>1 DEF CommandFull, GroupItem
    <2>2. CASE c = used + 2
      BY <1>1, <1>3, <1>7, <2>2 DEF CommandFull
    <2>3. CASE c = used + 3
      BY <1>1, <2>3 DEF CommandFull, CmdsItem
    <2> QED BY <1>2, <2>1, <2>2, <2>3
  <1>9. thrown' = thrown
    BY DEF OpenIf
  <1> QED BY <1>1, <1>7, <1>8, <1>9, CommandsFullLinked

\* End of a branch that has commands.
LEMMA EndBranchFull ==
  ASSUME IInv, CommandsFull, TypeOK', NEW g \in OpenScopes, EndBranch(g)
  PROVE  CommandsFull'
  <1>1. /\ items' = items /\ used' = used /\ cmds_id' = cmds_id /\ thrown' = thrown
        /\ scope' = [scope EXCEPT ![g] = Closed] /\ items[g].cmds # 0
        /\ used \in Nat
    BY Ids DEF EndBranch, HasCommands, IInv, TypeOK
  <1>2. \A h \in OpenScopes : h # g => h \in OpenScopes'
    BY <1>1 DEF OpenScopes, IInv, TypeOK
  <1>3. Kept
    BY <1>1, StillKept DEF Still, IInv, TypeOK
  <1> QED BY <1>1, <1>2, <1>3, CommandsFullStay

\* Else behind a branch with commands.
LEMMA OpenElseFull ==
  ASSUME IInv, Graph, CommandsFull, TypeOK', NEW g \in OpenScopes, NEW label \in GroupNames,
         OpenElse(g, label)
  PROVE  CommandsFull'
  <1>0. PICK k, grp : k = scope[g].cond /\ grp = used + 1
    OBVIOUS
  <1>1. /\ used' = grp /\ thrown' = thrown
        /\ Rebranches(k) /\ Kept
        /\ items'[k] = OtherSide(items[k], g, grp)
        /\ items'[grp].kind = "Group"
        /\ \A i \in ItemIds : i # k /\ i # grp => items'[i] = items[i]
    <2>1. /\ used' = grp /\ Rebranches(k)
          /\ items'[k] = OtherSide(items[k], g, grp)
          /\ items'[grp] = GroupItem(label)
          /\ \A i \in ItemIds : i # k /\ i # grp => items'[i] = items[i]
      BY <1>0, OpenElseEffect
    <2>2. thrown' = thrown /\ TypeOK
      BY DEF OpenElse, IInv
    <2> QED BY <2>1, <2>2, RebranchesKept DEF GroupItem
  <1>2. /\ used \in Nat /\ g \in OptId /\ g # 0 /\ g \in 1 .. used /\ items[g].kind = "Group"
        /\ k \in 1 .. used /\ items[k] \in CondItems /\ items[k].kind = "Conditional"
        /\ grp \in OptId /\ grp # 0 /\ 1 .. used \subseteq ItemIds /\ scope[g].kind = "If"
        /\ items[g].cmds # 0
    BY <1>0, <1>1, Ids, BranchItems, OpenIsScope
       DEF IInv, TypeOK, OpenElse, HasCommands, Room, OptId
  <1>3. PICK x : x = OtherSide(items[k], g, grp)
    OBVIOUS
  <1>4. g \in {items[k].true_group, items[k].false_group}
    BY <1>0, <1>2 DEF Graph, BranchScopes, HeldBranch
  <1>5. x.kind = "Conditional" /\ {x.true_group, x.false_group} = {g, grp}
    BY <1>2, <1>3, <1>4 DEF OtherSide, CondItems
  <1>6. PICK t : t = NewScope("Else", k, scope[g].mask)
    OBVIOUS
  <1>7. \A h \in OptId : scope'[h] = IF h = grp THEN t ELSE IF h = g THEN Closed ELSE scope[h]
    <2>1. scope' = [scope EXCEPT ![g] = Closed, ![grp] = t]
      BY <1>0, <1>6 DEF OpenElse
    <2> QED BY <1>2, <2>1 DEF IInv, TypeOK
  <1>8. t.kind = "Else"
    BY <1>6 DEF NewScope
  <1>9. grp \in OpenScopes' /\ \A h \in OpenScopes : h # g => h \in OpenScopes'
    BY <1>2, <1>7, <1>8 DEF OpenScopes
  <1>10. g # grp /\ g # k /\ items'[g] = items[g]
    BY <1>0, <1>1, <1>2
  <1>11. CommandFull(k)'
    BY <1>1, <1>2, <1>3, <1>5, <1>9, <1>10 DEF CommandFull
  <1>12. \A c \in 1 .. used' : c > used \/ c = k => CommandFull(c)'
    <2>1. CommandFull(grp)'
      BY <1>1 DEF CommandFull
    <2> QED BY <1>0, <1>1, <1>2, <1>11, <2>1
  <1>13. \A c \in 1 .. used : items[c].kind = "Conditional" /\ c # k =>
           /\ items'[c] = items[c]
           /\ \A b \in {items[c].true_group, items[c].false_group} \ {0} :
                b \in OpenScopes => b \in OpenScopes' \/ items'[b].cmds # 0
    <2>1. \A c \in 1 .. used : c # grp /\ c \in ItemIds
      BY <1>0, <1>2
    <2> QED BY <1>1, <1>2, <1>9, <1>10, <2>1
  <1> QED BY <1>1, <1>12, <1>13, CommandsFullStay

\* Else behind an empty branch.
LEMMA ReuseAsElseFull ==
  ASSUME IInv, CommandsFull, TypeOK', NEW g \in OpenScopes, NEW label \in GroupNames,
         ReuseAsElse(g, label)
  PROVE  CommandsFull'
  <1>0. PICK k : k = scope[g].cond
    OBVIOUS
  <1>1. /\ used' = used /\ thrown' = thrown
        /\ Rebranches(k) /\ Kept
        /\ items'[k] = Flipped(items[k], g)
        /\ \A i \in ItemIds : i # k /\ i # g => items'[i] = items[i]
    BY <1>0, ReuseAsElseEffect, RebranchesKept DEF ReuseAsElse, IInv
  <1>2. /\ used \in Nat /\ g \in OptId /\ g # 0 /\ g \in 1 .. used /\ items[g].kind = "Group"
        /\ k \in 1 .. used /\ items[k] \in CondItems /\ items[k].kind = "Conditional"
        /\ 1 .. used \subseteq ItemIds /\ scope[g].kind = "If"
    BY <1>0, Ids, BranchItems, OpenIsScope DEF IInv, TypeOK, ReuseAsElse
  <1>3. PICK x : x = Flipped(items[k], g)
    OBVIOUS
  <1>4. /\ x.kind = "Conditional" /\ {x.true_group, x.false_group} \ {0} = {g}
        /\ x.true_group # 0 \/ x.false_group # 0
    BY <1>2, <1>3 DEF Flipped, CondItems
  <1>5. PICK t : t = NewScope("Else", k, scope[g].mask)
    OBVIOUS
  <1>6. t.kind = "Else" /\ scope' = [scope EXCEPT ![g] = t]
    BY <1>0, <1>5 DEF ReuseAsElse, NewScope
  <1>7. \A h \in OpenScopes : h \in OpenScopes'
    BY <1>2, <1>6 DEF OpenScopes, IInv, TypeOK
  <1>8. CommandFull(k)'
    BY <1>1, <1>3, <1>4, <1>7 DEF CommandFull
  <1>9. \A c \in 1 .. used' : c > used \/ c = k => CommandFull(c)'
    BY <1>1, <1>2, <1>8
  <1>10. \A c \in 1 .. used : items[c].kind = "Conditional" /\ c # k => items'[c] = items[c]
    BY <1>1, <1>2
  <1> QED BY <1>1, <1>7, <1>9, <1>10, CommandsFullStay

\* End of an empty else branch: the other branch stays.
LEMMA DropEmptyElseFull ==
  ASSUME IInv, Graph, CommandsFull, TypeOK', NEW g \in OpenScopes, DropEmptyElse(g)
  PROVE  CommandsFull'
  <1>0. PICK k : k = scope[g].cond
    OBVIOUS
  <1>1. /\ used' = used /\ thrown' = thrown
        /\ Rebranches(k) /\ Kept
        /\ items'[k] = WithoutBranch(items[k], g)
        /\ \A i \in ItemIds : i # k /\ i # g => items'[i] = items[i]
    BY <1>0, DropEmptyElseEffect, RebranchesKept DEF DropEmptyElse, IInv
  <1>2. /\ used \in Nat /\ g \in OptId /\ g # 0 /\ g \in 1 .. used /\ items[g].kind = "Group"
        /\ k \in 1 .. used /\ items[k] \in CondItems /\ items[k].kind = "Conditional"
        /\ 1 .. used \subseteq ItemIds /\ ItemIds \subseteq OptId
    BY <1>0, Ids, BranchItems, OpenIsScope DEF IInv, TypeOK, DropEmptyElse
  <1>3. PICK x : x = WithoutBranch(items[k], g)
    OBVIOUS
  <1>4. g \in {items[k].true_group, items[k].false_group}
    BY <1>0, <1>2 DEF Graph, BranchScopes, HeldBranch
  <1>5. \A i \in 1 .. used : items[i].kind = "Conditional" =>
          /\ items[i].true_group = g => Linked(i, "true", g)
          /\ items[i].false_group = g => Linked(i, "false", g)
    BY <1>2 DEF Linked, LinkFrom
  <1>6. \A i, j \in OptId, e, f \in LinkFields : Linked(i, e, g) /\ Linked(j, f, g) => i = j /\ e = f
    BY <1>2 DEF Graph, Owners, OneOwner
  <1>7. "true" \in LinkFields /\ "false" \in LinkFields /\ "true" # "false"
    BY DEF LinkFields
  <1>8. ~(items[k].true_group = g /\ items[k].false_group = g)
    BY <1>2, <1>5, <1>6, <1>7
  <1>9. \A i \in 1 .. used : items[i].kind = "Conditional" /\ i # k =>
          items[i].true_group # g /\ items[i].false_group # g
    BY <1>2, <1>4, <1>5, <1>6, <1>7
  <1>10. /\ x.kind = "Conditional"
         /\ x.true_group # 0 \/ x.false_group # 0
         /\ \A b \in {x.true_group, x.false_group} \ {0} :
              b # g /\ b \in {items[k].true_group, items[k].false_group}
    <2>1. x.kind = "Conditional" /\ (x.true_group # 0 \/ x.false_group # 0)
      BY <1>0, <1>2, <1>3 DEF DropEmptyElse, WithoutBranch, CondItems
    <2>2. \/ x.true_group = 0 /\ x.false_group = items[k].false_group /\ items[k].true_group = g
          \/ x.true_group = items[k].true_group /\ x.false_group = 0 /\ items[k].true_group # g
      BY <1>2, <1>3 DEF WithoutBranch, CondItems
    <2> QED BY <1>8, <2>1, <2>2
  <1>11. \A h \in OpenScopes : h # g => h \in OpenScopes'
    BY DEF DropEmptyElse, OpenScopes, IInv, TypeOK
  <1>12. ~thrown => CommandFull(k)'
    <2> SUFFICES ASSUME ~thrown, NEW b \in {x.true_group, x.false_group} \ {0}
                 PROVE  items'[b].cmds # 0 \/ b \in OpenScopes'
      BY <1>1, <1>3, <1>10 DEF CommandFull
    <2>1. items[b].cmds # 0 \/ b \in OpenScopes
      BY <1>2, <1>10 DEF CommandsFull, CommandFull
    <2>2. b \in 1 .. used /\ items[b].kind = "Group"
      BY <1>2, <1>10 DEF IInv, LinksTyped, LinksOf, Stored
    <2>3. items'[b] = items[b]
      BY <1>1, <1>2, <1>10, <2>2
    <2> QED BY <1>10, <1>11, <2>1, <2>3
  <1>13. \A c \in 1 .. used : items[c].kind = "Conditional" /\ c # k =>
           /\ items'[c] = items[c]
           /\ \A b \in {items[c].true_group, items[c].false_group} \ {0} :
                b \in OpenScopes => b \in OpenScopes'
    BY <1>1, <1>2, <1>9, <1>11
  <1>14. CASE thrown
    BY <1>1, <1>14 DEF CommandsFull
  <1>15. CASE ~thrown
    <2>1. \A c \in 1 .. used' : c > used \/ c = k => CommandFull(c)'
      BY <1>1, <1>2, <1>12, <1>15
    <2> QED BY <1>1, <1>13, <2>1, CommandsFullStay
  <1> QED BY <1>14, <1>15
-----------------------------------------------------------------------------
(* Neighbours: what could have been one Named command is one.              *)

\* While nothing has thrown: a scope whose last command is a Named has it open.
LastOpen ==
  ~thrown => \A g \in OpenScopes :
    scope[g].last # 0 /\ items[items[scope[g].last].command].kind = "Named" =>
      scope[g].implicit.named = items[scope[g].last].command

\* A list node keeps its command, and the command its kind and mask.
LEMMA CommandsStay ==
  ASSUME IInv, Kept, NEW c \in 1 .. used, items[c].kind = "Cmds"
  PROVE  /\ items[c].command \in 1 .. used
         /\ items'[c].command = items[c].command
         /\ items'[items[c].command].kind = items[items[c].command].kind
         /\ items[items[c].command].kind = "Named" =>
              items'[items[c].command].mask = items[items[c].command].mask
  <1>1. PICK d : d = items[c].command
    OBVIOUS
  <1>2. d \in 1 .. used
    BY <1>1 DEF IInv, LinksTyped, LinksOf, Earlier, Stored
  <1>3. d \in ItemIds /\ items[d] \in Item
    BY <1>2, Ids, ItemSpaceAssumption DEF IInv, TypeOK, OptId, ItemIds
  <1>4. Settled(items[c], items'[c]) /\ Settled(items[d], items'[d])
    BY <1>2 DEF Kept
  <1>5. items[d].kind = "Named" => items'[d].mask = items[d].mask
    <2> SUFFICES ASSUME items[d].kind = "Named" PROVE items'[d].mask = items[d].mask
      OBVIOUS
    <2>1. items[d] \in NamedItems /\ [items[d] EXCEPT !.pairs = items'[d].pairs] = items'[d]
      BY <1>3, <1>4, ItemKinds DEF Settled
    <2> QED BY <2>1 DEF NamedItems
  <1> QED BY <1>1, <1>2, <1>4, <1>5 DEF Settled

\* What a step has to show of each scope that is open after it.
LEMMA LastOpenStays ==
  ASSUME IInv, LastOpen, Kept, ~thrown' => ~thrown,
         \A h \in OpenScopes' :
           \/ scope'[h].last = 0
           \/ /\ h \in OpenScopes /\ scope'[h].last = scope[h].last
              /\ scope'[h].implicit.named = scope[h].implicit.named
           \/ items'[items'[scope'[h].last].command].kind # "Named"
           \/ scope'[h].implicit.named = items'[scope'[h].last].command
  PROVE  LastOpen'
  <1> SUFFICES ASSUME ~thrown', NEW h \in OpenScopes', scope'[h].last # 0,
                      items'[items'[scope'[h].last].command].kind = "Named"
               PROVE  scope'[h].implicit.named = items'[scope'[h].last].command
    BY DEF LastOpen
  <1>1. CASE /\ h \in OpenScopes /\ scope'[h].last = scope[h].last
             /\ scope'[h].implicit.named = scope[h].implicit.named
    <2>1. PICK l : l = scope[h].last
      OBVIOUS
    <2>2. l \in 1 .. used /\ items[l].kind = "Cmds"
      BY <1>1, <2>1 DEF IInv, ScopesTyped, ScopeLinks, Stored
    <2>3. /\ items'[l].command = items[l].command
          /\ items'[items[l].command].kind = items[items[l].command].kind
      BY <2>2, CommandsStay
    <2>4. scope[h].implicit.named = items[l].command
      BY <1>1, <2>1, <2>3 DEF LastOpen
    <2> QED BY <1>1, <2>1, <2>3, <2>4
  <1> QED BY <1>1

\* What a step has to show of each list node there is after it.
LEMMA DifferStays ==
  ASSUME IInv, NeighboursDiffer, Kept, ~thrown' => ~thrown,
         \A c \in 1 .. used' : items'[c].kind = "Cmds" =>
           \/ c \in 1 .. used /\ items'[c].next = items[c].next
           \/ items'[c].next = 0
           \/ items'[items'[c].command].kind # "Named"
           \/ items'[items'[items'[c].next].command].kind # "Named"
           \/ items'[items'[c].command].mask # items'[items'[items'[c].next].command].mask
  PROVE  NeighboursDiffer'
  <1> SUFFICES ASSUME ~thrown', NEW c \in 1 .. used', items'[c].kind = "Cmds", items'[c].next # 0,
                      items'[items'[c].command].kind = "Named",
                      items'[items'[items'[c].next].command].kind = "Named",
                      items'[items'[c].command].mask = items'[items'[items'[c].next].command].mask
               PROVE  FALSE
    BY DEF NeighboursDiffer
  <1>1. c \in 1 .. used /\ items'[c].next = items[c].next
    OBVIOUS
  <1>2. items[c].kind = "Cmds"
    BY <1>1 DEF Kept, Settled
  <1>3. PICK d : d = items[c].next
    OBVIOUS
  <1>4. d # 0 /\ d \in 1 .. used /\ items[d].kind = "Cmds"
    BY <1>1, <1>2, <1>3 DEF IInv, LinksTyped, LinksOf, Onward, Stored
  <1>5. /\ items'[c].command = items[c].command
        /\ items'[items[c].command].kind = items[items[c].command].kind
        /\ items[items[c].command].kind = "Named" =>
             items'[items[c].command].mask = items[items[c].command].mask
    BY <1>1, <1>2, CommandsStay
  <1>6. /\ items'[d].command = items[d].command
        /\ items'[items[d].command].kind = items[items[d].command].kind
        /\ items[items[d].command].kind = "Named" =>
             items'[items[d].command].mask = items[items[d].command].mask
    BY <1>4, CommandsStay
  <1>7. ~(/\ items[items[c].command].kind = "Named"
          /\ items[items[d].command].kind = "Named"
          /\ items[items[c].command].mask = items[items[d].command].mask)
    BY <1>1, <1>2, <1>3, <1>4 DEF NeighboursDiffer
  <1>8. items[items[c].command].kind = "Named" /\ items[items[d].command].kind = "Named"
    BY <1>1, <1>3, <1>5, <1>6
  <1>9. items[items[c].command].mask = items[items[d].command].mask
    BY <1>1, <1>3, <1>5, <1>6, <1>8
  <1> QED BY <1>7, <1>8, <1>9

\* A new command that does not continue the one its scope has open.
LEMMA AppendDiffers ==
  ASSUME IInv, NeighboursDiffer, LastOpen, ~thrown' => ~thrown,
         NEW g \in OpenScopes, NEW command, NEW c, AppendedTo(g, command, c),
         \A i \in 1 .. used' : i > used /\ i # c => items'[i].kind # "Cmds",
         items'[command].kind = "Named" =>
           scope[g].implicit.named = 0 \/ scope[g].implicit.mask # items'[command].mask
  PROVE  NeighboursDiffer'
  <1>1. /\ Kept /\ items'[c].command = command /\ items'[c].next = 0
        /\ used \in Nat /\ \A i \in 1 .. used' : i \in 1 .. used \/ i > used
    BY AppendedKept, Ids DEF AppendedTo, CmdsItem, IInv, TypeOK, Kept
  <1>2. PICK l : l = scope[g].last
    OBVIOUS
  <1>3. l # 0 => l \in 1 .. used /\ items[l].kind = "Cmds"
    BY <1>2 DEF IInv, ScopesTyped, ScopeLinks, Stored
  <1>4. \A i \in 1 .. used : items'[i].kind = "Cmds" =>
          items'[i].next = items[i].next \/ (l # 0 /\ i = l /\ items'[i].next = c)
    <2>1. CASE l # 0
      <3>1. Grows(l, "next", c)
        BY <1>2, <2>1 DEF AppendedTo
      <3>2. items'[l].next = c /\ \A i \in 1 .. used : i # l => items'[i] = items[i]
        BY <3>1 DEF Grows, PairsItems, CmdsItems
      <3> QED BY <2>1, <3>2
    <2>2. CASE l = 0
      <3>1. Grows(g, "cmds", c)
        BY <1>2, <2>2 DEF AppendedTo
      <3>2. \A i \in 1 .. used : i # g => items'[i] = items[i]
        BY <3>1 DEF Grows
      <3>3. g \in 1 .. used => items'[g].kind = "Group" \/ items'[g] = items[g]
        BY <3>1 DEF Grows, GroupItems
      <3> QED BY <3>2, <3>3
    <2> QED BY <2>1, <2>2
  <1>5. CASE thrown
    BY <1>5 DEF NeighboursDiffer
  <1>6. CASE ~thrown
    <2>1. ASSUME l # 0, items'[items'[l].command].kind = "Named", items'[command].kind = "Named"
          PROVE  items'[items'[l].command].mask # items'[command].mask
      <3>1. /\ items'[l].command = items[l].command
            /\ items[items[l].command].kind = "Named"
            /\ items'[items[l].command].mask = items[items[l].command].mask
            /\ items[l].command \in 1 .. used
        BY <1>1, <1>3, <2>1, CommandsStay
      <3>2. scope[g].implicit.named = items[l].command
        BY <1>2, <1>6, <2>1, <3>1 DEF LastOpen
      <3>3. items[items[l].command].mask = scope[g].implicit.mask
        BY <1>1, <3>1, <3>2 DEF IInv, ScopesTyped, ScopeLinks
      <3>4. scope[g].implicit.named # 0
        BY <1>1, <3>1, <3>2
      <3> QED BY <2>1, <3>1, <3>3, <3>4
    <2>2. ASSUME NEW i \in 1 .. used', items'[i].kind = "Cmds"
          PROVE  \/ i \in 1 .. used /\ items'[i].next = items[i].next
                 \/ items'[i].next = 0
                 \/ items'[items'[i].command].kind # "Named"
                 \/ items'[items'[items'[i].next].command].kind # "Named"
                 \/ items'[items'[i].command].mask # items'[items'[items'[i].next].command].mask
      BY <1>1, <1>4, <2>1, <2>2
    <2> QED BY <1>1, <2>2, DifferStays
  <1> QED BY <1>5, <1>6

Ordered == LastOpen /\ NeighboursDiffer

\* A call that touches no list node, and opens only scopes that are empty.
LEMMA QuietOrdered ==
  ASSUME IInv, Ordered, TypeOK', ~thrown' => ~thrown, (\E k : Rebranches(k)) \/ Still,
         \A i \in 1 .. used' : i > used => items'[i].kind # "Cmds",
         \A h \in OpenScopes' : scope'[h].last = 0 \/ (h \in OpenScopes /\ scope'[h] = scope[h])
  PROVE  Ordered'
  <1>1. Kept /\ used \in Nat
    BY RebranchesKept, StillKept, Ids DEF IInv, TypeOK
  <1>2. LastOpen'
    BY <1>1, LastOpenStays DEF Ordered
  <1>3. \A i \in 1 .. used : items'[i].kind = "Cmds" => items'[i] = items[i]
    BY DEF Rebranches, Still, GroupItems, CondItems
  <1>4. \A c \in 1 .. used' : items'[c].kind = "Cmds" =>
          c \in 1 .. used /\ items'[c].next = items[c].next
    BY <1>1, <1>3
  <1>5. NeighboursDiffer'
    BY <1>1, <1>4, DifferStays DEF Ordered
  <1> QED BY <1>2, <1>5 DEF Ordered

\* Named with its first pair: the mask, or the scope's last command, is another.
LEMMA StartNamedOrdered ==
  ASSUME IInv, Ordered, TypeOK', NEW g \in OpenScopes, NEW mask \in Mask,
         NEW value \in Mask, NEW name \in Names, StartNamed(g, mask, value, name)
  PROVE  Ordered'
  <1>0. PICK n, c : n = used + 1 /\ c = used + 2
    OBVIOUS
  <1>1. /\ used' = used + 3 /\ thrown' = thrown
        /\ AppendedTo(g, n, c)
        /\ items'[n] = [NamedItem(mask) EXCEPT !.pairs = used + 3]
        /\ items'[c] = CmdsItem(n)
        /\ items'[used + 3] = PairsItem(value, name)
    <2>1. /\ used' = used + 3 /\ AppendedTo(g, n, c)
          /\ items'[n] = [NamedItem(mask) EXCEPT !.pairs = used + 3]
          /\ items'[used + 3] = PairsItem(value, name)
      BY <1>0, StartNamedEffect
    <2> QED BY <2>1 DEF AppendedTo, StartNamed
  <1>2. Kept /\ used \in Nat
    BY <1>1, AppendedKept, Ids DEF IInv, TypeOK
  <1>3. PICK s : s = [Appended(g, c) EXCEPT
                        !.implicit = [named |-> n, last_pair |-> used + 3, mask |-> mask]]
    OBVIOUS
  <1>4. s.last = c /\ s.implicit.named = n
    BY <1>3, OpenIsScope DEF Appended, IInv, Scopes
  <1>5. g \in OptId /\ \A h \in OptId : scope'[h] = IF h = g THEN s ELSE scope[h]
    BY <1>0, <1>3, OpenIsScope DEF StartNamed, IInv, TypeOK
  <1>6. LastOpen'
    <2>1. ASSUME NEW h \in OpenScopes'
          PROVE  \/ h \in OpenScopes /\ scope'[h] = scope[h]
                 \/ scope'[h].implicit.named = items'[scope'[h].last].command
      <3>1. items'[c].command = n
        BY <1>1 DEF CmdsItem
      <3> QED BY <1>4, <1>5, <2>1, <3>1 DEF OpenScopes
    <2> QED BY <1>1, <1>2, <2>1, LastOpenStays DEF Ordered
  <1>7. \A i \in 1 .. used' : i > used /\ i # c => items'[i].kind # "Cmds"
    <2>1. items'[n].kind = "Named" /\ items'[used + 3].kind = "Pairs"
      BY <1>1 DEF NamedItem, PairsItem
    <2>2. \A i \in 1 .. used' : i > used /\ i # c => i = n \/ i = used + 3
      BY <1>0, <1>1, <1>2
    <2> QED BY <2>1, <2>2
  <1>8. scope[g].implicit.named = 0 \/ scope[g].implicit.mask # items'[n].mask
    <2>1. items'[n].mask = mask
      BY <1>1 DEF NamedItem
    <2> QED BY <2>1 DEF StartNamed, Reusable
  <1>9. NeighboursDiffer'
    BY <1>1, <1>7, <1>8, AppendDiffers DEF Ordered
  <1> QED BY <1>6, <1>9 DEF Ordered

\* Numeric.
LEMMA AddNumericOrdered ==
  ASSUME IInv, Ordered, TypeOK', NEW g \in OpenScopes, NEW mask \in Mask,
         NEW name \in Names, NEW format \in Formats, AddNumeric(g, mask, name, format)
  PROVE  Ordered'
  <1>0. PICK n, c : n = used + 1 /\ c = used + 2
    OBVIOUS
  <1>1. /\ used' = used + 2 /\ thrown' = thrown
        /\ AppendedTo(g, n, c)
        /\ items'[n].kind = "Numeric"
        /\ items'[c] = CmdsItem(n)
    <2>1. /\ used' = used + 2 /\ AppendedTo(g, n, c)
          /\ items'[n] = NumericItem(mask, format, name)
      BY <1>0, AddNumericEffect
    <2> QED BY <2>1 DEF AppendedTo, AddNumeric, NumericItem
  <1>2. Kept /\ used \in Nat
    BY <1>1, AppendedKept, Ids DEF IInv, TypeOK
  <1>3. PICK s : s = Cut(Appended(g, c))
    OBVIOUS
  <1>4. s.last = c
    BY <1>3, OpenIsScope DEF Appended, Cut, IInv, Scopes
  <1>5. g \in OptId /\ \A h \in OptId : scope'[h] = IF h = g THEN s ELSE scope[h]
    BY <1>0, <1>3, OpenIsScope DEF AddNumeric, IInv, TypeOK
  <1>6. LastOpen'
    <2>1. ASSUME NEW h \in OpenScopes'
          PROVE  \/ h \in OpenScopes /\ scope'[h] = scope[h]
                 \/ items'[items'[scope'[h].last].command].kind # "Named"
      <3>1. items'[c].command = n
        BY <1>1 DEF CmdsItem
      <3> QED BY <1>1, <1>4, <1>5, <2>1, <3>1 DEF OpenScopes
    <2> QED BY <1>1, <1>2, <2>1, LastOpenStays DEF Ordered
  <1>7. \A i \in 1 .. used' : i > used /\ i # c => items'[i].kind # "Cmds"
    BY <1>0, <1>1, <1>2
  <1>8. NeighboursDiffer'
    BY <1>1, <1>7, AppendDiffers DEF Ordered
  <1> QED BY <1>6, <1>8 DEF Ordered

\* If and IfNot.
LEMMA OpenIfOrdered ==
  ASSUME IInv, Ordered, TypeOK', NEW g \in OpenScopes, NEW selector \in Mask,
         NEW mask \in Mask, NEW when \in BOOLEAN, NEW label \in GroupNames,
         OpenIf(g, selector, mask, when, label)
  PROVE  Ordered'
  <1>0. PICK k, c : k = used + 2 /\ c = used + 3
    OBVIOUS
  <1>1. /\ used' = used + 3 /\ thrown' = thrown
        /\ AppendedTo(g, k, c)
        /\ items'[k].kind = "Conditional" /\ items'[used + 1].kind = "Group"
        /\ items'[c] = CmdsItem(k)
    <2>1. /\ used' = used + 3 /\ AppendedTo(g, k, c)
          /\ items'[k] = FirstBranch(selector, mask, when, used + 1)
          /\ items'[used + 1] = GroupItem(label)
      BY <1>0, OpenIfEffect
    <2> QED BY <2>1 DEF AppendedTo, OpenIf, FirstBranch, CondItem, GroupItem
  <1>2. Kept /\ used \in Nat /\ used + 1 \in OptId
    BY <1>1, AppendedKept, Ids DEF IInv, TypeOK, OpenIf, Room, OptId
  <1>3. PICK s, t : s = Cut(Appended(g, c)) /\ t = NewScope("If", k, mask)
    OBVIOUS
  <1>4. s.last = c /\ t.last = 0
    BY <1>3, OpenIsScope DEF Appended, Cut, NewScope, IInv, Scopes
  <1>5. \A h \in OptId : scope'[h] = IF h = used + 1 THEN t ELSE IF h = g THEN s ELSE scope[h]
    <2>1. scope' = [scope EXCEPT ![g] = s, ![used + 1] = t]
      BY <1>0, <1>3 DEF OpenIf
    <2> QED BY <1>2, <2>1, OpenIsScope DEF IInv, TypeOK
  <1>6. LastOpen'
    <2>1. ASSUME NEW h \in OpenScopes'
          PROVE  \/ scope'[h].last = 0
                 \/ h \in OpenScopes /\ scope'[h] = scope[h]
                 \/ items'[items'[scope'[h].last].command].kind # "Named"
      <3>1. items'[c].command = k
        BY <1>1 DEF CmdsItem
      <3> QED BY <1>1, <1>4, <1>5, <2>1, <3>1 DEF OpenScopes
    <2> QED BY <1>1, <1>2, <2>1, LastOpenStays DEF Ordered
  <1>7. \A i \in 1 .. used' : i > used /\ i # c => items'[i].kind # "Cmds"
    <2>1. \A i \in 1 .. used' : i > used /\ i # c => i = k \/ i = used + 1
      BY <1>0, <1>1, <1>2
    <2> QED BY <1>1, <2>1
  <1>8. NeighboursDiffer'
    BY <1>1, <1>7, AppendDiffers DEF Ordered
  <1> QED BY <1>6, <1>8 DEF Ordered

\* A further pair of the command that the scope has open.
LEMMA ExtendNamedOrdered ==
  ASSUME IInv, Ordered, TypeOK', NEW g \in OpenScopes, NEW mask \in Mask,
         NEW value \in Mask, NEW name \in Names, ExtendNamed(g, mask, value, name)
  PROVE  Ordered'
  <1>0. PICK p : p = used + 1
    OBVIOUS
  <1>1. /\ used' = p /\ thrown' = thrown
        /\ \/ Grows(scope[g].implicit.last_pair, "next", p)
           \/ Grows(scope[g].implicit.named, "pairs", p)
        /\ items'[p].kind = "Pairs"
    <2>1. /\ used' = p /\ items'[p] = PairsItem(value, name)
          /\ \/ Grows(scope[g].implicit.last_pair, "next", p)
             \/ Grows(scope[g].implicit.named, "pairs", p)
      BY <1>0, ExtendNamedEffect
    <2> QED BY <2>1 DEF ExtendNamed, PairsItem
  <1>2. Kept /\ used \in Nat
    BY <1>1, GrowsKept, Ids DEF IInv, TypeOK
  <1>3. PICK s : s = [scope[g] EXCEPT !.implicit.last_pair = p]
    OBVIOUS
  <1>4. s.last = scope[g].last /\ s.implicit.named = scope[g].implicit.named
    BY <1>3, OpenIsScope DEF IInv, Scopes, ImplicitNamed
  <1>5. g \in OptId /\ \A h \in OptId : scope'[h] = IF h = g THEN s ELSE scope[h]
    BY <1>0, <1>3, OpenIsScope DEF ExtendNamed, IInv, TypeOK
  <1>6. LastOpen'
    <2>1. ASSUME NEW h \in OpenScopes'
          PROVE  /\ h \in OpenScopes /\ scope'[h].last = scope[h].last
                 /\ scope'[h].implicit.named = scope[h].implicit.named
      BY <1>4, <1>5, <2>1 DEF OpenScopes
    <2> QED BY <1>1, <1>2, <2>1, LastOpenStays DEF Ordered
  <1>7. \A i \in 1 .. used : items'[i].kind = "Cmds" => items'[i] = items[i]
    <2>1. CASE Grows(scope[g].implicit.last_pair, "next", p)
      <3>1. PICK o : o = scope[g].implicit.last_pair
        OBVIOUS
      <3>2. o # 0 => items[o].kind = "Pairs"
        BY <3>1 DEF IInv, ScopesTyped, ScopeLinks, Stored
      <3>3. o # 0 /\ items'[o].kind = "Pairs"
        <4>1. o \in 1 .. used
          BY <2>1, <3>1 DEF Grows
        <4>2. items'[o].kind = items[o].kind
          BY <1>2, <4>1 DEF Kept, Settled
        <4>3. o # 0
          BY <1>2, <4>1
        <4> QED BY <3>2, <4>2, <4>3
      <3> QED BY <2>1, <3>1, <3>3 DEF Grows
    <2>2. CASE Grows(scope[g].implicit.named, "pairs", p)
      BY <2>2 DEF Grows, NamedItems
    <2> QED BY <1>1, <2>1, <2>2
  <1>8. \A c \in 1 .. used' : items'[c].kind = "Cmds" =>
          c \in 1 .. used /\ items'[c].next = items[c].next
    BY <1>0, <1>1, <1>2, <1>7
  <1>9. NeighboursDiffer'
    BY <1>1, <1>2, <1>8, DifferStays DEF Ordered
  <1> QED BY <1>6, <1>9 DEF Ordered

\* Calls that store no list node: End of a branch with commands.
LEMMA EndBranchOrdered ==
  ASSUME IInv, Ordered, TypeOK', NEW g \in OpenScopes, EndBranch(g)
  PROVE  Ordered'
  <1>1. /\ Still /\ used' = used /\ thrown' = thrown /\ used \in Nat
        /\ scope' = [scope EXCEPT ![g] = Closed]
    BY Ids DEF EndBranch, Still, IInv, TypeOK
  <1>2. \A h \in OpenScopes' : h \in OpenScopes /\ scope'[h] = scope[h]
    BY <1>1 DEF OpenScopes, Closed, IInv, TypeOK
  <1> QED BY <1>1, <1>2, QuietOrdered

\* Else behind a branch with commands.
LEMMA OpenElseOrdered ==
  ASSUME IInv, Ordered, TypeOK', NEW g \in OpenScopes, NEW label \in GroupNames,
         OpenElse(g, label)
  PROVE  Ordered'
  <1>1. /\ used' = used + 1 /\ Rebranches(scope[g].cond) /\ items'[used + 1] = GroupItem(label)
    BY OpenElseEffect
  <1>2. PICK t : t = NewScope("Else", scope[g].cond, scope[g].mask)
    OBVIOUS
  <1>3. /\ thrown' = thrown /\ scope' = [scope EXCEPT ![g] = Closed, ![used + 1] = t]
        /\ t.last = 0
    BY <1>2 DEF OpenElse, NewScope
  <1>4. used \in Nat /\ items'[used + 1].kind # "Cmds"
    BY <1>1, Ids DEF IInv, TypeOK, GroupItem
  <1>5. \A h \in OpenScopes' : scope'[h].last = 0 \/ (h \in OpenScopes /\ scope'[h] = scope[h])
    BY <1>3 DEF OpenScopes, Closed, IInv, TypeOK
  <1>6. \A i \in 1 .. used' : i > used => items'[i].kind # "Cmds"
    BY <1>1, <1>4
  <1> QED BY <1>1, <1>3, <1>5, <1>6, QuietOrdered

\* Else behind an empty branch.
LEMMA ReuseAsElseOrdered ==
  ASSUME IInv, Ordered, TypeOK', NEW g \in OpenScopes, NEW label \in GroupNames,
         ReuseAsElse(g, label)
  PROVE  Ordered'
  <1>1. used' = used /\ Rebranches(scope[g].cond) /\ used \in Nat
    BY ReuseAsElseEffect, Ids DEF IInv, TypeOK
  <1>2. PICK t : t = NewScope("Else", scope[g].cond, scope[g].mask)
    OBVIOUS
  <1>3. thrown' = thrown /\ scope' = [scope EXCEPT ![g] = t] /\ t.last = 0
    BY <1>2 DEF ReuseAsElse, NewScope
  <1>4. \A h \in OpenScopes' : scope'[h].last = 0 \/ (h \in OpenScopes /\ scope'[h] = scope[h])
    BY <1>3 DEF OpenScopes, IInv, TypeOK
  <1> QED BY <1>1, <1>3, <1>4, QuietOrdered

\* End of an empty else branch.
LEMMA DropEmptyElseOrdered ==
  ASSUME IInv, Ordered, TypeOK', NEW g \in OpenScopes, DropEmptyElse(g)
  PROVE  Ordered'
  <1>1. used' = used /\ Rebranches(scope[g].cond) /\ used \in Nat
    BY DropEmptyElseEffect, Ids DEF IInv, TypeOK
  <1>2. thrown' = thrown /\ scope' = [scope EXCEPT ![g] = Closed]
    BY DEF DropEmptyElse
  <1>3. \A h \in OpenScopes' : h \in OpenScopes /\ scope'[h] = scope[h]
    BY <1>2 DEF OpenScopes, Closed, IInv, TypeOK
  <1> QED BY <1>1, <1>2, <1>3, QuietOrdered
-----------------------------------------------------------------------------
(* All calls, as long as none has thrown.                                  *)

Complete == CommandsFull /\ Ordered

\* Once a call has thrown, a description need not be complete.
LEMMA ThrownComplete ==
  ASSUME thrown' = TRUE
  PROVE  Complete'
  BY DEF Complete, CommandsFull, Ordered, LastOpen, NeighboursDiffer

\* Every call on an open scope keeps what has been described complete.
LEMMA CallComplete ==
  ASSUME IInv, Graph, Complete, NEW g \in OpenScopes, Call(g)
  PROVE  Complete'
  <1>0. TypeOK' /\ CommandsFull /\ Ordered
    BY CallIInv DEF IInv, Complete
  <1>1. ASSUME NEW mask \in CallMasks \union {{}}, NEW value \in Mask, NEW name \in Names,
               Named(g, mask, value, name)
        PROVE  Complete'
    <2>1. mask \in Mask
      BY ArgumentTypes
    <2>2. CASE ExtendNamed(g, mask, value, name)
      BY <1>0, <2>1, <2>2, ExtendNamedFull, ExtendNamedOrdered DEF Complete
    <2>3. CASE StartNamed(g, mask, value, name)
      BY <1>0, <2>1, <2>3, StartNamedFull, StartNamedOrdered DEF Complete
    <2>4. CASE ExtendNamedThrows(g, mask, value, name)
      BY <2>4, ThrownComplete DEF ExtendNamedThrows
    <2>5. CASE StartNamedThrows(g, mask, value)
      BY <2>5, ThrownComplete DEF StartNamedThrows
    <2>6. CASE FirstPairThrows(g, mask, value, name)
      BY <2>6, ThrownComplete DEF FirstPairThrows
    <2> QED BY <1>1, <2>2, <2>3, <2>4, <2>5, <2>6 DEF Named
  <1>2. ASSUME NEW mask \in CallMasks, NEW name \in Names, NEW format \in Formats,
               Numeric(g, mask, name, format)
        PROVE  Complete'
    <2>1. mask \in Mask
      BY ArgumentTypes
    <2>2. CASE AddNumeric(g, mask, name, format)
      BY <1>0, <2>1, <2>2, AddNumericFull, AddNumericOrdered DEF Complete
    <2>3. CASE NumericThrows(g, mask, name, format)
      BY <2>3, ThrownComplete DEF NumericThrows
    <2> QED BY <1>2, <2>2, <2>3 DEF Numeric
  <1>3. ASSUME NEW selector \in Selectors, NEW mask \in CallMasks, NEW when \in BOOLEAN,
               NEW label \in Labels, If(g, selector, mask, when, label)
        PROVE  Complete'
    <2>1. selector \in Mask /\ mask \in Mask /\ label \in GroupNames
      BY ArgumentTypes
    <2>2. CASE OpenIf(g, selector, mask, when, label)
      BY <1>0, <2>1, <2>2, OpenIfFull, OpenIfOrdered DEF Complete
    <2>3. CASE IfThrows(g, selector, mask, when, label)
      BY <2>3, ThrownComplete DEF IfThrows
    <2> QED BY <1>3, <2>2, <2>3 DEF If
  <1>4. ASSUME NEW label \in Labels, Else(g, label)
        PROVE  Complete'
    <2>1. label \in GroupNames
      BY ArgumentTypes
    <2>2. CASE OpenElse(g, label)
      BY <1>0, <2>1, <2>2, OpenElseFull, OpenElseOrdered DEF Complete
    <2>3. CASE ReuseAsElse(g, label)
      BY <1>0, <2>1, <2>3, ReuseAsElseFull, ReuseAsElseOrdered DEF Complete
    <2>4. CASE ElseThrows(g, label)
      BY <2>4, ThrownComplete DEF ElseThrows
    <2> QED BY <1>4, <2>2, <2>3, <2>4 DEF Else
  <1>5. CASE EndBranch(g)
    BY <1>0, <1>5, EndBranchFull, EndBranchOrdered DEF Complete
  <1>6. CASE DropEmptyElse(g)
    BY <1>0, <1>6, DropEmptyElseFull, DropEmptyElseOrdered DEF Complete
  <1> QED BY <1>1, <1>2, <1>3, <1>4, <1>5, <1>6 DEF Call, End

\* The invariants hold whichever open scope the calls are made on.
LEMMA CompleteInductive == Spec => []Complete
  <1>1. Init => Complete
    <2> SUFFICES ASSUME Init PROVE Complete
      OBVIOUS
    <2>1. used = 0 /\ OpenScopes \subseteq {0} /\ 0 \in OptId /\ scope[0] = NewScope("Root", 0, Bits)
      BY Ids DEF Init, OpenScopes, Closed
    <2>2. LastOpen
      <3>1. scope[0].last = 0
        BY <2>1 DEF NewScope
      <3> QED BY <2>1, <3>1 DEF LastOpen
    <2>3. 1 .. used = {}
      BY <2>1
    <2>4. CommandsFull /\ NeighboursDiffer
      BY <2>3 DEF CommandsFull, NeighboursDiffer
    <2> QED BY <2>2, <2>4 DEF Complete, Ordered
  <1>2. Complete /\ UNCHANGED vars => Complete'
    BY DEF vars, Complete, CommandsFull, CommandFull, Ordered, LastOpen, NeighboursDiffer, OpenScopes
  <1>3. IInv /\ Graph /\ Complete /\ [Next]_vars => Complete'
    BY <1>2, CallComplete DEF Next
  <1> QED BY Inductive, GraphInductive, <1>1, <1>3, PTL DEF Spec

(* When no call has thrown and all branches are ended, encode() finds in   *)
(* every command what it asserts of it.                                    *)
THEOREM CompleteIsEncodable == Spec => []EncodableWhenComplete
  <1>1. ASSUME IInv, Complete
        PROVE  EncodableWhenComplete
    <2> SUFFICES ASSUME ~thrown, OpenScopes = {0}, NEW c \in 1 .. used, items[c].kind = "Cmds"
                 PROVE  LET cmd == items[items[c].command]
                        IN  /\ cmd.kind = "Named" => cmd.pairs # 0
                            /\ cmd.kind = "Conditional" =>
                                 /\ cmd.true_group # 0 \/ cmd.false_group # 0
                                 /\ \A b \in {cmd.true_group, cmd.false_group} \ {0} :
                                      items[b].cmds # 0
      BY DEF EncodableWhenComplete
    <2>1. items[c].command \in 1 .. used
      BY <1>1 DEF IInv, LinksTyped, LinksOf, Earlier, Stored
    <2>2. CommandFull(items[c].command)
      BY <1>1, <2>1 DEF Complete, CommandsFull
    <2> QED BY <2>2 DEF CommandFull
  <1> QED BY Inductive, CompleteInductive, <1>1, PTL

(* Unless a call has thrown, consecutive Named calls of one scope with one *)
(* mask have made one command: no two neighbours in a list could be merged.*)
THEOREM NeighboursAreDistinct == Spec => []NeighboursDiffer
  <1>1. Complete => NeighboursDiffer
    BY DEF Complete, Ordered
  <1> QED BY CompleteInductive, <1>1, PTL
=============================================================================
