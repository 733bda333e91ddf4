---------------------------- MODULE StringObjects ----------------------------
(***************************************************************************)
(* Objects of string<N> that are built, changed and copied into each other *)
(* and into themselves.  The other object of a call stands for any         *)
(* outside source: a literal, a std::string_view, a string of another N.   *)
(* Every call is made together with the call of BoundedText it stands for. *)
(***************************************************************************)
EXTENDS FixedString

CONSTANT Objects

VARIABLES
  str,     \* the strings
  raised,  \* what the last call threw, or "nothing"
  text,    \* the texts that BoundedText says they hold
  thrown   \* and what it says the last call threw

T == INSTANCE BoundedText

stringvars == <<str, raised>>
objectvars == <<str, raised, text, thrown>>

-----------------------------------------------------------------------------
Sizes == 0 .. N

\* A call that passes its check leaves s in o; one that does not throws.
Store(o, s, check, error) ==
  \/ check /\ str' = [str EXCEPT ![o] = s] /\ raised' = "nothing"
  \/ ~check /\ raised' = error /\ UNCHANGED str

\* A pointer to character pos of object p, read while o is being written.
Pointer(o, p, pos) == IF p = o THEN Own(pos) ELSE Elsewhere(str[p].data, pos)

Fill(count, ch) == Elsewhere([i \in 0 .. count - 1 |-> ch], 0)

AppendView(o, p, pos, count) ==
  Store(o, AppendRange(str[o], Pointer(o, p, pos), count),
        CheckAppendFits(str[o], count), "length_error")

AssignView(o, p, pos, count) ==
  Store(o, AssignRange(str[o], Pointer(o, p, pos), count),
        CheckSizeFits(count), "length_error")

AppendRepeated(o, count, ch) ==
  Store(o, AppendRange(str[o], Fill(count, ch), count),
        CheckAppendFits(str[o], count), "length_error")

AssignRepeated(o, count, ch) ==
  Store(o, AssignRange(str[o], Fill(count, ch), count), CheckSizeFits(count), "length_error")

Resize(o, size, fill) == Store(o, Resized(str[o], size, fill), CheckSizeFits(size), "length_error")

\* string(chars_in_use) asserts that the count fits, and zero-fills.
Construct(o, size) ==
  size <= Capacity /\ Store(o, [EmptyString EXCEPT !.size = size], TRUE, "nothing")

PushBack(o, ch) == Store(o, PushedBack(str[o], ch), str[o].size # Capacity, "length_error")
PopBack(o)      == str[o].size # 0 /\ Store(o, PoppedBack(str[o]), TRUE, "nothing")
Clear(o)        == Store(o, Cleared(str[o]), TRUE, "nothing")
Put(o, pos, ch) == Store(o, [str[o] EXCEPT !.data[pos] = ch], pos < str[o].size, "out_of_range")

\* The copying constructor starts from a new object, the assignment from the old one.
Taken(s, p) == AssignRange(s, Elsewhere(str[p].data, 0), str[p].size)

CopyConstruct(o, p) == o # p /\ Store(o, Taken(EmptyString, p), TRUE, "nothing")

MovedFrom(o, s, p) ==
  str' = [str EXCEPT ![o] = s, ![p] = Cleared(str[p])] /\ raised' = "nothing"

MoveConstruct(o, p) == o # p /\ MovedFrom(o, Taken(EmptyString, p), p)

MoveAssign(o, p) ==
  \/ o # p /\ MovedFrom(o, Taken(str[o], p), p)
  \/ o = p /\ raised' = "nothing" /\ UNCHANGED str

\* o = p.substr(pos, count): the temporary result is moved into o.
Substr(o, p, pos, count) ==
  LET found == AssignRange(EmptyString, Elsewhere(str[p].data, pos),
                           ClampCount(str[p], pos, count))
  IN  IF pos > str[p].size THEN raised' = "out_of_range" /\ UNCHANGED str
      ELSE Store(o, AssignRange(str[o], Elsewhere(found.data, 0), found.size),
                 TRUE, "nothing")

\* p.copy(o.data() + at, count, pos) writes characters and no terminator.
CopyOut(o, at, p, pos, count) ==
  LET n == ClampCount(str[p], pos, count)
  IN  IF pos > str[p].size THEN raised' = "out_of_range" /\ UNCHANGED str
      ELSE /\ at + n <= str[o].size
           /\ Store(o, [str[o] EXCEPT !.data = CopyLoop(@, at, Elsewhere(str[p].data, pos), n)],
                    TRUE, "nothing")

Swap(o, p) ==
  /\ str' = [str EXCEPT ![o] = Swapped(str[o], str[p]), ![p] = Swapped(str[p], str[o])]
  /\ raised' = "nothing"

-----------------------------------------------------------------------------
ObjectInit == str = [o \in Objects |-> EmptyString] /\ raised = "nothing" /\ T!TextInit

SizeCalls(o) ==
  \/ Clear(o) /\ T!DoClear(o)
  \/ PopBack(o) /\ T!DoPopBack(o)
  \/ \E size \in Sizes : Construct(o, size) /\ T!DoConstruct(o, size)
  \/ \E size \in Sizes, ch \in Chars : Resize(o, size, ch) /\ T!DoResize(o, size, ch)

CharCalls(o) ==
  \/ \E ch \in Chars : PushBack(o, ch) /\ T!DoPushBack(o, ch)
  \/ \E pos \in Sizes, ch \in Chars : Put(o, pos, ch) /\ T!DoPut(o, pos, ch)
  \/ \E n \in Sizes, ch \in Chars :
       \/ AppendRepeated(o, n, ch) /\ T!DoAppendRepeated(o, n, ch)
       \/ AssignRepeated(o, n, ch) /\ T!DoAssignRepeated(o, n, ch)

\* A view lies within the characters of p, a C string starts at one of them or at the NUL.
ViewCalls(o, p) ==
  \E pos \in 0 .. str[p].size :
    \/ \E n \in 0 .. str[p].size - pos :
         \/ AppendView(o, p, pos, n) /\ T!DoAppend(o, p, pos, n)
         \/ AssignView(o, p, pos, n) /\ T!DoAssign(o, p, pos, n)
    \/ AppendView(o, p, pos, CStringLength(str[p], pos)) /\ T!DoAppendCString(o, p, pos)
    \/ AssignView(o, p, pos, CStringLength(str[p], pos)) /\ T!DoAssignCString(o, p, pos)

ObjectCalls(o, p) ==
  \/ CopyConstruct(o, p) /\ T!DoCopy(o, p)
  \/ MoveConstruct(o, p) /\ T!DoMove(o, p)
  \/ MoveAssign(o, p) /\ T!DoMove(o, p)
  \/ Swap(o, p) /\ T!DoSwap(o, p)
  \/ \E pos, n \in Sizes : Substr(o, p, pos, n) /\ T!DoSubstr(o, p, pos, n)
  \/ o # p /\ \E at, pos, n \in Sizes : CopyOut(o, at, p, pos, n) /\ T!DoCopyOut(o, at, p, pos, n)

ObjectNext ==
  \E o \in Objects :
    \/ SizeCalls(o) \/ CharCalls(o)
    \/ \E p \in Objects : ViewCalls(o, p) \/ ObjectCalls(o, p)

ObjectSpec == ObjectInit /\ [][ObjectNext]_objectvars

-----------------------------------------------------------------------------
(* Every string is stored within its bounds and its NUL is in place.       *)
StringsTerminated ==
  /\ str \in [Objects -> String]
  /\ \A o \in Objects : str[o].data[str[o].size] = Nul

(* Whatever was left over in the storage, and whichever string a call was  *)
(* given a view of, its own included, the strings read as BoundedText says *)
(* and a call throws exactly where it does, with nothing changed.          *)
ReadsAsText ==
  /\ \A o \in Objects : View(str[o]) = text[o]
  /\ raised = thrown
=============================================================================
