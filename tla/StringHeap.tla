----------------------------- MODULE StringHeap ------------------------------
(***************************************************************************)
(* Strings<N>: a heap of texts in one string<N + 1>.  A text is appended   *)
(* together with a NUL, and its id is its position counted from 1.  Texts  *)
(* are never removed, so an id has to read the same for ever after.        *)
(***************************************************************************)
EXTENDS Integers, Sequences, Characters

CONSTANTS
  HeapChars,  \* N, the characters that the heap has room for
  Texts       \* the texts that are added

\* string_id_t is a std::uint16_t, and the heap asserts that N is below its maximum.
IdModulus == 2^16

ASSUME HeapAssumption ==
  /\ HeapChars \in Nat /\ HeapChars < IdModulus - 1
  /\ Texts \subseteq Seq(Chars)

VARIABLES
  memory,  \* the string<N + 1>
  issued,  \* the ids given out, each with the text it was given for
  latest   \* the id of the text registered just before, 0 if there is none

heapvars == <<memory, issued, latest>>

S == INSTANCE FixedString WITH N <- HeapChars + 1

NulFree(t) == \A k \in 1 .. Len(t) : t[k] # Nul

\* end_id(), and what the two get_string() give if their assertions hold.
EndId == (IF memory.size = 0 THEN 0 ELSE memory.size - 1) % IdModulus

CanGet(begin)           == begin # 0 /\ begin < memory.size
GetString(begin)        == [k \in 1 .. S!CStringLength(memory, begin - 1) |-> memory.data[begin + k - 2]]
CanGetRange(begin, end) == begin # 0 /\ begin < end /\ end <= memory.size
GetRange(begin, end)    == [k \in 1 .. end - begin |-> memory.data[begin + k - 2]]

-----------------------------------------------------------------------------
HeapInit == memory = S!EmptyString /\ issued = {} /\ latest = 0

WithText(t) == S!AppendRange(memory, S!Elsewhere(t, 1), Len(t))

\* add_string(): the text, then the NUL.  Either of the two may throw.
\* Mutant of AddString: ids are counted from 0.
AddStringFromZero(t) ==
  LET begin == memory.size % IdModulus
  IN  /\ S!CheckAppendFits(memory, Len(t))
      /\ WithText(t).size # S!Capacity
      /\ memory' = S!PushedBack(WithText(t), Nul)
      /\ issued' = issued \cup {[id |-> begin, text |-> t]}
      /\ latest' = begin

\* Mutant of AddString: no NUL between the texts.
AddStringUnseparated(t) ==
  LET begin == (memory.size + 1) % IdModulus
  IN  /\ S!CheckAppendFits(memory, Len(t))
      /\ memory' = WithText(t)
      /\ issued' = issued \cup {[id |-> begin, text |-> t]}
      /\ latest' = begin

\* Mutant of AddString: a text is appended up to its first NUL only.
AddStringUpToNul(t) ==
  LET begin == (memory.size + 1) % IdModulus
      u == IF NulFree(t) THEN t
           ELSE SubSeq(t, 1, CHOOSE n \in 0 .. Len(t) - 1 :
                               t[n + 1] = Nul /\ NulFree(SubSeq(t, 1, n)))
  IN  /\ S!CheckAppendFits(memory, Len(u))
      /\ WithText(u).size # S!Capacity
      /\ memory' = S!PushedBack(WithText(u), Nul)
      /\ issued' = issued \cup {[id |-> begin, text |-> t]}
      /\ latest' = begin

AddString(t) ==
  LET begin == (memory.size + 1) % IdModulus
  IN  /\ S!CheckAppendFits(memory, Len(t))
      /\ WithText(t).size # S!Capacity
      /\ memory' = S!PushedBack(WithText(t), Nul)
      /\ issued' = issued \cup {[id |-> begin, text |-> t]}
      /\ latest' = begin

NulThrows(t) ==
  /\ S!CheckAppendFits(memory, Len(t))
  /\ WithText(t).size = S!Capacity
  /\ memory' = WithText(t)
  /\ latest' = 0
  /\ UNCHANGED issued

TextThrows(t) ==
  /\ ~S!CheckAppendFits(memory, Len(t))
  /\ latest' = 0
  /\ UNCHANGED <<memory, issued>>

\* A text that is read out of the heap may be added to it again.
Addable == Texts \cup {GetString(r.id) : r \in {q \in issued : CanGet(q.id)}}

HeapNext == \E t \in Addable : AddString(t) \/ NulThrows(t) \/ TextThrows(t)

HeapSpec == HeapInit /\ [][HeapNext]_heapvars

-----------------------------------------------------------------------------
(* An id keeps reading the text it was given for, whatever is added after  *)
(* it and whichever additions are given up half way.  The one exception is *)
(* an empty text that nothing follows: its id is then the size of the      *)
(* heap, which get_string() asserts it is below.                           *)
IdsKeepTheirText ==
  \A r \in issued : NulFree(r.text) =>
    \/ CanGet(r.id) /\ GetString(r.id) = r.text
    \/ r.text = <<>> /\ r.id = memory.size

(* No two texts that hold a character share an id or overlap.              *)
TextsApart ==
  \A r, q \in issued :
    r # q => r.id + Len(r.text) < q.id \/ q.id + Len(q.text) < r.id

(* A text with NULs of its own is still there whole, after later and half- *)
(* done additions too: the range that starts at its id and is as long as   *)
(* the text reads it, past its own NULs and up to the one behind it.       *)
RangesKeepTheirText ==
  \A r \in issued : r.text # <<>> =>
    LET end == r.id + Len(r.text)
    IN  CanGetRange(r.id, end) /\ GetRange(r.id, end) = r.text

(* "Storing a string with an embedded NUL is possible, but to retrieve it, *)
(* the 2 parameter get_string() function must be used.  The second         *)
(* parameter can be requested calling the end_id() value after             *)
(* add_string() call." (constexpr/heap.hpp:34-37)                          *)
EndIdEndsTheText ==
  \A r \in issued : r.id = latest /\ ~NulFree(r.text) =>
    CanGetRange(r.id, EndId) /\ GetRange(r.id, EndId) = r.text
=============================================================================
