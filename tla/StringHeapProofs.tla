------------------------- MODULE StringHeapProofs --------------------------
(***************************************************************************)
(* The ids of the string heap keep reading their texts, for every number   *)
(* of characters that the heap may have and every set of texts.            *)
(***************************************************************************)
EXTENDS StringHeap, TLAPS

SP == INSTANCE FixedStringProofs WITH N <- HeapChars + 1

-----------------------------------------------------------------------------
(* The string that the heap keeps its texts in.                            *)

\* The heap has room for HeapChars characters and a NUL.
LEMMA HeapStorage ==
  /\ SP!StorageAssumption /\ SP!NulAssumption
  /\ S!Capacity = HeapChars /\ SP!Capacity = HeapChars /\ HeapChars \in Nat
  /\ HeapChars < 65535 /\ IdModulus = 65536
  BY HeapAssumption, NulAssumption
     DEF SP!StorageAssumption, SP!NulAssumption, S!Capacity, SP!Capacity, IdModulus

\* The numbers in it.
LEMMA HeapNumbers == HeapChars \in Nat /\ HeapChars < 65535
  BY HeapStorage

\* The conversion to an id keeps what is within the type.
LEMMA IdFits == \A i \in Nat : i < 65536 => i % IdModulus = i
  <1>1. \A i \in Nat : i < 65536 => i % 65536 = i
    OBVIOUS
  <1>2. IdModulus = 65536
    BY HeapStorage
  <1> QED BY <1>1, <1>2

\* The two instances name the same strings and operations.
LEMMA SameOperations ==
  /\ S!EmptyString = SP!EmptyString
  /\ \A s, chars, at, count :
       S!AppendRange(s, S!Elsewhere(chars, at), count)
         = SP!AppendRange(s, SP!Elsewhere(chars, at), count)
  /\ \A s, ch : S!PushedBack(s, ch) = SP!PushedBack(s, ch)
  /\ \A s, pos : S!CStringLength(s, pos) = SP!CStringLength(s, pos)
  /\ \A s, count : S!CheckAppendFits(s, count) <=> count <= HeapChars - s.size
  <1>1. S!EmptyString = SP!EmptyString
    BY DEF S!EmptyString, SP!EmptyString, S!Indexes, SP!Indexes
  <1>2. ASSUME NEW s, NEW chars, NEW at, NEW count
        PROVE  S!AppendRange(s, S!Elsewhere(chars, at), count)
                 = SP!AppendRange(s, SP!Elsewhere(chars, at), count)
    BY DEF S!AppendRange, SP!AppendRange, S!Elsewhere, SP!Elsewhere, S!CopyLoop, SP!CopyLoop,
           S!Pointee, SP!Pointee, S!SetTerminator, SP!SetTerminator
  <1>3. ASSUME NEW s, NEW ch PROVE S!PushedBack(s, ch) = SP!PushedBack(s, ch)
    BY DEF S!PushedBack, SP!PushedBack, S!SetTerminator, SP!SetTerminator
  <1>4. ASSUME NEW s, NEW pos PROVE S!CStringLength(s, pos) = SP!CStringLength(s, pos)
    BY DEF S!CStringLength, SP!CStringLength
  <1>5. ASSUME NEW s, NEW count
        PROVE  S!CheckAppendFits(s, count) <=> count <= HeapChars - s.size
    BY HeapStorage DEF S!CheckAppendFits
  <1> QED BY <1>1, <1>2, <1>3, <1>4, <1>5

-----------------------------------------------------------------------------
(* The inductive invariant.                                                *)

Issue == [id : Nat \ {0}, text : Seq(Chars)]

\* The text of r stands at its id, with a NUL behind it, within m.
Holds(m, r) ==
  /\ r.id + Len(r.text) <= m.size
  /\ \A k \in 1 .. Len(r.text) : m.data[r.id + k - 2] = r.text[k]
  /\ m.data[r.id + Len(r.text) - 1] = Nul

\* r ends before q begins.
Before(r, q) == r.id + Len(r.text) < q.id

HeapInv ==
  /\ SP!Terminated(memory)
  /\ issued \subseteq Issue
  /\ \A r \in issued : Holds(memory, r)
  /\ \A r, q \in issued : r # q => Before(r, q) \/ Before(q, r)

\* The heap starts as an empty string and no id.
LEMMA HeapStarts == HeapInit => HeapInv
  <1> SUFFICES ASSUME HeapInit PROVE HeapInv
    OBVIOUS
  <1>1. SP!Terminated(memory)
    <2>1. memory = SP!EmptyString
      BY SameOperations DEF HeapInit
    <2> QED BY <2>1, HeapStorage, NulAssumption
            DEF SP!Terminated, SP!EmptyString, SP!String, SP!Indexes
  <1> QED BY <1>1 DEF HeapInit, HeapInv

\* What get_string() gives for a position within the heap is a text.
LEMMA StringsRead ==
  ASSUME NEW m, SP!Terminated(m), NEW id \in Nat \ {0}, id <= m.size
  PROVE  /\ S!CStringLength(m, id - 1) \in 0 .. m.size - id + 1
         /\ \A n \in 0 .. m.size - id + 1 :
              /\ m.data[id - 1 + n] = Nul
              /\ \A j \in id - 1 .. id - 1 + n - 1 : m.data[j] # Nul
              => n = S!CStringLength(m, id - 1)
         /\ \A k \in 1 .. S!CStringLength(m, id - 1) : m.data[id + k - 2] \in Chars
  <1>1. /\ m.data \in [SP!Indexes -> Chars] /\ m.size \in Nat /\ HeapChars \in Nat
        /\ m.size <= HeapChars /\ SP!Indexes = 0 .. HeapChars
    <2>1. \A s \in SP!String : s.data \in [SP!Indexes -> Chars] /\ s.size \in 0 .. HeapChars
      BY HeapStorage DEF SP!String
    <2> QED BY <2>1, HeapStorage DEF SP!Terminated, SP!Indexes
  <1>2. PICK pos : pos = id - 1
    OBVIOUS
  <1>3. pos \in 0 .. m.size /\ id - 1 = pos
    BY <1>1, <1>2
  <1>4. \A s : SP!Terminated(s) => \A p \in 0 .. s.size :
          /\ SP!CStringLength(s, p) \in 0 .. s.size - p
          /\ \A n \in 0 .. s.size - p :
               s.data[p + n] = Nul /\ (\A j \in p .. p + n - 1 : s.data[j] # Nul)
                 => n = SP!CStringLength(s, p)
    BY HeapStorage, SP!FirstNul
  <1>5. PICK c : c = S!CStringLength(m, pos)
    OBVIOUS
  <1>6. c = SP!CStringLength(m, pos)
    BY <1>5, SameOperations
  <1>7. /\ c \in 0 .. m.size - pos
        /\ \A n \in 0 .. m.size - pos :
             m.data[pos + n] = Nul /\ (\A j \in pos .. pos + n - 1 : m.data[j] # Nul) => n = c
    BY <1>3, <1>4, <1>6
  <1>8. \A k \in 1 .. c : id + k - 2 \in SP!Indexes
    BY <1>1, <1>3, <1>7
  <1>9. m.size - pos = m.size - id + 1
    BY <1>1, <1>3
  <1> QED BY <1>1, <1>3, <1>5, <1>7, <1>8, <1>9

\* What may be added is a text.
LEMMA AddableTexts ==
  ASSUME HeapInv, NEW t \in Addable PROVE t \in Seq(Chars)
  <1>1. CASE t \in Texts
    BY <1>1, HeapAssumption
  <1>2. ASSUME NEW r \in issued, CanGet(r.id), t = GetString(r.id)
        PROVE  t \in Seq(Chars)
    <2>1. r.id \in Nat \ {0} /\ r.id <= memory.size /\ SP!Terminated(memory)
      <3>1. memory.size \in Nat /\ r.id \in Nat \ {0}
        BY HeapStorage DEF HeapInv, SP!Terminated, SP!String, Issue
      <3> QED BY <1>2, <3>1 DEF HeapInv, CanGet
    <2>2. PICK c : c = S!CStringLength(memory, r.id - 1)
      OBVIOUS
    <2>3. c \in Nat /\ \A k \in 1 .. c : memory.data[r.id + k - 2] \in Chars
      <3>1. memory.size \in Nat
        BY HeapStorage DEF HeapInv, SP!Terminated, SP!String
      <3> QED BY <2>1, <2>2, <3>1, StringsRead
    <2>4. t = [k \in 1 .. c |-> memory.data[r.id + k - 2]]
      BY <1>2, <2>2 DEF GetString
    <2> QED BY <2>3, <2>4
  <1> QED BY <1>1, <1>2 DEF Addable

-----------------------------------------------------------------------------
(* The steps keep it.                                                      *)

\* m has what was in the heap, and possibly more behind it.
Extends(m) ==
  /\ SP!Terminated(m) /\ m.size \in Nat /\ memory.size \in Nat /\ memory.size <= m.size
  /\ \A i \in 0 .. memory.size - 1 : m.data[i] = memory.data[i]

\* Ids keep their texts in a heap that only grew.
LEMMA HeldOn ==
  ASSUME NEW m, Extends(m), NEW r \in Issue, Holds(memory, r)
  PROVE  Holds(m, r)
  <1>1. /\ r.id \in Nat \ {0} /\ Len(r.text) \in Nat
        /\ r.id + Len(r.text) <= memory.size /\ memory.size \in Nat /\ m.size \in Nat
        /\ memory.size <= m.size
    BY DEF Issue, Holds, Extends
  <1> DEFINE Room(id, len, size) ==
               /\ \A k \in 1 .. len : id + k - 2 \in 0 .. size - 1
               /\ id + len - 1 \in 0 .. size - 1
  <1>2. \A id \in Nat \ {0}, len, size \in Nat : id + len <= size => Room(id, len, size)
    OBVIOUS
  <1> HIDE DEF Room
  <1>3. Room(r.id, Len(r.text), memory.size)
    BY <1>1, <1>2
  <1>4. ASSUME NEW k \in 1 .. Len(r.text) PROVE m.data[r.id + k - 2] = r.text[k]
    <2>1. m.data[r.id + k - 2] = memory.data[r.id + k - 2]
      BY <1>3 DEF Extends, Room
    <2> QED BY <2>1 DEF Holds
  <1>5. m.data[r.id + Len(r.text) - 1] = Nul
    <2>1. m.data[r.id + Len(r.text) - 1] = memory.data[r.id + Len(r.text) - 1]
      BY <1>3 DEF Extends, Room
    <2> QED BY <2>1 DEF Holds
  <1>6. r.id + Len(r.text) <= m.size
    BY <1>1
  <1> QED BY <1>4, <1>5, <1>6 DEF Holds

\* The heap with a text behind the others.
LEMMA TextGoesBehind ==
  ASSUME HeapInv, NEW t \in Seq(Chars), S!CheckAppendFits(memory, Len(t))
  PROVE  /\ Extends(WithText(t)) /\ WithText(t).size = memory.size + Len(t)
         /\ \A k \in 1 .. Len(t) : WithText(t).data[memory.size + k - 1] = t[k]
         /\ memory.size + Len(t) <= HeapChars
  <1> DEFINE m == WithText(t)
             src == SP!Elsewhere(t, 1)
             n == Len(t)
  <1>1. /\ memory \in SP!String /\ memory.size \in Nat /\ memory.size <= HeapChars
        /\ n \in Nat /\ n <= HeapChars - memory.size /\ HeapChars \in Nat
    <2>1. \A s \in SP!String : s.size \in 0 .. HeapChars
      BY HeapStorage DEF SP!String
    <2> QED BY <2>1, SameOperations, HeapStorage DEF HeapInv, SP!Terminated
  <1>2. src.own = FALSE /\ src.at = 1 /\ src.chars = t
    BY DEF SP!Elsewhere
  <1>3. m = SP!AppendRange(memory, src, n)
    BY SameOperations DEF WithText
  <1> HIDE DEF src, m
  <1>4. \A d, j : SP!Pointee(src, d, j) = t[1 + j]
    BY <1>2 DEF SP!Pointee
  <1>5. \A d, to : SP!Readable(src, d, to, n)
    <2>1. \A j \in 0 .. n - 1 : 1 + j \in 1 .. Len(t)
      BY <1>1
    <2>2. \A j \in 0 .. n - 1 : t[1 + j] \in Chars
      BY <2>1
    <2> QED BY <1>2, <1>4, <2>2 DEF SP!Readable
  <1>6. \A s \in SP!String, c \in Nat :
          c <= SP!Capacity - s.size /\ SP!Readable(src, s.data, s.size, c) =>
            LET a == SP!AppendRange(s, src, c)
            IN  /\ SP!Terminated(a) /\ a.size = s.size + c
                /\ \A i \in 0 .. s.size - 1 : a.data[i] = s.data[i]
                /\ \A k \in 1 .. c : a.data[s.size + k - 1] = SP!Given(src, s.data, c)[k]
    BY HeapStorage, SP!Appends
  <1>7. /\ SP!Terminated(m) /\ m.size = memory.size + n
        /\ \A i \in 0 .. memory.size - 1 : m.data[i] = memory.data[i]
        /\ \A k \in 1 .. n : m.data[memory.size + k - 1] = SP!Given(src, memory.data, n)[k]
    <2>1. n \in Nat /\ n <= SP!Capacity - memory.size
          /\ SP!Readable(src, memory.data, memory.size, n)
      BY <1>1, <1>5, HeapStorage
    <2> QED BY <1>1, <1>3, <1>6, <2>1
  <1>8. \A k \in 1 .. n : SP!Given(src, memory.data, n)[k] = t[k]
    <2>1. \A k \in 1 .. n : SP!Given(src, memory.data, n)[k] = t[1 + (k - 1)]
      BY <1>4 DEF SP!Given
    <2>2. \A k \in 1 .. n : 1 + (k - 1) = k
      OBVIOUS
    <2> QED BY <2>1, <2>2
  <1>9. m.size \in Nat /\ memory.size <= m.size /\ memory.size + n <= HeapChars
    BY <1>1, <1>7
  <1> QED BY <1>1, <1>7, <1>8, <1>9 DEF Extends, m

\* What add_string() leaves behind.
LEMMA AddedBehind ==
  ASSUME HeapInv, NEW t \in Seq(Chars), AddString(t)
  PROVE  /\ Extends(memory')
         /\ memory'.size = memory.size + Len(t) + 1
         /\ issued' = issued \cup {[id |-> memory.size + 1, text |-> t]}
         /\ Holds(memory', [id |-> memory.size + 1, text |-> t])
  <1> DEFINE w == WithText(t)
  <1>1. PICK n : n = Len(t)
    OBVIOUS
  <1>2. PICK s : s = memory.size
    OBVIOUS
  <1>3. /\ Extends(w) /\ w.size = s + n /\ s + n <= HeapChars /\ s \in Nat /\ n \in Nat
        /\ \A k \in 1 .. n : w.data[s + k - 1] = t[k]
    <2>1. /\ Extends(w) /\ w.size = memory.size + Len(t) /\ memory.size + Len(t) <= HeapChars
          /\ \A k \in 1 .. Len(t) : w.data[memory.size + k - 1] = t[k]
      BY TextGoesBehind DEF AddString
    <2> QED BY <1>1, <1>2, <2>1 DEF Extends
  <1>4. w.size # HeapChars /\ memory' = SP!PushedBack(w, Nul)
    BY SameOperations, HeapStorage DEF AddString
  <1> HIDE DEF w
  <1>5. PICK m : m = memory'
    OBVIOUS
  <1>6. \A x \in SP!String, ch \in Chars :
          x.size # SP!Capacity =>
            LET a == SP!PushedBack(x, ch)
            IN  /\ SP!Terminated(a) /\ a.size = x.size + 1 /\ a.data[x.size] = ch
                /\ \A i \in 0 .. x.size - 1 : a.data[i] = x.data[i]
    BY HeapStorage, SP!PushesBack
  <1>7. /\ SP!Terminated(m) /\ m.size = s + n + 1 /\ m.data[s + n] = Nul
        /\ \A i \in 0 .. s + n - 1 : m.data[i] = w.data[i]
    <2>1. w \in SP!String /\ Nul \in Chars
      BY <1>3, NulAssumption DEF Extends, SP!Terminated
    <2>2. w.size # SP!Capacity /\ w.size = s + n
      BY <1>3, <1>4, HeapStorage
    <2>3. PICK a : a = SP!PushedBack(w, Nul)
      OBVIOUS
    <2>4. /\ SP!Terminated(a) /\ a.size = w.size + 1 /\ a.data[w.size] = Nul
          /\ \A i \in 0 .. w.size - 1 : a.data[i] = w.data[i]
      BY <1>6, <2>1, <2>2, <2>3
    <2>5. a = m
      BY <1>4, <1>5, <2>3
    <2>6. m.size = s + n + 1 /\ m.data[s + n] = Nul
      BY <2>2, <2>4, <2>5
    <2>7. \A i \in 0 .. s + n - 1 : m.data[i] = w.data[i]
      <3>1. \A i \in 0 .. w.size - 1 : m.data[i] = w.data[i]
        BY <2>4, <2>5
      <3>2. w.size - 1 = s + n - 1
        <4>1. s \in Nat /\ n \in Nat /\ w.size = s + n
          BY <1>3
        <4> QED BY ONLY <4>1
      <3> QED BY <3>1, <3>2
    <2> QED BY <2>4, <2>5, <2>6, <2>7
  <1>8. Extends(m)
    <2>1. /\ \A i \in 0 .. s - 1 : w.data[i] = memory.data[i] /\ i \in 0 .. s + n - 1
          /\ s <= m.size /\ m.size \in Nat
      BY <1>2, <1>3, <1>7 DEF Extends
    <2> QED BY <1>2, <1>3, <1>7, <2>1 DEF Extends
  <1>9. (s + 1) % IdModulus = s + 1
    <2>1. s \in Nat /\ n \in Nat /\ s + n <= HeapChars /\ s + n # HeapChars
      BY <1>3, <1>4
    <2>2. s + 1 \in Nat /\ s + 1 < 65536
      BY <2>1, HeapNumbers
    <2> QED BY <2>2, IdFits
  <1>10. issued' = issued \cup {[id |-> s + 1, text |-> t]}
    BY <1>2, <1>9 DEF AddString
  <1>11. Holds(m, [id |-> s + 1, text |-> t])
    <2> DEFINE r == [id |-> s + 1, text |-> t]
    <2>1. r.id = s + 1 /\ r.text = t
      OBVIOUS
    <2> HIDE DEF r
    <2>2. r.id + Len(r.text) <= m.size /\ r.id + Len(r.text) - 1 = s + n
      BY <1>1, <1>3, <1>7, <2>1
    <2>3. ASSUME NEW k \in 1 .. n PROVE m.data[r.id + k - 2] = t[k]
      <3>0. s \in Nat /\ n \in Nat /\ r.id = s + 1
        BY <1>3, <2>1
      <3>1. r.id + k - 2 = s + k - 1 /\ s + k - 1 \in 0 .. s + n - 1
        BY <3>0
      <3>2. m.data[s + k - 1] = w.data[s + k - 1] /\ w.data[s + k - 1] = t[k]
        BY <1>3, <1>7, <3>1
      <3> QED BY <3>1, <3>2
    <2> QED BY <1>1, <1>7, <2>1, <2>2, <2>3 DEF Holds, r
  <1> QED BY <1>1, <1>2, <1>5, <1>7, <1>8, <1>10, <1>11

\* Every call keeps the invariant, the ones that are given up half way included.
LEMMA HeapInvKept ==
  ASSUME HeapInv, [HeapNext]_heapvars PROVE HeapInv'
  <1>1. ASSUME NEW t \in Addable, AddString(t) PROVE HeapInv'
    <2> DEFINE new == [id |-> memory.size + 1, text |-> t]
    <2>1. t \in Seq(Chars)
      BY AddableTexts
    <2>2. /\ Extends(memory')
          /\ memory'.size = memory.size + Len(t) + 1
          /\ issued' = issued \cup {new} /\ Holds(memory', new)
      BY <1>1, <2>1, AddedBehind
    <2>3. memory.size \in Nat /\ Len(t) \in Nat
      BY <2>1, <2>2 DEF Extends
    <2>4. new \in Issue /\ new.id = memory.size + 1 /\ new.text = t
      BY <2>1, <2>3 DEF Issue
    <2> HIDE DEF new
    <2>5. \A r \in issued :
            /\ r \in Issue /\ r.id \in Nat /\ Len(r.text) \in Nat /\ Holds(memory, r)
            /\ r.id + Len(r.text) <= memory.size
      BY DEF HeapInv, Issue, Holds
    <2>6. \A r \in issued : Before(r, new)
      BY <2>2, <2>3, <2>4, <2>5 DEF Before
    <2>7. \A r \in issued' : r \in Issue /\ Holds(memory', r)
      BY <2>2, <2>4, <2>5, HeldOn
    <2>8. \A r, q \in issued' : r # q => Before(r, q) \/ Before(q, r)
      BY <2>2, <2>6 DEF HeapInv
    <2> QED BY <2>2, <2>7, <2>8 DEF HeapInv, Extends
  <1>2. ASSUME UNCHANGED issued, Extends(memory') PROVE HeapInv'
    <2>1. \A r \in issued : r \in Issue /\ r.id # 0 /\ Holds(memory, r)
      BY DEF HeapInv, Issue
    <2>2. \A r \in issued' : r \in Issue /\ Holds(memory', r)
      BY <1>2, <2>1, HeldOn
    <2>3. \A r, q \in issued' : r # q => Before(r, q) \/ Before(q, r)
      BY <1>2 DEF HeapInv
    <2> QED BY <1>2, <2>2, <2>3 DEF HeapInv, Extends
  <1>3. ASSUME NEW t \in Addable, NulThrows(t) PROVE HeapInv'
    <2>1. Extends(WithText(t)) /\ memory' = WithText(t)
      BY <1>3, AddableTexts, TextGoesBehind DEF NulThrows
    <2>2. Extends(memory')
      BY <2>1
    <2> QED BY <1>2, <1>3, <2>2 DEF NulThrows
  <1>4. ASSUME NEW t \in Addable, TextThrows(t) PROVE HeapInv'
    <2>1. \A s \in SP!String : s.size \in Nat
      BY HeapStorage DEF SP!String
    <2>2. Extends(memory)
      BY <2>1 DEF HeapInv, Extends, SP!Terminated
    <2> QED BY <1>2, <1>4, <2>2 DEF TextThrows
  <1>5. CASE UNCHANGED heapvars
    BY <1>5 DEF heapvars, HeapInv, Holds, Before
  <1> QED BY <1>1, <1>3, <1>4, <1>5 DEF HeapNext

\* The invariant holds throughout.
THEOREM HeapInvariant == HeapSpec => []HeapInv
  <1> QED BY HeapStarts, HeapInvKept, PTL DEF HeapSpec

-----------------------------------------------------------------------------
(* What the heap promises.                                                 *)

\* get_string() gives the text that an id was given for, as long as the id is
\* below the size of the heap.
THEOREM IdsRead == HeapSpec => []IdsKeepTheirText
  <1>1. ASSUME HeapInv, NEW r \in issued, NulFree(r.text)
        PROVE  (CanGet(r.id) /\ GetString(r.id) = r.text) \/ (r.text = <<>> /\ r.id = memory.size)
    <2> DEFINE n == Len(r.text)
    <2>1. /\ SP!Terminated(memory) /\ memory.size \in Nat /\ r.id \in Nat \ {0}
          /\ r.text \in Seq(Chars) /\ n \in Nat /\ r.id + n <= memory.size
          /\ \A k \in 1 .. n : memory.data[r.id + k - 2] = r.text[k]
          /\ memory.data[r.id + n - 1] = Nul
      BY <1>1, HeapStorage DEF HeapInv, Issue, Holds, SP!Terminated, SP!String
    <2> HIDE DEF n
    <2>2. CASE r.id = memory.size
      <3>1. n = 0
        BY <2>1, <2>2
      <3>2. r.text = <<>>
        BY <2>1, <3>1 DEF n
      <3> QED BY <2>2, <3>2
    <2>3. CASE r.id # memory.size
      <3>1. CanGet(r.id) /\ r.id <= memory.size
        BY <2>1, <2>3 DEF CanGet
      <3>2. n = S!CStringLength(memory, r.id - 1)
        <4>0. /\ n \in Nat /\ r.id \in Nat \ {0} /\ r.id + n <= memory.size
              /\ memory.size \in Nat
          BY <2>1
        <4>1. n \in 0 .. memory.size - r.id + 1 /\ r.id - 1 + n = r.id + n - 1
          BY <4>0
        <4>2. memory.data[r.id - 1 + n] = Nul
          BY <2>1, <4>1
        <4>3. ASSUME NEW j \in r.id - 1 .. r.id - 1 + n - 1 PROVE memory.data[j] # Nul
          <5>1. PICK k : k = j - r.id + 2
            OBVIOUS
          <5>2. k \in 1 .. n /\ j = r.id + k - 2
            BY <4>0, <5>1
          <5>3. memory.data[j] = r.text[k] /\ r.text[k] # Nul
            BY <1>1, <2>1, <5>2 DEF NulFree, n
          <5> QED BY <5>3
        <4>4. \A m : SP!Terminated(m) => \A i \in Nat \ {0} :
                i <= m.size => \A l \in 0 .. m.size - i + 1 :
                  /\ m.data[i - 1 + l] = Nul
                  /\ \A j \in i - 1 .. i - 1 + l - 1 : m.data[j] # Nul
                  => l = S!CStringLength(m, i - 1)
          BY StringsRead
        <4>5. SP!Terminated(memory) /\ r.id \in Nat \ {0} /\ r.id <= memory.size
          BY <2>1, <3>1
        <4>6. \A l \in 0 .. memory.size - r.id + 1 :
                  /\ memory.data[r.id - 1 + l] = Nul
                  /\ \A j \in r.id - 1 .. r.id - 1 + l - 1 : memory.data[j] # Nul
                  => l = S!CStringLength(memory, r.id - 1)
          BY <4>4, <4>5
        <4> QED BY <4>1, <4>2, <4>3, <4>6
      <3>3. GetString(r.id) = [k \in 1 .. n |-> memory.data[r.id + k - 2]]
        BY <3>2 DEF GetString
      <3>4. GetString(r.id) = [k \in 1 .. n |-> r.text[k]]
        <4>1. \A k \in 1 .. n : memory.data[r.id + k - 2] = r.text[k]
          BY <2>1
        <4> QED BY <3>3, <4>1
      <3>5. r.text = [k \in 1 .. n |-> r.text[k]]
        <4>1. \A u \in Seq(Chars) : u = [k \in 1 .. Len(u) |-> u[k]]
          OBVIOUS
        <4> QED BY <2>1, <4>1 DEF n
      <3> QED BY <3>1, <3>4, <3>5
    <2> QED BY <2>2, <2>3
  <1>2. HeapInv => IdsKeepTheirText
    BY <1>1 DEF IdsKeepTheirText
  <1> QED BY <1>2, HeapInvariant, PTL

\* No two texts overlap, and no id is given out twice.
THEOREM TextsStayApart == HeapSpec => []TextsApart
  <1>1. HeapInv => TextsApart
    BY DEF HeapInv, TextsApart, Before
  <1> QED BY <1>1, HeapInvariant, PTL

\* Every text, one with NULs of its own too, stays whole in its range.
THEOREM RangesKeepTexts == HeapSpec => []RangesKeepTheirText
  <1>1. ASSUME HeapInv, NEW r \in issued, r.text # <<>>
        PROVE  /\ CanGetRange(r.id, r.id + Len(r.text))
               /\ GetRange(r.id, r.id + Len(r.text)) = r.text
    <2> DEFINE n == Len(r.text)
    <2>1. /\ memory.size \in Nat /\ r.id \in Nat \ {0}
          /\ r.text \in Seq(Chars) /\ n \in Nat /\ r.id + n <= memory.size
          /\ \A k \in 1 .. n : memory.data[r.id + k - 2] = r.text[k]
      <3>1. \A s \in SP!String : s.size \in 0 .. HeapChars
        BY HeapStorage DEF SP!String
      <3> QED BY <1>1, <3>1, HeapStorage DEF HeapInv, Issue, Holds, SP!Terminated
    <2>2. n # 0
      BY <1>1, <2>1
    <2>3. r.text = [k \in 1 .. n |-> r.text[k]]
      BY <2>1
    <2> HIDE DEF n
    <2>4. PICK e : e = r.id + n
      OBVIOUS
    <2>5. CanGetRange(r.id, e) /\ e - r.id = n
      BY <2>1, <2>2, <2>4 DEF CanGetRange
    <2>6. GetRange(r.id, e) = [k \in 1 .. n |-> r.text[k]]
      <3>1. GetRange(r.id, e) = [k \in 1 .. e - r.id |-> memory.data[r.id + k - 2]]
        BY DEF GetRange
      <3>2. GetRange(r.id, e) = [k \in 1 .. n |-> memory.data[r.id + k - 2]]
        BY <2>5, <3>1
      <3> QED BY <2>1, <3>2
    <2> QED BY <2>3, <2>4, <2>5, <2>6 DEF n
  <1>2. HeapInv => RangesKeepTheirText
    BY <1>1 DEF RangesKeepTheirText
  <1> QED BY <1>2, HeapInvariant, PTL
=============================================================================
