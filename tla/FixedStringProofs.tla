------------------------ MODULE FixedStringProofs -------------------------
(***************************************************************************)
(* What the operations of string<N> leave in the storage, for every N: the *)
(* loop that copies characters, the terminator behind them, and how far a  *)
(* C string reads.  The loop is a recursive function; what it computes is  *)
(* proved by taking the first index at which it would go wrong.            *)
(***************************************************************************)
EXTENDS FixedString, TLAPS, WellFoundedInduction

-----------------------------------------------------------------------------
(* Induction over the natural numbers.                                     *)

\* A set of naturals has a least element.
LEMMA LeastNatural ==
  ASSUME NEW T \in SUBSET Nat, T # {}
  PROVE  \E m \in T : \A n \in T : m <= n
  <1> DEFINE R == OpToRel(<, Nat)
  <1>1. IsWellFoundedOn(R, Nat)
    BY NatLessThanWellFounded
  <1>2. \A n, m \in Nat : n < m => <<n, m>> \in R
    BY DEF OpToRel
  <1> HIDE DEF R
  <1>3. PICK m \in T : \A n \in T : <<n, m>> \notin R
    BY <1>1, WFMin
  <1>4. \A n \in T : ~(n < m) /\ n \in Nat /\ m \in Nat
    BY <1>2, <1>3
  <1> QED BY <1>4

\* What holds of 0, and of n + 1 if of n, holds of every natural.
LEMMA Induction ==
  ASSUME NEW T \in SUBSET Nat, 0 \in T, \A n \in T : n + 1 \in T
  PROVE  T = Nat
  <1> SUFFICES ASSUME Nat \ T # {} PROVE FALSE
    OBVIOUS
  <1>1. PICK m \in Nat \ T : \A n \in Nat \ T : m <= n
    BY LeastNatural
  <1>2. m # 0 /\ m - 1 \in Nat /\ (m - 1) + 1 = m
    BY <1>1
  <1>3. m - 1 \in T
    BY <1>1, <1>2
  <1> QED BY <1>1, <1>2, <1>3

-----------------------------------------------------------------------------
(* The loop that copies.                                                   *)

\* The characters that a source gives while `data' is in the storage that is
\* written from `to' on: none of its own is overwritten before it is read.
Readable(src, data, to, count) ==
  /\ \A i \in 0 .. count - 1 : Pointee(src, data, i) \in Chars
  /\ src.own => /\ src.at \in Nat /\ src.at + count <= N
                /\ to <= src.at \/ src.at + count <= to

\* The storage after i turns of the loop.
Turn(data, to, src, i) ==
  [k \in Indexes |-> IF to <= k /\ k < to + i THEN Pointee(src, data, k - to) ELSE data[k]]

LoopOf(f, data, to, src, count) ==
  f = [i \in 0 .. count |->
         IF i = 0 THEN data
         ELSE [f[i - 1] EXCEPT ![to + i - 1] = Pointee(src, f[i - 1], i - 1)]]

\* One turn writes the next character, as it was before the loop.
LEMMA TurnByTurn ==
  ASSUME NEW data \in [Indexes -> Chars], NEW to \in Nat, NEW count \in Nat, NEW src,
         to + count <= N, Readable(src, data, to, count), NEW i \in 0 .. count - 1
  PROVE  LET before == Turn(data, to, src, i)
         IN  [before EXCEPT ![to + i] = Pointee(src, before, i)] = Turn(data, to, src, i + 1)
  <1> DEFINE before == Turn(data, to, src, i)
  <1>1. N \in Nat /\ to + i \in Indexes /\ i \in Nat
    BY StorageAssumption DEF Indexes
  <1>2. Pointee(src, before, i) = Pointee(src, data, i)
    <2>1. CASE src.own
      <3>1. src.at + i \in Indexes /\ ~(to <= src.at + i /\ src.at + i < to + i)
        BY <1>1, <2>1 DEF Readable, Indexes
      <3> QED BY <2>1, <3>1 DEF Turn, Pointee
    <2>2. CASE ~src.own
      BY <2>2 DEF Pointee
    <2> QED BY <2>1, <2>2
  <1>3. [before EXCEPT ![to + i] = Pointee(src, data, i)] = Turn(data, to, src, i + 1)
    <2>1. ASSUME NEW k \in Indexes
          PROVE  [before EXCEPT ![to + i] = Pointee(src, data, i)][k] = Turn(data, to, src, i + 1)[k]
      <3>1. CASE k = to + i
        <4>1. k - to = i /\ to <= k /\ k < to + (i + 1)
          BY <1>1, <3>1
        <4> QED BY <3>1, <4>1 DEF Turn
      <3>2. CASE k # to + i
        <4>1. k < to + (i + 1) <=> k < to + i
          BY <1>1, <3>2 DEF Indexes
        <4> QED BY <3>2, <4>1 DEF Turn
      <3> QED BY <3>1, <3>2
    <2> QED BY <2>1 DEF Turn
  <1> QED BY <1>2, <1>3

\* The loop is defined: there is a function of the turns.
LEMMA LoopExists ==
  ASSUME NEW data \in [Indexes -> Chars], NEW to \in Nat, NEW count \in Nat, NEW src,
         to + count <= N, Readable(src, data, to, count)
  PROVE  LoopOf([i \in 0 .. count |-> Turn(data, to, src, i)], data, to, src, count)
  <1> DEFINE f == [i \in 0 .. count |-> Turn(data, to, src, i)]
  <1>1. ASSUME NEW i \in 0 .. count
        PROVE  f[i] = IF i = 0 THEN data
                      ELSE [f[i - 1] EXCEPT ![to + i - 1] = Pointee(src, f[i - 1], i - 1)]
    <2>1. CASE i = 0
      <3>1. Turn(data, to, src, 0) = data
        BY DEF Turn, Indexes
      <3> QED BY <2>1, <3>1
    <2>2. CASE i # 0
      <3>1. PICK j : j = i - 1
        OBVIOUS
      <3>2. j \in 0 .. count - 1 /\ j \in 0 .. count /\ i = j + 1 /\ to + i - 1 = to + j
        BY <2>2, <3>1
      <3>3. f[j] = Turn(data, to, src, j) /\ f[i] = Turn(data, to, src, j + 1)
        BY <3>2
      <3>4. [Turn(data, to, src, j) EXCEPT ![to + j] = Pointee(src, Turn(data, to, src, j), j)]
              = Turn(data, to, src, j + 1)
        BY <3>2, TurnByTurn
      <3> QED BY <2>2, <3>1, <3>2, <3>3, <3>4
    <2> QED BY <2>1, <2>2
  <1> QED BY <1>1 DEF LoopOf

\* Every such function gives that storage at each turn.
LEMMA LoopIsUnique ==
  ASSUME NEW data \in [Indexes -> Chars], NEW to \in Nat, NEW count \in Nat, NEW src,
         to + count <= N, Readable(src, data, to, count),
         NEW f, LoopOf(f, data, to, src, count)
  PROVE  f[count] = Turn(data, to, src, count)
  <1> DEFINE T == {i \in Nat : i <= count => f[i] = Turn(data, to, src, i)}
  <1>1. 0 \in T
    <2>1. Turn(data, to, src, 0) = data
      BY DEF Turn, Indexes
    <2>2. f[0] = data
      BY DEF LoopOf
    <2> QED BY <2>1, <2>2
  <1>2. ASSUME NEW n \in T PROVE n + 1 \in T
    <2> SUFFICES ASSUME n + 1 <= count PROVE f[n + 1] = Turn(data, to, src, n + 1)
      OBVIOUS
    <2>1. n \in Nat /\ n \in 0 .. count - 1 /\ f[n] = Turn(data, to, src, n)
      OBVIOUS
    <2>2. f[n + 1] = [f[n] EXCEPT ![to + n] = Pointee(src, f[n], n)]
      <3>1. PICK j : j = n + 1
        OBVIOUS
      <3>2. j \in 0 .. count /\ j # 0 /\ j - 1 = n /\ to + j - 1 = to + n
        BY <2>1, <3>1
      <3>3. f[j] = [f[j - 1] EXCEPT ![to + j - 1] = Pointee(src, f[j - 1], j - 1)]
        BY <3>2 DEF LoopOf
      <3> QED BY <3>1, <3>2, <3>3
    <2>3. [Turn(data, to, src, n) EXCEPT ![to + n] = Pointee(src, Turn(data, to, src, n), n)]
            = Turn(data, to, src, n + 1)
      BY <2>1, TurnByTurn
    <2> QED BY <2>1, <2>2, <2>3
  <1>3. T \in SUBSET Nat
    OBVIOUS
  <1> HIDE DEF T
  <1>4. count \in T
    BY <1>1, <1>2, <1>3, Induction
  <1> QED BY <1>4 DEF T

\* Copying puts the source's characters, as they were, in place.
LEMMA Copies ==
  ASSUME NEW data \in [Indexes -> Chars], NEW to \in Nat, NEW count \in Nat, NEW src,
         to + count <= N, Readable(src, data, to, count)
  PROVE  /\ CopyLoop(data, to, src, count) = Turn(data, to, src, count)
         /\ CopyLoop(data, to, src, count) \in [Indexes -> Chars]
  <1> DEFINE after[i \in 0 .. count] ==
               IF i = 0 THEN data
               ELSE [after[i - 1] EXCEPT ![to + i - 1] = Pointee(src, after[i - 1], i - 1)]
             f == [i \in 0 .. count |-> Turn(data, to, src, i)]
  <1>1. f = [i \in 0 .. count |->
               IF i = 0 THEN data
               ELSE [f[i - 1] EXCEPT ![to + i - 1] = Pointee(src, f[i - 1], i - 1)]]
    BY LoopExists DEF LoopOf
  <1> HIDE DEF f
  <1>2. after = [i \in 0 .. count |->
                   IF i = 0 THEN data
                   ELSE [after[i - 1] EXCEPT ![to + i - 1] = Pointee(src, after[i - 1], i - 1)]]
    BY <1>1
  <1>3. CopyLoop(data, to, src, count) = after[count]
    BY DEF CopyLoop
  <1> HIDE DEF after
  <1>4. LoopOf(after, data, to, src, count)
    BY <1>2 DEF LoopOf
  <1>5. after[count] = Turn(data, to, src, count)
    BY <1>4, LoopIsUnique
  <1>6. Turn(data, to, src, count) \in [Indexes -> Chars]
    <2> SUFFICES ASSUME NEW k \in Indexes
                 PROVE  to <= k /\ k < to + count => Pointee(src, data, k - to) \in Chars
      BY DEF Turn
    <2>1. to <= k /\ k < to + count => k - to \in 0 .. count - 1
      BY DEF Indexes
    <2> QED BY <2>1 DEF Readable
  <1> QED BY <1>3, <1>5, <1>6
-----------------------------------------------------------------------------
(* The strings that the operations leave behind.                           *)

Terminated(s) == s \in String /\ s.data[s.size] = Nul

\* The characters that a source gives, in order.
Given(src, data, count) == [k \in 1 .. count |-> Pointee(src, data, k - 1)]

\* Sequences of the same length with the same elements are the same.
LEMMA SameSequence ==
  ASSUME NEW S, NEW t \in Seq(S), NEW u \in Seq(S), Len(t) = Len(u),
         \A k \in 1 .. Len(t) : t[k] = u[k]
  PROVE  t = u
  OBVIOUS

\* A sequence followed by another.
LEMMA JoinedTexts ==
  ASSUME NEW S, NEW t \in Seq(S), NEW u \in Seq(S)
  PROVE  /\ t \o u \in Seq(S) /\ Len(t \o u) = Len(t) + Len(u)
         /\ \A k \in 1 .. Len(t) : (t \o u)[k] = t[k]
         /\ \A k \in 1 .. Len(u) : (t \o u)[Len(t) + k] = u[k]
         /\ \A k \in 1 .. Len(t) + Len(u) :
              (t \o u)[k] = IF k <= Len(t) THEN t[k] ELSE u[k - Len(t)]
  OBVIOUS

\* What a string reads as is a text of its size.
LEMMA ViewIsText ==
  ASSUME NEW s \in String
  PROVE  /\ View(s) \in Seq(Chars) /\ Len(View(s)) = s.size /\ s.size \in 0 .. Capacity
         /\ s.size \in Nat /\ s.size < N
         /\ \A k \in 1 .. s.size : View(s)[k] = s.data[k - 1]
  <1>1. s.size \in 0 .. N - 1 /\ s.data \in [Indexes -> Chars] /\ N \in Nat
    BY StorageAssumption DEF String, Capacity
  <1>2. \A k \in 1 .. s.size : k - 1 \in Indexes
    BY <1>1 DEF Indexes
  <1>3. \A k \in 1 .. s.size : s.data[k - 1] \in Chars
    BY <1>1, <1>2
  <1> QED BY <1>1, <1>3 DEF View, Capacity

\* The terminator is set behind the characters, and changes none of them.
LEMMA TerminatorSet ==
  ASSUME NEW data \in [Indexes -> Chars], NEW size \in 0 .. Capacity,
         NEW s, s = SetTerminator([data |-> data, size |-> size])
  PROVE  /\ Terminated(s) /\ s.size = size
         /\ \A i \in 0 .. size - 1 : s.data[i] = data[i]
         /\ \A k \in 1 .. size : View(s)[k] = data[k - 1]
  <1>1. N \in Nat /\ size \in Indexes /\ Nul \in Chars /\ size \in Nat
    BY StorageAssumption, NulAssumption DEF Capacity, Indexes
  <1> DEFINE rec == [data |-> data, size |-> size]
  <1>2a. rec.data = data /\ rec.size = size /\ rec = [data |-> data, size |-> size]
    OBVIOUS
  <1>2b. s = [rec EXCEPT !.data = [rec.data EXCEPT ![rec.size] = Nul]]
    BY DEF SetTerminator
  <1> HIDE DEF rec
  <1>2. s = [data |-> [data EXCEPT ![size] = Nul], size |-> size]
    <2> DEFINE new == [data EXCEPT ![size] = Nul]
    <2>1. s = [rec EXCEPT !.data = new]
      BY <1>2a, <1>2b
    <2> HIDE DEF new
    <2>2. [[data |-> data, size |-> size] EXCEPT !.data = new] = [data |-> new, size |-> size]
      OBVIOUS
    <2> QED BY <1>2a, <2>1, <2>2 DEF new
  <1>3. s.data = [data EXCEPT ![size] = Nul] /\ s.size = size
    <2> DEFINE new == [data EXCEPT ![size] = Nul]
    <2>1. s = [data |-> new, size |-> size]
      BY <1>2
    <2> HIDE DEF new
    <2>2. s.data = new /\ s.size = size
      BY <2>1
    <2> QED BY <2>2 DEF new
  <1>4. s \in String
    BY <1>1, <1>2 DEF String
  <1>5. s.data[size] = Nul /\ \A i \in 0 .. size - 1 : s.data[i] = data[i]
    <2>1. \A i \in 0 .. size - 1 : i \in Indexes /\ i # size
      BY <1>1 DEF Indexes
    <2> QED BY <1>1, <1>3, <2>1
  <1>6. ASSUME NEW k \in 1 .. size PROVE View(s)[k] = data[k - 1]
    <2>1. k - 1 \in 0 .. size - 1 /\ View(s)[k] = s.data[k - 1]
      BY <1>1, <1>3 DEF View
    <2> QED BY <1>5, <2>1
  <1> QED BY <1>3, <1>4, <1>5, <1>6 DEF Terminated

\* What a readable source gives is a text.
LEMMA GivenIsText ==
  ASSUME NEW data, NEW to, NEW count \in Nat, NEW src, Readable(src, data, to, count)
  PROVE  /\ Given(src, data, count) \in Seq(Chars) /\ Len(Given(src, data, count)) = count
         /\ \A k \in 1 .. count : Given(src, data, count)[k] = Pointee(src, data, k - 1)
  <1>1. \A k \in 1 .. count : k - 1 \in 0 .. count - 1
    OBVIOUS
  <1>2. \A k \in 1 .. count : Pointee(src, data, k - 1) \in Chars
    BY <1>1 DEF Readable
  <1> QED BY <1>2 DEF Given

\* assign: the string reads as what it was given.
LEMMA Assigns ==
  ASSUME NEW s \in String, NEW src, NEW count \in Nat, count <= Capacity,
         Readable(src, s.data, 0, count), NEW r, r = AssignRange(s, src, count)
  PROVE  Terminated(r) /\ r.size = count /\ View(r) = Given(src, s.data, count)
  <1>1. s.data \in [Indexes -> Chars] /\ 0 + count <= N /\ count \in 0 .. Capacity
    BY StorageAssumption DEF String, Capacity
  <1> DEFINE data == CopyLoop(s.data, 0, src, count)
  <1>2. data = Turn(s.data, 0, src, count) /\ data \in [Indexes -> Chars]
    BY <1>1, Copies
  <1>3. r = SetTerminator([data |-> data, size |-> count])
    BY DEF AssignRange
  <1> HIDE DEF data
  <1>4. /\ Terminated(r) /\ r.size = count
        /\ \A k \in 1 .. count : View(r)[k] = data[k - 1]
    BY <1>1, <1>2, <1>3, TerminatorSet
  <1>5. View(r) \in Seq(Chars) /\ Len(View(r)) = count
    BY <1>4, ViewIsText DEF Terminated
  <1>6. /\ Given(src, s.data, count) \in Seq(Chars) /\ Len(Given(src, s.data, count)) = count
        /\ \A k \in 1 .. count : Given(src, s.data, count)[k] = Pointee(src, s.data, k - 1)
    BY GivenIsText
  <1>7. ASSUME NEW k \in 1 .. count PROVE View(r)[k] = Given(src, s.data, count)[k]
    <2>1. k - 1 \in Indexes /\ 0 <= k - 1 /\ k - 1 < 0 + count /\ k - 1 - 0 = k - 1
      BY <1>1, StorageAssumption DEF Indexes, Capacity
    <2>2. data[k - 1] = Pointee(src, s.data, k - 1)
      BY <1>2, <2>1 DEF Turn
    <2> QED BY <1>4, <1>6, <2>2
  <1> QED BY <1>4, <1>5, <1>6, <1>7, SameSequence

\* append: the string goes on with what it was given, and what it held stays.
LEMMA Appends ==
  ASSUME NEW s \in String, NEW src, NEW count \in Nat, count <= Capacity - s.size,
         Readable(src, s.data, s.size, count), NEW r, r = AppendRange(s, src, count)
  PROVE  /\ Terminated(r) /\ r.size = s.size + count
         /\ View(r) = View(s) \o Given(src, s.data, count)
         /\ \A i \in 0 .. s.size - 1 : r.data[i] = s.data[i]
         /\ \A k \in 1 .. count : r.data[s.size + k - 1] = Given(src, s.data, count)[k]
  <1>1. /\ s.data \in [Indexes -> Chars] /\ s.size \in Nat /\ N \in Nat /\ Capacity = N - 1
        /\ s.size + count <= N /\ s.size + count \in 0 .. Capacity
    BY ViewIsText, StorageAssumption DEF String, Capacity
  <1> DEFINE data == CopyLoop(s.data, s.size, src, count)
  <1>2. data = Turn(s.data, s.size, src, count) /\ data \in [Indexes -> Chars]
    BY <1>1, Copies
  <1>3. r = SetTerminator([data |-> data, size |-> s.size + count])
    BY DEF AppendRange
  <1> HIDE DEF data
  <1>4. /\ Terminated(r) /\ r.size = s.size + count
        /\ \A i \in 0 .. s.size + count - 1 : r.data[i] = data[i]
        /\ \A k \in 1 .. s.size + count : View(r)[k] = data[k - 1]
    BY <1>1, <1>2, <1>3, TerminatorSet
  <1>5. View(r) \in Seq(Chars) /\ Len(View(r)) = s.size + count
    BY <1>4, ViewIsText DEF Terminated
  <1>6. /\ Given(src, s.data, count) \in Seq(Chars) /\ Len(Given(src, s.data, count)) = count
        /\ \A k \in 1 .. count : Given(src, s.data, count)[k] = Pointee(src, s.data, k - 1)
    BY GivenIsText
  <1>7. /\ View(s) \in Seq(Chars) /\ Len(View(s)) = s.size
        /\ \A k \in 1 .. s.size : View(s)[k] = s.data[k - 1]
    BY ViewIsText
  <1>8. \A i \in 0 .. s.size - 1 : data[i] = s.data[i]
    <2>1. \A i \in 0 .. s.size - 1 : i \in Indexes /\ ~(s.size <= i)
      BY <1>1 DEF Indexes
    <2> QED BY <1>2, <2>1 DEF Turn
  <1>9. ASSUME NEW k \in 1 .. count
        PROVE  data[s.size + k - 1] = Given(src, s.data, count)[k]
    <2>1. PICK i : i = s.size + k - 1
      OBVIOUS
    <2>2. i \in Indexes /\ s.size <= i /\ i < s.size + count /\ i - s.size = k - 1
      BY <1>1, <2>1 DEF Indexes
    <2>3. data[i] = Pointee(src, s.data, k - 1)
      BY <1>2, <2>2 DEF Turn
    <2> QED BY <1>6, <2>1, <2>3
  <1> DEFINE g == Given(src, s.data, count)
             v == View(s)
  <1>10. /\ v \o g \in Seq(Chars) /\ Len(v \o g) = s.size + count
         /\ \A k \in 1 .. s.size + count :
              (v \o g)[k] = IF k <= s.size THEN v[k] ELSE g[k - s.size]
    <2>1. v \in Seq(Chars) /\ Len(v) = s.size /\ g \in Seq(Chars) /\ Len(g) = count
      BY <1>6, <1>7
    <2> HIDE DEF g, v
    <2>2. \A t, u \in Seq(Chars) :
            /\ t \o u \in Seq(Chars) /\ Len(t \o u) = Len(t) + Len(u)
            /\ \A k \in 1 .. Len(t) + Len(u) :
                 (t \o u)[k] = IF k <= Len(t) THEN t[k] ELSE u[k - Len(t)]
      BY JoinedTexts
    <2>3. /\ v \o g \in Seq(Chars) /\ Len(v \o g) = Len(v) + Len(g)
          /\ \A k \in 1 .. Len(v) + Len(g) :
               (v \o g)[k] = IF k <= Len(v) THEN v[k] ELSE g[k - Len(v)]
      BY <2>1, <2>2
    <2>4. Len(v) = s.size /\ Len(g) = count
      BY <2>1
    <2> QED BY ONLY <2>3, <2>4
  <1> HIDE DEF g, v
  <1>11. ASSUME NEW k \in 1 .. s.size + count PROVE View(r)[k] = (v \o g)[k]
    <2>1. CASE k <= s.size
      <3>1. k \in 1 .. s.size /\ k - 1 \in 0 .. s.size - 1
        BY <1>1, <2>1
      <3> QED BY <1>4, <1>7, <1>8, <1>10, <2>1, <3>1 DEF v
    <2>2. CASE ~(k <= s.size)
      <3>1. PICK j : j = k - s.size
        OBVIOUS
      <3>2. j \in 1 .. count /\ k - 1 = s.size + j - 1
        BY <1>1, <2>2, <3>1
      <3> QED BY <1>4, <1>9, <1>10, <2>2, <3>1, <3>2 DEF g
    <2> QED BY <2>1, <2>2
  <1>12. View(r) = v \o g
    BY <1>5, <1>10, <1>11, SameSequence
  <1>13. /\ \A i \in 0 .. s.size - 1 : i \in 0 .. s.size + count - 1
         /\ \A k \in 1 .. count : s.size + k - 1 \in 0 .. s.size + count - 1
    BY <1>1
  <1> QED BY <1>4, <1>8, <1>9, <1>12, <1>13 DEF g, v

\* A string reads as the text whose characters it holds.
LEMMA Reads ==
  ASSUME NEW s \in String, NEW t \in Seq(Chars), Len(t) = s.size,
         \A k \in 1 .. s.size : s.data[k - 1] = t[k]
  PROVE  View(s) = t
  <1>1. /\ View(s) \in Seq(Chars) /\ Len(View(s)) = s.size
        /\ \A k \in 1 .. s.size : View(s)[k] = s.data[k - 1]
    BY ViewIsText
  <1>2. \A u \in Seq(Chars) :
          Len(u) = Len(t) /\ (\A k \in 1 .. Len(u) : u[k] = t[k]) => u = t
    BY SameSequence
  <1> DEFINE v == View(s)
  <1>3. v \in Seq(Chars) /\ Len(v) = Len(t) /\ \A k \in 1 .. Len(v) : v[k] = t[k]
    BY <1>1
  <1> HIDE DEF v
  <1>4. v = t
    BY <1>2, <1>3
  <1> QED BY <1>4 DEF v

\* The parts of a string that a new one shares with it.
LEMMA Parts ==
  ASSUME NEW s \in String
  PROVE  s.data \in [Indexes -> Chars] /\ s.size \in Nat /\ N \in Nat /\ Capacity = N - 1
         /\ s.size <= Capacity /\ s.size \in Indexes /\ Nul \in Chars
         /\ 0 \in Indexes /\ 0 \in 0 .. Capacity
  BY StorageAssumption, NulAssumption DEF String, Capacity, Indexes

\* push_back: one character more, the others as before.
LEMMA PushesBack ==
  ASSUME NEW s \in String, NEW ch \in Chars, s.size # Capacity, NEW r, r = PushedBack(s, ch)
  PROVE  /\ Terminated(r) /\ r.size = s.size + 1 /\ r.data[s.size] = ch
         /\ \A i \in 0 .. s.size - 1 : r.data[i] = s.data[i]
         /\ View(r) = Append(View(s), ch)
  <1>1. s.data \in [Indexes -> Chars] /\ s.size \in Nat /\ Capacity \in Nat /\ N \in Nat
        /\ Capacity = N - 1 /\ s.size \in Indexes /\ s.size + 1 \in 0 .. Capacity
    BY Parts
  <1> DEFINE data == [s.data EXCEPT ![s.size] = ch]
  <1>2. data \in [Indexes -> Chars] /\ data[s.size] = ch
        /\ \A i \in 0 .. s.size - 1 : data[i] = s.data[i]
    <2>1. \A i \in 0 .. s.size - 1 : i \in Indexes /\ i # s.size
      BY <1>1 DEF Indexes
    <2> QED BY <1>1, <2>1
  <1>3. r = SetTerminator([data |-> data, size |-> s.size + 1])
    BY DEF PushedBack
  <1> HIDE DEF data
  <1>4. Terminated(r) /\ r.size = s.size + 1 /\ \A i \in 0 .. s.size : r.data[i] = data[i]
    <2>1. /\ Terminated(r) /\ r.size = s.size + 1
          /\ \A i \in 0 .. (s.size + 1) - 1 : r.data[i] = data[i]
      BY <1>1, <1>2, <1>3, TerminatorSet
    <2> QED BY <1>1, <2>1
  <1>5. r.data[s.size] = ch /\ \A i \in 0 .. s.size - 1 : r.data[i] = s.data[i]
    BY <1>1, <1>2, <1>4
  <1>6. /\ View(s) \in Seq(Chars) /\ Len(View(s)) = s.size
        /\ \A k \in 1 .. s.size : View(s)[k] = s.data[k - 1]
    BY ViewIsText
  <1> DEFINE t == Append(View(s), ch)
  <1>7. /\ t \in Seq(Chars) /\ Len(t) = s.size + 1
        /\ \A k \in 1 .. s.size + 1 : t[k] = IF k = s.size + 1 THEN ch ELSE View(s)[k]
    BY <1>1, <1>6
  <1> HIDE DEF t
  <1>8. ASSUME NEW k \in 1 .. s.size + 1 PROVE r.data[k - 1] = t[k]
    <2>1. CASE k = s.size + 1
      <3>1. k - 1 = s.size
        BY <1>1, <2>1
      <3> QED BY <1>5, <1>7, <2>1, <3>1
    <2>2. CASE k # s.size + 1
      <3>1. k - 1 \in 0 .. s.size - 1 /\ k \in 1 .. s.size
        BY <1>1, <2>2
      <3> QED BY <1>5, <1>6, <1>7, <2>2, <3>1
    <2> QED BY <2>1, <2>2
  <1>9. View(r) = t
    BY <1>4, <1>7, <1>8, Reads DEF Terminated
  <1> QED BY <1>4, <1>5, <1>9 DEF t

\* A C string ends at the first NUL: there is one at the latest behind the text.
LEMMA FirstNul ==
  ASSUME NEW s, Terminated(s), NEW pos \in 0 .. s.size
  PROVE  /\ CStringLength(s, pos) \in 0 .. s.size - pos
         /\ s.data[pos + CStringLength(s, pos)] = Nul
         /\ \A j \in pos .. pos + CStringLength(s, pos) - 1 : s.data[j] # Nul
         /\ \A n \in 0 .. s.size - pos :
              s.data[pos + n] = Nul /\ (\A j \in pos .. pos + n - 1 : s.data[j] # Nul)
                => n = CStringLength(s, pos)
  <1> DEFINE First(i) == s.data[i] = Nul /\ \A j \in pos .. i - 1 : s.data[j] # Nul
             T == {i \in pos .. s.size : s.data[i] = Nul}
             end == CHOOSE i \in pos .. N - 1 : First(i)
  <1>1. s.size \in Nat /\ pos \in Nat /\ N \in Nat /\ s.size <= N - 1 /\ s.data[s.size] = Nul
    BY Parts DEF Terminated
  <1>2. PICK m \in T : \A n \in T : m <= n
    <2>1. T \in SUBSET Nat /\ s.size \in T
      BY <1>1
    <2> HIDE DEF T
    <2> QED BY <2>1, LeastNatural
  <1>3. m \in pos .. N - 1 /\ m <= s.size /\ First(m)
    <2>1. \A j \in pos .. m - 1 : j \in pos .. s.size /\ ~(m <= j)
      BY <1>1, <1>2
    <2> QED BY <1>1, <1>2, <2>1
  <1>4. \A i, j \in pos .. N - 1 : First(i) /\ First(j) => i = j
    <2> SUFFICES ASSUME NEW i \in pos .. N - 1, NEW j \in pos .. N - 1,
                        First(i), First(j), i # j
                 PROVE  FALSE
      OBVIOUS
    <2>1. i \in pos .. j - 1 \/ j \in pos .. i - 1
      BY <1>1
    <2> QED BY <2>1
  <1>5. CStringLength(s, pos) = end - pos
    BY DEF CStringLength
  <1> HIDE DEF First
  <1>6. end \in pos .. N - 1 /\ First(end)
    BY <1>3
  <1> HIDE DEF end
  <1>7. end = m
    BY <1>3, <1>4, <1>6
  <1>8. PICK c : c = CStringLength(s, pos)
    OBVIOUS
  <1>9. c \in 0 .. s.size - pos /\ pos + c = m /\ pos + c - 1 = m - 1
    BY <1>1, <1>3, <1>5, <1>7, <1>8
  <1>10. s.data[pos + c] = Nul /\ \A j \in pos .. pos + c - 1 : s.data[j] # Nul
    BY <1>3, <1>9 DEF First
  <1>11. ASSUME NEW n \in 0 .. s.size - pos, s.data[pos + n] = Nul,
                \A j \in pos .. pos + n - 1 : s.data[j] # Nul
         PROVE  n = c
    <2>1. pos + n \in pos .. N - 1
      BY <1>1
    <2>2. First(pos + n)
      BY <1>11 DEF First
    <2>3. pos + n = m
      BY <1>3, <1>4, <2>1, <2>2
    <2> QED BY <1>1, <1>9, <2>3
  <1> QED BY <1>8, <1>9, <1>10, <1>11

\* A string cut to n characters.
LEMMA Shortens ==
  ASSUME NEW s \in String, NEW n \in 0 .. s.size, NEW r,
         r = SetTerminator([s EXCEPT !.size = n])
  PROVE  /\ Terminated(r) /\ r.size = n
         /\ \A k \in 1 .. n : r.data[k - 1] = s.data[k - 1]
  <1>1. /\ s.data \in [Indexes -> Chars] /\ s.size \in Nat /\ s.size <= Capacity
        /\ Capacity \in Nat
    BY Parts
  <1>2. s = [data |-> s.data, size |-> s.size]
    BY DEF String
  <1>3. [s EXCEPT !.size = n] = [data |-> s.data, size |-> n]
    BY <1>2
  <1>4. n \in 0 .. Capacity
    BY <1>1
  <1>5. PICK data : data = s.data
    OBVIOUS
  <1>6. r = SetTerminator([data |-> data, size |-> n])
    BY <1>3, <1>5
  <1>7. Terminated(r) /\ r.size = n /\ \A i \in 0 .. n - 1 : r.data[i] = data[i]
    <2>1. \A d \in [Indexes -> Chars], size \in 0 .. Capacity :
            LET x == SetTerminator([data |-> d, size |-> size])
            IN  Terminated(x) /\ x.size = size /\ \A i \in 0 .. size - 1 : x.data[i] = d[i]
      BY TerminatorSet
    <2>2. data \in [Indexes -> Chars]
      BY <1>1, <1>5
    <2>3. PICK x : x = SetTerminator([data |-> data, size |-> n])
      OBVIOUS
    <2>4. Terminated(x) /\ x.size = n /\ \A i \in 0 .. n - 1 : x.data[i] = data[i]
      BY <1>4, <2>1, <2>2, <2>3
    <2> QED BY <1>6, <2>3, <2>4
  <1>8. \A k \in 1 .. n : k - 1 \in 0 .. n - 1
    BY <1>4
  <1> QED BY <1>5, <1>7, <1>8

\* resize: what lies between the old and the new end is filled, what is before stays.
LEMMA Resizes ==
  ASSUME NEW s \in String, NEW n \in 0 .. Capacity, NEW fill \in Chars,
         NEW r, r = Resized(s, n, fill)
  PROVE  /\ Terminated(r) /\ r.size = n
         /\ \A k \in 1 .. n : r.data[k - 1] = IF k <= s.size THEN s.data[k - 1] ELSE fill
  <1> DEFINE data == [i \in Indexes |-> IF s.size <= i /\ i < n THEN fill ELSE s.data[i]]
  <1>1. /\ s.data \in [Indexes -> Chars] /\ s.size \in Nat /\ N \in Nat /\ Capacity = N - 1
        /\ n \in Nat /\ n <= Capacity
    BY Parts
  <1>2. data \in [Indexes -> Chars]
    BY <1>1
  <1>3. r = SetTerminator([data |-> data, size |-> n])
    BY DEF Resized
  <1>4. ASSUME NEW k \in 1 .. n
        PROVE  data[k - 1] = IF k <= s.size THEN s.data[k - 1] ELSE fill
    <2>1. k - 1 \in Indexes /\ k - 1 < n /\ (s.size <= k - 1 <=> ~(k <= s.size))
      BY <1>1 DEF Indexes
    <2> QED BY <2>1
  <1> HIDE DEF data
  <1>5. Terminated(r) /\ r.size = n /\ \A i \in 0 .. n - 1 : r.data[i] = data[i]
    BY <1>2, <1>3, TerminatorSet
  <1>6. \A k \in 1 .. n : k - 1 \in 0 .. n - 1
    BY <1>1
  <1> QED BY <1>4, <1>5, <1>6

\* The string that a constructor starts from.
LEMMA NewString ==
  /\ Terminated(EmptyString) /\ EmptyString.size = 0
  /\ \A n \in 0 .. Capacity :
       /\ Terminated([EmptyString EXCEPT !.size = n])
       /\ [EmptyString EXCEPT !.size = n].size = n
       /\ \A k \in 1 .. n : [EmptyString EXCEPT !.size = n].data[k - 1] = Nul
  <1> DEFINE zeros == [i \in Indexes |-> Nul]
  <1>1. /\ zeros \in [Indexes -> Chars] /\ Capacity \in Nat /\ Indexes = 0 .. Capacity
        /\ \A i \in Indexes : zeros[i] = Nul
    BY StorageAssumption, NulAssumption DEF Indexes, Capacity
  <1>2. EmptyString = [data |-> zeros, size |-> 0]
    BY DEF EmptyString
  <1> HIDE DEF zeros
  <1>3. \A n \in 0 .. Capacity : [EmptyString EXCEPT !.size = n] = [data |-> zeros, size |-> n]
    BY <1>2
  <1>4. ASSUME NEW n \in 0 .. Capacity, NEW s, s = [data |-> zeros, size |-> n]
        PROVE  Terminated(s) /\ s.size = n /\ \A k \in 1 .. n : s.data[k - 1] = Nul
    <2>1. s.data = zeros /\ s.size = n /\ s \in String
      BY <1>1, <1>4 DEF String
    <2>2. \A k \in 1 .. n : k - 1 \in Indexes
      BY <1>1
    <2>3. n \in Indexes
      BY <1>1
    <2> QED BY <1>1, <2>1, <2>2, <2>3 DEF Terminated
  <1>5. 0 \in 0 .. Capacity
    BY <1>1
  <1>6. Terminated(EmptyString) /\ EmptyString.size = 0
    BY <1>2, <1>4, <1>5
  <1>7. ASSUME NEW n \in 0 .. Capacity
        PROVE  /\ Terminated([EmptyString EXCEPT !.size = n])
               /\ [EmptyString EXCEPT !.size = n].size = n
               /\ \A k \in 1 .. n : [EmptyString EXCEPT !.size = n].data[k - 1] = Nul
    <2>1. PICK s : s = [EmptyString EXCEPT !.size = n]
      OBVIOUS
    <2>2. Terminated(s) /\ s.size = n /\ \A k \in 1 .. n : s.data[k - 1] = Nul
      <3>1. s = [data |-> zeros, size |-> n]
        BY <1>3, <2>1
      <3> QED BY <1>4, <3>1
    <2> QED BY <2>1, <2>2
  <1> QED BY <1>6, <1>7
=============================================================================
