------------------------ MODULE StringObjectsProofs ------------------------
(***************************************************************************)
(* Objects of string<N> hold the texts that their interface promises, for  *)
(* every N, every alphabet and every number of objects.                    *)
(***************************************************************************)
EXTENDS StringObjects, FixedStringProofs

-----------------------------------------------------------------------------
(* Texts.                                                                  *)

\* The part of a text from a position on.
LEMMA PartOfText ==
  ASSUME NEW t \in Seq(Chars), NEW pos \in Nat, NEW n \in Nat, pos + n <= Len(t)
  PROVE  /\ T!Part(t, pos, n) \in Seq(Chars) /\ Len(T!Part(t, pos, n)) = n
         /\ \A k \in 1 .. n : T!Part(t, pos, n)[k] = t[pos + k]
  <1>1. PICK from : from = pos + 1
    OBVIOUS
  <1>2. PICK to : to = pos + n
    OBVIOUS
  <1>3. from \in 1 .. Len(t) + 1 /\ to \in from - 1 .. Len(t) /\ Len(t) \in Nat
    BY <1>1, <1>2
  <1>4. \A k \in from .. to : k \in 1 .. Len(t)
    BY <1>3
  <1>5. SubSeq(t, from, to) = [k \in 1 .. to - from + 1 |-> t[from + k - 1]]
    BY <1>3, <1>4
  <1>6. to - from + 1 = n /\ \A k \in 1 .. n : from + k - 1 = pos + k /\ pos + k \in 1 .. Len(t)
    BY <1>1, <1>2, <1>3
  <1>7. T!Part(t, pos, n) = [k \in 1 .. n |-> t[pos + k]]
    BY <1>1, <1>2, <1>5, <1>6 DEF T!Part
  <1>8. \A k \in 1 .. n : t[pos + k] \in Chars
    BY <1>6
  <1> QED BY <1>7, <1>8

\* A character over and over.
LEMMA RepeatedText ==
  ASSUME NEW n \in Nat, NEW ch \in Chars
  PROVE  /\ T!Repeated(n, ch) \in Seq(Chars) /\ Len(T!Repeated(n, ch)) = n
         /\ \A k \in 1 .. n : T!Repeated(n, ch)[k] = ch
  BY DEF T!Repeated

\* Reading up to a NUL takes as many characters as the C string has.
LEMMA UpToNulIsPart ==
  ASSUME NEW s, Terminated(s), NEW pos \in 0 .. s.size
  PROVE  T!UpToNul(View(s), pos) = T!Part(View(s), pos, CStringLength(s, pos))
  <1>1. PICK n : n = CStringLength(s, pos)
    OBVIOUS
  <1>2. /\ n \in 0 .. s.size - pos /\ s.data[pos + n] = Nul
        /\ \A j \in pos .. pos + n - 1 : s.data[j] # Nul
    BY <1>1, FirstNul
  <1>3. PICK t : t = View(s)
    OBVIOUS
  <1>4. PICK size : size = s.size
    OBVIOUS
  <1>5. /\ Len(t) = size /\ size \in Nat /\ pos \in 0 .. size /\ n \in 0 .. size - pos
        /\ s.data[size] = Nul
        /\ \A k \in 1 .. size : t[k] = s.data[k - 1]
    BY <1>2, <1>3, <1>4, ViewIsText DEF Terminated
  <1> DEFINE P(k) == /\ k = Len(t) + 1 \/ t[k] = Nul
                     /\ \A j \in pos + 1 .. k - 1 : t[j] # Nul
             end == CHOOSE k \in pos + 1 .. Len(t) + 1 : P(k)
  <1>6. PICK e : e = pos + n + 1
    OBVIOUS
  <1>7. e \in pos + 1 .. Len(t) + 1 /\ e - 1 = pos + n
    BY <1>5, <1>6
  <1>8. P(e)
    <2>1. e = Len(t) + 1 \/ t[e] = Nul
      <3>1. CASE e # Len(t) + 1
        <4>1. e \in 1 .. size /\ e - 1 = pos + n
          BY <1>5, <1>7, <3>1
        <4> QED BY <1>2, <1>5, <4>1
      <3> QED BY <3>1
    <2>2. ASSUME NEW j \in pos + 1 .. e - 1 PROVE t[j] # Nul
      <3>1. j \in 1 .. size /\ j - 1 \in pos .. pos + n - 1
        BY <1>5, <1>7
      <3> QED BY <1>2, <1>5, <3>1
    <2> QED BY <2>1, <2>2
  <1>9. ASSUME NEW k \in pos + 1 .. Len(t) + 1, P(k) PROVE k = e
    <2>1. CASE k < e
      <3>1. k \in pos + 1 .. e - 1 /\ k # Len(t) + 1
        BY <1>5, <1>7, <2>1
      <3> QED BY <1>8, <1>9, <3>1
    <2>2. CASE e < k
      <3>1. e \in pos + 1 .. k - 1 /\ e # Len(t) + 1
        BY <1>5, <1>7, <2>2
      <3> QED BY <1>8, <1>9, <3>1
    <2> QED BY <1>5, <1>7, <2>1, <2>2
  <1>10. T!UpToNul(t, pos) = SubSeq(t, pos + 1, end - 1)
    BY DEF T!UpToNul
  <1> HIDE DEF P
  <1>11. end \in pos + 1 .. Len(t) + 1 /\ P(end)
    BY <1>7, <1>8
  <1> HIDE DEF end
  <1>12. end = e
    BY <1>9, <1>11
  <1>13. T!UpToNul(t, pos) = T!Part(t, pos, n)
    BY <1>7, <1>10, <1>12 DEF T!Part
  <1> QED BY <1>1, <1>3, <1>13

-----------------------------------------------------------------------------
(* The inductive invariant, and what a call has to show to keep it.        *)

ObjInv ==
  /\ StringsTerminated
  /\ ReadsAsText
  /\ text \in [Objects -> Seq(Chars)]

\* What it says of one object.
LEMMA OneObject ==
  ASSUME ObjInv, NEW o \in Objects
  PROVE  /\ Terminated(str[o]) /\ str[o] \in String /\ View(str[o]) = text[o]
         /\ text[o] \in Seq(Chars) /\ Len(text[o]) = str[o].size
         /\ str[o].size \in Nat /\ str[o].size <= Capacity /\ Capacity \in Nat
         /\ N = Capacity + 1
         /\ \A k \in 1 .. str[o].size : text[o][k] = str[o].data[k - 1]
  <1>1. str[o] \in String /\ str[o].data[str[o].size] = Nul /\ View(str[o]) = text[o]
    BY DEF ObjInv, StringsTerminated, ReadsAsText
  <1>2. \A s \in String : /\ View(s) \in Seq(Chars) /\ Len(View(s)) = s.size
                          /\ s.size \in Nat /\ s.size <= Capacity
                          /\ \A k \in 1 .. s.size : View(s)[k] = s.data[k - 1]
    BY ViewIsText DEF Capacity
  <1>3. Capacity \in Nat /\ N = Capacity + 1
    BY StorageAssumption DEF Capacity
  <1> QED BY <1>1, <1>2, <1>3 DEF Terminated

\* One object is stored, and reads as the text that it becomes.
LEMMA StoredOne ==
  ASSUME ObjInv, NEW o \in Objects, NEW s, NEW t,
         Terminated(s), t \in Seq(Chars), View(s) = t,
         str' = [str EXCEPT ![o] = s], raised' = "nothing", T!Becomes(o, t)
  PROVE  ObjInv'
  <1>1. Len(t) <= Capacity /\ Len(t) \in Nat
    <2>1. \A x \in String : View(x) \in Seq(Chars) /\ Len(View(x)) = x.size
                            /\ x.size \in 0 .. Capacity
      BY ViewIsText
    <2> QED BY <2>1, StorageAssumption DEF Terminated, Capacity
  <1>2. text' = [text EXCEPT ![o] = t] /\ thrown' = "nothing"
    BY <1>1, StorageAssumption DEF T!Becomes, Capacity
  <1>3. str \in [Objects -> String] /\ text \in [Objects -> Seq(Chars)]
    BY DEF ObjInv, StringsTerminated
  <1>4. str' \in [Objects -> String] /\ text' \in [Objects -> Seq(Chars)]
    BY <1>2, <1>3 DEF Terminated
  <1>5. ASSUME NEW p \in Objects
        PROVE  str'[p].data[str'[p].size] = Nul /\ View(str'[p]) = text'[p]
    <2>1. CASE p = o
      <3>1. str'[p] = s /\ text'[p] = t
        BY <1>2, <1>3, <2>1
      <3> QED BY <3>1 DEF Terminated
    <2>2. CASE p # o
      <3>1. str'[p] = str[p] /\ text'[p] = text[p]
        BY <1>2, <1>3, <2>2
      <3> QED BY <3>1 DEF ObjInv, StringsTerminated, ReadsAsText
    <2> QED BY <2>1, <2>2
  <1>6. StringsTerminated'
    BY <1>4, <1>5 DEF StringsTerminated
  <1>7. ReadsAsText'
    BY <1>2, <1>5 DEF ReadsAsText
  <1> QED BY <1>4, <1>6, <1>7 DEF ObjInv

\* Nothing is changed, and the same is thrown.
LEMMA ThrownBoth ==
  ASSUME ObjInv, UNCHANGED <<str, text>>, raised' = thrown'
  PROVE  ObjInv'
  BY DEF ObjInv, StringsTerminated, ReadsAsText

\* A call stores one object, or throws a length_error where the text is too long.
LEMMA Stored ==
  ASSUME ObjInv, NEW o \in Objects, NEW s, NEW t \in Seq(Chars), NEW check, NEW error,
         Store(o, s, check, error), T!Becomes(o, t),
         check => Terminated(s) /\ View(s) = t,
         ~check => Len(t) > Capacity /\ error = "length_error"
  PROVE  ObjInv'
  <1>1. CASE check /\ str' = [str EXCEPT ![o] = s] /\ raised' = "nothing"
    BY <1>1, StoredOne
  <1>2. CASE ~check /\ raised' = error /\ UNCHANGED str
    <2>1. Len(t) \in Nat /\ Len(t) > Capacity /\ Capacity \in Nat
      BY <1>2, StorageAssumption DEF Capacity
    <2>2. ~(Len(t) <= Capacity)
      BY <2>1
    <2>3. thrown' = "length_error" /\ UNCHANGED text
      BY <2>2 DEF T!Becomes
    <2> QED BY <1>2, <2>3, ThrownBoth
  <1> QED BY <1>1, <1>2 DEF Store

-----------------------------------------------------------------------------
(* What calls read.                                                        *)

\* A view of an object's characters may be appended to any object, and assigned
\* to any: also to the one it is a view of.
LEMMA ViewsReadable ==
  ASSUME ObjInv, NEW o \in Objects, NEW p \in Objects, NEW pos \in Nat, NEW n \in Nat,
         pos + n <= str[p].size
  PROVE  /\ Readable(Pointer(o, p, pos), str[o].data, 0, n)
         /\ Readable(Pointer(o, p, pos), str[o].data, str[o].size, n)
         /\ Given(Pointer(o, p, pos), str[o].data, n) = T!Part(text[p], pos, n)
  <1> DEFINE src == Pointer(o, p, pos)
             data == str[o].data
  <1>1. /\ str[p].size \in Nat /\ text[p] \in Seq(Chars) /\ Len(text[p]) = str[p].size
        /\ str[p].size < N /\ N \in Nat
        /\ \A k \in 1 .. str[p].size : text[p][k] = str[p].data[k - 1]
    BY OneObject
  <1>2. \A i : Pointee(src, data, i) = str[p].data[pos + i]
    <2>1. CASE p = o
      BY <2>1 DEF Pointer, Pointee, Own
    <2>2. CASE p # o
      BY <2>2 DEF Pointer, Pointee, Elsewhere
    <2> QED BY <2>1, <2>2
  <1>3. ASSUME NEW i \in 0 .. n - 1
        PROVE  Pointee(src, data, i) = text[p][pos + i + 1] /\ Pointee(src, data, i) \in Chars
    <2>1. pos + i + 1 \in 1 .. str[p].size /\ pos + i + 1 - 1 = pos + i
      BY <1>1
    <2>2. text[p][pos + i + 1] = str[p].data[pos + i] /\ text[p][pos + i + 1] \in Chars
      BY <1>1, <2>1
    <2> QED BY <1>2, <2>2
  <1>4. src.own => p = o /\ src.at = pos
    <2>1. CASE p = o
      BY <2>1 DEF Pointer, Own
    <2>2. CASE p # o
      BY <2>2 DEF Pointer, Elsewhere
    <2> QED BY <2>1, <2>2
  <1> HIDE DEF src
  <1>5. src.own => /\ src.at \in Nat /\ src.at + n <= N /\ 0 <= src.at
                   /\ src.at + n <= str[o].size
    BY <1>1, <1>4
  <1>6. Readable(src, data, 0, n) /\ Readable(src, data, str[o].size, n)
    BY <1>3, <1>5 DEF Readable
  <1>7. /\ T!Part(text[p], pos, n) \in Seq(Chars) /\ Len(T!Part(text[p], pos, n)) = n
        /\ \A k \in 1 .. n : T!Part(text[p], pos, n)[k] = text[p][pos + k]
    <2>1. \A t \in Seq(Chars) : \A i, c \in Nat : i + c <= Len(t) =>
            /\ T!Part(t, i, c) \in Seq(Chars) /\ Len(T!Part(t, i, c)) = c
            /\ \A k \in 1 .. c : T!Part(t, i, c)[k] = t[i + k]
      BY PartOfText
    <2>2. text[p] \in Seq(Chars) /\ pos + n <= Len(text[p])
      BY <1>1
    <2> QED BY <2>1, <2>2
  <1> DEFINE g == Given(src, data, n)
             t == T!Part(text[p], pos, n)
  <1>8. /\ g \in Seq(Chars) /\ Len(g) = n
        /\ \A k \in 1 .. n : g[k] = Pointee(src, data, k - 1)
    BY <1>6, GivenIsText
  <1>9. ASSUME NEW k \in 1 .. n PROVE g[k] = t[k]
    <2>1. k - 1 \in 0 .. n - 1 /\ pos + (k - 1) + 1 = pos + k
      OBVIOUS
    <2>2. Pointee(src, data, k - 1) = text[p][pos + (k - 1) + 1]
      BY <1>3, <2>1
    <2> QED BY <1>7, <1>8, <2>1, <2>2
  <1> HIDE DEF g, t
  <1>10. g = t
    <2>1. \A u, w \in Seq(Chars) :
            Len(u) = Len(w) /\ (\A k \in 1 .. Len(u) : u[k] = w[k]) => u = w
      BY SameSequence
    <2>2. g \in Seq(Chars) /\ t \in Seq(Chars) /\ Len(g) = Len(t)
          /\ \A k \in 1 .. Len(g) : g[k] = t[k]
      BY <1>7, <1>8, <1>9 DEF t
    <2> QED BY <2>1, <2>2
  <1> QED BY <1>6, <1>10 DEF g, t, src

\* So may a character over and over.
LEMMA FillsReadable ==
  ASSUME NEW n \in Nat, NEW ch \in Chars, NEW data, NEW to
  PROVE  /\ Readable(Fill(n, ch), data, to, n)
         /\ Given(Fill(n, ch), data, n) = T!Repeated(n, ch)
  <1> DEFINE src == Fill(n, ch)
  <1>1. src.own = FALSE /\ src.at = 0 /\ src.chars = [i \in 0 .. n - 1 |-> ch]
    BY DEF Fill, Elsewhere
  <1> HIDE DEF src
  <1>2. \A i \in 0 .. n - 1 : Pointee(src, data, i) = ch
    <2>1. \A i \in 0 .. n - 1 : 0 + i = i
      OBVIOUS
    <2> QED BY <1>1, <2>1 DEF Pointee
  <1>3. Readable(src, data, to, n)
    BY <1>1, <1>2 DEF Readable
  <1>4. \A k \in 1 .. n : k - 1 \in 0 .. n - 1
    OBVIOUS
  <1>5. Given(src, data, n) = [k \in 1 .. n |-> ch]
    BY <1>2, <1>4 DEF Given
  <1> QED BY <1>3, <1>5 DEF src, T!Repeated

-----------------------------------------------------------------------------
(* The calls.                                                              *)

\* Appending.
LEMMA AppendCall ==
  ASSUME ObjInv, NEW o \in Objects, NEW src, NEW n \in Nat,
         Readable(src, str[o].data, str[o].size, n),
         Store(o, AppendRange(str[o], src, n), CheckAppendFits(str[o], n), "length_error"),
         T!Becomes(o, text[o] \o Given(src, str[o].data, n))
  PROVE  ObjInv'
  <1>1. PICK r : r = AppendRange(str[o], src, n)
    OBVIOUS
  <1>2. PICK g : g = Given(src, str[o].data, n)
    OBVIOUS
  <1>3. PICK check : check <=> CheckAppendFits(str[o], n)
    OBVIOUS
  <1>4. PICK t : t = text[o] \o g
    OBVIOUS
  <1>5. g \in Seq(Chars) /\ Len(g) = n
    <2>1. \A d, to : \A c \in Nat : Readable(src, d, to, c) =>
            Given(src, d, c) \in Seq(Chars) /\ Len(Given(src, d, c)) = c
      BY GivenIsText
    <2>2. /\ Given(src, str[o].data, n) \in Seq(Chars)
          /\ Len(Given(src, str[o].data, n)) = n
      BY <2>1
    <2> QED BY <1>2, <2>2
  <1>6. /\ str[o] \in String /\ View(str[o]) = text[o] /\ text[o] \in Seq(Chars)
        /\ Len(text[o]) = str[o].size /\ str[o].size \in Nat /\ Capacity \in Nat
    BY OneObject
  <1>7. t \in Seq(Chars) /\ Len(t) = str[o].size + n
    <2>1. \A u, w \in Seq(Chars) : u \o w \in Seq(Chars) /\ Len(u \o w) = Len(u) + Len(w)
      BY JoinedTexts
    <2> QED BY <1>4, <1>5, <1>6, <2>1
  <1>8. CheckAppendFits(str[o], n) => Terminated(r) /\ View(r) = t
    <2>1. CheckAppendFits(str[o], n) => n <= Capacity - str[o].size
      BY DEF CheckAppendFits
    <2>2. \A s \in String, c \in Nat :
            c <= Capacity - s.size /\ Readable(src, s.data, s.size, c) =>
              /\ Terminated(AppendRange(s, src, c))
              /\ View(AppendRange(s, src, c)) = View(s) \o Given(src, s.data, c)
      BY Appends
    <2> QED BY <1>1, <1>2, <1>4, <1>6, <2>1, <2>2
  <1>9. ~CheckAppendFits(str[o], n) => Len(t) > Capacity
    BY <1>6, <1>7 DEF CheckAppendFits
  <1>10. T!Becomes(o, t)
    BY <1>2, <1>4
  <1>11. Store(o, r, CheckAppendFits(str[o], n), "length_error")
    BY <1>1
  <1> QED BY <1>7, <1>8, <1>9, <1>10, <1>11, Stored

\* Assigning what a string r holds that is made to hold u.
LEMMA AssignCall ==
  ASSUME ObjInv, NEW o \in Objects, NEW r, NEW u \in Seq(Chars),
         Len(u) <= Capacity => Terminated(r) /\ View(r) = u,
         Store(o, r, CheckSizeFits(Len(u)), "length_error"), T!Becomes(o, u)
  PROVE  ObjInv'
  <1>1. ~CheckSizeFits(Len(u)) => Len(u) > Capacity
    BY StorageAssumption DEF CheckSizeFits, Capacity
  <1>2. CheckSizeFits(Len(u)) => Terminated(r) /\ View(r) = u
    BY DEF CheckSizeFits
  <1> QED BY <1>1, <1>2, Stored

\* Building from a view, a C string or a repeated character: what is assigned reads
\* as it was given.
LEMMA AssignedText ==
  ASSUME NEW s \in String, NEW src, NEW n \in Nat, Readable(src, s.data, 0, n)
  PROVE  LET r == AssignRange(s, src, n)
             u == Given(src, s.data, n)
         IN  /\ u \in Seq(Chars) /\ Len(u) = n
             /\ n <= Capacity => Terminated(r) /\ r.size = n /\ View(r) = u
  <1>1. n <= Capacity =>
          LET r == AssignRange(s, src, n)
          IN  Terminated(r) /\ r.size = n /\ View(r) = Given(src, s.data, n)
    BY Assigns
  <1>2. \A d, to : \A c \in Nat : Readable(src, d, to, c) =>
          Given(src, d, c) \in Seq(Chars) /\ Len(Given(src, d, c)) = c
    BY GivenIsText
  <1>3. Given(src, s.data, n) \in Seq(Chars) /\ Len(Given(src, s.data, n)) = n
    BY <1>2
  <1> QED BY <1>1, <1>3

\* append() and assign() of a view, the object's own included.
LEMMA ViewCallsKeep ==
  ASSUME ObjInv, NEW o \in Objects, NEW p \in Objects, ViewCalls(o, p)
  PROVE  ObjInv'
  <1>1. PICK pos \in 0 .. str[p].size :
          \/ \E n \in 0 .. str[p].size - pos :
               \/ AppendView(o, p, pos, n) /\ T!DoAppend(o, p, pos, n)
               \/ AssignView(o, p, pos, n) /\ T!DoAssign(o, p, pos, n)
          \/ /\ AppendView(o, p, pos, CStringLength(str[p], pos))
             /\ T!DoAppendCString(o, p, pos)
          \/ /\ AssignView(o, p, pos, CStringLength(str[p], pos))
             /\ T!DoAssignCString(o, p, pos)
    BY DEF ViewCalls
  <1>2. str[p].size \in Nat /\ str[o] \in String
    BY OneObject
  <1>3. ASSUME NEW n \in 0 .. str[p].size - pos, AppendView(o, p, pos, n),
               T!Becomes(o, text[o] \o T!Part(text[p], pos, n))
        PROVE  ObjInv'
    <2>1. n \in Nat /\ pos \in Nat /\ pos + n <= str[p].size
      BY <1>2
    <2>2. PICK src : src = Pointer(o, p, pos)
      OBVIOUS
    <2>3. /\ Readable(src, str[o].data, str[o].size, n)
          /\ Given(src, str[o].data, n) = T!Part(text[p], pos, n)
      BY <2>1, <2>2, ViewsReadable
    <2>4. T!Becomes(o, text[o] \o Given(src, str[o].data, n))
      BY <1>3, <2>3
    <2>5. Store(o, AppendRange(str[o], src, n), CheckAppendFits(str[o], n), "length_error")
      BY <1>3, <2>2 DEF AppendView
    <2> QED BY <2>1, <2>3, <2>4, <2>5, AppendCall
  <1>4. ASSUME NEW n \in 0 .. str[p].size - pos, AssignView(o, p, pos, n),
               T!Becomes(o, T!Part(text[p], pos, n))
        PROVE  ObjInv'
    <2>1. n \in Nat /\ pos \in Nat /\ pos + n <= str[p].size
      BY <1>2
    <2>2. PICK src : src = Pointer(o, p, pos)
      OBVIOUS
    <2>3. /\ Readable(src, str[o].data, 0, n)
          /\ Given(src, str[o].data, n) = T!Part(text[p], pos, n)
      BY <2>1, <2>2, ViewsReadable
    <2>4. PICK r : r = AssignRange(str[o], src, n)
      OBVIOUS
    <2>5. PICK u : u = Given(src, str[o].data, n)
      OBVIOUS
    <2>6. /\ u \in Seq(Chars) /\ Len(u) = n
          /\ n <= Capacity => Terminated(r) /\ View(r) = u
      BY <1>2, <2>1, <2>3, <2>4, <2>5, AssignedText
    <2>7. T!Becomes(o, u)
      BY <1>4, <2>3, <2>5
    <2>8. Store(o, r, CheckSizeFits(n), "length_error")
      BY <1>4, <2>2, <2>4 DEF AssignView
    <2> QED BY <2>6, <2>7, <2>8, AssignCall
  <1>5. PICK n : n = CStringLength(str[p], pos)
    OBVIOUS
  <1>6. n \in 0 .. str[p].size - pos /\ T!UpToNul(text[p], pos) = T!Part(text[p], pos, n)
    <2>1. Terminated(str[p]) /\ View(str[p]) = text[p]
      BY OneObject
    <2>2. \A s : Terminated(s) => \A i \in 0 .. s.size :
            /\ CStringLength(s, i) \in 0 .. s.size - i
            /\ T!UpToNul(View(s), i) = T!Part(View(s), i, CStringLength(s, i))
      BY FirstNul, UpToNulIsPart
    <2> QED BY <1>5, <2>1, <2>2
  <1>7. CASE \E k \in 0 .. str[p].size - pos :
               \/ AppendView(o, p, pos, k) /\ T!DoAppend(o, p, pos, k)
               \/ AssignView(o, p, pos, k) /\ T!DoAssign(o, p, pos, k)
    BY <1>3, <1>4, <1>7 DEF T!DoAppend, T!DoAssign
  <1>8. CASE AppendView(o, p, pos, n) /\ T!DoAppendCString(o, p, pos)
    BY <1>3, <1>6, <1>8 DEF T!DoAppendCString
  <1>9. CASE AssignView(o, p, pos, n) /\ T!DoAssignCString(o, p, pos)
    BY <1>4, <1>6, <1>9 DEF T!DoAssignCString
  <1> QED BY <1>1, <1>5, <1>7, <1>8, <1>9

\* append() and assign() of a repeated character, push_back() and writing through [].
LEMMA CharCallsKeep ==
  ASSUME ObjInv, NEW o \in Objects, CharCalls(o)
  PROVE  ObjInv'
  <1>1. /\ str[o] \in String /\ Terminated(str[o]) /\ View(str[o]) = text[o]
        /\ text[o] \in Seq(Chars) /\ Len(text[o]) = str[o].size
        /\ str[o].size \in Nat /\ Capacity \in Nat /\ str[o].size <= Capacity
    BY OneObject
  <1>2. \A n \in Sizes : n \in Nat
    BY StorageAssumption DEF Sizes
  <1>3. ASSUME NEW ch \in Chars, PushBack(o, ch), T!DoPushBack(o, ch) PROVE ObjInv'
    <2>1. PICK r : r = PushedBack(str[o], ch)
      OBVIOUS
    <2>2. PICK t : t = Append(text[o], ch)
      OBVIOUS
    <2>3. t \in Seq(Chars) /\ Len(t) = str[o].size + 1
      BY <1>1, <2>2
    <2>4. str[o].size # Capacity => Terminated(r) /\ View(r) = t
      BY <1>1, <2>1, <2>2, PushesBack
    <2>5. ~(str[o].size # Capacity) => Len(t) > Capacity
      BY <1>1, <2>3
    <2>6. Store(o, r, str[o].size # Capacity, "length_error") /\ T!Becomes(o, t)
      BY <1>3, <2>1, <2>2 DEF PushBack, T!DoPushBack
    <2> QED BY <2>3, <2>4, <2>5, <2>6, Stored
  <1>4. ASSUME NEW pos \in Sizes, NEW ch \in Chars, Put(o, pos, ch), T!DoPut(o, pos, ch)
        PROVE  ObjInv'
    <2>1. pos \in Nat
      BY <1>2
    <2>2. CASE pos < str[o].size
      <3>1. PICK r : r = [str[o] EXCEPT !.data[pos] = ch]
        OBVIOUS
      <3>2. PICK t : t = [text[o] EXCEPT ![pos + 1] = ch]
        OBVIOUS
      <3>3. t \in Seq(Chars) /\ Len(t) = str[o].size
            /\ \A k \in 1 .. str[o].size : t[k] = IF k = pos + 1 THEN ch ELSE text[o][k]
        BY <1>1, <2>1, <2>2, <3>2
      <3>4. /\ r \in String /\ r.size = str[o].size
            /\ \A i \in Indexes : r.data[i] = IF i = pos THEN ch ELSE str[o].data[i]
        <4>1. PICK s : s = str[o]
          OBVIOUS
        <4>2. PICK data : data = [s.data EXCEPT ![pos] = ch]
          OBVIOUS
        <4>3. pos \in Indexes
          BY <1>1, <2>1, <2>2, StorageAssumption DEF Indexes, Capacity
        <4>4. s = [data |-> s.data, size |-> s.size] /\ s.data \in [Indexes -> Chars]
              /\ s.size \in 0 .. Capacity
          BY <1>1, <4>1 DEF String
        <4>5. r = [s EXCEPT !.data = data]
          BY <3>1, <4>1, <4>2
        <4>6. r = [data |-> data, size |-> s.size]
          BY <4>4, <4>5
        <4>7. r.data = data /\ r.size = s.size
          BY <4>6
        <4>8. data \in [Indexes -> Chars]
              /\ \A i \in Indexes : data[i] = IF i = pos THEN ch ELSE s.data[i]
          BY <4>2, <4>3, <4>4
        <4>9. r \in String
          BY <4>4, <4>6, <4>8 DEF String
        <4> QED BY <4>1, <4>7, <4>8, <4>9
      <3>5. Terminated(r)
        <4>1. str[o].size \in Indexes /\ str[o].size # pos
          BY <1>1, <2>2, StorageAssumption DEF Indexes, Capacity
        <4> QED BY <1>1, <3>4, <4>1 DEF Terminated
      <3>6. View(r) = t
        <4>1. ASSUME NEW k \in 1 .. r.size PROVE r.data[k - 1] = t[k]
          <5>1. k - 1 \in Indexes /\ (k - 1 = pos <=> k = pos + 1) /\ k \in 1 .. str[o].size
            BY <1>1, <2>1, <3>4, StorageAssumption DEF Indexes, Capacity
          <5>2. text[o][k] = str[o].data[k - 1]
            BY <5>1, OneObject
          <5> QED BY <3>3, <3>4, <5>1, <5>2
        <4> QED BY <3>3, <3>4, <4>1, Reads
      <3>7. str' = [str EXCEPT ![o] = r] /\ raised' = "nothing"
        BY <1>4, <2>2, <3>1 DEF Put, Store
      <3>8. T!Becomes(o, t)
        <4>1. pos + 1 <= Len(text[o]) /\ ~(pos + 1 > Len(text[o]))
          BY <1>1, <2>1, <2>2
        <4> QED BY <1>4, <3>2, <4>1 DEF T!DoPut, T!InRange
      <3> QED BY <3>3, <3>5, <3>6, <3>7, <3>8, StoredOne
    <2>3. CASE ~(pos < str[o].size)
      <3>1. raised' = "out_of_range" /\ UNCHANGED str
        BY <1>4, <2>3 DEF Put, Store
      <3>2. ~(pos + 1 <= Len(text[o]))
        BY <1>1, <2>1, <2>3
      <3>3. thrown' = "out_of_range" /\ UNCHANGED text
        BY <1>4, <3>2 DEF T!DoPut, T!InRange
      <3> QED BY <3>1, <3>3, ThrownBoth
    <2> QED BY <2>2, <2>3
  <1>5. ASSUME NEW n \in Sizes, NEW ch \in Chars,
               AppendRepeated(o, n, ch), T!DoAppendRepeated(o, n, ch)
        PROVE  ObjInv'
    <2>1. PICK src : src = Fill(n, ch)
      OBVIOUS
    <2>2. /\ n \in Nat /\ Readable(src, str[o].data, str[o].size, n)
          /\ Given(src, str[o].data, n) = T!Repeated(n, ch)
      BY <1>2, <2>1, FillsReadable
    <2>3. T!Becomes(o, text[o] \o Given(src, str[o].data, n))
      BY <1>5, <2>2 DEF T!DoAppendRepeated
    <2>4. Store(o, AppendRange(str[o], src, n), CheckAppendFits(str[o], n), "length_error")
      BY <1>5, <2>1 DEF AppendRepeated
    <2> QED BY <2>2, <2>3, <2>4, AppendCall
  <1>6. ASSUME NEW n \in Sizes, NEW ch \in Chars,
               AssignRepeated(o, n, ch), T!DoAssignRepeated(o, n, ch)
        PROVE  ObjInv'
    <2>1. PICK src : src = Fill(n, ch)
      OBVIOUS
    <2>2. /\ n \in Nat /\ Readable(src, str[o].data, 0, n)
          /\ Given(src, str[o].data, n) = T!Repeated(n, ch)
      BY <1>2, <2>1, FillsReadable
    <2>3. PICK r : r = AssignRange(str[o], src, n)
      OBVIOUS
    <2>4. PICK u : u = Given(src, str[o].data, n)
      OBVIOUS
    <2>5. /\ u \in Seq(Chars) /\ Len(u) = n
          /\ n <= Capacity => Terminated(r) /\ View(r) = u
      BY <1>1, <2>2, <2>3, <2>4, AssignedText
    <2>6. T!Becomes(o, u)
      BY <1>6, <2>2, <2>4 DEF T!DoAssignRepeated
    <2>7. Store(o, r, CheckSizeFits(n), "length_error")
      BY <1>6, <2>1, <2>3 DEF AssignRepeated
    <2> QED BY <2>5, <2>6, <2>7, AssignCall
  <1> QED BY <1>3, <1>4, <1>5, <1>6 DEF CharCalls

\* Storing what always fits.
LEMMA FittingCall ==
  ASSUME ObjInv, NEW o \in Objects, NEW r, NEW t \in Seq(Chars),
         Terminated(r), Len(t) = r.size, \A k \in 1 .. r.size : r.data[k - 1] = t[k],
         Store(o, r, TRUE, "nothing"), T!Becomes(o, t)
  PROVE  ObjInv'
  <1>1. View(r) = t
    BY Reads DEF Terminated
  <1>2. str' = [str EXCEPT ![o] = r] /\ raised' = "nothing"
    BY DEF Store
  <1> QED BY <1>1, <1>2, StoredOne

\* The text that resize() makes of one.
LEMMA ResizedText ==
  ASSUME NEW t \in Seq(Chars), NEW n \in Nat, NEW fill \in Chars
  PROVE  LET u == T!Part(t, 0, T!Least(n, Len(t))) \o T!Repeated(n - Len(t), fill)
         IN  /\ u \in Seq(Chars) /\ Len(u) = n
             /\ \A k \in 1 .. n : u[k] = IF k <= Len(t) THEN t[k] ELSE fill
  <1> DEFINE least == T!Least(n, Len(t))
             a == T!Part(t, 0, least)
             b == T!Repeated(n - Len(t), fill)
  <1>1. Len(t) \in Nat
    OBVIOUS
  <1>2. least \in Nat /\ 0 + least <= Len(t)
    BY <1>1 DEF T!Least
  <1>3. a \in Seq(Chars) /\ Len(a) = least /\ \A k \in 1 .. least : a[k] = t[k]
    <2>1. \A k \in 1 .. least : 0 + k = k
      BY <1>2
    <2>2. /\ a \in Seq(Chars) /\ Len(a) = least
          /\ \A k \in 1 .. least : a[k] = t[0 + k]
      <3>1. \A pos, c \in Nat : pos + c <= Len(t) =>
              /\ T!Part(t, pos, c) \in Seq(Chars) /\ Len(T!Part(t, pos, c)) = c
              /\ \A k \in 1 .. c : T!Part(t, pos, c)[k] = t[pos + k]
        BY PartOfText
      <3> HIDE DEF least
      <3>2. 0 \in Nat
        OBVIOUS
      <3> QED BY <1>2, <3>1, <3>2
    <2> QED BY <2>1, <2>2
  <1>4. \A u, w \in Seq(Chars) :
          /\ u \o w \in Seq(Chars) /\ Len(u \o w) = Len(u) + Len(w)
          /\ \A k \in 1 .. Len(u) + Len(w) :
               (u \o w)[k] = IF k <= Len(u) THEN u[k] ELSE w[k - Len(u)]
    BY JoinedTexts
  <1>5. CASE n <= Len(t)
    <2>1. least = n
      BY <1>1, <1>5 DEF T!Least
    <2>2. b = <<>>
      <3>1. 1 .. n - Len(t) = {}
        BY <1>1, <1>5
      <3>2. 1 .. 0 = {}
        OBVIOUS
      <3>3. b = [k \in 1 .. 0 |-> fill]
        BY <3>1, <3>2 DEF T!Repeated
      <3>4. [k \in 1 .. 0 |-> fill] \in Seq(Chars) /\ Len([k \in 1 .. 0 |-> fill]) = 0
        OBVIOUS
      <3>5. \A u \in Seq(Chars) : Len(u) = 0 => u = <<>>
        OBVIOUS
      <3> QED BY <3>3, <3>4, <3>5
    <2>3. a \o b = a
      <3> HIDE DEF a, b
      <3> QED BY <1>3, <2>2
    <2>4. \A k \in 1 .. n : k <= Len(t)
      BY <1>1, <1>5
    <2> QED BY <1>3, <2>1, <2>3, <2>4
  <1>6. CASE ~(n <= Len(t))
    <2>1. least = Len(t) /\ n - Len(t) \in Nat
      BY <1>1, <1>6 DEF T!Least
    <2>2. b \in Seq(Chars) /\ Len(b) = n - Len(t) /\ \A k \in 1 .. n - Len(t) : b[k] = fill
      BY <2>1, RepeatedText
    <2> HIDE DEF a, b, least
    <2>3. /\ a \o b \in Seq(Chars) /\ Len(a \o b) = Len(a) + Len(b)
          /\ \A k \in 1 .. Len(a) + Len(b) :
               (a \o b)[k] = IF k <= Len(a) THEN a[k] ELSE b[k - Len(a)]
      BY <1>3, <1>4, <2>2
    <2>4. PICK len : len = Len(t)
      OBVIOUS
    <2>5. len \in Nat /\ Len(a) = len /\ Len(b) = n - len /\ Len(a) + Len(b) = n /\ ~(n <= len)
      BY <1>1, <1>3, <1>6, <2>1, <2>2, <2>4
    <2>6. ASSUME NEW k \in 1 .. n PROVE (a \o b)[k] = IF k <= len THEN t[k] ELSE fill
      <3>1. (a \o b)[k] = IF k <= len THEN a[k] ELSE b[k - len]
        BY <2>3, <2>5
      <3>2. k <= len => a[k] = t[k]
        BY <1>3, <2>1, <2>4, <2>5
      <3>3. ~(k <= len) => b[k - len] = fill
        <4>1. ~(k <= len) => k - len \in 1 .. n - len
          BY <2>5
        <4> QED BY <2>2, <2>4, <4>1
      <3> QED BY <3>1, <3>2, <3>3
    <2> QED BY <2>3, <2>4, <2>5, <2>6 DEF a, b, least
  <1> QED BY <1>5, <1>6

\* clear(), pop_back(), the constructor that is given a size, and resize().
LEMMA SizeCallsKeep ==
  ASSUME ObjInv, NEW o \in Objects, SizeCalls(o)
  PROVE  ObjInv'
  <1>1. /\ str[o] \in String /\ Terminated(str[o]) /\ View(str[o]) = text[o]
        /\ text[o] \in Seq(Chars) /\ Len(text[o]) = str[o].size
        /\ str[o].size \in Nat /\ Capacity \in Nat /\ str[o].size <= Capacity
        /\ \A k \in 1 .. str[o].size : text[o][k] = str[o].data[k - 1]
    BY OneObject
  <1>2. \A s \in String : \A n \in 0 .. s.size :
          LET r == SetTerminator([s EXCEPT !.size = n])
          IN  Terminated(r) /\ r.size = n /\ \A k \in 1 .. n : r.data[k - 1] = s.data[k - 1]
    BY Shortens
  <1>3. ASSUME Clear(o), T!DoClear(o) PROVE ObjInv'
    <2>1. PICK r : r = Cleared(str[o])
      OBVIOUS
    <2>2. Terminated(r) /\ r.size = 0
      <3>1. 0 \in 0 .. str[o].size /\ r = SetTerminator([str[o] EXCEPT !.size = 0])
        BY <1>1, <2>1 DEF Cleared
      <3> QED BY <1>1, <1>2, <3>1
    <2>3. <<>> \in Seq(Chars) /\ Len(<<>>) = 0 /\ \A k \in 1 .. 0 : r.data[k - 1] = <<>>[k]
      OBVIOUS
    <2>4. Store(o, r, TRUE, "nothing") /\ T!Becomes(o, <<>>)
      BY <1>3, <2>1 DEF Clear, T!DoClear
    <2> QED BY <2>2, <2>3, <2>4, FittingCall
  <1>4. ASSUME PopBack(o), T!DoPopBack(o) PROVE ObjInv'
    <2>1. PICK r : r = PoppedBack(str[o])
      OBVIOUS
    <2>2. PICK n : n = str[o].size - 1
      OBVIOUS
    <2>3. str[o].size # 0 /\ n \in 0 .. str[o].size /\ n \in Nat /\ 0 + n <= Len(text[o])
          /\ n = Len(text[o]) - 1 /\ \A k \in 1 .. n : k \in 1 .. str[o].size
      BY <1>1, <1>4, <2>2 DEF PopBack
    <2>4. r = SetTerminator([str[o] EXCEPT !.size = n])
      BY <2>1, <2>2 DEF PoppedBack
    <2>5. Terminated(r) /\ r.size = n /\ \A k \in 1 .. n : r.data[k - 1] = str[o].data[k - 1]
      BY <1>1, <1>2, <2>3, <2>4
    <2>6. PICK t : t = T!Part(text[o], 0, n)
      OBVIOUS
    <2>7. t \in Seq(Chars) /\ Len(t) = n /\ \A k \in 1 .. n : t[k] = text[o][0 + k]
      <3>1. \A u \in Seq(Chars), pos, c \in Nat :
              pos + c <= Len(u) =>
                /\ T!Part(u, pos, c) \in Seq(Chars) /\ Len(T!Part(u, pos, c)) = c
                /\ \A k \in 1 .. c : T!Part(u, pos, c)[k] = u[pos + k]
        BY PartOfText
      <3>2. 0 \in Nat /\ n \in Nat /\ 0 + n <= Len(text[o]) /\ text[o] \in Seq(Chars)
        BY <1>1, <2>3
      <3>3. /\ T!Part(text[o], 0, n) \in Seq(Chars) /\ Len(T!Part(text[o], 0, n)) = n
            /\ \A k \in 1 .. n : T!Part(text[o], 0, n)[k] = text[o][0 + k]
        BY <3>1, <3>2
      <3> QED BY <2>6, <3>3
    <2>8. \A k \in 1 .. n : r.data[k - 1] = t[k]
      <3>1. \A k \in 1 .. n : 0 + k = k
        BY <2>3
      <3> QED BY <1>1, <2>3, <2>5, <2>7, <3>1
    <2>9. Store(o, r, TRUE, "nothing") /\ T!Becomes(o, t)
      BY <1>4, <2>1, <2>3, <2>6 DEF PopBack, T!DoPopBack
    <2> QED BY <2>5, <2>7, <2>8, <2>9, FittingCall
  <1>5. ASSUME NEW n \in Sizes, Construct(o, n), T!DoConstruct(o, n) PROVE ObjInv'
    <2>1. n \in Nat /\ n \in 0 .. Capacity /\ Nul \in Chars
      BY <1>1, <1>5, StorageAssumption, NulAssumption DEF Construct, Sizes
    <2>2. PICK r : r = [EmptyString EXCEPT !.size = n]
      OBVIOUS
    <2>3. Terminated(r) /\ r.size = n /\ \A k \in 1 .. n : r.data[k - 1] = Nul
      <3>1. /\ Terminated([EmptyString EXCEPT !.size = n])
            /\ [EmptyString EXCEPT !.size = n].size = n
            /\ \A k \in 1 .. n : [EmptyString EXCEPT !.size = n].data[k - 1] = Nul
        BY <2>1, NewString
      <3> QED BY <2>2, <3>1
    <2>4. PICK t : t = T!Repeated(n, Nul)
      OBVIOUS
    <2>5. t \in Seq(Chars) /\ Len(t) = n /\ \A k \in 1 .. n : t[k] = Nul
      BY <2>1, <2>4, RepeatedText
    <2>6. Store(o, r, TRUE, "nothing") /\ T!Becomes(o, t)
      BY <1>5, <2>2, <2>4 DEF Construct, T!DoConstruct
    <2> QED BY <2>3, <2>5, <2>6, FittingCall
  <1>6. ASSUME NEW n \in Sizes, NEW ch \in Chars, Resize(o, n, ch), T!DoResize(o, n, ch)
        PROVE  ObjInv'
    <2>1. n \in Nat
      BY StorageAssumption DEF Sizes
    <2>2. PICK r : r = Resized(str[o], n, ch)
      OBVIOUS
    <2>3. PICK t : t = T!Part(text[o], 0, T!Least(n, Len(text[o])))
                         \o T!Repeated(n - Len(text[o]), ch)
      OBVIOUS
    <2>4. /\ t \in Seq(Chars) /\ Len(t) = n
          /\ \A k \in 1 .. n : t[k] = IF k <= Len(text[o]) THEN text[o][k] ELSE ch
      <3>1. \A x \in Seq(Chars), c \in Nat, fill \in Chars :
              LET u == T!Part(x, 0, T!Least(c, Len(x))) \o T!Repeated(c - Len(x), fill)
              IN  /\ u \in Seq(Chars) /\ Len(u) = c
                  /\ \A k \in 1 .. c : u[k] = IF k <= Len(x) THEN x[k] ELSE fill
        BY ResizedText
      <3>2. PICK x : x = text[o]
        OBVIOUS
      <3>3. x \in Seq(Chars) /\ t = T!Part(x, 0, T!Least(n, Len(x))) \o T!Repeated(n - Len(x), ch)
        BY <1>1, <2>3, <3>2
      <3>4. /\ t \in Seq(Chars) /\ Len(t) = n
            /\ \A k \in 1 .. n : t[k] = IF k <= Len(x) THEN x[k] ELSE ch
        <4>1. \A c \in Nat, fill \in Chars :
                LET u == T!Part(x, 0, T!Least(c, Len(x))) \o T!Repeated(c - Len(x), fill)
                IN  /\ u \in Seq(Chars) /\ Len(u) = c
                    /\ \A k \in 1 .. c : u[k] = IF k <= Len(x) THEN x[k] ELSE fill
          BY ONLY <3>1, <3>3
        <4>2. LET u == T!Part(x, 0, T!Least(n, Len(x))) \o T!Repeated(n - Len(x), ch)
              IN  /\ u \in Seq(Chars) /\ Len(u) = n
                  /\ \A k \in 1 .. n : u[k] = IF k <= Len(x) THEN x[k] ELSE ch
          BY <2>1, <4>1
        <4> QED BY <3>3, <4>2
      <3> QED BY <3>2, <3>4
    <2>5. CheckSizeFits(n) => Terminated(r) /\ View(r) = t
      <3> SUFFICES ASSUME n <= Capacity PROVE Terminated(r) /\ View(r) = t
        BY DEF CheckSizeFits
      <3>1. n \in 0 .. Capacity
        BY <2>1
      <3>2. /\ Terminated(r) /\ r.size = n
            /\ \A k \in 1 .. n : r.data[k - 1] = IF k <= str[o].size THEN str[o].data[k - 1] ELSE ch
        BY <1>1, <2>2, <3>1, Resizes
      <3>3. ASSUME NEW k \in 1 .. n PROVE r.data[k - 1] = t[k]
        <4>1. k <= str[o].size => k \in 1 .. str[o].size
          BY <1>1, <2>1
        <4> QED BY <1>1, <2>4, <3>2, <4>1
      <3>4. r \in String
        BY <3>2 DEF Terminated
      <3> QED BY <2>4, <3>2, <3>3, <3>4, Reads
    <2>6. Len(t) = n /\ (CheckSizeFits(Len(t)) <=> CheckSizeFits(n))
      BY <2>4
    <2>7. Store(o, r, CheckSizeFits(Len(t)), "length_error") /\ T!Becomes(o, t)
      BY <1>6, <2>2, <2>3, <2>6 DEF Resize, T!DoResize
    <2>8. Len(t) <= Capacity => Terminated(r) /\ View(r) = t
      BY <2>5, <2>6 DEF CheckSizeFits
    <2> QED BY <2>4, <2>7, <2>8, AssignCall
  <1> QED BY <1>3, <1>4, <1>5, <1>6 DEF SizeCalls

\* Two objects are stored, or one that is both.
LEMMA StoredTwo ==
  ASSUME ObjInv, NEW o \in Objects, NEW p \in Objects, NEW s, NEW u, NEW t, NEW w,
         Terminated(s), View(s) = t, Terminated(u), View(u) = w,
         str' = [str EXCEPT ![o] = s, ![p] = u],
         text' = [text EXCEPT ![o] = t, ![p] = w], raised' = thrown'
  PROVE  ObjInv'
  <1>1. t \in Seq(Chars) /\ w \in Seq(Chars)
    BY ViewIsText DEF Terminated
  <1>2. str \in [Objects -> String] /\ text \in [Objects -> Seq(Chars)]
    BY DEF ObjInv, StringsTerminated
  <1>3. str' \in [Objects -> String] /\ text' \in [Objects -> Seq(Chars)]
    BY <1>1, <1>2 DEF Terminated
  <1>4. ASSUME NEW q \in Objects
        PROVE  str'[q].data[str'[q].size] = Nul /\ View(str'[q]) = text'[q]
    <2>1. CASE q = p
      <3>1. str'[q] = u /\ text'[q] = w
        BY <1>2, <2>1
      <3> QED BY <3>1 DEF Terminated
    <2>2. CASE q = o /\ q # p
      <3>1. str'[q] = s /\ text'[q] = t
        BY <1>2, <2>2
      <3> QED BY <3>1 DEF Terminated
    <2>3. CASE q # o /\ q # p
      <3>1. str'[q] = str[q] /\ text'[q] = text[q]
        BY <1>2, <2>3
      <3> QED BY <3>1 DEF ObjInv, StringsTerminated, ReadsAsText
    <2> QED BY <2>1, <2>2, <2>3
  <1> QED BY <1>3, <1>4 DEF ObjInv, StringsTerminated, ReadsAsText

\* Characters of another string may be copied anywhere.
LEMMA OthersReadable ==
  ASSUME NEW q \in String, NEW pos \in Nat, NEW n \in Nat, pos + n <= q.size,
         NEW data, NEW to
  PROVE  /\ Readable(Elsewhere(q.data, pos), data, to, n)
         /\ \A i : Pointee(Elsewhere(q.data, pos), data, i) = q.data[pos + i]
         /\ Given(Elsewhere(q.data, pos), data, n) = T!Part(View(q), pos, n)
  <1> DEFINE src == Elsewhere(q.data, pos)
  <1>1. src.own = FALSE /\ src.at = pos /\ src.chars = q.data
    BY DEF Elsewhere
  <1> HIDE DEF src
  <1>2. \A i : Pointee(src, data, i) = q.data[pos + i]
    BY <1>1 DEF Pointee
  <1>3. PICK t : t = View(q)
    OBVIOUS
  <1>4. t \in Seq(Chars) /\ Len(t) = q.size /\ q.size \in Nat
        /\ \A k \in 1 .. q.size : t[k] = q.data[k - 1]
    BY <1>3, ViewIsText
  <1>5. ASSUME NEW k \in 1 .. n
        PROVE  q.data[pos + (k - 1)] = t[pos + k] /\ t[pos + k] \in Chars
    <2>1. pos + k \in 1 .. q.size /\ pos + k - 1 = pos + (k - 1)
      BY <1>4
    <2> QED BY <1>4, <2>1
  <1>6. Readable(src, data, to, n)
    <2>1. ASSUME NEW i \in 0 .. n - 1 PROVE Pointee(src, data, i) \in Chars
      <3>1. i + 1 \in 1 .. n /\ (i + 1) - 1 = i
        OBVIOUS
      <3>2. q.data[pos + ((i + 1) - 1)] \in Chars
        BY <1>5, <3>1
      <3> QED BY <1>2, <3>1, <3>2
    <2> QED BY <1>1, <2>1 DEF Readable
  <1>7. /\ T!Part(t, pos, n) \in Seq(Chars) /\ Len(T!Part(t, pos, n)) = n
        /\ \A k \in 1 .. n : T!Part(t, pos, n)[k] = t[pos + k]
    BY <1>4, PartOfText
  <1>8. Given(src, data, n) = [k \in 1 .. n |-> t[pos + k]]
    BY <1>2, <1>5 DEF Given
  <1>9. PICK u : u = T!Part(t, pos, n)
    OBVIOUS
  <1>10. u = [k \in 1 .. n |-> t[pos + k]]
    <2>1. u \in Seq(Chars) /\ Len(u) = n /\ \A k \in 1 .. n : u[k] = t[pos + k]
      BY <1>7, <1>9
    <2>2. u = [k \in 1 .. n |-> u[k]]
      BY <2>1
    <2> QED BY <2>1, <2>2
  <1> QED BY <1>2, <1>3, <1>6, <1>8, <1>9, <1>10 DEF src

\* What is assigned from characters of another string reads as that part of it.
LEMMA PartAssigned ==
  ASSUME NEW s \in String, NEW q \in String, NEW pos \in Nat, NEW n \in Nat, pos + n <= q.size
  PROVE  LET r == AssignRange(s, Elsewhere(q.data, pos), n)
         IN  Terminated(r) /\ r.size = n /\ View(r) = T!Part(View(q), pos, n)
  <1>1. PICK src : src = Elsewhere(q.data, pos)
    OBVIOUS
  <1>2. \A data, to : Readable(src, data, to, n)
                      /\ Given(src, data, n) = T!Part(View(q), pos, n)
    BY <1>1, OthersReadable
  <1>3. n <= Capacity
    <2>1. q.size \in Nat /\ q.size <= Capacity /\ Capacity \in Nat
      BY Parts
    <2> QED BY <2>1
  <1>4. Readable(src, s.data, 0, n)
    BY <1>2
  <1>5. PICK r : r = AssignRange(s, src, n)
    OBVIOUS
  <1>6. n <= Capacity => Terminated(r) /\ r.size = n /\ View(r) = Given(src, s.data, n)
    BY <1>4, <1>5, AssignedText
  <1>7. Given(src, s.data, n) = T!Part(View(q), pos, n)
    BY <1>2
  <1> QED BY <1>1, <1>3, <1>5, <1>6, <1>7

\* The part of a text that is all of it.
LEMMA WholePart == ASSUME NEW t \in Seq(Chars) PROVE T!Part(t, 0, Len(t)) = t
  <1>1. PICK n : n = Len(t)
    OBVIOUS
  <1>2. n \in Nat /\ 0 + n <= Len(t)
    BY <1>1
  <1>3. PICK u : u = T!Part(t, 0, n)
    OBVIOUS
  <1>4. u \in Seq(Chars) /\ Len(u) = n /\ \A k \in 1 .. n : u[k] = t[0 + k]
    BY <1>2, <1>3, PartOfText
  <1>5. \A k \in 1 .. Len(u) : u[k] = t[k]
    <2>1. \A k \in 1 .. n : 0 + k = k
      BY <1>2
    <2> QED BY <1>4, <2>1
  <1>6. Len(u) = Len(t)
    BY <1>1, <1>4
  <1>7. \A x, y \in Seq(Chars) :
          Len(x) = Len(y) /\ (\A k \in 1 .. Len(x) : x[k] = y[k]) => x = y
    BY SameSequence
  <1> QED BY <1>1, <1>3, <1>4, <1>5, <1>6, <1>7

\* What an object takes over from another.
LEMMA TakesAll ==
  ASSUME ObjInv, NEW s \in String, NEW p \in Objects
  PROVE  Terminated(Taken(s, p)) /\ View(Taken(s, p)) = text[p]
  <1>1. PICK q : q = str[p]
    OBVIOUS
  <1>2. q \in String /\ q.size \in Nat /\ View(q) = text[p] /\ text[p] \in Seq(Chars)
        /\ Len(text[p]) = q.size
    BY <1>1, OneObject
  <1>3. Taken(s, p) = AssignRange(s, Elsewhere(q.data, 0), q.size)
    BY <1>1 DEF Taken
  <1>4. \A pos \in Nat, n \in Nat : pos + n <= q.size =>
          LET r == AssignRange(s, Elsewhere(q.data, pos), n)
          IN  Terminated(r) /\ r.size = n /\ View(r) = T!Part(View(q), pos, n)
    BY <1>2, PartAssigned
  <1>5. 0 \in Nat /\ 0 + q.size <= q.size
    BY <1>2
  <1>6. LET r == AssignRange(s, Elsewhere(q.data, 0), q.size)
        IN  Terminated(r) /\ r.size = q.size /\ View(r) = T!Part(View(q), 0, q.size)
    BY <1>2, <1>4, <1>5
  <1>7. T!Part(text[p], 0, q.size) = text[p]
    BY <1>2, WholePart
  <1> QED BY <1>2, <1>3, <1>6, <1>7

\* Copying and moving objects.
LEMMA CopiesAndMovesKeep ==
  ASSUME ObjInv, NEW o \in Objects, NEW p \in Objects,
         \/ CopyConstruct(o, p) /\ T!DoCopy(o, p)
         \/ MoveConstruct(o, p) /\ T!DoMove(o, p)
         \/ MoveAssign(o, p) /\ T!DoMove(o, p)
  PROVE  ObjInv'
  <1>1. /\ EmptyString \in String /\ str[o] \in String /\ str[p] \in String
        /\ text[p] \in Seq(Chars)
    BY OneObject, NewString DEF Terminated
  <1>2. ASSUME NEW s \in String, o # p, MovedFrom(o, Taken(s, p), p), T!DoMove(o, p)
        PROVE  ObjInv'
    <2>1. Terminated(Taken(s, p)) /\ View(Taken(s, p)) = text[p]
      BY TakesAll
    <2>2. Terminated(Cleared(str[p])) /\ View(Cleared(str[p])) = <<>>
      <3>1. PICK r : r = Cleared(str[p])
        OBVIOUS
      <3>2. 0 \in 0 .. str[p].size /\ r = SetTerminator([str[p] EXCEPT !.size = 0])
        BY <3>1, OneObject DEF Cleared
      <3>3. Terminated(r) /\ r.size = 0
        <4>1. \A s1 \in String : \A n \in 0 .. s1.size :
                LET c == SetTerminator([s1 EXCEPT !.size = n])
                IN  Terminated(c) /\ c.size = n
          BY Shortens
        <4> QED BY <1>1, <3>2, <4>1
      <3>4. <<>> \in Seq(Chars) /\ Len(<<>>) = 0 /\ \A k \in 1 .. 0 : r.data[k - 1] = <<>>[k]
        OBVIOUS
      <3>5. View(r) = <<>>
        BY <3>3, <3>4, Reads DEF Terminated
      <3> QED BY <3>1, <3>3, <3>5
    <2>3. str' = [str EXCEPT ![o] = Taken(s, p), ![p] = Cleared(str[p])]
          /\ raised' = "nothing"
      BY <1>2 DEF MovedFrom
    <2>4. text' = [text EXCEPT ![o] = text[p], ![p] = <<>>] /\ thrown' = "nothing"
      BY <1>2 DEF T!DoMove
    <2>5. PICK x : x = Taken(s, p)
      OBVIOUS
    <2>6. PICK y : y = Cleared(str[p])
      OBVIOUS
    <2> QED BY <2>1, <2>2, <2>3, <2>4, <2>5, <2>6, StoredTwo
  <1>3. CASE CopyConstruct(o, p) /\ T!DoCopy(o, p)
    <2>1. PICK r : r = Taken(EmptyString, p)
      OBVIOUS
    <2>2. Terminated(r) /\ View(r) = text[p]
      BY <1>1, <2>1, TakesAll
    <2>3. str' = [str EXCEPT ![o] = r] /\ raised' = "nothing" /\ T!Becomes(o, text[p])
      BY <1>3, <2>1 DEF CopyConstruct, Store, T!DoCopy
    <2> QED BY <1>1, <2>2, <2>3, StoredOne
  <1>4. CASE MoveConstruct(o, p) /\ T!DoMove(o, p)
    BY <1>1, <1>2, <1>4 DEF MoveConstruct
  <1>5. CASE MoveAssign(o, p) /\ T!DoMove(o, p)
    <2>1. CASE o # p
      BY <1>1, <1>2, <1>5, <2>1 DEF MoveAssign
    <2>2. CASE o = p
      <3>1. raised' = "nothing" /\ thrown' = "nothing" /\ UNCHANGED <<str, text>>
        BY <1>5, <2>2 DEF MoveAssign, T!DoMove
      <3> QED BY <3>1, ThrownBoth
    <2> QED BY <2>1, <2>2
  <1> QED BY <1>3, <1>4, <1>5

\* swap(), of an object with itself too.
LEMMA SwapsKeep ==
  ASSUME ObjInv, NEW o \in Objects, NEW p \in Objects, Swap(o, p), T!DoSwap(o, p)
  PROVE  ObjInv'
  <1>1. ASSUME NEW s \in String, NEW t, Terminated(t)
        PROVE  Terminated(Swapped(s, t)) /\ View(Swapped(s, t)) = View(t)
    <2> DEFINE data == [i \in Indexes |-> IF i <= SwapLimit(s, t) THEN t.data[i] ELSE s.data[i]]
    <2>1. PICK r : r = Swapped(s, t)
      OBVIOUS
    <2>2. /\ t \in String /\ s.data \in [Indexes -> Chars] /\ t.data \in [Indexes -> Chars]
          /\ s.size \in Nat /\ t.size \in Nat /\ t.size \in Indexes /\ N \in Nat
          /\ t.size <= N - 1 /\ t.size \in 0 .. Capacity
      BY <1>1, Parts DEF Terminated, String
    <2>3. data \in [Indexes -> Chars]
      BY <2>2
    <2>4. \A i \in Indexes : i <= t.size => data[i] = t.data[i]
      <3>1. \A i \in Indexes : i <= t.size => i <= SwapLimit(s, t)
        BY <2>2 DEF SwapLimit, Indexes
      <3> QED BY <3>1
    <2>5. r = [data |-> data, size |-> t.size]
      BY <2>1 DEF Swapped
    <2> HIDE DEF data
    <2>6. r.data = data /\ r.size = t.size /\ r \in String
      BY <2>2, <2>3, <2>5 DEF String
    <2>7. Terminated(r)
      BY <1>1, <2>2, <2>4, <2>6 DEF Terminated
    <2>8. View(t) \in Seq(Chars) /\ Len(View(t)) = t.size
          /\ \A k \in 1 .. t.size : View(t)[k] = t.data[k - 1]
      BY <2>2, ViewIsText
    <2>9. ASSUME NEW k \in 1 .. r.size PROVE r.data[k - 1] = View(t)[k]
      <3>1. k - 1 \in Indexes /\ k - 1 <= t.size /\ k \in 1 .. t.size
        BY <2>2, <2>6 DEF Indexes
      <3> QED BY <2>4, <2>6, <2>8, <3>1
    <2>10. PICK v : v = View(t)
      OBVIOUS
    <2>11. View(r) = v
      BY <2>6, <2>8, <2>9, <2>10, Reads
    <2> QED BY <2>1, <2>7, <2>10, <2>11
  <1>2. /\ Terminated(str[o]) /\ Terminated(str[p]) /\ str[o] \in String /\ str[p] \in String
        /\ View(str[o]) = text[o] /\ View(str[p]) = text[p]
    BY OneObject
  <1>3. PICK x : x = Swapped(str[o], str[p])
    OBVIOUS
  <1>4. PICK y : y = Swapped(str[p], str[o])
    OBVIOUS
  <1>5. Terminated(x) /\ View(x) = text[p] /\ Terminated(y) /\ View(y) = text[o]
    BY <1>1, <1>2, <1>3, <1>4
  <1>6. /\ str' = [str EXCEPT ![o] = x, ![p] = y] /\ raised' = thrown'
        /\ text' = [text EXCEPT ![o] = text[p], ![p] = text[o]]
    BY <1>3, <1>4 DEF Swap, T!DoSwap
  <1> QED BY <1>5, <1>6, StoredTwo

\* How many characters a call takes of those that follow a position.
LEMMA Clamped ==
  ASSUME ObjInv, NEW p \in Objects, NEW pos \in Nat, NEW count \in Nat, pos <= str[p].size
  PROVE  LET n == ClampCount(str[p], pos, count)
         IN  n \in Nat /\ pos + n <= str[p].size /\ n = T!Least(count, Len(text[p]) - pos)
  <1>1. str[p].size \in Nat /\ Len(text[p]) = str[p].size
    BY OneObject
  <1>2. PICK size : size = str[p].size
    OBVIOUS
  <1>3. PICK n : n = IF count < size - pos THEN count ELSE size - pos
    OBVIOUS
  <1>4. ClampCount(str[p], pos, count) = n /\ T!Least(count, Len(text[p]) - pos) = n
    BY <1>1, <1>2, <1>3 DEF ClampCount, T!Least
  <1>5. n \in Nat /\ pos + n <= size
    BY <1>1, <1>2, <1>3
  <1> QED BY <1>2, <1>4, <1>5

\* substr(), of the object itself too.
LEMMA SubstrKeeps ==
  ASSUME ObjInv, NEW o \in Objects, NEW p \in Objects, NEW pos \in Nat, NEW count \in Nat,
         Substr(o, p, pos, count), T!DoSubstr(o, p, pos, count)
  PROVE  ObjInv'
  <1>1. PICK q : q = str[p]
    OBVIOUS
  <1>2. /\ q \in String /\ q.size \in Nat /\ View(q) = text[p] /\ text[p] \in Seq(Chars)
        /\ Len(text[p]) = q.size /\ str[o] \in String /\ EmptyString \in String
    BY <1>1, OneObject, NewString DEF Terminated
  <1>3. CASE pos > q.size
    <2>1. raised' = "out_of_range" /\ UNCHANGED str
      BY <1>1, <1>3 DEF Substr
    <2>2. ~(pos <= Len(text[p]))
      BY <1>2, <1>3
    <2>3. thrown' = "out_of_range" /\ UNCHANGED text
      BY <2>2 DEF T!DoSubstr, T!InRange
    <2> QED BY <2>1, <2>3, ThrownBoth
  <1>4. CASE ~(pos > q.size)
    <2>1. PICK n : n = ClampCount(q, pos, count)
      OBVIOUS
    <2>2. n \in Nat /\ pos + n <= q.size /\ n = T!Least(count, Len(text[p]) - pos)
      <3>1. pos <= str[p].size
        BY <1>1, <1>2, <1>4
      <3>2. LET c == ClampCount(str[p], pos, count)
            IN  c \in Nat /\ pos + c <= str[p].size /\ c = T!Least(count, Len(text[p]) - pos)
        BY <3>1, Clamped
      <3> QED BY <1>1, <2>1, <3>2
    <2>3. PICK found : found = AssignRange(EmptyString, Elsewhere(q.data, pos), n)
      OBVIOUS
    <2>4. PICK t : t = T!Part(text[p], pos, n)
      OBVIOUS
    <2>5. Terminated(found) /\ found.size = n /\ View(found) = t
      BY <1>2, <2>2, <2>3, <2>4, PartAssigned
    <2>6. PICK r : r = AssignRange(str[o], Elsewhere(found.data, 0), found.size)
      OBVIOUS
    <2>7. t \in Seq(Chars) /\ Len(t) = n
      <3>1. \A u \in Seq(Chars), i, c \in Nat : i + c <= Len(u) =>
              T!Part(u, i, c) \in Seq(Chars) /\ Len(T!Part(u, i, c)) = c
        BY PartOfText
      <3>2. pos + n <= Len(text[p]) /\ text[p] \in Seq(Chars)
        BY <1>2, <2>2
      <3>3. T!Part(text[p], pos, n) \in Seq(Chars) /\ Len(T!Part(text[p], pos, n)) = n
        BY <2>2, <3>1, <3>2
      <3> QED BY <2>4, <3>3
    <2>8. Terminated(r) /\ View(r) = t
      <3>1. \A s, x \in String : \A from, c \in Nat : from + c <= x.size =>
              LET a == AssignRange(s, Elsewhere(x.data, from), c)
              IN  Terminated(a) /\ View(a) = T!Part(View(x), from, c)
        BY PartAssigned
      <3>2. 0 \in Nat /\ found.size \in Nat /\ 0 + found.size <= found.size /\ found \in String
        BY <2>2, <2>5 DEF Terminated
      <3>3. LET a == AssignRange(str[o], Elsewhere(found.data, 0), found.size)
            IN  Terminated(a) /\ View(a) = T!Part(View(found), 0, found.size)
        BY <1>2, <3>1, <3>2
      <3>4. T!Part(t, 0, n) = t
        BY <2>7, WholePart
      <3> QED BY <2>5, <2>6, <3>3, <3>4
    <2>9. str' = [str EXCEPT ![o] = r] /\ raised' = "nothing"
      BY <1>1, <1>4, <2>1, <2>3, <2>6 DEF Substr, Store
    <2>10. T!Becomes(o, t)
      <3>1. ~(pos > Len(text[p]))
        BY <1>2, <1>4
      <3> QED BY <2>2, <2>4, <3>1 DEF T!DoSubstr, T!InRange
    <2> QED BY <2>7, <2>8, <2>9, <2>10, StoredOne
  <1> QED BY <1>3, <1>4

\* A text with some of its characters written over.
LEMMA OverwrittenText ==
  ASSUME NEW t \in Seq(Chars), NEW w \in Seq(Chars), NEW at \in Nat, at + Len(w) <= Len(t)
  PROVE  LET n == Len(w)
             u == T!Part(t, 0, at) \o w \o T!Part(t, at + n, Len(t) - at - n)
         IN  /\ u \in Seq(Chars) /\ Len(u) = Len(t)
             /\ \A k \in 1 .. Len(t) :
                  u[k] = IF at < k /\ k <= at + n THEN w[k - at] ELSE t[k]
  <1>1. PICK n : n = Len(w)
    OBVIOUS
  <1>2. PICK m : m = Len(t) - at - n
    OBVIOUS
  <1>3. PICK i : i = at + n
    OBVIOUS
  <1>4. PICK size : size = Len(t)
    OBVIOUS
  <1>5. n \in Nat /\ m \in Nat /\ i \in Nat /\ size \in Nat /\ i = at + n /\ size = i + m
    BY <1>1, <1>2, <1>3, <1>4
  <1>6. \A pos, c \in Nat : pos + c <= Len(t) =>
          /\ T!Part(t, pos, c) \in Seq(Chars) /\ Len(T!Part(t, pos, c)) = c
          /\ \A k \in 1 .. c : T!Part(t, pos, c)[k] = t[pos + k]
    BY PartOfText
  <1>7. PICK a : a = T!Part(t, 0, at)
    OBVIOUS
  <1>8. PICK b : b = T!Part(t, i, m)
    OBVIOUS
  <1>9. a \in Seq(Chars) /\ Len(a) = at /\ \A k \in 1 .. at : a[k] = t[k]
    <2>1. 0 \in Nat /\ 0 + at <= Len(t) /\ \A k \in 1 .. at : 0 + k = k
      BY <1>4, <1>5
    <2>2. /\ T!Part(t, 0, at) \in Seq(Chars) /\ Len(T!Part(t, 0, at)) = at
          /\ \A k \in 1 .. at : T!Part(t, 0, at)[k] = t[0 + k]
      BY <1>6, <2>1
    <2> QED BY <1>7, <2>1, <2>2
  <1>10. b \in Seq(Chars) /\ Len(b) = m /\ \A k \in 1 .. m : b[k] = t[i + k]
    <2>1. i + m <= Len(t)
      BY <1>4, <1>5
    <2> QED BY <1>5, <1>6, <1>8, <2>1
  <1>11. \A x, y \in Seq(Chars) :
           /\ x \o y \in Seq(Chars) /\ Len(x \o y) = Len(x) + Len(y)
           /\ \A k \in 1 .. Len(x) + Len(y) :
                (x \o y)[k] = IF k <= Len(x) THEN x[k] ELSE y[k - Len(x)]
    BY JoinedTexts
  <1>12. PICK aw : aw = a \o w
    OBVIOUS
  <1>13. /\ aw \in Seq(Chars) /\ Len(aw) = i
         /\ \A k \in 1 .. i : aw[k] = IF k <= at THEN a[k] ELSE w[k - at]
    <2>1. /\ a \o w \in Seq(Chars) /\ Len(a \o w) = Len(a) + Len(w)
          /\ \A k \in 1 .. Len(a) + Len(w) :
               (a \o w)[k] = IF k <= Len(a) THEN a[k] ELSE w[k - Len(a)]
      BY <1>9, <1>11
    <2>2. Len(a) = at /\ Len(a) + Len(w) = i
      BY <1>1, <1>5, <1>9
    <2> QED BY <1>12, <2>1, <2>2
  <1>14. PICK u : u = aw \o b
    OBVIOUS
  <1>15. /\ u \in Seq(Chars) /\ Len(u) = size
         /\ \A k \in 1 .. size : u[k] = IF k <= i THEN aw[k] ELSE b[k - i]
    <2>1. /\ aw \o b \in Seq(Chars) /\ Len(aw \o b) = Len(aw) + Len(b)
          /\ \A k \in 1 .. Len(aw) + Len(b) :
               (aw \o b)[k] = IF k <= Len(aw) THEN aw[k] ELSE b[k - Len(aw)]
      BY <1>10, <1>11, <1>13
    <2>2. Len(aw) = i /\ Len(aw) + Len(b) = size
      BY <1>5, <1>10, <1>13
    <2> QED BY <1>14, <2>1, <2>2
  <1>16. ASSUME NEW k \in 1 .. size
         PROVE  u[k] = IF at < k /\ k <= at + n THEN w[k - at] ELSE t[k]
    <2>1. CASE k <= at
      <3>1. k \in 1 .. at /\ k <= i /\ k \in 1 .. i /\ ~(at < k)
        BY <1>5, <2>1
      <3> QED BY <1>9, <1>13, <1>15, <2>1, <3>1
    <2>2. CASE at < k /\ k <= i
      <3>1. k \in 1 .. i /\ ~(k <= at)
        BY <1>5, <2>2
      <3> QED BY <1>5, <1>13, <1>15, <2>2, <3>1
    <2>3. CASE i < k
      <3>1. PICK j : j = k - i
        OBVIOUS
      <3>2. j \in 1 .. m /\ k = i + j /\ ~(k <= i) /\ ~(k <= at + n)
        BY <1>5, <2>3, <3>1
      <3>3. u[k] = b[j] /\ b[j] = t[i + j]
        BY <1>10, <1>15, <3>1, <3>2
      <3> QED BY <3>2, <3>3
    <2> QED BY <1>5, <2>1, <2>2, <2>3
  <1>17. u = T!Part(t, 0, at) \o w \o T!Part(t, at + Len(w), Len(t) - at - Len(w))
    BY <1>1, <1>2, <1>3, <1>7, <1>8, <1>12, <1>14
  <1> QED BY <1>1, <1>4, <1>15, <1>16, <1>17

\* copy() onto the characters of another object.
LEMMA CopyOutKeeps ==
  ASSUME ObjInv, NEW o \in Objects, NEW p \in Objects,
         NEW at \in Nat, NEW pos \in Nat, NEW count \in Nat,
         CopyOut(o, at, p, pos, count), T!DoCopyOut(o, at, p, pos, count)
  PROVE  ObjInv'
  <1>1. PICK q : q = str[p]
    OBVIOUS
  <1>2. PICK s : s = str[o]
    OBVIOUS
  <1>3. /\ q \in String /\ q.size \in Nat /\ View(q) = text[p] /\ text[p] \in Seq(Chars)
        /\ Len(text[p]) = q.size
        /\ Terminated(s) /\ s \in String /\ s.size \in Nat /\ text[o] \in Seq(Chars)
        /\ Len(text[o]) = s.size /\ s.size <= Capacity /\ N = Capacity + 1 /\ Capacity \in Nat
        /\ \A k \in 1 .. s.size : text[o][k] = s.data[k - 1]
    BY <1>1, <1>2, OneObject
  <1>4. CASE pos > q.size
    <2>1. raised' = "out_of_range" /\ UNCHANGED str
      BY <1>1, <1>4 DEF CopyOut
    <2>2. ~(pos <= Len(text[p]))
      BY <1>3, <1>4
    <2>3. thrown' = "out_of_range" /\ UNCHANGED text
      BY <2>2 DEF T!DoCopyOut, T!InRange
    <2> QED BY <2>1, <2>3, ThrownBoth
  <1>5. CASE ~(pos > q.size)
    <2>1. PICK n : n = ClampCount(q, pos, count)
      OBVIOUS
    <2>2. n \in Nat /\ pos + n <= q.size /\ n = T!Least(count, Len(text[p]) - pos)
      <3>1. pos <= str[p].size
        BY <1>1, <1>3, <1>5
      <3>2. LET c == ClampCount(str[p], pos, count)
            IN  c \in Nat /\ pos + c <= str[p].size /\ c = T!Least(count, Len(text[p]) - pos)
        BY <3>1, Clamped
      <3> QED BY <1>1, <2>1, <3>2
    <2>3. PICK src : src = Elsewhere(q.data, pos)
      OBVIOUS
    <2>others. \A d, to : /\ Readable(Elsewhere(q.data, pos), d, to, n)
                      /\ \A i : Pointee(Elsewhere(q.data, pos), d, i) = q.data[pos + i]
                      /\ Given(Elsewhere(q.data, pos), d, n) = T!Part(View(q), pos, n)
      <3>1. \A x \in String : \A from, c \in Nat : from + c <= x.size => \A d, to :
              /\ Readable(Elsewhere(x.data, from), d, to, c)
              /\ \A i : Pointee(Elsewhere(x.data, from), d, i) = x.data[from + i]
              /\ Given(Elsewhere(x.data, from), d, c) = T!Part(View(x), from, c)
        BY OthersReadable
      <3>2. q \in String /\ n \in Nat /\ pos + n <= q.size
        BY <1>3, <2>2
      <3>3. \A from, c \in Nat : from + c <= q.size => \A d, to :
              /\ Readable(Elsewhere(q.data, from), d, to, c)
              /\ \A i : Pointee(Elsewhere(q.data, from), d, i) = q.data[from + i]
              /\ Given(Elsewhere(q.data, from), d, c) = T!Part(View(q), from, c)
        BY ONLY <3>1, <3>2
      <3> QED BY <3>2, <3>3
    <2>4. PICK data : data = CopyLoop(s.data, at, src, n)
      OBVIOUS
    <2>5. PICK r : r = [s EXCEPT !.data = data]
      OBVIOUS
    <2>6. at + n <= s.size /\ str' = [str EXCEPT ![o] = r] /\ raised' = "nothing"
      BY <1>1, <1>2, <1>5, <2>1, <2>3, <2>4, <2>5 DEF CopyOut, Store
    <2>7. PICK w : w = T!Part(text[p], pos, n)
      OBVIOUS
    <2>8. w \in Seq(Chars) /\ Len(w) = n /\ \A k \in 1 .. n : w[k] = q.data[pos + (k - 1)]
      <3>1. w \in Seq(Chars) /\ Len(w) = n
        BY <1>3, <2>2, <2>7, PartOfText
      <3>2. \A d, to : /\ \A i : Pointee(src, d, i) = q.data[pos + i]
                       /\ Given(src, d, n) = w
        <4>1. \A d, to : /\ \A i : Pointee(Elsewhere(q.data, pos), d, i) = q.data[pos + i]
                         /\ Given(Elsewhere(q.data, pos), d, n) = T!Part(View(q), pos, n)
          BY <2>others
        <4> QED BY <1>3, <2>3, <2>7, <4>1
      <3>3. w = [k \in 1 .. n |-> Pointee(src, s.data, k - 1)]
        BY <3>2 DEF Given
      <3> QED BY <3>1, <3>2, <3>3
    <2>9. /\ data \in [Indexes -> Chars]
          /\ \A i \in Indexes : data[i] = IF at <= i /\ i < at + n THEN w[i - at + 1] ELSE s.data[i]
      <3>1. s.data \in [Indexes -> Chars] /\ at + n <= N
        <4>1. s.size \in Nat /\ s.size <= Capacity /\ N = Capacity + 1 /\ Capacity \in Nat
          BY <1>3
        <4>2. at + n <= N
          BY <2>2, <2>6, <4>1
        <4> QED BY <1>3, <4>2 DEF String
      <3>2. Readable(src, s.data, at, n) /\ \A i : Pointee(src, s.data, i) = q.data[pos + i]
        <4>1. \A d, to : /\ Readable(Elsewhere(q.data, pos), d, to, n)
                         /\ \A i : Pointee(Elsewhere(q.data, pos), d, i) = q.data[pos + i]
          BY <2>others
        <4> QED BY <2>3, <4>1
      <3>3. data = Turn(s.data, at, src, n) /\ data \in [Indexes -> Chars]
        BY <2>2, <2>4, <3>1, <3>2, Copies
      <3>4. ASSUME NEW i \in Indexes, at <= i, i < at + n PROVE data[i] = w[i - at + 1]
        <4>1. PICK k : k = i - at + 1
          OBVIOUS
        <4>2. k \in 1 .. n /\ k - 1 = i - at
          BY <2>2, <3>4, <4>1 DEF Indexes
        <4>3. data[i] = Pointee(src, s.data, i - at)
          BY <3>3, <3>4 DEF Turn
        <4>4. Pointee(src, s.data, i - at) = q.data[pos + (i - at)]
          BY <3>2
        <4> QED BY <2>8, <4>1, <4>2, <4>3, <4>4
      <3>5. ASSUME NEW i \in Indexes, ~(at <= i /\ i < at + n) PROVE data[i] = s.data[i]
        BY <3>3, <3>5 DEF Turn
      <3> QED BY <3>3, <3>4, <3>5
    <2>10. r \in String /\ r.data = data /\ r.size = s.size
      <3>1. s = [data |-> s.data, size |-> s.size] /\ s.size \in 0 .. Capacity
        BY <1>3 DEF String
      <3>2. r = [data |-> data, size |-> s.size]
        BY <2>5, <3>1
      <3> QED BY <2>9, <3>1, <3>2 DEF String
    <2>11. Terminated(r)
      <3>1. s.size \in Indexes /\ ~(at <= s.size /\ s.size < at + n)
        BY <1>3, <2>2, <2>6 DEF Indexes
      <3> QED BY <1>3, <2>9, <2>10, <3>1 DEF Terminated
    <2>12. PICK t : t = T!Part(text[o], 0, at) \o w
                          \o T!Part(text[o], at + n, Len(text[o]) - at - n)
      OBVIOUS
    <2>13. /\ t \in Seq(Chars) /\ Len(t) = s.size
           /\ \A k \in 1 .. s.size :
                t[k] = IF at < k /\ k <= at + n THEN w[k - at] ELSE text[o][k]
      <3>1. PICK x : x = text[o]
        OBVIOUS
      <3>2. x \in Seq(Chars) /\ Len(x) = s.size /\ at + Len(w) <= Len(x)
        BY <1>3, <2>6, <2>8, <3>1
      <3>3. LET c == Len(w)
                u == T!Part(x, 0, at) \o w \o T!Part(x, at + c, Len(x) - at - c)
            IN  /\ u \in Seq(Chars) /\ Len(u) = Len(x)
                /\ \A k \in 1 .. Len(x) :
                     u[k] = IF at < k /\ k <= at + c THEN w[k - at] ELSE x[k]
        BY <2>8, <3>2, OverwrittenText
      <3>4. Len(w) = n
        BY <2>8
      <3>5. LET u == T!Part(x, 0, at) \o w \o T!Part(x, at + n, Len(x) - at - n)
            IN  /\ u \in Seq(Chars) /\ Len(u) = Len(x)
                /\ \A k \in 1 .. Len(x) :
                     u[k] = IF at < k /\ k <= at + n THEN w[k - at] ELSE x[k]
        BY <3>3, <3>4
      <3> QED BY <2>12, <3>1, <3>2, <3>5
    <2>14. ASSUME NEW k \in 1 .. r.size PROVE r.data[k - 1] = t[k]
      <3>1. PICK i : i = k - 1
        OBVIOUS
      <3>2. i \in Indexes /\ i - at + 1 = k - at /\ k \in 1 .. s.size
            /\ (at <= i <=> at < k) /\ (i < at + n <=> k <= at + n)
        <4>1. k \in 1 .. s.size /\ s.size \in Nat /\ s.size <= Capacity /\ N = Capacity + 1
              /\ Capacity \in Nat
          BY <1>3, <2>10
        <4>2. i \in Indexes
          BY <3>1, <4>1 DEF Indexes
        <4>3. (at <= i <=> at < k) /\ i - at + 1 = k - at
          BY <3>1, <4>1
        <4>4. i < at + n <=> k <= at + n
          BY <2>2, <3>1, <4>1
        <4> QED BY <4>1, <4>2, <4>3, <4>4
      <3>3. text[o][k] = s.data[i]
        BY <1>3, <3>1, <3>2
      <3> QED BY <2>9, <2>10, <2>13, <3>1, <3>2, <3>3
    <2>15. View(r) = t
      BY <2>10, <2>13, <2>14, Reads
    <2>16. T!Becomes(o, t)
      <3>1. ~(pos > Len(text[p]))
        BY <1>3, <1>5
      <3>2. T!Becomes(o, T!Part(text[o], 0, at) \o w
                           \o T!Part(text[o], at + n, Len(text[o]) - at - n))
        BY <2>2, <2>7, <3>1 DEF T!DoCopyOut, T!InRange
      <3> QED BY <2>12, <3>2
    <2> QED BY <2>11, <2>13, <2>15, <2>6, <2>16, StoredOne
  <1> QED BY <1>4, <1>5

-----------------------------------------------------------------------------
(* All calls together.                                                     *)

\* Every call that is given an object keeps the invariant.
LEMMA ObjectCallsKeep ==
  ASSUME ObjInv, NEW o \in Objects, NEW p \in Objects, ObjectCalls(o, p)
  PROVE  ObjInv'
  <1>1. \A n \in Sizes : n \in Nat
    BY StorageAssumption DEF Sizes
  <1> QED BY <1>1, CopiesAndMovesKeep, SwapsKeep, SubstrKeeps, CopyOutKeeps DEF ObjectCalls

\* Every string starts empty.
LEMMA ObjectsStart == ObjectInit => ObjInv
  <1> SUFFICES ASSUME ObjectInit PROVE ObjInv
    OBVIOUS
  <1>1. \A o \in Objects : str[o] = EmptyString /\ text[o] = <<>>
    BY DEF ObjectInit, T!TextInit
  <1>2. Terminated(EmptyString) /\ View(EmptyString) = <<>>
    <2>1. Terminated(EmptyString) /\ EmptyString.size = 0
      BY NewString
    <2>2. <<>> \in Seq(Chars) /\ Len(<<>>) = 0
          /\ \A k \in 1 .. 0 : EmptyString.data[k - 1] = <<>>[k]
      OBVIOUS
    <2> QED BY <2>1, <2>2, Reads DEF Terminated
  <1>3. str \in [Objects -> String] /\ text \in [Objects -> Seq(Chars)]
    BY <1>2 DEF ObjectInit, T!TextInit, Terminated
  <1>4. raised = thrown
    BY DEF ObjectInit, T!TextInit
  <1> QED BY <1>1, <1>2, <1>3, <1>4 DEF ObjInv, StringsTerminated, ReadsAsText, Terminated

\* Every call keeps it.
LEMMA ObjectsKeep == ObjInv /\ [ObjectNext]_objectvars => ObjInv'
  <1> SUFFICES ASSUME ObjInv, [ObjectNext]_objectvars PROVE ObjInv'
    OBVIOUS
  <1>1. ASSUME NEW o \in Objects, SizeCalls(o) PROVE ObjInv'
    BY <1>1, SizeCallsKeep
  <1>2. ASSUME NEW o \in Objects, CharCalls(o) PROVE ObjInv'
    BY <1>2, CharCallsKeep
  <1>3. ASSUME NEW o \in Objects, NEW p \in Objects, ViewCalls(o, p) PROVE ObjInv'
    BY <1>3, ViewCallsKeep
  <1>4. ASSUME NEW o \in Objects, NEW p \in Objects, ObjectCalls(o, p) PROVE ObjInv'
    BY <1>4, ObjectCallsKeep
  <1>5. CASE UNCHANGED objectvars
    BY <1>5 DEF objectvars, ObjInv, StringsTerminated, ReadsAsText
  <1> QED BY <1>1, <1>2, <1>3, <1>4, <1>5 DEF ObjectNext

\* The invariant holds throughout.
THEOREM ObjectsInvariant == ObjectSpec => []ObjInv
  <1> QED BY ObjectsStart, ObjectsKeep, PTL DEF ObjectSpec

\* Every string is within its bounds and its terminator is in place.
THEOREM StringsStayTerminated == ObjectSpec => []StringsTerminated
  <1>1. ObjInv => StringsTerminated
    BY DEF ObjInv
  <1> QED BY <1>1, ObjectsInvariant, PTL

\* Every string reads as its interface promises, and the same is thrown.
THEOREM StringsReadAsText == ObjectSpec => []ReadsAsText
  <1>1. ObjInv => ReadsAsText
    BY DEF ObjInv
  <1> QED BY <1>1, ObjectsInvariant, PTL
=============================================================================
