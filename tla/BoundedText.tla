----------------------------- MODULE BoundedText -----------------------------
(***************************************************************************)
(* What string<N> promises, in the words of its interface: each object is  *)
(* a text of at most Capacity characters, a call replaces the text, or it  *)
(* throws and changes nothing.  No storage, no terminator, no aliasing:    *)
(* every argument is the text it had before the call.                      *)
(***************************************************************************)
EXTENDS Integers, Sequences

CONSTANTS Objects, Capacity, Chars, Nul

VARIABLES text, thrown

textvars == <<text, thrown>>

TextInit == text = [o \in Objects |-> <<>>] /\ thrown = "nothing"

Repeated(count, ch) == [k \in 1 .. count |-> ch]
Part(t, pos, count) == SubSeq(t, pos + 1, pos + count)
Least(a, b)         == IF a < b THEN a ELSE b

\* A NUL-terminated reading of t from pos: a text may hold a NUL of its own.
UpToNul(t, pos) ==
  LET end == CHOOSE k \in pos + 1 .. Len(t) + 1 :
               /\ k = Len(t) + 1 \/ t[k] = Nul
               /\ \A j \in pos + 1 .. k - 1 : t[j] # Nul
  IN  SubSeq(t, pos + 1, end - 1)

Becomes(o, t) ==
  \/ Len(t) <= Capacity /\ text' = [text EXCEPT ![o] = t] /\ thrown' = "nothing"
  \/ Len(t) > Capacity /\ thrown' = "length_error" /\ UNCHANGED text

InRange(o, pos, Call) ==
  \/ pos <= Len(text[o]) /\ Call
  \/ pos > Len(text[o]) /\ thrown' = "out_of_range" /\ UNCHANGED text

DoConstruct(o, size)    == Becomes(o, Repeated(size, Nul))
DoClear(o)              == Becomes(o, <<>>)
DoResize(o, size, fill) ==
  Becomes(o, Part(text[o], 0, Least(size, Len(text[o]))) \o Repeated(size - Len(text[o]), fill))
DoPushBack(o, ch)       == Becomes(o, Append(text[o], ch))
DoPopBack(o)            == Becomes(o, Part(text[o], 0, Len(text[o]) - 1))
DoAppend(o, p, pos, n)  == Becomes(o, text[o] \o Part(text[p], pos, n))
DoAppendCString(o, p, pos) == Becomes(o, text[o] \o UpToNul(text[p], pos))
DoAppendRepeated(o, n, ch) == Becomes(o, text[o] \o Repeated(n, ch))
DoAssign(o, p, pos, n)  == Becomes(o, Part(text[p], pos, n))
DoAssignCString(o, p, pos) == Becomes(o, UpToNul(text[p], pos))
DoAssignRepeated(o, n, ch) == Becomes(o, Repeated(n, ch))
DoCopy(o, p)            == Becomes(o, text[p])

\* Moving empties the source, and moving an object to itself does nothing.
DoMove(o, p) ==
  /\ text' = IF o = p THEN text ELSE [text EXCEPT ![o] = text[p], ![p] = <<>>]
  /\ thrown' = "nothing"

DoSubstr(o, p, pos, n) ==
  InRange(p, pos, Becomes(o, Part(text[p], pos, Least(n, Len(text[p]) - pos))))

\* copy() writes over the characters of o that follow position at.
DoCopyOut(o, at, p, pos, n) ==
  InRange(p, pos,
    LET count == Least(n, Len(text[p]) - pos)
    IN  Becomes(o, Part(text[o], 0, at) \o Part(text[p], pos, count)
                     \o Part(text[o], at + count, Len(text[o]) - at - count)))

DoPut(o, pos, ch) ==
  InRange(o, pos + 1, Becomes(o, [text[o] EXCEPT ![pos + 1] = ch]))

DoSwap(o, p) ==
  text' = [text EXCEPT ![o] = text[p], ![p] = text[o]] /\ thrown' = "nothing"
=============================================================================
