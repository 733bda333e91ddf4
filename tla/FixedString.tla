----------------------------- MODULE FixedString -----------------------------
(***************************************************************************)
(* string<N>: up to N - 1 characters kept in place, counted, and followed  *)
(* by a NUL.  A string is a record of its storage m_data, indexed from 0,  *)
(* and its m_size; what the storage holds behind the NUL is left over from *)
(* earlier contents and is part of the value.                              *)
(*                                                                         *)
(* The operators give the string that an operation leaves behind.  Where   *)
(* the code reads a pointer, the source is an operator Src(data, i): the   *)
(* i-th character read while the storage that is being written holds data. *)
(* A pointer into the string itself sees what the loop has written so far. *)
(***************************************************************************)
EXTENDS Integers, Sequences, Characters

CONSTANT N   \* the characters that the storage has room for, the last NUL included

ASSUME StorageAssumption == N \in Nat \ {0}

Capacity == N - 1
Indexes  == 0 .. N - 1
String   == [data : [Indexes -> Chars], size : 0 .. Capacity]

EmptyString == [data |-> [i \in Indexes |-> Nul], size |-> 0]

View(s) == [k \in 1 .. s.size |-> s.data[k - 1]]

\* Mutant of SetTerminator: nothing is written.
Unterminated(s) == s

SetTerminator(s) == [s EXCEPT !.data[s.size] = Nul]

\* A pointer to characters: into the storage that is written, or to others.
Own(at)              == [own |-> TRUE, at |-> at]
Elsewhere(chars, at) == [own |-> FALSE, at |-> at, chars |-> chars]
Pointee(src, data, i) == IF src.own THEN data[src.at + i] ELSE src.chars[src.at + i]

\* The storage after "for (i = 0; i < count; ++i) m_data[to + i] = src[i]".
CopyLoop(data, to, src, count) ==
  LET after[i \in 0 .. count] ==
        IF i = 0 THEN data
        ELSE [after[i - 1] EXCEPT ![to + i - 1] = Pointee(src, after[i - 1], i - 1)]
  IN  after[count]

AssignRange(s, src, count) ==
  SetTerminator([data |-> CopyLoop(s.data, 0, src, count), size |-> count])

AppendRange(s, src, count) ==
  SetTerminator([data |-> CopyLoop(s.data, s.size, src, count), size |-> s.size + count])

\* resize(): only what lies between the old and the new end is filled.
Resized(s, size, fill) ==
  SetTerminator([data |-> [i \in Indexes |-> IF s.size <= i /\ i < size THEN fill ELSE s.data[i]],
                 size |-> size])

PushedBack(s, ch) == SetTerminator([data |-> [s.data EXCEPT ![s.size] = ch], size |-> s.size + 1])
PoppedBack(s)     == SetTerminator([s EXCEPT !.size = @ - 1])
Cleared(s)        == SetTerminator([s EXCEPT !.size = 0])

\* swap() exchanges the characters up to the terminator of the longer string.
\* Mutant of SwapLimit: as far as the shorter string goes.
SwapShorter(s, t) == IF s.size < t.size THEN s.size ELSE t.size

SwapLimit(s, t) == IF s.size < t.size THEN t.size ELSE s.size

Swapped(s, t) ==
  [data |-> [i \in Indexes |-> IF i <= SwapLimit(s, t) THEN t.data[i] ELSE s.data[i]],
   size |-> t.size]

CheckSizeFits(count)      == count <= Capacity
CheckAppendFits(s, count) == count <= Capacity - s.size

ClampCount(s, pos, count) == IF count < s.size - pos THEN count ELSE s.size - pos

\* The characters from pos up to the first NUL of the storage.
CStringLength(s, pos) ==
  (CHOOSE i \in pos .. N - 1 : s.data[i] = Nul /\ \A j \in pos .. i - 1 : s.data[j] # Nul) - pos
=============================================================================
