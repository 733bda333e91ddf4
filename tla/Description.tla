----------------------------- MODULE Description -----------------------------
(***************************************************************************)
(* What an enum description promises its author, call by call: for each    *)
(* enum value, the lines it shows, in the order they were written, are     *)
(* exactly those written under conditions that the value meets.  No heap,  *)
(* no lists: a line goes to every value that meets all the open            *)
(* conditions, and is never lost, moved or rewritten afterwards.  A call   *)
(* that is refused, as any may be, changes nothing.                        *)
(***************************************************************************)
EXTENDS Naturals, Sequences

CONSTANTS Bits, Names, NoName, Formats

VARIABLES
  call,      \* the call made last, with its arguments
  meaning,   \* value -> the lines that apply to it
  open       \* the conditions entered and not yet left, outermost first

Mask == SUBSET Bits
GroupNames == Names \union {NoName}
Innermost  == open[Len(open)]

ScopeMask  == IF open = <<>> THEN Bits ELSE Innermost.mask
ScopeGroup == IF open = <<>> THEN NoName ELSE Innermost.group

Meets(v) == \A i \in DOMAIN open : (open[i].selector \cap v # {}) = open[i].when

Write(line) ==
  /\ meaning' = [v \in Mask |-> IF Meets(v) THEN Append(meaning[v], line) ELSE meaning[v]]
  /\ UNCHANGED open

-----------------------------------------------------------------------------
\* A pair is for the bits of its own mask, or of the scope if it has none.
Named(mask, value, name) ==
  LET bits == IF mask = {} THEN ScopeMask ELSE mask
  IN  /\ value \subseteq bits /\ bits \subseteq ScopeMask
      /\ Write([is |-> "pair", mask |-> bits, value |-> value, name |-> name,
                group |-> ScopeGroup])

Numeric(mask, name, format) ==
  /\ mask # {} /\ mask \subseteq ScopeMask
  /\ Write([is |-> "numeric", mask |-> mask, format |-> format, name |-> name,
            group |-> ScopeGroup])

Condition(selector, mask, when, label) ==
  [selector |-> selector, when |-> when, mask |-> mask, group |-> label, other |-> FALSE]

\* A condition looks at one bit: If is met when it is set, IfNot when it is not.
If(selector, mask, when, label) ==
  /\ \E bit \in ScopeMask : selector = {bit}
  /\ mask # {} /\ mask \subseteq ScopeMask
  /\ open' = Append(open, Condition(selector, mask, when, label))
  /\ UNCHANGED meaning

\* The other side of the innermost condition, which is entered at most once.
Switched(label) ==
  [open EXCEPT ![Len(open)] = [@ EXCEPT !.when = ~@, !.group = label, !.other = TRUE]]

Else(label) ==
  /\ open # <<>> /\ ~Innermost.other
  /\ open' = Switched(label)
  /\ UNCHANGED meaning

Left == SubSeq(open, 1, Len(open) - 1)

End ==
  /\ open # <<>>
  /\ open' = Left
  /\ UNCHANGED meaning

-----------------------------------------------------------------------------
Init ==
  /\ call = [op |-> "none"]
  /\ meaning = [v \in Mask |-> <<>>]
  /\ open = <<>>

Next ==
  \/ call'.op = "Named" /\ Named(call'.mask, call'.value, call'.name)
  \/ call'.op = "Numeric" /\ Numeric(call'.mask, call'.name, call'.format)
  \/ call'.op = "If" /\ If(call'.selector, call'.mask, call'.when, call'.label)
  \/ call'.op = "Else" /\ Else(call'.label)
  \/ call'.op = "End" /\ End
  \/ call'.op = "refused" /\ UNCHANGED <<meaning, open>>

Spec == Init /\ [][Next]_<<call, meaning, open>>
=============================================================================
