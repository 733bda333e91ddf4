----------------------------- MODULE EnumAuthor ------------------------------
(***************************************************************************)
(* One fluent chain of calls on the builder, and the description it is     *)
(* meant to write.  Beside the builder stand the call that was made last,  *)
(* with its arguments and whether it came back, and the conditions that    *)
(* the calls have entered.  Both follow from the calls alone: nothing in   *)
(* them is read out of the graph that the builder stores.                  *)
(***************************************************************************)
EXTENDS EnumBuilder

CONSTANTS
  AuthorSelectors,  \* the group bitmasks and the group names that the author
  AuthorLabels      \* passes to If and Else

ASSUME AuthorAssumption == AuthorSelectors \subseteq Mask /\ AuthorLabels \subseteq GroupNames

VARIABLES call, open

Meaning == [v \in Mask |-> Consulted(items, cmds_id, v)]

D == INSTANCE Description WITH meaning <- Meaning

-----------------------------------------------------------------------------
Writes(made)        == call' = made /\ UNCHANGED open
Enters(made, inner) == call' = made /\ open' = inner
Refused             == call' = [op |-> "refused"] /\ UNCHANGED open

AuthorNamed(g, mask, value, name) ==
  \/ /\ ExtendNamed(g, mask, value, name) \/ StartNamed(g, mask, value, name)
     /\ Writes([op |-> "Named", mask |-> mask, value |-> value, name |-> name])
  \/ /\ \/ ExtendNamedThrows(g, mask, value, name)
        \/ StartNamedThrows(g, mask, value)
        \/ FirstPairThrows(g, mask, value, name)
     /\ Refused

AuthorNumeric(g, mask, name, format) ==
  \/ /\ AddNumeric(g, mask, name, format)
     /\ Writes([op |-> "Numeric", mask |-> mask, name |-> name, format |-> format])
  \/ NumericThrows(g, mask, name, format) /\ Refused

AuthorIf(g, selector, mask, when, label) ==
  \/ /\ OpenIf(g, selector, mask, when, label)
     /\ Enters([op |-> "If", selector |-> selector, mask |-> mask, when |-> when,
                label |-> label],
               Append(open, D!Condition(selector, mask, when, label)))
  \/ IfThrows(g, selector, mask, when, label) /\ Refused

AuthorElse(g, label) ==
  \/ /\ OpenElse(g, label) \/ ReuseAsElse(g, label)
     /\ Enters([op |-> "Else", label |-> label], D!Switched(label))
  \/ ElseThrows(g, label) /\ Refused

AuthorEnd(g) == End(g) /\ Enters([op |-> "End"], D!Left)

-----------------------------------------------------------------------------
AuthorInit == Init /\ call = [op |-> "none"] /\ open = <<>>

AuthorCall(g) ==
  \/ \E mask \in CallMasks \union {{}}, value \in Mask, name \in Names :
       AuthorNamed(g, mask, value, name)
  \/ \E mask \in CallMasks, name \in Names, format \in Formats :
       AuthorNumeric(g, mask, name, format)
  \/ \E selector \in AuthorSelectors, mask \in CallMasks, when \in BOOLEAN,
        label \in AuthorLabels : AuthorIf(g, selector, mask, when, label)
  \/ \E label \in AuthorLabels : AuthorElse(g, label)
  \/ AuthorEnd(g)

AuthorNext == AuthorCall(Innermost)

AuthorSpec == AuthorInit /\ [][AuthorNext]_<<vars, call, open>>
=============================================================================
