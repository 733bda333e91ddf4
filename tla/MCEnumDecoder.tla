---------------------------- MODULE MCEnumDecoder ----------------------------
(***************************************************************************)
(* TLC instance of EnumDecoder: every program over a small set of tokens,  *)
(* legal or not, that nests at most MaxStack calls.                        *)
(***************************************************************************)
EXTENDS EnumDecoder

CONSTANTS short, MaxStack

MCNameLen == [n \in {short} |-> 1]

\* Two bits; the branches of conditionals narrow the scope to bit 0, so that
\* bit 1 is legal at the root only.
MCShifts == {0, 1}

\* The <<shift, mask>> of conditionals: legal everywhere; legal at the root
\* only, or nowhere.
MCConditions == {<<0, {0}>>}
MCElsewhere  == {<<1, {0}>>, <<0, {}>>}

MCTokens ==
  {t \in NamedTokens : t.mask \in {{}, {0}}}
    \union {t \in PairTokens : t.value \in {{}, {1}}}
    \union {t \in NumericTokens : t.mask \in {{0}, {0, 1}}}
    \union {t \in IfTokens : t.label = NoName /\
              \/ t.op = "GroupIf" /\ <<t.shift, t.mask>> \in MCConditions
              \/ t.op = "GroupIf" /\ <<t.shift, t.mask>> \in MCElsewhere /\ t.count = 1
              \/ t.op = "GroupIfNamed" /\ <<t.shift, t.mask>> \in MCConditions}
    \union {t \in IfNumericTokens : t.shift = 0 /\ t.mask = {0} /\ t.label = NoName}
    \union {t \in ElseTokens : t.label = NoName}
    \union ContinueTokens \union TerminateTokens

MCNext == Next /\ Len(stack') <= MaxStack
MCSpec == Init /\ [][MCNext]_vars
=============================================================================
