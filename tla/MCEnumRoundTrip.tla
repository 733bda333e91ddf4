--------------------------- MODULE MCEnumRoundTrip ---------------------------
(***************************************************************************)
(* TLC instances of EnumRoundTrip.  Block limits are cut down so that      *)
(* blocks overflow within a few calls.                                     *)
(***************************************************************************)
EXTENDS EnumRoundTrip

CONSTANT short

MCNameLen == [n \in {short} |-> 1]

OneBitMasks    == {{0}}
TwoMasks       == {{0}, {0, 1}}
MaskedAndPlain == {<<{}, {}>>, <<{}, {0}>>, <<{0}, {}>>}
TwoForms       == {<<{}, {}>>, <<{0}, {}>>}
=============================================================================
