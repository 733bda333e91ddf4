----------------------------- MODULE Characters ------------------------------
(***************************************************************************)
(* The characters that the strings are made of, NUL among them.            *)
(***************************************************************************)
CONSTANTS Chars, Nul

ASSUME NulAssumption == Nul \in Chars
=============================================================================
