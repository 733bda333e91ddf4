------------------------------- MODULE MCWire --------------------------------
(***************************************************************************)
(* The arithmetic, the bytes of a program and the run-time-typed           *)
(* description for TLC.  They share no state, so each behaviour is about   *)
(* one of them and leaves the others as they start.                        *)
(***************************************************************************)
EXTENDS WireArithmetic, ProgramBytes, AnyEnum

CONSTANT Components   \* those that are explored

VARIABLE component

MCIntTypes == [digits : {4, 8}, signed : BOOLEAN]

MCProgramTypes ==
  {[digits |-> 16, signed |-> TRUE], [digits |-> 16, signed |-> FALSE], [digits |-> 8, signed |-> TRUE]}

\* 0xF0FF and 0x8180: both have bit 7 and, of 16 bits, the top one.
MCArguments ==
  {[bits |-> 61695, shift |-> 7, named |-> TRUE, label |-> <<103>>,
    name |-> <<97, 98>>, format |-> 5, negate |-> TRUE],
   [bits |-> 33152, shift |-> 7, named |-> FALSE, label |-> <<>>,
    name |-> <<>>, format |-> 2, negate |-> FALSE]}

\* The limits of the types of 2, 4, 8 and 16 digits, and the values next to them.
MCAsked == UNION {{-(2^k) - 1, -(2^k), 2^k - 1, 2^k} : k \in {0, 1, 2, 3, 4, 7, 8, 15, 16}}

wirevars == <<component, call, bytevars, anyvars>>

MCInit ==
  /\ component \in Components /\ CallInit /\ BytesInit /\ AnyInit
  /\ component # "program" => ~compress /\ type = [digits |-> 16, signed |-> FALSE]

MCNext ==
  /\ UNCHANGED component
  /\ \/ component = "arithmetic" /\ ArithmeticNext /\ UNCHANGED <<bytevars, anyvars>>
     \/ component = "program" /\ BytesNext /\ UNCHANGED <<call, anyvars>>
     \/ component = "description" /\ AnyNext /\ UNCHANGED <<call, bytevars>>

MCSpec == MCInit /\ [][MCNext]_wirevars
=============================================================================
