------------------------------ MODULE MCTexts --------------------------------
(***************************************************************************)
(* string<N>, the string heap and the renderer's text for TLC.  They share *)
(* no state, so each behaviour is about one of them and leaves the others  *)
(* as they start.                                                          *)
(***************************************************************************)
EXTENDS StringObjects, StringHeap, EnumText

CONSTANTS x, y

VARIABLE component

MCTextSet == {<<>>, <<x>>, <<x, Nul>>, <<Nul, x>>, <<x, y, x>>}

textsvars == <<component, objectvars, heapvars, textlinevars>>

MCInit ==
  /\ component \in {"string", "heap", "renderer"}
  /\ ObjectInit /\ HeapInit /\ Fresh

MCNext ==
  /\ UNCHANGED component
  /\ \/ component = "string" /\ ObjectNext /\ UNCHANGED <<heapvars, textlinevars>>
     \/ component = "heap" /\ HeapNext /\ UNCHANGED <<objectvars, textlinevars>>
     \/ component = "renderer" /\ TextLineNext /\ UNCHANGED <<objectvars, heapvars>>

MCSpec == MCInit /\ [][MCNext]_textsvars
=============================================================================
