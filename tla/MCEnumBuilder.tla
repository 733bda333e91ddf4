---------------------------- MODULE MCEnumBuilder ----------------------------
(***************************************************************************)
(* The builder for TLC, used in one of two ways from the first call on: as *)
(* one fluent chain, or through scopes kept in variables in any order.     *)
(***************************************************************************)
EXTENDS EnumAuthor

CONSTANTS short, long, Styles

VARIABLE style   \* "chain" or "handles"

\* A long name never fits the string heaps used here: it makes calls throw,
\* and a short one may follow.
MCNameLen == [n \in {short, long} |-> IF n = long THEN 8 ELSE 1]

\* Two bits, and branches that narrow the scope to one of them.
MCMasks == {{0}}

\* One chain may ask for either bit; scopes in any order for one, and with a
\* selector that is refused.
ChainSelectors  == {{0}, {1}}
HandleSelectors == {{0}, {}}

MCInit == AuthorInit /\ style \in Styles

MCNext ==
  /\ UNCHANGED style
  /\ \/ style = "chain" /\ AuthorNext
     \/ style = "handles" /\ Next /\ UNCHANGED <<call, open>>

MCSpec == MCInit /\ [][MCNext]_<<style, vars, call, open>>

(* A chain of calls builds the description it reads as.  Each call that    *)
(* comes back is the one of Description with the same arguments: it adds   *)
(* its line, and no other, for exactly the values that meet the conditions *)
(* entered so far, or it enters, turns or leaves its condition.  A call    *)
(* that throws changes no value's lines, whatever it had stored.           *)
ImplementsDescription ==
  D!Init /\ [][style = "chain" => D!Next]_<<vars, call, open>>
=============================================================================
