---------------------------- MODULE EnumRoundTrip ----------------------------
(***************************************************************************)
(* Builder, encoder and decoder together: an author completes a            *)
(* description in one fluent chain of calls that succeed, the description  *)
(* is built and encoded, and the program is decoded into a heap of the     *)
(* same size.                                                              *)
(***************************************************************************)
EXTENDS EnumBuilder, EnumEncoder

CONSTANTS
  NamedArguments,   \* the <<mask, value>> the author gives to Named
  AppendTerminate,  \* append_terminate of output_program
  ThrowOnTerminate  \* throw_on_terminate of decode_program

ASSUME ProgramEndAssumption == /\ AppendTerminate \in BOOLEAN
                               /\ ThrowOnTerminate \in BOOLEAN
                               /\ AppendTerminate => ~ThrowOnTerminate

VARIABLES
  phase,    \* "authoring", "decoding" or, an assertion of encode() failed, "aborted"
  rest,     \* the program behind the token under the decoder's cursor
  d_items, d_used, d_chars, d_cmds_id, stack, next, status

D == INSTANCE EnumDecoder WITH items <- d_items, used <- d_used, chars <- d_chars,
                               cmds_id <- d_cmds_id, Tokens <- Token

decoder == <<d_items, d_used, d_chars, d_cmds_id, stack, next, status>>
allvars == <<vars, phase, rest, decoder>>

-----------------------------------------------------------------------------
AuthorCalls(g) ==
  \/ \E a \in NamedArguments, name \in Names :
       ExtendNamed(g, a[1], a[2], name) \/ StartNamed(g, a[1], a[2], name)
  \/ \E mask \in CallMasks, name \in Names, format \in Formats :
       AddNumeric(g, mask, name, format)
  \/ \E selector \in Selectors, mask \in CallMasks, when \in BOOLEAN, label \in Labels :
       OpenIf(g, selector, mask, when, label)
  \/ \E label \in Labels : OpenElse(g, label) \/ ReuseAsElse(g, label)
  \/ EndBranch(g)
  \/ DropEmptyElse(g)

Author ==
  /\ phase = "authoring"
  /\ AuthorCalls(Innermost)
  /\ UNCHANGED <<phase, rest, decoder>>

\* The token that follows, and what is left behind it.
After(program)  == IF program = <<>> THEN D!Eof ELSE Head(program)
Behind(program) == IF program = <<>> THEN <<>> ELSE Tail(program)

\* output_program(): the commands, and a Terminate if asked for.
OutputProgram ==
  Program(items, Build.cmds_id) \o IF AppendTerminate THEN <<[op |-> "Terminate"]>> ELSE <<>>

Encode ==
  LET program == OutputProgram
  IN  /\ phase = "authoring" /\ OpenScopes = {0}
      /\ Encodable(items, Build.cmds_id)
      /\ phase' = "decoding"
      /\ next' = After(program)
      /\ rest' = Behind(program)
      /\ UNCHANGED <<vars, d_items, d_used, d_chars, d_cmds_id, stack, status>>

EncodeAborts ==
  /\ phase = "authoring" /\ OpenScopes = {0}
  /\ ~Encodable(items, Build.cmds_id)
  /\ phase' = "aborted"
  /\ UNCHANGED <<vars, rest, decoder>>

Decode ==
  /\ phase = "decoding" /\ status = "reading"
  /\ \/ D!Return /\ UNCHANGED rest
     \/ D!Read(After(rest)) /\ rest' = Behind(rest)
  /\ UNCHANGED <<vars, phase>>

RoundTripInit == Init /\ D!Start(D!Eof) /\ phase = "authoring" /\ rest = <<>>
RoundTripNext == Author \/ Encode \/ EncodeAborts \/ Decode

RoundTripSpec == RoundTripInit /\ [][RoundTripNext]_allvars

\* decode_program() is one sequential call, which its caller lets run to the end.
FairSpec == RoundTripSpec /\ WF_allvars(Decode)

-----------------------------------------------------------------------------
(***************************************************************************)
(* Which programs can be read in one way only.  The decoder gives an Else  *)
(* to the innermost conditional that is still without one, and a           *)
(* ContinueScope to the innermost branch that has just ended.              *)
(***************************************************************************)
IfCommands(i) ==
  IF FirstForm(items, items[i]).op = "GroupIf" /\ items[i].true_group # 0
  THEN Commands(items, items[items[i].true_group].cmds) ELSE <<>>

ElseCommands(i) ==
  LET g == ElseGroup(items, items[i])
  IN  IF g = 0 \/ OnlyNamed(items, g) THEN <<>> ELSE Commands(items, items[g].cmds)

HasElse(i) == ElseGroup(items, items[i]) # 0

\* An Else that follows command i is read as one of i's own.
TakesElse(i) ==
  LET takes[c \in ItemIds] ==
        /\ items[c].kind = "Conditional"
        /\ ~HasElse(c) \/ (ElseCommands(c) # <<>> /\ takes[Last(ElseCommands(c))])
  IN  takes[i]

\* A ContinueScope that follows command i is read as a continuation of i.
TakesContinue(i) ==
  \/ items[i].kind = "Named"
  \/ items[i].kind = "Conditional" /\
       (FirstForm(items, items[i]).op # "GroupIfNumeric" \/ HasElse(i))

ContinuesItself(list, limit) ==
  \A k \in 2 .. Len(list) : StartsBlock(k, limit) => ~TakesContinue(list[k - 1])

Unambiguous ==
  \A i \in Reachable(items, Build.cmds_id) : items[i].kind = "Conditional" =>
    /\ HasElse(i) /\ IfCommands(i) # <<>> => ~TakesElse(Last(IfCommands(i)))
    /\ ContinuesItself(IfCommands(i), IfLimit)
    /\ ContinuesItself(ElseCommands(i), ElseLimit)

SameMeaning ==
  \A v \in Mask : Consulted(d_items, d_cmds_id, v) = Consulted(items, Build.cmds_id, v)

Decoded == phase = "decoding" /\ status # "reading"

(* The program of a description whose Else and ContinueScope opcodes each  *)
(* follow the branch they belong to is decoded, and the graph it decodes   *)
(* to shows the same lines for every value.                                *)
RoundTripUnambiguous == Decoded /\ Unambiguous => status = "done" /\ SameMeaning

(* Decoding loses nothing that encoding writes: the decoded graph, when    *)
(* its program can be read in one way only, encodes to that same program.  *)
Reencodes ==
  Decoded /\ Unambiguous =>
    /\ Encodable(d_items, d_cmds_id)
    /\ Program(d_items, d_cmds_id) = Program(items, Build.cmds_id)

(* Every description that the builder accepts and encode() writes is       *)
(* decoded, and means the same.                                            *)
RoundTrip == Decoded => status = "done" /\ SameMeaning

(* decode_program() ends: however the blocks of a program nest, each step  *)
(* reads a byte or leaves a construct, until it is accepted or refused.    *)
DecodingEnds == phase = "decoding" ~> status # "reading"

(* encode() accepts every description that the builder accepts.            *)
NeverAborts == phase # "aborted"
=============================================================================
