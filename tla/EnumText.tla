------------------------------- MODULE EnumText ------------------------------
(***************************************************************************)
(* The text of a value: EnumTextRenderer walks the description (EnumIR has *)
(* the walk, as Consulted) and appends what it finds to three buckets that *)
(* are joined at the end.  A text is a sequence of pieces: names, numbers  *)
(* and separators.  A name may be empty, and then adds no piece.           *)
(***************************************************************************)
EXTENDS Integers, Sequences, SequencesExt

CONSTANTS
  DisplayNames,  \* the names of pairs and numeric fields
  Unnamed,       \* the one that is empty
  Numbers,       \* the texts of numbers
  MaxLines       \* bound: lines that one value shows

Comma    == "comma"
Bar      == "bar"
EqualTo  == "="

VARIABLES
  nonzero_items, zero_items, numeric_items,  \* the buckets
  has_items,                                 \* which of them have had an item
  lines                                      \* history: what was shown, in order

textlinevars == <<nonzero_items, zero_items, numeric_items, has_items, lines>>

NameText(name) == IF name = Unnamed THEN <<>> ELSE <<name>>

\* append_bucket_item()
\* Mutant of Added: the separator depends on the text, not on the flag.
AddedToText(bucket, has, separator, item) ==
  (IF bucket # <<>> THEN Append(bucket, separator) ELSE bucket) \o item

Added(bucket, has, separator, item) ==
  (IF has THEN Append(bucket, separator) ELSE bucket) \o item

AppendNamedItem(name, is_zero_value) ==
  /\ \/ /\ is_zero_value
        /\ zero_items' = Added(zero_items, has_items.zero, Comma, NameText(name))
        /\ has_items' = [has_items EXCEPT !.zero = TRUE]
        /\ UNCHANGED nonzero_items
     \/ /\ ~is_zero_value
        /\ nonzero_items' = Added(nonzero_items, has_items.nonzero, Bar, NameText(name))
        /\ has_items' = [has_items EXCEPT !.nonzero = TRUE]
        /\ UNCHANGED zero_items
  /\ lines' = Append(lines, [bucket |-> IF is_zero_value THEN "zero" ELSE "nonzero",
                             text |-> NameText(name)])
  /\ UNCHANGED numeric_items

AppendNumericItem(name, number) ==
  LET item == NameText(name) \o <<EqualTo, number>>
  IN  /\ numeric_items' = Added(numeric_items, has_items.numeric, Comma, item)
      /\ has_items' = [has_items EXCEPT !.numeric = TRUE]
      /\ lines' = Append(lines, [bucket |-> "numeric", text |-> item])
      /\ UNCHANGED <<nonzero_items, zero_items>>

\* Whether a separator is needed is asked of the text, then of the flags.
CombineOutput ==
  LET zero_too == IF ~has_items.zero THEN nonzero_items
                  ELSE Added(nonzero_items, nonzero_items # <<>>, Comma, zero_items)
      has_output == nonzero_items # <<>> \/ has_items.zero
  IN  IF ~has_items.numeric THEN zero_too ELSE Added(zero_too, has_output, Comma, numeric_items)

\* to_string() constructs a renderer for every call.
Fresh ==
  /\ nonzero_items = <<>> /\ zero_items = <<>> /\ numeric_items = <<>>
  /\ has_items = [nonzero |-> FALSE, zero |-> FALSE, numeric |-> FALSE]
  /\ lines = <<>>

TextLineNext ==
  /\ Len(lines) < MaxLines
  /\ \E name \in DisplayNames :
       \/ \E is_zero_value \in BOOLEAN : AppendNamedItem(name, is_zero_value)
       \/ \E number \in Numbers : AppendNumericItem(name, number)

-----------------------------------------------------------------------------
In(bucket) == SelectSeq(lines, LAMBDA line : line.bucket = bucket)

\* The text cut at its separators, and the separators between the parts.
Separators == {Comma, Bar}
Cuts(text) == SelectSeq([k \in DOMAIN text |-> k], LAMBDA k : text[k] \in Separators)
PartsOf(text) ==
  LET cuts == <<0>> \o Cuts(text) \o <<Len(text) + 1>>
  IN  [k \in 1 .. Len(cuts) - 1 |-> SubSeq(text, cuts[k] + 1, cuts[k + 1] - 1)]

(* The output, cut at its separators, is every line that was shown, once,  *)
(* names of values before names of zero before numbers and each of them in *)
(* the order shown; and exactly the names of values are joined by bars.    *)
(* An empty name leaves an empty part.  The one line that leaves none is   *)
(* an empty name that is the only one of a value.                          *)
OutputShowsTheLines ==
  LET texts(bucket) == [k \in DOMAIN In(bucket) |-> In(bucket)[k].text]
      lost == Len(In("nonzero")) = 1 /\ nonzero_items = <<>> /\ Len(lines) > 1
      all  == (IF lost THEN <<>> ELSE texts("nonzero")) \o texts("zero") \o texts("numeric")
      bars == Len(SelectSeq(CombineOutput, LAMBDA piece : piece = Bar))
  IN  IF lines = <<>> THEN CombineOutput = <<>>
      ELSE /\ PartsOf(CombineOutput) = all
           /\ bars = IF In("nonzero") = <<>> THEN 0 ELSE Len(In("nonzero")) - 1
=============================================================================
