# A verification development of rt_logger's enum descriptions

`rt_logger` (C++17, header-only, `src/constexpr/`) lets a program describe an
enum's bit layout once, in a fluent builder, ship that description as a small
byte program, and render values from it on another machine. This directory holds
TLA+ models of that pipeline, the TLC runs that check them on small instances,
and the TLAPS proofs about them. `PROJECT.json` maps every definition to the
lines it models.

The library is sequential: no threads, no I/O, no clocks. What is hard in it is
not scheduling but *long sequences of legal calls on shared, fixed-capacity,
append-only heaps*, the states that a call leaves behind when it throws half way,
and a byte grammar in which writer and reader must agree on who owns a postfix
opcode, over a byte format in which both must condense, expand and count alike. The
properties are aimed there.

## 1. Inventory

| Component | State | Operations | Talks to | Hard part, and what makes it correct |
|---|---|---|---|---|
| **Heaps** `heap.hpp` | `Strings::memory`, `Items::memory`, `next_id` | `add_string`, `add_item`, `get_*` | used by builder, decoder, renderer | Capacity at every call; `add_string` appends text and NUL in two steps and may keep the first. Never beyond capacity; ids never move. |
| **Item graph** `enum_ir.hpp`, `enum_core.hpp` | variants `Pairs, Named, Numeric, Group, Conditional, Cmds` linked by 16-bit ids; `m_cmds_id` | `item<T>`, `item_if<T>` | written by builder and decoder, read by encoder and renderer | Every link has the kind its reader `std::get`s; lists end; each node has one owner. |
| **Builder** `enum_builder.hpp` | per scope: first and last node, implicit `Named` (id, last pair, mask); the shared enum | `Named`, `Numeric`, `If`, `IfNot`, `Else`, `End`, `Build` | heaps | Scopes cache ids; `Named` calls merge until something cuts them; an empty first branch is turned round by `Else`, an empty else branch dropped by `End`; every call may throw in the middle. The graph must mean what the chain of calls reads as. |
| **Encoder** `enum_ir.hpp` | block budget, scope bitmask, output cursor | `encode` of each item, `encode_block`, `output_program` | item graph to program | Choice between five written forms of a conditional; limited count fields with continuation blocks; assertions on graphs the builder accepts. |
| **Decoder** `enum_decode.hpp` | cursor, recursive descent, enum under construction | `decode_program` | program to item graph | Any input at all: structure, scopes and capacity are checked on the way; postfix `Else` and `ContinueScope` go to whoever looks first. |
| **Renderer** `enum_render.hpp` | three text buckets | `render_*`, value views | reads the graph | Which commands a value consults, under which mask; buckets and separators, with names that may be empty; sign extension of packed and shifted fields. |
| **AnyEnum** `enum_any.hpp` | a view of the caller's program; a variant of eight typed enums; a value as 64 bits | dispatch on the header byte, value views, output | decoder, renderer | Right alternative for each header, read when `Build()` is called; values survive the 64 bits. |
| **Integer codec, masked bits** `int_codec.hpp`, `masked_bits.hpp`, `bit.hpp` | none | fixed width, `dint`, `condense`, `expand` | encoder, decoder, renderer | Inverses at every width and boundary. |
| **String** `string.hpp` | buffer, size | `std::string`-like | string heap | A failed call changes nothing; the NUL is in place whatever the buffer held before; views of a string may be its own argument. |
| **Number text** `int_to_string.hpp` | none | four bases | renderer's users | The most negative number; sizes known beforehand. |
| **CRC** `crc.hpp` | none | CRC-16, bit by bit | nobody yet | A change of a byte must show. |
| **Logger blocks** `rt_logger.hpp` | ring of blocks, sequence number | `next`, `done` | nobody | The header is unfinished: it calls functions that do not exist. |
| **Support headers** | none | traits, operators, text conversion | all | No state. |

A call of the builder goes to the heaps and leaves ids in its scope; `Build()`
copies the enum; `output_program` walks the copy; `decode_program` fills the
heaps of a new enum; the renderer walks either one. There are no callbacks and
no shared state besides the enum that the scopes of one builder share by
reference.

## 2. Modules

```
EnumIR            stored items, what rendering consults
  EnumBuilder     the fluent builder on the two heaps
    EnumBuilderProofs     theorems: types, links, scopes, and the graph as a whole
    EnumAuthor            one chain of calls, each tied to its call of Description
    MCEnumBuilder         TLC instances, the refinement
  EnumProgram     the tokens of a program
    EnumEncoder   graph -> program (pure operators)
    EnumDecoder   program -> graph (state machine)
      EnumDecoderProofs   theorems
      MCEnumDecoder
    EnumRoundTrip builder + encoder + decoder
      MCEnumRoundTrip
Description       abstract specification of a description

MaskedBits        condense, expand, sign extension on words
IntCodec          fixed-width integers and dints
  WordProofs      lemmas: words, masks, integers and dints of any width
NumberText, Crc   int_to_string, crc16
  WireArithmetic  calls on all of these, and what their results have to be
    WireArithmeticProofs  theorems
StorageHeader     the first byte of a program
  ProgramBytes    the bytes of the tokens: two writers, one reader
  AnyEnum         the description whose type the header names
    StorageProofs         theorems: the two writers; what is written is read back;
                          the dispatch and the views
    MCWire        the three together for TLC

Characters
  FixedString     the storage of string<N>
    FixedStringProofs     theorems: the storage operations
    StringObjects strings that are changed, next to BoundedText
      StringObjectsProofs theorems
    StringHeap    texts and their ids
      StringHeapProofs    theorems
EnumText          the buckets of the renderer
    MCTexts       the three together for TLC
BoundedText       abstract specification of string<N>
```

**EnumIR.** An enum value and every mask is the set of its one bits, so
`value & mask` is an intersection and "subset of the scope" is `\subseteq`. Ids
are `1 .. ItemSpace` with 0 for none, as in the code. A stored string is its
name: string ids never move and are only ever compared with 0. `Consulted` is
`render_cmds` with its output replaced by the list of lines it looks at.

**EnumBuilder.** `items`, `used`, `chars`, `cmds_id` are `Items::memory`,
`Items::next_id`, `Strings::memory.size()` and `Enum::m_cmds_id`; `scope[g]` is
the scope object that extends Group `g`, the root for 0. Each call of the fluent
interface is one operator whose disjuncts are its outcomes: it extends an open
`Named` or starts one, it reuses an empty branch or opens a new one, or it
throws, keeping exactly the items and characters stored before the throw. The
code's `assert`s are guards. `Spec` lets any open scope be used at any time, as
code that holds scopes in variables may do. `thrown` is a history variable.

**EnumAuthor.** The builder as one chained expression uses it: only the innermost
scope is called. Beside the builder it records, from the calls alone, the call
made last with its arguments (`call`) and the conditions entered so far (`open`).
A call that comes back is recorded as itself, one that throws as "refused".

**Description.** What the author was promised, without heaps or lists: for each
value, the sequence of lines written under conditions that the value meets. Its
steps are labelled: `Next` takes the step of the call in `call'`, with its
arguments, and no other. So `ImplementsDescription` asks of each call of a chain
that it adds its own line, and just that, that it goes to the values that meet the
conditions *called for*, whatever the builder stored of them, and that a refused
call adds, moves and loses none. The only thing read out of the builder's graph is
`Meaning`, the lines that rendering consults for each value.

**EnumProgram, EnumEncoder.** A program is a sequence of tokens, one for each
opcode with its fields, one for each pair. The count fields hold the numbers the
code stores in the opcode byte (some reduced by one). The limits 15, 8, 16, 32
of `max_items_for_block` are constants, so that runs can overflow a block in a
few calls. The encoder writes the recursion `Cmds::encode` / `Pairs::encode`
through `encode_block` as the flat sequence it emits. `Encodable` collects the
assertions that a graph may meet.

**EnumDecoder.** The recursive descent is an explicit stack: a "branch" entry is
a running `parse_command_branch`, `parse_pair_branch` or `parse_root_commands`,
a "cond" entry a running `parse_conditional_command`. `next` is the token under
the cursor, which the decoder peeks at. In `EnumDecoder!Spec` the token after it
is any token, so all programs are covered, legal or not; `EnumRoundTrip` feeds it
a given program. `Misread` is where an opcode stands in the place of a pair: its
bytes are read as a value and a text, and what comes of it is beyond a token
model, so the run ends there.

**EnumRoundTrip.** An author completes a description in one chain of calls that
succeed, `output_program` writes it (with or without `Terminate`), and a decoder
with a heap of the same size reads it.

**FixedString, StringObjects, BoundedText.** A string is its storage, leftover
characters included, and its size. A pointer that a call reads from is into the
storage being written (`Own`) or elsewhere, and `CopyLoop` reads through it after
each character it wrote, as the loops in the code do. Each step of
`StringObjects` is a call on the storage *together with* the call of
`BoundedText` it stands for, where a call replaces a text or throws. Both sides
decide for themselves whether they throw; `ReadsAsText` says that they stay in
step. This is a refinement stated as an invariant of the joint steps: the
abstract call is fixed by the concrete one, not chosen.

**StringHeap.** `Strings<N>` on a `FixedString`: ids, both `get_string`s, `end_id`,
and both ways in which `add_string` fails. `issued` is history.

**MaskedBits, IntCodec, NumberText, Crc, WireArithmetic.** Words are naturals
below `2^Digits`, and signed ones are cast where the code casts. The functions
are those of the code, loop by loop, as recursive functions;
`WireArithmetic` makes one call per behaviour and compares it with what a reader
of the documentation would write down: sums of weights of bits and digits. A
dint group has `Payload` bits (7 in the code) so that a byte has few values and
every boundary of a small integer is met.

**StorageHeader, ProgramBytes.** The bytes behind the tokens of `EnumProgram`. The
same encoder runs over the writer that counts and the one that writes; the model
advances both in one step, so that `SizesAgree` compares them at every opcode.
`open` is the blocks whose opcode byte is reserved, as the stack of
`encode_block` calls holds them; `Patch` is `or_byte_at`, when a block ends. The
reader takes one token at the place and under the mask that the decoder would
(which is what `EnumDecoder` models) and reads its fields; a read that throws
leaves the cursor alone.

**AnyEnum.** The builder holds a view of a buffer that its owner may overwrite
before `Build()`. Behind the first byte a program is sound or not, which is
`EnumDecoder`'s business. `view.bits` is `m_value_bits`.

**EnumText.** The three buckets are sequences of pieces (names, numbers,
separators). A name is one piece and an empty name none; a name that itself holds
a separator is beyond the model, and makes the output ambiguous.

## 3. Runs

**Fairness.** The library has no scheduler. What can be said to happen is that a
call, once made, runs to its end: `decode_program` is one call, whose steps
follow each other without a caller in between, so `FairSpec` of `EnumRoundTrip`
has weak fairness of `Decode`, and of nothing else. Authors may stop. Under it
`DecodingEnds` says that a decoding that has begun ends, with an enum or with an
exception; that a program is finite is not enough, since a parse function might
wait at the same byte for ever. It is checked of programs that the encoder wrote;
of arbitrary ones, the run `decoder` checks what they leave behind, not that they
end. The other specifications are safety only. Deadlock checking is off
everywhere: an author may stop, a heap may be full, a decoder is done.

| Run | Checks | Bounds | Why they are enough | Distinct states |
|---|---|---|---|---|
| `builder` | `TypeOK LinksTyped ScopesTyped OwnedOnce EncodableWhenComplete NeighboursDiffer OnlyGrows ImplementsDescription` | 8 items, 5 characters, 2 bits; scopes in any order, or one chain; a name that never fits; a selector that is refused | Two open branches and a command fit, nested under conditions on different bits or side by side; a conditional with both branches, either side first, labelled or not; every call can fail at each of its steps: text, NUL, first, second or third item | 119 737 |
| `roundtrip_forms` | `RoundTripUnambiguous Reencodes` | 11 items, 2 bits, labels, If blocks of 2, others of 1 | Every form of conditional on both sides, masks that narrow, limits that differ per block | 384 065 |
| `roundtrip_nested` | `RoundTripUnambiguous DecodingEnds` | 13 items, 1 bit, blocks of 1, continuations of 2, `Terminate` appended | Conditionals in both branches of conditionals; a second continuation block | 136 169 |
| `decoder` | `TypeOK LinksTyped AllOwnedOnce ScopesNarrow` | any program over 19 tokens, 8 items, 6 characters, 5 calls deep | Both heaps run full at every point of the descent; masks that are legal at the root only, or nowhere | 348 787 |
| `texts` | `StringsTerminated ReadsAsText IdsKeepTheirText TextsApart RangesKeepTheirText OutputShowsTheLines` | two strings of 3 characters over two letters and NUL; a heap of 8 characters, texts of 0 to 3 and what is read back; 5 lines, names that may be empty | All storage contents behind every size; every overlap of a view with what is written; a heap that fills up at the text and at the NUL; each bucket empty, with one item and with several | 76 024 |
| `wire` | `ScopedValuesReadBack NumericFieldsAreSums IntegersReadBack DintsAreExactOrRefused NumberTextsReadBack CrcSeesChanges SizesAgree ReadsWhatWasWritten CutIsNoticed ViewsShowTheirValue DispatchIsTotal` | every mask and value of 5 bits; integers of 4 and 8 bits, groups of 3, byte strings of up to 3; programs of 4 tokens, 8- and 16-bit values, blocks of 1 and 2; the eight types at a quarter of their widths | 8 bits are not a multiple of 3 as 16, 32 and 64 are not of 7, so the last group is partial; 4 bits end one bit behind a group; programs hold a block that goes on in a continuation, nested masks, and a conditional with both branches, labelled or not; all headers, legal or not | 116 495 |
| `dint_overflow` | violates `DecodedFits` | as `wire` | | |
| `builder_partial` | violates `NamedNeverEmpty` | 6 items, 4 characters | | |
| `dangling_else` | violates `RoundTrip` | real block limits | | |
| `continue_scope` | violates `RoundTrip` | blocks of 1 | | |
| `inline_numeric` | violates `NeverAborts` | real block limits | | |
| `end_id` | violates `EndIdEndsTheText` | as `texts` | | |

What the passing runs show. A builder whose scopes are used in any order, with
calls failing at any point, keeps one well-linked forest: no list node and no
pair is lost or shared (`OwnedOnce`), nothing stored is rewritten and no branch
with commands leaves its side of its conditional (`OnlyGrows`), and the ids that
scopes cache stay good (`ScopesTyped`). One chain of calls means what it reads as
(`ImplementsDescription`), call by call; in particular a failed call changes no
value's lines. A branch that is still empty may be dropped or turned, and `OwnedOnce`
allows a Group without an owner; that the right one is dropped is
`EncodableWhenComplete` and `ImplementsDescription`.
What the decoder accepts, from any input, is a graph that the encoder and the
renderer can walk (`LinksTyped`), with nothing unreachable in it (`AllOwnedOnce`)
and with scopes that narrow all the way down (`ScopesNarrow`). A program whose
postfix opcodes directly follow their branch decodes to the same meaning, and the
decoded graph encodes to the same program (`RoundTripUnambiguous`, `Reencodes`).
`Unambiguous` states that condition on the graph; what it leaves out is of the two
kinds that the runs `dangling_else` and `continue_scope` show.

The bytes carry this: what either writer was given, the reader finds, field by
field under the same masks, and the counting pass allocates what the writing pass
fills (`ReadsWhatWasWritten`, `SizesAgree`); a program cut inside a token is
noticed (`CutIsNoticed`). Words, integers and number texts come back as they were
at every width tried, and a dint that does not fit is refused but for one bit
(see `dint_overflow`). A string reads as its text however it came to be, its own
views as arguments included, and the heap's ids keep reading their texts
(`IdsKeepTheirText`), texts with NULs of their own by their ranges
(`RangesKeepTheirText`); the one
exception is stated in the property: the id of an empty text that nothing
follows, which `get_string` asserts against (`heap.hpp:86`). The renderer loses
no line but one: an empty name that is the only named item of a value leaves no
empty part in front of what follows.

`MCWire` and `MCTexts` put three components side by side, with no state in common;
each behaviour is about one of them, so that one run's bounds and one run's time
serve several small questions.

### Where code and documents disagree

* **`dangling_else`.** The if branch ends with a conditional without an Else, and
  the outer conditional has one. The decoder gives the Else to the inner one and
  the description silently changes. `Enum.md:759` calls these opcodes unambiguous.
* **`continue_scope`.** A command branch overflows its block right behind a
  `Named` or a conditional: the `ContinueScope` is taken by that command. The
  decoder then reads an opcode as a pair. The run uses blocks of one element;
  with the real limits it takes 16 commands in an if branch, or 9 in an else.
* **`inline_numeric`.** A conditional with a single `Numeric` whose mask is
  narrower than the branch is accepted by the builder and fails an assertion in
  the encoder (`enum_ir.hpp:1206`).
* **`builder_partial`.** A `Named` call that runs out of heap after its item was
  linked leaves a `Named` without pairs, which the encoder asserts there is none
  of (`enum_ir.hpp:1137`).
* **`dint_overflow`.** `decode_dint` tests for lost bits against the unsigned
  width. A signed type whose value needs exactly one bit more lets it through, and
  it becomes the sign: `FF 01` decodes to -1 as `std::int8_t`, while
  `int_codec.hpp:370` promises an exception. The enum decoder reads unsigned dints
  only.
* **`end_id`.** `end_id()` counts from 0 and the end that the two-parameter
  `get_string` takes from 1, so the way that `heap.hpp:34-37` describes to read a
  text with a NUL of its own drops its last character. The text itself is there
  (`RangesKeepTheirText`). Nothing under `constexpr/` uses it.

All six were reproduced with the library itself, in a debug build.

Each property of a passing run has a mutant in `PROJECT.json`: a plausible bug in
one definition that makes TLC report that property violated.

## 4. Proofs

Every theorem below holds for *all* values of the constants: sizes of heaps and
strings, sets of bits, names, formats, masks, texts, tokens, block limits. Each
property named in the table was checked by TLC before it was proved.

| Module | Theorems about `Spec` of its component |
|---|---|
| `EnumBuilderProofs` | `[]TypeOK`, `[]LinksTyped`, `[]ScopesTyped`, `OnlyGrows`, `[]OwnedOnce`, `[]EncodableWhenComplete`, `[]NeighboursDiffer` |
| `EnumDecoderProofs` | `[]TypeOK`, `[]LinksTyped`, `[]AllOwnedOnce`, `[]ScopesNarrow` |
| `FixedStringProofs` | what each storage operation does, the copy loop, the first NUL |
| `StringObjectsProofs` | `[]StringsTerminated`, `[]ReadsAsText` (`ObjectSpec`) |
| `StringHeapProofs` | `[]IdsKeepTheirText`, `[]TextsApart`, `[]RangesKeepTheirText` (`HeapSpec`) |
| `WireArithmeticProofs` | `[]IntegersReadBack`, `[]DintsAreExactOrRefused`, `[]ScopedValuesReadBack`, `[]NumericFieldsAreSums`, `[]CrcSeesChanges`, `[]NumberTextsReadBack` (`ArithmeticSpec`) |
| `StorageProofs` | `[]SizesAgree`, `[]ReadsWhatWasWritten`, `[]CutIsNoticed` (`BytesSpec`), `[]DispatchIsTotal`, `[]ViewsShowTheirValue` (`AnySpec`) |
| `WordProofs` | lemmas only, without state: the two modules above build on them |

**The builder: types, links, scopes.** `IInv == TypeOK /\ LinksTyped /\
ScopesTyped` is inductive (`Inductive`), for scopes used in any order and calls
that throw. None of the parts is inductive alone: that linking a new node
behind `last` keeps lists leading onward needs `ScopesTyped` (`last` is a `Cmds`
node that ends its list), that `ScopesTyped` survives the use of *another* scope
needs that no two open scopes share a last node, an implicit `Named` or a last
pair (`Apart`, part of `ScopesTyped`), and both need that fresh ids are fresh
(`TypeOK`, and every stored id is at most `used`). The argument goes by three
shapes of step, each a lemma: a step that stores items and appends a node to one
scope (`AppendInv`), a step that stores items nobody leads to yet (`QuietInv`,
for calls that throw), and the steps that change a conditional or end a scope.

**The builder: the graph.** A call does one of three things to what is stored: it
sets one link that was 0 (`Grows`), it changes the branches of one Conditional
(`Rebranches`), or it changes nothing (`Still`). The lemmas called `...Effect`
say which, for each operation and each place where it may throw; the properties
are then proved once for each of the three.
`OwnedOnce` counts links, and is proved from the inductive `Graph`: no item above
`used` is taken (`FreeAbove`), the root list starts inside (`RootInside`), no two
links lead to one item (`OneOwner`), every list node and pair is led to
(`ListsOwned`), and, so that `Else` and `End` may turn the branches of a
Conditional round, every open branch is a branch of the Conditional that its scope
remembers, the only one of it that is open, and before `Else` the only one it has
(`BranchScopes`). `OnlyGrows` follows from what each call does and from that last
part: `Else` fills a side that was 0, or moves a branch that is empty, and `End`
drops one that is (`CallBranches`).
`EncodableWhenComplete` needs that, unless a call threw, every command has its
pairs or branches, and a branch is empty only while its scope is open
(`CommandsFull`).
`NeighboursDiffer` needs that the last node of an open scope is what the scope
remembers it as (`LastOpen`).

**The decoder.** `DInv == TypeOK /\ LinksTyped /\ StackTyped /\ OneHolder /\
RootTaken`. A half-built graph is not yet linked together: a list hangs off the
enum, a Group off its Conditional and a command off its node only once the parse
function that built it returns. So the invariant ties the graph to the calls in
progress. `StackTyped` says that they stand on one another as the parse functions
call, that what they keep (heads and tails of lists, finished Groups) is stored
and of the right kind, that the room for a Group to come is empty (`ElseFits`),
and that no two calls append behind the same item (`TailsApart`). `OneHolder` says
that each stored item is a part of exactly one other or is kept by exactly one
call; when the root's call is the only one left, only its head is kept
(`RootTaken`), and `AllOwnedOnce` follows. The actions are taken one by one; what
they have in common, that of the items stored before at most one changes and that
is a list's end linked to a new item, is `Extends`.

**The decoder's scopes.** `ScopesNarrow` speaks of whole lists, and of the branch
in which each stands; a half-built list is in neither yet. `Scoped` says that
there is a labelling of the items by masks that fits: a list node has the scope of
the branch it was read in, a Group that of its list, a pair the mask of its
`Named`; each call in progress has, as its scope, the label of what it keeps, and
stands within the scope of the call below it (`StandsWithin`). Labels are given
once, when an item is stored, and no step changes one (`ScopedStays`), since
lists are only extended by the call that owns them, which is `DInv`'s part.
`ListFrom` is the least set that has a list's first item and with an item the next
one, so that what all of a list has in common is shown by naming a set
(`ListScoped`).

**Strings.** `CopyLoop` reads through its pointer after each character that it
wrote, so that a string appended to or inserted into itself reads what it has just
written. `Copies` says when that does not matter, by induction over the rounds; on
it rest lemmas for appending, assigning, pushing, resizing and cutting. Each call
of `StringObjects` is then shown to do to the storage what `BoundedText` says of
the text, and to throw when it throws: the refinement of `string.hpp`'s interface,
as an invariant of the joint steps (`ObjInv == StringsTerminated /\ ReadsAsText`
and the text's type). `HeapInv` of the string heap says that its storage is
terminated, that each text stands at its id with a NUL behind it and within the
size, and that no two overlap. It assumes
what `heap.hpp:42` asserts, that a heap has fewer characters than an id can count,
and would not hold otherwise.

**Integers.** The provers know no law of powers. `FS_SUBSET` of the library says
that a set of n elements has 2^n subsets; that exponents add is then a bijection
between the subsets of a union and pairs of subsets (`PowerOfSum`). From it and
the uniqueness of division follows what shifting a word right twice does
(`DivisionTwice`, `ShiftedBits`), and that a word is its lowest group and the
groups above it (`GroupByGroup`). Each loop of the code is a recursive function,
shown by induction to hold after every turn the groups or bytes already passed:
`WordIsRead` for `decode_int`, `DintIsRead` for `decode_dint` on what
`encode_dint` wrote. `AnyDintIsRead` is the invariant of `decode_dint` on bytes
that nobody wrote: while no turn was refused, the word is the sum of the groups
read so far, and once one was, the sum already has more bits than the word. The
theorems hold for every group of two bits or more, every width that
is a multiple of a byte, and every value; a dint may be of any length.

**Words and masks.** A word is told by its bits (`WordsByBits`), and what a loop
computes is told by the bits that it has set so far. A mask numbers its bits from
the bottom (`Rank`): `condense()` puts the bit of the value at position i to the
place `Rank(mask, i)` (`CondensedBits`) and `expand()` takes it from there
(`ExpandedBits`), each an induction over the rounds of its loop. That the two are
inverses is then that `Rank` is one to one on the mask (`RankInjective`); the
decoder's test for a readable value is exact because the ranks are all the
numbers below the bit count (`RankReaches`). What a numeric field shows is a sum
over the bits of the mask, and the same sum with the weight of the top bit
negated if the field is signed (`SignExtended`).

**The checksum.** One round of `crc16_update_byte` loses nothing: the bit that is
shifted out comes back as the lowest bit of the polynomial, so that different
words stay different, and with them those of the same word and different bytes.
One changed byte therefore changes the checksum, and what follows cannot repair
it. Appending the two bytes of the checksum first cancels its upper byte and then
the lower (`UpperByteCancels`).

**Number texts.** Dividing by a base again and again comes to zero, after a count
of rounds that `digits_required` and the loop that writes the digits share
(`DivisionsCount`); from the last digit back, what has been read of the text is
what was left to divide (`DigitsSpell`). That no text is longer than
`max_digits_required` is that the count grows with the magnitude, and that the most
negative value has the greatest magnitude in base 10, and the greatest word no
fewer digits than any word otherwise.

**Bytes: sizes.** `SizesAgree` rests on two facts: each piece that an encoder
hands to both writers has the size of its bytes (`SizedScoped`, `SizedJoin` and
others, for condensed and fixed integers of any type), and the opcodes of the open
blocks lie one behind the other (`ReservedIn`), so that a Patch, which writes the
innermost, writes none of the others. This is the inductive `BInv`.

**Bytes: reading back.** `ReadsWhatWasWritten` speaks of a finished program only;
its inductive invariant `TInv == BInv /\ TokenInv` has to say what the bytes of an
unfinished one are. `FieldsAt` and its parts (`ScopedAt`, `TextAt`, `ShiftAt`) say
what lies in bytes without naming encoder or decoder; that gives the proof three
parts that meet in it. *Writing*: each piece lies in its own bytes, and so do
joined ones one behind the other (`PieceOf`, `ScopedPiece`, `JoinedPieces`), and
they still lie there when the bytes become part of a program, or when bytes
outside of them change (`FieldsMove`). *Reading*: what lies somewhere is read
there, cursor included, and is refused when the bytes end inside it
(`FieldsRead`), by the inverse laws of integers and masks above. *In between*,
`TokenInv`: tokens lie one behind the other and cover the program from the header
on (`Placement`); the opcode of each has all its bits unless it is that of an open
block, which waits for its count (`HeadsDone`, `BlocksOf`); the scopes and masks
are words and none is zero, since an empty mask would be read as no field. `Patch`
is the step that could undo all this: the reserved byte is 0 and or'ing two of its
parts adds them (`OrAdds`), the count fits the bits that its opcode has for it
(`LimitFits`), so the result is the opcode, flag and count that the token records
(`PatchedByte`), and the byte lies in the fields of no token (`PlacementPatched`).
In a finished program no block is open, so that each opcode is read as the token
(`HeadIsRead`); with `FieldsRead` both properties follow.

**AnyEnum.** A view is of the type that the description has for as long as it is
shown (`ViewTyped`), and `SignExtended` on words of that type gives back the value,
which reaches down to the one whose magnitude the type does not have
(`BitsShowValue`). `IsBase` places each of the eight types in the switch; the code in a
header and the place are one number in both directions (`CodeOfBase`,
`BaseOfCode`), whatever the width of a byte.

The assumptions are those on the constants, named in the modules that declare
them: sizes are naturals, "no name" is not a name, arguments are masks, names and
byte strings, a string heap is as small as the source demands, and a group of a
dint has at least two bits. Of a program: a byte has at least 8 bits, as an opcode
needs, texts hold no NUL, as those of the heap, and a block has no more items than
the count bits of its opcode tell apart, which are the limits of `enum_ir.hpp:478-503`
or less.

Induction over numbers is done through the least counterexample (the library's
`NatLessThanWellFounded` and `WFMin`), since the induction theorems themselves
take an operator as a parameter, which the installed provers cannot instantiate.
What is *only model-checked*, and why:

* `DecodingEnds`: liveness under fairness.
* `ImplementsDescription`, `RoundTripUnambiguous`, `Reencodes`: they compare
  what functions over whole graphs (`Consulted`, `Commands`, `EncodedCommands`,
  the decoder's run over a program) compute, which needs induction over lists and
  nested lists, and of two such functions at a time.
* `OutputShowsTheLines`: cuts a text at its separators, by a fold.


## 5. Not modelled

* Byte strings as input of the whole decoder: `EnumDecoder` reads any tokens,
  `ProgramBytes` reads what a writer wrote, whole or cut. Damaged bytes inside a
  field are covered for dints (`DintsAreExactOrRefused`) and scopes
  (`ScopedValuesReadBack`) only.
* The mask under which `ProgramBytes` reads a token is the one the writer had; that
  the decoder finds its way to that mask is `EnumDecoder`'s and the round trip's.
* Empty names and names with NULs in the builder and the decoder, whose names have
  at least one character; `StringHeap` and `EnumText` have both.
* Use of a scope after its `Else` or `End`, which shares a Group between two
  scope objects. A chained expression cannot do it.
* The asserted duplicate check of the builder is a guard, as in debug builds.
* The public accessors of `Enum`, which forward to the heaps; `find`, `compare`,
  `starts_with` and the relational operators of `string`, which forward to
  `std::string_view`; its iterators, which are pointers.
* `machine_num.hpp`: copies of values in the machine's own byte order.
* The format flags of `int_to_string` beyond base and letter case: the lines that
  read them (`int_to_string.hpp:141-150`) do not compile when instantiated.
* `rt_logger.hpp`: unfinished by its own word ("TODO: Flesh out implementation"). It
  is included nowhere and does not compile: functions lack bodies, and `buff_get`,
  which it calls, does not exist. `BlockManager`'s ring is written out, but how
  its blocks are to be taken, filled and given back is not, so a model of it would
  be a guess.
* Support headers: traits and operators, no state. Tests and build files are read
  as documentation.

## 6. Plan

1. Done: the builder and its inductive invariant; encoder, decoder and their
   composition, on tokens and on bytes; strings and the string heap; the
   renderer's buckets; the codec, masks, number texts and CRC; `AnyEnum`; the
   termination of the decoder.
2. Done: the proofs of section 4.
   Next among the proofs: the renderer's buckets; the round trip of a graph, one
   list at a time, if the prover learns to take induction over data.
3. A scope of the builder used after its `Else`, as an action of its own, to show
   which invariants it breaks.
4. `BlockManager`, if the header is completed.
