# TLA+ specifications of gr-reveng

gr-reveng is a set of GNU Radio blocks for reverse engineering packet radio. Samples that are
already hard bits go into a deframing block; frames come out as messages; a formatting block
prints and logs them. This directory holds TLA+ models of that code, TLC configurations that
check them on small instances, and proofs of the central properties for every value of the
constants. All paths below are relative to the repository's `src/`.

## 1. The system

| Component | Source | State it keeps | Operations |
|---|---|---|---|
| packet_deframer | `lib/packet_deframer_impl.cc` | search window, in-sync flag, length, bit count, byte being packed, packet | constructor, `work()`, `add_symbol()` |
| pattern_dump (older) | `python/pattern_dump.py` | two bounded deques, log file | constructor, `work()`, `stop()`, `format_output()` |
| line decoders | `python/pattern_dump.py` | none between calls | `pwm_decode`, `man_decode`, `hdlc_data_decode` |
| packet_formatter | `python/packet_formatter.py` | log file | constructor, `handle_pdu()`, `format_output()`, `stop()` |
| flow graph | `examples/`, `grc/` | the queue between the blocks | start, stop |
| docstring generator | `docs/doxygen/swig_doc.py`, `doxyxml/` | lazily parsed objects, caches, output | `make_swig_interface_file()` |
| doxygen XML bindings | `doxyxml/generated/`, `doxyxml/text.py` | one object per XML element | `build()`, `export()`, `exportLiteral()`, `description()` |

**How they interact.** The GNU Radio scheduler runs each block in a thread of its own. It calls
`work()` of a deframing block with the samples at hand, any number of them, and
`handle_pdu()` of the formatter with one message at a time. A deframer publishes on its message port;
the scheduler puts the message into the queue of every connected port. packet_deframer publishes
a PDU, the pair of a dictionary (`name`, `packed`, `ts`) and a vector of bytes.
pattern_dump publishes something else under the same port type, a `pmt` tuple, which
`handle_pdu` sees as no pair and ignores. The blocks share no memory. Stopping a flow graph
ends the threads and calls `stop()`; starting it again uses the same block objects, and no block
here has a `start()`. The docstring generator is a program of its own, run at build time: it reads
doxygen's XML with 81 generated classes and writes the docstrings of the Python module.

**What is hard about it.**
- The deframer carries six pieces of state between calls, some unset until first used, and between
  packets; the unit tests hand over one stream in one call and look at one or two packets.
- The length of a frame comes out of the frame, with a byte offset, an adjustment that may be
  negative, and an upper limit; the end is found with `==` on a count and with `>=` on unsigned and
  signed numbers.
- A sync word may overlap itself, and the window it is searched in is never cleared.
- Every `print`, `write`, `flush` and `close` can raise; each block catches a part of that, and the
  order of publishing, printing, logging and clearing decides what is lost or done twice.
- Threads die of exceptions, while block objects survive and may be started again.
- Formats, bit stuffing and partial groups have boundaries at every length.
- A stop may come at any sample and with messages waiting; every block goes on with what it held.
- Text of an XML element is kept in up to three members (`content_`, `content`, `valueOf_`), each
  read by some later function and not by others; an exception may come out of any depth of `build()`.

**What makes each part correct.** The deframer publishes exactly the frames that follow a sync word,
whatever the division into calls, never one longer than allowed, and every capture ends.
pattern_dump promises the same for a fixed length, and its log must have no silent gap.
The formatter must handle every message in order, keep a log that is complete as long as it keeps one
at all, survive the failure of its files, and put what each placeholder stands for into the line.
The decoders must invert the line codes. The docstring generator must document everything that it
can read, once, and report the rest. The bindings must build the object that the document says, show all
the text a description is to show, and write what reads back as the same.

`PROJECT.json` lists every hazard at its line and the properties that watch it.

## 2. The modules

```
                         FrameSpec                     what a deframer promises
                        /         \
                Deframer           PatternDump         the two blocks that implement it
               /   |    \            |       \
  DeframerHistory  |  DeframerProofs |    PatternDumpProofs
   |        \   DeframerConfigs    MCPatternDump
 MCDeframer  DeframerDoc - MCDeframerDoc

 Deframer   Formatter                               BindingForms
        \   /                                      /          \
       FlowGraph - FlowGraphProofs       CompoundSchema    IndexSchema
           |                                       \          /
      MCFlowGraph    Binding - BindingTree - BindingExport - MCBinding
                        |
                  BindingProofs

 LineCodes                                Subsequences (also of FlowGraph, Binding)
     |                                    /          \
 DumpFormat - LineCodesProofs     FormatOutput       SwigDoc - SwigDocProofs
     |                           /        \             |
 MCDumpFormat    FormatOutputProofs   MCFormatOutput  MCSwigDoc       Timestamp

 InductionLemmas: used by all *Proofs but PatternDumpProofs
```

**FrameSpec** is the abstract specification. It has no counters: a frame is a sequence of samples,
and the length read out of it, its extent and the message made of it are functions of it. A step
searches, takes a sample of the frame, squelches the frame (length above `max_len`), or delivers it;
at the end of a frame nothing is kept.

**Deframer** is packet_deframer. One action is one turn of the loop of `work()`, variables keep
their C++ names.

| Action | Code |
|---|---|
| `Work(n)` | the scheduler calls `work()` with n samples (136-144) |
| `Hunt`, `FoundSync` with `StartPacket` | the search, the comparison, the reset of the capture state, `reserve()` (184-216) |
| `CaptureHeader`, `CaptureLengthBit` | `add_symbol` before and within the length byte, and the early `continue` (82-112) |
| `CaptureLength` | the last bit of the length byte: `max_len`, total length, `reserve()`, and then the test for the end in `work()`, which does not look at `d_in_sync` (82-182) |
| `CaptureBody` with `Finish` | the rest of the packet, and publishing (144-183) |

`reserve()` of a negative number throws `length_error`; the exception leaves `work()` and the thread
dies (`alive`). The constructor leaves `d_have_len`, `d_rx_bit_cnt` and `d_tmp_byte` unset: `Init`
gives them any value. A byte is the sequence of its bits. A sample is 0..3: bit 0 is data,
bit 1 stands for all other bits, which the length byte takes in (`ShiftSample`) and packing masks
off (`ShiftBit`). Samples that are negative as `char` are not modelled. `name` is left out of
the PDU; the time stamp has its own module. `DeframerHistory` adds history variables: the samples
since the last packet ended, the window at that time, and the samples of the frame being captured.
Its `FrameInv` says what `add_symbol` has made of the latter. `DeframerDoc` states the promise of the
header file on top of them.

**Timestamp** is the arithmetic of `ts` (164-171) over a clock that never goes back, with the
second and the divisor scaled down by the same factor.

**PatternDump** is pattern_dump's `work()` and `stop()`. `Search`, `Collect` and `Dump` are the
three ways through the loop body; `Dump` has a disjunct for each way of its ending: no file,
written, print raises, write raises, write and close raise, file closed already. Publishing comes
first and clearing last, as in the code. `Stop` and `Start` are the flow graph's; a thread that
died can be started again with its deques as they were. The `stdout` flag is covered by letting print
raise or not.
Standard error is assumed to work. **DumpFormat** is its `format_output()`: the placeholders are
replaced one kind after the other, each by all its occurrences, so that captured bytes which read
like a placeholder are replaced again. The capture is one of HDLC that LineCodes' transmitter
sends, cut off anywhere.

**Formatter** is `handle_pdu()` and `stop()` of packet_formatter with the queue of its port.
Messages are numbered and of four kinds (a PDU; a PDU whose formatting raises; not a pair; a
pair of the wrong types). One action handles one message, with a disjunct for each error.
**FormatOutput** is `format_output()`: a format is a sequence of pieces (text, placeholders of each
type with one index, a slice or none), a step finds the next match, computes its value and
replaces the *first* occurrence of the placeholder's text, as `str.replace(.., 1)` does, in text inserted before too. Two
things inserted may read like placeholders: the name, and `%(ascii)`, which is the packet's own bytes (`Reads`: the bytes
that have a placeholder in them, and what pieces they are). `NoneMistaken` is exact about when that matters: if a placeholder
comes *after* text that has it in it. Indices may be
negative, as Python's. `Positions` is the reference: which bits a placeholder names, without slices.
`PiecesAssumption` says what formats, names and packets consist of.

**LineCodes** has the three decoders and transmitters for their codes. The transmitter of HDLC
stuffs a zero after five ones; the decoder runs bit by bit beside it, so that the capture
may end anywhere. The transmitters are external: the repository only receives.

**FlowGraph** is a packet_deframer whose port is connected to a packet_formatter, as in
`examples/reveng_simple_test.grc`. It extends Formatter and instantiates Deframer on variables of its own:
a packet published is a message posted. Other blocks may post too. `StopGraph` and `StartGraph`
affect both threads; no block of a stopped graph is called. History variables keep the run (the time between
a start and the next stop) in which each sample of the search window was read.

**SwigDoc** is the docstring generator. One action is one turn of one of the five loops of
`DoxyIndex._parse` and `make_swig_interface_file`. The index is a sequence of compounds, each with its
file (ok, broken or missing) and its members. Descriptions are the names of their owners. Compounds
of a kind that doxyxml has no class for are `odd`. `IndicesAssumption` says what an index consists of, `NamesAssumption`
that one name stands for one thing in the program documented: two classes share no name, neither of their own nor
of a function, none is that of a function outside the classes, and in a class or header a name is of one kind. It is
external, as the index is, and the code relies on it: it looks up classes, members and blocks by name alone.
`make_name` is one-to-one in the model; in the code only a name and the same with an underscore after it collide.

**Subsequences** has `Chosen(s, S)`, the elements of a sequence at the positions S, by a recursive
function. It takes the place of the library's SelectSeq, a recursive operator, which the proof
system can neither expand nor reason about.

**Binding** is what the generated classes do. All 81 were generated from two XML schemas by one
program and differ in a few facts only: the attributes they look for, the children they know, where
each child and the text goes. **BindingForms** has the forms these come in, **CompoundSchema** and
**IndexSchema** one entry for each class, translated from its constructor, `buildAttributes` and
`buildChildren`. In Binding a state is the stack of elements under construction, each with the nodes
read and the object built so far; an action reads one node of the document (text, CDATA, a comment,
a known or an unknown element) or ends an element. So the document is not fixed beforehand, and
every document of the size is tried for every class. `ClassesAssumption` says what the classes of both schemas
have in common: a tag is known as one child, and children that share a member are kept in one way. A frame of the
stack keeps, as a history, what each of its nodes was made (`made`). `LevelByLevel` says of every frame at every
node what its object has to be: each member holds the items that belong to it, in order or only the last. **BindingTree** has
what takes recursive operators: `ObjectOf`, the reference for the object a whole document stands for, and
`description_bit` of `text.py`. **BindingExport** has `export()` and `exportLiteral()` as functions of the object. `export()` is
modelled with the line breaks and indentations it writes (`NewLine`, `showIndent(level)`), since `build()` reads them back as
text of the element they are in, whenever its class takes text. A blank is told from other text, so that objects can be compared
with and without blanks.

MC modules define the values of the constants, nothing else.

## 3. The runs

All cfgs bind constants only. States are distinct states found by TLC.

| Run | Question | Bounds | States |
|---|---|---|---|
| `deframer` | Does packet_deframer implement FrameSpec; with negative lengths, lengths above `max_len` and sync words that overlap themselves, what does the window hold, is the `==` always met, does every capture end? | 14 configurations (fixed, variable, offset, adjusted, squelched, packed, at the limits), 2-bit bytes, samples 0 and 1, calls of 1 or 2 samples | 26,297 |
| `pattern_dump` | Does pattern_dump implement FrameSpec, and is its log without gap, if everything may fail? | 3 patterns, every fault, 1 restart | 967 |
| `flowgraph` | Deframer feeding formatter: is the log complete while open and never repeated, is every message handled and in order, how many packets does a restart splice? | 2 configurations, 1-bit bytes, 3 messages of 4 kinds, both files may fail, 1 restart at any sample | 707,198 |
| `format_output` | Is the line its format with each placeholder substituted? | all formats of up to 3 out of 10 pieces, indices of both signs, 2 names, one of which reads like a placeholder as 2 of the packets do, packets of 0, 2, 4 and 6 bits, bytes of 3 bits | 34,452 |
| `line_codes` | Do the decoders invert the codes, and does pattern_dump's line show what they make of the capture? | 9 bits sent, bytes of 3 bits; all formats of up to 2 out of 9 pieces, 3 captures that read like placeholders | 1,039 |
| `swig_doc` | Is everything readable documented once, everything broken reported, and does a broken class never end the program? | all indices of up to 3 compounds out of 23 | 144,014 |
| `binding` | Does each generated class build what the document says, at every node and on the whole, is its description complete and in order, what survives being written? | all documents of 2 nodes below each of 81 classes, 3 or 4 below those whose members interact | 338,897 |

**Why these bounds are enough.** A 2-bit byte has a first and a last bit, so every test in `add_symbol` has a
sample before, at and after its limit; a length byte holds 0..3, below, at and above `max_len`. Calls
of one and two samples put the end of a call before and within everything. A 3-bit sync word is long
enough to have borders of length 1 and none. Streams are unbounded: no run limits how many
packets follow each other, since the state is finite. Nine bits of HDLC in bytes of three make
a run of five ones cross a byte end twice and a second run begin. Three messages let one be lost
between two others. Three compounds are a block, its header and one that disturbs them. In `flowgraph` a byte has
one bit: what it asks does not depend on where a byte ends, and the run `deframer` does that. One
restart is enough for a stop in every state of both blocks; for more there is a theorem
(`OneSplice`, `FlowLog`). In `binding` two nodes are a pair of neighbours or a child and its content; the
classes where text, CDATA, comments and children meet get three or four, so that text before, within and
after a child, and a child repeated, all occur. An attribute is none, present, or an integer that is none.
Formats of two pieces have each placeholder before, after and beside every other; the properties
look at each place on its own.

**Fairness.** `deframer`: weak fairness of the next step, that is, samples arrive and the
scheduler keeps calling `work()`, which GNU Radio does as long as there is input.
`pattern_dump`: weak fairness of a bit being handled; stopping needs no fairness.
`flowgraph`: weak fairness of `handle_pdu` alone, the scheduler's loop over the queue of a
running block; the deframer may get no more samples, and a graph stopped may stay so. Nothing assumes that a fault ends, or that a flow graph is started again.
`EveryPacketEnds` is stated for a capture under these conditions, and death of the thread ends it too.

**Runs that find a documented promise broken.**

| Run | What TLC finds |
|---|---|
| `doc_sync` | The window is not cleared at the end of a packet. If the sync word has a border, its old end and bits after the packet together match again: a packet is captured where the stream has no sync word. |
| `doc_timestamp` | Microseconds are divided by 100000.0: a stamp can be smaller than that of an earlier packet. |
| `doc_restart` | pattern_dump publishes first and clears last. If print raises, and the flow graph is started again, the same pattern is dumped twice, the second time shifted by a bit. |
| `doc_ran_out` | `%(bits[3])` becomes a slice, slices never raise IndexError, and the report "Ran out of bits?" is unreachable: the placeholder becomes nothing. |
| `doc_stdout_kills` | If print raises IOError and there is no log file, the handler calls `None.close()`, and the thread dies in spite of the catch-all after it. |

Seen while modelling, without a run of their own:
- A packet above `max_len` is published all the same if `pkt_len_adj` is at most `-(max_len + 1)`:
  `work()` tests for the end after `add_symbol` gave up. `SquelchIsFinal` is stated for the others
  (`SafeSquelch`).
- A negative total length ends the thread (`SafeLength`); `pkt_len = 0` captures one sample.
- Bits that do not fill the last byte of a packed packet are published nowhere.
- `README.md:17` says the least significant bit of a sample counts, but the sync word is
  compared with whole samples, and the length byte takes in all bits.
- An IOError of print makes the formatter close a log file with nothing wrong.
- pattern_dump's message is a tuple, which packet_formatter drops.
- Captured bytes that read `%[man-bits]`, `%[pwm-bits]` or `%[hdlcd]` are replaced, in the output of
  `%[ascii]`, by what the decoder makes of the capture.
- A restart in the middle of a packet splices the samples of two runs into one packet; the window
  of the search does the same to a sync word. If the sync word has a border, more than one packet per
  restart may be concerned, hence the condition of `OneSplicePerRestart`.
- Only an ExpatError of reading becomes a ParsingError (`base.py:196`): the ValueError of an integer
  attribute and the TypeError of markup in a string leave the program.
- A paragraph's `description()` drops all text in bold, in lists or verbatim; CDATA is dropped in mixed content.
- Text of mixed content is written unquoted, some attributes as `None`, the title of a compound
  as Python's representation of an object, and the quoting of CDATA is read back as text.
  `export()` writes a line break after the tag of an element that has a value only, and an indentation before its end tag, and lays
  out the elements of mixed content on lines of their own: all of it is text when read again. So a `scope` holding
  "x" comes back as line break, "x", indentation. `WrittenIsReadBack` says exactly which objects come back up to
  blanks, and which to the letter.
- Bytes of a packet that spell `%(name)` are replaced, in the output of packet_formatter's `%(ascii)`, if `%(name)` comes later in
  the format, and the later one is left as it is; likewise a name that reads like a later placeholder.
- `exportLiteral()` raises AttributeError on any object with one of mixed content in it.
- A broken header file ends the docstring generator (`doxyindex.py:163`), where a broken class is
  reported; a class in a namespace, as all of gr-reveng's are, is never recognised as a block.
- `process_memberdefs` means to tell members apart by name and class, but `mem.__class__` (`base.py:187`) is the class of the
  XML node, which is `memberdefType` for all: of a friend and a method of one name the later is lost (`NamesAssumption`
  excludes it).
- Of a broken class nothing is written under its own name or its functions'; a class nested in it has a file of its own and
  is documented. `Reported` looks at a class's own names (`OwnNames`), not at all that begin with its name.

## 4. What is proved

TLAPS checks these for every value of the constants that satisfies the named assumptions of the
modules (types of the configurations, of formats and packets and of the index of the docstring
generator, whose names each stand for one thing, samples in 0..3, classes that know a tag as one child, byte width above 0, non-empty `Garbage`).

**InductionLemmas.** The library's induction theorems take an operator as a parameter, which no prover
at hand can instantiate. What stands in for them: every non-empty set of naturals has a least element
(`LeastNatural`, from the well-foundedness of `<` and the theorem that a well-founded relation has minimal elements),
hence a set that holds 0 and, with each number below n, the next one, holds all up to n (`UpTo`), and a function
defined by recursion over 0..n exists (`RecursionExists`). On these rest the lemmas on `Chosen` (what it
keeps, its order, its elements, their number) and on `FlattenSeq`, which are recursive functions of the libraries.

**DeframerProofs.** `TypeOK` is inductive; each further invariant is proved inductive relative to it.
- `TypeCorrect`: `[]TypeOK`, from lemmas on what each helper returns.
- `LengthsAreSound`: `LengthInv`, while a packet is captured its length is not negative, and a fixed
  length is known. That is why the comparison of unsigned with signed numbers at line 149 is safe.
- `NeverCrashes`: no exception under `SafeLength`, the last conjunct of `LengthInv`.
- `CapturesEndInTime`: `BeforeEnd`, the count has passed neither the end of the length byte nor that of
  the packet. The `==` of line 112 is met because the count grows by one from below.
- `SquelchHolds`: under `SafeSquelch` no frame above `max_len` is published. An action property, from the
  types in the one action that can violate it.
- `WindowIsSound`: what the window holds is the fresh samples since the last packet,
  or the end of the old sync word followed by them (`WindowInv`); it needs that the window is
  at most as long as the sync word, and equal to it while in sync.
- `SyncIsGenuine`: for a sync word without border (`Unbordered`), in sync exactly if the fresh samples end
  with the sync word. This is where `doc_sync` shows the hypothesis to be needed.
- `Implements`: Deframer implements FrameSpec, for every byte width, stream and division into calls, packet
  after packet, and every configuration FrameSpec speaks of (`InScope`: `SafeLength`, `SafeSquelch`, `Unbordered`). The invariant is `FrameIsHeld`: `FrameInv`, that at each sample of a
  capture the count is the number of samples taken, `d_tmp_byte` holds the bits of the byte in work, the
  packet is what FrameSpec makes of the frame so far, and the length is the value of the bits of the length
  byte, at first those read so far, then all of them, adjusted. FrameSpec's `Value` and its bytes are of the whole
  frame, the code's are shifted in bit by bit; that both agree is proved by induction on the length.
  The hypothesis is `HardBits`: a configuration that reads a length gets samples 0 and 1 only. It is needed, as the
  length byte takes in all bits of a sample and FrameSpec means the lowest; with fixed lengths
  there is no condition on the samples.

**PatternDumpProofs.** `Implements`: pattern_dump implements FrameSpec under the refinement mapping at the
end of `PatternDump.tla`, for all patterns and lengths that are not empty (`Usable`), whatever
raises, if a block that died in a dump is not started again (`CleanSpec`; `doc_restart` shows why).
`TypeCorrect`: the deques never outgrow the pattern and the length. `LogIsWhole`: a log file still in use misses no message, under the same conditions. The invariants are `DequeInv` (the
output is empty until a pattern is found, and full only in a block whose exception prevented its
clearing, which is what `CleanSpec` keeps from running again) and `LogInv`.

**FlowGraphProofs.** Of Formatter: `TypeCorrect` and `LogComplete`, an open log file holds all messages
formatted, in order, for any number of messages and restarts. `LogIsComplete` is inductive as it stands.
`LogPrefix`: whether open or not, the file holds a beginning of what was formatted. Of FlowGraph: `HasFormatter` and `HasDeframer`: the flow graph implements each of its blocks, so that
whatever is proved of one holds in it; `FlowLog` draws that conclusion for the log. `OneSplice`: for any
non-empty sync word without border and any number of restarts, at most one packet per restart is made
of two runs. The invariant, `SpliceInv`, counts one packet to come as long as samples of an earlier
run wait in the window; the window is described as in `WindowInv`, by how many of its samples have
been read since the last packet, and a match among fewer than all of them would be a border.
`PacketOrder`: the formatter formats what the deframer published, all of it and in order. What is formatted,
followed by the numbers of the PDUs still queued, is inductive as it stands, given what `PduNumbers` makes of a
queue with a message more or less.

**LineCodesProofs.** `HdlcInverts`: at each moment what the decoder put out is the whole bytes of
the data sent, for any data, byte width and end of the capture. The invariant `DecoderInv` ties the
count of ones and the byte in work of the decoder to the transmitter's. `ManchesterInverts`: every
complete group decodes to the bit sent, or to x if one of its bits is wrong. `PulseWidthInverts`: the
same of PWM, with one x for a group cut off after its second bit, and none for one cut off after its first.
`TypeCorrect`: the decoder's count of ones never passes five. `LineIsRight`, of DumpFormat: the
line of pattern_dump has at each placeholder what it stands for, whatever the captured bytes read like: as
every kind is replaced by all its occurrences, the line is the format with each piece carried through all replacements
(`LinePieces`), and what becomes of one piece, one inserted earlier included, is a matter of
cases (`FinalMeaning`).

**FormatOutputProofs.** `LineIsRight`: the line of packet_formatter has what each placeholder stands for in its own place,
for every format string, packet, byte width and indices of either sign, whatever the name and the packet's bytes read like, unless
a placeholder comes after text that has it in it (`NoneMistaken`; `str.replace` would find that first). Two arguments meet here. `SliceIsBits`: Python's clamped slice is
the set of bits that the placeholder names. `LoopInv`: the line is that of the format whose pieces up to the
last match are handled and whose others are as they were. So the placeholder of the next match is
in the line at its own place, and at none before, since what was inserted there has none that looks like it:
`ReplaceInCell` then makes the first occurrence the right one.

**SwigDocProofs.** For indices of any length and classes, headers and members of any number. `TypeCorrect`: `TypeOK`.
`BrokenIsContained`: if the program dies, one
of the causes named in `BrokenClassIsContained` is in the index. The invariant, `ReaderInv`, says that
the classes among the members read are compounds of the index and that each block is one with a file
and a make function (`MembersInv`), what is printed and written (`OutputInv`), and why the program is dead,
if it is. That no entry is empty needs a lemma on flattening the entries of a class (`FlattenWorth`).
`EverythingIsDocumented`: `EverythingDocumented`, a statement about the end of five loops. Its invariant, `WriterInv`, says of each
loop, at each of its turns (`DoneIndex` to `DoneClasses`), what has come of the turns taken:
- `IndexRead`: the classes of the compounds read are members, once each, and a function is a member as often as headers read have it;
- `BlocksFound`: `parsed` holds the classes asked so far, and `blocks` those with a make function among them, once each;
- `BrokenReported`: a broken class has one complaint of the reader if it is in `parsed`, and one of the writer if it has had its turn;
- `ClassesWritten`: a class that has had its turn, as a block or in the last loop, has its entries once; of every other nothing
  is written under any of its names. This half is what lets the next turn add the first entry;
- `BlocksWritten`, `FunctionsWritten`: what the entries of blocks and make functions hold, and that every other function
  has one entry for each of its turns.

`WriterInv` is inductive given `ReaderInv`; that it holds at the end of a loop is `LoopEnds`. Most of the proof is
counting: entries of a name in a concatenation (`CountConcat`), in the flattened entries of a class (`CountFlatten`), members of a
category (`CountCategory`, from a one-to-one map between the places of a sequence and of what is chosen of it,
`ChosenPlaces`). `NamesAssumption` is needed throughout: if a function outside the classes were called as a method, its
entry would be a second one of that name.

**BindingProofs.** For any classes and documents of any depth and length. `TypeCorrect`: every element `build()` goes
into is one that the element around it knows, built with the class it is known by, and each object has all the members of its class.
`LevelsAreRight`: at every node, the object of every element under construction is what the nodes read of it make
up. A string has all the text; `valueOf_` has all of it too, with no two pieces of text side by side; every other member
has the items that belong to it, and nothing else; and an element with anything wrong raises its exception before
another node is looked at. The invariant, `LevelInv`, adds to both properties that the lists have as many items as nodes were
read. Its heart is `FrameGrows`: if an object takes a node the way `Takes` says, it stays right; `TextTaken`, `ChildTaken` and
`UnknownTaken` show that `TextInto`, `ChildInto` and passing over an element do so. `ClassesAssumption` is needed
there: with a tag known as two children, a child would belong to two members and be put into one; and text is
appended, so that a member that takes text must not be one that keeps only the last child.

**Only model-checked.** All liveness (`EveryPacketEnds`, `FoundIsDumped`, `EveryMessageIsHandled`):
TLAPS has no support for fairness of this kind. `BuildsTheTree`, `DescriptionShowsText` and BindingExport: the object a whole
document stands for, its description and what is written of it are recursive operators over the depth of a
tree, which the proof system does not expand; what a single level does is proved.
Timestamp and DeframerDoc are there for a promise that does not hold.

## 5. Not modelled

- How strftime writes the time, placeholders that come about only at the seam of inserted and other
  text, and the byte-for-byte wording of all output.
- Of the generated classes: the `find()` methods and the accessors, which doxyxml does not call or which only
  return a member; the white space within tags that `export()` writes; text that cannot be encoded.
- `build_utils` (template expansion of GNU Radio's module skeleton, used by no block here), CMake files, SWIG
  declarations: no state or no part of the running program. The tests are used as a source of
  configurations; the C++ suite is empty.
- What becomes of a line that was written to a log file and not flushed (`flush=False`): the log is what was handed to
  the file.
- A negative `pkt_len_offset` of packet_deframer, which its documentation rules out and its constructor accepts.
- Samples other than 0 and 1 in the runs. The theorem `SyncIsGenuine` is about any samples; that the length byte takes in
  all bits of a sample is in the model (`ShiftSample`), and `HardBits` of `Implements` excludes it.
- A pattern or a dump length of zero in pattern_dump, and an empty sync word in the flow graph: the
  assumptions of the modules exclude them.
- GNU Radio: the scheduler, ports and queues appear as far as the blocks rely on them.

## 6. Plan

Done: FrameSpec, Deframer, DeframerProofs; PatternDump, PatternDumpProofs, DumpFormat; Formatter,
FlowGraph, FlowGraphProofs; FormatOutput, FormatOutputProofs; LineCodes, LineCodesProofs;
Timestamp; SwigDoc, SwigDocProofs; the bindings (BindingForms, CompoundSchema, IndexSchema, Binding,
BindingProofs, BindingTree, BindingExport). Both refinements of FrameSpec are proved.

Next:
1. The bindings' properties for `Bound` of one node more, class by class, where a run of five
   minutes allows it.
