# pjh_json: specifications, model checks and proofs

TLA+ models of [pjh_json](../src), a C++ JSON library: a DOM parser over a
padded buffer, an incremental pull reader over an `std::istream`, JSON Lines, a
compile-time validator, and the value types, documents, patches, paths, schemas
and writers around them.  The models cover the library's own logic: everything
that keeps state, that two pieces of code have to agree on, or that a failed
allocation, read or write can interrupt.  Section 7 lists what is left out.

## 1. The system

| Component | State | Operations | Talks to |
|---|---|---|---|
| `StreamReader` (`parser/stream.cpp`, `stream.hpp`) | window `m_buf[m_pos, m_len)`, `m_abs_base`, `m_eof`, stack of frames, token scratch, first error, flags | `next()` in its borrowed, owned, optional and result shells, `items()` | the caller's `istream`; shares byte grammar, escapes, number classification and UTF-8 rules with the DOM parser |
| `StreamItems` | prefix tokens, path frames, match of the pending child, emit depth | `next()` | pulls a `StreamReader` |
| `JsonlReader`, `parse_jsonl` | line number, current line, first error | `next()`; one batch call | `istream`; the DOM parser once per line |
| DOM parser (`parser/{parse,value,object,array,string,number,literal,utils}.cpp`) | cursor, end, depth, first error; while it reads an object the keys seen and a lazy `KeyIndex` | one recursive descent, decoding strings in place, RFC 8259 or JSON5 | `Config` at construction and once per object, `Document`'s arena and buffer |
| Byte grammar (`grammar.hpp`), UTF-8 checker (`detail/utf8.hpp`) | none; expected continuation bytes and lead | scan, match, feed | both parsers, the validator |
| Compile-time validator, `ConstJson` (`validate.hpp`, `json_constexpr.hpp`) | none | parse, dump, find, materialise | the grammar; promise what the runtime does |
| `Object` with its hash index, `Array`, `Json`, `String` | entries, lazily built index with a stale flag; tagged union; borrowed or owned text | lookup, insert, remove, merge, compare, order, hash, move, clone | memory resources |
| `Document` | arena, buffer, root | entry points, move, reset | `Config`, memory resources |
| `Config`, `CountingResource` | process-wide atomics and a shared resource; counters | configure, resource, release, reset | everything that allocates |
| Patch, merge patch (`patch.cpp`) | a shadow copy; none | apply the operations in order; merge in place | `Json`, JSON Pointer |
| Paths (`path.cpp`, `access.cpp`), schema (`schema.hpp`) | steps; a path accumulator | walk; validate | `Json` |
| Writer (`writer/*.cpp`) | depth, output | dump to strings, streams, files, lines | `Json`, `Config::max_depth` |

What is hard about it:

* *Alignment.*  `fill()` compacts the window and appends a chunk, so every
  index into the window changes meaning, and every loop over a token may be
  interrupted by a refill at every byte.
* *Partial failure.*  A short read with `badbit` records an error but keeps
  what was delivered; allocations throw in the middle of index builds, merges,
  patches and deep copies; a file is truncated before it is written.
* *Agreement.*  The same rules are written several times: two parsers and a
  validator, two line readers, two path walkers, two writers, three notions of
  equal values, two duplicate-key checks.
* *In-place work.*  String decoding overwrites the buffer it reads from; a
  parser of one JSONL line sees the next line behind it.
* *Caches and ownership.*  The object index may be stale; a document's values
  borrow from its buffer and arena; containers remember a resource; the shared
  configuration is read without a lock.

What makes each component correct:

* `StreamReader`: the window is a slice of the stream; events are well nested
  and are those of the DOM value; a clean end is complete; the first error is
  the DOM parser's and stays; every drain ends.
* `StreamItems`: exactly the events of the values the pointer selects.
* `JsonlReader`: the documents of `parse_jsonl`.
* DOM parser: the same value whichever way duplicates are found; JSON5 extends
  RFC 8259.  Validator: the DOM parser's verdict.
* `Object`: an ordered map whatever the index holds.
* `Document`, `Json`, `Array`: every block goes back once, to its resource, and
  nothing outlives what it borrows from.
* `Config`: no reader uses a released resource.
* Patch: all operations or none.  Merge patch: the RFC's result, also when
  repeated after a failure.
* Order, equality and hash: one notion of the same value.  Schema: the
  conjunction of its keywords.  Paths: one node, whoever walks.
* Writer: what is written reads back; failures reach no caller's sink.

## 2. The modules

| Module | Contents |
|---|---|
| `JsonBytes` | Bytes and the rules all parsers share: literals, the number scan as an automaton, number classification, `handle_escape`, the strict UTF-8 checker. Operators only, without recursion, so that they can be proved about. |
| `StreamReader` | The pull reader as a state machine, its properties and its inductive invariant. |
| `StreamEvents` | The event protocol: the events replayed as their consumer sees them, against the reader's stack. |
| `StreamReaderProofs` | Theorems about `StreamReader` and `StreamEvents`, checked by TLAPS. |
| `Json5Lexer`, `DomParser` | JSON5 trivia, strings, numbers and identifiers; the DOM parser as recursive operators over a padded buffer, for TLC. |
| `StreamVsDom` | The reader set against the DOM parser: verdict, values, first error. |
| `StreamItems` | The prefix filter, one event of the reader per step. |
| `StreamItemsProofs`, `ObjectIndexProofs`, `KeyIndexProofs`, `DocumentLifeProofs` | Theorems about those modules, checked by TLAPS. |
| `MemoryProofs` | Theorems about `ValueLife` and `ConfigShared`. |
| `ValuesProofs` | Theorems about `Schema` and `JsonPatch`. |
| `Induction` | Induction over the naturals and over a fold, `FlattenSeq` as a fold, and sums over finite sets, for the proofs. |
| `Validate`, `Json5`, `Jsonl` | Every short text given to two parsers: the validator and the DOM parser, JSON5 on and off, `parse_jsonl` and `JsonlReader`. |
| `KeyIndex` | The member loop of `parse_object_inplace` with its two duplicate checks. |
| `OrderedMap`, `ObjectIndex` | What `Object` promises, every call one step; `Object` with its hash index, one step per loop iteration, which implements it. |
| `JsonNodes` | The Json value as a tree whose strings and keys are owned or borrowed, and the operations on one node: lookup, the two inserts (one owns a new key, one borrows it), remove, the node at a place. |
| `JsonTree` | The recursive operations: equality, clone, assignment below a root, every node of a tree. |
| `JsonValues` | The names of those operations as constants, for the modules that are proved about. |
| `JsonPatch`, `MergePatch`, `JsonOrder`, `Schema`, `PathAccess` | `patch_result`; `merge_patch`; order, equality and hash; `validate_result`; paths and their two walkers. |
| `Writer`, `ConstDump`, `WriterCalls` | The writer's kernel; the compile-time dump; every entry point as an action. |
| `DocumentLife`, `ValueLife` | Who owns memory: documents with arena, buffer and root; Json values, arrays and their resources. |
| `ConfigShared` | The global `Config` and its counting resource among threads. |
| `MCStreamVsDom`, `MCStreamItems`, `MCObjects`, `MCValues`, `MCTexts`, `MCWriterCalls`, `MCConfigShared`, `MCOwnership` | Instances for TLC. |

`MCValues`, `MCTexts` and `MCOwnership` put several modules together:
a variable names the one that a behaviour is about, and the variables of the
others do not change.

**Bytes.**  A byte is a string naming one byte or a class of bytes that no rule
tells apart: `"ws"` is a whitespace control character (the line feed where lines
matter), `"ctl"` another control character, `"nul"` the NUL, `"C3"`, `"E0"`, ...
one representative of each class of lead bytes, `"80"`, `"BB"`, `"BF"` the
continuation bytes that the special leads separate.  Digits are 0, 1 and 8 (8
starts the high surrogates and makes an exponent too large).  A decoded byte
remembers which character it encodes and which byte of the encoding it is, so
two texts are equal exactly when the decoded strings are.

**`StreamReader`.**  One behaviour is one reader that is drained.  The variables
are the members of the class (`buf`, `pos`, `base`, `eof`, `stack`, `start`,
`root`, `fin`, `err`), the locals that live across a refill (`tok`, `esc`,
`anchor`, `cur`, `ck`, `nst`, `text`), the number of bytes the stream has
delivered (`rd`), the events returned, and `pc`, the place inside `next()`.  A
call starts with `Pull` and ends when `pc` is `"idle"` again.  The body of
`next()` is cut at its refills and loops:

| Action | Code |
|---|---|
| `Fill`, `FillFails` | `fill()`, from `skip_ws`, `ensure` and the token loops; a failed read delivers any part of a chunk |
| `SkipStartBom`, `SkipWs` | `skip_start_bom`, `skip_ws` |
| `TrailingCheck`, `SeparatorCheck`, `NextRoot`, `RootValue` | `next()` with a finished root or an empty stack |
| `ObjectKey`, `ObjectColon`, `ObjectCommaOrEnd`, `MemberOrElement`, `ArrayCommaOrEnd` | the switch on the innermost frame's phase, with `expect_value`, `enter_container`, `complete_value` |
| `StringByte`, `StringEof`, `StringQuote`, `DecodeByte`, `DecodeEnd` | the two loops of `parse_string_token` |
| `LiteralWord`, `LiteralGate` | `parse_literal` and the byte after the literal |
| `NumberByte`, `NumberEnd` | `parse_number`; a scan that reaches the window's end restarts after the refill |

**`StreamItems`.**  `Items` decodes the pointer (`parse_prefix`); `Begin`, `End`,
`MapKey` and `Scalar` are the cases of `next()` for one event of the reader, which
is any producer of well-formed event streams (`EventProtocol` shows that
`StreamReader` is one); `ReaderStops` is its end or error.

**`DomParser`, `Json5Lexer`, `Validate`.**  The descents are operators from a
position to a result: code, position, cursor, value.  The buffer is followed by
NUL padding, or by the next line for a parser of a JSONL line, which is how the
unbounded `skip_whitespace` shows.

**`Jsonl`.**  `parse_jsonl` is an operator (`ParseJsonl`) on the whole text,
`JsonlReader::next` one action per line (`NextLine`, `EndOfStream`,
`StreamFails`).

**`ObjectIndex`.**  The state is a few objects, each with its entries (`data`),
its memory resource (`res`) and its index (`index`: capacity, size, stale flag,
slots), and the call in progress.  A call starts in `Start` (or `Clone`), looks
keys up with `FindLinear`, `FindStale` and `FindProbe` (the three ways through
`find_slot`), goes on in the action named after the operation, and may pass
through `NoteAppend` (`index_note_append`), `Grow` and `Allocate` (`index_build`)
and `Refill` (`index_refill`); `merge` and `operator==` loop with `NextEntry`.
Every allocation has a disjunct or an action in which it throws.  `live` counts
the index blocks taken from each resource, `program` is what the caller does.
The hash function, the threshold (16 in the code) and the first capacity (32)
are constants.  The loops are steps, not folds, so that what they compute can be
proved by an invariant.  `OrderedMap` sees the entries at the beginning of a call
(`old`) until the call returns.  A nested object is its members, a function from
leaves to scalars; what the recursive `merge` makes of two of them is
`MergedValue`, and where it throws half-way it leaves any of `Partly`, the same
with only some members merged.  The branch of `index_note_append` for a stale
index is left out because it cannot be reached (`AppendSeesFreshIndex`).

**`KeyIndex`.**  One object read from text: `Enter` reads the knob, then per
member `ReadKey`, the duplicate check (`Scan`, or `Size`, `Build`, `FindHit`,
`FindMiss`, `Grow`, `Store`, one slot per step) and `Value`; `Toggle` is another thread at
the knob, `Abandon` a throwing allocation.

**`JsonPatch`, `MergePatch`, `Schema`.**  A call is a state machine of its loop:
the structural scan, the shadow copy, `ApplyNext` per operation, `Commit`; a
stack of frames with `EnterObject`, `DeleteMember`, `MergeMember`, `Leave`; a
stack of `validate_node` frames with `TypePass`, `Keyword`, `Property`, `Item`
and their returns.  `OutOfMemory` may happen at any step that allocates.
`JsonPatch` and `Schema` take the recursive operations on trees (`JsonValues`),
and `Schema` the meaning of a schema, as constant operators, since nothing can
be proved in a module that declares a recursive one; `Values.cfg` gives them the
definitions of `JsonTree` and `MCValues`.

**`JsonOrder`, `PathAccess`.**  Values are inserted into an ordered set, which
asks only `operator<`, and a hash set, which asks the hash and `operator==`.
Paths grow character by character and are walked on every tree by `AtPath` and
by `FindPathResult`.

**`WriterCalls`.**  One call of one entry point, on a value and options that Init
chooses, against sinks that already hold something; stream and file operations
may fail.  The kernel (`Writer`) is operators on a sink, with a batch of two
bytes for the SIMD scan.

**`DocumentLife`, `ValueLife`.**  Memory is a set of blocks with the resource each
came from.  A document has an arena, a root and a buffer, any of which may be
absent; each entry point, move, `reset` and destruction is one action whose
operators follow the order of the code's statements (`Assign` is `MoveRoot`,
`MoveBuffer`, `MoveArena`, `RebindSource`).  A value has a head (header or
container object), a body (bytes or storage) and the resources it will give them
back to; `fuel` is the number of allocations until one throws.  `clone` and
`destroy` are recursive functions on the values of at most `MaxNesting` levels
(`Clone`, `Destroyed`), and so is what a value holds (`Holds`).

**`ConfigShared`.**  Every atomic access and every lock operation is a step.
`exclusive` says whether callers keep to the contract of `config.hpp` 34-45.

Definitions whose comment starts with *Slip* are not part of a specification:
each is a plausible mistake in the definition that follows it, and the property
it names (or, in a run, the conjunction that property is a part of) is violated
when it takes that definition's place.

## 3. The runs

| Run | Instance | What it shows |
|---|---|---|
| `stream` | sequences of up to 5 structural fragments (a member needs 5) and objects of up to 5 members and separators, chunks 0 (clamped to 1) and 2, both modes, depth limit 0 and 2; numbers of up to 5 bytes and literals with what may follow, chunks 1 to 3; up to 4 string fragments (escapes, pairs, torn UTF-8, control bytes), chunks 1 and 3, strict UTF-8 on and off | The window is a slice of the stream, decoding stays behind the cursor, the consumer's view of the open containers is the reader's stack, and verdict, values, first error and offset are the DOM parser's but for two orders of errors inside a string (section 6). |
| `stream_faults` | 13 documents, 5 chunk sizes, both modes, BOM on and off, a read failure with every partial delivery at every refill | No made-up event, no failed read taken for an end, the first error stays, every drain ends; also checks the inductive invariant of the proofs. |
| `stream_items` | 266 pointers, every one of up to 3 characters among them; 4 levels, arrays of 3 | The cursor passes on exactly what the pointer selects, with one frame per open container; a pointer is decoded as it is spelled. |
| `objects` | one object with every operation, two objects merged and compared, two objects of two resources cloned and moved: 3 keys of which 2 collide and wrap around, threshold 1; nested objects of up to 2 members with 2 scalars, merged whole or cut off after any of them | Lookups find the first entry, the tables stay half empty, blocks are balanced, `Object` implements `OrderedMap`, and a merge that threw, merged a second time, gives what it would have given at once. |
| `values` | patches of one and two operations over 13 pointers and 3 documents, merge patches of two levels with 3 calls, 3 insertions of 27 values, every two of 33 schema keywords on 15 values, paths of up to 5 characters on 3 trees; keys of the documents owned and borrowed; largest `size_t` 127 | Patches are atomic, self-contained (no string and no key borrows) and obey the RFC's laws; merges converge and borrow nothing from the patch; order, equality and hash agree; the validator's verdict and report are the conjunction's; walkers agree. |
| `writer` | 82 values: strings around the batch border, numbers, well-formed and ill-formed UTF-8, nested containers; 24 combinations of options; 5 buffer sizes | Output reads back, entry points agree, failures leave the caller's sinks alone, depth and UTF-8 are judged as the parser judges them, the compile-time dump is the same. |
| `texts` | every text of 4 fragments out of 22 to 30, of 5 fragments out of 12 for lines; objects of up to 6 members with 5 keys, of which 2 collide and wrap around, threshold 1 | The pairs of parsers agree (section 1), lines of a JSON5 buffer mean what they mean alone; the parser's index is sound, and an object read is what inserting member by member gives. |
| `config` | 3 threads, 3 releases, 2 blocks each, one failed allocation, contract kept and broken | Under the contract no dead arena is used and the debug assertion fires only after a throw; even in breach of it the cache never keeps a dead pointer. |
| `ownership` | 3 documents, 3 arenas, 6 blocks; 2 values and an array of 2 resources, 2 elements, 3 levels, 6 blocks, any of the first allocations of a call throwing | Every block goes back once, to its origin; nothing a live document refers to is gone; containers and clones depend on one resource. |
| `object_held_data`, `json5_strict`, `config_count` | as `objects`, `texts`, `config` | Three statements of the repository that do not hold (section 6). |

A run's property is often a conjunction of named parts, each stated and explained
beside it: `OperationLaws`, for instance, is `ShapeSuffices`,
`ReplaceIsRemoveThenAdd`, `MoveInverts` and `PlacedIsFound`.

The bounds.  A chunk of 1 refills before every byte, 2 and 3 leave every
remainder of the longest tokens used, and nothing in the reader depends on a
chunk size other than through where it cuts.  Five fragments reach every
transition between two phases in a container nested in another; the theorems of
section 4 have no such bounds.  With threshold 1 an index is built at the second
entry with four slots, grows to eight at the third, becomes stale when one of
three is removed and is dropped when one of two is.  Four and five text
fragments close a container with a token, a separator and trivia in it, or end a
line inside it.  Six blocks hold two parsed documents and a third's buffer, or an
array with its deep copy.  Three insertions are what a break of transitivity
needs.  Symmetry is used for threads, documents, resources and values, which are
interchangeable model values.

**Fairness.**  `FairSpec` of `StreamReader` assumes weak fairness of `Step`: the
caller goes on calling `next()` until it returns false, as `for_each_event` and
the documented loop do, and a call that has begun runs on, since it waits for
nothing but the stream.  Only `Termination` uses it.  It also assumes that
`istream::read` returns.

**Deadlock** is checked in every run but `ownership`, where a behaviour ends when
the numbered blocks and arenas are used up.  A drained reader may still be called
and returns false (`PullAfterEnd`), an object can always be called again, and a
call or a text that is finished stutters (`Done`).  In `objects` this includes
that every probe ends: `FindProbe`, `Refill` and `NoteAppend` wait for a free slot
or the key, which the code would look for forever.

## 4. The proofs

Nine components have theorems, in modules of their own, for every value of the
constants that satisfies the component's assumption.  Each rests on an inductive
invariant (`Init => Inv`, `Inv /\ [Next]_vars => Inv'`), with one lemma per action.

| Module | Assumes | Proves |
|---|---|---|
| `StreamReaderProofs` | `StreamAssumption`: inputs are finite byte sequences; chunk sizes and depth limits are naturals | `ReaderInvariant`, and from it `TypeCorrect`, `WindowCorrect`, `TokenCorrect`, `DecodeInPlaceSafe`, `ErrorOffsets`, `CleanEnd`, `DepthLimit`; `EventsWellNested`; the action property `FirstErrorKept` |
| `StreamItemsProofs` | `ItemsAssumption`: prefixes and texts are sequences; bounds are naturals | `CursorInvariant`, `CursorIsSound`, `PrefixIsDecoded` |
| `ObjectIndexProofs` | `IndexAssumption`: finitely many objects; hashes are naturals; the first capacity is not 0; programs use the keys and values there are | `IndexInvariant`, `LookupIsFirst`, `ObjectSound`; `CallProgress` and the refinement `ObjectKeepsPromise` |
| `KeyIndexProofs` | `KeyIndexAssumption`: there is a key; hashes are naturals; the first capacity is not 0 | `MemberLoopInvariant`, `ObjectReadIsInserted`, `ParserIndexSound` |
| `DocumentLifeProofs` | `LifeAssumption`: storages are those of the code, bounds are naturals; documents may be any number | `LifeInvariant`, `MemoryBalances`, `DocumentsStayWhole` |
| `MemoryProofs` | `ConfigAssumption`: bounds are naturals; threads may be any number | `SharedInvariant`, `CacheStaysCurrent`, `ContractIsEnough` |
| | `ValueLifeAssumption`: finitely many variables; bounds are naturals, one level at least; resources may be any number | `ValueLifeInvariant`, `BlocksTheorem`, `BoundTheorem` |
| `ValuesProofs` | `SchemaAssumption`: a schema accepts a value exactly when it is an object whose keywords hold; the parts of schemas and values are schemas and values | `SchemaInvariant`, `VerdictTheorem`, `ReportTheorem` |
| | `PatchAssumption`: patches are sequences, pointers are texts | `PatchInvariant`, `AtomicTheorem` |
| | besides, `Documents`: a set of trees that has the targets and the values of the patches and is closed under clone, edits of a node and assignment at a place; for the second, `TreeLaws`: a clone borrows no string and no key, an assignment brings in nothing but what is assigned; keys of the documents are owned or borrowed (`kept`) | `ShapeTheorem`; `MayDieTheorem` |

`Induction` holds what they share: a set of naturals has a least element, a set
of naturals closed under successor is all of them, and a fold over a sequence is
the last state of a run over it, which the sequence determines, so that a fold
over one element more takes one step more (`RunAppends`).  The prover cannot
instantiate an induction theorem with an operator, but it can with a set, so
what is to be shown of every `n` is stated as a set of numbers.

**The reader.**  That an error's offset was
read needs, inside a string, that the token's positions are stream offsets
(`TokenIsSource`), that the open UTF-8 sequence began inside the token, and
inside a number that the scan has not left the window.  That a clean end is
complete needs that `m_eof` was set only after the last byte, that a finished
root leaves no frame open, and that no step past the checks runs with an error
recorded: the code continues after a failed read in three places only (BOM,
literal, byte after the literal).  `ReaderInv` is the conjunction of these
facts, grouped by the state they are about: `WindowInv`, `StackInv`,
`ControlInv`, `TokenInv`.  The argument has three layers: lemmas on sequences and
on the byte rules (`EscapeFacts`: an escape consumes only bytes of the token and
writes no more than it consumes; `FeedFacts`: a UTF-8 violation is reported at a
byte of the token); one lemma per group saying which steps preserve it
(`WindowRefill` is the one about compaction); one lemma per action.

**The event protocol.**  The events replayed by their consumer
(`FoldLeft(Replay, <<>>, events)`) leave the slots of the frames on the stack
(`SlotsOf(stack)`): an array waits for an element, an object for a key or, from
its key until its value, for a value.  It holds at every step, not only between
calls, since each step that returns an event also moves the stack.  Inductive is
`InStep`: besides, a literal or a number is read only where a value is due and a
string only where a value or a key is (`ReadsWhatIsDue`), which is set long before
the event is returned and must survive every refill in between.  `ReplayAppends`
turns one more event into one more step of the replay; `CompleteSlots` and
`EnterInStep` are the two ways the stack changes (`complete_value`,
`enter_container`).

**The prefix filter.**  `CursorSound` speaks of the last event only.  The
invariant adds what the frames mean: frame `i` says how far the path to the
`i`-th open container matches the prefix and which child is next, as long as a
token of the prefix is left for it (`Mirrors`); events are passed on exactly
inside a container that the whole prefix leads to, and `depth` is how deep
(`PassesOn`); between a name and its value the name has been compared.
`PrefixDecodes` is about `parse_prefix` alone: along the run of the decoder over the
bytes, as long as it has met no malformed escape, the tokens so far spell out the
bytes so far, a tilde that waits for its second byte included (`DecodeByteSpells`),
and it has met none exactly when each tilde before the last byte starts an escape
(`DecodeByteFlags`, `DecodesExactly`).

**The index of `Object`.**  An index that knows the first `n` entries (`Fresh`)
has no slot beyond `n`, and a probe for the key of an entry that is the first of
its key meets that entry before a free slot and before its key elsewhere
(`Finds`).  `n` is `Len(data)`, except while the index is refilled and between an
append and its note (`Known`); a stale index promises nothing but that it is half
empty.  `InsertFresh` is the step of refilling, `FreshLookup` shows that the probe
of a fresh index is the linear sweep, `RemoveAtFacts` that erasing cannot make
the table too full.  The theorems speak of callers that do not go on using a
reference from `data()`: for the others the properties are false, as the run
`object_held_data` shows.

**`Object` as an ordered map.**  The refinement maps `ObjectIndex` to `OrderedMap`
by `Seen`: while a call runs, the map is what it was when the call began, so the
step that returns or throws does the work of the whole call and every other step
is a stutter.  For that the returning step must know how far the call has come:
`Stage` says, per operation and per phase (asking for a key, noting an append,
between two entries), how the entries relate to those of the beginning:
unchanged, one entry longer, or the fold of the first `n - 1` entries of the
other object (`MergedUpTo`).  `MergeNext` extends that fold by one entry,
`MatchAnswers` turns the entries matched one by one into the map's equality, and
what a lookup answers comes from `IndexInvariant`.  A merge that throws half-way
is the map's merge of a prefix of the other object's entries, with the entry it
threw in untouched or, where both sides are objects, merged in part
(`AsMergePart`, `PartlyType`).  `StepFollows` puts the actions together.

**The index of the parser.**  The same probe argument, with two differences.
The table is ahead of the entries: `Knows(s, q, S)` speaks of the keys `q`, which
at `pc = "value"` have one element more than the entries (`Ahead`).  And it grows
out of its own slots, so that which entries have been moved is a set of positions
(`Moved`), each once.  That a probe meets a free slot at all is arithmetic
modulo the capacity (`ProbeReaches`) and `HalfEmpty`.  `SameAsInsert` is
inductive together with what the place of the next value means (`RightPlace`).

**Documents.**  Every live block has one owner that knows its resource
(`DocOwns`, `DocsApart`, `CallerOwns`), and a document's views are of its own
buffer (`ViewsOwn`).  The operations are compositions of moves; each has a lemma
on what it does to memory, and `Sound` is kept by whole operations, not by their
parts.

**Config.**  `CacheCurrent` needs that only a thread that holds the lock shared
is about to store into the cache, and that what it stores is the arena of that
moment; the count of blocks needs the set of all blocks that threads hold
(`HeldBlocks`).

**Values.**  `BlocksAccounted` compares the counters of the resources with a sum
over all that the variables hold, and nothing about the counters alone would keep
it: that destroying a value subtracts exactly what it holds needs that each node
in it goes back to where it came from.  `ValueInvariant` says so of every part of
every value (`Sound`; arrays of the caller besides have no container object),
together with the balance (`Balanced`) and what a clone is made of (`FromOne`,
`Copied`).  The lemmas that carry it: destroying gives back what is held
(`DestroyedFrees`), and a clone that succeeds has taken what it holds, one that
throws has given back what it took (`CloneUnfolds`).  Both are by the number of
levels: a table of destructors or clones that is right on the values of `n` levels
gives one that is right on those of `n + 1` (`TreesUnfold`, `FixedPoint`), which
also shows that the recursive functions exist; within a level the fold over the
elements is a run (`InTurnFrees`, `ElementsCloned`).  A step that changes one
variable changes one summand (`ValueReplaced`, `ArrayReplaced`), a move moves one
(`HeldUpdated`, `RefilledGives`).

**Schemas.**  That the verdict of the loop is the conjunction's is an induction on
the schema, which the prover cannot do.  It is not needed: the invariant says of
every frame which keywords it has found to hold and which children of the current
one are valid (`FrameInv`), that a frame is the visit of its parent's current child
(`Visiting`), and that a schema that accepts the whole value accepts what every
frame looks at (`AcceptedDown`).  A node that returns has then all its keywords
(`NodeAccepted`), so it is valid by the equation of `SchemaAssumption`, and its
parent notes that; a keyword that fails refutes the frame's schema, hence the root's.
`PathInv` says that the first `d - 1` hops lead to the value of frame `d`.

**Patches.**  `Atomic` rests on the control alone.  The other two follow an
operation through: a fold over the tokens of a pointer is a run over them
(`ResolveFolds`, `NodeFolds`), each hop that succeeds leads to a child
(`HopFinds`), so the place that is found leads to a node (`ResolveLeads`) and the
slot is a slot of it (`SlotFinds`).  `ApplyType` says that an operation that has
passed the scan returns a tree of a set that is closed under edits, clones and
assignments (`Shadows`), or fails in one of eight ways.  The set of all documents
is such a set, which gives `ShapeTheorem`; so is the set of those that borrow
nothing, neither a string nor a key (`OwningShadows`: `insert_at` and its
siblings own the key they add), which gives `MayDieTheorem`.  The hypotheses hold of
the finite trees with the operators of `JsonTree`; TLC evaluates
`SchemaAssumption` and `PatchAssumption` on the run `values`, and `TreeLaws` on
its documents and all their nodes.

Only model-checked: `Termination` (liveness); `MergeCanBeRepeated`, which
speaks of a fold over the object that the first fold left behind; and what compares two recursive
readings of the same data, which the modules write with recursive operators, out
of the prover's reach: the comparisons of the reader with the DOM parser
(`SameVerdictAsDom`, `SameFirstError`, `EventsArePrefix`); of `values`, the three laws of
operations besides `ShapeSuffices`, `MergeConverges`, `ComparisonsAgree` and
`PathDenotesOne`; of `texts`, all but the member loop (`SameAsInsert`,
`KeyIndexSound`); all of `writer`.

## 5. Abstractions

* The stream delivers a fixed byte sequence; a failing read delivers any part
  of its chunk.  A read that fails has `badbit` set afterwards; a short read
  without it is the end.
* A number's value is its source bytes and whether it is an integer, a double
  or out of range.  `std::from_chars` and `std::to_chars` are external:
  `OutOfRange` is exact for the digits and lengths used, a double is known by
  its text.
* SIMD scanners are modelled by the scalar loops they replace, except in the
  writer, where the border between batch and tail matters.
* Sizes are scaled where their width matters: the largest `size_t` of a path
  index and of the two readings of a pointer index, the compile-time integers.  The
  overflow guards of `parse_path` and `strict_index` reject a few of the largest
  values too.
* `/` as a short escape behaves as `"`; upper-case hex digits and `E` behave as
  the lower-case ones.  Of JSON5 the tab, `Infinity`, U+2029, `\v` and all but
  one row of the identifier tables are left out: each behaves as a case that is
  there.
* Nothing is said of concurrent use of one object, which the library excludes
  (`object.hpp:46-49`), of move assignment between resources that runs out of
  memory, which ends the program (it is `noexcept`), or of a value assigned from
  inside itself (`json.hpp:384` destroys the target first; the library never
  does it).
* A nested object of a merge in `ObjectIndex` is its members with their scalars;
  their order, a third level and the nested object's own index are left out.
  Without an order any part of the members may have been merged when the
  recursive call throws.
* Whether a key is owned or borrowed is part of the trees of `JsonNodes`, on
  which patches work; `ObjectIndex` and `OrderedMap` compare keys by content, as
  the code does in either mode.
* The two writers share one escape table in the model: comparing the
  compile-time dump with the runtime one is about structure, integers and the
  buffer's limit, not about how a byte is escaped.
* Every owned text has a header and a block of bytes.  `std::pmr::string` keeps a
  text of a few characters in the header itself: such a string has one block and
  one allocation that may throw fewer, and is not treated apart.
* An `Object` is owned like an `Array` of keys and values.  A `String` variable
  of the caller, as opposed to one inside a Json, is not modelled.
* The knobs of `Config` are constants of the models that read them, but for
  `strict_duplicate_keys`, which the parser reads again for every object.

## 6. Findings

With a run:

* `object.hpp:163-165`: "a stale index can only be slow, never wrong".  `data()`
  drops the index when the reference is taken, but the reference outlives the
  next rebuild: `auto &v = o.data(); o.insert(...); v[0].first = ...` leaves a
  wrong index that is not marked stale (`object_held_data`).
* `document.hpp:244-246`: strict_utf8 "rejects ill-formed UTF-8 in string
  content".  The checker skips a control byte in the middle of a sequence,
  trusting a control check that JSON5 strings do not make (`json5_strict`).
* `config.hpp:250`: release() "asserts no outstanding allocations".  An
  allocation that fails upstream has been counted and stays counted
  (`counting_resource.hpp:53`), so the assertion fires with nothing outstanding
  (`config_count`).  `AssertFiresOnlyAfterThrow` shows that this is the only way.

Met while modelling, without a run of their own:

* `stream.cpp:345`: "Error ordering mirrors Parser::parse_string exactly".  It
  does not when the string is unterminated (the reader gathers up to the closing
  quote first), nor, under strict UTF-8, for an ill-formed sequence before a raw
  control byte.  `SameFirstError` shows that these are the only two cases.
* `stream.cpp:241-243`: "the same discipline parse_from_istream uses".
  `parse_from_istream` takes a read of zero bytes for the end whatever the
  stream's state (`parse.cpp:516-519`), `fill()` looks at `badbit`.
* A literal completed by a read that fails is returned as an event although
  `has_error()` is already true.  The event is one of the input's.
* `utils.cpp:67`: `skip_whitespace` is not bounded by `m_end`.  A JSONL line that
  ends inside a container is refused at an offset beyond the line, or, when the
  next line happens to close it, at that line: `{` and `}` on two lines are an
  error of line 2 for `parse_jsonl` and of line 1 for `JsonlReader`.
  `ReaderMatchesBatch` shows that no input is accepted that way.
* `parser.hpp:323` against `parser.hpp:310-311` ("otherwise the smaller of the
  input-derived bound and the byte budget"): when a container is opened at the end
  of such a line, the skip leaves the cursor past `m_end`, the difference wraps
  around, and `initial_reserve` answers the whole byte budget for a rest of the
  line that has no bytes.  The hint changes no value and no verdict and is not
  modelled.
* `stream.cpp:31` and `parse.cpp:370-396`: a line of JSON5-only white space is
  skipped by `parse_jsonl` and an error for `JsonlReader`.
* `parse.cpp:389` against `document.hpp:240-243`: under JSON5 a BOM at the start
  of a later line is white space, not an error.
* `path.cpp:41` against `path.hpp:21,24`: a `]` that closes nothing is taken for a
  character of the key.
* `config.cpp:48` against `config.hpp:59-61`: the block size given to
  `configure()` is read by nobody.

## 7. Not modelled, and the plan

Left out for good: SIMD as such, error texts and line/column, the file-system
checks of `parse_file`, the reserve hint of the parser (`initial_reserve`),
accessors, type tests and iterators (they read a tag or an entry), `get_path` (a
type test on top of `find_path_result`), the `StdValue` bridge, and what is not
the library: tests, benchmarks, fuzzers, examples, build files.

What remains is to prove more, in this order:

1. The byte rules (`JsonBytes`): that the number scan accepts exactly the grammar
   of RFC 8259, as a run of the automaton.
2. `MergeCanBeRepeated`: merging is idempotent entry by entry, by the runs of
   `Induction`.
3. `MergeConverges` and the laws of patch operations, by levels of nesting, as
   `ValueLife`'s deep copy is.

