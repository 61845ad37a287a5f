---------------------------- MODULE WriterCalls ----------------------------
(***************************************************************************)
(* The entry points of the writer: one call, on a value and options that   *)
(* Init chooses, against sinks that already hold something.  Streams and   *)
(* files may fail at every operation.                                      *)
(***************************************************************************)
EXTENDS ConstDump

CONSTANTS Values,    \* the values dumped, objects with distinct keys
          Options,   \* DumpOptions, with Config::max_depth as depth
          Caps       \* buffer capacities of the compile-time dump

VARIABLES value, opts,
          pmr,       \* the caller's pmr::string
          str,       \* the caller's std::string
          os,        \* what has reached the caller's stream
          file,      \* the content of the file
          ret        \* the call made, its error code and what it returned
vars == <<value, opts, pmr, str, os, file, ret>>

Old == <<"a">>
NotCalled == [entry |-> "none", code |-> "None", out |-> <<>>]
Init ==
  /\ value \in Values /\ opts \in Options
  /\ pmr = Old /\ str = Old /\ os = Old /\ file = Old /\ ret = NotCalled

Returns(entry, code, out) ==
  /\ ret.entry = "none" /\ ret' = [entry |-> entry, code |-> code, out |-> out]
  /\ UNCHANGED <<value, opts>>

\* dump_impl: a fresh string that is discarded on failure.
DumpImpl(v, o) == DumpValueTo(Fresh(<<>>), v, o)
Output(st)     == IF Failed(st) THEN <<>> ELSE st.sink

Dump ==
  /\ LET st == DumpImpl(value, opts) IN Returns("dump", st.code, Output(st))
  /\ UNCHANGED <<pmr, str, os, file>>

\* Slip (SameBytesEverywhere): the sink is overwritten.
DumpToPmrOver ==
  /\ LET st == DumpValueTo(Fresh(<<>>), value, opts)
     IN  Returns("pmr", st.code, <<>>) /\ pmr' = st.sink
  /\ UNCHANGED <<str, os, file>>

\* dump_to(pmr::string): straight into the sink.
DumpToPmr ==
  /\ LET st == DumpValueTo(Fresh(pmr), value, opts)
     IN  Returns("pmr", st.code, <<>>) /\ pmr' = st.sink
  /\ UNCHANGED <<str, os, file>>

\* Slip (FailureLeavesCaller): straight into the sink as well.
DumpToStringDirect ==
  /\ LET st == DumpValueTo(Fresh(str), value, opts)
     IN  Returns("string", st.code, <<>>) /\ str' = st.sink
  /\ UNCHANGED <<pmr, os, file>>

DumpToString ==
  /\ LET st == DumpImpl(value, opts)
     IN  Returns("string", st.code, <<>>) /\ str' = str \o Output(st)
  /\ UNCHANGED <<pmr, os, file>>

\* dump_to(ostream): write, then look at the stream.
DumpToStream ==
  /\ LET st == DumpImpl(value, opts)
     IN  \/ Returns("stream", st.code, <<>>) /\ os' = os \o Output(st)
         \/ /\ ~Failed(st) /\ Returns("stream", "StreamWriteFailed", <<>>)
            /\ \E n \in 0..Len(st.sink) : os' = os \o SubSeq(st.sink, 1, n)
  /\ UNCHANGED <<pmr, str, file>>

\* write_file_impl: opening truncates; a failed write or close leaves any part.
WriteFile(entry, st) ==
  \/ ~Failed(st) /\ Returns(entry, "None", st.sink) /\ file' = st.sink
  \/ ~Failed(st) /\ Returns(entry, "FileWriteOpenFailed", <<>>) /\ UNCHANGED file
  \/ /\ ~Failed(st)
     /\ \E code \in {"FileWriteFailed", "FileWriteCloseFailed"} : Returns(entry, code, <<>>)
     /\ \E n \in 0..Len(st.sink) : file' = SubSeq(st.sink, 1, n)

\* dump_file_impl writes once the dump is complete.
DumpFile ==
  /\ LET st == DumpImpl(value, opts)
     IN  \/ WriteFile("file", st)
         \/ Failed(st) /\ Returns("file", st.code, <<>>) /\ UNCHANGED file
  /\ UNCHANGED <<pmr, str, os>>

DumpJsonl ==
  /\ IsArray(value)
  /\ LET st == DumpLines(Fresh(<<>>), value, opts.depth) IN Returns("jsonl", st.code, Output(st))
  /\ UNCHANGED <<pmr, str, os, file>>

DumpJsonlTo ==
  /\ IsArray(value)
  /\ LET st == DumpLines(Fresh(pmr), value, opts.depth)
     IN  Returns("jsonl_to", st.code, <<>>) /\ pmr' = st.sink
  /\ UNCHANGED <<str, os, file>>

DumpJsonlFile ==
  /\ IsArray(value)
  /\ LET st == DumpLines(Fresh(<<>>), value, opts.depth)
     IN  \/ WriteFile("jsonl_file", st)
         \/ Failed(st) /\ Returns("jsonl_file", st.code, <<>>) /\ UNCHANGED file
  /\ UNCHANGED <<pmr, str, os>>

(***************************************************************************)
(* Reading back: the value the DOM parser builds, as a Json tree.          *)
(***************************************************************************)
\* The byte a decoded byte stands for: a copied or short-escaped byte, or one
\* of the bytes of the UTF-8 encoding of a \u escape.
HexValue(d) == (CHOOSE i \in 1..16 : HexNames[i] = d) - 1
Hex4Value(h) == FoldLeft(LAMBDA n, d : (n * 16) + HexValue(d), 0, h)
Escaped(h) ==
  IF Len(h) = 4 THEN Hex4Value(h)
  ELSE 65536 + ((Hex4Value(SubSeq(h, 1, 4)) - 55296) * 1024) + (Hex4Value(SubSeq(h, 5, 8)) - 56320)
Utf8Byte(cp, len, k) ==
  IF len = 1 THEN cp
  ELSE IF k > 1 THEN 128 + ((cp \div 64^(len - k)) % 64)
  ELSE (CASE len = 2 -> 192 [] len = 3 -> 224 [] OTHER -> 240) + (cp \div 64^(len - 1))
Unname(b) == (CHOOSE r \in NamedBytes : r[2] = b)[1]
ByteOf(d) ==
  IF Len(d.of) = 1 THEN Unname(d.of[1])
  ELSE Utf8Byte(Escaped(d.of), Utf8Length(d.of), d.k)
TextOf(text) == [i \in 1..Len(text) |-> ByteOf(text[i])]

IntOf(raw) ==
  LET sign   == IF raw[1] = "-" THEN -1 ELSE 1
      digits == SelectSeq(raw, LAMBDA d : d # "-")
  IN  sign * FoldLeft(LAMBDA n, d : (n * 10) + HexValue(d), 0, digits)
DoubleOf(raw) ==
  [i \in 1..(IF IsSuffix(<<".", "0">>, raw) THEN Len(raw) - 2 ELSE Len(raw)) |-> Unname(raw[i])]

RECURSIVE FromDom(_)
FromDom(v) ==
  CASE v.type = "Null"    -> NullNode
    [] v.type = "Boolean" -> BoolNode(v.raw[1] = "t")
    [] v.type = "Integer" -> IntNode(IntOf(v.raw))
    [] v.type = "Double"  -> FloatOf(DoubleOf(v.raw))
    [] v.type = "String"  -> ViewNode(TextOf(v.text))
    [] v.type = "Array"   -> ArrayNode([i \in 1..Len(v.items) |-> FromDom(v.items[i].val)])
    [] v.type = "Object"  ->
         ObjectNode([i \in 1..Len(v.items) |->
                       Keyed(TextOf(v.items[i].key), "borrowed", FromDom(v.items[i].val))])
Parsed(text, depth, strict) ==
  Parse([s |-> text, begin |-> 1, end |-> Len(text) + 1, depth |-> depth, bom |-> FALSE,
         strict |-> strict, dup |-> TRUE, json5 |-> FALSE])

\* prettify: parse, then dump.
PrettifyOf(r, o) == IF r.code # "None" THEN Fail(Fresh(<<>>), r.code) ELSE DumpImpl(FromDom(r.value), o)
Prettify ==
  /\ ~Failed(DumpImpl(value, Compact(0)))
  /\ LET st == PrettifyOf(Parsed(DumpImpl(value, Compact(0)).sink, opts.depth, FALSE), opts)
     IN  Returns("prettify", st.code, Output(st))
  /\ UNCHANGED <<pmr, str, os, file>>

\* The compile-time dump of the same value into a buffer of cap bytes.
ConstDumpTo ==
  /\ ~HasDouble(value)
  /\ \E cap \in Caps :
       LET b == BufSink(value, cap)
       IN  Returns("const", IF ConstTextOf(b, Written(b)).overflow THEN "Overflow" ELSE "None",
                   [cap |-> cap, size |-> Written(b), data |-> b.data])
  /\ UNCHANGED <<pmr, str, os, file>>

ConstLookup ==
  /\ IsObject(value)
  /\ \E i \in 1..Len(value.items), type \in Tags :
       Returns("find", "None", [key  |-> value.items[i].key, type |-> type,
                                slot |-> ConstFind(value, value.items[i].key, type)])
  /\ UNCHANGED <<pmr, str, os, file>>

Done == ret.entry # "none" /\ UNCHANGED vars

Next == Dump \/ DumpToPmr \/ DumpToString \/ DumpToStream \/ DumpFile \/ DumpJsonl
          \/ DumpJsonlTo \/ DumpJsonlFile \/ Prettify \/ ConstDumpTo \/ ConstLookup \/ Done
Spec == Init /\ [][Next]_vars

(***************************************************************************)
(* Properties.                                                             *)
(***************************************************************************)
RECURSIVE SameTree(_, _)
SameTree(a, b) ==
  /\ a.type = b.type /\ a.num = b.num /\ a.text = b.text /\ Len(a.items) = Len(b.items)
  /\ \A i \in 1..Len(a.items) : \E j \in 1..Len(b.items) :
       /\ a.items[i].key = b.items[j].key /\ (IsArray(a) => i = j)
       /\ SameTree(a.items[i].val, b.items[j].val)
RECURSIVE KeysSorted(_)
KeysSorted(v) ==
  \A i \in 1..Len(v.items) :
    /\ IsObject(v) /\ i > 1 => TextLess(v.items[i - 1].key, v.items[i].key)
    /\ KeysSorted(v.items[i].val)

\* What a successful dump writes parses back to the value that was dumped,
\* entries in their order or sorted at every level, whatever the formatting
\* and escaping (writer.hpp: Output is always RFC 8259).
ReadsBack(r, v, o) ==
  /\ r.code = "None" /\ SameTree(v, FromDom(r.value))
  /\ IF o.sort THEN KeysSorted(FromDom(r.value)) ELSE v = FromDom(r.value)
RoundTrip ==
  ret.entry \in {"dump", "prettify"} /\ ret.code = "None" =>
    ReadsBack(Parsed(ret.out, opts.depth, FALSE), value, opts)

\* A dump that fails leaves the caller's std::string, stream and file as they
\* were (dump_to: "serialization failures leave the sink unchanged"); a
\* pmr::string keeps what it held, and gains not even a partial tail when the
\* options are rejected (DumpOptions: "before any output byte is written").
DumpErrors == {"NonFiniteDouble", "DumpMaxDepthExceeded", "InvalidIndentChar", "Utf8InvalidLead",
               "Utf8Truncated", "Utf8InvalidContinuation", "Utf8Overlong", "Utf8ExceedsMax",
               "Utf8Surrogate"}
FailureLeavesCaller ==
  /\ ret.code \in DumpErrors => str = Old /\ os = Old /\ file = Old /\ ret.out = <<>>
  /\ IsPrefix(Old, pmr)
  /\ ret.code = "InvalidIndentChar" => pmr = Old

\* Every entry point writes the same bytes, and what a failed stream or file
\* write leaves behind is a beginning of them.
Expected == DumpImpl(value, opts)
SameBytesEverywhere ==
  /\ ret.entry \in {"pmr", "string", "stream", "file"} /\ ret.code = "None" =>
       /\ ~Failed(Expected)
       /\ CASE ret.entry = "pmr"    -> pmr = Old \o Expected.sink
            [] ret.entry = "string" -> str = Old \o Expected.sink
            [] ret.entry = "stream" -> os = Old \o Expected.sink
            [] OTHER                -> file = Expected.sink /\ ret.out = file
  /\ ret.code = "StreamWriteFailed" => IsPrefix(os, Old \o Expected.sink)
  /\ ret.entry = "file" /\ file # Old => IsPrefix(file, Expected.sink)
  /\ ret.entry = "prettify" /\ ret.code = "None" => ret.out = Expected.sink

\* The parser and the writer count depth alike: under one max_depth a value
\* can be dumped exactly when its text can be parsed.
DepthAgrees ==
  ret.entry = "dump" /\ ~Failed(DumpImpl(value, [opts EXCEPT !.depth = 0])) =>
    (ret.code = "DumpMaxDepthExceeded" <=>
       Parsed(DumpImpl(value, [opts EXCEPT !.depth = 0]).sink, opts.depth, FALSE).code
         = "MaxDepthExceeded")

\* ascii mode writes ASCII, and fails on a value exactly when the parser in
\* strict_utf8 mode rejects what the other mode writes for it: the writer's
\* decoder and the strict checker agree on what is UTF-8.
AsciiIsStrict ==
  ret.entry = "dump" /\ opts.ascii /\ ret.code \notin DumpErrors \ {"Utf8InvalidLead",
      "Utf8Truncated", "Utf8InvalidContinuation", "Utf8Overlong", "Utf8ExceedsMax",
      "Utf8Surrogate"} =>
    /\ \A i \in 1..Len(ret.out) : ret.out[i] \notin HighBytes
    /\ ~Failed(DumpImpl(value, [opts EXCEPT !.ascii = FALSE])) =>
         (ret.code = "None" <=>
            Parsed(DumpImpl(value, [opts EXCEPT !.ascii = FALSE]).sink, 0, TRUE).code = "None")

\* JSON lines: as many lines as elements, and the i-th parses to the i-th
\* element; no element contains a newline.
LineEnds(text) == SelectSeq([i \in 1..Len(text) |-> i], LAMBDA i : text[i] = "ws")
Line(text, ends, i) == SubSeq(text, IF i = 1 THEN 1 ELSE ends[i - 1] + 1, ends[i] - 1)
LinesAreElements(text, ends) ==
  /\ Len(ends) = Len(value.items)
  /\ \A i \in 1..Len(ends) :
       ReadsBack(Parsed(Line(text, ends, i), opts.depth, FALSE), value.items[i].val, Compact(0))
OneLinePerElement ==
  ret.entry = "jsonl" /\ ret.code = "None" => LinesAreElements(ret.out, LineEnds(ret.out))

\* The compile-time dump writes what the runtime writer writes for the
\* materialised value (json_constexpr.hpp: "the runtime writer's default
\* escaping").
ConstSameAsRuntime ==
  ret.entry = "const" /\ ret.code = "None" =>
    ret.out.data = DumpImpl(ToRuntime(value), Compact(0)).sink

\* A typed find sees what a lookup in the materialised object sees.
ConstFindsFirst ==
  ret.entry = "find" =>
    ret.out.slot = IF AtKey(ToRuntime(value), ret.out.key).type = ret.out.type
                   THEN FindSlot(ToRuntime(value), ret.out.key) ELSE 0

\* It fits exactly when the measured size does, and 0 is returned for an
\* overflow only (no dump is empty).
FitsExactly ==
  ret.entry = "const" =>
    /\ ret.code = "Overflow" <=> ConstDumpSize(value) > ret.out.cap
    /\ ret.out.size \in {0, ConstDumpSize(value)} /\ Len(ret.out.data) <= ret.out.cap

\* What is written, as one document or as lines, reads back.
OutputReadsBack == RoundTrip /\ OneLinePerElement

\* All entry points write the same bytes, and a failure reaches no sink of the
\* caller's but as a beginning of them.
EntryPointsAgree == FailureLeavesCaller /\ SameBytesEverywhere

\* The writer judges nesting and UTF-8 as the parser does.
JudgesAsParser == DepthAgrees /\ AsciiIsStrict

\* The compile-time value dumps and finds as its runtime counterpart does, in
\* a buffer of exactly the measured size.
CompileTimeAgrees == ConstSameAsRuntime /\ ConstFindsFirst /\ FitsExactly
=============================================================================
