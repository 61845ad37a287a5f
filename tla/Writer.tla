------------------------------- MODULE Writer -------------------------------
(***************************************************************************)
(* The serialisation kernel (writer/dump.cpp, writer/string.cpp) as        *)
(* operators on a sink.  A string in memory is a sequence of byte values;  *)
(* what is written is in the bytes of JsonBytes, so that the DOM parser    *)
(* can read it back.                                                       *)
(***************************************************************************)
EXTENDS JsonTree, DomParser, TLC

CONSTANT Batch   \* bytes in a SIMD batch

ASSUME BatchPositive == Batch \in Nat \ {0}

(***************************************************************************)
(* Bytes in memory and their names in the output.                          *)
(***************************************************************************)
NamedBytes ==
  {<<34, "quote">>, <<92, "bs">>, <<8, "BACKSPACE">>, <<12, "FORMFEED">>, <<10, "LF">>,
   <<13, "CR">>, <<9, "TAB">>, <<97, "a">>, <<98, "b">>, <<48, "0">>, <<49, "1">>, <<56, "8">>,
   <<43, "+">>, <<45, "-">>, <<46, ".">>, <<101, "e">>,
   <<128, "80">>, <<187, "BB">>, <<191, "BF">>, <<192, "C0">>, <<195, "C3">>,
   <<224, "E0">>, <<237, "ED">>, <<239, "EF">>, <<240, "F0">>, <<244, "F4">>, <<255, "FF">>}
Name(c)  == (CHOOSE r \in NamedBytes : r[1] = c)[2]
Names(t) == [i \in 1..Len(t) |-> Name(t[i])]

HexNames == <<"0", "1", "2", "3", "4", "5", "6", "7", "8", "9", "a", "b", "c", "d", "e", "f">>
Hex(n)   == HexNames[n + 1]

(***************************************************************************)
(* The sink and the failure slot: st.code is the first failure (DumpState),*)
(* after which nothing is appended.                                        *)
(***************************************************************************)
Fresh(sink)    == [sink |-> sink, code |-> "None"]
Failed(st)     == st.code # "None"
Put(st, bytes) == IF Failed(st) THEN st ELSE [st EXCEPT !.sink = @ \o bytes]
Fail(st, code) == IF Failed(st) THEN st ELSE [st EXCEPT !.code = code]

(***************************************************************************)
(* Strings.                                                                *)
(***************************************************************************)
ShortName(c) == CHOOSE b \in ShortEscapes : ShortEscape[b] = Name(c)
AppendU4(v)  == <<"bs", "u", Hex((v \div 4096) % 16), Hex((v \div 256) % 16),
                  Hex((v \div 16) % 16), Hex(v % 16)>>
NeedsEscape(c)  == c < 32 \/ c \in {34, 92}
AppendEscape(c) ==
  IF c \in {34, 92, 8, 12, 10, 13, 9} THEN <<"bs", ShortName(c)>> ELSE AppendU4(c)

\* write_escaped_ascii.  A lead byte announces len bytes; the checks of the
\* sequence t (cut off at the end of the string) and of its code point cp.
SequenceLen(c) ==
  CASE c \div 32 = 6 -> 2 [] c \div 16 = 14 -> 3 [] c \div 8 = 30 -> 4 [] OTHER -> 0
LeadBits(c, len) == CASE len = 2 -> c % 32 [] len = 3 -> c % 16 [] OTHER -> c % 8
CodePoint(t) == FoldLeft(LAMBDA cp, c : (cp * 64) + (c % 64), LeadBits(t[1], Len(t)), Tail(t))

\* Slip (AsciiIsStrict): an encoded surrogate passes.
CodePointErrorLax(cp, len) ==
  CASE cp < (CASE len = 2 -> 128 [] len = 3 -> 2048 [] OTHER -> 65536) -> "Utf8Overlong"
    [] cp > 1114111 -> "Utf8ExceedsMax"
    [] OTHER -> "None"

CodePointError(cp, len) ==
  CASE cp < (CASE len = 2 -> 128 [] len = 3 -> 2048 [] OTHER -> 65536) -> "Utf8Overlong"
    [] cp > 1114111 -> "Utf8ExceedsMax"
    [] cp \in 55296..57343 -> "Utf8Surrogate"
    [] OTHER -> "None"
SequenceError(t, len) ==
  IF len = 0 THEN "Utf8InvalidLead"
  ELSE IF Len(t) < len THEN "Utf8Truncated"
  ELSE IF \E i \in 2..len : t[i] \div 64 # 2 THEN "Utf8InvalidContinuation"
  ELSE CodePointError(CodePoint(t), len)

EscapeCodePoint(cp) ==
  IF cp <= 65535 THEN AppendU4(cp)
  ELSE AppendU4(55296 + ((cp - 65536) \div 1024)) \o AppendU4(56320 + ((cp - 65536) % 1024))

RECURSIVE WriteEscapedAscii(_, _), AsciiSequence(_, _, _, _)
AsciiSequence(st, t, len, rest) ==
  IF SequenceError(t, len) # "None" THEN Fail(st, SequenceError(t, len))
  ELSE WriteEscapedAscii(Put(st, EscapeCodePoint(CodePoint(t))), rest)
WriteEscapedAscii(st, s) ==
  IF s = <<>> THEN st
  ELSE IF NeedsEscape(s[1]) THEN WriteEscapedAscii(Put(st, AppendEscape(s[1])), Tail(s))
  ELSE IF s[1] < 128 THEN WriteEscapedAscii(Put(st, <<Name(s[1])>>), Tail(s))
  ELSE LET len == SequenceLen(s[1])
       IN  AsciiSequence(st, SubSeq(s, 1, IF len < Len(s) THEN len ELSE Len(s)), len,
                         SubSeq(s, len + 1, Len(s)))

\* write_escaped_impl in its other mode: the hits of the full batches, then
\* those of the tail; before each hit the clean run since the last one is
\* copied.
FullBatches(s)   == (Len(s) \div Batch) * Batch
Hits(s, i, j)    == SelectSeq([k \in 1..(j - i + 1) |-> i + k - 1], LAMBDA p : NeedsEscape(s[p]))
TakeHit(s, a, p) ==
  [run |-> p + 1, out |-> a.out \o Names(SubSeq(s, a.run, p - 1)) \o AppendEscape(s[p])]
TakeHits(s, a, ps) == FoldLeft(LAMBDA x, p : TakeHit(s, x, p), a, ps)
LastRun(s, a)    == a.out \o Names(SubSeq(s, a.run, Len(s)))

\* Slip (RoundTrip): the tail starts a run of its own.
EscapedRunsReset(s) ==
  LastRun(s, TakeHits(s, [TakeHits(s, [run |-> 1, out |-> <<>>], Hits(s, 1, FullBatches(s)))
                            EXCEPT !.run = FullBatches(s) + 1],
                      Hits(s, FullBatches(s) + 1, Len(s))))

EscapedRuns(s) ==
  LastRun(s, TakeHits(s, TakeHits(s, [run |-> 1, out |-> <<>>], Hits(s, 1, FullBatches(s))),
                      Hits(s, FullBatches(s) + 1, Len(s))))

WriteEscaped(st, s, ascii) ==
  IF ascii THEN Put(WriteEscapedAscii(Put(st, <<"quote">>), s), <<"quote">>)
  ELSE Put(st, <<"quote">> \o EscapedRuns(s) \o <<"quote">>)

(***************************************************************************)
(* Numbers.  A double is its shortest text (std::to_chars), n and i stand  *)
(* for NaN and infinity.                                                   *)
(***************************************************************************)
Infinite == {<<110>>, <<105>>}
FloatOf(text) == Node("Floating", 0, text, <<>>)

\* std::to_chars of an integer.
Magnitude(n)  == IF n < 0 THEN -n ELSE n
DigitCount(n) == CHOOSE k \in 1..10 : Magnitude(n) < 10^k /\ (k > 1 => Magnitude(n) >= 10^(k-1))
ToChars(n) ==
  (IF n < 0 THEN <<"-">> ELSE <<>>)
    \o [i \in 1..DigitCount(n) |-> Hex((Magnitude(n) \div 10^(DigitCount(n) - i)) % 10)]

WriteDouble(st, text) ==
  IF text \in Infinite THEN Fail(st, "NonFiniteDouble")
  ELSE Put(st, Names(text) \o IF \E i \in 1..Len(text) : text[i] \in {46, 101}
                              THEN <<>> ELSE <<".", "0">>)

(***************************************************************************)
(* Values.                                                                 *)
(***************************************************************************)
WriteIndent(st, o, depth) ==
  IF o.pretty THEN Put(st, <<"ws">> \o [i \in 1..(o.indent * depth) |-> o.char]) ELSE st

\* std::string_view's order: bytes as unsigned, a prefix first.
RECURSIVE TextLess(_, _)
TextLess(a, b) ==
  IF a = <<>> \/ b = <<>> THEN a = <<>> /\ b # <<>>
  ELSE IF a[1] # b[1] THEN a[1] < b[1] ELSE TextLess(Tail(a), Tail(b))
Emitted(v, o) ==
  IF IsObject(v) /\ o.sort THEN SortSeq(v.items, LAMBDA x, y : TextLess(x.key, y.key)) ELSE v.items

\* Slip (DepthAgrees): a container at the limit is already too deep.
TooDeepEarly(o, depth) == o.depth # 0 /\ depth + 1 >= o.depth

TooDeep(o, depth) == o.depth # 0 /\ depth + 1 > o.depth

RECURSIVE WriteValue(_, _, _, _)
WriteKey(st, v, key, o) ==
  IF ~IsObject(v) THEN st
  ELSE Put(WriteEscaped(st, key, o.ascii), IF o.pretty THEN <<":", "sp">> ELSE <<":">>)
WriteItem(st, v, e, i, o, depth) ==
  WriteValue(WriteKey(WriteIndent(Put(st, IF i = 1 THEN <<>> ELSE <<",">>), o, depth + 1),
                      v, e.key, o),
             e.val, o, depth + 1)
WriteItems(st, v, items, o, depth) ==
  FoldLeftDomain(LAMBDA x, i : IF Failed(x) THEN x ELSE WriteItem(x, v, items[i], i, o, depth),
                 st, items)
WriteContainer(st, v, o, depth, open, close) ==
  IF TooDeep(o, depth) THEN Fail(st, "DumpMaxDepthExceeded")
  ELSE IF v.items = <<>> THEN Put(st, <<open, close>>)
  ELSE Put(WriteIndent(WriteItems(Put(st, <<open>>), v, Emitted(v, o), o, depth), o, depth),
           <<close>>)
WriteValue(st, v, o, depth) ==
  CASE v.type = "Null"     -> Put(st, Literal("n"))
    [] v.type = "Boolean"  -> Put(st, Literal(IF v.num = 1 THEN "t" ELSE "f"))
    [] v.type = "Integer"  -> Put(st, ToChars(v.num))
    [] v.type = "Floating" -> WriteDouble(st, v.text)
    [] IsString(v)         -> WriteEscaped(st, v.text, o.ascii)
    [] IsArray(v)          -> WriteContainer(st, v, o, depth, "[", "]")
    [] IsObject(v)         -> WriteContainer(st, v, o, depth, "{", "}")

\* dump_value_to.
DumpValueTo(st, v, o) ==
  IF o.pretty /\ o.char \notin Whitespace THEN Fail(st, "InvalidIndentChar")
  ELSE WriteValue(st, v, o, 0)

\* dump_jsonl_impl and dump_jsonl_to: compact, a newline after each element;
\* the first failure ends the loop.
Compact(depth) == [pretty |-> FALSE, indent |-> 0, char |-> "sp", sort |-> FALSE,
                   ascii |-> FALSE, depth |-> depth]

\* Slip (OneLinePerElement): newlines between the elements only.
DumpLinesBetween(st, arr, depth) ==
  FoldLeftDomain(LAMBDA x, i : DumpValueTo(Put(x, IF i = 1 THEN <<>> ELSE <<"ws">>),
                                           arr.items[i].val, Compact(depth)),
                 st, arr.items)

DumpLines(st, arr, depth) ==
  FoldLeft(LAMBDA x, e : Put(DumpValueTo(x, e.val, Compact(depth)), <<"ws">>), st, arr.items)
=============================================================================
