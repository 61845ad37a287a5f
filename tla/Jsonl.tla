------------------------------- MODULE Jsonl -------------------------------
(***************************************************************************)
(* Newline-delimited JSON, twice.  parse_jsonl copies the whole input into *)
(* one padded buffer and runs a Parser over a sub-view of it for every     *)
(* line, so what follows a line is the next line, not NUL padding.         *)
(* JsonlReader pulls one line at a time from a stream and hands it alone   *)
(* to parse_copy.  "ws" is the line feed.                                  *)
(***************************************************************************)
EXTENDS DomParser

CONSTANTS Fragments,     \* what a text is put together from
          MaxFragments,
          Json5          \* the json5 knob

VARIABLES text,      \* the input
          fragments, \* how much of it has been put together
          bom,       \* the strip_bom knob
          pc,        \* "write", "read" or "done"
          pos,       \* JsonlReader: the stream position,
          started,   \*   m_started,
          docs,      \*   the documents handed out,
          error      \*   m_error and its offset, <<"None", 0>> while unset
vars == <<text, fragments, bom, pc, pos, started, docs, error>>

Knobs(s, begin, end, strip) ==
  [s |-> s, begin |-> begin, end |-> end, depth |-> 0, bom |-> strip, strict |-> FALSE,
   dup |-> FALSE, json5 |-> Json5]
Bom == <<"EF", "BB", "BF">>
StartsWithBom(s, i) == i + 2 <= Len(s) /\ SubSeq(s, i, i + 2) = Bom

\* A line: where it begins and where it ends, without its line feed and
\* without one carriage return before that.
StripReturn(s, i, nl) == IF nl > i /\ s[nl - 1] = "CR" THEN nl - 1 ELSE nl
Line(s, i) ==
  LET nl == Min({k \in i..(Len(s) + 1) : k > Len(s) \/ s[k] = "ws"})
  IN  [from |-> i, to |-> StripReturn(s, i, nl), next |-> nl + 1]

\* The blank test of parse_jsonl follows the json5 knob.
RECURSIVE BlankFrom(_, _)
BlankFrom(c, i) == i >= c.end \/ (Json5SpaceAt(c, i) > 0 /\ BlankFrom(c, i + Json5SpaceAt(c, i)))
IsBlank(s, i, end) == \A k \in i..(end - 1) : s[k] \in Whitespace
BlankLine(s, l) ==
  IF Json5 THEN BlankFrom(Knobs(s, l.from, l.to, FALSE), l.from) ELSE IsBlank(s, l.from, l.to)

\* parse_jsonl over the whole of s: [docs, code, at, line] with at relative to
\* the line that failed.
BatchFailed(b, v, l) == [b EXCEPT !.code = v.code, !.at = v.at - l.from, !.line = l]
BatchTook(b, v, l) ==
  IF v.code # "None" THEN BatchFailed(b, v, l) ELSE [b EXCEPT !.docs = Append(@, v.value)]
RECURSIVE BatchFrom(_, _, _)
\* Slip (LaterBomIsError): every line's parser strips a BOM.
BatchLineStrips(s, l, b) ==
  IF BlankLine(s, l) THEN BatchFrom(s, l.next, b)
  ELSE BatchFrom(s, l.next, BatchTook(b, Parse(Knobs(s, l.from, l.to, TRUE)), l))
BatchLine(s, l, b) ==
  IF BlankLine(s, l) THEN BatchFrom(s, l.next, b)
  ELSE BatchFrom(s, l.next, BatchTook(b, Parse(Knobs(s, l.from, l.to, FALSE)), l))
BatchFrom(s, i, b) ==
  IF i > Len(s) \/ b.code # "None" THEN b ELSE BatchLine(s, Line(s, i), b)
NoLine == [from |-> 1, to |-> 1, next |-> 1]
ParseJsonl(s, strip) ==
  BatchFrom(s, IF strip /\ StartsWithBom(s, 1) THEN 4 ELSE 1,
            [docs |-> <<>>, code |-> "None", at |-> 0, line |-> NoLine])

(***************************************************************************)
(* JsonlReader::next, one turn of its loop per step.                       *)
(***************************************************************************)
Init ==
  /\ text = <<>> /\ fragments = 0 /\ bom \in BOOLEAN /\ pc = "write"
  /\ pos = 1 /\ started = FALSE /\ docs = <<>> /\ error = <<"None", 0>>

Extend ==
  /\ pc = "write" /\ fragments < MaxFragments /\ fragments' = fragments + 1
  /\ \E f \in Fragments : text' = text \o f
  /\ UNCHANGED <<bom, pc, pos, started, docs, error>>
Open ==
  /\ pc = "write" /\ pc' = "read"
  /\ UNCHANGED <<text, fragments, bom, pos, started, docs, error>>

\* getline finds nothing more: a clean end, or a stream gone bad.
EndOfStream ==
  /\ pc = "read" /\ pos > Len(text) /\ pc' = "done"
  /\ UNCHANGED <<text, fragments, bom, pos, started, docs, error>>
StreamFails ==
  /\ pc = "read" /\ pc' = "done" /\ error' = <<"StreamReadFailed", 0>>
  /\ UNCHANGED <<text, fragments, bom, pos, started, docs>>

\* Slip (ReaderMatchesBatch): the BOM is looked for on every line.
BodyEvery(s, l, first) ==
  IF bom /\ StartsWithBom(s, l.from) THEN SubSeq(s, l.from + 3, l.to - 1)
  ELSE SubSeq(s, l.from, l.to - 1)

\* m_line: the first physical line of the stream loses a BOM.
Body(s, l, first) ==
  IF first /\ bom /\ StartsWithBom(s, l.from) /\ l.from + 3 <= l.to
  THEN SubSeq(s, l.from + 3, l.to - 1) ELSE SubSeq(s, l.from, l.to - 1)

Refuse(code, at) == pc' = "done" /\ error' = <<code, at>> /\ UNCHANGED docs
Alone(body)  == Parse(Knobs(body, 1, Len(body) + 1, bom))
Deliver(v) ==
  \/ v.code # "None" /\ Refuse(v.code, v.at - 1)
  \/ v.code = "None" /\ docs' = Append(docs, v.value) /\ UNCHANGED <<pc, error>>
TakeLine(body) ==
  \/ bom /\ StartsWithBom(body, 1) /\ Refuse("UnexpectedValueCharacter", 0)
  \/ /\ ~(bom /\ StartsWithBom(body, 1)) /\ IsBlank(body, 1, Len(body) + 1)
     /\ UNCHANGED <<pc, docs, error>>
  \/ /\ ~(bom /\ StartsWithBom(body, 1)) /\ ~IsBlank(body, 1, Len(body) + 1)
     /\ Deliver(Alone(body))
NextLine ==
  /\ pc = "read" /\ pos <= Len(text)
  /\ pos' = Line(text, pos).next /\ started' = TRUE
  /\ TakeLine(Body(text, Line(text, pos), ~started))
  /\ UNCHANGED <<text, fragments, bom>>
Done == pc = "done" /\ UNCHANGED vars

Next == Extend \/ Open \/ NextLine \/ EndOfStream \/ StreamFails \/ Done
Spec == Init /\ [][Next]_vars

(***************************************************************************)
(* Properties.                                                             *)
(***************************************************************************)
\* However a line ends, parse_jsonl accepts the input exactly when the reader
\* does, with the same values: a parser that follows white space over the end of
\* its line may take the next line's "}" or "]" for its own, but the input is
\* then refused at that line instead of at its own, never accepted and never
\* earlier (stream.hpp: "Line semantics match parse_jsonl").  A stream that goes
\* bad has by then given the first of the values, unless a later line fails.
SameOutcome(b) ==
  /\ b.code = "None" <=> error[1] = "None"
  /\ b.code = "None" => b.docs = docs
  /\ b.code # "None" => b.line.next >= pos
FirstOnes(b) == b.code = "None" => IsPrefix(docs, b.docs)
SameAsBatch(b) == IF error[1] = "StreamReadFailed" THEN FirstOnes(b) ELSE SameOutcome(b)
ReaderMatchesBatch == pc = "done" => SameAsBatch(ParseJsonl(text, bom))

\* Inside a json5 text a line means what it means alone: trivia, strings and
\* escapes stop at the end of the line (utils.cpp: "Every loop condition is
\* explicitly m_curr/m_end-bounded").  Only the byte found at the end differs.
EndCodes == {"UnexpectedEndOfInput", "UnexpectedValueCharacter"}
SameLine(inside, alone, l) ==
  /\ inside.code = alone.code \/ {inside.code, alone.code} = EndCodes
  /\ inside.code # "None" /\ inside.code # "DuplicateKey" => inside.at - l.from = alone.at - 1
  /\ inside.code = "None" => inside.value = alone.value
LineApart(s, l) ==
  SameLine(Parse(Knobs(s, l.from, l.to, FALSE)),
           Parse(Knobs(SubSeq(s, l.from, l.to - 1), 1, l.to - l.from + 1, FALSE)), l)
Json5LinesApart ==
  pc = "read" => \A i \in 1..Len(text) :
                   (i = 1 \/ text[i - 1] = "ws") => LineApart(text, Line(text, i))

\* A later line that starts with a BOM is an error, at its offset 0 if it is
\* the first (document.hpp: "a BOM at the start of any line is a parse error at
\* that line's offset 0, with or without strip_bom").  With json5 on a BOM is
\* white space.
LaterBom(l) == StartsWithBom(text, l.from) /\ l.from + 3 <= l.to
BomRefused(b) ==
  \A i \in 2..Len(text) :
    text[i - 1] = "ws" /\ LaterBom(Line(text, i)) =>
      b.code # "None" /\ (b.line.from = i => b.at = 0)
LaterBomIsError == pc = "read" => BomRefused(ParseJsonl(text, bom))

\* The two line readers agree, and both know a BOM on the first line only.
LinesAgree == ReaderMatchesBatch /\ LaterBomIsError
=============================================================================
