---------------------------- MODULE StreamVsDom ----------------------------
(***************************************************************************)
(* What the pull reader reports, set against the DOM parser on the same    *)
(* bytes.  The two share grammar, escapes and UTF-8 rules and nothing else *)
(* (stream.hpp): the reader works through a sliding window and a stack of  *)
(* phases, the DOM parser recurses over a padded buffer.                   *)
(***************************************************************************)
EXTENDS StreamEvents, DomParser

\* parse_copy's parser for the reader's input and configuration.
DomConfig == [s |-> cfg.input, begin |-> 1, end |-> Len(cfg.input) + 1,
              depth |-> cfg.depth, bom |-> cfg.bom, strict |-> cfg.strict,
              dup |-> FALSE, json5 |-> FALSE]

\* The value a caller rebuilds from the event at i onwards, and the index
\* after it; members of an object are inserted last-wins.
RECURSIVE Rebuild(_, _), RebuildItems(_, _, _)
Rebuild(evs, i) ==
  CASE evs[i].type = "BeginObject" -> RebuildItems(evs, i + 1, Value("Object", <<>>, <<>>, <<>>))
    [] evs[i].type = "BeginArray"  -> RebuildItems(evs, i + 1, Value("Array", <<>>, <<>>, <<>>))
    [] OTHER -> [value |-> Value(evs[i].type, evs[i].text, evs[i].raw, <<>>), next |-> i + 1]
RebuildItems(evs, i, val) ==
  IF evs[i].type \in {"EndObject", "EndArray"} THEN [value |-> val, next |-> i + 1]
  ELSE LET key  == IF val.type = "Object" THEN evs[i].text ELSE <<>>
           item == Rebuild(evs, IF val.type = "Object" THEN i + 1 ELSE i)
       IN  RebuildItems(evs, item.next,
             [val EXCEPT !.items = IF val.type = "Object"
                                   THEN Upsert(@, key, item.value)
                                   ELSE Append(@, [key |-> key, val |-> item.value])])

\* The top-level values of a MultiValue stream from position i on: values of
\* the DOM grammar, each followed by whitespace or the end.
RECURSIVE DomMulti(_, _, _), AfterTopLevel(_, _, _)
DomMulti(c, at, vals) ==
  LET i == SkipWhitespace(c, at)
  IN  IF i >= c.end THEN [code |-> "None", at |-> 0, values |-> vals]
      ELSE AfterTopLevel(c, ParseDispatch(c, i, 0, TRUE), vals)
AfterTopLevel(c, v, vals) ==
  IF v.code # "None" THEN [code |-> v.code, at |-> v.at, values |-> vals]
  ELSE IF v.next < c.end /\ At(c.s, v.next) \notin Whitespace
  THEN [code |-> "ExtraCharactersAfterValue", at |-> v.next, values |-> Append(vals, v.value)]
  ELSE DomMulti(c, v.next, Append(vals, v.value))

\* What DOM parsing makes of the reader's input in the reader's mode.
OneValue(d) ==
  [code |-> d.code, at |-> d.at, values |-> IF d.code = "None" THEN <<d.value>> ELSE <<>>]
Expected ==
  IF cfg.mode = "MultiValue" THEN DomMulti(DomConfig, AfterBom(DomConfig), <<>>)
  ELSE OneValue(Parse(DomConfig))

\* The values a caller rebuilds from all events.
RECURSIVE RebuildAll(_, _)
RebuildAll(evs, i) ==
  IF i > Len(evs) THEN <<>>
  ELSE LET r == Rebuild(evs, i) IN <<r.value>> \o RebuildAll(evs, r.next)

Drained == pc = "idle" /\ (fin \/ HasError) /\ err.code # "StreamReadFailed"

VerdictIs(dom) ==
  /\ fin <=> dom.code = "None"
  /\ fin => RebuildAll(events, 1) = dom.values

\* Whatever the chunk size, a drained reader accepts exactly what the DOM
\* parser accepts and its events are those of the DOM parser's value
\* (SingleRoot), or those of the values one by one (MultiValue).
SameVerdictAsDom == Drained => VerdictIs(Expected)

FirstErrorIs(dom) ==
  \/ /\ err.code = dom.code
     /\ err.off = IF dom.at = 0 THEN NoOffset ELSE dom.at - 1
  \/ /\ err = [code |-> "UnterminatedString", off |-> Len(cfg.input)]
     /\ dom.code \notin {"None", "UnterminatedString"}
  \/ cfg.strict /\ dom.code = "UnescapedControl"

\* A rejected input is rejected with the DOM parser's first error, at the
\* DOM parser's offset.  "Error ordering mirrors Parser::parse_string exactly"
\* (stream.cpp 345) but for two cases: a string that is not terminated, which
\* the reader finds out first, and an ill-formed UTF-8 sequence before a raw
\* control byte, which the DOM parser's scan passes over.
SameFirstError == Drained /\ HasError => FirstErrorIs(Expected)

\* The events that spell out a value.
RECURSIVE Spell(_)
Spell(v) ==
  LET item(i) == IF v.type = "Object"
                 THEN <<Event("MapKey", v.items[i].key, <<>>)>> \o Spell(v.items[i].val)
                 ELSE Spell(v.items[i].val)
      inner   == FlattenSeq([i \in 1..Len(v.items) |-> item(i)])
  IN  CASE v.type = "Object" -> <<Event("BeginObject", <<>>, <<>>)>> \o inner
                                  \o <<Event("EndObject", <<>>, <<>>)>>
        [] v.type = "Array"  -> <<Event("BeginArray", <<>>, <<>>)>> \o inner
                                  \o <<Event("EndArray", <<>>, <<>>)>>
        [] OTHER -> <<Event(v.type, v.text, v.raw)>>

BeginningOf(dom) ==
  dom.code = "None" =>
    IsPrefix(events, FlattenSeq([i \in 1..Len(dom.values) |-> Spell(dom.values[i])]))

\* At every moment, and also when a read fails half-way, what the caller has
\* been given of a valid input is the beginning of the input's events: no
\* event is made up from a truncated window.  (Inputs without duplicate keys.)
EventsArePrefix == BeginningOf(Expected)
=============================================================================
