----------------------------- MODULE DomParser -----------------------------
(***************************************************************************)
(* The DOM parser (src/parser/*.cpp): a recursive descent over a           *)
(* NUL-padded buffer, as operators.  c is the parser:                      *)
(*   c.s      the buffer, followed by NUL padding                          *)
(*   c.begin  position of m_begin,  c.end  position of m_end               *)
(*   c.depth, c.bom, c.strict, c.dup   max_depth, strip_bom, strict_utf8,  *)
(*            strict_duplicate_keys,  c.json5  the json5 mode              *)
(* A cursor is a position of c.s.  A result is [code, at, next, value]:    *)
(* code "None", the cursor after the value and the value, or the first     *)
(* error and its position (0 when it is context-free).                     *)
(***************************************************************************)
EXTENDS Json5Lexer

\* skip_whitespace stops at the first other byte; it does not look at m_end.
\* The json5 scanner does.
SkipWhitespace(c, i) ==
  IF c.json5 THEN SkipJson5Trivia(c, i)
  ELSE Min({j \in i..(Len(c.s) + 1) : At(c.s, j) \notin Whitespace})

(***************************************************************************)
(* Strings.                                                                *)
(***************************************************************************)
\* feed_range over positions i .. j of s: stops at the first failure.
RECURSIVE FeedRange(_, _, _, _)
FeedRange(ck, s, i, j) ==
  IF i > j \/ ck.code # "None" THEN ck
  ELSE FeedRange(Utf8Feed(ck, s[i], i), s, i + 1, j)

\* check_utf8_strict over positions i .. j.
CheckUtf8Strict(s, i, j) ==
  LET ck == FeedRange(Utf8Start, s, i, j)
  IN  IF ck.code # "None" THEN ck ELSE Utf8End(ck)

\* Phase 2: decode in place from i to the closing quote.  A quote closes the
\* string if the checker is between sequences; any other byte is fed to the
\* checker (k is its state after it), then copied or unescaped.
RECURSIVE DecodeInSitu(_, _, _, _), DecodeOther(_, _, _, _), DecodeEscaped(_, _, _, _)
DecodeClose(i, ck, text) ==
  IF ck.code # "None" THEN Failure(ck.code, ck.at)
  ELSE Success(i + 1, Value("String", text, <<>>, <<>>))

DecodeEscaped(c, r, k, text) ==
  IF r.code # "None" THEN Failure(r.code, r.at)
  ELSE DecodeInSitu(c, r.next, k, text \o r.out)

DecodeOther(c, i, k, text) ==
  IF k.code # "None" THEN Failure(k.code, k.at)
  ELSE IF At(c.s, i) = "bs" THEN DecodeEscaped(c, HandleEscape(c.s, i), k, text)
  ELSE IF At(c.s, i) \in Control THEN Failure("UnescapedControl", i)
  ELSE DecodeInSitu(c, i + 1, k, Append(text, Copied(At(c.s, i))))

DecodeInSitu(c, i, ck, text) ==
  IF At(c.s, i) = "quote"
  THEN DecodeClose(i, IF c.strict THEN Utf8End(ck) ELSE ck, text)
  ELSE DecodeOther(c, i, IF c.strict THEN Utf8Feed(ck, At(c.s, i), i) ELSE ck, text)

\* After phase 1 has stopped at j: a string without escapes, the start of
\* phase 2, or an error.
StringStop(c, from, j) ==
  LET run == [k \in 1..(j - from) |-> Copied(c.s[from + k - 1])]
  IN  CASE At(c.s, j) = "quote" ->
             DecodeClose(j, IF c.strict THEN CheckUtf8Strict(c.s, from, j - 1)
                                        ELSE Utf8Start, run)
        [] At(c.s, j) = "bs" ->
             LET pre == IF c.strict THEN FeedRange(Utf8Start, c.s, from, j - 1) ELSE Utf8Start
             IN  IF pre.code # "None" THEN Failure(pre.code, pre.at)
                 ELSE DecodeInSitu(c, j, pre, run)
        [] OTHER ->
             Failure(IF j >= c.end THEN "UnterminatedString" ELSE "UnescapedControl", j)

\* parse_string at the opening quote.  Phase 1 finds the first quote,
\* backslash or control byte.
ParseString(c, i) ==
  IF i >= c.end THEN Failure("ExpectedQuote", i)
  ELSE IF c.json5 THEN ParseStringJson5(c, i, "quote")
  ELSE StringStop(c, i + 1, Min({k \in (i + 1)..(Len(c.s) + 1) :
                                   At(c.s, k) \in {"quote", "bs"} \union Control}))

(***************************************************************************)
(* Literals and numbers.                                                   *)
(***************************************************************************)
ParseLiteral(c, i) ==
  LET lit  == Literal(At(c.s, i))
      next == i + Len(lit)
      type == IF lit[1] = "n" THEN "Null" ELSE "Boolean"
  IN  CASE ~MatchLiteral(c.s, i, lit) -> Failure("InvalidLiteral", i)
        [] MatchLiteral(c.s, i, lit) /\ ~c.json5 /\ At(c.s, next) \notin ValidAfterLiteral ->
             Failure("InvalidLiteralTrailing", next)
        [] OTHER -> Success(next, Value(type, <<>>, lit, <<>>))

\* scan_number from i in state st, bounded by m_end: where and how it ends.
RECURSIVE ScanNumber(_, _, _)
ScanNumber(c, i, st) ==
  IF i >= c.end \/ NumberStep(st, At(c.s, i)) = "stop" THEN <<i, st>>
  ELSE ScanNumber(c, i + 1, NumberStep(st, At(c.s, i)))

ParsedNumber(i, next, raw, kind) ==
  IF kind = "NumberOutOfRange" THEN Failure(kind, i)
  ELSE Success(next, Value(kind, <<>>, raw, <<>>))

NumberResult(c, i, next, st) ==
  IF NumberError(st) # "None" THEN Failure(NumberError(st), next)
  ELSE ParsedNumber(i, next, SubSeq(c.s, i, next - 1), ClassifyNumber(SubSeq(c.s, i, next - 1)))

ParseNumber(c, i) ==
  IF c.json5 THEN ParseNumberJson5(c, i)
  ELSE LET scan == ScanNumber(c, i, "start") IN NumberResult(c, i, scan[1], scan[2])

(***************************************************************************)
(* Containers and the dispatch on the first byte of a value.               *)
(***************************************************************************)
\* Last-wins: the first entry of the key keeps its place and takes the value.
Upsert(items, key, val) ==
  LET at == {k \in 1..Len(items) : items[k].key = key}
  IN  IF at = {} THEN Append(items, [key |-> key, val |-> val])
      ELSE [items EXCEPT ![Min(at)].val = val]

RECURSIVE ParseDispatch(_, _, _, _), ParseElements(_, _, _, _), ParseMembers(_, _, _, _),
          AfterElement(_, _, _, _), AfterKey(_, _, _, _), AfterMember(_, _, _, _)

\* parse_value (root) and parse_value_inplace, with d containers open.
ParseDispatch(c, at, d, isRoot) ==
  LET i == SkipWhitespace(c, at)
      b == At(c.s, i)
      tooDeep == c.depth # 0 /\ d + 1 > c.depth
      inside  == SkipWhitespace(c, i + 1)
  IN  CASE b \in {"{", "["} /\ tooDeep -> Failure("MaxDepthExceeded", i)
        [] b = "{" /\ ~tooDeep ->
             IF At(c.s, inside) = "}"
             THEN Success(inside + 1, Value("Object", <<>>, <<>>, <<>>))
             ELSE ParseMembers(c, inside, d + 1, <<>>)
        [] b = "[" /\ ~tooDeep ->
             IF inside < c.end /\ At(c.s, inside) = "]"
             THEN Success(inside + 1, Value("Array", <<>>, <<>>, <<>>))
             ELSE ParseElements(c, inside, d + 1, <<>>)
        [] b = "quote" -> ParseString(c, i)
        [] b \in LiteralStart -> ParseLiteral(c, i)
        [] b \in NumberStart \/ (c.json5 /\ b \in {"+", ".", "N"}) -> ParseNumber(c, i)
        [] c.json5 /\ b = "apos" -> ParseStringJson5(c, i, "apos")
        [] OTHER ->
             Failure(CASE isRoot /\ b = "nul" /\ i >= c.end -> "UnexpectedEndOfInput"
                       [] isRoot /\ ~(b = "nul" /\ i >= c.end) -> "UnexpectedValueCharacter"
                       [] OTHER -> "UnexpectedCharacter", i)

\* A comma at i: json5 lets one stand before the closing byte.  Where the
\* container ends then, or 0.
Trailing(c, i, close) ==
  LET j == SkipWhitespace(c, i + 1)
  IN  IF c.json5 /\ j < c.end /\ At(c.s, j) = close THEN j + 1 ELSE 0

\* The loop of parse_array_inplace: v is the element just parsed.
ParseElements(c, at, d, items) ==
  AfterElement(c, ParseDispatch(c, at, d, FALSE), d, items)

AfterElement(c, v, d, items) ==
  LET i    == SkipWhitespace(c, v.next)
      more == Append(items, [key |-> <<>>, val |-> v.value])
  IN  IF v.code # "None" THEN v
      ELSE CASE At(c.s, i) = "]" -> Success(i + 1, Value("Array", <<>>, <<>>, more))
             [] At(c.s, i) = "," ->
                  IF Trailing(c, i, "]") > 0
                  THEN Success(Trailing(c, i, "]"), Value("Array", <<>>, <<>>, more))
                  ELSE ParseElements(c, i + 1, d, more)
             [] OTHER -> Failure("ExpectedCommaOrBracket", i)

\* The loop of parse_object_inplace: the key, the colon and the value, then
\* what follows the member (more is the object with it inserted).
ParseMembers(c, at, d, items) ==
  LET k == SkipWhitespace(c, at)
      json5 == c.json5 /\ k < c.end
  IN  IF json5 /\ At(c.s, k) = "apos" THEN AfterKey(c, ParseStringJson5(c, k, "apos"), d, items)
      ELSE IF json5 /\ At(c.s, k) # "quote" THEN AfterKey(c, ParseIdentifierKey(c, k), d, items)
      ELSE IF At(c.s, k) # "quote" THEN Failure("ExpectedStringKey", k)
      ELSE AfterKey(c, ParseString(c, k), d, items)

AfterKey(c, key, d, items) ==
  LET colon  == SkipWhitespace(c, key.next)
      insert(v) == IF v.code # "None" THEN v
                   ELSE AfterMember(c, v.next, d, Upsert(items, key.value.text, v.value))
  IN  IF key.code # "None" THEN key
      ELSE IF c.dup /\ \E n \in 1..Len(items) : items[n].key = key.value.text
      THEN Failure("DuplicateKey", 0)
      ELSE IF At(c.s, colon) # ":" THEN Failure("ExpectedColon", colon)
      ELSE insert(ParseDispatch(c, colon + 1, d, FALSE))

AfterMember(c, at, d, more) ==
  LET i == SkipWhitespace(c, at)
  IN  IF i >= c.end THEN Failure("UnexpectedEndOfObject", i)
      ELSE CASE At(c.s, i) = "}" -> Success(i + 1, Value("Object", <<>>, <<>>, more))
             [] At(c.s, i) = "," ->
                  IF Trailing(c, i, "}") > 0
                  THEN Success(Trailing(c, i, "}"), Value("Object", <<>>, <<>>, more))
                  ELSE ParseMembers(c, i + 1, d, more)
             [] OTHER -> Failure("ExpectedCommaOrBrace", i)

\* skip_leading_bom: where the text begins.
AfterBom(c) ==
  IF /\ c.bom /\ c.begin + 3 <= c.end
     /\ SubSeq(c.s, c.begin, c.begin + 2) = <<"EF", "BB", "BF">>
  THEN c.begin + 3 ELSE c.begin

\* Parser::parse on the whole of c: nothing but whitespace after the value.
OnlyValue(c, v) ==
  IF v.code = "None" /\ SkipWhitespace(c, v.next) < c.end
  THEN Failure("ExtraCharactersAfterValue", SkipWhitespace(c, v.next)) ELSE v
\* A failure met after an unclosed comment is that comment's.
FirstError(c, v) == IF v.at < 0 THEN Failure("UnexpectedEndOfInput", c.end) ELSE v
Parse(c) == FirstError(c, OnlyValue(c, ParseDispatch(c, AfterBom(c), 0, TRUE)))
=============================================================================
