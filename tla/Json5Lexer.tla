----------------------------- MODULE Json5Lexer -----------------------------
(***************************************************************************)
(* What json5 mode adds to the DOM parser below its descent: trivia,       *)
(* strings, numbers and identifier keys.  All of it is bounded by m_end,   *)
(* where the RFC 8259 path relies on the NUL padding.  c is the parser of  *)
(* module DomParser, c.json5 its captured mode.                            *)
(***************************************************************************)
EXTENDS JsonBytes, SequencesExt

\* A value: its type, the decoded text of a string, the source bytes of a
\* number or a literal, and the members of a container (an array's have no
\* key).
Value(type, text, raw, items) ==
  [type |-> type, text |-> text, raw |-> raw, items |-> items]
NullValue == Value("Null", <<>>, <<"n", "u", "l", "l">>, <<>>)

Failure(code, at)    == [code |-> code, at |-> at, next |-> at, value |-> NullValue]
Success(next, value) == [code |-> "None", at |-> 0, next |-> next, value |-> value]

(***************************************************************************)
(* Multi-byte characters.                                                  *)
(***************************************************************************)
\* decode_utf8 at i, bounded: the length of the sequence, 0 when malformed.
\* The rules are those of the checker (unicode.hpp: "Rejects every malformed
\* form the library's existing UTF-8 state machine rejects").
DecodeUtf8(c, i) ==
  LET n == IF At(c.s, i) \in Leads THEN 1 + LeadNeed[At(c.s, i)] ELSE 1
      whole == {k \in (i + 1)..(i + n - 1) : c.s[k] \notin Continuation} = {}
  IN  IF i < 1 \/ i + n > c.end THEN 0
      ELSE IF At(c.s, i) \notin HighBytes THEN 1
      ELSE IF At(c.s, i) \in Leads /\ whole /\ c.s[i + 1] \notin FirstSlotBad[At(c.s, i)]
      THEN n ELSE 0
Unit(c, i) == SubSeq(c.s, i, i + DecodeUtf8(c, i) - 1)

\* U+2028 (its twin U+2029 is left out) and U+FEFF, the modelled white space
\* above 0x7F.
LineSeparator == <<"E2", "80", "A8">>
IsLineSeparator(c, i) == i + 2 < c.end /\ SubSeq(c.s, i, i + 2) = LineSeparator
Json5Space == Whitespace \union {"VT"}
\* How many bytes of white space start at i.
Json5SpaceAt(c, i) ==
  CASE i >= c.end -> 0
    [] i < c.end /\ At(c.s, i) \in Json5Space -> 1
    [] i < c.end /\ At(c.s, i) \in HighBytes ->
         IF DecodeUtf8(c, i) = 3 /\ Unit(c, i) \in {LineSeparator, <<"EF", "BB", "BF">>} THEN 3 ELSE 0
    [] OTHER -> 0

(***************************************************************************)
(* Trivia.  A comment without an end records UnexpectedEndOfInput at m_end *)
(* and the descent goes on to whatever failure it meets: the first error   *)
(* wins.  Such a cursor is negative, and reads NUL.                        *)
(***************************************************************************)
Unclosed(c) == -c.end
Opens(c, i, b) == i + 1 < c.end /\ At(c.s, i) = "/" /\ At(c.s, i + 1) = b
\* Slip (Json5LinesApart): a line comment runs to the line feed, wherever it is.
LineEndUnbounded(c, i) ==
  Min({k \in i..(Len(c.s) + 1) : At(c.s, k) \in {"nul", "ws"}}) + 1
LineEnd(c, i) ==
  Min({k \in i..c.end : k = c.end \/ At(c.s, k) \in {"ws", "CR"} \/ IsLineSeparator(c, k)})
BlockEnds(c, i) == {k \in i..(c.end - 2) : c.s[k] = "*" /\ c.s[k + 1] = "/"}

RECURSIVE SkipJson5Trivia(_, _)
SkipJson5Trivia(c, i) ==
  IF i < 0 THEN i
  ELSE IF Json5SpaceAt(c, i) > 0 THEN SkipJson5Trivia(c, i + Json5SpaceAt(c, i))
  ELSE IF Opens(c, i, "/") THEN SkipJson5Trivia(c, LineEnd(c, i + 2))
  ELSE IF Opens(c, i, "*") THEN
    IF BlockEnds(c, i + 2) = {} THEN Unclosed(c)
    ELSE SkipJson5Trivia(c, Min(BlockEnds(c, i + 2)) + 2)
  ELSE i

(***************************************************************************)
(* Strings, with either quote.                                             *)
(***************************************************************************)
\* read_hex4_bounded at i: the code and position of the first bad digit.
BadHex5(c, i) ==
  LET bad == {k \in i..(i + 3) : k >= c.end \/ At(c.s, k) \notin HexDigits}
  IN  IF bad = {} THEN <<"None", 0>>
      ELSE <<IF Min(bad) >= c.end THEN "UnterminatedString" ELSE "InvalidHexDigit", Min(bad)>>

\* The low half of a pair, after the high half that ends before q.
Pair5(c, i, q) ==
  IF ~(q + 1 < c.end /\ At(c.s, q) = "bs" /\ At(c.s, q + 1) = "u")
  THEN EscapeFailure("ExpectedLowSurrogate", q)
  ELSE IF BadHex5(c, q + 2)[1] # "None"
  THEN EscapeFailure(BadHex5(c, q + 2)[1], BadHex5(c, q + 2)[2])
  ELSE IF ~IsLowSurrogate(Hex4(c.s, q + 2)) THEN EscapeFailure("InvalidSurrogatePair", q + 6)
  ELSE EscapeResult(q + 6, EncodeUtf8(Hex4(c.s, i + 2) \o Hex4(c.s, q + 2)))
Unicode5(c, i) ==
  IF BadHex5(c, i + 2)[1] # "None"
  THEN EscapeFailure(BadHex5(c, i + 2)[1], BadHex5(c, i + 2)[2])
  ELSE IF IsHighSurrogate(Hex4(c.s, i + 2)) THEN Pair5(c, i, i + 6)
  ELSE IF IsLowSurrogate(Hex4(c.s, i + 2)) THEN EscapeFailure("LoneLowSurrogate", i + 6)
  ELSE EscapeResult(i + 6, EncodeUtf8(Hex4(c.s, i + 2)))

\* \xHH is one byte.
Hex2(c, i) ==
  IF i + 3 >= c.end THEN EscapeFailure("UnterminatedString", i + 2)
  ELSE IF At(c.s, i + 2) \notin HexDigits THEN EscapeFailure("InvalidHexDigit", i + 2)
  ELSE IF At(c.s, i + 3) \notin HexDigits THEN EscapeFailure("InvalidHexDigit", i + 3)
  ELSE EscapeResult(i + 4, <<[of |-> SubSeq(c.s, i + 2, i + 3), k |-> 1]>>)

\* Slip (Json5IsSuperset): a "u" stands for itself.
HandleEscape5Identity(c, i) ==
  IF i + 1 >= c.end THEN EscapeFailure("UnterminatedString", i + 1)
  ELSE IF At(c.s, i + 1) \in ShortEscapes
  THEN EscapeResult(i + 2, <<Copied(ShortEscape[At(c.s, i + 1)])>>)
  ELSE EscapeResult(i + 2, <<Copied(At(c.s, i + 1))>>)

\* handle_escape_json5_bounded on the backslash at i.  A line continuation
\* writes nothing; a character that is no escape stands for itself.  \v is
\* left out.
HandleEscape5(c, i) ==
  LET e == At(c.s, i + 1)
  IN  CASE i + 1 >= c.end -> EscapeFailure("UnterminatedString", i + 1)
        [] i + 1 < c.end /\ e = "ws" -> EscapeResult(i + 2, <<>>)
        [] i + 1 < c.end /\ e = "CR" ->
             EscapeResult(IF i + 2 < c.end /\ At(c.s, i + 2) = "ws" THEN i + 3 ELSE i + 2, <<>>)
        [] i + 1 < c.end /\ IsLineSeparator(c, i + 1) -> EscapeResult(i + 4, <<>>)
        [] i + 1 < c.end /\ e = "x" -> Hex2(c, i)
        [] i + 1 < c.end /\ e = "0" ->
             IF i + 2 < c.end /\ At(c.s, i + 2) \in Digits THEN EscapeFailure("InvalidEscapeChar", i + 1)
             ELSE EscapeResult(i + 2, <<Copied("nul")>>)
        [] i + 1 < c.end /\ e \in Digits \ {"0"} -> EscapeFailure("InvalidEscapeChar", i + 1)
        [] i + 1 < c.end /\ e = "u" -> Unicode5(c, i)
        [] i + 1 < c.end /\ e \in ShortEscapes -> EscapeResult(i + 2, <<Copied(ShortEscape[e])>>)
        [] OTHER -> EscapeResult(i + 2, <<Copied(e)>>)

\* parse_string_json5 from i, before the closing quote q.
RECURSIVE String5(_, _, _, _, _), String5Other(_, _, _, _, _), String5Escaped(_, _, _, _, _)
String5Close(i, ck, text) ==
  IF ck.code # "None" THEN Failure(ck.code, ck.at)
  ELSE Success(i + 1, Value("String", text, <<>>, <<>>))
String5Escaped(c, r, q, k, text) ==
  IF r.code # "None" THEN Failure(r.code, r.at)
  ELSE String5(c, r.next, q, k, text \o r.out)
String5Other(c, i, q, k, text) ==
  IF k.code # "None" THEN Failure(k.code, k.at)
  ELSE IF At(c.s, i) = "bs" THEN String5Escaped(c, HandleEscape5(c, i), q, k, text)
  ELSE IF At(c.s, i) \in {"ws", "CR"} THEN Failure("UnescapedControl", i)
  ELSE String5(c, i + 1, q, k, Append(text, Copied(At(c.s, i))))
String5(c, i, q, ck, text) ==
  IF i >= c.end THEN Failure("UnterminatedString", i)
  ELSE IF At(c.s, i) = q THEN String5Close(i, IF c.strict THEN Utf8End(ck) ELSE ck, text)
  ELSE String5Other(c, i, q, IF c.strict THEN Utf8Feed(ck, At(c.s, i), i) ELSE ck, text)
ParseStringJson5(c, i, q) == String5(c, i + 1, q, Utf8Start, <<>>)

(***************************************************************************)
(* Numbers: scan_number_json5 extends the automaton by a plus sign, 0x and *)
(* a fraction with one empty side.  NaN (with or without a sign) is        *)
(* matched before it; Infinity takes the same path and is left out.        *)
(***************************************************************************)
NumberStep5(st, b) ==
  CASE st = "start" /\ b = "+"                              -> "minus"
    [] st \in {"start", "minus"} /\ b = "."                 -> "point"
    [] st = "point" /\ b \in Digits                         -> "frac"
    [] st = "dot" /\ b = "e"                                -> "exp"
    [] st = "zero" /\ b = "x"                               -> "0x"
    [] st \in {"0x", "hex"} /\ b \in HexDigits              -> "hex"
    [] OTHER                                                -> NumberStep(st, b)
NumberError5(st) ==
  CASE st = "0x" -> "NumberNoIntDigits" [] st = "point" -> "NumberNoFracDigits"
    [] st = "dot" -> "None" [] OTHER -> NumberError(st)

RECURSIVE ScanNumber5(_, _, _)
ScanNumber5(c, i, st) ==
  IF i >= c.end \/ NumberStep5(st, At(c.s, i)) = "stop" THEN <<i, st>>
  ELSE ScanNumber5(c, i + 1, NumberStep5(st, At(c.s, i)))

ClassifyNumber5(raw, st) == IF st = "hex" THEN "Integer" ELSE ClassifyNumber(raw)
Number5(i, next, raw, kind) ==
  IF kind = "NumberOutOfRange" THEN Failure(kind, i)
  ELSE Success(next, Value(kind, <<>>, raw, <<>>))
Number5Result(c, i, next, st) ==
  IF NumberError5(st) # "None" THEN Failure(NumberError5(st), next)
  ELSE Number5(i, next, SubSeq(c.s, i, next - 1), ClassifyNumber5(SubSeq(c.s, i, next - 1), st))

AfterSign(c, i) == IF i < c.end /\ At(c.s, i) \in {"+", "-"} THEN i + 1 ELSE i
NonFinite(c, p) == p + 3 <= c.end /\ SubSeq(c.s, p, p + 2) = <<"N", "a", "N">>
ParseNumberJson5(c, i) ==
  IF NonFinite(c, AfterSign(c, i))
  THEN Success(AfterSign(c, i) + 3, Value("Double", <<>>, <<"N", "a", "N">>, <<>>))
  ELSE LET scan == ScanNumber5(c, i, "start") IN Number5Result(c, i, scan[1], scan[2])

(***************************************************************************)
(* Identifier keys.  The ASCII letters, the sequences led by C3 and the    *)
(* escapes of U+00AA, U+00BA, U+00C0 .. U+00FF and U+10000 .. U+1000B      *)
(* start an identifier; a digit may follow.  The rest of the Unicode table *)
(* is left out.                                                            *)
(***************************************************************************)
IsLetterUnit(u) == Len(u) = 2 \/ (Len(u) = 1 /\ u[1] \in Letters)
IsLetterCode(h) ==
  /\ h[1] = "0" /\ h[2] = "0"
  /\ h[3] \in {"c", "d", "e", "f"} \/ (h[3] \in {"a", "b"} /\ h[4] = "a")
IsLetterPair(h, low) ==
  h = <<"d", "8", "0", "0">> /\ SubSeq(low, 1, 3) = <<"d", "c", "0">>
    /\ low[4] \in Digits \union {"a", "b"}

\* decode_identifier_escape at i: how many bytes of an identifier character
\* are spelled there (0 when none is) and what they decode to.
EscapedHex(c, i) == i + 6 <= c.end /\ At(c.s, i) = "bs" /\ At(c.s, i + 1) = "u" /\ BadHex(c.s, i + 2) = 0
IdentifierEscape(c, i) ==
  IF ~EscapedHex(c, i) THEN <<0, <<>>>>
  ELSE IF IsLetterCode(Hex4(c.s, i + 2)) THEN <<6, EncodeUtf8(Hex4(c.s, i + 2))>>
  ELSE IF EscapedHex(c, i + 6) /\ IsLetterPair(Hex4(c.s, i + 2), Hex4(c.s, i + 8))
  THEN <<12, EncodeUtf8(Hex4(c.s, i + 2) \o Hex4(c.s, i + 8))>>
  ELSE <<0, <<>>>>
IdentifierUnit(c, i, first) ==
  IF At(c.s, i) = "bs" THEN IdentifierEscape(c, i)
  ELSE IF \/ DecodeUtf8(c, i) > 0 /\ IsLetterUnit(Unit(c, i))
          \/ ~first /\ At(c.s, i) \in Digits
       THEN <<DecodeUtf8(c, i), [k \in 1..DecodeUtf8(c, i) |-> Copied(c.s[i + k - 1])]>>
       ELSE <<0, <<>>>>

RECURSIVE IdentifierFrom(_, _, _)
IdentifierFrom(c, i, text) ==
  IF i >= c.end \/ IdentifierUnit(c, i, text = <<>>)[1] = 0
  THEN IF text = <<>> THEN Failure("ExpectedStringKey", i)
       ELSE Success(i, Value("String", text, <<>>, <<>>))
  ELSE LET u == IdentifierUnit(c, i, text = <<>>)
       IN  IdentifierFrom(c, i + u[1], text \o u[2])
ParseIdentifierKey(c, i) == IdentifierFrom(c, i, <<>>)
=============================================================================
