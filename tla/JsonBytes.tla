----------------------------- MODULE JsonBytes -----------------------------
(***************************************************************************)
(* The byte-level rules the pull reader and the DOM parser share: RFC 8259 *)
(* grammar (grammar.hpp), the buffered escape decoder (parser/utils.cpp)   *)
(* and the strict UTF-8 checker (detail/utf8.hpp).  A byte is a string     *)
(* that names one byte or one class of bytes no rule tells apart.          *)
(* Positions in a sequence are 1-based, stream offsets are 0-based.        *)
(***************************************************************************)
EXTENDS Integers, Sequences, FiniteSets

Structural  == {"{", "}", "[", "]", ":", ","}
Digits      == {"0", "1", "8"}
Letters     == {"a", "b", "c", "d", "e", "f", "l", "n", "r", "s", "t", "u", "x", "N"}

\* Bytes above 0x7F: four continuation bytes, then the leads that the
\* checker treats differently ("FF" stands for every byte that is no lead).
Continuation == {"80", "A8", "BB", "BF"}
HighBytes    == Continuation \union {"C0", "C3", "E0", "E2", "ED", "EF", "F0", "F4", "FF"}

\* "ws" is the line feed (and the tab where nothing tells them apart), "CR" the
\* carriage return; "sp" is the space, whitespace as well and no control byte
\* inside a string.  "VT" is a vertical tab or a form feed, "ctl" any other
\* control byte.
Whitespace == {"ws", "sp", "CR"}
Control    == {"ctl", "nul", "ws", "CR", "VT"}
Bytes      == Structural \union Digits \union Letters \union HighBytes
                \union Whitespace \union Control
                \union {"quote", "apos", "bs", "-", "+", ".", "/", "*"}

\* A read at or past the end of a buffer sees its NUL padding.
At(s, i) == IF i \in 1..Len(s) THEN s[i] ELSE "nul"

(***************************************************************************)
(* Literals.                                                               *)
(***************************************************************************)
LiteralStart == {"t", "f", "n"}

Literal(b) == CASE b = "t" -> <<"t", "r", "u", "e">>
                [] b = "f" -> <<"f", "a", "l", "s", "e">>
                [] OTHER   -> <<"n", "u", "l", "l">>

\* match_literal at position i of s, bounded by the end of s.
MatchLiteral(s, i, lit) ==
  /\ i + Len(lit) - 1 <= Len(s)
  /\ \A k \in 1..Len(lit) : s[i + k - 1] = lit[k]

\* The bytes that may follow a literal; the end of input counts as NUL.
ValidAfterLiteral == {"nul", ",", ":", "]", "}"} \union Whitespace

(***************************************************************************)
(* Numbers: scan_number as an automaton; "stop" means the byte is not part *)
(* of the number.  A run of several digits that starts with 0 ends the     *)
(* scan ("zeros") whatever follows it.                                     *)
(***************************************************************************)
NumberStart  == Digits \union {"-"}
NumberStates == {"start", "minus", "zero", "zeros", "int", "dot", "frac",
                 "exp", "expsign", "expdigits"}

NumberStep(st, b) ==
  CASE st = "start" /\ b = "-"                        -> "minus"
    [] st \in {"start", "minus"} /\ b = "0"           -> "zero"
    [] st \in {"start", "minus"} /\ b \in Digits      -> "int"
    [] st \in {"zero", "zeros"} /\ b \in Digits       -> "zeros"
    [] st = "int" /\ b \in Digits                     -> "int"
    [] st \in {"zero", "int"} /\ b = "."              -> "dot"
    [] st \in {"dot", "frac"} /\ b \in Digits         -> "frac"
    [] st \in {"zero", "int", "frac"} /\ b = "e"      -> "exp"
    [] st = "exp" /\ b \in {"+", "-"}                 -> "expsign"
    [] st \in {"exp", "expsign", "expdigits"} /\ b \in Digits -> "expdigits"
    [] OTHER                                          -> "stop"

\* What a scan that ends in state st reports.
NumberError(st) ==
  CASE st \in {"start", "minus"}  -> "NumberNoIntDigits"
    [] st = "zeros"               -> "NumberLeadingZero"
    [] st = "dot"                 -> "NumberNoFracDigits"
    [] st \in {"exp", "expsign"}  -> "NumberNoExpDigits"
    [] OTHER                      -> "None"

\* std::from_chars reports out of range: a non-zero mantissa whose exponent
\* has more than three significant digits or three that start with 8.  Exact
\* for the modelled digits and a mantissa of a few digits.
OutOfRange(s) ==
  \E e \in 1..Len(s) :
    /\ s[e] = "e"
    /\ \E i \in 1..(e - 1) : s[i] \in Digits \ {"0"}
    /\ LET sig == {i \in (e + 1)..Len(s) :
                     /\ s[i] \in Digits
                     /\ \E k \in (e + 1)..i : s[k] \in Digits \ {"0"}}
       IN  \/ Cardinality(sig) > 3
           \/ Cardinality(sig) = 3 /\ s[Len(s) - 2] = "8"

\* classify_number on a scanned token: an integer token of at most 18 digits
\* is an int64, a token with a fraction or an exponent is a double.
ClassifyNumber(s) ==
  IF \E i \in 1..Len(s) : s[i] \in {".", "e"}
  THEN IF OutOfRange(s) THEN "NumberOutOfRange" ELSE "Double"
  ELSE "Integer"

(***************************************************************************)
(* Escapes.  A decoded byte [of, k] is byte k of the UTF-8 encoding of the *)
(* character written "of": a copied byte, the value of a short escape, or  *)
(* the hex digits of a code point.                                         *)
(***************************************************************************)
HexDigits == Digits \union {"a", "b", "c", "d", "e", "f"}

\* short_escape_value.
ShortEscapes == {"quote", "bs", "/", "b", "f", "n", "r", "t"}
ShortEscape  == [e \in ShortEscapes |->
                   CASE e = "b" -> "BACKSPACE" [] e = "f" -> "FORMFEED" [] e = "n" -> "LF"
                     [] e = "r" -> "CR" [] e = "t" -> "TAB" [] OTHER -> e]

Decoded == [of : Seq(Bytes \union {"BACKSPACE", "FORMFEED", "LF", "CR", "TAB"}),
            k  : 1..4]

Copied(b) == [of |-> <<b>>, k |-> 1]

Hex4(s, i)         == <<At(s, i), At(s, i + 1), At(s, i + 2), At(s, i + 3)>>
IsHighSurrogate(h) == h[1] = "d" /\ h[2] \in {"8", "a", "b"}
IsLowSurrogate(h)  == h[1] = "d" /\ h[2] \in {"c", "d", "e", "f"}

\* parse_hex4: the position of the first of the four bytes from i that is no
\* hex digit, 0 when there is none.
BadHex(s, i) ==
  IF At(s, i) \notin HexDigits THEN i
  ELSE IF At(s, i + 1) \notin HexDigits THEN i + 1
  ELSE IF At(s, i + 2) \notin HexDigits THEN i + 2
  ELSE IF At(s, i + 3) \notin HexDigits THEN i + 3
  ELSE 0

\* encode_utf8 by length: below U+0080 one byte, below U+0800 two, below
\* U+10000 three, and four for the code point of a surrogate pair.
Utf8Length(h) ==
  CASE Len(h) = 8                                      -> 4
    [] h[1] = "0" /\ h[2] = "0" /\ h[3] \in {"0", "1"} -> 1
    [] h[1] = "0" /\ h[2] \in {"0", "1"}               -> 2
    [] OTHER                                           -> 3

EncodeUtf8(h) == [k \in 1..Utf8Length(h) |-> [of |-> h, k |-> k]]

\* handle_escape on the backslash at position i of s: the error code and its
\* position, or the position after the escape and the bytes it decodes to.
EscapeFailure(code, at) == [code |-> code, at |-> at, next |-> at, out |-> <<>>]
EscapeResult(next, out) == [code |-> "None", at |-> 0, next |-> next, out |-> out]

\* The second half of a surrogate pair, whose first escape starts at i.
HandlePair(s, i) ==
  IF At(s, i + 6) # "bs" \/ At(s, i + 7) # "u"
  THEN EscapeFailure("ExpectedLowSurrogate", i + 6)
  ELSE IF BadHex(s, i + 8) # 0
  THEN EscapeFailure("InvalidHexDigit", BadHex(s, i + 8))
  ELSE IF ~IsLowSurrogate(Hex4(s, i + 8))
  THEN EscapeFailure("InvalidSurrogatePair", i + 12)
  ELSE EscapeResult(i + 12, EncodeUtf8(Hex4(s, i + 2) \o Hex4(s, i + 8)))

\* Slip (DecodeBehindCursor): the cursor stays before the four digits.
HandleUnicodeStays(s, i) ==
  IF BadHex(s, i + 2) # 0
  THEN EscapeFailure("InvalidHexDigit", BadHex(s, i + 2))
  ELSE IF IsLowSurrogate(Hex4(s, i + 2))
  THEN EscapeFailure("LoneLowSurrogate", i + 6)
  ELSE IF IsHighSurrogate(Hex4(s, i + 2))
  THEN HandlePair(s, i)
  ELSE EscapeResult(i + 2, EncodeUtf8(Hex4(s, i + 2)))

HandleUnicode(s, i) ==
  IF BadHex(s, i + 2) # 0
  THEN EscapeFailure("InvalidHexDigit", BadHex(s, i + 2))
  ELSE IF IsLowSurrogate(Hex4(s, i + 2))
  THEN EscapeFailure("LoneLowSurrogate", i + 6)
  ELSE IF IsHighSurrogate(Hex4(s, i + 2))
  THEN HandlePair(s, i)
  ELSE EscapeResult(i + 6, EncodeUtf8(Hex4(s, i + 2)))

HandleEscape(s, i) ==
  LET c == At(s, i + 1)
  IN  IF c = "u" THEN HandleUnicode(s, i)
      ELSE IF c \in ShortEscapes THEN EscapeResult(i + 2, <<Copied(ShortEscape[c])>>)
      ELSE EscapeFailure("InvalidEscapeChar", i + 1)

(***************************************************************************)
(* Strict UTF-8: the state of Utf8Checker is the number of continuation    *)
(* bytes still expected, the position of the lead and the lead itself.     *)
(***************************************************************************)
Overlong   == {"C0"}
Leads      == {"C3", "E0", "E2", "ED", "EF", "F0", "F4"}
LeadNeed   == [C3 |-> 1, E0 |-> 2, E2 |-> 2, ED |-> 2, EF |-> 2, F0 |-> 3, F4 |-> 3]

\* The first continuation bytes a lead rejects, and what it then reports.
FirstSlotBad  == [C3 |-> {}, E0 |-> {"80"}, E2 |-> {}, ED |-> {"A8", "BB", "BF"},
                  EF |-> {}, F0 |-> {"80"}, F4 |-> {"A8", "BB", "BF"}]
FirstSlotCode == [C3 |-> "None", E0 |-> "Utf8Overlong", E2 |-> "None",
                  ED |-> "Utf8Surrogate", EF |-> "None", F0 |-> "Utf8Overlong",
                  F4 |-> "Utf8ExceedsMax"]

Utf8Start == [need |-> 0, lead |-> 0, by |-> "C3", code |-> "None", at |-> 0]

\* Utf8Checker::feed: byte b at position i.
Utf8Feed(ck, b, i) ==
  IF ck.need = 0
  THEN IF b \notin HighBytes THEN ck
       ELSE IF b \in Leads THEN [ck EXCEPT !.need = LeadNeed[b], !.lead = i, !.by = b]
       ELSE [ck EXCEPT !.code = IF b \in Overlong THEN "Utf8Overlong" ELSE "Utf8InvalidLead",
                       !.at = i]
  ELSE IF b \in Control THEN ck
       ELSE IF b \notin Continuation
       THEN [ck EXCEPT !.code = "Utf8InvalidContinuation", !.at = i]
       ELSE IF i = ck.lead + 1 /\ b \in FirstSlotBad[ck.by]
       THEN [ck EXCEPT !.code = FirstSlotCode[ck.by], !.at = ck.lead]
       ELSE [ck EXCEPT !.need = @ - 1]

\* Utf8Checker::end: a sequence left open is truncated, at its lead.
Utf8End(ck) ==
  IF ck.need # 0 THEN [ck EXCEPT !.code = "Utf8Truncated", !.at = ck.lead] ELSE ck
=============================================================================
