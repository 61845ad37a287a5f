------------------------- MODULE StreamReaderProofs -------------------------
(***************************************************************************)
(* Theorems about StreamReader for every input, chunk size, mode, depth    *)
(* limit and configuration, with read failures anywhere.                   *)
(***************************************************************************)
EXTENDS StreamEvents, Induction

(***************************************************************************)
(* Sequences.                                                              *)
(***************************************************************************)
\* A function on 1..n is a sequence of length n.
LEMMA FunctionIsSeq ==
  ASSUME NEW S, NEW n \in Nat, NEW f \in [1..n -> S]
  PROVE  f \in Seq(S) /\ Len(f) = n
OBVIOUS

\* Appending extends the domain by one and keeps the elements.
LEMMA AppendFacts ==
  ASSUME NEW S, NEW s \in Seq(S), NEW e \in S
  PROVE  /\ Append(s, e) \in Seq(S)
         /\ Len(Append(s, e)) = Len(s) + 1
         /\ \A i \in 1..Len(s) : Append(s, e)[i] = s[i]
         /\ Append(s, e)[Len(s) + 1] = e
BY AppendProperties

\* Concatenation adds the lengths.
LEMMA ConcatFacts ==
  ASSUME NEW S, NEW s \in Seq(S), NEW t \in Seq(S)
  PROVE  s \o t \in Seq(S) /\ Len(s \o t) = Len(s) + Len(t)
BY ConcatProperties

LEMMA PairOfFour ==
  ASSUME NEW S, NEW s \in Seq(S), NEW t \in Seq(S), Len(s) = 4, Len(t) = 4
  PROVE  s \o t \in Seq(S) /\ Len(s \o t) = 8
<1>1. s \o t \in Seq(S) /\ Len(s \o t) = Len(s) + Len(t)
  BY ConcatFacts
<1> QED BY <1>1

\* Replacing the last element of a sequence.
LEMMA ExceptLast ==
  ASSUME NEW S, NEW s \in Seq(S), s # <<>>, NEW e \in S
  PROVE  /\ [s EXCEPT ![Len(s)] = e] \in Seq(S)
         /\ Len([s EXCEPT ![Len(s)] = e]) = Len(s)
BY ExceptSeq

\* A part of a sequence.
LEMMA PartFacts ==
  ASSUME NEW S, NEW s \in Seq(S), NEW m \in Nat, NEW n \in Nat, m >= 1, n <= Len(s)
  PROVE  SubSeq(s, m, n) \in Seq(S)
BY SubSeqProperties

(***************************************************************************)
(* The byte rules.                                                         *)
(***************************************************************************)
LEMMA LiteralFacts ==
  ASSUME NEW b
  PROVE  /\ Literal(b) \in Seq(Bytes)
         /\ Len(Literal(b)) \in {4, 5}
<1>1. /\ <<"t", "r", "u", "e">> \in Seq(Bytes) /\ Len(<<"t", "r", "u", "e">>) = 4
      /\ <<"f", "a", "l", "s", "e">> \in Seq(Bytes) /\ Len(<<"f", "a", "l", "s", "e">>) = 5
      /\ <<"n", "u", "l", "l">> \in Seq(Bytes) /\ Len(<<"n", "u", "l", "l">>) = 4
  BY DEF Bytes, Letters
<1>2. Literal(b) \in {<<"t", "r", "u", "e">>, <<"f", "a", "l", "s", "e">>, <<"n", "u", "l", "l">>}
  BY DEF Literal
<1> QED BY <1>1, <1>2

LEMMA NumberStepFacts ==
  ASSUME NEW st \in NumberStates, NEW b, NumberStep(st, b) # "stop"
  PROVE  NumberStep(st, b) \in NumberStates
BY DEF NumberStep, NumberStates

LEMMA ClassifyFacts ==
  ASSUME NEW s
  PROVE  ClassifyNumber(s) \in {"Integer", "Double", "NumberOutOfRange"}
BY DEF ClassifyNumber

LEMMA NumberErrorFacts ==
  ASSUME NEW st
  PROVE  NumberError(st) \in ErrorCodes
BY DEF NumberError, ErrorCodes

\* encode_utf8 produces decoded bytes, at most four, and at most three for
\* the four hex digits of one escape.
LEMMA EncodeFacts ==
  ASSUME NEW h \in Seq(Bytes), Len(h) \in {4, 8}
  PROVE  /\ EncodeUtf8(h) \in Seq(Decoded)
         /\ Len(EncodeUtf8(h)) <= 4
<1>1. Utf8Length(h) \in Nat /\ Utf8Length(h) <= 4
  BY DEF Utf8Length
<1>2. \A k \in 1..Utf8Length(h) : [of |-> h, k |-> k] \in Decoded
  <2> DEFINE T == Bytes \union {"BACKSPACE", "FORMFEED", "LF", "CR", "TAB"}
  <2>1. h \in Seq(T)
    BY SeqMonotonic
  <2> QED BY <1>1, <2>1 DEF Decoded
<1>3. EncodeUtf8(h) \in [1..Utf8Length(h) -> Decoded]
  BY <1>2 DEF EncodeUtf8
<1> QED BY <1>1, <1>3, FunctionIsSeq

LEMMA CopiedFacts ==
  ASSUME NEW b \in Bytes \union {"BACKSPACE", "FORMFEED", "LF", "CR", "TAB"}
  PROVE  Copied(b) \in Decoded
BY DEF Copied, Decoded

\* A byte that is no padding lies inside the sequence.
LEMMA AtFacts ==
  ASSUME NEW s \in Seq(Bytes), NEW k \in Nat
  PROVE  /\ At(s, k) \in Bytes
         /\ At(s, k) # "nul" => k \in 1..Len(s)
         /\ At(s, k) \in HexDigits => k \in 1..Len(s)
<1>1. At(s, k) \in Bytes
  BY DEF At, Bytes, Control
<1>2. At(s, k) # "nul" => k \in 1..Len(s)
  BY DEF At
<1>3. "nul" \notin HexDigits
  BY DEF HexDigits, Digits
<1> QED BY <1>1, <1>2, <1>3

LEMMA Hex4Facts ==
  ASSUME NEW s \in Seq(Bytes), NEW k \in Nat
  PROVE  Hex4(s, k) \in Seq(Bytes) /\ Len(Hex4(s, k)) = 4
<1>1. At(s, k) \in Bytes /\ At(s, k + 1) \in Bytes /\ At(s, k + 2) \in Bytes
      /\ At(s, k + 3) \in Bytes
  BY AtFacts
<1> QED BY <1>1 DEF Hex4

\* parse_hex4 that succeeds stays inside the sequence; one that fails reports
\* a byte of it or the one after it.
LEMMA BadHexFacts ==
  ASSUME NEW s \in Seq(Bytes), NEW k \in Nat, k >= 1, k <= Len(s) + 1
  PROVE  /\ BadHex(s, k) = 0 => k + 3 <= Len(s)
         /\ BadHex(s, k) # 0 => BadHex(s, k) \in Nat /\ BadHex(s, k) >= 1 /\ BadHex(s, k) <= Len(s) + 1
<1>1. /\ At(s, k) \in HexDigits => k <= Len(s)
      /\ At(s, k + 1) \in HexDigits => k + 1 <= Len(s)
      /\ At(s, k + 2) \in HexDigits => k + 2 <= Len(s)
      /\ At(s, k + 3) \in HexDigits => k + 3 <= Len(s)
  BY AtFacts
<1>2. Len(s) \in Nat
  OBVIOUS
<1>3. CASE At(s, k) \notin HexDigits
  BY <1>2, <1>3 DEF BadHex
<1>4. CASE At(s, k) \in HexDigits /\ At(s, k + 1) \notin HexDigits
  BY <1>1, <1>2, <1>4 DEF BadHex
<1>5. CASE At(s, k) \in HexDigits /\ At(s, k + 1) \in HexDigits
           /\ At(s, k + 2) \notin HexDigits
  BY <1>1, <1>2, <1>5 DEF BadHex
<1>6. CASE At(s, k) \in HexDigits /\ At(s, k + 1) \in HexDigits
           /\ At(s, k + 2) \in HexDigits
  BY <1>1, <1>2, <1>6 DEF BadHex
<1> QED BY <1>3, <1>4, <1>5, <1>6

\* What handle_escape may return for the backslash at position i of s: an
\* error at a position of s or the one after it, or an escape that consumes
\* only bytes of s and writes no more than it consumes.
SoundEscape(r, s, i) ==
  /\ r.code \in ErrorCodes
  /\ r.code # "None" => r.at \in Nat /\ r.at >= 1 /\ r.at <= Len(s) + 1
  /\ r.code = "None" => /\ r.next \in Nat /\ r.next >= i + 2 /\ r.next <= Len(s) + 1
                        /\ r.out \in Seq(Decoded)
                        /\ Len(r.out) <= r.next - i

LEMMA SoundFailure ==
  ASSUME NEW s \in Seq(Bytes), NEW i \in Nat, NEW at \in Nat, at >= 1, at <= Len(s) + 1,
         NEW code \in ErrorCodes \ {"None"}
  PROVE  SoundEscape(EscapeFailure(code, at), s, i)
BY DEF SoundEscape, EscapeFailure

LEMMA SoundResult ==
  ASSUME NEW s \in Seq(Bytes), NEW i \in Nat, NEW next \in Nat, next >= i + 2, next <= Len(s) + 1,
         NEW out \in Seq(Decoded), Len(out) <= next - i
  PROVE  SoundEscape(EscapeResult(next, out), s, i)
<1>1. "None" \in ErrorCodes
  BY DEF ErrorCodes
<1> QED BY <1>1 DEF SoundEscape, EscapeResult

LEMMA PairFacts ==
  ASSUME NEW s \in Seq(Bytes), NEW i \in Nat, i + 5 <= Len(s)
  PROVE  SoundEscape(HandlePair(s, i), s, i)
<1>0. {"ExpectedLowSurrogate", "InvalidHexDigit", "InvalidSurrogatePair"}
         \subseteq ErrorCodes \ {"None"}
  BY DEF ErrorCodes
<1>1. CASE At(s, i + 6) # "bs" \/ At(s, i + 7) # "u"
  <2>1. HandlePair(s, i) = EscapeFailure("ExpectedLowSurrogate", i + 6)
    BY <1>1 DEF HandlePair
  <2>2. i + 6 >= 1 /\ i + 6 <= Len(s) + 1
    OBVIOUS
  <2> QED BY <1>0, <2>1, <2>2, SoundFailure
<1>2. CASE At(s, i + 6) = "bs" /\ At(s, i + 7) = "u"
  <2>0. i + 7 <= Len(s)
    BY <1>2, AtFacts
  <2>1. CASE BadHex(s, i + 8) # 0
    <3>1. HandlePair(s, i) = EscapeFailure("InvalidHexDigit", BadHex(s, i + 8))
      BY <1>2, <2>1 DEF HandlePair
    <3>2. BadHex(s, i + 8) \in Nat /\ BadHex(s, i + 8) >= 1 /\ BadHex(s, i + 8) <= Len(s) + 1
      BY <2>0, <2>1, BadHexFacts
    <3> QED BY <1>0, <3>1, <3>2, SoundFailure
  <2>2. CASE BadHex(s, i + 8) = 0
    <3>0. i + 12 >= 1 /\ i + 12 >= i + 2 /\ i + 12 <= Len(s) + 1
      <4>1. (i + 8) + 3 <= Len(s)
        BY <2>0, <2>2, BadHexFacts
      <4> QED BY <4>1
    <3>1. CASE ~IsLowSurrogate(Hex4(s, i + 8))
      <4>1. HandlePair(s, i) = EscapeFailure("InvalidSurrogatePair", i + 12)
        BY <1>2, <2>2, <3>1 DEF HandlePair
      <4> QED BY <1>0, <3>0, <4>1, SoundFailure
    <3>2. CASE IsLowSurrogate(Hex4(s, i + 8))
      <4> DEFINE h == Hex4(s, i + 2) \o Hex4(s, i + 8)
      <4>1. HandlePair(s, i) = EscapeResult(i + 12, EncodeUtf8(h))
        BY <1>2, <2>2, <3>2 DEF HandlePair
      <4>2. h \in Seq(Bytes) /\ Len(h) = 8
        <5>1. Hex4(s, i + 2) \in Seq(Bytes) /\ Len(Hex4(s, i + 2)) = 4
          BY Hex4Facts
        <5>2. Hex4(s, i + 8) \in Seq(Bytes) /\ Len(Hex4(s, i + 8)) = 4
          BY Hex4Facts
        <5> QED BY <5>1, <5>2, PairOfFour
      <4> HIDE DEF h
      <4>3. EncodeUtf8(h) \in Seq(Decoded) /\ Len(EncodeUtf8(h)) <= 4
        BY <4>2, EncodeFacts
      <4>4. Len(EncodeUtf8(h)) <= (i + 12) - i
        BY <4>3
      <4> QED BY <3>0, <4>1, <4>3, <4>4, SoundResult
    <3> QED BY <3>1, <3>2
  <2> QED BY <2>1, <2>2
<1> QED BY <1>1, <1>2

LEMMA UnicodeFacts ==
  ASSUME NEW s \in Seq(Bytes), NEW i \in Nat, i >= 1, i <= Len(s), At(s, i + 1) = "u"
  PROVE  SoundEscape(HandleUnicode(s, i), s, i)
<1>0. {"LoneLowSurrogate", "InvalidHexDigit"} \subseteq ErrorCodes \ {"None"}
  BY DEF ErrorCodes
<1>1. i + 1 <= Len(s)
  BY AtFacts
<1>2. CASE BadHex(s, i + 2) # 0
  <2>1. HandleUnicode(s, i) = EscapeFailure("InvalidHexDigit", BadHex(s, i + 2))
    BY <1>2 DEF HandleUnicode
  <2>2. BadHex(s, i + 2) \in Nat /\ BadHex(s, i + 2) >= 1 /\ BadHex(s, i + 2) <= Len(s) + 1
    BY <1>1, <1>2, BadHexFacts
  <2> QED BY <1>0, <2>1, <2>2, SoundFailure
<1>3. CASE BadHex(s, i + 2) = 0
  <2>0. i + 5 <= Len(s)
    <3>1. (i + 2) + 3 <= Len(s)
      BY <1>1, <1>3, BadHexFacts
    <3> QED BY <3>1
  <2>1. CASE IsLowSurrogate(Hex4(s, i + 2))
    <3>1. HandleUnicode(s, i) = EscapeFailure("LoneLowSurrogate", i + 6)
      BY <1>3, <2>1 DEF HandleUnicode
    <3>2. i + 6 >= 1 /\ i + 6 <= Len(s) + 1
      BY <2>0
    <3> QED BY <1>0, <3>1, <3>2, SoundFailure
  <2>2. CASE ~IsLowSurrogate(Hex4(s, i + 2)) /\ IsHighSurrogate(Hex4(s, i + 2))
    <3>1. HandleUnicode(s, i) = HandlePair(s, i)
      BY <1>3, <2>2 DEF HandleUnicode
    <3> QED BY <2>0, <3>1, PairFacts
  <2>3. CASE ~IsLowSurrogate(Hex4(s, i + 2)) /\ ~IsHighSurrogate(Hex4(s, i + 2))
    <3>0. i + 2 \in Nat
      OBVIOUS
    <3>1. Hex4(s, i + 2) \in Seq(Bytes) /\ Len(Hex4(s, i + 2)) = 4
      BY ONLY <3>0, s \in Seq(Bytes), Hex4Facts
    <3>2. PICK h \in Seq(Bytes) : h = Hex4(s, i + 2) /\ Len(h) = 4
      BY <3>1
    <3>3. EncodeUtf8(h) \in Seq(Decoded) /\ Len(EncodeUtf8(h)) <= 4
      BY <3>2, EncodeFacts
    <3>4. Len(EncodeUtf8(h)) <= (i + 6) - i /\ i + 6 >= i + 2 /\ i + 6 <= Len(s) + 1
      BY <2>0, <3>3
    <3>5. HandleUnicode(s, i) = EscapeResult(i + 6, EncodeUtf8(h))
      BY <1>3, <2>3, <3>2 DEF HandleUnicode
    <3> QED BY <3>3, <3>4, <3>5, SoundResult
  <2> QED BY <2>1, <2>2, <2>3
<1> QED BY <1>2, <1>3

\* handle_escape stays inside the token and never writes more than it reads.
LEMMA EscapeFacts ==
  ASSUME NEW s \in Seq(Bytes), NEW i \in Nat, i >= 1, i <= Len(s)
  PROVE  SoundEscape(HandleEscape(s, i), s, i)
<1> DEFINE c == At(s, i + 1)
<1>0. "u" \notin ShortEscapes /\ "nul" \notin ShortEscapes
  BY DEF ShortEscapes
<1>1. CASE c = "u"
  <2>1. HandleEscape(s, i) = HandleUnicode(s, i)
    BY <1>1 DEF HandleEscape
  <2> QED BY <1>1, <2>1, UnicodeFacts
<1>2. CASE c # "u" /\ c \in ShortEscapes
  <2> DEFINE out == <<Copied(ShortEscape[c])>>
  <2>1. HandleEscape(s, i) = EscapeResult(i + 2, out)
    BY <1>2 DEF HandleEscape
  <2>2. i + 1 <= Len(s)
    BY <1>0, <1>2, AtFacts
  <2>3. Copied(ShortEscape[c]) \in Decoded
    <3>1. ShortEscape[c] \in Bytes \union {"BACKSPACE", "FORMFEED", "LF", "CR", "TAB"}
      <4> HIDE DEF c
      <4> QED BY <1>2 DEF ShortEscape, ShortEscapes, Bytes
    <3> QED BY <3>1, CopiedFacts
  <2>4. out \in Seq(Decoded) /\ Len(out) = 1
    BY <2>3
  <2> HIDE DEF out
  <2>5. SoundEscape(EscapeResult(i + 2, out), s, i)
    <3>1. Len(out) <= (i + 2) - i /\ i + 2 <= Len(s) + 1 /\ i + 2 \in Nat
      BY <2>2, <2>4
    <3>2. i + 2 >= i + 2
      OBVIOUS
    <3> QED BY ONLY s \in Seq(Bytes), i \in Nat, <2>4, <3>1, <3>2, SoundResult
  <2> QED BY <2>1, <2>5
<1>3. CASE c # "u" /\ c \notin ShortEscapes
  <2>1. HandleEscape(s, i) = EscapeFailure("InvalidEscapeChar", i + 1)
    BY <1>3 DEF HandleEscape
  <2>2. i + 1 >= 1 /\ i + 1 <= Len(s) + 1
    OBVIOUS
  <2>3. "InvalidEscapeChar" \in ErrorCodes \ {"None"}
    BY DEF ErrorCodes
  <2> QED BY <2>1, <2>2, <2>3, SoundFailure
<1> QED BY <1>1, <1>2, <1>3

\* Utf8Checker::feed and end keep the checker's type; a violation is reported
\* at the byte fed or at the lead of the sequence it breaks.
Checkers == [need : 0..3, lead : Nat, by : Leads, code : {"None"}, at : {0}]

LEMMA FeedFacts ==
  ASSUME NEW c \in Checkers, NEW b \in Bytes, NEW i \in Nat, NEW n \in Nat,
         1 <= i, i <= n,
         c.need # 0 => 1 <= c.lead /\ c.lead <= n
  PROVE  /\ Utf8Feed(c, b, i).code \in ErrorCodes
         /\ Utf8Feed(c, b, i).code = "None" =>
              /\ Utf8Feed(c, b, i) \in Checkers
              /\ Utf8Feed(c, b, i).need # 0 =>
                   1 <= Utf8Feed(c, b, i).lead /\ Utf8Feed(c, b, i).lead <= n
         /\ Utf8Feed(c, b, i).code # "None" =>
              /\ Utf8Feed(c, b, i).at \in Nat
              /\ 1 <= Utf8Feed(c, b, i).at
              /\ Utf8Feed(c, b, i).at <= n
<1>0. /\ {"None", "Utf8Overlong", "Utf8InvalidLead", "Utf8InvalidContinuation",
          "Utf8Surrogate", "Utf8ExceedsMax"} \subseteq ErrorCodes
      /\ c.code = "None" /\ c.at = 0 /\ c.lead \in Nat /\ c.need \in 0..3 /\ c.by \in Leads
  BY DEF ErrorCodes, Checkers
<1>1. CASE c.need = 0 /\ b \notin HighBytes
  BY <1>0, <1>1 DEF Utf8Feed
<1>2. CASE c.need = 0 /\ b \in HighBytes /\ b \in Leads
  <2>1. Utf8Feed(c, b, i) = [c EXCEPT !.need = LeadNeed[b], !.lead = i, !.by = b]
    BY <1>2 DEF Utf8Feed
  <2>2. LeadNeed[b] \in 0..3
    BY <1>2 DEF LeadNeed, Leads
  <2> QED BY <1>0, <1>2, <2>1, <2>2, ZenonT(60) DEF Checkers
<1>3. CASE c.need = 0 /\ b \in HighBytes /\ b \notin Leads
  <2>1. PICK x \in {"Utf8Overlong", "Utf8InvalidLead"} :
          Utf8Feed(c, b, i) = [c EXCEPT !.code = x, !.at = i]
    BY <1>3 DEF Utf8Feed
  <2> QED BY <1>0, <2>1 DEF Checkers
<1>4. CASE c.need # 0 /\ b \in Control
  BY <1>0, <1>4 DEF Utf8Feed
<1>5. CASE c.need # 0 /\ b \notin Control /\ b \notin Continuation
  <2>1. Utf8Feed(c, b, i) = [c EXCEPT !.code = "Utf8InvalidContinuation", !.at = i]
    BY <1>5 DEF Utf8Feed
  <2> QED BY <1>0, <2>1 DEF Checkers
<1>6. CASE /\ c.need # 0 /\ b \notin Control /\ b \in Continuation
           /\ i = c.lead + 1 /\ b \in FirstSlotBad[c.by]
  <2>1. Utf8Feed(c, b, i) = [c EXCEPT !.code = FirstSlotCode[c.by], !.at = c.lead]
    BY <1>6 DEF Utf8Feed
  <2>2. FirstSlotCode[c.by] \in {"Utf8Overlong", "Utf8Surrogate", "Utf8ExceedsMax"}
    BY <1>0, <1>6 DEF FirstSlotCode, FirstSlotBad, Leads
  <2>3. /\ Utf8Feed(c, b, i).code = FirstSlotCode[c.by]
        /\ Utf8Feed(c, b, i).at = c.lead
    BY <2>1 DEF Checkers
  <2>4. FirstSlotCode[c.by] \in ErrorCodes /\ FirstSlotCode[c.by] # "None"
    BY <1>0, <2>2
  <2> QED BY <1>0, <1>6, <2>3, <2>4
<1>7. CASE /\ c.need # 0 /\ b \notin Control /\ b \in Continuation
           /\ ~(i = c.lead + 1 /\ b \in FirstSlotBad[c.by])
  <2>1. Utf8Feed(c, b, i) = [c EXCEPT !.need = c.need - 1]
    BY <1>7 DEF Utf8Feed
  <2>2. c.need - 1 \in 0..3
    BY <1>0, <1>7
  <2> QED BY <1>0, <1>7, <2>1, <2>2 DEF Checkers
<1> QED BY <1>1, <1>2, <1>3, <1>4, <1>5, <1>6, <1>7

LEMMA EndFacts ==
  ASSUME NEW c \in Checkers, NEW n \in Nat,
         c.need # 0 => 1 <= c.lead /\ c.lead <= n
  PROVE  /\ Utf8End(c).code \in ErrorCodes
         /\ Utf8End(c).code # "None" =>
              /\ Utf8End(c).at \in Nat /\ 1 <= Utf8End(c).at /\ Utf8End(c).at <= n
<1>0. {"None", "Utf8Truncated"} \subseteq ErrorCodes
  BY DEF ErrorCodes
<1>1. CASE c.need = 0
  BY <1>0, <1>1 DEF Utf8End, Checkers
<1>2. CASE c.need # 0
  <2>1. Utf8End(c) = [c EXCEPT !.code = "Utf8Truncated", !.at = c.lead]
    BY <1>2 DEF Utf8End
  <2> QED BY <1>0, <1>2, <2>1 DEF Checkers
<1> QED BY <1>1, <1>2

(***************************************************************************)
(* The window.                                                             *)
(***************************************************************************)
LEMMA ConfigFacts ==
  ASSUME cfg \in Configs
  PROVE  /\ cfg.input \in Seq(Bytes)
         /\ cfg.chunk \in Nat /\ cfg.depth \in Nat
         /\ Chunk \in Nat /\ Chunk >= 1
<1>1. cfg.input \in Inputs /\ cfg.chunk \in ChunkSizes /\ cfg.depth \in MaxDepths
  BY DEF Configs
<1>2. cfg.input \in Seq(Bytes) /\ cfg.chunk \in Nat /\ cfg.depth \in Nat
  BY <1>1, StreamAssumption
<1> QED BY <1>2 DEF Chunk

\* A step that only moves the cursor within the window.
LEMMA WindowAdvance ==
  ASSUME WindowInv, UNCHANGED <<cfg, wvars>>, pos' \in Nat, pos' <= Len(buf)
  PROVE  WindowInv'
BY DEF WindowInv, WindowIsSlice, wvars

LEMMA WindowStays ==
  ASSUME WindowInv, UNCHANGED <<cfg, wvars, pos>>
  PROVE  WindowInv'
BY DEF WindowInv, WindowIsSlice, wvars

\* Compaction and refill: the unread bytes move to the front and the next
\* bytes of the stream follow them.
LEMMA WindowRefill ==
  ASSUME WindowInv, NEW got \in Nat, got <= Remaining, Refill(got),
         UNCHANGED cfg, eof' \in BOOLEAN, eof' => got = Remaining \/ eof
  PROVE  /\ WindowInv'
         /\ Abs' = Abs /\ Avail' = Avail + got /\ rd' >= rd
<1> DEFINE n == Avail + got
           f == [i \in 1..n |-> IF i <= Avail THEN buf[pos + i] ELSE cfg.input[rd + i - Avail]]
<1>0. /\ rd \in Nat /\ pos \in Nat /\ base \in Nat /\ buf \in Seq(Bytes) /\ eof \in BOOLEAN
      /\ pos <= Len(buf) /\ base + Len(buf) = rd /\ rd <= Len(cfg.input)
      /\ \A i \in 1..Len(buf) : buf[i] = cfg.input[base + i]
      /\ cfg \in Configs
      /\ eof => rd = Len(cfg.input)
  BY DEF WindowInv, WindowIsSlice
<1>1. cfg.input \in Seq(Bytes) /\ Len(cfg.input) \in Nat /\ Len(buf) \in Nat
  BY <1>0, ConfigFacts
<1>2. n \in Nat /\ Avail \in Nat /\ rd + got <= Len(cfg.input)
  BY <1>0, <1>1 DEF Avail, Remaining
<1>3. buf' = f /\ base' = base + pos /\ pos' = 0 /\ rd' = rd + got
  BY DEF Refill
<1>4. ASSUME NEW i \in 1..n
      PROVE  f[i] \in Bytes /\ f[i] = cfg.input[(base + pos) + i]
  <2>1. CASE i <= Avail
    <3>1. f[i] = buf[pos + i] /\ pos + i \in 1..Len(buf)
      BY <1>0, <1>1, <1>2, <1>4, <2>1 DEF Avail
    <3>2. buf[pos + i] = cfg.input[base + (pos + i)]
      BY <1>0, <3>1
    <3>3. base + (pos + i) = (base + pos) + i
      BY <1>0
    <3> QED BY <1>0, <3>1, <3>2, <3>3
  <2>2. CASE ~(i <= Avail)
    <3>1. f[i] = cfg.input[rd + i - Avail] /\ rd + i - Avail \in 1..Len(cfg.input)
      BY <1>0, <1>1, <1>2, <1>4, <2>2, SMTT(40)
    <3>2. rd + i - Avail = (base + pos) + i
      <4>1. i \in Int
        OBVIOUS
      <4>2. rd = base + Len(buf) /\ Avail = Len(buf) - pos
        BY <1>0 DEF Avail
      <4> QED BY ONLY <1>0, <1>1, <4>1, <4>2
    <3> QED BY <1>1, <3>1, <3>2
  <2> QED BY <2>1, <2>2
<1>5. f \in [1..n -> Bytes]
  BY <1>4
<1>6. buf' \in Seq(Bytes) /\ Len(buf') = n
  <2> HIDE DEF f, n
  <2> QED BY <1>2, <1>3, <1>5, FunctionIsSeq
<1>7. pos' <= Len(buf') /\ base' + Len(buf') = rd' /\ rd' <= Len(cfg'.input)
  <2>1. Len(buf') = (Len(buf) - pos) + got
    BY <1>6 DEF Avail
  <2>2. cfg' = cfg
    OBVIOUS
  <2>3. base' = base + pos /\ pos' = 0 /\ rd' = rd + got
    BY <1>3
  <2>4. pos' <= Len(buf')
    BY ONLY <1>0, <1>1, <2>1, <2>3, got \in Nat
  <2>5. base' + Len(buf') = rd'
    <3>1. (base + pos) + ((Len(buf) - pos) + got) = (base + Len(buf)) + got
      BY <1>0, <1>1
    <3>2. base + Len(buf) = rd
      BY <1>0
    <3> HIDE DEF f, n
    <3> QED BY ONLY <2>1, <2>3, <3>1, <3>2
  <2>6. rd' <= Len(cfg'.input)
    BY <1>2, <2>2, <2>3
  <2> QED BY <2>4, <2>5, <2>6
<1>8. \A i \in 1..Len(buf') : buf'[i] = cfg'.input[base' + i]
  <2> HIDE DEF f, n
  <2> QED BY <1>3, <1>4, <1>6
<1>9. eof' => rd' = Len(cfg'.input)
  BY <1>0, <1>1, <1>2, <1>3, SMTT(40) DEF Remaining
<1>10. WindowInv'
  <2>1. WindowIsSlice'
    BY <1>7, <1>8 DEF WindowIsSlice
  <2>2. rd' \in Nat /\ pos' \in Nat /\ base' \in Nat
    BY <1>0, <1>3
  <2> QED BY <1>0, <1>6, <1>9, <2>1, <2>2 DEF WindowInv
<1>11. Abs' = Abs /\ rd' >= rd
  BY <1>0, <1>3 DEF Abs
<1>12. Avail' = Avail + got
  BY <1>0, <1>1, <1>3, <1>6 DEF Avail
<1> QED BY <1>10, <1>11, <1>12

(***************************************************************************)
(* What the other parts of the invariant need of a step.                   *)
(***************************************************************************)
\* A step that leaves the stack alone.
LEMMA StackStays ==
  ASSUME StackInv, UNCHANGED <<cfg, stack>>, start' \in BOOLEAN, root' \in BOOLEAN,
         root' => root
  PROVE  StackInv'
BY DEF StackInv, DepthBounded

\* A call that goes on or returns without having recorded an error.
LEMMA ControlMoves ==
  ASSUME ControlInv, UNCHANGED <<cfg, fin, err>>, ~fin, pc' \in PCs,
         HasError => pc' \in {"idle", "bom", "literal", "gate"},
         pc' = "sep" => root',
         rd \in Nat, rd' \in Nat, rd <= rd'
  PROVE  ControlInv'
<1>1. err.off <= rd' /\ pc' \in PCs /\ fin' \in BOOLEAN
  BY DEF ControlInv, ErrorWithinRead, NoOffset
<1> QED BY <1>1 DEF ControlInv, ErrorWithinRead, CleanEndIsComplete, HasError

\* A call that fails.
LEMMA ControlFails ==
  ASSUME ControlInv, UNCHANGED <<cfg, fin>>, ~fin, pc' \in {"idle", "bom", "literal", "gate"},
         NEW code \in ErrorCodes, NEW off \in Nat \union {NoOffset}, SetError(code, off),
         rd \in Nat, rd' \in Nat, rd <= rd', off <= rd
  PROVE  ControlInv'
<1>1. err' \in [code : ErrorCodes, off : Nat \union {NoOffset}]
  BY DEF ControlInv, SetError
<1>2. err'.off <= rd'
  BY DEF ControlInv, SetError, ErrorWithinRead, NoOffset
<1>3. pc' \in PCs
  BY DEF PCs
<1> QED BY <1>1, <1>2, <1>3 DEF ControlInv, ErrorWithinRead, CleanEndIsComplete

\* A call that ends the stream: nothing unread, no error, nothing open.
LEMMA ControlFinishes ==
  ASSUME WindowInv, ControlInv, StackInv, UNCHANGED <<cfg, wvars, pos, err>>, stack' = <<>>,
         Avail = 0, eof, ~HasError, Finish
  PROVE  ControlInv'
<1>1. /\ rd = Len(cfg.input) /\ base + Len(buf) = rd /\ pos \in Nat /\ base \in Nat
      /\ Len(buf) \in Nat
  BY DEF WindowInv, WindowIsSlice
<1>2. base + pos = rd
  BY <1>1 DEF Avail
<1>3. fin' = TRUE /\ pc' = "idle" /\ pc' \in PCs
  BY DEF Finish, PCs
<1>4. CleanEndIsComplete'
  BY <1>1, <1>2, <1>3 DEF CleanEndIsComplete, Abs, HasError, wvars
<1> QED BY <1>3, <1>4 DEF ControlInv, ErrorWithinRead, HasError, wvars

\* A step outside the loops over a token.
LEMMA TokenStays ==
  ASSUME TokenInv, UNCHANGED kvars, pc' \notin {"string", "decode", "number"}
  PROVE  TokenInv'
BY DEF TokenInv, kvars, TokenIsSource, DecodeBehindCursor

\* An event is appended to the ones returned before.
LEMMA EventFacts ==
  ASSUME events \in Seq(Events), NEW type \in EventTypes, NEW txt \in Seq(Decoded),
         NEW raw \in Seq(Bytes), Emit(Event(type, txt, raw))
  PROVE  events' \in Seq(Events) /\ pc' = "idle" /\ pc' \in PCs
<1>1. Event(type, txt, raw) \in Events
  BY DEF Event, Events
<1>2. events' = Append(events, Event(type, txt, raw)) /\ pc' = "idle"
  BY DEF Emit
<1> HIDE DEF Events
<1>3. events' \in Seq(Events)
  BY <1>1, <1>2, AppendFacts
<1> QED BY <1>2, <1>3 DEF PCs

LEMMA EmptyText == <<>> \in Seq(Decoded) /\ <<>> \in Seq(Bytes) /\ <<>> \in Seq(Frames)
OBVIOUS

\* The frame on top of the stack.
LEMMA TopFacts ==
  ASSUME stack \in Seq(Frames), stack # <<>>
  PROVE  /\ Top \in Frames /\ Len(stack) \in Nat /\ Len(stack) >= 1
         /\ Top.phase \in ObjectPhases => Top.kind = "Object"
         /\ Top.phase \in ArrayPhases => Top.kind = "Array"
<1>1. Top \in Frames /\ Len(stack) \in Nat /\ Len(stack) >= 1
  <2> HIDE DEF Frames
  <2> QED BY DEF Top
<1>2. \A f \in Frames : /\ f.phase \in ObjectPhases => f.kind = "Object"
                        /\ f.phase \in ArrayPhases => f.kind = "Array"
  BY DEF Frames, ObjectPhases, ArrayPhases
<1> QED BY <1>1, <1>2

\* A frame whose phase is replaced by one of its kind is a frame.
LEMMA FramePhase ==
  ASSUME NEW s \in Seq(Frames), s # <<>>, NEW phase,
         s[Len(s)].kind = "Object" => phase \in ObjectPhases,
         s[Len(s)].kind = "Array" => phase \in ArrayPhases
  PROVE  /\ [s EXCEPT ![Len(s)].phase = phase] \in Seq(Frames)
         /\ Len([s EXCEPT ![Len(s)].phase = phase]) = Len(s)
         /\ [s EXCEPT ![Len(s)].phase = phase] # <<>>
<1> DEFINE f == s[Len(s)]
           g == [f EXCEPT !.phase = phase]
<1>1. f \in Frames /\ Len(s) \in Nat /\ Len(s) >= 1
  <2> HIDE DEF Frames
  <2> QED OBVIOUS
<1>2. g \in Frames
  <2> HIDE DEF f
  <2>1. \/ f \in [kind : {"Object"}, phase : ObjectPhases]
        \/ f \in [kind : {"Array"}, phase : ArrayPhases]
    BY <1>1 DEF Frames
  <2>2. CASE f \in [kind : {"Object"}, phase : ObjectPhases]
    <3>1. phase \in ObjectPhases
      BY <2>2 DEF f
    <3> QED BY <2>2, <3>1 DEF Frames
  <2>3. CASE f \in [kind : {"Array"}, phase : ArrayPhases]
    <3>1. phase \in ArrayPhases
      BY <2>3 DEF f
    <3> QED BY <2>3, <3>1 DEF Frames
  <2> QED BY <2>1, <2>2, <2>3
<1>3. [s EXCEPT ![Len(s)].phase = phase] = [s EXCEPT ![Len(s)] = g]
  OBVIOUS
<1> HIDE DEF f, g, Frames
<1>4. /\ [s EXCEPT ![Len(s)] = g] \in Seq(Frames)
      /\ Len([s EXCEPT ![Len(s)] = g]) = Len(s)
  BY <1>2, ExceptLast
<1>5. \A q \in Seq(Frames) : Len(q) >= 1 => q # <<>>
  OBVIOUS
<1> QED BY <1>1, <1>3, <1>4, <1>5

\* complete_value on a stack no deeper than the one before.
LEMMA CompleteFacts ==
  ASSUME StackInv, cfg \in Configs, UNCHANGED <<cfg, start>>, NEW s \in Seq(Frames),
         Len(s) <= Len(stack), CompleteValue(s)
  PROVE  StackInv'
<1>0. Len(s) \in Nat /\ Len(stack) \in Nat /\ cfg.depth \in Nat
  BY ConfigFacts DEF StackInv
<1>1. CASE s = <<>>
  <2>1. stack' = <<>> /\ root' = TRUE
    BY <1>1 DEF CompleteValue
  <2>2. Len(<<>>) = 0 /\ <<>> \in Seq(Frames)
    OBVIOUS
  <2>3. DepthBounded'
    BY <1>0, <2>1, <2>2 DEF DepthBounded
  <2> QED BY <2>1, <2>2, <2>3 DEF StackInv
<1>2. CASE s # <<>>
  <2> DEFINE ph == CompletePhase(s[Len(s)].kind)
  <2>1. root' = FALSE /\ stack' = [s EXCEPT ![Len(s)].phase = ph]
    BY <1>2 DEF CompleteValue
  <2>2. /\ s[Len(s)].kind = "Object" => ph \in ObjectPhases
        /\ s[Len(s)].kind = "Array" => ph \in ArrayPhases
    BY DEF CompletePhase, ObjectPhases, ArrayPhases
  <2> HIDE DEF ph
  <2>3. stack' \in Seq(Frames) /\ Len(stack') = Len(s)
    BY <1>2, <2>1, <2>2, FramePhase
  <2>4. DepthBounded'
    BY <1>0, <2>3 DEF StackInv, DepthBounded
  <2> QED BY <2>1, <2>3, <2>4 DEF StackInv
<1> QED BY <1>1, <1>2

\* A new phase of the top frame, of its kind.
LEMMA SetPhaseFacts ==
  ASSUME StackInv, UNCHANGED <<cfg, start, root>>, stack # <<>>,
         NEW phase, SetPhase(phase),
         Top.kind = "Object" => phase \in ObjectPhases,
         Top.kind = "Array" => phase \in ArrayPhases
  PROVE  StackInv'
<1>1. stack \in Seq(Frames)
  BY DEF StackInv
<1>2. stack' \in Seq(Frames) /\ Len(stack') = Len(stack)
  BY <1>1, FramePhase DEF SetPhase, Top
<1>3. DepthBounded' /\ ~root
  BY <1>2 DEF StackInv, DepthBounded
<1> QED BY <1>2, <1>3 DEF StackInv

(***************************************************************************)
(* One lemma per action: it preserves ReaderInv.                           *)
(***************************************************************************)
\* What every action starts from.
LEMMA StateFacts ==
  ASSUME ReaderInv
  PROVE  /\ rd \in Nat /\ pos \in Nat /\ base \in Nat /\ buf \in Seq(Bytes)
         /\ Len(buf) \in Nat /\ pos <= Len(buf)
         /\ Avail \in Nat /\ Abs \in Nat /\ Abs <= rd /\ Abs + Avail = rd
         /\ cfg \in Configs /\ eof \in BOOLEAN
         /\ Avail > 0 => Peek \in Bytes /\ pos + 1 <= Len(buf) /\ Abs + 1 <= rd
<1>1. /\ rd \in Nat /\ pos \in Nat /\ base \in Nat /\ buf \in Seq(Bytes) /\ cfg \in Configs
      /\ eof \in BOOLEAN /\ pos <= Len(buf) /\ base + Len(buf) = rd
  BY DEF ReaderInv, WindowInv, WindowIsSlice
<1>2. Len(buf) \in Nat
  BY <1>1
<1>3. Avail \in Nat /\ Abs \in Nat /\ Abs <= rd /\ Abs + Avail = rd
  BY <1>1, <1>2 DEF Avail, Abs
<1>4. ASSUME Avail > 0
      PROVE  Peek \in Bytes /\ pos + 1 <= Len(buf) /\ Abs + 1 <= rd
  <2>1. pos + 1 <= Len(buf) /\ Abs + 1 <= rd
    BY <1>1, <1>2, <1>3, <1>4 DEF Avail, Abs
  <2> QED BY <1>1, <1>2, <2>1 DEF Peek
<1> QED BY <1>1, <1>2, <1>3, <1>4

LEMMA PullInv == ASSUME ReaderInv, Pull PROVE ReaderInv'
<1>1. WindowInv'
  BY WindowStays DEF ReaderInv, Pull
<1>2. StackInv'
  BY StackStays DEF ReaderInv, Pull, StackInv
<1>3. pc' \in {"bom", "sep", "ws"} /\ pc' \in PCs /\ (pc' = "sep" => root')
  BY DEF Pull, LoopStart, PCs
<1>4. ControlInv'
  BY <1>3, StateFacts, ControlMoves DEF ReaderInv, Pull, wvars
<1>5. TokenInv'
  BY <1>3, TokenStays DEF ReaderInv, Pull
<1> QED BY <1>1, <1>2, <1>4, <1>5 DEF ReaderInv, Pull

\* A refill, whether it succeeds or not, moves no offset: the token being
\* gathered still ends where the cursor is.
LEMMA RefillInv ==
  ASSUME ReaderInv, NeedsFill, NEW got \in Nat, got <= Remaining, Refill(got), RestartScan,
         UNCHANGED cfg, eof' \in BOOLEAN, eof' => got = Remaining \/ eof,
         pc' \in {pc, "idle"}
  PROVE  WindowInv' /\ TokenInv' /\ rd' \in Nat /\ rd <= rd'
<1>1. WindowInv' /\ Abs' = Abs /\ Avail' = Avail + got /\ rd' >= rd
  BY WindowRefill DEF ReaderInv
<1>2. rd' \in Nat /\ rd \in Nat
  BY <1>1 DEF WindowInv, ReaderInv
<1>3. Avail \in Nat
  BY StateFacts
<1>4. /\ UNCHANGED <<tok, esc, anchor, ck, text>>
      /\ cur' = IF pc = "number" THEN 0 ELSE cur
      /\ nst' = IF pc = "number" THEN "start" ELSE nst
  BY DEF RestartScan
<1>5. cur' \in Nat /\ nst' \in NumberStates
  BY <1>4 DEF ReaderInv, TokenInv, NumberStates
<1>6. pc # "decode"
  BY DEF NeedsFill
<1>7. TokenIsSource'
  <2>1. CASE pc' = "string"
    <3>1. pc = "string" /\ TokenIsSource
      BY <2>1 DEF ReaderInv, TokenInv
    <3> QED BY <1>1, <1>4, <2>1, <3>1 DEF TokenIsSource
  <2>2. CASE pc' # "string"
    BY <1>6, <2>2 DEF TokenIsSource
  <2> QED BY <2>1, <2>2
<1>8. DecodeBehindCursor'
  BY <1>6 DEF DecodeBehindCursor
<1>9. pc' = "number" => cur' <= Avail'
  <2>1. ASSUME pc' = "number" PROVE cur' = 0
    BY <1>4, <2>1
  <2>2. Avail' \in Nat
    BY <1>1, <1>3
  <2> QED BY <2>1, <2>2
<1> QED BY <1>1, <1>2, <1>4, <1>5, <1>6, <1>7, <1>8, <1>9 DEF ReaderInv, TokenInv

LEMMA RemainingFacts ==
  ASSUME WindowInv
  PROVE  Remaining \in Nat /\ Chunk \in Nat /\ Chunk >= 1
<1>1. rd \in Nat /\ rd <= Len(cfg.input) /\ cfg \in Configs
  BY DEF WindowInv, WindowIsSlice
<1>2. Len(cfg.input) \in Nat /\ Chunk \in Nat /\ Chunk >= 1
  BY <1>1, ConfigFacts
<1> QED BY <1>1, <1>2 DEF Remaining

LEMMA FillInv == ASSUME ReaderInv, Fill PROVE ReaderInv'
<1>0. Remaining \in Nat /\ Chunk \in Nat
  BY RemainingFacts DEF ReaderInv
<1>1. PICK got \in Nat : /\ got = IF Remaining < Chunk THEN Remaining ELSE Chunk
                         /\ Refill(got) /\ eof' = (got < Chunk)
  BY <1>0 DEF Fill
<1>2. got <= Remaining /\ eof' \in BOOLEAN /\ (eof' => got = Remaining)
  <2>1. got <= Remaining /\ (got < Chunk => got = Remaining)
    BY <1>0, <1>1
  <2>2. eof' = (got < Chunk)
    BY <1>1
  <2>3. eof' \in BOOLEAN
    <3>1. (got < Chunk) \in BOOLEAN
      BY <1>0, SMT
    <3> QED BY <2>2, <3>1, Zenon
  <2>4. eof' => got < Chunk
    BY <2>2, Zenon
  <2> QED BY <2>1, <2>3, <2>4
<1>3. NeedsFill /\ RestartScan /\ UNCHANGED <<cfg, pvars, err, pc, events>>
  BY DEF Fill
<1>4. WindowInv' /\ TokenInv' /\ rd' \in Nat /\ rd <= rd'
  BY <1>1, <1>2, <1>3, RefillInv
<1>5. StackInv'
  BY <1>3, StackStays DEF ReaderInv, StackInv, pvars
<1>6. ~fin /\ rd \in Nat /\ pc \in PCs
  BY <1>3 DEF NeedsFill, ReaderInv, ControlInv, WindowInv
<1>7. ControlInv'
  BY <1>3, <1>4, <1>6, ControlMoves DEF ReaderInv, ControlInv, pvars
<1> QED BY <1>3, <1>4, <1>5, <1>7 DEF ReaderInv

LEMMA FillFailsInv == ASSUME ReaderInv, FillFails PROVE ReaderInv'
<1>0. Remaining \in Nat /\ Chunk \in Nat
  BY RemainingFacts DEF ReaderInv
<1>1. PICK got \in 0..(Chunk - 1) :
        /\ got <= Remaining /\ Refill(got)
        /\ pc' = IF pc \in {"bom", "literal", "gate"} /\ Avail + got >= Needed
                 THEN pc ELSE "idle"
  BY DEF FillFails
<1>2. /\ NeedsFill /\ RestartScan /\ UNCHANGED <<cfg, eof, pvars, events>>
      /\ SetError("StreamReadFailed", NoOffset)
  BY DEF FillFails
<1>3. got \in Nat /\ eof' \in BOOLEAN /\ (eof' => eof) /\ pc' \in {pc, "idle"}
  BY <1>0, <1>1, <1>2, StateFacts
<1>4. WindowInv' /\ TokenInv' /\ rd' \in Nat /\ rd <= rd'
  BY <1>1, <1>2, <1>3, RefillInv
<1>5. StackInv'
  BY <1>2, StackStays DEF ReaderInv, StackInv, pvars
<1>6. ~fin /\ rd \in Nat /\ pc \in PCs
  BY <1>2 DEF NeedsFill, ReaderInv, ControlInv, WindowInv
<1>7. "StreamReadFailed" \in ErrorCodes /\ NoOffset \in Nat \union {NoOffset} /\ NoOffset <= rd
  BY <1>6 DEF ErrorCodes, NoOffset
<1>8. pc' \in {"idle", "bom", "literal", "gate"}
  BY <1>1
<1>9. ControlInv'
  BY <1>2, <1>4, <1>6, <1>7, <1>8, ControlFails DEF ReaderInv, pvars
<1> QED BY <1>2, <1>4, <1>5, <1>9 DEF ReaderInv

LEMMA SkipStartBomInv == ASSUME ReaderInv, SkipStartBom PROVE ReaderInv'
<1>0. /\ pc = "bom" /\ UNCHANGED <<cfg, wvars, pvars, err, kvars, events>>
      /\ pc' \in {"idle", "sep", "ws"} /\ (HasError => pc' = "idle")
      /\ pos' = pos \/ (Avail >= 3 /\ pos' = pos + 3)
      /\ pc' = "sep" => root'
  <2>1. LoopStart \in {"sep", "ws"} /\ (LoopStart = "sep" => root)
    BY DEF LoopStart
  <2>2. /\ pc' \in {"idle", "sep", "ws"} /\ (HasError => pc' = "idle")
        /\ pc' = "sep" => root'
    BY <2>1 DEF SkipStartBom, pvars
  <2>3. pos' = pos \/ (Avail >= 3 /\ pos' = pos + 3)
    BY DEF SkipStartBom
  <2> QED BY <2>2, <2>3 DEF SkipStartBom
<1>1. pos' \in Nat /\ pos' <= Len(buf)
  BY <1>0, StateFacts DEF Avail
<1>2. WindowInv'
  BY <1>0, <1>1, WindowAdvance DEF ReaderInv
<1>3. StackInv'
  BY <1>0, StackStays DEF ReaderInv, StackInv, pvars
<1>4. pc' \in PCs /\ ~fin
  BY <1>0 DEF PCs, ReaderInv, ControlInv
<1>5. ControlInv'
  BY <1>0, <1>4, StateFacts, ControlMoves DEF ReaderInv, wvars, pvars
<1>6. TokenInv'
  BY <1>0, TokenStays DEF ReaderInv
<1> QED BY <1>0, <1>2, <1>3, <1>5, <1>6 DEF ReaderInv

LEMMA SkipWsInv == ASSUME ReaderInv, SkipWs PROVE ReaderInv'
<1>0. /\ pc = "ws" /\ UNCHANGED <<cfg, wvars, pvars, err, pc, kvars, events>>
      /\ pos' = pos + 1 /\ Avail > 0
  BY DEF SkipWs, Sees
<1>1. pos' \in Nat /\ pos' <= Len(buf)
  BY <1>0, StateFacts
<1>2. WindowInv'
  BY <1>0, <1>1, WindowAdvance DEF ReaderInv
<1>3. StackInv'
  BY <1>0, StackStays DEF ReaderInv, StackInv, pvars
<1>4. pc' \in PCs /\ ~fin /\ ~HasError
  BY <1>0 DEF ReaderInv, ControlInv
<1>5. ControlInv'
  BY <1>0, <1>4, StateFacts, ControlMoves DEF ReaderInv, wvars, pvars
<1>6. TokenInv'
  BY <1>0, TokenStays DEF ReaderInv
<1> QED BY <1>0, <1>2, <1>3, <1>5, <1>6 DEF ReaderInv

\* In the body of next() no error is recorded yet and no end was reported.
LEMMA RunningFacts ==
  ASSUME ReaderInv, pc \in {"sep", "ws", "string", "decode", "number"}
  PROVE  ~HasError /\ ~fin
BY DEF ReaderInv, ControlInv

\* A rejected token: only the error changes.
LEMMA RejectInv ==
  ASSUME ReaderInv, ~fin, NEW code \in ErrorCodes, Reject(code)
  PROVE  ReaderInv'
<1>0. /\ SetError(code, Abs) /\ pc' = "idle"
      /\ UNCHANGED <<cfg, wvars, pos, pvars, kvars, events>>
  BY DEF Reject, Fail
<1>1. WindowInv'
  BY <1>0, WindowStays DEF ReaderInv
<1>2. StackInv'
  BY <1>0, StackStays DEF ReaderInv, StackInv, pvars
<1>3. Abs \in Nat \union {NoOffset} /\ Abs <= rd /\ rd \in Nat /\ rd' = rd
  BY <1>0, StateFacts DEF wvars
<1>4. ControlInv'
  BY <1>0, <1>3, ControlFails DEF ReaderInv, pvars
<1>5. TokenInv'
  BY <1>0, TokenStays DEF ReaderInv
<1> QED BY <1>0, <1>1, <1>2, <1>4, <1>5 DEF ReaderInv

\* A clean end of the stream after skip_ws.
LEMMA FinishInv ==
  ASSUME ReaderInv, AtEof, eof, ~HasError, Finish, stack = <<>>,
         UNCHANGED <<cfg, wvars, pos, stack, start, root, err, kvars, events>>
  PROVE  ReaderInv'
<1>1. WindowInv'
  BY WindowStays DEF ReaderInv
<1>2. StackInv'
  BY StackStays DEF ReaderInv, StackInv
<1>3. ControlInv'
  BY ControlFinishes DEF ReaderInv, AtEof
<1>4. TokenInv'
  BY TokenStays DEF ReaderInv, Finish
<1> QED BY <1>1, <1>2, <1>3, <1>4 DEF ReaderInv

\* A step of the call that changes no more than where it goes on.
LEMMA GoOnInv ==
  ASSUME ReaderInv, ~fin, ~HasError, pc' \in {"idle", "ws", "literal"},
         UNCHANGED <<cfg, wvars, pos, stack, start, fin, err, kvars, events>>,
         root' \in BOOLEAN, root' => root
  PROVE  ReaderInv'
<1>1. WindowInv'
  BY WindowStays DEF ReaderInv
<1>2. StackInv'
  BY StackStays DEF ReaderInv, StackInv
<1>3. pc' \in PCs
  BY DEF PCs
<1>4. ControlInv'
  BY <1>3, StateFacts, ControlMoves DEF ReaderInv, wvars
<1>5. TokenInv'
  BY TokenStays DEF ReaderInv
<1> QED BY <1>1, <1>2, <1>4, <1>5 DEF ReaderInv

LEMMA TrailingCheckInv == ASSUME ReaderInv, TrailingCheck PROVE ReaderInv'
<1>0. /\ pc = "ws" /\ root
      /\ UNCHANGED <<cfg, wvars, pos, stack, start, root, kvars, events>>
      /\ ~HasError /\ ~fin
  BY RunningFacts DEF TrailingCheck
<1>1. CASE AtEof /\ Finish /\ UNCHANGED err
  <2>1. eof /\ stack = <<>>
    BY <1>0, <1>1 DEF TrailingCheck, AtToken, ReaderInv, StackInv
  <2> QED BY <1>0, <1>1, <2>1, FinishInv
<1>2. CASE Fail("ExtraCharactersAfterValue", Abs) /\ UNCHANGED fin
  <2>1. "ExtraCharactersAfterValue" \in ErrorCodes
    BY DEF ErrorCodes
  <2>2. Reject("ExtraCharactersAfterValue")
    BY <1>0, <1>2 DEF Reject, pvars
  <2> QED BY <1>0, <2>1, <2>2, RejectInv
<1> QED BY <1>1, <1>2 DEF TrailingCheck

LEMMA SeparatorCheckInv == ASSUME ReaderInv, SeparatorCheck PROVE ReaderInv'
<1>0. /\ pc = "sep" /\ UNCHANGED <<cfg, wvars, pos, stack, start, root, kvars, events>>
      /\ ~HasError /\ ~fin /\ root
  BY RunningFacts DEF SeparatorCheck, ReaderInv, ControlInv
<1>1. CASE AtEof /\ Finish /\ UNCHANGED err
  <2>1. eof /\ stack = <<>>
    BY <1>0, <1>1, StateFacts DEF SeparatorCheck, AtEof, ReaderInv, StackInv
  <2> QED BY <1>0, <1>1, <2>1, FinishInv
<1>2. CASE Fail("ExtraCharactersAfterValue", Abs) /\ UNCHANGED fin
  <2>1. "ExtraCharactersAfterValue" \in ErrorCodes
    BY DEF ErrorCodes
  <2>2. Reject("ExtraCharactersAfterValue")
    BY <1>0, <1>2 DEF Reject, pvars
  <2> QED BY <1>0, <2>1, <2>2, RejectInv
<1>3. CASE pc' = "ws" /\ UNCHANGED <<err, fin>>
  <2>1. root' \in BOOLEAN /\ (root' => root)
    BY <1>0 DEF ReaderInv, StackInv
  <2> QED BY <1>0, <1>3, <2>1, GoOnInv
<1> QED BY <1>1, <1>2, <1>3 DEF SeparatorCheck

LEMMA NextRootInv == ASSUME ReaderInv, NextRoot PROVE ReaderInv'
<1>0. /\ pc = "ws" /\ root
      /\ UNCHANGED <<cfg, wvars, pos, stack, start, err, kvars, events>>
      /\ ~HasError /\ ~fin
  BY RunningFacts DEF NextRoot
<1>1. CASE AtEof /\ Finish /\ UNCHANGED root
  <2>1. eof /\ stack = <<>>
    BY <1>0, <1>1 DEF NextRoot, AtToken, ReaderInv, StackInv
  <2> QED BY <1>0, <1>1, <2>1, FinishInv
<1>2. CASE root' = FALSE /\ UNCHANGED <<fin, pc>>
  BY <1>0, <1>2, GoOnInv
<1> QED BY <1>1, <1>2 DEF NextRoot

\* A step that consumes one byte and returns a bracket's event.
LEMMA BracketInv ==
  ASSUME ReaderInv, ~fin, ~HasError, Avail > 0, pos' = pos + 1, StackInv',
         NEW type \in EventTypes, Emit(Event(type, <<>>, <<>>)),
         UNCHANGED <<cfg, wvars, fin, err, kvars>>
  PROVE  ReaderInv'
<1>1. pos' \in Nat /\ pos' <= Len(buf)
  BY StateFacts
<1>2. WindowInv'
  BY <1>1, WindowAdvance DEF ReaderInv
<1>3. events' \in Seq(Events) /\ pc' = "idle" /\ pc' \in PCs
  BY EmptyText, EventFacts DEF ReaderInv
<1>4. ControlInv'
  BY <1>3, StateFacts, ControlMoves DEF ReaderInv, wvars
<1>5. TokenInv'
  BY <1>3, TokenStays DEF ReaderInv
<1> QED BY <1>2, <1>3, <1>4, <1>5 DEF ReaderInv

LEMMA CloseInv ==
  ASSUME ReaderInv, pc = "ws", Avail > 0, stack # <<>>, NEW type \in EventTypes, Close(type)
  PROVE  ReaderInv'
<1>0. /\ pos' = pos + 1 /\ CompleteValue(SubSeq(stack, 1, Len(stack) - 1))
      /\ Emit(Event(type, <<>>, <<>>))
      /\ UNCHANGED <<cfg, wvars, start, fin, err, kvars>>
      /\ ~HasError /\ ~fin
  BY RunningFacts DEF Close
<1>1. stack \in Seq(Frames) /\ StackInv /\ cfg \in Configs
  BY StateFacts DEF ReaderInv, StackInv
<1> DEFINE s == SubSeq(stack, 1, Len(stack) - 1)
<1>2. s \in Seq(Frames) /\ Len(s) <= Len(stack)
  <2>1. Len(stack) \in Nat /\ Len(stack) >= 1
    BY <1>1, TopFacts
  <2> HIDE DEF Frames
  <2> QED BY <1>1, <2>1, SubSeqProperties
<1> HIDE DEF s
<1>3. CompleteValue(s)
  BY <1>0 DEF s
<1>4. StackInv'
  BY <1>0, <1>1, <1>2, <1>3, CompleteFacts
<1> QED BY <1>0, <1>4, BracketInv

LEMMA ConsumeInv ==
  ASSUME ReaderInv, pc = "ws", Avail > 0, stack # <<>>, NEW phase, Consume(phase),
         Top.kind = "Object" => phase \in ObjectPhases,
         Top.kind = "Array" => phase \in ArrayPhases
  PROVE  ReaderInv'
<1>0. /\ pos' = pos + 1 /\ SetPhase(phase)
      /\ UNCHANGED <<cfg, wvars, start, root, fin, err, pc, kvars, events>>
      /\ ~HasError /\ ~fin
  BY RunningFacts DEF Consume
<1>1. pos' \in Nat /\ pos' <= Len(buf)
  BY <1>0, StateFacts
<1>2. WindowInv'
  BY <1>0, <1>1, WindowAdvance DEF ReaderInv
<1>3. StackInv'
  BY <1>0, SetPhaseFacts DEF ReaderInv
<1>4. pc' \in PCs
  BY <1>0 DEF PCs
<1>5. ControlInv'
  BY <1>0, <1>4, StateFacts, ControlMoves DEF ReaderInv, wvars
<1>6. TokenInv'
  BY <1>0, TokenStays DEF ReaderInv
<1> QED BY <1>0, <1>2, <1>3, <1>5, <1>6 DEF ReaderInv

LEMMA EnterInv ==
  ASSUME ReaderInv, pc = "ws", Avail > 0, ~root,
         NEW kind, NEW phase, [kind |-> kind, phase |-> phase] \in Frames,
         NEW type \in EventTypes,
         EnterContainer(kind, phase, type),
         UNCHANGED <<cfg, wvars, start, root, fin, kvars>>
  PROVE  ReaderInv'
<1>0. ~HasError /\ ~fin
  BY RunningFacts
<1>1. CASE cfg.depth # 0 /\ Len(stack) + 1 > cfg.depth
  <2>1. Reject("MaxDepthExceeded")
    BY <1>1 DEF EnterContainer, Reject, pvars
  <2>2. "MaxDepthExceeded" \in ErrorCodes
    BY DEF ErrorCodes
  <2> QED BY <1>0, <2>1, <2>2, RejectInv
<1>2. CASE ~(cfg.depth # 0 /\ Len(stack) + 1 > cfg.depth)
  <2> DEFINE f == [kind |-> kind, phase |-> phase]
  <2>1. /\ stack' = Append(stack, f) /\ pos' = pos + 1
        /\ Emit(Event(type, <<>>, <<>>)) /\ UNCHANGED err
    BY <1>2 DEF EnterContainer
  <2>2. stack \in Seq(Frames) /\ Len(stack) \in Nat /\ cfg.depth \in Nat
    BY StateFacts, ConfigFacts DEF ReaderInv, StackInv
  <2> HIDE DEF Frames, f
  <2>3. f \in Frames
    BY DEF f
  <2>4. stack' \in Seq(Frames) /\ Len(stack') = Len(stack) + 1
    BY <2>1, <2>2, <2>3, AppendFacts
  <2>5. DepthBounded'
    BY <1>2, <2>2, <2>4 DEF DepthBounded
  <2>6. StackInv'
    BY <2>4, <2>5 DEF ReaderInv, StackInv
  <2> QED BY <1>0, <2>1, <2>6, BracketInv
<1> QED BY <1>1, <1>2

LEMMA StartStringInv ==
  ASSUME ReaderInv, pc = "ws", Avail > 0, StartString,
         UNCHANGED <<cfg, wvars, pvars, err, events>>
  PROVE  ReaderInv'
<1>0. /\ pos' = pos + 1 /\ anchor' = Abs + 1 /\ tok' = <<>> /\ esc' = FALSE
      /\ pc' = "string" /\ UNCHANGED <<cur, ck, nst, text>>
      /\ ~HasError /\ ~fin
  BY RunningFacts DEF StartString
<1>1. pos' \in Nat /\ pos' <= Len(buf)
  BY <1>0, StateFacts
<1>2. WindowInv'
  BY <1>1, WindowAdvance DEF ReaderInv
<1>3. StackInv'
  BY StackStays DEF ReaderInv, StackInv, pvars
<1>4. pc' \in PCs
  BY <1>0 DEF PCs
<1>5. ControlInv'
  BY <1>0, <1>4, StateFacts, ControlMoves DEF ReaderInv, wvars, pvars
<1>6. Abs' = Abs + 1 /\ anchor' \in Nat
  BY <1>0, StateFacts DEF Abs, wvars
<1>7. TokenIsSource'
  <2>1. Len(tok') = 0 /\ tok' \in Seq(Bytes)
    BY <1>0
  <2>2. anchor' + Len(tok') = Abs'
    BY <1>0, <1>6, <2>1
  <2> QED BY <1>0, <2>1, <2>2 DEF TokenIsSource
<1>8. TokenInv'
  BY <1>0, <1>6, <1>7, EmptyText DEF ReaderInv, TokenInv, DecodeBehindCursor
<1> QED BY <1>2, <1>3, <1>5, <1>8 DEF ReaderInv

LEMMA ExpectValueInv ==
  ASSUME ReaderInv, pc = "ws", ~root, NEW atRoot \in BOOLEAN, ExpectValue(atRoot),
         UNCHANGED <<cfg, wvars, start, root, fin>>
  PROVE  ReaderInv'
<1>0. ~HasError /\ ~fin
  BY RunningFacts
<1>1. ASSUME NEW code \in {"UnexpectedEndOfInput", "UnexpectedCharacter", "UnexpectedValueCharacter"},
             Fail(code, Abs), UNCHANGED <<pos, stack, events, kvars>>
      PROVE  ReaderInv'
  <2>1. Reject(code)
    BY <1>1 DEF Reject, pvars
  <2>2. code \in ErrorCodes
    BY DEF ErrorCodes
  <2> QED BY <1>0, <2>1, <2>2, RejectInv
<1>2. CASE /\ Fail(IF atRoot THEN "UnexpectedEndOfInput" ELSE "UnexpectedCharacter", Abs)
           /\ UNCHANGED <<pos, stack, events, kvars>>
  <2>1. PICK code \in {"UnexpectedEndOfInput", "UnexpectedCharacter", "UnexpectedValueCharacter"} :
          code = IF atRoot THEN "UnexpectedEndOfInput" ELSE "UnexpectedCharacter"
    OBVIOUS
  <2> QED BY <1>1, <1>2, <2>1
<1>3. CASE Sees({"{"}) /\ UNCHANGED kvars /\ EnterContainer("Object", "ObjectKeyOrEnd", "BeginObject")
  <2>1. [kind |-> "Object", phase |-> "ObjectKeyOrEnd"] \in Frames /\ "BeginObject" \in EventTypes
    BY DEF Frames, ObjectPhases, EventTypes
  <2>2. Avail > 0
    BY <1>3 DEF Sees
  <2> QED BY <1>3, <2>1, <2>2, EnterInv
<1>4. CASE Sees({"["}) /\ UNCHANGED kvars /\ EnterContainer("Array", "ArrayValueOrEnd", "BeginArray")
  <2>1. [kind |-> "Array", phase |-> "ArrayValueOrEnd"] \in Frames /\ "BeginArray" \in EventTypes
    BY DEF Frames, ArrayPhases, EventTypes
  <2>2. Avail > 0
    BY <1>4 DEF Sees
  <2> QED BY <1>4, <2>1, <2>2, EnterInv
<1>5. CASE Sees({"quote"}) /\ StartString /\ UNCHANGED <<stack, err, events>>
  <2>1. Avail > 0 /\ UNCHANGED <<cfg, wvars, pvars, err, events>>
    BY <1>5 DEF Sees, pvars
  <2> QED BY <1>5, <2>1, StartStringInv
<1>6. CASE pc' = "literal" /\ UNCHANGED <<pos, stack, err, events, kvars>>
  <2>1. root' \in BOOLEAN /\ (root' => root)
    BY DEF ReaderInv, StackInv
  <2> QED BY <1>0, <1>6, <2>1, GoOnInv
<1>7. CASE /\ pc' = "number" /\ cur' = 0 /\ nst' = "start"
           /\ UNCHANGED <<pos, stack, err, events, tok, esc, anchor, ck, text>>
  <2>1. WindowInv'
    BY <1>7, WindowStays DEF ReaderInv
  <2>2. StackInv'
    BY <1>7, StackStays DEF ReaderInv, StackInv
  <2>3. pc' \in PCs
    BY <1>7 DEF PCs
  <2>4. ControlInv'
    BY <1>0, <1>7, <2>3, StateFacts, ControlMoves DEF ReaderInv, wvars
  <2>5. Avail' = Avail /\ Avail \in Nat
    BY <1>7, StateFacts DEF Avail, wvars
  <2>6. TokenInv'
    BY <1>7, <2>5 DEF ReaderInv, TokenInv, TokenIsSource, DecodeBehindCursor, NumberStates
  <2> QED BY <1>7, <2>1, <2>2, <2>4, <2>6 DEF ReaderInv
<1>8. CASE /\ Fail(IF atRoot THEN "UnexpectedValueCharacter" ELSE "UnexpectedCharacter", Abs)
           /\ UNCHANGED <<pos, stack, events, kvars>>
  <2>1. PICK code \in {"UnexpectedEndOfInput", "UnexpectedCharacter", "UnexpectedValueCharacter"} :
          code = IF atRoot THEN "UnexpectedValueCharacter" ELSE "UnexpectedCharacter"
    OBVIOUS
  <2> QED BY <1>1, <1>8, <2>1
<1> QED BY <1>2, <1>3, <1>4, <1>5, <1>6, <1>7, <1>8 DEF ExpectValue

LEMMA PhaseFacts ==
  ASSUME ReaderInv, NEW phases, InPhase(phases)
  PROVE  /\ pc = "ws" /\ ~root /\ stack # <<>> /\ Top.phase \in phases
         /\ ~HasError /\ ~fin
         /\ Top.phase \in ObjectPhases => Top.kind = "Object"
         /\ Top.phase \in ArrayPhases => Top.kind = "Array"
<1>1. pc = "ws" /\ ~root /\ stack # <<>> /\ Top.phase \in phases /\ stack \in Seq(Frames)
  BY DEF InPhase, ReaderInv, StackInv
<1> QED BY <1>1, RunningFacts, TopFacts

LEMMA RootValueInv == ASSUME ReaderInv, RootValue PROVE ReaderInv'
<1>0. pc = "ws" /\ AtToken /\ ~root /\ stack = <<>> /\ UNCHANGED <<cfg, wvars, start, root>>
      /\ ~HasError /\ ~fin
  BY RunningFacts DEF RootValue
<1>1. CASE AtEof /\ cfg.mode = "MultiValue"
  <2>1. Finish /\ UNCHANGED <<pos, stack, err, events, kvars>> /\ eof
    BY <1>0, <1>1 DEF RootValue, AtToken
  <2> QED BY <1>0, <1>1, <2>1, FinishInv
<1>2. CASE ~(AtEof /\ cfg.mode = "MultiValue")
  <2>1. ExpectValue(TRUE) /\ UNCHANGED fin
    BY <1>2 DEF RootValue
  <2> QED BY <1>0, <2>1, ExpectValueInv
<1> QED BY <1>1, <1>2

LEMMA ObjectKeyInv == ASSUME ReaderInv, ObjectKey PROVE ReaderInv'
<1>0. /\ pc = "ws" /\ stack # <<>> /\ ~fin
  BY PhaseFacts DEF ObjectKey
<1>1. CASE Sees({"}"}) /\ Close("EndObject")
  <2>1. Avail > 0 /\ "EndObject" \in EventTypes
    BY <1>1 DEF Sees, EventTypes
  <2> QED BY <1>0, <1>1, <2>1, CloseInv
<1>2. CASE Sees({"quote"}) /\ StartString /\ UNCHANGED <<cfg, wvars, pvars, err, events>>
  <2>1. Avail > 0
    BY <1>2 DEF Sees
  <2> QED BY <1>0, <1>2, <2>1, StartStringInv
<1>3. CASE Reject("ExpectedStringKey")
  <2>1. "ExpectedStringKey" \in ErrorCodes
    BY DEF ErrorCodes
  <2> QED BY <1>0, <1>3, <2>1, RejectInv
<1> QED BY <1>1, <1>2, <1>3 DEF ObjectKey

LEMMA ObjectColonInv == ASSUME ReaderInv, ObjectColon PROVE ReaderInv'
<1>0. pc = "ws" /\ stack # <<>> /\ ~fin /\ Top.kind = "Object"
  <2>1. InPhase({"ObjectColon"}) /\ "ObjectColon" \in ObjectPhases
    BY DEF ObjectColon, ObjectPhases
  <2> QED BY <2>1, PhaseFacts
<1>1. CASE Sees({":"}) /\ Consume("ObjectValue")
  <2>1. Avail > 0 /\ "ObjectValue" \in ObjectPhases
    BY <1>1 DEF Sees, ObjectPhases
  <2> QED BY <1>0, <1>1, <2>1, ConsumeInv
<1>2. CASE Reject("ExpectedColon")
  <2>1. "ExpectedColon" \in ErrorCodes
    BY DEF ErrorCodes
  <2> QED BY <1>0, <1>2, <2>1, RejectInv
<1> QED BY <1>1, <1>2 DEF ObjectColon

LEMMA ObjectCommaOrEndInv == ASSUME ReaderInv, ObjectCommaOrEnd PROVE ReaderInv'
<1>0. pc = "ws" /\ stack # <<>> /\ ~fin /\ Top.kind = "Object"
  <2>1. InPhase({"ObjectCommaOrEnd"}) /\ "ObjectCommaOrEnd" \in ObjectPhases
    BY DEF ObjectCommaOrEnd, ObjectPhases
  <2> QED BY <2>1, PhaseFacts
<1>1. ASSUME NEW code \in {"UnexpectedEndOfObject", "ExpectedCommaOrBrace"}, Reject(code)
      PROVE  ReaderInv'
  <2>1. code \in ErrorCodes
    BY DEF ErrorCodes
  <2> QED BY <1>0, <1>1, <2>1, RejectInv
<1>2. CASE Sees({"}"}) /\ Close("EndObject")
  <2>1. Avail > 0 /\ "EndObject" \in EventTypes
    BY <1>2 DEF Sees, EventTypes
  <2> QED BY <1>0, <1>2, <2>1, CloseInv
<1>3. CASE Sees({","}) /\ Consume("ObjectKey")
  <2>1. Avail > 0 /\ "ObjectKey" \in ObjectPhases
    BY <1>3 DEF Sees, ObjectPhases
  <2> QED BY <1>0, <1>3, <2>1, ConsumeInv
<1> QED BY <1>1, <1>2, <1>3 DEF ObjectCommaOrEnd

LEMMA MemberOrElementInv == ASSUME ReaderInv, MemberOrElement PROVE ReaderInv'
<1>0. pc = "ws" /\ ~root /\ stack # <<>> /\ ~fin
  BY PhaseFacts DEF MemberOrElement
<1>1. CASE Sees({"]"}) /\ Close("EndArray")
  <2>1. Avail > 0 /\ "EndArray" \in EventTypes
    BY <1>1 DEF Sees, EventTypes
  <2> QED BY <1>0, <1>1, <2>1, CloseInv
<1>2. CASE ExpectValue(FALSE) /\ UNCHANGED <<cfg, wvars, start, root, fin>>
  BY <1>0, <1>2, ExpectValueInv
<1> QED BY <1>1, <1>2 DEF MemberOrElement

LEMMA ArrayCommaOrEndInv == ASSUME ReaderInv, ArrayCommaOrEnd PROVE ReaderInv'
<1>0. pc = "ws" /\ stack # <<>> /\ ~fin /\ Top.kind = "Array"
  <2>1. InPhase({"ArrayCommaOrEnd"}) /\ "ArrayCommaOrEnd" \in ArrayPhases
    BY DEF ArrayCommaOrEnd, ArrayPhases
  <2> QED BY <2>1, PhaseFacts
<1>1. CASE Sees({"]"}) /\ Close("EndArray")
  <2>1. Avail > 0 /\ "EndArray" \in EventTypes
    BY <1>1 DEF Sees, EventTypes
  <2> QED BY <1>0, <1>1, <2>1, CloseInv
<1>2. CASE Sees({","}) /\ Consume("ArrayValue")
  <2>1. Avail > 0 /\ "ArrayValue" \in ArrayPhases
    BY <1>2 DEF Sees, ArrayPhases
  <2> QED BY <1>0, <1>2, <2>1, ConsumeInv
<1>3. CASE Reject("ExpectedCommaOrBracket")
  <2>1. "ExpectedCommaOrBracket" \in ErrorCodes
    BY DEF ErrorCodes
  <2> QED BY <1>0, <1>3, <2>1, RejectInv
<1> QED BY <1>1, <1>2, <1>3 DEF ArrayCommaOrEnd

(***************************************************************************)
(* Scalars.                                                                *)
(***************************************************************************)
\* A scalar's event: its value slot is complete.
LEMMA ScalarInv ==
  ASSUME ReaderInv, ~fin, NEW type \in EventTypes, NEW txt \in Seq(Decoded),
         NEW raw \in Seq(Bytes), EmitScalar(Event(type, txt, raw)),
         pos' \in Nat, pos' <= Len(buf), UNCHANGED kvars
  PROVE  ReaderInv'
<1>0. /\ CompleteValue(stack) /\ Emit(Event(type, txt, raw))
      /\ UNCHANGED <<cfg, wvars, start, fin, err>>
  BY DEF EmitScalar
<1>1. WindowInv'
  BY <1>0, WindowAdvance DEF ReaderInv
<1>2. StackInv'
  <2>1. stack \in Seq(Frames) /\ StackInv /\ cfg \in Configs
    BY StateFacts DEF ReaderInv, StackInv
  <2>2. Len(stack) <= Len(stack)
    BY <2>1
  <2> QED BY <1>0, <2>1, <2>2, CompleteFacts
<1>3. events' \in Seq(Events) /\ pc' = "idle" /\ pc' \in PCs
  BY <1>0, EventFacts DEF ReaderInv
<1>4. ControlInv'
  BY <1>0, <1>3, StateFacts, ControlMoves DEF ReaderInv, wvars
<1>5. TokenInv'
  BY <1>3, TokenStays DEF ReaderInv
<1> QED BY <1>1, <1>2, <1>3, <1>4, <1>5 DEF ReaderInv

\* A failure while a token is read, at an offset that was read.
LEMMA ScalarFails ==
  ASSUME ReaderInv, ~fin, NEW code \in ErrorCodes, NEW off \in Nat, off <= rd,
         Fail(code, off), UNCHANGED <<cfg, wvars, pvars, events>>, WindowInv', TokenInv'
  PROVE  ReaderInv'
<1>1. StackInv'
  BY StackStays DEF ReaderInv, StackInv, pvars
<1>2. SetError(code, off) /\ pc' = "idle" /\ rd' = rd /\ rd \in Nat
  BY StateFacts DEF Fail, wvars
<1>3. ControlInv'
  BY <1>2, ControlFails DEF ReaderInv, pvars
<1> QED BY <1>1, <1>3 DEF ReaderInv

\* While a string is read or decoded, its positions are offsets that were read.
LEMMA StringFacts ==
  ASSUME ReaderInv, pc \in {"string", "decode"}
  PROVE  /\ ~HasError /\ ~fin /\ tok \in Seq(Bytes) /\ Len(tok) \in Nat /\ anchor \in Nat
         /\ anchor + Len(tok) <= Abs /\ Abs <= rd /\ rd \in Nat
         /\ pc = "decode" => anchor + Len(tok) = Abs - 1
         /\ pc = "string" => anchor + Len(tok) = Abs
         /\ \A i \in 1..Len(tok) : tok[i] = cfg.input[anchor + i]
<1>1. tok \in Seq(Bytes) /\ anchor \in Nat /\ TokenIsSource
  BY DEF ReaderInv, TokenInv
<1>2. Abs \in Nat /\ Abs <= rd /\ rd \in Nat /\ ~HasError /\ ~fin
  BY StateFacts, RunningFacts
<1>3. Len(tok) \in Nat
  BY <1>1
<1>4. /\ anchor + Len(tok) = IF pc = "string" THEN Abs ELSE Abs - 1
      /\ \A i \in 1..Len(tok) : tok[i] = cfg.input[anchor + i]
  BY <1>1 DEF TokenIsSource
<1> QED BY <1>1, <1>2, <1>3, <1>4

LEMMA StringByteInv == ASSUME ReaderInv, StringByte PROVE ReaderInv'
<1>0. /\ pc = "string" /\ Avail > 0 /\ pos' = pos + 1 /\ tok' = Append(tok, Peek)
      /\ esc' = (~esc /\ Peek = "bs")
      /\ UNCHANGED <<cfg, wvars, pvars, err, pc, anchor, cur, ck, nst, text, events>>
  BY DEF StringByte
<1>1. pos' \in Nat /\ pos' <= Len(buf) /\ Peek \in Bytes /\ pos + 1 <= Len(buf)
  BY <1>0, StateFacts
<1>2. WindowInv'
  BY <1>0, <1>1, WindowAdvance DEF ReaderInv
<1>3. StackInv'
  BY <1>0, StackStays DEF ReaderInv, StackInv, pvars
<1>4. ~HasError /\ ~fin /\ pc' \in PCs
  BY <1>0, StringFacts DEF PCs
<1>5. ControlInv'
  BY <1>0, <1>4, StateFacts, ControlMoves DEF ReaderInv, wvars, pvars
<1>6. /\ tok \in Seq(Bytes) /\ tok' \in Seq(Bytes) /\ Len(tok') = Len(tok) + 1 /\ Len(tok) \in Nat
      /\ \A i \in 1..Len(tok) : tok'[i] = tok[i]
      /\ tok'[Len(tok) + 1] = Peek
  <2>1. tok \in Seq(Bytes) /\ Len(tok) \in Nat
    BY <1>0, StringFacts
  <2> HIDE DEF Bytes
  <2> QED BY <1>0, <1>1, <2>1, AppendFacts
<1>7. TokenIsSource'
  <2>1. Abs' = Abs + 1 /\ anchor + Len(tok) = Abs /\ anchor \in Nat /\ Abs \in Nat
    BY <1>0, StateFacts, StringFacts DEF Abs, wvars
  <2>2. anchor' + Len(tok') = Abs'
    BY <1>0, <1>6, <2>1
  <2>3. Peek = cfg.input[base + (pos + 1)]
    <3>1. \A i \in 1..Len(buf) : buf[i] = cfg.input[base + i]
      BY DEF ReaderInv, WindowInv, WindowIsSlice
    <3>2. pos + 1 \in 1..Len(buf)
      BY <1>1, StateFacts
    <3> QED BY <3>1, <3>2 DEF Peek
  <2>4. base + (pos + 1) = anchor + (Len(tok) + 1)
    BY <1>6, <2>1, StateFacts DEF Abs
  <2>5. ASSUME NEW i \in 1..Len(tok')
        PROVE  tok'[i] = cfg'.input[anchor' + i]
    <3>1. cfg' = cfg /\ anchor' = anchor
      BY <1>0
    <3>2. CASE i = Len(tok) + 1
      BY <1>6, <2>3, <2>4, <3>1, <3>2
    <3>3. CASE i # Len(tok) + 1
      <4>1. i \in 1..Len(tok)
        BY <1>6, <2>5, <3>3
      <4>2. tok[i] = cfg.input[anchor + i]
        BY <1>0, <4>1, StringFacts
      <4> QED BY <1>6, <3>1, <4>1, <4>2
    <3> QED BY <3>2, <3>3
  <2> QED BY <1>0, <2>2, <2>5 DEF TokenIsSource
<1>8. esc' \in BOOLEAN
  BY <1>0
<1>9. TokenInv'
  BY <1>0, <1>6, <1>7, <1>8 DEF ReaderInv, TokenInv, DecodeBehindCursor
<1> QED BY <1>0, <1>2, <1>3, <1>5, <1>9 DEF ReaderInv

LEMMA StringEofInv == ASSUME ReaderInv, StringEof PROVE ReaderInv'
<1>1. ~fin /\ Reject("UnterminatedString") /\ "UnterminatedString" \in ErrorCodes
  BY StringFacts DEF StringEof, ErrorCodes
<1> QED BY <1>1, RejectInv

LEMMA StringQuoteInv == ASSUME ReaderInv, StringQuote PROVE ReaderInv'
<1>0. /\ pc = "string" /\ Avail > 0 /\ pos' = pos + 1
      /\ UNCHANGED <<cfg, wvars, pvars, tok, esc, anchor, nst, events>>
  BY DEF StringQuote
<1>1. pos' \in Nat /\ pos' <= Len(buf) /\ Abs \in Nat
  BY <1>0, StateFacts
<1>2. WindowInv'
  BY <1>0, <1>1, WindowAdvance DEF ReaderInv
<1>3. ~HasError /\ ~fin
  BY <1>0, StringFacts
<1>4. CASE \E i \in 1..Len(tok) : /\ ~HasEscape /\ FirstControl(i)
                                  /\ Fail("UnescapedControl", anchor + i - 1)
                                  /\ UNCHANGED <<cur, ck, text>>
  <2>1. PICK i \in 1..Len(tok) : /\ Fail("UnescapedControl", anchor + i - 1)
                                 /\ UNCHANGED <<cur, ck, text>>
    BY <1>4
  <2>2. anchor + i - 1 \in Nat /\ anchor + i - 1 <= rd
    BY <1>0, StringFacts
  <2>3. pc' = "idle" /\ UNCHANGED kvars
    BY <1>0, <2>1 DEF Fail, kvars
  <2>4. TokenInv'
    BY <2>3, TokenStays DEF ReaderInv
  <2>5. "UnescapedControl" \in ErrorCodes
    BY DEF ErrorCodes
  <2> QED BY <1>0, <1>2, <1>3, <2>1, <2>2, <2>4, <2>5, ScalarFails
<1>5. CASE /\ pc' = "decode" /\ cur' = 1 /\ ck' = Utf8Start /\ text' = <<>>
           /\ UNCHANGED err
  <2>1. StackInv'
    BY <1>0, StackStays DEF ReaderInv, StackInv, pvars
  <2>2. ControlInv'
    <3>1. pc' \in PCs
      BY <1>5 DEF PCs
    <3> QED BY <1>0, <1>3, <1>5, <3>1, StateFacts, ControlMoves DEF ReaderInv, wvars, pvars
  <2>3. Abs' = Abs + 1
    BY <1>0, StateFacts DEF Abs, wvars
  <2>4. TokenIsSource'
    <3>1. anchor' + Len(tok') = Abs' - 1
      BY <1>0, <1>1, <2>3, StringFacts
    <3> QED BY <1>0, <1>5, <3>1, StringFacts DEF TokenIsSource
  <2>5. ck' \in Checkers /\ ck'.need = 0
    BY <1>5 DEF Utf8Start, Checkers, Leads
  <2>6. DecodeBehindCursor'
    <3>1. Len(text') = 0 /\ Len(tok') \in Nat
      BY <1>0, <1>5, StringFacts
    <3> QED BY <1>5, <3>1 DEF DecodeBehindCursor
  <2>7. text' \in Seq(Decoded) /\ cur' \in Nat
    BY <1>5, EmptyText
  <2>8. TokenInv'
    BY <1>0, <1>5, <2>4, <2>5, <2>6, <2>7 DEF ReaderInv, TokenInv, Checkers
  <2> QED BY <1>0, <1>2, <2>1, <2>2, <2>8 DEF ReaderInv
<1> QED BY <1>4, <1>5 DEF StringQuote

\* One turn of the decode loop: what was written stays behind the cursor, and
\* every reported position lies inside the token.
LEMMA DecodeByteInv == ASSUME ReaderInv, DecodeByte PROVE ReaderInv'
<1> DEFINE b == tok[cur]
           k == IF cfg.strict THEN Utf8Feed(ck, b, cur) ELSE ck
           r == HandleEscape(tok, cur)
<1>0. /\ pc = "decode" /\ cur <= Len(tok)
      /\ UNCHANGED <<cfg, wvars, pos, pvars, tok, esc, anchor, nst, events>>
  BY DEF DecodeByte
<1>1. /\ cur \in Nat /\ 1 <= cur /\ Len(text) < cur /\ text \in Seq(Decoded) /\ Len(text) \in Nat
      /\ ck \in Checkers /\ (ck.need # 0 => 1 <= ck.lead /\ ck.lead <= Len(tok))
  <2>1. /\ cur \in Nat /\ Len(text) < cur /\ text \in Seq(Decoded) /\ ck \in Checkers
        /\ (ck.need # 0 => 1 <= ck.lead /\ ck.lead <= Len(tok))
    BY <1>0 DEF ReaderInv, TokenInv, DecodeBehindCursor, Checkers
  <2>2. Len(text) \in Nat
    BY <2>1
  <2> QED BY <2>1, <2>2
<1>2. /\ ~HasError /\ ~fin /\ tok \in Seq(Bytes) /\ Len(tok) \in Nat /\ anchor \in Nat
      /\ anchor + Len(tok) = Abs - 1 /\ Abs <= rd /\ rd \in Nat /\ Abs \in Nat
  BY <1>0, StringFacts, StateFacts
<1>3. b \in Bytes
  BY <1>0, <1>1, <1>2
<1> HIDE DEF b
<1>4. /\ k.code \in ErrorCodes
      /\ k.code = "None" => /\ k \in Checkers
                            /\ k.need # 0 => 1 <= k.lead /\ k.lead <= Len(tok)
      /\ k.code # "None" => k.at \in Nat /\ 1 <= k.at /\ k.at <= Len(tok)
  <2>1. CASE cfg.strict
    <3>1. k = Utf8Feed(ck, b, cur)
      BY <2>1
    <3> HIDE DEF k
    <3> QED BY <1>0, <1>1, <1>2, <1>3, <3>1, FeedFacts
  <2>2. CASE ~cfg.strict
    <3>1. k = ck
      BY <2>2
    <3> HIDE DEF k
    <3>2. ck.code = "None" /\ "None" \in ErrorCodes
      BY <1>1 DEF Checkers, ErrorCodes
    <3> QED BY <1>1, <3>1, <3>2
  <2> QED BY <2>1, <2>2
<1>5. SoundEscape(r, tok, cur)
  BY <1>0, <1>1, <1>2, EscapeFacts
<1> HIDE DEF k, r
<1>6. WindowInv'
  BY <1>0, WindowStays DEF ReaderInv
<1>7. ASSUME NEW code \in ErrorCodes, NEW at \in Nat, 1 <= at, at <= Len(tok) + 1,
             Fail(code, anchor + at - 1), UNCHANGED <<cur, ck, text>>
      PROVE  ReaderInv'
  <2>1. anchor + at - 1 \in Nat /\ anchor + at - 1 <= rd
    BY <1>2, <1>7
  <2>2. pc' = "idle" /\ UNCHANGED kvars
    BY <1>0, <1>7 DEF Fail, kvars
  <2>3. TokenInv'
    BY <2>2, TokenStays DEF ReaderInv
  <2> QED BY <1>0, <1>2, <1>6, <1>7, <2>1, <2>3, ScalarFails
<1>8. ASSUME cur' \in Nat, cur' <= Len(tok) + 1, text' \in Seq(Decoded), Len(text') < cur',
             ck' = k, k.code = "None", UNCHANGED <<err, pc>>
      PROVE  ReaderInv'
  <2>1. StackInv'
    BY <1>0, StackStays DEF ReaderInv, StackInv, pvars
  <2>2. ControlInv'
    <3>1. pc' \in PCs /\ pc' # "sep"
      BY <1>0, <1>8 DEF PCs
    <3> QED BY <1>0, <1>2, <1>8, <3>1, StateFacts, ControlMoves DEF ReaderInv, wvars, pvars
  <2>3. TokenIsSource'
    <3>1. Abs' = Abs /\ tok' = tok /\ anchor' = anchor /\ cfg' = cfg /\ pc' = pc
      BY <1>0, <1>8 DEF Abs, wvars
    <3> QED BY <1>0, <3>1 DEF ReaderInv, TokenInv, TokenIsSource
  <2>4. DecodeBehindCursor'
    BY <1>0, <1>8 DEF DecodeBehindCursor
  <2>5. ck' \in Checkers /\ (ck'.need # 0 => 1 <= ck'.lead /\ ck'.lead <= Len(tok'))
    BY <1>0, <1>4, <1>8
  <2>6. TokenInv'
    BY <1>0, <1>8, <2>3, <2>4, <2>5 DEF ReaderInv, TokenInv, Checkers
  <2> QED BY <1>0, <1>6, <2>1, <2>2, <2>6 DEF ReaderInv
<1>9. CASE k.code # "None" /\ Fail(k.code, anchor + k.at - 1) /\ UNCHANGED <<cur, ck, text>>
  <2>1. k.at \in Nat /\ 1 <= k.at /\ k.at <= Len(tok) + 1 /\ k.code \in ErrorCodes
    BY <1>2, <1>4, <1>9
  <2> QED BY <1>7, <1>9, <2>1
<1>10. CASE /\ k.code = "None" /\ b = "bs" /\ r.code # "None"
            /\ Fail(r.code, anchor + r.at - 1) /\ UNCHANGED <<cur, ck, text>>
  <2>1. r.at \in Nat /\ 1 <= r.at /\ r.at <= Len(tok) + 1 /\ r.code \in ErrorCodes
    BY <1>5, <1>10 DEF SoundEscape
  <2> QED BY <1>7, <1>10, <2>1
<1>11. CASE /\ k.code = "None" /\ b = "bs" /\ r.code = "None"
            /\ cur' = r.next /\ text' = text \o r.out /\ ck' = k
            /\ UNCHANGED <<err, pc>>
  <2>1. /\ r.next \in Nat /\ r.next <= Len(tok) + 1
        /\ r.out \in Seq(Decoded) /\ Len(r.out) <= r.next - cur
    BY <1>5, <1>11 DEF SoundEscape
  <2>2. text' \in Seq(Decoded) /\ Len(text') = Len(text) + Len(r.out)
    BY <1>1, <1>11, <2>1, ConcatFacts
  <2>3. Len(r.out) \in Nat
    BY <2>1
  <2>4. Len(text) + Len(r.out) < r.next
    BY <1>1, <2>1, <2>3
  <2> QED BY <1>8, <1>11, <2>1, <2>2, <2>4
<1>12. CASE /\ k.code = "None" /\ b \in Control
            /\ Fail("UnescapedControl", anchor + cur - 1) /\ UNCHANGED <<cur, ck, text>>
  <2>1. "UnescapedControl" \in ErrorCodes /\ cur <= Len(tok) + 1
    BY <1>0, <1>1, <1>2 DEF ErrorCodes
  <2> QED BY <1>1, <1>7, <1>12, <2>1
<1>13. CASE /\ k.code = "None" /\ b \notin Control \union {"bs"}
            /\ cur' = cur + 1 /\ text' = Append(text, Copied(b)) /\ ck' = k
            /\ UNCHANGED <<err, pc>>
  <2>1. Copied(b) \in Decoded
    BY <1>3, CopiedFacts
  <2>2. text' \in Seq(Decoded) /\ Len(text') = Len(text) + 1
    BY <1>1, <1>13, <2>1, AppendFacts
  <2>3. cur' \in Nat /\ cur' <= Len(tok) + 1 /\ Len(text') < cur'
    BY <1>0, <1>1, <1>2, <1>13, <2>2
  <2> QED BY <1>8, <1>13, <2>2, <2>3
<1>14. \/ k.code # "None" /\ Fail(k.code, anchor + k.at - 1) /\ UNCHANGED <<cur, ck, text>>
       \/ /\ k.code = "None" /\ b = "bs" /\ r.code # "None"
          /\ Fail(r.code, anchor + r.at - 1) /\ UNCHANGED <<cur, ck, text>>
       \/ /\ k.code = "None" /\ b = "bs" /\ r.code = "None"
          /\ cur' = r.next /\ text' = text \o r.out /\ ck' = k
          /\ UNCHANGED <<err, pc>>
       \/ /\ k.code = "None" /\ b \in Control
          /\ Fail("UnescapedControl", anchor + cur - 1) /\ UNCHANGED <<cur, ck, text>>
       \/ /\ k.code = "None" /\ b \notin Control \union {"bs"}
          /\ cur' = cur + 1 /\ text' = Append(text, Copied(b)) /\ ck' = k
          /\ UNCHANGED <<err, pc>>
  BY DEF DecodeByte, k, r, b
<1> QED BY <1>9, <1>10, <1>11, <1>12, <1>13, <1>14

LEMMA DecodeEndInv == ASSUME ReaderInv, DecodeEnd PROVE ReaderInv'
<1> DEFINE k == IF cfg.strict THEN Utf8End(ck) ELSE ck
<1>0. pc = "decode" /\ UNCHANGED <<pos, kvars>>
  BY DEF DecodeEnd
<1>1. /\ ~HasError /\ ~fin /\ tok \in Seq(Bytes) /\ Len(tok) \in Nat /\ anchor \in Nat
      /\ anchor + Len(tok) = Abs - 1 /\ Abs <= rd /\ rd \in Nat /\ Abs \in Nat
      /\ text \in Seq(Decoded) /\ pos \in Nat /\ pos <= Len(buf)
  BY <1>0, StringFacts, StateFacts DEF ReaderInv, TokenInv
<1>2. ck \in Checkers /\ (ck.need # 0 => 1 <= ck.lead /\ ck.lead <= Len(tok))
  BY <1>0 DEF ReaderInv, TokenInv, Checkers
<1>3. /\ k.code \in ErrorCodes
      /\ k.code # "None" => k.at \in Nat /\ 1 <= k.at /\ k.at <= Len(tok)
  <2>1. CASE cfg.strict
    <3>1. k = Utf8End(ck)
      BY <2>1
    <3> HIDE DEF k
    <3> QED BY <1>1, <1>2, <3>1, EndFacts
  <2>2. CASE ~cfg.strict
    <3>1. k = ck
      BY <2>2
    <3> HIDE DEF k
    <3> QED BY <1>2, <3>1 DEF Checkers, ErrorCodes
  <2> QED BY <2>1, <2>2
<1> HIDE DEF k
<1>4. CASE k.code # "None" /\ Fail(k.code, anchor + k.at - 1) /\ UNCHANGED <<cfg, wvars, pvars, events>>
  <2>1. anchor + k.at - 1 \in Nat /\ anchor + k.at - 1 <= rd
    BY <1>1, <1>3, <1>4
  <2>2. WindowInv'
    BY <1>0, <1>4, WindowStays DEF ReaderInv
  <2>3. TokenInv'
    BY <1>0, <1>4, TokenStays DEF ReaderInv, Fail
  <2> QED BY <1>1, <1>3, <1>4, <2>1, <2>2, <2>3, ScalarFails
<1>5. CASE /\ IsKey /\ SetPhase("ObjectColon") /\ Emit(Event("MapKey", text, <<>>))
           /\ UNCHANGED <<cfg, wvars, start, root, fin, err>>
  <2>1. WindowInv'
    BY <1>0, <1>5, WindowStays DEF ReaderInv
  <2>2. StackInv'
    <3>1. stack # <<>> /\ Top.phase \in ObjectPhases /\ stack \in Seq(Frames)
      BY <1>5 DEF IsKey, ObjectPhases, ReaderInv, StackInv
    <3>2. Top.kind = "Object" /\ "ObjectColon" \in ObjectPhases
      BY <3>1, TopFacts DEF ObjectPhases
    <3> QED BY <1>5, <3>1, <3>2, SetPhaseFacts DEF ReaderInv
  <2>3. events' \in Seq(Events) /\ pc' = "idle" /\ pc' \in PCs
    <3>1. "MapKey" \in EventTypes
      BY DEF EventTypes
    <3> QED BY <1>1, <1>5, <3>1, EmptyText, EventFacts DEF ReaderInv
  <2>4. ControlInv'
    BY <1>1, <1>5, <2>3, StateFacts, ControlMoves DEF ReaderInv, wvars
  <2>5. TokenInv'
    BY <1>0, <2>3, TokenStays DEF ReaderInv
  <2> QED BY <2>1, <2>2, <2>3, <2>4, <2>5 DEF ReaderInv
<1>6. CASE EmitScalar(Event("String", text, <<>>))
  <2>1. "String" \in EventTypes
    BY DEF EventTypes
  <2> QED BY <1>0, <1>1, <1>6, <2>1, EmptyText, ScalarInv
<1> QED BY <1>4, <1>5, <1>6 DEF DecodeEnd, k

LEMMA LiteralWordInv == ASSUME ReaderInv, LiteralWord PROVE ReaderInv'
<1> DEFINE lit == Literal(Peek)
<1>0. /\ pc = "literal"
      /\ UNCHANGED <<cfg, wvars, pvars, esc, anchor, cur, ck, nst, text, events>>
  BY DEF LiteralWord
<1>1. ~fin
  BY <1>0 DEF ReaderInv, ControlInv
<1>2. lit \in Seq(Bytes) /\ Len(lit) \in Nat
  <2>1. lit \in Seq(Bytes)
    BY LiteralFacts
  <2> HIDE DEF lit
  <2> QED BY <2>1
<1> HIDE DEF lit
<1>3. CASE /\ MatchLiteral(buf, pos + 1, lit)
           /\ pos' = pos + Len(lit) /\ tok' = lit /\ pc' = "gate" /\ UNCHANGED err
  <2>1. pos' \in Nat /\ pos' <= Len(buf)
    BY <1>2, <1>3, StateFacts DEF MatchLiteral
  <2>2. WindowInv'
    BY <1>0, <2>1, WindowAdvance DEF ReaderInv
  <2>3. StackInv'
    BY <1>0, StackStays DEF ReaderInv, StackInv, pvars
  <2>4. pc' \in PCs
    BY <1>3 DEF PCs
  <2>5. ControlInv'
    BY <1>0, <1>1, <1>3, <2>4, StateFacts, ControlMoves DEF ReaderInv, wvars, pvars
  <2>6. TokenInv'
    BY <1>0, <1>2, <1>3 DEF ReaderInv, TokenInv, TokenIsSource, DecodeBehindCursor
  <2> QED BY <1>0, <2>2, <2>3, <2>5, <2>6 DEF ReaderInv
<1>4. CASE Fail("InvalidLiteral", Abs) /\ UNCHANGED <<pos, tok>>
  <2>1. Reject("InvalidLiteral")
    BY <1>0, <1>4 DEF Reject, kvars
  <2>2. "InvalidLiteral" \in ErrorCodes
    BY DEF ErrorCodes
  <2> QED BY <1>1, <2>1, <2>2, RejectInv
<1> QED BY <1>3, <1>4 DEF LiteralWord, lit

LEMMA LiteralGateInv == ASSUME ReaderInv, LiteralGate PROVE ReaderInv'
<1>0. pc = "gate" /\ UNCHANGED <<pos, kvars>>
  BY DEF LiteralGate
<1>1. ~fin /\ pos \in Nat /\ pos <= Len(buf) /\ tok \in Seq(Bytes)
  BY <1>0, StateFacts DEF ReaderInv, ControlInv, TokenInv
<1>2. CASE Fail("InvalidLiteralTrailing", Abs) /\ UNCHANGED <<cfg, wvars, pvars, events>>
  <2>1. Reject("InvalidLiteralTrailing")
    BY <1>0, <1>2 DEF Reject
  <2>2. "InvalidLiteralTrailing" \in ErrorCodes
    BY DEF ErrorCodes
  <2> QED BY <1>1, <2>1, <2>2, RejectInv
<1>3. CASE pc' = "idle" /\ UNCHANGED <<cfg, wvars, pvars, err, events>>
  <2>1. WindowInv'
    BY <1>0, <1>3, WindowStays DEF ReaderInv
  <2>2. StackInv'
    BY <1>3, StackStays DEF ReaderInv, StackInv, pvars
  <2>3. ControlInv'
    <3>1. pc' \in PCs
      BY <1>3 DEF PCs
    <3> QED BY <1>1, <1>3, <3>1, StateFacts, ControlMoves DEF ReaderInv, wvars, pvars
  <2>4. TokenInv'
    BY <1>0, <1>3, TokenStays DEF ReaderInv
  <2> QED BY <1>3, <2>1, <2>2, <2>3, <2>4 DEF ReaderInv
<1>4. CASE EmitScalar(Event(IF tok[1] = "n" THEN "Null" ELSE "Boolean", <<>>, tok))
  <2>1. PICK type \in EventTypes : type = IF tok[1] = "n" THEN "Null" ELSE "Boolean"
    BY DEF EventTypes
  <2>2. EmitScalar(Event(type, <<>>, tok))
    BY <1>4, <2>1
  <2> QED BY <1>0, <1>1, <2>2, EmptyText, ScalarInv
<1> QED BY <1>2, <1>3, <1>4 DEF LiteralGate

LEMMA NumberByteInv == ASSUME ReaderInv, NumberByte PROVE ReaderInv'
<1>0. /\ pc = "number" /\ cur < Avail /\ cur' = cur + 1
      /\ nst' = NumberStep(nst, buf[pos + cur + 1])
      /\ NumberStep(nst, buf[pos + cur + 1]) # "stop"
      /\ UNCHANGED <<cfg, wvars, pos, pvars, err, pc, tok, esc, anchor, ck, text, events>>
  BY DEF NumberByte
<1>1. ~HasError /\ ~fin /\ cur \in Nat /\ nst \in NumberStates /\ Avail \in Nat
  BY <1>0, RunningFacts, StateFacts DEF ReaderInv, TokenInv
<1>2. WindowInv'
  BY <1>0, WindowStays DEF ReaderInv
<1>3. StackInv'
  BY <1>0, StackStays DEF ReaderInv, StackInv, pvars
<1>4. ControlInv'
  <2>1. pc' \in PCs
    BY <1>0 DEF PCs
  <2> QED BY <1>0, <1>1, <2>1, StateFacts, ControlMoves DEF ReaderInv, wvars, pvars
<1>5. cur' \in Nat /\ nst' \in NumberStates /\ Avail' = Avail /\ cur' <= Avail
  BY <1>0, <1>1, NumberStepFacts DEF Avail, wvars
<1>6. TokenInv'
  BY <1>0, <1>5 DEF ReaderInv, TokenInv, TokenIsSource, DecodeBehindCursor
<1> QED BY <1>0, <1>2, <1>3, <1>4, <1>6 DEF ReaderInv

LEMMA NumberEndInv == ASSUME ReaderInv, NumberEnd PROVE ReaderInv'
<1> DEFINE raw == SubSeq(buf, pos + 1, pos + cur)
<1>0. pc = "number" /\ UNCHANGED kvars
  BY DEF NumberEnd
<1>1. /\ ~fin /\ cur \in Nat /\ nst \in NumberStates /\ Avail \in Nat /\ cur <= Avail
      /\ Abs \in Nat /\ Abs + Avail = rd /\ rd \in Nat /\ pos \in Nat /\ buf \in Seq(Bytes)
      /\ Len(buf) \in Nat /\ Avail = Len(buf) - pos
  BY <1>0, RunningFacts, StateFacts DEF ReaderInv, TokenInv, Avail
<1>2. pos + cur \in Nat /\ pos + cur <= Len(buf) /\ Abs + cur \in Nat /\ Abs + cur <= rd
      /\ Abs <= rd
  BY <1>1
<1>3. raw \in Seq(Bytes)
  <2>1. pos + 1 \in Nat /\ pos + 1 >= 1
    BY <1>1
  <2> QED BY <1>1, <1>2, <2>1, PartFacts
<1> HIDE DEF raw
<1>4. ASSUME NEW code \in ErrorCodes, NEW off \in {Abs, Abs + cur}, Fail(code, off),
             UNCHANGED <<cfg, wvars, pos, pvars, events>>
      PROVE  ReaderInv'
  <2>1. off \in Nat /\ off <= rd
    BY <1>1, <1>2
  <2>2. WindowInv'
    BY <1>4, WindowStays DEF ReaderInv
  <2>3. TokenInv'
    BY <1>0, <1>4, TokenStays DEF ReaderInv, Fail
  <2> QED BY <1>1, <1>4, <2>1, <2>2, <2>3, ScalarFails
<1>5. CASE Fail(NumberError(nst), Abs + cur) /\ UNCHANGED <<cfg, wvars, pos, pvars, events>>
  BY <1>4, <1>5, NumberErrorFacts
<1>6. CASE Fail("NumberOutOfRange", Abs) /\ UNCHANGED <<cfg, wvars, pos, pvars, events>>
  <2>1. "NumberOutOfRange" \in ErrorCodes
    BY DEF ErrorCodes
  <2> QED BY <1>4, <1>6, <2>1
<1>7. CASE /\ ClassifyNumber(raw) # "NumberOutOfRange" /\ pos' = pos + cur
           /\ EmitScalar(Event(ClassifyNumber(raw), <<>>, raw))
  <2>1. ClassifyNumber(raw) \in EventTypes
    BY <1>7, ClassifyFacts DEF EventTypes
  <2>2. pos' \in Nat /\ pos' <= Len(buf)
    BY <1>2, <1>7
  <2> QED BY <1>0, <1>1, <1>3, <1>7, <2>1, <2>2, EmptyText, ScalarInv
<1> QED BY <1>5, <1>6, <1>7 DEF NumberEnd, raw

(***************************************************************************)
(* The theorems.                                                           *)
(***************************************************************************)
LEMMA InitInv == ASSUME Init PROVE ReaderInv
<1>0. cfg.input \in Seq(Bytes) /\ Len(cfg.input) \in Nat /\ cfg.depth \in Nat
  BY ConfigFacts DEF Init
<1>1. WindowInv
  <2>1. /\ cfg \in Configs /\ rd = 0 /\ pos = 0 /\ base = 0 /\ buf = <<>> /\ eof = FALSE
    BY DEF Init
  <2>2. Len(buf) = 0 /\ buf \in Seq(Bytes)
    BY <2>1, EmptyText
  <2>3. WindowIsSlice
    BY <1>0, <2>1, <2>2 DEF WindowIsSlice
  <2> QED BY <2>1, <2>2, <2>3 DEF WindowInv
<1>2. StackInv
  <2>1. stack = <<>> /\ start = FALSE /\ root = FALSE
    BY DEF Init
  <2>2. Len(stack) = 0 /\ stack \in Seq(Frames)
    BY <2>1, EmptyText
  <2>3. DepthBounded
    BY <1>0, <2>2 DEF DepthBounded
  <2> QED BY <2>1, <2>2, <2>3 DEF StackInv
<1>3. ControlInv
  <2>1. /\ err = [code |-> "None", off |-> NoOffset] /\ fin = FALSE /\ pc = "idle" /\ rd = 0
    BY DEF Init
  <2>2. "None" \in ErrorCodes /\ pc \in PCs
    BY <2>1 DEF ErrorCodes, PCs
  <2>3. ErrorWithinRead /\ ~HasError
    BY <2>1 DEF ErrorWithinRead, HasError, NoOffset
  <2> QED BY <2>1, <2>2, <2>3 DEF ControlInv, CleanEndIsComplete
<1>4. TokenInv
  <2>1. ck \in Checkers /\ nst \in NumberStates
    BY DEF Init, Utf8Start, Checkers, Leads, NumberStates
  <2> QED BY <2>1, EmptyText DEF Init, TokenInv, TokenIsSource, DecodeBehindCursor, Checkers
<1> QED BY <1>1, <1>2, <1>3, <1>4 DEF ReaderInv, Init

LEMMA StutterInv == ASSUME ReaderInv, UNCHANGED vars PROVE ReaderInv'
BY DEF ReaderInv, WindowInv, WindowIsSlice, StackInv, DepthBounded, ControlInv, HasError,
       ErrorWithinRead, CleanEndIsComplete, Abs, TokenInv, TokenIsSource, DecodeBehindCursor,
       Avail, vars, wvars, pvars, kvars

\* The invariant holds in every state of every behaviour: whatever the input,
\* the chunk size and the refills that fail, the window, the token, the stack
\* and the recorded error of StreamReader fit together.
THEOREM ReaderInvariant == Spec => []ReaderInv
<1>1. Init => ReaderInv
  BY InitInv
<1>2. ReaderInv /\ [Next]_vars => ReaderInv'
  <2> SUFFICES ASSUME ReaderInv, [Next]_vars PROVE ReaderInv'
    OBVIOUS
  <2>1. CASE Pull \/ Fill \/ FillFails \/ SkipStartBom \/ SkipWs
    BY <2>1, PullInv, FillInv, FillFailsInv, SkipStartBomInv, SkipWsInv
  <2>2. CASE TrailingCheck \/ SeparatorCheck \/ NextRoot \/ RootValue
    BY <2>2, TrailingCheckInv, SeparatorCheckInv, NextRootInv, RootValueInv
  <2>3. CASE ObjectKey \/ ObjectColon \/ ObjectCommaOrEnd \/ MemberOrElement \/ ArrayCommaOrEnd
    BY <2>3, ObjectKeyInv, ObjectColonInv, ObjectCommaOrEndInv, MemberOrElementInv,
       ArrayCommaOrEndInv
  <2>4. CASE StringByte \/ StringEof \/ StringQuote \/ DecodeByte \/ DecodeEnd
    BY <2>4, StringByteInv, StringEofInv, StringQuoteInv, DecodeByteInv, DecodeEndInv
  <2>5. CASE LiteralWord \/ LiteralGate \/ NumberByte \/ NumberEnd
    BY <2>5, LiteralWordInv, LiteralGateInv, NumberByteInv, NumberEndInv
  <2>6. CASE PullAfterEnd
    BY <2>6, StutterInv DEF PullAfterEnd
  <2>7. CASE UNCHANGED vars
    BY <2>7, StutterInv
  <2> QED BY <2>1, <2>2, <2>3, <2>4, <2>5, <2>6, <2>7 DEF Next, Step
<1> QED BY <1>1, <1>2, PTL DEF Spec

\* Every variable keeps its type.
THEOREM TypeCorrect == Spec => []TypeOK
<1>1. ReaderInv => TypeOK
  BY DEF ReaderInv, WindowInv, StackInv, ControlInv, TokenInv, TypeOK
<1> QED BY <1>1, ReaderInvariant, PTL

\* fill() neither loses, repeats nor shifts a byte.
THEOREM WindowCorrect == Spec => []WindowIsSlice
<1>1. ReaderInv => WindowIsSlice
  BY DEF ReaderInv, WindowInv
<1> QED BY <1>1, ReaderInvariant, PTL

\* A string token is the stream's own bytes, however many refills it took.
THEOREM TokenCorrect == Spec => []TokenIsSource
<1>1. ReaderInv => TokenIsSource
  BY DEF ReaderInv, TokenInv
<1> QED BY <1>1, ReaderInvariant, PTL

\* The in-place decode of parse_string_token never overwrites unread input.
THEOREM DecodeInPlaceSafe == Spec => []DecodeBehindCursor
<1>1. ReaderInv => DecodeBehindCursor
  BY DEF ReaderInv, TokenInv
<1> QED BY <1>1, ReaderInvariant, PTL

\* An error's offset never lies past what was read.
THEOREM ErrorOffsets == Spec => []ErrorWithinRead
<1>1. ReaderInv => ErrorWithinRead
  BY DEF ReaderInv, ControlInv
<1> QED BY <1>1, ReaderInvariant, PTL

\* A clean end is reported only for a stream read and consumed completely.
THEOREM CleanEnd == Spec => []CleanEndIsComplete
<1>1. ReaderInv => CleanEndIsComplete
  BY DEF ReaderInv, ControlInv
<1> QED BY <1>1, ReaderInvariant, PTL

\* The nesting never exceeds max_depth.
THEOREM DepthLimit == Spec => []DepthBounded
<1>1. ReaderInv => DepthBounded
  BY DEF ReaderInv, StackInv
<1> QED BY <1>1, ReaderInvariant, PTL

\* Whatever a call does, it keeps an error that is already recorded.
KeepsError == HasError => err' = err

LEMMA FailKeeps ==
  ASSUME NEW code, NEW off, Fail(code, off)
  PROVE  KeepsError
BY DEF Fail, SetError, KeepsError

LEMMA ExpectValueKeeps ==
  ASSUME NEW atRoot, ExpectValue(atRoot)
  PROVE  KeepsError
BY FailKeeps DEF ExpectValue, EnterContainer, KeepsError

\* fail() and fail_context() record nothing once m_has_error is set.
THEOREM FirstErrorKept == Spec => FirstErrorWins
<1>1. [Next]_vars => [HasError => err' = err]_vars
  <2> SUFFICES ASSUME Next PROVE KeepsError
    BY DEF KeepsError
  <2>1. CASE Pull \/ Fill \/ SkipStartBom \/ SkipWs \/ NextRoot \/ StringByte \/ NumberByte
    BY <2>1 DEF Pull, Fill, SkipStartBom, SkipWs, NextRoot, StringByte, NumberByte, KeepsError
  <2>2. CASE FillFails
    BY <2>2 DEF FillFails, SetError, KeepsError
  <2>3. CASE TrailingCheck \/ SeparatorCheck
    BY <2>3, FailKeeps DEF TrailingCheck, SeparatorCheck, KeepsError
  <2>4. CASE RootValue
    BY <2>4, ExpectValueKeeps DEF RootValue, KeepsError
  <2>5. CASE ObjectKey \/ ObjectColon \/ ObjectCommaOrEnd \/ ArrayCommaOrEnd
    BY <2>5, FailKeeps DEF ObjectKey, ObjectColon, ObjectCommaOrEnd, ArrayCommaOrEnd,
                           Close, Consume, Reject, KeepsError
  <2>6. CASE MemberOrElement
    BY <2>6, ExpectValueKeeps DEF MemberOrElement, Close, KeepsError
  <2>7. CASE StringEof
    BY <2>7, FailKeeps DEF StringEof, Reject
  <2>8. CASE StringQuote
    BY <2>8, FailKeeps DEF StringQuote, KeepsError
  <2>9. CASE DecodeByte
    BY <2>9, FailKeeps DEF DecodeByte, KeepsError
  <2>10. CASE DecodeEnd
    BY <2>10, FailKeeps DEF DecodeEnd, EmitScalar, KeepsError
  <2>11. CASE LiteralWord
    BY <2>11, FailKeeps DEF LiteralWord, KeepsError
  <2>12. CASE LiteralGate
    BY <2>12, FailKeeps DEF LiteralGate, EmitScalar, KeepsError
  <2>13. CASE NumberEnd
    BY <2>13, FailKeeps DEF NumberEnd, EmitScalar, KeepsError
  <2>14. CASE PullAfterEnd
    BY <2>14 DEF PullAfterEnd, vars, KeepsError
  <2> QED BY <2>1, <2>2, <2>3, <2>4, <2>5, <2>6, <2>7, <2>8, <2>9, <2>10, <2>11, <2>12,
             <2>13, <2>14 DEF Next, Step
<1> QED BY <1>1, PTL DEF Spec, FirstErrorWins

(***************************************************************************)
(* The event protocol.  First what the consumer makes of one more event.   *)
(***************************************************************************)
LEMMA FrontLast ==
  ASSUME NEW S, NEW s \in Seq(S), s # <<>>
  PROVE  /\ Front(s) \in Seq(S) /\ Len(Front(s)) = Len(s) - 1
         /\ \A i \in 1..(Len(s) - 1) : Front(s)[i] = s[i]
         /\ Last(s) = s[Len(s)] /\ Last(s) \in S /\ Len(s) \in Nat /\ Len(s) >= 1
<1>1. Len(s) \in Nat /\ Len(s) >= 1
  OBVIOUS
<1>2. Last(s) = s[Len(s)] /\ Last(s) \in S
  BY <1>1 DEF Last
<1>3. PICK m \in Nat : Len(s) = m + 1
  <2>1. Len(s) - 1 \in Nat /\ Len(s) = (Len(s) - 1) + 1
    BY <1>1
  <2> QED BY <2>1
<1>4. Front(s) = SubSeq(s, 1, m) /\ Len(s) - 1 = m
  BY <1>3 DEF Front
<1>5. \A i \in 1..m : s[i] \in S
  BY <1>3
<1>6. /\ SubSeq(s, 1, m) \in Seq(S) /\ Len(SubSeq(s, 1, m)) = m
      /\ \A i \in 1..m : SubSeq(s, 1, m)[i] = s[i]
  BY <1>5
<1> QED BY <1>1, <1>2, <1>4, <1>6

LEMMA ReplayType ==
  ASSUME NEW open \in Seq(Slots), NEW ev
  PROVE  Replay(open, ev) \in Seq(Slots)
<1>1. \A c \in Slots : \A s \in Seq(Slots) : Append(s, c) \in Seq(Slots)
  OBVIOUS
<1>2. {"key", "value", "element", "broken"} = Slots
  BY DEF Slots
<1>3. <<"broken">> \in Seq(Slots)
  BY <1>2
<1>4. ASSUME NEW s \in Seq(Slots) PROVE AfterValue(s) \in Seq(Slots)
  <2>1. s # <<>> => Front(s) \in Seq(Slots)
    BY FrontLast
  <2> QED BY <1>1, <1>2, <2>1 DEF AfterValue
<1>5. CASE ~Fits(open, ev.type)
  BY <1>3, <1>5 DEF Replay
<1>6. CASE Fits(open, ev.type) /\ ev.type \in {"MapKey", "EndObject", "EndArray"}
  <2>1. open # <<>>
    BY <1>6 DEF Fits
  <2>2. Front(open) \in Seq(Slots)
    BY <2>1, FrontLast
  <2>3. Append(Front(open), "value") \in Seq(Slots) /\ AfterValue(Front(open)) \in Seq(Slots)
    BY <1>1, <1>2, <1>4, <2>2
  <2> QED BY <1>6, <2>3 DEF Replay
<1>7. CASE Fits(open, ev.type) /\ ev.type \notin {"MapKey", "EndObject", "EndArray"}
  <2>1. /\ Append(open, "key") \in Seq(Slots) /\ Append(open, "element") \in Seq(Slots)
        /\ AfterValue(open) \in Seq(Slots)
    BY <1>1, <1>2, <1>4
  <2> QED BY <1>7, <2>1 DEF Replay
<1> QED BY <1>5, <1>6, <1>7

LEMMA ReplayRuns ==
  ASSUME NEW S, NEW s \in Seq(S)
  PROVE  RunsTo(Len(s), Seq(Slots), <<>>, [p \in Seq(Slots) \X S |-> Replay(p[1], p[2])], s,
                FoldLeft(Replay, <<>>, s))
<1> DEFINE n == Len(s)
           D == Seq(Slots)
           g == [p \in D \X S |-> Replay(p[1], p[2])]
           Table(it) == it = [t \in SUBSET (1..n) |-> IF t = {} THEN <<>>
                              ELSE Replay(it[t \ {Max(t)}], s[Max(t)])]
           iter == CHOOSE it : Table(it)
<1>1. n \in Nat /\ DOMAIN s = 1..n /\ (\A i \in 1..n : s[i] \in S) /\ <<>> \in D
  OBVIOUS
<1>2. FoldLeft(Replay, <<>>, s) = iter[1..n]
  BY <1>1 DEF FoldLeft, MapThenFoldSet
<1>3. g \in [D \X S -> D]
  BY ReplayType
<1>4. \A a \in D, b \in S : g[<<a, b>>] = Replay(a, b)
  OBVIOUS
<1> HIDE DEF g
<1>5. PICK h \in [SUBSET (1..n) -> D] : IsTable(h, n, <<>>, g, s)
  BY <1>1, <1>3, TableExists
<1>6. ASSUME NEW t \in SUBSET (1..n), t # {}
      PROVE  Max(t) \in 1..n /\ s[Max(t)] \in S /\ t \ {Max(t)} \in SUBSET (1..n)
  BY <1>1, <1>6, GreatestNumber
<1>7. Table(h)
  <2>1. ASSUME NEW t \in SUBSET (1..n), t # {}
        PROVE  g[<<h[t \ {Max(t)}], s[Max(t)]>>] = Replay(h[t \ {Max(t)}], s[Max(t)])
    <3>1. h[t \ {Max(t)}] \in D
      BY <1>6, <2>1
    <3> QED BY <1>4, <1>6, <2>1, <3>1
  <2> QED BY <1>5, <2>1 DEF IsTable
<1>8. Table(iter)
  <2> HIDE DEF Table
  <2> QED BY <1>7
<1> HIDE DEF iter, n
<1>9. ASSUME NEW t \in SUBSET (1..n)
      PROVE  /\ t = {} => iter[t] = <<>>
             /\ t # {} => iter[t] = Replay(iter[t \ {Max(t)}], s[Max(t)])
  BY <1>8, Zenon
<1> HIDE DEF Table, D
<1>10. Unfolds(iter, n, <<>>, g, D, s)
  BY <1>4, <1>6, <1>9 DEF Unfolds
<1>11. RunsTo(n, D, <<>>, g, s, iter[1..n])
  BY <1>1, <1>3, <1>10, UnfoldsRuns
<1> QED BY <1>2, <1>11 DEF n, D, g

LEMMA ReplayAppends ==
  ASSUME NEW S, NEW s \in Seq(S), NEW e
  PROVE  FoldLeft(Replay, <<>>, Append(s, e)) = Replay(FoldLeft(Replay, <<>>, s), e)
<1> DEFINE T == S \union {e}
           t == Append(s, e)
           g == [p \in Seq(Slots) \X T |-> Replay(p[1], p[2])]
           v == FoldLeft(Replay, <<>>, s)
           w == FoldLeft(Replay, <<>>, t)
           n == Len(s)
<1>1. /\ s \in Seq(T) /\ t \in Seq(T) /\ n \in Nat /\ Len(t) = n + 1 /\ e \in T
      /\ t[n + 1] = e /\ \A i \in 1..n : t[i] = s[i]
  OBVIOUS
<1> HIDE DEF T, t
<1>2. RunsTo(n, Seq(Slots), <<>>, g, s, v) /\ RunsTo(n + 1, Seq(Slots), <<>>, g, t, w)
  BY <1>1, ReplayRuns
<1>3. \A a \in Seq(Slots) : g[<<a, e>>] = Replay(a, e)
  BY <1>1
<1> HIDE DEF g, v, w, n
<1>4. v \in Seq(Slots) /\ w = g[<<v, t[n + 1]>>]
  BY <1>1, <1>2, RunAppends
<1>5. w = Replay(v, e)
  BY <1>1, <1>3, <1>4
<1> QED BY <1>5 DEF v, w, t

(***************************************************************************)
(* The frames on the stack, as the consumer sees them.                     *)
(***************************************************************************)
LEMMA SlotsFacts ==
  ASSUME NEW s \in Seq(Frames)
  PROVE  /\ SlotsOf(s) \in Seq(Slots) /\ Len(SlotsOf(s)) = Len(s) /\ Len(s) \in Nat
         /\ \A i \in 1..Len(s) : SlotsOf(s)[i] = Slot(s[i])
         /\ (SlotsOf(s) = <<>>) <=> (s = <<>>)
<1>1. Len(s) \in Nat /\ \A i \in 1..Len(s) : Slot(s[i]) \in Slots
  BY DEF Slot, Slots
<1>2. SlotsOf(s) \in [1..Len(s) -> Slots]
  BY <1>1 DEF SlotsOf
<1>3. SlotsOf(s) \in Seq(Slots) /\ Len(SlotsOf(s)) = Len(s)
  BY <1>1, <1>2, FunctionIsSeq
<1>4. \A i \in 1..Len(s) : SlotsOf(s)[i] = Slot(s[i])
  BY DEF SlotsOf
<1> HIDE DEF Frames, Slots
<1>5. (SlotsOf(s) = <<>>) <=> (s = <<>>)
  BY <1>1, <1>3
<1> QED BY <1>1, <1>3, <1>4, <1>5

\* Sequences of frames that look alike.
LEMMA SlotsSame ==
  ASSUME NEW s \in Seq(Frames), NEW t \in Seq(Frames), Len(s) = Len(t),
         \A i \in 1..Len(s) : Slot(s[i]) = Slot(t[i])
  PROVE  SlotsOf(s) = SlotsOf(t)
BY DEF SlotsOf

LEMMA SlotsAppend ==
  ASSUME NEW s \in Seq(Frames), NEW f \in Frames
  PROVE  SlotsOf(Append(s, f)) = Append(SlotsOf(s), Slot(f))
<1> DEFINE t == Append(s, f)
<1>1. t \in Seq(Frames) /\ Len(t) = Len(s) + 1 /\ Len(s) \in Nat /\ t[Len(s) + 1] = f
      /\ \A i \in 1..Len(s) : t[i] = s[i]
  <2> HIDE DEF Frames
  <2> QED BY AppendFacts
<1>2. SlotsOf(s) \in Seq(Slots) /\ Len(SlotsOf(s)) = Len(s) /\ \A i \in 1..Len(s) : SlotsOf(s)[i] = Slot(s[i])
  BY SlotsFacts
<1>3. SlotsOf(t) \in Seq(Slots) /\ Len(SlotsOf(t)) = Len(s) + 1
      /\ \A i \in 1..(Len(s) + 1) : SlotsOf(t)[i] = Slot(t[i])
  BY <1>1, SlotsFacts
<1>4. Slot(f) \in Slots
  BY DEF Slot, Slots
<1> HIDE DEF t, Slots, Frames
<1>5. Append(SlotsOf(s), Slot(f)) \in Seq(Slots) /\ Len(Append(SlotsOf(s), Slot(f))) = Len(s) + 1
      /\ \A i \in 1..(Len(s) + 1) : Append(SlotsOf(s), Slot(f))[i] = Slot(t[i])
  BY <1>1, <1>2, <1>4
<1>6. SlotsOf(t) = Append(SlotsOf(s), Slot(f))
  BY <1>1, <1>3, <1>5, SeqEqual
<1> QED BY <1>6 DEF t

LEMMA SlotsFront ==
  ASSUME NEW s \in Seq(Frames), s # <<>>
  PROVE  /\ SlotsOf(s) # <<>> /\ Last(SlotsOf(s)) = Slot(s[Len(s)])
         /\ Front(s) \in Seq(Frames) /\ Len(Front(s)) = Len(s) - 1
         /\ Front(SlotsOf(s)) = SlotsOf(Front(s))
<1>1. /\ Front(s) \in Seq(Frames) /\ Len(Front(s)) = Len(s) - 1 /\ Len(s) \in Nat /\ Len(s) >= 1
      /\ \A i \in 1..(Len(s) - 1) : Front(s)[i] = s[i]
  BY FrontLast
<1>2. /\ SlotsOf(s) \in Seq(Slots) /\ Len(SlotsOf(s)) = Len(s) /\ SlotsOf(s) # <<>>
      /\ \A i \in 1..Len(s) : SlotsOf(s)[i] = Slot(s[i])
  BY SlotsFacts
<1>3. /\ SlotsOf(Front(s)) \in Seq(Slots) /\ Len(SlotsOf(Front(s))) = Len(s) - 1
      /\ \A i \in 1..(Len(s) - 1) : SlotsOf(Front(s))[i] = Slot(Front(s)[i])
  BY <1>1, SlotsFacts
<1>4. /\ Front(SlotsOf(s)) \in Seq(Slots) /\ Len(Front(SlotsOf(s))) = Len(s) - 1
      /\ \A i \in 1..(Len(s) - 1) : Front(SlotsOf(s))[i] = SlotsOf(s)[i]
      /\ Last(SlotsOf(s)) = SlotsOf(s)[Len(s)]
  BY <1>2, FrontLast
<1> HIDE DEF Frames, Slots
<1>5. \A i \in 1..(Len(s) - 1) : i \in 1..Len(s) /\ Front(SlotsOf(s))[i] = SlotsOf(Front(s))[i]
  BY <1>1, <1>2, <1>3, <1>4
<1>6. Front(SlotsOf(s)) = SlotsOf(Front(s))
  BY <1>1, <1>3, <1>4, <1>5, SeqEqual
<1> QED BY <1>1, <1>2, <1>4, <1>6

\* A new phase of the last frame.
LEMMA SlotsPhase ==
  ASSUME NEW s \in Seq(Frames), s # <<>>, NEW phase,
         s[Len(s)].kind = "Object" => phase \in ObjectPhases,
         s[Len(s)].kind = "Array" => phase \in ArrayPhases
  PROVE  /\ Slot([s[Len(s)] EXCEPT !.phase = phase]) = Slot(s[Len(s)])
              => SlotsOf([s EXCEPT ![Len(s)].phase = phase]) = SlotsOf(s)
         /\ SlotsOf([s EXCEPT ![Len(s)].phase = phase])
              = Append(SlotsOf(Front(s)), Slot([s[Len(s)] EXCEPT !.phase = phase]))
<1> DEFINE f == [s[Len(s)] EXCEPT !.phase = phase]
           t == [s EXCEPT ![Len(s)].phase = phase]
<1>1. t \in Seq(Frames) /\ Len(t) = Len(s) /\ t # <<>>
  BY FramePhase
<1>2. Len(s) \in Nat /\ Len(s) >= 1 /\ t[Len(s)] = f /\ \A i \in 1..(Len(s) - 1) : t[i] = s[i]
  <2> HIDE DEF Frames
  <2> QED OBVIOUS
<1>3. \A i \in 1..Len(s) : i # Len(s) => i \in 1..(Len(s) - 1)
  BY <1>2
<1>4. ASSUME Slot(f) = Slot(s[Len(s)]) PROVE SlotsOf(t) = SlotsOf(s)
  <2> HIDE DEF t, f, Frames
  <2>1. \A i \in 1..Len(s) : Slot(t[i]) = Slot(s[i])
    BY <1>2, <1>3, <1>4
  <2> QED BY <1>1, <2>1, SlotsSame
<1>5. SlotsOf(t) = Append(SlotsOf(Front(s)), Slot(f))
  <2> HIDE DEF t, f, Frames
  <2>1. /\ Front(s) \in Seq(Frames) /\ Len(Front(s)) = Len(s) - 1
        /\ \A i \in 1..(Len(s) - 1) : Front(s)[i] = s[i]
    BY FrontLast
  <2>2. /\ SlotsOf(Front(s)) \in Seq(Slots) /\ Len(SlotsOf(Front(s))) = Len(s) - 1
        /\ \A i \in 1..(Len(s) - 1) : SlotsOf(Front(s))[i] = Slot(s[i])
    BY <1>2, <2>1, SlotsFacts
  <2>3. /\ SlotsOf(t) \in Seq(Slots) /\ Len(SlotsOf(t)) = Len(s)
        /\ \A i \in 1..Len(s) : SlotsOf(t)[i] = Slot(t[i])
    BY <1>1, SlotsFacts
  <2>4. Slot(f) \in Slots
    BY DEF Slot, Slots
  <2>5. /\ Append(SlotsOf(Front(s)), Slot(f)) \in Seq(Slots)
        /\ Len(Append(SlotsOf(Front(s)), Slot(f))) = Len(s)
        /\ \A i \in 1..(Len(s) - 1) : Append(SlotsOf(Front(s)), Slot(f))[i] = Slot(s[i])
        /\ Append(SlotsOf(Front(s)), Slot(f))[Len(s)] = Slot(f)
    BY <1>2, <2>2, <2>4
  <2>6. \A i \in 1..Len(s) : SlotsOf(t)[i] = Append(SlotsOf(Front(s)), Slot(f))[i]
    BY <1>2, <1>3, <2>3, <2>5
  <2> QED BY <2>3, <2>5, <2>6, SeqEqual
<1> QED BY <1>4, <1>5

\* complete_value does to the stack what a value does to its consumer.
LEMMA CompleteSlots ==
  ASSUME NEW s \in Seq(Frames), CompleteValue(s)
  PROVE  SlotsOf(stack') = AfterValue(SlotsOf(s))
<1>1. CASE s = <<>>
  <2>1. stack' = <<>> /\ SlotsOf(<<>>) = <<>>
    BY <1>1, SlotsFacts DEF CompleteValue
  <2> QED BY <1>1, <2>1 DEF AfterValue
<1>2. CASE s # <<>>
  <2> DEFINE top == s[Len(s)]
             ph  == CompletePhase(top.kind)
             f   == [top EXCEPT !.phase = ph]
  <2>1. stack' = [s EXCEPT ![Len(s)].phase = ph]
    BY <1>2 DEF CompleteValue
  <2>2. top \in Frames
    <3> HIDE DEF Frames
    <3> QED BY <1>2
  <2>3. /\ top.kind = "Object" => ph \in ObjectPhases /\ Slot(f) = "key"
        /\ top.kind = "Array" => ph \in ArrayPhases /\ Slot(f) = "element" /\ Slot(top) = "element"
        /\ top.kind \in {"Object", "Array"}
        /\ Slot(top) \in {"key", "value", "element"}
        /\ top.kind = "Object" => Slot(top) # "element"
    <3> HIDE DEF top
    <3> QED BY <2>2 DEF CompletePhase, ObjectPhases, ArrayPhases, Slot, Frames
  <2> HIDE DEF Frames, f, ph
  <2>4. /\ Slot(f) = Slot(top) => SlotsOf(stack') = SlotsOf(s)
        /\ SlotsOf(stack') = Append(SlotsOf(Front(s)), Slot(f))
    BY <1>2, <2>1, <2>3, SlotsPhase DEF f
  <2>5. /\ SlotsOf(s) # <<>> /\ Last(SlotsOf(s)) = Slot(top)
        /\ Front(SlotsOf(s)) = SlotsOf(Front(s))
    BY <1>2, SlotsFront
  <2> HIDE DEF top
  <2> QED BY <2>3, <2>4, <2>5 DEF AfterValue
<1> QED BY <1>1, <1>2

(***************************************************************************)
(* One lemma per kind of step: the consumer and the stack stay in agreement.*)
(***************************************************************************)
LEMMA QuietInStep ==
  ASSUME InStep, UNCHANGED <<stack, events>>,
         \/ pc' = pc \/ pc' \in {"idle", "bom", "sep", "ws"}
         \/ pc = "string" /\ pc' = "decode"
         \/ pc = "literal" /\ pc' = "gate"
  PROVE  InStep'
<1>1. EventProtocol'
  BY DEF InStep, EventProtocol
<1>2. Top' = Top /\ ValueDue' = ValueDue /\ IsKey' = IsKey
  BY DEF Top, ValueDue, IsKey
<1>3. ReadsWhatIsDue'
  BY <1>2 DEF InStep, ReadsWhatIsDue
<1> QED BY <1>1, <1>3 DEF InStep

\* A returned event: the consumer's move is the stack's.
LEMMA EmitInStep ==
  ASSUME InStep, events \in Seq(Events), NEW ev, Emit(ev),
         SlotsOf(stack') = Replay(SlotsOf(stack), ev)
  PROVE  InStep'
<1>1. events' = Append(events, ev) /\ pc' = "idle"
  BY DEF Emit
<1>2. FoldLeft(Replay, <<>>, events) = SlotsOf(stack)
  BY DEF InStep, EventProtocol
<1> HIDE DEF Events
<1>3. FoldLeft(Replay, <<>>, Append(events, ev)) = Replay(FoldLeft(Replay, <<>>, events), ev)
  BY ReplayAppends
<1>4. EventProtocol'
  BY <1>1, <1>2, <1>3 DEF EventProtocol
<1>5. ReadsWhatIsDue'
  BY <1>1 DEF ReadsWhatIsDue
<1> QED BY <1>4, <1>5 DEF InStep

ScalarTypes == {"Null", "Boolean", "Integer", "Double", "String"}

\* Where a value is due the consumer takes one.
LEMMA DueFits ==
  ASSUME stack \in Seq(Frames), ValueDue, NEW type \in ScalarTypes \union {"BeginObject", "BeginArray"}
  PROVE  Fits(SlotsOf(stack), type)
<1>1. type \notin {"MapKey", "EndObject", "EndArray"}
  BY DEF ScalarTypes
<1>2. CASE stack = <<>>
  <2>1. SlotsOf(stack) = <<>>
    BY <1>2, SlotsFacts
  <2> QED BY <1>1, <2>1 DEF Fits
<1>3. CASE stack # <<>>
  <2>1. Last(SlotsOf(stack)) = Slot(Top) /\ SlotsOf(stack) # <<>>
    BY <1>3, SlotsFront DEF Top
  <2>2. Top \in Frames /\ Top.phase \in {"ObjectValue", "ArrayValueOrEnd", "ArrayValue"}
    BY <1>3, TopFacts DEF ValueDue
  <2>3. Slot(Top) \in {"value", "element"}
    BY <2>2 DEF Slot, Frames, ObjectPhases, ArrayPhases
  <2> QED BY <1>1, <2>1, <2>3 DEF Fits
<1> QED BY <1>2, <1>3

LEMMA ScalarInStep ==
  ASSUME ReaderInv, InStep, ValueDue, NEW type \in ScalarTypes, NEW txt, NEW raw,
         EmitScalar(Event(type, txt, raw))
  PROVE  InStep'
<1> DEFINE ev == Event(type, txt, raw)
<1>1. CompleteValue(stack) /\ Emit(ev)
  BY DEF EmitScalar
<1>2. stack \in Seq(Frames) /\ events \in Seq(Events)
  BY DEF ReaderInv, StackInv
<1>3. ev.type = type /\ type \notin {"MapKey", "EndObject", "EndArray", "BeginObject", "BeginArray"}
  BY DEF Event, ScalarTypes
<1> HIDE DEF ev, Frames, Events
<1>4. Fits(SlotsOf(stack), type)
  BY <1>2, DueFits
<1>5. Replay(SlotsOf(stack), ev) = AfterValue(SlotsOf(stack))
  BY <1>3, <1>4 DEF Replay
<1>6. SlotsOf(stack') = AfterValue(SlotsOf(stack))
  BY <1>1, <1>2, CompleteSlots
<1> QED BY <1>1, <1>2, <1>5, <1>6, EmitInStep

LEMMA EnterInStep ==
  ASSUME ReaderInv, InStep, ValueDue, NEW kind, NEW phase, NEW type,
         \/ kind = "Object" /\ phase = "ObjectKeyOrEnd" /\ type = "BeginObject"
         \/ kind = "Array" /\ phase = "ArrayValueOrEnd" /\ type = "BeginArray",
         EnterContainer(kind, phase, type)
  PROVE  InStep'
<1> DEFINE f  == [kind |-> kind, phase |-> phase]
           ev == Event(type, <<>>, <<>>)
<1>1. stack \in Seq(Frames) /\ events \in Seq(Events)
  BY DEF ReaderInv, StackInv
<1>2. f \in Frames /\ Slot(f) = (IF type = "BeginObject" THEN "key" ELSE "element") /\ ev.type = type
  BY DEF Frames, ObjectPhases, ArrayPhases, Slot, Event
<1>3. \/ pc' = "idle" /\ UNCHANGED <<stack, events>>
      \/ stack' = Append(stack, f) /\ Emit(ev)
  BY DEF EnterContainer, Fail
<1> HIDE DEF f, ev, Frames, Events
<1>4. CASE pc' = "idle" /\ UNCHANGED <<stack, events>>
  BY <1>4, QuietInStep
<1>5. CASE stack' = Append(stack, f) /\ Emit(ev)
  <2>1. SlotsOf(stack') = Append(SlotsOf(stack), Slot(f))
    BY <1>1, <1>2, <1>5, SlotsAppend
  <2>2. Fits(SlotsOf(stack), type)
    BY <1>1, DueFits
  <2>3. Replay(SlotsOf(stack), ev) = Append(SlotsOf(stack), Slot(f))
    BY <1>2, <2>2 DEF Replay
  <2> QED BY <1>1, <1>5, <2>1, <2>3, EmitInStep
<1> QED BY <1>3, <1>4, <1>5

LEMMA ExpectInStep ==
  ASSUME ReaderInv, InStep, ValueDue, NEW atRoot, ExpectValue(atRoot)
  PROVE  InStep'
<1>1. CASE pc' = "idle" /\ UNCHANGED <<stack, events>>
  BY <1>1, QuietInStep
<1>2. CASE EnterContainer("Object", "ObjectKeyOrEnd", "BeginObject")
  BY <1>2, EnterInStep
<1>3. CASE EnterContainer("Array", "ArrayValueOrEnd", "BeginArray")
  BY <1>3, EnterInStep
<1>4. CASE pc' \in {"string", "literal", "number"} /\ UNCHANGED <<stack, events>>
  <2>1. EventProtocol'
    BY <1>4 DEF InStep, EventProtocol
  <2>2. ValueDue'
    BY <1>4 DEF ValueDue, Top
  <2>3. ReadsWhatIsDue'
    BY <1>4, <2>2 DEF ReadsWhatIsDue
  <2> QED BY <2>1, <2>3 DEF InStep
<1> QED BY <1>1, <1>2, <1>3, <1>4 DEF ExpectValue, Fail, StartString

\* A closing bracket, where the container may end.
LEMMA CloseInStep ==
  ASSUME ReaderInv, InStep, stack # <<>>, NEW type, Close(type),
         \/ type = "EndObject" /\ Slot(Top) = "key"
         \/ type = "EndArray" /\ Slot(Top) = "element"
  PROVE  InStep'
<1> DEFINE ev == Event(type, <<>>, <<>>)
           s  == Front(stack)
<1>1. stack \in Seq(Frames) /\ events \in Seq(Events)
  BY DEF ReaderInv, StackInv
<1>2. Emit(ev) /\ CompleteValue(s) /\ ev.type = type
  BY DEF Close, Event, Front
<1>3. /\ SlotsOf(stack) # <<>> /\ Last(SlotsOf(stack)) = Slot(Top)
      /\ s \in Seq(Frames) /\ Front(SlotsOf(stack)) = SlotsOf(s)
  BY <1>1, SlotsFront DEF Top
<1> HIDE DEF ev, s, Frames, Events
<1>4. Fits(SlotsOf(stack), type)
  BY <1>3 DEF Fits
<1>5. Replay(SlotsOf(stack), ev) = AfterValue(SlotsOf(s))
  BY <1>2, <1>3, <1>4 DEF Replay
<1>6. SlotsOf(stack') = AfterValue(SlotsOf(s))
  BY <1>2, <1>3, CompleteSlots
<1> QED BY <1>1, <1>2, <1>5, <1>6, EmitInStep

\* A comma or a colon means nothing to the consumer.
LEMMA ConsumeInStep ==
  ASSUME ReaderInv, InStep, pc = "ws", stack # <<>>, NEW phase, Consume(phase),
         \/ Top.phase = "ObjectColon" /\ phase = "ObjectValue"
         \/ Top.phase = "ObjectCommaOrEnd" /\ phase = "ObjectKey"
         \/ Top.phase = "ArrayCommaOrEnd" /\ phase = "ArrayValue"
  PROVE  InStep'
<1> DEFINE f == [Top EXCEPT !.phase = phase]
<1>1. stack \in Seq(Frames) /\ Top \in Frames /\ Top = stack[Len(stack)]
  BY TopFacts DEF ReaderInv, StackInv, Top
<1>2. /\ Top.kind = "Object" => phase \in ObjectPhases
      /\ Top.kind = "Array" => phase \in ArrayPhases
      /\ Slot(f) = Slot(Top)
  BY <1>1 DEF Frames, ObjectPhases, ArrayPhases, Slot
<1>3. stack' = [stack EXCEPT ![Len(stack)].phase = phase] /\ events' = events /\ pc' = "ws"
  BY DEF Consume, SetPhase
<1> HIDE DEF Frames
<1>4. SlotsOf(stack') = SlotsOf(stack)
  BY <1>1, <1>2, <1>3, SlotsPhase
<1>5. EventProtocol'
  BY <1>3, <1>4 DEF InStep, EventProtocol
<1>6. ReadsWhatIsDue'
  BY <1>3 DEF ReadsWhatIsDue
<1> QED BY <1>5, <1>6 DEF InStep

\* A member name: its object now waits for the value.
LEMMA KeyInStep ==
  ASSUME ReaderInv, InStep, IsKey, SetPhase("ObjectColon"), NEW txt,
         Emit(Event("MapKey", txt, <<>>))
  PROVE  InStep'
<1> DEFINE f  == [Top EXCEPT !.phase = "ObjectColon"]
           ev == Event("MapKey", txt, <<>>)
<1>1. /\ stack \in Seq(Frames) /\ stack # <<>> /\ Top \in Frames /\ Top = stack[Len(stack)]
      /\ events \in Seq(Events)
  BY TopFacts DEF ReaderInv, StackInv, Top, IsKey
<1>2. /\ Top.kind = "Object" => "ObjectColon" \in ObjectPhases
      /\ Top.kind = "Array" => "ObjectColon" \in ArrayPhases
      /\ Slot(Top) = "key" /\ Slot(f) = "value" /\ ev.type = "MapKey"
  BY <1>1 DEF IsKey, Frames, ObjectPhases, ArrayPhases, Slot, Event
<1>3. stack' = [stack EXCEPT ![Len(stack)].phase = "ObjectColon"]
  BY DEF SetPhase
<1> HIDE DEF Frames, Events
<1>4. SlotsOf(stack') = Append(SlotsOf(Front(stack)), Slot(f))
  BY <1>1, <1>2, <1>3, SlotsPhase
<1>5. /\ SlotsOf(stack) # <<>> /\ Last(SlotsOf(stack)) = "key"
      /\ Front(SlotsOf(stack)) = SlotsOf(Front(stack))
  BY <1>1, <1>2, SlotsFront
<1> HIDE DEF f, ev
<1>6. Replay(SlotsOf(stack), ev) = Append(SlotsOf(Front(stack)), "value")
  BY <1>2, <1>5 DEF Replay, Fits
<1>7. Emit(ev)
  BY DEF ev
<1> QED BY <1>1, <1>2, <1>4, <1>6, <1>7, EmitInStep

\* The switch of next(): what each phase lets the consumer see.
LEMMA SwitchInStep ==
  ASSUME ReaderInv, InStep,
         RootValue \/ ObjectKey \/ ObjectColon \/ ObjectCommaOrEnd \/ MemberOrElement
           \/ ArrayCommaOrEnd
  PROVE  InStep'
<1>0. stack \in Seq(Frames)
  BY DEF ReaderInv, StackInv
<1>1. ASSUME NEW code, Reject(code) PROVE InStep'
  <2>1. pc' = "idle" /\ UNCHANGED <<stack, events>>
    BY <1>1 DEF Reject, Fail, pvars
  <2> QED BY <2>1, QuietInStep
<1>2. CASE RootValue
  <2>1. CASE pc' = "idle" /\ UNCHANGED <<stack, events>>
    BY <2>1, QuietInStep
  <2>2. CASE ExpectValue(TRUE)
    <3>1. ValueDue
      BY <1>2 DEF RootValue, ValueDue
    <3> QED BY <2>2, <3>1, ExpectInStep
  <2> QED BY <1>2, <2>1, <2>2 DEF RootValue, Finish
<1>3. CASE ObjectKey
  <2>1. pc = "ws" /\ stack # <<>> /\ Top.phase \in {"ObjectKeyOrEnd", "ObjectKey"}
    BY <1>3 DEF ObjectKey, InPhase
  <2>2. Slot(Top) = "key" /\ IsKey
    <3>1. Top \in Frames
      BY <1>0, <2>1, TopFacts
    <3> QED BY <2>1, <3>1 DEF Slot, IsKey, Frames, ArrayPhases
  <2>3. CASE Close("EndObject")
    BY <2>1, <2>2, <2>3, CloseInStep
  <2>4. CASE pc' = "string" /\ UNCHANGED <<stack, events>>
    <3>1. EventProtocol'
      BY <2>4 DEF InStep, EventProtocol
    <3>2. IsKey'
      BY <2>2, <2>4 DEF IsKey, Top
    <3>3. ReadsWhatIsDue'
      BY <2>4, <3>2 DEF ReadsWhatIsDue
    <3> QED BY <3>1, <3>3 DEF InStep
  <2> QED BY <1>1, <1>3, <2>3, <2>4 DEF ObjectKey, StartString, pvars
<1>4. CASE ObjectColon
  <2>1. pc = "ws" /\ stack # <<>> /\ Top.phase = "ObjectColon"
    BY <1>4 DEF ObjectColon, InPhase
  <2>2. Consume("ObjectValue") \/ Reject("ExpectedColon")
    BY <1>4 DEF ObjectColon
  <2> QED BY <1>1, <2>1, <2>2, ConsumeInStep
<1>5. CASE ObjectCommaOrEnd
  <2>1. pc = "ws" /\ stack # <<>> /\ Top.phase = "ObjectCommaOrEnd"
    BY <1>5 DEF ObjectCommaOrEnd, InPhase
  <2>2. Slot(Top) = "key"
    <3>1. Top \in Frames
      BY <1>0, <2>1, TopFacts
    <3> QED BY <2>1, <3>1 DEF Slot, Frames, ArrayPhases
  <2>3. \/ Consume("ObjectKey") \/ Close("EndObject")
        \/ \E code \in {"UnexpectedEndOfObject", "ExpectedCommaOrBrace"} : Reject(code)
    BY <1>5 DEF ObjectCommaOrEnd
  <2> QED BY <1>1, <2>1, <2>2, <2>3, ConsumeInStep, CloseInStep
<1>6. CASE MemberOrElement
  <2>1. stack # <<>> /\ Top.phase \in {"ObjectValue", "ArrayValueOrEnd", "ArrayValue"}
    BY <1>6 DEF MemberOrElement, InPhase
  <2>2. CASE Close("EndArray") /\ Top.phase = "ArrayValueOrEnd"
    <3>1. Slot(Top) = "element"
      <4>1. Top \in Frames
        BY <1>0, <2>1, TopFacts
      <4> QED BY <2>2, <4>1 DEF Slot, Frames, ObjectPhases
    <3> QED BY <2>1, <2>2, <3>1, CloseInStep
  <2>3. CASE ExpectValue(FALSE)
    <3>1. ValueDue
      BY <2>1 DEF ValueDue
    <3> QED BY <2>3, <3>1, ExpectInStep
  <2> QED BY <1>6, <2>2, <2>3 DEF MemberOrElement
<1>7. CASE ArrayCommaOrEnd
  <2>1. pc = "ws" /\ stack # <<>> /\ Top.phase = "ArrayCommaOrEnd"
    BY <1>7 DEF ArrayCommaOrEnd, InPhase
  <2>2. Slot(Top) = "element"
    <3>1. Top \in Frames
      BY <1>0, <2>1, TopFacts
    <3> QED BY <2>1, <3>1 DEF Slot, Frames, ObjectPhases
  <2>3. Consume("ArrayValue") \/ Close("EndArray") \/ Reject("ExpectedCommaOrBracket")
    BY <1>7 DEF ArrayCommaOrEnd
  <2> QED BY <1>1, <2>1, <2>2, <2>3, ConsumeInStep, CloseInStep
<1> QED BY <1>2, <1>3, <1>4, <1>5, <1>6, <1>7

\* The end of a token.
LEMMA TokenInStep ==
  ASSUME ReaderInv, InStep, DecodeEnd \/ LiteralGate \/ NumberEnd
  PROVE  InStep'
<1>1. CASE pc' = "idle" /\ UNCHANGED <<stack, events>>
  BY <1>1, QuietInStep
<1>2. CASE DecodeEnd
  <2>1. pc = "decode" /\ (ValueDue \/ IsKey)
    BY <1>2 DEF DecodeEnd, InStep, ReadsWhatIsDue
  <2>2. \/ pc' = "idle" /\ UNCHANGED <<stack, events>>
        \/ IsKey /\ SetPhase("ObjectColon") /\ Emit(Event("MapKey", text, <<>>))
        \/ ~IsKey /\ EmitScalar(Event("String", text, <<>>))
    BY <1>2 DEF DecodeEnd, Fail, pvars
  <2>3. "String" \in ScalarTypes
    BY DEF ScalarTypes
  <2> QED BY <1>1, <2>1, <2>2, <2>3, KeyInStep, ScalarInStep
<1>3. CASE LiteralGate
  <2>1. ValueDue
    BY <1>3 DEF LiteralGate, InStep, ReadsWhatIsDue
  <2>2. PICK type \in ScalarTypes : type = IF tok[1] = "n" THEN "Null" ELSE "Boolean"
    BY DEF ScalarTypes
  <2>3. \/ pc' = "idle" /\ UNCHANGED <<stack, events>>
        \/ EmitScalar(Event(type, <<>>, tok))
    BY <1>3, <2>2 DEF LiteralGate, Fail, pvars
  <2> QED BY <1>1, <2>1, <2>3, ScalarInStep
<1>4. CASE NumberEnd
  <2> DEFINE raw == SubSeq(buf, pos + 1, pos + cur)
  <2>1. ValueDue
    BY <1>4 DEF NumberEnd, InStep, ReadsWhatIsDue
  <2>2. \/ pc' = "idle" /\ UNCHANGED <<stack, events>>
        \/ ClassifyNumber(raw) # "NumberOutOfRange" /\ EmitScalar(Event(ClassifyNumber(raw), <<>>, raw))
    BY <1>4 DEF NumberEnd, Fail, pvars
  <2> HIDE DEF raw
  <2>3. CASE ClassifyNumber(raw) # "NumberOutOfRange" /\ EmitScalar(Event(ClassifyNumber(raw), <<>>, raw))
    <3>1. ClassifyNumber(raw) \in ScalarTypes
      BY <2>3, ClassifyFacts DEF ScalarTypes
    <3> QED BY <2>1, <2>3, <3>1, ScalarInStep
  <2> QED BY <1>1, <2>2, <2>3
<1> QED BY <1>2, <1>3, <1>4

LEMMA NextInStep ==
  ASSUME ReaderInv, InStep, [Next]_vars
  PROVE  InStep'
<1>1. CASE Pull \/ Fill \/ FillFails \/ SkipStartBom \/ SkipWs
  <2>1. UNCHANGED <<stack, events>> /\ (pc' = pc \/ pc' \in {"idle", "bom", "sep", "ws"})
    BY <1>1 DEF Pull, Fill, FillFails, SkipStartBom, SkipWs, LoopStart, pvars
  <2> QED BY <2>1, QuietInStep
<1>2. CASE TrailingCheck \/ SeparatorCheck \/ NextRoot
  <2>1. UNCHANGED <<stack, events>> /\ (pc' = pc \/ pc' \in {"idle", "ws"})
    BY <1>2 DEF TrailingCheck, SeparatorCheck, NextRoot, Finish, Fail
  <2> QED BY <2>1, QuietInStep
<1>3. CASE StringByte \/ StringEof \/ StringQuote \/ DecodeByte \/ LiteralWord \/ NumberByte
  <2>1. /\ UNCHANGED <<stack, events>>
        /\ \/ pc' = pc \/ pc' = "idle"
           \/ pc = "string" /\ pc' = "decode"
           \/ pc = "literal" /\ pc' = "gate"
    BY <1>3 DEF StringByte, StringEof, StringQuote, DecodeByte, LiteralWord, NumberByte,
                Reject, Fail, pvars
  <2> QED BY <2>1, QuietInStep
<1>4. CASE PullAfterEnd \/ UNCHANGED vars
  <2>1. UNCHANGED <<stack, events, pc>>
    BY <1>4 DEF PullAfterEnd, vars, pvars
  <2> QED BY <2>1, QuietInStep
<1> QED BY <1>1, <1>2, <1>3, <1>4, SwitchInStep, TokenInStep DEF Next, Step

\* The events of a reader are always the beginning of a well-formed event
\* stream, and its stack is what its consumer holds open: on any input, valid
\* or not, across any refills and failed reads, and in the middle of a call.
THEOREM EventsWellNested == Spec => []EventProtocol
<1>1. Init => InStep
  <2> SUFFICES ASSUME Init PROVE InStep
    OBVIOUS
  <2>1. SlotsOf(<<>>) = <<>>
    BY EmptyText, SlotsFacts
  <2>2. FoldLeft(Replay, <<>>, <<>>) = <<>>
    <3> DEFINE end == FoldLeft(Replay, <<>>, <<>>)
               g   == [p \in Seq(Slots) \X {} |-> Replay(p[1], p[2])]
    <3>1. <<>> \in Seq({}) /\ Len(<<>>) = 0
      OBVIOUS
    <3>2. RunsTo(Len(<<>>), Seq(Slots), <<>>, g, <<>>, end)
      BY <3>1, ReplayRuns
    <3> HIDE DEF end, g
    <3>3. RunsTo(0, Seq(Slots), <<>>, g, <<>>, end)
      BY <3>1, <3>2
    <3>4. end = <<>>
      BY <3>3 DEF RunsTo, IsRun
    <3> QED BY <3>4 DEF end
  <2> QED BY <2>1, <2>2 DEF Init, InStep, EventProtocol, ReadsWhatIsDue
<1>2. ReaderInv /\ InStep /\ [Next]_vars => InStep'
  BY NextInStep
<1>3. InStep => EventProtocol
  BY DEF InStep
<1> QED BY <1>1, <1>2, <1>3, ReaderInvariant, PTL DEF Spec
=============================================================================
