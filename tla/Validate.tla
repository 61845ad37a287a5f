------------------------------ MODULE Validate ------------------------------
(***************************************************************************)
(* The compile-time validator (validate.hpp) and ConstJson::parse: a       *)
(* second recursive descent over the same grammar, bounded by the end of   *)
(* the text instead of by NUL padding, which builds nothing.  It is run on *)
(* every text put together from Fragments, beside the DOM parser.          *)
(***************************************************************************)
EXTENDS DomParser

CONSTANTS Fragments,     \* sequences of bytes the texts are made of
          MaxFragments

\* A scan from position p is the position after what it accepted, or 0.
Reject == 0
Inside(s, p) == p <= Len(s)
SkipSpace(s, p) == Min({q \in p..(Len(s) + 1) : ~Inside(s, q) \/ s[q] \notin Whitespace})

ScanLiteral(s, p) == IF MatchLiteral(s, p, Literal(s[p])) THEN p + Len(Literal(s[p])) ELSE Reject

\* scan_hex4 wants four digits before the end.
ScanHex4(s, p) == Inside(s, p + 3) /\ BadHex(s, p) = 0
PairAt(s, q) ==
  /\ Inside(s, q + 5) /\ s[q] = "bs" /\ s[q + 1] = "u"
  /\ ScanHex4(s, q + 2) /\ IsLowSurrogate(Hex4(s, q + 2))

\* Slip (SameVerdictAsRuntime): a low surrogate may stand alone.
ScanUnicodeLone(s, p) ==
  IF ~ScanHex4(s, p + 2) THEN Reject
  ELSE IF ~IsHighSurrogate(Hex4(s, p + 2)) THEN p + 6
  ELSE IF PairAt(s, p + 6) THEN p + 12 ELSE Reject

\* After the backslash at p.
ScanUnicode(s, p) ==
  IF ~ScanHex4(s, p + 2) \/ IsLowSurrogate(Hex4(s, p + 2)) THEN Reject
  ELSE IF ~IsHighSurrogate(Hex4(s, p + 2)) THEN p + 6
  ELSE IF PairAt(s, p + 6) THEN p + 12 ELSE Reject
ScanEscape(s, p) ==
  IF ~Inside(s, p + 1) THEN Reject
  ELSE IF s[p + 1] = "u" THEN ScanUnicode(s, p)
  ELSE IF s[p + 1] \in ShortEscapes THEN p + 2 ELSE Reject

RECURSIVE ScanStringBody(_, _)
ScanStringBody(s, p) ==
  IF p = Reject \/ ~Inside(s, p) THEN Reject
  ELSE IF s[p] = "quote" THEN p + 1
  ELSE IF s[p] = "bs" THEN ScanStringBody(s, ScanEscape(s, p))
  ELSE IF s[p] \in Control THEN Reject
  ELSE ScanStringBody(s, p + 1)

RECURSIVE NumberFrom(_, _, _)
NumberFrom(s, p, st) ==
  IF Inside(s, p) /\ NumberStep(st, s[p]) # "stop" THEN NumberFrom(s, p + 1, NumberStep(st, s[p]))
  ELSE IF NumberError(st) = "None" THEN p ELSE Reject

RECURSIVE ValueAt(_, _), Elements(_, _), AfterValue(_, _), Members(_, _), AfterMemberKey(_, _),
          AfterMemberValue(_, _)
Dispatch(s, p) ==
  IF ~Inside(s, p) THEN Reject
  ELSE CASE s[p] \in LiteralStart -> ScanLiteral(s, p)
         [] s[p] = "quote"        -> ScanStringBody(s, p + 1)
         [] s[p] = "["            -> Elements(s, SkipSpace(s, p + 1))
         [] s[p] = "{"            -> Members(s, SkipSpace(s, p + 1))
         [] OTHER                 -> NumberFrom(s, p, "start")
ValueAt(s, p) == Dispatch(s, SkipSpace(s, p))

\* The loop of array: at the first element, then after every element.
Elements(s, p) ==
  IF Inside(s, p) /\ s[p] = "]" THEN p + 1 ELSE AfterValue(s, ValueAt(s, p))
CommaOr(s, p, close) ==
  IF ~Inside(s, p) \/ s[p] \notin {close, ","} THEN "none"
  ELSE IF s[p] = close THEN "close" ELSE "comma"
AfterValue(s, p) ==
  IF p = Reject THEN Reject
  ELSE LET q == SkipSpace(s, p)
       IN  CASE CommaOr(s, q, "]") = "close" -> q + 1
             [] CommaOr(s, q, "]") = "comma" -> AfterValue(s, ValueAt(s, q + 1))
             [] OTHER -> Reject

\* The loop of object.
Key(s, p) ==
  IF Inside(s, p) /\ s[p] = "quote" THEN AfterMemberKey(s, ScanStringBody(s, p + 1)) ELSE Reject
Members(s, p) == IF Inside(s, p) /\ s[p] = "}" THEN p + 1 ELSE Key(s, p)
AfterMemberKey(s, p) ==
  IF p = Reject THEN Reject
  ELSE LET q == SkipSpace(s, p)
       IN  IF Inside(s, q) /\ s[q] = ":" THEN AfterMemberValue(s, ValueAt(s, q + 1)) ELSE Reject
AfterMemberValue(s, p) ==
  IF p = Reject THEN Reject
  ELSE LET q == SkipSpace(s, p)
       IN  CASE CommaOr(s, q, "}") = "close" -> q + 1
             [] CommaOr(s, q, "}") = "comma" -> Key(s, SkipSpace(s, q + 1))
             [] OTHER -> Reject

\* ConstJson::parse: one value and nothing but whitespace after it.
OnlySpaceAfter(s, p) == p # Reject /\ SkipSpace(s, p) = Len(s) + 1
ConstParse(s) == OnlySpaceAfter(s, ValueAt(s, 1))

(***************************************************************************)
(* Every text of up to MaxFragments fragments.                             *)
(***************************************************************************)
VARIABLES text, fragments
vars == <<text, fragments>>

Init == text = <<>> /\ fragments = 0
Extend ==
  /\ fragments < MaxFragments /\ fragments' = fragments + 1
  /\ \E f \in Fragments : text' = text \o f
Done == fragments = MaxFragments /\ UNCHANGED vars
Next == Extend \/ Done
Spec == Init /\ [][Next]_vars

\* The compile-time verdict is that of the runtime parse with its knobs off,
\* a number out of double range aside (json_constexpr.hpp: "held to a strict
\* equivalence (modulo the documented divergences above)").
RuntimeCode(s) ==
  Parse([s |-> s, begin |-> 1, end |-> Len(s) + 1, depth |-> 0, bom |-> FALSE,
         strict |-> FALSE, dup |-> FALSE, json5 |-> FALSE]).code
SameVerdict(valid, code) ==
  /\ code = "None" => valid
  /\ valid => code \in {"None", "NumberOutOfRange"}
SameVerdictAsRuntime == SameVerdict(ConstParse(text), RuntimeCode(text))
=============================================================================
