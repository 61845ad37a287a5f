------------------------------- MODULE Json5 -------------------------------
(***************************************************************************)
(* The DOM parser with json5 on beside itself with json5 off, on every     *)
(* text of up to MaxFragments fragments.                                   *)
(***************************************************************************)
EXTENDS DomParser

CONSTANTS Fragments, MaxFragments

VARIABLES text, fragments, strict
vars == <<text, fragments, strict>>

Init == text = <<>> /\ fragments = 0 /\ strict \in BOOLEAN
Extend ==
  /\ fragments < MaxFragments /\ fragments' = fragments + 1
  /\ \E f \in Fragments : text' = text \o f
  /\ UNCHANGED strict
Done == fragments = MaxFragments /\ UNCHANGED vars
Next == Extend \/ Done
Spec == Init /\ [][Next]_vars

Whole(s, json5) ==
  [s |-> s, begin |-> 1, end |-> Len(s) + 1, depth |-> 0, bom |-> FALSE, strict |-> strict,
   dup |-> FALSE, json5 |-> json5]

\* What RFC 8259 mode accepts json5 mode accepts with the same value, though
\* scanners, escapes, numbers and keys run other code (config.hpp: "Enable the
\* JSON5 input superset").
SameValue(rfc, five) == rfc.code = "None" => five.code = "None" /\ five.value = rfc.value
Json5IsSuperset == SameValue(Parse(Whole(text, FALSE)), Parse(Whole(text, TRUE)))

\* A string accepted under strict_utf8 has well-formed UTF-8 between its
\* quotes, where it has no escape (detail/utf8.hpp: a control byte "cannot
\* reach this path").
Inner == SubSeq(text, 2, Len(text) - 1)
PlainString ==
  /\ Len(text) >= 2 /\ text[1] = "quote" /\ text[Len(text)] = "quote"
  /\ \A i \in 1..Len(Inner) : Inner[i] \notin {"bs", "quote"}
\* Reference: the sequence splits into ASCII bytes and whole characters.
RECURSIVE WellFormed(_)
WellFormed(s) ==
  \/ s = <<>>
  \/ LET n == DecodeUtf8([s |-> s, end |-> Len(s) + 1], 1)
     IN  n > 0 /\ WellFormed(SubSeq(s, n + 1, Len(s)))
StrictMeansWellFormed ==
  (strict /\ PlainString /\ Parse(Whole(text, TRUE)).code = "None") => WellFormed(Inner)
=============================================================================
