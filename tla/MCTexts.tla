------------------------------ MODULE MCTexts ------------------------------
(***************************************************************************)
(* Every text of a few fragments, for TLC, given to two parsers that ought *)
(* to agree: the compile-time validator and the DOM parser (Validate), the *)
(* DOM parser with json5 on and off (Json5), parse_jsonl and JsonlReader   *)
(* (Jsonl, with json5 off and on); and the members of one object, given to *)
(* the parser's member loop (KeyIndex).  A behaviour is about one of these *)
(* (kind); the variables of the other pairs are Unused, and the member     *)
(* loop has not been entered.                                              *)
(***************************************************************************)
EXTENDS KeyIndex

CONSTANTS Kinds, Json5Pieces, MaxFragments, MaxLineFragments, k1, k2, k3, k4, k5

\* Keys that collide at the last slot of every table used, so that their
\* probes wrap around, and keys that their run displaces.
MemberHash == k1 :> 15 @@ k2 :> 15 @@ k3 :> 0 @@ k4 :> 7 @@ k5 :> 1

VARIABLES kind, text, fragments, strictUtf8, bom, phase, offset, started, docs, error

Of(bytes) == {<<b>> : b \in bytes}
U(h) == <<"bs", "u">> \o h
High == <<"d", "8", "0", "0">>
Low  == <<"d", "c", "0", "0">>
Bom  == <<"EF", "BB", "BF">>

\* Single structural bytes, and the tokens whose inside the two descents scan
\* by different code.
ValidateFragments ==
  Of({"{", "}", "[", "]", ":", ",", "sp", "quote", "0", "-", "nul", "ws", "80"})
    \union {<<"quote", "a", "quote">>, <<"t", "r", "u", "e">>, <<"1", ".", "0">>,
            <<"1", "e", "8", "8", "8">>, <<"bs", "n">>, <<"bs">>, U(<<"0", "0", "1">>),
            U(High), U(Low), <<"quote", "a", "quote", ":">>,
            <<"0", ",", "quote", "a", "quote", ":", "[", "0", ",">>}
\* RFC 8259 bytes and tokens, and the spellings json5 adds beside them.
Json5Fragments ==
  Of({"{", "}", "[", "]", ":", ",", "quote", "apos", "ws", "0", "-", ".", "80"})
    \union {<<"quote", "a", "quote", ":">>, <<"t", "r", "u", "e">>, <<"1", "e", "0">>,
            <<"/", "*">>, <<"*", "/">>, <<"/", "/">>, <<"VT">>, <<"+", "0", "x", "a">>,
            <<"bs", "x", "a">>, <<"bs", "/">>, U(<<"0", "0", "1", "1">>),
            U(<<"0", "0", "a", "a">>), U(High) \o U(Low),
            <<"N", "a", "N">>, <<"a", ":">>, <<"C3", "80">>, <<"E2", "80", "A8">>, <<"CR">>}
\* Values, the bytes that leave one open at the end of a line, and what
\* separates or starts lines.
LineFragments ==
  Of({"[", "]", "{", "}", ",", "0", "ws", "CR", "quote"})
    \union {<<"quote", "a", "quote">>, <<"quote", "a", "quote", ":">>, Bom}
Json5LineFragments ==
  Of({"[", "]", "{", "}", ",", "0", "ws", "CR", "quote", "apos", "bs", "-"})
    \union {<<"a", ":">>, <<"/", "/">>, <<"/", "*">>, <<"*", "/">>, <<"bs", "x", "a">>,
            <<"bs", "u", "0", "0">>, <<"VT">>, <<"E2", "80">>, <<"A8">>, <<"N", "a", "N">>}
\* Pieces of UTF-8 sequences and a control byte json5 lets into strings.
StringFragments == Of({"quote", "C3", "80", "VT", "EF", "a"})

CompileTime == INSTANCE Validate WITH Fragments <- ValidateFragments
Superset    == INSTANCE Json5 WITH Fragments <- Json5Pieces, strict <- strictUtf8
Lines       == INSTANCE Jsonl WITH Fragments <- LineFragments, MaxFragments <- MaxLineFragments,
                                   Json5 <- FALSE, pc <- phase, pos <- offset
Json5Lines  == INSTANCE Jsonl WITH Fragments <- Json5LineFragments, Json5 <- TRUE,
                                   pc <- phase, pos <- offset

Unused == "unused"
NoText   == text = Unused /\ fragments = Unused
NoStrict == strictUtf8 = Unused
NoLines  == /\ bom = Unused /\ phase = Unused /\ offset = Unused /\ started = Unused
            /\ docs = Unused /\ error = Unused
TextsInit ==
  /\ kind \in Kinds /\ Init
  /\ \/ kind = "validate" /\ CompileTime!Init /\ NoStrict /\ NoLines
     \/ kind = "json5" /\ Superset!Init /\ NoLines
     \/ kind = "lines" /\ Lines!Init /\ NoStrict
     \/ kind = "json5 lines" /\ Json5Lines!Init /\ NoStrict
     \/ kind = "members" /\ NoText /\ NoStrict /\ NoLines
  /\ kind # "members" => ~knob

lines == <<bom, phase, offset, started, docs, error>>
texts == <<text, fragments, strictUtf8, lines>>
TextsNext ==
  /\ UNCHANGED kind
  /\ \/ kind = "validate" /\ CompileTime!Next /\ UNCHANGED <<strictUtf8, lines, vars>>
     \/ kind = "json5" /\ Superset!Next /\ UNCHANGED <<lines, vars>>
     \/ kind = "lines" /\ Lines!Next /\ UNCHANGED <<strictUtf8, vars>>
     \/ kind = "json5 lines" /\ Json5Lines!Next /\ UNCHANGED <<strictUtf8, vars>>
     \/ kind = "members" /\ Next /\ UNCHANGED texts
TextsSpec == TextsInit /\ [][TextsNext]_<<kind, texts, vars>>

(***************************************************************************)
(* The properties of the instances; those of KeyIndex are in KeyIndex.     *)
(***************************************************************************)
\* ConstJson::parse accepts what the DOM parser accepts, a number out of
\* double range aside.
SameVerdictAsRuntime == kind = "validate" => CompileTime!SameVerdictAsRuntime
\* What RFC 8259 mode accepts json5 mode accepts with the same value.
Json5IsSuperset == kind = "json5" => Superset!Json5IsSuperset
\* Under strict_utf8 an accepted string is well-formed UTF-8.
StrictMeansWellFormed == kind = "json5" => Superset!StrictMeansWellFormed
\* JsonlReader gives the documents of parse_jsonl, or refuses a line that
\* parse_jsonl refuses there or further on; if the stream goes bad it has given
\* the first documents.  A BOM at the start of a later line is an error at its
\* offset 0.
LinesAgree == kind = "lines" => Lines!LinesAgree
\* A json5 line inside a longer text means what it means alone.
Json5LinesApart == kind = "json5 lines" => Json5Lines!Json5LinesApart
=============================================================================
