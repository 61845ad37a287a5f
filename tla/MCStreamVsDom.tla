--------------------------- MODULE MCStreamVsDom ---------------------------
(***************************************************************************)
(* Input sets for model checking StreamVsDom: every concatenation of a few *)
(* fragments, so that the interesting byte sequences, well-formed and not, *)
(* are all present in every order.                                         *)
(***************************************************************************)
EXTENDS StreamVsDom

Words(fragments, n) == {FlattenSeq(w) : w \in BoundedSeq(fragments, n)}
Of(bytes) == {<<b>> : b \in bytes}

\* Containers, keys and separators; members that follow each other, with the
\* same key and with another.
Key == <<"quote", "x", "quote", ":">>
StructureInputs ==
  Words(Of({"{", "}", "[", "]", ":", ",", "1", "ws"}) \union {<<"quote", "x", "quote">>}, 5)
    \union {<<"{">> \o w : w \in
              Words(Of({",", "}"}) \union {Key \o <<"1">>, Key \o <<"[", "]">>,
                                           <<"quote", "1", "quote", ":", "0">>}, 5)}

\* Numbers and literals, inside an array so that they can be followed.
NumberInputs ==
  {<<"[">> \o w : w \in Words(Of({"-", "0", "1", ".", "e", "+", "]"}), 5)}
    \union {<<"1", "e", "8", "1", "1">>, <<"0", "e", "8", "1", "1">>,
            <<"1", "e", "1", "1", "1">>, <<"-", "1", "e", "-", "0", "1", "0", "0", "0">>}
LiteralInputs ==
  Words(Of({"[", "]", "t", "x", ",", "ws", "nul"}) \union {Literal(b) : b \in LiteralStart}, 4)
TokenInputs == NumberInputs \union LiteralInputs

\* Strings: escapes, raw control bytes, UTF-8 sequences, torn and whole.
Escapes == {<<"bs", "quote">>, <<"bs", "x">>, <<"bs", "bs">>,
            <<"bs", "u", "0", "8", "0", "0">>, <<"bs", "u", "d", "8", "0", "0">>,
            <<"bs", "u", "d", "c", "0", "0">>, <<"bs", "u", "1", "x">>}
StringInputs ==
  {<<"quote">> \o w : w \in
     Words(Of({"quote", "x", "ctl", "C3", "E0", "80", "BF"}) \union Escapes, 4)}

\* The suites of the run without faults, each with the settings that matter to
\* it.
Suite(inputs, chunks, modes, depths, stricts) ==
  [input : inputs, chunk : chunks, mode : modes, depth : depths, bom : {FALSE}, strict : stricts]
AllInputs == {x[2] : x \in ({"structure"} \X StructureInputs) \union ({"tokens"} \X TokenInputs)
                          \union ({"strings"} \X StringInputs)}
InSuites ==
  \/ cfg \in Suite(StructureInputs, {0, 2}, {"SingleRoot", "MultiValue"}, {0, 2}, {FALSE})
  \/ cfg \in Suite(TokenInputs, {1, 2, 3}, {"MultiValue"}, {0}, {FALSE})
  \/ cfg \in Suite(StringInputs, {1, 3}, {"SingleRoot"}, {0}, {FALSE, TRUE})
SuiteInit == InSuites /\ Init
SuiteSpec == SuiteInit /\ [][Next]_vars

\* A few documents, valid and not, for faults at every refill: a BOM, nested
\* containers, an escape, literals that a partial read completes or spoils.
Bom == <<"EF", "BB", "BF">>
Documents ==
  {<<>>, <<"ws">>, Bom, Bom \o <<"1", "1">>, <<"ws">> \o Bom \o <<"1">>,
   <<"{">> \o Key \o <<"[">> \o Literal("t") \o <<",", "1", "ws", "]", "}">>,
   <<"[", "quote", "x", "bs", "n", "quote", ",", "{", "}", "]", "ws">>,
   Literal("f") \o <<"ws">> \o Literal("n") \o <<"ws">>,
   Literal("t") \o <<"1">>, <<"t", "r", "u", "x", "1">>, <<"1", "0", "ws", "0", ",">>,
   <<"{">> \o Key \o <<"1", ",", "}">>, <<"[", "[", "1", ".", "]">>}
=============================================================================
