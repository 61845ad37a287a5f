---------------------------- MODULE MCStreamItems ----------------------------
(***************************************************************************)
(* An instance of StreamItems for TLC: every short pointer over the bytes  *)
(* that matter, and longer ones with two tokens, an escape that decodes to *)
(* an escape, and an index that overflows.                                 *)
(***************************************************************************)
EXTENDS StreamItems

Bytes == {"/", "~", "*", "0", "1", "a"}
Short == UNION {[1..n -> Bytes] : n \in 0..3}
Long  == {<<"/", "a", "/", "0">>, <<"/", "a", "/", "a">>, <<"/", "*", "/", "a">>,
          <<"/", "0", "/", "1">>, <<"/", "~", "0", "1">>, <<"/", "~", "1", "/", "*">>,
          <<"/", "1", "1">>, <<"/", "a", "/", "*", "/", "a">>, <<"/", "0", "1">>}
Pointers == Short \union Long
Names == {<<"a">>, <<"0">>, <<"/">>, <<"~", "1">>, <<"1", "1">>, <<>>}
=============================================================================
