---------------------------- MODULE MCOwnership ----------------------------
(***************************************************************************)
(* Who owns memory, for TLC: documents with their arenas and buffers       *)
(* (DocumentLife) and the values they hold (ValueLife).  A behaviour is    *)
(* about one of them; the other stays as it began.                         *)
(***************************************************************************)
EXTENDS DocumentLife, ValueLife, TLC

CONSTANTS d1, d2, d3, r1, r2, j1, j2, a1
Swaps == Permutations({d1, d2, d3}) \union Permutations({r1, r2}) \union Permutations({j1, j2})

VARIABLE part
BothInit == part \in {"documents", "values"} /\ Init /\ ValueInit
BothNext ==
  /\ \/ part = "documents" /\ Next /\ UNCHANGED valueVars
     \/ part = "values" /\ ValueNext /\ UNCHANGED vars
  /\ UNCHANGED part
BothSpec == BothInit /\ [][BothNext]_<<part, vars, valueVars>>
=============================================================================
