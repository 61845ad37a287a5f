--------------------------- MODULE MCConfigShared ---------------------------
(***************************************************************************)
(* An instance of ConfigShared for TLC.                                    *)
(***************************************************************************)
EXTENDS ConfigShared, TLC

CONSTANTS t1, t2, t3
Swaps == Permutations({t1, t2, t3})
=============================================================================
