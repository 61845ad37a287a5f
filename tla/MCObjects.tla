----------------------------- MODULE MCObjects -----------------------------
(***************************************************************************)
(* The hash index of Object (ObjectIndex), for TLC, under callers that use *)
(* different operations.                                                   *)
(***************************************************************************)
EXTENDS ObjectIndex, TLC

CONSTANTS k1, k2, k3, leaf, leaf2, other

\* Keys that collide at the last slot of every table used, so that their
\* probes wrap around, and keys that their run displaces.
HashTable == k1 :> 7 @@ k2 :> 7 @@ k3 :> 0

\* An adopted vector may carry a key twice.
One(k) == [key |-> k, val |-> NullValue]
AdoptedVectors == {<<One(k1), One(k2), One(k1)>>, <<One(k2), One(k1), One(k3)>>}

\* Vectors that merge into one another: nested values that combine, a scalar
\* that replaces one, members that are added and overwritten, common keys in
\* another order, a repeated key.
Has(k, f) == [key |-> k, val |-> Promise!Nested(f)]
PairVectors ==
  {<<Has(k1, leaf :> Null), One(k2)>>, <<One(k2), Has(k1, leaf :> other @@ leaf2 :> other), One(k3)>>,
   <<One(k1), Has(k1, leaf :> other @@ leaf2 :> other), One(k2)>>}

\* One object and every operation on it; two objects that are merged and
\* compared; two objects of two resources that are cloned, moved, destroyed.
Single ==
  [ops |-> {"construct", "adopt", "destroy", "clear", "lookup", "insert", "subscript", "remove",
            "data"},
   objs |-> {"a"}, resources |-> {"r"}, values |-> {NullValue, Promise!Nested(<<>>)},
   vectors |-> AdoptedVectors, maxLen |-> 4, holdsData |-> FALSE]
Pair ==
  [ops |-> {"adopt", "remove", "merge", "equal"},
   objs |-> {"a", "b"}, resources |-> {"r"}, values |-> {},
   vectors |-> PairVectors, maxLen |-> 3, holdsData |-> FALSE]
Moves ==
  [ops |-> {"adopt", "remove", "lookup", "clone", "move", "destroy"},
   objs |-> {"a", "b"}, resources |-> {"r", "s"}, values |-> {},
   vectors |-> AdoptedVectors, maxLen |-> 3, holdsData |-> FALSE]
Callers == {Single, Pair, Moves}

\* A caller that goes on using a reference from data().
Holder == {[Single EXCEPT !.ops = {"construct", "insert", "lookup", "data"},
                          !.values = {NullValue}, !.holdsData = TRUE]}
=============================================================================
