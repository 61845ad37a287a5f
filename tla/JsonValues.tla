----------------------------- MODULE JsonValues -----------------------------
(***************************************************************************)
(* What the modules about one call on values know of the operations on     *)
(* whole trees: their names.  JsonTree says what they do; what is proved   *)
(* of a call holds whatever they do.                                       *)
(***************************************************************************)
EXTENDS JsonNodes

CONSTANTS
  JsonEqual(_, _),       \* Json::operator==
  JsonClone(_),          \* Json::clone
  JsonRuntime(_),        \* to_runtime of a compile-time value
  NodePlaced(_, _, _),   \* a tree with another node at a place
  NodesOf(_)             \* every node of a tree

\* What is asked of them where copies matter: a clone borrows no text, and a
\* node assigned at a place brings in what it holds and nothing else.
Borrows(v) == \E u \in NodesOf(v) : IsView(u)
TreeLaws(docs, places) ==
  \A v \in docs :
    /\ NodesOf(v) = {v} \union UNION {NodesOf(v.items[i].val) : i \in 1..Len(v.items)}
    /\ ~Borrows(JsonClone(v))
    /\ \A new \in docs, place \in places :
         PlaceIn(v, place) /\ ~Borrows(v) /\ ~Borrows(new) => ~Borrows(NodePlaced(v, place, new))
=============================================================================
