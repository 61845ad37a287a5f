------------------------------ MODULE JsonTree ------------------------------
(***************************************************************************)
(* The operations on whole trees that other parts of the library are built *)
(* from: content equality, deep copy, and assignment below a root.         *)
(***************************************************************************)
EXTENDS JsonNodes

(***************************************************************************)
(* Equality and deep copy.                                                 *)
(***************************************************************************)
FloatEqual(a, b) == NaN \notin {a, b} /\ a.num = b.num

\* Json::operator==: strings by content whatever their storage, arrays in
\* order, objects by looking every entry of one side up in the other.
RECURSIVE Equal(_, _)
EqualArray(a, b) ==
  /\ Len(a.items) = Len(b.items)
  /\ \A i \in 1..Len(a.items) : Equal(a.items[i].val, b.items[i].val)
EqualObject(a, b) ==
  /\ Len(a.items) = Len(b.items)
  /\ \A i \in 1..Len(a.items) :
       HasKey(b, a.items[i].key) /\ Equal(a.items[i].val, AtKey(b, a.items[i].key))
Equal(a, b) ==
  IF IsString(a) /\ IsString(b) THEN a.text = b.text
  ELSE IF a.type # b.type THEN FALSE
  ELSE CASE a.type = "Floating" -> FloatEqual(a, b)
         [] a.type = "Array"    -> EqualArray(a, b)
         [] a.type = "Object"   -> EqualObject(a, b)
         [] OTHER               -> a.num = b.num

\* Json::clone: strings and keys are materialised in the target resource.
RECURSIVE CloneNode(_)
CloneNode(v) ==
  [v EXCEPT !.type  = IF IsString(v) THEN "StringOwned" ELSE @,
            !.items = [i \in 1..Len(v.items) |->
                         Keyed(v.items[i].key, "owned", CloneNode(v.items[i].val))]]

\* to_runtime of a compile-time value: its entries are inserted one by one, with
\* borrowed keys, so of two with the same key the last one wins.
RECURSIVE ToRuntime(_)
InsertEntry(obj, e) == InsertBorrowed(obj, e.key, ToRuntime(e.val))
ToRuntime(v) ==
  IF IsObject(v) THEN FoldLeft(InsertEntry, ObjectNode(<<>>), v.items)
  ELSE [v EXCEPT !.items = [i \in 1..Len(v.items) |->
                              [v.items[i] EXCEPT !.val = ToRuntime(v.items[i].val)]]]

\* The tree with another node at a place.
RECURSIVE WithNode(_, _, _)
WithNode(root, place, new) ==
  IF place = <<>> THEN new
  ELSE [root EXCEPT !.items[Head(place)].val = WithNode(@, Tail(place), new)]

\* Every node of v, itself included.
RECURSIVE Subtree(_)
Subtree(v) ==
  {v} \union UNION {Subtree(v.items[i].val) : i \in 1..Len(v.items)}
=============================================================================
