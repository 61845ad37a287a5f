------------------------------ MODULE JsonNodes ------------------------------
(***************************************************************************)
(* The Json value as a tree, and the Array and Object operations on one    *)
(* node (on objects without their lookup index, which OrderedMap shows to  *)
(* be invisible).  Text is a sequence of characters, a character is a      *)
(* string.                                                                 *)
(***************************************************************************)
EXTENDS Integers, Sequences, FiniteSetsExt, SequencesExt

\* A node: its tag, a Boolean, Integer or Floating payload, the text of a
\* string, the children.  A Floating's payload counts halves; NaN and -0.0
\* are told apart by their text.
Tags == {"Null", "Boolean", "Integer", "Floating", "StringView", "StringOwned",
         "Array", "Object"}
Node(type, num, text, items) ==
  [type |-> type, num |-> num, text |-> text, items |-> items]

\* A child: an object's entry has a key, whose text is the object's own or
\* borrowed from whoever inserted it; an array's element has none.
Keyed(key, kept, val) == [key |-> key, kept |-> kept, val |-> val]
Element(val)          == Keyed(<<>>, "owned", val)

NullNode       == Node("Null", 0, <<>>, <<>>)
BoolNode(b)    == Node("Boolean", IF b THEN 1 ELSE 0, <<>>, <<>>)
IntNode(n)     == Node("Integer", n, <<>>, <<>>)
FloatNode(h)   == Node("Floating", h, <<>>, <<>>)
NaN            == Node("Floating", 0, <<"nan">>, <<>>)
NegZero        == Node("Floating", 0, <<"-0">>, <<>>)
ViewNode(t)    == Node("StringView", 0, t, <<>>)
OwnedNode(t)   == Node("StringOwned", 0, t, <<>>)
ObjectNode(es) == Node("Object", 0, <<>>, es)
ArrayNode(vs)  == Node("Array", 0, <<>>, [i \in 1..Len(vs) |-> Element(vs[i])])

IsString(v) == v.type \in {"StringView", "StringOwned"}
IsArray(v)  == v.type = "Array"
IsObject(v) == v.type = "Object"

(***************************************************************************)
(* Object and Array.                                                       *)
(***************************************************************************)
\* find_slot: the first entry with the key, 0 when there is none.
FindSlot(v, key) ==
  LET at == {i \in 1..Len(v.items) : v.items[i].key = key}
  IN  IF at = {} THEN 0 ELSE Min(at)
HasKey(v, key) == FindSlot(v, key) # 0
AtKey(v, key)    == v.items[FindSlot(v, key)].val

\* Object::insert overwrites in place, where the old key stays, or appends.
\* Given a resource it owns the new key, otherwise it borrows it.
Overwritten(v, key, val) == [v EXCEPT !.items[FindSlot(v, key)].val = val]
InsertKey(v, key, val) ==
  IF HasKey(v, key) THEN Overwritten(v, key, val)
  ELSE [v EXCEPT !.items = Append(@, Keyed(key, "owned", val))]
InsertBorrowed(v, key, val) ==
  IF HasKey(v, key) THEN Overwritten(v, key, val)
  ELSE [v EXCEPT !.items = Append(@, Keyed(key, "borrowed", val))]

\* Object::remove: nothing happens when the key is missing.
RemoveKey(v, key) ==
  IF HasKey(v, key) THEN [v EXCEPT !.items = RemoveAt(@, FindSlot(v, key))] ELSE v

\* Array::erase of one element and data().insert, at the 0-based idx.
EraseIndex(v, idx) == [v EXCEPT !.items = RemoveAt(@, idx + 1)]
InsertIndex(v, idx, val) ==
  [v EXCEPT !.items = InsertAt(@, idx + 1, Element(val))]

\* A pointer to a node is its place: the child positions that lead to it.
ChildAt(v, i)       == IF i \in 1..Len(v.items) THEN v.items[i].val ELSE NullNode
NodeAt(root, place) == FoldLeft(ChildAt, root, place)
PlaceIn(root, place)  ==
  \A n \in 1..Len(place) : place[n] \in 1..Len(NodeAt(root, SubSeq(place, 1, n - 1)).items)

\* A node that holds text of somebody else, in itself or in a key.
IsView(u) == u.type = "StringView" \/ \E i \in 1..Len(u.items) : u.items[i].kept = "borrowed"
=============================================================================
