----------------------------- MODULE MCValues ------------------------------
(***************************************************************************)
(* What callers do with Json values, for TLC: apply a JSON Patch or a      *)
(* merge patch, collect values in ordered and hash sets, validate them     *)
(* against a schema, follow a path.  A behaviour is about one of these     *)
(* (kind); a patch or a schema it is not about waits in a first state, and *)
(* the variables of the other calls are Unused.                            *)
(***************************************************************************)
EXTENDS JsonPatch, Schema

CONSTANTS Merges, Values, Trees, Alphabet

VARIABLES kind, document, merge, was, frames, call, calls, phase,
          sorted, hashed, inserts, tree, text

\* Entries as a parser makes them, with keys in the parsed text, and as a clone
\* makes them.
Member(k, v) == Keyed(k, "borrowed", v)
E(k, v)      == Member(<<k>>, v)
Own(k, v)    == Keyed(<<k>>, "owned", v)

(***************************************************************************)
(* Documents: an object and an array with containers inside, a scalar; all *)
(* objects of up to two members over scalars, null, an array and such      *)
(* objects one level down.                                                 *)
(***************************************************************************)
Leaf   == ViewNode(<<"b">>)
Nested == ObjectNode(<<E("a", ArrayNode(<<IntNode(1), Leaf>>)),
                       E("0", NullNode),
                       Member(<<"~", "/">>, Leaf)>>)
Rows   == ArrayNode(<<IntNode(0), ObjectNode(<<E("a", IntNode(1))>>), Leaf>>)
PatchTargets == {Nested, Rows, IntNode(1)}

Flat == {NullNode, IntNode(1), ArrayNode(<<NullNode>>)}
ObjectsOf(vals, entry(_, _)) ==
  {ObjectNode(<<>>)}
    \union {ObjectNode(<<entry(k, v)>>) : k \in {"a", "b"}, v \in vals}
    \union {ObjectNode(<<entry("a", v), entry("b", w)>>) :
              v \in vals, w \in vals}
Small == Flat \union ObjectsOf({NullNode, ViewNode(<<"b">>)}, E)
MergeSet == Flat \union ObjectsOf(Small, E)
MergeTargets == {IntNode(1), ObjectNode(<<>>)}
               \union ObjectsOf({IntNode(0), ObjectNode(<<Own("b", IntNode(0)),
                                                           Own("c", IntNode(1))>>)}, Own)

Merging  == INSTANCE MergePatch WITH Targets <- MergeTargets, MaxCalls <- 3,
              target <- document, patch <- merge, stack <- frames, pc <- phase
Ordering == INSTANCE JsonOrder WITH MaxInserts <- 3
Walking  == INSTANCE PathAccess WITH MaxLen <- 5, path <- text

\* What JsonPatch and Schema take as constants.
Tree == INSTANCE JsonTree
TreeEqual(a, b)               == Tree!Equal(a, b)
TreeClone(v)                  == Tree!CloneNode(v)
TreeToRuntime(v)              == Tree!ToRuntime(v)
TreeWithNode(root, place, new) == Tree!WithNode(root, place, new)
TreeSubtree(v)                == Tree!Subtree(v)
RECURSIVE Conforms(_, _)
Conforms(s, v) ==
  IsObject(s) /\ \A i \in 1..Len(s.items) :
    /\ HoldsHere(s, s.items[i].key, s.items[i].val, v)
    /\ \A d \in Demands(s.items[i].key, s.items[i].val, v) : Conforms(d[1], d[2])

(***************************************************************************)
(* Patches: every operation with every pair of a few pointers, alone and   *)
(* followed by another.                                                    *)
(***************************************************************************)
None == [tag |-> "absent", node |-> NullNode]
T(t) == [tag |-> "string", node |-> ViewNode(t)]
V(v) == [tag |-> "other", node |-> v]
Op(op, ptr, from, val) ==
  [object |-> TRUE, op |-> op, path |-> ptr, from |-> from, value |-> val]
NotAnObject == [object |-> FALSE, op |-> None, path |-> None, from |-> None, value |-> None]

\* Pointers: the root, members, escapes, elements, "-", one past the end, a
\* leading zero, an index that overflows, a place below another, a place below a scalar.
Pointers == {<<>>, <<"/", "a">>, <<"/", "0">>, <<"/", "2">>, <<"/", "1">>, <<"/", "-">>,
             <<"/", "a", "/", "0">>, <<"/", "1", "/", "a">>, <<"/", "a", "/", "2">>,
             <<"/", "~", "0", "~", "1">>, <<"/", "0", "0">>, <<"/", "9">>, <<"/", "2", "2", "9">>}
Placed   == {Leaf, ArrayNode(<<Leaf, IntNode(1)>>)}

WithValue == {Op(T(<<o>>), T(p), None, V(v)) :
                o \in {"add", "replace", "test"}, p \in Pointers, v \in Placed}
Removes   == {Op(T(<<"remove">>), T(p), None, None) : p \in Pointers}
WithFrom  == {Op(T(<<o>>), T(p), T(f), None) :
                o \in {"move", "copy"}, p \in Pointers, f \in Pointers}
Malformeds ==
  {NotAnObject,
   Op(V(NullNode), T(<<>>), None, None),
   Op(T(<<"noop">>), T(<<>>), None, None),
   Op(T(<<"remove">>), None, None, None),
   Op(T(<<"remove">>), T(<<"a">>), None, None),
   Op(T(<<"remove">>), T(<<"/", "~">>), None, None),
   Op(T(<<"test">>), T(<<>>), None, None),
   Op(T(<<"move">>), T(<<>>), None, None),
   Op(T(<<"copy">>), T(<<>>), T(<<"/", "~", "9">>), None)}

Second == {Op(T(<<"test">>), T(<<"/", "0">>), None, V(Leaf)),
           Op(T(<<"move">>), T(<<"/", "0">>), T(<<"/", "1">>), None),
           Op(T(<<"replace">>), T(<<"/", "a">>), None, V(IntNode(1)))}
PatchSet ==
  {<<>>} \union {<<op>> : op \in WithValue \union Removes \union WithFrom \union Malformeds}
         \union {<<a, b>> : a \in WithValue \union Removes \union WithFrom,
                            b \in Second \union Malformeds}

\* The laws of JsonValues, at the documents and what may be put into them.
Samples == UNION {Tree!Subtree(v) \union Tree!Subtree(Tree!CloneNode(v)) : v \in PatchTargets \union Placed}
ASSUME TreeLaws(Samples, {<<>>} \union {<<i>> : i \in 1..3} \union {<<i, j>> : i, j \in 1..2})

(***************************************************************************)
(* Values to collect: equal content in different storage, member order and *)
(* sign of zero; NaN alone and inside containers.                          *)
(***************************************************************************)
OrderValues ==
  {NullNode, BoolNode(TRUE), IntNode(0), IntNode(1), FloatNode(0), NegZero, NaN, FloatNode(2),
   ViewNode(<<"a">>), OwnedNode(<<"a">>), OwnedNode(<<"a", "b">>), ViewNode(<<>>),
   ArrayNode(<<>>), ArrayNode(<<IntNode(1)>>), ArrayNode(<<IntNode(1), NaN>>),
   ArrayNode(<<NaN, NullNode>>), ArrayNode(<<NegZero>>), ArrayNode(<<FloatNode(0)>>),
   ArrayNode(<<FloatNode(0), IntNode(2)>>), ArrayNode(<<FloatNode(2), IntNode(0)>>),
   ArrayNode(<<NaN, IntNode(1)>>),
   ObjectNode(<<>>), ObjectNode(<<E("a", IntNode(1)), E("b", IntNode(0))>>),
   ObjectNode(<<E("b", IntNode(0)), E("a", IntNode(1))>>), ObjectNode(<<E("b", IntNode(0))>>),
   ObjectNode(<<E("a", NaN)>>), ObjectNode(<<Own("a", ViewNode(<<"a">>))>>)}

(***************************************************************************)
(* Schemas: every pair of keyword entries, well-formed and malformed, in   *)
(* both orders, over values inside and outside each keyword's domain.      *)
(***************************************************************************)
S(k)    == ViewNode(<<k>>)
Typed(t) == ObjectNode(<<E("type", S(t))>>)
Props    == ObjectNode(<<E("a", Typed("integer")), E("b", ObjectNode(<<E("minimum", FloatNode(1))>>))>>)

Keywords ==
  {E("type", S("object")), E("type", S("array")), E("type", S("number")), E("type", S("string")),
   E("type", S("thing")), E("type", NullNode),
   E("required", ArrayNode(<<S("a"), S("b")>>)), E("required", ArrayNode(<<IntNode(1)>>)),
   E("required", S("a")),
   E("properties", Props), E("properties", ObjectNode(<<E("c", NullNode), E("a", Props)>>)),
   E("properties", NullNode), E("properties", ObjectNode(<<E("a", ObjectNode(<<E("properties", Props)>>))>>)),
   E("items", Typed("integer")), E("items", ObjectNode(<<E("items", Typed("null"))>>)), E("items", S("a")),
   E("items", ObjectNode(<<E("properties", Props)>>)),
   E("enum", ArrayNode(<<IntNode(1), ObjectNode(<<E("a", NullNode), E("a", IntNode(1))>>)>>)),
   E("enum", NullNode), E("const", FloatNode(2)),
   E("minLength", IntNode(2)), E("maxLength", IntNode(1)), E("minLength", IntNode(-1)),
   E("minItems", IntNode(1)), E("maxItems", IntNode(1)), E("maxItems", FloatNode(1)),
   E("minimum", IntNode(1)), E("maximum", FloatNode(1)), E("maximum", S("a")),
   E("additionalProperties", BoolNode(FALSE)), E("additionalProperties", BoolNode(TRUE)),
   E("additionalProperties", ObjectNode(<<>>)), E("title", S("a"))}

Inside(vs) == UNION {Tree!Subtree(v) : v \in vs}
SchemaSet ==
  Inside({NullNode, ObjectNode(<<>>)} \union {ObjectNode(<<x>>) : x \in Keywords}
           \union {ObjectNode(<<x, y>>) : x \in Keywords, y \in Keywords})

JustA  == ObjectNode(<<E("a", IntNode(1))>>)
InstanceSet == Inside(
  {NullNode, IntNode(0), IntNode(1), FloatNode(2), NaN, OwnedNode(<<"a">>),
   ViewNode(<<"C3", "80">>), ViewNode(<<"a", "C3", "80">>),
   ArrayNode(<<>>), ArrayNode(<<IntNode(1), IntNode(1)>>),
   ArrayNode(<<ArrayNode(<<NullNode>>), ArrayNode(<<NullNode, IntNode(1)>>)>>),
   ArrayNode(<<JustA, ObjectNode(<<E("b", IntNode(0)), E("a", NullNode)>>)>>),
   JustA, ObjectNode(<<E("b", FloatNode(1)), E("a", IntNode(1))>>),
   ObjectNode(<<E("a", JustA), E("b", IntNode(0)), E("c", NullNode)>>)})

(***************************************************************************)
(* Trees: members named by digits, by nothing and by a bracket, arrays     *)
(* inside objects and objects inside arrays.                               *)
(***************************************************************************)
Deep == ObjectNode(<<Member(<<"a">>, ArrayNode(<<IntNode(1), ArrayNode(<<NullNode>>)>>)), Member(<<"0">>, IntNode(1)),
                     Member(<<>>, ObjectNode(<<Member(<<"1">>, IntNode(1)), Member(<<"a">>, NullNode)>>))>>)
PathTrees == {IntNode(1), Deep, ArrayNode(<<Deep, ObjectNode(<<Member(<<"1", "0">>, IntNode(1)), Member(<<"]">>, IntNode(1))>>)>>)}

(***************************************************************************)
(* One kind of call at a time.                                             *)
(***************************************************************************)
Unused == "unused"
PatchIdle  == target = IntNode(1) /\ patch = <<>> /\ PatchCalled
SchemaIdle == schema = NullNode /\ value = NullNode /\ Called
MergeIdle  == /\ document = Unused /\ merge = Unused /\ was = Unused /\ frames = Unused
              /\ call = Unused /\ calls = Unused /\ phase = Unused
OrderIdle  == sorted = Unused /\ hashed = Unused /\ inserts = Unused
PathIdle   == tree = Unused /\ text = Unused
ValuesInit ==
  \/ kind = "patch" /\ PatchInit /\ SchemaIdle /\ MergeIdle /\ OrderIdle /\ PathIdle
  \/ kind = "schema" /\ Init /\ PatchIdle /\ MergeIdle /\ OrderIdle /\ PathIdle
  \/ kind = "merge" /\ Merging!Init /\ PatchIdle /\ SchemaIdle /\ OrderIdle /\ PathIdle
  \/ kind = "order" /\ Ordering!Init /\ PatchIdle /\ SchemaIdle /\ MergeIdle /\ PathIdle
  \/ kind = "path" /\ Walking!Init /\ PatchIdle /\ SchemaIdle /\ MergeIdle /\ OrderIdle

merges == <<document, merge, was, frames, call, calls, phase>>
sets   == <<sorted, hashed, inserts>>
walks  == <<tree, text>>
ValuesNext ==
  /\ UNCHANGED kind
  /\ \/ kind = "patch" /\ PatchNext /\ UNCHANGED <<vars, merges, sets, walks>>
     \/ kind = "schema" /\ Next /\ UNCHANGED <<patchVars, merges, sets, walks>>
     \/ kind = "merge" /\ Merging!Next /\ UNCHANGED <<patchVars, vars, sets, walks>>
     \/ kind = "order" /\ Ordering!Next /\ UNCHANGED <<patchVars, vars, merges, walks>>
     \/ kind = "path" /\ Walking!Next /\ UNCHANGED <<patchVars, vars, merges, sets>>
ValuesSpec == ValuesInit /\ [][ValuesNext]_<<kind, patchVars, vars, merges, sets, walks>>

(***************************************************************************)
(* The properties of the instances; those of JsonPatch and Schema are      *)
(* there.                                                                  *)
(***************************************************************************)
\* A merge that returns, at the first or a repeated call, has the RFC 7386
\* result, and never touches a member the patch does not name.
MergeConverges == kind = "merge" => Merging!MergeConverges
\* operator< keeps an ordered set strictly increasing, NaN included, and
\* operator<, operator== and the hash agree on which values are the same.
ComparisonsAgree == kind = "order" => Ordering!ComparisonsAgree
\* at_path, find_path and find_path_result agree on the node and the failure,
\* for either spelling of a step, and a path written down compiles to itself.
PathDenotesOne == kind = "path" => Walking!PathDenotesOne
=============================================================================
