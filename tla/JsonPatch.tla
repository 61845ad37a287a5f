----------------------------- MODULE JsonPatch -----------------------------
(***************************************************************************)
(* patch_result (patch.cpp): an RFC 6902 patch applied to a shadow copy of *)
(* the target, one operation per step, and moved back when every operation *)
(* has succeeded.  An allocation may fail at any step.                     *)
(*                                                                         *)
(* An element of a patch is a record [object, op, path, from, value]: is   *)
(* it an object, and its four members, each [tag, node] with the tag       *)
(* "absent", "string" or "other".  Array positions are 0-based.            *)
(***************************************************************************)
EXTENDS JsonValues

CONSTANTS Targets,   \* documents a patch is applied to
          Patches,   \* sequences of operations
          SizeMax    \* the largest size_t

\* Patches are sequences, and what an operation has for "path" and "from" has
\* a text.
Characters(t) == {t[i] : i \in 1..Len(t)}
IsText(t)     == t \in Seq(Characters(t))
ASSUME PatchAssumption ==
  \A p \in Patches : /\ Len(p) \in Nat
                      /\ \A i \in 1..Len(p) : IsText(p[i].path.node.text) /\ IsText(p[i].from.node.text)

(***************************************************************************)
(* JSON Pointers.                                                          *)
(***************************************************************************)
\* unescape_token, one character at a time: "~" waits for the next one.
UnescapeChar(st, c) ==
  IF st.tilde THEN [out   |-> Append(st.out, IF c = "0" THEN "~" ELSE "/"),
                    tilde |-> FALSE,
                    bad   |-> st.bad \/ c \notin {"0", "1"}]
  ELSE IF c = "~" THEN [st EXCEPT !.tilde = TRUE]
  ELSE [st EXCEPT !.out = Append(@, c)]
UnescapeToken(raw) ==
  FoldLeft(UnescapeChar, [out |-> <<>>, tilde |-> FALSE, bad |-> FALSE], raw)

\* The tokens: behind the leading "/" every further one begins a new token,
\* and each is decoded.
SplitChar(raws, c) ==
  IF c = "/" THEN Append(raws, <<>>) ELSE Append(Front(raws), Append(Last(raws), c))
RawTokens(t) == FoldLeft(SplitChar, <<<<>>>>, Tail(t))
Unescaped(raws) == [k \in 1..Len(raws) |-> UnescapeToken(raws[k])]
Tokens(t) == Unescaped(RawTokens(t))

\* parse_json_pointer throws unless this holds.
Decodable(tokens) == \A k \in 1..Len(tokens) : ~tokens[k].bad /\ ~tokens[k].tilde
PointerOk(t) == t = <<>> \/ (t[1] = "/" /\ Decodable(Tokens(t)))

Decode(tokens)  == [k \in 1..Len(tokens) |-> tokens[k].out]
ParsePointer(t) == IF t = <<>> THEN <<>> ELSE Decode(Tokens(t))

Digit == [d \in {"0", "1", "2", "9"} |->
            CASE d = "0" -> 0 [] d = "1" -> 1 [] d = "2" -> 2 [] OTHER -> 9]

\* strict_index: the decimal value of a token without leading zeros, -1 for
\* any other token and for a value that comes near the largest size_t.
NextDigit(n, c) == IF n = -1 \/ n > (SizeMax - 9) \div 10 THEN -1 ELSE 10 * n + Digit[c]
StrictIndex(token) ==
  IF \/ token = <<>>
     \/ Len(token) > 1 /\ token[1] = "0"
     \/ \E i \in 1..Len(token) : token[i] \notin DOMAIN Digit
  THEN -1
  ELSE FoldLeft(NextDigit, 0, token)

IsProperPrefix(from, path) == Len(from) < Len(path) /\ IsPrefix(from, path)

(***************************************************************************)
(* Resolution.                                                             *)
(***************************************************************************)
\* One hop: the error, or the position of the child.
HopKey(slot)         == [kind |-> IF slot = 0 THEN "PathNotFound" ELSE "Ok", at |-> slot]
HopIndex(index, size) ==
  [kind |-> CASE index = -1 -> "InvalidArrayIndex"
              [] index >= size -> "IndexOutOfRange"
              [] OTHER -> "Ok",
   at   |-> index + 1]
Hop(v, token) ==
  CASE IsObject(v) -> HopKey(FindSlot(v, token))
    [] IsArray(v)  -> HopIndex(StrictIndex(token), Len(v.items))
    [] OTHER       -> [kind |-> "TypeMismatch", at |-> 0]

\* resolve_node, and the loop of resolve_slot over all tokens but the last:
\* the first hop that fails ends it.
ResolveHop(cur, h) ==
  IF h.kind # "Ok" THEN [cur EXCEPT !.kind = h.kind] ELSE [cur EXCEPT !.place = Append(@, h.at)]
ResolveNode(root, ptr) ==
  FoldLeft(LAMBDA cur, token :
             IF cur.kind # "Ok" THEN cur ELSE ResolveHop(cur, Hop(NodeAt(root, cur.place), token)),
           [kind |-> "Ok", place |-> <<>>], ptr)

\* The final token in its parent p: an object key, or an array position.
Slot(kind, parent, token, index) ==
  [kind |-> kind, parent |-> parent, token |-> token, index |-> index]
ArraySlot(size, place, token, index, mode) ==
  CASE token = <<"-">> -> Slot(IF mode = "Insert" THEN "Ok" ELSE "InvalidArrayIndex",
                               place, token, size)
    [] token # <<"-">> /\ index = -1 -> Slot("InvalidArrayIndex", place, token, 0)
    [] token # <<"-">> /\ index # -1 ->
         Slot(IF index > size \/ (mode = "Existing" /\ index = size)
              THEN "IndexOutOfRange" ELSE "Ok", place, token, index)

FinalSlot(p, place, token, mode) ==
  CASE IsObject(p) -> Slot(IF mode = "Existing" /\ ~HasKey(p, token)
                           THEN "PathNotFound" ELSE "Ok", place, token, 0)
    [] IsArray(p)  -> ArraySlot(Len(p.items), place, token, StrictIndex(token), mode)
    [] OTHER       -> Slot("TypeMismatch", place, token, 0)

\* resolve_slot.
SlotUnder(up, root, token, mode) ==
  IF up.kind # "Ok" THEN Slot(up.kind, up.place, token, 0)
  ELSE FinalSlot(NodeAt(root, up.place), up.place, token, mode)
ResolveSlot(root, ptr, mode) == SlotUnder(ResolveNode(root, Front(ptr)), root, Last(ptr), mode)

(***************************************************************************)
(* The operations, as functions of the shadow: [kind, doc].                *)
(***************************************************************************)
Applied(kind, doc) == [kind |-> kind, doc |-> doc]

\* Remove what an existing slot holds.
UnlinkFrom(p, slot) ==
  IF IsObject(p) THEN RemoveKey(p, slot.token) ELSE EraseIndex(p, slot.index)
Unlink(root, slot) ==
  NodePlaced(root, slot.parent, UnlinkFrom(NodeAt(root, slot.parent), slot))

\* Slip (PlacedIsFound): the element is inserted behind its position.
LinkBehind(p, slot, val) ==
  IF IsObject(p) THEN InsertKey(p, slot.token, val)
  ELSE InsertIndex(p, IF slot.index < Len(p.items) THEN slot.index + 1 ELSE slot.index, val)

\* Slip (PatchMayDie): the new member's key is the patch's text.
LinkBorrows(p, slot, val) ==
  IF IsObject(p) THEN InsertBorrowed(p, slot.token, val) ELSE InsertIndex(p, slot.index, val)

\* insert_at, once the slot is known and before.
Link(p, slot, val) ==
  IF IsObject(p) THEN InsertKey(p, slot.token, val) ELSE InsertIndex(p, slot.index, val)
InsertSlot(root, slot, val) ==
  IF slot.kind # "Ok" THEN Applied(slot.kind, root)
  ELSE Applied("Ok", NodePlaced(root, slot.parent, Link(NodeAt(root, slot.parent), slot, val)))
InsertAtPointer(root, ptr, val) ==
  IF ptr = <<>> THEN Applied("Ok", val)
  ELSE InsertSlot(root, ResolveSlot(root, ptr, "Insert"), val)

RemoveSlot(root, slot) ==
  IF slot.kind # "Ok" THEN Applied(slot.kind, root) ELSE Applied("Ok", Unlink(root, slot))
ApplyRemove(root, ptr) ==
  IF ptr = <<>> THEN Applied("RootOperation", root)
  ELSE RemoveSlot(root, ResolveSlot(root, ptr, "Existing"))

\* Slip (ReplaceIsRemoveThenAdd): the array case inserts before the element.
OverwriteShifts(p, slot, val) ==
  IF IsObject(p) THEN InsertKey(p, slot.token, val) ELSE InsertIndex(p, slot.index, val)

Overwrite(p, slot, val) ==
  IF IsObject(p) THEN InsertKey(p, slot.token, val)
  ELSE [p EXCEPT !.items[slot.index + 1].val = val]
ReplaceSlot(root, slot, val) ==
  IF slot.kind # "Ok" THEN Applied(slot.kind, root)
  ELSE Applied("Ok", NodePlaced(root, slot.parent, Overwrite(NodeAt(root, slot.parent), slot, val)))
ApplyReplace(root, ptr, val) ==
  IF ptr = <<>> THEN Applied("Ok", val)
  ELSE ReplaceSlot(root, ResolveSlot(root, ptr, "Existing"), val)

TestAt(root, r, val) ==
  IF r.kind # "Ok" THEN Applied(r.kind, root)
  ELSE Applied(IF JsonEqual(NodeAt(root, r.place), val) THEN "Ok" ELSE "TestFailed", root)
ApplyTest(root, ptr, val) == TestAt(root, ResolveNode(root, ptr), val)

CopyFrom(root, r, ptr) ==
  IF r.kind # "Ok" THEN Applied(r.kind, root)
  ELSE InsertAtPointer(root, ptr, JsonClone(NodeAt(root, r.place)))
ApplyCopy(root, from, ptr) == CopyFrom(root, ResolveNode(root, from), ptr)

SlotValue(p, slot) ==
  IF IsObject(p) THEN AtKey(p, slot.token) ELSE p.items[slot.index + 1].val

\* Slip (MoveInverts): the insertion point is found before the removal, and
\* what is removed afterwards is whatever "from" denotes then.
MoveAdds(root, slot, from, ptr) ==
  IF slot.kind # "Ok" THEN Applied(slot.kind, root)
  ELSE IF from = ptr THEN Applied("Ok", root)
  ELSE IF IsProperPrefix(from, ptr) THEN Applied("MoveIntoDescendant", root)
  ELSE ApplyRemove(InsertAtPointer(root, ptr, SlotValue(NodeAt(root, slot.parent), slot)).doc, from)

\* move: remove, then add with the path resolved again.
MoveSlot(root, slot, from, ptr) ==
  IF slot.kind # "Ok" THEN Applied(slot.kind, root)
  ELSE IF from = ptr THEN Applied("Ok", root)
  ELSE IF IsProperPrefix(from, ptr) THEN Applied("MoveIntoDescendant", root)
  ELSE InsertAtPointer(Unlink(root, slot), ptr, SlotValue(NodeAt(root, slot.parent), slot))
ApplyMove(root, from, ptr) ==
  IF from = <<>> THEN Applied("RootOperation", root)
  ELSE MoveSlot(root, ResolveSlot(root, from, "Existing"), from, ptr)

KnownOps == {<<"add">>, <<"remove">>, <<"replace">>, <<"move">>, <<"copy">>, <<"test">>}

\* apply_one, its own checks of the operation included.
ApplyValued(root, name, ptr, value) ==
  CASE value.tag = "absent" -> Applied("InvalidPatchDocument", root)
    [] value.tag # "absent" /\ name = <<"add">> ->
         InsertAtPointer(root, ptr, JsonClone(value.node))
    [] value.tag # "absent" /\ name = <<"replace">> ->
         ApplyReplace(root, ptr, JsonClone(value.node))
    [] OTHER -> ApplyTest(root, ptr, value.node)

ApplySourced(root, name, ptr, from) ==
  IF from.tag # "string" THEN Applied("InvalidPatchDocument", root)
  ELSE IF ~PointerOk(from.node.text) THEN Applied("throws", root)
  ELSE IF name = <<"copy">> THEN ApplyCopy(root, ParsePointer(from.node.text), ptr)
  ELSE ApplyMove(root, ParsePointer(from.node.text), ptr)

ApplyNamed(root, op, name, ptr) ==
  IF name = <<"remove">> THEN ApplyRemove(root, ptr)
  ELSE IF name \in {<<"add">>, <<"replace">>, <<"test">>}
  THEN ApplyValued(root, name, ptr, op.value)
  ELSE ApplySourced(root, name, ptr, op.from)

ApplyOne(root, op) ==
  IF ~op.object \/ op.op.tag # "string" \/ op.path.tag # "string"
  THEN Applied("InvalidPatchDocument", root)
  ELSE IF op.op.node.text \notin KnownOps THEN Applied("UnknownOp", root)
  ELSE IF ~PointerOk(op.path.node.text) THEN Applied("throws", root)
  ELSE ApplyNamed(root, op, op.op.node.text, ParsePointer(op.path.node.text))

(***************************************************************************)
(* validate_patch_shape: the first operation that is malformed.            *)
(***************************************************************************)
\* Slip (ShapeSuffices): the "from" of a move is not looked at.
ShapeErrorNoFrom(op) ==
  IF ~op.object \/ op.op.tag # "string" THEN "InvalidPatchDocument"
  ELSE IF op.op.node.text \notin KnownOps THEN "UnknownOp"
  ELSE IF op.path.tag # "string" THEN "InvalidPatchDocument"
  ELSE IF ~PointerOk(op.path.node.text) THEN "InvalidPointer"
  ELSE IF op.op.node.text \in {<<"add">>, <<"replace">>, <<"test">>}
  THEN IF op.value.tag = "absent" THEN "InvalidPatchDocument" ELSE "Ok"
  ELSE "Ok"

ShapeError(op) ==
  IF ~op.object \/ op.op.tag # "string" THEN "InvalidPatchDocument"
  ELSE IF op.op.node.text \notin KnownOps THEN "UnknownOp"
  ELSE IF op.path.tag # "string" THEN "InvalidPatchDocument"
  ELSE IF ~PointerOk(op.path.node.text) THEN "InvalidPointer"
  ELSE IF op.op.node.text \in {<<"add">>, <<"replace">>, <<"test">>}
  THEN IF op.value.tag = "absent" THEN "InvalidPatchDocument" ELSE "Ok"
  ELSE IF op.op.node.text = <<"remove">> THEN "Ok"
  ELSE IF op.from.tag # "string" THEN "InvalidPatchDocument"
  ELSE IF ~PointerOk(op.from.node.text) THEN "InvalidPointer"
  ELSE "Ok"

(***************************************************************************)
(* patch_result.                                                           *)
(***************************************************************************)
VARIABLES target, patch, next, shadow, pc, outcome
patchVars == <<target, patch, next, shadow, pc, outcome>>

NoError   == [kind |-> "Ok", op |-> 0]
Malformed == {i \in 1..Len(patch) : ShapeError(patch[i]) # "Ok"}

PatchCalled == next = 1 /\ shadow = NullNode /\ pc = "shape" /\ outcome = NoError
PatchInit   == target \in Targets /\ patch \in Patches /\ PatchCalled

Return(kind, i) ==
  /\ pc' = "returned" /\ outcome' = [kind |-> kind, op |-> i]
  /\ shadow' = NullNode
  /\ UNCHANGED <<target, patch, next>>

\* The empty patch is Ok; a malformed one is refused before the clone.
Refuse ==
  /\ pc = "shape"
  /\ \/ patch = <<>> /\ Return("Ok", 0)
     \/ Malformed # {} /\ Return(ShapeError(patch[Min(Malformed)]), Min(Malformed))

\* Slip (PatchMayDie): the shadow shares the target's strings.
ShadowShares ==
  /\ pc = "shape" /\ patch # <<>> /\ Malformed = {}
  /\ pc' = "apply" /\ shadow' = target
  /\ UNCHANGED <<target, patch, next, outcome>>

MakeShadow ==
  /\ pc = "shape" /\ patch # <<>> /\ Malformed = {}
  /\ pc' = "apply" /\ shadow' = JsonClone(target)
  /\ UNCHANGED <<target, patch, next, outcome>>

\* Slip (Atomic): operations work on the target itself.
ProceedInPlace(a) ==
  IF a.kind = "Ok"
  THEN /\ shadow' = a.doc /\ target' = a.doc /\ next' = next + 1
       /\ UNCHANGED <<patch, pc, outcome>>
  ELSE Return(a.kind, next)

Proceed(a) ==
  IF a.kind = "Ok"
  THEN /\ shadow' = a.doc /\ next' = next + 1
       /\ UNCHANGED <<target, patch, pc, outcome>>
  ELSE Return(a.kind, next)

ApplyNext ==
  /\ pc = "apply" /\ next <= Len(patch)
  /\ Proceed(ApplyOne(shadow, patch[next]))

\* std::bad_alloc out of the scan, the clone or any operation.
OutOfMemory ==
  /\ pc \in {"shape", "apply"} /\ patch # <<>> /\ next <= Len(patch)
  /\ Return("bad_alloc", next)

Commit ==
  /\ pc = "apply" /\ next > Len(patch)
  /\ target' = shadow /\ shadow' = NullNode /\ pc' = "returned"
  /\ UNCHANGED <<patch, next, outcome>>

PatchDone == pc = "returned" /\ UNCHANGED patchVars

PatchNext == Refuse \/ MakeShadow \/ ApplyNext \/ OutOfMemory \/ Commit \/ PatchDone
PatchSpec == PatchInit /\ [][PatchNext]_patchVars

(***************************************************************************)
(* Properties.                                                             *)
(***************************************************************************)
\* A patch whose later operation fails, or that runs out of memory, leaves
\* the target as it was; one that succeeds changes it in one step.
\* (patch.hpp: "Atomic: on any failure (including bad_alloc) target is
\* unchanged".)
AtomicStep == target' # target => pc' = "returned" /\ outcome'.kind = "Ok" /\ next = Len(patch) + 1
Atomic == [][AtomicStep]_patchVars

\* After a patch has been applied nothing in the target, no string and no key,
\* borrows text from the patch document or from the old target: both may die
\* (patch.hpp: "Resource for every value/container/key the patch creates").
PatchMayDie ==
  pc = "returned" /\ outcome.kind = "Ok" /\ patch # <<>> => ~Borrows(target)

\* The documents an operation meets while the patch runs.
Pending == pc = "apply" /\ next <= Len(patch)
CurrentOp == patch[next]
OpIs(name) == Pending /\ CurrentOp.op.node.text = <<name>>

\* The structural scan is complete: no operation it lets through is found
\* malformed, or throws for its pointer syntax, once the shadow exists.
ShapeSuffices ==
  Pending => ApplyOne(shadow, CurrentOp).kind
               \notin {"InvalidPatchDocument", "UnknownOp", "InvalidPointer", "throws"}

\* RFC 6902 4.3: replace is remove followed by add of the same path, below
\* the root and up to the order of members.
SameOutcome(once, ptr, rm, val) ==
  IF rm.kind # "Ok" THEN once.kind = rm.kind
  ELSE once.kind = "Ok" /\ JsonEqual(once.doc, InsertAtPointer(rm.doc, ptr, val).doc)
ReplacedAsBoth(ptr, val) ==
  SameOutcome(ApplyReplace(shadow, ptr, val), ptr, ApplyRemove(shadow, ptr), val)
ReplaceIsRemoveThenAdd ==
  OpIs("replace") /\ CurrentOp.path.node.text # <<>> =>
    ReplacedAsBoth(ParsePointer(CurrentOp.path.node.text), CurrentOp.value.node)

\* A move to a place that did not exist can be undone by the opposite move,
\* unless that would put a value into itself: the removal shifts the elements
\* behind it, and the second resolution of the path accounts for that.
SameDocument(back) == back.kind = "Ok" /\ JsonEqual(back.doc, shadow)
Overwrites(rm, ptr) == ApplyTest(rm, ptr, NullNode).kind \in {"Ok", "TestFailed"}
                         /\ IsObject(NodeAt(rm, ResolveNode(rm, Front(ptr)).place))
MovedBack(out, rm, from, ptr) ==
  out.kind = "Ok" /\ ~Overwrites(rm, ptr) => SameDocument(ApplyMove(out.doc, ptr, from))
Invertible(from, ptr) ==
  ptr # <<>> /\ from # ptr /\ Last(ptr) # <<"-">> /\ ~IsProperPrefix(ptr, from) =>
    MovedBack(ApplyMove(shadow, from, ptr), ApplyRemove(shadow, from).doc, from, ptr)
MoveInverts ==
  OpIs("move") => Invertible(ParsePointer(CurrentOp.from.node.text),
                             ParsePointer(CurrentOp.path.node.text))

\* What an operation has put at a path is what the path then denotes: a test
\* of the same path passes after every successful add, replace, copy or move,
\* although the path was resolved against a document without the value.
FoundAt(out, ptr, placed) ==
  out.kind = "Ok" /\ Last(ptr) # <<"-">> => ApplyTest(out.doc, ptr, placed).kind = "Ok"
SourceNode(from) == NodeAt(shadow, ResolveNode(shadow, from).place)
PlacedIsFound ==
  Pending /\ CurrentOp.path.node.text # <<>> /\ ~OpIs("remove") =>
    FoundAt(ApplyOne(shadow, CurrentOp), ParsePointer(CurrentOp.path.node.text),
            IF CurrentOp.value.tag # "absent" THEN CurrentOp.value.node
            ELSE SourceNode(ParsePointer(CurrentOp.from.node.text)))

\* The laws of the operations, at every document a patch passes through: an
\* operation that was let through can be carried out or refused, not found
\* malformed; replace is remove and add; a move can be undone; what was placed
\* is found.
OperationLaws == ShapeSuffices /\ ReplaceIsRemoveThenAdd /\ MoveInverts /\ PlacedIsFound
=============================================================================
