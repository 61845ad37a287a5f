----------------------------- MODULE MergePatch -----------------------------
(***************************************************************************)
(* merge_patch (patch.cpp): an RFC 7386 merge in place, its recursion as a *)
(* stack of frames, one member per step.  Any step that allocates may      *)
(* throw std::bad_alloc, which leaves a partial merge; the caller may then *)
(* call merge_patch again with the same patch.                             *)
(***************************************************************************)
EXTENDS JsonTree

CONSTANTS Targets,    \* documents merged into
          Merges,     \* merge patches
          MaxCalls    \* bound on the calls of the caller

VARIABLES target,   \* the document
          was,      \* the document before the first call
          patch,
          stack,    \* frames of merge_patch_impl: [place, patch, k]
          call,     \* <<>>, or the call about to be entered: <<place, patch>>
          calls, pc
vars == <<target, was, patch, stack, call, calls, pc>>

Init ==
  /\ target \in Targets /\ was = target
  /\ patch \in Merges
  /\ stack = <<>> /\ call = <<<<>>, patch>> /\ calls = 1 /\ pc = "running"

Top   == Last(stack)
Entry == Top.patch.items[Top.k]
Here  == NodeAt(target, Top.place)
Advance == Append(Front(stack), [Top EXCEPT !.k = @ + 1])

\* A call with a patch that is no object replaces the node wholesale.
ReplaceWhole ==
  /\ pc = "running" /\ call # <<>> /\ ~IsObject(call[2])
  /\ target' = WithNode(target, call[1], CloneNode(call[2]))
  /\ call' = <<>>
  /\ UNCHANGED <<was, patch, stack, calls, pc>>

\* Slip (UnnamedUntouched): the node is emptied whatever it was.
Emptied(v) == ObjectNode(<<>>)

\* An object patch: a node that is no object becomes an empty one.
Coerced(v) == IF IsObject(v) THEN v ELSE ObjectNode(<<>>)
EnterObject ==
  /\ pc = "running" /\ call # <<>> /\ IsObject(call[2])
  /\ target' = WithNode(target, call[1], Coerced(NodeAt(target, call[1])))
  /\ stack' = Append(stack, [place |-> call[1], patch |-> call[2], k |-> 1])
  /\ call' = <<>>
  /\ UNCHANGED <<was, patch, calls, pc>>

AtMember == pc = "running" /\ call = <<>> /\ stack # <<>> /\ Top.k <= Len(Top.patch.items)

\* A null member deletes.
DeleteMember ==
  /\ AtMember /\ Entry.val.type = "Null"
  /\ target' = WithNode(target, Top.place, RemoveKey(Here, Entry.key))
  /\ stack' = Advance
  /\ UNCHANGED <<was, patch, call, calls, pc>>

\* Slip (MergedAsRfc): a missing member takes the patch's value as it is.
MergeMemberAsIs ==
  /\ AtMember /\ Entry.val.type # "Null"
  /\ IF HasKey(Here, Entry.key)
     THEN /\ call' = <<Append(Top.place, FindSlot(Here, Entry.key)), Entry.val>>
          /\ target' = target
     ELSE /\ target' = WithNode(target, Top.place, InsertKey(Here, Entry.key, Entry.val))
          /\ call' = call
  /\ stack' = Advance
  /\ UNCHANGED <<was, patch, calls, pc>>

\* Slip (NothingBorrowed): a created member's key is the patch's text.
WithMemberBorrows(v, e) == IF HasKey(v, e.key) THEN v ELSE InsertBorrowed(v, e.key, NullNode)

\* Any other member is created as null when missing, then merged into.
WithMember(v, e) == IF HasKey(v, e.key) THEN v ELSE InsertKey(v, e.key, NullNode)
MergeMember ==
  /\ AtMember /\ Entry.val.type # "Null"
  /\ LET new == WithMember(Here, Entry)
     IN  /\ target' = WithNode(target, Top.place, new)
         /\ call' = <<Append(Top.place, FindSlot(new, Entry.key)), Entry.val>>
  /\ stack' = Advance
  /\ UNCHANGED <<was, patch, calls, pc>>

Leave ==
  /\ pc = "running" /\ call = <<>> /\ stack # <<>> /\ Top.k > Len(Top.patch.items)
  /\ stack' = Front(stack)
  /\ UNCHANGED <<target, was, patch, call, calls, pc>>

Return ==
  /\ pc = "running" /\ call = <<>> /\ stack = <<>>
  /\ pc' = "done"
  /\ UNCHANGED <<target, was, patch, stack, call, calls>>

\* bad_alloc from the clone, the empty object or the new member unwinds all
\* frames; the step that threw has changed nothing.
OutOfMemory ==
  /\ pc = "running"
  /\ \/ call # <<>>
     \/ AtMember /\ Entry.val.type # "Null" /\ ~HasKey(Here, Entry.key)
  /\ pc' = "failed" /\ stack' = <<>> /\ call' = <<>>
  /\ UNCHANGED <<target, was, patch, calls>>

CallAgain ==
  /\ pc = "failed" /\ calls < MaxCalls
  /\ pc' = "running" /\ calls' = calls + 1 /\ call' = <<<<>>, patch>>
  /\ UNCHANGED <<target, was, patch, stack>>

Done == (pc = "done" \/ (pc = "failed" /\ calls = MaxCalls)) /\ UNCHANGED vars

Next == ReplaceWhole \/ EnterObject \/ DeleteMember \/ MergeMember \/ Leave \/ Return
          \/ OutOfMemory \/ CallAgain \/ Done
Spec == Init /\ [][Next]_vars

(***************************************************************************)
(* Properties.                                                             *)
(***************************************************************************)
Keys(v) == IF IsObject(v) THEN {v.items[i].key : i \in 1..Len(v.items)} ELSE {}

\* RFC 7386 as a function of the keys: a member of the result is one the
\* patch does not name, or one it names with a value other than null.
RECURSIVE Merged(_, _)
MergedMember(t, p, k) ==
  Keyed(k, "owned",
        IF k \notin Keys(p) THEN AtKey(t, k)
        ELSE Merged(IF k \in Keys(t) THEN AtKey(t, k) ELSE NullNode, AtKey(p, k)))
MergedObject(t, p, keys) == ObjectNode([i \in 1..Len(keys) |-> MergedMember(t, p, keys[i])])
Merged(t, p) ==
  IF ~IsObject(p) THEN p
  ELSE MergedObject(t, p, SetToSeq({k \in Keys(t) \union Keys(p) :
                                      k \in Keys(p) => AtKey(p, k).type # "Null"}))

\* A merge that returns has the RFC's result, also when an earlier attempt
\* ran out of memory half-way and the call was simply repeated.
MergedAsRfc == pc = "done" => Equal(target, Merged(was, patch))

\* What the patch does not name is never touched, not even in the middle of a
\* merge that fails: same members, same values, same order.
Unnamed(v) == SelectSeq(v.items, LAMBDA e : e.key \notin Keys(patch))
UnnamedUntouched == IsObject(patch) /\ IsObject(was) => Unnamed(target) = Unnamed(was)

\* Nothing of the patch is borrowed, not even half-way through (patch.cpp: "New
\* keys are owned into res, so the patch may die afterwards").
Borrowing(v) == \E u \in Subtree(v) : IsView(u)
NothingBorrowed == Borrowing(target) => Borrowing(was)

\* However often merge_patch runs out of memory half-way and is called again,
\* it comes to the RFC's result, leaves the rest of the document alone and does
\* not depend on the patch afterwards.
MergeConverges == MergedAsRfc /\ UnnamedUntouched /\ NothingBorrowed
=============================================================================
