----------------------------- MODULE OrderedMap -----------------------------
(***************************************************************************)
(* What Object promises (object.hpp): maps from keys to values that keep   *)
(* insertion order, found by a linear sweep for the first entry of a key.  *)
(* No index, and every call is one step.  ret is the result of the last    *)
(* call: a code and, for a lookup, the position of the entry (0 when there *)
(* is none).                                                               *)
(***************************************************************************)
EXTENDS Integers, FiniteSets, SequencesExt

CONSTANTS Objs, Keys, Scalars, Null, Leaves

VARIABLES data, ret
vars == <<data, ret>>

\* A value: a scalar, or a nested object, a function from its members (Leaves)
\* to scalars.  A deeper object would follow the rules of this one again.
Scalar(x) == [kind |-> "scalar", of |-> x]
Nested(f) == [kind |-> "object", of |-> f]
Members   == UNION {[ls -> Scalars] : ls \in SUBSET Leaves}
Values    == {Scalar(x) : x \in Scalars} \union {Nested(f) : f \in Members}
Entry(k, v) == [key |-> k, val |-> v]

\* The position of the first entry of key k, 0 when there is none.
FirstAt(d, k) ==
  LET hits == {i \in 1..Len(d) : d[i].key = k}
  IN  IF hits = {} THEN 0 ELSE Min(hits)

\* The members ls of w merged into those of v.
WithMembers(v, w, ls) ==
  [l \in DOMAIN v.of \union ls |-> IF l \in ls THEN w.of[l] ELSE v.of[l]]

\* merge's rule for one value: two objects merge, anything else is replaced.
BothNested(v, w) == v.kind = "object" /\ w.kind = "object"
MergedValue(v, w) == IF BothNested(v, w) THEN Nested(WithMembers(v, w, DOMAIN w.of)) ELSE w

\* What v may be when merging w into it threw: two objects have merged some of
\* the members (in w's order, which is left out), a replaced value is unharmed.
Partly(v, w) ==
  IF BothNested(v, w) THEN {Nested(WithMembers(v, w, ls)) : ls \in SUBSET DOMAIN w.of} ELSE {v}

\* d with the value of k replaced by new(old value), or with k appended.
Put(d, k, new(_), fresh) ==
  IF FirstAt(d, k) = 0 THEN Append(d, Entry(k, fresh))
  ELSE [d EXCEPT ![FirstAt(d, k)].val = new(@)]
Insert(d, k, v) == Put(d, k, LAMBDA x : v, v)
MergeAll(d, e) ==
  FoldLeft(LAMBDA acc, kv : Put(acc, kv.key, LAMBDA x : MergedValue(x, kv.val), kv.val), d, e)

\* Every entry of d has an equal one in e.
Match(d, e) == /\ Len(d) = Len(e)
               /\ \A i \in 1..Len(d) : /\ FirstAt(e, d[i].key) # 0
                                       /\ e[FirstAt(e, d[i].key)].val = d[i].val
Distinct(d) == \A i, j \in 1..Len(d) : d[i].key = d[j].key => i = j

None     == <<"none", 0>>
Ok       == <<"ok", 0>>
Moved    == <<"moved", 0>>
Cloned   == <<"cloned", 0>>
Thrown   == <<"bad_alloc", 0>>
Found(i) == <<"found", i>>
Truth(b) == <<IF b THEN "true" ELSE "false", 0>>

Set(o, d) == data' = [data EXCEPT ![o] = d]

Init == data = [o \in Objs |-> <<>>] /\ ret = Ok

\* The next call begins.
Begin == ret' = None /\ UNCHANGED data

Lookup(o, k) == ret' = Found(FirstAt(data[o], k)) /\ UNCHANGED data

\* A hit cannot throw; a miss can, before or after the entry is appended.
InsertKey(o, k, v) ==
  \/ ret' = Ok /\ Set(o, Insert(data[o], k, v))
  \/ /\ ret' = Thrown /\ FirstAt(data[o], k) = 0
     /\ Set(o, Insert(data[o], k, v)) \/ UNCHANGED data

Subscript(o, k) ==
  \/ FirstAt(data[o], k) # 0 /\ Lookup(o, k)
  \/ /\ FirstAt(data[o], k) = 0
     /\ \/ ret' \in {Found(Len(data[o]) + 1), Thrown} /\ Set(o, Append(data[o], Entry(k, Scalar(Null))))
        \/ ret' = Thrown /\ UNCHANGED data

Erase(o, k) ==
  \/ ret' = Truth(FALSE) /\ FirstAt(data[o], k) = 0 /\ UNCHANGED data
  \/ /\ ret' = Truth(TRUE) /\ FirstAt(data[o], k) # 0
     /\ Set(o, RemoveAt(data[o], FirstAt(data[o], k)))

\* d with the value of the entry for kv merged with kv's in part.
Interrupted(d, kv) ==
  {[d EXCEPT ![FirstAt(d, kv.key)].val = x] : x \in Partly(d[FirstAt(d, kv.key)].val, kv.val)}

\* What d may be when merging e into it threw after n entries: the next one may
\* be a nested object, merged in part.
MergedInPart(d, e, n) ==
  LET merged == MergeAll(d, SubSeq(e, 1, n))
  IN  {merged} \union IF n < Len(e) /\ FirstAt(merged, e[n + 1].key) # 0
                      THEN Interrupted(merged, e[n + 1]) ELSE {}

Merge(o, p) ==
  \/ ret' = Ok /\ Set(o, MergeAll(data[o], data[p]))
  \/ o = p /\ UNCHANGED data /\ ret' = Ok
  \/ /\ ret' = Thrown
     /\ \E n \in 0..Len(data[p]) : \E d \in MergedInPart(data[o], data[p], n) : Set(o, d)

\* operator== compares the maps.  When a key occurs twice (only in entries the
\* caller handed over) the result depends on which object is iterated.
Equal(o, p) ==
  /\ ret' \in {Truth(Match(data[o], data[p])), Truth(Match(data[p], data[o])), Thrown}
  /\ Distinct(data[o]) /\ Distinct(data[p])
       => ret' \in {Truth(ToSet(data[o]) = ToSet(data[p])), Thrown}
  /\ UNCHANGED data

\* A move leaves the source empty.
Move(o, p) == ret' = Moved /\ data' = [data EXCEPT ![o] = data[p], ![p] = <<>>]
Clone(o, p) == \/ ret' = Cloned /\ Set(o, data[p])
               \/ ret' = Thrown /\ UNCHANGED data
Clear(o) == ret' = Ok /\ Set(o, <<>>)

\* Entries handed over by the caller, at construction or through data().
Given(o) == /\ ret' = <<"given", 0>>
            /\ \A p \in Objs \ {o} : data'[p] = data[p]

Next == \E o \in Objs :
          \/ \E k \in Keys : \/ Lookup(o, k) \/ Subscript(o, k) \/ Erase(o, k)
                             \/ \E v \in Values : InsertKey(o, k, v)
          \/ \E p \in Objs : Equal(o, p) \/ Merge(o, p) \/ (o # p /\ (Move(o, p) \/ Clone(o, p)))
          \/ Clear(o) \/ Given(o) \/ Begin

Spec == Init /\ [][Next]_vars
=============================================================================
