------------------------------ MODULE JsonOrder ------------------------------
(***************************************************************************)
(* Json::operator<, std::hash<Json> and Json::operator== (json.cpp) at     *)
(* work: values inserted into an ordered set, which asks only operator<,   *)
(* and into a hash set, which asks the hash and operator==.  The two agree *)
(* only if the three definitions do.                                       *)
(***************************************************************************)
EXTENDS JsonTree, Bitwise

CONSTANTS Values,    \* values inserted
          MaxInserts \* bound on the number of insertions

(***************************************************************************)
(* operator<.                                                              *)
(***************************************************************************)
Rank == [Null |-> 0, Boolean |-> 1, Integer |-> 2, Floating |-> 3, StringView |-> 4,
         StringOwned |-> 4, Array |-> 5, Object |-> 6]

\* Slip (SortedThroughout): the raw comparison, false whenever NaN takes part.
RawFloatLess(a, b) == a # NaN /\ b # NaN /\ a.num < b.num

FloatLess(a, b) == a # NaN /\ (b = NaN \/ a.num < b.num)

\* Byte order on text.
Code == [c \in {"a", "b"} |-> IF c = "a" THEN 97 ELSE 98]
TextLess(s, t) ==
  \/ \E i \in 1..Len(s) : /\ i <= Len(t)
                          /\ Code[s[i]] < Code[t[i]]
                          /\ SubSeq(s, 1, i - 1) = SubSeq(t, 1, i - 1)
  \/ Len(s) < Len(t) /\ IsPrefix(s, t)

\* The loop of array_less and object_less: the first position at which the
\* entries differ decides (a key before a value), else the length.
RECURSIVE Less(_, _), LessFrom(_, _, _)
LessFrom(xs, ys, i) ==
  IF i > Len(xs) \/ i > Len(ys) THEN Len(xs) < Len(ys)
  ELSE IF xs[i].key # ys[i].key THEN TextLess(xs[i].key, ys[i].key)
  ELSE IF Less(xs[i].val, ys[i].val) THEN TRUE
  ELSE IF Less(ys[i].val, xs[i].val) THEN FALSE
  ELSE LessFrom(xs, ys, i + 1)

ArrayLess(a, b) == LessFrom(a.items, b.items, 1)

\* Slip (MembersAgree): the entries are compared in insertion order.
UnsortedLess(a, b) == LessFrom(a.items, b.items, 1)

\* object_less on the entries sorted by key.
ByKey(es) == SortSeq(es, LAMBDA x, y : TextLess(x.key, y.key))
ObjectLess(a, b) == LessFrom(ByKey(a.items), ByKey(b.items), 1)

Less(a, b) ==
  IF Rank[a.type] # Rank[b.type] THEN Rank[a.type] < Rank[b.type]
  ELSE CASE a.type = "Floating" -> FloatLess(a, b)
         [] IsString(a)         -> TextLess(a.text, b.text)
         [] a.type = "Array"    -> ArrayLess(a, b)
         [] a.type = "Object"   -> ObjectLess(a, b)
         [] OTHER               -> a.num < b.num

(***************************************************************************)
(* hash64, at 8 bits instead of 64.                                        *)
(***************************************************************************)
Word == 256
Splitmix(x) == ((x + 61) * 177 + 29) % Word
Fnv1a(t)    == FoldLeft(LAMBDA h, c : ((h ^^ Code[c]) * 179) % Word, 37, t)

\* The bit pattern of a double: -0.0 has the sign bit, NaN a pattern that no
\* number has.
Bits(v) == IF v = NaN THEN 255 ELSE IF v = NegZero THEN 128 ELSE v.num % 128

\* Slip (MembersAgree): -0.0 keeps its sign bit.
RawFloatBits(v) == Bits(v)

FloatBits(v) == IF Bits(v) = 128 THEN 0 ELSE Bits(v)

\* Arrays fold in order, objects add up their entries.
RECURSIVE Hash64(_)
HashArray(v) == FoldLeft(LAMBDA h, e : Splitmix(h ^^ Hash64(e.val)), Splitmix(5), v.items)
HashEntry(e) == Splitmix(Fnv1a(e.key) ^^ ((Hash64(e.val) + 21) % Word))
HashObject(v) == FoldLeft(LAMBDA h, e : (h + HashEntry(e)) % Word, Splitmix(6), v.items)
Hash64(v) ==
  CASE v.type = "Floating" -> Splitmix(3) ^^ FloatBits(v)
    [] IsString(v)         -> Splitmix(4) ^^ Fnv1a(v.text)
    [] v.type = "Array"    -> HashArray(v)
    [] v.type = "Object"   -> HashObject(v)
    [] OTHER               -> Splitmix(Rank[v.type]) ^^ v.num

(***************************************************************************)
(* The two containers.                                                     *)
(***************************************************************************)
VARIABLES sorted,   \* the ordered set, in order
          hashed,   \* the hash set: sequence of values
          inserts
vars == <<sorted, hashed, inserts>>

Init == sorted = <<>> /\ hashed = <<>> /\ inserts = 0

\* lower_bound by bisection between lo and hi: the comparisons std::set makes.
RECURSIVE LowerBound(_, _, _), Bisect(_, _, _, _)
Bisect(v, lo, hi, mid) ==
  IF Less(sorted[mid], v) THEN LowerBound(v, mid + 1, hi) ELSE LowerBound(v, lo, mid)
LowerBound(v, lo, hi) == IF lo = hi THEN lo ELSE Bisect(v, lo, hi, (lo + hi) \div 2)

SetInsert(v, at) ==
  sorted' = IF at <= Len(sorted) /\ ~Less(v, sorted[at]) THEN sorted
            ELSE InsertAt(sorted, at, v)
HashInsert(v, h) ==
  hashed' = IF \E i \in 1..Len(hashed) : Hash64(hashed[i]) = h /\ Equal(hashed[i], v)
            THEN hashed ELSE Append(hashed, v)

Insert(v) ==
  /\ inserts < MaxInserts /\ inserts' = inserts + 1
  /\ SetInsert(v, LowerBound(v, 1, Len(sorted) + 1))
  /\ HashInsert(v, Hash64(v))

Done == inserts = MaxInserts /\ UNCHANGED vars

Next == (\E v \in Values : Insert(v)) \/ Done
Spec == Init /\ [][Next]_vars

(***************************************************************************)
(* Properties.                                                             *)
(***************************************************************************)
\* Whatever was inserted, in whatever order, NaN included, the ordered set is
\* strictly increasing between any two of its members: operator< is a strict
\* weak order on the values it has met (json.cpp 52: "raw double comparison
\* with NaN in play is not a strict weak ordering").
SortedThroughout ==
  \A i, j \in 1..Len(sorted) :
    i < j => Less(sorted[i], sorted[j]) /\ ~Less(sorted[j], sorted[i])

\* Apart from NaN, the two sets have the same members: "a == b <=> !(a<b) &&
\* !(b<a)" (json.cpp 638) and equal values hash alike, whatever the storage of
\* a string, the order of members or the sign of a zero.
HasNaN(v) == NaN \in Subtree(v)
MembersAgree ==
  /\ \A i \in 1..Len(hashed) : HasNaN(hashed[i]) \/ \E j \in 1..Len(sorted) : Equal(sorted[j], hashed[i])
  /\ Cardinality({i \in 1..Len(hashed) : ~HasNaN(hashed[i])}) =
     Cardinality({i \in 1..Len(sorted) : ~HasNaN(sorted[i])})

\* operator<, operator== and the hash have one notion of the same value.
ComparisonsAgree == SortedThroughout /\ MembersAgree
=============================================================================
