------------------------- MODULE ObjectIndexProofs -------------------------
(***************************************************************************)
(* Proofs about ObjectIndex: for any keys, any hash function, any number   *)
(* of objects and any caller that does not go on using a reference from    *)
(* data(), the index finds the first entry of every key (LookupFindsFirst) *)
(* and stays half empty, fresh where it must be, and owned once            *)
(* (ObjectInv); and Object implements OrderedMap: every call that returns  *)
(* or throws is one step of the ordered map, and the steps inside a call   *)
(* are none (KeepsPromise).                                                *)
(***************************************************************************)
EXTENDS ObjectIndex, Induction

(***************************************************************************)
(* The linear sweep.                                                       *)
(***************************************************************************)
LEMMA FirstAtFacts ==
  ASSUME NEW d \in Seq(Entries), NEW k
  PROVE  /\ Promise!FirstAt(d, k) \in 0..Len(d)
         /\ Promise!FirstAt(d, k) = 0 => \A i \in 1..Len(d) : d[i].key # k
         /\ Promise!FirstAt(d, k) # 0 =>
              /\ d[Promise!FirstAt(d, k)].key = k
              /\ \A i \in 1..Len(d) : d[i].key = k => Promise!FirstAt(d, k) <= i
<1> DEFINE hits == {i \in 1..Len(d) : d[i].key = k}
<1>0. Len(d) \in Nat /\ hits \subseteq Nat
  OBVIOUS
<1>1. CASE hits = {}
  <2>1. Promise!FirstAt(d, k) = 0
    BY <1>1 DEF Promise!FirstAt
  <2> QED BY <1>0, <1>1, <2>1
<1>2. CASE hits # {}
  <2>1. Promise!FirstAt(d, k) = Min(hits)
    BY <1>2 DEF Promise!FirstAt, Promise!Min, Min
  <2>2. Min(hits) \in hits /\ \A m \in hits : Min(hits) <= m
    <3> HIDE DEF hits
    <3> QED BY <1>0, <1>2, MinIsLeast
  <2> QED BY <2>1, <2>2
<1> QED BY <1>1, <1>2

LEMMA EntryKeys ==
  ASSUME NEW d \in Seq(Entries)
  PROVE  \A i \in 1..Len(d) : d[i] \in Entries /\ d[i].key \in Keys /\ d[i].val \in Promise!Values
<1>1. \A i \in 1..Len(d) : d[i] \in Entries
  OBVIOUS
<1>2. \A e \in Entries : e.key \in Keys /\ e.val \in Promise!Values
  BY DEF Entries
<1> QED BY <1>1, <1>2

\* The sweep's result is the first position of the key, and the only one.
LEMMA FirstAtIs ==
  ASSUME NEW d \in Seq(Entries), NEW i \in 1..Len(d), \A h \in 1..(i - 1) : d[h].key # d[i].key
  PROVE  Promise!FirstAt(d, d[i].key) = i
<1> DEFINE f == Promise!FirstAt(d, d[i].key)
<1>1. f \in 0..Len(d) /\ (f = 0 => \A j \in 1..Len(d) : d[j].key # d[i].key)
      /\ (f # 0 => d[f].key = d[i].key /\ f <= i)
  BY FirstAtFacts
<1> HIDE DEF f
<1> QED BY <1>1 DEF f

LEMMA FirstAtNone ==
  ASSUME NEW d \in Seq(Entries), NEW k, \A i \in 1..Len(d) : d[i].key # k
  PROVE  Promise!FirstAt(d, k) = 0
<1> DEFINE f == Promise!FirstAt(d, k)
<1>1. f \in 0..Len(d) /\ (f # 0 => d[f].key = k)
  BY FirstAtFacts
<1> HIDE DEF f
<1> QED BY <1>1 DEF f

(***************************************************************************)
(* The table: what it means that it knows the first n entries of d.        *)
(***************************************************************************)
Tables  == UNION {[0..(c - 1) -> Nat] : c \in Nat}
Indexes == {x \in [cap : Nat, size : Nat, stale : BOOLEAN, slots : Tables] :
              x.slots \in [0..(x.cap - 1) -> Nat] /\ (x.cap = 0 => ~x.stale /\ x.size = 0)}

\* Position i is where the probe for k ends: every slot before is taken by
\* another key.
Finds(x, d, k, i) ==
  \E j \in 0..(x.cap - 1) :
    /\ x.slots[SlotOf(x, k, j)] = i
    /\ \A h \in 0..(j - 1) : x.slots[SlotOf(x, k, h)] # 0 /\ d[x.slots[SlotOf(x, k, h)]].key # k
First(d, i) == \A h \in 1..(i - 1) : d[h].key # d[i].key
KeysOf(d, n) == {d[i].key : i \in 1..n}

Covers(x, d, n) ==
  /\ \A j \in 0..(x.cap - 1) : x.slots[j] <= n
  /\ \A i \in 1..n : First(d, i) => Finds(x, d, d[i].key, i)
Filled(x) == x.size = Cardinality(Occupied(x)) /\ 2 * x.size <= x.cap
Bounded(x, d) == 2 * Cardinality(KeysOf(d, Len(d))) <= x.cap
Fresh(x, d, n) == ~x.stale /\ Covers(x, d, n) /\ x.size = Cardinality(KeysOf(d, n))

LEMMA SlotOfType ==
  ASSUME NEW x \in Indexes, x.cap > 0, NEW k \in Keys, NEW j \in Nat
  PROVE  SlotOf(x, k, j) \in 0..(x.cap - 1) /\ x.slots[SlotOf(x, k, j)] \in Nat
<1>1. x.cap \in Nat /\ Hash[k] \in Nat /\ x.slots \in [0..(x.cap - 1) -> Nat]
  BY IndexAssumption DEF Indexes
<1>2. (Hash[k] + j) % x.cap \in 0..(x.cap - 1)
  BY <1>1
<1> QED BY <1>1, <1>2 DEF SlotOf

\* Where a probe that ends ends.
LEMMA ProbeEnds ==
  ASSUME NEW x \in Indexes, x.cap > 0, NEW d, NEW k \in Keys, Stops(x, d, k) # {}
  PROVE  \E j \in 0..(x.cap - 1) :
           /\ ProbeSlot(x, d, k) = SlotOf(x, k, j)
           /\ x.slots[SlotOf(x, k, j)] = 0 \/ d[x.slots[SlotOf(x, k, j)]].key = k
           /\ \A h \in 0..(j - 1) : x.slots[SlotOf(x, k, h)] # 0 /\ d[x.slots[SlotOf(x, k, h)]].key # k
<1> DEFINE S == Stops(x, d, k)
           j == Min(S)
<1>1. \A h : h \in S <=> h \in 0..(x.cap - 1) /\ (x.slots[SlotOf(x, k, h)] = 0 \/ d[x.slots[SlotOf(x, k, h)]].key = k)
  BY DEF Stops
<1>2. S \subseteq Nat /\ x.cap \in Nat
  BY <1>1 DEF Indexes
<1>3. j \in S /\ \A m \in S : j <= m
  <2> HIDE DEF S
  <2> QED BY <1>2, MinIsLeast DEF S
<1>4. ProbeSlot(x, d, k) = SlotOf(x, k, j)
  BY DEF ProbeSlot
<1> HIDE DEF S, j
<1>4a. j \in 0..(x.cap - 1)
  BY <1>1, <1>3
<1>5. \A h \in 0..(j - 1) : h \in 0..(x.cap - 1) /\ h \notin S
  BY <1>1, <1>2, <1>3
<1> QED BY <1>1, <1>3, <1>4, <1>4a, <1>5

\* A probe for a key the table finds ends there.
LEMMA ProbeFinds ==
  ASSUME NEW x \in Indexes, x.cap > 0, NEW d, NEW k \in Keys, Stops(x, d, k) # {},
         NEW i, i # 0, d[i].key = k, Finds(x, d, k, i)
  PROVE  x.slots[ProbeSlot(x, d, k)] = i
<1>1. PICK j \in 0..(x.cap - 1) :
        /\ ProbeSlot(x, d, k) = SlotOf(x, k, j)
        /\ x.slots[SlotOf(x, k, j)] = 0 \/ d[x.slots[SlotOf(x, k, j)]].key = k
        /\ \A h \in 0..(j - 1) : x.slots[SlotOf(x, k, h)] # 0 /\ d[x.slots[SlotOf(x, k, h)]].key # k
  BY ProbeEnds
<1>2. PICK m \in 0..(x.cap - 1) :
        /\ x.slots[SlotOf(x, k, m)] = i
        /\ \A h \in 0..(m - 1) : x.slots[SlotOf(x, k, h)] # 0 /\ d[x.slots[SlotOf(x, k, h)]].key # k
  BY DEF Finds
<1>3. x.cap \in Nat
  BY DEF Indexes
<1>4. ~(j < m)
  BY <1>1, <1>2, <1>3
<1>5. ~(m < j)
  BY <1>1, <1>2, <1>3
<1>6. j = m
  BY <1>3, <1>4, <1>5
<1> QED BY <1>1, <1>2, <1>6

\* The probe of a table that knows every entry is the linear sweep.
LEMMA FreshLookup ==
  ASSUME NEW x \in Indexes, x.cap > 0, NEW d \in Seq(Entries), Fresh(x, d, Len(d)),
         NEW k \in Keys, Stops(x, d, k) # {}
  PROVE  x.slots[ProbeSlot(x, d, k)] = Promise!FirstAt(d, k)
<1> DEFINE f == Promise!FirstAt(d, k)
<1>1. /\ f \in 0..Len(d)
      /\ f = 0 => \A i \in 1..Len(d) : d[i].key # k
      /\ f # 0 => d[f].key = k /\ \A i \in 1..Len(d) : d[i].key = k => f <= i
  BY FirstAtFacts
<1> HIDE DEF f
<1>2. Len(d) \in Nat
  OBVIOUS
<1>3. CASE f # 0
  <2>1. f \in 1..Len(d) /\ d[f].key = k
    BY <1>1, <1>2, <1>3
  <2>2. First(d, f)
    <3>1. \A h \in 1..(f - 1) : h \in 1..Len(d) /\ ~(f <= h)
      BY <1>2, <2>1
    <3> QED BY <1>1, <1>3, <2>1, <3>1 DEF First
  <2>3. Finds(x, d, k, f)
    BY <2>1, <2>2 DEF Fresh, Covers
  <2> QED BY <1>3, <2>1, <2>3, ProbeFinds DEF f
<1>4. CASE f = 0
  <2>1. PICK j \in 0..(x.cap - 1) :
          /\ ProbeSlot(x, d, k) = SlotOf(x, k, j)
          /\ x.slots[SlotOf(x, k, j)] = 0 \/ d[x.slots[SlotOf(x, k, j)]].key = k
    BY ProbeEnds
  <2> DEFINE s == x.slots[SlotOf(x, k, j)]
  <2>2. SlotOf(x, k, j) \in 0..(x.cap - 1) /\ s \in Nat
    BY SlotOfType
  <2>3. s <= Len(d)
    BY <2>2 DEF Fresh, Covers
  <2> HIDE DEF s
  <2>4. s = 0
    BY <1>1, <1>2, <1>4, <2>1, <2>2, <2>3 DEF s
  <2> QED BY <1>4, <2>1, <2>4 DEF f, s
<1> QED BY <1>3, <1>4

LEMMA KeysOfFacts ==
  ASSUME NEW d, NEW n \in Nat
  PROVE  /\ IsFiniteSet(KeysOf(d, n)) /\ Cardinality(KeysOf(d, n)) \in Nat
         /\ Cardinality(KeysOf(d, n)) <= n
         /\ Cardinality(KeysOf(d, n + 1)) =
              Cardinality(KeysOf(d, n)) + (IF d[n + 1].key \in KeysOf(d, n) THEN 0 ELSE 1)
<1> DEFINE f == [i \in 1..n |-> d[i].key]
<1>1. f \in Surjection(1..n, KeysOf(d, n))
  BY DEF Surjection, KeysOf
<1>2. IsFiniteSet(1..n) /\ Cardinality(1..n) = n
  BY FS_Interval
<1> HIDE DEF f
<1>3. IsFiniteSet(KeysOf(d, n)) /\ Cardinality(KeysOf(d, n)) <= n
  BY <1>1, <1>2, FS_Surjection
<1>4. Cardinality(KeysOf(d, n)) \in Nat
  BY <1>3, FS_CardinalityType
<1>5. KeysOf(d, n + 1) = KeysOf(d, n) \cup {d[n + 1].key}
  <2>1. 1..(n + 1) = (1..n) \cup {n + 1}
    OBVIOUS
  <2> QED BY <2>1 DEF KeysOf
<1>6. Cardinality(KeysOf(d, n) \cup {d[n + 1].key}) =
        IF d[n + 1].key \in KeysOf(d, n) THEN Cardinality(KeysOf(d, n)) ELSE Cardinality(KeysOf(d, n)) + 1
  BY <1>3, FS_AddElement
<1> QED BY <1>3, <1>4, <1>5, <1>6

\* Fewer entries, fewer keys.
LEMMA FewerKeys ==
  ASSUME NEW d, NEW e, NEW n \in Nat, NEW m \in Nat,
         \A i \in 1..n : \E j \in 1..m : d[i].key = e[j].key
  PROVE  Cardinality(KeysOf(d, n)) <= Cardinality(KeysOf(e, m))
<1>1. KeysOf(d, n) \subseteq KeysOf(e, m)
  BY DEF KeysOf
<1>2. IsFiniteSet(KeysOf(e, m))
  BY KeysOfFacts
<1> QED BY <1>1, <1>2, FS_Subset

\* x with position i in a free slot.
Takes(x, y, slot, i) ==
  /\ y \in Indexes /\ y.cap = x.cap /\ y.size = x.size + 1 /\ y.stale = x.stale
  /\ y.slots[slot] = i /\ \A j \in 0..(x.cap - 1) : j # slot => y.slots[j] = x.slots[j]
  /\ Occupied(y) = Occupied(x) \cup {slot}

LEMMA TakeSlot ==
  ASSUME NEW x \in Indexes, x.cap > 0, NEW slot \in 0..(x.cap - 1), NEW i \in Nat \ {0},
         NEW y, y = [x EXCEPT !.slots[slot] = i, !.size = @ + 1]
  PROVE  Takes(x, y, slot, i)
<1> DEFINE t == [x.slots EXCEPT ![slot] = i]
<1>1. /\ x \in [cap : Nat, size : Nat, stale : BOOLEAN, slots : Tables]
      /\ x.slots \in [0..(x.cap - 1) -> Nat] /\ x.cap \in Nat /\ x.size \in Nat
  BY DEF Indexes
<1>2. t \in [0..(x.cap - 1) -> Nat] /\ t[slot] = i /\ \A j \in 0..(x.cap - 1) : j # slot => t[j] = x.slots[j]
  BY <1>1
<1>3. t \in Tables
  BY <1>1, <1>2 DEF Tables
<1>4. y = [x EXCEPT !.slots = t, !.size = x.size + 1]
  BY <1>1
<1> HIDE DEF t
<1>5. /\ y \in [cap : Nat, size : Nat, stale : BOOLEAN, slots : Tables]
      /\ y.cap = x.cap /\ y.size = x.size + 1 /\ y.stale = x.stale /\ y.slots = t
  <2>1. x.size + 1 \in Nat
    BY <1>1
  <2> QED BY <1>1, <1>3, <1>4, <2>1
<1>6. y \in Indexes
  <2>1. ~(y.cap = 0)
    BY <1>1, <1>5
  <2> QED BY <1>2, <1>5, <2>1 DEF Indexes
<1>7. Occupied(y) = Occupied(x) \cup {slot}
  BY <1>2, <1>5 DEF Occupied
<1> QED BY <1>2, <1>5, <1>6, <1>7 DEF Takes

\* A search that ended at a taken slot ends there as long as taken slots stay.
LEMMA FindsStays ==
  ASSUME NEW x \in Indexes, x.cap > 0, NEW y, NEW d, NEW k \in Keys, NEW i, i # 0, Finds(x, d, k, i),
         NEW slot, x.slots[slot] = 0, y.cap = x.cap,
         \A j \in 0..(x.cap - 1) : j # slot => y.slots[j] = x.slots[j]
  PROVE  Finds(y, d, k, i)
<1>1. PICK j \in 0..(x.cap - 1) :
        /\ x.slots[SlotOf(x, k, j)] = i
        /\ \A h \in 0..(j - 1) : x.slots[SlotOf(x, k, h)] # 0 /\ d[x.slots[SlotOf(x, k, h)]].key # k
  BY DEF Finds
<1>2. \A h \in 0..j : /\ SlotOf(y, k, h) = SlotOf(x, k, h) /\ SlotOf(x, k, h) \in 0..(x.cap - 1)
                      /\ x.slots[SlotOf(x, k, h)] # 0
  <2> SUFFICES ASSUME NEW h \in 0..j
               PROVE  /\ SlotOf(y, k, h) = SlotOf(x, k, h) /\ SlotOf(x, k, h) \in 0..(x.cap - 1)
                      /\ x.slots[SlotOf(x, k, h)] # 0
    OBVIOUS
  <2>0. h \in Nat /\ (h = j \/ h \in 0..(j - 1))
    OBVIOUS
  <2>1. SlotOf(x, k, h) \in 0..(x.cap - 1)
    BY <2>0, SlotOfType
  <2>2. SlotOf(y, k, h) = SlotOf(x, k, h)
    BY DEF SlotOf
  <2> QED BY <1>1, <2>0, <2>1, <2>2
<1>3. \A h \in 0..j : y.slots[SlotOf(y, k, h)] = x.slots[SlotOf(x, k, h)]
  BY <1>2
<1>4. j \in 0..j /\ \A h \in 0..(j - 1) : h \in 0..j
  OBVIOUS
<1> QED BY <1>1, <1>3, <1>4 DEF Finds

Inserted(x, y, d, n) == y \in Indexes /\ y.cap = x.cap /\ Fresh(y, d, n) /\ Filled(y)

\* index_insert of the next entry.
LEMMA InsertFresh ==
  ASSUME NEW x \in Indexes, x.cap > 0, NEW d \in Seq(Entries), NEW n \in Nat, n + 1 <= Len(d),
         Fresh(x, d, n), Filled(x), 2 * Cardinality(KeysOf(d, n + 1)) <= x.cap,
         Stops(x, d, d[n + 1].key) # {}
  PROVE  Inserted(x, IndexInsert(x, d, n + 1), d, n + 1)
<1> DEFINE k == d[n + 1].key
           slot == ProbeSlot(x, d, k)
           y == IndexInsert(x, d, n + 1)
<1>0. /\ n + 1 \in 1..Len(d) /\ Len(d) \in Nat /\ k \in Keys /\ x.cap \in Nat /\ x.size \in Nat
      /\ \A i \in 1..(n + 1) : i \in 1..Len(d) /\ d[i].key \in Keys
  <2>1. \A i \in 1..(n + 1) : i \in 1..Len(d)
    OBVIOUS
  <2>2. \A i \in 1..Len(d) : d[i].key \in Keys
    BY EntryKeys
  <2>3. n + 1 \in 1..(n + 1)
    OBVIOUS
  <2>4. x.cap \in Nat /\ x.size \in Nat /\ Len(d) \in Nat
    BY DEF Indexes
  <2> QED BY <2>1, <2>2, <2>3, <2>4
<1>1. PICK j \in 0..(x.cap - 1) :
        /\ slot = SlotOf(x, k, j)
        /\ x.slots[slot] = 0 \/ d[x.slots[slot]].key = k
        /\ \A h \in 0..(j - 1) : x.slots[SlotOf(x, k, h)] # 0 /\ d[x.slots[SlotOf(x, k, h)]].key # k
  <2>1. Stops(x, d, k) # {}
    OBVIOUS
  <2> HIDE DEF k
  <2> QED BY <1>0, <2>1, ProbeEnds
<1>2. slot \in 0..(x.cap - 1) /\ x.slots[slot] \in Nat
  <2> HIDE DEF k, slot
  <2>1. j \in Nat
    BY <1>0
  <2>2. SlotOf(x, k, j) \in 0..(x.cap - 1) /\ x.slots[SlotOf(x, k, j)] \in Nat
    BY <1>0, <2>1, SlotOfType
  <2> QED BY <1>1, <2>2
<1>3. y = IF x.slots[slot] # 0 THEN x ELSE [x EXCEPT !.slots[slot] = n + 1, !.size = @ + 1]
  BY DEF IndexInsert
<1>4. /\ ~x.stale /\ Covers(x, d, n) /\ x.size = Cardinality(KeysOf(d, n))
      /\ x.slots[slot] <= n
  BY <1>2 DEF Fresh, Covers
<1>5. Cardinality(KeysOf(d, n + 1)) = x.size + (IF k \in KeysOf(d, n) THEN 0 ELSE 1)
  BY <1>4, KeysOfFacts
<1> HIDE DEF k, slot, y
<1>6. CASE x.slots[slot] # 0
  <2>1. x.slots[slot] \in 1..n /\ d[x.slots[slot]].key = k
    BY <1>1, <1>2, <1>4, <1>6
  <2>2. k \in KeysOf(d, n)
    BY <2>1 DEF KeysOf
  <2>3. ~First(d, n + 1)
    BY <2>1 DEF First, k
  <2>4. Covers(x, d, n + 1)
    <3>1. \A i \in 1..(n + 1) : i = n + 1 \/ i \in 1..n
      OBVIOUS
    <3>2. \A h \in 0..(x.cap - 1) : x.slots[h] <= n + 1
      <4>1. \A h \in 0..(x.cap - 1) : x.slots[h] \in Nat /\ x.slots[h] <= n
        BY <1>4 DEF Covers, Indexes
      <4> QED BY <4>1
    <3> QED BY <1>4, <2>3, <3>1, <3>2 DEF Covers
  <2>5. y = x
    BY <1>3, <1>6
  <2>6. Fresh(x, d, n + 1)
    BY <1>0, <1>4, <1>5, <2>2, <2>4 DEF Fresh
  <2> QED BY <2>5, <2>6 DEF Inserted, y
<1>7. CASE x.slots[slot] = 0
  <2>1. k \notin KeysOf(d, n)
    <3> SUFFICES ASSUME k \in KeysOf(d, n) PROVE FALSE
      OBVIOUS
    <3> DEFINE same == {i \in 1..n : d[i].key = k}
    <3>1. same \subseteq Nat /\ same # {}
      BY DEF KeysOf
    <3>2. Min(same) \in same /\ \A m \in same : Min(same) <= m
      <4> HIDE DEF same
      <4> QED BY <3>1, MinIsLeast
    <3>3. PICK i \in 1..n : d[i].key = k /\ \A h \in 1..n : d[h].key = k => i <= h
      BY <3>2
    <3>4. First(d, i)
      BY <3>3 DEF First
    <3>5. Finds(x, d, k, i)
      BY <1>4, <3>3, <3>4 DEF Covers
    <3>6. x.slots[ProbeSlot(x, d, k)] = i
      <4>1. Stops(x, d, k) # {}
        BY DEF k
      <4> QED BY <1>0, <3>3, <3>5, <4>1, ProbeFinds
    <3> QED BY <1>7, <3>6 DEF slot
  <2>2. Takes(x, y, slot, n + 1)
    <3>1. y = [x EXCEPT !.slots[slot] = n + 1, !.size = @ + 1]
      BY <1>3, <1>7
    <3>2. n + 1 \in Nat \ {0}
      OBVIOUS
    <3> QED BY <1>2, <3>1, <3>2, TakeSlot
  <2>3. /\ y \in Indexes /\ y.cap = x.cap /\ y.size = x.size + 1 /\ ~y.stale
        /\ y.slots[slot] = n + 1 /\ \A h \in 0..(x.cap - 1) : h # slot => y.slots[h] = x.slots[h]
        /\ Occupied(y) = Occupied(x) \cup {slot}
    BY <1>4, <2>2 DEF Takes
  <2>4. \A h \in 0..(y.cap - 1) : y.slots[h] <= n + 1
    <3>1. \A h \in 0..(x.cap - 1) : x.slots[h] \in Nat /\ x.slots[h] <= n
      BY <1>4 DEF Covers, Indexes
    <3> QED BY <2>3, <3>1
  <2>5. ASSUME NEW i \in 1..(n + 1), First(d, i) PROVE Finds(y, d, d[i].key, i)
    <3>1. CASE i \in 1..n
      <4>1. Finds(x, d, d[i].key, i)
        BY <1>4, <2>5, <3>1 DEF Covers
      <4>2. i # 0 /\ d[i].key \in Keys
        BY <1>0
      <4> QED BY <1>7, <2>3, <4>1, <4>2, FindsStays
    <3>2. CASE i = n + 1
      <4>1. \A h \in 0..(j - 1) : y.slots[SlotOf(y, k, h)] # 0 /\ d[y.slots[SlotOf(y, k, h)]].key # k
        <5> SUFFICES ASSUME NEW h \in 0..(j - 1)
                     PROVE  y.slots[SlotOf(y, k, h)] # 0 /\ d[y.slots[SlotOf(y, k, h)]].key # k
          OBVIOUS
        <5>1. SlotOf(x, k, h) \in 0..(x.cap - 1)
          BY <1>0, SlotOfType
        <5>2. SlotOf(y, k, h) = SlotOf(x, k, h)
          BY <2>3 DEF SlotOf
        <5>3. SlotOf(x, k, h) # slot
          BY <1>1, <1>7, SMTT(40)
        <5> QED BY <1>1, <2>3, <5>1, <5>2, <5>3
      <4>2. SlotOf(y, k, j) = slot
        BY <1>1, <2>3 DEF SlotOf
      <4>3. Finds(y, d, k, n + 1)
        BY <2>3, <4>1, <4>2 DEF Finds
      <4> QED BY <3>2, <4>3 DEF k
    <3> QED BY <3>1, <3>2
  <2>6. Fresh(y, d, n + 1)
    BY <1>0, <1>5, <2>1, <2>3, <2>4, <2>5 DEF Fresh, Covers
  <2>7. Filled(y)
    <3>0. 0 \in Int /\ x.cap - 1 \in Int
      BY <1>0
    <3>1. IsFiniteSet(0..(x.cap - 1))
      BY <3>0, FS_Interval
    <3>2. IsFiniteSet(Occupied(x))
      BY <3>1, FS_Subset DEF Occupied
    <3>3. slot \notin Occupied(x)
      BY <1>7 DEF Occupied
    <3>4. Cardinality(Occupied(y)) = Cardinality(Occupied(x)) + 1
      BY <2>3, <3>2, <3>3, FS_AddElement
    <3>5. Cardinality(KeysOf(d, n + 1)) = x.size + 1
      BY <1>5, <2>1
    <3> QED BY <1>0, <2>3, <3>4, <3>5 DEF Filled
  <2> QED BY <2>3, <2>6, <2>7 DEF Inserted, y
<1> QED BY <1>2, <1>6, <1>7

\* Only the keys of the entries it knows matter to the table.
LEMMA FreshAgrees ==
  ASSUME NEW x \in Indexes, NEW d, NEW e, NEW n \in Nat, Fresh(x, d, n),
         \A i \in 1..n : e[i].key = d[i].key, \A i \in 1..n : d[i].key \in Keys
  PROVE  Fresh(x, e, n)
<1>1. KeysOf(e, n) = KeysOf(d, n)
  BY DEF KeysOf
<1>2. \A j \in 0..(x.cap - 1) : x.slots[j] \in Nat /\ x.slots[j] <= n
  BY DEF Fresh, Covers, Indexes
<1>3. ASSUME NEW i \in 1..n, First(e, i) PROVE Finds(x, e, e[i].key, i)
  <2> DEFINE k == d[i].key
  <2>1. First(d, i)
    <3>1. \A h \in 1..(i - 1) : h \in 1..n
      OBVIOUS
    <3> QED BY <1>3, <3>1 DEF First
  <2>2. Finds(x, d, k, i) /\ k \in Keys
    BY <2>1 DEF Fresh, Covers
  <2> HIDE DEF k
  <2>3. PICK j \in 0..(x.cap - 1) :
          /\ x.slots[SlotOf(x, k, j)] = i
          /\ \A h \in 0..(j - 1) : x.slots[SlotOf(x, k, h)] # 0 /\ d[x.slots[SlotOf(x, k, h)]].key # k
    BY <2>2 DEF Finds
  <2>4. ASSUME NEW h \in 0..(j - 1) PROVE x.slots[SlotOf(x, k, h)] # 0 /\ e[x.slots[SlotOf(x, k, h)]].key # k
    <3>0. x.cap \in Nat /\ x.cap > 0 /\ h \in Nat
      BY DEF Indexes
    <3>1. SlotOf(x, k, h) \in 0..(x.cap - 1)
      BY <2>2, <3>0, SlotOfType
    <3>2. x.slots[SlotOf(x, k, h)] \in 1..n
      BY <1>2, <2>3, <3>1
    <3> QED BY <2>3, <3>2
  <2>5. Finds(x, e, k, i)
    BY <2>3, <2>4 DEF Finds
  <2>6. k = e[i].key
    BY DEF k
  <2> QED BY <2>5, <2>6
<1> QED BY <1>1, <1>3 DEF Fresh, Covers

LEMMA EmptyFresh ==
  ASSUME NEW c \in Nat, c > 0, NEW d
  PROVE  /\ Empty(c) \in Indexes /\ Empty(c).cap = c
         /\ Fresh(Empty(c), d, 0) /\ Filled(Empty(c))
<1> DEFINE t == [j \in 0..(c - 1) |-> 0]
           x == Empty(c)
<1>1. x = [cap |-> c, size |-> 0, stale |-> FALSE, slots |-> t]
  BY DEF Empty
<1>2. t \in [0..(c - 1) -> Nat] /\ \A j \in 0..(c - 1) : t[j] = 0
  OBVIOUS
<1>3. t \in Tables
  BY <1>2 DEF Tables
<1> HIDE DEF t
<1>4. x.cap = c /\ x.size = 0 /\ ~x.stale /\ x.slots = t
  BY <1>1
<1>5. x \in Indexes
  BY <1>1, <1>2, <1>3, <1>4 DEF Indexes
<1> HIDE DEF x
<1>6. Occupied(x) = {} /\ KeysOf(d, 0) = {}
  BY <1>2, <1>4 DEF Occupied, KeysOf
<1>7. Filled(x)
  BY <1>4, <1>6, FS_EmptySet DEF Filled
<1>8. Fresh(x, d, 0)
  <2>1. \A j \in 0..(x.cap - 1) : x.slots[j] <= 0
    BY <1>2, <1>4
  <2>2. x.size = Cardinality(KeysOf(d, 0))
    BY <1>4, <1>6, FS_EmptySet
  <2>3. \A i \in 1..0 : FALSE
    OBVIOUS
  <2>4. Covers(x, d, 0)
    BY <2>1, <2>3 DEF Covers
  <2> QED BY <1>4, <2>2, <2>4 DEF Fresh
<1> QED BY <1>4, <1>5, <1>7, <1>8 DEF x

LEMMA NoIndexType == NoIndex \in Indexes /\ NoIndex.cap = 0 /\ ~NoIndex.stale
<1>1. <<>> \in [0..(0 - 1) -> Nat]
  OBVIOUS
<1>2. <<>> \in Tables
  BY <1>1 DEF Tables
<1> QED BY <1>1, <1>2 DEF NoIndex, Indexes

(***************************************************************************)
(* The inductive invariant, of callers that do not keep a reference from   *)
(* data() in use.                                                          *)
(***************************************************************************)
Calls == [op : {"lookup", "remove", "subscript", "insert", "merge", "equal", "clone"},
          o : Objs, p : Objs, k : Keys \union {Null}, v : Promise!Values, n : Nat \ {0}]

Types ==
  /\ data \in [Objs -> Seq(Entries)]
  /\ res \in [Objs -> Resources \union {NoRes}]
  /\ index \in [Objs -> Indexes]

\* How many entries of its object an index knows: all of them, except while it
\* is refilled and between an append and its note.
Known(o) ==
  IF pc = "refill" /\ o = call.o THEN at - 1
  ELSE IF pc = "note" /\ o = call.o THEN Len(data[o]) - 1 ELSE Len(data[o])
IndexOk(x, d, n) ==
  x.cap > 0 => Filled(x) /\ (x.stale => Bounded(x, d)) /\ (~x.stale => Fresh(x, d, n))
IndexesOk == \A o \in Objs : IndexOk(index[o], data[o], Known(o))

\* The blocks of a resource are those of the objects bound to it.
Owners(x, r, c) == {o \in Objs : x[o].cap > 0 /\ r[o] = c}
Ledger ==
  /\ \A o \in Objs : HasIndex(o) => o \in Alive
  /\ live = [c \in Resources |-> Cardinality(Owners(index, res, c))]

\* data() has dropped the index of an object whose entries may be edited.
Holding ==
  /\ held \subseteq Objs
  /\ \A o \in held : ~HasIndex(o)
  /\ pc # "idle" => held = {}

Control ==
  /\ pos \in Nat /\ at \in Nat
  /\ pc # "idle" => call \in Calls /\ call.o \in Alive /\ call.p \in Alive
  /\ pc \in {"find", "found"} => call.k \in Keys
  /\ pc = "refill" /\ then = "find" => call.k \in Keys
  /\ pc = "found" => /\ pos = Promise!FirstAt(data[call.o], call.k)
                     /\ index[call.o].stale => call.op = "remove"
  /\ pc = "note" => data[call.o] # <<>> /\ ~index[call.o].stale
  /\ pc = "refill" => /\ at \in 1..(Len(data[call.o]) + 1) /\ then \in {"find", "noted", "loop"}
                      /\ HasIndex(call.o) /\ ~index[call.o].stale /\ Bounded(index[call.o], data[call.o])
  /\ pc = "build" => at > 0 /\ ~HasIndex(call.o) /\ then \in {"noted", "loop"}

Sound == Types /\ IndexesOk /\ Ledger /\ Holding /\ Control
Inv == program \in Programs /\ (~program.holdsData => Sound)

(***************************************************************************)
(* Steps that leave the entries and the indexes alone.                     *)
(***************************************************************************)
LEMMA QuietStep ==
  ASSUME Sound, data' = data, res' = res, held' = held, index' = index, live' = live,
         pc \notin {"refill", "note"}, pc' \notin {"refill", "note"}, pc # "idle" \/ pc' = "idle"
  PROVE  Types' /\ IndexesOk' /\ Ledger' /\ Holding'
<1>1. Types'
  BY DEF Sound, Types
<1>2. IndexesOk'
  <2>1. \A o \in Objs : Known(o) = Len(data[o]) /\ Known(o)' = Len(data[o])
    BY DEF Known
  <2> QED BY <2>1 DEF Sound, IndexesOk
<1>3. Ledger'
  BY DEF Sound, Ledger, HasIndex, Alive
<1>4. Holding'
  BY DEF Sound, Holding, HasIndex
<1> QED BY <1>1, <1>2, <1>3, <1>4

LEMMA ReturnControl ==
  ASSUME NEW r, Return(r)
  PROVE  Control' /\ pc' = "idle"
<1>1. pc' = "idle" /\ pos' = 0 /\ at' = 0
  BY DEF Return
<1> QED BY <1>1 DEF Control

\* The facts every step inside a call starts from.
LEMMA CallFacts ==
  ASSUME Sound, pc # "idle"
  PROVE  /\ call \in Calls /\ call.o \in Objs /\ call.p \in Objs /\ call.o \in Alive /\ call.p \in Alive
         /\ data[call.o] \in Seq(Entries) /\ data[call.p] \in Seq(Entries)
         /\ Len(data[call.o]) \in Nat /\ Len(data[call.p]) \in Nat
         /\ index[call.o] \in Indexes /\ held = {}
<1>1. call \in Calls /\ call.o \in Alive /\ call.p \in Alive /\ held = {}
  BY DEF Sound, Control, Holding
<1>2. call.o \in Objs /\ call.p \in Objs
  BY <1>1 DEF Calls
<1>3. data[call.o] \in Seq(Entries) /\ data[call.p] \in Seq(Entries) /\ index[call.o] \in Indexes
  BY <1>2 DEF Sound, Types
<1> QED BY <1>1, <1>2, <1>3

\* FindLinear, FindProbe: the lookup ends.
LEMMA FindKeeps ==
  ASSUME Sound, FindLinear \/ FindProbe
  PROVE  Sound'
<1>1. /\ pc = "find" /\ pc' = "found" /\ data' = data /\ res' = res /\ held' = held /\ index' = index
      /\ live' = live /\ call' = call /\ at' = at
  BY DEF FindLinear, FindProbe, store, cache
<1>2. /\ call \in Calls /\ call.o \in Objs /\ data[call.o] \in Seq(Entries) /\ index[call.o] \in Indexes
      /\ call.o \in Alive /\ call.p \in Alive /\ call.k \in Keys
  BY <1>1, CallFacts DEF Sound, Control
<1>3. pos' = Promise!FirstAt(data[call.o], call.k)
  <2>1. CASE FindLinear
    BY <2>1 DEF FindLinear, Own, This
  <2>2. CASE FindProbe
    <3>1. /\ pos' = index[call.o].slots[ProbeSlot(index[call.o], data[call.o], call.k)]
          /\ index[call.o].cap > 0 /\ ~index[call.o].stale
          /\ Stops(index[call.o], data[call.o], call.k) # {}
      BY <2>2 DEF FindProbe, Own, This, Bypass, HasIndex
    <3>2. Fresh(index[call.o], data[call.o], Len(data[call.o]))
      BY <1>1, <1>2, <3>1 DEF Sound, IndexesOk, IndexOk, Known
    <3> QED BY <1>2, <3>1, <3>2, FreshLookup
  <2> QED BY <2>1, <2>2
<1>4. index[call.o].stale => call.op = "remove"
  <2>1. CASE FindLinear
    <3>1. index[call.o].cap = 0 => ~index[call.o].stale
      BY <1>2 DEF Indexes
    <3>2. index[call.o].cap \in Nat
      BY <1>2 DEF Indexes
    <3> QED BY <2>1, <3>1, <3>2 DEF FindLinear, Bypass, HasIndex, This
  <2>2. CASE FindProbe
    BY <2>2 DEF FindProbe, This
  <2> QED BY <2>1, <2>2
<1>5. Control'
  <2>1. pos' \in Nat /\ at' \in Nat
    <3>1. pos' \in 0..Len(data[call.o])
      BY <1>2, <1>3, FirstAtFacts
    <3> QED BY <1>1, <3>1 DEF Sound, Control
  <2> QED BY <1>1, <1>2, <1>3, <1>4, <2>1 DEF Control, Alive
<1>6. Types' /\ IndexesOk' /\ Ledger' /\ Holding'
  BY <1>1, QuietStep
<1> QED BY <1>5, <1>6 DEF Sound

\* A step that ends the call and changes nothing else.
LEMMA ReturnKeeps ==
  ASSUME Sound, pc \notin {"idle", "refill", "note"}, UNCHANGED <<store, cache>>, NEW r, Return(r)
  PROVE  Sound'
<1>1. data' = data /\ res' = res /\ held' = held /\ index' = index /\ live' = live
  BY DEF store, cache
<1>2. Control' /\ pc' = "idle"
  BY ReturnControl
<1> QED BY <1>1, <1>2, QuietStep DEF Sound

LEMMA GrowKeeps ==
  ASSUME Sound, Grow
  PROVE  Sound'
<1>1. /\ pc = "build" /\ pc' = "build" /\ data' = data /\ res' = res /\ held' = held /\ index' = index
      /\ live' = live /\ call' = call /\ pos' = pos /\ then' = then /\ at' = 2 * at
  BY DEF Grow, store, cache
<1>2. Control'
  <2>1. at \in Nat /\ at > 0 /\ pos \in Nat
    BY <1>1 DEF Sound, Control
  <2>2. at' \in Nat /\ at' > 0
    BY <1>1, <2>1
  <2> QED BY <1>1, <2>1, <2>2 DEF Sound, Control, HasIndex, Alive
<1> QED BY <1>1, <1>2, QuietStep DEF Sound

LEMMA NextEntryKeeps ==
  ASSUME Sound, NextEntry
  PROVE  Sound'
<1> DEFINE e == data[call.p][call.n]
<1>1. /\ pc = "loop" /\ pc' = "find" /\ data' = data /\ res' = res /\ held' = held /\ index' = index
      /\ live' = live /\ pos' = pos /\ at' = at /\ call.n <= Len(data[call.p])
      /\ call' = [call EXCEPT !.k = e.key, !.v = e.val, !.n = @ + 1]
  BY DEF NextEntry, store, cache
<1>2. /\ call \in Calls /\ call.o \in Alive /\ call.p \in Alive /\ data[call.p] \in Seq(Entries)
      /\ Len(data[call.p]) \in Nat
  BY <1>1, CallFacts
<1>3. call.n \in 1..Len(data[call.p])
  BY <1>1, <1>2 DEF Calls
<1>4. e.key \in Keys /\ e.val \in Promise!Values
  BY <1>2, <1>3, EntryKeys
<1> HIDE DEF e
<1>5. call' \in Calls /\ call'.o = call.o /\ call'.p = call.p /\ call'.k \in Keys
  <2> DEFINE m == call.n + 1
  <2>1. m \in Nat \ {0}
    BY <1>2 DEF Calls
  <2>2. call' = [call EXCEPT !.k = e.key, !.v = e.val, !.n = m]
    BY <1>1, <1>2 DEF Calls
  <2> HIDE DEF m
  <2>3. e.key \in Keys \union {Null}
    BY <1>4
  <2> QED BY <1>2, <1>4, <2>1, <2>2, <2>3 DEF Calls
<1>6. Control'
  BY <1>1, <1>2, <1>5 DEF Sound, Control, Alive
<1> QED BY <1>1, <1>6, QuietStep DEF Sound

LEMMA EqualFoundKeeps ==
  ASSUME Sound, EqualFound
  PROVE  Sound'
<1>1. /\ pc = "found" /\ pc' = "loop" /\ data' = data /\ res' = res /\ held' = held /\ index' = index
      /\ live' = live /\ call' = call /\ pos' = 0 /\ at' = at
  BY DEF EqualFound, store, cache
<1>2. Control'
  BY <1>1 DEF Sound, Control, Alive
<1> QED BY <1>1, <1>2, QuietStep DEF Sound

LEMMA NotedKeeps ==
  ASSUME Sound, Noted
  PROVE  Sound'
<1>1. /\ pc = "noted" /\ data' = data /\ res' = res /\ held' = held /\ index' = index /\ live' = live
  BY DEF Noted, store, cache
<1>2. CASE call.op = "merge" /\ call.o # call.p
  <2>1. pc' = "loop" /\ call' = call /\ pos' = pos /\ at' = at
    BY <1>2 DEF Noted
  <2>2. Control'
    BY <1>1, <2>1 DEF Sound, Control, Alive
  <2> QED BY <1>1, <2>1, <2>2, QuietStep DEF Sound
<1>3. CASE ~(call.op = "merge" /\ call.o # call.p)
  <2>1. \E r : Return(r)
    BY <1>3 DEF Noted
  <2> QED BY <1>1, <2>1, ReturnKeeps DEF Noted
<1> QED BY <1>2, <1>3

\* A call begins: any reference from data() is no longer used.
LEMMA StartKeeps ==
  ASSUME Sound, ~program.holdsData, NEW op, NEW o \in Objs, NEW p \in Objs, NEW k, NEW v, NEW first,
         op \in {"lookup", "remove", "subscript", "insert", "merge", "equal"},
         k \in Keys \union {Null}, v \in Promise!Values, first = "find" => k \in Keys,
         first \in {"find", "noted", "loop", "differ", "ensure"}, Start(op, o, p, k, v, first)
  PROVE  Sound'
<1>1. /\ pc = "idle" /\ o \in Alive /\ p \in Alive /\ pc' = first /\ held' = {}
      /\ call' = [op |-> op, o |-> o, p |-> p, k |-> k, v |-> v, n |-> 1]
      /\ data' = data /\ res' = res /\ index' = index /\ live' = live /\ pos' = pos /\ at' = at
  BY DEF Start, Keep, cache
<1>2. call' \in Calls /\ call'.o = o /\ call'.p = p /\ call'.k = k
  <2>1. 1 \in Nat \ {0}
    OBVIOUS
  <2> QED BY <1>1, <2>1 DEF Calls
<1>3. Control'
  BY <1>1, <1>2 DEF Sound, Control, Alive
<1>4. Types' /\ Ledger'
  BY <1>1 DEF Sound, Types, Ledger, HasIndex, Alive
<1>5. IndexesOk'
  <2>1. \A x \in Objs : Known(x) = Len(data[x]) /\ Known(x)' = Len(data[x])
    BY <1>1 DEF Known
  <2> QED BY <1>1, <2>1 DEF Sound, IndexesOk
<1>6. Holding'
  BY <1>1 DEF Holding
<1> QED BY <1>3, <1>4, <1>5, <1>6 DEF Sound

LEMMA NullIsValue == NullValue \in Promise!Values
BY IndexAssumption DEF NullValue, Promise!Values, Promise!Scalar

LEMMA StartKeyedKeeps ==
  ASSUME Sound, program \in Programs, ~program.holdsData, StartKeyed
  PROVE  Sound'
<1>1. PICK o \in Objs, k \in Keys :
        \/ \E op \in {"lookup", "remove"} : Start(op, o, o, k, NullValue, "find")
        \/ Start("subscript", o, o, k, NullValue, "find")
        \/ \E v \in program.values : Start("insert", o, o, k, v, "find")
  BY DEF StartKeyed
<1>2. CASE \E op \in {"lookup", "remove"} : Start(op, o, o, k, NullValue, "find")
  BY <1>2, NullIsValue, StartKeeps
<1>3. CASE Start("subscript", o, o, k, NullValue, "find")
  BY <1>3, NullIsValue, StartKeeps
<1>4. CASE \E v \in program.values : Start("insert", o, o, k, v, "find")
  <2>1. program.values \subseteq Promise!Values
    BY IndexAssumption
  <2> QED BY <1>4, <2>1, StartKeeps
<1> QED BY <1>1, <1>2, <1>3, <1>4

LEMMA StartPairKeeps ==
  ASSUME Sound, ~program.holdsData, StartMerge \/ StartEqual
  PROVE  Sound'
<1>1. CASE StartMerge
  <2>1. PICK o \in Objs, p \in Objs : Start("merge", o, p, Null, NullValue, IF o = p THEN "noted" ELSE "loop")
    BY <1>1 DEF StartMerge
  <2>2. PICK f \in {"noted", "loop"} : Start("merge", o, p, Null, NullValue, f)
    BY <2>1
  <2> QED BY <2>2, NullIsValue, StartKeeps
<1>2. CASE StartEqual
  <2>1. PICK o \in Objs, p \in Objs, f \in {"differ", "ensure", "loop"} :
          Start("equal", o, p, Null, NullValue, f)
    <3>1. PICK o \in Objs, p \in Objs :
            Start("equal", IF HasIndex(p) \/ ~HasIndex(o) THEN p ELSE o,
                  IF HasIndex(p) \/ ~HasIndex(o) THEN o ELSE p, Null, NullValue,
                  CASE Len(data[o]) # Len(data[p]) -> "differ"
                    [] Len(data[o]) = Len(data[p]) /\ (~HasIndex(o) /\ ~HasIndex(p) /\ Len(data[p]) > Threshold) -> "ensure"
                    [] OTHER -> "loop")
      BY <1>2 DEF StartEqual
    <3> DEFINE f == CASE Len(data[o]) # Len(data[p]) -> "differ"
                      [] Len(data[o]) = Len(data[p]) /\ (~HasIndex(o) /\ ~HasIndex(p) /\ Len(data[p]) > Threshold) -> "ensure"
                      [] OTHER -> "loop"
               a == IF HasIndex(p) \/ ~HasIndex(o) THEN p ELSE o
               b == IF HasIndex(p) \/ ~HasIndex(o) THEN o ELSE p
    <3>2. f \in {"differ", "ensure", "loop"}
      OBVIOUS
    <3>3. a \in Objs /\ b \in Objs
      OBVIOUS
    <3> HIDE DEF f, a, b
    <3>4. Start("equal", a, b, Null, NullValue, f)
      BY <3>1 DEF f, a, b
    <3> QED BY <3>2, <3>3, <3>4
  <2> QED BY <2>1, NullIsValue, StartKeeps
<1> QED BY <1>1, <1>2

(***************************************************************************)
(* The blocks.                                                             *)
(***************************************************************************)
LEMMA OwnersFinite ==
  ASSUME NEW x, NEW r, NEW c
  PROVE  IsFiniteSet(Owners(x, r, c)) /\ Cardinality(Owners(x, r, c)) \in Nat
<1>1. Owners(x, r, c) \in SUBSET Objs
  BY DEF Owners
<1>2. IsFiniteSet(Owners(x, r, c))
  BY <1>1, IndexAssumption, FS_Subset
<1> QED BY <1>2, FS_CardinalityType

\* Object o is without an index, and its block, if there was one, is accounted for.
Frees(o, r) ==
  /\ index' \in [Objs -> Indexes] /\ index'[o] = NoIndex
  /\ \A x \in Objs : x # o => index'[x] = index[x]
  /\ live' = [c \in Resources |-> Cardinality(Owners(index', r, c))]

LEMMA FreeIndexFrees ==
  ASSUME Types, Ledger, NEW o \in Objs, FreeIndex(o), NEW r, \A x \in Objs : x # o => r[x] = res[x]
  PROVE  Frees(o, r)
<1>1. /\ index' = [index EXCEPT ![o] = NoIndex]
      /\ live' = IF index[o].cap > 0 THEN [live EXCEPT ![res[o]] = @ - 1] ELSE live
  BY DEF FreeIndex, HasIndex
<1>2. /\ index' \in [Objs -> Indexes] /\ index'[o] = NoIndex
      /\ \A x \in Objs : x # o => index'[x] = index[x]
  BY <1>1, NoIndexType DEF Types
<1>3. live = [c \in Resources |-> Cardinality(Owners(index, res, c))]
  BY DEF Ledger
<1>4. index[o].cap > 0 => res[o] \in Resources
  BY DEF Types, Ledger, HasIndex, Alive
<1>5. ASSUME NEW c \in Resources
      PROVE  live'[c] = Cardinality(Owners(index', r, c))
  <2>1. Owners(index', r, c) = Owners(index, res, c) \ {o}
    BY <1>2, NoIndexType DEF Owners
  <2>2. o \in Owners(index, res, c) <=> index[o].cap > 0 /\ res[o] = c
    BY DEF Owners
  <2>3. Cardinality(Owners(index, res, c) \ {o}) =
          IF o \in Owners(index, res, c) THEN Cardinality(Owners(index, res, c)) - 1
          ELSE Cardinality(Owners(index, res, c))
    BY OwnersFinite, FS_RemoveElement
  <2>4. live'[c] = IF index[o].cap > 0 /\ res[o] = c THEN live[c] - 1 ELSE live[c]
    BY <1>1, <1>3, <1>4
  <2> QED BY <1>3, <2>1, <2>2, <2>3, <2>4
<1>6. live' = [c \in Resources |-> live'[c]]
  BY <1>1, <1>3
<1> QED BY <1>2, <1>5, <1>6 DEF Frees

LEMMA FreesLedger ==
  ASSUME Ledger, NEW o \in Objs, Frees(o, res'), \A x \in Objs : x # o => res'[x] = res[x]
  PROVE  Ledger'
<1>1. \A x \in Objs : HasIndex(x)' => x \in Alive'
  <2> SUFFICES ASSUME NEW x \in Objs, index'[x].cap > 0 PROVE res'[x] # NoRes
    BY DEF HasIndex, Alive
  <2>1. x # o
    BY NoIndexType DEF Frees
  <2>2. index[x].cap > 0
    BY <2>1 DEF Frees
  <2> QED BY <2>1, <2>2 DEF Ledger, HasIndex, Alive
<1> QED BY <1>1 DEF Ledger, Frees

(***************************************************************************)
(* Refilling and building.                                                 *)
(***************************************************************************)
\* In an index that is not known to be right nothing is claimed.
LEMMA NoIndexOk == ASSUME NEW d, NEW n PROVE IndexOk(NoIndex, d, n)
BY NoIndexType DEF IndexOk

LEMMA BuildKeeps ==
  ASSUME Sound, pc \in {"note", "ensure"}, NEW next, next \in {"noted", "loop"}, Build(next)
  PROVE  Sound'
<1>1. /\ FreeIndex(call.o) /\ pc' = "build" /\ at' = MinCap /\ then' = next
      /\ data' = data /\ res' = res /\ held' = held /\ call' = call /\ pos' = pos
  BY DEF Build, store, This
<1>2. call \in Calls /\ call.o \in Objs /\ call.o \in Alive /\ call.p \in Alive /\ held = {}
  BY CallFacts
<1>3. Frees(call.o, res')
  BY <1>1, <1>2, FreeIndexFrees DEF Sound
<1>4. Ledger'
  BY <1>1, <1>2, <1>3, FreesLedger DEF Sound
<1>5. Types' /\ Holding'
  BY <1>1, <1>2, <1>3 DEF Sound, Types, Holding, Frees
<1>6. IndexesOk'
  <2> SUFFICES ASSUME NEW x \in Objs PROVE IndexOk(index'[x], data[x], Known(x)')
    BY <1>1 DEF IndexesOk
  <2>1. CASE x = call.o
    BY <1>3, <2>1, NoIndexOk DEF Frees
  <2>2. CASE x # call.o
    <3>1. Known(x)' = Len(data[x]) /\ Known(x) = Len(data[x])
      BY <1>1, <2>2 DEF Known
    <3> QED BY <1>3, <2>2, <3>1 DEF Frees, Sound, IndexesOk
  <2> QED BY <2>1, <2>2
<1>7. Control'
  <2>1. at' \in Nat /\ at' > 0
    BY <1>1, IndexAssumption
  <2>2. ~(index'[call.o].cap > 0)
    BY <1>3, NoIndexType DEF Frees
  <2> QED BY <1>1, <1>2, <2>1, <2>2 DEF Sound, Control, HasIndex, Alive
<1> QED BY <1>4, <1>5, <1>6, <1>7 DEF Sound

\* index[o] becomes an empty table that is about to be refilled.
LEMMA RefillBegins ==
  ASSUME Sound, pc \in {"find", "build"}, NEW c \in Nat, c > 0,
         2 * Cardinality(KeysOf(data[call.o], Len(data[call.o]))) <= c,
         index' = [index EXCEPT ![call.o] = Empty(c)],
         pc' = "refill", at' = 1, then' \in {"find", "noted", "loop"}, then' = "find" => call.k \in Keys,
         data' = data, res' = res, held' = held, call' = call, pos' = pos
  PROVE  Types' /\ IndexesOk' /\ Holding' /\ Control'
<1> DEFINE x == Empty(c)
           d == data[call.o]
<1>1. call \in Calls /\ call.o \in Objs /\ call.o \in Alive /\ call.p \in Alive /\ d \in Seq(Entries) /\ held = {}
  BY CallFacts
<1>2. x \in Indexes /\ x.cap = c /\ Fresh(x, d, 0) /\ Filled(x) /\ ~x.stale
  <2>1. x \in Indexes /\ x.cap = c /\ Fresh(x, d, 0) /\ Filled(x)
    BY EmptyFresh
  <2> QED BY <2>1 DEF Fresh
<1> HIDE DEF x, d
<1>3. index'[call.o] = x /\ index' \in [Objs -> Indexes] /\ \A o \in Objs : o # call.o => index'[o] = index[o]
  BY <1>1, <1>2 DEF Sound, Types, x
<1>4. Types' /\ Holding'
  BY <1>1, <1>3 DEF Sound, Types, Holding
<1>5. IndexesOk'
  <2> SUFFICES ASSUME NEW o \in Objs PROVE IndexOk(index'[o], data[o], Known(o)')
    BY DEF IndexesOk
  <2>1. CASE o = call.o
    <3>1. Known(o)' = 0
      BY <2>1 DEF Known
    <3> QED BY <1>2, <1>3, <2>1, <3>1 DEF IndexOk, d
  <2>2. CASE o # call.o
    <3>1. Known(o)' = Len(data[o]) /\ Known(o) = Len(data[o])
      BY <2>2 DEF Known
    <3> QED BY <1>3, <2>2, <3>1 DEF Sound, IndexesOk
  <2> QED BY <2>1, <2>2
<1>6. Control'
  <2>1. 1 \in 1..(Len(d) + 1)
    BY <1>1
  <2>2. Bounded(x, d)
    BY <1>2 DEF Bounded, d
  <2> QED BY <1>1, <1>2, <1>3, <2>1, <2>2 DEF Sound, Control, HasIndex, Alive, d
<1> QED BY <1>4, <1>5, <1>6

LEMMA FindStaleKeeps ==
  ASSUME Sound, FindStale
  PROVE  Sound'
<1> DEFINE x == index[call.o]
<1>1. /\ pc = "find" /\ x.stale /\ index' = [index EXCEPT ![call.o] = Empty(x.cap)] /\ live' = live
      /\ pc' = "refill" /\ at' = 1 /\ then' = "find" /\ x.cap > 0
      /\ data' = data /\ res' = res /\ held' = held /\ call' = call /\ pos' = pos
  <2>1. index \in [Objs -> Indexes] /\ call.o \in Objs
    BY CallFacts DEF FindStale, Sound, Types
  <2> QED BY <2>1 DEF FindStale, store, Bypass, HasIndex, This
<1>2. call.o \in Objs /\ x \in Indexes /\ x.cap \in Nat /\ call.k \in Keys
  BY <1>1, CallFacts DEF Sound, Control, Indexes
<1>3. Bounded(x, data[call.o])
  BY <1>1, <1>2 DEF Sound, IndexesOk, IndexOk
<1>4. Types' /\ IndexesOk' /\ Holding' /\ Control'
  <2> DEFINE c == x.cap
  <2>1. c \in Nat /\ c > 0 /\ 2 * Cardinality(KeysOf(data[call.o], Len(data[call.o]))) <= c
        /\ index' = [index EXCEPT ![call.o] = Empty(c)]
    BY <1>1, <1>2, <1>3 DEF Bounded
  <2> HIDE DEF c
  <2> QED BY <1>1, <1>2, <2>1, RefillBegins
<1>5. Ledger'
  <2>1. index'[call.o].cap = x.cap /\ \A o \in Objs : o # call.o => index'[o] = index[o]
    <3>1. Empty(x.cap).cap = x.cap
      BY DEF Empty
    <3> QED BY <1>1, <1>2, <3>1 DEF Sound, Types
  <2>2. \A o \in Objs : index'[o].cap = index[o].cap
    BY <2>1
  <2>3. \A c \in Resources : Owners(index', res, c) = Owners(index, res, c)
    BY <2>2 DEF Owners
  <2> QED BY <1>1, <2>2, <2>3 DEF Sound, Ledger, HasIndex, Alive
<1> QED BY <1>4, <1>5 DEF Sound

LEMMA AllocateKeeps ==
  ASSUME Sound, Allocate
  PROVE  Sound'
<1>1. /\ pc = "build" /\ at >= 2 * Len(data[call.o]) /\ index' = [index EXCEPT ![call.o] = Empty(at)]
      /\ live' = [live EXCEPT ![res[call.o]] = @ + 1] /\ pc' = "refill" /\ at' = 1 /\ then' = then
      /\ data' = data /\ res' = res /\ held' = held /\ call' = call /\ pos' = pos
  BY DEF Allocate, store, This, Own
<1>2. /\ call.o \in Objs /\ call.o \in Alive /\ Len(data[call.o]) \in Nat
      /\ at \in Nat /\ at > 0 /\ ~(index[call.o].cap > 0) /\ then \in {"noted", "loop"}
  BY <1>1, CallFacts DEF Sound, Control, HasIndex
<1>3. Types' /\ IndexesOk' /\ Holding' /\ Control'
  <2>1. 2 * Cardinality(KeysOf(data[call.o], Len(data[call.o]))) <= at
    <3>1. /\ Cardinality(KeysOf(data[call.o], Len(data[call.o]))) \in Nat
          /\ Cardinality(KeysOf(data[call.o], Len(data[call.o]))) <= Len(data[call.o])
      BY <1>2, KeysOfFacts
    <3> QED BY <1>1, <1>2, <3>1
  <2> QED BY <1>1, <1>2, <2>1, RefillBegins
<1>4. Ledger'
  <2> DEFINE r == res[call.o]
  <2>1. /\ r \in Resources /\ index'[call.o].cap > 0 /\ \A o \in Objs : o # call.o => index'[o] = index[o]
    <3>1. Empty(at).cap = at
      BY DEF Empty
    <3>2. index'[call.o] = Empty(at) /\ \A o \in Objs : o # call.o => index'[o] = index[o]
      BY <1>1, <1>2 DEF Sound, Types
    <3> QED BY <1>2, <3>1, <3>2 DEF Sound, Types, Alive
  <2>2. ASSUME NEW c \in Resources
        PROVE  live'[c] = Cardinality(Owners(index', res, c))
    <3>1. live[c] = Cardinality(Owners(index, res, c)) /\ live'[c] = IF c = r THEN live[c] + 1 ELSE live[c]
      BY <1>1, <2>1 DEF Sound, Ledger
    <3>2. CASE c = r
      <4>1. Owners(index', res, c) = Owners(index, res, c) \cup {call.o} /\ call.o \notin Owners(index, res, c)
        BY <1>2, <2>1, <3>2 DEF Owners
      <4> QED BY <3>1, <3>2, <4>1, OwnersFinite, FS_AddElement, ZenonT(60)
    <3>3. CASE c # r
      <4>1. Owners(index', res, c) = Owners(index, res, c)
        BY <1>2, <2>1, <3>3 DEF Owners
      <4> QED BY <3>1, <3>3, <4>1
    <3> QED BY <3>2, <3>3
  <2>3. live' = [c \in Resources |-> live'[c]]
    BY <1>1 DEF Sound, Ledger
  <2>4. \A o \in Objs : HasIndex(o)' => o \in Alive'
    BY <1>1, <1>2, <2>1 DEF Sound, Ledger, HasIndex, Alive
  <2> QED BY <1>1, <2>2, <2>3, <2>4 DEF Ledger
<1> QED BY <1>3, <1>4 DEF Sound

\* Object o's index has taken up one more entry; no block changes hands.
LEMMA OneMoreKnown ==
  ASSUME Sound, NEW o \in Objs, NEW y \in Indexes, index' = [index EXCEPT ![o] = y], y.cap = index[o].cap,
         IndexOk(y, data[o], Known(o)'), \A x \in Objs : x # o => Known(x)' = Known(x),
         data' = data, res' = res, held' = held, live' = live, pc # "idle", pc' # "idle"
  PROVE  Types' /\ IndexesOk' /\ Ledger' /\ Holding'
<1>1. index'[o] = y /\ index' \in [Objs -> Indexes] /\ \A x \in Objs : x # o => index'[x] = index[x]
  BY DEF Sound, Types
<1>2. Types' /\ Holding'
  <2>1. held = {}
    BY DEF Sound, Holding
  <2> QED BY <1>1, <2>1 DEF Sound, Types, Holding
<1>3. IndexesOk'
  BY <1>1 DEF Sound, IndexesOk
<1>4. Ledger'
  <2>1. \A x \in Objs : index'[x].cap = index[x].cap
    BY <1>1
  <2>2. \A c \in Resources : Owners(index', res, c) = Owners(index, res, c)
    BY <2>1 DEF Owners
  <2> QED BY <2>1, <2>2 DEF Sound, Ledger, HasIndex, Alive
<1> QED BY <1>2, <1>3, <1>4

LEMMA RefillKeeps ==
  ASSUME Sound, Refill
  PROVE  Sound'
<1> DEFINE x == index[call.o]
           d == data[call.o]
           y == IndexInsert(x, d, at)
<1>1. /\ pc = "refill" /\ data' = data /\ res' = res /\ held' = held /\ live' = live
      /\ call' = call /\ pos' = pos /\ then' = then
  BY DEF Refill, store
<1>2. /\ call \in Calls /\ call.o \in Objs /\ call.o \in Alive /\ call.p \in Alive
      /\ d \in Seq(Entries) /\ Len(d) \in Nat /\ x \in Indexes
  BY <1>1, CallFacts
<1>3. /\ at \in 1..(Len(d) + 1) /\ then \in {"find", "noted", "loop"} /\ x.cap > 0 /\ ~x.stale
      /\ Bounded(x, d) /\ (then = "find" => call.k \in Keys) /\ pos \in Nat
  BY <1>1 DEF Sound, Control, HasIndex
<1>4. Filled(x) /\ Fresh(x, d, at - 1)
  BY <1>1, <1>2, <1>3 DEF Sound, IndexesOk, IndexOk, Known
<1>5. CASE at <= Len(d) /\ Stops(x, d, d[at].key) # {} /\ index' = [index EXCEPT ![call.o] = y]
           /\ at' = at + 1 /\ pc' = pc
  <2> DEFINE n == at - 1
  <2>1. n \in Nat /\ n + 1 = at /\ n + 1 <= Len(d)
    BY <1>2, <1>3, <1>5
  <2>2. 2 * Cardinality(KeysOf(d, n + 1)) <= x.cap
    <3>1. \A i \in 1..(n + 1) : i \in 1..Len(d)
      BY <1>2, <2>1
    <3>2. n + 1 \in Nat
      BY <2>1
    <3>3. Cardinality(KeysOf(d, n + 1)) <= Cardinality(KeysOf(d, Len(d)))
      <4> HIDE DEF n, d
      <4> QED BY <1>2, <3>1, <3>2, FewerKeys
    <3>4. Cardinality(KeysOf(d, n + 1)) \in Nat /\ Cardinality(KeysOf(d, Len(d))) \in Nat /\ x.cap \in Nat
      <4>1. x.cap \in Nat
        BY <1>2 DEF Indexes
      <4> HIDE DEF n, d, x
      <4> QED BY <1>2, <3>2, <4>1, KeysOfFacts
    <3> QED BY <1>3, <3>3, <3>4 DEF Bounded
  <2>3. Inserted(x, IndexInsert(x, d, n + 1), d, n + 1)
    <3>1. Stops(x, d, d[n + 1].key) # {} /\ Fresh(x, d, n)
      BY <1>4, <1>5, <2>1
    <3> HIDE DEF n, d, x
    <3> QED BY <1>2, <1>3, <1>4, <2>1, <2>2, <3>1, InsertFresh
  <2>4. y \in Indexes /\ y.cap = x.cap /\ Fresh(y, d, at) /\ Filled(y) /\ ~y.stale
    <3>1. Inserted(x, y, d, at)
      BY <2>1, <2>3
    <3> QED BY <3>1 DEF Inserted, Fresh
  <2> HIDE DEF n, y
  <2>5. IndexOk(y, d, Known(call.o)') /\ \A o \in Objs : o # call.o => Known(o)' = Known(o)
    <3>1. Known(call.o)' = at /\ \A o \in Objs : o # call.o => Known(o)' = Known(o)
      BY <1>1, <1>3, <1>5 DEF Known
    <3> QED BY <2>4, <3>1 DEF IndexOk
  <2>6. Types' /\ IndexesOk' /\ Ledger' /\ Holding'
    BY <1>1, <1>2, <1>5, <2>4, <2>5, OneMoreKnown
  <2>7. index'[call.o] = y
    BY <1>2, <1>5 DEF Sound, Types
  <2>8. at' \in 1..(Len(d) + 1) /\ at' \in Nat
    BY <1>2, <1>3, <1>5
  <2>9. Bounded(y, d)
    BY <1>3, <2>4 DEF Bounded
  <2>10. Control'
    BY <1>1, <1>2, <1>3, <1>5, <2>4, <2>7, <2>8, <2>9 DEF Control, HasIndex, Alive
  <2> QED BY <2>6, <2>10 DEF Sound
<1>6. CASE at > Len(d) /\ pc' = then /\ at' = 0 /\ index' = index
  <2>1. at - 1 = Len(d)
    BY <1>2, <1>3, <1>6
  <2>2. \A o \in Objs : Known(o)' = Known(o)
    BY <1>1, <1>3, <1>6, <2>1 DEF Known
  <2>3. IndexesOk' /\ Types'
    BY <1>1, <1>6, <2>2 DEF Sound, IndexesOk, Types
  <2>4. Ledger' /\ Holding'
    BY <1>1, <1>6 DEF Sound, Ledger, Holding, HasIndex, Alive
  <2>5. Control'
    BY <1>1, <1>2, <1>3, <1>6 DEF Control, Alive
  <2> QED BY <2>3, <2>4, <2>5 DEF Sound
<1> QED BY <1>5, <1>6 DEF Refill, This, Own

LEMMA AllocateFailsKeeps ==
  ASSUME Sound, AllocateFails
  PROVE  Sound'
<1>1. /\ pc = "build" /\ index' = index /\ live' = live /\ held' = held /\ Control' /\ pc' = "idle"
      /\ data' = (IF call.op = "clone" THEN [data EXCEPT ![call.o] = <<>>] ELSE data)
      /\ res' = (IF call.op = "clone" THEN [res EXCEPT ![call.o] = NoRes] ELSE res)
  BY ReturnControl DEF AllocateFails, cache, This
<1>2. call.o \in Objs /\ ~(index[call.o].cap > 0) /\ held = {}
  BY <1>1, CallFacts DEF Sound, Control, HasIndex
<1>3. \A o \in Objs : o # call.o => data'[o] = data[o] /\ res'[o] = res[o]
  BY <1>1 DEF Sound, Types
<1>4. Types'
  <2>1. <<>> \in Seq(Entries) /\ NoRes \in Resources \union {NoRes}
    OBVIOUS
  <2> QED BY <1>1, <1>2, <2>1 DEF Sound, Types
<1>5. IndexesOk'
  <2> SUFFICES ASSUME NEW o \in Objs PROVE IndexOk(index[o], data'[o], Known(o)')
    BY <1>1 DEF IndexesOk
  <2>1. CASE o = call.o
    BY <1>2, <2>1 DEF IndexOk
  <2>2. CASE o # call.o
    <3>1. Known(o)' = Len(data[o]) /\ Known(o) = Len(data[o])
      BY <1>1, <1>3, <2>2 DEF Known
    <3> QED BY <1>3, <2>2, <3>1 DEF Sound, IndexesOk
  <2> QED BY <2>1, <2>2
<1>6. Ledger'
  <2>1. \A c \in Resources : Owners(index', res', c) = Owners(index, res, c)
    BY <1>1, <1>2, <1>3 DEF Owners
  <2>2. \A o \in Objs : HasIndex(o)' => o \in Alive'
    BY <1>1, <1>2, <1>3 DEF Sound, Ledger, HasIndex, Alive
  <2> QED BY <1>1, <2>1, <2>2 DEF Sound, Ledger
<1>7. Holding'
  BY <1>1, <1>2 DEF Holding
<1> QED BY <1>1, <1>4, <1>5, <1>6, <1>7 DEF Sound

LEMMA NoteAppendKeeps ==
  ASSUME Sound, NoteAppend
  PROVE  Sound'
<1> DEFINE x == index[call.o]
           d == data[call.o]
           y == IndexInsert(x, d, Len(d))
<1>1. pc = "note"
  BY DEF NoteAppend
<1>2. /\ call \in Calls /\ call.o \in Objs /\ call.o \in Alive /\ call.p \in Alive
      /\ d \in Seq(Entries) /\ Len(d) \in Nat /\ x \in Indexes /\ d # <<>> /\ ~x.stale
      /\ pos \in Nat /\ at \in Nat
  BY <1>1, CallFacts DEF Sound, Control
<1>3. CASE Build("noted")
  BY <1>1, <1>3, BuildKeeps
<1>4. CASE /\ ~HasIndex(call.o) /\ pc' = "noted"
           /\ UNCHANGED <<store, cache, call, pos, at, then, old, ret>>
  <2>1. data' = data /\ res' = res /\ held' = held /\ index' = index /\ live' = live /\ call' = call
        /\ pos' = pos /\ at' = at
    BY <1>4 DEF store, cache
  <2>2. IndexesOk'
    <3> SUFFICES ASSUME NEW o \in Objs PROVE IndexOk(index[o], data[o], Known(o)')
      BY <2>1 DEF IndexesOk
    <3>1. CASE o = call.o
      BY <1>4, <3>1 DEF IndexOk, HasIndex
    <3>2. CASE o # call.o
      <4>1. Known(o)' = Len(data[o]) /\ Known(o) = Len(data[o])
        BY <1>4, <2>1, <3>2 DEF Known
      <4> QED BY <4>1 DEF Sound, IndexesOk
    <3> QED BY <3>1, <3>2
  <2>3. Types' /\ Ledger' /\ Holding'
    BY <1>1, <2>1 DEF Sound, Types, Ledger, Holding, HasIndex, Alive
  <2>4. Control'
    BY <1>2, <1>4, <2>1 DEF Control, Alive
  <2> QED BY <2>2, <2>3, <2>4 DEF Sound
<1>5. CASE /\ HasIndex(call.o) /\ 2 * (x.size + 1) <= x.cap /\ Stops(x, d, d[Len(d)].key) # {}
           /\ index' = [index EXCEPT ![call.o] = y] /\ pc' = "noted"
           /\ UNCHANGED <<store, live, call, pos, at, then, old, ret>>
  <2> DEFINE n == Len(d) - 1
  <2>1. n \in Nat /\ n + 1 = Len(d) /\ x.cap > 0 /\ n + 1 <= Len(d)
    BY <1>2, <1>5 DEF HasIndex
  <2>2. Filled(x) /\ Fresh(x, d, n)
    BY <1>1, <1>2, <2>1 DEF Sound, IndexesOk, IndexOk, Known
  <2>3. 2 * Cardinality(KeysOf(d, n + 1)) <= x.cap
    <3>1. x.size = Cardinality(KeysOf(d, n)) /\ x.cap \in Nat /\ x.size \in Nat
      BY <1>2, <2>2 DEF Fresh, Indexes
    <3>2. Cardinality(KeysOf(d, n + 1)) = x.size + (IF d[n + 1].key \in KeysOf(d, n) THEN 0 ELSE 1)
      <4> HIDE DEF n, d
      <4> QED BY <2>1, <3>1, KeysOfFacts
    <3> QED BY <1>5, <3>1, <3>2
  <2>4. Inserted(x, y, d, Len(d))
    <3>1. Stops(x, d, d[n + 1].key) # {}
      BY <1>5, <2>1
    <3>2. Inserted(x, IndexInsert(x, d, n + 1), d, n + 1)
      <4> HIDE DEF n, d, x
      <4> QED BY <1>2, <2>1, <2>2, <2>3, <3>1, InsertFresh
    <3> QED BY <2>1, <3>2
  <2>5. y \in Indexes /\ y.cap = x.cap /\ Fresh(y, d, Len(d)) /\ Filled(y) /\ ~y.stale
    BY <2>4 DEF Inserted, Fresh
  <2> HIDE DEF n, y
  <2>6. data' = data /\ res' = res /\ held' = held /\ live' = live /\ call' = call /\ pos' = pos /\ at' = at
    BY <1>5 DEF store
  <2>7. IndexOk(y, d, Known(call.o)') /\ \A o \in Objs : o # call.o => Known(o)' = Known(o)
    <3>1. Known(call.o)' = Len(d) /\ \A o \in Objs : o # call.o => Known(o)' = Known(o)
      BY <1>1, <1>5, <2>6 DEF Known
    <3> QED BY <2>5, <3>1 DEF IndexOk
  <2>8. Types' /\ IndexesOk' /\ Ledger' /\ Holding'
    BY <1>1, <1>2, <1>5, <2>5, <2>6, <2>7, OneMoreKnown
  <2>9. Control'
    BY <1>2, <1>5, <2>6 DEF Control, Alive
  <2> QED BY <2>8, <2>9 DEF Sound
<1> QED BY <1>3, <1>4, <1>5 DEF NoteAppend, This, Own, Last

(***************************************************************************)
(* Entries that change.                                                    *)
(***************************************************************************)
LEMMA AppendKeeps ==
  ASSUME Sound, pc = "found", call.op # "remove", NEW v \in Promise!Values, AppendEntry(call.k, v)
  PROVE  Sound'
<1> DEFINE d == data[call.o]
           e == Append(d, Promise!Entry(call.k, v))
<1>1. /\ call \in Calls /\ call.o \in Objs /\ call.o \in Alive /\ call.p \in Alive /\ d \in Seq(Entries)
      /\ Len(d) \in Nat /\ index[call.o] \in Indexes /\ held = {} /\ call.k \in Keys
      /\ ~index[call.o].stale /\ pos \in Nat /\ at \in Nat
  BY CallFacts DEF Sound, Control
<1>2. CASE Return(Promise!Thrown) /\ UNCHANGED <<store, cache>>
  BY <1>2, ReturnKeeps
<1>3. CASE /\ data' = [data EXCEPT ![call.o] = e] /\ pc' = "note"
           /\ UNCHANGED <<res, held, cache, call, pos, at, then, old, ret>>
  <2>1. res' = res /\ held' = held /\ index' = index /\ live' = live /\ call' = call /\ pos' = pos /\ at' = at
    BY <1>3 DEF cache
  <2>2. Promise!Entry(call.k, v) \in Entries
    BY <1>1 DEF Promise!Entry, Entries
  <2>3. e \in Seq(Entries) /\ Len(e) = Len(d) + 1 /\ \A i \in 1..Len(d) : e[i] = d[i]
    BY <1>1, <2>2
  <2> HIDE DEF e
  <2>4. data' \in [Objs -> Seq(Entries)] /\ data'[call.o] = e /\ \A o \in Objs : o # call.o => data'[o] = data[o]
    BY <1>1, <1>3, <2>3 DEF Sound, Types
  <2>5. IndexesOk'
    <3> SUFFICES ASSUME NEW o \in Objs PROVE IndexOk(index[o], data'[o], Known(o)')
      BY <2>1 DEF IndexesOk
    <3>1. CASE o = call.o
      <4>1. Known(o)' = Len(d) /\ Known(o) = Len(d)
        BY <1>1, <1>3, <2>1, <2>3, <2>4, <3>1 DEF Known
      <4>2. index[o].cap > 0 => Filled(index[o]) /\ Fresh(index[o], d, Len(d))
        BY <1>1, <3>1, <4>1 DEF Sound, IndexesOk, IndexOk
      <4>3. \A i \in 1..Len(d) : e[i].key = d[i].key /\ d[i].key \in Keys
        BY <1>1, <2>3, EntryKeys
      <4>4. Fresh(index[o], d, Len(d)) => Fresh(index[o], e, Len(d))
        <5> HIDE DEF d
        <5> QED BY <1>1, <3>1, <4>3, FreshAgrees
      <4> QED BY <1>1, <2>4, <3>1, <4>1, <4>2, <4>4 DEF IndexOk
    <3>2. CASE o # call.o
      <4>1. Known(o)' = Len(data[o]) /\ Known(o) = Len(data[o])
        BY <1>3, <2>1, <2>4, <3>2 DEF Known
      <4> QED BY <2>4, <3>2, <4>1 DEF Sound, IndexesOk
    <3> QED BY <3>1, <3>2
  <2>6. Types' /\ Ledger' /\ Holding'
    BY <2>1, <2>4 DEF Sound, Types, Ledger, Holding, HasIndex, Alive
  <2>7. e # <<>>
    BY <1>1, <2>3
  <2>8. Control'
    BY <1>1, <1>3, <2>1, <2>4, <2>7 DEF Control, Alive
  <2> QED BY <2>5, <2>6, <2>8 DEF Sound
<1> QED BY <1>2, <1>3 DEF AppendEntry, This

\* d and e have the same keys.
SameKeys(d, e) == Len(e) = Len(d) /\ \A i \in 1..Len(d) : e[i].key = d[i].key

LEMMA SameKeysOk ==
  ASSUME NEW x \in Indexes, NEW d \in Seq(Entries), NEW e \in Seq(Entries), SameKeys(d, e),
         IndexOk(x, d, Len(d))
  PROVE  IndexOk(x, e, Len(e))
<1>1. Len(d) \in Nat /\ Len(e) = Len(d) /\ \A i \in 1..Len(d) : e[i].key = d[i].key /\ d[i].key \in Keys
  BY EntryKeys DEF SameKeys
<1>2. Fresh(x, d, Len(d)) => Fresh(x, e, Len(d))
  BY <1>1, FreshAgrees
<1>3. KeysOf(e, Len(e)) = KeysOf(d, Len(d))
  BY <1>1 DEF KeysOf
<1> QED BY <1>1, <1>2, <1>3 DEF IndexOk, Bounded

LEMMA NewValue ==
  ASSUME NEW d \in Seq(Entries), NEW i \in 1..Len(d), NEW w \in Promise!Values,
         NEW e, e = [d EXCEPT ![i].val = w]
  PROVE  e \in Seq(Entries) /\ SameKeys(d, e)
<1> DEFINE new == [d[i] EXCEPT !.val = w]
<1>1. d[i] \in Entries
  OBVIOUS
<1>2. new \in Entries /\ new.key = d[i].key
  <2> DEFINE c == d[i]
  <2>1. c \in Entries
    BY <1>1
  <2> HIDE DEF c
  <2>2. [c EXCEPT !.val = w] \in Entries /\ [c EXCEPT !.val = w].key = c.key
    BY <2>1 DEF Entries
  <2> QED BY <2>2 DEF c
<1>3. e = [d EXCEPT ![i] = new]
  OBVIOUS
<1> HIDE DEF new
<1>4. e \in Seq(Entries) /\ Len(e) = Len(d) /\ e[i] = new /\ \A j \in 1..Len(d) : j # i => e[j] = d[j]
  BY <1>2, <1>3
<1> QED BY <1>2, <1>4 DEF SameKeys

\* A value is replaced: the keys, and with them the index, stay right.
LEMMA ReplaceKeeps ==
  ASSUME Sound, pc = "found", pos # 0, NEW w \in Promise!Values,
         data' = [data EXCEPT ![call.o][pos].val = w], UNCHANGED <<res, held, cache>>,
         pc' \notin {"refill", "note"}, Control'
  PROVE  Sound'
<1> DEFINE d == data[call.o]
           e == [d EXCEPT ![pos].val = w]
<1>1. call.o \in Objs /\ d \in Seq(Entries) /\ pos \in 0..Len(d) /\ Len(d) \in Nat /\ held = {}
  <2>1. call.o \in Objs /\ d \in Seq(Entries) /\ held = {}
    BY CallFacts
  <2>2. pos = Promise!FirstAt(d, call.k)
    BY DEF Sound, Control
  <2> QED BY <2>1, <2>2, FirstAtFacts
<1>2. pos \in 1..Len(d)
  BY <1>1
<1>3. data' = [data EXCEPT ![call.o] = e]
  BY <1>1 DEF Sound, Types
<1>4. e \in Seq(Entries) /\ SameKeys(d, e)
  <2> HIDE DEF d
  <2> QED BY <1>1, <1>2, NewValue
<1> HIDE DEF e
<1>5. data' \in [Objs -> Seq(Entries)] /\ data'[call.o] = e /\ \A o \in Objs : o # call.o => data'[o] = data[o]
  BY <1>1, <1>3, <1>4 DEF Sound, Types
<1>6. res' = res /\ held' = held /\ index' = index /\ live' = live
  BY DEF cache
<1>7. IndexesOk'
  <2> SUFFICES ASSUME NEW o \in Objs PROVE IndexOk(index[o], data'[o], Len(data'[o]))
    BY <1>6 DEF IndexesOk, Known
  <2>1. IndexOk(index[o], data[o], Len(data[o])) /\ index[o] \in Indexes
    BY DEF Sound, IndexesOk, Known, Types
  <2>2. CASE o = call.o
    <3> HIDE DEF d
    <3>1. IndexOk(index[o], d, Len(d))
      BY <2>1, <2>2 DEF d
    <3> QED BY <1>1, <1>4, <1>5, <2>1, <2>2, <3>1, SameKeysOk
  <2>3. CASE o # call.o
    BY <1>5, <2>1, <2>3
  <2> QED BY <2>2, <2>3
<1>8. Types' /\ Ledger' /\ Holding'
  BY <1>1, <1>5, <1>6 DEF Sound, Types, Ledger, Holding, HasIndex, Alive
<1> QED BY <1>7, <1>8 DEF Sound

LEMMA CallValue ==
  ASSUME Sound, pc # "idle"
  PROVE  call.v \in Promise!Values
BY CallFacts DEF Calls

LEMMA InsertFoundKeeps ==
  ASSUME Sound, InsertFound
  PROVE  Sound'
<1>1. pc = "found" /\ call.op = "insert" /\ call.v \in Promise!Values
  BY CallValue DEF InsertFound
<1>2. CASE /\ pos # 0 /\ data' = [data EXCEPT ![This][pos].val = call.v]
           /\ Return(Promise!Ok) /\ UNCHANGED <<res, held, cache>>
  <2>1. Control' /\ pc' = "idle"
    BY <1>2, ReturnControl
  <2> QED BY <1>1, <1>2, <2>1, ReplaceKeeps DEF This
<1>3. CASE pos = 0 /\ AppendEntry(call.k, call.v)
  BY <1>1, <1>3, AppendKeeps
<1> QED BY <1>2, <1>3 DEF InsertFound

LEMMA SubscriptFoundKeeps ==
  ASSUME Sound, SubscriptFound
  PROVE  Sound'
<1>1. pc = "found" /\ call.op = "subscript"
  BY DEF SubscriptFound
<1>2. CASE Return(Promise!Found(pos)) /\ UNCHANGED <<store, cache>>
  BY <1>1, <1>2, ReturnKeeps
<1>3. CASE AppendEntry(call.k, NullValue)
  BY <1>1, <1>3, NullIsValue, AppendKeeps
<1> QED BY <1>2, <1>3 DEF SubscriptFound

\* A nested object maps some of the leaves to scalars.
LEMMA NestedFacts ==
  ASSUME NEW v \in Promise!Values, v.kind = "object"
  PROVE  /\ v.of \in Promise!Members /\ DOMAIN v.of \subseteq Leaves
         /\ \A l \in DOMAIN v.of : v.of[l] \in Scalars
<1>1. v.of \in Promise!Members
  BY DEF Promise!Values, Promise!Scalar, Promise!Nested
<1>2. PICK ls \in SUBSET Leaves : v.of \in [ls -> Scalars]
  BY <1>1 DEF Promise!Members
<1> QED BY <1>1, <1>2

LEMMA WithMembersType ==
  ASSUME NEW v \in Promise!Values, NEW w \in Promise!Values, Promise!BothNested(v, w),
         NEW ls \in SUBSET DOMAIN w.of
  PROVE  Promise!Nested(Promise!WithMembers(v, w, ls)) \in Promise!Values
<1> DEFINE f == Promise!WithMembers(v, w, ls)
           all == DOMAIN v.of \union ls
<1>1. v.kind = "object" /\ w.kind = "object"
  BY DEF Promise!BothNested
<1>2. all \in SUBSET Leaves
  BY <1>1, NestedFacts
<1>3. \A l \in all : (IF l \in ls THEN w.of[l] ELSE v.of[l]) \in Scalars
  BY <1>1, NestedFacts
<1>4. f \in [all -> Scalars]
  BY <1>3 DEF Promise!WithMembers
<1> HIDE DEF f, all
<1>5. f \in Promise!Members
  BY <1>2, <1>4 DEF Promise!Members
<1> QED BY <1>5 DEF Promise!Values, f

LEMMA MergedType ==
  ASSUME NEW v \in Promise!Values, NEW w \in Promise!Values
  PROVE  Promise!MergedValue(v, w) \in Promise!Values
<1>1. CASE Promise!BothNested(v, w)
  BY <1>1, WithMembersType, NestedFacts DEF Promise!MergedValue
<1>2. CASE ~Promise!BothNested(v, w)
  BY <1>2 DEF Promise!MergedValue
<1> QED BY <1>1, <1>2

\* A merge that stops half-way still leaves a value.
LEMMA PartlyType ==
  ASSUME NEW v \in Promise!Values, NEW w \in Promise!Values, NEW z \in Promise!Partly(v, w)
  PROVE  z \in Promise!Values
<1>1. CASE Promise!BothNested(v, w)
  <2>1. PICK ls \in SUBSET DOMAIN w.of : z = Promise!Nested(Promise!WithMembers(v, w, ls))
    BY <1>1 DEF Promise!Partly
  <2> QED BY <1>1, <2>1, WithMembersType
<1>2. CASE ~Promise!BothNested(v, w)
  BY <1>2 DEF Promise!Partly
<1> QED BY <1>1, <1>2

LEMMA MergeFoundKeeps ==
  ASSUME Sound, MergeFound
  PROVE  Sound'
<1>1. pc = "found" /\ call.op = "merge" /\ call.v \in Promise!Values
  BY CallValue DEF MergeFound
<1>2. CASE /\ pos # 0 /\ data' = [data EXCEPT ![This][pos].val = Promise!MergedValue(@, call.v)]
           /\ pc' = "loop" /\ pos' = 0 /\ UNCHANGED <<res, held, cache, call, at, then, old, ret>>
  <2> DEFINE d == data[call.o]
             w == Promise!MergedValue(d[pos].val, call.v)
  <2>1. call \in Calls /\ call.o \in Objs /\ call.o \in Alive /\ call.p \in Alive /\ d \in Seq(Entries) /\ at \in Nat
    BY <1>1, CallFacts DEF Sound, Control
  <2>2. pos \in 1..Len(d)
    <3>1. pos = Promise!FirstAt(d, call.k)
      BY <1>1 DEF Sound, Control
    <3>2. pos \in 0..Len(d)
      BY <2>1, <3>1, FirstAtFacts
    <3> QED BY <1>2, <3>2
  <2>3. w \in Promise!Values
    <3>1. d[pos].val \in Promise!Values
      BY <2>1, <2>2, EntryKeys
    <3> QED BY <1>1, <3>1, MergedType
  <2>4. data' = [data EXCEPT ![call.o][pos].val = w]
    BY <1>2, <2>1, <2>2 DEF This, Sound, Types
  <2> HIDE DEF w
  <2>5. Control'
    BY <1>2, <2>1 DEF Control, Alive
  <2>6. UNCHANGED <<res, held, cache>> /\ pc' \notin {"refill", "note"} /\ pos # 0
    BY <1>2
  <2> QED BY <1>1, <2>3, <2>4, <2>5, <2>6, ReplaceKeeps
<1>3. ASSUME pos # 0, NEW z \in Promise!Partly(Own[pos].val, call.v),
             data' = [data EXCEPT ![This][pos].val = z], Return(Promise!Thrown),
             UNCHANGED <<res, held, cache>>
      PROVE  Sound'
  <2>1. Control' /\ pc' = "idle"
    BY <1>3, ReturnControl
  <2>2. data[call.o] \in Seq(Entries) /\ pos = Promise!FirstAt(data[call.o], call.k)
    BY <1>1, CallFacts DEF Sound, Control
  <2>3. pos \in 1..Len(data[call.o])
    BY <1>3, <2>2, FirstAtFacts
  <2>4. data[call.o][pos].val \in Promise!Values
    BY <2>2, <2>3, EntryKeys
  <2>5. z \in Promise!Values
    BY <1>1, <1>3, <2>4, PartlyType DEF Own, This
  <2> QED BY <1>1, <1>3, <2>1, <2>5, ReplaceKeeps DEF This
<1>4. CASE AppendEntry(call.k, call.v)
  BY <1>1, <1>4, AppendKeeps
<1> QED BY <1>2, <1>3, <1>4 DEF MergeFound

\* Every key of the shorter sequence was one before.
LEMMA RemoveAtFacts ==
  ASSUME NEW d \in Seq(Entries), NEW i \in 1..Len(d), NEW e, e = RemoveAt(d, i)
  PROVE  /\ e \in Seq(Entries) /\ Len(e) = Len(d) - 1
         /\ \A j \in 1..Len(e) : e[j] = IF j < i THEN d[j] ELSE d[j + 1]
<1> DEFINE a == SubSeq(d, 1, i - 1)
           b == SubSeq(d, i + 1, Len(d))
<1>0. Len(d) \in Nat /\ i \in 1..Len(d)
  OBVIOUS
<1>1. a \in Seq(Entries) /\ Len(a) = i - 1 /\ \A j \in 1..(i - 1) : a[j] = d[j]
  BY <1>0
<1>2. b \in Seq(Entries) /\ Len(b) = Len(d) - i /\ \A j \in 1..(Len(d) - i) : b[j] = d[j + i]
  BY <1>0
<1>3. e = a \o b
  BY DEF RemoveAt
<1> HIDE DEF a, b
<1>4. e \in Seq(Entries) /\ Len(e) = Len(d) - 1
  BY <1>0, <1>1, <1>2, <1>3
<1>5. ASSUME NEW j \in 1..Len(e) PROVE e[j] = IF j < i THEN d[j] ELSE d[j + 1]
  <2>1. CASE j < i
    BY <1>0, <1>1, <1>2, <1>3, <1>4, <2>1
  <2>2. CASE j >= i
    <3>1. j - (i - 1) \in 1..(Len(d) - i) /\ (j - (i - 1)) + i = j + 1
      BY <1>0, <1>4, <2>2
    <3>2. e[j] = b[j - Len(a)]
      <4>1. Len(a) \in Nat /\ Len(b) \in Nat /\ j \in 1..(Len(a) + Len(b)) /\ ~(j <= Len(a))
        BY <1>0, <1>1, <1>2, <1>4, <2>2
      <4>2. a \in Seq(Entries) /\ b \in Seq(Entries)
        BY <1>1, <1>2
      <4> QED BY <1>3, <4>1, <4>2
    <3>3. b[j - (i - 1)] = d[j + 1]
      BY <1>2, <3>1
    <3>4. Len(a) = i - 1 /\ ~(j < i)
      BY <1>0, <1>1, <2>2
    <3> QED BY <3>2, <3>3, <3>4, Zenon
  <2> QED BY <1>0, <2>1, <2>2
<1> QED BY <1>4, <1>5

\* The index of the object an entry was erased from: dropped, or marked stale.
LEMMA RemoveFoundKeeps ==
  ASSUME Sound, RemoveFound
  PROVE  Sound'
<1> DEFINE d == data[call.o]
           e == RemoveAt(d, pos)
           x == index[call.o]
<1>1. pc = "found" /\ res' = res /\ held' = held
  BY DEF RemoveFound
<1>2. /\ call.o \in Objs /\ d \in Seq(Entries) /\ Len(d) \in Nat /\ pos \in 0..Len(d) /\ x \in Indexes /\ held = {}
  <2>1. call.o \in Objs /\ d \in Seq(Entries) /\ x \in Indexes /\ held = {}
    BY <1>1, CallFacts
  <2>2. pos = Promise!FirstAt(d, call.k)
    BY <1>1 DEF Sound, Control
  <2> QED BY <2>1, <2>2, FirstAtFacts
<1>3. CASE Return(Promise!Truth(FALSE)) /\ data' = data /\ UNCHANGED cache
  BY <1>1, <1>3, ReturnKeeps DEF store
<1>4. CASE /\ pos # 0 /\ data' = [data EXCEPT ![call.o] = e] /\ Return(Promise!Truth(TRUE))
           /\ IF Len(d) - 1 <= Threshold THEN FreeIndex(call.o)
              ELSE /\ index' = [index EXCEPT ![call.o].stale = HasIndex(call.o)]
                   /\ UNCHANGED live
  <2>1. Control' /\ pc' = "idle"
    BY <1>4, ReturnControl
  <2>2. /\ e \in Seq(Entries) /\ Len(e) = Len(d) - 1
        /\ \A j \in 1..Len(e) : e[j] = IF j < pos THEN d[j] ELSE d[j + 1]
    <3>1. pos \in 1..Len(d)
      BY <1>2, <1>4
    <3> HIDE DEF d
    <3> QED BY <1>2, <3>1, RemoveAtFacts
  <2> HIDE DEF e
  <2>3. data' \in [Objs -> Seq(Entries)] /\ data'[call.o] = e /\ \A o \in Objs : o # call.o => data'[o] = data[o]
    BY <1>2, <1>4, <2>2 DEF Sound, Types
  <2>4. \A o \in Objs : o # call.o => IndexOk(index[o], data'[o], Len(data'[o]))
    <3> SUFFICES ASSUME NEW o \in Objs, o # call.o PROVE IndexOk(index[o], data'[o], Len(data'[o]))
      OBVIOUS
    <3>1. Known(o) = Len(data[o])
      BY <1>1 DEF Known
    <3> QED BY <2>3, <3>1 DEF Sound, IndexesOk
  <2>5. CASE Len(d) - 1 <= Threshold
    <3>1. Frees(call.o, res')
      BY <1>1, <1>2, <1>4, <2>5, FreeIndexFrees DEF Sound
    <3>2. Ledger'
      BY <1>1, <1>2, <3>1, FreesLedger DEF Sound
    <3>3. IndexesOk'
      <4>1. IndexOk(index'[call.o], data'[call.o], Len(data'[call.o]))
        BY <3>1, NoIndexOk DEF Frees
      <4>2. \A o \in Objs : IndexOk(index'[o], data'[o], Len(data'[o]))
        BY <2>4, <3>1, <4>1 DEF Frees
      <4> QED BY <2>1, <4>2 DEF IndexesOk, Known
    <3>4. Types' /\ Holding'
      BY <1>1, <1>2, <2>3, <3>1 DEF Sound, Types, Holding, Frees
    <3> QED BY <2>1, <3>2, <3>3, <3>4 DEF Sound
  <2>6. CASE ~(Len(d) - 1 <= Threshold)
    <3> DEFINE y == [x EXCEPT !.stale = HasIndex(call.o)]
    <3>1. index' = [index EXCEPT ![call.o] = y] /\ live' = live
      BY <1>2, <1>4, <2>6 DEF Sound, Types
    <3>2. y \in Indexes /\ y.cap = x.cap /\ y.size = x.size /\ y.slots = x.slots /\ (x.cap > 0 => y.stale)
      <4>1. HasIndex(call.o) \in BOOLEAN /\ (HasIndex(call.o) <=> x.cap > 0)
        BY DEF HasIndex
      <4> HIDE DEF x
      <4> QED BY <1>2, <4>1 DEF Indexes
    <3> HIDE DEF y
    <3>3. index' \in [Objs -> Indexes] /\ index'[call.o] = y /\ \A o \in Objs : o # call.o => index'[o] = index[o]
      BY <1>2, <3>1, <3>2 DEF Sound, Types
    <3>4. Occupied(y) = Occupied(x)
      BY <3>2 DEF Occupied
    <3>5. x.cap > 0 => Filled(y) /\ Bounded(y, e)
      <4> SUFFICES ASSUME x.cap > 0 PROVE Filled(y) /\ Bounded(y, e)
        OBVIOUS
      <4>1. Filled(x)
        BY <1>2 DEF Sound, IndexesOk, IndexOk
      <4>2. Bounded(x, d)
        <5>1. CASE x.stale
          BY <1>2, <5>1 DEF Sound, IndexesOk, IndexOk
        <5>2. CASE ~x.stale
          <6>1. Fresh(x, d, Len(d))
            BY <1>1, <1>2, <5>2 DEF Sound, IndexesOk, IndexOk, Known
          <6> QED BY <4>1, <6>1 DEF Fresh, Filled, Bounded
        <5> QED BY <5>1, <5>2
      <4>3. Cardinality(KeysOf(e, Len(e))) <= Cardinality(KeysOf(d, Len(d)))
        <5>1. Len(e) \in Nat /\ \A j \in 1..Len(e) : j \in 1..Len(d) /\ j + 1 \in 1..Len(d)
          BY <1>2, <2>2
        <5>2. \A j \in 1..Len(e) : \E h \in 1..Len(d) : e[j].key = d[h].key
          BY <2>2, <5>1
        <5> HIDE DEF d
        <5> QED BY <1>2, <5>1, <5>2, FewerKeys
      <4>4. /\ Cardinality(KeysOf(e, Len(e))) \in Nat /\ Cardinality(KeysOf(d, Len(d))) \in Nat
            /\ x.cap \in Nat
        <5>1. Len(e) \in Nat
          BY <1>2, <2>2
        <5>2. x.cap \in Nat
          BY <1>2 DEF Indexes
        <5> HIDE DEF d, x
        <5> QED BY <1>2, <5>1, <5>2, KeysOfFacts
      <4>5. Bounded(y, e)
        BY <3>2, <4>2, <4>3, <4>4 DEF Bounded
      <4> QED BY <3>2, <3>4, <4>1, <4>5 DEF Filled
    <3>6. IndexesOk'
      <4>1. IndexOk(index'[call.o], data'[call.o], Len(data'[call.o]))
        BY <2>3, <3>2, <3>3, <3>5 DEF IndexOk
      <4>2. \A o \in Objs : IndexOk(index'[o], data'[o], Len(data'[o]))
        BY <2>4, <3>3, <4>1
      <4> QED BY <2>1, <4>2 DEF IndexesOk, Known
    <3>7. Ledger'
      <4>1. \A o \in Objs : index'[o].cap = index[o].cap
        BY <3>2, <3>3
      <4>2. \A c \in Resources : Owners(index', res, c) = Owners(index, res, c)
        BY <4>1 DEF Owners
      <4> QED BY <1>1, <3>1, <4>1, <4>2 DEF Sound, Ledger, HasIndex, Alive
    <3>8. Types' /\ Holding'
      BY <1>1, <1>2, <2>3, <3>3 DEF Sound, Types, Holding
    <3> QED BY <2>1, <3>6, <3>7, <3>8 DEF Sound
  <2> QED BY <2>5, <2>6
<1> QED BY <1>3, <1>4 DEF RemoveFound, This, Own

(***************************************************************************)
(* Calls without a lookup.                                                 *)
(***************************************************************************)
LEMMA IdleFacts ==
  ASSUME Sound, pc = "idle"
  PROVE  \A o \in Objs : IndexOk(index[o], data[o], Len(data[o])) /\ index[o] \in Indexes /\ data[o] \in Seq(Entries)
BY DEF Sound, IndexesOk, Known, Types

\* What such a call has to leave: indexes that are right for the entries they
\* are now with.
LEMMA AtomicKeeps ==
  ASSUME Sound, pc = "idle", pc' = "idle", pos' = pos, at' = at, Types', Ledger',
         \A o \in Objs : IndexOk(index'[o], data'[o], Len(data'[o])),
         held' \subseteq Objs, \A o \in held' : ~(index'[o].cap > 0)
  PROVE  Sound'
<1>1. Control'
  BY DEF Sound, Control
<1>2. IndexesOk'
  BY DEF IndexesOk, Known
<1>3. Holding'
  BY DEF Holding, HasIndex
<1> QED BY <1>1, <1>2, <1>3 DEF Sound

LEMMA ConstructKeeps ==
  ASSUME Sound, program \in Programs, ~program.holdsData, Construct
  PROVE  Sound'
<1>1. PICK o \in program.objs \ Alive, r \in program.resources :
        /\ pc = "idle" /\ pc' = "idle" /\ pos' = pos /\ at' = at /\ res' = [res EXCEPT ![o] = r]
        /\ held' = {} /\ index' = index /\ live' = live
        /\ data' = data \/ \E d \in program.vectors : data' = [data EXCEPT ![o] = d]
  BY DEF Construct, Atomic, Keep, cache
<1>2. o \in Objs /\ o \notin Alive /\ r \in Resources /\ \A e \in program.vectors : e \in Seq(Entries)
  BY IndexAssumption
<1>3. /\ res' \in [Objs -> Resources \union {NoRes}] /\ res'[o] = r
      /\ \A x \in Objs : x # o => res'[x] = res[x]
  BY <1>1, <1>2 DEF Sound, Types
<1>4. data' \in [Objs -> Seq(Entries)] /\ \A x \in Objs : x # o => data'[x] = data[x]
  BY <1>1, <1>2 DEF Sound, Types
<1>5. ~(index[o].cap > 0)
  BY <1>2 DEF Sound, Ledger, HasIndex
<1>6. Types'
  BY <1>1, <1>3, <1>4 DEF Sound, Types
<1>7. Ledger'
  <2>1. \A c \in Resources : Owners(index', res', c) = Owners(index, res, c)
    BY <1>1, <1>3, <1>5 DEF Owners
  <2>2. \A x \in Objs : HasIndex(x)' => x \in Alive'
    BY <1>1, <1>3, <1>5 DEF Sound, Ledger, HasIndex, Alive
  <2> QED BY <1>1, <2>1, <2>2 DEF Sound, Ledger
<1>8. \A x \in Objs : IndexOk(index'[x], data'[x], Len(data'[x]))
  <2> SUFFICES ASSUME NEW x \in Objs PROVE IndexOk(index[x], data'[x], Len(data'[x]))
    BY <1>1
  <2>1. CASE x = o
    BY <1>5, <2>1 DEF IndexOk
  <2>2. CASE x # o
    BY <1>1, <1>4, <2>2, IdleFacts
  <2> QED BY <2>1, <2>2
<1> QED BY <1>1, <1>6, <1>7, <1>8, AtomicKeeps

\* Destroy, Clear, TakeData: the index of one object is dropped.
LEMMA DropKeeps ==
  ASSUME Sound, ~program.holdsData, Destroy \/ Clear \/ TakeData
  PROVE  Sound'
<1>1. PICK o \in Alive :
        /\ pc = "idle" /\ pc' = "idle" /\ pos' = pos /\ at' = at /\ FreeIndex(o) /\ held' \subseteq {o}
        /\ data' = data \/ data' = [data EXCEPT ![o] = <<>>]
        /\ res' = res \/ res' = [res EXCEPT ![o] = NoRes]
  BY DEF Destroy, Clear, TakeData, Atomic, Keep
<1>2. o \in Objs
  BY DEF Alive
<1>3. /\ res' \in [Objs -> Resources \union {NoRes}] /\ \A x \in Objs : x # o => res'[x] = res[x]
  <2>1. NoRes \in Resources \union {NoRes}
    OBVIOUS
  <2> QED BY <1>1, <1>2, <2>1 DEF Sound, Types
<1>4. data' \in [Objs -> Seq(Entries)] /\ \A x \in Objs : x # o => data'[x] = data[x]
  <2>1. <<>> \in Seq(Entries)
    OBVIOUS
  <2> QED BY <1>1, <1>2, <2>1 DEF Sound, Types
<1>5. Frees(o, res')
  BY <1>1, <1>2, <1>3, FreeIndexFrees DEF Sound
<1>6. Ledger'
  BY <1>2, <1>3, <1>5, FreesLedger DEF Sound
<1>7. Types'
  BY <1>3, <1>4, <1>5 DEF Types, Frees
<1>8. \A x \in Objs : IndexOk(index'[x], data'[x], Len(data'[x]))
  <2> SUFFICES ASSUME NEW x \in Objs PROVE IndexOk(index'[x], data'[x], Len(data'[x]))
    OBVIOUS
  <2>1. CASE x = o
    BY <1>5, <2>1, NoIndexOk DEF Frees
  <2>2. CASE x # o
    BY <1>1, <1>4, <1>5, <2>2, IdleFacts DEF Frees
  <2> QED BY <2>1, <2>2
<1>9. held' \subseteq Objs /\ \A x \in held' : ~(index'[x].cap > 0)
  BY <1>1, <1>2, <1>5, NoIndexType DEF Frees
<1> QED BY <1>1, <1>6, <1>7, <1>8, <1>9, AtomicKeeps

LEMMA EditKey ==
  ASSUME NEW d \in Seq(Entries), NEW i \in 1..Len(d), NEW k \in Keys
  PROVE  [d EXCEPT ![i].key = k] \in Seq(Entries)
<1> DEFINE c == d[i]
           new == [c EXCEPT !.key = k]
<1>1. c \in Entries
  OBVIOUS
<1> HIDE DEF c
<1>2. new \in Entries
  BY <1>1 DEF Entries
<1> HIDE DEF new
<1>3. [d EXCEPT ![i] = new] \in Seq(Entries)
  BY <1>2
<1> QED BY <1>3 DEF new, c

\* The entries of an object without an index are edited.
LEMMA EditDataKeeps ==
  ASSUME Sound, EditData
  PROVE  Sound'
<1>0. PICK o \in held : \E i, j \in 1..Len(data[o]) :
        /\ Atomic("data", <<"given", 0>>)
        /\ \/ \E k \in Keys : data' = [data EXCEPT ![o][i].key = k]
           \/ i < j /\ data' = [data EXCEPT ![o][i] = data[o][j], ![o][j] = data[o][i]]
        /\ UNCHANGED <<res, held, cache>>
  BY DEF EditData
<1>1. PICK i \in 1..Len(data[o]), j \in 1..Len(data[o]) :
        /\ pc = "idle" /\ pc' = "idle" /\ pos' = pos /\ at' = at /\ res' = res /\ held' = held
        /\ index' = index /\ live' = live
        /\ \/ \E k \in Keys : data' = [data EXCEPT ![o][i].key = k]
           \/ data' = [data EXCEPT ![o][i] = data[o][j], ![o][j] = data[o][i]]
  BY <1>0 DEF Atomic, cache
<1> DEFINE d == data[o]
<1>2. o \in Objs /\ ~(index[o].cap > 0) /\ d \in Seq(Entries) /\ held \subseteq Objs
  BY DEF Sound, Holding, HasIndex, Types
<1>3. PICK e \in Seq(Entries) : data' = [data EXCEPT ![o] = e]
  <2>1. CASE \E k \in Keys : data' = [data EXCEPT ![o][i].key = k]
    <3>1. PICK k \in Keys : data' = [data EXCEPT ![o][i].key = k]
      BY <2>1
    <3>2. [d EXCEPT ![i].key = k] \in Seq(Entries)
      <4> HIDE DEF d
      <4>1. i \in 1..Len(d)
        BY DEF d
      <4> QED BY <1>2, <4>1, EditKey
    <3>3. data' = [data EXCEPT ![o] = [d EXCEPT ![i].key = k]]
      BY <1>2, <3>1 DEF Sound, Types
    <3> QED BY <3>2, <3>3
  <2>2. CASE data' = [data EXCEPT ![o][i] = data[o][j], ![o][j] = data[o][i]]
    <3> DEFINE e == [d EXCEPT ![i] = d[j], ![j] = d[i]]
    <3>1. e \in Seq(Entries)
      <4>1. d[i] \in Entries /\ d[j] \in Entries
        BY <1>2
      <4> QED BY <1>2, <4>1
    <3>2. data' = [data EXCEPT ![o] = e]
      BY <1>2, <2>2 DEF Sound, Types
    <3> QED BY <3>1, <3>2
  <2> QED BY <1>1, <2>1, <2>2
<1>4. data' \in [Objs -> Seq(Entries)] /\ \A x \in Objs : x # o => data'[x] = data[x]
  BY <1>2, <1>3 DEF Sound, Types
<1>5. Types' /\ Ledger'
  BY <1>1, <1>4 DEF Sound, Types, Ledger, HasIndex, Alive
<1>6. \A x \in Objs : IndexOk(index'[x], data'[x], Len(data'[x]))
  <2> SUFFICES ASSUME NEW x \in Objs PROVE IndexOk(index[x], data'[x], Len(data'[x]))
    BY <1>1
  <2>1. CASE x = o
    BY <1>2, <2>1 DEF IndexOk
  <2>2. CASE x # o
    BY <1>1, <1>4, <2>2, IdleFacts
  <2> QED BY <2>1, <2>2
<1>7. held' \subseteq Objs /\ \A x \in held' : ~(index'[x].cap > 0)
  BY <1>1 DEF Sound, Holding, HasIndex
<1> QED BY <1>1, <1>5, <1>6, <1>7, AtomicKeeps

LEMMA CloneKeeps ==
  ASSUME Sound, program \in Programs, ~program.holdsData, Clone
  PROVE  Sound'
<1>1. PICK o \in program.objs \ Alive, p \in Alive, r \in program.resources :
        /\ pc = "idle" /\ held' = {} /\ index' = index /\ live' = live /\ pos' = pos /\ at' = at
        /\ \/ /\ call' = [NoCall EXCEPT !.op = "clone", !.o = o, !.p = p]
              /\ data' = [data EXCEPT ![o] = data[p]] /\ res' = [res EXCEPT ![o] = r]
              /\ pc' = IF Len(data[p]) > Threshold THEN "ensure" ELSE "noted"
           \/ data' = data /\ res' = res /\ pc' = pc
  BY DEF Clone, Keep, cache
<1>2. o \in Objs /\ o \notin Alive /\ p \in Objs /\ r \in Resources /\ r # NoRes /\ o # p
  BY IndexAssumption DEF Alive
<1>3. ~(index[o].cap > 0)
  BY <1>2 DEF Sound, Ledger, HasIndex
<1>4. CASE data' = data /\ res' = res /\ pc' = pc
  <2>1. Types' /\ Ledger'
    BY <1>1, <1>4 DEF Sound, Types, Ledger, HasIndex, Alive
  <2> QED BY <1>1, <1>4, <2>1, IdleFacts, AtomicKeeps
<1>5. CASE /\ call' = [NoCall EXCEPT !.op = "clone", !.o = o, !.p = p]
           /\ data' = [data EXCEPT ![o] = data[p]] /\ res' = [res EXCEPT ![o] = r]
           /\ pc' = IF Len(data[p]) > Threshold THEN "ensure" ELSE "noted"
  <2>1. /\ res' \in [Objs -> Resources \union {NoRes}] /\ res'[o] = r
        /\ \A x \in Objs : x # o => res'[x] = res[x]
    BY <1>2, <1>5 DEF Sound, Types
  <2>2. data' \in [Objs -> Seq(Entries)] /\ \A x \in Objs : x # o => data'[x] = data[x]
    BY <1>2, <1>5 DEF Sound, Types
  <2>3. Types'
    BY <1>1, <2>1, <2>2 DEF Sound, Types
  <2>4. Ledger'
    <3>1. \A c \in Resources : Owners(index', res', c) = Owners(index, res, c)
      BY <1>1, <1>3, <2>1 DEF Owners
    <3>2. \A x \in Objs : HasIndex(x)' => x \in Alive'
      BY <1>1, <1>3, <2>1 DEF Sound, Ledger, HasIndex, Alive
    <3> QED BY <1>1, <3>1, <3>2 DEF Sound, Ledger
  <2>5. pc' \in {"ensure", "noted"}
    BY <1>5
  <2>6. IndexesOk'
    <3>1. \A x \in Objs : IndexOk(index[x], data'[x], Len(data'[x]))
      <4> SUFFICES ASSUME NEW x \in Objs PROVE IndexOk(index[x], data'[x], Len(data'[x]))
        OBVIOUS
      <4>1. CASE x = o
        BY <1>3, <4>1 DEF IndexOk
      <4>2. CASE x # o
        BY <1>1, <2>2, <4>2, IdleFacts
      <4> QED BY <4>1, <4>2
    <3> QED BY <1>1, <2>5, <3>1 DEF IndexesOk, Known
  <2>7. call' \in Calls /\ call'.o = o /\ call'.p = p
    <3> DEFINE a == CHOOSE x \in Objs : TRUE
    <3>1. NoCall = [op |-> "none", o |-> a, p |-> a, k |-> Null, v |-> NullValue, n |-> 1]
      BY DEF NoCall
    <3> HIDE DEF a
    <3>2. call' = [op |-> "clone", o |-> o, p |-> p, k |-> Null, v |-> NullValue, n |-> 1]
      BY <1>5, <3>1
    <3>3. 1 \in Nat \ {0}
      OBVIOUS
    <3> QED BY <1>2, <3>2, <3>3, NullIsValue DEF Calls
  <2>8. Control'
    <3>1. o \in Alive' /\ p \in Alive'
      BY <1>2, <2>1 DEF Alive
    <3> QED BY <1>1, <2>5, <2>7, <3>1 DEF Sound, Control
  <2>9. Holding'
    BY <1>1 DEF Holding
  <2> QED BY <2>3, <2>4, <2>6, <2>8, <2>9 DEF Sound
<1> QED BY <1>1, <1>4, <1>5

\* The entries and the index of p are now o's.
Moves(o, p) ==
  /\ data' \in [Objs -> Seq(Entries)] /\ data'[o] = data[p] /\ data'[p] = <<>>
  /\ index' \in [Objs -> Indexes] /\ index'[p] = NoIndex
  /\ \A x \in Objs : x # o /\ x # p => data'[x] = data[x] /\ index'[x] = index[x]

LEMMA StealMoves ==
  ASSUME Types, NEW o \in Objs, NEW p \in Objs, o # p, Steal(o, p)
  PROVE  Moves(o, p) /\ index'[o] = index[p]
<1>1. <<>> \in Seq(Entries) /\ data[p] \in Seq(Entries) /\ index[p] \in Indexes
  BY DEF Types
<1>2. /\ data' \in [Objs -> Seq(Entries)] /\ data'[o] = data[p] /\ data'[p] = <<>>
      /\ \A x \in Objs : x # o /\ x # p => data'[x] = data[x]
  BY <1>1 DEF Steal, Types
<1>3. /\ index' \in [Objs -> Indexes] /\ index'[o] = index[p] /\ index'[p] = NoIndex
      /\ \A x \in Objs : x # o /\ x # p => index'[x] = index[x]
  BY <1>1, NoIndexType DEF Steal, Types
<1> QED BY <1>2, <1>3 DEF Moves

LEMMA MovedOk ==
  ASSUME Sound, pc = "idle", NEW o \in Objs, NEW p \in Objs, o # p, Moves(o, p), index'[o] \in {index[p], NoIndex}
  PROVE  \A x \in Objs : IndexOk(index'[x], data'[x], Len(data'[x]))
<1> SUFFICES ASSUME NEW x \in Objs PROVE IndexOk(index'[x], data'[x], Len(data'[x]))
  OBVIOUS
<1>1. CASE index'[x] = NoIndex
  BY <1>1, NoIndexOk
<1>2. CASE x = o /\ index'[o] = index[p]
  <2>1. IndexOk(index[p], data[p], Len(data[p]))
    BY IdleFacts
  <2> QED BY <1>2, <2>1 DEF Moves
<1>3. CASE x # o /\ x # p
  <2>1. IndexOk(index[x], data[x], Len(data[x]))
    BY IdleFacts
  <2> QED BY <1>3, <2>1 DEF Moves
<1> QED BY <1>1, <1>2, <1>3 DEF Moves

LEMMA MoveConstructKeeps ==
  ASSUME Sound, program \in Programs, ~program.holdsData, MoveConstruct
  PROVE  Sound'
<1>1. PICK o \in program.objs \ Alive, p \in Alive :
        /\ pc = "idle" /\ pc' = "idle" /\ pos' = pos /\ at' = at /\ held' = {} /\ live' = live
        /\ Steal(o, p) /\ res' = [res EXCEPT ![o] = res[p]]
  BY DEF MoveConstruct, Atomic, Steal, Keep
<1>2. o \in Objs /\ o \notin Alive /\ p \in Objs /\ o # p /\ res[p] # NoRes
  BY IndexAssumption DEF Alive
<1>3. ~(index[o].cap > 0)
  BY <1>2 DEF Sound, Ledger, HasIndex
<1>4. Moves(o, p) /\ index'[o] = index[p]
  BY <1>1, <1>2, StealMoves DEF Sound
<1>5. /\ res' \in [Objs -> Resources \union {NoRes}] /\ res'[o] = res[p]
      /\ \A x \in Objs : x # o => res'[x] = res[x]
  BY <1>1, <1>2 DEF Sound, Types
<1>6. Types'
  BY <1>4, <1>5 DEF Types, Moves
<1>7. Ledger'
  <2>1. ASSUME NEW c \in Resources
        PROVE  Cardinality(Owners(index', res', c)) = Cardinality(Owners(index, res, c))
    <3> DEFINE S == Owners(index, res, c)
    <3>0. \A x \in Objs : x \in S <=> index[x].cap > 0 /\ res[x] = c
      BY DEF Owners
    <3>1. \A x \in Objs : x \in Owners(index', res', c) <=>
            (x # p /\ (x \in S \/ (x = o /\ p \in S)))
      BY <1>2, <1>3, <1>4, <1>5, <3>0, NoIndexType DEF Owners, Moves
    <3>2. Owners(index', res', c) \subseteq Objs /\ S \subseteq Objs
      BY DEF Owners
    <3>3. IsFiniteSet(S) /\ Cardinality(S) \in Nat /\ o \notin S
      BY <1>2, <1>3, <3>0, OwnersFinite
    <3> HIDE DEF S
    <3>4. CASE p \in S
      <4>1. Owners(index', res', c) = (S \ {p}) \cup {o}
        BY <1>2, <3>1, <3>2, <3>4
      <4>2. IsFiniteSet(S \ {p}) /\ Cardinality(S \ {p}) = Cardinality(S) - 1
        BY <3>3, <3>4, FS_RemoveElement
      <4>3. Cardinality((S \ {p}) \cup {o}) = Cardinality(S \ {p}) + 1
        BY <3>3, <4>2, FS_AddElement
      <4> QED BY <3>3, <4>1, <4>2, <4>3 DEF S
    <3>5. CASE p \notin S
      <4>1. Owners(index', res', c) = S
        BY <1>2, <3>1, <3>2, <3>5
      <4> QED BY <4>1 DEF S
    <3> QED BY <3>4, <3>5
  <2>2. \A x \in Objs : HasIndex(x)' => x \in Alive'
    <3> SUFFICES ASSUME NEW x \in Objs, index'[x].cap > 0 PROVE res'[x] # NoRes
      BY DEF HasIndex, Alive
    <3>1. x # p
      BY <1>4, NoIndexType DEF Moves
    <3> QED BY <1>2, <1>4, <1>5, <3>1 DEF Moves, Sound, Ledger, HasIndex, Alive
  <2> QED BY <1>1, <2>1, <2>2 DEF Sound, Ledger
<1>8. \A x \in Objs : IndexOk(index'[x], data'[x], Len(data'[x]))
  BY <1>1, <1>2, <1>4, MovedOk
<1> QED BY <1>1, <1>6, <1>7, <1>8, AtomicKeeps

LEMMA MoveAssignKeeps ==
  ASSUME Sound, ~program.holdsData, MoveAssign
  PROVE  Sound'
<1>1. PICK o \in Alive, p \in Alive :
        /\ o # p /\ pc = "idle" /\ pc' = "idle" /\ pos' = pos /\ at' = at /\ held' = {} /\ res' = res
        /\ live' = [r \in Resources |-> live[r] - Cardinality({x \in {o} \union IF res[o] = res[p] THEN {} ELSE {p} :
                                                                 HasIndex(x) /\ res[x] = r})]
        /\ \/ res[o] = res[p] /\ Steal(o, p)
           \/ /\ res[o] # res[p] /\ data' = [data EXCEPT ![o] = data[p], ![p] = <<>>]
              /\ index' = [index EXCEPT ![o] = NoIndex, ![p] = NoIndex]
  BY DEF MoveAssign, Atomic, Steal, Keep
<1>2. o \in Objs /\ p \in Objs
  BY DEF Alive
<1>3. Moves(o, p) /\ (res[o] = res[p] => index'[o] = index[p]) /\ (res[o] # res[p] => index'[o] = NoIndex)
  <2>1. CASE res[o] = res[p]
    BY <1>1, <1>2, <2>1, StealMoves DEF Sound
  <2>2. CASE res[o] # res[p]
    <3>1. <<>> \in Seq(Entries) /\ data[p] \in Seq(Entries)
      BY <1>2 DEF Sound, Types
    <3>2. /\ data' \in [Objs -> Seq(Entries)] /\ data'[o] = data[p] /\ data'[p] = <<>>
          /\ \A x \in Objs : x # o /\ x # p => data'[x] = data[x]
      BY <1>1, <1>2, <2>2, <3>1 DEF Sound, Types
    <3>3. /\ index' \in [Objs -> Indexes] /\ index'[o] = NoIndex /\ index'[p] = NoIndex
          /\ \A x \in Objs : x # o /\ x # p => index'[x] = index[x]
      BY <1>1, <1>2, <2>2, NoIndexType DEF Sound, Types
    <3> QED BY <2>2, <3>2, <3>3 DEF Moves
  <2> QED BY <2>1, <2>2
<1>4. Types'
  BY <1>1, <1>3 DEF Sound, Types, Moves
<1>5. Ledger'
  <2>1. ASSUME NEW c \in Resources
        PROVE  live'[c] = Cardinality(Owners(index', res, c))
    <3> DEFINE S == Owners(index, res, c)
               F == {x \in {o} \union IF res[o] = res[p] THEN {} ELSE {p} : HasIndex(x) /\ res[x] = c}
               G == IF res[o] = res[p] THEN S \cap {o} ELSE S \cap {o, p}
    <3>0. \A x \in Objs : x \in S <=> index[x].cap > 0 /\ res[x] = c
      BY DEF Owners
    <3>1. live'[c] = Cardinality(S) - Cardinality(F)
      BY <1>1 DEF Sound, Ledger
    <3>2. IsFiniteSet(S) /\ Cardinality(S) \in Nat /\ S \subseteq Objs /\ Owners(index', res, c) \subseteq Objs
      <4>1. S \subseteq Objs /\ Owners(index', res, c) \subseteq Objs
        BY DEF Owners
      <4> QED BY <4>1, OwnersFinite
    <3>3. CASE res[o] = res[p]
      <4>1. F = S \cap {o}
        BY <1>2, <3>0, <3>3 DEF HasIndex
      <4>2. Cardinality(S \ {o}) = Cardinality(S) - Cardinality(F)
        BY <3>2, <4>1, FS_Difference, ZenonT(60)
      <4>3. \A x \in Objs : x \in Owners(index', res, c) <=>
              (x # p /\ ((x # o /\ x \in S) \/ (x = o /\ p \in S)))
        BY <1>1, <1>2, <1>3, <3>0, <3>3, NoIndexType DEF Owners, Moves
      <4>4. Cardinality(Owners(index', res, c)) = Cardinality(S \ {o})
        <5> HIDE DEF S
        <5> DEFINE R == S \ {o}
        <5>0. IsFiniteSet(R) /\ o \notin R /\ R \subseteq Objs /\ Cardinality(R) \in Nat
          <6>1. IsFiniteSet(R)
            BY <3>2, FS_RemoveElement
          <6> QED BY <3>2, <6>1, FS_CardinalityType
        <5>1. CASE p \in S
          <6>1. Owners(index', res, c) = (R \ {p}) \cup {o} /\ p \in R /\ o \notin R \ {p}
            BY <1>1, <1>2, <3>2, <4>3, <5>1
          <6>2. IsFiniteSet(R \ {p}) /\ Cardinality(R \ {p}) = Cardinality(R) - 1
            BY <5>0, <6>1, FS_RemoveElement
          <6>3. Cardinality((R \ {p}) \cup {o}) = Cardinality(R \ {p}) + 1
            BY <6>1, <6>2, FS_AddElement
          <6> QED BY <5>0, <6>1, <6>2, <6>3
        <5>2. CASE p \notin S
          <6>1. Owners(index', res, c) = R
            BY <1>1, <1>2, <3>2, <4>3, <5>2
          <6> QED BY <6>1
        <5> QED BY <5>1, <5>2
      <4> QED BY <3>1, <4>2, <4>4
    <3>4. CASE res[o] # res[p]
      <4>1. F = S \cap {o, p}
        BY <1>2, <3>0, <3>4 DEF HasIndex
      <4>2. Cardinality(S \ {o, p}) = Cardinality(S) - Cardinality(F)
        BY <3>2, <4>1, FS_Difference, ZenonT(60)
      <4>3. Owners(index', res, c) = S \ {o, p}
        BY <1>2, <1>3, <3>2, <3>4, NoIndexType DEF Owners, Moves
      <4> QED BY <3>1, <4>2, <4>3
    <3> QED BY <3>3, <3>4
  <2>2. \A x \in Objs : HasIndex(x)' => x \in Alive'
    <3> SUFFICES ASSUME NEW x \in Objs, index'[x].cap > 0 PROVE res'[x] # NoRes
      BY DEF HasIndex, Alive
    <3>1. x # p
      BY <1>3, NoIndexType DEF Moves
    <3>2. CASE x = o
      BY <1>1, <3>2 DEF Alive
    <3>3. CASE x # o
      BY <1>1, <1>3, <3>1, <3>3 DEF Moves, Sound, Ledger, HasIndex, Alive
    <3> QED BY <3>2, <3>3
  <2>3. live' = [c \in Resources |-> live'[c]]
    BY <1>1
  <2> QED BY <1>1, <2>1, <2>2, <2>3 DEF Ledger
<1>6. \A x \in Objs : IndexOk(index'[x], data'[x], Len(data'[x]))
  BY <1>1, <1>2, <1>3, MovedOk
<1> QED BY <1>1, <1>4, <1>5, <1>6, AtomicKeeps

(***************************************************************************)
(* Results.                                                                *)
(***************************************************************************)
LEMMA InitSound == Init => Inv
<1> SUFFICES ASSUME Init PROVE Inv
  OBVIOUS
<1>1. /\ program \in Programs /\ data = [o \in Objs |-> <<>>] /\ res = [o \in Objs |-> NoRes]
      /\ index = [o \in Objs |-> NoIndex] /\ live = [c \in Resources |-> 0] /\ held = {}
      /\ pc = "idle" /\ pos = 0 /\ at = 0
  BY DEF Init
<1>2. Types
  <2>1. <<>> \in Seq(Entries) /\ NoRes \in Resources \union {NoRes}
    OBVIOUS
  <2> QED BY <1>1, <2>1, NoIndexType DEF Types
<1>3. IndexesOk
  BY <1>1, NoIndexOk DEF IndexesOk
<1>4. Ledger
  <2>1. \A c \in Resources : Owners(index, res, c) = {}
    BY <1>1, NoIndexType DEF Owners
  <2>2. \A c \in Resources : Cardinality(Owners(index, res, c)) = 0
    BY <2>1, FS_EmptySet
  <2> QED BY <1>1, <2>2, NoIndexType DEF Ledger, HasIndex
<1>5. Holding /\ Control
  BY <1>1 DEF Holding, Control
<1> QED BY <1>1, <1>2, <1>3, <1>4, <1>5 DEF Inv, Sound

LEMMA UnchangedSound == ASSUME Sound, UNCHANGED vars PROVE Sound'
<1>1. /\ data' = data /\ res' = res /\ index' = index /\ live' = live /\ held' = held
      /\ call' = call /\ pc' = pc /\ pos' = pos /\ at' = at /\ then' = then
  BY DEF vars
<1>2. Types' /\ Ledger' /\ Holding'
  BY <1>1 DEF Sound, Types, Ledger, Holding, HasIndex, Alive
<1>3. IndexesOk'
  <2>1. \A o \in Objs : Known(o)' = Known(o)
    BY <1>1 DEF Known
  <2> QED BY <1>1, <2>1 DEF Sound, IndexesOk
<1>4. Control'
  BY <1>1 DEF Sound, Control, HasIndex, Alive
<1> QED BY <1>2, <1>3, <1>4 DEF Sound

LEMMA NextSound == Inv /\ [Next]_vars => Inv'
<1> SUFFICES ASSUME Inv, [Next]_vars PROVE Inv'
  OBVIOUS
<1>1. program' = program
  BY DEF Next, vars
<1> SUFFICES ASSUME ~program.holdsData PROVE Sound'
  BY <1>1 DEF Inv
<1>2. Sound /\ program \in Programs
  BY DEF Inv
<1>3. CASE FindLinear \/ FindProbe
  BY <1>2, <1>3, FindKeeps
<1>4. CASE FindStale \/ Refill \/ Grow \/ Allocate \/ AllocateFails \/ NoteAppend
  BY <1>2, <1>4, FindStaleKeeps, RefillKeeps, GrowKeeps, AllocateKeeps, AllocateFailsKeeps, NoteAppendKeeps
<1>5. CASE Ensure
  <2>1. PICK next \in {"noted", "loop"} : Build(next)
    BY <1>5 DEF Ensure
  <2> QED BY <1>2, <1>5, <2>1, BuildKeeps DEF Ensure
<1>6. CASE StartKeyed \/ StartMerge \/ StartEqual
  BY <1>2, <1>6, StartKeyedKeeps, StartPairKeeps
<1>7. CASE LookupFound \/ LoopEnd \/ Differ
  <2>1. pc \notin {"idle", "refill", "note"} /\ UNCHANGED <<store, cache>> /\ \E r : Return(r)
    BY <1>7 DEF LookupFound, LoopEnd, Differ
  <2> QED BY <1>2, <2>1, ReturnKeeps
<1>8. CASE InsertFound \/ SubscriptFound \/ RemoveFound \/ MergeFound \/ EqualFound
  BY <1>2, <1>8, InsertFoundKeeps, SubscriptFoundKeeps, RemoveFoundKeeps, MergeFoundKeeps, EqualFoundKeeps
<1>9. CASE Noted \/ NextEntry
  BY <1>2, <1>9, NotedKeeps, NextEntryKeeps
<1>10. CASE Construct \/ Destroy \/ Clear \/ TakeData \/ EditData
  BY <1>2, <1>10, ConstructKeeps, DropKeeps, EditDataKeeps
<1>11. CASE Clone \/ MoveConstruct \/ MoveAssign
  BY <1>2, <1>11, CloneKeeps, MoveConstructKeeps, MoveAssignKeeps
<1>12. CASE UNCHANGED vars
  BY <1>2, <1>12, UnchangedSound
<1> QED BY <1>3, <1>4, <1>5, <1>6, <1>7, <1>8, <1>9, <1>10, <1>11, <1>12 DEF Next

\* The index knows the entries it should at every step of every call, of every
\* caller that lets go of references from data() (Object, object.cpp).
THEOREM IndexInvariant == Spec => []Inv
<1> QED BY InitSound, NextSound, PTL DEF Spec

\* find_slot returns the first entry of the key, for any hash function, any
\* threshold and initial capacity and any sequence of calls that does not keep
\* a reference from data() in use.
THEOREM LookupIsFirst == Spec => [](~program.holdsData => LookupFindsFirst)
<1>1. Inv => (~program.holdsData => LookupFindsFirst)
  BY DEF Inv, Sound, Control, LookupFindsFirst, Own, This
<1> QED BY <1>1, IndexInvariant, PTL

\* The table stays half empty, every block is owned once and given back to the
\* resource it came from, and index_note_append meets no stale index.
THEOREM ObjectSound == Spec => [](~program.holdsData => ObjectInv)
<1>1. Inv => (~program.holdsData => ObjectInv)
  <2> SUFFICES ASSUME Inv, ~program.holdsData PROVE ObjectInv
    OBVIOUS
  <2>1. Sound /\ program \in Programs
    BY DEF Inv
  <2>2. IndexLedger
    BY <2>1 DEF Sound, Ledger, IndexLedger, Owners, HasIndex
  <2>3. TypeOK
    <3>1. \A o \in Objs : /\ index[o].cap \in Nat /\ index[o].size \in Nat
                          /\ index[o].slots \in [0..(index[o].cap - 1) -> Nat]
      BY <2>1 DEF Sound, Types, Indexes
    <3>2. live \in [Resources -> Nat]
      BY <2>1, OwnersFinite DEF Sound, Ledger
    <3> QED BY <2>1, <3>1, <3>2 DEF TypeOK, Sound, Types, Holding, Control
  <2>4. LoadBounded
    <3> SUFFICES ASSUME NEW o \in Objs
                 PROVE  index[o].size = Cardinality(Occupied(index[o])) /\ 2 * index[o].size <= index[o].cap
      BY DEF LoadBounded
    <3>1. CASE index[o].cap > 0
      BY <2>1, <3>1 DEF Sound, IndexesOk, IndexOk, Filled
    <3>2. CASE ~(index[o].cap > 0)
      <4>1. index[o].cap = 0 /\ index[o].size = 0
        BY <2>1, <3>2 DEF Sound, Types, Indexes
      <4>2. Occupied(index[o]) = {}
        BY <4>1 DEF Occupied
      <4> QED BY <4>1, <4>2, FS_EmptySet
    <3> QED BY <3>1, <3>2
  <2>5. AppendSeesFreshIndex
    BY <2>1 DEF Sound, Control, AppendSeesFreshIndex, This
  <2> QED BY <2>2, <2>3, <2>4, <2>5 DEF ObjectInv
<1> QED BY <1>1, IndexInvariant, PTL

(***************************************************************************)
(* Object as an ordered map.                                               *)
(***************************************************************************)
(***************************************************************************)
(* How far a call has come, from where the code is: it still asks for a    *)
(* key, it has appended and notes it in the index, it is between two       *)
(* entries of a loop.                                                      *)
(***************************************************************************)
Phase ==
  IF pc \in {"find", "found"} THEN "ask"
  ELSE IF pc \in {"note", "noted"} THEN "noting"
  ELSE IF pc \in {"refill", "build"}
       THEN IF then = "find" THEN "ask" ELSE IF then = "noted" THEN "noting" ELSE "loop"
  ELSE IF pc = "ensure" THEN IF call.op = "clone" THEN "noting" ELSE "loop"
  ELSE pc

\* The first m entries of d have equals in e, as operator== finds them.
MatchUpTo(d, e, m) ==
  \A i \in 1..m : /\ Promise!FirstAt(e, d[i].key) # 0
                  /\ e[Promise!FirstAt(e, d[i].key)].val = d[i].val

\* Object o of od after the first m entries of object p were merged into it.
MergedUpTo(od, o, p, m) ==
  [od EXCEPT ![o] = Promise!MergeAll(od[o], SubSeq(od[p], 1, m))]
Appended(od, o, k, v) == [od EXCEPT ![o] = Append(od[o], Promise!Entry(k, v))]

\* What the entries d are when call c is in phase ph and they were od before.
AskStage(c, ph, d, od) == ph = "ask" /\ d = od
PutStage(c, ph, d, od) ==
  /\ c.k \in Keys
  /\ \/ ph = "ask" /\ d = od
     \/ ph = "noting" /\ Promise!FirstAt(od[c.o], c.k) = 0 /\ d = Appended(od, c.o, c.k, c.v)
Asked(c, od) ==
  /\ c.n >= 2 /\ c.n - 1 <= Len(od[c.p])
  /\ c.k = od[c.p][c.n - 1].key /\ c.v = od[c.p][c.n - 1].val
MergeStage(c, ph, d, od) ==
  \/ c.o = c.p /\ ph = "noting" /\ d = od
  \/ /\ c.o # c.p /\ c.n - 1 <= Len(od[c.p]) /\ ph \in {"loop", "noting"}
     /\ d = MergedUpTo(od, c.o, c.p, c.n - 1)
  \/ c.o # c.p /\ Asked(c, od) /\ ph = "ask" /\ d = MergedUpTo(od, c.o, c.p, c.n - 2)
EqualStage(c, ph, d, od) ==
  /\ d = od
  /\ \/ ph = "differ" /\ Len(od[c.o]) # Len(od[c.p])
     \/ /\ ph = "loop" /\ Len(od[c.o]) = Len(od[c.p])
        /\ c.n - 1 <= Len(od[c.p]) /\ MatchUpTo(od[c.p], od[c.o], c.n - 1)
     \/ /\ ph = "ask" /\ Len(od[c.o]) = Len(od[c.p])
        /\ Asked(c, od) /\ MatchUpTo(od[c.p], od[c.o], c.n - 2)
CloneStage(c, ph, d, od) ==
  /\ ph = "noting" /\ c.o # c.p /\ od[c.o] = <<>>
  /\ d = [od EXCEPT ![c.o] = od[c.p]]
Stage(c, ph, d, od) ==
  /\ c.op \in {"lookup", "remove"} => AskStage(c, ph, d, od)
  /\ c.op \in {"insert", "subscript"} => PutStage(c, ph, d, od)
  /\ c.op = "subscript" => c.v = NullValue
  /\ c.op = "merge" => MergeStage(c, ph, d, od)
  /\ c.op = "equal" => EqualStage(c, ph, d, od)
  /\ c.op = "clone" => CloneStage(c, ph, d, od)

\* A place without an object has no entries; in a call the entries are what
\* the call has made of those it began with.
NoDead   == \A o \in Objs : o \notin Alive => data[o] = <<>>
Progress == pc # "idle" => old \in [Objs -> Seq(Entries)] /\ Stage(call, Phase, data, old)
Kept == Sound /\ NoDead /\ Progress

\* What the ordered map sees: the entries when the call began.
Seen == IF pc = "idle" THEN data ELSE old

(***************************************************************************)
(* merge, entry by entry.                                                  *)
(***************************************************************************)
\* One entry kv merged into d.
PutEntry(d, kv) ==
  IF Promise!FirstAt(d, kv.key) = 0 THEN Append(d, Promise!Entry(kv.key, kv.val))
  ELSE [d EXCEPT ![Promise!FirstAt(d, kv.key)].val = Promise!MergedValue(@, kv.val)]

LEMMA PutEntryType ==
  ASSUME NEW d \in Seq(Entries), NEW kv \in Entries
  PROVE  PutEntry(d, kv) \in Seq(Entries)
<1> DEFINE f == Promise!FirstAt(d, kv.key)
<1>1. kv.key \in Keys /\ kv.val \in Promise!Values
  BY DEF Entries
<1>2. f \in 0..Len(d) /\ Len(d) \in Nat
  BY FirstAtFacts
<1>3. CASE f = 0
  <2>1. Promise!Entry(kv.key, kv.val) \in Entries
    BY <1>1 DEF Promise!Entry, Entries
  <2>2. PutEntry(d, kv) = Append(d, Promise!Entry(kv.key, kv.val))
    BY <1>3 DEF PutEntry
  <2> QED BY <2>1, <2>2
<1>4. CASE f # 0
  <2> DEFINE w == Promise!MergedValue(d[f].val, kv.val)
  <2>1. f \in 1..Len(d)
    BY <1>2, <1>4
  <2>2. w \in Promise!Values
    <3>1. d[f].val \in Promise!Values
      BY <2>1, EntryKeys
    <3> QED BY <1>1, <3>1, MergedType
  <2>3. PutEntry(d, kv) = [d EXCEPT ![f].val = w]
    BY <1>4, <2>1 DEF PutEntry
  <2> HIDE DEF f, w
  <2> QED BY <2>1, <2>2, <2>3, NewValue
<1> QED BY <1>3, <1>4

LEMMA MergeRuns ==
  ASSUME NEW d \in Seq(Entries), NEW t \in Seq(Entries)
  PROVE  \E run \in [0..Len(t) -> Seq(Entries)] :
           /\ run[0] = d /\ run[Len(t)] = Promise!MergeAll(d, t)
           /\ \A k \in 1..Len(t) : run[k] = PutEntry(run[k - 1], t[k])
<1> DEFINE n == Len(t)
           D == Seq(Entries)
           g == [p \in D \X Entries |-> PutEntry(p[1], p[2])]
           Table(it) == it = [s \in SUBSET (1..n) |-> IF s = {} THEN d
                              ELSE PutEntry(it[s \ {Max(s)}], t[Max(s)])]
           iter == CHOOSE it : Table(it)
<1>1. n \in Nat /\ DOMAIN t = 1..n /\ \A i \in 1..n : t[i] \in Entries
  OBVIOUS
<1>2. Promise!MergeAll(d, t) = iter[1..n]
  BY <1>1 DEF Promise!MergeAll, Promise!FoldLeft, Promise!MapThenFoldSet, Promise!Max, Max,
              Promise!Put, PutEntry
<1>4. g \in [D \X Entries -> D]
  BY PutEntryType
<1>5. \A a \in D, b \in Entries : g[<<a, b>>] = PutEntry(a, b)
  OBVIOUS
<1> HIDE DEF g
<1>6. PICK h \in [SUBSET (1..n) -> D] : IsTable(h, n, d, g, t)
  BY <1>1, <1>4, TableExists
<1>7. Table(h)
  <2>1. ASSUME NEW s \in SUBSET (1..n), s # {}
        PROVE  g[<<h[s \ {Max(s)}], t[Max(s)]>>] = PutEntry(h[s \ {Max(s)}], t[Max(s)])
    <3>1. Max(s) \in 1..n
      BY <1>1, <2>1, GreatestNumber
    <3>2. h[s \ {Max(s)}] \in D /\ t[Max(s)] \in Entries
      BY <1>1, <3>1
    <3> QED BY <1>5, <3>2
  <2> QED BY <1>6, <2>1 DEF IsTable
<1>8. Table(iter)
  <2> HIDE DEF Table
  <2> QED BY <1>7
<1> HIDE DEF iter
<1> DEFINE Same(m) == \A s \in SUBSET (1..m) : iter[s] = h[s]
           P == {m \in Nat : m <= n => Same(m)}
<1> HIDE DEF n
<1>9. ASSUME NEW s \in SUBSET (1..n)
      PROVE  /\ s = {} => iter[s] = d /\ h[s] = d
             /\ s # {} => /\ iter[s] = PutEntry(iter[s \ {Max(s)}], t[Max(s)])
                          /\ h[s] = PutEntry(h[s \ {Max(s)}], t[Max(s)])
  BY <1>7, <1>8, Zenon
<1> HIDE DEF Table
<1>10. 0 \in P
  <2>1. \A s \in SUBSET (1..0) : s = {} /\ s \in SUBSET (1..n)
    OBVIOUS
  <2>2. Same(0)
    BY <1>9, <2>1
  <2> HIDE DEF Same
  <2> QED BY <2>2
<1>11. ASSUME NEW m \in Nat, m \in P PROVE m + 1 \in P
  <2> HIDE DEF Same
  <2> SUFFICES ASSUME m + 1 <= n PROVE Same(m + 1)
    OBVIOUS
  <2>1. Same(m)
    BY <1>1, <1>11
  <2> HIDE DEF P
  <2>2. ASSUME NEW s \in SUBSET (1..(m + 1)) PROVE iter[s] = h[s]
    <3>1. s \in SUBSET (1..n)
      BY <1>1
    <3>2. CASE s = {}
      BY <1>9, <3>1, <3>2
    <3>3. CASE s # {}
      <4>0. m + 1 \in Nat
        OBVIOUS
      <4>1. Max(s) \in s /\ \A y \in s : Max(s) >= y
        BY <3>3, <4>0, GreatestNumber
      <4>2. \A y \in s : y \in 1..(m + 1) /\ (y # Max(s) => y \in 1..m)
        <5>1. Max(s) \in 1..(m + 1)
          BY <4>1
        <5> QED BY <4>1, <5>1
      <4>3. s \ {Max(s)} \in SUBSET (1..m)
        BY <4>2
      <4>4. iter[s \ {Max(s)}] = h[s \ {Max(s)}]
        BY <2>1, <4>3 DEF Same
      <4> QED BY <1>9, <3>1, <3>3, <4>4
    <3> QED BY <3>2, <3>3
  <2> QED BY <2>2 DEF Same
<1> HIDE DEF P
<1>12. \A m \in Nat : m \in P
  BY <1>10, <1>11, NatSetInduction
<1>13. iter[1..n] = h[1..n]
  <2>1. Same(n)
    <3> HIDE DEF Same
    <3> QED BY <1>1, <1>12 DEF P
  <2> QED BY <2>1
<1>14. PICK run \in [0..n -> D] : IsRun(run, n, d, g, t) /\ run[n] = h[1..n]
  <2>1. RunsTo(n, D, d, g, t, h[1..n])
    BY <1>1, <1>4, <1>6, FoldRuns
  <2> QED BY <2>1 DEF RunsTo
<1>15. \A k \in 1..n : run[k] = PutEntry(run[k - 1], t[k])
  <2> SUFFICES ASSUME NEW k \in 1..n PROVE run[k] = PutEntry(run[k - 1], t[k])
    OBVIOUS
  <2>1. k - 1 \in 0..n /\ t[k] \in Entries
    BY <1>1
  <2>2. run[k - 1] \in D
    BY <1>14, <2>1
  <2> QED BY <1>5, <1>14, <2>1, <2>2 DEF IsRun
<1> QED BY <1>2, <1>13, <1>14, <1>15 DEF n, IsRun

\* The first m entries, and one more.
LEMMA PrefixFacts ==
  ASSUME NEW e \in Seq(Entries), NEW m \in 0..Len(e)
  PROVE  /\ SubSeq(e, 1, m) \in Seq(Entries) /\ Len(SubSeq(e, 1, m)) = m
         /\ \A i \in 1..m : SubSeq(e, 1, m)[i] = e[i]
<1>1. Len(e) \in Nat /\ m \in Nat
  OBVIOUS
<1> QED BY <1>1

LEMMA MergeType ==
  ASSUME NEW d \in Seq(Entries), NEW e \in Seq(Entries)
  PROVE  Promise!MergeAll(d, e) \in Seq(Entries)
<1>1. PICK run \in [0..Len(e) -> Seq(Entries)] : run[Len(e)] = Promise!MergeAll(d, e)
  BY MergeRuns
<1>2. Len(e) \in 0..Len(e)
  OBVIOUS
<1> QED BY <1>1, <1>2

LEMMA MergeNone ==
  ASSUME NEW d \in Seq(Entries), NEW e \in Seq(Entries)
  PROVE  Promise!MergeAll(d, SubSeq(e, 1, 0)) = d
<1>1. SubSeq(e, 1, 0) \in Seq(Entries) /\ Len(SubSeq(e, 1, 0)) = 0
  BY 0 \in 0..Len(e), PrefixFacts
<1> DEFINE t == SubSeq(e, 1, 0)
<1> HIDE DEF t
<1>2. PICK run \in [0..Len(t) -> Seq(Entries)] : run[0] = d /\ run[Len(t)] = Promise!MergeAll(d, t)
  BY <1>1, MergeRuns DEF t
<1> QED BY <1>1, <1>2 DEF t

LEMMA MergeWhole ==
  ASSUME NEW d, NEW e \in Seq(Entries)
  PROVE  Promise!MergeAll(d, SubSeq(e, 1, Len(e))) = Promise!MergeAll(d, e)
<1>1. SubSeq(e, 1, Len(e)) = e
  OBVIOUS
<1> QED BY <1>1

\* Two runs over the same entries are in the same state after each.
Merges(run, m, e) == \A k \in 1..m : run[k] = PutEntry(run[k - 1], e[k])

LEMMA RunsAgree ==
  ASSUME NEW m \in Nat, NEW e, NEW a, NEW b, a[0] = b[0],
         Merges(a, m, e), Merges(b, m, e)
  PROVE  a[m] = b[m]
<1> DEFINE P == {k \in Nat : k <= m => a[k] = b[k]}
<1>1. 0 \in P
  OBVIOUS
<1>2. ASSUME NEW k \in Nat, k \in P PROVE k + 1 \in P
  <2> SUFFICES ASSUME k + 1 <= m PROVE a[k + 1] = b[k + 1]
    OBVIOUS
  <2>1. k + 1 \in 1..m /\ (k + 1) - 1 = k /\ a[k] = b[k]
    BY <1>2
  <2>2. a[k + 1] = PutEntry(a[k], e[k + 1]) /\ b[k + 1] = PutEntry(b[k], e[k + 1])
    BY <2>1 DEF Merges
  <2> QED BY <2>1, <2>2
<1> HIDE DEF P
<1>3. \A k \in Nat : k \in P
  BY <1>1, <1>2, NatSetInduction
<1> QED BY <1>3 DEF P

LEMMA MergeNext ==
  ASSUME NEW d \in Seq(Entries), NEW e \in Seq(Entries), NEW m \in Nat, m + 1 <= Len(e)
  PROVE  Promise!MergeAll(d, SubSeq(e, 1, m + 1))
           = PutEntry(Promise!MergeAll(d, SubSeq(e, 1, m)), e[m + 1])
<1> DEFINE s == SubSeq(e, 1, m)
           t == SubSeq(e, 1, m + 1)
<1>0. m \in 0..Len(e) /\ m + 1 \in 0..Len(e) /\ m + 1 \in Nat /\ m + 1 \in 1..(m + 1) /\ (m + 1) - 1 = m
  OBVIOUS
<1>1. s \in Seq(Entries) /\ Len(s) = m /\ \A i \in 1..m : s[i] = e[i]
  BY <1>0, PrefixFacts
<1>2. t \in Seq(Entries) /\ Len(t) = m + 1 /\ \A i \in 1..(m + 1) : t[i] = e[i]
  BY <1>0, PrefixFacts
<1> HIDE DEF s, t
<1>3. PICK b \in [0..Len(s) -> Seq(Entries)] :
        /\ b[0] = d /\ b[Len(s)] = Promise!MergeAll(d, s)
        /\ \A k \in 1..Len(s) : b[k] = PutEntry(b[k - 1], s[k])
  BY <1>1, MergeRuns
<1>4. PICK a \in [0..Len(t) -> Seq(Entries)] :
        /\ a[0] = d /\ a[Len(t)] = Promise!MergeAll(d, t)
        /\ \A k \in 1..Len(t) : a[k] = PutEntry(a[k - 1], t[k])
  BY <1>2, MergeRuns
<1>5. a[m] = b[m]
  <2>1. Merges(b, m, e)
    BY <1>1, <1>3 DEF Merges
  <2>2. Merges(a, m, e)
    <3>1. \A k \in 1..m : k \in 1..Len(t) /\ t[k] = e[k]
      BY <1>2
    <3> QED BY <1>4, <3>1 DEF Merges
  <2>3. a[0] = b[0]
    BY <1>3, <1>4
  <2> QED BY <2>1, <2>2, <2>3, RunsAgree
<1>6. a[m + 1] = PutEntry(a[m], e[m + 1])
  BY <1>0, <1>2, <1>4
<1> QED BY <1>1, <1>2, <1>3, <1>4, <1>5, <1>6 DEF s, t

(***************************************************************************)
(* operator==, as an equality of sets.                                     *)
(***************************************************************************)
LEMMA EntrySet ==
  ASSUME NEW d \in Seq(Entries)
  PROVE  Promise!ToSet(d) = {d[i] : i \in 1..Len(d)}
BY DEF Promise!ToSet

LEMMA DistinctCount ==
  ASSUME NEW d \in Seq(Entries), Promise!Distinct(d)
  PROVE  IsFiniteSet(Promise!ToSet(d)) /\ Cardinality(Promise!ToSet(d)) = Len(d)
<1> DEFINE T == Promise!ToSet(d)
           n == Len(d)
<1>1. n \in Nat /\ d \in [1..n -> T] /\ \A t \in T : \E i \in 1..n : d[i] = t
  BY EntrySet
<1>2. \A i, j \in 1..n : d[i] = d[j] => i = j
  BY DEF Promise!Distinct
<1> HIDE DEF T, n
<1>3. d \in Bijection(1..n, T)
  BY <1>1, <1>2 DEF Bijection, Injection, Surjection, IsInjective
<1>4. ExistsBijection(1..n, T)
  BY <1>3 DEF ExistsBijection
<1>5. IsFiniteSet(T)
  BY <1>1, <1>4, FS_NatBijection
<1>6. Cardinality(T) = n
  BY <1>1, <1>4, FS_CountingElements
<1> QED BY <1>5, <1>6 DEF T, n

LEMMA EntryEqual ==
  ASSUME NEW a \in Entries, NEW b \in Entries, a.key = b.key, a.val = b.val
  PROVE  a = b
BY DEF Entries

\* Without repeated keys two maps of equal sizes match one another exactly
\* when they have the same entries.
LEMMA MatchSets ==
  ASSUME NEW d \in Seq(Entries), NEW e \in Seq(Entries), Promise!Distinct(d), Promise!Distinct(e)
  PROVE  Promise!Match(d, e) <=> Promise!ToSet(d) = Promise!ToSet(e)
<1>0. /\ Len(d) \in Nat /\ Len(e) \in Nat
      /\ \A i \in 1..Len(d) : d[i] \in Entries
      /\ \A i \in 1..Len(e) : e[i] \in Entries
  OBVIOUS
<1>1. ASSUME Promise!Match(d, e) PROVE Promise!ToSet(d) = Promise!ToSet(e)
  <2>1. ASSUME NEW i \in 1..Len(d) PROVE \E j \in 1..Len(e) : d[i] = e[j]
    <3> DEFINE f == Promise!FirstAt(e, d[i].key)
    <3>1. f \in 0..Len(e) /\ f # 0 /\ e[f].key = d[i].key /\ e[f].val = d[i].val
      BY <1>1, FirstAtFacts DEF Promise!Match
    <3> HIDE DEF f
    <3>2. f \in 1..Len(e)
      BY <3>1
    <3> QED BY <1>0, <3>1, <3>2, EntryEqual
  <2>2. Promise!ToSet(d) \in SUBSET Promise!ToSet(e)
    BY <2>1, EntrySet
  <2>3. Len(d) = Len(e)
    BY <1>1 DEF Promise!Match
  <2> QED BY <2>2, <2>3, DistinctCount, FS_Subset
<1>2. ASSUME Promise!ToSet(d) = Promise!ToSet(e) PROVE Promise!Match(d, e)
  <2>1. Len(d) = Len(e)
    BY <1>2, DistinctCount
  <2>2. ASSUME NEW i \in 1..Len(d)
        PROVE  /\ Promise!FirstAt(e, d[i].key) # 0
               /\ e[Promise!FirstAt(e, d[i].key)].val = d[i].val
    <3>1. PICK j \in 1..Len(e) : d[i] = e[j]
      BY <1>2, EntrySet
    <3>2. \A h \in 1..(j - 1) : e[h].key # e[j].key
      BY <1>0 DEF Promise!Distinct
    <3>3. Promise!FirstAt(e, e[j].key) = j
      BY <3>2, FirstAtIs
    <3> QED BY <1>0, <3>1, <3>3
  <2> QED BY <2>1, <2>2 DEF Promise!Match
<1> QED BY <1>1, <1>2

\* What operator== may return.
Answers(d, e) ==
  {r \in {Promise!Truth(Promise!Match(d, e)), Promise!Truth(Promise!Match(e, d))} :
     Promise!Distinct(d) /\ Promise!Distinct(e)
       => r = Promise!Truth(Promise!ToSet(d) = Promise!ToSet(e))}

LEMMA MatchAnswers ==
  ASSUME NEW d \in Seq(Entries), NEW e \in Seq(Entries)
  PROVE  Promise!Truth(Promise!Match(e, d)) \in Answers(d, e)
<1>1. ASSUME Promise!Distinct(d), Promise!Distinct(e)
      PROVE  Promise!Match(e, d) <=> Promise!ToSet(d) = Promise!ToSet(e)
  BY <1>1, MatchSets
<1> QED BY <1>1 DEF Answers, Promise!Truth

(***************************************************************************)
(* The steps of the ordered map, over what it sees.                        *)
(***************************************************************************)
LEMMA AsBegin ==
  ASSUME Objs # {}, Seen' = Seen, ret' = Promise!None
  PROVE  Promise!Next
<1>1. Promise!Begin
  BY DEF Promise!Begin, Seen
<1> QED BY <1>1 DEF Promise!Next

LEMMA AsLookup ==
  ASSUME NEW o \in Objs, NEW k \in Keys, Seen' = Seen,
         ret' = Promise!Found(Promise!FirstAt(Seen[o], k))
  PROVE  Promise!Next
<1>1. Promise!Lookup(o, k)
  BY DEF Promise!Lookup, Seen
<1> QED BY <1>1 DEF Promise!Next

\* insert: a hit; an append, or a throw before it.
LEMMA AsReplace ==
  ASSUME NEW o \in Objs, NEW k \in Keys, NEW v \in Promise!Values, NEW f, f = Promise!FirstAt(Seen[o], k),
         f # 0, NEW e, e = [Seen[o] EXCEPT ![f].val = v], Seen' = [Seen EXCEPT ![o] = e],
         ret' = Promise!Ok
  PROVE  Promise!Next
<1>1. Promise!Insert(Seen[o], k, v) = e
  BY DEF Promise!Insert, Promise!Put
<1>2. Promise!InsertKey(o, k, v)
  BY <1>1 DEF Promise!InsertKey, Promise!Set, Seen
<1> QED BY <1>2 DEF Promise!Next

LEMMA AsInsert ==
  ASSUME NEW o \in Objs, NEW k \in Keys, NEW v \in Promise!Values, NEW f, f = Promise!FirstAt(Seen[o], k),
         f = 0,
         \/ Seen' = Appended(Seen, o, k, v) /\ ret' \in {Promise!Ok, Promise!Thrown}
         \/ Seen' = Seen /\ ret' = Promise!Thrown
  PROVE  Promise!Next
<1>1. Promise!Insert(Seen[o], k, v) = Append(Seen[o], Promise!Entry(k, v))
  BY DEF Promise!Insert, Promise!Put
<1>2. \/ Seen' = [Seen EXCEPT ![o] = Promise!Insert(Seen[o], k, v)] /\ ret' = Promise!Ok
      \/ /\ Promise!FirstAt(Seen[o], k) = 0 /\ ret' = Promise!Thrown
         /\ \/ Seen' = [Seen EXCEPT ![o] = Promise!Insert(Seen[o], k, v)]
            \/ Seen' = Seen
  BY <1>1 DEF Appended
<1>3. Promise!InsertKey(o, k, v)
  BY <1>2 DEF Promise!InsertKey, Promise!Set, Seen
<1> QED BY <1>3 DEF Promise!Next

\* operator[]: the same with the null value, returning the position.
LEMMA AsSubscript ==
  ASSUME NEW o \in Objs, NEW k \in Keys, NEW f, f = Promise!FirstAt(Seen[o], k),
         \/ f # 0 /\ Seen' = Seen /\ ret' = Promise!Found(f)
         \/ /\ f = 0 /\ Seen' = Appended(Seen, o, k, NullValue)
            /\ ret' \in {Promise!Found(Len(Seen[o]) + 1), Promise!Thrown}
         \/ f = 0 /\ Seen' = Seen /\ ret' = Promise!Thrown
  PROVE  Promise!Next
<1>1. Promise!Subscript(o, k)
  BY DEF Promise!Subscript, Promise!Lookup, Promise!Set, Seen, Appended, NullValue
<1> QED BY <1>1 DEF Promise!Next

LEMMA AsErase ==
  ASSUME NEW o \in Objs, NEW k \in Keys, NEW f, f = Promise!FirstAt(Seen[o], k),
         \/ f = 0 /\ Seen' = Seen /\ ret' = Promise!Truth(FALSE)
         \/ f # 0 /\ Seen' = [Seen EXCEPT ![o] = RemoveAt(Seen[o], f)] /\ ret' = Promise!Truth(TRUE)
  PROVE  Promise!Next
<1>1. Promise!Erase(o, k)
  BY DEF Promise!Erase, Promise!Set, Seen, Promise!RemoveAt, RemoveAt
<1> QED BY <1>1 DEF Promise!Next

LEMMA AsMerge ==
  ASSUME NEW o \in Objs, NEW p \in Objs,
         \/ Seen' = [Seen EXCEPT ![o] = Promise!MergeAll(Seen[o], Seen[p])] /\ ret' = Promise!Ok
         \/ o = p /\ Seen' = Seen /\ ret' = Promise!Ok
         \/ \E n \in 0..Len(Seen[p]) : Seen' = MergedUpTo(Seen, o, p, n) /\ ret' = Promise!Thrown
  PROVE  Promise!Next
<1>1. ASSUME NEW n \in 0..Len(Seen[p]), Seen' = MergedUpTo(Seen, o, p, n), ret' = Promise!Thrown
      PROVE  Promise!Merge(o, p)
  <2>1. Promise!MergeAll(Seen[o], SubSeq(Seen[p], 1, n)) \in Promise!MergedInPart(Seen[o], Seen[p], n)
    BY DEF Promise!MergedInPart
  <2> QED BY <1>1, <2>1 DEF Promise!Merge, Promise!Set, Seen, MergedUpTo
<1>2. Promise!Merge(o, p)
  BY <1>1 DEF Promise!Merge, Promise!Set, Seen
<1> QED BY <1>2 DEF Promise!Next

\* The other object's first n entries are merged, the next one in part.
LEMMA AsMergePart ==
  ASSUME NEW o \in Objs, NEW p \in Objs, NEW n \in 0..Len(Seen[p]), n < Len(Seen[p]),
         NEW d, d = Promise!MergeAll(Seen[o], SubSeq(Seen[p], 1, n)),
         NEW i, i = Promise!FirstAt(d, Seen[p][n + 1].key), i # 0,
         NEW z \in Promise!Partly(d[i].val, Seen[p][n + 1].val),
         Seen' = [Seen EXCEPT ![o] = [d EXCEPT ![i].val = z]], ret' = Promise!Thrown
  PROVE  Promise!Next
<1>1. [d EXCEPT ![i].val = z] \in Promise!Interrupted(d, Seen[p][n + 1])
  BY DEF Promise!Interrupted
<1> DEFINE e == [d EXCEPT ![i].val = z]
<1>2. e \in Promise!MergedInPart(Seen[o], Seen[p], n)
  BY <1>1 DEF Promise!MergedInPart
<1> HIDE DEF e
<1>3. Promise!Merge(o, p)
  <2>1. Seen' = [Seen EXCEPT ![o] = e]
    BY DEF e
  <2> QED BY <1>2, <2>1 DEF Promise!Merge, Promise!Set, Seen
<1> QED BY <1>3 DEF Promise!Next

LEMMA AsEqual ==
  ASSUME NEW o \in Objs, NEW p \in Objs, Seen' = Seen,
         ret' \in Answers(Seen[o], Seen[p]) \union {Promise!Thrown}
  PROVE  Promise!Next
<1>1. Promise!Equal(o, p)
  BY DEF Promise!Equal, Seen, Answers
<1> QED BY <1>1 DEF Promise!Next

LEMMA AsMove ==
  ASSUME NEW o \in Objs, NEW p \in Objs, o # p,
         Seen' = [Seen EXCEPT ![o] = Seen[p], ![p] = <<>>], ret' = Promise!Moved
  PROVE  Promise!Next
<1>1. Promise!Move(o, p)
  BY DEF Promise!Move, Seen
<1> QED BY <1>1 DEF Promise!Next

LEMMA AsClone ==
  ASSUME NEW o \in Objs, NEW p \in Objs, o # p,
         \/ Seen' = [Seen EXCEPT ![o] = Seen[p]] /\ ret' = Promise!Cloned
         \/ Seen' = Seen /\ ret' = Promise!Thrown
  PROVE  Promise!Next
<1>1. Promise!Clone(o, p)
  BY DEF Promise!Clone, Promise!Set, Seen
<1> QED BY <1>1 DEF Promise!Next

LEMMA AsClear ==
  ASSUME NEW o \in Objs, Seen' = [Seen EXCEPT ![o] = <<>>], ret' = Promise!Ok
  PROVE  Promise!Next
<1>1. Promise!Clear(o)
  BY DEF Promise!Clear, Promise!Set, Seen
<1> QED BY <1>1 DEF Promise!Next

LEMMA AsGiven ==
  ASSUME NEW o \in Objs, \A p \in Objs \ {o} : Seen'[p] = Seen[p], ret' = <<"given", 0>>
  PROVE  Promise!Next
<1>1. Promise!Given(o)
  BY DEF Promise!Given, Seen
<1> QED BY <1>1 DEF Promise!Next

(***************************************************************************)
(* Steps inside a call.  Each leaves what the ordered map sees alone.      *)
(***************************************************************************)
\* A step keeps the invariant of this module and is one of the ordered map,
\* or none.
Follows == NoDead' /\ Progress' /\ (Promise!Next \/ (Seen' = Seen /\ ret' = ret))

LEMMA KeptFacts ==
  ASSUME Kept, pc # "idle"
  PROVE  /\ call \in Calls /\ call.o \in Objs /\ call.p \in Objs /\ call.n \in Nat \ {0}
         /\ call.op \in {"lookup", "remove", "subscript", "insert", "merge", "equal", "clone"}
         /\ call.v \in Promise!Values /\ call.o \in Alive
         /\ data \in [Objs -> Seq(Entries)] /\ old \in [Objs -> Seq(Entries)]
         /\ old[call.o] \in Seq(Entries) /\ old[call.p] \in Seq(Entries)
         /\ Len(old[call.o]) \in Nat /\ Len(old[call.p]) \in Nat
         /\ Stage(call, Phase, data, old) /\ Seen = old
<1>1. call \in Calls /\ call.o \in Alive /\ call.o \in Objs /\ call.p \in Objs
  BY CallFacts DEF Kept
<1>2. call.n \in Nat \ {0} /\ call.v \in Promise!Values
      /\ call.op \in {"lookup", "remove", "subscript", "insert", "merge", "equal", "clone"}
  BY <1>1 DEF Calls
<1>3. data \in [Objs -> Seq(Entries)]
  BY DEF Kept, Sound, Types
<1>4. old \in [Objs -> Seq(Entries)] /\ Stage(call, Phase, data, old)
  BY DEF Kept, Progress
<1>5. Seen = old
  BY DEF Seen
<1> QED BY <1>1, <1>2, <1>3, <1>4, <1>5

LEMMA NoDeadStays ==
  ASSUME NoDead, data' = data, res' = res
  PROVE  NoDead'
BY DEF NoDead, Alive

LEMMA InsideStep ==
  ASSUME Kept, pc # "idle", pc' # "idle", data' = data, res' = res, old' = old, ret' = ret,
         Stage(call', Phase', data, old)
  PROVE  Follows
<1>1. NoDead'
  BY NoDeadStays DEF Kept
<1>2. Progress'
  BY KeptFacts DEF Progress
<1>3. Seen' = Seen /\ ret' = ret
  BY DEF Seen
<1> QED BY <1>1, <1>2, <1>3 DEF Follows

LEMMA QuietFollows ==
  ASSUME Kept, FindLinear \/ FindStale \/ FindProbe \/ Refill \/ Grow \/ Allocate \/ NoteAppend \/ Ensure
  PROVE  Follows
<1>1. pc # "idle" /\ data' = data /\ res' = res /\ old' = old /\ ret' = ret /\ call' = call
  <2>1. CASE FindLinear \/ FindStale \/ FindProbe \/ Refill \/ Grow \/ Allocate
    BY <2>1 DEF FindLinear, FindStale, FindProbe, Refill, Grow, Allocate, store
  <2>2. CASE NoteAppend \/ Ensure
    BY <2>2 DEF NoteAppend, Ensure, Build, store
  <2> QED BY <2>1, <2>2
<1>2. pc' # "idle" /\ Phase' = Phase
  <2>1. CASE FindLinear \/ FindProbe
    BY <2>1 DEF FindLinear, FindProbe, Phase
  <2>2. CASE FindStale
    BY <2>2 DEF FindStale, Phase
  <2>3. CASE Refill
    <3>1. pc = "refill" /\ then' = then /\ pc' \in {"refill", then}
      BY <2>3 DEF Refill
    <3>2. then \in {"find", "noted", "loop"}
      BY <3>1 DEF Kept, Sound, Control
    <3> QED BY <3>1, <3>2 DEF Phase
  <2>4. CASE Grow \/ Allocate
    BY <2>4 DEF Grow, Allocate, Phase
  <2>5. CASE NoteAppend
    <3>1. pc = "note" /\ (pc' = "noted" \/ (pc' = "build" /\ then' = "noted"))
      BY <2>5 DEF NoteAppend, Build
    <3> QED BY <3>1 DEF Phase
  <2>6. CASE Ensure
    <3>1. /\ pc = "ensure" /\ pc' = "build" /\ call' = call
          /\ then' = IF call.op = "clone" THEN "noted" ELSE "loop"
      BY <2>6 DEF Ensure, Build
    <3> QED BY <3>1 DEF Phase
  <2> QED BY <2>1, <2>2, <2>3, <2>4, <2>5, <2>6
<1>3. Stage(call', Phase', data, old)
  <2>1. Stage(call, Phase, data, old)
    BY <1>1, KeptFacts
  <2> QED BY <1>1, <1>2, <2>1
<1> QED BY <1>1, <1>2, <1>3, InsideStep

(***************************************************************************)
(* A call begins.                                                          *)
(***************************************************************************)
LEMMA BeginFollows ==
  ASSUME Kept, pc = "idle", pc' # "idle", NEW o \in Objs, data' = data, res' = res, old' = data,
         ret' = Promise!None, Stage(call', Phase', data, data)
  PROVE  Follows
<1>1. NoDead'
  BY NoDeadStays DEF Kept
<1>2. Progress'
  BY DEF Progress, Kept, Sound, Types
<1>3. Seen' = Seen
  BY DEF Seen
<1>4. Promise!Next
  BY <1>3, AsBegin
<1> QED BY <1>1, <1>2, <1>4 DEF Follows

LEMMA StartFollows ==
  ASSUME Kept, NEW op, NEW o \in Objs, NEW p \in Objs, NEW k, NEW v, NEW first, first # "idle",
         Start(op, o, p, k, v, first), NEW c, NEW ph, ph = Phase',
         c = [op |-> op, o |-> o, p |-> p, k |-> k, v |-> v, n |-> 1], Stage(c, ph, data, data)
  PROVE  Follows
<1>1. /\ pc = "idle" /\ pc' = first /\ call' = c /\ old' = data /\ ret' = Promise!None
      /\ data' = data /\ res' = res
  BY DEF Start
<1> QED BY <1>1, BeginFollows

LEMMA PhaseIs ==
  /\ pc \in {"find", "found"} => Phase = "ask"
  /\ pc \in {"note", "noted"} => Phase = "noting"
  /\ pc \in {"loop", "differ"} => Phase = pc
  /\ pc = "ensure" => Phase = IF call.op = "clone" THEN "noting" ELSE "loop"
  /\ pc = "build" /\ then \in {"noted", "loop"} => Phase = IF then = "noted" THEN "noting" ELSE "loop"
BY DEF Phase

LEMMA PhaseBecomes ==
  /\ pc' \in {"find", "found"} => Phase' = "ask"
  /\ pc' \in {"note", "noted"} => Phase' = "noting"
  /\ pc' \in {"loop", "differ"} => Phase' = pc'
  /\ pc' = "ensure" => Phase' = IF call'.op = "clone" THEN "noting" ELSE "loop"
BY DEF Phase

LEMMA StartKeyedFollows ==
  ASSUME Kept, program \in Programs, StartKeyed
  PROVE  Follows
<1>1. PICK o \in Objs, k \in Keys :
        \/ \E op \in {"lookup", "remove"} : Start(op, o, o, k, NullValue, "find")
        \/ Start("subscript", o, o, k, NullValue, "find")
        \/ \E v \in program.values : Start("insert", o, o, k, v, "find")
  BY DEF StartKeyed
<1>2. PICK op, v : /\ op \in {"lookup", "remove", "subscript", "insert"}
                  /\ Start(op, o, o, k, v, "find") /\ (op = "subscript" => v = NullValue)
  BY <1>1
<1> DEFINE c == [op |-> op, o |-> o, p |-> o, k |-> k, v |-> v, n |-> 1]
<1>3. c.op = op /\ c.k = k /\ c.v = v
  OBVIOUS
<1> HIDE DEF c
<1>4. Phase' = "ask"
  <2>1. pc' = "find"
    BY <1>2 DEF Start
  <2> QED BY <2>1, PhaseBecomes
<1>5. Stage(c, Phase', data, data)
  BY <1>2, <1>3, <1>4 DEF Stage, AskStage, PutStage
<1> QED BY <1>2, <1>5, StartFollows DEF c

LEMMA StartMergeFollows ==
  ASSUME Kept, StartMerge
  PROVE  Follows
<1>1. PICK o \in Objs, p \in Objs :
        Start("merge", o, p, Null, NullValue, IF o = p THEN "noted" ELSE "loop")
  BY DEF StartMerge
<1> DEFINE c == [op |-> "merge", o |-> o, p |-> p, k |-> Null, v |-> NullValue, n |-> 1]
           first == IF o = p THEN "noted" ELSE "loop"
<1>2. c.op = "merge" /\ c.o = o /\ c.p = p /\ c.n = 1
  OBVIOUS
<1>3. data \in [Objs -> Seq(Entries)] /\ data[o] \in Seq(Entries) /\ data[p] \in Seq(Entries)
  BY DEF Kept, Sound, Types
<1>4. pc' = first
  BY <1>1 DEF Start
<1>5. MergeStage(c, Phase', data, data)
  <2>1. CASE o = p
    <3>1. Phase' = "noting"
      BY <1>4, <2>1, PhaseBecomes
    <3> HIDE DEF c
    <3> QED BY <1>2, <2>1, <3>1 DEF MergeStage
  <2>2. CASE o # p
    <3>1. Phase' = "loop"
      BY <1>4, <2>2, PhaseBecomes
    <3>2. Promise!MergeAll(data[o], SubSeq(data[p], 1, 0)) = data[o]
      BY <1>3, MergeNone
    <3>3. data = MergedUpTo(data, o, p, 0)
      BY <1>3, <3>2 DEF MergedUpTo
    <3>4. 1 - 1 = 0 /\ 0 <= Len(data[p])
      BY <1>3
    <3> HIDE DEF c
    <3> QED BY <1>2, <2>2, <3>1, <3>3, <3>4 DEF MergeStage
  <2> QED BY <2>1, <2>2
<1>6. Stage(c, Phase', data, data)
  <2> HIDE DEF c
  <2> QED BY <1>2, <1>5 DEF Stage
<1>7. first # "idle"
  OBVIOUS
<1> HIDE DEF c, first
<1>8. Start("merge", o, p, Null, NullValue, first)
  BY <1>1 DEF first
<1> QED BY <1>6, <1>7, <1>8, StartFollows DEF c

LEMMA StartEqualFollows ==
  ASSUME Kept, StartEqual
  PROVE  Follows
<1>1. PICK o \in Objs, p \in Objs, first \in {"differ", "ensure", "loop"} :
        /\ Start("equal", o, p, Null, NullValue, first)
        /\ first = "differ" <=> Len(data[o]) # Len(data[p])
  <2>1. PICK x \in Objs, y \in Objs, z \in BOOLEAN, w \in BOOLEAN :
          Start("equal", IF z THEN y ELSE x, IF z THEN x ELSE y, Null, NullValue,
                CASE Len(data[x]) # Len(data[y]) -> "differ"
                  [] Len(data[x]) = Len(data[y]) /\ w -> "ensure"
                  [] OTHER -> "loop")
    BY DEF StartEqual
  <2> DEFINE f == CASE Len(data[x]) # Len(data[y]) -> "differ"
                    [] Len(data[x]) = Len(data[y]) /\ w -> "ensure"
                    [] OTHER -> "loop"
  <2>2. f \in {"differ", "ensure", "loop"} /\ (f = "differ" <=> Len(data[x]) # Len(data[y]))
    OBVIOUS
  <2>3. Start("equal", IF z THEN y ELSE x, IF z THEN x ELSE y, Null, NullValue, f)
    BY <2>1
  <2> HIDE DEF f
  <2> QED BY <2>2, <2>3
<1> DEFINE c == [op |-> "equal", o |-> o, p |-> p, k |-> Null, v |-> NullValue, n |-> 1]
<1>2. c.op = "equal" /\ c.o = o /\ c.p = p /\ c.n = 1
  OBVIOUS
<1>3. Len(data[p]) \in Nat
  BY DEF Kept, Sound, Types
<1>4. pc' = first /\ call'.op = "equal"
  BY <1>1 DEF Start
<1>5. Phase' = IF first = "differ" THEN "differ" ELSE "loop"
  BY <1>1, <1>4, PhaseBecomes
<1>6. EqualStage(c, Phase', data, data)
  <2>1. MatchUpTo(data[p], data[o], 0)
    BY DEF MatchUpTo
  <2>2. 1 - 1 = 0 /\ 0 <= Len(data[p])
    BY <1>3
  <2> HIDE DEF c
  <2> QED BY <1>1, <1>2, <1>5, <2>1, <2>2 DEF EqualStage
<1>7. Stage(c, Phase', data, data)
  <2> HIDE DEF c
  <2> QED BY <1>2, <1>6 DEF Stage
<1>8. first # "idle"
  OBVIOUS
<1> HIDE DEF c
<1> QED BY <1>1, <1>7, <1>8, StartFollows DEF c

(***************************************************************************)
(* The loops of merge and operator==.                                      *)
(***************************************************************************)
\* The object iterated over is what it was.
LEMMA IteratedStays ==
  ASSUME NEW od \in [Objs -> Seq(Entries)], NEW o \in Objs, NEW p \in Objs, NEW m, o # p
  PROVE  MergedUpTo(od, o, p, m)[p] = od[p]
BY DEF MergedUpTo

\* Which calls are between two entries, and with what.
LEMMA LoopFacts ==
  ASSUME Kept, pc = "loop"
  PROVE  /\ call.op \in {"merge", "equal"} /\ data[call.p] = old[call.p] /\ call.n - 1 <= Len(old[call.p])
         /\ call.op = "merge" => /\ call.o # call.p
                                 /\ data = MergedUpTo(old, call.o, call.p, call.n - 1)
         /\ call.op = "equal" => /\ data = old /\ Len(old[call.o]) = Len(old[call.p])
                                 /\ MatchUpTo(old[call.p], old[call.o], call.n - 1)
<1>1. Phase = "loop"
  BY PhaseIs
<1>2. /\ Stage(call, "loop", data, old) /\ old \in [Objs -> Seq(Entries)]
      /\ call.o \in Objs /\ call.p \in Objs
      /\ call.op \in {"lookup", "remove", "subscript", "insert", "merge", "equal", "clone"}
  BY <1>1, KeptFacts
<1>3. call.op \in {"merge", "equal"}
  BY <1>2 DEF Stage, AskStage, PutStage, CloneStage
<1>4. ASSUME call.op = "merge"
      PROVE  /\ call.o # call.p /\ call.n - 1 <= Len(old[call.p])
             /\ data = MergedUpTo(old, call.o, call.p, call.n - 1)
  BY <1>2, <1>4 DEF Stage, MergeStage
<1>5. ASSUME call.op = "equal"
      PROVE  /\ data = old /\ Len(old[call.o]) = Len(old[call.p]) /\ call.n - 1 <= Len(old[call.p])
             /\ MatchUpTo(old[call.p], old[call.o], call.n - 1)
  BY <1>2, <1>5 DEF Stage, EqualStage
<1>6. data[call.p] = old[call.p]
  <2>1. CASE call.op = "merge"
    BY <1>2, <1>4, <2>1, IteratedStays
  <2>2. CASE call.op = "equal"
    BY <1>5, <2>2
  <2> QED BY <1>3, <2>1, <2>2
<1> QED BY <1>3, <1>4, <1>5, <1>6

LEMMA NextEntryFollows ==
  ASSUME Kept, NextEntry
  PROVE  Follows
<1> DEFINE e == data[call.p][call.n]
<1>1. /\ pc = "loop" /\ pc' = "find" /\ data' = data /\ res' = res /\ old' = old /\ ret' = ret
      /\ call.n <= Len(data[call.p])
      /\ call' = [call EXCEPT !.k = e.key, !.v = e.val, !.n = @ + 1]
  BY DEF NextEntry, store
<1>2. call \in Calls /\ call.n \in Nat \ {0} /\ Len(old[call.p]) \in Nat
  BY <1>1, KeptFacts
<1>3. /\ call.op \in {"merge", "equal"} /\ e = old[call.p][call.n] /\ call.n <= Len(old[call.p])
  BY <1>1, LoopFacts
<1> HIDE DEF e
<1> DEFINE m == call.n + 1
<1>4. /\ call'.op = call.op /\ call'.o = call.o /\ call'.p = call.p
      /\ call'.k = e.key /\ call'.v = e.val /\ call'.n = m
  <2>1. call' = [call EXCEPT !.k = e.key, !.v = e.val, !.n = m]
    BY <1>1, <1>2 DEF Calls
  <2> HIDE DEF m
  <2> QED BY <1>2, <2>1 DEF Calls
<1>5. m - 1 = call.n /\ m - 2 = call.n - 1 /\ m >= 2
  BY <1>2
<1> HIDE DEF m
<1>6. Asked(call', old)
  BY <1>3, <1>4, <1>5 DEF Asked
<1>7. Stage(call', "ask", data, old)
  <2>1. CASE call.op = "merge"
    <3>1. call.o # call.p /\ data = MergedUpTo(old, call.o, call.p, call.n - 1)
      BY <1>1, <2>1, LoopFacts
    <3>2. MergeStage(call', "ask", data, old)
      BY <1>4, <1>5, <1>6, <3>1 DEF MergeStage
    <3> QED BY <1>4, <2>1, <3>2 DEF Stage
  <2>2. CASE call.op = "equal"
    <3>1. /\ data = old /\ Len(old[call.o]) = Len(old[call.p])
          /\ MatchUpTo(old[call.p], old[call.o], call.n - 1)
      BY <1>1, <2>2, LoopFacts
    <3>2. EqualStage(call', "ask", data, old)
      BY <1>4, <1>5, <1>6, <3>1 DEF EqualStage
    <3> QED BY <1>4, <2>2, <3>2 DEF Stage
  <2> QED BY <1>3, <2>1, <2>2
<1>8. Phase' = "ask"
  BY <1>1, PhaseBecomes
<1> QED BY <1>1, <1>7, <1>8, InsideStep

\* What a lookup has found, in each of the calls that ask.
LEMMA FoundFacts ==
  ASSUME Kept, pc = "found"
  PROVE  /\ call.k \in Keys /\ pos = Promise!FirstAt(data[call.o], call.k) /\ pos \in 0..Len(data[call.o])
         /\ data[call.o] \in Seq(Entries)
         /\ call.op # "merge" => data = old
         /\ call.op = "merge" => /\ call.o # call.p /\ Asked(call, old)
                                 /\ data = MergedUpTo(old, call.o, call.p, call.n - 2)
         /\ call.op = "equal" => /\ Len(old[call.o]) = Len(old[call.p])
                                 /\ Asked(call, old) /\ MatchUpTo(old[call.p], old[call.o], call.n - 2)
<1>1. Phase = "ask"
  BY PhaseIs
<1>2. /\ Stage(call, "ask", data, old) /\ data \in [Objs -> Seq(Entries)] /\ call.o \in Objs
      /\ call.op \in {"lookup", "remove", "subscript", "insert", "merge", "equal", "clone"}
  BY <1>1, KeptFacts
<1>3. call.k \in Keys /\ pos = Promise!FirstAt(data[call.o], call.k)
  BY DEF Kept, Sound, Control
<1>4. data[call.o] \in Seq(Entries)
  BY <1>2
<1>5. pos \in 0..Len(data[call.o])
  BY <1>3, <1>4, FirstAtFacts
<1>6. ASSUME call.op # "merge" PROVE data = old
  BY <1>2, <1>6 DEF Stage, AskStage, PutStage, EqualStage, CloneStage
<1>7. ASSUME call.op = "merge"
      PROVE  call.o # call.p /\ Asked(call, old) /\ data = MergedUpTo(old, call.o, call.p, call.n - 2)
  BY <1>2, <1>7 DEF Stage, MergeStage
<1>8. ASSUME call.op = "equal"
      PROVE  /\ Len(old[call.o]) = Len(old[call.p])
             /\ Asked(call, old) /\ MatchUpTo(old[call.p], old[call.o], call.n - 2)
  BY <1>2, <1>8 DEF Stage, EqualStage
<1> QED BY <1>3, <1>4, <1>5, <1>6, <1>7, <1>8

LEMMA EqualFoundFollows ==
  ASSUME Kept, EqualFound
  PROVE  Follows
<1>1. /\ pc = "found" /\ pc' = "loop" /\ data' = data /\ res' = res /\ old' = old /\ ret' = ret
      /\ call' = call /\ call.op = "equal" /\ pos # 0 /\ data[call.o][pos].val = call.v
  BY DEF EqualFound, store, SameEntry, Own, This
<1>2. /\ data = old /\ pos = Promise!FirstAt(old[call.o], call.k)
      /\ Len(old[call.o]) = Len(old[call.p])
      /\ Asked(call, old) /\ MatchUpTo(old[call.p], old[call.o], call.n - 2)
  BY <1>1, FoundFacts
<1>3. call.n \in Nat \ {0}
  BY <1>1, KeptFacts, SMTT(40)
<1>4. MatchUpTo(old[call.p], old[call.o], call.n - 1)
  <2>1. \A i \in 1..(call.n - 1) : i \in 1..(call.n - 2) \/ i = call.n - 1
    BY <1>3
  <2> QED BY <1>1, <1>2, <2>1 DEF MatchUpTo, Asked
<1>5. EqualStage(call, "loop", data, old)
  BY <1>2, <1>4 DEF EqualStage, Asked
<1>6. Stage(call, "loop", data, old)
  BY <1>1, <1>5 DEF Stage
<1>7. Phase' = "loop"
  BY <1>1, PhaseBecomes
<1> QED BY <1>1, <1>6, <1>7, InsideStep

\* The entry asked for is merged: one more of the other object's.
LEMMA MergedOneMore ==
  ASSUME Kept, pc = "found", call.op = "merge", NEW new,
         new = IF pos = 0 THEN Append(data[call.o], Promise!Entry(call.k, call.v))
               ELSE [data[call.o] EXCEPT ![pos].val = Promise!MergedValue(@, call.v)]
  PROVE  [data EXCEPT ![call.o] = new] = MergedUpTo(old, call.o, call.p, call.n - 1)
<1> DEFINE d == old[call.o]
           e == old[call.p]
           m == call.n - 2
<1>1. /\ pos = Promise!FirstAt(data[call.o], call.k) /\ Asked(call, old)
      /\ data = MergedUpTo(old, call.o, call.p, m)
  BY FoundFacts
<1>2. /\ call.o \in Objs /\ old \in [Objs -> Seq(Entries)] /\ d \in Seq(Entries) /\ e \in Seq(Entries)
      /\ call.n \in Nat \ {0}
  BY KeptFacts
<1>3. m \in Nat /\ m + 1 = call.n - 1 /\ m + 1 <= Len(e) /\ call.k = e[m + 1].key /\ call.v = e[m + 1].val
  <2>1. call.n >= 2 /\ call.n - 1 <= Len(e) /\ call.k = e[call.n - 1].key /\ call.v = e[call.n - 1].val
    BY <1>1 DEF Asked
  <2>2. m \in Nat /\ m + 1 = call.n - 1
    BY <1>2, <2>1
  <2> HIDE DEF m, e
  <2> QED BY <2>1, <2>2, SMTT(40)
<1> HIDE DEF d, e, m
<1>4. data[call.o] = Promise!MergeAll(d, SubSeq(e, 1, m))
  BY <1>1, <1>2 DEF MergedUpTo, d, e
<1>5. new = PutEntry(data[call.o], e[m + 1])
  BY <1>1, <1>3 DEF PutEntry
<1>6. new = Promise!MergeAll(d, SubSeq(e, 1, m + 1))
  <2>1. Promise!MergeAll(d, SubSeq(e, 1, m + 1)) = PutEntry(Promise!MergeAll(d, SubSeq(e, 1, m)), e[m + 1])
    BY <1>2, <1>3, MergeNext
  <2> QED BY <1>4, <1>5, <2>1
<1>7. [data EXCEPT ![call.o] = new] = [old EXCEPT ![call.o] = new]
  BY <1>1, <1>2 DEF MergedUpTo
<1> QED BY <1>3, <1>6, <1>7 DEF MergedUpTo, d, e

\* A call changes the entries of its object and goes on.
LEMMA ChangeFollows ==
  ASSUME Kept, pc # "idle", pc' # "idle", NEW e \in Seq(Entries), data' = [data EXCEPT ![call.o] = e],
         res' = res, old' = old, ret' = ret, call' = call, Stage(call, Phase', data', old)
  PROVE  Follows
<1>1. call.o \in Objs /\ call.o \in Alive /\ data \in [Objs -> Seq(Entries)] /\ old \in [Objs -> Seq(Entries)]
  BY KeptFacts
<1>2. NoDead'
  BY <1>1 DEF Kept, NoDead, Alive
<1>3. Progress'
  BY <1>1 DEF Progress
<1>4. Seen' = Seen /\ ret' = ret
  BY DEF Seen
<1> QED BY <1>2, <1>3, <1>4 DEF Follows

\* A call returns: the ordered map sees what has become of the entries.
LEMMA ReturnFacts ==
  ASSUME Kept, pc # "idle", NEW r, Return(r)
  PROVE  Progress' /\ Seen = old /\ Seen' = data' /\ ret' = r
<1>1. pc' = "idle" /\ ret' = r
  BY DEF Return
<1> QED BY <1>1 DEF Progress, Seen

LEMMA SameReturns ==
  ASSUME Kept, pc # "idle", NEW r, Return(r), UNCHANGED <<store, cache>>,
         Seen = old /\ Seen' = data /\ ret' = r => Promise!Next
  PROVE  Follows
<1>1. data' = data /\ res' = res
  BY DEF store
<1>2. NoDead'
  BY <1>1, NoDeadStays DEF Kept
<1>3. Progress' /\ Promise!Next
  BY <1>1, ReturnFacts
<1> QED BY <1>2, <1>3 DEF Follows

LEMMA AppendFollows ==
  ASSUME Kept, pc = "found", pos = 0, call.op \in {"insert", "subscript", "merge"},
         NEW v, v = call.v, AppendEntry(call.k, v)
  PROVE  Follows
<1> DEFINE o == call.o
           k == call.k
           new == Append(data[o], Promise!Entry(k, v))
<1>1. /\ o \in Objs /\ call.p \in Objs /\ data \in [Objs -> Seq(Entries)] /\ v \in Promise!Values
      /\ old \in [Objs -> Seq(Entries)] /\ Len(old[call.p]) \in Nat /\ call.n \in Nat \ {0}
  BY KeptFacts
<1>2. /\ k \in Keys /\ 0 = Promise!FirstAt(data[o], k)
      /\ call.op # "merge" => data = old
      /\ call.op = "merge" => /\ o # call.p /\ Asked(call, old)
                              /\ data = MergedUpTo(old, o, call.p, call.n - 2)
  BY FoundFacts
<1>3. ASSUME call.op = "subscript" PROVE v = NullValue
  BY <1>3, KeptFacts DEF Stage
<1>4. CASE /\ data' = [data EXCEPT ![This] = Append(@, Promise!Entry(k, v))] /\ pc' = "note"
           /\ UNCHANGED <<res, held, cache, call, pos, at, then, old, ret>>
  <2>1. data' = [data EXCEPT ![o] = new] /\ res' = res /\ old' = old /\ ret' = ret /\ call' = call
    BY <1>1, <1>4 DEF This
  <2>2. new \in Seq(Entries)
    <3>1. Promise!Entry(k, v) \in Entries
      BY <1>1, <1>2 DEF Promise!Entry, Entries
    <3> QED BY <1>1, <3>1
  <2>3. Phase' = "noting"
    BY <1>4, PhaseBecomes
  <2>4. CASE call.op \in {"insert", "subscript"}
    <3>1. data = old
      BY <1>2, <2>4
    <3>2. PutStage(call, "noting", data', old)
      BY <1>2, <2>1, <3>1 DEF PutStage, Appended
    <3>3. Stage(call, "noting", data', old)
      BY <1>3, <2>4, <3>2 DEF Stage
    <3> HIDE DEF new, o, k
    <3> QED BY <1>4, <2>1, <2>2, <2>3, <3>3, ChangeFollows DEF o
  <2>5. CASE call.op = "merge"
    <3>1. data' = MergedUpTo(old, o, call.p, call.n - 1)
      BY <2>1, <2>5, MergedOneMore
    <3>2. MergeStage(call, "noting", data', old)
      BY <1>2, <2>5, <3>1 DEF MergeStage, Asked
    <3>3. Stage(call, "noting", data', old)
      BY <2>5, <3>2 DEF Stage
    <3> HIDE DEF new, o, k
    <3> QED BY <1>4, <2>1, <2>2, <2>3, <3>3, ChangeFollows DEF o
  <2> QED BY <2>4, <2>5
<1>5. CASE Return(Promise!Thrown) /\ UNCHANGED <<store, cache>>
  <2> SUFFICES ASSUME Seen = old, Seen' = data, ret' = Promise!Thrown PROVE Promise!Next
    BY <1>5, SameReturns
  <2>1. CASE call.op = "insert"
    <3>1. Seen' = Seen /\ 0 = Promise!FirstAt(Seen[o], k)
      BY <1>2, <2>1
    <3> QED BY <1>1, <1>2, <3>1, AsInsert
  <2>2. CASE call.op = "subscript"
    <3>1. Seen' = Seen /\ 0 = Promise!FirstAt(Seen[o], k)
      BY <1>2, <2>2
    <3> QED BY <1>1, <1>2, <3>1, AsSubscript
  <2>3. CASE call.op = "merge"
    <3> DEFINE m == call.n - 2
    <3>1. m \in 0..Len(Seen[call.p])
      BY <1>1, <1>2, <2>3 DEF Asked
    <3>2. Seen' = MergedUpTo(Seen, o, call.p, m)
      BY <1>2, <2>3
    <3> HIDE DEF m, o, k
    <3> QED BY <1>1, <3>1, <3>2, AsMerge DEF o
  <2> QED BY <2>1, <2>2, <2>3
<1> QED BY <1>4, <1>5 DEF AppendEntry

(***************************************************************************)
(* The calls return, each with what the ordered map answers.               *)
(***************************************************************************)
\* A call that has changed an entry returns.
LEMMA ChangeReturns ==
  ASSUME Kept, pc # "idle", NEW r, Return(r), NEW e, data' = [data EXCEPT ![call.o] = e], res' = res,
         Seen = old /\ Seen' = data' /\ ret' = r => Promise!Next
  PROVE  Follows
<1>1. call.o \in Objs /\ call.o \in Alive /\ data \in [Objs -> Seq(Entries)]
  BY KeptFacts
<1>2. NoDead'
  BY <1>1 DEF Kept, NoDead, Alive
<1>3. Progress' /\ Promise!Next
  BY ReturnFacts
<1> QED BY <1>2, <1>3 DEF Follows

LEMMA LookupFoundFollows ==
  ASSUME Kept, LookupFound
  PROVE  Follows
<1>1. /\ pc = "found" /\ call.op = "lookup" /\ Return(Promise!Found(pos)) /\ UNCHANGED <<store, cache>>
  BY DEF LookupFound
<1>2. call.o \in Objs /\ call.k \in Keys /\ data = old /\ pos = Promise!FirstAt(old[call.o], call.k)
  BY <1>1, KeptFacts, FoundFacts
<1> SUFFICES ASSUME Seen = old, Seen' = data, ret' = Promise!Found(pos) PROVE Promise!Next
  BY <1>1, SameReturns
<1> QED BY <1>2, AsLookup

LEMMA InsertFoundFollows ==
  ASSUME Kept, InsertFound
  PROVE  Follows
<1>1. pc = "found" /\ call.op = "insert"
  BY DEF InsertFound
<1>2. CASE /\ pos # 0 /\ data' = [data EXCEPT ![This][pos].val = call.v]
           /\ Return(Promise!Ok) /\ UNCHANGED <<res, held, cache>>
  <2>1. /\ call.o \in Objs /\ call.k \in Keys /\ call.v \in Promise!Values /\ data = old
        /\ pos = Promise!FirstAt(old[call.o], call.k) /\ data \in [Objs -> Seq(Entries)]
    BY <1>1, KeptFacts, FoundFacts
  <2> DEFINE e == [old[call.o] EXCEPT ![pos].val = call.v]
  <2>2. data' = [data EXCEPT ![call.o] = e]
    BY <1>2, <2>1 DEF This
  <2>3. ASSUME Seen = old, Seen' = data', ret' = Promise!Ok PROVE Promise!Next
    <3>1. Seen' = [Seen EXCEPT ![call.o] = e] /\ pos = Promise!FirstAt(Seen[call.o], call.k)
      BY <2>1, <2>2, <2>3
    <3>2. e = [Seen[call.o] EXCEPT ![pos].val = call.v]
      BY <2>3
    <3> HIDE DEF e
    <3>3. pos # 0 /\ ret' = Promise!Ok /\ call.o \in Objs /\ call.k \in Keys /\ call.v \in Promise!Values
      BY <1>2, <2>1, <2>3
    <3> QED BY <3>1, <3>2, <3>3, AsReplace
  <2> HIDE DEF e
  <2> QED BY <1>1, <1>2, <2>2, <2>3, ChangeReturns
<1>3. CASE pos = 0 /\ AppendEntry(call.k, call.v)
  BY <1>1, <1>3, AppendFollows
<1> QED BY <1>2, <1>3 DEF InsertFound

LEMMA SubscriptFoundFollows ==
  ASSUME Kept, SubscriptFound
  PROVE  Follows
<1>1. pc = "found" /\ call.op = "subscript"
  BY DEF SubscriptFound
<1>2. CASE pos # 0 /\ Return(Promise!Found(pos)) /\ UNCHANGED <<store, cache>>
  <2>1. call.o \in Objs /\ call.k \in Keys /\ data = old /\ pos = Promise!FirstAt(old[call.o], call.k)
    BY <1>1, KeptFacts, FoundFacts
  <2> SUFFICES ASSUME Seen = old, Seen' = data, ret' = Promise!Found(pos) PROVE Promise!Next
    BY <1>1, <1>2, SameReturns
  <2>2. Seen' = Seen /\ pos = Promise!FirstAt(Seen[call.o], call.k)
    BY <2>1
  <2> QED BY <1>2, <2>1, <2>2, AsSubscript
<1>3. CASE pos = 0 /\ AppendEntry(call.k, NullValue)
  <2>1. NullValue = call.v
    BY <1>1, KeptFacts DEF Stage
  <2> QED BY <1>1, <1>3, <2>1, AppendFollows
<1> QED BY <1>2, <1>3 DEF SubscriptFound

LEMMA RemoveFoundFollows ==
  ASSUME Kept, RemoveFound
  PROVE  Follows
<1>1. pc = "found" /\ call.op = "remove" /\ res' = res /\ held' = held
  BY DEF RemoveFound
<1>2. /\ call.o \in Objs /\ call.k \in Keys /\ data = old /\ data \in [Objs -> Seq(Entries)]
      /\ pos = Promise!FirstAt(old[call.o], call.k)
  BY <1>1, KeptFacts, FoundFacts
<1>3. CASE pos = 0 /\ Return(Promise!Truth(FALSE)) /\ UNCHANGED <<data, cache>>
  <2> SUFFICES ASSUME Seen = old, Seen' = data, ret' = Promise!Truth(FALSE) PROVE Promise!Next
    BY <1>1, <1>3, SameReturns DEF store
  <2>1. Seen' = Seen /\ pos = Promise!FirstAt(Seen[call.o], call.k)
    BY <1>2
  <2> QED BY <1>2, <1>3, <2>1, AsErase
<1>4. CASE /\ pos # 0 /\ data' = [data EXCEPT ![This] = RemoveAt(@, pos)]
           /\ Return(Promise!Truth(TRUE))
  <2> DEFINE e == RemoveAt(old[call.o], pos)
  <2>1. data' = [data EXCEPT ![call.o] = e]
    BY <1>2, <1>4 DEF This
  <2>2. ASSUME Seen = old, Seen' = data', ret' = Promise!Truth(TRUE) PROVE Promise!Next
    <3>1. Seen' = [Seen EXCEPT ![call.o] = RemoveAt(Seen[call.o], pos)]
      BY <1>2, <2>1, <2>2
    <3>2. pos = Promise!FirstAt(Seen[call.o], call.k)
      BY <1>2, <2>2
    <3> QED BY <1>2, <1>4, <2>2, <3>1, <3>2, AsErase
  <2> HIDE DEF e
  <2> QED BY <1>1, <1>4, <2>1, <2>2, ChangeReturns
<1> QED BY <1>3, <1>4 DEF RemoveFound

LEMMA MergeFoundFollows ==
  ASSUME Kept, MergeFound
  PROVE  Follows
<1>1. pc = "found" /\ call.op = "merge"
  BY DEF MergeFound
<1>2. /\ call.o \in Objs /\ call.p \in Objs /\ call.n \in Nat \ {0} /\ Len(old[call.p]) \in Nat
      /\ data \in [Objs -> Seq(Entries)] /\ call.v \in Promise!Values
  BY <1>1, KeptFacts
<1>3. /\ call.o # call.p /\ Asked(call, old) /\ data = MergedUpTo(old, call.o, call.p, call.n - 2)
      /\ pos \in 0..Len(data[call.o]) /\ data[call.o] \in Seq(Entries)
  BY <1>1, FoundFacts
<1>4. CASE /\ pos # 0 /\ data' = [data EXCEPT ![This][pos].val = Promise!MergedValue(@, call.v)]
           /\ pc' = "loop" /\ pos' = 0 /\ UNCHANGED <<res, held, cache, call, at, then, old, ret>>
  <2> DEFINE e == [data[call.o] EXCEPT ![pos].val = Promise!MergedValue(@, call.v)]
  <2>1. data' = [data EXCEPT ![call.o] = e]
    BY <1>2, <1>4 DEF This
  <2>2. e \in Seq(Entries)
    <3> DEFINE w == Promise!MergedValue(data[call.o][pos].val, call.v)
    <3>1. pos \in 1..Len(data[call.o])
      BY <1>3, <1>4
    <3>2. w \in Promise!Values
      <4>1. data[call.o][pos].val \in Promise!Values
        BY <1>3, <3>1, EntryKeys
      <4> QED BY <1>2, <4>1, MergedType
    <3>3. e = [data[call.o] EXCEPT ![pos].val = w]
      BY <1>3, <3>1
    <3> HIDE DEF e, w
    <3> QED BY <1>3, <3>1, <3>2, <3>3, NewValue
  <2>3. data' = MergedUpTo(old, call.o, call.p, call.n - 1)
    BY <1>1, <1>4, <2>1, MergedOneMore
  <2> HIDE DEF e
  <2>4. Phase' = "loop"
    BY <1>4, PhaseBecomes
  <2>5. MergeStage(call, "loop", data', old)
    BY <1>3, <2>3 DEF MergeStage, Asked
  <2>6. Stage(call, "loop", data', old)
    BY <1>1, <2>5 DEF Stage
  <2> QED BY <1>1, <1>4, <2>1, <2>2, <2>4, <2>6, ChangeFollows
<1>5. ASSUME pos # 0, NEW z \in Promise!Partly(Own[pos].val, call.v),
             data' = [data EXCEPT ![This][pos].val = z], Return(Promise!Thrown),
             UNCHANGED <<res, held, cache>>
      PROVE  Follows
  <2> DEFINE m == call.n - 2
             d == data[call.o]
             e == [d EXCEPT ![pos].val = z]
  <2>1. m \in Nat /\ m + 1 = call.n - 1
    BY <1>2, <1>3 DEF Asked
  <2>2. m \in 0..Len(old[call.p]) /\ m < Len(old[call.p])
    BY <1>2, <1>3, <2>1 DEF Asked
  <2>3. call.k = old[call.p][m + 1].key /\ call.v = old[call.p][m + 1].val
    BY <1>3, <2>1 DEF Asked
  <2>4. d = Promise!MergeAll(old[call.o], SubSeq(old[call.p], 1, m)) /\ data = [old EXCEPT ![call.o] = d]
    <3>1. old \in [Objs -> Seq(Entries)]
      BY <1>1, KeptFacts
    <3> QED BY <1>2, <1>3, <3>1 DEF MergedUpTo
  <2>5. pos = Promise!FirstAt(d, call.k)
    BY <1>1, FoundFacts
  <2>6. z \in Promise!Partly(d[pos].val, call.v)
    BY <1>5 DEF Own, This
  <2>7. data' = [data EXCEPT ![call.o] = e]
    BY <1>2, <1>5 DEF This
  <2>8. data' = [old EXCEPT ![call.o] = e]
    BY <1>2, <2>4, <2>7
  <2>9. e = [d EXCEPT ![pos].val = z]
    OBVIOUS
  <2> HIDE DEF e, d, m
  <2>10. ASSUME Seen = old, Seen' = data', ret' = Promise!Thrown PROVE Promise!Next
    <3>1. m \in 0..Len(Seen[call.p]) /\ m < Len(Seen[call.p])
      BY <2>2, <2>10
    <3>2. d = Promise!MergeAll(Seen[call.o], SubSeq(Seen[call.p], 1, m))
      BY <2>4, <2>10
    <3>3. pos = Promise!FirstAt(d, Seen[call.p][m + 1].key) /\ z \in Promise!Partly(d[pos].val, Seen[call.p][m + 1].val)
      BY <2>3, <2>5, <2>6, <2>10
    <3>4. Seen' = [Seen EXCEPT ![call.o] = [d EXCEPT ![pos].val = z]]
      BY <2>8, <2>9, <2>10
    <3>5. pos # 0 /\ call.o \in Objs /\ call.p \in Objs /\ ret' = Promise!Thrown
      BY <1>2, <1>5, <2>10
    <3> QED BY <3>1, <3>2, <3>3, <3>4, <3>5, AsMergePart
  <2> QED BY <1>1, <1>5, <2>7, <2>10, ChangeReturns
<1>6. CASE pos = 0 /\ AppendEntry(call.k, call.v)
  BY <1>1, <1>6, AppendFollows
<1> QED BY <1>4, <1>5, <1>6 DEF MergeFound

\* Which calls have appended and what, or are about to get an index.
LEMMA NotingFacts ==
  ASSUME Kept, pc # "idle", Phase \in {"noting", "loop"}
  PROVE  /\ call.op \in {"insert", "subscript", "merge", "equal", "clone"}
         /\ call.op \in {"insert", "subscript"} =>
              /\ call.k \in Keys /\ 0 = Promise!FirstAt(old[call.o], call.k)
              /\ data = Appended(old, call.o, call.k, call.v)
         /\ call.op = "subscript" => call.v = NullValue
         /\ call.op = "merge" => \/ call.o = call.p /\ Phase = "noting" /\ data = old
                                 \/ /\ call.o # call.p /\ call.n - 1 <= Len(old[call.p])
                                    /\ data = MergedUpTo(old, call.o, call.p, call.n - 1)
         /\ call.op = "equal" => data = old /\ Phase = "loop"
         /\ call.op = "clone" => /\ call.o # call.p /\ old[call.o] = <<>>
                                 /\ data = [old EXCEPT ![call.o] = old[call.p]]
<1>1. /\ Stage(call, Phase, data, old)
      /\ call.op \in {"lookup", "remove", "subscript", "insert", "merge", "equal", "clone"}
  BY KeptFacts
<1> DEFINE ph == Phase
<1>2. Stage(call, ph, data, old) /\ ph \in {"noting", "loop"}
  BY <1>1
<1> HIDE DEF ph
<1>3. call.op \notin {"lookup", "remove"}
  BY <1>2 DEF Stage, AskStage
<1>4. call.op \in {"insert", "subscript"} =>
                /\ call.k \in Keys /\ 0 = Promise!FirstAt(old[call.o], call.k)
                /\ data = Appended(old, call.o, call.k, call.v)
  BY <1>2 DEF Stage, PutStage
<1>5. call.op = "subscript" => call.v = NullValue
  BY <1>2 DEF Stage
<1>6. call.op = "merge" => \/ call.o = call.p /\ ph = "noting" /\ data = old
                        \/ /\ call.o # call.p /\ call.n - 1 <= Len(old[call.p])
                           /\ data = MergedUpTo(old, call.o, call.p, call.n - 1)
  BY <1>2 DEF Stage, MergeStage
<1>7. call.op = "equal" => data = old /\ ph = "loop"
  BY <1>2 DEF Stage, EqualStage
<1>8. call.op = "clone" => call.o # call.p /\ old[call.o] = <<>> /\ data = [old EXCEPT ![call.o] = old[call.p]]
  BY <1>2 DEF Stage, CloneStage
<1> QED BY <1>1, <1>3, <1>4, <1>5, <1>6, <1>7, <1>8 DEF ph

LEMMA NotedFollows ==
  ASSUME Kept, Noted
  PROVE  Follows
<1>1. pc = "noted" /\ UNCHANGED <<store, cache>>
  BY DEF Noted
<1>2. Phase = "noting"
  BY <1>1, PhaseIs
<1>3. /\ call.o \in Objs /\ call.p \in Objs /\ call.v \in Promise!Values /\ call.n \in Nat \ {0}
      /\ old \in [Objs -> Seq(Entries)] /\ old[call.o] \in Seq(Entries)
  BY <1>1, KeptFacts
<1>4. CASE call.op = "merge" /\ call.o # call.p
  <2>1. /\ pc' = "loop" /\ call' = call /\ old' = old /\ ret' = ret /\ data' = data /\ res' = res
    BY <1>1, <1>4 DEF Noted, store
  <2>2. /\ call.n - 1 <= Len(old[call.p]) /\ data = MergedUpTo(old, call.o, call.p, call.n - 1)
    BY <1>1, <1>2, <1>4, NotingFacts
  <2>3. MergeStage(call, "loop", data, old)
    BY <1>4, <2>2 DEF MergeStage
  <2>4. Stage(call, "loop", data, old)
    BY <1>4, <2>3 DEF Stage
  <2>5. Phase' = "loop"
    BY <2>1, PhaseBecomes
  <2> QED BY <1>1, <2>1, <2>4, <2>5, InsideStep
<1>5. CASE ~(call.op = "merge" /\ call.o # call.p)
  <2>1. Return(CASE call.op = "subscript" -> Promise!Found(Len(data[call.o]))
                 [] call.op = "clone" -> Promise!Cloned
                 [] OTHER -> Promise!Ok)
    BY <1>5 DEF Noted, Own, This
  <2>2. CASE call.op = "insert"
    <3>1. Return(Promise!Ok)
      BY <2>1, <2>2
    <3> SUFFICES ASSUME Seen = old, Seen' = data, ret' = Promise!Ok PROVE Promise!Next
      BY <1>1, <3>1, SameReturns
    <3>2. /\ call.k \in Keys /\ 0 = Promise!FirstAt(Seen[call.o], call.k)
          /\ Seen' = Appended(Seen, call.o, call.k, call.v)
      BY <1>1, <1>2, <2>2, NotingFacts
    <3> QED BY <1>3, <3>2, AsInsert
  <2>3. CASE call.op = "subscript"
    <3> DEFINE r == Promise!Found(Len(data[call.o]))
    <3>1. Return(r)
      BY <2>1, <2>3
    <3> SUFFICES ASSUME Seen = old, Seen' = data, ret' = r PROVE Promise!Next
      <4> HIDE DEF r
      <4> QED BY <1>1, <3>1, SameReturns
    <3>2. /\ call.k \in Keys /\ 0 = Promise!FirstAt(Seen[call.o], call.k)
          /\ Seen' = Appended(Seen, call.o, call.k, NullValue)
          /\ data = Appended(old, call.o, call.k, NullValue)
      BY <1>1, <1>2, <2>3, NotingFacts
    <3>3. Len(data[call.o]) = Len(Seen[call.o]) + 1
      BY <1>3, <3>2 DEF Appended
    <3>4. ret' \in {Promise!Found(Len(Seen[call.o]) + 1), Promise!Thrown}
      BY <3>3
    <3> QED BY <1>3, <3>2, <3>4, AsSubscript
  <2>4. CASE call.op = "clone"
    <3>1. Return(Promise!Cloned)
      BY <2>1, <2>4
    <3> SUFFICES ASSUME Seen = old, Seen' = data, ret' = Promise!Cloned PROVE Promise!Next
      BY <1>1, <3>1, SameReturns
    <3>2. call.o # call.p /\ Seen' = [Seen EXCEPT ![call.o] = Seen[call.p]]
      BY <1>1, <1>2, <2>4, NotingFacts
    <3> QED BY <1>3, <3>2, AsClone
  <2>5. CASE call.op = "merge"
    <3>1. Return(Promise!Ok)
      BY <2>1, <2>5
    <3> SUFFICES ASSUME Seen = old, Seen' = data, ret' = Promise!Ok PROVE Promise!Next
      BY <1>1, <3>1, SameReturns
    <3>2. call.o = call.p /\ Seen' = Seen
      BY <1>1, <1>2, <1>5, <2>5, NotingFacts
    <3> QED BY <1>3, <3>2, AsMerge
  <2>6. call.op \in {"insert", "subscript", "merge", "clone"}
    BY <1>1, <1>2, NotingFacts
  <2> QED BY <2>2, <2>3, <2>4, <2>5, <2>6
<1> QED BY <1>4, <1>5

LEMMA LoopEndFollows ==
  ASSUME Kept, LoopEnd
  PROVE  Follows
<1>1. /\ pc = "loop" /\ call.n > Len(data[call.p]) /\ UNCHANGED <<store, cache>>
      /\ Return(IF call.op = "merge" THEN Promise!Ok ELSE Promise!Truth(TRUE))
  BY DEF LoopEnd
<1>2. /\ call.o \in Objs /\ call.p \in Objs /\ call.n \in Nat \ {0} /\ Len(old[call.p]) \in Nat
      /\ old[call.o] \in Seq(Entries) /\ old[call.p] \in Seq(Entries)
  BY <1>1, KeptFacts
<1>3. /\ call.op \in {"merge", "equal"} /\ data[call.p] = old[call.p] /\ call.n - 1 <= Len(old[call.p])
  BY <1>1, LoopFacts
<1>4. call.n - 1 = Len(old[call.p])
  BY <1>1, <1>2, <1>3
<1>5. CASE call.op = "merge"
  <2> SUFFICES ASSUME Seen = old, Seen' = data, ret' = Promise!Ok PROVE Promise!Next
    BY <1>1, <1>5, SameReturns
  <2>1. data = MergedUpTo(old, call.o, call.p, Len(old[call.p]))
    BY <1>1, <1>4, <1>5, LoopFacts
  <2>2. Seen' = [Seen EXCEPT ![call.o] = Promise!MergeAll(Seen[call.o], Seen[call.p])]
    BY <1>2, <2>1, MergeWhole DEF MergedUpTo
  <2> QED BY <1>2, <2>2, AsMerge
<1>6. CASE call.op = "equal"
  <2> SUFFICES ASSUME Seen = old, Seen' = data, ret' = Promise!Truth(TRUE) PROVE Promise!Next
    BY <1>1, <1>6, SameReturns
  <2>1. /\ data = old /\ Len(old[call.o]) = Len(old[call.p])
        /\ MatchUpTo(old[call.p], old[call.o], Len(old[call.p]))
    BY <1>1, <1>4, <1>6, LoopFacts
  <2>2. Promise!Match(old[call.p], old[call.o])
    BY <2>1 DEF MatchUpTo, Promise!Match
  <2>3. Promise!Truth(Promise!Match(old[call.p], old[call.o])) = Promise!Truth(TRUE)
    BY <2>2 DEF Promise!Truth
  <2>4. ret' \in Answers(Seen[call.o], Seen[call.p])
    BY <1>2, <2>3, MatchAnswers
  <2> QED BY <1>2, <2>1, <2>4, AsEqual
<1> QED BY <1>3, <1>5, <1>6

LEMMA DifferFollows ==
  ASSUME Kept, Differ
  PROVE  Follows
<1>1. /\ pc = "differ" \/ (pc = "found" /\ call.op = "equal" /\ ~SameEntry)
      /\ pc # "idle" /\ Return(Promise!Truth(FALSE)) /\ UNCHANGED <<store, cache>>
  BY DEF Differ
<1>2. /\ call.o \in Objs /\ call.p \in Objs /\ call.n \in Nat \ {0}
      /\ old[call.o] \in Seq(Entries) /\ old[call.p] \in Seq(Entries)
      /\ call.op \in {"lookup", "remove", "subscript", "insert", "merge", "equal", "clone"}
  BY <1>1, KeptFacts
<1>3. data = old /\ ~Promise!Match(old[call.p], old[call.o])
  <2>1. CASE pc = "differ"
    <3>1. Stage(call, "differ", data, old)
      BY <2>1, PhaseIs, KeptFacts
    <3>2. call.op = "equal"
      BY <1>2, <3>1 DEF Stage, AskStage, PutStage, MergeStage, CloneStage
    <3>3. data = old /\ Len(old[call.o]) # Len(old[call.p])
      BY <3>1, <3>2, SMTT(40) DEF Stage, EqualStage
    <3> QED BY <3>3 DEF Promise!Match
  <2>2. CASE pc = "found" /\ call.op = "equal" /\ ~SameEntry
    <3>1. /\ data = old /\ pos = Promise!FirstAt(old[call.o], call.k) /\ Asked(call, old)
      BY <2>2, FoundFacts
    <3>2. ~(pos # 0 /\ old[call.o][pos].val = call.v)
      BY <2>2, <3>1 DEF SameEntry, Own, This
    <3> DEFINE i == call.n - 1
    <3>3. i \in 1..Len(old[call.p]) /\ call.k = old[call.p][i].key /\ call.v = old[call.p][i].val
      <4>1. call.n >= 2 /\ i <= Len(old[call.p]) /\ call.k = old[call.p][i].key
            /\ call.v = old[call.p][i].val
        BY <3>1 DEF Asked
      <4>2. i \in Nat /\ i >= 1
        BY <1>2, <4>1
      <4> HIDE DEF i
      <4> QED BY <1>2, <4>1, <4>2
    <3> HIDE DEF i
    <3> QED BY <3>1, <3>2, <3>3 DEF Promise!Match
  <2> QED BY <1>1, <2>1, <2>2
<1> SUFFICES ASSUME Seen = old, Seen' = data, ret' = Promise!Truth(FALSE) PROVE Promise!Next
  BY <1>1, SameReturns
<1>4. Promise!Truth(Promise!Match(old[call.p], old[call.o])) = Promise!Truth(FALSE)
  BY <1>3 DEF Promise!Truth
<1>5. ret' \in Answers(Seen[call.o], Seen[call.p])
  BY <1>2, <1>4, MatchAnswers
<1> QED BY <1>2, <1>3, <1>5, AsEqual

\* A throw while the index is built: the entries stay, a clone goes.
LEMMA AllocateFailsFollows ==
  ASSUME Kept, AllocateFails
  PROVE  Follows
<1>1. pc = "build" /\ Return(Promise!Thrown)
  BY DEF AllocateFails
<1>2. Phase \in {"noting", "loop"}
  <2>1. then \in {"noted", "loop"}
    BY <1>1 DEF Kept, Sound, Control
  <2> QED BY <1>1, <2>1, PhaseIs
<1>3. /\ call.o \in Objs /\ call.p \in Objs /\ call.v \in Promise!Values /\ call.n \in Nat \ {0}
      /\ old \in [Objs -> Seq(Entries)] /\ old[call.o] \in Seq(Entries) /\ old[call.p] \in Seq(Entries)
      /\ Len(old[call.p]) \in Nat /\ data \in [Objs -> Seq(Entries)]
      /\ res \in [Objs -> Resources \union {NoRes}]
  BY <1>1, KeptFacts DEF Kept, Sound, Types
<1>4. CASE call.op = "clone"
  <2>1. data' = [data EXCEPT ![call.o] = <<>>] /\ res' = [res EXCEPT ![call.o] = NoRes]
    BY <1>4 DEF AllocateFails, This
  <2>2. call.o # call.p /\ old[call.o] = <<>> /\ data = [old EXCEPT ![call.o] = old[call.p]]
    BY <1>1, <1>2, <1>4, NotingFacts
  <2>3. data' = old
    BY <1>3, <2>1, <2>2
  <2>4. NoDead'
    BY <1>3, <2>1 DEF Kept, NoDead, Alive
  <2>5. Progress' /\ Seen = old /\ Seen' = old /\ ret' = Promise!Thrown
    BY <1>1, <2>3, ReturnFacts
  <2>6. Promise!Next
    BY <1>3, <2>2, <2>5, AsClone
  <2> QED BY <2>4, <2>5, <2>6 DEF Follows
<1>5. CASE call.op # "clone"
  <2>1. data' = data /\ res' = res
    BY <1>5 DEF AllocateFails
  <2>2. NoDead'
    BY <2>1, NoDeadStays DEF Kept
  <2>3. Progress' /\ Seen = old /\ Seen' = data /\ ret' = Promise!Thrown
    BY <1>1, <2>1, ReturnFacts
  <2>4. Promise!Next
    <3>1. CASE call.op = "insert"
      <4>1. /\ call.k \in Keys /\ 0 = Promise!FirstAt(Seen[call.o], call.k)
            /\ Seen' = Appended(Seen, call.o, call.k, call.v)
        BY <1>1, <1>2, <2>3, <3>1, NotingFacts
      <4> QED BY <1>3, <2>3, <4>1, AsInsert
    <3>2. CASE call.op = "subscript"
      <4>1. /\ call.k \in Keys /\ 0 = Promise!FirstAt(Seen[call.o], call.k)
            /\ Seen' = Appended(Seen, call.o, call.k, NullValue)
        BY <1>1, <1>2, <2>3, <3>2, NotingFacts
      <4> QED BY <1>3, <2>3, <4>1, AsSubscript
    <3>3. CASE call.op = "merge"
      <4>1. PICK m \in 0..Len(old[call.p]) : data = MergedUpTo(old, call.o, call.p, m)
        <5>1. CASE data = old
          <6>1. Promise!MergeAll(old[call.o], SubSeq(old[call.p], 1, 0)) = old[call.o]
            BY <1>3, MergeNone
          <6>2. old = MergedUpTo(old, call.o, call.p, 0)
            BY <1>3, <6>1 DEF MergedUpTo
          <6>3. 0 \in 0..Len(old[call.p])
            BY <1>3
          <6> QED BY <5>1, <6>2, <6>3
        <5>2. CASE /\ call.n - 1 <= Len(old[call.p])
                   /\ data = MergedUpTo(old, call.o, call.p, call.n - 1)
          <6>1. call.n - 1 \in 0..Len(old[call.p])
            BY <1>3, <5>2
          <6> QED BY <5>2, <6>1
        <5> QED BY <1>1, <1>2, <3>3, <5>1, <5>2, NotingFacts
      <4>2. m \in 0..Len(Seen[call.p]) /\ Seen' = MergedUpTo(Seen, call.o, call.p, m)
        BY <2>3, <4>1
      <4> QED BY <1>3, <2>3, <4>2, AsMerge
    <3>4. CASE call.op = "equal"
      <4>1. Seen' = Seen
        BY <1>1, <1>2, <2>3, <3>4, NotingFacts
      <4> QED BY <1>3, <2>3, <4>1, AsEqual
    <3>5. call.op \in {"insert", "subscript", "merge", "equal", "clone"}
      BY <1>1, <1>2, NotingFacts
    <3> QED BY <1>5, <3>1, <3>2, <3>3, <3>4, <3>5
  <2> QED BY <2>2, <2>3, <2>4 DEF Follows
<1> QED BY <1>4, <1>5

(***************************************************************************)
(* Calls without a lookup.                                                 *)
(***************************************************************************)
LEMMA IdleReturns ==
  ASSUME pc = "idle", pc' = "idle", NoDead', Seen = data /\ Seen' = data' => Promise!Next
  PROVE  Follows
<1>1. Seen = data /\ Seen' = data' /\ Progress'
  BY DEF Seen, Progress
<1> QED BY <1>1 DEF Follows

LEMMA IdleTypes ==
  ASSUME Kept, program \in Programs
  PROVE  /\ data \in [Objs -> Seq(Entries)] /\ res \in [Objs -> Resources \union {NoRes}]
         /\ held \subseteq Objs /\ program.objs \subseteq Objs
         /\ \A r \in program.resources : r # NoRes
         /\ \A o \in Alive : o \in Objs /\ res[o] # NoRes
         /\ \A o \in Objs : o \notin Alive => data[o] = <<>>
<1>1. program.resources \subseteq Resources /\ program.objs \subseteq Objs /\ NoRes \notin Resources
  BY IndexAssumption
<1>2. data \in [Objs -> Seq(Entries)] /\ res \in [Objs -> Resources \union {NoRes}] /\ held \subseteq Objs
  BY DEF Kept, Sound, Types, Holding
<1> QED BY <1>1, <1>2 DEF Kept, NoDead, Alive

LEMMA ConstructFollows ==
  ASSUME Kept, program \in Programs, Construct
  PROVE  Follows
<1>1. PICK o \in program.objs \ Alive, r \in program.resources :
        /\ pc = "idle" /\ pc' = "idle" /\ res' = [res EXCEPT ![o] = r]
        /\ \/ data' = data /\ ret' = Promise!Ok
           \/ /\ ret' = <<"given", 0>>
              /\ \E d \in program.vectors : data' = [data EXCEPT ![o] = d]
  BY DEF Construct, Atomic
<1>2. /\ o \in Objs /\ data[o] = <<>> /\ r # NoRes /\ data \in [Objs -> Seq(Entries)]
      /\ res \in [Objs -> Resources \union {NoRes}]
  BY <1>1, IdleTypes
<1>3. NoDead'
  <2>1. \A x \in Objs : x # o => data'[x] = data[x]
    BY <1>1, <1>2
  <2> QED BY <1>1, <1>2, <2>1 DEF Kept, NoDead, Alive
<1> SUFFICES ASSUME Seen = data, Seen' = data' PROVE Promise!Next
  BY <1>1, <1>3, IdleReturns
<1>4. CASE data' = data /\ ret' = Promise!Ok
  <2>1. Seen' = [Seen EXCEPT ![o] = <<>>]
    BY <1>2, <1>4
  <2> QED BY <1>2, <1>4, <2>1, AsClear
<1>5. CASE ret' = <<"given", 0>> /\ \E d \in program.vectors : data' = [data EXCEPT ![o] = d]
  <2>1. \A x \in Objs \ {o} : Seen'[x] = Seen[x]
    BY <1>2, <1>5
  <2> QED BY <1>2, <1>5, <2>1, AsGiven
<1> QED BY <1>1, <1>4, <1>5

LEMMA DropFollows ==
  ASSUME Kept, program \in Programs, Destroy \/ Clear
  PROVE  Follows
<1>1. PICK o \in Alive :
        /\ pc = "idle" /\ pc' = "idle" /\ ret' = Promise!Ok /\ data' = [data EXCEPT ![o] = <<>>]
        /\ res' = res \/ res' = [res EXCEPT ![o] = NoRes]
  BY DEF Destroy, Clear, Atomic
<1>2. o \in Objs /\ data \in [Objs -> Seq(Entries)] /\ res \in [Objs -> Resources \union {NoRes}]
  BY IdleTypes
<1>3. NoDead'
  BY <1>1, <1>2 DEF Kept, NoDead, Alive
<1> SUFFICES ASSUME Seen = data, Seen' = data' PROVE Promise!Next
  BY <1>1, <1>3, IdleReturns
<1> QED BY <1>1, <1>2, AsClear

LEMMA DataFollows ==
  ASSUME Kept, program \in Programs, TakeData \/ EditData
  PROVE  Follows
<1>1. CASE TakeData
  <2>1. PICK o \in Alive : pc = "idle" /\ pc' = "idle" /\ ret' = Promise!Ok /\ data' = data /\ res' = res
    BY <1>1 DEF TakeData, Atomic
  <2>2. NoDead'
    BY <2>1, NoDeadStays DEF Kept
  <2> SUFFICES ASSUME Seen = data, Seen' = data' PROVE Promise!Next
    BY <2>1, <2>2, IdleReturns
  <2>3. o \in Objs /\ Seen' = Seen
    BY <2>1, IdleTypes
  <2> QED BY <2>1, <2>3, AsMerge
<1>2. CASE EditData
  <2>1. PICK o \in held :
          /\ pc = "idle" /\ pc' = "idle" /\ ret' = <<"given", 0>> /\ res' = res
          /\ data[o] # <<>>
          /\ \E d : data' = [data EXCEPT ![o] = d]
    <3>1. PICK o \in held : \E i, j \in 1..Len(data[o]) :
            /\ pc = "idle" /\ pc' = "idle" /\ ret' = <<"given", 0>> /\ res' = res
            /\ \/ \E k \in Keys : data' = [data EXCEPT ![o][i].key = k]
               \/ data' = [data EXCEPT ![o][i] = data[o][j], ![o][j] = data[o][i]]
      BY <1>2 DEF EditData, Atomic
    <3>2. o \in Objs /\ data \in [Objs -> Seq(Entries)]
      BY IdleTypes
    <3>3. \A i : \A k : [data EXCEPT ![o][i].key = k] = [data EXCEPT ![o] = [data[o] EXCEPT ![i].key = k]]
      BY <3>2
    <3>4. \A i, j : [data EXCEPT ![o][i] = data[o][j], ![o][j] = data[o][i]]
                      = [data EXCEPT ![o] = [data[o] EXCEPT ![i] = data[o][j], ![j] = data[o][i]]]
      BY <3>2
    <3>5. PICK i \in 1..Len(data[o]), j \in 1..Len(data[o]) :
            /\ pc = "idle" /\ pc' = "idle" /\ ret' = <<"given", 0>> /\ res' = res
            /\ \/ \E k \in Keys : data' = [data EXCEPT ![o][i].key = k]
               \/ data' = [data EXCEPT ![o][i] = data[o][j], ![o][j] = data[o][i]]
      BY <3>1
    <3>6. data[o] # <<>>
      BY <3>2
    <3> QED BY <3>3, <3>4, <3>5, <3>6, SMTT(40)
  <2>2. o \in Objs /\ data \in [Objs -> Seq(Entries)] /\ (o \notin Alive => data[o] = <<>>)
    BY IdleTypes
  <2>3. o \in Alive
    BY <2>1, <2>2
  <2>4. NoDead'
    BY <2>1, <2>2, <2>3 DEF Kept, NoDead, Alive
  <2> SUFFICES ASSUME Seen = data, Seen' = data' PROVE Promise!Next
    BY <2>1, <2>4, IdleReturns
  <2>5. \A x \in Objs \ {o} : Seen'[x] = Seen[x]
    BY <2>1, <2>2
  <2> QED BY <2>1, <2>2, <2>5, AsGiven
<1> QED BY <1>1, <1>2

LEMMA MoveFollows ==
  ASSUME Kept, program \in Programs, MoveConstruct \/ MoveAssign
  PROVE  Follows
<1>1. PICK o \in Objs, p \in Objs :
        /\ o # p /\ p \in Alive /\ pc = "idle" /\ pc' = "idle" /\ ret' = Promise!Moved
        /\ data' = [data EXCEPT ![o] = data[p], ![p] = <<>>]
        /\ \/ res' = [res EXCEPT ![o] = res[p]]
           \/ o \in Alive /\ res' = res
  <2>1. CASE MoveConstruct
    <3>1. PICK o \in program.objs \ Alive, p \in Alive :
            /\ pc = "idle" /\ pc' = "idle" /\ ret' = Promise!Moved
            /\ data' = [data EXCEPT ![o] = data[p], ![p] = <<>>] /\ res' = [res EXCEPT ![o] = res[p]]
      BY <2>1 DEF MoveConstruct, Atomic, Steal
    <3> QED BY <3>1, IdleTypes
  <2>2. CASE MoveAssign
    <3>1. PICK o \in Alive, p \in Alive :
            /\ o # p /\ pc = "idle" /\ pc' = "idle" /\ ret' = Promise!Moved
            /\ data' = [data EXCEPT ![o] = data[p], ![p] = <<>>] /\ res' = res
      BY <2>2 DEF MoveAssign, Atomic, Steal
    <3> QED BY <3>1, IdleTypes
  <2> QED BY <2>1, <2>2
<1>2. data \in [Objs -> Seq(Entries)] /\ res \in [Objs -> Resources \union {NoRes}]
  BY IdleTypes
<1>3. NoDead'
  <2>1. p \in Alive' /\ o \in Alive' /\ \A x \in Objs : x \in Alive => x \in Alive'
    BY <1>1, <1>2 DEF Alive
  <2>2. \A x \in Objs : x # o /\ x # p => data'[x] = data[x]
    BY <1>1, <1>2
  <2>3. ASSUME NEW x \in Objs, x \notin Alive' PROVE data'[x] = <<>>
    BY <2>1, <2>2, <2>3 DEF Kept, NoDead
  <2> QED BY <2>3 DEF NoDead
<1> SUFFICES ASSUME Seen = data, Seen' = data' PROVE Promise!Next
  BY <1>1, <1>3, IdleReturns
<1>4. Seen' = [Seen EXCEPT ![o] = Seen[p], ![p] = <<>>]
  BY <1>1
<1> QED BY <1>1, <1>4, AsMove

LEMMA CloneFollows ==
  ASSUME Kept, program \in Programs, Clone
  PROVE  Follows
<1>1. PICK o \in program.objs \ Alive, p \in Alive, r \in program.resources :
        /\ pc = "idle"
        /\ \/ /\ call' = [NoCall EXCEPT !.op = "clone", !.o = o, !.p = p]
              /\ old' = data /\ data' = [data EXCEPT ![o] = data[p]] /\ res' = [res EXCEPT ![o] = r]
              /\ pc' \in {"ensure", "noted"} /\ ret' = Promise!None
           \/ ret' = Promise!Thrown /\ data' = data /\ res' = res /\ pc' = pc
  BY DEF Clone
<1>2. /\ o \in Objs /\ p \in Objs /\ o # p /\ data[o] = <<>> /\ r # NoRes
      /\ data \in [Objs -> Seq(Entries)] /\ res \in [Objs -> Resources \union {NoRes}]
  BY <1>1, IdleTypes
<1>3. CASE /\ call' = [NoCall EXCEPT !.op = "clone", !.o = o, !.p = p]
           /\ old' = data /\ data' = [data EXCEPT ![o] = data[p]] /\ res' = [res EXCEPT ![o] = r]
           /\ pc' \in {"ensure", "noted"} /\ ret' = Promise!None
  <2>1. call'.op = "clone" /\ call'.o = o /\ call'.p = p
    BY <1>3 DEF NoCall
  <2>2. Phase' = "noting"
    BY <1>3, <2>1, PhaseBecomes
  <2>3. CloneStage(call', "noting", data', data)
    BY <1>2, <1>3, <2>1 DEF CloneStage
  <2>4. Stage(call', "noting", data', data)
    BY <2>1, <2>3 DEF Stage
  <2>5. Progress'
    BY <1>2, <1>3, <2>2, <2>4 DEF Progress
  <2>6. NoDead'
    BY <1>2, <1>3 DEF Kept, NoDead, Alive
  <2>7. Seen' = Seen
    BY <1>1, <1>3 DEF Seen
  <2>8. Promise!Next
    BY <1>2, <1>3, <2>7, AsBegin
  <2> QED BY <2>5, <2>6, <2>8 DEF Follows
<1>4. CASE ret' = Promise!Thrown /\ data' = data /\ res' = res /\ pc' = pc
  <2>1. NoDead'
    BY <1>4, NoDeadStays DEF Kept
  <2> SUFFICES ASSUME Seen = data, Seen' = data' PROVE Promise!Next
    BY <1>1, <1>4, <2>1, IdleReturns
  <2>2. Seen' = Seen
    BY <1>4
  <2> QED BY <1>2, <1>4, <2>2, AsClone
<1> QED BY <1>1, <1>3, <1>4

(***************************************************************************)
(* Results.                                                                *)
(***************************************************************************)
LEMMA StepFollows ==
  ASSUME Kept, program \in Programs, [Next]_vars
  PROVE  Follows
<1>1. CASE FindLinear \/ FindStale \/ FindProbe \/ Refill \/ Grow \/ Allocate \/ NoteAppend \/ Ensure
  BY <1>1, QuietFollows
<1>2. CASE StartKeyed \/ StartMerge \/ StartEqual
  BY <1>2, StartKeyedFollows, StartMergeFollows, StartEqualFollows
<1>3. CASE LookupFound \/ InsertFound \/ SubscriptFound \/ RemoveFound
  BY <1>3, LookupFoundFollows, InsertFoundFollows, SubscriptFoundFollows, RemoveFoundFollows
<1>4. CASE Noted \/ NextEntry \/ LoopEnd \/ MergeFound \/ EqualFound \/ Differ
  BY <1>4, NotedFollows, NextEntryFollows, LoopEndFollows, MergeFoundFollows, EqualFoundFollows, DifferFollows
<1>5. CASE AllocateFails
  BY <1>5, AllocateFailsFollows
<1>6. CASE Construct \/ Destroy \/ Clear \/ TakeData \/ EditData
  BY <1>6, ConstructFollows, DropFollows, DataFollows
<1>7. CASE Clone \/ MoveConstruct \/ MoveAssign
  BY <1>7, CloneFollows, MoveFollows
<1>8. CASE UNCHANGED vars
  <2>1. /\ data' = data /\ res' = res /\ pc' = pc /\ old' = old /\ call' = call /\ then' = then /\ ret' = ret
    BY <1>8 DEF vars
  <2>2. NoDead'
    BY <2>1, NoDeadStays DEF Kept
  <2>3. Phase' = Phase
    BY <2>1 DEF Phase
  <2>4. Progress'
    BY <2>1, <2>3 DEF Kept, Progress
  <2>5. Seen' = Seen
    BY <2>1 DEF Seen
  <2> QED BY <2>1, <2>2, <2>4, <2>5 DEF Follows
<1> QED BY <1>1, <1>2, <1>3, <1>4, <1>5, <1>6, <1>7, <1>8 DEF Next

\* Callers that let go of references from data().
Lawful == ~program.holdsData /\ program \in Programs /\ Kept

\* In every reachable state the entries are what the call in progress has made
\* so far of those it began with, and a place without an object has none, for
\* every caller that does not go on using a reference from data() (object.cpp).
THEOREM CallProgress == Spec /\ ~program.holdsData => []Lawful
<1>1. Init /\ ~program.holdsData => Lawful
  <2> SUFFICES ASSUME Init, ~program.holdsData PROVE Lawful
    OBVIOUS
  <2>1. Sound /\ program \in Programs
    BY InitSound DEF Inv
  <2>2. NoDead /\ Progress
    BY DEF Init, NoDead, Progress
  <2> QED BY <2>1, <2>2 DEF Lawful, Kept
<1>2. Lawful /\ [Next]_vars => Lawful'
  <2> SUFFICES ASSUME Lawful, [Next]_vars PROVE Lawful'
    OBVIOUS
  <2>1. program' = program
    BY DEF Next, vars
  <2>2. Inv'
    BY NextSound DEF Lawful, Kept, Inv
  <2>3. NoDead' /\ Progress'
    BY StepFollows DEF Lawful, Follows
  <2> QED BY <2>1, <2>2, <2>3 DEF Lawful, Kept, Inv
<1> QED BY <1>1, <1>2, PTL DEF Spec

\* Object with its index implements the ordered map of object.hpp: whatever
\* is called in whatever order and whichever allocation throws, every call
\* returns with the entries and the result of the linear map.
THEOREM ObjectKeepsPromise == Spec /\ ~program.holdsData => KeepsPromise
<1>1. Init => Promise!Init
  <2> SUFFICES ASSUME Init PROVE Promise!Init
    OBVIOUS
  <2> QED BY DEF Init, Promise!Init, Promise!Ok
<1>2. Lawful /\ [Next]_vars => [Promise!Next]_(Promise!vars)
  <2> SUFFICES ASSUME Lawful, [Next]_vars PROVE [Promise!Next]_(Promise!vars)
    OBVIOUS
  <2>1. Promise!Next \/ (Seen' = Seen /\ ret' = ret)
    BY StepFollows DEF Lawful, Follows
  <2> QED BY <2>1 DEF Promise!vars, Seen
<1> QED BY <1>1, <1>2, CallProgress, PTL DEF Spec, KeepsPromise, Promise!Spec
=============================================================================
