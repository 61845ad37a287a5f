--------------------------- MODULE KeyIndexProofs ---------------------------
(***************************************************************************)
(* Proofs about KeyIndex: for any keys, any hash function, any threshold   *)
(* and initial capacity and any number of members, the object read is what *)
(* inserting its members one by one makes (SameAsInsert), and the index    *)
(* knows every entry, reads none that is not there yet and stays half      *)
(* empty (KeyIndexSound).                                                  *)
(***************************************************************************)
EXTENDS KeyIndex, Induction

(***************************************************************************)
(* Tables and probes.                                                      *)
(***************************************************************************)
Tables == UNION {[0..(c - 1) -> Nat] : c \in Nat \ {0}}

LEMMA TableFacts ==
  ASSUME NEW s \in Tables
  PROVE  /\ Cap(s) \in Nat /\ Cap(s) > 0
         /\ DOMAIN s = 0..(Cap(s) - 1) /\ s \in [0..(Cap(s) - 1) -> Nat]
<1>1. PICK c \in Nat \ {0} : s \in [0..(c - 1) -> Nat]
  BY DEF Tables
<1>2. Cardinality(0..(c - 1)) = c
  <2>1. 0 \in Int /\ c - 1 \in Int /\ 0 <= c - 1
    BY <1>1
  <2>2. Cardinality(0..(c - 1)) = (c - 1) - 0 + 1
    BY <2>1, FS_Interval
  <2> QED BY <1>1, <2>2
<1>3. Cap(s) = c
  BY <1>1, <1>2 DEF Cap
<1> QED BY <1>1, <1>3

LEMMA EmptyFacts ==
  ASSUME NEW n \in Nat \ {0}
  PROVE  Empty(n) \in Tables /\ Cap(Empty(n)) = n /\ \A j \in DOMAIN Empty(n) : Empty(n)[j] = 0
<1>1. Empty(n) \in [0..(n - 1) -> Nat] /\ \A j \in DOMAIN Empty(n) : Empty(n)[j] = 0
  BY DEF Empty
<1>2. Empty(n) \in Tables
  BY <1>1 DEF Tables
<1>3. 0..(Cap(Empty(n)) - 1) = 0..(n - 1) /\ Cap(Empty(n)) \in Nat /\ Cap(Empty(n)) > 0
  BY <1>1, <1>2, TableFacts
<1>4. Cap(Empty(n)) = n
  <2> HIDE DEF Empty
  <2> DEFINE c == Cap(Empty(n))
  <2>1. 0..(c - 1) = 0..(n - 1) /\ c \in Nat /\ c > 0
    BY <1>3
  <2> HIDE DEF c
  <2>2. c - 1 \in 0..(c - 1) /\ n - 1 \in 0..(n - 1)
    BY <2>1
  <2>3. c - 1 <= n - 1 /\ n - 1 <= c - 1
    BY <2>1, <2>2
  <2> QED BY <2>1, <2>3 DEF c
<1> QED BY <1>1, <1>2, <1>4

\* Probing from h meets every slot.
LEMMA ProbeReaches ==
  ASSUME NEW c \in Nat \ {0}, NEW h \in Nat, NEW t \in 0..(c - 1)
  PROVE  \E j \in 0..(c - 1) : (h + j) % c = t
<1> DEFINE r == h % c
           q == h \div c
           j == IF r <= t THEN t - r ELSE t - r + c
<1>1. r \in 0..(c - 1) /\ q \in Int /\ h = c * q + r
  OBVIOUS
<1> HIDE DEF r, q
<1>2. j \in 0..(c - 1)
  BY <1>1
<1>3. h + j = c * q + t \/ h + j = c * (q + 1) + t
  <2>1. c * (q + 1) = c * q + c
    BY <1>1
  <2> HIDE DEF j
  <2>2. j = t - r \/ j = t - r + c
    BY DEF j
  <2> QED BY <1>1, <2>1, <2>2
<1>4. ASSUME NEW p \in Int PROVE (c * p + t) % c = t
  OBVIOUS
<1> HIDE DEF j
<1>5. (h + j) % c = t
  <2>1. q + 1 \in Int
    BY <1>1
  <2>2. (c * q + t) % c = t /\ (c * (q + 1) + t) % c = t
    BY <1>1, <1>4, <2>1
  <2>3. CASE h + j = c * q + t
    BY <2>2, <2>3
  <2>4. CASE h + j = c * (q + 1) + t
    BY <2>2, <2>4
  <2> QED BY <1>3, <2>3, <2>4
<1> QED BY <1>2, <1>5

\* Where a probe for k ends at position i of the entries with keys q: every
\* slot before is taken by another key.
Finds(s, q, k, i) ==
  \E j \in 0..(Cap(s) - 1) :
    /\ s[SlotOf(s, k, j)] = i
    /\ \A h \in 0..(j - 1) : s[SlotOf(s, k, h)] # 0 /\ q[s[SlotOf(s, k, h)]] # k
Taken(s) == {j \in DOMAIN s : s[j] # 0}

\* The table holds the positions S, each once and where its key is looked for.
Knows(s, q, S) ==
  /\ \A j \in DOMAIN s : s[j] # 0 => s[j] \in S
  /\ \A i \in S : Finds(s, q, q[i], i)
  /\ \A j, h \in DOMAIN s : s[j] = s[h] /\ s[j] # 0 => j = h
  /\ IsFiniteSet(S) /\ Cardinality(Taken(s)) = Cardinality(S)

LEMMA SlotFacts ==
  ASSUME NEW s \in Tables, NEW k \in Keys, NEW j \in Nat
  PROVE  SlotOf(s, k, j) \in DOMAIN s /\ s[SlotOf(s, k, j)] \in Nat
<1>1. /\ Cap(s) \in Nat /\ Cap(s) > 0 /\ DOMAIN s = 0..(Cap(s) - 1)
      /\ s \in [0..(Cap(s) - 1) -> Nat]
  BY TableFacts
<1>2. Hash[k] \in Nat
  BY KeyIndexAssumption
<1>3. (Hash[k] + j) % Cap(s) \in 0..(Cap(s) - 1)
  BY <1>1, <1>2
<1> QED BY <1>1, <1>3 DEF SlotOf

\* A table that is not full has a slot for every key.
LEMMA FreeFacts ==
  ASSUME NEW s \in Tables, NEW k \in Keys, Cardinality(Taken(s)) < Cap(s)
  PROVE  \E j \in 0..(Cap(s) - 1) :
           /\ FreeSlot(s, k) = SlotOf(s, k, j) /\ s[SlotOf(s, k, j)] = 0
           /\ \A h \in 0..(j - 1) : s[SlotOf(s, k, h)] # 0
<1> DEFINE F == {j \in 0..(Cap(s) - 1) : s[SlotOf(s, k, j)] = 0}
           j == Min(F)
<1>1. /\ Cap(s) \in Nat /\ Cap(s) > 0 /\ DOMAIN s = 0..(Cap(s) - 1)
  BY TableFacts
<1>2. PICK f \in DOMAIN s : s[f] = 0
  <2> SUFFICES ASSUME \A f \in DOMAIN s : s[f] # 0 PROVE FALSE
    OBVIOUS
  <2>1. Taken(s) = DOMAIN s
    BY DEF Taken
  <2> QED BY <1>1, <2>1 DEF Cap
<1>3. Hash[k] \in Nat
  BY KeyIndexAssumption
<1>4. PICK m \in 0..(Cap(s) - 1) : (Hash[k] + m) % Cap(s) = f
  <2>1. Cap(s) \in Nat \ {0} /\ f \in 0..(Cap(s) - 1)
    BY <1>1, <1>2
  <2> HIDE DEF F
  <2> QED BY <1>3, <2>1, ProbeReaches
<1>5. m \in F
  BY <1>2, <1>4 DEF SlotOf
<1>6. F \subseteq Nat
  BY <1>1
<1>7. j \in F /\ \A n \in F : j <= n
  <2> HIDE DEF F
  <2> QED BY <1>5, <1>6, MinIsLeast
<1>8. FreeSlot(s, k) = SlotOf(s, k, j)
  BY DEF FreeSlot
<1> HIDE DEF j
<1>9. j \in 0..(Cap(s) - 1) /\ s[SlotOf(s, k, j)] = 0
  BY <1>7
<1>10. ASSUME NEW h \in 0..(j - 1) PROVE s[SlotOf(s, k, h)] # 0
  BY <1>1, <1>7, <1>9
<1> QED BY <1>8, <1>9, <1>10

\* A search that ended at a taken slot ends there as long as taken slots stay
\* and their keys do.
LEMMA FindsStays ==
  ASSUME NEW s \in Tables, NEW t, NEW q, NEW p, NEW k \in Keys,
         NEW i, i # 0, Finds(s, q, k, i),
         NEW slot, s[slot] = 0, Cap(t) = Cap(s), \A j \in DOMAIN s : j # slot => t[j] = s[j],
         \A j \in DOMAIN s : s[j] # 0 => p[s[j]] = q[s[j]]
  PROVE  Finds(t, p, k, i)
<1>1. PICK j \in 0..(Cap(s) - 1) :
        /\ s[SlotOf(s, k, j)] = i
        /\ \A h \in 0..(j - 1) : s[SlotOf(s, k, h)] # 0 /\ q[s[SlotOf(s, k, h)]] # k
  BY DEF Finds
<1>2. ASSUME NEW h \in 0..j
      PROVE  /\ t[SlotOf(t, k, h)] = s[SlotOf(s, k, h)] /\ s[SlotOf(s, k, h)] # 0
             /\ p[s[SlotOf(s, k, h)]] = q[s[SlotOf(s, k, h)]]
  <2>0. h \in Nat /\ (h = j \/ h \in 0..(j - 1))
    OBVIOUS
  <2>1. SlotOf(s, k, h) \in DOMAIN s
    BY <2>0, SlotFacts
  <2>2. SlotOf(t, k, h) = SlotOf(s, k, h)
    BY DEF SlotOf
  <2>3. s[SlotOf(s, k, h)] # 0
    BY <1>1, <2>0
  <2> QED BY <2>1, <2>2, <2>3
<1>3. j \in 0..j /\ \A h \in 0..(j - 1) : h \in 0..j
  OBVIOUS
<1>4. t[SlotOf(t, k, j)] = i
  BY <1>1, <1>2, <1>3
<1>5. \A h \in 0..(j - 1) : t[SlotOf(t, k, h)] # 0 /\ p[t[SlotOf(t, k, h)]] # k
  BY <1>1, <1>2, <1>3
<1>6. j \in 0..(Cap(t) - 1)
  OBVIOUS
<1> QED BY <1>4, <1>5, <1>6 DEF Finds

Inserted(s, t, q, S, i) ==
  /\ t \in Tables /\ Cap(t) = Cap(s) /\ Knows(t, q, S \cup {i})
  /\ Cardinality(S \cup {i}) = Cardinality(S) + 1

\* insert_slot of a position the table does not hold, whose key no entry it
\* holds has.
LEMMA InsertKnows ==
  ASSUME NEW s \in Tables, NEW q, NEW S \in SUBSET Nat, 0 \notin S,
         \A m \in S : q[m] \in Keys, Knows(s, q, S),
         NEW i \in Nat, i # 0, i \notin S, NEW k \in Keys, q[i] = k, \A m \in S : q[m] # k,
         Cardinality(S) + 1 <= Cap(s),
         NEW t, t = [s EXCEPT ![FreeSlot(s, k)] = i]
  PROVE  Inserted(s, t, q, S, i)
<1>1. /\ Cap(s) \in Nat /\ Cap(s) > 0 /\ DOMAIN s = 0..(Cap(s) - 1)
      /\ s \in [0..(Cap(s) - 1) -> Nat]
  BY TableFacts
<1>2. IsFiniteSet(S) /\ Cardinality(S) \in Nat /\ Cardinality(Taken(s)) = Cardinality(S)
  BY FS_CardinalityType DEF Knows
<1>3. Cardinality(Taken(s)) < Cap(s)
  BY <1>1, <1>2
<1>4. PICK j \in 0..(Cap(s) - 1) :
           /\ FreeSlot(s, k) = SlotOf(s, k, j) /\ s[SlotOf(s, k, j)] = 0
           /\ \A h \in 0..(j - 1) : s[SlotOf(s, k, h)] # 0
  BY <1>3, FreeFacts
<1> DEFINE slot == FreeSlot(s, k)
<1>5. slot \in DOMAIN s /\ s[slot] = 0
  <2>1. j \in Nat
    BY <1>1
  <2> QED BY <1>4, <2>1, SlotFacts
<1> HIDE DEF slot
<1>6. /\ t \in [0..(Cap(s) - 1) -> Nat] /\ DOMAIN t = DOMAIN s
      /\ t[slot] = i /\ \A h \in DOMAIN s : h # slot => t[h] = s[h]
  <2>1. t = [s EXCEPT ![slot] = i]
    BY DEF slot
  <2> QED BY <1>1, <1>5, <2>1
<1>7. t \in Tables /\ Cap(t) = Cap(s)
  <2>1. Cap(t) = Cap(s)
    BY <1>6 DEF Cap
  <2> QED BY <1>1, <1>6, <2>1 DEF Tables
<1>8. Cardinality(S \cup {i}) = Cardinality(S) + 1 /\ IsFiniteSet(S \cup {i})
  BY <1>2, FS_AddElement
<1>9. Cardinality(Taken(t)) = Cardinality(S) + 1
  <2>1. Taken(t) = Taken(s) \cup {slot} /\ slot \notin Taken(s)
    BY <1>5, <1>6 DEF Taken
  <2>2. IsFiniteSet(Taken(s))
    <3>1. IsFiniteSet(0..(Cap(s) - 1))
      BY <1>1, FS_Interval
    <3>2. Taken(s) \subseteq 0..(Cap(s) - 1)
      BY <1>1 DEF Taken
    <3> QED BY <3>1, <3>2, FS_Subset
  <2>3. Cardinality(Taken(s) \cup {slot}) = Cardinality(Taken(s)) + 1
    BY <2>1, <2>2, FS_AddElement
  <2> QED BY <1>2, <2>1, <2>3
<1>10. \A h \in DOMAIN t : t[h] # 0 => t[h] \in S \cup {i}
  BY <1>6 DEF Knows
<1>11. \A g, h \in DOMAIN t : t[g] = t[h] /\ t[g] # 0 => g = h
  <2>1. \A h \in DOMAIN s : s[h] # i
    BY DEF Knows
  <2>2. \A g, h \in DOMAIN s : s[g] = s[h] /\ s[g] # 0 => g = h
    BY DEF Knows
  <2> QED BY <1>6, <2>1, <2>2
<1>12. ASSUME NEW m \in S PROVE Finds(t, q, q[m], m)
  <2>1. Finds(s, q, q[m], m) /\ m # 0 /\ q[m] \in Keys
    BY DEF Knows
  <2> QED BY <1>5, <1>6, <1>7, <2>1, FindsStays
<1>13. Finds(t, q, q[i], i)
  <2>1. ASSUME NEW h \in 0..(j - 1)
        PROVE  t[SlotOf(t, k, h)] # 0 /\ q[t[SlotOf(t, k, h)]] # k
    <3>1. SlotOf(t, k, h) = SlotOf(s, k, h)
      BY <1>7 DEF SlotOf
    <3>2. h \in Nat
      OBVIOUS
    <3>3. SlotOf(s, k, h) \in DOMAIN s /\ s[SlotOf(s, k, h)] # 0
      BY <1>4, <3>2, SlotFacts
    <3>4. t[SlotOf(s, k, h)] = s[SlotOf(s, k, h)] /\ s[SlotOf(s, k, h)] \in S
      BY <1>5, <1>6, <3>3 DEF Knows
    <3> QED BY <3>1, <3>3, <3>4
  <2>2. t[SlotOf(t, k, j)] = i
    BY <1>4, <1>6, <1>7 DEF SlotOf, slot
  <2>3. j \in 0..(Cap(t) - 1)
    BY <1>4, <1>7
  <2>4. Finds(t, q, k, i)
    BY <2>1, <2>2, <2>3 DEF Finds
  <2> QED BY <2>4
<1>14. Knows(t, q, S \cup {i})
  BY <1>8, <1>9, <1>10, <1>11, <1>12, <1>13 DEF Knows
<1> QED BY <1>7, <1>8, <1>14 DEF Inserted

(***************************************************************************)
(* What find_or_insert's probe finds.                                      *)
(***************************************************************************)
Members == [key : Keys, val : Nat]
KeySeq  == [i \in 1..Len(entries) |-> entries[i].key]
Absent(k) == \A i \in 1..Len(entries) : entries[i].key # k
NotFull(s) == Cardinality(Taken(s)) < Cap(s)

LEMMA MemberFacts ==
  ASSUME entries \in Seq(Members)
  PROVE  /\ Len(entries) \in Nat /\ DOMAIN entries = 1..Len(entries)
         /\ \A i \in 1..Len(entries) : /\ entries[i] \in Members /\ entries[i].key \in Keys
                                       /\ KeySeq[i] = entries[i].key
<1>1. Len(entries) \in Nat /\ DOMAIN entries = 1..Len(entries)
      /\ \A i \in 1..Len(entries) : entries[i] \in Members
  OBVIOUS
<1>2. \A e \in Members : e.key \in Keys
  BY DEF Members
<1> QED BY <1>1, <1>2 DEF KeySeq

LEMMA ProbeFacts ==
  ASSUME NEW s \in Tables, entries \in Seq(Members),
         Knows(s, KeySeq, 1..Len(entries)), NotFull(s), NEW k \in Keys
  PROVE  /\ s[Probe(s, k)] # 0 =>
              s[Probe(s, k)] \in 1..Len(entries) /\ entries[s[Probe(s, k)]].key = k
         /\ \A i \in 1..Len(entries) : entries[i].key = k => s[Probe(s, k)] = i
<1> DEFINE T == ProbeStops(s, k)
           m == Min(T)
<1>1. Cap(s) \in Nat /\ Cap(s) > 0
  BY TableFacts
<1>2. \A h : h \in T <=> /\ h \in 0..(Cap(s) - 1)
                         /\ s[SlotOf(s, k, h)] = 0 \/ entries[s[SlotOf(s, k, h)]].key = k
  BY DEF ProbeStops
<1>3. PICK f \in 0..(Cap(s) - 1) : s[SlotOf(s, k, f)] = 0
  BY FreeFacts DEF NotFull
<1>4. Probe(s, k) = SlotOf(s, k, m)
  BY DEF Probe
<1> HIDE DEF T
<1>5. T \subseteq Nat /\ f \in T
  BY <1>1, <1>2, <1>3
<1>6. m \in T /\ \A h \in T : m <= h
  BY <1>5, MinIsLeast
<1> HIDE DEF m
<1>7. m \in 0..(Cap(s) - 1) /\ m \in Nat
  BY <1>1, <1>2, <1>6
<1>8. SlotOf(s, k, m) \in DOMAIN s
  BY <1>7, SlotFacts
<1>9. ASSUME s[SlotOf(s, k, m)] # 0
      PROVE  s[SlotOf(s, k, m)] \in 1..Len(entries) /\ entries[s[SlotOf(s, k, m)]].key = k
  BY <1>2, <1>6, <1>8, <1>9 DEF Knows
<1>10. ASSUME NEW i \in 1..Len(entries), entries[i].key = k
       PROVE  s[SlotOf(s, k, m)] = i
  <2>1. Len(entries) \in Nat /\ \A x \in 1..Len(entries) : KeySeq[x] = entries[x].key
    BY MemberFacts
  <2>2. Finds(s, KeySeq, k, i)
    BY <1>10, <2>1 DEF Knows
  <2>3. PICK j \in 0..(Cap(s) - 1) :
          /\ s[SlotOf(s, k, j)] = i
          /\ \A h \in 0..(j - 1) : s[SlotOf(s, k, h)] # 0 /\ KeySeq[s[SlotOf(s, k, h)]] # k
    BY <2>2 DEF Finds
  <2>4. j \in T
    BY <1>2, <1>10, <2>3
  <2>5. ~(m < j)
    <3> SUFFICES ASSUME m < j PROVE FALSE
      OBVIOUS
    <3>1. m \in 0..(j - 1)
      BY <1>7
    <3>2. s[SlotOf(s, k, m)] # 0 /\ KeySeq[s[SlotOf(s, k, m)]] # k
      BY <2>3, <3>1
    <3> QED BY <1>9, <2>1, <3>2
  <2>6. m = j
    BY <1>1, <1>6, <1>7, <2>4, <2>5
  <2> QED BY <2>3, <2>6
<1> QED BY <1>4, <1>9, <1>10

\* The same table under keys that extend q.
LEMMA KnowsMore ==
  ASSUME NEW s \in Tables, NEW q, NEW p, NEW S, 0 \notin S,
         NotFull(s), \A i \in S : q[i] \in Keys, \A i \in S : p[i] = q[i], Knows(s, q, S)
  PROVE  Knows(s, p, S)
<1>0. NoKey \in Keys
  BY KeyIndexAssumption DEF NoKey
<1>1. PICK f \in DOMAIN s : s[f] = 0
  <2>1. PICK j \in 0..(Cap(s) - 1) : s[SlotOf(s, NoKey, j)] = 0
    BY <1>0, FreeFacts DEF NotFull
  <2>2. j \in Nat
    BY TableFacts
  <2>3. SlotOf(s, NoKey, j) \in DOMAIN s
    BY <1>0, <2>2, SlotFacts
  <2> QED BY <2>1, <2>3
<1>2. ASSUME NEW i \in S PROVE Finds(s, p, p[i], i)
  <2>1. Finds(s, q, q[i], i) /\ q[i] \in Keys /\ i # 0
    BY DEF Knows
  <2>2. \A j \in DOMAIN s : s[j] # 0 => p[s[j]] = q[s[j]]
    BY DEF Knows
  <2>3. Finds(s, p, q[i], i)
    BY <1>1, <2>1, <2>2, FindsStays
  <2> QED BY <2>3
<1> QED BY <1>2 DEF Knows

\* A table with no entry knows none.
LEMMA KnowsNone ==
  ASSUME NEW s \in Tables, \A j \in DOMAIN s : s[j] = 0, NEW q
  PROVE  Knows(s, q, {})
<1>1. Taken(s) = {}
  BY DEF Taken
<1>2. IsFiniteSet({}) /\ Cardinality({}) = 0
  BY FS_EmptySet
<1> QED BY <1>1, <1>2 DEF Knows

(***************************************************************************)
(* The entries against the keys read.                                      *)
(***************************************************************************)
At(f, k) == {n \in 1..Len(f) : f[n] = k}
Retells(d, f) ==
  /\ \A i \in 1..Len(d) : d[i].val = Max(At(f, d[i].key))
  /\ \A i, j \in 1..Len(d) : i < j => Min(At(f, d[i].key)) < Min(At(f, d[j].key))
  /\ Range(f) = {d[i].key : i \in 1..Len(d)}

LEMMA AtFacts ==
  ASSUME NEW f \in Seq(Keys), NEW k, At(f, k) # {}
  PROVE  /\ Min(At(f, k)) \in 1..Len(f) /\ Min(At(f, k)) \in At(f, k)
         /\ \A m \in At(f, k) : Min(At(f, k)) <= m
<1>1. At(f, k) \subseteq 1..Len(f) /\ At(f, k) \subseteq Nat
  BY DEF At
<1>2. Min(At(f, k)) \in At(f, k) /\ \A m \in At(f, k) : Min(At(f, k)) <= m
  BY <1>1, MinIsLeast
<1> QED BY <1>1, <1>2

LEMMA AtAppend ==
  ASSUME NEW f \in Seq(Keys), NEW k \in Keys
  PROVE  /\ \A q : q # k => At(Append(f, k), q) = At(f, q)
         /\ At(Append(f, k), k) = At(f, k) \cup {Len(f) + 1}
         /\ Max(At(Append(f, k), k)) = Len(f) + 1
         /\ Min(At(Append(f, k), k)) = IF At(f, k) = {} THEN Len(f) + 1 ELSE Min(At(f, k))
<1> DEFINE n == Len(f)
           g == Append(f, k)
<1>1. /\ g \in Seq(Keys) /\ Len(g) = n + 1 /\ n \in Nat /\ g[n + 1] = k
      /\ \A i \in 1..n : g[i] = f[i]
  OBVIOUS
<1> HIDE DEF g, n
<1>2. ASSUME NEW q, q # k PROVE At(g, q) = At(f, q)
  BY <1>1, <1>2 DEF At, n
<1>3. At(g, k) = At(f, k) \cup {n + 1}
  BY <1>1 DEF At, n
<1>4. At(g, k) \subseteq 1..(n + 1) /\ At(g, k) # {} /\ n + 1 \in Nat /\ n + 1 \in At(g, k)
  BY <1>1, <1>3 DEF At
<1>5. Max(At(g, k)) = n + 1
  <2>1. Max(At(g, k)) \in At(g, k) /\ \A y \in At(g, k) : Max(At(g, k)) >= y
    BY <1>4, GreatestNumber
  <2>2. Max(At(g, k)) \in 1..(n + 1) /\ Max(At(g, k)) >= n + 1
    BY <1>4, <2>1
  <2> QED BY <1>1, <2>2
<1>6. Min(At(g, k)) \in At(g, k) /\ \A m \in At(g, k) : Min(At(g, k)) <= m
  BY <1>1, <1>4, AtFacts
<1>7. CASE At(f, k) = {}
  <2>1. At(g, k) = {n + 1}
    BY <1>3, <1>7
  <2>2. Min(At(g, k)) = n + 1
    BY <1>6, <2>1
  <2> QED BY <1>2, <1>3, <1>5, <1>7, <2>2 DEF g, n
<1>8. CASE At(f, k) # {}
  <2> DEFINE a == Min(At(f, k))
             b == Min(At(g, k))
  <2>1. a \in 1..n /\ a \in At(f, k) /\ \A m \in At(f, k) : a <= m
    BY <1>8, AtFacts DEF n
  <2>2. b \in 1..(n + 1) /\ b <= a /\ (b = n + 1 \/ b \in At(f, k))
    BY <1>3, <1>4, <1>6, <2>1
  <2> HIDE DEF a, b
  <2>3. b = a
    BY <1>1, <2>1, <2>2
  <2> QED BY <1>2, <1>3, <1>5, <1>8, <2>3 DEF g, n, a, b
<1> QED BY <1>7, <1>8

\* Every key read has an entry, and only those.
LEMMA RetoldKeys ==
  ASSUME NEW f \in Seq(Keys), NEW d \in Seq(Members), Retells(d, f)
  PROVE  \A k : At(f, k) # {} <=> \E i \in 1..Len(d) : d[i].key = k
<1>1. \A k : k \in Range(f) <=> At(f, k) # {}
  BY DEF Range, At
<1>2. \A k : k \in Range(f) <=> \E i \in 1..Len(d) : d[i].key = k
  BY DEF Retells
<1> QED BY <1>1, <1>2

\* No key has two entries.
LEMMA RetoldOnce ==
  ASSUME NEW f \in Seq(Keys), NEW d \in Seq(Members), Retells(d, f)
  PROVE  \A i, j \in 1..Len(d) : d[i].key = d[j].key => i = j
<1> SUFFICES ASSUME NEW i \in 1..Len(d), NEW j \in 1..Len(d), d[i].key = d[j].key, i < j
             PROVE  FALSE
  OBVIOUS
<1> DEFINE a == Min(At(f, d[i].key))
<1>1. a < Min(At(f, d[j].key))
  BY DEF Retells
<1>2. At(f, d[i].key) # {}
  BY RetoldKeys
<1>3. a \in 1..Len(f) /\ Min(At(f, d[j].key)) = a
  BY <1>2, AtFacts
<1> HIDE DEF a
<1>4. a \in Nat /\ a < a
  BY <1>1, <1>3
<1> QED BY <1>4

\* Where the value of the key being read belongs.
RightPlace(d, k, p) ==
  /\ p \in 1..(Len(d) + 1)
  /\ p <= Len(d) => d[p].key = k
  /\ p > Len(d) => \A i \in 1..Len(d) : d[i].key # k

LEMMA RetellAppended ==
  ASSUME NEW f \in Seq(Keys), NEW d \in Seq(Members), Retells(d, f), NEW k \in Keys,
         \A i \in 1..Len(d) : d[i].key # k
  PROVE  /\ Append(d, Entry(k, Len(f) + 1)) \in Seq(Members)
         /\ Retells(Append(d, Entry(k, Len(f) + 1)), Append(f, k))
<1> DEFINE new == Entry(k, Len(f) + 1)
           e == Append(d, new)
           g == Append(f, k)
           n == Len(d)
<1>1. new \in Members /\ new.key = k /\ new.val = Len(f) + 1
  BY DEF Entry, Members
<1> HIDE DEF new
<1>2. /\ e \in Seq(Members) /\ Len(e) = n + 1 /\ n \in Nat /\ e[n + 1] = new
      /\ \A i \in 1..n : e[i] = d[i]
  BY <1>1
<1>3. At(f, k) = {}
  BY RetoldKeys
<1>4. /\ \A q : q # k => At(g, q) = At(f, q)
      /\ Max(At(g, k)) = Len(f) + 1 /\ Min(At(g, k)) = Len(f) + 1
  BY <1>3, AtAppend
<1> HIDE DEF e, g
<1>5. \A i \in 1..n : At(g, e[i].key) = At(f, d[i].key)
  BY <1>2, <1>4
<1>6. ASSUME NEW i \in 1..n PROVE Min(At(f, d[i].key)) \in 1..Len(f)
  <2>1. At(f, d[i].key) # {}
    BY RetoldKeys
  <2> QED BY <2>1, AtFacts
<1>7. ASSUME NEW i \in 1..Len(e) PROVE e[i].val = Max(At(g, e[i].key))
  <2>1. CASE i = n + 1
    BY <1>1, <1>2, <1>4, <2>1
  <2>2. CASE i \in 1..n
    <3>1. d[i].val = Max(At(f, d[i].key))
      BY <2>2 DEF Retells
    <3> QED BY <1>2, <1>5, <2>2, <3>1
  <2> QED BY <1>2, <2>1, <2>2
<1>8. ASSUME NEW i \in 1..Len(e), NEW j \in 1..Len(e), i < j
      PROVE  Min(At(g, e[i].key)) < Min(At(g, e[j].key))
  <2>1. i \in 1..n
    BY <1>2, <1>8
  <2>2. CASE j = n + 1
    <3>1. Min(At(g, e[j].key)) = Len(f) + 1 /\ Min(At(g, e[i].key)) \in 1..Len(f)
      BY <1>1, <1>2, <1>4, <1>5, <1>6, <2>1, <2>2
    <3>2. Len(f) \in Nat
      OBVIOUS
    <3> QED BY <3>1, <3>2
  <2>3. CASE j \in 1..n
    <3>1. Min(At(f, d[i].key)) < Min(At(f, d[j].key))
      BY <1>8, <2>1, <2>3 DEF Retells
    <3> QED BY <1>5, <2>1, <2>3, <3>1
  <2> QED BY <1>2, <2>2, <2>3
<1>9. Range(g) = {e[i].key : i \in 1..Len(e)}
  <2>1. Range(g) = Range(f) \cup {k}
    <3>1. /\ DOMAIN g = 1..(Len(f) + 1) /\ g[Len(f) + 1] = k /\ Len(f) \in Nat
          /\ DOMAIN f = 1..Len(f) /\ \A i \in 1..Len(f) : g[i] = f[i]
      BY DEF g
    <3>2. \A x : x \in Range(g) <=> x \in Range(f) \/ x = k
      BY <3>1 DEF Range
    <3> QED BY <3>2
  <2>2. {e[i].key : i \in 1..(n + 1)} = {d[i].key : i \in 1..n} \cup {k}
    BY <1>1, <1>2
  <2>3. Range(f) = {d[i].key : i \in 1..n}
    BY DEF Retells
  <2> QED BY <1>2, <2>1, <2>2, <2>3
<1>10. Retells(e, g)
  BY <1>7, <1>8, <1>9 DEF Retells
<1> QED BY <1>2, <1>10 DEF new, e, g

LEMMA RetellReplaced ==
  ASSUME NEW f \in Seq(Keys), NEW d \in Seq(Members), Retells(d, f), NEW p \in 1..Len(d)
  PROVE  /\ [d EXCEPT ![p].val = Len(f) + 1] \in Seq(Members)
         /\ Retells([d EXCEPT ![p].val = Len(f) + 1], Append(f, d[p].key))
         /\ Len([d EXCEPT ![p].val = Len(f) + 1]) = Len(d)
         /\ \A i \in 1..Len(d) : [d EXCEPT ![p].val = Len(f) + 1][i].key = d[i].key
<1> DEFINE k == d[p].key
           new == [d[p] EXCEPT !.val = Len(f) + 1]
           e == [d EXCEPT ![p] = new]
           g == Append(f, k)
           n == Len(d)
<1>0. d[p] \in Members /\ k \in Keys /\ Len(f) \in Nat /\ n \in Nat
  <2>1. d[p] \in Members /\ Len(f) \in Nat /\ n \in Nat
    OBVIOUS
  <2> QED BY <2>1 DEF Members
<1>1. new \in Members /\ new.key = k /\ new.val = Len(f) + 1
  BY <1>0, SMTT(40) DEF Members
<1>2. [d EXCEPT ![p].val = Len(f) + 1] = e
  BY <1>0
<1> HIDE DEF new
<1>3. /\ e \in Seq(Members) /\ Len(e) = n
      /\ e[p] = new /\ \A i \in 1..n : i # p => e[i] = d[i]
  BY <1>0, <1>1
<1>4. At(f, k) # {}
  BY RetoldKeys
<1> HIDE DEF k
<1>5. /\ \A q : q # k => At(g, q) = At(f, q)
      /\ Max(At(g, k)) = Len(f) + 1 /\ Min(At(g, k)) = Min(At(f, k))
  BY <1>0, <1>4, AtAppend
<1> HIDE DEF e, g
<1>6. \A i \in 1..n : e[i].key = d[i].key
  BY <1>1, <1>3 DEF k
<1>7. \A i \in 1..n : i # p => d[i].key # k
  <2>1. \A i, j \in 1..Len(d) : d[i].key = d[j].key => i = j
    BY RetoldOnce
  <2> QED BY <2>1 DEF k
<1>8. ASSUME NEW i \in 1..Len(e) PROVE e[i].val = Max(At(g, e[i].key))
  <2>1. CASE i = p
    BY <1>1, <1>3, <1>5, <2>1
  <2>2. CASE i # p
    <3>1. d[i].val = Max(At(f, d[i].key))
      BY <1>3 DEF Retells
    <3> QED BY <1>3, <1>5, <1>7, <2>2, <3>1
  <2> QED BY <2>1, <2>2
<1>9. \A i \in 1..n : Min(At(g, e[i].key)) = Min(At(f, d[i].key))
  BY <1>5, <1>6
<1>10. ASSUME NEW i \in 1..Len(e), NEW j \in 1..Len(e), i < j
       PROVE  Min(At(g, e[i].key)) < Min(At(g, e[j].key))
  <2>1. Min(At(f, d[i].key)) < Min(At(f, d[j].key))
    BY <1>3, <1>10 DEF Retells
  <2> QED BY <1>3, <1>9, <2>1
<1>11. Range(g) = {e[i].key : i \in 1..Len(e)}
  <2>1. Range(g) = Range(f) \cup {k}
    <3>1. /\ DOMAIN g = 1..(Len(f) + 1) /\ g[Len(f) + 1] = k
          /\ DOMAIN f = 1..Len(f) /\ \A i \in 1..Len(f) : g[i] = f[i]
      BY <1>0 DEF g
    <3>2. \A x : x \in Range(g) <=> x \in Range(f) \/ x = k
      BY <1>0, <3>1 DEF Range
    <3> QED BY <3>2
  <2>2. {e[i].key : i \in 1..n} = {d[i].key : i \in 1..n}
    BY <1>6
  <2>3. Range(f) = {d[i].key : i \in 1..n} /\ k \in Range(f)
    BY DEF Retells, k
  <2> QED BY <1>3, <2>1, <2>2, <2>3
<1>12. Retells(e, g)
  BY <1>8, <1>10, <1>11 DEF Retells
<1> QED BY <1>2, <1>3, <1>6, <1>12 DEF g, k

(***************************************************************************)
(* The inductive invariant.                                                *)
(***************************************************************************)
Types ==
  /\ knob \in BOOLEAN /\ strict \in BOOLEAN /\ built \in BOOLEAN
  /\ seen \in SUBSET Keys /\ entries \in Seq(Members) /\ fed \in Seq(Keys)
  /\ slots \in Tables /\ old \in Tables /\ count \in Nat
  /\ pc \in {"enter", "key", "scan", "size", "build", "probe", "grow", "store", "value",
             "done", "failed"}
  /\ key \in Keys /\ pos \in Nat /\ at \in Nat

History == Retells(entries, fed)

\* The set of the keys seen is that of the entries, the key being read added.
StoredKeys == {entries[i].key : i \in 1..Len(entries)}
Strictness ==
  /\ strict => ~built /\ pc \in {"key", "scan", "value", "done", "failed"}
  /\ strict /\ pc = "key" => seen = StoredKeys
  /\ strict /\ pc \in {"scan", "value"} => Absent(key) /\ seen = StoredKeys \cup {key}
  /\ pc = "enter" => ~strict /\ ~built /\ seen = {} /\ entries = <<>>

\* The index knows every entry.
Full == Knows(slots, KeySeq, 1..Len(entries)) /\ count = Len(entries)
\* The index knows every entry and the one about to be appended.
Ahead == Knows(slots, Append(KeySeq, key), 1..(Len(entries) + 1)) /\ count = Len(entries) + 1
Moved(s, m) == {s[j] : j \in 0..(m - 1)} \ {0}

Building ==
  /\ at \in 1..(Len(entries) + 1) /\ 4 * Len(entries) <= Cap(slots)
  /\ Knows(slots, KeySeq, 1..(at - 1)) /\ count = at - 1
Growing ==
  /\ Absent(key) /\ at \in 0..Cap(old)
  /\ Knows(old, KeySeq, 1..Len(entries)) /\ 2 * Len(entries) <= Cap(old)
  /\ Cap(slots) = 2 * Cap(old)
  /\ Knows(slots, KeySeq, Moved(old, at)) /\ count = Cardinality(Moved(old, at))
Storing == Absent(key) /\ Full /\ 2 * (Len(entries) + 1) <= Cap(slots)
Placed ==
  /\ RightPlace(entries, key, pos)
  /\ built /\ pos <= Len(entries) => Full
  /\ built /\ pos > Len(entries) => Ahead

Index ==
  /\ 2 * count <= Cap(slots)
  /\ built => Threshold <= Len(entries)
  /\ pc \in {"key", "scan"} /\ built => Full
  /\ pc \in {"size", "build", "probe", "grow", "store"} => built
  /\ pc = "size" => at # 0
  /\ pc = "build" => Building
  /\ pc = "probe" => Full
  /\ pc = "grow" => Growing
  /\ pc = "store" => Storing
  /\ pc = "value" => Placed

Inv == Types /\ History /\ Strictness /\ Index

LEMMA InitInv ==
  ASSUME Init PROVE Inv
<1>1. NoKey \in Keys
  BY KeyIndexAssumption DEF NoKey
<1>2. NoSlots \in Tables /\ Cap(NoSlots) = 1
  BY EmptyFacts DEF NoSlots
<1>3. Types
  <2>1. knob \in BOOLEAN /\ strict = FALSE /\ built = FALSE /\ seen = {} /\ pc = "enter"
    BY DEF Init
  <2>2. entries \in Seq(Members) /\ fed \in Seq(Keys) /\ slots \in Tables /\ old \in Tables
        /\ count \in Nat /\ key \in Keys /\ pos \in Nat /\ at \in Nat
    BY <1>1, <1>2 DEF Init
  <2> QED BY <2>1, <2>2 DEF Types
<1>4. History
  <2>1. entries = <<>> /\ fed = <<>> /\ Len(entries) = 0 /\ Range(fed) = {}
    BY DEF Init, Range
  <2> QED BY <2>1 DEF History, Retells
<1>5. Strictness
  BY DEF Init, Strictness
<1>6. Index
  <2>1. /\ 2 * count <= Cap(slots) /\ ~built /\ pc = "enter"
    BY <1>2 DEF Init
  <2> QED BY <2>1 DEF Index
<1> QED BY <1>3, <1>4, <1>5, <1>6 DEF Inv

\* A step that leaves the entries, the table and the turn of the loop alone.
LEMMA SameEntries ==
  ASSUME UNCHANGED <<entries, fed>>
  PROVE  KeySeq' = KeySeq /\ StoredKeys' = StoredKeys /\ (History => History')
<1>1. KeySeq' = KeySeq
  BY DEF KeySeq
<1>2. StoredKeys' = StoredKeys
  BY DEF StoredKeys
<1> QED BY <1>1, <1>2 DEF History

LEMMA ToggleInv ==
  ASSUME Inv, Toggle \/ UNCHANGED vars PROVE Inv'
<1>1. /\ UNCHANGED <<strict, seen, entries, index, pc, key, pos, at, old, fed>>
      /\ knob' \in BOOLEAN
  BY DEF Toggle, vars, Inv, Types
<1>2. KeySeq' = KeySeq /\ StoredKeys' = StoredKeys /\ History'
  BY <1>1, SameEntries DEF Inv
<1>3. Types'
  BY <1>1 DEF Inv, Types, index
<1>4. Strictness'
  BY <1>1, <1>2 DEF Inv, Strictness, Absent, index
<1>5. Index'
  BY <1>1, <1>2 DEF Inv, Index, Full, Ahead, Building, Growing, Storing, Placed, Absent, index
<1> QED BY <1>2, <1>3, <1>4, <1>5 DEF Inv

LEMMA EnterInv ==
  ASSUME Inv, Enter PROVE Inv'
<1>1. /\ UNCHANGED <<knob, seen, entries, built, slots, count, key, pos, at, old, fed>>
      /\ pc = "enter" /\ pc' = "key" /\ strict' = knob
  BY DEF Enter, index
<1>2. KeySeq' = KeySeq /\ StoredKeys' = StoredKeys /\ History'
  BY <1>1, SameEntries DEF Inv
<1>3. Types'
  BY <1>1 DEF Inv, Types
<1>4. ~built /\ seen = {} /\ StoredKeys = {}
  BY <1>1 DEF Inv, Strictness, StoredKeys
<1>5. Strictness'
  BY <1>1, <1>2, <1>4 DEF Strictness
<1>6. Index'
  BY <1>1, <1>4 DEF Inv, Index
<1> QED BY <1>2, <1>3, <1>5, <1>6 DEF Inv

LEMMA ReadKeyInv ==
  ASSUME Inv, ReadKey PROVE Inv'
<1>1. /\ UNCHANGED <<knob, strict, entries, built, slots, count, pos, at, old, fed>>
      /\ pc = "key"
  BY DEF ReadKey, index
<1>2. PICK k \in Keys :
       /\ key' = k
       /\ \/ strict /\ k \in seen /\ pc' = "failed" /\ UNCHANGED seen
          \/ strict /\ k \notin seen /\ pc' = "scan" /\ seen' = seen \union {k}
          \/ ~strict /\ pc' = "scan" /\ UNCHANGED seen
  BY DEF ReadKey
<1>3. KeySeq' = KeySeq /\ StoredKeys' = StoredKeys /\ History'
  BY <1>1, SameEntries DEF Inv
<1>4. Types'
  BY <1>1, <1>2 DEF Inv, Types
<1>5. Strictness'
  <2>1. strict => ~built /\ seen = StoredKeys
    BY <1>1 DEF Inv, Strictness
  <2>2. strict /\ k \notin seen => Absent(k)
    BY <2>1 DEF Absent, StoredKeys
  <2>3. Absent(k) => Absent(key)'
    BY <1>1, <1>2 DEF Absent
  <2> HIDE DEF Absent
  <2> QED BY <1>1, <1>2, <1>3, <2>1, <2>2, <2>3 DEF Strictness
<1>6. Index'
  <2>1. pc' \in {"scan", "failed"}
    BY <1>2
  <2>2. Full' = Full
    BY <1>1, <1>3 DEF Full
  <2> HIDE DEF Full
  <2> QED BY <1>1, <2>1, <2>2 DEF Inv, Index
<1> QED BY <1>3, <1>4, <1>5, <1>6 DEF Inv

LEMMA ScanInv ==
  ASSUME Inv, Scan PROVE Inv'
<1>1. /\ UNCHANGED <<knob, strict, seen, entries, slots, count, key, old, fed>>
      /\ pc = "scan" /\ pc' \in {"value", "size", "probe"}
      /\ built' \in BOOLEAN /\ pos' \in Nat /\ at' \in Nat
  <2>1. UNCHANGED <<knob, strict, seen, entries, slots, count, key, old, fed>> /\ pc = "scan"
        /\ pc' \in {"value", "size", "probe"}
    BY DEF Scan, index
  <2>2. Len(entries) + 1 \in Nat /\ InitialCap \in Nat /\ pos \in Nat /\ at \in Nat
        /\ built \in BOOLEAN /\ entries \in Seq(Members)
    BY KeyIndexAssumption DEF Inv, Types
  <2>3. FirstMatch(key) \in Nat
    <3> DEFINE T == Stored(key)
    <3>1. T \subseteq Nat
      BY <2>2 DEF Stored
    <3> HIDE DEF T
    <3>2. T # {} => Min(T) \in T
      BY <3>1, MinIsLeast
    <3> QED BY <2>2, <3>1, <3>2 DEF FirstMatch, T
  <2>4. built' \in BOOLEAN
    BY <2>2 DEF Scan, index
  <2>5. pos' \in Nat /\ at' \in Nat
    BY <2>2, <2>3 DEF Scan, index
  <2> QED BY <2>1, <2>4, <2>5
<1>2. KeySeq' = KeySeq /\ StoredKeys' = StoredKeys /\ History'
  BY <1>1, SameEntries DEF Inv
<1>3. Types'
  <2>1. pc' \in {"enter", "key", "scan", "size", "build", "probe", "grow", "store", "value",
                 "done", "failed"}
    BY <1>1
  <2> QED BY <1>1, <2>1 DEF Inv, Types
<1>4. Absent(key)' = Absent(key) /\ Full' = Full
  BY <1>1, <1>2 DEF Absent, Full
<1>5. /\ Len(entries) \in Nat /\ entries \in Seq(Members) /\ fed \in Seq(Keys) /\ key \in Keys
      /\ InitialCap \in Nat \ {0} /\ Threshold \in Nat
      /\ 2 * count <= Cap(slots) /\ (built => Threshold <= Len(entries)) /\ (built => Full)
      /\ (strict => ~built /\ Absent(key) /\ seen = StoredKeys \cup {key})
  BY <1>1, KeyIndexAssumption DEF Inv, Types, Index, Strictness
<1> HIDE DEF Absent, Full
<1>6. CASE /\ strict /\ pos' = Len(entries) + 1 /\ pc' = "value" /\ UNCHANGED <<index, at>>
  <2>1. RightPlace(entries, key, pos')
    BY <1>5, <1>6 DEF RightPlace, Absent
  <2>2. ~built /\ ~built'
    BY <1>5, <1>6 DEF index
  <2>3. Placed'
    BY <1>1, <2>1, <2>2 DEF Placed
  <2>4. Index'
    BY <1>1, <1>5, <1>6, <2>2, <2>3 DEF Index
  <2>5. Strictness'
    BY <1>1, <1>2, <1>4, <1>5, <1>6, <2>2 DEF Strictness
  <2> QED BY <1>2, <1>3, <2>4, <2>5 DEF Inv
<1>7. CASE /\ ~strict /\ Len(entries) < Threshold
           /\ pos' = FirstMatch(key) /\ pc' = "value" /\ UNCHANGED <<index, at>>
  <2>1. RightPlace(entries, key, pos')
    <3> DEFINE T == Stored(key)
    <3>1. \A i : i \in T <=> i \in 1..Len(entries) /\ entries[i].key = key
      BY DEF Stored
    <3>2. FirstMatch(key) = IF T = {} THEN Len(entries) + 1 ELSE Min(T)
      BY DEF FirstMatch
    <3> HIDE DEF T
    <3>3. T \subseteq Nat
      BY <1>5, <3>1
    <3>4. CASE T = {}
      BY <1>5, <1>7, <3>1, <3>2, <3>4 DEF RightPlace
    <3>5. CASE T # {}
      <4>1. Min(T) \in T
        BY <3>3, <3>5, MinIsLeast
      <4> QED BY <1>5, <1>7, <3>1, <3>2, <3>5, <4>1 DEF RightPlace
    <3> QED BY <3>4, <3>5
  <2>2. ~built /\ ~built'
    BY <1>5, <1>7 DEF index
  <2>3. Placed'
    BY <1>1, <2>1, <2>2 DEF Placed
  <2>4. Index'
    BY <1>1, <1>5, <1>7, <2>2, <2>3 DEF Index
  <2>5. Strictness'
    BY <1>1, <1>2, <1>4, <1>5, <1>7, <2>2 DEF Strictness
  <2> QED BY <1>2, <1>3, <2>4, <2>5 DEF Inv
<1>8. CASE /\ ~strict /\ Len(entries) >= Threshold /\ ~built
           /\ built' = TRUE /\ at' = InitialCap /\ pc' = "size" /\ UNCHANGED <<slots, count, pos>>
  <2>1. Index'
    BY <1>1, <1>5, <1>8 DEF Index
  <2>2. Strictness'
    BY <1>1, <1>8 DEF Strictness
  <2> QED BY <1>2, <1>3, <2>1, <2>2 DEF Inv
<1>9. CASE /\ ~strict /\ Len(entries) >= Threshold /\ built
           /\ pc' = "probe" /\ UNCHANGED <<index, pos, at>>
  <2>1. Index'
    BY <1>1, <1>4, <1>5, <1>9 DEF Index, index
  <2>2. Strictness'
    BY <1>1, <1>9 DEF Strictness
  <2> QED BY <1>2, <1>3, <2>1, <2>2 DEF Inv
<1> QED BY <1>6, <1>7, <1>8, <1>9 DEF Scan, SkipsScan

LEMMA SizeInv ==
  ASSUME Inv, Size PROVE Inv'
<1>1. /\ UNCHANGED <<knob, strict, seen, entries, built, key, pos, old, fed>>
      /\ pc = "size"
  BY DEF Size
<1>2. KeySeq' = KeySeq /\ StoredKeys' = StoredKeys /\ History'
  BY <1>1, SameEntries DEF Inv
<1>3. /\ Len(entries) \in Nat /\ at \in Nat /\ at # 0 /\ slots \in Tables /\ count \in Nat
      /\ 2 * count <= Cap(slots) /\ Threshold <= Len(entries) /\ ~strict /\ built
  BY <1>1 DEF Inv, Types, Index, Strictness
<1>4. CASE at < 4 * Len(entries) /\ at' = 2 * at /\ UNCHANGED <<slots, count, pc>>
  <2>1. at' \in Nat /\ at' # 0
    BY <1>3, <1>4
  <2>2. Types'
    BY <1>1, <1>4, <2>1 DEF Inv, Types
  <2>3. Strictness'
    BY <1>1, <1>3, <1>4 DEF Strictness
  <2>4. Index'
    BY <1>1, <1>3, <1>4, <2>1 DEF Index
  <2> QED BY <1>2, <2>2, <2>3, <2>4 DEF Inv
<1>5. CASE /\ at >= 4 * Len(entries) /\ slots' = Empty(at) /\ count' = 0
           /\ at' = 1 /\ pc' = "build"
  <2>1. slots' \in Tables /\ Cap(slots') = at /\ \A j \in DOMAIN slots' : slots'[j] = 0
    BY <1>3, <1>5, EmptyFacts
  <2>2. Knows(slots', KeySeq, {})
    BY <2>1, KnowsNone
  <2>3. Types'
    BY <1>1, <1>5, <2>1 DEF Inv, Types
  <2>4. Strictness'
    BY <1>1, <1>3, <1>5 DEF Strictness
  <2>5. Building'
    <3>1. 1..(at' - 1) = {} /\ at' \in 1..(Len(entries) + 1)
      BY <1>3, <1>5
    <3>2. Knows(slots', KeySeq', 1..(at' - 1))
      BY <1>2, <2>2, <3>1
    <3> QED BY <1>1, <1>5, <2>1, <3>1, <3>2 DEF Building
  <2>6. built'
    BY <1>1 DEF Inv, Index
  <2>7. Index'
    BY <1>1, <1>3, <1>5, <2>1, <2>5, <2>6 DEF Index
  <2> QED BY <1>2, <2>3, <2>4, <2>7 DEF Inv
<1> QED BY <1>4, <1>5 DEF Size

LEMMA FullFacts ==
  ASSUME NEW s \in Tables, NEW n \in Nat, NEW q, Knows(s, q, 1..n), 2 * n <= Cap(s)
  PROVE  NotFull(s) /\ Cardinality(Taken(s)) = n /\ Cardinality(1..n) = n
<1>1. Cardinality(1..n) = n
  BY FS_Interval
<1>2. Cap(s) \in Nat /\ Cap(s) > 0
  BY TableFacts
<1> QED BY <1>1, <1>2 DEF Knows, NotFull

LEMMA BuildInv ==
  ASSUME Inv, Build PROVE Inv'
<1>1. /\ UNCHANGED <<knob, strict, seen, entries, built, key, pos, old, fed>>
      /\ pc = "build"
  BY DEF Build
<1>2. KeySeq' = KeySeq /\ StoredKeys' = StoredKeys /\ History'
  BY <1>1, SameEntries DEF Inv
<1>3. /\ Len(entries) \in Nat /\ entries \in Seq(Members) /\ fed \in Seq(Keys)
      /\ at \in Nat /\ slots \in Tables /\ count \in Nat
      /\ 2 * count <= Cap(slots) /\ Threshold <= Len(entries) /\ ~strict /\ built
      /\ Building /\ Retells(entries, fed)
  BY <1>1 DEF Inv, Types, Index, Strictness, History
<1>4. /\ at \in 1..(Len(entries) + 1) /\ 4 * Len(entries) <= Cap(slots)
      /\ Knows(slots, KeySeq, 1..(at - 1)) /\ count = at - 1 /\ at - 1 \in Nat
  BY <1>3 DEF Building
<1>5. CASE /\ at <= Len(entries) /\ InsertSlot(entries[at].key, at)
           /\ at' = at + 1 /\ UNCHANGED pc
  <2> DEFINE k == entries[at].key
             S == 1..(at - 1)
  <2>1. slots' = [slots EXCEPT ![FreeSlot(slots, k)] = at] /\ count' = at
    BY <1>4, <1>5 DEF InsertSlot
  <2>2. /\ k \in Keys /\ KeySeq[at] = k
        /\ \A m \in S : m \in 1..Len(entries) /\ KeySeq[m] \in Keys /\ KeySeq[m] = entries[m].key
    <3>1. at \in 1..Len(entries) /\ \A m \in S : m \in 1..Len(entries)
      BY <1>3, <1>4, <1>5
    <3> QED BY <1>3, <3>1, MemberFacts
  <2>3. \A m \in S : KeySeq[m] # k
    <3>1. \A i, j \in 1..Len(entries) : entries[i].key = entries[j].key => i = j
      BY <1>3, RetoldOnce
    <3>2. at \in 1..Len(entries) /\ \A m \in S : m # at
      BY <1>3, <1>4, <1>5
    <3> QED BY <2>2, <3>1, <3>2
  <2>4. S \in SUBSET Nat /\ 0 \notin S /\ at # 0 /\ at \notin S
    BY <1>4
  <2>5. Cardinality(S) = at - 1
    BY <1>4, FS_Interval
  <2>6. Cap(slots) \in Nat /\ Cardinality(S) + 1 <= Cap(slots)
    <3>1. Cap(slots) \in Nat
      BY <1>3, TableFacts
    <3> QED BY <1>3, <1>4, <1>5, <2>5, <3>1
  <2> HIDE DEF k, S
  <2>7. Inserted(slots, slots', KeySeq, S, at)
    BY <1>3, <1>4, <2>1, <2>2, <2>3, <2>4, <2>6, InsertKnows DEF S
  <2>8. slots' \in Tables /\ Cap(slots') = Cap(slots) /\ Knows(slots', KeySeq, S \cup {at})
    BY <2>7 DEF Inserted
  <2>9. S \cup {at} = 1..(at' - 1) /\ at' \in 1..(Len(entries) + 1) /\ at' - 1 = at /\ at' \in Nat
    BY <1>3, <1>4, <1>5 DEF S
  <2>10. Types'
    BY <1>1, <1>3, <1>5, <2>1, <2>8, <2>9 DEF Inv, Types
  <2>11. Strictness'
    BY <1>1, <1>3, <1>5 DEF Strictness
  <2>12. Building'
    BY <1>1, <1>2, <1>4, <2>1, <2>8, <2>9 DEF Building
  <2>13. 2 * count' <= Cap(slots')
    BY <1>3, <1>4, <1>5, <2>1, <2>6, <2>8
  <2>14. Index'
    BY <1>1, <1>3, <1>5, <2>12, <2>13 DEF Index
  <2> QED BY <1>2, <2>10, <2>11, <2>14 DEF Inv
<1>6. CASE at > Len(entries) /\ pc' = "probe" /\ UNCHANGED <<slots, count, at>>
  <2>1. at - 1 = Len(entries)
    BY <1>3, <1>4, <1>6
  <2>2. Full'
    BY <1>1, <1>2, <1>4, <1>6, <2>1 DEF Full
  <2>3. Types'
    BY <1>1, <1>6 DEF Inv, Types
  <2>4. Strictness'
    BY <1>1, <1>3, <1>6 DEF Strictness
  <2>5. Index'
    BY <1>1, <1>3, <1>6, <2>2 DEF Index
  <2> QED BY <1>2, <2>3, <2>4, <2>5 DEF Inv
<1> QED BY <1>5, <1>6 DEF Build

\* What holds where find_or_insert probes.
LEMMA ProbingFacts ==
  ASSUME Inv, pc = "probe"
  PROVE  /\ Len(entries) \in Nat /\ entries \in Seq(Members) /\ key \in Keys
         /\ slots \in Tables /\ Cap(slots) \in Nat /\ Cap(slots) > 0 /\ count = Len(entries)
         /\ 2 * count <= Cap(slots) /\ Threshold <= Len(entries) /\ ~strict /\ built
         /\ Full /\ NotFull(slots) /\ Knows(slots, KeySeq, 1..Len(entries))
         /\ slots[Probe(slots, key)] # 0 =>
              /\ slots[Probe(slots, key)] \in 1..Len(entries)
              /\ entries[slots[Probe(slots, key)]].key = key
         /\ slots[Probe(slots, key)] = 0 => Absent(key)
<1>1. /\ Len(entries) \in Nat /\ entries \in Seq(Members) /\ key \in Keys
      /\ slots \in Tables /\ 2 * count <= Cap(slots) /\ Threshold <= Len(entries)
      /\ ~strict /\ built /\ Full
  BY DEF Inv, Types, Index, Strictness
<1>2. Knows(slots, KeySeq, 1..Len(entries)) /\ count = Len(entries)
  BY <1>1 DEF Full
<1>3. Cap(slots) \in Nat /\ Cap(slots) > 0
  BY <1>1, TableFacts
<1>4. NotFull(slots)
  BY <1>1, <1>2, FullFacts
<1>5. /\ slots[Probe(slots, key)] # 0 =>
           /\ slots[Probe(slots, key)] \in 1..Len(entries)
           /\ entries[slots[Probe(slots, key)]].key = key
      /\ \A i \in 1..Len(entries) : entries[i].key = key => slots[Probe(slots, key)] = i
  BY <1>1, <1>2, <1>4, ProbeFacts
<1>6. slots[Probe(slots, key)] = 0 => Absent(key)
  BY <1>1, <1>5 DEF Absent
<1> QED BY <1>1, <1>2, <1>3, <1>4, <1>5, <1>6

LEMMA FindHitInv ==
  ASSUME Inv, FindHit PROVE Inv'
<1>1. /\ UNCHANGED <<knob, strict, seen, entries, built, slots, count, key, at, old, fed>>
      /\ pc = "probe" /\ pc' = "value"
      /\ slots[Probe(slots, key)] # 0 /\ pos' = slots[Probe(slots, key)]
  BY DEF FindHit, index
<1>2. KeySeq' = KeySeq /\ StoredKeys' = StoredKeys /\ History'
  BY <1>1, SameEntries DEF Inv
<1>3. /\ Len(entries) \in Nat /\ pos' \in 1..Len(entries) /\ entries[pos'].key = key
      /\ 2 * count <= Cap(slots) /\ Threshold <= Len(entries) /\ ~strict /\ built /\ Full
  BY <1>1, ProbingFacts
<1>4. Types'
  BY <1>1, <1>3 DEF Inv, Types
<1>5. Strictness'
  BY <1>1, <1>3 DEF Strictness
<1>6. RightPlace(entries, key, pos')
  BY <1>3 DEF RightPlace
<1>7. Full'
  BY <1>1, <1>2, <1>3 DEF Full
<1>8. Placed'
  BY <1>1, <1>3, <1>6, <1>7 DEF Placed
<1>9. Index'
  BY <1>1, <1>3, <1>8 DEF Index
<1> QED BY <1>2, <1>4, <1>5, <1>9 DEF Inv

LEMMA FindMissInv ==
  ASSUME Inv, FindMiss PROVE Inv'
<1>1. /\ UNCHANGED <<knob, strict, seen, entries, built, key, pos, fed>>
      /\ pc = "probe" /\ slots[Probe(slots, key)] = 0
  BY DEF FindMiss
<1>2. KeySeq' = KeySeq /\ StoredKeys' = StoredKeys /\ History'
  BY <1>1, SameEntries DEF Inv
<1>3. /\ Len(entries) \in Nat /\ slots \in Tables /\ Cap(slots) \in Nat /\ Cap(slots) > 0
      /\ count = Len(entries) /\ Knows(slots, KeySeq, 1..Len(entries))
      /\ 2 * count <= Cap(slots) /\ Threshold <= Len(entries) /\ ~strict /\ built
      /\ Full /\ Absent(key)
  BY <1>1, ProbingFacts
<1>4. Absent(key)'
  BY <1>1, <1>3 DEF Absent
<1>5. CASE /\ MustGrow /\ old' = slots
           /\ slots' = Empty(2 * Cap(slots)) /\ count' = 0
           /\ at' = 0 /\ pc' = "grow"
  <2>0. 2 * Cap(slots) \in Nat \ {0}
    BY <1>3
  <2>1. /\ slots' \in Tables /\ Cap(slots') = 2 * Cap(slots)
        /\ \A j \in DOMAIN slots' : slots'[j] = 0
    BY <1>5, <2>0, EmptyFacts
  <2>2. Knows(slots', KeySeq, {})
    BY <2>1, KnowsNone
  <2>3. Moved(old', at') = {} /\ Cardinality({}) = 0
    <3>1. 0..(0 - 1) = {}
      OBVIOUS
    <3> QED BY <1>5, <3>1, FS_EmptySet DEF Moved
  <2>4. Growing'
    <3>1. Knows(old', KeySeq', 1..Len(entries')) /\ Knows(slots', KeySeq', Moved(old', at'))
      BY <1>1, <1>2, <1>3, <1>5, <2>2, <2>3
    <3>2. /\ at' \in 0..Cap(old') /\ 2 * Len(entries') <= Cap(old')
          /\ Cap(slots') = 2 * Cap(old') /\ count' = Cardinality(Moved(old', at'))
      <4>1. Cap(old') = Cap(slots)
        BY <1>5
      <4>2. Cap(slots') = 2 * Cap(old') /\ count' = Cardinality(Moved(old', at'))
        BY <1>5, <2>1, <2>3, <4>1
      <4>3. 2 * Len(entries') <= Cap(old')
        BY <1>1, <1>3, <4>1
      <4>4. at' \in 0..Cap(old')
        BY <1>3, <1>5, <4>1
      <4> QED BY <4>2, <4>3, <4>4
    <3> QED BY <1>4, <3>1, <3>2 DEF Growing
  <2>5. Types'
    BY <1>1, <1>3, <1>5, <2>1 DEF Inv, Types
  <2>6. Strictness'
    BY <1>1, <1>3, <1>5 DEF Strictness
  <2>7. Index'
    BY <1>1, <1>3, <1>5, <2>1, <2>4 DEF Index
  <2> QED BY <1>2, <2>5, <2>6, <2>7 DEF Inv
<1>6. CASE ~MustGrow /\ pc' = "store" /\ UNCHANGED <<slots, count, at, old>>
  <2>1. 2 * (Len(entries) + 1) <= Cap(slots)
    BY <1>3, <1>6 DEF MustGrow
  <2>2. Full'
    BY <1>1, <1>2, <1>3, <1>6 DEF Full
  <2>3. Storing'
    BY <1>1, <1>4, <1>6, <2>1, <2>2 DEF Storing
  <2>4. Types'
    BY <1>1, <1>6 DEF Inv, Types
  <2>5. Strictness'
    BY <1>1, <1>3, <1>6 DEF Strictness
  <2>6. Index'
    BY <1>1, <1>3, <1>6, <2>3 DEF Index
  <2> QED BY <1>2, <2>4, <2>5, <2>6 DEF Inv
<1> QED BY <1>5, <1>6 DEF FindMiss

\* The positions moved by the time the next slot of the old table is read.
LEMMA MovedFacts ==
  ASSUME NEW s \in Tables, NEW q, NEW n \in Nat, Knows(s, q, 1..n),
         \A i \in 1..n : q[i] \in Keys, NEW m \in 0..Cap(s)
  PROVE  /\ Moved(s, m) \subseteq 1..n /\ IsFiniteSet(Moved(s, m))
         /\ Cardinality(Moved(s, m)) \in Nat /\ Cardinality(Moved(s, m)) <= n
         /\ m = Cap(s) => Moved(s, m) = 1..n
         /\ m < Cap(s) /\ s[m] = 0 => Moved(s, m + 1) = Moved(s, m)
         /\ m < Cap(s) /\ s[m] # 0 =>
              /\ Moved(s, m + 1) = Moved(s, m) \cup {s[m]} /\ s[m] \notin Moved(s, m)
              /\ s[m] \in 1..n /\ Cardinality(Moved(s, m)) + 1 <= n
<1>1. /\ Cap(s) \in Nat /\ Cap(s) > 0 /\ DOMAIN s = 0..(Cap(s) - 1)
      /\ s \in [0..(Cap(s) - 1) -> Nat]
  BY TableFacts
<1>2. /\ \A j \in DOMAIN s : s[j] # 0 => s[j] \in 1..n
      /\ \A j, h \in DOMAIN s : s[j] = s[h] /\ s[j] # 0 => j = h
  BY DEF Knows
<1>3. \A j \in 0..(m - 1) : j \in DOMAIN s
  BY <1>1
<1>4. Moved(s, m) \subseteq 1..n
  BY <1>2, <1>3 DEF Moved
<1>5. IsFiniteSet(1..n) /\ Cardinality(1..n) = n
  BY FS_Interval
<1>6. /\ IsFiniteSet(Moved(s, m)) /\ Cardinality(Moved(s, m)) <= n
      /\ Cardinality(Moved(s, m)) \in Nat
  <2>1. IsFiniteSet(Moved(s, m)) /\ Cardinality(Moved(s, m)) <= Cardinality(1..n)
    BY <1>4, <1>5, FS_Subset
  <2> QED BY <1>5, <2>1, FS_CardinalityType
<1>7. ASSUME m = Cap(s) PROVE Moved(s, m) = 1..n
  <2>1. ASSUME NEW i \in 1..n PROVE \E j \in 0..(m - 1) : s[j] = i
    <3>1. Finds(s, q, q[i], i)
      BY DEF Knows
    <3>2. PICK j \in 0..(Cap(s) - 1) : s[SlotOf(s, q[i], j)] = i
      BY <3>1 DEF Finds
    <3>3. SlotOf(s, q[i], j) \in DOMAIN s
      <4>1. j \in Nat /\ q[i] \in Keys
        BY <1>1
      <4> QED BY <4>1, SlotFacts
    <3> QED BY <1>1, <1>7, <3>2, <3>3
  <2>2. 1..n \subseteq Moved(s, m)
    BY <2>1 DEF Moved
  <2> QED BY <1>4, <2>2
<1>8. ASSUME m < Cap(s)
      PROVE  /\ m \in DOMAIN s /\ m \notin 0..(m - 1)
             /\ \A x : (\E j \in 0..((m + 1) - 1) : s[j] = x) <=>
                       (\E j \in 0..(m - 1) : s[j] = x) \/ s[m] = x
  <2>1. \A j : j \in 0..((m + 1) - 1) <=> j \in 0..(m - 1) \/ j = m
    BY <1>1
  <2> QED BY <1>1, <1>8, <2>1
<1>9. ASSUME m < Cap(s), s[m] = 0 PROVE Moved(s, m + 1) = Moved(s, m)
  BY <1>8, <1>9 DEF Moved
<1>10. ASSUME m < Cap(s), s[m] # 0
       PROVE  /\ Moved(s, m + 1) = Moved(s, m) \cup {s[m]} /\ s[m] \notin Moved(s, m)
              /\ s[m] \in 1..n /\ Cardinality(Moved(s, m)) + 1 <= n
  <2>1. Moved(s, m + 1) = Moved(s, m) \cup {s[m]}
    BY <1>8, <1>10 DEF Moved
  <2>2. s[m] \notin Moved(s, m)
    BY <1>2, <1>3, <1>8, <1>10 DEF Moved
  <2>3. s[m] \in 1..n
    BY <1>2, <1>8, <1>10
  <2>4. Cardinality(Moved(s, m) \cup {s[m]}) = Cardinality(Moved(s, m)) + 1
    BY <1>6, <2>2, FS_AddElement
  <2>5. Cardinality(Moved(s, m) \cup {s[m]}) <= Cardinality(1..n)
    <3>1. Moved(s, m) \cup {s[m]} \subseteq 1..n
      BY <1>4, <2>3
    <3> QED BY <1>5, <3>1, FS_Subset
  <2> QED BY <1>5, <2>1, <2>2, <2>3, <2>4, <2>5
<1> QED BY <1>4, <1>6, <1>7, <1>9, <1>10

LEMMA GrowInv ==
  ASSUME Inv, Grow PROVE Inv'
<1>1. /\ UNCHANGED <<knob, strict, seen, entries, built, key, pos, fed>>
      /\ pc = "grow"
  BY DEF Grow
<1>2. KeySeq' = KeySeq /\ StoredKeys' = StoredKeys /\ History'
  BY <1>1, SameEntries DEF Inv
<1>3. /\ Len(entries) \in Nat /\ entries \in Seq(Members) /\ fed \in Seq(Keys)
      /\ slots \in Tables /\ old \in Tables /\ count \in Nat /\ at \in Nat
      /\ 2 * count <= Cap(slots) /\ Threshold <= Len(entries) /\ ~strict /\ built
      /\ Growing /\ Retells(entries, fed)
  BY <1>1 DEF Inv, Types, Index, Strictness, History
<1>4. /\ Absent(key) /\ at \in 0..Cap(old)
      /\ Knows(old, KeySeq, 1..Len(entries)) /\ 2 * Len(entries) <= Cap(old)
      /\ Cap(slots) = 2 * Cap(old)
      /\ Knows(slots, KeySeq, Moved(old, at)) /\ count = Cardinality(Moved(old, at))
  BY <1>3 DEF Growing
<1>5. /\ Cap(old) \in Nat /\ Cap(old) > 0
      /\ \A i \in 1..Len(entries) : KeySeq[i] \in Keys /\ KeySeq[i] = entries[i].key
  BY <1>3, MemberFacts, TableFacts
<1>6. /\ Moved(old, at) \subseteq 1..Len(entries) /\ count <= Len(entries)
      /\ at = Cap(old) => Moved(old, at) = 1..Len(entries)
      /\ at < Cap(old) /\ old[at] = 0 => Moved(old, at + 1) = Moved(old, at)
      /\ at < Cap(old) /\ old[at] # 0 =>
           /\ Moved(old, at + 1) = Moved(old, at) \cup {old[at]} /\ old[at] \notin Moved(old, at)
           /\ old[at] \in 1..Len(entries) /\ count + 1 <= Len(entries)
  BY <1>3, <1>4, <1>5, MovedFacts
<1>7. Absent(key)'
  BY <1>1, <1>4 DEF Absent
<1>8. CASE /\ at < Cap(old) /\ old[at] # 0
           /\ InsertSlot(entries[old[at]].key, old[at]) /\ at' = at + 1 /\ UNCHANGED <<pc, old>>
  <2> DEFINE i == old[at]
             k == entries[i].key
             S == Moved(old, at)
  <2>1. slots' = [slots EXCEPT ![FreeSlot(slots, k)] = i] /\ count' = count + 1
    BY <1>8 DEF InsertSlot
  <2>2. i \in 1..Len(entries) /\ k \in Keys /\ KeySeq[i] = k
    BY <1>5, <1>6, <1>8
  <2>3. /\ S \in SUBSET Nat /\ 0 \notin S /\ i \in Nat /\ i # 0 /\ i \notin S
        /\ Moved(old, at + 1) = S \cup {i} /\ count = Cardinality(S)
    BY <1>3, <1>4, <1>6, <1>8
  <2>4. \A m \in S : KeySeq[m] \in Keys
    BY <1>5, <1>6
  <2>5. \A m \in S : KeySeq[m] # k
    <3>1. \A x, y \in 1..Len(entries) : entries[x].key = entries[y].key => x = y
      BY <1>3, RetoldOnce
    <3>2. \A m \in S : m \in 1..Len(entries) /\ m # i
      BY <1>6, <2>3
    <3> QED BY <1>5, <2>2, <3>1, <3>2
  <2>6. Cardinality(S) + 1 <= Cap(slots) /\ 2 * (count + 1) <= Cap(slots)
    BY <1>3, <1>4, <1>5, <1>6, <1>8
  <2>7. Knows(slots, KeySeq, S)
    BY <1>4
  <2> HIDE DEF i, k, S
  <2>8. Inserted(slots, slots', KeySeq, S, i)
    BY <1>3, <2>1, <2>2, <2>3, <2>4, <2>5, <2>6, <2>7, InsertKnows
  <2>9. /\ slots' \in Tables /\ Cap(slots') = Cap(slots) /\ Knows(slots', KeySeq, S \cup {i})
        /\ Cardinality(S \cup {i}) = Cardinality(S) + 1
    BY <2>8 DEF Inserted
  <2>10. at' \in 0..Cap(old) /\ at' \in Nat /\ count' \in Nat
    BY <1>3, <1>4, <1>5, <1>8, <2>1
  <2>11. Types'
    BY <1>1, <1>8, <2>9, <2>10 DEF Inv, Types
  <2>12. Strictness'
    BY <1>1, <1>3, <1>8 DEF Strictness
  <2>13. Growing'
    <3>1. Knows(slots', KeySeq', Moved(old', at')) /\ count' = Cardinality(Moved(old', at'))
      BY <1>2, <1>8, <2>1, <2>3, <2>9
    <3>2. /\ at' \in 0..Cap(old') /\ Cap(slots') = 2 * Cap(old')
          /\ 2 * Len(entries') <= Cap(old') /\ Knows(old', KeySeq', 1..Len(entries'))
      BY <1>1, <1>2, <1>4, <1>8, <2>9, <2>10
    <3> QED BY <1>7, <3>1, <3>2 DEF Growing
  <2>14. Index'
    BY <1>1, <1>3, <1>8, <2>1, <2>6, <2>9, <2>13 DEF Index
  <2> QED BY <1>2, <2>11, <2>12, <2>14 DEF Inv
<1>9. CASE /\ at < Cap(old) /\ old[at] = 0 /\ at' = at + 1 /\ UNCHANGED <<slots, count, pc, old>>
  <2>1. at' \in 0..Cap(old) /\ at' \in Nat /\ Moved(old', at') = Moved(old, at)
    BY <1>3, <1>4, <1>5, <1>6, <1>9
  <2>2. Types'
    BY <1>1, <1>9, <2>1 DEF Inv, Types
  <2>3. Strictness'
    BY <1>1, <1>3, <1>9 DEF Strictness
  <2>4. Growing'
    BY <1>1, <1>2, <1>4, <1>7, <1>9, <2>1 DEF Growing
  <2>5. Index'
    BY <1>1, <1>3, <1>9, <2>4 DEF Index
  <2> QED BY <1>2, <2>2, <2>3, <2>5 DEF Inv
<1>10. CASE /\ at = Cap(old) /\ pc' = "store" /\ old' = NoSlots /\ UNCHANGED <<slots, count, at>>
  <2>1. NoSlots \in Tables
    BY EmptyFacts DEF NoSlots
  <2>2. Types'
    BY <1>1, <1>10, <2>1 DEF Inv, Types
  <2>3. Strictness'
    BY <1>1, <1>3, <1>10 DEF Strictness
  <2>4. Moved(old, at) = 1..Len(entries) /\ Cardinality(1..Len(entries)) = Len(entries)
    <3>1. Cardinality(1..Len(entries)) = Len(entries)
      BY <1>3, <1>4, FullFacts
    <3>2. Moved(old, at) = 1..Len(entries)
      BY <1>6, <1>10
    <3> QED BY <3>1, <3>2
  <2>5. Full'
    BY <1>1, <1>2, <1>4, <1>10, <2>4 DEF Full
  <2>6. 2 * (Len(entries) + 1) <= Cap(slots)
    BY <1>3, <1>4, <1>5
  <2>7. Storing'
    BY <1>1, <1>7, <1>10, <2>5, <2>6 DEF Storing
  <2>8. Index'
    BY <1>1, <1>3, <1>10, <2>7 DEF Index
  <2> QED BY <1>2, <2>2, <2>3, <2>8 DEF Inv
<1> QED BY <1>8, <1>9, <1>10 DEF Grow

LEMMA StoreInv ==
  ASSUME Inv, Store PROVE Inv'
<1> DEFINE n == Len(entries)
           q == Append(KeySeq, key)
<1>1. /\ UNCHANGED <<knob, strict, seen, entries, built, key, at, old, fed>>
      /\ pc = "store" /\ pc' = "value" /\ pos' = n + 1
      /\ slots' = [slots EXCEPT ![FreeSlot(slots, key)] = n + 1] /\ count' = count + 1
  BY DEF Store, InsertSlot
<1>2. KeySeq' = KeySeq /\ StoredKeys' = StoredKeys /\ History'
  BY <1>1, SameEntries DEF Inv
<1>3. /\ n \in Nat /\ entries \in Seq(Members) /\ key \in Keys
      /\ slots \in Tables /\ count \in Nat
      /\ Threshold <= n /\ ~strict /\ built /\ Storing
  BY <1>1 DEF Inv, Types, Index, Strictness
<1>4. /\ Absent(key) /\ Knows(slots, KeySeq, 1..n) /\ count = n /\ 2 * (n + 1) <= Cap(slots)
  BY <1>3 DEF Storing, Full
<1>5. /\ \A i \in 1..n : KeySeq[i] \in Keys /\ KeySeq[i] = entries[i].key /\ KeySeq[i] # key
      /\ Cap(slots) \in Nat /\ Cap(slots) > 0
  BY <1>3, <1>4, MemberFacts, TableFacts DEF Absent
<1>6. q[n + 1] = key /\ \A i \in 1..n : q[i] = KeySeq[i]
  <2>1. KeySeq \in Seq(Keys) /\ Len(KeySeq) = n
    BY <1>3, <1>5 DEF KeySeq
  <2> HIDE DEF n
  <2> QED BY <1>3, <2>1
<1> HIDE DEF n, q
<1>7. NotFull(slots) /\ Cardinality(1..n) = n
  <2>1. 2 * n <= Cap(slots)
    BY <1>3, <1>4, <1>5
  <2> QED BY <1>3, <1>4, <2>1, FullFacts
<1>8. Knows(slots, q, 1..n)
  <2>1. 0 \notin 1..n
    BY <1>3
  <2> QED BY <1>3, <1>4, <1>5, <1>6, <1>7, <2>1, KnowsMore
<1>9. Inserted(slots, slots', q, 1..n, n + 1)
  <2>1. /\ 1..n \in SUBSET Nat /\ 0 \notin 1..n /\ n + 1 \in Nat /\ n + 1 # 0 /\ n + 1 \notin 1..n
        /\ Cardinality(1..n) + 1 <= Cap(slots)
    BY <1>3, <1>4, <1>5, <1>7
  <2>2. \A m \in 1..n : q[m] \in Keys /\ q[m] # key
    BY <1>5, <1>6
  <2> QED BY <1>1, <1>3, <1>6, <1>8, <2>1, <2>2, InsertKnows
<1>10. slots' \in Tables /\ Cap(slots') = Cap(slots) /\ Knows(slots', q, 1..(n + 1))
  <2>1. (1..n) \cup {n + 1} = 1..(n + 1)
    BY <1>3
  <2> QED BY <1>9, <2>1 DEF Inserted
<1>11. pos' \in Nat /\ count' \in Nat /\ count' = n + 1
  BY <1>1, <1>3, <1>4
<1>12. Types'
  BY <1>1, <1>10, <1>11 DEF Inv, Types
<1>13. Strictness'
  BY <1>1, <1>3 DEF Strictness
<1>14. Ahead'
  <2>1. q = Append(KeySeq', key') /\ Len(entries') = n
    BY <1>1, <1>2 DEF q, n
  <2> QED BY <1>10, <1>11, <2>1 DEF Ahead
<1>15. RightPlace(entries', key', pos')
  BY <1>1, <1>3, <1>4 DEF RightPlace, Absent, n
<1>16. Placed'
  <2>1. ~(pos' <= Len(entries'))
    BY <1>1, <1>3 DEF n
  <2> QED BY <1>14, <1>15, <2>1 DEF Placed
<1>17. Index'
  <2>1. 2 * count' <= Cap(slots') /\ Threshold <= Len(entries')
    BY <1>1, <1>3, <1>4, <1>10, <1>11 DEF n
  <2> QED BY <1>1, <1>16, <2>1 DEF Index
<1> QED BY <1>2, <1>12, <1>13, <1>17 DEF Inv

LEMMA ValueInv ==
  ASSUME Inv, Value PROVE Inv'
<1> DEFINE n == Len(entries)
           e == [entries EXCEPT ![pos].val = Len(fed) + 1]
           new == Entry(key, Len(fed) + 1)
<1>1. /\ UNCHANGED <<knob, strict, seen, built, slots, count, old>>
      /\ pc = "value" /\ pc' = "key" /\ fed' = Append(fed, key)
      /\ key' = NoKey /\ pos' = 0 /\ at' = 0
      /\ pos <= n => entries' = e
      /\ ~(pos <= n) => entries' = Append(entries, new)
  BY DEF Value, index
<1>2. /\ n \in Nat /\ entries \in Seq(Members) /\ fed \in Seq(Keys) /\ key \in Keys /\ pos \in Nat
      /\ Retells(entries, fed) /\ Placed /\ 2 * count <= Cap(slots)
      /\ built => Threshold <= n
      /\ strict => ~built /\ Absent(key) /\ seen = StoredKeys \cup {key}
  BY <1>1 DEF Inv, Types, History, Index, Strictness
<1>3. /\ RightPlace(entries, key, pos) /\ NoKey \in Keys
      /\ built /\ pos <= n => Full
      /\ built /\ pos > n => Ahead
  BY <1>2, KeyIndexAssumption DEF Placed, NoKey
<1>4. /\ entries' \in Seq(Members) /\ Retells(entries', fed')
      /\ Len(entries') = IF pos <= n THEN n ELSE n + 1
      /\ KeySeq' = IF pos <= n THEN KeySeq ELSE Append(KeySeq, key)
      /\ pos > n => StoredKeys' = StoredKeys \cup {key}
  <2>1. CASE pos <= n
    <3>1. pos \in 1..n /\ entries[pos].key = key
      BY <1>2, <1>3, <2>1 DEF RightPlace
    <3>2. /\ e \in Seq(Members) /\ Retells(e, Append(fed, key)) /\ Len(e) = n
          /\ \A i \in 1..n : e[i].key = entries[i].key
      BY <1>2, <3>1, RetellReplaced
    <3>3. entries' = e
      BY <1>1, <2>1
    <3> HIDE DEF e
    <3>4. KeySeq' = KeySeq
      BY <3>2, <3>3 DEF KeySeq
    <3>5. ~(pos > n)
      BY <1>2, <2>1
    <3> QED BY <1>1, <2>1, <3>2, <3>3, <3>4, <3>5
  <2>2. CASE ~(pos <= n)
    <3>1. \A i \in 1..n : entries[i].key # key
      BY <1>2, <1>3, <2>2 DEF RightPlace
    <3>2. /\ Append(entries, new) \in Seq(Members)
          /\ Retells(Append(entries, new), Append(fed, key))
      BY <1>2, <3>1, RetellAppended
    <3>3. entries' = Append(entries, new) /\ new.key = key
      BY <1>1, <2>2 DEF Entry
    <3>4. new \in Members
      BY <1>2 DEF Members, Entry
    <3> HIDE DEF new, e
    <3>5. /\ Len(entries') = n + 1 /\ entries'[n + 1].key = key
          /\ \A i \in 1..n : entries'[i].key = entries[i].key
      BY <1>2, <3>3, <3>4
    <3>6. KeySeq' = Append(KeySeq, key)
      <4>1. KeySeq \in Seq(Keys) /\ Len(KeySeq) = n
        BY <1>2, MemberFacts DEF KeySeq
      <4>2. KeySeq' = [i \in 1..(n + 1) |-> IF i = n + 1 THEN key ELSE KeySeq[i]]
        <5>1. KeySeq' = [i \in 1..(n + 1) |-> entries'[i].key]
          BY <3>5 DEF KeySeq
        <5>2. \A i \in 1..(n + 1) : entries'[i].key = IF i = n + 1 THEN key ELSE KeySeq[i]
          <6>1. \A i \in 1..n : KeySeq[i] = entries[i].key
            BY DEF KeySeq
          <6> QED BY <1>2, <3>5, <6>1
        <5> QED BY <5>1, <5>2
      <4>3. Append(KeySeq, key) = [i \in 1..(n + 1) |-> IF i = n + 1 THEN key ELSE KeySeq[i]]
        <5> DEFINE a == Append(KeySeq, key)
        <5>1. a \in Seq(Keys) /\ Len(a) = n + 1
          BY <1>2, <4>1
        <5>2. a[n + 1] = key /\ \A i \in 1..n : a[i] = KeySeq[i]
          BY <1>2, <4>1
        <5> HIDE DEF a
        <5>3. a = [i \in 1..(n + 1) |-> a[i]]
          BY <5>1
        <5>4. \A i \in 1..(n + 1) : a[i] = IF i = n + 1 THEN key ELSE KeySeq[i]
          BY <1>2, <5>2
        <5> QED BY <5>3, <5>4 DEF a
      <4> QED BY <4>2, <4>3
    <3>7. StoredKeys' = StoredKeys \cup {key}
      <4>1. StoredKeys' = {entries'[i].key : i \in 1..(n + 1)}
        BY <3>5 DEF StoredKeys
      <4>2. 1..(n + 1) = (1..n) \cup {n + 1}
        BY <1>2
      <4> QED BY <3>5, <4>1, <4>2 DEF StoredKeys
    <3> QED BY <1>1, <2>2, <3>2, <3>3, <3>5, <3>6, <3>7
  <2> QED BY <2>1, <2>2
<1> HIDE DEF e, new
<1>5. Types'
  <2>1. fed' \in Seq(Keys)
    BY <1>1, <1>2
  <2> QED BY <1>1, <1>3, <1>4, <2>1 DEF Inv, Types
<1>6. History'
  BY <1>4 DEF History
<1>7. Strictness'
  <2>1. strict => pos > n
    BY <1>2, <1>3 DEF RightPlace, Absent
  <2>2. strict => seen' = StoredKeys'
    BY <1>1, <1>2, <1>4, <2>1
  <2> QED BY <1>1, <1>2, <2>2 DEF Strictness
<1>8. built => Full'
  <2> SUFFICES ASSUME built PROVE Full'
    OBVIOUS
  <2>1. CASE pos <= n
    BY <1>1, <1>3, <1>4, <2>1 DEF Full
  <2>2. CASE pos > n
    <3>1. Ahead /\ ~(pos <= n)
      BY <1>2, <1>3, <2>2
    <3> QED BY <1>1, <1>4, <3>1 DEF Full, Ahead
  <2> QED BY <1>2, <2>1, <2>2
<1>9. Index'
  <2>1. built => Threshold <= Len(entries')
    BY <1>2, <1>4, KeyIndexAssumption
  <2> QED BY <1>1, <1>2, <1>8, <2>1 DEF Index
<1> QED BY <1>5, <1>6, <1>7, <1>9 DEF Inv

LEMMA EndInv ==
  ASSUME Inv, Abandon \/ Close PROVE Inv'
<1>1. /\ UNCHANGED <<knob, strict, seen, entries, built, slots, count, key, pos, at, old, fed>>
      /\ pc' \in {"failed", "done"} /\ pc # "enter"
  BY DEF Abandon, Close, index
<1>2. KeySeq' = KeySeq /\ StoredKeys' = StoredKeys /\ History'
  BY <1>1, SameEntries DEF Inv
<1>3. Types'
  BY <1>1 DEF Inv, Types
<1>4. Strictness'
  BY <1>1 DEF Inv, Strictness
<1>5. Index'
  BY <1>1 DEF Inv, Index
<1> QED BY <1>2, <1>3, <1>4, <1>5 DEF Inv

(***************************************************************************)
(* The theorems.                                                           *)
(***************************************************************************)
\* The invariant holds in every reachable state of the member loop, for any
\* keys, hash, threshold and initial capacity, however the knob is turned.
THEOREM MemberLoopInvariant == Spec => []Inv
<1>1. Init => Inv
  BY InitInv
<1>2. Inv /\ [Next]_vars => Inv'
  <2> SUFFICES ASSUME Inv, [Next]_vars PROVE Inv'
    OBVIOUS
  <2> QED BY ToggleInv, EnterInv, ReadKeyInv, ScanInv, SizeInv, BuildInv, FindHitInv, FindMissInv,
             GrowInv, StoreInv, ValueInv, EndInv DEF Next
<1> QED BY <1>1, <1>2, PTL DEF Spec

\* Whatever happens to the knob meanwhile, parse_object_inplace yields what
\* inserting the members one by one yields: every key once, where it came
\* first, with the value that came last.
THEOREM ObjectReadIsInserted == Spec => []SameAsInsert
<1>1. Inv => SameAsInsert
  <2> SUFFICES ASSUME Inv PROVE SameAsInsert
    OBVIOUS
  <2>1. \A k : Times(k) = At(fed, k)
    BY DEF Times, At
  <2>2. Retells(entries, fed)
    BY DEF Inv, History
  <2> QED BY <2>1, <2>2 DEF SameAsInsert, Retells
<1> QED BY <1>1, MemberLoopInvariant, PTL

\* Between members the index of parse_object_inplace knows every entry at its
\* position, growing it reads no entry that has not been appended, and it is
\* at most half full, so that every probe ends.
THEOREM ParserIndexSound == Spec => []KeyIndexSound
<1>1. Inv => KeyIndexSound
  <2> SUFFICES ASSUME Inv PROVE KeyIndexSound
    OBVIOUS
  <2>1. /\ entries \in Seq(Members) /\ Len(entries) \in Nat /\ slots \in Tables /\ old \in Tables
        /\ 2 * count <= Cap(slots)
    BY DEF Inv, Types, Index
  <2>2. HalfEmpty
    BY <2>1 DEF HalfEmpty
  <2>3. GrowReadsReal
    <3> SUFFICES ASSUME pc = "grow", NEW j \in DOMAIN old PROVE old[j] <= Len(entries)
      BY DEF GrowReadsReal
    <3>1. Knows(old, KeySeq, 1..Len(entries))
      BY DEF Inv, Index, Growing
    <3>2. old[j] \in Nat
      BY <2>1, TableFacts
    <3> QED BY <2>1, <3>1, <3>2 DEF Knows
  <2>4. IndexInSync
    <3> SUFFICES ASSUME pc = "key", built
                 PROVE  /\ count = Len(entries) /\ \A j \in DOMAIN slots : slots[j] <= Len(entries)
                        /\ \A i \in 1..Len(entries) : slots[Probe(slots, entries[i].key)] = i
      BY DEF IndexInSync
    <3>1. Knows(slots, KeySeq, 1..Len(entries)) /\ count = Len(entries)
      BY DEF Inv, Index, Full
    <3>2. \A j \in DOMAIN slots : slots[j] \in Nat
      BY <2>1, TableFacts
    <3>3. \A j \in DOMAIN slots : slots[j] <= Len(entries)
      BY <2>1, <3>1, <3>2 DEF Knows
    <3>4. NotFull(slots)
      BY <2>1, <3>1, FullFacts
    <3>5. ASSUME NEW i \in 1..Len(entries) PROVE slots[Probe(slots, entries[i].key)] = i
      <4>1. entries[i].key \in Keys
        BY <2>1, MemberFacts
      <4> QED BY <2>1, <3>1, <3>4, <4>1, ProbeFacts
    <3> QED BY <3>1, <3>3, <3>5
  <2> QED BY <2>2, <2>3, <2>4 DEF KeyIndexSound
<1> QED BY <1>1, MemberLoopInvariant, PTL
=============================================================================
