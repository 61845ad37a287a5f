----------------------------- MODULE Induction -----------------------------
(***************************************************************************)
(* Induction over the naturals and folds over sequences, in the form the   *)
(* proofs of this project use: a set of naturals has a least element, and  *)
(* a fold exists, has its type and unfolds from the right; and sums over   *)
(* finite sets.                                                            *)
(***************************************************************************)
EXTENDS SequencesExt, SequenceTheorems, FiniteSetTheorems, TLAPS

\* Every nonempty set of naturals has a least element.
LEMMA LeastNumber ==
  ASSUME NEW T, T \subseteq Nat, T # {}
  PROVE  \E n \in T : \A m \in T : n <= m
<1>1. PICK n \in T : \A m \in T : <<m, n>> \notin OpToRel(<, Nat)
  BY NatLessThanWellFounded, WFMin, Zenon
<1>2. \A m \in T : ~(m < n)
  BY <1>1 DEF OpToRel
<1> QED BY <1>2

\* Min is that element.
LEMMA MinIsLeast ==
  ASSUME NEW T, T \subseteq Nat, T # {}
  PROVE  Min(T) \in T /\ \A m \in T : Min(T) <= m
<1>1. \E n \in T : \A m \in T : n <= m
  BY LeastNumber
<1> QED BY <1>1, Zenon DEF Min

\* A set of naturals with 0 and, with each of its elements, the next one, is
\* all of them.
LEMMA NatSetInduction ==
  ASSUME NEW P, 0 \in P, \A n \in Nat : n \in P => n + 1 \in P
  PROVE  \A n \in Nat : n \in P
<1> SUFFICES ASSUME Nat \ P # {} PROVE FALSE
  OBVIOUS
<1>1. PICK n \in Nat \ P : \A m \in Nat \ P : n <= m
  BY LeastNumber
<1>2. n # 0 /\ n - 1 \in Nat /\ n - 1 \in P
  BY <1>1
<1> QED BY <1>1, <1>2

\* A nonempty set of numbers up to n has a greatest element, and Max is it.
LEMMA GreatestNumber ==
  ASSUME NEW n \in Nat, NEW s, s \subseteq 1..n, s # {}
  PROVE  Max(s) \in s /\ \A y \in s : Max(s) >= y
<1> DEFINE up == {k \in Nat : \A y \in s : k >= y}
<1>1. n \in up
  OBVIOUS
<1>2. PICK k \in up : \A j \in up : k <= j
  BY <1>1, LeastNumber
<1>3. k \in Nat /\ \A y \in s : k >= y
  BY <1>2
<1>4. k \in s
  <2> SUFFICES ASSUME k \notin s PROVE FALSE
    OBVIOUS
  <2>1. \A y \in s : y \in Nat /\ y # k /\ k >= y /\ y > 0
    BY <1>3
  <2>2. k - 1 \in Nat /\ \A y \in s : k - 1 >= y
    <3>1. PICK z \in s : TRUE
      OBVIOUS
    <3> QED BY <1>3, <2>1, <3>1
  <2>3. k - 1 \in up
    BY <2>2
  <2> QED BY <1>2, <1>3, <2>3
<1>5. \E x \in s : \A y \in s : x >= y
  BY <1>3, <1>4
<1> QED BY <1>5, Zenon DEF Max

\* FoldLeft's table over the sets of positions of t exists.
IsTable(iter, n, base, g, t) ==
  iter = [s \in SUBSET (1..n) |-> IF s = {} THEN base ELSE g[<<iter[s \ {Max(s)}], t[Max(s)]>>]]

LEMMA TableStep ==
  ASSUME NEW n \in Nat, NEW D, NEW base \in D, NEW E, NEW t, \A i \in 1..(n + 1) : t[i] \in E,
         NEW g \in [D \X E -> D],
         NEW f \in [SUBSET (1..n) -> D], IsTable(f, n, base, g, t)
  PROVE  \E h \in [SUBSET (1..(n + 1)) -> D] : IsTable(h, n + 1, base, g, t)
<1> DEFINE h == [s \in SUBSET (1..(n + 1)) |->
                   IF n + 1 \in s THEN g[<<f[s \ {n + 1}], t[n + 1]>>] ELSE f[s]]
<1>1. ASSUME NEW s \in SUBSET (1..(n + 1)), n + 1 \in s
      PROVE  /\ s \ {n + 1} \in SUBSET (1..n) /\ Max(s) = n + 1
             /\ h[s] \in D /\ s # {}
             /\ h[s] = g[<<h[s \ {Max(s)}], t[Max(s)]>>]
  <2>1. s \ {n + 1} \in SUBSET (1..n) /\ s # {}
    <3>1. \A x \in s : x # n + 1 => x \in 1..n
      OBVIOUS
    <3> QED BY <1>1, <3>1
  <2>2. Max(s) \in s /\ Max(s) >= n + 1
    <3> HIDE DEF h
    <3>1. n + 1 \in Nat /\ s \subseteq 1..(n + 1)
      OBVIOUS
    <3>2. Max(s) \in s /\ \A y \in s : Max(s) >= y
      BY <2>1, <3>1, GreatestNumber
    <3> QED BY <1>1, <3>2
  <2>3. Max(s) = n + 1
    <3> HIDE DEF h
    <3>1. Max(s) \in 1..(n + 1)
      BY <2>2
    <3> QED BY <2>2, <3>1
  <2>4. h[s \ {n + 1}] = f[s \ {n + 1}]
    BY <2>1
  <2>5. f[s \ {n + 1}] \in D /\ t[n + 1] \in E
    BY <2>1
  <2>6. h[s] = g[<<f[s \ {n + 1}], t[n + 1]>>]
    BY <1>1
  <2> HIDE DEF h
  <2> QED BY <2>1, <2>3, <2>4, <2>5, <2>6
<1>2. ASSUME NEW s \in SUBSET (1..(n + 1)), n + 1 \notin s
      PROVE  /\ h[s] \in D
             /\ h[s] = IF s = {} THEN base ELSE g[<<h[s \ {Max(s)}], t[Max(s)]>>]
  <2>1. s \in SUBSET (1..n) /\ h[s] = f[s]
    BY <1>2
  <2>2. f[s] = IF s = {} THEN base ELSE g[<<f[s \ {Max(s)}], t[Max(s)]>>]
    BY <2>1 DEF IsTable
  <2>3. h[s \ {Max(s)}] = f[s \ {Max(s)}]
    BY <1>2, <2>1
  <2> HIDE DEF h
  <2> QED BY <2>1, <2>2, <2>3
<1>3. h \in [SUBSET (1..(n + 1)) -> D]
  <2>1. \A s \in SUBSET (1..(n + 1)) : h[s] \in D
    BY <1>1, <1>2
  <2>2. h = [s \in SUBSET (1..(n + 1)) |-> h[s]]
    OBVIOUS
  <2> HIDE DEF h
  <2> QED BY <2>1, <2>2
<1>4. IsTable(h, n + 1, base, g, t)
  <2>1. ASSUME NEW s \in SUBSET (1..(n + 1))
        PROVE  h[s] = IF s = {} THEN base ELSE g[<<h[s \ {Max(s)}], t[Max(s)]>>]
    <3> HIDE DEF h
    <3> QED BY <1>1, <1>2
  <2>2. DOMAIN h = SUBSET (1..(n + 1)) /\ h = [s \in SUBSET (1..(n + 1)) |-> h[s]]
    OBVIOUS
  <2> HIDE DEF h
  <2> QED BY <2>1, <2>2 DEF IsTable
<1> HIDE DEF h
<1> QED BY <1>3, <1>4

LEMMA TableExists ==
  ASSUME NEW n \in Nat, NEW D, NEW base \in D, NEW E, NEW t, \A i \in 1..n : t[i] \in E,
         NEW g \in [D \X E -> D]
  PROVE  \E h \in [SUBSET (1..n) -> D] : IsTable(h, n, base, g, t)
<1> DEFINE Has(m) == \E h \in [SUBSET (1..m) -> D] : IsTable(h, m, base, g, t)
           P == {m \in Nat : m <= n => Has(m)}
<1>1. 0 \in P
  <2> DEFINE h == [s \in SUBSET (1..0) |-> base]
  <2>1. h \in [SUBSET (1..0) -> D]
    OBVIOUS
  <2>2. \A s \in SUBSET (1..0) : s = {}
    OBVIOUS
  <2>3. h = [s \in SUBSET (1..0) |-> IF s = {} THEN base ELSE g[<<h[s \ {Max(s)}], t[Max(s)]>>]]
    BY <2>2
  <2> HIDE DEF h
  <2>4. IsTable(h, 0, base, g, t)
    BY <2>3 DEF IsTable
  <2>5. Has(0)
    BY <2>1, <2>4
  <2> HIDE DEF Has
  <2> QED BY <2>5
<1>2. ASSUME NEW m \in Nat, m \in P PROVE m + 1 \in P
  <2> HIDE DEF Has
  <2> SUFFICES ASSUME m + 1 <= n PROVE Has(m + 1)
    OBVIOUS
  <2>0. Has(m)
    BY <1>2
  <2> USE DEF Has
  <2> HIDE DEF P
  <2>1. PICK f \in [SUBSET (1..m) -> D] : IsTable(f, m, base, g, t)
    BY <2>0
  <2>2. \A i \in 1..(m + 1) : t[i] \in E
    OBVIOUS
  <2> QED BY <2>1, <2>2, TableStep
<1> HIDE DEF P
<1>3. \A m \in Nat : m \in P
  BY <1>1, <1>2, NatSetInduction
<1>4. Has(n)
  <2> HIDE DEF Has
  <2> QED BY <1>3 DEF P
<1> QED BY <1>4

\* A fold is the last state of a run over the sequence from the left.
IsRun(run, n, base, g, t) ==
  run[0] = base /\ \A k \in 1..n : run[k] = g[<<run[k - 1], t[k]>>]
RunsTo(n, D, base, g, t, end) ==
  \E run \in [0..n -> D] : IsRun(run, n, base, g, t) /\ run[n] = end

LEMMA FoldRuns ==
  ASSUME NEW n \in Nat, NEW D, NEW base \in D, NEW E, NEW t, \A i \in 1..n : t[i] \in E,
         NEW g \in [D \X E -> D], NEW iter, IsTable(iter, n, base, g, t)
  PROVE  RunsTo(n, D, base, g, t, iter[1..n])
<1> DEFINE run == [k \in 0..n |-> iter[1..k]]
<1>1. run[0] = base
  <2>1. 1..0 = {} /\ {} \in SUBSET (1..n)
    OBVIOUS
  <2>2. iter[{}] = base
    BY <2>1 DEF IsTable
  <2> QED BY <2>1, <2>2
<1>2. ASSUME NEW k \in 1..n PROVE run[k] = g[<<run[k - 1], t[k]>>]
  <2>1. 1..k \in SUBSET (1..n) /\ 1..k # {} /\ k \in 1..k /\ k \in Nat /\ k - 1 \in 0..n /\ k \in 0..n
    OBVIOUS
  <2>2. Max(1..k) \in 1..k /\ Max(1..k) >= k
    BY <2>1, GreatestNumber
  <2>3. Max(1..k) = k
    BY <2>2
  <2>4. (1..k) \ {k} = 1..(k - 1)
    BY <2>1
  <2>5. iter[1..k] = g[<<iter[(1..k) \ {Max(1..k)}], t[Max(1..k)]>>]
    BY <2>1, Zenon DEF IsTable
  <2> QED BY <2>1, <2>3, <2>4, <2>5
<1>3. run = [k \in 0..n |-> run[k]] /\ run[n] = iter[1..n]
  OBVIOUS
<1> HIDE DEF run
<1> DEFINE P == {m \in Nat : m <= n => run[m] \in D}
<1>4. 0 \in P
  BY <1>1
<1>5. ASSUME NEW m \in Nat, m \in P PROVE m + 1 \in P
  <2> SUFFICES ASSUME m + 1 <= n PROVE run[m + 1] \in D
    OBVIOUS
  <2>1. m + 1 \in 1..n /\ run[m] \in D /\ t[m + 1] \in E /\ (m + 1) - 1 = m
    BY <1>5
  <2>2. run[m + 1] = g[<<run[m], t[m + 1]>>]
    BY <1>2, <2>1
  <2> QED BY <2>1, <2>2
<1> HIDE DEF P
<1>6. \A m \in Nat : m \in P
  BY <1>4, <1>5, NatSetInduction
<1>7. \A k \in 0..n : run[k] \in D
  BY <1>6 DEF P
<1>8. run \in [0..n -> D]
  BY <1>3, <1>7
<1> QED BY <1>1, <1>2, <1>3, <1>8 DEF IsRun, RunsTo

\* CHOOSE takes a table that unfolds like h on the states it has; it is h.
Unfolds(iter, n, base, g, D, t) ==
  \A s \in SUBSET (1..n) :
    /\ s = {} => iter[s] = base
    /\ s # {} /\ iter[s \ {Max(s)}] \in D => iter[s] = g[<<iter[s \ {Max(s)}], t[Max(s)]>>]

LEMMA UnfoldsRuns ==
  ASSUME NEW n \in Nat, NEW D, NEW base \in D, NEW E, NEW t, \A i \in 1..n : t[i] \in E,
         NEW g \in [D \X E -> D], NEW iter, Unfolds(iter, n, base, g, D, t)
  PROVE  RunsTo(n, D, base, g, t, iter[1..n])
<1>0. PICK h \in [SUBSET (1..n) -> D] : IsTable(h, n, base, g, t)
  BY TableExists
<1> DEFINE Same(m) == \A s \in SUBSET (1..m) : iter[s] = h[s]
           P == {m \in Nat : m <= n => Same(m)}
<1>1. 0 \in P
  <2>1. \A s \in SUBSET (1..0) : s = {} /\ s \in SUBSET (1..n)
    OBVIOUS
  <2>2. Same(0)
    BY <1>0, <2>1 DEF Unfolds, IsTable
  <2> HIDE DEF Same
  <2> QED BY <2>2
<1>2. ASSUME NEW m \in Nat, m \in P PROVE m + 1 \in P
  <2> HIDE DEF Same
  <2> SUFFICES ASSUME m + 1 <= n PROVE Same(m + 1)
    OBVIOUS
  <2>1. Same(m)
    BY <1>2
  <2> HIDE DEF P
  <2>2. ASSUME NEW s \in SUBSET (1..(m + 1)) PROVE iter[s] = h[s]
    <3>1. s \in SUBSET (1..n)
      OBVIOUS
    <3>2. CASE s = {}
      BY <1>0, <3>1, <3>2 DEF Unfolds, IsTable
    <3>3. CASE s # {}
      <4>0. m + 1 \in Nat
        OBVIOUS
      <4>1. Max(s) \in s /\ \A y \in s : Max(s) >= y
        BY <3>3, <4>0, GreatestNumber
      <4>2. \A y \in s : y \in 1..(m + 1) /\ (y # Max(s) => y \in 1..m)
        <5>1. Max(s) \in 1..(m + 1)
          BY <4>1
        <5> QED BY <4>1, <5>1
      <4>3. s \ {Max(s)} \in SUBSET (1..m) /\ s \ {Max(s)} \in SUBSET (1..n)
        BY <3>1, <4>2
      <4>4. iter[s \ {Max(s)}] = h[s \ {Max(s)}] /\ h[s \ {Max(s)}] \in D
        BY <2>1, <4>3 DEF Same
      <4>5. h[s] = g[<<h[s \ {Max(s)}], t[Max(s)]>>]
        BY <1>0, <3>1, <3>3 DEF IsTable
      <4>6. iter[s] = g[<<iter[s \ {Max(s)}], t[Max(s)]>>]
        BY <3>1, <3>3, <4>4 DEF Unfolds
      <4> QED BY <4>4, <4>5, <4>6
    <3> QED BY <3>2, <3>3
  <2> QED BY <2>2 DEF Same
<1> HIDE DEF P
<1>3. \A m \in Nat : m \in P
  BY <1>1, <1>2, NatSetInduction
<1>4. Same(n)
  <2> HIDE DEF Same
  <2> QED BY <1>3 DEF P
<1>5. iter[1..n] = h[1..n]
  <2>1. 1..n \in SUBSET (1..n)
    OBVIOUS
  <2> QED BY <1>4, <2>1
<1>6. RunsTo(n, D, base, g, t, h[1..n])
  BY <1>0, FoldRuns
<1> QED BY <1>5, <1>6

\* A run is determined by its sequence, so that one over a longer sequence
\* takes one more step from where the shorter one ended.
LEMMA RunAppends ==
  ASSUME NEW n \in Nat, NEW D, NEW base, NEW g, NEW s, NEW t,
         \A i \in 1..n : t[i] = s[i],
         NEW v, RunsTo(n, D, base, g, s, v), NEW w, RunsTo(n + 1, D, base, g, t, w)
  PROVE  v \in D /\ w = g[<<v, t[n + 1]>>]
<1>1. PICK a \in [0..n -> D] : IsRun(a, n, base, g, s) /\ a[n] = v
  BY DEF RunsTo
<1>2. PICK b \in [0..(n + 1) -> D] : IsRun(b, n + 1, base, g, t) /\ b[n + 1] = w
  BY DEF RunsTo
<1> DEFINE P == {k \in Nat : k <= n => a[k] = b[k]}
<1>3. 0 \in P
  BY <1>1, <1>2 DEF IsRun
<1>4. ASSUME NEW k \in Nat, k \in P PROVE k + 1 \in P
  <2> SUFFICES ASSUME k + 1 <= n PROVE a[k + 1] = b[k + 1]
    OBVIOUS
  <2>1. k + 1 \in 1..n /\ k + 1 \in 1..(n + 1) /\ (k + 1) - 1 = k /\ a[k] = b[k]
    BY <1>4
  <2>2. a[k + 1] = g[<<a[k], s[k + 1]>>] /\ b[k + 1] = g[<<b[k], t[k + 1]>>]
    BY <1>1, <1>2, <2>1 DEF IsRun
  <2> QED BY <2>1, <2>2
<1> HIDE DEF P
<1>5. \A k \in Nat : k \in P
  BY <1>3, <1>4, NatSetInduction
<1>6. a[n] = b[n]
  BY <1>5 DEF P
<1>7. n + 1 \in 1..(n + 1) /\ (n + 1) - 1 = n /\ n \in 0..n
  OBVIOUS
<1>8. b[n + 1] = g[<<b[n], t[n + 1]>>]
  BY <1>2, <1>7 DEF IsRun
<1> QED BY <1>1, <1>2, <1>6, <1>7, <1>8

(***************************************************************************)
(* FlattenSeq is such a run: each sequence is appended to what came before.*)
(***************************************************************************)
Concat(S) == [p \in Seq(S) \X Seq(S) |-> p[1] \o p[2]]

LEMMA ConcatMaps ==
  ASSUME NEW S
  PROVE  /\ Concat(S) \in [Seq(S) \X Seq(S) -> Seq(S)]
         /\ \A a, b \in Seq(S) : Concat(S)[<<a, b>>] = a \o b
<1>1. \A p \in Seq(S) \X Seq(S) : p[1] \o p[2] \in Seq(S)
  <2> SUFFICES ASSUME NEW p \in Seq(S) \X Seq(S) PROVE p[1] \o p[2] \in Seq(S)
    OBVIOUS
  <2>1. p[1] \in Seq(S) /\ p[2] \in Seq(S)
    OBVIOUS
  <2> QED BY <2>1, ConcatProperties
<1>2. Concat(S) \in [Seq(S) \X Seq(S) -> Seq(S)]
  BY <1>1 DEF Concat
<1>3. \A a, b \in Seq(S) : Concat(S)[<<a, b>>] = a \o b
  BY DEF Concat
<1> QED BY <1>2, <1>3

LEMMA FlattenRuns ==
  ASSUME NEW S, NEW q \in Seq(Seq(S))
  PROVE  RunsTo(Len(q), Seq(S), <<>>, Concat(S), q, FlattenSeq(q))
<1> DEFINE n == Len(q)
           g == Concat(S)
           D == Seq(S)
           Flat(f) == f = [i \in 1..n |-> IF i = 1 THEN q[i] ELSE f[i - 1] \o q[i]]
           flat == CHOOSE f : Flat(f)
<1>1. n \in Nat /\ (\A i \in 1..n : q[i] \in D) /\ <<>> \in D /\ \A s \in D : <<>> \o s = s
  OBVIOUS
<1>2. g \in [D \X D -> D] /\ \A a, b \in D : g[<<a, b>>] = a \o b
  BY ConcatMaps
<1>3. FlattenSeq(q) = IF n = 0 THEN q ELSE flat[n]
  BY DEF FlattenSeq
<1> HIDE DEF g
<1>4. PICK h \in [SUBSET (1..n) -> D] : IsTable(h, n, <<>>, g, q)
  BY <1>1, <1>2, TableExists
<1>5. RunsTo(n, D, <<>>, g, q, h[1..n])
  BY <1>1, <1>2, <1>4, FoldRuns
<1> HIDE DEF n, D
<1>6. PICK run \in [0..n -> D] : IsRun(run, n, <<>>, g, q)
  BY <1>5 DEF RunsTo
<1>7. \A k \in 1..n : k - 1 \in 0..n /\ k \in 0..n /\ run[k - 1] \in D
                      /\ run[k] = run[k - 1] \o q[k] /\ run[0] = <<>> /\ 0 \in 0..n
  <2> HIDE DEF g
  <2> SUFFICES ASSUME NEW k \in 1..n
               PROVE  k - 1 \in 0..n /\ k \in 0..n /\ run[k - 1] \in D
                      /\ run[k] = run[k - 1] \o q[k] /\ run[0] = <<>> /\ 0 \in 0..n
    OBVIOUS
  <2>1. k - 1 \in 0..n /\ k \in 0..n /\ 0 \in 0..n
    BY <1>1
  <2>2. run[k - 1] \in D /\ q[k] \in D
    BY <1>1, <2>1
  <2>3. run[k] = g[<<run[k - 1], q[k]>>] /\ run[0] = <<>>
    BY <1>6 DEF IsRun
  <2> QED BY <1>2, <2>1, <2>2, <2>3
<1> DEFINE f == [i \in 1..n |-> run[i]]
<1>8. Flat(f)
  <2>1. ASSUME NEW i \in 1..n PROVE f[i] = IF i = 1 THEN q[i] ELSE f[i - 1] \o q[i]
    <3>1. CASE i = 1
      <4>0. 1 \in 1..n /\ 1 - 1 = 0
        BY <3>1
      <4>1. run[1] = run[1 - 1] \o q[1] /\ run[0] = <<>> /\ q[1] \in D
        BY <1>1, <1>7, <4>0
      <4>2. run[1] = q[1]
        BY <1>1, <4>0, <4>1
      <4> QED BY <3>1, <4>2
    <3>2. CASE i # 1
      <4>1. i - 1 \in 1..n
        BY <1>1, <3>2
      <4> QED BY <1>7, <3>2, <4>1
    <3> QED BY <3>1, <3>2
  <2>2. f = [i \in 1..n |-> f[i]]
    OBVIOUS
  <2> HIDE DEF f
  <2> QED BY <2>1, <2>2
<1>9. Flat(flat)
  <2> HIDE DEF Flat, f
  <2> QED BY <1>8
<1> HIDE DEF f, flat
<1>10. \A i \in 1..n : flat[i] = IF i = 1 THEN q[i] ELSE flat[i - 1] \o q[i]
  BY <1>9, Zenon
<1> HIDE DEF Flat
<1> DEFINE P == {k \in Nat : 1 <= k /\ k <= n => flat[k] = run[k]}
<1>11. 0 \in P
  OBVIOUS
<1>12. ASSUME NEW k \in Nat, k \in P PROVE k + 1 \in P
  <2> SUFFICES ASSUME k + 1 <= n PROVE flat[k + 1] = run[k + 1]
    OBVIOUS
  <2>1. k + 1 \in 1..n /\ (k + 1) - 1 = k
    BY <1>1
  <2>2. run[k + 1] = run[k] \o q[k + 1] /\ run[0] = <<>> /\ q[k + 1] \in D
    BY <1>1, <1>7, <2>1
  <2>3. flat[k + 1] = IF k + 1 = 1 THEN q[k + 1] ELSE flat[k] \o q[k + 1]
    BY <1>10, <2>1
  <2>4. CASE k = 0
    <3>1. run[k + 1] = q[k + 1]
      BY <1>1, <2>2, <2>4
    <3>2. flat[k + 1] = q[k + 1]
      BY <2>3, <2>4
    <3> QED BY <3>1, <3>2
  <2>5. CASE k # 0
    <3>0. 1 <= k /\ k <= n /\ k + 1 # 1
      BY <1>1, <2>5
    <3>1. flat[k] = run[k]
      BY <1>12, <3>0
    <3>2. flat[k + 1] = flat[k] \o q[k + 1]
      BY <2>3, <3>0
    <3> QED BY <2>2, <3>1, <3>2
  <2> QED BY <2>4, <2>5
<1> HIDE DEF P
<1>13. \A k \in Nat : k \in P
  BY <1>11, <1>12, NatSetInduction
<1>14. run[n] = FlattenSeq(q)
  <2>1. CASE n = 0
    <3>1. q = <<>>
      BY <2>1 DEF n
    <3> QED BY <1>3, <1>6, <2>1, <3>1 DEF IsRun
  <2>2. CASE n # 0
    <3>1. flat[n] = run[n]
      BY <1>1, <1>13, <2>2 DEF P
    <3> QED BY <1>3, <2>2, <3>1
  <2> QED BY <2>1, <2>2
<1>15. RunsTo(n, D, <<>>, g, q, FlattenSeq(q))
  BY <1>6, <1>14 DEF RunsTo
<1> QED BY <1>15 DEF n, D, g

LEMMA FlattenAppend ==
  ASSUME NEW S, NEW q \in Seq(Seq(S)), NEW s \in Seq(S)
  PROVE  /\ FlattenSeq(q) \in Seq(S)
         /\ FlattenSeq(Append(q, s)) = FlattenSeq(q) \o s
<1> DEFINE t == Append(q, s)
           g == Concat(S)
           v == FlattenSeq(q)
           w == FlattenSeq(t)
           n == Len(q)
<1>1. /\ t \in Seq(Seq(S)) /\ n \in Nat /\ Len(t) = n + 1 /\ t[n + 1] = s
      /\ \A i \in 1..n : t[i] = q[i]
  OBVIOUS
<1>2. \A a, b \in Seq(S) : g[<<a, b>>] = a \o b
  BY ConcatMaps
<1> HIDE DEF t
<1>3. RunsTo(n, Seq(S), <<>>, g, q, v) /\ RunsTo(n + 1, Seq(S), <<>>, g, t, w)
  <2>1. RunsTo(n, Seq(S), <<>>, g, q, v)
    BY FlattenRuns
  <2>2. RunsTo(Len(t), Seq(S), <<>>, g, t, w)
    BY <1>1, FlattenRuns
  <2> HIDE DEF g, v, w
  <2> QED BY <1>1, <2>1, <2>2
<1> HIDE DEF g, v, w, n
<1>4. v \in Seq(S) /\ w = g[<<v, t[n + 1]>>]
  <2>1. n \in Nat /\ \A i \in 1..n : t[i] = q[i]
    BY <1>1
  <2> QED BY <1>3, <2>1, RunAppends, SMTT(40)
<1>5. w = v \o s
  BY <1>1, <1>2, <1>4
<1> QED BY <1>4, <1>5 DEF v, w, t

(***************************************************************************)
(* Sums over finite sets.                                                  *)
(***************************************************************************)
\* Induction over the finite sets by their size.
LEMMA SetInduction ==
  ASSUME NEW S, IsFiniteSet(S), NEW P,
         {} \in P, \A t \in SUBSET S : t # {} /\ (\A x \in t : t \ {x} \in P) => t \in P
  PROVE  \A t \in SUBSET S : t \in P
<1> DEFINE N == {n \in Nat : \A t \in SUBSET S : Cardinality(t) = n => t \in P}
<1>1. \A t \in SUBSET S : IsFiniteSet(t) /\ Cardinality(t) \in Nat
  BY FS_Subset, FS_CardinalityType
<1>2. 0 \in N
  BY <1>1, FS_EmptySet
<1>3. ASSUME NEW n \in Nat, n \in N PROVE n + 1 \in N
  <2> SUFFICES ASSUME NEW t \in SUBSET S, Cardinality(t) = n + 1 PROVE t \in P
    OBVIOUS
  <2>1. t # {}
    BY FS_EmptySet
  <2>2. ASSUME NEW x \in t PROVE t \ {x} \in P
    <3>1. Cardinality(t \ {x}) = n
      BY <1>1, FS_RemoveElement
    <3> QED BY <1>3, <3>1
  <2> QED BY <2>1, <2>2
<1> HIDE DEF N
<1>4. \A n \in Nat : n \in N
  BY <1>2, <1>3, NatSetInduction
<1> QED BY <1>1, <1>4 DEF N

\* The table that a sum over S is computed in.
Some(t) == CHOOSE x \in t : TRUE
SumAt(h, f, t) == IF t = {} THEN 0 ELSE f[Some(t)] + h[t \ {Some(t)}]
TableOf(h, f, S) == h = [t \in SUBSET S |-> SumAt(h, f, t)]
IsSum(h, f, S) == \A t \in SUBSET S : h[t] = SumAt(h, f, t)

LEMMA SomeIn ==
  ASSUME NEW t, t # {}
  PROVE  Some(t) \in t
BY DEF Some

LEMMA SumTable ==
  ASSUME NEW S, IsFiniteSet(S), NEW f
  PROVE  \E h : TableOf(h, f, S)
<1> DEFINE Upto(n) == {t \in SUBSET S : Cardinality(t) <= n}
           Good(n, h) == h = [t \in SUBSET S |-> h[t]] /\ \A t \in Upto(n) : h[t] = SumAt(h, f, t)
           N == {n \in Nat : \E h : Good(n, h)}
<1>1. \A t \in SUBSET S : /\ IsFiniteSet(t) /\ Cardinality(t) \in Nat
                          /\ Cardinality(t) = 0 <=> t = {}
                          /\ \A x \in t : Cardinality(t \ {x}) = Cardinality(t) - 1
  BY FS_Subset, FS_CardinalityType, FS_EmptySet, FS_RemoveElement
<1>2. 0 \in N
  <2> DEFINE h == [t \in SUBSET S |-> 0]
  <2>1. Good(0, h)
    BY <1>1 DEF SumAt
  <2> HIDE DEF h, Good
  <2> QED BY <2>1
<1>3. ASSUME NEW n \in Nat, n \in N PROVE n + 1 \in N
  <2> HIDE DEF Good
  <2>1. PICK g : Good(n, g)
    BY <1>3
  <2> DEFINE h == [t \in SUBSET S |-> SumAt(g, f, t)]
  <2>2. ASSUME NEW t \in Upto(n + 1) PROVE h[t] = SumAt(h, f, t)
    <3>1. h[t] = SumAt(g, f, t)
      OBVIOUS
    <3>2. CASE t = {}
      BY <3>1, <3>2 DEF SumAt
    <3>3. CASE t # {}
      <4> DEFINE u == t \ {Some(t)}
      <4>1. u \in Upto(n)
        BY <1>1, <3>3, SomeIn
      <4>2. h[u] = SumAt(g, f, u) /\ g[u] = SumAt(g, f, u)
        BY <2>1, <4>1 DEF Good
      <4> HIDE DEF h
      <4> QED BY <3>1, <3>3, <4>2 DEF SumAt
    <3> QED BY <3>2, <3>3
  <2>3. h = [t \in SUBSET S |-> h[t]]
    OBVIOUS
  <2> HIDE DEF h
  <2>4. Good(n + 1, h)
    BY <2>2, <2>3 DEF Good
  <2> QED BY <2>4
<1> HIDE DEF N, Good
<1>4. \A n \in Nat : n \in N
  BY <1>2, <1>3, NatSetInduction
<1>5. Cardinality(S) \in Nat
  BY FS_CardinalityType
<1>6. PICK h : Good(Cardinality(S), h)
  BY <1>4, <1>5 DEF N
<1>7. \A t \in SUBSET S : Cardinality(t) <= Cardinality(S)
  BY FS_Subset
<1>8. h = [t \in SUBSET S |-> h[t]] /\ \A t \in SUBSET S : h[t] = SumAt(h, f, t)
  BY <1>6, <1>7 DEF Good
<1>9. TableOf(h, f, S)
  BY <1>8 DEF TableOf
<1> QED BY <1>9

LEMMA SumIsTable ==
  ASSUME NEW S, IsFiniteSet(S), NEW f
  PROVE  \E h : IsSum(h, f, S) /\ SumFunctionOnSet(f, S) = h[S]
<1> DEFINE Table(h) == h = [t \in SUBSET S |-> IF t = {} THEN 0
                              ELSE f[CHOOSE x \in t : TRUE] + h[t \ {CHOOSE x \in t : TRUE}]]
           iter == CHOOSE h : Table(h)
<1>1. SumFunctionOnSet(f, S) = iter[S]
  BY DEF SumFunctionOnSet, FoldFunctionOnSet, MapThenFoldSet
<1>2. PICK h : TableOf(h, f, S)
  BY SumTable
<1>3. Table(h)
  BY <1>2, Zenon DEF TableOf, SumAt, Some
<1>4. Table(iter)
  <2> HIDE DEF Table
  <2> QED BY <1>3
<1> HIDE DEF iter
<1>5. IsSum(iter, f, S)
  BY <1>4, Zenon DEF IsSum, SumAt, Some
<1> QED BY <1>1, <1>5

\* Two tables over sets that share T agree on it where their functions do.
LEMMA SumsAgree ==
  ASSUME NEW S, NEW R, NEW T, IsFiniteSet(T), T \subseteq S, T \subseteq R,
         NEW f, NEW g, \A x \in T : f[x] = g[x],
         NEW h, IsSum(h, f, S), NEW k, IsSum(k, g, R)
  PROVE  h[T] = k[T]
<1> DEFINE P == {t \in SUBSET T : h[t] = k[t]}
<1>1. ASSUME NEW t \in SUBSET T
      PROVE  h[t] = SumAt(h, f, t) /\ k[t] = SumAt(k, g, t)
  BY DEF IsSum
<1>2. {} \in P
  <2>1. {} \in SUBSET T
    OBVIOUS
  <2>2. h[{}] = 0 /\ k[{}] = 0
    BY <1>1, <2>1 DEF SumAt
  <2> QED BY <2>1, <2>2
<1>3. ASSUME NEW t \in SUBSET T, t # {}, \A x \in t : t \ {x} \in P
      PROVE  t \in P
  <2>1. Some(t) \in t
    BY <1>3, SomeIn
  <2>2. h[t \ {Some(t)}] = k[t \ {Some(t)}] /\ f[Some(t)] = g[Some(t)]
    BY <1>3, <2>1
  <2> QED BY <1>1, <1>3, <2>2 DEF SumAt
<1> HIDE DEF P
<1>4. \A t \in SUBSET T : t \in P
  BY <1>2, <1>3, SetInduction
<1> QED BY <1>4 DEF P

\* It grows by an element's entry for the element, whichever Some takes first.
LEMMA SumGrows ==
  ASSUME NEW S, IsFiniteSet(S), NEW f, \A x \in S : f[x] \in Int, NEW h, IsSum(h, f, S)
  PROVE  \A t \in SUBSET S : h[t] \in Int /\ \A x \in t : h[t] = h[t \ {x}] + f[x]
<1> DEFINE P == {t \in SUBSET S : h[t] \in Int}
           Q == {t \in SUBSET S : \A x \in t : h[t] = h[t \ {x}] + f[x]}
<1>1. \A t \in SUBSET S : h[t] = SumAt(h, f, t)
  BY DEF IsSum
<1>2. {} \in P /\ {} \in Q
  <2>1. {} \in SUBSET S
    OBVIOUS
  <2>2. h[{}] = 0
    BY <1>1, <2>1 DEF SumAt
  <2> QED BY <2>1, <2>2
<1>3. ASSUME NEW t \in SUBSET S, t # {}, \A x \in t : t \ {x} \in P
      PROVE  t \in P
  <2>1. Some(t) \in t
    BY <1>3, SomeIn
  <2>2. h[t \ {Some(t)}] \in Int /\ f[Some(t)] \in Int
    BY <1>3, <2>1
  <2>3. h[t] = f[Some(t)] + h[t \ {Some(t)}]
    BY <1>1, <1>3 DEF SumAt
  <2> QED BY <2>2, <2>3
<1>4. \A t \in SUBSET S : t \in P
  <2> HIDE DEF P
  <2> QED BY <1>2, <1>3, SetInduction
<1>5. ASSUME NEW t \in SUBSET S, t # {}, \A x \in t : t \ {x} \in Q
      PROVE  t \in Q
  <2> DEFINE c == Some(t)
  <2>1. c \in t /\ h[t] = f[c] + h[t \ {c}]
    BY <1>1, <1>5, SomeIn DEF SumAt
  <2> HIDE DEF c
  <2>2. h[t \ {c}] \in Int /\ f[c] \in Int
    BY <1>4, <2>1
  <2>3. ASSUME NEW x \in t PROVE h[t] = h[t \ {x}] + f[x]
    <3>1. CASE x = c
      <4> HIDE DEF P, Q
      <4> QED BY <2>1, <2>2, <3>1
    <3>2. CASE x # c
      <4>1. x \in t \ {c} /\ c \in t \ {x}
        BY <2>1, <3>2
      <4>2. h[t \ {c}] = h[(t \ {c}) \ {x}] + f[x]
        BY <1>5, <2>1, <4>1
      <4>3. h[t \ {x}] = h[(t \ {x}) \ {c}] + f[c]
        BY <1>5, <4>1
      <4>4. (t \ {c}) \ {x} = (t \ {x}) \ {c}
        OBVIOUS
      <4>5. h[(t \ {x}) \ {c}] \in Int /\ f[x] \in Int
        BY <1>4
      <4> HIDE DEF P, Q
      <4>6. h[(t \ {c}) \ {x}] = h[(t \ {x}) \ {c}]
        BY <4>4
      <4>7. \A i, a, b \in Int : a + (i + b) = (i + a) + b
        OBVIOUS
      <4>8. h[t] = f[c] + (h[(t \ {x}) \ {c}] + f[x])
        BY <2>1, <4>2, <4>6
      <4>9. h[t] = (h[(t \ {x}) \ {c}] + f[c]) + f[x]
        BY <2>2, <4>5, <4>7, <4>8
      <4> QED BY <4>3, <4>9
    <3> QED BY <3>1, <3>2
  <2> QED BY <2>3
<1>6. \A t \in SUBSET S : t \in Q
  <2> HIDE DEF Q
  <2> QED BY <1>2, <1>5, SetInduction
<1> QED BY <1>4, <1>6

\* A sum is a number, and an entry that changes changes it by as much.
LEMMA SumType ==
  ASSUME NEW S, IsFiniteSet(S), NEW f \in [S -> Int]
  PROVE  SumFunction(f) \in Int
<1>1. PICK h : IsSum(h, f, S) /\ SumFunctionOnSet(f, S) = h[S]
  BY SumIsTable
<1>2. h[S] \in Int
  BY <1>1, SumGrows
<1>3. DOMAIN f = S
  OBVIOUS
<1> QED BY <1>1, <1>2, <1>3 DEF SumFunction

LEMMA SumSplits ==
  ASSUME NEW S, IsFiniteSet(S), NEW f \in [S -> Int], NEW x \in S
  PROVE  \E h : /\ IsSum(h, f, S) /\ SumFunction(f) = h[S]
                /\ h[S] = h[S \ {x}] + f[x] /\ h[S \ {x}] \in Int
<1>1. PICK h : IsSum(h, f, S) /\ SumFunctionOnSet(f, S) = h[S]
  BY SumIsTable
<1>2. IsSum(h, f, S) /\ \A y \in S : f[y] \in Int
  BY <1>1
<1>3. \A t \in SUBSET S : h[t] \in Int /\ \A y \in t : h[t] = h[t \ {y}] + f[y]
  BY <1>2, SumGrows
<1>4. S \in SUBSET S /\ S \ {x} \in SUBSET S /\ DOMAIN f = S
  OBVIOUS
<1>5. h[S] = h[S \ {x}] + f[x] /\ h[S \ {x}] \in Int
  BY <1>3, <1>4
<1> QED BY <1>1, <1>4, <1>5 DEF SumFunction

LEMMA SumChanges ==
  ASSUME NEW S, IsFiniteSet(S), NEW f \in [S -> Int], NEW g \in [S -> Int],
         NEW x \in S, \A y \in S \ {x} : g[y] = f[y]
  PROVE  SumFunction(g) = SumFunction(f) - f[x] + g[x]
<1>1. PICK h : /\ IsSum(h, f, S) /\ SumFunction(f) = h[S]
               /\ h[S] = h[S \ {x}] + f[x] /\ h[S \ {x}] \in Int
  BY SumSplits
<1>2. PICK k : /\ IsSum(k, g, S) /\ SumFunction(g) = k[S]
               /\ k[S] = k[S \ {x}] + g[x] /\ k[S \ {x}] \in Int
  BY SumSplits
<1>5. h[S \ {x}] = k[S \ {x}]
  <2> DEFINE T == S \ {x}
  <2>1. IsFiniteSet(T) /\ T \subseteq S /\ \A y \in T : f[y] = g[y]
    BY FS_Subset
  <2> HIDE DEF T
  <2>2. IsSum(h, f, S) /\ IsSum(k, g, S)
    BY <1>1, <1>2
  <2>3. h[T] = k[T]
    BY <2>1, <2>2, SumsAgree
  <2> QED BY <2>3 DEF T
<1>6. f[x] \in Int /\ g[x] \in Int
  OBVIOUS
<1> QED BY <1>1, <1>2, <1>5, <1>6

LEMMA SumOfZeros ==
  ASSUME NEW S, IsFiniteSet(S), NEW f \in [S -> Int], \A x \in S : f[x] = 0
  PROVE  SumFunction(f) = 0
<1>1. PICK h : IsSum(h, f, S) /\ SumFunctionOnSet(f, S) = h[S]
  BY SumIsTable
<1>2. \A t \in SUBSET S : h[t] \in Int /\ \A x \in t : h[t] = h[t \ {x}] + f[x]
  <2>1. IsSum(h, f, S) /\ \A x \in S : f[x] \in Int
    BY <1>1
  <2> QED BY <2>1, SumGrows
<1> DEFINE P == {t \in SUBSET S : h[t] = 0}
<1>3. {} \in P
  BY <1>1 DEF IsSum, SumAt
<1>4. ASSUME NEW t \in SUBSET S, t # {}, \A x \in t : t \ {x} \in P
      PROVE  t \in P
  <2>1. PICK x \in t : TRUE
    BY <1>4
  <2>2. h[t] = h[t \ {x}] + f[x] /\ h[t \ {x}] = 0 /\ f[x] = 0
    BY <1>2, <1>4, <2>1
  <2> QED BY <2>2
<1> HIDE DEF P
<1>5. \A t \in SUBSET S : t \in P
  BY <1>3, <1>4, SetInduction
<1>6. h[S] = 0 /\ DOMAIN f = S
  BY <1>5 DEF P
<1> QED BY <1>1, <1>6 DEF SumFunction
=============================================================================
