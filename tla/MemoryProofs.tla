---------------------------- MODULE MemoryProofs ----------------------------
(***************************************************************************)
(* Theorems about memory.  ConfigShared: the arena that threads share, for *)
(* any number of threads, releases, blocks and failed allocations.         *)
(* ValueLife: the blocks of values and arrays, for any resources, values,  *)
(* arrays, elements and levels of nesting.                                 *)
(***************************************************************************)
EXTENDS ConfigShared, ValueLife, Induction

(***************************************************************************)
(* ConfigShared.                                                           *)
(*                                                                         *)
(* The inductive invariant.                                                *)
(***************************************************************************)
\* The blocks that threads hold, each as a pair of its thread and a number.
HeldBlocks(h) == {b \in Threads \X Nat : 1 <= b[2] /\ b[2] <= h[b[1]]}

Types ==
  /\ exclusive \in BOOLEAN /\ storage \in {"Pooled", "Arena"}
  /\ arena \in Nat \ {0} /\ cached \in Nat
  /\ writer \in BOOLEAN /\ readers \subseteq Threads
  /\ pc \in [Threads -> {"idle", "wait", "read", "store", "have"}]
  /\ ptr \in [Threads -> Nat] /\ held \in [Threads -> Nat]
  /\ count \in Int /\ failures \in Nat
  /\ control \in {"idle", "clear", "check", "rebuild"}
  /\ stale \in BOOLEAN /\ aborted \in BOOLEAN

\* The lock is held exclusively exactly while a release is under way, shared
\* exactly by the threads between LockShared and StoreCache, and never both
\* ways: the arena such a thread has read is still the arena.
Locking ==
  /\ writer <=> control # "idle"
  /\ writer => readers = {}
  /\ \A t \in Threads : /\ pc[t] \in {"read", "store"} <=> t \in readers
                        /\ pc[t] = "store" => ptr[t] = arena

\* The cache is never behind, and it is empty from Invalidate to Rebuild.
Cache ==
  /\ cached \in {0, arena}
  /\ control \in {"check", "rebuild"} => cached = 0

\* Under the contract a release meets no thread, and a thread that has the
\* resource has the current one.
Contract ==
  /\ \A t \in Threads : pc[t] # "have" => held[t] = 0
  /\ exclusive =>
       /\ control # "idle" => Quiescent
       /\ \A t \in Threads : pc[t] = "have" => ptr[t] = arena
       /\ ~stale

\* As long as no allocation has thrown, the arena's count is the number of
\* blocks the threads hold.
Counting ==
  exclusive /\ failures = 0 =>
    /\ IsFiniteSet(HeldBlocks(held)) /\ count = Cardinality(HeldBlocks(held))
    /\ ~aborted

Inv == Types /\ Locking /\ Cache /\ Contract /\ Counting

(***************************************************************************)
(* Counting blocks.                                                        *)
(***************************************************************************)
\* A block more is one element more.
LEMMA OneBlockMore ==
  ASSUME NEW h \in [Threads -> Nat], NEW t \in Threads, IsFiniteSet(HeldBlocks(h)),
         NEW g, g = [h EXCEPT ![t] = @ + 1]
  PROVE  IsFiniteSet(HeldBlocks(g)) /\ Cardinality(HeldBlocks(g)) = Cardinality(HeldBlocks(h)) + 1
<1> DEFINE b == <<t, h[t] + 1>>
<1>1. HeldBlocks(g) = HeldBlocks(h) \union {b}
  BY DEF HeldBlocks
<1>2. b \notin HeldBlocks(h)
  BY DEF HeldBlocks
<1> HIDE DEF b
<1>3. /\ IsFiniteSet(HeldBlocks(h) \union {b})
      /\ Cardinality(HeldBlocks(h) \union {b}) = Cardinality(HeldBlocks(h)) + 1
  BY <1>2, FS_AddElement
<1> QED BY <1>1, <1>3

\* A block less is one element less.
LEMMA OneBlockLess ==
  ASSUME NEW h \in [Threads -> Nat], NEW t \in Threads, h[t] > 0, IsFiniteSet(HeldBlocks(h)),
         NEW g, g = [h EXCEPT ![t] = @ - 1]
  PROVE  IsFiniteSet(HeldBlocks(g)) /\ Cardinality(HeldBlocks(g)) = Cardinality(HeldBlocks(h)) - 1
<1> DEFINE b == <<t, h[t]>>
<1>1. HeldBlocks(g) = HeldBlocks(h) \ {b}
  BY DEF HeldBlocks
<1>2. b \in HeldBlocks(h)
  BY DEF HeldBlocks
<1> HIDE DEF b
<1> QED BY <1>1, <1>2, FS_RemoveElement

\* No thread holds a block, no block is held.
LEMMA NoBlocks ==
  ASSUME NEW h \in [Threads -> Nat], \A t \in Threads : h[t] = 0
  PROVE  IsFiniteSet(HeldBlocks(h)) /\ Cardinality(HeldBlocks(h)) = 0
<1>1. HeldBlocks(h) = {}
  BY DEF HeldBlocks
<1> QED BY <1>1, FS_EmptySet

(***************************************************************************)
(* The invariant is kept.                                                  *)
(***************************************************************************)
LEMMA InitInv == Init => Inv
<1> SUFFICES ASSUME Init PROVE Inv
  OBVIOUS
<1>1. Types
  <2>1. /\ pc \in [Threads -> {"idle", "wait", "read", "store", "have"}]
        /\ ptr \in [Threads -> Nat] /\ held \in [Threads -> Nat]
    BY DEF Init
  <2>2. /\ exclusive \in BOOLEAN /\ storage \in {"Pooled", "Arena"}
        /\ arena \in Nat \ {0} /\ cached \in Nat /\ readers \subseteq Threads
        /\ count \in Int /\ failures \in Nat
        /\ control \in {"idle", "clear", "check", "rebuild"}
    BY DEF Init
  <2>3. writer \in BOOLEAN /\ stale \in BOOLEAN /\ aborted \in BOOLEAN
    BY DEF Init
  <2> QED BY <2>1, <2>2, <2>3 DEF Types
<1>2. Locking /\ Cache
  BY DEF Init, Locking, Cache
<1>3. Contract
  BY DEF Init, Contract
<1>4. Counting
  BY <1>1, NoBlocks DEF Init, Counting, Types
<1> QED BY <1>1, <1>2, <1>3, <1>4 DEF Inv

\* Steps of a thread around resource() do not touch blocks or counts.
LEMMA ResourceInv ==
  ASSUME Inv, NEW t \in Threads,
         Load(t) \/ LockShared(t) \/ ReadGlobal(t) \/ StoreCache(t) \/ Forget(t)
  PROVE  Inv'
<1>1. CASE Load(t)
  BY <1>1 DEF Inv, Load, Types, Locking, Cache, Contract, Counting, Quiescent, knobs, lock, tally
<1>2. CASE LockShared(t)
  BY <1>2 DEF Inv, LockShared, Types, Locking, Cache, Contract, Counting, Quiescent, knobs, tally
<1>3. CASE ReadGlobal(t)
  BY <1>3 DEF Inv, ReadGlobal, Types, Locking, Cache, Contract, Counting, Quiescent, knobs, lock, tally
<1>4. CASE StoreCache(t)
  BY <1>4 DEF Inv, StoreCache, Types, Locking, Cache, Contract, Counting, Quiescent, knobs, tally
<1>5. CASE Forget(t)
  BY <1>5 DEF Inv, Forget, Types, Locking, Cache, Contract, Counting, Quiescent, knobs, lock, tally
<1> QED BY <1>1, <1>2, <1>3, <1>4, <1>5

LEMMA AllocateInv ==
  ASSUME Inv, NEW t \in Threads, Allocate(t)
  PROVE  Inv'
<1>1. Types' /\ Locking' /\ Cache' /\ Contract'
  BY DEF Inv, Allocate, Count, Uses, Types, Locking, Cache, Contract, Quiescent, knobs, lock
<1>2. ASSUME exclusive', failures' = 0
      PROVE  IsFiniteSet(HeldBlocks(held')) /\ count' = Cardinality(HeldBlocks(held')) /\ ~aborted'
  <2>1. exclusive /\ failures = 0 /\ ptr[t] = arena
    BY <1>2 DEF Inv, Allocate, Types, Contract, knobs
  <2>2. held' = [held EXCEPT ![t] = @ + 1] /\ count' = count + 1 /\ UNCHANGED aborted
    BY <1>2, <2>1 DEF Allocate, Count, Inv, Types
  <2> QED BY <2>1, <2>2, OneBlockMore DEF Inv, Types, Counting
<1> QED BY <1>1, <1>2 DEF Inv, Counting

LEMMA DeallocateInv ==
  ASSUME Inv, NEW t \in Threads, Deallocate(t)
  PROVE  Inv'
<1>1. Types' /\ Locking' /\ Cache' /\ Contract'
  BY DEF Inv, Deallocate, Uncount, Uses, Types, Locking, Cache, Contract, Quiescent, knobs, lock
<1>2. ASSUME exclusive', failures' = 0
      PROVE  IsFiniteSet(HeldBlocks(held')) /\ count' = Cardinality(HeldBlocks(held')) /\ ~aborted'
  <2>1. exclusive /\ failures = 0 /\ ptr[t] = arena /\ held[t] > 0
    BY <1>2 DEF Inv, Deallocate, Types, Contract, knobs
  <2>2. held' = [held EXCEPT ![t] = @ - 1] /\ count' = count - 1 /\ UNCHANGED aborted
    BY <1>2, <2>1 DEF Deallocate, Uncount, Inv, Types
  <2> QED BY <2>1, <2>2, OneBlockLess DEF Inv, Types, Counting
<1> QED BY <1>1, <1>2 DEF Inv, Counting

LEMMA ControlInv ==
  ASSUME Inv, Configure \/ Begin \/ Invalidate
  PROVE  Inv'
<1>1. CASE Configure
  BY <1>1 DEF Inv, Configure, Types, Locking, Cache, Contract, Counting, Quiescent, lock, thread, tally
<1>2. CASE Begin
  BY <1>2 DEF Inv, Begin, Types, Locking, Cache, Contract, Counting, Quiescent, thread, tally
<1>3. CASE Invalidate
  BY <1>3 DEF Inv, Invalidate, Types, Locking, Cache, Contract, Counting, Quiescent, knobs, lock, thread, tally
<1> QED BY <1>1, <1>2, <1>3

\* While a release is under way no block is held, if the contract is kept.
LEMMA NothingHeld ==
  ASSUME Inv, control # "idle", exclusive, failures = 0
  PROVE  count = 0
<1>1. \A t \in Threads : held[t] = 0
  BY DEF Inv, Contract, Quiescent, Types
<1> QED BY <1>1, NoBlocks DEF Inv, Types, Counting

LEMMA CheckInv ==
  ASSUME Inv, Check
  PROVE  Inv'
<1>1. (aborted \/ count # 0) \in BOOLEAN
  OBVIOUS
<1>2. Types'
  BY <1>1 DEF Inv, Check, Types, knobs, lock, thread, tally
<1>3. Locking' /\ Cache' /\ Contract'
  BY DEF Inv, Check, Types, Locking, Cache, Contract, Quiescent, knobs, lock, thread, tally
<1>4. Counting'
  BY NothingHeld DEF Inv, Check, Types, Counting, knobs, thread, tally
<1> QED BY <1>2, <1>3, <1>4 DEF Inv

LEMMA RebuildInv ==
  ASSUME Inv, Rebuild
  PROVE  Inv'
<1>1. Types'
  <2>1. writer' \in BOOLEAN
    BY DEF Rebuild
  <2>2. arena' \in Nat \ {0} /\ count' \in Int
    BY DEF Inv, Rebuild, Types
  <2> QED BY <2>1, <2>2 DEF Inv, Rebuild, Types, knobs, thread
<1>2. Locking' /\ Cache'
  BY DEF Inv, Rebuild, Types, Locking, Cache, knobs, thread
<1>3. Contract'
  BY DEF Inv, Rebuild, Types, Contract, Quiescent, knobs, thread
<1>4. Counting'
  BY NothingHeld DEF Inv, Rebuild, Types, Counting, knobs, thread
<1> QED BY <1>1, <1>2, <1>3, <1>4 DEF Inv

LEMMA StepInv == Inv /\ [Next]_vars => Inv'
<1> SUFFICES ASSUME Inv, [Next]_vars PROVE Inv'
  OBVIOUS
<1>1. ASSUME NEW t \in Threads,
             \/ Load(t) \/ LockShared(t) \/ ReadGlobal(t) \/ StoreCache(t)
             \/ Allocate(t) \/ Deallocate(t) \/ Forget(t)
      PROVE  Inv'
  BY <1>1, ResourceInv, AllocateInv, DeallocateInv
<1>2. CASE Configure \/ Begin \/ Invalidate \/ Check \/ Rebuild
  BY <1>2, ControlInv, CheckInv, RebuildInv
<1>3. CASE UNCHANGED vars
  BY <1>3 DEF Inv, Types, Locking, Cache, Contract, Counting, Quiescent,
              vars, knobs, lock, thread, tally
<1> QED BY <1>1, <1>2, <1>3 DEF Next

\* What ConfigShared does is described by the invariant.
THEOREM SharedInvariant == Spec => []Inv
BY InitInv, StepInv, PTL DEF Spec

(***************************************************************************)
(* The properties.                                                         *)
(***************************************************************************)
\* Whatever number of threads read the cache while others release: outside a
\* release the cached pointer is null or the current arena (config.cpp 58-71,
\* 90-99).
THEOREM CacheStaysCurrent == Spec => []CacheCurrent
<1>1. Inv => CacheCurrent
  BY DEF Inv, Cache, CacheCurrent
<1> QED BY <1>1, SharedInvariant, PTL

\* The contract of release() (config.hpp 34-45) is enough: no thread uses an
\* arena that is gone, and unless an allocation has thrown the assertion of
\* release_locked holds, for any number of threads and blocks.
THEOREM ContractIsEnough == Spec => []ContractSuffices
<1>1. Inv => ContractSuffices
  BY DEF Inv, Contract, Counting, ContractSuffices, NoStaleUse, AssertFiresOnlyAfterThrow, AssertHolds
<1> QED BY <1>1, SharedInvariant, PTL

(***************************************************************************)
(* ValueLife.                                                              *)
(*                                                                         *)
(* The values of each number of levels, and the recursive functions over   *)
(* them: each exists, since a table that is right on the values of n levels*)
(* gives one that is right on those of n + 1.                              *)
(***************************************************************************)
TreesAt(trees, n) == IF n = 0 THEN {} ELSE ValuesOver(Seq(trees[n - 1]))

LEMMA TreesExist ==
  \E trees : trees = [n \in 0..MaxNesting |-> TreesAt(trees, n)]
<1> DEFINE Good(k, t) == t = [n \in 0..MaxNesting |-> t[n]]
                         /\ \A n \in 0..MaxNesting : n <= k => t[n] = TreesAt(t, n)
           N == {k \in Nat : \E t : Good(k, t)}
<1>0. MaxNesting \in Nat
  BY ValueLifeAssumption
<1>1. 0 \in N
  <2> DEFINE t == [n \in 0..MaxNesting |-> {}]
  <2>1. Good(0, t)
    BY <1>0 DEF TreesAt
  <2> HIDE DEF t, Good
  <2> QED BY <2>1
<1>2. ASSUME NEW k \in Nat, k \in N PROVE k + 1 \in N
  <2> HIDE DEF Good
  <2>1. PICK t : Good(k, t)
    BY <1>2
  <2> DEFINE u == [n \in 0..MaxNesting |-> TreesAt(t, n)]
  <2>2. ASSUME NEW n \in 0..MaxNesting, n <= k + 1 PROVE u[n] = TreesAt(u, n)
    <3>1. CASE n = 0
      BY <3>1 DEF TreesAt
    <3>2. CASE n # 0
      <4>1. n - 1 \in 0..MaxNesting /\ n - 1 <= k
        BY <1>0, <2>2, <3>2
      <4>2. t[n - 1] = TreesAt(t, n - 1)
        BY <2>1, <4>1 DEF Good
      <4>3. u[n - 1] = t[n - 1]
        BY <4>1, <4>2
      <4>4. u[n] = TreesAt(t, n)
        OBVIOUS
      <4> HIDE DEF u
      <4> QED BY <3>2, <4>3, <4>4 DEF TreesAt
    <3> QED BY <3>1, <3>2
  <2>3. u = [n \in 0..MaxNesting |-> u[n]]
    OBVIOUS
  <2> HIDE DEF u
  <2>4. Good(k + 1, u)
    BY <2>2, <2>3 DEF Good
  <2> QED BY <2>4
<1> HIDE DEF N, Good
<1>3. \A k \in Nat : k \in N
  BY <1>1, <1>2, NatSetInduction
<1>4. PICK t : Good(MaxNesting, t)
  BY <1>0, <1>3 DEF N
<1>5. t = [n \in 0..MaxNesting |-> t[n]] /\ \A n \in 0..MaxNesting : t[n] = TreesAt(t, n)
  BY <1>0, <1>4 DEF Good
<1>6. t = [n \in 0..MaxNesting |-> TreesAt(t, n)]
  BY <1>5
<1> QED BY <1>6, Zenon

LEMMA TreesUnfold ==
  /\ MaxNesting \in Nat \ {0} /\ AllTrees = Trees[MaxNesting] /\ Trees[0] = {}
  /\ \A n \in 0..MaxNesting : n # 0 => Trees[n] = ValuesOver(Seq(Trees[n - 1]))
<1> DEFINE Table(t) == t = [n \in 0..MaxNesting |-> IF n = 0 THEN {} ELSE ValuesOver(Seq(t[n - 1]))]
<1>1. Trees = CHOOSE t : Table(t)
  BY DEF Trees
<1>2. \E t : Table(t)
  BY TreesExist, Zenon DEF TreesAt
<1>3. Table(Trees)
  <2> HIDE DEF Table
  <2> QED BY <1>1, <1>2
<1>4. \A n \in 0..MaxNesting : Trees[n] = IF n = 0 THEN {} ELSE ValuesOver(Seq(Trees[n - 1]))
  BY <1>3, Zenon
<1>5. MaxNesting \in Nat \ {0} /\ 0 \in 0..MaxNesting
  BY ValueLifeAssumption
<1> QED BY <1>4, <1>5 DEF AllTrees

LEMMA RowsGrow ==
  ASSUME NEW S, NEW T, S \subseteq T
  PROVE  Seq(S) \subseteq Seq(T) /\ ValuesOver(Seq(S)) \subseteq ValuesOver(Seq(T))
<1>1. Seq(S) \subseteq Seq(T)
  <2> SUFFICES ASSUME NEW s \in Seq(S) PROVE s \in Seq(T)
    OBVIOUS
  <2>1. Len(s) \in Nat /\ s = [i \in 1..Len(s) |-> s[i]] /\ \A i \in 1..Len(s) : s[i] \in T
    OBVIOUS
  <2> QED BY <2>1
<1> QED BY <1>1 DEF ValuesOver

LEMMA LevelsGrow ==
  \A n \in 0..MaxNesting : n # MaxNesting => Trees[n] \subseteq Trees[n + 1]
<1> DEFINE N == {n \in Nat : n < MaxNesting => Trees[n] \subseteq Trees[n + 1]}
<1>0. MaxNesting \in Nat
  BY TreesUnfold
<1>1. 0 \in N
  BY TreesUnfold
<1>2. ASSUME NEW n \in Nat, n \in N PROVE n + 1 \in N
  <2> SUFFICES ASSUME n + 1 < MaxNesting PROVE Trees[n + 1] \subseteq Trees[n + 1 + 1]
    OBVIOUS
  <2>1. Trees[n] \subseteq Trees[n + 1]
    BY <1>0, <1>2
  <2>2. n + 1 \in 0..MaxNesting /\ n + 1 + 1 \in 0..MaxNesting /\ n + 1 # 0 /\ n + 1 + 1 # 0
        /\ (n + 1) - 1 = n /\ (n + 1 + 1) - 1 = n + 1
    BY <1>0
  <2>3. Trees[n + 1] = ValuesOver(Seq(Trees[n])) /\ Trees[n + 1 + 1] = ValuesOver(Seq(Trees[n + 1]))
    BY <2>2, TreesUnfold
  <2> HIDE DEF N
  <2> QED BY <2>1, <2>3, RowsGrow
<1> HIDE DEF N
<1>3. \A n \in Nat : n \in N
  BY <1>1, <1>2, NatSetInduction
<1> QED BY <1>0, <1>3 DEF N

\* Every level is among AllTrees.
LEMMA LevelsWithin ==
  \A n \in 0..MaxNesting : Trees[n] \subseteq AllTrees
<1> DEFINE N == {k \in Nat : k <= MaxNesting => Trees[MaxNesting - k] \subseteq AllTrees}
<1>0. MaxNesting \in Nat
  BY TreesUnfold
<1>1. 0 \in N
  BY <1>0, TreesUnfold
<1>2. ASSUME NEW k \in Nat, k \in N PROVE k + 1 \in N
  <2> SUFFICES ASSUME k + 1 <= MaxNesting PROVE Trees[MaxNesting - (k + 1)] \subseteq AllTrees
    OBVIOUS
  <2> DEFINE n == MaxNesting - (k + 1)
  <2>1. n \in 0..MaxNesting /\ n # MaxNesting /\ n + 1 = MaxNesting - k
    BY <1>0
  <2>2. Trees[MaxNesting - k] \subseteq AllTrees
    BY <1>0, <1>2
  <2> HIDE DEF n, N
  <2>3. Trees[n] \subseteq AllTrees
    BY <2>1, <2>2, LevelsGrow
  <2> QED BY <2>3 DEF n
<1> HIDE DEF N
<1>3. \A k \in Nat : k \in N
  BY <1>1, <1>2, NatSetInduction
<1> SUFFICES ASSUME NEW n \in 0..MaxNesting PROVE Trees[n] \subseteq AllTrees
  OBVIOUS
<1>4. MaxNesting - n \in Nat /\ MaxNesting - n <= MaxNesting /\ MaxNesting - (MaxNesting - n) = n
  BY <1>0
<1> QED BY <1>3, <1>4 DEF N

\* The elements of a value have a level less.
LEMMA Elements ==
  ASSUME NEW n \in 1..MaxNesting, NEW v \in Trees[n]
  PROVE  /\ n - 1 \in 0..MaxNesting /\ v \in AllTrees
         /\ v \in ValuesOver(Seq(Trees[n - 1]))
         /\ v.items \in Seq(Trees[n - 1]) /\ v.items \in Seq(AllTrees) /\ Len(v.items) \in Nat
         /\ \A i \in 1..Len(v.items) : v.items[i] \in Trees[n - 1] /\ v.items[i] \in AllTrees
<1>1. n - 1 \in 0..MaxNesting /\ n \in 0..MaxNesting /\ n # 0
  BY TreesUnfold
<1>2. v \in ValuesOver(Seq(Trees[n - 1])) /\ v \in AllTrees
  BY <1>1, TreesUnfold, LevelsWithin
<1>3. v.items \in Seq(Trees[n - 1])
  BY <1>2 DEF ValuesOver
<1>4. Trees[n - 1] \subseteq AllTrees
  BY <1>1, LevelsWithin
<1>5. v.items \in Seq(AllTrees)
  BY <1>3, <1>4, RowsGrow
<1>6. \A i \in 1..Len(v.items) : v.items[i] \in Trees[n - 1]
  BY <1>3
<1> QED BY <1>1, <1>2, <1>3, <1>4, <1>5, <1>6

(***************************************************************************)
(* The folds over the elements of a value, as runs.                        *)
(***************************************************************************)
LEMMA RunsEqual ==
  ASSUME NEW n \in Nat, NEW D, NEW base, NEW t, NEW g, NEW h,
         \A a \in D, i \in 1..n : g[<<a, t[i]>>] = h[<<a, t[i]>>],
         NEW v, RunsTo(n, D, base, g, t, v), NEW w, RunsTo(n, D, base, h, t, w)
  PROVE  v = w
<1>1. PICK a \in [0..n -> D] : IsRun(a, n, base, g, t) /\ a[n] = v
  BY DEF RunsTo
<1>2. PICK b \in [0..n -> D] : IsRun(b, n, base, h, t) /\ b[n] = w
  BY DEF RunsTo
<1> DEFINE P == {k \in Nat : k <= n => a[k] = b[k]}
<1>3. 0 \in P
  BY <1>1, <1>2 DEF IsRun
<1>4. ASSUME NEW k \in Nat, k \in P PROVE k + 1 \in P
  <2> SUFFICES ASSUME k + 1 <= n PROVE a[k + 1] = b[k + 1]
    OBVIOUS
  <2>1. k + 1 \in 1..n /\ k \in 0..n /\ (k + 1) - 1 = k /\ a[k] = b[k] /\ a[k] \in D
    BY <1>4
  <2>2. a[k + 1] = g[<<a[k], t[k + 1]>>] /\ b[k + 1] = h[<<b[k], t[k + 1]>>]
    BY <1>1, <1>2, <2>1 DEF IsRun
  <2> QED BY <2>1, <2>2
<1> HIDE DEF P
<1>5. \A k \in Nat : k \in P
  BY <1>3, <1>4, NatSetInduction
<1> QED BY <1>1, <1>2, <1>5 DEF P

TurnStep(f, D, E) == [p \in D \X E |-> f[p[2]][p[1]]]

LEMMA TurnRuns ==
  ASSUME NEW D, NEW E, NEW s \in Seq(E), NEW base \in D, NEW f,
         \A a \in D, b \in E : f[b][a] \in D
  PROVE  /\ TurnStep(f, D, E) \in [D \X E -> D]
         /\ \A a \in D, b \in E : TurnStep(f, D, E)[<<a, b>>] = f[b][a]
         /\ RunsTo(Len(s), D, base, TurnStep(f, D, E), s, InTurn(f, base, s))
<1> DEFINE n == Len(s)
           g == TurnStep(f, D, E)
           Table(it) == it = [t \in SUBSET (1..n) |-> IF t = {} THEN base ELSE f[s[Max(t)]][it[t \ {Max(t)}]]]
           iter == CHOOSE it : Table(it)
<1>1. n \in Nat /\ DOMAIN s = 1..n /\ (\A i \in 1..n : s[i] \in E)
  OBVIOUS
<1>2. InTurn(f, base, s) = iter[1..n]
  BY <1>1 DEF FoldLeft, MapThenFoldSet, InTurn
<1>3. g \in [D \X E -> D] /\ \A a \in D, b \in E : g[<<a, b>>] = f[b][a]
  BY DEF TurnStep
<1> HIDE DEF g
<1>4. PICK h \in [SUBSET (1..n) -> D] : IsTable(h, n, base, g, s)
  BY <1>1, <1>3, TableExists
<1>5. ASSUME NEW t \in SUBSET (1..n), t # {}
      PROVE  Max(t) \in 1..n /\ s[Max(t)] \in E /\ t \ {Max(t)} \in SUBSET (1..n)
  BY <1>1, <1>5, GreatestNumber
<1>6. Table(h)
  <2>1. ASSUME NEW t \in SUBSET (1..n), t # {}
        PROVE  g[<<h[t \ {Max(t)}], s[Max(t)]>>] = f[s[Max(t)]][h[t \ {Max(t)}]]
    <3>1. h[t \ {Max(t)}] \in D
      BY <1>5, <2>1
    <3> QED BY <1>3, <1>5, <2>1, <3>1
  <2> QED BY <1>4, <2>1 DEF IsTable
<1>7. Table(iter)
  <2> HIDE DEF Table
  <2> QED BY <1>6
<1> HIDE DEF iter, n
<1>8. ASSUME NEW t \in SUBSET (1..n)
      PROVE  /\ t = {} => iter[t] = base
             /\ t # {} => iter[t] = f[s[Max(t)]][iter[t \ {Max(t)}]]
  BY <1>7, Zenon
<1> HIDE DEF Table
<1>9. Unfolds(iter, n, base, g, D, s)
  BY <1>3, <1>5, <1>8 DEF Unfolds
<1>10. RunsTo(n, D, base, g, s, iter[1..n])
  BY <1>1, <1>3, <1>9, UnfoldsRuns
<1> QED BY <1>2, <1>3, <1>10 DEF n, g

HeldStep(holds, r, D, E) == [p \in D \X E |-> p[1] + holds[p[2]][r]]

LEMMA HeldRuns ==
  ASSUME NEW D, NEW E, NEW s \in Seq(E), 0 \in D, NEW holds, NEW r,
         \A a \in D, b \in E : a + holds[b][r] \in D
  PROVE  /\ HeldStep(holds, r, D, E) \in [D \X E -> D]
         /\ \A a \in D, b \in E : HeldStep(holds, r, D, E)[<<a, b>>] = a + holds[b][r]
         /\ RunsTo(Len(s), D, 0, HeldStep(holds, r, D, E), s, HeldIn(holds, r, s))
<1> DEFINE n == Len(s)
           g == HeldStep(holds, r, D, E)
           Table(it) == it = [t \in SUBSET (1..n) |-> IF t = {} THEN 0 ELSE it[t \ {Max(t)}] + holds[s[Max(t)]][r]]
           iter == CHOOSE it : Table(it)
<1>1. n \in Nat /\ DOMAIN s = 1..n /\ (\A i \in 1..n : s[i] \in E)
  OBVIOUS
<1>2. HeldIn(holds, r, s) = iter[1..n]
  BY <1>1 DEF FoldLeft, MapThenFoldSet, HeldIn
<1>3. g \in [D \X E -> D] /\ \A a \in D, b \in E : g[<<a, b>>] = a + holds[b][r]
  BY DEF HeldStep
<1> HIDE DEF g
<1>4. PICK h \in [SUBSET (1..n) -> D] : IsTable(h, n, 0, g, s)
  BY <1>1, <1>3, TableExists
<1>5. ASSUME NEW t \in SUBSET (1..n), t # {}
      PROVE  Max(t) \in 1..n /\ s[Max(t)] \in E /\ t \ {Max(t)} \in SUBSET (1..n)
  BY <1>1, <1>5, GreatestNumber
<1>6. Table(h)
  <2>1. ASSUME NEW t \in SUBSET (1..n), t # {}
        PROVE  g[<<h[t \ {Max(t)}], s[Max(t)]>>] = h[t \ {Max(t)}] + holds[s[Max(t)]][r]
    <3>1. h[t \ {Max(t)}] \in D
      BY <1>5, <2>1
    <3> QED BY <1>3, <1>5, <2>1, <3>1
  <2> QED BY <1>4, <2>1 DEF IsTable
<1>7. Table(iter)
  <2> HIDE DEF Table
  <2> QED BY <1>6
<1> HIDE DEF iter, n
<1>8. ASSUME NEW t \in SUBSET (1..n)
      PROVE  /\ t = {} => iter[t] = 0
             /\ t # {} => iter[t] = iter[t \ {Max(t)}] + holds[s[Max(t)]][r]
  BY <1>7, Zenon
<1> HIDE DEF Table
<1>9. Unfolds(iter, n, 0, g, D, s)
  BY <1>3, <1>5, <1>8 DEF Unfolds
<1>10. RunsTo(n, D, 0, g, s, iter[1..n])
  BY <1>1, <1>3, <1>9, UnfoldsRuns
<1> QED BY <1>2, <1>3, <1>10 DEF n, g

CopyStep(clone, r, D, E) == [p \in D \X E |-> CloneNext(p[1], clone[p[2]][r][p[1].mem])]

LEMMA CopyRuns ==
  ASSUME NEW D, NEW E, NEW s \in Seq(E), NEW base \in D, NEW clone, NEW r,
         \A a \in D, b \in E : CloneNext(a, clone[b][r][a.mem]) \in D
  PROVE  /\ CopyStep(clone, r, D, E) \in [D \X E -> D]
         /\ \A a \in D, b \in E : CopyStep(clone, r, D, E)[<<a, b>>] = CloneNext(a, clone[b][r][a.mem])
         /\ RunsTo(Len(s), D, base, CopyStep(clone, r, D, E), s, CloneInto(clone, base, s, r))
<1> DEFINE n == Len(s)
           g == CopyStep(clone, r, D, E)
           Table(it) == it = [t \in SUBSET (1..n) |-> IF t = {} THEN base ELSE CloneNext(it[t \ {Max(t)}], clone[s[Max(t)]][r][it[t \ {Max(t)}].mem])]
           iter == CHOOSE it : Table(it)
<1>1. n \in Nat /\ DOMAIN s = 1..n /\ (\A i \in 1..n : s[i] \in E)
  OBVIOUS
<1>2. CloneInto(clone, base, s, r) = iter[1..n]
  BY <1>1 DEF FoldLeft, MapThenFoldSet, CloneInto
<1>3. g \in [D \X E -> D] /\ \A a \in D, b \in E : g[<<a, b>>] = CloneNext(a, clone[b][r][a.mem])
  BY DEF CopyStep
<1> HIDE DEF g
<1>4. PICK h \in [SUBSET (1..n) -> D] : IsTable(h, n, base, g, s)
  BY <1>1, <1>3, TableExists
<1>5. ASSUME NEW t \in SUBSET (1..n), t # {}
      PROVE  Max(t) \in 1..n /\ s[Max(t)] \in E /\ t \ {Max(t)} \in SUBSET (1..n)
  BY <1>1, <1>5, GreatestNumber
<1>6. Table(h)
  <2>1. ASSUME NEW t \in SUBSET (1..n), t # {}
        PROVE  g[<<h[t \ {Max(t)}], s[Max(t)]>>] = CloneNext(h[t \ {Max(t)}], clone[s[Max(t)]][r][h[t \ {Max(t)}].mem])
    <3>1. h[t \ {Max(t)}] \in D
      BY <1>5, <2>1
    <3> QED BY <1>3, <1>5, <2>1, <3>1
  <2> QED BY <1>4, <2>1 DEF IsTable
<1>7. Table(iter)
  <2> HIDE DEF Table
  <2> QED BY <1>6
<1> HIDE DEF iter, n
<1>8. ASSUME NEW t \in SUBSET (1..n)
      PROVE  /\ t = {} => iter[t] = base
             /\ t # {} => iter[t] = CloneNext(iter[t \ {Max(t)}], clone[s[Max(t)]][r][iter[t \ {Max(t)}].mem])
  BY <1>7, Zenon
<1> HIDE DEF Table
<1>9. Unfolds(iter, n, base, g, D, s)
  BY <1>3, <1>5, <1>8 DEF Unfolds
<1>10. RunsTo(n, D, base, g, s, iter[1..n])
  BY <1>1, <1>3, <1>9, UnfoldsRuns
<1> QED BY <1>2, <1>3, <1>10 DEF n, g

\* From one level to the next.
LEMMA NextLevel ==
  \A n \in Nat : n + 1 <= MaxNesting => n + 1 \in 1..MaxNesting /\ (n + 1) - 1 = n
BY TreesUnfold

(***************************************************************************)
(* A recursive function over the values exists if it is a fixed point of a *)
(* step that looks at values of a level less.                              *)
(***************************************************************************)
LEMMA FixedPoint ==
  ASSUME NEW G, G # {}, \A g \in G : g = [v \in AllTrees |-> g[v]], NEW Phi \in [G -> G],
         \A g, h \in G, n \in 1..MaxNesting :
           (\A v \in Trees[n - 1] : g[v] = h[v]) => (\A v \in Trees[n] : Phi[g][v] = Phi[h][v])
  PROVE  \E g \in G : g = Phi[g]
<1> DEFINE N == {n \in Nat : n <= MaxNesting => \E g \in G : \A v \in Trees[n] : g[v] = Phi[g][v]}
<1>0. MaxNesting \in Nat \ {0} /\ Trees[0] = {} /\ AllTrees = Trees[MaxNesting]
  BY TreesUnfold
<1>1. 0 \in N
  BY <1>0
<1>2. ASSUME NEW n \in Nat, n \in N PROVE n + 1 \in N
  <2> SUFFICES ASSUME n + 1 <= MaxNesting
               PROVE  \E g \in G : \A v \in Trees[n + 1] : g[v] = Phi[g][v]
    OBVIOUS
  <2>1. PICK g \in G : \A v \in Trees[n] : g[v] = Phi[g][v]
    BY <1>0, <1>2
  <2>2. Phi[g] \in G
    OBVIOUS
  <2>3. n + 1 \in 1..MaxNesting /\ (n + 1) - 1 = n
    BY NextLevel
  <2>4. \A v \in Trees[n + 1] : Phi[g][v] = Phi[Phi[g]][v]
    BY <2>1, <2>2, <2>3
  <2> QED BY <2>2, <2>4
<1> HIDE DEF N
<1>3. \A n \in Nat : n \in N
  BY <1>1, <1>2, NatSetInduction
<1>4. PICK g \in G : \A v \in AllTrees : g[v] = Phi[g][v]
  BY <1>0, <1>3 DEF N
<1>5. Phi[g] \in G
  OBVIOUS
<1>6. g = [v \in AllTrees |-> g[v]] /\ Phi[g] = [v \in AllTrees |-> Phi[g][v]]
  BY <1>5
<1>7. g = Phi[g]
  BY <1>4, <1>6
<1> QED BY <1>7

\* Two functions that agree on a level where they agree on the one below are
\* the same.
LEMMA SamePoint ==
  ASSUME NEW g, NEW h,
         \A n \in 1..MaxNesting :
           (\A v \in Trees[n - 1] : g[v] = h[v]) => (\A v \in Trees[n] : g[v] = h[v])
  PROVE  \A v \in AllTrees : g[v] = h[v]
<1> DEFINE N == {n \in Nat : n <= MaxNesting => \A v \in Trees[n] : g[v] = h[v]}
<1>0. MaxNesting \in Nat \ {0} /\ Trees[0] = {} /\ AllTrees = Trees[MaxNesting]
  BY TreesUnfold
<1>1. 0 \in N
  BY <1>0
<1>2. ASSUME NEW n \in Nat, n \in N PROVE n + 1 \in N
  <2> SUFFICES ASSUME n + 1 <= MaxNesting PROVE \A v \in Trees[n + 1] : g[v] = h[v]
    OBVIOUS
  <2>1. \A v \in Trees[n] : g[v] = h[v]
    BY <1>0, <1>2
  <2>2. n + 1 \in 1..MaxNesting /\ (n + 1) - 1 = n
    BY NextLevel
  <2> QED BY <2>1, <2>2
<1> HIDE DEF N
<1>3. \A n \in Nat : n \in N
  BY <1>1, <1>2, NatSetInduction
<1> QED BY <1>0, <1>3 DEF N

\* A fold's value is in the set its steps stay in.
LEMMA RunEnds ==
  ASSUME NEW n \in Nat, NEW D, NEW base, NEW g, NEW t, NEW v, RunsTo(n, D, base, g, t, v)
  PROVE  v \in D
BY DEF RunsTo

(***************************************************************************)
(* Destroyed.                                                              *)
(***************************************************************************)
LEMMA GiveBackType ==
  ASSUME NEW m \in Memory, NEW block \in Blocks, NEW r
  PROVE  GiveBack(m, block, r) \in Memory
<1>1. CASE block = None
  BY <1>1 DEF GiveBack
<1>2. CASE block # None
  <2>1. GiveBack(m, block, r) = [m EXCEPT !.out[block] = @ - 1, !.bad = @ \/ block # r]
    BY <1>2 DEF GiveBack
  <2>2. block \in Resources /\ m.out \in [Resources -> Int] /\ m.bad \in BOOLEAN
        /\ m = [out |-> m.out, fuel |-> m.fuel, bad |-> m.bad] /\ m.fuel \in Int
    BY <1>2 DEF Blocks, Memory
  <2>3. [m.out EXCEPT ![block] = @ - 1] \in [Resources -> Int]
    BY <2>2
  <2>4. (m.bad \/ block # r) \in BOOLEAN
    OBVIOUS
  <2>5. GiveBack(m, block, r) = [out |-> [m.out EXCEPT ![block] = @ - 1], fuel |-> m.fuel,
                                 bad |-> m.bad \/ block # r]
    BY <2>1, <2>2
  <2> QED BY <2>2, <2>3, <2>4, <2>5 DEF Memory
<1> QED BY <1>1, <1>2

DestroyedAt(d, v) ==
  [m \in Memory |-> GiveBack(GiveBack(InTurn(d, m, v.items), v.body, v.alloc), v.head, v.res)]

LEMMA InTurnType ==
  ASSUME NEW d \in [AllTrees -> [Memory -> Memory]], NEW s \in Seq(AllTrees), NEW m \in Memory
  PROVE  InTurn(d, m, s) \in Memory
<1>1. \A a \in Memory, b \in AllTrees : d[b][a] \in Memory
  OBVIOUS
<1>2. RunsTo(Len(s), Memory, m, TurnStep(d, Memory, AllTrees), s, InTurn(d, m, s))
  BY <1>1, TurnRuns
<1>3. Len(s) \in Nat
  OBVIOUS
<1> QED BY <1>2, <1>3, RunEnds

LEMMA DestroyedAtType ==
  ASSUME NEW d \in [AllTrees -> [Memory -> Memory]], NEW v \in AllTrees
  PROVE  DestroyedAt(d, v) \in [Memory -> Memory]
<1>1. v.items \in Seq(AllTrees) /\ v.head \in Blocks /\ v.body \in Blocks
  BY TreesUnfold, Elements DEF ValuesOver
<1>2. \A m \in Memory : InTurn(d, m, v.items) \in Memory
  BY <1>1, InTurnType
<1>3. \A m \in Memory : GiveBack(InTurn(d, m, v.items), v.body, v.alloc) \in Memory
  BY <1>1, <1>2, GiveBackType
<1>4. \A m \in Memory :
        GiveBack(GiveBack(InTurn(d, m, v.items), v.body, v.alloc), v.head, v.res) \in Memory
  BY <1>1, <1>3, GiveBackType
<1> QED BY <1>4 DEF DestroyedAt

LEMMA TurnsAgree ==
  ASSUME NEW D, NEW E, NEW s \in Seq(E), NEW m \in D, NEW f, NEW g,
         \A a \in D, b \in E : f[b][a] \in D /\ f[b][a] = g[b][a]
  PROVE  InTurn(f, m, s) = InTurn(g, m, s)
<1> DEFINE F == TurnStep(f, D, E)
           H == TurnStep(g, D, E)
<1>1. \A a \in D, b \in E : f[b][a] \in D
  OBVIOUS
<1>2. \A a \in D, b \in E : g[b][a] \in D
  OBVIOUS
<1>3. RunsTo(Len(s), D, m, F, s, InTurn(f, m, s)) /\ \A a \in D, b \in E : F[<<a, b>>] = f[b][a]
  <2>1. \A a \in D, b \in E : F[<<a, b>>] = f[b][a]
    BY DEF TurnStep
  <2>2. RunsTo(Len(s), D, m, F, s, InTurn(f, m, s))
    BY <1>1, TurnRuns
  <2> QED BY <2>1, <2>2
<1>4. RunsTo(Len(s), D, m, H, s, InTurn(g, m, s)) /\ \A a \in D, b \in E : H[<<a, b>>] = g[b][a]
  <2>1. \A a \in D, b \in E : H[<<a, b>>] = g[b][a]
    BY DEF TurnStep
  <2>2. RunsTo(Len(s), D, m, H, s, InTurn(g, m, s))
    BY <1>2, TurnRuns
  <2> QED BY <2>1, <2>2
<1> HIDE DEF F, H
<1>5. Len(s) \in Nat /\ \A i \in 1..Len(s) : s[i] \in E
  OBVIOUS
<1>6. \A a \in D, i \in 1..Len(s) : F[<<a, s[i]>>] = H[<<a, s[i]>>]
  BY <1>3, <1>4, <1>5
<1> QED BY <1>3, <1>4, <1>5, <1>6, RunsEqual

LEMMA DestroyedAtLocal ==
  ASSUME NEW d, NEW e, NEW n \in 1..MaxNesting,
         \A v \in Trees[n - 1] : d[v] \in [Memory -> Memory] /\ d[v] = e[v], NEW v \in Trees[n]
  PROVE  DestroyedAt(d, v) = DestroyedAt(e, v)
<1>1. v.items \in Seq(Trees[n - 1])
  BY Elements
<1>2. \A a \in Memory, b \in Trees[n - 1] : d[b][a] \in Memory /\ d[b][a] = e[b][a]
  OBVIOUS
<1>3. ASSUME NEW m \in Memory PROVE InTurn(d, m, v.items) = InTurn(e, m, v.items)
  BY <1>1, <1>2, TurnsAgree
<1> QED BY <1>3 DEF DestroyedAt

LEMMA DestroyedUnfolds ==
  /\ Destroyed \in [AllTrees -> [Memory -> Memory]]
  /\ \A v \in AllTrees : Destroyed[v] = DestroyedAt(Destroyed, v)
<1> DEFINE G == [AllTrees -> [Memory -> Memory]]
           Phi == [d \in G |-> [v \in AllTrees |-> DestroyedAt(d, v)]]
           Table(d) == d = [v \in AllTrees |-> [m \in Memory |->
                     GiveBack(GiveBack(InTurn(d, m, v.items), v.body, v.alloc), v.head, v.res)]]
<1>1. \A d \in G : d = [v \in AllTrees |-> d[v]]
  OBVIOUS
<1>2. \A d \in G : [v \in AllTrees |-> DestroyedAt(d, v)] \in G
  BY DestroyedAtType
<1>3. Phi \in [G -> G] /\ \A d \in G, v \in AllTrees : Phi[d][v] = DestroyedAt(d, v)
  BY <1>2
<1>4. G # {}
  <2>1. [v \in AllTrees |-> [m \in Memory |-> m]] \in G
    OBVIOUS
  <2> QED BY <2>1
<1>5. \A n \in 1..MaxNesting : Trees[n] \subseteq AllTrees
  BY TreesUnfold, LevelsWithin
<1>6. ASSUME NEW d \in G, NEW e \in G, NEW n \in 1..MaxNesting, \A v \in Trees[n - 1] : d[v] = e[v]
      PROVE  \A v \in Trees[n] : Phi[d][v] = Phi[e][v]
  <2>1. n - 1 \in 0..MaxNesting
    BY TreesUnfold
  <2>2. \A v \in Trees[n - 1] : d[v] \in [Memory -> Memory] /\ d[v] = e[v]
    BY <1>6, <2>1, LevelsWithin
  <2>3. \A v \in Trees[n] : DestroyedAt(d, v) = DestroyedAt(e, v)
    BY <2>2, DestroyedAtLocal
  <2> HIDE DEF Phi
  <2> QED BY <1>3, <1>5, <2>3
<1>7. \A d \in G : Phi[d] = [v \in AllTrees |-> DestroyedAt(d, v)]
  OBVIOUS
<1> HIDE DEF Phi, G
<1>8. PICK d \in G : d = Phi[d]
  BY <1>1, <1>3, <1>4, <1>6, FixedPoint
<1>9. Table(d)
  BY <1>7, <1>8, Zenon DEF DestroyedAt
<1>10. Destroyed = CHOOSE e : Table(e)
  BY DEF Destroyed
<1>11. Table(Destroyed)
  <2> HIDE DEF Table
  <2> QED BY <1>9, <1>10
<1>12. Destroyed = [v \in AllTrees |-> DestroyedAt(Destroyed, v)]
  BY <1>11, Zenon DEF DestroyedAt
<1>13. ASSUME NEW n \in 1..MaxNesting, \A v \in Trees[n - 1] : d[v] = Destroyed[v]
       PROVE  \A v \in Trees[n] : d[v] = Destroyed[v]
  <2>1. n - 1 \in 0..MaxNesting
    BY TreesUnfold
  <2>2. \A v \in Trees[n - 1] : d[v] \in [Memory -> Memory] /\ d[v] = Destroyed[v]
    BY <1>13, <2>1, LevelsWithin DEF G
  <2>3. \A v \in Trees[n] : DestroyedAt(d, v) = DestroyedAt(Destroyed, v)
    BY <2>2, DestroyedAtLocal
  <2>4. \A v \in Trees[n] : v \in AllTrees /\ d[v] = DestroyedAt(d, v)
    BY <1>3, <1>5, <1>8
  <2> QED BY <1>12, <2>3, <2>4
<1>14. \A v \in AllTrees : d[v] = Destroyed[v]
  <2> HIDE DEF Table
  <2> QED BY <1>13, SamePoint
<1>15. Destroyed = d
  BY <1>1, <1>12, <1>14
<1> QED BY <1>12, <1>15 DEF G

(***************************************************************************)
(* Holds.                                                                  *)
(***************************************************************************)
HoldsAt(h, v) ==
  [r \in Resources |-> CountOf(v.head, r) + CountOf(v.body, r) + HeldIn(h, r, v.items)]

LEMMA HeldInType ==
  ASSUME NEW E, NEW s \in Seq(E), NEW r, NEW h, \A b \in E : h[b][r] \in Int
  PROVE  HeldIn(h, r, s) \in Int
<1>1. 0 \in Int /\ \A a \in Int, b \in E : a + h[b][r] \in Int
  OBVIOUS
<1>2. RunsTo(Len(s), Int, 0, HeldStep(h, r, Int, E), s, HeldIn(h, r, s))
  BY <1>1, HeldRuns
<1>3. Len(s) \in Nat
  OBVIOUS
<1> QED BY <1>2, <1>3, RunEnds

LEMMA HeldAgree ==
  ASSUME NEW E, NEW s \in Seq(E), NEW r, NEW f, NEW g,
         \A b \in E : f[b][r] \in Int /\ f[b][r] = g[b][r]
  PROVE  HeldIn(f, r, s) = HeldIn(g, r, s)
<1> DEFINE F == HeldStep(f, r, Int, E)
           H == HeldStep(g, r, Int, E)
<1>1. 0 \in Int /\ \A a \in Int, b \in E : a + f[b][r] \in Int
  OBVIOUS
<1>2. \A a \in Int, b \in E : a + g[b][r] \in Int
  OBVIOUS
<1>3. RunsTo(Len(s), Int, 0, F, s, HeldIn(f, r, s))
  BY <1>1, HeldRuns
<1>4. RunsTo(Len(s), Int, 0, H, s, HeldIn(g, r, s))
  BY <1>1, <1>2, HeldRuns
<1>5. \A a \in Int, b \in E : F[<<a, b>>] = H[<<a, b>>]
  BY DEF HeldStep
<1> HIDE DEF F, H
<1>6. Len(s) \in Nat /\ \A i \in 1..Len(s) : s[i] \in E
  OBVIOUS
<1>7. \A a \in Int, i \in 1..Len(s) : F[<<a, s[i]>>] = H[<<a, s[i]>>]
  BY <1>5, <1>6
<1> QED BY <1>3, <1>4, <1>6, <1>7, RunsEqual

LEMMA CountType == \A b, r : CountOf(b, r) \in Int
BY DEF CountOf

LEMMA HoldsAtLocal ==
  ASSUME NEW d, NEW e, NEW n \in 1..MaxNesting,
         \A v \in Trees[n - 1] : d[v] \in [Resources -> Int] /\ d[v] = e[v], NEW v \in Trees[n]
  PROVE  HoldsAt(d, v) = HoldsAt(e, v)
<1>1. v.items \in Seq(Trees[n - 1])
  BY Elements
<1>2. \A r \in Resources, b \in Trees[n - 1] : d[b][r] \in Int /\ d[b][r] = e[b][r]
  OBVIOUS
<1>3. ASSUME NEW r \in Resources PROVE HeldIn(d, r, v.items) = HeldIn(e, r, v.items)
  BY <1>1, <1>2, HeldAgree
<1> QED BY <1>3 DEF HoldsAt

LEMMA HoldsUnfolds ==
  /\ Holds \in [AllTrees -> [Resources -> Int]]
  /\ \A v \in AllTrees : Holds[v] = HoldsAt(Holds, v)
<1> DEFINE G == [AllTrees -> [Resources -> Int]]
           Phi == [d \in G |-> [v \in AllTrees |-> HoldsAt(d, v)]]
           Table(d) == d = [v \in AllTrees |->
                     [r \in Resources |-> CountOf(v.head, r) + CountOf(v.body, r) + HeldIn(d, r, v.items)]]
<1>1. \A d \in G : d = [v \in AllTrees |-> d[v]]
  OBVIOUS
<1>2. ASSUME NEW d \in G PROVE [v \in AllTrees |-> HoldsAt(d, v)] \in G
  <2>1. ASSUME NEW v \in AllTrees, NEW r \in Resources PROVE HeldIn(d, r, v.items) \in Int
    <3>1. v.items \in Seq(AllTrees)
      BY TreesUnfold, Elements
    <3>2. \A b \in AllTrees : d[b][r] \in Int
      OBVIOUS
    <3> QED BY <3>1, <3>2, HeldInType
  <2>2. \A v \in AllTrees, r \in Resources : CountOf(v.head, r) \in Int /\ CountOf(v.body, r) \in Int
    BY CountType
  <2> QED BY <2>1, <2>2 DEF HoldsAt
<1>3. Phi \in [G -> G] /\ \A d \in G, v \in AllTrees : Phi[d][v] = HoldsAt(d, v)
  BY <1>2
<1>4. G # {}
  <2>1. [v \in AllTrees |-> [r \in Resources |-> 0]] \in G
    OBVIOUS
  <2> QED BY <2>1
<1>5. \A n \in 1..MaxNesting : Trees[n] \subseteq AllTrees
  BY TreesUnfold, LevelsWithin
<1>6. ASSUME NEW d \in G, NEW e \in G, NEW n \in 1..MaxNesting, \A v \in Trees[n - 1] : d[v] = e[v]
      PROVE  \A v \in Trees[n] : Phi[d][v] = Phi[e][v]
  <2>1. n - 1 \in 0..MaxNesting
    BY TreesUnfold
  <2>2. \A v \in Trees[n - 1] : d[v] \in [Resources -> Int] /\ d[v] = e[v]
    BY <1>6, <2>1, LevelsWithin
  <2>3. \A v \in Trees[n] : HoldsAt(d, v) = HoldsAt(e, v)
    BY <2>2, HoldsAtLocal
  <2> HIDE DEF Phi
  <2> QED BY <1>3, <1>5, <2>3
<1>7. \A d \in G : Phi[d] = [v \in AllTrees |-> HoldsAt(d, v)]
  OBVIOUS
<1> HIDE DEF Phi, G
<1>8. PICK d \in G : d = Phi[d]
  BY <1>1, <1>3, <1>4, <1>6, FixedPoint
<1>9. Table(d)
  BY <1>7, <1>8, Zenon DEF HoldsAt
<1>10. Holds = CHOOSE e : Table(e)
  BY DEF Holds
<1>11. Table(Holds)
  <2> HIDE DEF Table
  <2> QED BY <1>9, <1>10
<1>12. Holds = [v \in AllTrees |-> HoldsAt(Holds, v)]
  BY <1>11, Zenon DEF HoldsAt
<1>13. ASSUME NEW n \in 1..MaxNesting, \A v \in Trees[n - 1] : d[v] = Holds[v]
       PROVE  \A v \in Trees[n] : d[v] = Holds[v]
  <2>1. n - 1 \in 0..MaxNesting
    BY TreesUnfold
  <2>2. \A v \in Trees[n - 1] : d[v] \in [Resources -> Int] /\ d[v] = Holds[v]
    BY <1>13, <2>1, LevelsWithin DEF G
  <2>3. \A v \in Trees[n] : HoldsAt(d, v) = HoldsAt(Holds, v)
    BY <2>2, HoldsAtLocal
  <2>4. \A v \in Trees[n] : v \in AllTrees /\ d[v] = HoldsAt(d, v)
    BY <1>3, <1>5, <1>8
  <2> QED BY <1>12, <2>3, <2>4
<1>14. \A v \in AllTrees : d[v] = Holds[v]
  <2> HIDE DEF Table
  <2> QED BY <1>13, SamePoint
<1>15. Holds = d
  BY <1>1, <1>12, <1>14
<1> QED BY <1>12, <1>15 DEF G

(***************************************************************************)
(* Parts.                                                                  *)
(***************************************************************************)
PartsAt(p, v) == {v} \union UNION {p[v.items[i]] : i \in 1..Len(v.items)}

LEMMA PartsAtLocal ==
  ASSUME NEW d, NEW e, NEW n \in 1..MaxNesting, \A v \in Trees[n - 1] : d[v] = e[v],
         NEW v \in Trees[n]
  PROVE  PartsAt(d, v) = PartsAt(e, v)
<1>1. \A i \in 1..Len(v.items) : v.items[i] \in Trees[n - 1]
  BY Elements
<1>2. \A i \in 1..Len(v.items) : d[v.items[i]] = e[v.items[i]]
  BY <1>1
<1> QED BY <1>2 DEF PartsAt

LEMMA PartsUnfolds ==
  /\ Parts \in [AllTrees -> SUBSET AllTrees]
  /\ \A v \in AllTrees : Parts[v] = PartsAt(Parts, v)
<1> DEFINE G == [AllTrees -> SUBSET AllTrees]
           Phi == [d \in G |-> [v \in AllTrees |-> PartsAt(d, v)]]
           Table(d) == d = [v \in AllTrees |-> PartsAt(d, v)]
<1>1. \A d \in G : d = [v \in AllTrees |-> d[v]]
  OBVIOUS
<1>2. ASSUME NEW d \in G PROVE [v \in AllTrees |-> PartsAt(d, v)] \in G
  <2>1. \A v \in AllTrees : \A i \in 1..Len(v.items) : v.items[i] \in AllTrees
    BY TreesUnfold, Elements
  <2>2. ASSUME NEW v \in AllTrees PROVE PartsAt(d, v) \subseteq AllTrees
    <3>1. \A i \in 1..Len(v.items) : d[v.items[i]] \subseteq AllTrees
      BY <2>1
    <3> QED BY <3>1 DEF PartsAt
  <2> QED BY <2>2
<1>3. Phi \in [G -> G] /\ \A d \in G, v \in AllTrees : Phi[d][v] = PartsAt(d, v)
  BY <1>2
<1>4. G # {}
  <2>1. [v \in AllTrees |-> {}] \in G
    OBVIOUS
  <2> QED BY <2>1
<1>5. \A n \in 1..MaxNesting : Trees[n] \subseteq AllTrees
  BY TreesUnfold, LevelsWithin
<1>6. ASSUME NEW d \in G, NEW e \in G, NEW n \in 1..MaxNesting, \A v \in Trees[n - 1] : d[v] = e[v]
      PROVE  \A v \in Trees[n] : Phi[d][v] = Phi[e][v]
  <2>1. \A v \in Trees[n] : PartsAt(d, v) = PartsAt(e, v)
    BY <1>6, PartsAtLocal
  <2> HIDE DEF Phi
  <2> QED BY <1>3, <1>5, <2>1
<1>7. \A d \in G : Phi[d] = [v \in AllTrees |-> PartsAt(d, v)]
  OBVIOUS
<1> HIDE DEF Phi, G
<1>8. PICK d \in G : d = Phi[d]
  BY <1>1, <1>3, <1>4, <1>6, FixedPoint
<1>9. Table(d)
  BY <1>7, <1>8, Zenon
<1>10. Parts = CHOOSE e : Table(e)
  BY DEF Parts, PartsAt
<1>11. Table(Parts)
  <2> HIDE DEF Table
  <2> QED BY <1>9, <1>10
<1>12. Parts = [v \in AllTrees |-> PartsAt(Parts, v)]
  BY <1>11, Zenon
<1>13. ASSUME NEW n \in 1..MaxNesting, \A v \in Trees[n - 1] : d[v] = Parts[v]
       PROVE  \A v \in Trees[n] : d[v] = Parts[v]
  <2>1. \A v \in Trees[n] : PartsAt(d, v) = PartsAt(Parts, v)
    BY <1>13, PartsAtLocal
  <2>2. \A v \in Trees[n] : v \in AllTrees /\ d[v] = PartsAt(d, v)
    BY <1>3, <1>5, <1>8
  <2> QED BY <1>12, <2>1, <2>2
<1>14. \A v \in AllTrees : d[v] = Parts[v]
  <2> HIDE DEF Table
  <2> QED BY <1>13, SamePoint
<1>15. Parts = d
  BY <1>1, <1>12, <1>14
<1> QED BY <1>12, <1>15 DEF G

(***************************************************************************)
(* What is destroyed gives back what it holds.                             *)
(***************************************************************************)
\* A node goes back to where it came from, and an array is bound to the one
\* resource that it remembers.
Bound(v) ==
  /\ v.head \in {None, v.res} /\ v.body \in {None, v.alloc}
  /\ v.type = "Array" => v.res = v.alloc /\ v.res \in Resources
Sound(v) == \A p \in Parts[v] : Bound(p)

LEMMA PartsOfElements ==
  ASSUME NEW v \in AllTrees
  PROVE  v \in Parts[v] /\ \A p : p \in Parts[v] <=> p = v \/ \E i \in 1..Len(v.items) : p \in Parts[v.items[i]]
BY PartsUnfolds DEF PartsAt

LEMMA SoundElements ==
  ASSUME NEW v \in AllTrees
  PROVE  Sound(v) <=> Bound(v) /\ \A i \in 1..Len(v.items) : Sound(v.items[i])
BY PartsOfElements DEF Sound

LEMMA SoundSeq ==
  ASSUME NEW n \in 1..MaxNesting, NEW v \in Trees[n], Sound(v)
  PROVE  v.items \in Seq({w \in Trees[n - 1] : Sound(w)})
<1>1. v.items \in Seq(Trees[n - 1]) /\ v \in AllTrees /\ \A i \in 1..Len(v.items) : v.items[i] \in Trees[n - 1]
  BY Elements
<1>2. \A i \in 1..Len(v.items) : Sound(v.items[i])
  BY <1>1, SoundElements
<1> QED BY <1>1, <1>2

LEMMA GiveBackGives ==
  ASSUME NEW m \in Memory, NEW r, NEW block \in Blocks, block \in {None, r}
  PROVE  /\ GiveBack(m, block, r) \in Memory /\ GiveBack(m, block, r).bad = m.bad
         /\ \A q \in Resources : GiveBack(m, block, r).out[q] = m.out[q] - CountOf(block, q)
<1>1. GiveBack(m, block, r) \in Memory
  BY GiveBackType
<1>2. None \notin Resources
  BY ValueLifeAssumption
<1>3. m.out \in [Resources -> Int] /\ m.bad \in BOOLEAN
  BY DEF Memory
<1>4. CASE block = None
  <2>1. GiveBack(m, block, r) = m
    BY <1>4 DEF GiveBack
  <2>2. \A q \in Resources : CountOf(block, q) = 0
    BY <1>2, <1>4 DEF CountOf
  <2> QED BY <1>1, <1>3, <2>1, <2>2
<1>5. CASE block # None
  <2>1. GiveBack(m, block, r) = [m EXCEPT !.out[block] = @ - 1, !.bad = @ \/ block # r]
    BY <1>5 DEF GiveBack
  <2>2. m = [out |-> m.out, fuel |-> m.fuel, bad |-> m.bad] /\ block \in Resources /\ block = r
    BY <1>5 DEF Memory, Blocks
  <2>3. GiveBack(m, block, r).bad = (m.bad \/ block # r)
        /\ GiveBack(m, block, r).out = [m.out EXCEPT ![block] = @ - 1]
    BY <2>1, <2>2
  <2>4. \A q \in Resources : [m.out EXCEPT ![block] = @ - 1][q] = m.out[q] - CountOf(block, q)
    BY <1>3, <2>2 DEF CountOf
  <2>5. (m.bad \/ block # r) = m.bad
    BY <1>3, <2>2
  <2> QED BY <1>1, <2>3, <2>4, <2>5
<1> QED BY <1>4, <1>5

\* d is m without what v holds.
Frees(d, m, v) ==
  /\ d \in Memory /\ d.bad = m.bad
  /\ \A r \in Resources : d.out[r] = m.out[r] - Holds[v][r]
FreesAll(d, m, items) ==
  /\ d \in Memory /\ d.bad = m.bad
  /\ \A r \in Resources : d.out[r] = m.out[r] - HeldIn(Holds, r, items)

LEMMA InTurnFrees ==
  ASSUME NEW E \in SUBSET AllTrees, \A v \in E, m \in Memory : Frees(Destroyed[v][m], m, v),
         NEW s \in Seq(E), NEW m \in Memory
  PROVE  FreesAll(InTurn(Destroyed, m, s), m, s)
<1> DEFINE n == Len(s)
           F == TurnStep(Destroyed, Memory, E)
<1>1. n \in Nat /\ \A i \in 1..n : s[i] \in E
  OBVIOUS
<1>2. \A a \in Memory, b \in E : Destroyed[b][a] \in Memory
  BY DEF Frees
<1>3. RunsTo(n, Memory, m, F, s, InTurn(Destroyed, m, s))
  BY <1>2, TurnRuns
<1>4. \A a \in Memory, b \in E : F[<<a, b>>] = Destroyed[b][a]
  BY DEF TurnStep
<1>5. PICK u \in [0..n -> Memory] : IsRun(u, n, m, F, s) /\ u[n] = InTurn(Destroyed, m, s)
  BY <1>3 DEF RunsTo
<1> HIDE DEF F, n
<1>6. ASSUME NEW r \in Resources
      PROVE  u[n].out[r] = m.out[r] - HeldIn(Holds, r, s) /\ u[n].bad = m.bad
  <2> DEFINE H == HeldStep(Holds, r, Int, E)
  <2>1. \A b \in E : Holds[b][r] \in Int
    BY HoldsUnfolds
  <2>2. 0 \in Int /\ \A a \in Int, b \in E : a + Holds[b][r] \in Int
    BY <2>1
  <2>3. RunsTo(n, Int, 0, H, s, HeldIn(Holds, r, s))
    BY <2>2, HeldRuns DEF n
  <2>4. \A a \in Int, b \in E : H[<<a, b>>] = a + Holds[b][r]
    BY DEF HeldStep
  <2>5. PICK c \in [0..n -> Int] : IsRun(c, n, 0, H, s) /\ c[n] = HeldIn(Holds, r, s)
    BY <2>3 DEF RunsTo
  <2> HIDE DEF H
  <2> DEFINE P == {k \in Nat : k <= n => u[k].out[r] = m.out[r] - c[k] /\ u[k].bad = m.bad}
  <2>6. 0 \in P
    <3>1. u[0] = m /\ c[0] = 0 /\ m.out[r] \in Int
      BY <1>5, <2>5 DEF IsRun, Memory
    <3> QED BY <3>1
  <2>7. ASSUME NEW k \in Nat, k \in P PROVE k + 1 \in P
    <3> SUFFICES ASSUME k + 1 <= n
                 PROVE  u[k + 1].out[r] = m.out[r] - c[k + 1] /\ u[k + 1].bad = m.bad
      OBVIOUS
    <3>1. k + 1 \in 1..n /\ k \in 0..n /\ (k + 1) - 1 = k /\ s[k + 1] \in E
      BY <1>1
    <3>2. u[k].out[r] = m.out[r] - c[k] /\ u[k].bad = m.bad /\ u[k] \in Memory /\ c[k] \in Int
      BY <2>7, <3>1
    <3> HIDE DEF P
    <3>3. u[k + 1] = Destroyed[s[k + 1]][u[k]]
      <4>1. u[k + 1] = F[<<u[k], s[k + 1]>>]
        BY <1>5, <3>1 DEF IsRun
      <4> QED BY <1>4, <3>1, <3>2, <4>1
    <3>4. c[k + 1] = c[k] + Holds[s[k + 1]][r]
      BY <2>4, <2>5, <3>1, <3>2 DEF IsRun
    <3>5. Frees(u[k + 1], u[k], s[k + 1])
      BY <3>1, <3>2, <3>3
    <3>6. u[k + 1].out[r] = u[k].out[r] - Holds[s[k + 1]][r] /\ u[k + 1].bad = u[k].bad
      BY <3>5 DEF Frees
    <3>7. Holds[s[k + 1]][r] \in Int /\ m.out[r] \in Int
      BY <2>1, <3>1 DEF Memory
    <3> QED BY <3>2, <3>4, <3>6, <3>7
  <2> HIDE DEF P
  <2>8. \A k \in Nat : k \in P
    BY <2>6, <2>7, NatSetInduction
  <2> QED BY <1>1, <2>5, <2>8 DEF P
<1>7. u[n].bad = m.bad
  <2> DEFINE P == {k \in Nat : k <= n => u[k].bad = m.bad}
  <2>1. 0 \in P
    BY <1>5 DEF IsRun
  <2>2. ASSUME NEW k \in Nat, k \in P PROVE k + 1 \in P
    <3> SUFFICES ASSUME k + 1 <= n PROVE u[k + 1].bad = m.bad
      OBVIOUS
    <3>1. k + 1 \in 1..n /\ k \in 0..n /\ (k + 1) - 1 = k /\ s[k + 1] \in E /\ u[k] \in Memory
      BY <1>1
    <3>2. u[k].bad = m.bad
      BY <2>2, <3>1
    <3> HIDE DEF P
    <3>3. u[k + 1] = Destroyed[s[k + 1]][u[k]]
      <4>1. u[k + 1] = F[<<u[k], s[k + 1]>>]
        BY <1>5, <3>1 DEF IsRun
      <4> QED BY <1>4, <3>1, <4>1
    <3> QED BY <3>1, <3>2, <3>3 DEF Frees
  <2> HIDE DEF P
  <2>3. \A k \in Nat : k \in P
    BY <2>1, <2>2, NatSetInduction
  <2> QED BY <1>1, <2>3 DEF P
<1>8. u[n] \in Memory
  BY <1>1
<1> QED BY <1>5, <1>6, <1>7, <1>8 DEF FreesAll

LEMMA DestroyedFrees ==
  \A n \in 0..MaxNesting : \A v \in Trees[n], m \in Memory :
    Sound(v) => Frees(Destroyed[v][m], m, v)
<1> DEFINE N == {n \in Nat : n <= MaxNesting =>
                   \A v \in Trees[n], m \in Memory : Sound(v) => Frees(Destroyed[v][m], m, v)}
<1>0. MaxNesting \in Nat /\ Trees[0] = {}
  BY TreesUnfold
<1>1. 0 \in N
  BY <1>0
<1>2. ASSUME NEW n \in Nat, n \in N PROVE n + 1 \in N
  <2> SUFFICES ASSUME n + 1 <= MaxNesting, NEW v \in Trees[n + 1], NEW m \in Memory, Sound(v)
               PROVE  Frees(Destroyed[v][m], m, v)
    OBVIOUS
  <2>1. n + 1 \in 1..MaxNesting /\ (n + 1) - 1 = n
    BY NextLevel
  <2> DEFINE E == {w \in Trees[n] : Sound(w)}
             s == v.items
             a == InTurn(Destroyed, m, s)
             b == GiveBack(a, v.body, v.alloc)
             c == GiveBack(b, v.head, v.res)
  <2>2. E \subseteq AllTrees /\ \A w \in E, k \in Memory : Frees(Destroyed[w][k], k, w)
    BY <1>0, <1>2, LevelsWithin
  <2>3. s \in Seq(E) /\ v \in AllTrees /\ v.body \in Blocks /\ v.head \in Blocks
    BY <2>1, SoundSeq, Elements DEF ValuesOver
  <2> HIDE DEF E, N
  <2>4. FreesAll(a, m, s)
    BY <2>2, <2>3, InTurnFrees
  <2>5. v.head \in {None, v.res} /\ v.body \in {None, v.alloc}
    BY <2>3, SoundElements DEF Bound
  <2>6. Destroyed[v][m] = c
    BY <2>3, DestroyedUnfolds DEF DestroyedAt
  <2> HIDE DEF a
  <2>7. a \in Memory /\ a.bad = m.bad /\ \A r \in Resources : a.out[r] = m.out[r] - HeldIn(Holds, r, s)
    BY <2>4 DEF FreesAll
  <2>8. b \in Memory /\ b.bad = m.bad /\ \A r \in Resources : b.out[r] = a.out[r] - CountOf(v.body, r)
    BY <2>3, <2>5, <2>7, GiveBackGives
  <2> HIDE DEF b
  <2>9. c \in Memory /\ c.bad = m.bad /\ \A r \in Resources : c.out[r] = b.out[r] - CountOf(v.head, r)
    BY <2>3, <2>5, <2>8, GiveBackGives
  <2> HIDE DEF c
  <2>10. ASSUME NEW r \in Resources PROVE c.out[r] = m.out[r] - Holds[v][r]
    <3>1. Holds[v][r] = CountOf(v.head, r) + CountOf(v.body, r) + HeldIn(Holds, r, s)
      BY <2>3, HoldsUnfolds DEF HoldsAt
    <3>2. HeldIn(Holds, r, s) \in Int
      <4>1. \A w \in E : Holds[w][r] \in Int
        BY <2>2, HoldsUnfolds
      <4> QED BY <2>3, <4>1, HeldInType
    <3>3. CountOf(v.head, r) \in Int /\ CountOf(v.body, r) \in Int /\ m.out[r] \in Int
      BY CountType DEF Memory
    <3> HIDE DEF s
    <3> QED BY <2>7, <2>8, <2>9, <3>1, <3>2, <3>3
  <2> QED BY <2>6, <2>9, <2>10 DEF Frees
<1> HIDE DEF N
<1>3. \A n \in Nat : n \in N
  BY <1>1, <1>2, NatSetInduction
<1> QED BY <1>0, <1>3 DEF N

(***************************************************************************)
(* What values without elements, or with one more, hold.                   *)
(***************************************************************************)
LEMMA HeldOfNone ==
  ASSUME NEW q \in Resources
  PROVE  HeldIn(Holds, q, <<>>) = 0
<1>1. \A b \in AllTrees : Holds[b][q] \in Int
  BY HoldsUnfolds
<1>2. 0 \in Int /\ \A a \in Int, b \in AllTrees : a + Holds[b][q] \in Int
  BY <1>1
<1>3. <<>> \in Seq(AllTrees) /\ Len(<<>>) = 0
  OBVIOUS
<1>4. RunsTo(0, Int, 0, HeldStep(Holds, q, Int, AllTrees), <<>>, HeldIn(Holds, q, <<>>))
  BY <1>2, <1>3, HeldRuns
<1> QED BY <1>4 DEF RunsTo, IsRun

LEMMA HeldAppends ==
  ASSUME NEW s \in Seq(AllTrees), NEW c \in AllTrees, NEW q \in Resources
  PROVE  HeldIn(Holds, q, Append(s, c)) = HeldIn(Holds, q, s) + Holds[c][q]
<1> DEFINE t == Append(s, c)
           n == Len(s)
           g == HeldStep(Holds, q, Int, AllTrees)
<1>1. \A b \in AllTrees : Holds[b][q] \in Int
  BY HoldsUnfolds
<1>2. 0 \in Int /\ \A a \in Int, b \in AllTrees : a + Holds[b][q] \in Int
  BY <1>1
<1>3. n \in Nat /\ t \in Seq(AllTrees) /\ Len(t) = n + 1 /\ t[n + 1] = c /\ \A i \in 1..n : t[i] = s[i]
  OBVIOUS
<1> HIDE DEF t, n
<1>4. RunsTo(n, Int, 0, g, s, HeldIn(Holds, q, s))
  BY <1>2, HeldRuns DEF n
<1>5. RunsTo(n + 1, Int, 0, g, t, HeldIn(Holds, q, t))
  <2>1. RunsTo(Len(t), Int, 0, g, t, HeldIn(Holds, q, t))
    BY <1>2, <1>3, HeldRuns
  <2> QED BY <1>3, <2>1
<1>6. \A a \in Int, b \in AllTrees : g[<<a, b>>] = a + Holds[b][q]
  BY DEF HeldStep
<1> HIDE DEF g
<1>7. HeldIn(Holds, q, s) \in Int /\ HeldIn(Holds, q, t) = g[<<HeldIn(Holds, q, s), t[n + 1]>>]
  BY <1>3, <1>4, <1>5, RunAppends
<1> QED BY <1>3, <1>6, <1>7 DEF t

LEMMA HoldsNumbers ==
  ASSUME NEW v \in AllTrees, NEW q \in Resources
  PROVE  /\ Holds[v][q] \in Int /\ HeldIn(Holds, q, v.items) \in Int
         /\ Holds[v][q] = CountOf(v.head, q) + CountOf(v.body, q) + HeldIn(Holds, q, v.items)
<1>1. v.items \in Seq(AllTrees)
  BY TreesUnfold, Elements
<1>2. \A b \in AllTrees : Holds[b][q] \in Int
  BY HoldsUnfolds
<1>3. HeldIn(Holds, q, v.items) \in Int
  BY <1>1, <1>2, HeldInType
<1>4. Holds[v][q] = CountOf(v.head, q) + CountOf(v.body, q) + HeldIn(Holds, q, v.items)
  BY HoldsUnfolds DEF HoldsAt
<1> QED BY <1>2, <1>3, <1>4

\* A value without elements.
LEMMA Leaf ==
  ASSUME NEW type \in Tags, NEW head \in Blocks, NEW res \in Blocks, NEW body \in Blocks, NEW alloc \in Blocks
  PROVE  /\ \A n \in 1..MaxNesting : Value(type, head, res, body, alloc, <<>>) \in Trees[n]
         /\ Value(type, head, res, body, alloc, <<>>) \in AllTrees
         /\ Parts[Value(type, head, res, body, alloc, <<>>)] = {Value(type, head, res, body, alloc, <<>>)}
         /\ \A q \in Resources :
              Holds[Value(type, head, res, body, alloc, <<>>)][q] = CountOf(head, q) + CountOf(body, q)
<1> DEFINE v == Value(type, head, res, body, alloc, <<>>)
<1>1. ASSUME NEW n \in 1..MaxNesting PROVE v \in Trees[n]
  <2>1. n \in 0..MaxNesting /\ n # 0
    OBVIOUS
  <2>2. Trees[n] = ValuesOver(Seq(Trees[n - 1]))
    BY <2>1, TreesUnfold
  <2>3. <<>> \in Seq(Trees[n - 1])
    OBVIOUS
  <2> QED BY <2>2, <2>3 DEF ValuesOver, Value
<1>2. v \in AllTrees
  BY <1>1, TreesUnfold
<1>3. v.items = <<>> /\ Len(v.items) = 0 /\ v.head = head /\ v.body = body
  BY DEF Value
<1> HIDE DEF v
<1>4. Parts[v] = {v}
  BY <1>2, <1>3, PartsUnfolds DEF PartsAt
<1>5. ASSUME NEW q \in Resources PROVE Holds[v][q] = CountOf(head, q) + CountOf(body, q)
  <2>1. Holds[v][q] = CountOf(v.head, q) + CountOf(v.body, q) + HeldIn(Holds, q, v.items)
    BY <1>2, HoldsNumbers
  <2>2. HeldIn(Holds, q, v.items) = 0
    BY <1>3, HeldOfNone
  <2>3. CountOf(head, q) \in Int /\ CountOf(body, q) \in Int
    BY CountType
  <2> QED BY <1>3, <2>1, <2>2, <2>3
<1> QED BY <1>1, <1>2, <1>4, <1>5 DEF v

LEMMA NoneCounts == \A q \in Resources : CountOf(None, q) = 0
BY ValueLifeAssumption DEF CountOf

LEMMA NullHolds ==
  /\ \A n \in 1..MaxNesting : Null \in Trees[n]
  /\ Null \in AllTrees /\ Parts[Null] = {Null} /\ Bound(Null) /\ Sound(Null)
  /\ \A q \in Resources : Holds[Null][q] = 0
<1>1. None \in Blocks /\ "Null" \in Tags
  BY DEF Blocks, Tags
<1>2. /\ \A n \in 1..MaxNesting : Null \in Trees[n]
      /\ Null \in AllTrees /\ Parts[Null] = {Null}
      /\ \A q \in Resources : Holds[Null][q] = CountOf(None, q) + CountOf(None, q)
  BY <1>1, Leaf DEF Null
<1>3. Bound(Null)
  BY DEF Bound, Null, Value
<1> QED BY <1>2, <1>3, NoneCounts DEF Sound

(***************************************************************************)
(* A clone holds what was allocated for it.                                *)
(***************************************************************************)
Outcomes(made) == [mem : Memory, ok : BOOLEAN, made : made]

\* A copy for r: it depends on r alone, and borrows nothing.
Copied(v, r) ==
  \A p \in Parts[v] : Bound(p) /\ p.type # "StringView" /\ {p.head, p.body} \subseteq {None, r}
\* What an operation on memory m makes for r is such a copy, and its blocks are
\* all that is out since; an operation that threw made Null, which holds none.
Gives(o, m, r) ==
  /\ Copied(o.made, r) /\ (~o.ok => o.made = Null) /\ o.mem.bad = m.bad
  /\ \A q \in Resources : o.mem.out[q] = m.out[q] + Holds[o.made][q]

LEMMA CopiedElements ==
  ASSUME NEW v \in AllTrees, NEW r
  PROVE  Copied(v, r) <=> /\ Bound(v) /\ v.type # "StringView" /\ {v.head, v.body} \subseteq {None, r}
                          /\ \A i \in 1..Len(v.items) : Copied(v.items[i], r)
BY PartsOfElements DEF Copied

LEMMA CopiedSound ==
  ASSUME NEW v, NEW r, Copied(v, r)
  PROVE  Sound(v)
BY DEF Copied, Sound

LEMMA TakeGives ==
  ASSUME NEW m \in Memory, NEW r \in Resources
  PROVE  /\ Take(m, r) \in Memory /\ Take(m, r).bad = m.bad
         /\ \A q \in Resources : Take(m, r).out[q] = m.out[q] + CountOf(r, q)
<1>1. m = [out |-> m.out, fuel |-> m.fuel, bad |-> m.bad] /\ m.out \in [Resources -> Int] /\ m.fuel \in Int
  BY DEF Memory
<1>2. Take(m, r) = [out |-> [m.out EXCEPT ![r] = @ + 1], fuel |-> m.fuel - 1, bad |-> m.bad]
  <2>1. Take(m, r) = [m EXCEPT !.out[r] = @ + 1, !.fuel = @ - 1]
    BY DEF Take
  <2> QED BY <1>1, <2>1
<1>3. [m.out EXCEPT ![r] = @ + 1] \in [Resources -> Int] /\ m.fuel - 1 \in Int
  BY <1>1
<1>4. \A q \in Resources : [m.out EXCEPT ![r] = @ + 1][q] = m.out[q] + CountOf(r, q)
  BY <1>1 DEF CountOf
<1> QED BY <1>2, <1>3, <1>4 DEF Memory

LEMMA ThrownGives ==
  ASSUME NEW k \in Memory, NEW m \in Memory, NEW r, k.bad = m.bad, \A q \in Resources : k.out[q] = m.out[q]
  PROVE  /\ \A n \in 1..MaxNesting : Thrown(k) \in Outcomes(Trees[n])
         /\ Thrown(k) \in Outcomes(AllTrees)
         /\ Gives(Thrown(k), m, r) /\ ~Thrown(k).ok /\ Thrown(k).mem = k /\ Thrown(k).made = Null
<1>1. Thrown(k) = [mem |-> k, ok |-> FALSE, made |-> Null]
  BY DEF Thrown
<1>2. Copied(Null, r)
  BY NullHolds DEF Copied, Null, Value
<1>3. \A q \in Resources : m.out[q] \in Int
  BY DEF Memory
<1>4. \A q \in Resources : k.out[q] = m.out[q] + Holds[Null][q]
  BY <1>3, NullHolds
<1>5. Thrown(k).made = Null /\ Thrown(k).mem = k /\ ~Thrown(k).ok
  BY <1>1
<1>6. Gives(Thrown(k), m, r)
  BY <1>2, <1>4, <1>5 DEF Gives
<1>7. Null \in AllTrees /\ \A n \in 1..MaxNesting : Null \in Trees[n]
  BY NullHolds
<1> QED BY <1>1, <1>5, <1>6, <1>7 DEF Outcomes

LEMMA MakeOwnedGives ==
  ASSUME NEW m \in Memory, NEW r \in Resources
  PROVE  /\ \A n \in 1..MaxNesting : MakeOwned(m, r) \in Outcomes(Trees[n])
         /\ MakeOwned(m, r) \in Outcomes(AllTrees) /\ Gives(MakeOwned(m, r), m, r)
<1> DEFINE h == Take(m, r)
           b == Take(h, r)
           g == GiveBack(h, r, r)
           v == Value("StringOwned", r, r, r, r, <<>>)
<1>1. h \in Memory /\ h.bad = m.bad /\ \A q \in Resources : h.out[q] = m.out[q] + CountOf(r, q)
  BY TakeGives
<1>2. MakeOwned(m, r) = IF ~CanAlloc(m) THEN Thrown(m) ELSE IF ~CanAlloc(h) THEN Thrown(g) ELSE Done(b, v)
  BY DEF MakeOwned
<1> HIDE DEF h
<1>3. b \in Memory /\ b.bad = h.bad /\ \A q \in Resources : b.out[q] = h.out[q] + CountOf(r, q)
  BY <1>1, TakeGives
<1>4. r \in Blocks /\ "StringOwned" \in Tags
  BY DEF Blocks, Tags
<1>5. g \in Memory /\ g.bad = h.bad /\ \A q \in Resources : g.out[q] = h.out[q] - CountOf(r, q)
  BY <1>1, <1>4, GiveBackGives
<1>6. /\ \A n \in 1..MaxNesting : v \in Trees[n]
      /\ v \in AllTrees /\ Parts[v] = {v} /\ \A q \in Resources : Holds[v][q] = CountOf(r, q) + CountOf(r, q)
  BY <1>4, Leaf
<1>7. Copied(v, r)
  BY <1>6 DEF Copied, Bound, Value
<1> HIDE DEF b, g, v
<1>8. \A q \in Resources : m.out[q] \in Int /\ CountOf(r, q) \in Int
  BY CountType DEF Memory
<1>9. CASE ~CanAlloc(m)
  BY <1>2, <1>9, ThrownGives
<1>10. CASE CanAlloc(m) /\ ~CanAlloc(h)
  <2>1. MakeOwned(m, r) = Thrown(g)
    BY <1>2, <1>10
  <2>2. g.bad = m.bad /\ \A q \in Resources : g.out[q] = m.out[q]
    BY <1>1, <1>5, <1>8
  <2> QED BY <1>5, <2>1, <2>2, ThrownGives
<1>11. CASE CanAlloc(m) /\ CanAlloc(h)
  <2>1. MakeOwned(m, r) = [mem |-> b, ok |-> TRUE, made |-> v]
    BY <1>2, <1>11 DEF Done
  <2>2. b.bad = m.bad /\ \A q \in Resources : b.out[q] = m.out[q] + Holds[v][q]
    BY <1>1, <1>3, <1>6, <1>8
  <2>3. MakeOwned(m, r).mem = b /\ MakeOwned(m, r).made = v /\ MakeOwned(m, r).ok
    BY <2>1
  <2>4. Gives(MakeOwned(m, r), m, r)
    BY <1>7, <2>2, <2>3 DEF Gives
  <2> QED BY <1>3, <1>6, <2>1, <2>4 DEF Outcomes
<1> QED BY <1>9, <1>10, <1>11

LEMMA Fields ==
  ASSUME NEW S, NEW v \in ValuesOver(S)
  PROVE  /\ v = [type |-> v.type, head |-> v.head, res |-> v.res, body |-> v.body, alloc |-> v.alloc, items |-> v.items]
         /\ v.type \in Tags /\ v.head \in Blocks /\ v.res \in Blocks /\ v.body \in Blocks /\ v.alloc \in Blocks
         /\ v.items \in S
BY DEF ValuesOver

LEMMA AppendIn ==
  ASSUME NEW S, NEW s \in Seq(S), NEW c \in S
  PROVE  Append(s, c) \in Seq(S)
OBVIOUS

\* One more element.
LEMMA Appended ==
  ASSUME NEW n \in 1..MaxNesting, NEW w \in Trees[n], NEW c \in Trees[n - 1],
         NEW x, x = [w EXCEPT !.items = Append(@, c)]
  PROVE  /\ x \in Trees[n] /\ x.type = w.type /\ x.head = w.head /\ x.res = w.res
         /\ x.body = w.body /\ x.alloc = w.alloc /\ x.items = Append(w.items, c)
         /\ \A q \in Resources : Holds[x][q] = Holds[w][q] + Holds[c][q]
         /\ \A r : Copied(w, r) /\ Copied(c, r) => Copied(x, r)
         /\ Sound(w) /\ Sound(c) => Sound(x)
<1>1. w \in ValuesOver(Seq(Trees[n - 1])) /\ w.items \in Seq(Trees[n - 1]) /\ w \in AllTrees
      /\ w.items \in Seq(AllTrees) /\ n - 1 \in 0..MaxNesting
  BY Elements
<1>2. c \in AllTrees
  BY <1>1, LevelsWithin
<1>3. w = [type |-> w.type, head |-> w.head, res |-> w.res, body |-> w.body, alloc |-> w.alloc, items |-> w.items]
      /\ w.type \in Tags /\ w.head \in Blocks /\ w.res \in Blocks /\ w.body \in Blocks /\ w.alloc \in Blocks
  BY <1>1, Fields
<1>4. x = [type |-> w.type, head |-> w.head, res |-> w.res, body |-> w.body, alloc |-> w.alloc,
           items |-> Append(w.items, c)]
  BY <1>3
<1>5. Append(w.items, c) \in Seq(Trees[n - 1])
  BY <1>1, AppendIn
<1>6. Trees[n] = ValuesOver(Seq(Trees[n - 1])) /\ n \in 0..MaxNesting
  BY TreesUnfold
<1>7. x \in Trees[n]
  BY <1>3, <1>4, <1>5, <1>6 DEF ValuesOver
<1>8. x \in AllTrees
  BY <1>6, <1>7, LevelsWithin
<1>9. x.type = w.type /\ x.head = w.head /\ x.res = w.res /\ x.body = w.body /\ x.alloc = w.alloc
      /\ x.items = Append(w.items, c)
  BY <1>4
<1>10. ASSUME NEW q \in Resources PROVE Holds[x][q] = Holds[w][q] + Holds[c][q]
  <2>1. Holds[x][q] = CountOf(x.head, q) + CountOf(x.body, q) + HeldIn(Holds, q, x.items)
    BY <1>8, HoldsNumbers
  <2>2. Holds[w][q] = CountOf(w.head, q) + CountOf(w.body, q) + HeldIn(Holds, q, w.items)
        /\ HeldIn(Holds, q, w.items) \in Int
    BY <1>1, HoldsNumbers
  <2>3. HeldIn(Holds, q, x.items) = HeldIn(Holds, q, w.items) + Holds[c][q]
    BY <1>1, <1>2, <1>9, HeldAppends
  <2>4. CountOf(w.head, q) \in Int /\ CountOf(w.body, q) \in Int /\ Holds[c][q] \in Int
    BY <1>2, CountType, HoldsNumbers
  <2> QED BY <1>9, <2>1, <2>2, <2>3, <2>4
<1>11. \A i \in 1..Len(x.items) :
         x.items[i] = c \/ (i \in 1..Len(w.items) /\ x.items[i] = w.items[i])
  BY <1>1, <1>9
<1>12. ASSUME NEW r, Copied(w, r), Copied(c, r) PROVE Copied(x, r)
  <2>1. Bound(w) /\ w.type # "StringView" /\ {w.head, w.body} \subseteq {None, r}
        /\ \A i \in 1..Len(w.items) : Copied(w.items[i], r)
    BY <1>1, <1>12, CopiedElements
  <2>2. Bound(x) /\ x.type # "StringView" /\ {x.head, x.body} \subseteq {None, r}
    BY <1>9, <2>1 DEF Bound
  <2>3. \A i \in 1..Len(x.items) : Copied(x.items[i], r)
    BY <1>11, <1>12, <2>1
  <2> QED BY <1>8, <2>2, <2>3, CopiedElements
<1>13. ASSUME Sound(w), Sound(c) PROVE Sound(x)
  <2>1. Bound(w) /\ \A i \in 1..Len(w.items) : Sound(w.items[i])
    BY <1>1, <1>13, SoundElements
  <2>2. Bound(x)
    BY <1>9, <2>1 DEF Bound
  <2>3. \A i \in 1..Len(x.items) : Sound(x.items[i])
    BY <1>11, <1>13, <2>1
  <2> QED BY <1>8, <2>2, <2>3, SoundElements
<1> QED BY <1>7, <1>9, <1>10, <1>12, <1>13

\* Another place for a value: what it holds changes by its own blocks alone.
Housed(x, w, head, body, res) == x = [w EXCEPT !.head = head, !.body = body, !.res = res]

LEMMA Rehoused ==
  ASSUME NEW n \in 1..MaxNesting, NEW w \in Trees[n], NEW head \in Blocks, NEW body \in Blocks, NEW res \in Blocks,
         NEW x, Housed(x, w, head, body, res)
  PROVE  /\ x \in Trees[n] /\ x.type = w.type /\ x.head = head /\ x.res = res
         /\ x.body = body /\ x.alloc = w.alloc /\ x.items = w.items
         /\ \A q \in Resources :
              Holds[x][q] = Holds[w][q] - CountOf(w.head, q) - CountOf(w.body, q) + CountOf(head, q) + CountOf(body, q)
<1>1. w \in ValuesOver(Seq(Trees[n - 1])) /\ w \in AllTrees
  BY Elements
<1>2. w = [type |-> w.type, head |-> w.head, res |-> w.res, body |-> w.body, alloc |-> w.alloc, items |-> w.items]
      /\ w.type \in Tags /\ w.alloc \in Blocks /\ w.items \in Seq(Trees[n - 1])
  BY <1>1, Fields
<1>3. x = [type |-> w.type, head |-> head, res |-> res, body |-> body, alloc |-> w.alloc, items |-> w.items]
  BY <1>2 DEF Housed
<1>4. Trees[n] = ValuesOver(Seq(Trees[n - 1])) /\ n \in 0..MaxNesting
  BY TreesUnfold
<1>5. x \in Trees[n]
  BY <1>2, <1>3, <1>4 DEF ValuesOver
<1>6. x \in AllTrees
  BY <1>4, <1>5, LevelsWithin
<1>7. x.type = w.type /\ x.head = head /\ x.res = res /\ x.body = body /\ x.alloc = w.alloc /\ x.items = w.items
  BY <1>3
<1>8. ASSUME NEW q \in Resources
      PROVE  Holds[x][q] = Holds[w][q] - CountOf(w.head, q) - CountOf(w.body, q) + CountOf(head, q) + CountOf(body, q)
  <2>1. Holds[x][q] = CountOf(x.head, q) + CountOf(x.body, q) + HeldIn(Holds, q, x.items)
    BY <1>6, HoldsNumbers
  <2>2. Holds[w][q] = CountOf(w.head, q) + CountOf(w.body, q) + HeldIn(Holds, q, w.items)
        /\ HeldIn(Holds, q, w.items) \in Int
    BY <1>1, HoldsNumbers
  <2>3. CountOf(w.head, q) \in Int /\ CountOf(w.body, q) \in Int /\ CountOf(head, q) \in Int /\ CountOf(body, q) \in Int
    BY CountType
  <2> QED BY <1>7, <2>1, <2>2, <2>3
<1> QED BY <1>5, <1>7, <1>8

\* The array that a clone is building.
Building(n, m, r) ==
  {o \in Outcomes(Trees[n]) :
     Gives(o, m, r) /\ (o.ok => o.made.type = "Array" /\ o.made.head = None /\ o.made.res = r /\ o.made.alloc = r)}

LEMMA ReserveBuilds ==
  ASSUME NEW n \in 1..MaxNesting, NEW m \in Memory, NEW r \in Resources, NEW k \in Nat
  PROVE  Reserve(m, r, k) \in Building(n, m, r)
<1> DEFINE h == Take(m, r)
           x == [EmptyArray(r) EXCEPT !.body = r]
<1>1. h \in Memory /\ h.bad = m.bad /\ \A q \in Resources : h.out[q] = m.out[q] + CountOf(r, q)
  BY TakeGives
<1>2. r \in Blocks /\ None \in Blocks /\ "Array" \in Tags
  BY DEF Blocks, Tags
<1>3. /\ EmptyArray(r) \in Trees[n] /\ EmptyArray(r) \in AllTrees /\ Parts[EmptyArray(r)] = {EmptyArray(r)}
      /\ \A q \in Resources : Holds[EmptyArray(r)][q] = CountOf(None, q) + CountOf(None, q)
  BY <1>2, Leaf DEF EmptyArray
<1>4. x = Value("Array", None, r, r, r, <<>>)
  BY DEF EmptyArray, Value
<1>5. /\ x \in Trees[n] /\ x \in AllTrees /\ Parts[x] = {x}
      /\ \A q \in Resources : Holds[x][q] = CountOf(None, q) + CountOf(r, q)
  BY <1>2, <1>4, Leaf
<1>6. x.type = "Array" /\ x.head = None /\ x.res = r /\ x.alloc = r /\ x.body = r
  BY <1>4 DEF Value
<1>7. EmptyArray(r).type = "Array" /\ EmptyArray(r).head = None /\ EmptyArray(r).res = r
      /\ EmptyArray(r).alloc = r /\ EmptyArray(r).body = None
  BY DEF EmptyArray, Value
<1>8. Reserve(m, r, k) = IF k = 0 THEN Done(m, EmptyArray(r)) ELSE IF ~CanAlloc(m) THEN Thrown(m) ELSE Done(h, x)
  BY DEF Reserve
<1> HIDE DEF h, x
<1>9. \A q \in Resources : m.out[q] \in Int /\ CountOf(r, q) \in Int
  BY CountType DEF Memory
<1>10. CASE k = 0
  <2>1. Reserve(m, r, k) = [mem |-> m, ok |-> TRUE, made |-> EmptyArray(r)]
    BY <1>8, <1>10 DEF Done
  <2>2. Copied(EmptyArray(r), r)
    BY <1>3, <1>7 DEF Copied, Bound
  <2>3. \A q \in Resources : m.out[q] = m.out[q] + Holds[EmptyArray(r)][q]
    BY <1>3, <1>9, NoneCounts
  <2>4. Gives(Reserve(m, r, k), m, r)
    BY <2>1, <2>2, <2>3 DEF Gives
  <2> QED BY <1>3, <1>7, <2>1, <2>4 DEF Building, Outcomes
<1>11. CASE k # 0 /\ ~CanAlloc(m)
  BY <1>8, <1>11, ThrownGives DEF Building
<1>12. CASE k # 0 /\ CanAlloc(m)
  <2>1. Reserve(m, r, k) = [mem |-> h, ok |-> TRUE, made |-> x]
    BY <1>8, <1>12 DEF Done
  <2>2. Copied(x, r)
    BY <1>5, <1>6 DEF Copied, Bound
  <2>3. \A q \in Resources : h.out[q] = m.out[q] + Holds[x][q]
    BY <1>1, <1>5, <1>9, NoneCounts
  <2>4. Gives(Reserve(m, r, k), m, r)
    BY <1>1, <2>1, <2>2, <2>3 DEF Gives
  <2> QED BY <1>1, <1>5, <1>6, <2>1, <2>4 DEF Building, Outcomes
<1> QED BY <1>10, <1>11, <1>12

LEMMA Destroying ==
  ASSUME NEW n \in 1..MaxNesting, NEW v \in Trees[n], NEW m \in Memory, Sound(v)
  PROVE  /\ Destroyed[v][m] \in Memory /\ Destroyed[v][m].bad = m.bad
         /\ \A q \in Resources : Destroyed[v][m].out[q] = m.out[q] - Holds[v][q]
<1>1. n \in 0..MaxNesting
  OBVIOUS
<1>2. Frees(Destroyed[v][m], m, v)
  BY <1>1, DestroyedFrees
<1> QED BY <1>2 DEF Frees

LEMMA CloneNextBuilds ==
  ASSUME NEW n \in 1..MaxNesting, NEW m \in Memory, NEW r \in Resources, NEW a \in Building(n, m, r),
         NEW c \in Outcomes(Trees[n - 1]), Gives(c, a.mem, r)
  PROVE  CloneNext(a, c) \in Building(n, m, r)
<1>1. a \in Outcomes(Trees[n]) /\ Gives(a, m, r)
  BY DEF Building
<1>2. a.mem \in Memory /\ a.made \in Trees[n] /\ c.mem \in Memory /\ c.made \in Trees[n - 1] /\ a.ok \in BOOLEAN
      /\ c.ok \in BOOLEAN
  BY <1>1 DEF Outcomes
<1>3. n \in 0..MaxNesting /\ n - 1 \in 0..MaxNesting /\ a.made \in AllTrees /\ c.made \in AllTrees
  <2>1. n \in 0..MaxNesting /\ n - 1 \in 0..MaxNesting
    BY TreesUnfold
  <2> QED BY <1>2, <2>1, LevelsWithin
<1>4. \A q \in Resources : Holds[a.made][q] \in Int /\ Holds[c.made][q] \in Int /\ m.out[q] \in Int
  BY <1>3, HoldsNumbers DEF Memory
<1>5. CASE ~a.ok
  BY <1>5 DEF CloneNext
<1>6. CASE a.ok /\ c.ok
  <2> DEFINE x == [a.made EXCEPT !.items = Append(@, c.made)]
  <2>1. CloneNext(a, c) = [mem |-> c.mem, ok |-> TRUE, made |-> x]
    BY <1>6 DEF CloneNext, Done
  <2>2. Copied(a.made, r) /\ Copied(c.made, r)
    BY <1>1 DEF Gives
  <2>3. x = [a.made EXCEPT !.items = Append(@, c.made)]
    OBVIOUS
  <2> HIDE DEF x
  <2>4. /\ x \in Trees[n] /\ x.type = a.made.type /\ x.head = a.made.head /\ x.res = a.made.res
        /\ x.alloc = a.made.alloc
        /\ \A q \in Resources : Holds[x][q] = Holds[a.made][q] + Holds[c.made][q]
        /\ Copied(a.made, r) /\ Copied(c.made, r) => Copied(x, r)
    BY <1>2, <2>3, Appended
  <2>5. c.mem.bad = m.bad /\ \A q \in Resources : c.mem.out[q] = m.out[q] + Holds[x][q]
    <3>1. c.mem.bad = a.mem.bad /\ a.mem.bad = m.bad
      BY <1>1 DEF Gives
    <3>2. \A q \in Resources : c.mem.out[q] = a.mem.out[q] + Holds[c.made][q] /\ a.mem.out[q] = m.out[q] + Holds[a.made][q]
      BY <1>1 DEF Gives
    <3> QED BY <1>4, <2>4, <3>1, <3>2
  <2>6. Gives(CloneNext(a, c), m, r)
    BY <2>1, <2>2, <2>4, <2>5 DEF Gives
  <2>7. CloneNext(a, c) \in Outcomes(Trees[n])
    BY <1>2, <2>1, <2>4 DEF Outcomes
  <2>8. a.made.type = "Array" /\ a.made.head = None /\ a.made.res = r /\ a.made.alloc = r
    BY <1>6 DEF Building
  <2> QED BY <2>1, <2>4, <2>6, <2>7, <2>8 DEF Building
<1>7. CASE a.ok /\ ~c.ok
  <2> DEFINE d == Destroyed[a.made][c.mem]
  <2>1. CloneNext(a, c) = Thrown(d)
    BY <1>7 DEF CloneNext
  <2>2. Sound(a.made)
    BY <1>1, CopiedSound DEF Gives
  <2>3. d \in Memory /\ d.bad = c.mem.bad /\ \A q \in Resources : d.out[q] = c.mem.out[q] - Holds[a.made][q]
    BY <1>2, <2>2, Destroying
  <2> HIDE DEF d
  <2>4. Holds[c.made] = Holds[Null] /\ \A q \in Resources : Holds[c.made][q] = 0
    BY <1>7, NullHolds DEF Gives
  <2>5. c.mem.bad = a.mem.bad /\ a.mem.bad = m.bad
    BY <1>1 DEF Gives
  <2>6. \A q \in Resources : c.mem.out[q] = a.mem.out[q] + Holds[c.made][q] /\ a.mem.out[q] = m.out[q] + Holds[a.made][q]
    BY <1>1 DEF Gives
  <2>7. d.bad = m.bad /\ \A q \in Resources : d.out[q] = m.out[q]
    BY <1>4, <2>3, <2>4, <2>5, <2>6
  <2>8. Thrown(d) \in Outcomes(Trees[n]) /\ Gives(Thrown(d), m, r) /\ ~Thrown(d).ok
    BY <2>3, <2>7, ThrownGives
  <2> QED BY <2>1, <2>8 DEF Building
<1> QED BY <1>2, <1>5, <1>6, <1>7

\* A local array becomes the container of a node, or goes with the exception.
LEMMA AdoptGives ==
  ASSUME NEW n \in 1..MaxNesting, NEW m \in Memory, NEW r \in Resources, NEW arr \in Trees[n],
         Sound(arr), arr.head = None, arr.res = r
  PROVE  /\ Adopt(m, arr, r) \in Outcomes(Trees[n]) /\ Sound(Adopt(m, arr, r).made)
         /\ Copied(arr, r) => Copied(Adopt(m, arr, r).made, r)
         /\ ~Adopt(m, arr, r).ok => Adopt(m, arr, r).made = Null
         /\ Adopt(m, arr, r).mem.bad = m.bad
         /\ \A q \in Resources :
              Adopt(m, arr, r).mem.out[q] = m.out[q] - Holds[arr][q] + Holds[Adopt(m, arr, r).made][q]
<1>1. n \in 0..MaxNesting /\ arr \in AllTrees /\ arr \in ValuesOver(Seq(Trees[n - 1]))
  BY Elements
<1>2. r \in Blocks /\ arr.body \in Blocks
  BY <1>1, Fields DEF Blocks
<1>3. \A q \in Resources : m.out[q] \in Int /\ Holds[arr][q] \in Int /\ CountOf(r, q) \in Int
  BY <1>1, HoldsNumbers, CountType DEF Memory
<1>4. CASE ~CanAlloc(m)
  <2> DEFINE d == Destroyed[arr][m]
  <2>1. d \in Memory /\ d.bad = m.bad /\ \A q \in Resources : d.out[q] = m.out[q] - Holds[arr][q]
    BY Destroying
  <2>2. Adopt(m, arr, r) = [mem |-> d, ok |-> FALSE, made |-> Null]
    BY <1>4 DEF Adopt, Thrown
  <2> HIDE DEF d
  <2>3. Null \in Trees[n] /\ Sound(Null) /\ Copied(Null, r) /\ \A q \in Resources : Holds[Null][q] = 0
    BY NullHolds DEF Copied, Null, Value
  <2>4. \A q \in Resources : d.out[q] = m.out[q] - Holds[arr][q] + Holds[Null][q]
    BY <1>3, <2>1, <2>3
  <2> QED BY <2>1, <2>2, <2>3, <2>4 DEF Outcomes
<1>5. CASE CanAlloc(m)
  <2> DEFINE h == Take(m, r)
             x == [arr EXCEPT !.head = r]
  <2>1. h \in Memory /\ h.bad = m.bad /\ \A q \in Resources : h.out[q] = m.out[q] + CountOf(r, q)
    BY TakeGives
  <2>2. Adopt(m, arr, r) = [mem |-> h, ok |-> TRUE, made |-> x]
    BY <1>5 DEF Adopt, Done
  <2>3. Housed(x, arr, r, arr.body, r)
    BY <1>1, Fields DEF Housed
  <2> HIDE DEF h, x
  <2>4. /\ x \in Trees[n] /\ x.type = arr.type /\ x.head = r /\ x.res = r
        /\ x.body = arr.body /\ x.alloc = arr.alloc /\ x.items = arr.items
        /\ \A q \in Resources :
             Holds[x][q] = Holds[arr][q] - CountOf(arr.head, q) - CountOf(arr.body, q) + CountOf(r, q) + CountOf(arr.body, q)
    BY <1>2, <2>3, Rehoused
  <2>5. x \in AllTrees
    BY <1>1, <2>4, LevelsWithin
  <2>6. Bound(arr) /\ \A i \in 1..Len(arr.items) : Sound(arr.items[i])
    BY <1>1, SoundElements
  <2>7. Bound(x)
    BY <2>4, <2>6 DEF Bound
  <2>8. Sound(x)
    BY <2>4, <2>5, <2>6, <2>7, SoundElements
  <2>9. ASSUME Copied(arr, r) PROVE Copied(x, r)
    <3>1. arr.type # "StringView" /\ {arr.head, arr.body} \subseteq {None, r}
          /\ \A i \in 1..Len(arr.items) : Copied(arr.items[i], r)
      BY <1>1, <2>9, CopiedElements
    <3> QED BY <2>4, <2>5, <2>7, <3>1, CopiedElements
  <2>10. \A q \in Resources : h.out[q] = m.out[q] - Holds[arr][q] + Holds[x][q]
    <3>1. \A q \in Resources : CountOf(arr.head, q) = 0 /\ CountOf(arr.body, q) \in Int
      BY NoneCounts, CountType
    <3> QED BY <1>3, <2>1, <2>4, <3>1
  <2> QED BY <2>1, <2>2, <2>4, <2>8, <2>9, <2>10 DEF Outcomes
<1> QED BY <1>4, <1>5

\* d clones the values S within S, and as Gives says.
Clones(d, S) ==
  \A v \in S : /\ d[v] = [r \in Resources |-> [m \in Memory |-> d[v][r][m]]]
               /\ \A r \in Resources, m \in Memory :
                    d[v][r][m] \in Outcomes(S) /\ Gives(d[v][r][m], m, r)

\* The elements of a clone, one after the other.
LEMMA ElementsCloned ==
  ASSUME NEW n \in 1..MaxNesting, NEW d, Clones(d, Trees[n - 1]),
         NEW r \in Resources, NEW m \in Memory, NEW s \in Seq(Trees[n - 1]), NEW base \in Building(n, m, r)
  PROVE  /\ CloneInto(d, base, s, r) \in Building(n, m, r)
         /\ RunsTo(Len(s), Building(n, m, r), base, CopyStep(d, r, Building(n, m, r), Trees[n - 1]), s,
                   CloneInto(d, base, s, r))
<1> DEFINE D == Building(n, m, r)
           E == Trees[n - 1]
<1>1. ASSUME NEW a \in D, NEW b \in E PROVE CloneNext(a, d[b][r][a.mem]) \in D
  <2>1. a.mem \in Memory
    BY DEF Building, Outcomes
  <2>2. d[b][r][a.mem] \in Outcomes(E) /\ Gives(d[b][r][a.mem], a.mem, r)
    BY <2>1 DEF Clones
  <2> QED BY <2>2, CloneNextBuilds
<1> HIDE DEF D, E
<1>2. base \in D /\ s \in Seq(E) /\ Len(s) \in Nat
  BY DEF D, E
<1>3. RunsTo(Len(s), D, base, CopyStep(d, r, D, E), s, CloneInto(d, base, s, r))
  BY <1>1, <1>2, CopyRuns
<1>4. CloneInto(d, base, s, r) \in D
  BY <1>2, <1>3, RunEnds
<1> QED BY <1>3, <1>4 DEF D, E

LEMMA OutcomesGrow ==
  \A n \in 0..MaxNesting : Outcomes(Trees[n]) \subseteq Outcomes(AllTrees)
BY LevelsWithin DEF Outcomes

LEMMA CloneOfGives ==
  ASSUME NEW n \in 1..MaxNesting, NEW d, Clones(d, Trees[n - 1]), NEW v \in Trees[n],
         NEW r \in Resources, NEW m \in Memory
  PROVE  CloneOf(d, v, r, m) \in Outcomes(Trees[n]) /\ Gives(CloneOf(d, v, r, m), m, r)
<1> DEFINE c == CloneOf(d, v, r, m)
<1>1. v \in ValuesOver(Seq(Trees[n - 1])) /\ v.items \in Seq(Trees[n - 1]) /\ Len(v.items) \in Nat
  BY Elements
<1>2. v.type \in {"Null", "StringView", "StringOwned", "Array"}
  BY <1>1, Fields DEF Tags
<1>3. CASE v.type = "Null"
  <2>1. c = [mem |-> m, ok |-> TRUE, made |-> Null]
    BY <1>3 DEF CloneOf, Done
  <2>2. Null \in Trees[n] /\ Copied(Null, r) /\ \A q \in Resources : Holds[Null][q] = 0
    BY NullHolds DEF Copied, Null, Value
  <2>3. \A q \in Resources : m.out[q] = m.out[q] + Holds[Null][q]
    BY <2>2 DEF Memory
  <2> HIDE DEF c
  <2> QED BY <2>1, <2>2, <2>3 DEF Gives, Outcomes, c
<1>4. CASE v.type \in {"StringView", "StringOwned"}
  <2>1. c = MakeOwned(m, r)
    BY <1>4 DEF CloneOf, CloneString
  <2> QED BY <2>1, MakeOwnedGives
<1>5. CASE v.type = "Array"
  <2> DEFINE e == Reserve(m, r, Len(v.items))
             b == CloneInto(d, e, v.items, r)
  <2>1. c = CloneArray(b, v, r)
    BY <1>5 DEF CloneOf
  <2>2. e \in Building(n, m, r)
    BY <1>1, ReserveBuilds
  <2> HIDE DEF e, c
  <2>3. b \in Building(n, m, r)
    BY <1>1, <2>2, ElementsCloned
  <2> HIDE DEF b
  <2>4. b \in Outcomes(Trees[n]) /\ Gives(b, m, r) /\ b.mem \in Memory /\ b.made \in Trees[n] /\ b.ok \in BOOLEAN
    BY <2>3 DEF Building, Outcomes
  <2>5. CASE ~b.ok
    BY <2>1, <2>4, <2>5 DEF CloneArray, c
  <2>6. CASE b.ok
    <3> DEFINE a == Adopt(b.mem, b.made, r)
    <3>1. c = a
      BY <2>1, <2>6 DEF CloneArray, HeadResource
    <3>2. b.made.head = None /\ b.made.res = r
      BY <2>3, <2>6 DEF Building
    <3>3. Copied(b.made, r) /\ Sound(b.made)
      BY <2>4, CopiedSound DEF Gives
    <3>4. /\ a \in Outcomes(Trees[n]) /\ Copied(a.made, r) /\ (~a.ok => a.made = Null)
          /\ a.mem.bad = b.mem.bad
          /\ \A q \in Resources : a.mem.out[q] = b.mem.out[q] - Holds[b.made][q] + Holds[a.made][q]
      BY <2>4, <3>2, <3>3, AdoptGives
    <3> HIDE DEF a
    <3>5. \A q \in Resources : m.out[q] \in Int /\ Holds[b.made][q] \in Int /\ Holds[a.made][q] \in Int
      <4>1. n \in 0..MaxNesting /\ a.made \in Trees[n]
        BY <3>4 DEF Outcomes
      <4>2. a.made \in AllTrees /\ b.made \in AllTrees
        BY <2>4, <4>1, LevelsWithin
      <4> QED BY <4>2, HoldsNumbers DEF Memory
    <3>6. b.mem.bad = m.bad /\ \A q \in Resources : b.mem.out[q] = m.out[q] + Holds[b.made][q]
      BY <2>4 DEF Gives
    <3>7. \A q \in Resources : a.mem.out[q] = m.out[q] + Holds[a.made][q]
      BY <3>4, <3>5, <3>6
    <3> QED BY <3>1, <3>4, <3>6, <3>7 DEF Gives, c
  <2> QED BY <2>4, <2>5, <2>6
<1> QED BY <1>2, <1>3, <1>4, <1>5

LEMMA CloneOfLocal ==
  ASSUME NEW n \in 1..MaxNesting, NEW d, NEW e, Clones(d, Trees[n - 1]), \A v \in Trees[n - 1] : d[v] = e[v],
         NEW v \in Trees[n], NEW r \in Resources, NEW m \in Memory
  PROVE  CloneOf(d, v, r, m) = CloneOf(e, v, r, m)
<1> DEFINE D == Building(n, m, r)
           E == Trees[n - 1]
           s == v.items
           base == Reserve(m, r, Len(v.items))
           F == CopyStep(d, r, D, E)
           H == CopyStep(e, r, D, E)
<1>1. s \in Seq(E) /\ Len(s) \in Nat /\ \A i \in 1..Len(s) : s[i] \in E
  BY Elements
<1>2. base \in D
  BY <1>1, ReserveBuilds
<1>3. Clones(e, Trees[n - 1])
  BY DEF Clones
<1> HIDE DEF base
<1>4. RunsTo(Len(s), D, base, F, s, CloneInto(d, base, s, r))
  BY <1>1, <1>2, ElementsCloned
<1>5. RunsTo(Len(s), D, base, H, s, CloneInto(e, base, s, r))
  BY <1>1, <1>2, <1>3, ElementsCloned
<1>6. \A a \in D, b \in E : F[<<a, b>>] = H[<<a, b>>]
  BY DEF CopyStep
<1> HIDE DEF F, H, D, E, s
<1>7. \A a \in D, i \in 1..Len(s) : F[<<a, s[i]>>] = H[<<a, s[i]>>]
  BY <1>1, <1>6
<1>8. CloneInto(d, base, s, r) = CloneInto(e, base, s, r)
  BY <1>1, <1>4, <1>5, <1>7, RunsEqual
<1> QED BY <1>8 DEF CloneOf, s, base

CloneStep(d, v) == [r \in Resources |-> [m \in Memory |-> CloneOf(d, v, r, m)]]

LEMMA CloneUnfolds ==
  /\ \A n \in 0..MaxNesting : Clones(Clone, Trees[n])
  /\ \A v \in AllTrees : Clone[v] = CloneStep(Clone, v)
<1> DEFINE All == [AllTrees -> [Resources -> [Memory -> Outcomes(AllTrees)]]]
           G == {d \in All : \A n \in 0..MaxNesting : Clones(d, Trees[n])}
           Phi == [d \in G |-> [v \in AllTrees |-> CloneStep(d, v)]]
           Table(d) == d = [v \in AllTrees |-> [r \in Resources |-> [m \in Memory |-> CloneOf(d, v, r, m)]]]
<1>1. \A d \in G : d = [v \in AllTrees |-> d[v]]
  OBVIOUS
<1>2. ASSUME NEW d \in G PROVE [v \in AllTrees |-> CloneStep(d, v)] \in G
  <2> DEFINE h == [v \in AllTrees |-> CloneStep(d, v)]
  <2>1. ASSUME NEW n \in 0..MaxNesting, n # 0 PROVE Clones(h, Trees[n])
    <3>1. n \in 1..MaxNesting /\ n - 1 \in 0..MaxNesting
      BY <2>1, TreesUnfold
    <3>2. Clones(d, Trees[n - 1])
      BY <3>1
    <3>3. ASSUME NEW v \in Trees[n], NEW r \in Resources, NEW m \in Memory
          PROVE  CloneOf(d, v, r, m) \in Outcomes(Trees[n]) /\ Gives(CloneOf(d, v, r, m), m, r)
      BY <3>1, <3>2, CloneOfGives
    <3>4. \A v \in Trees[n] : h[v] = [r \in Resources |-> [m \in Memory |-> CloneOf(d, v, r, m)]]
      BY LevelsWithin DEF CloneStep
    <3> HIDE DEF h, G
    <3>5. ASSUME NEW v \in Trees[n], NEW r \in Resources, NEW m \in Memory
          PROVE  h[v][r][m] = CloneOf(d, v, r, m)
      <4>1. h[v][r] = [k \in Memory |-> CloneOf(d, v, r, k)]
        BY <3>4
      <4> QED BY <4>1
    <3>6. \A v \in Trees[n] : h[v] = [r \in Resources |-> [m \in Memory |-> h[v][r][m]]]
      BY <3>4, <3>5
    <3> QED BY <3>3, <3>5, <3>6 DEF Clones
  <2>2. Clones(h, Trees[0])
    BY TreesUnfold DEF Clones
  <2>3. \A n \in 0..MaxNesting : Clones(h, Trees[n])
    BY <2>1, <2>2
  <2>4. h \in All
    <3>1. Clones(h, AllTrees) /\ h = [v \in AllTrees |-> h[v]]
      BY <2>3, TreesUnfold
    <3> HIDE DEF h, G
    <3>2. \A v \in AllTrees : h[v] = [r \in Resources |-> [m \in Memory |-> h[v][r][m]]]
      BY <3>1 DEF Clones
    <3>3. \A v \in AllTrees, r \in Resources, m \in Memory : h[v][r][m] \in Outcomes(AllTrees)
      BY <3>1 DEF Clones
    <3>4. \A v \in AllTrees : h[v] \in [Resources -> [Memory -> Outcomes(AllTrees)]]
      BY <3>2, <3>3
    <3> QED BY <3>1, <3>4
  <2> QED BY <2>3, <2>4
<1>3. Phi \in [G -> G] /\ \A d \in G, v \in AllTrees : Phi[d][v] = CloneStep(d, v)
  BY <1>2
<1>4. G # {}
  <2> DEFINE d == [v \in AllTrees |-> [r \in Resources |-> [m \in Memory |-> Thrown(m)]]]
  <2>1. \A m \in Memory, r \in Resources :
          /\ \A n \in 1..MaxNesting : Thrown(m) \in Outcomes(Trees[n])
          /\ Thrown(m) \in Outcomes(AllTrees) /\ Gives(Thrown(m), m, r)
    BY ThrownGives
  <2>2. d \in All
    BY <2>1
  <2>3. \A v \in AllTrees : d[v] = [r \in Resources |-> [m \in Memory |-> Thrown(m)]]
    OBVIOUS
  <2> HIDE DEF d
  <2>4. ASSUME NEW v \in AllTrees, NEW r \in Resources, NEW m \in Memory PROVE d[v][r][m] = Thrown(m)
    <3>1. d[v] = [q \in Resources |-> [k \in Memory |-> Thrown(k)]]
      BY <2>3
    <3>2. d[v][r] = [k \in Memory |-> Thrown(k)]
      BY <3>1
    <3> QED BY <3>2
  <2>5. ASSUME NEW n \in 1..MaxNesting PROVE Clones(d, Trees[n])
    <3>1. Trees[n] \subseteq AllTrees
      BY TreesUnfold, LevelsWithin
    <3>2. \A v \in Trees[n] : d[v] = [r \in Resources |-> [m \in Memory |-> d[v][r][m]]]
      BY <2>3, <2>4, <3>1
    <3>3. \A v \in Trees[n], r \in Resources, m \in Memory :
            d[v][r][m] \in Outcomes(Trees[n]) /\ Gives(d[v][r][m], m, r)
      BY <2>1, <2>4, <3>1
    <3> QED BY <3>2, <3>3 DEF Clones
  <2>6. Clones(d, Trees[0])
    BY TreesUnfold DEF Clones
  <2>7. \A n \in 0..MaxNesting : n = 0 \/ n \in 1..MaxNesting
    OBVIOUS
  <2>8. d \in G
    BY <2>2, <2>5, <2>6, <2>7
  <2> QED BY <2>8
<1>5. \A n \in 1..MaxNesting : Trees[n] \subseteq AllTrees
  BY TreesUnfold, LevelsWithin
<1>6. ASSUME NEW d \in G, NEW e \in G, NEW n \in 1..MaxNesting, \A v \in Trees[n - 1] : d[v] = e[v]
      PROVE  \A v \in Trees[n] : Phi[d][v] = Phi[e][v]
  <2>1. n - 1 \in 0..MaxNesting
    BY TreesUnfold
  <2>2. Clones(d, Trees[n - 1])
    BY <2>1
  <2>3. \A v \in Trees[n], r \in Resources, m \in Memory : CloneOf(d, v, r, m) = CloneOf(e, v, r, m)
    BY <1>6, <2>2, CloneOfLocal
  <2>4. \A v \in Trees[n] : CloneStep(d, v) = CloneStep(e, v)
    BY <2>3 DEF CloneStep
  <2> HIDE DEF Phi
  <2> QED BY <1>3, <1>5, <2>4
<1>7. \A d \in G : Phi[d] = [v \in AllTrees |-> CloneStep(d, v)]
  OBVIOUS
<1>8. \A d \in G, n \in 0..MaxNesting : Clones(d, Trees[n])
  OBVIOUS
<1> HIDE DEF Phi, G
<1>9. PICK d \in G : d = Phi[d]
  BY <1>1, <1>3, <1>4, <1>6, FixedPoint
<1>10. Table(d)
  BY <1>7, <1>9, Zenon DEF CloneStep
<1>11. Clone = CHOOSE e : Table(e)
  BY DEF Clone
<1>12. Table(Clone)
  <2> HIDE DEF Table
  <2> QED BY <1>10, <1>11
<1>13. Clone = [v \in AllTrees |-> CloneStep(Clone, v)]
  BY <1>12, Zenon DEF CloneStep
<1>14. ASSUME NEW n \in 1..MaxNesting, \A v \in Trees[n - 1] : d[v] = Clone[v]
       PROVE  \A v \in Trees[n] : d[v] = Clone[v]
  <2>1. n - 1 \in 0..MaxNesting
    BY TreesUnfold
  <2>2. Clones(d, Trees[n - 1])
    BY <1>8, <2>1
  <2>3. \A v \in Trees[n], r \in Resources, m \in Memory : CloneOf(d, v, r, m) = CloneOf(Clone, v, r, m)
    BY <1>14, <2>2, CloneOfLocal
  <2>4. \A v \in Trees[n] : CloneStep(d, v) = CloneStep(Clone, v)
    BY <2>3 DEF CloneStep
  <2>5. \A v \in Trees[n] : v \in AllTrees /\ d[v] = CloneStep(d, v)
    BY <1>3, <1>5, <1>9
  <2> HIDE DEF Table
  <2> QED BY <1>13, <2>4, <2>5
<1>15. \A v \in AllTrees : d[v] = Clone[v]
  <2> HIDE DEF Table
  <2> QED BY <1>14, SamePoint
<1>16. Clone = d
  BY <1>1, <1>13, <1>15
<1> QED BY <1>8, <1>13, <1>16

(***************************************************************************)
(* The inductive invariant: every value is bound to where its nodes came   *)
(* from, every block is accounted for, and clones stand alone.             *)
(***************************************************************************)
ValuesHold(v, r) == SumFunction([j \in Values |-> Holds[v[j]][r]])
ArraysHold(a, r) == SumFunction([x \in Arrays |-> Holds[a[x]][r]])

SoundValues(v) == v \in [Values -> AllTrees] /\ \A j \in Values : Sound(v[j])
SoundArrays(a) ==
  /\ a \in [Arrays -> AllTrees]
  /\ \A x \in Arrays : Sound(a[x]) /\ a[x].type = "Array" /\ a[x].head = None
Balanced(m, v, a) ==
  m \in Memory /\ ~m.bad /\ \A r \in Resources : m.out[r] = ValuesHold(v, r) + ArraysHold(a, r)
FromOne(v, c) == c \in [Values -> Blocks] /\ \A j \in Values : c[j] # None => Copied(v[j], c[j])

ValueInvariant ==
  /\ SoundValues(value) /\ SoundArrays(array)
  /\ Balanced(pool, value, array) /\ FromOne(value, cloned)

LEMMA ValueReplaced ==
  ASSUME NEW v, SoundValues(v), NEW j \in Values, NEW w \in AllTrees, Sound(w)
  PROVE  /\ SoundValues([v EXCEPT ![j] = w])
         /\ \A r \in Resources :
              /\ ValuesHold(v, r) \in Int /\ Holds[v[j]][r] \in Int /\ Holds[w][r] \in Int
              /\ ValuesHold([v EXCEPT ![j] = w], r) = ValuesHold(v, r) - Holds[v[j]][r] + Holds[w][r]
<1> DEFINE u == [v EXCEPT ![j] = w]
<1>1. v \in [Values -> AllTrees] /\ \A i \in Values : Sound(v[i])
  BY DEF SoundValues
<1>2. u \in [Values -> AllTrees] /\ u[j] = w /\ \A i \in Values \ {j} : u[i] = v[i]
  BY <1>1
<1> HIDE DEF u
<1>3. \A i \in Values : Sound(u[i])
  BY <1>1, <1>2
<1>4. ASSUME NEW r \in Resources
      PROVE  /\ ValuesHold(v, r) \in Int /\ Holds[v[j]][r] \in Int /\ Holds[w][r] \in Int
             /\ ValuesHold(u, r) = ValuesHold(v, r) - Holds[v[j]][r] + Holds[w][r]
  <2> DEFINE f == [i \in Values |-> Holds[v[i]][r]]
             g == [i \in Values |-> Holds[u[i]][r]]
  <2>1. \A t \in AllTrees : Holds[t][r] \in Int
    BY HoldsNumbers
  <2>2. f \in [Values -> Int] /\ g \in [Values -> Int]
    BY <1>1, <1>2, <2>1
  <2>3. f[j] = Holds[v[j]][r] /\ g[j] = Holds[w][r] /\ \A i \in Values \ {j} : g[i] = f[i]
    BY <1>2
  <2>4. IsFiniteSet(Values)
    BY ValueLifeAssumption
  <2> HIDE DEF f, g
  <2>5. SumFunction(f) \in Int
    BY <2>2, <2>4, SumType
  <2>6. SumFunction(g) = SumFunction(f) - f[j] + g[j]
    BY <2>2, <2>3, <2>4, SumChanges
  <2>7. ValuesHold(v, r) = SumFunction(f) /\ ValuesHold(u, r) = SumFunction(g)
    BY DEF ValuesHold, f, g
  <2> QED BY <1>1, <2>1, <2>3, <2>5, <2>6, <2>7
<1>5. SoundValues(u)
  BY <1>2, <1>3 DEF SoundValues
<1> QED BY <1>4, <1>5 DEF u

LEMMA ArrayReplaced ==
  ASSUME NEW v, SoundArrays(v), NEW j \in Arrays, NEW w \in AllTrees, Sound(w), w.type = "Array", w.head = None
  PROVE  /\ SoundArrays([v EXCEPT ![j] = w])
         /\ \A r \in Resources :
              /\ ArraysHold(v, r) \in Int /\ Holds[v[j]][r] \in Int /\ Holds[w][r] \in Int
              /\ ArraysHold([v EXCEPT ![j] = w], r) = ArraysHold(v, r) - Holds[v[j]][r] + Holds[w][r]
<1> DEFINE u == [v EXCEPT ![j] = w]
<1>1. v \in [Arrays -> AllTrees] /\ \A i \in Arrays : Sound(v[i]) /\ v[i].type = "Array" /\ v[i].head = None
  BY DEF SoundArrays
<1>2. u \in [Arrays -> AllTrees] /\ u[j] = w /\ \A i \in Arrays \ {j} : u[i] = v[i]
  BY <1>1
<1> HIDE DEF u
<1>3. \A i \in Arrays : Sound(u[i]) /\ u[i].type = "Array" /\ u[i].head = None
  BY <1>1, <1>2
<1>4. ASSUME NEW r \in Resources
      PROVE  /\ ArraysHold(v, r) \in Int /\ Holds[v[j]][r] \in Int /\ Holds[w][r] \in Int
             /\ ArraysHold(u, r) = ArraysHold(v, r) - Holds[v[j]][r] + Holds[w][r]
  <2> DEFINE f == [i \in Arrays |-> Holds[v[i]][r]]
             g == [i \in Arrays |-> Holds[u[i]][r]]
  <2>1. \A t \in AllTrees : Holds[t][r] \in Int
    BY HoldsNumbers
  <2>2. f \in [Arrays -> Int] /\ g \in [Arrays -> Int]
    BY <1>1, <1>2, <2>1
  <2>3. f[j] = Holds[v[j]][r] /\ g[j] = Holds[w][r] /\ \A i \in Arrays \ {j} : g[i] = f[i]
    BY <1>2
  <2>4. IsFiniteSet(Arrays)
    BY ValueLifeAssumption
  <2> HIDE DEF f, g
  <2>5. SumFunction(f) \in Int
    BY <2>2, <2>4, SumType
  <2>6. SumFunction(g) = SumFunction(f) - f[j] + g[j]
    BY <2>2, <2>3, <2>4, SumChanges
  <2>7. ArraysHold(v, r) = SumFunction(f) /\ ArraysHold(u, r) = SumFunction(g)
    BY DEF ArraysHold, f, g
  <2> QED BY <1>1, <2>1, <2>3, <2>5, <2>6, <2>7
<1>5. SoundArrays(u)
  BY <1>2, <1>3 DEF SoundArrays
<1> QED BY <1>4, <1>5 DEF u

\* Values whose clone mark goes, and values that stay as they were.
LEMMA MarksTouched ==
  ASSUME NEW v, NEW c, FromOne(v, c), NEW w, NEW js, \A j \in Values \ js : w[j] = v[j]
  PROVE  FromOne(w, [j \in Values |-> IF j \in js THEN None ELSE c[j]])
<1>1. c \in [Values -> Blocks] /\ \A j \in Values : c[j] # None => Copied(v[j], c[j])
  BY DEF FromOne
<1>2. None \in Blocks
  BY DEF Blocks
<1> QED BY <1>1, <1>2 DEF FromOne

LEMMA Refuelled ==
  ASSUME NEW m \in Memory, NEW n \in Int
  PROVE  /\ [m EXCEPT !.fuel = n] \in Memory
         /\ [m EXCEPT !.fuel = n].out = m.out /\ [m EXCEPT !.fuel = n].bad = m.bad
<1>1. m = [out |-> m.out, fuel |-> m.fuel, bad |-> m.bad] /\ m.out \in [Resources -> Int] /\ m.bad \in BOOLEAN
  BY DEF Memory
<1>2. [m EXCEPT !.fuel = n] = [out |-> m.out, fuel |-> n, bad |-> m.bad]
  BY <1>1
<1> QED BY <1>1, <1>2 DEF Memory

LEMMA FuelNumbers == Unlimited \in Int /\ \A n \in Fuels : n \in Int
BY ValueLifeAssumption DEF Unlimited, Fuels

\* What a step leaves settles the invariant.
LEMMA Settled ==
  ASSUME NEW m, Settle(m), SoundValues(value'), SoundArrays(array'), FromOne(value', cloned'),
         Balanced(m, value', array')
  PROVE  ValueInvariant'
<1>1. m \in Memory /\ ~m.bad
  BY DEF Balanced
<1>2. pool' \in Memory /\ pool'.out = m.out /\ pool'.bad = m.bad
  BY <1>1, FuelNumbers, Refuelled DEF Settle
<1>3. Balanced(pool', value', array')
  BY <1>1, <1>2 DEF Balanced
<1> QED BY <1>3 DEF ValueInvariant

LEMMA DestroyingAny ==
  ASSUME NEW v \in AllTrees, NEW m \in Memory, Sound(v)
  PROVE  /\ Destroyed[v][m] \in Memory /\ Destroyed[v][m].bad = m.bad
         /\ \A q \in Resources : Destroyed[v][m].out[q] = m.out[q] - Holds[v][q]
<1>1. MaxNesting \in 1..MaxNesting
  BY TreesUnfold
<1>2. v \in Trees[MaxNesting]
  BY TreesUnfold
<1> QED BY <1>1, <1>2, Destroying

(***************************************************************************)
(* Each step keeps it.                                                     *)
(***************************************************************************)
LEMMA Standing ==
  ASSUME ValueInvariant
  PROVE  /\ SoundValues(value) /\ SoundArrays(array) /\ FromOne(value, cloned)
         /\ \A j \in Values : value[j] \in AllTrees /\ Sound(value[j])
         /\ \A a \in Arrays : /\ array[a] \in AllTrees /\ Sound(array[a])
                              /\ array[a].type = "Array" /\ array[a].head = None
         /\ pool \in Memory /\ ~pool.bad
         /\ \A r \in Resources : pool.out[r] = ValuesHold(value, r) + ArraysHold(array, r)
BY DEF ValueInvariant, SoundValues, SoundArrays, Balanced

\* The memory that a step with limited allocations begins with.
LEMMA StandingFuelled ==
  ASSUME ValueInvariant, NEW n \in Fuels
  PROVE  /\ Fuelled(n) \in Memory /\ ~Fuelled(n).bad
         /\ \A r \in Resources : Fuelled(n).out[r] = ValuesHold(value, r) + ArraysHold(array, r)
<1>1. pool \in Memory /\ ~pool.bad /\ \A r \in Resources : pool.out[r] = ValuesHold(value, r) + ArraysHold(array, r)
  BY Standing
<1> QED BY <1>1, Refuelled, FuelNumbers DEF Fuelled

\* The caller's arrays hold numbers of blocks.
LEMMA ArraysNumbers ==
  ASSUME NEW a, SoundArrays(a)
  PROVE  \A r \in Resources : ArraysHold(a, r) \in Int
<1> SUFFICES ASSUME NEW r \in Resources PROVE ArraysHold(a, r) \in Int
  OBVIOUS
<1> DEFINE f == [i \in Arrays |-> Holds[a[i]][r]]
<1>1. \A i \in Arrays : Holds[a[i]][r] \in Int
  BY HoldsNumbers DEF SoundArrays
<1>2. f \in [Arrays -> Int] /\ IsFiniteSet(Arrays)
  BY <1>1, ValueLifeAssumption
<1> HIDE DEF f
<1>3. SumFunction(f) \in Int
  BY <1>2, SumType
<1> QED BY <1>3 DEF ArraysHold, f

LEMMA ValuesNumbers ==
  ASSUME NEW v, SoundValues(v)
  PROVE  \A r \in Resources : ValuesHold(v, r) \in Int
<1> SUFFICES ASSUME NEW r \in Resources PROVE ValuesHold(v, r) \in Int
  OBVIOUS
<1> DEFINE f == [i \in Values |-> Holds[v[i]][r]]
<1>1. \A i \in Values : Holds[v[i]][r] \in Int
  BY HoldsNumbers DEF SoundValues
<1>2. f \in [Values -> Int] /\ IsFiniteSet(Values)
  BY <1>1, ValueLifeAssumption
<1> HIDE DEF f
<1>3. SumFunction(f) \in Int
  BY <1>2, SumType
<1> QED BY <1>3 DEF ValuesHold, f

\* A value takes the place of what value[j] held, made with memory m.
LEMMA Replaced ==
  ASSUME ValueInvariant, NEW j \in Values, NEW w \in AllTrees, Sound(w), NEW m \in Memory, ~m.bad,
         \A r \in Resources : m.out[r] = ValuesHold(value, r) + ArraysHold(array, r) + Holds[w][r]
  PROVE  /\ SoundValues([value EXCEPT ![j] = w])
         /\ Balanced(Destroyed[value[j]][m], [value EXCEPT ![j] = w], array)
<1> DEFINE u == [value EXCEPT ![j] = w]
           d == Destroyed[value[j]][m]
<1>1. value[j] \in AllTrees /\ Sound(value[j]) /\ SoundValues(value) /\ SoundArrays(array)
  BY Standing
<1>2. d \in Memory /\ d.bad = m.bad /\ \A r \in Resources : d.out[r] = m.out[r] - Holds[value[j]][r]
  BY <1>1, DestroyingAny
<1>3. /\ SoundValues(u)
      /\ \A r \in Resources :
           /\ ValuesHold(value, r) \in Int /\ Holds[value[j]][r] \in Int /\ Holds[w][r] \in Int
           /\ ValuesHold(u, r) = ValuesHold(value, r) - Holds[value[j]][r] + Holds[w][r]
  BY <1>1, ValueReplaced
<1>4. \A r \in Resources : ArraysHold(array, r) \in Int
  BY <1>1, ArraysNumbers
<1> HIDE DEF u, d
<1>5. \A r \in Resources : d.out[r] = ValuesHold(u, r) + ArraysHold(array, r)
  BY <1>2, <1>3, <1>4
<1>6. Balanced(d, u, array)
  BY <1>2, <1>5 DEF Balanced
<1> QED BY <1>3, <1>6 DEF u, d

\* The clone marks of the values that change go.
LEMMA MarksGo ==
  ASSUME ValueInvariant, NEW js, Touched(js), NEW u, \A i \in Values \ js : u[i] = value[i]
  PROVE  FromOne(u, cloned')
<1>1. FromOne(value, cloned)
  BY Standing
<1>2. FromOne(u, [i \in Values |-> IF i \in js THEN None ELSE cloned[i]])
  BY <1>1, MarksTouched
<1> QED BY <1>2 DEF Touched

LEMMA OneTouched ==
  ASSUME ValueInvariant, NEW j \in Values, NEW w, Touched({j})
  PROVE  FromOne([value EXCEPT ![j] = w], cloned')
<1> DEFINE u == [value EXCEPT ![j] = w]
<1>1. \A i \in Values \ {j} : u[i] = value[i]
  BY Standing DEF SoundValues
<1> HIDE DEF u
<1>2. FromOne(u, cloned')
  BY <1>1, MarksGo
<1> QED BY <1>2 DEF u

LEMMA ScalarsSound ==
  \A v \in {Null, View} : v \in AllTrees /\ Sound(v) /\ \A r \in Resources : Holds[v][r] = 0
<1>1. None \in Blocks /\ "StringView" \in Tags
  BY DEF Blocks, Tags
<1>2. View \in AllTrees /\ Parts[View] = {View} /\ \A q \in Resources : Holds[View][q] = CountOf(None, q) + CountOf(None, q)
  BY <1>1, Leaf DEF View
<1>3. Sound(View)
  BY <1>2 DEF Sound, Bound, View, Value
<1> QED BY <1>2, <1>3, NoneCounts, NullHolds

LEMMA AssignScalarKeeps ==
  ASSUME ValueInvariant, NEW j \in Values, NEW v \in {Null, View}, AssignScalar(j, v)
  PROVE  ValueInvariant'
<1>1. Settle(Destroyed[value[j]][pool]) /\ value' = [value EXCEPT ![j] = v] /\ Touched({j}) /\ array' = array
  BY DEF AssignScalar, Replace
<1>2. v \in AllTrees /\ Sound(v) /\ \A r \in Resources : Holds[v][r] = 0
  BY ScalarsSound
<1>3. pool \in Memory /\ ~pool.bad
      /\ \A r \in Resources : pool.out[r] = ValuesHold(value, r) + ArraysHold(array, r)
  BY Standing
<1>4. \A r \in Resources : pool.out[r] = ValuesHold(value, r) + ArraysHold(array, r) + Holds[v][r]
  <2>1. \A r \in Resources : ValuesHold(value, r) \in Int /\ ArraysHold(array, r) \in Int
    BY Standing, ValuesNumbers, ArraysNumbers
  <2> QED BY <1>2, <1>3, <2>1
<1>5. SoundValues(value') /\ Balanced(Destroyed[value[j]][pool], value', array')
  BY <1>1, <1>2, <1>3, <1>4, Replaced
<1>6. FromOne(value', cloned')
  BY <1>1, OneTouched
<1>7. SoundArrays(array')
  BY <1>1, Standing
<1> QED BY <1>1, <1>5, <1>6, <1>7, Settled

LEMMA AssignOwnedKeeps ==
  ASSUME ValueInvariant, NEW j \in Values, NEW r \in Resources, NEW n \in Fuels, AssignOwned(j, r, n)
  PROVE  ValueInvariant'
<1> DEFINE made == MakeOwned(Fuelled(n), r)
<1>1. Fuelled(n) \in Memory /\ ~Fuelled(n).bad
      /\ \A q \in Resources : Fuelled(n).out[q] = ValuesHold(value, q) + ArraysHold(array, q)
  BY StandingFuelled
<1>2. made \in Outcomes(AllTrees) /\ Gives(made, Fuelled(n), r)
  BY <1>1, MakeOwnedGives
<1>3. /\ \/ made.ok /\ Settle(Destroyed[value[j]][made.mem]) /\ value' = [value EXCEPT ![j] = made.made]
         \/ ~made.ok /\ Settle(made.mem) /\ value' = value
      /\ Touched({j}) /\ array' = array
  BY DEF AssignOwned, Replace
<1> HIDE DEF made
<1>4. made.mem \in Memory /\ made.made \in AllTrees /\ Sound(made.made) /\ ~made.mem.bad
      /\ \A q \in Resources : made.mem.out[q] = ValuesHold(value, q) + ArraysHold(array, q) + Holds[made.made][q]
  BY <1>1, <1>2, CopiedSound DEF Gives, Outcomes
<1>5. SoundArrays(array')
  BY <1>3, Standing
<1>6. CASE made.ok
  <2>1. SoundValues(value') /\ Balanced(Destroyed[value[j]][made.mem], value', array')
    BY <1>3, <1>4, <1>6, Replaced
  <2>2. FromOne(value', cloned')
    BY <1>3, <1>6, OneTouched
  <2> QED BY <1>3, <1>5, <1>6, <2>1, <2>2, Settled
<1>7. CASE ~made.ok
  <2>1. \A q \in Resources : Holds[made.made][q] = 0
    BY <1>2, <1>7, NullHolds DEF Gives
  <2>2. \A q \in Resources : ValuesHold(value, q) \in Int /\ ArraysHold(array, q) \in Int
    BY Standing, ValuesNumbers, ArraysNumbers
  <2>3. Balanced(made.mem, value', array')
    BY <1>3, <1>4, <1>7, <2>1, <2>2 DEF Balanced
  <2>4. FromOne(value', cloned')
    <3>1. \A i \in Values \ {j} : value[i] = value[i]
      OBVIOUS
    <3>2. FromOne(value, cloned')
      BY <1>3, <3>1, MarksGo
    <3> QED BY <1>3, <1>7, <3>2
  <2>5. SoundValues(value')
    BY <1>3, <1>7, Standing
  <2> QED BY <1>3, <1>5, <1>7, <2>3, <2>4, <2>5, Settled
<1> QED BY <1>6, <1>7

LEMMA CloneGives ==
  ASSUME NEW v \in AllTrees, NEW r \in Resources, NEW m \in Memory
  PROVE  Clone[v][r][m] \in Outcomes(AllTrees) /\ Gives(Clone[v][r][m], m, r)
<1>1. MaxNesting \in 0..MaxNesting
  BY TreesUnfold
<1>2. Clones(Clone, AllTrees)
  BY <1>1, TreesUnfold, CloneUnfolds
<1> QED BY <1>2 DEF Clones

LEMMA AssignCloneKeeps ==
  ASSUME ValueInvariant, NEW j \in Values, NEW k \in Values, NEW r \in Resources, NEW n \in Fuels,
         AssignClone(j, k, r, n)
  PROVE  ValueInvariant'
<1> DEFINE made == Clone[value[k]][r][Fuelled(n)]
<1>1. Fuelled(n) \in Memory /\ ~Fuelled(n).bad
      /\ \A q \in Resources : Fuelled(n).out[q] = ValuesHold(value, q) + ArraysHold(array, q)
  BY StandingFuelled
<1>2. made \in Outcomes(AllTrees) /\ Gives(made, Fuelled(n), r)
  <2>1. value[k] \in AllTrees
    BY Standing
  <2> QED BY <1>1, <2>1, CloneGives
<1>3. /\ \/ /\ made.ok /\ Settle(Destroyed[value[j]][made.mem]) /\ value' = [value EXCEPT ![j] = made.made]
            /\ cloned' = [cloned EXCEPT ![j] = r]
         \/ ~made.ok /\ Settle(made.mem) /\ value' = value /\ cloned' = cloned
      /\ array' = array
  BY DEF AssignClone, Replace
<1> HIDE DEF made
<1>4. made.mem \in Memory /\ made.made \in AllTrees /\ Sound(made.made) /\ ~made.mem.bad
      /\ \A q \in Resources : made.mem.out[q] = ValuesHold(value, q) + ArraysHold(array, q) + Holds[made.made][q]
  BY <1>1, <1>2, CopiedSound DEF Gives, Outcomes
<1>5. SoundArrays(array') /\ value \in [Values -> AllTrees] /\ FromOne(value, cloned)
  BY <1>3, Standing DEF SoundValues
<1>6. CASE made.ok
  <2>1. SoundValues(value') /\ Balanced(Destroyed[value[j]][made.mem], value', array')
    BY <1>3, <1>4, <1>6, Replaced
  <2>2. FromOne(value', cloned')
    <3>1. value' = [value EXCEPT ![j] = made.made] /\ cloned' = [cloned EXCEPT ![j] = r]
      BY <1>3, <1>6
    <3>2. Copied(made.made, r) /\ r \in Blocks
      BY <1>2 DEF Gives, Blocks
    <3>3. cloned \in [Values -> Blocks] /\ \A i \in Values : cloned[i] # None => Copied(value[i], cloned[i])
      BY <1>5 DEF FromOne
    <3>4. cloned' \in [Values -> Blocks]
      BY <3>1, <3>2, <3>3
    <3>5. ASSUME NEW i \in Values, cloned'[i] # None PROVE Copied(value'[i], cloned'[i])
      <4>1. CASE i = j
        BY <1>5, <3>1, <3>2, <3>3, <4>1
      <4>2. CASE i # j
        <5>1. cloned'[i] = cloned[i] /\ value'[i] = value[i]
          BY <1>5, <3>1, <3>3, <4>2
        <5> QED BY <3>3, <3>5, <5>1
      <4> QED BY <4>1, <4>2
    <3> QED BY <3>4, <3>5 DEF FromOne
  <2> QED BY <1>3, <1>5, <1>6, <2>1, <2>2, Settled
<1>7. CASE ~made.ok
  <2>1. \A q \in Resources : Holds[made.made][q] = 0
    BY <1>2, <1>7, NullHolds DEF Gives
  <2>2. \A q \in Resources : ValuesHold(value, q) \in Int /\ ArraysHold(array, q) \in Int
    BY Standing, ValuesNumbers, ArraysNumbers
  <2>3. Balanced(made.mem, value', array')
    BY <1>3, <1>4, <1>7, <2>1, <2>2 DEF Balanced
  <2>4. FromOne(value', cloned')
    BY <1>3, <1>5, <1>7
  <2>5. SoundValues(value')
    BY <1>3, <1>7, Standing
  <2> QED BY <1>3, <1>5, <1>7, <2>3, <2>4, <2>5, Settled
<1> QED BY <1>3, <1>6, <1>7

LEMMA AssignMoveKeeps ==
  ASSUME ValueInvariant, NEW j \in Values, NEW k \in Values, AssignMove(j, k)
  PROVE  ValueInvariant'
<1> DEFINE d == Destroyed[value[j]][pool]
           u == [value EXCEPT ![j] = value[k]]
           w == [u EXCEPT ![k] = Null]
<1>1. /\ j # k /\ Settle(d) /\ Touched({j, k}) /\ array' = array
      /\ value' = [value EXCEPT ![j] = value[k], ![k] = Null]
  BY DEF AssignMove
<1>2. /\ value[j] \in AllTrees /\ Sound(value[j]) /\ value[k] \in AllTrees /\ Sound(value[k])
      /\ SoundValues(value) /\ SoundArrays(array) /\ value \in [Values -> AllTrees]
      /\ pool \in Memory /\ ~pool.bad
      /\ \A r \in Resources : pool.out[r] = ValuesHold(value, r) + ArraysHold(array, r)
  BY Standing DEF SoundValues
<1>3. value' = w
  BY <1>1, <1>2
<1>4. u[k] = value[k] /\ \A i \in Values \ {j, k} : w[i] = value[i]
  BY <1>1, <1>2
<1>5. d \in Memory /\ d.bad = pool.bad /\ \A r \in Resources : d.out[r] = pool.out[r] - Holds[value[j]][r]
  BY <1>2, DestroyingAny
<1>6. /\ SoundValues(u)
      /\ \A r \in Resources :
           /\ ValuesHold(value, r) \in Int /\ Holds[value[j]][r] \in Int /\ Holds[value[k]][r] \in Int
           /\ ValuesHold(u, r) = ValuesHold(value, r) - Holds[value[j]][r] + Holds[value[k]][r]
  BY <1>2, ValueReplaced
<1> HIDE DEF u, d
<1>7. /\ SoundValues(w)
      /\ \A r \in Resources :
           /\ ValuesHold(u, r) \in Int /\ Holds[u[k]][r] \in Int /\ Holds[Null][r] \in Int
           /\ ValuesHold(w, r) = ValuesHold(u, r) - Holds[u[k]][r] + Holds[Null][r]
  <2>1. SoundValues(u) /\ Null \in AllTrees /\ Sound(Null)
    BY <1>6, NullHolds
  <2> QED BY <2>1, ValueReplaced
<1> HIDE DEF w
<1>8. \A r \in Resources : ArraysHold(array, r) \in Int /\ Holds[Null][r] = 0
  BY <1>2, ArraysNumbers, NullHolds
<1>9. \A r \in Resources : d.out[r] = ValuesHold(w, r) + ArraysHold(array, r)
  BY <1>2, <1>4, <1>5, <1>6, <1>7, <1>8
<1>10. Balanced(d, value', array')
  BY <1>1, <1>2, <1>3, <1>5, <1>9 DEF Balanced
<1>11. FromOne(value', cloned')
  <2>1. FromOne(w, cloned')
    BY <1>1, <1>4, MarksGo
  <2> QED BY <1>3, <2>1
<1> QED BY <1>1, <1>2, <1>3, <1>7, <1>10, <1>11, Settled

\* What moving from an array leaves.
LEMMA MovedFromGives ==
  ASSUME NEW w \in AllTrees, Sound(w), w.type = "Array"
  PROVE  /\ MovedFrom(w) \in AllTrees /\ Sound(MovedFrom(w)) /\ MovedFrom(w).type = "Array"
         /\ MovedFrom(w).head = w.head
         /\ \A q \in Resources : Holds[MovedFrom(w)][q] = CountOf(w.head, q)
<1> DEFINE x == MovedFrom(w)
<1>1. w \in ValuesOver(Seq(Trees[MaxNesting - 1]))
  BY TreesUnfold, Elements
<1>2. w = [type |-> w.type, head |-> w.head, res |-> w.res, body |-> w.body, alloc |-> w.alloc, items |-> w.items]
      /\ w.head \in Blocks /\ w.res \in Blocks /\ w.alloc \in Blocks
  BY <1>1, Fields
<1>3. x = [type |-> w.type, head |-> w.head, res |-> w.res, body |-> None, alloc |-> w.alloc, items |-> <<>>]
  <2>1. x = [w EXCEPT !.body = None, !.items = <<>>]
    BY DEF MovedFrom
  <2> HIDE DEF x
  <2> QED BY <1>2, <2>1
<1>4. x = Value("Array", w.head, w.res, None, w.alloc, <<>>)
  BY <1>3 DEF Value
<1>5. None \in Blocks /\ "Array" \in Tags
  BY DEF Blocks, Tags
<1>6. x \in AllTrees /\ Parts[x] = {x} /\ \A q \in Resources : Holds[x][q] = CountOf(w.head, q) + CountOf(None, q)
  BY <1>2, <1>4, <1>5, Leaf
<1>7. Bound(w)
  BY SoundElements
<1> HIDE DEF x
<1>8. x.type = "Array" /\ x.head = w.head /\ x.res = w.res /\ x.body = None /\ x.alloc = w.alloc
  BY <1>3
<1>9. Sound(x)
  BY <1>6, <1>7, <1>8 DEF Sound, Bound
<1>10. \A q \in Resources : Holds[x][q] = CountOf(w.head, q)
  <2>1. \A q \in Resources : CountOf(None, q) = 0 /\ CountOf(w.head, q) \in Int
    BY NoneCounts, CountType
  <2> QED BY <1>6, <2>1
<1> QED BY <1>6, <1>8, <1>9, <1>10 DEF x

\* The caller's array a gives its content away.
LEMMA GivenAway ==
  ASSUME ValueInvariant, NEW a \in Arrays
  PROVE  /\ SoundArrays([array EXCEPT ![a] = MovedFrom(array[a])])
         /\ \A r \in Resources :
              /\ ArraysHold(array, r) \in Int /\ Holds[array[a]][r] \in Int
              /\ ArraysHold([array EXCEPT ![a] = MovedFrom(array[a])], r) = ArraysHold(array, r) - Holds[array[a]][r]
<1> DEFINE w == MovedFrom(array[a])
           u == [array EXCEPT ![a] = w]
<1>1. SoundArrays(array) /\ array[a] \in AllTrees /\ Sound(array[a]) /\ array[a].type = "Array" /\ array[a].head = None
  BY Standing
<1>2. w \in AllTrees /\ Sound(w) /\ w.type = "Array" /\ w.head = None /\ \A q \in Resources : Holds[w][q] = 0
  BY <1>1, MovedFromGives, NoneCounts
<1> HIDE DEF w
<1>3. /\ SoundArrays(u)
      /\ \A r \in Resources :
           /\ ArraysHold(array, r) \in Int /\ Holds[array[a]][r] \in Int /\ Holds[w][r] \in Int
           /\ ArraysHold(u, r) = ArraysHold(array, r) - Holds[array[a]][r] + Holds[w][r]
  BY <1>1, <1>2, ArrayReplaced
<1> HIDE DEF u
<1>4. \A r \in Resources : ArraysHold(u, r) = ArraysHold(array, r) - Holds[array[a]][r]
  BY <1>2, <1>3
<1> QED BY <1>3, <1>4 DEF u, w

\* A local array in a node of its own.
LEMMA Noded ==
  ASSUME NEW w \in AllTrees, Sound(w), w.type = "Array", w.head = None,
         NEW x, x = [w EXCEPT !.head = w.res]
  PROVE  /\ w.res \in Resources /\ x \in AllTrees /\ Sound(x)
         /\ \A q \in Resources : Holds[x][q] = Holds[w][q] + CountOf(w.res, q)
<1>1. Bound(w) /\ \A i \in 1..Len(w.items) : Sound(w.items[i])
  BY SoundElements
<1>2. w.res \in Resources /\ w.res \in Blocks
  BY <1>1 DEF Bound, Blocks
<1>3. w \in ValuesOver(Seq(Trees[MaxNesting - 1])) /\ MaxNesting \in 1..MaxNesting /\ w \in Trees[MaxNesting]
  BY TreesUnfold, Elements
<1>4. w.body \in Blocks /\ Housed(x, w, w.res, w.body, w.res)
  BY <1>3, Fields DEF Housed
<1>5. /\ x \in Trees[MaxNesting] /\ x.type = w.type /\ x.head = w.res /\ x.res = w.res
      /\ x.body = w.body /\ x.alloc = w.alloc /\ x.items = w.items
      /\ \A q \in Resources :
           Holds[x][q] = Holds[w][q] - CountOf(w.head, q) - CountOf(w.body, q) + CountOf(w.res, q) + CountOf(w.body, q)
  BY <1>2, <1>3, <1>4, Rehoused
<1>6. x \in AllTrees
  BY <1>5, TreesUnfold
<1>7. Bound(x)
  BY <1>1, <1>5 DEF Bound
<1>8. Sound(x)
  BY <1>1, <1>5, <1>6, <1>7, SoundElements
<1>9. \A q \in Resources : Holds[x][q] = Holds[w][q] + CountOf(w.res, q)
  <2>1. \A q \in Resources : Holds[w][q] \in Int /\ CountOf(w.head, q) = 0 /\ CountOf(w.body, q) \in Int /\ CountOf(w.res, q) \in Int
    BY HoldsNumbers, NoneCounts, CountType
  <2> QED BY <1>5, <2>1
<1> QED BY <1>2, <1>6, <1>8, <1>9

LEMMA AssignArrayKeeps ==
  ASSUME ValueInvariant, NEW j \in Values, NEW a \in Arrays, NEW n \in Fuels, AssignArray(j, a, n)
  PROVE  ValueInvariant'
<1> DEFINE m == Destroyed[value[j]][Fuelled(n)]
           w == array[a]
           x == [w EXCEPT !.head = w.res]
           u == [value EXCEPT ![j] = x]
           z == [value EXCEPT ![j] = Null]
           b == [array EXCEPT ![a] = MovedFrom(w)]
           t == Take(m, w.res)
<1>1. Fuelled(n) \in Memory /\ ~Fuelled(n).bad
      /\ \A q \in Resources : Fuelled(n).out[q] = ValuesHold(value, q) + ArraysHold(array, q)
  BY StandingFuelled
<1>2. value[j] \in AllTrees /\ Sound(value[j]) /\ SoundValues(value) /\ SoundArrays(array)
      /\ w \in AllTrees /\ Sound(w) /\ w.type = "Array" /\ w.head = None
  BY Standing
<1>3. m \in Memory /\ m.bad = Fuelled(n).bad
      /\ \A q \in Resources : m.out[q] = Fuelled(n).out[q] - Holds[value[j]][q]
  BY <1>1, <1>2, DestroyingAny
<1>4. /\ \/ Settle(t) /\ value' = u /\ array' = b
         \/ Settle(m) /\ value' = z /\ array' = array
      /\ Touched({j})
  BY <1>2 DEF AssignArray, Replace, SoundArrays
<1>5. /\ w.res \in Resources /\ x \in AllTrees /\ Sound(x)
      /\ \A q \in Resources : Holds[x][q] = Holds[w][q] + CountOf(w.res, q)
  BY <1>2, Noded
<1> HIDE DEF m, x
<1>6. t \in Memory /\ t.bad = m.bad /\ \A q \in Resources : t.out[q] = m.out[q] + CountOf(w.res, q)
  BY <1>3, <1>5, TakeGives
<1>7. /\ SoundValues(u)
      /\ \A q \in Resources :
           /\ ValuesHold(value, q) \in Int /\ Holds[value[j]][q] \in Int /\ Holds[x][q] \in Int
           /\ ValuesHold(u, q) = ValuesHold(value, q) - Holds[value[j]][q] + Holds[x][q]
  <2>1. SoundValues(value) /\ x \in AllTrees /\ Sound(x)
    BY <1>2, <1>5
  <2> QED BY <2>1, ValueReplaced
<1>8. /\ SoundValues(z)
      /\ \A q \in Resources :
           /\ ValuesHold(value, q) \in Int /\ Holds[value[j]][q] \in Int /\ Holds[Null][q] \in Int
           /\ ValuesHold(z, q) = ValuesHold(value, q) - Holds[value[j]][q] + Holds[Null][q]
  <2>1. SoundValues(value) /\ Null \in AllTrees /\ Sound(Null)
    BY <1>2, NullHolds
  <2> QED BY <2>1, ValueReplaced
<1>9. /\ SoundArrays(b)
      /\ \A q \in Resources :
           /\ ArraysHold(array, q) \in Int /\ Holds[w][q] \in Int
           /\ ArraysHold(b, q) = ArraysHold(array, q) - Holds[w][q]
  BY GivenAway
<1>10. FromOne(u, cloned') /\ FromOne(z, cloned')
  BY <1>4, OneTouched
<1>11. \A q \in Resources : Holds[Null][q] = 0 /\ CountOf(w.res, q) \in Int
  BY NullHolds, CountType
<1> HIDE DEF u, z, b, t, w
<1>12. CASE Settle(t) /\ value' = u /\ array' = b
  <2>1. \A q \in Resources : t.out[q] = ValuesHold(u, q) + ArraysHold(b, q)
    BY <1>1, <1>3, <1>5, <1>6, <1>7, <1>9, <1>11
  <2>2. Balanced(t, value', array')
    BY <1>1, <1>3, <1>6, <1>12, <2>1 DEF Balanced
  <2> QED BY <1>7, <1>9, <1>10, <1>12, <2>2, Settled
<1>13. CASE Settle(m) /\ value' = z /\ array' = array
  <2>1. \A q \in Resources : m.out[q] = ValuesHold(z, q) + ArraysHold(array, q)
    BY <1>1, <1>3, <1>8, <1>9, <1>11
  <2>2. Balanced(m, value', array')
    BY <1>1, <1>3, <1>13, <2>1 DEF Balanced
  <2> QED BY <1>2, <1>8, <1>10, <1>13, <2>2, Settled
<1> QED BY <1>4, <1>12, <1>13

LEMMA ConstructArrayKeeps ==
  ASSUME ValueInvariant, NEW j \in Values, NEW a \in Arrays, NEW n \in Fuels, ConstructArray(j, a, n)
  PROVE  ValueInvariant'
<1> DEFINE w == array[a]
           made == Adopt(Fuelled(n), w, w.res)
           d == Destroyed[value[j]][made.mem]
           u == [value EXCEPT ![j] = made.made]
           b == [array EXCEPT ![a] = MovedFrom(w)]
<1>1. Fuelled(n) \in Memory /\ ~Fuelled(n).bad
      /\ \A q \in Resources : Fuelled(n).out[q] = ValuesHold(value, q) + ArraysHold(array, q)
  BY StandingFuelled
<1>2. value[j] \in AllTrees /\ Sound(value[j]) /\ SoundValues(value) /\ SoundArrays(array)
      /\ w \in AllTrees /\ Sound(w) /\ w.type = "Array" /\ w.head = None
  BY Standing
<1>3. w.res \in Resources
  BY <1>2, SoundElements DEF Bound
<1>4. /\ made \in Outcomes(AllTrees) /\ Sound(made.made) /\ (~made.ok => made.made = Null)
      /\ made.mem.bad = Fuelled(n).bad
      /\ \A q \in Resources : made.mem.out[q] = Fuelled(n).out[q] - Holds[w][q] + Holds[made.made][q]
  <2>1. MaxNesting \in 1..MaxNesting /\ w \in Trees[MaxNesting]
    BY <1>2, TreesUnfold
  <2>2. Trees[MaxNesting] = AllTrees
    BY TreesUnfold
  <2> QED BY <1>1, <1>2, <1>3, <2>1, <2>2, AdoptGives
<1>5. /\ \/ made.ok /\ Settle(d) /\ value' = u
         \/ ~made.ok /\ Settle(made.mem) /\ value' = value
      /\ Touched({j}) /\ array' = b
  BY <1>2 DEF ConstructArray, Replace, SoundArrays
<1> HIDE DEF made
<1>6. made.mem \in Memory /\ made.made \in AllTrees /\ made.ok \in BOOLEAN
  BY <1>4 DEF Outcomes
<1>7. d \in Memory /\ d.bad = made.mem.bad
      /\ \A q \in Resources : d.out[q] = made.mem.out[q] - Holds[value[j]][q]
  BY <1>2, <1>6, DestroyingAny
<1>8. /\ SoundValues(u)
      /\ \A q \in Resources :
           /\ ValuesHold(value, q) \in Int /\ Holds[value[j]][q] \in Int /\ Holds[made.made][q] \in Int
           /\ ValuesHold(u, q) = ValuesHold(value, q) - Holds[value[j]][q] + Holds[made.made][q]
  BY <1>2, <1>4, <1>6, ValueReplaced
<1>9. /\ SoundArrays(b)
      /\ \A q \in Resources :
           /\ ArraysHold(array, q) \in Int /\ Holds[w][q] \in Int
           /\ ArraysHold(b, q) = ArraysHold(array, q) - Holds[w][q]
  BY GivenAway
<1>10. FromOne(u, cloned') /\ FromOne(value, cloned')
  <2>1. \A i \in Values \ {j} : value[i] = value[i]
    OBVIOUS
  <2> QED BY <1>5, <2>1, OneTouched, MarksGo
<1> HIDE DEF u, b, d, w
<1>11. CASE made.ok
  <2>1. \A q \in Resources : d.out[q] = ValuesHold(u, q) + ArraysHold(b, q)
    BY <1>1, <1>4, <1>7, <1>8, <1>9
  <2>2. Balanced(d, value', array')
    BY <1>1, <1>4, <1>5, <1>7, <1>11, <2>1 DEF Balanced
  <2> QED BY <1>5, <1>8, <1>9, <1>10, <1>11, <2>2, Settled
<1>12. CASE ~made.ok
  <2>1. \A q \in Resources : Holds[made.made][q] = 0
    BY <1>4, <1>12, NullHolds
  <2>2. \A q \in Resources : made.mem.out[q] = ValuesHold(value, q) + ArraysHold(b, q)
    BY <1>1, <1>4, <1>8, <1>9, <2>1
  <2>3. Balanced(made.mem, value', array')
    BY <1>1, <1>4, <1>5, <1>6, <1>12, <2>2 DEF Balanced
  <2> QED BY <1>2, <1>5, <1>9, <1>10, <1>12, <2>3, Settled
<1> QED BY <1>6, <1>11, <1>12

\* An array with other elements t, in storage b.
Refilled(x, w, t, b) == x = [w EXCEPT !.items = t, !.body = b]
ArrayAt(x, head) == x.type = "Array" /\ x.head = head
Elders == {v \in Trees[MaxNesting - 1] : Sound(v)}

LEMMA EldersElements ==
  /\ Elders \subseteq AllTrees /\ Elders \subseteq Trees[MaxNesting - 1]
  /\ \A w \in AllTrees : Sound(w) => w.items \in Seq(Elders)
<1>1. MaxNesting \in 1..MaxNesting /\ MaxNesting - 1 \in 0..MaxNesting /\ Trees[MaxNesting] = AllTrees
  BY TreesUnfold
<1>2. Elders \subseteq AllTrees
  BY <1>1, LevelsWithin DEF Elders
<1> QED BY <1>1, <1>2, SoundSeq DEF Elders

LEMMA RefilledGives ==
  ASSUME NEW w \in AllTrees, Sound(w), w.type = "Array", NEW t \in Seq(Elders),
         NEW b, b = None \/ b = w.alloc, NEW x, Refilled(x, w, t, b)
  PROVE  /\ x \in AllTrees /\ Sound(x) /\ ArrayAt(x, w.head)
         /\ \A q \in Resources : Holds[x][q] = CountOf(w.head, q) + CountOf(b, q) + HeldIn(Holds, q, t)
<1>1. w \in ValuesOver(Seq(Trees[MaxNesting - 1]))
  BY TreesUnfold, Elements
<1>2. w = [type |-> w.type, head |-> w.head, res |-> w.res, body |-> w.body, alloc |-> w.alloc, items |-> w.items]
      /\ w.type \in Tags /\ w.head \in Blocks /\ w.res \in Blocks /\ w.alloc \in Blocks
  BY <1>1, Fields
<1>3. x = [type |-> w.type, head |-> w.head, res |-> w.res, body |-> b, alloc |-> w.alloc, items |-> t]
  BY <1>2 DEF Refilled
<1>4. AllTrees = ValuesOver(Seq(Trees[MaxNesting - 1]))
  BY TreesUnfold
<1>5. t \in Seq(Trees[MaxNesting - 1])
  BY EldersElements, RowsGrow
<1>6. b \in Blocks
  BY <1>2 DEF Blocks
<1>7. x \in AllTrees
  BY <1>2, <1>3, <1>4, <1>5, <1>6 DEF ValuesOver
<1>8. x.type = w.type /\ x.head = w.head /\ x.res = w.res /\ x.body = b /\ x.alloc = w.alloc /\ x.items = t
  BY <1>3
<1>9. Bound(x)
  BY <1>8, SoundElements DEF Bound
<1>10. \A i \in 1..Len(t) : t[i] \in Elders
  OBVIOUS
<1>11. Sound(x)
  BY <1>7, <1>8, <1>9, <1>10, SoundElements DEF Elders
<1>12. \A q \in Resources : Holds[x][q] = CountOf(w.head, q) + CountOf(b, q) + HeldIn(Holds, q, t)
  BY <1>7, <1>8, HoldsNumbers
<1> QED BY <1>7, <1>8, <1>11, <1>12 DEF ArrayAt

LEMMA Cleared ==
  ASSUME NEW w \in AllTrees, Sound(w), NEW m \in Memory
  PROVE  /\ InTurn(Destroyed, m, w.items) \in Memory /\ InTurn(Destroyed, m, w.items).bad = m.bad
         /\ \A q \in Resources : InTurn(Destroyed, m, w.items).out[q] = m.out[q] - HeldIn(Holds, q, w.items)
<1>1. Elders \in SUBSET AllTrees /\ w.items \in Seq(Elders)
  BY EldersElements
<1>2. \A v \in Elders, k \in Memory : Frees(Destroyed[v][k], k, v)
  <2>1. MaxNesting - 1 \in 0..MaxNesting
    BY TreesUnfold
  <2> QED BY <2>1, DestroyedFrees DEF Elders
<1>3. FreesAll(InTurn(Destroyed, m, w.items), m, w.items)
  BY <1>1, <1>2, InTurnFrees
<1> QED BY <1>3 DEF FreesAll

\* The caller's array a gets other elements, or other storage of its own resource.
With(a, t, b) == [array EXCEPT ![a] = [array[a] EXCEPT !.items = t, !.body = b]]

LEMMA ArrayRefilled ==
  ASSUME ValueInvariant, NEW a \in Arrays, NEW t \in Seq(Elders), NEW b, b = None \/ b = array[a].alloc
  PROVE  /\ SoundArrays(With(a, t, b))
         /\ \A q \in Resources :
              /\ ArraysHold(array, q) \in Int /\ ArraysHold(With(a, t, b), q) \in Int
              /\ CountOf(array[a].body, q) \in Int /\ CountOf(b, q) \in Int
              /\ HeldIn(Holds, q, array[a].items) \in Int /\ HeldIn(Holds, q, t) \in Int
              /\ ArraysHold(With(a, t, b), q) =
                   ArraysHold(array, q) - CountOf(array[a].body, q) - HeldIn(Holds, q, array[a].items)
                     + CountOf(b, q) + HeldIn(Holds, q, t)
<1> DEFINE w == array[a]
           x == [w EXCEPT !.items = t, !.body = b]
           u == [array EXCEPT ![a] = x]
<1>1. SoundArrays(array) /\ w \in AllTrees /\ Sound(w) /\ w.type = "Array" /\ w.head = None
  BY Standing
<1>2. Refilled(x, w, t, b)
  BY DEF Refilled
<1>3. With(a, t, b) = u
  BY DEF With
<1>4. b = None \/ b = w.alloc
  OBVIOUS
<1> HIDE DEF x, w
<1>5. /\ x \in AllTrees /\ Sound(x) /\ ArrayAt(x, w.head)
      /\ \A q \in Resources : Holds[x][q] = CountOf(w.head, q) + CountOf(b, q) + HeldIn(Holds, q, t)
  BY <1>1, <1>2, <1>4, RefilledGives
<1>6. x \in AllTrees /\ Sound(x) /\ x.type = "Array" /\ x.head = None
  BY <1>1, <1>5 DEF ArrayAt
<1>7. /\ SoundArrays(u)
      /\ \A q \in Resources :
           /\ ArraysHold(array, q) \in Int /\ Holds[w][q] \in Int /\ Holds[x][q] \in Int
           /\ ArraysHold(u, q) = ArraysHold(array, q) - Holds[w][q] + Holds[x][q]
  <2>1. SoundArrays(array)
    BY <1>1
  <2> QED BY <1>6, <2>1, ArrayReplaced DEF w
<1> HIDE DEF u
<1>8. ASSUME NEW q \in Resources
      PROVE  /\ ArraysHold(array, q) \in Int /\ ArraysHold(u, q) \in Int
             /\ CountOf(w.body, q) \in Int /\ CountOf(b, q) \in Int
             /\ HeldIn(Holds, q, w.items) \in Int /\ HeldIn(Holds, q, t) \in Int
             /\ ArraysHold(u, q) =
                   ArraysHold(array, q) - CountOf(w.body, q) - HeldIn(Holds, q, w.items)
                     + CountOf(b, q) + HeldIn(Holds, q, t)
  <2>1. CountOf(w.head, q) = 0 /\ CountOf(w.body, q) \in Int /\ CountOf(b, q) \in Int
    BY <1>1, NoneCounts, CountType
  <2>2. HeldIn(Holds, q, w.items) \in Int
        /\ Holds[w][q] = CountOf(w.head, q) + CountOf(w.body, q) + HeldIn(Holds, q, w.items)
    BY <1>1, HoldsNumbers
  <2>3. \A v \in Elders : Holds[v][q] \in Int
    BY EldersElements, HoldsNumbers
  <2>4. HeldIn(Holds, q, t) \in Int
    BY <2>3, HeldInType
  <2>5. Holds[x][q] = CountOf(w.head, q) + CountOf(b, q) + HeldIn(Holds, q, t)
    BY <1>5
  <2>6. /\ ArraysHold(array, q) \in Int
        /\ ArraysHold(u, q) = ArraysHold(array, q) - Holds[w][q] + Holds[x][q]
    BY <1>7
  <2> QED BY <2>1, <2>2, <2>4, <2>5, <2>6
<1> QED BY <1>3, <1>7, <1>8 DEF w

\* The memory that an array's elements leave, and the storage it is bound to.
LEMMA ArrayStanding ==
  ASSUME ValueInvariant, NEW a \in Arrays
  PROVE  /\ array \in [Arrays -> AllTrees] /\ array[a] \in ValuesOver(Seq(Trees[MaxNesting - 1]))
         /\ array[a].items \in Seq(Elders) /\ array[a].items \in Seq(AllTrees)
         /\ array[a].body = None \/ array[a].body = array[a].alloc
         /\ array[a].alloc \in Resources /\ array[a].res = array[a].alloc /\ array[a].body \in Blocks
<1>1. array[a] \in AllTrees /\ Sound(array[a]) /\ array[a].type = "Array"
  BY Standing
<1>2. array[a] \in ValuesOver(Seq(Trees[MaxNesting - 1])) /\ array[a].items \in Seq(AllTrees)
  BY <1>1, TreesUnfold, Elements
<1>3. array[a].items \in Seq(Elders)
  BY <1>1, EldersElements
<1>4. Bound(array[a])
  BY <1>1, SoundElements
<1>5. array \in [Arrays -> AllTrees]
  BY Standing DEF SoundArrays
<1>6. array[a].body \in Blocks
  BY <1>2, Fields
<1> QED BY <1>1, <1>2, <1>3, <1>4, <1>5, <1>6 DEF Bound

LEMMA ClearArrayKeeps ==
  ASSUME ValueInvariant, NEW a \in Arrays, ClearArray(a)
  PROVE  ValueInvariant'
<1> DEFINE w == array[a]
           m == InTurn(Destroyed, pool, w.items)
           b == With(a, <<>>, w.body)
<1>1. /\ SoundValues(value) /\ w \in AllTrees /\ Sound(w) /\ pool \in Memory /\ ~pool.bad
      /\ \A r \in Resources : pool.out[r] = ValuesHold(value, r) + ArraysHold(array, r)
  BY Standing
<1>2. Settle(m) /\ array' = b /\ value' = value /\ cloned' = cloned
  <2>1. array' = [array EXCEPT ![a].items = <<>>]
    BY DEF ClearArray
  <2>2. [array EXCEPT ![a].items = <<>>] = [array EXCEPT ![a] = [w EXCEPT !.items = <<>>]]
    BY ArrayStanding
  <2>3. [w EXCEPT !.items = <<>>] = [w EXCEPT !.items = <<>>, !.body = w.body]
    BY ArrayStanding, Fields
  <2> QED BY <2>1, <2>2, <2>3 DEF ClearArray, With
<1>3. <<>> \in Seq(Elders) /\ (w.body = None \/ w.body = w.alloc)
  BY ArrayStanding
<1>4. /\ SoundArrays(b)
      /\ \A q \in Resources :
           /\ ArraysHold(array, q) \in Int /\ ArraysHold(b, q) \in Int
           /\ CountOf(w.body, q) \in Int /\ HeldIn(Holds, q, w.items) \in Int /\ HeldIn(Holds, q, <<>>) \in Int
           /\ ArraysHold(b, q) =
                ArraysHold(array, q) - CountOf(w.body, q) - HeldIn(Holds, q, w.items)
                  + CountOf(w.body, q) + HeldIn(Holds, q, <<>>)
  BY <1>3, ArrayRefilled
<1>5. /\ m \in Memory /\ m.bad = pool.bad
      /\ \A q \in Resources : m.out[q] = pool.out[q] - HeldIn(Holds, q, w.items)
  BY <1>1, Cleared
<1> HIDE DEF m, b, w
<1>6. ASSUME NEW q \in Resources PROVE m.out[q] = ValuesHold(value, q) + ArraysHold(b, q)
  <2>1. ValuesHold(value, q) \in Int /\ HeldIn(Holds, q, <<>>) = 0
    BY <1>1, ValuesNumbers, HeldOfNone
  <2>2. pool.out[q] = ValuesHold(value, q) + ArraysHold(array, q) /\ m.out[q] = pool.out[q] - HeldIn(Holds, q, w.items)
    BY <1>1, <1>5
  <2> QED BY <1>4, <2>1, <2>2
<1>7. Balanced(m, value', array')
  BY <1>1, <1>2, <1>5, <1>6 DEF Balanced
<1>8. FromOne(value', cloned')
  BY <1>2, Standing
<1> QED BY <1>1, <1>2, <1>4, <1>7, <1>8, Settled

\* A value that has been moved from is null.
LEMMA Nulled ==
  ASSUME ValueInvariant, NEW j \in Values
  PROVE  /\ SoundValues([value EXCEPT ![j] = Null])
         /\ \A q \in Resources :
              /\ ValuesHold(value, q) \in Int /\ Holds[value[j]][q] \in Int
              /\ ValuesHold([value EXCEPT ![j] = Null], q) = ValuesHold(value, q) - Holds[value[j]][q]
<1> DEFINE z == [value EXCEPT ![j] = Null]
<1>1. SoundValues(value) /\ Null \in AllTrees /\ Sound(Null)
  BY Standing, NullHolds
<1>2. /\ SoundValues(z)
      /\ \A q \in Resources :
           /\ ValuesHold(value, q) \in Int /\ Holds[value[j]][q] \in Int /\ Holds[Null][q] \in Int
           /\ ValuesHold(z, q) = ValuesHold(value, q) - Holds[value[j]][q] + Holds[Null][q]
  BY <1>1, ValueReplaced
<1> HIDE DEF z
<1>3. \A q \in Resources : ValuesHold(z, q) = ValuesHold(value, q) - Holds[value[j]][q]
  <2>1. \A q \in Resources : Holds[Null][q] = 0
    BY NullHolds
  <2> QED BY <1>2, <2>1
<1> QED BY <1>2, <1>3 DEF z

LEMMA PushBackKeeps ==
  ASSUME ValueInvariant, NEW j \in Values, NEW a \in Arrays, NEW n \in Fuels, NEW grows \in BOOLEAN,
         PushBack(a, j, n, grows)
  PROVE  ValueInvariant'
<1> DEFINE m == Fuelled(n)
           w == array[a]
           c == value[j]
           t == Append(w.items, c)
           g == GiveBack(Take(m, w.alloc), w.body, w.alloc)
           d == Destroyed[c][m]
           z == [value EXCEPT ![j] = Null]
           grown == With(a, t, w.alloc)
           same == With(a, t, w.body)
<1>1. m \in Memory /\ ~m.bad
      /\ \A q \in Resources : m.out[q] = ValuesHold(value, q) + ArraysHold(array, q)
  BY StandingFuelled
<1>2. /\ array \in [Arrays -> AllTrees] /\ w \in ValuesOver(Seq(Trees[MaxNesting - 1]))
      /\ w.items \in Seq(Elders) /\ w.items \in Seq(AllTrees)
      /\ w.body = None \/ w.body = w.alloc
      /\ w.alloc \in Resources /\ w.body \in Blocks
  BY ArrayStanding
<1>3. c \in Elders /\ c \in AllTrees /\ Sound(c)
  BY Standing DEF PushBack, Elders
<1>4. t \in Seq(Elders)
  BY <1>2, <1>3, AppendIn
<1>5. \A q \in Resources : HeldIn(Holds, q, t) = HeldIn(Holds, q, w.items) + Holds[c][q]
  BY <1>2, <1>3, HeldAppends
<1>6. /\ SoundValues(z)
      /\ \A q \in Resources :
           /\ ValuesHold(value, q) \in Int /\ Holds[c][q] \in Int
           /\ ValuesHold(z, q) = ValuesHold(value, q) - Holds[c][q]
  BY Nulled
<1>7. /\ SoundArrays(grown)
      /\ \A q \in Resources :
           /\ ArraysHold(array, q) \in Int /\ ArraysHold(grown, q) \in Int
           /\ CountOf(w.body, q) \in Int /\ CountOf(w.alloc, q) \in Int
           /\ HeldIn(Holds, q, w.items) \in Int /\ HeldIn(Holds, q, t) \in Int
           /\ ArraysHold(grown, q) =
                ArraysHold(array, q) - CountOf(w.body, q) - HeldIn(Holds, q, w.items)
                  + CountOf(w.alloc, q) + HeldIn(Holds, q, t)
  BY <1>4, ArrayRefilled
<1>8. /\ SoundArrays(same)
      /\ \A q \in Resources :
           /\ ArraysHold(array, q) \in Int /\ ArraysHold(same, q) \in Int
           /\ CountOf(w.body, q) \in Int /\ CountOf(w.body, q) \in Int
           /\ HeldIn(Holds, q, w.items) \in Int /\ HeldIn(Holds, q, t) \in Int
           /\ ArraysHold(same, q) =
                ArraysHold(array, q) - CountOf(w.body, q) - HeldIn(Holds, q, w.items)
                  + CountOf(w.body, q) + HeldIn(Holds, q, t)
  BY <1>2, <1>4, ArrayRefilled
<1>9. d \in Memory /\ d.bad = m.bad /\ \A q \in Resources : d.out[q] = m.out[q] - Holds[c][q]
  BY <1>1, <1>3, DestroyingAny
<1>10. /\ g \in Memory /\ g.bad = m.bad
       /\ \A q \in Resources : g.out[q] = m.out[q] + CountOf(w.alloc, q) - CountOf(w.body, q)
  <2> DEFINE h == Take(m, w.alloc)
  <2>1. h \in Memory /\ h.bad = m.bad /\ \A q \in Resources : h.out[q] = m.out[q] + CountOf(w.alloc, q)
    BY <1>1, <1>2, TakeGives
  <2>0. g = GiveBack(h, w.body, w.alloc)
    OBVIOUS
  <2> HIDE DEF h, w, m, g
  <2>2. /\ GiveBack(h, w.body, w.alloc) \in Memory /\ GiveBack(h, w.body, w.alloc).bad = h.bad
        /\ \A q \in Resources : GiveBack(h, w.body, w.alloc).out[q] = h.out[q] - CountOf(w.body, q)
    BY <1>2, <2>1, GiveBackGives
  <2>3. \A q \in Resources : m.out[q] \in Int /\ CountOf(w.alloc, q) \in Int /\ CountOf(w.body, q) \in Int
    BY <1>1, CountType DEF Memory
  <2> QED BY <2>0, <2>1, <2>2, <2>3
<1>11. /\ \/ Settle(g) /\ array' = grown
          \/ Settle(m) /\ array' = same
          \/ Settle(d) /\ array' = array
       /\ value' = z /\ Touched({j})
  <2>1. [array EXCEPT ![a].items = Append(@, c), ![a].body = w.alloc] = grown
    BY <1>2 DEF With
  <2>2. [array EXCEPT ![a].items = Append(@, c)] = same
    <3>1. [array EXCEPT ![a].items = Append(@, c)] = [array EXCEPT ![a] = [w EXCEPT !.items = t]]
      BY <1>2
    <3>2. [w EXCEPT !.items = t] = [w EXCEPT !.items = t, !.body = w.body]
      BY <1>2, Fields
    <3> QED BY <3>1, <3>2 DEF With
  <2>3. /\ \/ Settle(g) /\ array' = [array EXCEPT ![a].items = Append(@, c), ![a].body = w.alloc]
           \/ Settle(m) /\ array' = [array EXCEPT ![a].items = Append(@, c)]
           \/ Settle(d) /\ array' = array
        /\ value' = z /\ Touched({j})
    BY DEF PushBack, Replace
  <2> HIDE DEF g, m, d, z, grown, same
  <2> QED BY <2>1, <2>2, <2>3
<1>12. FromOne(z, cloned')
  BY <1>11, OneTouched
<1>13. SoundArrays(array)
  BY Standing
<1> HIDE DEF g, m, d, z, grown, same, t, c, w
<1>14. CASE Settle(g) /\ array' = grown
  <2>1. ASSUME NEW q \in Resources PROVE g.out[q] = ValuesHold(z, q) + ArraysHold(grown, q)
    <3>1. g.out[q] = m.out[q] + CountOf(w.alloc, q) - CountOf(w.body, q)
          /\ m.out[q] = ValuesHold(value, q) + ArraysHold(array, q)
      BY <1>1, <1>10
    <3> QED BY <1>5, <1>6, <1>7, <3>1
  <2>2. Balanced(g, value', array')
    BY <1>1, <1>10, <1>11, <1>14, <2>1 DEF Balanced
  <2> QED BY <1>6, <1>7, <1>11, <1>12, <1>14, <2>2, Settled
<1>15. CASE Settle(m) /\ array' = same
  <2>1. ASSUME NEW q \in Resources PROVE m.out[q] = ValuesHold(z, q) + ArraysHold(same, q)
    BY <1>1, <1>5, <1>6, <1>8
  <2>2. Balanced(m, value', array')
    BY <1>1, <1>11, <1>15, <2>1 DEF Balanced
  <2> QED BY <1>6, <1>8, <1>11, <1>12, <1>15, <2>2, Settled
<1>16. CASE Settle(d) /\ array' = array
  <2>1. ASSUME NEW q \in Resources PROVE d.out[q] = ValuesHold(z, q) + ArraysHold(array, q)
    BY <1>1, <1>6, <1>8, <1>9
  <2>2. Balanced(d, value', array')
    BY <1>1, <1>9, <1>11, <1>16, <2>1 DEF Balanced
  <2> QED BY <1>6, <1>11, <1>12, <1>13, <1>16, <2>2, Settled
<1> QED BY <1>11, <1>14, <1>15, <1>16

LEMMA HeldUpdated ==
  ASSUME NEW s \in Seq(AllTrees), NEW i \in 1..Len(s), NEW c \in AllTrees, NEW q \in Resources
  PROVE  HeldIn(Holds, q, [s EXCEPT ![i] = c]) = HeldIn(Holds, q, s) - Holds[s[i]][q] + Holds[c][q]
<1> DEFINE t == [s EXCEPT ![i] = c]
           n == Len(s)
           g == HeldStep(Holds, q, Int, AllTrees)
<1>1. \A b \in AllTrees : Holds[b][q] \in Int
  BY HoldsUnfolds
<1>2. 0 \in Int /\ \A a \in Int, b \in AllTrees : a + Holds[b][q] \in Int
  BY <1>1
<1>3. n \in Nat /\ i \in 1..n /\ t \in Seq(AllTrees) /\ Len(t) = n /\ t[i] = c
      /\ (\A k \in 1..n : s[k] \in AllTrees /\ t[k] \in AllTrees) /\ \A k \in 1..n : k # i => t[k] = s[k]
  OBVIOUS
<1> HIDE DEF t
<1>4. RunsTo(n, Int, 0, g, s, HeldIn(Holds, q, s))
  BY <1>2, HeldRuns
<1>5. RunsTo(n, Int, 0, g, t, HeldIn(Holds, q, t))
  <2>1. RunsTo(Len(t), Int, 0, g, t, HeldIn(Holds, q, t))
    BY <1>2, <1>3, HeldRuns
  <2> QED BY <1>3, <2>1
<1>6. \A a \in Int, b \in AllTrees : g[<<a, b>>] = a + Holds[b][q]
  BY DEF HeldStep
<1> HIDE DEF g, n
<1>7. PICK u \in [0..n -> Int] : IsRun(u, n, 0, g, s) /\ u[n] = HeldIn(Holds, q, s)
  BY <1>4 DEF RunsTo
<1>8. PICK v \in [0..n -> Int] : IsRun(v, n, 0, g, t) /\ v[n] = HeldIn(Holds, q, t)
  BY <1>5 DEF RunsTo
<1> DEFINE x == Holds[s[i]][q]
           y == Holds[c][q]
           P == {k \in Nat : k <= n => /\ k < i => v[k] = u[k]
                                       /\ k >= i => v[k] = u[k] - x + y}
<1>9. x \in Int /\ y \in Int /\ i \in Nat /\ i >= 1
  BY <1>1, <1>3
<1>10. 0 \in P
  BY <1>7, <1>8, <1>9 DEF IsRun
<1>11. ASSUME NEW k \in Nat, k \in P PROVE k + 1 \in P
  <2> SUFFICES ASSUME k + 1 <= n
               PROVE  (k + 1 < i => v[k + 1] = u[k + 1]) /\ (k + 1 >= i => v[k + 1] = u[k + 1] - x + y)
    OBVIOUS
  <2>1. k + 1 \in 1..n /\ k \in 0..n /\ (k + 1) - 1 = k /\ u[k] \in Int /\ v[k] \in Int
    BY <1>3
  <2>2. (k < i => v[k] = u[k]) /\ (k >= i => v[k] = u[k] - x + y)
    BY <1>11, <2>1
  <2> HIDE DEF P
  <2>3. u[k + 1] = u[k] + Holds[s[k + 1]][q]
    <3>1. u[k + 1] = g[<<u[k], s[k + 1]>>]
      BY <1>7, <2>1 DEF IsRun
    <3> QED BY <1>3, <1>6, <2>1, <3>1
  <2>4. v[k + 1] = v[k] + Holds[t[k + 1]][q]
    <3>1. v[k + 1] = g[<<v[k], t[k + 1]>>]
      BY <1>8, <2>1 DEF IsRun
    <3> QED BY <1>3, <1>6, <2>1, <3>1
  <2>5. Holds[s[k + 1]][q] \in Int /\ Holds[t[k + 1]][q] \in Int
    BY <1>1, <1>3, <2>1
  <2>6. CASE k + 1 = i
    <3>1. Holds[s[k + 1]][q] = x /\ Holds[t[k + 1]][q] = y /\ v[k] = u[k]
      BY <1>3, <1>9, <2>2, <2>6
    <3> HIDE DEF x, y
    <3> QED BY <1>9, <2>1, <2>3, <2>4, <2>6, <3>1
  <2>7. CASE k + 1 # i
    <3>1. t[k + 1] = s[k + 1]
      BY <1>3, <2>1, <2>7
    <3>2. v[k + 1] = v[k] + Holds[s[k + 1]][q] /\ u[k + 1] = u[k] + Holds[s[k + 1]][q]
      BY <2>3, <2>4, <3>1
    <3> HIDE DEF x, y
    <3>3. CASE k + 1 < i
      <4>1. k < i /\ v[k] = u[k]
        BY <1>9, <2>1, <2>2, <3>3
      <4> QED BY <1>9, <2>1, <3>2, <3>3, <4>1
    <3>4. CASE k + 1 > i
      <4>1. k >= i /\ v[k] = u[k] - x + y
        BY <1>9, <2>1, <2>2, <3>4
      <4> QED BY <1>9, <2>1, <2>5, <3>2, <3>4, <4>1
    <3> QED BY <1>9, <2>7, <3>3, <3>4
  <2> QED BY <2>6, <2>7
<1> HIDE DEF P
<1>12. \A k \in Nat : k \in P
  BY <1>10, <1>11, NatSetInduction
<1>13. n >= i
  BY <1>3
<1> QED BY <1>3, <1>7, <1>8, <1>12, <1>13 DEF P, t, x, y

LEMMA ReplacedIn ==
  ASSUME NEW S, NEW s \in Seq(S), NEW i \in 1..Len(s), NEW c \in S
  PROVE  [s EXCEPT ![i] = c] \in Seq(S)
OBVIOUS

LEMMA TakeElementKeeps ==
  ASSUME ValueInvariant, NEW j \in Values, NEW a \in Arrays, NEW i, TakeElement(j, a, i)
  PROVE  ValueInvariant'
<1> DEFINE w == array[a]
           c == w.items[i]
           t == [w.items EXCEPT ![i] = Null]
           d == Destroyed[value[j]][pool]
           u == [value EXCEPT ![j] = c]
           b == With(a, t, w.body)
<1>1. /\ array \in [Arrays -> AllTrees] /\ w \in ValuesOver(Seq(Trees[MaxNesting - 1]))
      /\ w.items \in Seq(Elders) /\ w.items \in Seq(AllTrees)
      /\ w.body = None \/ w.body = w.alloc
  BY ArrayStanding
<1>2. i \in 1..Len(w.items) /\ c \in Elders
  BY <1>1 DEF TakeElement
<1>3. c \in AllTrees /\ Sound(c)
  BY <1>2, EldersElements DEF Elders
<1>4. Null \in Elders
  <2>1. MaxNesting \in Nat \ {0} /\ Trees[0] = {} /\ Trees[MaxNesting - 1] # {}
    BY <1>2, TreesUnfold DEF Elders
  <2>2. MaxNesting - 1 \in 1..MaxNesting
    BY <2>1
  <2> QED BY <2>2, NullHolds DEF Elders
<1>5. t \in Seq(Elders)
  <2> HIDE DEF w
  <2> QED BY <1>1, <1>2, <1>4, ReplacedIn
<1>6. ASSUME NEW q \in Resources
      PROVE  HeldIn(Holds, q, t) = HeldIn(Holds, q, w.items) - Holds[c][q] /\ Holds[c][q] \in Int
             /\ HeldIn(Holds, q, w.items) \in Int
  <2> DEFINE s == w.items
  <2>1. s \in Seq(AllTrees) /\ i \in 1..Len(s) /\ Null \in AllTrees
    BY <1>1, <1>2, NullHolds
  <2> HIDE DEF s
  <2>2. HeldIn(Holds, q, [s EXCEPT ![i] = Null]) = HeldIn(Holds, q, s) - Holds[s[i]][q] + Holds[Null][q]
    BY <2>1, HeldUpdated
  <2>3. Holds[s[i]][q] \in Int
    BY <2>1, HoldsNumbers
  <2>4. HeldIn(Holds, q, s) \in Int
    <3>1. \A v \in AllTrees : Holds[v][q] \in Int
      BY HoldsNumbers
    <3> QED BY <2>1, <3>1, HeldInType
  <2>5. Holds[Null][q] = 0
    BY NullHolds
  <2>6. HeldIn(Holds, q, [s EXCEPT ![i] = Null]) = HeldIn(Holds, q, s) - Holds[s[i]][q]
    BY <2>2, <2>3, <2>4, <2>5
  <2> QED BY <2>3, <2>4, <2>6 DEF s
<1>7. /\ value[j] \in AllTrees /\ Sound(value[j]) /\ SoundValues(value) /\ pool \in Memory /\ ~pool.bad
      /\ \A r \in Resources : pool.out[r] = ValuesHold(value, r) + ArraysHold(array, r)
  BY Standing
<1>8. /\ SoundArrays(b)
      /\ \A q \in Resources :
           /\ ArraysHold(array, q) \in Int /\ ArraysHold(b, q) \in Int
           /\ CountOf(w.body, q) \in Int /\ CountOf(w.body, q) \in Int
           /\ HeldIn(Holds, q, w.items) \in Int /\ HeldIn(Holds, q, t) \in Int
           /\ ArraysHold(b, q) =
                ArraysHold(array, q) - CountOf(w.body, q) - HeldIn(Holds, q, w.items)
                  + CountOf(w.body, q) + HeldIn(Holds, q, t)
  BY <1>1, <1>5, ArrayRefilled
<1>9. d \in Memory /\ d.bad = pool.bad /\ \A r \in Resources : d.out[r] = pool.out[r] - Holds[value[j]][r]
  BY <1>7, DestroyingAny
<1>10. /\ SoundValues(u)
       /\ \A r \in Resources :
            /\ ValuesHold(value, r) \in Int /\ Holds[value[j]][r] \in Int /\ Holds[c][r] \in Int
            /\ ValuesHold(u, r) = ValuesHold(value, r) - Holds[value[j]][r] + Holds[c][r]
  <2>1. SoundValues(value) /\ c \in AllTrees /\ Sound(c)
    BY <1>3, <1>7
  <2> HIDE DEF c
  <2> QED BY <2>1, ValueReplaced
<1>11. Settle(d) /\ value' = u /\ array' = b /\ Touched({j})
  <2>1. array' = [array EXCEPT ![a].items[i] = Null]
    BY DEF TakeElement
  <2>2. [array EXCEPT ![a].items[i] = Null] = [array EXCEPT ![a] = [w EXCEPT !.items = t]]
    BY <1>1
  <2>3. [w EXCEPT !.items = t] = [w EXCEPT !.items = t, !.body = w.body]
    BY <1>1, Fields
  <2> QED BY <2>1, <2>2, <2>3 DEF With, TakeElement, Replace
<1>12. FromOne(u, cloned')
  BY <1>11, OneTouched
<1> HIDE DEF d, u, b, t, c, w
<1>13. ASSUME NEW q \in Resources PROVE d.out[q] = ValuesHold(u, q) + ArraysHold(b, q)
  <2>1. d.out[q] = pool.out[q] - Holds[value[j]][q]
        /\ pool.out[q] = ValuesHold(value, q) + ArraysHold(array, q)
    BY <1>7, <1>9
  <2> QED BY <1>6, <1>8, <1>10, <2>1
<1>14. Balanced(d, value', array')
  BY <1>7, <1>9, <1>11, <1>13 DEF Balanced
<1> QED BY <1>8, <1>10, <1>11, <1>12, <1>14, Settled

\* An array value that its elements, and perhaps its storage, have left.
LEMMA Left ==
  ASSUME ValueInvariant, NEW j \in Values, value[j].type = "Array", NEW b, b = None \/ b = value[j].alloc,
         NEW x, x = [value[j] EXCEPT !.items = <<>>, !.body = b]
  PROVE  /\ SoundValues([value EXCEPT ![j] = x])
         /\ \A q \in Resources :
              /\ ValuesHold(value, q) \in Int /\ CountOf(value[j].body, q) \in Int /\ CountOf(b, q) \in Int
              /\ HeldIn(Holds, q, value[j].items) \in Int
              /\ ValuesHold([value EXCEPT ![j] = x], q) =
                   ValuesHold(value, q) - CountOf(value[j].body, q) - HeldIn(Holds, q, value[j].items) + CountOf(b, q)
<1> DEFINE w == value[j]
           t == <<>>
           u == [value EXCEPT ![j] = x]
<1>1. SoundValues(value) /\ w \in AllTrees /\ Sound(w)
  BY Standing
<1>2. Refilled(x, w, t, b) /\ t \in Seq(Elders) /\ w.type = "Array" /\ (b = None \/ b = w.alloc)
  BY DEF Refilled
<1>3. \A q \in Resources : HeldIn(Holds, q, t) = 0
  BY HeldOfNone
<1> HIDE DEF w, t
<1>4. /\ x \in AllTrees /\ Sound(x)
      /\ \A q \in Resources : Holds[x][q] = CountOf(w.head, q) + CountOf(b, q) + HeldIn(Holds, q, t)
  BY <1>1, <1>2, RefilledGives
<1>5. /\ SoundValues(u)
      /\ \A q \in Resources :
           /\ ValuesHold(value, q) \in Int /\ Holds[w][q] \in Int /\ Holds[x][q] \in Int
           /\ ValuesHold(u, q) = ValuesHold(value, q) - Holds[w][q] + Holds[x][q]
  <2>1. SoundValues(value) /\ x \in AllTrees /\ Sound(x)
    BY <1>1, <1>4
  <2> QED BY <2>1, ValueReplaced DEF w
<1> HIDE DEF u
<1>6. ASSUME NEW q \in Resources
      PROVE  /\ ValuesHold(value, q) \in Int /\ CountOf(w.body, q) \in Int /\ CountOf(b, q) \in Int
             /\ HeldIn(Holds, q, w.items) \in Int
             /\ ValuesHold(u, q) =
                  ValuesHold(value, q) - CountOf(w.body, q) - HeldIn(Holds, q, w.items) + CountOf(b, q)
  <2>1. HeldIn(Holds, q, w.items) \in Int
        /\ Holds[w][q] = CountOf(w.head, q) + CountOf(w.body, q) + HeldIn(Holds, q, w.items)
    BY <1>1, HoldsNumbers
  <2>2. CountOf(w.head, q) \in Int /\ CountOf(w.body, q) \in Int /\ CountOf(b, q) \in Int
    BY CountType
  <2>3. Holds[x][q] = CountOf(w.head, q) + CountOf(b, q)
    BY <1>3, <1>4, <2>2
  <2>4. ValuesHold(value, q) \in Int /\ ValuesHold(u, q) = ValuesHold(value, q) - Holds[w][q] + Holds[x][q]
    BY <1>5
  <2> QED BY <2>1, <2>2, <2>3, <2>4
<1> QED BY <1>5, <1>6 DEF u, w

LEMMA TakeArrayKeeps ==
  ASSUME ValueInvariant, NEW j \in Values, NEW a \in Arrays, NEW grows \in BOOLEAN, TakeArray(a, j, grows)
  PROVE  ValueInvariant'
<1> DEFINE w == array[a]
           from == value[j]
           t == from.items
           d == Destroyed[w][pool]
           cleared == InTurn(Destroyed, pool, w.items)
           h == Take(cleared, w.alloc)
           g == GiveBack(h, w.body, w.alloc)
           empty == [from EXCEPT !.items = <<>>, !.body = None]
           left == [from EXCEPT !.items = <<>>, !.body = from.body]
           stolen == With(a, t, from.body)
           grown == With(a, t, w.alloc)
           same == With(a, t, w.body)
           u == [value EXCEPT ![j] = empty]
           z == [value EXCEPT ![j] = left]
<1>1. /\ array \in [Arrays -> AllTrees] /\ w \in ValuesOver(Seq(Trees[MaxNesting - 1]))
      /\ w.body = None \/ w.body = w.alloc
      /\ w.alloc \in Resources /\ w.res = w.alloc /\ w.body \in Blocks
  BY ArrayStanding
<1>2. w \in AllTrees /\ Sound(w) /\ w.head = None /\ from \in AllTrees /\ Sound(from)
  BY Standing
<1>3. from.type = "Array"
  BY DEF TakeArray
<1>4. from \in ValuesOver(Seq(Trees[MaxNesting - 1])) /\ t \in Seq(Elders)
      /\ (from.body = None \/ from.body = from.alloc) /\ from.res = from.alloc
  <2>1. Bound(from)
    BY <1>2, SoundElements
  <2>2. t \in Seq(Elders)
    BY <1>2, EldersElements
  <2>3. from \in ValuesOver(Seq(Trees[MaxNesting - 1]))
    BY <1>2, TreesUnfold
  <2> QED BY <1>3, <2>1, <2>2, <2>3 DEF Bound
<1>5. /\ \/ w.alloc = from.alloc /\ Settle(d) /\ array' = stolen /\ value' = u
         \/ Settle(g) /\ array' = grown /\ value' = z
         \/ Settle(cleared) /\ array' = same /\ value' = z
      /\ Touched({j})
  <2>1. Touched({j}) /\
        \/ w.alloc = from.alloc /\ Settle(Steal(pool, w, from).mem)
           /\ array' = [array EXCEPT ![a] = Steal(pool, w, from).to]
           /\ value' = [value EXCEPT ![j] = Steal(pool, w, from).from]
        \/ Settle(MoveElements(pool, w, from, grows).mem)
           /\ array' = [array EXCEPT ![a] = MoveElements(pool, w, from, grows).to]
           /\ value' = [value EXCEPT ![j] = MoveElements(pool, w, from, grows).from]
    <3>1. CASE w.alloc = from.alloc
      BY <3>1 DEF TakeArray, Replace
    <3>2. CASE w.alloc # from.alloc
      BY <3>2 DEF TakeArray, Replace
    <3> QED BY <3>1, <3>2
  <2>2. left = [from EXCEPT !.items = <<>>]
    BY <1>4, Fields
  <2>3. CASE /\ w.alloc = from.alloc /\ Settle(Steal(pool, w, from).mem)
             /\ array' = [array EXCEPT ![a] = Steal(pool, w, from).to]
             /\ value' = [value EXCEPT ![j] = Steal(pool, w, from).from]
    <3>1. Steal(pool, w, from) =
            [mem |-> d, to |-> [w EXCEPT !.body = from.body, !.items = t, !.res = from.res], from |-> MovedFrom(from)]
      BY DEF Steal
    <3>2. MovedFrom(from) = empty
      BY <1>4, Fields DEF MovedFrom
    <3>3. [w EXCEPT !.body = from.body, !.items = t, !.res = from.res] = [w EXCEPT !.items = t, !.body = from.body]
      BY <1>1, <1>4, <2>3, Fields
    <3> HIDE DEF w, from, d, empty, left, t
    <3>4. Steal(pool, w, from).mem = d /\ Steal(pool, w, from).from = empty
          /\ Steal(pool, w, from).to = [w EXCEPT !.items = t, !.body = from.body]
      BY <3>1, <3>2, <3>3
    <3> QED BY <2>1, <2>3, <3>4 DEF With, w
  <2>4. CASE /\ Settle(MoveElements(pool, w, from, grows).mem)
             /\ array' = [array EXCEPT ![a] = MoveElements(pool, w, from, grows).to]
             /\ value' = [value EXCEPT ![j] = MoveElements(pool, w, from, grows).from]
    <3> DEFINE k == [w EXCEPT !.items = t]
    <3>1. MoveElements(pool, w, from, grows) =
            [mem |-> IF grows THEN g ELSE cleared, to |-> IF grows THEN [k EXCEPT !.body = w.alloc] ELSE k,
             from |-> [from EXCEPT !.items = <<>>]]
      BY DEF MoveElements
    <3>2. k = [w EXCEPT !.items = t, !.body = w.body] /\ [k EXCEPT !.body = w.alloc] = [w EXCEPT !.items = t, !.body = w.alloc]
      BY <1>1, Fields
    <3> HIDE DEF w, from, g, cleared, k, left, t
    <3>3. MoveElements(pool, w, from, grows).mem = (IF grows THEN g ELSE cleared)
          /\ MoveElements(pool, w, from, grows).from = left
          /\ MoveElements(pool, w, from, grows).to =
               IF grows THEN [w EXCEPT !.items = t, !.body = w.alloc] ELSE [w EXCEPT !.items = t, !.body = w.body]
      BY <2>2, <3>1, <3>2
    <3> QED BY <2>1, <2>4, <3>3 DEF With, w
  <2> HIDE DEF u, z, stolen, same, grown, w, from
  <2> QED BY <2>1, <2>3, <2>4
<1>6. /\ SoundValues(value) /\ pool \in Memory /\ ~pool.bad
      /\ \A r \in Resources : pool.out[r] = ValuesHold(value, r) + ArraysHold(array, r)
  BY Standing
<1>7. d \in Memory /\ d.bad = pool.bad /\ \A r \in Resources : d.out[r] = pool.out[r] - Holds[w][r]
  BY <1>2, <1>6, DestroyingAny
<1>8. /\ cleared \in Memory /\ cleared.bad = pool.bad
      /\ \A q \in Resources : cleared.out[q] = pool.out[q] - HeldIn(Holds, q, w.items)
  BY <1>2, <1>6, Cleared
<1>9. \A q \in Resources :
        /\ HeldIn(Holds, q, w.items) \in Int /\ CountOf(w.body, q) \in Int /\ CountOf(w.alloc, q) \in Int
        /\ Holds[w][q] = CountOf(w.body, q) + HeldIn(Holds, q, w.items)
  <2> SUFFICES ASSUME NEW q \in Resources
               PROVE  /\ HeldIn(Holds, q, w.items) \in Int /\ CountOf(w.body, q) \in Int /\ CountOf(w.alloc, q) \in Int
                      /\ Holds[w][q] = CountOf(w.body, q) + HeldIn(Holds, q, w.items)
    OBVIOUS
  <2>1. HeldIn(Holds, q, w.items) \in Int
        /\ Holds[w][q] = CountOf(w.head, q) + CountOf(w.body, q) + HeldIn(Holds, q, w.items)
    BY <1>2, HoldsNumbers
  <2>2. CountOf(w.head, q) = 0 /\ CountOf(w.body, q) \in Int /\ CountOf(w.alloc, q) \in Int
    BY <1>2, NoneCounts, CountType
  <2> QED BY <2>1, <2>2
<1>10. /\ g \in Memory /\ g.bad = pool.bad
       /\ \A q \in Resources :
            g.out[q] = pool.out[q] - HeldIn(Holds, q, w.items) + CountOf(w.alloc, q) - CountOf(w.body, q)
  <2>1. h \in Memory /\ h.bad = cleared.bad /\ \A q \in Resources : h.out[q] = cleared.out[q] + CountOf(w.alloc, q)
    BY <1>1, <1>8, TakeGives
  <2> HIDE DEF h, cleared
  <2>2. g \in Memory /\ g.bad = h.bad /\ \A q \in Resources : g.out[q] = h.out[q] - CountOf(w.body, q)
    <3> HIDE DEF w
    <3> QED BY <1>1, <2>1, GiveBackGives
  <2>3. \A q \in Resources : pool.out[q] \in Int
    BY <1>6 DEF Memory
  <2> HIDE DEF g, w
  <2> QED BY <1>8, <1>9, <2>1, <2>2, <2>3
<1>11. FromOne(u, cloned') /\ FromOne(z, cloned')
  BY <1>5, OneTouched
<1> HIDE DEF d, cleared, h, g
<1>12. CASE w.alloc = from.alloc /\ Settle(d) /\ array' = stolen /\ value' = u
  <2>1. from.body = None \/ from.body = w.alloc
    BY <1>4, <1>12
  <2>2. /\ SoundArrays(stolen)
        /\ \A q \in Resources :
             /\ ArraysHold(array, q) \in Int /\ ArraysHold(stolen, q) \in Int
             /\ CountOf(w.body, q) \in Int /\ CountOf(from.body, q) \in Int
             /\ HeldIn(Holds, q, w.items) \in Int /\ HeldIn(Holds, q, t) \in Int
             /\ ArraysHold(stolen, q) =
                  ArraysHold(array, q) - CountOf(w.body, q) - HeldIn(Holds, q, w.items)
                    + CountOf(from.body, q) + HeldIn(Holds, q, t)
    BY <1>4, <2>1, ArrayRefilled
  <2>3. /\ SoundValues(u)
        /\ \A q \in Resources :
             /\ ValuesHold(value, q) \in Int /\ CountOf(from.body, q) \in Int /\ CountOf(None, q) \in Int
             /\ HeldIn(Holds, q, t) \in Int
             /\ ValuesHold(u, q) =
                  ValuesHold(value, q) - CountOf(from.body, q) - HeldIn(Holds, q, t) + CountOf(None, q)
    BY <1>3, Left
  <2> HIDE DEF u, stolen, t, w, from
  <2>4. ASSUME NEW q \in Resources PROVE d.out[q] = ValuesHold(u, q) + ArraysHold(stolen, q)
    <3>1. d.out[q] = pool.out[q] - Holds[w][q] /\ pool.out[q] = ValuesHold(value, q) + ArraysHold(array, q)
          /\ CountOf(None, q) = 0
      BY <1>6, <1>7, NoneCounts
    <3>2. Holds[w][q] = CountOf(w.body, q) + HeldIn(Holds, q, w.items)
      BY <1>9
    <3> QED BY <2>2, <2>3, <3>1, <3>2
  <2>5. Balanced(d, value', array')
    BY <1>6, <1>7, <1>12, <2>4 DEF Balanced
  <2> QED BY <1>11, <1>12, <2>2, <2>3, <2>5, Settled
<1>13. /\ SoundValues(z)
       /\ \A q \in Resources :
            /\ ValuesHold(value, q) \in Int /\ CountOf(from.body, q) \in Int /\ CountOf(from.body, q) \in Int
            /\ HeldIn(Holds, q, t) \in Int
            /\ ValuesHold(z, q) =
                 ValuesHold(value, q) - CountOf(from.body, q) - HeldIn(Holds, q, t) + CountOf(from.body, q)
  <2>1. from.body = None \/ from.body = from.alloc
    BY <1>4
  <2>2. left = [value[j] EXCEPT !.items = <<>>, !.body = from.body]
    OBVIOUS
  <2> HIDE DEF left
  <2> QED BY <1>3, <2>1, <2>2, Left
<1>14. CASE Settle(g) /\ array' = grown /\ value' = z
  <2>1. /\ SoundArrays(grown)
        /\ \A q \in Resources :
             /\ ArraysHold(array, q) \in Int /\ ArraysHold(grown, q) \in Int
             /\ CountOf(w.body, q) \in Int /\ CountOf(w.alloc, q) \in Int
             /\ HeldIn(Holds, q, w.items) \in Int /\ HeldIn(Holds, q, t) \in Int
             /\ ArraysHold(grown, q) =
                  ArraysHold(array, q) - CountOf(w.body, q) - HeldIn(Holds, q, w.items)
                    + CountOf(w.alloc, q) + HeldIn(Holds, q, t)
    BY <1>4, ArrayRefilled
  <2> HIDE DEF z, grown, t, w, from
  <2>2. ASSUME NEW q \in Resources PROVE g.out[q] = ValuesHold(z, q) + ArraysHold(grown, q)
    <3>1. g.out[q] = pool.out[q] - HeldIn(Holds, q, w.items) + CountOf(w.alloc, q) - CountOf(w.body, q)
          /\ pool.out[q] = ValuesHold(value, q) + ArraysHold(array, q)
      BY <1>6, <1>10
    <3> QED BY <1>13, <2>1, <3>1
  <2>3. Balanced(g, value', array')
    BY <1>6, <1>10, <1>14, <2>2 DEF Balanced
  <2> QED BY <1>11, <1>13, <1>14, <2>1, <2>3, Settled
<1>15. CASE Settle(cleared) /\ array' = same /\ value' = z
  <2>1. /\ SoundArrays(same)
        /\ \A q \in Resources :
             /\ ArraysHold(array, q) \in Int /\ ArraysHold(same, q) \in Int
             /\ CountOf(w.body, q) \in Int /\ CountOf(w.body, q) \in Int
             /\ HeldIn(Holds, q, w.items) \in Int /\ HeldIn(Holds, q, t) \in Int
             /\ ArraysHold(same, q) =
                  ArraysHold(array, q) - CountOf(w.body, q) - HeldIn(Holds, q, w.items)
                    + CountOf(w.body, q) + HeldIn(Holds, q, t)
    BY <1>1, <1>4, ArrayRefilled
  <2> HIDE DEF z, same, t, w, from
  <2>2. ASSUME NEW q \in Resources PROVE cleared.out[q] = ValuesHold(z, q) + ArraysHold(same, q)
    <3>1. cleared.out[q] = pool.out[q] - HeldIn(Holds, q, w.items)
          /\ pool.out[q] = ValuesHold(value, q) + ArraysHold(array, q)
      BY <1>6, <1>8
    <3> QED BY <1>13, <2>1, <3>1
  <2>3. Balanced(cleared, value', array')
    BY <1>6, <1>8, <1>15, <2>2 DEF Balanced
  <2> QED BY <1>11, <1>13, <1>15, <2>1, <2>3, Settled
<1> QED BY <1>5, <1>12, <1>14, <1>15

LEMMA ValueInitKeeps == ValueInit => ValueInvariant
<1> SUFFICES ASSUME ValueInit PROVE ValueInvariant
  OBVIOUS
<1>1. /\ pool = [out |-> [r \in Resources |-> 0], fuel |-> Unlimited, bad |-> FALSE]
      /\ value = [j \in Values |-> Null] /\ cloned = [j \in Values |-> None]
      /\ array \in [Arrays -> {EmptyArray(r) : r \in Resources}]
  BY DEF ValueInit
<1>2. SoundValues(value) /\ \A j \in Values : value[j] = Null
  BY <1>1, NullHolds DEF SoundValues
<1>3. ASSUME NEW r \in Resources
      PROVE  /\ EmptyArray(r) \in AllTrees /\ Sound(EmptyArray(r)) /\ EmptyArray(r).type = "Array"
             /\ EmptyArray(r).head = None /\ \A q \in Resources : Holds[EmptyArray(r)][q] = 0
  <2>1. r \in Blocks /\ None \in Blocks /\ "Array" \in Tags
    BY DEF Blocks, Tags
  <2>2. /\ EmptyArray(r) \in AllTrees /\ Parts[EmptyArray(r)] = {EmptyArray(r)}
        /\ \A q \in Resources : Holds[EmptyArray(r)][q] = CountOf(None, q) + CountOf(None, q)
    BY <2>1, Leaf DEF EmptyArray
  <2>3. EmptyArray(r).type = "Array" /\ EmptyArray(r).head = None /\ EmptyArray(r).res = r
        /\ EmptyArray(r).alloc = r /\ EmptyArray(r).body = None
    BY DEF EmptyArray, Value
  <2>4. Sound(EmptyArray(r))
    BY <2>2, <2>3 DEF Sound, Bound
  <2> QED BY <2>2, <2>3, <2>4, NoneCounts
<1>4. \A a \in Arrays : \E r \in Resources : array[a] = EmptyArray(r)
  BY <1>1
<1>5. SoundArrays(array) /\ \A a \in Arrays, q \in Resources : Holds[array[a]][q] = 0
  <2>1. \A a \in Arrays : /\ array[a] \in AllTrees /\ Sound(array[a]) /\ array[a].type = "Array"
                          /\ array[a].head = None /\ \A q \in Resources : Holds[array[a]][q] = 0
    BY <1>3, <1>4
  <2>2. array \in [Arrays -> AllTrees]
    BY <1>1, <2>1
  <2> QED BY <2>1, <2>2 DEF SoundArrays
<1>6. ASSUME NEW r \in Resources PROVE ValuesHold(value, r) = 0 /\ ArraysHold(array, r) = 0
  <2> DEFINE f == [j \in Values |-> Holds[value[j]][r]]
             g == [a \in Arrays |-> Holds[array[a]][r]]
  <2>1. f \in [Values -> Int] /\ \A j \in Values : f[j] = 0
    BY <1>2, NullHolds
  <2>2. g \in [Arrays -> Int] /\ \A a \in Arrays : g[a] = 0
    BY <1>5
  <2>3. IsFiniteSet(Values) /\ IsFiniteSet(Arrays)
    BY ValueLifeAssumption
  <2> HIDE DEF f, g
  <2>4. SumFunction(f) = 0 /\ SumFunction(g) = 0
    BY <2>1, <2>2, <2>3, SumOfZeros
  <2> QED BY <2>4 DEF ValuesHold, ArraysHold, f, g
<1>7. Balanced(pool, value, array)
  <2>1. pool \in Memory /\ ~pool.bad /\ \A r \in Resources : pool.out[r] = 0
    BY <1>1, FuelNumbers DEF Memory
  <2> QED BY <1>6, <2>1 DEF Balanced
<1>8. FromOne(value, cloned)
  BY <1>1 DEF FromOne, Blocks
<1> QED BY <1>2, <1>5, <1>7, <1>8 DEF ValueInvariant

LEMMA ValueNextKeeps ==
  ASSUME ValueInvariant, ValueNext
  PROVE  ValueInvariant'
<1>1. ASSUME NEW j \in Values, AssignAny(j) PROVE ValueInvariant'
  <2>1. CASE \E v \in {Null, View} : AssignScalar(j, v)
    BY <2>1, AssignScalarKeeps
  <2>2. CASE \E r \in Resources, n \in Fuels : AssignOwned(j, r, n)
    BY <2>2, AssignOwnedKeeps
  <2>3. CASE \E r \in Resources, n \in Fuels : \E k \in Values : AssignClone(j, k, r, n)
    BY <2>3, AssignCloneKeeps
  <2>4. CASE \E k \in Values : AssignMove(j, k)
    BY <2>4, AssignMoveKeeps
  <2> QED BY <1>1, <2>1, <2>2, <2>3, <2>4 DEF AssignAny
<1>2. ASSUME NEW j \in Values, NEW a \in Arrays, WithArray(j, a) PROVE ValueInvariant'
  <2>1. {0, Unlimited} \subseteq Fuels
    BY DEF Fuels
  <2>2. CASE \E n \in {0, Unlimited} : AssignArray(j, a, n)
    BY <2>1, <2>2, AssignArrayKeeps
  <2>3. CASE \E n \in {0, Unlimited} : ConstructArray(j, a, n)
    BY <2>1, <2>3, ConstructArrayKeeps
  <2>4. CASE \E n \in {0, Unlimited} : \E grows \in BOOLEAN : PushBack(a, j, n, grows)
    BY <2>1, <2>4, PushBackKeeps
  <2>5. CASE \E i \in 1..MaxItems : TakeElement(j, a, i)
    BY <2>5, TakeElementKeeps
  <2>6. CASE \E grows \in BOOLEAN : TakeArray(a, j, grows)
    BY <2>6, TakeArrayKeeps
  <2> QED BY <1>2, <2>2, <2>3, <2>4, <2>5, <2>6 DEF WithArray
<1>3. ASSUME NEW a \in Arrays, ClearArray(a) PROVE ValueInvariant'
  BY <1>3, ClearArrayKeeps
<1> QED BY <1>1, <1>2, <1>3 DEF ValueNext

LEMMA StutterKeepsValues ==
  ASSUME ValueInvariant, UNCHANGED valueVars
  PROVE  ValueInvariant'
BY DEF ValueInvariant, valueVars

\* Every value is bound to where its nodes came from, and the blocks that are
\* out are those that values hold: string.hpp, json.cpp and array.cpp.
THEOREM ValueLifeInvariant == ValueSpec => []ValueInvariant
<1>1. ValueInvariant /\ [ValueNext]_valueVars => ValueInvariant'
  BY ValueNextKeeps, StutterKeepsValues
<1> QED BY <1>1, ValueInitKeeps, PTL DEF ValueSpec

\* Every block is held by one value until it goes back to the resource it came
\* from, whatever throws and whenever (Json::clone, Json::destroy, the moves).
THEOREM BlocksTheorem == ValueSpec => []BlocksAccounted
<1>1. ValueInvariant => BlocksAccounted
  BY DEF ValueInvariant, Balanced, BlocksAccounted, FreedAtOrigin, Accounted, ValuesHold, ArraysHold
<1> QED BY <1>1, ValueLifeInvariant, PTL

\* A container and all of its storage depend on the one resource it remembers,
\* and a clone on the one it asked for (Array::operator=(Array &&), Json::clone).
THEOREM BoundTheorem == ValueSpec => []BoundToOneResource
<1>1. ASSUME ValueInvariant PROVE BoundToOneResource
  <2>1. ASSUME NEW v \in AllParts PROVE Bound(v)
    <3>1. \A j \in Values : Sound(value[j])
      BY Standing, <1>1
    <3>2. \A a \in Arrays : Sound(array[a])
      BY Standing, <1>1
    <3>3. (\E j \in Values : v \in Parts[value[j]]) \/ \E a \in Arrays : v \in Parts[array[a]]
      <4>1. v \in UNION {Parts[value[j]] : j \in Values} \/ v \in UNION {Parts[array[a]] : a \in Arrays}
        BY DEF AllParts
      <4> QED BY <4>1
    <3> QED BY <3>1, <3>2, <3>3 DEF Sound
  <2>2. BoundTogether
    BY <2>1 DEF BoundTogether, Bound
  <2>3. CloneSelfContained
    BY <1>1 DEF ValueInvariant, FromOne, Copied, CloneSelfContained
  <2> QED BY <2>2, <2>3 DEF BoundToOneResource
<1> QED BY <1>1, ValueLifeInvariant, PTL
=============================================================================
