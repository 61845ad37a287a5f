---------------------------- MODULE ConfigShared ----------------------------
(***************************************************************************)
(* The global Config (src/config.cpp) shared by threads: a cached pointer  *)
(* to the global Document's resource, read without a lock, and release()   *)
(* and reset(), which replace that resource under the exclusive lock.      *)
(* Every atomic access and every lock operation is a step.  The resource   *)
(* is a CountingResource, as in a debug build.  A resource is the number   *)
(* of the arena, 0 is the null pointer.                                    *)
(***************************************************************************)
EXTENDS Integers, FiniteSets

CONSTANTS
  Threads,
  MaxArenas,   \* bound on release() and reset() calls
  MaxHeld,     \* bound on the blocks a thread holds
  MaxFailures  \* how often the upstream resource may throw
ASSUME ConfigAssumption == MaxArenas \in Nat /\ MaxHeld \in Nat /\ MaxFailures \in Nat

VARIABLES
  exclusive,        \* whether callers keep to the contract of release()
  storage,          \* m_storage
  cached,           \* m_cached_resource
  arena,            \* the arena of m_global
  writer, readers,  \* m_mutex
  pc, ptr, held,    \* each thread: where it is, its pointer, its blocks
  count,            \* m_count of the arena's CountingResource
  failures,
  control,          \* the thread in release() or reset()
  stale,            \* whether an arena that is gone was used
  aborted           \* whether the assertion of release_locked failed
knobs  == <<exclusive, storage>>
lock   == <<writer, readers>>
thread == <<pc, ptr, held>>
tally  == <<count, failures, stale>>
vars   == <<knobs, cached, arena, lock, thread, tally, control, aborted>>

Init ==
  /\ exclusive \in BOOLEAN /\ storage = "Pooled"
  /\ arena = 1 /\ cached = 1 /\ writer = FALSE /\ readers = {}
  /\ pc = [t \in Threads |-> "idle"] /\ ptr = [t \in Threads |-> 0] /\ held = [t \in Threads |-> 0]
  /\ count = 0 /\ failures = 0 /\ control = "idle" /\ stale = FALSE /\ aborted = FALSE

(***************************************************************************)
(* resource() and the use of what it returned.                             *)
(***************************************************************************)
Load(t) ==
  /\ pc[t] = "idle" /\ (exclusive => control = "idle")
  /\ \/ cached # 0 /\ ptr' = [ptr EXCEPT ![t] = cached] /\ pc' = [pc EXCEPT ![t] = "have"]
     \/ cached = 0 /\ pc' = [pc EXCEPT ![t] = "wait"] /\ UNCHANGED ptr
  /\ UNCHANGED <<knobs, cached, arena, lock, held, tally, control, aborted>>
LockShared(t) ==
  /\ pc[t] = "wait" /\ ~writer
  /\ readers' = readers \union {t} /\ pc' = [pc EXCEPT ![t] = "read"]
  /\ UNCHANGED <<knobs, cached, arena, writer, ptr, held, tally, control, aborted>>
\* Slip (CacheCurrent): the lock is released before the pointer is cached.
ReadGlobalUnlocks(t) ==
  /\ pc[t] = "read" /\ ptr' = [ptr EXCEPT ![t] = arena] /\ pc' = [pc EXCEPT ![t] = "store"]
  /\ readers' = readers \ {t}
  /\ UNCHANGED <<knobs, cached, arena, writer, held, tally, control, aborted>>
ReadGlobal(t) ==
  /\ pc[t] = "read" /\ ptr' = [ptr EXCEPT ![t] = arena] /\ pc' = [pc EXCEPT ![t] = "store"]
  /\ UNCHANGED <<knobs, cached, arena, lock, held, tally, control, aborted>>
StoreCache(t) ==
  /\ pc[t] = "store" /\ cached' = ptr[t]
  /\ readers' = readers \ {t} /\ pc' = [pc EXCEPT ![t] = "have"]
  /\ UNCHANGED <<knobs, arena, writer, ptr, held, tally, control, aborted>>

\* Slip (AssertFiresOnlyAfterThrow): a block given back is not counted.
UncountNever(t) == UNCHANGED count
\* The count of an arena that is gone is gone with it.
Count(t)   == count' = IF ptr[t] = arena THEN count + 1 ELSE count
Uncount(t) == count' = IF ptr[t] = arena THEN count - 1 ELSE count
Uses(t)    == stale' = (stale \/ ptr[t] # arena)

\* do_allocate counts, then asks upstream, which may throw.
Allocate(t) ==
  /\ pc[t] = "have" /\ held[t] < MaxHeld
  /\ Count(t) /\ Uses(t)
  /\ \/ held' = [held EXCEPT ![t] = @ + 1] /\ UNCHANGED failures
     \/ failures < MaxFailures /\ failures' = failures + 1 /\ UNCHANGED held
  /\ UNCHANGED <<knobs, cached, arena, lock, pc, ptr, control, aborted>>
Deallocate(t) ==
  /\ pc[t] = "have" /\ held[t] > 0
  /\ Uncount(t) /\ Uses(t) /\ held' = [held EXCEPT ![t] = @ - 1]
  /\ UNCHANGED <<knobs, cached, arena, lock, pc, ptr, failures, control, aborted>>
Forget(t) ==
  /\ pc[t] = "have" /\ held[t] = 0
  /\ pc' = [pc EXCEPT ![t] = "idle"] /\ ptr' = [ptr EXCEPT ![t] = 0]
  /\ UNCHANGED <<knobs, cached, arena, lock, held, tally, control, aborted>>

(***************************************************************************)
(* configure(), release() and reset().                                     *)
(***************************************************************************)
Configure ==
  /\ ~writer /\ readers = {}
  /\ storage' \in {"Pooled", "Arena"}
  /\ UNCHANGED <<exclusive, cached, arena, lock, thread, tally, control, aborted>>

\* The contract: no thread has, or is about to get, the resource.
Quiescent == \A t \in Threads : pc[t] = "idle"
Begin ==
  /\ control = "idle" /\ ~writer /\ readers = {} /\ arena < MaxArenas
  /\ exclusive => Quiescent
  /\ writer' = TRUE /\ control' = "clear"
  /\ \/ UNCHANGED storage      \* release
     \/ storage' = "Pooled"    \* reset
  /\ UNCHANGED <<exclusive, cached, arena, readers, thread, tally, aborted>>
\* Slip (CacheCurrent): the cached pointer outlives the arena.
InvalidateNot ==
  /\ control = "clear" /\ control' = "check"
  /\ UNCHANGED <<knobs, cached, arena, lock, thread, tally, aborted>>
Invalidate ==
  /\ control = "clear" /\ cached' = 0 /\ control' = "check"
  /\ UNCHANGED <<knobs, arena, lock, thread, tally, aborted>>
Check ==
  /\ control = "check" /\ aborted' = (aborted \/ count # 0) /\ control' = "rebuild"
  /\ UNCHANGED <<knobs, cached, arena, lock, thread, tally>>
\* m_global->reset(), then the lock is released.
Rebuild ==
  /\ control = "rebuild" /\ arena' = arena + 1 /\ count' = 0
  /\ writer' = FALSE /\ control' = "idle"
  /\ UNCHANGED <<knobs, cached, readers, thread, failures, stale, aborted>>

Next ==
  \/ \E t \in Threads : \/ Load(t) \/ LockShared(t) \/ ReadGlobal(t) \/ StoreCache(t)
                        \/ Allocate(t) \/ Deallocate(t) \/ Forget(t)
  \/ Configure \/ Begin \/ Invalidate \/ Check \/ Rebuild
Spec == Init /\ [][Next]_vars

(***************************************************************************)
(* Properties.                                                             *)
(***************************************************************************)
\* Unless a release is under way the cache is empty or current, even where
\* release() overlapped resource(): no later caller gets a dead arena.
CacheCurrent == writer \/ cached \in {0, arena}

\* Where callers keep to the contract no thread ever allocates from, or gives
\* a block back to, an arena that is gone.
NoStaleUse == exclusive => ~stale

\* Where callers keep to the contract the debug assertion of release_locked
\* ("asserts no outstanding allocations from the global resource", config.hpp)
\* does not fire.
AssertHolds == exclusive => ~aborted

\* It does not fire as long as no allocation has thrown.
AssertFiresOnlyAfterThrow == failures = 0 => AssertHolds

\* The contract of release() is enough: no dead arena is used, and the
\* assertion fires at most where an allocation has thrown.
ContractSuffices == NoStaleUse /\ AssertFiresOnlyAfterThrow
=============================================================================
