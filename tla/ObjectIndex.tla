---------------------------- MODULE ObjectIndex ----------------------------
(***************************************************************************)
(* Object (src/object.cpp): an entry vector and a lazily built, open       *)
(* addressing index from keys to positions.  A call runs from pc = "idle"  *)
(* back to it; in between, the lookup, the refill loop, the capacity loop  *)
(* and the loops of merge and operator== take a step per iteration.  Every *)
(* allocation may throw.                                                   *)
(***************************************************************************)
EXTENDS Integers, FiniteSets, SequencesExt

CONSTANTS
  Objs, Keys, Scalars, Null, Leaves, Resources,
  Hash,        \* key_hash
  Threshold,   \* kIndexThreshold
  MinCap,      \* the initial capacity in index_build
  Programs     \* what a caller does: the operations, objects, resources, values and
               \* entry vectors it uses, a bound on the entries of an object, and
               \* whether it keeps using a reference from data()

NoRes == "none"

VARIABLES
  program,
  data,   \* m_data
  res,    \* m_resource, NoRes for a place that holds no object
  index,  \* m_index
  live,   \* index blocks allocated from each resource and not given back
  held,   \* objects with a reference from data() in use
  call, pc, pos, at, then,   \* the call in progress
  old, ret                   \* the entries when it began, the last result

store == <<data, res, held>>
cache == <<index, live>>
vars  == <<program, data, res, index, live, held, call, pc, pos, at, then, old, ret>>

\* The promise, kept at every return.
Promise == INSTANCE OrderedMap WITH data <- IF pc = "idle" THEN data ELSE old

Entries  == [key : Keys, val : Promise!Values]
ASSUME IndexAssumption ==
  /\ IsFiniteSet(Objs) /\ Hash \in [Keys -> Nat]
  /\ Threshold \in Nat /\ MinCap \in Nat \ {0} /\ Null \in Scalars /\ NoRes \notin Resources
  /\ \A p \in Programs : /\ p.objs \subseteq Objs /\ p.resources \subseteq Resources
                          /\ p.values \subseteq Promise!Values /\ p.vectors \subseteq Seq(Entries)
                          /\ p.maxLen \in Nat /\ p.holdsData \in BOOLEAN

Alive    == {o \in Objs : res[o] # NoRes}
NoIndex  == [cap |-> 0, size |-> 0, stale |-> FALSE, slots |-> <<>>]
HasIndex(o) == index[o].cap > 0
Empty(cap)  == [cap |-> cap, size |-> 0, stale |-> FALSE, slots |-> [j \in 0..(cap - 1) |-> 0]]

NullValue == Promise!Scalar(Null)
NoOld  == [o \in Objs |-> <<>>]
NoCall == LET o == CHOOSE x \in Objs : TRUE
          IN  [op |-> "none", o |-> o, p |-> o, k |-> Null, v |-> NullValue, n |-> 1]
Keep == IF program.holdsData THEN held ELSE {}

\* The object looked into, and its entries.
This == call.o
Own  == data[This]

(***************************************************************************)
(* Probing.  A slot holds a position of the entries, or 0.                 *)
(***************************************************************************)
SlotOf(idx, k, j) == (Hash[k] + j) % idx.cap
Stops(idx, d, k) ==
  {j \in 0..(idx.cap - 1) : LET s == idx.slots[SlotOf(idx, k, j)] IN s = 0 \/ d[s].key = k}
ProbeSlot(idx, d, k) == SlotOf(idx, k, Min(Stops(idx, d, k)))

\* Slip (LookupFindsFirst): the last of two equal keys wins.
IndexInsertLastWins(idx, d, i) ==
  LET slot == ProbeSlot(idx, d, d[i].key)
  IN  [idx EXCEPT !.slots[slot] = i, !.size = @ + IF idx.slots[slot] = 0 THEN 1 ELSE 0]
\* index_insert of position i: an equal key already there wins.
IndexInsert(idx, d, i) ==
  LET slot == ProbeSlot(idx, d, d[i].key)
  IN  IF idx.slots[slot] # 0 THEN idx
      ELSE [idx EXCEPT !.slots[slot] = i, !.size = @ + 1]

\* Slip (TypeOK): the block is given back even when there is none.
FreeIndexAlways(o) ==
  /\ index' = [index EXCEPT ![o] = NoIndex]
  /\ live' = [live EXCEPT ![res[o]] = @ - 1]
\* index_free of object o.
FreeIndex(o) ==
  /\ index' = [index EXCEPT ![o] = NoIndex]
  /\ live' = IF HasIndex(o) THEN [live EXCEPT ![res[o]] = @ - 1] ELSE live

\* The call returns r, or throws.
Return(r) == /\ ret' = r /\ pc' = "idle"
             /\ call' = NoCall /\ pos' = 0 /\ at' = 0 /\ then' = "find" /\ old' = NoOld

(***************************************************************************)
(* find_slot.  remove asks it not to refill a stale index.                 *)
(***************************************************************************)
\* Slip (AppendSeesFreshIndex): no lookup refills a stale index.
BypassAlways == ~HasIndex(This) \/ index[This].stale
Bypass == ~HasIndex(This) \/ (index[This].stale /\ call.op = "remove")

FindLinear ==
  /\ pc = "find" /\ Bypass
  /\ pos' = Promise!FirstAt(Own, call.k)
  /\ pc' = "found"
  /\ UNCHANGED <<store, cache, call, at, then, old, ret>>

FindStale ==
  /\ pc = "find" /\ ~Bypass /\ index[This].stale
  /\ index' = [index EXCEPT ![This] = Empty(@.cap)]
  /\ pc' = "refill" /\ at' = 1 /\ then' = "find"
  /\ UNCHANGED <<store, live, call, pos, old, ret>>

FindProbe ==
  /\ pc = "find" /\ ~Bypass /\ ~index[This].stale
  /\ Stops(index[This], Own, call.k) # {}
  /\ pos' = index[This].slots[ProbeSlot(index[This], Own, call.k)]
  /\ pc' = "found"
  /\ UNCHANGED <<store, cache, call, at, then, old, ret>>

\* The loop of index_refill; at is the next position.
Refill ==
  /\ pc = "refill"
  /\ \/ /\ at <= Len(Own)
        /\ Stops(index[This], Own, Own[at].key) # {}
        /\ index' = [index EXCEPT ![This] = IndexInsert(@, Own, at)]
        /\ at' = at + 1
        /\ UNCHANGED pc
     \/ /\ at > Len(Own)
        /\ pc' = then /\ at' = 0
        /\ UNCHANGED index
  /\ UNCHANGED <<store, live, call, pos, then, old, ret>>

(***************************************************************************)
(* index_build: the old index goes first, so that a throw leaves none.  at *)
(* is the capacity.  The new index is filled before m_index points to it,  *)
(* which nothing can observe.                                              *)
(***************************************************************************)
\* Slip (IndexLedger): the new index overwrites the old one.
BuildLeaks(next) ==
  /\ index' = [index EXCEPT ![This] = NoIndex]
  /\ pc' = "build" /\ at' = MinCap /\ then' = next
  /\ UNCHANGED <<store, live, call, pos, old, ret>>
Build(next) ==
  /\ FreeIndex(This)
  /\ pc' = "build" /\ at' = MinCap /\ then' = next
  /\ UNCHANGED <<store, call, pos, old, ret>>

Grow ==
  /\ pc = "build" /\ at < 2 * Len(Own)
  /\ at' = 2 * at
  /\ UNCHANGED <<store, cache, call, pc, pos, then, old, ret>>

Allocate ==
  /\ pc = "build" /\ at >= 2 * Len(Own)
  /\ index' = [index EXCEPT ![This] = Empty(at)]
  /\ live' = [live EXCEPT ![res[This]] = @ + 1]
  /\ pc' = "refill" /\ at' = 1
  /\ UNCHANGED <<store, call, pos, then, old, ret>>

\* A clone that throws takes the new object with it.
AllocateFails ==
  /\ pc = "build" /\ at >= 2 * Len(Own)
  /\ data' = IF call.op = "clone" THEN [data EXCEPT ![This] = <<>>] ELSE data
  /\ res' = IF call.op = "clone" THEN [res EXCEPT ![This] = NoRes] ELSE res
  /\ Return(Promise!Thrown)
  /\ UNCHANGED <<held, cache>>

\* Slip (LoadBounded): the table is not rebuilt when it is half full.
NoteAppendNeverGrows ==
  /\ pc = "note"
  /\ \/ ~HasIndex(This) /\ Len(Own) > Threshold /\ Build("noted")
     \/ /\ ~HasIndex(This) /\ Len(Own) <= Threshold
        /\ pc' = "noted"
        /\ UNCHANGED <<store, cache, call, pos, at, then, old, ret>>
     \/ /\ HasIndex(This)
        /\ index' = [index EXCEPT ![This] = IndexInsert(@, Own, Len(Own))]
        /\ pc' = "noted"
        /\ UNCHANGED <<store, live, call, pos, at, then, old, ret>>
\* index_note_append, after the entry was appended.
NoteAppend ==
  /\ pc = "note"
  /\ LET idx == index[This]
     IN  \/ ~HasIndex(This) /\ Len(Own) > Threshold /\ Build("noted")
         \/ /\ ~HasIndex(This) /\ Len(Own) <= Threshold
            /\ pc' = "noted"
            /\ UNCHANGED <<store, cache, call, pos, at, then, old, ret>>
         \/ HasIndex(This) /\ ~idx.stale /\ 2 * (idx.size + 1) > idx.cap /\ Build("noted")
         \/ /\ HasIndex(This) /\ ~idx.stale /\ 2 * (idx.size + 1) <= idx.cap
            /\ Stops(idx, Own, Last(Own).key) # {}
            /\ index' = [index EXCEPT ![This] = IndexInsert(@, Own, Len(Own))]
            /\ pc' = "noted"
            /\ UNCHANGED <<store, live, call, pos, at, then, old, ret>>

\* A new entry at the end.  Its allocations come first: a throw changes nothing.
AppendEntry(k, v) ==
  \/ /\ data' = [data EXCEPT ![This] = Append(@, Promise!Entry(k, v))]
     /\ pc' = "note"
     /\ UNCHANGED <<res, held, cache, call, pos, at, then, old, ret>>
  \/ /\ Return(Promise!Thrown)
     /\ UNCHANGED <<store, cache>>

(***************************************************************************)
(* Calls with one lookup.  A reference from data() that the caller still   *)
(* holds may be used after the call only if holdsData.                     *)
(***************************************************************************)
Start(op, o, p, k, v, first) ==
  /\ pc = "idle" /\ op \in program.ops /\ {o, p} \subseteq Alive
  /\ call' = [op |-> op, o |-> o, p |-> p, k |-> k, v |-> v, n |-> 1]
  /\ pc' = first /\ old' = data /\ held' = Keep /\ ret' = Promise!None
  /\ UNCHANGED <<data, res, cache, pos, at, then>>

StartKeyed ==
  \E o \in Objs, k \in Keys :
    \/ \E op \in {"lookup", "remove"} : Start(op, o, o, k, NullValue, "find")
    \/ Len(data[o]) < program.maxLen /\ Start("subscript", o, o, k, NullValue, "find")
    \/ Len(data[o]) < program.maxLen /\ \E v \in program.values : Start("insert", o, o, k, v, "find")

\* contains, at and operator[] const.
LookupFound ==
  /\ pc = "found" /\ call.op = "lookup"
  /\ Return(Promise!Found(pos))
  /\ UNCHANGED <<store, cache>>

\* Slip (KeepsPromise): an overwritten key moves to the end.
InsertFoundMoves ==
  /\ pc = "found" /\ call.op = "insert"
  /\ \/ /\ pos # 0
        /\ data' = [data EXCEPT ![This] = Append(RemoveAt(@, pos), Promise!Entry(call.k, call.v))]
        /\ Return(Promise!Ok)
        /\ UNCHANGED <<res, held, cache>>
     \/ pos = 0 /\ AppendEntry(call.k, call.v)
InsertFound ==
  /\ pc = "found" /\ call.op = "insert"
  /\ \/ /\ pos # 0
        /\ data' = [data EXCEPT ![This][pos].val = call.v]
        /\ Return(Promise!Ok)
        /\ UNCHANGED <<res, held, cache>>
     \/ pos = 0 /\ AppendEntry(call.k, call.v)

SubscriptFound ==
  /\ pc = "found" /\ call.op = "subscript"
  /\ \/ /\ pos # 0
        /\ Return(Promise!Found(pos))
        /\ UNCHANGED <<store, cache>>
     \/ pos = 0 /\ AppendEntry(call.k, NullValue)

\* remove, with index_after_erase.
RemoveFound ==
  /\ pc = "found" /\ call.op = "remove"
  /\ \/ /\ pos = 0
        /\ Return(Promise!Truth(FALSE))
        /\ UNCHANGED <<data, cache>>
     \/ /\ pos # 0
        /\ data' = [data EXCEPT ![This] = RemoveAt(@, pos)]
        /\ Return(Promise!Truth(TRUE))
        /\ IF Len(Own) - 1 <= Threshold THEN FreeIndex(This)
           ELSE /\ index' = [index EXCEPT ![This].stale = HasIndex(This)]
                /\ UNCHANGED live
  /\ UNCHANGED <<res, held>>

\* The end of insert, operator[] and clone; merge goes on.
Noted ==
  /\ pc = "noted"
  /\ IF call.op = "merge" /\ call.o # call.p
     THEN pc' = "loop" /\ UNCHANGED <<call, pos, at, then, old, ret>>
     ELSE Return(CASE call.op = "subscript" -> Promise!Found(Len(Own))
                   [] call.op = "clone" -> Promise!Cloned
                   [] OTHER -> Promise!Ok)
  /\ UNCHANGED <<store, cache>>

(***************************************************************************)
(* merge and operator== iterate call.p and look its keys up in call.o.     *)
(***************************************************************************)
StartMerge ==
  \E o, p \in Objs :
    /\ Len(Promise!MergeAll(data[o], data[p])) <= program.maxLen
    /\ Start("merge", o, p, Null, NullValue, IF o = p THEN "noted" ELSE "loop")

\* When neither has an index, the right-hand side may get one (index_ensure).
StartEqual ==
  \E o, p \in Objs :
    LET intoP == HasIndex(p) \/ ~HasIndex(o)
        build == ~HasIndex(o) /\ ~HasIndex(p) /\ Len(data[p]) > Threshold
    IN  Start("equal", IF intoP THEN p ELSE o, IF intoP THEN o ELSE p, Null, NullValue,
              CASE Len(data[o]) # Len(data[p]) -> "differ"
                [] Len(data[o]) = Len(data[p]) /\ build -> "ensure"
                [] OTHER -> "loop")

Ensure == pc = "ensure" /\ Build(IF call.op = "clone" THEN "noted" ELSE "loop")

NextEntry ==
  /\ pc = "loop" /\ call.n <= Len(data[call.p])
  /\ call' = [call EXCEPT !.k = data[call.p][call.n].key, !.v = data[call.p][call.n].val,
                          !.n = @ + 1]
  /\ pc' = "find"
  /\ UNCHANGED <<store, cache, pos, at, then, old, ret>>

LoopEnd ==
  /\ pc = "loop" /\ call.n > Len(data[call.p])
  /\ Return(IF call.op = "merge" THEN Promise!Ok ELSE Promise!Truth(TRUE))
  /\ UNCHANGED <<store, cache>>

\* Slip (KeepsPromise): a nested object is replaced, not merged.
MergeFoundReplaces ==
  /\ pc = "found" /\ call.op = "merge"
  /\ \/ /\ pos # 0
        /\ data' = [data EXCEPT ![This][pos].val = call.v]
        /\ pc' = "loop" /\ pos' = 0
        /\ UNCHANGED <<res, held, cache, call, at, then, old, ret>>
     \/ pos = 0 /\ AppendEntry(call.k, call.v)
\* Slip (MergeCanBeRepeated): the nested object is emptied and filled again.
MergeFoundRefills ==
  /\ pc = "found" /\ call.op = "merge"
  /\ \/ /\ pos # 0
        /\ data' = [data EXCEPT ![This][pos].val = Promise!MergedValue(@, call.v)]
        /\ pc' = "loop" /\ pos' = 0
        /\ UNCHANGED <<res, held, cache, call, at, then, old, ret>>
     \/ /\ pos # 0 /\ Promise!BothNested(Own[pos].val, call.v)
        /\ \E x \in Promise!Partly(Promise!Nested(<<>>), call.v) :
             data' = [data EXCEPT ![This][pos].val = x]
        /\ Return(Promise!Thrown)
        /\ UNCHANGED <<res, held, cache>>
     \/ pos = 0 /\ AppendEntry(call.k, call.v)
\* Two objects merge member by member, each of which may throw; any other value
\* is replaced by a clone, made before the old one goes.
MergeFound ==
  /\ pc = "found" /\ call.op = "merge"
  /\ \/ /\ pos # 0
        /\ data' = [data EXCEPT ![This][pos].val = Promise!MergedValue(@, call.v)]
        /\ pc' = "loop" /\ pos' = 0
        /\ UNCHANGED <<res, held, cache, call, at, then, old, ret>>
     \/ /\ pos # 0
        /\ \E x \in Promise!Partly(Own[pos].val, call.v) :
             data' = [data EXCEPT ![This][pos].val = x]
        /\ Return(Promise!Thrown)
        /\ UNCHANGED <<res, held, cache>>
     \/ pos = 0 /\ AppendEntry(call.k, call.v)

SameEntry == pos # 0 /\ Own[pos].val = call.v

EqualFound ==
  /\ pc = "found" /\ call.op = "equal" /\ SameEntry
  /\ pc' = "loop" /\ pos' = 0
  /\ UNCHANGED <<store, cache, call, at, then, old, ret>>

Differ ==
  /\ pc = "differ" \/ (pc = "found" /\ call.op = "equal" /\ ~SameEntry)
  /\ Return(Promise!Truth(FALSE))
  /\ UNCHANGED <<store, cache>>

(***************************************************************************)
(* Calls without a lookup.                                                 *)
(***************************************************************************)
Atomic(op, r) ==
  /\ pc = "idle" /\ op \in program.ops
  /\ ret' = r
  /\ UNCHANGED <<pc, call, pos, at, then, old>>

\* Object(res) and Object(Vec), and the destructor.
Construct ==
  \E o \in program.objs \ Alive, r \in program.resources :
    \/ /\ Atomic("construct", Promise!Ok)
       /\ res' = [res EXCEPT ![o] = r]
       /\ held' = Keep
       /\ UNCHANGED <<data, cache>>
    \/ \E d \in program.vectors : /\ Atomic("adopt", <<"given", 0>>)
                          /\ res' = [res EXCEPT ![o] = r]
                          /\ data' = [data EXCEPT ![o] = d]
                          /\ held' = Keep
                          /\ UNCHANGED cache

Destroy ==
  \E o \in Alive :
    /\ Atomic("destroy", Promise!Ok)
    /\ FreeIndex(o)
    /\ data' = [data EXCEPT ![o] = <<>>]
    /\ res' = [res EXCEPT ![o] = NoRes]
    /\ held' = Keep \ {o}

Clear ==
  \E o \in Alive :
    /\ Atomic("clear", Promise!Ok)
    /\ FreeIndex(o)
    /\ data' = [data EXCEPT ![o] = <<>>]
    /\ held' = Keep
    /\ UNCHANGED res

\* clone of p into a new object o: its entries, then its index.
Clone ==
  \E o \in program.objs \ Alive, p \in Alive, r \in program.resources :
    /\ pc = "idle" /\ "clone" \in program.ops
    /\ held' = Keep
    /\ \/ /\ call' = [NoCall EXCEPT !.op = "clone", !.o = o, !.p = p]
          /\ old' = data
          /\ data' = [data EXCEPT ![o] = data[p]]
          /\ res' = [res EXCEPT ![o] = r]
          /\ pc' = IF Len(data[p]) > Threshold THEN "ensure" ELSE "noted"
          /\ ret' = Promise!None
       \/ /\ ret' = Promise!Thrown
          /\ UNCHANGED <<data, res, pc, call, old>>
    /\ UNCHANGED <<cache, pos, at, then>>

\* The index follows the entries of p.
Steal(o, p) ==
  /\ data' = [data EXCEPT ![o] = data[p], ![p] = <<>>]
  /\ index' = [index EXCEPT ![o] = index[p], ![p] = NoIndex]
  /\ held' = Keep

MoveConstruct ==
  \E o \in program.objs \ Alive, p \in Alive :
    /\ Atomic("move", Promise!Moved)
    /\ Steal(o, p)
    /\ res' = [res EXCEPT ![o] = res[p]]
    /\ UNCHANGED live

\* Slip (IndexLedger): the overwritten object's index is not released.
MoveAssignLeaks ==
  \E o, p \in Alive :
    /\ o # p
    /\ Atomic("move", Promise!Moved)
    /\ Steal(o, p)
    /\ UNCHANGED <<res, live>>

\* Slip (KeepsPromise): the entries moved one by one stay behind as well.
MoveAssignKeepsSource ==
  \E o, p \in Alive :
    /\ o # p
    /\ Atomic("move", Promise!Moved)
    /\ data' = [data EXCEPT ![o] = data[p]]
    /\ FreeIndex(o)
    /\ held' = Keep
    /\ UNCHANGED res
\* With another resource the entries are moved one by one and p's index goes.
MoveAssign ==
  \E o, p \in Alive :
    /\ o # p
    /\ Atomic("move", Promise!Moved)
    /\ LET freed(r) == Cardinality({x \in {o} \union IF res[o] = res[p] THEN {} ELSE {p} :
                                      HasIndex(x) /\ res[x] = r})
       IN  live' = [r \in Resources |-> live[r] - freed(r)]
    /\ \/ res[o] = res[p] /\ Steal(o, p)
       \/ /\ res[o] # res[p]
          /\ data' = [data EXCEPT ![o] = data[p], ![p] = <<>>]
          /\ index' = [index EXCEPT ![o] = NoIndex, ![p] = NoIndex]
          /\ held' = Keep
    /\ UNCHANGED res

\* data() drops the index; through the reference the caller may give an entry
\* another key or exchange two entries.
TakeData ==
  \E o \in Alive :
    /\ Atomic("data", Promise!Ok)
    /\ FreeIndex(o)
    /\ held' = Keep \union {o}
    /\ UNCHANGED <<data, res>>

EditData ==
  \E o \in held : \E i, j \in 1..Len(data[o]) :
    /\ Atomic("data", <<"given", 0>>)
    /\ \/ \E k \in Keys : data' = [data EXCEPT ![o][i].key = k]
       \/ i < j /\ data' = [data EXCEPT ![o][i] = data[o][j], ![o][j] = data[o][i]]
    /\ UNCHANGED <<res, held, cache>>

Init ==
  /\ program \in Programs
  /\ data = [o \in Objs |-> <<>>] /\ res = [o \in Objs |-> NoRes]
  /\ index = [o \in Objs |-> NoIndex] /\ live = [r \in Resources |-> 0] /\ held = {}
  /\ call = NoCall /\ pc = "idle" /\ pos = 0 /\ at = 0 /\ then = "find" /\ old = NoOld
  /\ ret = Promise!Ok

Next ==
  /\ \/ FindLinear \/ FindStale \/ FindProbe \/ Refill
     \/ Grow \/ Allocate \/ AllocateFails \/ NoteAppend \/ Ensure
     \/ StartKeyed \/ LookupFound \/ InsertFound \/ SubscriptFound \/ RemoveFound \/ Noted
     \/ StartMerge \/ StartEqual \/ NextEntry \/ LoopEnd \/ MergeFound \/ EqualFound \/ Differ
     \/ Construct \/ Destroy \/ Clear \/ Clone \/ MoveConstruct \/ MoveAssign
     \/ TakeData \/ EditData
  /\ UNCHANGED program

Spec == Init /\ [][Next]_vars

(***************************************************************************)
(* Properties.                                                             *)
(***************************************************************************)
TypeOK ==
  /\ program \in Programs
  /\ data \in [Objs -> Seq(Entries)]
  /\ res \in [Objs -> Resources \union {NoRes}]
  /\ \A o \in Objs : /\ index[o].cap \in Nat /\ index[o].size \in Nat
                     /\ index[o].slots \in [0..(index[o].cap - 1) -> Nat]
  /\ live \in [Resources -> Nat]
  /\ held \subseteq Objs /\ pos \in Nat /\ at \in Nat

\* find_slot returns the first entry of the key, whatever the index has been
\* through: appends, erases it has not seen, refills, growth, moves
\* (object.hpp 163-165: "an absent (or dropped) index means lookups fall back to
\* the linear scan, so a stale index can only be slow, never wrong").
LookupFindsFirst ==
  pc = "found" => pos = Promise!FirstAt(Own, call.k)

Occupied(idx) == {j \in 0..(idx.cap - 1) : idx.slots[j] # 0}

\* At most half of the slots are taken and size counts them, so that every
\* probe meets a free slot and ends.
LoadBounded ==
  \A o \in Objs : /\ index[o].size = Cardinality(Occupied(index[o]))
                  /\ 2 * index[o].size <= index[o].cap

\* Every index block is owned by one object and was allocated from that
\* object's resource: none is lost, none is freed twice or into another
\* resource.
IndexLedger ==
  \A r \in Resources : live[r] = Cardinality({o \in Objs : HasIndex(o) /\ res[o] = r})

\* The branch of index_note_append for a stale index is never needed: the
\* lookup that missed has refilled the index (object.cpp 334-340).
AppendSeesFreshIndex == pc = "note" => ~index[This].stale

\* The index between and inside calls: sound in shape, half empty, owned once,
\* and fresh where an entry is noted in it.
ObjectInv == TypeOK /\ LoadBounded /\ IndexLedger /\ AppendSeesFreshIndex

\* Every call returns with the entries and the result of the linear ordered
\* map, also when an allocation threw half-way.
KeepsPromise == Promise!Spec

\* A merge that threw, also inside a nested object, has lost nothing of either
\* object: merging again gives what the first attempt would have given.
MergeCanBeRepeated ==
  [][pc # "idle" /\ pc' = "idle" /\ call.op = "merge" /\ ret' = Promise!Thrown
       => Promise!MergeAll(data'[call.o], data'[call.p])
            = Promise!MergeAll(old[call.o], old[call.p])]_vars
=============================================================================
