------------------------------ MODULE ValueLife ------------------------------
(***************************************************************************)
(* Who owns the memory of a Json value (json.hpp, json.cpp, string.hpp,    *)
(* array.cpp): strings that borrow or own, containers that remember the    *)
(* resource they came from, moves that steal between values of different   *)
(* resources, and deep copies that an allocation failure may interrupt.    *)
(* Resources outlive the values here (DocumentLife has the other case).    *)
(* A block is known by the resource it came from; how many blocks each     *)
(* resource has out tells one that was lost from one freed or held twice.  *)
(* An Object is owned like an Array whose items alternate keys and values; *)
(* its index is ObjectIndex's.                                             *)
(***************************************************************************)
EXTENDS Integers, SequencesExt, FiniteSetsExt

CONSTANTS
  Resources,
  Values,     \* Json variables of the caller
  Arrays,     \* Array variables of the caller
  MaxOut,     \* bound on the blocks allocated at a time
  MaxItems,   \* bound on the elements of a container
  MaxNesting  \* bound on the levels of a value: 1 where it has no elements

VARIABLES
  pool,     \* the blocks each resource has out; whether one was freed wrongly
  value, array,
  cloned    \* for a value that clone just made, the resource it asked for
valueVars == <<pool, value, array, cloned>>

\* A value: its tag; where the header or container object came from (head) and
\* the m_resource it goes back to; where the bytes or the vector's storage came
\* from (body) and the allocator that has it; the elements.  A local Array has
\* no head.
None == "none"
ASSUME ValueLifeAssumption ==
  /\ MaxOut \in Nat /\ MaxItems \in Nat /\ MaxNesting \in Nat \ {0}
  /\ None \notin Resources /\ IsFiniteSet(Values) /\ IsFiniteSet(Arrays)

Value(type, head, res, body, alloc, items) ==
  [type |-> type, head |-> head, res |-> res, body |-> body, alloc |-> alloc, items |-> items]
Null == Value("Null", None, None, None, None, <<>>)
View == Value("StringView", None, None, None, None, <<>>)
EmptyArray(r) == Value("Array", None, r, None, r, <<>>)

\* The values of at most n levels.
Tags   == {"Null", "StringView", "StringOwned", "Array"}
Blocks == Resources \union {None}
ValuesOver(rows) ==
  [type : Tags, head : Blocks, res : Blocks, body : Blocks, alloc : Blocks, items : rows]
Trees[n \in 0..MaxNesting] == IF n = 0 THEN {} ELSE ValuesOver(Seq(Trees[n - 1]))
AllTrees == Trees[MaxNesting]

(***************************************************************************)
(* Memory.  fuel is the number of allocations until one throws.            *)
(***************************************************************************)
Memory == [out : [Resources -> Int], fuel : Int, bad : BOOLEAN]
CanAlloc(m) == m.fuel > 0 /\ SumFunction(m.out) < MaxOut
Take(m, r) == [m EXCEPT !.out[r] = @ + 1, !.fuel = @ - 1]
GiveBack(m, block, r) ==
  IF block = None THEN m ELSE [m EXCEPT !.out[block] = @ - 1, !.bad = @ \/ block # r]

\* Json::destroy, ~Array and String::destroy_owned.
InTurn(f, m, items) == FoldLeft(LAMBDA n, v : f[v][n], m, items)
Destroyed[v \in AllTrees] ==
  [m \in Memory |->
     GiveBack(GiveBack(InTurn(Destroyed, m, v.items), v.body, v.alloc), v.head, v.res)]

\* What an operation comes to: the memory, whether it threw, what it made.
Done(m, v) == [mem |-> m, ok |-> TRUE, made |-> v]
Thrown(m)  == [mem |-> m, ok |-> FALSE, made |-> Null]

(***************************************************************************)
(* Deep copy.                                                              *)
(***************************************************************************)
\* Slip (Accounted): the header stays allocated when the bytes do not fit.
MakeOwnedLeaks(m, r) ==
  LET h == Take(m, r)
  IN  IF ~CanAlloc(m) THEN Thrown(m)
      ELSE IF ~CanAlloc(h) THEN Thrown(h)
      ELSE Done(Take(h, r), Value("StringOwned", r, r, r, r, <<>>))
\* String::make_owned: the header, then the bytes.
MakeOwned(m, r) ==
  LET h == Take(m, r)
  IN  IF ~CanAlloc(m) THEN Thrown(m)
      ELSE IF ~CanAlloc(h) THEN Thrown(GiveBack(h, r, r))
      ELSE Done(Take(h, r), Value("StringOwned", r, r, r, r, <<>>))

\* Array::reserve on an empty array.
Reserve(m, r, n) ==
  IF n = 0 THEN Done(m, EmptyArray(r))
  ELSE IF ~CanAlloc(m) THEN Thrown(m)
  ELSE Done(Take(m, r), [EmptyArray(r) EXCEPT !.body = r])

\* heap_alloc of a container object; the array that was to move into it goes
\* with the exception.
Adopt(m, arr, r) ==
  IF ~CanAlloc(m) THEN Thrown(Destroyed[arr][m])
  ELSE Done(Take(m, r), [arr EXCEPT !.head = r])

\* Slip (FreedAtOrigin): the container object comes from the source's resource.
HeadResourceOfSource(v, r) == v.res
HeadResource(v, r) == r
\* Slip (CloneSelfContained): a borrowed string stays borrowed.
CloneStringKeepsView(m, v, r) == IF v.type = "StringView" THEN Done(m, v) ELSE MakeOwned(m, r)
CloneString(m, v, r) == MakeOwned(m, r)
\* Array::clone's loop body: c is the element's clone.
CloneNext(out, c) ==
  IF ~out.ok THEN out
  ELSE IF c.ok THEN Done(c.mem, [out.made EXCEPT !.items = Append(@, c.made)])
  ELSE Thrown(Destroyed[out.made][c.mem])
CloneInto(clone, arr, items, r) ==
  FoldLeft(LAMBDA out, v : CloneNext(out, clone[v][r][out.mem]), arr, items)
\* Json::clone of an array, whose elements have been cloned by then.
CloneArray(arr, v, r) == IF arr.ok THEN Adopt(arr.mem, arr.made, HeadResource(v, r)) ELSE arr
CloneOf(clone, v, r, m) ==
  CASE v.type = "Null" -> Done(m, Null)
    [] v.type \in {"StringView", "StringOwned"} -> CloneString(m, v, r)
    [] v.type = "Array" ->
         CloneArray(CloneInto(clone, Reserve(m, r, Len(v.items)), v.items, r), v, r)
Clone[v \in AllTrees] == [r \in Resources |-> [m \in Memory |-> CloneOf(Clone, v, r, m)]]

(***************************************************************************)
(* Moves.                                                                  *)
(***************************************************************************)
MovedFrom(arr) == [arr EXCEPT !.body = None, !.items = <<>>]

\* Array::operator=(Array &&): storage is stolen where the allocators agree,
\* and otherwise the elements move into storage of the target's own.  The
\* vector may have room for them; if it has not, and the allocation throws,
\* the process ends.
Steal(m, to, from) ==
  [mem |-> Destroyed[to][m], to |-> [to EXCEPT !.body = from.body, !.items = from.items, !.res = from.res],
   from |-> MovedFrom(from)]
\* Slip (BoundTogether): the target takes over the source's resource anyway.
MoveElementsRebinds(m, to, from, grows) ==
  LET cleared == InTurn(Destroyed, m, to.items)
      grown   == GiveBack(Take(cleared, to.alloc), to.body, to.alloc)
      kept    == [to EXCEPT !.items = from.items, !.res = from.res]
  IN  [mem  |-> IF grows THEN grown ELSE cleared,
       to   |-> IF grows THEN [kept EXCEPT !.body = to.alloc] ELSE kept,
       from |-> [from EXCEPT !.items = <<>>]]
MoveElements(m, to, from, grows) ==
  LET cleared == InTurn(Destroyed, m, to.items)
      grown   == GiveBack(Take(cleared, to.alloc), to.body, to.alloc)
      kept    == [to EXCEPT !.items = from.items]
  IN  [mem  |-> IF grows THEN grown ELSE cleared,
       to   |-> IF grows THEN [kept EXCEPT !.body = to.alloc] ELSE kept,
       from |-> [from EXCEPT !.items = <<>>]]

(***************************************************************************)
(* Steps.                                                                  *)
(***************************************************************************)
Unlimited == 2 * MaxOut
Fuelled(n) == [pool EXCEPT !.fuel = n]
Settle(m) == pool' = [m EXCEPT !.fuel = Unlimited]
Fuels == 0..3 \union {Unlimited}
Replace(j, v) == value' = [value EXCEPT ![j] = v]
Touched(js) == cloned' = [j \in Values |-> IF j \in js THEN None ELSE cloned[j]]

ValueInit ==
  /\ pool = [out |-> [r \in Resources |-> 0], fuel |-> Unlimited, bad |-> FALSE]
  /\ value = [j \in Values |-> Null] /\ cloned = [j \in Values |-> None]
  /\ array \in [Arrays -> {EmptyArray(r) : r \in Resources}]

\* operator=(nullptr) and operator=(string_view)
AssignScalar(j, v) ==
  /\ Settle(Destroyed[value[j]][pool]) /\ Replace(j, v) /\ Touched({j}) /\ UNCHANGED array
\* j = Json(sv, res): the value is made first.
AssignOwned(j, r, n) ==
  LET made == MakeOwned(Fuelled(n), r)
  IN  /\ \/ made.ok /\ Settle(Destroyed[value[j]][made.mem]) /\ Replace(j, made.made)
         \/ ~made.ok /\ Settle(made.mem) /\ UNCHANGED value
      /\ Touched({j}) /\ UNCHANGED array
\* j = k.clone(r)
AssignClone(j, k, r, n) ==
  LET made == Clone[value[k]][r][Fuelled(n)]
  IN  /\ \/ /\ made.ok /\ Settle(Destroyed[value[j]][made.mem]) /\ Replace(j, made.made)
            /\ cloned' = [cloned EXCEPT ![j] = r]
         \/ ~made.ok /\ Settle(made.mem) /\ UNCHANGED <<value, cloned>>
      /\ UNCHANGED array
\* j = std::move(k)
AssignMove(j, k) ==
  /\ j # k /\ Settle(Destroyed[value[j]][pool])
  /\ value' = [value EXCEPT ![j] = value[k], ![k] = Null]
  /\ Touched({j, k}) /\ UNCHANGED array

\* j = std::move(a): the old value goes before the new node is allocated, so
\* a failure leaves null, and the array with the caller.
AssignArray(j, a, n) ==
  LET m == Destroyed[value[j]][Fuelled(n)]
  IN  /\ \/ /\ CanAlloc(m) /\ Settle(Take(m, array[a].res))
            /\ Replace(j, [array[a] EXCEPT !.head = array[a].res])
            /\ array' = [array EXCEPT ![a] = MovedFrom(@)]
         \/ ~CanAlloc(m) /\ Settle(m) /\ Replace(j, Null) /\ UNCHANGED array
      /\ Touched({j})
\* j = Json(std::move(a)): the array is the constructor's by then.
ConstructArray(j, a, n) ==
  LET made == Adopt(Fuelled(n), array[a], array[a].res)
  IN  /\ \/ made.ok /\ Settle(Destroyed[value[j]][made.mem]) /\ Replace(j, made.made)
         \/ ~made.ok /\ Settle(made.mem) /\ UNCHANGED value
      /\ array' = [array EXCEPT ![a] = MovedFrom(@)] /\ Touched({j})

\* a.push_back(std::move(j)); the vector may or may not have to grow.
PushBack(a, j, n, grows) ==
  LET m   == Fuelled(n)
      arr == array[a]
  IN  /\ Len(arr.items) < MaxItems /\ value[j] \in Trees[MaxNesting - 1] /\ (arr.body = None => grows)
      /\ \/ /\ grows /\ CanAlloc(m) /\ Settle(GiveBack(Take(m, arr.alloc), arr.body, arr.alloc))
            /\ array' = [array EXCEPT ![a].items = Append(@, value[j]), ![a].body = arr.alloc]
         \/ /\ ~grows /\ Settle(m) /\ array' = [array EXCEPT ![a].items = Append(@, value[j])]
         \/ grows /\ ~CanAlloc(m) /\ Settle(Destroyed[value[j]][m]) /\ UNCHANGED array
      /\ Replace(j, Null) /\ Touched({j})
\* j = std::move(a[i])
TakeElement(j, a, i) ==
  /\ i \in 1..Len(array[a].items) /\ Settle(Destroyed[value[j]][pool])
  /\ Replace(j, array[a].items[i]) /\ array' = [array EXCEPT ![a].items[i] = Null] /\ Touched({j})
\* a = std::move(j.as_array())
TakeArray(a, j, grows) ==
  LET from == value[j]
      moved == IF array[a].alloc = from.alloc THEN Steal(pool, array[a], from)
               ELSE MoveElements(pool, array[a], from, grows)
  IN  /\ from.type = "Array"
      /\ IF array[a].alloc = from.alloc THEN ~grows
         ELSE /\ grows => from.items # <<>> /\ CanAlloc(pool)
              /\ from.items # <<>> /\ array[a].body = None => grows
      /\ Settle(moved.mem) /\ array' = [array EXCEPT ![a] = moved.to]
      /\ Replace(j, moved.from) /\ Touched({j})
\* a.clear()
ClearArray(a) ==
  /\ Settle(InTurn(Destroyed, pool, array[a].items))
  /\ array' = [array EXCEPT ![a].items = <<>>] /\ UNCHANGED <<value, cloned>>

AssignAny(j) ==
  \/ \E v \in {Null, View} : AssignScalar(j, v)
  \/ \E r \in Resources, n \in Fuels :
       AssignOwned(j, r, n) \/ \E k \in Values : AssignClone(j, k, r, n)
  \/ \E k \in Values : AssignMove(j, k)
WithArray(j, a) ==
  \/ \E n \in {0, Unlimited} :   \* these allocate at most once
       \/ AssignArray(j, a, n) \/ ConstructArray(j, a, n)
       \/ \E grows \in BOOLEAN : PushBack(a, j, n, grows)
  \/ \E i \in 1..MaxItems : TakeElement(j, a, i)
  \/ \E grows \in BOOLEAN : TakeArray(a, j, grows)
ValueNext ==
  \/ \E j \in Values : AssignAny(j) \/ \E a \in Arrays : WithArray(j, a)
  \/ \E a \in Arrays : ClearArray(a)
ValueSpec == ValueInit /\ [][ValueNext]_valueVars

(***************************************************************************)
(* Properties.                                                             *)
(***************************************************************************)
\* The value and everything inside it.
Parts[v \in AllTrees] == {v} \union UNION {Parts[v.items[i]] : i \in 1..Len(v.items)}
AllParts ==
  (UNION {Parts[value[j]] : j \in Values}) \union (UNION {Parts[array[a]] : a \in Arrays})

\* Every block goes back to the resource it came from.
FreedAtOrigin == ~pool.bad

\* Whatever throws and whenever: the blocks a resource has out are exactly
\* those that reachable values hold, so none is lost, freed early or held
\* twice.
CountOf(block, r) == IF block = r THEN 1 ELSE 0
HeldIn(holds, r, items) == FoldLeft(LAMBDA n, v : n + holds[v][r], 0, items)
Holds[v \in AllTrees] ==
  [r \in Resources |-> CountOf(v.head, r) + CountOf(v.body, r) + HeldIn(Holds, r, v.items)]
Accounted ==
  \A r \in Resources :
    pool.out[r] = SumFunction([j \in Values |-> Holds[value[j]][r]])
                   + SumFunction([a \in Arrays |-> Holds[array[a]][r]])

\* A container's object, its storage and the resource it remembers belong
\* together, whatever it was moved from or into, so that all of it goes when
\* that one resource is released.
BoundTogether ==
  \A v \in AllParts : v.type = "Array" =>
    v.res = v.alloc /\ {v.head, v.body} \subseteq {None, v.res}

\* A clone holds memory of the resource it asked for only, and borrows
\* nothing.
CloneSelfContained ==
  \A j \in Values : cloned[j] # None =>
    \A v \in Parts[value[j]] :
      v.type # "StringView" /\ {v.head, v.body} \subseteq {None, cloned[j]}

\* Every block is held by one value until it goes back to where it came from.
BlocksAccounted == FreedAtOrigin /\ Accounted

\* Containers and clones depend on one resource each.
BoundToOneResource == BoundTogether /\ CloneSelfContained
=============================================================================
