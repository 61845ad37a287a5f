------------------------------ MODULE KeyIndex ------------------------------
(***************************************************************************)
(* The member loop of Parser::parse_object_inplace (src/parser/object.cpp) *)
(* for one object: under strict_duplicate_keys a set of the keys seen, and *)
(* otherwise a first-match scan that a KeyIndex takes over once the object *)
(* is large.  The knob is Config's and may be turned at any time.  The     *)
(* loops that fill the index take a step per iteration, and an allocation  *)
(* may throw.  Positions are 1-based, a slot holds one or 0.               *)
(***************************************************************************)
EXTENDS Integers, FiniteSets, SequencesExt

CONSTANTS
  Keys,
  Hash,        \* hash of a key
  Threshold,   \* kKeyIndexThreshold
  InitialCap,  \* the capacity build starts from
  MaxMembers   \* bound on the members of the text
ASSUME KeyIndexAssumption ==
  /\ Keys # {} /\ Hash \in [Keys -> Nat]
  /\ Threshold \in Nat /\ InitialCap \in Nat \ {0} /\ MaxMembers \in Nat

VARIABLES
  knob,      \* Config's strict_duplicate_keys
  strict,    \* whether this object has its seen set
  seen,
  entries,   \* the members stored so far
  built, slots, count,   \* key_index: engaged, m_slots, m_count
  pc, key, pos, at, old, \* the turn of the loop in progress
  fed        \* the keys of the members read so far
index == <<built, slots, count>>
vars  == <<knob, strict, seen, entries, index, pc, key, pos, at, old, fed>>

Entry(k, v) == [key |-> k, val |-> v]
Cap(s)   == Cardinality(DOMAIN s)
Empty(n) == [j \in 0..(n - 1) |-> 0]
NoSlots  == Empty(1)
NoKey    == CHOOSE k \in Keys : TRUE

\* Linear probing: where a probe for k that skips other keys, or every key,
\* ends.
SlotOf(s, k, j) == (Hash[k] + j) % Cap(s)
FreeSlot(s, k) == SlotOf(s, k, Min({j \in 0..(Cap(s) - 1) : s[SlotOf(s, k, j)] = 0}))
ProbeStops(s, k) ==
  {j \in 0..(Cap(s) - 1) :
     \/ s[SlotOf(s, k, j)] = 0
     \/ entries[s[SlotOf(s, k, j)]].key = k}
Probe(s, k) == SlotOf(s, k, Min(ProbeStops(s, k)))

InsertSlot(k, i) ==
  /\ slots' = [slots EXCEPT ![FreeSlot(slots, k)] = i]
  /\ count' = count + 1

Init ==
  /\ knob \in BOOLEAN /\ strict = FALSE /\ seen = {} /\ entries = <<>>
  /\ built = FALSE /\ slots = NoSlots /\ count = 0
  /\ pc = "enter" /\ key = NoKey /\ pos = 0 /\ at = 0 /\ old = NoSlots /\ fed = <<>>

\* Config::set_strict_duplicate_keys, on any thread.
Toggle ==
  /\ knob' = ~knob
  /\ UNCHANGED <<strict, seen, entries, index, pc, key, pos, at, old, fed>>

Enter ==
  /\ pc = "enter" /\ pc' = "key" /\ strict' = knob
  /\ UNCHANGED <<knob, seen, entries, index, key, pos, at, old, fed>>

ReadKey ==
  /\ pc = "key" /\ Len(fed) < MaxMembers
  /\ \E k \in Keys :
       /\ key' = k
       /\ \/ strict /\ k \in seen /\ pc' = "failed" /\ UNCHANGED seen
          \/ strict /\ k \notin seen /\ pc' = "scan" /\ seen' = seen \union {k}
          \/ ~strict /\ pc' = "scan" /\ UNCHANGED seen
  /\ UNCHANGED <<knob, strict, entries, index, pos, at, old, fed>>

\* Slip (SameAsInsert): the knob is read again for every member.
SkipsScanKnob == knob
SkipsScan == strict
Stored(k) == {i \in 1..Len(entries) : entries[i].key = k}
FirstMatch(k) == IF Stored(k) = {} THEN Len(entries) + 1 ELSE Min(Stored(k))
Scan ==
  /\ pc = "scan"
  /\ \/ SkipsScan /\ pos' = Len(entries) + 1 /\ pc' = "value" /\ UNCHANGED <<index, at>>
     \/ /\ ~SkipsScan /\ Len(entries) < Threshold
        /\ pos' = FirstMatch(key) /\ pc' = "value" /\ UNCHANGED <<index, at>>
     \/ /\ ~SkipsScan /\ Len(entries) >= Threshold /\ ~built
        /\ built' = TRUE /\ at' = InitialCap /\ pc' = "size" /\ UNCHANGED <<slots, count, pos>>
     \/ /\ ~SkipsScan /\ Len(entries) >= Threshold /\ built
        /\ pc' = "probe" /\ UNCHANGED <<index, pos, at>>
  /\ UNCHANGED <<knob, strict, seen, entries, key, old, fed>>

\* build: a power of two with 4x headroom, then every entry in turn.
Size ==
  /\ pc = "size"
  /\ \/ at < 4 * Len(entries) /\ at' = 2 * at /\ UNCHANGED <<slots, count, pc>>
     \/ /\ at >= 4 * Len(entries) /\ slots' = Empty(at) /\ count' = 0
        /\ at' = 1 /\ pc' = "build"
  /\ UNCHANGED <<knob, strict, seen, entries, built, key, pos, old, fed>>
Build ==
  /\ pc = "build"
  /\ \/ /\ at <= Len(entries) /\ InsertSlot(entries[at].key, at)
        /\ at' = at + 1 /\ UNCHANGED pc
     \/ at > Len(entries) /\ pc' = "probe" /\ UNCHANGED <<slots, count, at>>
  /\ UNCHANGED <<knob, strict, seen, entries, built, key, pos, old, fed>>

\* Slip (HalfEmpty): the table grows once it is full.
MustGrowFull == count + 1 > Cap(slots)
MustGrow == (count + 1) * 2 > Cap(slots)
FindHit ==
  /\ pc = "probe" /\ slots[Probe(slots, key)] # 0
  /\ pos' = slots[Probe(slots, key)] /\ pc' = "value"
  /\ UNCHANGED <<knob, strict, seen, entries, index, key, at, old, fed>>
\* Slip (GrowReadsReal): the position is stored, then the table grows.
FindMissStoresFirst ==
  /\ pc = "probe" /\ slots[Probe(slots, key)] = 0
  /\ \/ /\ MustGrow /\ old' = [slots EXCEPT ![Probe(slots, key)] = Len(entries) + 1]
        /\ slots' = Empty(2 * Cap(slots)) /\ count' = 0
        /\ at' = 0 /\ pc' = "grow"
     \/ ~MustGrow /\ pc' = "store" /\ UNCHANGED <<slots, count, at, old>>
  /\ UNCHANGED <<knob, strict, seen, entries, built, key, pos, fed>>
FindMiss ==
  /\ pc = "probe" /\ slots[Probe(slots, key)] = 0
  /\ \/ /\ MustGrow /\ old' = slots
        /\ slots' = Empty(2 * Cap(slots)) /\ count' = 0
        /\ at' = 0 /\ pc' = "grow"
     \/ ~MustGrow /\ pc' = "store" /\ UNCHANGED <<slots, count, at, old>>
  /\ UNCHANGED <<knob, strict, seen, entries, built, key, pos, fed>>

Grow ==
  /\ pc = "grow"
  /\ \/ /\ at < Cap(old) /\ old[at] # 0
        /\ InsertSlot(entries[old[at]].key, old[at]) /\ at' = at + 1 /\ UNCHANGED <<pc, old>>
     \/ at < Cap(old) /\ old[at] = 0 /\ at' = at + 1 /\ UNCHANGED <<slots, count, pc, old>>
     \/ at = Cap(old) /\ pc' = "store" /\ old' = NoSlots /\ UNCHANGED <<slots, count, at>>
  /\ UNCHANGED <<knob, strict, seen, entries, built, key, pos, fed>>

\* Slip (IndexInSync): the position is that of the last entry.
StoreLast ==
  /\ pc = "store" /\ InsertSlot(key, Len(entries))
  /\ pos' = Len(entries) + 1 /\ pc' = "value"
  /\ UNCHANGED <<knob, strict, seen, entries, built, key, at, old, fed>>
\* The key's position is stored before its entry exists.
Store ==
  /\ pc = "store" /\ InsertSlot(key, Len(entries) + 1)
  /\ pos' = Len(entries) + 1 /\ pc' = "value"
  /\ UNCHANGED <<knob, strict, seen, entries, built, key, at, old, fed>>

\* The value: over the first occurrence's, or appended with its key.
Value ==
  /\ pc = "value" /\ pc' = "key" /\ fed' = Append(fed, key)
  /\ entries' = IF pos <= Len(entries) THEN [entries EXCEPT ![pos].val = Len(fed) + 1]
                ELSE Append(entries, Entry(key, Len(fed) + 1))
  /\ key' = NoKey /\ pos' = 0 /\ at' = 0
  /\ UNCHANGED <<knob, strict, seen, index, old>>

\* A key, colon or value that does not parse, an allocation that throws: the
\* object goes.
Abandon ==
  /\ pc \in {"key", "scan", "size", "grow", "value"} /\ pc' = "failed"
  /\ UNCHANGED <<knob, strict, seen, entries, index, key, pos, at, old, fed>>
Close ==
  /\ pc = "key" /\ fed # <<>> /\ pc' = "done"
  /\ UNCHANGED <<knob, strict, seen, entries, index, key, pos, at, old, fed>>

Next == Toggle \/ Enter \/ ReadKey \/ Scan \/ Size \/ Build \/ FindHit \/ FindMiss \/ Grow \/ Store
          \/ Value \/ Abandon \/ Close
Spec == Init /\ [][Next]_vars

(***************************************************************************)
(* Properties.                                                             *)
(***************************************************************************)
\* However the knob is turned while the object is read, the object is what
\* inserting the members one by one makes: every key once, where it came
\* first, with the value that came last.
Times(k) == {n \in 1..Len(fed) : fed[n] = k}
SameAsInsert ==
  pc \in {"key", "done"} =>
    /\ \A i \in 1..Len(entries) : entries[i].val = Max(Times(entries[i].key))
    /\ \A i, j \in 1..Len(entries) : i < j => Min(Times(entries[i].key)) < Min(Times(entries[j].key))
    /\ Range(fed) = {entries[i].key : i \in 1..Len(entries)}

\* Between members an engaged index knows every entry, at the position it
\* has: what it stored ahead of the append has come true.
IndexInSync ==
  pc = "key" /\ built =>
    /\ count = Len(entries) /\ \A j \in DOMAIN slots : slots[j] <= Len(entries)
    /\ \A i \in 1..Len(entries) : slots[Probe(slots, entries[i].key)] = i

\* Growing reads the keys of stored positions, so none of them may be the one
\* that is not appended yet.
GrowReadsReal == pc = "grow" => \A j \in DOMAIN old : old[j] <= Len(entries)

\* A probe always meets an empty slot: the table is at most half full.
HalfEmpty == built => 2 * count <= Cap(slots)

\* The index of the parser is sound although it runs ahead of the entries.
KeyIndexSound == IndexInSync /\ GrowReadsReal /\ HalfEmpty
=============================================================================
