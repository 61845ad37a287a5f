---------------------------- MODULE ValuesProofs ----------------------------
(***************************************************************************)
(* Validation of a value against a schema, and the application of a patch, *)
(* for all schemas, values, documents and patches, whatever the operations *)
(* on whole trees do.                                                      *)
(*                                                                         *)
(* A schema's meaning is known here by one property, SchemaAssumption: an  *)
(* object whose keywords all hold, of the value and of the parts they      *)
(* demand.  Nothing is proved by induction on a schema; the invariant says *)
(* of every frame which keywords it has found to hold, and that a schema   *)
(* that accepts the whole value accepts what each frame looks at.          *)
(*                                                                         *)
(* Of a patch: the target changes at once or not at all; an operation that *)
(* passed the scan can be carried out or refused at any shadow; what was   *)
(* applied borrows nothing.  Documents and TreeLaws say of which trees.    *)
(***************************************************************************)
EXTENDS Schema, JsonPatch, Induction

(***************************************************************************)
(* The invariant of validate_node.                                         *)
(***************************************************************************)
SchemaKeys(s) == {s.items[i].key : i \in 1..Len(s.items)}
Hops == {KeyHop(key) : key \in UNION {SchemaKeys(s) : s \in Schemas}} \union {IndexHop(i) : i \in Nat}
Frames == [schema : Schemas, value : Instances, pass : {"type", "rest"},
           k : Nat \ {0}, sub : Nat \ {0}, mark : Nat]

\* The keywords a frame is done with, and the children of the current one.
KeywordDone(f, i) ==
  IF f.pass = "type" THEN f.schema.items[i].key = <<"type">> /\ i < f.k
  ELSE f.schema.items[i].key = <<"type">> \/ i < f.k
EntryOf(f)     == f.schema.items[f.k]
ChildCount(f)  == IF EntryOf(f).key = <<"properties">> THEN Len(EntryOf(f).val.items)
                  ELSE Len(f.value.items)
Descends(f) ==
  /\ f.pass = "rest" /\ f.k <= Len(f.schema.items) /\ EntryOf(f).key \in Recursive
  /\ IsObject(EntryOf(f).val)
  /\ IF EntryOf(f).key = <<"properties">> THEN IsObject(f.value) ELSE IsArray(f.value)
\* What the j-th child of the current keyword is checked against, and which
\* of them there are.
HasChild(f, j) ==
  EntryOf(f).key = <<"properties">> => HasKey(f.value, EntryOf(f).val.items[j].key)
ChildSchema(f, j) ==
  IF EntryOf(f).key = <<"properties">> THEN EntryOf(f).val.items[j].val ELSE EntryOf(f).val
ChildValue(f, j) ==
  IF EntryOf(f).key = <<"properties">> THEN AtKey(f.value, EntryOf(f).val.items[j].key)
  ELSE f.value.items[j].val

FrameInv(f) ==
  /\ f.pass = "rest" \/ f.k > 1 => IsObject(f.schema)
  /\ \A i \in 1..Len(f.schema.items) :
       KeywordDone(f, i) => KeywordHolds(f.schema, f.schema.items[i].key, f.schema.items[i].val, f.value)
  /\ f.sub > 1 => Descends(f) /\ f.sub <= ChildCount(f) + 1
  /\ \A j \in 1..(f.sub - 1) : HasChild(f, j) => Valid(ChildSchema(f, j), ChildValue(f, j))

\* The frame g is the visit of f's current child.
Visiting(f, g) ==
  /\ IsObject(f.schema) /\ Descends(f) /\ f.sub <= ChildCount(f) /\ HasChild(f, f.sub)
  /\ g.schema = ChildSchema(f, f.sub) /\ g.value = ChildValue(f, f.sub)

StackInv ==
  /\ stack \in Seq(Frames)
  /\ \A d \in 1..Len(stack) : FrameInv(stack[d])
  /\ \A d \in 1..(Len(stack) - 1) : Visiting(stack[d], stack[d + 1])
  /\ stack # <<>> => stack[1].schema = schema /\ stack[1].value = value

\* Acceptance reaches down to every frame.
AcceptedDown ==
  Valid(schema, value) => \A d \in 1..Len(stack) : Valid(stack[d].schema, stack[d].value)

\* Every frame but the first has one hop, and goes back to the path before it.
PathInv ==
  /\ path \in Seq(Hops)
  /\ stack # <<>> => Len(path) = Len(stack) - 1
  /\ \A d \in 1..Len(stack) : At(SubSeq(path, 1, d - 1)) = stack[d].value
  /\ \A d \in 2..Len(stack) : stack[d].mark = d - 2

SchemaInv ==
  /\ schema \in Schemas /\ value \in Instances
  /\ StackInv /\ AcceptedDown /\ PathInv
  /\ VerdictIsConjunction /\ FirstFailureReported

(***************************************************************************)
(* Nodes.                                                                  *)
(***************************************************************************)
LEMMA SchemaNodes ==
  ASSUME NEW s \in Schemas
  PROVE  Len(s.items) \in Nat /\ \A i \in 1..Len(s.items) : s.items[i].val \in Schemas
BY SchemaAssumption DEF Closed

LEMMA InstanceNodes ==
  ASSUME NEW v \in Instances
  PROVE  Len(v.items) \in Nat /\ \A i \in 1..Len(v.items) : v.items[i].val \in Instances
BY SchemaAssumption DEF Closed

LEMMA Meaning ==
  ASSUME NEW s \in Schemas, NEW v \in Instances
  PROVE  Valid(s, v) <=> IsObject(s) /\ AllHold(s, v)
BY SchemaAssumption

\* A slot that is found holds the key, and a key that is there is found.
LEMMA SlotFacts ==
  ASSUME NEW v, Len(v.items) \in Nat, NEW key
  PROVE  /\ HasKey(v, key) => FindSlot(v, key) \in 1..Len(v.items)
                                /\ v.items[FindSlot(v, key)].key = key
         /\ HasKey(v, key) <=> \E i \in 1..Len(v.items) : v.items[i].key = key
<1> DEFINE at == {i \in 1..Len(v.items) : v.items[i].key = key}
<1>1. FindSlot(v, key) = IF at = {} THEN 0 ELSE Min(at)
  BY DEF FindSlot
<1>2. at # {} => Min(at) \in at
  <2>1. at \subseteq Nat
    OBVIOUS
  <2> HIDE DEF at
  <2> QED BY <2>1, MinIsLeast
<1>3. at # {} => Min(at) \in 1..Len(v.items) /\ v.items[Min(at)].key = key /\ Min(at) # 0
  BY <1>2
<1>4. at # {} <=> \E i \in 1..Len(v.items) : v.items[i].key = key
  OBVIOUS
<1> HIDE DEF at
<1> QED BY <1>1, <1>3, <1>4 DEF HasKey

LEMMA AtKeyInside ==
  ASSUME NEW v \in Instances, NEW key, HasKey(v, key)
  PROVE  AtKey(v, key) \in Instances
<1>1. FindSlot(v, key) \in 1..Len(v.items)
  BY InstanceNodes, SlotFacts
<1> QED BY <1>1, InstanceNodes DEF AtKey

(***************************************************************************)
(* What the machine evaluates of a keyword is what the keyword means.      *)
(***************************************************************************)
LEMMA AdditionalAgrees ==
  ASSUME NEW s, NEW p, NEW v \in Instances
  PROVE  CheckAdditional(s, p, v).kind = "Ok" <=> HoldsHere(s, <<"additionalProperties">>, p, v)
<1> DEFINE extra == {i \in 1..Len(v.items) : ~IsDeclared(s, v.items[i].key)}
           first == SelectInSeq(v.items, LAMBDA e : ~IsDeclared(s, e.key))
<1>1. first = IF extra # {} THEN Min(extra) ELSE 0
  BY DEF SelectInSeq
<1>2. extra \subseteq Nat /\ 0 \notin extra
  BY InstanceNodes
<1>3. extra # {} => Min(extra) \in extra
  <2> HIDE DEF extra
  <2> QED BY <1>2, MinIsLeast
<1>4. first = 0 <=> extra = {}
  <2> HIDE DEF extra, first
  <2> QED BY <1>1, <1>2, <1>3
<1>5. extra = {} <=> \A i \in 1..Len(v.items) : IsDeclared(s, v.items[i].key)
  OBVIOUS
<1>6. ReportExtra(v, first).kind = "Ok" <=> first = 0
  <2> HIDE DEF first
  <2> QED BY DEF ReportExtra, Holds, BrokenAt
<1>7. CheckAdditional(s, p, v).kind = "Ok" <=>
        p.type = "Boolean" /\ (p.num = 1 \/ ~IsObject(v) \/ ReportExtra(v, first).kind = "Ok")
  <2>1. CheckAdditional(s, p, v) = IF p.type # "Boolean" THEN Broken("InvalidSchema")
          ELSE IF p.num = 1 \/ ~IsObject(v) THEN Holds ELSE ReportExtra(v, first)
    BY DEF CheckAdditional
  <2> HIDE DEF first
  <2> QED BY <2>1 DEF Holds, Broken
<1>8. HoldsHere(s, <<"additionalProperties">>, p, v) <=> p.type = "Boolean" /\
        (p.num = 1 \/ ~IsObject(v) \/ \A i \in 1..Len(v.items) : IsDeclared(s, v.items[i].key))
  BY DEF HoldsHere, IsDeclared
<1> HIDE DEF first, extra
<1> QED BY <1>4, <1>5, <1>6, <1>7, <1>8

LEMMA TypeMeans ==
  ASSUME NEW s, NEW p, NEW v
  PROVE  KeywordHolds(s, <<"type">>, p, v) <=> CheckType(p, v).kind = "Ok"
BY DEF KeywordHolds, HoldsHere, Demands

LEMMA PlainMeans ==
  ASSUME NEW s, NEW p, NEW v \in Instances, NEW word, word # <<"type">>, word \notin Recursive
  PROVE  KeywordHolds(s, word, p, v) <=> ApplyKeyword(s, word[1], p, v).kind = "Ok"
<1>1. Demands(word, p, v) = {}
  BY DEF Demands, Recursive
<1>2. CASE word = <<"additionalProperties">>
  <2>1. ApplyKeyword(s, word[1], p, v) = CheckAdditional(s, p, v)
    BY <1>2 DEF ApplyKeyword
  <2> QED BY <1>1, <1>2, <2>1, AdditionalAgrees DEF KeywordHolds
<1>3. CASE word # <<"additionalProperties">>
  BY <1>1, <1>3 DEF KeywordHolds, HoldsHere, Recursive
<1> QED BY <1>2, <1>3

LEMMA PropertiesMeans ==
  ASSUME NEW s, NEW p, NEW v
  PROVE  KeywordHolds(s, <<"properties">>, p, v) <=>
           /\ IsObject(p)
           /\ IsObject(v) => \A j \in 1..Len(p.items) :
                HasKey(v, p.items[j].key) => Valid(p.items[j].val, AtKey(v, p.items[j].key))
<1>1. HoldsHere(s, <<"properties">>, p, v) <=> IsObject(p)
  BY DEF HoldsHere
<1>2. CASE IsObject(p) /\ IsObject(v)
  <2>1. Demands(<<"properties">>, p, v) =
          {<<p.items[i].val, AtKey(v, p.items[i].key)>> :
             i \in {j \in 1..Len(p.items) : HasKey(v, p.items[j].key)}}
    BY <1>2 DEF Demands
  <2>2. (\A d \in Demands(<<"properties">>, p, v) : Valid(d[1], d[2])) <=>
          \A j \in 1..Len(p.items) :
            HasKey(v, p.items[j].key) => Valid(p.items[j].val, AtKey(v, p.items[j].key))
    <3> DEFINE J == {j \in 1..Len(p.items) : HasKey(v, p.items[j].key)}
               D == Demands(<<"properties">>, p, v)
    <3>1. \A j \in J : <<p.items[j].val, AtKey(v, p.items[j].key)>> \in D
      BY <2>1, Zenon
    <3>2. \A d \in D : \E j \in J : d = <<p.items[j].val, AtKey(v, p.items[j].key)>>
      BY <2>1, Zenon
    <3>3. (\A d \in D : Valid(d[1], d[2])) =>
            \A j \in J : Valid(p.items[j].val, AtKey(v, p.items[j].key))
      <4> HIDE DEF D, J
      <4> QED BY <3>1
    <3>4. (\A j \in J : Valid(p.items[j].val, AtKey(v, p.items[j].key))) =>
            \A d \in D : Valid(d[1], d[2])
      <4> HIDE DEF D, J
      <4> QED BY <3>2
    <3> HIDE DEF D
    <3>5. (\A d \in D : Valid(d[1], d[2])) <=>
            \A j \in 1..Len(p.items) :
              HasKey(v, p.items[j].key) => Valid(p.items[j].val, AtKey(v, p.items[j].key))
      BY <3>3, <3>4
    <3> QED BY <3>5 DEF D
  <2> QED BY <1>1, <1>2, <2>2 DEF KeywordHolds
<1>3. CASE IsObject(p) /\ ~IsObject(v)
  <2>1. Demands(<<"properties">>, p, v) = {}
    BY <1>3 DEF Demands
  <2> QED BY <1>1, <1>3, <2>1 DEF KeywordHolds
<1> QED BY <1>1, <1>2, <1>3 DEF KeywordHolds

LEMMA ItemsMeans ==
  ASSUME NEW s, NEW p, NEW v
  PROVE  KeywordHolds(s, <<"items">>, p, v) <=>
           IsObject(p) /\ (IsArray(v) => \A j \in 1..Len(v.items) : Valid(p, v.items[j].val))
<1>1. HoldsHere(s, <<"items">>, p, v) <=> IsObject(p)
  BY DEF HoldsHere
<1>2. CASE IsObject(p) /\ IsArray(v)
  <2>1. Demands(<<"items">>, p, v) = {<<p, v.items[i].val>> : i \in 1..Len(v.items)}
    BY <1>2 DEF Demands
  <2> DEFINE D == Demands(<<"items">>, p, v)
  <2>2. \A j \in 1..Len(v.items) : <<p, v.items[j].val>> \in D
    BY <2>1, Zenon
  <2>3. \A d \in D : \E j \in 1..Len(v.items) : d = <<p, v.items[j].val>>
    BY <2>1, Zenon
  <2> HIDE DEF D
  <2>4. (\A d \in D : Valid(d[1], d[2])) => \A j \in 1..Len(v.items) : Valid(p, v.items[j].val)
    BY <2>2
  <2>5. ASSUME \A j \in 1..Len(v.items) : Valid(p, v.items[j].val), NEW d \in D
        PROVE  Valid(d[1], d[2])
    <3>1. PICK j \in 1..Len(v.items) : d = <<p, v.items[j].val>>
      BY <2>3
    <3>2. d[1] = p /\ d[2] = v.items[j].val
      BY <3>1
    <3> QED BY <2>5, <3>2
  <2>6. (\A d \in D : Valid(d[1], d[2])) <=> \A j \in 1..Len(v.items) : Valid(p, v.items[j].val)
    BY <2>4, <2>5
  <2> QED BY <1>1, <1>2, <2>6 DEF KeywordHolds, D
<1>3. CASE IsObject(p) /\ ~IsArray(v)
  <2>1. Demands(<<"items">>, p, v) = {}
    BY <1>3 DEF Demands
  <2> QED BY <1>1, <1>3, <2>1 DEF KeywordHolds
<1> QED BY <1>1, <1>2, <1>3 DEF KeywordHolds

(***************************************************************************)
(* The node a path denotes: one hop after the other.                       *)
(***************************************************************************)
Reached == Instances \union {NoNode}

LEMMA HopType ==
  ASSUME NEW v \in Reached, NEW hop \in Hops
  PROVE  HopTo(v, hop) \in Reached
<1>1. Len(v.items) \in Nat /\ \A i \in 1..Len(v.items) : v.items[i].val \in Reached
  <2>1. CASE v \in Instances
    BY <2>1, InstanceNodes DEF Reached
  <2>2. CASE v = NoNode
    <3>1. v.items = <<>>
      BY <2>2 DEF NoNode, Node
    <3> QED BY <3>1
  <2> QED BY <2>1, <2>2 DEF Reached
<1>2. hop.index \in Int
  BY DEF Hops, KeyHop, IndexHop
<1>3. CASE hop.index \in 0..(Len(v.items) - 1)
  <2>1. HopTo(v, hop) = v.items[hop.index + 1].val /\ hop.index + 1 \in 1..Len(v.items)
    BY <1>1, <1>3 DEF HopTo
  <2> QED BY <1>1, <2>1
<1>4. CASE hop.index \notin 0..(Len(v.items) - 1) /\ hop.index = -1 /\ HasKey(v, hop.key)
  <2>1. FindSlot(v, hop.key) \in 1..Len(v.items)
    BY <1>1, <1>4, SlotFacts
  <2>2. HopTo(v, hop) = v.items[FindSlot(v, hop.key)].val
    BY <1>4 DEF HopTo, AtKey
  <2> QED BY <1>1, <2>1, <2>2
<1>5. CASE hop.index \notin 0..(Len(v.items) - 1) /\ ~(hop.index = -1 /\ HasKey(v, hop.key))
  <2>1. HopTo(v, hop) = NoNode
    BY <1>5 DEF HopTo
  <2> QED BY <2>1 DEF Reached
<1> QED BY <1>3, <1>4, <1>5

HopMap == [p \in Reached \X Hops |-> HopTo(p[1], p[2])]

LEMMA HopMaps ==
  /\ HopMap \in [Reached \X Hops -> Reached]
  /\ \A v \in Reached, hop \in Hops : HopMap[<<v, hop>>] = HopTo(v, hop)
<1>1. \A p \in Reached \X Hops : HopTo(p[1], p[2]) \in Reached
  BY HopType
<1> QED BY <1>1 DEF HopMap

LEMMA AtRuns ==
  ASSUME value \in Instances, NEW p \in Seq(Hops)
  PROVE  RunsTo(Len(p), Reached, value, HopMap, p, At(p))
<1> DEFINE n == Len(p)
           Table(it) == it = [t \in SUBSET (1..n) |-> IF t = {} THEN value
                              ELSE HopTo(it[t \ {Max(t)}], p[Max(t)])]
           iter == CHOOSE it : Table(it)
<1>1. n \in Nat /\ DOMAIN p = 1..n /\ (\A i \in 1..n : p[i] \in Hops) /\ value \in Reached
  BY DEF Reached
<1>2. At(p) = iter[1..n]
  BY <1>1 DEF At, FoldLeft, MapThenFoldSet
<1>3. PICK h \in [SUBSET (1..n) -> Reached] : IsTable(h, n, value, HopMap, p)
  BY <1>1, HopMaps, TableExists
<1>4. ASSUME NEW t \in SUBSET (1..n), t # {}
      PROVE  Max(t) \in 1..n /\ p[Max(t)] \in Hops /\ t \ {Max(t)} \in SUBSET (1..n)
  BY <1>1, <1>4, GreatestNumber
<1>5. Table(h)
  <2>1. ASSUME NEW t \in SUBSET (1..n), t # {}
        PROVE  HopMap[<<h[t \ {Max(t)}], p[Max(t)]>>] = HopTo(h[t \ {Max(t)}], p[Max(t)])
    <3>1. h[t \ {Max(t)}] \in Reached
      BY <1>4, <2>1
    <3> QED BY <1>4, <2>1, <3>1, HopMaps
  <2> QED BY <1>3, <2>1 DEF IsTable
<1>6. Table(iter)
  <2> HIDE DEF Table
  <2> QED BY <1>5
<1> HIDE DEF iter, n
<1>7. ASSUME NEW t \in SUBSET (1..n)
      PROVE  /\ t = {} => iter[t] = value
             /\ t # {} => iter[t] = HopTo(iter[t \ {Max(t)}], p[Max(t)])
  BY <1>6, Zenon
<1> HIDE DEF Table
<1>8. Unfolds(iter, n, value, HopMap, Reached, p)
  BY <1>4, <1>7, HopMaps DEF Unfolds
<1>9. RunsTo(n, Reached, value, HopMap, p, iter[1..n])
  BY <1>1, <1>8, HopMaps, UnfoldsRuns
<1> QED BY <1>2, <1>9 DEF n

\* At, one hop at a time.
LEMMA AtAppends ==
  ASSUME value \in Instances, NEW p \in Seq(Hops), NEW hop \in Hops
  PROVE  At(<<>>) = value /\ At(Append(p, hop)) = HopTo(At(p), hop)
<1> DEFINE q == Append(p, hop)
           n == Len(p)
           none == <<>>
<1>1. /\ none \in Seq(Hops) /\ Len(none) = 0
      /\ q \in Seq(Hops) /\ n \in Nat /\ Len(q) = n + 1 /\ q[n + 1] = hop
      /\ \A i \in 1..n : q[i] = p[i]
  OBVIOUS
<1> HIDE DEF q, n, none
<1>2. RunsTo(0, Reached, value, HopMap, none, At(none))
  BY <1>1, AtRuns
<1>3. At(none) = value
  BY <1>2 DEF RunsTo, IsRun
<1>4. RunsTo(n, Reached, value, HopMap, p, At(p)) /\ RunsTo(n + 1, Reached, value, HopMap, q, At(q))
  <2>1. RunsTo(Len(q), Reached, value, HopMap, q, At(q))
    BY <1>1, AtRuns
  <2>2. RunsTo(n, Reached, value, HopMap, p, At(p))
    BY AtRuns DEF n
  <2> QED BY <1>1, <2>1, <2>2
<1>5. At(p) \in Reached /\ At(q) = HopMap[<<At(p), q[n + 1]>>]
  BY <1>1, <1>4, RunAppends
<1>6. At(q) = HopTo(At(p), hop)
  BY <1>1, <1>5, HopMaps
<1> QED BY <1>3, <1>6 DEF none, q

(***************************************************************************)
(* Sequences.                                                              *)
(***************************************************************************)
\* Another last element.
LEMMA NewLast ==
  ASSUME NEW S, NEW s \in Seq(S), s # <<>>, NEW e \in S
  PROVE  /\ Append(Front(s), e) \in Seq(S) /\ Len(Append(Front(s), e)) = Len(s)
         /\ Len(s) \in Nat \ {0} /\ Last(s) = s[Len(s)] /\ Last(s) \in S
         /\ Append(Front(s), e)[Len(s)] = e
         /\ \A i \in 1..(Len(s) - 1) : Append(Front(s), e)[i] = s[i]
<1>1. PICK n \in Nat : Len(s) = n + 1
  <2>1. Len(s) \in Nat /\ Len(s) # 0
    OBVIOUS
  <2>2. Len(s) - 1 \in Nat /\ Len(s) = (Len(s) - 1) + 1
    BY <2>1
  <2> QED BY <2>2
<1>2. Front(s) = SubSeq(s, 1, n)
  BY <1>1 DEF Front
<1>3. /\ SubSeq(s, 1, n) \in Seq(S) /\ Len(SubSeq(s, 1, n)) = n
      /\ \A i \in 1..n : SubSeq(s, 1, n)[i] = s[i]
  BY <1>1
<1>4. Last(s) = s[Len(s)] /\ s[Len(s)] \in S
  BY <1>1 DEF Last
<1> DEFINE f == SubSeq(s, 1, n)
<1> HIDE DEF f
<1>5. /\ Append(f, e) \in Seq(S) /\ Len(Append(f, e)) = n + 1 /\ Append(f, e)[n + 1] = e
      /\ \A i \in 1..n : Append(f, e)[i] = f[i]
  BY <1>3 DEF f
<1> QED BY <1>1, <1>2, <1>3, <1>4, <1>5, SMTT(40) DEF f

\* Without its last element, and another one before.
LEMMA OneLess ==
  ASSUME NEW S, NEW s \in Seq(S), Len(s) > 1, NEW e \in S
  PROVE  /\ Append(SubSeq(s, 1, Len(s) - 2), e) \in Seq(S)
         /\ Len(Append(SubSeq(s, 1, Len(s) - 2), e)) = Len(s) - 1
         /\ Append(SubSeq(s, 1, Len(s) - 2), e)[Len(s) - 1] = e
         /\ \A i \in 1..(Len(s) - 2) : Append(SubSeq(s, 1, Len(s) - 2), e)[i] = s[i]
<1>1. PICK n \in Nat : Len(s) - 2 = n /\ Len(s) - 1 = n + 1
  OBVIOUS
<1> DEFINE f == SubSeq(s, 1, n)
<1>2. f \in Seq(S) /\ Len(f) = n /\ \A i \in 1..n : f[i] = s[i]
  BY <1>1
<1> HIDE DEF f
<1>3. /\ Append(f, e) \in Seq(S) /\ Len(Append(f, e)) = n + 1 /\ Append(f, e)[n + 1] = e
      /\ \A i \in 1..n : Append(f, e)[i] = f[i]
  BY <1>2
<1> QED BY <1>1, <1>2, <1>3 DEF f

(***************************************************************************)
(* The steps of validate_node.                                             *)
(***************************************************************************)
LEMMA AtSame ==
  ASSUME value' = value
  PROVE  \A p : At(p)' = At(p)
BY DEF At

\* What is known of the innermost frame.
LEMMA TopFacts ==
  ASSUME SchemaInv, stack # <<>>
  PROVE  /\ Len(stack) \in Nat \ {0} /\ Top = stack[Len(stack)] /\ Top \in Frames
         /\ FrameInv(Top) /\ Top.schema \in Schemas /\ Top.value \in Instances
         /\ Top.k \in Nat \ {0} /\ Top.sub \in Nat \ {0} /\ Top.pass \in {"type", "rest"}
         /\ Len(Top.schema.items) \in Nat
         /\ Valid(schema, value) => Valid(Top.schema, Top.value)
         /\ At(path) = Top.value /\ Len(path) = Len(stack) - 1 /\ path \in Seq(Hops)
<1>1. stack \in Seq(Frames) /\ stack # <<>>
  BY DEF SchemaInv, StackInv
<1>2. Len(stack) \in Nat \ {0} /\ Top = stack[Len(stack)] /\ Top \in Frames
  BY <1>1 DEF Top, Last
<1>3. Len(stack) \in 1..Len(stack)
  BY <1>2
<1>4. FrameInv(Top) /\ (Valid(schema, value) => Valid(Top.schema, Top.value))
  BY <1>2, <1>3 DEF SchemaInv, StackInv, AcceptedDown
<1>5. /\ Top.schema \in Schemas /\ Top.value \in Instances
      /\ Top.k \in Nat \ {0} /\ Top.sub \in Nat \ {0} /\ Top.pass \in {"type", "rest"}
  BY <1>2 DEF Frames
<1>6. path \in Seq(Hops) /\ Len(path) = Len(stack) - 1
  BY <1>1 DEF SchemaInv, PathInv
<1>7. SubSeq(path, 1, Len(stack) - 1) = path
  BY <1>6
<1>8. At(path) = Top.value
  BY <1>2, <1>3, <1>7 DEF SchemaInv, PathInv
<1> QED BY <1>2, <1>4, <1>5, <1>6, <1>8, SchemaNodes

\* The innermost frame moves on.
LEMMA TopChanges ==
  ASSUME SchemaInv, stack # <<>>, NEW f \in Frames, FrameInv(f),
         f.schema = Top.schema, f.value = Top.value, f.mark = Top.mark,
         SetTop(f), UNCHANGED <<schema, value, path, result>>
  PROVE  SchemaInv'
<1> DEFINE n == Len(stack)
<1>1. stack \in Seq(Frames)
  BY DEF SchemaInv, StackInv
<1>2. /\ stack' \in Seq(Frames) /\ Len(stack') = n /\ n \in Nat \ {0} /\ stack'[n] = f
      /\ Top = stack[n] /\ \A i \in 1..(n - 1) : stack'[i] = stack[i]
  BY <1>1, NewLast, Z3 DEF SetTop, Top
<1>3. stack' # <<>>
  BY <1>2
<1> HIDE DEF n
<1>4. \A d \in 1..n : /\ stack'[d].schema = stack[d].schema /\ stack'[d].value = stack[d].value
                      /\ stack'[d].mark = stack[d].mark
  <2> SUFFICES ASSUME NEW d \in 1..n
               PROVE  /\ stack'[d].schema = stack[d].schema /\ stack'[d].value = stack[d].value
                      /\ stack'[d].mark = stack[d].mark
    OBVIOUS
  <2>1. CASE d = n
    BY <1>2, <2>1
  <2>2. CASE d # n
    <3>1. d \in 1..(n - 1)
      BY <1>2, <2>2
    <3> QED BY <1>2, <3>1
  <2> QED BY <2>1, <2>2
<1>5. StackInv'
  <2>1. \A d \in 1..n : FrameInv(stack'[d])
    <3> SUFFICES ASSUME NEW d \in 1..n PROVE FrameInv(stack'[d])
      OBVIOUS
    <3>1. CASE d = n
      BY <1>2, <3>1
    <3>2. CASE d # n
      BY <1>2, <3>2 DEF SchemaInv, StackInv, n
    <3> QED BY <3>1, <3>2
  <2>2. \A d \in 1..(n - 1) : Visiting(stack'[d], stack'[d + 1])
    <3> SUFFICES ASSUME NEW d \in 1..(n - 1) PROVE Visiting(stack'[d], stack'[d + 1])
      OBVIOUS
    <3>1. Visiting(stack[d], stack[d + 1])
      BY DEF SchemaInv, StackInv, n
    <3>2. /\ stack'[d] = stack[d] /\ stack'[d + 1].schema = stack[d + 1].schema
          /\ stack'[d + 1].value = stack[d + 1].value
      BY <1>2, <1>4
    <3> QED BY <3>1, <3>2 DEF Visiting
  <2>3. stack'[1].schema = schema /\ stack'[1].value = value
    <3>1. 1 \in 1..n
      BY <1>2
    <3> QED BY <1>4, <3>1 DEF SchemaInv, StackInv
  <2> QED BY <1>2, <2>1, <2>2, <2>3 DEF StackInv
<1>6. AcceptedDown'
  BY <1>2, <1>4 DEF SchemaInv, AcceptedDown, n
<1>7. PathInv'
  <2>1. \A d \in 2..n : d \in 1..n
    BY <1>2
  <2> QED BY <1>2, <1>3, <1>4, <2>1, AtSame DEF SchemaInv, PathInv, n
<1> QED BY <1>3, <1>5, <1>6, <1>7
       DEF SchemaInv, VerdictIsConjunction, FirstFailureReported

\* A failure is one of the whole schema, and at the root nothing earlier is
\* broken.
FailsFirst(word) ==
  Len(stack) = 1 /\ IsObject(schema) /\ word # <<"type">> =>
    \A i \in Earlier(word) : KeywordHolds(schema, schema.items[i].key, schema.items[i].val, value)

LEMMA FailStep ==
  ASSUME SchemaInv, stack # <<>>, ~Valid(Top.schema, Top.value),
         NEW kind, kind # "Ok", NEW S, NEW hop \in Seq(S), NEW word, FailsFirst(word),
         Fail(kind, hop, word)
  PROVE  SchemaInv'
<1>1. /\ stack' = <<>> /\ path' = <<>> /\ schema' = schema /\ value' = value
      /\ result' = [kind |-> kind, path |-> path \o hop, word |-> word]
  BY DEF Fail
<1>2. /\ ~Valid(schema, value) /\ Len(stack) \in Nat \ {0}
      /\ path \in Seq(Hops) /\ Len(path) = Len(stack) - 1
  BY TopFacts
<1>3. schema' \in Schemas /\ value' \in Instances
  BY <1>1 DEF SchemaInv
<1>4. StackInv'
  BY <1>1 DEF StackInv
<1>5. AcceptedDown'
  BY <1>1 DEF AcceptedDown
<1>6. PathInv'
  BY <1>1 DEF PathInv
<1>7. VerdictIsConjunction'
  BY <1>1, <1>2 DEF VerdictIsConjunction
<1>8. FirstFailureReported'
  <2>1. Len(path \o hop) = 0 => Len(stack) = 1
    <3>1. Len(path \o hop) = Len(path) + Len(hop) /\ Len(hop) \in Nat
      <4>1. path \in Seq(Hops \union S) /\ hop \in Seq(Hops \union S)
        BY <1>2
      <4> QED BY <4>1
    <3> QED BY <1>2, <3>1
  <2>2. result'.word = word /\ result'.path = path \o hop
    BY <1>1
  <2> QED BY <1>1, <2>1, <2>2 DEF FirstFailureReported, FailsFirst, Earlier, Position
<1> QED BY <1>3, <1>4, <1>5, <1>6, <1>7, <1>8 DEF SchemaInv

\* The current keyword holds when all its children do.
LEMMA ChildrenMean ==
  ASSUME NEW f \in Frames, f.k <= Len(f.schema.items), EntryOf(f).key \in Recursive
  PROVE  /\ ~IsObject(EntryOf(f).val) =>
              ~KeywordHolds(f.schema, EntryOf(f).key, EntryOf(f).val, f.value)
         /\ IsObject(EntryOf(f).val) /\ f.pass = "rest" /\ ~Descends(f) =>
              KeywordHolds(f.schema, EntryOf(f).key, EntryOf(f).val, f.value)
         /\ Descends(f) =>
              (KeywordHolds(f.schema, EntryOf(f).key, EntryOf(f).val, f.value) <=>
                 \A j \in 1..ChildCount(f) : HasChild(f, j) => Valid(ChildSchema(f, j), ChildValue(f, j)))
<1>1. CASE EntryOf(f).key = <<"properties">>
  BY <1>1, PropertiesMeans DEF Descends, ChildCount, HasChild, ChildSchema, ChildValue
<1>2. CASE EntryOf(f).key = <<"items">>
  <2>1. <<"items">> # <<"properties">>
    OBVIOUS
  <2> QED BY <1>2, <2>1, ItemsMeans DEF Descends, ChildCount, HasChild, ChildSchema, ChildValue
<1> QED BY <1>1, <1>2 DEF Recursive

\* A child of a frame is a schema and a value.
LEMMA ChildNodes ==
  ASSUME NEW f \in Frames, Descends(f), f.sub <= ChildCount(f), HasChild(f, f.sub)
  PROVE  ChildSchema(f, f.sub) \in Schemas /\ ChildValue(f, f.sub) \in Instances
<1>1. f.schema \in Schemas /\ f.value \in Instances /\ f.k \in Nat \ {0} /\ f.sub \in Nat \ {0}
  BY DEF Frames
<1>2. f.k \in 1..Len(f.schema.items)
  BY <1>1, SchemaNodes DEF Descends
<1>3. EntryOf(f).val \in Schemas
  BY <1>1, <1>2, SchemaNodes DEF EntryOf
<1>4. CASE EntryOf(f).key = <<"properties">>
  <2>1. f.sub \in 1..Len(EntryOf(f).val.items)
    BY <1>1, <1>3, <1>4, SchemaNodes DEF ChildCount
  <2> QED BY <1>1, <1>3, <1>4, <2>1, SchemaNodes, AtKeyInside DEF HasChild, ChildSchema, ChildValue
<1>5. CASE EntryOf(f).key # <<"properties">>
  <2>1. f.sub \in 1..Len(f.value.items)
    BY <1>1, <1>5, InstanceNodes DEF ChildCount
  <2> QED BY <1>1, <1>3, <1>5, <2>1, InstanceNodes DEF ChildSchema, ChildValue
<1> QED BY <1>4, <1>5

\* A schema that accepts a value accepts each child with its schema.
LEMMA AcceptsChild ==
  ASSUME NEW f \in Frames, Descends(f), f.sub <= ChildCount(f), HasChild(f, f.sub),
         Valid(f.schema, f.value)
  PROVE  Valid(ChildSchema(f, f.sub), ChildValue(f, f.sub))
<1>1. f.schema \in Schemas /\ f.value \in Instances /\ f.k \in Nat \ {0} /\ f.sub \in Nat \ {0}
  BY DEF Frames
<1>2. f.k \in 1..Len(f.schema.items)
  BY <1>1, SchemaNodes DEF Descends
<1>3. KeywordHolds(f.schema, EntryOf(f).key, EntryOf(f).val, f.value)
  BY <1>1, <1>2, Meaning DEF AllHold, EntryOf
<1>4. ChildCount(f) \in Nat
  <2>1. EntryOf(f).val \in Schemas
    BY <1>1, <1>2, SchemaNodes DEF EntryOf
  <2> QED BY <1>1, <2>1, SchemaNodes, InstanceNodes DEF ChildCount
<1>5. f.sub \in 1..ChildCount(f)
  BY <1>1, <1>4
<1> QED BY <1>2, <1>3, <1>5, ChildrenMean DEF Descends

LEMMA EnterStep ==
  ASSUME SchemaInv, stack # <<>>, IsObject(Top.schema), Descends(Top),
         Top.sub <= ChildCount(Top), HasChild(Top, Top.sub),
         NEW hop \in Hops, HopTo(Top.value, hop) = ChildValue(Top, Top.sub),
         Enter(ChildSchema(Top, Top.sub), ChildValue(Top, Top.sub), hop)
  PROVE  SchemaInv'
<1> DEFINE n == Len(stack)
           f == Top
           g == Frame(ChildSchema(f, f.sub), ChildValue(f, f.sub), Len(path))
<1>1. /\ n \in Nat \ {0} /\ f = stack[n] /\ f \in Frames /\ At(path) = f.value
      /\ Len(path) = n - 1 /\ path \in Seq(Hops) /\ stack \in Seq(Frames)
      /\ Valid(schema, value) => Valid(f.schema, f.value)
  BY TopFacts DEF SchemaInv, StackInv
<1>2. ChildSchema(f, f.sub) \in Schemas /\ ChildValue(f, f.sub) \in Instances
  BY <1>1, ChildNodes
<1>3. /\ g \in Frames /\ g.schema = ChildSchema(f, f.sub) /\ g.value = ChildValue(f, f.sub)
      /\ g.mark = n - 1 /\ g.k = 1 /\ g.sub = 1 /\ g.pass = "type"
  BY <1>1, <1>2 DEF Frame, Frames
<1>4. /\ IsObject(f.schema) /\ Descends(f) /\ f.sub <= ChildCount(f) /\ HasChild(f, f.sub)
      /\ stack' = Append(stack, g) /\ path' = Append(path, hop)
      /\ schema' = schema /\ value' = value /\ result' = result
  BY DEF Enter
<1>5. HopTo(f.value, hop) = ChildValue(f, f.sub)
  OBVIOUS
<1> HIDE DEF n, f, g
<1>6. /\ stack' \in Seq(Frames) /\ Len(stack') = n + 1 /\ stack'[n + 1] = g
      /\ \A d \in 1..n : stack'[d] = stack[d]
  BY <1>1, <1>3, <1>4 DEF n
<1>7. \A d \in 1..(n + 1) : d = n + 1 \/ d \in 1..n
  BY <1>1
<1>8. StackInv'
  <2>1. FrameInv(g)
    <3>1. \A i \in Nat : ~KeywordDone(g, i) \/ i = 0
      BY <1>3 DEF KeywordDone
    <3>2. \A i \in 1..Len(g.schema.items) : i \in Nat /\ i # 0
      BY <1>2, <1>3, SchemaNodes
    <3>3. 1..(g.sub - 1) = {}
      BY <1>3
    <3> QED BY <1>3, <3>1, <3>2, <3>3 DEF FrameInv
  <2>2. \A d \in 1..(n + 1) : FrameInv(stack'[d])
    BY <1>6, <1>7, <2>1 DEF SchemaInv, StackInv, n
  <2>3. \A d \in 1..n : Visiting(stack'[d], stack'[d + 1])
    <3> SUFFICES ASSUME NEW d \in 1..n PROVE Visiting(stack'[d], stack'[d + 1])
      OBVIOUS
    <3>1. CASE d = n
      BY <1>1, <1>3, <1>4, <1>6, <3>1 DEF Visiting
    <3>2. CASE d # n
      <4>1. d \in 1..(n - 1) /\ d + 1 \in 1..n
        BY <1>1, <3>2
      <4> QED BY <1>6, <4>1 DEF SchemaInv, StackInv, n
    <3> QED BY <3>1, <3>2
  <2>4. stack'[1].schema = schema /\ stack'[1].value = value
    <3>1. 1 \in 1..n /\ stack # <<>>
      BY <1>1
    <3> QED BY <1>6, <3>1 DEF SchemaInv, StackInv
  <2>5. Len(stack') - 1 = n
    BY <1>1, <1>6
  <2> QED BY <1>4, <1>6, <2>2, <2>3, <2>4, <2>5 DEF StackInv
<1>9. AcceptedDown'
  <2>1. ASSUME Valid(schema, value), NEW d \in 1..(n + 1)
        PROVE  Valid(stack'[d].schema, stack'[d].value)
    <3>1. CASE d = n + 1
      BY <1>1, <1>3, <1>4, <1>6, <2>1, <3>1, AcceptsChild
    <3>2. CASE d \in 1..n
      BY <1>6, <2>1, <3>2 DEF SchemaInv, AcceptedDown, n
    <3> QED BY <1>7, <3>1, <3>2
  <2> QED BY <1>4, <1>6, <2>1 DEF AcceptedDown
<1>10. PathInv'
  <2>1. path' \in Seq(Hops) /\ Len(path') = n
    BY <1>1, <1>4
  <2>2. value \in Instances
    BY DEF SchemaInv
  <2>3. ASSUME NEW d \in 1..(n + 1) PROVE At(SubSeq(path', 1, d - 1)) = stack'[d].value
    <3>1. CASE d = n + 1
      <4>1. SubSeq(path', 1, d - 1) = Append(path, hop)
        BY <1>1, <1>4, <2>1, <3>1
      <4>2. At(Append(path, hop)) = HopTo(At(path), hop)
        BY <1>1, <2>2, AtAppends
      <4> QED BY <1>1, <1>3, <1>5, <1>6, <3>1, <4>1, <4>2
    <3>2. CASE d \in 1..n
      <4>1. SubSeq(path', 1, d - 1) = SubSeq(path, 1, d - 1)
        BY <1>1, <1>4, <3>2
      <4> QED BY <1>6, <3>2, <4>1 DEF SchemaInv, PathInv, n
    <3> QED BY <1>7, <3>1, <3>2
  <2>4. ASSUME NEW d \in 2..(n + 1) PROVE stack'[d].mark = d - 2
    <3>1. CASE d = n + 1
      BY <1>1, <1>3, <1>6, <3>1
    <3>2. CASE d # n + 1
      <4>1. d \in 2..n /\ d \in 1..n
        BY <1>1, <3>2
      <4> QED BY <1>6, <4>1 DEF SchemaInv, PathInv, n
    <3> QED BY <3>1, <3>2
  <2>5. Len(path') = Len(stack') - 1
    BY <1>1, <1>6, <2>1
  <2> QED BY <1>4, <1>6, <2>1, <2>3, <2>4, <2>5, AtSame DEF PathInv
<1>11. stack' # <<>>
  BY <1>1, <1>6
<1> QED BY <1>4, <1>8, <1>9, <1>10, <1>11
       DEF SchemaInv, VerdictIsConjunction, FirstFailureReported

\* A node whose keywords have all been found to hold is accepted.
LEMMA NodeAccepted ==
  ASSUME SchemaInv, AtReturn
  PROVE  Valid(Top.schema, Top.value)
<1>1. /\ Top.schema \in Schemas /\ Top.value \in Instances /\ FrameInv(Top)
      /\ Len(Top.schema.items) \in Nat /\ Top.k \in Nat \ {0}
  BY TopFacts DEF AtReturn
<1>2. \A i \in 1..Len(Top.schema.items) : KeywordDone(Top, i)
  BY <1>1 DEF AtReturn, KeywordDone
<1>3. AllHold(Top.schema, Top.value)
  BY <1>1, <1>2 DEF FrameInv, AllHold
<1> QED BY <1>1, <1>3, Meaning DEF AtReturn

LEMMA NodeOkStep ==
  ASSUME SchemaInv, NodeOk
  PROVE  SchemaInv'
<1> DEFINE m == Len(stack) - 1
           f == stack[m]
           g == stack[m + 1]
           h == [f EXCEPT !.sub = @ + 1]
<1>1. /\ stack \in Seq(Frames) /\ stack # <<>> /\ Len(stack) > 1 /\ AtReturn
      /\ stack' = Append(SubSeq(stack, 1, Len(stack) - 2), h) /\ path' = SubSeq(path, 1, Top.mark)
      /\ schema' = schema /\ value' = value /\ result' = result
  BY DEF NodeOk, AtReturn, Parent, SchemaInv, StackInv
<1>2. Valid(Top.schema, Top.value)
  BY <1>1, NodeAccepted
<1>3. /\ m \in Nat \ {0} /\ Len(stack) = m + 1 /\ Top = g
      /\ Len(path) = m /\ path \in Seq(Hops)
  BY <1>1, TopFacts
<1>4. f \in Frames /\ m \in 1..(Len(stack) - 1) /\ m \in 1..Len(stack) /\ m + 1 \in 2..Len(stack)
  BY <1>1, <1>3
<1>5. FrameInv(f) /\ Visiting(f, g) /\ g.mark = m - 1
  BY <1>3, <1>4 DEF SchemaInv, StackInv, PathInv
<1>6. /\ h \in Frames /\ h.schema = f.schema /\ h.value = f.value /\ h.mark = f.mark
      /\ h.k = f.k /\ h.pass = f.pass /\ h.sub = f.sub + 1 /\ f.sub \in Nat \ {0}
  BY <1>4 DEF Frames
<1>7. /\ stack' \in Seq(Frames) /\ Len(stack') = m /\ stack'[m] = h
      /\ \A d \in 1..(m - 1) : stack'[d] = stack[d]
  <2>1. Len(stack) - 2 = m - 1
    OBVIOUS
  <2> HIDE DEF m, f, g, h
  <2> QED BY <1>1, <1>3, <1>6, <2>1, OneLess
<1> HIDE DEF m, f, g, h
<1>8. \A d \in 1..m : d = m \/ d \in 1..(m - 1)
  BY <1>3
<1>9. \A d \in 1..m : /\ stack'[d].schema = stack[d].schema /\ stack'[d].value = stack[d].value
                      /\ stack'[d].mark = stack[d].mark
  BY <1>6, <1>7, <1>8 DEF f
<1>10. FrameInv(h)
  <2>1. \A i \in 1..Len(h.schema.items) : KeywordDone(h, i) <=> KeywordDone(f, i)
    BY <1>6 DEF KeywordDone
  <2>2. /\ Descends(h) <=> Descends(f)
        /\ ChildCount(h) = ChildCount(f)
        /\ \A j : /\ HasChild(h, j) <=> HasChild(f, j)
                  /\ ChildSchema(h, j) = ChildSchema(f, j) /\ ChildValue(h, j) = ChildValue(f, j)
    BY <1>6 DEF Descends, ChildCount, HasChild, ChildSchema, ChildValue, EntryOf
  <2>3. Descends(f) /\ f.sub <= ChildCount(f) /\ ChildCount(f) \in Nat
    <3>1. Descends(f) /\ f.sub <= ChildCount(f)
      BY <1>5 DEF Visiting
    <3>2. f.schema \in Schemas /\ f.value \in Instances /\ f.k \in 1..Len(f.schema.items)
      BY <1>4, <3>1, SchemaNodes DEF Descends, Frames
    <3>3. EntryOf(f).val \in Schemas
      BY <3>2, SchemaNodes DEF EntryOf
    <3> QED BY <3>1, <3>2, <3>3, SchemaNodes, InstanceNodes DEF ChildCount
  <2>4. Valid(ChildSchema(f, f.sub), ChildValue(f, f.sub))
    BY <1>2, <1>3, <1>5 DEF Visiting
  <2>5. \A j \in 1..(h.sub - 1) : HasChild(h, j) => Valid(ChildSchema(h, j), ChildValue(h, j))
    <3>1. \A j \in 1..(h.sub - 1) : j = f.sub \/ j \in 1..(f.sub - 1)
      BY <1>6
    <3> QED BY <1>5, <2>2, <2>4, <3>1 DEF FrameInv
  <2>6. h.sub <= ChildCount(h) + 1
    BY <1>6, <2>2, <2>3
  <2>7. \A i \in 1..Len(h.schema.items) : KeywordDone(h, i) =>
          KeywordHolds(h.schema, h.schema.items[i].key, h.schema.items[i].val, h.value)
    BY <1>5, <1>6, <2>1 DEF FrameInv
  <2> QED BY <1>5, <1>6, <2>2, <2>3, <2>5, <2>6, <2>7 DEF FrameInv, Visiting
<1>11. StackInv'
  <2>1. \A d \in 1..m : FrameInv(stack'[d])
    <3> SUFFICES ASSUME NEW d \in 1..m PROVE FrameInv(stack'[d])
      OBVIOUS
    <3>1. CASE d = m
      BY <1>7, <1>10, <3>1
    <3>2. CASE d \in 1..(m - 1)
      <4>1. stack'[d] = stack[d] /\ d \in 1..Len(stack)
        BY <1>3, <1>7, <3>2
      <4> QED BY <4>1 DEF SchemaInv, StackInv
    <3> QED BY <1>8, <3>1, <3>2
  <2>2. \A d \in 1..(m - 1) : Visiting(stack'[d], stack'[d + 1])
    <3> SUFFICES ASSUME NEW d \in 1..(m - 1) PROVE Visiting(stack'[d], stack'[d + 1])
      OBVIOUS
    <3>1. d \in 1..(Len(stack) - 1) /\ d + 1 \in 1..m
      BY <1>3
    <3>2. Visiting(stack[d], stack[d + 1])
      BY <3>1 DEF SchemaInv, StackInv
    <3> QED BY <1>7, <1>9, <3>1, <3>2 DEF Visiting
  <2>3. stack'[1].schema = schema /\ stack'[1].value = value
    <3>1. 1 \in 1..m
      BY <1>3
    <3> QED BY <1>1, <1>9, <3>1 DEF SchemaInv, StackInv
  <2> QED BY <1>1, <1>7, <2>1, <2>2, <2>3 DEF StackInv
<1>12. AcceptedDown'
  <2>1. \A d \in 1..m : d \in 1..Len(stack)
    BY <1>3
  <2> QED BY <1>1, <1>7, <1>9, <2>1 DEF SchemaInv, AcceptedDown
<1>13. PathInv'
  <2>1. path' = SubSeq(path, 1, m - 1)
    BY <1>1, <1>3, <1>5
  <2>2. path' \in Seq(Hops) /\ Len(path') = m - 1
    BY <1>3, <2>1
  <2>3. ASSUME NEW d \in 1..m PROVE At(SubSeq(path', 1, d - 1)) = stack'[d].value
    <3>1. SubSeq(path', 1, d - 1) = SubSeq(path, 1, d - 1)
      BY <1>3, <2>1
    <3>2. d \in 1..Len(stack)
      BY <1>3
    <3>3. At(SubSeq(path, 1, d - 1)) = stack[d].value
      BY <3>2 DEF SchemaInv, PathInv
    <3> QED BY <1>9, <3>1, <3>3
  <2>4. \A d \in 2..m : d \in 2..Len(stack) /\ d \in 1..m
    BY <1>3
  <2>5. \A d \in 2..m : stack'[d].mark = d - 2
    BY <1>9, <2>4 DEF SchemaInv, PathInv
  <2> QED BY <1>1, <1>7, <2>2, <2>3, <2>5, AtSame DEF PathInv
<1>14. stack' # <<>>
  BY <1>3, <1>7
<1> QED BY <1>1, <1>11, <1>12, <1>13, <1>14
       DEF SchemaInv, VerdictIsConjunction, FirstFailureReported

LEMMA RootOkStep ==
  ASSUME SchemaInv, RootOk
  PROVE  SchemaInv'
<1>1. /\ stack # <<>> /\ AtReturn /\ Len(stack) = 1 /\ stack' = <<>> /\ result'.kind = "Ok"
      /\ schema' = schema /\ value' = value /\ path' = path
  BY DEF RootOk, AtReturn, Running
<1>2. Valid(Top.schema, Top.value) /\ Top = stack[1]
  BY <1>1, NodeAccepted, TopFacts
<1>3. Valid(schema, value)
  BY <1>1, <1>2 DEF SchemaInv, StackInv
<1>4. StackInv' /\ AcceptedDown'
  BY <1>1 DEF StackInv, AcceptedDown
<1>5. PathInv'
  BY <1>1 DEF SchemaInv, PathInv
<1> QED BY <1>1, <1>3, <1>4, <1>5 DEF SchemaInv, VerdictIsConjunction, FirstFailureReported

(***************************************************************************)
(* A keyword's outcome has at most one hop.                                *)
(***************************************************************************)
OneHop(out) == out.kind = "Ok" \/ out.hop = <<>> \/ \E hop : out.hop = <<hop>>

LEMMA PlainHop ==
  ASSUME NEW ok, NEW kind, NEW p, NEW applies
  PROVE  /\ OneHop(Broken(kind)) /\ OneHop(Holds) /\ OneHop(Unless(ok, kind))
         /\ OneHop(CheckBound(p, applies, ok, kind))
BY DEF OneHop, Broken, Holds, Unless, CheckBound

LEMMA KeywordHop ==
  ASSUME NEW s, NEW word, NEW p, NEW v
  PROVE  OneHop(ApplyKeyword(s, word, p, v))
<1>1. OneHop(CheckRequired(p, v))
  <2>1. \A keys, at : OneHop(ReportMissing(keys, at))
    BY DEF OneHop, ReportMissing, Holds, BrokenAt
  <2> QED BY <2>1, PlainHop DEF CheckRequired
<1>2. OneHop(CheckEnum(p, v)) /\ OneHop(CheckConst(p, v))
  BY PlainHop DEF CheckEnum, CheckConst
<1>3. /\ OneHop(CheckMinLength(p, v)) /\ OneHop(CheckMaxLength(p, v))
      /\ OneHop(CheckMinItems(p, v)) /\ OneHop(CheckMaxItems(p, v))
  BY PlainHop DEF CheckMinLength, CheckMaxLength, CheckMinItems, CheckMaxItems
<1>4. OneHop(CheckMinimum(p, v)) /\ OneHop(CheckMaximum(p, v))
  BY PlainHop DEF CheckMinimum, CheckMaximum
<1>5. OneHop(CheckAdditional(s, p, v))
  <2>1. \A at : OneHop(ReportExtra(v, at))
    BY DEF OneHop, ReportExtra, Holds, BrokenAt
  <2> QED BY <2>1, PlainHop DEF CheckAdditional
<1> QED BY <1>1, <1>2, <1>3, <1>4, <1>5, PlainHop DEF ApplyKeyword

(***************************************************************************)
(* One keyword.                                                            *)
(***************************************************************************)
\* A keyword that does not hold refutes the whole schema, and a frame that
\* is at it has found every earlier one to hold.
LEMMA BrokenKeyword ==
  ASSUME SchemaInv, stack # <<>>, IsObject(Top.schema), Top.k <= Len(Top.schema.items),
         ~KeywordHolds(Top.schema, Entry.key, Entry.val, Top.value)
  PROVE  /\ ~Valid(Top.schema, Top.value)
         /\ Top.pass = "rest" => FailsFirst(Entry.key)
<1>1. /\ Top.schema \in Schemas /\ Top.value \in Instances /\ FrameInv(Top)
      /\ Len(Top.schema.items) \in Nat /\ Top.k \in Nat \ {0}
  BY TopFacts
<1>2. Top.k \in 1..Len(Top.schema.items)
  BY <1>1
<1>3. ~Valid(Top.schema, Top.value)
  BY <1>1, <1>2, Meaning DEF AllHold, Entry
<1>4. ASSUME Top.pass = "rest", Len(stack) = 1, NEW i \in Earlier(Entry.key)
      PROVE  KeywordHolds(schema, schema.items[i].key, schema.items[i].val, value)
  <2>1. Top = stack[1] /\ Top.schema = schema /\ Top.value = value
    BY <1>4, TopFacts DEF SchemaInv, StackInv
  <2> DEFINE same == {j \in 1..Len(schema.items) : schema.items[j].key = Entry.key}
  <2>2. same \subseteq Nat /\ Top.k \in same
    BY <1>1, <1>2, <2>1 DEF Entry
  <2>3. Min(same) \in Nat /\ Min(same) <= Top.k
    <3> HIDE DEF same
    <3> QED BY <2>2, MinIsLeast
  <2>4. Position(Entry.key) = Min(same)
    BY DEF Position
  <2>5. /\ i \in 1..Len(schema.items)
        /\ schema.items[i].key = <<"type">> \/ i < Position(Entry.key)
    BY DEF Earlier
  <2> HIDE DEF same
  <2>6. KeywordDone(Top, i)
    BY <1>1, <1>4, <2>1, <2>3, <2>4, <2>5 DEF KeywordDone
  <2> QED BY <1>1, <2>1, <2>5, <2>6 DEF FrameInv
<1> QED BY <1>3, <1>4 DEF FailsFirst

\* A keyword that holds: the frame moves on to the next entry.
LEMMA NextStep ==
  ASSUME SchemaInv, stack # <<>>, IsObject(Top.schema), Top.k <= Len(Top.schema.items),
         (Top.pass = "type" /\ Entry.key # <<"type">>)
           \/ KeywordHolds(Top.schema, Entry.key, Entry.val, Top.value),
         NextEntry, UNCHANGED <<schema, value, path, result>>
  PROVE  SchemaInv'
<1> DEFINE t == Top
           f == [t EXCEPT !.k = @ + 1, !.sub = 1]
<1>1. /\ t \in Frames /\ t.k \in Nat \ {0} /\ FrameInv(t) /\ Len(t.schema.items) \in Nat
  BY TopFacts
<1>2. /\ f \in Frames /\ f.schema = t.schema /\ f.value = t.value /\ f.mark = t.mark
      /\ f.pass = t.pass /\ f.k = t.k + 1 /\ f.sub = 1
  <2> HIDE DEF t
  <2>1. t.k + 1 \in Nat \ {0} /\ 1 \in Nat \ {0}
    BY <1>1
  <2> QED BY <1>1, <2>1 DEF Frames
<1>3. SetTop(f)
  BY DEF NextEntry
<1>4. t = Top
  OBVIOUS
<1> HIDE DEF t, f
<1>5. FrameInv(f)
  <2>1. ASSUME NEW i \in 1..Len(f.schema.items), KeywordDone(f, i)
        PROVE  KeywordHolds(f.schema, f.schema.items[i].key, f.schema.items[i].val, f.value)
    <3>1. CASE i = t.k
      <4>1. f.schema.items[i] = Entry
        BY <1>2, <1>4, <3>1 DEF Entry
      <4>2. CASE KeywordHolds(Top.schema, Entry.key, Entry.val, Top.value)
        BY <1>2, <1>4, <4>1, <4>2
      <4>3. CASE Top.pass = "type" /\ Entry.key # <<"type">>
        BY <1>2, <1>4, <2>1, <4>1, <4>3 DEF KeywordDone
      <4> QED BY <4>2, <4>3
    <3>2. CASE i # t.k
      <4>1. KeywordDone(t, i)
        BY <1>1, <1>2, <2>1, <3>2 DEF KeywordDone
      <4> QED BY <1>1, <1>2, <4>1 DEF FrameInv
    <3> QED BY <3>1, <3>2
  <2>2. 1..(f.sub - 1) = {} /\ ~(f.sub > 1)
    BY <1>2
  <2> QED BY <1>2, <1>4, <2>1, <2>2 DEF FrameInv
<1> QED BY <1>2, <1>3, <1>4, <1>5, TopChanges

LEMMA SettleStep ==
  ASSUME SchemaInv, stack # <<>>, IsObject(Top.schema), Top.k <= Len(Top.schema.items),
         NEW out, OneHop(out), NEW word, Settle(out, word),
         out.kind = "Ok" => (Top.pass = "type" /\ Entry.key # <<"type">>)
                              \/ KeywordHolds(Top.schema, Entry.key, Entry.val, Top.value),
         out.kind # "Ok" => /\ ~KeywordHolds(Top.schema, Entry.key, Entry.val, Top.value)
                            /\ word = <<"type">> \/ (Top.pass = "rest" /\ word = Entry.key)
  PROVE  SchemaInv'
<1>1. CASE out.kind = "Ok"
  <2>1. NextEntry /\ UNCHANGED <<schema, value, path, result>>
    BY <1>1 DEF Settle
  <2> QED BY <1>1, <2>1, NextStep
<1>2. CASE out.kind # "Ok"
  <2>1. Fail(out.kind, out.hop, word)
    BY <1>2 DEF Settle
  <2>2. PICK hop : out.hop = <<>> \/ out.hop = <<hop>>
    BY <1>2 DEF OneHop
  <2>3. out.hop \in Seq({hop})
    <3>1. <<>> \in Seq({hop}) /\ <<hop>> \in Seq({hop})
      OBVIOUS
    <3> QED BY <2>2, <3>1
  <2>4. ~Valid(Top.schema, Top.value) /\ FailsFirst(word)
    <3>1. ~Valid(Top.schema, Top.value) /\ (Top.pass = "rest" => FailsFirst(Entry.key))
      BY <1>2, BrokenKeyword
    <3>2. FailsFirst(<<"type">>)
      BY DEF FailsFirst
    <3> QED BY <1>2, <3>1, <3>2
  <2> QED BY <1>2, <2>1, <2>3, <2>4, FailStep
<1> QED BY <1>1, <1>2

LEMMA TypePassStep ==
  ASSUME SchemaInv, TypePass
  PROVE  SchemaInv'
<1> DEFINE out == IF Entry.key = <<"type">> THEN CheckType(Entry.val, Top.value) ELSE Holds
<1>1. /\ stack # <<>> /\ IsObject(Top.schema) /\ Top.k <= Len(Top.schema.items)
      /\ Top.pass = "type" /\ Settle(out, <<"type">>)
  BY DEF TypePass, AtEntry
<1>2. OneHop(out)
  BY PlainHop DEF CheckType
<1>3. CASE Entry.key = <<"type">>
  <2>1. KeywordHolds(Top.schema, Entry.key, Entry.val, Top.value) <=> out.kind = "Ok"
    BY <1>3, TypeMeans
  <2> DEFINE word == <<"type">>
  <2>2. Settle(out, word) /\ word = <<"type">>
    BY <1>1
  <2> HIDE DEF out, word
  <2>3. out.kind = "Ok" => (Top.pass = "type" /\ Entry.key # <<"type">>)
                             \/ KeywordHolds(Top.schema, Entry.key, Entry.val, Top.value)
    BY <2>1
  <2>4. out.kind # "Ok" => /\ ~KeywordHolds(Top.schema, Entry.key, Entry.val, Top.value)
                           /\ word = <<"type">> \/ (Top.pass = "rest" /\ word = Entry.key)
    BY <2>1, <2>2
  <2> QED BY <1>1, <1>2, <2>2, <2>3, <2>4, SettleStep
<1>4. CASE Entry.key # <<"type">>
  <2>1. out.kind = "Ok"
    BY <1>4 DEF Holds
  <2>2. NextEntry /\ UNCHANGED <<schema, value, path, result>>
    BY <1>1, <2>1 DEF Settle
  <2> QED BY <1>1, <1>4, <2>2, NextStep
<1> QED BY <1>3, <1>4

LEMMA TypesDoneStep ==
  ASSUME SchemaInv, TypesDone
  PROVE  SchemaInv'
<1> DEFINE t == Top
           f == [t EXCEPT !.pass = "rest", !.k = 1]
<1>1. /\ stack # <<>> /\ IsObject(t.schema) /\ t.pass = "type" /\ t.k > Len(t.schema.items)
      /\ SetTop(f) /\ UNCHANGED <<schema, value, path, result>>
  BY DEF TypesDone
<1>2. t \in Frames /\ FrameInv(t) /\ Len(t.schema.items) \in Nat
      /\ t.k \in Nat \ {0} /\ t.sub \in Nat \ {0}
  BY <1>1, TopFacts
<1>3. /\ f \in Frames /\ f.schema = t.schema /\ f.value = t.value /\ f.mark = t.mark
      /\ f.pass = "rest" /\ f.k = 1 /\ f.sub = t.sub
  <2> HIDE DEF t
  <2>1. 1 \in Nat \ {0} /\ "rest" \in {"type", "rest"}
    OBVIOUS
  <2> QED BY <1>2, <2>1 DEF Frames
<1>4. t = Top
  OBVIOUS
<1> HIDE DEF t, f
<1>5. FrameInv(f)
  <2>1. t.sub = 1
    BY <1>1, <1>2 DEF FrameInv, Descends
  <2>2. ASSUME NEW i \in 1..Len(f.schema.items), KeywordDone(f, i) PROVE KeywordDone(t, i)
    BY <1>1, <1>2, <1>3, <2>2 DEF KeywordDone
  <2>3. \A i \in 1..Len(f.schema.items) : KeywordDone(f, i) =>
          KeywordHolds(f.schema, f.schema.items[i].key, f.schema.items[i].val, f.value)
    BY <1>2, <1>3, <2>2 DEF FrameInv
  <2>4. 1..(f.sub - 1) = {} /\ ~(f.sub > 1)
    BY <1>3, <2>1
  <2> QED BY <1>1, <1>3, <2>3, <2>4 DEF FrameInv
<1> QED BY <1>1, <1>3, <1>4, <1>5, TopChanges

LEMMA KeywordStep ==
  ASSUME SchemaInv, Keyword
  PROVE  SchemaInv'
<1> DEFINE out == IF Entry.key = <<"type">> THEN Holds
                  ELSE ApplyKeyword(Top.schema, Entry.key[1], Entry.val, Top.value)
<1>1. /\ stack # <<>> /\ IsObject(Top.schema) /\ Top.k <= Len(Top.schema.items)
      /\ Top.pass = "rest" /\ Entry.key \notin Recursive /\ Settle(out, Entry.key)
  BY DEF Keyword, AtEntry
<1>2. OneHop(out)
  BY PlainHop, KeywordHop
<1>3. /\ FrameInv(Top) /\ Top.value \in Instances
      /\ Top.k \in 1..Len(Top.schema.items)
  BY <1>1, TopFacts
<1>4. KeywordHolds(Top.schema, Entry.key, Entry.val, Top.value) <=> out.kind = "Ok"
  <2>1. CASE Entry.key = <<"type">>
    <3>1. KeywordHolds(Top.schema, Entry.key, Entry.val, Top.value)
      BY <1>1, <1>3, <2>1 DEF FrameInv, KeywordDone, Entry
    <3>2. out.kind = "Ok"
      BY <2>1 DEF Holds
    <3> QED BY <3>1, <3>2
  <2>2. CASE Entry.key # <<"type">>
    <3>1. out = ApplyKeyword(Top.schema, Entry.key[1], Entry.val, Top.value)
      BY <2>2
    <3> HIDE DEF out
    <3> QED BY <1>1, <1>3, <2>2, <3>1, PlainMeans
  <2> QED BY <2>1, <2>2
<1> HIDE DEF out
<1> QED BY <1>1, <1>2, <1>4, SettleStep

\* Top and its children, in the terms of the invariant.
LEMMA TopChildren ==
  /\ EntryOf(Top) = Entry /\ ChildCount(Top) = Children
  /\ Top.pass = "rest" /\ Top.k <= Len(Top.schema.items) /\ Entry.key \in Recursive =>
       (Descends(Top) <=> IsObject(Entry.val) /\ InDomain)
BY DEF EntryOf, Entry, ChildCount, Children, Descends, InDomain

LEMMA ChildrenDoneStep ==
  ASSUME SchemaInv, ChildrenDone
  PROVE  SchemaInv'
<1>1. /\ stack # <<>> /\ IsObject(Top.schema) /\ Top.k <= Len(Top.schema.items)
      /\ Top.pass = "rest" /\ Entry.key \in Recursive
  BY DEF ChildrenDone, AtEntry
<1>2. /\ Top \in Frames /\ FrameInv(Top) /\ Top.sub \in Nat \ {0}
  BY <1>1, TopFacts
<1>3. CASE ~IsObject(Entry.val)
  <2>1. Fail("InvalidSchema", <<>>, Entry.key)
    BY <1>3 DEF ChildrenDone
  <2>2. ~KeywordHolds(Top.schema, Entry.key, Entry.val, Top.value)
    BY <1>1, <1>2, <1>3, ChildrenMean, TopChildren
  <2>3. ~Valid(Top.schema, Top.value) /\ FailsFirst(Entry.key)
    BY <1>1, <2>2, BrokenKeyword
  <2>4. <<>> \in Seq({0}) /\ "InvalidSchema" # "Ok"
    OBVIOUS
  <2> QED BY <1>1, <2>1, <2>3, <2>4, FailStep
<1>4. CASE IsObject(Entry.val)
  <2>1. /\ ~InDomain \/ Top.sub > Children
        /\ NextEntry /\ UNCHANGED <<schema, value, path, result>>
    BY <1>4 DEF ChildrenDone
  <2>2. KeywordHolds(Top.schema, Entry.key, Entry.val, Top.value)
    <3>1. CASE ~Descends(Top)
      BY <1>1, <1>2, <1>4, <3>1, ChildrenMean, TopChildren
    <3>2. CASE Descends(Top)
      <4>1. Top.sub > ChildCount(Top)
        BY <1>1, <1>4, <2>1, <3>2, TopChildren
      <4>2. ChildCount(Top) \in Nat
        <5>1. Top.schema \in Schemas /\ Top.value \in Instances /\ Top.k \in 1..Len(Top.schema.items)
          BY <1>1, TopFacts
        <5>2. EntryOf(Top).val \in Schemas
          BY <5>1, SchemaNodes DEF EntryOf
        <5> QED BY <5>1, <5>2, SchemaNodes, InstanceNodes DEF ChildCount
      <4>3. \A j \in 1..ChildCount(Top) : j \in 1..(Top.sub - 1)
        BY <1>2, <4>1, <4>2
      <4>4. \A j \in 1..ChildCount(Top) :
              HasChild(Top, j) => Valid(ChildSchema(Top, j), ChildValue(Top, j))
        BY <1>2, <4>3 DEF FrameInv
      <4> QED BY <1>1, <1>2, <3>2, <4>4, ChildrenMean, TopChildren
    <3> QED BY <3>1, <3>2
  <2> QED BY <1>1, <2>1, <2>2, NextStep
<1> QED BY <1>3, <1>4

\* A declared key the object lacks is passed over.
LEMMA SkipStep ==
  ASSUME SchemaInv, stack # <<>>, IsObject(Top.schema), Descends(Top),
         Top.sub <= ChildCount(Top), ~HasChild(Top, Top.sub),
         SetTop([Top EXCEPT !.sub = @ + 1]), UNCHANGED <<schema, value, path, result>>
  PROVE  SchemaInv'
<1> DEFINE t == Top
           f == [t EXCEPT !.sub = @ + 1]
<1>1. /\ t \in Frames /\ FrameInv(t) /\ t.sub \in Nat \ {0} /\ Descends(t)
      /\ t.sub <= ChildCount(t) /\ ~HasChild(t, t.sub) /\ SetTop(f) /\ t = Top
  BY TopFacts
<1>2. ChildCount(t) \in Nat
  <2>1. t.schema \in Schemas /\ t.value \in Instances /\ t.k \in 1..Len(t.schema.items)
    BY <1>1, SchemaNodes DEF Descends, Frames
  <2>2. EntryOf(t).val \in Schemas
    BY <2>1, SchemaNodes DEF EntryOf
  <2> QED BY <2>1, <2>2, SchemaNodes, InstanceNodes DEF ChildCount
<1>3. /\ f \in Frames /\ f.schema = t.schema /\ f.value = t.value /\ f.mark = t.mark
      /\ f.pass = t.pass /\ f.k = t.k /\ f.sub = t.sub + 1
  <2> HIDE DEF t
  <2> QED BY <1>1 DEF Frames
<1> HIDE DEF t, f
<1>4. FrameInv(f)
  <2>1. \A i \in 1..Len(f.schema.items) : KeywordDone(f, i) <=> KeywordDone(t, i)
    BY <1>3, SMTT(40) DEF KeywordDone
  <2>2. /\ Descends(f) <=> Descends(t)
        /\ ChildCount(f) = ChildCount(t)
        /\ \A j : /\ HasChild(f, j) <=> HasChild(t, j)
                  /\ ChildSchema(f, j) = ChildSchema(t, j) /\ ChildValue(f, j) = ChildValue(t, j)
    BY <1>3 DEF Descends, ChildCount, HasChild, ChildSchema, ChildValue, EntryOf
  <2>3. \A j \in 1..(f.sub - 1) : j = t.sub \/ j \in 1..(t.sub - 1)
    BY <1>1, <1>3
  <2>4. \A j \in 1..(f.sub - 1) : HasChild(f, j) => Valid(ChildSchema(f, j), ChildValue(f, j))
    BY <1>1, <2>2, <2>3 DEF FrameInv
  <2>5. f.sub <= ChildCount(f) + 1
    BY <1>1, <1>2, <1>3, <2>2
  <2>6. \A i \in 1..Len(f.schema.items) : KeywordDone(f, i) =>
          KeywordHolds(f.schema, f.schema.items[i].key, f.schema.items[i].val, f.value)
    BY <1>1, <1>3, <2>1 DEF FrameInv
  <2>7. IsObject(f.schema) /\ Descends(f)
    BY <1>1, <1>3, <2>2
  <2> QED BY <2>4, <2>5, <2>6, <2>7 DEF FrameInv
<1> QED BY <1>1, <1>3, <1>4, TopChanges

\* The hops of a step into a child.
LEMMA PropertyHop ==
  ASSUME NEW s \in Schemas, NEW i \in 1..Len(s.items), NEW v \in Instances,
         HasKey(v, s.items[i].key)
  PROVE  /\ KeyHop(s.items[i].key) \in Hops
         /\ HopTo(v, KeyHop(s.items[i].key)) = AtKey(v, s.items[i].key)
<1>1. s.items[i].key \in UNION {SchemaKeys(r) : r \in Schemas}
  BY DEF SchemaKeys
<1>2. KeyHop(s.items[i].key) \in Hops
  BY <1>1 DEF Hops
<1>3. -1 \notin 0..(Len(v.items) - 1)
  BY InstanceNodes
<1> QED BY <1>2, <1>3 DEF HopTo, KeyHop

LEMMA ItemHop ==
  ASSUME NEW v \in Instances, NEW i \in 1..Len(v.items)
  PROVE  IndexHop(i - 1) \in Hops /\ HopTo(v, IndexHop(i - 1)) = v.items[i].val
<1>1. i - 1 \in Nat /\ i - 1 \in 0..(Len(v.items) - 1) /\ (i - 1) + 1 = i
  BY InstanceNodes
<1>2. IndexHop(i - 1) \in Hops
  BY <1>1 DEF Hops
<1> DEFINE hop == IndexHop(i - 1)
<1>3. hop.index = i - 1
  BY DEF IndexHop
<1> HIDE DEF hop
<1>4. HopTo(v, hop) = v.items[hop.index + 1].val
  BY <1>1, <1>3 DEF HopTo
<1> QED BY <1>1, <1>2, <1>3, <1>4 DEF hop

LEMMA DescendsAtChild ==
  ASSUME SchemaInv, AtChild
  PROVE  /\ stack # <<>> /\ IsObject(Top.schema) /\ Descends(Top) /\ Top.sub <= ChildCount(Top)
         /\ Top \in Frames /\ Top.schema \in Schemas /\ Top.value \in Instances
         /\ Top.sub \in Nat \ {0} /\ Top.k \in 1..Len(Top.schema.items) /\ Entry.val \in Schemas
<1>1. /\ stack # <<>> /\ IsObject(Top.schema) /\ Top.pass = "rest"
      /\ Top.k <= Len(Top.schema.items) /\ Entry.key \in Recursive /\ IsObject(Entry.val)
      /\ InDomain /\ Top.sub <= Children
  BY DEF AtChild, AtEntry
<1>2. /\ Top \in Frames /\ Top.schema \in Schemas /\ Top.value \in Instances
      /\ Top.sub \in Nat \ {0} /\ Top.k \in 1..Len(Top.schema.items)
  BY <1>1, TopFacts
<1>3. Entry.val \in Schemas
  BY <1>2, SchemaNodes DEF Entry
<1> QED BY <1>1, <1>2, <1>3, TopChildren

LEMMA PropertyStep ==
  ASSUME SchemaInv, Property
  PROVE  SchemaInv'
<1> DEFINE e == Entry.val.items[Top.sub]
<1>1. /\ AtChild /\ Entry.key = <<"properties">>
      /\ IF HasKey(Top.value, e.key)
         THEN Enter(e.val, AtKey(Top.value, e.key), KeyHop(e.key))
         ELSE /\ SetTop([Top EXCEPT !.sub = @ + 1])
              /\ UNCHANGED <<schema, value, path, result>>
  BY DEF Property
<1>2. /\ HasChild(Top, Top.sub) <=> HasKey(Top.value, e.key)
      /\ ChildSchema(Top, Top.sub) = e.val /\ ChildValue(Top, Top.sub) = AtKey(Top.value, e.key)
      /\ ChildCount(Top) = Len(Entry.val.items)
  BY <1>1 DEF HasChild, ChildSchema, ChildValue, ChildCount, EntryOf, Entry
<1>3. CASE HasKey(Top.value, e.key)
  <2>1. Top.sub \in 1..Len(Entry.val.items)
    BY <1>1, <1>2, DescendsAtChild, SchemaNodes
  <2>2. KeyHop(e.key) \in Hops /\ HopTo(Top.value, KeyHop(e.key)) = AtKey(Top.value, e.key)
    BY <1>1, <1>3, <2>1, DescendsAtChild, PropertyHop
  <2>3. Enter(ChildSchema(Top, Top.sub), ChildValue(Top, Top.sub), KeyHop(e.key))
    BY <1>1, <1>2, <1>3
  <2> HIDE DEF e
  <2> QED BY <1>1, <1>2, <1>3, <2>2, <2>3, DescendsAtChild, EnterStep
<1>4. CASE ~HasKey(Top.value, e.key)
  <2>1. SetTop([Top EXCEPT !.sub = @ + 1]) /\ UNCHANGED <<schema, value, path, result>>
    BY <1>1, <1>4
  <2> HIDE DEF e
  <2> QED BY <1>1, <1>2, <1>4, <2>1, DescendsAtChild, SkipStep
<1> QED BY <1>3, <1>4

LEMMA ItemStep ==
  ASSUME SchemaInv, Item
  PROVE  SchemaInv'
<1> DEFINE hop == IndexHop(Top.sub - 1)
<1>1. /\ AtChild /\ Entry.key = <<"items">> /\ Entry.key # <<"properties">>
      /\ Enter(Entry.val, Top.value.items[Top.sub].val, hop)
  BY DEF Item
<1>2. /\ HasChild(Top, Top.sub) /\ ChildSchema(Top, Top.sub) = Entry.val
      /\ ChildValue(Top, Top.sub) = Top.value.items[Top.sub].val
      /\ ChildCount(Top) = Len(Top.value.items)
  BY <1>1 DEF HasChild, ChildSchema, ChildValue, ChildCount, EntryOf, Entry
<1>3. Top.sub \in 1..Len(Top.value.items)
  BY <1>1, <1>2, DescendsAtChild, InstanceNodes
<1>4. hop \in Hops /\ HopTo(Top.value, hop) = Top.value.items[Top.sub].val
  BY <1>1, <1>3, DescendsAtChild, ItemHop
<1> HIDE DEF hop
<1> QED BY <1>1, <1>2, <1>4, DescendsAtChild, EnterStep

LEMMA NotASchemaStep ==
  ASSUME SchemaInv, NotASchema
  PROVE  SchemaInv'
<1>1. stack # <<>> /\ ~IsObject(Top.schema) /\ Fail("InvalidSchema", <<>>, <<"schema">>)
  BY DEF NotASchema
<1>2. ~Valid(Top.schema, Top.value)
  BY <1>1, TopFacts, Meaning
<1>3. FailsFirst(<<"schema">>)
  <2>1. Len(stack) = 1 => Top.schema = schema
    BY <1>1, TopFacts DEF SchemaInv, StackInv
  <2> QED BY <1>1, <2>1 DEF FailsFirst
<1> DEFINE kind == "InvalidSchema"
           hop == <<>>
           word == <<"schema">>
<1>4. hop \in Seq({0}) /\ kind # "Ok" /\ FailsFirst(word) /\ Fail(kind, hop, word)
  BY <1>1, <1>3
<1> HIDE DEF kind, hop, word
<1> QED BY <1>1, <1>2, <1>4, FailStep

LEMMA StutterStep ==
  ASSUME SchemaInv, UNCHANGED vars
  PROVE  SchemaInv'
<1>1. /\ schema' = schema /\ value' = value /\ stack' = stack /\ path' = path /\ result' = result
  BY DEF vars
<1>2. StackInv' /\ AcceptedDown'
  BY <1>1 DEF SchemaInv, StackInv, AcceptedDown
<1>3. PathInv'
  BY <1>1, AtSame DEF SchemaInv, PathInv
<1>4. VerdictIsConjunction' /\ FirstFailureReported'
  BY <1>1 DEF SchemaInv, VerdictIsConjunction, FirstFailureReported, Earlier, Position
<1> QED BY <1>1, <1>2, <1>3, <1>4 DEF SchemaInv

LEMMA SchemaStart ==
  ASSUME Init
  PROVE  SchemaInv
<1> DEFINE f == Frame(schema, value, 0)
<1>1. /\ schema \in Schemas /\ value \in Instances /\ stack = <<f>> /\ path = <<>>
  BY DEF Init, Called
<1>2. /\ f \in Frames /\ f.schema = schema /\ f.value = value
      /\ f.pass = "type" /\ f.k = 1 /\ f.sub = 1
  BY <1>1 DEF Frame, Frames
<1> HIDE DEF f
<1>3. stack \in Seq(Frames) /\ Len(stack) = 1 /\ stack[1] = f /\ stack # <<>>
  BY <1>1, <1>2
<1>4. FrameInv(f)
  <2>1. Len(f.schema.items) \in Nat /\ 1..(f.sub - 1) = {}
    BY <1>1, <1>2, SchemaNodes
  <2> QED BY <1>2, <2>1 DEF FrameInv, KeywordDone
<1>5. StackInv /\ AcceptedDown
  BY <1>2, <1>3, <1>4 DEF StackInv, AcceptedDown
<1>6. PathInv
  <2>1. path \in Seq(Hops) /\ Len(path) = 0 /\ SubSeq(path, 1, 0) = <<>>
    BY <1>1
  <2>2. At(<<>>) = value
    <3>1. IndexHop(0) \in Hops /\ <<>> \in Seq(Hops)
      BY DEF Hops
    <3> QED BY <1>1, <3>1, AtAppends
  <2>3. \A d \in 1..Len(stack) : d = 1 /\ d - 1 = 0
    BY <1>3
  <2>4. 2..Len(stack) = {}
    BY <1>3
  <2>5. ASSUME NEW d \in 1..Len(stack) PROVE At(SubSeq(path, 1, d - 1)) = stack[d].value
    <3>1. d = 1 /\ d - 1 = 0
      BY <2>3
    <3>2. SubSeq(path, 1, d - 1) = <<>>
      BY <2>1, <3>1
    <3> QED BY <1>2, <1>3, <2>2, <3>1, <3>2
  <2>6. Len(path) = Len(stack) - 1
    BY <1>3, <2>1
  <2> QED BY <2>1, <2>4, <2>5, <2>6 DEF PathInv
<1> QED BY <1>1, <1>3, <1>5, <1>6 DEF SchemaInv, VerdictIsConjunction, FirstFailureReported

LEMMA SchemaStep ==
  ASSUME SchemaInv, [Next]_vars
  PROVE  SchemaInv'
<1>1. CASE NotASchema \/ TypePass \/ TypesDone
  BY <1>1, NotASchemaStep, TypePassStep, TypesDoneStep
<1>2. CASE Keyword \/ ChildrenDone
  BY <1>2, KeywordStep, ChildrenDoneStep
<1>3. CASE Property \/ Item
  BY <1>3, PropertyStep, ItemStep
<1>4. CASE NodeOk \/ RootOk
  BY <1>4, NodeOkStep, RootOkStep
<1>5. CASE Done \/ UNCHANGED vars
  BY <1>5, StutterStep DEF Done
<1> QED BY <1>1, <1>2, <1>3, <1>4, <1>5 DEF Next

THEOREM SchemaInvariant == Spec => []SchemaInv
<1>1. Init => SchemaInv
  BY SchemaStart
<1>2. SchemaInv /\ [Next]_vars => SchemaInv'
  BY SchemaStep
<1> QED BY <1>1, <1>2, PTL DEF Spec

\* validate_result accepts exactly the values of which every keyword of every
\* schema node they meet holds: two passes, short circuit, frames and all.
THEOREM VerdictTheorem == Spec => []VerdictIsConjunction
<1>1. SchemaInv => VerdictIsConjunction
  BY DEF SchemaInv
<1> QED BY <1>1, SchemaInvariant, PTL

\* Whenever validate_node looks at a node, the PathBuf names that node, and a
\* failure reported at the root is the first in the order the comment of
\* schema.hpp gives: "type", then the authored order.
THEOREM ReportTheorem == Spec => []ReportLocatesFirst
<1>1. SchemaInv => ReportLocatesFirst
  <2> SUFFICES ASSUME SchemaInv PROVE ReportLocatesFirst
    OBVIOUS
  <2>1. PathLocates
    BY TopFacts DEF PathLocates
  <2> QED BY <2>1 DEF SchemaInv, ReportLocatesFirst
<1> QED BY <1>1, SchemaInvariant, PTL

(***************************************************************************)
(* patch_result: the target changes in one step or not at all.             *)
(***************************************************************************)
PatchInv ==
  /\ patch \in Patches /\ Len(patch) \in Nat
  /\ next \in 1..(Len(patch) + 1)
  /\ pc \in {"shape", "apply", "returned"}
  /\ pc # "returned" => outcome = NoError
  /\ pc = "apply" => Malformed = {}

LEMMA MalformedSame ==
  ASSUME patch' = patch
  PROVE  Malformed' = Malformed
BY DEF Malformed

LEMMA PatchStart ==
  ASSUME PatchInit
  PROVE  PatchInv
<1>1. patch \in Patches /\ next = 1 /\ pc = "shape" /\ outcome = NoError
  BY DEF PatchInit, PatchCalled
<1>2. Len(patch) \in Nat
  BY <1>1, PatchAssumption
<1> QED BY <1>1, <1>2 DEF PatchInv

LEMMA PatchStep ==
  ASSUME PatchInv, [PatchNext]_patchVars
  PROVE  PatchInv'
<1>1. CASE \E kind, i : Return(kind, i)
  BY <1>1 DEF Return, PatchInv
<1>2. CASE Refuse
  BY <1>1, <1>2 DEF Refuse
<1>3. CASE MakeShadow
  BY <1>3, MalformedSame DEF MakeShadow, PatchInv
<1>4. CASE ApplyNext
  <2> DEFINE a == ApplyOne(shadow, patch[next])
  <2>1. pc = "apply" /\ next <= Len(patch) /\ Proceed(a)
    BY <1>4 DEF ApplyNext
  <2> HIDE DEF a
  <2>2. CASE a.kind = "Ok"
    <3>1. next' = next + 1 /\ patch' = patch /\ pc' = pc /\ outcome' = outcome
      BY <2>1, <2>2 DEF Proceed
    <3>2. next' \in 1..(Len(patch) + 1)
      BY <2>1, <3>1 DEF PatchInv
    <3> QED BY <2>1, <3>1, <3>2, MalformedSame DEF PatchInv
  <2>3. CASE a.kind # "Ok"
    BY <1>1, <2>1, <2>3 DEF Proceed
  <2> QED BY <2>2, <2>3
<1>5. CASE OutOfMemory
  BY <1>1, <1>5 DEF OutOfMemory
<1>6. CASE Commit
  BY <1>6 DEF Commit, PatchInv
<1>7. CASE PatchDone \/ UNCHANGED patchVars
  BY <1>7, MalformedSame DEF PatchDone, patchVars, PatchInv
<1> QED BY <1>2, <1>3, <1>4, <1>5, <1>6, <1>7 DEF PatchNext

THEOREM PatchInvariant == PatchSpec => []PatchInv
<1>1. PatchInit => PatchInv
  BY PatchStart
<1>2. PatchInv /\ [PatchNext]_patchVars => PatchInv'
  BY PatchStep
<1> QED BY <1>1, <1>2, PTL DEF PatchSpec

\* Whatever the operations do to the shadow and whenever memory runs out, the
\* target changes only in the step in which patch_result returns Ok, with all
\* operations applied.
THEOREM AtomicTheorem == PatchSpec => Atomic
<1>1. ASSUME PatchInv, [PatchNext]_patchVars PROVE [AtomicStep]_patchVars
  <2>1. CASE Commit
    BY <1>1, <2>1 DEF Commit, PatchInv, NoError, AtomicStep
  <2>2. ASSUME \E kind, i : Return(kind, i) PROVE target' = target
    BY <2>2 DEF Return
  <2>3. CASE Refuse \/ OutOfMemory
    BY <2>2, <2>3 DEF Refuse, OutOfMemory, AtomicStep
  <2>4. CASE MakeShadow \/ PatchDone \/ UNCHANGED patchVars
    BY <2>4 DEF MakeShadow, PatchDone, patchVars, AtomicStep
  <2>5. CASE ApplyNext
    <3> DEFINE a == ApplyOne(shadow, patch[next])
    <3>1. Proceed(a)
      BY <2>5 DEF ApplyNext
    <3> HIDE DEF a
    <3> QED BY <2>2, <3>1 DEF Proceed, AtomicStep
  <2> QED BY <1>1, <2>1, <2>3, <2>4, <2>5 DEF PatchNext
<1> QED BY <1>1, PatchInvariant, PTL DEF PatchSpec, Atomic

(***************************************************************************)
(* Pointers: what the folds that read them return.                         *)
(***************************************************************************)
OpChars(op)   == Characters(op.path.node.text) \union Characters(op.from.node.text)
PatchChars(p) == UNION {OpChars(p[i]) : i \in 1..Len(p)}
Chars         == {"~", "/"} \union UNION {PatchChars(p) : p \in Patches}
Splits        == Seq(Seq(Chars)) \ {<<>>}
Reading       == [out : Seq(Chars), tilde : BOOLEAN, bad : BOOLEAN]

LEMMA SplitType ==
  ASSUME NEW raws \in Splits, NEW c \in Chars
  PROVE  SplitChar(raws, c) \in Splits
<1>1. PICK n \in Nat : Len(raws) = n + 1
  <2>1. raws \in Seq(Seq(Chars)) /\ raws # <<>>
    BY DEF Splits
  <2>2. Len(raws) \in Nat /\ Len(raws) # 0
    BY <2>1
  <2>3. Len(raws) - 1 \in Nat /\ Len(raws) = (Len(raws) - 1) + 1
    BY <2>2
  <2> QED BY <2>3
<1>2. raws \in Seq(Seq(Chars)) /\ raws # <<>>
  BY DEF Splits
<1>3. Last(raws) \in Seq(Chars) /\ Append(Last(raws), c) \in Seq(Chars)
  BY <1>1, <1>2 DEF Last
<1>4. Append(Front(raws), Append(Last(raws), c)) \in Seq(Seq(Chars))
  BY <1>2, <1>3, NewLast
<1>5. Len(Append(Front(raws), Append(Last(raws), c))) = Len(raws)
  BY <1>2, <1>3, NewLast
<1>6. Append(raws, <<>>) \in Seq(Seq(Chars)) /\ Append(raws, <<>>) # <<>>
  BY <1>2
<1>7. Append(Front(raws), Append(Last(raws), c)) # <<>>
  BY <1>1, <1>5
<1> QED BY <1>4, <1>6, <1>7, SMTT(40) DEF SplitChar, Splits

LEMMA UnescapeType ==
  ASSUME NEW st \in Reading, NEW c \in Chars
  PROVE  UnescapeChar(st, c) \in Reading
<1>1. "~" \in Chars /\ "/" \in Chars
  BY DEF Chars
<1>2. \A x \in Chars : Append(st.out, x) \in Seq(Chars)
  BY DEF Reading
<1>3. CASE st.tilde
  BY <1>1, <1>2, <1>3 DEF UnescapeChar, Reading
<1>4. CASE ~st.tilde /\ c = "~"
  BY <1>4 DEF UnescapeChar, Reading
<1>5. CASE ~st.tilde /\ c # "~"
  BY <1>2, <1>5 DEF UnescapeChar, Reading
<1> QED BY <1>3, <1>4, <1>5

LEMMA DigitType == \A d \in DOMAIN Digit : Digit[d] \in Nat
BY DEF Digit

\* The raw tokens.
LEMMA SplitFolds ==
  ASSUME NEW s \in Seq(Chars)
  PROVE  FoldLeft(SplitChar, <<<<>>>>, s) \in Splits
<1> DEFINE n == Len(s)
           D == Splits
           g == [p \in D \X Chars |-> SplitChar(p[1], p[2])]
           Table(it) == it = [t \in SUBSET (1..n) |-> IF t = {} THEN <<<<>>>>
                              ELSE SplitChar(it[t \ {Max(t)}], s[Max(t)])]
           iter == CHOOSE it : Table(it)
<1>1. n \in Nat /\ DOMAIN s = 1..n /\ (\A i \in 1..n : s[i] \in Chars) /\ <<<<>>>> \in D
  <2>1. <<<<>>>> \in Seq(Seq(Chars)) /\ <<<<>>>> # <<>>
    OBVIOUS
  <2> QED BY <2>1 DEF Splits
<1>2. FoldLeft(SplitChar, <<<<>>>>, s) = iter[1..n]
  BY <1>1 DEF FoldLeft, MapThenFoldSet
<1>3. g \in [D \X Chars -> D] /\ \A a \in D, b \in Chars : g[<<a, b>>] = SplitChar(a, b)
  BY SplitType
<1> HIDE DEF g, D
<1>4. PICK h \in [SUBSET (1..n) -> D] : IsTable(h, n, <<<<>>>>, g, s)
  BY <1>1, <1>3, TableExists
<1>5. ASSUME NEW t \in SUBSET (1..n), t # {}
      PROVE  Max(t) \in 1..n /\ s[Max(t)] \in Chars /\ t \ {Max(t)} \in SUBSET (1..n)
  BY <1>1, <1>5, GreatestNumber
<1>6. Table(h)
  <2>1. ASSUME NEW t \in SUBSET (1..n), t # {}
        PROVE  g[<<h[t \ {Max(t)}], s[Max(t)]>>] = SplitChar(h[t \ {Max(t)}], s[Max(t)])
    <3>1. h[t \ {Max(t)}] \in D
      BY <1>5, <2>1
    <3> QED BY <1>3, <1>5, <2>1, <3>1
  <2> QED BY <1>4, <2>1 DEF IsTable
<1>7. Table(iter)
  <2> HIDE DEF Table
  <2> QED BY <1>6
<1> HIDE DEF iter, n
<1>8. ASSUME NEW t \in SUBSET (1..n)
      PROVE  /\ t = {} => iter[t] = <<<<>>>>
             /\ t # {} => iter[t] = SplitChar(iter[t \ {Max(t)}], s[Max(t)])
  BY <1>7, Zenon
<1> HIDE DEF Table
<1>9. Unfolds(iter, n, <<<<>>>>, g, D, s)
  BY <1>3, <1>5, <1>8 DEF Unfolds
<1>10. RunsTo(n, D, <<<<>>>>, g, s, iter[1..n])
  BY <1>1, <1>3, <1>9, UnfoldsRuns
<1>11. iter[1..n] \in D
  BY <1>1, <1>10 DEF RunsTo
<1> QED BY <1>2, <1>11 DEF D

\* One decoded token.
LEMMA UnescapeFolds ==
  ASSUME NEW s \in Seq(Chars)
  PROVE  FoldLeft(UnescapeChar, [out |-> <<>>, tilde |-> FALSE, bad |-> FALSE], s) \in Reading
<1> DEFINE n == Len(s)
           D == Reading
           g == [p \in D \X Chars |-> UnescapeChar(p[1], p[2])]
           Table(it) == it = [t \in SUBSET (1..n) |-> IF t = {} THEN [out |-> <<>>, tilde |-> FALSE, bad |-> FALSE]
                              ELSE UnescapeChar(it[t \ {Max(t)}], s[Max(t)])]
           iter == CHOOSE it : Table(it)
<1>1. n \in Nat /\ DOMAIN s = 1..n /\ (\A i \in 1..n : s[i] \in Chars) /\ [out |-> <<>>, tilde |-> FALSE, bad |-> FALSE] \in D
  BY DEF Reading
<1>2. FoldLeft(UnescapeChar, [out |-> <<>>, tilde |-> FALSE, bad |-> FALSE], s) = iter[1..n]
  BY <1>1 DEF FoldLeft, MapThenFoldSet
<1>3. g \in [D \X Chars -> D] /\ \A a \in D, b \in Chars : g[<<a, b>>] = UnescapeChar(a, b)
  BY UnescapeType
<1> HIDE DEF g, D
<1>4. PICK h \in [SUBSET (1..n) -> D] : IsTable(h, n, [out |-> <<>>, tilde |-> FALSE, bad |-> FALSE], g, s)
  BY <1>1, <1>3, TableExists
<1>5. ASSUME NEW t \in SUBSET (1..n), t # {}
      PROVE  Max(t) \in 1..n /\ s[Max(t)] \in Chars /\ t \ {Max(t)} \in SUBSET (1..n)
  BY <1>1, <1>5, GreatestNumber
<1>6. Table(h)
  <2>1. ASSUME NEW t \in SUBSET (1..n), t # {}
        PROVE  g[<<h[t \ {Max(t)}], s[Max(t)]>>] = UnescapeChar(h[t \ {Max(t)}], s[Max(t)])
    <3>1. h[t \ {Max(t)}] \in D
      BY <1>5, <2>1
    <3> QED BY <1>3, <1>5, <2>1, <3>1
  <2> QED BY <1>4, <2>1 DEF IsTable
<1>7. Table(iter)
  <2> HIDE DEF Table
  <2> QED BY <1>6
<1> HIDE DEF iter, n
<1>8. ASSUME NEW t \in SUBSET (1..n)
      PROVE  /\ t = {} => iter[t] = [out |-> <<>>, tilde |-> FALSE, bad |-> FALSE]
             /\ t # {} => iter[t] = UnescapeChar(iter[t \ {Max(t)}], s[Max(t)])
  BY <1>7, Zenon
<1> HIDE DEF Table
<1>9. Unfolds(iter, n, [out |-> <<>>, tilde |-> FALSE, bad |-> FALSE], g, D, s)
  BY <1>3, <1>5, <1>8 DEF Unfolds
<1>10. RunsTo(n, D, [out |-> <<>>, tilde |-> FALSE, bad |-> FALSE], g, s, iter[1..n])
  BY <1>1, <1>3, <1>9, UnfoldsRuns
<1>11. iter[1..n] \in D
  BY <1>1, <1>10 DEF RunsTo
<1> QED BY <1>2, <1>11 DEF D

LEMMA NextDigitType ==
  ASSUME NEW m \in Nat \union {-1}, NEW d \in DOMAIN Digit
  PROVE  NextDigit(m, d) \in Nat \union {-1}
<1>1. Digit[d] \in Nat
  BY DigitType
<1>2. m # -1 => 10 * m + Digit[d] \in Nat
  BY <1>1
<1> QED BY <1>2 DEF NextDigit

\* The number a token of digits writes.
LEMMA DigitsFolds ==
  ASSUME NEW s \in Seq(DOMAIN Digit)
  PROVE  FoldLeft(NextDigit, 0, s) \in Nat \union {-1}
<1> DEFINE n == Len(s)
           D == Nat \union {-1}
           g == [p \in D \X (DOMAIN Digit) |-> NextDigit(p[1], p[2])]
           Table(it) == it = [t \in SUBSET (1..n) |-> IF t = {} THEN 0
                              ELSE NextDigit(it[t \ {Max(t)}], s[Max(t)])]
           iter == CHOOSE it : Table(it)
<1>1. n \in Nat /\ DOMAIN s = 1..n /\ (\A i \in 1..n : s[i] \in (DOMAIN Digit)) /\ 0 \in D
  OBVIOUS
<1>2. FoldLeft(NextDigit, 0, s) = iter[1..n]
  BY <1>1 DEF FoldLeft, MapThenFoldSet
<1>3. g \in [D \X (DOMAIN Digit) -> D] /\ \A a \in D, b \in (DOMAIN Digit) : g[<<a, b>>] = NextDigit(a, b)
  BY NextDigitType
<1> HIDE DEF g, D
<1>4. PICK h \in [SUBSET (1..n) -> D] : IsTable(h, n, 0, g, s)
  BY <1>1, <1>3, TableExists
<1>5. ASSUME NEW t \in SUBSET (1..n), t # {}
      PROVE  Max(t) \in 1..n /\ s[Max(t)] \in (DOMAIN Digit) /\ t \ {Max(t)} \in SUBSET (1..n)
  BY <1>1, <1>5, GreatestNumber
<1>6. Table(h)
  <2>1. ASSUME NEW t \in SUBSET (1..n), t # {}
        PROVE  g[<<h[t \ {Max(t)}], s[Max(t)]>>] = NextDigit(h[t \ {Max(t)}], s[Max(t)])
    <3>1. h[t \ {Max(t)}] \in D
      BY <1>5, <2>1
    <3> QED BY <1>3, <1>5, <2>1, <3>1
  <2> QED BY <1>4, <2>1 DEF IsTable
<1>7. Table(iter)
  <2> HIDE DEF Table
  <2> QED BY <1>6
<1> HIDE DEF iter, n
<1>8. ASSUME NEW t \in SUBSET (1..n)
      PROVE  /\ t = {} => iter[t] = 0
             /\ t # {} => iter[t] = NextDigit(iter[t \ {Max(t)}], s[Max(t)])
  BY <1>7, Zenon
<1> HIDE DEF Table
<1>9. Unfolds(iter, n, 0, g, D, s)
  BY <1>3, <1>5, <1>8 DEF Unfolds
<1>10. RunsTo(n, D, 0, g, s, iter[1..n])
  BY <1>1, <1>3, <1>9, UnfoldsRuns
<1>11. iter[1..n] \in D
  BY <1>1, <1>10 DEF RunsTo
<1> QED BY <1>2, <1>11 DEF D

LEMMA PointerType ==
  ASSUME NEW t \in Seq(Chars)
  PROVE  ParsePointer(t) \in Seq(Seq(Chars))
<1>1. CASE t = <<>>
  BY <1>1 DEF ParsePointer
<1>2. CASE t # <<>>
  <2> DEFINE raws == RawTokens(t)
  <2>1. Tail(t) \in Seq(Chars)
    BY <1>2
  <2>2. raws \in Splits
    BY <2>1, SplitFolds DEF RawTokens
  <2>3. ParsePointer(t) = Decode(Unescaped(raws))
    BY <1>2 DEF ParsePointer, Tokens
  <2> HIDE DEF raws
  <2>4. Len(raws) \in Nat /\ \A k \in 1..Len(raws) : raws[k] \in Seq(Chars)
    BY <2>2 DEF Splits
  <2>5. \A k \in 1..Len(raws) : UnescapeToken(raws[k]) \in Reading
    BY <2>4, UnescapeFolds DEF UnescapeToken
  <2>6. Unescaped(raws) \in Seq(Reading)
    BY <2>4, <2>5 DEF Unescaped
  <2>7. ASSUME NEW tokens \in Seq(Reading) PROVE Decode(tokens) \in Seq(Seq(Chars))
    <3>1. Len(tokens) \in Nat /\ \A k \in 1..Len(tokens) : tokens[k].out \in Seq(Chars)
      <4>1. Len(tokens) \in Nat /\ \A k \in 1..Len(tokens) : tokens[k] \in Reading
        OBVIOUS
      <4> QED BY <4>1 DEF Reading
    <3> QED BY <3>1 DEF Decode
  <2> QED BY <2>3, <2>6, <2>7
<1> QED BY <1>1, <1>2

LEMMA IndexType ==
  ASSUME NEW token \in Seq(Chars)
  PROVE  StrictIndex(token) \in Nat \union {-1}
<1>1. CASE \/ token = <<>>
           \/ Len(token) > 1 /\ token[1] = "0"
           \/ \E i \in 1..Len(token) : token[i] \notin DOMAIN Digit
  BY <1>1 DEF StrictIndex
<1>2. CASE ~(\/ token = <<>>
             \/ Len(token) > 1 /\ token[1] = "0"
             \/ \E i \in 1..Len(token) : token[i] \notin DOMAIN Digit)
  <2>1. token \in Seq(DOMAIN Digit)
    BY <1>2
  <2>2. FoldLeft(NextDigit, 0, token) \in Nat \union {-1}
    BY <2>1, DigitsFolds
  <2>3. StrictIndex(token) = FoldLeft(NextDigit, 0, token)
    BY <1>2 DEF StrictIndex
  <2> QED BY <2>2, <2>3
<1> QED BY <1>1, <1>2

(***************************************************************************)
(* Resolution, in a set of trees that is closed under what is done to a    *)
(* node: every place that is resolved leads to a node.                     *)
(***************************************************************************)
Entries(T, keys, kept) == [key : keys, kept : kept, val : T]
Forest(T, keys, kept) ==
  /\ NullNode \in T /\ Seq(Chars) \subseteq keys /\ "owned" \in kept
  /\ \A v \in T : v = Node(v.type, v.num, v.text, v.items) /\ v.items \in Seq(Entries(T, keys, kept))
  /\ \A v \in T, s \in Seq(Entries(T, keys, kept)) : Node(v.type, v.num, v.text, s) \in T

LEMMA ForestNodes ==
  ASSUME NEW T, NEW keys, NEW kept, Forest(T, keys, kept), NEW v \in T
  PROVE  /\ v.items \in Seq(Entries(T, keys, kept)) /\ Len(v.items) \in Nat
         /\ \A i \in 1..Len(v.items) : v.items[i].val \in T /\ v.items[i].key \in keys
<1>1. v.items \in Seq(Entries(T, keys, kept))
  BY DEF Forest
<1>2. Len(v.items) \in Nat /\ \A i \in 1..Len(v.items) : v.items[i] \in Entries(T, keys, kept)
  BY <1>1
<1> QED BY <1>1, <1>2 DEF Entries

LEMMA ChildType ==
  ASSUME NEW T, NEW keys, NEW kept, Forest(T, keys, kept)
  PROVE  \A v \in T, i \in Int : ChildAt(v, i) \in T
<1>1. NullNode \in T
  BY DEF Forest
<1> QED BY <1>1, ForestNodes DEF ChildAt

\* The node at a place.
LEMMA NodeFolds ==
  ASSUME NEW T, NEW keys, NEW kept, Forest(T, keys, kept), NEW root \in T, NEW s \in Seq(Int)
  PROVE  FoldLeft(ChildAt, root, s) \in T
<1> DEFINE n == Len(s)
           D == T
           g == [p \in D \X Int |-> ChildAt(p[1], p[2])]
           Table(it) == it = [t \in SUBSET (1..n) |-> IF t = {} THEN root
                              ELSE ChildAt(it[t \ {Max(t)}], s[Max(t)])]
           iter == CHOOSE it : Table(it)
<1>1. n \in Nat /\ DOMAIN s = 1..n /\ (\A i \in 1..n : s[i] \in Int) /\ root \in D
  OBVIOUS
<1>2. FoldLeft(ChildAt, root, s) = iter[1..n]
  BY <1>1 DEF FoldLeft, MapThenFoldSet
<1>3. g \in [D \X Int -> D] /\ \A a \in D, b \in Int : g[<<a, b>>] = ChildAt(a, b)
  BY ChildType
<1> HIDE DEF g, D
<1>4. PICK h \in [SUBSET (1..n) -> D] : IsTable(h, n, root, g, s)
  BY <1>1, <1>3, TableExists
<1>5. ASSUME NEW t \in SUBSET (1..n), t # {}
      PROVE  Max(t) \in 1..n /\ s[Max(t)] \in Int /\ t \ {Max(t)} \in SUBSET (1..n)
  BY <1>1, <1>5, GreatestNumber
<1>6. Table(h)
  <2>1. ASSUME NEW t \in SUBSET (1..n), t # {}
        PROVE  g[<<h[t \ {Max(t)}], s[Max(t)]>>] = ChildAt(h[t \ {Max(t)}], s[Max(t)])
    <3>1. h[t \ {Max(t)}] \in D
      BY <1>5, <2>1
    <3> QED BY <1>3, <1>5, <2>1, <3>1
  <2> QED BY <1>4, <2>1 DEF IsTable
<1>7. Table(iter)
  <2> HIDE DEF Table
  <2> QED BY <1>6
<1> HIDE DEF iter, n
<1>8. ASSUME NEW t \in SUBSET (1..n)
      PROVE  /\ t = {} => iter[t] = root
             /\ t # {} => iter[t] = ChildAt(iter[t \ {Max(t)}], s[Max(t)])
  BY <1>7, Zenon
<1> HIDE DEF Table
<1>9. Unfolds(iter, n, root, g, D, s)
  BY <1>3, <1>5, <1>8 DEF Unfolds
<1>10. RunsTo(n, D, root, g, s, iter[1..n])
  BY <1>1, <1>3, <1>9, UnfoldsRuns
<1>11. iter[1..n] \in D
  BY <1>1, <1>10 DEF RunsTo
<1> QED BY <1>2, <1>11 DEF D

LEMMA NodeAtType ==
  ASSUME NEW T, NEW keys, NEW kept, Forest(T, keys, kept), NEW root \in T, NEW place \in Seq(Int)
  PROVE  NodeAt(root, place) \in T
BY NodeFolds DEF NodeAt

ResolveKinds == {"Ok", "PathNotFound", "InvalidArrayIndex", "IndexOutOfRange", "TypeMismatch"}

\* A hop fails in one of four ways, or finds a child.
LEMMA HopFinds ==
  ASSUME NEW v, Len(v.items) \in Nat, NEW token \in Seq(Chars)
  PROVE  /\ Hop(v, token).kind \in ResolveKinds
         /\ Hop(v, token).kind = "Ok" => Hop(v, token).at \in 1..Len(v.items)
<1>1. CASE IsObject(v)
  <2>1. Hop(v, token) = HopKey(FindSlot(v, token))
    BY <1>1 DEF Hop, IsObject, IsArray
  <2>2. FindSlot(v, token) # 0 => FindSlot(v, token) \in 1..Len(v.items)
    BY SlotFacts DEF HasKey
  <2> QED BY <2>1, <2>2 DEF HopKey, ResolveKinds
<1>2. CASE IsArray(v)
  <2>1. Hop(v, token) = HopIndex(StrictIndex(token), Len(v.items))
    BY <1>2 DEF Hop, IsObject, IsArray
  <2>2. StrictIndex(token) \in Nat \union {-1}
    BY IndexType
  <2>3. ASSUME NEW x \in Nat \union {-1}, NEW size \in Nat
        PROVE  /\ HopIndex(x, size).kind \in ResolveKinds
               /\ HopIndex(x, size).kind = "Ok" => HopIndex(x, size).at \in 1..size
    BY DEF HopIndex, ResolveKinds
  <2> QED BY <2>1, <2>2, <2>3
<1>3. CASE ~IsObject(v) /\ ~IsArray(v)
  BY <1>3 DEF Hop, ResolveKinds
<1> QED BY <1>1, <1>2, <1>3

LEMMA LeadsOn ==
  ASSUME NEW root, NEW place \in Seq(Int), PlaceIn(root, place),
         NEW at \in Int, at \in 1..Len(NodeAt(root, place).items)
  PROVE  Append(place, at) \in Seq(Int) /\ PlaceIn(root, Append(place, at))
<1> DEFINE p == Append(place, at)
           m == Len(place)
<1>1. p \in Seq(Int) /\ m \in Nat /\ Len(p) = m + 1
  OBVIOUS
<1>2. ASSUME NEW n \in 1..(m + 1)
      PROVE  p[n] \in 1..Len(NodeAt(root, SubSeq(p, 1, n - 1)).items)
  <2>1. SubSeq(p, 1, n - 1) = SubSeq(place, 1, n - 1)
    OBVIOUS
  <2>2. CASE n = m + 1
    <3>1. SubSeq(place, 1, n - 1) = place /\ p[n] = at
      BY <2>2
    <3> QED BY <2>1, <3>1
  <2>3. CASE n # m + 1
    <3>1. p[n] = place[n] /\ n \in 1..m
      BY <2>3
    <3> QED BY <2>1, <3>1 DEF PlaceIn
  <2> QED BY <2>2, <2>3
<1> HIDE DEF p, m
<1> QED BY <1>1, <1>2 DEF PlaceIn, p

Resolved(root) == {r \in [kind : ResolveKinds, place : Seq(Int)] : PlaceIn(root, r.place)}
ResolveToken(root, cur, token) ==
  IF cur.kind # "Ok" THEN cur ELSE ResolveHop(cur, Hop(NodeAt(root, cur.place), token))

LEMMA ResolveType ==
  ASSUME NEW T, NEW keys, NEW kept, Forest(T, keys, kept), NEW root \in T
  PROVE  \A cur \in Resolved(root), token \in Seq(Chars) :
           ResolveToken(root, cur, token) \in Resolved(root)
<1> SUFFICES ASSUME NEW cur \in Resolved(root), NEW token \in Seq(Chars)
             PROVE  ResolveToken(root, cur, token) \in Resolved(root)
  OBVIOUS
<1> DEFINE v == NodeAt(root, cur.place)
           h == Hop(v, token)
<1>1. cur \in [kind : ResolveKinds, place : Seq(Int)] /\ PlaceIn(root, cur.place)
  BY DEF Resolved
<1>2. Len(v.items) \in Nat
  BY <1>1, NodeAtType, ForestNodes
<1>3. h.kind \in ResolveKinds /\ (h.kind = "Ok" => h.at \in 1..Len(v.items))
  <2> HIDE DEF v
  <2> QED BY <1>2, HopFinds
<1>4. CASE cur.kind # "Ok"
  BY <1>4 DEF ResolveToken
<1>5. CASE cur.kind = "Ok" /\ h.kind # "Ok"
  <2>1. ResolveToken(root, cur, token) = [cur EXCEPT !.kind = h.kind]
    BY <1>5 DEF ResolveToken, ResolveHop
  <2> HIDE DEF h, v
  <2> QED BY <1>1, <1>3, <2>1 DEF Resolved
<1>6. CASE cur.kind = "Ok" /\ h.kind = "Ok"
  <2>1. ResolveToken(root, cur, token) = [cur EXCEPT !.place = Append(@, h.at)]
    BY <1>6 DEF ResolveToken, ResolveHop
  <2>2. h.at \in Int /\ h.at \in 1..Len(NodeAt(root, cur.place).items)
    BY <1>2, <1>3, <1>6
  <2> HIDE DEF h, v
  <2>3. Append(cur.place, h.at) \in Seq(Int) /\ PlaceIn(root, Append(cur.place, h.at))
    BY <1>1, <2>2, LeadsOn
  <2> QED BY <1>1, <2>1, <2>3 DEF Resolved
<1> QED BY <1>4, <1>5, <1>6

\* What resolve_node returns.
LEMMA ResolveFolds ==
  ASSUME NEW T, NEW keys, NEW kept, Forest(T, keys, kept), NEW root \in T, NEW s \in Seq(Seq(Chars))
  PROVE  FoldLeft(LAMBDA cur, token : ResolveToken(root, cur, token), [kind |-> "Ok", place |-> <<>>], s) \in Resolved(root)
<1> DEFINE n == Len(s)
           D == Resolved(root)
           g == [p \in D \X Seq(Chars) |-> ResolveToken(root, p[1], p[2])]
           Table(it) == it = [t \in SUBSET (1..n) |-> IF t = {} THEN [kind |-> "Ok", place |-> <<>>]
                              ELSE ResolveToken(root, it[t \ {Max(t)}], s[Max(t)])]
           iter == CHOOSE it : Table(it)
<1>1. n \in Nat /\ DOMAIN s = 1..n /\ (\A i \in 1..n : s[i] \in Seq(Chars)) /\ [kind |-> "Ok", place |-> <<>>] \in D
  <2>1. <<>> \in Seq(Int) /\ PlaceIn(root, <<>>)
    BY DEF PlaceIn
  <2> QED BY <2>1 DEF Resolved, ResolveKinds
<1>2. FoldLeft(LAMBDA cur, token : ResolveToken(root, cur, token), [kind |-> "Ok", place |-> <<>>], s) = iter[1..n]
  BY <1>1 DEF FoldLeft, MapThenFoldSet
<1>3. g \in [D \X Seq(Chars) -> D] /\ \A a \in D, b \in Seq(Chars) : g[<<a, b>>] = ResolveToken(root, a, b)
  BY ResolveType
<1> HIDE DEF g, D
<1>4. PICK h \in [SUBSET (1..n) -> D] : IsTable(h, n, [kind |-> "Ok", place |-> <<>>], g, s)
  BY <1>1, <1>3, TableExists
<1>5. ASSUME NEW t \in SUBSET (1..n), t # {}
      PROVE  Max(t) \in 1..n /\ s[Max(t)] \in Seq(Chars) /\ t \ {Max(t)} \in SUBSET (1..n)
  BY <1>1, <1>5, GreatestNumber
<1>6. Table(h)
  <2>1. ASSUME NEW t \in SUBSET (1..n), t # {}
        PROVE  g[<<h[t \ {Max(t)}], s[Max(t)]>>] = ResolveToken(root, h[t \ {Max(t)}], s[Max(t)])
    <3>1. h[t \ {Max(t)}] \in D
      BY <1>5, <2>1
    <3> QED BY <1>3, <1>5, <2>1, <3>1
  <2> QED BY <1>4, <2>1 DEF IsTable
<1>7. Table(iter)
  <2> HIDE DEF Table
  <2> QED BY <1>6
<1> HIDE DEF iter, n
<1>8. ASSUME NEW t \in SUBSET (1..n)
      PROVE  /\ t = {} => iter[t] = [kind |-> "Ok", place |-> <<>>]
             /\ t # {} => iter[t] = ResolveToken(root, iter[t \ {Max(t)}], s[Max(t)])
  BY <1>7, Zenon
<1> HIDE DEF Table
<1>9. Unfolds(iter, n, [kind |-> "Ok", place |-> <<>>], g, D, s)
  BY <1>3, <1>5, <1>8 DEF Unfolds
<1>10. RunsTo(n, D, [kind |-> "Ok", place |-> <<>>], g, s, iter[1..n])
  BY <1>1, <1>3, <1>9, UnfoldsRuns
<1>11. iter[1..n] \in D
  BY <1>1, <1>10 DEF RunsTo
<1> QED BY <1>2, <1>11 DEF D

\* A place that is resolved leads to a node of the document, hop by hop.
LEMMA ResolveLeads ==
  ASSUME NEW T, NEW keys, NEW kept, Forest(T, keys, kept), NEW root \in T, NEW ptr \in Seq(Seq(Chars))
  PROVE  /\ ResolveNode(root, ptr).kind \in ResolveKinds
         /\ ResolveNode(root, ptr).place \in Seq(Int) /\ PlaceIn(root, ResolveNode(root, ptr).place)
<1>1. ResolveNode(root, ptr) =
        FoldLeft(LAMBDA cur, token : ResolveToken(root, cur, token), [kind |-> "Ok", place |-> <<>>], ptr)
  BY DEF ResolveNode, ResolveToken
<1>2. ResolveNode(root, ptr) \in Resolved(root)
  BY <1>1, ResolveFolds
<1> QED BY <1>2 DEF Resolved

(***************************************************************************)
(* The operations, in a set of shadows: a forest that has every clone of a *)
(* document and every tree that an assignment at a place makes of two.     *)
(***************************************************************************)
Shadows(T, docs, keys, kept) ==
  /\ Forest(T, keys, kept) /\ T \subseteq docs
  /\ \A v \in docs : JsonClone(v) \in T
  /\ \A v \in T, new \in T, place \in Seq(Int) : PlaceIn(v, place) => NodePlaced(v, place, new) \in T

\* A slot of a node p that is resolved.
SlotIn(p, slot, mode) ==
  /\ slot.token \in Seq(Chars)
  /\ IsObject(p) /\ mode = "Existing" => HasKey(p, slot.token)
  /\ ~IsObject(p) => /\ slot.index \in 0..Len(p.items)
                     /\ mode = "Existing" => slot.index < Len(p.items)

LEMMA FinalFinds ==
  ASSUME NEW p, Len(p.items) \in Nat, NEW place, NEW token \in Seq(Chars),
         NEW mode \in {"Insert", "Existing"}
  PROVE  /\ FinalSlot(p, place, token, mode).kind \in ResolveKinds
         /\ FinalSlot(p, place, token, mode).parent = place
         /\ FinalSlot(p, place, token, mode).kind = "Ok" =>
              SlotIn(p, FinalSlot(p, place, token, mode), mode)
<1>1. CASE IsObject(p)
  <2>1. FinalSlot(p, place, token, mode) =
          Slot(IF mode = "Existing" /\ ~HasKey(p, token) THEN "PathNotFound" ELSE "Ok", place, token, 0)
    BY <1>1 DEF FinalSlot, IsObject, IsArray
  <2> QED BY <1>1, <2>1 DEF Slot, SlotIn, ResolveKinds
<1>2. CASE IsArray(p)
  <2> DEFINE index == StrictIndex(token)
             size  == Len(p.items)
             slot  == ArraySlot(size, place, token, index, mode)
  <2>1. FinalSlot(p, place, token, mode) = slot /\ ~IsObject(p)
    BY <1>2 DEF FinalSlot, IsObject, IsArray
  <2>2. index \in Nat \union {-1} /\ size \in Nat
    BY IndexType
  <2> HIDE DEF index, size
  <2>3. CASE token = <<"-">>
    <3>1. slot = Slot(IF mode = "Insert" THEN "Ok" ELSE "InvalidArrayIndex", place, token, size)
      BY <2>3 DEF ArraySlot
    <3>2. slot.kind \in ResolveKinds /\ slot.parent = place /\ (slot.kind = "Ok" => mode = "Insert")
          /\ slot.token = token /\ slot.index = size
      BY <3>1 DEF Slot, ResolveKinds
    <3> QED BY <2>1, <2>2, <3>2 DEF SlotIn, size
  <2>4. CASE token # <<"-">> /\ index = -1
    <3>1. slot = Slot("InvalidArrayIndex", place, token, 0)
      BY <2>4 DEF ArraySlot
    <3> QED BY <2>1, <3>1 DEF Slot, ResolveKinds
  <2>5. CASE token # <<"-">> /\ index # -1
    <3>1. slot = Slot(IF index > size \/ (mode = "Existing" /\ index = size)
                      THEN "IndexOutOfRange" ELSE "Ok", place, token, index)
      BY <2>5 DEF ArraySlot
    <3>2. /\ slot.kind \in ResolveKinds /\ slot.parent = place
          /\ slot.token = token /\ slot.index = index
          /\ slot.kind = "Ok" => ~(index > size) /\ ~(mode = "Existing" /\ index = size)
      BY <3>1 DEF Slot, ResolveKinds
    <3>3. slot.kind = "Ok" => slot.index \in 0..size /\ (mode = "Existing" => slot.index < size)
      BY <2>2, <2>5, <3>2
    <3> QED BY <2>1, <3>2, <3>3 DEF SlotIn, size
  <2> QED BY <2>3, <2>4, <2>5
<1>3. CASE ~IsObject(p) /\ ~IsArray(p)
  <2>1. FinalSlot(p, place, token, mode) = Slot("TypeMismatch", place, token, 0)
    BY <1>3 DEF FinalSlot
  <2> QED BY <2>1 DEF Slot, ResolveKinds
<1> QED BY <1>1, <1>2, <1>3

\* A slot that is resolved is one of a node of the document.
LEMMA SlotFinds ==
  ASSUME NEW T, NEW keys, NEW kept, Forest(T, keys, kept), NEW root \in T,
         NEW ptr \in Seq(Seq(Chars)), ptr # <<>>, NEW mode \in {"Insert", "Existing"}
  PROVE  /\ ResolveSlot(root, ptr, mode).kind \in ResolveKinds
         /\ ResolveSlot(root, ptr, mode).parent \in Seq(Int)
         /\ PlaceIn(root, ResolveSlot(root, ptr, mode).parent)
         /\ NodeAt(root, ResolveSlot(root, ptr, mode).parent) \in T
         /\ ResolveSlot(root, ptr, mode).kind = "Ok" =>
              SlotIn(NodeAt(root, ResolveSlot(root, ptr, mode).parent), ResolveSlot(root, ptr, mode), mode)
<1> DEFINE up == ResolveNode(root, Front(ptr))
           token == Last(ptr)
           slot == ResolveSlot(root, ptr, mode)
           p == NodeAt(root, up.place)
<1>1. Front(ptr) \in Seq(Seq(Chars)) /\ token \in Seq(Chars)
  <2>1. Last(ptr) \in Seq(Chars) /\ Len(ptr) \in Nat \ {0}
    <3>1. <<>> \in Seq(Chars)
      OBVIOUS
    <3> QED BY <3>1, NewLast
  <2>2. SubSeq(ptr, 1, Len(ptr) - 1) \in Seq(Seq(Chars))
    BY <2>1
  <2> QED BY <2>1, <2>2 DEF Front
<1>2. up.kind \in ResolveKinds /\ up.place \in Seq(Int) /\ PlaceIn(root, up.place)
  BY <1>1, ResolveLeads
<1>3. p \in T /\ Len(p.items) \in Nat
  BY <1>2, NodeAtType, ForestNodes
<1>4. slot = IF up.kind # "Ok" THEN Slot(up.kind, up.place, token, 0)
             ELSE FinalSlot(p, up.place, token, mode)
  BY DEF ResolveSlot, SlotUnder
<1> HIDE DEF up, token, slot
<1>5. CASE up.kind # "Ok"
  <2>1. slot.kind = up.kind /\ slot.parent = up.place
    BY <1>4, <1>5 DEF Slot
  <2> QED BY <1>2, <1>3, <1>5, <2>1 DEF slot
<1>6. CASE up.kind = "Ok"
  <2>1. slot = FinalSlot(p, up.place, token, mode)
    BY <1>4, <1>6
  <2>2. /\ slot.kind \in ResolveKinds /\ slot.parent = up.place
        /\ slot.kind = "Ok" => SlotIn(p, slot, mode)
    <3> HIDE DEF p
    <3> QED BY <1>1, <1>3, <2>1, FinalFinds
  <2> QED BY <1>2, <1>3, <2>2 DEF slot
<1> QED BY <1>5, <1>6

(***************************************************************************)
(* Edits of one node.                                                      *)
(***************************************************************************)
LEMMA Edited ==
  ASSUME NEW T, NEW keys, NEW kept, Forest(T, keys, kept), NEW p \in T, NEW s \in Seq(Entries(T, keys, kept))
  PROVE  [p EXCEPT !.items = s] \in T
<1>1. p = Node(p.type, p.num, p.text, p.items) /\ Node(p.type, p.num, p.text, s) \in T
  BY DEF Forest
<1>2. [p EXCEPT !.items = s] = Node(p.type, p.num, p.text, s)
  <2> DEFINE a == p.type
             b == p.num
             c == p.text
             d == p.items
  <2>1. p = Node(a, b, c, d)
    BY <1>1
  <2> HIDE DEF a, b, c, d
  <2>2. [p EXCEPT !.items = s] = Node(a, b, c, s)
    BY <2>1 DEF Node
  <2> QED BY <2>2 DEF a, b, c
<1> QED BY <1>1, <1>2

LEMMA EntryType ==
  ASSUME NEW T, NEW keys, NEW kept, Forest(T, keys, kept), NEW key \in Seq(Chars), NEW val \in T
  PROVE  Keyed(key, "owned", val) \in Entries(T, keys, kept)
BY DEF Forest, Entries, Keyed

LEMMA InsertKeyType ==
  ASSUME NEW T, NEW keys, NEW kept, Forest(T, keys, kept), NEW p \in T, NEW key \in Seq(Chars), NEW val \in T
  PROVE  InsertKey(p, key, val) \in T
<1> DEFINE E == Entries(T, keys, kept)
           k == FindSlot(p, key)
<1>1. p.items \in Seq(E) /\ Len(p.items) \in Nat
  BY ForestNodes
<1>2. CASE HasKey(p, key)
  <2>1. k \in 1..Len(p.items)
    BY <1>1, <1>2, SlotFacts
  <2> DEFINE e == [p.items[k] EXCEPT !.val = val]
             s == [p.items EXCEPT ![k] = e]
  <2>2. p.items[k] \in E
    BY <1>1, <2>1
  <2>3. e \in E
    BY <2>2 DEF Entries
  <2> HIDE DEF E, e, k
  <2>4. s \in Seq(E)
    BY <1>1, <2>1, <2>3
  <2>5. InsertKey(p, key, val) = [p EXCEPT !.items = s]
    BY <1>2 DEF InsertKey, Overwritten, e, k
  <2> HIDE DEF s
  <2> QED BY <2>4, <2>5, Edited DEF E
<1>3. CASE ~HasKey(p, key)
  <2>1. Append(p.items, Keyed(key, "owned", val)) \in Seq(E)
    BY <1>1, EntryType
  <2>2. InsertKey(p, key, val) = [p EXCEPT !.items = Append(p.items, Keyed(key, "owned", val))]
    BY <1>3 DEF InsertKey
  <2> DEFINE s == Append(p.items, Keyed(key, "owned", val))
  <2> HIDE DEF s
  <2>3. [p EXCEPT !.items = s] \in T
    BY <2>1, Edited DEF s
  <2> QED BY <2>2, <2>3 DEF s
<1> QED BY <1>2, <1>3

LEMMA RemoveType ==
  ASSUME NEW T, NEW keys, NEW kept, Forest(T, keys, kept), NEW p \in T, NEW at \in 1..Len(p.items)
  PROVE  [p EXCEPT !.items = RemoveAt(@, at)] \in T
<1> DEFINE E == Entries(T, keys, kept)
           s == p.items
<1>1. s \in Seq(E) /\ Len(s) \in Nat /\ at \in 1..Len(s)
  BY ForestNodes
<1> HIDE DEF E, s
<1>2. SubSeq(s, 1, at - 1) \in Seq(E) /\ SubSeq(s, at + 1, Len(s)) \in Seq(E)
  BY <1>1
<1>3. RemoveAt(s, at) \in Seq(E)
  BY <1>2 DEF RemoveAt
<1> QED BY <1>3, Edited DEF E, s

LEMMA InsertType ==
  ASSUME NEW T, NEW keys, NEW kept, Forest(T, keys, kept), NEW p \in T, NEW index \in 0..Len(p.items), NEW val \in T
  PROVE  InsertIndex(p, index, val) \in T
<1> DEFINE E == Entries(T, keys, kept)
           s == p.items
           e == Element(val)
<1>1. s \in Seq(E) /\ Len(s) \in Nat /\ index \in 0..Len(s)
  BY ForestNodes
<1>2. e \in E
  <2>1. <<>> \in Seq(Chars)
    OBVIOUS
  <2> QED BY <2>1, EntryType DEF Element
<1>3. InsertIndex(p, index, val) = [p EXCEPT !.items = InsertAt(s, index + 1, e)]
  BY DEF InsertIndex
<1> HIDE DEF E, s, e
<1>4. SubSeq(s, 1, (index + 1) - 1) \in Seq(E) /\ SubSeq(s, index + 1, Len(s)) \in Seq(E) /\ <<e>> \in Seq(E)
  BY <1>1, <1>2
<1>5. InsertAt(s, index + 1, e) \in Seq(E)
  BY <1>4 DEF InsertAt
<1> QED BY <1>3, <1>5, Edited DEF E

LEMMA LinkType ==
  ASSUME NEW T, NEW keys, NEW kept, Forest(T, keys, kept), NEW p \in T, NEW slot, NEW mode, SlotIn(p, slot, mode), NEW val \in T
  PROVE  Link(p, slot, val) \in T
<1>1. CASE IsObject(p)
  BY <1>1, InsertKeyType DEF Link, SlotIn
<1>2. CASE ~IsObject(p)
  BY <1>2, InsertType DEF Link, SlotIn
<1> QED BY <1>1, <1>2

LEMMA ExistingTypes ==
  ASSUME NEW T, NEW keys, NEW kept, Forest(T, keys, kept), NEW p \in T, NEW slot, SlotIn(p, slot, "Existing"), NEW val \in T
  PROVE  /\ UnlinkFrom(p, slot) \in T /\ Overwrite(p, slot, val) \in T /\ SlotValue(p, slot) \in T
<1>1. p.items \in Seq(Entries(T, keys, kept)) /\ Len(p.items) \in Nat
      /\ \A i \in 1..Len(p.items) : p.items[i].val \in T
  BY ForestNodes
<1>2. CASE IsObject(p)
  <2>1. FindSlot(p, slot.token) \in 1..Len(p.items) /\ HasKey(p, slot.token)
    BY <1>1, <1>2, SlotFacts DEF SlotIn
  <2>2. UnlinkFrom(p, slot) = [p EXCEPT !.items = RemoveAt(@, FindSlot(p, slot.token))]
    BY <1>2, <2>1 DEF UnlinkFrom, RemoveKey
  <2>3. UnlinkFrom(p, slot) \in T
    BY <2>1, <2>2, RemoveType
  <2>4. SlotValue(p, slot) \in T
    BY <1>1, <1>2, <2>1 DEF SlotValue, AtKey
  <2> QED BY <1>2, <2>3, <2>4, InsertKeyType DEF Overwrite, SlotIn
<1>3. CASE ~IsObject(p)
  <2>1. slot.index + 1 \in 1..Len(p.items)
    BY <1>1, <1>3 DEF SlotIn
  <2>2. UnlinkFrom(p, slot) \in T
    BY <1>3, <2>1, RemoveType DEF UnlinkFrom, EraseIndex
  <2>3. SlotValue(p, slot) \in T
    BY <1>1, <1>3, <2>1 DEF SlotValue
  <2>4. Overwrite(p, slot, val) \in T
    <3> DEFINE E == Entries(T, keys, kept)
               k == slot.index + 1
               e == [p.items[k] EXCEPT !.val = val]
               s == [p.items EXCEPT ![k] = e]
    <3>1. p.items[k] \in E
      BY <1>1, <2>1
    <3>2. e \in E
      BY <3>1 DEF Entries
    <3>3. Overwrite(p, slot, val) = [p EXCEPT !.items = s]
      BY <1>3 DEF Overwrite
    <3>4. k \in 1..Len(p.items) /\ p.items \in Seq(E)
      BY <1>1, <2>1
    <3> HIDE DEF e, k, E
    <3>5. s \in Seq(E)
      BY <3>2, <3>4
    <3> HIDE DEF s
    <3> QED BY <3>3, <3>5, Edited DEF E
  <2> QED BY <2>2, <2>3, <2>4
<1> QED BY <1>2, <1>3

(***************************************************************************)
(* The operations: each fails in one of a few ways, none of them for its   *)
(* shape, or returns a shadow.                                             *)
(***************************************************************************)
OpKinds    == ResolveKinds \union {"RootOperation", "TestFailed", "MoveIntoDescendant"}
Results(T) == [kind : OpKinds, doc : T]

LEMMA AppliedType ==
  ASSUME NEW T, NEW doc \in T, NEW kind \in OpKinds
  PROVE  Applied(kind, doc) \in Results(T)
BY DEF Applied, Results

LEMMA OkApplied ==
  ASSUME NEW T, NEW doc \in T
  PROVE  Applied("Ok", doc) \in Results(T)
BY AppliedType DEF OpKinds, ResolveKinds

LEMMA InsertAtType ==
  ASSUME NEW T, NEW docs, NEW keys, NEW kept, Shadows(T, docs, keys, kept),
         NEW root \in T, NEW ptr \in Seq(Seq(Chars)), NEW val \in T
  PROVE  InsertAtPointer(root, ptr, val) \in Results(T)
<1>1. CASE ptr = <<>>
  BY <1>1, OkApplied DEF InsertAtPointer
<1>2. CASE ptr # <<>>
  <2> DEFINE slot == ResolveSlot(root, ptr, "Insert")
             p == NodeAt(root, slot.parent)
  <2>1. /\ slot.kind \in ResolveKinds /\ slot.parent \in Seq(Int) /\ PlaceIn(root, slot.parent) /\ p \in T
        /\ slot.kind = "Ok" => SlotIn(p, slot, "Insert")
    BY <1>2, SlotFinds DEF Shadows
  <2>2. InsertAtPointer(root, ptr, val) =
          IF slot.kind # "Ok" THEN Applied(slot.kind, root)
          ELSE Applied("Ok", NodePlaced(root, slot.parent, Link(p, slot, val)))
    BY <1>2 DEF InsertAtPointer, InsertSlot
  <2> HIDE DEF slot, p
  <2>3. CASE slot.kind # "Ok"
    BY <2>1, <2>2, <2>3, AppliedType DEF OpKinds
  <2>4. CASE slot.kind = "Ok"
    <3>1. Link(p, slot, val) \in T
      BY <2>1, <2>4, LinkType DEF Shadows
    <3>2. NodePlaced(root, slot.parent, Link(p, slot, val)) \in T
      BY <2>1, <3>1 DEF Shadows
    <3> QED BY <2>2, <2>4, <3>2, OkApplied
  <2> QED BY <2>3, <2>4
<1> QED BY <1>1, <1>2

LEMMA UnlinkType ==
  ASSUME NEW T, NEW docs, NEW keys, NEW kept, Shadows(T, docs, keys, kept), NEW root \in T, NEW slot,
         slot.parent \in Seq(Int), PlaceIn(root, slot.parent), NodeAt(root, slot.parent) \in T,
         SlotIn(NodeAt(root, slot.parent), slot, "Existing")
  PROVE  Unlink(root, slot) \in T /\ SlotValue(NodeAt(root, slot.parent), slot) \in T
<1> DEFINE p == NodeAt(root, slot.parent)
<1>1. p \in T /\ SlotIn(p, slot, "Existing") /\ Forest(T, keys, kept)
  BY DEF Shadows
<1>2. Unlink(root, slot) = NodePlaced(root, slot.parent, UnlinkFrom(p, slot))
  BY DEF Unlink
<1> HIDE DEF p
<1>3. UnlinkFrom(p, slot) \in T /\ SlotValue(p, slot) \in T
  BY <1>1, ExistingTypes
<1>4. NodePlaced(root, slot.parent, UnlinkFrom(p, slot)) \in T
  BY <1>3 DEF Shadows
<1> QED BY <1>2, <1>3, <1>4 DEF p

LEMMA RemoveOpType ==
  ASSUME NEW T, NEW docs, NEW keys, NEW kept, Shadows(T, docs, keys, kept),
         NEW root \in T, NEW ptr \in Seq(Seq(Chars))
  PROVE  ApplyRemove(root, ptr) \in Results(T)
<1>1. CASE ptr = <<>>
  BY <1>1, AppliedType DEF ApplyRemove, OpKinds
<1>2. CASE ptr # <<>>
  <2> DEFINE slot == ResolveSlot(root, ptr, "Existing")
  <2>1. /\ slot.kind \in ResolveKinds /\ slot.parent \in Seq(Int) /\ PlaceIn(root, slot.parent)
        /\ NodeAt(root, slot.parent) \in T
        /\ slot.kind = "Ok" => SlotIn(NodeAt(root, slot.parent), slot, "Existing")
    BY <1>2, SlotFinds DEF Shadows
  <2>2. ApplyRemove(root, ptr) = IF slot.kind # "Ok" THEN Applied(slot.kind, root)
                                 ELSE Applied("Ok", Unlink(root, slot))
    BY <1>2 DEF ApplyRemove, RemoveSlot
  <2> HIDE DEF slot
  <2>3. CASE slot.kind # "Ok"
    BY <2>1, <2>2, <2>3, AppliedType DEF OpKinds
  <2>4. CASE slot.kind = "Ok"
    <3>1. Unlink(root, slot) \in T
      BY <2>1, <2>4, UnlinkType
    <3> QED BY <2>2, <2>4, <3>1, OkApplied
  <2> QED BY <2>3, <2>4
<1> QED BY <1>1, <1>2

LEMMA ReplaceOpType ==
  ASSUME NEW T, NEW docs, NEW keys, NEW kept, Shadows(T, docs, keys, kept),
         NEW root \in T, NEW ptr \in Seq(Seq(Chars)), NEW val \in T
  PROVE  ApplyReplace(root, ptr, val) \in Results(T)
<1>1. CASE ptr = <<>>
  BY <1>1, OkApplied DEF ApplyReplace
<1>2. CASE ptr # <<>>
  <2> DEFINE slot == ResolveSlot(root, ptr, "Existing")
             p == NodeAt(root, slot.parent)
  <2>1. /\ slot.kind \in ResolveKinds /\ slot.parent \in Seq(Int) /\ PlaceIn(root, slot.parent) /\ p \in T
        /\ slot.kind = "Ok" => SlotIn(p, slot, "Existing")
    BY <1>2, SlotFinds DEF Shadows
  <2>2. ApplyReplace(root, ptr, val) =
          IF slot.kind # "Ok" THEN Applied(slot.kind, root)
          ELSE Applied("Ok", NodePlaced(root, slot.parent, Overwrite(p, slot, val)))
    BY <1>2 DEF ApplyReplace, ReplaceSlot
  <2> HIDE DEF slot, p
  <2>3. CASE slot.kind # "Ok"
    BY <2>1, <2>2, <2>3, AppliedType DEF OpKinds
  <2>4. CASE slot.kind = "Ok"
    <3>1. Overwrite(p, slot, val) \in T
      BY <2>1, <2>4, ExistingTypes DEF Shadows
    <3>2. NodePlaced(root, slot.parent, Overwrite(p, slot, val)) \in T
      BY <2>1, <3>1 DEF Shadows
    <3> QED BY <2>2, <2>4, <3>2, OkApplied
  <2> QED BY <2>3, <2>4
<1> QED BY <1>1, <1>2

LEMMA TestOpType ==
  ASSUME NEW T, NEW docs, NEW keys, NEW kept, Shadows(T, docs, keys, kept),
         NEW root \in T, NEW ptr \in Seq(Seq(Chars)), NEW val
  PROVE  ApplyTest(root, ptr, val) \in Results(T)
<1>1. ResolveNode(root, ptr).kind \in OpKinds
  BY ResolveLeads DEF Shadows, OpKinds
<1>2. "Ok" \in OpKinds /\ "TestFailed" \in OpKinds
  BY DEF OpKinds, ResolveKinds
<1> QED BY <1>1, <1>2, AppliedType DEF ApplyTest, TestAt

LEMMA CopyOpType ==
  ASSUME NEW T, NEW docs, NEW keys, NEW kept, Shadows(T, docs, keys, kept),
         NEW root \in T, NEW from \in Seq(Seq(Chars)), NEW ptr \in Seq(Seq(Chars))
  PROVE  ApplyCopy(root, from, ptr) \in Results(T)
<1> DEFINE r == ResolveNode(root, from)
           c == JsonClone(NodeAt(root, r.place))
<1>1. r.kind \in OpKinds /\ r.place \in Seq(Int)
  BY ResolveLeads DEF Shadows, OpKinds
<1>2. NodeAt(root, r.place) \in T
  BY <1>1, NodeAtType DEF Shadows
<1>3. c \in T
  BY <1>2 DEF Shadows
<1>4. ApplyCopy(root, from, ptr) = IF r.kind # "Ok" THEN Applied(r.kind, root)
                                   ELSE InsertAtPointer(root, ptr, c)
  BY DEF ApplyCopy, CopyFrom
<1> HIDE DEF r, c
<1> QED BY <1>1, <1>3, <1>4, AppliedType, InsertAtType

LEMMA MoveOpType ==
  ASSUME NEW T, NEW docs, NEW keys, NEW kept, Shadows(T, docs, keys, kept),
         NEW root \in T, NEW from \in Seq(Seq(Chars)), NEW ptr \in Seq(Seq(Chars))
  PROVE  ApplyMove(root, from, ptr) \in Results(T)
<1>1. CASE from = <<>>
  BY <1>1, AppliedType DEF ApplyMove, OpKinds
<1>2. CASE from # <<>>
  <2> DEFINE slot == ResolveSlot(root, from, "Existing")
             gone == Unlink(root, slot)
             val == SlotValue(NodeAt(root, slot.parent), slot)
  <2>1. /\ slot.kind \in ResolveKinds /\ slot.parent \in Seq(Int) /\ PlaceIn(root, slot.parent)
        /\ NodeAt(root, slot.parent) \in T
        /\ slot.kind = "Ok" => SlotIn(NodeAt(root, slot.parent), slot, "Existing")
    BY <1>2, SlotFinds DEF Shadows
  <2>2. slot.kind = "Ok" => gone \in T /\ val \in T
    <3> HIDE DEF slot
    <3> QED BY <2>1, UnlinkType
  <2>3. ApplyMove(root, from, ptr) =
          IF slot.kind # "Ok" THEN Applied(slot.kind, root)
          ELSE IF from = ptr THEN Applied("Ok", root)
          ELSE IF IsProperPrefix(from, ptr) THEN Applied("MoveIntoDescendant", root)
          ELSE InsertAtPointer(gone, ptr, val)
    BY <1>2 DEF ApplyMove, MoveSlot
  <2>4. slot.kind \in OpKinds /\ "MoveIntoDescendant" \in OpKinds
    BY <2>1 DEF OpKinds
  <2> HIDE DEF slot, gone, val
  <2>5. slot.kind = "Ok" => InsertAtPointer(gone, ptr, val) \in Results(T)
    BY <2>2, InsertAtType
  <2> QED BY <2>3, <2>4, <2>5, AppliedType, OkApplied
<1> QED BY <1>1, <1>2

\* An operation that passed the structural scan.
LEMMA ApplyType ==
  ASSUME NEW T, NEW docs, NEW keys, NEW kept, Shadows(T, docs, keys, kept), NEW root \in T,
         NEW op, ShapeError(op) = "Ok", op.path.node.text \in Seq(Chars),
         op.from.node.text \in Seq(Chars), op.value.node \in docs
  PROVE  ApplyOne(root, op) \in Results(T)
<1> DEFINE name == op.op.node.text
           ptr  == ParsePointer(op.path.node.text)
           from == ParsePointer(op.from.node.text)
<1>1. /\ op.object /\ op.op.tag = "string" /\ name \in KnownOps /\ op.path.tag = "string"
      /\ PointerOk(op.path.node.text)
      /\ name \in {<<"add">>, <<"replace">>, <<"test">>} => op.value.tag # "absent"
      /\ name \notin {<<"add">>, <<"replace">>, <<"test">>, <<"remove">>} =>
           op.from.tag = "string" /\ PointerOk(op.from.node.text)
  BY DEF ShapeError
<1>2. ApplyOne(root, op) = ApplyNamed(root, op, name, ptr)
  BY <1>1 DEF ApplyOne
<1>3. ptr \in Seq(Seq(Chars)) /\ from \in Seq(Seq(Chars))
  BY PointerType
<1>4. JsonClone(op.value.node) \in T
  BY DEF Shadows
<1>5. CASE name = <<"remove">>
  <2>1. ApplyOne(root, op) = ApplyRemove(root, ptr)
    BY <1>2, <1>5 DEF ApplyNamed
  <2> HIDE DEF ptr
  <2> QED BY <1>3, <2>1, RemoveOpType
<1>6. CASE name = <<"add">>
  <2>1. ApplyOne(root, op) = InsertAtPointer(root, ptr, JsonClone(op.value.node))
    BY <1>1, <1>2, <1>6 DEF ApplyNamed, ApplyValued
  <2> HIDE DEF ptr
  <2> QED BY <1>3, <1>4, <2>1, InsertAtType
<1>7. CASE name = <<"replace">>
  <2>1. ApplyOne(root, op) = ApplyReplace(root, ptr, JsonClone(op.value.node))
    BY <1>1, <1>2, <1>7 DEF ApplyNamed, ApplyValued
  <2> HIDE DEF ptr
  <2> QED BY <1>3, <1>4, <2>1, ReplaceOpType
<1>8. CASE name = <<"test">>
  <2>1. ApplyOne(root, op) = ApplyTest(root, ptr, op.value.node)
    BY <1>1, <1>2, <1>8 DEF ApplyNamed, ApplyValued
  <2> HIDE DEF ptr
  <2> QED BY <1>3, <2>1, TestOpType
<1>9. CASE name = <<"copy">>
  <2>1. ApplyOne(root, op) = ApplyCopy(root, from, ptr)
    BY <1>1, <1>2, <1>9 DEF ApplyNamed, ApplySourced
  <2> HIDE DEF ptr, from
  <2> QED BY <1>3, <2>1, CopyOpType
<1>10. CASE name = <<"move">>
  <2>1. ApplyOne(root, op) = ApplyMove(root, from, ptr)
    BY <1>1, <1>2, <1>10 DEF ApplyNamed, ApplySourced
  <2> HIDE DEF ptr, from
  <2> QED BY <1>3, <2>1, MoveOpType
<1> QED BY <1>1, <1>5, <1>6, <1>7, <1>8, <1>9, <1>10 DEF KnownOps

(***************************************************************************)
(* The shadow of a call of patch_result, in documents that hold all that   *)
(* the call meets: its targets, the values of its patches, what it builds. *)
(***************************************************************************)
Documents(docs, keys, kept) ==
  /\ Shadows(docs, docs, keys, kept) /\ Targets \subseteq docs
  /\ \A p \in Patches : \A i \in 1..Len(p) : p[i].value.node \in docs

\* The shadow is in T as long as there is one; a target it was moved to is.
ShadowInv(T, docs) ==
  /\ target \in docs
  /\ pc = "apply" => shadow \in T
  /\ pc = "returned" /\ outcome.kind = "Ok" /\ patch # <<>> => target \in T

LEMMA TextType ==
  ASSUME NEW p \in Patches, NEW i \in 1..Len(p)
  PROVE  p[i].path.node.text \in Seq(Chars) /\ p[i].from.node.text \in Seq(Chars)
<1> DEFINE t == p[i].path.node.text
           f == p[i].from.node.text
<1>1. t \in Seq(Characters(t)) /\ f \in Seq(Characters(f))
  BY PatchAssumption DEF IsText
<1>2. Characters(t) \subseteq Chars /\ Characters(f) \subseteq Chars
  BY DEF OpChars, PatchChars, Chars
<1> HIDE DEF t, f
<1>3. ASSUME NEW S, NEW R, S \subseteq R, NEW s \in Seq(S) PROVE s \in Seq(R)
  BY <1>3
<1> QED BY <1>1, <1>2, <1>3 DEF t, f

\* An operation of a patch that passed the scan, at a shadow.
LEMMA AppliesTo ==
  ASSUME NEW T, NEW docs, NEW keys, NEW kept, NEW here,
         Shadows(T, docs, keys, here), Documents(docs, keys, kept),
         PatchInv, Pending, shadow \in T
  PROVE  ApplyOne(shadow, CurrentOp) \in Results(T)
<1>1. patch \in Patches /\ next \in 1..Len(patch) /\ Malformed = {}
  BY DEF Pending, PatchInv
<1>2. ShapeError(patch[next]) = "Ok"
  BY <1>1 DEF Malformed
<1>3. patch[next].path.node.text \in Seq(Chars) /\ patch[next].from.node.text \in Seq(Chars)
  BY <1>1, TextType
<1>4. patch[next].value.node \in docs
  BY <1>1 DEF Documents
<1> DEFINE op == patch[next]
<1> HIDE DEF op
<1>5. ApplyOne(shadow, op) \in Results(T)
  BY <1>2, <1>3, <1>4, ApplyType DEF op
<1> QED BY <1>5 DEF CurrentOp, op

LEMMA ShadowStart ==
  ASSUME NEW T, NEW docs, NEW keys, NEW kept, Documents(docs, keys, kept), PatchInit
  PROVE  ShadowInv(T, docs)
BY DEF PatchInit, PatchCalled, Documents, ShadowInv

LEMMA ShadowStep ==
  ASSUME NEW T, NEW docs, NEW keys, NEW kept, NEW here,
         Shadows(T, docs, keys, here), Documents(docs, keys, kept),
         PatchInv, ShadowInv(T, docs), [PatchNext]_patchVars
  PROVE  ShadowInv(T, docs)'
<1>1. ASSUME NEW k, NEW i, Return(k, i), k = "Ok" => patch = <<>>
      PROVE  ShadowInv(T, docs)'
  BY <1>1 DEF Return, ShadowInv
<1>2. CASE Refuse
  <2>1. CASE patch = <<>> /\ Return("Ok", 0)
    BY <1>1, <2>1
  <2>2. CASE Malformed # {} /\ Return(ShapeError(patch[Min(Malformed)]), Min(Malformed))
    <3>1. Malformed \subseteq Nat
      BY DEF Malformed, PatchInv
    <3>2. Min(Malformed) \in Malformed
      BY <2>2, <3>1, LeastNumber DEF Min
    <3>3. ShapeError(patch[Min(Malformed)]) # "Ok"
      BY <3>2 DEF Malformed
    <3> QED BY <1>1, <2>2, <3>3
  <2> QED BY <1>2, <2>1, <2>2 DEF Refuse
<1>3. CASE MakeShadow
  <2>1. JsonClone(target) \in T
    BY DEF ShadowInv, Shadows
  <2> QED BY <1>3, <2>1 DEF MakeShadow, ShadowInv
<1>4. CASE ApplyNext
  <2> DEFINE a == ApplyOne(shadow, CurrentOp)
  <2>1. Pending /\ Proceed(a) /\ shadow \in T
    BY <1>4 DEF ApplyNext, Pending, CurrentOp, ShadowInv
  <2>2. a \in Results(T)
    BY <2>1, AppliesTo
  <2> HIDE DEF a
  <2>3. CASE a.kind = "Ok"
    <3>1. a.doc \in T
      BY <2>2 DEF Results
    <3> QED BY <2>1, <2>3, <3>1 DEF Proceed, Pending, ShadowInv
  <2>4. CASE a.kind # "Ok"
    BY <1>1, <2>1, <2>4 DEF Proceed
  <2> QED BY <2>3, <2>4
<1>5. CASE OutOfMemory
  BY <1>1, <1>5 DEF OutOfMemory
<1>6. CASE Commit
  <2>1. shadow \in T /\ T \subseteq docs
    BY <1>6 DEF Commit, ShadowInv, Shadows
  <2> QED BY <1>6, <2>1 DEF Commit, ShadowInv
<1>7. CASE PatchDone \/ UNCHANGED patchVars
  BY <1>7 DEF PatchDone, patchVars, ShadowInv
<1> QED BY <1>2, <1>3, <1>4, <1>5, <1>6, <1>7 DEF PatchNext

\* The structural scan is complete: no operation of a patch it lets through is
\* found malformed or throws for its pointer syntax, whatever the documents,
\* the patch and the operations on whole trees.
THEOREM ShapeTheorem ==
  ASSUME NEW docs, NEW keys, NEW kept, Documents(docs, keys, kept)
  PROVE  PatchSpec => []ShapeSuffices
<1>1. PatchInit => ShadowInv(docs, docs)
  BY ShadowStart
<1>2. PatchInv /\ ShadowInv(docs, docs) /\ [PatchNext]_patchVars => ShadowInv(docs, docs)'
  BY ShadowStep DEF Documents
<1>3. PatchInv /\ ShadowInv(docs, docs) => ShapeSuffices
  <2>1. ASSUME PatchInv, ShadowInv(docs, docs), Pending
        PROVE  ApplyOne(shadow, CurrentOp) \in Results(docs)
    BY <2>1, AppliesTo DEF Documents, ShadowInv, Pending
  <2>2. \A r \in Results(docs) :
          r.kind \notin {"InvalidPatchDocument", "UnknownOp", "InvalidPointer", "throws"}
    BY DEF Results, OpKinds, ResolveKinds
  <2> QED BY <2>1, <2>2 DEF ShapeSuffices
<1> QED BY <1>1, <1>2, <1>3, PatchInvariant, PTL DEF PatchSpec

(***************************************************************************)
(* What a patch leaves borrows nothing.                                    *)
(***************************************************************************)
Owning(docs) == {v \in docs : ~Borrows(v)}

\* A document borrows by its tag, by a key of one of its entries, or further down.
LEMMA BorrowsWhere ==
  ASSUME NEW docs, TreeLaws(docs, Seq(Int)), NEW v \in docs
  PROVE  Borrows(v) <=> \/ v.type = "StringView"
                        \/ \E i \in 1..Len(v.items) : v.items[i].kept = "borrowed"
                        \/ \E i \in 1..Len(v.items) : Borrows(v.items[i].val)
<1>1. NodesOf(v) = {v} \union UNION {NodesOf(v.items[i].val) : i \in 1..Len(v.items)}
  BY DEF TreeLaws
<1>2. \A u : u \in NodesOf(v) <=> u = v \/ \E i \in 1..Len(v.items) : u \in NodesOf(v.items[i].val)
  BY <1>1
<1>3. Borrows(v) <=> IsView(v) \/ \E i \in 1..Len(v.items) : Borrows(v.items[i].val)
  BY <1>2, Zenon DEF Borrows
<1> QED BY <1>3 DEF IsView

\* The documents that own all their text, strings and keys, are closed under
\* what a patch does: a key it adds is owned.
LEMMA OwningShadows ==
  ASSUME NEW docs, NEW keys, NEW kept, kept \subseteq {"owned", "borrowed"},
         Documents(docs, keys, kept), TreeLaws(docs, Seq(Int))
  PROVE  Shadows(Owning(docs), docs, keys, {"owned"})
<1> DEFINE T == Owning(docs)
           own == {"owned"}
<1>1. Forest(docs, keys, kept) /\ own \subseteq kept
  BY DEF Documents, Shadows, Forest
<1>2. T \subseteq docs /\ \A v \in docs : v \in T <=> ~Borrows(v)
  BY DEF Owning
<1>3. NullNode \in T
  <2>1. NullNode \in docs /\ NullNode.type # "StringView" /\ NullNode.items = <<>>
    BY <1>1 DEF Forest, NullNode, Node
  <2>2. 1..Len(NullNode.items) = {}
    BY <2>1
  <2>3. ~Borrows(NullNode)
    BY <2>1, <2>2, BorrowsWhere
  <2> QED BY <1>2, <2>1, <2>3
<1> HIDE DEF T
<1>4. ASSUME NEW v \in T
      PROVE  v = Node(v.type, v.num, v.text, v.items) /\ v.items \in Seq(Entries(T, keys, own))
  <2>1. v \in docs /\ ~Borrows(v)
    BY <1>2
  <2>2. v = Node(v.type, v.num, v.text, v.items) /\ v.items \in Seq(Entries(docs, keys, kept))
    BY <1>1, <2>1 DEF Forest
  <2>3. ASSUME NEW i \in 1..Len(v.items) PROVE v.items[i] \in Entries(T, keys, own)
    <3>1. v.items[i] \in Entries(docs, keys, kept)
      BY <2>2
    <3>2. v.items[i].val \in docs /\ v.items[i].kept \in {"owned", "borrowed"}
      BY <3>1 DEF Entries
    <3>3. ~Borrows(v.items[i].val) /\ v.items[i].kept # "borrowed"
      BY <2>1, BorrowsWhere
    <3> QED BY <1>2, <3>1, <3>2, <3>3 DEF Entries
  <2> HIDE DEF Entries, own
  <2>4. v.items \in Seq(Entries(T, keys, own))
    BY <2>2, <2>3
  <2> QED BY <2>2, <2>4
<1>5. ASSUME NEW v \in T, NEW s \in Seq(Entries(T, keys, own))
      PROVE  Node(v.type, v.num, v.text, s) \in T
  <2> DEFINE w == Node(v.type, v.num, v.text, s)
  <2>1. Entries(T, keys, own) \subseteq Entries(docs, keys, kept)
    BY <1>1, <1>2 DEF Entries
  <2>2. s \in Seq(Entries(docs, keys, kept))
    BY <2>1
  <2>3. w \in docs
    BY <1>1, <1>2, <2>2 DEF Forest
  <2>4. w.type = v.type /\ w.items = s
    BY DEF Node
  <2>5. v.type # "StringView"
    BY <1>2, BorrowsWhere
  <2>6. ASSUME NEW i \in 1..Len(s) PROVE ~Borrows(s[i].val) /\ s[i].kept # "borrowed"
    <3>1. s[i] \in Entries(T, keys, own)
      OBVIOUS
    <3>2. s[i].val \in T /\ s[i].kept = "owned"
      BY <3>1 DEF Entries
    <3> QED BY <1>2, <3>2
  <2> HIDE DEF w
  <2>7. ~Borrows(w)
    BY <2>3, <2>4, <2>5, <2>6, BorrowsWhere
  <2> QED BY <1>2, <2>3, <2>7 DEF w
<1>6. \A v \in docs : JsonClone(v) \in T
  BY <1>2 DEF Documents, Shadows, TreeLaws
<1>7. \A v \in T, new \in T, place \in Seq(Int) : PlaceIn(v, place) => NodePlaced(v, place, new) \in T
  BY <1>2 DEF Documents, Shadows, TreeLaws
<1>8. Seq(Chars) \subseteq keys
  BY <1>1 DEF Forest
<1> QED BY <1>2, <1>3, <1>4, <1>5, <1>6, <1>7, <1>8 DEF Shadows, Forest, T

\* After a patch that changed something the target borrows no text: clones
\* do not, no operation brings in a node that is not part of a clone, and the
\* keys of new members are owned.
THEOREM MayDieTheorem ==
  ASSUME NEW docs, NEW keys, NEW kept, kept \subseteq {"owned", "borrowed"},
         Documents(docs, keys, kept), TreeLaws(docs, Seq(Int))
  PROVE  PatchSpec => []PatchMayDie
<1>1. Shadows(Owning(docs), docs, keys, {"owned"})
  BY OwningShadows
<1>2. PatchInit => ShadowInv(Owning(docs), docs)
  BY ShadowStart
<1>3. PatchInv /\ ShadowInv(Owning(docs), docs) /\ [PatchNext]_patchVars => ShadowInv(Owning(docs), docs)'
  BY <1>1, ShadowStep
<1>4. ShadowInv(Owning(docs), docs) => PatchMayDie
  BY DEF ShadowInv, Owning, PatchMayDie
<1> QED BY <1>2, <1>3, <1>4, PatchInvariant, PTL DEF PatchSpec
=============================================================================
