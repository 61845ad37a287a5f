------------------------------- MODULE Schema -------------------------------
(***************************************************************************)
(* validate_result (schema.hpp): a runtime value against a compile-time    *)
(* schema, itself a JSON tree whose keys are keywords.  The recursion is a *)
(* stack of validate_node frames, one keyword per step; the diagnostic     *)
(* path is one accumulator that every return has to rewind.                *)
(***************************************************************************)
EXTENDS JsonValues

CONSTANTS Schemas, Instances,   \* schemas and values, with everything in them
          Valid(_, _)           \* what a schema means

IsNumber(v)  == v.type \in {"Integer", "Floating"}
KeyHop(k)    == [key |-> k, index |-> -1]
IndexHop(i)  == [key |-> <<>>, index |-> i]

\* A keyword's outcome: what went wrong, and the hop the path gains for the
\* report.
Holds           == [kind |-> "Ok", hop |-> <<>>]
Broken(kind)    == [kind |-> kind, hop |-> <<>>]
BrokenAt(kind, k) == [kind |-> kind, hop |-> <<KeyHop(k)>>]
Unless(ok, kind) == IF ok THEN Holds ELSE Broken(kind)

(***************************************************************************)
(* The keywords that look at one value.                                    *)
(***************************************************************************)
TypeTags == [null |-> {"Null"}, boolean |-> {"Boolean"}, integer |-> {"Integer"},
             number |-> {"Integer", "Floating"}, string |-> {"StringView", "StringOwned"},
             array |-> {"Array"}, object |-> {"Object"}]
CheckType(p, v) ==
  IF ~IsString(p) THEN Broken("InvalidSchema")
  ELSE IF p.text \notin {<<t>> : t \in DOMAIN TypeTags} THEN Broken("InvalidSchema")
  ELSE Unless(v.type \in TypeTags[p.text[1]], "TypeMismatch")

\* The first listed key the object lacks is reported.
MissingKey(keys, v) == SelectInSeq(keys, LAMBDA e : ~HasKey(v, e.val.text))
ReportMissing(keys, at) ==
  IF at = 0 THEN Holds ELSE BrokenAt("MissingRequired", keys[at].val.text)
CheckRequired(p, v) ==
  IF ~IsArray(p) \/ \E i \in 1..Len(p.items) : ~IsString(p.items[i].val)
  THEN Broken("InvalidSchema")
  ELSE IF ~IsObject(v) THEN Holds
  ELSE ReportMissing(p.items, MissingKey(p.items, v))

CheckEnum(p, v) ==
  IF ~IsArray(p) THEN Broken("InvalidSchema")
  ELSE Unless(\E i \in 1..Len(p.items) : JsonEqual(v, JsonRuntime(p.items[i].val)), "EnumMismatch")
CheckConst(p, v) == Unless(JsonEqual(v, JsonRuntime(p)), "ConstMismatch")

\* Code points: the bytes that are no continuation bytes.
CodePoints(t) == Cardinality({i \in 1..Len(t) : t[i] # "80"})

NonNegativeBound(p) == p.type = "Integer" /\ p.num >= 0
CheckBound(p, applies, ok, kind) ==
  IF ~NonNegativeBound(p) THEN Broken("InvalidSchema") ELSE Unless(applies => ok, kind)
CheckMinLength(p, v) == CheckBound(p, IsString(v), CodePoints(v.text) >= p.num, "TooShort")
CheckMaxLength(p, v) == CheckBound(p, IsString(v), CodePoints(v.text) <= p.num, "TooLong")
CheckMinItems(p, v)  == CheckBound(p, IsArray(v), Len(v.items) >= p.num, "TooShort")
CheckMaxItems(p, v)  == CheckBound(p, IsArray(v), Len(v.items) <= p.num, "TooLong")

\* Numbers count halves, so that integers and doubles compare exactly; every
\* comparison with NaN is false.
Halves(v) == IF v.type = "Integer" THEN 2 * v.num ELSE v.num
AboveOrEqual(v, p) == NaN \notin {v, p} /\ Halves(v) >= Halves(p)
BelowOrEqual(v, p) == NaN \notin {v, p} /\ Halves(v) <= Halves(p)
CheckMinimum(p, v) ==
  IF ~IsNumber(p) THEN Broken("InvalidSchema")
  ELSE Unless(IsNumber(v) => AboveOrEqual(v, p), "BelowMinimum")
CheckMaximum(p, v) ==
  IF ~IsNumber(p) THEN Broken("InvalidSchema")
  ELSE Unless(IsNumber(v) => BelowOrEqual(v, p), "AboveMaximum")

\* Slip (VerdictIsConjunction): only the first "properties" entry counts, and
\* only its first key.
IsDeclaredFirst(schema, key) ==
  \E i \in 1..Len(schema.items) :
    /\ schema.items[i].key = <<"properties">>
    /\ schema.items[i].val.items # <<>> /\ schema.items[i].val.items[1].key = key

\* is_declared_property: a key of a "properties" entry of the same node.
IsDeclared(schema, key) ==
  \E i \in 1..Len(schema.items) :
    /\ schema.items[i].key = <<"properties">>
    /\ IsObject(schema.items[i].val) /\ HasKey(schema.items[i].val, key)
ReportExtra(v, at) == IF at = 0 THEN Holds ELSE BrokenAt("UnexpectedProperty", v.items[at].key)
CheckAdditional(schema, p, v) ==
  IF p.type # "Boolean" THEN Broken("InvalidSchema")
  ELSE IF p.num = 1 \/ ~IsObject(v) THEN Holds
  ELSE ReportExtra(v, SelectInSeq(v.items, LAMBDA e : ~IsDeclared(schema, e.key)))

\* Every keyword but the two that recurse; an unknown one is ignored.
ApplyKeyword(schema, word, p, v) ==
  CASE word = "required"  -> CheckRequired(p, v)
    [] word = "enum"      -> CheckEnum(p, v)
    [] word = "const"     -> CheckConst(p, v)
    [] word = "minLength" -> CheckMinLength(p, v)
    [] word = "maxLength" -> CheckMaxLength(p, v)
    [] word = "minItems"  -> CheckMinItems(p, v)
    [] word = "maxItems"  -> CheckMaxItems(p, v)
    [] word = "minimum"   -> CheckMinimum(p, v)
    [] word = "maximum"   -> CheckMaximum(p, v)
    [] word = "additionalProperties" -> CheckAdditional(schema, p, v)
    [] OTHER -> Holds

(***************************************************************************)
(* What a schema means, without an order of evaluation: every keyword      *)
(* holds of the value itself, and so does what it demands of the parts.    *)
(***************************************************************************)
HoldsHere(s, word, p, v) ==
  CASE word = <<"type">> -> CheckType(p, v).kind = "Ok"
    [] word \in {<<"properties">>, <<"items">>} -> IsObject(p)
    [] word = <<"additionalProperties">> -> p.type = "Boolean" /\
         (p.num = 1 \/ ~IsObject(v) \/ \A i \in 1..Len(v.items) :
            \E j \in 1..Len(s.items) :
              s.items[j].key = <<"properties">> /\ IsObject(s.items[j].val)
                /\ HasKey(s.items[j].val, v.items[i].key))
    [] OTHER -> ApplyKeyword(s, word[1], p, v).kind = "Ok"

\* The values inside v that a keyword has checked, each with its schema.
Demands(word, p, v) ==
  CASE word = <<"properties">> /\ IsObject(p) /\ IsObject(v) ->
         {<<p.items[i].val, AtKey(v, p.items[i].key)>> :
            i \in {j \in 1..Len(p.items) : HasKey(v, p.items[j].key)}}
    [] word = <<"items">> /\ IsObject(p) /\ IsArray(v) ->
         {<<p, v.items[i].val>> : i \in 1..Len(v.items)}
    [] OTHER -> {}

KeywordHolds(s, word, p, v) ==
  HoldsHere(s, word, p, v) /\ \A d \in Demands(word, p, v) : Valid(d[1], d[2])
AllHold(s, v) ==
  \A i \in 1..Len(s.items) : KeywordHolds(s, s.items[i].key, s.items[i].val, v)

Closed(nodes) ==
  \A v \in nodes : Len(v.items) \in Nat /\ \A i \in 1..Len(v.items) : v.items[i].val \in nodes
ASSUME SchemaAssumption ==
  /\ Closed(Schemas) /\ Closed(Instances)
  /\ \A s \in Schemas, v \in Instances : Valid(s, v) <=> IsObject(s) /\ AllHold(s, v)

(***************************************************************************)
(* validate_node.                                                          *)
(***************************************************************************)
VARIABLES schema, value,  \* the arguments of validate_result
          stack,          \* frames: [schema, value, pass, k, sub, mark]
          path,           \* PathBuf, as a sequence of hops
          result          \* "running", or the outcome and the path reported
vars == <<schema, value, stack, path, result>>

Frame(s, v, mark) ==
  [schema |-> s, value |-> v, pass |-> "type", k |-> 1, sub |-> 1, mark |-> mark]
Running == [kind |-> "running", path |-> <<>>, word |-> <<>>]

Called == stack = <<Frame(schema, value, 0)>> /\ path = <<>> /\ result = Running
Init   == schema \in Schemas /\ value \in Instances /\ Called

Top   == Last(stack)
Entry == Top.schema.items[Top.k]
AtEntry(pass) == stack # <<>> /\ IsObject(Top.schema) /\ Top.pass = pass
                              /\ Top.k <= Len(Top.schema.items)
SetTop(f) == stack' = Append(Front(stack), f)
NextEntry == SetTop([Top EXCEPT !.k = @ + 1, !.sub = 1])

\* The first failure ends the recursion; every level rewinds its hop.
Fail(kind, hop, word) ==
  /\ result' = [kind |-> kind, path |-> path \o hop, word |-> word]
  /\ stack' = <<>> /\ path' = <<>>
  /\ UNCHANGED <<schema, value>>
Settle(out, word) ==
  IF out.kind = "Ok" THEN NextEntry /\ UNCHANGED <<schema, value, path, result>>
  ELSE Fail(out.kind, out.hop, word)

\* A node of the schema that is no object.
NotASchema ==
  /\ stack # <<>> /\ ~IsObject(Top.schema)
  /\ Fail("InvalidSchema", <<>>, <<"schema">>)

\* Slip (FirstFailureReported): the first pass looks at the first entry only.
TypePassFirst ==
  /\ AtEntry("type")
  /\ Settle(IF Entry.key = <<"type">> /\ Top.k = 1 THEN CheckType(Entry.val, Top.value) ELSE Holds,
            <<"type">>)

\* The first pass looks at "type" only.
TypePass ==
  /\ AtEntry("type")
  /\ Settle(IF Entry.key = <<"type">> THEN CheckType(Entry.val, Top.value) ELSE Holds, <<"type">>)

TypesDone ==
  /\ stack # <<>> /\ IsObject(Top.schema)
  /\ Top.pass = "type" /\ Top.k > Len(Top.schema.items)
  /\ SetTop([Top EXCEPT !.pass = "rest", !.k = 1])
  /\ UNCHANGED <<schema, value, path, result>>

Recursive == {<<"properties">>, <<"items">>}

\* The keywords in authored order, "type" skipped.
Keyword ==
  /\ AtEntry("rest") /\ Entry.key \notin Recursive
  /\ Settle(IF Entry.key = <<"type">> THEN Holds
            ELSE ApplyKeyword(Top.schema, Entry.key[1], Entry.val, Top.value), Entry.key)

\* "properties" and "items": malformed, outside their domain, or the sub-th
\* child is visited next.
Children ==
  IF Entry.key = <<"properties">> THEN Len(Entry.val.items) ELSE Len(Top.value.items)
InDomain ==
  IF Entry.key = <<"properties">> THEN IsObject(Top.value) ELSE IsArray(Top.value)
ChildrenDone ==
  /\ AtEntry("rest") /\ Entry.key \in Recursive
  /\ IF ~IsObject(Entry.val) THEN Fail("InvalidSchema", <<>>, Entry.key)
     ELSE /\ ~InDomain \/ Top.sub > Children
          /\ NextEntry /\ UNCHANGED <<schema, value, path, result>>

AtChild == AtEntry("rest") /\ Entry.key \in Recursive /\ IsObject(Entry.val)
                           /\ InDomain /\ Top.sub <= Children
Enter(s, v, hop) ==
  /\ stack' = Append(stack, Frame(s, v, Len(path)))
  /\ path' = Append(path, hop)
  /\ UNCHANGED <<schema, value, result>>

\* property_one: a declared key that the object has.
Property ==
  /\ AtChild /\ Entry.key = <<"properties">>
  /\ LET e == Entry.val.items[Top.sub]
     IN  IF HasKey(Top.value, e.key)
         THEN Enter(e.val, AtKey(Top.value, e.key), KeyHop(e.key))
         ELSE /\ SetTop([Top EXCEPT !.sub = @ + 1])
              /\ UNCHANGED <<schema, value, path, result>>

Item ==
  /\ AtChild /\ Entry.key = <<"items">>
  /\ Enter(Entry.val, Top.value.items[Top.sub].val, IndexHop(Top.sub - 1))

AtReturn == stack # <<>> /\ IsObject(Top.schema) /\ Top.pass = "rest"
                         /\ Top.k > Len(Top.schema.items)
Parent   == stack[Len(stack) - 1]

\* Slip (PathLocates): the hop stays when the child is valid.
NodeOkKeepsHop ==
  /\ AtReturn /\ Len(stack) > 1
  /\ stack' = Append(SubSeq(stack, 1, Len(stack) - 2), [Parent EXCEPT !.sub = @ + 1])
  /\ UNCHANGED <<schema, value, path, result>>

\* A valid node returns to its parent, which rewinds the path.
NodeOk ==
  /\ AtReturn /\ Len(stack) > 1
  /\ stack' = Append(SubSeq(stack, 1, Len(stack) - 2), [Parent EXCEPT !.sub = @ + 1])
  /\ path' = SubSeq(path, 1, Top.mark)
  /\ UNCHANGED <<schema, value, result>>

RootOk ==
  /\ AtReturn /\ Len(stack) = 1
  /\ stack' = <<>> /\ result' = [Running EXCEPT !.kind = "Ok"]
  /\ UNCHANGED <<schema, value, path>>

Done == stack = <<>> /\ UNCHANGED vars

Next == NotASchema \/ TypePass \/ TypesDone \/ Keyword \/ ChildrenDone \/ Property \/ Item
          \/ NodeOk \/ RootOk \/ Done
Spec == Init /\ [][Next]_vars

(***************************************************************************)
(* Properties.                                                             *)
(***************************************************************************)
\* The verdict is that of the conjunction of all keywords at all nodes: the
\* short circuit, the two passes and the frames lose and add nothing.
VerdictIsConjunction ==
  stack = <<>> => (result.kind = "Ok" <=> Valid(schema, value))

\* The node a path denotes.
NoNode == Node("None", 0, <<>>, <<>>)
HopTo(v, hop) ==
  CASE hop.index \in 0..(Len(v.items) - 1) -> v.items[hop.index + 1].val
    [] hop.index = -1 /\ HasKey(v, hop.key) -> AtKey(v, hop.key)
    [] OTHER -> NoNode
At(p) == FoldLeft(HopTo, value, p)

\* Over any number of siblings and levels the accumulator names the node the
\* innermost frame looks at (schema.hpp: "rewound on return").
PathLocates == stack # <<>> => At(path) = Top.value

\* "type" is always evaluated first regardless of authored order; the others
\* run in authored order (schema.hpp): what is reported at the root is not
\* preceded by another broken keyword.
Position(word) == Min({i \in 1..Len(schema.items) : schema.items[i].key = word})
Earlier(word) ==
  {i \in 1..Len(schema.items) : schema.items[i].key = <<"type">> \/ i < Position(word)}
FirstFailureReported ==
  stack = <<>> /\ result.kind # "Ok" /\ Len(result.path) = 0 /\ IsObject(schema)
    /\ result.word # <<"type">> =>
    \A i \in Earlier(result.word) :
      KeywordHolds(schema, schema.items[i].key, schema.items[i].val, value)

\* A report names the node it is about, and at the root the first failure.
ReportLocatesFirst == PathLocates /\ FirstFailureReported
=============================================================================
