----------------------------- MODULE PathAccess -----------------------------
(***************************************************************************)
(* Dotted paths (path.cpp) and their Result twin (access.cpp): a path text *)
(* is compiled to steps, and two walkers written independently follow the  *)
(* steps through a tree.  Every path text over Alphabet up to MaxLen is    *)
(* walked on every tree.  Keys and paths are sequences of characters.      *)
(***************************************************************************)
EXTENDS JsonTree

CONSTANTS Trees, Alphabet, MaxLen,
          SizeMax    \* the largest size_t

DigitValue == [d \in {"0", "1", "9"} |-> CASE d = "0" -> 0 [] d = "1" -> 1 [] OTHER -> 9]
IsDigit(c) == c \in DOMAIN DigitValue
KeyStep(k)   == [key |-> k, index |-> -1]
IndexStep(i) == [key |-> <<>>, index |-> i]
IsKey(step)  == step.index = -1

(***************************************************************************)
(* parse_path.                                                             *)
(***************************************************************************)
\* Slip (RenderReparses): the product may wrap around.
PushDigitWraps(idx, d) == ((idx * 10) + DigitValue[d]) % (SizeMax + 1)

\* One digit more, or -1 for an overflow; both index readers guard alike.
PushDigit(idx, d) ==
  IF idx > (SizeMax - 9) \div 10 THEN -1 ELSE (idx * 10) + DigitValue[d]
ReadIndex(s) == FoldLeft(LAMBDA n, d : IF n = -1 THEN -1 ELSE PushDigit(n, d), 0, s)

Malformed == [ok |-> FALSE, steps |-> <<>>]
Compiled(steps) == [ok |-> TRUE, steps |-> steps]

\* The first position from p whose character is in stops, or the end.
RunEnd(s, p, stops) ==
  Min({q \in p..(Len(s) + 1) : q > Len(s) \/ s[q] \in stops})
DigitsEnd(s, p) == Min({q \in p..(Len(s) + 1) : q > Len(s) \/ ~IsDigit(s[q])})

RECURSIVE Segment(_, _, _, _), Brackets(_, _, _)
Segment(s, p, viaDot, steps) ==
  IF p > Len(s) THEN Compiled(steps)
  ELSE LET q == RunEnd(s, p, {".", "["})
       IN  Brackets(s, q, IF q > p \/ viaDot THEN Append(steps, KeyStep(SubSeq(s, p, q - 1)))
                          ELSE steps)
AfterDigits(s, p, q, idx, steps) ==
  IF idx = -1 \/ q = p \/ q > Len(s) \/ (q <= Len(s) /\ s[q] # "]") THEN Malformed
  ELSE Brackets(s, q + 1, Append(steps, IndexStep(idx)))
Brackets(s, p, steps) ==
  IF p > Len(s) THEN Compiled(steps)
  ELSE IF s[p] = "[" THEN LET q == DigitsEnd(s, p + 1)
                          IN  AfterDigits(s, p + 1, q, ReadIndex(SubSeq(s, p + 1, q - 1)), steps)
  ELSE IF s[p] = "." THEN Segment(s, p + 1, TRUE, steps)
  ELSE Malformed
ParsePath(s) ==
  IF s = <<>> THEN Compiled(<<>>)
  ELSE IF s[1] = "." \/ Last(s) = "." THEN Malformed
  ELSE Segment(s, 1, FALSE, <<>>)

(***************************************************************************)
(* The throwing walker: a hop yields a child's position or an exception.   *)
(***************************************************************************)
Place(at)    == [at |-> at, throws |-> "none"]
Throws(what) == [at |-> 0, throws |-> what]

ToIndex(k) == IF k = <<>> \/ \E i \in 1..Len(k) : ~IsDigit(k[i]) THEN -1 ELSE ReadIndex(k)

\* std::to_string of an index.
RECURSIVE DecimalOf(_)
DigitName(n) == CHOOSE d \in DOMAIN DigitValue \union {"other"} :
                  IF n \in {0, 1, 9} THEN d # "other" /\ DigitValue[d] = n ELSE d = "other"
DecimalOf(n) ==
  IF n < 10 THEN <<DigitName(n)>> ELSE Append(DecimalOf(n \div 10), DigitName(n % 10))

AtIndex(v, i) == IF i < Len(v.items) THEN Place(i + 1) ELSE Throws("out_of_range")
AtName(v, k)  == IF HasKey(v, k) THEN Place(FindSlot(v, k)) ELSE Throws("out_of_range")

\* Slip (StepKindImmaterial): an index never names a member.
HopStrict(v, step) ==
  IF IsKey(step)
  THEN CASE IsObject(v) -> AtName(v, step.key)
         [] IsArray(v)  -> IF ToIndex(step.key) = -1 THEN Throws("out_of_range")
                           ELSE AtIndex(v, ToIndex(step.key))
         [] OTHER       -> Throws("TypeError")
  ELSE IF IsArray(v) THEN AtIndex(v, step.index) ELSE Throws("TypeError")

Hop(v, step) ==
  IF IsKey(step)
  THEN CASE IsObject(v) -> AtName(v, step.key)
         [] IsArray(v)  -> IF ToIndex(step.key) = -1 THEN Throws("out_of_range")
                           ELSE AtIndex(v, ToIndex(step.key))
         [] OTHER       -> Throws("TypeError")
  ELSE CASE IsArray(v)  -> AtIndex(v, step.index)
         [] IsObject(v) -> AtName(v, DecimalOf(step.index))
         [] OTHER       -> Throws("TypeError")

Start(root) == [node |-> root, place |-> <<>>, throws |-> "none"]
Move(cur, h) ==
  IF h.throws # "none" THEN [cur EXCEPT !.throws = h.throws]
  ELSE [cur EXCEPT !.node = cur.node.items[h.at].val, !.place = Append(@, h.at)]
Walk(root, steps) ==
  FoldLeft(LAMBDA cur, s : IF cur.throws # "none" THEN cur ELSE Move(cur, Hop(cur.node, s)),
           Start(root), steps)
AtPath(root, c) ==
  IF c.ok THEN Walk(root, c.steps) ELSE [Start(root) EXCEPT !.throws = "invalid_argument"]

\* find_path and contains: TypeError and out_of_range are misses.
FindPath(r) == IF r.throws \in {"TypeError", "out_of_range"} THEN [r EXCEPT !.throws = "null"] ELSE r

(***************************************************************************)
(* The Result walker of access.cpp: the kind of the first failing hop and  *)
(* its number.                                                             *)
(***************************************************************************)
Child(at)      == [at |-> at, kind |-> "Ok"]
Refused(kind)  == [at |-> 0, kind |-> kind]
ByIndex(v, i)  == IF i >= Len(v.items) THEN Refused("OutOfRange") ELSE Child(i + 1)
ByName(v, k)   == IF ~HasKey(v, k) THEN Refused("Missing") ELSE Child(FindSlot(v, k))

\* Slip (WalkersAgree): the bound is off by one.
StepResultLoose(v, step) ==
  IF IsArray(v) /\ ~IsKey(step)
  THEN IF step.index > Len(v.items) THEN Refused("OutOfRange")
       ELSE Child(IF step.index = Len(v.items) THEN step.index ELSE step.index + 1)
  ELSE IF IsObject(v) THEN ByName(v, IF IsKey(step) THEN step.key ELSE DecimalOf(step.index))
  ELSE Refused("TypeMismatch")

StepResult(v, step) ==
  IF IsKey(step)
  THEN IF IsObject(v) THEN ByName(v, step.key)
       ELSE IF IsArray(v)
       THEN IF ToIndex(step.key) = -1 THEN Refused("InvalidIndex") ELSE ByIndex(v, ToIndex(step.key))
       ELSE Refused("TypeMismatch")
  ELSE IF IsArray(v) THEN ByIndex(v, step.index)
       ELSE IF IsObject(v) THEN ByName(v, DecimalOf(step.index))
       ELSE Refused("TypeMismatch")

StartResult(root) == [node |-> root, place |-> <<>>, kind |-> "Ok", hop |-> 0]
MoveResult(cur, h) ==
  IF h.kind # "Ok" THEN [cur EXCEPT !.kind = h.kind]
  ELSE [cur EXCEPT !.node = cur.node.items[h.at].val, !.place = Append(@, h.at), !.hop = @ + 1]
WalkResult(root, steps) ==
  FoldLeft(LAMBDA cur, s : IF cur.kind # "Ok" THEN cur ELSE MoveResult(cur, StepResult(cur.node, s)),
           StartResult(root), steps)
FindPathResult(root, c) ==
  IF c.ok THEN WalkResult(root, c.steps) ELSE [StartResult(root) EXCEPT !.kind = "MalformedPath"]

\* render_path: "." before a key that is not first, brackets around an index.
RenderStep(out, step) ==
  IF IsKey(step) THEN (IF out = <<>> THEN out ELSE Append(out, ".")) \o step.key
  ELSE out \o <<"[">> \o DecimalOf(step.index) \o <<"]">>
RenderPath(steps) == FoldLeft(RenderStep, <<>>, steps)

(***************************************************************************)
(* Every path text over Alphabet, one character at a time.                 *)
(***************************************************************************)
VARIABLES tree, path
vars == <<tree, path>>

Init == tree \in Trees /\ path = <<>>
Extend ==
  /\ Len(path) < MaxLen /\ \E c \in Alphabet : path' = Append(path, c)
  /\ UNCHANGED tree
Done == Len(path) = MaxLen /\ UNCHANGED vars
Next == Extend \/ Done
Spec == Init /\ [][Next]_vars

(***************************************************************************)
(* Properties.                                                             *)
(***************************************************************************)
\* find_path_result succeeds where at_path does, at the same node, fails with
\* the kind that matches the exception, and its hop is the first that fails;
\* find_path is null exactly when the failure is a miss (access.hpp: "exactly
\* as at_path/find_path").
Kinds(throws) ==
  CASE throws = "none" -> {"Ok"} [] throws = "invalid_argument" -> {"MalformedPath"}
    [] throws = "TypeError" -> {"TypeMismatch"} [] OTHER -> {"Missing", "OutOfRange", "InvalidIndex"}
SameWalk(a, f, c) ==
  /\ f.kind \in Kinds(a.throws) /\ f.place = a.place
  /\ FindPath(a).throws = "null" <=> f.kind \notin {"Ok", "MalformedPath"}
  /\ c.ok => Walk(tree, SubSeq(c.steps, 1, f.hop)).throws = "none"
  /\ c.ok /\ f.kind # "Ok" => Walk(tree, SubSeq(c.steps, 1, f.hop + 1)).throws # "none"
BothWalks(c) == SameWalk(AtPath(tree, c), FindPathResult(tree, c), c)
WalkersAgree == BothWalks(ParsePath(path))

\* The parent decides: an index step and the key step of its decimal text
\* lead to the same node or fail alike.
AsKey(step) == IF IsKey(step) THEN step ELSE KeyStep(DecimalOf(step.index))
StepKindImmaterial ==
  LET steps == ParsePath(path).steps
  IN  Walk(tree, steps) = Walk(tree, [i \in 1..Len(steps) |-> AsKey(steps[i])])

\* What a path compiles to can be written down and compiled again: no index
\* wraps around, no empty key is lost or made up.
RenderReparses ==
  LET c == ParsePath(path) IN c.ok => ParsePath(RenderPath(c.steps)) = c

\* A path denotes one node, or fails in one way, whichever function follows it
\* and however its steps are written.
PathDenotesOne == WalkersAgree /\ StepKindImmaterial /\ RenderReparses
=============================================================================
