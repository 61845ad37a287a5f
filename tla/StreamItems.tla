----------------------------- MODULE StreamItems -----------------------------
(***************************************************************************)
(* StreamItems (src/parser/stream.cpp): a cursor over a StreamReader that  *)
(* passes on the events of the values whose path matches a JSON Pointer    *)
(* prefix.  One step is one event of the reader.  The reader is any        *)
(* producer of well-formed event streams, several top-level values         *)
(* included (StreamEvents!EventProtocol says that StreamReader is one).    *)
(* Text is a sequence of characters, a character is a string.              *)
(***************************************************************************)
EXTENDS Integers, SequencesExt

CONSTANTS
  PrefixTexts,   \* pointers items() is called with
  Texts,      \* texts of keys and string values
  SizeMax,    \* largest size_t, scaled
  MaxDepth, MaxIndex   \* bounds on the nesting and the length of arrays
ASSUME ItemsAssumption ==
  /\ PrefixTexts \subseteq Seq(STRING) /\ Texts \subseteq Seq(STRING)
  /\ SizeMax \in Nat /\ MaxDepth \in Nat /\ MaxIndex \in Nat

VARIABLES
  text, made,   \* the pointer, and whether the cursor exists
  prefix,       \* m_prefix
  frames, pending, emitting, depth,   \* m_frames, m_pending_child_match, m_emit_depth
  open,         \* the reader's open containers, each with the step its next
                \* or current child adds to the path
  over,         \* the reader has ended or failed
  last          \* the last event, if any: the path of its value, whether it was yielded
cursor == <<prefix, frames, pending, emitting, depth>>
vars   == <<text, made, cursor, open, over, last>>

(***************************************************************************)
(* parse_prefix.                                                           *)
(***************************************************************************)
Digits == <<"0", "1", "2", "3", "4", "5", "6", "7", "8", "9">>
DigitOf(c) == CHOOSE n \in 0..9 : Digits[n + 1] = c
Value(s) == FoldLeft(LAMBDA n, c : 10 * n + DigitOf(c), 0, s)

\* parse_decimal_index: leading zeros are fine, an overflow is not an index.
IsDecimalIndex(s) ==
  /\ s # <<>> /\ \A i \in 1..Len(s) : s[i] \in Range(Digits)
  /\ Value(s) <= SizeMax

Token(kind, key, index) == [kind |-> kind, key |-> key, index |-> index]
Classify(s) ==
  IF s = <<"*">> THEN Token("Any", <<>>, 0)
  ELSE IF IsDecimalIndex(s) THEN Token("Index", <<>>, Value(s))
  ELSE Token("Key", s, 0)

\* The bytes of the pointer from left to right: the tokens decoded so far, the
\* last one still open; esc after a tilde, ok until an escape is malformed.
Extend(d, c) == [d EXCEPT !.tokens[Len(d.tokens)] = Append(@, c), !.esc = FALSE]
\* Slip (PrefixDecodes): an escaped slash separates.
DecodeByteSplits(d, c) ==
  IF c = "~" THEN [d EXCEPT !.esc = TRUE, !.ok = @ /\ ~d.esc]
  ELSE IF c = "/" \/ (d.esc /\ c = "1")
  THEN [d EXCEPT !.tokens = Append(@, <<>>), !.ok = @ /\ (d.esc => c = "1"), !.esc = FALSE]
  ELSE IF ~d.esc THEN Extend(d, c)
  ELSE IF c = "0" THEN Extend(d, "~") ELSE [d EXCEPT !.ok = FALSE]
DecodeByte(d, c) ==
  IF d.esc THEN CASE c = "0" -> Extend(d, "~")
                  [] c = "1" -> Extend(d, "/")
                  [] OTHER   -> [d EXCEPT !.ok = FALSE]
  ELSE CASE c = "~" -> [d EXCEPT !.esc = TRUE]
         [] c = "/" -> [d EXCEPT !.tokens = Append(@, <<>>)]
         [] OTHER   -> Extend(d, c)
Decode(t) == FoldLeft(DecodeByte, [tokens |-> <<>>, esc |-> FALSE, ok |-> TRUE], t)
Accepted(t) == t = <<>> \/ (t[1] = "/" /\ Decode(t).ok /\ ~Decode(t).esc)
ParsePrefix(t) == [i \in 1..Len(Decode(t).tokens) |-> Classify(Decode(t).tokens[i])]

(***************************************************************************)
(* The reader's side: what may come next, and the path it is at.           *)
(***************************************************************************)
Container(object) == [object |-> object, key |-> <<>>, due |-> FALSE, index |-> 0]
ValueMayStart ==
  open # <<>> => IF Last(open).object THEN Last(open).due ELSE Last(open).index < MaxIndex
AfterChild(o) ==
  IF o = <<>> THEN o
  ELSE IF Last(o).object THEN [o EXCEPT ![Len(o)].key = <<>>, ![Len(o)].due = FALSE]
  ELSE [o EXCEPT ![Len(o)].index = @ + 1]

(***************************************************************************)
(* The cursor's side.                                                      *)
(***************************************************************************)
Frame(object, match) == [object |-> object, match |-> match, next |-> 0]
Diverged == -1
Exhausted(match) == match = Diverged \/ match >= Len(prefix)

ElementMatches(token, n) == token.kind = "Any" \/ (token.kind = "Index" /\ token.index = n)
\* Slip (YieldsExactly): the member name is compared when the value comes, and
\* by then the view shows the text of that.
ChildMatchLenLate(t) ==
  IF frames = <<>> THEN 0
  ELSE LET parent == Last(frames)
       IN  IF Exhausted(parent.match) THEN Diverged
           ELSE IF IF parent.object THEN prefix[parent.match + 1].kind = "Key" /\ prefix[parent.match + 1].key = t
                   ELSE ElementMatches(prefix[parent.match + 1], parent.next)
           THEN parent.match + 1 ELSE Diverged
\* child_match_len; t is the text of the event.
ChildMatchLen(t) ==
  IF frames = <<>> THEN 0
  ELSE LET parent == Last(frames)
       IN  IF Exhausted(parent.match) THEN Diverged
           ELSE IF parent.object THEN pending
           ELSE IF ElementMatches(prefix[parent.match + 1], parent.next) THEN parent.match + 1
           ELSE Diverged

\* on_map_key; the cursor's top frame is an object's.
KeyMatchLen(key) ==
  LET base == Last(frames).match
  IN  IF Exhausted(base) THEN Diverged
      ELSE IF prefix[base + 1].kind = "Key" /\ prefix[base + 1].key = key THEN base + 1
      ELSE Diverged

NextIndex(fs) ==
  IF fs # <<>> /\ ~Last(fs).object THEN [fs EXCEPT ![Len(fs)].next = @ + 1] ELSE fs

Reports(path, yielded) == last' = [seen |-> TRUE, path |-> path, yielded |-> yielded]

(***************************************************************************)
(* Steps.                                                                  *)
(***************************************************************************)
NoEvent == [seen |-> FALSE, path |-> <<>>, yielded |-> FALSE]
Init ==
  /\ text = <<>> /\ made = FALSE /\ prefix = <<>>
  /\ frames = <<>> /\ pending = Diverged /\ emitting = FALSE /\ depth = 0
  /\ open = <<>> /\ over = FALSE /\ last = NoEvent

\* StreamReader::items throws when the pointer is malformed.
Items(t) ==
  /\ ~made /\ text' = t /\ made' = Accepted(t)
  /\ prefix' = IF Accepted(t) THEN ParsePrefix(t) ELSE <<>>
  /\ UNCHANGED <<frames, pending, emitting, depth, open, over, last>>

Begin(object) ==
  /\ made /\ ~over /\ ValueMayStart /\ Len(open) < MaxDepth
  /\ \/ /\ emitting /\ depth' = depth + 1 /\ UNCHANGED emitting
        /\ frames' = Append(frames, Frame(object, Diverged)) /\ Reports(open, TRUE)
     \/ /\ ~emitting
        /\ frames' = Append(frames, Frame(object, ChildMatchLen(<<>>)))
        /\ emitting' = (ChildMatchLen(<<>>) = Len(prefix))
        /\ depth' = IF emitting' THEN 1 ELSE depth
        /\ Reports(open, emitting')
  /\ open' = Append(open, Container(object))
  /\ UNCHANGED <<text, made, prefix, pending, over>>

\* Slip (OneFramePerContainer): the end of a container in a subtree that is
\* passed on leaves its frame.
FramesAfterEndKeeps == IF emitting /\ depth > 1 THEN frames ELSE NextIndex(Front(frames))
FramesAfterEnd == NextIndex(Front(frames))
End ==
  /\ made /\ ~over /\ open # <<>> /\ ~Last(open).due
  /\ frames' = FramesAfterEnd
  /\ \/ /\ emitting /\ depth' = depth - 1 /\ emitting' = (depth > 1)
        /\ Reports(Front(open), TRUE)
     \/ ~emitting /\ Reports(Front(open), FALSE) /\ UNCHANGED <<emitting, depth>>
  /\ open' = AfterChild(Front(open))
  /\ UNCHANGED <<text, made, prefix, pending, over>>

MapKey(key) ==
  /\ made /\ ~over /\ open # <<>> /\ Last(open).object /\ ~Last(open).due
  /\ pending' = IF emitting THEN pending ELSE KeyMatchLen(key)
  /\ Reports(Front(open), emitting)
  /\ open' = [open EXCEPT ![Len(open)].key = key, ![Len(open)].due = TRUE]
  /\ UNCHANGED <<text, made, prefix, frames, emitting, depth, over>>

Scalar(t) ==
  /\ made /\ ~over /\ ValueMayStart
  /\ \/ emitting /\ Reports(open, TRUE) /\ UNCHANGED <<frames, pending>>
     \/ /\ ~emitting /\ Reports(open, ChildMatchLen(t) = Len(prefix))
        /\ frames' = NextIndex(frames) /\ pending' = Diverged
  /\ open' = AfterChild(open)
  /\ UNCHANGED <<text, made, prefix, emitting, depth, over>>

\* The reader ends or fails; it never comes back.
ReaderStops ==
  /\ made /\ over' = TRUE
  /\ UNCHANGED <<text, made, cursor, open, last>>

Next ==
  \/ \E t \in PrefixTexts : Items(t)
  \/ \E object \in BOOLEAN : Begin(object)
  \/ End \/ ReaderStops
  \/ \E t \in Texts : MapKey(t) \/ Scalar(t)
Spec == Init /\ [][Next]_vars

(***************************************************************************)
(* Properties.                                                             *)
(***************************************************************************)
\* A step of a path that a token of the prefix names.
StepMatches(token, step) ==
  IF step.object THEN token.kind = "Key" /\ token.key = step.key
  ELSE ElementMatches(token, step.index)
InPrefix(path) ==
  Len(prefix) <= Len(path) /\ \A i \in 1..Len(prefix) : StepMatches(prefix[i], path[i])

\* The cursor yields an event exactly when the value the event is of, or one
\* around it, is at a path that matches the prefix, however deep, in whichever
\* top-level value, and whatever matched or diverged before.
YieldsExactly == last.seen => last.yielded = InPrefix(last.path)

\* The cursor holds one frame per open container, also inside a subtree it
\* passes on, and knows how much of that subtree is open.
OneFramePerContainer ==
  /\ Len(frames) = Len(open)
  /\ \A i \in 1..Len(frames) : frames[i].object = open[i].object
  /\ depth = IF emitting THEN Len(open) - Len(prefix) ELSE 0

\* A pointer is accepted exactly when each tilde in it starts an escape, and
\* spelling its tokens out again gives the pointer back: no byte is decoded
\* twice, no escaped slash separates.
Escape(c) == CASE c = "~" -> <<"~", "0">> [] c = "/" -> <<"~", "1">> [] OTHER -> <<c>>
Spelled(s) == <<"/">> \o FlattenSeq([i \in 1..Len(s) |-> Escape(s[i])])
WellFormed(t) ==
  t = <<>> \/ /\ t[1] = "/"
              /\ \A i \in 1..Len(t) : t[i] = "~" => i < Len(t) /\ t[i + 1] \in {"0", "1"}
PrefixDecodes ==
  ~last.seen =>
    /\ made => WellFormed(text)
    /\ ~made /\ text # <<>> => ~WellFormed(text)
    /\ made => LET tokens == Decode(text).tokens
               IN  FlattenSeq([i \in 1..Len(tokens) |-> Spelled(tokens[i])]) = text

\* Through every subtree passed on or passed by, the cursor knows where it is
\* and yields what the prefix selects.
CursorSound == YieldsExactly /\ OneFramePerContainer
=============================================================================
