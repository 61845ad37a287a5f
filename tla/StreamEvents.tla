---------------------------- MODULE StreamEvents ----------------------------
(***************************************************************************)
(* The event protocol of the pull reader (EventType in stream.hpp), as a   *)
(* replay of the events by their consumer: for each open container whether *)
(* a key, a value or an element comes next.                                *)
(***************************************************************************)
EXTENDS StreamReader, SequencesExt

Slots == {"key", "value", "element", "broken"}

\* An event fits when the innermost open container waits for it.
Fits(open, type) ==
  LET top == IF open = <<>> THEN "none" ELSE Last(open)
  IN  CASE type \in {"MapKey", "EndObject"} -> top = "key"
        [] type = "EndArray"                -> top = "element"
        [] OTHER                            -> top \notin {"key", "broken"}

AfterValue(open) ==
  IF open # <<>> /\ Last(open) = "value" THEN Append(Front(open), "key") ELSE open

Replay(open, ev) ==
  IF ~Fits(open, ev.type) THEN <<"broken">>
  ELSE CASE ev.type = "MapKey"                      -> Append(Front(open), "value")
         [] ev.type \in {"EndObject", "EndArray"}   -> AfterValue(Front(open))
         [] ev.type = "BeginObject"                 -> Append(open, "key")
         [] ev.type = "BeginArray"                  -> Append(open, "element")
         [] OTHER                                   -> AfterValue(open)

\* What a frame on the reader's stack is to its consumer.
Slot(frame) ==
  IF frame.kind = "Array" THEN "element"
  ELSE IF frame.phase \in {"ObjectColon", "ObjectValue"} THEN "value" ELSE "key"
SlotsOf(s) == [i \in 1..Len(s) |-> Slot(s[i])]

\* At every moment the events returned so far are well nested, every key has
\* its value, and the containers the consumer sees open are the frames on the
\* reader's stack, on valid and on invalid input, and when reads fail.
EventProtocol ==
  FoldLeft(Replay, <<>>, events) = SlotsOf(stack)

(***************************************************************************)
(* What keeps it: a scalar is read only where a value is due, a string     *)
(* where a value or a key is.                                              *)
(***************************************************************************)
ValueDue == stack # <<>> => Top.phase \in {"ObjectValue", "ArrayValueOrEnd", "ArrayValue"}
ReadsWhatIsDue ==
  /\ pc \in {"literal", "gate", "number"} => ValueDue
  /\ pc \in {"string", "decode"} => ValueDue \/ IsKey

InStep == ReadsWhatIsDue /\ EventProtocol
=============================================================================
