---------------------------- MODULE StreamReader ----------------------------
(***************************************************************************)
(* The incremental pull reader (src/parser/stream.cpp, stream.hpp).  One   *)
(* behaviour is one reader over one input stream: the caller calls next()  *)
(* until it returns false.  The body of next() is cut where the code loops *)
(* or refills, so that every alignment of a token with a chunk boundary,   *)
(* and a read failure at every refill, is a behaviour.                     *)
(*                                                                         *)
(* A definition whose comment starts with "Slip" is no part of the         *)
(* specification: it is a mistaken version of the definition after it, and *)
(* shows that the property it names notices the mistake.                   *)
(***************************************************************************)
EXTENDS JsonBytes

CONSTANTS
  Inputs,      \* the byte sequences an input stream may deliver
  ChunkSizes,  \* the chunk_size arguments of the constructor
  Modes,       \* subset of {"SingleRoot", "MultiValue"}
  MaxDepths,   \* values of Config::max_depth, 0 = unlimited
  StripBoms,   \* values of Config::strip_bom
  StrictUtf8s, \* values of Config::strict_utf8
  ReadFaults   \* whether a read of the stream may fail (badbit)

ASSUME StreamAssumption ==
  /\ Inputs \subseteq Seq(Bytes)
  /\ ChunkSizes \subseteq Nat
  /\ Modes \subseteq {"SingleRoot", "MultiValue"}
  /\ MaxDepths \subseteq Nat
  /\ StripBoms \subseteq BOOLEAN
  /\ StrictUtf8s \subseteq BOOLEAN
  /\ ReadFaults \in BOOLEAN

VARIABLES
  cfg,     \* what the constructor captured, and the stream's content
  rd,      \* bytes extracted from the stream so far
  buf,     \* m_buf[0 .. m_len)
  pos,     \* m_pos
  base,    \* m_abs_base: stream offset of buf's first byte
  eof,     \* m_eof
  stack,   \* m_stack: the open containers
  start,   \* m_start_checked
  root,    \* m_root_done
  fin,     \* m_finished
  err,     \* m_error; its code is "None" while m_has_error is false
  pc,      \* where in next() the reader is; "idle" between two calls
  tok,     \* m_token as raw bytes (a literal's bytes in parse_literal)
  esc,     \* escaped, in parse_string_token
  anchor,  \* content_base or start_abs of the token being read
  cur,     \* cursor of the loop over the token or over the number
  ck,      \* the UTF-8 checker, in parse_string_token
  nst,     \* state of the number scan
  text,    \* m_token[0 .. m_token_len): the decoded content
  events   \* the events next() has returned

wvars   == <<rd, buf, base, eof>>
kvars   == <<tok, esc, anchor, cur, ck, nst, text>>
pvars   == <<stack, start, root, fin>>
vars    == <<cfg, wvars, pos, pvars, err, pc, kvars, events>>

Configs == [input : Inputs, chunk : ChunkSizes, mode : Modes, depth : MaxDepths,
            bom : StripBoms, strict : StrictUtf8s]

ObjectPhases == {"ObjectKeyOrEnd", "ObjectKey", "ObjectColon", "ObjectValue",
                 "ObjectCommaOrEnd"}
ArrayPhases  == {"ArrayValueOrEnd", "ArrayValue", "ArrayCommaOrEnd"}
Frames == [kind : {"Object"}, phase : ObjectPhases]
            \union [kind : {"Array"}, phase : ArrayPhases]

EventTypes == {"BeginObject", "MapKey", "EndObject", "BeginArray", "EndArray",
               "Null", "Boolean", "Integer", "Double", "String"}
Events     == [type : EventTypes, text : Seq(Decoded), raw : Seq(Bytes)]

PCs == {"idle", "bom", "sep", "ws", "string", "decode", "literal", "gate", "number"}

\* chunk_size 0 is clamped to 1.
Chunk == IF cfg.chunk = 0 THEN 1 ELSE cfg.chunk

Abs      == base + pos
Avail    == Len(buf) - pos
Peek     == buf[pos + 1]
HasError == err.code # "None"
Top      == stack[Len(stack)]

\* skip_ws has stopped: at a byte that is no whitespace, or at end of stream.
AtEof       == Avail = 0
Sees(bytes) == Avail > 0 /\ Peek \in bytes
\* Slip (SameFirstError): an exhausted window is taken for the end.
AtTokenEarly == AtEof \/ ~Sees(Whitespace)
AtToken     == IF AtEof THEN eof ELSE ~Sees(Whitespace)

(***************************************************************************)
(* fail, fail_context: the first error wins and the call returns false.    *)
(***************************************************************************)
NoOffset == -1
\* Slip (FirstErrorWins): a later error overwrites.
SetErrorAlways(code, off) == err' = [code |-> code, off |-> off]
SetError(code, off) ==
  err' = IF HasError THEN err ELSE [code |-> code, off |-> off]
Fail(code, off) == SetError(code, off) /\ pc' = "idle"

Event(type, txt, raw) == [type |-> type, text |-> txt, raw |-> raw]
Emit(ev) == events' = Append(events, ev) /\ pc' = "idle"

(***************************************************************************)
(* The window.  Refill(got) compacts the unread bytes to the front and     *)
(* appends got bytes of the stream.                                        *)
(***************************************************************************)
Remaining == Len(cfg.input) - rd

\* Slip (WindowIsSlice): the base is not advanced by what compaction drops.
RefillSameBase(got) ==
  /\ buf' = [i \in 1..(Avail + got) |->
               IF i <= Avail THEN buf[pos + i] ELSE cfg.input[rd + i - Avail]]
  /\ pos' = 0
  /\ rd' = rd + got
  /\ UNCHANGED base
\* Slip (WindowIsSlice): the base is advanced by the whole window.
RefillBaseTooFar(got) ==
  /\ buf' = [i \in 1..(Avail + got) |->
               IF i <= Avail THEN buf[pos + i] ELSE cfg.input[rd + i - Avail]]
  /\ base' = base + Len(buf)
  /\ pos' = 0
  /\ rd' = rd + got
Refill(got) ==
  /\ buf' = [i \in 1..(Avail + got) |->
               IF i <= Avail THEN buf[pos + i] ELSE cfg.input[rd + i - Avail]]
  /\ base' = base + pos
  /\ pos' = 0
  /\ rd' = rd + got

\* How many bytes ensure() or the loop in progress asks the window for.
Needed == CASE pc = "bom"     -> 3
            [] pc = "literal" -> Len(Literal(Peek))
            [] pc = "number"  -> cur + 1
            [] OTHER          -> 1

\* Slip (Termination): a refill is tried again after the end of the stream.
NeedsFillForever == /\ pc \in PCs \ {"idle", "decode"}
                    /\ Avail < Needed
                    /\ ~HasError
NeedsFill == /\ pc \in PCs \ {"idle", "decode"}
             /\ Avail < Needed
             /\ ~eof
             /\ ~HasError

\* A scan of a number that has reached the end of the window starts again.
RestartScan == /\ cur' = IF pc = "number" THEN 0 ELSE cur
               /\ nst' = IF pc = "number" THEN "start" ELSE nst
               /\ UNCHANGED <<tok, esc, anchor, ck, text>>

\* Slip (ReaderInv): a full read is taken for the last one.
FillEofEarly == /\ NeedsFill
                /\ LET got == IF Remaining < Chunk THEN Remaining ELSE Chunk
                   IN  Refill(got) /\ eof' = (got <= Chunk)
                /\ RestartScan
                /\ UNCHANGED <<cfg, pvars, err, pc, events>>
\* A short read without badbit is the end of the stream.
Fill == /\ NeedsFill
        /\ LET got == IF Remaining < Chunk THEN Remaining ELSE Chunk
           IN  Refill(got) /\ eof' = (got < Chunk)
        /\ RestartScan
        /\ UNCHANGED <<cfg, pvars, err, pc, events>>

\* Slip (CleanEndIsComplete, EventsArePrefix): badbit is not looked at.
FillFailsUnnoticed ==
  /\ ReadFaults
  /\ NeedsFill
  /\ \E got \in 0..(Chunk - 1) : got <= Remaining /\ Refill(got)
  /\ eof' = TRUE
  /\ RestartScan
  /\ UNCHANGED <<cfg, pvars, err, pc, events>>
\* A short read with badbit.  skip_ws and the loops over a string or a number
\* return at once; ensure() still succeeds when the partial read sufficed.
FillFails ==
  /\ ReadFaults
  /\ NeedsFill
  /\ \E got \in 0..(Chunk - 1) :
       /\ got <= Remaining
       /\ Refill(got)
       /\ pc' = IF pc \in {"bom", "literal", "gate"} /\ Avail + got >= Needed
                THEN pc ELSE "idle"
  /\ SetError("StreamReadFailed", NoOffset)
  /\ RestartScan
  /\ UNCHANGED <<cfg, eof, pvars, events>>

(***************************************************************************)
(* Starting a call of next().                                              *)
(***************************************************************************)
LoopStart == IF root /\ cfg.mode = "MultiValue" THEN "sep" ELSE "ws"

Pull == /\ pc = "idle"
        /\ ~fin /\ ~HasError
        /\ start' = TRUE
        /\ pc' = IF ~start /\ cfg.bom THEN "bom" ELSE LoopStart
        /\ UNCHANGED <<cfg, wvars, pos, stack, root, fin, err, kvars, events>>

\* After a clean end or a failure next() returns false and changes nothing.
PullAfterEnd == /\ pc = "idle"
                /\ fin \/ HasError
                /\ UNCHANGED vars

\* skip_start_bom: once, at offset 0; fewer than three bytes are no BOM.
SkipStartBom ==
  /\ pc = "bom"
  /\ Avail >= 3 \/ eof
  /\ pos' = IF Avail >= 3 /\ SubSeq(buf, pos + 1, pos + 3) = <<"EF", "BB", "BF">>
            THEN pos + 3 ELSE pos
  /\ pc' = IF HasError THEN "idle" ELSE LoopStart
  /\ UNCHANGED <<cfg, wvars, pvars, err, kvars, events>>

SkipWs == /\ pc = "ws"
          /\ Sees(Whitespace)
          /\ pos' = pos + 1
          /\ UNCHANGED <<cfg, wvars, pvars, err, pc, kvars, events>>

Finish == fin' = TRUE /\ pc' = "idle"

(***************************************************************************)
(* After the root value: the trailing check of SingleRoot, the separator   *)
(* check of MultiValue.                                                    *)
(***************************************************************************)
TrailingCheck ==
  /\ pc = "ws" /\ AtToken
  /\ root /\ cfg.mode = "SingleRoot"
  /\ \/ AtEof /\ Finish /\ UNCHANGED err
     \/ ~AtEof /\ Fail("ExtraCharactersAfterValue", Abs) /\ UNCHANGED fin
  /\ UNCHANGED <<cfg, wvars, pos, stack, start, root, kvars, events>>

SeparatorCheck ==
  /\ pc = "sep"
  /\ Avail > 0 \/ eof
  /\ \/ AtEof /\ Finish /\ UNCHANGED err
     \/ /\ ~AtEof /\ ~Sees(Whitespace)
        /\ Fail("ExtraCharactersAfterValue", Abs) /\ UNCHANGED fin
     \/ /\ Sees(Whitespace)
        /\ pc' = "ws" /\ UNCHANGED <<err, fin>>
  /\ UNCHANGED <<cfg, wvars, pos, stack, start, root, kvars, events>>

NextRoot ==
  /\ pc = "ws" /\ AtToken
  /\ root /\ cfg.mode = "MultiValue"
  /\ \/ AtEof /\ Finish /\ UNCHANGED root
     \/ ~AtEof /\ root' = FALSE /\ UNCHANGED <<fin, pc>>
  /\ UNCHANGED <<cfg, wvars, pos, stack, start, err, kvars, events>>

(***************************************************************************)
(* Values.                                                                 *)
(***************************************************************************)
\* complete_value on the stack s: the root is done, or the parent goes on to
\* a comma or its end.
\* Slip (SameFirstError): the parent's kind is not looked at.
CompletePhaseOfObject(kind) == "ObjectCommaOrEnd"
CompletePhase(kind) == IF kind = "Object" THEN "ObjectCommaOrEnd" ELSE "ArrayCommaOrEnd"
CompleteValue(s) ==
  /\ root' = (s = <<>>)
  /\ stack' = IF s = <<>> THEN s
              ELSE [s EXCEPT ![Len(s)].phase = CompletePhase(s[Len(s)].kind)]

SetPhase(phase) == stack' = [stack EXCEPT ![Len(stack)].phase = phase]

\* Slip (SameFirstError): off by one.
EnterContainerTooDeep(kind, phase, type) ==
  IF cfg.depth # 0 /\ Len(stack) > cfg.depth
  THEN Fail("MaxDepthExceeded", Abs) /\ UNCHANGED <<pos, stack, events>>
  ELSE /\ stack' = Append(stack, [kind |-> kind, phase |-> phase])
       /\ pos' = pos + 1
       /\ Emit(Event(type, <<>>, <<>>))
       /\ UNCHANGED err
\* enter_container: the depth is checked before the bracket is consumed.
EnterContainer(kind, phase, type) ==
  IF cfg.depth # 0 /\ Len(stack) + 1 > cfg.depth
  THEN Fail("MaxDepthExceeded", Abs) /\ UNCHANGED <<pos, stack, events>>
  ELSE /\ stack' = Append(stack, [kind |-> kind, phase |-> phase])
       /\ pos' = pos + 1
       /\ Emit(Event(type, <<>>, <<>>))
       /\ UNCHANGED err

\* Slip (SameFirstError): the content is anchored at the opening quote.
StartStringAtQuote == /\ pos' = pos + 1
                      /\ anchor' = Abs
                      /\ tok' = <<>> /\ esc' = FALSE
                      /\ pc' = "string"
                      /\ UNCHANGED <<cur, ck, nst, text>>
\* parse_string_token, up to its first loop.
StartString == /\ pos' = pos + 1
               /\ anchor' = Abs + 1
               /\ tok' = <<>> /\ esc' = FALSE
               /\ pc' = "string"
               /\ UNCHANGED <<cur, ck, nst, text>>

\* expect_value, entered with the cursor at a token.
ExpectValue(atRoot) ==
  \/ /\ AtEof
     /\ Fail(IF atRoot THEN "UnexpectedEndOfInput" ELSE "UnexpectedCharacter", Abs)
     /\ UNCHANGED <<pos, stack, events, kvars>>
  \/ /\ Sees({"{"}) /\ UNCHANGED kvars
     /\ EnterContainer("Object", "ObjectKeyOrEnd", "BeginObject")
  \/ /\ Sees({"["}) /\ UNCHANGED kvars
     /\ EnterContainer("Array", "ArrayValueOrEnd", "BeginArray")
  \/ Sees({"quote"}) /\ StartString /\ UNCHANGED <<stack, err, events>>
  \/ /\ Sees(LiteralStart)
     /\ pc' = "literal"
     /\ UNCHANGED <<pos, stack, err, events, kvars>>
  \/ /\ Sees(NumberStart)
     /\ pc' = "number" /\ cur' = 0 /\ nst' = "start"
     /\ UNCHANGED <<pos, stack, err, events, tok, esc, anchor, ck, text>>
  \/ /\ ~AtEof
     /\ ~Sees({"{", "[", "quote"} \union LiteralStart \union NumberStart)
     /\ Fail(IF atRoot THEN "UnexpectedValueCharacter" ELSE "UnexpectedCharacter", Abs)
     /\ UNCHANGED <<pos, stack, events, kvars>>

(***************************************************************************)
(* The switch of next() on the innermost container's phase.                *)
(***************************************************************************)
InPhase(phases) == /\ pc = "ws" /\ AtToken
                   /\ ~root /\ stack # <<>>
                   /\ Top.phase \in phases

RootValue ==
  /\ pc = "ws" /\ AtToken
  /\ ~root /\ stack = <<>>
  /\ IF AtEof /\ cfg.mode = "MultiValue"
     THEN Finish /\ UNCHANGED <<pos, stack, err, events, kvars>>
     ELSE ExpectValue(TRUE) /\ UNCHANGED fin
  /\ UNCHANGED <<cfg, wvars, start, root>>

\* Slip (EventProtocol): the parent is not told that its value is complete.
CloseForgetsParent(type) == /\ pos' = pos + 1
                            /\ stack' = SubSeq(stack, 1, Len(stack) - 1)
                            /\ root' = (Len(stack) = 1)
                            /\ Emit(Event(type, <<>>, <<>>))
                            /\ UNCHANGED <<cfg, wvars, start, fin, err, kvars>>
\* A closing bracket: the container's value is complete.
Close(type) == /\ pos' = pos + 1
               /\ CompleteValue(SubSeq(stack, 1, Len(stack) - 1))
               /\ Emit(Event(type, <<>>, <<>>))
               /\ UNCHANGED <<cfg, wvars, start, fin, err, kvars>>

\* A comma or a colon: consumed, and the call goes on.
Consume(phase) == /\ pos' = pos + 1
                  /\ SetPhase(phase)
                  /\ UNCHANGED <<cfg, wvars, start, root, fin, err, pc, kvars, events>>

Reject(code) == /\ Fail(code, Abs)
                /\ UNCHANGED <<cfg, wvars, pos, pvars, kvars, events>>

\* Slip (SameVerdictAsDom): a comma before the closing brace is accepted.
ObjectKeyTrailingComma ==
  /\ InPhase({"ObjectKeyOrEnd", "ObjectKey"})
  /\ \/ Sees({"}"}) /\ Close("EndObject")
     \/ /\ Sees({"quote"})
        /\ StartString
        /\ UNCHANGED <<cfg, wvars, pvars, err, events>>
     \/ ~Sees({"quote", "}"}) /\ Reject("ExpectedStringKey")
ObjectKey ==
  /\ InPhase({"ObjectKeyOrEnd", "ObjectKey"})
  /\ \/ Sees({"}"}) /\ Top.phase = "ObjectKeyOrEnd" /\ Close("EndObject")
     \/ /\ Sees({"quote"})
        /\ StartString
        /\ UNCHANGED <<cfg, wvars, pvars, err, events>>
     \/ /\ ~Sees(IF Top.phase = "ObjectKey" THEN {"quote"} ELSE {"quote", "}"})
        /\ Reject("ExpectedStringKey")

ObjectColon ==
  /\ InPhase({"ObjectColon"})
  /\ \/ Sees({":"}) /\ Consume("ObjectValue")
     \/ ~Sees({":"}) /\ Reject("ExpectedColon")

\* Slip (SameFirstError): the end of input is any other byte.
ObjectCommaOrEndAnyByte ==
  /\ InPhase({"ObjectCommaOrEnd"})
  /\ \/ Sees({"}"}) /\ Close("EndObject")
     \/ Sees({","}) /\ Consume("ObjectKey")
     \/ ~Sees({"}", ","}) /\ Reject("ExpectedCommaOrBrace")
ObjectCommaOrEnd ==
  /\ InPhase({"ObjectCommaOrEnd"})
  /\ \/ AtEof /\ Reject("UnexpectedEndOfObject")
     \/ Sees({"}"}) /\ Close("EndObject")
     \/ Sees({","}) /\ Consume("ObjectKey")
     \/ ~AtEof /\ ~Sees({"}", ","}) /\ Reject("ExpectedCommaOrBrace")

MemberOrElement ==
  /\ InPhase({"ObjectValue", "ArrayValueOrEnd", "ArrayValue"})
  /\ IF Sees({"]"}) /\ Top.phase = "ArrayValueOrEnd"
     THEN Close("EndArray")
     ELSE ExpectValue(FALSE) /\ UNCHANGED <<cfg, wvars, start, root, fin>>

ArrayCommaOrEnd ==
  /\ InPhase({"ArrayCommaOrEnd"})
  /\ \/ Sees({"]"}) /\ Close("EndArray")
     \/ Sees({","}) /\ Consume("ArrayValue")
     \/ ~Sees({"]", ","}) /\ Reject("ExpectedCommaOrBracket")

(***************************************************************************)
(* Scalars.  A scalar completes the value slot it was read for.            *)
(***************************************************************************)
EmitScalar(ev) == /\ CompleteValue(stack)
                  /\ Emit(ev)
                  /\ UNCHANGED <<cfg, wvars, start, fin, err>>

\* Slip (SameVerdictAsDom): an escaped backslash escapes the next byte.
StringByteAlwaysEscapes ==
  /\ pc = "string" /\ Avail > 0
  /\ esc \/ Peek # "quote"
  /\ pos' = pos + 1
  /\ tok' = Append(tok, Peek)
  /\ esc' = (Peek = "bs")
  /\ UNCHANGED <<cfg, wvars, pvars, err, pc, anchor, cur, ck, nst, text, events>>
\* parse_string_token, first loop: gather the raw bytes up to the closing
\* quote, over as many refills as it takes.
StringByte ==
  /\ pc = "string" /\ Avail > 0
  /\ esc \/ Peek # "quote"
  /\ pos' = pos + 1
  /\ tok' = Append(tok, Peek)
  /\ esc' = (~esc /\ Peek = "bs")
  /\ UNCHANGED <<cfg, wvars, pvars, err, pc, anchor, cur, ck, nst, text, events>>

StringEof ==
  /\ pc = "string" /\ Avail = 0 /\ eof
  /\ Reject("UnterminatedString")

HasEscape    == \E i \in 1..Len(tok) : tok[i] = "bs"
FirstControl(i) == /\ tok[i] \in Control
                   /\ \A k \in 1..(i - 1) : tok[k] \notin Control

\* The closing quote.  Without an escape a raw control byte is reported
\* before the UTF-8 check; otherwise the decode loop runs.
StringQuote ==
  /\ pc = "string" /\ Avail > 0
  /\ ~esc /\ Peek = "quote"
  /\ pos' = pos + 1
  /\ \/ \E i \in 1..Len(tok) :
          /\ ~HasEscape /\ FirstControl(i)
          /\ Fail("UnescapedControl", anchor + i - 1)
          /\ UNCHANGED <<cur, ck, text>>
     \/ /\ HasEscape \/ \A i \in 1..Len(tok) : tok[i] \notin Control
        /\ pc' = "decode" /\ cur' = 1 /\ ck' = Utf8Start /\ text' = <<>>
        /\ UNCHANGED err
  /\ UNCHANGED <<cfg, wvars, pvars, tok, esc, anchor, nst, events>>

\* Slip (SameFirstError): every error is reported at the cursor.
DecodeByteAtCursor ==
  /\ pc = "decode" /\ cur <= Len(tok)
  /\ LET b == tok[cur]
         k == IF cfg.strict THEN Utf8Feed(ck, b, cur) ELSE ck
         r == HandleEscape(tok, cur)
         code == IF k.code # "None" THEN k.code
                 ELSE IF b = "bs" THEN r.code
                 ELSE IF b \in Control THEN "UnescapedControl" ELSE "None"
     IN  \/ code # "None" /\ Fail(code, anchor + cur - 1) /\ UNCHANGED <<cur, ck, text>>
         \/ /\ code = "None"
            /\ cur' = IF b = "bs" THEN r.next ELSE cur + 1
            /\ text' = IF b = "bs" THEN text \o r.out ELSE Append(text, Copied(b))
            /\ ck' = k
            /\ UNCHANGED <<err, pc>>
  /\ UNCHANGED <<cfg, wvars, pos, pvars, tok, esc, anchor, nst, events>>
\* parse_string_token, second loop: one raw byte or one escape.
DecodeByte ==
  /\ pc = "decode" /\ cur <= Len(tok)
  /\ LET b == tok[cur]
         k == IF cfg.strict THEN Utf8Feed(ck, b, cur) ELSE ck
         r == HandleEscape(tok, cur)
     IN  \/ /\ k.code # "None"
            /\ Fail(k.code, anchor + k.at - 1) /\ UNCHANGED <<cur, ck, text>>
         \/ /\ k.code = "None" /\ b = "bs" /\ r.code # "None"
            /\ Fail(r.code, anchor + r.at - 1) /\ UNCHANGED <<cur, ck, text>>
         \/ /\ k.code = "None" /\ b = "bs" /\ r.code = "None"
            /\ cur' = r.next /\ text' = text \o r.out /\ ck' = k
            /\ UNCHANGED <<err, pc>>
         \/ /\ k.code = "None" /\ b \in Control
            /\ Fail("UnescapedControl", anchor + cur - 1) /\ UNCHANGED <<cur, ck, text>>
         \/ /\ k.code = "None" /\ b \notin Control \union {"bs"}
            /\ cur' = cur + 1 /\ text' = Append(text, Copied(b)) /\ ck' = k
            /\ UNCHANGED <<err, pc>>
  /\ UNCHANGED <<cfg, wvars, pos, pvars, tok, esc, anchor, nst, events>>

IsKey == stack # <<>> /\ Top.phase \in {"ObjectKeyOrEnd", "ObjectKey"}

\* The end of the decode loop: a key leads to its colon, a value is complete.
DecodeEnd ==
  /\ pc = "decode" /\ cur > Len(tok)
  /\ LET k == IF cfg.strict THEN Utf8End(ck) ELSE ck
     IN  \/ /\ k.code # "None"
            /\ Fail(k.code, anchor + k.at - 1)
            /\ UNCHANGED <<cfg, wvars, pvars, events>>
         \/ /\ k.code = "None" /\ IsKey
            /\ SetPhase("ObjectColon")
            /\ Emit(Event("MapKey", text, <<>>))
            /\ UNCHANGED <<cfg, wvars, start, root, fin, err>>
         \/ /\ k.code = "None" /\ ~IsKey
            /\ EmitScalar(Event("String", text, <<>>))
  /\ UNCHANGED <<pos, kvars>>

\* parse_literal, up to the byte after the literal.
LiteralWord ==
  /\ pc = "literal"
  /\ LET lit == Literal(Peek)
     IN  /\ Avail >= Len(lit) \/ eof
         /\ IF MatchLiteral(buf, pos + 1, lit)
            THEN /\ pos' = pos + Len(lit) /\ tok' = lit /\ pc' = "gate"
                 /\ UNCHANGED err
            ELSE Fail("InvalidLiteral", Abs) /\ UNCHANGED <<pos, tok>>
  /\ UNCHANGED <<cfg, wvars, pvars, esc, anchor, cur, ck, nst, text, events>>

\* Slip (SameFirstError): the byte after the literal is looked for in the
\* window only.
LiteralGateInWindow ==
  /\ pc = "gate"
  /\ \/ /\ ~AtEof /\ ~Sees(ValidAfterLiteral)
        /\ Fail("InvalidLiteralTrailing", Abs)
        /\ UNCHANGED <<cfg, wvars, pvars, events>>
     \/ /\ AtEof \/ Sees(ValidAfterLiteral)
        /\ EmitScalar(Event(IF tok[1] = "n" THEN "Null" ELSE "Boolean", <<>>, tok))
  /\ UNCHANGED <<pos, kvars>>
\* The byte after the literal: end of stream passes, a read that failed before
\* delivering it ends the call without an event.
LiteralGate ==
  /\ pc = "gate"
  /\ ~NeedsFill
  /\ \/ /\ ~AtEof /\ ~Sees(ValidAfterLiteral)
        /\ Fail("InvalidLiteralTrailing", Abs)
        /\ UNCHANGED <<cfg, wvars, pvars, events>>
     \/ /\ AtEof /\ HasError
        /\ pc' = "idle"
        /\ UNCHANGED <<cfg, wvars, pvars, err, events>>
     \/ /\ Sees(ValidAfterLiteral) \/ (AtEof /\ ~HasError)
        /\ EmitScalar(Event(IF tok[1] = "n" THEN "Null" ELSE "Boolean", <<>>, tok))
  /\ UNCHANGED <<pos, kvars>>

\* parse_number: the scan over the window; m_pos stays at the token's start.
NumberByte ==
  /\ pc = "number" /\ cur < Avail
  /\ NumberStep(nst, buf[pos + cur + 1]) # "stop"
  /\ cur' = cur + 1
  /\ nst' = NumberStep(nst, buf[pos + cur + 1])
  /\ UNCHANGED <<cfg, wvars, pos, pvars, err, pc, tok, esc, anchor, ck, text, events>>

\* Slip (SameFirstError): a number ends where the window ends.
NumberEndInWindow ==
  /\ pc = "number"
  /\ cur < Avail => NumberStep(nst, buf[pos + cur + 1]) = "stop"
  /\ LET raw == SubSeq(buf, pos + 1, pos + cur)
         code == IF NumberError(nst) # "None" THEN NumberError(nst) ELSE ClassifyNumber(raw)
     IN  \/ /\ code \notin EventTypes
            /\ Fail(code, IF code = "NumberOutOfRange" THEN Abs ELSE Abs + cur)
            /\ UNCHANGED <<cfg, wvars, pos, pvars, events>>
         \/ /\ code \in EventTypes
            /\ pos' = pos + cur
            /\ EmitScalar(Event(code, <<>>, raw))
  /\ UNCHANGED kvars
\* The scan stopped before the end of the window, or at the end of stream.
NumberEnd ==
  /\ pc = "number"
  /\ \/ cur < Avail /\ NumberStep(nst, buf[pos + cur + 1]) = "stop"
     \/ cur = Avail /\ eof
  /\ LET raw == SubSeq(buf, pos + 1, pos + cur)
     IN  \/ /\ NumberError(nst) # "None"
            /\ Fail(NumberError(nst), Abs + cur)
            /\ UNCHANGED <<cfg, wvars, pos, pvars, events>>
         \/ /\ NumberError(nst) = "None" /\ ClassifyNumber(raw) = "NumberOutOfRange"
            /\ Fail("NumberOutOfRange", Abs)
            /\ UNCHANGED <<cfg, wvars, pos, pvars, events>>
         \/ /\ NumberError(nst) = "None" /\ ClassifyNumber(raw) # "NumberOutOfRange"
            /\ pos' = pos + cur
            /\ EmitScalar(Event(ClassifyNumber(raw), <<>>, raw))
  /\ UNCHANGED kvars

(***************************************************************************)
(* The specification.                                                      *)
(***************************************************************************)
Init ==
  /\ cfg \in Configs
  /\ rd = 0 /\ buf = <<>> /\ pos = 0 /\ base = 0 /\ eof = FALSE
  /\ stack = <<>> /\ start = FALSE /\ root = FALSE /\ fin = FALSE
  /\ err = [code |-> "None", off |-> NoOffset]
  /\ pc = "idle"
  /\ tok = <<>> /\ esc = FALSE /\ anchor = 0 /\ cur = 0 /\ ck = Utf8Start
  /\ nst = "start" /\ text = <<>>
  /\ events = <<>>

Step ==
  \/ Pull \/ Fill \/ FillFails \/ SkipStartBom \/ SkipWs
  \/ TrailingCheck \/ SeparatorCheck \/ NextRoot \/ RootValue
  \/ ObjectKey \/ ObjectColon \/ ObjectCommaOrEnd
  \/ MemberOrElement \/ ArrayCommaOrEnd
  \/ StringByte \/ StringEof \/ StringQuote \/ DecodeByte \/ DecodeEnd
  \/ LiteralWord \/ LiteralGate \/ NumberByte \/ NumberEnd

Next == Step \/ PullAfterEnd

Spec == Init /\ [][Next]_vars

\* The caller drains the reader (for_each_event and the documented loop call
\* next() until it returns false), and a call of next() runs to its return.
FairSpec == Spec /\ WF_vars(Step)

(***************************************************************************)
(* Properties.                                                             *)
(***************************************************************************)
ErrorCodes ==
  {"None", "StreamReadFailed", "ExtraCharactersAfterValue", "UnexpectedEndOfInput",
   "UnexpectedCharacter", "UnexpectedValueCharacter", "MaxDepthExceeded",
   "ExpectedStringKey", "ExpectedColon", "UnexpectedEndOfObject",
   "ExpectedCommaOrBrace", "ExpectedCommaOrBracket", "UnterminatedString",
   "UnescapedControl", "InvalidEscapeChar", "InvalidHexDigit", "LoneLowSurrogate",
   "ExpectedLowSurrogate", "InvalidSurrogatePair", "Utf8Overlong", "Utf8Surrogate",
   "Utf8ExceedsMax", "Utf8InvalidLead", "Utf8InvalidContinuation", "Utf8Truncated",
   "InvalidLiteral", "InvalidLiteralTrailing", "NumberNoIntDigits",
   "NumberLeadingZero", "NumberNoFracDigits", "NumberNoExpDigits", "NumberOutOfRange"}

\* Every variable has its type (the members of StreamReader, stream.hpp).
TypeOK ==
  /\ cfg \in Configs
  /\ rd \in Nat /\ pos \in Nat /\ base \in Nat /\ anchor \in Nat /\ cur \in Nat
  /\ buf \in Seq(Bytes) /\ tok \in Seq(Bytes)
  /\ eof \in BOOLEAN /\ start \in BOOLEAN /\ root \in BOOLEAN /\ fin \in BOOLEAN
  /\ esc \in BOOLEAN
  /\ stack \in Seq(Frames)
  /\ err \in [code : ErrorCodes, off : Nat \union {NoOffset}]
  /\ pc \in PCs
  /\ nst \in NumberStates
  /\ ck \in [need : 0..3, lead : Nat, by : Leads, code : {"None"}, at : {0}]
  /\ text \in Seq(Decoded)
  /\ events \in Seq(Events)

\* fill() never loses, repeats or shifts a byte: over any number of
\* compactions the window holds the stream's bytes from m_abs_base on, it
\* ends where the stream has been read to, and abs() is the cursor's offset.
WindowIsSlice ==
  /\ pos <= Len(buf)
  /\ base + Len(buf) = rd
  /\ rd <= Len(cfg.input)
  /\ \A i \in 1..Len(buf) : buf[i] = cfg.input[base + i]

\* A string token gathered across refills is the stream's bytes from its
\* opening quote on: the reader is exactly at its end while it gathers, and
\* one past it, behind the closing quote, while it decodes
\* (parse_string_token: "grown in m_token rather than truncated").
TokenIsSource ==
  pc \in {"string", "decode"} =>
    /\ anchor + Len(tok) = IF pc = "string" THEN Abs ELSE Abs - 1
    /\ \A i \in 1..Len(tok) : tok[i] = cfg.input[anchor + i]

\* The decode loop writes into the buffer it reads from; what it has written
\* never reaches the byte it reads next (parse_string_token: "destination <=
\* source, so writes never clobber unread input").
DecodeBehindCursor ==
  pc = "decode" => Len(text) < cur /\ cur <= Len(tok) + 1

\* The offset of an error is the offset of a byte that was read, or of the
\* end of what was read, whatever refills happened since the token began.
ErrorWithinRead == err.off <= rd

\* A clean end is reported only when the whole stream was read and consumed
\* and no container is open; a failed read is never a clean end.
CleanEndIsComplete ==
  fin => rd = Len(cfg.input) /\ Abs = rd /\ stack = <<>> /\ ~HasError

\* enter_container keeps the nesting within max_depth.
DepthBounded == cfg.depth # 0 => Len(stack) <= cfg.depth

(***************************************************************************)
(* The inductive invariant: the properties above, by the state they are    *)
(* about, with what keeps them true.  An end of stream was seen only after *)
(* the whole input was read; a complete root leaves no container open; an  *)
(* error ends the call, except in the three places that go on after a      *)
(* partial read; a number's scan and an open UTF-8 sequence stay inside    *)
(* the bytes at hand.                                                      *)
(***************************************************************************)
WindowInv ==
  /\ cfg \in Configs
  /\ rd \in Nat /\ pos \in Nat /\ base \in Nat
  /\ buf \in Seq(Bytes)
  /\ eof \in BOOLEAN
  /\ WindowIsSlice
  /\ eof => rd = Len(cfg.input)

StackInv ==
  /\ stack \in Seq(Frames)
  /\ start \in BOOLEAN /\ root \in BOOLEAN
  /\ root => stack = <<>>
  /\ DepthBounded

ControlInv ==
  /\ pc \in PCs
  /\ fin \in BOOLEAN
  /\ err \in [code : ErrorCodes, off : Nat \union {NoOffset}]
  /\ HasError => pc \in {"idle", "bom", "literal", "gate"}
  /\ fin => pc = "idle"
  /\ pc = "sep" => root
  /\ ErrorWithinRead
  /\ CleanEndIsComplete

TokenInv ==
  /\ tok \in Seq(Bytes) /\ text \in Seq(Decoded)
  /\ esc \in BOOLEAN
  /\ anchor \in Nat /\ cur \in Nat
  /\ nst \in NumberStates
  /\ ck \in [need : 0..3, lead : Nat, by : Leads, code : {"None"}, at : {0}]
  /\ TokenIsSource
  /\ DecodeBehindCursor
  /\ pc = "decode" /\ ck.need # 0 => 1 <= ck.lead /\ ck.lead <= Len(tok)
  /\ pc = "number" => cur <= Avail

ReaderInv ==
  WindowInv /\ StackInv /\ ControlInv /\ TokenInv /\ events \in Seq(Events)

\* The first error recorded is the one the reader keeps, also when a literal
\* that came with a failed read turns out to be malformed.
FirstErrorWins == [][HasError => err' = err]_vars

\* Every drained reader ends: cleanly or with an error.
Termination == <>(fin \/ HasError)
=============================================================================
