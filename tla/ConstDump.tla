----------------------------- MODULE ConstDump -----------------------------
(***************************************************************************)
(* The compile-time dump (json_constexpr.hpp): one traversal into either   *)
(* of two sinks, one that counts and one that fills a buffer.              *)
(***************************************************************************)
EXTENDS Writer

\* int64_t, scaled down to IntMin .. -IntMin - 1.
IntMin == -81
Wrap(n) == ((n - IntMin) % (-2 * IntMin)) + IntMin

RECURSIVE HasDouble(_)
HasDouble(v) == v.type = "Floating" \/ \E i \in 1..Len(v.items) : HasDouble(v.items[i].val)

\* const_dump_int: the digits of the magnitude, lowest first, then reversed.
RECURSIVE LowestFirst(_)
LowestFirst(m) == <<Hex(m % 10)>> \o IF m \div 10 = 0 THEN <<>> ELSE LowestFirst(m \div 10)

\* Slip (ConstSameAsRuntime): the one taken to avoid the overflow is not given back.
MagnitudeOfShort(n) == IF n < 0 THEN Wrap(-(n + 1)) ELSE n

MagnitudeOf(n) == IF n < 0 THEN Wrap(-(n + 1)) + 1 ELSE n
ConstInt(n) == (IF n < 0 THEN <<"-">> ELSE <<>>) \o Reverse(LowestFirst(MagnitudeOf(n)))

\* const_dump_string.
ConstString(s) ==
  <<"quote">>
    \o FlattenSeq([i \in 1..Len(s) |-> IF NeedsEscape(s[i]) THEN AppendEscape(s[i])
                                       ELSE <<Name(s[i])>>])
    \o <<"quote">>

\* const_dump_to: everything that is put, in order.
RECURSIVE ConstText(_)
ConstItems(v) ==
  FlattenSeq([i \in 1..Len(v.items) |->
                (IF i = 1 THEN <<>> ELSE <<",">>)
                  \o (IF IsObject(v) THEN Append(ConstString(v.items[i].key), ":") ELSE <<>>)
                  \o ConstText(v.items[i].val)])
ConstText(v) ==
  CASE v.type = "Null"    -> Literal("n")
    [] v.type = "Boolean" -> Literal(IF v.num = 1 THEN "t" ELSE "f")
    [] v.type = "Integer" -> ConstInt(v.num)
    [] IsString(v)        -> ConstString(v.text)
    [] IsArray(v)         -> <<"[">> \o ConstItems(v) \o <<"]">>
    [] IsObject(v)        -> <<"{">> \o ConstItems(v) \o <<"}">>

\* The two sinks.
ConstDumpSize(v) == Len(ConstText(v))

\* Slip (FitsExactly): the last byte is kept back for a terminator.
PutByteTerminated(b, byte) ==
  IF Len(b.data) + 1 # b.cap THEN [b EXCEPT !.data = Append(@, byte)]
  ELSE [b EXCEPT !.overflow = TRUE]

PutByte(b, byte) ==
  IF Len(b.data) # b.cap THEN [b EXCEPT !.data = Append(@, byte)]
  ELSE [b EXCEPT !.overflow = TRUE]
BufSink(v, cap) == FoldLeft(PutByte, [data |-> <<>>, cap |-> cap, overflow |-> FALSE], ConstText(v))

\* const_dump into a caller's buffer returns written, or 0 on overflow; the
\* ConstJsonText form takes a 0 for an overflow.
Written(b)   == IF b.overflow THEN 0 ELSE Len(b.data)
ConstTextOf(b, n) == [data |-> b.data, size |-> n, overflow |-> n = 0]

\* find: the first entry of the key whose value has that type.

\* Slip (ConstFindsFirst): the type is not looked at.
ConstFindAny(v, key, type) == SelectInSeq(v.items, LAMBDA e : e.key = key)

ConstFind(v, key, type) ==
  SelectInSeq(v.items, LAMBDA e : e.key = key /\ e.val.type = type)
=============================================================================
