-------------------------- MODULE StreamItemsProofs --------------------------
(***************************************************************************)
(* Proofs about StreamItems: for any pointers, any texts and any nesting,  *)
(* the cursor holds one frame per open container and yields exactly the    *)
(* events of the values the prefix selects (CursorSound).  A pointer is    *)
(* accepted exactly when it is well-formed, and is what its decoded tokens *)
(* spell (PrefixDecodes).                                                  *)
(***************************************************************************)
EXTENDS StreamItems, Induction

(***************************************************************************)
(* parse_prefix: decoding is a run over the bytes of the pointer.          *)
(***************************************************************************)
Chars == STRING \union {"~", "/", "0", "1"}
Decoded == [tokens : Seq(Seq(Chars)), esc : BOOLEAN, ok : BOOLEAN]
Undecoded == [tokens |-> <<>>, esc |-> FALSE, ok |-> TRUE]

LEMMA DecodeByteType ==
  ASSUME NEW d \in Decoded, NEW c \in Chars
  PROVE  DecodeByte(d, c) \in Decoded
<1>1. ASSUME NEW b \in Chars PROVE Extend(d, b) \in Decoded
  <2> DEFINE n == Len(d.tokens)
             old == d.tokens[n]
             new == [d.tokens EXCEPT ![n] = Append(old, b)]
  <2>1. d.tokens \in Seq(Seq(Chars)) /\ n \in Nat
    BY DEF Decoded
  <2>2. new \in Seq(Seq(Chars))
    <3>1. CASE n = 0
      <4>1. new = d.tokens
        BY <2>1, <3>1
      <4> QED BY <2>1, <4>1
    <3>2. CASE n # 0
      <4>1. old \in Seq(Chars)
        BY <2>1, <3>2
      <4>2. Append(old, b) \in Seq(Chars)
        BY <4>1
      <4> QED BY <2>1, <3>2, <4>2
    <3> QED BY <3>1, <3>2
  <2>3. Extend(d, b) = [d EXCEPT !.tokens = new, !.esc = FALSE]
    BY DEF Extend, Decoded
  <2> HIDE DEF new
  <2> QED BY <2>2, <2>3 DEF Decoded
<1>2. [d EXCEPT !.ok = FALSE] \in Decoded /\ [d EXCEPT !.esc = TRUE] \in Decoded
  BY DEF Decoded
<1>3. [d EXCEPT !.tokens = Append(@, <<>>)] \in Decoded
  <2>1. Append(d.tokens, <<>>) \in Seq(Seq(Chars))
    BY DEF Decoded
  <2> QED BY <2>1 DEF Decoded
<1>4. "~" \in Chars /\ "/" \in Chars
  BY DEF Chars
<1> QED BY <1>1, <1>2, <1>3, <1>4 DEF DecodeByte

LEMMA DecodeRuns ==
  ASSUME NEW t \in Seq(Chars)
  PROVE  \E run \in [0..Len(t) -> Decoded] :
           /\ run[0] = Undecoded /\ run[Len(t)] = Decode(t)
           /\ \A k \in 1..Len(t) : run[k] = DecodeByte(run[k - 1], t[k])
<1> DEFINE n == Len(t)
           g == [p \in Decoded \X Chars |-> DecodeByte(p[1], p[2])]
           Table(it) == it = [s \in SUBSET (1..n) |-> IF s = {} THEN Undecoded
                              ELSE DecodeByte(it[s \ {Max(s)}], t[Max(s)])]
           iter == CHOOSE it : Table(it)
<1>1. n \in Nat /\ DOMAIN t = 1..n /\ \A i \in 1..n : t[i] \in Chars
  OBVIOUS
<1>2. Decode(t) = iter[1..n]
  BY <1>1 DEF Decode, FoldLeft, MapThenFoldSet, Undecoded
<1>3. Undecoded \in Decoded
  BY DEF Undecoded, Decoded
<1>4. g \in [Decoded \X Chars -> Decoded]
  BY DecodeByteType
<1>5. \A d \in Decoded, c \in Chars : g[<<d, c>>] = DecodeByte(d, c)
  OBVIOUS
<1> HIDE DEF g
<1>6. Table(iter)
  <2>1. PICK h \in [SUBSET (1..n) -> Decoded] : IsTable(h, n, Undecoded, g, t)
    BY <1>1, <1>3, <1>4, TableExists
  <2>2. ASSUME NEW s \in SUBSET (1..n), s # {}
        PROVE  g[<<h[s \ {Max(s)}], t[Max(s)]>>] = DecodeByte(h[s \ {Max(s)}], t[Max(s)])
    <3>1. Max(s) \in 1..n
      BY <1>1, <2>2, GreatestNumber
    <3>2. h[s \ {Max(s)}] \in Decoded /\ t[Max(s)] \in Chars
      BY <1>1, <3>1
    <3> QED BY <1>5, <3>2
  <2>3. Table(h)
    BY <2>1, <2>2 DEF IsTable
  <2> HIDE DEF Table
  <2> QED BY <2>3
<1> HIDE DEF iter
<1>7. Unfolds(iter, n, Undecoded, g, Decoded, t)
  <2>1. ASSUME NEW s \in SUBSET (1..n)
        PROVE  /\ s = {} => iter[s] = Undecoded
               /\ s # {} => iter[s] = DecodeByte(iter[s \ {Max(s)}], t[Max(s)])
    BY <1>6, Zenon
  <2>2. ASSUME NEW s \in SUBSET (1..n), s # {}, iter[s \ {Max(s)}] \in Decoded
        PROVE  iter[s] = g[<<iter[s \ {Max(s)}], t[Max(s)]>>]
    <3>1. Max(s) \in 1..n
      BY <1>1, <2>2, GreatestNumber
    <3>2. t[Max(s)] \in Chars
      BY <1>1, <3>1
    <3> QED BY <1>5, <2>1, <2>2, <3>2
  <2> HIDE DEF n, Table
  <2> QED BY <2>1, <2>2 DEF Unfolds
<1> HIDE DEF Table
<1>8. RunsTo(n, Decoded, Undecoded, g, t, iter[1..n])
  BY <1>1, <1>3, <1>4, <1>7, UnfoldsRuns
<1> HIDE DEF n
<1>9. PICK run \in [0..n -> Decoded] : IsRun(run, n, Undecoded, g, t) /\ run[n] = iter[1..n]
  BY <1>8 DEF RunsTo
<1>10. \A k \in 1..n : run[k] = DecodeByte(run[k - 1], t[k])
  <2> SUFFICES ASSUME NEW k \in 1..n PROVE run[k] = DecodeByte(run[k - 1], t[k])
    OBVIOUS
  <2>1. k - 1 \in 0..n /\ t[k] \in Chars
    BY <1>1
  <2>2. run[k - 1] \in Decoded
    BY <1>9, <2>1
  <2> QED BY <1>5, <1>9, <2>1, <2>2 DEF IsRun
<1> QED BY <1>2, <1>9, <1>10 DEF n, IsRun

(***************************************************************************)
(* Spelling the tokens out again.                                          *)
(***************************************************************************)
Respelled(tokens) == FlattenSeq([i \in 1..Len(tokens) |-> Spelled(tokens[i])])
\* The pointer as far as it is decoded, an escape just begun included.
SoFar(d) == IF d.esc THEN Append(Respelled(d.tokens), "~") ELSE Respelled(d.tokens)

LEMMA EscapeType ==
  ASSUME NEW c \in Chars
  PROVE  Escape(c) \in Seq(Chars)
<1>1. {"~", "/", "0", "1"} \subseteq Chars
  BY DEF Chars
<1>2. <<"~", "0">> \in Seq(Chars) /\ <<"~", "1">> \in Seq(Chars) /\ <<c>> \in Seq(Chars)
  BY <1>1
<1> QED BY <1>2 DEF Escape

\* Mapping a sequence by an operator and appending commute.
LEMMA SpelledAppend ==
  ASSUME NEW s \in Seq(Chars), NEW c \in Chars
  PROVE  Spelled(s) \in Seq(Chars) /\ Spelled(Append(s, c)) = Spelled(s) \o Escape(c)
<1> DEFINE q == [i \in 1..Len(s) |-> Escape(s[i])]
           r == [i \in 1..Len(Append(s, c)) |-> Escape(Append(s, c)[i])]
<1>1. \A i \in 1..Len(s) : Escape(s[i]) \in Seq(Chars)
  BY EscapeType
<1>2. q \in Seq(Seq(Chars)) /\ Escape(c) \in Seq(Chars)
  BY <1>1, EscapeType
<1>3. r = Append(q, Escape(c))
  OBVIOUS
<1>4. FlattenSeq(q) \in Seq(Chars) /\ FlattenSeq(Append(q, Escape(c))) = FlattenSeq(q) \o Escape(c)
  BY <1>2, FlattenAppend
<1>5. Spelled(s) = <<"/">> \o FlattenSeq(q) /\ Spelled(Append(s, c)) = <<"/">> \o FlattenSeq(r)
  BY DEF Spelled
<1> HIDE DEF q, r
<1>6. <<"/">> \in Seq(Chars)
  BY DEF Chars
<1>7. \A a, b, e \in Seq(Chars) : a \o b \in Seq(Chars) /\ (a \o b) \o e = a \o (b \o e)
  OBVIOUS
<1> DEFINE slash == <<"/">>
           f == FlattenSeq(q)
           e == Escape(c)
<1>8. slash \in Seq(Chars) /\ f \in Seq(Chars) /\ e \in Seq(Chars)
  BY <1>2, <1>4, <1>6
<1>9. Spelled(s) = slash \o f /\ Spelled(Append(s, c)) = slash \o (f \o e)
  BY <1>3, <1>4, <1>5
<1> HIDE DEF slash, f, e
<1>10. Spelled(s) \in Seq(Chars) /\ Spelled(Append(s, c)) = Spelled(s) \o e
  <2>1. slash \o f \in Seq(Chars) /\ (slash \o f) \o e = slash \o (f \o e)
    BY <1>7, <1>8
  <2> QED BY <1>9, <2>1
<1> QED BY <1>10 DEF e

LEMMA SpelledEmpty == Spelled(<<>>) = <<"/">> /\ Respelled(<<>>) = <<>>
<1>1. FlattenSeq(<<>>) = <<>>
  BY DEF FlattenSeq
<1>2. Len(<<>>) = 0 /\ 1..0 = {}
  OBVIOUS
<1>3. [i \in 1..Len(<<>>) |-> Escape(<<>>[i])] = <<>> /\ [i \in 1..Len(<<>>) |-> Spelled(<<>>[i])] = <<>>
  BY <1>2
<1>4. Spelled(<<>>) = <<"/">> \o <<>>
  BY <1>1, <1>3 DEF Spelled
<1>5. <<"/">> \o <<>> = <<"/">>
  OBVIOUS
<1>6. Respelled(<<>>) = <<>>
  BY <1>1, <1>3 DEF Respelled
<1> QED BY <1>4, <1>5, <1>6

LEMMA RespelledAppend ==
  ASSUME NEW tokens \in Seq(Seq(Chars)), NEW s \in Seq(Chars)
  PROVE  /\ Respelled(tokens) \in Seq(Chars) /\ Spelled(s) \in Seq(Chars)
         /\ Respelled(Append(tokens, s)) = Respelled(tokens) \o Spelled(s)
<1> DEFINE q == [i \in 1..Len(tokens) |-> Spelled(tokens[i])]
           more == Append(tokens, s)
           r == [i \in 1..Len(more) |-> Spelled(more[i])]
<1>0. "/" \in Chars
  BY DEF Chars
<1>1. \A a \in Seq(Chars) : Spelled(a) \in Seq(Chars)
  BY <1>0, SpelledAppend
<1>2. q \in Seq(Seq(Chars)) /\ Spelled(s) \in Seq(Chars)
  BY <1>1
<1>3. r = Append(q, Spelled(s))
  OBVIOUS
<1>4. FlattenSeq(q) \in Seq(Chars) /\ FlattenSeq(Append(q, Spelled(s))) = FlattenSeq(q) \o Spelled(s)
  BY <1>2, FlattenAppend
<1>5. Respelled(tokens) = FlattenSeq(q) /\ Respelled(more) = FlattenSeq(r)
  BY DEF Respelled
<1> HIDE DEF q, r
<1> QED BY <1>2, <1>3, <1>4, <1>5

\* A byte decoded into the last token spells out after all the others.
LEMMA RespelledExtend ==
  ASSUME NEW d \in Decoded, d.tokens # <<>>, NEW c \in Chars
  PROVE  /\ Respelled(Extend(d, c).tokens) = Respelled(d.tokens) \o Escape(c)
         /\ Extend(d, c).tokens # <<>> /\ ~Extend(d, c).esc /\ Extend(d, c).ok = d.ok
<1> DEFINE n == Len(d.tokens)
           before == Front(d.tokens)
           old == d.tokens[n]
           new == [d.tokens EXCEPT ![n] = Append(old, c)]
<1>1. d.tokens \in Seq(Seq(Chars)) /\ n \in Nat /\ n > 0
  BY DEF Decoded
<1>2. before \in Seq(Seq(Chars)) /\ old \in Seq(Chars) /\ Append(old, c) \in Seq(Chars)
  BY <1>1 DEF Front
<1>3. d.tokens = Append(before, old) /\ new = Append(before, Append(old, c))
  <2>1. d.tokens = Append(before, old)
    BY <1>1 DEF Front
  <2>2. new = Append(before, Append(old, c))
    BY <1>1 DEF Front
  <2> QED BY <2>1, <2>2
<1>4. Extend(d, c) = [d EXCEPT !.tokens = new, !.esc = FALSE]
  BY DEF Extend, Decoded
<1>5. Extend(d, c).tokens = new /\ ~Extend(d, c).esc /\ Extend(d, c).ok = d.ok
  <2> HIDE DEF new
  <2> QED BY <1>4 DEF Decoded
<1>6. new # <<>>
  BY <1>2, <1>3
<1> HIDE DEF new, before, old, n
<1>7. /\ Respelled(before) \in Seq(Chars) /\ Spelled(old) \in Seq(Chars) /\ Escape(c) \in Seq(Chars)
      /\ Respelled(d.tokens) = Respelled(before) \o Spelled(old)
      /\ Respelled(new) = Respelled(before) \o Spelled(Append(old, c))
      /\ Spelled(Append(old, c)) = Spelled(old) \o Escape(c)
  BY <1>2, <1>3, EscapeType, RespelledAppend, SpelledAppend
<1>8. \A a, b, e \in Seq(Chars) : (a \o b) \o e = a \o (b \o e)
  OBVIOUS
<1>9. Respelled(new) = Respelled(d.tokens) \o Escape(c)
  BY <1>7, <1>8
<1> QED BY <1>5, <1>6, <1>9

\* While the pointer is well-formed, a byte decoded is a byte spelled out.
LEMMA DecodeByteSpells ==
  ASSUME NEW d \in Decoded, NEW c \in Chars, DecodeByte(d, c).ok,
         d.tokens # <<>> \/ (~d.esc /\ c = "/")
  PROVE  /\ DecodeByte(d, c).tokens # <<>>
         /\ SoFar(d) \in Seq(Chars) /\ SoFar(DecodeByte(d, c)) = Append(SoFar(d), c)
<1> DEFINE x == Respelled(d.tokens)
<1>1. d.tokens \in Seq(Seq(Chars)) /\ <<>> \in Seq(Chars) /\ "~" \in Chars
      /\ "/" \in Chars /\ d.esc \in BOOLEAN
  BY DEF Decoded, Chars
<1>2. x \in Seq(Chars)
  BY <1>1, RespelledAppend
<1> HIDE DEF x
<1>3. CASE d.esc /\ c \in {"0", "1"}
  <2> DEFINE b == IF c = "0" THEN "~" ELSE "/"
  <2>0. b \in Chars /\ d.tokens # <<>>
    BY <1>1, <1>3
  <2>1. DecodeByte(d, c) = Extend(d, b)
    BY <1>3 DEF DecodeByte
  <2>2. Escape(b) = <<"~", c>>
    BY <1>3 DEF Escape
  <2> HIDE DEF b
  <2>3. SoFar(Extend(d, b)) = x \o <<"~", c>> /\ Extend(d, b).tokens # <<>>
    BY <2>0, <2>2, RespelledExtend DEF SoFar, x
  <2>4. SoFar(d) = Append(x, "~")
    BY <1>3 DEF SoFar, x
  <2>5. x \o <<"~", c>> = Append(Append(x, "~"), c)
    BY <1>1, <1>2
  <2> QED BY <1>1, <1>2, <2>1, <2>3, <2>4, <2>5
<1>4. CASE d.esc /\ c \notin {"0", "1"}
  <2>1. DecodeByte(d, c) = [d EXCEPT !.ok = FALSE]
    BY <1>4 DEF DecodeByte
  <2> QED BY <2>1 DEF Decoded
<1>5. CASE ~d.esc
  <2>1. SoFar(d) = x
    BY <1>5 DEF SoFar, x
  <2>2. CASE c = "~"
    <3>1. DecodeByte(d, c) = [d EXCEPT !.esc = TRUE]
      BY <1>5, <2>2 DEF DecodeByte
    <3>2. DecodeByte(d, c).tokens = d.tokens /\ DecodeByte(d, c).esc
      BY <3>1 DEF Decoded
    <3>3. d.tokens # <<>>
      BY <2>2
    <3> QED BY <1>2, <2>1, <2>2, <3>2, <3>3 DEF SoFar, x
  <2>3. CASE c = "/"
    <3> DEFINE more == Append(d.tokens, <<>>)
    <3>1. DecodeByte(d, c) = [d EXCEPT !.tokens = more]
      BY <1>5, <2>3 DEF DecodeByte
    <3>2. more # <<>>
      BY <1>1
    <3>3. Respelled(more) = x \o <<"/">>
      BY <1>1, RespelledAppend, SpelledEmpty DEF x
    <3> HIDE DEF more
    <3>4. DecodeByte(d, c).tokens = more /\ ~DecodeByte(d, c).esc
      BY <1>5, <3>1 DEF Decoded
    <3>5. x \o <<"/">> = Append(x, "/")
      BY <1>1, <1>2
    <3> QED BY <1>2, <2>1, <2>3, <3>2, <3>3, <3>4, <3>5 DEF SoFar
  <2>4. CASE c # "~" /\ c # "/"
    <3>1. DecodeByte(d, c) = Extend(d, c)
      BY <1>5, <2>4 DEF DecodeByte
    <3>2. Escape(c) = <<c>> /\ d.tokens # <<>>
      BY <2>4 DEF Escape
    <3>3. SoFar(Extend(d, c)) = x \o <<c>> /\ Extend(d, c).tokens # <<>>
      BY <3>2, RespelledExtend DEF SoFar, x
    <3>4. x \o <<c>> = Append(x, c)
      BY <1>2
    <3> QED BY <1>2, <2>1, <3>1, <3>3, <3>4
  <2> QED BY <2>2, <2>3, <2>4
<1> QED BY <1>1, <1>3, <1>4, <1>5

\* Each tilde of the first k bytes starts an escape; the byte after the last
\* one is not looked at.
Escapes(t, k) == \A i \in 1..k : i + 1 <= k /\ t[i] = "~" => t[i + 1] \in {"0", "1"}

LEMMA DecodeByteFlags ==
  ASSUME NEW d \in Decoded, NEW c \in Chars
  PROVE  /\ DecodeByte(d, c).ok <=> d.ok /\ (d.esc => c \in {"0", "1"})
         /\ DecodeByte(d, c).ok => (DecodeByte(d, c).esc <=> c = "~")
<1>1. \A b : /\ Extend(d, b).ok = d.ok /\ ~Extend(d, b).esc
  BY DEF Extend, Decoded
<1>2. /\ [d EXCEPT !.ok = FALSE].ok = FALSE
      /\ [d EXCEPT !.esc = TRUE].ok = d.ok /\ [d EXCEPT !.esc = TRUE].esc = TRUE
      /\ [d EXCEPT !.tokens = Append(@, <<>>)].ok = d.ok
      /\ [d EXCEPT !.tokens = Append(@, <<>>)].esc = d.esc
      /\ d.esc \in BOOLEAN /\ d.ok \in BOOLEAN
  BY DEF Decoded
<1>3. CASE d.esc
  BY <1>1, <1>2, <1>3 DEF DecodeByte
<1>4. CASE ~d.esc
  BY <1>1, <1>2, <1>4 DEF DecodeByte
<1> QED BY <1>3, <1>4

\* A pointer is accepted exactly when it is well-formed, and its tokens spell
\* it out again (parse_prefix).
LEMMA DecodesExactly ==
  ASSUME NEW t \in Seq(Chars), t # <<>>, t[1] = "/"
  PROVE  /\ Decode(t).ok /\ ~Decode(t).esc <=> Escapes(t, Len(t)) /\ t[Len(t)] # "~"
         /\ Decode(t).ok /\ ~Decode(t).esc => Respelled(Decode(t).tokens) = t
<1> DEFINE n == Len(t)
           Good(d, k) == /\ d.ok <=> Escapes(t, k)
                         /\ d.ok => /\ d.esc <=> t[k] = "~"
                                    /\ d.tokens # <<>>
                                    /\ SoFar(d) = SubSeq(t, 1, k)
<1>1. PICK run \in [0..n -> Decoded] :
        /\ run[0] = Undecoded /\ run[n] = Decode(t)
        /\ \A k \in 1..n : run[k] = DecodeByte(run[k - 1], t[k])
  BY DecodeRuns
<1>2. n \in Nat /\ n >= 1 /\ \A i \in 1..n : t[i] \in Chars
  OBVIOUS
<1> DEFINE P == {k \in Nat : 1 <= k /\ k <= n => Good(run[k], k)}
<1>3. 0 \in P
  OBVIOUS
<1>4. ASSUME NEW k \in Nat, k \in P PROVE k + 1 \in P
  <2> DEFINE d == run[k]
             c == t[k + 1]
             e == run[k + 1]
  <2> SUFFICES ASSUME k + 1 <= n PROVE Good(run[k + 1], k + 1)
    OBVIOUS
  <2>1. k + 1 \in 1..n /\ k \in 0..n /\ (k + 1) - 1 = k
    BY <1>2
  <2>2. d \in Decoded /\ c \in Chars /\ e = DecodeByte(d, c)
    BY <1>1, <1>2, <2>1
  <2>3. SubSeq(t, 1, k + 1) = Append(SubSeq(t, 1, k), t[k + 1])
    BY <1>2, <2>1
  <2>4. CASE k = 0
    <3>1. d = Undecoded /\ c = "/"
      BY <1>1, <2>4
    <3>2. d.ok /\ ~d.esc /\ d.tokens = <<>> /\ SoFar(d) = <<>>
      BY <3>1, SpelledEmpty DEF Undecoded, SoFar
    <3> HIDE DEF d, e, c
    <3>3. e.ok /\ ~e.esc
      BY <2>2, <3>1, <3>2, DecodeByteFlags
    <3>4. e.tokens # <<>> /\ SoFar(e) = Append(SoFar(d), c)
      BY <2>2, <3>1, <3>2, <3>3, DecodeByteSpells
    <3>5. Append(<<>>, c) = SubSeq(t, 1, 1) /\ t[1] # "~"
      BY <1>2, <2>4 DEF c
    <3>6. Escapes(t, 1)
      BY DEF Escapes
    <3>7. Good(e, 1)
      BY <3>2, <3>3, <3>4, <3>5, <3>6
    <3> QED BY <2>4, <3>7 DEF e
  <2>5. CASE k # 0
    <3>0. 1 <= k /\ k <= n
      BY <2>1, <2>5
    <3>1. Good(d, k)
      BY <1>4, <3>0
    <3>2. Escapes(t, k + 1) <=> Escapes(t, k) /\ (t[k] = "~" => c \in {"0", "1"})
      <4>1. Escapes(t, k + 1) => Escapes(t, k)
        BY <3>0 DEF Escapes
      <4>2. Escapes(t, k + 1) => (t[k] = "~" => c \in {"0", "1"})
        BY <3>0 DEF Escapes
      <4>3. ASSUME Escapes(t, k), t[k] = "~" => c \in {"0", "1"},
                   NEW i \in 1..(k + 1), i + 1 <= k + 1, t[i] = "~"
            PROVE  t[i + 1] \in {"0", "1"}
        <5>1. CASE i = k
          BY <4>3, <5>1
        <5>2. CASE i # k
          <6>1. i \in 1..k /\ i + 1 <= k
            BY <4>3, <5>2
          <6> QED BY <4>3, <6>1 DEF Escapes
        <5> QED BY <5>1, <5>2
      <4> QED BY <4>1, <4>2, <4>3 DEF Escapes
    <3> HIDE DEF d, e, c
    <3>3. e.ok <=> d.ok /\ (d.esc => c \in {"0", "1"})
      BY <2>2, DecodeByteFlags
    <3>4. e.ok <=> Escapes(t, k + 1)
      BY <3>1, <3>2, <3>3
    <3>5. ASSUME e.ok PROVE (e.esc <=> c = "~") /\ e.tokens # <<>> /\ SoFar(e) = Append(SoFar(d), c)
      BY <2>2, <3>1, <3>3, <3>5, DecodeByteFlags, DecodeByteSpells
    <3>6. e.ok => SoFar(e) = SubSeq(t, 1, k + 1)
      BY <2>3, <3>1, <3>3, <3>5 DEF c
    <3> QED BY <3>4, <3>5, <3>6 DEF e, c
  <2> QED BY <2>4, <2>5
<1> HIDE DEF P
<1>5. \A k \in Nat : k \in P
  BY <1>3, <1>4, NatSetInduction
<1>6. Good(Decode(t), n)
  BY <1>1, <1>2, <1>5 DEF P
<1>7. SubSeq(t, 1, n) = t
  OBVIOUS
<1> HIDE DEF n
<1> QED BY <1>6, <1>7 DEF SoFar, n

(***************************************************************************)
(* The inductive invariant.                                                *)
(***************************************************************************)
Steps  == [object : BOOLEAN, key : Texts \union {<<>>}, due : BOOLEAN, index : Nat]
Frames == [object : BOOLEAN, match : Int, next : Int]

\* The first k steps of the path are the first k tokens of the prefix.
OnPrefix(p, path, k) == k <= Len(p) /\ \A i \in 1..k : StepMatches(p[i], path[i])
MatchOf(p, path, k) == IF OnPrefix(p, path, k) THEN k ELSE Diverged

Types ==
  /\ Len(prefix) \in Nat
  /\ frames \in Seq(Frames) /\ open \in Seq(Steps)
  /\ emitting \in BOOLEAN
  /\ last.seen => last.yielded \in BOOLEAN

\* Frame i is container i's: how far the path to that container matches and,
\* as long as a token is left for its children, which child is next.
Mirrors(p, f, o) ==
  /\ Len(f) = Len(o)
  /\ \A i \in 1..Len(o) :
       /\ f[i].object = o[i].object
       /\ f[i].match = MatchOf(p, o, i - 1)
       /\ i <= Len(p) /\ ~o[i].object => f[i].next = o[i].index

\* Between a member name and its value the name has been compared.
NameCompared ==
  ~emitting /\ open # <<>> /\ open[Len(open)].object /\ open[Len(open)].due
    => pending = MatchOf(prefix, open, Len(open))

\* Events are passed on exactly inside a container the whole prefix leads to.
PassesOn ==
  /\ emitting <=> (Len(open) > Len(prefix) /\ OnPrefix(prefix, open, Len(prefix)))
  /\ depth = IF emitting THEN Len(open) - Len(prefix) ELSE 0

Unmade == ~made => ~last.seen /\ open = <<>>

Inv == Types /\ Mirrors(prefix, frames, open) /\ NameCompared /\ PassesOn /\ Unmade /\ YieldsExactly

(***************************************************************************)
(* The stack and its mirror.                                               *)
(***************************************************************************)
\* A path that agrees on the first k steps matches as far.
LEMMA OnPrefixAgrees ==
  ASSUME NEW p, NEW k \in Nat, NEW o, NEW q,
         \A i \in 1..k : o[i].object = q[i].object /\ o[i].key = q[i].key /\ o[i].index = q[i].index
  PROVE  OnPrefix(p, o, k) = OnPrefix(p, q, k) /\ MatchOf(p, o, k) = MatchOf(p, q, k)
<1>1. \A i \in 1..k : StepMatches(p[i], o[i]) <=> StepMatches(p[i], q[i])
  BY DEF StepMatches
<1> QED BY <1>1 DEF OnPrefix, MatchOf

\* The stack q with its mirror g is o with one more container.
Pushed(p, o, c, g, q) ==
  /\ g \in Seq(Frames) /\ q \in Seq(Steps) /\ Mirrors(p, g, q)
  /\ Len(q) = Len(o) + 1 /\ \A i \in 1..Len(o) : q[i] = o[i]
  /\ q[Len(q)] = c

LEMMA PushMirrors ==
  ASSUME NEW p, Len(p) \in Nat, NEW f \in Seq(Frames), NEW o \in Seq(Steps), Mirrors(p, f, o),
         NEW b, b \in BOOLEAN, NEW m \in Int, m = MatchOf(p, o, Len(o))
  PROVE  Pushed(p, o, Container(b), Append(f, Frame(b, m)), Append(o, Container(b)))
<1> DEFINE g == Append(f, Frame(b, m))
           q == Append(o, Container(b))
<1>1. Frame(b, m) \in Frames /\ Container(b) \in Steps
  BY DEF Frame, Container, Frames, Steps
<1>2. /\ g \in Seq(Frames) /\ q \in Seq(Steps)
      /\ Len(q) = Len(o) + 1 /\ \A i \in 1..Len(o) : q[i] = o[i]
      /\ Len(g) = Len(f) + 1 /\ \A i \in 1..Len(f) : g[i] = f[i]
      /\ q[Len(o) + 1] = Container(b) /\ g[Len(f) + 1] = Frame(b, m)
  BY <1>1
<1> HIDE DEF g, q
<1>3. /\ Frame(b, m).object = b /\ Frame(b, m).match = m /\ Frame(b, m).next = 0
      /\ Container(b).object = b /\ Container(b).index = 0
  BY DEF Frame, Container
<1>4. Len(f) = Len(o) /\ Len(o) \in Nat
  BY DEF Mirrors
<1>5. ASSUME NEW i \in 1..Len(q)
      PROVE  /\ g[i].object = q[i].object
             /\ g[i].match = MatchOf(p, q, i - 1)
             /\ i <= Len(p) /\ ~q[i].object => g[i].next = q[i].index
  <2>1. i - 1 \in Nat /\ \A j \in 1..(i - 1) : q[j] = o[j]
    BY <1>2, <1>4
  <2>2. MatchOf(p, q, i - 1) = MatchOf(p, o, i - 1)
    BY <2>1, OnPrefixAgrees
  <2>3. CASE i = Len(o) + 1
    BY <1>2, <1>3, <1>4, <2>2, <2>3
  <2>4. CASE i \in 1..Len(o)
    BY <1>2, <1>4, <2>2, <2>4 DEF Mirrors
  <2> QED BY <1>2, <1>4, <2>3, <2>4
<1>6. Pushed(p, o, Container(b), g, q)
  <2> QED BY <1>2, <1>4, <1>5 DEF Mirrors, Pushed
<1> QED BY <1>6 DEF g, q

LEMMA PopMirrors ==
  ASSUME NEW p, Len(p) \in Nat, NEW f \in Seq(Frames), NEW o \in Seq(Steps), Mirrors(p, f, o), o # <<>>,
         NEW g, g = Front(f), NEW q, q = Front(o)
  PROVE  /\ g \in Seq(Frames) /\ q \in Seq(Steps) /\ Mirrors(p, g, q)
         /\ Len(q) = Len(o) - 1 /\ \A i \in 1..Len(q) : q[i] = o[i]
<1>1. Len(f) = Len(o) /\ Len(o) \in Nat /\ Len(o) > 0
  BY DEF Mirrors
<1>2. /\ g \in Seq(Frames) /\ q \in Seq(Steps)
      /\ Len(q) = Len(o) - 1 /\ \A i \in 1..Len(q) : q[i] = o[i]
      /\ Len(g) = Len(f) - 1 /\ \A i \in 1..Len(g) : g[i] = f[i]
  BY <1>1 DEF Front
<1>3. ASSUME NEW i \in 1..Len(q)
      PROVE  /\ g[i].object = q[i].object
             /\ g[i].match = MatchOf(p, q, i - 1)
             /\ i <= Len(p) /\ ~q[i].object => g[i].next = q[i].index
  <2>1. i - 1 \in Nat /\ i \in 1..Len(o) /\ \A j \in 1..(i - 1) : q[j] = o[j]
    BY <1>1, <1>2
  <2>2. MatchOf(p, q, i - 1) = MatchOf(p, o, i - 1)
    BY <2>1, OnPrefixAgrees
  <2> QED BY <1>1, <1>2, <2>1, <2>2, ZenonT(60) DEF Mirrors
<1> QED BY <1>1, <1>2, <1>3 DEF Mirrors

\* The next child of the innermost container: only the last step changes.
LEMMA AfterChildSteps ==
  ASSUME NEW o \in Seq(Steps), NEW q, q = AfterChild(o)
  PROVE  /\ q \in Seq(Steps) /\ Len(q) = Len(o)
         /\ \A i \in 1..Len(o) : i # Len(o) => q[i] = o[i]
         /\ o # <<>> => /\ q[Len(o)].object = o[Len(o)].object
                        /\ o[Len(o)].object => ~q[Len(o)].due
                        /\ ~o[Len(o)].object => q[Len(o)].index = o[Len(o)].index + 1
<1> DEFINE n == Len(o)
           top == o[n]
           named == [top EXCEPT !.key = <<>>, !.due = FALSE]
           counted == [top EXCEPT !.index = @ + 1]
<1>1. CASE o = <<>>
  BY <1>1 DEF AfterChild
<1>2. CASE o # <<>>
  <2>1. n \in Nat /\ n > 0 /\ n \in 1..n /\ top \in Steps
    BY <1>2
  <2>2. /\ named \in Steps /\ counted \in Steps
        /\ named.object = top.object /\ ~named.due
        /\ counted.object = top.object /\ counted.index = top.index + 1
    <3> HIDE DEF top
    <3>1. top.object \in BOOLEAN /\ top.due \in BOOLEAN /\ top.index \in Nat /\ top.index + 1 \in Nat
      BY <2>1 DEF Steps
    <3>2. named \in Steps /\ named.object = top.object /\ ~named.due
      BY <2>1, <3>1 DEF Steps
    <3>3. counted \in Steps /\ counted.object = top.object /\ counted.index = top.index + 1
      BY <2>1, <3>1 DEF Steps
    <3> QED BY <3>2, <3>3
  <2>3. CASE top.object
    <3>1. q = [o EXCEPT ![n] = named]
      BY <1>2, <2>1, <2>3 DEF AfterChild, Last
    <3> HIDE DEF named
    <3>2. q \in Seq(Steps) /\ Len(q) = n /\ q[n] = named /\ \A i \in 1..n : i # n => q[i] = o[i]
      BY <2>1, <2>2, <3>1
    <3> QED BY <2>2, <2>3, <3>2
  <2>4. CASE ~top.object
    <3>1. q = [o EXCEPT ![n] = counted]
      BY <1>2, <2>1, <2>4 DEF AfterChild, Last
    <3> HIDE DEF counted
    <3>2. q \in Seq(Steps) /\ Len(q) = n /\ q[n] = counted /\ \A i \in 1..n : i # n => q[i] = o[i]
      BY <2>1, <2>2, <3>1
    <3> QED BY <2>2, <2>4, <3>2
  <2> QED BY <2>3, <2>4
<1> QED BY <1>1, <1>2

LEMMA NextIndexFrames ==
  ASSUME NEW f \in Seq(Frames), NEW g, g = NextIndex(f)
  PROVE  /\ g \in Seq(Frames) /\ Len(g) = Len(f)
         /\ \A i \in 1..Len(f) :
              /\ g[i].object = f[i].object /\ g[i].match = f[i].match
              /\ g[i].next = IF i = Len(f) /\ ~f[i].object THEN f[i].next + 1 ELSE f[i].next
<1> DEFINE n == Len(f)
           top == f[n]
           counted == [top EXCEPT !.next = @ + 1]
<1>1. CASE f # <<>> /\ ~top.object
  <2>1. n \in Nat /\ n > 0 /\ n \in 1..n /\ top \in Frames
    BY <1>1
  <2>2. /\ counted \in Frames /\ counted.object = top.object /\ counted.match = top.match
        /\ counted.next = top.next + 1
    <3> HIDE DEF top
    <3> QED BY <2>1 DEF Frames
  <2>3. g = [f EXCEPT ![n] = counted]
    BY <1>1, <2>1 DEF NextIndex, Last
  <2> HIDE DEF counted
  <2>4. g \in Seq(Frames) /\ Len(g) = n /\ g[n] = counted /\ \A i \in 1..n : i # n => g[i] = f[i]
    BY <2>1, <2>2, <2>3
  <2> QED BY <1>1, <2>2, <2>4
<1>2. CASE ~(f # <<>> /\ ~top.object)
  <2>1. g = f
    BY <1>2 DEF NextIndex, Last
  <2> QED BY <1>2, <2>1
<1> QED BY <1>1, <1>2

LEMMA AdvanceMirrors ==
  ASSUME NEW p, Len(p) \in Nat, NEW f \in Seq(Frames), NEW o \in Seq(Steps), Mirrors(p, f, o),
         NEW g, g = NextIndex(f), NEW q, q = AfterChild(o)
  PROVE  g \in Seq(Frames) /\ Mirrors(p, g, q)
<1>1. Len(f) = Len(o) /\ Len(o) \in Nat
  BY DEF Mirrors
<1>2. /\ g \in Seq(Frames) /\ Len(g) = Len(f)
      /\ \A i \in 1..Len(f) :
           /\ g[i].object = f[i].object /\ g[i].match = f[i].match
           /\ g[i].next = IF i = Len(f) /\ ~f[i].object THEN f[i].next + 1 ELSE f[i].next
  BY NextIndexFrames
<1>3. /\ Len(q) = Len(o)
      /\ \A i \in 1..Len(o) : i # Len(o) => q[i] = o[i]
      /\ o # <<>> => /\ q[Len(o)].object = o[Len(o)].object
                     /\ ~o[Len(o)].object => q[Len(o)].index = o[Len(o)].index + 1
  BY AfterChildSteps
<1>4. ASSUME NEW i \in 1..Len(q)
      PROVE  /\ g[i].object = q[i].object
             /\ g[i].match = MatchOf(p, q, i - 1)
             /\ i <= Len(p) /\ ~q[i].object => g[i].next = q[i].index
  <2>1. i - 1 \in Nat /\ i \in 1..Len(o) /\ i \in 1..Len(f) /\ \A j \in 1..(i - 1) : q[j] = o[j]
    BY <1>1, <1>3
  <2>2. MatchOf(p, q, i - 1) = MatchOf(p, o, i - 1)
    BY <2>1, OnPrefixAgrees
  <2>3. /\ f[i].object = o[i].object /\ f[i].match = MatchOf(p, o, i - 1)
        /\ i <= Len(p) /\ ~o[i].object => f[i].next = o[i].index
    BY <2>1 DEF Mirrors
  <2>4. CASE i = Len(o)
    <3>1. q[i].object = o[i].object /\ (~o[i].object => q[i].index = o[i].index + 1)
      BY <1>3, <2>1, <2>4
    <3> QED BY <1>1, <1>2, <2>1, <2>2, <2>3, <2>4, <3>1
  <2>5. CASE i # Len(o)
    <3>1. q[i] = o[i]
      BY <1>3, <2>1, <2>5
    <3> QED BY <1>1, <1>2, <2>1, <2>2, <2>3, <2>5, <3>1
  <2> QED BY <2>4, <2>5
<1> QED BY <1>1, <1>2, <1>3, <1>4 DEF Mirrors

\* Outside a subtree that is passed on, child_match_len tells how far the path
\* to the value that comes next matches.
LEMMA ChildMatch ==
  ASSUME Inv, ~emitting, ValueMayStart, NEW t
  PROVE  ChildMatchLen(t) = MatchOf(prefix, open, Len(open)) /\ MatchOf(prefix, open, Len(open)) \in Int
<1> DEFINE n == Len(open)
<1>1. /\ Len(prefix) \in Nat /\ frames \in Seq(Frames) /\ open \in Seq(Steps) /\ n \in Nat
      /\ Mirrors(prefix, frames, open) /\ Len(frames) = n /\ Diverged \in Int /\ Diverged = -1
  BY DEF Inv, Types, Mirrors, Diverged
<1>2. MatchOf(prefix, open, n) \in Int
  BY <1>1 DEF MatchOf
<1>3. CASE open = <<>>
  <2>1. frames = <<>> /\ n = 0
    BY <1>1, <1>3
  <2>2. OnPrefix(prefix, open, 0)
    BY <1>1 DEF OnPrefix
  <2> QED BY <1>2, <2>1, <2>2 DEF ChildMatchLen, MatchOf
<1>4. CASE open # <<>>
  <2>1. n > 0 /\ n \in 1..n /\ n - 1 \in Nat /\ frames # <<>> /\ Last(frames) = frames[n] /\ Last(open) = open[n]
    BY <1>1, <1>4 DEF Last
  <2>2. /\ frames[n].object = open[n].object /\ frames[n].match = MatchOf(prefix, open, n - 1)
        /\ n <= Len(prefix) /\ ~open[n].object => frames[n].next = open[n].index
    BY <1>1, <2>1 DEF Mirrors
  <2>3. OnPrefix(prefix, open, n) <=> OnPrefix(prefix, open, n - 1) /\ n <= Len(prefix) /\ StepMatches(prefix[n], open[n])
    BY <1>1, <2>1 DEF OnPrefix
  <2>4. CASE ~OnPrefix(prefix, open, n - 1)
    BY <1>1, <1>2, <2>1, <2>2, <2>3, <2>4 DEF ChildMatchLen, Exhausted, MatchOf
  <2>5. CASE OnPrefix(prefix, open, n - 1) /\ n > Len(prefix)
    <3>1. n - 1 = Len(prefix)
      BY <1>1, <2>1, <2>5 DEF OnPrefix
    <3>2. emitting
      BY <1>1, <2>1, <2>5, <3>1 DEF Inv, PassesOn
    <3> QED BY <3>2
  <2>6. CASE OnPrefix(prefix, open, n - 1) /\ n <= Len(prefix)
    <3>1. frames[n].match = n - 1 /\ ~Exhausted(n - 1) /\ (n - 1) + 1 = n
      BY <1>1, <2>1, <2>2, <2>6 DEF MatchOf, Exhausted
    <3>2. CASE open[n].object
      <4>1. open[n].due
        BY <1>4, <2>1, <3>2 DEF ValueMayStart
      <4>2. pending = MatchOf(prefix, open, n)
        BY <1>4, <3>2, <4>1 DEF Inv, NameCompared
      <4> QED BY <1>2, <2>1, <2>2, <3>1, <3>2, <4>2 DEF ChildMatchLen
    <3>3. CASE ~open[n].object
      <4>1. ChildMatchLen(t) = IF ElementMatches(prefix[n], open[n].index) THEN n ELSE Diverged
        BY <2>1, <2>2, <2>6, <3>1, <3>3 DEF ChildMatchLen
      <4>2. OnPrefix(prefix, open, n) <=> ElementMatches(prefix[n], open[n].index)
        BY <2>3, <2>6, <3>3 DEF StepMatches
      <4> QED BY <1>2, <4>1, <4>2 DEF MatchOf
    <3> QED BY <3>2, <3>3
  <2> QED BY <1>1, <2>1, <2>4, <2>5, <2>6
<1> QED BY <1>3, <1>4

(***************************************************************************)
(* The steps.                                                              *)
(***************************************************************************)
LEMMA InitCursor == Init => Inv
<1> SUFFICES ASSUME Init PROVE Inv
  OBVIOUS
<1>1. /\ prefix = <<>> /\ frames = <<>> /\ open = <<>> /\ emitting = FALSE /\ depth = 0
      /\ ~last.seen /\ Len(prefix) = 0 /\ Len(open) = 0 /\ Len(frames) = 0
  BY DEF Init, NoEvent
<1>2. Types
  <2>1. emitting \in BOOLEAN
    BY <1>1
  <2>2. frames \in Seq(Frames) /\ open \in Seq(Steps) /\ Len(prefix) \in Nat
    BY <1>1
  <2> QED BY <1>1, <2>1, <2>2 DEF Types
<1>3. Mirrors(prefix, frames, open) /\ NameCompared /\ Unmade /\ YieldsExactly
  BY <1>1 DEF Mirrors, NameCompared, Unmade, YieldsExactly
<1>4. PassesOn
  BY <1>1 DEF PassesOn
<1> QED BY <1>2, <1>3, <1>4 DEF Inv

LEMMA ItemsKeeps ==
  ASSUME Inv, NEW t \in PrefixTexts, Items(t)
  PROVE  Inv'
<1>1. /\ ~made /\ open = <<>> /\ open' = open /\ frames' = frames /\ emitting' = emitting
      /\ depth' = depth /\ ~last.seen /\ last' = last /\ Len(frames) = Len(open) /\ Len(open) = 0
  BY DEF Inv, Unmade, Items, Mirrors
<1>2. Len(prefix') \in Nat
  <2>1. t \in Seq(Chars)
    BY ItemsAssumption DEF Chars
  <2>2. PICK run \in [0..Len(t) -> Decoded] : run[Len(t)] = Decode(t)
    BY <2>1, DecodeRuns
  <2>3. Len(t) \in 0..Len(t)
    BY <2>1
  <2>4. Decode(t) \in Decoded
    BY <2>2, <2>3
  <2>5. Len(Decode(t).tokens) \in Nat
    BY <2>4 DEF Decoded
  <2>6. Len(ParsePrefix(t)) = Len(Decode(t).tokens)
    BY <2>5 DEF ParsePrefix
  <2> QED BY <2>5, <2>6 DEF Items
<1>3. ~emitting /\ depth = 0 /\ emitting \in BOOLEAN
  BY <1>1 DEF Inv, PassesOn, Types
<1>4. Types'
  BY <1>1, <1>2 DEF Inv, Types
<1>5. Mirrors(prefix, frames, open)' /\ NameCompared' /\ Unmade' /\ YieldsExactly'
  BY <1>1 DEF Mirrors, NameCompared, Unmade, YieldsExactly
<1>6. PassesOn'
  BY <1>1, <1>2, <1>3 DEF PassesOn
<1> QED BY <1>4, <1>5, <1>6 DEF Inv

\* The facts every event step starts from.
LEMMA InvFacts ==
  ASSUME Inv
  PROVE  /\ Len(prefix) \in Nat /\ frames \in Seq(Frames) /\ open \in Seq(Steps) /\ Len(open) \in Nat
         /\ emitting \in BOOLEAN /\ Mirrors(prefix, frames, open) /\ Len(frames) = Len(open)
         /\ emitting <=> (Len(open) > Len(prefix) /\ OnPrefix(prefix, open, Len(prefix)))
         /\ depth = IF emitting THEN Len(open) - Len(prefix) ELSE 0
         /\ Diverged = -1
BY DEF Inv, Types, PassesOn, Mirrors, Diverged

\* What an event reports is what the prefix selects.
LEMMA Reported ==
  ASSUME prefix' = prefix, Len(prefix) \in Nat, NEW path, NEW y, y \in BOOLEAN,
         last' = [seen |-> TRUE, path |-> path, yielded |-> y],
         y <=> Len(prefix) <= Len(path) /\ OnPrefix(prefix, path, Len(prefix))
  PROVE  YieldsExactly' /\ last'.yielded \in BOOLEAN
<1>1. last'.path = path /\ last'.yielded = y
  OBVIOUS
<1>2. InPrefix(last.path)' <=> y
  BY <1>1 DEF InPrefix, OnPrefix
<1>3. last'.yielded = InPrefix(last.path)'
  BY <1>1, <1>2 DEF InPrefix
<1> QED BY <1>1, <1>3 DEF YieldsExactly

\* A container begins in a subtree that is passed on.
LEMMA BeginEmitting ==
  ASSUME Inv, NEW b \in BOOLEAN, Begin(b), emitting
  PROVE  Inv'
<1>1. /\ Len(prefix) \in Nat /\ frames \in Seq(Frames) /\ open \in Seq(Steps) /\ Len(open) \in Nat
      /\ Mirrors(prefix, frames, open) /\ Len(open) > Len(prefix) /\ OnPrefix(prefix, open, Len(prefix))
      /\ depth = Len(open) - Len(prefix)
  BY InvFacts
<1>2. /\ prefix' = prefix /\ made' = made /\ made /\ open' = Append(open, Container(b))
      /\ frames' = Append(frames, Frame(b, Diverged)) /\ depth' = depth + 1 /\ emitting' = emitting
      /\ last' = [seen |-> TRUE, path |-> open, yielded |-> TRUE]
  BY DEF Begin, Reports
<1>3. MatchOf(prefix, open, Len(open)) = Diverged /\ Diverged \in Int
  BY <1>1 DEF MatchOf, OnPrefix, Diverged
<1>4. /\ frames' \in Seq(Frames) /\ open' \in Seq(Steps) /\ Mirrors(prefix, frames', open')
      /\ Len(open') = Len(open) + 1 /\ \A i \in 1..Len(open) : open'[i] = open[i]
  <2>1. Pushed(prefix, open, Container(b), frames', open')
    BY <1>1, <1>2, <1>3, PushMirrors
  <2> QED BY <2>1 DEF Pushed
<1>5. Types'
  <2>1. emitting' \in BOOLEAN /\ last'.yielded \in BOOLEAN
    BY <1>2 DEF Inv, Types
  <2> QED BY <1>1, <1>2, <1>4, <2>1 DEF Types
<1>6. PassesOn'
  <2>0. \A i \in 1..Len(prefix) : open'[i] = open[i]
    BY <1>1, <1>4
  <2>1. OnPrefix(prefix, open', Len(prefix))
    BY <1>1, <2>0 DEF OnPrefix
  <2> QED BY <1>1, <1>2, <1>4, <2>1 DEF PassesOn
<1>7. YieldsExactly'
  <2>1. TRUE <=> Len(prefix) <= Len(open) /\ OnPrefix(prefix, open, Len(prefix))
    BY <1>1
  <2> QED BY <1>1, <1>2, <2>1, Reported
<1>8. Mirrors(prefix, frames, open)' /\ NameCompared' /\ Unmade'
  BY <1>2, <1>4 DEF NameCompared, Unmade
<1> QED BY <1>5, <1>6, <1>7, <1>8 DEF Inv

\* A container begins outside of one: it may be the one to pass on.
LEMMA BeginSeeking ==
  ASSUME Inv, NEW b \in BOOLEAN, Begin(b), ~emitting
  PROVE  Inv'
<1> DEFINE m == MatchOf(prefix, open, Len(open))
<1>1. /\ Len(prefix) \in Nat /\ frames \in Seq(Frames) /\ open \in Seq(Steps) /\ Len(open) \in Nat
      /\ Mirrors(prefix, frames, open) /\ depth = 0
      /\ ~(Len(open) > Len(prefix) /\ OnPrefix(prefix, open, Len(prefix)))
  BY InvFacts
<1>2. ChildMatchLen(<<>>) = m /\ m \in Int
  BY ChildMatch DEF Begin
<1>3. /\ prefix' = prefix /\ made' = made /\ made /\ open' = Append(open, Container(b))
      /\ frames' = Append(frames, Frame(b, m)) /\ emitting' = (m = Len(prefix))
      /\ depth' = (IF emitting' THEN 1 ELSE depth)
      /\ last' = [seen |-> TRUE, path |-> open, yielded |-> emitting']
  BY <1>2 DEF Begin, Reports
<1>4. m = Len(prefix) <=> Len(open) = Len(prefix) /\ OnPrefix(prefix, open, Len(prefix))
  BY <1>1 DEF MatchOf, OnPrefix, Diverged
<1>5. /\ frames' \in Seq(Frames) /\ open' \in Seq(Steps) /\ Mirrors(prefix, frames', open')
      /\ Len(open') = Len(open) + 1 /\ \A i \in 1..Len(open) : open'[i] = open[i]
      /\ open'[Len(open')] = Container(b)
  <2> HIDE DEF m
  <2>1. m = MatchOf(prefix, open, Len(open))
    BY DEF m
  <2>2. Pushed(prefix, open, Container(b), frames', open')
    BY <1>1, <1>2, <1>3, <2>1, PushMirrors
  <2> QED BY <2>2 DEF Pushed
<1> HIDE DEF m
<1>6. emitting' \in BOOLEAN /\ (emitting' <=> Len(open) = Len(prefix) /\ OnPrefix(prefix, open, Len(prefix)))
  BY <1>3, <1>4
<1>7. Types'
  BY <1>1, <1>3, <1>5, <1>6 DEF Types
<1>8. PassesOn'
  <2>1. Len(prefix) <= Len(open) => (OnPrefix(prefix, open', Len(prefix)) <=> OnPrefix(prefix, open, Len(prefix)))
    <3> SUFFICES ASSUME Len(prefix) <= Len(open)
                 PROVE  OnPrefix(prefix, open', Len(prefix)) <=> OnPrefix(prefix, open, Len(prefix))
      OBVIOUS
    <3>1. \A i \in 1..Len(prefix) : open'[i] = open[i]
      BY <1>1, <1>5
    <3> QED BY <3>1 DEF OnPrefix
  <2> QED BY <1>1, <1>3, <1>5, <1>6, <2>1 DEF PassesOn
<1>9. YieldsExactly'
  <2>1. emitting' <=> Len(prefix) <= Len(open) /\ OnPrefix(prefix, open, Len(prefix))
    BY <1>1, <1>6
  <2> QED BY <1>1, <1>3, <1>6, <2>1, Reported
<1>10. Mirrors(prefix, frames, open)' /\ NameCompared' /\ Unmade'
  <2>1. ~Container(b).due
    BY DEF Container
  <2> QED BY <1>3, <1>5, <2>1 DEF NameCompared, Unmade
<1> QED BY <1>7, <1>8, <1>9, <1>10 DEF Inv

LEMMA EndKeeps ==
  ASSUME Inv, End
  PROVE  Inv'
<1> DEFINE f == Front(frames)
           o == Front(open)
<1>1. /\ Len(prefix) \in Nat /\ frames \in Seq(Frames) /\ open \in Seq(Steps) /\ Len(open) \in Nat
      /\ emitting \in BOOLEAN /\ Mirrors(prefix, frames, open) /\ open # <<>> /\ Len(open) > 0
      /\ emitting <=> (Len(open) > Len(prefix) /\ OnPrefix(prefix, open, Len(prefix)))
      /\ depth = IF emitting THEN Len(open) - Len(prefix) ELSE 0
  BY InvFacts DEF End
<1>2. /\ prefix' = prefix /\ made' = made /\ made /\ open' = AfterChild(o) /\ frames' = NextIndex(f)
      /\ emitting => depth' = depth - 1 /\ emitting' = (depth > 1)
      /\ ~emitting => emitting' = emitting /\ depth' = depth
  BY DEF End, FramesAfterEnd
<1>2a. last' = [seen |-> TRUE, path |-> o, yielded |-> emitting]
  <2>1. CASE emitting
    <3>1. emitting = TRUE
      BY <1>1, <2>1
    <3>2. last' = [seen |-> TRUE, path |-> o, yielded |-> TRUE]
      BY <2>1 DEF End, Reports
    <3> QED BY <3>1, <3>2
  <2>2. CASE ~emitting
    <3>1. emitting = FALSE
      BY <1>1, <2>2
    <3>2. last' = [seen |-> TRUE, path |-> o, yielded |-> FALSE]
      BY <2>2 DEF End, Reports
    <3> QED BY <3>1, <3>2
  <2> QED BY <2>1, <2>2
<1>3. /\ f \in Seq(Frames) /\ o \in Seq(Steps) /\ Mirrors(prefix, f, o)
      /\ Len(o) = Len(open) - 1 /\ \A i \in 1..Len(o) : o[i] = open[i]
  BY <1>1, PopMirrors
<1> HIDE DEF f, o
<1>4. frames' \in Seq(Frames) /\ Mirrors(prefix, frames', open')
  BY <1>1, <1>2, <1>3, AdvanceMirrors
<1>5. /\ open' \in Seq(Steps) /\ Len(open') = Len(o)
      /\ \A i \in 1..Len(o) : i # Len(o) => open'[i] = o[i]
      /\ o # <<>> => /\ open'[Len(o)].object = o[Len(o)].object
                     /\ o[Len(o)].object => ~open'[Len(o)].due
  BY <1>2, <1>3, AfterChildSteps
<1>6. emitting' \in BOOLEAN /\ (emitting' <=> emitting /\ Len(open) - Len(prefix) > 1)
  <2>1. CASE emitting
    <3>1. emitting' = (Len(open) - Len(prefix) > 1)
      <4>1. emitting' = (depth > 1)
        BY <1>2, <2>1
      <4>2. depth = Len(open) - Len(prefix)
        BY <1>1, <2>1
      <4> QED BY <4>1, <4>2
    <3>2. emitting' \in BOOLEAN
      BY <3>1
    <3> QED BY <2>1, <3>1, <3>2
  <2>2. CASE ~emitting
    <3>1. emitting' = emitting
      BY <1>2, <2>2
    <3>2. emitting' \in BOOLEAN
      BY <1>1, <3>1
    <3> QED BY <2>2, <3>1, <3>2
  <2> QED BY <2>1, <2>2
<1>7. Types' /\ YieldsExactly'
  <2>0. Len(prefix) <= Len(o) => \A i \in 1..Len(prefix) : o[i] = open[i]
    BY <1>1, <1>3
  <2>1. emitting <=> Len(prefix) <= Len(o) /\ OnPrefix(prefix, o, Len(prefix))
    <3>1. Len(prefix) <= Len(o) <=> Len(open) > Len(prefix)
      BY <1>1, <1>3
    <3>2. Len(prefix) <= Len(o) => (OnPrefix(prefix, o, Len(prefix)) <=> OnPrefix(prefix, open, Len(prefix)))
      BY <2>0 DEF OnPrefix
    <3> QED BY <1>1, <3>1, <3>2
  <2>2. YieldsExactly' /\ last'.yielded \in BOOLEAN
    BY <1>1, <1>2, <1>2a, <2>1, Reported
  <2> QED BY <1>1, <1>2, <1>4, <1>5, <1>6, <2>2 DEF Types
<1>8. PassesOn'
  <2>1. Len(open') = Len(open) - 1
    BY <1>3, <1>5
  <2>2. Len(open') > Len(prefix) => \A i \in 1..Len(prefix) : open'[i] = open[i]
    BY <1>1, <1>3, <1>5, SMTT(40)
  <2>3. Len(open') > Len(prefix) => (OnPrefix(prefix, open', Len(prefix)) <=> OnPrefix(prefix, open, Len(prefix)))
    BY <2>2 DEF OnPrefix
  <2>4. emitting' <=> (Len(open') > Len(prefix) /\ OnPrefix(prefix, open', Len(prefix)))
    BY <1>1, <1>6, <2>1, <2>3
  <2>5. depth' = IF emitting' THEN Len(open') - Len(prefix) ELSE 0
    BY <1>1, <1>2, <1>6, <2>1
  <2> QED BY <1>2, <2>4, <2>5 DEF PassesOn
<1>9. NameCompared'
  <2>1. open' # <<>> => o # <<>> /\ Len(o) = Len(open')
    BY <1>3, <1>5
  <2> QED BY <1>5, <2>1 DEF NameCompared
<1>10. Mirrors(prefix, frames, open)' /\ Unmade'
  BY <1>2, <1>4 DEF Unmade
<1> QED BY <1>7, <1>8, <1>9, <1>10 DEF Inv

LEMMA MapKeyKeeps ==
  ASSUME Inv, NEW key \in Texts, MapKey(key)
  PROVE  Inv'
<1> DEFINE n == Len(open)
           top == [open[n] EXCEPT !.key = key, !.due = TRUE]
<1>1. /\ Len(prefix) \in Nat /\ frames \in Seq(Frames) /\ open \in Seq(Steps) /\ n \in Nat
      /\ emitting \in BOOLEAN /\ Mirrors(prefix, frames, open) /\ Len(frames) = n
      /\ open # <<>> /\ n > 0 /\ n \in 1..n /\ n - 1 \in Nat /\ open[n] \in Steps
      /\ emitting <=> (n > Len(prefix) /\ OnPrefix(prefix, open, Len(prefix)))
      /\ Diverged = -1
  BY InvFacts DEF MapKey
<1>2. /\ prefix' = prefix /\ made' = made /\ made /\ frames' = frames /\ emitting' = emitting /\ depth' = depth
      /\ pending' = (IF emitting THEN pending ELSE KeyMatchLen(key))
      /\ last' = [seen |-> TRUE, path |-> Front(open), yielded |-> emitting]
      /\ open[n].object
  BY DEF MapKey, Reports, Last
<1>3. top \in Steps /\ top.object = open[n].object /\ top.key = key
  BY <1>1 DEF Steps
<1>4. open' = [open EXCEPT ![n] = top]
  BY <1>1 DEF MapKey
<1> HIDE DEF top
<1>5. open' \in Seq(Steps) /\ Len(open') = n /\ open'[n] = top /\ \A i \in 1..n : i # n => open'[i] = open[i]
  BY <1>1, <1>3, <1>4
<1>6. Mirrors(prefix, frames', open')
  <2>1. ASSUME NEW i \in 1..n
        PROVE  /\ frames[i].object = open'[i].object
               /\ frames[i].match = MatchOf(prefix, open', i - 1)
               /\ i <= Len(prefix) /\ ~open'[i].object => frames[i].next = open'[i].index
    <3>1. i - 1 \in Nat /\ \A j \in 1..(i - 1) : open'[j] = open[j]
      BY <1>1, <1>5
    <3>2. MatchOf(prefix, open', i - 1) = MatchOf(prefix, open, i - 1)
      BY <3>1, OnPrefixAgrees
    <3>3. /\ frames[i].object = open[i].object /\ frames[i].match = MatchOf(prefix, open, i - 1)
          /\ i <= Len(prefix) /\ ~open[i].object => frames[i].next = open[i].index
      BY <1>1 DEF Mirrors
    <3> QED BY <1>2, <1>3, <1>5, <3>2, <3>3
  <2> QED BY <1>1, <1>2, <1>5, <2>1 DEF Mirrors
<1>7. Types' /\ YieldsExactly'
  <2>1. emitting <=> Len(prefix) <= Len(Front(open)) /\ OnPrefix(prefix, Front(open), Len(prefix))
    <3>1. Len(Front(open)) = n - 1 /\ \A i \in 1..(n - 1) : Front(open)[i] = open[i]
      BY <1>1 DEF Front
    <3> QED BY <1>1, <3>1 DEF OnPrefix
  <2>2. YieldsExactly' /\ last'.yielded \in BOOLEAN
    BY <1>1, <1>2, <2>1, Reported
  <2> QED BY <1>1, <1>2, <1>5, <2>2 DEF Types
<1>8. PassesOn'
  <2>1. n > Len(prefix) => (OnPrefix(prefix, open', Len(prefix)) <=> OnPrefix(prefix, open, Len(prefix)))
    BY <1>1, <1>5 DEF OnPrefix
  <2> QED BY <1>1, <1>2, <1>5, <2>1 DEF Inv, PassesOn
<1>9. NameCompared'
  <2> SUFFICES ASSUME ~emitting PROVE pending' = MatchOf(prefix, open', n)
    BY <1>2, <1>5 DEF NameCompared
  <2>1. frames[n].match = MatchOf(prefix, open, n - 1) /\ Last(frames) = frames[n]
    BY <1>1 DEF Mirrors, Last
  <2>2. MatchOf(prefix, open', n - 1) = MatchOf(prefix, open, n - 1)
    <3>1. \A j \in 1..(n - 1) : open'[j] = open[j]
      BY <1>1, <1>5
    <3> QED BY <1>1, <3>1, OnPrefixAgrees
  <2>3. OnPrefix(prefix, open', n) <=>
          OnPrefix(prefix, open', n - 1) /\ n <= Len(prefix) /\ StepMatches(prefix[n], open'[n])
    BY <1>1 DEF OnPrefix
  <2>4. StepMatches(prefix[n], open'[n]) <=> prefix[n].kind = "Key" /\ prefix[n].key = key
    BY <1>2, <1>3, <1>5 DEF StepMatches
  <2>5. pending' = KeyMatchLen(key)
    BY <1>2
  <2>6. CASE ~OnPrefix(prefix, open', n - 1)
    BY <1>1, <2>1, <2>2, <2>3, <2>5, <2>6 DEF KeyMatchLen, Exhausted, MatchOf
  <2>7. CASE OnPrefix(prefix, open', n - 1) /\ n > Len(prefix)
    BY <1>1, <2>1, <2>2, <2>3, <2>5, <2>7 DEF KeyMatchLen, Exhausted, MatchOf, OnPrefix
  <2>8. CASE OnPrefix(prefix, open', n - 1) /\ n <= Len(prefix)
    <3>1. Last(frames).match = n - 1 /\ ~Exhausted(n - 1) /\ (n - 1) + 1 = n
      BY <1>1, <2>1, <2>2, <2>8 DEF MatchOf, Exhausted
    <3> QED BY <2>3, <2>4, <2>5, <2>8, <3>1 DEF KeyMatchLen, MatchOf
  <2> QED BY <1>1, <2>6, <2>7, <2>8
<1>10. Mirrors(prefix, frames, open)' /\ Unmade'
  BY <1>2, <1>6 DEF Unmade
<1> QED BY <1>7, <1>8, <1>9, <1>10 DEF Inv

\* A scalar in a subtree that is passed on: the frames stay, the tokens of the
\* prefix are all used up.
LEMMA ScalarEmitting ==
  ASSUME Inv, NEW t \in Texts, Scalar(t), emitting
  PROVE  Inv'
<1> DEFINE n == Len(open)
<1>1. /\ Len(prefix) \in Nat /\ frames \in Seq(Frames) /\ open \in Seq(Steps) /\ n \in Nat
      /\ emitting \in BOOLEAN /\ Mirrors(prefix, frames, open) /\ Len(frames) = n
      /\ n > Len(prefix) /\ OnPrefix(prefix, open, Len(prefix)) /\ open # <<>>
      /\ depth = n - Len(prefix)
  BY InvFacts
<1>2. /\ prefix' = prefix /\ made' = made /\ made /\ open' = AfterChild(open) /\ frames' = frames
      /\ emitting' = emitting /\ depth' = depth
      /\ last' = [seen |-> TRUE, path |-> open, yielded |-> TRUE]
  BY DEF Scalar, Reports
<1>3. /\ open' \in Seq(Steps) /\ Len(open') = n
      /\ \A i \in 1..n : i # n => open'[i] = open[i]
      /\ open'[n].object = open[n].object
  BY <1>1, <1>2, AfterChildSteps
<1>4. Mirrors(prefix, frames', open')
  <2>1. ASSUME NEW i \in 1..n
        PROVE  /\ frames[i].object = open'[i].object
               /\ frames[i].match = MatchOf(prefix, open', i - 1)
               /\ i <= Len(prefix) /\ ~open'[i].object => frames[i].next = open'[i].index
    <3>1. i - 1 \in Nat /\ \A j \in 1..(i - 1) : open'[j] = open[j]
      BY <1>1, <1>3
    <3>2. MatchOf(prefix, open', i - 1) = MatchOf(prefix, open, i - 1)
      BY <3>1, OnPrefixAgrees
    <3>3. /\ frames[i].object = open[i].object /\ frames[i].match = MatchOf(prefix, open, i - 1)
          /\ i <= Len(prefix) /\ ~open[i].object => frames[i].next = open[i].index
      BY <1>1 DEF Mirrors
    <3>4. open'[i].object = open[i].object /\ (i <= Len(prefix) => open'[i] = open[i])
      BY <1>1, <1>3
    <3> QED BY <3>2, <3>3, <3>4
  <2> QED BY <1>1, <1>2, <1>3, <2>1 DEF Mirrors
<1>5. Types' /\ YieldsExactly'
  <2>1. TRUE <=> Len(prefix) <= Len(open) /\ OnPrefix(prefix, open, Len(prefix))
    BY <1>1
  <2>2. YieldsExactly' /\ last'.yielded \in BOOLEAN
    BY <1>1, <1>2, <2>1, Reported
  <2>3. emitting' \in BOOLEAN
    BY <1>1, <1>2
  <2> QED BY <1>1, <1>2, <1>3, <2>2, <2>3 DEF Types
<1>6. PassesOn'
  <2>0. \A i \in 1..Len(prefix) : open'[i] = open[i]
    BY <1>1, <1>3
  <2>1. OnPrefix(prefix, open', Len(prefix))
    BY <1>1, <2>0 DEF OnPrefix
  <2> QED BY <1>1, <1>2, <1>3, <2>1 DEF PassesOn
<1>7. Mirrors(prefix, frames, open)' /\ NameCompared' /\ Unmade'
  BY <1>2, <1>4 DEF NameCompared, Unmade
<1> QED BY <1>5, <1>6, <1>7 DEF Inv

\* A scalar anywhere else is yielded when it is itself what the prefix names.
LEMMA ScalarSeeking ==
  ASSUME Inv, NEW t \in Texts, Scalar(t), ~emitting
  PROVE  Inv'
<1> DEFINE n == Len(open)
           hit == ChildMatchLen(t) = Len(prefix)
<1>1. /\ Len(prefix) \in Nat /\ frames \in Seq(Frames) /\ open \in Seq(Steps) /\ n \in Nat
      /\ emitting \in BOOLEAN /\ Mirrors(prefix, frames, open) /\ Len(frames) = n
      /\ ~(n > Len(prefix) /\ OnPrefix(prefix, open, Len(prefix))) /\ depth = 0
  BY InvFacts
<1>2. /\ prefix' = prefix /\ made' = made /\ made /\ open' = AfterChild(open) /\ frames' = NextIndex(frames)
      /\ emitting' = emitting /\ depth' = depth
      /\ last' = [seen |-> TRUE, path |-> open, yielded |-> hit]
  BY DEF Scalar, Reports
<1>3. ChildMatchLen(t) = MatchOf(prefix, open, n)
  BY ChildMatch DEF Scalar
<1>4. hit <=> Len(prefix) <= n /\ OnPrefix(prefix, open, Len(prefix))
  BY <1>1, <1>3 DEF MatchOf, OnPrefix, Diverged
<1>5. hit \in BOOLEAN
  OBVIOUS
<1> HIDE DEF hit
<1>6. frames' \in Seq(Frames) /\ Mirrors(prefix, frames', open')
  BY <1>1, <1>2, AdvanceMirrors
<1>7. /\ open' \in Seq(Steps) /\ Len(open') = n
      /\ \A i \in 1..n : i # n => open'[i] = open[i]
      /\ open # <<>> => /\ open'[n].object = open[n].object
                        /\ open[n].object => ~open'[n].due
  BY <1>1, <1>2, AfterChildSteps
<1>8. Types' /\ YieldsExactly'
  <2>1. YieldsExactly' /\ last'.yielded \in BOOLEAN
    BY <1>1, <1>2, <1>4, <1>5, Reported
  <2>2. emitting' \in BOOLEAN
    BY <1>1, <1>2
  <2> QED BY <1>1, <1>2, <1>6, <1>7, <2>1, <2>2 DEF Types
<1>9. PassesOn'
  <2>1. n > Len(prefix) => \A i \in 1..Len(prefix) : open'[i] = open[i]
    BY <1>1, <1>7
  <2>2. n > Len(prefix) => (OnPrefix(prefix, open', Len(prefix)) <=> OnPrefix(prefix, open, Len(prefix)))
    BY <2>1 DEF OnPrefix
  <2> QED BY <1>1, <1>2, <1>7, <2>2 DEF PassesOn
<1>10. NameCompared'
  <2>1. open' # <<>> => open # <<>>
    BY <1>1, <1>7
  <2> QED BY <1>7, <2>1 DEF NameCompared
<1>11. Mirrors(prefix, frames, open)' /\ Unmade'
  BY <1>2, <1>6 DEF Unmade
<1> QED BY <1>8, <1>9, <1>10, <1>11 DEF Inv

LEMMA CursorUnmoved ==
  ASSUME Inv, UNCHANGED <<made, cursor, open, last>>
  PROVE  Inv'
<1>1. /\ made' = made /\ prefix' = prefix /\ frames' = frames /\ pending' = pending
      /\ emitting' = emitting /\ depth' = depth /\ open' = open /\ last' = last
  BY DEF cursor
<1>2. Types' /\ Unmade'
  BY <1>1 DEF Inv, Types, Unmade
<1>3. Mirrors(prefix, frames, open)' /\ NameCompared'
  BY <1>1 DEF Inv, NameCompared
<1>4. PassesOn' /\ YieldsExactly'
  BY <1>1 DEF Inv, PassesOn, YieldsExactly, InPrefix
<1> QED BY <1>2, <1>3, <1>4 DEF Inv

(***************************************************************************)
(* Results.                                                                *)
(***************************************************************************)
LEMMA NextKeeps == Inv /\ [Next]_vars => Inv'
<1> SUFFICES ASSUME Inv, [Next]_vars PROVE Inv'
  OBVIOUS
<1>1. CASE \E t \in PrefixTexts : Items(t)
  BY <1>1, ItemsKeeps
<1>2. CASE \E object \in BOOLEAN : Begin(object)
  BY <1>2, BeginEmitting, BeginSeeking
<1>3. CASE End
  BY <1>3, EndKeeps
<1>4. CASE \E t \in Texts : MapKey(t)
  BY <1>4, MapKeyKeeps
<1>5. CASE \E t \in Texts : Scalar(t)
  BY <1>5, ScalarEmitting, ScalarSeeking
<1>6. CASE ReaderStops
  BY <1>6, CursorUnmoved DEF ReaderStops
<1>7. CASE UNCHANGED vars
  BY <1>7, CursorUnmoved DEF vars
<1> QED BY <1>1, <1>2, <1>3, <1>4, <1>5, <1>6, <1>7 DEF Next

\* The cursor's stack mirrors the reader's through every event, whatever it
\* passes on or passes by (StreamItems::next, on_map_key, child_match_len).
THEOREM CursorInvariant == Spec => []Inv
<1> QED BY InitCursor, NextKeeps, PTL DEF Spec

\* An event is yielded exactly when its value, or one around it, is at a path
\* the prefix matches, and there is one frame per open container, for every
\* pointer and every stream of events (StreamItems::next).
THEOREM CursorIsSound == Spec => []CursorSound
<1>1. Inv => CursorSound
  <2> SUFFICES ASSUME Inv PROVE CursorSound
    OBVIOUS
  <2>1. OneFramePerContainer
    <3>1. Len(frames) = Len(open) /\ \A i \in 1..Len(open) : frames[i].object = open[i].object
      BY DEF Inv, Mirrors
    <3>2. depth = IF emitting THEN Len(open) - Len(prefix) ELSE 0
      BY DEF Inv, PassesOn
    <3> QED BY <3>1, <3>2 DEF OneFramePerContainer
  <2> QED BY <2>1 DEF Inv, CursorSound
<1> QED BY <1>1, CursorInvariant, PTL

(***************************************************************************)
(* The pointer: a cursor exists exactly for a well-formed one.             *)
(***************************************************************************)
Pointer ==
  /\ text \in Seq(Chars)
  /\ made => Accepted(text)
  /\ ~made /\ text # <<>> => ~Accepted(text)

LEMMA AcceptsWellFormed ==
  ASSUME NEW t \in Seq(Chars)
  PROVE  /\ Accepted(t) <=> WellFormed(t)
         /\ Accepted(t) => Respelled(Decode(t).tokens) = t
<1>1. CASE t = <<>>
  <2>1. PICK run \in [0..Len(t) -> Decoded] : run[0] = Undecoded /\ run[Len(t)] = Decode(t)
    BY DecodeRuns
  <2>2. Decode(t).tokens = <<>>
    BY <1>1, <2>1 DEF Undecoded
  <2> QED BY <1>1, <2>2, SpelledEmpty DEF Accepted, WellFormed
<1>2. CASE t # <<>> /\ t[1] # "/"
  BY <1>2 DEF Accepted, WellFormed
<1>3. CASE t # <<>> /\ t[1] = "/"
  <2>1. Len(t) \in Nat /\ Len(t) >= 1
    BY <1>3
  <2>2. Escapes(t, Len(t)) /\ t[Len(t)] # "~"
        <=> \A i \in 1..Len(t) : t[i] = "~" => i < Len(t) /\ t[i + 1] \in {"0", "1"}
    <3>1. ASSUME Escapes(t, Len(t)), t[Len(t)] # "~", NEW i \in 1..Len(t), t[i] = "~"
          PROVE  i < Len(t) /\ t[i + 1] \in {"0", "1"}
      <4>1. i < Len(t) /\ i + 1 <= Len(t)
        BY <2>1, <3>1
      <4> QED BY <3>1, <4>1 DEF Escapes
    <3>2. ASSUME \A i \in 1..Len(t) : t[i] = "~" => i < Len(t) /\ t[i + 1] \in {"0", "1"}
          PROVE  Escapes(t, Len(t)) /\ t[Len(t)] # "~"
      BY <2>1, <3>2 DEF Escapes
    <3> QED BY <3>1, <3>2
  <2>3. WellFormed(t) <=> \A i \in 1..Len(t) : t[i] = "~" => i < Len(t) /\ t[i + 1] \in {"0", "1"}
    BY <1>3 DEF WellFormed
  <2>4. Accepted(t) <=> Decode(t).ok /\ ~Decode(t).esc
    BY <1>3 DEF Accepted
  <2> QED BY <1>3, <2>2, <2>3, <2>4, DecodesExactly
<1> QED BY <1>1, <1>2, <1>3

LEMMA NextPointer == Pointer /\ [Next]_vars => Pointer'
<1> SUFFICES ASSUME Pointer, [Next]_vars PROVE Pointer'
  OBVIOUS
<1>1. ASSUME NEW t \in PrefixTexts, Items(t) PROVE Pointer'
  <2>1. t \in Seq(Chars)
    BY ItemsAssumption DEF Chars
  <2>2. text' = t /\ made' = Accepted(t)
    BY <1>1 DEF Items
  <2> QED BY <2>1, <2>2 DEF Pointer
<1>2. ASSUME UNCHANGED <<text, made>> PROVE Pointer'
  BY <1>2 DEF Pointer
<1>3. CASE \E t \in PrefixTexts : Items(t)
  BY <1>1, <1>3
<1>4. CASE (\E object \in BOOLEAN : Begin(object)) \/ End \/ ReaderStops
           \/ \E t \in Texts : MapKey(t) \/ Scalar(t)
  BY <1>2, <1>4 DEF Begin, End, ReaderStops, MapKey, Scalar
<1>5. CASE UNCHANGED vars
  BY <1>2, <1>5 DEF vars
<1> QED BY <1>3, <1>4, <1>5 DEF Next

\* items() accepts exactly the well-formed pointers, and what it decodes spells
\* the pointer out again, for every pointer (parse_prefix).
THEOREM PrefixIsDecoded == Spec => []PrefixDecodes
<1>1. Init => Pointer
  <2>1. <<>> \in Seq(Chars)
    OBVIOUS
  <2> QED BY <2>1 DEF Init, Pointer
<1>2. Pointer => PrefixDecodes
  <2> SUFFICES ASSUME Pointer PROVE PrefixDecodes
    OBVIOUS
  <2>1. /\ Accepted(text) <=> WellFormed(text)
        /\ Accepted(text) => Respelled(Decode(text).tokens) = text
    BY AcceptsWellFormed DEF Pointer
  <2>2. made => FlattenSeq([i \in 1..Len(Decode(text).tokens) |-> Spelled(Decode(text).tokens[i])]) = text
    BY <2>1 DEF Pointer, Respelled
  <2> QED BY <2>1, <2>2 DEF Pointer, PrefixDecodes
<1> QED BY <1>1, <1>2, NextPointer, PTL DEF Spec
=============================================================================
