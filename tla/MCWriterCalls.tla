--------------------------- MODULE MCWriterCalls ---------------------------
(***************************************************************************)
(* Values and options for model checking WriterCalls.  With batches of two *)
(* bytes the short strings place every hit in a full batch, in the tail    *)
(* and on the border between them.                                         *)
(***************************************************************************)
EXTENDS WriterCalls

Short == UNION {[1..n -> {97, 34, 24}] : n \in 0..3}
Utf8  == {<<195, 128>>, <<97, 224, 191, 128>>, <<239, 187, 191>>, <<240, 191, 128, 128>>,
          <<244, 128, 128, 128, 97>>, <<237, 128, 128>>}
Broken == {<<128>>, <<192, 128>>, <<224, 128, 128>>, <<237, 191, 128>>, <<240, 128, 128, 128>>,
           <<244, 191, 128, 128>>, <<255>>, <<195>>, <<195, 97>>, <<224, 191>>}
Other == {<<97, 34, 97, 92, 97>>, <<8, 9, 10, 12, 13>>, <<0>>}

E(k, v) == Keyed(k, "borrowed", v)
Pair(x, y) == ArrayNode(<<x, y>>)
A == <<97>>
B == <<98>>
Numbers == {IntNode(n) : n \in {0, 1, -8, 10, 80, -81}}
             \union {FloatOf(t) : t \in {<<49>>, <<48, 46, 49>>, <<49, 101, 43, 56, 48>>,
                                       <<45, 48>>, <<110>>}}
Containers ==
  {ArrayNode(<<>>), ObjectNode(<<>>), Pair(NullNode, ArrayNode(<<>>)),
   Pair(ViewNode(A), FloatOf(<<105>>)), Pair(Pair(IntNode(1), BoolNode(TRUE)), ViewNode(<<255>>)),
   ArrayNode(<<ArrayNode(<<ArrayNode(<<>>)>>)>>),
   ObjectNode(<<E(B, IntNode(1)), E(A, ObjectNode(<<E(<<98, 97>>, NullNode), E(<<>>, BoolNode(FALSE)),
                                                   E(<<10>>, ViewNode(<<10>>))>>))>>),
   ObjectNode(<<E(<<195, 128>>, ArrayNode(<<>>)), E(<<97, 97>>, NullNode), E(A, FloatOf(<<49>>))>>),
   ObjectNode(<<E(<<255>>, NullNode)>>),
   ArrayNode(<<ObjectNode(<<E(A, ViewNode(<<10, 97>>))>>), ObjectNode(<<>>), FloatOf(<<49>>)>>)}

MCValues == {NullNode, BoolNode(TRUE)} \union Numbers \union Containers
              \union {ViewNode(t) : t \in Short \union Utf8 \union Broken \union Other}
Layout == {[pretty |-> FALSE, indent |-> 0, char |-> "a"], [pretty |-> TRUE, indent |-> 1, char |-> "sp"],
           [pretty |-> TRUE, indent |-> 1, char |-> "a"]}
MCOptions == {[pretty |-> l.pretty, indent |-> l.indent, char |-> l.char, sort |-> s, ascii |-> a,
               depth |-> d] : l \in Layout, s \in BOOLEAN, a \in BOOLEAN, d \in {0, 2}}
=============================================================================
