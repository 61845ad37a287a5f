------------------------- MODULE DocumentLifeProofs -------------------------
(***************************************************************************)
(* Proofs about DocumentLife: for any number of documents and any storage  *)
(* they ask for, every block and arena is given back exactly once and to   *)
(* its owner (BlocksBalance), and nothing a live document refers to is     *)
(* gone (NothingDangles).                                                  *)
(*                                                                         *)
(* The operations compose: an assignment is five moves, a reset is a fresh *)
(* document, an assignment and a destruction.  Each has a lemma on what it *)
(* does to the memory, and the whole operations keep Sound.                *)
(***************************************************************************)
EXTENDS DocumentLife, TLAPS

Roots   == [node : Nat, res : Int, view : Int]
Buffers == [alloc : Int, block : Nat]
StorageNames == {"Pooled", "Arena", "SystemDefault"}
Documents == [alive : BOOLEAN, arena : Nat, root : Roots, buf : Buffers,
              storage : StorageNames]
Memory == [docs : [Docs -> Documents], live : SUBSET Nat, owner : Seq(Int),
           arenas : SUBSET Nat, made : Nat, bad : BOOLEAN]

(***************************************************************************)
(* The inductive invariant, of a memory m and a buffer c with the caller.  *)
(***************************************************************************)
\* Numbers that were given out; nothing was misused.
Numbered(m) ==
  /\ ~m.bad
  /\ \A b \in m.live : b \in 1..Len(m.owner)
  /\ \A a \in m.arenas : a \in 1..m.made

\* A document owns a live arena or none, its nodes come from its own resource,
\* its buffer from that, from new_delete or from the caller's.
DocOwns(m, x) ==
  LET doc == m.docs[x]
  IN  /\ ~doc.alive => doc = Gone
      /\ doc.arena # 0 => doc.arena \in m.arenas
      /\ doc.root.node # 0 =>
           doc.root.node \in m.live /\ m.owner[doc.root.node] = doc.root.res
           /\ doc.root.res = Resource(doc.arena)
      /\ doc.buf.block # 0 =>
           doc.buf.block \in m.live /\ m.owner[doc.buf.block] = doc.buf.alloc
           /\ doc.buf.block # doc.root.node
      /\ doc.buf.alloc \in {NewDelete, Foreign, doc.arena}

\* Two documents share neither arena nor block.
DocsApart(m, x, y) ==
  /\ m.docs[x].arena # 0 => m.docs[x].arena # m.docs[y].arena
  /\ m.docs[x].root.node # 0 => m.docs[x].root.node \notin {m.docs[y].root.node, m.docs[y].buf.block}
  /\ m.docs[x].buf.block # 0 => m.docs[x].buf.block \notin {m.docs[y].root.node, m.docs[y].buf.block}

\* The buffer with the caller is live and no document's.
CallerOwns(m, c) ==
  /\ c.alloc \in {NewDelete, Foreign}
  /\ c.block # 0 =>
       /\ c.block \in m.live /\ m.owner[c.block] = c.alloc
       /\ \A x \in Docs : c.block # m.docs[x].root.node /\ c.block # m.docs[x].buf.block

\* Every live block and arena has a holder.
Held(m, c) ==
  /\ \A b \in m.live : b = c.block \/ \E x \in Docs : b = m.docs[x].root.node \/ b = m.docs[x].buf.block
  /\ \A a \in m.arenas : \E x \in Docs : a = m.docs[x].arena

Sound(m, c) ==
  /\ m \in Memory /\ c \in Buffers
  /\ Numbered(m)
  /\ \A x \in Docs : DocOwns(m, x)
  /\ \A x, y \in Docs : x # y => DocsApart(m, x, y)
  /\ CallerOwns(m, c)
  /\ Held(m, c)

\* A document's views are of the buffer it owns, unless they are the caller's.
ViewsOwn(m, x) == m.docs[x].root.view > 0 => m.docs[x].root.view = m.docs[x].buf.block

Inv == Sound(mem, caller) /\ \A x \in Docs : ViewsOwn(mem, x)

(***************************************************************************)
(* Memory operations.                                                      *)
(***************************************************************************)
LEMMA AllocFields ==
  ASSUME NEW m \in Memory, NEW res \in Int, IsAlive(m, res), ~m.bad, NEW n, n = Alloc(m, res)
  PROVE  /\ n \in Memory /\ ~n.bad
         /\ n.docs = m.docs /\ n.arenas = m.arenas /\ n.made = m.made
         /\ n.owner = Append(m.owner, res) /\ n.live = m.live \union {Len(m.owner) + 1}
<1>1. /\ m.owner \in Seq(Int) /\ Append(m.owner, res) \in Seq(Int)
      /\ m.live \union {Len(m.owner) + 1} \in SUBSET Nat
  BY DEF Memory
<1>2. n = [docs |-> m.docs, live |-> m.live \union {Len(m.owner) + 1}, owner |-> Append(m.owner, res),
           arenas |-> m.arenas, made |-> m.made, bad |-> FALSE]
  BY DEF Alloc, NewBlock, Memory
<1> QED BY <1>1, <1>2 DEF Memory

LEMMA FreeFields ==
  ASSUME NEW m \in Memory, NEW block \in Nat, NEW res \in Int, ~m.bad, 0 \notin m.live,
         block # 0 => block \in m.live /\ m.owner[block] = res /\ IsAlive(m, res),
         NEW n, n = Free(m, block, res)
  PROVE  /\ n \in Memory /\ ~n.bad
         /\ n.docs = m.docs /\ n.arenas = m.arenas /\ n.made = m.made
         /\ n.owner = m.owner /\ n.live = m.live \ {block}
<1>1. CASE block = 0
  BY <1>1 DEF Free, Memory
<1>2. CASE block # 0
  BY <1>2 DEF Free, Memory
<1> QED BY <1>1, <1>2

LEMMA DestroyArenaFields ==
  ASSUME NEW m \in Memory, NEW a \in Nat, ~m.bad, 0 \notin m.arenas, a # 0 => a \in m.arenas,
         NEW n, n = DestroyArena(m, a)
  PROVE  /\ n \in Memory /\ ~n.bad
         /\ n.docs = m.docs /\ n.arenas = m.arenas \ {a} /\ n.made = m.made
         /\ n.owner = m.owner /\ n.live = {b \in m.live : a # 0 => m.owner[b] # a}
<1>1. CASE a = 0
  BY <1>1 DEF DestroyArena, Memory
<1>2. CASE a # 0
  BY <1>2 DEF DestroyArena, Memory
<1> QED BY <1>1, <1>2

LEMMA MakeArenaFields ==
  ASSUME NEW m \in Memory, NEW s \in StorageNames, ~m.bad, NEW n, n = MakeArena(m, s),
         NEW a, a = ArenaOf(m, s)
  PROVE  /\ n \in Memory /\ ~n.bad /\ a \in Nat
         /\ n.docs = m.docs /\ n.live = m.live /\ n.owner = m.owner
         /\ \/ a = 0 /\ n.arenas = m.arenas /\ n.made = m.made
            \/ a = m.made + 1 /\ n.arenas = m.arenas \union {a} /\ n.made = m.made + 1
<1>1. CASE s = "SystemDefault"
  BY <1>1 DEF MakeArena, ArenaOf, Memory
<1>2. CASE s # "SystemDefault"
  <2>1. n = [docs |-> m.docs, live |-> m.live, owner |-> m.owner,
             arenas |-> m.arenas \union {m.made + 1}, made |-> m.made + 1, bad |-> m.bad]
    BY <1>2 DEF MakeArena, Memory
  <2>2. a = m.made + 1 /\ m.made + 1 \in Nat /\ m.arenas \union {m.made + 1} \in SUBSET Nat
    BY <1>2 DEF ArenaOf, Memory
  <2> QED BY <2>1, <2>2 DEF Memory
<1> QED BY <1>1, <1>2

(***************************************************************************)
(* The moves an assignment is made of.                                     *)
(***************************************************************************)
Put(f, d, P) == [f EXCEPT !.docs = [f.docs EXCEPT ![d] = P]]
SameBlocks(n, f) ==
  /\ n.live = f.live /\ n.owner = f.owner
  /\ n.arenas = f.arenas /\ n.made = f.made /\ n.bad = f.bad

\* n is f with documents replaced.
Replaces(n, f, d, P) ==
  /\ n \in Memory /\ SameBlocks(n, f)
  /\ n.docs[d] = P /\ \A x \in Docs \ {d} : n.docs[x] = f.docs[x]
ReplacesTwo(n, f, d, P, e, Q) ==
  /\ n \in Memory /\ SameBlocks(n, f)
  /\ n.docs[d] = P /\ n.docs[e] = Q /\ \A x \in Docs \ {d, e} : n.docs[x] = f.docs[x]

LEMMA OneDoc ==
  ASSUME NEW f \in Memory, NEW d \in Docs, NEW P \in Documents
  PROVE  Replaces(Put(f, d, P), f, d, P)
<1> DEFINE g == [f.docs EXCEPT ![d] = P]
<1>1. f.docs \in [Docs -> Documents]
  BY DEF Memory
<1>2. /\ g[d] = P /\ \A x \in Docs \ {d} : g[x] = f.docs[x]
      /\ g \in [Docs -> Documents]
  BY <1>1
<1> HIDE DEF g
<1> QED BY <1>2 DEF Memory, Put, Replaces, SameBlocks, g

LEMMA TwoDocs ==
  ASSUME NEW f \in Memory, NEW d \in Docs, NEW e \in Docs, d # e,
         NEW P \in Documents, NEW Q \in Documents
  PROVE  ReplacesTwo(Put(Put(f, d, P), e, Q), f, d, P, e, Q)
<1> DEFINE h == Put(f, d, P)
           n == Put(h, e, Q)
<1>1. Replaces(h, f, d, P)
  BY OneDoc
<1>2. h \in Memory
  BY <1>1 DEF Replaces
<1> HIDE DEF h
<1>3. Replaces(n, h, e, Q)
  BY <1>2, OneDoc
<1> HIDE DEF n
<1>4. ReplacesTwo(n, f, d, P, e, Q)
  BY <1>1, <1>3 DEF Replaces, ReplacesTwo, SameBlocks
<1> QED BY <1>4 DEF h, n

LEMMA MoveRootFields ==
  ASSUME NEW m \in Memory, ~m.bad, 0 \notin m.live, NEW d \in Docs, NEW e \in Docs, d # e,
         NEW D, D = m.docs[d], NEW E, E = m.docs[e],
         D.root.node # 0 => D.root.node \in m.live /\ m.owner[D.root.node] = D.root.res
                            /\ IsAlive(m, D.root.res),
         NEW n, n = MoveRoot(m, d, e)
  PROVE  /\ n \in Memory /\ ~n.bad
         /\ n.arenas = m.arenas /\ n.made = m.made /\ n.owner = m.owner
         /\ n.live = m.live \ {D.root.node}
         /\ n.docs[d] = [D EXCEPT !.root = E.root] /\ n.docs[e] = [E EXCEPT !.root = NoRoot]
         /\ \A x \in Docs \ {d, e} : n.docs[x] = m.docs[x]
<1> DEFINE f == Free(m, D.root.node, D.root.res)
           P == [D EXCEPT !.root = E.root]
           Q == [E EXCEPT !.root = NoRoot]
<1>1. D \in Documents /\ E \in Documents /\ NoRoot \in Roots
  BY DEF Memory, NoRoot, Roots, NewDelete
<1>2. /\ f \in Memory /\ ~f.bad /\ f.docs = m.docs /\ f.arenas = m.arenas /\ f.made = m.made
      /\ f.owner = m.owner /\ f.live = m.live \ {D.root.node}
  BY <1>1, FreeFields, SMTT(40) DEF Documents, Roots
<1>3. n = [f EXCEPT !.docs[d].root = E.root, !.docs[e].root = NoRoot]
  BY DEF MoveRoot, DestroyRoot
<1> HIDE DEF f
<1>4. n = Put(Put(f, d, P), e, Q)
  BY <1>2, <1>3 DEF Memory, Put
<1>5. P \in Documents /\ Q \in Documents
  BY <1>1 DEF Documents
<1> HIDE DEF P, Q
<1>6. ReplacesTwo(n, f, d, P, e, Q)
  BY <1>2, <1>4, <1>5, TwoDocs
<1> QED BY <1>2, <1>6 DEF P, Q, ReplacesTwo, SameBlocks

LEMMA MoveBufferFields ==
  ASSUME NEW m \in Memory, ~m.bad, 0 \notin m.live, NEW d \in Docs, NEW e \in Docs, d # e,
         NEW D, D = m.docs[d], NEW E, E = m.docs[e],
         D.buf.block # 0 => D.buf.block \in m.live /\ m.owner[D.buf.block] = D.buf.alloc
                            /\ IsAlive(m, D.buf.alloc),
         NEW n, n = MoveBuffer(m, d, e)
  PROVE  /\ n \in Memory /\ ~n.bad
         /\ n.arenas = m.arenas /\ n.made = m.made /\ n.owner = m.owner
         /\ n.live = m.live \ {D.buf.block}
         /\ n.docs[d] = [D EXCEPT !.buf = IF E.buf.block = 0 THEN NoBuffer ELSE E.buf]
         /\ n.docs[e] = [E EXCEPT !.buf.block = 0]
         /\ \A x \in Docs \ {d, e} : n.docs[x] = m.docs[x]
<1> DEFINE f == Free(m, D.buf.block, D.buf.alloc)
           P == [D EXCEPT !.buf = IF E.buf.block = 0 THEN NoBuffer ELSE E.buf]
           Q == [E EXCEPT !.buf.block = 0]
<1>1. D \in Documents /\ E \in Documents /\ NoBuffer \in Buffers
  BY DEF Memory, NoBuffer, Buffers, NewDelete
<1>2. /\ f \in Memory /\ ~f.bad /\ f.docs = m.docs /\ f.arenas = m.arenas /\ f.made = m.made
      /\ f.owner = m.owner /\ f.live = m.live \ {D.buf.block}
  BY <1>1, FreeFields DEF Documents, Buffers
<1>3. n = IF E.buf.block = 0 THEN [f EXCEPT !.docs[d].buf = NoBuffer]
          ELSE [f EXCEPT !.docs[d].buf = E.buf, !.docs[e].buf.block = 0]
  BY DEF MoveBuffer, DestroyBuffer
<1> HIDE DEF f
<1>4. n = Put(Put(f, d, P), e, Q)
  <2>1. CASE E.buf.block # 0
    BY <1>2, <1>3, <2>1 DEF Memory, Put
  <2>2. CASE E.buf.block = 0
    <3>1. Q = E
      BY <1>1, <2>2 DEF Documents, Buffers
    <3>2. n = [f EXCEPT !.docs = [f.docs EXCEPT ![d] = P]]
      BY <1>2, <1>3, <2>2 DEF Memory
    <3>3. f.docs \in [Docs -> Documents] /\ f.docs[e] = E
      BY <1>2 DEF Memory
    <3> HIDE DEF P, Q
    <3>4. [f.docs EXCEPT ![d] = P] = [f.docs EXCEPT ![d] = P, ![e] = Q]
      BY <3>1, <3>3
    <3> QED BY <3>2, <3>4 DEF Put
  <2> QED BY <2>1, <2>2
<1>5. P \in Documents /\ Q \in Documents
  BY <1>1 DEF Documents, Buffers
<1> HIDE DEF P, Q
<1>6. ReplacesTwo(n, f, d, P, e, Q)
  BY <1>2, <1>4, <1>5, TwoDocs
<1> QED BY <1>2, <1>6 DEF P, Q, ReplacesTwo, SameBlocks

LEMMA MoveArenaFields ==
  ASSUME NEW m \in Memory, ~m.bad, 0 \notin m.arenas, NEW d \in Docs, NEW e \in Docs, d # e,
         NEW D, D = m.docs[d], NEW E, E = m.docs[e],
         D.arena # 0 => D.arena \in m.arenas,
         NEW n, n = MoveArena(m, d, e)
  PROVE  /\ n \in Memory /\ ~n.bad
         /\ n.arenas = m.arenas \ {D.arena} /\ n.made = m.made /\ n.owner = m.owner
         /\ n.live = {b \in m.live : D.arena # 0 => m.owner[b] # D.arena}
         /\ n.docs[d] = [D EXCEPT !.arena = E.arena] /\ n.docs[e] = [E EXCEPT !.arena = 0]
         /\ \A x \in Docs \ {d, e} : n.docs[x] = m.docs[x]
<1> DEFINE f == DestroyArena(m, D.arena)
           P == [D EXCEPT !.arena = E.arena]
           Q == [E EXCEPT !.arena = 0]
<1>1. D \in Documents /\ E \in Documents
  BY DEF Memory
<1>2. /\ f \in Memory /\ ~f.bad /\ f.docs = m.docs /\ f.arenas = m.arenas \ {D.arena} /\ f.made = m.made
      /\ f.owner = m.owner /\ f.live = {b \in m.live : D.arena # 0 => m.owner[b] # D.arena}
  BY <1>1, DestroyArenaFields DEF Documents
<1>3. n = [f EXCEPT !.docs[d].arena = E.arena, !.docs[e].arena = 0]
  BY DEF MoveArena
<1> HIDE DEF f
<1>4. n = Put(Put(f, d, P), e, Q)
  BY <1>2, <1>3 DEF Memory, Put
<1>5. P \in Documents /\ Q \in Documents
  BY <1>1 DEF Documents
<1> HIDE DEF P, Q
<1>6. ReplacesTwo(n, f, d, P, e, Q)
  BY <1>2, <1>4, <1>5, TwoDocs
<1> QED BY <1>2, <1>6 DEF P, Q, ReplacesTwo, SameBlocks

\* The source's buffer holds no block any more.
LEMMA RebindSourceFields ==
  ASSUME NEW m \in Memory, ~m.bad, 0 \notin m.live, NEW e \in Docs,
         NEW E, E = m.docs[e], E.buf.block = 0,
         NEW n, n = RebindSource(m, e)
  PROVE  /\ n \in Memory /\ ~n.bad
         /\ n.arenas = m.arenas /\ n.made = m.made /\ n.owner = m.owner /\ n.live = m.live
         /\ n.docs[e] = [E EXCEPT !.buf = NoBuffer]
         /\ \A x \in Docs \ {e} : n.docs[x] = m.docs[x]
<1> DEFINE P == [E EXCEPT !.buf = NoBuffer]
<1>1. E \in Documents /\ NoBuffer \in Buffers
  BY DEF Memory, NoBuffer, Buffers, NewDelete
<1>2. n = Put(m, e, P)
  BY DEF Put, RebindSource, DestroyBuffer, Free, Memory
<1>3. P \in Documents
  BY <1>1 DEF Documents
<1> HIDE DEF P
<1>4. Replaces(n, m, e, P)
  BY <1>2, <1>3, OneDoc
<1> QED BY <1>4 DEF P, Replaces, SameBlocks

LEMMA TakeSettingsFields ==
  ASSUME NEW m \in Memory, ~m.bad, NEW d \in Docs, NEW e \in Docs,
         NEW D, D = m.docs[d], NEW n, n = TakeSettings(m, d, e)
  PROVE  /\ n \in Memory /\ ~n.bad
         /\ n.arenas = m.arenas /\ n.made = m.made /\ n.owner = m.owner /\ n.live = m.live
         /\ n.docs[d] = [D EXCEPT !.storage = m.docs[e].storage]
         /\ \A x \in Docs \ {d} : n.docs[x] = m.docs[x]
<1> DEFINE P == [D EXCEPT !.storage = m.docs[e].storage]
<1>1. D \in Documents /\ m.docs[e] \in Documents
  BY DEF Memory
<1>2. n = Put(m, d, P)
  BY DEF Put, TakeSettings, Memory
<1>3. P \in Documents
  BY <1>1 DEF Documents
<1> HIDE DEF P
<1>4. Replaces(n, m, d, P)
  BY <1>2, <1>3, OneDoc
<1> QED BY <1>4 DEF P, Replaces, SameBlocks

(***************************************************************************)
(* Whole operations.                                                       *)
(***************************************************************************)
\* What the operations need of a sound memory.
LEMMA SoundFacts ==
  ASSUME NEW m, NEW c, Sound(m, c), NEW d \in Docs, NEW D, D = m.docs[d]
  PROVE  /\ 0 \notin m.live /\ 0 \notin m.arenas /\ D \in Documents /\ ~m.bad /\ m \in Memory
         /\ D.root.node # 0 => D.root.node \in m.live /\ m.owner[D.root.node] = D.root.res
                               /\ IsAlive(m, D.root.res)
         /\ D.buf.block # 0 => D.buf.block \in m.live /\ m.owner[D.buf.block] = D.buf.alloc
                               /\ IsAlive(m, D.buf.alloc)
         /\ D.arena # 0 => D.arena \in m.arenas
<1>1. m \in Memory /\ Numbered(m) /\ DocOwns(m, d)
  BY DEF Sound
<1>2. 0 \notin m.live /\ 0 \notin m.arenas /\ D \in Documents /\ ~m.bad
  BY <1>1 DEF Memory, Numbered
<1>3. /\ D.root.node # 0 => D.root.node \in m.live /\ m.owner[D.root.node] = D.root.res
                            /\ IsAlive(m, D.root.res)
      /\ D.buf.block # 0 => D.buf.block \in m.live /\ m.owner[D.buf.block] = D.buf.alloc
                            /\ IsAlive(m, D.buf.alloc)
      /\ D.arena # 0 => D.arena \in m.arenas
  BY <1>1 DEF DocOwns, IsAlive, Resource, NewDelete, Foreign
<1> QED BY <1>1, <1>2, <1>3

\* The blocks of an arena are its document's.
LEMMA ArenaBlocks ==
  ASSUME NEW m, NEW c, Sound(m, c), NEW d \in Docs, NEW D, D = m.docs[d], D.arena # 0,
         NEW b \in m.live, m.owner[b] = D.arena
  PROVE  b \in {D.root.node, D.buf.block}
<1>1. D.arena \in Nat /\ D.arena # 0
  BY DEF Sound, Memory, Documents
<1>2. CASE b = c.block
  BY <1>1, <1>2 DEF Sound, CallerOwns, NewDelete, Foreign, Numbered
<1>3. CASE b # c.block
  <2>1. PICK x \in Docs : b = m.docs[x].root.node \/ b = m.docs[x].buf.block
    BY <1>3 DEF Sound, Held
  <2>2. DocOwns(m, x) /\ b # 0
    BY DEF Sound, Numbered
  <2>3. m.owner[b] \in {NewDelete, Foreign, m.docs[x].arena}
    BY <2>1, <2>2 DEF DocOwns, Resource
  <2>4. m.docs[x].arena = D.arena
    BY <1>1, <2>3 DEF NewDelete, Foreign
  <2>5. x = d
    BY <1>1, <2>4 DEF Sound, DocsApart
  <2> QED BY <2>1, <2>5
<1> QED BY <1>2, <1>3

\* Assignment: the target's blocks and arena go, the source's parts move over.
LEMMA AssignFields ==
  ASSUME NEW m, NEW c, Sound(m, c), NEW d \in Docs, NEW e \in Docs, d # e,
         NEW D, D = m.docs[d], NEW E, E = m.docs[e],
         NEW n, n = Assign(m, d, e)
  PROVE  /\ n \in Memory /\ ~n.bad
         /\ n.arenas = m.arenas \ {D.arena} /\ n.made = m.made /\ n.owner = m.owner
         /\ n.live = m.live \ {D.root.node, D.buf.block}
         /\ n.docs[d] = [alive |-> D.alive, arena |-> E.arena, root |-> E.root,
                         buf |-> IF E.buf.block = 0 THEN NoBuffer ELSE E.buf, storage |-> E.storage]
         /\ n.docs[e] = [alive |-> E.alive, arena |-> 0, root |-> NoRoot, buf |-> NoBuffer,
                         storage |-> E.storage]
         /\ \A x \in Docs \ {d, e} : n.docs[x] = m.docs[x]
<1> DEFINE r == MoveRoot(m, d, e)
           f == MoveBuffer(r, d, e)
           a == MoveArena(f, d, e)
           o == RebindSource(a, e)
<1>1. /\ m \in Memory /\ ~m.bad /\ 0 \notin m.live /\ 0 \notin m.arenas /\ D \in Documents /\ E \in Documents
      /\ D.root.node # 0 => D.root.node \in m.live /\ m.owner[D.root.node] = D.root.res
                            /\ IsAlive(m, D.root.res)
      /\ D.buf.block # 0 => D.buf.block \in m.live /\ m.owner[D.buf.block] = D.buf.alloc
                            /\ IsAlive(m, D.buf.alloc)
      /\ D.buf.block # 0 => D.buf.block # D.root.node
      /\ D.arena # 0 => D.arena \in m.arenas
  BY SoundFacts DEF Sound, DocOwns
<1>2. n = TakeSettings(o, d, e)
  BY DEF Assign
<1>3. /\ r \in Memory /\ ~r.bad
      /\ r.arenas = m.arenas /\ r.made = m.made /\ r.owner = m.owner
      /\ r.live = m.live \ {D.root.node}
      /\ r.docs[d] = [D EXCEPT !.root = E.root] /\ r.docs[e] = [E EXCEPT !.root = NoRoot]
      /\ \A x \in Docs \ {d, e} : r.docs[x] = m.docs[x]
  BY <1>1, MoveRootFields
<1> HIDE DEF r
<1>4. /\ f \in Memory /\ ~f.bad
      /\ f.arenas = m.arenas /\ f.made = m.made /\ f.owner = m.owner
      /\ f.live = m.live \ {D.root.node, D.buf.block}
      /\ f.docs[d] = [alive |-> D.alive, arena |-> D.arena, root |-> E.root,
                      buf |-> IF E.buf.block = 0 THEN NoBuffer ELSE E.buf, storage |-> D.storage]
      /\ f.docs[e] = [alive |-> E.alive, arena |-> E.arena, root |-> NoRoot,
                      buf |-> [alloc |-> E.buf.alloc, block |-> 0], storage |-> E.storage]
      /\ \A x \in Docs \ {d, e} : f.docs[x] = m.docs[x]
  <2> DEFINE RD == r.docs[d]
             RE == r.docs[e]
  <2>1. /\ RD.buf = D.buf /\ RE.buf = E.buf
        /\ RD = [alive |-> D.alive, arena |-> D.arena, root |-> E.root, buf |-> D.buf, storage |-> D.storage]
        /\ RE = [alive |-> E.alive, arena |-> E.arena, root |-> NoRoot, buf |-> E.buf, storage |-> E.storage]
    BY <1>1, <1>3 DEF Documents
  <2>2. RD.buf.block # 0 => RD.buf.block \in r.live /\ r.owner[RD.buf.block] = RD.buf.alloc
                            /\ IsAlive(r, RD.buf.alloc)
    BY <1>1, <1>3, <2>1 DEF IsAlive
  <2>3. 0 \notin r.live /\ r \in Memory /\ ~r.bad /\ RD = r.docs[d] /\ RE = r.docs[e]
    BY <1>1, <1>3
  <2> HIDE DEF RD, RE
  <2>4. /\ f \in Memory /\ ~f.bad
        /\ f.arenas = r.arenas /\ f.made = r.made /\ f.owner = r.owner
        /\ f.live = r.live \ {RD.buf.block}
        /\ f.docs[d] = [RD EXCEPT !.buf = IF RE.buf.block = 0 THEN NoBuffer ELSE RE.buf]
        /\ f.docs[e] = [RE EXCEPT !.buf.block = 0]
        /\ \A x \in Docs \ {d, e} : f.docs[x] = r.docs[x]
    BY <2>2, <2>3, MoveBufferFields
  <2> HIDE DEF f
  <2> QED BY <1>1, <1>3, <2>1, <2>4 DEF Documents, Buffers
<1> HIDE DEF f
<1>5. /\ a \in Memory /\ ~a.bad
      /\ a.arenas = m.arenas \ {D.arena} /\ a.made = m.made /\ a.owner = m.owner
      /\ a.live = m.live \ {D.root.node, D.buf.block}
      /\ a.docs[d] = [alive |-> D.alive, arena |-> E.arena, root |-> E.root,
                      buf |-> IF E.buf.block = 0 THEN NoBuffer ELSE E.buf, storage |-> D.storage]
      /\ a.docs[e] = [alive |-> E.alive, arena |-> 0, root |-> NoRoot,
                      buf |-> [alloc |-> E.buf.alloc, block |-> 0], storage |-> E.storage]
      /\ \A x \in Docs \ {d, e} : a.docs[x] = m.docs[x]
  <2> DEFINE FD == f.docs[d]
             FE == f.docs[e]
  <2>1. FD.arena = D.arena /\ FE.arena = E.arena
    BY <1>4
  <2>2. FD.arena # 0 => FD.arena \in f.arenas
    BY <1>1, <1>4, <2>1
  <2>3. 0 \notin f.arenas
    BY <1>1, <1>4
  <2> HIDE DEF FD, FE
  <2>4. /\ a \in Memory /\ ~a.bad
        /\ a.arenas = f.arenas \ {FD.arena} /\ a.made = f.made /\ a.owner = f.owner
        /\ a.live = {b \in f.live : FD.arena # 0 => f.owner[b] # FD.arena}
        /\ a.docs[d] = [FD EXCEPT !.arena = FE.arena] /\ a.docs[e] = [FE EXCEPT !.arena = 0]
        /\ \A x \in Docs \ {d, e} : a.docs[x] = f.docs[x]
    BY <1>4, <2>2, <2>3, MoveArenaFields DEF FD, FE
  <2> HIDE DEF a
  <2>5. a.live = f.live
    BY <1>4, <2>1, <2>4, ArenaBlocks
  <2> QED BY <1>4, <2>1, <2>4, <2>5 DEF FD, FE
<1> HIDE DEF a
<1>6. /\ o \in Memory /\ ~o.bad
      /\ o.arenas = a.arenas /\ o.made = a.made /\ o.owner = a.owner /\ o.live = a.live
      /\ o.docs[e] = [alive |-> E.alive, arena |-> 0, root |-> NoRoot, buf |-> NoBuffer,
                      storage |-> E.storage]
      /\ \A x \in Docs \ {e} : o.docs[x] = a.docs[x]
  <2> DEFINE AE == a.docs[e]
  <2>1. AE.buf.block = 0 /\ 0 \notin a.live
    BY <1>1, <1>5
  <2> HIDE DEF AE
  <2>2. /\ o \in Memory /\ ~o.bad
        /\ o.arenas = a.arenas /\ o.made = a.made /\ o.owner = a.owner /\ o.live = a.live
        /\ o.docs[e] = [AE EXCEPT !.buf = NoBuffer]
        /\ \A x \in Docs \ {e} : o.docs[x] = a.docs[x]
    BY <1>5, <2>1, RebindSourceFields DEF AE
  <2> HIDE DEF o
  <2> QED BY <1>5, <2>2 DEF AE
<1> HIDE DEF o
<1>7. /\ n \in Memory /\ ~n.bad
      /\ n.arenas = o.arenas /\ n.made = o.made /\ n.owner = o.owner /\ n.live = o.live
      /\ n.docs[d] = [o.docs[d] EXCEPT !.storage = o.docs[e].storage]
      /\ \A x \in Docs \ {d} : n.docs[x] = o.docs[x]
  BY <1>2, <1>6, TakeSettingsFields
<1>8. /\ n.docs[d] = [alive |-> D.alive, arena |-> E.arena, root |-> E.root,
                      buf |-> IF E.buf.block = 0 THEN NoBuffer ELSE E.buf, storage |-> E.storage]
      /\ n.docs[e] = [alive |-> E.alive, arena |-> 0, root |-> NoRoot, buf |-> NoBuffer,
                      storage |-> E.storage]
  BY <1>5, <1>6, <1>7
<1> QED BY <1>5, <1>6, <1>7, <1>8

LEMMA AssignSound ==
  ASSUME NEW m, NEW c, Sound(m, c), NEW d \in Docs, NEW e \in Docs, d # e,
         m.docs[d].alive, m.docs[e].alive,
         NEW n, n = Assign(m, d, e)
  PROVE  /\ Sound(n, c)
         /\ n.docs[d].alive /\ n.docs[e].alive /\ n.docs[e].root.view = 0
         /\ \A x \in Docs \ {d, e} : n.docs[x] = m.docs[x]
         /\ ViewsOwn(m, e) => ViewsOwn(n, d)
<1> DEFINE D == m.docs[d]
           E == m.docs[e]
<1>0. D = m.docs[d] /\ E = m.docs[e]
  OBVIOUS
<1> HIDE DEF D, E
<1>1. /\ n \in Memory /\ ~n.bad
      /\ n.arenas = m.arenas \ {D.arena} /\ n.made = m.made /\ n.owner = m.owner
      /\ n.live = m.live \ {D.root.node, D.buf.block}
      /\ n.docs[d] = [alive |-> D.alive, arena |-> E.arena, root |-> E.root,
                      buf |-> IF E.buf.block = 0 THEN NoBuffer ELSE E.buf, storage |-> E.storage]
      /\ n.docs[e] = [alive |-> E.alive, arena |-> 0, root |-> NoRoot, buf |-> NoBuffer,
                      storage |-> E.storage]
      /\ \A x \in Docs \ {d, e} : n.docs[x] = m.docs[x]
  BY <1>0, AssignFields
<1>2. /\ n.docs[d].arena = E.arena /\ n.docs[d].root = E.root /\ n.docs[d].buf.block = E.buf.block
      /\ n.docs[d].buf.alloc = IF E.buf.block = 0 THEN NewDelete ELSE E.buf.alloc
      /\ n.docs[d].alive /\ n.docs[e].alive
      /\ n.docs[e].arena = 0 /\ n.docs[e].root.node = 0 /\ n.docs[e].root.view = 0
      /\ n.docs[e].buf.block = 0 /\ n.docs[e].buf.alloc = NewDelete
  BY <1>0, <1>1 DEF NoBuffer, NoRoot
<1>3. m \in Memory /\ c \in Buffers /\ D \in Documents /\ E \in Documents /\ NewDelete # Foreign
  BY <1>0 DEF Sound, Memory, NewDelete, Foreign
<1>4. Numbered(n)
  BY <1>1 DEF Sound, Numbered
<1>5. ASSUME NEW x \in Docs PROVE DocOwns(n, x)
  <2>1. DocOwns(m, x) /\ DocOwns(m, e)
    BY DEF Sound
  <2>2. x # d => DocsApart(m, x, d)
    BY DEF Sound
  <2>3. DocsApart(m, e, d)
    BY DEF Sound
  <2>4. CASE x = d
    <3> DEFINE P == n.docs[x]
    <3>1. /\ P.arena = E.arena /\ P.root = E.root /\ P.buf.block = E.buf.block /\ P.alive
          /\ P.buf.alloc = IF E.buf.block = 0 THEN NewDelete ELSE E.buf.alloc
      BY <1>2, <2>4
    <3>2. E.arena # 0 => E.arena \in n.arenas
      BY <1>0, <1>1, <2>1, <2>3 DEF DocOwns, DocsApart
    <3>3. E.root.node # 0 =>
            /\ E.root.node \in n.live /\ n.owner[E.root.node] = E.root.res
            /\ E.root.res = Resource(E.arena)
      BY <1>0, <1>1, <2>1, <2>3 DEF DocOwns, DocsApart
    <3>4. E.buf.block # 0 =>
            /\ E.buf.block \in n.live /\ n.owner[E.buf.block] = E.buf.alloc
            /\ E.buf.block # E.root.node
      BY <1>0, <1>1, <2>1, <2>3 DEF DocOwns, DocsApart
    <3>5. E.buf.alloc \in {NewDelete, Foreign, E.arena}
      BY <1>0, <2>1 DEF DocOwns
    <3> HIDE DEF P
    <3>6. P = n.docs[x]
      BY DEF P
    <3> QED BY <3>1, <3>2, <3>3, <3>4, <3>5, <3>6, ZenonT(60) DEF DocOwns
  <2>5. CASE x = e
    BY <1>2, <2>5 DEF DocOwns
  <2>6. CASE x \in Docs \ {d, e}
    <3>1. n.docs[x] = m.docs[x]
      BY <1>1, <2>6
    <3> QED BY <1>0, <1>1, <2>1, <2>2, <2>6, <3>1, ZenonT(60) DEF DocOwns, DocsApart
  <2> QED BY <2>4, <2>5, <2>6
<1>6. ASSUME NEW x \in Docs, NEW y \in Docs, x # y PROVE DocsApart(n, x, y)
  <2>1. \A v, w \in Docs : v # w => DocsApart(m, v, w)
    BY DEF Sound
  <2>2. CASE x = e \/ y = e
    BY <1>2, <1>6, <2>1, <2>2, ZenonT(60) DEF DocsApart
  <2>3. CASE x = d /\ y \in Docs \ {d, e}
    <3>1. n.docs[y] = m.docs[y] /\ DocsApart(m, e, y)
      BY <1>1, <2>1, <2>3
    <3> QED BY <1>0, <1>2, <2>3, <3>1 DEF DocsApart
  <2>4. CASE y = d /\ x \in Docs \ {d, e}
    <3>1. n.docs[x] = m.docs[x] /\ DocsApart(m, x, e)
      BY <1>1, <2>1, <2>4
    <3> QED BY <1>0, <1>2, <2>4, <3>1 DEF DocsApart
  <2>5. CASE x \in Docs \ {d, e} /\ y \in Docs \ {d, e}
    <3>1. n.docs[x] = m.docs[x] /\ n.docs[y] = m.docs[y] /\ DocsApart(m, x, y)
      BY <1>1, <1>6, <2>1, <2>5
    <3> QED BY <3>1 DEF DocsApart
  <2> QED BY <1>6, <2>2, <2>3, <2>4, <2>5
<1>7. CallerOwns(n, c)
  <2>1. CallerOwns(m, c)
    BY DEF Sound
  <2> QED BY <1>0, <1>1, <1>2, <2>1 DEF CallerOwns
<1>8. Held(n, c)
  <2>1. Held(m, c)
    BY DEF Sound
  <2>2. ASSUME NEW b \in n.live, b # c.block
        PROVE  \E x \in Docs : b = n.docs[x].root.node \/ b = n.docs[x].buf.block
    <3>1. PICK x \in Docs : b = m.docs[x].root.node \/ b = m.docs[x].buf.block
      BY <1>1, <2>1, <2>2 DEF Held
    <3>2. x # d
      BY <1>0, <1>1, <3>1
    <3>3. CASE x = e
      BY <1>0, <1>2, <3>1, <3>3
    <3>4. CASE x # e
      BY <1>1, <3>1, <3>2, <3>4
    <3> QED BY <3>3, <3>4
  <2>3. ASSUME NEW a \in n.arenas PROVE \E x \in Docs : a = n.docs[x].arena
    <3>1. PICK x \in Docs : a = m.docs[x].arena
      BY <1>1, <2>1 DEF Held
    <3>2. x # d
      BY <1>0, <1>1, <3>1
    <3>3. CASE x = e
      BY <1>0, <1>2, <3>1, <3>3
    <3>4. CASE x # e
      BY <1>1, <3>1, <3>2, <3>4
    <3> QED BY <3>3, <3>4
  <2> QED BY <2>2, <2>3 DEF Held
<1>9. Sound(n, c)
  BY <1>1, <1>3, <1>4, <1>5, <1>6, <1>7, <1>8 DEF Sound
<1> QED BY <1>0, <1>1, <1>2, <1>9 DEF ViewsOwn

\* ~Document: the document's blocks and arena go.
LEMMA DestroySound ==
  ASSUME NEW m, NEW c, Sound(m, c), NEW d \in Docs, NEW n, n = Destroy(m, d)
  PROVE  /\ Sound(n, c)
         /\ n.docs[d] = Gone /\ \A x \in Docs \ {d} : n.docs[x] = m.docs[x]
<1> DEFINE D == m.docs[d]
           f == Free(m, D.buf.block, D.buf.alloc)
           r == Free(f, D.root.node, D.root.res)
           a == DestroyArena(r, D.arena)
<1>1. /\ m \in Memory /\ ~m.bad /\ 0 \notin m.live /\ 0 \notin m.arenas /\ D \in Documents
      /\ D.root.node # 0 => D.root.node \in m.live /\ m.owner[D.root.node] = D.root.res
                            /\ IsAlive(m, D.root.res)
      /\ D.buf.block # 0 => D.buf.block \in m.live /\ m.owner[D.buf.block] = D.buf.alloc
                            /\ IsAlive(m, D.buf.alloc)
      /\ D.arena # 0 => D.arena \in m.arenas
  BY SoundFacts
<1>2. /\ D.buf.block \in Nat /\ D.buf.alloc \in Int /\ D.root.node \in Nat /\ D.root.res \in Int
      /\ D.arena \in Nat
      /\ D.root.node # 0 => D.buf.block # D.root.node
  BY <1>1 DEF Documents, Buffers, Roots, Sound, DocOwns
<1>3. n = Put(a, d, Gone)
  BY DEF Destroy, DestroyRoot, DestroyBuffer, Put
<1>4. /\ f \in Memory /\ ~f.bad /\ f.docs = m.docs /\ f.arenas = m.arenas /\ f.made = m.made
      /\ f.owner = m.owner /\ f.live = m.live \ {D.buf.block}
  BY <1>1, <1>2, FreeFields
<1> HIDE DEF f
<1>5. D.root.node # 0 => D.root.node \in f.live /\ f.owner[D.root.node] = D.root.res
                          /\ IsAlive(f, D.root.res)
  BY <1>1, <1>2, <1>4 DEF IsAlive
<1>6. 0 \notin f.live
  BY <1>1, <1>4
<1>7. /\ r \in Memory /\ ~r.bad /\ r.docs = f.docs /\ r.arenas = f.arenas /\ r.made = f.made
      /\ r.owner = f.owner /\ r.live = f.live \ {D.root.node}
  BY <1>2, <1>4, <1>5, <1>6, FreeFields
<1> HIDE DEF r
<1>8. /\ a \in Memory /\ ~a.bad /\ a.docs = r.docs /\ a.arenas = r.arenas \ {D.arena} /\ a.made = r.made
      /\ a.owner = r.owner /\ a.live = {b \in r.live : D.arena # 0 => r.owner[b] # D.arena}
  BY <1>1, <1>2, <1>4, <1>7, DestroyArenaFields
<1> HIDE DEF a
<1>9. a.live = m.live \ {D.root.node, D.buf.block}
  BY <1>4, <1>7, <1>8, ArenaBlocks
<1>10. Gone \in Documents
  BY DEF Gone, Documents, StorageNames, NoRoot, NoBuffer, Roots, Buffers, NewDelete
<1>11. Replaces(n, a, d, Gone)
  BY <1>3, <1>8, <1>10, OneDoc
<1>12. /\ n \in Memory /\ ~n.bad /\ n.made = m.made /\ n.owner = m.owner
       /\ n.live = m.live \ {D.root.node, D.buf.block} /\ n.arenas = m.arenas \ {D.arena}
       /\ n.docs[d] = Gone /\ \A x \in Docs \ {d} : n.docs[x] = m.docs[x]
  BY <1>4, <1>7, <1>8, <1>9, <1>11 DEF Replaces, SameBlocks
<1>13. /\ ~Gone.alive /\ Gone.arena = 0 /\ Gone.root.node = 0 /\ Gone.buf.block = 0 /\ Gone.buf.alloc = NewDelete
  BY DEF Gone, NoRoot, NoBuffer
<1>14. Numbered(n)
  BY <1>12 DEF Sound, Numbered
<1>15. ASSUME NEW x \in Docs PROVE DocOwns(n, x)
  <2>1. DocOwns(m, x)
    BY DEF Sound
  <2>2. CASE x = d
    BY <1>12, <1>13, <2>2 DEF DocOwns
  <2>3. CASE x # d
    <3>1. n.docs[x] = m.docs[x] /\ DocsApart(m, x, d)
      BY <1>12, <2>3 DEF Sound
    <3> QED BY <1>12, <2>1, <3>1 DEF DocOwns, DocsApart
  <2> QED BY <2>2, <2>3
<1>16. ASSUME NEW x \in Docs, NEW y \in Docs, x # y PROVE DocsApart(n, x, y)
  <2>1. DocsApart(m, x, y)
    BY <1>16 DEF Sound
  <2> QED BY <1>12, <1>13, <1>16, <2>1, ZenonT(60) DEF DocsApart
<1>17. CallerOwns(n, c)
  BY <1>12, <1>13 DEF Sound, CallerOwns
<1>18. Held(n, c)
  <2>1. Held(m, c)
    BY DEF Sound
  <2>2. ASSUME NEW b \in n.live, b # c.block
        PROVE  \E x \in Docs : b = n.docs[x].root.node \/ b = n.docs[x].buf.block
    <3>1. PICK x \in Docs : b = m.docs[x].root.node \/ b = m.docs[x].buf.block
      BY <1>12, <2>1, <2>2 DEF Held
    <3>2. x # d
      BY <1>12, <3>1
    <3> QED BY <1>12, <3>1, <3>2
  <2>3. ASSUME NEW b \in n.arenas PROVE \E x \in Docs : b = n.docs[x].arena
    <3>1. PICK x \in Docs : b = m.docs[x].arena
      BY <1>12, <2>1 DEF Held
    <3>2. x # d
      BY <1>12, <3>1
    <3> QED BY <1>12, <3>1, <3>2
  <2> QED BY <2>2, <2>3 DEF Held
<1>19. Sound(n, c)
  BY <1>12, <1>14, <1>15, <1>16, <1>17, <1>18 DEF Sound
<1> QED BY <1>12, <1>19

\* n is m with a document doc in the free place d: its arena and its blocks are
\* new, but for the buffer, which may be the caller's (c before, k after).
Makes(m, c, d, n, doc, k) ==
  /\ n \in Memory /\ Numbered(n) /\ n.docs[d] = doc /\ doc.alive
  /\ \A x \in Docs \ {d} : n.docs[x] = m.docs[x]
  /\ \A b \in m.live : n.owner[b] = m.owner[b]
  /\ n.arenas = m.arenas \union ({doc.arena} \ {0}) /\ doc.arena \notin m.arenas
  /\ n.live = m.live \union ({doc.root.node, doc.buf.block} \ {0})
  /\ doc.root.node # 0 =>
       doc.root.node \notin m.live /\ n.owner[doc.root.node] = doc.root.res
       /\ doc.root.res = Resource(doc.arena)
  /\ doc.buf.block # 0 =>
       n.owner[doc.buf.block] = doc.buf.alloc /\ doc.buf.block # doc.root.node
  /\ doc.buf.alloc \in {NewDelete, Foreign, doc.arena}
  /\ k \in Buffers
  /\ \/ k = c /\ doc.buf.block \notin m.live
     \/ k = NoBuffer /\ doc.buf.block = c.block

LEMMA NewDocSound ==
  ASSUME NEW m, NEW c, Sound(m, c), NEW d \in Docs, m.docs[d] = Gone,
         NEW n, NEW doc, NEW k, Makes(m, c, d, n, doc, k)
  PROVE  Sound(n, k)
<1> USE DEF Makes
<1>1. /\ m \in Memory /\ c \in Buffers /\ Numbered(m) /\ CallerOwns(m, c) /\ Held(m, c)
      /\ \A x \in Docs : DocOwns(m, x)
      /\ \A x, y \in Docs : x # y => DocsApart(m, x, y)
  BY DEF Sound
<1>2. /\ Gone.arena = 0 /\ Gone.root.node = 0 /\ Gone.buf.block = 0
      /\ NoBuffer.block = 0 /\ NoBuffer.alloc = NewDelete
      /\ 0 \notin m.live /\ 0 \notin m.arenas
  BY <1>1 DEF Gone, NoRoot, NoBuffer, Numbered
<1>3. ASSUME NEW x \in Docs PROVE DocOwns(n, x)
  <2>1. CASE x = d
    BY <2>1 DEF DocOwns
  <2>2. CASE x # d
    <3>1. n.docs[x] = m.docs[x] /\ DocOwns(m, x)
      BY <1>1, <2>2
    <3> QED BY <3>1 DEF DocOwns
  <2> QED BY <2>1, <2>2
<1>4. ASSUME NEW x \in Docs, x # d
      PROVE  /\ m.docs[x].arena # 0 => m.docs[x].arena # doc.arena
             /\ m.docs[x].root.node # 0 => m.docs[x].root.node \notin {doc.root.node, doc.buf.block}
             /\ m.docs[x].buf.block # 0 => m.docs[x].buf.block \notin {doc.root.node, doc.buf.block}
  <2>1. DocOwns(m, x)
    BY <1>1
  <2> QED BY <1>1, <1>2, <2>1 DEF DocOwns, CallerOwns
<1>5. ASSUME NEW x \in Docs, NEW y \in Docs, x # y PROVE DocsApart(n, x, y)
  <2>1. CASE x = d
    <3>1. n.docs[y] = m.docs[y]
      BY <1>5, <2>1
    <3>2. /\ m.docs[y].arena # 0 => m.docs[y].arena # doc.arena
          /\ m.docs[y].root.node # 0 => m.docs[y].root.node \notin {doc.root.node, doc.buf.block}
          /\ m.docs[y].buf.block # 0 => m.docs[y].buf.block \notin {doc.root.node, doc.buf.block}
      BY <1>4, <1>5, <2>1
    <3>3. n.docs[x] = doc
      BY <2>1
    <3> QED BY <3>1, <3>2, <3>3, SMTT(40) DEF DocsApart
  <2>2. CASE y = d
    <3>1. n.docs[x] = m.docs[x]
      BY <1>5, <2>2
    <3> QED BY <1>4, <1>5, <2>2, <3>1, ZenonT(60) DEF DocsApart
  <2>3. CASE x # d /\ y # d
    <3>1. n.docs[x] = m.docs[x] /\ n.docs[y] = m.docs[y] /\ DocsApart(m, x, y)
      BY <1>1, <1>5, <2>3
    <3> QED BY <3>1 DEF DocsApart
  <2> QED BY <2>1, <2>2, <2>3
<1>6. CallerOwns(n, k)
  <2>1. CASE k = NoBuffer
    BY <1>2, <2>1 DEF CallerOwns
  <2>2. CASE k = c /\ doc.buf.block \notin m.live
    BY <1>1, <2>2 DEF CallerOwns
  <2> QED BY <2>1, <2>2
<1>7. Held(n, k)
  <2>1. ASSUME NEW b \in n.live, b # k.block
        PROVE  \E x \in Docs : b = n.docs[x].root.node \/ b = n.docs[x].buf.block
    <3>1. CASE b \in {doc.root.node, doc.buf.block}
      BY <3>1
    <3>2. CASE b \notin {doc.root.node, doc.buf.block}
      <4>1. b \in m.live /\ b # c.block
        BY <2>1, <3>2
      <4>2. PICK x \in Docs : b = m.docs[x].root.node \/ b = m.docs[x].buf.block
        BY <1>1, <4>1 DEF Held
      <4>3. x # d
        BY <1>2, <4>1, <4>2
      <4> QED BY <4>2, <4>3
    <3> QED BY <3>1, <3>2
  <2>2. ASSUME NEW a \in n.arenas PROVE \E x \in Docs : a = n.docs[x].arena
    <3>1. CASE a = doc.arena
      BY <3>1
    <3>2. CASE a # doc.arena
      <4>1. PICK x \in Docs : a = m.docs[x].arena
        BY <1>1, <3>2 DEF Held
      <4>2. x # d
        BY <1>2, <3>2, <4>1
      <4> QED BY <4>1, <4>2
    <3> QED BY <3>1, <3>2
  <2> QED BY <2>1, <2>2 DEF Held
<1> QED BY <1>3, <1>5, <1>6, <1>7 DEF Sound

\* Document(storage).
LEMMA FreshSound ==
  ASSUME NEW m, NEW c, Sound(m, c), NEW d \in Docs, m.docs[d] = Gone, NEW s \in StorageNames,
         NEW n, n = Fresh(m, d, s)
  PROVE  /\ Sound(n, c) /\ n.docs[d].alive /\ n.docs[d].root.view = 0
         /\ \A x \in Docs \ {d} : n.docs[x] = m.docs[x]
<1> DEFINE f == MakeArena(m, s)
           a == ArenaOf(m, s)
           doc == [Gone EXCEPT !.alive = TRUE, !.arena = a, !.storage = s]
<1>1. m \in Memory /\ ~m.bad /\ Numbered(m) /\ c \in Buffers /\ 0 \notin m.live /\ 0 \notin m.arenas
  BY SoundFacts DEF Sound
<1>2. /\ f \in Memory /\ ~f.bad /\ a \in Nat
      /\ f.docs = m.docs /\ f.live = m.live /\ f.owner = m.owner
      /\ \/ a = 0 /\ f.arenas = m.arenas /\ f.made = m.made
         \/ a = m.made + 1 /\ f.arenas = m.arenas \union {a} /\ f.made = m.made + 1
  BY <1>1, MakeArenaFields
<1>3. n = Put(f, d, doc)
  BY DEF Fresh, Put
<1> HIDE DEF f, a
<1>4. Gone \in Documents /\ Gone.root = NoRoot /\ Gone.buf = NoBuffer
  BY DEF Gone, Documents, StorageNames, NoRoot, NoBuffer, Roots, Buffers, NewDelete
<1>5. /\ doc \in Documents /\ doc.alive /\ doc.arena = a
      /\ doc.root = NoRoot /\ doc.buf = NoBuffer
  BY <1>2, <1>4 DEF Documents
<1> HIDE DEF doc
<1>6. Replaces(n, f, d, doc)
  BY <1>2, <1>3, <1>5, OneDoc
<1>7. /\ n \in Memory /\ ~n.bad /\ n.live = m.live /\ n.owner = m.owner /\ n.docs[d] = doc
      /\ n.arenas = f.arenas /\ n.made = f.made /\ \A x \in Docs \ {d} : n.docs[x] = m.docs[x]
  BY <1>2, <1>6 DEF Replaces, SameBlocks
<1>8. /\ doc.alive /\ doc.arena = a /\ doc.root.node = 0 /\ doc.root.view = 0
      /\ doc.buf.block = 0 /\ doc.buf.alloc = NewDelete
  BY <1>5 DEF NoRoot, NoBuffer
<1>9. m.made \in Nat /\ \A b \in m.arenas : b \in 1..m.made
  BY <1>1 DEF Memory, Numbered
<1>10. Numbered(n) /\ a \notin m.arenas /\ n.arenas = m.arenas \union ({a} \ {0})
  BY <1>1, <1>2, <1>7, <1>9 DEF Numbered
<1>11. n.live = m.live \union ({doc.root.node, doc.buf.block} \ {0})
  BY <1>7, <1>8
<1>12. Makes(m, c, d, n, doc, c)
  BY <1>1, <1>7, <1>8, <1>10, <1>11 DEF Makes
<1>13. Sound(n, c)
  BY <1>12, NewDocSound
<1> QED BY <1>7, <1>8, <1>13

\* A parse that builds its root last, in a new arena or with new_delete; the
\* buffer is none, or the caller's, which the document then owns (k).
HandsOver(c, buf, k) == (buf = NoBuffer /\ k = c) \/ (buf = c /\ k = NoBuffer)
LEMMA ParsedSound ==
  ASSUME NEW m, NEW c, Sound(m, c), NEW d \in Docs, m.docs[d] = Gone, NEW s \in StorageNames,
         NEW buf, NEW k, HandsOver(c, buf, k),
         NEW view \in Int,
         NEW n, n = ParsedWith(MakeArena(m, s), d, s, ArenaOf(m, s), buf, view)
  PROVE  /\ Sound(n, k) /\ n.docs[d].root.view = view /\ n.docs[d].buf = buf
         /\ \A x \in Docs \ {d} : n.docs[x] = m.docs[x]
<1> DEFINE f == MakeArena(m, s)
           a == ArenaOf(m, s)
           g == Alloc(f, Resource(a))
           doc == [alive |-> TRUE, arena |-> a, buf |-> buf, storage |-> s,
                   root |-> [node |-> NewBlock(f), res |-> Resource(a), view |-> view]]
<1> USE DEF HandsOver
<1>1. m \in Memory /\ ~m.bad /\ Numbered(m) /\ c \in Buffers /\ 0 \notin m.live /\ 0 \notin m.arenas
      /\ CallerOwns(m, c)
  BY SoundFacts DEF Sound
<1>2. /\ f \in Memory /\ ~f.bad /\ a \in Nat
      /\ f.docs = m.docs /\ f.live = m.live /\ f.owner = m.owner
      /\ \/ a = 0 /\ f.arenas = m.arenas /\ f.made = m.made
         \/ a = m.made + 1 /\ f.arenas = m.arenas \union {a} /\ f.made = m.made + 1
  BY <1>1, MakeArenaFields
<1>3. n = Put(g, d, doc)
  BY DEF ParsedWith, Put
<1> HIDE DEF f, a
<1>4. Resource(a) \in Int /\ IsAlive(f, Resource(a))
  BY <1>2 DEF Resource, IsAlive, NewDelete
<1>5. /\ g \in Memory /\ ~g.bad
      /\ g.docs = m.docs /\ g.arenas = f.arenas /\ g.made = f.made
      /\ g.owner = Append(m.owner, Resource(a)) /\ g.live = m.live \union {Len(m.owner) + 1}
  BY <1>2, <1>4, AllocFields
<1> HIDE DEF g
<1>6. NewBlock(f) = Len(m.owner) + 1 /\ m.owner \in Seq(Int) /\ Len(m.owner) \in Nat
  BY <1>1, <1>2 DEF NewBlock, Memory
<1>7. NoBuffer \in Buffers /\ NoBuffer.block = 0 /\ NoBuffer.alloc = NewDelete
  BY DEF NoBuffer, Buffers, NewDelete
<1>8. [node |-> NewBlock(f), res |-> Resource(a), view |-> view] \in Roots
  BY <1>4, <1>6 DEF Roots
<1>9. doc \in Documents
  BY <1>1, <1>2, <1>7, <1>8 DEF Documents
<1>10. /\ doc.alive /\ doc.arena = a /\ doc.root.node = Len(m.owner) + 1 /\ doc.root.res = Resource(a)
       /\ doc.root.view = view /\ doc.buf = buf
  BY <1>6
<1> HIDE DEF doc
<1>11. Replaces(n, g, d, doc)
  BY <1>3, <1>5, <1>9, OneDoc
<1>12. /\ n \in Memory /\ ~n.bad /\ n.live = m.live \union {Len(m.owner) + 1}
       /\ n.owner = Append(m.owner, Resource(a)) /\ n.docs[d] = doc
       /\ n.arenas = f.arenas /\ n.made = f.made /\ \A x \in Docs \ {d} : n.docs[x] = m.docs[x]
  BY <1>5, <1>11 DEF Replaces, SameBlocks
<1>13. /\ m.made \in Nat /\ \A b \in m.arenas : b \in 1..m.made
       /\ \A b \in m.live : b \in 1..Len(m.owner)
  BY <1>1 DEF Memory, Numbered
<1>14. /\ \A b \in m.live : n.owner[b] = m.owner[b]
       /\ n.owner[Len(m.owner) + 1] = Resource(a) /\ Len(n.owner) = Len(m.owner) + 1
       /\ Len(m.owner) + 1 \notin m.live
  BY <1>4, <1>6, <1>12, <1>13
<1>15. Numbered(n) /\ a \notin m.arenas /\ n.arenas = m.arenas \union ({a} \ {0})
  BY <1>1, <1>2, <1>6, <1>12, <1>13, <1>14 DEF Numbered
<1>16. /\ c.block # 0 => c.block \in m.live /\ m.owner[c.block] = c.alloc
       /\ c.alloc \in {NewDelete, Foreign}
  BY <1>1 DEF CallerOwns
<1>17. n.live = m.live \union ({doc.root.node, doc.buf.block} \ {0})
  BY <1>6, <1>7, <1>10, <1>12, <1>16
<1>18. doc.buf.block # 0 => n.owner[doc.buf.block] = doc.buf.alloc /\ doc.buf.block # doc.root.node
  BY <1>7, <1>10, <1>14, <1>16
<1>19. /\ doc.buf.alloc \in {NewDelete, Foreign, doc.arena} /\ k \in Buffers
       /\ \/ k = c /\ doc.buf.block \notin m.live
          \/ k = NoBuffer /\ doc.buf.block = c.block
  BY <1>1, <1>7, <1>10, <1>16
<1>20. doc.root.node # 0 =>
           doc.root.node \notin m.live /\ n.owner[doc.root.node] = doc.root.res
           /\ doc.root.res = Resource(doc.arena)
  BY <1>10, <1>14
<1>21. doc.arena \notin m.arenas /\ n.arenas = m.arenas \union ({doc.arena} \ {0})
  BY <1>10, <1>15
<1>22. Makes(m, c, d, n, doc, k)
  BY <1>10, <1>12, <1>14, <1>15, <1>17, <1>18, <1>19, <1>20, <1>21 DEF Makes
<1>23. Sound(n, k)
  BY <1>22, NewDocSound
<1> QED BY <1>10, <1>12, <1>23

\* parse_copy: the buffer is allocated first, then the root.
LEMMA CopiedSound ==
  ASSUME NEW m, NEW c, Sound(m, c), NEW d \in Docs, m.docs[d] = Gone, NEW s \in StorageNames,
         NEW n, n = Copied(MakeArena(m, s), d, s, ArenaOf(m, s))
  PROVE  /\ Sound(n, c) /\ n.docs[d].root.view = n.docs[d].buf.block
         /\ \A x \in Docs \ {d} : n.docs[x] = m.docs[x]
<1> DEFINE f == MakeArena(m, s)
           a == ArenaOf(m, s)
           res == Resource(a)
           h == Alloc(f, res)
           g == Alloc(h, res)
           buf == [alloc |-> res, block |-> NewBlock(f)]
           root == [node |-> NewBlock(h), res |-> res, view |-> NewBlock(f)]
           doc == [alive |-> TRUE, arena |-> a, buf |-> buf, storage |-> s, root |-> root]
<1>1. m \in Memory /\ ~m.bad /\ Numbered(m) /\ c \in Buffers /\ 0 \notin m.live /\ 0 \notin m.arenas
  BY SoundFacts DEF Sound
<1>2. /\ f \in Memory /\ ~f.bad /\ a \in Nat
      /\ f.docs = m.docs /\ f.live = m.live /\ f.owner = m.owner
      /\ \/ a = 0 /\ f.arenas = m.arenas /\ f.made = m.made
         \/ a = m.made + 1 /\ f.arenas = m.arenas \union {a} /\ f.made = m.made + 1
  BY <1>1, MakeArenaFields
<1>3. n = Put(g, d, doc)
  BY DEF Copied, ParsedWith, Put
<1>4. res \in Int /\ IsAlive(f, res) /\ res = Resource(a) /\ res \in {NewDelete, a}
  BY <1>2 DEF Resource, IsAlive, NewDelete
<1> HIDE DEF f, a, res
<1>5. /\ h \in Memory /\ ~h.bad
      /\ h.docs = m.docs /\ h.arenas = f.arenas /\ h.made = f.made
      /\ h.owner = Append(m.owner, res) /\ h.live = m.live \union {Len(m.owner) + 1}
  BY <1>2, <1>4, AllocFields
<1> HIDE DEF h
<1>6. IsAlive(h, res)
  BY <1>4, <1>5 DEF IsAlive
<1>7. /\ g \in Memory /\ ~g.bad
      /\ g.docs = h.docs /\ g.arenas = h.arenas /\ g.made = h.made
      /\ g.owner = Append(h.owner, res) /\ g.live = h.live \union {Len(h.owner) + 1}
  BY <1>4, <1>5, <1>6, AllocFields
<1> HIDE DEF g
<1>8. /\ m.owner \in Seq(Int) /\ Len(m.owner) \in Nat
      /\ NewBlock(f) = Len(m.owner) + 1 /\ NewBlock(h) = Len(m.owner) + 2
      /\ Len(h.owner) = Len(m.owner) + 1
  BY <1>1, <1>2, <1>4, <1>5 DEF NewBlock, Memory
<1>9. root \in Roots /\ buf \in Buffers
  BY <1>4, <1>8 DEF Roots, Buffers
<1>10. doc \in Documents
  BY <1>2, <1>9 DEF Documents
<1>11. /\ doc.alive /\ doc.arena = a /\ doc.root.node = Len(m.owner) + 2 /\ doc.root.res = res
       /\ doc.root.view = Len(m.owner) + 1
       /\ doc.buf.alloc = res /\ doc.buf.block = Len(m.owner) + 1
  BY <1>8
<1> HIDE DEF doc, root, buf
<1>12. Replaces(n, g, d, doc)
  BY <1>3, <1>7, <1>10, OneDoc
<1>13. /\ n \in Memory /\ ~n.bad /\ n.live = m.live \union {Len(m.owner) + 1, Len(m.owner) + 2}
       /\ n.owner = Append(Append(m.owner, res), res) /\ n.docs[d] = doc
       /\ n.arenas = f.arenas /\ n.made = f.made /\ \A x \in Docs \ {d} : n.docs[x] = m.docs[x]
  BY <1>5, <1>7, <1>8, <1>12 DEF Replaces, SameBlocks
<1>14. /\ m.made \in Nat /\ \A b \in m.arenas : b \in 1..m.made
       /\ \A b \in m.live : b \in 1..Len(m.owner)
  BY <1>1 DEF Memory, Numbered
<1>15. /\ \A b \in m.live : n.owner[b] = m.owner[b]
       /\ n.owner[Len(m.owner) + 1] = res /\ n.owner[Len(m.owner) + 2] = res
       /\ Len(n.owner) = Len(m.owner) + 2
       /\ Len(m.owner) + 1 \notin m.live /\ Len(m.owner) + 2 \notin m.live
  BY <1>4, <1>8, <1>13, <1>14
<1>16. Numbered(n) /\ a \notin m.arenas /\ n.arenas = m.arenas \union ({a} \ {0})
  BY <1>1, <1>2, <1>8, <1>13, <1>14, <1>15 DEF Numbered
<1>17. n.live = m.live \union ({doc.root.node, doc.buf.block} \ {0})
  BY <1>8, <1>11, <1>13
<1>18. Makes(m, c, d, n, doc, c)
  <2>1. /\ doc.root.node \notin m.live /\ n.owner[doc.root.node] = doc.root.res
        /\ doc.root.res = Resource(doc.arena)
    BY <1>4, <1>11, <1>15
  <2>2. /\ n.owner[doc.buf.block] = doc.buf.alloc /\ doc.buf.block # doc.root.node
        /\ doc.buf.alloc \in {NewDelete, Foreign, doc.arena} /\ doc.buf.block \notin m.live
    BY <1>4, <1>8, <1>11, <1>15
  <2>3. n.arenas = m.arenas \union ({doc.arena} \ {0}) /\ doc.arena \notin m.arenas
    BY <1>11, <1>16
  <2> QED BY <1>1, <1>11, <1>13, <1>15, <1>16, <1>17, <2>1, <2>2, <2>3 DEF Makes
<1>19. Sound(n, c)
  BY <1>18, NewDocSound
<1> QED BY <1>11, <1>13, <1>19

\* Document(Document &&): everything the source holds is the new document's.
LEMMA ConstructSound ==
  ASSUME NEW m, NEW c, Sound(m, c), NEW d \in Docs, NEW e \in Docs, d # e,
         m.docs[d] = Gone, m.docs[e].alive, NEW n, n = Construct(m, d, e)
  PROVE  /\ Sound(n, c) /\ n.docs[d] = m.docs[e] /\ n.docs[e].root.view = 0
         /\ \A x \in Docs \ {d, e} : n.docs[x] = m.docs[x]
<1> DEFINE E == m.docs[e]
           Q == [E EXCEPT !.arena = 0, !.root = NoRoot, !.buf.block = 0]
           f == Put(Put(m, d, E), e, Q)
<1>1. m \in Memory /\ ~m.bad /\ Numbered(m) /\ c \in Buffers /\ 0 \notin m.live /\ 0 \notin m.arenas
      /\ E \in Documents /\ NoRoot \in Roots
  BY SoundFacts DEF Sound, NoRoot, Roots, NewDelete
<1>2. n = RebindSource(f, e)
  <2>1. m.docs \in [Docs -> Documents]
    BY <1>1 DEF Memory
  <2>2. [m EXCEPT !.docs[d] = m.docs[e],
                  !.docs[e] = [@ EXCEPT !.arena = 0, !.root = NoRoot, !.buf.block = 0]]
        = [m EXCEPT !.docs[d] = E, !.docs[e] = Q]
    BY <1>1, <2>1 DEF Memory
  <2> HIDE DEF E, Q
  <2>3. f = [m EXCEPT !.docs[d] = E, !.docs[e] = Q]
    BY <1>1 DEF Put, Memory
  <2> QED BY <2>2, <2>3 DEF Construct
<1>3. Q \in Documents /\ Q.alive /\ Q.arena = 0 /\ Q.root = NoRoot /\ Q.buf.block = 0
  BY <1>1 DEF Documents, Buffers
<1> HIDE DEF E, Q
<1>4. ReplacesTwo(f, m, d, E, e, Q)
  BY <1>1, <1>3, TwoDocs
<1> HIDE DEF f
<1>5. /\ f \in Memory /\ ~f.bad /\ f.live = m.live /\ f.owner = m.owner /\ f.arenas = m.arenas /\ f.made = m.made
      /\ f.docs[d] = E /\ f.docs[e] = Q /\ \A x \in Docs \ {d, e} : f.docs[x] = m.docs[x]
  BY <1>1, <1>4 DEF ReplacesTwo, SameBlocks
<1>6. /\ n \in Memory /\ ~n.bad
      /\ n.arenas = f.arenas /\ n.made = f.made /\ n.owner = f.owner /\ n.live = f.live
      /\ n.docs[e] = [Q EXCEPT !.buf = NoBuffer]
      /\ \A x \in Docs \ {e} : n.docs[x] = f.docs[x]
  BY <1>1, <1>2, <1>3, <1>5, RebindSourceFields
<1>7. /\ n.docs[e].alive /\ n.docs[e].arena = 0 /\ n.docs[e].root.node = 0 /\ n.docs[e].root.view = 0
      /\ n.docs[e].buf.block = 0 /\ n.docs[e].buf.alloc = NewDelete
  BY <1>3, <1>6 DEF Documents, NoRoot, NoBuffer
<1>8. /\ n.docs[d] = m.docs[e] /\ \A x \in Docs \ {d, e} : n.docs[x] = m.docs[x]
      /\ n.live = m.live /\ n.owner = m.owner /\ n.arenas = m.arenas /\ n.made = m.made
  BY <1>5, <1>6 DEF E
<1>9. Gone.arena = 0 /\ Gone.root.node = 0 /\ Gone.buf.block = 0
  BY DEF Gone, NoRoot, NoBuffer
<1>10. Numbered(n)
  BY <1>1, <1>6, <1>8 DEF Numbered
<1>11. ASSUME NEW x \in Docs PROVE DocOwns(n, x)
  <2>1. DocOwns(m, x) /\ DocOwns(m, e)
    BY DEF Sound
  <2>2. CASE x = e
    BY <1>7, <2>2 DEF DocOwns
  <2>3. CASE x = d
    BY <1>8, <2>1, <2>3 DEF DocOwns
  <2>4. CASE x \in Docs \ {d, e}
    BY <1>8, <2>1, <2>4 DEF DocOwns
  <2> QED BY <2>2, <2>3, <2>4
<1>12. ASSUME NEW x \in Docs, NEW y \in Docs, x # y PROVE DocsApart(n, x, y)
  <2>1. \A v, w \in Docs : v # w => DocsApart(m, v, w)
    BY DEF Sound
  <2>2. CASE x = e \/ y = e
    BY <1>7, <1>12, <2>1, <2>2 DEF DocsApart
  <2>3. CASE x = d /\ y \in Docs \ {d, e}
    <3>1. n.docs[y] = m.docs[y] /\ n.docs[x] = m.docs[e] /\ DocsApart(m, e, y)
      BY <1>8, <2>1, <2>3
    <3> QED BY <3>1 DEF DocsApart
  <2>4. CASE y = d /\ x \in Docs \ {d, e}
    <3>1. n.docs[x] = m.docs[x] /\ n.docs[y] = m.docs[e] /\ DocsApart(m, x, e)
      BY <1>8, <2>1, <2>4
    <3> QED BY <3>1 DEF DocsApart
  <2>5. CASE x \in Docs \ {d, e} /\ y \in Docs \ {d, e}
    <3>1. n.docs[x] = m.docs[x] /\ n.docs[y] = m.docs[y] /\ DocsApart(m, x, y)
      BY <1>8, <1>12, <2>1, <2>5
    <3> QED BY <3>1 DEF DocsApart
  <2> QED BY <1>12, <2>2, <2>3, <2>4, <2>5
<1>13. CallerOwns(n, c)
  <2>1. CallerOwns(m, c)
    BY DEF Sound
  <2> QED BY <1>7, <1>8, <2>1 DEF CallerOwns
<1>14. Held(n, c)
  <2>1. Held(m, c)
    BY DEF Sound
  <2>2. ASSUME NEW b \in n.live, b # c.block
        PROVE  \E x \in Docs : b = n.docs[x].root.node \/ b = n.docs[x].buf.block
    <3>1. b # 0 /\ b \in m.live
      BY <1>1, <1>8
    <3>2. PICK x \in Docs : b = m.docs[x].root.node \/ b = m.docs[x].buf.block
      BY <2>1, <2>2, <3>1 DEF Held
    <3>3. x # d
      BY <1>9, <3>1, <3>2
    <3>4. CASE x = e
      BY <1>8, <3>2, <3>4
    <3>5. CASE x # e
      BY <1>8, <3>2, <3>3, <3>5
    <3> QED BY <3>4, <3>5
  <2>3. ASSUME NEW a \in n.arenas PROVE \E x \in Docs : a = n.docs[x].arena
    <3>1. a # 0 /\ a \in m.arenas
      BY <1>1, <1>8
    <3>2. PICK x \in Docs : a = m.docs[x].arena
      BY <2>1, <3>1 DEF Held
    <3>3. x # d
      BY <1>9, <3>1, <3>2
    <3>4. CASE x = e
      BY <1>8, <3>2, <3>4
    <3>5. CASE x # e
      BY <1>8, <3>2, <3>3, <3>5
    <3> QED BY <3>4, <3>5
  <2> QED BY <2>2, <2>3 DEF Held
<1>15. Sound(n, c)
  BY <1>1, <1>6, <1>10, <1>11, <1>12, <1>13, <1>14 DEF Sound
<1> QED BY <1>7, <1>8, <1>15

\* The caller's buffer is made.
LEMMA ReadBufferSound ==
  ASSUME NEW m, NEW c, Sound(m, c), c.block = 0, NEW res \in {NewDelete, Foreign},
         NEW n, n = Alloc(m, res), NEW k, k = [alloc |-> res, block |-> NewBlock(m)]
  PROVE  Sound(n, k) /\ n.docs = m.docs
<1>1. m \in Memory /\ ~m.bad /\ Numbered(m) /\ res \in Int /\ IsAlive(m, res)
  BY DEF Sound, Numbered, IsAlive, NewDelete, Foreign
<1>2. /\ n \in Memory /\ ~n.bad
      /\ n.docs = m.docs /\ n.arenas = m.arenas /\ n.made = m.made
      /\ n.owner = Append(m.owner, res) /\ n.live = m.live \union {Len(m.owner) + 1}
  BY <1>1, AllocFields
<1>3. /\ m.owner \in Seq(Int) /\ Len(m.owner) \in Nat /\ \A b \in m.live : b \in 1..Len(m.owner)
      /\ k.block = Len(m.owner) + 1 /\ k.alloc = res /\ k \in Buffers
  BY <1>1 DEF Memory, Numbered, NewBlock, Buffers
<1>4. /\ \A b \in m.live : n.owner[b] = m.owner[b]
      /\ n.owner[Len(m.owner) + 1] = res /\ Len(n.owner) = Len(m.owner) + 1
      /\ Len(m.owner) + 1 \notin m.live
  BY <1>1, <1>2, <1>3
<1>5. Numbered(n)
  BY <1>1, <1>2, <1>3, <1>4 DEF Numbered
<1>6. ASSUME NEW x \in Docs PROVE DocOwns(n, x)
  <2>1. DocOwns(m, x)
    BY DEF Sound
  <2> QED BY <1>2, <1>4, <2>1 DEF DocOwns
<1>7. \A x, y \in Docs : x # y => DocsApart(n, x, y)
  BY <1>2 DEF Sound, DocsApart
<1>8. CallerOwns(n, k)
  <2>1. ASSUME NEW x \in Docs
        PROVE  k.block # n.docs[x].root.node /\ k.block # n.docs[x].buf.block
    <3>1. DocOwns(m, x)
      BY DEF Sound
    <3> QED BY <1>2, <1>3, <1>4, <3>1 DEF DocOwns
  <2> QED BY <1>2, <1>3, <1>4, <2>1 DEF CallerOwns
<1>9. Held(n, k)
  <2>1. Held(m, c) /\ 0 \notin m.live
    BY <1>1 DEF Sound, Numbered
  <2> QED BY <1>2, <1>3, <2>1 DEF Held
<1> QED BY <1>2, <1>3, <1>5, <1>6, <1>7, <1>8, <1>9 DEF Sound

\* The caller's buffer is dropped.
LEMMA DropBufferSound ==
  ASSUME NEW m, NEW c, Sound(m, c), c.block # 0, NEW n, n = DestroyBuffer(m, c)
  PROVE  Sound(n, NoBuffer) /\ n.docs = m.docs
<1>1. /\ m \in Memory /\ ~m.bad /\ Numbered(m) /\ 0 \notin m.live
      /\ c.block \in Nat /\ c.alloc \in Int /\ CallerOwns(m, c) /\ Held(m, c)
  BY DEF Sound, Numbered, Buffers
<1>2. c.block \in m.live /\ m.owner[c.block] = c.alloc /\ IsAlive(m, c.alloc)
  BY <1>1 DEF CallerOwns, IsAlive
<1>3. /\ n \in Memory /\ ~n.bad
      /\ n.docs = m.docs /\ n.arenas = m.arenas /\ n.made = m.made
      /\ n.owner = m.owner /\ n.live = m.live \ {c.block}
  BY <1>1, <1>2, FreeFields DEF DestroyBuffer
<1>4. NoBuffer \in Buffers /\ NoBuffer.block = 0 /\ NoBuffer.alloc = NewDelete
  BY DEF NoBuffer, Buffers, NewDelete
<1>5. Numbered(n)
  BY <1>1, <1>3 DEF Numbered
<1>6. ASSUME NEW x \in Docs PROVE DocOwns(n, x)
  <2>1. DocOwns(m, x)
    BY DEF Sound
  <2> QED BY <1>1, <1>3, <2>1 DEF DocOwns, CallerOwns
<1>7. \A x, y \in Docs : x # y => DocsApart(n, x, y)
  BY <1>3 DEF Sound, DocsApart
<1>8. CallerOwns(n, NoBuffer)
  BY <1>4 DEF CallerOwns
<1>9. Held(n, NoBuffer)
  BY <1>1, <1>3 DEF Held
<1> QED BY <1>3, <1>4, <1>5, <1>6, <1>7, <1>8, <1>9 DEF Sound

\* The root is replaced by a value in the document's own resource.
RootReplaced(m, d) ==
  LET a == Alloc(m, Resource(m.docs[d].arena))
  IN  [DestroyRoot(a, a.docs[d].root) EXCEPT
         !.docs[d].root = [node |-> NewBlock(m), res |-> Resource(m.docs[d].arena), view |-> 0]]

LEMMA SetRootSound ==
  ASSUME NEW m, NEW c, Sound(m, c), NEW d \in Docs, m.docs[d].alive,
         NEW D, D = m.docs[d], NEW n, n = RootReplaced(m, d)
  PROVE  /\ Sound(n, c) /\ n.docs[d].root.view = 0
         /\ \A x \in Docs \ {d} : n.docs[x] = m.docs[x]
<1> DEFINE res == Resource(D.arena)
           root == [node |-> NewBlock(m), res |-> res, view |-> 0]
           a == Alloc(m, res)
           f == Free(a, D.root.node, D.root.res)
           P == [D EXCEPT !.root = root]
<1>1. /\ m \in Memory /\ ~m.bad /\ 0 \notin m.live /\ D \in Documents /\ Numbered(m)
      /\ D.root.node # 0 => D.root.node \in m.live /\ m.owner[D.root.node] = D.root.res
                            /\ IsAlive(m, D.root.res)
      /\ D.arena # 0 => D.arena \in m.arenas
  BY SoundFacts DEF Sound
<1>2. res \in Int /\ IsAlive(m, res) /\ res = Resource(D.arena)
  BY <1>1 DEF Resource, IsAlive, NewDelete, Documents
<1>3. /\ a \in Memory /\ ~a.bad
      /\ a.docs = m.docs /\ a.arenas = m.arenas /\ a.made = m.made
      /\ a.owner = Append(m.owner, res) /\ a.live = m.live \union {Len(m.owner) + 1}
  BY <1>1, <1>2, AllocFields
<1> HIDE DEF a, res
<1>4. /\ m.owner \in Seq(Int) /\ Len(m.owner) \in Nat /\ \A b \in m.live : b \in 1..Len(m.owner)
      /\ NewBlock(m) = Len(m.owner) + 1 /\ D.root.node \in Nat /\ D.root.res \in Int
  BY <1>1 DEF Memory, Numbered, NewBlock, Documents, Roots
<1>5. /\ \A b \in m.live : a.owner[b] = m.owner[b]
      /\ a.owner[Len(m.owner) + 1] = res /\ Len(a.owner) = Len(m.owner) + 1
      /\ Len(m.owner) + 1 \notin m.live
  BY <1>2, <1>3, <1>4
<1>6. D.root.node # 0 => D.root.node \in a.live /\ a.owner[D.root.node] = D.root.res
                          /\ IsAlive(a, D.root.res)
  BY <1>1, <1>3, <1>5 DEF IsAlive
<1>7. 0 \notin a.live /\ a \in Memory /\ ~a.bad /\ D.root.node \in Nat /\ D.root.res \in Int
  BY <1>1, <1>3, <1>4
<1>8. /\ f \in Memory /\ ~f.bad /\ f.docs = a.docs /\ f.arenas = a.arenas /\ f.made = a.made
      /\ f.owner = a.owner /\ f.live = a.live \ {D.root.node}
  BY <1>6, <1>7, FreeFields
<1> HIDE DEF f
<1>9. n = Put(f, d, P)
  <2>1. n = [f EXCEPT !.docs[d].root = root]
    BY <1>3 DEF RootReplaced, DestroyRoot, f, a, res
  <2> HIDE DEF root
  <2> QED BY <1>3, <1>8, <2>1 DEF Put, Memory
<1>10. root \in Roots /\ root.node = Len(m.owner) + 1 /\ root.res = res /\ root.view = 0
  BY <1>2, <1>4 DEF Roots
<1> HIDE DEF root
<1>11. P \in Documents /\ P.root = root /\ P.alive = D.alive /\ P.arena = D.arena /\ P.buf = D.buf
  BY <1>1, <1>10 DEF Documents
<1> HIDE DEF P
<1>12. Replaces(n, f, d, P)
  BY <1>8, <1>9, <1>11, OneDoc
<1>13. /\ n \in Memory /\ ~n.bad /\ n.arenas = m.arenas /\ n.made = m.made /\ n.owner = a.owner
       /\ n.live = (m.live \union {Len(m.owner) + 1}) \ {D.root.node}
       /\ n.docs[d] = P /\ \A x \in Docs \ {d} : n.docs[x] = m.docs[x]
  BY <1>3, <1>8, <1>12 DEF Replaces, SameBlocks
<1>14. Numbered(n)
  BY <1>1, <1>4, <1>5, <1>13 DEF Numbered
<1>15. ASSUME NEW x \in Docs PROVE DocOwns(n, x)
  <2>1. DocOwns(m, x) /\ DocOwns(m, d)
    BY DEF Sound
  <2>2. CASE x = d
    <3>1. n.docs[x] = P /\ P.alive
      BY <1>11, <1>13, <2>2
    <3>2. Len(m.owner) + 1 \in n.live
      BY <1>1, <1>4, <1>5, <1>13
    <3>3. D.buf.block # 0 => D.buf.block \in n.live /\ n.owner[D.buf.block] = D.buf.alloc
                             /\ D.buf.block # Len(m.owner) + 1
      BY <1>5, <1>13, <2>1 DEF DocOwns
    <3>4. D.buf.alloc \in {NewDelete, Foreign, D.arena} /\ (D.arena # 0 => D.arena \in n.arenas)
      BY <1>13, <2>1 DEF DocOwns
    <3> QED BY <1>2, <1>5, <1>10, <1>11, <1>13, <3>1, <3>2, <3>3, <3>4, SMTT(40) DEF DocOwns
  <2>3. CASE x # d
    <3>1. n.docs[x] = m.docs[x] /\ DocsApart(m, x, d)
      BY <1>13, <2>3 DEF Sound
    <3> QED BY <1>5, <1>13, <2>1, <3>1, SMTT(40) DEF DocOwns, DocsApart
  <2> QED BY <2>2, <2>3
<1>16. ASSUME NEW x \in Docs, x # d
       PROVE  DocsApart(n, x, d) /\ DocsApart(n, d, x)
  <2>1. /\ n.docs[x] = m.docs[x] /\ n.docs[d] = P /\ DocOwns(m, x) /\ DocsApart(m, x, d) /\ DocsApart(m, d, x)
    BY <1>13, <1>16 DEF Sound
  <2>2. m.docs[x].root.node # Len(m.owner) + 1 /\ m.docs[x].buf.block # Len(m.owner) + 1
    BY <1>4, <1>5, <2>1 DEF DocOwns
  <2> QED BY <1>10, <1>11, <2>1, <2>2 DEF DocsApart
<1>17. ASSUME NEW x \in Docs, NEW y \in Docs, x # y PROVE DocsApart(n, x, y)
  <2>1. CASE x # d /\ y # d
    <3>1. n.docs[x] = m.docs[x] /\ n.docs[y] = m.docs[y] /\ DocsApart(m, x, y)
      BY <1>13, <1>17, <2>1 DEF Sound
    <3> QED BY <3>1 DEF DocsApart
  <2> QED BY <1>16, <1>17, <2>1
<1>18. CallerOwns(n, c)
  <2>1. CallerOwns(m, c)
    BY DEF Sound
  <2>2. c.block # 0 => c.block # Len(m.owner) + 1 /\ c.block # D.root.node
    BY <1>5, <2>1 DEF CallerOwns
  <2>3. ASSUME c.block # 0, NEW x \in Docs
        PROVE  c.block # n.docs[x].root.node /\ c.block # n.docs[x].buf.block
    BY <1>10, <1>11, <1>13, <2>1, <2>2, <2>3 DEF CallerOwns
  <2> QED BY <1>5, <1>13, <2>1, <2>2, <2>3 DEF CallerOwns
<1>19. Held(n, c)
  <2>1. Held(m, c)
    BY DEF Sound
  <2>2. ASSUME NEW b \in n.live, b # c.block
        PROVE  \E x \in Docs : b = n.docs[x].root.node \/ b = n.docs[x].buf.block
    <3>1. CASE b = Len(m.owner) + 1
      BY <1>10, <1>11, <1>13, <3>1
    <3>2. CASE b # Len(m.owner) + 1
      <4>1. b \in m.live /\ b # D.root.node
        BY <1>13, <3>2
      <4>2. PICK x \in Docs : b = m.docs[x].root.node \/ b = m.docs[x].buf.block
        BY <2>1, <2>2, <4>1 DEF Held
      <4>3. CASE x = d
        BY <1>11, <1>13, <4>1, <4>2, <4>3
      <4>4. CASE x # d
        BY <1>13, <4>2, <4>4
      <4> QED BY <4>3, <4>4
    <3> QED BY <3>1, <3>2
  <2>3. ASSUME NEW b \in n.arenas PROVE \E x \in Docs : b = n.docs[x].arena
    <3>1. PICK x \in Docs : b = m.docs[x].arena
      BY <1>13, <2>1 DEF Held
    <3> QED BY <1>11, <1>13, <3>1
  <2> QED BY <2>2, <2>3 DEF Held
<1>20. Sound(n, c)
  BY <1>13, <1>14, <1>15, <1>17, <1>18, <1>19 DEF Sound
<1> QED BY <1>10, <1>11, <1>13, <1>20

(***************************************************************************)
(* The specification.                                                      *)
(***************************************************************************)
\* A document that is not alive is Gone.
LEMMA NotAlive ==
  ASSUME Sound(mem, caller), NEW d \in Docs, ~Live(d)
  PROVE  mem.docs[d] = Gone
BY DEF Sound, DocOwns, Live

LEMMA InitSound == Init => Inv
<1> SUFFICES ASSUME Init PROVE Inv
  OBVIOUS
<1> DEFINE docs == [d \in Docs |-> Gone]
<1>1. Gone \in Documents /\ NoBuffer \in Buffers
  BY DEF Gone, Documents, StorageNames, NoRoot, NoBuffer, Roots, Buffers, NewDelete
<1>2. docs \in [Docs -> Documents] /\ \A x \in Docs : docs[x] = Gone
  BY <1>1
<1> HIDE DEF docs
<1>3. /\ mem \in Memory /\ mem.docs = docs /\ mem.live = {} /\ mem.arenas = {} /\ ~mem.bad /\ mem.made = 0
      /\ caller = NoBuffer
  <2>1. mem = [docs |-> docs, live |-> {}, owner |-> <<>>, arenas |-> {}, made |-> 0, bad |-> FALSE]
    BY DEF Init, docs
  <2> QED BY <1>2, <2>1 DEF Memory, Init
<1>4. /\ ~Gone.alive /\ Gone.arena = 0 /\ Gone.root.node = 0 /\ Gone.root.view = 0
      /\ Gone.buf.block = 0 /\ Gone.buf.alloc = NewDelete
      /\ NoBuffer.block = 0 /\ NoBuffer.alloc = NewDelete
  BY DEF Gone, NoRoot, NoBuffer
<1>5. \A x \in Docs : mem.docs[x] = Gone
  BY <1>2, <1>3
<1>6. Numbered(mem)
  BY <1>3 DEF Numbered
<1>7. \A x \in Docs : DocOwns(mem, x) /\ ViewsOwn(mem, x)
  BY <1>4, <1>5 DEF DocOwns, ViewsOwn
<1>8. \A x, y \in Docs : x # y => DocsApart(mem, x, y)
  BY <1>4, <1>5 DEF DocsApart
<1>9. CallerOwns(mem, caller) /\ Held(mem, caller)
  BY <1>3, <1>4 DEF CallerOwns, Held
<1> QED BY <1>1, <1>3, <1>6, <1>7, <1>8, <1>9 DEF Inv, Sound

LEMMA NextSound ==
  ASSUME Inv, [Next]_vars
  PROVE  Inv'
<1>1. Sound(mem, caller) /\ \A x \in Docs : ViewsOwn(mem, x)
  BY DEF Inv
<1>2. Storages \subseteq StorageNames
  BY LifeAssumption DEF StorageNames
<1>3. ASSUME NEW d \in Docs, NEW s \in Storages, Default(d, s) PROVE Inv'
  <2>1. mem.docs[d] = Gone /\ mem' = Fresh(mem, d, s) /\ caller' = caller
    BY <1>1, <1>3, NotAlive DEF Default
  <2>2. /\ Sound(mem', caller) /\ mem'.docs[d].root.view = 0
        /\ \A x \in Docs \ {d} : mem'.docs[x] = mem.docs[x]
    BY <1>1, <1>2, <2>1, FreshSound
  <2> QED BY <1>1, <2>1, <2>2 DEF Inv, ViewsOwn
<1>4. ASSUME NEW d \in Docs, NEW s \in Storages, ParseCopy(d, s) PROVE Inv'
  <2>1. mem.docs[d] = Gone /\ mem' = Copied(MakeArena(mem, s), d, s, ArenaOf(mem, s)) /\ caller' = caller
    BY <1>1, <1>4, NotAlive DEF ParseCopy
  <2>2. /\ Sound(mem', caller) /\ mem'.docs[d].root.view = mem'.docs[d].buf.block
        /\ \A x \in Docs \ {d} : mem'.docs[x] = mem.docs[x]
    BY <1>1, <1>2, <2>1, CopiedSound
  <2> QED BY <1>1, <2>1, <2>2 DEF Inv, ViewsOwn
<1>5. ASSUME NEW d \in Docs, NEW s \in Storages, ParseView(d, s) PROVE Inv'
  <2>0. HandsOver(caller, NoBuffer, caller) /\ s \in StorageNames
    BY <1>2 DEF HandsOver
  <2>1. /\ mem.docs[d] = Gone /\ caller' = caller /\ External \in Int /\ ~(External > 0)
        /\ mem' = ParsedWith(MakeArena(mem, s), d, s, ArenaOf(mem, s), NoBuffer, External)
    BY <1>1, <1>5, NotAlive DEF ParseView, External
  <2>2. /\ Sound(mem', caller) /\ mem'.docs[d].root.view = External
        /\ \A x \in Docs \ {d} : mem'.docs[x] = mem.docs[x]
    BY <1>1, <2>0, <2>1, ParsedSound
  <2> QED BY <1>1, <2>1, <2>2 DEF Inv, ViewsOwn
<1>6. ASSUME NEW d \in Docs, NEW s \in Storages, ParseInSitu(d, s) PROVE Inv'
  <2>0. HandsOver(caller, caller, NoBuffer) /\ s \in StorageNames
    BY <1>2 DEF HandsOver
  <2>1. /\ mem.docs[d] = Gone /\ caller' = NoBuffer /\ caller.block \in Int
        /\ mem' = ParsedWith(MakeArena(mem, s), d, s, ArenaOf(mem, s), caller, caller.block)
    BY <1>1, <1>6, NotAlive DEF ParseInSitu, Sound, Buffers
  <2>2. /\ Sound(mem', NoBuffer) /\ mem'.docs[d].root.view = caller.block /\ mem'.docs[d].buf = caller
        /\ \A x \in Docs \ {d} : mem'.docs[x] = mem.docs[x]
    BY <1>1, <2>0, <2>1, ParsedSound
  <2> QED BY <1>1, <2>1, <2>2 DEF Inv, ViewsOwn
<1>7. ASSUME NEW d \in Docs, NEW s \in Storages, ParseInSituFails(d, s) PROVE Inv'
  <2>0. HandsOver(caller, NoBuffer, caller) /\ s \in StorageNames
    BY <1>2 DEF HandsOver
  <2> DEFINE tried == ParsedWith(MakeArena(mem, s), d, s, ArenaOf(mem, s), NoBuffer, caller.block)
  <2>1. /\ mem.docs[d] = Gone /\ caller' = caller /\ caller.block \in Int /\ mem' = Destroy(tried, d)
    BY <1>1, <1>7, NotAlive DEF ParseInSituFails, Sound, Buffers
  <2>2. Sound(tried, caller) /\ \A x \in Docs \ {d} : tried.docs[x] = mem.docs[x]
    BY <1>1, <2>0, <2>1, ParsedSound
  <2> HIDE DEF tried
  <2>3. /\ Sound(mem', caller) /\ mem'.docs[d] = Gone
        /\ \A x \in Docs \ {d} : mem'.docs[x] = tried.docs[x]
    BY <2>1, <2>2, DestroySound
  <2>4. Gone.root.view = 0
    BY DEF Gone, NoRoot
  <2> QED BY <1>1, <2>1, <2>2, <2>3, <2>4 DEF Inv, ViewsOwn
<1>8. ASSUME NEW d \in Docs, NEW e \in Docs, MoveConstruct(d, e) PROVE Inv'
  <2>1. /\ mem.docs[d] = Gone /\ mem.docs[e].alive /\ d # e /\ mem' = Construct(mem, d, e) /\ caller' = caller
    BY <1>1, <1>8, NotAlive DEF MoveConstruct, Live
  <2>2. /\ Sound(mem', caller) /\ mem'.docs[d] = mem.docs[e] /\ mem'.docs[e].root.view = 0
        /\ \A x \in Docs \ {d, e} : mem'.docs[x] = mem.docs[x]
    BY <1>1, <2>1, ConstructSound
  <2> QED BY <1>1, <2>1, <2>2 DEF Inv, ViewsOwn
<1>9. ASSUME NEW d \in Docs, NEW e \in Docs, MoveAssign(d, e) PROVE Inv'
  <2>1. /\ mem.docs[d].alive /\ mem.docs[e].alive /\ d # e /\ mem' = Assign(mem, d, e) /\ caller' = caller
    BY <1>9 DEF MoveAssign, Live
  <2>2. /\ Sound(mem', caller) /\ mem'.docs[e].root.view = 0 /\ (ViewsOwn(mem, e) => ViewsOwn(mem', d))
        /\ \A x \in Docs \ {d, e} : mem'.docs[x] = mem.docs[x]
    BY <1>1, <2>1, AssignSound
  <2> QED BY <1>1, <2>1, <2>2 DEF Inv, ViewsOwn
<1>10. ASSUME NEW d \in Docs, NEW e \in Docs, ResetDoc(d, e) PROVE Inv'
  <2> DEFINE fresh == Fresh(mem, e, mem.docs[d].storage)
             moved == Assign(fresh, d, e)
  <2>1. /\ mem.docs[e] = Gone /\ mem.docs[d].alive /\ d # e /\ caller' = caller
        /\ mem' = Destroy(moved, e)
    BY <1>1, <1>10, NotAlive DEF ResetDoc, Reset, Live
  <2>2. mem.docs[d].storage \in StorageNames
    BY <1>1 DEF Sound, Memory, Documents
  <2>3. /\ Sound(fresh, caller) /\ fresh.docs[e].alive /\ fresh.docs[e].root.view = 0
        /\ \A x \in Docs \ {e} : fresh.docs[x] = mem.docs[x]
    BY <1>1, <2>1, <2>2, FreshSound
  <2> HIDE DEF fresh
  <2>4. /\ Sound(moved, caller) /\ (ViewsOwn(fresh, e) => ViewsOwn(moved, d))
        /\ \A x \in Docs \ {d, e} : moved.docs[x] = fresh.docs[x]
    <3>1. fresh.docs[d].alive
      BY <2>1, <2>3
    <3> QED BY <2>1, <2>3, <3>1, AssignSound
  <2> HIDE DEF moved
  <2>5. /\ Sound(mem', caller) /\ mem'.docs[e] = Gone
        /\ \A x \in Docs \ {e} : mem'.docs[x] = moved.docs[x]
    BY <2>1, <2>4, DestroySound, SMTT(40)
  <2>6. Gone.root.view = 0
    BY DEF Gone, NoRoot
  <2> QED BY <1>1, <2>1, <2>3, <2>4, <2>5, <2>6 DEF Inv, ViewsOwn
<1>11. ASSUME NEW d \in Docs, Drop(d) PROVE Inv'
  <2>1. mem' = Destroy(mem, d) /\ caller' = caller
    BY <1>11 DEF Drop
  <2>2. Sound(mem', caller) /\ mem'.docs[d] = Gone /\ \A x \in Docs \ {d} : mem'.docs[x] = mem.docs[x]
    BY <1>1, <2>1, DestroySound
  <2>3. Gone.root.view = 0
    BY DEF Gone, NoRoot
  <2> QED BY <1>1, <2>1, <2>2, <2>3 DEF Inv, ViewsOwn
<1>12. ASSUME NEW d \in Docs, SetRoot(d) PROVE Inv'
  <2>1. mem.docs[d].alive /\ mem' = RootReplaced(mem, d) /\ caller' = caller
    <3>1. (Alloc(mem, Resource(mem.docs[d].arena))).docs = mem.docs
      BY <1>1 DEF Sound, Memory, Alloc
    <3> QED BY <1>12, <3>1 DEF SetRoot, RootReplaced, Live
  <2>2. /\ Sound(mem', caller) /\ mem'.docs[d].root.view = 0
        /\ \A x \in Docs \ {d} : mem'.docs[x] = mem.docs[x]
    BY <1>1, <2>1, SetRootSound
  <2> QED BY <1>1, <2>1, <2>2 DEF Inv, ViewsOwn
<1>13. ASSUME NEW r \in {NewDelete, Foreign}, ReadBuffer(r) PROVE Inv'
  <2>1. caller.block = 0 /\ mem' = Alloc(mem, r) /\ caller' = [alloc |-> r, block |-> NewBlock(mem)]
    BY <1>13 DEF ReadBuffer
  <2>2. Sound(mem', caller') /\ mem'.docs = mem.docs
    BY <1>1, <2>1, ReadBufferSound
  <2> QED BY <1>1, <2>2 DEF Inv, ViewsOwn
<1>14. ASSUME DropBuffer PROVE Inv'
  <2>1. caller.block # 0 /\ mem' = DestroyBuffer(mem, caller) /\ caller' = NoBuffer
    BY <1>14 DEF DropBuffer
  <2>2. Sound(mem', NoBuffer) /\ mem'.docs = mem.docs
    BY <1>1, <2>1, DropBufferSound
  <2> QED BY <1>1, <2>1, <2>2 DEF Inv, ViewsOwn
<1>15. CASE UNCHANGED vars
  BY <1>1, <1>15 DEF vars, Inv
<1> QED BY <1>3, <1>4, <1>5, <1>6, <1>7, <1>8, <1>9, <1>10, <1>11, <1>12, <1>13, <1>14, <1>15
        DEF Next, Make, Move

\* The documents, the memory and the caller's buffer stay sound whatever the
\* order in which documents are made, parsed, moved, reset and destroyed.
THEOREM LifeInvariant == Spec => []Inv
<1>1. Init => Inv
  BY InitSound
<1>2. Inv /\ [Next]_vars => Inv'
  BY NextSound
<1> QED BY <1>1, <1>2, PTL DEF Spec

\* Every block and arena is given back exactly once, to the resource it came
\* from and while that one is alive: the order of the moves in
\* Document::operator=, the rebinding of the source buffer and the order in
\* which ~Document destroys its members are right.
THEOREM MemoryBalances == Spec => []BlocksBalance
<1>1. Inv => BlocksBalance
  <2> SUFFICES ASSUME Inv PROVE BlocksBalance
    OBVIOUS
  <2>1. Sound(mem, caller)
    BY DEF Inv
  <2>2. /\ NoBadFree /\ 0 \notin mem.live /\ 0 \notin mem.arenas
    BY <2>1 DEF Sound, Numbered, NoBadFree
  <2>3. mem.live = (UNION {BlocksOf(d) : d \in Docs}) \union ({caller.block} \ {0})
    <3>1. ASSUME NEW b \in mem.live PROVE b \in (UNION {BlocksOf(d) : d \in Docs}) \union ({caller.block} \ {0})
      <4>1. CASE b = caller.block
        BY <2>2, <4>1
      <4>2. CASE b # caller.block
        <5>1. PICK x \in Docs : b = mem.docs[x].root.node \/ b = mem.docs[x].buf.block
          BY <2>1, <4>2 DEF Sound, Held
        <5>2. b \in BlocksOf(x)
          BY <2>2, <5>1 DEF BlocksOf
        <5> QED BY <5>2
      <4> QED BY <4>1, <4>2
    <3>2. ASSUME NEW d \in Docs, NEW b \in BlocksOf(d) PROVE b \in mem.live
      <4>1. DocOwns(mem, d)
        BY <2>1 DEF Sound
      <4> QED BY <4>1 DEF DocOwns, BlocksOf
    <3>3. caller.block # 0 => caller.block \in mem.live
      BY <2>1 DEF Sound, CallerOwns
    <3> QED BY <3>1, <3>2, <3>3
  <2>4. mem.arenas = {mem.docs[d].arena : d \in Docs} \ {0}
    <3>1. ASSUME NEW a \in mem.arenas PROVE a \in {mem.docs[d].arena : d \in Docs} \ {0}
      BY <2>1, <2>2 DEF Sound, Held
    <3>2. ASSUME NEW d \in Docs, mem.docs[d].arena # 0 PROVE mem.docs[d].arena \in mem.arenas
      BY <2>1, <3>2 DEF Sound, DocOwns
    <3> QED BY <3>1, <3>2
  <2>5. ASSUME NEW d \in Docs, NEW e \in Docs, d # e PROVE BlocksOf(d) \intersect BlocksOf(e) = {}
    <3>1. DocsApart(mem, d, e)
      BY <2>1, <2>5 DEF Sound
    <3> QED BY <3>1 DEF DocsApart, BlocksOf
  <2> QED BY <2>2, <2>3, <2>4, <2>5 DEF BlocksBalance, NoLeak
<1> QED BY <1>1, LifeInvariant, PTL

\* A live document, a moved-from one included, refers to no block and no
\* resource that is gone.
THEOREM DocumentsStayWhole == Spec => []NothingDangles
<1>1. Inv => NothingDangles
  <2> SUFFICES ASSUME Inv, NEW d \in Docs, Live(d)
               PROVE  /\ mem.docs[d].root.view > 0 => mem.docs[d].root.view \in mem.live
                      /\ IsAlive(mem, mem.docs[d].buf.alloc)
                      /\ mem.docs[d].root.node # 0 => IsAlive(mem, mem.docs[d].root.res)
    BY DEF NothingDangles, ViewsLive, AllocatorsLive
  <2>1. DocOwns(mem, d) /\ ViewsOwn(mem, d)
    BY DEF Inv, Sound
  <2>2. mem.docs[d].root.view > 0 => mem.docs[d].root.view # 0
    BY DEF Inv, Sound, Memory, Documents, Roots
  <2> QED BY <2>1, <2>2 DEF DocOwns, ViewsOwn, IsAlive, Resource, NewDelete
<1> QED BY <1>1, LifeInvariant, PTL
=============================================================================
