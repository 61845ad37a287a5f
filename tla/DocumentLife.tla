---------------------------- MODULE DocumentLife ----------------------------
(***************************************************************************)
(* Documents and the memory they own (src/document.cpp and the entry       *)
(* points of src/parser/parse.cpp): an arena, a root whose nodes live in   *)
(* it and whose strings are views of the buffer, and that buffer, which    *)
(* may come from another resource.  A resource is an arena (its number),   *)
(* NewDelete (new_delete and the default resource, which never die) or     *)
(* Foreign (the caller's, which outlives its documents).  Arenas and       *)
(* blocks are numbered as they are made and never reused, so a stale       *)
(* number is a dangling pointer.                                           *)
(***************************************************************************)
EXTENDS Integers, Sequences

CONSTANTS Docs,       \* the places that may hold a Document
          Storages,   \* Pooled and Arena own memory alike
          MaxArenas, MaxBlocks
ASSUME LifeAssumption ==
  Storages \subseteq {"Pooled", "Arena", "SystemDefault"} /\ MaxArenas \in Nat /\ MaxBlocks \in Nat

VARIABLES
  mem,     \* documents; live blocks and the owner of every block; live arenas
           \* and how many were made; whether memory was misused
  caller   \* the padded buffer a caller is about to hand over, or NoBuffer
vars == <<mem, caller>>

\* A document: m_arena (0 for none); the block of m_root's nodes with the
\* resource its container remembers, and the block its strings point into
\* (0 for none, External for parse_view); m_buffer's allocator and block.
External == -1
NewDelete == 0
Foreign == -1
NoRoot   == [node |-> 0, res |-> NewDelete, view |-> 0]
NoBuffer == [alloc |-> NewDelete, block |-> 0]
Gone     == [alive |-> FALSE, arena |-> 0, root |-> NoRoot, buf |-> NoBuffer, storage |-> "Pooled"]

\* Document::resource.
Resource(arena) == IF arena = 0 THEN NewDelete ELSE arena
IsAlive(m, res) == res \in {NewDelete, Foreign} \/ res \in m.arenas

(***************************************************************************)
(* Memory.  mem.bad records a block given back twice, to another resource  *)
(* than its own, or through a resource that is gone.                       *)
(***************************************************************************)
NewBlock(m) == Len(m.owner) + 1
Alloc(m, res) ==
  [m EXCEPT !.owner = Append(@, res), !.live = @ \union {NewBlock(m)},
            !.bad = @ \/ ~IsAlive(m, res)]
Free(m, block, res) ==
  IF block = 0 THEN m
  ELSE [m EXCEPT !.live = @ \ {block},
                 !.bad = @ \/ block \notin m.live \/ m.owner[block] # res \/ ~IsAlive(m, res)]
\* The arena object goes, and every block it still holds with it.
DestroyArena(m, a) ==
  IF a = 0 THEN m
  ELSE [m EXCEPT !.arenas = @ \ {a}, !.live = {b \in @ : m.owner[b] # a},
                 !.bad = @ \/ a \notin m.arenas]

\* Json::destroy and the string's destructor.
DestroyRoot(m, root) == Free(m, root.node, root.res)
DestroyBuffer(m, buf) == Free(m, buf.block, buf.alloc)

\* ~Document: the members go in reverse order of declaration.
Destroy(m, d) ==
  LET doc == m.docs[d]
      gone == DestroyArena(DestroyRoot(DestroyBuffer(m, doc.buf), doc.root), doc.arena)
  IN  [gone EXCEPT !.docs[d] = Gone]

(***************************************************************************)
(* Moves.                                                                  *)
(***************************************************************************)
\* Slip (NoLeak): the old root is overwritten.
MoveRootOverwrites(m, d, e) ==
  [m EXCEPT !.docs[d].root = m.docs[e].root, !.docs[e].root = NoRoot]
\* m_root = std::move(other.m_root)
MoveRoot(m, d, e) ==
  [DestroyRoot(m, m.docs[d].root) EXCEPT
     !.docs[d].root = m.docs[e].root, !.docs[e].root = NoRoot]

\* Slip (ViewsLive): the buffer is rebuilt in the source's arena, which copies
\* it when the source buffer belongs to another resource.
MoveBufferToArena(m, d, e) ==
  LET freed == DestroyBuffer(m, m.docs[d].buf)
      src   == m.docs[e].buf
      copy  == Alloc(freed, Resource(m.docs[e].arena))
  IN  IF src.block = 0 THEN [freed EXCEPT !.docs[d].buf = NoBuffer]
      ELSE IF src.alloc = Resource(m.docs[e].arena)
      THEN [freed EXCEPT !.docs[d].buf = src, !.docs[e].buf.block = 0]
      ELSE [copy EXCEPT !.docs[d].buf = [alloc |-> Resource(m.docs[e].arena), block |-> NewBlock(freed)]]

\* m_buffer is destroyed and rebuilt on the source buffer's own allocator, so
\* that the storage is stolen; an empty one goes back to new_delete.
MoveBuffer(m, d, e) ==
  LET freed == DestroyBuffer(m, m.docs[d].buf)
      src   == m.docs[e].buf
  IN  IF src.block = 0 THEN [freed EXCEPT !.docs[d].buf = NoBuffer]
      ELSE [freed EXCEPT !.docs[d].buf = src, !.docs[e].buf.block = 0]

\* m_arena = std::move(other.m_arena): the old arena dies here.
MoveArena(m, d, e) ==
  [DestroyArena(m, m.docs[d].arena) EXCEPT
     !.docs[d].arena = m.docs[e].arena, !.docs[e].arena = 0]

\* Slip (AllocatorsLive): the moved-from buffer keeps its allocator.
RebindSourceNot(m, e) == m
\* The moved-from buffer is rebuilt on new_delete.
RebindSource(m, e) == [DestroyBuffer(m, m.docs[e].buf) EXCEPT !.docs[e].buf = NoBuffer]

TakeSettings(m, d, e) == [m EXCEPT !.docs[d].storage = m.docs[e].storage]

\* Slip (NoBadFree): the arena moves first.
AssignArenaFirst(m, d, e) ==
  TakeSettings(RebindSource(MoveBuffer(MoveRoot(MoveArena(m, d, e), d, e), d, e), e), d, e)
\* Document::operator=(Document &&), d # e.
Assign(m, d, e) ==
  TakeSettings(RebindSource(MoveArena(MoveBuffer(MoveRoot(m, d, e), d, e), d, e), e), d, e)

\* Document(Document &&): memberwise, then the rebind.  The string's move
\* leaves the source its allocator.
Construct(m, d, e) ==
  RebindSource([m EXCEPT !.docs[d] = m.docs[e],
                         !.docs[e] = [@ EXCEPT !.arena = 0, !.root = NoRoot, !.buf.block = 0]], e)

(***************************************************************************)
(* Making documents.                                                       *)
(***************************************************************************)
\* make_arena: none for SystemDefault.
MakeArena(m, storage) ==
  IF storage = "SystemDefault" THEN m
  ELSE [m EXCEPT !.arenas = @ \union {m.made + 1}, !.made = @ + 1]
ArenaOf(m, storage) == IF storage = "SystemDefault" THEN 0 ELSE m.made + 1

\* The Document of a parse whose arena is a, whose buffer is buf and whose
\* strings are views of view: the root's nodes are allocated last.
ParsedWith(m, d, storage, a, buf, view) ==
  [Alloc(m, Resource(a)) EXCEPT
     !.docs[d] = [alive |-> TRUE, arena |-> a, buf |-> buf, storage |-> storage,
                  root |-> [node |-> NewBlock(m), res |-> Resource(a), view |-> view]]]

\* parse_copy, parse_jsonl: the buffer is allocated from the arena.
Copied(m, d, storage, a) ==
  ParsedWith(Alloc(m, Resource(a)), d, storage, a,
             [alloc |-> Resource(a), block |-> NewBlock(m)], NewBlock(m))

\* Document(storage): an empty document.
Fresh(m, d, storage) ==
  [MakeArena(m, storage) EXCEPT
     !.docs[d] = [Gone EXCEPT !.alive = TRUE, !.arena = ArenaOf(m, storage), !.storage = storage]]

\* Document::reset: assign a temporary, which then goes.  tmp is a free place.
Reset(m, d, tmp) == Destroy(Assign(Fresh(m, tmp, m.docs[d].storage), d, tmp), tmp)

(***************************************************************************)
(* Steps.  Every call is one step: nothing else runs on these documents.   *)
(***************************************************************************)
Live(d) == mem.docs[d].alive
Room    == Len(mem.owner) + 2 <= MaxBlocks /\ mem.made < MaxArenas

Init ==
  /\ mem = [docs |-> [d \in Docs |-> Gone], live |-> {}, owner |-> <<>>, arenas |-> {},
            made |-> 0, bad |-> FALSE]
  /\ caller = NoBuffer

Default(d, storage) == ~Live(d) /\ Room /\ mem' = Fresh(mem, d, storage) /\ UNCHANGED caller
ParseCopy(d, storage) ==
  /\ ~Live(d) /\ Room
  /\ mem' = Copied(MakeArena(mem, storage), d, storage, ArenaOf(mem, storage))
  /\ UNCHANGED caller
ParseView(d, storage) ==
  /\ ~Live(d) /\ Room
  /\ mem' = ParsedWith(MakeArena(mem, storage), d, storage, ArenaOf(mem, storage), NoBuffer, External)
  /\ UNCHANGED caller

\* A buffer read from a file or a stream (the default resource), or one the
\* caller made for parse_in_situ.
ReadBuffer(res) ==
  /\ caller.block = 0 /\ Room
  /\ mem' = Alloc(mem, res) /\ caller' = [alloc |-> res, block |-> NewBlock(mem)]
\* parse_in_situ takes the buffer over when it succeeds, and leaves it when it
\* fails; arena and root are then gone again.
ParseInSitu(d, storage) ==
  /\ ~Live(d) /\ Room /\ caller.block # 0
  /\ mem' = ParsedWith(MakeArena(mem, storage), d, storage, ArenaOf(mem, storage), caller, caller.block)
  /\ caller' = NoBuffer
ParseInSituFails(d, storage) ==
  /\ ~Live(d) /\ Room /\ caller.block # 0
  /\ LET made == ParsedWith(MakeArena(mem, storage), d, storage, ArenaOf(mem, storage),
                            NoBuffer, caller.block)
     IN  mem' = Destroy(made, d)
  /\ UNCHANGED caller
DropBuffer ==
  /\ caller.block # 0 /\ mem' = DestroyBuffer(mem, caller) /\ caller' = NoBuffer

MoveConstruct(d, e) == ~Live(d) /\ Live(e) /\ mem' = Construct(mem, d, e) /\ UNCHANGED caller
MoveAssign(d, e) == d # e /\ Live(d) /\ Live(e) /\ mem' = Assign(mem, d, e) /\ UNCHANGED caller
ResetDoc(d, tmp) == Live(d) /\ ~Live(tmp) /\ Room /\ mem' = Reset(mem, d, tmp) /\ UNCHANGED caller
Drop(d) == Live(d) /\ mem' = Destroy(mem, d) /\ UNCHANGED caller
\* The caller replaces the root by a value built in the document's resource.
SetRoot(d) ==
  /\ Live(d) /\ Room
  /\ mem' = LET m == Alloc(mem, Resource(mem.docs[d].arena))
            IN  [DestroyRoot(m, m.docs[d].root) EXCEPT
                   !.docs[d].root = [node |-> NewBlock(mem), res |-> Resource(mem.docs[d].arena), view |-> 0]]
  /\ UNCHANGED caller

Make == \E d \in Docs, s \in Storages :
          Default(d, s) \/ ParseCopy(d, s) \/ ParseView(d, s) \/ ParseInSitu(d, s) \/ ParseInSituFails(d, s)
Move == \E d, e \in Docs : MoveConstruct(d, e) \/ MoveAssign(d, e) \/ ResetDoc(d, e)
Next == \/ Make \/ Move \/ DropBuffer
        \/ \E d \in Docs : Drop(d) \/ SetRoot(d)
        \/ \E r \in {NewDelete, Foreign} : ReadBuffer(r)
Spec == Init /\ [][Next]_vars

(***************************************************************************)
(* Properties.                                                             *)
(***************************************************************************)
\* Every block goes back once, to the resource it came from, while that one
\* is alive, whatever the order in which documents are moved, reset and
\* destroyed.
NoBadFree == ~mem.bad

\* The strings of a live document point into a block that is still there,
\* also after the document was moved (parse_view's are the caller's affair).
ViewsLive == \A d \in Docs : Live(d) /\ mem.docs[d].root.view > 0 => mem.docs[d].root.view \in mem.live

\* A live document, a moved-from one included, refers to no dead resource.
AllocatorsLive ==
  \A d \in Docs : Live(d) =>
    /\ IsAlive(mem, mem.docs[d].buf.alloc)
    /\ mem.docs[d].root.node # 0 => IsAlive(mem, mem.docs[d].root.res)

\* Nothing is lost: every live block is one document's root or buffer, or the
\* buffer still with the caller, and every arena one document's.
BlocksOf(d) == {mem.docs[d].root.node, mem.docs[d].buf.block} \ {0}
NoLeak ==
  /\ mem.live = (UNION {BlocksOf(d) : d \in Docs}) \union ({caller.block} \ {0})
  /\ mem.arenas = {mem.docs[d].arena : d \in Docs} \ {0}
  /\ \A d, e \in Docs : d # e => BlocksOf(d) \intersect BlocksOf(e) = {}

\* Every block and arena is given back exactly once, and to its owner.
BlocksBalance == NoBadFree /\ NoLeak

\* Nothing a live document refers to is gone.
NothingDangles == ViewsLive /\ AllocatorsLive
=============================================================================
