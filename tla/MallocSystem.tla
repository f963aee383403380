---------------------------- MODULE MallocSystem ----------------------------
(***************************************************************************)
(* A program that calls the allocator of lib/malloc.c.  The functions take *)
(* no lock and the program calls them from one task at a time, as it does  *)
(* while it starts, so a call is one step.                                 *)
(***************************************************************************)
EXTENDS Malloc

CONSTANTS
  Requests,             \* words that are asked for
  Alignments            \* alignments that are asked for

(* Beyond MALLOC_ALIGNMENT, an alignment is a power of two.                *)
ASSUME RequestsAssumption ==
  /\ Requests \subseteq Nat \ {0}
  /\ \A a \in Alignments : a \in Nat /\ (a <= MALLOC_ALIGNMENT \/ a % MALLOC_ALIGNMENT = 0)

VARIABLES
  heap,
  live,                 \* words asked for, by address, of every block in use
  refused,              \* words that the last call could not give
  uncleared             \* a block of cALLOc() was not all zero

heapVars == <<heap, live, refused, uncleared>>

HeapInit == heap = InitHeap /\ live = <<>> /\ refused = 0 /\ uncleared = FALSE

Owning(kept, mem, n) == [b \in kept \cup {mem} |-> IF b = mem THEN n ELSE live[b]]

(* The caller of r, who keeps the blocks in kept, gets n words, or null    *)
(* and what it had.                                                        *)
Answer(r, n, kept) ==
  /\ heap' = r.heap
  /\ IF r.mem = null
       THEN refused' = n /\ UNCHANGED live
       ELSE refused' = 0 /\ live' = Owning(kept, r.mem, n)

malloc(n) == Answer(mALLOc(heap, n), n, DOMAIN live) /\ UNCHANGED uncleared

calloc(n) ==
  LET r == mALLOc(heap, n)
  IN /\ Answer(r, n, DOMAIN live)
     /\ uncleared' = (uncleared \/ (r.mem # null /\ cALLOc_dirty(heap, r) # {}))

realloc(b, n) == Answer(rEALLOc(heap, b, n), n, DOMAIN live \ {b}) /\ UNCHANGED uncleared

(* A refusal says nothing of what a plain request would have got.          *)
memalign(a, n) ==
  LET r == mEMALIGn(heap, a, n)
  IN /\ heap' = r.heap
     /\ live' = IF r.mem = null THEN live ELSE Owning(DOMAIN live, r.mem, n)
     /\ refused' = 0
     /\ UNCHANGED uncleared

free(b) ==
  /\ heap' = fREe(heap, b)
  /\ live' = Restrict(live, DOMAIN live \ {b})
  /\ refused' = 0
  /\ UNCHANGED uncleared

HeapNext ==
  \/ \E n \in Requests : malloc(n) \/ calloc(n)
  \/ \E n \in Requests, a \in Alignments : memalign(a, n)
  \/ \E b \in DOMAIN live : free(b) \/ \E n \in Requests : realloc(b, n)

HeapSpec == HeapInit /\ [][HeapNext]_heapVars
-----------------------------------------------------------------------------
Heads == DOMAIN heap.chunks
InUse(p) == p # heap.top /\ inuse(heap, p)
FreeChunks == {p \in Heads : p # heap.top /\ ~inuse(heap, p)}
Next_(p) == p + chunksize(heap, p)

(* The chunks tile the memory up to the break, each knows of the one       *)
(* before it whether it is in use and, if not, where it starts, and no two *)
(* free ones are neighbours, whatever was split, merged, moved or trimmed. *)
ChunksTile ==
  /\ heap.top = null => Heads = {}
  /\ heap.top # null => heap.top \in Heads /\ Next_(heap.top) = heap.brk
  /\ \A p \in Heads :
       /\ chunksize(heap, p) >= MINSIZE /\ chunk2mem(p) % MALLOC_ALIGNMENT = 0
       /\ p # heap.top => Next_(p) \in Heads
       /\ \A q \in Heads : q <= p \/ q >= Next_(p)
       /\ ~prev_inuse(heap, p) => prev_chunk(heap, p) \in FreeChunks /\ Next_(prev_chunk(heap, p)) = p
       /\ p \in FreeChunks \cup {heap.top} => prev_inuse(heap, p)

Spots == UNION {{i} \X DOMAIN heap.bins[i] : i \in 1 .. NAV - 1}

(* Every free chunk but top is in the one bin its size belongs to, or it   *)
(* is the last remainder; large bins are in order; and a block of bins     *)
(* that holds something is marked, or the search would pass it over.       *)
BinsExact ==
  /\ \A p \in FreeChunks : \E s \in Spots : \A r \in Spots :
       heap.bins[r[1]][r[2]] = p <=> r = s
  /\ Len(heap.bins[last_remainder]) <= 1
  /\ \A i \in 1 .. NAV - 1 : \A k \in DOMAIN heap.bins[i] :
       LET p == heap.bins[i][k]
       IN /\ p \in FreeChunks
          /\ i # last_remainder => BinOf(chunksize(heap, p)) = i /\ BlockOf(i) \in heap.binblocks
          /\ k > 1 => chunksize(heap, p) <= chunksize(heap, heap.bins[i][k - 1])

(* The chunks in use are those of the blocks, long enough for what was     *)
(* asked: none is lost, none serves two owners.                            *)
BlocksHeld ==
  /\ {chunk2mem(p) : p \in {q \in Heads : InUse(q)}} = DOMAIN live
  /\ \A b \in DOMAIN live : chunksize(heap, mem2chunk(b)) >= live[b] + 1

(* Every chunk is where the boundary tags, the bins and its owner say.     *)
HeapExact == ChunksTile /\ BinsExact /\ BlocksHeld

(* A request is refused only when no free chunk would do and the break     *)
(* cannot be moved as far as the request needs.                            *)
RefusedOnlyWhenFull ==
  refused > 0 =>
    /\ \A p \in FreeChunks : chunksize(heap, p) < request2size(refused)
    /\ heap.brk + RoundUp(request2size(refused) + TopPad + MINSIZE, PageSize)
         + (IF heap.top = null THEN PageSize ELSE 0) > End

(* cALLOc() gives cleared memory, though it leaves alone what sbrk() gave. *)
CallocClears == ~uncleared

Blocks == INSTANCE MallocAbs WITH
  blocks <- live, ArenaStart <- Start, ArenaEnd <- End + 1, Sizes <- Requests

(* Blocks in use never overlap, and stay as they are until their owner     *)
(* gives them back.                                                        *)
ImplementsBlocks == Blocks!BlocksSpec
=============================================================================
