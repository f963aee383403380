------------------------------- MODULE Malloc -------------------------------
(***************************************************************************)
(* lib/malloc.c: boundary-tagged chunks that tile the memory between       *)
(* mem_malloc_start and the break, lists of the free ones by size, and the *)
(* chunk `top' that borders the break.  Addresses and sizes are counted in *)
(* words (SIZE_SZ).  A heap is a record, and every function of the file an *)
(* operator from heaps to heaps.  Headers inside a chunk belong to nobody: *)
(* they are dropped when the chunk swallows them.                          *)
(***************************************************************************)
EXTENDS Integers, Sequences, SequencesExt, FiniteSets, FiniteSetsExt, Functions

CONSTANTS
  Start, End,           \* mem_malloc_start, mem_malloc_end
  PageSize,             \* malloc_getpagesize
  TrimThreshold,        \* trim_threshold
  TopPad,               \* top_pad
  NAV,                  \* number of bins
  MaxSmallBinSize,      \* MAX_SMALLBIN_SIZE
  BinRanges,            \* rows of bin_index(): below what size, base, width
  BinBlockWidth         \* BINBLOCKWIDTH

ASSUME MallocAssumption ==
  /\ Start \in Nat \ {0} /\ End \in Nat /\ Start <= End
  /\ {PageSize, TrimThreshold, NAV, MaxSmallBinSize, BinBlockWidth} \subseteq Nat \ {0}
  /\ TopPad \in Nat

(* Small bins come first, and the rows of bin_index() go up, so that a     *)
(* longer chunk is never in an earlier bin.                                *)
RowStart(r) == IF r = 1 THEN MaxSmallBinSize ELSE BinRanges[r - 1].below
ASSUME BinsAssumption ==
  /\ BinRanges \in Seq([below : Nat, base : Nat, width : Nat \ {0}])
  /\ MaxSmallBinSize % 2 = 0 /\ MaxSmallBinSize \div 2 \in 2 .. NAV - 2
  /\ \A r \in DOMAIN BinRanges :
       LET row == BinRanges[r]
           last == row.base + (row.below - 1) \div row.width
       IN /\ RowStart(r) < row.below /\ last <= NAV - 2
          /\ row.base + RowStart(r) \div row.width >= MaxSmallBinSize \div 2
          /\ \A s \in DOMAIN BinRanges :
               r < s => last <= BinRanges[s].base + RowStart(s) \div BinRanges[s].width

null == 0               \* also initial_top, whose size is 0
MALLOC_ALIGNMENT == 2
MINSIZE == 4
RoundUp(n, unit) == ((n + unit - 1) \div unit) * unit

chunk2mem(p) == p + 2
mem2chunk(mem) == mem - 2
request2size(req) == Max({MINSIZE, ((req + 2) \div 2) * 2})

(* chunks: by address; prev_size counts if the chunk before is free only.  *)
InitHeap ==
  [brk |-> Start, based |-> FALSE, top |-> null, chunks |-> <<>>,
   bins |-> [i \in 1 .. NAV - 1 |-> <<>>], binblocks |-> {}, stale |-> {}]

chunksize(h, p) == IF p = null THEN 0 ELSE h.chunks[p].size
prev_inuse(h, p) == h.chunks[p].prev_inuse
inuse(h, p) == prev_inuse(h, p + chunksize(h, p))
prev_chunk(h, p) == p - h.chunks[p].prev_size

set_head(h, p, size, prev) ==
  LET keep == {q \in DOMAIN h.chunks : q <= p \/ q >= p + size}
      old == IF p \in DOMAIN h.chunks THEN h.chunks[p].prev_size ELSE 0
      head == [size |-> size, prev_inuse |-> prev, prev_size |-> IF prev THEN 0 ELSE old]
  IN [h EXCEPT !.chunks = [q \in keep \cup {p} |-> IF q = p THEN head ELSE @[q]]]

set_head_size(h, p, size) == set_head(h, p, size, prev_inuse(h, p))
set_inuse_bit_at(h, p) == set_head(h, p, chunksize(h, p), TRUE)

(* The use bit of p is cleared and its prev_size says how long the free    *)
(* chunk before it is.                                                     *)
set_foot(h, p, size) ==
  [h EXCEPT !.chunks[p].prev_inuse = FALSE, !.chunks[p].prev_size = size]
-----------------------------------------------------------------------------
(* The lists of free chunks, from fd to bk.  Bin 1 is last_remainder.      *)
last_remainder == 1
smallbin_index(sz) == sz \div 2
is_small_request(nb) == nb < MaxSmallBinSize - 2

bin_index(sz) ==
  LET rows == {r \in DOMAIN BinRanges : sz < BinRanges[r].below}
      row == BinRanges[Min(rows)]
  IN IF rows = {} THEN NAV - 2 ELSE row.base + sz \div row.width

BinOf(sz) == IF sz < MaxSmallBinSize THEN smallbin_index(sz) ELSE bin_index(sz)
BlockOf(i) == i \div BinBlockWidth

(* Small bins hold one size; the others are in order, the smallest last,   *)
(* and a chunk goes ahead of those of its own size.                        *)
frontlink(h, p, size) ==
  LET i == BinOf(size)
      bin == h.bins[i]
      larger == {k \in DOMAIN bin : size < chunksize(h, bin[k])}
      small == size < MaxSmallBinSize
  IN [h EXCEPT
       !.bins[i] = IF small THEN <<p>> \o bin ELSE InsertAt(bin, Cardinality(larger) + 1, p),
       !.binblocks = IF small \/ bin = <<>> THEN @ \cup {BlockOf(i)} ELSE @]

(* p is at one place of one list and leaves it.                            *)
Without(bin, p) ==
  LET at == {k \in DOMAIN bin : bin[k] = p}
  IN IF at = {} THEN bin ELSE RemoveAt(bin, Min(at))

unlink(h, p) == [h EXCEPT !.bins = [i \in DOMAIN @ |-> Without(@[i], p)]]

link_last_remainder(h, p) == [h EXCEPT !.bins[last_remainder] = <<p>>]
clear_last_remainder(h) == [h EXCEPT !.bins[last_remainder] = <<>>]
IsLastRemainder(h, p) == h.bins[last_remainder] = <<p>>
-----------------------------------------------------------------------------
(* The break.  Memory that is given back is cleared, so the words above    *)
(* the break are zero; stale are those that are not.                       *)
(* Mutant: the words given back are not cleared.                           *)
sbrk_KeepsWords(h, increment) ==
  [h EXCEPT !.brk = @ + increment,
            !.stale = IF increment < 0 THEN @ \cup (h.brk + increment .. h.brk - 1)
                                       ELSE @ \ (h.brk .. h.brk + increment - 1)]

sbrk(h, increment) ==
  [h EXCEPT !.brk = @ + increment,
            !.stale = IF increment < 0 THEN @ \ (h.brk + increment .. h.brk - 1)
                                       ELSE @ \ (h.brk .. h.brk + increment - 1)]

sbrk_fails(h, increment) == h.brk + increment > End

(* Nothing but this file moves the break, so after the first time the new  *)
(* memory follows top.                                                     *)
GrowTop(h, nb) ==
  LET size == RoundUp(nb + TopPad + MINSIZE, PageSize)
  IN IF sbrk_fails(h, size) THEN h
     ELSE set_head(sbrk(h, size), h.top, chunksize(h, h.top) + size, TRUE)

FirstTop(h, nb) ==
  LET asked == nb + TopPad + MINSIZE
      size == IF h.based THEN RoundUp(asked, PageSize) ELSE asked
      misalign == chunk2mem(h.brk) % MALLOC_ALIGNMENT
      brk == h.brk + misalign
      correction == misalign + RoundUp(brk + size, PageSize) - (brk + size)
      more == [sbrk(h, size) EXCEPT !.based = TRUE]
      new_brk == more.brk
  IN CASE sbrk_fails(h, size) -> h
       [] ~sbrk_fails(h, size) /\ sbrk_fails(more, correction) -> more
       [] OTHER ->
            set_head([sbrk(more, correction) EXCEPT !.top = brk],
                     brk, new_brk - brk + correction, TRUE)

malloc_extend_top(h, nb) == IF h.top = null THEN FirstTop(h, nb) ELSE GrowTop(h, nb)
-----------------------------------------------------------------------------
(* fREe(): merge with top, or with free neighbours.  A neighbour that is   *)
(* the last remainder stays it.                                            *)
malloc_trim(h, pad) ==
  LET size == chunksize(h, h.top)
      extra == ((size - pad - MINSIZE + PageSize - 1) \div PageSize - 1) * PageSize
  IN IF extra < PageSize \/ h.brk # h.top + size THEN h
     ELSE set_head(sbrk(h, -extra), h.top, size - extra, TRUE)

FreeIntoTop(h, p) ==
  LET alone == prev_inuse(h, p)
      q == IF alone THEN p ELSE prev_chunk(h, p)
      size == h.top + chunksize(h, h.top) - q
      merged == set_head([unlink(h, q) EXCEPT !.top = q], q, size, TRUE)
  IN IF size >= TrimThreshold THEN malloc_trim(merged, TopPad) ELSE merged

(* Mutant: the chunk that follows is not looked at.                        *)
FreeIntoBin_BackwardOnly(h, p) ==
  LET next == p + chunksize(h, p)
      back == ~prev_inuse(h, p)
      q == IF back THEN prev_chunk(h, p) ELSE p
      islr == back /\ IsLastRemainder(h, q)
      apart == IF back /\ ~islr THEN unlink(h, q) ELSE h
      merged == set_foot(set_head(apart, q, next - q, TRUE), next, next - q)
  IN IF islr THEN merged ELSE frontlink(merged, q, next - q)

FreeIntoBin(h, p) ==
  LET next == p + chunksize(h, p)
      back == ~prev_inuse(h, p)
      ahead == ~inuse(h, next)
      q == IF back THEN prev_chunk(h, p) ELSE p
      after == IF ahead THEN next + chunksize(h, next) ELSE next
      size == after - q
      backlr == back /\ IsLastRemainder(h, q)
      aheadlr == ahead /\ ~backlr /\ IsLastRemainder(h, next)
      apart1 == IF back /\ ~backlr THEN unlink(h, q) ELSE h
      apart2 == IF ahead /\ ~aheadlr THEN unlink(apart1, next) ELSE apart1
      relinked == IF aheadlr THEN link_last_remainder(apart2, q) ELSE apart2
      merged == set_foot(set_head(relinked, q, size, TRUE), after, size)
  IN IF backlr \/ aheadlr THEN merged ELSE frontlink(merged, q, size)

fREe(h, mem) ==
  LET p == mem2chunk(mem)
  IN IF p + chunksize(h, p) = h.top THEN FreeIntoTop(h, p) ELSE FreeIntoBin(h, p)
-----------------------------------------------------------------------------
(* mALLOc(): the first source that has a chunk gives it.  A result is a    *)
(* heap and an address, null if there is none.                             *)
Result(h, mem) == [heap |-> h, mem |-> mem]
OrElse(r, Source(_)) == IF r.mem # null THEN r ELSE Source(r.heap)

(* Mutant: the chunk after it still takes it to be free.                   *)
TakeWhole_StillFree(h, p) == Result(unlink(h, p), chunk2mem(p))

TakeWhole(h, p) == Result(set_inuse_bit_at(unlink(h, p), p + chunksize(h, p)), chunk2mem(p))

(* What is left of the chunk becomes the last remainder.                   *)
SplitChunk(h, p, nb) ==
  LET rest == chunksize(h, p) - nb
      cut == set_head(link_last_remainder(unlink(h, p), p + nb), p, nb, TRUE)
  IN Result(set_foot(set_head(cut, p + nb, rest, TRUE), p + nb + rest, rest), chunk2mem(p))

Carve(h, p, nb) ==
  IF chunksize(h, p) - nb >= MINSIZE THEN SplitChunk(h, p, nb) ELSE TakeWhole(h, p)

(* The chunk of a bin that is met first, from its end, that is big enough. *)
Fitting(h, i, nb) == {k \in DOMAIN h.bins[i] : chunksize(h, h.bins[i][k]) >= nb}
FirstFit(h, i, nb) == h.bins[i][Max(Fitting(h, i, nb))]

FromOwnBin(h, nb) ==
  LET i == BinOf(nb)
      bins == {b \in IF is_small_request(nb) THEN {i, i + 1} ELSE {i} : Fitting(h, b, nb) # {}}
      p == FirstFit(h, Min(bins), nb)
  IN IF bins = {} \/ (bins # {} /\ chunksize(h, p) - nb >= MINSIZE)
       THEN Result(h, null) ELSE TakeWhole(h, p)

FromLastRemainder(h, nb) ==
  LET p == Head(h.bins[last_remainder])
  IN IF h.bins[last_remainder] = <<>> THEN Result(h, null)
     ELSE IF chunksize(h, p) >= nb THEN Carve(h, p, nb)
     ELSE Result(frontlink(clear_last_remainder(h), p, chunksize(h, p)), null)

(* Where the search of the marked blocks starts.                           *)
ScanFrom(h, nb) ==
  IF is_small_request(nb) THEN BinOf(nb) + 2
  ELSE IF Fitting(h, BinOf(nb), nb) # {} THEN BinOf(nb) ELSE BinOf(nb) + 1

(* Mutant: the first block is cleared without a look at the bins before.   *)
Emptied_Partly(h, from, found) ==
  {b \in h.binblocks : b >= BlockOf(from) /\ (found # {} => b < BlockOf(Min(found)))}

(* Blocks in which nothing was found are cleared, the first, if the search *)
(* started in its middle, only if the bins before are empty too.           *)
Emptied(h, from, found) ==
  {b \in h.binblocks :
    /\ b >= BlockOf(from) /\ (found # {} => b < BlockOf(Min(found)))
    /\ \A i \in b * BinBlockWidth .. from - 1 : h.bins[i] = <<>>}

FromBlocks(h, nb, from) ==
  LET found == {i \in from .. NAV - 1 : BlockOf(i) \in h.binblocks /\ Fitting(h, i, nb) # {}}
      cleared == [h EXCEPT !.binblocks = @ \ Emptied(h, from, found)]
  IN IF found = {} THEN Result(cleared, null)
     ELSE Carve(cleared, FirstFit(h, Min(found), nb), nb)

TopFits(h, nb) == chunksize(h, h.top) - nb >= MINSIZE

FromTop(h, nb) ==
  LET g == IF TopFits(h, nb) THEN h ELSE malloc_extend_top(h, nb)
      rest == chunksize(g, g.top) - nb
      cut == set_head([g EXCEPT !.top = @ + nb], g.top, nb, TRUE)
  IN IF TopFits(g, nb) THEN Result(set_head(cut, g.top + nb, rest, TRUE), chunk2mem(g.top))
     ELSE Result(g, null)

mALLOc(h, bytes) ==
  LET nb == request2size(bytes)
  IN OrElse(OrElse(OrElse(FromOwnBin(h, nb),
       LAMBDA g : FromLastRemainder(g, nb)),
       LAMBDA g : FromBlocks(g, nb, ScanFrom(h, nb))),
       LAMBDA g : FromTop(g, nb))
-----------------------------------------------------------------------------
(* A chunk in use gives back what is more than nb words of it.             *)
SplitOff(h, p, size, nb) ==
  LET rest == size - nb
      cut == set_head(set_head_size(h, p, nb), p + nb, rest, TRUE)
  IN IF rest >= MINSIZE
       THEN fREe(set_inuse_bit_at(cut, p + size), chunk2mem(p + nb))
       ELSE set_inuse_bit_at(set_head_size(h, p, size), p + size)

(* rEALLOc() tries the chunk after, both neighbours, the chunk before, and *)
(* only then another place.  top must not be used up.                      *)
Neighbours == << [back |-> FALSE, ahead |-> TRUE],
                 [back |-> TRUE, ahead |-> TRUE],
                 [back |-> TRUE, ahead |-> FALSE] >>

Expanded(h, p, nb) ==
  LET next == p + chunksize(h, p)
      from(o) == IF o.back THEN prev_chunk(h, p) ELSE p
      upto(o) == IF o.ahead THEN next + chunksize(h, next) ELSE next
      isTop(o) == o.ahead /\ next = h.top
      can(o) == /\ o.back => ~prev_inuse(h, p)
                /\ o.ahead => next = h.top \/ ~inuse(h, next)
                /\ upto(o) - from(o) >= nb + (IF isTop(o) THEN MINSIZE ELSE 0)
      usable == {k \in DOMAIN Neighbours : can(Neighbours[k])}
      o == Neighbours[Min(usable)]
      q == from(o)
      apart1 == IF o.back THEN unlink(h, q) ELSE h
      apart2 == IF o.ahead THEN unlink(apart1, next) ELSE apart1
      size == upto(o) - q
      overTop == set_head([set_head_size(apart2, q, nb) EXCEPT !.top = q + nb],
                          q + nb, size - nb, TRUE)
  IN IF usable = {} THEN Result(h, null)
     ELSE IF isTop(o) THEN Result(overTop, chunk2mem(q))
     ELSE Result(SplitOff(apart2, q, size, nb), chunk2mem(q))

Moved(h, mem, bytes) ==
  LET p == mem2chunk(mem)
      new == mALLOc(h, bytes)
      q == mem2chunk(new.mem)
      g == new.heap
      joined == chunksize(h, p) + chunksize(g, q)
  IN IF new.mem = null THEN new
     ELSE IF q = p + chunksize(h, p) THEN Result(SplitOff(g, p, joined, request2size(bytes)), mem)
     ELSE Result(fREe(g, mem), new.mem)

rEALLOc(h, mem, bytes) ==
  LET p == mem2chunk(mem)
      nb == request2size(bytes)
  IN IF chunksize(h, p) >= nb THEN Result(SplitOff(h, p, chunksize(h, p), nb), mem)
     ELSE OrElse(Expanded(h, p, nb), LAMBDA g : Moved(g, mem, bytes))

(* mEMALIGn() takes more than enough and gives back both ends.             *)
LeadingFreed(h, p, alignment) ==
  LET spot == mem2chunk(RoundUp(chunk2mem(p), alignment))
      q == IF spot - p < MINSIZE THEN spot + alignment ELSE spot
      size == chunksize(h, p) - (q - p)
      cut == set_inuse_bit_at(set_head(h, q, size, TRUE), q + size)
  IN IF chunk2mem(p) % alignment = 0 THEN Result(h, chunk2mem(p))
     ELSE Result(fREe(set_head_size(cut, p, q - p), chunk2mem(p)), chunk2mem(q))

mEMALIGn(h, atLeast, bytes) ==
  LET alignment == Max({atLeast, MINSIZE})
      nb == request2size(bytes)
      wide == mALLOc(h, nb + alignment + MINSIZE)
      r == LeadingFreed(wide.heap, mem2chunk(wide.mem), alignment)
      p == mem2chunk(r.mem)
  IN IF atLeast <= MALLOC_ALIGNMENT THEN mALLOc(h, bytes)
     ELSE IF wide.mem = null THEN wide
     ELSE IF chunksize(r.heap, p) - nb < MINSIZE THEN r
     ELSE Result(SplitOff(r.heap, p, chunksize(r.heap, p), nb), r.mem)

UserWords(h, mem) == mem .. mem + chunksize(h, mem2chunk(mem)) - 2

(* cALLOc() does not clear what sbrk() has just given; dirty are the words *)
(* it leaves in the block that may not be zero.                            *)
cALLOc_dirty(h, r) ==
  LET p == mem2chunk(r.mem)
      fresh == p = h.top /\ chunksize(r.heap, p) > chunksize(h, h.top)
      cleared == r.mem .. r.mem + (IF fresh THEN chunksize(h, h.top)
                                            ELSE chunksize(r.heap, p)) - 2
      written == 1 .. h.brk - 1 \cup {r.heap.top + 1}
  IN (UserWords(r.heap, r.mem) \ cleared) \cap (written \cup h.stale)
=============================================================================
