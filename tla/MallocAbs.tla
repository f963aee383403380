----------------------------- MODULE MallocAbs ------------------------------
(***************************************************************************)
(* What the allocator promises: a block handed out is free memory of the   *)
(* arena, at least as long as was asked, and stays its owner's until it is *)
(* given back.                                                             *)
(***************************************************************************)
EXTENDS Integers

CONSTANTS ArenaStart, ArenaEnd, Sizes

VARIABLE blocks         \* length in words of every block in use, by address

BlocksInit == blocks = <<>>

Words(b) == b .. b + blocks[b] - 1

(* n words from m on, for the owners of the blocks in kept.                *)
Fits(m, n, kept) ==
  /\ m >= ArenaStart /\ m + n <= ArenaEnd
  /\ \A b \in kept : Words(b) \cap (m .. m + n - 1) = {}

Become(m, n, kept) ==
  /\ Fits(m, n, kept)
  /\ blocks' = [b \in kept \cup {m} |-> IF b = m THEN n ELSE blocks[b]]

Give(m, n) == Become(m, n, DOMAIN blocks)

TakeBack(b) == blocks' = [c \in DOMAIN blocks \ {b} |-> blocks[c]]

Resize(b, m, n) == Become(m, n, DOMAIN blocks \ {b})

BlocksNext ==
  \/ \E b \in DOMAIN blocks : TakeBack(b)
  \/ \E m \in DOMAIN blocks' \cap (ArenaStart .. ArenaEnd), n \in Sizes :
       Give(m, n) \/ \E b \in DOMAIN blocks : Resize(b, m, n)

BlocksSpec == BlocksInit /\ [][BlocksNext]_blocks
=============================================================================
