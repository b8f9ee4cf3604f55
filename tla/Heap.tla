-------------------------------- MODULE Heap --------------------------------
(***************************************************************************)
(* What an allocator promises: blocks of memory that never overlap, each   *)
(* of which stays where it is until its owner frees it or resizes it.      *)
(***************************************************************************)
EXTENDS Integers

CONSTANTS Size,  \* the words of the arena
          Sizes  \* the sizes of blocks that its users ask for

VARIABLE blocks \* the blocks in use

Words(b) == b.base .. b.base + b.size - 1

Blocks == {b \in [base : 0 .. Size - 1, size : Sizes] : b.base + b.size <= Size}

(* b may be in use together with the blocks of others. *)
Separate(b, others) == \A c \in others : Words(b) \intersect Words(c) = {}

Init == blocks = {}

Allocate(b) ==
    /\ Separate(b, blocks)
    /\ blocks' = blocks \union {b}

Release(b) == blocks' = blocks \ {b}

Resize(b, c) ==
    /\ c.size > b.size
    /\ Separate(c, blocks \ {b})
    /\ blocks' = (blocks \ {b}) \union {c}

Next ==
    \/ \E b \in Blocks : Allocate(b)
    \/ \E b \in blocks : Release(b)
    \/ \E b \in blocks, c \in Blocks : Resize(b, c)

Spec == Init /\ [][Next]_blocks
=============================================================================
