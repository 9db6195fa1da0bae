--------------------------------- MODULE Heap ----------------------------------
(***************************************************************************)
(* What the program expects of malloc, realloc and free: a block that does *)
(* not overlap the others and stays where it is, as large as it is, until  *)
(* its owner resizes or frees it.                                          *)
(***************************************************************************)
EXTENDS Naturals

VARIABLE blocks     \* the size of the block in use at an address

Disjoint(b) == \A p, q \in DOMAIN b : p < q => p + b[p] <= q

Init == blocks = <<>>

Without(b, p) == [q \in DOMAIN b \ {p} |-> b[q]]

\* A block of any size, as long as there is room for it.
Alloc(p) ==
    /\ p \notin DOMAIN blocks
    /\ blocks = Without(blocks', p)
    /\ blocks'[p] > 0
    /\ Disjoint(blocks')

Free(p) == blocks' = Without(blocks, p)

Resize(p) ==
    /\ p \in DOMAIN blocks'
    /\ Without(blocks', p) = Without(blocks, p)
    /\ blocks'[p] > 0
    /\ Disjoint(blocks')

\* The contents are copied while both blocks are in use.
Move(p, q) ==
    /\ q \notin DOMAIN blocks
    /\ Without(blocks', q) = Without(blocks, p)
    /\ blocks'[q] > 0
    /\ Disjoint([r \in DOMAIN blocks \cup {q} |-> IF r = q THEN blocks'[q] ELSE blocks[r]])

Next ==
    \/ \E p \in DOMAIN blocks' : Alloc(p)
    \/ \E p \in DOMAIN blocks : Free(p) \/ Resize(p) \/ \E q \in DOMAIN blocks' : Move(p, q)

Spec == Init /\ [][Next]_blocks
================================================================================
