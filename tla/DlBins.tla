-------------------------------- MODULE DlBins ---------------------------------
(***************************************************************************)
(* Chunks and bins of src/utils/malloc-2.8.5.c, the heap of the program.   *)
(* A malloc_state is a record m.  Its memory is m.mem, the heads of the    *)
(* chunks by address; sizes and addresses count granules of 8 bytes, the   *)
(* alignment, so that a head takes half a granule.  A smallbin is the      *)
(* sequence of its chunks from the bin's fd on; a treebin maps the place   *)
(* of a node in the tree, the children taken from the root, to its chain   *)
(* of chunks of one size, in fd order from the node itself.                *)
(***************************************************************************)
EXTENDS Integers, FiniteSetsExt, SequencesExt

CONSTANTS
    TREEBIN_SHIFT,  \* sizes of 2^TREEBIN_SHIFT granules are large; 5 in the code
    NTREEBINS,      \* 32 in the code
    SIZE_T_BITSIZE  \* of a size in granules; 29 in the code

ASSUME BinsAssumption ==
    /\ TREEBIN_SHIFT \in Nat /\ TREEBIN_SHIFT >= 2
    /\ NTREEBINS \in Nat /\ NTREEBINS >= 2 /\ NTREEBINS % 2 = 0
    /\ SIZE_T_BITSIZE \in Nat /\ SIZE_T_BITSIZE > TREEBIN_SHIFT + NTREEBINS \div 2

\* 1 << n.
Pow2 == [n \in 0..SIZE_T_BITSIZE |-> 2 ^ n]

NULL == 0
MIN_CHUNK_SIZE == 2
MAX_SIZE_T == Pow2[SIZE_T_BITSIZE] - 1

\* f with x mapped to y.
With(f, x, y) == [a \in DOMAIN f \cup {x} |-> IF a = x THEN y ELSE f[a]]

\* Unsigned subtraction.
Minus(a, b) == (a - b) % (MAX_SIZE_T + 1)

------------------------------------------------------------------------------
(* Heads.  prev_foot means something while the chunk before is free only.      *)

Chunk(s, cin, pin, foot) == [size |-> s, cin |-> cin, pin |-> pin, foot |-> IF pin THEN 0 ELSE foot]

chunksize(m, p) == m.mem[p].size
next_chunk(m, p) == p + chunksize(m, p)
is_inuse(m, p) == m.mem[p].cin \/ ~m.mem[p].pin

\* Heads the new chunk covers are no heads any more.
set_head(m, p, s, cin, pin) ==
    [m EXCEPT !.mem = [a \in {q \in DOMAIN m.mem : q < p \/ q >= p + s} \cup {p} |->
        IF a # p THEN m.mem[a]
        ELSE Chunk(s, cin, pin, IF p \in DOMAIN m.mem THEN m.mem[p].foot ELSE 0)]]

\* The bit may be set in what is no head yet, or none any more.
set_pinuse(m, n) ==
    [m EXCEPT !.mem = With(@, n, IF n \in DOMAIN @ THEN Chunk(@[n].size, @[n].cin, TRUE, 0)
                                 ELSE Chunk(0, FALSE, TRUE, 0))]

clear_pinuse(m, n) == [m EXCEPT !.mem[n].pin = FALSE]
set_foot(m, p, s) == [m EXCEPT !.mem[p + s].foot = s]

set_inuse(m, p, s) == set_pinuse(set_head(m, p, s, TRUE, m.mem[p].pin), p + s)
set_inuse_and_pinuse(m, p, s) == set_pinuse(set_head(m, p, s, TRUE, TRUE), p + s)
set_size_and_pinuse_of_inuse_chunk(m, p, s) == set_head(m, p, s, TRUE, TRUE)
set_size_and_pinuse_of_free_chunk(m, p, s) == set_foot(set_head(m, p, s, FALSE, TRUE), p, s)
\* Mutant of set_free_with_pinuse: the chunk behind is not told.
set_free_pinuse_kept(m, p, s, n) == set_size_and_pinuse_of_free_chunk(m, p, s)

set_free_with_pinuse(m, p, s, n) == set_size_and_pinuse_of_free_chunk(clear_pinuse(m, n), p, s)

------------------------------------------------------------------------------
(* Smallbins.                                                                  *)

is_small(s) == s < Pow2[TREEBIN_SHIFT]
small_index(s) == s

insert_small_chunk(m, p, s) ==
    LET i == small_index(s) IN
    [m EXCEPT !.smallmap = @ \cup {i},
              !.smallbins[i] = IF i \in m.smallmap THEN <<p>> \o @ ELSE <<p>>]

\* Mutant of unlink_small_chunk: the bin stays marked when it becomes empty.
unlink_small_chunk_unmarked(m, p, s) ==
    [m EXCEPT !.smallbins[small_index(s)] = RemoveFirst(@, p)]

unlink_small_chunk(m, p, s) ==
    LET i == small_index(s) IN
    IF m.smallbins[i] = <<p>>
    THEN [m EXCEPT !.smallmap = @ \ {i}, !.smallbins[i] = <<>>]
    ELSE [m EXCEPT !.smallbins[i] = RemoveFirst(@, p)]

unlink_first_small_chunk(m, i) == unlink_small_chunk(m, Head(m.smallbins[i]), i)

replace_dv(m, p, s) ==
    [(IF m.dvsize # 0 THEN insert_small_chunk(m, m.dv, m.dvsize) ELSE m) EXCEPT !.dv = p, !.dvsize = s]

------------------------------------------------------------------------------
(* Treebins.                                                                   *)

\* Two bins for every power of two, the last one for all that is larger.
compute_tree_index(s) ==
    LET x == s \div Pow2[TREEBIN_SHIFT]
        k == Max({j \in 0..SIZE_T_BITSIZE : Pow2[j] <= x})
    IN  IF x = 0 THEN 0
        ELSE IF x >= Pow2[NTREEBINS \div 2] THEN NTREEBINS - 1
        ELSE 2 * k + ((s \div Pow2[k + TREEBIN_SHIFT - 1]) % 2)

minsize_for_tree_index(i) == Pow2[i \div 2 + TREEBIN_SHIFT] + (i % 2) * Pow2[i \div 2 + TREEBIN_SHIFT - 1]

bit_for_tree_index(i) == IF i = NTREEBINS - 1 THEN SIZE_T_BITSIZE - 1 ELSE i \div 2 + TREEBIN_SHIFT - 2

\* The bits of a size that bin i sorts by, those that are shifted in last being 0.
SizeBits(i, s) == [d \in 1..SIZE_T_BITSIZE |->
    LET bit == bit_for_tree_index(i) - d + 1 IN IF bit < 0 THEN 0 ELSE (s \div Pow2[bit]) % 2]

Down(i, s, depth) == SubSeq(SizeBits(i, s), 1, depth)

\* The nodes on the way down for a size.
OnTheWay(tree, i, s) == {Down(i, s, d) : d \in 0..SIZE_T_BITSIZE} \cap DOMAIN tree

NodeSize(m, tree, t) == chunksize(m, tree[t][1])

\* A chunk of a size that is there joins its chain; any other becomes a leaf.
insert_large_chunk(m, x, s) ==
    LET i == compute_tree_index(s)
        tree == IF i \in m.treemap THEN m.treebins[i] ELSE <<>>
        same == {t \in OnTheWay(tree, i, s) : NodeSize(m, tree, t) = s}
        leaf == Down(i, s, Cardinality(OnTheWay(tree, i, s)))
        t == CHOOSE n \in same : TRUE
    IN  [m EXCEPT !.treemap = @ \cup {i},
                  !.treebins[i] = IF i \notin m.treemap THEN With(<<>>, <<>>, <<x>>)
                                  ELSE IF same = {} THEN With(tree, leaf, <<x>>)
                                  ELSE [tree EXCEPT ![t] = <<Head(@), x>> \o Tail(@)]]

\* Mutant of LeftSpine: the loop down the tree is forgotten.
OnlyRoot(tree, t) == {t}

\* leftmost_child as long as there is one.
LeftSpine(tree, t) == {n \in DOMAIN tree : IsPrefix(t, n) /\ \A k \in Len(t) + 1..Len(n) :
    n[k] = 1 => SubSeq(n, 1, k - 1) \o <<0>> \notin DOMAIN tree}

\* The leaf that is found by going right where there is a right child.
RightmostLeaf(tree, t) == CHOOSE n \in DOMAIN tree :
    /\ IsPrefix(t, n) /\ n \o <<0>> \notin DOMAIN tree /\ n \o <<1>> \notin DOMAIN tree
    /\ \A k \in Len(t) + 1..Len(n) : n[k] = 0 => SubSeq(n, 1, k - 1) \o <<1>> \notin DOMAIN tree

\* A chained chunk leaves its chain and the one before it takes its place; the last of its
\* size is replaced by a leaf below it.
unlink_large_chunk(m, x) ==
    LET i == compute_tree_index(chunksize(m, x))
        tree == m.treebins[i]
        t == CHOOSE n \in DOMAIN tree : x \in Range(tree[n])
        chain == tree[t]
        leaf == RightmostLeaf(tree, t)
        rest == IF Len(chain) > 1
                THEN [tree EXCEPT ![t] = IF Head(chain) = x THEN <<Last(chain)>> \o Front(Tail(chain))
                                                            ELSE RemoveFirst(chain, x)]
                ELSE [n \in DOMAIN tree \ {leaf} |-> IF n = t THEN tree[leaf] ELSE tree[n]]
    IN  [m EXCEPT !.treebins[i] = rest,
                  !.treemap = IF rest = <<>> THEN @ \ {i} ELSE @]

insert_chunk(m, p, s) == IF is_small(s) THEN insert_small_chunk(m, p, s) ELSE insert_large_chunk(m, p, s)
unlink_chunk(m, p, s) == IF is_small(s) THEN unlink_small_chunk(m, p, s) ELSE unlink_large_chunk(m, p)
================================================================================
