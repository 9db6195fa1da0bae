------------------------------- MODULE DlMalloc --------------------------------
(***************************************************************************)
(* dlmalloc, dlfree and dlrealloc of src/utils/malloc-2.8.5.c as the       *)
(* program builds them: no mmap, no trimming, one state gm, and memory     *)
(* from morecore in regions that need not adjoin.  A request is the padded *)
(* size of its chunk.  Each action is one call of the program.             *)
(***************************************************************************)
EXTENDS DlBins

CONSTANTS
    granularity,    \* mparams.granularity
    Bases,          \* where the system may have memory to give
    MemoryEnd,      \* bound: the end of the memory it has
    Requests,       \* bound: the sizes that are asked for
    MaxLive         \* bound: blocks in use at once

ASSUME MallocAssumption ==
    /\ granularity \in Nat \ {0} /\ (MAX_SIZE_T + 1) % granularity = 0
    /\ Bases \subseteq Nat \ {NULL}
    /\ MemoryEnd \in 0..MAX_SIZE_T
    /\ Requests \subseteq MIN_CHUNK_SIZE..MAX_SIZE_T

TOP_FOOT_SIZE == 5
MALLOC_ALIGNMENT == 1
SYS_ALLOC_PADDING == TOP_FOOT_SIZE + MALLOC_ALIGNMENT
SEGMENT_SIZE == 3   \* pad_request(sizeof(struct malloc_segment))
FENCEPOST == Chunk(0, TRUE, TRUE, 0)

VARIABLES
    gm,         \* the malloc_state and the memory behind it
    live,       \* the program's blocks: what was asked for at the chunk's address
    refused     \* the request that got NULL in the last step, or 0

vars == <<gm, live, refused>>

ZeroState == [mem |-> <<>>, smallmap |-> {}, treemap |-> {},
              smallbins |-> [i \in MIN_CHUNK_SIZE..Pow2[TREEBIN_SHIFT] - 1 |-> <<>>],
              treebins |-> [i \in 0..NTREEBINS - 1 |-> <<>>],
              dv |-> NULL, dvsize |-> 0, top |-> NULL, topsize |-> 0, least_addr |-> 0,
              seg |-> <<>>]

Init == gm = ZeroState /\ live = <<>> /\ refused = 0

\* What a call leaves behind and the chunk it returns.
Result(m, p) == [m |-> m, p |-> p]

------------------------------------------------------------------------------
(* Memory from the system.                                                     *)

segment_holds(s, a) == a >= s.base /\ a < s.base + s.size

granularity_align(s) ==
    LET t == (s + granularity - 1) % (MAX_SIZE_T + 1) IN t - (t % granularity)

set_top(m, p, psize) == set_head([m EXCEPT !.top = p, !.topsize = psize], p, psize, FALSE, TRUE)

init_top(m, p, psize) ==
    LET n == set_top(m, p, psize) IN
    [n EXCEPT !.mem = With(@, p + psize, Chunk(TOP_FOOT_SIZE, FALSE, FALSE, 0))]

split_top(m, nb) ==
    Result(set_size_and_pinuse_of_inuse_chunk(set_top(m, m.top + nb, m.topsize - nb), m.top, nb), m.top)

\* A region right below a segment becomes part of it: the chunk asked for and a remainder
\* that joins what is free at the old base.
prepend_alloc(m0, p, oldfirst, nb) ==
    LET q == p + nb
        qsize == oldfirst - q
        m == set_size_and_pinuse_of_inuse_chunk(m0, p, nb)
        nsize == IF is_inuse(m, oldfirst) THEN 0 ELSE chunksize(m, oldfirst)
        n == IF nsize = 0 THEN m ELSE unlink_chunk(m, oldfirst, nsize)
    IN  Result(CASE oldfirst = m.top -> set_top(m, q, m.topsize + qsize)
                 [] oldfirst = m.dv -> set_size_and_pinuse_of_free_chunk(
                        [m EXCEPT !.dv = q, !.dvsize = @ + qsize], q, m.dvsize + qsize)
                 [] OTHER -> insert_chunk(
                        set_free_with_pinuse(n, q, qsize + nsize, oldfirst + nsize), q, qsize + nsize),
               p)

\* A region elsewhere gets the new top.  The old one's end holds the record of its segment
\* and a fencepost, and what is left of it is binned.  One head stands for the two or more
\* that the code writes up to the end: nothing reads those behind the first.
add_segment(m, tbase, tsize) ==
    LET old == CHOOSE s \in Range(m.seg) : segment_holds(s, m.top)
        old_end == old.base + old.size
        asp == old_end - TOP_FOOT_SIZE
        csp == IF asp < m.top + MIN_CHUNK_SIZE THEN m.top ELSE asp
        psize == csp - m.top
        a == init_top(m, tbase, tsize - TOP_FOOT_SIZE)
        b == set_size_and_pinuse_of_inuse_chunk(a, csp, SEGMENT_SIZE)
        c == [b EXCEPT !.seg = <<[base |-> tbase, size |-> tsize]>> \o @,
                       !.mem = With(@, csp + SEGMENT_SIZE, FENCEPOST)]
    IN  IF psize = 0 THEN c
        ELSE insert_chunk(set_free_with_pinuse(c, m.top, psize, csp), m.top, psize)

\* The system gives memory that nobody uses, wherever it likes.
Given(m, size) == {b \in Bases : b + size <= MemoryEnd
    /\ \A s \in Range(m.seg) : b + size <= s.base \/ s.base + s.size <= b}

\* The region is put to use: the first one, one behind the segment that holds top, one in
\* front of a segment, or one elsewhere.
extend(m, tbase, tsize, nb) ==
    LET behind == {i \in DOMAIN m.seg : m.seg[i].base + m.seg[i].size = tbase}
        front == {i \in DOMAIN m.seg : m.seg[i].base = tbase + tsize}
        low == [m EXCEPT !.least_addr = IF @ = 0 \/ tbase < @ THEN tbase ELSE @]
    IN  CASE m.top = NULL ->
                split_top(init_top([low EXCEPT !.seg = <<[base |-> tbase, size |-> tsize]>>],
                                   tbase, tsize - TOP_FOOT_SIZE), nb)
          [] \E i \in behind : segment_holds(m.seg[i], m.top) ->
                split_top(init_top([m EXCEPT !.seg[Min(behind)].size = @ + tsize],
                                   m.top, m.topsize + tsize), nb)
          [] OTHER ->
                IF front # {}
                THEN prepend_alloc([low EXCEPT !.seg[Min(front)] = [base |-> tbase, size |-> tsize + @.size]],
                                   tbase, tbase + tsize, nb)
                ELSE split_top(add_segment(low, tbase, tsize), nb)

\* morecore returns its region with the bytes it asked for to align it.
sys_alloc(m, nb) ==
    LET asize == granularity_align(nb + SYS_ALLOC_PADDING)
        ssize == asize + MALLOC_ALIGNMENT
    IN  {Result(m, NULL)} \cup
        IF asize > nb /\ asize <= MAX_SIZE_T \div 2 /\ ssize > nb + TOP_FOOT_SIZE
        THEN {extend(m, b, ssize, nb) : b \in Given(m, ssize)} ELSE {}

------------------------------------------------------------------------------
(* dlmalloc.                                                                   *)

\* The chunk v is cut down to what is asked for unless the rest would be too small.
split_large(m, v, nb, keep(_, _, _)) ==
    LET rsize == chunksize(m, v) - nb
        n == unlink_large_chunk(m, v)
    IN  Result(IF rsize < MIN_CHUNK_SIZE THEN set_inuse_and_pinuse(n, v, rsize + nb)
               ELSE keep(set_size_and_pinuse_of_free_chunk(set_size_and_pinuse_of_inuse_chunk(n, v, nb),
                                                           v + nb, rsize), v + nb, rsize),
               v)

Smallest(m, chunks) == CHOOSE p \in chunks : \A q \in chunks : chunksize(m, p) <= chunksize(m, q)

FirstOf(tree, nodes) == {tree[t][1] : t \in nodes}

\* The way down for nb and the least subtree with larger sizes, or else the first tree with
\* larger sizes.
large_fits(m, nb) ==
    LET i == compute_tree_index(nb)
        tree == m.treebins[i]
        way == OnTheWay(tree, i, nb)
        rights == {t \in way : t \o <<1>> \in DOMAIN tree /\ t \o <<1>> \notin way}
        rst == CHOOSE t \in rights : \A u \in rights : Len(u) <= Len(t)
        here == FirstOf(tree, way) \cup IF rights = {} THEN {} ELSE FirstOf(tree, LeftSpine(tree, rst \o <<1>>))
        next == {j \in m.treemap : j > i}
        fits == {p \in here : chunksize(m, p) >= nb}
    IN  IF fits # {} \/ rights # {} \/ next = {} THEN fits
        ELSE FirstOf(m.treebins[Min(next)], LeftSpine(m.treebins[Min(next)], <<>>))

\* NULL when dv is a better fit, which an empty dv is not.
tmalloc_large(m, nb) ==
    LET fits == large_fits(m, nb)
        v == Smallest(m, fits)
    IN  IF fits = {} \/ chunksize(m, v) - nb >= Minus(m.dvsize, nb)
        THEN Result(m, NULL) ELSE split_large(m, v, nb, insert_chunk)

tmalloc_small(m, nb) ==
    LET tree == m.treebins[Min(m.treemap)] IN
    split_large(m, Smallest(m, FirstOf(tree, LeftSpine(tree, <<>>))), nb, replace_dv)

\* Mutant of split_dv: all of dv is given away.
exhaust_dv(m, nb) ==
    Result(set_inuse_and_pinuse([m EXCEPT !.dv = NULL, !.dvsize = 0], m.dv, m.dvsize), m.dv)

split_dv(m, nb) ==
    LET p == m.dv
        r == p + nb
        rsize == m.dvsize - nb
    IN  Result(IF rsize >= MIN_CHUNK_SIZE
               THEN set_size_and_pinuse_of_inuse_chunk(set_size_and_pinuse_of_free_chunk(
                        [m EXCEPT !.dv = r, !.dvsize = rsize], r, rsize), p, nb)
               ELSE set_inuse_and_pinuse([m EXCEPT !.dv = NULL, !.dvsize = 0], p, m.dvsize),
               p)

\* A chunk of a smallbin, as a whole or split.
use_smallbin(m, i) ==
    LET p == Head(m.smallbins[i]) IN Result(set_inuse_and_pinuse(unlink_first_small_chunk(m, i), p, i), p)

split_smallbin(m, i, nb) ==
    LET p == Head(m.smallbins[i])
        n == set_size_and_pinuse_of_inuse_chunk(unlink_first_small_chunk(m, i), p, nb)
    IN  Result(replace_dv(set_size_and_pinuse_of_free_chunk(n, p + nb, i - nb), p + nb, i - nb), p)

\* Mutant of from_the_rest: a dv that fits exactly is not used.
from_the_rest_strictly(m, nb) ==
    IF nb < m.dvsize THEN {split_dv(m, nb)}
    ELSE IF nb < m.topsize THEN {split_top(m, nb)}
    ELSE sys_alloc(m, nb)

\* dv, top and the system are next when no bin serves.
from_the_rest(m, nb) ==
    IF nb <= m.dvsize THEN {split_dv(m, nb)}
    ELSE IF nb < m.topsize THEN {split_top(m, nb)}
    ELSE sys_alloc(m, nb)

dlmalloc(m, nb) ==
    LET exact == m.smallmap \cap {nb, nb + 1}
        larger == {i \in m.smallmap : i > nb}
        large == tmalloc_large(m, nb)
    IN  IF is_small(nb)
        THEN CASE exact # {} -> {use_smallbin(m, Min(exact))}
               [] exact = {} /\ nb > m.dvsize /\ larger # {} -> {split_smallbin(m, Min(larger), nb)}
               [] exact = {} /\ nb > m.dvsize /\ larger = {} /\ m.treemap # {} -> {tmalloc_small(m, nb)}
               [] OTHER -> from_the_rest(m, nb)
        ELSE IF nb # MAX_SIZE_T /\ m.treemap # {} /\ large.p # NULL THEN {large}
        ELSE from_the_rest(m, nb)

------------------------------------------------------------------------------
(* dlfree and dlrealloc.                                                       *)

\* The chunk becomes free and joins next when that is free, too.
consolidate_forward(m, p, psize, next) ==
    LET nsize == chunksize(m, next)
        merged == set_size_and_pinuse_of_free_chunk(unlink_chunk(m, next, nsize), p, psize + nsize)
    IN  CASE m.mem[next].cin ->
                LET n == set_free_with_pinuse(m, p, psize, next) IN
                IF p = m.dv THEN [n EXCEPT !.dvsize = psize] ELSE insert_chunk(n, p, psize)
          [] next = m.top ->
                [set_top(m, p, m.topsize + psize) EXCEPT !.dv = IF p = @ THEN NULL ELSE @,
                                                         !.dvsize = IF p = m.dv THEN 0 ELSE @]
          [] next = m.dv ->
                set_size_and_pinuse_of_free_chunk([m EXCEPT !.dv = p, !.dvsize = @ + psize],
                                                  p, m.dvsize + psize)
          [] OTHER ->
                IF p = m.dv THEN [merged EXCEPT !.dvsize = psize + nsize]
                ELSE insert_chunk(merged, p, psize + nsize)

\* A chunk that is marked in use becomes free and joins its free neighbours.
dispose_chunk(m, p, psize) ==
    LET next == p + psize
        prevsize == m.mem[p].foot
        prev == p - prevsize
    IN  IF m.mem[p].pin THEN consolidate_forward(m, p, psize, next)
        ELSE consolidate_forward(IF prev = m.dv THEN m ELSE unlink_chunk(m, prev, prevsize),
                                 prev, psize + prevsize, next)

dlfree(m, p) == dispose_chunk(m, p, chunksize(m, p))

\* The end of a chunk in use is split off and disposed of.
split_off(m, p, nb, rsize) ==
    LET r == p + nb IN dispose_chunk(set_inuse(set_inuse(m, p, nb), r, rsize), r, rsize)

\* The chunk in place, or NULL.
try_realloc_chunk(m, p, nb) ==
    LET oldsize == chunksize(m, p)
        next == next_chunk(m, p)
        nextsize == chunksize(m, next)
        rsize == oldsize + nextsize - nb
        r == p + nb
        n == unlink_chunk(m, next, nextsize)
        fail == Result(m, NULL)
    IN  CASE oldsize >= nb ->
                Result(IF oldsize - nb >= MIN_CHUNK_SIZE THEN split_off(m, p, nb, oldsize - nb) ELSE m, p)
          [] oldsize < nb /\ next = m.top ->
                IF oldsize + m.topsize > nb
                THEN Result(set_top(set_inuse(m, p, nb), r, oldsize + m.topsize - nb), p) ELSE fail
          [] oldsize < nb /\ next = m.dv ->
                IF rsize >= MIN_CHUNK_SIZE
                THEN Result(set_size_and_pinuse_of_free_chunk(
                        set_inuse([m EXCEPT !.dv = r, !.dvsize = rsize], p, nb), r, rsize), p)
                ELSE IF rsize >= 0
                THEN Result(set_inuse([m EXCEPT !.dv = NULL, !.dvsize = 0], p, oldsize + nextsize), p)
                ELSE fail
          [] oldsize < nb /\ next \notin {m.top, m.dv} /\ ~m.mem[next].cin ->
                IF rsize >= MIN_CHUNK_SIZE THEN Result(split_off(n, p, nb, rsize), p)
                ELSE IF rsize >= 0 THEN Result(set_inuse(n, p, oldsize + nextsize), p)
                ELSE fail
          [] OTHER -> fail

\* Mutant of dlrealloc: the old block is freed when there is no new one, too.
dlrealloc_frees_anyway(m, p, nb) ==
    LET try == try_realloc_chunk(m, p, nb) IN
    IF nb = MAX_SIZE_T THEN {Result(m, NULL)}
    ELSE IF try.p # NULL THEN {try}
    ELSE {Result(dlfree(new.m, p), new.p) : new \in dlmalloc(m, nb)}

dlrealloc(m, p, nb) ==
    LET try == try_realloc_chunk(m, p, nb) IN
    IF nb = MAX_SIZE_T THEN {Result(m, NULL)}
    ELSE IF try.p # NULL THEN {try}
    ELSE {IF new.p = NULL THEN new ELSE Result(dlfree(new.m, p), new.p) : new \in dlmalloc(m, nb)}

------------------------------------------------------------------------------
(* The program.                                                                *)

\* What is recorded of a chunk that is given out although it is in use.
Twice == 0

Malloc(nb) ==
    /\ Cardinality(DOMAIN live) < MaxLive
    /\ \E res \in dlmalloc(gm, nb) :
        /\ gm' = res.m
        /\ live' = IF res.p = NULL THEN live
                   ELSE With(live, res.p, IF res.p \in DOMAIN live THEN Twice ELSE nb)
        /\ refused' = IF res.p = NULL THEN nb ELSE 0

Free(p) ==
    /\ gm' = dlfree(gm, p)
    /\ live' = Restrict(live, DOMAIN live \ {p})
    /\ refused' = 0

\* When there is no memory the block stays what it was.
Realloc(p, nb) == \E res \in dlrealloc(gm, p, nb) :
    /\ gm' = res.m
    /\ live' = IF res.p = NULL THEN live ELSE With(Restrict(live, DOMAIN live \ {p}), res.p, nb)
    /\ refused' = IF res.p = NULL THEN nb ELSE 0

Next ==
    \/ \E nb \in Requests : Malloc(nb)
    \/ \E p \in DOMAIN live : Free(p) \/ \E nb \in Requests : Realloc(p, nb)

Spec == Init /\ [][Next]_vars

------------------------------------------------------------------------------
(* Properties.                                                                 *)

Fences == {p \in DOMAIN gm.mem : gm.mem[p] = FENCEPOST}

\* The chunks that traverse_and_check meets: not top and its foot, nor the fenceposts.
Chunks == DOMAIN gm.mem \ (Fences \cup {gm.top, gm.top + gm.topsize})
FreeChunks == {p \in Chunks : ~is_inuse(gm, p)}

\* do_check_smallbin, do_check_tree and bin_find: a bin holds free chunks of its sizes, a
\* tree sorts them by the bits of their size, and a marked bin is not empty.
BinsAreSorted ==
    /\ gm.smallmap \subseteq MIN_CHUNK_SIZE..Pow2[TREEBIN_SHIFT] - 1 /\ gm.treemap \subseteq 0..NTREEBINS - 1
    /\ \A i \in DOMAIN gm.smallbins :
        /\ gm.smallbins[i] # <<>> <=> i \in gm.smallmap
        /\ \A p \in Range(gm.smallbins[i]) : p \in FreeChunks /\ chunksize(gm, p) = i
    /\ \A i \in DOMAIN gm.treebins : LET tree == gm.treebins[i] IN
        /\ tree # <<>> <=> i \in gm.treemap
        /\ \A t \in DOMAIN tree : LET s == NodeSize(gm, tree, t) IN
            /\ Range(tree[t]) \subseteq FreeChunks
            /\ \A p \in Range(tree[t]) : chunksize(gm, p) = s
            /\ s >= minsize_for_tree_index(i) /\ (i < NTREEBINS - 1 => s < minsize_for_tree_index(i + 1))
            /\ t = Down(i, s, Len(t))
            /\ t # <<>> => Front(t) \in DOMAIN tree
            /\ {t \o <<0>>, t \o <<1>>} \subseteq DOMAIN tree =>
                NodeSize(gm, tree, t \o <<0>>) < NodeSize(gm, tree, t \o <<1>>)

Binned == UNION ({Range(gm.smallbins[i]) : i \in DOMAIN gm.smallbins} \cup
                 {UNION {Range(tree[t]) : t \in DOMAIN tree} : tree \in Range(gm.treebins)})

\* do_check_any_chunk, do_check_free_chunk, do_check_inuse_chunk and do_check_top_chunk of
\* every chunk, in use or not, as traverse_and_check meets them from one end of a segment
\* to the other: the sizes, the bits and the feet of neighbours agree, no two free chunks
\* are neighbours, and a free one is dv or in a bin.
ChunksTileSegments ==
    /\ \A s \in Range(gm.seg) : s.base \in DOMAIN gm.mem /\ gm.mem[s.base].pin
    /\ \A p \in Chunks : LET n == next_chunk(gm, p) IN
        /\ p >= gm.least_addr
        /\ \E s \in Range(gm.seg) : segment_holds(s, p) /\ segment_holds(s, n)
        /\ n \in DOMAIN gm.mem /\ DOMAIN gm.mem \cap p + 1..n - 1 = {}
        /\ gm.mem[n].pin = is_inuse(gm, p)
        /\ ~is_inuse(gm, p) =>
            /\ gm.mem[n].foot = chunksize(gm, p) /\ chunksize(gm, p) >= MIN_CHUNK_SIZE
            /\ is_inuse(gm, n) /\ n # gm.top
    /\ FreeChunks = Binned \cup ({gm.dv} \ {NULL}) /\ gm.dv \notin Binned
    /\ gm.dvsize = IF gm.dv = NULL THEN 0 ELSE chunksize(gm, gm.dv)
    /\ gm.top # NULL => \E s \in Range(gm.seg) :
        /\ gm.topsize > 0 /\ gm.topsize = s.base + s.size - gm.top - TOP_FOOT_SIZE
        /\ segment_holds(s, gm.top) /\ gm.mem[gm.top].pin /\ chunksize(gm, gm.top) = gm.topsize

\* Chunks in use are the program's blocks, which are as large as was asked for and hardly
\* larger (do_check_malloced_chunk), and the records of the older segments: nothing leaks.
InUseIsLive ==
    /\ Chunks \ FreeChunks = DOMAIN live \cup {f - SEGMENT_SIZE : f \in Fences}
    /\ Cardinality(Fences) = IF gm.seg = <<>> THEN 0 ELSE Len(gm.seg) - 1
    /\ \A p \in DOMAIN live : chunksize(gm, p) \in live[p]..live[p] + MIN_CHUNK_SIZE - 1

\* NULL is returned only when no free chunk is large enough, nor top.
RefusedWhenFull == refused # 0 =>
    gm.topsize <= refused /\ \A p \in FreeChunks : chunksize(gm, p) < refused

\* A large request gets the smallest free chunk that is large enough: the search of the
\* trees finds it, dv is taken only when it fits better, and top and the system wait.
BestFit == [][\A p \in DOMAIN live' :
    DOMAIN live' = DOMAIN live \cup {p} /\ p \notin DOMAIN live /\ ~is_small(live'[p]) =>
        LET fits == {q \in FreeChunks : chunksize(gm, q) >= live'[p] /\ (is_small(chunksize(gm, q)) => q = gm.dv)}
        IN  fits # {} => p \in fits /\ \A q \in fits : chunksize(gm, p) <= chunksize(gm, q)]_vars

InUse(p) == p \in DOMAIN gm.mem /\ is_inuse(gm, p)

\* Blocks never overlap, and nothing but realloc or free of a block moves or resizes it.
H == INSTANCE Heap WITH blocks <- [p \in DOMAIN live |-> IF InUse(p) THEN chunksize(gm, p) ELSE 0]
HeapPromise == H!Spec
================================================================================
