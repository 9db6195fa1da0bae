----------------------------- MODULE DlMallocProofs ----------------------------
(* Proofs about the heap, for any bins, width of size_t, granularity, places  *)
(* of memory and requests.                                                    *)
(* The invariant is IInv.  Its heart is Whole: the memory is Laid, dv is a    *)
(* free chunk of its size, and the bins have Kept all that is free but top    *)
(* and dv. DlMallocLemmas says what the operators do to the bins and to the   *)
(* memory; here are the operations, each of which takes chunks out of the     *)
(* bins, changes a stretch of the memory and puts what is free back (Ready,   *)
(* Area, Returns, Gives), and the theorems.                                   *)
EXTENDS DlMallocLemmas

------------------------------------------------------------------------------
(* dlmalloc: a chunk of the bins, dv or top is used.                          *)

\* The memory n is memory m with one more chunk in use, p, of size s or a little more.
Gives(m, n, p, s) ==
    /\ p # NULL /\ p \notin Used(m.mem) /\ Used(n.mem) = Used(m.mem) \cup {p}
    /\ \A q \in Used(m.mem) : n.mem[q].size = m.mem[q].size
    /\ n.mem[p].size \in s..s + 1

\* The other chunks in use stay.
LEMMA UsedStays ==
    ASSUME NEW m, Laid(m), NEW n, NEW I, NEW F, NEW U, Turned(m, n, I, F, U), I \cap Used(m.mem) = {}
    PROVE  Used(n.mem) = Used(m.mem) \cup U /\ \A q \in Used(m.mem) : n.mem[q].size = m.mem[q].size
<1>1. Used(n.mem) = Used(m.mem) \cup U
  BY DEF Turned
<1>2. ASSUME NEW q \in Used(m.mem) PROVE n.mem[q].size = m.mem[q].size
  <2>1. q \in DOMAIN m.mem \ I
    BY DEF Used
  <2> QED BY <2>1 DEF Turned
<1> QED BY <1>1, <1>2

\* dv stays when it is not touched.
LEMMA DvStays ==
    ASSUME NEW m, DvIs(m), NEW n, NEW I, NEW F, NEW U, Turned(m, n, I, F, U), n.dv = m.dv,
           n.dvsize = m.dvsize,
           m.dv \notin I, n.top = m.top \/ n.top \in F \cup U
    PROVE  DvIs(n)
<1>1. CASE m.dv = NULL
  BY <1>1 DEF DvIs
<1>2. CASE m.dv # NULL
  <2>1. /\ m.dv \in Frees(m.mem, Foot(m)) \ {m.top} /\ m.dvsize = m.mem[m.dv].size
        /\ m.dv \in DOMAIN m.mem \ I
    BY <1>2 DEF DvIs, Frees
  <2>2. m.dv \in Frees(n.mem, Foot(n)) /\ n.mem[m.dv].size = m.mem[m.dv].size /\ m.dv \notin F \cup U
    BY <2>1 DEF Turned
  <2> QED BY <2>1, <2>2, <1>2 DEF DvIs
<1> QED BY <1>1, <1>2

\* p is a free chunk of size s that reaches to hi.
Lone(m, p, s, hi) ==
    /\ Area(m, p, hi, {p}) /\ Spot(m.mem, Foot(m), p, hi) /\ {p} \cap Used(m.mem) = {}
    /\ p \in Nat /\ s \in Nat /\ hi \in Nat /\ s <= MAX_SIZE_T /\ p # NULL /\ s > 0
    /\ p # m.top => /\ Differ(hi, Foot(m)) /\ Wide(p, hi) /\ m.mem[hi].cin /\ ~m.mem[hi].pin
                    /\ s >= MIN_CHUNK_SIZE
    /\ m.mem[p].pin /\ Spans(p, s, hi) /\ (hi = Foot(m) <=> p = m.top)

\* What the proofs about one free chunk need.
LEMMA FreeLone ==
    ASSUME NEW m, Laid(m), NEW p \in Frees(m.mem, Foot(m)), NEW s, s = m.mem[p].size, NEW hi, hi = p + s
    PROVE  Lone(m, p, s, hi)
<1>1. /\ p \in DOMAIN m.mem \ {Foot(m)} /\ p \notin Fenced(m.mem) /\ p \notin Records(m.mem)
      /\ m.mem[p].pin /\ p \notin Used(m.mem)
      /\ hi # Foot(m) => m.mem[hi].cin /\ ~m.mem[hi].pin
      /\ hi = Foot(m) <=> p = m.top
  BY FreeIs
<1>2. Area(m, p, hi, {p})
  BY <1>1, ChunkArea
<1>3. Foot(m) \in Nat /\ Tiled(m.mem, Foot(m)) /\ p \in Nat /\ s \in Nat
  BY <1>1, LaidIs
<1>4. Spot(m.mem, Foot(m), p, hi)
  <2>1. Region(m.mem, Foot(m), p, hi)
    BY <1>2 DEF Area
  <2> QED BY <1>3, <2>1, SpotIs
<1>5. hi \in Nat /\ p # NULL /\ s > 0 /\ s <= MAX_SIZE_T /\ Spans(p, s, hi) /\ MAX_SIZE_T \in Nat
  BY <1>2, <1>3, SmallIs DEF Area, Spans, NULL
<1>6. hi # Foot(m) => s >= MIN_CHUNK_SIZE
  BY <1>1, ChunkIs
<1>7. p # m.top => Wide(p, hi) /\ s >= MIN_CHUNK_SIZE
  BY <1>1, <1>3, <1>5, <1>6 DEF Wide, MIN_CHUNK_SIZE
<1> QED BY <1>1, <1>2, <1>3, <1>4, <1>5, <1>7 DEF Differ, Lone

\* It is an area.
LEMMA FreeArea ==
    ASSUME NEW m, Laid(m), NEW p \in Frees(m.mem, Foot(m)), NEW s, s = m.mem[p].size, NEW hi, hi = p + s
    PROVE  /\ Area(m, p, hi, {p}) /\ Spot(m.mem, Foot(m), p, hi) /\ {p} \cap Used(m.mem) = {}
           /\ p \in Nat /\ s \in Nat /\ hi \in Nat /\ s <= MAX_SIZE_T /\ p # NULL /\ s > 0
           /\ p # m.top => /\ Differ(hi, Foot(m)) /\ Wide(p, hi) /\ m.mem[hi].cin /\ ~m.mem[hi].pin
                           /\ s >= MIN_CHUNK_SIZE
           /\ m.mem[p].pin /\ Spans(p, s, hi) /\ (hi = Foot(m) <=> p = m.top)
<1>1. Lone(m, p, s, hi)
  BY FreeLone
<1> QED BY <1>1 DEF Lone

\* The next state of a heap that is sound.
LEMMA GoesOn ==
    ASSUME NEW m, Laid(m), NEW r, SameButMem(m, r), NEW hi, Differ(hi, Foot(m)), NEW t
    PROVE  Goes(m, r, hi, t) /\ SameBins(m, r)
BY LaidIs DEF Goes, SameButMem, SameBins, Foot, Differ

\* The lemmas that follow are about a heap in which v is in no bin.
OffBins(m, X, v) == DOMAIN m = Fields /\ Laid(m) /\ DvIs(m) /\ Kept(m, X, {v}) /\ v \in Bare(m, {})

\* All of it is used.
LEMMA UsedAsAWhole ==
    ASSUME NEW m, NEW X, NEW v, OffBins(m, X, v)
    PROVE  LET s == m.mem[v].size
               r == set_inuse_and_pinuse(m, v, s)
           IN  Whole(r, X) /\ \A nb : nb \in Nat /\ s \in nb..nb + 1 => Gives(m, r, v, nb)
<1> DEFINE s == m.mem[v].size
           hi == v + s
           r == set_inuse_and_pinuse(m, v, s)
<1>1. /\ DOMAIN m = Fields /\ Laid(m) /\ DvIs(m) /\ Kept(m, X, {v}) /\ v \in Frees(m.mem, Foot(m))
      /\ v # m.top /\ v # m.dv
  BY DEF OffBins, Bare
<1>2. /\ Area(m, v, hi, {v}) /\ Spot(m.mem, Foot(m), v, hi) /\ {v} \cap Used(m.mem) = {}
      /\ v \in Nat /\ s \in Nat /\ v # NULL
      /\ Differ(hi, Foot(m)) /\ Wide(v, hi)
      /\ m.mem[v].pin /\ Spans(v, s, hi)
  <2>1. s = m.mem[v].size /\ hi = v + s
    OBVIOUS
  <2> HIDE DEF hi, s
  <2> QED BY <1>1, <2>1, FreeArea
<1> HIDE DEF hi
<1>3. SameButMem(m, r) /\ AsOne(m.mem, r.mem, Foot(m), v, hi, TRUE)
  <2> HIDE DEF s
  <2> QED BY <1>1, <1>2, SetInuseAndPinuse
<1> HIDE DEF r
<1>4. Goes(m, r, hi, v) /\ SameBins(m, r)
  BY <1>1, <1>2, <1>3, GoesOn
<1>5. Laid(r) /\ r.mem[v].size = hi - v /\ Turned(m, r, {v}, {}, {v}) /\ Foot(r) = Foot(m)
  BY <1>1, <1>2, <1>3, <1>4, OneTurns
<1>6. r.top = m.top /\ r.dv = m.dv /\ r.dvsize = m.dvsize
  BY <1>3 DEF SameButMem
<1>7. DvIs(r)
  BY <1>1, <1>5, <1>6, DvStays
<1>8. Bare(r, {}) = Bare(m, {v})
  BY <1>5, <1>6 DEF Bare, Turned
<1>9. Kept(r, X, {})
  <2>1. Bare(m, {v}) \cap {v} = {}
    BY DEF Bare
  <2> QED BY <1>1, <1>4, <1>5, <1>8, <2>1, KeptTurns
<1>10. Used(r.mem) = Used(m.mem) \cup {v} /\ \A q \in Used(m.mem) : r.mem[q].size = m.mem[q].size
  BY <1>1, <1>2, <1>5, UsedStays
<1>11. r.mem[v].size = s
  BY <1>2, <1>5 DEF Spans
<1>12. v \notin Used(m.mem)
  BY <1>2
<1> QED BY <1>2, <1>5, <1>7, <1>9, <1>10, <1>11, <1>12 DEF Whole, Gives, r

\* Some of it is used and the rest, which is a chunk of its own, is in no bin.
LEMMA UsedInPart ==
    ASSUME NEW m, NEW X, NEW v, OffBins(m, X, v), NEW nb \in Nat, nb >= MIN_CHUNK_SIZE,
           NEW rsize \in Nat, rsize >= MIN_CHUNK_SIZE, m.mem[v].size = nb + rsize
    PROVE  LET w == v + nb
               r == set_size_and_pinuse_of_free_chunk(set_size_and_pinuse_of_inuse_chunk(m, v, nb), w, rsize)
           IN  /\ OffBins(r, X, w) /\ r.mem[w].size = rsize /\ Gives(m, r, v, nb)
               /\ rsize <= MAX_SIZE_T /\ w \in Nat /\ SameButMem(m, r)
<1> DEFINE s == m.mem[v].size
           hi == v + s
           w == v + nb
           r == set_size_and_pinuse_of_free_chunk(set_size_and_pinuse_of_inuse_chunk(m, v, nb), w, rsize)
<1>1. /\ DOMAIN m = Fields /\ Laid(m) /\ DvIs(m) /\ Kept(m, X, {v}) /\ v \in Frees(m.mem, Foot(m))
      /\ v # m.top /\ v # m.dv
  BY DEF OffBins, Bare
<1>2. /\ Area(m, v, hi, {v}) /\ Spot(m.mem, Foot(m), v, hi) /\ {v} \cap Used(m.mem) = {}
      /\ v \in Nat /\ s \in Nat /\ v # NULL /\ s <= MAX_SIZE_T
      /\ Differ(hi, Foot(m)) /\ m.mem[hi].cin /\ ~m.mem[hi].pin
      /\ m.mem[v].pin
  BY <1>1, FreeArea
<1>3. /\ w \in Nat /\ hi \in Nat /\ hi = w + rsize /\ hi - w = rsize /\ w - v = nb /\ v < w /\ w < hi
      /\ Parted(v, w, hi) /\ Spans(v, nb, w) /\ Spans(w, rsize, hi) /\ Wide(w, hi)
  BY <1>2 DEF Parted, Spans, Wide, MIN_CHUNK_SIZE
<1> HIDE DEF hi, w
<1>4. SameButMem(m, r) /\ AsTwo(m.mem, r.mem, Foot(m), v, w, hi, FALSE)
  BY <1>1, <1>2, <1>3, SetDivided
<1> HIDE DEF r
<1>5. Goes(m, r, hi, w) /\ SameBins(m, r)
  BY <1>1, <1>2, <1>4, GoesOn
<1>6. /\ Laid(r) /\ r.mem[v].size = w - v /\ r.mem[w].size = hi - w /\ Foot(r) = Foot(m)
      /\ Turned(m, r, {v}, {w}, {v}) /\ (w \in {v} \/ w \notin DOMAIN m.mem)
  <2>1. TurnsDivided(m, r, v, w, hi, {v})
    BY <1>1, <1>2, <1>4, <1>5, TwoDivided
  <2> QED BY <2>1 DEF TurnsDivided
<1>7. r.top = m.top /\ r.dv = m.dv /\ r.dvsize = m.dvsize /\ DOMAIN r = Fields
  BY <1>1, <1>4 DEF SameButMem
<1>8. DvIs(r)
  BY <1>1, <1>6, <1>7, DvStays
<1>9. w \notin DOMAIN m.mem
  BY <1>2, <1>3, <1>6
<1>10. w # m.top /\ w # m.dv
  <2>1. m.top \in DOMAIN m.mem
    BY <1>1, FreeIs DEF Laid, TopIs
  <2>2. m.dv # NULL => m.dv \in DOMAIN m.mem
    BY <1>1 DEF DvIs, Frees
  <2>3. w # 0
    BY <1>2, <1>3
  <2> QED BY <1>9, <2>1, <2>2, <2>3 DEF NULL
<1>11. Bare(r, {w}) = Bare(m, {v})
  <2>1. w \notin Frees(m.mem, Foot(m))
    BY <1>9 DEF Frees
  <2> QED BY <1>6, <1>7, <2>1 DEF Bare, Turned
<1>12. Kept(r, X, {w})
  <2>1. Bare(m, {v}) \cap {v} = {}
    BY DEF Bare
  <2> QED BY <1>1, <1>5, <1>6, <1>11, <2>1, KeptTurns
<1>13. w \in Bare(r, {})
  BY <1>6, <1>7, <1>10 DEF Bare, Turned
<1>14. Used(r.mem) = Used(m.mem) \cup {v} /\ \A q \in Used(m.mem) : r.mem[q].size = m.mem[q].size
  BY <1>1, <1>2, <1>6, UsedStays
<1>15. Gives(m, r, v, nb)
  <2>1. r.mem[v].size \in nb..nb + 1
    BY <1>3, <1>6
  <2> QED BY <1>2, <1>14, <2>1 DEF Gives
<1>16. rsize <= MAX_SIZE_T
  <2>1. rsize <= s /\ MAX_SIZE_T \in Nat
    BY SmallIs
  <2> QED BY <1>2, <2>1
<1> QED BY <1>3, <1>4, <1>6, <1>7, <1>8, <1>12, <1>13, <1>15, <1>16 DEF OffBins, r, w

\* A chunk that leaves the bins changes nothing else.
LEMMA LeavesBins ==
    ASSUME NEW m, NEW X, Whole(m, X), NEW v \in Bare(m, {}), NEW s, s = m.mem[v].size
    PROVE  LET n == unlink_chunk(m, v, s) IN
           OffBins(n, WithoutChunk(X, v), v) /\ SameButBins(m, n)
<1> DEFINE n == unlink_chunk(m, v, m.mem[v].size)
<1>1. Laid(m) /\ DvIs(m) /\ Kept(m, X, {})
  BY DEF Whole
<1>2. Kept(n, WithoutChunk(X, v), {} \cup {v}) /\ SameButBins(m, n)
  BY <1>1, KeptLeaves
<1> HIDE DEF n
<1>3. Kept(n, WithoutChunk(X, v), {v})
  <2>1. {} \cup {v} = {v}
    OBVIOUS
  <2> QED BY <1>2, <2>1
<1>4. /\ n.mem = m.mem /\ n.top = m.top /\ n.topsize = m.topsize /\ n.dv = m.dv /\ n.dvsize = m.dvsize
      /\ n.seg = m.seg /\ n.least_addr = m.least_addr
  BY <1>2 DEF SameButBins
<1>5. Laid(n) /\ Foot(n) = Foot(m)
  BY <1>1, <1>4, LaidStays
<1>6. DvIs(n) /\ v \in Bare(n, {})
  BY <1>1, <1>4, <1>5 DEF DvIs, Bare
<1>7. DOMAIN n = Fields
  BY <1>3 DEF Kept, Stored
<1> QED BY <1>2, <1>3, <1>5, <1>6, <1>7 DEF OffBins, n

\* A chunk that joins the bins changes nothing else.
LEMMA JoinsBins ==
    ASSUME NEW m, NEW X, NEW v, OffBins(m, X, v), NEW s, s = m.mem[v].size
    PROVE  LET n == insert_chunk(m, v, s) IN Whole(n, With(X, v, s)) /\ SameButBins(m, n)
<1> DEFINE n == insert_chunk(m, v, m.mem[v].size)
<1>1. /\ DOMAIN m = Fields /\ Laid(m) /\ DvIs(m) /\ Kept(m, X, {v}) /\ v \in Frees(m.mem, Foot(m))
      /\ v \notin {m.top, m.dv} /\ v \in {v}
  BY DEF OffBins, Bare
<1>2. v \in Nat /\ m.mem[v].size \in MIN_CHUNK_SIZE..MAX_SIZE_T
  <2>1. v \in Nat /\ s \in Nat /\ s <= MAX_SIZE_T /\ s >= MIN_CHUNK_SIZE
    BY <1>1, FreeArea
  <2> QED BY <2>1, SmallIs DEF MIN_CHUNK_SIZE
<1>3. Kept(n, With(X, v, m.mem[v].size), {v} \ {v}) /\ SameButBins(m, n)
  BY <1>1, <1>2, KeptJoins
<1> HIDE DEF n
<1>4. Kept(n, With(X, v, m.mem[v].size), {})
  <2>1. {v} \ {v} = {}
    OBVIOUS
  <2> QED BY <1>3, <2>1
<1>5. /\ n.mem = m.mem /\ n.top = m.top /\ n.topsize = m.topsize /\ n.dv = m.dv /\ n.dvsize = m.dvsize
      /\ n.seg = m.seg /\ n.least_addr = m.least_addr
  BY <1>3 DEF SameButBins
<1>6. Laid(n) /\ Foot(n) = Foot(m)
  BY <1>1, <1>5, LaidStays
<1>7. DvIs(n)
  BY <1>1, <1>5, <1>6 DEF DvIs
<1> QED BY <1>3, <1>4, <1>6, <1>7 DEF Whole, n

\* All but bins and dv is the same.
SameMemory(m, n) ==
    /\ n.mem = m.mem /\ n.top = m.top /\ n.topsize = m.topsize /\ n.least_addr = m.least_addr
    /\ n.seg = m.seg

\* The size of a free chunk.
LEMMA FreeSize ==
    ASSUME NEW m, Laid(m), NEW p \in Frees(m.mem, Foot(m)), NEW s, s = m.mem[p].size
    PROVE  /\ p \in Nat /\ p # NULL /\ s \in Nat /\ s > 0 /\ s <= MAX_SIZE_T
           /\ p # m.top => s >= MIN_CHUNK_SIZE
<1>1. PICK hi : hi = p + s
  OBVIOUS
<1>3. /\ Area(m, p, hi, {p}) /\ Spot(m.mem, Foot(m), p, hi)
      /\ p \in Nat /\ s \in Nat /\ s <= MAX_SIZE_T /\ p # NULL /\ s > 0
      /\ p # m.top => s >= MIN_CHUNK_SIZE
      /\ Spans(p, s, hi)
  BY <1>1, FreeArea
<1> QED BY <1>3

\* There is no dv when its size is 0.
LEMMA DvIsEmpty ==
    ASSUME NEW m, Laid(m), DvIs(m)
    PROVE  /\ m.dvsize = 0 <=> m.dv = NULL
           /\ m.dvsize \in Nat /\ m.dv \in Nat /\ m.dvsize <= MAX_SIZE_T
           /\ m.dv # NULL => m.dv \in Frees(m.mem, Foot(m)) /\ m.dv # m.top
              /\ m.dvsize = m.mem[m.dv].size /\ m.dvsize >= MIN_CHUNK_SIZE
<1>1. CASE m.dv = NULL
  BY <1>1, SmallIs DEF DvIs, NULL
<1>2. CASE m.dv # NULL
  <2>1. m.dv \in Frees(m.mem, Foot(m)) /\ m.dv # m.top /\ m.dvsize = m.mem[m.dv].size
    BY <1>2 DEF DvIs
  <2>2. /\ m.dv \in Nat /\ m.dvsize \in Nat /\ m.dvsize > 0 /\ m.dvsize <= MAX_SIZE_T
        /\ m.dvsize >= MIN_CHUNK_SIZE
    BY <2>1, FreeSize
  <2> QED BY <1>2, <2>1, <2>2
<1> QED BY <1>1, <1>2

\* replace_dv: what was dv goes to the bins and the chunk in no bin is dv.
LEMMA NewDv ==
    ASSUME NEW m, NEW X, NEW v, OffBins(m, X, v), NEW s, s = m.mem[v].size, is_small(m.dvsize)
    PROVE  LET r == replace_dv(m, v, s) IN (\E Y : Whole(r, Y)) /\ SameMemory(m, r)
<1> DEFINE n == IF m.dvsize # 0 THEN insert_small_chunk(m, m.dv, m.dvsize) ELSE m
           r == replace_dv(m, v, s)
           Z == IF m.dvsize # 0 THEN With(X, m.dv, m.dvsize) ELSE X
<1>1. /\ DOMAIN m = Fields /\ Laid(m) /\ DvIs(m) /\ Kept(m, X, {v}) /\ v \in Frees(m.mem, Foot(m))
      /\ v # m.top /\ v # m.dv
  BY DEF OffBins, Bare
<1>2. DOMAIN X = Bare(m, {v}) /\ Shown(m, X) /\ Stored(m, X)
  BY <1>1 DEF Kept, Bare
<1>3. /\ m.dvsize = 0 <=> m.dv = NULL
      /\ m.dvsize \in Nat /\ m.dv \in Nat /\ m.dvsize <= MAX_SIZE_T
      /\ m.dv # NULL => m.dv \in Frees(m.mem, Foot(m)) /\ m.dv # m.top /\ m.dvsize = m.mem[m.dv].size
         /\ m.dvsize >= MIN_CHUNK_SIZE
  BY <1>1, DvIsEmpty
<1>4. Stored(n, Z) /\ SameButBins(m, n)
  <2>1. CASE m.dvsize = 0
    BY <1>2, <2>1 DEF SameButBins
  <2>2. CASE m.dvsize # 0
    <3>1. m.dv \notin DOMAIN X
      BY <1>2 DEF Bare
    <3>2. m.dvsize \in MIN_CHUNK_SIZE..MAX_SIZE_T
      BY <1>3, <2>2, SmallIs DEF MIN_CHUNK_SIZE
    <3>3. insert_chunk(m, m.dv, m.dvsize) = insert_small_chunk(m, m.dv, m.dvsize)
      BY DEF insert_chunk
    <3>4. /\ Stored(insert_chunk(m, m.dv, m.dvsize), With(X, m.dv, m.dvsize))
          /\ SameButBins(m, insert_chunk(m, m.dv, m.dvsize))
      BY <1>2, <1>3, <3>1, <3>2, ChunkJoins
    <3> QED BY <2>2, <3>3, <3>4
  <2> QED BY <2>1, <2>2
<1>5. r = [n EXCEPT !.dv = v, !.dvsize = s]
  BY DEF replace_dv
<1> HIDE DEF n, r
<1>6. /\ DOMAIN n = Fields /\ n.mem = m.mem /\ n.top = m.top /\ n.topsize = m.topsize /\ n.seg = m.seg
      /\ n.least_addr = m.least_addr
  BY <1>1, <1>4 DEF SameButBins
<1>7. /\ SameBins(n, r) /\ r.mem = n.mem /\ r.top = n.top /\ r.topsize = n.topsize /\ r.seg = n.seg
      /\ r.least_addr = n.least_addr /\ r.dv = v /\ r.dvsize = s
  BY <1>5, <1>6 DEF SameBins, Fields
<1>8. Stored(r, Z)
  <2> HIDE DEF Z
  <2> QED BY <1>4, <1>7, StoredStays
<1>9. SameMemory(m, r) /\ Laid(r) /\ Foot(r) = Foot(m)
  <2>1. SameMemory(m, r)
    BY <1>6, <1>7 DEF SameMemory
  <2> QED BY <1>1, <2>1, LaidStays DEF SameMemory
<1>10. DvIs(r)
  <2>1. v # NULL
    BY <1>1, LaidIs DEF Frees, NULL
  <2> QED BY <1>1, <1>6, <1>7, <1>9, <2>1 DEF DvIs
<1>11. Kept(r, Z, {})
  <2>1. CASE m.dvsize = 0
    <3>1. m.dv \notin Frees(m.mem, Foot(m))
      <4>1. NULL \notin Frees(m.mem, Foot(m))
        BY <1>1, LaidIs DEF Frees, NULL
      <4> QED BY <1>3, <2>1, <4>1
    <3>2. DOMAIN Z = Bare(r, {})
      BY <1>2, <1>6, <1>7, <1>9, <2>1, <3>1 DEF Bare
    <3>3. Shown(r, Z)
      BY <1>2, <1>6, <1>7, <2>1 DEF Shown, chunksize
    <3> HIDE DEF Z
    <3> QED BY <1>8, <3>2, <3>3 DEF Kept, Bare
  <2>2. CASE m.dvsize # 0
    <3>1. DOMAIN Z = DOMAIN X \cup {m.dv} /\ \A q \in DOMAIN Z : Z[q] = IF q = m.dv THEN m.dvsize ELSE X[q]
      BY <2>2 DEF With
    <3>2. DOMAIN Z = Bare(r, {})
      BY <1>1, <1>2, <1>3, <1>6, <1>7, <1>9, <2>2, <3>1 DEF Bare
    <3>3. Shown(r, Z)
      BY <1>2, <1>3, <1>6, <1>7, <2>2, <3>1 DEF Shown, chunksize
    <3> HIDE DEF Z
    <3> QED BY <1>8, <3>2, <3>3 DEF Kept, Bare
  <2> QED BY <2>1, <2>2
<1> QED BY <1>9, <1>10, <1>11 DEF Whole, r

\* A chunk in use of memory that is the same.
LEMMA GivesStays ==
    ASSUME NEW m, NEW n, NEW p, NEW s, Gives(m, n, p, s), NEW m2, m2.mem = m.mem, NEW n2, n2.mem = n.mem
    PROVE  Gives(m2, n2, p, s)
BY DEF Gives

\* The first chunk of a smallbin has its size.
LEMMA FirstOfSmallbin ==
    ASSUME NEW m, NEW X, Whole(m, X), NEW i \in m.smallmap
    PROVE  LET p == Head(m.smallbins[i]) IN
           /\ p \in Bare(m, {}) /\ m.mem[p].size = i /\ i \in SmallBins
           /\ unlink_first_small_chunk(m, i) = unlink_chunk(m, p, i)
<1> DEFINE p == Head(m.smallbins[i])
<1>1. DOMAIN X = Bare(m, {}) /\ Shown(m, X) /\ Stored(m, X)
  BY DEF Whole, Kept, Bare
<1>2. /\ i \in SmallBins /\ Distinct(m.smallbins[i]) /\ Range(m.smallbins[i]) = OfSize(X, i)
      /\ m.smallbins[i] # <<>>
  BY <1>1 DEF Stored, SmallStored
<1>3. p \in OfSize(X, i)
  <2> DEFINE q == m.smallbins[i]
  <2>1. Len(q) \in Nat /\ DOMAIN q = 1..Len(q) /\ Head(q) = q[1] /\ Len(q) > 0
    <3>1. q \in Seq(Nat) /\ q # <<>>
      BY <1>2, DistinctIs
    <3> HIDE DEF q
    <3> QED BY <3>1
  <2> HIDE DEF q
  <2>2. q[1] \in Range(q)
    BY <2>1 DEF Range
  <2> QED BY <1>2, <2>1, <2>2 DEF q
<1>4. p \in DOMAIN X /\ X[p] = i
  BY <1>3 DEF OfSize
<1>5. m.mem[p].size = i
  BY <1>1, <1>4 DEF Shown, chunksize
<1>6. is_small(i)
  <2>1. i \in MIN_CHUNK_SIZE..MAX_SIZE_T
    BY <1>1, <1>4 DEF Stored
  <2> QED BY <1>2, <2>1, SmallIs
<1>7. unlink_first_small_chunk(m, i) = unlink_chunk(m, p, i)
  BY <1>6 DEF unlink_first_small_chunk, unlink_chunk
<1> QED BY <1>1, <1>2, <1>4, <1>5, <1>7

\* The first chunk of a smallbin of the right size is used.
LEMMA UseSmallbin ==
    ASSUME NEW m, NEW X, Whole(m, X), NEW i \in m.smallmap, NEW nb \in Nat, i \in nb..nb + 1
    PROVE  LET r == use_smallbin(m, i) IN (\E Y : Whole(r.m, Y)) /\ Gives(m, r.m, r.p, nb)
<1> DEFINE p == Head(m.smallbins[i])
           n == unlink_chunk(m, p, i)
           k == set_inuse_and_pinuse(n, p, i)
<1>1. /\ p \in Bare(m, {}) /\ m.mem[p].size = i
      /\ unlink_first_small_chunk(m, i) = n
  BY FirstOfSmallbin
<1>2. use_smallbin(m, i).m = k /\ use_smallbin(m, i).p = p
  BY <1>1 DEF use_smallbin, Result
<1> HIDE DEF p
<1>3. OffBins(n, WithoutChunk(X, p), p) /\ SameButBins(m, n)
  BY <1>1, LeavesBins
<1> HIDE DEF n
<1>4. n.mem = m.mem
  BY <1>3 DEF SameButBins
<1>5. Whole(k, WithoutChunk(X, p)) /\ Gives(n, k, p, nb)
  BY <1>1, <1>3, <1>4, UsedAsAWhole
<1> HIDE DEF k
<1>6. Gives(m, k, p, nb)
  BY <1>4, <1>5, GivesStays
<1> QED BY <1>2, <1>5, <1>6

\* The front of a chunk of a larger smallbin is used, and what is left of it becomes dv.
LEMMA SplitSmallbin ==
    ASSUME NEW m, NEW X, Whole(m, X), NEW i \in m.smallmap, NEW nb \in Nat, nb >= MIN_CHUNK_SIZE,
           i - nb >= MIN_CHUNK_SIZE, is_small(m.dvsize)
    PROVE  LET r == split_smallbin(m, i, nb) IN (\E Y : Whole(r.m, Y)) /\ Gives(m, r.m, r.p, nb)
<1> DEFINE p == Head(m.smallbins[i])
           n == unlink_chunk(m, p, i)
           rsize == i - nb
           w == p + nb
           k == set_size_and_pinuse_of_free_chunk(set_size_and_pinuse_of_inuse_chunk(n, p, nb), w, rsize)
           l == replace_dv(k, w, rsize)
<1>1. /\ p \in Bare(m, {}) /\ m.mem[p].size = i /\ i \in SmallBins
      /\ unlink_first_small_chunk(m, i) = n
  BY FirstOfSmallbin
<1>2. split_smallbin(m, i, nb).m = l /\ split_smallbin(m, i, nb).p = p
  BY <1>1 DEF split_smallbin, Result
<1> HIDE DEF p
<1>3. OffBins(n, WithoutChunk(X, p), p) /\ SameButBins(m, n)
  BY <1>1, LeavesBins
<1> HIDE DEF n
<1>4. n.mem = m.mem /\ n.dvsize = m.dvsize
  BY <1>3 DEF SameButBins
<1>5. i \in Nat /\ rsize \in Nat /\ rsize >= MIN_CHUNK_SIZE /\ i = nb + rsize
  <2>1. i \in Nat
    BY <1>1, SmallIs
  <2> QED BY <2>1 DEF MIN_CHUNK_SIZE
<1>6. n.mem[p].size = nb + rsize
  BY <1>1, <1>4, <1>5
<1> HIDE DEF rsize
<1>7. /\ OffBins(k, WithoutChunk(X, p), w) /\ k.mem[w].size = rsize /\ Gives(n, k, p, nb)
      /\ SameButMem(n, k)
  BY <1>3, <1>5, <1>6, UsedInPart
<1> HIDE DEF k
<1>8. is_small(k.dvsize)
  BY <1>4, <1>7 DEF SameButMem
<1>9. (\E Y : Whole(l, Y)) /\ SameMemory(k, l)
  <2> HIDE DEF w
  <2> QED BY <1>7, <1>8, NewDv
<1> HIDE DEF l
<1>10. Gives(m, l, p, nb)
  BY <1>4, <1>7, <1>9, GivesStays DEF SameMemory
<1> QED BY <1>2, <1>9, <1>10

\* A large chunk of a tree is used, and what is left of it goes back to the bins.
LEMMA SplitLargeBinned ==
    ASSUME NEW m, NEW X, Whole(m, X), NEW v \in DOMAIN X, Large(X[v]), NEW nb \in Nat,
           nb >= MIN_CHUNK_SIZE, nb <= X[v]
    PROVE  LET r == split_large(m, v, nb, insert_chunk) IN
           (\E Y : Whole(r.m, Y)) /\ Gives(m, r.m, r.p, nb) /\ r.p = v
<1> DEFINE s == m.mem[v].size
           n == unlink_large_chunk(m, v)
           rsize == s - nb
           w == v + nb
           a == set_inuse_and_pinuse(n, v, s)
           b == set_size_and_pinuse_of_free_chunk(set_size_and_pinuse_of_inuse_chunk(n, v, nb), w, rsize)
           c == insert_chunk(b, w, rsize)
           r == split_large(m, v, nb, insert_chunk)
<1>1. v \in Bare(m, {}) /\ s = X[v] /\ s \in Nat /\ s <= MAX_SIZE_T /\ ~is_small(s)
  <2>1. v \in Bare(m, {}) /\ s = X[v] /\ X[v] \in MIN_CHUNK_SIZE..MAX_SIZE_T
    BY DEF Whole, Kept, Bare, Shown, Stored, chunksize
  <2> QED BY <2>1, SmallIs DEF MIN_CHUNK_SIZE
<1>2. n = unlink_chunk(m, v, s)
  BY <1>1 DEF unlink_chunk
<1>3. rsize \in Nat /\ s = nb + rsize
  BY <1>1
<1>4. /\ r.p = v
      /\ rsize < MIN_CHUNK_SIZE => r.m = set_inuse_and_pinuse(n, v, rsize + nb)
      /\ ~(rsize < MIN_CHUNK_SIZE) => r.m = c
  BY DEF split_large, Result, chunksize
<1> HIDE DEF r
<1>5. OffBins(n, WithoutChunk(X, v), v) /\ SameButBins(m, n)
  BY <1>1, <1>2, LeavesBins
<1> HIDE DEF n
<1>6. n.mem = m.mem /\ n.mem[v].size = s
  BY <1>5 DEF SameButBins
<1>7. CASE rsize < MIN_CHUNK_SIZE
  <2>1. r.m = a /\ s \in nb..nb + 1
    BY <1>3, <1>4, <1>7 DEF MIN_CHUNK_SIZE
  <2>2. Whole(a, WithoutChunk(X, v)) /\ Gives(n, a, v, nb)
    <3> HIDE DEF s, a
    <3>1. set_inuse_and_pinuse(n, v, n.mem[v].size) = a
      BY <1>6 DEF a
    <3> QED BY <1>5, <1>6, <2>1, <3>1, UsedAsAWhole
  <2> HIDE DEF a
  <2>3. Gives(m, a, v, nb)
    BY <1>6, <2>2, GivesStays
  <2> QED BY <1>4, <2>1, <2>2, <2>3 DEF r
<1>8. CASE ~(rsize < MIN_CHUNK_SIZE)
  <2>1. rsize >= MIN_CHUNK_SIZE /\ n.mem[v].size = nb + rsize
    BY <1>3, <1>6, <1>8 DEF MIN_CHUNK_SIZE
  <2>2. r.m = c
    BY <1>4, <1>8
  <2>3. rsize \in Nat
    BY <1>3
  <2> HIDE DEF s, rsize
  <2>4. OffBins(b, WithoutChunk(X, v), w) /\ b.mem[w].size = rsize /\ Gives(n, b, v, nb)
    BY <1>5, <2>1, <2>3, UsedInPart
  <2> HIDE DEF b, w
  <2>5. Whole(c, With(WithoutChunk(X, v), w, rsize)) /\ SameButBins(b, c)
    BY <2>4, JoinsBins
  <2> HIDE DEF c
  <2>6. Gives(m, c, v, nb)
    BY <1>6, <2>4, <2>5, GivesStays DEF SameButBins
  <2> QED BY <1>4, <2>2, <2>5, <2>6 DEF r
<1> QED BY <1>7, <1>8 DEF r

\* A large chunk of a tree is used, and what is left of it becomes dv.
LEMMA SplitLargeToDv ==
    ASSUME NEW m, NEW X, Whole(m, X), NEW v \in DOMAIN X, Large(X[v]), NEW nb \in Nat,
           nb >= MIN_CHUNK_SIZE, nb <= X[v],
           is_small(m.dvsize)
    PROVE  LET r == split_large(m, v, nb, replace_dv) IN
           (\E Y : Whole(r.m, Y)) /\ Gives(m, r.m, r.p, nb) /\ r.p = v
<1> DEFINE s == m.mem[v].size
           n == unlink_large_chunk(m, v)
           rsize == s - nb
           w == v + nb
           a == set_inuse_and_pinuse(n, v, s)
           b == set_size_and_pinuse_of_free_chunk(set_size_and_pinuse_of_inuse_chunk(n, v, nb), w, rsize)
           c == replace_dv(b, w, rsize)
           r == split_large(m, v, nb, replace_dv)
<1>1. v \in Bare(m, {}) /\ s = X[v] /\ s \in Nat /\ s <= MAX_SIZE_T /\ ~is_small(s)
  <2>1. v \in Bare(m, {}) /\ s = X[v] /\ X[v] \in MIN_CHUNK_SIZE..MAX_SIZE_T
    BY DEF Whole, Kept, Bare, Shown, Stored, chunksize
  <2> QED BY <2>1, SmallIs DEF MIN_CHUNK_SIZE
<1>2. n = unlink_chunk(m, v, s)
  BY <1>1 DEF unlink_chunk
<1>3. rsize \in Nat /\ s = nb + rsize
  BY <1>1
<1>4. /\ r.p = v
      /\ rsize < MIN_CHUNK_SIZE => r.m = set_inuse_and_pinuse(n, v, rsize + nb)
      /\ ~(rsize < MIN_CHUNK_SIZE) => r.m = c
  BY DEF split_large, Result, chunksize
<1> HIDE DEF r
<1>5. OffBins(n, WithoutChunk(X, v), v) /\ SameButBins(m, n)
  BY <1>1, <1>2, LeavesBins
<1> HIDE DEF n
<1>6. n.mem = m.mem /\ n.mem[v].size = s /\ n.dvsize = m.dvsize
  BY <1>5 DEF SameButBins
<1>7. CASE rsize < MIN_CHUNK_SIZE
  <2>1. r.m = a /\ s \in nb..nb + 1
    BY <1>3, <1>4, <1>7 DEF MIN_CHUNK_SIZE
  <2>2. Whole(a, WithoutChunk(X, v)) /\ Gives(n, a, v, nb)
    <3> HIDE DEF s, a
    <3>1. set_inuse_and_pinuse(n, v, n.mem[v].size) = a
      BY <1>6 DEF a
    <3> QED BY <1>5, <1>6, <2>1, <3>1, UsedAsAWhole
  <2> HIDE DEF a
  <2>3. Gives(m, a, v, nb)
    BY <1>6, <2>2, GivesStays
  <2> QED BY <1>4, <2>1, <2>2, <2>3 DEF r
<1>8. CASE ~(rsize < MIN_CHUNK_SIZE)
  <2>1. rsize >= MIN_CHUNK_SIZE /\ n.mem[v].size = nb + rsize
    BY <1>3, <1>6, <1>8 DEF MIN_CHUNK_SIZE
  <2>2. r.m = c
    BY <1>4, <1>8
  <2>3. rsize \in Nat
    BY <1>3
  <2> HIDE DEF s, rsize
  <2>4. /\ OffBins(b, WithoutChunk(X, v), w) /\ b.mem[w].size = rsize /\ Gives(n, b, v, nb)
        /\ SameButMem(n, b)
    BY <1>5, <2>1, <2>3, UsedInPart
  <2> HIDE DEF b, w
  <2>5. is_small(b.dvsize)
    BY <1>6, <2>4 DEF SameButMem
  <2>6. (\E Y : Whole(c, Y)) /\ SameMemory(b, c)
    BY <2>4, <2>5, NewDv
  <2> HIDE DEF c
  <2>7. Gives(m, c, v, nb)
    BY <1>6, <2>4, <2>6, GivesStays DEF SameMemory
  <2> QED BY <1>4, <2>2, <2>6, <2>7 DEF r
<1> QED BY <1>7, <1>8 DEF r

\* A remainder of a negative number.
LEMMA Wrapped ==
    ASSUME NEW c \in Nat \ {0}, NEW a \in Nat, NEW b \in Nat, a < b, b < c
    PROVE  (a - b) % c = a - b + c
OBVIOUS

\* The size that is compared is the difference when the chunk is large enough.
LEMMA MinusIs ==
    ASSUME NEW a \in Nat, NEW b \in Nat, a < b, b <= MAX_SIZE_T
    PROVE  Minus(a, b) = a - b + MAX_SIZE_T + 1
<1> DEFINE c == MAX_SIZE_T + 1
<1>1. c \in Nat \ {0} /\ b < c
  BY SmallIs
<1>2. Minus(a, b) = (a - b) % c
  BY DEF Minus
<1> HIDE DEF c
<1>3. Minus(a, b) = a - b + c
  BY <1>1, <1>2, Wrapped
<1> QED BY <1>3, SmallIs DEF c

\* tmalloc_large serves from the trees, or else nothing in the bins fits or dv does.
LEMMA TmallocLarge ==
    ASSUME NEW m, NEW X, Whole(m, X), NEW nb, Large(nb)
    PROVE  LET r == tmalloc_large(m, nb) IN
           /\ r.p = NULL => r.m = m /\ (nb <= m.dvsize \/ \A q \in DOMAIN X : X[q] < nb)
           /\ r.p # NULL => (\E Y : Whole(r.m, Y)) /\ Gives(m, r.m, r.p, nb)
<1> DEFINE F == large_fits(m, nb)
           v == Smallest(m, F)
           l == split_large(m, v, nb, insert_chunk)
           r == tmalloc_large(m, nb)
           none == chunksize(m, v) - nb >= Minus(m.dvsize, nb)
<1>1. /\ F = {} \/ none => r.m = m /\ r.p = NULL
      /\ ~(F = {} \/ none) => r = l
  BY DEF tmalloc_large, Result
<1>2. Stored(m, X) /\ Shown(m, X) /\ Laid(m) /\ DvIs(m)
      /\ \A q \in DOMAIN X : X[q] \in MIN_CHUNK_SIZE..MAX_SIZE_T
  BY DEF Whole, Kept, Stored
<1>3. /\ \A p \in F : p \in DOMAIN X /\ Large(X[p]) /\ nb <= X[p]
      /\ \A q \in DOMAIN X : nb <= X[q] => \E p \in F : X[p] <= X[q]
  BY <1>2, LargeFitsAre
<1>4. nb \in Nat /\ nb <= MAX_SIZE_T /\ nb >= MIN_CHUNK_SIZE /\ MAX_SIZE_T \in Nat
  BY SmallIs DEF Large, MIN_CHUNK_SIZE
<1> HIDE DEF F
<1>5. ASSUME F # {} PROVE v \in DOMAIN X /\ Large(X[v]) /\ nb <= X[v] /\ chunksize(m, v) = X[v]
  <2>1. F \subseteq DOMAIN X
    BY <1>3
  <2>2. v \in F
    BY <1>2, <1>5, <2>1, SmallestIs
  <2> HIDE DEF v
  <2> QED BY <1>2, <1>3, <2>2 DEF Shown
<1> HIDE DEF r, v, none
<1>6. ASSUME F = {} \/ none PROVE nb <= m.dvsize \/ \A q \in DOMAIN X : X[q] < nb
  <2>1. CASE F = {}
    <3>1. \A q \in DOMAIN X : ~(nb <= X[q])
      BY <1>3, <2>1
    <3>2. \A q \in DOMAIN X : X[q] \in Nat
      BY <1>2 DEF MIN_CHUNK_SIZE
    <3> QED BY <1>4, <3>1, <3>2
  <2>2. ASSUME F # {}, m.dvsize < nb PROVE FALSE
    <3>1. m.dvsize \in Nat
      BY <1>2, DvIsEmpty
    <3>2. Minus(m.dvsize, nb) = m.dvsize - nb + MAX_SIZE_T + 1
      BY <1>4, <2>2, <3>1, MinusIs
    <3>3. X[v] - nb >= Minus(m.dvsize, nb)
      BY <1>5, <1>6, <2>2 DEF none
    <3>4. X[v] \in Nat /\ X[v] <= MAX_SIZE_T
      BY <1>2, <1>5, <2>2 DEF MIN_CHUNK_SIZE
    <3> QED BY <1>4, <3>1, <3>2, <3>3, <3>4
  <2>3. m.dvsize \in Nat
    BY <1>2, DvIsEmpty
  <2> QED BY <1>4, <2>1, <2>2, <2>3
<1>7. ASSUME ~(F = {} \/ none) PROVE (\E Y : Whole(l.m, Y)) /\ Gives(m, l.m, l.p, nb) /\ l.p # NULL
  <2>1. (\E Y : Whole(l.m, Y)) /\ Gives(m, l.m, l.p, nb)
    BY <1>4, <1>5, <1>7, SplitLargeBinned
  <2> QED BY <2>1 DEF Gives
<1> HIDE DEF l
<1> QED BY <1>1, <1>6, <1>7 DEF r

\* tmalloc_small serves from the first tree.
LEMMA TmallocSmall ==
    ASSUME NEW m, NEW X, Whole(m, X), NEW nb \in Nat, nb >= MIN_CHUNK_SIZE, is_small(nb),
           m.treemap # {},
           is_small(m.dvsize)
    PROVE  LET r == tmalloc_small(m, nb) IN (\E Y : Whole(r.m, Y)) /\ Gives(m, r.m, r.p, nb)
<1> DEFINE i == Min(m.treemap)
           F == FirstOf(m.treebins[i], LeftSpine(m.treebins[i], <<>>))
           v == Smallest(m, F)
<1>1. Stored(m, X) /\ Shown(m, X)
  BY DEF Whole, Kept
<1>2. i \in m.treemap
  <2>1. m.treemap \subseteq Nat
    BY <1>1, IndexBounds DEF Stored, LargeStored, TreeBins
  <2> QED BY <2>1, MinOf
<1>3. tmalloc_small(m, nb) = split_large(m, v, nb, replace_dv)
  BY DEF tmalloc_small
<1> HIDE DEF i
<1>4. F # {} /\ \A p \in F : p \in DOMAIN X /\ Large(X[p])
  BY <1>1, <1>2, SearchOfRoot
<1> HIDE DEF F
<1>5. v \in F
  <2>1. F \subseteq DOMAIN X
    BY <1>4
  <2> QED BY <1>1, <1>4, <2>1, SmallestIs
<1> HIDE DEF v
<1>6. v \in DOMAIN X /\ Large(X[v])
  BY <1>4, <1>5
<1>7. nb <= X[v]
  <2>1. MIN_LARGE_SIZE \in Nat /\ nb < MIN_LARGE_SIZE /\ MIN_LARGE_SIZE <= X[v] /\ X[v] \in Nat
    BY <1>6, SmallIs DEF Large, is_small, MIN_LARGE_SIZE
  <2> QED BY <2>1
<1> QED BY <1>3, <1>6, <1>7, SplitLargeToDv

WithDv(m, p, s) == [m EXCEPT !.dv = p, !.dvsize = s]

\* Only dv changes.
LEMMA WithDvIs ==
    ASSUME NEW m, DOMAIN m = Fields, NEW p, NEW s
    PROVE  LET n == WithDv(m, p, s) IN
           /\ DOMAIN n = Fields /\ n.mem = m.mem /\ n.dv = p /\ n.dvsize = s
           /\ n.smallmap = m.smallmap /\ n.treemap = m.treemap /\ n.smallbins = m.smallbins
           /\ n.treebins = m.treebins /\ n.top = m.top /\ n.topsize = m.topsize
           /\ n.least_addr = m.least_addr /\ n.seg = m.seg
BY DEF WithDv, Fields

\* What follows from a change of the memory where the bins are as they were.
LEMMA Settles ==
    ASSUME NEW m, NEW X, NEW S, Laid(m), Kept(m, X, S), NEW n, NEW I, NEW F, NEW U, Laid(n), DvIs(n),
           Turned(m, n, I, F, U), SameBins(m, n), Bare(n, {}) = Bare(m, S), Bare(m, S) \cap I = {}
    PROVE  Whole(n, X)
BY KeptTurns DEF Whole

\* What it means that the heap is sound.
LEMMA IsWhole ==
    ASSUME NEW m, NEW X, Whole(m, X)
    PROVE  /\ DOMAIN m = Fields /\ Laid(m) /\ DvIs(m) /\ Kept(m, X, {}) /\ DOMAIN X = Bare(m, {})
           /\ Stored(m, X) /\ Shown(m, X)
           /\ m.dv # NULL => m.dv \in Frees(m.mem, Foot(m)) /\ m.dv # m.top
           /\ m.top # NULL => m.top \in Frees(m.mem, Foot(m))
           /\ NULL \notin Frees(m.mem, Foot(m)) /\ NULL \notin DOMAIN m.mem
<1>1. /\ DOMAIN m = Fields /\ Laid(m) /\ DvIs(m) /\ Kept(m, X, {}) /\ DOMAIN X = Bare(m, {})
      /\ Stored(m, X) /\ Shown(m, X)
  BY DEF Whole, Kept, Bare, Stored
<1>2. m.dv # NULL => m.dv \in Frees(m.mem, Foot(m)) /\ m.dv # m.top
  BY <1>1 DEF DvIs
<1>3. m.top # NULL => m.top \in Frees(m.mem, Foot(m))
  BY <1>1, TopIsFree
<1>4. NULL \notin Frees(m.mem, Foot(m)) /\ NULL \notin DOMAIN m.mem
  BY <1>1, LaidIs DEF Frees, NULL
<1> QED BY <1>1, <1>2, <1>3, <1>4

\* The first part of top is used.
LEMMA SplitTop ==
    ASSUME NEW m, NEW X, Whole(m, X), NEW nb \in Nat, nb >= MIN_CHUNK_SIZE,
           NEW size \in Nat, size = m.topsize, nb < size
    PROVE  LET r == split_top(m, nb) IN Whole(r.m, X) /\ Gives(m, r.m, r.p, nb)
<1> DEFINE t == m.top
           w == t + nb
           rest == size - nb
           hi == Foot(m)
           r == set_size_and_pinuse_of_inuse_chunk(set_top(m, w, rest), t, nb)
<1>1. split_top(m, nb).m = r /\ split_top(m, nb).p = t
  BY DEF split_top, Result
<1>2. DOMAIN m = Fields /\ Laid(m) /\ DvIs(m) /\ Kept(m, X, {})
  BY IsWhole
<1>3. t # NULL
  BY <1>2, LaidIs DEF TopIs, NULL
<1>4. /\ t \in Frees(m.mem, hi) /\ m.mem[t].size = size /\ m.mem[t].pin /\ t + size = hi /\ t \in Nat
      /\ hi \in Nat
  BY <1>2, <1>3, TopIsFree
<1>5. /\ Area(m, t, hi, {t}) /\ Spot(m.mem, hi, t, hi) /\ {t} \cap Used(m.mem) = {}
  <2> HIDE DEF hi, t
  <2> QED BY <1>2, <1>4, FreeArea DEF hi
<1>6. /\ w \in Nat /\ rest \in Nat /\ w - t = nb /\ hi - w = rest /\ t < w /\ w < hi
      /\ Parted(t, w, hi) /\ Spans(t, nb, w) /\ Spans(w, rest, hi) /\ w + rest = hi
  BY <1>3, <1>4 DEF Parted, Spans, Wide, MIN_CHUNK_SIZE
<1> HIDE DEF hi, w, rest
<1>7. SameButMem(WithTop(m, w, rest), r) /\ AsTwo(m.mem, r.mem, hi, t, w, hi, FALSE)
  BY <1>2, <1>4, <1>5, <1>6, SetTopDivided
<1> HIDE DEF r
<1>8. /\ r.top = w /\ r.topsize = rest /\ r.dv = m.dv /\ r.dvsize = m.dvsize /\ r.seg = m.seg
      /\ r.least_addr = m.least_addr
      /\ SameBins(m, r) /\ Foot(r) = hi
  <2>1. Foot(r) = w + rest
    BY <1>2, <1>7, WithTopIs DEF SameButMem, Foot
  <2> QED BY <1>2, <1>6, <1>7, <2>1, WithTopIs DEF SameButMem, SameBins
<1>9. Goes(m, r, hi, w)
  BY <1>6, <1>8 DEF Goes, hi
<1>10. /\ Laid(r) /\ r.mem[t].size = w - t /\ Turned(m, r, {t}, {w}, {t})
          /\ (w \in {t} \/ w \notin DOMAIN m.mem)
  <2>1. TurnsDivided(m, r, t, w, hi, {t})
    BY <1>2, <1>5, <1>7, <1>9, TwoDivided DEF hi
  <2> QED BY <2>1 DEF TurnsDivided
<1>11. DvIs(r)
  BY <1>2, <1>8, <1>10, DvStays DEF DvIs
<1>12. w \notin DOMAIN m.mem
  BY <1>4, <1>6, <1>10
<1>13. Bare(r, {}) = Bare(m, {})
  <2>1. w \notin Frees(m.mem, Foot(m))
    BY <1>12 DEF Frees
  <2> QED BY <1>8, <1>10, <2>1 DEF Bare, Turned
<1>14. Whole(r, X)
  <2>1. Bare(m, {}) \cap {t} = {}
    BY DEF Bare
  <2> QED BY <1>2, <1>8, <1>10, <1>11, <1>13, <2>1, Settles
<1>15. Used(r.mem) = Used(m.mem) \cup {t} /\ \A q \in Used(m.mem) : r.mem[q].size = m.mem[q].size
  BY <1>2, <1>5, <1>10, UsedStays
<1>16. Gives(m, r, t, nb)
  <2>1. r.mem[t].size \in nb..nb + 1
    BY <1>6, <1>10
  <2> QED BY <1>3, <1>5, <1>15, <2>1 DEF Gives
<1> QED BY <1>1, <1>14, <1>16

\* All or the first part of dv is used.
LEMMA SplitDv ==
    ASSUME NEW m, NEW X, Whole(m, X), NEW nb \in Nat, nb >= MIN_CHUNK_SIZE,
           NEW s \in Nat, s = m.dvsize, nb <= s
    PROVE  LET r == split_dv(m, nb) IN Whole(r.m, X) /\ Gives(m, r.m, r.p, nb)
<1> DEFINE v == m.dv
           w == v + nb
           rest == s - nb
           hi == v + s
           a == set_inuse_and_pinuse(WithDv(m, NULL, 0), v, s)
           b == set_size_and_pinuse_of_inuse_chunk(set_size_and_pinuse_of_free_chunk(WithDv(m, w, rest), w, rest), v, nb)
           r == split_dv(m, nb)
<1>1. /\ r.p = v
      /\ rest >= MIN_CHUNK_SIZE => r.m = b
      /\ ~(rest >= MIN_CHUNK_SIZE) => r.m = a
  BY DEF split_dv, Result, WithDv
<1>2. DOMAIN m = Fields /\ Laid(m) /\ DvIs(m) /\ Kept(m, X, {})
  BY IsWhole
<1>3. v # NULL /\ v \in Frees(m.mem, Foot(m)) /\ v # m.top /\ s = m.mem[v].size /\ s \in Nat
  BY <1>2, DvIsEmpty DEF MIN_CHUNK_SIZE
<1>4. /\ Area(m, v, hi, {v}) /\ Spot(m.mem, Foot(m), v, hi) /\ {v} \cap Used(m.mem) = {}
      /\ v \in Nat /\ hi \in Nat /\ Spans(v, s, hi) /\ s \in Nat
      /\ Differ(hi, Foot(m)) /\ Wide(v, hi) /\ m.mem[hi].cin /\ ~m.mem[hi].pin /\ m.mem[v].pin
  <2>1. hi = v + s
    OBVIOUS
  <2> HIDE DEF hi, v
  <2> QED BY <1>2, <1>3, <2>1, FreeArea
<1>5. rest \in Nat /\ s = nb + rest
  BY <1>3
<1>6. SUFFICES Whole(r.m, X) /\ Gives(m, r.m, r.p, nb)
  OBVIOUS
<1> HIDE DEF r
<1>7. CASE ~(rest >= MIN_CHUNK_SIZE)
  <2>1. r.m = a /\ s \in nb..nb + 1
    BY <1>1, <1>5, <1>7 DEF MIN_CHUNK_SIZE
  <2> DEFINE m1 == WithDv(m, NULL, 0)
  <2>2. DOMAIN m1 = Fields /\ m1.mem = m.mem
    BY <1>2, WithDvIs
  <2>3. SameButMem(m1, a) /\ AsOne(m.mem, a.mem, Foot(m), v, hi, TRUE)
    <3> HIDE DEF m1, hi, v
    <3>1. set_inuse_and_pinuse(m1, v, s) = a
      BY DEF m1
    <3> HIDE DEF a
    <3>2. SameButMem(m1, a) /\ AsOne(m1.mem, a.mem, Foot(m), v, hi, TRUE)
      BY <1>4, <2>2, <3>1, SetInuseAndPinuse
    <3> QED BY <2>2, <3>2
  <2> HIDE DEF a, hi, v
  <2>4. a.dv = NULL /\ a.dvsize = 0 /\ a.top = m.top /\ SameBins(m, a) /\ Goes(m, a, hi, v)
    <3>1. /\ a.dv = NULL /\ a.dvsize = 0 /\ a.top = m.top /\ a.topsize = m.topsize /\ SameBins(m, a)
          /\ a.seg = m.seg
          /\ a.least_addr = m.least_addr
      BY <1>2, <2>3, WithDvIs DEF SameButMem, SameBins
    <3> QED BY <1>2, <1>4, <3>1, LaidIs DEF Goes, Foot, Differ
  <2>5. Laid(a) /\ a.mem[v].size = hi - v /\ Turned(m, a, {v}, {}, {v}) /\ Foot(a) = Foot(m)
    BY <1>2, <1>4, <2>3, <2>4, OneTurns
  <2>6. DvIs(a)
    BY <2>4 DEF DvIs
  <2>7. Bare(a, {}) = Bare(m, {}) /\ Bare(m, {}) \cap {v} = {}
    <3>1. NULL \notin Frees(m.mem, Foot(m))
      BY IsWhole
    <3> QED BY <2>4, <2>5, <3>1 DEF Bare, Turned, v
  <2>8. Whole(a, X)
    BY <1>2, <2>4, <2>5, <2>6, <2>7, Settles
  <2>9. Used(a.mem) = Used(m.mem) \cup {v} /\ \A q \in Used(m.mem) : a.mem[q].size = m.mem[q].size
    BY <1>2, <1>4, <2>5, UsedStays
  <2>10. Gives(m, a, v, nb)
    <3>1. a.mem[v].size \in nb..nb + 1
      BY <1>4, <2>1, <2>5 DEF Spans
    <3> QED BY <1>3, <1>4, <2>9, <3>1 DEF Gives
  <2> QED BY <1>1, <2>1, <2>8, <2>10 DEF v
<1>8. CASE rest >= MIN_CHUNK_SIZE
  <2>1. r.m = b
    BY <1>1, <1>8
  <2> DEFINE m1 == WithDv(m, w, rest)
  <2>2. DOMAIN m1 = Fields /\ m1.mem = m.mem
    BY <1>2, WithDvIs
  <2>3. /\ w \in Nat /\ w - v = nb /\ hi - w = rest /\ v < w /\ w < hi
        /\ Parted(v, w, hi) /\ Spans(v, nb, w) /\ Spans(w, rest, hi) /\ Wide(w, hi)
    BY <1>4, <1>5, <1>8 DEF Parted, Spans, Wide, MIN_CHUNK_SIZE
  <2>4. SameButMem(m1, b) /\ AsTwo(m.mem, b.mem, Foot(m), v, w, hi, FALSE)
    <3> HIDE DEF m1, hi, v, rest, w
    <3>1. set_size_and_pinuse_of_inuse_chunk(set_size_and_pinuse_of_free_chunk(m1, w, rest), v, nb) = b
      BY DEF m1
    <3> HIDE DEF b
    <3>2. SameButMem(m1, b) /\ AsTwo(m1.mem, b.mem, Foot(m), v, w, hi, FALSE)
      BY <1>4, <2>2, <2>3, <3>1, SetDvDivided
    <3> QED BY <2>2, <3>2
  <2> HIDE DEF b, hi, v, rest, w
  <2>5. b.dv = w /\ b.dvsize = rest /\ b.top = m.top /\ SameBins(m, b) /\ Goes(m, b, hi, w)
    <3>1. /\ b.dv = w /\ b.dvsize = rest /\ b.top = m.top /\ b.topsize = m.topsize /\ SameBins(m, b)
          /\ b.seg = m.seg
          /\ b.least_addr = m.least_addr
      BY <1>2, <2>4, WithDvIs DEF SameButMem, SameBins
    <3> QED BY <1>2, <1>4, <3>1, LaidIs DEF Goes, Foot, Differ
  <2>6. /\ Laid(b) /\ b.mem[v].size = w - v /\ b.mem[w].size = hi - w /\ Turned(m, b, {v}, {w}, {v})
        /\ Foot(b) = Foot(m) /\ (w \in {v} \/ w \notin DOMAIN m.mem)
    <3>1. TurnsDivided(m, b, v, w, hi, {v})
      BY <1>2, <1>4, <2>4, <2>5, TwoDivided
    <3> QED BY <3>1 DEF TurnsDivided
  <2>7. w \notin DOMAIN m.mem /\ w \notin Frees(m.mem, Foot(m))
    BY <1>4, <2>3, <2>6 DEF Frees
  <2>8. w # m.top
    BY <1>3, <2>7, IsWhole, TopIsFree, <1>2, <2>3, <1>4 DEF NULL
  <2>9. DvIs(b)
    <3>1. w # NULL
      BY <1>4, <2>3 DEF NULL
    <3> QED BY <2>3, <2>5, <2>6, <2>8, <3>1 DEF DvIs, Turned
  <2>10. Bare(b, {}) = Bare(m, {}) /\ Bare(m, {}) \cap {v} = {}
    BY <2>5, <2>6, <2>7 DEF Bare, Turned, v
  <2>11. Whole(b, X)
    BY <1>2, <2>5, <2>6, <2>9, <2>10, Settles
  <2>12. Used(b.mem) = Used(m.mem) \cup {v} /\ \A q \in Used(m.mem) : b.mem[q].size = m.mem[q].size
    BY <1>2, <1>4, <2>6, UsedStays
  <2>13. Gives(m, b, v, nb)
    <3>1. b.mem[v].size \in nb..nb + 1
      BY <2>3, <2>6
    <3> QED BY <1>3, <1>4, <2>12, <3>1 DEF Gives
  <2> QED BY <1>1, <2>1, <2>11, <2>13 DEF v
<1> QED BY <1>7, <1>8

------------------------------------------------------------------------------
(* dlfree: a chunk becomes free and joins its free neighbours.                *)

\* The free chunks of I are top, dv or those that are in no bin, S.
Ready(m, X, S, I) ==
    /\ DOMAIN m = Fields /\ Laid(m) /\ DvIs(m) /\ Kept(m, X, S) /\ S \subseteq I
    /\ Bare(m, S) \cap I = {}

\* The chunks I become a free one that belongs into a bin.
LEMMA FreeForBins ==
    ASSUME NEW m, NEW X, NEW S, NEW I, Ready(m, X, S, I), NEW n, NEW lo \in I, NEW hi,
           TurnsFree(m, n, lo, hi, I),
           SameBins(m, n), n.dv = m.dv, n.dvsize = m.dvsize, n.top = m.top, m.dv \notin I, m.top \notin I
    PROVE  OffBins(n, X, lo)
<1>1. /\ DOMAIN n = Fields /\ Laid(m) /\ DvIs(m) /\ Kept(m, X, S) /\ S \subseteq I
      /\ Bare(m, S) \cap I = {}
      /\ Laid(n) /\ Turned(m, n, I, {lo}, {})
  BY DEF Ready, TurnsFree, SameBins
<1>2. DvIs(n)
  BY <1>1, DvStays
<1>3. Bare(n, {lo}) = Bare(m, S) /\ lo \in Bare(n, {})
  BY <1>1 DEF Bare, Turned
<1>4. Kept(n, X, {lo})
  BY <1>1, <1>3, KeptTurns
<1> QED BY <1>1, <1>2, <1>3, <1>4 DEF OffBins

\* They become dv.
LEMMA FreeForDv ==
    ASSUME NEW m, NEW X, NEW S, NEW I, Ready(m, X, S, I), NEW n, NEW lo \in I, NEW hi,
           TurnsFree(m, n, lo, hi, I),
           SameBins(m, n), n.dv = lo, n.dvsize = hi - lo, n.top = m.top, m.dv \in I, m.top \notin I
    PROVE  Whole(n, X)
<1>1. /\ Laid(m) /\ Kept(m, X, S) /\ S \subseteq I /\ Bare(m, S) \cap I = {}
      /\ Laid(n) /\ Turned(m, n, I, {lo}, {}) /\ n.mem[lo].size = hi - lo
  BY DEF Ready, TurnsFree
<1>2. lo \in Frees(n.mem, Foot(n)) /\ lo # n.top
  BY <1>1 DEF Turned
<1>3. DvIs(n)
  <2>1. lo # NULL
    BY <1>1, <1>2, LaidIs DEF Frees, NULL
  <2> QED BY <1>1, <1>2, <2>1 DEF DvIs
<1>4. Bare(n, {}) = Bare(m, S)
  BY <1>1 DEF Bare, Turned
<1> QED BY <1>1, <1>3, <1>4, Settles

\* They become top.
LEMMA FreeForTop ==
    ASSUME NEW m, NEW X, NEW S, NEW I, Ready(m, X, S, I), NEW n, NEW lo \in I, NEW hi,
           TurnsFree(m, n, lo, hi, I),
           SameBins(m, n), n.top = lo, m.top \in I,
           m.dv \in I => n.dv = NULL /\ n.dvsize = 0, m.dv \notin I => n.dv = m.dv
           /\ n.dvsize = m.dvsize
    PROVE  Whole(n, X)
<1>1. /\ Laid(m) /\ DvIs(m) /\ Kept(m, X, S) /\ S \subseteq I /\ Bare(m, S) \cap I = {}
      /\ Laid(n) /\ Turned(m, n, I, {lo}, {})
  BY DEF Ready, TurnsFree
<1>2. DvIs(n)
  <2>1. CASE m.dv \in I
    BY <2>1 DEF DvIs
  <2>2. CASE m.dv \notin I
    BY <1>1, <2>2, DvStays
  <2> QED BY <2>1, <2>2
<1>3. Bare(n, {}) = Bare(m, S)
  <2>1. NULL \notin Frees(m.mem, Foot(m))
    BY <1>1, LaidIs DEF Frees, NULL
  <2> QED BY <1>1, <2>1 DEF Bare, Turned
<1> QED BY <1>1, <1>2, <1>3, Settles

\* Memory n is memory m without the chunk p in use.
Returns(m, n, p) ==
    /\ p \in Used(m.mem) /\ Used(n.mem) = Used(m.mem) \ {p}
    /\ \A q \in Used(n.mem) : n.mem[q].size = m.mem[q].size

\* Then the chunk p has been returned.
LEMMA FreeReturns ==
    ASSUME NEW m, NEW n, NEW I, NEW p, NEW lo, NEW hi, TurnsFree(m, n, lo, hi, I),
           Used(m.mem) \cap I = {p}
    PROVE  Returns(m, n, p)
<1>1. Turned(m, n, I, {lo}, {})
  BY DEF TurnsFree
<1>2. Used(n.mem) = Used(m.mem) \ {p} /\ p \in Used(m.mem)
  BY <1>1 DEF Turned
<1>3. ASSUME NEW q \in Used(n.mem) PROVE n.mem[q].size = m.mem[q].size
  <2>1. q \in DOMAIN m.mem \ I
    BY <1>2 DEF Used
  <2> QED BY <1>1, <2>1 DEF Turned
<1> QED BY <1>2, <1>3 DEF Returns

\* What dispose_chunk knows when it has joined a chunk in use with a free one before it: the
\* chunks I from lo to hi, of size s, are p and what was before it.
Joined(m, X, S, I, p, lo, s, hi) ==
    /\ Ready(m, X, S, I) /\ Area(m, lo, hi, I) /\ Used(m.mem) \cap I = {p} /\ m.top \notin I
    /\ lo \in I /\ m.mem[lo].pin /\ s = hi - lo /\ hi # Foot(m) /\ m.mem[hi].pin
    /\ lo = m.dv \/ m.dv \notin I

\* What it takes to change the heads of an area.
LEMMA AreaSpot ==
    ASSUME NEW m, Laid(m), NEW lo, NEW hi, NEW I, Area(m, lo, hi, I)
    PROVE  Spot(m.mem, Foot(m), lo, hi) /\ lo \in Nat \ {0} /\ hi \in Nat /\ lo < hi
<1>1. Foot(m) \in Nat /\ Tiled(m.mem, Foot(m))
  BY LaidIs
<1>2. Region(m.mem, Foot(m), lo, hi) /\ lo \in Nat \ {0} /\ hi \in Nat /\ lo < hi
  BY DEF Area
<1> QED BY <1>1, <1>2, SpotIs

\* What it means that the chunks are joined.
LEMMA JoinedSpot ==
    ASSUME NEW m, NEW X, NEW S, NEW I, NEW p, NEW lo, NEW s, NEW hi, Joined(m, X, S, I, p, lo, s, hi)
    PROVE  /\ DOMAIN m = Fields /\ Laid(m) /\ Area(m, lo, hi, I) /\ Spot(m.mem, Foot(m), lo, hi)
           /\ Spans(lo, s, hi)
           /\ Differ(hi, Foot(m)) /\ Wide(lo, hi) /\ m.mem[lo].pin /\ m.mem[hi].pin
           /\ lo \in Nat /\ hi \in Nat /\ s \in Nat /\ lo \in I /\ lo # NULL /\ s >= MIN_CHUNK_SIZE
           /\ hi \in DOMAIN m.mem /\ hi \notin I
<1>1. /\ DOMAIN m = Fields /\ Laid(m) /\ Area(m, lo, hi, I) /\ m.mem[lo].pin /\ s = hi - lo /\ hi # Foot(m)
      /\ lo \in I /\ m.mem[hi].pin
  BY DEF Joined, Ready
<1>2. Spot(m.mem, Foot(m), lo, hi) /\ lo \in Nat \ {0} /\ hi \in Nat /\ lo < hi
  BY <1>1, AreaSpot
<1>3. s \in Nat /\ Spans(lo, s, hi)
  BY <1>1, <1>2 DEF Spans
<1>4. Differ(hi, Foot(m)) /\ lo # NULL
  BY <1>1, <1>2 DEF Differ, NULL
<1>5. lo \in DOMAIN m.mem /\ hi \in DOMAIN m.mem /\ hi \notin I /\ I = Inner(m.mem, lo, hi)
  BY <1>1, <1>2 DEF Area, Region, Inner
<1>6. Wide(lo, hi) /\ s >= MIN_CHUNK_SIZE
  <2>1. PICK q \in Used(m.mem) : q = p /\ q \in I
    BY DEF Joined
  <2> DEFINE e == q + m.mem[q].size
  <2>2. q \in DOMAIN m.mem /\ m.mem[q].size >= MIN_CHUNK_SIZE /\ m.mem[q].size \in Nat /\ q \in Nat
    BY <1>1, <2>1, UsedIs, LaidIs
  <2>3. lo <= q /\ q < hi
    BY <1>5, <2>1 DEF Inner
  <2>4. q + m.mem[q].size <= hi
    <3>1. Tiled(m.mem, Foot(m))
      BY <1>1, LaidIs
    <3> QED BY <1>5, <2>2, <2>3, <3>1, Apart
  <2> QED BY <1>1, <1>2, <1>3, <2>2, <2>3, <2>4 DEF Wide, MIN_CHUNK_SIZE
<1> QED BY <1>1, <1>2, <1>3, <1>4, <1>5, <1>6

\* consolidate_forward before a chunk in use.
LEMMA DisposedBeforeUsed ==
    ASSUME NEW m, NEW X, NEW S, NEW I, NEW p, NEW lo, NEW s, NEW hi, Joined(m, X, S, I, p, lo, s, hi),
           m.mem[hi].cin
    PROVE  LET n == set_free_with_pinuse(m, lo, s, hi)
               r == IF lo = m.dv THEN [n EXCEPT !.dvsize = s] ELSE insert_chunk(n, lo, s)
           IN  (\E Y : Whole(r, Y)) /\ Returns(m, r, p)
<1> DEFINE n == set_free_with_pinuse(m, lo, s, hi)
           d == [n EXCEPT !.dvsize = s]
           c == insert_chunk(n, lo, s)
<1>1. /\ DOMAIN m = Fields /\ Laid(m) /\ Area(m, lo, hi, I) /\ Spot(m.mem, Foot(m), lo, hi)
      /\ Spans(lo, s, hi)
      /\ Differ(hi, Foot(m)) /\ Wide(lo, hi) /\ m.mem[lo].pin /\ lo \in I
  BY JoinedSpot
<1>2. /\ Ready(m, X, S, I) /\ Used(m.mem) \cap I = {p} /\ m.top \notin I /\ s = hi - lo
      /\ lo = m.dv \/ m.dv \notin I
  BY DEF Joined
<1>3. SameButMem(m, n) /\ AsOne(m.mem, n.mem, Foot(m), lo, hi, FALSE)
  BY <1>1, SetFree
<1> HIDE DEF n
<1>4. /\ Goes(m, n, hi, lo) /\ SameBins(m, n) /\ n.dv = m.dv /\ n.dvsize = m.dvsize /\ n.top = m.top
      /\ DOMAIN n = Fields
  BY <1>1, <1>3, GoesOn DEF SameButMem
<1>5. TurnsFree(m, n, lo, hi, I)
  BY <1>1, <1>3, <1>4, OneFree
<1>6. CASE lo # m.dv
  <2>1. OffBins(n, X, lo)
    BY <1>1, <1>2, <1>4, <1>5, <1>6, FreeForBins
  <2>2. s = n.mem[lo].size
    BY <1>2, <1>5 DEF TurnsFree
  <2>3. Whole(c, With(X, lo, s)) /\ SameButBins(n, c)
    BY <2>1, <2>2, JoinsBins
  <2> HIDE DEF c
  <2>4. Returns(m, c, p)
    <3>1. Returns(m, n, p)
      BY <1>2, <1>5, FreeReturns
    <3> QED BY <2>3, <3>1 DEF SameButBins, Returns
  <2> QED BY <1>6, <2>3, <2>4 DEF c, n
<1>7. CASE lo = m.dv
  <2>1. /\ d.mem = n.mem /\ d.seg = n.seg /\ d.least_addr = n.least_addr /\ d.top = n.top
        /\ d.topsize = n.topsize
        /\ d.dv = n.dv /\ d.dvsize = s /\ SameBins(n, d)
    BY <1>4 DEF Fields, SameBins
  <2> HIDE DEF d
  <2>2. /\ AsOne(m.mem, d.mem, Foot(m), lo, hi, FALSE) /\ Goes(m, d, hi, lo) /\ SameBins(m, d) /\ d.dv = lo
        /\ d.top = m.top
    BY <1>3, <1>4, <1>7, <2>1 DEF Goes, SameBins, Foot
  <2>3. TurnsFree(m, d, lo, hi, I)
    BY <1>1, <2>2, OneFree
  <2>4. Whole(d, X)
    <3>1. d.dvsize = hi - lo
      BY <1>2, <2>1
    <3> QED BY <1>1, <1>2, <1>7, <2>2, <2>3, <3>1, FreeForDv
  <2>5. Returns(m, d, p)
    BY <1>2, <2>3, FreeReturns
  <2> QED BY <1>7, <2>4, <2>5 DEF d, n
<1> QED BY <1>6, <1>7

\* consolidate_forward before top, which grows.
LEMMA DisposedBeforeTop ==
    ASSUME NEW m, NEW X, NEW S, NEW I, NEW p, NEW lo, NEW s, NEW hi, Joined(m, X, S, I, p, lo, s, hi),
           hi = m.top
    PROVE  LET r == [set_top(m, lo, m.topsize + s) EXCEPT !.dv = IF lo = @ THEN NULL ELSE @,
                                                          !.dvsize = IF lo = m.dv THEN 0 ELSE @]
           IN  Whole(r, X) /\ Returns(m, r, p)
<1> DEFINE size == m.topsize + s
           n == set_top(m, lo, size)
           r == [n EXCEPT !.dv = IF lo = @ THEN NULL ELSE @, !.dvsize = IF lo = m.dv THEN 0 ELSE @]
           ft == Foot(m)
           J == I \cup {hi}
<1>1. /\ DOMAIN m = Fields /\ Laid(m) /\ Area(m, lo, hi, I) /\ Spans(lo, s, hi) /\ m.mem[lo].pin
      /\ lo \in I
      /\ lo \in Nat /\ hi \in Nat /\ s \in Nat /\ hi \notin I /\ lo # NULL /\ hi # NULL
  <2>1. lo < hi
    BY JoinedSpot DEF Area
  <2> QED BY <2>1, JoinedSpot DEF NULL
<1>2. /\ Ready(m, X, S, I) /\ Used(m.mem) \cap I = {p} /\ m.top \notin I /\ s = hi - lo
      /\ lo = m.dv \/ m.dv \notin I
  BY DEF Joined
<1>3. /\ m.top \in Frees(m.mem, ft) /\ m.mem[m.top].size = m.topsize /\ m.top + m.topsize = ft
      /\ m.topsize \in Nat /\ ft \in Nat
  BY <1>1, TopIsFree, LaidIs
<1>4. Area(m, hi, ft, {hi}) /\ {hi} \cap Used(m.mem) = {}
  <2> DEFINE t == m.topsize
  <2>1. t = m.mem[hi].size /\ ft = hi + t /\ hi \in Frees(m.mem, Foot(m))
    BY <1>3
  <2> HIDE DEF t, ft
  <2>2. Area(m, hi, ft, {hi}) /\ Spot(m.mem, Foot(m), hi, ft) /\ {hi} \cap Used(m.mem) = {}
    BY <1>1, <2>1, FreeArea
  <2> QED BY <2>2
<1>5. Area(m, lo, ft, J)
  <2> HIDE DEF ft
  <2> QED BY <1>1, <1>4, AreaJoins
<1>6. Spot(m.mem, ft, lo, ft) /\ Spans(lo, size, ft)
  <2>1. Spot(m.mem, ft, lo, ft)
    BY <1>1, <1>5, AreaSpot
  <2> QED BY <1>1, <1>2, <1>3, <2>1 DEF Spans
<1>7. ft = lo + size
  BY <1>6 DEF Spans
<1> HIDE DEF size, ft
<1>8. SameButMem(WithTop(m, lo, size), n) /\ AsOne(m.mem, n.mem, ft, lo, ft, FALSE)
  BY <1>1, <1>6, SetTop
<1> HIDE DEF n
<1>9. /\ n.seg = m.seg /\ n.least_addr = m.least_addr /\ n.top = lo /\ n.topsize = size /\ n.dv = m.dv
      /\ n.dvsize = m.dvsize /\ SameBins(m, n) /\ DOMAIN n = Fields
  BY <1>1, <1>8, WithTopIs DEF SameButMem, SameBins
<1>10. /\ r.mem = n.mem /\ r.seg = n.seg /\ r.least_addr = n.least_addr /\ r.top = n.top
       /\ r.topsize = n.topsize
       /\ SameBins(n, r) /\ r.dv = (IF lo = m.dv THEN NULL ELSE m.dv) /\ r.dvsize = (IF lo = m.dv THEN 0 ELSE m.dvsize)
  BY <1>9 DEF Fields, SameBins
<1> SUFFICES Whole(r, X) /\ Returns(m, r, p)
  BY DEF r, n, size
<1> HIDE DEF r
<1>11. /\ AsOne(m.mem, r.mem, Foot(m), lo, ft, FALSE) /\ SameBins(m, r) /\ r.top = lo
       /\ r.dv = (IF lo = m.dv THEN NULL ELSE m.dv) /\ r.dvsize = (IF lo = m.dv THEN 0 ELSE m.dvsize)
  BY <1>8, <1>9, <1>10 DEF SameBins, ft
<1>12. Goes(m, r, ft, lo)
  <2>1. Foot(r) = lo + size
    BY <1>9, <1>10 DEF Foot
  <2>2. size \in Nat
    BY <1>1, <1>3 DEF size
  <2> QED BY <1>1, <1>7, <1>9, <1>10, <2>1, <2>2 DEF Goes, ft
<1>13. TurnsFree(m, r, lo, ft, J)
  BY <1>1, <1>5, <1>11, <1>12, OneFree
<1>14. Ready(m, X, S, J)
  <2>1. Bare(m, S) \cap J = {}
    BY <1>2 DEF Ready, Bare
  <2> QED BY <1>2, <2>1 DEF Ready
<1>15. lo = m.dv <=> m.dv \in J
  <2>1. m.dv # m.top
    BY <1>1, <1>2 DEF Ready, DvIs, Frees
  <2> QED BY <1>1, <1>2, <2>1
<1>16. Whole(r, X)
  BY <1>1, <1>11, <1>13, <1>14, <1>15, FreeForTop
<1>17. Used(m.mem) \cap J = {p}
  BY <1>2, <1>4
<1>18. Returns(m, r, p)
  BY <1>13, <1>17, FreeReturns
<1> QED BY <1>16, <1>18

\* consolidate_forward before dv, which grows.
LEMMA DisposedBeforeDv ==
    ASSUME NEW m, NEW X, NEW S, NEW I, NEW p, NEW lo, NEW s, NEW hi, Joined(m, X, S, I, p, lo, s, hi),
           hi = m.dv
    PROVE  LET r == set_size_and_pinuse_of_free_chunk([m EXCEPT !.dv = lo, !.dvsize = @ + s], lo, m.dvsize + s)
           IN  Whole(r, X) /\ Returns(m, r, p)
<1> DEFINE size == m.dvsize + s
           m1 == WithDv(m, lo, size)
           r == set_size_and_pinuse_of_free_chunk(m1, lo, size)
           e == hi + m.dvsize
           J == I \cup {hi}
<1>0. set_size_and_pinuse_of_free_chunk([m EXCEPT !.dv = lo, !.dvsize = @ + s], lo, m.dvsize + s) = r
  BY DEF WithDv
<1>1. /\ DOMAIN m = Fields /\ Laid(m) /\ Area(m, lo, hi, I) /\ Spans(lo, s, hi) /\ m.mem[lo].pin
      /\ lo \in I
      /\ lo \in Nat /\ hi \in Nat /\ s \in Nat /\ hi \notin I /\ lo # NULL /\ hi # NULL
  <2>1. lo < hi
    BY JoinedSpot DEF Area
  <2> QED BY <2>1, JoinedSpot DEF NULL
<1>2. /\ Ready(m, X, S, I) /\ DvIs(m) /\ Used(m.mem) \cap I = {p} /\ m.top \notin I /\ s = hi - lo
  BY DEF Joined, Ready
<1>3. hi \in Frees(m.mem, Foot(m)) /\ hi # m.top /\ m.dvsize = m.mem[hi].size /\ m.dvsize \in Nat
  BY <1>1, <1>2, DvIsEmpty
<1>4. /\ Area(m, hi, e, {hi}) /\ {hi} \cap Used(m.mem) = {}
      /\ Differ(e, Foot(m)) /\ Wide(hi, e) /\ m.mem[e].cin /\ ~m.mem[e].pin /\ e \in Nat
  <2> DEFINE t == m.dvsize
  <2>1. t = m.mem[hi].size /\ e = hi + t
    BY <1>3
  <2> HIDE DEF t, e
  <2>2. /\ Area(m, hi, e, {hi}) /\ Spot(m.mem, Foot(m), hi, e) /\ {hi} \cap Used(m.mem) = {}
        /\ Differ(e, Foot(m)) /\ Wide(hi, e) /\ m.mem[e].cin /\ ~m.mem[e].pin /\ e \in Nat
    <3>1. Lone(m, hi, t, e)
      BY <1>1, <1>3, <2>1, FreeLone
    <3> QED BY <1>3, <3>1 DEF Lone
  <2> QED BY <2>2
<1>5. Area(m, lo, e, J)
  <2> HIDE DEF e
  <2> QED BY <1>1, <1>4, AreaJoins
<1>6. Spot(m.mem, Foot(m), lo, e) /\ Spans(lo, size, e) /\ size = e - lo /\ Wide(lo, e)
  <2>1. Spot(m.mem, Foot(m), lo, e) /\ lo < hi
    BY <1>1, <1>5, AreaSpot DEF Area
  <2> QED BY <1>1, <1>2, <1>3, <1>4, <2>1 DEF Spans, Wide, MIN_CHUNK_SIZE
<1> HIDE DEF size, e
<1>7. DOMAIN m1 = Fields /\ m1.mem = m.mem
  BY <1>1, WithDvIs
<1>8. SameButMem(m1, r) /\ AsOne(m.mem, r.mem, Foot(m), lo, e, FALSE)
  <2> HIDE DEF m1
  <2>1. SameButMem(m1, r) /\ AsOne(m1.mem, r.mem, Foot(m), lo, e, FALSE)
    BY <1>1, <1>4, <1>6, <1>7, SetMerged
  <2> QED BY <1>7, <2>1
<1> HIDE DEF r
<1>9. r.dv = lo /\ r.dvsize = size /\ r.top = m.top /\ SameBins(m, r) /\ Goes(m, r, e, lo)
  <2>1. /\ r.dv = lo /\ r.dvsize = size /\ r.top = m.top /\ r.topsize = m.topsize /\ SameBins(m, r)
        /\ r.seg = m.seg
        /\ r.least_addr = m.least_addr
    BY <1>1, <1>8, WithDvIs DEF SameButMem, SameBins
  <2> QED BY <1>1, <1>4, <2>1, LaidIs DEF Goes, Foot, Differ
<1>10. TurnsFree(m, r, lo, e, J)
  BY <1>1, <1>5, <1>8, <1>9, OneFree
<1>11. Ready(m, X, S, J)
  <2>1. Bare(m, S) \cap J = {}
    BY <1>2 DEF Ready, Bare
  <2> QED BY <1>2, <2>1 DEF Ready
<1>12. Whole(r, X)
  <2>1. r.dvsize = e - lo /\ m.dv \in J /\ m.top \notin J
    BY <1>2, <1>3, <1>6, <1>9
  <2> QED BY <1>1, <1>9, <1>10, <1>11, <2>1, FreeForDv
<1>13. Used(m.mem) \cap J = {p}
  BY <1>2, <1>4
<1>14. Returns(m, r, p)
  BY <1>10, <1>13, FreeReturns
<1> QED BY <1>0, <1>12, <1>14

\* An area does not depend on the bins.
LEMMA AreaStays ==
    ASSUME NEW m, NEW lo, NEW hi, NEW I, Area(m, lo, hi, I), NEW n, n.mem = m.mem, n.seg = m.seg,
           Foot(n) = Foot(m)
    PROVE  Area(n, lo, hi, I)
BY DEF Area

\* A chunk of the bins that is next to an area is taken out of them.
LEMMA ReadyWithoutNext ==
    ASSUME NEW m, NEW X, NEW S, NEW I, Ready(m, X, S, I), NEW q, q \in Frees(m.mem, Foot(m)), q # m.top,
           q # m.dv, q \notin I,
           NEW s, s = m.mem[q].size
    PROVE  LET u == unlink_chunk(m, q, s) IN
           /\ Ready(u, WithoutChunk(X, q), S \cup {q}, I \cup {q}) /\ SameButBins(m, u)
           /\ Foot(u) = Foot(m)
<1> DEFINE u == unlink_chunk(m, q, m.mem[q].size)
<1>1. Laid(m) /\ DvIs(m) /\ Kept(m, X, S) /\ S \subseteq I /\ Bare(m, S) \cap I = {}
  BY DEF Ready
<1>2. q \in Bare(m, S)
  BY <1>1 DEF Bare
<1>3. Kept(u, WithoutChunk(X, q), S \cup {q}) /\ SameButBins(m, u)
  BY <1>1, <1>2, KeptLeaves
<1> HIDE DEF u
<1>4. /\ u.mem = m.mem /\ u.top = m.top /\ u.topsize = m.topsize /\ u.dv = m.dv /\ u.dvsize = m.dvsize
      /\ u.seg = m.seg /\ u.least_addr = m.least_addr
  BY <1>3 DEF SameButBins
<1>5. Laid(u) /\ Foot(u) = Foot(m)
  BY <1>1, <1>4, LaidStays
<1>6. DvIs(u)
  BY <1>1, <1>4, <1>5 DEF DvIs
<1>7. DOMAIN u = Fields
  BY <1>3 DEF Kept, Stored
<1>8. Bare(u, S \cup {q}) \cap (I \cup {q}) = {}
  BY <1>1, <1>4, <1>5 DEF Bare
<1>9. Ready(u, WithoutChunk(X, q), S \cup {q}, I \cup {q})
  BY <1>1, <1>3, <1>5, <1>6, <1>7, <1>8 DEF Ready
<1> QED BY <1>3, <1>5, <1>9 DEF u

\* consolidate_forward before a chunk of the bins.
LEMMA DisposedBeforeFree ==
    ASSUME NEW m, NEW X, NEW S, NEW I, NEW p, NEW lo, NEW s, NEW hi, Joined(m, X, S, I, p, lo, s, hi),
           ~m.mem[hi].cin, hi # m.top, hi # m.dv
    PROVE  LET t == m.mem[hi].size
               n == set_size_and_pinuse_of_free_chunk(unlink_chunk(m, hi, t), lo, s + t)
               r == IF lo = m.dv THEN [n EXCEPT !.dvsize = s + t] ELSE insert_chunk(n, lo, s + t)
           IN  (\E Y : Whole(r, Y)) /\ Returns(m, r, p)
<1> DEFINE t == m.mem[hi].size
           size == s + t
           e == hi + t
           J == I \cup {hi}
           u == unlink_chunk(m, hi, t)
           n == set_size_and_pinuse_of_free_chunk(u, lo, size)
           d == [n EXCEPT !.dvsize = size]
           c == insert_chunk(n, lo, size)
<1>1. /\ DOMAIN m = Fields /\ Laid(m) /\ Area(m, lo, hi, I) /\ Spans(lo, s, hi) /\ Differ(hi, Foot(m))
      /\ m.mem[lo].pin
      /\ lo \in I /\ lo \in Nat /\ hi \in Nat /\ s \in Nat /\ hi \notin I /\ hi \in DOMAIN m.mem
  BY JoinedSpot
<1>2. /\ Ready(m, X, S, I) /\ Used(m.mem) \cap I = {p} /\ m.top \notin I /\ s = hi - lo
      /\ lo = m.dv \/ m.dv \notin I
  BY DEF Joined
<1>3. hi \in Frees(m.mem, Foot(m))
  BY <1>1 DEF Frees, Differ
<1>4. /\ Area(m, hi, e, {hi}) /\ {hi} \cap Used(m.mem) = {}
      /\ Differ(e, Foot(m)) /\ m.mem[e].cin /\ ~m.mem[e].pin /\ e \in Nat /\ t \in Nat
  <2>1. t = m.mem[hi].size /\ e = hi + t
    OBVIOUS
  <2> HIDE DEF t, e
  <2>2. Lone(m, hi, t, e)
    BY <1>1, <1>3, <2>1, FreeLone
  <2> QED BY <2>2 DEF Lone
<1>5. Area(m, lo, e, J)
  <2> HIDE DEF e
  <2> QED BY <1>1, <1>4, AreaJoins
<1>6. Spot(m.mem, Foot(m), lo, e) /\ Spans(lo, size, e) /\ size = e - lo /\ Wide(lo, e)
  <2>1. Spot(m.mem, Foot(m), lo, e) /\ lo < hi
    BY <1>1, <1>5, AreaSpot DEF Area
  <2>2. s >= MIN_CHUNK_SIZE
    BY JoinedSpot
  <2> QED BY <1>1, <1>2, <1>4, <2>1, <2>2 DEF Spans, Wide, MIN_CHUNK_SIZE
<1>7. Ready(u, WithoutChunk(X, hi), S \cup {hi}, J) /\ SameButBins(m, u) /\ Foot(u) = Foot(m)
  <2>1. t = m.mem[hi].size
    OBVIOUS
  <2>2. hi # m.top /\ hi # m.dv /\ hi \notin I
    BY <1>1
  <2> HIDE DEF t
  <2> QED BY <1>2, <1>3, <2>1, <2>2, ReadyWithoutNext
<1> HIDE DEF u
<1>8. /\ u.mem = m.mem /\ u.top = m.top /\ u.topsize = m.topsize /\ u.dv = m.dv /\ u.dvsize = m.dvsize
      /\ u.seg = m.seg /\ u.least_addr = m.least_addr
  BY <1>7 DEF SameButBins
<1>9. Area(u, lo, e, J) /\ Laid(u) /\ DOMAIN u = Fields
  <2>1. Laid(u) /\ DOMAIN u = Fields
    BY <1>7 DEF Ready
  <2> HIDE DEF J, e
  <2> QED BY <1>5, <1>7, <1>8, <2>1, AreaStays
<1>10. /\ Spot(u.mem, Foot(u), lo, e) /\ Differ(e, Foot(u)) /\ u.mem[lo].pin /\ u.mem[e].cin
       /\ ~u.mem[e].pin
  BY <1>1, <1>4, <1>6, <1>7, <1>8
<1> HIDE DEF e, size, J
<1>11. SameButMem(u, n) /\ AsOne(u.mem, n.mem, Foot(u), lo, e, FALSE)
  BY <1>6, <1>9, <1>10, SetMerged
<1> HIDE DEF n
<1>12. /\ Goes(u, n, e, lo) /\ SameBins(u, n) /\ n.dv = u.dv /\ n.dvsize = u.dvsize /\ n.top = u.top
       /\ DOMAIN n = Fields
  BY <1>9, <1>10, <1>11, GoesOn DEF SameButMem
<1>13. TurnsFree(u, n, lo, e, J)
  BY <1>9, <1>11, <1>12, OneFree
<1>14. lo \in J /\ Used(u.mem) \cap J = {p} /\ u.top \notin J /\ (lo # u.dv => u.dv \notin J)
  BY <1>1, <1>2, <1>4, <1>8 DEF J
<1>15. CASE lo # m.dv
  <2>1. OffBins(n, WithoutChunk(X, hi), lo)
    BY <1>7, <1>8, <1>12, <1>13, <1>14, <1>15, FreeForBins
  <2>2. size = n.mem[lo].size
    BY <1>6, <1>13 DEF TurnsFree
  <2>3. Whole(c, With(WithoutChunk(X, hi), lo, size)) /\ SameButBins(n, c)
    BY <2>1, <2>2, JoinsBins
  <2> HIDE DEF c
  <2>4. Returns(u, n, p)
    BY <1>13, <1>14, FreeReturns
  <2>5. Returns(m, c, p)
    BY <1>8, <2>3, <2>4 DEF SameButBins, Returns
  <2> QED BY <1>15, <2>3, <2>5 DEF c, n, size, u
<1>16. CASE lo = m.dv
  <2>1. /\ d.mem = n.mem /\ d.seg = n.seg /\ d.least_addr = n.least_addr /\ d.top = n.top
        /\ d.topsize = n.topsize
        /\ d.dv = n.dv /\ d.dvsize = size /\ SameBins(n, d)
    BY <1>12 DEF Fields, SameBins
  <2> HIDE DEF d
  <2>2. /\ AsOne(u.mem, d.mem, Foot(u), lo, e, FALSE) /\ Goes(u, d, e, lo) /\ SameBins(u, d) /\ d.dv = lo
        /\ d.top = u.top
    BY <1>8, <1>11, <1>12, <1>16, <2>1 DEF Goes, SameBins, Foot
  <2>3. TurnsFree(u, d, lo, e, J)
    BY <1>9, <2>2, OneFree
  <2>4. Whole(d, WithoutChunk(X, hi))
    <3>1. d.dvsize = e - lo /\ u.dv \in J
      BY <1>6, <1>8, <1>14, <1>16, <2>1
    <3> QED BY <1>7, <1>14, <2>2, <2>3, <3>1, FreeForDv
  <2>5. Returns(u, d, p)
    BY <1>14, <2>3, FreeReturns
  <2>6. Returns(m, d, p)
    BY <1>8, <2>5 DEF Returns
  <2> QED BY <1>16, <2>4, <2>6 DEF d, n, size, u
<1> QED BY <1>15, <1>16

\* consolidate_forward returns the chunk p, whatever is behind it.
LEMMA DisposedJoined ==
    ASSUME NEW m, NEW X, NEW S, NEW I, NEW p, NEW lo, NEW s, NEW hi, Joined(m, X, S, I, p, lo, s, hi)
    PROVE  (\E Y : Whole(consolidate_forward(m, lo, s, hi), Y))
           /\ Returns(m, consolidate_forward(m, lo, s, hi), p)
<1> DEFINE t == m.mem[hi].size
           n1 == set_free_with_pinuse(m, lo, s, hi)
           r1 == IF lo = m.dv THEN [n1 EXCEPT !.dvsize = s] ELSE insert_chunk(n1, lo, s)
           r2 == [set_top(m, lo, m.topsize + s) EXCEPT !.dv = IF lo = @ THEN NULL ELSE @,
                                                       !.dvsize = IF lo = m.dv THEN 0 ELSE @]
           r3 == set_size_and_pinuse_of_free_chunk([m EXCEPT !.dv = lo, !.dvsize = @ + s], lo, m.dvsize + s)
           n4 == set_size_and_pinuse_of_free_chunk(unlink_chunk(m, hi, t), lo, s + t)
           r4 == IF lo = m.dv THEN [n4 EXCEPT !.dvsize = s + t] ELSE insert_chunk(n4, lo, s + t)
<1>1. DOMAIN m = Fields /\ Laid(m) /\ DvIs(m) /\ hi \in DOMAIN m.mem /\ hi \in Nat \ {0}
  <2>1. DOMAIN m = Fields /\ Laid(m) /\ DvIs(m) /\ hi \in DOMAIN m.mem
    <3>1. DOMAIN m = Fields /\ Laid(m) /\ hi \in DOMAIN m.mem
      BY JoinedSpot
    <3> QED BY <3>1 DEF Joined, Ready
  <2> QED BY <2>1, LaidIs
<1>2. hi = m.top => ~m.mem[hi].cin
  BY <1>1, TopIsFree DEF Frees, NULL
<1>3. hi = m.dv => ~m.mem[hi].cin /\ hi # m.top
  BY <1>1 DEF DvIs, Frees, NULL
<1>4. /\ m.mem[hi].cin => consolidate_forward(m, lo, s, hi) = r1
      /\ ~m.mem[hi].cin /\ hi = m.top => consolidate_forward(m, lo, s, hi) = r2
      /\ ~m.mem[hi].cin /\ hi # m.top /\ hi = m.dv => consolidate_forward(m, lo, s, hi) = r3
      /\ ~m.mem[hi].cin /\ hi # m.top /\ hi # m.dv => consolidate_forward(m, lo, s, hi) = r4
  BY <1>2, <1>3 DEF consolidate_forward, chunksize
<1>5. m.mem[hi].cin => (\E Y : Whole(r1, Y)) /\ Returns(m, r1, p)
  BY DisposedBeforeUsed
<1>6. hi = m.top => (\E Y : Whole(r2, Y)) /\ Returns(m, r2, p)
  <2> SUFFICES ASSUME hi = m.top PROVE (\E Y : Whole(r2, Y)) /\ Returns(m, r2, p)
    OBVIOUS
  <2>1. Whole(r2, X) /\ Returns(m, r2, p)
    BY DisposedBeforeTop
  <2> HIDE DEF r2
  <2> QED BY <2>1
<1>7. hi = m.dv => (\E Y : Whole(r3, Y)) /\ Returns(m, r3, p)
  <2> SUFFICES ASSUME hi = m.dv PROVE (\E Y : Whole(r3, Y)) /\ Returns(m, r3, p)
    OBVIOUS
  <2>1. Whole(r3, X) /\ Returns(m, r3, p)
    BY DisposedBeforeDv
  <2> HIDE DEF r3
  <2> QED BY <2>1
<1>8. ~m.mem[hi].cin /\ hi # m.top /\ hi # m.dv => (\E Y : Whole(r4, Y)) /\ Returns(m, r4, p)
  BY DisposedBeforeFree
<1> HIDE DEF r1, r2, r3, r4
<1> QED BY <1>4, <1>5, <1>6, <1>7, <1>8

\* dispose_chunk returns the chunk p, whatever is around it.
LEMMA DisposeChunk ==
    ASSUME NEW m, NEW X, Whole(m, X), NEW p \in Used(m.mem), NEW s, s = m.mem[p].size
    PROVE  LET r == dispose_chunk(m, p, s) IN (\E Y : Whole(r, Y)) /\ Returns(m, r, p)
<1> DEFINE hi == p + s
           foot == m.mem[p].foot
           q == p - foot
           u == unlink_chunk(m, q, foot)
<1>1. /\ DOMAIN m = Fields /\ Laid(m) /\ DvIs(m) /\ Kept(m, X, {})
      /\ m.dv # NULL => m.dv \in Frees(m.mem, Foot(m)) /\ m.dv # m.top
      /\ m.top # NULL => m.top \in Frees(m.mem, Foot(m))
      /\ NULL \notin DOMAIN m.mem
  BY IsWhole
<1>2. /\ p \in DOMAIN m.mem \ {Foot(m)} /\ p \notin Fenced(m.mem) /\ p \notin Records(m.mem)
      /\ m.mem[p].cin /\ hi # Foot(m) /\ m.mem[hi].pin /\ p \notin Frees(m.mem, Foot(m))
  BY <1>1, UsedIs
<1>3. Area(m, p, hi, {p})
  BY <1>1, <1>2, ChunkArea
<1>4. p \in Nat /\ s \in Nat /\ foot \in Nat /\ hi = p + s /\ s = hi - p
  BY <1>1, <1>2, LaidIs
<1>5. p # m.dv /\ p # m.top
  BY <1>1, <1>2
<1>6. /\ m.mem[p].pin => dispose_chunk(m, p, s) = consolidate_forward(m, p, s, hi)
      /\ ~m.mem[p].pin /\ q = m.dv => dispose_chunk(m, p, s) = consolidate_forward(m, q, s + foot, hi)
      /\ ~m.mem[p].pin /\ q # m.dv => dispose_chunk(m, p, s) = consolidate_forward(u, q, s + foot, hi)
  BY <1>2, <1>4 DEF dispose_chunk
<1> HIDE DEF hi, foot
<1>7. CASE m.mem[p].pin
  <2>1. Ready(m, X, {}, {p})
    BY <1>1, <1>2 DEF Ready, Bare
  <2>2. Joined(m, X, {}, {p}, p, p, s, hi)
    BY <1>2, <1>3, <1>4, <1>5, <1>7, <2>1 DEF Joined
  <2> QED BY <1>6, <1>7, <2>2, DisposedJoined
<1>8. CASE ~m.mem[p].pin
  <2>1. /\ q \in Frees(m.mem, Foot(m)) /\ q # m.top /\ m.mem[q].size = foot /\ q + foot = p /\ q \in Nat
        /\ q < p
    <3>1. /\ q \in Frees(m.mem, Foot(m)) /\ q # m.top /\ m.mem[q].size = foot /\ q + m.mem[q].size = p
          /\ q \in Nat /\ q < p
      BY <1>1, <1>2, <1>8, BackIs DEF foot
    <3> QED BY <3>1
  <2>2. Lone(m, q, foot, p)
    <3> HIDE DEF q
    <3> QED BY <1>1, <2>1, FreeLone
  <2>3. Area(m, q, p, {q}) /\ {q} \cap Used(m.mem) = {} /\ m.mem[q].pin
    BY <2>2 DEF Lone
  <2> DEFINE I == {q, p}
  <2>4. Area(m, q, hi, I)
    <3>1. {q} \cup {p} = I
      OBVIOUS
    <3> HIDE DEF I, q
    <3>2. Area(m, q, hi, {q} \cup {p})
      BY <1>1, <1>3, <2>3, AreaJoins
    <3> QED BY <3>1, <3>2
  <2>5. s + foot = hi - q
    BY <1>4, <2>1
  <2>6. Used(m.mem) \cap I = {p} /\ m.top \notin I
    BY <1>5, <2>1, <2>3
  <2> HIDE DEF q
  <2>7. CASE q = m.dv
    <3>1. Ready(m, X, {}, I)
      BY <1>1, <1>2, <2>7 DEF Ready, Bare
    <3>2. Joined(m, X, {}, I, p, q, s + foot, hi)
      BY <1>2, <2>3, <2>4, <2>5, <2>6, <2>7, <3>1 DEF Joined
    <3> QED BY <1>6, <1>8, <2>7, <3>2, DisposedJoined
  <2>8. CASE q # m.dv
    <3>1. Ready(m, X, {}, {p})
      BY <1>1, <1>2 DEF Ready, Bare
    <3>2. /\ Ready(u, WithoutChunk(X, q), {} \cup {q}, {p} \cup {q}) /\ SameButBins(m, u)
          /\ Foot(u) = Foot(m)
      <4>1. q \notin {p} /\ foot = m.mem[q].size
        BY <1>2, <2>1
      <4> QED BY <2>1, <2>8, <3>1, <4>1, ReadyWithoutNext
    <3> HIDE DEF u
    <3>3. {} \cup {q} = {q} /\ {p} \cup {q} = I
      OBVIOUS
    <3>4. u.mem = m.mem /\ u.top = m.top /\ u.dv = m.dv /\ u.seg = m.seg
      BY <3>2 DEF SameButBins
    <3>5. Area(u, q, hi, I)
      <4> HIDE DEF I
      <4> QED BY <2>4, <3>2, <3>4, AreaStays
    <3>6. u.dv \notin I
      BY <1>5, <2>8, <3>4
    <3>7. Ready(u, WithoutChunk(X, q), {q}, I)
      BY <3>2, <3>3
    <3>8. Joined(u, WithoutChunk(X, q), {q}, I, p, q, s + foot, hi)
      BY <1>2, <2>3, <2>5, <2>6, <3>2, <3>4, <3>5, <3>6, <3>7 DEF Joined
    <3>9. (\E Y : Whole(consolidate_forward(u, q, s + foot, hi), Y))
          /\ Returns(u, consolidate_forward(u, q, s + foot, hi), p)
      BY <3>8, DisposedJoined
    <3>10. Returns(m, consolidate_forward(u, q, s + foot, hi), p)
      BY <3>4, <3>9 DEF Returns
    <3> QED BY <1>6, <1>8, <2>8, <3>9, <3>10 DEF u
  <2> QED BY <2>7, <2>8
<1> QED BY <1>7, <1>8

\* dlfree returns the chunk p and the heap stays sound.
LEMMA Dlfree ==
    ASSUME NEW m, NEW X, Whole(m, X), NEW p \in Used(m.mem)
    PROVE  LET r == dlfree(m, p) IN (\E Y : Whole(r, Y)) /\ Returns(m, r, p)
BY DisposeChunk DEF dlfree, chunksize

------------------------------------------------------------------------------
(* dlrealloc: a chunk stays where it is and gets another size.                *)

\* Memory n is memory m where the chunk p in use has size s or a little more.
Resizes(m, n, p, s) ==
    /\ p # NULL /\ p \in Used(m.mem) /\ Used(n.mem) = Used(m.mem)
    /\ \A q \in Used(m.mem) \ {p} : n.mem[q].size = m.mem[q].size
    /\ n.mem[p].size \in s..s + 1

\* The chunks I become one in use.
LEMMA UsedSettles ==
    ASSUME NEW m, NEW X, NEW S, NEW I, Ready(m, X, S, I), NEW n, NEW lo, NEW hi,
           TurnsUsed(m, n, lo, hi, I),
           SameBins(m, n), n.top = m.top, m.top \notin I,
           m.dv \in I => n.dv = NULL /\ n.dvsize = 0, m.dv \notin I => n.dv = m.dv
           /\ n.dvsize = m.dvsize
    PROVE  Whole(n, X)
<1>1. /\ Laid(m) /\ DvIs(m) /\ Kept(m, X, S) /\ S \subseteq I /\ Bare(m, S) \cap I = {}
      /\ Laid(n) /\ Turned(m, n, I, {}, {lo})
  BY DEF Ready, TurnsUsed
<1>2. DvIs(n)
  <2>1. CASE m.dv \in I
    BY <2>1 DEF DvIs
  <2>2. CASE m.dv \notin I
    BY <1>1, <2>2, DvStays
  <2> QED BY <2>1, <2>2
<1>3. Bare(n, {}) = Bare(m, S)
  <2>1. NULL \notin Frees(m.mem, Foot(m))
    BY <1>1, LaidIs DEF Frees, NULL
  <2> QED BY <1>1, <2>1 DEF Bare, Turned
<1> QED BY <1>1, <1>2, <1>3, Settles

\* They become two in use.
LEMMA CutSettles ==
    ASSUME NEW m, NEW X, NEW S, NEW I, Ready(m, X, S, I), NEW n, NEW lo, NEW mid, NEW hi,
           TurnsCut(m, n, lo, mid, hi, I),
           SameBins(m, n), n.top = m.top, n.dv = m.dv, n.dvsize = m.dvsize, m.top \notin I, m.dv \notin I
    PROVE  Whole(n, X)
<1>1. /\ Laid(m) /\ DvIs(m) /\ Kept(m, X, S) /\ S \subseteq I /\ Bare(m, S) \cap I = {}
      /\ Laid(n) /\ Turned(m, n, I, {}, {lo, mid})
  BY DEF Ready, TurnsCut
<1>2. DvIs(n)
  BY <1>1, DvStays
<1>3. Bare(n, {}) = Bare(m, S)
  BY <1>1 DEF Bare, Turned
<1> QED BY <1>1, <1>2, <1>3, Settles

\* They become one in use and dv.
LEMMA DividedForDv ==
    ASSUME NEW m, NEW X, NEW S, NEW I, Ready(m, X, S, I), NEW n, NEW lo, NEW mid, NEW hi,
           TurnsDivided(m, n, lo, mid, hi, I),
           SameBins(m, n), n.top = m.top, n.dv = mid, n.dvsize = hi - mid, m.top \notin I, m.dv \in I,
           m.top # NULL => m.top \in DOMAIN m.mem
    PROVE  Whole(n, X)
<1>1. /\ Laid(m) /\ Kept(m, X, S) /\ S \subseteq I /\ Bare(m, S) \cap I = {}
      /\ Laid(n) /\ Turned(m, n, I, {mid}, {lo}) /\ n.mem[mid].size = hi - mid
      /\ mid \in I \/ mid \notin DOMAIN m.mem
  BY DEF Ready, TurnsDivided
<1>2. mid \in Frees(n.mem, Foot(n))
  BY <1>1 DEF Turned
<1>3. mid # NULL
  BY <1>1, <1>2, LaidIs DEF Frees, NULL
<1>4. mid # n.top
  BY <1>1, <1>3
<1>5. DvIs(n)
  BY <1>1, <1>2, <1>3, <1>4 DEF DvIs
<1>6. Frees(n.mem, Foot(n)) = (Frees(m.mem, Foot(m)) \ I) \cup {mid}
  BY <1>1 DEF Turned
<1>7. mid \notin Frees(m.mem, Foot(m)) \ I
  BY <1>1 DEF Frees
<1>8. Bare(n, {}) = Bare(m, S)
  BY <1>1, <1>6, <1>7 DEF Bare
<1> QED BY <1>1, <1>5, <1>8, Settles

\* They become one in use and top.
LEMMA DividedForTop ==
    ASSUME NEW m, NEW X, NEW S, NEW I, Ready(m, X, S, I), NEW n, NEW lo, NEW mid, NEW hi,
           TurnsDivided(m, n, lo, mid, hi, I),
           SameBins(m, n), n.top = mid, m.top \in I, m.dv \notin I, n.dv = m.dv, n.dvsize = m.dvsize
    PROVE  Whole(n, X)
<1>1. /\ Laid(m) /\ DvIs(m) /\ Kept(m, X, S) /\ S \subseteq I /\ Bare(m, S) \cap I = {}
      /\ Laid(n) /\ Turned(m, n, I, {mid}, {lo})
      /\ mid \in I \/ mid \notin DOMAIN m.mem
  BY DEF Ready, TurnsDivided
<1>2. DvIs(n)
  BY <1>1, DvStays
<1>6. Frees(n.mem, Foot(n)) = (Frees(m.mem, Foot(m)) \ I) \cup {mid}
  BY <1>1 DEF Turned
<1>7. mid \notin Frees(m.mem, Foot(m)) \ I
  BY <1>1 DEF Frees
<1>8. Bare(n, {}) = Bare(m, S)
  BY <1>1, <1>6, <1>7 DEF Bare
<1> QED BY <1>1, <1>2, <1>8, Settles

\* A chunk that is resized stays the program's.
LEMMA UsedResizes ==
    ASSUME NEW m, Laid(m), NEW n, NEW I, NEW p, NEW hi, NEW s, TurnsUsed(m, n, p, hi, I),
           Used(m.mem) \cap I = {p}, hi - p \in s..s + 1
    PROVE  Resizes(m, n, p, s)
<1>1. Turned(m, n, I, {}, {p}) /\ n.mem[p].size = hi - p /\ p \in Used(m.mem)
  BY DEF TurnsUsed
<1>2. Used(n.mem) = Used(m.mem)
  BY <1>1 DEF Turned
<1>3. ASSUME NEW q \in Used(m.mem) \ {p} PROVE n.mem[q].size = m.mem[q].size
  <2>1. q \in DOMAIN m.mem \ I
    BY <1>3 DEF Used
  <2> QED BY <1>1, <2>1 DEF Turned
<1>4. p # NULL
  BY <1>1, LaidIs DEF Used, NULL
<1> QED BY <1>1, <1>2, <1>3, <1>4 DEF Resizes

\* So does one whose rest becomes free.
LEMMA DividedResizes ==
    ASSUME NEW m, Laid(m), NEW n, NEW I, NEW p, NEW mid, NEW hi, NEW s \in Nat,
           TurnsDivided(m, n, p, mid, hi, I), Used(m.mem) \cap I = {p},
           mid - p = s
    PROVE  Resizes(m, n, p, s)
<1>1. Turned(m, n, I, {mid}, {p}) /\ n.mem[p].size = mid - p /\ p \in Used(m.mem)
  BY DEF TurnsDivided
<1>2. Used(n.mem) = Used(m.mem)
  BY <1>1 DEF Turned
<1>3. ASSUME NEW q \in Used(m.mem) \ {p} PROVE n.mem[q].size = m.mem[q].size
  <2>1. q \in DOMAIN m.mem \ I
    BY <1>3 DEF Used
  <2> QED BY <1>1, <2>1 DEF Turned
<1>4. p # NULL
  BY <1>1, LaidIs DEF Used, NULL
<1>5. n.mem[p].size \in s..s + 1
  BY <1>1
<1> QED BY <1>1, <1>2, <1>3, <1>4, <1>5 DEF Resizes

\* So does one whose rest is a chunk in use for now.
LEMMA CutResizes ==
    ASSUME NEW m, Laid(m), NEW n, NEW I, NEW p, NEW mid, NEW hi, NEW s \in Nat,
           TurnsCut(m, n, p, mid, hi, I), Used(m.mem) \cap I = {p},
           mid - p = s, p # mid, NEW r, Returns(n, r, mid)
    PROVE  Resizes(m, r, p, s)
<1>1. /\ Turned(m, n, I, {}, {p, mid}) /\ n.mem[p].size = mid - p /\ p \in Used(m.mem)
      /\ mid \in I \/ mid \notin DOMAIN m.mem
  BY DEF TurnsCut
<1>2. Used(n.mem) = (Used(m.mem) \ I) \cup {p, mid}
  BY <1>1 DEF Turned
<1>3. Used(r.mem) = Used(n.mem) \ {mid} /\ \A q \in Used(r.mem) : r.mem[q].size = n.mem[q].size
  BY DEF Returns
<1>4. mid \notin Used(m.mem)
  BY <1>1 DEF Used
<1>5. Used(r.mem) = Used(m.mem)
  BY <1>1, <1>2, <1>3, <1>4
<1>6. ASSUME NEW q \in Used(m.mem) \ {p} PROVE r.mem[q].size = m.mem[q].size
  <2>1. q \in DOMAIN m.mem \ I
    BY <1>6 DEF Used
  <2>2. n.mem[q].size = m.mem[q].size
    BY <1>1, <2>1 DEF Turned
  <2> QED BY <1>3, <1>5, <2>2
<1>7. p # NULL
  BY <1>1, LaidIs DEF Used, NULL
<1>8. r.mem[p].size \in s..s + 1
  <2>1. r.mem[p].size = s
    BY <1>1, <1>3, <1>5
  <2> QED BY <2>1
<1> QED BY <1>1, <1>5, <1>6, <1>7, <1>8 DEF Resizes

\* The end of an area that begins with the chunk p in use is split off.
LEMMA SplitOff ==
    ASSUME NEW m, NEW X, NEW S, NEW I, Ready(m, X, S, I), NEW p, NEW hi, Area(m, p, hi, I),
           Used(m.mem) \cap I = {p},
           m.top \notin I, m.dv \notin I, hi # Foot(m),
           NEW nb \in Nat, nb >= MIN_CHUNK_SIZE, NEW rsize \in Nat, rsize >= MIN_CHUNK_SIZE, hi = p + nb + rsize
    PROVE  LET r == split_off(m, p, nb, rsize) IN (\E Y : Whole(r, Y)) /\ Resizes(m, r, p, nb)
<1> DEFINE mid == p + nb
           n == set_inuse(set_inuse(m, p, nb), mid, rsize)
           r == dispose_chunk(n, mid, rsize)
<1>0. split_off(m, p, nb, rsize) = r
  BY DEF split_off
<1>1. DOMAIN m = Fields /\ Laid(m)
  BY DEF Ready
<1>2. Spot(m.mem, Foot(m), p, hi) /\ p \in Nat \ {0} /\ hi \in Nat /\ p < hi
  BY <1>1, AreaSpot
<1>3. /\ mid \in Nat /\ mid # p /\ mid - p = nb /\ hi - mid = rsize /\ Parted(p, mid, hi)
      /\ Wide(mid, hi)
      /\ Spans(p, nb, mid) /\ Spans(mid, rsize, hi) /\ Differ(hi, Foot(m))
  BY <1>2 DEF Parted, Wide, Spans, Differ, MIN_CHUNK_SIZE
<1> HIDE DEF mid
<1>4. SameButMem(m, n) /\ AsTwo(m.mem, n.mem, Foot(m), p, mid, hi, TRUE)
  BY <1>1, <1>2, <1>3, SetCut
<1> HIDE DEF n
<1>5. Goes(m, n, hi, mid) /\ SameBins(m, n)
  BY <1>1, <1>3, <1>4, GoesOn
<1>6. TurnsCut(m, n, p, mid, hi, I)
  BY <1>1, <1>4, <1>5, TwoCut
<1>7. Whole(n, X)
  <2>1. n.top = m.top /\ n.dv = m.dv /\ n.dvsize = m.dvsize
    BY <1>4 DEF SameButMem
  <2> QED BY <1>5, <1>6, <2>1, CutSettles
<1>8. mid \in Used(n.mem) /\ n.mem[mid].size = rsize
  BY <1>3, <1>6 DEF TurnsCut, Turned
<1>9. (\E Y : Whole(r, Y)) /\ Returns(n, r, mid)
  BY <1>7, <1>8, DisposeChunk
<1> HIDE DEF r
<1>10. Resizes(m, r, p, nb)
  BY <1>1, <1>3, <1>6, <1>9, CutResizes
<1> QED BY <1>0, <1>9, <1>10

\* The area becomes one chunk in use.
LEMMA TakenWhole ==
    ASSUME NEW m, NEW X, NEW S, NEW I, Ready(m, X, S, I), NEW p, NEW s, NEW hi, Area(m, p, hi, I),
           Used(m.mem) \cap I = {p},
           m.top \notin I, hi # Foot(m), NEW n, DOMAIN n = Fields, SameMemory(m, n), SameBins(m, n),
           m.dv \in I => n.dv = NULL /\ n.dvsize = 0, m.dv \notin I => n.dv = m.dv
           /\ n.dvsize = m.dvsize,
           s = hi - p, NEW nb \in Nat, nb >= MIN_CHUNK_SIZE, s \in nb..nb + 1
    PROVE  LET r == set_inuse(n, p, s) IN Whole(r, X) /\ Resizes(m, r, p, nb)
<1> DEFINE r == set_inuse(n, p, s)
<1>1. DOMAIN m = Fields /\ Laid(m)
  BY DEF Ready
<1>2. Spot(m.mem, Foot(m), p, hi) /\ p \in Nat \ {0} /\ hi \in Nat /\ p < hi
  BY <1>1, AreaSpot
<1>3. Spans(p, s, hi) /\ Wide(p, hi) /\ Differ(hi, Foot(m))
  BY <1>2 DEF Spans, Wide, Differ, MIN_CHUNK_SIZE
<1>4. /\ n.mem = m.mem /\ n.top = m.top /\ n.topsize = m.topsize /\ n.seg = m.seg
      /\ n.least_addr = m.least_addr
  BY DEF SameMemory
<1>5. SameButMem(n, r) /\ AsOne(m.mem, r.mem, Foot(m), p, hi, TRUE)
  <2>1. SameButMem(n, r) /\ AsOne(n.mem, r.mem, Foot(m), p, hi, TRUE)
    BY <1>2, <1>3, <1>4, SetInuse
  <2> QED BY <1>4, <2>1
<1> HIDE DEF r
<1>6. /\ r.top = m.top /\ r.topsize = m.topsize /\ r.seg = m.seg /\ r.least_addr = m.least_addr
      /\ r.dv = n.dv /\ r.dvsize = n.dvsize /\ SameBins(m, r)
  BY <1>4, <1>5 DEF SameButMem, SameBins
<1>7. Goes(m, r, hi, p)
  BY <1>1, <1>3, <1>6, LaidIs DEF Goes, Foot, Differ
<1>8. TurnsUsed(m, r, p, hi, I)
  BY <1>1, <1>5, <1>7, OneUsed
<1>9. Whole(r, X)
  BY <1>6, <1>8, UsedSettles
<1>10. Resizes(m, r, p, nb)
  BY <1>1, <1>8, UsedResizes
<1> QED BY <1>9, <1>10 DEF r

\* The chunk p in use grows into top.
LEMMA GrowsIntoTop ==
    ASSUME NEW m, NEW X, NEW I, Ready(m, X, {}, I), NEW p, NEW hi, hi = Foot(m), Area(m, p, hi, I),
           Used(m.mem) \cap I = {p},
           m.top \in I, m.dv \notin I,
           NEW nb \in Nat, nb >= MIN_CHUNK_SIZE, NEW rsize \in Nat, rsize > 0, hi = p + nb + rsize
    PROVE  LET r == set_top(set_inuse(m, p, nb), p + nb, rsize) IN Whole(r, X) /\ Resizes(m, r, p, nb)
<1> DEFINE mid == p + nb
           r == set_top(set_inuse(m, p, nb), mid, rsize)
<1>1. DOMAIN m = Fields /\ Laid(m)
  BY DEF Ready
<1>2. Spot(m.mem, Foot(m), p, hi) /\ p \in Nat \ {0} /\ hi \in Nat /\ p < hi
  BY <1>1, AreaSpot
<1>3. /\ mid \in Nat /\ mid # p /\ mid - p = nb /\ hi - mid = rsize /\ Parted(p, mid, hi)
      /\ hi = mid + rsize
      /\ Spans(p, nb, mid) /\ Spans(mid, rsize, hi)
  BY <1>2 DEF Parted, Wide, Spans, MIN_CHUNK_SIZE
<1> HIDE DEF mid
<1>4. SameButMem(WithTop(m, mid, rsize), r) /\ AsTwo(m.mem, r.mem, Foot(m), p, mid, hi, FALSE)
  <2>1. Spot(m.mem, hi, p, hi)
    BY <1>2
  <2>2. SameButMem(WithTop(m, mid, rsize), r) /\ AsTwo(m.mem, r.mem, hi, p, mid, hi, FALSE)
    BY <1>1, <1>3, <2>1, SetGrownToTop
  <2> QED BY <2>2
<1> SUFFICES Whole(r, X) /\ Resizes(m, r, p, nb)
  BY DEF mid
<1> HIDE DEF r
<1>5. /\ r.top = mid /\ r.topsize = rsize /\ r.seg = m.seg /\ r.least_addr = m.least_addr
      /\ r.dv = m.dv /\ r.dvsize = m.dvsize /\ SameBins(m, r)
  BY <1>1, <1>4, WithTopIs DEF SameButMem, SameBins
<1>6. Goes(m, r, hi, mid)
  BY <1>3, <1>5 DEF Goes, Foot
<1>7. TurnsDivided(m, r, p, mid, hi, I)
  BY <1>1, <1>4, <1>6, TwoDivided
<1>8. Whole(r, X)
  BY <1>5, <1>7, DividedForTop
<1>9. Resizes(m, r, p, nb)
  BY <1>1, <1>3, <1>7, DividedResizes
<1> QED BY <1>8, <1>9

\* It grows into dv.
LEMMA GrowsIntoDv ==
    ASSUME NEW m, NEW X, NEW I, Ready(m, X, {}, I), NEW p, NEW hi, hi # Foot(m), Area(m, p, hi, I),
           Used(m.mem) \cap I = {p},
           m.top \notin I, m.dv \in I, m.mem[hi].cin, ~m.mem[hi].pin,
           NEW nb \in Nat, nb >= MIN_CHUNK_SIZE, NEW rsize \in Nat, rsize >= MIN_CHUNK_SIZE, hi = p + nb + rsize
    PROVE  LET mid == p + nb
               r == set_size_and_pinuse_of_free_chunk(set_inuse(WithDv(m, mid, rsize), p, nb), mid, rsize)
           IN  Whole(r, X) /\ Resizes(m, r, p, nb)
<1> DEFINE mid == p + nb
           n == WithDv(m, mid, rsize)
           r == set_size_and_pinuse_of_free_chunk(set_inuse(n, p, nb), mid, rsize)
<1>1. DOMAIN m = Fields /\ Laid(m)
  BY DEF Ready
<1>2. Spot(m.mem, Foot(m), p, hi) /\ p \in Nat \ {0} /\ hi \in Nat /\ p < hi
  BY <1>1, AreaSpot
<1>3. /\ mid \in Nat /\ mid # p /\ mid - p = nb /\ hi - mid = rsize /\ Parted(p, mid, hi)
      /\ Wide(mid, hi)
      /\ Spans(p, nb, mid) /\ Spans(mid, rsize, hi) /\ Differ(hi, Foot(m))
  BY <1>2 DEF Parted, Wide, Spans, Differ, MIN_CHUNK_SIZE
<1> HIDE DEF mid
<1>4. /\ DOMAIN n = Fields /\ n.mem = m.mem /\ n.top = m.top /\ n.topsize = m.topsize /\ n.seg = m.seg
      /\ n.least_addr = m.least_addr /\ n.dv = mid /\ n.dvsize = rsize /\ SameBins(m, n)
  BY <1>1, WithDvIs DEF SameBins
<1> HIDE DEF n
<1>5. SameButMem(n, r) /\ AsTwo(m.mem, r.mem, Foot(m), p, mid, hi, FALSE)
  <2>1. SameButMem(n, r) /\ AsTwo(n.mem, r.mem, Foot(m), p, mid, hi, FALSE)
    BY <1>2, <1>3, <1>4, SetGrown
  <2> QED BY <1>4, <2>1
<1> SUFFICES Whole(r, X) /\ Resizes(m, r, p, nb)
  BY DEF mid, n
<1> HIDE DEF r
<1>6. /\ r.top = m.top /\ r.topsize = m.topsize /\ r.seg = m.seg /\ r.least_addr = m.least_addr
      /\ r.dv = mid /\ r.dvsize = rsize /\ SameBins(m, r)
  BY <1>4, <1>5 DEF SameButMem, SameBins
<1>7. Goes(m, r, hi, mid)
  BY <1>1, <1>3, <1>6, LaidIs DEF Goes, Foot, Differ
<1>8. TurnsDivided(m, r, p, mid, hi, I)
  BY <1>1, <1>5, <1>7, TwoDivided
<1>9. Whole(r, X)
  <2>1. m.top # NULL => m.top \in DOMAIN m.mem
    BY <1>1, TopIsFree DEF Frees
  <2>2. r.dvsize = hi - mid
    BY <1>3, <1>6
  <2> QED BY <1>6, <1>8, <2>1, <2>2, DividedForDv
<1>10. Resizes(m, r, p, nb)
  BY <1>1, <1>3, <1>8, DividedResizes
<1> QED BY <1>9, <1>10

\* The chunk p in use and the free one q behind it are an area.
Behind(m, p, c, q, t, hi, I) ==
    /\ Area(m, p, hi, I) /\ Used(m.mem) \cap I = {p} /\ Lone(m, q, t, hi)
    /\ q # p /\ p # m.top /\ p # m.dv

LEMMA FreeNext ==
    ASSUME NEW m, NEW X, Whole(m, X), NEW p \in Nat, p \in Used(m.mem), NEW c, c = m.mem[p].size, NEW q,
           q = p + c,
           q \in Frees(m.mem, Foot(m)), NEW t, t = m.mem[q].size, NEW hi, hi = q + t, NEW I, I = {p} \cup {q}
    PROVE  Behind(m, p, c, q, t, hi, I)
<1>1. /\ DOMAIN m = Fields /\ Laid(m) /\ DvIs(m)
      /\ m.dv # NULL => m.dv \in Frees(m.mem, Foot(m)) /\ m.dv # m.top
      /\ m.top # NULL => m.top \in Frees(m.mem, Foot(m))
      /\ NULL \notin DOMAIN m.mem
  BY IsWhole
<1>2. /\ p \in DOMAIN m.mem \ {Foot(m)} /\ p \notin Fenced(m.mem) /\ p \notin Records(m.mem)
      /\ p \notin Frees(m.mem, Foot(m)) /\ c >= MIN_CHUNK_SIZE
  BY <1>1, UsedIs
<1>3. Area(m, p, q, {p})
  BY <1>1, <1>2, ChunkArea
<1>4. Lone(m, q, t, hi)
  BY <1>1, FreeLone
<1>5. Area(m, q, hi, {q}) /\ {q} \cap Used(m.mem) = {}
  BY <1>4 DEF Lone
<1>6. Area(m, p, hi, {p} \cup {q})
  BY <1>1, <1>3, <1>5, AreaJoins
<1>8. p # m.top /\ p # m.dv
  BY <1>1, <1>2
<1> QED BY <1>2, <1>4, <1>5, <1>6, <1>8 DEF Behind

Tried(m, r, p, nb) ==
    /\ r.p = NULL => r.m = m
    /\ r.p # NULL => r.p = p /\ (\E Y : Whole(r.m, Y)) /\ Resizes(m, r.m, p, nb)

\* What try_realloc_chunk promises when it succeeds.
LEMMA HasTried ==
    ASSUME NEW m, NEW n, NEW p, NEW nb, NEW Y, Whole(n, Y), Resizes(m, n, p, nb)
    PROVE  Tried(m, Result(n, p), p, nb)
<1>1. Result(n, p).m = n /\ Result(n, p).p = p
  BY DEF Result
<1> DEFINE r == Result(n, p)
<1> SUFFICES Tried(m, r, p, nb)
  OBVIOUS
<1>2. (\E Z : Whole(r.m, Z)) /\ Resizes(m, r.m, p, nb) /\ p # NULL
  BY <1>1 DEF Resizes
<1> HIDE DEF r
<1> QED BY <1>1, <1>2 DEF Tried, r

\* It changes nothing when it fails.
LEMMA HasNotTried ==
    ASSUME NEW m, NEW p, NEW nb
    PROVE  Tried(m, Result(m, NULL), p, nb)
BY DEF Tried, Result

\* It is large enough.
LEMMA TryInPlace ==
    ASSUME NEW m, NEW X, Whole(m, X), NEW p \in Nat, p \in Used(m.mem), NEW nb \in Nat,
           nb >= MIN_CHUNK_SIZE,
           NEW c \in Nat, c = m.mem[p].size, c >= nb
    PROVE  LET r == IF c - nb >= MIN_CHUNK_SIZE THEN split_off(m, p, nb, c - nb) ELSE m
           IN  (\E Y : Whole(r, Y)) /\ Resizes(m, r, p, nb)
<1> DEFINE hi == p + c
           rsize == c - nb
<1>1. /\ DOMAIN m = Fields /\ Laid(m) /\ DvIs(m) /\ Kept(m, X, {})
      /\ m.dv # NULL => m.dv \in Frees(m.mem, Foot(m)) /\ m.dv # m.top
      /\ m.top # NULL => m.top \in Frees(m.mem, Foot(m))
      /\ NULL \notin DOMAIN m.mem
  BY IsWhole
<1>2. /\ p \in DOMAIN m.mem \ {Foot(m)} /\ p \notin Fenced(m.mem) /\ p \notin Records(m.mem)
      /\ p \notin Frees(m.mem, Foot(m)) /\ hi # Foot(m)
  BY <1>1, UsedIs
<1>3. Area(m, p, hi, {p}) /\ p \in Nat
  BY <1>1, <1>2, ChunkArea, LaidIs
<1>4. Ready(m, X, {}, {p}) /\ m.top \notin {p} /\ m.dv \notin {p} /\ Used(m.mem) \cap {p} = {p}
  BY <1>1, <1>2 DEF Ready, Bare
<1>5. CASE rsize >= MIN_CHUNK_SIZE
  <2> DEFINE r == split_off(m, p, nb, rsize)
  <2>1. rsize \in Nat /\ hi = p + nb + rsize
    BY <1>3, <1>5
  <2> HIDE DEF hi, rsize
  <2>2. (\E Y : Whole(r, Y)) /\ Resizes(m, r, p, nb)
    BY <1>2, <1>3, <1>4, <1>5, <2>1, SplitOff
  <2> HIDE DEF r
  <2>3. (\E Y : Whole(r, Y)) /\ Resizes(m, r, p, nb)
    BY <2>2
  <2> QED BY <1>5, <2>3 DEF r, rsize
<1>6. CASE ~(rsize >= MIN_CHUNK_SIZE)
  <2>1. c \in nb..nb + 1
    BY <1>6 DEF MIN_CHUNK_SIZE
  <2>2. p # NULL
    BY <1>1, <1>2
  <2>3. Resizes(m, m, p, nb)
    BY <2>1, <2>2 DEF Resizes
  <2> QED BY <1>6, <2>3
<1> QED BY <1>5, <1>6

\* Top is behind it.
LEMMA TryTop ==
    ASSUME NEW m, NEW X, Whole(m, X), NEW p \in Nat, p \in Used(m.mem), NEW nb \in Nat,
           nb >= MIN_CHUNK_SIZE,
           NEW c \in Nat, c = m.mem[p].size, p + c = m.top, NEW t \in Nat, t = m.topsize, c + t > nb
    PROVE  LET r == set_top(set_inuse(m, p, nb), p + nb, c + t - nb) IN Whole(r, X) /\ Resizes(m, r, p, nb)
<1> DEFINE q == p + c
           hi == q + t
           rsize == c + t - nb
           I == {p} \cup {q}
<1>1. /\ DOMAIN m = Fields /\ Laid(m) /\ DvIs(m) /\ Kept(m, X, {}) /\ NULL \notin DOMAIN m.mem
      /\ m.dv # NULL => m.dv \in Frees(m.mem, Foot(m)) /\ m.dv # m.top
  BY IsWhole
<1>2. p \in DOMAIN m.mem /\ p \in Nat /\ p # 0 /\ p \notin Frees(m.mem, Foot(m))
  BY <1>1, UsedIs, LaidIs
<1>3. m.top # NULL
  BY <1>2 DEF NULL
<1>4. q \in Frees(m.mem, Foot(m)) /\ m.mem[q].size = t /\ hi = Foot(m)
  BY <1>1, <1>3, TopIsFree
<1>5. hi = p + nb + rsize /\ rsize \in Nat /\ rsize > 0
  BY <1>2
<1> HIDE DEF q, hi, rsize
<1>6. q = p + c /\ hi = q + t
  BY DEF q, hi
<1>7. Area(m, p, hi, I) /\ Used(m.mem) \cap I = {p} /\ p # m.top /\ p # m.dv
  <2>1. Behind(m, p, c, q, t, hi, I)
    BY <1>4, <1>6, FreeNext
  <2> QED BY <2>1 DEF Behind
<1>8. m.top \in I /\ m.dv \notin I
  <2>1. m.top = q
    BY <1>6
  <2>2. m.dv # q
    BY <1>1, <1>3, <2>1
  <2> QED BY <1>7, <2>1, <2>2
<1>9. Ready(m, X, {}, I)
  <2>1. Bare(m, {}) \cap I = {}
    BY <1>2, <1>6 DEF Bare
  <2> QED BY <1>1, <2>1 DEF Ready
<1> HIDE DEF I
<1>10. LET r == set_top(set_inuse(m, p, nb), p + nb, rsize) IN Whole(r, X) /\ Resizes(m, r, p, nb)
  BY <1>4, <1>5, <1>7, <1>8, <1>9, GrowsIntoTop
<1> QED BY <1>10 DEF rsize

\* dv is behind it.
LEMMA TryDv ==
    ASSUME NEW m, NEW X, Whole(m, X), NEW p \in Nat, p \in Used(m.mem), NEW nb \in Nat,
           nb >= MIN_CHUNK_SIZE,
           NEW c \in Nat, c = m.mem[p].size, p + c = m.dv, NEW t \in Nat, t = m.mem[p + c].size, c + t >= nb
    PROVE  /\ c + t - nb >= MIN_CHUNK_SIZE =>
                LET r == set_size_and_pinuse_of_free_chunk(
                            set_inuse(WithDv(m, p + nb, c + t - nb), p, nb), p + nb, c + t - nb)
                IN  Whole(r, X) /\ Resizes(m, r, p, nb)
           /\ c + t - nb < MIN_CHUNK_SIZE =>
                LET r == set_inuse(WithDv(m, NULL, 0), p, c + t) IN Whole(r, X) /\ Resizes(m, r, p, nb)
<1> DEFINE q == p + c
           s == c + t
           hi == q + t
           rsize == c + t - nb
           I == {p} \cup {q}
<1>1. /\ DOMAIN m = Fields /\ Laid(m) /\ DvIs(m) /\ Kept(m, X, {}) /\ NULL \notin DOMAIN m.mem
      /\ m.dv # NULL => m.dv \in Frees(m.mem, Foot(m)) /\ m.dv # m.top
      /\ m.top # NULL => m.top \in Frees(m.mem, Foot(m))
  BY IsWhole
<1>2. p \in DOMAIN m.mem /\ p \in Nat /\ p # 0 /\ p \notin Frees(m.mem, Foot(m))
  BY <1>1, UsedIs, LaidIs
<1>3. m.dv # NULL
  BY <1>2 DEF NULL
<1>4. q \in Frees(m.mem, Foot(m)) /\ m.mem[q].size = t /\ q # m.top
  BY <1>1, <1>3
<1>5. hi = p + nb + rsize /\ rsize \in Nat /\ s = hi - p /\ s \in Nat
  BY <1>2
<1> HIDE DEF q, hi, rsize, s
<1>6. q = p + c /\ hi = q + t /\ m.dv = q
  BY DEF q, hi
<1>7. Area(m, p, hi, I) /\ Used(m.mem) \cap I = {p} /\ p # m.top /\ p # m.dv /\ Lone(m, q, t, hi)
  <2>1. Behind(m, p, c, q, t, hi, I)
    BY <1>4, <1>6, FreeNext
  <2> QED BY <2>1 DEF Behind
<1>8. m.dv \in I /\ m.top \notin I
  BY <1>4, <1>6, <1>7
<1>9. Ready(m, X, {}, I)
  <2>1. Bare(m, {}) \cap I = {}
    BY <1>2, <1>6 DEF Bare
  <2> QED BY <1>1, <2>1 DEF Ready
<1> HIDE DEF I
<1>10. m.mem[hi].cin /\ ~m.mem[hi].pin /\ hi # Foot(m)
  BY <1>4, <1>7 DEF Lone, Differ
<1>11. ASSUME rsize >= MIN_CHUNK_SIZE
       PROVE  LET r == set_size_and_pinuse_of_free_chunk(
                            set_inuse(WithDv(m, p + nb, rsize), p, nb), p + nb, rsize)
              IN  Whole(r, X) /\ Resizes(m, r, p, nb)
  BY <1>5, <1>7, <1>8, <1>9, <1>10, <1>11, GrowsIntoDv
<1>12. ASSUME rsize < MIN_CHUNK_SIZE
       PROVE  LET r == set_inuse(WithDv(m, NULL, 0), p, s) IN Whole(r, X) /\ Resizes(m, r, p, nb)
  <2> DEFINE n == WithDv(m, NULL, 0)
  <2>1. DOMAIN n = Fields /\ SameMemory(m, n) /\ SameBins(m, n) /\ n.dv = NULL /\ n.dvsize = 0
    BY <1>1, WithDvIs DEF SameMemory, SameBins
  <2>2. s \in nb..nb + 1
    BY <1>12 DEF s, rsize, MIN_CHUNK_SIZE
  <2> HIDE DEF n
  <2>3. LET r == set_inuse(n, p, s) IN Whole(r, X) /\ Resizes(m, r, p, nb)
    BY <1>5, <1>7, <1>8, <1>9, <1>10, <2>1, <2>2, TakenWhole
  <2> QED BY <2>3 DEF n
<1> QED BY <1>11, <1>12 DEF rsize, s

\* A chunk of the bins is behind it.
LEMMA TryFree ==
    ASSUME NEW m, NEW X, Whole(m, X), NEW p \in Nat, p \in Used(m.mem), NEW nb \in Nat,
           nb >= MIN_CHUNK_SIZE,
           NEW c \in Nat, c = m.mem[p].size, p + c \notin {m.top, m.dv}, ~m.mem[p + c].cin,
           NEW t \in Nat, t = m.mem[p + c].size, c + t >= nb
    PROVE  LET n == unlink_chunk(m, p + c, t) IN
           /\ c + t - nb >= MIN_CHUNK_SIZE =>
                LET r == split_off(n, p, nb, c + t - nb) IN (\E Y : Whole(r, Y)) /\ Resizes(m, r, p, nb)
           /\ c + t - nb < MIN_CHUNK_SIZE =>
                LET r == set_inuse(n, p, c + t) IN (\E Y : Whole(r, Y)) /\ Resizes(m, r, p, nb)
<1> DEFINE q == p + c
           s == c + t
           hi == q + t
           rsize == c + t - nb
           I == {p} \cup {q}
           n == unlink_chunk(m, q, t)
           Z == WithoutChunk(X, q)
<1>1. /\ DOMAIN m = Fields /\ Laid(m) /\ DvIs(m) /\ Kept(m, X, {}) /\ NULL \notin DOMAIN m.mem
      /\ m.dv # NULL => m.dv \in Frees(m.mem, Foot(m)) /\ m.dv # m.top
      /\ m.top # NULL => m.top \in Frees(m.mem, Foot(m))
  BY IsWhole
<1>2. /\ p \in DOMAIN m.mem \ {Foot(m)} /\ p \in Nat /\ p # 0 /\ p \notin Frees(m.mem, Foot(m))
      /\ q # Foot(m)
      /\ p \notin Fenced(m.mem)
  BY <1>1, UsedIs, LaidIs
<1>3. q \in DOMAIN m.mem
  BY <1>1, <1>2, ChunkIs
<1>4. q \in Frees(m.mem, Foot(m)) /\ m.mem[q].size = t /\ q # m.top /\ q # m.dv
  BY <1>2, <1>3 DEF Frees
<1>5. hi = p + nb + rsize /\ rsize \in Int /\ s = hi - p /\ s \in Nat
  BY <1>2
<1> HIDE DEF q, hi, rsize, s
<1>6. q = p + c /\ hi = q + t
  BY DEF q, hi
<1>7. /\ Area(m, p, hi, I) /\ Used(m.mem) \cap I = {p} /\ p # m.top /\ p # m.dv /\ Lone(m, q, t, hi)
      /\ q # p
  <2>1. Behind(m, p, c, q, t, hi, I)
    BY <1>4, <1>6, FreeNext
  <2> QED BY <2>1 DEF Behind
<1>8. m.dv \notin I /\ m.top \notin I
  BY <1>4, <1>7
<1>9. Ready(m, X, {}, {p})
  <2>1. Bare(m, {}) \cap {p} = {}
    BY <1>2 DEF Bare
  <2> QED BY <1>1, <2>1 DEF Ready
<1>10. Ready(n, Z, {q}, I) /\ SameButBins(m, n) /\ Foot(n) = Foot(m)
  <2>1. Ready(n, Z, {} \cup {q}, {p} \cup {q}) /\ SameButBins(m, n) /\ Foot(n) = Foot(m)
    <3>1. q \notin {p} /\ t = m.mem[q].size
      BY <1>4, <1>7
    <3>2. q \in Frees(m.mem, Foot(m)) /\ q # m.top /\ q # m.dv
      BY <1>4
    <3> HIDE DEF I
    <3> QED BY <1>9, <3>1, <3>2, ReadyWithoutNext
  <2>2. {} \cup {q} = {q}
    OBVIOUS
  <2> QED BY <2>1, <2>2
<1> SUFFICES /\ rsize >= MIN_CHUNK_SIZE =>
                LET r == split_off(n, p, nb, rsize) IN (\E Y : Whole(r, Y)) /\ Resizes(m, r, p, nb)
             /\ rsize < MIN_CHUNK_SIZE =>
                LET r == set_inuse(n, p, s) IN (\E Y : Whole(r, Y)) /\ Resizes(m, r, p, nb)
  BY DEF rsize, s, q
<1> HIDE DEF n, Z
<1>11. /\ n.mem = m.mem /\ n.top = m.top /\ n.topsize = m.topsize /\ n.seg = m.seg /\ n.dv = m.dv
       /\ n.dvsize = m.dvsize
       /\ n.least_addr = m.least_addr /\ DOMAIN n = Fields
  BY <1>10 DEF SameButBins, Ready
<1>12. Area(n, p, hi, I) /\ hi # Foot(n) /\ Used(n.mem) \cap I = {p} /\ n.top \notin I /\ n.dv \notin I
  <2>1. Area(n, p, hi, I)
    <3> HIDE DEF I
    <3> QED BY <1>7, <1>10, <1>11, AreaStays
  <2>2. hi # Foot(m)
    BY <1>4, <1>7 DEF Lone, Differ
  <2> QED BY <1>7, <1>8, <1>10, <1>11, <2>1, <2>2
<1>13. ASSUME NEW r, Resizes(n, r, p, nb) PROVE Resizes(m, r, p, nb)
  BY <1>11, <1>13 DEF Resizes
<1> HIDE DEF I
<1>14. ASSUME rsize >= MIN_CHUNK_SIZE
       PROVE  LET r == split_off(n, p, nb, rsize) IN (\E Y : Whole(r, Y)) /\ Resizes(m, r, p, nb)
  <2> DEFINE r == split_off(n, p, nb, rsize)
  <2>1. rsize \in Nat
    BY <1>5, <1>14 DEF MIN_CHUNK_SIZE
  <2>2. (\E Y : Whole(r, Y)) /\ Resizes(n, r, p, nb)
    BY <1>5, <1>10, <1>12, <1>14, <2>1, SplitOff
  <2> SUFFICES (\E Y : Whole(r, Y)) /\ Resizes(m, r, p, nb)
    OBVIOUS
  <2> HIDE DEF r
  <2> QED BY <1>13, <2>2
<1>15. ASSUME rsize < MIN_CHUNK_SIZE
       PROVE  LET r == set_inuse(n, p, s) IN (\E Y : Whole(r, Y)) /\ Resizes(m, r, p, nb)
  <2> DEFINE r == set_inuse(n, p, s)
  <2>1. s \in nb..nb + 1
    BY <1>15 DEF s, rsize, MIN_CHUNK_SIZE
  <2>2. SameMemory(n, n) /\ SameBins(n, n)
    BY DEF SameMemory, SameBins
  <2>3. Whole(r, Z) /\ Resizes(n, r, p, nb)
    BY <1>5, <1>10, <1>11, <1>12, <2>1, <2>2, TakenWhole
  <2> SUFFICES (\E Y : Whole(r, Y)) /\ Resizes(m, r, p, nb)
    OBVIOUS
  <2> HIDE DEF r
  <2> QED BY <1>13, <2>3
<1> QED BY <1>14, <1>15

\* try_realloc_chunk resizes the block where it is, or changes nothing.
LEMMA TryRealloc ==
    ASSUME NEW m, NEW X, Whole(m, X), NEW p \in Used(m.mem), NEW nb \in Nat, nb >= MIN_CHUNK_SIZE
    PROVE  Tried(m, try_realloc_chunk(m, p, nb), p, nb)
<1> DEFINE c == m.mem[p].size
           q == p + c
           t == m.mem[q].size
           rsize == c + t - nb
           n == unlink_chunk(m, q, t)
           r1 == IF c - nb >= MIN_CHUNK_SIZE THEN split_off(m, p, nb, c - nb) ELSE m
           r2 == set_top(set_inuse(m, p, nb), p + nb, c + m.topsize - nb)
           r3 == set_size_and_pinuse_of_free_chunk(set_inuse(WithDv(m, p + nb, rsize), p, nb), p + nb, rsize)
           r4 == set_inuse(WithDv(m, NULL, 0), p, c + t)
           r5 == split_off(n, p, nb, rsize)
           r6 == set_inuse(n, p, c + t)
           try == try_realloc_chunk(m, p, nb)
           fail == Result(m, NULL)
<1>1. Laid(m) /\ DvIs(m)
  BY IsWhole
<1>2. /\ p \in Nat /\ c \in Nat /\ q \in DOMAIN m.mem /\ t \in Nat
  <2>1. p \in DOMAIN m.mem \ {Foot(m)} /\ p \notin Fenced(m.mem)
    BY <1>1, UsedIs
  <2> QED BY <1>1, <2>1, ChunkIs, LaidIs
<1> SUFFICES Tried(m, try, p, nb)
  OBVIOUS
<1>31. c >= nb => try = Result(r1, p)
  BY <1>2 DEF try_realloc_chunk, chunksize, next_chunk
<1>32. c < nb /\ q = m.top => try = IF c + m.topsize > nb THEN Result(r2, p) ELSE fail
  <2>1. m.topsize \in Nat
    BY <1>1, LaidIs
  <2> SUFFICES ASSUME c < nb, q = m.top PROVE try = IF c + m.topsize > nb THEN Result(r2, p) ELSE fail
    OBVIOUS
  <2>2. ~(c >= nb)
    BY <1>2
  <2>3. q # m.dv
    BY <1>1, <1>2, LaidIs DEF DvIs, NULL
  <2> QED BY <1>2, <2>1, <2>2, <2>3 DEF try_realloc_chunk, chunksize, next_chunk
<1>33. c < nb /\ q = m.dv /\ q # m.top =>
          try = IF rsize >= MIN_CHUNK_SIZE THEN Result(r3, p) ELSE IF rsize >= 0 THEN Result(r4, p) ELSE fail
  BY <1>2 DEF try_realloc_chunk, chunksize, next_chunk, WithDv
<1>34. c < nb /\ q \notin {m.top, m.dv} /\ ~m.mem[q].cin =>
          try = IF rsize >= MIN_CHUNK_SIZE THEN Result(r5, p) ELSE IF rsize >= 0 THEN Result(r6, p) ELSE fail
  BY <1>2 DEF try_realloc_chunk, chunksize, next_chunk
<1>35. c < nb /\ q \notin {m.top, m.dv} /\ m.mem[q].cin => try = fail
  BY <1>2 DEF try_realloc_chunk, chunksize, next_chunk
<1>4. rsize \in Int
  BY <1>2
<1> HIDE DEF try, r1, r2, r3, r4, r5, r6, c, t, rsize
<1>5. Tried(m, fail, p, nb)
  BY HasNotTried
<1>6. CASE c >= nb
  <2>1. (\E Y : Whole(r1, Y)) /\ Resizes(m, r1, p, nb)
    BY <1>2, <1>6, TryInPlace DEF c, r1
  <2> QED BY <1>31, <1>32, <1>33, <1>34, <1>35, <1>6, <2>1, HasTried
<1>7. CASE c < nb /\ q = m.top
  <2>1. m.topsize \in Nat
    BY <1>1, LaidIs
  <2>2. CASE c + m.topsize > nb
    <3> DEFINE u == m.topsize
    <3>1. u \in Nat /\ u = m.topsize /\ c + u > nb
      BY <2>1, <2>2
    <3> HIDE DEF u
    <3>2. LET r == set_top(set_inuse(m, p, nb), p + nb, c + u - nb) IN Whole(r, X) /\ Resizes(m, r, p, nb)
      BY <1>2, <1>7, <3>1, TryTop DEF c
    <3>3. Whole(r2, X) /\ Resizes(m, r2, p, nb)
      BY <3>1, <3>2 DEF r2
    <3> QED BY <1>31, <1>32, <1>33, <1>34, <1>35, <1>7, <2>2, <3>3, HasTried
  <2>3. CASE ~(c + m.topsize > nb)
    BY <1>31, <1>32, <1>33, <1>34, <1>35, <1>5, <1>7, <2>3
  <2> QED BY <2>2, <2>3
<1>8. CASE c < nb /\ q = m.dv /\ q # m.top
  <2>1. CASE rsize >= 0
    <3>1. /\ rsize >= MIN_CHUNK_SIZE => Whole(r3, X) /\ Resizes(m, r3, p, nb)
          /\ rsize < MIN_CHUNK_SIZE => Whole(r4, X) /\ Resizes(m, r4, p, nb)
      <4>1. c = m.mem[p].size /\ p + c = m.dv /\ t = m.mem[p + c].size /\ c + t >= nb
        BY <1>2, <1>8, <2>1 DEF c, t, rsize
      <4>2. /\ c + t - nb >= MIN_CHUNK_SIZE =>
                 LET r == set_size_and_pinuse_of_free_chunk(
                            set_inuse(WithDv(m, p + nb, c + t - nb), p, nb), p + nb, c + t - nb)
                 IN  Whole(r, X) /\ Resizes(m, r, p, nb)
            /\ c + t - nb < MIN_CHUNK_SIZE =>
                 LET r == set_inuse(WithDv(m, NULL, 0), p, c + t) IN Whole(r, X) /\ Resizes(m, r, p, nb)
        BY <1>2, <4>1, TryDv
      <4> QED BY <4>2 DEF r3, r4, rsize
    <3>2. rsize >= MIN_CHUNK_SIZE => Tried(m, Result(r3, p), p, nb)
      BY <3>1, HasTried
    <3>3. rsize < MIN_CHUNK_SIZE => Tried(m, Result(r4, p), p, nb)
      BY <3>1, HasTried
    <3> QED BY <1>31, <1>32, <1>33, <1>34, <1>35, <1>4, <1>8, <2>1, <3>2, <3>3 DEF MIN_CHUNK_SIZE
  <2>2. CASE rsize < 0
    BY <1>31, <1>32, <1>33, <1>34, <1>35, <1>4, <1>5, <1>8, <2>2 DEF MIN_CHUNK_SIZE
  <2> QED BY <1>4, <2>1, <2>2
<1>9. CASE c < nb /\ q \notin {m.top, m.dv} /\ ~m.mem[q].cin
  <2>1. CASE rsize >= 0
    <3>1. /\ rsize >= MIN_CHUNK_SIZE => (\E Y : Whole(r5, Y)) /\ Resizes(m, r5, p, nb)
          /\ rsize < MIN_CHUNK_SIZE => (\E Y : Whole(r6, Y)) /\ Resizes(m, r6, p, nb)
      <4>1. /\ c = m.mem[p].size /\ p + c \notin {m.top, m.dv} /\ ~m.mem[p + c].cin
            /\ t = m.mem[p + c].size
            /\ c + t >= nb
        BY <1>2, <1>9, <2>1 DEF c, t, rsize
      <4>2. LET u == unlink_chunk(m, p + c, t) IN
            /\ c + t - nb >= MIN_CHUNK_SIZE =>
                 LET r == split_off(u, p, nb, c + t - nb) IN (\E Y : Whole(r, Y)) /\ Resizes(m, r, p, nb)
            /\ c + t - nb < MIN_CHUNK_SIZE =>
                 LET r == set_inuse(u, p, c + t) IN (\E Y : Whole(r, Y)) /\ Resizes(m, r, p, nb)
        BY <1>2, <4>1, TryFree
      <4> QED BY <4>2 DEF r5, r6, rsize
    <3>2. rsize >= MIN_CHUNK_SIZE => Tried(m, Result(r5, p), p, nb)
      BY <3>1, HasTried
    <3>3. rsize < MIN_CHUNK_SIZE => Tried(m, Result(r6, p), p, nb)
      BY <3>1, HasTried
    <3> QED BY <1>31, <1>32, <1>33, <1>34, <1>35, <1>4, <1>9, <2>1, <3>2, <3>3 DEF MIN_CHUNK_SIZE
  <2>2. CASE rsize < 0
    BY <1>31, <1>32, <1>33, <1>34, <1>35, <1>4, <1>5, <1>9, <2>2 DEF MIN_CHUNK_SIZE
  <2> QED BY <1>4, <2>1, <2>2
<1>10. CASE c < nb /\ q \notin {m.top, m.dv} /\ m.mem[q].cin
  BY <1>31, <1>32, <1>33, <1>34, <1>35, <1>5, <1>10
<1>11. m.mem[q].cin \in BOOLEAN
  BY <1>1, <1>2, LaidIs
<1> QED BY <1>2, <1>6, <1>7, <1>8, <1>9, <1>10, <1>11

------------------------------------------------------------------------------
(* The system gives a region: the first one, and one elsewhere.               *)

\* New heads between the chunks do not matter to the old ones.
LEMMA SoundStays ==
    ASSUME NEW mem, NEW ft, Tiled(mem, ft), NEW p \in DOMAIN mem \ {ft}, NEW mem2,
           DOMAIN mem \subseteq DOMAIN mem2,
           \A a \in DOMAIN mem : mem2[a] = mem[a],
           \A a \in DOMAIN mem2 \ DOMAIN mem : a <= p \/ p + mem[p].size <= a,
           NEW ft2, ft2 = ft \/ (ft \notin DOMAIN mem /\ ft2 \notin DOMAIN mem)
    PROVE  Sound(mem2, ft2, p)
<1>1. Sound(mem, ft, p)
  BY DEF Tiled
<1> DEFINE c == mem[p]
           n == p + c.size
           q == p - c.foot
           f == p - SEGMENT_SIZE
<1>2. mem2[p] = c
  OBVIOUS
<1>3. /\ c.cin \/ c.pin
      /\ ~c.pin => /\ c.foot # 0 /\ q \in DOMAIN mem /\ q # ft
                   /\ ~mem[q].cin /\ mem[q].size = c.foot
      /\ c.size = 0 => /\ c = FENCEPOST /\ f \in DOMAIN mem
                       /\ mem[f].size = SEGMENT_SIZE /\ mem[f].cin
      /\ c.size # 0 => /\ n \in DOMAIN mem /\ mem[n].pin = c.cin
                       /\ n # ft => c.size >= MIN_CHUNK_SIZE /\ (~c.cin => mem[n].foot = c.size)
                       /\ \A a \in DOMAIN mem : a <= p \/ n <= a
  BY <1>1 DEF Sound
<1>4. c.size # 0 => \A a \in DOMAIN mem2 : a <= p \/ n <= a
  BY <1>3
<1> HIDE DEF c, n, q, f
<1>5. /\ c.cin \/ c.pin
      /\ ~c.pin => /\ c.foot # 0 /\ q \in DOMAIN mem2 /\ q # ft2
                   /\ ~mem2[q].cin /\ mem2[q].size = c.foot
      /\ c.size = 0 => /\ c = FENCEPOST /\ f \in DOMAIN mem2
                       /\ mem2[f].size = SEGMENT_SIZE /\ mem2[f].cin
      /\ c.size # 0 => /\ n \in DOMAIN mem2 /\ mem2[n].pin = c.cin
                       /\ n # ft2 => c.size >= MIN_CHUNK_SIZE /\ (~c.cin => mem2[n].foot = c.size)
                       /\ \A a \in DOMAIN mem2 : a <= p \/ n <= a
  BY <1>3, <1>4
<1> QED BY <1>2, <1>5 DEF Sound, c, n, q, f

\* No head is in between a and b, and no chunk reaches into it.
Vacant(mem, a, b) == \A p \in DOMAIN mem : (p < a /\ p + mem[p].size <= a) \/ b <= p

\* A region that the system gives.
Fresh(m, b, s) ==
    /\ b \in Nat \ {0} /\ s \in Nat /\ b + s <= MemoryEnd
    /\ \A i \in DOMAIN m.seg : b + s <= m.seg[i].base \/ m.seg[i].base + m.seg[i].size <= b

\* What a region that the system gives is.
LEMMA FreshIs ==
    ASSUME NEW m, NEW s \in Nat, NEW b \in Given(m, s)
    PROVE  Fresh(m, b, s)
<1>1. \A i \in DOMAIN m.seg : m.seg[i] \in Range(m.seg)
  BY DEF Range
<1>2. b \in Nat \ {0} /\ b + s <= MemoryEnd
      /\ \A t \in Range(m.seg) : b + s <= t.base \/ t.base + t.size <= b
  BY MallocAssumption DEF Given, NULL
<1> QED BY <1>1, <1>2 DEF Fresh

\* Its heads are none of the heap's.
LEMMA HeadsElsewhere ==
    ASSUME NEW m, Laid(m), NEW b, NEW s, Fresh(m, b, s)
    PROVE  Vacant(m.mem, b, b + s)
<1>1. Segments(m) /\ \A p \in DOMAIN m.mem : p \in Nat \ {0} /\ m.mem[p].size \in Nat
  BY LaidIs
<1>2. b \in Nat /\ s \in Nat
  BY DEF Fresh
<1> SUFFICES ASSUME NEW p \in DOMAIN m.mem PROVE (p < b /\ p + m.mem[p].size <= b) \/ b + s <= p
  BY DEF Vacant
<1>3. CASE p # Foot(m)
  <2>1. PICK i \in DOMAIN m.seg : m.seg[i].base <= p
        /\ p + m.mem[p].size < m.seg[i].base + m.seg[i].size
    BY <1>1, <1>3 DEF Segments, InOne
  <2>2. m.seg[i].base \in Nat /\ m.seg[i].size \in Nat
    BY <1>1, SegmentIs
  <2>3. b + s <= m.seg[i].base \/ m.seg[i].base + m.seg[i].size <= b
    BY DEF Fresh
  <2> QED BY <1>1, <1>2, <2>1, <2>2, <2>3
<1>4. CASE p = Foot(m)
  <2>1. m.top # NULL
    BY LaidIs DEF TopIs
  <2>2. PICK i \in DOMAIN m.seg : m.seg[i].base <= m.top
        /\ m.seg[i].base + m.seg[i].size = Foot(m) + TOP_FOOT_SIZE
    BY <2>1 DEF Laid, TopIs
  <2>3. m.seg[i].base \in Nat /\ m.seg[i].size \in Nat
    BY <1>1, SegmentIs
  <2>4. b + s <= m.seg[i].base \/ m.seg[i].base + m.seg[i].size <= b
    BY DEF Fresh
  <2>5. m.mem[p].size = TOP_FOOT_SIZE /\ m.top \in Nat /\ m.topsize \in Nat
    BY <1>4, LaidIs, HeadIs
  <2> QED BY <1>1, <1>2, <1>4, <2>2, <2>3, <2>4, <2>5 DEF TOP_FOOT_SIZE, Foot
<1> QED BY <1>3, <1>4

\* Memory mem2 is mem, which has no top, with a new top of size d from b to f.
TopIn(mem, mem2, b, d, f) ==
    /\ f = b + d /\ Vacant(mem, b, f + TOP_FOOT_SIZE)
    /\ DOMAIN mem2 = DOMAIN mem \cup {b, f} /\ \A a \in DOMAIN mem : mem2[a] = mem[a]
    /\ mem2[b] = Chunk(d, FALSE, TRUE, 0) /\ mem2[f] = FootHead

Topped(mem, mem2, b, f) ==
    /\ Tiled(mem2, f) /\ Fenced(mem2) = Fenced(mem) /\ Frees(mem2, f) = Frees(mem, 0) \cup {b}
    /\ Used(mem2) = Used(mem) /\ b \notin DOMAIN mem /\ f \notin DOMAIN mem

\* The heads stay sound with the new top.
LEMMA TopAdded ==
    ASSUME NEW mem, Tiled(mem, 0), NEW b \in Nat, b # 0, NEW d \in Nat, d # 0, NEW f \in Nat, NEW mem2,
           TopIn(mem, mem2, b, d, f)
    PROVE  Topped(mem, mem2, b, f)
<1>0. /\ f = b + d /\ Vacant(mem, b, f + TOP_FOOT_SIZE)
      /\ DOMAIN mem2 = DOMAIN mem \cup {b, f} /\ \A a \in DOMAIN mem : mem2[a] = mem[a]
      /\ mem2[b] = Chunk(d, FALSE, TRUE, 0) /\ mem2[f] = FootHead
  BY DEF TopIn
<1>1. /\ DOMAIN mem \subseteq Nat \ {0} /\ \A p \in DOMAIN mem : mem[p] \in HeadType
         /\ mem[p].size \in Nat
  BY DEF Tiled, HeadType
<1>2. b \notin DOMAIN mem /\ f \notin DOMAIN mem /\ b < f
  BY <1>0, <1>1 DEF Vacant, TOP_FOOT_SIZE
<1>3. /\ mem2[b].size = d /\ mem2[b].cin = FALSE /\ mem2[b].pin = TRUE /\ mem2[b] \in HeadType
      /\ mem2[f].size = TOP_FOOT_SIZE /\ mem2[f].cin = FALSE /\ mem2[f].pin = FALSE
      /\ mem2[f] \in HeadType
  BY <1>0, <1>2 DEF Chunk, HeadType, FootHead, TOP_FOOT_SIZE
<1>4. \A p \in DOMAIN mem : Sound(mem2, f, p)
  <2> SUFFICES ASSUME NEW p \in DOMAIN mem PROVE Sound(mem2, f, p)
    OBVIOUS
  <2>1. p # 0 /\ 0 \notin DOMAIN mem
    BY <1>0, <1>1
  <2>2. \A a \in DOMAIN mem2 \ DOMAIN mem : a <= p \/ p + mem[p].size <= a
    BY <1>0, <1>1 DEF Vacant, TOP_FOOT_SIZE
  <2> QED BY <1>0, <1>2, <2>1, <2>2, SoundStays
<1>5. Sound(mem2, f, b)
  <2>1. b + mem2[b].size = f
    BY <1>0, <1>3
  <2>2. \A a \in DOMAIN mem2 : a <= b \/ f <= a
    BY <1>0, <1>1 DEF Vacant, TOP_FOOT_SIZE
  <2>3. mem2[b].size # 0
    BY <1>0, <1>3
  <2> QED BY <1>0, <1>3, <2>1, <2>2, <2>3 DEF Sound
<1>6. Tiled(mem2, f)
  <2>1. \A a \in DOMAIN mem2 : a <= f \/ f + TOP_FOOT_SIZE <= a
    BY <1>0, <1>1 DEF Vacant, TOP_FOOT_SIZE
  <2>2. DOMAIN mem2 \subseteq Nat \ {0}
    BY <1>0, <1>1, <1>2
  <2>3. \A p \in DOMAIN mem2 : mem2[p] \in HeadType
    BY <1>0, <1>1, <1>3
  <2>4. \A p \in DOMAIN mem2 \ {f} : Sound(mem2, f, p)
    BY <1>0, <1>4, <1>5
  <2> QED BY <1>0, <2>1, <2>2, <2>3, <2>4 DEF Tiled
<1>7. Fenced(mem2) = Fenced(mem)
  <2>1. mem2[b].size # 0
    BY <1>0, <1>3
  <2>2. TOP_FOOT_SIZE # 0
    BY DEF TOP_FOOT_SIZE
  <2>3. mem2[f].size # 0
    BY <1>0, <1>3, <2>2
  <2> QED BY <1>0, <2>1, <2>3 DEF Fenced
<1>8. Frees(mem2, f) = Frees(mem, 0) \cup {b}
  BY <1>0, <1>1, <1>2, <1>3 DEF Frees
<1>9. Used(mem2) = Used(mem)
  <2>1. \A p \in DOMAIN mem : p \in Records(mem2) <=> p \in Records(mem)
    BY <1>0, <1>7 DEF Records
  <2> QED BY <1>0, <1>3, <1>7, <2>1 DEF Used
<1> QED BY <1>2, <1>6, <1>7, <1>8, <1>9 DEF Topped

\* A segment in front of the others is a segment.
LEMMA PrependedIs ==
    ASSUME NEW S, NEW seg \in Seq(S), NEW x \in S
    PROVE  LET t == <<x>> \o seg IN
           /\ t \in Seq(S) /\ Len(t) = Len(seg) + 1 /\ t[1] = x /\ t # <<>> /\ 1 \in DOMAIN t
           /\ \A i \in DOMAIN seg : i + 1 \in DOMAIN t /\ t[i + 1] = seg[i]
           /\ \A j \in DOMAIN t : j = 1 \/ (j \in Nat /\ j - 1 \in DOMAIN seg /\ t[j] = seg[j - 1])
OBVIOUS

\* The lowest address so far.
Lowest(a, b) == IF a = 0 \/ b < a THEN b ELSE a

\* The memory of m when it has no top any more, all segments closed by fenceposts.
Closed(m, mem) ==
    /\ Tiled(mem, 0)
    /\ \A i \in DOMAIN m.seg : m.seg[i].base \in DOMAIN mem /\ mem[m.seg[i].base].pin
    /\ \A p \in DOMAIN mem : InOne(m.seg, p, p + mem[p].size)
    /\ IsFiniteSet(Fenced(mem)) /\ Cardinality(Fenced(mem)) = Len(m.seg)

\* Nothing of it is in the new region.
LEMMA ClosedElsewhere ==
    ASSUME NEW m, Segments(m), NEW mem, Closed(m, mem), NEW b, NEW s, Fresh(m, b, s)
    PROVE  Vacant(mem, b, b + s)
<1>1. \A p \in DOMAIN mem : p \in Nat \ {0} /\ mem[p].size \in Nat
  BY DEF Closed, Tiled, HeadType
<1>2. b \in Nat /\ s \in Nat
  BY DEF Fresh
<1> SUFFICES ASSUME NEW p \in DOMAIN mem PROVE (p < b /\ p + mem[p].size <= b) \/ b + s <= p
  BY DEF Vacant
<1>3. PICK i \in DOMAIN m.seg : m.seg[i].base <= p /\ p + mem[p].size < m.seg[i].base + m.seg[i].size
  BY DEF Closed, InOne
<1>4. m.seg[i].base \in Nat /\ m.seg[i].size \in Nat
  BY SegmentIs
<1>5. b + s <= m.seg[i].base \/ m.seg[i].base + m.seg[i].size <= b
  BY DEF Fresh
<1> QED BY <1>1, <1>2, <1>3, <1>4, <1>5

\* Memory n is the closed memory mem with a new region from b on, all of which is top.
NewTop(m, mem, n, b, s, d) ==
    /\ DOMAIN n.mem = DOMAIN mem \cup {b, b + d} /\ \A a \in DOMAIN mem : n.mem[a] = mem[a]
    /\ n.mem[b] = Chunk(d, FALSE, TRUE, 0) /\ n.mem[b + d] = FootHead
    /\ n.top = b /\ n.topsize = d /\ n.seg = <<[base |-> b, size |-> s]>> \o m.seg
    /\ n.least_addr = Lowest(m.least_addr, b)

\* The memory is sound with the new top.
LEMMA NewTopLaid ==
    ASSUME NEW m, Segments(m), NEW mem, Closed(m, mem), NEW b, NEW s, Fresh(m, b, s),
           NEW d \in Nat, d # 0, s = d + TOP_FOOT_SIZE, NEW n, NewTop(m, mem, n, b, s, d)
    PROVE  /\ Laid(n) /\ Foot(n) = b + d /\ Frees(n.mem, Foot(n)) = Frees(mem, 0) \cup {b}
           /\ Used(n.mem) = Used(mem) /\ b \notin DOMAIN mem /\ Fenced(n.mem) = Fenced(mem)
<1> DEFINE f == b + d
           x == [base |-> b, size |-> s]
           t == n.seg
<1>1. /\ b \in Nat /\ b # 0 /\ s \in Nat /\ b + s <= MemoryEnd /\ f \in Nat /\ s # 0
      /\ b + s = f + TOP_FOOT_SIZE
      /\ f # b
  BY DEF Fresh, TOP_FOOT_SIZE
<1>2. /\ Foot(n) = f /\ n.top = b /\ n.topsize = d /\ n.least_addr = Lowest(m.least_addr, b)
      /\ n.top # NULL
  BY <1>1 DEF NewTop, Foot, NULL
<1> HIDE DEF f
<1>3. Vacant(mem, b, f + TOP_FOOT_SIZE)
  <2>1. Vacant(mem, b, b + s)
    BY ClosedElsewhere
  <2> QED BY <1>1, <2>1
<1>4. /\ Tiled(n.mem, f) /\ Fenced(n.mem) = Fenced(mem) /\ Frees(n.mem, f) = Frees(mem, 0) \cup {b}
      /\ Used(n.mem) = Used(mem) /\ b \notin DOMAIN mem /\ f \notin DOMAIN mem
  <2>1. /\ DOMAIN n.mem = DOMAIN mem \cup {b, f} /\ \A a \in DOMAIN mem : n.mem[a] = mem[a]
        /\ n.mem[b] = Chunk(d, FALSE, TRUE, 0) /\ n.mem[f] = FootHead
    BY DEF NewTop, f
  <2>2. Tiled(mem, 0) /\ f = b + d
    BY DEF Closed, f
  <2>3. TopIn(mem, n.mem, b, d, f)
    BY <1>3, <2>1, <2>2 DEF TopIn
  <2>4. Topped(mem, n.mem, b, f)
    BY <1>1, <2>2, <2>3, TopAdded
  <2> QED BY <2>4 DEF Topped
<1>5. x \in SegmentType /\ m.seg \in Seq(SegmentType) /\ t = <<x>> \o m.seg
  BY <1>1 DEF SegmentType, Segments, NewTop
<1>6. /\ t \in Seq(SegmentType) /\ Len(t) = Len(m.seg) + 1 /\ t[1] = x /\ t # <<>> /\ 1 \in DOMAIN t
      /\ \A i \in DOMAIN m.seg : i + 1 \in DOMAIN t /\ t[i + 1] = m.seg[i]
      /\ \A j \in DOMAIN t : j = 1 \/ (j \in Nat /\ j - 1 \in DOMAIN m.seg /\ t[j] = m.seg[j - 1])
  BY <1>5, PrependedIs
<1>7. /\ n.mem[b] = Chunk(d, FALSE, TRUE, 0) /\ DOMAIN n.mem = DOMAIN mem \cup {b, f}
      /\ \A a \in DOMAIN mem : n.mem[a] = mem[a]
  BY DEF NewTop, f
<1>8. n.mem[b].size = d /\ n.mem[b].cin = FALSE /\ n.mem[b].pin = TRUE
  BY <1>7 DEF Chunk
<1>9. x.base = b /\ x.size = s
  OBVIOUS
<1> HIDE DEF x, t
<1>10. TopIs(n)
  <2>1. t[1].base <= b /\ t[1].base + t[1].size = f + TOP_FOOT_SIZE
    BY <1>1, <1>6, <1>9
  <2>2. n.top \in Nat /\ n.topsize \in Nat /\ n.topsize > 0
    BY <1>1, <1>2
  <2>3. \E i \in DOMAIN n.seg : n.seg[i].base <= n.top
        /\ n.seg[i].base + n.seg[i].size = Foot(n) + TOP_FOOT_SIZE
    BY <1>2, <1>6, <2>1 DEF t
  <2> QED BY <1>2, <1>7, <1>8, <2>2, <2>3 DEF TopIs
<1>11. m.least_addr \in Nat /\ m.seg \in Seq(SegmentType) /\ (m.seg # <<>> => m.least_addr # 0)
  BY DEF Segments
<1>12. Segments(n)
  <2>1. n.least_addr \in Nat /\ n.least_addr # 0 /\ n.least_addr <= b
    BY <1>1, <1>2, <1>11 DEF Lowest
  <2>2. n.least_addr <= m.least_addr \/ m.seg = <<>>
    BY <1>1, <1>2, <1>11 DEF Lowest
  <2>3. SegmentsApart(t)
    <3> SUFFICES ASSUME NEW i \in DOMAIN t, NEW j \in DOMAIN t, i # j
                 PROVE  t[i].base + t[i].size <= t[j].base \/ t[j].base + t[j].size <= t[i].base
      BY DEF SegmentsApart
    <3>1. \A k \in DOMAIN m.seg : b + s <= m.seg[k].base \/ m.seg[k].base + m.seg[k].size <= b
      BY DEF Fresh
    <3>2. \A k, l \in DOMAIN m.seg : k # l =>
              m.seg[k].base + m.seg[k].size <= m.seg[l].base \/ m.seg[l].base + m.seg[l].size <= m.seg[k].base
      BY DEF Segments, SegmentsApart
    <3>3. CASE i = 1
      <4>1. j # 1 /\ j - 1 \in DOMAIN m.seg /\ t[j] = m.seg[j - 1]
        BY <1>6, <3>3
      <4> QED BY <1>6, <1>9, <3>1, <3>3, <4>1
    <3>4. CASE i # 1 /\ j = 1
      <4>1. i - 1 \in DOMAIN m.seg /\ t[i] = m.seg[i - 1]
        BY <1>6, <3>4
      <4> QED BY <1>6, <1>9, <3>1, <3>4, <4>1
    <3>5. CASE i # 1 /\ j # 1
      <4>1. /\ i - 1 \in DOMAIN m.seg /\ t[i] = m.seg[i - 1] /\ j - 1 \in DOMAIN m.seg
            /\ t[j] = m.seg[j - 1] /\ i - 1 # j - 1
        BY <1>6, <3>5
      <4> QED BY <3>2, <4>1
    <3> QED BY <3>3, <3>4, <3>5
  <2>4. \A i \in DOMAIN t : /\ t[i].base + t[i].size <= MemoryEnd /\ n.least_addr <= t[i].base
                            /\ t[i].base \in DOMAIN n.mem \ {f} /\ n.mem[t[i].base].pin
    <3> SUFFICES ASSUME NEW i \in DOMAIN t
                 PROVE /\ t[i].base + t[i].size <= MemoryEnd /\ n.least_addr <= t[i].base
                       /\ t[i].base \in DOMAIN n.mem \ {f} /\ n.mem[t[i].base].pin
      OBVIOUS
    <3>1. CASE i = 1
      BY <1>1, <1>6, <1>7, <1>8, <1>9, <2>1, <3>1
    <3>2. CASE i # 1
      <4>1. PICK k \in DOMAIN m.seg : t[i] = m.seg[k]
        BY <1>6, <3>2
      <4>2. /\ m.seg[k].base + m.seg[k].size <= MemoryEnd /\ m.least_addr <= m.seg[k].base
            /\ m.seg[k].base \in Nat
        BY SegmentIs DEF Segments
      <4>3. m.seg[k].base \in DOMAIN mem /\ mem[m.seg[k].base].pin
        BY DEF Closed
      <4>4. m.seg # <<>>
        BY <1>11
      <4>5. n.least_addr <= m.seg[k].base
        BY <1>11, <2>1, <2>2, <4>2, <4>4
      <4> QED BY <1>4, <1>7, <4>1, <4>2, <4>3, <4>5
    <3> QED BY <3>1, <3>2
  <2>5. \A p \in DOMAIN n.mem \ {f} : InOne(t, p, p + n.mem[p].size)
    <3> SUFFICES ASSUME NEW p \in DOMAIN n.mem \ {f} PROVE InOne(t, p, p + n.mem[p].size)
      OBVIOUS
    <3>1. CASE p = b
      <4>1. t[1].base <= b /\ b + d < t[1].base + t[1].size
        BY <1>1, <1>6, <1>9 DEF TOP_FOOT_SIZE
      <4> QED BY <1>6, <1>8, <3>1, <4>1 DEF InOne
    <3>2. CASE p # b
      <4>1. p \in DOMAIN mem /\ n.mem[p] = mem[p]
        BY <1>7, <3>2
      <4>2. PICK i \in DOMAIN m.seg : m.seg[i].base <= p
            /\ p + mem[p].size < m.seg[i].base + m.seg[i].size
        BY <4>1 DEF Closed, InOne
      <4>3. i + 1 \in DOMAIN t /\ t[i + 1] = m.seg[i]
        BY <1>6
      <4> QED BY <4>1, <4>2, <4>3 DEF InOne
    <3> QED BY <3>1, <3>2
  <2> QED BY <1>2, <1>6, <2>1, <2>3, <2>4, <2>5 DEF Segments, t
<1>13. FencesAreCounted(n)
  <2>1. IsFiniteSet(Fenced(n.mem)) /\ Cardinality(Fenced(n.mem)) = Len(m.seg) /\ Len(m.seg) \in Nat
    BY <1>4, <1>5 DEF Closed
  <2>2. Len(n.seg) - 1 = Len(m.seg) /\ n.seg # <<>>
    BY <1>6, <2>1 DEF t
  <2> QED BY <2>1, <2>2 DEF FencesAreCounted
<1>14. Laid(n)
  BY <1>2, <1>4, <1>10, <1>12, <1>13 DEF Laid
<1> QED BY <1>2, <1>4, <1>14 DEF f

\* The type of a head.
LEMMA ChunkType ==
    ASSUME NEW s \in Nat, NEW c \in BOOLEAN, NEW p \in BOOLEAN, NEW f \in Nat
    PROVE  LET h == Chunk(s, c, p, f) IN
           /\ h \in HeadType /\ h.size = s /\ h.cin = c /\ h.pin = p /\ (~p => h.foot = f)
BY DEF Chunk, HeadType

\* Memory n is mem where top, which begins at a and ends at ft, has become the record at c
\* of its segment, the fencepost e and, unless it is too small, a free chunk.
Shut(mem, a, size, ft, c, e, n) ==
    /\ a \in DOMAIN mem /\ ft \in DOMAIN mem /\ mem[a].size = size /\ mem[a].cin = FALSE
    /\ mem[a].pin = TRUE
    /\ ft = a + size /\ c = (IF size < MIN_CHUNK_SIZE THEN a ELSE ft) /\ e = c + SEGMENT_SIZE
    /\ DOMAIN n = (DOMAIN mem \ {ft}) \cup {c, e}
    /\ \A p \in DOMAIN mem \ {a, ft} : n[p] = mem[p]
    /\ c = a => n[a] = Chunk(SEGMENT_SIZE, TRUE, TRUE, 0)
    /\ c # a => n[a] = Chunk(size, FALSE, TRUE, 0) /\ n[c] = Chunk(SEGMENT_SIZE, TRUE, FALSE, size)
    /\ n[e] = FENCEPOST

ShutIs(mem, a, size, ft, c, e, n) ==
    /\ a \in Nat /\ size \in Nat /\ ft \in Nat /\ c \in Nat /\ e \in Nat
    /\ a # 0 /\ a < ft /\ a <= c /\ c < e /\ e < ft + TOP_FOOT_SIZE /\ e # ft /\ c <= ft
    /\ n[a].pin = TRUE /\ n[c].cin = TRUE /\ n[c].size = SEGMENT_SIZE
    /\ \A p \in {a, c, e} : n[p] \in HeadType
    /\ e \notin DOMAIN mem /\ (c = a \/ c = ft)
    /\ \A p \in DOMAIN mem \ {a, ft} : /\ p \in Nat \ {0} /\ mem[p].size \in Nat
                                       /\ (p < a /\ p + mem[p].size <= a) \/ ft + TOP_FOOT_SIZE <= p

\* Which heads there are then.
LEMMA ShutHeads ==
    ASSUME NEW mem, NEW a, NEW size, NEW ft, Tiled(mem, ft), NEW c, NEW e, NEW n,
           Shut(mem, a, size, ft, c, e, n),
           size # 0
    PROVE  ShutIs(mem, a, size, ft, c, e, n)
<1>0. /\ a \in DOMAIN mem /\ ft \in DOMAIN mem /\ mem[a].size = size /\ mem[a].cin = FALSE
      /\ mem[a].pin = TRUE
      /\ ft = a + size /\ c = (IF size < MIN_CHUNK_SIZE THEN a ELSE ft) /\ e = c + SEGMENT_SIZE
      /\ c = a => n[a] = Chunk(SEGMENT_SIZE, TRUE, TRUE, 0)
      /\ c # a => n[a] = Chunk(size, FALSE, TRUE, 0) /\ n[c] = Chunk(SEGMENT_SIZE, TRUE, FALSE, size)
      /\ n[e] = FENCEPOST
  BY DEF Shut
<1>1. \A p \in DOMAIN mem : p \in Nat \ {0} /\ mem[p].size \in Nat
  BY DEF Tiled, HeadType
<1>2. a \in Nat /\ size \in Nat /\ ft \in Nat /\ a # 0 /\ a < ft
  BY <1>0, <1>1
<1>3. c \in Nat /\ e \in Nat /\ a <= c /\ c < e /\ e < ft + TOP_FOOT_SIZE /\ e # ft /\ c <= ft
      /\ (c = a \/ c = ft)
  BY <1>0, <1>2 DEF MIN_CHUNK_SIZE, SEGMENT_SIZE, TOP_FOOT_SIZE
<1>4. \A p \in DOMAIN mem : p <= a \/ ft <= p
  <2>1. Sound(mem, ft, a)
    BY <1>0, <1>2 DEF Tiled
  <2> QED BY <1>0, <2>1 DEF Sound
<1>5. \A p \in DOMAIN mem : p <= ft \/ ft + TOP_FOOT_SIZE <= p
  BY <1>0 DEF Tiled
<1>6. ASSUME NEW p \in DOMAIN mem \ {a, ft}
      PROVE  (p < a /\ p + mem[p].size <= a) \/ ft + TOP_FOOT_SIZE <= p
  <2>1. p < a \/ ft + TOP_FOOT_SIZE <= p
    BY <1>1, <1>2, <1>4, <1>5
  <2>2. p < a => p + mem[p].size <= a
    BY <1>0, Apart
  <2> QED BY <2>1, <2>2
<1>7. n[a].pin = TRUE /\ n[c].cin = TRUE /\ n[c].size = SEGMENT_SIZE
  BY <1>0 DEF Chunk
<1>8. \A p \in {a, c, e} : n[p] \in HeadType
  <2>1. n[e] \in HeadType
    BY <1>0 DEF FENCEPOST, Chunk, HeadType
  <2>2. SEGMENT_SIZE \in Nat
    BY DEF SEGMENT_SIZE
  <2>3. c = a => n[a] \in HeadType
    <3>1. Chunk(SEGMENT_SIZE, TRUE, TRUE, 0) \in HeadType
      BY <2>2, ChunkType
    <3> QED BY <1>0, <3>1
  <2>4. c # a => n[a] \in HeadType /\ n[c] \in HeadType
    <3>1. /\ Chunk(size, FALSE, TRUE, 0) \in HeadType
          /\ Chunk(SEGMENT_SIZE, TRUE, FALSE, size) \in HeadType
      BY <1>2, <2>2, ChunkType
    <3> QED BY <1>0, <3>1
  <2> QED BY <2>1, <2>3, <2>4
<1>9. e \notin DOMAIN mem
  BY <1>2, <1>3, <1>4, <1>5 DEF TOP_FOOT_SIZE
<1> QED BY <1>1, <1>2, <1>3, <1>6, <1>7, <1>8, <1>9 DEF ShutIs

\* They are sound.
LEMMA ShutTiled ==
    ASSUME NEW mem, NEW a, NEW size, NEW ft, Tiled(mem, ft), NEW c, NEW e, NEW n,
           Shut(mem, a, size, ft, c, e, n),
           size # 0
    PROVE  Tiled(n, 0)
<1>0. /\ a \in DOMAIN mem /\ ft \in DOMAIN mem /\ mem[a].size = size /\ mem[a].cin = FALSE
      /\ mem[a].pin = TRUE
      /\ ft = a + size /\ c = (IF size < MIN_CHUNK_SIZE THEN a ELSE ft) /\ e = c + SEGMENT_SIZE
      /\ DOMAIN n = (DOMAIN mem \ {ft}) \cup {c, e}
      /\ \A p \in DOMAIN mem \ {a, ft} : n[p] = mem[p]
      /\ c = a => n[a] = Chunk(SEGMENT_SIZE, TRUE, TRUE, 0)
      /\ c # a => n[a] = Chunk(size, FALSE, TRUE, 0) /\ n[c] = Chunk(SEGMENT_SIZE, TRUE, FALSE, size)
      /\ n[e] = FENCEPOST
  BY DEF Shut
<1>a. ShutIs(mem, a, size, ft, c, e, n)
  BY ShutHeads
<1>1. /\ a \in Nat /\ size \in Nat /\ ft \in Nat /\ c \in Nat /\ e \in Nat
      /\ a # 0 /\ a < ft /\ a <= c /\ c < e /\ e < ft + TOP_FOOT_SIZE /\ e # ft /\ c <= ft
      /\ n[a].pin = TRUE /\ n[c].cin = TRUE /\ n[c].size = SEGMENT_SIZE
      /\ \A p \in {a, c, e} : n[p] \in HeadType
      /\ e \notin DOMAIN mem /\ (c = a \/ c = ft)
  BY <1>a DEF ShutIs
<1>2. \A p \in DOMAIN mem \ {a, ft} : /\ p \in Nat \ {0} /\ mem[p].size \in Nat
                                      /\ (p < a /\ p + mem[p].size <= a) \/ ft + TOP_FOOT_SIZE <= p
  BY <1>a DEF ShutIs
<1>3. ASSUME NEW p \in DOMAIN mem \ {a, ft} PROVE Sound(n, 0, p)
  <2> DEFINE h == mem[p]
             k == p + h.size
             q == p - h.foot
             f == p - SEGMENT_SIZE
  <2>1. n[p] = h /\ p \in Nat /\ p # 0 /\ h.size \in Nat
        /\ ((p < a /\ k <= a) \/ ft + TOP_FOOT_SIZE <= p)
    BY <1>0, <1>2
  <2>2. Sound(mem, ft, p)
    BY DEF Tiled
  <2>3. /\ h.cin \/ h.pin
        /\ ~h.pin => h.foot # 0 /\ q \in DOMAIN mem /\ q # ft /\ ~mem[q].cin /\ mem[q].size = h.foot
        /\ h.size = 0 => h = FENCEPOST /\ f \in DOMAIN mem /\ mem[f].size = SEGMENT_SIZE /\ mem[f].cin
        /\ h.size # 0 => /\ k \in DOMAIN mem /\ mem[k].pin = h.cin
                         /\ k # ft => h.size >= MIN_CHUNK_SIZE /\ (~h.cin => mem[k].foot = h.size)
                         /\ \A b \in DOMAIN mem : b <= p \/ k <= b
    BY <2>2 DEF Sound
  <2>4. h.foot \in Nat /\ mem[ft].cin = FALSE
    BY <1>0 DEF Tiled, HeadType, FootHead, Chunk
  <2>5. ~h.pin => q # a
    <3> SUFFICES ASSUME ~h.pin, q = a PROVE FALSE
      OBVIOUS
    <3>1. h.foot = size
      BY <1>0, <2>3
    <3> QED BY <1>0, <1>1, <2>1, <2>4, <3>1
  <2>6. h.size # 0 => k # ft
    BY <1>1, <2>1 DEF TOP_FOOT_SIZE
  <2>7. h.size # 0 => \A b \in DOMAIN n : b <= p \/ k <= b
    <3> SUFFICES ASSUME h.size # 0, NEW b \in DOMAIN n PROVE b <= p \/ k <= b
      OBVIOUS
    <3>1. CASE b \in DOMAIN mem
      BY <2>3, <3>1
    <3>2. CASE b \notin DOMAIN mem
      <4>1. b = e
        BY <1>0, <1>1, <3>2
      <4> QED BY <1>1, <2>1, <4>1 DEF TOP_FOOT_SIZE
    <3> QED BY <3>1, <3>2
  <2> HIDE DEF h, k, q, f
  <2>8. ~h.pin => h.foot # 0 /\ q \in DOMAIN n /\ q # 0 /\ ~n[q].cin /\ n[q].size = h.foot
    BY <1>0, <1>1, <1>2, <2>3, <2>5
  <2>9. h.size = 0 => h = FENCEPOST /\ f \in DOMAIN n /\ n[f].size = SEGMENT_SIZE /\ n[f].cin
    BY <1>0, <2>3, <2>4
  <2>10. h.size # 0 => /\ k \in DOMAIN n /\ n[k].pin = h.cin
                       /\ h.size >= MIN_CHUNK_SIZE /\ (~h.cin => n[k].foot = h.size)
    BY <1>0, <1>1, <2>3, <2>6
  <2> QED BY <2>1, <2>3, <2>7, <2>8, <2>9, <2>10 DEF Sound, h, k, q, f
<1>4. \A b \in DOMAIN n : b < a \/ b = a \/ b = c \/ b = e \/ ft + TOP_FOOT_SIZE <= b
  BY <1>0, <1>2
<1>5. Sound(n, 0, e)
  <2>1. e - SEGMENT_SIZE = c
    BY <1>0, <1>1 DEF SEGMENT_SIZE
  <2>2. n[e].cin = TRUE /\ n[e].pin = TRUE /\ n[e].size = 0
    BY <1>0 DEF FENCEPOST, Chunk
  <2> QED BY <1>0, <1>1, <2>1, <2>2 DEF Sound
<1>6. ASSUME n[c].pin => TRUE, ~n[c].pin => c # a PROVE Sound(n, 0, c)
  <2>1. n[e].pin = TRUE
    BY <1>0 DEF FENCEPOST, Chunk
  <2>2. SEGMENT_SIZE >= MIN_CHUNK_SIZE /\ SEGMENT_SIZE # 0
    BY DEF SEGMENT_SIZE, MIN_CHUNK_SIZE
  <2>3. \A b \in DOMAIN n : b <= c \/ e <= b
    <3> SUFFICES ASSUME NEW b \in DOMAIN n PROVE b <= c \/ e <= b
      OBVIOUS
    <3>1. b < a \/ b = a \/ b = c \/ b = e \/ ft + TOP_FOOT_SIZE <= b
      BY <1>4
    <3>2. b \in Nat
      BY <1>0, <1>1, <1>2
    <3> QED BY <1>1, <3>1, <3>2 DEF TOP_FOOT_SIZE
  <2>4. c # a => n[c].foot = size /\ c - size = a /\ n[a].cin = FALSE /\ n[a].size = size
    <3> SUFFICES ASSUME c # a PROVE n[c].foot = size /\ c - size = a /\ n[a].cin = FALSE /\ n[a].size = size
      OBVIOUS
    <3>1. c = ft
      BY <1>1
    <3>2. n[c].foot = size /\ n[a].cin = FALSE /\ n[a].size = size
      BY <1>0 DEF Chunk
    <3> QED BY <1>0, <1>1, <3>1, <3>2
  <2>5. a \in DOMAIN n /\ e \in DOMAIN n
    BY <1>0, <1>1
  <2>6. c + n[c].size = e
    BY <1>0, <1>1
  <2>7. ~n[c].pin => n[c].foot # 0 /\ c - n[c].foot = a /\ ~n[a].cin /\ n[a].size = n[c].foot
    BY <1>6, <2>4
  <2> QED BY <1>1, <2>1, <2>2, <2>3, <2>5, <2>6, <2>7 DEF Sound
<1>7. Sound(n, 0, c)
  <2>1. ~n[c].pin => c # a
    BY <1>1
  <2> QED BY <1>6, <2>1
<1>8. c # a => Sound(n, 0, a)
  <2> SUFFICES ASSUME c # a PROVE Sound(n, 0, a)
    OBVIOUS
  <2>1. c = ft /\ size >= MIN_CHUNK_SIZE
    BY <1>0, <1>1 DEF MIN_CHUNK_SIZE
  <2>2. n[a].size = size /\ n[a].cin = FALSE /\ n[c].pin = FALSE /\ n[c].foot = size
    BY <1>0 DEF Chunk
  <2>3. \A b \in DOMAIN n : b <= a \/ c <= b
    <3> SUFFICES ASSUME NEW b \in DOMAIN n PROVE b <= a \/ c <= b
      OBVIOUS
    <3>1. b < a \/ b = a \/ b = c \/ b = e \/ ft + TOP_FOOT_SIZE <= b
      BY <1>4
    <3>2. b \in Nat
      BY <1>0, <1>1, <1>2
    <3> QED BY <1>1, <3>1, <3>2 DEF TOP_FOOT_SIZE
  <2>4. a + n[a].size = c /\ c \in DOMAIN n /\ n[a].pin = TRUE
    BY <1>0, <1>1, <2>1, <2>2
  <2> QED BY <2>1, <2>2, <2>3, <2>4 DEF Sound
<1>9. DOMAIN n \subseteq Nat \ {0}
  BY <1>0, <1>1, <1>2
<1>10. \A p \in DOMAIN n : n[p] \in HeadType
  <2>1. \A p \in DOMAIN mem : mem[p] \in HeadType
    BY DEF Tiled
  <2> QED BY <1>0, <1>1, <2>1
<1>11. \A p \in DOMAIN n \ {0} : Sound(n, 0, p)
  BY <1>0, <1>3, <1>5, <1>7, <1>8
<1> QED BY <1>9, <1>10, <1>11 DEF Tiled

ShutLeaves(mem, a, ft, c, e, n) ==
    /\ Fenced(n) = Fenced(mem) \cup {e} /\ e \notin Fenced(mem) /\ Used(n) = Used(mem)
    /\ c = a => Frees(n, 0) = Frees(mem, ft) \ {a}
    /\ c # a => Frees(n, 0) = Frees(mem, ft)

\* The kinds of chunks they are heads of.
LEMMA ShutKinds ==
    ASSUME NEW mem, NEW a, NEW size, NEW ft, Tiled(mem, ft), NEW c, NEW e, NEW n,
           Shut(mem, a, size, ft, c, e, n),
           size # 0
    PROVE  ShutLeaves(mem, a, ft, c, e, n)
<1>0. /\ a \in DOMAIN mem /\ ft \in DOMAIN mem /\ mem[a].size = size /\ mem[a].cin = FALSE
      /\ mem[a].pin = TRUE
      /\ DOMAIN n = (DOMAIN mem \ {ft}) \cup {c, e} /\ e = c + SEGMENT_SIZE
      /\ \A p \in DOMAIN mem \ {a, ft} : n[p] = mem[p]
      /\ c # a => n[a] = Chunk(size, FALSE, TRUE, 0)
      /\ n[e] = FENCEPOST
  BY DEF Shut
<1>a. ShutIs(mem, a, size, ft, c, e, n)
  BY ShutHeads
<1>1. /\ a \in Nat /\ size \in Nat /\ ft \in Nat /\ c \in Nat /\ e \in Nat
      /\ a # 0 /\ a < ft /\ a <= c /\ c < e /\ e # ft
      /\ n[c].cin = TRUE /\ n[c].size = SEGMENT_SIZE
      /\ e \notin DOMAIN mem /\ (c = a \/ c = ft)
      /\ \A p \in DOMAIN mem \ {a, ft} : p \in Nat \ {0}
  BY <1>a DEF ShutIs
<1>2. mem[ft].size # 0 /\ mem[ft].cin = FALSE
  <2>1. mem[ft] = FootHead
    BY <1>0 DEF Tiled
  <2> QED BY <2>1 DEF FootHead, Chunk, TOP_FOOT_SIZE
<1>3. n[e].size = 0 /\ n[e].cin = TRUE
  BY <1>0 DEF FENCEPOST, Chunk
<1>4. c # a => n[a].size = size /\ n[a].cin = FALSE
  BY <1>0 DEF Chunk
<1>5. SEGMENT_SIZE # 0
  BY DEF SEGMENT_SIZE
<1>6. n[a].size # 0
  BY <1>1, <1>4, <1>5
<1>7. Fenced(n) = Fenced(mem) \cup {e}
  <2>1. ASSUME NEW p \in DOMAIN n PROVE n[p].size = 0 <=> (p \in Fenced(mem) \/ p = e)
    <3>1. CASE p \in {a, c, e}
      BY <1>0, <1>1, <1>2, <1>3, <1>5, <1>6, <3>1 DEF Fenced
    <3>2. CASE p \notin {a, c, e}
      BY <1>0, <3>2 DEF Fenced
    <3> QED BY <3>1, <3>2
  <2>2. Fenced(mem) \subseteq DOMAIN n
    BY <1>0, <1>2 DEF Fenced
  <2>3. e \in DOMAIN n
    BY <1>0
  <2> QED BY <2>1, <2>2, <2>3 DEF Fenced
<1>8. e \notin Fenced(mem)
  BY <1>1 DEF Fenced
<1>9. \A p \in DOMAIN mem \ {a, ft} : p \in Records(n) <=> p \in Records(mem)
  <2> SUFFICES ASSUME NEW p \in DOMAIN mem \ {a, ft} PROVE p + SEGMENT_SIZE \in Fenced(n) <=> p + SEGMENT_SIZE \in Fenced(mem)
    BY <1>0, <1>1 DEF Records
  <2>1. p + SEGMENT_SIZE # e
    BY <1>0, <1>1 DEF SEGMENT_SIZE
  <2> QED BY <1>7, <2>1
<1>10. c \in Records(n)
  BY <1>0, <1>7 DEF Records
<1>11. Used(n) = Used(mem)
  <2>1. ASSUME NEW p \in DOMAIN mem \ {a, ft} PROVE p \in Used(n) <=> p \in Used(mem)
    BY <1>0, <1>1, <1>7, <1>9 DEF Used
  <2>2. a \notin Used(mem) /\ ft \notin Used(mem)
    BY <1>0, <1>2 DEF Used
  <2>3. a \notin Used(n) /\ c \notin Used(n) /\ e \notin Used(n)
    BY <1>1, <1>4, <1>7, <1>10 DEF Used
  <2>4. ASSUME NEW p \in Used(n) PROVE p \in Used(mem)
    <3>1. p \in DOMAIN n /\ p \notin {a, c, e}
      BY <2>3 DEF Used
    <3>2. p \in DOMAIN mem \ {a, ft}
      BY <1>0, <3>1
    <3> QED BY <2>1, <3>2
  <2>5. ASSUME NEW p \in Used(mem) PROVE p \in Used(n)
    <3>1. p \in DOMAIN mem \ {a, ft}
      BY <2>2 DEF Used
    <3> QED BY <2>1, <3>1
  <2> QED BY <2>4, <2>5
<1>12. 0 \notin DOMAIN n
  BY <1>0, <1>1
<1>13. ASSUME NEW p \in DOMAIN mem \ {a, ft} PROVE p \in Frees(n, 0) <=> p \in Frees(mem, ft)
  BY <1>0, <1>12 DEF Frees
<1>14. a \in Frees(mem, ft) /\ ft \notin Frees(mem, ft) /\ c \notin Frees(n, 0) /\ e \notin Frees(n, 0)
  BY <1>0, <1>1, <1>3 DEF Frees
<1>15. c = a => Frees(n, 0) = Frees(mem, ft) \ {a}
  <2> SUFFICES ASSUME c = a PROVE Frees(n, 0) = Frees(mem, ft) \ {a}
    OBVIOUS
  <2>1. Frees(n, 0) \subseteq DOMAIN mem \ {a, ft}
    BY <1>0, <1>14 DEF Frees
  <2>2. Frees(mem, ft) \ {a} \subseteq DOMAIN mem \ {a, ft}
    BY DEF Frees
  <2> QED BY <1>13, <2>1, <2>2
<1>16. c # a => Frees(n, 0) = Frees(mem, ft)
  <2> SUFFICES ASSUME c # a PROVE Frees(n, 0) = Frees(mem, ft)
    OBVIOUS
  <2>1. a \in Frees(n, 0)
    BY <1>0, <1>1, <1>4 DEF Frees
  <2>2. Frees(n, 0) \ {a} \subseteq DOMAIN mem \ {a, ft}
    BY <1>0, <1>1, <1>14 DEF Frees
  <2>3. Frees(mem, ft) \ {a} \subseteq DOMAIN mem \ {a, ft}
    BY DEF Frees
  <2> QED BY <1>13, <1>14, <2>1, <2>2, <2>3
<1> QED BY <1>7, <1>8, <1>11, <1>15, <1>16 DEF ShutLeaves

\* The segment that holds top ends behind its foot.
LEMMA HoldsTop ==
    ASSUME NEW m, Laid(m), m.top # NULL, NEW i \in DOMAIN m.seg, m.seg[i].base <= m.top,
           m.top < m.seg[i].base + m.seg[i].size
    PROVE  m.seg[i].base + m.seg[i].size = Foot(m) + TOP_FOOT_SIZE
<1>1. Segments(m) /\ m.top \in Nat /\ m.topsize \in Nat /\ Foot(m) = m.top + m.topsize
  BY LaidIs
<1>2. PICK j \in DOMAIN m.seg : m.seg[j].base <= m.top
      /\ m.seg[j].base + m.seg[j].size = Foot(m) + TOP_FOOT_SIZE
  BY DEF Laid, TopIs
<1>3. m.top < m.seg[j].base + m.seg[j].size
  BY <1>1, <1>2 DEF TOP_FOOT_SIZE
<1>4. i = j
  BY <1>1, <1>2, <1>3, OneSegment
<1> QED BY <1>2, <1>4

\* All segments are closed then.
LEMMA ShutClosed ==
    ASSUME NEW m, Laid(m), m.top # NULL, NEW c, NEW e, NEW mem,
           Shut(m.mem, m.top, m.topsize, Foot(m), c, e, mem)
    PROVE  Closed(m, mem)
<1> DEFINE a == m.top
           size == m.topsize
           ft == Foot(m)
<1>1. /\ Segments(m) /\ Tiled(m.mem, ft) /\ a \in Nat /\ size \in Nat /\ ft \in Nat /\ ft = a + size
      /\ size # 0 /\ m.mem[a].pin = TRUE /\ FencesAreCounted(m)
  BY LaidIs, TopIsFree
<1>2. Tiled(mem, 0)
  BY <1>1, ShutTiled
<1>3. Fenced(mem) = Fenced(m.mem) \cup {e} /\ e \notin Fenced(m.mem)
  <2>1. ShutLeaves(m.mem, a, ft, c, e, mem)
    BY <1>1, ShutKinds
  <2> QED BY <2>1 DEF ShutLeaves
<1>4. ShutIs(m.mem, a, size, ft, c, e, mem)
  BY <1>1, ShutHeads
<1>5. /\ c \in Nat /\ e \in Nat /\ a <= c /\ c < e /\ e < ft + TOP_FOOT_SIZE /\ a < ft /\ c <= ft
      /\ mem[a].pin = TRUE /\ mem[c].size = SEGMENT_SIZE /\ (c = a \/ c = ft)
  BY <1>4 DEF ShutIs
<1>6. /\ DOMAIN mem = (DOMAIN m.mem \ {ft}) \cup {c, e} /\ a \in DOMAIN m.mem
      /\ \A p \in DOMAIN m.mem \ {a, ft} : mem[p] = m.mem[p]
      /\ ft = a + size /\ e = c + SEGMENT_SIZE /\ mem[e] = FENCEPOST
      /\ c # a => mem[a] = Chunk(size, FALSE, TRUE, 0)
  BY DEF Shut
<1>7. PICK i \in DOMAIN m.seg : m.seg[i].base <= a /\ m.seg[i].base + m.seg[i].size = ft + TOP_FOOT_SIZE
  BY DEF Laid, TopIs
<1>8. m.seg[i].base \in Nat /\ m.seg[i].size \in Nat
  BY <1>1, SegmentIs
<1> HIDE DEF a, size, ft
<1>9. ASSUME NEW j \in DOMAIN m.seg PROVE m.seg[j].base \in DOMAIN mem /\ mem[m.seg[j].base].pin
  <2>1. m.seg[j].base \in DOMAIN m.mem \ {ft} /\ m.mem[m.seg[j].base].pin
    BY <1>1 DEF Segments, ft
  <2> QED BY <1>1, <1>5, <1>6, <2>1
<1>10. ASSUME NEW p \in DOMAIN mem PROVE InOne(m.seg, p, p + mem[p].size)
  <2>1. CASE p \in DOMAIN m.mem \ {a, ft}
    <3>1. mem[p] = m.mem[p] /\ InOne(m.seg, p, p + m.mem[p].size)
      BY <1>1, <1>6, <2>1 DEF Segments, ft
    <3> QED BY <3>1
  <2>2. CASE p = c
    <3>1. p + mem[p].size = e
      BY <1>5, <1>6, <2>2
    <3>2. m.seg[i].base <= p /\ e < m.seg[i].base + m.seg[i].size
      BY <1>1, <1>5, <1>7, <1>8, <2>2
    <3> QED BY <3>1, <3>2 DEF InOne
  <2>3. CASE p = e
    <3>1. p + mem[p].size = e
      BY <1>5, <1>6, <2>3 DEF FENCEPOST, Chunk
    <3>2. m.seg[i].base <= p /\ e < m.seg[i].base + m.seg[i].size
      BY <1>1, <1>5, <1>7, <1>8, <2>3
    <3> QED BY <3>1, <3>2 DEF InOne
  <2>4. CASE p = a /\ c # a
    <3>1. p + mem[p].size = ft
      BY <1>1, <1>6, <2>4 DEF Chunk
    <3>2. m.seg[i].base <= p /\ ft < m.seg[i].base + m.seg[i].size
      BY <1>1, <1>7, <1>8, <2>4 DEF TOP_FOOT_SIZE
    <3> QED BY <3>1, <3>2 DEF InOne
  <2> QED BY <1>6, <2>1, <2>2, <2>3, <2>4
<1>11. IsFiniteSet(Fenced(mem)) /\ Cardinality(Fenced(mem)) = Len(m.seg)
  <2>1. IsFiniteSet(Fenced(m.mem)) /\ Cardinality(Fenced(m.mem)) = Len(m.seg) - 1
    BY <1>1, <1>7 DEF FencesAreCounted, Segments
  <2>2. /\ IsFiniteSet(Fenced(mem))
        /\ Cardinality(Fenced(mem)) = Cardinality(Fenced(m.mem)) + 1
    BY <1>3, <2>1, FS_AddElement
  <2>3. Len(m.seg) \in Nat
    BY <1>1 DEF Segments
  <2> QED BY <2>1, <2>2, <2>3
<1> QED BY <1>2, <1>9, <1>10, <1>11 DEF Closed

\* Memory mem has a top of size size from a to ft, and c and e are where the record of its
\* segment and the fencepost go; a new region, of which d is for the new top, is at b.
Ground(mem, a, size, ft, c, e, b, d, f) ==
    /\ Tiled(mem, ft) /\ a \in DOMAIN mem /\ ft \in DOMAIN mem /\ mem[a].size = size
    /\ mem[a].cin = FALSE
    /\ mem[a].pin = TRUE /\ ft = a + size /\ size # 0
    /\ c = (IF size < MIN_CHUNK_SIZE THEN a ELSE ft) /\ e = c + SEGMENT_SIZE
    /\ b \in Nat /\ b # 0 /\ d \in Nat /\ d # 0 /\ f = b + d /\ Vacant(mem, b, f + TOP_FOOT_SIZE)

GroundFacts(mem, a, size, ft, c, e, b, d, f) ==
    /\ a \in Nat /\ size \in Nat /\ ft \in Nat /\ c \in Nat /\ e \in Nat /\ b \in Nat /\ d \in Nat
    /\ f \in Nat
    /\ a < ft /\ a <= c /\ c < e /\ e # ft /\ (c = a \/ c = ft) /\ b < f
    /\ \A p \in DOMAIN mem : p \in Nat /\ (p < a \/ p = a \/ p = ft \/ (e < p /\ ft < p))
    /\ \A p \in DOMAIN mem \cup {c, e} : p < b \/ f < p

\* What is known of these addresses.
LEMMA GroundIs ==
    ASSUME NEW mem, NEW a, NEW size, NEW ft, NEW c, NEW e, NEW b, NEW d, NEW f,
           Ground(mem, a, size, ft, c, e, b, d, f)
    PROVE  GroundFacts(mem, a, size, ft, c, e, b, d, f)
<1>0. /\ Tiled(mem, ft) /\ a \in DOMAIN mem /\ ft \in DOMAIN mem /\ mem[a].size = size
      /\ mem[a].cin = FALSE
      /\ mem[a].pin = TRUE /\ ft = a + size /\ size # 0
      /\ c = (IF size < MIN_CHUNK_SIZE THEN a ELSE ft) /\ e = c + SEGMENT_SIZE
      /\ b \in Nat /\ b # 0 /\ d \in Nat /\ d # 0 /\ f = b + d /\ Vacant(mem, b, f + TOP_FOOT_SIZE)
  BY DEF Ground
<1>1. \A p \in DOMAIN mem : p \in Nat \ {0} /\ mem[p].size \in Nat
  BY <1>0 DEF Tiled, HeadType
<1>2. a \in Nat /\ size \in Nat /\ ft \in Nat /\ a # 0 /\ a < ft
  BY <1>0, <1>1
<1>3. c \in Nat /\ e \in Nat /\ a <= c /\ c < e /\ e < ft + TOP_FOOT_SIZE /\ e # ft /\ c <= ft
      /\ (c = a \/ c = ft)
  BY <1>0, <1>2 DEF MIN_CHUNK_SIZE, SEGMENT_SIZE, TOP_FOOT_SIZE
<1>4. \A p \in DOMAIN mem : p <= a \/ ft <= p
  <2>1. Sound(mem, ft, a)
    BY <1>0, <1>2 DEF Tiled
  <2> QED BY <1>0, <2>1 DEF Sound
<1>5. \A p \in DOMAIN mem : p <= ft \/ ft + TOP_FOOT_SIZE <= p
  BY <1>0 DEF Tiled
<1>6. \A p \in DOMAIN mem : p < a \/ p = a \/ p = ft \/ (e < p /\ ft < p)
  BY <1>1, <1>2, <1>3, <1>4, <1>5 DEF TOP_FOOT_SIZE
<1>7. f \in Nat /\ b < f
  BY <1>0
<1>8. \A p \in DOMAIN mem : (p < b /\ p + mem[p].size <= b) \/ f + TOP_FOOT_SIZE <= p
  BY <1>0 DEF Vacant
<1>9. \A p \in DOMAIN mem : p < b \/ f < p
  BY <1>1, <1>7, <1>8 DEF TOP_FOOT_SIZE
<1>10. mem[ft].size = TOP_FOOT_SIZE
  BY <1>0 DEF Tiled, FootHead, Chunk
<1>11. (a < b /\ a + size <= b) \/ f + TOP_FOOT_SIZE <= a
  BY <1>0, <1>8
<1>12. (ft < b /\ ft + TOP_FOOT_SIZE <= b) \/ f + TOP_FOOT_SIZE <= ft
  BY <1>0, <1>8, <1>10
<1>13. ft + TOP_FOOT_SIZE <= b \/ f + TOP_FOOT_SIZE <= a
  BY <1>0, <1>2, <1>7, <1>11, <1>12 DEF TOP_FOOT_SIZE
<1>14. (c < b /\ e < b) \/ (f < c /\ f < e)
  BY <1>0, <1>2, <1>3, <1>7, <1>13 DEF TOP_FOOT_SIZE
<1> QED BY <1>0, <1>1, <1>2, <1>3, <1>6, <1>7, <1>9, <1>14 DEF GroundFacts

\* The new top, the record and the fencepost are there, and nothing else is changed.
Begun(mem, a, ft, c, e, b, d, f, w) ==
    /\ DOMAIN w = {p \in DOMAIN mem : p = ft => c = ft} \cup {b, f, c, e}
    /\ \A p \in DOMAIN mem \ {c, ft} : w[p] = mem[p]
    /\ w[b] = Chunk(d, FALSE, TRUE, 0) /\ w[f] = FootHead
    /\ w[c] = Chunk(SEGMENT_SIZE, TRUE, TRUE, 0) /\ w[e] = FENCEPOST

\* What they have begun.
LEMMA BegunIs ==
    ASSUME NEW mem, NEW a, NEW size, NEW ft, NEW c, NEW e, NEW b, NEW d, NEW f,
           Ground(mem, a, size, ft, c, e, b, d, f),
           NEW x, HeadIsSet(mem, x, b, d, FALSE, TRUE), NEW y, y = With(x, f, FootHead),
           NEW z, HeadIsSet(y, z, c, SEGMENT_SIZE, TRUE, TRUE), NEW w, w = With(z, e, FENCEPOST)
    PROVE  Begun(mem, a, ft, c, e, b, d, f, w)
<1>1. GroundFacts(mem, a, size, ft, c, e, b, d, f)
  BY GroundIs
<1>2. /\ a \in Nat /\ size \in Nat /\ ft \in Nat /\ c \in Nat /\ e \in Nat /\ b \in Nat /\ d \in Nat
      /\ f \in Nat
      /\ a < ft /\ a <= c /\ c < e /\ e # ft /\ (c = a \/ c = ft) /\ b < f
      /\ \A p \in DOMAIN mem : p \in Nat /\ (p < a \/ p = a \/ p = ft \/ (e < p /\ ft < p))
      /\ \A p \in DOMAIN mem \cup {c, e} : p < b \/ f < p
  BY <1>1 DEF GroundFacts
<1>3. f = b + d /\ e = c + SEGMENT_SIZE /\ ft = a + size /\ (c = ft <=> ~(size < MIN_CHUNK_SIZE))
  BY <1>2 DEF Ground
<1>4. DOMAIN x = DOMAIN mem \cup {b} /\ (\A p \in DOMAIN mem : x[p] = mem[p])
      /\ x[b] = Chunk(d, FALSE, TRUE, 0)
  <2>1. b \notin DOMAIN mem
    BY <1>2
  <2>2. \A p \in DOMAIN mem : p < b \/ p >= b + d
    BY <1>2, <1>3
  <2>3. /\ DOMAIN x = {q \in DOMAIN mem : q < b \/ q >= b + d} \cup {b}
        /\ \A p \in DOMAIN x : p # b => x[p] = mem[p]
        /\ x[b] = Chunk(d, FALSE, TRUE, IF b \in DOMAIN mem THEN mem[b].foot ELSE 0)
    BY DEF HeadIsSet
  <2>4. DOMAIN x = DOMAIN mem \cup {b}
    BY <2>2, <2>3
  <2> QED BY <2>1, <2>3, <2>4
<1>5. /\ DOMAIN y = DOMAIN mem \cup {b, f} /\ (\A p \in DOMAIN mem : y[p] = mem[p])
      /\ y[b] = Chunk(d, FALSE, TRUE, 0) /\ y[f] = FootHead
  <2>1. f \notin DOMAIN mem /\ f # b /\ f \notin DOMAIN x
    BY <1>2, <1>4
  <2>2. DOMAIN y = DOMAIN x \cup {f} /\ y[f] = FootHead /\ \A p \in DOMAIN x : p # f => y[p] = x[p]
    BY DEF With
  <2> QED BY <1>4, <2>1, <2>2
<1>6. /\ DOMAIN z = {q \in DOMAIN y : q < c \/ q >= e} \cup {c}
         /\ \A p \in DOMAIN z : p # c => z[p] = y[p]
      /\ z[c] = Chunk(SEGMENT_SIZE, TRUE, TRUE, 0)
  <2>1. \A g : Chunk(SEGMENT_SIZE, TRUE, TRUE, g) = Chunk(SEGMENT_SIZE, TRUE, TRUE, 0)
    BY DEF Chunk
  <2>2. /\ DOMAIN z = {q \in DOMAIN y : q < c \/ q >= c + SEGMENT_SIZE} \cup {c}
           /\ \A p \in DOMAIN z : p # c => z[p] = y[p]
        /\ \E g : z[c] = Chunk(SEGMENT_SIZE, TRUE, TRUE, g)
    BY DEF HeadIsSet
  <2> QED BY <1>3, <2>1, <2>2
<1>7. \A q \in DOMAIN mem : (q < c \/ q >= e \/ q = c) <=> (q = ft => c = ft)
  BY <1>2, <1>3 DEF SEGMENT_SIZE, MIN_CHUNK_SIZE
<1>8. /\ b < c \/ b >= e
      /\ f < c \/ f >= e
      /\ c \notin {b, f} /\ e \notin {b, f}
  <2>1. (c < b \/ f < c) /\ (e < b \/ f < e)
    BY <1>2
  <2>2. e < b \/ f < c
    <3>1. CASE f < c
      BY <3>1
    <3>2. CASE c < b
      <4>1. CASE e < b
        BY <4>1
      <4>2. CASE f < e
        <5>1. d > 0 /\ TOP_FOOT_SIZE > SEGMENT_SIZE
          BY <1>2, <1>3 DEF TOP_FOOT_SIZE, SEGMENT_SIZE
        <5>2. \A p \in DOMAIN mem : (p < b /\ p + mem[p].size <= b) \/ f + TOP_FOOT_SIZE <= p
          BY DEF Ground, Vacant
        <5>3. /\ a \in DOMAIN mem /\ ft \in DOMAIN mem /\ mem[a].size = size
              /\ mem[ft].size = TOP_FOOT_SIZE
          BY DEF Ground, Tiled, FootHead, Chunk
        <5>4. (a < b /\ a + size <= b) \/ f + TOP_FOOT_SIZE <= a
          BY <5>2, <5>3
        <5>5. (ft < b /\ ft + TOP_FOOT_SIZE <= b) \/ f + TOP_FOOT_SIZE <= ft
          BY <5>2, <5>3
        <5>6. c = ft \/ (c = a /\ ft = a + 1)
          <6>1. size # 0
            BY DEF Ground
          <6> QED BY <1>2, <1>3, <6>1 DEF MIN_CHUNK_SIZE
        <5> QED BY <1>2, <1>3, <3>2, <4>2, <5>4, <5>5, <5>6 DEF TOP_FOOT_SIZE, SEGMENT_SIZE
      <4> QED BY <2>1, <4>1, <4>2
    <3> QED BY <2>1, <3>1, <3>2
  <2> QED BY <1>2, <2>1, <2>2
<1>9. DOMAIN z = {p \in DOMAIN mem : p = ft => c = ft} \cup {b, f, c}
  BY <1>5, <1>6, <1>7, <1>8
<1>10. DOMAIN w = {p \in DOMAIN mem : p = ft => c = ft} \cup {b, f, c, e}
  BY <1>9 DEF With
<1>11. w[e] = FENCEPOST /\ \A p \in DOMAIN z \ {e} : w[p] = z[p]
  BY DEF With
<1>12. e \notin DOMAIN mem
  BY <1>2
<1>13. \A p \in DOMAIN mem \ {c, ft} : w[p] = mem[p]
  BY <1>5, <1>6, <1>9, <1>11, <1>12
<1>14. w[b] = Chunk(d, FALSE, TRUE, 0) /\ w[f] = FootHead
  BY <1>5, <1>6, <1>8, <1>9, <1>11
<1>15. w[c] = Chunk(SEGMENT_SIZE, TRUE, TRUE, 0)
  <2>1. c \in DOMAIN z
    BY <1>6
  <2>2. c # e
    BY <1>2
  <2>3. w[c] = z[c]
    BY <1>11, <2>1, <2>2
  <2> QED BY <1>6, <2>3
<1> QED BY <1>10, <1>11, <1>13, <1>14, <1>15 DEF Begun

\* The new top is not within the old one.
LEMMA GroundApart ==
    ASSUME NEW mem, NEW a, NEW size, NEW ft, NEW c, NEW e, NEW b, NEW d, NEW f,
           Ground(mem, a, size, ft, c, e, b, d, f)
    PROVE  f < a \/ ft < b
<1>1. /\ a \in Nat /\ size \in Nat /\ ft \in Nat /\ b \in Nat /\ d \in Nat /\ f \in Nat /\ b < f
      /\ \A p \in DOMAIN mem : p < b \/ f < p
  BY GroundIs DEF GroundFacts
<1>2. a \in DOMAIN mem /\ ft \in DOMAIN mem /\ mem[a].size = size /\ ft = a + size
      /\ \A p \in DOMAIN mem : (p < b /\ p + mem[p].size <= b) \/ f + TOP_FOOT_SIZE <= p
  BY DEF Ground, Vacant
<1>3. (a < b /\ ft <= b) \/ f + TOP_FOOT_SIZE <= a
  BY <1>2
<1>4. ft < b \/ f < ft
  BY <1>1, <1>2
<1> QED BY <1>1, <1>3, <1>4 DEF TOP_FOOT_SIZE

\* The memory where top has become a chunk, a record and a fencepost, and the new region top.
Added(mem, a, size, ft, c, e, b, d, f, n) == \E s :
    /\ Shut(mem, a, size, ft, c, e, s)
    /\ DOMAIN n = DOMAIN s \cup {b, f} /\ \A p \in DOMAIN s : n[p] = s[p]
    /\ n[b] = Chunk(d, FALSE, TRUE, 0) /\ n[f] = FootHead

\* It is that when what is left of top is too small for a chunk.
LEMMA AddedSmall ==
    ASSUME NEW mem, NEW a, NEW size, NEW ft, NEW c, NEW e, NEW b, NEW d, NEW f,
           Ground(mem, a, size, ft, c, e, b, d, f),
           NEW w, Begun(mem, a, ft, c, e, b, d, f, w), c = a
    PROVE  Added(mem, a, size, ft, c, e, b, d, f, w)
<1>1. /\ a \in Nat /\ ft \in Nat /\ e \in Nat /\ c \in Nat /\ a < ft /\ e # ft /\ c < e
      /\ \A p \in DOMAIN mem \cup {c, e} : p < b \/ f < p
      /\ b \in Nat /\ f \in Nat /\ b < f
  BY GroundIs DEF GroundFacts
<1>2. /\ DOMAIN w = {p \in DOMAIN mem : p = ft => c = ft} \cup {b, f, c, e}
      /\ \A p \in DOMAIN mem \ {c, ft} : w[p] = mem[p]
      /\ w[b] = Chunk(d, FALSE, TRUE, 0) /\ w[f] = FootHead
      /\ w[c] = Chunk(SEGMENT_SIZE, TRUE, TRUE, 0) /\ w[e] = FENCEPOST
  BY DEF Begun
<1>3. c # ft
  BY <1>1
<1>4. DOMAIN w = ((DOMAIN mem \ {ft}) \cup {c, e}) \cup {b, f}
  BY <1>2, <1>3
<1> DEFINE s == [p \in (DOMAIN mem \ {ft}) \cup {c, e} |-> w[p]]
<1>5. DOMAIN s = (DOMAIN mem \ {ft}) \cup {c, e} /\ \A p \in DOMAIN s : w[p] = s[p]
  OBVIOUS
<1> HIDE DEF s
<1>6. \A p \in DOMAIN mem \ {a, ft} : s[p] = mem[p]
  BY <1>2, <1>5
<1>7. s[a] = Chunk(SEGMENT_SIZE, TRUE, TRUE, 0) /\ s[e] = FENCEPOST
  BY <1>2, <1>5
<1>8. /\ a \in DOMAIN mem /\ ft \in DOMAIN mem /\ mem[a].size = size /\ mem[a].cin = FALSE
      /\ mem[a].pin = TRUE
      /\ ft = a + size /\ c = (IF size < MIN_CHUNK_SIZE THEN a ELSE ft) /\ e = c + SEGMENT_SIZE
  BY DEF Ground
<1>9. Shut(mem, a, size, ft, c, e, s)
  BY <1>5, <1>6, <1>7, <1>8 DEF Shut
<1> QED BY <1>2, <1>4, <1>5, <1>9 DEF Added

\* It is that when a free chunk is left of top.
LEMMA AddedLarge ==
    ASSUME NEW mem, NEW a, NEW size, NEW ft, NEW c, NEW e, NEW b, NEW d, NEW f,
           Ground(mem, a, size, ft, c, e, b, d, f),
           NEW w, Begun(mem, a, ft, c, e, b, d, f, w), c # a,
           NEW u, PinIsCleared(w, u, c), NEW v, HeadIsSet(u, v, a, size, FALSE, TRUE), NEW n, FootIsSet(v, n, c, size)
    PROVE  Added(mem, a, size, ft, c, e, b, d, f, n)
<1>1. /\ a \in Nat /\ size \in Nat /\ ft \in Nat /\ e \in Nat /\ c \in Nat /\ a < ft /\ e # ft /\ c < e
         /\ (c = a \/ c = ft)
      /\ \A p \in DOMAIN mem \cup {c, e} : p < b \/ f < p
      /\ \A p \in DOMAIN mem : p \in Nat /\ (p < a \/ p = a \/ p = ft \/ (e < p /\ ft < p))
      /\ b \in Nat /\ f \in Nat /\ b < f
  BY GroundIs DEF GroundFacts
<1>2. /\ DOMAIN w = {p \in DOMAIN mem : p = ft => c = ft} \cup {b, f, c, e}
      /\ \A p \in DOMAIN mem \ {c, ft} : w[p] = mem[p]
      /\ w[b] = Chunk(d, FALSE, TRUE, 0) /\ w[f] = FootHead
      /\ w[c] = Chunk(SEGMENT_SIZE, TRUE, TRUE, 0) /\ w[e] = FENCEPOST
  BY DEF Begun
<1>3. c = ft
  BY <1>1
<1>4. /\ a \in DOMAIN mem /\ ft \in DOMAIN mem /\ mem[a].size = size /\ mem[a].cin = FALSE
      /\ mem[a].pin = TRUE
      /\ ft = a + size /\ c = (IF size < MIN_CHUNK_SIZE THEN a ELSE ft) /\ e = c + SEGMENT_SIZE
  BY DEF Ground
<1>5. DOMAIN w = DOMAIN mem \cup {b, f, e}
  BY <1>2, <1>3, <1>4
<1>6. /\ DOMAIN u = DOMAIN w /\ \A p \in DOMAIN w : p # c => u[p] = w[p]
      /\ u[c] = [w[c] EXCEPT !.pin = FALSE]
  BY <1>2, <1>5 DEF PinIsCleared
<1>7. \A p \in DOMAIN u : p < a \/ p >= a + size \/ p = a
  <2>1. f < a \/ ft < b
    BY GroundApart
  <2>2. \A p \in DOMAIN mem : p < a \/ p >= ft \/ p = a
    BY <1>1
  <2> QED BY <1>1, <1>3, <1>4, <1>5, <1>6, <2>1, <2>2
<1>8. a \in DOMAIN u
  BY <1>4, <1>5, <1>6
<1>9. /\ DOMAIN v = {q \in DOMAIN u : q < a \/ q >= a + size} \cup {a}
      /\ \A p \in DOMAIN v : p # a => v[p] = u[p]
      /\ \E g : v[a] = Chunk(size, FALSE, TRUE, g)
  BY DEF HeadIsSet
<1>10. DOMAIN v = DOMAIN u /\ v[a] = Chunk(size, FALSE, TRUE, 0)
  <2>1. DOMAIN v = DOMAIN u
    BY <1>7, <1>8, <1>9
  <2>2. \A g : Chunk(size, FALSE, TRUE, g) = Chunk(size, FALSE, TRUE, 0)
    BY DEF Chunk
  <2> QED BY <1>9, <2>1, <2>2
<1>11. c \in DOMAIN v
  BY <1>2, <1>6, <1>10
<1>12. /\ DOMAIN n = DOMAIN v /\ \A p \in DOMAIN v : p # c => n[p] = v[p]
       /\ n[c] = [v[c] EXCEPT !.foot = size]
  BY <1>11 DEF FootIsSet
<1>13. n[c] = Chunk(SEGMENT_SIZE, TRUE, FALSE, size)
  <2>1. v[c] = [w[c] EXCEPT !.pin = FALSE]
    BY <1>6, <1>9, <1>11
  <2>2. v[c] = [Chunk(SEGMENT_SIZE, TRUE, TRUE, 0) EXCEPT !.pin = FALSE]
    BY <1>2, <2>1
  <2>3. n[c] = [[Chunk(SEGMENT_SIZE, TRUE, TRUE, 0) EXCEPT !.pin = FALSE] EXCEPT !.foot = size]
    BY <1>12, <2>2
  <2> QED BY <2>3 DEF Chunk
<1>14. n[a] = Chunk(size, FALSE, TRUE, 0)
  BY <1>8, <1>10, <1>12
<1>15. \A p \in DOMAIN w : p \notin {a, c} => n[p] = w[p]
  BY <1>6, <1>9, <1>10, <1>12
<1>16. DOMAIN n = DOMAIN w
  BY <1>6, <1>10, <1>12
<1>17. b \notin {a, c, e} /\ f \notin {a, c, e} /\ e \notin {a, c}
  BY <1>1, <1>3, <1>4
<1> DEFINE s == [p \in (DOMAIN mem \ {ft}) \cup {c, e} |-> n[p]]
<1>18. DOMAIN s = (DOMAIN mem \ {ft}) \cup {c, e} /\ \A p \in DOMAIN s : n[p] = s[p]
  OBVIOUS
<1> HIDE DEF s
<1>19. \A p \in DOMAIN mem \ {a, ft} : s[p] = mem[p]
  BY <1>2, <1>3, <1>5, <1>15, <1>18
<1>20. s[a] = Chunk(size, FALSE, TRUE, 0)
  BY <1>1, <1>4, <1>14, <1>18
<1>21. s[c] = Chunk(SEGMENT_SIZE, TRUE, FALSE, size)
  BY <1>13, <1>18
<1>22. s[e] = FENCEPOST
  <2>1. e \in DOMAIN w
    BY <1>5
  <2>2. n[e] = w[e]
    BY <1>15, <1>17, <2>1
  <2> QED BY <1>2, <1>18, <2>2
<1>23. Shut(mem, a, size, ft, c, e, s)
  BY <1>4, <1>18, <1>19, <1>20, <1>21, <1>22 DEF Shut
<1>24. DOMAIN n = DOMAIN s \cup {b, f}
  BY <1>3, <1>4, <1>5, <1>16, <1>18
<1>25. n[b] = Chunk(d, FALSE, TRUE, 0)
  <2>1. b \in DOMAIN w
    BY <1>5
  <2> QED BY <1>2, <1>15, <1>17, <2>1
<1>26. n[f] = FootHead
  <2>1. f \in DOMAIN w
    BY <1>5
  <2> QED BY <1>2, <1>15, <1>17, <2>1
<1> QED BY <1>18, <1>23, <1>24, <1>25, <1>26 DEF Added

WithLow(m, b) == [m EXCEPT !.least_addr = IF @ = 0 \/ b < @ THEN b ELSE @]
WithSegs(m, seg) == [m EXCEPT !.seg = seg]

\* Both change what they say and nothing else.
LEMMA WithLowIs ==
    ASSUME NEW m, DOMAIN m = Fields, NEW b, NEW seg
    PROVE  LET n == WithSegs(WithLow(m, b), seg) IN
           /\ DOMAIN n = Fields /\ n.mem = m.mem /\ n.top = m.top /\ n.topsize = m.topsize
           /\ n.smallmap = m.smallmap /\ n.treemap = m.treemap /\ n.smallbins = m.smallbins
           /\ n.treebins = m.treebins /\ n.dv = m.dv /\ n.dvsize = m.dvsize
           /\ n.least_addr = Lowest(m.least_addr, b) /\ n.seg = seg
BY DEF WithLow, WithSegs, Lowest, Fields

\* init_top makes a region top.
LEMMA InitTop ==
    ASSUME NEW m, DOMAIN m = Fields, NEW p, NEW s
    PROVE  LET r == init_top(m, p, s) IN
           /\ SameButMem(WithTop(m, p, s), r)
           /\ \E a : HeadIsSet(m.mem, a, p, s, FALSE, TRUE) /\ r.mem = With(a, p + s, FootHead)
<1> DEFINE n == set_top(m, p, s)
           r == init_top(m, p, s)
<1>1. SameButMem(WithTop(m, p, s), n) /\ HeadIsSet(m.mem, n.mem, p, s, FALSE, TRUE)
  BY TopSet
<1>2. DOMAIN WithTop(m, p, s) = Fields
  BY WithTopIs
<1>3. DOMAIN n = Fields
  BY <1>1, <1>2 DEF SameButMem
<1>4. r = [n EXCEPT !.mem = With(@, p + s, FootHead)]
  BY DEF init_top, FootHead
<1> HIDE DEF n, r
<1>5. SameButMem(n, r) /\ r.mem = With(n.mem, p + s, FootHead)
  BY <1>3, <1>4 DEF SameButMem, Fields
<1>6. SameButMem(WithTop(m, p, s), r)
  BY <1>1, <1>2, <1>5, SameAgain
<1> QED BY <1>1, <1>5, <1>6 DEF r

\* Memory n has the chunks in use of memory m.
SameUsed(m, n) == Used(n.mem) = Used(m.mem) /\ \A q \in Used(m.mem) : n.mem[q].size = m.mem[q].size

\* The closed memory of m: top is gone or, as S says, free.
Keeps(m, mem, S) ==
    /\ Used(mem) = Used(m.mem) /\ Frees(mem, 0) = (Frees(m.mem, Foot(m)) \ {m.top}) \cup S
    /\ \A p \in DOMAIN m.mem \ {m.top, Foot(m)} : p \in DOMAIN mem /\ mem[p].size = m.mem[p].size

\* The heap with a new region as top is sound.
LEMMA NewTopKept ==
    ASSUME NEW m, NEW X, Whole(m, X), NEW mem, Closed(m, mem), NEW b, NEW s, Fresh(m, b, s),
           NEW d \in Nat, d # 0, s = d + TOP_FOOT_SIZE, NEW n, NewTop(m, mem, n, b, s, d),
           SameBins(m, n), n.dv = m.dv, n.dvsize = m.dvsize, NEW S, S = {} \/ (S = {m.top} /\ m.top # NULL), Keeps(m, mem, S)
    PROVE  /\ DOMAIN n = Fields /\ Laid(n) /\ DvIs(n) /\ Kept(n, X, S) /\ S \subseteq Bare(n, {})
           /\ SameUsed(m, n)
           /\ n.topsize = d
<1>1. /\ DOMAIN m = Fields /\ Laid(m) /\ DvIs(m) /\ DOMAIN X = Frees(m.mem, Foot(m)) \ {m.top, m.dv}
      /\ Stored(m, X) /\ Shown(m, X) /\ NULL \notin DOMAIN m.mem
      /\ (m.dv # NULL => m.dv \in Frees(m.mem, Foot(m)) /\ m.dv # m.top)
  <2>1. /\ DOMAIN m = Fields /\ Laid(m) /\ DvIs(m) /\ DOMAIN X = Bare(m, {})
        /\ Stored(m, X) /\ Shown(m, X) /\ NULL \notin DOMAIN m.mem
        /\ m.dv # NULL => m.dv \in Frees(m.mem, Foot(m)) /\ m.dv # m.top
    BY IsWhole
  <2> QED BY <2>1 DEF Bare
<1>2. Segments(m)
  BY <1>1 DEF Laid
<1>3. /\ Laid(n) /\ Foot(n) = b + d /\ Frees(n.mem, Foot(n)) = Frees(mem, 0) \cup {b}
      /\ Used(n.mem) = Used(mem) /\ b \notin DOMAIN mem
  BY <1>2, NewTopLaid
<1>4. /\ \A a \in DOMAIN mem : n.mem[a] = mem[a]
      /\ n.top = b /\ n.topsize = d
  BY DEF NewTop
<1>5. /\ Used(mem) = Used(m.mem) /\ Frees(mem, 0) = (Frees(m.mem, Foot(m)) \ {m.top}) \cup S
      /\ \A p \in DOMAIN m.mem \ {m.top, Foot(m)} : p \in DOMAIN mem /\ mem[p].size = m.mem[p].size
  BY DEF Keeps
<1>6. \A p \in Frees(m.mem, Foot(m)) \ {m.top} : p \in DOMAIN mem /\ n.mem[p].size = m.mem[p].size
      /\ p # b
  BY <1>3, <1>4, <1>5 DEF Frees
<1>7. \A p \in Frees(mem, 0) : p # b
  BY <1>3 DEF Frees
<1>8. DvIs(n)
  BY <1>1, <1>3, <1>4, <1>5, <1>6 DEF DvIs
<1>9. DOMAIN n = Fields
  BY <1>1 DEF SameBins
<1>10. Kept(n, X, S)
  <2>1. m.top \notin DOMAIN X /\ m.dv \notin DOMAIN X /\ b \notin DOMAIN X
    BY <1>1, <1>6
  <2>2. DOMAIN X = Frees(n.mem, Foot(n)) \ ({n.top, n.dv} \cup S)
    <3>1. S = {} \/ S = {m.top}
      OBVIOUS
    <3> QED BY <1>1, <1>3, <1>4, <1>5, <2>1, <3>1
  <2>3. Shown(n, X)
    BY <1>1, <1>6 DEF Shown, chunksize
  <2>4. Stored(n, X)
    BY <1>1, StoredStays
  <2> QED BY <2>2, <2>3, <2>4 DEF Kept
<1>11. S \subseteq Bare(n, {})
  <2>1. CASE S = {}
    BY <2>1
  <2>2. CASE S = {m.top} /\ m.top # NULL
    <3>1. m.top # m.dv
      BY <1>1, <2>2
    <3>2. m.top \in Frees(mem, 0)
      BY <1>5, <2>2
    <3> QED BY <1>3, <1>4, <1>7, <2>2, <3>1, <3>2 DEF Bare
  <2> QED BY <2>1, <2>2
<1>12. SameUsed(m, n)
  <2> SUFFICES ASSUME NEW q \in Used(m.mem) PROVE n.mem[q].size = m.mem[q].size
    BY <1>3, <1>5 DEF SameUsed
  <2>1. q \in DOMAIN m.mem \ {Foot(m)} /\ q \notin Frees(m.mem, Foot(m)) /\ q \in DOMAIN m.mem
    BY <1>1, UsedIs
  <2>2. q # m.top
    <3>1. m.top # NULL => m.top \in Frees(m.mem, Foot(m))
      BY IsWhole
    <3> QED BY <1>1, <2>1, <3>1
  <2> QED BY <1>4, <1>5, <2>1, <2>2
<1> QED BY <1>3, <1>4, <1>8, <1>9, <1>10, <1>11, <1>12

\* The heap n is the heap m with a larger top.
Extended(m, n, size) == (\E Y : Whole(n, Y)) /\ SameUsed(m, n) /\ n.topsize = size

\* The first region becomes top.
LEMMA FirstRegion ==
    ASSUME NEW m, NEW X, Whole(m, X), m.top = NULL, NEW b \in Nat, b # 0, NEW s \in Nat, Fresh(m, b, s),
           NEW d \in Nat, d # 0,
           s = d + TOP_FOOT_SIZE
    PROVE  Extended(m, init_top(WithSegs(WithLow(m, b), <<[base |-> b, size |-> s]>>), b, d), d)
<1> DEFINE n0 == WithSegs(WithLow(m, b), <<[base |-> b, size |-> s]>>)
           n == init_top(n0, b, d)
<1>1. /\ DOMAIN m = Fields /\ Laid(m) /\ DOMAIN m.mem = {} /\ m.seg = <<>> /\ m.topsize = 0
      /\ Foot(m) = 0
  BY IsWhole, 0 + 0 = 0 DEF Laid, TopIs, Foot, NULL
<1>2. /\ DOMAIN n0 = Fields /\ n0.mem = m.mem
      /\ n0.smallmap = m.smallmap /\ n0.treemap = m.treemap /\ n0.smallbins = m.smallbins
      /\ n0.treebins = m.treebins /\ n0.dv = m.dv /\ n0.dvsize = m.dvsize
      /\ n0.least_addr = Lowest(m.least_addr, b) /\ n0.seg = <<[base |-> b, size |-> s]>>
  <2> HIDE DEF n0
  <2>1. n0 = WithSegs(WithLow(m, b), <<[base |-> b, size |-> s]>>)
    BY DEF n0
  <2> QED BY <1>1, <2>1, WithLowIs
<1> HIDE DEF n0
<1>3. /\ SameButMem(WithTop(n0, b, d), n)
      /\ \E a : HeadIsSet(n0.mem, a, b, d, FALSE, TRUE) /\ n.mem = With(a, b + d, FootHead)
  BY <1>2, InitTop
<1> HIDE DEF n
<1>4. PICK a : HeadIsSet(m.mem, a, b, d, FALSE, TRUE) /\ n.mem = With(a, b + d, FootHead)
  BY <1>2, <1>3
<1>5. /\ DOMAIN n = Fields /\ n.top = b /\ n.topsize = d /\ n.seg = <<[base |-> b, size |-> s]>>
      /\ n.least_addr = Lowest(m.least_addr, b) /\ n.dv = m.dv /\ n.dvsize = m.dvsize /\ SameBins(m, n)
  <2>1. /\ DOMAIN WithTop(n0, b, d) = Fields /\ WithTop(n0, b, d).top = b
        /\ WithTop(n0, b, d).topsize = d
        /\ WithTop(n0, b, d).smallmap = n0.smallmap /\ WithTop(n0, b, d).treemap = n0.treemap
        /\ WithTop(n0, b, d).smallbins = n0.smallbins
        /\ WithTop(n0, b, d).treebins = n0.treebins /\ WithTop(n0, b, d).dv = n0.dv
        /\ WithTop(n0, b, d).dvsize = n0.dvsize
        /\ WithTop(n0, b, d).least_addr = n0.least_addr /\ WithTop(n0, b, d).seg = n0.seg
    BY <1>2, WithTopIs
  <2> QED BY <1>1, <1>2, <1>3, <2>1 DEF SameButMem, SameBins
<1>6. DOMAIN a = {b} /\ a[b] = Chunk(d, FALSE, TRUE, 0)
  BY <1>1, <1>4 DEF HeadIsSet
<1>7. b + d # b
  OBVIOUS
<1>8. /\ DOMAIN n.mem = DOMAIN m.mem \cup {b, b + d} /\ n.mem[b] = Chunk(d, FALSE, TRUE, 0)
      /\ n.mem[b + d] = FootHead
  BY <1>1, <1>4, <1>6, <1>7 DEF With
<1>9. NewTop(m, m.mem, n, b, s, d)
  <2>1. \A x : <<x>> = <<x>> \o <<>>
    OBVIOUS
  <2> QED BY <1>1, <1>5, <1>8, <2>1 DEF NewTop
<1>10. Closed(m, m.mem)
  <2>1. Tiled(m.mem, 0)
    BY <1>1 DEF Laid
  <2>2. Fenced(m.mem) = {} /\ Len(m.seg) = 0 /\ DOMAIN m.seg = {}
    BY <1>1 DEF Fenced
  <2>3. IsFiniteSet(Fenced(m.mem)) /\ Cardinality(Fenced(m.mem)) = Len(m.seg)
    BY <2>2, FS_EmptySet
  <2> QED BY <1>1, <2>1, <2>2, <2>3 DEF Closed
<1>11. Keeps(m, m.mem, {})
  <2>1. Frees(m.mem, 0) = {} /\ Frees(m.mem, Foot(m)) = {}
    BY <1>1 DEF Frees
  <2> QED BY <1>1, <2>1 DEF Keeps
<1>12. /\ DOMAIN n = Fields /\ Laid(n) /\ DvIs(n) /\ Kept(n, X, {}) /\ SameUsed(m, n) /\ n.topsize = d
  BY <1>5, <1>9, <1>10, <1>11, NewTopKept
<1>13. Whole(n, X)
  BY <1>12 DEF Whole
<1> QED BY <1>12, <1>13 DEF Extended, n, n0

\* The new top, the record of the old segment at c and the fencepost behind it.
Fence(m, b, s, d, c) ==
    LET r == set_size_and_pinuse_of_inuse_chunk(init_top(m, b, d), c, SEGMENT_SIZE) IN
    [r EXCEPT !.seg = <<[base |-> b, size |-> s]>> \o @, !.mem = With(@, c + SEGMENT_SIZE, FENCEPOST)]

\* All of m but the memory, top and the segments.
SameRest(m, n) ==
    /\ DOMAIN n = DOMAIN m /\ n.smallmap = m.smallmap /\ n.treemap = m.treemap
    /\ n.smallbins = m.smallbins
    /\ n.treebins = m.treebins /\ n.dv = m.dv /\ n.dvsize = m.dvsize

FenceSet(m, n, b, s, d, c) ==
    /\ SameRest(m, n) /\ n.top = b /\ n.topsize = d /\ n.seg = <<[base |-> b, size |-> s]>> \o m.seg
    /\ n.least_addr = Lowest(m.least_addr, b)
    /\ \E x, y, z : /\ HeadIsSet(m.mem, x, b, d, FALSE, TRUE) /\ y = With(x, b + d, FootHead)
                    /\ HeadIsSet(y, z, c, SEGMENT_SIZE, TRUE, TRUE)
                    /\ n.mem = With(z, c + SEGMENT_SIZE, FENCEPOST)

\* The writes of the fencepost.
LEMMA FenceIs ==
    ASSUME NEW m, DOMAIN m = Fields, NEW b, NEW s, NEW d, NEW c
    PROVE  FenceSet(m, Fence(WithLow(m, b), b, s, d, c), b, s, d, c)
<1> DEFINE l == WithLow(m, b)
           a == init_top(l, b, d)
           r == set_size_and_pinuse_of_inuse_chunk(a, c, SEGMENT_SIZE)
           n == Fence(l, b, s, d, c)
<1>1. /\ DOMAIN l = Fields /\ SameRest(m, l) /\ l.mem = m.mem /\ l.seg = m.seg
      /\ l.least_addr = Lowest(m.least_addr, b)
  BY DEF WithLow, Lowest, Fields, SameRest
<1> HIDE DEF l
<1>2. PICK x : SameButMem(WithTop(l, b, d), a) /\ HeadIsSet(l.mem, x, b, d, FALSE, TRUE)
      /\ a.mem = With(x, b + d, FootHead)
  BY <1>1, InitTop
<1>3. LET t == WithTop(l, b, d) IN
      /\ DOMAIN t = Fields /\ t.top = b /\ t.topsize = d
      /\ t.smallmap = l.smallmap /\ t.treemap = l.treemap /\ t.smallbins = l.smallbins
      /\ t.treebins = l.treebins /\ t.dv = l.dv /\ t.dvsize = l.dvsize
      /\ t.least_addr = l.least_addr /\ t.seg = l.seg
  BY <1>1, WithTopIs
<1> HIDE DEF a
<1>4. /\ DOMAIN a = Fields /\ a.top = b /\ a.topsize = d /\ SameRest(m, a)
      /\ a.least_addr = l.least_addr /\ a.seg = m.seg
  <2> DEFINE t == WithTop(l, b, d)
  <2>1. /\ DOMAIN t = Fields /\ t.top = b /\ t.topsize = d
        /\ t.smallmap = l.smallmap /\ t.treemap = l.treemap /\ t.smallbins = l.smallbins
        /\ t.treebins = l.treebins /\ t.dv = l.dv /\ t.dvsize = l.dvsize
        /\ t.least_addr = l.least_addr /\ t.seg = l.seg /\ SameButMem(t, a)
    BY <1>2, <1>3
  <2> HIDE DEF t
  <2> QED BY <1>1, <2>1 DEF SameButMem, SameRest
<1>5. SameButMem(a, r) /\ HeadIsSet(a.mem, r.mem, c, SEGMENT_SIZE, TRUE, TRUE)
  BY <1>4, InuseHeadSet
<1>6. n = [r EXCEPT !.seg = <<[base |-> b, size |-> s]>> \o @, !.mem = With(@, c + SEGMENT_SIZE, FENCEPOST)]
  BY DEF Fence, a
<1> HIDE DEF r, n
<1>7. /\ DOMAIN r = Fields /\ SameRest(m, r) /\ r.top = b /\ r.topsize = d /\ r.seg = m.seg
      /\ r.least_addr = l.least_addr
  BY <1>4, <1>5 DEF SameButMem, SameRest
<1>8. /\ SameRest(r, n) /\ n.top = r.top /\ n.topsize = r.topsize
      /\ n.seg = <<[base |-> b, size |-> s]>> \o r.seg
      /\ n.least_addr = r.least_addr /\ n.mem = With(r.mem, c + SEGMENT_SIZE, FENCEPOST)
  BY <1>6, <1>7 DEF SameRest, Fields
<1>9. SameRest(m, n)
  BY <1>7, <1>8 DEF SameRest
<1>10. \E y, z : /\ HeadIsSet(m.mem, x, b, d, FALSE, TRUE) /\ y = With(x, b + d, FootHead)
                 /\ HeadIsSet(y, z, c, SEGMENT_SIZE, TRUE, TRUE)
                 /\ n.mem = With(z, c + SEGMENT_SIZE, FENCEPOST)
  BY <1>1, <1>2, <1>5, <1>8
<1> QED BY <1>1, <1>7, <1>8, <1>9, <1>10 DEF FenceSet, n, l

\* add_segment as a choice between what is left of the old top and nothing.
LEMMA AddSegmentIs ==
    ASSUME NEW m, NEW X, Whole(m, X), m.top # NULL, NEW b, NEW d \in Nat, NEW s, s = d + TOP_FOOT_SIZE
    PROVE  LET c == IF m.topsize < MIN_CHUNK_SIZE THEN m.top ELSE Foot(m)
               n == Fence(WithLow(m, b), b, s, d, c)
           IN  /\ c = m.top => add_segment(WithLow(m, b), b, s) = n
               /\ c # m.top => /\ c = Foot(m) /\ m.topsize >= MIN_CHUNK_SIZE
                               /\ add_segment(WithLow(m, b), b, s) =
                                  insert_chunk(set_free_with_pinuse(n, m.top, m.topsize, c), m.top, m.topsize)
<1> DEFINE l == WithLow(m, b)
           old == CHOOSE g \in Range(l.seg) : segment_holds(g, l.top)
<1>1. DOMAIN m = Fields /\ Laid(m)
  BY IsWhole
<1>2. /\ l.seg = m.seg /\ l.top = m.top
  BY <1>1 DEF WithLow, Fields
<1>3. PICK i \in DOMAIN m.seg : m.seg[i].base <= m.top
      /\ m.seg[i].base + m.seg[i].size = Foot(m) + TOP_FOOT_SIZE
  BY <1>1 DEF Laid, TopIs
<1>4. m.top \in Nat /\ m.topsize \in Nat /\ Foot(m) = m.top + m.topsize /\ m.topsize > 0
  BY <1>1, TopIsFree DEF Foot
<1>5. segment_holds(m.seg[i], m.top) /\ m.seg[i] \in Range(m.seg)
  BY <1>3, <1>4 DEF segment_holds, TOP_FOOT_SIZE, Range
<1>6. old \in Range(m.seg) /\ segment_holds(old, m.top)
  BY <1>2, <1>5
<1>7. PICK j \in DOMAIN m.seg : old = m.seg[j]
  BY <1>6 DEF Range
<1>8. old.base + old.size = Foot(m) + TOP_FOOT_SIZE
  BY <1>1, <1>6, <1>7, HoldsTop DEF segment_holds
<1> HIDE DEF old, l
<1> DEFINE e == (old.base + old.size) - TOP_FOOT_SIZE
           c == IF e < l.top + MIN_CHUNK_SIZE THEN l.top ELSE e
           p == c - l.top
           n == Fence(l, b, s, d, c)
<1>9. e = Foot(m) /\ s - TOP_FOOT_SIZE = d
  <2>1. e = (Foot(m) + TOP_FOOT_SIZE) - TOP_FOOT_SIZE
    BY <1>8
  <2> QED BY <1>4, <2>1 DEF TOP_FOOT_SIZE
<1>10. add_segment(l, b, s) = IF p = 0 THEN n ELSE insert_chunk(set_free_with_pinuse(n, l.top, p, c), l.top, p)
  <2>1. LET n2 == Fence(l, b, s, s - TOP_FOOT_SIZE, c) IN
        add_segment(l, b, s) = IF p = 0 THEN n2 ELSE insert_chunk(set_free_with_pinuse(n2, l.top, p, c), l.top, p)
    BY DEF add_segment, Fence, old
  <2> HIDE DEF c, p, e
  <2> QED BY <1>9, <2>1
<1>11. c = (IF m.topsize < MIN_CHUNK_SIZE THEN m.top ELSE Foot(m))
  BY <1>2, <1>4, <1>9 DEF MIN_CHUNK_SIZE
<1> HIDE DEF e
<1>12. c = m.top => p = 0
  BY <1>2, <1>4
<1>13. c # m.top => c = Foot(m) /\ p = m.topsize /\ p # 0 /\ m.topsize >= MIN_CHUNK_SIZE
  BY <1>2, <1>4, <1>11 DEF MIN_CHUNK_SIZE
<1> HIDE DEF c, p
<1> QED BY <1>2, <1>10, <1>11, <1>12, <1>13 DEF l

\* What holds once the new region is top, the old top being S.
NowTop(m, X, n, d, S) ==
    /\ DOMAIN n = Fields /\ Laid(n) /\ DvIs(n) /\ Kept(n, X, S) /\ S \subseteq Bare(n, {})
    /\ SameUsed(m, n)
    /\ n.topsize = d

\* All but the memory is as m has it or says that the new region is top.
AtTop(m, n, b, s, d) ==
    /\ SameRest(m, n) /\ n.top = b /\ n.topsize = d /\ n.seg = <<[base |-> b, size |-> s]>> \o m.seg
    /\ n.least_addr = Lowest(m.least_addr, b)

Remains(m, X, n, d, c) ==
    /\ c = m.top => NowTop(m, X, n, d, {})
    /\ c # m.top => NowTop(m, X, n, d, {m.top}) /\ n.mem[m.top].size = m.topsize

\* What the bins keep then.
LEMMA AddedKept ==
    ASSUME NEW m, NEW X, Whole(m, X), m.top # NULL, NEW b, NEW s, Fresh(m, b, s), NEW d \in Nat, d # 0,
           s = d + TOP_FOOT_SIZE, NEW f, f = b + d, NEW c, NEW e, NEW n,
           Added(m.mem, m.top, m.topsize, Foot(m), c, e, b, d, f, n.mem),
           AtTop(m, n, b, s, d)
    PROVE  Remains(m, X, n, d, c)
<1> DEFINE S == IF c = m.top THEN {} ELSE {m.top}
<1>1. Laid(m) /\ Tiled(m.mem, Foot(m)) /\ m.topsize # 0 /\ m.topsize \in Nat /\ m.top \in Nat
  BY IsWhole, TopIsFree DEF Laid
<1>2. PICK h : /\ Shut(m.mem, m.top, m.topsize, Foot(m), c, e, h)
               /\ DOMAIN n.mem = DOMAIN h \cup {b, f} /\ \A p \in DOMAIN h : n.mem[p] = h[p]
               /\ n.mem[b] = Chunk(d, FALSE, TRUE, 0) /\ n.mem[f] = FootHead
  BY DEF Added
<1>3. Closed(m, h)
  BY <1>1, <1>2, ShutClosed
<1>4. ShutLeaves(m.mem, m.top, Foot(m), c, e, h)
  BY <1>1, <1>2, ShutKinds
<1>5. m.top \in Frees(m.mem, Foot(m))
  BY <1>1, TopIsFree
<1>6. Keeps(m, h, S)
  <2>1. /\ DOMAIN h = (DOMAIN m.mem \ {Foot(m)}) \cup {c, e}
        /\ \A p \in DOMAIN m.mem \ {m.top, Foot(m)} : h[p] = m.mem[p]
    BY <1>2 DEF Shut
  <2>2. /\ Used(h) = Used(m.mem)
        /\ c = m.top => Frees(h, 0) = Frees(m.mem, Foot(m)) \ {m.top}
        /\ c # m.top => Frees(h, 0) = Frees(m.mem, Foot(m))
    BY <1>4 DEF ShutLeaves
  <2>3. Frees(h, 0) = (Frees(m.mem, Foot(m)) \ {m.top}) \cup S
    BY <1>5, <2>2
  <2> QED BY <2>1, <2>2, <2>3 DEF Keeps
<1>7. NewTop(m, h, n, b, s, d)
  BY <1>2 DEF NewTop, AtTop
<1>8. SameBins(m, n) /\ n.dv = m.dv /\ n.dvsize = m.dvsize
  BY DEF AtTop, SameRest, SameBins
<1>9. S = {} \/ (S = {m.top} /\ m.top # NULL)
  OBVIOUS
<1> HIDE DEF S
<1>10. NowTop(m, X, n, d, S)
  BY <1>3, <1>6, <1>7, <1>8, <1>9, NewTopKept DEF NowTop
<1>11. ASSUME c # m.top PROVE n.mem[m.top].size = m.topsize
  <2>1. m.top \in DOMAIN h /\ h[m.top] = Chunk(m.topsize, FALSE, TRUE, 0)
    BY <1>1, <1>2, <1>11 DEF Shut, Foot
  <2>2. n.mem[m.top] = Chunk(m.topsize, FALSE, TRUE, 0)
    BY <1>2, <2>1
  <2> QED BY <2>2 DEF Chunk
<1> QED BY <1>10, <1>11 DEF S, Remains

\* A region elsewhere becomes top.
LEMMA AddSegment ==
    ASSUME NEW m, NEW X, Whole(m, X), m.top # NULL, NEW b \in Nat, b # 0, NEW s \in Nat, Fresh(m, b, s),
           NEW d \in Nat, d # 0,
           s = d + TOP_FOOT_SIZE
    PROVE  Extended(m, add_segment(WithLow(m, b), b, s), d)
<1> DEFINE c == IF m.topsize < MIN_CHUNK_SIZE THEN m.top ELSE Foot(m)
           n == Fence(WithLow(m, b), b, s, d, c)
           r == add_segment(WithLow(m, b), b, s)
           e == c + SEGMENT_SIZE
           f == b + d
<1>1. /\ DOMAIN m = Fields /\ Laid(m) /\ Tiled(m.mem, Foot(m)) /\ m.topsize # 0 /\ m.topsize \in Nat
      /\ m.top \in Nat
      /\ Foot(m) = m.top + m.topsize /\ m.top \in DOMAIN m.mem /\ Foot(m) \in DOMAIN m.mem
      /\ m.mem[m.top].size = m.topsize /\ m.mem[m.top].pin = TRUE /\ m.mem[m.top].cin = FALSE
  <2>1. DOMAIN m = Fields /\ Laid(m) /\ Tiled(m.mem, Foot(m))
    BY IsWhole DEF Laid
  <2>2. m.top \in DOMAIN m.mem /\ m.mem[m.top].cin \in BOOLEAN /\ m.mem[m.top].pin \in BOOLEAN
        /\ ~m.mem[m.top].cin /\ m.mem[m.top].pin
    BY <2>1, TopIsFree, LaidIs DEF Frees
  <2> QED BY <2>1, <2>2, TopIsFree
<1>2. /\ c = m.top => r = n
      /\ c # m.top => /\ c = Foot(m) /\ m.topsize >= MIN_CHUNK_SIZE
                      /\ r = insert_chunk(set_free_with_pinuse(n, m.top, m.topsize, c), m.top, m.topsize)
  <2> HIDE DEF r, n
  <2> USE DEF r, n
  <2> QED BY AddSegmentIs
<1>3. Vacant(m.mem, b, f + TOP_FOOT_SIZE)
  <2>1. f + TOP_FOOT_SIZE = b + s
    BY DEF TOP_FOOT_SIZE
  <2> QED BY <1>1, <2>1, HeadsElsewhere
<1>4. Ground(m.mem, m.top, m.topsize, Foot(m), c, e, b, d, f)
  BY <1>1, <1>3 DEF Ground
<1>5. FenceSet(m, n, b, s, d, c)
  BY <1>1, FenceIs
<1>6. /\ SameRest(m, n) /\ n.top = b /\ n.topsize = d /\ n.seg = <<[base |-> b, size |-> s]>> \o m.seg
      /\ n.least_addr = Lowest(m.least_addr, b)
      /\ \E x, y, z : /\ HeadIsSet(m.mem, x, b, d, FALSE, TRUE) /\ y = With(x, f, FootHead)
                      /\ HeadIsSet(y, z, c, SEGMENT_SIZE, TRUE, TRUE) /\ n.mem = With(z, e, FENCEPOST)
  <2> HIDE DEF n, c, r
  <2> QED BY <1>5 DEF FenceSet
<1> HIDE DEF n, r, e, f, c
<1>10. Begun(m.mem, m.top, Foot(m), c, e, b, d, f, n.mem)
  BY <1>4, <1>6, BegunIs
<1>7. CASE c = m.top
  <2>1. Added(m.mem, m.top, m.topsize, Foot(m), c, e, b, d, f, n.mem)
    BY <1>4, <1>7, <1>10, AddedSmall
  <2>2. NowTop(m, X, n, d, {})
    <3>1. AtTop(m, n, b, s, d)
      BY <1>6 DEF AtTop
    <3>2. Remains(m, X, n, d, c)
      BY <2>1, <3>1, AddedKept DEF f
    <3> QED BY <1>7, <3>2 DEF Remains
  <2>3. Whole(n, X) /\ SameUsed(m, n) /\ n.topsize = d
    BY <2>2 DEF NowTop, Whole
  <2> QED BY <1>2, <1>7, <2>3 DEF Extended, r
<1>8. CASE c # m.top
  <2> DEFINE u == clear_pinuse(n, c)
             v == set_size_and_pinuse_of_free_chunk(u, m.top, m.topsize)
  <2>1. r = insert_chunk(v, m.top, m.topsize) /\ c = m.top + m.topsize /\ c = Foot(m)
    BY <1>1, <1>2, <1>8 DEF set_free_with_pinuse
  <2>2. DOMAIN n = Fields
    BY <1>1, <1>6 DEF SameRest
  <2>3. SameButMem(n, u) /\ PinIsCleared(n.mem, u.mem, c)
    BY <2>2, PinCleared
  <2>4. DOMAIN u = Fields
    BY <2>2, <2>3 DEF SameButMem
  <2> HIDE DEF u
  <2>5. PICK w : SameButMem(u, v) /\ HeadIsSet(u.mem, w, m.top, m.topsize, FALSE, TRUE)
                 /\ FootIsSet(w, v.mem, c, m.topsize)
    BY <2>1, <2>4, FreeSet
  <2> HIDE DEF v
  <2>6. Added(m.mem, m.top, m.topsize, Foot(m), c, e, b, d, f, v.mem)
    BY <1>4, <1>8, <1>10, <2>3, <2>5, AddedLarge
  <2>7. SameRest(m, v) /\ v.top = b /\ v.topsize = d /\ v.seg = <<[base |-> b, size |-> s]>> \o m.seg
        /\ v.least_addr = Lowest(m.least_addr, b)
    BY <1>6, <2>3, <2>5 DEF SameButMem, SameRest
  <2>8. NowTop(m, X, v, d, {m.top}) /\ v.mem[m.top].size = m.topsize
    <3>1. AtTop(m, v, b, s, d)
      BY <2>7 DEF AtTop
    <3>2. Remains(m, X, v, d, c)
      BY <2>6, <3>1, AddedKept DEF f
    <3> QED BY <1>8, <3>2 DEF Remains
  <2>9. OffBins(v, X, m.top) /\ SameUsed(m, v) /\ v.topsize = d
    BY <2>8 DEF NowTop, OffBins
  <2>10. Whole(r, With(X, m.top, m.topsize)) /\ SameButBins(v, r)
    BY <2>1, <2>8, <2>9, JoinsBins
  <2>11. SameUsed(m, r) /\ r.topsize = d
    BY <2>9, <2>10 DEF SameButBins, SameUsed
  <2> QED BY <2>10, <2>11 DEF Extended, r
<1> QED BY <1>7, <1>8

------------------------------------------------------------------------------
(* The system gives a region behind top.                                      *)

\* The foot of top, which begins at t, moves from ft to g.
Moved(mem, n, t, ft, g) ==
    /\ t \in DOMAIN mem /\ ft \in DOMAIN mem /\ t < ft /\ ft < g
    /\ \A p \in DOMAIN mem : p <= ft \/ g + TOP_FOOT_SIZE <= p
    /\ t + mem[t].size = ft /\ ~mem[t].cin /\ mem[t].pin
    /\ DOMAIN n = (DOMAIN mem \ {ft}) \cup {g}
    /\ \A p \in DOMAIN mem \ {t, ft} : n[p] = mem[p]
    /\ n[t] = Chunk(g - t, FALSE, TRUE, 0) /\ n[g] = FootHead

MovedIs(mem, n, t, ft, g) ==
    /\ Tiled(n, g) /\ Fenced(n) = Fenced(mem) /\ Used(n) = Used(mem) /\ Frees(n, g) = Frees(mem, ft)

\* The heads stay sound.
LEMMA MovedTiled ==
    ASSUME NEW mem, NEW ft \in Nat, Tiled(mem, ft), NEW t \in Nat, NEW g \in Nat, NEW n,
           Moved(mem, n, t, ft, g)
    PROVE  MovedIs(mem, n, t, ft, g)
<1>1. /\ t \in DOMAIN mem /\ ft \in DOMAIN mem /\ t < ft /\ ft < g
      /\ \A p \in DOMAIN mem : p <= ft \/ g + TOP_FOOT_SIZE <= p
      /\ t + mem[t].size = ft /\ ~mem[t].cin /\ mem[t].pin
      /\ DOMAIN n = (DOMAIN mem \ {ft}) \cup {g}
      /\ \A p \in DOMAIN mem \ {t, ft} : n[p] = mem[p]
      /\ n[t] = Chunk(g - t, FALSE, TRUE, 0) /\ n[g] = FootHead
  BY DEF Moved
<1>2. /\ \A p \in DOMAIN mem : /\ p \in Nat \ {0} /\ mem[p] \in HeadType
                               /\ mem[p].size \in Nat /\ mem[p].foot \in Nat /\ mem[p].cin \in BOOLEAN
                               /\ mem[p].pin \in BOOLEAN
      /\ mem[ft] = FootHead
      /\ \A p \in DOMAIN mem \ {ft} : Sound(mem, ft, p)
  BY <1>1 DEF Tiled, HeadType
<1>3. /\ g - t \in Nat /\ TOP_FOOT_SIZE \in Nat /\ g - t # 0 /\ TOP_FOOT_SIZE # 0 /\ t + (g - t) = g
      /\ ft - t # 0
  BY <1>1 DEF TOP_FOOT_SIZE
<1>4. n[t] \in HeadType /\ n[t].size = g - t /\ n[t].cin = FALSE /\ n[t].pin = TRUE
  <2>1. LET h == Chunk(g - t, FALSE, TRUE, 0) IN h \in HeadType /\ h.size = g - t /\ h.cin = FALSE /\ h.pin = TRUE
    <3>1. Chunk(g - t, FALSE, TRUE, 0) \in HeadType
      BY <1>3, ChunkType
    <3> QED BY <3>1 DEF Chunk
  <2> QED BY <1>1, <2>1
<1>5. n[g] \in HeadType /\ n[g].size = TOP_FOOT_SIZE /\ n[g].cin = FALSE /\ n[g].pin = FALSE
  <2>1. /\ FootHead \in HeadType /\ FootHead.size = TOP_FOOT_SIZE /\ FootHead.cin = FALSE
        /\ FootHead.pin = FALSE
    <3>1. FootHead \in HeadType
      BY DEF FootHead, Chunk, HeadType, TOP_FOOT_SIZE
    <3> QED BY <3>1 DEF FootHead, Chunk
  <2> QED BY <1>1, <2>1
<1>6. mem[ft].size = TOP_FOOT_SIZE /\ mem[ft].cin = FALSE /\ mem[ft].pin = FALSE
  BY <1>2 DEF FootHead, Chunk
<1>7. g \notin DOMAIN mem /\ t # ft /\ t # g /\ t \in DOMAIN n
  BY <1>1, <1>3 DEF TOP_FOOT_SIZE
<1>8. \A p \in DOMAIN mem : p <= t \/ ft <= p
  <2>1. Sound(mem, ft, t) /\ mem[t].size # 0
    BY <1>1, <1>2, <1>7
  <2> QED BY <1>1, <2>1 DEF Sound
<1>9. ASSUME NEW p \in DOMAIN mem, p # ft, mem[p].size # 0
      PROVE  /\ p + mem[p].size \in DOMAIN mem /\ mem[p + mem[p].size].pin = mem[p].cin
             /\ \A a \in DOMAIN mem : a <= p \/ p + mem[p].size <= a
             /\ p # t => p + mem[p].size # ft
  <2>1. /\ p + mem[p].size \in DOMAIN mem /\ mem[p + mem[p].size].pin = mem[p].cin
        /\ \A a \in DOMAIN mem : a <= p \/ p + mem[p].size <= a
    BY <1>2, <1>9 DEF Sound
  <2>2. ASSUME p + mem[p].size = ft PROVE p = t
    <3>1. t <= p
      BY <1>1, <1>2, <2>1, <2>2
    <3>2. p < ft
      BY <1>2, <1>9, <2>2
    <3> QED BY <1>2, <1>8, <3>1, <3>2
  <2> QED BY <2>1, <2>2
<1>10. DOMAIN n \subseteq Nat \ {0} /\ \A p \in DOMAIN n : n[p] \in HeadType
  <2>1. g \in Nat \ {0}
    BY <1>1
  <2>2. \A p \in DOMAIN n : p = g \/ p = t \/ (p \in DOMAIN mem /\ n[p] = mem[p])
    BY <1>1
  <2>3. t \in Nat \ {0}
    BY <1>1, <1>2
  <2> QED BY <1>2, <1>4, <1>5, <2>1, <2>2, <2>3
<1>11. \A a \in DOMAIN n : a <= g \/ g + TOP_FOOT_SIZE <= a
  BY <1>1, <1>2
<1>12. Sound(n, g, t)
  <2>1. t + n[t].size = g /\ n[t].size # 0
    BY <1>3, <1>4
  <2>2. \A a \in DOMAIN n : a <= t \/ g <= a
    BY <1>1, <1>2, <1>3, <1>8 DEF TOP_FOOT_SIZE
  <2> QED BY <1>1, <1>4, <1>5, <2>1, <2>2 DEF Sound
<1>13. ASSUME NEW p \in DOMAIN n, p # g, p # t
       PROVE  Sound(n, g, p)
  <2>1. p \in DOMAIN mem /\ p # ft /\ n[p] = mem[p] /\ Sound(mem, ft, p)
    BY <1>1, <1>2, <1>13
  <2>2. mem[p].cin \/ mem[p].pin
    BY <2>1 DEF Sound
  <2>3. ASSUME ~mem[p].pin
        PROVE  LET q == p - mem[p].foot IN
               mem[p].foot # 0 /\ q \in DOMAIN n /\ q # g /\ ~n[q].cin /\ n[q].size = mem[p].foot
    <3> DEFINE q == p - mem[p].foot
    <3>1. mem[p].foot # 0 /\ q \in DOMAIN mem /\ q # ft /\ ~mem[q].cin /\ mem[q].size = mem[p].foot
      BY <2>1, <2>3 DEF Sound
    <3>2. q # t
      BY <1>1, <1>2, <2>1, <3>1
    <3> HIDE DEF q
    <3> QED BY <1>1, <1>7, <3>1, <3>2 DEF q
  <2>4. ASSUME mem[p].size = 0
        PROVE  /\ mem[p] = FENCEPOST /\ p - SEGMENT_SIZE \in DOMAIN n
               /\ n[p - SEGMENT_SIZE].size = SEGMENT_SIZE /\ n[p - SEGMENT_SIZE].cin
    <3>1. /\ mem[p] = FENCEPOST /\ p - SEGMENT_SIZE \in DOMAIN mem
          /\ mem[p - SEGMENT_SIZE].size = SEGMENT_SIZE /\ mem[p - SEGMENT_SIZE].cin
      BY <2>1, <2>4 DEF Sound
    <3>2. p - SEGMENT_SIZE # t /\ p - SEGMENT_SIZE # ft
      BY <1>1, <1>6, <3>1
    <3> QED BY <1>1, <3>1, <3>2
  <2>5. ASSUME mem[p].size # 0
        PROVE  LET e == p + mem[p].size IN
               /\ e \in DOMAIN n /\ n[e].pin = mem[p].cin /\ mem[p].size >= MIN_CHUNK_SIZE
               /\ (~mem[p].cin => n[e].foot = mem[p].size)
               /\ \A a \in DOMAIN n : a <= p \/ e <= a
    <3> DEFINE e == p + mem[p].size
    <3>1. /\ e \in DOMAIN mem /\ mem[e].pin = mem[p].cin /\ e # ft
          /\ \A a \in DOMAIN mem : a <= p \/ e <= a
      BY <1>9, <1>13, <2>1, <2>5
    <3>2. mem[p].size >= MIN_CHUNK_SIZE /\ (~mem[p].cin => mem[e].foot = mem[p].size)
      BY <2>1, <2>5, <3>1 DEF Sound
    <3>3. e \in DOMAIN n /\ n[e].pin = mem[p].cin /\ (~mem[p].cin => n[e].foot = mem[p].size)
      <4>1. CASE e = t
        BY <1>1, <1>2, <1>4, <1>7, <2>1, <3>1, <4>1
      <4>2. CASE e # t
        <5>1. n[e] = mem[e] /\ e \in DOMAIN n
          BY <1>1, <3>1, <4>2
        <5> QED BY <3>1, <3>2, <5>1
      <4> QED BY <4>1, <4>2
    <3>4. g <= p \/ e <= g
      <4>1. ft <= p \/ e <= ft
        <5>1. ft <= p \/ e <= ft
          BY <1>1, <3>1
        <5> QED BY <5>1
      <4>2. p <= ft \/ g + TOP_FOOT_SIZE <= p
        BY <1>1, <2>1
      <4>3. p \in Nat /\ e \in Nat
        BY <1>2, <2>1
      <4> QED BY <1>1, <2>1, <4>1, <4>2, <4>3 DEF TOP_FOOT_SIZE
    <3>5. \A a \in DOMAIN n : a <= p \/ e <= a
      BY <1>1, <3>1, <3>4
    <3> QED BY <3>2, <3>3, <3>5
  <2> QED BY <2>1, <2>2, <2>3, <2>4, <2>5 DEF Sound
<1>14. Tiled(n, g)
  BY <1>1, <1>10, <1>11, <1>12, <1>13 DEF Tiled
<1>15. Fenced(n) = Fenced(mem)
  <2>1. n[g].size # 0 /\ mem[ft].size # 0 /\ n[t].size # 0 /\ mem[t].size # 0
    <3>1. mem[t].size # 0
      BY <1>1, <1>2
    <3> QED BY <1>3, <1>4, <1>5, <1>6, <3>1
  <2> QED BY <1>1, <1>7, <2>1 DEF Fenced
<1>16. Frees(n, g) = Frees(mem, ft)
  BY <1>1, <1>4, <1>7 DEF Frees
<1>17. \A p \in DOMAIN mem : mem[p].cin => p \in DOMAIN n /\ n[p].cin
  BY <1>1, <1>6
<1>18. \A p \in DOMAIN n : n[p].cin => p \in DOMAIN mem /\ mem[p].cin
  BY <1>1, <1>4, <1>5
<1>19. Used(n) = Used(mem)
  <2> SUFFICES ASSUME NEW p PROVE p \in Used(n) <=> p \in Used(mem)
    OBVIOUS
  <2> QED BY <1>15, <1>17, <1>18 DEF Used, Records
<1> QED BY <1>14, <1>15, <1>16, <1>19 DEF MovedIs

WithLarger(m, i, s) == [m EXCEPT !.seg[i].size = @ + s]

\* Only the size of a segment changes.
LEMMA WithLargerIs ==
    ASSUME NEW m, DOMAIN m = Fields, NEW i, NEW s
    PROVE  LET n == WithLarger(m, i, s) IN
           /\ DOMAIN n = Fields /\ n.mem = m.mem /\ n.top = m.top /\ n.topsize = m.topsize
           /\ SameRest(m, n) /\ n.least_addr = m.least_addr
           /\ n.seg = [m.seg EXCEPT ![i] = [m.seg[i] EXCEPT !.size = m.seg[i].size + s]]
BY DEF WithLarger, SameRest, Fields

\* The segments when the one that holds top grows by s and top with it.
LEMMA SegmentGrows ==
    ASSUME NEW m, Laid(m), m.top # NULL, NEW i \in DOMAIN m.seg, m.seg[i].base <= m.top,
           NEW b \in Nat, b = m.seg[i].base + m.seg[i].size, b = Foot(m) + TOP_FOOT_SIZE,
           NEW s \in Nat, s > 0, Fresh(m, b, s), NEW g \in Nat, g = Foot(m) + s,
           NEW n, n.seg = [m.seg EXCEPT ![i] = [m.seg[i] EXCEPT !.size = m.seg[i].size + s]], n.least_addr = m.least_addr,
           n.top = m.top, Foot(n) = g, Moved(m.mem, n.mem, m.top, Foot(m), g)
    PROVE  Segments(n)
<1>1. Segments(m) /\ Foot(m) \in Nat /\ m.top \in Nat /\ \A p \in DOMAIN m.mem : p \in Nat \ {0}
      /\ m.mem[p].size \in Nat
  BY LaidIs
<1>2. /\ m.seg \in Seq(SegmentType) /\ m.least_addr \in Nat /\ SegmentsApart(m.seg)
         /\ (m.seg # <<>> => m.least_addr # 0)
      /\ \A j \in DOMAIN m.seg : /\ m.seg[j].base + m.seg[j].size <= MemoryEnd /\ m.least_addr <= m.seg[j].base
                                 /\ m.seg[j].base \in DOMAIN m.mem \ {Foot(m)}
                                 /\ m.mem[m.seg[j].base].pin
      /\ \A p \in DOMAIN m.mem \ {Foot(m)} : InOne(m.seg, p, p + m.mem[p].size)
  BY <1>1 DEF Segments
<1>3. \A j \in DOMAIN m.seg : m.seg[j].base \in Nat \ {0} /\ m.seg[j].size \in Nat \ {0}
      /\ m.seg[j] \in SegmentType
  BY <1>1, SegmentIs
<1>4. b + s <= MemoryEnd
      /\ \A j \in DOMAIN m.seg : b + s <= m.seg[j].base \/ m.seg[j].base + m.seg[j].size <= b
  BY DEF Fresh
<1>5. /\ DOMAIN n.mem = (DOMAIN m.mem \ {Foot(m)}) \cup {g}
      /\ \A p \in DOMAIN m.mem \ {m.top, Foot(m)} : n.mem[p] = m.mem[p]
      /\ n.mem[m.top] = Chunk(g - m.top, FALSE, TRUE, 0)
      /\ \A p \in DOMAIN m.mem : p <= Foot(m) \/ g + TOP_FOOT_SIZE <= p
      /\ m.top < Foot(m) /\ Foot(m) < g
  BY DEF Moved
<1> DEFINE x == [m.seg[i] EXCEPT !.size = m.seg[i].size + s]
<1>6. x \in SegmentType /\ x.base = m.seg[i].base /\ x.size = m.seg[i].size + s
  BY <1>3 DEF SegmentType
<1>7. n.seg = [m.seg EXCEPT ![i] = x]
  OBVIOUS
<1> HIDE DEF x
<1>8. /\ DOMAIN n.seg = DOMAIN m.seg /\ n.seg[i] = x
      /\ \A j \in DOMAIN m.seg : j # i => n.seg[j] = m.seg[j]
      /\ n.seg \in Seq(SegmentType) /\ Len(n.seg) = Len(m.seg)
  <2>1. m.seg \in Seq(SegmentType) /\ x \in SegmentType
    BY <1>2, <1>6
  <2>2. n.seg \in Seq(SegmentType) /\ Len(n.seg) = Len(m.seg)
    BY <1>7, <2>1
  <2> QED BY <1>7, <2>1, <2>2
<1>9. /\ n.seg[i].base = m.seg[i].base /\ n.seg[i].size = m.seg[i].size + s
      /\ n.seg[i].base + n.seg[i].size = b + s
  BY <1>3, <1>6, <1>8
<1>10. SegmentsApart(n.seg)
  <2>1. ASSUME NEW j \in DOMAIN m.seg, j # i
        PROVE  b + s <= m.seg[j].base \/ m.seg[j].base + m.seg[j].size <= m.seg[i].base
    <3>1. b <= m.seg[j].base \/ m.seg[j].base + m.seg[j].size <= m.seg[i].base
      BY <1>2, <2>1 DEF SegmentsApart
    <3>2. b + s <= m.seg[j].base \/ m.seg[j].base + m.seg[j].size <= b
      BY <1>4
    <3> QED BY <1>3, <3>1, <3>2
  <2> SUFFICES ASSUME NEW j \in DOMAIN m.seg, NEW k \in DOMAIN m.seg, j # k
               PROVE  n.seg[j].base + n.seg[j].size <= n.seg[k].base \/ n.seg[k].base + n.seg[k].size <= n.seg[j].base
    BY <1>8 DEF SegmentsApart
  <2>2. CASE j = i
    BY <1>8, <1>9, <2>1, <2>2
  <2>3. CASE k = i
    BY <1>8, <1>9, <2>1, <2>3
  <2>4. CASE j # i /\ k # i
    BY <1>2, <1>8, <2>4 DEF SegmentsApart
  <2> QED BY <2>2, <2>3, <2>4
<1>11. n.seg # <<>> => n.least_addr # 0
  BY <1>2, <1>8
<1>12. ASSUME NEW j \in DOMAIN n.seg
       PROVE  /\ n.seg[j].base + n.seg[j].size <= MemoryEnd /\ n.least_addr <= n.seg[j].base
              /\ n.seg[j].base \in DOMAIN n.mem \ {Foot(n)} /\ n.mem[n.seg[j].base].pin
  <2>1. n.seg[j].base = m.seg[j].base /\ j \in DOMAIN m.seg
    BY <1>8, <1>9
  <2>2. n.seg[j].base + n.seg[j].size <= MemoryEnd
    BY <1>2, <1>4, <1>8, <1>9
  <2>3. m.seg[j].base \in DOMAIN m.mem /\ m.seg[j].base # Foot(m) /\ m.seg[j].base \in Nat
    BY <1>2, <1>3, <2>1
  <2>4. m.seg[j].base # g
    BY <1>1, <1>5, <2>3 DEF TOP_FOOT_SIZE
  <2>5. n.mem[m.seg[j].base].pin
    <3>1. CASE m.seg[j].base = m.top
      BY <1>5, <3>1 DEF Chunk
    <3>2. CASE m.seg[j].base # m.top
      BY <1>2, <1>5, <2>1, <2>3, <3>2
    <3> QED BY <3>1, <3>2
  <2> QED BY <1>2, <1>5, <2>1, <2>2, <2>3, <2>4, <2>5
<1>13. ASSUME NEW p \in DOMAIN n.mem, p # Foot(n)
       PROVE  InOne(n.seg, p, p + n.mem[p].size)
  <2>1. p \in DOMAIN m.mem /\ p # Foot(m) /\ p \in Nat
    BY <1>1, <1>5, <1>13
  <2>2. CASE p = m.top
    <3>1. n.mem[p].size = g - m.top /\ p + (g - m.top) = g
      BY <1>1, <1>5, <2>2 DEF Chunk
    <3>2. n.seg[i].base <= p /\ g < n.seg[i].base + n.seg[i].size
      BY <1>1, <1>9, <2>2 DEF TOP_FOOT_SIZE
    <3> QED BY <1>8, <2>2, <3>1, <3>2 DEF InOne
  <2>3. CASE p # m.top
    <3>1. n.mem[p] = m.mem[p]
      BY <1>5, <2>1, <2>3
    <3>2. PICK j \in DOMAIN m.seg : m.seg[j].base <= p
          /\ p + m.mem[p].size < m.seg[j].base + m.seg[j].size
      BY <1>2, <2>1 DEF InOne
    <3>3. n.seg[j].base <= p /\ p + m.mem[p].size < n.seg[j].base + n.seg[j].size
      <4>1. CASE j = i
        <5>1. p + m.mem[p].size \in Nat
          BY <1>1, <2>1
        <5> QED BY <1>3, <1>9, <3>2, <4>1, <5>1
      <4>2. CASE j # i
        BY <1>8, <3>2, <4>2
      <4> QED BY <4>1, <4>2
    <3> QED BY <1>8, <3>1, <3>3 DEF InOne
  <2> QED BY <2>2, <2>3
<1> QED BY <1>2, <1>8, <1>10, <1>11, <1>12, <1>13 DEF Segments

TopBegins(m, p, s, r) ==
    /\ SameButMem(WithTop(m, p, s), r)
    /\ \E a : HeadIsSet(m.mem, a, p, s, FALSE, TRUE) /\ r.mem = With(a, p + s, FootHead)

\* The top is behind the beginning of its segment.
LEMMA TopHasBegun ==
    ASSUME NEW m, DOMAIN m = Fields, NEW p, NEW s
    PROVE  TopBegins(m, p, s, init_top(m, p, s))
BY InitTop DEF TopBegins

\* A region behind the segment that holds top becomes part of top.
LEMMA GrowTop ==
    ASSUME NEW m, NEW X, Whole(m, X), m.top # NULL, NEW i \in DOMAIN m.seg, m.seg[i].base <= m.top,
           NEW b \in Nat, b = m.seg[i].base + m.seg[i].size, b = Foot(m) + TOP_FOOT_SIZE,
           NEW s \in Nat, s > 0, Fresh(m, b, s), NEW t \in Nat, t = m.topsize + s
    PROVE  Extended(m, init_top(WithLarger(m, i, s), m.top, t), t)
<1> DEFINE n0 == WithLarger(m, i, s)
           n == init_top(n0, m.top, t)
           g == m.top + t
<1>1. /\ DOMAIN m = Fields /\ Laid(m) /\ DvIs(m) /\ DOMAIN X = Frees(m.mem, Foot(m)) \ {m.top, m.dv}
      /\ Stored(m, X) /\ Shown(m, X)
      /\ (m.dv # NULL => m.dv \in Frees(m.mem, Foot(m)) /\ m.dv # m.top)
  BY IsWhole DEF Bare
<1>2. /\ m.top \in Frees(m.mem, Foot(m)) /\ m.mem[m.top].size = m.topsize /\ m.mem[m.top].pin
      /\ m.top + m.topsize = Foot(m) /\ m.topsize \in Nat \ {0} /\ m.top \in Nat \ {0}
      /\ m.top # Foot(m)
      /\ Foot(m) \in DOMAIN m.mem /\ Tiled(m.mem, Foot(m)) /\ Foot(m) \in Nat /\ FencesAreCounted(m)
      /\ m.top \in DOMAIN m.mem /\ ~m.mem[m.top].cin
      /\ \A p \in DOMAIN m.mem : p \in Nat \ {0} /\ m.mem[p].size \in Nat
  BY <1>1, TopIsFree, LaidIs DEF Frees
<1>3. /\ g = Foot(m) + s /\ g \in Nat /\ g = b + s - TOP_FOOT_SIZE /\ m.top < Foot(m) /\ Foot(m) < g
      /\ g - m.top = t
      /\ g + TOP_FOOT_SIZE = b + s
  BY <1>2 DEF TOP_FOOT_SIZE
<1>4. /\ DOMAIN n0 = Fields /\ n0.mem = m.mem /\ n0.top = m.top /\ n0.topsize = m.topsize
      /\ SameRest(m, n0) /\ n0.least_addr = m.least_addr
      /\ n0.seg = [m.seg EXCEPT ![i] = [m.seg[i] EXCEPT !.size = m.seg[i].size + s]]
  <2> HIDE DEF n0
  <2>1. n0 = WithLarger(m, i, s)
    BY DEF n0
  <2> QED BY <1>1, <2>1, WithLargerIs
<1> HIDE DEF n0
<1>5. PICK a : SameButMem(WithTop(n0, m.top, t), n) /\ HeadIsSet(m.mem, a, m.top, t, FALSE, TRUE)
      /\ n.mem = With(a, g, FootHead)
  <2>1. TopBegins(n0, m.top, t, n)
    BY <1>4, TopHasBegun
  <2> HIDE DEF n
  <2> QED BY <1>4, <2>1 DEF TopBegins
<1> HIDE DEF n, g
<1>6. /\ DOMAIN n = Fields /\ SameRest(m, n) /\ n.least_addr = m.least_addr /\ n.seg = n0.seg
      /\ n.top = m.top /\ n.topsize = t
  <2> DEFINE r == WithTop(n0, m.top, t)
  <2>1. /\ DOMAIN r = Fields /\ r.top = m.top /\ r.topsize = t
        /\ r.smallmap = n0.smallmap /\ r.treemap = n0.treemap /\ r.smallbins = n0.smallbins
        /\ r.treebins = n0.treebins /\ r.dv = n0.dv /\ r.dvsize = n0.dvsize
        /\ r.least_addr = n0.least_addr /\ r.seg = n0.seg /\ SameButMem(r, n)
    BY <1>4, <1>5, WithTopIs
  <2> HIDE DEF r
  <2> QED BY <1>1, <1>4, <2>1 DEF SameButMem, SameRest
<1>7. Foot(n) = g
  BY <1>6 DEF Foot, g
<1>8. \A p \in DOMAIN m.mem : p <= Foot(m) \/ g + TOP_FOOT_SIZE <= p
  <2>1. \A p \in DOMAIN m.mem : p <= Foot(m) \/ b <= p
    BY <1>2 DEF Tiled
  <2>2. \A p \in DOMAIN m.mem : p < b \/ b + s <= p
    BY <1>1, HeadsElsewhere DEF Vacant
  <2> QED BY <1>2, <1>3, <2>1, <2>2
<1>9. \A p \in DOMAIN m.mem : p <= m.top \/ Foot(m) <= p
  BY <1>2, Apart
<1>10. /\ DOMAIN a = DOMAIN m.mem \ {Foot(m)} /\ \A p \in DOMAIN a : p # m.top => a[p] = m.mem[p]
       /\ a[m.top] = Chunk(t, FALSE, TRUE, 0)
  <2>1. /\ DOMAIN a = {q \in DOMAIN m.mem : q < m.top \/ q >= m.top + t} \cup {m.top}
        /\ \A p \in DOMAIN a : p # m.top => a[p] = m.mem[p]
        /\ \E h : a[m.top] = Chunk(t, FALSE, TRUE, h)
    BY <1>5 DEF HeadIsSet
  <2>2. \A h : Chunk(t, FALSE, TRUE, h) = Chunk(t, FALSE, TRUE, 0)
    BY DEF Chunk
  <2>3. \A q \in DOMAIN m.mem : (q < m.top \/ q >= m.top + t \/ q = m.top) <=> q # Foot(m)
    BY <1>2, <1>3, <1>8, <1>9 DEF TOP_FOOT_SIZE, g
  <2> QED BY <1>2, <2>1, <2>2, <2>3
<1>11. g \notin DOMAIN a
  BY <1>2, <1>3, <1>8, <1>10 DEF TOP_FOOT_SIZE
<1>12. /\ DOMAIN n.mem = (DOMAIN m.mem \ {Foot(m)}) \cup {g} /\ n.mem[g] = FootHead
       /\ \A p \in DOMAIN m.mem \ {Foot(m)} : n.mem[p] = a[p]
  BY <1>5, <1>10, <1>11 DEF With
<1>13. Moved(m.mem, n.mem, m.top, Foot(m), g)
  <2>1. \A p \in DOMAIN m.mem \ {m.top, Foot(m)} : n.mem[p] = m.mem[p]
    BY <1>10, <1>12
  <2>2. n.mem[m.top] = Chunk(g - m.top, FALSE, TRUE, 0)
    BY <1>2, <1>3, <1>10, <1>12
  <2> QED BY <1>2, <1>3, <1>8, <1>12, <2>1, <2>2 DEF Moved
<1>14. MovedIs(m.mem, n.mem, m.top, Foot(m), g)
  BY <1>2, <1>3, <1>13, MovedTiled
<1>15. /\ Tiled(n.mem, g) /\ Fenced(n.mem) = Fenced(m.mem) /\ Used(n.mem) = Used(m.mem)
       /\ Frees(n.mem, g) = Frees(m.mem, Foot(m))
  BY <1>14 DEF MovedIs
<1>16. Segments(n)
  BY <1>1, <1>3, <1>4, <1>6, <1>7, <1>13, SegmentGrows
<1>17. Segments(m)
  BY <1>1 DEF Laid
<1>18. m.seg[i].base \in Nat /\ m.seg[i].size \in Nat
  BY <1>17, SegmentIs
<1>19. /\ DOMAIN n.seg = DOMAIN m.seg /\ Len(n.seg) = Len(m.seg) /\ n.seg # <<>> /\ m.seg # <<>>
       /\ n.seg[i].base = m.seg[i].base
       /\ n.seg[i].size = m.seg[i].size + s
  <2> DEFINE x == [m.seg[i] EXCEPT !.size = m.seg[i].size + s]
  <2>1. m.seg \in Seq(SegmentType) /\ m.seg[i] \in SegmentType
    BY <1>17, SegmentIs DEF Segments
  <2>2. x.base = m.seg[i].base /\ x.size = m.seg[i].size + s /\ n.seg = [m.seg EXCEPT ![i] = x]
    BY <1>4, <1>6, <2>1 DEF SegmentType
  <2> HIDE DEF x
  <2>3. n.seg[i] = x /\ DOMAIN n.seg = DOMAIN m.seg /\ Len(n.seg) = Len(m.seg)
    BY <2>1, <2>2
  <2>4. DOMAIN n.seg # {} /\ DOMAIN m.seg # {}
    BY <2>3
  <2> QED BY <2>2, <2>3, <2>4
<1>20. TopIs(n)
  <2>1. n.mem[n.top].size = n.topsize /\ ~n.mem[n.top].cin /\ n.mem[n.top].pin /\ n.top \in DOMAIN n.mem
    BY <1>2, <1>6, <1>10, <1>12 DEF Chunk
  <2>2. n.seg[i].base <= n.top /\ n.seg[i].base + n.seg[i].size = Foot(n) + TOP_FOOT_SIZE
    BY <1>3, <1>6, <1>7, <1>18, <1>19
  <2> QED BY <1>2, <1>6, <1>7, <1>12, <1>19, <2>1, <2>2 DEF TopIs
<1>21. Laid(n)
  BY <1>2, <1>7, <1>15, <1>16, <1>19, <1>20 DEF Laid, FencesAreCounted
<1>22. \A p \in DOMAIN m.mem \ {m.top, Foot(m)} : n.mem[p].size = m.mem[p].size
  BY <1>10, <1>12
<1>23. \A p \in Frees(m.mem, Foot(m)) \ {m.top} : n.mem[p].size = m.mem[p].size
  BY <1>22 DEF Frees
<1>24. DvIs(n)
  BY <1>1, <1>6, <1>7, <1>15, <1>23 DEF DvIs, SameRest
<1>25. Kept(n, X, {})
  <2>1. Shown(n, X)
    BY <1>1, <1>23 DEF Shown, chunksize
  <2>2. Stored(n, X)
    BY <1>1, <1>6, StoredStays DEF SameRest, SameBins
  <2>3. n.top = m.top /\ n.dv = m.dv
    BY <1>6 DEF SameRest
  <2>4. DOMAIN X = Frees(n.mem, Foot(n)) \ ({n.top, n.dv} \cup {})
    BY <1>1, <1>7, <1>15, <2>3
  <2> QED BY <2>1, <2>2, <2>4 DEF Kept
<1>26. SameUsed(m, n)
  <2> SUFFICES ASSUME NEW q \in Used(m.mem) PROVE n.mem[q].size = m.mem[q].size
    BY <1>15 DEF SameUsed
  <2>1. q \in DOMAIN m.mem \ {Foot(m)} /\ q \notin Frees(m.mem, Foot(m)) /\ q \in DOMAIN m.mem
    BY <1>1, UsedIs
  <2> QED BY <1>2, <1>22, <2>1
<1>27. Whole(n, X)
  BY <1>21, <1>24, <1>25 DEF Whole
<1> QED BY <1>6, <1>26, <1>27 DEF Extended, n, n0

\* Memory n is memory m with a chunk in use in front of segment i.
Fronted(m, n, i, b, s) ==
    /\ DOMAIN n.mem = DOMAIN m.mem \cup {b} /\ \A p \in DOMAIN m.mem : n.mem[p] = m.mem[p]
    /\ n.mem[b] = Chunk(s, TRUE, TRUE, 0)
    /\ n.seg = [m.seg EXCEPT ![i] = [base |-> b, size |-> s + m.seg[i].size]]
    /\ n.least_addr = Lowest(m.least_addr, b) /\ SameRest(m, n) /\ n.top = m.top
    /\ n.topsize = m.topsize

\* Where the segment is.
InFront(m, i, b, s) ==
    /\ i \in DOMAIN m.seg /\ b + s = m.seg[i].base /\ Fresh(m, b, s) /\ s \in Nat /\ s >= MIN_CHUNK_SIZE
    /\ b \in Nat /\ b # 0

\* Nothing of the heap is there.
LEMMA FrontIsFree ==
    ASSUME NEW m, Laid(m), NEW i, NEW b, NEW s, InFront(m, i, b, s)
    PROVE  /\ b \notin DOMAIN m.mem /\ b + s \in DOMAIN m.mem /\ b + s # Foot(m) /\ m.mem[b + s].pin
           /\ \A p \in DOMAIN m.mem : (p < b /\ p + m.mem[p].size <= b) \/ b + s <= p
<1>1. /\ i \in DOMAIN m.seg /\ b + s = m.seg[i].base /\ Fresh(m, b, s) /\ s \in Nat /\ s > 0
      /\ b \in Nat
  BY DEF InFront, MIN_CHUNK_SIZE
<1>2. \A p \in DOMAIN m.mem : (p < b /\ p + m.mem[p].size <= b) \/ b + s <= p
  BY <1>1, HeadsElsewhere DEF Vacant
<1>3. m.seg[i].base \in DOMAIN m.mem \ {Foot(m)} /\ m.mem[m.seg[i].base].pin
  BY <1>1, LaidIs DEF Segments
<1>4. b \notin DOMAIN m.mem
  BY <1>1, <1>2
<1> QED BY <1>1, <1>2, <1>3, <1>4

\* The heads stay sound.
LEMMA SegmentFront ==
    ASSUME NEW m, Laid(m), NEW i, NEW b, NEW s, InFront(m, i, b, s), NEW n, Fronted(m, n, i, b, s)
    PROVE  /\ Segments(n) /\ DOMAIN n.seg = DOMAIN m.seg /\ Len(n.seg) = Len(m.seg) /\ n.seg # <<>>
           /\ m.seg # <<>>
           /\ \A j \in DOMAIN m.seg : /\ n.seg[j].base <= m.seg[j].base /\ n.seg[j].base + n.seg[j].size = m.seg[j].base + m.seg[j].size
<1>1. Segments(m) /\ Foot(m) \in Nat /\ m.top \in Nat /\ \A p \in DOMAIN m.mem : p \in Nat \ {0}
      /\ m.mem[p].size \in Nat
  BY LaidIs
<1>2. /\ m.seg \in Seq(SegmentType) /\ m.least_addr \in Nat /\ SegmentsApart(m.seg)
         /\ (m.seg # <<>> => m.least_addr # 0)
      /\ \A j \in DOMAIN m.seg : /\ m.seg[j].base + m.seg[j].size <= MemoryEnd /\ m.least_addr <= m.seg[j].base
                                 /\ m.seg[j].base \in DOMAIN m.mem \ {Foot(m)}
                                 /\ m.mem[m.seg[j].base].pin
      /\ \A p \in DOMAIN m.mem \ {Foot(m)} : InOne(m.seg, p, p + m.mem[p].size)
  BY <1>1 DEF Segments
<1>3. \A j \in DOMAIN m.seg : m.seg[j].base \in Nat \ {0} /\ m.seg[j].size \in Nat \ {0}
      /\ m.seg[j] \in SegmentType
  BY <1>1, SegmentIs
<1>4. /\ i \in DOMAIN m.seg /\ b + s = m.seg[i].base /\ s \in Nat /\ s > 0 /\ b \in Nat \ {0}
      /\ \A j \in DOMAIN m.seg : b + s <= m.seg[j].base \/ m.seg[j].base + m.seg[j].size <= b
  BY DEF InFront, MIN_CHUNK_SIZE, Fresh
<1>5. /\ DOMAIN n.mem = DOMAIN m.mem \cup {b} /\ \A p \in DOMAIN m.mem : n.mem[p] = m.mem[p]
      /\ n.mem[b] = Chunk(s, TRUE, TRUE, 0)
      /\ n.seg = [m.seg EXCEPT ![i] = [base |-> b, size |-> s + m.seg[i].size]]
      /\ n.least_addr = Lowest(m.least_addr, b) /\ n.top = m.top /\ n.topsize = m.topsize
  BY DEF Fronted
<1> DEFINE x == [base |-> b, size |-> s + m.seg[i].size]
<1>6. x \in SegmentType /\ x.base = b /\ x.size = s + m.seg[i].size
  BY <1>3, <1>4 DEF SegmentType
<1>7. n.seg = [m.seg EXCEPT ![i] = x]
  BY <1>5
<1> HIDE DEF x
<1>8. /\ DOMAIN n.seg = DOMAIN m.seg /\ n.seg[i] = x
         /\ \A j \in DOMAIN m.seg : j # i => n.seg[j] = m.seg[j]
      /\ n.seg \in Seq(SegmentType) /\ Len(n.seg) = Len(m.seg)
  BY <1>2, <1>4, <1>6, <1>7
<1>9. n.seg # <<>> /\ m.seg # <<>>
  <2>1. DOMAIN n.seg # {} /\ DOMAIN m.seg # {}
    BY <1>4, <1>8
  <2> QED BY <2>1
<1>10. \A j \in DOMAIN m.seg : /\ n.seg[j].base <= m.seg[j].base /\ n.seg[j].base + n.seg[j].size = m.seg[j].base + m.seg[j].size
                               /\ n.seg[j].base \in Nat
  <2> SUFFICES ASSUME NEW j \in DOMAIN m.seg
               PROVE  /\ n.seg[j].base <= m.seg[j].base
                      /\ n.seg[j].base + n.seg[j].size = m.seg[j].base + m.seg[j].size
                      /\ n.seg[j].base \in Nat
    OBVIOUS
  <2>1. CASE j = i
    BY <1>3, <1>4, <1>6, <1>8, <2>1
  <2>2. CASE j # i
    BY <1>3, <1>8, <2>2
  <2> QED BY <2>1, <2>2
<1>11. SegmentsApart(n.seg)
  <2>1. ASSUME NEW j \in DOMAIN m.seg, j # i
        PROVE  m.seg[i].base + m.seg[i].size <= m.seg[j].base \/ m.seg[j].base + m.seg[j].size <= b
    <3>1. m.seg[i].base + m.seg[i].size <= m.seg[j].base \/ m.seg[j].base + m.seg[j].size <= m.seg[i].base
      BY <1>2, <1>4, <2>1 DEF SegmentsApart
    <3>2. b + s <= m.seg[j].base \/ m.seg[j].base + m.seg[j].size <= b
      BY <1>4
    <3> QED BY <1>3, <1>4, <3>1, <3>2
  <2> SUFFICES ASSUME NEW j \in DOMAIN m.seg, NEW k \in DOMAIN m.seg, j # k
               PROVE  n.seg[j].base + n.seg[j].size <= n.seg[k].base \/ n.seg[k].base + n.seg[k].size <= n.seg[j].base
    BY <1>8 DEF SegmentsApart
  <2>2. CASE j = i
    BY <1>6, <1>8, <1>10, <2>1, <2>2
  <2>3. CASE k = i
    BY <1>6, <1>8, <1>10, <2>1, <2>3
  <2>4. CASE j # i /\ k # i
    BY <1>2, <1>8, <2>4 DEF SegmentsApart
  <2> QED BY <2>2, <2>3, <2>4
<1>12. n.least_addr \in Nat /\ n.least_addr # 0 /\ n.least_addr <= b
       /\ \A j \in DOMAIN m.seg : n.least_addr <= m.seg[j].base
  BY <1>2, <1>3, <1>4, <1>5, <1>9 DEF Lowest
<1>13. Foot(n) = Foot(m)
  BY <1>5 DEF Foot
<1>14. b # Foot(m)
  <2>1. b \notin DOMAIN m.mem
    BY FrontIsFree
  <2>2. m.top # NULL
    BY <1>9, LaidIs DEF TopIs
  <2>3. Foot(m) \in DOMAIN m.mem
    BY <2>2, TopIsFree
  <2> QED BY <2>1, <2>3
<1>15. ASSUME NEW j \in DOMAIN n.seg
       PROVE  /\ n.seg[j].base + n.seg[j].size <= MemoryEnd /\ n.least_addr <= n.seg[j].base
              /\ n.seg[j].base \in DOMAIN n.mem \ {Foot(n)} /\ n.mem[n.seg[j].base].pin
  <2>1. n.seg[j].base + n.seg[j].size <= MemoryEnd
    BY <1>2, <1>8, <1>10
  <2>2. CASE j = i
    <3>1. n.mem[b].pin
      BY <1>5 DEF Chunk
    <3> QED BY <1>5, <1>6, <1>8, <1>12, <1>13, <1>14, <2>1, <2>2, <3>1
  <2>3. CASE j # i
    BY <1>2, <1>5, <1>8, <1>12, <1>13, <2>1, <2>3
  <2> QED BY <2>2, <2>3
<1>16. ASSUME NEW p \in DOMAIN n.mem, p # Foot(n)
       PROVE  InOne(n.seg, p, p + n.mem[p].size)
  <2>1. CASE p = b
    <3>1. n.mem[p].size = s
      BY <1>5, <2>1 DEF Chunk
    <3>2. n.seg[i].base <= b /\ b + s < n.seg[i].base + n.seg[i].size
      BY <1>3, <1>4, <1>6, <1>8
    <3> QED BY <1>4, <1>8, <2>1, <3>1, <3>2 DEF InOne
  <2>2. CASE p # b
    <3>1. p \in DOMAIN m.mem /\ p # Foot(m) /\ n.mem[p] = m.mem[p] /\ p \in Nat
      BY <1>1, <1>5, <1>13, <1>16, <2>2
    <3>2. PICK j \in DOMAIN m.seg : m.seg[j].base <= p
          /\ p + m.mem[p].size < m.seg[j].base + m.seg[j].size
      BY <1>2, <3>1 DEF InOne
    <3>3. n.seg[j].base <= p
      BY <1>3, <1>10, <3>1, <3>2
    <3> QED BY <1>8, <1>10, <3>1, <3>2, <3>3 DEF InOne
  <2> QED BY <2>1, <2>2
<1>17. Segments(n)
  BY <1>8, <1>11, <1>12, <1>15, <1>16 DEF Segments
<1> QED BY <1>8, <1>9, <1>10, <1>17

\* It is one more chunk in use.
LEMMA FrontWhole ==
    ASSUME NEW m, NEW X, Whole(m, X), NEW i, NEW b, NEW s, InFront(m, i, b, s), NEW n,
           Fronted(m, n, i, b, s)
    PROVE  /\ Whole(n, X) /\ Gives(m, n, b, s)
           /\ n.mem[b].pin
<1>1. /\ DOMAIN m = Fields /\ Laid(m) /\ DvIs(m) /\ DOMAIN X = Frees(m.mem, Foot(m)) \ {m.top, m.dv}
      /\ Stored(m, X) /\ Shown(m, X)
  BY IsWhole DEF Bare
<1>2. /\ Tiled(m.mem, Foot(m)) /\ Foot(m) \in Nat /\ TopIs(m) /\ FencesAreCounted(m)
      /\ \A p \in DOMAIN m.mem : p \in Nat \ {0} /\ m.mem[p] \in HeadType /\ m.mem[p].size \in Nat
  BY <1>1, LaidIs
<1>3. /\ DOMAIN n.mem = DOMAIN m.mem \cup {b} /\ \A p \in DOMAIN m.mem : n.mem[p] = m.mem[p]
      /\ n.mem[b] = Chunk(s, TRUE, TRUE, 0) /\ SameRest(m, n) /\ n.top = m.top /\ n.topsize = m.topsize
  BY DEF Fronted
<1>4. b \in Nat \ {0} /\ s \in Nat /\ s >= MIN_CHUNK_SIZE /\ s # 0
  BY DEF InFront, MIN_CHUNK_SIZE
<1>5. /\ b \notin DOMAIN m.mem /\ b + s \in DOMAIN m.mem /\ b + s # Foot(m) /\ m.mem[b + s].pin
      /\ \A p \in DOMAIN m.mem : (p < b /\ p + m.mem[p].size <= b) \/ b + s <= p
  BY <1>1, FrontIsFree
<1>6. /\ Segments(n) /\ DOMAIN n.seg = DOMAIN m.seg /\ Len(n.seg) = Len(m.seg) /\ n.seg # <<>>
      /\ m.seg # <<>>
      /\ \A j \in DOMAIN m.seg : /\ n.seg[j].base <= m.seg[j].base /\ n.seg[j].base + n.seg[j].size = m.seg[j].base + m.seg[j].size
  BY <1>1, SegmentFront
<1>7. m.top # NULL /\ Foot(m) \in DOMAIN m.mem /\ m.top \in Nat
  BY <1>1, <1>2, <1>6, TopIsFree DEF TopIs
<1>8. Foot(n) = Foot(m) /\ b # Foot(m)
  BY <1>3, <1>5, <1>7 DEF Foot
<1>9. n.mem[b].size = s /\ n.mem[b].cin = TRUE /\ n.mem[b].pin = TRUE
  BY <1>3 DEF Chunk
<1>10. n.mem[b] \in HeadType
  <2>1. Chunk(s, TRUE, TRUE, 0) \in HeadType
    BY <1>4, ChunkType
  <2> QED BY <1>3, <2>1
<1>11. Sound(n.mem, Foot(m), b)
  <2>1. \A a \in DOMAIN n.mem : a <= b \/ b + s <= a
    BY <1>2, <1>3, <1>4, <1>5
  <2>2. n.mem[b + s].pin = TRUE /\ b + s \in DOMAIN n.mem
    <3>1. m.mem[b + s].pin \in BOOLEAN
      BY <1>2, <1>5 DEF HeadType
    <3> QED BY <1>3, <1>5, <3>1
  <2> QED BY <1>4, <1>9, <2>1, <2>2 DEF Sound
<1>12. ASSUME NEW p \in DOMAIN m.mem \ {Foot(m)}
       PROVE  Sound(n.mem, Foot(m), p)
  <2>1. \A a \in DOMAIN n.mem \ DOMAIN m.mem : a <= p \/ p + m.mem[p].size <= a
    <3>1. b <= p \/ p + m.mem[p].size <= b
      BY <1>2, <1>4, <1>5
    <3> QED BY <1>3, <3>1
  <2>2. DOMAIN m.mem \subseteq DOMAIN n.mem
    BY <1>3
  <2> QED BY <1>2, <1>3, <2>1, <2>2, SoundStays
<1>13. Tiled(n.mem, Foot(m))
  <2>1. DOMAIN n.mem \subseteq Nat \ {0} /\ \A p \in DOMAIN n.mem : n.mem[p] \in HeadType
    BY <1>2, <1>3, <1>4, <1>10
  <2>2. m.mem[Foot(m)] = FootHead
        /\ \A a \in DOMAIN m.mem : a <= Foot(m) \/ Foot(m) + TOP_FOOT_SIZE <= a
    BY <1>2, <1>7 DEF Tiled
  <2>3. b <= Foot(m) \/ Foot(m) + TOP_FOOT_SIZE <= b
    <3>1. m.mem[Foot(m)].size = TOP_FOOT_SIZE
      BY <2>2 DEF FootHead, Chunk
    <3> QED BY <1>2, <1>4, <1>5, <1>7, <3>1
  <2>4. n.mem[Foot(m)] = FootHead
        /\ \A a \in DOMAIN n.mem : a <= Foot(m) \/ Foot(m) + TOP_FOOT_SIZE <= a
    BY <1>3, <1>7, <2>2, <2>3
  <2>5. \A p \in DOMAIN n.mem \ {Foot(m)} : Sound(n.mem, Foot(m), p)
    BY <1>3, <1>11, <1>12
  <2> QED BY <2>1, <2>4, <2>5 DEF Tiled
<1>14. Fenced(n.mem) = Fenced(m.mem)
  BY <1>3, <1>4, <1>9 DEF Fenced
<1>15. Frees(n.mem, Foot(n)) = Frees(m.mem, Foot(m))
  BY <1>3, <1>8, <1>9 DEF Frees
<1>16. b + SEGMENT_SIZE \notin Fenced(m.mem)
  <2> SUFFICES ASSUME b + SEGMENT_SIZE \in Fenced(m.mem) PROVE FALSE
    OBVIOUS
  <2>1. b + SEGMENT_SIZE \in DOMAIN m.mem /\ m.mem[b + SEGMENT_SIZE].size = 0
    BY DEF Fenced
  <2>2. b + SEGMENT_SIZE # Foot(m)
    <3>1. m.mem[Foot(m)].size = TOP_FOOT_SIZE
      BY <1>2, <1>7 DEF Tiled, FootHead, Chunk
    <3> QED BY <2>1, <3>1 DEF TOP_FOOT_SIZE
  <2>3. Sound(m.mem, Foot(m), b + SEGMENT_SIZE)
    BY <1>2, <2>1, <2>2 DEF Tiled
  <2>4. (b + SEGMENT_SIZE) - SEGMENT_SIZE \in DOMAIN m.mem
    BY <2>1, <2>3 DEF Sound
  <2>5. (b + SEGMENT_SIZE) - SEGMENT_SIZE = b
    BY <1>4 DEF SEGMENT_SIZE
  <2> QED BY <1>5, <2>4, <2>5
<1>17. Used(n.mem) = Used(m.mem) \cup {b}
  <2>1. b \in Used(n.mem)
    BY <1>3, <1>4, <1>9, <1>14, <1>16 DEF Used, Records, Fenced
  <2>2. ASSUME NEW p \in DOMAIN m.mem PROVE p \in Used(n.mem) <=> p \in Used(m.mem)
    BY <1>3, <1>14 DEF Used, Records
  <2>3. Used(n.mem) \subseteq DOMAIN n.mem /\ Used(m.mem) \subseteq DOMAIN m.mem
    BY DEF Used
  <2> QED BY <1>3, <2>1, <2>2, <2>3
<1>18. TopIs(n)
  <2>1. /\ m.top \in Nat /\ m.topsize \in Nat /\ m.top \in DOMAIN m.mem /\ Foot(m) \in DOMAIN m.mem
        /\ m.topsize > 0
        /\ m.mem[m.top].size = m.topsize /\ ~m.mem[m.top].cin /\ m.mem[m.top].pin
    BY <1>2, <1>7 DEF TopIs
  <2>2. PICK j \in DOMAIN m.seg : m.seg[j].base <= m.top
        /\ m.seg[j].base + m.seg[j].size = Foot(m) + TOP_FOOT_SIZE
    BY <1>2, <1>7 DEF TopIs
  <2>3. n.seg[j].base \in Nat /\ m.seg[j].base \in Nat
    BY <1>1, <1>6, SegmentIs DEF Laid
  <2>4. n.seg[j].base <= n.top /\ n.seg[j].base + n.seg[j].size = Foot(n) + TOP_FOOT_SIZE
    BY <1>3, <1>6, <1>7, <1>8, <2>2, <2>3
  <2> QED BY <1>3, <1>6, <1>7, <1>8, <2>1, <2>4 DEF TopIs
<1>19. Laid(n)
  BY <1>2, <1>6, <1>8, <1>13, <1>14, <1>18 DEF Laid, FencesAreCounted
<1>20. \A p \in Frees(m.mem, Foot(m)) : n.mem[p] = m.mem[p]
  BY <1>3 DEF Frees
<1>21. DvIs(n)
  BY <1>1, <1>3, <1>15, <1>20 DEF DvIs, SameRest
<1>22. Kept(n, X, {})
  <2>1. Shown(n, X)
    BY <1>1, <1>20 DEF Shown, chunksize
  <2>2. Stored(n, X)
    BY <1>1, <1>3, StoredStays DEF SameRest, SameBins
  <2>3. DOMAIN X = Frees(n.mem, Foot(n)) \ ({n.top, n.dv} \cup {})
    BY <1>1, <1>3, <1>15 DEF SameRest
  <2> QED BY <2>1, <2>2, <2>3 DEF Kept
<1>23. Gives(m, n, b, s)
  <2>1. b \notin Used(m.mem) /\ b # NULL
    BY <1>4, <1>5 DEF Used, NULL
  <2>2. \A q \in Used(m.mem) : n.mem[q].size = m.mem[q].size
    BY <1>3 DEF Used
  <2>3. n.mem[b].size \in s..s + 1
    BY <1>4, <1>9
  <2> QED BY <1>17, <2>1, <2>2, <2>3 DEF Gives
<1>24. Whole(n, X)
  BY <1>19, <1>21, <1>22 DEF Whole
<1> QED BY <1>9, <1>23, <1>24

------------------------------------------------------------------------------
(* The system gives a region in front of a segment.                           *)

\* The front of a region is taken and the rest, before a chunk in use, becomes free.
LEMMA CarvedIs ==
    ASSUME NEW mem, NEW ft, NEW lo, NEW hi, Spot(mem, ft, lo, hi), NEW mid, Parted(lo, mid, hi),
           Differ(hi, ft), mem[lo].pin, mem[hi].cin, Wide(mid, hi),
           NEW a, NEW b, NEW c, NEW d,
           HeadIsSet(mem, a, lo, mid - lo, TRUE, TRUE),
           PinIsCleared(a, b, hi),
           HeadIsSet(b, c, mid, hi - mid, FALSE, TRUE),
           FootIsSet(c, d, hi, hi - mid)
    PROVE  AsTwo(mem, d, ft, lo, mid, hi, FALSE)
<1>0. /\ hi - lo \in Nat /\ lo + (hi - lo) = hi /\ lo \in Nat /\ hi \in Nat /\ lo < hi
      /\ lo \in DOMAIN mem /\ hi \in DOMAIN mem
      /\ DOMAIN mem \subseteq Nat /\ mem[hi] \in HeadType /\ mem[lo] \in HeadType
      /\ mem[lo].pin \in BOOLEAN /\ mem[hi].cin \in BOOLEAN
      /\ mid \in Nat /\ lo < mid /\ mid < hi /\ mid - lo \in Nat /\ hi - mid \in Nat
      /\ lo + (mid - lo) = mid /\ mid + (hi - mid) = hi
  BY DEF Spot, HeadType, Parted
<1>1. /\ DOMAIN a = {q \in DOMAIN mem : q < lo \/ q >= mid} \cup {lo}
         /\ \A p \in DOMAIN a : p # lo => a[p] = mem[p]
      /\ a[lo].size = mid - lo /\ a[lo].cin = TRUE /\ a[lo].pin = TRUE /\ a[lo] \in HeadType
      /\ hi \in DOMAIN a /\ a[hi] = mem[hi]
  <2>1. DOMAIN a = {q \in DOMAIN mem : q < lo \/ q >= mid} \cup {lo}
        /\ \A p \in DOMAIN a : p # lo => a[p] = mem[p]
    BY <1>0 DEF HeadIsSet
  <2>2. a[lo].size = mid - lo /\ a[lo].cin = TRUE /\ a[lo].pin = TRUE /\ a[lo] \in HeadType
    BY <1>0 DEF HeadIsSet, HeadType, Chunk
  <2>3. hi \in DOMAIN a /\ a[hi] = mem[hi]
    BY <1>0, <2>1
  <2> QED BY <2>1, <2>2, <2>3
<1>2. /\ DOMAIN b = DOMAIN a /\ \A p \in DOMAIN a : p # hi => b[p] = a[p]
      /\ b[hi] \in HeadType /\ b[hi].size = mem[hi].size /\ b[hi].cin = mem[hi].cin /\ b[hi].pin = FALSE
      /\ b[lo] = a[lo]
  <2>1. DOMAIN b = DOMAIN a /\ \A p \in DOMAIN a : p # hi => b[p] = a[p]
    BY DEF PinIsCleared
  <2>2. b[hi] = [mem[hi] EXCEPT !.pin = FALSE]
    BY <1>1 DEF PinIsCleared
  <2>3. b[hi] \in HeadType /\ b[hi].size = mem[hi].size /\ b[hi].cin = mem[hi].cin /\ b[hi].pin = FALSE
    BY <1>0, <2>2 DEF HeadType
  <2>4. b[lo] = a[lo]
    BY <1>0, <1>1, <2>1
  <2> QED BY <2>1, <2>3, <2>4
<1>3. /\ DOMAIN c = {q \in DOMAIN b : q < mid \/ q >= hi} \cup {mid}
         /\ \A p \in DOMAIN c : p # mid => c[p] = b[p]
      /\ c[mid].size = hi - mid /\ c[mid].cin = FALSE /\ c[mid].pin = TRUE /\ c[mid] \in HeadType
      /\ hi \in DOMAIN c /\ c[hi] = b[hi] /\ lo \in DOMAIN c /\ c[lo] = a[lo]
      /\ mid \in DOMAIN c
  <2>1. DOMAIN c = {q \in DOMAIN b : q < mid \/ q >= hi} \cup {mid}
        /\ \A p \in DOMAIN c : p # mid => c[p] = b[p]
    BY <1>0 DEF HeadIsSet
  <2>4. mid \in DOMAIN b => mid \in DOMAIN mem /\ b[mid] = mem[mid]
    BY <1>0, <1>1, <1>2
  <2>5. \E f \in Nat : c[mid] = Chunk(hi - mid, FALSE, TRUE, f)
    <3>1. c[mid] = Chunk(hi - mid, FALSE, TRUE, 0)
      BY DEF HeadIsSet, Chunk
    <3> QED BY <3>1
  <2>2. c[mid].size = hi - mid /\ c[mid].cin = FALSE /\ c[mid].pin = TRUE /\ c[mid] \in HeadType
    BY <1>0, <2>5 DEF HeadType, Chunk
  <2>3. hi \in DOMAIN c /\ c[hi] = b[hi] /\ lo \in DOMAIN c /\ c[lo] = a[lo] /\ mid \in DOMAIN c
    BY <1>0, <1>1, <1>2, <2>1
  <2> QED BY <2>1, <2>2, <2>3
<1>4. /\ DOMAIN d = DOMAIN c /\ \A p \in DOMAIN c : p # hi => d[p] = c[p]
      /\ d[hi].pin = FALSE /\ d[hi].size = mem[hi].size /\ d[hi].cin = mem[hi].cin
      /\ d[hi].foot = hi - mid /\ d[hi] \in HeadType /\ d[lo] = a[lo] /\ d[mid] = c[mid]
  <2>1. DOMAIN d = DOMAIN c /\ \A p \in DOMAIN c : p # hi => d[p] = c[p]
    BY DEF FootIsSet
  <2>2. d[hi] = [b[hi] EXCEPT !.foot = hi - mid]
    BY <1>3 DEF FootIsSet
  <2>3. /\ d[hi].pin = FALSE /\ d[hi].size = mem[hi].size /\ d[hi].cin = mem[hi].cin
        /\ d[hi].foot = hi - mid /\ d[hi] \in HeadType
    BY <1>0, <1>2, <2>2 DEF HeadType
  <2>4. d[lo] = a[lo] /\ d[mid] = c[mid]
    BY <1>0, <1>3, <2>1
  <2> QED BY <2>1, <2>3, <2>4
<1>5. Renewed(mem, d, ft, lo, hi, {lo, mid})
  <2>1. DOMAIN d = (DOMAIN mem \ Inner(mem, lo, hi)) \cup {lo, mid}
    BY <1>0, <1>1, <1>2, <1>3, <1>4 DEF Inner
  <2>2. ASSUME NEW p \in DOMAIN mem, p < lo \/ hi < p PROVE d[p] = mem[p]
    <3>1. p \in Nat /\ p # lo /\ p # hi /\ p # mid /\ (p < lo \/ p >= mid) /\ (p < mid \/ p >= hi)
      BY <1>0, <2>2
    <3>2. p \in DOMAIN a /\ p \in DOMAIN b /\ p \in DOMAIN c
      BY <3>1, <1>1, <1>2, <1>3
    <3> QED BY <3>1, <3>2, <1>1, <1>2, <1>3, <1>4
  <2> QED BY <2>1, <2>2 DEF Renewed
<1>6. Piece(d[lo], mid - lo, TRUE, mem[lo].pin, mem[lo].foot)
  BY <1>0, <1>1, <1>4 DEF Piece, HeadType
<1>7. Piece(d[mid], hi - mid, FALSE, TRUE, 0)
  BY <1>0, <1>3, <1>4 DEF Piece, HeadType
<1>8. Piece(d[hi], mem[hi].size, mem[hi].cin, FALSE, hi - mid)
  BY <1>0, <1>4 DEF Piece, HeadType
<1>9. mid \in Nat /\ lo + MIN_CHUNK_SIZE <= mid /\ mid < hi /\ (hi = ft \/ mid + MIN_CHUNK_SIZE <= hi)
  BY <1>0 DEF Parted, Wide, MIN_CHUNK_SIZE
<1> QED BY <1>0, <1>5, <1>6, <1>7, <1>8, <1>9 DEF AsTwo, Differ

\* The front of a region that ends with top is taken and the rest becomes top.
LEMMA CarvedToTopIs ==
    ASSUME NEW mem, NEW ft, NEW lo, NEW hi, Spot(mem, ft, lo, hi), NEW mid, Parted(lo, mid, hi),
           hi = ft, mem[lo].pin,
           NEW a, NEW b,
           HeadIsSet(mem, a, lo, mid - lo, TRUE, TRUE),
           HeadIsSet(a, b, mid, hi - mid, FALSE, TRUE)
    PROVE  AsTwo(mem, b, ft, lo, mid, hi, FALSE)
<1>0. /\ hi - lo \in Nat /\ lo + (hi - lo) = hi /\ lo \in Nat /\ hi \in Nat /\ lo < hi
      /\ lo \in DOMAIN mem /\ hi \in DOMAIN mem
      /\ DOMAIN mem \subseteq Nat /\ mem[hi] \in HeadType /\ mem[lo] \in HeadType
      /\ mem[lo].pin \in BOOLEAN /\ mem[hi].cin \in BOOLEAN
      /\ mid \in Nat /\ lo < mid /\ mid < hi /\ mid - lo \in Nat /\ hi - mid \in Nat
      /\ lo + (mid - lo) = mid /\ mid + (hi - mid) = hi
  BY DEF Spot, HeadType, Parted
<1>1. /\ DOMAIN a = {q \in DOMAIN mem : q < lo \/ q >= mid} \cup {lo}
         /\ \A p \in DOMAIN a : p # lo => a[p] = mem[p]
      /\ a[lo].size = mid - lo /\ a[lo].cin = TRUE /\ a[lo].pin = TRUE /\ a[lo] \in HeadType
      /\ hi \in DOMAIN a /\ a[hi] = mem[hi]
  <2>1. DOMAIN a = {q \in DOMAIN mem : q < lo \/ q >= mid} \cup {lo}
        /\ \A p \in DOMAIN a : p # lo => a[p] = mem[p]
    BY <1>0 DEF HeadIsSet
  <2>2. a[lo].size = mid - lo /\ a[lo].cin = TRUE /\ a[lo].pin = TRUE /\ a[lo] \in HeadType
    BY <1>0 DEF HeadIsSet, HeadType, Chunk
  <2>3. hi \in DOMAIN a /\ a[hi] = mem[hi]
    BY <1>0, <2>1
  <2> QED BY <2>1, <2>2, <2>3
<1>2. /\ DOMAIN b = {q \in DOMAIN a : q < mid \/ q >= hi} \cup {mid}
         /\ \A p \in DOMAIN b : p # mid => b[p] = a[p]
      /\ b[mid].size = hi - mid /\ b[mid].cin = FALSE /\ b[mid].pin = TRUE /\ b[mid] \in HeadType
      /\ hi \in DOMAIN b /\ b[hi] = mem[hi] /\ b[lo] = a[lo]
  <2>1. DOMAIN b = {q \in DOMAIN a : q < mid \/ q >= hi} \cup {mid}
        /\ \A p \in DOMAIN b : p # mid => b[p] = a[p]
    BY <1>0 DEF HeadIsSet
  <2>2. b[mid].size = hi - mid /\ b[mid].cin = FALSE /\ b[mid].pin = TRUE /\ b[mid] \in HeadType
    BY <1>0, <1>1 DEF HeadIsSet, HeadType, Chunk
  <2>3. hi \in DOMAIN b /\ b[hi] = mem[hi] /\ b[lo] = a[lo]
    BY <1>0, <1>1, <2>1
  <2> QED BY <2>1, <2>2, <2>3
<1>3. Renewed(mem, b, ft, lo, hi, {lo, mid})
  <2>1. DOMAIN b = (DOMAIN mem \ Inner(mem, lo, hi)) \cup {lo, mid}
    BY <1>0, <1>1, <1>2 DEF Inner
  <2>2. ASSUME NEW p \in DOMAIN mem, p < lo \/ hi < p PROVE b[p] = mem[p]
    <3>1. p \in Nat /\ p # lo /\ p # hi /\ p # mid /\ (p < lo \/ p >= mid) /\ (p < mid \/ p >= hi)
      BY <1>0, <2>2
    <3>2. p \in DOMAIN a /\ p \in DOMAIN b
      BY <3>1, <1>1, <1>2
    <3> QED BY <3>1, <3>2, <1>1, <1>2
  <2> QED BY <2>1, <2>2 DEF Renewed
<1>4. Piece(b[lo], mid - lo, TRUE, mem[lo].pin, mem[lo].foot)
  BY <1>0, <1>1, <1>2 DEF Piece, HeadType
<1>5. Piece(b[mid], hi - mid, FALSE, TRUE, 0)
  BY <1>0, <1>1, <1>2 DEF Piece, HeadType
<1>6. b[hi] = mem[hi]
  BY <1>0, <1>1, <1>2
<1>7. mid \in Nat /\ lo + MIN_CHUNK_SIZE <= mid /\ mid < hi /\ (hi = ft \/ mid + MIN_CHUNK_SIZE <= hi)
  BY <1>0 DEF Parted, Wide, MIN_CHUNK_SIZE
<1> QED BY <1>0, <1>3, <1>4, <1>5, <1>6, <1>7 DEF AsTwo, Differ

\* The chunks I become one in use and a free one that belongs into a bin.
LEMMA DividedForBins ==
    ASSUME NEW m, NEW X, NEW S, NEW I, Ready(m, X, S, I), NEW n, NEW lo, NEW mid, NEW hi,
           TurnsDivided(m, n, lo, mid, hi, I),
           SameBins(m, n), n.dv = m.dv, n.dvsize = m.dvsize, n.top = m.top, m.dv \notin I, m.top \notin I,
           m.top # NULL => m.top \in DOMAIN m.mem
    PROVE  OffBins(n, X, mid)
<1>1. /\ DOMAIN n = Fields /\ Laid(m) /\ DvIs(m) /\ Kept(m, X, S) /\ S \subseteq I
      /\ Bare(m, S) \cap I = {}
      /\ Laid(n) /\ Turned(m, n, I, {mid}, {lo}) /\ (mid \in I \/ mid \notin DOMAIN m.mem)
  BY DEF Ready, TurnsDivided, SameBins
<1>2. DvIs(n)
  BY <1>1, DvStays
<1>3. Frees(n.mem, Foot(n)) = (Frees(m.mem, Foot(m)) \ I) \cup {mid}
  BY <1>1 DEF Turned
<1>4. mid # NULL
  BY <1>1, <1>3, LaidIs DEF Frees, NULL
<1>5. mid # m.top /\ mid # m.dv
  <2>1. m.dv # NULL => m.dv \in DOMAIN m.mem
    BY <1>1 DEF DvIs, Frees
  <2> QED BY <1>1, <1>4, <2>1
<1>6. mid \notin Frees(m.mem, Foot(m)) \ I
  BY <1>1 DEF Frees
<1>7. Bare(n, {mid}) = Bare(m, S)
  BY <1>1, <1>3, <1>6 DEF Bare
<1>8. mid \in Bare(n, {})
  BY <1>3, <1>5 DEF Bare
<1>9. Kept(n, X, {mid})
  BY <1>1, <1>7, KeptTurns
<1> QED BY <1>1, <1>2, <1>8, <1>9 DEF OffBins

\* The chunks I from p to hi begin with a chunk in use, which is cut down to nb in memory n.
Cut(m, X, S, I, p, mid, hi, nb, rsize, n) ==
    /\ Ready(m, X, S, I) /\ Area(m, p, hi, I) /\ Used(m.mem) \cap I = {p} /\ m.mem[p].pin
    /\ SameButMem(m, n) /\ HeadIsSet(m.mem, n.mem, p, nb, TRUE, TRUE)
    /\ nb \in Nat /\ nb >= MIN_CHUNK_SIZE /\ rsize \in Nat /\ rsize > 0 /\ mid = p + nb
    /\ hi = p + nb + rsize

CutFacts(m, p, mid, hi, nb, rsize, n) ==
    /\ DOMAIN m = Fields /\ DOMAIN n = Fields /\ Laid(m) /\ Spot(m.mem, Foot(m), p, hi)
    /\ p \in Nat \ {0} /\ hi \in Nat
    /\ mid \in Nat /\ mid - p = nb /\ hi - mid = rsize /\ Parted(p, mid, hi) /\ Spans(mid, rsize, hi)
    /\ HeadIsSet(m.mem, n.mem, p, mid - p, TRUE, TRUE)
    /\ rsize >= MIN_CHUNK_SIZE => Wide(mid, hi)
    /\ m.top # NULL => m.top \in DOMAIN m.mem

\* What is known then.
LEMMA CutFactsAre ==
    ASSUME NEW m, NEW X, NEW S, NEW I, NEW p, NEW mid, NEW hi, NEW nb, NEW rsize, NEW n,
           Cut(m, X, S, I, p, mid, hi, nb, rsize, n)
    PROVE  CutFacts(m, p, mid, hi, nb, rsize, n)
<1>1. DOMAIN m = Fields /\ DOMAIN n = Fields /\ Laid(m)
  BY DEF Cut, Ready, SameButMem
<1>2. Spot(m.mem, Foot(m), p, hi) /\ p \in Nat \ {0} /\ hi \in Nat /\ p < hi
  BY <1>1, AreaSpot DEF Cut
<1>3. /\ nb \in Nat /\ nb >= MIN_CHUNK_SIZE /\ rsize \in Nat /\ rsize > 0 /\ mid = p + nb
      /\ hi = p + nb + rsize
  BY DEF Cut
<1>4. /\ mid \in Nat /\ mid - p = nb /\ hi - mid = rsize /\ Parted(p, mid, hi) /\ Spans(mid, rsize, hi)
      /\ rsize >= MIN_CHUNK_SIZE => Wide(mid, hi)
  BY <1>2, <1>3 DEF Parted, Wide, Spans, MIN_CHUNK_SIZE
<1>5. HeadIsSet(m.mem, n.mem, p, mid - p, TRUE, TRUE)
  BY <1>4 DEF Cut
<1>6. m.top # NULL => m.top \in DOMAIN m.mem
  BY <1>1, TopIsFree DEF Frees
<1> QED BY <1>1, <1>2, <1>4, <1>5, <1>6 DEF CutFacts

\* The rest joins the bins.
LEMMA CutForBins ==
    ASSUME NEW m, NEW X, NEW S, NEW I, NEW p, NEW mid, NEW hi, NEW nb, NEW rsize, NEW n,
           Cut(m, X, S, I, p, mid, hi, nb, rsize, n),
           rsize >= MIN_CHUNK_SIZE, hi # Foot(m), m.mem[hi].cin, m.top \notin I, m.dv \notin I
    PROVE  LET r == insert_chunk(set_free_with_pinuse(n, mid, rsize, hi), mid, rsize) IN
           (\E Y : Whole(r, Y)) /\ Resizes(m, r, p, nb)
<1> DEFINE a == clear_pinuse(n, hi)
           r == set_size_and_pinuse_of_free_chunk(a, mid, rsize)
           c == insert_chunk(r, mid, rsize)
<1>1. CutFacts(m, p, mid, hi, nb, rsize, n)
  BY CutFactsAre
<1>2. /\ DOMAIN m = Fields /\ DOMAIN n = Fields /\ Laid(m) /\ Spot(m.mem, Foot(m), p, hi)
      /\ Parted(p, mid, hi) /\ Spans(mid, rsize, hi) /\ HeadIsSet(m.mem, n.mem, p, mid - p, TRUE, TRUE)
      /\ Wide(mid, hi)
      /\ m.top # NULL => m.top \in DOMAIN m.mem
      /\ mid - p = nb /\ hi - mid = rsize
  BY <1>1 DEF CutFacts
<1>3. SameButMem(n, a) /\ PinIsCleared(n.mem, a.mem, hi) /\ DOMAIN a = Fields
  <2>1. SameButMem(n, a) /\ PinIsCleared(n.mem, a.mem, hi)
    BY <1>2, PinCleared
  <2> QED BY <1>2, <2>1 DEF SameButMem
<1> SUFFICES (\E Y : Whole(c, Y)) /\ Resizes(m, c, p, nb)
  BY DEF set_free_with_pinuse
<1> HIDE DEF a
<1>4. SameButMem(a, r) /\ \E b : HeadIsSet(a.mem, b, mid, rsize, FALSE, TRUE)
      /\ FootIsSet(b, r.mem, mid + rsize, rsize)
  BY <1>3, FreeSet
<1> HIDE DEF r
<1>5. PICK b : HeadIsSet(a.mem, b, mid, hi - mid, FALSE, TRUE) /\ FootIsSet(b, r.mem, hi, hi - mid)
  BY <1>2, <1>4 DEF Spans
<1>6. m.mem[p].pin /\ Differ(hi, Foot(m))
  BY DEF Cut, Differ
<1>7. AsTwo(m.mem, r.mem, Foot(m), p, mid, hi, FALSE)
  BY <1>2, <1>3, <1>5, <1>6, CarvedIs
<1>8. SameButMem(m, r)
  <2>1. SameButMem(m, n)
    BY DEF Cut
  <2>2. SameButMem(m, a)
    BY <1>2, <1>3, <2>1, SameAgain
  <2> QED BY <1>2, <1>3, <1>4, <2>2, SameAgain
<1>9. Goes(m, r, hi, mid) /\ SameBins(m, r) /\ r.dv = m.dv /\ r.dvsize = m.dvsize /\ r.top = m.top
  BY <1>2, <1>6, <1>8, GoesOn DEF SameButMem
<1>10. Ready(m, X, S, I) /\ Area(m, p, hi, I) /\ Used(m.mem) \cap I = {p}
  BY DEF Cut
<1>11. TurnsDivided(m, r, p, mid, hi, I)
  BY <1>2, <1>7, <1>9, <1>10, TwoDivided
<1>12. OffBins(r, X, mid)
  BY <1>2, <1>9, <1>10, <1>11, DividedForBins
<1>13. rsize = r.mem[mid].size
  BY <1>2, <1>11 DEF TurnsDivided
<1>14. Whole(c, With(X, mid, rsize)) /\ SameButBins(r, c)
  BY <1>12, <1>13, JoinsBins
<1> HIDE DEF c
<1>15. Resizes(m, r, p, nb)
  <2>1. nb \in Nat
    BY DEF Cut
  <2> QED BY <1>2, <1>10, <1>11, <2>1, DividedResizes
<1>16. Resizes(m, c, p, nb)
  BY <1>14, <1>15 DEF SameButBins, Resizes
<1> QED BY <1>14, <1>16

\* The rest becomes top.
LEMMA CutForTop ==
    ASSUME NEW m, NEW X, NEW I, NEW p, NEW mid, NEW hi, NEW nb, NEW rsize, NEW n,
           Cut(m, X, {}, I, p, mid, hi, nb, rsize, n),
           hi = Foot(m), m.top \in I, m.dv \notin I
    PROVE  LET r == set_top(n, mid, rsize) IN Whole(r, X) /\ Resizes(m, r, p, nb)
<1> DEFINE r == set_top(n, mid, rsize)
<1>1. CutFacts(m, p, mid, hi, nb, rsize, n)
  BY CutFactsAre
<1>2. /\ DOMAIN m = Fields /\ DOMAIN n = Fields /\ Laid(m) /\ Spot(m.mem, Foot(m), p, hi)
      /\ Parted(p, mid, hi) /\ Spans(mid, rsize, hi) /\ HeadIsSet(m.mem, n.mem, p, mid - p, TRUE, TRUE)
      /\ mid - p = nb /\ hi - mid = rsize /\ mid \in Nat /\ hi \in Nat /\ hi = mid + rsize
  BY <1>1 DEF CutFacts, Spans
<1>3. /\ Ready(m, X, {}, I) /\ Area(m, p, hi, I) /\ Used(m.mem) \cap I = {p} /\ m.mem[p].pin
      /\ SameButMem(m, n) /\ nb \in Nat /\ rsize \in Nat
  BY DEF Cut
<1>4. SameButMem(WithTop(n, mid, rsize), r) /\ HeadIsSet(n.mem, r.mem, mid, rsize, FALSE, TRUE)
  BY <1>2, TopSet
<1> HIDE DEF r
<1>5. HeadIsSet(n.mem, r.mem, mid, hi - mid, FALSE, TRUE)
  BY <1>2, <1>4
<1>6. AsTwo(m.mem, r.mem, Foot(m), p, mid, hi, FALSE)
  BY <1>2, <1>3, <1>5, CarvedToTopIs
<1>7. /\ r.top = mid /\ r.topsize = rsize /\ r.seg = m.seg /\ r.least_addr = m.least_addr
      /\ r.dv = m.dv /\ r.dvsize = m.dvsize /\ SameBins(m, r)
  BY <1>2, <1>3, <1>4, WithTopIs DEF SameButMem, SameBins
<1>8. Goes(m, r, hi, mid)
  BY <1>2, <1>3, <1>7 DEF Goes, Foot
<1>9. TurnsDivided(m, r, p, mid, hi, I)
  BY <1>2, <1>3, <1>6, <1>8, TwoDivided
<1>10. Whole(r, X)
  BY <1>3, <1>7, <1>9, DividedForTop
<1>11. Resizes(m, r, p, nb)
  BY <1>2, <1>3, <1>9, DividedResizes
<1> QED BY <1>10, <1>11 DEF r

\* The rest becomes dv.
LEMMA CutForDv ==
    ASSUME NEW m, NEW X, NEW I, NEW p, NEW mid, NEW hi, NEW nb, NEW rsize, NEW n,
           Cut(m, X, {}, I, p, mid, hi, nb, rsize, n),
           rsize >= MIN_CHUNK_SIZE, hi # Foot(m), m.mem[hi].cin, ~m.mem[hi].pin, m.top \notin I, m.dv \in I
    PROVE  LET r == set_size_and_pinuse_of_free_chunk(WithDv(n, mid, rsize), mid, rsize) IN Whole(r, X) /\ Resizes(m, r, p, nb)
<1> DEFINE d == WithDv(n, mid, rsize)
           r == set_size_and_pinuse_of_free_chunk(d, mid, rsize)
<1>1. CutFacts(m, p, mid, hi, nb, rsize, n)
  BY CutFactsAre
<1>2. /\ DOMAIN m = Fields /\ DOMAIN n = Fields /\ Laid(m) /\ Spot(m.mem, Foot(m), p, hi)
      /\ Parted(p, mid, hi) /\ Spans(mid, rsize, hi) /\ HeadIsSet(m.mem, n.mem, p, mid - p, TRUE, TRUE)
      /\ Wide(mid, hi)
      /\ mid - p = nb /\ hi - mid = rsize /\ mid \in Nat /\ hi \in Nat
      /\ m.top # NULL => m.top \in DOMAIN m.mem
  BY <1>1 DEF CutFacts
<1>3. /\ Ready(m, X, {}, I) /\ Area(m, p, hi, I) /\ Used(m.mem) \cap I = {p} /\ m.mem[p].pin
      /\ SameButMem(m, n) /\ nb \in Nat /\ rsize \in Nat /\ Differ(hi, Foot(m))
  BY DEF Cut, Differ
<1>4. /\ DOMAIN d = Fields /\ d.mem = n.mem /\ d.dv = mid /\ d.dvsize = rsize /\ d.top = m.top
      /\ d.topsize = m.topsize
      /\ d.seg = m.seg /\ d.least_addr = m.least_addr /\ SameBins(m, d)
  BY <1>2, <1>3, WithDvIs DEF SameButMem, SameBins
<1> HIDE DEF d
<1>5. SameButMem(d, r) /\ \E b : HeadIsSet(d.mem, b, mid, rsize, FALSE, TRUE)
      /\ FootIsSet(b, r.mem, mid + rsize, rsize)
  BY <1>4, FreeSet
<1> HIDE DEF r
<1>6. PICK b : HeadIsSet(n.mem, b, mid, hi - mid, FALSE, TRUE) /\ FootIsSet(b, r.mem, hi, hi - mid)
  BY <1>2, <1>4, <1>5 DEF Spans
<1>7. AsTwo(m.mem, r.mem, Foot(m), p, mid, hi, FALSE)
  BY <1>2, <1>3, <1>6, DividedIs
<1>8. /\ r.top = m.top /\ r.topsize = m.topsize /\ r.seg = m.seg /\ r.least_addr = m.least_addr
      /\ r.dv = mid /\ r.dvsize = rsize /\ SameBins(m, r)
  BY <1>4, <1>5 DEF SameButMem, SameBins
<1>9. Goes(m, r, hi, mid)
  BY <1>2, <1>3, <1>8, LaidIs DEF Goes, Foot, Differ
<1>10. TurnsDivided(m, r, p, mid, hi, I)
  BY <1>2, <1>3, <1>7, <1>9, TwoDivided
<1>11. Whole(r, X)
  <2>1. r.dvsize = hi - mid
    BY <1>2, <1>8
  <2> QED BY <1>2, <1>3, <1>8, <1>10, <2>1, DividedForDv
<1>12. Resizes(m, r, p, nb)
  BY <1>2, <1>3, <1>10, DividedResizes
<1> QED BY <1>11, <1>12 DEF r, d

\* The result r of a request for nb: one more chunk in use.
Served(m, r, nb) == (\E Y : Whole(r.m, Y)) /\ Gives(m, r.m, r.p, nb)

\* A result for a state with the same chunks in use.
LEMMA GivesThen ==
    ASSUME NEW m, NEW v, NEW b, NEW s, Gives(m, v, b, s), NEW r, NEW nb, Resizes(v, r, b, nb)
    PROVE  Gives(m, r, b, nb)
BY DEF Gives, Resizes

\* The memory when a region has been put in front of segment i.
WithFront(m, i, b, s) ==
    WithSegs(WithLow(m, b), [m.seg EXCEPT ![i] = [base |-> b, size |-> s + m.seg[i].size]])

\* Memory v is m with a chunk in use in front of q; n is what prepend_alloc starts from, where the chunk has size nb.
Opened(m, X, b, s, q, nb, v, n) ==
    /\ Whole(v, X) /\ DOMAIN v = Fields /\ Gives(m, v, b, s) /\ v.mem[b].pin /\ SameButMem(v, n)
    /\ HeadIsSet(v.mem, n.mem, b, nb, TRUE, TRUE)
    /\ b \in Nat /\ s \in Nat /\ q \in Nat /\ q = b + s /\ q \in DOMAIN v.mem /\ q # Foot(v)
    /\ v.mem[q].pin
    /\ n.mem[q] = v.mem[q] /\ Area(v, b, q, {b}) /\ Used(v.mem) \cap {b} = {b} /\ v.mem[b].cin
    /\ nb \in Nat /\ nb >= MIN_CHUNK_SIZE /\ s - nb >= MIN_CHUNK_SIZE

\* The heads of a heap with a chunk in front of a segment, cut down to nb.
LEMMA FrontHeads ==
    ASSUME NEW mem, NEW v, NEW b \in Nat, NEW s \in Nat, NEW nb \in Nat, nb <= s, s > 0,
           \A p \in DOMAIN mem : p \in Nat /\ (p < b \/ b + s <= p),
           v = With(mem, b, Chunk(s, TRUE, TRUE, 0)), NEW n, HeadIsSet(mem, n, b, nb, TRUE, TRUE)
    PROVE  HeadIsSet(v, n, b, nb, TRUE, TRUE)
<1>1. b \notin DOMAIN mem
  BY SMT
<1>2. DOMAIN v = DOMAIN mem \cup {b} /\ \A p \in DOMAIN mem : v[p] = mem[p]
  BY <1>1 DEF With
<1>3. DOMAIN n = {p \in DOMAIN v : p < b \/ p >= b + nb} \cup {b}
  BY <1>2 DEF HeadIsSet
<1>4. \A a \in DOMAIN n : a # b => n[a] = v[a]
  BY <1>2 DEF HeadIsSet
<1>5. n[b] = Chunk(nb, TRUE, TRUE, IF b \in DOMAIN v THEN v[b].foot ELSE 0)
  BY DEF HeadIsSet, Chunk
<1> QED BY <1>3, <1>4, <1>5 DEF HeadIsSet

\* prepend_alloc opens the region as one chunk in use, cut down to nb.
LEMMA PrependOpens ==
    ASSUME NEW m, NEW X, Whole(m, X), NEW i, NEW b \in Nat, NEW s \in Nat, InFront(m, i, b, s),
           NEW q \in Nat, q = b + s,
           NEW nb \in Nat, nb >= MIN_CHUNK_SIZE, s - nb >= MIN_CHUNK_SIZE,
           NEW n, n = set_size_and_pinuse_of_inuse_chunk(WithFront(m, i, b, s), b, nb)
    PROVE  \E v : Opened(m, X, b, s, q, nb, v, n)
<1> DEFINE w == WithFront(m, i, b, s)
           v == [w EXCEPT !.mem = With(m.mem, b, Chunk(s, TRUE, TRUE, 0))]
<1>1. DOMAIN m = Fields /\ Laid(m)
  BY IsWhole
<1>2. /\ DOMAIN w = Fields /\ w.mem = m.mem /\ w.top = m.top /\ w.topsize = m.topsize
      /\ w.least_addr = Lowest(m.least_addr, b)
      /\ w.seg = [m.seg EXCEPT ![i] = [base |-> b, size |-> s + m.seg[i].size]]
      /\ SameRest(m, w)
  BY <1>1, WithLowIs DEF WithFront, SameRest
<1> HIDE DEF w
<1>3. /\ DOMAIN v = Fields /\ v.mem = With(m.mem, b, Chunk(s, TRUE, TRUE, 0)) /\ v.top = m.top
      /\ v.topsize = m.topsize
      /\ v.least_addr = Lowest(m.least_addr, b)
      /\ v.seg = [m.seg EXCEPT ![i] = [base |-> b, size |-> s + m.seg[i].size]]
      /\ SameRest(m, v) /\ SameButMem(w, v)
  BY <1>2 DEF Fields, SameRest, SameButMem
<1> HIDE DEF v
<1>4. /\ b \notin DOMAIN m.mem /\ q \in DOMAIN m.mem /\ q # Foot(m) /\ m.mem[q].pin
      /\ \A p \in DOMAIN m.mem : (p < b /\ p + m.mem[p].size <= b) \/ q <= p
  BY <1>1, FrontIsFree
<1>5. /\ DOMAIN v.mem = DOMAIN m.mem \cup {b} /\ \A p \in DOMAIN m.mem : v.mem[p] = m.mem[p]
      /\ v.mem[b] = Chunk(s, TRUE, TRUE, 0)
  <2>1. v.mem = With(m.mem, b, Chunk(s, TRUE, TRUE, 0)) /\ b \notin DOMAIN m.mem
    BY <1>3, <1>4
  <2> QED BY <2>1 DEF With
<1>6. Fronted(m, v, i, b, s)
  BY <1>3, <1>5 DEF Fronted
<1>7. Whole(v, X) /\ Gives(m, v, b, s) /\ v.mem[b].pin
  BY <1>6, FrontWhole
<1>8. SameButMem(w, n) /\ HeadIsSet(m.mem, n.mem, b, nb, TRUE, TRUE)
  BY <1>2, InuseHeadSet DEF w
<1>9. SameButMem(v, n)
  BY <1>3, <1>8 DEF SameButMem
<1>10. HeadIsSet(v.mem, n.mem, b, nb, TRUE, TRUE)
  <2>1. \A p \in DOMAIN m.mem : p \in Nat /\ (p < b \/ b + s <= p)
    BY <1>1, <1>4, LaidIs
  <2>2. nb <= s /\ s > 0
    BY DEF MIN_CHUNK_SIZE
  <2> QED BY <1>3, <1>8, <2>1, <2>2, FrontHeads
<1>11. n.mem[q] = v.mem[q]
  <2>1. q \in DOMAIN v.mem /\ q >= b + nb /\ q # b
    BY <1>4, <1>5 DEF MIN_CHUNK_SIZE
  <2> QED BY <1>10, <2>1 DEF HeadIsSet
<1>12. b \in Used(v.mem) /\ v.mem[b].size = s /\ v.mem[b].cin
  BY <1>5, <1>7 DEF Gives, Chunk
<1>13. Area(v, b, q, {b})
  <2>1. Laid(v)
    BY <1>7, IsWhole
  <2>2. b \in DOMAIN v.mem \ {Foot(v)} /\ b \notin Fenced(v.mem) /\ b \notin Records(v.mem)
    BY <1>12, <2>1, UsedIs
  <2> QED BY <1>12, <2>1, <2>2, ChunkArea
<1>14. q \in DOMAIN v.mem /\ q # Foot(v) /\ v.mem[q].pin
  <2>1. Foot(v) = Foot(m)
    BY <1>3 DEF Foot
  <2>2. v.mem[q] = m.mem[q] /\ q \in DOMAIN v.mem
    BY <1>4, <1>5
  <2> QED BY <1>4, <2>1, <2>2
<1>15. Opened(m, X, b, s, q, nb, v, n)
  BY <1>3, <1>7, <1>9, <1>10, <1>11, <1>12, <1>13, <1>14 DEF Opened
<1> QED BY <1>15

\* What the cases of prepend_alloc share.
LEMMA OpenedIs ==
    ASSUME NEW m, NEW X, NEW b, NEW s, NEW q, NEW nb, NEW v, NEW n, Opened(m, X, b, s, q, nb, v, n)
    PROVE  /\ DOMAIN v = Fields /\ Laid(v) /\ DvIs(v) /\ Kept(v, X, {})
           /\ b \notin Frees(v.mem, Foot(v))
           /\ b # v.top /\ b # v.dv /\ b # q /\ Ready(v, X, {}, {b})
           /\ v.top # NULL => v.top \in Frees(v.mem, Foot(v))
           /\ v.dv # NULL => v.dv \in Frees(v.mem, Foot(v)) /\ v.dv # v.top
           /\ Area(v, b, q, {b}) /\ q \in DOMAIN v.mem \ {Foot(v)} /\ q # NULL
           /\ b \in Nat /\ s \in Nat /\ q \in Nat /\ q = b + s /\ nb \in Nat /\ nb >= MIN_CHUNK_SIZE
           /\ s - nb >= MIN_CHUNK_SIZE
<1>1. /\ Whole(v, X) /\ v.mem[b].cin /\ q \in DOMAIN v.mem \ {Foot(v)} /\ Area(v, b, q, {b})
      /\ b \in Used(v.mem)
      /\ b \in Nat /\ s \in Nat /\ q \in Nat /\ q = b + s /\ nb \in Nat /\ nb >= MIN_CHUNK_SIZE
      /\ s - nb >= MIN_CHUNK_SIZE
  BY DEF Opened
<1>2. /\ DOMAIN v = Fields /\ Laid(v) /\ DvIs(v) /\ Kept(v, X, {})
      /\ v.top # NULL => v.top \in Frees(v.mem, Foot(v))
      /\ v.dv # NULL => v.dv \in Frees(v.mem, Foot(v)) /\ v.dv # v.top
      /\ NULL \notin DOMAIN v.mem
  BY <1>1, IsWhole
<1>3. b \notin Frees(v.mem, Foot(v)) /\ b # NULL /\ q # NULL
  BY <1>1, <1>2 DEF Frees, Used
<1>4. b # v.top /\ b # v.dv
  BY <1>2, <1>3
<1>5. b # q
  BY <1>1 DEF MIN_CHUNK_SIZE
<1>6. Bare(v, {}) \cap {b} = {}
  BY <1>3 DEF Bare
<1>7. Ready(v, X, {}, {b})
  BY <1>2, <1>6 DEF Ready
<1> QED BY <1>1, <1>2, <1>3, <1>4, <1>5, <1>7

\* Behind the front are the chunks J up to hi.
LEMMA OpenedCut ==
    ASSUME NEW m, NEW X, NEW b, NEW s, NEW q, NEW nb, NEW v, NEW n, Opened(m, X, b, s, q, nb, v, n),
           NEW Y, NEW S, NEW J, NEW w, Ready(w, Y, S, {b} \cup J), w.mem = v.mem, NEW t \in Nat, NEW hi, hi = q + t,
           Area(w, b, hi, {b} \cup J), J \cap Used(v.mem) = {}, NEW u, SameButMem(w, u), u.mem = n.mem,
           NEW mid, mid = b + nb, NEW rsize, rsize = s - nb + t
    PROVE  /\ Cut(w, Y, S, {b} \cup J, b, mid, hi, nb, rsize, u) /\ rsize \in Nat
           /\ rsize >= MIN_CHUNK_SIZE
<1>1. /\ v.mem[b].pin /\ HeadIsSet(v.mem, n.mem, b, nb, TRUE, TRUE) /\ Used(v.mem) \cap {b} = {b}
      /\ b \in Nat /\ s \in Nat /\ q \in Nat /\ q = b + s /\ nb \in Nat /\ nb >= MIN_CHUNK_SIZE
      /\ s - nb >= MIN_CHUNK_SIZE
  BY DEF Opened
<1>2. rsize \in Nat /\ rsize > 0 /\ hi = b + nb + rsize /\ rsize >= MIN_CHUNK_SIZE
  BY <1>1 DEF MIN_CHUNK_SIZE
<1>3. Used(w.mem) \cap ({b} \cup J) = {b}
  BY <1>1
<1> QED BY <1>1, <1>2, <1>3 DEF Cut

\* Top is behind it.
LEMMA FrontOfTop ==
    ASSUME NEW m, NEW X, NEW b, NEW s, NEW q, NEW nb, NEW v, NEW n, Opened(m, X, b, s, q, nb, v, n),
           q = v.top,
           NEW mid, mid = b + nb, NEW t \in Nat, t = v.topsize, NEW rsize, rsize = s - nb + t
    PROVE  Served(m, Result(set_top(n, mid, rsize), b), nb)
<1> DEFINE hi == q + t
           r == set_top(n, mid, rsize)
<1>1. /\ Laid(v) /\ Ready(v, X, {}, {b}) /\ q # NULL /\ q \in Nat /\ b # q /\ b # v.dv
      /\ Area(v, b, q, {b})
      /\ v.dv # NULL => v.dv # v.top
  BY OpenedIs
<1>2. hi = Foot(v) /\ q \in Frees(v.mem, Foot(v)) /\ t = v.mem[q].size /\ hi = q + t
  BY <1>1, TopIsFree DEF Foot
<1> HIDE DEF hi
<1>3. Lone(v, q, t, hi)
  BY <1>1, <1>2, FreeLone
<1>4. Area(v, q, hi, {q}) /\ {q} \cap Used(v.mem) = {}
  BY <1>3 DEF Lone
<1>5. Area(v, b, hi, {b} \cup {q})
  BY <1>1, <1>4, AreaJoins
<1>6. Ready(v, X, {}, {b} \cup {q})
  <2>1. Bare(v, {}) \cap ({b} \cup {q}) = {}
    BY <1>1 DEF Bare, Ready
  <2> QED BY <1>1, <2>1 DEF Ready
<1>7. Cut(v, X, {}, {b} \cup {q}, b, mid, hi, nb, rsize, n)
  <2>1. SameButMem(v, n)
    BY DEF Opened
  <2> QED BY <1>2, <1>4, <1>5, <1>6, <2>1, OpenedCut
<1>8. v.dv \notin {b} \cup {q}
  BY <1>1
<1>9. Whole(r, X) /\ Resizes(v, r, b, nb)
  BY <1>2, <1>7, <1>8, CutForTop
<1> HIDE DEF r
<1>10. Gives(m, r, b, nb)
  <2>1. Gives(m, v, b, s)
    BY DEF Opened
  <2> QED BY <1>9, <2>1, GivesThen
<1> QED BY <1>9, <1>10 DEF Served, Result, r

\* dv is behind it.
LEMMA FrontOfDv ==
    ASSUME NEW m, NEW X, NEW b, NEW s, NEW q, NEW nb, NEW v, NEW n, Opened(m, X, b, s, q, nb, v, n),
           q = v.dv,
           NEW mid, mid = b + nb, NEW t \in Nat, t = v.dvsize, NEW rsize, rsize = s - nb + t
    PROVE  Served(m, Result(set_size_and_pinuse_of_free_chunk(WithDv(n, mid, rsize), mid, rsize), b), nb)
<1> DEFINE hi == q + t
           r == set_size_and_pinuse_of_free_chunk(WithDv(n, mid, rsize), mid, rsize)
<1>1. /\ Laid(v) /\ DvIs(v) /\ Ready(v, X, {}, {b}) /\ q # NULL /\ q \in Nat /\ b # q /\ b # v.dv
      /\ Area(v, b, q, {b}) /\ b # v.top
      /\ v.dv # NULL => v.dv # v.top
  <2>1. /\ DOMAIN v = Fields /\ Laid(v) /\ DvIs(v) /\ Kept(v, X, {})
        /\ b \notin Frees(v.mem, Foot(v))
        /\ b # v.top /\ b # v.dv /\ b # q /\ Ready(v, X, {}, {b})
        /\ v.top # NULL => v.top \in Frees(v.mem, Foot(v))
        /\ v.dv # NULL => v.dv \in Frees(v.mem, Foot(v)) /\ v.dv # v.top
        /\ Area(v, b, q, {b}) /\ q \in DOMAIN v.mem \ {Foot(v)} /\ q # NULL
        /\ q \in Nat
    BY OpenedIs
  <2> QED BY <2>1
<1>2. q \in Frees(v.mem, Foot(v)) /\ t = v.mem[q].size /\ hi = q + t /\ q # v.top
  BY <1>1 DEF DvIs
<1> HIDE DEF hi
<1>3. Lone(v, q, t, hi)
  BY <1>1, <1>2, FreeLone
<1>4. /\ Area(v, q, hi, {q}) /\ {q} \cap Used(v.mem) = {} /\ hi # Foot(v) /\ v.mem[hi].cin
      /\ ~v.mem[hi].pin
  BY <1>2, <1>3 DEF Lone, Differ
<1>5. Area(v, b, hi, {b} \cup {q})
  BY <1>1, <1>4, AreaJoins
<1>6. Ready(v, X, {}, {b} \cup {q})
  <2>1. Bare(v, {}) \cap ({b} \cup {q}) = {}
    BY <1>1 DEF Bare, Ready
  <2> QED BY <1>1, <2>1 DEF Ready
<1>7. Cut(v, X, {}, {b} \cup {q}, b, mid, hi, nb, rsize, n) /\ rsize >= MIN_CHUNK_SIZE
  <2>1. SameButMem(v, n)
    BY DEF Opened
  <2> QED BY <1>2, <1>4, <1>5, <1>6, <2>1, OpenedCut
<1>8. v.top \notin {b} \cup {q} /\ v.dv \in {b} \cup {q}
  BY <1>1, <1>2
<1>9. Whole(r, X) /\ Resizes(v, r, b, nb)
  BY <1>4, <1>7, <1>8, CutForDv
<1> HIDE DEF r
<1>10. Gives(m, r, b, nb)
  <2>1. Gives(m, v, b, s)
    BY DEF Opened
  <2> QED BY <1>9, <2>1, GivesThen
<1> QED BY <1>9, <1>10 DEF Served, Result, r

\* A chunk in use is behind it.
LEMMA FrontOfUsed ==
    ASSUME NEW m, NEW X, NEW b, NEW s, NEW q, NEW nb, NEW v, NEW n, Opened(m, X, b, s, q, nb, v, n),
           v.mem[q].cin,
           NEW mid, mid = b + nb, NEW rsize, rsize = s - nb
    PROVE  Served(m, Result(insert_chunk(set_free_with_pinuse(n, mid, rsize, q), mid, rsize), b), nb)
<1> SUFFICES ASSUME NEW J, J = {}, NEW z \in Nat, z = 0
             PROVE  Served(m, Result(insert_chunk(set_free_with_pinuse(n, mid, rsize, q), mid, rsize), b), nb)
  OBVIOUS
<1> DEFINE r == insert_chunk(set_free_with_pinuse(n, mid, rsize, q), mid, rsize)
<1>1. /\ Ready(v, X, {}, {b}) /\ q \in Nat /\ b # v.dv /\ Area(v, b, q, {b}) /\ b # v.top /\ q # Foot(v)
      /\ s \in Nat /\ nb \in Nat
  BY OpenedIs
<1>2. /\ Ready(v, X, {}, {b} \cup J) /\ Area(v, b, q, {b} \cup J) /\ q = q + z /\ rsize = s - nb + z
      /\ J \cap Used(v.mem) = {}
  <2>1. {b} \cup J = {b}
    OBVIOUS
  <2> QED BY <1>1, <2>1
<1>3. Cut(v, X, {}, {b} \cup J, b, mid, q, nb, rsize, n) /\ rsize >= MIN_CHUNK_SIZE
  <2>1. SameButMem(v, n)
    BY DEF Opened
  <2> QED BY <1>1, <1>2, <2>1, OpenedCut
<1>4. v.top \notin {b} \cup J /\ v.dv \notin {b} \cup J
  BY <1>1
<1>5. (\E Y : Whole(r, Y)) /\ Resizes(v, r, b, nb)
  BY <1>1, <1>3, <1>4, CutForBins
<1> HIDE DEF r
<1>6. Gives(m, r, b, nb)
  <2>1. Gives(m, v, b, s)
    BY DEF Opened
  <2> QED BY <1>5, <2>1, GivesThen
<1> QED BY <1>5, <1>6 DEF Served, Result, r

\* Two memories that differ in the size of the chunk b in use.
OtherSize(mem, mem2, b) ==
    /\ DOMAIN mem2 = DOMAIN mem /\ \A a \in DOMAIN mem : a # b => mem2[a] = mem[a]
    /\ mem[b].cin /\ mem2[b].cin /\ mem[b].size # 0 /\ mem2[b].size # 0

LEMMA OtherSizeBack ==
    ASSUME NEW mem, NEW mem2, NEW b, OtherSize(mem, mem2, b)
    PROVE  OtherSize(mem2, mem, b)
BY DEF OtherSize

\* The bins do not notice.
LEMMA KeptDespite ==
    ASSUME NEW m, NEW X, NEW S, Kept(m, X, S), NEW n, NEW b, OtherSize(m.mem, n.mem, b), SameBins(m, n),
           n.top = m.top, n.topsize = m.topsize, n.dv = m.dv
    PROVE  Kept(n, X, S)
<1>0. Foot(n) = Foot(m)
  BY DEF Foot
<1>1. Frees(n.mem, Foot(n)) = Frees(m.mem, Foot(m)) /\ b \notin Frees(m.mem, Foot(m))
  BY <1>0 DEF Frees, OtherSize
<1>2. Fenced(n.mem) = Fenced(m.mem)
  BY DEF Fenced, OtherSize
<1>3. Records(n.mem) = Records(m.mem)
  BY <1>2 DEF Records, OtherSize
<1>4. Used(n.mem) = Used(m.mem)
  BY <1>2, <1>3 DEF Used, OtherSize
<1>5. Bare(n, S) = Bare(m, S)
  BY <1>1 DEF Bare
<1>6. DOMAIN X = Bare(m, S) /\ Shown(m, X) /\ Stored(m, X)
  BY DEF Kept, Bare
<1>7. Shown(n, X)
  <2>1. \A p \in DOMAIN X : p \in DOMAIN m.mem /\ p # b
    BY <1>1, <1>6 DEF Bare, Frees
  <2> QED BY <1>6, <2>1 DEF Shown, chunksize, OtherSize
<1>8. Stored(n, X)
  BY <1>6, StoredStays
<1>9. DOMAIN X = Bare(n, S)
  BY <1>5, <1>6
<1> QED BY <1>7, <1>8, <1>9 DEF Kept, Bare

\* The rest of the front is what prepend_alloc joins with what is behind it.
LEMMA CutHead ==
    ASSUME NEW m, NEW X, NEW b, NEW s, NEW q, NEW nb, NEW v, NEW n, Opened(m, X, b, s, q, nb, v, n)
    PROVE  OtherSize(v.mem, n.mem, b)
<1>1. /\ Area(v, b, q, {b}) /\ Laid(v) /\ b \in Nat /\ q \in Nat /\ q = b + s /\ s \in Nat /\ nb \in Nat
      /\ nb >= MIN_CHUNK_SIZE /\ s - nb >= MIN_CHUNK_SIZE
  BY OpenedIs
<1>2. Inner(v.mem, b, q) = {b} /\ DOMAIN v.mem \subseteq Nat
  BY <1>1, LaidIs DEF Area
<1>3. \A a \in DOMAIN v.mem : a = b \/ a < b \/ a >= b + nb
  BY <1>1, <1>2 DEF Inner, MIN_CHUNK_SIZE
<1>4. HeadIsSet(v.mem, n.mem, b, nb, TRUE, TRUE) /\ b \in Used(v.mem)
  BY DEF Opened
<1>5. b \in DOMAIN v.mem /\ v.mem[b].cin /\ v.mem[b].size # 0
  BY <1>4 DEF Used, Fenced
<1>6. DOMAIN n.mem = DOMAIN v.mem
  BY <1>3, <1>4, <1>5 DEF HeadIsSet
<1>7. \A a \in DOMAIN v.mem : a # b => n.mem[a] = v.mem[a]
  BY <1>4, <1>6 DEF HeadIsSet
<1>8. n.mem[b].cin /\ n.mem[b].size = nb
  BY <1>4 DEF HeadIsSet, Chunk
<1>9. nb # 0
  BY <1>1 DEF MIN_CHUNK_SIZE
<1> QED BY <1>5, <1>6, <1>7, <1>8, <1>9 DEF OtherSize

\* A chunk of the bins is behind the front.
LEMMA FrontOfFree ==
    ASSUME NEW m, NEW X, NEW b, NEW s, NEW q, NEW nb, NEW v, NEW n, Opened(m, X, b, s, q, nb, v, n),
           ~v.mem[q].cin,
           q # v.top, q # v.dv, NEW t \in Nat, t = v.mem[q].size, NEW hi, hi = q + t,
           NEW mid, mid = b + nb, NEW rsize, rsize = s - nb + t
    PROVE  Served(m, Result(insert_chunk(set_free_with_pinuse(unlink_chunk(n, q, t), mid, rsize, hi), mid, rsize), b), nb)
<1> DEFINE u == unlink_chunk(n, q, t)
           w == [u EXCEPT !.mem = v.mem]
           r == insert_chunk(set_free_with_pinuse(u, mid, rsize, hi), mid, rsize)
           Y == WithoutChunk(X, q)
<1>1. /\ Laid(v) /\ DvIs(v) /\ Kept(v, X, {}) /\ Ready(v, X, {}, {b}) /\ q \in DOMAIN v.mem \ {Foot(v)}
      /\ q \in Nat /\ b # q /\ Area(v, b, q, {b})
      /\ b # v.top /\ b # v.dv /\ b \notin Frees(v.mem, Foot(v)) /\ DOMAIN v = Fields
  BY OpenedIs
<1>2. q \in Frees(v.mem, Foot(v)) /\ q \in Bare(v, {})
  BY <1>1 DEF Frees, Bare
<1>3. Lone(v, q, t, hi)
  BY <1>1, <1>2, FreeLone
<1>4. Area(v, q, hi, {q}) /\ {q} \cap Used(v.mem) = {} /\ hi # Foot(v) /\ v.mem[hi].cin
  BY <1>2, <1>3 DEF Lone, Differ
<1>5. Area(v, b, hi, {b} \cup {q})
  BY <1>1, <1>4, AreaJoins
<1>6. OtherSize(v.mem, n.mem, b) /\ SameButMem(v, n) /\ n.mem[q].size = t
  <2>1. OtherSize(v.mem, n.mem, b)
    BY CutHead
  <2> QED BY <2>1 DEF Opened
<1>7. Kept(n, X, {}) /\ Bare(n, {}) = Bare(v, {})
  <2>1. SameBins(v, n) /\ n.top = v.top /\ n.topsize = v.topsize /\ n.dv = v.dv
    BY <1>6 DEF SameButMem, SameBins
  <2>2. Kept(n, X, {})
    BY <1>1, <1>6, <2>1, KeptDespite
  <2> QED BY <1>1, <2>2 DEF Kept, Bare
<1>8. Kept(u, Y, {} \cup {q}) /\ SameButBins(n, u)
  BY <1>2, <1>6, <1>7, KeptLeaves
<1> HIDE DEF u
<1>9. /\ u.mem = n.mem /\ u.dv = v.dv /\ u.dvsize = v.dvsize /\ u.top = v.top /\ u.topsize = v.topsize
      /\ u.seg = v.seg /\ u.least_addr = v.least_addr /\ DOMAIN u = Fields
  BY <1>1, <1>6, <1>8 DEF SameButMem, SameButBins
<1>10. /\ SameButMem(w, u) /\ SameBins(u, w) /\ DOMAIN w = Fields /\ w.mem = v.mem /\ w.dv = v.dv
       /\ w.dvsize = v.dvsize /\ w.top = v.top /\ w.topsize = v.topsize
       /\ w.seg = v.seg /\ w.least_addr = v.least_addr
  BY <1>9 DEF SameButMem, SameBins, Fields
<1> HIDE DEF w, Y
<1>11. Kept(w, Y, {q})
  <2>1. OtherSize(u.mem, w.mem, b)
    BY <1>6, <1>9, <1>10, OtherSizeBack
  <2>2. Kept(w, Y, {} \cup {q})
    BY <1>8, <1>9, <1>10, <2>1, KeptDespite
  <2> QED BY <2>2
<1>12. Laid(w) /\ Foot(w) = Foot(v)
  BY <1>1, <1>10, LaidStays
<1>13. DvIs(w)
  BY <1>1, <1>10, <1>12 DEF DvIs
<1>14. Ready(w, Y, {q}, {b} \cup {q})
  <2>1. Bare(w, {q}) \cap ({b} \cup {q}) = {}
    BY <1>1, <1>10, <1>12 DEF Bare
  <2> QED BY <1>10, <1>11, <1>12, <1>13, <2>1 DEF Ready
<1>15. Area(w, b, hi, {b} \cup {q})
  BY <1>5, <1>10, <1>12, AreaStays
<1>16. Cut(w, Y, {q}, {b} \cup {q}, b, mid, hi, nb, rsize, u) /\ rsize >= MIN_CHUNK_SIZE
  <2> DEFINE J == {q}
             S == {q}
  <2>1. Ready(w, Y, S, {b} \cup J) /\ Area(w, b, hi, {b} \cup J) /\ J \cap Used(v.mem) = {}
    BY <1>4, <1>14, <1>15
  <2> HIDE DEF J, S
  <2>2. w.mem = v.mem /\ u.mem = n.mem /\ SameButMem(w, u)
    BY <1>9, <1>10
  <2>3. Cut(w, Y, S, {b} \cup J, b, mid, hi, nb, rsize, u) /\ rsize >= MIN_CHUNK_SIZE
    BY <2>1, <2>2, OpenedCut
  <2> QED BY <2>3 DEF J, S
<1>17. w.top \notin {b} \cup {q} /\ w.dv \notin {b} \cup {q} /\ hi # Foot(w) /\ w.mem[hi].cin
  BY <1>1, <1>4, <1>10, <1>12
<1>18. (\E Z : Whole(r, Z)) /\ Resizes(w, r, b, nb)
  BY <1>16, <1>17, CutForBins
<1> HIDE DEF r
<1>19. Resizes(v, r, b, nb)
  BY <1>10, <1>18 DEF Resizes
<1>20. Gives(m, r, b, nb)
  <2>1. Gives(m, v, b, s)
    BY DEF Opened
  <2> QED BY <1>19, <2>1, GivesThen
<1> QED BY <1>18, <1>20 DEF Served, Result, r, u

\* A region in front of a segment serves the request, and what is left of it joins what is behind it.
LEMMA PrependAlloc ==
    ASSUME NEW m, NEW X, Whole(m, X), NEW i, NEW b \in Nat, NEW s \in Nat, InFront(m, i, b, s),
           NEW nb \in Nat, nb >= MIN_CHUNK_SIZE, s - nb >= MIN_CHUNK_SIZE
    PROVE  Served(m, prepend_alloc(WithFront(m, i, b, s), b, b + s, nb), nb)
<1> DEFINE w == WithFront(m, i, b, s)
           q == b + s
           mid == b + nb
           n == set_size_and_pinuse_of_inuse_chunk(w, b, nb)
           size == q - mid
<1>1. PICK v : Opened(m, X, b, s, q, nb, v, n)
  <2>1. q \in Nat /\ q = b + s /\ n = set_size_and_pinuse_of_inuse_chunk(WithFront(m, i, b, s), b, nb)
    OBVIOUS
  <2> HIDE DEF q, n
  <2> QED BY <2>1, PrependOpens
<1>2. size = s - nb /\ size \in Nat /\ s - nb \in Nat /\ q \in Nat
  BY DEF MIN_CHUNK_SIZE
<1>3. prepend_alloc(w, b, q, nb) =
        LET nsize == IF is_inuse(n, q) THEN 0 ELSE chunksize(n, q)
            u == IF nsize = 0 THEN n ELSE unlink_chunk(n, q, nsize)
        IN  Result(CASE q = n.top -> set_top(n, mid, n.topsize + size)
                     [] q = n.dv -> set_size_and_pinuse_of_free_chunk(
                            [n EXCEPT !.dv = mid, !.dvsize = @ + size], mid, n.dvsize + size)
                     [] OTHER -> insert_chunk(set_free_with_pinuse(u, mid, size + nsize, q + nsize), mid, size + nsize),
                   b)
  BY DEF prepend_alloc
<1>4. mid = b + nb /\ q = b + s
  OBVIOUS
<1> HIDE DEF n, q, mid, size
<1> SUFFICES Served(m, prepend_alloc(w, b, q, nb), nb)
  BY DEF q
<1> HIDE DEF w
<1>5. /\ n.mem[q] = v.mem[q] /\ v.mem[q].pin /\ n.top = v.top /\ n.topsize = v.topsize /\ n.dv = v.dv
      /\ n.dvsize = v.dvsize
      /\ DOMAIN n = Fields
  BY <1>1 DEF Opened, SameButMem
<1>6. Laid(v) /\ DvIs(v) /\ q # NULL /\ q \in DOMAIN v.mem /\ (v.dv # NULL => v.dv # v.top)
  BY <1>1, OpenedIs
<1>7. CASE q = n.top
  <2>1. prepend_alloc(w, b, q, nb) = Result(set_top(n, mid, n.topsize + size), b)
    <3>1. q # n.dv
      BY <1>5, <1>6, <1>7
    <3> QED BY <1>3, <1>7, <3>1
  <2>2. n.topsize \in Nat /\ n.topsize = v.topsize /\ q = v.top
    BY <1>5, <1>6, <1>7, LaidIs
  <2>3. PICK t \in Nat : t = v.topsize
    BY <2>2
  <2>4. n.topsize + size = s - nb + t
    BY <1>2, <2>2, <2>3
  <2>5. Served(m, Result(set_top(n, mid, n.topsize + size), b), nb)
    BY <1>1, <1>4, <2>2, <2>3, <2>4, FrontOfTop
  <2> QED BY <2>1, <2>5
<1>8. CASE q = n.dv
  <2>1. prepend_alloc(w, b, q, nb) = Result(set_size_and_pinuse_of_free_chunk(
                            [n EXCEPT !.dv = mid, !.dvsize = @ + size], mid, n.dvsize + size), b)
    <3>1. q # n.top
      BY <1>5, <1>6, <1>8
    <3> QED BY <1>3, <1>8, <3>1
  <2>2. n.dvsize \in Nat /\ n.dvsize = v.dvsize /\ q = v.dv
    BY <1>5, <1>6, <1>8, DvIsEmpty
  <2>3. PICK t \in Nat : t = v.dvsize
    BY <2>2
  <2>4. n.dvsize + size = s - nb + t
    BY <1>2, <2>2, <2>3
  <2>5. [n EXCEPT !.dv = mid, !.dvsize = @ + size] = WithDv(n, mid, n.dvsize + size)
    BY <1>5 DEF WithDv, Fields
  <2>6. PICK rsize : rsize = n.dvsize + size
    OBVIOUS
  <2>7. Served(m, Result(set_size_and_pinuse_of_free_chunk(WithDv(n, mid, rsize), mid, rsize), b), nb)
    BY <1>1, <1>4, <2>2, <2>3, <2>4, <2>6, FrontOfDv
  <2> QED BY <2>1, <2>5, <2>6, <2>7
<1>9. CASE q # n.top /\ q # n.dv /\ v.mem[q].cin
  <2>1. is_inuse(n, q)
    BY <1>5, <1>9 DEF is_inuse
  <2>2. size + 0 = size /\ q + 0 = q
    BY <1>2
  <2>3. prepend_alloc(w, b, q, nb) = Result(insert_chunk(set_free_with_pinuse(n, mid, size + 0, q + 0), mid, size + 0), b)
    BY <1>3, <1>9, <2>1
  <2>4. Served(m, Result(insert_chunk(set_free_with_pinuse(n, mid, size, q), mid, size), b), nb)
    BY <1>1, <1>2, <1>4, <1>9, FrontOfUsed
  <2> QED BY <2>2, <2>3, <2>4
<1>10. CASE q # n.top /\ q # n.dv /\ ~v.mem[q].cin
  <2>1. ~is_inuse(n, q)
    BY <1>5, <1>10 DEF is_inuse
  <2>2. PICK t \in Nat : t = v.mem[q].size
    BY <1>6, LaidIs
  <2>3. t # 0
    <3>1. q \in Frees(v.mem, Foot(v))
      <4>1. q # Foot(v)
        BY <1>1 DEF Opened
      <4> QED BY <1>6, <1>10, <4>1 DEF Frees
    <3> QED BY <1>6, <2>2, <3>1, FreeSize
  <2>4. chunksize(n, q) = t
    BY <1>5, <2>2 DEF chunksize
  <2>5. prepend_alloc(w, b, q, nb) =
        Result(insert_chunk(set_free_with_pinuse(unlink_chunk(n, q, t), mid, size + t, q + t), mid, size + t), b)
    BY <1>3, <1>10, <2>1, <2>3, <2>4
  <2>6. PICK rsize, hi : rsize = size + t /\ hi = q + t
    OBVIOUS
  <2>7. rsize = s - nb + t
    BY <1>2, <2>6
  <2>8. q # v.top /\ q # v.dv
    BY <1>5, <1>10
  <2>9. Served(m, Result(insert_chunk(set_free_with_pinuse(unlink_chunk(n, q, t), mid, rsize, hi), mid, rsize), b), nb)
    BY <1>1, <1>4, <1>10, <2>2, <2>6, <2>7, <2>8, FrontOfFree
  <2> QED BY <2>5, <2>6, <2>9
<1> QED BY <1>7, <1>8, <1>9, <1>10

------------------------------------------------------------------------------
(* Every answer of dlmalloc and dlrealloc.                                    *)

\* What is left of top.
LEMMA RemainderIs ==
    ASSUME NEW a \in Nat, NEW b \in Nat \ {0}
    PROVE  a % b \in Nat /\ a % b <= a /\ a - (a % b) \in Nat
<1>1. a \div b \in Nat /\ b * (a \div b) <= a
  BY Divided
<1>2. b * (a \div b) \in Nat
  <2> DEFINE c == a \div b
  <2>1. c \in Nat
    BY <1>1
  <2> HIDE DEF c
  <2>2. b * c \in Nat
    BY <2>1
  <2> QED BY <2>2 DEF c
<1>3. a % b = a - b * (a \div b)
  BY SMT
<1>4. a % b \in 0..b - 1
  BY SMT
<1> QED BY <1>1, <1>2, <1>3, <1>4

\* The larger top serves the request.
LEMMA ExtendedServes ==
    ASSUME NEW m, NEW n, NEW size \in Nat, Extended(m, n, size), NEW nb \in Nat, nb >= MIN_CHUNK_SIZE,
           nb < size
    PROVE  Served(m, split_top(n, nb), nb)
<1> DEFINE r == split_top(n, nb)
<1>1. PICK Y : Whole(n, Y) /\ SameUsed(m, n) /\ size = n.topsize
  BY DEF Extended
<1>2. Whole(r.m, Y) /\ Gives(n, r.m, r.p, nb)
  BY <1>1, SplitTop
<1> HIDE DEF r
<1>3. Gives(m, r.m, r.p, nb)
  BY <1>1, <1>2 DEF Gives, SameUsed
<1> QED BY <1>2, <1>3 DEF Served, r

\* At most one segment ends, and at most one begins, at an address.
LEMMA OneEnds ==
    ASSUME NEW m, Segments(m), NEW b, NEW i \in DOMAIN m.seg, m.seg[i].base + m.seg[i].size = b
    PROVE  {j \in DOMAIN m.seg : m.seg[j].base + m.seg[j].size = b} = {i}
<1> SUFFICES ASSUME NEW j \in DOMAIN m.seg, m.seg[j].base + m.seg[j].size = b PROVE j = i
  OBVIOUS
<1>1. /\ m.seg[i].base \in Nat \ {0} /\ m.seg[i].size \in Nat \ {0} /\ m.seg[j].base \in Nat \ {0}
      /\ m.seg[j].size \in Nat \ {0}
  BY SegmentIs
<1>2. b - 1 \in Nat /\ m.seg[i].base <= b - 1 /\ b - 1 < m.seg[i].base + m.seg[i].size
      /\ m.seg[j].base <= b - 1 /\ b - 1 < m.seg[j].base + m.seg[j].size
  BY <1>1
<1>3. PICK a \in Nat : a = b - 1
  BY <1>2
<1> QED BY <1>2, <1>3, OneSegment

\* The same for its beginning.
LEMMA OneBegins ==
    ASSUME NEW m, Segments(m), NEW b, NEW i \in DOMAIN m.seg, m.seg[i].base = b
    PROVE  {j \in DOMAIN m.seg : m.seg[j].base = b} = {i}
<1> SUFFICES ASSUME NEW j \in DOMAIN m.seg, m.seg[j].base = b PROVE j = i
  OBVIOUS
<1>1. /\ m.seg[i].base \in Nat \ {0} /\ m.seg[i].size \in Nat \ {0} /\ m.seg[j].base \in Nat \ {0}
      /\ m.seg[j].size \in Nat \ {0}
  BY SegmentIs
<1>2. b \in Nat /\ m.seg[i].base <= b /\ b < m.seg[i].base + m.seg[i].size
      /\ m.seg[j].base <= b /\ b < m.seg[j].base + m.seg[j].size
  BY <1>1
<1> QED BY <1>2, OneSegment

\* The least of one number.
LEMMA MinOfOne ==
    ASSUME NEW i \in Nat
    PROVE  Min({i}) = i
BY DEF Min

\* A region that is given serves the request, wherever it is.
LEMMA ExtendServes ==
    ASSUME NEW m, NEW X, Whole(m, X), NEW b \in Nat, b # 0, NEW s \in Nat, Fresh(m, b, s),
           NEW nb \in Nat, nb >= MIN_CHUNK_SIZE, s > nb + TOP_FOOT_SIZE
    PROVE  Served(m, extend(m, b, s, nb), nb)
<1> DEFINE behind == {i \in DOMAIN m.seg : m.seg[i].base + m.seg[i].size = b}
           front == {i \in DOMAIN m.seg : m.seg[i].base = b + s}
           low == WithLow(m, b)
           d == s - TOP_FOOT_SIZE
           first == split_top(init_top([low EXCEPT !.seg = <<[base |-> b, size |-> s]>>], b, d), nb)
           larger == split_top(init_top([m EXCEPT !.seg[Min(behind)].size = @ + s], m.top, m.topsize + s), nb)
           before == prepend_alloc([low EXCEPT !.seg[Min(front)] = [base |-> b, size |-> s + @.size]], b, b + s, nb)
           other == split_top(add_segment(low, b, s), nb)
           holds == \E i \in behind : segment_holds(m.seg[i], m.top)
<1>1. extend(m, b, s, nb) = CASE m.top = NULL -> first [] holds -> larger [] OTHER -> IF front # {} THEN before ELSE other
  BY DEF extend, WithLow
<1>2. DOMAIN m = Fields /\ Laid(m)
  BY IsWhole
<1>3. Segments(m) /\ TopIs(m) /\ m.top \in Nat /\ m.topsize \in Nat /\ (m.top = NULL => m.seg = <<>>)
  BY <1>2, LaidIs DEF TopIs
<1>4. /\ d \in Nat /\ d # 0 /\ s = d + TOP_FOOT_SIZE /\ nb < d /\ s - nb >= MIN_CHUNK_SIZE
      /\ s >= MIN_CHUNK_SIZE /\ s > 0
  BY DEF TOP_FOOT_SIZE, MIN_CHUNK_SIZE
<1>5. CASE m.top = NULL
  <2>1. ~holds
    BY <1>3, <1>5
  <2>2. extend(m, b, s, nb) = first
    <3> HIDE DEF first, larger, before, other, holds
    <3> QED BY <1>1, <1>5, <2>1
  <2>3. Extended(m, init_top(WithSegs(low, <<[base |-> b, size |-> s]>>), b, d), d)
    <3> HIDE DEF d
    <3> QED BY <1>4, <1>5, FirstRegion
  <2>4. Served(m, split_top(init_top(WithSegs(low, <<[base |-> b, size |-> s]>>), b, d), nb), nb)
    <3> HIDE DEF d
    <3> QED BY <1>4, <2>3, ExtendedServes
  <2> QED BY <2>2, <2>4 DEF WithSegs
<1>6. CASE m.top # NULL /\ holds
  <2>1. extend(m, b, s, nb) = larger
    <3> HIDE DEF first, larger, before, other, holds
    <3> QED BY <1>1, <1>6
  <2>2. PICK i \in behind : segment_holds(m.seg[i], m.top)
    BY <1>6
  <2>3. /\ i \in DOMAIN m.seg /\ m.seg[i].base + m.seg[i].size = b /\ m.seg[i].base <= m.top
        /\ m.top < m.seg[i].base + m.seg[i].size
    <3>1. m.seg[i].base \in Nat
      BY <1>3, SegmentIs
    <3> QED BY <1>3, <2>2, <3>1 DEF segment_holds
  <2>4. Min(behind) = i
    <3>1. behind = {i}
      BY <1>3, <2>3, OneEnds
    <3>2. i \in Nat
      BY <1>3, <2>3, SegmentIs
    <3> HIDE DEF behind
    <3> QED BY <3>1, <3>2, MinOfOne
  <2>5. b = Foot(m) + TOP_FOOT_SIZE
    BY <1>2, <1>6, <2>3, HoldsTop
  <2>6. PICK t \in Nat : t = m.topsize + s
    BY <1>3
  <2>7. Extended(m, init_top(WithLarger(m, i, s), m.top, t), t)
    BY <1>4, <1>6, <2>3, <2>5, <2>6, GrowTop
  <2>8. nb < t
    BY <1>3, <1>4, <2>6 DEF TOP_FOOT_SIZE
  <2>9. Served(m, split_top(init_top(WithLarger(m, i, s), m.top, t), nb), nb)
    BY <2>7, <2>8, ExtendedServes
  <2>10. larger = split_top(init_top(WithLarger(m, i, s), m.top, t), nb)
    <3> HIDE DEF behind
    <3> QED BY <2>4, <2>6 DEF WithLarger
  <2> QED BY <2>1, <2>9, <2>10
<1>7. CASE m.top # NULL /\ ~holds /\ front # {}
  <2>1. extend(m, b, s, nb) = before
    <3> HIDE DEF first, larger, before, other, holds, front
    <3> QED BY <1>1, <1>7
  <2>2. PICK i \in front : TRUE
    BY <1>7
  <2>3. Min(front) = i
    <3>1. front = {i}
      BY <1>3, <2>2, OneBegins
    <3>2. i \in Nat
      BY <1>3, <2>2, SegmentIs
    <3> HIDE DEF front
    <3> QED BY <3>1, <3>2, MinOfOne
  <2>4. InFront(m, i, b, s)
    BY <1>4, <2>2 DEF InFront
  <2>5. Served(m, prepend_alloc(WithFront(m, i, b, s), b, b + s, nb), nb)
    BY <1>4, <2>4, PrependAlloc
  <2>6. [low EXCEPT !.seg[Min(front)] = [base |-> b, size |-> s + @.size]] = WithFront(m, i, b, s)
    <3> HIDE DEF front
    <3>1. DOMAIN low = Fields /\ low.seg = m.seg
      BY <1>2 DEF WithLow, Fields
    <3> HIDE DEF low
    <3>2. [low EXCEPT !.seg[i] = [base |-> b, size |-> s + @.size]] = [low EXCEPT !.seg = [low.seg EXCEPT ![i] = [base |-> b, size |-> s + low.seg[i].size]]]
      BY <3>1 DEF Fields
    <3> QED BY <2>3, <3>1, <3>2 DEF WithFront, WithSegs, low
  <2> QED BY <2>1, <2>5, <2>6
<1>8. CASE m.top # NULL /\ ~holds /\ front = {}
  <2>1. extend(m, b, s, nb) = other
    <3> HIDE DEF first, larger, before, other, holds, front
    <3> QED BY <1>1, <1>8
  <2>2. Extended(m, add_segment(low, b, s), d)
    <3> HIDE DEF d
    <3> QED BY <1>4, <1>8, AddSegment
  <2>3. Served(m, other, nb)
    <3> HIDE DEF d, low
    <3> QED BY <1>4, <2>2, ExtendedServes
  <2> QED BY <2>1, <2>3
<1> QED BY <1>5, <1>6, <1>7, <1>8

\* The padded request is a number of granules.
LEMMA AlignIs ==
    ASSUME NEW s \in Nat
    PROVE  granularity_align(s) \in Nat
<1>1. PICK c \in Nat \ {0} : c = MAX_SIZE_T + 1
  BY SmallIs
<1>2. PICK g \in Nat \ {0} : g = granularity
  BY MallocAssumption
<1>3. PICK a \in Nat : a = s + granularity - 1
  BY <1>2
<1>4. PICK t \in Nat : t = a % c
  BY <1>1, RemainderIs
<1>5. t - (t % g) \in Nat
  BY <1>2, <1>4, RemainderIs
<1>6. granularity_align(s) = t - (t % g)
  BY <1>1, <1>2, <1>3, <1>4 DEF granularity_align
<1> QED BY <1>5, <1>6

\* A request to the system fails and changes nothing, or it is served.
LEMMA SysAlloc ==
    ASSUME NEW m, NEW X, Whole(m, X), NEW nb \in Nat, nb >= MIN_CHUNK_SIZE, NEW r \in sys_alloc(m, nb)
    PROVE  r = Result(m, NULL) \/ Served(m, r, nb)
<1>1. PICK a \in Nat : a = granularity_align(nb + SYS_ALLOC_PADDING)
  <2>1. nb + SYS_ALLOC_PADDING \in Nat
    BY DEF SYS_ALLOC_PADDING, TOP_FOOT_SIZE, MALLOC_ALIGNMENT
  <2> QED BY <2>1, AlignIs
<1>2. PICK s \in Nat : s = a + MALLOC_ALIGNMENT
  BY DEF MALLOC_ALIGNMENT
<1>3. SUFFICES ASSUME r # Result(m, NULL)
               PROVE  Served(m, r, nb)
  OBVIOUS
<1>4. s > nb + TOP_FOOT_SIZE /\ \E b \in Given(m, s) : r = extend(m, b, s, nb)
  <2>1. r \in IF a > nb /\ a <= MAX_SIZE_T \div 2 /\ s > nb + TOP_FOOT_SIZE
              THEN {extend(m, b, s, nb) : b \in Given(m, s)} ELSE {}
    BY <1>1, <1>2, <1>3 DEF sys_alloc
  <2> QED BY <2>1
<1>5. PICK b \in Given(m, s) : r = extend(m, b, s, nb)
  BY <1>4
<1>6. b \in Nat /\ b # 0
  BY MallocAssumption DEF Given, NULL
<1>7. Fresh(m, b, s)
  BY FreshIs, IsWhole, LaidIs
<1> QED BY <1>4, <1>5, <1>6, <1>7, ExtendServes

\* No free chunk is large enough for nb, nor is top.
Full(m, nb) == m.topsize <= nb /\ \A p \in Frees(m.mem, Foot(m)) \ {m.top} : m.mem[p].size < nb

\* A result of a request for nb, which fails only when the heap is full.
Answered(m, r, nb) == Served(m, r, nb) \/ (r = Result(m, NULL) /\ Full(m, nb))

\* When the bins and dv do not serve.
LEMMA FullIs ==
    ASSUME NEW m, NEW X, Whole(m, X), NEW nb \in Nat, m.topsize <= nb, ~(nb <= m.dvsize),
           \A q \in DOMAIN X : X[q] < nb
    PROVE  Full(m, nb)
<1>1. DOMAIN X = Frees(m.mem, Foot(m)) \ {m.top, m.dv} /\ Shown(m, X) /\ DvIs(m) /\ Laid(m)
  BY IsWhole DEF Bare
<1>2. m.dvsize \in Nat /\ (m.dv # NULL => m.dvsize = m.mem[m.dv].size)
  BY <1>1, DvIsEmpty
<1>3. ASSUME NEW p \in Frees(m.mem, Foot(m)) \ {m.top}
      PROVE  m.mem[p].size < nb
  <2>1. CASE p = m.dv
    <3>1. p # NULL
      BY <1>1, FreeSize
    <3> QED BY <1>2, <2>1, <3>1
  <2>2. CASE p # m.dv
    BY <1>1, <2>2 DEF Shown, chunksize
  <2> QED BY <2>1, <2>2
<1> QED BY <1>3 DEF Full

\* dv, top and the system answer when no chunk of the bins is large enough or dv is.
LEMMA FromTheRest ==
    ASSUME NEW m, NEW X, Whole(m, X), NEW nb \in Nat, nb >= MIN_CHUNK_SIZE,
           nb <= m.dvsize \/ \A q \in DOMAIN X : X[q] < nb, NEW r \in from_the_rest(m, nb)
    PROVE  Answered(m, r, nb)
<1>1. Laid(m) /\ DvIs(m)
  BY IsWhole
<1>2. m.dvsize \in Nat /\ m.topsize \in Nat
  BY <1>1, DvIsEmpty, LaidIs
<1>3. CASE nb <= m.dvsize
  <2>1. r = split_dv(m, nb)
    BY <1>3 DEF from_the_rest
  <2>2. Whole(r.m, X) /\ Gives(m, r.m, r.p, nb)
    BY <1>2, <1>3, <2>1, SplitDv
  <2> QED BY <2>2 DEF Answered, Served
<1>4. CASE ~(nb <= m.dvsize) /\ nb < m.topsize
  <2>1. r = split_top(m, nb)
    BY <1>4 DEF from_the_rest
  <2>2. Whole(r.m, X) /\ Gives(m, r.m, r.p, nb)
    BY <1>2, <1>4, <2>1, SplitTop
  <2> QED BY <2>2 DEF Answered, Served
<1>5. CASE ~(nb <= m.dvsize) /\ ~(nb < m.topsize)
  <2>1. r \in sys_alloc(m, nb)
    BY <1>5 DEF from_the_rest
  <2>2. Full(m, nb)
    <3>1. m.topsize <= nb
      BY <1>2, <1>5
    <3> QED BY <1>5, <3>1, FullIs
  <2> QED BY <2>1, <2>2, SysAlloc DEF Answered
<1> QED BY <1>3, <1>4, <1>5

\* The smallbins and trees of what dlmalloc sees hold all sizes.
LEMMA NoneFits ==
    ASSUME NEW m, NEW X, Whole(m, X), NEW nb \in Nat, m.treemap = {}, \A i \in m.smallmap : i < nb
    PROVE  \A q \in DOMAIN X : X[q] < nb
<1>1. Stored(m, X)
  BY IsWhole
<1>2. ASSUME NEW q \in DOMAIN X
      PROVE  X[q] < nb
  <2>1. X[q] \in MIN_CHUNK_SIZE..MAX_SIZE_T
    BY <1>1 DEF Stored
  <2>2. ~Large(X[q])
    BY <1>1, InMarkedTree
  <2>3. X[q] \in SmallBins
    BY <2>1, <2>2, SmallIs
  <2>4. q \in Range(m.smallbins[X[q]]) /\ (X[q] \in m.smallmap <=> m.smallbins[X[q]] # <<>>)
    BY <1>1, <2>3 DEF Stored, SmallStored, OfSize
  <2>5. m.smallbins[X[q]] # <<>>
    BY <2>4 DEF Range
  <2> QED BY <2>4, <2>5
<1> QED BY <1>2

\* Every free chunk is smaller than the largest size.
LEMMA BelowMax ==
    ASSUME NEW m, Laid(m), NEW p \in Frees(m.mem, Foot(m)), p # m.top
    PROVE  m.mem[p].size < MAX_SIZE_T
<1>1. p \in DOMAIN m.mem \ {Foot(m)} /\ p \notin Fenced(m.mem)
  BY FreeIs
<1>2. p + m.mem[p].size <= MAX_SIZE_T /\ p \in Nat \ {0}
  BY <1>1, ChunkIs
<1>3. m.mem[p].size \in Nat
  BY <1>1, LaidIs
<1> QED BY <1>2, <1>3, SmallIs

\* A small request.
LEMMA SmallRequest ==
    ASSUME NEW m, NEW X, Whole(m, X), NEW nb \in MIN_CHUNK_SIZE..MAX_SIZE_T, is_small(nb),
           NEW r \in dlmalloc(m, nb)
    PROVE  Answered(m, r, nb)
<1> DEFINE exact == m.smallmap \cap {nb, nb + 1}
           larger == {i \in m.smallmap : i > nb}
           first == exact = {} /\ nb > m.dvsize /\ larger # {}
           second == exact = {} /\ nb > m.dvsize /\ larger = {} /\ m.treemap # {}
<1>1. r \in CASE exact # {} -> {use_smallbin(m, Min(exact))}
              [] first -> {split_smallbin(m, Min(larger), nb)}
              [] second -> {tmalloc_small(m, nb)}
              [] OTHER -> from_the_rest(m, nb)
  BY DEF dlmalloc
<1>2. Laid(m) /\ DvIs(m) /\ Stored(m, X)
  BY IsWhole
<1>3. m.dvsize \in Nat /\ nb \in Nat /\ nb >= MIN_CHUNK_SIZE
  BY <1>2, DvIsEmpty, SmallIs DEF MIN_CHUNK_SIZE
<1>4. m.smallmap \subseteq Nat
  BY <1>2, SmallIs DEF Stored, SmallStored
<1>5. CASE exact # {}
  <2>1. r = use_smallbin(m, Min(exact))
    <3> HIDE DEF exact, first, second
    <3>1. ~first /\ ~second
      BY <1>5 DEF first, second
    <3> QED BY <1>1, <1>5, <3>1
  <2>2. Min(exact) \in exact
    <3>1. exact \subseteq Nat
      BY <1>4
    <3> HIDE DEF exact
    <3> QED BY <1>5, <3>1, MinOf
  <2>3. PICK i \in exact : i = Min(exact)
    BY <2>2
  <2>4. i \in m.smallmap /\ i \in nb..nb + 1
    BY <1>3, <2>3
  <2>5. (\E Y : Whole(r.m, Y)) /\ Gives(m, r.m, r.p, nb)
    BY <1>3, <2>1, <2>3, <2>4, UseSmallbin
  <2> QED BY <2>5 DEF Answered, Served
<1>6. nb > m.dvsize => is_small(m.dvsize)
  BY <1>3, SmallIs DEF is_small, MIN_LARGE_SIZE
<1>7. CASE first
  <2>1. r = split_smallbin(m, Min(larger), nb)
    <3>1. exact = {} /\ ~second
      BY <1>7
    <3> HIDE DEF exact, first, second, larger
    <3> QED BY <1>1, <1>7, <3>1
  <2>2. Min(larger) \in larger
    <3>1. larger \subseteq Nat
      BY <1>4
    <3>2. larger # {}
      BY <1>7
    <3> HIDE DEF larger
    <3> QED BY <3>1, <3>2, MinOf
  <2>3. PICK i \in larger : i = Min(larger)
    BY <2>2
  <2>4. i \in m.smallmap /\ i - nb >= MIN_CHUNK_SIZE
    BY <1>3, <1>4, <1>7, <2>3 DEF MIN_CHUNK_SIZE
  <2>5. (\E Y : Whole(r.m, Y)) /\ Gives(m, r.m, r.p, nb)
    BY <1>3, <1>6, <1>7, <2>1, <2>3, <2>4, SplitSmallbin
  <2> QED BY <2>5 DEF Answered, Served
<1>8. CASE second
  <2>1. r = tmalloc_small(m, nb)
    <3>1. exact = {} /\ ~first
      BY <1>8
    <3> HIDE DEF exact, first, second, larger
    <3> QED BY <1>1, <1>8, <3>1
  <2>2. (\E Y : Whole(r.m, Y)) /\ Gives(m, r.m, r.p, nb)
    BY <1>3, <1>6, <1>8, <2>1, TmallocSmall
  <2> QED BY <2>2 DEF Answered, Served
<1>9. CASE exact = {} /\ ~first /\ ~second
  <2>1. r \in from_the_rest(m, nb)
    <3> HIDE DEF exact, first, second, larger
    <3> QED BY <1>1, <1>9
  <2>2. nb <= m.dvsize \/ \A q \in DOMAIN X : X[q] < nb
    <3>1. SUFFICES ASSUME ~(nb <= m.dvsize)
                   PROVE  \A q \in DOMAIN X : X[q] < nb
      OBVIOUS
    <3>2. nb > m.dvsize
      BY <1>3, <3>1
    <3>3. larger = {} /\ m.treemap = {}
      BY <1>9, <3>2
    <3>4. \A i \in m.smallmap : i < nb
      BY <1>3, <1>4, <1>9, <3>3
    <3> QED BY <1>3, <3>3, <3>4, NoneFits
  <2> QED BY <1>3, <2>1, <2>2, FromTheRest
<1> QED BY <1>5, <1>7, <1>8, <1>9

\* A large request.
LEMMA LargeRequest ==
    ASSUME NEW m, NEW X, Whole(m, X), NEW nb \in MIN_CHUNK_SIZE..MAX_SIZE_T, ~is_small(nb),
           NEW r \in dlmalloc(m, nb)
    PROVE  Answered(m, r, nb)
<1>1. Laid(m) /\ DvIs(m) /\ Stored(m, X) /\ Shown(m, X) /\ DOMAIN X = Bare(m, {})
  BY IsWhole
<1>2. Large(nb) /\ nb \in Nat /\ nb >= MIN_CHUNK_SIZE
  BY SmallIs DEF MIN_CHUNK_SIZE
<1> DEFINE found == nb # MAX_SIZE_T /\ m.treemap # {} /\ tmalloc_large(m, nb).p # NULL
<1>3. r \in IF found THEN {tmalloc_large(m, nb)} ELSE from_the_rest(m, nb)
  BY DEF dlmalloc
<1>4. CASE found
  <2>1. r = tmalloc_large(m, nb)
    BY <1>3, <1>4
  <2>2. (\E Y : Whole(r.m, Y)) /\ Gives(m, r.m, r.p, nb)
    BY <1>2, <1>4, <2>1, TmallocLarge
  <2> QED BY <2>2 DEF Answered, Served
<1>5. CASE ~found
  <2>1. r \in from_the_rest(m, nb)
    <3> HIDE DEF found
    <3> QED BY <1>3, <1>5
  <2>2. nb <= m.dvsize \/ \A q \in DOMAIN X : X[q] < nb
    <3>1. CASE nb = MAX_SIZE_T
      BY <1>1, <3>1, BelowMax DEF Bare, Shown, chunksize
    <3>2. CASE m.treemap = {}
      <4>1. \A i \in m.smallmap : i < nb
        BY <1>1, <1>2, SmallIs DEF Stored, SmallStored, SmallBins, Large
      <4> QED BY <1>2, <3>2, <4>1, NoneFits
    <3>3. CASE tmalloc_large(m, nb).p = NULL
      BY <1>2, <3>3, TmallocLarge
    <3> QED BY <1>5, <3>1, <3>2, <3>3
  <2> QED BY <1>2, <2>1, <2>2, FromTheRest
<1> QED BY <1>4, <1>5

\* dlmalloc serves a request, or the heap is full and stays as it is.
LEMMA Dlmalloc ==
    ASSUME NEW m, NEW X, Whole(m, X), NEW nb \in MIN_CHUNK_SIZE..MAX_SIZE_T, NEW r \in dlmalloc(m, nb)
    PROVE  Answered(m, r, nb)
BY SmallRequest, LargeRequest

\* The block moves: the new one is in use, the old one is free.
Moves(m, n, p, q, nb) ==
    p \in Used(m.mem) /\ \E v : (\E Y : Whole(v, Y)) /\ Gives(m, v, q, nb) /\ Returns(v, n, p)

\* dlrealloc resizes the block, moves it, or leaves all as it is when the heap is full.
LEMMA Dlrealloc ==
    ASSUME NEW m, NEW X, Whole(m, X), NEW nb \in MIN_CHUNK_SIZE..MAX_SIZE_T, NEW p \in Used(m.mem),
           NEW r \in dlrealloc(m, p, nb)
    PROVE  \/ r = Result(m, NULL) /\ Full(m, nb)
           \/ r.p = p /\ (\E Y : Whole(r.m, Y)) /\ Resizes(m, r.m, p, nb)
           \/ (\E Y : Whole(r.m, Y)) /\ Moves(m, r.m, p, r.p, nb)
<1> DEFINE try == try_realloc_chunk(m, p, nb)
<1>1. Laid(m) /\ DvIs(m) /\ Stored(m, X) /\ Shown(m, X) /\ DOMAIN X = Bare(m, {})
  BY IsWhole
<1>2. nb \in Nat /\ nb >= MIN_CHUNK_SIZE
  BY SmallIs DEF MIN_CHUNK_SIZE
<1>3. r \in IF nb = MAX_SIZE_T THEN {Result(m, NULL)}
            ELSE IF try.p # NULL THEN {try}
            ELSE {IF new.p = NULL THEN new ELSE Result(dlfree(new.m, p), new.p) : new \in dlmalloc(m, nb)}
  BY DEF dlrealloc
<1>4. CASE nb = MAX_SIZE_T
  <2>1. r = Result(m, NULL)
    BY <1>3, <1>4
  <2>2. m.dvsize < nb /\ \A q \in DOMAIN X : X[q] < nb
    <3>1. \A q \in DOMAIN X : X[q] < nb
      BY <1>1, <1>4, BelowMax DEF Bare, Shown, chunksize
    <3>2. CASE m.dv = NULL
      BY <1>1, <1>2, <3>1, <3>2, DvIsEmpty DEF MIN_CHUNK_SIZE
    <3>3. CASE m.dv # NULL
      <4>1. m.dv \in Frees(m.mem, Foot(m)) /\ m.dv # m.top /\ m.dvsize = m.mem[m.dv].size
        BY <1>1, <3>3, DvIsEmpty
      <4>2. m.mem[m.dv].size < MAX_SIZE_T
        BY <1>1, <4>1, BelowMax
      <4> QED BY <1>4, <3>1, <4>1, <4>2
    <3> QED BY <3>1, <3>2, <3>3
  <2>3. m.topsize <= nb
    <3>1. CASE m.top = NULL
      BY <1>1, <1>2, <3>1, LaidIs DEF TopIs
    <3>2. CASE m.top # NULL
      <4>1. /\ m.top \in DOMAIN m.mem \ {Foot(m)} /\ m.top \notin Fenced(m.mem)
            /\ m.mem[m.top].size = m.topsize
        BY <1>1, <3>2, TopIsFree, FreeIs
      <4>2. m.top + m.topsize <= MAX_SIZE_T
        BY <1>1, <4>1, ChunkIs
      <4> QED BY <1>1, <1>4, <4>2, LaidIs, SmallIs
    <3> QED BY <3>1, <3>2
  <2>4. ~(nb <= m.dvsize)
    BY <1>1, <1>2, <2>2, DvIsEmpty
  <2> QED BY <1>2, <2>1, <2>2, <2>3, <2>4, FullIs
<1>5. CASE nb # MAX_SIZE_T /\ try.p # NULL
  <2>1. r = try
    BY <1>3, <1>5
  <2>2. Tried(m, try, p, nb)
    BY <1>2, TryRealloc
  <2> QED BY <1>5, <2>1, <2>2 DEF Tried
<1>6. CASE nb # MAX_SIZE_T /\ try.p = NULL
  <2>1. PICK new \in dlmalloc(m, nb) : r = IF new.p = NULL THEN new ELSE Result(dlfree(new.m, p), new.p)
    <3> HIDE DEF try
    <3> QED BY <1>3, <1>6
  <2>2. Answered(m, new, nb)
    BY Dlmalloc
  <2>3. CASE new.p = NULL
    BY <2>1, <2>2, <2>3 DEF Answered, Served, Gives
  <2>4. CASE new.p # NULL
    <3>1. r.m = dlfree(new.m, p) /\ r.p = new.p
      BY <2>1, <2>4 DEF Result
    <3>2. (\E Y : Whole(new.m, Y)) /\ Gives(m, new.m, new.p, nb)
      BY <2>2, <2>4 DEF Answered, Served, Result
    <3>3. p \in Used(new.m.mem)
      BY <3>2 DEF Gives
    <3>4. PICK Y : Whole(new.m, Y)
      BY <3>2
    <3>5. (\E Z : Whole(r.m, Z)) /\ Returns(new.m, r.m, p)
      BY <3>1, <3>3, <3>4, Dlfree
    <3> QED BY <3>1, <3>2, <3>5 DEF Moves
  <2> QED BY <2>3, <2>4
<1> QED BY <1>4, <1>5, <1>6

------------------------------------------------------------------------------
(* The invariant, and that every step of the program keeps it.                *)

\* The heap without memory has nothing to keep.
LEMMA ZeroIsWhole == Whole(ZeroState, <<>>)
<1> DEFINE z == ZeroState
<1>1. /\ DOMAIN z = Fields /\ z.mem = <<>> /\ z.smallmap = {} /\ z.treemap = {} /\ z.dv = NULL
      /\ z.dvsize = 0
      /\ z.top = NULL /\ z.topsize = 0 /\ z.least_addr = 0 /\ z.seg = <<>>
      /\ z.smallbins = [i \in SmallBins |-> <<>>] /\ z.treebins = [i \in TreeBins |-> <<>>]
  BY DEF ZeroState, Fields, SmallBins, TreeBins, MIN_LARGE_SIZE
<1> HIDE DEF z
<1>2. DOMAIN z.mem = {} /\ Foot(z) = 0
  BY <1>1 DEF Foot, NULL
<1>3. Tiled(z.mem, Foot(z))
  BY <1>2 DEF Tiled
<1>4. TopIs(z)
  BY <1>1, <1>2 DEF TopIs, NULL
<1>5. Segments(z)
  BY <1>1, <1>2 DEF Segments, SegmentsApart
<1>6. FencesAreCounted(z)
  <2>1. Fenced(z.mem) = {}
    BY <1>2 DEF Fenced
  <2> QED BY <1>1, <2>1, FS_EmptySet DEF FencesAreCounted
<1>7. Frees(z.mem, Foot(z)) = {}
  BY <1>2 DEF Frees
<1>8. SmallStored(z, <<>>)
  <2>1. Distinct(<<>>) /\ Range(<<>>) = {}
    BY DEF Distinct, IsInjective, Range
  <2>2. \A i \in SmallBins : OfSize(<<>>, i) = {}
    BY DEF OfSize
  <2> QED BY <1>1, <2>1, <2>2 DEF SmallStored
<1>9. LargeStored(z, <<>>)
  <2>1. \A i \in TreeBins : TreeHolds(<<>>, i, <<>>)
    BY NoTree DEF TreeHolds
  <2> QED BY <1>1, <2>1 DEF LargeStored
<1>10. Kept(z, <<>>, {})
  BY <1>1, <1>7, <1>8, <1>9 DEF Kept, Shown, Stored
<1>11. DvIs(z)
  BY <1>1 DEF DvIs
<1> QED BY <1>3, <1>4, <1>5, <1>6, <1>10, <1>11 DEF Whole, Laid, z


\* The chunks in use are the program's blocks.
LiveAreUsed ==
    /\ DOMAIN live = Used(gm.mem)
    /\ \A p \in DOMAIN live : live[p] \in Nat /\ gm.mem[p].size \in live[p]..live[p] + 1

RefusedIsFull == refused # 0 => refused \in Nat /\ Full(gm, refused)

IInv == (\E X : Whole(gm, X)) /\ LiveAreUsed /\ RefusedIsFull

\* A block is added.
LEMMA LiveIsGiven ==
    ASSUME LiveAreUsed, NEW nb \in Nat, NEW p, Gives(gm, gm', p, nb), live' = With(live, p, nb)
    PROVE  LiveAreUsed'
<1>1. DOMAIN live' = Used(gm'.mem)
  BY DEF LiveAreUsed, Gives, With
<1>2. ASSUME NEW q \in DOMAIN live'
      PROVE  live'[q] \in Nat /\ gm'.mem[q].size \in live'[q]..live'[q] + 1
  <2>1. CASE q = p
    BY <2>1, <1>2 DEF Gives, With
  <2>2. CASE q # p
    <3>1. q \in DOMAIN live /\ live'[q] = live[q]
      BY <1>2, <2>2 DEF With
    <3>2. gm'.mem[q].size = gm.mem[q].size
      BY <3>1 DEF Gives, LiveAreUsed
    <3> QED BY <3>1, <3>2 DEF LiveAreUsed
  <2> QED BY <2>1, <2>2
<1> QED BY <1>1, <1>2 DEF LiveAreUsed

\* The empty heap satisfies the invariant.
LEMMA InitIInv == Init => IInv
<1>1. SUFFICES ASSUME Init PROVE IInv
  OBVIOUS
<1>2. Whole(gm, <<>>)
  BY <1>1, ZeroIsWhole DEF Init
<1>3. LiveAreUsed
  <2>1. gm.mem = <<>>
    BY <1>1 DEF Init, ZeroState
  <2> QED BY <1>1, <2>1 DEF Init, LiveAreUsed, Used
<1> QED BY <1>1, <1>2, <1>3 DEF IInv, RefusedIsFull, Init

\* The padded size of a request.
LEMMA RequestIs ==
    ASSUME NEW nb \in Requests
    PROVE  nb \in MIN_CHUNK_SIZE..MAX_SIZE_T /\ nb \in Nat /\ nb # 0
BY MallocAssumption, SmallIs DEF MIN_CHUNK_SIZE

\* dlmalloc keeps the invariant.
LEMMA MallocIInv ==
    ASSUME IInv, NEW nb \in Requests, Malloc(nb)
    PROVE  IInv'
<1>1. PICK res \in dlmalloc(gm, nb) :
        /\ gm' = res.m
        /\ live' = IF res.p = NULL THEN live
                   ELSE With(live, res.p, IF res.p \in DOMAIN live THEN Twice ELSE nb)
        /\ refused' = IF res.p = NULL THEN nb ELSE 0
  BY DEF Malloc
<1>2. PICK X : Whole(gm, X)
  BY DEF IInv
<1>3. Answered(gm, res, nb)
  BY <1>2, RequestIs, Dlmalloc
<1>4. CASE res.p = NULL
  <2>1. res = Result(gm, NULL) /\ Full(gm, nb)
    BY <1>3, <1>4 DEF Answered, Served, Gives
  <2>2. gm' = gm /\ live' = live /\ refused' = nb
    BY <1>1, <1>4, <2>1 DEF Result
  <2> QED BY <2>1, <2>2, RequestIs DEF IInv, LiveAreUsed, RefusedIsFull
<1>5. CASE res.p # NULL
  <2>1. (\E Y : Whole(gm', Y)) /\ Gives(gm, gm', res.p, nb)
    BY <1>1, <1>3, <1>5 DEF Answered, Served, Result
  <2>2. res.p \notin DOMAIN live
    BY <2>1 DEF Gives, IInv, LiveAreUsed
  <2>3. live' = With(live, res.p, nb) /\ refused' = 0
    BY <1>1, <1>5, <2>2
  <2>4. LiveAreUsed'
    BY <2>1, <2>3, RequestIs, LiveIsGiven DEF IInv
  <2> QED BY <2>1, <2>3, <2>4 DEF IInv, RefusedIsFull
<1> QED BY <1>4, <1>5

\* dlfree keeps the invariant.
LEMMA FreeIInv ==
    ASSUME IInv, NEW p \in DOMAIN live, Free(p)
    PROVE  IInv'
<1>1. PICK X : Whole(gm, X)
  BY DEF IInv
<1>2. p \in Used(gm.mem)
  BY DEF IInv, LiveAreUsed
<1>3. (\E Y : Whole(gm', Y)) /\ Returns(gm, gm', p)
  BY <1>1, <1>2, Dlfree DEF Free
<1>4. DOMAIN live' = DOMAIN live \ {p} /\ \A q \in DOMAIN live' : live'[q] = live[q]
  BY DEF Free, Restrict
<1>5. LiveAreUsed'
  BY <1>3, <1>4 DEF Returns, IInv, LiveAreUsed
<1> QED BY <1>3, <1>5 DEF IInv, RefusedIsFull, Free

\* A block is resized or moved.
LEMMA LiveIsMoved ==
    ASSUME LiveAreUsed, NEW nb \in Nat, NEW p, NEW q,
           live' = With(Restrict(live, DOMAIN live \ {p}), q, nb),
           Used(gm'.mem) = (Used(gm.mem) \ {p}) \cup {q}, gm'.mem[q].size \in nb..nb + 1,
           \A a \in Used(gm.mem) \ {p, q} : gm'.mem[a].size = gm.mem[a].size
    PROVE  LiveAreUsed'
<1>1. DOMAIN live' = (DOMAIN live \ {p}) \cup {q} /\ live'[q] = nb
      /\ \A a \in DOMAIN live \ {p, q} : live'[a] = live[a]
  BY DEF With, Restrict
<1> QED BY <1>1 DEF LiveAreUsed

\* What is known of a move.
LEMMA MovesIs ==
    ASSUME NEW m, NEW n, NEW p, NEW q, NEW nb, Moves(m, n, p, q, nb)
    PROVE  /\ p \in Used(m.mem) /\ q # NULL /\ q \notin Used(m.mem) /\ p # q
           /\ Used(n.mem) = (Used(m.mem) \ {p}) \cup {q} /\ n.mem[q].size \in nb..nb + 1
           /\ \A a \in Used(m.mem) \ {p, q} : n.mem[a].size = m.mem[a].size
<1>1. PICK v : Gives(m, v, q, nb) /\ Returns(v, n, p)
  BY DEF Moves
<1>2. /\ q # NULL /\ q \notin Used(m.mem) /\ Used(v.mem) = Used(m.mem) \cup {q}
      /\ v.mem[q].size \in nb..nb + 1
      /\ \A a \in Used(m.mem) : v.mem[a].size = m.mem[a].size
  BY <1>1 DEF Gives
<1>3. p \in Used(v.mem) /\ Used(n.mem) = Used(v.mem) \ {p}
      /\ \A a \in Used(n.mem) : n.mem[a].size = v.mem[a].size
  BY <1>1 DEF Returns
<1>4. p \in Used(m.mem) /\ p # q
  BY <1>2 DEF Moves
<1> QED BY <1>2, <1>3, <1>4

\* dlrealloc keeps the invariant.
LEMMA ReallocIInv ==
    ASSUME IInv, NEW p \in DOMAIN live, NEW nb \in Requests, Realloc(p, nb)
    PROVE  IInv'
<1>1. PICK res \in dlrealloc(gm, p, nb) :
        /\ gm' = res.m
        /\ live' = IF res.p = NULL THEN live ELSE With(Restrict(live, DOMAIN live \ {p}), res.p, nb)
        /\ refused' = IF res.p = NULL THEN nb ELSE 0
  BY DEF Realloc
<1>2. PICK X : Whole(gm, X)
  BY DEF IInv
<1>3. p \in Used(gm.mem)
  BY DEF IInv, LiveAreUsed
<1>4. \/ res = Result(gm, NULL) /\ Full(gm, nb)
      \/ res.p = p /\ (\E Y : Whole(res.m, Y)) /\ Resizes(gm, res.m, p, nb)
      \/ (\E Y : Whole(res.m, Y)) /\ Moves(gm, res.m, p, res.p, nb)
  BY <1>2, <1>3, RequestIs, Dlrealloc
<1>5. CASE res = Result(gm, NULL) /\ Full(gm, nb)
  <2>1. gm' = gm /\ live' = live /\ refused' = nb
    BY <1>1, <1>5 DEF Result
  <2> QED BY <1>5, <2>1, RequestIs DEF IInv, LiveAreUsed, RefusedIsFull
<1>6. ASSUME NEW q, q = res.p, q # NULL, \E Y : Whole(gm', Y),
             Used(gm'.mem) = (Used(gm.mem) \ {p}) \cup {q}, gm'.mem[q].size \in nb..nb + 1,
             \A a \in Used(gm.mem) \ {p, q} : gm'.mem[a].size = gm.mem[a].size
      PROVE  IInv'
  <2>1. live' = With(Restrict(live, DOMAIN live \ {p}), q, nb) /\ refused' = 0
    BY <1>1, <1>6
  <2>2. LiveAreUsed'
    BY <1>6, <2>1, RequestIs, LiveIsMoved DEF IInv
  <2> QED BY <1>6, <2>1, <2>2 DEF IInv, RefusedIsFull
<1>7. CASE res.p = p /\ (\E Y : Whole(res.m, Y)) /\ Resizes(gm, res.m, p, nb)
  <2>1. /\ p # NULL /\ Used(gm'.mem) = (Used(gm.mem) \ {p}) \cup {p} /\ gm'.mem[p].size \in nb..nb + 1
        /\ \A a \in Used(gm.mem) \ {p, p} : gm'.mem[a].size = gm.mem[a].size
    BY <1>1, <1>7 DEF Resizes
  <2> QED BY <1>1, <1>6, <1>7, <2>1
<1>8. CASE (\E Y : Whole(res.m, Y)) /\ Moves(gm, res.m, p, res.p, nb)
  <2>1. Moves(gm, gm', p, res.p, nb)
    BY <1>1, <1>8
  <2>2. /\ res.p # NULL /\ Used(gm'.mem) = (Used(gm.mem) \ {p}) \cup {res.p}
        /\ gm'.mem[res.p].size \in nb..nb + 1
        /\ \A a \in Used(gm.mem) \ {p, res.p} : gm'.mem[a].size = gm.mem[a].size
    BY <2>1, MovesIs
  <2> QED BY <1>1, <1>6, <1>8, <2>2
<1> QED BY <1>4, <1>5, <1>7, <1>8

\* No step of the program leaves the invariant.
LEMMA NextIInv ==
    ASSUME IInv, [Next]_vars
    PROVE  IInv'
<1>1. CASE UNCHANGED vars
  BY <1>1 DEF vars, IInv, LiveAreUsed, RefusedIsFull
<1>2. CASE Next
  BY <1>2, MallocIInv, FreeIInv, ReallocIInv DEF Next
<1> QED BY <1>1, <1>2

\* In every reachable state the heads of the chunks agree with each other, dv and top and
\* the bins hold what is free, each chunk once, and the chunks in use are the blocks that
\* dlmalloc and dlrealloc have given and dlfree has not got back.
THEOREM HeapIsWhole == Spec => []IInv
BY InitIInv, NextIInv, PTL DEF Spec

------------------------------------------------------------------------------
(* What the invariant says of the heap as traverse_and_check meets it.        *)

\* What the properties call fenceposts and free chunks.
LEMMA ChunksAre ==
    ASSUME Laid(gm)
    PROVE  /\ Fences = Fenced(gm.mem)
           /\ Chunks = DOMAIN gm.mem \ (Fenced(gm.mem) \cup {gm.top, Foot(gm)})
           /\ FreeChunks = Frees(gm.mem, Foot(gm)) \ {gm.top}
           /\ Chunks \ FreeChunks = Used(gm.mem) \cup Records(gm.mem)
           /\ \A p \in DOMAIN gm.mem \ {Foot(gm)} : is_inuse(gm, p) = gm.mem[p].cin
<1>1. Tiled(gm.mem, Foot(gm))
  BY LaidIs
<1>2. ASSUME NEW p \in DOMAIN gm.mem \ {Foot(gm)}
      PROVE  Sound(gm.mem, Foot(gm), p) /\ gm.mem[p].cin \in BOOLEAN /\ gm.mem[p].pin \in BOOLEAN
  BY <1>1, <1>2, HeadIs
<1>3. ASSUME NEW p \in DOMAIN gm.mem \ {Foot(gm)}
      PROVE  is_inuse(gm, p) = gm.mem[p].cin
  BY <1>2 DEF is_inuse, Sound
<1>4. ASSUME NEW p \in DOMAIN gm.mem, p = Foot(gm)
      PROVE  gm.mem[p].size = TOP_FOOT_SIZE /\ ~gm.mem[p].cin
  BY <1>1, <1>4, HeadIs
<1>5. Fences = Fenced(gm.mem)
  <2>1. ASSUME NEW p \in DOMAIN gm.mem
        PROVE  gm.mem[p] = FENCEPOST <=> gm.mem[p].size = 0
    <3>1. FENCEPOST.size = 0
      BY DEF FENCEPOST, Chunk
    <3>2. CASE p = Foot(gm)
      BY <1>4, <3>1, <3>2 DEF TOP_FOOT_SIZE
    <3>3. CASE p # Foot(gm)
      <4>1. gm.mem[p].size = 0 => gm.mem[p] = FENCEPOST
        BY <1>2, <3>3 DEF Sound
      <4> QED BY <3>1, <4>1
    <3> QED BY <3>2, <3>3
  <2> QED BY <2>1 DEF Fences, Fenced
<1>6. Chunks = DOMAIN gm.mem \ (Fenced(gm.mem) \cup {gm.top, Foot(gm)})
  BY <1>5 DEF Chunks, Foot
<1>7. ASSUME NEW p \in Frees(gm.mem, Foot(gm))
      PROVE  p \in DOMAIN gm.mem \ {Foot(gm)} /\ p \notin Fenced(gm.mem) /\ ~gm.mem[p].cin
  BY <1>7, FreeIs
<1>8. FreeChunks = Frees(gm.mem, Foot(gm)) \ {gm.top}
  <2>1. FreeChunks = {p \in Chunks : ~gm.mem[p].cin}
    BY <1>3, <1>6 DEF FreeChunks
  <2> QED BY <1>6, <1>7, <2>1 DEF Frees
<1>9. ASSUME NEW p \in Records(gm.mem)
      PROVE  p \in DOMAIN gm.mem \ {Foot(gm)} /\ p \notin Fenced(gm.mem) /\ gm.mem[p].cin
  <2>1. p \in DOMAIN gm.mem /\ p + SEGMENT_SIZE \in Fenced(gm.mem)
    BY <1>9 DEF Records
  <2> DEFINE f == p + SEGMENT_SIZE
  <2>2. f \in DOMAIN gm.mem /\ gm.mem[f].size = 0
    BY <2>1 DEF Fenced
  <2>3. f # Foot(gm)
    BY <1>4, <2>2 DEF TOP_FOOT_SIZE
  <2>4. gm.mem[f - SEGMENT_SIZE].size = SEGMENT_SIZE /\ gm.mem[f - SEGMENT_SIZE].cin
    BY <1>2, <2>2, <2>3 DEF Sound
  <2>5. p \in Nat
    BY <1>1, <2>1, HeadIs
  <2>6. f - SEGMENT_SIZE = p
    BY <2>5 DEF SEGMENT_SIZE
  <2>7. gm.mem[p].size = SEGMENT_SIZE /\ gm.mem[p].cin
    <3> HIDE DEF f
    <3> QED BY <2>4, <2>6
  <2> QED BY <1>4, <2>1, <2>7 DEF Fenced, SEGMENT_SIZE
<1>10. gm.top \notin Used(gm.mem) \cup Records(gm.mem)
  <2>1. CASE gm.top = NULL
    <3>1. gm.top \notin DOMAIN gm.mem
      BY <1>1, <2>1 DEF Tiled, NULL
    <3> QED BY <1>9, <3>1 DEF Used
  <2>2. CASE gm.top # NULL
    <3>1. ~gm.mem[gm.top].cin
      BY <1>7, <2>2, TopIsFree
    <3> QED BY <1>9, <3>1 DEF Used
  <2> QED BY <2>1, <2>2
<1>11. \A p \in Used(gm.mem) : p # Foot(gm)
  BY <1>4 DEF Used
<1>12. Chunks \ FreeChunks = Used(gm.mem) \cup Records(gm.mem)
  <2>1. Chunks \ FreeChunks = {p \in Chunks : gm.mem[p].cin}
    BY <1>3, <1>6 DEF FreeChunks
  <2>2. ASSUME NEW p \in Used(gm.mem) \cup Records(gm.mem)
        PROVE  p \in Chunks /\ gm.mem[p].cin
    <3>1. p # gm.top
      BY <1>10, <2>2
    <3> QED BY <1>6, <1>9, <1>11, <2>2, <3>1 DEF Used
  <2>3. ASSUME NEW p \in Chunks, gm.mem[p].cin
        PROVE  p \in Used(gm.mem) \cup Records(gm.mem)
    BY <1>6, <2>3 DEF Used
  <2> QED BY <2>1, <2>2, <2>3
<1> QED BY <1>3, <1>5, <1>6, <1>8, <1>12

\* The records of the older segments are in front of the fenceposts.
LEMMA RecordsAre ==
    ASSUME Laid(gm)
    PROVE  Records(gm.mem) = {f - SEGMENT_SIZE : f \in Fences}
<1>1. Tiled(gm.mem, Foot(gm)) /\ Fences = Fenced(gm.mem)
  BY LaidIs, ChunksAre
<1>2. ASSUME NEW f \in Fenced(gm.mem)
      PROVE  f \in Nat /\ f - SEGMENT_SIZE \in DOMAIN gm.mem
  <2>1. f \in DOMAIN gm.mem /\ gm.mem[f].size = 0
    BY <1>2 DEF Fenced
  <2>2. f # Foot(gm)
    BY <1>1, <2>1, HeadIs DEF TOP_FOOT_SIZE
  <2> QED BY <1>1, <2>1, <2>2, HeadIs DEF Sound
<1>3. ASSUME NEW p \in Records(gm.mem)
      PROVE  p \in {f - SEGMENT_SIZE : f \in Fenced(gm.mem)}
  <2>1. p \in DOMAIN gm.mem /\ p + SEGMENT_SIZE \in Fenced(gm.mem)
    BY <1>3 DEF Records
  <2>2. p \in Nat
    BY <1>1, <2>1, HeadIs
  <2>3. (p + SEGMENT_SIZE) - SEGMENT_SIZE = p
    BY <2>2 DEF SEGMENT_SIZE
  <2> QED BY <2>1, <2>3
<1>4. ASSUME NEW f \in Fenced(gm.mem)
      PROVE  f - SEGMENT_SIZE \in Records(gm.mem)
  <2>1. f \in Nat /\ f - SEGMENT_SIZE \in DOMAIN gm.mem
    BY <1>2
  <2>2. (f - SEGMENT_SIZE) + SEGMENT_SIZE = f
    BY <2>1 DEF SEGMENT_SIZE
  <2> QED BY <2>1, <2>2 DEF Records
<1> QED BY <1>1, <1>3, <1>4

\* Every chunk in use is a block of the program.
LEMMA IInvInUse == IInv => InUseIsLive
<1>1. SUFFICES ASSUME IInv PROVE InUseIsLive
  OBVIOUS
<1>2. Laid(gm)
  BY <1>1, IsWhole DEF IInv
<1>3. Chunks \ FreeChunks = DOMAIN live \cup {f - SEGMENT_SIZE : f \in Fences}
  BY <1>1, <1>2, ChunksAre, RecordsAre DEF IInv, LiveAreUsed
<1>4. Cardinality(Fences) = IF gm.seg = <<>> THEN 0 ELSE Len(gm.seg) - 1
  BY <1>2, ChunksAre, LaidIs DEF FencesAreCounted
<1>5. \A p \in DOMAIN live : chunksize(gm, p) \in live[p]..live[p] + MIN_CHUNK_SIZE - 1
  <2>1. ASSUME NEW p \in DOMAIN live
        PROVE  live[p] + MIN_CHUNK_SIZE - 1 = live[p] + 1 /\ gm.mem[p].size \in live[p]..live[p] + 1
    BY <1>1 DEF IInv, LiveAreUsed, MIN_CHUNK_SIZE
  <2> QED BY <2>1 DEF chunksize
<1> QED BY <1>3, <1>4, <1>5 DEF InUseIsLive

\* A request is refused only when nothing that is free is large enough.
LEMMA IInvRefused == IInv => RefusedWhenFull
<1>1. SUFFICES ASSUME IInv PROVE RefusedWhenFull
  OBVIOUS
<1>2. FreeChunks = Frees(gm.mem, Foot(gm)) \ {gm.top}
  BY <1>1, IsWhole, ChunksAre DEF IInv
<1> QED BY <1>1, <1>2 DEF IInv, RefusedIsFull, Full, RefusedWhenFull, chunksize

\* The chunks of the bins are the ones that X keeps.
LEMMA BinnedAre ==
    ASSUME NEW X, Stored(gm, X)
    PROVE  Binned = DOMAIN X
<1>1. /\ DOMAIN gm.smallbins = SmallBins /\ DOMAIN gm.treebins = TreeBins
      /\ \A i \in SmallBins : Range(gm.smallbins[i]) = OfSize(X, i)
      /\ \A i \in TreeBins : TreeHolds(gm.treebins[i], i, X)
  BY DEF Stored, SmallStored, LargeStored
<1> DEFINE small == {Range(gm.smallbins[i]) : i \in DOMAIN gm.smallbins}
           large == {UNION {Range(tree[t]) : t \in DOMAIN tree} : tree \in Range(gm.treebins)}
<1>2. Binned = UNION (small \cup large)
  BY DEF Binned
<1>3. ASSUME NEW i \in SmallBins
      PROVE  Range(gm.smallbins[i]) \subseteq DOMAIN X
  BY <1>1 DEF OfSize
<1>4. ASSUME NEW i \in TreeBins, NEW t \in DOMAIN gm.treebins[i]
      PROVE  Range(gm.treebins[i][t]) \subseteq DOMAIN X
  <2>1. PICK sz : Holds(gm.treebins[i], sz, i, X)
    BY <1>1 DEF TreeHolds
  <2>2. Range(gm.treebins[i][t]) = OfSize(X, sz[t])
    BY <2>1 DEF Holds
  <2> QED BY <2>2 DEF OfSize
<1>5. ASSUME NEW p \in Binned
      PROVE  p \in DOMAIN X
  <2>1. CASE \E i \in SmallBins : p \in Range(gm.smallbins[i])
    BY <1>3, <2>1
  <2>2. CASE \E tree \in Range(gm.treebins) : \E t \in DOMAIN tree : p \in Range(tree[t])
    <3>1. PICK tree \in Range(gm.treebins) : \E t \in DOMAIN tree : p \in Range(tree[t])
      BY <2>2
    <3>2. PICK i \in TreeBins : tree = gm.treebins[i]
      BY <1>1 DEF Range
    <3> QED BY <1>4, <3>1, <3>2
  <2> QED BY <1>1, <1>2, <1>5, <2>1, <2>2
<1>6. ASSUME NEW p \in DOMAIN X
      PROVE  p \in Binned
  <2>1. X[p] \in MIN_CHUNK_SIZE..MAX_SIZE_T
    BY DEF Stored
  <2>2. CASE X[p] \in SmallBins
    <3>1. p \in Range(gm.smallbins[X[p]])
      BY <1>1, <2>2 DEF OfSize
    <3> QED BY <1>1, <1>2, <2>2, <3>1
  <2>3. CASE X[p] \notin SmallBins
    <3>1. Large(X[p])
      BY <2>1, <2>3, SmallIs
    <3>2. PICK i : i = compute_tree_index(X[p])
      OBVIOUS
    <3>3. i \in TreeBins
      BY <3>1, <3>2, LargeIs, IndexInRange DEF TreeBins
    <3>4. PICK sz : Holds(gm.treebins[i], sz, i, X)
      BY <1>1, <3>3 DEF TreeHolds
    <3>5. PICK t \in DOMAIN gm.treebins[i] : sz[t] = X[p]
      BY <3>1, <3>2, <3>4 DEF Holds
    <3>6. p \in Range(gm.treebins[i][t])
      BY <3>4, <3>5 DEF Holds, OfSize
    <3>7. gm.treebins[i] \in Range(gm.treebins)
      BY <1>1, <3>3 DEF Range
    <3>8. p \in UNION {Range(gm.treebins[i][u]) : u \in DOMAIN gm.treebins[i]}
      BY <3>5, <3>6
    <3>9. UNION {Range(gm.treebins[i][u]) : u \in DOMAIN gm.treebins[i]} \in large
      BY <3>7
    <3> QED BY <1>2, <3>8, <3>9
  <2> QED BY <2>2, <2>3
<1> QED BY <1>5, <1>6

\* A chunk as traverse_and_check meets it.
LEMMA ChunkIsChecked ==
    ASSUME Laid(gm), NEW p \in Chunks, NEW n, n = next_chunk(gm, p)
    PROVE  /\ p >= gm.least_addr
           /\ \E s \in Range(gm.seg) : segment_holds(s, p) /\ segment_holds(s, n)
           /\ n \in DOMAIN gm.mem /\ DOMAIN gm.mem \cap p + 1..n - 1 = {}
           /\ gm.mem[n].pin = is_inuse(gm, p)
           /\ ~is_inuse(gm, p) =>
                /\ gm.mem[n].foot = chunksize(gm, p) /\ chunksize(gm, p) >= MIN_CHUNK_SIZE
                /\ is_inuse(gm, n) /\ n # gm.top
<1>1. p \in DOMAIN gm.mem \ {Foot(gm)} /\ p \notin Fenced(gm.mem) /\ p # gm.top
      /\ is_inuse(gm, p) = gm.mem[p].cin
  BY ChunksAre
<1>2. n = p + gm.mem[p].size
  BY DEF next_chunk, chunksize
<1>3. /\ n \in DOMAIN gm.mem /\ n \in Nat /\ p \in Nat \ {0} /\ p < n
      /\ InOne(gm.seg, p, n) /\ gm.mem[n].pin = gm.mem[p].cin /\ Inner(gm.mem, p, n) = {p}
      /\ n # Foot(gm) => gm.mem[p].size >= MIN_CHUNK_SIZE
         /\ (~gm.mem[p].cin => gm.mem[n].foot = gm.mem[p].size)
  <2>1. LET a == p + gm.mem[p].size IN
        /\ a \in DOMAIN gm.mem /\ a \in Nat /\ p \in Nat \ {0} /\ p < a
        /\ InOne(gm.seg, p, a) /\ gm.mem[a].pin = gm.mem[p].cin /\ Inner(gm.mem, p, a) = {p}
        /\ a # Foot(gm) => gm.mem[p].size >= MIN_CHUNK_SIZE
           /\ (~gm.mem[p].cin => gm.mem[a].foot = gm.mem[p].size)
    BY <1>1, ChunkIs
  <2> QED BY <1>2, <2>1
<1>4. PICK i \in DOMAIN gm.seg : gm.seg[i].base <= p /\ n < gm.seg[i].base + gm.seg[i].size
  BY <1>3 DEF InOne
<1>5. /\ gm.seg[i].base \in Nat /\ gm.seg[i].size \in Nat /\ gm.least_addr <= gm.seg[i].base
      /\ gm.least_addr \in Nat
      /\ gm.seg[i] \in Range(gm.seg)
  <2>1. Segments(gm)
    BY LaidIs
  <2> QED BY <2>1, SegmentIs DEF Segments, Range
<1>6. p >= gm.least_addr
  BY <1>3, <1>4, <1>5
<1>7. segment_holds(gm.seg[i], p) /\ segment_holds(gm.seg[i], n)
  BY <1>3, <1>4, <1>5 DEF segment_holds
<1>8. DOMAIN gm.mem \cap p + 1..n - 1 = {}
  <2>1. ASSUME NEW a \in DOMAIN gm.mem, a \in p + 1..n - 1
        PROVE  FALSE
    BY <1>3, <2>1 DEF Inner
  <2> QED BY <2>1
<1>9. ASSUME ~gm.mem[p].cin
      PROVE  /\ gm.mem[n].foot = chunksize(gm, p) /\ chunksize(gm, p) >= MIN_CHUNK_SIZE
             /\ is_inuse(gm, n) /\ n # gm.top
  <2>1. p \in Frees(gm.mem, Foot(gm))
    BY <1>1, <1>9 DEF Frees
  <2>2. n # Foot(gm)
    BY <1>1, <1>2, <2>1, FreeIs
  <2>3. gm.mem[n].cin
    BY <1>2, <2>1, <2>2, FreeIs
  <2>4. n # gm.top
    <3>1. gm.top # NULL
      BY <2>1, FreeIs
    <3> QED BY <2>3, <3>1, TopIsFree, FreeIs
  <2> QED BY <1>3, <1>9, <2>2, <2>3, <2>4 DEF chunksize, is_inuse
<1> QED BY <1>1, <1>3, <1>5, <1>6, <1>7, <1>8, <1>9

\* traverse_and_check finds each segment tiled by chunks that agree with each other.
LEMMA IInvTiles == IInv => ChunksTileSegments
<1>1. SUFFICES ASSUME IInv PROVE ChunksTileSegments
  OBVIOUS
<1>2. PICK X : Whole(gm, X)
  BY <1>1 DEF IInv
<1>3. Laid(gm) /\ DvIs(gm) /\ Stored(gm, X) /\ DOMAIN X = Bare(gm, {}) /\ Segments(gm)
  BY <1>2, IsWhole, LaidIs
<1>4. \A s \in Range(gm.seg) : s.base \in DOMAIN gm.mem /\ gm.mem[s.base].pin
  BY <1>3 DEF Segments, Range
<1>5. \A p \in Chunks : LET n == next_chunk(gm, p) IN
        /\ p >= gm.least_addr
        /\ \E s \in Range(gm.seg) : segment_holds(s, p) /\ segment_holds(s, n)
        /\ n \in DOMAIN gm.mem /\ DOMAIN gm.mem \cap p + 1..n - 1 = {}
        /\ gm.mem[n].pin = is_inuse(gm, p)
        /\ ~is_inuse(gm, p) =>
            /\ gm.mem[n].foot = chunksize(gm, p) /\ chunksize(gm, p) >= MIN_CHUNK_SIZE
            /\ is_inuse(gm, n) /\ n # gm.top
  BY <1>3, ChunkIsChecked
<1>6. FreeChunks = Binned \cup ({gm.dv} \ {NULL}) /\ gm.dv \notin Binned
  <2>1. /\ FreeChunks = Frees(gm.mem, Foot(gm)) \ {gm.top}
        /\ Binned = Frees(gm.mem, Foot(gm)) \ {gm.top, gm.dv}
    BY <1>3, ChunksAre, BinnedAre DEF Bare
  <2>2. NULL \notin Frees(gm.mem, Foot(gm))
        /\ (gm.dv # NULL => gm.dv \in Frees(gm.mem, Foot(gm)) /\ gm.dv # gm.top)
    BY <1>2, IsWhole
  <2> QED BY <2>1, <2>2
<1>7. gm.dvsize = IF gm.dv = NULL THEN 0 ELSE chunksize(gm, gm.dv)
  BY <1>3 DEF DvIs, chunksize
<1>8. ASSUME gm.top # NULL
      PROVE  \E s \in Range(gm.seg) :
                /\ gm.topsize > 0 /\ gm.topsize = s.base + s.size - gm.top - TOP_FOOT_SIZE
                /\ segment_holds(s, gm.top) /\ gm.mem[gm.top].pin /\ chunksize(gm, gm.top) = gm.topsize
  <2>1. TopIs(gm)
    BY <1>3, LaidIs
  <2>2. PICK i \in DOMAIN gm.seg : gm.seg[i].base <= gm.top
        /\ gm.seg[i].base + gm.seg[i].size = Foot(gm) + TOP_FOOT_SIZE
    BY <1>8, <2>1 DEF TopIs
  <2>3. gm.seg[i].base \in Nat /\ gm.seg[i].size \in Nat /\ gm.seg[i] \in Range(gm.seg)
    BY <1>3, SegmentIs DEF Range
  <2>4. /\ gm.top \in Nat /\ gm.topsize \in Nat /\ gm.topsize > 0 /\ gm.mem[gm.top].size = gm.topsize
        /\ gm.mem[gm.top].pin
    BY <1>8, <2>1 DEF TopIs
  <2>5. /\ gm.topsize = gm.seg[i].base + gm.seg[i].size - gm.top - TOP_FOOT_SIZE
        /\ segment_holds(gm.seg[i], gm.top)
    BY <2>2, <2>3, <2>4 DEF Foot, segment_holds, TOP_FOOT_SIZE
  <2> QED BY <2>3, <2>4, <2>5 DEF chunksize
<1> QED BY <1>4, <1>5, <1>6, <1>7, <1>8 DEF ChunksTileSegments

\* A node of a tree as do_check_tree meets it.
LEMMA NodeIsChecked ==
    ASSUME NEW X, Whole(gm, X), NEW i \in TreeBins, NEW tree, NEW sz, Holds(tree, sz, i, X),
           NEW t \in DOMAIN tree
    PROVE  /\ NodeSize(gm, tree, t) = sz[t] /\ Range(tree[t]) \subseteq FreeChunks
           /\ \A p \in Range(tree[t]) : chunksize(gm, p) = sz[t]
           /\ sz[t] >= minsize_for_tree_index(i)
              /\ (i < NTREEBINS - 1 => sz[t] < minsize_for_tree_index(i + 1))
           /\ t = Down(i, sz[t], Len(t))
           /\ t # <<>> => Front(t) \in DOMAIN tree
<1>1. Laid(gm) /\ Shown(gm, X) /\ DOMAIN X = Bare(gm, {})
  BY IsWhole
<1>2. tree[t][1] \in DOMAIN X /\ X[tree[t][1]] = sz[t]
  BY FirstIs
<1>3. Shape(sz, i) /\ DOMAIN sz = DOMAIN tree /\ Range(tree[t]) = OfSize(X, sz[t])
  BY DEF Holds
<1>4. \A p \in Range(tree[t]) : p \in DOMAIN X /\ chunksize(gm, p) = sz[t]
  BY <1>1, <1>3 DEF OfSize, Shown
<1>5. NodeSize(gm, tree, t) = sz[t]
  BY <1>1, <1>2 DEF NodeSize, Shown
<1>6. Range(tree[t]) \subseteq FreeChunks
  <2>1. FreeChunks = Frees(gm.mem, Foot(gm)) \ {gm.top}
    BY <1>1, ChunksAre
  <2> QED BY <1>1, <1>4, <2>1 DEF Bare
<1>7. Large(sz[t]) /\ compute_tree_index(sz[t]) = i /\ t = Down(i, sz[t], Len(t))
      /\ (t # <<>> => Front(t) \in DOMAIN tree)
  BY <1>3 DEF Shape
<1>8. minsize_for_tree_index(i) <= sz[t] /\ (i < NTREEBINS - 1 => sz[t] < minsize_for_tree_index(i + 1))
  BY <1>7, LargeIs, IndexInRange
<1>9. sz[t] >= minsize_for_tree_index(i)
  <2>1. sz[t] \in Nat /\ minsize_for_tree_index(i) \in Nat
    BY <1>7, LargeIs, MinSizesGrow DEF TreeBins
  <2> QED BY <1>8, <2>1
<1> QED BY <1>4, <1>5, <1>6, <1>7, <1>8, <1>9

\* The child on the left is smaller.
LEMMA ChildrenAreSorted ==
    ASSUME NEW sz, NEW i \in TreeBins, Shape(sz, i), NEW t \in DOMAIN sz,
           t \o << 0 >> \in DOMAIN sz, t \o << 1 >> \in DOMAIN sz
    PROVE  sz[t \o <<0>>] < sz[t \o <<1>>]
<1>1. PICK u \in DOMAIN sz : u = t \o <<0>>
  OBVIOUS
<1>2. PICK v \in DOMAIN sz : v = t \o <<1>>
  OBVIOUS
<1>3. t \in Places /\ Len(t) \in 0..SIZE_T_BITSIZE
  BY NodeIs
<1>4. /\ Len(u) = Len(t) + 1 /\ u[Len(t) + 1] = 0 /\ \A e \in 1..Len(t) : u[e] = t[e]
      /\ Len(v) = Len(t) + 1 /\ v[Len(t) + 1] = 1 /\ \A e \in 1..Len(t) : v[e] = t[e]
  BY <1>1, <1>2, <1>3, ChildIs
<1>5. /\ Large(sz[u]) /\ compute_tree_index(sz[u]) = i /\ Len(u) \in 0..SIZE_T_BITSIZE
         /\ \A e \in 1..Len(u) : u[e] = SizeBits(i, sz[u])[e]
      /\ Large(sz[v]) /\ compute_tree_index(sz[v]) = i
         /\ \A e \in 1..Len(v) : v[e] = SizeBits(i, sz[v])[e]
  BY NodeIs
<1>6. PICK d \in 0..SIZE_T_BITSIZE - 1 : d = Len(t)
  BY <1>3, <1>4, <1>5, IndexBounds
<1>7. SizeBits(i, sz[u])[d + 1] = 0 /\ SizeBits(i, sz[v])[d + 1] = 1
      /\ \A e \in 1..d : SizeBits(i, sz[u])[e] = SizeBits(i, sz[v])[e]
  BY <1>3, <1>4, <1>5, <1>6
<1>8. sz[u] < sz[v]
  BY <1>5, <1>7, BitsOrder
<1> QED BY <1>1, <1>2, <1>8

\* do_check_tree and do_check_smallbin find every bin in order.
LEMMA IInvSorted == IInv => BinsAreSorted
<1>1. SUFFICES ASSUME IInv PROVE BinsAreSorted
  OBVIOUS
<1>2. PICK X : Whole(gm, X)
  BY <1>1 DEF IInv
<1>3. Laid(gm) /\ SmallStored(gm, X) /\ LargeStored(gm, X) /\ DOMAIN X = Bare(gm, {}) /\ Shown(gm, X)
  BY <1>2, IsWhole DEF Stored
<1>4. /\ gm.smallmap \subseteq MIN_CHUNK_SIZE..Pow2[TREEBIN_SHIFT] - 1
      /\ gm.treemap \subseteq 0..NTREEBINS - 1
  BY <1>3 DEF SmallStored, LargeStored, SmallBins, TreeBins, MIN_LARGE_SIZE
<1>5. FreeChunks = Frees(gm.mem, Foot(gm)) \ {gm.top}
  BY <1>3, ChunksAre
<1>6. \A i \in DOMAIN gm.smallbins :
        /\ gm.smallbins[i] # <<>> <=> i \in gm.smallmap
        /\ \A p \in Range(gm.smallbins[i]) : p \in FreeChunks /\ chunksize(gm, p) = i
  BY <1>3, <1>5 DEF SmallStored, OfSize, Shown, Bare
<1>7. ASSUME NEW i \in DOMAIN gm.treebins, NEW tree, tree = gm.treebins[i]
      PROVE  /\ tree # <<>> <=> i \in gm.treemap
             /\ \A t \in DOMAIN tree : LET s == NodeSize(gm, tree, t) IN
                /\ Range(tree[t]) \subseteq FreeChunks
                /\ \A p \in Range(tree[t]) : chunksize(gm, p) = s
                /\ s >= minsize_for_tree_index(i)
                   /\ (i < NTREEBINS - 1 => s < minsize_for_tree_index(i + 1))
                /\ t = Down(i, s, Len(t))
                /\ t # <<>> => Front(t) \in DOMAIN tree
                /\ {t \o <<0>>, t \o <<1>>} \subseteq DOMAIN tree =>
                    NodeSize(gm, tree, t \o <<0>>) < NodeSize(gm, tree, t \o <<1>>)
  <2>1. i \in TreeBins /\ (tree # <<>> <=> i \in gm.treemap)
    BY <1>3, <1>7 DEF LargeStored
  <2>2. PICK sz : Holds(tree, sz, i, X)
    BY <1>3, <1>7, <2>1 DEF LargeStored, TreeHolds
  <2>3. DOMAIN sz = DOMAIN tree /\ Shape(sz, i)
    BY <2>2 DEF Holds
  <2>4. ASSUME NEW t \in DOMAIN tree
        PROVE  /\ NodeSize(gm, tree, t) = sz[t] /\ Range(tree[t]) \subseteq FreeChunks
               /\ \A p \in Range(tree[t]) : chunksize(gm, p) = sz[t]
               /\ sz[t] >= minsize_for_tree_index(i)
                  /\ (i < NTREEBINS - 1 => sz[t] < minsize_for_tree_index(i + 1))
               /\ t = Down(i, sz[t], Len(t))
               /\ t # <<>> => Front(t) \in DOMAIN tree
    BY <1>2, <2>1, <2>2, NodeIsChecked
  <2>5. ASSUME NEW t \in DOMAIN tree, {t \o << 0 >>, t \o << 1 >>} \subseteq DOMAIN tree
        PROVE  NodeSize(gm, tree, t \o <<0>>) < NodeSize(gm, tree, t \o <<1>>)
    <3>1. sz[t \o <<0>>] < sz[t \o <<1>>]
      BY <2>1, <2>3, <2>5, ChildrenAreSorted
    <3> QED BY <2>4, <2>5, <3>1
  <2> QED BY <2>1, <2>4, <2>5
<1> QED BY <1>4, <1>6, <1>7 DEF BinsAreSorted

------------------------------------------------------------------------------
(* The heap is what the program expects of malloc, realloc and free.          *)

\* The blocks in use and their sizes.
Sizes(m) == [p \in Used(m.mem) |-> m.mem[p].size]

\* The blocks as Heap sees them.
Blocks == [p \in DOMAIN live |-> IF InUse(p) THEN chunksize(gm, p) ELSE 0]

\* What the blocks are in a state with the invariant.
LEMMA BlocksAre ==
    ASSUME IInv
    PROVE  Blocks = Sizes(gm)
<1>1. Laid(gm)
  BY IsWhole DEF IInv
<1>2. ASSUME NEW p \in Used(gm.mem)
      PROVE  InUse(p)
  <2>1. p \in DOMAIN gm.mem \ {Foot(gm)} /\ gm.mem[p].cin
    BY <1>1, UsedIs
  <2> QED BY <2>1 DEF InUse, is_inuse
<1> QED BY <1>2 DEF Blocks, Sizes, chunksize, IInv, LiveAreUsed

\* They are that in the next state too.
LEMMA BlocksAreNext ==
    ASSUME IInv'
    PROVE  Blocks' = Sizes(gm')
<1>1. Laid(gm')
  BY IsWhole DEF IInv
<1>2. ASSUME NEW p \in Used(gm'.mem)
      PROVE  InUse(p)'
  <2>1. p \in DOMAIN gm'.mem \ {Foot(gm')} /\ gm'.mem[p].cin
    BY <1>1, UsedIs
  <2> QED BY <2>1 DEF InUse, is_inuse
<1> QED BY <1>2 DEF Blocks, Sizes, chunksize, IInv, LiveAreUsed

\* Chunks in use do not overlap.
LEMMA SizesAre ==
    ASSUME NEW m, Laid(m)
    PROVE  /\ DOMAIN Sizes(m) = Used(m.mem)
           /\ \A p \in Used(m.mem) : Sizes(m)[p] = m.mem[p].size /\ Sizes(m)[p] > 0
           /\ \A p, q \in Used(m.mem) : p < q => p + Sizes(m)[p] <= q
<1>1. DOMAIN Sizes(m) = Used(m.mem) /\ \A p \in Used(m.mem) : Sizes(m)[p] = m.mem[p].size
  BY DEF Sizes
<1>2. ASSUME NEW p \in Used(m.mem)
      PROVE  p \in DOMAIN m.mem /\ m.mem[p].size > 0
  <2>1. p \in DOMAIN m.mem \ {Foot(m)} /\ m.mem[p].size >= MIN_CHUNK_SIZE
    BY UsedIs
  <2>2. m.mem[p].size \in Nat
    BY <2>1, LaidIs
  <2> QED BY <2>1, <2>2 DEF MIN_CHUNK_SIZE
<1>3. ASSUME NEW p \in Used(m.mem), NEW q \in Used(m.mem), p < q
      PROVE  p + m.mem[p].size <= q
  <2>1. Tiled(m.mem, Foot(m))
    BY LaidIs
  <2> QED BY <1>2, <1>3, <2>1, Apart
<1> QED BY <1>1, <1>2, <1>3

\* The steps of Heap.
LEMMA StepsAre ==
    /\ \A p : H!Alloc(p) <=>
        /\ p \notin DOMAIN Blocks /\ Blocks = [q \in DOMAIN Blocks' \ {p} |-> Blocks'[q]]
        /\ Blocks'[p] > 0
        /\ \A a, b \in DOMAIN Blocks' : a < b => a + Blocks'[a] <= b
    /\ \A p : H!Free(p) <=> Blocks' = [q \in DOMAIN Blocks \ {p} |-> Blocks[q]]
    /\ \A p : H!Resize(p) <=>
        /\ p \in DOMAIN Blocks'
        /\ [q \in DOMAIN Blocks' \ {p} |-> Blocks'[q]] = [q \in DOMAIN Blocks \ {p} |-> Blocks[q]]
        /\ Blocks'[p] > 0
        /\ \A a, b \in DOMAIN Blocks' : a < b => a + Blocks'[a] <= b
    /\ H!Next <=>
        \/ \E p \in DOMAIN Blocks' : H!Alloc(p)
        \/ \E p \in DOMAIN Blocks : H!Free(p) \/ H!Resize(p) \/ \E q \in DOMAIN Blocks' : H!Move(p, q)
    /\ H!Init <=> Blocks = <<>>
<1>1. \A p : H!Alloc(p) <=>
        /\ p \notin DOMAIN Blocks /\ Blocks = [q \in DOMAIN Blocks' \ {p} |-> Blocks'[q]]
        /\ Blocks'[p] > 0
        /\ \A a, b \in DOMAIN Blocks' : a < b => a + Blocks'[a] <= b
  BY DEF H!Alloc, H!Without, H!Disjoint, Blocks
<1>2. \A p : H!Free(p) <=> Blocks' = [q \in DOMAIN Blocks \ {p} |-> Blocks[q]]
  BY DEF H!Free, H!Without, Blocks
<1>3. \A p : H!Resize(p) <=>
        /\ p \in DOMAIN Blocks'
        /\ [q \in DOMAIN Blocks' \ {p} |-> Blocks'[q]] = [q \in DOMAIN Blocks \ {p} |-> Blocks[q]]
        /\ Blocks'[p] > 0
        /\ \A a, b \in DOMAIN Blocks' : a < b => a + Blocks'[a] <= b
  BY DEF H!Resize, H!Without, H!Disjoint, Blocks
<1>4. H!Next <=>
        \/ \E p \in DOMAIN Blocks' : H!Alloc(p)
        \/ \E p \in DOMAIN Blocks : H!Free(p) \/ H!Resize(p) \/ \E q \in DOMAIN Blocks' : H!Move(p, q)
  BY DEF H!Next, Blocks
<1>5. H!Init <=> Blocks = <<>>
  BY DEF H!Init, Blocks
<1> QED BY <1>1, <1>2, <1>3, <1>4, <1>5

\* A block that is moved.
LEMMA MoveIs ==
    ASSUME NEW p, NEW q
    PROVE  H!Move(p, q) <=>
        LET both == [r \in DOMAIN Blocks \cup {q} |-> IF r = q THEN Blocks'[q] ELSE Blocks[r]] IN
        /\ q \notin DOMAIN Blocks
        /\ [r \in DOMAIN Blocks' \ {q} |-> Blocks'[r]] = [r \in DOMAIN Blocks \ {p} |-> Blocks[r]]
        /\ Blocks'[q] > 0
        /\ \A a, b \in DOMAIN both : a < b => a + both[a] <= b
BY DEF H!Move, H!Without, H!Disjoint, Blocks

\* A step that gives a block is Alloc, or changes nothing.
LEMMA MallocAllocs ==
    ASSUME IInv, IInv', NEW nb \in Requests, Malloc(nb)
    PROVE  Blocks' = Blocks \/ H!Next
<1>1. PICK res \in dlmalloc(gm, nb) : gm' = res.m
  BY DEF Malloc
<1>2. PICK X : Whole(gm, X)
  BY DEF IInv
<1>3. Answered(gm, res, nb)
  BY <1>2, RequestIs, Dlmalloc
<1>4. Blocks = Sizes(gm) /\ Blocks' = Sizes(gm')
  BY BlocksAre, BlocksAreNext
<1>5. CASE res = Result(gm, NULL)
  <2>1. gm' = gm
    BY <1>1, <1>5 DEF Result
  <2> QED BY <1>4, <2>1
<1>6. CASE Served(gm, res, nb)
  <2>1. PICK p : p = res.p
    OBVIOUS
  <2>2. Laid(gm) /\ Laid(gm')
    BY <1>1, <1>2, <1>6, IsWhole DEF Served
  <2>3. /\ p \notin Used(gm.mem) /\ Used(gm'.mem) = Used(gm.mem) \cup {p}
        /\ \A q \in Used(gm.mem) : gm'.mem[q].size = gm.mem[q].size
    BY <1>1, <1>6, <2>1 DEF Served, Gives
  <2>4. /\ DOMAIN Blocks = Used(gm.mem) /\ DOMAIN Blocks' = Used(gm'.mem)
        /\ \A q \in Used(gm.mem) : Blocks[q] = gm.mem[q].size
        /\ \A q \in Used(gm'.mem) : Blocks'[q] = gm'.mem[q].size
        /\ Blocks'[p] > 0
        /\ \A a, b \in DOMAIN Blocks' : a < b => a + Blocks'[a] <= b
    BY <1>4, <2>2, <2>3, SizesAre
  <2>5. Blocks = [q \in DOMAIN Blocks' \ {p} |-> Blocks'[q]]
    <3>1. Blocks = [q \in Used(gm.mem) |-> gm.mem[q].size]
      BY <1>4 DEF Sizes
    <3>2. DOMAIN Blocks' \ {p} = Used(gm.mem)
      BY <2>3, <2>4
    <3>3. [q \in DOMAIN Blocks' \ {p} |-> Blocks'[q]] = [q \in Used(gm.mem) |-> gm.mem[q].size]
      BY <2>3, <2>4, <3>2
    <3> QED BY <3>1, <3>3
  <2>6. H!Alloc(p)
    BY <2>3, <2>4, <2>5, StepsAre
  <2> QED BY <2>3, <2>4, <2>6, StepsAre
<1> QED BY <1>3, <1>5, <1>6 DEF Answered

\* dlfree is Free of Heap.
LEMMA FreeFrees ==
    ASSUME IInv, IInv', NEW p \in DOMAIN live, Free(p)
    PROVE  H!Next
<1>1. PICK X : Whole(gm, X)
  BY DEF IInv
<1>2. p \in Used(gm.mem)
  BY DEF IInv, LiveAreUsed
<1>3. Returns(gm, gm', p)
  BY <1>1, <1>2, Dlfree DEF Free
<1>4. Blocks = Sizes(gm) /\ Blocks' = Sizes(gm')
  BY BlocksAre, BlocksAreNext
<1>5. DOMAIN Blocks = Used(gm.mem)
  BY <1>4 DEF Sizes
<1>6. Blocks' = [q \in DOMAIN Blocks \ {p} |-> Blocks[q]]
  BY <1>3, <1>4, <1>5 DEF Returns, Sizes
<1> QED BY <1>2, <1>5, <1>6, StepsAre

\* A block that is resized where it is.
LEMMA BlockResizes ==
    ASSUME IInv, IInv', NEW p, NEW nb, Resizes(gm, gm', p, nb)
    PROVE  H!Next
<1>1. /\ p \in Used(gm.mem) /\ Used(gm'.mem) = Used(gm.mem)
      /\ \A q \in Used(gm.mem) \ {p} : gm'.mem[q].size = gm.mem[q].size
  BY DEF Resizes
<1>2. Laid(gm')
  BY IsWhole DEF IInv
<1>3. Blocks = Sizes(gm) /\ Blocks' = Sizes(gm')
  BY BlocksAre, BlocksAreNext
<1>4. /\ DOMAIN Blocks' = Used(gm'.mem) /\ Blocks'[p] > 0
      /\ \A a, b \in DOMAIN Blocks' : a < b => a + Blocks'[a] <= b
  BY <1>1, <1>2, <1>3, SizesAre
<1>5. [q \in DOMAIN Blocks' \ {p} |-> Blocks'[q]] = [q \in DOMAIN Blocks \ {p} |-> Blocks[q]]
  <2>1. [q \in DOMAIN Blocks \ {p} |-> Blocks[q]] = [q \in Used(gm.mem) \ {p} |-> gm.mem[q].size]
    BY <1>3 DEF Sizes
  <2>2. [q \in DOMAIN Blocks' \ {p} |-> Blocks'[q]] = [q \in Used(gm'.mem) \ {p} |-> gm'.mem[q].size]
    BY <1>3 DEF Sizes
  <2>3. [q \in Used(gm'.mem) \ {p} |-> gm'.mem[q].size] = [q \in Used(gm.mem) \ {p} |-> gm.mem[q].size]
    BY <1>1
  <2> QED BY <2>1, <2>2, <2>3
<1>6. H!Resize(p)
  BY <1>1, <1>4, <1>5, StepsAre
<1>7. p \in DOMAIN Blocks
  BY <1>1, <1>3 DEF Sizes
<1> QED BY <1>6, <1>7, StepsAre

\* A block that is moved to a new chunk.
LEMMA BlockMoves ==
    ASSUME IInv, IInv', NEW p, NEW q, NEW nb, Moves(gm, gm', p, q, nb)
    PROVE  H!Next
<1>1. PICK v : (\E Y : Whole(v, Y)) /\ Gives(gm, v, q, nb) /\ Returns(v, gm', p)
  BY DEF Moves
<1>2. /\ p \in Used(gm.mem) /\ q \notin Used(gm.mem) /\ p # q
      /\ Used(gm'.mem) = (Used(gm.mem) \ {p}) \cup {q}
      /\ \A a \in Used(gm.mem) \ {p, q} : gm'.mem[a].size = gm.mem[a].size
  BY MovesIs
<1>3. Laid(v) /\ Laid(gm')
  BY <1>1, IsWhole DEF IInv
<1>4. /\ Used(v.mem) = Used(gm.mem) \cup {q} /\ \A a \in Used(gm.mem) : v.mem[a].size = gm.mem[a].size
      /\ gm'.mem[q].size = v.mem[q].size
  BY <1>1, <1>2 DEF Gives, Returns
<1>5. Blocks = Sizes(gm) /\ Blocks' = Sizes(gm')
  BY BlocksAre, BlocksAreNext
<1>6. DOMAIN Blocks = Used(gm.mem) /\ \A a \in Used(gm.mem) : Blocks[a] = gm.mem[a].size
  BY <1>5 DEF Sizes
<1>7. q \in DOMAIN Blocks' /\ Blocks'[q] = gm'.mem[q].size /\ Blocks'[q] > 0
  BY <1>2, <1>3, <1>5, SizesAre
<1> DEFINE both == [r \in DOMAIN Blocks \cup {q} |-> IF r = q THEN Blocks'[q] ELSE Blocks[r]]
<1>8. both = Sizes(v)
  <2>1. DOMAIN Blocks \cup {q} = Used(v.mem)
    BY <1>4, <1>6
  <2>2. \A r \in Used(v.mem) : (IF r = q THEN Blocks'[q] ELSE Blocks[r]) = v.mem[r].size
    BY <1>4, <1>6, <1>7
  <2> QED BY <2>1, <2>2 DEF Sizes
<1>9. \A a, b \in DOMAIN both : a < b => a + both[a] <= b
  <2> HIDE DEF both
  <2> QED BY <1>3, <1>8, SizesAre
<1>10. [r \in DOMAIN Blocks' \ {q} |-> Blocks'[r]] = [r \in DOMAIN Blocks \ {p} |-> Blocks[r]]
  <2>1. [r \in DOMAIN Blocks \ {p} |-> Blocks[r]] = [r \in Used(gm.mem) \ {p} |-> gm.mem[r].size]
    BY <1>5 DEF Sizes
  <2>2. [r \in DOMAIN Blocks' \ {q} |-> Blocks'[r]] = [r \in Used(gm'.mem) \ {q} |-> gm'.mem[r].size]
    BY <1>5 DEF Sizes
  <2>3. Used(gm'.mem) \ {q} = Used(gm.mem) \ {p}
    BY <1>2
  <2>4. [r \in Used(gm'.mem) \ {q} |-> gm'.mem[r].size] = [r \in Used(gm.mem) \ {p} |-> gm.mem[r].size]
    BY <1>2, <2>3
  <2> QED BY <2>1, <2>2, <2>4
<1>11. H!Move(p, q)
  BY <1>2, <1>6, <1>7, <1>9, <1>10, MoveIs
<1> QED BY <1>2, <1>6, <1>7, <1>11, StepsAre

\* dlrealloc is Realloc of Heap.
LEMMA ReallocMoves ==
    ASSUME IInv, IInv', NEW p \in DOMAIN live, NEW nb \in Requests, Realloc(p, nb)
    PROVE  Blocks' = Blocks \/ H!Next
<1>1. PICK res \in dlrealloc(gm, p, nb) : gm' = res.m
  BY DEF Realloc
<1>2. PICK X : Whole(gm, X)
  BY DEF IInv
<1>3. p \in Used(gm.mem)
  BY DEF IInv, LiveAreUsed
<1>4. \/ res = Result(gm, NULL)
      \/ Resizes(gm, gm', p, nb)
      \/ Moves(gm, gm', p, res.p, nb)
  BY <1>1, <1>2, <1>3, RequestIs, Dlrealloc
<1>5. CASE res = Result(gm, NULL)
  <2>1. gm' = gm
    BY <1>1, <1>5 DEF Result
  <2> QED BY <2>1, BlocksAre, BlocksAreNext
<1> QED BY <1>4, <1>5, BlockResizes, BlockMoves

\* Every step is one of Heap's.
LEMMA NextIsHeap ==
    ASSUME IInv, IInv', [Next]_vars
    PROVE  Blocks' = Blocks \/ H!Next
<1>1. CASE UNCHANGED vars
  BY <1>1 DEF vars, Blocks, InUse, is_inuse, chunksize
<1>2. CASE Next
  BY <1>2, MallocAllocs, FreeFrees, ReallocMoves DEF Next
<1> QED BY <1>1, <1>2

\* dlmalloc, dlrealloc and dlfree do what their callers expect (Heap): blocks never overlap, and
\* nothing but a call for a block resizes, moves or ends it.
THEOREM HeapKeepsItsPromise == Spec => HeapPromise
<1>1. Init => H!Init
  <2>1. Init => Blocks = <<>>
    BY DEF Init, Blocks
  <2> QED BY <2>1, StepsAre
<1>2. IInv /\ IInv' /\ [Next]_vars => [H!Next]_Blocks
  BY NextIsHeap
<1>3. Spec => []IInv
  BY HeapIsWhole
<1> QED BY <1>1, <1>2, <1>3, PTL DEF Spec, HeapPromise, H!Spec, Blocks

------------------------------------------------------------------------------
(* A large request gets the smallest chunk that is large enough.              *)

\* A remainder that is smaller.
LEMMA SmallRemainder ==
    ASSUME NEW c \in Nat \ {0}, NEW a \in Nat, a < c
    PROVE  a % c = a
OBVIOUS

\* A chunk that is too small has a remainder that is larger than any.
LEMMA MinusOfLess ==
    ASSUME NEW a \in Nat, NEW b \in Nat, b <= a, a <= MAX_SIZE_T
    PROVE  Minus(a, b) = a - b
<1> DEFINE c == MAX_SIZE_T + 1
           d == a - b
<1>1. c \in Nat \ {0} /\ d \in Nat /\ d < c
  BY SmallIs
<1>2. Minus(a, b) = d % c
  BY DEF Minus
<1> HIDE DEF c, d
<1>3. Minus(a, b) = d
  BY <1>1, <1>2, SmallRemainder
<1> QED BY <1>3 DEF d

\* tmalloc_large takes the least chunk that fits of those in the trees, dv being none of them or larger;
\* it takes none when none fits or dv is not larger.
LEMMA TmallocLargeIsBest ==
    ASSUME NEW m, NEW X, Whole(m, X), NEW nb, Large(nb), NEW r, r = tmalloc_large(m, nb)
    PROVE  /\ r.p = NULL => \A q \in DOMAIN X : nb <= X[q] => nb <= m.dvsize /\ m.dvsize <= X[q]
           /\ r.p # NULL => /\ r.p \in DOMAIN X /\ nb <= X[r.p] /\ (nb <= m.dvsize => X[r.p] <= m.dvsize)
                            /\ \A q \in DOMAIN X : nb <= X[q] => X[r.p] <= X[q]
<1> DEFINE F == large_fits(m, nb)
           v == Smallest(m, F)
           l == split_large(m, v, nb, insert_chunk)
           none == chunksize(m, v) - nb >= Minus(m.dvsize, nb)
<1>1. /\ F = {} \/ none => r.p = NULL
      /\ ~(F = {} \/ none) => r = l
  BY DEF tmalloc_large, Result
<1>2. Stored(m, X) /\ Shown(m, X) /\ Laid(m) /\ DvIs(m)
      /\ \A q \in DOMAIN X : X[q] \in MIN_CHUNK_SIZE..MAX_SIZE_T
  BY DEF Whole, Kept, Stored
<1>3. /\ \A p \in F : p \in DOMAIN X /\ Large(X[p]) /\ nb <= X[p]
      /\ \A q \in DOMAIN X : nb <= X[q] => \E p \in F : X[p] <= X[q]
  BY <1>2, LargeFitsAre
<1>4. nb \in Nat /\ nb <= MAX_SIZE_T /\ nb >= MIN_CHUNK_SIZE /\ MAX_SIZE_T \in Nat
  BY SmallIs DEF Large, MIN_CHUNK_SIZE
<1>5. m.dvsize \in Nat /\ m.dvsize <= MAX_SIZE_T /\ \A q \in DOMAIN X : X[q] \in Nat
      /\ X[q] <= MAX_SIZE_T
  BY <1>2, DvIsEmpty DEF MIN_CHUNK_SIZE
<1> HIDE DEF F
<1>6. ASSUME F # {}
      PROVE  /\ v \in DOMAIN X /\ Large(X[v]) /\ nb <= X[v] /\ chunksize(m, v) = X[v]
             /\ \A q \in DOMAIN X : nb <= X[q] => X[v] <= X[q]
  <2>1. F \subseteq DOMAIN X
    BY <1>3
  <2>2. v \in F /\ \A q \in F : X[v] <= X[q]
    BY <1>2, <1>6, <2>1, SmallestIs
  <2> HIDE DEF v
  <2>3. v \in DOMAIN X /\ Large(X[v]) /\ nb <= X[v] /\ chunksize(m, v) = X[v]
    BY <1>2, <1>3, <2>2 DEF Shown
  <2>4. ASSUME NEW q \in DOMAIN X, nb <= X[q]
        PROVE  X[v] <= X[q]
    <3>1. PICK p \in F : X[p] <= X[q]
      BY <1>3, <2>4
    <3>2. p \in DOMAIN X /\ X[v] <= X[p]
      BY <2>1, <2>2
    <3> QED BY <1>5, <2>3, <3>1, <3>2
  <2> QED BY <2>3, <2>4
<1> HIDE DEF v, none
<1>7. nb <= m.dvsize => Minus(m.dvsize, nb) = m.dvsize - nb
  BY <1>4, <1>5, MinusOfLess
<1>8. ASSUME r.p = NULL, NEW q \in DOMAIN X, nb <= X[q]
      PROVE  nb <= m.dvsize /\ m.dvsize <= X[q]
  <2>1. F # {}
    BY <1>3, <1>8
  <2>2. v \in DOMAIN X /\ Large(X[v]) /\ nb <= X[v] /\ X[v] <= X[q] /\ chunksize(m, v) = X[v]
    BY <1>6, <1>8, <2>1
  <2>3. none
    <3>1. SUFFICES ASSUME ~none PROVE FALSE
      OBVIOUS
    <3>2. r = l
      BY <1>1, <2>1, <3>1
    <3>3. Gives(m, l.m, l.p, nb)
      BY <1>4, <2>2, SplitLargeBinned
    <3> HIDE DEF l
    <3> QED BY <1>8, <3>2, <3>3 DEF Gives
  <2>4. X[v] - nb >= Minus(m.dvsize, nb)
    BY <2>2, <2>3 DEF none
  <2>5. nb <= m.dvsize
    <3>1. SUFFICES ASSUME m.dvsize < nb PROVE FALSE
      BY <1>4, <1>5
    <3>2. Minus(m.dvsize, nb) = m.dvsize - nb + MAX_SIZE_T + 1
      BY <1>4, <1>5, <3>1, MinusIs
    <3> QED BY <1>4, <1>5, <2>2, <2>4, <3>2
  <2> QED BY <1>4, <1>5, <1>7, <2>2, <2>4, <2>5
<1>9. ASSUME r.p # NULL
      PROVE  /\ r.p \in DOMAIN X /\ nb <= X[r.p] /\ (nb <= m.dvsize => X[r.p] <= m.dvsize)
             /\ \A q \in DOMAIN X : nb <= X[q] => X[r.p] <= X[q]
  <2>1. F # {} /\ ~none /\ r = l
    BY <1>1, <1>9
  <2>2. v \in DOMAIN X /\ Large(X[v]) /\ nb <= X[v] /\ chunksize(m, v) = X[v]
        /\ \A q \in DOMAIN X : nb <= X[q] => X[v] <= X[q]
    BY <1>6, <2>1
  <2>3. l.p = v
    BY <1>4, <2>2, SplitLargeBinned
  <2>4. r.p = v
    <3> HIDE DEF l
    <3> QED BY <2>1, <2>3
  <2>5. nb <= m.dvsize => X[v] <= m.dvsize
    <3>1. ~(X[v] - nb >= Minus(m.dvsize, nb))
      BY <2>1, <2>2 DEF none
    <3> QED BY <1>4, <1>5, <1>7, <2>2, <3>1
  <2> QED BY <2>2, <2>4, <2>5
<1> QED BY <1>8, <1>9

\* The free chunks but top that are large enough.
Fits(m, nb) == {q \in Frees(m.mem, Foot(m)) \ {m.top} : m.mem[q].size >= nb}

\* A large request that dlmalloc serves gets a chunk of the least size that fits.
LEMMA LargeRequestIsBest ==
    ASSUME NEW m, NEW X, Whole(m, X), NEW nb \in MIN_CHUNK_SIZE..MAX_SIZE_T, ~is_small(nb),
           NEW r \in dlmalloc(m, nb),
           Fits(m, nb) # {}
    PROVE  r.p \in Fits(m, nb) /\ \A q \in Fits(m, nb) : m.mem[r.p].size <= m.mem[q].size
<1>1. /\ Laid(m) /\ DvIs(m) /\ Stored(m, X) /\ Shown(m, X)
      /\ DOMAIN X = Frees(m.mem, Foot(m)) \ {m.top, m.dv}
  BY IsWhole DEF Bare
<1>2. Large(nb) /\ nb \in Nat /\ nb >= MIN_CHUNK_SIZE /\ nb # 0
  BY SmallIs DEF MIN_CHUNK_SIZE
<1>3. /\ m.dvsize \in Nat /\ (m.dvsize = 0 <=> m.dv = NULL)
      /\ m.dv # NULL => m.dv \in Frees(m.mem, Foot(m)) /\ m.dv # m.top /\ m.dvsize = m.mem[m.dv].size
  BY <1>1, DvIsEmpty
<1>4. \A q \in DOMAIN X : X[q] = m.mem[q].size /\ X[q] \in Nat
  BY <1>1, SmallIs DEF Shown, chunksize, Stored
<1>5. nb <= m.dvsize => m.dv \in Fits(m, nb)
  BY <1>2, <1>3 DEF Fits
<1>6. \A q \in DOMAIN X : nb <= X[q] <=> q \in Fits(m, nb)
  BY <1>1, <1>2, <1>4 DEF Fits
<1>7. \A q \in Fits(m, nb) : (q \in DOMAIN X /\ nb <= X[q]) \/ (q = m.dv /\ nb <= m.dvsize)
  <2>1. ASSUME NEW q \in Fits(m, nb), q = m.dv
        PROVE  nb <= m.dvsize
    <3>1. q # NULL
      BY <1>1, <2>1, FreeSize DEF Fits
    <3> QED BY <1>2, <1>3, <2>1, <3>1 DEF Fits
  <2> QED BY <1>1, <1>6, <2>1 DEF Fits
<1> DEFINE found == nb # MAX_SIZE_T /\ m.treemap # {} /\ tmalloc_large(m, nb).p # NULL
<1>8. r \in IF found THEN {tmalloc_large(m, nb)} ELSE from_the_rest(m, nb)
  BY DEF dlmalloc
<1>9. CASE found
  <2>1. r = tmalloc_large(m, nb) /\ r.p # NULL
    BY <1>8, <1>9
  <2>2. /\ r.p \in DOMAIN X /\ nb <= X[r.p] /\ (nb <= m.dvsize => X[r.p] <= m.dvsize)
        /\ \A q \in DOMAIN X : nb <= X[q] => X[r.p] <= X[q]
    BY <1>2, <2>1, TmallocLargeIsBest
  <2>3. ASSUME NEW q \in Fits(m, nb)
        PROVE  X[r.p] <= m.mem[q].size
    BY <1>3, <1>4, <1>7, <1>2, <2>2
  <2> QED BY <1>4, <1>6, <2>2, <2>3
<1>10. CASE ~found
  <2>1. r \in from_the_rest(m, nb)
    <3> HIDE DEF found
    <3> QED BY <1>8, <1>10
  <2>2. ASSUME NEW q \in DOMAIN X, nb <= X[q]
        PROVE  nb <= m.dvsize /\ m.dvsize <= X[q]
    <3>1. CASE nb = MAX_SIZE_T
      BY <1>1, <1>4, <2>2, <3>1, BelowMax
    <3>2. CASE m.treemap = {}
      <4>1. \A i \in m.smallmap : i < nb
        BY <1>1, <1>2, SmallIs DEF Stored, SmallStored, SmallBins, Large
      <4>2. X[q] < nb
        BY <1>2, <3>2, <4>1, NoneFits
      <4> QED BY <1>2, <1>4, <2>2, <4>2
    <3>3. CASE tmalloc_large(m, nb).p = NULL
      BY <1>2, <2>2, <3>3, TmallocLargeIsBest
    <3> QED BY <1>10, <3>1, <3>2, <3>3
  <2>3. nb <= m.dvsize
    BY <1>7, <2>2
  <2>4. r = split_dv(m, nb)
    BY <2>1, <2>3 DEF from_the_rest
  <2>5. r.p = m.dv
    BY <2>4 DEF split_dv, Result
  <2>6. m.dv \in Fits(m, nb) /\ m.dvsize = m.mem[m.dv].size
    BY <1>2, <1>3, <1>5, <2>3
  <2>7. ASSUME NEW q \in Fits(m, nb)
        PROVE  m.dvsize <= m.mem[q].size
    BY <1>3, <1>4, <1>7, <2>2, <2>6, <2>7
  <2> QED BY <2>5, <2>6, <2>7
<1> QED BY <1>9, <1>10

------------------------------------------------------------------------------
(* The theorems.                                                              *)

\* A step that adds a block is Malloc.
LEMMA AddedByMalloc ==
    ASSUME IInv, [Next]_vars, NEW p \in DOMAIN live', p \notin DOMAIN live,
           DOMAIN live' = DOMAIN live \cup {p}
    PROVE  \E nb \in Requests : \E r \in dlmalloc(gm, nb) :
              r.p = p /\ gm' = r.m /\ live'[p] = nb
<1>1. ~(UNCHANGED vars)
  BY DEF vars
<1>2. ASSUME NEW a \in DOMAIN live, Free(a)
      PROVE  FALSE
  BY <1>2 DEF Free, Restrict
<1>3. ASSUME NEW a \in DOMAIN live, NEW nb \in Requests, Realloc(a, nb)
      PROVE  FALSE
  <2>1. PICK res \in dlrealloc(gm, a, nb) :
          live' = IF res.p = NULL THEN live ELSE With(Restrict(live, DOMAIN live \ {a}), res.p, nb)
    BY <1>3 DEF Realloc
  <2>2. res.p # NULL
    BY <2>1
  <2>3. DOMAIN live' = (DOMAIN live \ {a}) \cup {res.p}
    BY <2>1, <2>2 DEF With, Restrict
  <2>4. a = res.p
    BY <1>3, <2>3
  <2> QED BY <1>3, <2>3, <2>4
<1>4. PICK nb \in Requests : Malloc(nb)
  BY <1>1, <1>2, <1>3 DEF Next
<1>5. PICK res \in dlmalloc(gm, nb) :
        /\ gm' = res.m
        /\ live' = IF res.p = NULL THEN live
                   ELSE With(live, res.p, IF res.p \in DOMAIN live THEN Twice ELSE nb)
  BY <1>4 DEF Malloc
<1>6. res.p # NULL
  BY <1>5
<1>7. DOMAIN live' = DOMAIN live \cup {res.p}
  BY <1>5, <1>6 DEF With
<1>8. res.p = p
  BY <1>7
<1>9. live'[p] = nb
  BY <1>5, <1>6, <1>8 DEF With
<1> QED BY <1>5, <1>8, <1>9

\* A step that serves a large request serves it with such a chunk.
LEMMA BestFitStep ==
    ASSUME IInv, [Next]_vars, NEW p \in DOMAIN live',
           DOMAIN live' = DOMAIN live \cup {p}, p \notin DOMAIN live, ~is_small(live'[p]),
           NEW fits, fits = {q \in FreeChunks : chunksize(gm, q) >= live'[p] /\ (is_small(chunksize(gm, q)) => q = gm.dv)},
           fits # {}
    PROVE  p \in fits /\ \A q \in fits : chunksize(gm, p) <= chunksize(gm, q)
<1>1. PICK nb \in Requests : \E r \in dlmalloc(gm, nb) : r.p = p /\ gm' = r.m /\ live'[p] = nb
  BY AddedByMalloc
<1>2. PICK r \in dlmalloc(gm, nb) : r.p = p /\ live'[p] = nb
  BY <1>1
<1>3. PICK X : Whole(gm, X)
  BY DEF IInv
<1>4. nb \in MIN_CHUNK_SIZE..MAX_SIZE_T /\ nb \in Nat /\ ~is_small(nb)
  BY <1>2, RequestIs
<1>5. FreeChunks = Frees(gm.mem, Foot(gm)) \ {gm.top} /\ Laid(gm)
  BY <1>3, IsWhole, ChunksAre
<1>6. ASSUME NEW q \in Frees(gm.mem, Foot(gm)), gm.mem[q].size >= nb
      PROVE  ~is_small(gm.mem[q].size)
  <2>1. gm.mem[q].size \in Nat
    BY <1>5, FreeSize
  <2> QED BY <1>4, <1>6, <2>1, SmallIs DEF is_small, MIN_LARGE_SIZE
<1>7. fits = Fits(gm, nb)
  BY <1>2, <1>5, <1>6 DEF Fits, chunksize
<1>8. p \in Fits(gm, nb) /\ \A q \in Fits(gm, nb) : gm.mem[p].size <= gm.mem[q].size
  BY <1>2, <1>3, <1>4, <1>7, LargeRequestIsBest
<1> QED BY <1>7, <1>8 DEF chunksize

\* What do_check_tree and do_check_smallbin assert of the bins is so in every reachable state.
THEOREM BinsStaySorted == Spec => []BinsAreSorted
BY HeapIsWhole, IInvSorted, PTL

\* What traverse_and_check asserts of the segments is so in every reachable state.
THEOREM ChunksStayTiled == Spec => []ChunksTileSegments
BY HeapIsWhole, IInvTiles, PTL

\* The chunks in use are those of the live blocks: none is lost, and none is given twice.
THEOREM NothingLeaks == Spec => []InUseIsLive
BY HeapIsWhole, IInvInUse, PTL

\* dlmalloc and dlrealloc return NULL only when neither a free chunk nor top is large enough.
THEOREM RefusedOnlyWhenFull == Spec => []RefusedWhenFull
BY HeapIsWhole, IInvRefused, PTL

\* dlmalloc serves a large request from the best fitting chunk, as the comment on tmalloc_large says.
THEOREM LargeRequestsFitBest == Spec => BestFit
<1> DEFINE Best == \A p \in DOMAIN live' :
      DOMAIN live' = DOMAIN live \cup {p} /\ p \notin DOMAIN live /\ ~is_small(live'[p]) =>
        LET fits == {q \in FreeChunks : chunksize(gm, q) >= live'[p] /\ (is_small(chunksize(gm, q)) => q = gm.dv)}
        IN  fits # {} => p \in fits /\ \A q \in fits : chunksize(gm, p) <= chunksize(gm, q)
<1>1. IInv /\ [Next]_vars => [Best]_vars
  BY BestFitStep
<1>2. Spec => []IInv
  BY HeapIsWhole
<1> QED BY <1>1, <1>2, PTL DEF Spec, BestFit, Best
================================================================================
