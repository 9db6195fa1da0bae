----------------------------- MODULE DlMallocLemmas ----------------------------
(* Lemmas about the heap, for any bins, width of size_t, granularity and      *)
(* places of memory: what its operators do to the bins and to the memory.     *)
(*   - The bins (of DlBins): a smallbin is the chunks of one size, and a tree *)
(*     keeps each size at the place that its bits lead to.  What the bins     *)
(*     keep is given by size, as X; what joins and leaves them, and what a    *)
(*     search of them finds.                                                  *)
(*   - The memory (of DlMalloc) is Laid: its heads agree with their           *)
(*     neighbours, top ends before its foot, the segments hold whole chunks   *)
(*     and each older one ends in one fencepost.  A stretch of chunks becomes *)
(*     one chunk or two, its heads are what the operators on heads write, and *)
(*     the kinds of all others stay.                                          *)
(* DlMallocProofs proves with these what every operation does.                *)
EXTENDS DlMalloc, FiniteSetTheorems, SequenceTheorems, WellFoundedInduction, TLAPS

------------------------------------------------------------------------------
(* Induction over numbers, and a sequence joined to another.                   *)

LEMMA LeastNumber ==
    ASSUME NEW T, T \subseteq Nat, T # {}
    PROVE  \E x \in T : \A y \in T : x <= y
<1>1. \E x \in T : \A y \in T : <<y, x>> \notin OpToRel(<, Nat)
  BY NatLessThanWellFounded, WFMin
<1>2. \E x \in T : \A y \in T : ~(y < x)
  BY <1>1 DEF OpToRel
<1> QED BY <1>2

\* Induction, with the set of the numbers for which a statement holds.
LEMMA Inductive ==
    ASSUME NEW S, 0 \in S, \A n \in Nat : n \in S => n + 1 \in S
    PROVE  Nat \subseteq S
<1> SUFFICES ASSUME Nat \ S # {} PROVE FALSE
  OBVIOUS
<1>1. PICK x \in Nat \ S : \A y \in Nat \ S : x <= y
  BY LeastNumber
<1>2. x # 0 /\ x - 1 \in Nat /\ ~(x <= x - 1) /\ (x - 1) + 1 = x
  BY <1>1
<1> QED BY <1>1, <1>2

LEMMA MinOf ==
    ASSUME NEW T, T \subseteq Nat, T # {}
    PROVE  Min(T) \in T /\ \A y \in T : Min(T) <= y
BY LeastNumber DEF Min

LEMMA ConcatElements ==
    ASSUME NEW S, NEW a \in Seq(S), NEW b \in Seq(S)
    PROVE  /\ a \o b \in Seq(S) /\ Len(a \o b) = Len(a) + Len(b)
           /\ \A m \in 1..Len(a) : (a \o b)[m] = a[m]
           /\ \A m \in 1..Len(b) : (a \o b)[Len(a) + m] = b[m]
<1>1. a \o b \in Seq(S) /\ Len(a \o b) = Len(a) + Len(b) /\ Len(a) \in Nat /\ Len(b) \in Nat
  OBVIOUS
<1>2. \A i \in 1..Len(a) + Len(b) : (a \o b)[i] = IF i <= Len(a) THEN a[i] ELSE b[i - Len(a)]
  OBVIOUS
<1>3. ASSUME NEW m \in 1..Len(a) PROVE (a \o b)[m] = a[m]
  <2>1. m \in 1..Len(a) + Len(b) /\ m <= Len(a)
    BY <1>1
  <2> QED BY <1>2, <2>1
<1>4. ASSUME NEW m \in 1..Len(b) PROVE (a \o b)[Len(a) + m] = b[m]
  <2>1. /\ Len(a) + m \in 1..Len(a) + Len(b) /\ ~(Len(a) + m <= Len(a))
        /\ (Len(a) + m) - Len(a) = m
    BY <1>1
  <2> QED BY <1>2, <2>1
<1> QED BY <1>1, <1>3, <1>4

------------------------------------------------------------------------------
(* Powers of two, and the sizes that a treebin is for.                        *)

MIN_LARGE_SIZE == Pow2[TREEBIN_SHIFT]

\* A set has as many subsets with a new element as without it.
LEMMA PowersDouble ==
    ASSUME NEW n \in Nat
    PROVE  2 ^ n \in Nat /\ 2 ^ (n + 1) = 2 * 2 ^ n
<1> DEFINE Without == SUBSET (1..n)
           WithOne == {s \cup {n + 1} : s \in Without}
           f == [s \in Without |-> s \cup {n + 1}]
<1>1. /\ IsFiniteSet(1..n) /\ Cardinality(1..n) = n
      /\ IsFiniteSet(1..n + 1) /\ Cardinality(1..n + 1) = n + 1
  BY FS_Interval
<1>2. IsFiniteSet(Without) /\ Cardinality(Without) = 2 ^ n /\ Cardinality(Without) \in Nat
  BY <1>1, FS_SUBSET, FS_CardinalityType
<1>3. Cardinality(SUBSET (1..n + 1)) = 2 ^ (n + 1)
  BY <1>1, FS_SUBSET
<1>4. n + 1 \notin 1..n
  OBVIOUS
<1>5. f \in Bijection(Without, WithOne)
  <2>1. f \in [Without -> WithOne]
    OBVIOUS
  <2>2. \A s, t \in Without : f[s] = f[t] => s = t
    BY <1>4
  <2>3. \A u \in WithOne : \E s \in Without : f[s] = u
    OBVIOUS
  <2> HIDE DEF f, Without, WithOne
  <2> QED BY <2>1, <2>2, <2>3 DEF Bijection, Injection, Surjection, IsInjective
<1>6. IsFiniteSet(WithOne) /\ Cardinality(WithOne) = Cardinality(Without)
  <2> HIDE DEF f, Without, WithOne
  <2> QED BY <1>2, <1>5, FS_Bijection DEF ExistsBijection
<1>7. Without \cap WithOne = {}
  BY <1>4
<1>8. SUBSET (1..n + 1) = Without \cup WithOne
  <2>1. \A s \in Without : s \in SUBSET (1..n + 1) /\ s \cup {n + 1} \in SUBSET (1..n + 1)
    OBVIOUS
  <2>2. ASSUME NEW t \in SUBSET (1..n + 1), n + 1 \notin t PROVE t \in Without
    BY <2>2
  <2>3. ASSUME NEW t \in SUBSET (1..n + 1), n + 1 \in t PROVE t \in WithOne
    <3>1. t \ {n + 1} \in Without /\ t = (t \ {n + 1}) \cup {n + 1}
      BY <2>3
    <3> QED BY <3>1
  <2>4. Without \cup WithOne \subseteq SUBSET (1..n + 1)
    <3>1. Without \subseteq SUBSET (1..n + 1)
      BY <2>1
    <3>2. ASSUME NEW u \in WithOne PROVE u \in SUBSET (1..n + 1)
      <4>1. PICK s \in Without : u = s \cup {n + 1}
        OBVIOUS
      <4> QED BY <2>1, <4>1
    <3> HIDE DEF Without, WithOne
    <3> QED BY <3>1, <3>2
  <2>5. SUBSET (1..n + 1) \subseteq Without \cup WithOne
    <3> HIDE DEF Without, WithOne
    <3> QED BY <2>2, <2>3
  <2> HIDE DEF Without, WithOne
  <2> QED BY <2>4, <2>5
<1>9. Cardinality(Without \cup WithOne) = Cardinality(Without) + Cardinality(WithOne) - 0
  <2> HIDE DEF Without, WithOne
  <2> QED BY <1>2, <1>6, <1>7, FS_Union, FS_EmptySet
<1>10. \A c \in Nat : c + c - 0 = 2 * c
  OBVIOUS
<1> HIDE DEF Without, WithOne
<1>11. Cardinality(Without) + Cardinality(WithOne) - 0 = 2 * Cardinality(Without)
  BY <1>2, <1>6, <1>10, Zenon
<1> QED BY <1>2, <1>3, <1>8, <1>9, <1>11, Zenon

\* Each power is twice the one before it.
LEMMA Pow2Step ==
    /\ Pow2[0] = 1
    /\ \A n \in 0..SIZE_T_BITSIZE : Pow2[n] \in Nat \ {0}
    /\ \A n \in 0..SIZE_T_BITSIZE - 1 : Pow2[n + 1] = 2 * Pow2[n]
<1>1. SIZE_T_BITSIZE \in Nat
  BY BinsAssumption
<1>2. Pow2[0] = 1
  <2>1. Pow2[0] = 2 ^ 0
    BY <1>1 DEF Pow2
  <2>2. 2 ^ 0 = 1
    OBVIOUS
  <2> QED BY <2>1, <2>2, Zenon
<1>3. \A n \in 0..SIZE_T_BITSIZE - 1 : Pow2[n + 1] = 2 * Pow2[n]
  <2> SUFFICES ASSUME NEW n \in 0..SIZE_T_BITSIZE - 1 PROVE Pow2[n + 1] = 2 * Pow2[n]
    OBVIOUS
  <2>1. n \in Nat /\ n \in 0..SIZE_T_BITSIZE /\ n + 1 \in 0..SIZE_T_BITSIZE
    BY <1>1
  <2>2. Pow2[n] = 2 ^ n /\ Pow2[n + 1] = 2 ^ (n + 1)
    BY <2>1, Zenon DEF Pow2
  <2> QED BY <2>1, <2>2, PowersDouble, Zenon
<1>4. \A n \in 0..SIZE_T_BITSIZE : Pow2[n] \in Nat \ {0}
  <2> DEFINE S == {n \in Nat : n <= SIZE_T_BITSIZE => Pow2[n] \in Nat \ {0}}
  <2>1. 0 \in S
    BY <1>2
  <2>2. ASSUME NEW n \in Nat, n \in S PROVE n + 1 \in S
    BY <1>1, <1>3, <2>2
  <2>3. Nat \subseteq S
    <3> HIDE DEF S
    <3> QED BY <2>1, <2>2, Inductive
  <2> QED BY <2>3, <1>1
<1> QED BY <1>2, <1>3, <1>4

\* How many bits, bins and sizes there are.
LEMMA IndexBounds ==
    /\ SIZE_T_BITSIZE \in Nat /\ TREEBIN_SHIFT \in Nat /\ TREEBIN_SHIFT >= 2
    /\ NTREEBINS \div 2 \in Nat \ {0} /\ NTREEBINS = 2 * (NTREEBINS \div 2)
    /\ SIZE_T_BITSIZE > TREEBIN_SHIFT + NTREEBINS \div 2
BY BinsAssumption

\* Powers grow with their exponents.
LEMMA Pow2Grows ==
    ASSUME NEW a \in 0..SIZE_T_BITSIZE, NEW b \in 0..SIZE_T_BITSIZE, a <= b
    PROVE  Pow2[a] <= Pow2[b]
<1> DEFINE S == {n \in Nat : a + n <= SIZE_T_BITSIZE => Pow2[a] <= Pow2[a + n]}
<1>1. 0 \in S
  BY Pow2Step, IndexBounds
<1>2. ASSUME NEW n \in Nat, n \in S PROVE n + 1 \in S
  <2> SUFFICES ASSUME a + (n + 1) <= SIZE_T_BITSIZE PROVE Pow2[a] <= Pow2[a + (n + 1)]
    OBVIOUS
  <2>1. /\ a + n \in 0..SIZE_T_BITSIZE - 1 /\ a + n \in 0..SIZE_T_BITSIZE /\ (a + n) + 1 = a + (n + 1)
        /\ a + n <= SIZE_T_BITSIZE
    BY IndexBounds
  <2>2. Pow2[a + (n + 1)] = 2 * Pow2[a + n]
    BY <2>1, Pow2Step
  <2>3. Pow2[a] <= Pow2[a + n]
    BY <1>2, <2>1
  <2>4. Pow2[a + n] \in Nat /\ Pow2[a] \in Nat
    BY <2>1, Pow2Step
  <2> QED BY <2>2, <2>3, <2>4
<1>3. Nat \subseteq S
  <2> HIDE DEF S
  <2> QED BY <1>1, <1>2, Inductive
<1>4. b - a \in Nat /\ a + (b - a) = b /\ b <= SIZE_T_BITSIZE
  OBVIOUS
<1>5. b - a \in S
  BY <1>3, <1>4
<1> QED BY <1>4, <1>5

\* A quotient of numbers.
LEMMA Divided ==
    ASSUME NEW a \in Nat, NEW b \in Nat \ {0}
    PROVE  /\ a \div b \in Nat /\ b * (a \div b) <= a /\ a < b * (a \div b) + b
OBVIOUS

\* What \div and % say of a number.
LEMMA DivisionIs ==
    ASSUME NEW a \in Nat, NEW b \in Nat \ {0}, NEW q \in Nat, b * q <= a, a < b * q + b
    PROVE  a \div b = q
OBVIOUS

\* The last binary digit of a quotient.
LEMMA Halved ==
    ASSUME NEW a \in Nat, NEW b \in Nat \ {0}
    PROVE  /\ a \div b = 2 * (a \div (2 * b)) + ((a \div b) % 2)
           /\ (a \div b) % 2 \in {0, 1}
<1> DEFINE q == a \div b
<1>1. q \in Nat /\ b * q <= a /\ a < b * q + b
  BY Divided
<1> HIDE DEF q
<1>2. PICK h \in Nat, r \in {0, 1} : q = 2 * h + r /\ q % 2 = r
  <2>1. q \div 2 \in Nat /\ q % 2 \in {0, 1} /\ q = 2 * (q \div 2) + (q % 2)
    BY <1>1
  <2> QED BY <2>1
<1>3. b * q = (2 * b) * h + b * r
  BY <1>2
<1>4. b * r <= b
  BY <1>2
<1>5. (2 * b) * h <= a /\ a < (2 * b) * h + 2 * b
  BY <1>1, <1>2, <1>3, <1>4
<1>6. a \div (2 * b) = h
  BY <1>5, DivisionIs
<1> QED BY <1>2, <1>6 DEF q

\* A division keeps the order.
LEMMA QuotientsGrow ==
    ASSUME NEW a \in Nat, NEW c \in Nat, NEW b \in Nat \ {0}
    PROVE  /\ a <= c => a \div b <= c \div b
           /\ a \div b < c \div b => a < c
OBVIOUS

\* The largest number of a bounded set with something in it is there.
LEMMA MaxUpTo ==
    ASSUME NEW N \in Nat, NEW s, s \subseteq 0..N, s # {}
    PROVE  Max(s) \in s /\ \A y \in s : Max(s) >= y
<1> DEFINE T == {n \in Nat : N - n \in s}
<1>1. T \subseteq Nat /\ T # {}
  <2>1. PICK x \in s : TRUE
    OBVIOUS
  <2>2. N - x \in Nat /\ N - (N - x) = x
    BY <2>1
  <2> QED BY <2>1, <2>2
<1>2. PICK m \in T : \A y \in T : m <= y
  BY <1>1, LeastNumber
<1>3. N - m \in s
  OBVIOUS
<1>4. ASSUME NEW y \in s PROVE N - m >= y
  <2>1. N - y \in Nat /\ N - (N - y) = y
    OBVIOUS
  <2>2. N - y \in T
    BY <2>1
  <2>3. m <= N - y /\ y \in Nat
    <3> HIDE DEF T
    <3> QED BY <1>2, <2>2
  <2>4. m \in Nat
    OBVIOUS
  <2> QED BY <2>3, <2>4
<1>5. \E x \in s : \A y \in s : x >= y
  BY <1>3, <1>4
<1> QED BY <1>5 DEF Max

\* A power of a sum is a product.
LEMMA Pow2Sum ==
    ASSUME NEW a \in 0..SIZE_T_BITSIZE, NEW b \in 0..SIZE_T_BITSIZE, a + b <= SIZE_T_BITSIZE
    PROVE  Pow2[a + b] = Pow2[a] * Pow2[b]
<1> DEFINE S == {n \in Nat : a + n <= SIZE_T_BITSIZE => Pow2[a + n] = Pow2[a] * Pow2[n]}
<1>1. 0 \in S
  BY Pow2Step, IndexBounds
<1>2. ASSUME NEW n \in Nat, n \in S PROVE n + 1 \in S
  <2> SUFFICES ASSUME a + (n + 1) <= SIZE_T_BITSIZE PROVE Pow2[a + (n + 1)] = Pow2[a] * Pow2[n + 1]
    OBVIOUS
  <2>1. /\ a + n \in 0..SIZE_T_BITSIZE - 1 /\ n \in 0..SIZE_T_BITSIZE - 1 /\ (a + n) + 1 = a + (n + 1)
        /\ a + n <= SIZE_T_BITSIZE
        /\ n \in 0..SIZE_T_BITSIZE
    BY IndexBounds
  <2>2. Pow2[a + (n + 1)] = 2 * Pow2[a + n] /\ Pow2[n + 1] = 2 * Pow2[n]
    BY <2>1, Pow2Step
  <2>3. Pow2[a + n] = Pow2[a] * Pow2[n] /\ Pow2[a] \in Nat /\ Pow2[n] \in Nat
    BY <1>2, <2>1, Pow2Step
  <2> QED BY <2>2, <2>3
<1>3. Nat \subseteq S
  <2> HIDE DEF S
  <2> QED BY <1>1, <1>2, Inductive
<1> QED BY <1>3, IndexBounds

\* What the sizes of a bin of index 2 k + r are.
LEMMA MinSizes ==
    ASSUME NEW k \in Nat, k < NTREEBINS \div 2, NEW r \in {0, 1}
    PROVE  /\ 2 * k + r \in 0..NTREEBINS - 1
           /\ (2 * k + r) \div 2 = k /\ (2 * k + r) % 2 = r
           /\ k + TREEBIN_SHIFT - 1 \in 0..SIZE_T_BITSIZE - 1
           /\ minsize_for_tree_index(2 * k + r) = (2 + r) * Pow2[k + TREEBIN_SHIFT - 1]
           /\ 2 * k + r < NTREEBINS - 1 =>
                minsize_for_tree_index(2 * k + r + 1) = (3 + r) * Pow2[k + TREEBIN_SHIFT - 1]
<1> DEFINE e == k + TREEBIN_SHIFT - 1
<1>1. 2 * k + r \in 0..NTREEBINS - 1
  BY IndexBounds
<1>2. (2 * k + r) \div 2 = k /\ (2 * k + r) % 2 = r
  OBVIOUS
<1>3. /\ e \in 0..SIZE_T_BITSIZE - 1 /\ e + 1 = k + TREEBIN_SHIFT /\ e + 1 \in 0..SIZE_T_BITSIZE - 1
      /\ e \in 0..SIZE_T_BITSIZE
  BY IndexBounds
<1>4. Pow2[e + 1] = 2 * Pow2[e] /\ Pow2[e] \in Nat
  BY <1>3, Pow2Step
<1>5. minsize_for_tree_index(2 * k + r) = (2 + r) * Pow2[e]
  <2>1. minsize_for_tree_index(2 * k + r) = Pow2[e + 1] + r * Pow2[e]
    BY <1>2, <1>3 DEF minsize_for_tree_index
  <2> QED BY <2>1, <1>4
<1>6. ASSUME 2 * k + r < NTREEBINS - 1 PROVE minsize_for_tree_index(2 * k + r + 1) = (3 + r) * Pow2[e]
  <2>1. CASE r = 0
    <3>1. 2 * k + r + 1 = 2 * k + 1 /\ (2 * k + 1) \div 2 = k /\ (2 * k + 1) % 2 = 1
      BY <2>1
    <3>2. minsize_for_tree_index(2 * k + 1) = Pow2[e + 1] + 1 * Pow2[e]
      BY <3>1, <1>3 DEF minsize_for_tree_index
    <3> QED BY <3>1, <3>2, <1>4, <2>1
  <2>2. CASE r = 1
    <3>1. 2 * k + r + 1 = 2 * (k + 1) /\ (2 * (k + 1)) \div 2 = k + 1 /\ (2 * (k + 1)) % 2 = 0
      BY <2>2
    <3>2. minsize_for_tree_index(2 * (k + 1)) = Pow2[e + 1 + 1] + 0 * Pow2[e + 1]
      <4>1. k + 1 + TREEBIN_SHIFT = e + 1 + 1 /\ k + 1 + TREEBIN_SHIFT - 1 = e + 1
        BY IndexBounds
      <4> HIDE DEF e
      <4> QED BY <3>1, <4>1 DEF minsize_for_tree_index
    <3>3. Pow2[e + 1 + 1] = 2 * Pow2[e + 1]
      BY <1>3, Pow2Step
    <3> QED BY <3>1, <3>2, <3>3, <1>4, <2>2
  <2> QED BY <2>1, <2>2
<1> QED BY <1>1, <1>2, <1>3, <1>5, <1>6

\* An index is an even number and one bit.
LEMMA IndexHalves ==
    ASSUME NEW i \in 0..NTREEBINS - 1
    PROVE  \E k \in Nat, r \in {0, 1} : k < NTREEBINS \div 2 /\ i = 2 * k + r
<1>1. i \div 2 \in Nat /\ i % 2 \in {0, 1} /\ i = 2 * (i \div 2) + (i % 2)
  BY IndexBounds
<1>2. i \div 2 < NTREEBINS \div 2
  BY <1>1, IndexBounds
<1> QED BY <1>1, <1>2

\* The bin of a size is the one of its range.
LEMMA IndexInRange ==
    ASSUME NEW s \in Nat, s >= MIN_LARGE_SIZE
    PROVE  LET i == compute_tree_index(s) IN
           /\ i \in 0..NTREEBINS - 1
           /\ minsize_for_tree_index(i) <= s
           /\ i < NTREEBINS - 1 => s < minsize_for_tree_index(i + 1)
<1> DEFINE P == Pow2[TREEBIN_SHIFT]
           n == NTREEBINS \div 2
           x == s \div P
           K == {j \in 0..SIZE_T_BITSIZE : Pow2[j] <= x}
           k == Max(K)
           i == compute_tree_index(s)
<1>1. TREEBIN_SHIFT \in 0..SIZE_T_BITSIZE /\ P \in Nat \ {0} /\ n \in 0..SIZE_T_BITSIZE
  BY IndexBounds, Pow2Step
<1>2. x \in Nat /\ P * x <= s /\ s < P * x + P
  BY <1>1, Divided
<1>3. x >= 1
  BY <1>1, <1>2 DEF MIN_LARGE_SIZE
<1>4. CASE x >= Pow2[n]
  <2>1. i = NTREEBINS - 1
    BY <1>3, <1>4 DEF compute_tree_index
  <2>2. n - 1 \in Nat /\ n - 1 < n /\ NTREEBINS - 1 = 2 * (n - 1) + 1
    BY IndexBounds
  <2> DEFINE e == n - 1 + TREEBIN_SHIFT - 1
  <2>3. minsize_for_tree_index(NTREEBINS - 1) = (2 + 1) * Pow2[e] /\ e \in 0..SIZE_T_BITSIZE - 1
    BY <2>2, MinSizes
  <2>4. Pow2[n + TREEBIN_SHIFT] = 4 * Pow2[e] /\ Pow2[e] \in Nat
    <3>1. e + 1 \in 0..SIZE_T_BITSIZE - 1 /\ e + 1 + 1 = n + TREEBIN_SHIFT /\ e \in 0..SIZE_T_BITSIZE
      BY IndexBounds
    <3> QED BY <3>1, <2>3, Pow2Step
  <2>5. Pow2[n + TREEBIN_SHIFT] = Pow2[n] * P
    BY <1>1, IndexBounds, Pow2Sum
  <2>6. Pow2[n] * P <= P * x
    BY <1>1, <1>2, <1>4, Pow2Step
  <2> HIDE DEF x, e, P, n
  <2>7. 4 * Pow2[e] <= s
    <3>1. P * x \in Nat
      BY <1>1, <1>2
    <3> QED BY <1>2, <2>4, <2>5, <2>6, <3>1
  <2>8. i \in 0..NTREEBINS - 1 /\ minsize_for_tree_index(i) <= s
    BY <2>1, <2>3, <2>4, <2>7, IndexBounds
  <2> QED BY <2>1, <2>8
<1>5. CASE x < Pow2[n]
  <2>1. K \subseteq 0..SIZE_T_BITSIZE /\ 0 \in K
    BY <1>2, <1>3, Pow2Step, IndexBounds
  <2>2. k \in K /\ \A y \in K : k >= y
    BY <2>1, MaxUpTo, IndexBounds
  <2>3. k \in 0..SIZE_T_BITSIZE /\ Pow2[k] <= x
    BY <2>2
  <2>4. k < n
    <3> SUFFICES ASSUME n <= k PROVE FALSE
      BY <2>3, <1>1
    <3>1. Pow2[n] <= Pow2[k] /\ Pow2[n] \in Nat /\ Pow2[k] \in Nat
      BY <2>3, <1>1, Pow2Grows, Pow2Step
    <3> QED BY <3>1, <2>3, <1>5, <1>2
  <2>5. x < Pow2[k + 1]
    <3>1. k + 1 \in 0..SIZE_T_BITSIZE
      BY <2>3, <2>4, <1>1, IndexBounds
    <3>2. k + 1 \notin K
      BY <2>2, <2>3
    <3> QED BY <3>1, <3>2, <1>2, Pow2Step
  <2> DEFINE e == k + TREEBIN_SHIFT - 1
             b == Pow2[e]
             r == (s \div b) % 2
  <2>6. i = 2 * k + r
    BY <1>3, <1>5, <1>2, Pow2Step, <1>1 DEF compute_tree_index
  <2> HIDE DEF K, x, i, n, P
  <2> HIDE DEF k
  <2>7. /\ e \in 0..SIZE_T_BITSIZE - 1 /\ e \in 0..SIZE_T_BITSIZE /\ e + 1 = k + TREEBIN_SHIFT
        /\ e + 1 \in 0..SIZE_T_BITSIZE - 1 /\ e + 1 \in 0..SIZE_T_BITSIZE
    BY <2>3, <2>4, IndexBounds DEF n
  <2>8. b \in Nat \ {0} /\ Pow2[k + TREEBIN_SHIFT] = 2 * b /\ Pow2[k + 1 + TREEBIN_SHIFT] = 4 * b
    <3>1. e + 1 + 1 = k + 1 + TREEBIN_SHIFT
      BY <2>3, IndexBounds
    <3> QED BY <3>1, <2>7, Pow2Step
  <2>9. Pow2[k + TREEBIN_SHIFT] = Pow2[k] * P /\ Pow2[k + 1 + TREEBIN_SHIFT] = Pow2[k + 1] * P
    <3>1. /\ k + 1 \in 0..SIZE_T_BITSIZE /\ k + 1 + TREEBIN_SHIFT <= SIZE_T_BITSIZE
          /\ k + TREEBIN_SHIFT <= SIZE_T_BITSIZE
      BY <2>3, <2>4, IndexBounds DEF n
    <3> QED BY <3>1, <2>3, <1>1, Pow2Sum DEF P
  <2>10. Pow2[k] \in Nat /\ Pow2[k + 1] \in Nat
    <3>1. k + 1 \in 0..SIZE_T_BITSIZE
      BY <2>3, <2>4, IndexBounds DEF n
    <3> QED BY <3>1, <2>3, Pow2Step
  <2>11. 2 * b <= s
    <3>1. Pow2[k] * P <= P * x
      BY <2>3, <2>10, <1>1, <1>2
    <3> QED BY <3>1, <1>2, <2>8, <2>9, <2>10, <1>1
  <2>12. s < 4 * b
    <3>1. x + 1 <= Pow2[k + 1]
      BY <2>5, <2>10, <1>2
    <3>2. P * (x + 1) <= Pow2[k + 1] * P
      BY <3>1, <2>10, <1>1, <1>2
    <3>3. P * (x + 1) = P * x + P
      BY <1>1, <1>2
    <3> HIDE DEF b, e
    <3>4. s < Pow2[k + 1] * P
      BY <3>2, <3>3, <1>1, <1>2, <2>10
    <3> QED BY <3>4, <2>8, <2>9
  <2>13. r \in {0, 1} /\ (2 + r) * b <= s /\ s < (3 + r) * b
    <3> HIDE DEF b
    <3> DEFINE q == s \div b
    <3>1. q \in Nat /\ b * q <= s /\ s < b * q + b
      BY <2>8, Divided
    <3> HIDE DEF q
    <3>2. q < 4
      <4> SUFFICES ASSUME q >= 4 PROVE FALSE
        BY <3>1
      <4>1. b * 4 <= b * q
        BY <3>1, <2>8
      <4> QED BY <4>1, <3>1, <2>8, <2>12
    <3>3. q >= 2
      <4> SUFFICES ASSUME q <= 1 PROVE FALSE
        BY <3>1
      <4>1. b * q + b <= b * 2
        BY <3>1, <2>8
      <4> QED BY <4>1, <3>1, <2>8, <2>11
    <3>4. q \in {2, 3}
      BY <3>1, <3>2, <3>3
    <3>5. r = q % 2
      BY DEF q
    <3>6. CASE q = 2
      BY <3>1, <3>5, <3>6, <2>8
    <3>7. CASE q = 3
      BY <3>1, <3>5, <3>7, <2>8
    <3> QED BY <3>4, <3>6, <3>7
  <2> HIDE DEF r, b
  <2>14. k \in Nat /\ k < NTREEBINS \div 2
    BY <2>3, <2>4 DEF n
  <2>15. /\ 2 * k + r \in 0..NTREEBINS - 1
         /\ minsize_for_tree_index(2 * k + r) = (2 + r) * b
         /\ 2 * k + r < NTREEBINS - 1 => minsize_for_tree_index(2 * k + r + 1) = (3 + r) * b
    BY <2>13, <2>14, MinSizes DEF b
  <2>16. i = 2 * k + r => LET j == i IN
           /\ j \in 0..NTREEBINS - 1
           /\ minsize_for_tree_index(j) <= s
           /\ j < NTREEBINS - 1 => s < minsize_for_tree_index(j + 1)
    BY <2>13, <2>15
  <2> QED BY <2>6, <2>16 DEF i
<1> QED
  <2>1. Pow2[n] \in Nat
    BY <1>1, Pow2Step
  <2> HIDE DEF x, n
  <2>2. x >= Pow2[n] \/ x < Pow2[n]
    BY <2>1, <1>2
  <2> QED BY <2>2, <1>4, <1>5

------------------------------------------------------------------------------
(* The bits that a treebin sorts by.                                          *)

\* The ranges of the treebins do not overlap: minsize_for_tree_index grows.
LEMMA MinSizesGrow ==
    ASSUME NEW i \in 0..NTREEBINS - 1, NEW j \in 0..NTREEBINS - 1, i <= j
    PROVE  /\ minsize_for_tree_index(i) \in Nat /\ minsize_for_tree_index(j) \in Nat
           /\ minsize_for_tree_index(i) <= minsize_for_tree_index(j)
<1>1. PICK k \in Nat, r \in {0, 1} : k < NTREEBINS \div 2 /\ i = 2 * k + r
  BY IndexHalves
<1>2. PICK l \in Nat, q \in {0, 1} : l < NTREEBINS \div 2 /\ j = 2 * l + q
  BY IndexHalves
<1> DEFINE e == k + TREEBIN_SHIFT - 1
           f == l + TREEBIN_SHIFT - 1
<1>3. /\ e \in 0..SIZE_T_BITSIZE - 1 /\ minsize_for_tree_index(i) = (2 + r) * Pow2[e]
      /\ f \in 0..SIZE_T_BITSIZE - 1 /\ minsize_for_tree_index(j) = (2 + q) * Pow2[f]
  BY <1>1, <1>2, MinSizes
<1>4. Pow2[e] \in Nat /\ Pow2[f] \in Nat
  BY <1>3, Pow2Step, IndexBounds
<1>5. k < l \/ (k = l /\ r <= q)
  BY <1>1, <1>2
<1>6. CASE k < l
  <2>1. e + 1 \in 0..SIZE_T_BITSIZE /\ f \in 0..SIZE_T_BITSIZE /\ e + 1 <= f
    BY <1>1, <1>2, <1>3, <1>6, IndexBounds
  <2>2. 2 * Pow2[e] <= Pow2[f]
    BY <2>1, <1>3, Pow2Step, Pow2Grows
  <2> HIDE DEF e, f
  <2>3. (2 + r) * Pow2[e] <= (2 + q) * Pow2[f]
    <3>1. (2 + r) * Pow2[e] <= 3 * Pow2[e] /\ 2 * Pow2[f] <= (2 + q) * Pow2[f]
      BY <1>1, <1>2, <1>4
    <3> QED BY <3>1, <2>2, <1>4, <1>1, <1>2
  <2> QED BY <2>3, <1>3, <1>4, <1>1, <1>2
<1>7. CASE k = l /\ r <= q
  <2>1. e = f
    BY <1>7
  <2> HIDE DEF e, f
  <2> QED BY <2>1, <1>3, <1>4, <1>1, <1>2, <1>7
<1> QED BY <1>5, <1>6, <1>7

\* Larger sizes do not have smaller bins.
LEMMA IndexGrows ==
    ASSUME NEW s \in Nat, NEW t \in Nat, MIN_LARGE_SIZE <= s, s <= t
    PROVE  compute_tree_index(s) <= compute_tree_index(t)
<1> DEFINE i == compute_tree_index(s)
           j == compute_tree_index(t)
<1>0. MIN_LARGE_SIZE \in Nat
  BY Pow2Step, IndexBounds DEF MIN_LARGE_SIZE
<1>1. i \in 0..NTREEBINS - 1 /\ minsize_for_tree_index(i) <= s
  BY IndexInRange
<1>2. j \in 0..NTREEBINS - 1 /\ (j < NTREEBINS - 1 => t < minsize_for_tree_index(j + 1))
  BY <1>0, IndexInRange
<1> HIDE DEF i, j
<1>3. SUFFICES ASSUME j < i PROVE FALSE
  BY <1>1, <1>2 DEF i, j
<1>4. j + 1 \in 0..NTREEBINS - 1 /\ j + 1 <= i
  BY <1>1, <1>2, <1>3, IndexBounds
<1>5. minsize_for_tree_index(j + 1) <= minsize_for_tree_index(i)
      /\ minsize_for_tree_index(j + 1) \in Nat /\ minsize_for_tree_index(i) \in Nat
  BY <1>1, <1>4, MinSizesGrow
<1> QED BY <1>1, <1>2, <1>3, <1>4, <1>5, IndexBounds

\* A size that a treebin is for.
Large(s) == s \in MIN_LARGE_SIZE..MAX_SIZE_T
Bit(i) == bit_for_tree_index(i)

\* What there is to know of such a size.
LEMMA LargeIs ==
    ASSUME NEW s, Large(s)
    PROVE  /\ s \in Nat /\ MIN_LARGE_SIZE <= s /\ s < Pow2[SIZE_T_BITSIZE] /\ Pow2[SIZE_T_BITSIZE] \in Nat
           /\ MIN_LARGE_SIZE \in Nat
BY Pow2Step, IndexBounds DEF Large, MIN_LARGE_SIZE, MAX_SIZE_T

\* A bit is 0 or 1.
LEMMA BitIs ==
    ASSUME NEW i \in 0..NTREEBINS - 1
    PROVE  Bit(i) \in 0..SIZE_T_BITSIZE - 1
<1>1. PICK k \in Nat, r \in {0, 1} : k < NTREEBINS \div 2 /\ i = 2 * k + r
  BY IndexHalves
<1>2. i \div 2 = k
  BY <1>1
<1> QED BY <1>1, <1>2, IndexBounds DEF Bit, bit_for_tree_index

\* The sizes of a bin agree in what is before the bits that it sorts by.
LEMMA SameBefore ==
    ASSUME NEW s, NEW t, Large(s), Large(t), compute_tree_index(s) = compute_tree_index(t)
    PROVE  s \div Pow2[Bit(compute_tree_index(s)) + 1] = t \div Pow2[Bit(compute_tree_index(s)) + 1]
<1> DEFINE i == compute_tree_index(s)
           j == compute_tree_index(t)
<1>1. s \in Nat /\ t \in Nat /\ MIN_LARGE_SIZE <= s /\ MIN_LARGE_SIZE <= t
  BY LargeIs
<1>2. /\ i \in 0..NTREEBINS - 1 /\ minsize_for_tree_index(i) <= s
      /\ i < NTREEBINS - 1 => s < minsize_for_tree_index(i + 1)
  BY <1>1, IndexInRange
<1>3. /\ minsize_for_tree_index(j) <= t
      /\ j < NTREEBINS - 1 => t < minsize_for_tree_index(j + 1)
  BY <1>1, IndexInRange
<1> HIDE DEF i, j
<1>4. i = j
  BY DEF i, j
<1>5. CASE i = NTREEBINS - 1
  <2>1. Bit(i) + 1 = SIZE_T_BITSIZE
    BY <1>5, IndexBounds DEF Bit, bit_for_tree_index
  <2>2. s < Pow2[SIZE_T_BITSIZE] /\ t < Pow2[SIZE_T_BITSIZE] /\ Pow2[SIZE_T_BITSIZE] \in Nat \ {0}
    BY LargeIs
  <2>3. s \div Pow2[SIZE_T_BITSIZE] = 0 /\ t \div Pow2[SIZE_T_BITSIZE] = 0
    BY <1>1, <2>2
  <2> QED BY <2>1, <2>3 DEF i
<1>6. CASE i # NTREEBINS - 1
  <2>1. PICK k \in Nat, r \in {0, 1} : k < NTREEBINS \div 2 /\ i = 2 * k + r
    BY <1>2, IndexHalves
  <2> DEFINE e == k + TREEBIN_SHIFT - 1
             b == Pow2[e]
  <2>2. /\ e \in 0..SIZE_T_BITSIZE - 1 /\ i \div 2 = k /\ minsize_for_tree_index(i) = (2 + r) * b
        /\ minsize_for_tree_index(i + 1) = (3 + r) * b
    BY <2>1, <1>2, <1>6, MinSizes, IndexBounds
  <2>3. Bit(i) + 1 = e
    BY <2>1, <2>2, <1>6, IndexBounds DEF Bit, bit_for_tree_index
  <2>4. b \in Nat \ {0}
    BY <2>2, Pow2Step, IndexBounds
  <2> HIDE DEF b, e
  <2>5. ASSUME NEW u \in Nat, (2 + r) * b <= u, u < (3 + r) * b PROVE u \div b = 2 + r
    <3>1. 2 + r \in Nat /\ b * (2 + r) <= u /\ u < b * (2 + r) + b
      BY <2>1, <2>4, <2>5
    <3> QED BY <3>1, <2>4, DivisionIs
  <2>6. s \div b = 2 + r /\ t \div b = 2 + r
    BY <1>1, <1>2, <1>3, <1>4, <1>6, <2>2, <2>5, IndexBounds
  <2> QED BY <2>3, <2>6 DEF i, b
<1> QED BY <1>5, <1>6

\* A bit that the tree of a bin sorts by is a digit of the size.
LEMMA SizeBitIs ==
    ASSUME NEW i \in 0..NTREEBINS - 1, NEW s \in Nat, NEW d \in 1..SIZE_T_BITSIZE
    PROVE  /\ SizeBits(i, s)[d] = IF d > Bit(i) + 1 THEN 0 ELSE (s \div Pow2[Bit(i) + 1 - d]) % 2
           /\ SizeBits(i, s)[d] \in {0, 1}
<1>1. Bit(i) \in 0..SIZE_T_BITSIZE - 1
  BY BitIs
<1>2. d \in Nat /\ Bit(i) - d + 1 = Bit(i) + 1 - d /\ (Bit(i) - d + 1 < 0 <=> d > Bit(i) + 1)
  BY <1>1, IndexBounds
<1>3. SizeBits(i, s)[d] = IF d > Bit(i) + 1 THEN 0 ELSE (s \div Pow2[Bit(i) + 1 - d]) % 2
  BY <1>2 DEF SizeBits, Bit
<1>4. ASSUME d <= Bit(i) + 1 PROVE (s \div Pow2[Bit(i) + 1 - d]) % 2 \in {0, 1}
  <2>1. Bit(i) + 1 - d \in 0..SIZE_T_BITSIZE
    BY <1>1, <1>2, <1>4, IndexBounds
  <2> QED BY <2>1, Pow2Step, Halved
<1> QED BY <1>1, <1>2, <1>3, <1>4

SameAbove(s, t, e) == s \div Pow2[e] = t \div Pow2[e]

\* Sizes of a bin that agree in the first bits agree in all that is before the next one.
LEMMA SameSoFar ==
    ASSUME NEW s, NEW t, Large(s), Large(t), NEW i, i = compute_tree_index(s),
           i = compute_tree_index(t),
           NEW d \in 0..SIZE_T_BITSIZE, d <= Bit(i) + 1,
           \A e \in 1..d : SizeBits(i, s)[e] = SizeBits(i, t)[e]
    PROVE  SameAbove(s, t, Bit(i) + 1 - d)
<1>0. s \in Nat /\ t \in Nat /\ i \in 0..NTREEBINS - 1 /\ SIZE_T_BITSIZE \in Nat
  BY LargeIs, IndexInRange, IndexBounds
<1>1. Bit(i) \in 0..SIZE_T_BITSIZE - 1
  BY <1>0, BitIs
<1> DEFINE S == {n \in Nat : n <= d => s \div Pow2[Bit(i) + 1 - n] = t \div Pow2[Bit(i) + 1 - n]}
<1>2. 0 \in S
  <2>1. s \div Pow2[Bit(i) + 1] = t \div Pow2[Bit(i) + 1]
    BY SameBefore
  <2>2. Bit(i) + 1 - 0 = Bit(i) + 1
    BY <1>1
  <2> QED BY <2>1, <2>2
<1>3. ASSUME NEW n \in Nat, n \in S PROVE n + 1 \in S
  <2> SUFFICES ASSUME n + 1 <= d
               PROVE  s \div Pow2[Bit(i) + 1 - (n + 1)] = t \div Pow2[Bit(i) + 1 - (n + 1)]
    OBVIOUS
  <2> DEFINE e == Bit(i) + 1 - (n + 1)
             b == Pow2[e]
  <2>1. /\ e \in 0..SIZE_T_BITSIZE - 1 /\ e \in 0..SIZE_T_BITSIZE /\ e + 1 = Bit(i) + 1 - n
        /\ n + 1 \in 1..SIZE_T_BITSIZE /\ n + 1 \in 1..d
        /\ ~(n + 1 > Bit(i) + 1) /\ n <= d
    BY <1>0, <1>1
  <2>2. b \in Nat \ {0} /\ Pow2[Bit(i) + 1 - n] = 2 * b
    BY <2>1, Pow2Step
  <2>3. SizeBits(i, s)[n + 1] = (s \div b) % 2 /\ SizeBits(i, t)[n + 1] = (t \div b) % 2
    BY <2>1, <1>0, SizeBitIs
  <2>4. (s \div b) % 2 = (t \div b) % 2
    BY <2>1, <2>3
  <2>5. s \div (2 * b) = t \div (2 * b)
    BY <1>3, <2>1, <2>2
  <2>6. /\ s \div b = 2 * (s \div (2 * b)) + ((s \div b) % 2)
        /\ t \div b = 2 * (t \div (2 * b)) + ((t \div b) % 2)
    BY <1>0, <2>2, Halved
  <2> HIDE DEF b
  <2>7. s \div b = t \div b
    BY <2>4, <2>5, <2>6
  <2> QED BY <2>7 DEF b
<1>4. Nat \subseteq S
  <2> HIDE DEF S
  <2> QED BY <1>2, <1>3, Inductive
<1>5. d \in S
  BY <1>4, <1>0
<1> QED BY <1>5, <1>0 DEF SameAbove

\* Sizes of a bin that agree in all bits are equal.
LEMMA BitsDecide ==
    ASSUME NEW s, NEW t, Large(s), Large(t), NEW i, i = compute_tree_index(s),
           i = compute_tree_index(t),
           \A e \in 1..SIZE_T_BITSIZE : SizeBits(i, s)[e] = SizeBits(i, t)[e]
    PROVE  s = t
<1>0. s \in Nat /\ t \in Nat /\ i \in 0..NTREEBINS - 1 /\ SIZE_T_BITSIZE \in Nat
  BY LargeIs, IndexInRange, IndexBounds
<1>1. Bit(i) \in 0..SIZE_T_BITSIZE - 1
  BY <1>0, BitIs
<1> DEFINE d == Bit(i) + 1
<1>2. d \in 0..SIZE_T_BITSIZE /\ d <= Bit(i) + 1 /\ Bit(i) + 1 - d = 0
  BY <1>0, <1>1
<1>3. \A e \in 1..d : SizeBits(i, s)[e] = SizeBits(i, t)[e]
  BY <1>0, <1>2
<1> HIDE DEF d
<1>4. SameAbove(s, t, Bit(i) + 1 - d)
  BY <1>2, <1>3, SameSoFar
<1> QED BY <1>2, <1>4, <1>0, Pow2Step DEF SameAbove

\* The first bit that tells two sizes of a bin apart orders them.
LEMMA BitsOrder ==
    ASSUME NEW s, NEW t, Large(s), Large(t), NEW i, i = compute_tree_index(s),
           i = compute_tree_index(t),
           NEW d \in 0..SIZE_T_BITSIZE - 1, \A e \in 1..d : SizeBits(i, s)[e] = SizeBits(i, t)[e],
           SizeBits(i, s)[d + 1] = 0, SizeBits(i, t)[d + 1] = 1
    PROVE  s < t
<1>0. s \in Nat /\ t \in Nat /\ i \in 0..NTREEBINS - 1 /\ SIZE_T_BITSIZE \in Nat
  BY LargeIs, IndexInRange, IndexBounds
<1>1. Bit(i) \in 0..SIZE_T_BITSIZE - 1
  BY <1>0, BitIs
<1>2. d + 1 \in 1..SIZE_T_BITSIZE /\ d \in 0..SIZE_T_BITSIZE
  BY <1>0
<1>3. ~(d + 1 > Bit(i) + 1)
  BY <1>0, <1>2, SizeBitIs
<1> DEFINE e == Bit(i) + 1 - (d + 1)
           b == Pow2[e]
<1>4. e \in 0..SIZE_T_BITSIZE - 1 /\ e \in 0..SIZE_T_BITSIZE /\ e + 1 = Bit(i) + 1 - d
  BY <1>0, <1>1, <1>3
<1>5. b \in Nat \ {0} /\ Pow2[Bit(i) + 1 - d] = 2 * b
  BY <1>4, Pow2Step
<1>6. (s \div b) % 2 = 0 /\ (t \div b) % 2 = 1
  BY <1>0, <1>2, <1>3, SizeBitIs
<1>7. s \div (2 * b) = t \div (2 * b)
  <2>1. d <= Bit(i) + 1
    BY <1>0, <1>1, <1>3
  <2>2. SameAbove(s, t, Bit(i) + 1 - d)
    BY <1>2, <2>1, SameSoFar
  <2> QED BY <1>5, <2>2 DEF SameAbove
<1>8. /\ s \div b = 2 * (s \div (2 * b)) + ((s \div b) % 2)
      /\ t \div b = 2 * (t \div (2 * b)) + ((t \div b) % 2)
  BY <1>0, <1>5, Halved
<1> HIDE DEF b
<1>9. s \div b < t \div b
  <2>1. s \div (2 * b) \in Nat
    BY <1>0, <1>5
  <2> QED BY <2>1, <1>6, <1>7, <1>8
<1> QED BY <1>9, <1>0, <1>5, QuotientsGrow

\* The way down for a size follows its bits.
LEMMA DownIs ==
    ASSUME NEW i \in 0..NTREEBINS - 1, NEW s \in Nat, NEW d \in 0..SIZE_T_BITSIZE
    PROVE  /\ Down(i, s, d) \in Seq({0, 1}) /\ Len(Down(i, s, d)) = d
           /\ \A e \in 1..d : Down(i, s, d)[e] = SizeBits(i, s)[e]
<1>1. SIZE_T_BITSIZE \in Nat
  BY IndexBounds
<1>2. \A e \in 1..SIZE_T_BITSIZE : SizeBits(i, s)[e] \in {0, 1}
  BY SizeBitIs
<1>3. SizeBits(i, s) \in [1..SIZE_T_BITSIZE -> {0, 1}]
  BY <1>2 DEF SizeBits
<1>4. SizeBits(i, s) \in Seq({0, 1}) /\ Len(SizeBits(i, s)) = SIZE_T_BITSIZE
  BY <1>1, <1>3
<1> QED BY <1>1, <1>4 DEF Down

------------------------------------------------------------------------------
(* The chunks of a smallbin, and of a chain.                                  *)

\* A sequence of different numbers.
Distinct(s) == s \in Seq(Nat) /\ IsInjective(s)

\* Being different, position by position.
LEMMA DistinctIs ==
    ASSUME NEW s, Distinct(s)
    PROVE  s \in Seq(Nat) /\ \A c, d \in 1..Len(s) : s[c] = s[d] => c = d
<1>1. s \in Seq(Nat)
  BY DEF Distinct
<1>2. DOMAIN s = 1..Len(s)
  BY <1>1
<1>3. IsInjective(s)
  BY DEF Distinct
<1> QED BY <1>1, <1>2, <1>3 DEF IsInjective

\* What is in a sequence is at one of its positions.
LEMMA SequenceRange ==
    ASSUME NEW S, NEW s \in Seq(S)
    PROVE  /\ Len(s) \in Nat /\ DOMAIN s = 1..Len(s)
           /\ \A x : x \in Range(s) <=> \E k \in 1..Len(s) : x = s[k]
           /\ Range(s) = {} <=> s = <<>>
           /\ Range(s) \subseteq S
<1>1. Len(s) \in Nat /\ DOMAIN s = 1..Len(s) /\ \A k \in 1..Len(s) : s[k] \in S
  OBVIOUS
<1>2. Range(s) = {} <=> s = <<>>
  <2>1. CASE s = <<>>
    BY <2>1 DEF Range
  <2>2. CASE s # <<>>
    <3>1. 1 \in DOMAIN s
      BY <1>1, <2>2
    <3> QED BY <2>2, <3>1 DEF Range
  <2> QED BY <2>1, <2>2
<1> QED BY <1>1, <1>2 DEF Range

\* An element in front of a sequence of different ones.
LEMMA AtTheFront ==
    ASSUME NEW s, Distinct(s), NEW p \in Nat, p \notin Range(s)
    PROVE  Distinct(<<p>> \o s) /\ Range(<<p>> \o s) = Range(s) \cup {p} /\ <<p>> \o s # <<>>
           /\ (<<p>> \o s)[1] = p
<1> DEFINE r == <<p>> \o s
<1>1. /\ s \in Seq(Nat) /\ r \in Seq(Nat) /\ Len(r) = Len(s) + 1 /\ r[1] = p
      /\ \A k \in 1..Len(s) : r[k + 1] = s[k]
  BY DEF Distinct
<1> HIDE DEF r
<1>2. ASSUME NEW k \in 1..Len(r), k # 1 PROVE k - 1 \in 1..Len(s) /\ r[k] = s[k - 1]
  <2>1. k - 1 \in 1..Len(s) /\ (k - 1) + 1 = k
    BY <1>1, <1>2
  <2>2. r[(k - 1) + 1] = s[k - 1]
    BY <1>1, <2>1
  <2> QED BY <2>1, <2>2
<1>3. Range(r) = Range(s) \cup {p}
  <2>1. ASSUME NEW x \in Range(r) PROVE x \in Range(s) \cup {p}
    <3>1. PICK k \in 1..Len(r) : x = r[k]
      BY <1>1, SequenceRange
    <3>2. CASE k = 1
      BY <1>1, <3>1, <3>2
    <3>3. CASE k # 1
      BY <1>1, <1>2, <3>1, <3>3, SequenceRange
    <3> QED BY <3>2, <3>3
  <2>2. ASSUME NEW x \in Range(s) \cup {p} PROVE x \in Range(r)
    <3>1. CASE x = p
      BY <1>1, <3>1, SequenceRange
    <3>2. CASE x \in Range(s)
      <4>1. PICK k \in 1..Len(s) : x = s[k]
        BY <1>1, <3>2, SequenceRange
      <4>2. k + 1 \in 1..Len(r) /\ r[k + 1] = x
        BY <1>1, <4>1
      <4> QED BY <1>1, <4>2, SequenceRange
    <3> QED BY <3>1, <3>2
  <2> QED BY <2>1, <2>2
<1>4. IsInjective(r)
  <2> SUFFICES ASSUME NEW a \in 1..Len(r), NEW b \in 1..Len(r), r[a] = r[b] PROVE a = b
    BY <1>1 DEF IsInjective
  <2>1. \A k \in 1..Len(s) : s[k] \in Range(s)
    BY <1>1 DEF Range
  <2>2. \A c, d \in 1..Len(s) : s[c] = s[d] => c = d
    BY DistinctIs
  <2>3. CASE a = 1 \/ b = 1
    BY <1>1, <1>2, <2>1, <2>3
  <2>4. CASE a # 1 /\ b # 1
    <3>1. a - 1 = b - 1
      BY <1>2, <2>2, <2>4
    <3> QED BY <1>1, <3>1
  <2> QED BY <2>3, <2>4
<1> QED BY <1>1, <1>3, <1>4 DEF r, Distinct

\* An element leaves a sequence of different ones.
LEMMA TakenOut ==
    ASSUME NEW s, Distinct(s), NEW e \in Range(s)
    PROVE  /\ Distinct(RemoveFirst(s, e)) /\ Range(RemoveFirst(s, e)) = Range(s) \ {e}
           /\ s[1] # e => RemoveFirst(s, e)[1] = s[1]
<1> DEFINE r == RemoveFirst(s, e)
<1>1. s \in Seq(Nat) /\ \A c, d \in 1..Len(s) : s[c] = s[d] => c = d
  BY DistinctIs
<1>2. PICK k \in 1..Len(s) : e = s[k]
  BY <1>1, SequenceRange
<1>3. SelectInSeq(s, LAMBDA v : v = e) = k
  <2> DEFINE I == {i \in 1..Len(s) : s[i] = e}
  <2>1. I = {k}
    BY <1>1, <1>2
  <2>2. Min(I) = k
    BY <2>1 DEF Min
  <2> QED BY <2>1, <2>2 DEF SelectInSeq
<1>4. r = SubSeq(s, 1, k - 1) \o SubSeq(s, k + 1, Len(s))
  BY <1>2, <1>3 DEF RemoveFirst, RemoveAt
<1>5. /\ r \in Seq(Nat) /\ Len(r) = Len(s) - 1
      /\ \A i \in 1..Len(r) : r[i] = IF i < k THEN s[i] ELSE s[i + 1]
  <2> DEFINE a == SubSeq(s, 1, k - 1)
             b == SubSeq(s, k + 1, Len(s))
  <2>1. a \in Seq(Nat) /\ Len(a) = k - 1 /\ \A i \in 1..k - 1 : a[i] = s[i]
    BY <1>1
  <2>2. b \in Seq(Nat) /\ Len(b) = Len(s) - k /\ \A i \in 1..Len(s) - k : b[i] = s[k + i]
    BY <1>1
  <2> HIDE DEF a, b
  <2>3. /\ a \o b \in Seq(Nat) /\ Len(a \o b) = Len(s) - 1
        /\ \A i \in 1..Len(s) - 1 : (a \o b)[i] = IF i <= k - 1 THEN a[i] ELSE b[i - (k - 1)]
    <3>1. /\ a \o b \in Seq(Nat) /\ Len(a \o b) = Len(a) + Len(b)
          /\ \A i \in 1..Len(a) : (a \o b)[i] = a[i]
          /\ \A i \in 1..Len(b) : (a \o b)[Len(a) + i] = b[i]
      <4>1. a \in Seq(Nat) /\ b \in Seq(Nat)
        BY <2>1, <2>2
      <4> QED BY <4>1, ConcatElements
    <3>2. ASSUME NEW i \in 1..Len(s) - 1, ~(i <= k - 1) PROVE (a \o b)[i] = b[i - (k - 1)]
      <4>1. i - (k - 1) \in 1..Len(b) /\ Len(a) + (i - (k - 1)) = i
        BY <1>1, <2>1, <2>2, <3>2
      <4> QED BY <3>1, <4>1
    <3>3. ASSUME NEW i \in 1..Len(s) - 1, i <= k - 1 PROVE (a \o b)[i] = a[i]
      <4>1. i \in 1..Len(a)
        BY <2>1, <3>3
      <4> QED BY <3>1, <4>1
    <3>4. Len(a \o b) = Len(s) - 1
      BY <1>1, <2>1, <2>2, <3>1
    <3> QED BY <3>1, <3>2, <3>3, <3>4
  <2>4. ASSUME NEW i \in 1..Len(s) - 1 PROVE (a \o b)[i] = IF i < k THEN s[i] ELSE s[i + 1]
    <3>1. CASE i < k
      BY <1>1, <2>1, <2>3, <3>1
    <3>2. CASE ~(i < k)
      <4>1. i - (k - 1) \in 1..Len(s) - k /\ k + (i - (k - 1)) = i + 1 /\ ~(i <= k - 1)
        BY <1>1, <3>2
      <4> QED BY <2>2, <2>3, <3>2, <4>1
    <3> QED BY <3>1, <3>2
  <2>5. r = a \o b
    BY <1>4 DEF a, b
  <2> HIDE DEF r
  <2> QED BY <2>3, <2>4, <2>5
<1> HIDE DEF r
<1>6. ASSUME NEW i \in 1..Len(r)
      PROVE  LET j == IF i < k THEN i ELSE i + 1 IN j \in 1..Len(s) /\ j # k /\ r[i] = s[j]
  <2>1. CASE i < k
    BY <1>5, <2>1
  <2>2. CASE ~(i < k)
    BY <1>1, <1>5, <2>2
  <2> QED BY <2>1, <2>2
<1>7. IsInjective(r)
  <2> SUFFICES ASSUME NEW c \in 1..Len(r), NEW d \in 1..Len(r), r[c] = r[d] PROVE c = d
    BY <1>5 DEF IsInjective
  <2> DEFINE cc == IF c < k THEN c ELSE c + 1
             dd == IF d < k THEN d ELSE d + 1
  <2>1. cc = dd
    BY <1>1, <1>6
  <2> QED BY <2>1, <1>5
<1>8. Range(r) = Range(s) \ {e}
  <2>1. ASSUME NEW x \in Range(r) PROVE x \in Range(s) \ {e}
    <3>1. PICK i \in 1..Len(r) : x = r[i]
      BY <1>5, SequenceRange
    <3>2. PICK j \in 1..Len(s) : j # k /\ x = s[j]
      BY <1>6, <3>1
    <3> QED BY <1>1, <1>2, <3>2, SequenceRange
  <2>2. ASSUME NEW x \in Range(s) \ {e} PROVE x \in Range(r)
    <3>1. PICK j \in 1..Len(s) : x = s[j]
      BY <1>1, SequenceRange
    <3>2. j # k
      BY <1>2, <3>1
    <3> DEFINE i == IF j < k THEN j ELSE j - 1
    <3>3. i \in 1..Len(r) /\ r[i] = x
      <4>1. CASE j < k
        BY <1>5, <3>1, <4>1
      <4>2. CASE ~(j < k)
        <5>1. i = j - 1 /\ i \in 1..Len(r) /\ ~(i < k) /\ i + 1 = j
          BY <1>1, <1>5, <3>2, <4>2
        <5> QED BY <1>5, <3>1, <5>1
      <4> QED BY <4>1, <4>2
    <3> QED BY <1>5, <3>3, SequenceRange
  <2> QED BY <2>1, <2>2
<1>9. ASSUME s[1] # e PROVE r[1] = s[1]
  BY <1>2, <1>5, <1>9
<1> QED BY <1>5, <1>7, <1>8, <1>9 DEF r, Distinct

\* A chunk behind the first one of a chain.
LEMMA AtTheSecond ==
    ASSUME NEW s, Distinct(s), s # <<>>, NEW x \in Nat, x \notin Range(s)
    PROVE  LET r == <<Head(s), x>> \o Tail(s) IN
           Distinct(r) /\ Range(r) = Range(s) \cup {x} /\ r # <<>> /\ r[1] = s[1]
<1> DEFINE r == <<Head(s), x>> \o Tail(s)
<1>1. s \in Seq(Nat) /\ Len(s) >= 1 /\ (\A c, d \in 1..Len(s) : s[c] = s[d] => c = d)
      /\ \A k \in 1..Len(s) : s[k] \in Range(s)
  BY DEF Distinct, IsInjective, Range
<1>2. /\ r \in Seq(Nat) /\ Len(r) = Len(s) + 1 /\ r[1] = s[1] /\ r[2] = x
      /\ \A k \in 2..Len(s) : r[k + 1] = s[k]
  <2> DEFINE t == Tail(s)
             h == <<Head(s), x>>
  <2>1. t \in Seq(Nat) /\ Len(t) = Len(s) - 1 /\ \A k \in 1..Len(s) - 1 : t[k] = s[k + 1]
    BY <1>1
  <2>2. h \in Seq(Nat) /\ Len(h) = 2 /\ h[1] = s[1] /\ h[2] = x
    BY <1>1
  <2> HIDE DEF t, h
  <2>3. /\ h \o t \in Seq(Nat) /\ Len(h \o t) = Len(s) + 1
        /\ (h \o t)[1] = h[1] /\ (h \o t)[2] = h[2]
        /\ \A i \in 1..Len(t) : (h \o t)[2 + i] = t[i]
    <3>1. /\ h \o t \in Seq(Nat) /\ Len(h \o t) = Len(h) + Len(t)
          /\ \A i \in 1..Len(h) : (h \o t)[i] = h[i]
          /\ \A i \in 1..Len(t) : (h \o t)[Len(h) + i] = t[i]
      <4>1. h \in Seq(Nat) /\ t \in Seq(Nat)
        BY <2>1, <2>2
      <4> QED BY <4>1, ConcatElements
    <3>2. 1 \in 1..Len(h) /\ 2 \in 1..Len(h) /\ Len(h) + Len(t) = Len(s) + 1 /\ Len(h) = 2
      BY <1>1, <2>1, <2>2
    <3> QED BY <3>1, <3>2
  <2>4. r = h \o t
    BY DEF h, t
  <2> HIDE DEF r
  <2>5. ASSUME NEW k \in 2..Len(s) PROVE r[k + 1] = s[k]
    <3>1. k - 1 \in 1..Len(t) /\ (k - 1) + 1 = k /\ 2 + (k - 1) = k + 1
      BY <1>1, <2>1
    <3> QED BY <2>1, <2>3, <2>4, <3>1
  <2> QED BY <1>1, <2>2, <2>3, <2>4, <2>5
<1> HIDE DEF r
<1>3. ASSUME NEW k \in 1..Len(r), k # 1, k # 2 PROVE k - 1 \in 2..Len(s) /\ r[k] = s[k - 1]
  <2>1. k - 1 \in 2..Len(s) /\ (k - 1) + 1 = k
    BY <1>1, <1>2, <1>3
  <2>2. r[(k - 1) + 1] = s[k - 1]
    BY <1>2, <2>1
  <2> QED BY <2>1, <2>2
<1>4. IsInjective(r)
  <2> SUFFICES ASSUME NEW a \in 1..Len(r), NEW b \in 1..Len(r), r[a] = r[b] PROVE a = b
    BY <1>2 DEF IsInjective
  <2> DEFINE At(k) == IF k = 1 THEN 1 ELSE k - 1
  <2>1. ASSUME NEW k \in 1..Len(r), k # 2 PROVE At(k) \in 1..Len(s) /\ r[k] = s[At(k)]
    <3>1. CASE k = 1
      BY <1>1, <1>2, <3>1
    <3>2. CASE k # 1
      BY <1>1, <1>3, <2>1, <3>2
    <3> QED BY <3>1, <3>2
  <2>2. CASE a = 2 \/ b = 2
    <3>1. \A k \in 1..Len(r) : k # 2 => r[k] # x
      <4> HIDE DEF At
      <4> QED BY <1>1, <2>1
    <3> QED BY <1>2, <2>2, <3>1
  <2>3. CASE a # 2 /\ b # 2
    <3>1. At(a) \in 1..Len(s) /\ At(b) \in 1..Len(s) /\ s[At(a)] = s[At(b)]
      <4> HIDE DEF At
      <4> QED BY <2>1, <2>3
    <3>2. At(a) = At(b)
      <4> HIDE DEF At
      <4> QED BY <1>1, <3>1
    <3> QED BY <1>2, <2>3, <3>2
  <2> QED BY <2>2, <2>3
<1>5. Range(r) = Range(s) \cup {x}
  <2>1. ASSUME NEW y \in Range(r) PROVE y \in Range(s) \cup {x}
    <3>1. PICK k \in 1..Len(r) : y = r[k]
      BY <1>2, SequenceRange
    <3>2. CASE k = 1
      BY <1>1, <1>2, <3>1, <3>2
    <3>3. CASE k = 2
      BY <1>2, <3>1, <3>3
    <3>4. CASE k # 1 /\ k # 2
      <4>1. k - 1 \in 1..Len(s) /\ y = s[k - 1]
        BY <1>1, <1>3, <3>1, <3>4
      <4> QED BY <1>1, <4>1
    <3> QED BY <3>2, <3>3, <3>4
  <2>2. ASSUME NEW y \in Range(s) PROVE y \in Range(r)
    <3>1. PICK k \in 1..Len(s) : y = s[k]
      BY <1>1, SequenceRange
    <3>2. CASE k = 1
      BY <1>1, <1>2, <3>1, <3>2, SequenceRange
    <3>3. CASE k # 1
      <4>1. k + 1 \in 1..Len(r) /\ r[k + 1] = y
        BY <1>1, <1>2, <3>1, <3>3
      <4> QED BY <1>2, <4>1, SequenceRange
    <3> QED BY <3>2, <3>3
  <2>3. x \in Range(r)
    <3>1. 2 \in 1..Len(r) /\ r[2] = x
      BY <1>1, <1>2
    <3> QED BY <1>2, <3>1, SequenceRange
  <2> QED BY <2>1, <2>2, <2>3
<1>6. Distinct(r) /\ r # <<>>
  BY <1>1, <1>2, <1>4 DEF Distinct
<1> QED BY <1>2, <1>5, <1>6 DEF r

\* The first chunk of a chain leaves it and the last one takes its place.
LEMMA FirstReplaced ==
    ASSUME NEW s, Distinct(s), Len(s) > 1
    PROVE  LET r == <<Last(s)>> \o Front(Tail(s)) IN
           Distinct(r) /\ Range(r) = Range(s) \ {s[1]} /\ r # <<>>
<1> DEFINE r == <<Last(s)>> \o Front(Tail(s))
<1>1. s \in Seq(Nat) /\ Len(s) \in Nat /\ (\A c, d \in 1..Len(s) : s[c] = s[d] => c = d)
      /\ \A k \in 1..Len(s) : s[k] \in Range(s)
  BY DEF Distinct, IsInjective, Range
<1>2. /\ r \in Seq(Nat) /\ Len(r) = Len(s) - 1 /\ r[1] = s[Len(s)]
      /\ \A k \in 2..Len(s) - 1 : r[k] = s[k]
  <2> DEFINE t == Tail(s)
             f == SubSeq(t, 1, Len(t) - 1)
  <2>1. t \in Seq(Nat) /\ Len(t) = Len(s) - 1 /\ \A k \in 1..Len(s) - 1 : t[k] = s[k + 1]
    BY <1>1
  <2> HIDE DEF t
  <2>2. f \in Seq(Nat) /\ Len(f) = Len(s) - 2 /\ \A k \in 1..Len(s) - 2 : f[k] = s[k + 1]
    <3>1. f \in Seq(Nat) /\ Len(f) = Len(t) - 1 /\ \A k \in 1..Len(t) - 1 : f[k] = t[k]
      <4>1. Len(s) \in Nat /\ Len(t) \in Nat /\ Len(s) > 1 /\ Len(t) = Len(s) - 1
        BY <1>1, <2>1
      <4>2. \E n \in Nat : n = Len(t) - 1 /\ n <= Len(t)
        BY <4>1
      <4> PICK n \in Nat : n = Len(t) - 1 /\ n <= Len(t)
        BY <4>2
      <4>3. f = SubSeq(t, 1, n)
        OBVIOUS
      <4> HIDE DEF f
      <4> QED BY <2>1, <4>3
    <3> HIDE DEF f
    <3> QED BY <1>1, <2>1, <3>1
  <2>3. r = <<s[Len(s)]>> \o f
    BY DEF Last, Front, t
  <2> HIDE DEF r, f
  <2>4. s[Len(s)] \in Nat
    BY <1>1
  <2>5. /\ r \in Seq(Nat) /\ Len(r) = Len(s) - 1 /\ r[1] = s[Len(s)]
        /\ \A i \in 2..Len(s) - 1 : r[i] = f[i - 1]
    BY <1>1, <2>2, <2>3, <2>4
  <2>6. ASSUME NEW k \in 2..Len(s) - 1 PROVE r[k] = s[k]
    <3>1. k - 1 \in 1..Len(s) - 2 /\ (k - 1) + 1 = k
      BY <1>1
    <3> QED BY <2>2, <2>5, <3>1
  <2> QED BY <2>5, <2>6
<1> HIDE DEF r
<1>3. \A k \in 1..Len(r) : (k = 1 /\ r[k] = s[Len(s)]) \/ (k \in 2..Len(s) - 1 /\ r[k] = s[k])
  BY <1>1, <1>2
<1>4. IsInjective(r)
  <2> SUFFICES ASSUME NEW a \in 1..Len(r), NEW b \in 1..Len(r), r[a] = r[b] PROVE a = b
    BY <1>2 DEF IsInjective
  <2>1. \A k \in 2..Len(s) - 1 : k \in 1..Len(s) /\ k # Len(s)
    BY <1>1
  <2>2. Len(s) \in 1..Len(s)
    BY <1>1
  <2> QED BY <1>1, <1>3, <2>1, <2>2
<1>5. Range(r) = Range(s) \ {s[1]}
  <2>1. ASSUME NEW y \in Range(r) PROVE y \in Range(s) \ {s[1]}
    <3>1. PICK k \in 1..Len(r) : y = r[k]
      BY <1>2, SequenceRange
    <3>2. PICK j \in 2..Len(s) : y = s[j]
      BY <1>1, <1>3, <3>1
    <3>3. j \in 1..Len(s) /\ 1 \in 1..Len(s) /\ j # 1
      BY <1>1, <3>2
    <3> QED BY <1>1, <3>2, <3>3
  <2>2. ASSUME NEW y \in Range(s) \ {s[1]} PROVE y \in Range(r)
    <3>1. PICK k \in 1..Len(s) : y = s[k]
      BY <1>1, SequenceRange
    <3>2. k # 1
      BY <3>1
    <3>3. CASE k = Len(s)
      <4>1. 1 \in 1..Len(r) /\ r[1] = y
        BY <1>1, <1>2, <3>1, <3>3
      <4> QED BY <1>2, <4>1, SequenceRange
    <3>4. CASE k # Len(s)
      <4>1. k \in 2..Len(s) - 1
        BY <1>1, <3>2, <3>4
      <4>2. k \in 1..Len(r) /\ r[k] = y
        BY <1>1, <1>2, <3>1, <4>1
      <4> QED BY <1>2, <4>2, SequenceRange
    <3> QED BY <3>3, <3>4
  <2> QED BY <2>1, <2>2
<1>6. Distinct(r) /\ r # <<>>
  BY <1>1, <1>2, <1>4 DEF Distinct
<1> QED BY <1>5, <1>6 DEF r

------------------------------------------------------------------------------
(* The shape of a tree: its nodes by their sizes, on the way down for them.   *)

TreeBins == 0..NTREEBINS - 1
Places == Seq({0, 1})

\* A tree by the sizes of its nodes.
Shape(sz, i) ==
    /\ DOMAIN sz \subseteq Places
    /\ \A t \in DOMAIN sz :
        /\ Large(sz[t]) /\ compute_tree_index(sz[t]) = i
        /\ Len(t) <= SIZE_T_BITSIZE /\ t = Down(i, sz[t], Len(t))
        /\ t # <<>> => Front(t) \in DOMAIN sz
    /\ \A t, u \in DOMAIN sz : sz[t] = sz[u] => t = u

\* The way down for a size, cut off, is a shorter way for it.
LEMMA DownCut ==
    ASSUME NEW i \in TreeBins, NEW s \in Nat, NEW d \in 0..SIZE_T_BITSIZE, NEW k \in 0..d
    PROVE  SubSeq(Down(i, s, d), 1, k) = Down(i, s, k)
<1> DEFINE a == Down(i, s, d)
           b == Down(i, s, k)
<1>1. SIZE_T_BITSIZE \in Nat /\ k \in 0..SIZE_T_BITSIZE
  BY IndexBounds
<1>2. /\ a \in Places /\ Len(a) = d /\ \A e \in 1..d : a[e] = SizeBits(i, s)[e]
      /\ b \in Places /\ Len(b) = k /\ \A e \in 1..k : b[e] = SizeBits(i, s)[e]
  BY <1>1, DownIs DEF Places, TreeBins
<1> HIDE DEF a, b
<1> DEFINE c == SubSeq(a, 1, k)
<1>3. c \in Places /\ Len(c) = k /\ \A e \in 1..k : c[e] = a[e]
  BY <1>1, <1>2 DEF Places
<1> HIDE DEF c
<1>4. c = b
  <2>1. \A e \in 1..Len(c) : c[e] = b[e]
    BY <1>1, <1>2, <1>3
  <2> QED BY <1>2, <1>3, <2>1, SeqEqual DEF Places
<1> QED BY <1>4 DEF a, b, c

\* A node is on the way down for its size.
LEMMA NodeIs ==
    ASSUME NEW sz, NEW i \in TreeBins, Shape(sz, i), NEW t \in DOMAIN sz
    PROVE  /\ sz[t] \in Nat /\ Large(sz[t]) /\ compute_tree_index(sz[t]) = i
           /\ t \in Places /\ Len(t) \in 0..SIZE_T_BITSIZE /\ t = Down(i, sz[t], Len(t))
           /\ \A e \in 1..Len(t) : t[e] = SizeBits(i, sz[t])[e]
<1>1. Large(sz[t]) /\ compute_tree_index(sz[t]) = i /\ t \in Places /\ Len(t) <= SIZE_T_BITSIZE
      /\ t = Down(i, sz[t], Len(t))
  BY DEF Shape
<1>2. sz[t] \in Nat
  BY <1>1, LargeIs
<1>3. Len(t) \in 0..SIZE_T_BITSIZE
  BY <1>1, IndexBounds DEF Places
<1>4. \A e \in 1..Len(t) : Down(i, sz[t], Len(t))[e] = SizeBits(i, sz[t])[e]
  BY <1>2, <1>3, DownIs DEF TreeBins
<1> QED BY <1>1, <1>2, <1>3, <1>4

\* All that is before a node on its way is there.
LEMMA WayIsThere ==
    ASSUME NEW sz, NEW i \in TreeBins, Shape(sz, i), NEW t \in DOMAIN sz, NEW k \in 0..Len(t)
    PROVE  Down(i, sz[t], k) \in DOMAIN sz
<1> DEFINE l == Len(t)
           S == {n \in Nat : n <= l => Down(i, sz[t], l - n) \in DOMAIN sz}
<1>1. sz[t] \in Nat /\ l \in 0..SIZE_T_BITSIZE /\ t = Down(i, sz[t], l) /\ SIZE_T_BITSIZE \in Nat
  BY NodeIs, IndexBounds
<1> HIDE DEF l
<1>2. 0 \in S
  BY <1>1
<1>3. ASSUME NEW n \in Nat, n \in S PROVE n + 1 \in S
  <2> SUFFICES ASSUME n + 1 <= l PROVE Down(i, sz[t], l - (n + 1)) \in DOMAIN sz
    OBVIOUS
  <2> DEFINE d == l - n
             u == Down(i, sz[t], d)
  <2>1. /\ d \in 1..SIZE_T_BITSIZE /\ d \in 0..SIZE_T_BITSIZE /\ d - 1 = l - (n + 1) /\ d - 1 \in 0..d
        /\ n <= l
    BY <1>1
  <2>2. u \in DOMAIN sz
    BY <1>3, <2>1
  <2>3. Len(u) = d
    BY <1>1, <2>1, DownIs DEF TreeBins
  <2> HIDE DEF u
  <2>4. u # <<>>
    BY <2>1, <2>3
  <2>5. Front(u) \in DOMAIN sz
    BY <2>2, <2>4 DEF Shape
  <2>6. Front(u) = SubSeq(u, 1, d - 1)
    BY <2>3 DEF Front
  <2>7. SubSeq(u, 1, d - 1) = Down(i, sz[t], d - 1)
    BY <1>1, <2>1, DownCut DEF u
  <2> QED BY <2>1, <2>5, <2>6, <2>7
<1>4. Nat \subseteq S
  <2> HIDE DEF S
  <2> QED BY <1>2, <1>3, Inductive
<1>5. l - k \in S /\ l - k <= l /\ l - (l - k) = k
  BY <1>1, <1>4 DEF l
<1> QED BY <1>5

\* The ways to different depths are different.
LEMMA DownDiffer ==
    ASSUME NEW i \in TreeBins, NEW s \in Nat, NEW c \in 0..SIZE_T_BITSIZE, NEW d \in 0..SIZE_T_BITSIZE,
           Down(i, s, c) = Down(i, s, d)
    PROVE  c = d
<1>1. Len(Down(i, s, c)) = c /\ Len(Down(i, s, d)) = d
  BY DownIs DEF TreeBins
<1> QED BY <1>1

\* The nodes on a way are no more than the bits of a size.
LEMMA WayCounted ==
    ASSUME NEW i \in TreeBins, NEW s \in Nat, NEW c \in 0..SIZE_T_BITSIZE + 1
    PROVE  Cardinality({Down(i, s, d) : d \in 0..c - 1}) = c
<1> DEFINE W(n) == {Down(i, s, d) : d \in 0..n - 1}
           S == {n \in Nat : n <= SIZE_T_BITSIZE + 1 => IsFiniteSet(W(n)) /\ Cardinality(W(n)) = n}
<1>0. SIZE_T_BITSIZE \in Nat
  BY IndexBounds
<1>1. 0 \in S
  <2>1. W(0) = {}
    OBVIOUS
  <2> QED BY <2>1, FS_EmptySet
<1>2. ASSUME NEW n \in Nat, n \in S PROVE n + 1 \in S
  <2> SUFFICES ASSUME n + 1 <= SIZE_T_BITSIZE + 1 PROVE IsFiniteSet(W(n + 1)) /\ Cardinality(W(n + 1)) = n + 1
    OBVIOUS
  <2>1. W(n + 1) = W(n) \cup {Down(i, s, n)}
    <3>1. 0..(n + 1) - 1 = (0..n - 1) \cup {n}
      OBVIOUS
    <3> QED BY <3>1
  <2>2. IsFiniteSet(W(n)) /\ Cardinality(W(n)) = n
    BY <1>0, <1>2
  <2>3. Down(i, s, n) \notin W(n)
    <3> SUFFICES ASSUME NEW d \in 0..n - 1, Down(i, s, n) = Down(i, s, d) PROVE FALSE
      OBVIOUS
    <3>1. n \in 0..SIZE_T_BITSIZE /\ d \in 0..SIZE_T_BITSIZE /\ n # d
      BY <1>0
    <3> QED BY <3>1, DownDiffer
  <2> HIDE DEF W
  <2> QED BY <2>1, <2>2, <2>3, FS_AddElement
<1>3. Nat \subseteq S
  <2> HIDE DEF S
  <2> QED BY <1>1, <1>2, Inductive
<1>4. c \in Nat /\ c <= SIZE_T_BITSIZE + 1
  BY <1>0
<1>5. Cardinality(W(c)) = c
  <2> HIDE DEF W
  <2> QED BY <1>3, <1>4
<1> QED BY <1>5

\* The nodes on the way down for a size are the first ones.
LEMMA WayDown ==
    ASSUME NEW sz, NEW i \in TreeBins, Shape(sz, i), NEW s \in Nat,
           NEW tree, DOMAIN tree = DOMAIN sz
    PROVE  \E c \in 0..SIZE_T_BITSIZE + 1 :
              /\ \A d \in 0..SIZE_T_BITSIZE : Down(i, s, d) \in DOMAIN sz <=> d < c
              /\ OnTheWay(tree, i, s) = {Down(i, s, d) : d \in 0..c - 1}
              /\ Cardinality(OnTheWay(tree, i, s)) = c
<1> DEFINE Off == {n \in Nat : n = SIZE_T_BITSIZE + 1 \/ (n <= SIZE_T_BITSIZE /\ Down(i, s, n) \notin DOMAIN sz)}
<1>0. SIZE_T_BITSIZE \in Nat
  BY IndexBounds
<1>1. PICK c \in Off : \A n \in Off : c <= n
  <2>1. SIZE_T_BITSIZE + 1 \in Off /\ Off \subseteq Nat
    BY <1>0
  <2> HIDE DEF Off
  <2> QED BY <2>1, LeastNumber
<1>2. c \in 0..SIZE_T_BITSIZE + 1 /\ (c <= SIZE_T_BITSIZE => Down(i, s, c) \notin DOMAIN sz)
  <2>1. SIZE_T_BITSIZE + 1 \in Off
    BY <1>0
  <2>2. c <= SIZE_T_BITSIZE + 1 /\ c \in Nat
    BY <1>1, <2>1
  <2> QED BY <2>2, <1>1, <1>0
<1>3. ASSUME NEW d \in 0..SIZE_T_BITSIZE, d < c PROVE Down(i, s, d) \in DOMAIN sz
  <2>1. d \notin Off /\ d \in Nat /\ d # SIZE_T_BITSIZE + 1
    BY <1>0, <1>1, <1>2, <1>3
  <2> QED BY <2>1
<1>4. ASSUME NEW d \in 0..SIZE_T_BITSIZE, Down(i, s, d) \in DOMAIN sz PROVE d < c
  <2> SUFFICES ASSUME c <= d PROVE FALSE
    BY <1>0, <1>2
  <2> DEFINE t == Down(i, s, d)
  <2>1. c \in 0..d /\ c <= SIZE_T_BITSIZE /\ c \in 0..SIZE_T_BITSIZE
    BY <1>0, <1>2
  <2>2. Len(t) = d
    BY DownIs DEF TreeBins
  <2>3. Down(i, sz[t], c) \in DOMAIN sz
    BY <1>4, <2>1, <2>2, WayIsThere
  <2>4. t = Down(i, sz[t], d) /\ sz[t] \in Nat
    BY <1>4, <2>2, NodeIs
  <2>5. Down(i, sz[t], c) = Down(i, s, c)
    <3>1. SubSeq(t, 1, c) = Down(i, s, c)
      BY <2>1, DownCut
    <3> HIDE DEF t
    <3>2. SubSeq(Down(i, sz[t], d), 1, c) = Down(i, sz[t], c)
      BY <2>1, <2>4, DownCut
    <3> QED BY <3>1, <3>2, <2>4
  <2> QED BY <1>2, <2>1, <2>3, <2>5
<1>5. OnTheWay(tree, i, s) = {Down(i, s, d) : d \in 0..c - 1}
  <2>1. \A d \in 0..c - 1 : d \in 0..SIZE_T_BITSIZE /\ d < c
    BY <1>0, <1>2
  <2>2. \A d \in 0..SIZE_T_BITSIZE : d < c => d \in 0..c - 1
    BY <1>0, <1>2
  <2>3. OnTheWay(tree, i, s) = {Down(i, s, d) : d \in 0..SIZE_T_BITSIZE} \cap DOMAIN sz
    BY DEF OnTheWay
  <2> QED BY <1>3, <1>4, <2>1, <2>2, <2>3
<1>6. Cardinality({Down(i, s, d) : d \in 0..c - 1}) = c
  BY <1>2, WayCounted
<1> QED BY <1>2, <1>3, <1>4, <1>5, <1>6

\* What a child adds to a place.
LEMMA ChildIs ==
    ASSUME NEW n \in Places, NEW c \in {0, 1}
    PROVE  LET u == n \o <<c>> IN
           /\ u \in Places /\ Len(u) = Len(n) + 1 /\ u # <<>> /\ u[Len(n) + 1] = c
           /\ \A e \in 1..Len(n) : u[e] = n[e]
           /\ Front(u) = n
<1> DEFINE u == n \o <<c>>
<1>1. <<c>> \in Places /\ Len(<<c>>) = 1 /\ Len(n) \in Nat /\ <<c>>[1] = c
  BY DEF Places
<1>2. /\ u \in Places /\ Len(u) = Len(n) + 1 /\ u[Len(n) + 1] = c
      /\ \A e \in 1..Len(n) : u[e] = n[e]
  <2>1. /\ u \in Seq({0, 1}) /\ Len(u) = Len(n) + Len(<<c>>)
        /\ \A m \in 1..Len(n) : u[m] = n[m]
        /\ \A m \in 1..Len(<<c>>) : u[Len(n) + m] = <<c>>[m]
    BY <1>1, ConcatElements DEF Places
  <2> HIDE DEF u
  <2> QED BY <1>1, <2>1 DEF Places
<1> HIDE DEF u
<1>3. u # <<>>
  BY <1>1, <1>2
<1>4. Front(u) = n
  <2> DEFINE f == SubSeq(u, 1, Len(u) - 1)
  <2>1. f \in Places /\ Len(f) = Len(n) /\ \A e \in 1..Len(n) : f[e] = u[e]
    BY <1>1, <1>2 DEF Places
  <2> HIDE DEF f
  <2>2. f = n
    BY <1>2, <2>1, SeqEqual DEF Places
  <2> QED BY <2>2 DEF f, Front
<1> QED BY <1>2, <1>3, <1>4 DEF u

\* What all but the last step of a place is.
LEMMA FrontIs ==
    ASSUME NEW n \in Places, n # <<>>
    PROVE  /\ Front(n) \in Places /\ Len(Front(n)) = Len(n) - 1 /\ Len(n) \in Nat \ {0}
           /\ n[Len(n)] \in {0, 1} /\ n = Front(n) \o <<n[Len(n)]>>
<1> DEFINE f == SubSeq(n, 1, Len(n) - 1)
           c == n[Len(n)]
           g == f \o <<c>>
<1>1. Len(n) \in Nat \ {0} /\ c \in {0, 1}
  BY DEF Places
<1>2. f \in Places /\ Len(f) = Len(n) - 1 /\ \A e \in 1..Len(n) - 1 : f[e] = n[e]
  <2>1. \A e \in 1..Len(n) - 1 : n[e] \in {0, 1}
    BY <1>1 DEF Places
  <2>2. Len(n) - 1 \in Nat /\ 1 \in Int /\ Len(n) - 1 \in Int
    BY <1>1
  <2> HIDE DEF c
  <2>3. /\ f \in Seq({0, 1}) /\ Len(f) = IF 1 <= Len(n) - 1 THEN (Len(n) - 1) - 1 + 1 ELSE 0
        /\ \A e \in 1..(Len(n) - 1) - 1 + 1 : f[e] = n[1 + e - 1]
    BY <2>1, <2>2, SubSeqProperties
  <2> HIDE DEF f
  <2>4. Len(n) \in Nat /\ Len(n) >= 1
    BY <1>1
  <2> DEFINE l == Len(n)
  <2> HIDE DEF l
  <2>7. l \in Nat /\ l >= 1 /\ Len(f) = IF 1 <= l - 1 THEN (l - 1) - 1 + 1 ELSE 0
    BY <2>4, <2>3 DEF l
  <2>8. Len(f) = l - 1 /\ (l - 1) - 1 + 1 = l - 1
    BY <2>7
  <2>5. \A e \in 1..Len(n) - 1 : 1 + e - 1 = e
    BY <2>2
  <2> QED BY <2>3, <2>5, <2>8 DEF Places, l
<1> HIDE DEF f
<1>3. g \in Places /\ Len(g) = Len(f) + 1 /\ g[Len(f) + 1] = c /\ \A e \in 1..Len(f) : g[e] = f[e]
  <2> HIDE DEF c, g
  <2> QED BY <1>1, <1>2, ChildIs DEF g
<1> HIDE DEF g
<1>4. \A e \in 1..Len(n) : g[e] = n[e]
  BY <1>1, <1>2, <1>3
<1>5. g = n
  BY <1>1, <1>2, <1>3, <1>4, SeqEqual DEF Places
<1> QED BY <1>1, <1>2, <1>5 DEF f, g, Front

\* What it means that a place is above another one.
LEMMA PrefixIs ==
    ASSUME NEW t \in Places, NEW n \in Places
    PROVE  IsPrefix(t, n) <=> Len(t) <= Len(n) /\ \A e \in 1..Len(t) : t[e] = n[e]
<1> DEFINE a == SubSeq(t, 1, Len(t))
           b == SubSeq(n, 1, Len(t))
<1>1. Len(t) \in Nat /\ Len(n) \in Nat
  BY DEF Places
<1>2. a \in Places /\ Len(a) = Len(t) /\ \A e \in 1..Len(t) : a[e] = t[e]
  BY <1>1 DEF Places
<1>3. ASSUME Len(t) <= Len(n)
      PROVE  b \in Places /\ Len(b) = Len(t) /\ \A e \in 1..Len(t) : b[e] = n[e]
  BY <1>1, <1>3 DEF Places
<1>4. IsPrefix(t, n) <=> Len(t) <= Len(n) /\ a = b
  BY DEF IsPrefix
<1> HIDE DEF a, b
<1>5. ASSUME Len(t) <= Len(n), \A e \in 1..Len(t) : t[e] = n[e] PROVE a = b
  <2>1. \A e \in 1..Len(a) : a[e] = b[e]
    BY <1>2, <1>3, <1>5
  <2> QED BY <1>2, <1>3, <1>5, <2>1, SeqEqual DEF Places
<1> QED BY <1>2, <1>3, <1>4, <1>5

\* The node of a size is on the way down for it.
LEMMA NodeIsOnItsWay ==
    ASSUME NEW sz, NEW i \in TreeBins, Shape(sz, i), NEW t \in DOMAIN sz,
           NEW tree, DOMAIN tree = DOMAIN sz
    PROVE  t \in OnTheWay(tree, i, sz[t])
<1>1. Len(t) \in 0..SIZE_T_BITSIZE /\ t = Down(i, sz[t], Len(t))
  BY NodeIs
<1> QED BY <1>1 DEF OnTheWay

\* The place of a new leaf.
LEMMA LeafJoins ==
    ASSUME NEW sz, NEW i \in TreeBins, Shape(sz, i), NEW s, Large(s), compute_tree_index(s) = i,
           \A t \in DOMAIN sz : sz[t] # s, NEW tree, DOMAIN tree = DOMAIN sz
    PROVE  LET leaf == Down(i, s, Cardinality(OnTheWay(tree, i, s))) IN
           leaf \notin DOMAIN sz /\ leaf \in Places /\ Shape(With(sz, leaf, s), i)
<1>0. SIZE_T_BITSIZE \in Nat /\ s \in Nat
  BY IndexBounds, LargeIs
<1>1. PICK c \in 0..SIZE_T_BITSIZE + 1 : /\ \A d \in 0..SIZE_T_BITSIZE : Down(i, s, d) \in DOMAIN sz <=> d < c
                            /\ Cardinality(OnTheWay(tree, i, s)) = c
  BY <1>0, WayDown
<1>2. c # SIZE_T_BITSIZE + 1
  <2> SUFFICES ASSUME c = SIZE_T_BITSIZE + 1 PROVE FALSE
    OBVIOUS
  <2> DEFINE t == Down(i, s, SIZE_T_BITSIZE)
  <2>1. SIZE_T_BITSIZE \in 0..SIZE_T_BITSIZE /\ SIZE_T_BITSIZE < c
    BY <1>0
  <2>2. t \in DOMAIN sz
    BY <1>1, <2>1
  <2>3. Len(t) = SIZE_T_BITSIZE /\ \A e \in 1..SIZE_T_BITSIZE : t[e] = SizeBits(i, s)[e]
    BY <1>0, <2>1, DownIs DEF TreeBins
  <2> HIDE DEF t
  <2>4. Large(sz[t]) /\ compute_tree_index(sz[t]) = i
        /\ \A e \in 1..SIZE_T_BITSIZE : t[e] = SizeBits(i, sz[t])[e]
    BY <2>2, <2>3, NodeIs
  <2>5. \A e \in 1..SIZE_T_BITSIZE : SizeBits(i, s)[e] = SizeBits(i, sz[t])[e]
    BY <2>3, <2>4
  <2>6. s = sz[t]
    BY <2>4, <2>5, BitsDecide
  <2> QED BY <2>2, <2>6
<1> DEFINE leaf == Down(i, s, c)
           f == With(sz, leaf, s)
<1>3. c \in 0..SIZE_T_BITSIZE /\ ~(c < c)
  BY <1>0, <1>2
<1>4. leaf \notin DOMAIN sz /\ leaf \in Places /\ Len(leaf) = c
  BY <1>0, <1>1, <1>3, DownIs DEF TreeBins, Places
<1>5. leaf # <<>> => Front(leaf) \in DOMAIN sz
  <2> SUFFICES ASSUME leaf # <<>> PROVE Front(leaf) \in DOMAIN sz
    OBVIOUS
  <2>1. c # 0
    <3> HIDE DEF leaf
    <3> QED BY <1>4 DEF Places
  <2>2. c - 1 \in 0..SIZE_T_BITSIZE /\ c - 1 < c /\ c - 1 \in 0..c
    BY <1>3, <2>1, <1>0
  <2>3. Front(leaf) = SubSeq(leaf, 1, c - 1)
    BY <1>4 DEF Front
  <2>4. SubSeq(leaf, 1, c - 1) = Down(i, s, c - 1)
    BY <1>0, <1>3, <2>2, DownCut
  <2> QED BY <1>1, <2>2, <2>3, <2>4
<1>6. leaf = Down(i, s, Len(leaf))
  BY <1>4
<1> HIDE DEF leaf
<1>7. /\ DOMAIN f = DOMAIN sz \cup {leaf} /\ f[leaf] = s /\ \A t \in DOMAIN sz : f[t] = sz[t]
  BY <1>4 DEF With
<1> HIDE DEF f
<1>8. Shape(f, i)
  <2>1. DOMAIN f \subseteq Places
    BY <1>4, <1>7 DEF Shape
  <2>2. ASSUME NEW t \in DOMAIN f
        PROVE  /\ Large(f[t]) /\ compute_tree_index(f[t]) = i /\ Len(t) <= SIZE_T_BITSIZE
               /\ t = Down(i, f[t], Len(t))
               /\ t # <<>> => Front(t) \in DOMAIN f
    <3>1. CASE t \in DOMAIN sz
      BY <1>7, <3>1 DEF Shape
    <3>2. CASE t = leaf
      BY <1>3, <1>4, <1>5, <1>6, <1>7, <3>2
    <3> QED BY <1>7, <3>1, <3>2
  <2>3. \A t, u \in DOMAIN f : f[t] = f[u] => t = u
    BY <1>7 DEF Shape
  <2> QED BY <2>1, <2>2, <2>3 DEF Shape
<1>9. Down(i, s, Cardinality(OnTheWay(tree, i, s))) = leaf
  BY <1>1 DEF leaf
<1> QED BY <1>4, <1>8, <1>9 DEF f

\* A leaf takes the place of a node above it.
LEMMA LeafMoves ==
    ASSUME NEW sz, NEW i \in TreeBins, Shape(sz, i), NEW t \in DOMAIN sz, NEW leaf \in DOMAIN sz,
           IsPrefix(t, leaf), leaf \o << 0 >> \notin DOMAIN sz, leaf \o << 1 >> \notin DOMAIN sz
    PROVE  Shape([n \in DOMAIN sz \ {leaf} |-> IF n = t THEN sz[leaf] ELSE sz[n]], i)
<1> DEFINE f == [n \in DOMAIN sz \ {leaf} |-> IF n = t THEN sz[leaf] ELSE sz[n]]
<1>1. /\ sz[leaf] \in Nat /\ Large(sz[leaf]) /\ compute_tree_index(sz[leaf]) = i
      /\ leaf \in Places /\ Len(leaf) \in 0..SIZE_T_BITSIZE
         /\ \A e \in 1..Len(leaf) : leaf[e] = SizeBits(i, sz[leaf])[e]
  BY NodeIs
<1>2. /\ t \in Places /\ Len(t) \in 0..SIZE_T_BITSIZE
  BY NodeIs
<1>3. t = Down(i, sz[leaf], Len(t))
  <2> DEFINE g == Down(i, sz[leaf], Len(t))
  <2>1. g \in Places /\ Len(g) = Len(t) /\ \A e \in 1..Len(t) : g[e] = SizeBits(i, sz[leaf])[e]
    BY <1>1, <1>2, DownIs DEF Places, TreeBins
  <2> HIDE DEF g
  <2>2. Len(t) <= Len(leaf) /\ \A e \in 1..Len(t) : t[e] = leaf[e]
    BY <1>1, <1>2, PrefixIs
  <2>3. \A e \in 1..Len(t) : e \in 1..Len(leaf)
    BY <1>1, <1>2, <2>2
  <2>4. \A e \in 1..Len(t) : t[e] = g[e]
    BY <1>1, <2>1, <2>2, <2>3
  <2> QED BY <1>2, <2>1, <2>4, SeqEqual DEF g, Places
<1>4. ASSUME NEW n \in DOMAIN sz, n # <<>> PROVE Front(n) \in DOMAIN sz \ {leaf}
  <2>1. Front(n) \in DOMAIN sz /\ n \in Places
    BY <1>4 DEF Shape
  <2>2. n = Front(n) \o <<n[Len(n)]>> /\ n[Len(n)] \in {0, 1}
    BY <1>4, <2>1, FrontIs
  <2> QED BY <2>1, <2>2
<1>5. DOMAIN f = DOMAIN sz \ {leaf} /\ \A n \in DOMAIN f : f[n] = IF n = t THEN sz[leaf] ELSE sz[n]
  OBVIOUS
<1> HIDE DEF f
<1>6. DOMAIN f \subseteq Places
  BY <1>5 DEF Shape
<1>7. ASSUME NEW n \in DOMAIN f
      PROVE  /\ Large(f[n]) /\ compute_tree_index(f[n]) = i /\ Len(n) <= SIZE_T_BITSIZE
             /\ n = Down(i, f[n], Len(n))
             /\ n # <<>> => Front(n) \in DOMAIN f
  <2>1. CASE n = t
    BY <1>1, <1>2, <1>3, <1>4, <1>5, <2>1
  <2>2. CASE n # t
    BY <1>4, <1>5, <2>2 DEF Shape
  <2> QED BY <2>1, <2>2
<1>8. \A n, u \in DOMAIN f : f[n] = f[u] => n = u
  BY <1>5 DEF Shape
<1> QED BY <1>6, <1>7, <1>8 DEF Shape, f

------------------------------------------------------------------------------
(* Descents: the leftmost node below one, and the rightmost leaf.             *)

\* The nodes that are met from t on by taking child c wherever there is one.
Descent(D, t, c) == {n \in D : IsPrefix(t, n) /\ \A k \in Len(t) + 1..Len(n) :
    n[k] = 1 - c => SubSeq(n, 1, k - 1) \o <<c>> \notin D}

\* The beginning of a place is a place.
LEMMA CutIs ==
    ASSUME NEW n \in Places, NEW k \in 0..Len(n)
    PROVE  SubSeq(n, 1, k) \in Places /\ Len(SubSeq(n, 1, k)) = k
           /\ \A e \in 1..k : SubSeq(n, 1, k)[e] = n[e]
<1>1. Len(n) \in Nat
  BY DEF Places
<1> QED BY <1>1 DEF Places

\* A child begins with its parent.
LEMMA CutOfChild ==
    ASSUME NEW n \in Places, NEW b \in {0, 1}, NEW k \in 0..Len(n)
    PROVE  SubSeq(n \o <<b>>, 1, k) = SubSeq(n, 1, k)
<1> DEFINE u == n \o <<b>>
           f == SubSeq(u, 1, k)
           g == SubSeq(n, 1, k)
<1>1. Len(n) \in Nat /\ u \in Places /\ Len(u) = Len(n) + 1 /\ \A e \in 1..Len(n) : u[e] = n[e]
  BY ChildIs DEF Places
<1> HIDE DEF u
<1>2. k \in 0..Len(u) /\ k \in Nat /\ \A e \in 1..k : e \in 1..Len(n)
  BY <1>1
<1>3. f \in Places /\ Len(f) = k /\ \A e \in 1..k : f[e] = u[e]
  BY <1>1, <1>2, CutIs
<1>4. g \in Places /\ Len(g) = k /\ \A e \in 1..k : g[e] = n[e]
  BY CutIs
<1> HIDE DEF f, g
<1>5. f = g
  BY <1>1, <1>2, <1>3, <1>4, SeqEqual DEF Places
<1> QED BY <1>5 DEF f, g, u

\* All of a place is the place.
LEMMA CutAll ==
    ASSUME NEW n \in Places
    PROVE  SubSeq(n, 1, Len(n)) = n
<1>1. Len(n) \in Nat
  BY DEF Places
<1>2. /\ SubSeq(n, 1, Len(n)) \in Places /\ Len(SubSeq(n, 1, Len(n))) = Len(n)
      /\ \A e \in 1..Len(n) : SubSeq(n, 1, Len(n))[e] = n[e]
  BY <1>1, CutIs
<1> QED BY <1>2, SeqEqual DEF Places

\* A descent goes on with child c, and with the other one if there is no child c.
LEMMA DescentGoesOn ==
    ASSUME NEW D, D \subseteq Places, NEW c \in {0, 1}, NEW t \in D, NEW n \in Descent(D, t, c),
           NEW b \in {0, 1}, n \o <<b>> \in D, b = c \/ n \o <<c>> \notin D
    PROVE  n \o <<b>> \in Descent(D, t, c)
<1> DEFINE u == n \o <<b>>
<1>1. n \in Places /\ t \in Places /\ Len(n) \in Nat /\ Len(t) \in Nat
  BY DEF Descent, Places
<1>2. u \in Places /\ Len(u) = Len(n) + 1 /\ u[Len(n) + 1] = b /\ \A e \in 1..Len(n) : u[e] = n[e]
  BY <1>1, ChildIs
<1>3. \A k \in 0..Len(n) : SubSeq(u, 1, k) = SubSeq(n, 1, k)
  BY <1>1, CutOfChild
<1>4. SubSeq(u, 1, Len(n)) = n
  <2>1. Len(n) \in 0..Len(n)
    BY <1>1
  <2> QED BY <1>1, <1>3, <2>1, CutAll
<1>5. u \in D
  OBVIOUS
<1> HIDE DEF u
<1>6. Len(t) <= Len(n) /\ \A e \in 1..Len(t) : t[e] = n[e]
  <2>1. IsPrefix(t, n)
    BY DEF Descent
  <2> QED BY <1>1, <2>1, PrefixIs
<1>7. IsPrefix(t, u)
  <2>1. \A e \in 1..Len(t) : e \in 1..Len(n)
    BY <1>1, <1>6
  <2>2. \A e \in 1..Len(t) : t[e] = u[e]
    BY <1>2, <1>6, <2>1
  <2>3. Len(t) <= Len(u)
    BY <1>1, <1>2, <1>6
  <2> QED BY <1>1, <1>2, <2>2, <2>3, PrefixIs
<1>8. ASSUME NEW k \in Len(t) + 1..Len(u), u[k] = 1 - c
      PROVE  SubSeq(u, 1, k - 1) \o <<c>> \notin D
  <2>1. CASE k = Len(n) + 1
    <3>1. b # c /\ k - 1 = Len(n)
      BY <1>1, <1>2, <1>8, <2>1
    <3> QED BY <1>4, <3>1
  <2>2. CASE k # Len(n) + 1
    <3>1. k \in Len(t) + 1..Len(n) /\ k \in 1..Len(n) /\ k - 1 \in 0..Len(n)
      BY <1>1, <1>2, <2>2
    <3>2. n[k] = 1 - c
      BY <1>2, <1>8, <3>1
    <3> QED BY <1>3, <3>1, <3>2 DEF Descent
  <2> QED BY <2>1, <2>2
<1>9. u \in Descent(D, t, c)
  BY <1>5, <1>7, <1>8 DEF Descent
<1> QED BY <1>9 DEF u

\* A descent begins at the place itself.
LEMMA DescentBegins ==
    ASSUME NEW D, D \subseteq Places, NEW c \in {0, 1}, NEW t \in D
    PROVE  t \in Descent(D, t, c)
<1>1. t \in Places /\ Len(t) \in Nat
  BY DEF Places
<1>2. IsPrefix(t, t)
  BY <1>1, PrefixIs
<1>3. Len(t) + 1..Len(t) = {}
  BY <1>1
<1> QED BY <1>2, <1>3 DEF Descent

\* The leaf that takes the place of a node exists.
LEMMA RightmostLeafIs ==
    ASSUME NEW sz, NEW i \in TreeBins, Shape(sz, i), NEW t \in DOMAIN sz,
           NEW tree, DOMAIN tree = DOMAIN sz
    PROVE  LET leaf == RightmostLeaf(tree, t) IN
           /\ leaf \in DOMAIN sz /\ IsPrefix(t, leaf)
           /\ leaf \o <<0>> \notin DOMAIN sz /\ leaf \o <<1>> \notin DOMAIN sz
<1> DEFINE D == DOMAIN sz
           Path == Descent(D, t, 1)
           T == {SIZE_T_BITSIZE - Len(n) : n \in Path}
<1>1. D \subseteq Places /\ SIZE_T_BITSIZE \in Nat /\ Path \subseteq D
  BY IndexBounds DEF Shape, Descent
<1>2. \A n \in D : Len(n) \in 0..SIZE_T_BITSIZE
  BY NodeIs
<1>3. t \in Path
  BY <1>1, DescentBegins
<1> HIDE DEF D, Path
<1>4. T \subseteq Nat /\ T # {}
  BY <1>1, <1>2, <1>3
<1>5. PICK x \in T : \A y \in T : x <= y
  BY <1>4, LeastNumber
<1>6. PICK n \in Path : x = SIZE_T_BITSIZE - Len(n)
  BY <1>5
<1>7. \A u \in Path : Len(u) <= Len(n)
  <2> SUFFICES ASSUME NEW u \in Path PROVE Len(u) <= Len(n)
    OBVIOUS
  <2>1. SIZE_T_BITSIZE - Len(n) <= SIZE_T_BITSIZE - Len(u)
    BY <1>5, <1>6
  <2>2. Len(u) \in 0..SIZE_T_BITSIZE /\ Len(n) \in 0..SIZE_T_BITSIZE
    BY <1>1, <1>2, <1>6
  <2> QED BY <1>1, <2>1, <2>2
<1>8. ASSUME NEW b \in {0, 1}, n \o <<b>> \in Path PROVE FALSE
  <2>1. n \in Places /\ Len(n) \in 0..SIZE_T_BITSIZE /\ Len(n \o <<b>>) = Len(n) + 1
    BY <1>1, <1>2, <1>6, ChildIs
  <2>2. Len(n) \in Nat
    BY <1>1, <2>1
  <2>3. Len(n) + 1 <= Len(n)
    BY <1>7, <1>8, <2>1
  <2> QED BY <2>2, <2>3
<1>9. n \o <<1>> \notin D
  <2> SUFFICES ASSUME n \o << 1 >> \in D PROVE FALSE
    OBVIOUS
  <2>1. n \o <<1>> \in Path
    BY <1>1, <1>6, DescentGoesOn DEF Path, D
  <2> QED BY <1>8, <2>1
<1>10. n \o <<0>> \notin D
  <2> SUFFICES ASSUME n \o << 0 >> \in D PROVE FALSE
    OBVIOUS
  <2>1. n \o <<0>> \in Path
    BY <1>1, <1>6, <1>9, DescentGoesOn DEF Path, D
  <2> QED BY <1>8, <2>1
<1>11. /\ n \in DOMAIN tree /\ IsPrefix(t, n) /\ n \o <<0>> \notin DOMAIN tree
       /\ n \o <<1>> \notin DOMAIN tree
       /\ \A k \in Len(t) + 1..Len(n) : n[k] = 0 => SubSeq(n, 1, k - 1) \o <<1>> \notin DOMAIN tree
  <2>1. 1 - 1 = 0
    OBVIOUS
  <2> QED BY <1>1, <1>6, <1>9, <1>10, <2>1 DEF Path, D, Descent
<1> QED BY <1>11 DEF RightmostLeaf

\* What is below a node agrees with it in the bits that lead there.
LEMMA BelowIs ==
    ASSUME NEW sz, NEW i \in TreeBins, Shape(sz, i), NEW t \in DOMAIN sz, NEW u \in DOMAIN sz,
           IsPrefix(t, u)
    PROVE  Len(t) \in 0..Len(u) /\ t = Down(i, sz[u], Len(t))
           /\ \A e \in 1..Len(t) : t[e] = SizeBits(i, sz[u])[e]
<1>1. /\ t \in Places /\ Len(t) \in 0..SIZE_T_BITSIZE /\ u \in Places /\ Len(u) \in 0..SIZE_T_BITSIZE
      /\ sz[u] \in Nat
      /\ \A e \in 1..Len(u) : u[e] = SizeBits(i, sz[u])[e]
  BY NodeIs
<1>2. Len(t) <= Len(u) /\ \A e \in 1..Len(t) : t[e] = u[e]
  BY <1>1, PrefixIs
<1>3. \A e \in 1..Len(t) : e \in 1..Len(u)
  BY <1>1, <1>2
<1>4. \A e \in 1..Len(t) : t[e] = SizeBits(i, sz[u])[e]
  BY <1>1, <1>2, <1>3
<1> DEFINE g == Down(i, sz[u], Len(t))
<1>5. g \in Places /\ Len(g) = Len(t) /\ \A e \in 1..Len(t) : g[e] = SizeBits(i, sz[u])[e]
  BY <1>1, DownIs DEF Places, TreeBins
<1> HIDE DEF g
<1>6. t = g
  BY <1>1, <1>4, <1>5, SeqEqual DEF Places
<1> QED BY <1>1, <1>2, <1>4, <1>6 DEF g

\* The next place on the way down.
LEMMA DownNext ==
    ASSUME NEW i \in TreeBins, NEW s \in Nat, NEW d \in 0..SIZE_T_BITSIZE - 1, NEW b,
           b = SizeBits(i, s)[d + 1]
    PROVE  Down(i, s, d + 1) = Down(i, s, d) \o <<b>> /\ b \in {0, 1}
<1> DEFINE g == Down(i, s, d + 1)
           n == Down(i, s, d)
           u == n \o <<b>>
<1>1. /\ SIZE_T_BITSIZE \in Nat /\ d \in 0..SIZE_T_BITSIZE /\ d + 1 \in 0..SIZE_T_BITSIZE
      /\ d + 1 \in 1..SIZE_T_BITSIZE /\ d \in Nat
  BY IndexBounds
<1>2. b \in {0, 1}
  BY <1>1, SizeBitIs DEF TreeBins
<1>3. g \in Places /\ Len(g) = d + 1 /\ \A e \in 1..d + 1 : g[e] = SizeBits(i, s)[e]
  BY <1>1, DownIs DEF Places, TreeBins
<1>4. n \in Places /\ Len(n) = d /\ \A e \in 1..d : n[e] = SizeBits(i, s)[e]
  BY <1>1, DownIs DEF Places, TreeBins
<1> HIDE DEF g, n
<1>5. u \in Places /\ Len(u) = d + 1 /\ u[d + 1] = b /\ \A e \in 1..d : u[e] = n[e]
  BY <1>2, <1>4, ChildIs
<1> HIDE DEF u
<1>6. \A e \in 1..d + 1 : g[e] = u[e]
  <2>1. \A e \in 1..d + 1 : e \in 1..d \/ e = d + 1
    BY <1>1
  <2> QED BY <1>3, <1>4, <1>5, <2>1
<1>7. g = u
  BY <1>3, <1>5, <1>6, SeqEqual DEF Places
<1> QED BY <1>2, <1>7 DEF g, u, n

\* The bit where a size and the place of a node part.
PartAt(sz, i, u, s, k) ==
    /\ k \in 0..SIZE_T_BITSIZE - 1 /\ k < Len(u)
    /\ \A e \in 1..k : SizeBits(i, sz[u])[e] = SizeBits(i, s)[e]
    /\ u[k + 1] = SizeBits(i, sz[u])[k + 1] /\ u[k + 1] # SizeBits(i, s)[k + 1]
    /\ SubSeq(u, 1, k) = Down(i, s, k)

LEMMA WaysPart ==
    ASSUME NEW sz, NEW i \in TreeBins, Shape(sz, i), NEW u \in DOMAIN sz, NEW s \in Nat,
           u # Down(i, s, Len(u))
    PROVE  \E k : PartAt(sz, i, u, s, k)
<1> DEFINE Off == {k \in Nat : k < Len(u) /\ u[k + 1] # SizeBits(i, s)[k + 1]}
<1>1. /\ sz[u] \in Nat /\ u \in Places /\ Len(u) \in 0..SIZE_T_BITSIZE /\ SIZE_T_BITSIZE \in Nat
      /\ \A e \in 1..Len(u) : u[e] = SizeBits(i, sz[u])[e]
  BY NodeIs, IndexBounds
<1>2. Off # {}
  <2> SUFFICES ASSUME Off = {} PROVE FALSE
    OBVIOUS
  <2> DEFINE g == Down(i, s, Len(u))
  <2>1. g \in Places /\ Len(g) = Len(u) /\ \A e \in 1..Len(u) : g[e] = SizeBits(i, s)[e]
    BY <1>1, DownIs DEF Places, TreeBins
  <2>2. u # g
    OBVIOUS
  <2> HIDE DEF g
  <2>3. ASSUME NEW e \in 1..Len(u) PROVE u[e] = g[e]
    <3>1. e - 1 \in Nat /\ e - 1 < Len(u) /\ (e - 1) + 1 = e
      BY <1>1
    <3>2. ~(u[(e - 1) + 1] # SizeBits(i, s)[(e - 1) + 1])
      BY <3>1
    <3> QED BY <2>1, <3>1, <3>2
  <2> QED BY <1>1, <2>1, <2>2, <2>3, SeqEqual DEF Places
<1>3. PICK k \in Off : \A y \in Off : k <= y
  <2>1. Off \subseteq Nat
    OBVIOUS
  <2> HIDE DEF Off
  <2> QED BY <1>2, <2>1, LeastNumber
<1>4. /\ k \in Nat /\ k < Len(u) /\ u[k + 1] # SizeBits(i, s)[k + 1] /\ k \in 0..SIZE_T_BITSIZE - 1
      /\ k + 1 \in 1..Len(u)
      /\ k \in 0..SIZE_T_BITSIZE
  BY <1>1
<1>5. \A e \in 1..k : u[e] = SizeBits(i, s)[e] /\ e \in 1..Len(u)
  <2> SUFFICES ASSUME NEW e \in 1..k PROVE u[e] = SizeBits(i, s)[e] /\ e \in 1..Len(u)
    OBVIOUS
  <2>1. e - 1 \in Nat /\ e - 1 < Len(u) /\ (e - 1) + 1 = e /\ ~(k <= e - 1) /\ e \in 1..Len(u)
    BY <1>1, <1>4
  <2>2. e - 1 \notin Off
    BY <1>3, <2>1
  <2>3. u[(e - 1) + 1] = SizeBits(i, s)[(e - 1) + 1]
    BY <2>1, <2>2
  <2> QED BY <2>1, <2>3
<1>7. SubSeq(u, 1, k) = Down(i, s, k)
  <2> DEFINE f == SubSeq(u, 1, k)
             g == Down(i, s, k)
  <2>1. k \in 0..Len(u)
    BY <1>1, <1>4
  <2>2. f \in Places /\ Len(f) = k /\ \A e \in 1..k : f[e] = u[e]
    BY <1>1, <2>1, CutIs
  <2>3. g \in Places /\ Len(g) = k /\ \A e \in 1..k : g[e] = SizeBits(i, s)[e]
    BY <1>4, DownIs DEF Places, TreeBins
  <2> HIDE DEF f, g
  <2>4. f = g
    BY <1>5, <2>2, <2>3, SeqEqual DEF Places
  <2> QED BY <2>4 DEF f, g
<1>8. \A e \in 1..k : SizeBits(i, sz[u])[e] = SizeBits(i, s)[e]
  BY <1>1, <1>5
<1>9. PartAt(sz, i, u, s, k)
  BY <1>1, <1>4, <1>7, <1>8 DEF PartAt
<1> QED BY <1>9

\* The least size below a node is met when a descent goes left.
LEMMA SpineHasLeast ==
    ASSUME NEW sz, NEW i \in TreeBins, Shape(sz, i), NEW t \in DOMAIN sz, NEW u \in DOMAIN sz,
           IsPrefix(t, u),
           NEW tree, DOMAIN tree = DOMAIN sz
    PROVE  \E n \in LeftSpine(tree, t) : n \in DOMAIN sz /\ IsPrefix(t, n) /\ sz[n] <= sz[u]
<1> DEFINE D == DOMAIN sz
           Path == Descent(D, t, 0)
           T == {l \in Nat : l <= Len(u) /\ Down(i, sz[u], Len(u) - l) \in Path}
<1>1. D \subseteq Places /\ SIZE_T_BITSIZE \in Nat /\ \A n \in Path : n \in D /\ IsPrefix(t, n)
  BY IndexBounds DEF Shape, Descent
<1>2. /\ u \in Places /\ Len(u) \in 0..SIZE_T_BITSIZE /\ sz[u] \in Nat /\ Large(sz[u])
      /\ compute_tree_index(sz[u]) = i
      /\ u = Down(i, sz[u], Len(u))
  BY NodeIs
<1>3. LeftSpine(tree, t) = Path
  <2>1. 1 - 0 = 1
    OBVIOUS
  <2> QED BY <2>1 DEF LeftSpine, Descent
<1>4. T # {} /\ T \subseteq Nat
  <2>1. Len(t) \in 0..Len(u) /\ t = Down(i, sz[u], Len(t))
    BY BelowIs
  <2>2. t \in Path
    BY <1>1, DescentBegins
  <2> HIDE DEF Path
  <2>3. Len(u) - Len(t) \in Nat /\ Len(u) - (Len(u) - Len(t)) = Len(t) /\ Len(u) - Len(t) <= Len(u)
    BY <1>2, <2>1
  <2>4. Len(u) - Len(t) \in T
    BY <2>1, <2>2, <2>3
  <2> QED BY <2>4
<1> HIDE DEF Path
<1>5. PICK l \in T : \A y \in T : l <= y
  <2> HIDE DEF T
  <2> QED BY <1>4, LeastNumber
<1> DEFINE k == Len(u) - l
           v == Down(i, sz[u], k)
<1>6. l \in Nat /\ k \in 0..Len(u) /\ k \in 0..SIZE_T_BITSIZE /\ v \in Path
  <2>1. l \in Nat /\ l <= Len(u) /\ v \in Path
    BY <1>5
  <2> HIDE DEF v, T
  <2>2. k \in 0..Len(u) /\ k \in 0..SIZE_T_BITSIZE
    BY <1>1, <1>2, <2>1
  <2> QED BY <2>1, <2>2
<1>7. CASE l = 0
  <2>1. v = u
    BY <1>2, <1>6, <1>7
  <2>2. sz[u] <= sz[u]
    BY <1>2
  <2> HIDE DEF v
  <2> QED BY <1>3, <1>1, <1>6, <2>1, <2>2
<1>8. CASE l # 0
  <2> DEFINE w == Down(i, sz[u], k + 1)
             b == SizeBits(i, sz[u])[k + 1]
  <2>1. /\ l - 1 \in Nat /\ l - 1 <= Len(u) /\ Len(u) - (l - 1) = k + 1 /\ ~(l <= l - 1)
        /\ k \in 0..SIZE_T_BITSIZE - 1 /\ k + 1 \in 0..Len(u)
    <3> HIDE DEF v, T, Path
    <3> QED BY <1>1, <1>2, <1>6, <1>8
  <2>2. w \notin Path
    <3>1. l - 1 \notin T
      <4> HIDE DEF T, k
      <4> QED BY <1>5, <2>1
    <3> QED BY <2>1, <3>1
  <2>3. w \in D
    BY <2>1, WayIsThere
  <2>4. w = v \o <<b>> /\ b \in {0, 1}
    BY <1>2, <2>1, DownNext
  <2>5. v \in D /\ IsPrefix(t, v) /\ v \in Places
    BY <1>1, <1>6
  <2>10. /\ Len(v) = k /\ \A e \in 1..k : v[e] = SizeBits(i, sz[u])[e]
    BY <1>2, <1>6, DownIs DEF TreeBins
  <2> HIDE DEF v, w, b, D, k
  <2>6. ~(b = 0 \/ v \o <<0>> \notin D)
    BY <1>1, <1>6, <2>2, <2>3, <2>4, DescentGoesOn DEF Path, D
  <2> DEFINE x == v \o <<0>>
  <2>7. x \in Path /\ x \in D
    BY <1>1, <1>6, <2>6, DescentGoesOn DEF Path, D
  <2>8. /\ sz[x] \in Nat /\ Large(sz[x]) /\ compute_tree_index(sz[x]) = i /\ x \in Places
        /\ Len(x) = k + 1
        /\ \A e \in 1..Len(x) : x[e] = SizeBits(i, sz[x])[e]
        /\ x[k + 1] = 0 /\ \A e \in 1..k : x[e] = v[e]
    <3>1. x \in Places /\ Len(x) = k + 1 /\ x[k + 1] = 0 /\ \A e \in 1..k : x[e] = v[e]
      BY <2>5, <2>10, ChildIs
    <3> HIDE DEF x
    <3>2. /\ sz[x] \in Nat /\ Large(sz[x]) /\ compute_tree_index(sz[x]) = i
          /\ \A e \in 1..Len(x) : x[e] = SizeBits(i, sz[x])[e]
      BY <2>7, NodeIs DEF D
    <3> QED BY <3>1, <3>2
  <2> HIDE DEF x
  <2>9. sz[x] < sz[u]
    <3>1. \A e \in 1..k : e \in 1..k + 1
      BY <2>1
    <3>2. k + 1 \in 1..k + 1
      BY <2>1
    <3>3. \A e \in 1..k : SizeBits(i, sz[x])[e] = SizeBits(i, sz[u])[e]
      BY <2>8, <2>10, <3>1
    <3>4. SizeBits(i, sz[x])[k + 1] = 0 /\ SizeBits(i, sz[u])[k + 1] = 1
      BY <2>8, <3>2, <2>6, <2>4 DEF b
    <3> QED BY <1>2, <2>1, <2>8, <3>3, <3>4, BitsOrder
  <2>11. sz[x] <= sz[u]
    BY <1>2, <2>8, <2>9
  <2> QED BY <1>1, <1>3, <2>7, <2>11 DEF D
<1> QED BY <1>7, <1>8

------------------------------------------------------------------------------
(* What a tree, and all the bins, keep.                                       *)

\* The chunks of one size.
OfSize(X, s) == {p \in DOMAIN X : X[p] = s}
WithoutChunk(X, x) == [p \in DOMAIN X \ {x} |-> X[p]]

\* A tree keeps the chunks of the sizes of its bin.
Holds(tree, sz, i, X) ==
    /\ DOMAIN sz = DOMAIN tree /\ Shape(sz, i) /\ tree = [t \in DOMAIN tree |-> tree[t]]
    /\ \A t \in DOMAIN tree : Distinct(tree[t]) /\ tree[t] # <<>> /\ Range(tree[t]) = OfSize(X, sz[t])
    /\ \A p \in DOMAIN X : Large(X[p])
       /\ compute_tree_index(X[p]) = i => \E t \in DOMAIN sz : sz[t] = X[p]

TreeHolds(tree, i, X) == \E sz : Holds(tree, sz, i, X)

\* A chunk of size s joins the chunks of a size.
LEMMA OfWith ==
    ASSUME NEW X, NEW x, x \notin DOMAIN X, NEW s
    PROVE  /\ OfSize(With(X, x, s), s) = OfSize(X, s) \cup {x}
           /\ \A r : r # s => OfSize(With(X, x, s), r) = OfSize(X, r)
           /\ DOMAIN With(X, x, s) = DOMAIN X \cup {x}
           /\ With(X, x, s)[x] = s /\ \A p \in DOMAIN X : With(X, x, s)[p] = X[p]
BY DEF With, OfSize

\* A chunk leaves the chunks of a size.
LEMMA OfMinus ==
    ASSUME NEW X, NEW x \in DOMAIN X
    PROVE  /\ OfSize(WithoutChunk(X, x), X[x]) = OfSize(X, X[x]) \ {x}
           /\ \A r : r # X[x] => OfSize(WithoutChunk(X, x), r) = OfSize(X, r)
           /\ DOMAIN WithoutChunk(X, x) = DOMAIN X \ {x}
           /\ \A p \in DOMAIN X \ {x} : WithoutChunk(X, x)[p] = X[p]
BY DEF WithoutChunk, OfSize

\* The first chunk of a node has the size of the node.
LEMMA FirstIs ==
    ASSUME NEW tree, NEW sz, NEW i, NEW X, Holds(tree, sz, i, X), NEW t \in DOMAIN tree
    PROVE  /\ tree[t][1] \in Range(tree[t]) /\ tree[t][1] \in DOMAIN X /\ X[tree[t][1]] = sz[t]
           /\ Len(tree[t]) \in Nat /\ Len(tree[t]) >= 1 /\ Head(tree[t]) = tree[t][1]
<1>1. Distinct(tree[t]) /\ tree[t] # <<>> /\ Range(tree[t]) = OfSize(X, sz[t])
  BY DEF Holds
<1>2. tree[t] \in Seq(Nat) /\ Len(tree[t]) \in Nat /\ Len(tree[t]) >= 1
  BY <1>1 DEF Distinct
<1>3. 1 \in 1..Len(tree[t])
  BY <1>2
<1>4. tree[t][1] \in Range(tree[t])
  BY <1>2, <1>3, SequenceRange
<1> QED BY <1>1, <1>2, <1>4 DEF OfSize

\* A tree does not tell what another bin keeps.
LEMMA OtherBin ==
    ASSUME NEW tree, NEW i \in TreeBins, NEW X, TreeHolds(tree, i, X), NEW Y,
           \A s : Large(s) /\ compute_tree_index(s) = i => OfSize(Y, s) = OfSize(X, s)
    PROVE  TreeHolds(tree, i, Y)
<1>1. PICK sz : Holds(tree, sz, i, X)
  BY DEF TreeHolds
<1>2. \A t \in DOMAIN tree : Large(sz[t]) /\ compute_tree_index(sz[t]) = i
  BY <1>1 DEF Holds, Shape
<1>3. ASSUME NEW p \in DOMAIN Y, Large(Y[p]), compute_tree_index(Y[p]) = i
      PROVE  \E t \in DOMAIN sz : sz[t] = Y[p]
  <2>1. p \in OfSize(X, Y[p])
    BY <1>3 DEF OfSize
  <2>2. p \in DOMAIN X /\ X[p] = Y[p]
    BY <2>1 DEF OfSize
  <2> QED BY <1>1, <1>3, <2>2 DEF Holds
<1>4. Holds(tree, sz, i, Y)
  <2>1. \A t \in DOMAIN tree : Range(tree[t]) = OfSize(Y, sz[t])
    BY <1>1, <1>2 DEF Holds
  <2> QED BY <1>1, <1>3, <2>1 DEF Holds
<1> QED BY <1>4 DEF TreeHolds

\* An empty treebin keeps no chunk.
LEMMA NoTree ==
    ASSUME NEW i \in TreeBins, NEW X, \A p \in DOMAIN X : ~(Large(X[p]) /\ compute_tree_index(X[p]) = i)
    PROVE  Holds(<<>>, <<>>, i, X)
<1>1. DOMAIN <<>> = {} /\ <<>> = [t \in DOMAIN <<>> |-> <<>>[t]]
  OBVIOUS
<1> QED BY <1>1 DEF Holds, Shape

\* A size that is there.
LEMMA JoinsChain ==
    ASSUME NEW tree, NEW sz, NEW i \in TreeBins, NEW X, Holds(tree, sz, i, X),
           NEW x \in Nat, x \notin DOMAIN X, NEW t \in DOMAIN tree
    PROVE  Holds([tree EXCEPT ![t] = <<Head(@), x>> \o Tail(@)], sz, i, With(X, x, sz[t]))
<1> DEFINE r == <<Head(tree[t]), x>> \o Tail(tree[t])
           Y == With(X, x, sz[t])
           tree2 == [tree EXCEPT ![t] = r]
<1>1. Distinct(tree[t]) /\ tree[t] # <<>> /\ Range(tree[t]) = OfSize(X, sz[t])
  BY DEF Holds
<1>2. x \notin Range(tree[t])
  BY <1>1 DEF OfSize
<1>3. Distinct(r) /\ Range(r) = Range(tree[t]) \cup {x} /\ r # <<>>
  BY <1>1, <1>2, AtTheSecond
<1> HIDE DEF r
<1>4. OfSize(Y, sz[t]) = OfSize(X, sz[t]) \cup {x} /\ (\A s : s # sz[t] => OfSize(Y, s) = OfSize(X, s))
      /\ DOMAIN Y = DOMAIN X \cup {x} /\ Y[x] = sz[t] /\ \A p \in DOMAIN X : Y[p] = X[p]
  BY DEF With, OfSize
<1> HIDE DEF Y
<1>5. /\ DOMAIN tree2 = DOMAIN tree /\ tree2[t] = r
         /\ \A n \in DOMAIN tree : n # t => tree2[n] = tree[n]
      /\ tree2 = [n \in DOMAIN tree2 |-> tree2[n]]
  BY DEF Holds
<1> HIDE DEF tree2
<1>6. ASSUME NEW n \in DOMAIN tree
      PROVE  Distinct(tree2[n]) /\ tree2[n] # <<>> /\ Range(tree2[n]) = OfSize(Y, sz[n])
  <2>1. CASE n = t
    BY <1>1, <1>3, <1>4, <1>5, <2>1
  <2>2. CASE n # t
    <3>1. sz[n] # sz[t]
      BY <2>2 DEF Holds, Shape
    <3> QED BY <1>4, <1>5, <2>2, <3>1 DEF Holds
  <2> QED BY <2>1, <2>2
<1>7. \A p \in DOMAIN Y : Large(Y[p])
      /\ compute_tree_index(Y[p]) = i => \E n \in DOMAIN sz : sz[n] = Y[p]
  BY <1>4 DEF Holds
<1>8. Holds(tree2, sz, i, Y)
  BY <1>5, <1>6, <1>7 DEF Holds
<1> QED BY <1>8 DEF tree2, Y, r

\* A size that is new.
LEMMA JoinsAsLeaf ==
    ASSUME NEW tree, NEW sz, NEW i \in TreeBins, NEW X, Holds(tree, sz, i, X),
           NEW x \in Nat, x \notin DOMAIN X, NEW s, Large(s), compute_tree_index(s) = i,
           \A t \in DOMAIN sz : sz[t] # s
    PROVE  LET leaf == Down(i, s, Cardinality(OnTheWay(tree, i, s))) IN
           Holds(With(tree, leaf, <<x>>), With(sz, leaf, s), i, With(X, x, s))
<1> DEFINE leaf == Down(i, s, Cardinality(OnTheWay(tree, i, s)))
           Y == With(X, x, s)
           tree2 == With(tree, leaf, <<x>>)
           sz2 == With(sz, leaf, s)
<1>1. leaf \notin DOMAIN sz /\ leaf \in Places /\ Shape(sz2, i)
  BY LeafJoins DEF Holds
<1> HIDE DEF leaf
<1>2. /\ DOMAIN tree2 = DOMAIN tree \cup {leaf} /\ tree2[leaf] = <<x>>
      /\ \A n \in DOMAIN tree : tree2[n] = tree[n]
      /\ tree2 = [n \in DOMAIN tree2 |-> tree2[n]]
      /\ DOMAIN sz2 = DOMAIN sz \cup {leaf} /\ sz2[leaf] = s /\ \A n \in DOMAIN sz : sz2[n] = sz[n]
  BY <1>1 DEF With, Holds
<1>3. OfSize(Y, s) = OfSize(X, s) \cup {x} /\ (\A r : r # s => OfSize(Y, r) = OfSize(X, r))
      /\ DOMAIN Y = DOMAIN X \cup {x} /\ Y[x] = s /\ \A p \in DOMAIN X : Y[p] = X[p]
  BY DEF With, OfSize
<1> HIDE DEF Y, tree2, sz2
<1>4. OfSize(X, s) = {}
  <2> SUFFICES ASSUME NEW p \in DOMAIN X, X[p] = s PROVE FALSE
    BY DEF OfSize
  <2> QED BY DEF Holds
<1>5. Distinct(<<x>>) /\ <<x>> # <<>> /\ Range(<<x>>) = {x}
  BY DEF Distinct, IsInjective, Range
<1>6. ASSUME NEW n \in DOMAIN tree2
      PROVE  Distinct(tree2[n]) /\ tree2[n] # <<>> /\ Range(tree2[n]) = OfSize(Y, sz2[n])
  <2>1. CASE n = leaf
    BY <1>2, <1>3, <1>4, <1>5, <2>1
  <2>2. CASE n \in DOMAIN tree
    BY <1>2, <1>3, <2>2 DEF Holds
  <2> QED BY <1>2, <2>1, <2>2
<1>7. ASSUME NEW p \in DOMAIN Y, Large(Y[p]), compute_tree_index(Y[p]) = i
      PROVE  \E n \in DOMAIN sz2 : sz2[n] = Y[p]
  <2>1. CASE p = x
    BY <1>2, <1>3, <2>1
  <2>2. CASE p \in DOMAIN X
    <3>1. \E n \in DOMAIN sz : sz[n] = X[p]
      BY <1>3, <1>7, <2>2 DEF Holds
    <3> QED BY <1>2, <1>3, <2>2, <3>1
  <2> QED BY <1>3, <2>1, <2>2
<1>8. Holds(tree2, sz2, i, Y)
  BY <1>1, <1>2, <1>6, <1>7 DEF Holds
<1> QED BY <1>8 DEF tree2, sz2, Y, leaf

\* The node that keeps a chunk.
LEMMA KeptAt ==
    ASSUME NEW tree, NEW sz, NEW i, NEW X, Holds(tree, sz, i, X), NEW x \in DOMAIN X,
           Large(X[x]), compute_tree_index(X[x]) = i
    PROVE  LET t == CHOOSE n \in DOMAIN tree : x \in Range(tree[n]) IN
           t \in DOMAIN tree /\ x \in Range(tree[t]) /\ sz[t] = X[x]
<1>1. PICK n \in DOMAIN tree : sz[n] = X[x]
  BY DEF Holds
<1>2. x \in Range(tree[n])
  BY <1>1 DEF Holds, OfSize
<1>3. \A t \in DOMAIN tree : x \in Range(tree[t]) => sz[t] = X[x]
  BY DEF Holds, OfSize
<1> QED BY <1>1, <1>2, <1>3

\* A chunk leaves a chain of several.
LEMMA LeavesChain ==
    ASSUME NEW tree, NEW sz, NEW i \in TreeBins, NEW X, Holds(tree, sz, i, X), NEW x \in DOMAIN X,
           NEW t \in DOMAIN tree, x \in Range(tree[t]), Len(tree[t]) > 1
    PROVE  Holds([tree EXCEPT ![t] = IF Head(tree[t]) = x THEN <<Last(tree[t])>> \o Front(Tail(tree[t]))
                                     ELSE RemoveFirst(tree[t], x)], sz, i, WithoutChunk(X, x))
<1> DEFINE r == IF Head(tree[t]) = x THEN <<Last(tree[t])>> \o Front(Tail(tree[t]))
                                     ELSE RemoveFirst(tree[t], x)
           Y == WithoutChunk(X, x)
           tree2 == [tree EXCEPT ![t] = r]
<1>1. /\ Distinct(tree[t]) /\ tree[t] # <<>> /\ Range(tree[t]) = OfSize(X, sz[t])
      /\ Head(tree[t]) = tree[t][1]
      /\ tree[t][1] \in Range(tree[t]) /\ X[x] = sz[t] /\ Len(tree[t]) \in Nat
  BY FirstIs DEF Holds, OfSize
<1>2. Distinct(r) /\ Range(r) = Range(tree[t]) \ {x} /\ r # <<>>
  <2>1. CASE Head(tree[t]) = x
    <3>1. r = <<Last(tree[t])>> \o Front(Tail(tree[t]))
      BY <2>1
    <3> HIDE DEF r
    <3> QED BY <1>1, <2>1, <3>1, FirstReplaced
  <2>2. CASE Head(tree[t]) # x
    <3>1. r = RemoveFirst(tree[t], x)
      BY <2>2
    <3>2. tree[t][1] \in Range(r) /\ Distinct(r) /\ Range(r) = Range(tree[t]) \ {x}
      <4> HIDE DEF r
      <4> QED BY <1>1, <2>2, <3>1, TakenOut
    <3>3. r # <<>>
      <4> HIDE DEF r
      <4>1. r \in Seq(Nat)
        BY <3>2 DEF Distinct
      <4> QED BY <3>2, <4>1, SequenceRange
    <3> QED BY <3>2, <3>3
  <2> QED BY <2>1, <2>2
<1> HIDE DEF r
<1>4. OfSize(Y, sz[t]) = OfSize(X, sz[t]) \ {x} /\ (\A s : s # sz[t] => OfSize(Y, s) = OfSize(X, s))
      /\ DOMAIN Y = DOMAIN X \ {x} /\ \A p \in DOMAIN Y : Y[p] = X[p]
  BY <1>1 DEF WithoutChunk, OfSize
<1> HIDE DEF Y
<1>5. /\ DOMAIN tree2 = DOMAIN tree /\ tree2[t] = r
         /\ \A n \in DOMAIN tree : n # t => tree2[n] = tree[n]
      /\ tree2 = [n \in DOMAIN tree2 |-> tree2[n]]
  BY DEF Holds
<1> HIDE DEF tree2
<1>6. ASSUME NEW n \in DOMAIN tree
      PROVE  Distinct(tree2[n]) /\ tree2[n] # <<>> /\ Range(tree2[n]) = OfSize(Y, sz[n])
  <2>1. CASE n = t
    BY <1>1, <1>2, <1>4, <1>5, <2>1
  <2>2. CASE n # t
    <3>1. sz[n] # sz[t]
      BY <2>2 DEF Holds, Shape
    <3> QED BY <1>4, <1>5, <2>2, <3>1 DEF Holds
  <2> QED BY <2>1, <2>2
<1>7. \A p \in DOMAIN Y : Large(Y[p])
      /\ compute_tree_index(Y[p]) = i => \E n \in DOMAIN sz : sz[n] = Y[p]
  BY <1>4 DEF Holds
<1>8. Holds(tree2, sz, i, Y)
  BY <1>5, <1>6, <1>7 DEF Holds
<1> QED BY <1>8 DEF tree2, Y, r

\* The last chunk of a size: a leaf takes the place of its node.
LEMMA LeavesTree ==
    ASSUME NEW tree, NEW sz, NEW i \in TreeBins, NEW X, Holds(tree, sz, i, X), NEW x \in DOMAIN X,
           NEW t \in DOMAIN tree, x \in Range(tree[t]), ~(Len(tree[t]) > 1)
    PROVE  LET leaf == RightmostLeaf(tree, t) IN
           \E sz2 : Holds([n \in DOMAIN tree \ {leaf} |-> IF n = t THEN tree[leaf] ELSE tree[n]],
                          sz2, i, WithoutChunk(X, x))
<1> DEFINE leaf == RightmostLeaf(tree, t)
           Y == WithoutChunk(X, x)
           tree2 == [n \in DOMAIN tree \ {leaf} |-> IF n = t THEN tree[leaf] ELSE tree[n]]
           sz2 == [n \in DOMAIN sz \ {leaf} |-> IF n = t THEN sz[leaf] ELSE sz[n]]
<1>1. Distinct(tree[t]) /\ tree[t] # <<>> /\ Range(tree[t]) = OfSize(X, sz[t])
      /\ X[x] = sz[t] /\ Len(tree[t]) \in Nat /\ Len(tree[t]) >= 1
  BY FirstIs DEF Holds, OfSize
<1>2. OfSize(X, sz[t]) = {x}
  <2>1. tree[t] \in Seq(Nat) /\ 1..Len(tree[t]) = {1}
    BY <1>1 DEF Distinct
  <2>2. \A y \in Range(tree[t]) : y = tree[t][1]
    BY <2>1, SequenceRange
  <2> QED BY <1>1, <2>2
<1>3. /\ leaf \in DOMAIN sz /\ IsPrefix(t, leaf)
      /\ leaf \o <<0>> \notin DOMAIN sz /\ leaf \o <<1>> \notin DOMAIN sz
  BY RightmostLeafIs DEF Holds
<1>4. Shape(sz2, i)
  <2>1. Shape(sz, i) /\ t \in DOMAIN sz
    BY DEF Holds
  <2> HIDE DEF leaf
  <2> QED BY <1>3, <2>1, LeafMoves
<1>5. OfSize(Y, sz[t]) = {} /\ (\A s : s # sz[t] => OfSize(Y, s) = OfSize(X, s))
      /\ DOMAIN Y = DOMAIN X \ {x} /\ \A p \in DOMAIN Y : Y[p] = X[p]
  BY <1>1, <1>2 DEF WithoutChunk, OfSize
<1> HIDE DEF leaf, Y
<1>6. /\ DOMAIN tree2 = DOMAIN tree \ {leaf} /\ DOMAIN sz2 = DOMAIN tree2
      /\ tree2 = [n \in DOMAIN tree2 |-> tree2[n]]
      /\ \A n \in DOMAIN tree2 : LET o == IF n = t THEN leaf ELSE n IN
            /\ o \in DOMAIN sz /\ tree2[n] = tree[o] /\ sz2[n] = sz[o]
            /\ o # t
  BY <1>3 DEF Holds
<1>7. \A o \in DOMAIN sz : o # t => \E n \in DOMAIN tree2 : sz2[n] = sz[o]
  <2> SUFFICES ASSUME NEW o \in DOMAIN sz, o # t PROVE \E n \in DOMAIN tree2 : sz2[n] = sz[o]
    OBVIOUS
  <2>1. CASE o = leaf
    BY <2>1 DEF Holds
  <2>2. CASE o # leaf
    BY <2>2 DEF Holds
  <2> QED BY <2>1, <2>2
<1> HIDE DEF tree2, sz2
<1>8. ASSUME NEW n \in DOMAIN tree2
      PROVE  Distinct(tree2[n]) /\ tree2[n] # <<>> /\ Range(tree2[n]) = OfSize(Y, sz2[n])
  <2>1. PICK o \in DOMAIN sz : tree2[n] = tree[o] /\ sz2[n] = sz[o] /\ o # t
    BY <1>6
  <2>2. sz[o] # sz[t]
    BY <2>1 DEF Holds, Shape
  <2>3. o \in DOMAIN tree
    BY DEF Holds
  <2> QED BY <1>5, <2>1, <2>2, <2>3 DEF Holds
<1>9. ASSUME NEW p \in DOMAIN Y, Large(Y[p]), compute_tree_index(Y[p]) = i
      PROVE  \E n \in DOMAIN sz2 : sz2[n] = Y[p]
  <2>1. p \in DOMAIN X /\ p # x /\ Y[p] = X[p]
    BY <1>5
  <2>2. PICK o \in DOMAIN sz : sz[o] = X[p]
    BY <1>9, <2>1 DEF Holds
  <2>3. o # t
    BY <1>2, <2>1, <2>2 DEF OfSize
  <2> QED BY <1>6, <1>7, <2>1, <2>2, <2>3
<1>10. Holds(tree2, sz2, i, Y)
  BY <1>4, <1>6, <1>8, <1>9 DEF Holds
<1> QED BY <1>10 DEF tree2, sz2, Y, leaf

Fields == {"mem", "smallmap", "treemap", "smallbins", "treebins", "dv", "dvsize", "top", "topsize",
           "least_addr", "seg"}
SmallBins == MIN_CHUNK_SIZE..MIN_LARGE_SIZE - 1

SmallStored(m, X) ==
    /\ m.smallmap \subseteq SmallBins /\ DOMAIN m.smallbins = SmallBins
    /\ \A i \in SmallBins : /\ Distinct(m.smallbins[i]) /\ Range(m.smallbins[i]) = OfSize(X, i)
                            /\ i \in m.smallmap <=> m.smallbins[i] # <<>>

LargeStored(m, X) ==
    /\ m.treemap \subseteq TreeBins /\ DOMAIN m.treebins = TreeBins
    /\ \A i \in TreeBins : TreeHolds(m.treebins[i], i, X) /\ (i \in m.treemap <=> m.treebins[i] # <<>>)

\* The bins keep the chunks of X by their sizes, which their heads show.
Stored(m, X) ==
    /\ DOMAIN m = Fields /\ DOMAIN X \subseteq Nat
    /\ \A p \in DOMAIN X : X[p] \in MIN_CHUNK_SIZE..MAX_SIZE_T
    /\ SmallStored(m, X) /\ LargeStored(m, X)

Shown(m, X) == \A p \in DOMAIN X : chunksize(m, p) = X[p]

\* All but the bins is the same.
SameButBins(m, n) ==
    /\ DOMAIN n = DOMAIN m /\ n.mem = m.mem /\ n.dv = m.dv /\ n.dvsize = m.dvsize /\ n.top = m.top
    /\ n.topsize = m.topsize /\ n.least_addr = m.least_addr /\ n.seg = m.seg

\* What a smallbin keeps.
LEMMA SmallIs ==
    /\ MIN_LARGE_SIZE \in Nat /\ MIN_LARGE_SIZE > MIN_CHUNK_SIZE /\ SmallBins \subseteq Nat
    /\ MAX_SIZE_T \in Nat /\ MIN_LARGE_SIZE <= MAX_SIZE_T
    /\ \A s \in MIN_CHUNK_SIZE..MAX_SIZE_T : s \in Nat /\ (s \in SmallBins <=> is_small(s))
       /\ (Large(s) <=> ~is_small(s))
    /\ \A s \in SmallBins : ~Large(s)
<1>1. /\ TREEBIN_SHIFT \in 0..SIZE_T_BITSIZE /\ TREEBIN_SHIFT + 1 \in 0..SIZE_T_BITSIZE
      /\ 1 \in 0..SIZE_T_BITSIZE /\ SIZE_T_BITSIZE \in 0..SIZE_T_BITSIZE /\ SIZE_T_BITSIZE \in Nat
      /\ 1 <= TREEBIN_SHIFT - 1 /\ TREEBIN_SHIFT - 1 \in 0..SIZE_T_BITSIZE - 1
      /\ 0 \in 0..SIZE_T_BITSIZE - 1 /\ TREEBIN_SHIFT \in 0..SIZE_T_BITSIZE - 1
      /\ TREEBIN_SHIFT - 1 + 1 = TREEBIN_SHIFT /\ 0 + 1 = 1 /\ TREEBIN_SHIFT + 1 <= SIZE_T_BITSIZE
      /\ TREEBIN_SHIFT - 1 \in 0..SIZE_T_BITSIZE
  BY IndexBounds
<1>2. Pow2[1] = 2
  BY <1>1, Pow2Step
<1>3. /\ Pow2[1] <= Pow2[TREEBIN_SHIFT - 1] /\ Pow2[TREEBIN_SHIFT - 1] \in Nat
      /\ Pow2[TREEBIN_SHIFT] \in Nat
      /\ Pow2[SIZE_T_BITSIZE] \in Nat /\ Pow2[TREEBIN_SHIFT + 1] <= Pow2[SIZE_T_BITSIZE]
  BY <1>1, Pow2Grows, Pow2Step
<1>4. /\ Pow2[TREEBIN_SHIFT] = 2 * Pow2[TREEBIN_SHIFT - 1]
      /\ Pow2[TREEBIN_SHIFT + 1] = 2 * Pow2[TREEBIN_SHIFT]
  BY <1>1, Pow2Step
<1>5. /\ MIN_LARGE_SIZE \in Nat /\ MIN_LARGE_SIZE >= 4 /\ MAX_SIZE_T \in Nat
      /\ MIN_LARGE_SIZE <= MAX_SIZE_T
  BY <1>2, <1>3, <1>4 DEF MIN_LARGE_SIZE, MAX_SIZE_T
<1>6. \A s \in Nat : is_small(s) <=> s < MIN_LARGE_SIZE
  BY DEF is_small, MIN_LARGE_SIZE
<1> QED BY <1>5, <1>6 DEF MIN_CHUNK_SIZE, SmallBins, Large

\* insert_small_chunk keeps what the smallbins keep, with the new chunk.
LEMMA SmallJoins ==
    ASSUME NEW m, NEW X, Stored(m, X), NEW p \in Nat, p \notin DOMAIN X, NEW s \in SmallBins
    PROVE  LET n == insert_small_chunk(m, p, s) IN Stored(n, With(X, p, s)) /\ SameButBins(m, n)
<1> DEFINE bin == IF s \in m.smallmap THEN <<p>> \o m.smallbins[s] ELSE <<p>>
           n == insert_small_chunk(m, p, s)
           Y == With(X, p, s)
<1>1. /\ DOMAIN n = Fields /\ SameButBins(m, n)
      /\ n.treemap = m.treemap /\ n.treebins = m.treebins
      /\ n.smallmap = m.smallmap \cup {s} /\ DOMAIN n.smallbins = SmallBins /\ n.smallbins[s] = bin
      /\ \A i \in SmallBins : i # s => n.smallbins[i] = m.smallbins[i]
  BY DEF insert_small_chunk, small_index, Stored, SmallStored, Fields, SameButBins
<1>2. OfSize(Y, s) = OfSize(X, s) \cup {p} /\ (\A r : r # s => OfSize(Y, r) = OfSize(X, r))
      /\ DOMAIN Y = DOMAIN X \cup {p} /\ Y[p] = s /\ \A q \in DOMAIN X : Y[q] = X[q]
  BY DEF With, OfSize
<1>3. Distinct(bin) /\ Range(bin) = OfSize(X, s) \cup {p} /\ bin # <<>>
  <2>1. Distinct(m.smallbins[s]) /\ Range(m.smallbins[s]) = OfSize(X, s) /\ p \notin OfSize(X, s)
    BY DEF Stored, SmallStored, OfSize
  <2>2. CASE s \in m.smallmap
    <3>1. bin = <<p>> \o m.smallbins[s]
      BY <2>2
    <3> HIDE DEF bin
    <3> QED BY <2>1, <3>1, AtTheFront
  <2>3. CASE s \notin m.smallmap
    <3>1. bin = <<p>>
      BY <2>3
    <3>2. m.smallbins[s] = <<>>
      BY <2>3 DEF Stored, SmallStored
    <3>3. OfSize(X, s) = {}
      BY <2>1, <3>2 DEF Range
    <3>4. Distinct(<<p>>) /\ Range(<<p>>) = {p} /\ <<p>> # <<>>
      BY DEF Distinct, IsInjective, Range
    <3> HIDE DEF bin
    <3> QED BY <3>1, <3>3, <3>4
  <2> QED BY <2>2, <2>3
<1>4. \A i \in TreeBins : \A r : Large(r) /\ compute_tree_index(r) = i => OfSize(Y, r) = OfSize(X, r)
  BY <1>2, SmallIs
<1> HIDE DEF bin, n, Y
<1>5. SmallStored(n, Y)
  <2>1. ASSUME NEW i \in SmallBins
        PROVE  /\ Distinct(n.smallbins[i]) /\ Range(n.smallbins[i]) = OfSize(Y, i)
               /\ i \in n.smallmap <=> n.smallbins[i] # <<>>
    <3>1. CASE i = s
      BY <1>1, <1>2, <1>3, <3>1
    <3>2. CASE i # s
      BY <1>1, <1>2, <3>2 DEF Stored, SmallStored
    <3> QED BY <3>1, <3>2
  <2>2. n.smallmap \subseteq SmallBins
    BY <1>1 DEF Stored, SmallStored
  <2> QED BY <1>1, <2>1, <2>2 DEF SmallStored
<1>6. LargeStored(n, Y)
  <2>1. \A i \in TreeBins : TreeHolds(m.treebins[i], i, Y)
    BY <1>4, OtherBin DEF Stored, LargeStored
  <2> QED BY <1>1, <2>1 DEF Stored, LargeStored
<1>7. \A q \in DOMAIN Y : Y[q] \in MIN_CHUNK_SIZE..MAX_SIZE_T
  <2>1. s \in MIN_CHUNK_SIZE..MAX_SIZE_T
    BY SmallIs DEF SmallBins
  <2> QED BY <1>2, <2>1 DEF Stored
<1>8. DOMAIN Y \subseteq Nat
  BY <1>2 DEF Stored
<1> QED BY <1>1, <1>5, <1>6, <1>7, <1>8 DEF Stored, n, Y

\* unlink_small_chunk keeps what the smallbins keep, without the chunk.
LEMMA SmallLeaves ==
    ASSUME NEW m, NEW X, Stored(m, X), NEW p \in DOMAIN X, NEW s \in SmallBins, X[p] = s
    PROVE  LET n == unlink_small_chunk(m, p, s) IN Stored(n, WithoutChunk(X, p)) /\ SameButBins(m, n)
<1> DEFINE bin == m.smallbins[s]
           n == unlink_small_chunk(m, p, s)
           Y == WithoutChunk(X, p)
<1>0. Distinct(bin) /\ Range(bin) = OfSize(X, s) /\ p \in OfSize(X, s) /\ bin \in Seq(Nat)
  BY DEF Stored, SmallStored, OfSize, Distinct
<1>2. OfSize(Y, s) = OfSize(X, s) \ {p} /\ (\A r : r # s => OfSize(Y, r) = OfSize(X, r))
      /\ DOMAIN Y = DOMAIN X \ {p} /\ \A q \in DOMAIN Y : Y[q] = X[q]
  BY DEF WithoutChunk, OfSize
<1>1. /\ DOMAIN n = Fields /\ SameButBins(m, n)
      /\ n.treemap = m.treemap /\ n.treebins = m.treebins
      /\ DOMAIN n.smallbins = SmallBins /\ n.smallmap \subseteq SmallBins
      /\ \A i \in SmallBins : i # s => n.smallbins[i] = m.smallbins[i]
         /\ (i \in n.smallmap <=> i \in m.smallmap)
      /\ n.smallbins[s] = (IF bin = <<p>> THEN <<>> ELSE RemoveFirst(bin, p))
      /\ s \in n.smallmap <=> s \in m.smallmap /\ bin # <<p>>
  <2>1. CASE bin = <<p>>
    BY <2>1 DEF unlink_small_chunk, small_index, Stored, SmallStored, Fields, SameButBins
  <2>2. CASE bin # <<p>>
    BY <2>2 DEF unlink_small_chunk, small_index, Stored, SmallStored, Fields, SameButBins
  <2> QED BY <2>1, <2>2
<1>3. \A i \in TreeBins : \A r : Large(r) /\ compute_tree_index(r) = i => OfSize(Y, r) = OfSize(X, r)
  BY <1>2, SmallIs
<1>4. Distinct(n.smallbins[s]) /\ Range(n.smallbins[s]) = OfSize(Y, s)
      /\ (s \in n.smallmap <=> n.smallbins[s] # <<>>)
  <2> HIDE DEF bin, n, Y
  <2>1. CASE bin = <<p>>
    <3>1. n.smallbins[s] = <<>> /\ s \notin n.smallmap
      BY <1>1, <2>1
    <3>2. Distinct(<<>>) /\ Range(<<>>) = {}
      BY DEF Distinct, IsInjective, Range
    <3>3. Range(<<p>>) = {p}
      BY DEF Range
    <3> QED BY <1>0, <1>2, <2>1, <3>1, <3>2, <3>3
  <2>2. CASE bin # <<p>>
    <3>1. n.smallbins[s] = RemoveFirst(bin, p)
      BY <1>1, <2>2
    <3>2. Distinct(RemoveFirst(bin, p)) /\ Range(RemoveFirst(bin, p)) = Range(bin) \ {p}
      BY <1>0, TakenOut
    <3>3. s \in m.smallmap
      <4>1. bin # <<>>
        BY <1>0, SequenceRange
      <4> QED BY <4>1 DEF Stored, SmallStored, bin
    <3>4. s \in n.smallmap
      BY <1>1, <2>2, <3>3
    <3>5. RemoveFirst(bin, p) # <<>>
      <4> SUFFICES ASSUME RemoveFirst(bin, p) = <<>> PROVE FALSE
        OBVIOUS
      <4>1. Range(bin) \ {p} = {}
        BY <3>2 DEF Range
      <4>2. Len(bin) \in Nat /\ \A k \in 1..Len(bin) : bin[k] = p
        BY <1>0, <4>1, SequenceRange
      <4>3. \A c, d \in 1..Len(bin) : bin[c] = bin[d] => c = d
        BY <1>0, DistinctIs
      <4>4. Len(bin) >= 1
        BY <1>0, SequenceRange
      <4>5. ~(Len(bin) >= 2)
        <5> SUFFICES ASSUME Len(bin) >= 2 PROVE FALSE
          OBVIOUS
        <5>1. 1 \in 1..Len(bin) /\ 2 \in 1..Len(bin)
          BY <4>2
        <5>2. 1 = 2
          BY <4>2, <4>3, <5>1
        <5> QED BY <5>2
      <4>6. Len(bin) = 1 /\ bin[1] = p
        BY <4>2, <4>4, <4>5
      <4>7. bin = <<p>>
        BY <1>0, <4>6
      <4> QED BY <2>2, <4>7
    <3> QED BY <1>0, <1>2, <3>1, <3>2, <3>4, <3>5
  <2> QED BY <2>1, <2>2
<1> HIDE DEF bin, n, Y
<1>5. SmallStored(n, Y)
  <2>1. ASSUME NEW i \in SmallBins
        PROVE  /\ Distinct(n.smallbins[i]) /\ Range(n.smallbins[i]) = OfSize(Y, i)
               /\ i \in n.smallmap <=> n.smallbins[i] # <<>>
    <3>1. CASE i = s
      BY <1>4, <3>1
    <3>2. CASE i # s
      BY <1>1, <1>2, <3>2 DEF Stored, SmallStored
    <3> QED BY <3>1, <3>2
  <2> QED BY <1>1, <2>1 DEF SmallStored
<1>6. LargeStored(n, Y)
  <2>1. \A i \in TreeBins : TreeHolds(m.treebins[i], i, Y)
    BY <1>3, OtherBin DEF Stored, LargeStored
  <2> QED BY <1>1, <2>1 DEF Stored, LargeStored
<1>7. \A q \in DOMAIN Y : Y[q] \in MIN_CHUNK_SIZE..MAX_SIZE_T
  BY <1>2 DEF Stored
<1>8. DOMAIN Y \subseteq Nat
  BY <1>2 DEF Stored
<1> QED BY <1>1, <1>5, <1>6, <1>7, <1>8 DEF Stored, n, Y

\* The index of a large size is that of a treebin.
LEMMA IndexIs ==
    ASSUME NEW s, Large(s)
    PROVE  compute_tree_index(s) \in TreeBins /\ s \in Nat
BY LargeIs, IndexInRange DEF TreeBins

\* Only the bin of size s and the chunks of that size change.
OneBinChanges(m, n, X, Y, s) ==
    LET i == compute_tree_index(s) IN
    /\ DOMAIN n = Fields /\ n.smallmap = m.smallmap /\ n.smallbins = m.smallbins
    /\ n.treemap \subseteq TreeBins /\ DOMAIN n.treebins = TreeBins
    /\ \A j \in TreeBins : j # i => n.treebins[j] = m.treebins[j]
       /\ (j \in n.treemap <=> j \in m.treemap)
    /\ TreeHolds(n.treebins[i], i, Y) /\ (i \in n.treemap <=> n.treebins[i] # <<>>)
    /\ DOMAIN Y \subseteq Nat /\ \A q \in DOMAIN Y : Y[q] \in MIN_CHUNK_SIZE..MAX_SIZE_T
    /\ Large(s) /\ \A r : r # s => OfSize(Y, r) = OfSize(X, r)

\* Then the other bins keep what they kept.
LEMMA OtherBinsStay ==
    ASSUME NEW m, NEW X, Stored(m, X), NEW n, NEW Y, NEW s, OneBinChanges(m, n, X, Y, s)
    PROVE  Stored(n, Y)
<1> DEFINE i == compute_tree_index(s)
<1>1. SmallStored(n, Y)
  <2>1. \A j \in SmallBins : OfSize(Y, j) = OfSize(X, j)
    BY SmallIs DEF OneBinChanges
  <2>2. n.smallmap = m.smallmap /\ n.smallbins = m.smallbins
    BY DEF OneBinChanges
  <2> QED BY <2>1, <2>2 DEF Stored, SmallStored
<1>2. ASSUME NEW j \in TreeBins
      PROVE  TreeHolds(n.treebins[j], j, Y) /\ (j \in n.treemap <=> n.treebins[j] # <<>>)
  <2>1. CASE j = i
    BY <2>1 DEF OneBinChanges
  <2>2. CASE j # i
    <3>1. TreeHolds(m.treebins[j], j, X) /\ (j \in m.treemap <=> m.treebins[j] # <<>>)
      BY DEF Stored, LargeStored
    <3>2. \A r : Large(r) /\ compute_tree_index(r) = j => OfSize(Y, r) = OfSize(X, r)
      BY <2>2 DEF OneBinChanges
    <3>3. TreeHolds(m.treebins[j], j, Y)
      BY <3>1, <3>2, OtherBin
    <3>4. n.treebins[j] = m.treebins[j] /\ (j \in n.treemap <=> j \in m.treemap)
      BY <2>2 DEF OneBinChanges
    <3> QED BY <3>1, <3>3, <3>4
  <2> QED BY <2>1, <2>2
<1>3. LargeStored(n, Y)
  BY <1>2 DEF LargeStored, OneBinChanges
<1> QED BY <1>1, <1>3 DEF Stored, OneBinChanges

\* insert_large_chunk keeps what the treebins keep, with the new chunk.
LEMMA LargeJoins ==
    ASSUME NEW m, NEW X, Stored(m, X), Shown(m, X), NEW x \in Nat, x \notin DOMAIN X, NEW s, Large(s)
    PROVE  LET n == insert_large_chunk(m, x, s) IN Stored(n, With(X, x, s)) /\ SameButBins(m, n)
<1> DEFINE i == compute_tree_index(s)
           tree == m.treebins[i]
           same == {t \in OnTheWay(tree, i, s) : NodeSize(m, tree, t) = s}
           leaf == Down(i, s, Cardinality(OnTheWay(tree, i, s)))
           t == CHOOSE n \in same : TRUE
           rest == IF i \notin m.treemap THEN With(<<>>, <<>>, <<x>>)
                   ELSE IF same = {} THEN With(tree, leaf, <<x>>)
                   ELSE [tree EXCEPT ![t] = <<Head(@), x>> \o Tail(@)]
           n == insert_large_chunk(m, x, s)
           Y == With(X, x, s)
<1>1. i \in TreeBins /\ s \in Nat /\ s \in MIN_CHUNK_SIZE..MAX_SIZE_T
  BY IndexIs, SmallIs, LargeIs DEF Large, MIN_CHUNK_SIZE
<1>2. TreeHolds(tree, i, X) /\ (i \in m.treemap <=> tree # <<>>)
  BY <1>1 DEF Stored, LargeStored
<1>3. PICK sz : Holds(tree, sz, i, X)
  BY <1>2 DEF TreeHolds
<1>4. /\ DOMAIN n = Fields /\ SameButBins(m, n) /\ n.smallmap = m.smallmap /\ n.smallbins = m.smallbins
      /\ n.treemap = m.treemap \cup {i} /\ DOMAIN n.treebins = TreeBins /\ n.treebins[i] = rest
      /\ \A j \in TreeBins : j # i => n.treebins[j] = m.treebins[j]
  <2>1. DOMAIN m = Fields /\ DOMAIN m.treebins = TreeBins
    BY DEF Stored, LargeStored
  <2>2. CASE i \in m.treemap
    <3>1. n = [m EXCEPT !.treemap = @ \cup {i}, !.treebins[i] = rest]
      BY <2>2 DEF insert_large_chunk
    <3> HIDE DEF n, rest, i
    <3> QED BY <1>1, <2>1, <3>1 DEF Fields, SameButBins
  <2>3. CASE i \notin m.treemap
    <3>1. n = [m EXCEPT !.treemap = @ \cup {i}, !.treebins[i] = rest]
      BY <2>3 DEF insert_large_chunk
    <3> HIDE DEF n, rest, i
    <3> QED BY <1>1, <2>1, <3>1 DEF Fields, SameButBins
  <2> QED BY <2>2, <2>3
<1>5. \A u \in DOMAIN tree : NodeSize(m, tree, u) = sz[u]
  BY <1>3, FirstIs DEF Shown, NodeSize
<1>6. same = {u \in OnTheWay(tree, i, s) : sz[u] = s} /\ \A u \in DOMAIN sz : sz[u] = s => u \in same
  <2>1. \A u \in OnTheWay(tree, i, s) : u \in DOMAIN tree
    BY DEF OnTheWay
  <2>2. \A u \in DOMAIN sz : u \in OnTheWay(tree, i, sz[u])
    BY <1>1, <1>3, NodeIsOnItsWay DEF Holds
  <2>3. DOMAIN sz = DOMAIN tree
    BY <1>3 DEF Holds
  <2> HIDE DEF tree, i
  <2> QED BY <1>5, <2>1, <2>2, <2>3
<1>7. TreeHolds(rest, i, Y) /\ rest # <<>>
  <2>1. CASE i \notin m.treemap
    <3>1. tree = <<>> /\ rest = With(<<>>, <<>>, <<x>>)
      BY <1>2, <2>1
    <3>2. DOMAIN sz = {}
      BY <1>3, <3>1 DEF Holds
    <3>3. leaf = <<>>
      <4>1. OnTheWay(tree, i, s) = {}
        BY <3>1 DEF OnTheWay
      <4>2. Cardinality(OnTheWay(tree, i, s)) = 0
        BY <4>1, FS_EmptySet
      <4>5. 0 \in 0..SIZE_T_BITSIZE
        BY IndexBounds
      <4>3. Down(i, s, 0) \in Seq({0, 1}) /\ Len(Down(i, s, 0)) = 0
        BY <1>1, <4>5, DownIs DEF TreeBins
      <4>4. Down(i, s, 0) = <<>>
        BY <4>3
      <4> QED BY <4>2, <4>4
    <3>4. Holds(With(tree, leaf, <<x>>), With(sz, leaf, s), i, Y)
      <4> HIDE DEF i, tree
      <4>1. compute_tree_index(s) = i
        BY DEF i
      <4> QED BY <1>1, <1>3, <3>2, <4>1, JoinsAsLeaf
    <3>5. rest # <<>>
      <4>1. <<>> \in DOMAIN With(<<>>, <<>>, <<x>>)
        BY DEF With
      <4> QED BY <3>1, <4>1
    <3> HIDE DEF rest, tree, leaf, Y, i
    <3> QED BY <3>1, <3>3, <3>4, <3>5 DEF TreeHolds
  <2>2. CASE i \in m.treemap /\ same = {}
    <3>1. rest = With(tree, leaf, <<x>>)
      BY <2>2
    <3>2. \A u \in DOMAIN sz : sz[u] # s
      BY <1>6, <2>2
    <3>3. Holds(With(tree, leaf, <<x>>), With(sz, leaf, s), i, Y)
      <4> HIDE DEF i, tree
      <4>1. compute_tree_index(s) = i
        BY DEF i
      <4> QED BY <1>1, <1>3, <3>2, <4>1, JoinsAsLeaf
    <3>4. With(tree, leaf, <<x>>) # <<>>
      <4>1. leaf \in DOMAIN With(tree, leaf, <<x>>)
        BY DEF With
      <4> QED BY <4>1
    <3> HIDE DEF rest, tree, leaf, Y, i
    <3> QED BY <3>1, <3>3, <3>4 DEF TreeHolds
  <2>3. CASE i \in m.treemap /\ same # {}
    <3>1. rest = [tree EXCEPT ![t] = <<Head(@), x>> \o Tail(@)]
      BY <2>3
    <3>2. t \in same
      BY <2>3
    <3>3. t \in DOMAIN tree /\ sz[t] = s
      BY <1>6, <3>2 DEF OnTheWay
    <3> HIDE DEF t
    <3>4. Holds([tree EXCEPT ![t] = <<Head(@), x>> \o Tail(@)], sz, i, Y)
      <4> HIDE DEF i, tree
      <4> QED BY <1>1, <1>3, <3>3, JoinsChain
    <3>5. t \in DOMAIN [tree EXCEPT ![t] = <<Head(@), x>> \o Tail(@)]
      BY <3>3
    <3>6. [tree EXCEPT ![t] = <<Head(@), x>> \o Tail(@)] # <<>>
      BY <3>5
    <3> HIDE DEF rest, tree, Y, i
    <3> QED BY <3>1, <3>4, <3>6 DEF TreeHolds
  <2> QED BY <2>1, <2>2, <2>3
<1>8. (\A r : r # s => OfSize(Y, r) = OfSize(X, r)) /\ DOMAIN Y \subseteq Nat
      /\ \A q \in DOMAIN Y : Y[q] \in MIN_CHUNK_SIZE..MAX_SIZE_T
  BY <1>1 DEF With, OfSize, Stored
<1>9. compute_tree_index(s) = i
  OBVIOUS
<1> HIDE DEF n, Y, rest, i
<1>10. n.treemap \subseteq TreeBins /\ \A j \in TreeBins :
         j # i => n.treebins[j] = m.treebins[j] /\ (j \in n.treemap <=> j \in m.treemap)
  BY <1>1, <1>4 DEF Stored, LargeStored
<1>11. i \in n.treemap <=> rest # <<>>
  BY <1>4, <1>7
<1>12. OneBinChanges(m, n, X, Y, s)
  BY <1>1, <1>4, <1>7, <1>8, <1>9, <1>10, <1>11 DEF OneBinChanges
<1>13. Stored(n, Y)
  BY <1>12, OtherBinsStay
<1> QED BY <1>4, <1>13 DEF n, Y

\* unlink_large_chunk keeps what the treebins keep, without the chunk.
LEMMA LargeLeaves ==
    ASSUME NEW m, NEW X, Stored(m, X), Shown(m, X), NEW x \in DOMAIN X, Large(X[x])
    PROVE  LET n == unlink_large_chunk(m, x) IN Stored(n, WithoutChunk(X, x)) /\ SameButBins(m, n)
<1> DEFINE s == X[x]
           i == compute_tree_index(chunksize(m, x))
           tree == m.treebins[i]
           t == CHOOSE n \in DOMAIN tree : x \in Range(tree[n])
           chain == tree[t]
           leaf == RightmostLeaf(tree, t)
           rest == IF Len(chain) > 1
                   THEN [tree EXCEPT ![t] = IF Head(chain) = x THEN <<Last(chain)>> \o Front(Tail(chain))
                                                            ELSE RemoveFirst(chain, x)]
                   ELSE [n \in DOMAIN tree \ {leaf} |-> IF n = t THEN tree[leaf] ELSE tree[n]]
           n == unlink_large_chunk(m, x)
           Y == WithoutChunk(X, x)
<1>1. i = compute_tree_index(s) /\ i \in TreeBins /\ s \in Nat
  BY IndexIs DEF Shown
<1>2. TreeHolds(tree, i, X)
  BY <1>1 DEF Stored, LargeStored
<1>3. PICK sz : Holds(tree, sz, i, X)
  BY <1>2 DEF TreeHolds
<1>4. /\ DOMAIN n = Fields /\ SameButBins(m, n) /\ n.smallmap = m.smallmap /\ n.smallbins = m.smallbins
      /\ n.treemap = (IF rest = <<>> THEN m.treemap \ {i} ELSE m.treemap)
      /\ DOMAIN n.treebins = TreeBins /\ n.treebins[i] = rest
      /\ \A j \in TreeBins : j # i => n.treebins[j] = m.treebins[j]
  <2>1. DOMAIN m = Fields /\ DOMAIN m.treebins = TreeBins
    BY DEF Stored, LargeStored
  <2>2. n = [m EXCEPT !.treebins[i] = rest, !.treemap = IF rest = <<>> THEN @ \ {i} ELSE @]
    BY DEF unlink_large_chunk
  <2> HIDE DEF n, rest, i
  <2> QED BY <1>1, <2>1, <2>2 DEF Fields, SameButBins
<1>5. t \in DOMAIN tree /\ x \in Range(tree[t]) /\ sz[t] = s
  <2> HIDE DEF tree, i
  <2> QED BY <1>1, <1>3, KeptAt
<1>6. \E sz2 : Holds(rest, sz2, i, Y)
  <2> HIDE DEF t
  <2>1. CASE Len(tree[t]) > 1
    <3>1. rest = [tree EXCEPT ![t] = IF Head(tree[t]) = x THEN <<Last(tree[t])>> \o Front(Tail(tree[t]))
                                                      ELSE RemoveFirst(tree[t], x)]
      BY <2>1
    <3>2. Holds([tree EXCEPT ![t] = IF Head(tree[t]) = x THEN <<Last(tree[t])>> \o Front(Tail(tree[t]))
                                    ELSE RemoveFirst(tree[t], x)], sz, i, Y)
      <4> HIDE DEF i, tree
      <4> QED BY <1>1, <1>3, <1>5, <2>1, LeavesChain
    <3> HIDE DEF rest, tree, i, Y
    <3> QED BY <3>1, <3>2
  <2>2. CASE ~(Len(tree[t]) > 1)
    <3>1. rest = [o \in DOMAIN tree \ {leaf} |-> IF o = t THEN tree[leaf] ELSE tree[o]]
      BY <2>2
    <3>2. \E sz2 : Holds([o \in DOMAIN tree \ {leaf} |-> IF o = t THEN tree[leaf] ELSE tree[o]], sz2, i, Y)
      <4> HIDE DEF i, tree
      <4> QED BY <1>1, <1>3, <1>5, <2>2, LeavesTree
    <3> HIDE DEF rest, tree, i, Y, leaf
    <3> QED BY <3>1, <3>2
  <2> QED BY <2>1, <2>2
<1>7. i \in m.treemap
  <2>1. tree # <<>>
    <3> HIDE DEF t, i
    <3> QED BY <1>5
  <2> HIDE DEF i
  <2> QED BY <1>1, <2>1 DEF Stored, LargeStored
<1>8. (\A r : r # s => OfSize(Y, r) = OfSize(X, r)) /\ DOMAIN Y \subseteq Nat
      /\ \A q \in DOMAIN Y : Y[q] \in MIN_CHUNK_SIZE..MAX_SIZE_T
  BY DEF WithoutChunk, OfSize, Stored
<1> HIDE DEF n, Y, rest, i
<1>9. n.treemap \subseteq TreeBins /\ \A j \in TreeBins :
         j # i => n.treebins[j] = m.treebins[j] /\ (j \in n.treemap <=> j \in m.treemap)
  BY <1>1, <1>4 DEF Stored, LargeStored
<1>10. i \in n.treemap <=> rest # <<>>
  BY <1>4, <1>7
<1>11. TreeHolds(rest, i, Y)
  BY <1>6 DEF TreeHolds
<1>12. OneBinChanges(m, n, X, Y, s)
  BY <1>1, <1>4, <1>8, <1>9, <1>10, <1>11 DEF OneBinChanges
<1>13. Stored(n, Y)
  BY <1>12, OtherBinsStay
<1> QED BY <1>4, <1>13 DEF n, Y

\* insert_chunk: all bins keep what they kept, and the new chunk.
LEMMA ChunkJoins ==
    ASSUME NEW m, NEW X, Stored(m, X), Shown(m, X), NEW p \in Nat, p \notin DOMAIN X,
           NEW s \in MIN_CHUNK_SIZE..MAX_SIZE_T
    PROVE  LET n == insert_chunk(m, p, s) IN Stored(n, With(X, p, s)) /\ SameButBins(m, n)
<1>1. CASE is_small(s)
  <2>1. insert_chunk(m, p, s) = insert_small_chunk(m, p, s) /\ s \in SmallBins
    BY <1>1, SmallIs DEF insert_chunk
  <2> QED BY <2>1, SmallJoins
<1>2. CASE ~is_small(s)
  <2>1. insert_chunk(m, p, s) = insert_large_chunk(m, p, s) /\ Large(s)
    BY <1>2, SmallIs DEF insert_chunk
  <2> QED BY <2>1, LargeJoins
<1> QED BY <1>1, <1>2

\* unlink_chunk: all bins keep what they kept, but the chunk.
LEMMA ChunkLeaves ==
    ASSUME NEW m, NEW X, Stored(m, X), Shown(m, X), NEW p \in DOMAIN X, NEW s, X[p] = s
    PROVE  LET n == unlink_chunk(m, p, s) IN Stored(n, WithoutChunk(X, p)) /\ SameButBins(m, n)
<1>0. s \in MIN_CHUNK_SIZE..MAX_SIZE_T
  BY DEF Stored
<1>1. CASE is_small(s)
  <2>1. unlink_chunk(m, p, s) = unlink_small_chunk(m, p, s) /\ s \in SmallBins
    BY <1>0, <1>1, SmallIs DEF unlink_chunk
  <2> QED BY <2>1, SmallLeaves
<1>2. CASE ~is_small(s)
  <2>1. unlink_chunk(m, p, s) = unlink_large_chunk(m, p) /\ Large(s)
    BY <1>0, <1>2, SmallIs DEF unlink_chunk
  <2> QED BY <2>1, LargeLeaves
<1> QED BY <1>1, <1>2

------------------------------------------------------------------------------
(* The search of the trees for a size.                                        *)

\* The nodes where a larger subtree leaves the way down for a size.
Rights(tree, i, s) == {t \in OnTheWay(tree, i, s) :
    t \o <<1>> \in DOMAIN tree /\ t \o <<1>> \notin OnTheWay(tree, i, s)}

\* What is on the way down for a size.
LEMMA OnTheWayIs ==
    ASSUME NEW tree, NEW i \in TreeBins, NEW s \in Nat
    PROVE  \A t : t \in OnTheWay(tree, i, s) <=> t \in DOMAIN tree /\ Len(t) \in 0..SIZE_T_BITSIZE
           /\ t = Down(i, s, Len(t))
<1>1. \A d \in 0..SIZE_T_BITSIZE : Len(Down(i, s, d)) = d
  BY DownIs DEF TreeBins
<1> QED BY <1>1 DEF OnTheWay

\* All sizes on the right of such a node are larger than the size.
LEMMA RightIs ==
    ASSUME NEW sz, NEW i \in TreeBins, Shape(sz, i), NEW tree, DOMAIN tree = DOMAIN sz,
           NEW s, Large(s), compute_tree_index(s) = i, NEW t \in Rights(tree, i, s)
    PROVE  /\ t \in Places /\ Len(t) \in 0..SIZE_T_BITSIZE - 1 /\ t = Down(i, s, Len(t))
           /\ t \o <<1>> \in DOMAIN sz
           /\ SizeBits(i, s)[Len(t) + 1] = 0
           /\ \A n \in DOMAIN sz : IsPrefix(t \o <<1>>, n) =>
                s < sz[n] /\ SizeBits(i, sz[n])[Len(t) + 1] = 1
                /\ \A e \in 1..Len(t) : SizeBits(i, sz[n])[e] = SizeBits(i, s)[e]
<1> DEFINE r == t \o <<1>>
           b == SizeBits(i, s)[Len(t) + 1]
<1>0. SIZE_T_BITSIZE \in Nat /\ s \in Nat
  BY IndexBounds, LargeIs
<1>1. /\ t \in DOMAIN sz /\ Len(t) \in 0..SIZE_T_BITSIZE /\ t = Down(i, s, Len(t)) /\ r \in DOMAIN sz
      /\ r \notin OnTheWay(tree, i, s)
  BY <1>0, OnTheWayIs DEF Rights
<1>2. t \in Places /\ Len(r) = Len(t) + 1 /\ r[Len(t) + 1] = 1 /\ \A e \in 1..Len(t) : r[e] = t[e]
  BY <1>1, NodeIs, ChildIs
<1>3. Len(r) \in 0..SIZE_T_BITSIZE
  BY <1>1, NodeIs
<1>4. Len(t) \in 0..SIZE_T_BITSIZE - 1 /\ Len(t) + 1 \in 0..SIZE_T_BITSIZE /\ Len(t) + 1 \in 1..Len(r)
  BY <1>0, <1>1, <1>2, <1>3
<1>5. Down(i, s, Len(t) + 1) = t \o <<b>> /\ b \in {0, 1}
  <2>1. Down(i, s, Len(t) + 1) = Down(i, s, Len(t)) \o <<b>> /\ b \in {0, 1}
    BY <1>0, <1>4, DownNext
  <2> QED BY <1>1, <2>1
<1>6. b = 0
  <2> SUFFICES ASSUME b = 1 PROVE FALSE
    BY <1>5
  <2>1. r = Down(i, s, Len(r))
    BY <1>2, <1>5
  <2> HIDE DEF r, b
  <2> QED BY <1>0, <1>1, <1>3, <2>1, OnTheWayIs
<1>7. \A e \in 1..Len(t) : t[e] = SizeBits(i, s)[e]
  <2>1. \A e \in 1..Len(t) : Down(i, s, Len(t))[e] = SizeBits(i, s)[e]
    BY <1>0, <1>1, DownIs DEF TreeBins
  <2> QED BY <1>1, <2>1
<1>8. ASSUME NEW n \in DOMAIN sz, IsPrefix(r, n)
      PROVE  s < sz[n] /\ SizeBits(i, sz[n])[Len(t) + 1] = 1
             /\ \A e \in 1..Len(t) : SizeBits(i, sz[n])[e] = SizeBits(i, s)[e]
  <2> HIDE DEF r
  <2>1. \A e \in 1..Len(r) : r[e] = SizeBits(i, sz[n])[e]
    BY <1>1, <1>8, BelowIs
  <2>2. \A e \in 1..Len(t) : e \in 1..Len(r)
    BY <1>2, <1>3, <1>4
  <2>3. \A e \in 1..Len(t) : SizeBits(i, s)[e] = SizeBits(i, sz[n])[e]
    BY <1>2, <1>7, <2>1, <2>2
  <2>4. SizeBits(i, sz[n])[Len(t) + 1] = 1
    BY <1>2, <1>4, <2>1
  <2>5. Large(sz[n]) /\ compute_tree_index(sz[n]) = i
    BY NodeIs
  <2>6. s < sz[n]
    BY <1>4, <1>6, <2>3, <2>4, <2>5, BitsOrder DEF b
  <2> QED BY <2>3, <2>4, <2>6
<1> QED BY <1>1, <1>2, <1>4, <1>6, <1>8

\* A larger size of the tree is on the way down too, or on the right of such a node.
LEMMA RightFor ==
    ASSUME NEW sz, NEW i \in TreeBins, Shape(sz, i), NEW tree, DOMAIN tree = DOMAIN sz,
           NEW s, Large(s), compute_tree_index(s) = i,
           NEW u \in DOMAIN sz, u \notin OnTheWay(tree, i, s), s <= sz[u]
    PROVE  \E t \in Rights(tree, i, s) : IsPrefix(t \o <<1>>, u)
<1>0. SIZE_T_BITSIZE \in Nat /\ s \in Nat
  BY IndexBounds, LargeIs
<1>1. /\ u \in Places /\ Len(u) \in 0..SIZE_T_BITSIZE /\ sz[u] \in Nat /\ Large(sz[u])
      /\ compute_tree_index(sz[u]) = i
      /\ \A e \in 1..Len(u) : u[e] = SizeBits(i, sz[u])[e]
  BY NodeIs
<1>2. u # Down(i, s, Len(u))
  BY <1>0, <1>1, OnTheWayIs
<1>3. PICK k : PartAt(sz, i, u, s, k)
  BY <1>0, <1>2, WaysPart
<1>4. u[k + 1] = 1 /\ SizeBits(i, s)[k + 1] = 0
  <2>1. u[k + 1] \in {0, 1} /\ SizeBits(i, s)[k + 1] \in {0, 1}
    <3>1. k + 1 \in 1..SIZE_T_BITSIZE
      BY <1>0, <1>3 DEF PartAt
    <3> QED BY <1>0, <1>1, <1>3, <3>1, SizeBitIs DEF TreeBins, PartAt
  <2> SUFFICES ASSUME u[k + 1] = 0, SizeBits(i, s)[k + 1] = 1 PROVE FALSE
    BY <1>3, <2>1 DEF PartAt
  <2>2. sz[u] < s
    BY <1>1, <1>3, BitsOrder DEF PartAt
  <2> QED BY <1>0, <1>1, <2>2
<1> DEFINE t == Down(i, s, k)
           r == t \o <<1>>
<1>5. /\ k \in 0..SIZE_T_BITSIZE /\ k + 1 \in 0..SIZE_T_BITSIZE /\ k \in 0..Len(u) /\ k + 1 \in 0..Len(u)
      /\ k \in Nat
      /\ k \in 0..SIZE_T_BITSIZE - 1
  BY <1>0, <1>1, <1>3 DEF PartAt
<1>6. Down(i, sz[u], k + 1) = Down(i, sz[u], k) \o <<1>>
  <2>1. SizeBits(i, sz[u])[k + 1] = 1
    BY <1>3, <1>4 DEF PartAt
  <2> QED BY <1>1, <1>5, <2>1, DownNext
<1>7. Down(i, sz[u], k) = t
  <2>1. SubSeq(u, 1, k) = SubSeq(Down(i, sz[u], Len(u)), 1, k) /\ Len(u) \in 0..SIZE_T_BITSIZE
    BY NodeIs
  <2>2. SubSeq(Down(i, sz[u], Len(u)), 1, k) = Down(i, sz[u], k)
    BY <1>1, <1>5, DownCut
  <2> QED BY <1>3, <2>1, <2>2 DEF PartAt
<1>8. t \in DOMAIN sz /\ r \in DOMAIN sz
  <2>1. Down(i, sz[u], k) \in DOMAIN sz /\ Down(i, sz[u], k + 1) \in DOMAIN sz
    BY <1>5, WayIsThere
  <2> HIDE DEF t
  <2> QED BY <1>6, <1>7, <2>1
<1>9. Len(t) = k /\ t \in Places
  BY <1>0, <1>5, DownIs DEF TreeBins, Places
<1>10. Len(r) = k + 1 /\ r[k + 1] = 1 /\ r \in Places
  <2> HIDE DEF t
  <2> QED BY <1>9, ChildIs
<1>11. r \notin OnTheWay(tree, i, s)
  <2> SUFFICES ASSUME r = Down(i, s, k + 1) PROVE FALSE
    <3> HIDE DEF r
    <3> QED BY <1>0, <1>10, OnTheWayIs
  <2>1. k + 1 \in 1..k + 1
    BY <1>5
  <2>2. Down(i, s, k + 1)[k + 1] = SizeBits(i, s)[k + 1]
    BY <1>0, <1>5, <2>1, DownIs DEF TreeBins
  <2> HIDE DEF r
  <2> QED BY <1>4, <1>10, <2>2
<1>12. t \in Rights(tree, i, s)
  <2>1. t \in OnTheWay(tree, i, s)
    BY <1>0, <1>5, <1>8, <1>9, OnTheWayIs
  <2> QED BY <1>8, <1>11, <2>1 DEF Rights
<1>13. IsPrefix(r, u)
  <2>1. r = Down(i, sz[u], k + 1)
    BY <1>6, <1>7
  <2>2. \A e \in 1..k + 1 : Down(i, sz[u], k + 1)[e] = SizeBits(i, sz[u])[e] /\ e \in 1..Len(u)
    BY <1>1, <1>5, DownIs DEF TreeBins
  <2> HIDE DEF r
  <2>3. \A e \in 1..Len(r) : r[e] = u[e]
    BY <1>1, <1>10, <2>1, <2>2
  <2>4. Len(r) <= Len(u)
    BY <1>1, <1>5, <1>10
  <2> QED BY <1>1, <1>10, <2>3, <2>4, PrefixIs
<1> QED BY <1>12, <1>13

\* The last of these nodes, and the nodes that are looked at in the tree of the size.
LastRight(tree, i, s) == CHOOSE t \in Rights(tree, i, s) : \A u \in Rights(tree, i, s) : Len(u) <= Len(t)

Searched(tree, i, s) == OnTheWay(tree, i, s) \cup
    IF Rights(tree, i, s) = {} THEN {} ELSE LeftSpine(tree, LastRight(tree, i, s) \o <<1>>)

\* The last of these nodes has the smallest sizes that are larger.
LEMMA LastRightIs ==
    ASSUME NEW sz, NEW i \in TreeBins, Shape(sz, i), NEW tree, DOMAIN tree = DOMAIN sz,
           NEW s, Large(s), compute_tree_index(s) = i, Rights(tree, i, s) # {}
    PROVE  /\ LastRight(tree, i, s) \in Rights(tree, i, s)
           /\ \A u \in Rights(tree, i, s) : Len(u) <= Len(LastRight(tree, i, s))
<1> DEFINE R == Rights(tree, i, s)
           T == {SIZE_T_BITSIZE - Len(t) : t \in R}
<1>1. SIZE_T_BITSIZE \in Nat /\ \A t \in R : Len(t) \in 0..SIZE_T_BITSIZE - 1
  BY IndexBounds, RightIs
<1> HIDE DEF R
<1>2. T \subseteq Nat /\ T # {}
  BY <1>1 DEF R
<1>3. PICK x \in T : \A y \in T : x <= y
  <2> HIDE DEF T
  <2> QED BY <1>2, LeastNumber
<1>4. PICK t \in R : x = SIZE_T_BITSIZE - Len(t)
  BY <1>3
<1>5. \A u \in R : Len(u) <= Len(t)
  <2> SUFFICES ASSUME NEW u \in R PROVE Len(u) <= Len(t)
    OBVIOUS
  <2>1. SIZE_T_BITSIZE - Len(t) <= SIZE_T_BITSIZE - Len(u)
    BY <1>3, <1>4
  <2> QED BY <1>1, <2>1
<1> QED BY <1>5 DEF R, LastRight

\* The nodes that are looked at in the tree of the size have the least one that fits.
LEMMA SearchOfTree ==
    ASSUME NEW sz, NEW i \in TreeBins, Shape(sz, i), NEW tree, DOMAIN tree = DOMAIN sz,
           NEW s, Large(s), compute_tree_index(s) = i
    PROVE  /\ Searched(tree, i, s) \subseteq DOMAIN sz
           /\ Rights(tree, i, s) # {} => \E n \in Searched(tree, i, s) : s <= sz[n]
           /\ \A u \in DOMAIN sz : s <= sz[u] =>
                \E n \in Searched(tree, i, s) : s <= sz[n] /\ sz[n] <= sz[u]
<1> DEFINE rights == Rights(tree, i, s)
           rst == LastRight(tree, i, s)
           r == rst \o <<1>>
           way == OnTheWay(tree, i, s)
           nodes == way \cup IF rights = {} THEN {} ELSE LeftSpine(tree, r)
<1>1. s \in Nat /\ (\A n \in DOMAIN sz : sz[n] \in Nat) /\ SIZE_T_BITSIZE \in Nat
  BY LargeIs, NodeIs, IndexBounds
<1>2. nodes \subseteq DOMAIN sz
  BY DEF OnTheWay, LeftSpine
<1>3. ASSUME rights # {}
      PROVE  /\ rst \in rights /\ (\A u \in rights : Len(u) <= Len(rst)) /\ r \in DOMAIN sz
             /\ \A u \in DOMAIN sz : IsPrefix(r, u) =>
                    \E n \in nodes : n \in DOMAIN sz /\ IsPrefix(r, n) /\ s <= sz[n] /\ sz[n] <= sz[u]
             /\ IsPrefix(r, r) /\ r \in nodes
  <2>1. rst \in rights /\ \A u \in rights : Len(u) <= Len(rst)
    BY <1>3, LastRightIs
  <2>2. r \in DOMAIN sz /\ \A n \in DOMAIN sz : IsPrefix(r, n) => s < sz[n]
    <3> HIDE DEF rst
    <3> QED BY <2>1, RightIs
  <2> HIDE DEF r, rst
  <2>3. ASSUME NEW u \in DOMAIN sz, IsPrefix(r, u)
        PROVE  \E n \in nodes : n \in DOMAIN sz /\ IsPrefix(r, n) /\ s <= sz[n] /\ sz[n] <= sz[u]
    <3>1. PICK n \in LeftSpine(tree, r) : n \in DOMAIN sz /\ IsPrefix(r, n) /\ sz[n] <= sz[u]
      BY <2>2, <2>3, SpineHasLeast
    <3>2. n \in nodes
      BY <1>3
    <3>3. s <= sz[n]
      BY <1>1, <2>2, <3>1
    <3> QED BY <3>1, <3>2, <3>3
  <2>4. r \in Places
    BY <2>2 DEF Shape
  <2>5. IsPrefix(r, r)
    BY <2>4, PrefixIs DEF Places
  <2>6. r \in LeftSpine(tree, r)
    <3>1. DOMAIN tree \subseteq Places /\ r \in DOMAIN tree
      BY <2>2 DEF Shape
    <3>2. r \in Descent(DOMAIN tree, r, 0)
      BY <3>1, DescentBegins
    <3>3. 1 - 0 = 1
      OBVIOUS
    <3> QED BY <3>2, <3>3 DEF LeftSpine, Descent
  <2>7. r \in nodes
    BY <1>3, <2>6
  <2> QED BY <2>1, <2>2, <2>3, <2>5, <2>7
<1>4. ASSUME rights # {} PROVE \E n \in nodes : s <= sz[n]
  <2> HIDE DEF nodes, r
  <2> QED BY <1>3, <1>4
<1>5. ASSUME NEW u \in DOMAIN sz, s <= sz[u] PROVE \E n \in nodes : s <= sz[n] /\ sz[n] <= sz[u]
  <2>1. CASE u \in way
    <3>1. sz[u] <= sz[u]
      BY <1>1
    <3> QED BY <1>5, <2>1, <3>1
  <2>2. CASE u \notin way
    <3>1. PICK t \in rights : IsPrefix(t \o <<1>>, u)
      BY <1>5, <2>2, RightFor
    <3>2. /\ rst \in rights /\ Len(t) <= Len(rst)
          /\ \A v \in DOMAIN sz : IsPrefix(r, v) =>
                    \E n \in nodes : n \in DOMAIN sz /\ IsPrefix(r, n) /\ s <= sz[n] /\ sz[n] <= sz[v]
          /\ r \in DOMAIN sz /\ IsPrefix(r, r) /\ r \in nodes
      <4> HIDE DEF nodes, r, rst
      <4> QED BY <1>3, <3>1
    <3> HIDE DEF nodes, rst, way
    <3>3. /\ t \in Places /\ Len(t) \in 0..SIZE_T_BITSIZE - 1 /\ t = Down(i, s, Len(t))
          /\ SizeBits(i, s)[Len(t) + 1] = 0
          /\ SizeBits(i, sz[u])[Len(t) + 1] = 1
          /\ \A e \in 1..Len(t) : SizeBits(i, sz[u])[e] = SizeBits(i, s)[e]
      BY <3>1, RightIs
    <3>4. /\ rst \in Places /\ Len(rst) \in 0..SIZE_T_BITSIZE - 1 /\ rst = Down(i, s, Len(rst))
          /\ s < sz[r] /\ \A e \in 1..Len(rst) : SizeBits(i, sz[r])[e] = SizeBits(i, s)[e]
      BY <3>2, RightIs
    <3>5. CASE Len(t) = Len(rst)
      <4>1. t = rst
        BY <3>3, <3>4, <3>5
      <4>2. IsPrefix(r, u)
        BY <3>1, <4>1
      <4> QED BY <3>2, <4>2
    <3>6. CASE Len(t) # Len(rst)
      <4>1. Len(t) < Len(rst) /\ Len(t) + 1 \in 1..Len(rst) /\ \A e \in 1..Len(t) : e \in 1..Len(rst)
        BY <1>1, <3>2, <3>3, <3>4, <3>6
      <4>2. SizeBits(i, sz[r])[Len(t) + 1] = 0
        BY <3>3, <3>4, <4>1
      <4>3. \A e \in 1..Len(t) : SizeBits(i, sz[r])[e] = SizeBits(i, sz[u])[e]
        BY <3>3, <3>4, <4>1
      <4>4. /\ Large(sz[r]) /\ compute_tree_index(sz[r]) = i /\ Large(sz[u])
            /\ compute_tree_index(sz[u]) = i
        BY <3>2, NodeIs
      <4> HIDE DEF r
      <4>5. sz[r] < sz[u]
        BY <3>3, <4>2, <4>3, <4>4, BitsOrder
      <4>6. s <= sz[r] /\ sz[r] <= sz[u]
        BY <1>1, <3>2, <3>4, <4>5
      <4> QED BY <3>2, <4>6
    <3> QED BY <3>5, <3>6
  <2> QED BY <2>1, <2>2
<1> HIDE DEF nodes
<1>6. /\ nodes \subseteq DOMAIN sz /\ (rights # {} => \E n \in nodes : s <= sz[n])
      /\ \A u \in DOMAIN sz : s <= sz[u] => \E n \in nodes : s <= sz[n] /\ sz[n] <= sz[u]
  BY <1>2, <1>4, <1>5
<1>7. nodes = Searched(tree, i, s)
  BY DEF nodes, Searched
<1> HIDE DEF rights
<1> QED BY <1>6, <1>7 DEF rights

\* A tree that is marked has a root.
LEMMA RootIs ==
    ASSUME NEW sz, NEW i \in TreeBins, Shape(sz, i), NEW t \in DOMAIN sz
    PROVE  <<>> \in DOMAIN sz
<1>1. Len(t) \in 0..SIZE_T_BITSIZE /\ SIZE_T_BITSIZE \in Nat
  BY NodeIs, IndexBounds
<1>2. 0 \in 0..Len(t)
  BY <1>1
<1>3. Down(i, sz[t], 0) \in DOMAIN sz
  BY <1>2, WayIsThere
<1>4. Down(i, sz[t], 0) = <<>>
  BY SubSeqEmpty DEF Down
<1> QED BY <1>3, <1>4

\* The first marked tree that leftshift finds.
LEMMA RootBefore ==
    ASSUME NEW n \in Places
    PROVE  IsPrefix(<<>>, n)
<1>1. <<>> \in Places /\ Len(<<>>) = 0 /\ Len(n) \in Nat
  BY DEF Places
<1> QED BY <1>1, PrefixIs

\* The node that tmalloc_large and tmalloc_small choose is one with the least size.
LEMMA SmallestIs ==
    ASSUME NEW m, NEW X, Stored(m, X), Shown(m, X), NEW F, F # {}, F \subseteq DOMAIN X
    PROVE  LET v == Smallest(m, F) IN v \in F /\ \A q \in F : X[v] <= X[q]
<1> DEFINE T == {X[q] : q \in F}
<1>1. T \subseteq Nat /\ T # {}
  BY SmallIs DEF Stored, MIN_CHUNK_SIZE
<1>2. PICK s \in T : \A y \in T : s <= y
  <2> HIDE DEF T
  <2> QED BY <1>1, LeastNumber
<1>3. PICK p \in F : X[p] = s
  BY <1>2
<1>4. \A q \in F : chunksize(m, p) <= chunksize(m, q)
  BY <1>2, <1>3 DEF Shown
<1>5. Smallest(m, F) \in F /\ \A q \in F : chunksize(m, Smallest(m, F)) <= chunksize(m, q)
  BY <1>4 DEF Smallest
<1> QED BY <1>5 DEF Shown

\* The first chunks of nodes are as large as the nodes.
LEMMA FirstOfIs ==
    ASSUME NEW tree, NEW sz, NEW i \in TreeBins, NEW X, Holds(tree, sz, i, X), NEW nodes,
           nodes \subseteq DOMAIN tree
    PROVE  /\ \A p \in FirstOf(tree, nodes) : p \in DOMAIN X /\ Large(X[p])
              /\ compute_tree_index(X[p]) = i
           /\ \A n \in nodes : tree[n][1] \in FirstOf(tree, nodes) /\ X[tree[n][1]] = sz[n]
<1>1. \A n \in nodes : tree[n][1] \in DOMAIN X /\ X[tree[n][1]] = sz[n]
  BY FirstIs
<1>2. \A n \in nodes : Large(sz[n]) /\ compute_tree_index(sz[n]) = i
  BY DEF Holds, Shape
<1> QED BY <1>1, <1>2 DEF FirstOf

\* Larger bins have larger sizes.
LEMMA LargerBin ==
    ASSUME NEW s, NEW r, Large(s), Large(r), compute_tree_index(s) < compute_tree_index(r)
    PROVE  s < r
<1>1. s \in Nat /\ r \in Nat /\ MIN_LARGE_SIZE \in Nat /\ MIN_LARGE_SIZE <= s /\ MIN_LARGE_SIZE <= r
      /\ compute_tree_index(s) \in TreeBins /\ compute_tree_index(r) \in TreeBins
  BY LargeIs, IndexIs
<1> SUFFICES ASSUME r <= s PROVE FALSE
  BY <1>1
<1>2. compute_tree_index(r) <= compute_tree_index(s)
  BY <1>1, IndexGrows
<1>3. compute_tree_index(s) \in Int /\ compute_tree_index(r) \in Int
  BY <1>1 DEF TreeBins
<1> QED BY <1>2, <1>3

\* The first tree that is not empty has the least of the large chunks where a descent goes left.
LEMMA SearchOfRoot ==
    ASSUME NEW m, NEW X, Stored(m, X), NEW i \in m.treemap
    PROVE  LET F == FirstOf(m.treebins[i], LeftSpine(m.treebins[i], <<>>)) IN
           /\ F # {}
           /\ \A p \in F : p \in DOMAIN X /\ Large(X[p]) /\ compute_tree_index(X[p]) = i
           /\ \A q \in DOMAIN X : Large(X[q])
              /\ compute_tree_index(X[q]) = i => \E p \in F : X[p] <= X[q]
<1> DEFINE tree == m.treebins[i]
           nodes == LeftSpine(tree, <<>>)
           F == FirstOf(tree, nodes)
<1>1. i \in TreeBins /\ TreeHolds(tree, i, X) /\ tree # <<>>
  BY DEF Stored, LargeStored
<1>2. PICK sz : Holds(tree, sz, i, X)
  BY <1>1 DEF TreeHolds
<1> HIDE DEF tree
<1>3. Shape(sz, i) /\ DOMAIN sz = DOMAIN tree /\ DOMAIN sz \subseteq Places
  BY <1>2 DEF Holds, Shape
<1>4. PICK t0 \in DOMAIN tree : TRUE
  <2> SUFFICES ASSUME DOMAIN tree = {} PROVE FALSE
    OBVIOUS
  <2>1. tree = [t \in DOMAIN tree |-> tree[t]]
    BY <1>2 DEF Holds
  <2>2. tree = <<>>
    BY <2>1
  <2> QED BY <1>1, <2>2
<1>5. <<>> \in DOMAIN sz
  BY <1>1, <1>3, <1>4, RootIs
<1>6. nodes \subseteq DOMAIN tree
  BY DEF LeftSpine
<1>7. \A u \in DOMAIN sz : \E n \in nodes : sz[n] <= sz[u]
  <2> SUFFICES ASSUME NEW u \in DOMAIN sz PROVE \E n \in nodes : sz[n] <= sz[u]
    OBVIOUS
  <2>1. IsPrefix(<<>>, u)
    BY <1>3, RootBefore
  <2> DEFINE t == <<>>
  <2>2. t \in DOMAIN sz /\ IsPrefix(t, u) /\ nodes = LeftSpine(tree, t)
    BY <1>5, <2>1
  <2> HIDE DEF t, nodes
  <2>3. \E n \in LeftSpine(tree, t) : n \in DOMAIN sz /\ IsPrefix(t, n) /\ sz[n] <= sz[u]
    BY <1>1, <1>3, <2>2, SpineHasLeast
  <2> QED BY <2>2, <2>3
<1> HIDE DEF nodes
<1>11. F = FirstOf(tree, nodes)
  OBVIOUS
<1> HIDE DEF F
<1>8. /\ \A p \in F : p \in DOMAIN X /\ Large(X[p]) /\ compute_tree_index(X[p]) = i
      /\ \A n \in nodes : tree[n][1] \in F /\ X[tree[n][1]] = sz[n]
  <2>1. i \in TreeBins
    BY <1>1
  <2>2. \A p \in FirstOf(tree, nodes) : p \in DOMAIN X /\ Large(X[p]) /\ compute_tree_index(X[p]) = i
    <3>1. \A n \in nodes : tree[n][1] \in DOMAIN X /\ X[tree[n][1]] = sz[n] /\ Large(sz[n])
          /\ compute_tree_index(sz[n]) = i
      BY <1>2, <1>3, <1>6, FirstIs DEF Shape
    <3> QED BY <3>1 DEF FirstOf
  <2>3. \A n \in nodes : tree[n][1] \in FirstOf(tree, nodes) /\ X[tree[n][1]] = sz[n]
    BY <1>2, <1>6, <2>1, FirstOfIs
  <2> QED BY <1>11, <2>2, <2>3
<1>9. F # {}
  BY <1>5, <1>7, <1>8
<1>10. ASSUME NEW q \in DOMAIN X, Large(X[q]), compute_tree_index(X[q]) = i PROVE \E p \in F : X[p] <= X[q]
  <2>1. PICK u \in DOMAIN sz : sz[u] = X[q]
    BY <1>2, <1>10 DEF Holds
  <2>2. PICK n \in nodes : sz[n] <= sz[u]
    BY <1>7
  <2>3. tree[n][1] \in F /\ X[tree[n][1]] <= X[q]
    BY <1>8, <2>1, <2>2
  <2> QED BY <2>3
<1> QED BY <1>8, <1>9, <1>10 DEF F, nodes, tree

\* A large chunk of the bins is in a marked tree.
LEMMA InMarkedTree ==
    ASSUME NEW m, NEW X, Stored(m, X), NEW q \in DOMAIN X, Large(X[q])
    PROVE  compute_tree_index(X[q]) \in m.treemap
<1> DEFINE i == compute_tree_index(X[q])
<1>1. i \in TreeBins
  BY IndexIs
<1>2. TreeHolds(m.treebins[i], i, X) /\ (i \in m.treemap <=> m.treebins[i] # <<>>)
  BY <1>1 DEF Stored, LargeStored
<1>3. PICK sz : Holds(m.treebins[i], sz, i, X)
  BY <1>2 DEF TreeHolds
<1>4. \E t \in DOMAIN m.treebins[i] : TRUE
  BY <1>3 DEF Holds
<1>5. m.treebins[i] # <<>>
  <2> HIDE DEF i
  <2> QED BY <1>4
<1> QED BY <1>2, <1>5

\* The search of the trees finds the least large chunk that fits, if there is one.
LEMMA LargeFitsAre ==
    ASSUME NEW m, NEW X, Stored(m, X), Shown(m, X), NEW nb, Large(nb)
    PROVE  LET F == large_fits(m, nb) IN
           /\ \A p \in F : p \in DOMAIN X /\ Large(X[p]) /\ nb <= X[p]
           /\ \A q \in DOMAIN X : nb <= X[q] => \E p \in F : X[p] <= X[q]
<1> DEFINE i == compute_tree_index(nb)
           tree == m.treebins[i]
           way == OnTheWay(tree, i, nb)
           rights == Rights(tree, i, nb)
           rst == LastRight(tree, i, nb)
           spine == LeftSpine(tree, rst \o <<1>>)
           nodes == Searched(tree, i, nb)
           here == FirstOf(tree, way) \cup IF rights = {} THEN {} ELSE FirstOf(tree, spine)
           next == {j \in m.treemap : j > i}
           fits == {p \in here : chunksize(m, p) >= nb}
           first == Min(next)
           F == IF fits # {} \/ rights # {} \/ next = {} THEN fits
                ELSE FirstOf(m.treebins[first], LeftSpine(m.treebins[first], <<>>))
<1>1. i \in TreeBins /\ nb \in Nat /\ \A q \in DOMAIN X : X[q] \in Nat /\ (nb <= X[q] => Large(X[q]))
  BY IndexIs, LargeIs, SmallIs DEF Stored, MIN_CHUNK_SIZE, Large
<1>2. PICK sz : Holds(tree, sz, i, X)
  BY <1>1 DEF TreeHolds, Stored, LargeStored
<1>3. large_fits(m, nb) = F
  BY DEF large_fits, Rights, LastRight
<1>4. Shape(sz, i) /\ DOMAIN sz = DOMAIN tree
  BY <1>2 DEF Holds
<1>5. here = FirstOf(tree, nodes)
  BY DEF FirstOf, Searched
<1>6. /\ nodes \subseteq DOMAIN tree /\ (rights # {} => \E n \in nodes : nb <= sz[n])
      /\ \A u \in DOMAIN sz : nb <= sz[u] => \E n \in nodes : nb <= sz[n] /\ sz[n] <= sz[u]
  <2> HIDE DEF i, tree
  <2>1. compute_tree_index(nb) = i
    BY DEF i
  <2> QED BY <1>1, <1>4, <2>1, SearchOfTree
<1>7. next \subseteq TreeBins /\ \A j \in next : j \in Nat
  BY DEF Stored, LargeStored, TreeBins
<1> HIDE DEF F, nodes
<1>8. /\ \A p \in here : p \in DOMAIN X /\ Large(X[p]) /\ compute_tree_index(X[p]) = i
      /\ \A n \in nodes : tree[n][1] \in here /\ X[tree[n][1]] = sz[n]
  <2> HIDE DEF here, i, tree
  <2> QED BY <1>1, <1>2, <1>5, <1>6, FirstOfIs
<1> HIDE DEF here, way, tree, rights, next
<1>9. /\ \A p \in fits : p \in here /\ p \in DOMAIN X /\ Large(X[p]) /\ nb <= X[p]
         /\ compute_tree_index(X[p]) = i
      /\ \A p \in here : nb <= X[p] => p \in fits
  BY <1>1, <1>8 DEF Shown
<1> HIDE DEF fits
<1>10. \A q \in DOMAIN X : nb <= X[q] /\ compute_tree_index(X[q]) = i => \E p \in fits : X[p] <= X[q]
  <2> SUFFICES ASSUME NEW q \in DOMAIN X, nb <= X[q], compute_tree_index(X[q]) = i
               PROVE  \E p \in fits : X[p] <= X[q]
    OBVIOUS
  <2>1. PICK u \in DOMAIN sz : sz[u] = X[q]
    <3> HIDE DEF i
    <3> QED BY <1>1, <1>2 DEF Holds
  <2>2. PICK n \in nodes : nb <= sz[n] /\ sz[n] <= sz[u]
    BY <1>6, <2>1
  <2>3. tree[n][1] \in fits /\ X[tree[n][1]] <= X[q]
    BY <1>8, <1>9, <2>1, <2>2
  <2> QED BY <2>3
<1>11. rights # {} => fits # {}
  BY <1>6, <1>8, <1>9
<1>12. ASSUME NEW q \in DOMAIN X, nb <= X[q], compute_tree_index(X[q]) # i
       PROVE  /\ compute_tree_index(X[q]) \in next
              /\ \A p \in fits : X[p] <= X[q]
  <2>1. compute_tree_index(X[q]) \in m.treemap /\ Large(X[q])
    BY <1>1, <1>12, InMarkedTree
  <2>2. compute_tree_index(X[q]) \in TreeBins /\ TreeBins \subseteq Int
    BY <2>1, IndexIs DEF TreeBins
  <2> DEFINE j == compute_tree_index(X[q])
  <2>3. i < j
    <3>2. j \in Int /\ i \in Int /\ j # i
      BY <1>1, <1>12, <2>2
    <3> SUFFICES ASSUME j < i PROVE FALSE
      <4> HIDE DEF i, j
      <4> QED BY <3>2
    <3>1. X[q] < nb
      BY <2>1, LargerBin
    <3> QED BY <1>1, <1>12, <3>1
  <2>4. \A p \in fits : X[p] <= X[q]
    <3> SUFFICES ASSUME NEW p \in fits PROVE X[p] <= X[q]
      OBVIOUS
    <3>1. X[p] < X[q]
      BY <1>9, <2>1, <2>3, LargerBin
    <3> QED BY <1>1, <1>9, <3>1
  <2> QED BY <1>1, <2>1, <2>2, <2>3, <2>4 DEF next
<1>13. CASE fits # {} \/ rights # {} \/ next = {}
  <2>1. F = fits
    BY <1>13 DEF F
  <2>2. ASSUME NEW q \in DOMAIN X, nb <= X[q] PROVE \E p \in fits : X[p] <= X[q]
    <3>1. CASE compute_tree_index(X[q]) = i
      <4> HIDE DEF i
      <4> QED BY <1>10, <2>2, <3>1
    <3>2. CASE compute_tree_index(X[q]) # i
      <4>1. fits # {}
        <5> HIDE DEF i
        <5> QED BY <1>11, <1>12, <1>13, <2>2, <3>2
      <4> HIDE DEF i
      <4> QED BY <1>12, <2>2, <3>2, <4>1
    <3> QED BY <3>1, <3>2
  <2> QED BY <1>3, <1>9, <2>1, <2>2
<1>14. CASE ~(fits # {} \/ rights # {} \/ next = {})
  <2> HIDE DEF first
  <2>1. F = FirstOf(m.treebins[first], LeftSpine(m.treebins[first], <<>>))
    BY <1>14 DEF F
  <2>2. first \in next /\ \A j \in next : first <= j
    BY <1>7, <1>14, MinOf DEF first
  <2>3. first \in m.treemap /\ first > i
    BY <2>2 DEF next
  <2>4. /\ F # {}
        /\ \A p \in F : p \in DOMAIN X /\ Large(X[p]) /\ compute_tree_index(X[p]) = first
        /\ \A q \in DOMAIN X : Large(X[q])
           /\ compute_tree_index(X[q]) = first => \E p \in F : X[p] <= X[q]
    BY <2>1, <2>3, SearchOfRoot
  <2>5. \A p \in F : p \in DOMAIN X /\ Large(X[p]) /\ nb <= X[p]
    <3> SUFFICES ASSUME NEW p \in F PROVE p \in DOMAIN X /\ Large(X[p]) /\ nb <= X[p]
      OBVIOUS
    <3>1. p \in DOMAIN X /\ Large(X[p]) /\ compute_tree_index(X[p]) = first
      BY <2>4
    <3>2. i < compute_tree_index(X[p])
      BY <1>1, <1>7, <2>2, <2>3, <3>1 DEF TreeBins
    <3>3. nb < X[p]
      BY <3>1, <3>2, LargerBin
    <3> QED BY <1>1, <3>1, <3>3
  <2>6. ASSUME NEW q \in DOMAIN X, nb <= X[q] PROVE \E p \in F : X[p] <= X[q]
    <3>1. compute_tree_index(X[q]) # i
      <4> HIDE DEF i
      <4> QED BY <1>10, <1>14, <2>6
    <3>2. compute_tree_index(X[q]) \in next /\ Large(X[q])
      <4> HIDE DEF i
      <4> QED BY <1>1, <1>12, <2>6, <3>1
    <3>3. CASE compute_tree_index(X[q]) = first
      BY <2>4, <3>2, <3>3
    <3>4. CASE compute_tree_index(X[q]) # first
      <4>1. PICK p \in F : TRUE
        BY <2>4
      <4>2. compute_tree_index(X[p]) < compute_tree_index(X[q]) /\ Large(X[p]) /\ p \in DOMAIN X
        BY <1>7, <2>2, <2>4, <3>2, <3>4, <4>1
      <4>3. X[p] < X[q]
        BY <3>2, <4>2, LargerBin
      <4>4. X[p] <= X[q]
        BY <1>1, <4>2, <4>3
      <4> QED BY <4>1, <4>4
    <3> QED BY <3>3, <3>4
  <2> QED BY <1>3, <2>5, <2>6
<1> QED BY <1>13, <1>14

------------------------------------------------------------------------------
(* The heap: heads that agree with their neighbours, and segments that hold them. *)

HeadType == [size : Nat, cin : BOOLEAN, pin : BOOLEAN, foot : Nat]
FootHead == Chunk(TOP_FOOT_SIZE, FALSE, FALSE, 0)

\* What a head says of its chunk and of its neighbours holds; ft is the head behind top.
Sound(mem, ft, p) ==
    LET c == mem[p]
        n == p + c.size
        q == p - c.foot
    IN  /\ c.cin \/ c.pin
        /\ ~c.pin => /\ c.foot # 0 /\ q \in DOMAIN mem /\ q # ft
                     /\ ~mem[q].cin /\ mem[q].size = c.foot
        /\ c.size = 0 => /\ c = FENCEPOST
                         /\ p - SEGMENT_SIZE \in DOMAIN mem
                         /\ mem[p - SEGMENT_SIZE].size = SEGMENT_SIZE /\ mem[p - SEGMENT_SIZE].cin
        /\ c.size # 0 => /\ n \in DOMAIN mem /\ mem[n].pin = c.cin
                         /\ n # ft => c.size >= MIN_CHUNK_SIZE /\ (~c.cin => mem[n].foot = c.size)
                         /\ \A a \in DOMAIN mem : a <= p \/ n <= a

Tiled(mem, ft) ==
    /\ DOMAIN mem \subseteq Nat \ {0} /\ \A p \in DOMAIN mem : mem[p] \in HeadType
    /\ ft \in DOMAIN mem => mem[ft] = FootHead
       /\ \A a \in DOMAIN mem : a <= ft \/ ft + TOP_FOOT_SIZE <= a
    /\ \A p \in DOMAIN mem \ {ft} : Sound(mem, ft, p)

Fenced(mem) == {p \in DOMAIN mem : mem[p].size = 0}
Records(mem) == {p \in DOMAIN mem : p + SEGMENT_SIZE \in Fenced(mem)}
Frees(mem, ft) == {p \in DOMAIN mem \ {ft} : ~mem[p].cin}
Used(mem) == {p \in DOMAIN mem : mem[p].cin /\ p \notin Fenced(mem) /\ p \notin Records(mem)}

\* Only the heads from lo on and before hi change, and what hi says of the chunk before it.
Changed(mem, mem2, lo, hi) ==
    /\ \A a \in DOMAIN mem : a < lo \/ hi <= a => a \in DOMAIN mem2
    /\ \A a \in DOMAIN mem2 : a < lo \/ hi <= a => a \in DOMAIN mem
    /\ \A a \in DOMAIN mem : a < lo \/ hi < a => mem2[a] = mem[a]
    /\ mem2[hi].size = mem[hi].size /\ mem2[hi].cin = mem[hi].cin
    /\ lo \in DOMAIN mem2 /\ mem2[lo].pin = mem[lo].pin
       /\ (~mem[lo].pin => mem2[lo].foot = mem[lo].foot)

\* What a sound head says.
LEMMA HeadIs ==
    ASSUME NEW mem, NEW ft, Tiled(mem, ft), NEW p \in DOMAIN mem
    PROVE  /\ p \in Nat \ {0} /\ mem[p].size \in Nat /\ mem[p].foot \in Nat
           /\ mem[p].cin \in BOOLEAN /\ mem[p].pin \in BOOLEAN
           /\ p # ft => Sound(mem, ft, p)
           /\ p = ft => mem[p].size = TOP_FOOT_SIZE /\ ~mem[p].cin /\ ~mem[p].pin
BY DEF Tiled, HeadType, FootHead, Chunk

\* No chunk reaches beyond the next head.
LEMMA Apart ==
    ASSUME NEW mem, NEW ft, Tiled(mem, ft), NEW p \in DOMAIN mem, NEW q \in DOMAIN mem, p < q
    PROVE  p + mem[p].size <= q
<1>1. p \in Nat /\ q \in Nat /\ mem[p].size \in Nat
  BY HeadIs
<1>2. CASE p = ft
  BY <1>1, <1>2 DEF Tiled, FootHead, Chunk
<1>3. CASE p # ft
  <2>1. Sound(mem, ft, p)
    BY <1>3, HeadIs
  <2>2. CASE mem[p].size = 0
    BY <1>1, <2>2
  <2>3. CASE mem[p].size # 0
    BY <1>1, <2>1, <2>3 DEF Sound
  <2> QED BY <2>2, <2>3
<1> QED BY <1>2, <1>3

\* Heads that stay sound where nothing changed and are sound where something did are sound.
LEMMA Retiled ==
    ASSUME NEW mem, NEW ft \in Nat, Tiled(mem, ft), NEW lo \in DOMAIN mem, NEW hi \in DOMAIN mem,
           lo < hi,
           ~(lo <= ft /\ ft < hi), NEW mem2, Changed(mem, mem2, lo, hi),
           DOMAIN mem2 \subseteq Nat \ {0}, \A p \in DOMAIN mem2 : mem2[p] \in HeadType,
           \A f \in Fenced(mem) : ~(lo <= f - SEGMENT_SIZE /\ f - SEGMENT_SIZE < hi),
           hi = ft => mem2[hi] = mem[hi],
           hi # ft => Sound(mem2, ft, hi),
           \A n \in DOMAIN mem2 : lo <= n /\ n < hi => Sound(mem2, ft, n)
    PROVE  Tiled(mem2, ft)
<1>0. /\ lo \in Nat /\ hi \in Nat /\ \A p \in DOMAIN mem : p \in Nat /\ mem[p].size \in Nat
         /\ mem[p].foot \in Nat
      /\ hi \in DOMAIN mem2 /\ lo \in DOMAIN mem2
      /\ \A p \in DOMAIN mem2 : p \in Nat /\ mem2[p].size \in Nat
  <2>1. lo \in Nat /\ hi \in Nat /\ \A p \in DOMAIN mem : p \in Nat /\ mem[p].size \in Nat
        /\ mem[p].foot \in Nat
    BY HeadIs
  <2> QED BY <2>1 DEF Changed, HeadType
<1>1. ASSUME NEW p \in DOMAIN mem2 \ {ft}, p < lo \/ hi < p
      PROVE  Sound(mem2, ft, p)
  <2> DEFINE c == mem[p]
             n == p + c.size
             q == p - c.foot
  <2>1. /\ p \in DOMAIN mem /\ mem2[p] = c /\ p \in Nat /\ c.size \in Nat /\ c.foot \in Nat
        /\ Sound(mem, ft, p)
    <3>1. p \in DOMAIN mem
      BY <1>0, <1>1 DEF Changed
    <3> QED BY <1>0, <1>1, <3>1, HeadIs DEF Changed
  <2> HIDE DEF c
  <2>2. c.cin \/ c.pin
    BY <2>1 DEF Sound, c
  <2>3. ASSUME ~c.pin
        PROVE  c.foot # 0 /\ q \in DOMAIN mem2 /\ q # ft /\ ~mem2[q].cin /\ mem2[q].size = c.foot
    <3>1. c.foot # 0 /\ q \in DOMAIN mem /\ q # ft /\ ~mem[q].cin /\ mem[q].size = c.foot
      BY <2>1, <2>3 DEF Sound, c
    <3>2. q \in Nat /\ q < p /\ q + mem[q].size = p
      BY <1>0, <2>1, <3>1
    <3>3. CASE p < lo
      <4>1. q < lo
        BY <1>0, <2>1, <3>2, <3>3
      <4> QED BY <3>1, <4>1 DEF Changed
    <3>4. CASE hi < p
      <4>1. hi <= q
        <5> SUFFICES ASSUME q < hi PROVE FALSE
          BY <1>0, <3>2
        <5>1. q + mem[q].size <= hi
          BY <3>1, Apart
        <5> QED BY <1>0, <2>1, <3>2, <3>4, <5>1
      <4> QED BY <1>0, <3>1, <3>2, <4>1 DEF Changed
    <3> QED BY <1>1, <3>3, <3>4
  <2>4. ASSUME c.size = 0
        PROVE  /\ c = FENCEPOST
               /\ p - SEGMENT_SIZE \in DOMAIN mem2
               /\ mem2[p - SEGMENT_SIZE].size = SEGMENT_SIZE /\ mem2[p - SEGMENT_SIZE].cin
    <3> DEFINE r == p - SEGMENT_SIZE
    <3>1. c = FENCEPOST /\ r \in DOMAIN mem /\ mem[r].size = SEGMENT_SIZE /\ mem[r].cin
      BY <2>1, <2>4 DEF Sound, c
    <3>2. p \in Fenced(mem)
      BY <2>1, <2>4 DEF Fenced, c
    <3>3. ~(lo <= r /\ r < hi)
      BY <3>2
    <3>4. r \in DOMAIN mem2 /\ mem2[r].size = mem[r].size /\ mem2[r].cin = mem[r].cin
      <4>1. r \in Nat
        BY <1>0, <3>1
      <4> HIDE DEF r
      <4>2. CASE r < lo \/ hi < r
        <5>1. r \in DOMAIN mem2 /\ mem2[r] = mem[r]
          BY <1>0, <3>1, <4>1, <4>2 DEF Changed
        <5> QED BY <5>1
      <4>3. CASE r = hi
        BY <1>0, <4>3 DEF Changed
      <4> QED BY <1>0, <3>3, <4>1, <4>2, <4>3
    <3> QED BY <3>1, <3>4
  <2>5. ASSUME c.size # 0
        PROVE  /\ n \in DOMAIN mem2 /\ mem2[n].pin = c.cin
               /\ n # ft => c.size >= MIN_CHUNK_SIZE /\ (~c.cin => mem2[n].foot = c.size)
               /\ \A a \in DOMAIN mem2 : a <= p \/ n <= a
    <3>1. /\ n \in DOMAIN mem /\ mem[n].pin = c.cin
          /\ n # ft => c.size >= MIN_CHUNK_SIZE /\ (~c.cin => mem[n].foot = c.size)
          /\ \A a \in DOMAIN mem : a <= p \/ n <= a
      BY <2>1, <2>5 DEF Sound, c
    <3>2. n \in Nat
      BY <2>1
    <3>3. CASE p < lo
      <4>1. n <= lo
        BY <1>0, <2>1, <3>1, <3>3
      <4>2. n \in DOMAIN mem2 /\ mem2[n].pin = mem[n].pin /\ (~mem[n].pin => mem2[n].foot = mem[n].foot)
        BY <1>0, <3>1, <3>2, <4>1 DEF Changed
      <4>3. \A a \in DOMAIN mem2 : a <= p \/ n <= a
        <5> SUFFICES ASSUME NEW a \in DOMAIN mem2 PROVE a <= p \/ n <= a
          OBVIOUS
        <5>1. CASE a < lo \/ hi <= a
          BY <3>1, <5>1 DEF Changed
        <5>2. CASE ~(a < lo \/ hi <= a)
          BY <1>0, <2>1, <3>2, <4>1, <5>2
        <5> QED BY <5>1, <5>2
      <4> QED BY <3>1, <4>2, <4>3
    <3>4. CASE hi < p
      <4>1. hi < n
        BY <1>0, <2>1, <3>2, <3>4
      <4>2. n \in DOMAIN mem2 /\ mem2[n] = mem[n]
        BY <1>0, <3>1, <3>2, <4>1 DEF Changed
      <4>3. \A a \in DOMAIN mem2 : a <= p \/ n <= a
        <5> SUFFICES ASSUME NEW a \in DOMAIN mem2 PROVE a <= p \/ n <= a
          OBVIOUS
        <5>1. CASE a < lo \/ hi <= a
          BY <3>1, <5>1 DEF Changed
        <5>2. CASE ~(a < lo \/ hi <= a)
          BY <1>0, <2>1, <3>4, <5>2
        <5> QED BY <5>1, <5>2
      <4> QED BY <3>1, <4>2, <4>3
    <3> QED BY <1>1, <3>3, <3>4
  <2> QED BY <2>1, <2>2, <2>3, <2>4, <2>5 DEF Sound
<1>2. \A p \in DOMAIN mem2 \ {ft} : Sound(mem2, ft, p)
  <2> SUFFICES ASSUME NEW p \in DOMAIN mem2 \ {ft} PROVE Sound(mem2, ft, p)
    OBVIOUS
  <2>1. CASE p < lo \/ hi < p
    BY <1>1, <2>1
  <2>2. CASE p = hi
    BY <2>2
  <2>3. CASE lo <= p /\ p < hi
    BY <2>3
  <2> QED BY <1>0, <2>1, <2>2, <2>3
<1>3. ASSUME ft \in DOMAIN mem2
      PROVE  mem2[ft] = FootHead /\ \A a \in DOMAIN mem2 : a <= ft \/ ft + TOP_FOOT_SIZE <= a
  <2>1. ft \in DOMAIN mem /\ (ft < lo \/ hi <= ft)
    BY <1>0, <1>3 DEF Changed
  <2>2. mem[ft] = FootHead /\ \A a \in DOMAIN mem : a <= ft \/ ft + TOP_FOOT_SIZE <= a
    BY <2>1 DEF Tiled
  <2>3. mem2[ft] = mem[ft]
    BY <1>0, <2>1 DEF Changed
  <2>4. ASSUME NEW a \in DOMAIN mem2 PROVE a <= ft \/ ft + TOP_FOOT_SIZE <= a
    <3>1. CASE a < lo \/ hi <= a
      BY <2>2, <3>1 DEF Changed
    <3>2. CASE ~(a < lo \/ hi <= a)
      <4>1. lo <= ft \/ ft + TOP_FOOT_SIZE <= lo
        BY <2>2
      <4> QED BY <1>0, <2>1, <3>2, <4>1 DEF TOP_FOOT_SIZE
    <3> QED BY <3>1, <3>2
  <2> QED BY <2>2, <2>3, <2>4
<1> QED BY <1>2, <1>3 DEF Tiled

Inner(mem, lo, hi) == {a \in DOMAIN mem : lo <= a /\ a < hi}

\* A head of size s that says c of its own chunk and p of the one before it, whose size is f when it is free.
Piece(h, s, c, p, f) == h \in HeadType /\ h.size = s /\ h.cin = c /\ h.pin = p /\ (~p => h.foot = f)

\* The chunks from lo to hi can be given other borders.
Region(mem, ft, lo, hi) ==
    /\ lo \in DOMAIN mem /\ hi \in DOMAIN mem /\ lo < hi /\ ~(lo <= ft /\ ft < hi)
    /\ \A a \in Inner(mem, lo, hi) : a \notin Records(mem) /\ a \notin Fenced(mem)

\* What the chunks from lo to hi become: nothing else changes.
Renewed(mem, mem2, ft, lo, hi, P) ==
    /\ DOMAIN mem2 = (DOMAIN mem \ Inner(mem, lo, hi)) \cup P
    /\ \A a \in DOMAIN mem : a < lo \/ hi < a => mem2[a] = mem[a]

\* They become one chunk.
AsOne(mem, mem2, ft, lo, hi, c) ==
    /\ c \in BOOLEAN /\ (c = FALSE => mem[lo].pin /\ (hi = ft \/ mem[hi].cin)) /\ (hi = ft => c = FALSE)
    /\ hi = ft \/ hi - lo >= MIN_CHUNK_SIZE
    /\ Renewed(mem, mem2, ft, lo, hi, {lo})
    /\ Piece(mem2[lo], hi - lo, c, mem[lo].pin, mem[lo].foot)
    /\ hi = ft => mem2[hi] = mem[hi]
    /\ hi # ft => Piece(mem2[hi], mem[hi].size, mem[hi].cin, c, hi - lo)

\* They become two chunks, the first one in use.
AsTwo(mem, mem2, ft, lo, mid, hi, d) ==
    /\ d \in BOOLEAN /\ (d = FALSE => hi = ft \/ mem[hi].cin) /\ (hi = ft => d = FALSE)
    /\ mid \in Nat /\ lo + MIN_CHUNK_SIZE <= mid /\ mid < hi /\ (hi = ft \/ mid + MIN_CHUNK_SIZE <= hi)
    /\ Renewed(mem, mem2, ft, lo, hi, {lo, mid})
    /\ Piece(mem2[lo], mid - lo, TRUE, mem[lo].pin, mem[lo].foot)
    /\ Piece(mem2[mid], hi - mid, d, TRUE, 0)
    /\ hi = ft => mem2[hi] = mem[hi]
    /\ hi # ft => Piece(mem2[hi], mem[hi].size, mem[hi].cin, d, hi - mid)

\* What is left of the kinds of chunks.
Kinds(mem, mem2, ft, lo, hi, F, U) ==
    /\ Fenced(mem2) = Fenced(mem)
    /\ Frees(mem2, ft) = (Frees(mem, ft) \ Inner(mem, lo, hi)) \cup F
    /\ Used(mem2) = (Used(mem) \ Inner(mem, lo, hi)) \cup U

\* Both addresses lie in one segment.
InOne(seg, a, b) == \E i \in DOMAIN seg : seg[i].base <= a /\ b < seg[i].base + seg[i].size

SegmentType == [base : Nat \ {0}, size : Nat \ {0}]
SegmentsApart(seg) == \A i, j \in DOMAIN seg : i # j =>
    seg[i].base + seg[i].size <= seg[j].base \/ seg[j].base + seg[j].size <= seg[i].base

Foot(m) == m.top + m.topsize

\* The segments, every one of which begins with a chunk and holds all of a chunk or nothing of it.
Segments(m) ==
    /\ m.seg \in Seq(SegmentType) /\ m.least_addr \in Nat /\ SegmentsApart(m.seg)
    /\ m.seg # <<>> => m.least_addr # 0
    /\ \A i \in DOMAIN m.seg : /\ m.seg[i].base + m.seg[i].size <= MemoryEnd /\ m.least_addr <= m.seg[i].base
                               /\ m.seg[i].base \in DOMAIN m.mem \ {Foot(m)} /\ m.mem[m.seg[i].base].pin
    /\ \A p \in DOMAIN m.mem \ {Foot(m)} : InOne(m.seg, p, p + m.mem[p].size)

TopIs(m) ==
    /\ m.top \in Nat /\ m.topsize \in Nat
    /\ m.top = NULL => DOMAIN m.mem = {} /\ m.topsize = 0 /\ m.seg = <<>>
    /\ m.top # NULL => /\ m.top \in DOMAIN m.mem /\ Foot(m) \in DOMAIN m.mem /\ m.topsize > 0
                       /\ m.mem[m.top].size = m.topsize /\ ~m.mem[m.top].cin /\ m.mem[m.top].pin
                       /\ \E i \in DOMAIN m.seg : /\ m.seg[i].base <= m.top
                                                  /\ m.seg[i].base + m.seg[i].size = Foot(m) + TOP_FOOT_SIZE

FencesAreCounted(m) == IsFiniteSet(Fenced(m.mem)) /\
    Cardinality(Fenced(m.mem)) = IF m.seg = <<>> THEN 0 ELSE Len(m.seg) - 1

\* The memory of the heap.
Laid(m) == Tiled(m.mem, Foot(m)) /\ TopIs(m) /\ Segments(m) /\ FencesAreCounted(m)

DvIs(m) ==
    /\ m.dv = NULL => m.dvsize = 0
    /\ m.dv # NULL => m.dv \in Frees(m.mem, Foot(m)) \ {m.top} /\ m.dvsize = m.mem[m.dv].size

\* The bins keep what is free but top, dv and S.
Kept(m, X, S) ==
    /\ DOMAIN X = Frees(m.mem, Foot(m)) \ ({m.top, m.dv} \cup S)
    /\ Shown(m, X)
    /\ Stored(m, X)

Whole(m, X) == Laid(m) /\ DvIs(m) /\ Kept(m, X, {})

------------------------------------------------------------------------------
(* A stretch of chunks becomes one chunk, or two.                             *)

\* A region of chunks has no head of another one within it.
LEMMA RegionIs ==
    ASSUME NEW mem, NEW ft \in Nat, Tiled(mem, ft), NEW lo, NEW hi, Region(mem, ft, lo, hi)
    PROVE  /\ lo \in Nat \ {0} /\ hi \in Nat \ {0} /\ lo \in DOMAIN mem /\ hi \in DOMAIN mem /\ lo < hi
           /\ ~(lo <= ft /\ ft < hi) /\ ft \notin Inner(mem, lo, hi) /\ lo # ft
           /\ \A f \in Fenced(mem) : ~(lo <= f - SEGMENT_SIZE /\ f - SEGMENT_SIZE < hi)
              /\ ~(lo <= f /\ f <= hi)
           /\ hi # ft => mem[hi].size # 0
<1>1. /\ lo \in Nat \ {0} /\ hi \in Nat \ {0} /\ lo \in DOMAIN mem /\ hi \in DOMAIN mem /\ lo < hi
      /\ ~(lo <= ft /\ ft < hi) /\ ft \notin Inner(mem, lo, hi) /\ lo # ft
  BY HeadIs DEF Region, Inner
<1>2. ASSUME NEW f \in Fenced(mem)
      PROVE  /\ f \in DOMAIN mem /\ f \in Nat /\ f - SEGMENT_SIZE \in DOMAIN mem
             /\ f - SEGMENT_SIZE \in Records(mem)
             /\ mem[f - SEGMENT_SIZE].size = SEGMENT_SIZE /\ f - SEGMENT_SIZE \in Nat
  <2>1. f \in DOMAIN mem /\ f \in Nat /\ mem[f].size = 0
    BY HeadIs DEF Fenced
  <2>2. f # ft
    BY <2>1, HeadIs DEF TOP_FOOT_SIZE
  <2>3. Sound(mem, ft, f)
    BY <2>1, <2>2, HeadIs
  <2>4. f - SEGMENT_SIZE \in DOMAIN mem /\ mem[f - SEGMENT_SIZE].size = SEGMENT_SIZE
    BY <2>1, <2>3 DEF Sound
  <2>5. f - SEGMENT_SIZE \in Nat /\ (f - SEGMENT_SIZE) + SEGMENT_SIZE = f
    BY <2>1, <2>4, HeadIs DEF SEGMENT_SIZE
  <2> QED BY <2>1, <2>4, <2>5 DEF Records
<1>3. ASSUME NEW f \in Fenced(mem)
      PROVE  ~(lo <= f - SEGMENT_SIZE /\ f - SEGMENT_SIZE < hi) /\ ~(lo <= f /\ f <= hi)
  <2> DEFINE r == f - SEGMENT_SIZE
  <2>1. /\ r \in DOMAIN mem /\ r \in Records(mem) /\ r \in Nat /\ mem[r].size = SEGMENT_SIZE
        /\ f = r + SEGMENT_SIZE /\ f \in Nat
    BY <1>2 DEF SEGMENT_SIZE
  <2> HIDE DEF r
  <2>2. ~(lo <= r /\ r < hi)
    BY <2>1 DEF Region, Inner
  <2>3. r < lo => f <= lo
    BY <1>1, <2>1, Apart
  <2>4. f # lo
    BY <1>1, <1>3 DEF Region, Inner
  <2>5. ~(lo <= f /\ f <= hi)
    BY <1>1, <2>1, <2>2, <2>3, <2>4 DEF SEGMENT_SIZE
  <2> QED BY <2>2, <2>5 DEF r
<1>4. hi # ft => mem[hi].size # 0
  BY <1>1, <1>3 DEF Fenced
<1> QED BY <1>1, <1>3, <1>4

\* A region without records is tiled anew when the new heads are sound.
LEMMA RenewedIs ==
    ASSUME NEW mem, NEW ft \in Nat, Tiled(mem, ft), NEW lo, NEW hi, Region(mem, ft, lo, hi), NEW mem2,
           NEW P,
           Renewed(mem, mem2, ft, lo, hi, P), P \subseteq lo..hi - 1, lo \in P,
           \A p \in P \cup {hi} : mem2[p] \in HeadType,
           \A p \in P : mem2[p].size # 0,
           mem2[hi].size = mem[hi].size, mem2[hi].cin = mem[hi].cin,
           mem2[lo].pin = mem[lo].pin, ~mem[lo].pin => mem2[lo].foot = mem[lo].foot,
           hi = ft => mem2[hi] = mem[hi],
           hi # ft => Sound(mem2, ft, hi),
           \A p \in P : Sound(mem2, ft, p)
    PROVE  /\ Tiled(mem2, ft)
           /\ Kinds(mem, mem2, ft, lo, hi, {p \in P : ~mem2[p].cin}, {p \in P : mem2[p].cin})
<1>1. /\ lo \in Nat \ {0} /\ hi \in Nat \ {0} /\ lo \in DOMAIN mem /\ hi \in DOMAIN mem /\ lo < hi
      /\ ~(lo <= ft /\ ft < hi) /\ ft \notin Inner(mem, lo, hi) /\ lo # ft
      /\ \A f \in Fenced(mem) : ~(lo <= f - SEGMENT_SIZE /\ f - SEGMENT_SIZE < hi)
         /\ ~(lo <= f /\ f <= hi)
      /\ hi # ft => mem[hi].size # 0
  BY RegionIs
<1>2. /\ \A p \in DOMAIN mem : p \in Nat \ {0} /\ mem[p] \in HeadType
      /\ \A p \in P : p \in Nat \ {0} /\ lo <= p /\ p < hi
  BY <1>1 DEF Tiled
<1>3. /\ \A p \in DOMAIN mem : p < lo \/ hi <= p => p \in DOMAIN mem2
      /\ \A p \in DOMAIN mem2 : p < lo \/ hi <= p => p \in DOMAIN mem
      /\ \A p \in DOMAIN mem2 : lo <= p /\ p < hi <=> p \in P
      /\ \A p \in DOMAIN mem : p < lo \/ hi < p => mem2[p] = mem[p]
      /\ P \subseteq DOMAIN mem2
  <2>1. \A p \in DOMAIN mem \ Inner(mem, lo, hi) : p \in DOMAIN mem2
    BY DEF Renewed
  <2>2. \A p \in DOMAIN mem2 : p \in P \/ p \in DOMAIN mem \ Inner(mem, lo, hi)
    BY DEF Renewed
  <2>3. \A p \in DOMAIN mem : p \in Inner(mem, lo, hi) <=> (lo <= p /\ p < hi)
    BY DEF Inner
  <2>4. P \subseteq DOMAIN mem2 /\ \A p \in DOMAIN mem : p < lo \/ hi < p => mem2[p] = mem[p]
    BY DEF Renewed
  <2>5. \A p \in DOMAIN mem : p < lo \/ hi <= p => p \in DOMAIN mem2
    BY <1>1, <1>2, <2>1, <2>3
  <2>6. \A p \in DOMAIN mem2 : p < lo \/ hi <= p => p \in DOMAIN mem
    <3>1. \A p \in P : ~(p < lo \/ hi <= p)
      BY <1>1, <1>2
    <3> QED BY <2>2, <3>1
  <2>7. \A p \in DOMAIN mem2 : lo <= p /\ p < hi <=> p \in P
    BY <1>1, <1>2, <2>2, <2>3, <2>4
  <2> QED BY <2>4, <2>5, <2>6, <2>7
<1>4. /\ DOMAIN mem2 \subseteq Nat \ {0} /\ \A p \in DOMAIN mem2 : mem2[p] \in HeadType
  <2>1. DOMAIN mem2 \subseteq Nat \ {0}
    BY <1>2 DEF Renewed
  <2>2. ASSUME NEW p \in DOMAIN mem2 PROVE mem2[p] \in HeadType
    <3>1. p \in P \/ p = hi \/ (p \in DOMAIN mem /\ (p < lo \/ hi < p))
      BY <1>1, <1>3, <2>1
    <3> QED BY <1>2, <1>3, <3>1
  <2> QED BY <2>1, <2>2
<1>5. Changed(mem, mem2, lo, hi)
  BY <1>3 DEF Changed
<1>6. Tiled(mem2, ft)
  <2>1. \A p \in DOMAIN mem2 : lo <= p /\ p < hi => Sound(mem2, ft, p)
    BY <1>3
  <2>2. \A f \in Fenced(mem) : ~(lo <= f - SEGMENT_SIZE /\ f - SEGMENT_SIZE < hi)
    BY <1>1
  <2> QED BY <1>1, <1>4, <1>5, <2>1, <2>2, Retiled
<1>7. \A p \in DOMAIN mem2 : p \in P \/ (p \in DOMAIN mem \ Inner(mem, lo, hi) /\ mem2[p].size = mem[p].size /\ mem2[p].cin = mem[p].cin)
  <2> SUFFICES ASSUME NEW p \in DOMAIN mem2, p \notin P
               PROVE  /\ p \in DOMAIN mem \ Inner(mem, lo, hi) /\ mem2[p].size = mem[p].size
                      /\ mem2[p].cin = mem[p].cin
    OBVIOUS
  <2>1. p \in DOMAIN mem \ Inner(mem, lo, hi)
    BY DEF Renewed
  <2>2. p < lo \/ hi < p \/ p = hi
    BY <1>1, <1>2, <2>1 DEF Inner
  <2> QED BY <1>3, <2>1, <2>2
<1>8. \A p \in DOMAIN mem \ Inner(mem, lo, hi) : p \in DOMAIN mem2 /\ p \notin P
  BY <1>2 DEF Renewed, Inner
<1>9. Fenced(mem2) = Fenced(mem)
  <2>1. ASSUME NEW p \in Fenced(mem2) PROVE p \in Fenced(mem)
    BY <1>7, <2>1 DEF Fenced
  <2>2. ASSUME NEW p \in Fenced(mem) PROVE p \in Fenced(mem2)
    <3>1. p \in DOMAIN mem /\ mem[p].size = 0 /\ ~(lo <= p /\ p <= hi)
      BY <1>1 DEF Fenced
    <3>2. p \notin Inner(mem, lo, hi)
      BY <1>1, <1>2, <3>1 DEF Inner
    <3>3. p \in DOMAIN mem2 /\ mem2[p].size = 0
      BY <1>7, <1>8, <3>1, <3>2
    <3> QED BY <3>3 DEF Fenced
  <2> QED BY <2>1, <2>2
<1>10. Frees(mem2, ft) = (Frees(mem, ft) \ Inner(mem, lo, hi)) \cup {p \in P : ~mem2[p].cin}
  <2>1. ft \notin P
    BY <1>1, <1>2
  <2>2. ASSUME NEW p \in Frees(mem2, ft) PROVE p \in (Frees(mem, ft) \ Inner(mem, lo, hi)) \cup {q \in P : ~mem2[q].cin}
    BY <1>7 DEF Frees
  <2>3. ASSUME NEW p \in Frees(mem, ft) \ Inner(mem, lo, hi) PROVE p \in Frees(mem2, ft)
    <3>1. p \in DOMAIN mem2 /\ p \notin P /\ p # ft /\ ~mem[p].cin
      BY <1>8 DEF Frees
    <3>2. mem2[p].cin = mem[p].cin
      BY <1>7, <3>1
    <3> QED BY <3>1, <3>2 DEF Frees
  <2>4. ASSUME NEW p \in P, ~mem2[p].cin PROVE p \in Frees(mem2, ft)
    BY <1>3, <2>1, <2>4 DEF Frees
  <2> QED BY <2>2, <2>3, <2>4
<1>11. \A p \in P : p \notin Records(mem2) /\ p \notin Fenced(mem2)
  <2> SUFFICES ASSUME NEW p \in P PROVE p + SEGMENT_SIZE \notin Fenced(mem) /\ p \notin Fenced(mem2)
    BY <1>9 DEF Records
  <2>1. (p + SEGMENT_SIZE) - SEGMENT_SIZE = p
    BY <1>2 DEF SEGMENT_SIZE
  <2>2. p + SEGMENT_SIZE \notin Fenced(mem)
    BY <1>1, <1>2, <2>1
  <2> QED BY <2>2 DEF Fenced
<1>12. Used(mem2) = (Used(mem) \ Inner(mem, lo, hi)) \cup {p \in P : mem2[p].cin}
  <2>1. ASSUME NEW p \in Used(mem2) PROVE p \in (Used(mem) \ Inner(mem, lo, hi)) \cup {q \in P : mem2[q].cin}
    BY <1>7, <1>9 DEF Used, Records
  <2>2. ASSUME NEW p \in Used(mem) \ Inner(mem, lo, hi) PROVE p \in Used(mem2)
    <3>1. /\ p \in DOMAIN mem2 /\ p \notin P /\ mem[p].cin /\ p \notin Fenced(mem2)
          /\ p \notin Records(mem2)
      BY <1>8, <1>9 DEF Used, Records
    <3>2. mem2[p].cin = mem[p].cin
      BY <1>7, <3>1
    <3> QED BY <3>1, <3>2 DEF Used
  <2>3. ASSUME NEW p \in P, mem2[p].cin PROVE p \in Used(mem2)
    BY <1>3, <1>11, <2>3 DEF Used
  <2> QED BY <2>1, <2>2, <2>3
<1> QED BY <1>6, <1>9, <1>10, <1>12 DEF Kinds

\* A region that becomes one chunk has sound heads again.
LEMMA OneIs ==
    ASSUME NEW mem, NEW ft \in Nat, Tiled(mem, ft), NEW lo, NEW hi, Region(mem, ft, lo, hi), NEW mem2,
           NEW c,
           AsOne(mem, mem2, ft, lo, hi, c)
    PROVE  /\ Tiled(mem2, ft)
           /\ (c = FALSE => Kinds(mem, mem2, ft, lo, hi, {lo}, {}))
              /\ (c = TRUE => Kinds(mem, mem2, ft, lo, hi, {}, {lo}))
<1>1. /\ lo \in Nat \ {0} /\ hi \in Nat \ {0} /\ lo \in DOMAIN mem /\ hi \in DOMAIN mem /\ lo < hi
      /\ ~(lo <= ft /\ ft < hi) /\ lo # ft /\ (hi # ft => mem[hi].size # 0)
  BY RegionIs
<1>2. /\ c \in BOOLEAN /\ (~c => mem[lo].pin /\ (hi = ft \/ mem[hi].cin)) /\ (hi = ft => ~c)
      /\ hi = ft \/ hi - lo >= MIN_CHUNK_SIZE
      /\ DOMAIN mem2 = (DOMAIN mem \ Inner(mem, lo, hi)) \cup {lo}
      /\ \A a \in DOMAIN mem : a < lo \/ hi < a => mem2[a] = mem[a]
      /\ mem2[lo] \in HeadType /\ mem2[lo].size = hi - lo /\ mem2[lo].cin = c
      /\ mem2[lo].pin = mem[lo].pin
      /\ ~mem[lo].pin => mem2[lo].foot = mem[lo].foot
      /\ hi = ft => mem2[hi] = mem[hi]
      /\ hi # ft => /\ mem2[hi] \in HeadType /\ mem2[hi].size = mem[hi].size /\ mem2[hi].cin = mem[hi].cin
                    /\ mem2[hi].pin = c /\ (~c => mem2[hi].foot = hi - lo)
  BY DEF AsOne, Renewed, Piece
<1>3. /\ \A p \in DOMAIN mem : p \in Nat \ {0} /\ mem[p] \in HeadType /\ mem[p].size \in Nat
         /\ mem[p].foot \in Nat
      /\ Sound(mem, ft, lo) /\ (hi # ft => Sound(mem, ft, hi))
      /\ hi = ft => mem[hi].pin = FALSE
  <2>1. \A p \in DOMAIN mem : p \in Nat \ {0} /\ mem[p].size \in Nat /\ mem[p].foot \in Nat
    BY HeadIs
  <2>2. \A p \in DOMAIN mem : mem[p] \in HeadType
    BY DEF Tiled
  <2>3. Sound(mem, ft, lo) /\ (hi # ft => Sound(mem, ft, hi))
    BY <1>1 DEF Tiled
  <2>4. hi = ft => mem[hi].pin = FALSE
    BY <1>1 DEF Tiled, FootHead, Chunk
  <2> QED BY <2>1, <2>2, <2>3, <2>4
<1>4. mem2[hi] \in HeadType
  BY <1>1, <1>2, <1>3
<1>5. lo \in DOMAIN mem2 /\ hi \in DOMAIN mem2 /\ \A a \in DOMAIN mem2 : a <= lo \/ hi <= a
  BY <1>1, <1>2, <1>3 DEF Inner
<1>6. Sound(mem2, ft, lo)
  <2>1. mem2[lo].cin \/ mem2[lo].pin
    BY <1>2
  <2>2. ASSUME ~mem2[lo].pin
        PROVE  LET q == lo - mem2[lo].foot IN
               /\ mem2[lo].foot # 0 /\ q \in DOMAIN mem2 /\ q # ft /\ ~mem2[q].cin
               /\ mem2[q].size = mem2[lo].foot
    <3> DEFINE q == lo - mem[lo].foot
    <3>1. /\ mem2[lo].foot = mem[lo].foot /\ mem[lo].foot # 0 /\ q \in DOMAIN mem /\ q # ft /\ ~mem[q].cin
          /\ mem[q].size = mem[lo].foot
      BY <1>2, <1>3, <2>2 DEF Sound
    <3>2. q < lo
      BY <1>1, <1>3, <3>1
    <3>3. q \in DOMAIN mem2 /\ mem2[q] = mem[q]
      <4>1. q \in DOMAIN mem \ Inner(mem, lo, hi)
        BY <1>1, <1>3, <3>1, <3>2 DEF Inner
      <4> QED BY <1>2, <3>2, <4>1
    <3> QED BY <3>1, <3>3
  <2>3. mem2[lo].size # 0 /\ lo + mem2[lo].size = hi
    BY <1>1, <1>2
  <2>4. mem2[hi].pin = mem2[lo].cin
        /\ (hi # ft => mem2[lo].size >= MIN_CHUNK_SIZE /\ (~mem2[lo].cin => mem2[hi].foot = mem2[lo].size))
    BY <1>2, <1>3
  <2> QED BY <1>5, <2>1, <2>2, <2>3, <2>4 DEF Sound
<1>7. ASSUME hi # ft PROVE Sound(mem2, ft, hi)
  <2>0. Sound(mem, ft, hi)
    BY <1>3, <1>7
  <2>1. mem2[hi].cin \/ mem2[hi].pin
    BY <1>2, <1>7
  <2>2. ASSUME ~mem2[hi].pin
        PROVE  LET q == hi - mem2[hi].foot IN
               /\ mem2[hi].foot # 0 /\ q \in DOMAIN mem2 /\ q # ft /\ ~mem2[q].cin
               /\ mem2[q].size = mem2[hi].foot
    <3>1. ~c /\ mem2[hi].foot = hi - lo
      BY <1>2, <1>7, <2>2
    <3>2. hi - mem2[hi].foot = lo
      BY <1>1, <3>1
    <3> QED BY <1>1, <1>2, <1>5, <3>1, <3>2
  <2>3. mem2[hi].size # 0
    BY <1>1, <1>2, <1>7
  <2> DEFINE n == hi + mem[hi].size
  <2>4. n \in DOMAIN mem /\ mem[n].pin = mem[hi].cin
        /\ (n # ft => mem[hi].size >= MIN_CHUNK_SIZE /\ (~mem[hi].cin => mem[n].foot = mem[hi].size))
        /\ \A a \in DOMAIN mem : a <= hi \/ n <= a
    BY <1>1, <1>7, <2>0 DEF Sound
  <2>5. n > hi /\ n \in Nat
    BY <1>1, <1>3, <1>7
  <2>6. n \in DOMAIN mem2 /\ mem2[n] = mem[n]
    BY <1>1, <1>2, <2>4, <2>5 DEF Inner
  <2>7. \A a \in DOMAIN mem2 : a <= hi \/ n <= a
    BY <1>1, <1>2, <2>4
  <2> QED BY <1>2, <1>7, <2>1, <2>2, <2>3, <2>4, <2>6, <2>7 DEF Sound
<1>8. Renewed(mem, mem2, ft, lo, hi, {lo})
  BY DEF AsOne
<1>9. /\ Tiled(mem2, ft)
      /\ Kinds(mem, mem2, ft, lo, hi, {p \in {lo} : ~mem2[p].cin}, {p \in {lo} : mem2[p].cin})
  <2>1. {lo} \subseteq lo..hi - 1 /\ lo \in {lo}
    BY <1>1
  <2>2. \A p \in {lo} : mem2[p].size # 0 /\ Sound(mem2, ft, p)
    BY <1>1, <1>2, <1>6
  <2>3. \A p \in {lo} \cup {hi} : mem2[p] \in HeadType
    BY <1>2, <1>4
  <2>4. mem2[hi].size = mem[hi].size /\ mem2[hi].cin = mem[hi].cin
    BY <1>2
  <2>5. mem2[lo].pin = mem[lo].pin /\ (~mem[lo].pin => mem2[lo].foot = mem[lo].foot)
        /\ (hi = ft => mem2[hi] = mem[hi])
    BY <1>2
  <2> DEFINE P == {lo}
  <2>6. Renewed(mem, mem2, ft, lo, hi, P)
    BY <1>8
  <2> HIDE DEF P
  <2>7. /\ Tiled(mem2, ft)
        /\ Kinds(mem, mem2, ft, lo, hi, {p \in P : ~mem2[p].cin}, {p \in P : mem2[p].cin})
    <3>1. P \subseteq lo..hi - 1 /\ lo \in P /\ (\A p \in P : mem2[p].size # 0)
          /\ (\A p \in P : Sound(mem2, ft, p))
      BY <2>1, <2>2 DEF P
    <3>2. \A p \in P \cup {hi} : mem2[p] \in HeadType
      BY <2>3 DEF P
    <3> QED BY <1>7, <2>4, <2>5, <2>6, <3>1, <3>2, RenewedIs
  <2> QED BY <2>7 DEF P
<1>10. /\ {p \in {lo} : ~mem2[p].cin} = IF c THEN {} ELSE {lo}
       /\ {p \in {lo} : mem2[p].cin} = IF c THEN {lo} ELSE {}
  BY <1>2
<1> QED BY <1>9, <1>10

\* A region that becomes two chunks has sound heads again.
LEMMA TwoIs ==
    ASSUME NEW mem, NEW ft \in Nat, Tiled(mem, ft), NEW lo, NEW hi, Region(mem, ft, lo, hi), NEW mem2,
           NEW mid, NEW d,
           AsTwo(mem, mem2, ft, lo, mid, hi, d)
    PROVE  /\ Tiled(mem2, ft)
           /\ (d = FALSE => Kinds(mem, mem2, ft, lo, hi, {mid}, {lo}))
              /\ (d = TRUE => Kinds(mem, mem2, ft, lo, hi, {}, {lo, mid}))
<1>1. /\ lo \in Nat \ {0} /\ hi \in Nat \ {0} /\ lo \in DOMAIN mem /\ hi \in DOMAIN mem /\ lo < hi
      /\ ~(lo <= ft /\ ft < hi) /\ lo # ft /\ (hi # ft => mem[hi].size # 0)
  BY RegionIs
<1>2. /\ d \in BOOLEAN /\ (~d => hi = ft \/ mem[hi].cin) /\ (hi = ft => ~d)
      /\ mid \in Nat /\ lo < mid /\ mid < hi /\ mid - lo >= MIN_CHUNK_SIZE
         /\ (hi = ft \/ hi - mid >= MIN_CHUNK_SIZE) /\ mid # ft
      /\ DOMAIN mem2 = (DOMAIN mem \ Inner(mem, lo, hi)) \cup {lo, mid}
      /\ \A a \in DOMAIN mem : a < lo \/ hi < a => mem2[a] = mem[a]
      /\ mem2[lo] \in HeadType /\ mem2[lo].size = mid - lo /\ mem2[lo].cin = TRUE
      /\ mem2[lo].pin = mem[lo].pin
      /\ ~mem[lo].pin => mem2[lo].foot = mem[lo].foot
      /\ mem2[mid] \in HeadType /\ mem2[mid].size = hi - mid /\ mem2[mid].cin = d
      /\ mem2[mid].pin = TRUE
      /\ hi = ft => mem2[hi] = mem[hi]
      /\ hi # ft => /\ mem2[hi] \in HeadType /\ mem2[hi].size = mem[hi].size /\ mem2[hi].cin = mem[hi].cin
                    /\ mem2[hi].pin = d /\ (~d => mem2[hi].foot = hi - mid)
  <2>1. /\ d \in BOOLEAN /\ (~d => hi = ft \/ mem[hi].cin) /\ (hi = ft => ~d)
        /\ mid \in Nat /\ lo + MIN_CHUNK_SIZE <= mid /\ mid < hi
           /\ (hi = ft \/ mid + MIN_CHUNK_SIZE <= hi)
    BY DEF AsTwo
  <2>2. lo < mid /\ mid - lo >= MIN_CHUNK_SIZE /\ (hi = ft \/ hi - mid >= MIN_CHUNK_SIZE) /\ mid # ft
    BY <1>1, <2>1 DEF MIN_CHUNK_SIZE
  <2> QED BY <2>1, <2>2 DEF AsTwo, Renewed, Piece
<1>3. /\ \A p \in DOMAIN mem : p \in Nat \ {0} /\ mem[p] \in HeadType /\ mem[p].size \in Nat
         /\ mem[p].foot \in Nat
      /\ Sound(mem, ft, lo) /\ (hi # ft => Sound(mem, ft, hi))
      /\ hi = ft => mem[hi].pin = FALSE
  <2>1. \A p \in DOMAIN mem : p \in Nat \ {0} /\ mem[p].size \in Nat /\ mem[p].foot \in Nat
    BY HeadIs
  <2>2. \A p \in DOMAIN mem : mem[p] \in HeadType
    BY DEF Tiled
  <2>3. Sound(mem, ft, lo) /\ (hi # ft => Sound(mem, ft, hi))
    BY <1>1 DEF Tiled
  <2>4. hi = ft => mem[hi].pin = FALSE
    BY <1>1 DEF Tiled, FootHead, Chunk
  <2> QED BY <2>1, <2>2, <2>3, <2>4
<1>4. mem2[hi] \in HeadType
  BY <1>1, <1>2, <1>3
<1>5. lo \in DOMAIN mem2 /\ mid \in DOMAIN mem2 /\ hi \in DOMAIN mem2
      /\ \A a \in DOMAIN mem2 : a <= lo \/ a = mid \/ hi <= a
  <2>1. hi \notin Inner(mem, lo, hi)
    BY <1>1 DEF Inner
  <2>2. \A a \in DOMAIN mem \ Inner(mem, lo, hi) : a <= lo \/ hi <= a
    BY <1>1, <1>3 DEF Inner
  <2> QED BY <1>1, <1>2, <2>1, <2>2
<1>6. Sound(mem2, ft, lo)
  <2>1. mem2[lo].cin \/ mem2[lo].pin
    BY <1>2
  <2>2. ASSUME ~mem2[lo].pin
        PROVE  LET q == lo - mem2[lo].foot IN
               /\ mem2[lo].foot # 0 /\ q \in DOMAIN mem2 /\ q # ft /\ ~mem2[q].cin
               /\ mem2[q].size = mem2[lo].foot
    <3> DEFINE q == lo - mem[lo].foot
    <3>1. /\ mem2[lo].foot = mem[lo].foot /\ mem[lo].foot # 0 /\ q \in DOMAIN mem /\ q # ft /\ ~mem[q].cin
          /\ mem[q].size = mem[lo].foot
      BY <1>2, <1>3, <2>2 DEF Sound
    <3>2. q < lo
      BY <1>1, <1>3, <3>1
    <3>3. q \in DOMAIN mem2 /\ mem2[q] = mem[q]
      <4>1. q \in DOMAIN mem \ Inner(mem, lo, hi)
        BY <1>1, <1>3, <3>1, <3>2 DEF Inner
      <4> QED BY <1>2, <3>2, <4>1
    <3> QED BY <3>1, <3>3
  <2>3. mem2[lo].size # 0 /\ lo + mem2[lo].size = mid
    BY <1>1, <1>2
  <2>4. mem2[mid].pin = mem2[lo].cin /\ mem2[lo].size >= MIN_CHUNK_SIZE /\ mem2[lo].cin
    BY <1>2
  <2>5. \A a \in DOMAIN mem2 : a <= lo \/ mid <= a
    BY <1>1, <1>2, <1>3, <1>5
  <2> QED BY <1>5, <2>1, <2>2, <2>3, <2>4, <2>5 DEF Sound
<1>7. Sound(mem2, ft, mid)
  <2>1. mem2[mid].cin \/ mem2[mid].pin
    BY <1>2
  <2>2. mem2[mid].size # 0 /\ mid + mem2[mid].size = hi
    BY <1>1, <1>2
  <2>3. mem2[hi].pin = mem2[mid].cin
        /\ (hi # ft => mem2[mid].size >= MIN_CHUNK_SIZE /\ (~mem2[mid].cin => mem2[hi].foot = mem2[mid].size))
    BY <1>2, <1>3
  <2>4. \A a \in DOMAIN mem2 : a <= mid \/ hi <= a
    <3> SUFFICES ASSUME NEW a \in DOMAIN mem2, a <= lo PROVE a <= mid
      BY <1>1, <1>2, <1>5
    <3>1. a \in Nat
      BY <1>1, <1>2, <1>3
    <3> QED BY <1>1, <1>2, <3>1
  <2> QED BY <1>2, <1>5, <2>1, <2>2, <2>3, <2>4 DEF Sound
<1>8. ASSUME hi # ft PROVE Sound(mem2, ft, hi)
  <2>0. Sound(mem, ft, hi)
    BY <1>3, <1>8
  <2>1. mem2[hi].cin \/ mem2[hi].pin
    BY <1>2, <1>8
  <2>2. ASSUME ~mem2[hi].pin
        PROVE  LET q == hi - mem2[hi].foot IN
               /\ mem2[hi].foot # 0 /\ q \in DOMAIN mem2 /\ q # ft /\ ~mem2[q].cin
               /\ mem2[q].size = mem2[hi].foot
    <3>1. ~d /\ mem2[hi].foot = hi - mid
      BY <1>2, <1>8, <2>2
    <3>2. hi - mem2[hi].foot = mid /\ hi - mid # 0
      BY <1>1, <1>2, <3>1
    <3> QED BY <1>2, <1>5, <3>1, <3>2
  <2>3. mem2[hi].size # 0
    BY <1>1, <1>2, <1>8
  <2> DEFINE n == hi + mem[hi].size
  <2>4. n \in DOMAIN mem /\ mem[n].pin = mem[hi].cin
        /\ (n # ft => mem[hi].size >= MIN_CHUNK_SIZE /\ (~mem[hi].cin => mem[n].foot = mem[hi].size))
        /\ \A a \in DOMAIN mem : a <= hi \/ n <= a
    BY <1>1, <1>8, <2>0 DEF Sound
  <2>5. n > hi /\ n \in Nat
    BY <1>1, <1>3, <1>8
  <2>6. n \in DOMAIN mem2 /\ mem2[n] = mem[n]
    BY <1>1, <1>2, <2>4, <2>5 DEF Inner
  <2>7. \A a \in DOMAIN mem2 : a <= hi \/ n <= a
    BY <1>1, <1>2, <2>4
  <2> QED BY <1>2, <1>8, <2>1, <2>2, <2>3, <2>4, <2>6, <2>7 DEF Sound
<1>9. Renewed(mem, mem2, ft, lo, hi, {lo, mid})
  BY DEF AsTwo
<1>10. /\ Tiled(mem2, ft)
       /\ Kinds(mem, mem2, ft, lo, hi, {p \in {lo, mid} : ~mem2[p].cin}, {p \in {lo, mid} : mem2[p].cin})
  <2> DEFINE P == {lo, mid}
  <2>1. P \subseteq lo..hi - 1 /\ lo \in P
    BY <1>1, <1>2
  <2>2. \A p \in P : mem2[p].size # 0
    BY <1>1, <1>2
  <2>3. \A p \in P : Sound(mem2, ft, p)
    BY <1>6, <1>7
  <2>4. \A p \in P \cup {hi} : mem2[p] \in HeadType
    BY <1>2, <1>4
  <2>5. mem2[hi].size = mem[hi].size /\ mem2[hi].cin = mem[hi].cin
    BY <1>2
  <2>6. mem2[lo].pin = mem[lo].pin /\ (~mem[lo].pin => mem2[lo].foot = mem[lo].foot)
        /\ (hi = ft => mem2[hi] = mem[hi])
    BY <1>2
  <2>7. Renewed(mem, mem2, ft, lo, hi, P)
    BY <1>9
  <2> HIDE DEF P
  <2>8. /\ Tiled(mem2, ft)
        /\ Kinds(mem, mem2, ft, lo, hi, {p \in P : ~mem2[p].cin}, {p \in P : mem2[p].cin})
    BY <1>8, <2>1, <2>2, <2>3, <2>4, <2>5, <2>6, <2>7, RenewedIs
  <2> QED BY <2>8 DEF P
<1>11. /\ {p \in {lo, mid} : ~mem2[p].cin} = IF d THEN {} ELSE {mid}
       /\ {p \in {lo, mid} : mem2[p].cin} = IF d THEN {lo, mid} ELSE {lo}
  BY <1>2
<1> QED BY <1>10, <1>11

\* A segment is typed.
LEMMA SegmentIs ==
    ASSUME NEW m, Segments(m), NEW i \in DOMAIN m.seg
    PROVE  /\ m.seg[i].base \in Nat \ {0} /\ m.seg[i].size \in Nat \ {0}
           /\ m.seg[i].base + m.seg[i].size \in Nat
           /\ m.seg[i] \in SegmentType /\ i \in 1..Len(m.seg) /\ Len(m.seg) \in Nat
<1>1. m.seg \in Seq(SegmentType)
  BY DEF Segments
<1>2. m.seg[i] \in SegmentType /\ i \in 1..Len(m.seg) /\ Len(m.seg) \in Nat
  BY <1>1
<1> QED BY <1>2 DEF SegmentType

\* No two segments hold the same address.
LEMMA OneSegment ==
    ASSUME NEW m, Segments(m), NEW i \in DOMAIN m.seg, NEW j \in DOMAIN m.seg, NEW a \in Nat,
           m.seg[i].base <= a, a < m.seg[i].base + m.seg[i].size,
           m.seg[j].base <= a, a < m.seg[j].base + m.seg[j].size
    PROVE  i = j
<1>1. /\ m.seg[i].base \in Nat /\ m.seg[i].base + m.seg[i].size \in Nat
      /\ m.seg[j].base \in Nat /\ m.seg[j].base + m.seg[j].size \in Nat
  BY SegmentIs
<1> DEFINE a1 == m.seg[i].base
           b1 == m.seg[i].base + m.seg[i].size
           a2 == m.seg[j].base
           b2 == m.seg[j].base + m.seg[j].size
<1>2. i # j => b1 <= a2 \/ b2 <= a1
  BY DEF Segments, SegmentsApart
<1>3. a1 \in Nat /\ b1 \in Nat /\ a2 \in Nat /\ b2 \in Nat /\ a1 <= a /\ a < b1 /\ a2 <= a /\ a < b2
  BY <1>1
<1> HIDE DEF a1, b1, a2, b2
<1> QED BY <1>2, <1>3

\* The next chunk is in the same segment.
LEMMA InOneJoins ==
    ASSUME NEW m, Segments(m), NEW a \in Nat, NEW b \in Nat, NEW c \in Nat, a <= b, b <= c,
           InOne(m.seg, a, b), InOne(m.seg, b, c)
    PROVE  InOne(m.seg, a, c)
<1>1. PICK i \in DOMAIN m.seg : m.seg[i].base <= a /\ b < m.seg[i].base + m.seg[i].size
  BY DEF InOne
<1>2. PICK j \in DOMAIN m.seg : m.seg[j].base <= b /\ c < m.seg[j].base + m.seg[j].size
  BY DEF InOne
<1>3. m.seg[i].base \in Nat /\ m.seg[j].base + m.seg[j].size \in Nat
  BY SegmentIs
<1>4. m.seg[i].base <= b /\ b < m.seg[j].base + m.seg[j].size
  BY <1>1, <1>2, <1>3
<1>5. i = j
  BY <1>1, <1>2, <1>4, OneSegment
<1> QED BY <1>1, <1>2, <1>5 DEF InOne

\* A part of what is in a segment is in it.
LEMMA InOnePart ==
    ASSUME NEW m, Segments(m), NEW a \in Nat, NEW b \in Nat, NEW c \in Nat, NEW d \in Nat, a <= b,
           c <= d,
           InOne(m.seg, a, d)
    PROVE  InOne(m.seg, b, c)
<1>1. PICK i \in DOMAIN m.seg : m.seg[i].base <= a /\ d < m.seg[i].base + m.seg[i].size
  BY DEF InOne
<1>2. m.seg[i].base \in Nat /\ m.seg[i].base + m.seg[i].size \in Nat
  BY SegmentIs
<1>3. m.seg[i].base <= b /\ c < m.seg[i].base + m.seg[i].size
  BY <1>1, <1>2
<1> QED BY <1>3 DEF InOne

\* No segment begins between two addresses of a segment.
LEMMA NoBaseWithin ==
    ASSUME NEW m, Segments(m), NEW a \in Nat, NEW b \in Nat, a < b, InOne(m.seg, a, b),
           NEW j \in DOMAIN m.seg
    PROVE  m.seg[j].base <= a \/ b < m.seg[j].base
<1>1. PICK i \in DOMAIN m.seg : m.seg[i].base <= a /\ b < m.seg[i].base + m.seg[i].size
  BY DEF InOne
<1> DEFINE a1 == m.seg[i].base
           b1 == m.seg[i].base + m.seg[i].size
           a2 == m.seg[j].base
           s2 == m.seg[j].size
<1>2. a1 \in Nat /\ b1 \in Nat /\ a2 \in Nat /\ s2 \in Nat \ {0} /\ a1 <= a /\ b < b1
  BY <1>1, SegmentIs
<1>3. i = j => a1 = a2
  OBVIOUS
<1>4. i # j => b1 <= a2 \/ a2 + s2 <= a1
  BY DEF Segments, SegmentsApart
<1> HIDE DEF a1, b1, a2, s2
<1>5. a2 <= a \/ b < a2
  BY <1>2, <1>3, <1>4
<1> QED BY <1>5 DEF a2

\* Only the chunks from lo to hi change.
Between(m, n, lo, hi) ==
    /\ n.seg = m.seg /\ n.least_addr = m.least_addr /\ Foot(n) = Foot(m) /\ n.top \in Nat
    /\ n.topsize \in Nat
    /\ Region(m.mem, Foot(m), lo, hi) /\ InOne(m.seg, lo, hi)
    /\ n.top = m.top \/ hi = Foot(m)

\* The segments hold the same memory.
LEMMA SegmentsStay ==
    ASSUME NEW m, Laid(m), NEW n, NEW lo, NEW hi, Between(m, n, lo, hi), NEW P,
           Renewed(m.mem, n.mem, Foot(m), lo, hi, P), P \subseteq lo..hi - 1, lo \in P,
           \A p \in P : n.mem[p].size \in Nat /\ p + n.mem[p].size <= hi,
           n.mem[lo].pin = m.mem[lo].pin, n.mem[hi].size = m.mem[hi].size
    PROVE  Segments(n)
<1> DEFINE mem == m.mem
           mem2 == n.mem
           ft == Foot(m)
<1>1. /\ lo \in Nat \ {0} /\ hi \in Nat \ {0} /\ lo \in DOMAIN mem /\ hi \in DOMAIN mem /\ lo < hi
      /\ ~(lo <= ft /\ ft < hi) /\ lo # ft
  <2>1. Tiled(mem, ft) /\ ft \in Nat
    BY DEF Laid, TopIs, Foot
  <2>2. Region(mem, ft, lo, hi)
    BY DEF Between
  <2> HIDE DEF mem, ft
  <2> QED BY <2>1, <2>2, RegionIs
<1>2. \A p \in DOMAIN mem : p \in Nat
  BY DEF Laid, Tiled
<1>3. /\ DOMAIN mem2 = (DOMAIN mem \ Inner(mem, lo, hi)) \cup P
      /\ \A a \in DOMAIN mem : a < lo \/ hi < a => mem2[a] = mem[a]
  BY DEF Renewed
<1>4. /\ Segments(m) /\ InOne(m.seg, lo, hi) /\ n.seg = m.seg /\ n.least_addr = m.least_addr
      /\ Foot(n) = ft
  BY DEF Laid, Between
<1>5. ASSUME NEW i \in DOMAIN m.seg PROVE m.seg[i].base \in DOMAIN mem2 \ {ft} /\ mem2[m.seg[i].base].pin
  <2> DEFINE b == m.seg[i].base
  <2>1. b \in DOMAIN mem \ {ft} /\ mem[b].pin /\ b \in Nat
    BY <1>2, <1>4 DEF Segments
  <2>2. b <= lo \/ hi < b
    BY <1>1, <1>4, NoBaseWithin
  <2> HIDE DEF b, mem, mem2, ft
  <2>3. ASSUME b = lo PROVE b \in DOMAIN mem2 \ {ft} /\ mem2[b].pin
    <3>1. lo \in DOMAIN mem2
      BY <1>3
    <3>2. mem2[lo].pin = mem[lo].pin
      BY DEF mem, mem2
    <3> QED BY <2>1, <2>3, <3>1, <3>2
  <2>4. ASSUME b # lo PROVE b \in DOMAIN mem2 \ {ft} /\ mem2[b].pin
    <3>1. b < lo \/ hi < b
      BY <1>1, <2>1, <2>2, <2>4
    <3>2. b \in DOMAIN mem2
      BY <1>1, <1>3, <2>1, <3>1 DEF Inner
    <3> QED BY <1>3, <2>1, <3>1, <3>2
  <2>5. b \in DOMAIN mem2 \ {ft} /\ mem2[b].pin
    <3>1. b = lo \/ b # lo
      OBVIOUS
    <3> QED BY <2>3, <2>4, <3>1
  <2> QED BY <2>5 DEF b, mem2, ft
<1>6. ASSUME NEW p \in DOMAIN mem2 \ {ft} PROVE InOne(m.seg, p, p + mem2[p].size)
  <2>1. CASE p \in P
    <3>1. p \in Nat /\ lo <= p /\ mem2[p].size \in Nat /\ p + mem2[p].size <= hi
      <4>1. p \in lo..hi - 1 /\ mem2[p].size \in Nat /\ p + mem2[p].size <= hi
        BY <2>1
      <4> QED BY <1>1, <4>1
    <3>2. p + mem2[p].size \in Nat
      BY <3>1
    <3> HIDE DEF mem, mem2, ft
    <3> QED BY <1>1, <1>4, <3>1, <3>2, InOnePart
  <2>2. CASE p \notin P
    <3>1. p \in DOMAIN mem \ {ft} /\ (p < lo \/ hi < p \/ p = hi)
      <4>1. p \in DOMAIN mem /\ p \notin Inner(mem, lo, hi)
        BY <1>3, <2>2
      <4> QED BY <1>1, <1>2, <4>1 DEF Inner
    <3>2. mem2[p].size = mem[p].size
      BY <1>3, <3>1
    <3> QED BY <1>4, <3>1, <3>2 DEF Segments
  <2> QED BY <2>1, <2>2
<1>7. \A i \in DOMAIN n.seg : /\ n.seg[i].base + n.seg[i].size <= MemoryEnd /\ n.least_addr <= n.seg[i].base
                              /\ n.seg[i].base \in DOMAIN n.mem \ {Foot(n)} /\ n.mem[n.seg[i].base].pin
  BY <1>4, <1>5 DEF Segments
<1> QED BY <1>4, <1>6, <1>7 DEF Segments

\* The segment of top ends behind its foot.
LEMMA TopSegment ==
    ASSUME NEW m, Laid(m), m.top # NULL, NEW a \in Nat, a <= Foot(m), InOne(m.seg, a, Foot(m))
    PROVE  \E i \in DOMAIN m.seg : m.seg[i].base <= a
           /\ m.seg[i].base + m.seg[i].size = Foot(m) + TOP_FOOT_SIZE
<1>1. PICK i \in DOMAIN m.seg : m.seg[i].base <= m.top
      /\ m.seg[i].base + m.seg[i].size = Foot(m) + TOP_FOOT_SIZE
  BY DEF Laid, TopIs
<1>2. PICK j \in DOMAIN m.seg : m.seg[j].base <= a /\ Foot(m) < m.seg[j].base + m.seg[j].size
  BY DEF InOne
<1>3. Segments(m) /\ m.top \in Nat /\ m.topsize \in Nat /\ Foot(m) \in Nat /\ m.top <= Foot(m)
  BY DEF Laid, TopIs, Foot
<1>4. m.seg[i].base \in Nat /\ m.seg[j].base \in Nat
  BY <1>3, SegmentIs
<1>5. m.seg[i].base <= Foot(m) /\ Foot(m) < m.seg[i].base + m.seg[i].size /\ m.seg[j].base <= Foot(m)
  BY <1>1, <1>2, <1>3, <1>4 DEF TOP_FOOT_SIZE
<1>6. i = j
  BY <1>2, <1>3, <1>5, OneSegment
<1> QED BY <1>1, <1>2, <1>6

\* The memory is sound again when a region has become one chunk.
LEMMA OneLaid ==
    ASSUME NEW m, Laid(m), NEW n, NEW lo, NEW hi, Between(m, n, lo, hi), NEW c,
           AsOne(m.mem, n.mem, Foot(m), lo, hi, c), hi = Foot(m) => n.top = lo
    PROVE  /\ Laid(n)
           /\ (c = FALSE => Kinds(m.mem, n.mem, Foot(m), lo, hi, {lo}, {}))
              /\ (c = TRUE => Kinds(m.mem, n.mem, Foot(m), lo, hi, {}, {lo}))
<1> DEFINE mem == m.mem
           mem2 == n.mem
           ft == Foot(m)
<1>1. /\ Tiled(mem, ft) /\ ft \in Nat /\ TopIs(m) /\ Segments(m) /\ FencesAreCounted(m) /\ m.top \in Nat
      /\ m.topsize \in Nat
  BY DEF Laid, TopIs, Foot
<1>2. Region(mem, ft, lo, hi) /\ AsOne(mem, mem2, ft, lo, hi, c) /\ Foot(n) = ft
  BY DEF Between
<1>3. /\ lo \in Nat \ {0} /\ hi \in Nat \ {0} /\ lo \in DOMAIN mem /\ hi \in DOMAIN mem /\ lo < hi
      /\ ~(lo <= ft /\ ft < hi) /\ lo # ft
  <2> HIDE DEF mem, ft
  <2> QED BY <1>1, <1>2, RegionIs
<1>4. Tiled(mem2, ft) /\ (c = FALSE => Kinds(mem, mem2, ft, lo, hi, {lo}, {}))
      /\ (c = TRUE => Kinds(mem, mem2, ft, lo, hi, {}, {lo}))
  <2> HIDE DEF mem, ft, mem2
  <2> QED BY <1>1, <1>2, OneIs
<1>5. /\ c \in BOOLEAN /\ (~c => mem[lo].pin /\ (hi = ft \/ mem[hi].cin)) /\ (hi = ft => ~c)
      /\ DOMAIN mem2 = (DOMAIN mem \ Inner(mem, lo, hi)) \cup {lo}
      /\ \A a \in DOMAIN mem : a < lo \/ hi < a => mem2[a] = mem[a]
      /\ mem2[lo].size = hi - lo /\ mem2[lo].cin = c /\ mem2[lo].pin = mem[lo].pin
      /\ hi = ft => mem2[hi] = mem[hi]
      /\ hi # ft => /\ mem2[hi].size = mem[hi].size /\ mem2[hi].cin = mem[hi].cin
                    /\ mem2[hi].pin = c
      /\ Renewed(mem, mem2, ft, lo, hi, {lo})
  BY <1>2 DEF AsOne, Renewed, Piece
<1>6. Segments(n)
  <2> DEFINE P == {lo}
  <2>1. Renewed(m.mem, n.mem, Foot(m), lo, hi, P)
    BY <1>5
  <2>2. P \subseteq lo..hi - 1 /\ lo \in P
    BY <1>3
  <2>3. \A p \in P : n.mem[p].size \in Nat /\ p + n.mem[p].size <= hi
    BY <1>3, <1>5
  <2>4. n.mem[lo].pin = m.mem[lo].pin /\ n.mem[hi].size = m.mem[hi].size
    BY <1>5
  <2> HIDE DEF P, mem, mem2, ft
  <2> QED BY <2>1, <2>2, <2>3, <2>4, SegmentsStay
<1>7. Fenced(mem2) = Fenced(mem) /\ n.seg = m.seg
  BY <1>4 DEF Kinds, Between
<1>8. FencesAreCounted(n)
  BY <1>1, <1>7 DEF FencesAreCounted
<1>9. m.top # NULL /\ n.top # NULL /\ m.top \in DOMAIN mem /\ ft \in DOMAIN mem
  <2>1. m.top # NULL
    BY <1>1, <1>3 DEF TopIs
  <2> QED BY <1>1, <1>3, <2>1 DEF TopIs, Between, NULL
<1>10. CASE hi = ft
  <2>1. n.top = lo /\ n.top \in Nat /\ n.topsize \in Nat /\ lo + n.topsize = hi
    BY <1>2, <1>10 DEF Between, Foot
  <2>2. n.topsize > 0 /\ n.topsize = hi - lo
    BY <1>3, <2>1
  <2>3. ft \in DOMAIN mem2
    BY <1>3, <1>5, <1>10 DEF Inner
  <2>4. \E i \in DOMAIN n.seg : n.seg[i].base <= n.top
        /\ n.seg[i].base + n.seg[i].size = ft + TOP_FOOT_SIZE
    <3>1. InOne(m.seg, lo, ft) /\ lo <= ft
      BY <1>3, <1>10 DEF Between
    <3> QED BY <1>3, <1>7, <1>9, <2>1, <3>1, TopSegment
  <2>5. TopIs(n)
    BY <1>2, <1>5, <1>9, <1>10, <2>1, <2>2, <2>3, <2>4 DEF TopIs
  <2> QED BY <1>2, <1>4, <1>6, <1>8, <2>5 DEF Laid
<1>11. CASE hi # ft
  <2>1. n.top = m.top /\ n.topsize = m.topsize
    <3>1. n.top = m.top
      BY <1>11 DEF Between
    <3>2. n.top + n.topsize = m.top + m.topsize /\ n.topsize \in Nat
      BY <1>2 DEF Foot, Between
    <3> QED BY <1>1, <3>1, <3>2
  <2>2. /\ mem[m.top].size = m.topsize /\ ~mem[m.top].cin /\ mem[m.top].pin /\ m.topsize > 0
    BY <1>1, <1>9 DEF TopIs
  <2>3. m.top < lo \/ hi <= m.top
    <3> SUFFICES ASSUME lo <= m.top, m.top < hi PROVE FALSE
      BY <1>1, <1>3
    <3>1. m.top + mem[m.top].size <= hi
      BY <1>1, <1>3, <1>9, Apart
    <3>2. m.top + m.topsize = ft
      BY DEF Foot
    <3> QED BY <1>1, <1>3, <1>11, <2>2, <3>1, <3>2
  <2>4. m.top \in DOMAIN mem2 /\ ft \in DOMAIN mem2
    <3>1. ~(lo <= ft /\ ft < hi) /\ ~(lo <= m.top /\ m.top < hi)
      BY <1>1, <1>3, <2>3
    <3> QED BY <1>5, <1>9, <3>1 DEF Inner
  <2>5. mem2[m.top].size = m.topsize /\ ~mem2[m.top].cin /\ mem2[m.top].pin
    <3>1. CASE m.top < lo \/ hi < m.top
      BY <1>5, <1>9, <2>2, <3>1
    <3>2. CASE m.top = hi
      <4>1. c
        BY <1>5, <1>11, <2>2, <3>2
      <4> QED BY <1>5, <1>11, <2>2, <3>2, <4>1
    <3> QED BY <1>1, <1>3, <2>3, <3>1, <3>2
  <2>6. TopIs(n)
    BY <1>1, <1>2, <1>7, <1>9, <2>1, <2>2, <2>4, <2>5 DEF TopIs
  <2> QED BY <1>2, <1>4, <1>6, <1>8, <2>6 DEF Laid
<1> QED BY <1>4, <1>10, <1>11

\* The memory is sound again when a region has become two chunks.
LEMMA TwoLaid ==
    ASSUME NEW m, Laid(m), NEW n, NEW lo, NEW hi, Between(m, n, lo, hi), NEW mid, NEW d,
           AsTwo(m.mem, n.mem, Foot(m), lo, mid, hi, d), hi = Foot(m) => n.top = mid
    PROVE  /\ Laid(n)
           /\ (d = FALSE => Kinds(m.mem, n.mem, Foot(m), lo, hi, {mid}, {lo}))
              /\ (d = TRUE => Kinds(m.mem, n.mem, Foot(m), lo, hi, {}, {lo, mid}))
<1> DEFINE mem == m.mem
           mem2 == n.mem
           ft == Foot(m)
<1>1. /\ Tiled(mem, ft) /\ ft \in Nat /\ TopIs(m) /\ Segments(m) /\ FencesAreCounted(m) /\ m.top \in Nat
      /\ m.topsize \in Nat
  BY DEF Laid, TopIs, Foot
<1>2. Region(mem, ft, lo, hi) /\ AsTwo(mem, mem2, ft, lo, mid, hi, d) /\ Foot(n) = ft
  BY DEF Between
<1>3. /\ lo \in Nat \ {0} /\ hi \in Nat \ {0} /\ lo \in DOMAIN mem /\ hi \in DOMAIN mem /\ lo < hi
      /\ ~(lo <= ft /\ ft < hi) /\ lo # ft
  <2> HIDE DEF mem, ft
  <2> QED BY <1>1, <1>2, RegionIs
<1>4. Tiled(mem2, ft) /\ (d = FALSE => Kinds(mem, mem2, ft, lo, hi, {mid}, {lo}))
      /\ (d = TRUE => Kinds(mem, mem2, ft, lo, hi, {}, {lo, mid}))
  <2> HIDE DEF mem, ft, mem2
  <2> QED BY <1>1, <1>2, TwoIs
<1>5. /\ d \in BOOLEAN /\ (~d => hi = ft \/ mem[hi].cin) /\ (hi = ft => ~d)
      /\ mid \in Nat /\ lo < mid /\ mid < hi
      /\ DOMAIN mem2 = (DOMAIN mem \ Inner(mem, lo, hi)) \cup {lo, mid}
      /\ \A a \in DOMAIN mem : a < lo \/ hi < a => mem2[a] = mem[a]
      /\ mem2[lo].size = mid - lo /\ mem2[lo].cin /\ mem2[lo].pin = mem[lo].pin
      /\ mem2[mid].size = hi - mid /\ mem2[mid].cin = d /\ mem2[mid].pin = TRUE
      /\ hi = ft => mem2[hi] = mem[hi]
      /\ hi # ft => /\ mem2[hi].size = mem[hi].size /\ mem2[hi].cin = mem[hi].cin
                    /\ mem2[hi].pin = d
      /\ Renewed(mem, mem2, ft, lo, hi, {lo, mid})
  <2>1. lo + MIN_CHUNK_SIZE <= mid /\ mid \in Nat
    BY <1>2 DEF AsTwo
  <2>2. lo < mid
    BY <1>3, <2>1 DEF MIN_CHUNK_SIZE
  <2> QED BY <1>2, <2>2 DEF AsTwo, Renewed, Piece
<1>6. Segments(n)
  <2> DEFINE P == {lo, mid}
  <2>1. Renewed(m.mem, n.mem, Foot(m), lo, hi, P)
    BY <1>5
  <2>2. P \subseteq lo..hi - 1 /\ lo \in P
    BY <1>3, <1>5
  <2>3. \A p \in P : n.mem[p].size \in Nat /\ p + n.mem[p].size <= hi
    BY <1>3, <1>5
  <2>4. n.mem[lo].pin = m.mem[lo].pin /\ n.mem[hi].size = m.mem[hi].size
    BY <1>5
  <2> HIDE DEF P, mem, mem2, ft
  <2> QED BY <2>1, <2>2, <2>3, <2>4, SegmentsStay
<1>7. Fenced(mem2) = Fenced(mem) /\ n.seg = m.seg
  BY <1>4 DEF Kinds, Between
<1>8. FencesAreCounted(n)
  BY <1>1, <1>7 DEF FencesAreCounted
<1>9. m.top # NULL /\ n.top # NULL /\ m.top \in DOMAIN mem /\ ft \in DOMAIN mem
  <2>1. m.top # NULL
    BY <1>1, <1>3 DEF TopIs
  <2>2. mid # 0
    BY <1>3, <1>5
  <2> QED BY <1>1, <2>1, <2>2 DEF TopIs, Between, NULL
<1>10. CASE hi = ft
  <2>1. n.top = mid /\ n.top \in Nat /\ n.topsize \in Nat /\ mid + n.topsize = hi
    BY <1>2, <1>10 DEF Between, Foot
  <2>2. n.topsize > 0 /\ n.topsize = hi - mid
    BY <1>3, <1>5, <2>1
  <2>3. ft \in DOMAIN mem2 /\ mid \in DOMAIN mem2
    BY <1>3, <1>5, <1>10 DEF Inner
  <2>4. \E i \in DOMAIN n.seg : n.seg[i].base <= n.top
        /\ n.seg[i].base + n.seg[i].size = ft + TOP_FOOT_SIZE
    <3>1. InOne(m.seg, mid, ft) /\ mid <= ft
      <4>1. InOne(m.seg, lo, ft) /\ lo <= mid /\ ft <= ft /\ mid <= ft
        BY <1>1, <1>3, <1>5, <1>10 DEF Between
      <4> HIDE DEF ft
      <4> QED BY <1>1, <1>3, <1>5, <4>1, InOnePart
    <3> QED BY <1>5, <1>7, <1>9, <2>1, <3>1, TopSegment
  <2>5. TopIs(n)
    BY <1>2, <1>5, <1>9, <1>10, <2>1, <2>2, <2>3, <2>4 DEF TopIs
  <2> QED BY <1>2, <1>4, <1>6, <1>8, <2>5 DEF Laid
<1>11. CASE hi # ft
  <2>1. n.top = m.top /\ n.topsize = m.topsize
    <3>1. n.top = m.top
      BY <1>11 DEF Between
    <3>2. n.top + n.topsize = m.top + m.topsize /\ n.topsize \in Nat
      BY <1>2 DEF Foot, Between
    <3> QED BY <1>1, <3>1, <3>2
  <2>2. /\ mem[m.top].size = m.topsize /\ ~mem[m.top].cin /\ mem[m.top].pin /\ m.topsize > 0
    BY <1>1, <1>9 DEF TopIs
  <2>3. m.top < lo \/ hi <= m.top
    <3> SUFFICES ASSUME lo <= m.top, m.top < hi PROVE FALSE
      BY <1>1, <1>3
    <3>1. m.top + mem[m.top].size <= hi
      BY <1>1, <1>3, <1>9, Apart
    <3>2. m.top + m.topsize = ft
      BY DEF Foot
    <3> QED BY <1>1, <1>3, <1>11, <2>2, <3>1, <3>2
  <2>4. m.top \in DOMAIN mem2 /\ ft \in DOMAIN mem2
    <3>1. ~(lo <= ft /\ ft < hi) /\ ~(lo <= m.top /\ m.top < hi)
      BY <1>1, <1>3, <2>3
    <3> QED BY <1>5, <1>9, <3>1 DEF Inner
  <2>5. mem2[m.top].size = m.topsize /\ ~mem2[m.top].cin /\ mem2[m.top].pin
    <3>1. CASE m.top < lo \/ hi < m.top
      BY <1>5, <1>9, <2>2, <3>1
    <3>2. CASE m.top = hi
      <4>1. d
        BY <1>5, <1>11, <2>2, <3>2
      <4> QED BY <1>5, <1>11, <2>2, <3>2, <4>1
    <3> QED BY <1>1, <1>3, <2>3, <3>1, <3>2
  <2>6. TopIs(n)
    BY <1>1, <1>2, <1>7, <1>9, <2>1, <2>2, <2>4, <2>5 DEF TopIs
  <2> QED BY <1>2, <1>4, <1>6, <1>8, <2>6 DEF Laid
<1> QED BY <1>4, <1>10, <1>11

------------------------------------------------------------------------------
(* What the operators on heads write.                                         *)

\* What set_head, set_pinuse, clear_pinuse and set_foot do to the heads.
HeadIsSet(mem, n, p, s, cin, pin) ==
    /\ DOMAIN n = {q \in DOMAIN mem : q < p \/ q >= p + s} \cup {p}
    /\ \A a \in DOMAIN n : a # p => n[a] = mem[a]
    /\ n[p] = Chunk(s, cin, pin, IF p \in DOMAIN mem THEN mem[p].foot ELSE 0)

PinIsSet(mem, n, p) ==
    /\ DOMAIN n = DOMAIN mem \cup {p}
    /\ \A a \in DOMAIN mem : a # p => n[a] = mem[a]
    /\ n[p] = IF p \in DOMAIN mem THEN Chunk(mem[p].size, mem[p].cin, TRUE, 0) ELSE Chunk(0, FALSE, TRUE, 0)

PinIsCleared(mem, n, p) ==
    /\ DOMAIN n = DOMAIN mem
    /\ \A a \in DOMAIN mem : a # p => n[a] = mem[a]
    /\ p \in DOMAIN mem => n[p] = [mem[p] EXCEPT !.pin = FALSE]

FootIsSet(mem, n, p, s) ==
    /\ DOMAIN n = DOMAIN mem
    /\ \A a \in DOMAIN mem : a # p => n[a] = mem[a]
    /\ p \in DOMAIN mem => n[p] = [mem[p] EXCEPT !.foot = s]

SameButMem(m, n) ==
    /\ DOMAIN n = DOMAIN m /\ n.smallmap = m.smallmap /\ n.treemap = m.treemap
    /\ n.smallbins = m.smallbins
    /\ n.treebins = m.treebins /\ n.dv = m.dv /\ n.dvsize = m.dvsize /\ n.top = m.top
    /\ n.topsize = m.topsize /\ n.least_addr = m.least_addr /\ n.seg = m.seg

\* set_head writes the size and both bits of one head.
LEMMA HeadSet ==
    ASSUME NEW m, DOMAIN m = Fields, NEW p, NEW s, NEW c, NEW d
    PROVE  /\ SameButMem(m, set_head(m, p, s, c, d))
           /\ HeadIsSet(m.mem, set_head(m, p, s, c, d).mem, p, s, c, d)
BY DEF Fields, SameButMem, set_head, HeadIsSet

\* set_pinuse writes one bit of one head.
LEMMA PinSet ==
    ASSUME NEW m, DOMAIN m = Fields, NEW p
    PROVE  SameButMem(m, set_pinuse(m, p)) /\ PinIsSet(m.mem, set_pinuse(m, p).mem, p)
BY DEF Fields, SameButMem, set_pinuse, PinIsSet, With

\* clear_pinuse writes one bit of one head.
LEMMA PinCleared ==
    ASSUME NEW m, DOMAIN m = Fields, NEW p
    PROVE  SameButMem(m, clear_pinuse(m, p)) /\ PinIsCleared(m.mem, clear_pinuse(m, p).mem, p)
BY DEF Fields, SameButMem, clear_pinuse, PinIsCleared

\* set_foot writes prev_foot of the head behind.
LEMMA FootSet ==
    ASSUME NEW m, DOMAIN m = Fields, NEW p, NEW s
    PROVE  SameButMem(m, set_foot(m, p, s)) /\ FootIsSet(m.mem, set_foot(m, p, s).mem, p + s, s)
BY DEF Fields, SameButMem, set_foot, FootIsSet

\* A region as the proofs about memory need it.
Spot(mem, ft, lo, hi) ==
    /\ ft \in Nat /\ lo \in Nat /\ hi \in Nat /\ lo < hi /\ lo \in DOMAIN mem /\ hi \in DOMAIN mem
    /\ DOMAIN mem \subseteq Nat /\ \A p \in DOMAIN mem : mem[p] \in HeadType

\* What a region is.
LEMMA SpotIs ==
    ASSUME NEW mem, NEW ft \in Nat, Tiled(mem, ft), NEW lo, NEW hi, Region(mem, ft, lo, hi)
    PROVE  Spot(mem, ft, lo, hi)
BY RegionIs DEF Spot, Tiled

\* No chunk but top is smaller.
Wide(lo, hi) == hi - lo >= MIN_CHUNK_SIZE
Differ(x, y) == x # y

\* The point where a region is divided.
Parted(lo, mid, hi) == mid \in Nat /\ lo < mid /\ mid < hi /\ Wide(lo, mid)

\* set_free_with_pinuse of a region before a chunk in use.
LEMMA FreedIs ==
    ASSUME NEW mem, NEW ft, NEW lo, NEW hi, Spot(mem, ft, lo, hi), Differ(hi, ft), mem[lo].pin,
           mem[hi].cin,
           Wide(lo, hi),
           NEW a, NEW b, NEW c,
           PinIsCleared(mem, a, hi),
           HeadIsSet(a, b, lo, hi - lo, FALSE, TRUE),
           FootIsSet(b, c, hi, hi - lo)
    PROVE  AsOne(mem, c, ft, lo, hi, FALSE)
<1>0. /\ hi - lo \in Nat /\ lo + (hi - lo) = hi /\ lo \in Nat /\ hi \in Nat /\ lo < hi
      /\ lo \in DOMAIN mem /\ hi \in DOMAIN mem
      /\ DOMAIN mem \subseteq Nat /\ mem[hi] \in HeadType /\ mem[lo] \in HeadType
      /\ mem[lo].pin \in BOOLEAN /\ mem[hi].cin \in BOOLEAN
  BY DEF Spot, HeadType
<1>1. /\ DOMAIN a = DOMAIN mem /\ \A p \in DOMAIN mem : p # hi => a[p] = mem[p]
      /\ ~a[hi].pin /\ a[hi].pin \in BOOLEAN /\ a[hi].size = mem[hi].size /\ a[hi].cin = mem[hi].cin
      /\ a[hi] \in HeadType /\ hi \in DOMAIN a
  <2>1. DOMAIN a = DOMAIN mem /\ \A p \in DOMAIN mem : p # hi => a[p] = mem[p]
    BY <1>0 DEF PinIsCleared
  <2>2. /\ ~a[hi].pin /\ a[hi].pin \in BOOLEAN /\ a[hi].size = mem[hi].size /\ a[hi].cin = mem[hi].cin
        /\ a[hi] \in HeadType
    BY <1>0 DEF PinIsCleared, HeadType, Chunk
  <2>3. hi \in DOMAIN a
    BY <1>0, <2>1
  <2> QED BY <2>1, <2>2, <2>3
<1>2. /\ DOMAIN b = {q \in DOMAIN a : q < lo \/ q >= hi} \cup {lo}
         /\ \A p \in DOMAIN b : p # lo => b[p] = a[p]
      /\ b[lo].size = hi - lo /\ b[lo].cin = FALSE /\ b[lo].pin = TRUE /\ b[lo] \in HeadType
      /\ hi \in DOMAIN b /\ b[hi] = a[hi]
  <2>1. DOMAIN b = {q \in DOMAIN a : q < lo \/ q >= hi} \cup {lo}
        /\ \A p \in DOMAIN b : p # lo => b[p] = a[p]
    BY <1>0 DEF HeadIsSet
  <2>2. b[lo].size = hi - lo /\ b[lo].cin = FALSE /\ b[lo].pin = TRUE /\ b[lo] \in HeadType
    BY <1>0, <1>1 DEF HeadIsSet, HeadType, Chunk
  <2>3. hi \in DOMAIN b /\ b[hi] = a[hi]
    BY <1>0, <1>1, <2>1
  <2> QED BY <2>1, <2>2, <2>3
<1>3. /\ DOMAIN c = DOMAIN b /\ \A p \in DOMAIN b : p # hi => c[p] = b[p]
      /\ c[hi].pin = FALSE /\ c[hi].size = mem[hi].size /\ c[hi].cin = mem[hi].cin
      /\ c[hi].foot = hi - lo /\ c[hi] \in HeadType /\ c[lo] = b[lo]
  <2>1. DOMAIN c = DOMAIN b /\ \A p \in DOMAIN b : p # hi => c[p] = b[p]
    BY <1>0 DEF FootIsSet
  <2>4. /\ c[hi] = [b[hi] EXCEPT !.foot = hi - lo] /\ b[hi] \in HeadType /\ ~b[hi].pin
        /\ b[hi].pin \in BOOLEAN /\ b[hi].size = mem[hi].size /\ b[hi].cin = mem[hi].cin
    <3>1. c[hi] = [b[hi] EXCEPT !.foot = hi - lo]
      BY <1>0, <1>1, <1>2 DEF FootIsSet
    <3>2. b[hi] \in HeadType /\ ~b[hi].pin /\ b[hi].size = mem[hi].size /\ b[hi].cin = mem[hi].cin
      BY <1>0, <1>1, <1>2
    <3>3. b[hi].pin \in BOOLEAN
      BY <3>2 DEF HeadType
    <3> QED BY <3>1, <3>2, <3>3
  <2>2. /\ c[hi].pin = FALSE /\ c[hi].size = mem[hi].size /\ c[hi].cin = mem[hi].cin
        /\ c[hi].foot = hi - lo /\ c[hi] \in HeadType
    BY <1>0, <2>4 DEF HeadType
  <2>3. c[lo] = b[lo]
    BY <1>0, <1>1, <1>2, <2>1
  <2> QED BY <2>1, <2>2, <2>3
<1>4. Renewed(mem, c, ft, lo, hi, {lo})
  <2>1. DOMAIN c = (DOMAIN mem \ Inner(mem, lo, hi)) \cup {lo}
    BY <1>0, <1>1, <1>2, <1>3 DEF Inner
  <2>2. ASSUME NEW p \in DOMAIN mem, p < lo \/ hi < p PROVE c[p] = mem[p]
    <3>1. p \in Nat /\ p # lo /\ p # hi /\ (p < lo \/ p >= hi)
      BY <1>0, <2>2
    <3>2. p \in DOMAIN a /\ p \in DOMAIN b /\ p \in DOMAIN c
      BY <3>1, <1>1, <1>2, <1>3
    <3> QED BY <3>1, <3>2, <1>1, <1>2, <1>3
  <2> QED BY <2>1, <2>2 DEF Renewed
<1>5. Piece(c[lo], hi - lo, FALSE, mem[lo].pin, mem[lo].foot)
  BY <1>0, <1>1, <1>2, <1>3 DEF Piece, HeadType
<1>6. Piece(c[hi], mem[hi].size, mem[hi].cin, FALSE, hi - lo)
  BY <1>0, <1>1, <1>2, <1>3 DEF Piece, HeadType
<1> QED BY <1>0, <1>4, <1>5, <1>6 DEF AsOne, Wide, Differ

\* set_size_and_pinuse_of_free_chunk of a region whose last chunk is free.
LEMMA MergedIs ==
    ASSUME NEW mem, NEW ft, NEW lo, NEW hi, Spot(mem, ft, lo, hi), Differ(hi, ft), mem[lo].pin,
           mem[hi].cin,
           ~mem[hi].pin, Wide(lo, hi),
           NEW b, NEW c,
           HeadIsSet(mem, b, lo, hi - lo, FALSE, TRUE),
           FootIsSet(b, c, hi, hi - lo)
    PROVE  AsOne(mem, c, ft, lo, hi, FALSE)
<1>0. /\ hi - lo \in Nat /\ lo + (hi - lo) = hi /\ lo \in Nat /\ hi \in Nat /\ lo < hi
      /\ lo \in DOMAIN mem /\ hi \in DOMAIN mem
      /\ DOMAIN mem \subseteq Nat /\ mem[hi] \in HeadType /\ mem[lo] \in HeadType
      /\ mem[lo].pin \in BOOLEAN /\ mem[hi].cin \in BOOLEAN
  BY DEF Spot, HeadType
<1>1. /\ DOMAIN b = {q \in DOMAIN mem : q < lo \/ q >= hi} \cup {lo}
         /\ \A p \in DOMAIN b : p # lo => b[p] = mem[p]
      /\ b[lo].size = hi - lo /\ b[lo].cin = FALSE /\ b[lo].pin = TRUE /\ b[lo] \in HeadType
      /\ hi \in DOMAIN b /\ b[hi] = mem[hi]
  <2>1. DOMAIN b = {q \in DOMAIN mem : q < lo \/ q >= hi} \cup {lo}
        /\ \A p \in DOMAIN b : p # lo => b[p] = mem[p]
    BY <1>0 DEF HeadIsSet
  <2>2. b[lo].size = hi - lo /\ b[lo].cin = FALSE /\ b[lo].pin = TRUE /\ b[lo] \in HeadType
    BY <1>0 DEF HeadIsSet, HeadType, Chunk
  <2>3. hi \in DOMAIN b /\ b[hi] = mem[hi]
    BY <1>0, <2>1
  <2> QED BY <2>1, <2>2, <2>3
<1>2. /\ DOMAIN c = DOMAIN b /\ \A p \in DOMAIN b : p # hi => c[p] = b[p]
      /\ c[hi].pin = FALSE /\ c[hi].size = mem[hi].size /\ c[hi].cin = mem[hi].cin
      /\ c[hi].foot = hi - lo /\ c[hi] \in HeadType /\ c[lo] = b[lo]
  <2>1. DOMAIN c = DOMAIN b /\ \A p \in DOMAIN b : p # hi => c[p] = b[p]
    BY <1>0 DEF FootIsSet
  <2>4. /\ c[hi] = [b[hi] EXCEPT !.foot = hi - lo] /\ b[hi] \in HeadType /\ ~b[hi].pin
        /\ b[hi].pin \in BOOLEAN /\ b[hi].size = mem[hi].size /\ b[hi].cin = mem[hi].cin
    <3>1. c[hi] = [b[hi] EXCEPT !.foot = hi - lo]
      BY <1>0, <1>1 DEF FootIsSet
    <3>2. b[hi] \in HeadType /\ ~b[hi].pin /\ b[hi].size = mem[hi].size /\ b[hi].cin = mem[hi].cin
      BY <1>0, <1>1
    <3>3. b[hi].pin \in BOOLEAN
      BY <3>2 DEF HeadType
    <3> QED BY <3>1, <3>2, <3>3
  <2>2. /\ c[hi].pin = FALSE /\ c[hi].size = mem[hi].size /\ c[hi].cin = mem[hi].cin
        /\ c[hi].foot = hi - lo /\ c[hi] \in HeadType
    BY <1>0, <2>4 DEF HeadType
  <2>3. c[lo] = b[lo]
    BY <1>0, <1>1, <2>1
  <2> QED BY <2>1, <2>2, <2>3
<1>3. Renewed(mem, c, ft, lo, hi, {lo})
  <2>1. DOMAIN c = (DOMAIN mem \ Inner(mem, lo, hi)) \cup {lo}
    BY <1>0, <1>1, <1>2 DEF Inner
  <2>2. ASSUME NEW p \in DOMAIN mem, p < lo \/ hi < p PROVE c[p] = mem[p]
    <3>1. p \in Nat /\ p # lo /\ p # hi /\ (p < lo \/ p >= hi)
      BY <1>0, <2>2
    <3>2. p \in DOMAIN b /\ p \in DOMAIN c
      BY <3>1, <1>1, <1>2
    <3> QED BY <3>1, <3>2, <1>1, <1>2
  <2> QED BY <2>1, <2>2 DEF Renewed
<1>4. Piece(c[lo], hi - lo, FALSE, mem[lo].pin, mem[lo].foot)
  BY <1>0, <1>1, <1>2 DEF Piece, HeadType
<1>5. Piece(c[hi], mem[hi].size, mem[hi].cin, FALSE, hi - lo)
  BY <1>0, <1>1, <1>2 DEF Piece, HeadType
<1> QED BY <1>0, <1>3, <1>4, <1>5 DEF AsOne, Wide, Differ

\* set_top of a region before the foot of top.
LEMMA ToppedIs ==
    ASSUME NEW mem, NEW ft, NEW lo, NEW hi, Spot(mem, ft, lo, hi), hi = ft, mem[lo].pin,
           NEW b,
           HeadIsSet(mem, b, lo, hi - lo, FALSE, TRUE)
    PROVE  AsOne(mem, b, ft, lo, hi, FALSE)
<1>0. /\ hi - lo \in Nat /\ lo + (hi - lo) = hi /\ lo \in Nat /\ hi \in Nat /\ lo < hi
      /\ lo \in DOMAIN mem /\ hi \in DOMAIN mem
      /\ DOMAIN mem \subseteq Nat /\ mem[hi] \in HeadType /\ mem[lo] \in HeadType
      /\ mem[lo].pin \in BOOLEAN /\ mem[hi].cin \in BOOLEAN
  BY DEF Spot, HeadType
<1>1. /\ DOMAIN b = {q \in DOMAIN mem : q < lo \/ q >= hi} \cup {lo}
         /\ \A p \in DOMAIN b : p # lo => b[p] = mem[p]
      /\ b[lo].size = hi - lo /\ b[lo].cin = FALSE /\ b[lo].pin = TRUE /\ b[lo] \in HeadType
      /\ hi \in DOMAIN b /\ b[hi] = mem[hi]
  <2>1. DOMAIN b = {q \in DOMAIN mem : q < lo \/ q >= hi} \cup {lo}
        /\ \A p \in DOMAIN b : p # lo => b[p] = mem[p]
    BY <1>0 DEF HeadIsSet
  <2>2. b[lo].size = hi - lo /\ b[lo].cin = FALSE /\ b[lo].pin = TRUE /\ b[lo] \in HeadType
    BY <1>0 DEF HeadIsSet, HeadType, Chunk
  <2>3. hi \in DOMAIN b /\ b[hi] = mem[hi]
    BY <1>0, <2>1
  <2> QED BY <2>1, <2>2, <2>3
<1>2. Renewed(mem, b, ft, lo, hi, {lo})
  <2>1. DOMAIN b = (DOMAIN mem \ Inner(mem, lo, hi)) \cup {lo}
    BY <1>0, <1>1 DEF Inner
  <2>2. ASSUME NEW p \in DOMAIN mem, p < lo \/ hi < p PROVE b[p] = mem[p]
    <3>1. p \in Nat /\ p # lo /\ p # hi /\ (p < lo \/ p >= hi)
      BY <1>0, <2>2
    <3>2. p \in DOMAIN b
      BY <3>1, <1>1
    <3> QED BY <3>1, <3>2, <1>1
  <2> QED BY <2>1, <2>2 DEF Renewed
<1>3. Piece(b[lo], hi - lo, FALSE, mem[lo].pin, mem[lo].foot)
  BY <1>0, <1>1 DEF Piece, HeadType
<1>4. b[hi] = mem[hi]
  BY <1>0, <1>1
<1> QED BY <1>0, <1>2, <1>3, <1>4 DEF AsOne, Wide, Differ

\* set_inuse of a region.
LEMMA TakenIs ==
    ASSUME NEW mem, NEW ft, NEW lo, NEW hi, Spot(mem, ft, lo, hi), Differ(hi, ft), Wide(lo, hi),
           NEW b, NEW c,
           HeadIsSet(mem, b, lo, hi - lo, TRUE, mem[lo].pin),
           PinIsSet(b, c, hi)
    PROVE  AsOne(mem, c, ft, lo, hi, TRUE)
<1>0. /\ hi - lo \in Nat /\ lo + (hi - lo) = hi /\ lo \in Nat /\ hi \in Nat /\ lo < hi
      /\ lo \in DOMAIN mem /\ hi \in DOMAIN mem
      /\ DOMAIN mem \subseteq Nat /\ mem[hi] \in HeadType /\ mem[lo] \in HeadType
      /\ mem[lo].pin \in BOOLEAN /\ mem[hi].cin \in BOOLEAN
  BY DEF Spot, HeadType
<1>1. /\ DOMAIN b = {q \in DOMAIN mem : q < lo \/ q >= hi} \cup {lo}
         /\ \A p \in DOMAIN b : p # lo => b[p] = mem[p]
      /\ b[lo].size = hi - lo /\ b[lo].cin = TRUE /\ b[lo].pin = mem[lo].pin
         /\ (~mem[lo].pin => b[lo].foot = mem[lo].foot) /\ b[lo] \in HeadType /\ hi \in DOMAIN b
         /\ b[hi] = mem[hi]
  <2>1. DOMAIN b = {q \in DOMAIN mem : q < lo \/ q >= hi} \cup {lo}
        /\ \A p \in DOMAIN b : p # lo => b[p] = mem[p]
    BY <1>0 DEF HeadIsSet
  <2>2. b[lo].size = hi - lo /\ b[lo].cin = TRUE /\ b[lo].pin = mem[lo].pin
        /\ (~mem[lo].pin => b[lo].foot = mem[lo].foot) /\ b[lo] \in HeadType
    BY <1>0 DEF HeadIsSet, HeadType, Chunk
  <2>3. hi \in DOMAIN b /\ b[hi] = mem[hi]
    BY <1>0, <2>1
  <2> QED BY <2>1, <2>2, <2>3
<1>2. /\ DOMAIN c = DOMAIN b \cup {hi} /\ \A p \in DOMAIN b : p # hi => c[p] = b[p]
      /\ c[hi].pin = TRUE /\ c[hi].size = mem[hi].size /\ c[hi].cin = mem[hi].cin /\ c[hi] \in HeadType
      /\ c[lo] = b[lo]
  <2>1. DOMAIN c = DOMAIN b \cup {hi} /\ \A p \in DOMAIN b : p # hi => c[p] = b[p]
    BY <1>0 DEF PinIsSet
  <2>4. c[hi] = Chunk(mem[hi].size, mem[hi].cin, TRUE, 0)
    BY <1>0, <1>1 DEF PinIsSet
  <2>2. c[hi].pin = TRUE /\ c[hi].size = mem[hi].size /\ c[hi].cin = mem[hi].cin /\ c[hi] \in HeadType
    BY <1>0, <2>4 DEF HeadType, Chunk
  <2>3. c[lo] = b[lo]
    BY <1>0, <1>1, <2>1
  <2> QED BY <2>1, <2>2, <2>3
<1>3. Renewed(mem, c, ft, lo, hi, {lo})
  <2>1. DOMAIN c = (DOMAIN mem \ Inner(mem, lo, hi)) \cup {lo}
    BY <1>0, <1>1, <1>2 DEF Inner
  <2>2. ASSUME NEW p \in DOMAIN mem, p < lo \/ hi < p PROVE c[p] = mem[p]
    <3>1. p \in Nat /\ p # lo /\ p # hi /\ (p < lo \/ p >= hi)
      BY <1>0, <2>2
    <3>2. p \in DOMAIN b /\ p \in DOMAIN c
      BY <3>1, <1>1, <1>2
    <3> QED BY <3>1, <3>2, <1>1, <1>2
  <2> QED BY <2>1, <2>2 DEF Renewed
<1>4. Piece(c[lo], hi - lo, TRUE, mem[lo].pin, mem[lo].foot)
  BY <1>0, <1>1, <1>2 DEF Piece, HeadType
<1>5. Piece(c[hi], mem[hi].size, mem[hi].cin, TRUE, hi - lo)
  BY <1>0, <1>1, <1>2 DEF Piece, HeadType
<1> QED BY <1>0, <1>3, <1>4, <1>5 DEF AsOne, Wide, Differ

\* The front is taken and the rest becomes free, as split_large and split_smallbin do.
LEMMA DividedIs ==
    ASSUME NEW mem, NEW ft, NEW lo, NEW hi, Spot(mem, ft, lo, hi), NEW mid, Parted(lo, mid, hi),
           Differ(hi, ft), mem[lo].pin, mem[hi].cin, ~mem[hi].pin, Wide(mid, hi),
           NEW a, NEW b, NEW c,
           HeadIsSet(mem, a, lo, mid - lo, TRUE, TRUE),
           HeadIsSet(a, b, mid, hi - mid, FALSE, TRUE),
           FootIsSet(b, c, hi, hi - mid)
    PROVE  AsTwo(mem, c, ft, lo, mid, hi, FALSE)
<1>0. /\ hi - lo \in Nat /\ lo + (hi - lo) = hi /\ lo \in Nat /\ hi \in Nat /\ lo < hi
      /\ lo \in DOMAIN mem /\ hi \in DOMAIN mem
      /\ DOMAIN mem \subseteq Nat /\ mem[hi] \in HeadType /\ mem[lo] \in HeadType
      /\ mem[lo].pin \in BOOLEAN /\ mem[hi].cin \in BOOLEAN
      /\ mid \in Nat /\ lo < mid /\ mid < hi /\ mid - lo \in Nat /\ hi - mid \in Nat
      /\ lo + (mid - lo) = mid /\ mid + (hi - mid) = hi
  BY DEF Spot, HeadType, Parted
<1>1. /\ DOMAIN a = {q \in DOMAIN mem : q < lo \/ q >= mid} \cup {lo}
         /\ \A p \in DOMAIN a : p # lo => a[p] = mem[p]
      /\ a[lo].size = mid - lo /\ a[lo].cin = TRUE /\ a[lo].pin = TRUE /\ a[lo] \in HeadType
      /\ hi \in DOMAIN a /\ a[hi] = mem[hi]
  <2>1. DOMAIN a = {q \in DOMAIN mem : q < lo \/ q >= mid} \cup {lo}
        /\ \A p \in DOMAIN a : p # lo => a[p] = mem[p]
    BY <1>0 DEF HeadIsSet
  <2>2. a[lo].size = mid - lo /\ a[lo].cin = TRUE /\ a[lo].pin = TRUE /\ a[lo] \in HeadType
    BY <1>0 DEF HeadIsSet, HeadType, Chunk
  <2>3. hi \in DOMAIN a /\ a[hi] = mem[hi]
    BY <1>0, <2>1
  <2> QED BY <2>1, <2>2, <2>3
<1>2. /\ DOMAIN b = {q \in DOMAIN a : q < mid \/ q >= hi} \cup {mid}
         /\ \A p \in DOMAIN b : p # mid => b[p] = a[p]
      /\ b[mid].size = hi - mid /\ b[mid].cin = FALSE /\ b[mid].pin = TRUE /\ b[mid] \in HeadType
      /\ hi \in DOMAIN b /\ b[hi] = mem[hi] /\ lo \in DOMAIN b /\ b[lo] = a[lo]
  <2>1. DOMAIN b = {q \in DOMAIN a : q < mid \/ q >= hi} \cup {mid}
        /\ \A p \in DOMAIN b : p # mid => b[p] = a[p]
    BY <1>0 DEF HeadIsSet
  <2>2. b[mid].size = hi - mid /\ b[mid].cin = FALSE /\ b[mid].pin = TRUE /\ b[mid] \in HeadType
    BY <1>0, <1>1 DEF HeadIsSet, HeadType, Chunk
  <2>3. hi \in DOMAIN b /\ b[hi] = mem[hi] /\ lo \in DOMAIN b /\ b[lo] = a[lo]
    BY <1>0, <1>1, <2>1
  <2> QED BY <2>1, <2>2, <2>3
<1>3. /\ DOMAIN c = DOMAIN b /\ \A p \in DOMAIN b : p # hi => c[p] = b[p]
      /\ c[hi].pin = FALSE /\ c[hi].size = mem[hi].size /\ c[hi].cin = mem[hi].cin
      /\ c[hi].foot = hi - mid /\ c[hi] \in HeadType /\ c[lo] = a[lo] /\ c[mid] = b[mid]
  <2>1. DOMAIN c = DOMAIN b /\ \A p \in DOMAIN b : p # hi => c[p] = b[p]
    BY <1>0 DEF FootIsSet
  <2>4. /\ c[hi] = [b[hi] EXCEPT !.foot = hi - mid] /\ b[hi] \in HeadType /\ ~b[hi].pin
        /\ b[hi].pin \in BOOLEAN /\ b[hi].size = mem[hi].size /\ b[hi].cin = mem[hi].cin
    <3>1. c[hi] = [b[hi] EXCEPT !.foot = hi - mid]
      BY <1>0, <1>1, <1>2 DEF FootIsSet
    <3>2. b[hi] \in HeadType /\ ~b[hi].pin /\ b[hi].size = mem[hi].size /\ b[hi].cin = mem[hi].cin
      BY <1>0, <1>1, <1>2
    <3>3. b[hi].pin \in BOOLEAN
      BY <3>2 DEF HeadType
    <3> QED BY <3>1, <3>2, <3>3
  <2>2. /\ c[hi].pin = FALSE /\ c[hi].size = mem[hi].size /\ c[hi].cin = mem[hi].cin
        /\ c[hi].foot = hi - mid /\ c[hi] \in HeadType
    BY <1>0, <2>4 DEF HeadType
  <2>3. c[lo] = a[lo] /\ c[mid] = b[mid]
    BY <1>0, <1>1, <1>2, <2>1
  <2> QED BY <2>1, <2>2, <2>3
<1>4. Renewed(mem, c, ft, lo, hi, {lo, mid})
  <2>1. DOMAIN c = (DOMAIN mem \ Inner(mem, lo, hi)) \cup {lo, mid}
    BY <1>0, <1>1, <1>2, <1>3 DEF Inner
  <2>2. ASSUME NEW p \in DOMAIN mem, p < lo \/ hi < p PROVE c[p] = mem[p]
    <3>1. p \in Nat /\ p # lo /\ p # hi /\ p # mid /\ (p < lo \/ p >= mid) /\ (p < mid \/ p >= hi)
      BY <1>0, <2>2
    <3>2. p \in DOMAIN a /\ p \in DOMAIN b /\ p \in DOMAIN c
      BY <3>1, <1>1, <1>2, <1>3
    <3> QED BY <3>1, <3>2, <1>1, <1>2, <1>3
  <2> QED BY <2>1, <2>2 DEF Renewed
<1>5. Piece(c[lo], mid - lo, TRUE, mem[lo].pin, mem[lo].foot)
  BY <1>0, <1>1, <1>2, <1>3 DEF Piece, HeadType
<1>6. Piece(c[mid], hi - mid, FALSE, TRUE, 0)
  BY <1>0, <1>1, <1>2, <1>3 DEF Piece, HeadType
<1>7. Piece(c[hi], mem[hi].size, mem[hi].cin, FALSE, hi - mid)
  BY <1>0, <1>1, <1>2, <1>3 DEF Piece, HeadType
<1>8. mid \in Nat /\ lo + MIN_CHUNK_SIZE <= mid /\ mid < hi /\ (hi = ft \/ mid + MIN_CHUNK_SIZE <= hi)
  BY <1>0 DEF Parted, Wide, MIN_CHUNK_SIZE
<1> QED BY <1>0, <1>4, <1>5, <1>6, <1>7, <1>8 DEF AsTwo, Differ

\* The rest becomes free and the front is taken, as split_dv does.
LEMMA DvDividedIs ==
    ASSUME NEW mem, NEW ft, NEW lo, NEW hi, Spot(mem, ft, lo, hi), NEW mid, Parted(lo, mid, hi),
           Differ(hi, ft), mem[lo].pin, mem[hi].cin, ~mem[hi].pin, Wide(mid, hi),
           NEW a, NEW b, NEW c,
           HeadIsSet(mem, a, mid, hi - mid, FALSE, TRUE),
           FootIsSet(a, b, hi, hi - mid),
           HeadIsSet(b, c, lo, mid - lo, TRUE, TRUE)
    PROVE  AsTwo(mem, c, ft, lo, mid, hi, FALSE)
<1>0. /\ hi - lo \in Nat /\ lo + (hi - lo) = hi /\ lo \in Nat /\ hi \in Nat /\ lo < hi
      /\ lo \in DOMAIN mem /\ hi \in DOMAIN mem
      /\ DOMAIN mem \subseteq Nat /\ mem[hi] \in HeadType /\ mem[lo] \in HeadType
      /\ mem[lo].pin \in BOOLEAN /\ mem[hi].cin \in BOOLEAN
      /\ mid \in Nat /\ lo < mid /\ mid < hi /\ mid - lo \in Nat /\ hi - mid \in Nat
      /\ lo + (mid - lo) = mid /\ mid + (hi - mid) = hi
  BY DEF Spot, HeadType, Parted
<1>1. /\ DOMAIN a = {q \in DOMAIN mem : q < mid \/ q >= hi} \cup {mid}
         /\ \A p \in DOMAIN a : p # mid => a[p] = mem[p]
      /\ a[mid].size = hi - mid /\ a[mid].cin = FALSE /\ a[mid].pin = TRUE /\ a[mid] \in HeadType
      /\ hi \in DOMAIN a /\ a[hi] = mem[hi] /\ mid \in DOMAIN a
  <2>1. DOMAIN a = {q \in DOMAIN mem : q < mid \/ q >= hi} \cup {mid}
        /\ \A p \in DOMAIN a : p # mid => a[p] = mem[p]
    BY <1>0 DEF HeadIsSet
  <2>2. a[mid].size = hi - mid /\ a[mid].cin = FALSE /\ a[mid].pin = TRUE /\ a[mid] \in HeadType
    BY <1>0 DEF HeadIsSet, HeadType, Chunk
  <2>3. hi \in DOMAIN a /\ a[hi] = mem[hi] /\ mid \in DOMAIN a
    BY <1>0, <2>1
  <2> QED BY <2>1, <2>2, <2>3
<1>2. /\ DOMAIN b = DOMAIN a /\ \A p \in DOMAIN a : p # hi => b[p] = a[p]
      /\ b[hi].pin = FALSE /\ b[hi].size = mem[hi].size /\ b[hi].cin = mem[hi].cin
      /\ b[hi].foot = hi - mid /\ b[hi] \in HeadType /\ b[mid] = a[mid]
  <2>1. DOMAIN b = DOMAIN a /\ \A p \in DOMAIN a : p # hi => b[p] = a[p]
    BY <1>0 DEF FootIsSet
  <2>4. /\ b[hi] = [a[hi] EXCEPT !.foot = hi - mid] /\ a[hi] \in HeadType /\ ~a[hi].pin
        /\ a[hi].pin \in BOOLEAN /\ a[hi].size = mem[hi].size /\ a[hi].cin = mem[hi].cin
    <3>1. b[hi] = [a[hi] EXCEPT !.foot = hi - mid]
      BY <1>0, <1>1 DEF FootIsSet
    <3>2. a[hi] \in HeadType /\ ~a[hi].pin /\ a[hi].size = mem[hi].size /\ a[hi].cin = mem[hi].cin
      BY <1>0, <1>1
    <3>3. a[hi].pin \in BOOLEAN
      BY <3>2 DEF HeadType
    <3> QED BY <3>1, <3>2, <3>3
  <2>2. /\ b[hi].pin = FALSE /\ b[hi].size = mem[hi].size /\ b[hi].cin = mem[hi].cin
        /\ b[hi].foot = hi - mid /\ b[hi] \in HeadType
    BY <1>0, <2>4 DEF HeadType
  <2>3. b[mid] = a[mid]
    BY <1>0, <1>1, <2>1
  <2> QED BY <2>1, <2>2, <2>3
<1>3. /\ DOMAIN c = {q \in DOMAIN b : q < lo \/ q >= mid} \cup {lo}
         /\ \A p \in DOMAIN c : p # lo => c[p] = b[p]
      /\ c[lo].size = mid - lo /\ c[lo].cin = TRUE /\ c[lo].pin = TRUE /\ c[lo] \in HeadType
      /\ c[hi] = b[hi] /\ c[mid] = a[mid]
  <2>1. DOMAIN c = {q \in DOMAIN b : q < lo \/ q >= mid} \cup {lo}
        /\ \A p \in DOMAIN c : p # lo => c[p] = b[p]
    BY <1>0 DEF HeadIsSet
  <2>2. c[lo].size = mid - lo /\ c[lo].cin = TRUE /\ c[lo].pin = TRUE /\ c[lo] \in HeadType
    BY <1>0, <1>1, <1>2 DEF HeadIsSet, HeadType, Chunk
  <2>3. c[hi] = b[hi] /\ c[mid] = a[mid]
    BY <1>0, <1>1, <1>2, <2>1
  <2> QED BY <2>1, <2>2, <2>3
<1>4. Renewed(mem, c, ft, lo, hi, {lo, mid})
  <2>1. DOMAIN c = (DOMAIN mem \ Inner(mem, lo, hi)) \cup {lo, mid}
    BY <1>0, <1>1, <1>2, <1>3 DEF Inner
  <2>2. ASSUME NEW p \in DOMAIN mem, p < lo \/ hi < p PROVE c[p] = mem[p]
    <3>1. p \in Nat /\ p # lo /\ p # hi /\ p # mid /\ (p < lo \/ p >= mid) /\ (p < mid \/ p >= hi)
      BY <1>0, <2>2
    <3>2. p \in DOMAIN a /\ p \in DOMAIN b /\ p \in DOMAIN c
      BY <3>1, <1>1, <1>2, <1>3
    <3> QED BY <3>1, <3>2, <1>1, <1>2, <1>3
  <2> QED BY <2>1, <2>2 DEF Renewed
<1>5. Piece(c[lo], mid - lo, TRUE, mem[lo].pin, mem[lo].foot)
  BY <1>0, <1>1, <1>2, <1>3 DEF Piece, HeadType
<1>6. Piece(c[mid], hi - mid, FALSE, TRUE, 0)
  BY <1>0, <1>1, <1>2, <1>3 DEF Piece, HeadType
<1>7. Piece(c[hi], mem[hi].size, mem[hi].cin, FALSE, hi - mid)
  BY <1>0, <1>1, <1>2, <1>3 DEF Piece, HeadType
<1>8. mid \in Nat /\ lo + MIN_CHUNK_SIZE <= mid /\ mid < hi /\ (hi = ft \/ mid + MIN_CHUNK_SIZE <= hi)
  BY <1>0 DEF Parted, Wide, MIN_CHUNK_SIZE
<1> QED BY <1>0, <1>4, <1>5, <1>6, <1>7, <1>8 DEF AsTwo, Differ

\* The front of top is taken, as split_top does.
LEMMA TopDividedIs ==
    ASSUME NEW mem, NEW ft, NEW lo, NEW hi, Spot(mem, ft, lo, hi), NEW mid, Parted(lo, mid, hi),
           hi = ft, mem[lo].pin,
           NEW a, NEW b,
           HeadIsSet(mem, a, mid, hi - mid, FALSE, TRUE),
           HeadIsSet(a, b, lo, mid - lo, TRUE, TRUE)
    PROVE  AsTwo(mem, b, ft, lo, mid, hi, FALSE)
<1>0. /\ hi - lo \in Nat /\ lo + (hi - lo) = hi /\ lo \in Nat /\ hi \in Nat /\ lo < hi
      /\ lo \in DOMAIN mem /\ hi \in DOMAIN mem
      /\ DOMAIN mem \subseteq Nat /\ mem[hi] \in HeadType /\ mem[lo] \in HeadType
      /\ mem[lo].pin \in BOOLEAN /\ mem[hi].cin \in BOOLEAN
      /\ mid \in Nat /\ lo < mid /\ mid < hi /\ mid - lo \in Nat /\ hi - mid \in Nat
      /\ lo + (mid - lo) = mid /\ mid + (hi - mid) = hi
  BY DEF Spot, HeadType, Parted
<1>1. /\ DOMAIN a = {q \in DOMAIN mem : q < mid \/ q >= hi} \cup {mid}
         /\ \A p \in DOMAIN a : p # mid => a[p] = mem[p]
      /\ a[mid].size = hi - mid /\ a[mid].cin = FALSE /\ a[mid].pin = TRUE /\ a[mid] \in HeadType
      /\ hi \in DOMAIN a /\ a[hi] = mem[hi] /\ mid \in DOMAIN a
  <2>1. DOMAIN a = {q \in DOMAIN mem : q < mid \/ q >= hi} \cup {mid}
        /\ \A p \in DOMAIN a : p # mid => a[p] = mem[p]
    BY <1>0 DEF HeadIsSet
  <2>2. a[mid].size = hi - mid /\ a[mid].cin = FALSE /\ a[mid].pin = TRUE /\ a[mid] \in HeadType
    BY <1>0 DEF HeadIsSet, HeadType, Chunk
  <2>3. hi \in DOMAIN a /\ a[hi] = mem[hi] /\ mid \in DOMAIN a
    BY <1>0, <2>1
  <2> QED BY <2>1, <2>2, <2>3
<1>2. /\ DOMAIN b = {q \in DOMAIN a : q < lo \/ q >= mid} \cup {lo}
         /\ \A p \in DOMAIN b : p # lo => b[p] = a[p]
      /\ b[lo].size = mid - lo /\ b[lo].cin = TRUE /\ b[lo].pin = TRUE /\ b[lo] \in HeadType
      /\ b[hi] = mem[hi] /\ b[mid] = a[mid] /\ hi \in DOMAIN b
  <2>1. DOMAIN b = {q \in DOMAIN a : q < lo \/ q >= mid} \cup {lo}
        /\ \A p \in DOMAIN b : p # lo => b[p] = a[p]
    BY <1>0 DEF HeadIsSet
  <2>2. b[lo].size = mid - lo /\ b[lo].cin = TRUE /\ b[lo].pin = TRUE /\ b[lo] \in HeadType
    BY <1>0, <1>1 DEF HeadIsSet, HeadType, Chunk
  <2>3. b[hi] = mem[hi] /\ b[mid] = a[mid] /\ hi \in DOMAIN b
    BY <1>0, <1>1, <2>1
  <2> QED BY <2>1, <2>2, <2>3
<1>3. Renewed(mem, b, ft, lo, hi, {lo, mid})
  <2>1. DOMAIN b = (DOMAIN mem \ Inner(mem, lo, hi)) \cup {lo, mid}
    BY <1>0, <1>1, <1>2 DEF Inner
  <2>2. ASSUME NEW p \in DOMAIN mem, p < lo \/ hi < p PROVE b[p] = mem[p]
    <3>1. p \in Nat /\ p # lo /\ p # hi /\ p # mid /\ (p < lo \/ p >= mid) /\ (p < mid \/ p >= hi)
      BY <1>0, <2>2
    <3>2. p \in DOMAIN a /\ p \in DOMAIN b
      BY <3>1, <1>1, <1>2
    <3> QED BY <3>1, <3>2, <1>1, <1>2
  <2> QED BY <2>1, <2>2 DEF Renewed
<1>4. Piece(b[lo], mid - lo, TRUE, mem[lo].pin, mem[lo].foot)
  BY <1>0, <1>1, <1>2 DEF Piece, HeadType
<1>5. Piece(b[mid], hi - mid, FALSE, TRUE, 0)
  BY <1>0, <1>1, <1>2 DEF Piece, HeadType
<1>6. b[hi] = mem[hi]
  BY <1>0, <1>1, <1>2
<1>7. mid \in Nat /\ lo + MIN_CHUNK_SIZE <= mid /\ mid < hi /\ (hi = ft \/ mid + MIN_CHUNK_SIZE <= hi)
  BY <1>0 DEF Parted, Wide, MIN_CHUNK_SIZE
<1> QED BY <1>0, <1>3, <1>4, <1>5, <1>6, <1>7 DEF AsTwo, Differ

\* A chunk grows and the rest of the region becomes free.
LEMMA GrownIs ==
    ASSUME NEW mem, NEW ft, NEW lo, NEW hi, Spot(mem, ft, lo, hi), NEW mid, Parted(lo, mid, hi),
           Differ(hi, ft), mem[hi].cin, ~mem[hi].pin, Wide(mid, hi),
           NEW a, NEW b, NEW c, NEW d,
           HeadIsSet(mem, a, lo, mid - lo, TRUE, mem[lo].pin),
           PinIsSet(a, b, mid),
           HeadIsSet(b, c, mid, hi - mid, FALSE, TRUE),
           FootIsSet(c, d, hi, hi - mid)
    PROVE  AsTwo(mem, d, ft, lo, mid, hi, FALSE)
<1>0. /\ hi - lo \in Nat /\ lo + (hi - lo) = hi /\ lo \in Nat /\ hi \in Nat /\ lo < hi
      /\ lo \in DOMAIN mem /\ hi \in DOMAIN mem
      /\ DOMAIN mem \subseteq Nat /\ mem[hi] \in HeadType /\ mem[lo] \in HeadType
      /\ mem[lo].pin \in BOOLEAN /\ mem[hi].cin \in BOOLEAN
      /\ mid \in Nat /\ lo < mid /\ mid < hi /\ mid - lo \in Nat /\ hi - mid \in Nat
      /\ lo + (mid - lo) = mid /\ mid + (hi - mid) = hi
  BY DEF Spot, HeadType, Parted
<1>1. /\ DOMAIN a = {q \in DOMAIN mem : q < lo \/ q >= mid} \cup {lo}
         /\ \A p \in DOMAIN a : p # lo => a[p] = mem[p]
      /\ a[lo].size = mid - lo /\ a[lo].cin = TRUE /\ a[lo].pin = mem[lo].pin
         /\ (~mem[lo].pin => a[lo].foot = mem[lo].foot) /\ a[lo] \in HeadType /\ hi \in DOMAIN a
         /\ a[hi] = mem[hi] /\ lo \in DOMAIN a
  <2>1. DOMAIN a = {q \in DOMAIN mem : q < lo \/ q >= mid} \cup {lo}
        /\ \A p \in DOMAIN a : p # lo => a[p] = mem[p]
    BY <1>0 DEF HeadIsSet
  <2>2. a[lo].size = mid - lo /\ a[lo].cin = TRUE /\ a[lo].pin = mem[lo].pin
        /\ (~mem[lo].pin => a[lo].foot = mem[lo].foot) /\ a[lo] \in HeadType
    BY <1>0 DEF HeadIsSet, HeadType, Chunk
  <2>3. hi \in DOMAIN a /\ a[hi] = mem[hi] /\ lo \in DOMAIN a
    BY <1>0, <2>1
  <2> QED BY <2>1, <2>2, <2>3
<1>2. /\ DOMAIN b = DOMAIN a \cup {mid} /\ \A p \in DOMAIN a : p # mid => b[p] = a[p]
      /\ b[lo] = a[lo] /\ b[hi] = mem[hi] /\ hi \in DOMAIN b /\ lo \in DOMAIN b
  <2>1. DOMAIN b = DOMAIN a \cup {mid} /\ \A p \in DOMAIN a : p # mid => b[p] = a[p]
    BY <1>0 DEF PinIsSet
  <2>2. TRUE
    BY <1>0, <1>1 DEF PinIsSet, HeadType, Chunk
  <2>3. b[lo] = a[lo] /\ b[hi] = mem[hi] /\ hi \in DOMAIN b /\ lo \in DOMAIN b
    BY <1>0, <1>1, <2>1
  <2> QED BY <2>1, <2>2, <2>3
<1>3. /\ DOMAIN c = {q \in DOMAIN b : q < mid \/ q >= hi} \cup {mid}
         /\ \A p \in DOMAIN c : p # mid => c[p] = b[p]
      /\ c[mid].size = hi - mid /\ c[mid].cin = FALSE /\ c[mid].pin = TRUE /\ c[mid] \in HeadType
      /\ hi \in DOMAIN c /\ c[hi] = mem[hi] /\ lo \in DOMAIN c /\ c[lo] = a[lo]
  <2>1. DOMAIN c = {q \in DOMAIN b : q < mid \/ q >= hi} \cup {mid}
        /\ \A p \in DOMAIN c : p # mid => c[p] = b[p]
    BY <1>0 DEF HeadIsSet
  <2>2. c[mid].size = hi - mid /\ c[mid].cin = FALSE /\ c[mid].pin = TRUE /\ c[mid] \in HeadType
    BY <1>0, <1>1, <1>2 DEF HeadIsSet, HeadType, Chunk
  <2>3. hi \in DOMAIN c /\ c[hi] = mem[hi] /\ lo \in DOMAIN c /\ c[lo] = a[lo]
    BY <1>0, <1>1, <1>2, <2>1
  <2> QED BY <2>1, <2>2, <2>3
<1>4. /\ DOMAIN d = DOMAIN c /\ \A p \in DOMAIN c : p # hi => d[p] = c[p]
      /\ d[hi].pin = FALSE /\ d[hi].size = mem[hi].size /\ d[hi].cin = mem[hi].cin
      /\ d[hi].foot = hi - mid /\ d[hi] \in HeadType /\ d[lo] = a[lo] /\ d[mid] = c[mid]
  <2>1. DOMAIN d = DOMAIN c /\ \A p \in DOMAIN c : p # hi => d[p] = c[p]
    BY <1>0 DEF FootIsSet
  <2>4. /\ d[hi] = [c[hi] EXCEPT !.foot = hi - mid] /\ c[hi] \in HeadType /\ ~c[hi].pin
        /\ c[hi].pin \in BOOLEAN /\ c[hi].size = mem[hi].size /\ c[hi].cin = mem[hi].cin
    <3>1. d[hi] = [c[hi] EXCEPT !.foot = hi - mid]
      BY <1>0, <1>1, <1>2, <1>3 DEF FootIsSet
    <3>2. c[hi] \in HeadType /\ ~c[hi].pin /\ c[hi].size = mem[hi].size /\ c[hi].cin = mem[hi].cin
      BY <1>0, <1>1, <1>2, <1>3
    <3>3. c[hi].pin \in BOOLEAN
      BY <3>2 DEF HeadType
    <3> QED BY <3>1, <3>2, <3>3
  <2>2. /\ d[hi].pin = FALSE /\ d[hi].size = mem[hi].size /\ d[hi].cin = mem[hi].cin
        /\ d[hi].foot = hi - mid /\ d[hi] \in HeadType
    BY <1>0, <2>4 DEF HeadType
  <2>3. d[lo] = a[lo] /\ d[mid] = c[mid]
    BY <1>0, <1>1, <1>2, <1>3, <2>1
  <2> QED BY <2>1, <2>2, <2>3
<1>5. Renewed(mem, d, ft, lo, hi, {lo, mid})
  <2>1. DOMAIN d = (DOMAIN mem \ Inner(mem, lo, hi)) \cup {lo, mid}
    BY <1>0, <1>1, <1>2, <1>3, <1>4 DEF Inner
  <2>2. ASSUME NEW p \in DOMAIN mem, p < lo \/ hi < p PROVE d[p] = mem[p]
    <3>1. p \in Nat /\ p # lo /\ p # hi /\ p # mid /\ (p < lo \/ p >= mid) /\ (p < mid \/ p >= hi)
      BY <1>0, <2>2
    <3>2. p \in DOMAIN a /\ p \in DOMAIN b /\ p \in DOMAIN c /\ p \in DOMAIN d
      BY <3>1, <1>1, <1>2, <1>3, <1>4
    <3> QED BY <3>1, <3>2, <1>1, <1>2, <1>3, <1>4
  <2> QED BY <2>1, <2>2 DEF Renewed
<1>6. Piece(d[lo], mid - lo, TRUE, mem[lo].pin, mem[lo].foot)
  BY <1>0, <1>1, <1>2, <1>3, <1>4 DEF Piece, HeadType
<1>7. Piece(d[mid], hi - mid, FALSE, TRUE, 0)
  BY <1>0, <1>1, <1>2, <1>3, <1>4 DEF Piece, HeadType
<1>8. Piece(d[hi], mem[hi].size, mem[hi].cin, FALSE, hi - mid)
  BY <1>0, <1>1, <1>2, <1>3, <1>4 DEF Piece, HeadType
<1>9. mid \in Nat /\ lo + MIN_CHUNK_SIZE <= mid /\ mid < hi /\ (hi = ft \/ mid + MIN_CHUNK_SIZE <= hi)
  BY <1>0 DEF Parted, Wide, MIN_CHUNK_SIZE
<1> QED BY <1>0, <1>5, <1>6, <1>7, <1>8, <1>9 DEF AsTwo, Differ

\* A chunk grows into top.
LEMMA GrownToTopIs ==
    ASSUME NEW mem, NEW ft, NEW lo, NEW hi, Spot(mem, ft, lo, hi), NEW mid, Parted(lo, mid, hi),
           hi = ft,
           NEW a, NEW b, NEW c,
           HeadIsSet(mem, a, lo, mid - lo, TRUE, mem[lo].pin),
           PinIsSet(a, b, mid),
           HeadIsSet(b, c, mid, hi - mid, FALSE, TRUE)
    PROVE  AsTwo(mem, c, ft, lo, mid, hi, FALSE)
<1>0. /\ hi - lo \in Nat /\ lo + (hi - lo) = hi /\ lo \in Nat /\ hi \in Nat /\ lo < hi
      /\ lo \in DOMAIN mem /\ hi \in DOMAIN mem
      /\ DOMAIN mem \subseteq Nat /\ mem[hi] \in HeadType /\ mem[lo] \in HeadType
      /\ mem[lo].pin \in BOOLEAN /\ mem[hi].cin \in BOOLEAN
      /\ mid \in Nat /\ lo < mid /\ mid < hi /\ mid - lo \in Nat /\ hi - mid \in Nat
      /\ lo + (mid - lo) = mid /\ mid + (hi - mid) = hi
  BY DEF Spot, HeadType, Parted
<1>1. /\ DOMAIN a = {q \in DOMAIN mem : q < lo \/ q >= mid} \cup {lo}
         /\ \A p \in DOMAIN a : p # lo => a[p] = mem[p]
      /\ a[lo].size = mid - lo /\ a[lo].cin = TRUE /\ a[lo].pin = mem[lo].pin
         /\ (~mem[lo].pin => a[lo].foot = mem[lo].foot) /\ a[lo] \in HeadType /\ hi \in DOMAIN a
         /\ a[hi] = mem[hi] /\ lo \in DOMAIN a
  <2>1. DOMAIN a = {q \in DOMAIN mem : q < lo \/ q >= mid} \cup {lo}
        /\ \A p \in DOMAIN a : p # lo => a[p] = mem[p]
    BY <1>0 DEF HeadIsSet
  <2>2. a[lo].size = mid - lo /\ a[lo].cin = TRUE /\ a[lo].pin = mem[lo].pin
        /\ (~mem[lo].pin => a[lo].foot = mem[lo].foot) /\ a[lo] \in HeadType
    BY <1>0 DEF HeadIsSet, HeadType, Chunk
  <2>3. hi \in DOMAIN a /\ a[hi] = mem[hi] /\ lo \in DOMAIN a
    BY <1>0, <2>1
  <2> QED BY <2>1, <2>2, <2>3
<1>2. /\ DOMAIN b = DOMAIN a \cup {mid} /\ \A p \in DOMAIN a : p # mid => b[p] = a[p]
      /\ b[lo] = a[lo] /\ b[hi] = mem[hi] /\ hi \in DOMAIN b /\ lo \in DOMAIN b
  <2>1. DOMAIN b = DOMAIN a \cup {mid} /\ \A p \in DOMAIN a : p # mid => b[p] = a[p]
    BY <1>0 DEF PinIsSet
  <2>2. TRUE
    BY <1>0, <1>1 DEF PinIsSet, HeadType, Chunk
  <2>3. b[lo] = a[lo] /\ b[hi] = mem[hi] /\ hi \in DOMAIN b /\ lo \in DOMAIN b
    BY <1>0, <1>1, <2>1
  <2> QED BY <2>1, <2>2, <2>3
<1>3. /\ DOMAIN c = {q \in DOMAIN b : q < mid \/ q >= hi} \cup {mid}
         /\ \A p \in DOMAIN c : p # mid => c[p] = b[p]
      /\ c[mid].size = hi - mid /\ c[mid].cin = FALSE /\ c[mid].pin = TRUE /\ c[mid] \in HeadType
      /\ hi \in DOMAIN c /\ c[hi] = mem[hi] /\ lo \in DOMAIN c /\ c[lo] = a[lo]
  <2>1. DOMAIN c = {q \in DOMAIN b : q < mid \/ q >= hi} \cup {mid}
        /\ \A p \in DOMAIN c : p # mid => c[p] = b[p]
    BY <1>0 DEF HeadIsSet
  <2>2. c[mid].size = hi - mid /\ c[mid].cin = FALSE /\ c[mid].pin = TRUE /\ c[mid] \in HeadType
    BY <1>0, <1>1, <1>2 DEF HeadIsSet, HeadType, Chunk
  <2>3. hi \in DOMAIN c /\ c[hi] = mem[hi] /\ lo \in DOMAIN c /\ c[lo] = a[lo]
    BY <1>0, <1>1, <1>2, <2>1
  <2> QED BY <2>1, <2>2, <2>3
<1>4. Renewed(mem, c, ft, lo, hi, {lo, mid})
  <2>1. DOMAIN c = (DOMAIN mem \ Inner(mem, lo, hi)) \cup {lo, mid}
    BY <1>0, <1>1, <1>2, <1>3 DEF Inner
  <2>2. ASSUME NEW p \in DOMAIN mem, p < lo \/ hi < p PROVE c[p] = mem[p]
    <3>1. p \in Nat /\ p # lo /\ p # hi /\ p # mid /\ (p < lo \/ p >= mid) /\ (p < mid \/ p >= hi)
      BY <1>0, <2>2
    <3>2. p \in DOMAIN a /\ p \in DOMAIN b /\ p \in DOMAIN c
      BY <3>1, <1>1, <1>2, <1>3
    <3> QED BY <3>1, <3>2, <1>1, <1>2, <1>3
  <2> QED BY <2>1, <2>2 DEF Renewed
<1>5. Piece(c[lo], mid - lo, TRUE, mem[lo].pin, mem[lo].foot)
  BY <1>0, <1>1, <1>2, <1>3 DEF Piece, HeadType
<1>6. Piece(c[mid], hi - mid, FALSE, TRUE, 0)
  BY <1>0, <1>1, <1>2, <1>3 DEF Piece, HeadType
<1>7. c[hi] = mem[hi]
  BY <1>0, <1>1, <1>2, <1>3
<1>8. mid \in Nat /\ lo + MIN_CHUNK_SIZE <= mid /\ mid < hi /\ (hi = ft \/ mid + MIN_CHUNK_SIZE <= hi)
  BY <1>0 DEF Parted, Wide, MIN_CHUNK_SIZE
<1> QED BY <1>0, <1>4, <1>5, <1>6, <1>7, <1>8 DEF AsTwo, Differ

\* A region becomes two chunks in use, as split_off begins.
LEMMA SplitIs ==
    ASSUME NEW mem, NEW ft, NEW lo, NEW hi, Spot(mem, ft, lo, hi), NEW mid, Parted(lo, mid, hi),
           Differ(hi, ft), Wide(mid, hi),
           NEW a, NEW b, NEW c, NEW d,
           HeadIsSet(mem, a, lo, mid - lo, TRUE, mem[lo].pin),
           PinIsSet(a, b, mid),
           HeadIsSet(b, c, mid, hi - mid, TRUE, b[mid].pin),
           PinIsSet(c, d, hi)
    PROVE  AsTwo(mem, d, ft, lo, mid, hi, TRUE)
<1>0. /\ hi - lo \in Nat /\ lo + (hi - lo) = hi /\ lo \in Nat /\ hi \in Nat /\ lo < hi
      /\ lo \in DOMAIN mem /\ hi \in DOMAIN mem
      /\ DOMAIN mem \subseteq Nat /\ mem[hi] \in HeadType /\ mem[lo] \in HeadType
      /\ mem[lo].pin \in BOOLEAN /\ mem[hi].cin \in BOOLEAN
      /\ mid \in Nat /\ lo < mid /\ mid < hi /\ mid - lo \in Nat /\ hi - mid \in Nat
      /\ lo + (mid - lo) = mid /\ mid + (hi - mid) = hi
  BY DEF Spot, HeadType, Parted
<1>1. /\ DOMAIN a = {q \in DOMAIN mem : q < lo \/ q >= mid} \cup {lo}
         /\ \A p \in DOMAIN a : p # lo => a[p] = mem[p]
      /\ a[lo].size = mid - lo /\ a[lo].cin = TRUE /\ a[lo].pin = mem[lo].pin
         /\ (~mem[lo].pin => a[lo].foot = mem[lo].foot) /\ a[lo] \in HeadType /\ hi \in DOMAIN a
         /\ a[hi] = mem[hi] /\ lo \in DOMAIN a
  <2>1. DOMAIN a = {q \in DOMAIN mem : q < lo \/ q >= mid} \cup {lo}
        /\ \A p \in DOMAIN a : p # lo => a[p] = mem[p]
    BY <1>0 DEF HeadIsSet
  <2>2. a[lo].size = mid - lo /\ a[lo].cin = TRUE /\ a[lo].pin = mem[lo].pin
        /\ (~mem[lo].pin => a[lo].foot = mem[lo].foot) /\ a[lo] \in HeadType
    BY <1>0 DEF HeadIsSet, HeadType, Chunk
  <2>3. hi \in DOMAIN a /\ a[hi] = mem[hi] /\ lo \in DOMAIN a
    BY <1>0, <2>1
  <2> QED BY <2>1, <2>2, <2>3
<1>2. /\ DOMAIN b = DOMAIN a \cup {mid} /\ \A p \in DOMAIN a : p # mid => b[p] = a[p]
      /\ b[lo] = a[lo] /\ b[hi] = mem[hi] /\ hi \in DOMAIN b /\ lo \in DOMAIN b /\ b[mid].pin = TRUE
      /\ mid \in DOMAIN b /\ b[mid].foot = 0
  <2>1. DOMAIN b = DOMAIN a \cup {mid} /\ \A p \in DOMAIN a : p # mid => b[p] = a[p]
    BY <1>0 DEF PinIsSet
  <2>2. b[mid].pin = TRUE /\ b[mid].foot = 0
    BY <1>0, <1>1 DEF PinIsSet, HeadType, Chunk
  <2>3. b[lo] = a[lo] /\ b[hi] = mem[hi] /\ hi \in DOMAIN b /\ lo \in DOMAIN b /\ mid \in DOMAIN b
    BY <1>0, <1>1, <2>1
  <2> QED BY <2>1, <2>2, <2>3
<1>3. /\ DOMAIN c = {q \in DOMAIN b : q < mid \/ q >= hi} \cup {mid}
         /\ \A p \in DOMAIN c : p # mid => c[p] = b[p]
      /\ c[mid].size = hi - mid /\ c[mid].cin = TRUE /\ c[mid].pin = TRUE /\ c[mid] \in HeadType
      /\ hi \in DOMAIN c /\ c[hi] = mem[hi] /\ lo \in DOMAIN c /\ c[lo] = a[lo]
  <2>1. DOMAIN c = {q \in DOMAIN b : q < mid \/ q >= hi} \cup {mid}
        /\ \A p \in DOMAIN c : p # mid => c[p] = b[p]
    BY <1>0 DEF HeadIsSet
  <2>4. c[mid] = Chunk(hi - mid, TRUE, TRUE, 0)
    BY <1>0, <1>1, <1>2 DEF HeadIsSet, Chunk
  <2>2. c[mid].size = hi - mid /\ c[mid].cin = TRUE /\ c[mid].pin = TRUE /\ c[mid] \in HeadType
    BY <1>0, <2>4 DEF HeadType, Chunk
  <2>3. hi \in DOMAIN c /\ c[hi] = mem[hi] /\ lo \in DOMAIN c /\ c[lo] = a[lo]
    BY <1>0, <1>1, <1>2, <2>1
  <2> QED BY <2>1, <2>2, <2>3
<1>4. /\ DOMAIN d = DOMAIN c \cup {hi} /\ \A p \in DOMAIN c : p # hi => d[p] = c[p]
      /\ d[hi].pin = TRUE /\ d[hi].size = mem[hi].size /\ d[hi].cin = mem[hi].cin /\ d[hi] \in HeadType
      /\ d[lo] = a[lo] /\ d[mid] = c[mid]
  <2>1. DOMAIN d = DOMAIN c \cup {hi} /\ \A p \in DOMAIN c : p # hi => d[p] = c[p]
    BY <1>0 DEF PinIsSet
  <2>4. d[hi] = Chunk(mem[hi].size, mem[hi].cin, TRUE, 0)
    BY <1>0, <1>1, <1>2, <1>3 DEF PinIsSet
  <2>2. d[hi].pin = TRUE /\ d[hi].size = mem[hi].size /\ d[hi].cin = mem[hi].cin /\ d[hi] \in HeadType
    BY <1>0, <2>4 DEF HeadType, Chunk
  <2>3. d[lo] = a[lo] /\ d[mid] = c[mid]
    BY <1>0, <1>1, <1>2, <1>3, <2>1
  <2> QED BY <2>1, <2>2, <2>3
<1>5. Renewed(mem, d, ft, lo, hi, {lo, mid})
  <2>1. DOMAIN d = (DOMAIN mem \ Inner(mem, lo, hi)) \cup {lo, mid}
    BY <1>0, <1>1, <1>2, <1>3, <1>4 DEF Inner
  <2>2. ASSUME NEW p \in DOMAIN mem, p < lo \/ hi < p PROVE d[p] = mem[p]
    <3>1. p \in Nat /\ p # lo /\ p # hi /\ p # mid /\ (p < lo \/ p >= mid) /\ (p < mid \/ p >= hi)
      BY <1>0, <2>2
    <3>2. p \in DOMAIN a /\ p \in DOMAIN b /\ p \in DOMAIN c /\ p \in DOMAIN d
      BY <3>1, <1>1, <1>2, <1>3, <1>4
    <3> QED BY <3>1, <3>2, <1>1, <1>2, <1>3, <1>4
  <2> QED BY <2>1, <2>2 DEF Renewed
<1>6. Piece(d[lo], mid - lo, TRUE, mem[lo].pin, mem[lo].foot)
  BY <1>0, <1>1, <1>2, <1>3, <1>4 DEF Piece, HeadType
<1>7. Piece(d[mid], hi - mid, TRUE, TRUE, 0)
  BY <1>0, <1>1, <1>2, <1>3, <1>4 DEF Piece, HeadType
<1>8. Piece(d[hi], mem[hi].size, mem[hi].cin, TRUE, hi - mid)
  BY <1>0, <1>1, <1>2, <1>3, <1>4 DEF Piece, HeadType
<1>9. mid \in Nat /\ lo + MIN_CHUNK_SIZE <= mid /\ mid < hi /\ (hi = ft \/ mid + MIN_CHUNK_SIZE <= hi)
  BY <1>0 DEF Parted, Wide, MIN_CHUNK_SIZE
<1> QED BY <1>0, <1>5, <1>6, <1>7, <1>8, <1>9 DEF AsTwo, Differ

\* Writing what is there changes nothing.
LEMMA SameAgain ==
    ASSUME NEW m, DOMAIN m = Fields, NEW n, SameButMem(m, n), NEW r, SameButMem(n, r)
    PROVE  SameButMem(m, r) /\ DOMAIN n = Fields
BY DEF SameButMem

\* set_inuse as writes to heads.
LEMMA InuseSet ==
    ASSUME NEW m, DOMAIN m = Fields, NEW p, NEW s
    PROVE  /\ SameButMem(m, set_inuse(m, p, s))
           /\ \E a : HeadIsSet(m.mem, a, p, s, TRUE, m.mem[p].pin)
              /\ PinIsSet(a, set_inuse(m, p, s).mem, p + s)
<1> DEFINE n == set_head(m, p, s, TRUE, m.mem[p].pin)
<1>1. SameButMem(m, n) /\ HeadIsSet(m.mem, n.mem, p, s, TRUE, m.mem[p].pin) /\ DOMAIN n = Fields
  <2>1. SameButMem(m, n) /\ HeadIsSet(m.mem, n.mem, p, s, TRUE, m.mem[p].pin)
    BY HeadSet
  <2> QED BY <2>1 DEF SameButMem
<1>2. set_inuse(m, p, s) = set_pinuse(n, p + s)
  BY DEF set_inuse
<1> HIDE DEF n
<1>3. SameButMem(n, set_pinuse(n, p + s)) /\ PinIsSet(n.mem, set_pinuse(n, p + s).mem, p + s)
  BY <1>1, PinSet
<1>4. SameButMem(m, set_inuse(m, p, s))
  BY <1>1, <1>2, <1>3, SameAgain
<1> QED BY <1>1, <1>2, <1>3, <1>4

\* set_inuse_and_pinuse as writes to heads.
LEMMA InuseAndPinuseSet ==
    ASSUME NEW m, DOMAIN m = Fields, NEW p, NEW s
    PROVE  /\ SameButMem(m, set_inuse_and_pinuse(m, p, s))
           /\ \E a : HeadIsSet(m.mem, a, p, s, TRUE, TRUE)
              /\ PinIsSet(a, set_inuse_and_pinuse(m, p, s).mem, p + s)
<1> DEFINE n == set_head(m, p, s, TRUE, TRUE)
<1>1. SameButMem(m, n) /\ HeadIsSet(m.mem, n.mem, p, s, TRUE, TRUE) /\ DOMAIN n = Fields
  <2>1. SameButMem(m, n) /\ HeadIsSet(m.mem, n.mem, p, s, TRUE, TRUE)
    BY HeadSet
  <2> QED BY <2>1 DEF SameButMem
<1>2. set_inuse_and_pinuse(m, p, s) = set_pinuse(n, p + s)
  BY DEF set_inuse_and_pinuse
<1> HIDE DEF n
<1>3. SameButMem(n, set_pinuse(n, p + s)) /\ PinIsSet(n.mem, set_pinuse(n, p + s).mem, p + s)
  BY <1>1, PinSet
<1>4. SameButMem(m, set_inuse_and_pinuse(m, p, s))
  BY <1>1, <1>2, <1>3, SameAgain
<1> QED BY <1>1, <1>2, <1>3, <1>4

\* set_size_and_pinuse_of_inuse_chunk as a write to a head.
LEMMA InuseHeadSet ==
    ASSUME NEW m, DOMAIN m = Fields, NEW p, NEW s
    PROVE  /\ SameButMem(m, set_size_and_pinuse_of_inuse_chunk(m, p, s))
           /\ HeadIsSet(m.mem, set_size_and_pinuse_of_inuse_chunk(m, p, s).mem, p, s, TRUE, TRUE)
BY HeadSet DEF set_size_and_pinuse_of_inuse_chunk

\* set_size_and_pinuse_of_free_chunk as writes to heads.
LEMMA FreeSet ==
    ASSUME NEW m, DOMAIN m = Fields, NEW p, NEW s
    PROVE  /\ SameButMem(m, set_size_and_pinuse_of_free_chunk(m, p, s))
           /\ \E a : /\ HeadIsSet(m.mem, a, p, s, FALSE, TRUE)
                     /\ FootIsSet(a, set_size_and_pinuse_of_free_chunk(m, p, s).mem, p + s, s)
<1> DEFINE n == set_head(m, p, s, FALSE, TRUE)
<1>1. SameButMem(m, n) /\ HeadIsSet(m.mem, n.mem, p, s, FALSE, TRUE) /\ DOMAIN n = Fields
  <2>1. SameButMem(m, n) /\ HeadIsSet(m.mem, n.mem, p, s, FALSE, TRUE)
    BY HeadSet
  <2> QED BY <2>1 DEF SameButMem
<1>2. set_size_and_pinuse_of_free_chunk(m, p, s) = set_foot(n, p, s)
  BY DEF set_size_and_pinuse_of_free_chunk
<1> HIDE DEF n
<1>3. SameButMem(n, set_foot(n, p, s)) /\ FootIsSet(n.mem, set_foot(n, p, s).mem, p + s, s)
  BY <1>1, FootSet
<1>4. SameButMem(m, set_size_and_pinuse_of_free_chunk(m, p, s))
  BY <1>1, <1>2, <1>3, SameAgain
<1> QED BY <1>1, <1>2, <1>3, <1>4

\* The top of a heap is set.
WithTop(m, p, s) == [m EXCEPT !.top = p, !.topsize = s]

\* Only the top changes.
LEMMA WithTopIs ==
    ASSUME NEW m, DOMAIN m = Fields, NEW p, NEW s
    PROVE  LET n == WithTop(m, p, s) IN
           /\ DOMAIN n = Fields /\ n.mem = m.mem /\ n.top = p /\ n.topsize = s
           /\ n.smallmap = m.smallmap /\ n.treemap = m.treemap /\ n.smallbins = m.smallbins
           /\ n.treebins = m.treebins /\ n.dv = m.dv /\ n.dvsize = m.dvsize
           /\ n.least_addr = m.least_addr /\ n.seg = m.seg
BY DEF WithTop, Fields

\* set_top as writes to a head and to the state.
LEMMA TopSet ==
    ASSUME NEW m, DOMAIN m = Fields, NEW p, NEW s
    PROVE  /\ SameButMem(WithTop(m, p, s), set_top(m, p, s))
           /\ HeadIsSet(m.mem, set_top(m, p, s).mem, p, s, FALSE, TRUE)
<1>1. set_top(m, p, s) = set_head(WithTop(m, p, s), p, s, FALSE, TRUE)
  BY DEF set_top, WithTop
<1>2. DOMAIN WithTop(m, p, s) = Fields /\ WithTop(m, p, s).mem = m.mem
  BY WithTopIs
<1>3. /\ SameButMem(WithTop(m, p, s), set_head(WithTop(m, p, s), p, s, FALSE, TRUE))
      /\ HeadIsSet(WithTop(m, p, s).mem, set_head(WithTop(m, p, s), p, s, FALSE, TRUE).mem, p, s, FALSE, TRUE)
  BY <1>2, HeadSet
<1> QED BY <1>1, <1>2, <1>3

Spans(lo, s, hi) == s = hi - lo /\ lo + s = hi

\* A region that is set free is one free chunk.
LEMMA SetFree ==
    ASSUME NEW m, DOMAIN m = Fields, NEW ft, NEW lo, NEW hi, NEW s, Spot(m.mem, ft, lo, hi),
           Spans(lo, s, hi),
           Differ(hi, ft), m.mem[lo].pin, m.mem[hi].cin, Wide(lo, hi)
    PROVE  LET r == set_free_with_pinuse(m, lo, s, hi) IN SameButMem(m, r) /\ AsOne(m.mem, r.mem, ft, lo, hi, FALSE)
<1> DEFINE a == clear_pinuse(m, hi)
           r == set_size_and_pinuse_of_free_chunk(a, lo, s)
<1>1. SameButMem(m, a) /\ PinIsCleared(m.mem, a.mem, hi) /\ DOMAIN a = Fields
  <2>1. SameButMem(m, a) /\ PinIsCleared(m.mem, a.mem, hi)
    BY PinCleared
  <2> QED BY <2>1 DEF SameButMem
<1>2. set_free_with_pinuse(m, lo, s, hi) = r
  BY DEF set_free_with_pinuse
<1> HIDE DEF a
<1>3. SameButMem(a, r) /\ \E b : HeadIsSet(a.mem, b, lo, s, FALSE, TRUE)
      /\ FootIsSet(b, r.mem, lo + s, s)
  BY <1>1, FreeSet
<1> HIDE DEF r
<1>4. PICK b : HeadIsSet(a.mem, b, lo, hi - lo, FALSE, TRUE) /\ FootIsSet(b, r.mem, hi, hi - lo)
  BY <1>3 DEF Spans
<1>5. AsOne(m.mem, r.mem, ft, lo, hi, FALSE)
  BY <1>1, <1>4, FreedIs
<1>6. SameButMem(m, r)
  BY <1>1, <1>3, SameAgain
<1> QED BY <1>2, <1>5, <1>6

\* A region that is merged is one free chunk.
LEMMA SetMerged ==
    ASSUME NEW m, DOMAIN m = Fields, NEW ft, NEW lo, NEW hi, NEW s, Spot(m.mem, ft, lo, hi),
           Spans(lo, s, hi),
           Differ(hi, ft), m.mem[lo].pin, m.mem[hi].cin, ~m.mem[hi].pin, Wide(lo, hi)
    PROVE  LET r == set_size_and_pinuse_of_free_chunk(m, lo, s) IN
           SameButMem(m, r) /\ AsOne(m.mem, r.mem, ft, lo, hi, FALSE)
<1> DEFINE r == set_size_and_pinuse_of_free_chunk(m, lo, s)
<1>3. SameButMem(m, r) /\ \E b : HeadIsSet(m.mem, b, lo, s, FALSE, TRUE)
      /\ FootIsSet(b, r.mem, lo + s, s)
  BY FreeSet
<1> HIDE DEF r
<1>4. PICK b : HeadIsSet(m.mem, b, lo, hi - lo, FALSE, TRUE) /\ FootIsSet(b, r.mem, hi, hi - lo)
  BY <1>3 DEF Spans
<1>5. AsOne(m.mem, r.mem, ft, lo, hi, FALSE)
  BY <1>4, MergedIs
<1> QED BY <1>3, <1>5 DEF r

\* A region that is set as top is the top.
LEMMA SetTop ==
    ASSUME NEW m, DOMAIN m = Fields, NEW lo, NEW hi, NEW s, Spot(m.mem, hi, lo, hi), Spans(lo, s, hi),
           m.mem[lo].pin
    PROVE  LET r == set_top(m, lo, s) IN SameButMem(WithTop(m, lo, s), r) /\ AsOne(m.mem, r.mem, hi, lo, hi, FALSE)
<1> DEFINE r == set_top(m, lo, s)
<1>1. SameButMem(WithTop(m, lo, s), r) /\ HeadIsSet(m.mem, r.mem, lo, s, FALSE, TRUE)
  BY TopSet
<1> HIDE DEF r
<1>2. HeadIsSet(m.mem, r.mem, lo, hi - lo, FALSE, TRUE)
  BY <1>1 DEF Spans
<1>3. AsOne(m.mem, r.mem, hi, lo, hi, FALSE)
  BY <1>2, ToppedIs
<1> QED BY <1>1, <1>3 DEF r

\* A region that is taken is one chunk in use.
LEMMA SetInuse ==
    ASSUME NEW m, DOMAIN m = Fields, NEW ft, NEW lo, NEW hi, NEW s, Spot(m.mem, ft, lo, hi),
           Spans(lo, s, hi),
           Differ(hi, ft), Wide(lo, hi)
    PROVE  LET r == set_inuse(m, lo, s) IN SameButMem(m, r) /\ AsOne(m.mem, r.mem, ft, lo, hi, TRUE)
<1> DEFINE r == set_inuse(m, lo, s)
<1>3. SameButMem(m, r) /\ \E b : HeadIsSet(m.mem, b, lo, s, TRUE, m.mem[lo].pin)
      /\ PinIsSet(b, r.mem, lo + s)
  BY InuseSet
<1> HIDE DEF r
<1>4. PICK b : HeadIsSet(m.mem, b, lo, hi - lo, TRUE, m.mem[lo].pin) /\ PinIsSet(b, r.mem, hi)
  BY <1>3 DEF Spans
<1>5. AsOne(m.mem, r.mem, ft, lo, hi, TRUE)
  BY <1>4, TakenIs
<1> QED BY <1>3, <1>5 DEF r

\* So is one that is taken with set_inuse_and_pinuse.
LEMMA SetInuseAndPinuse ==
    ASSUME NEW m, DOMAIN m = Fields, NEW ft, NEW lo, NEW hi, NEW s, Spot(m.mem, ft, lo, hi),
           Spans(lo, s, hi),
           Differ(hi, ft), Wide(lo, hi), m.mem[lo].pin
    PROVE  LET r == set_inuse_and_pinuse(m, lo, s) IN SameButMem(m, r) /\ AsOne(m.mem, r.mem, ft, lo, hi, TRUE)
<1> DEFINE r == set_inuse_and_pinuse(m, lo, s)
<1>3. SameButMem(m, r) /\ \E b : HeadIsSet(m.mem, b, lo, s, TRUE, TRUE) /\ PinIsSet(b, r.mem, lo + s)
  BY InuseAndPinuseSet
<1> HIDE DEF r
<1>4. m.mem[lo].pin = TRUE
  <2>1. m.mem[lo].pin \in BOOLEAN
    BY DEF Spot, HeadType
  <2> QED BY <2>1
<1>5. PICK b : HeadIsSet(m.mem, b, lo, hi - lo, TRUE, m.mem[lo].pin) /\ PinIsSet(b, r.mem, hi)
  BY <1>3, <1>4 DEF Spans
<1>6. AsOne(m.mem, r.mem, ft, lo, hi, TRUE)
  BY <1>5, TakenIs
<1> QED BY <1>3, <1>6 DEF r

\* A region whose front is taken is a chunk in use and a free one.
LEMMA SetDivided ==
    ASSUME NEW m, DOMAIN m = Fields, NEW ft, NEW lo, NEW mid, NEW hi, NEW s1, NEW s2,
           Spot(m.mem, ft, lo, hi),
           Parted(lo, mid, hi), Spans(lo, s1, mid), Spans(mid, s2, hi),
           Differ(hi, ft), m.mem[lo].pin, m.mem[hi].cin, ~m.mem[hi].pin, Wide(mid, hi)
    PROVE  LET r == set_size_and_pinuse_of_free_chunk(set_size_and_pinuse_of_inuse_chunk(m, lo, s1), mid, s2) IN
           SameButMem(m, r) /\ AsTwo(m.mem, r.mem, ft, lo, mid, hi, FALSE)
<1> DEFINE a == set_size_and_pinuse_of_inuse_chunk(m, lo, s1)
           r == set_size_and_pinuse_of_free_chunk(a, mid, s2)
<1>1. SameButMem(m, a) /\ HeadIsSet(m.mem, a.mem, lo, s1, TRUE, TRUE) /\ DOMAIN a = Fields
  <2>1. SameButMem(m, a) /\ HeadIsSet(m.mem, a.mem, lo, s1, TRUE, TRUE)
    BY InuseHeadSet
  <2> QED BY <2>1 DEF SameButMem
<1> HIDE DEF a
<1>2. SameButMem(a, r) /\ \E b : HeadIsSet(a.mem, b, mid, s2, FALSE, TRUE)
      /\ FootIsSet(b, r.mem, mid + s2, s2)
  BY <1>1, FreeSet
<1> HIDE DEF r
<1>3. HeadIsSet(m.mem, a.mem, lo, mid - lo, TRUE, TRUE)
  BY <1>1 DEF Spans
<1>4. PICK b : HeadIsSet(a.mem, b, mid, hi - mid, FALSE, TRUE) /\ FootIsSet(b, r.mem, hi, hi - mid)
  BY <1>2 DEF Spans
<1>5. AsTwo(m.mem, r.mem, ft, lo, mid, hi, FALSE)
  BY <1>3, <1>4, DividedIs
<1>6. SameButMem(m, r)
  BY <1>1, <1>2, SameAgain
<1> QED BY <1>5, <1>6 DEF r, a

\* So is dv when split_dv has taken its front.
LEMMA SetDvDivided ==
    ASSUME NEW m, DOMAIN m = Fields, NEW ft, NEW lo, NEW mid, NEW hi, NEW s1, NEW s2,
           Spot(m.mem, ft, lo, hi),
           Parted(lo, mid, hi), Spans(lo, s1, mid), Spans(mid, s2, hi),
           Differ(hi, ft), m.mem[lo].pin, m.mem[hi].cin, ~m.mem[hi].pin, Wide(mid, hi)
    PROVE  LET r == set_size_and_pinuse_of_inuse_chunk(set_size_and_pinuse_of_free_chunk(m, mid, s2), lo, s1) IN
           SameButMem(m, r) /\ AsTwo(m.mem, r.mem, ft, lo, mid, hi, FALSE)
<1> DEFINE a == set_size_and_pinuse_of_free_chunk(m, mid, s2)
           r == set_size_and_pinuse_of_inuse_chunk(a, lo, s1)
<1>1. SameButMem(m, a) /\ DOMAIN a = Fields /\ \E b : HeadIsSet(m.mem, b, mid, s2, FALSE, TRUE)
      /\ FootIsSet(b, a.mem, mid + s2, s2)
  <2>1. SameButMem(m, a) /\ \E b : HeadIsSet(m.mem, b, mid, s2, FALSE, TRUE)
        /\ FootIsSet(b, a.mem, mid + s2, s2)
    BY FreeSet
  <2> QED BY <2>1 DEF SameButMem
<1> HIDE DEF a
<1>2. SameButMem(a, r) /\ HeadIsSet(a.mem, r.mem, lo, s1, TRUE, TRUE)
  BY <1>1, InuseHeadSet
<1> HIDE DEF r
<1>3. HeadIsSet(a.mem, r.mem, lo, mid - lo, TRUE, TRUE)
  BY <1>2 DEF Spans
<1>4. PICK b : HeadIsSet(m.mem, b, mid, hi - mid, FALSE, TRUE) /\ FootIsSet(b, a.mem, hi, hi - mid)
  BY <1>1 DEF Spans
<1>5. AsTwo(m.mem, r.mem, ft, lo, mid, hi, FALSE)
  BY <1>3, <1>4, DvDividedIs
<1>6. SameButMem(m, r)
  BY <1>1, <1>2, SameAgain
<1> QED BY <1>5, <1>6 DEF r, a

\* So is top when split_top has taken its front.
LEMMA SetTopDivided ==
    ASSUME NEW m, DOMAIN m = Fields, NEW lo, NEW mid, NEW hi, NEW s1, NEW s2, Spot(m.mem, hi, lo, hi),
           Parted(lo, mid, hi), Spans(lo, s1, mid), Spans(mid, s2, hi), m.mem[lo].pin
    PROVE  LET r == set_size_and_pinuse_of_inuse_chunk(set_top(m, mid, s2), lo, s1) IN
           SameButMem(WithTop(m, mid, s2), r) /\ AsTwo(m.mem, r.mem, hi, lo, mid, hi, FALSE)
<1> DEFINE w == WithTop(m, mid, s2)
           a == set_top(m, mid, s2)
           r == set_size_and_pinuse_of_inuse_chunk(a, lo, s1)
<1>0. DOMAIN w = Fields
  BY WithTopIs
<1>1. SameButMem(w, a) /\ DOMAIN a = Fields /\ HeadIsSet(m.mem, a.mem, mid, s2, FALSE, TRUE)
  <2>1. SameButMem(w, a) /\ HeadIsSet(m.mem, a.mem, mid, s2, FALSE, TRUE)
    BY TopSet
  <2> HIDE DEF w, a
  <2> QED BY <1>0, <2>1 DEF SameButMem
<1> HIDE DEF a, w
<1>2. SameButMem(a, r) /\ HeadIsSet(a.mem, r.mem, lo, s1, TRUE, TRUE)
  BY <1>1, InuseHeadSet
<1> HIDE DEF r
<1>3. HeadIsSet(a.mem, r.mem, lo, mid - lo, TRUE, TRUE)
  BY <1>2 DEF Spans
<1>4. HeadIsSet(m.mem, a.mem, mid, hi - mid, FALSE, TRUE)
  BY <1>1 DEF Spans
<1>5. AsTwo(m.mem, r.mem, hi, lo, mid, hi, FALSE)
  BY <1>3, <1>4, TopDividedIs
<1>6. SameButMem(w, r)
  BY <1>0, <1>1, <1>2, SameAgain
<1> QED BY <1>5, <1>6 DEF r, a, w

\* A chunk in use that grows, and the free one behind it.
LEMMA SetGrown ==
    ASSUME NEW m, DOMAIN m = Fields, NEW ft, NEW lo, NEW mid, NEW hi, NEW s1, NEW s2,
           Spot(m.mem, ft, lo, hi),
           Parted(lo, mid, hi), Spans(lo, s1, mid), Spans(mid, s2, hi),
           Differ(hi, ft), m.mem[hi].cin, ~m.mem[hi].pin, Wide(mid, hi)
    PROVE  LET r == set_size_and_pinuse_of_free_chunk(set_inuse(m, lo, s1), mid, s2) IN
           SameButMem(m, r) /\ AsTwo(m.mem, r.mem, ft, lo, mid, hi, FALSE)
<1> DEFINE a == set_inuse(m, lo, s1)
           r == set_size_and_pinuse_of_free_chunk(a, mid, s2)
<1>1. SameButMem(m, a) /\ DOMAIN a = Fields /\ \E b : HeadIsSet(m.mem, b, lo, s1, TRUE, m.mem[lo].pin)
      /\ PinIsSet(b, a.mem, lo + s1)
  <2>1. SameButMem(m, a) /\ \E b : HeadIsSet(m.mem, b, lo, s1, TRUE, m.mem[lo].pin)
        /\ PinIsSet(b, a.mem, lo + s1)
    BY InuseSet
  <2> QED BY <2>1 DEF SameButMem
<1> HIDE DEF a
<1>2. SameButMem(a, r) /\ \E b : HeadIsSet(a.mem, b, mid, s2, FALSE, TRUE)
      /\ FootIsSet(b, r.mem, mid + s2, s2)
  BY <1>1, FreeSet
<1> HIDE DEF r
<1>3. PICK b : HeadIsSet(m.mem, b, lo, mid - lo, TRUE, m.mem[lo].pin) /\ PinIsSet(b, a.mem, mid)
  BY <1>1 DEF Spans
<1>4. PICK c : HeadIsSet(a.mem, c, mid, hi - mid, FALSE, TRUE) /\ FootIsSet(c, r.mem, hi, hi - mid)
  BY <1>2 DEF Spans
<1>5. AsTwo(m.mem, r.mem, ft, lo, mid, hi, FALSE)
  BY <1>3, <1>4, GrownIs
<1>6. SameButMem(m, r)
  BY <1>1, <1>2, SameAgain
<1> QED BY <1>5, <1>6 DEF r, a

\* A chunk in use that grows into top, and the new top.
LEMMA SetGrownToTop ==
    ASSUME NEW m, DOMAIN m = Fields, NEW lo, NEW mid, NEW hi, NEW s1, NEW s2, Spot(m.mem, hi, lo, hi),
           Parted(lo, mid, hi), Spans(lo, s1, mid), Spans(mid, s2, hi)
    PROVE  LET r == set_top(set_inuse(m, lo, s1), mid, s2) IN
           SameButMem(WithTop(m, mid, s2), r) /\ AsTwo(m.mem, r.mem, hi, lo, mid, hi, FALSE)
<1> DEFINE a == set_inuse(m, lo, s1)
           r == set_top(a, mid, s2)
<1>1. SameButMem(m, a) /\ DOMAIN a = Fields /\ \E b : HeadIsSet(m.mem, b, lo, s1, TRUE, m.mem[lo].pin)
      /\ PinIsSet(b, a.mem, lo + s1)
  <2>1. SameButMem(m, a) /\ \E b : HeadIsSet(m.mem, b, lo, s1, TRUE, m.mem[lo].pin)
        /\ PinIsSet(b, a.mem, lo + s1)
    BY InuseSet
  <2> QED BY <2>1 DEF SameButMem
<1> HIDE DEF a
<1>2. SameButMem(WithTop(a, mid, s2), r) /\ HeadIsSet(a.mem, r.mem, mid, s2, FALSE, TRUE)
  BY <1>1, TopSet
<1> HIDE DEF r
<1>3. PICK b : HeadIsSet(m.mem, b, lo, mid - lo, TRUE, m.mem[lo].pin) /\ PinIsSet(b, a.mem, mid)
  BY <1>1 DEF Spans
<1>4. HeadIsSet(a.mem, r.mem, mid, hi - mid, FALSE, TRUE)
  BY <1>2 DEF Spans
<1>5. AsTwo(m.mem, r.mem, hi, lo, mid, hi, FALSE)
  BY <1>3, <1>4, GrownToTopIs
<1>6. SameButMem(WithTop(m, mid, s2), WithTop(a, mid, s2))
  BY <1>1 DEF SameButMem, WithTop, Fields
<1>7. DOMAIN WithTop(m, mid, s2) = Fields
  BY WithTopIs
<1>8. SameButMem(WithTop(m, mid, s2), r)
  BY <1>2, <1>6, <1>7, SameAgain
<1> QED BY <1>5, <1>8 DEF r, a

\* A region that is cut is two chunks in use.
LEMMA SetCut ==
    ASSUME NEW m, DOMAIN m = Fields, NEW ft, NEW lo, NEW mid, NEW hi, NEW s1, NEW s2,
           Spot(m.mem, ft, lo, hi),
           Parted(lo, mid, hi), Spans(lo, s1, mid), Spans(mid, s2, hi), Differ(hi, ft), Wide(mid, hi)
    PROVE  LET r == set_inuse(set_inuse(m, lo, s1), mid, s2) IN
           SameButMem(m, r) /\ AsTwo(m.mem, r.mem, ft, lo, mid, hi, TRUE)
<1> DEFINE a == set_inuse(m, lo, s1)
           r == set_inuse(a, mid, s2)
<1>1. SameButMem(m, a) /\ DOMAIN a = Fields /\ \E b : HeadIsSet(m.mem, b, lo, s1, TRUE, m.mem[lo].pin)
      /\ PinIsSet(b, a.mem, lo + s1)
  <2>1. SameButMem(m, a) /\ \E b : HeadIsSet(m.mem, b, lo, s1, TRUE, m.mem[lo].pin)
        /\ PinIsSet(b, a.mem, lo + s1)
    BY InuseSet
  <2> QED BY <2>1 DEF SameButMem
<1> HIDE DEF a
<1>2. SameButMem(a, r) /\ \E b : HeadIsSet(a.mem, b, mid, s2, TRUE, a.mem[mid].pin)
      /\ PinIsSet(b, r.mem, mid + s2)
  BY <1>1, InuseSet
<1> HIDE DEF r
<1>3. PICK b : HeadIsSet(m.mem, b, lo, mid - lo, TRUE, m.mem[lo].pin) /\ PinIsSet(b, a.mem, mid)
  BY <1>1 DEF Spans
<1>4. PICK c : HeadIsSet(a.mem, c, mid, hi - mid, TRUE, a.mem[mid].pin) /\ PinIsSet(c, r.mem, hi)
  BY <1>2 DEF Spans
<1>5. AsTwo(m.mem, r.mem, ft, lo, mid, hi, TRUE)
  BY <1>3, <1>4, SplitIs
<1>6. SameButMem(m, r)
  BY <1>1, <1>2, SameAgain
<1> QED BY <1>5, <1>6 DEF r, a

------------------------------------------------------------------------------
(* Stretches of chunks and the kinds of what is in them.                      *)

\* The chunks I from lo to hi, none of which is a record.
Area(m, lo, hi, I) ==
    /\ Region(m.mem, Foot(m), lo, hi) /\ InOne(m.seg, lo, hi) /\ Inner(m.mem, lo, hi) = I
    /\ lo \in Nat \ {0} /\ hi \in Nat /\ lo < hi /\ hi <= MAX_SIZE_T

\* What it means that the memory is sound.
LEMMA LaidIs ==
    ASSUME NEW m, Laid(m)
    PROVE  /\ Tiled(m.mem, Foot(m)) /\ Foot(m) \in Nat /\ TopIs(m) /\ Segments(m) /\ FencesAreCounted(m)
           /\ m.top \in Nat /\ m.topsize \in Nat /\ Foot(m) = m.top + m.topsize
           /\ \A p \in DOMAIN m.mem : /\ p \in Nat \ {0} /\ m.mem[p] \in HeadType /\ m.mem[p].size \in Nat /\ m.mem[p].foot \in Nat
                                      /\ m.mem[p].cin \in BOOLEAN /\ m.mem[p].pin \in BOOLEAN
<1>1. Tiled(m.mem, Foot(m)) /\ Foot(m) \in Nat /\ TopIs(m) /\ Segments(m) /\ FencesAreCounted(m)
           /\ m.top \in Nat /\ m.topsize \in Nat /\ Foot(m) = m.top + m.topsize
  BY DEF Laid, TopIs, Foot
<1>2. \A p \in DOMAIN m.mem : p \in Nat \ {0} /\ m.mem[p] \in HeadType
  BY <1>1 DEF Tiled
<1> QED BY <1>1, <1>2 DEF HeadType

\* All of a segment is below the end of the memory.
LEMMA InOneFits ==
    ASSUME NEW m, Segments(m), NEW a, NEW b \in Nat, InOne(m.seg, a, b)
    PROVE  b < MemoryEnd /\ b <= MAX_SIZE_T
<1>1. PICK i \in DOMAIN m.seg : b < m.seg[i].base + m.seg[i].size
  BY DEF InOne
<1>2. m.seg[i].base + m.seg[i].size <= MemoryEnd /\ m.seg[i].base + m.seg[i].size \in Nat
  <2>1. m.seg[i].base + m.seg[i].size <= MemoryEnd
    BY DEF Segments
  <2> QED BY <2>1, SegmentIs
<1>3. MAX_SIZE_T \in Nat /\ MemoryEnd \in Nat /\ MemoryEnd <= MAX_SIZE_T
  BY MallocAssumption, SmallIs
<1> QED BY <1>1, <1>2, <1>3

\* A chunk that is no fencepost reaches the next head.
LEMMA ChunkIs ==
    ASSUME NEW m, Laid(m), NEW p \in DOMAIN m.mem \ {Foot(m)}, p \notin Fenced(m.mem)
    PROVE  LET n == p + m.mem[p].size IN
           /\ n \in DOMAIN m.mem /\ n \in Nat /\ p \in Nat \ {0} /\ p < n /\ n <= MAX_SIZE_T
           /\ InOne(m.seg, p, n) /\ m.mem[n].pin = m.mem[p].cin /\ Inner(m.mem, p, n) = {p}
           /\ ~(p <= Foot(m) /\ Foot(m) < n)
           /\ n # Foot(m) => m.mem[p].size >= MIN_CHUNK_SIZE
              /\ (~m.mem[p].cin => m.mem[n].foot = m.mem[p].size)
<1> DEFINE mem == m.mem
           ft == Foot(m)
           n == p + mem[p].size
<1>1. /\ Tiled(mem, ft) /\ ft \in Nat /\ Segments(m)
      /\ \A q \in DOMAIN mem : q \in Nat \ {0} /\ mem[q].size \in Nat
  BY LaidIs
<1>2. mem[p].size # 0
  BY DEF Fenced
<1>3. Sound(mem, ft, p)
  BY <1>1 DEF Tiled
<1>4. /\ n \in DOMAIN mem /\ mem[n].pin = mem[p].cin
      /\ n # ft => mem[p].size >= MIN_CHUNK_SIZE /\ (~mem[p].cin => mem[n].foot = mem[p].size)
      /\ \A a \in DOMAIN mem : a <= p \/ n <= a
  BY <1>2, <1>3 DEF Sound
<1>5. n \in Nat /\ p \in Nat \ {0} /\ p < n
  BY <1>1, <1>2
<1>6. InOne(m.seg, p, n)
  BY <1>1 DEF Segments
<1>7. n <= MAX_SIZE_T
  BY <1>1, <1>5, <1>6, InOneFits
<1>8. Inner(mem, p, n) = {p}
  BY <1>1, <1>4, <1>5 DEF Inner
<1>9. ~(p <= ft /\ ft < n)
  <2> SUFFICES ASSUME p <= ft, ft < n PROVE FALSE
    OBVIOUS
  <2>1. m.top # NULL
    BY <1>1 DEF Laid, TopIs
  <2>2. ft \in DOMAIN mem
    BY <2>1 DEF Laid, TopIs
  <2>3. ft <= p
    BY <1>1, <1>4, <1>5, <2>2
  <2>4. p = ft
    BY <1>1, <1>5, <2>3
  <2> QED BY <2>4
<1> QED BY <1>4, <1>5, <1>6, <1>7, <1>8, <1>9

\* A chunk is an area.
LEMMA ChunkArea ==
    ASSUME NEW m, Laid(m), NEW p \in DOMAIN m.mem \ {Foot(m)}, p \notin Fenced(m.mem),
           p \notin Records(m.mem)
    PROVE  Area(m, p, p + m.mem[p].size, {p})
<1> DEFINE n == p + m.mem[p].size
<1>1. /\ n \in DOMAIN m.mem /\ n \in Nat /\ p \in Nat \ {0} /\ p < n /\ n <= MAX_SIZE_T
      /\ InOne(m.seg, p, n) /\ Inner(m.mem, p, n) = {p} /\ ~(p <= Foot(m) /\ Foot(m) < n)
  BY ChunkIs
<1>2. Region(m.mem, Foot(m), p, n)
  BY <1>1 DEF Region
<1> QED BY <1>1, <1>2 DEF Area

\* An area and the one behind it are an area.
LEMMA AreaJoins ==
    ASSUME NEW m, Laid(m), NEW a, NEW b, NEW c, NEW I, NEW J, Area(m, a, b, I), Area(m, b, c, J)
    PROVE  Area(m, a, c, I \cup J)
<1>1. /\ a \in Nat \ {0} /\ b \in Nat /\ a < b /\ c \in Nat /\ b < c /\ c <= MAX_SIZE_T
      /\ InOne(m.seg, a, b) /\ InOne(m.seg, b, c) /\ Inner(m.mem, a, b) = I /\ Inner(m.mem, b, c) = J
      /\ Region(m.mem, Foot(m), a, b) /\ Region(m.mem, Foot(m), b, c)
  BY DEF Area
<1>2. Segments(m) /\ Foot(m) \in Nat /\ \A q \in DOMAIN m.mem : q \in Nat
  BY LaidIs
<1>3. InOne(m.seg, a, c)
  BY <1>1, <1>2, InOneJoins
<1>4. Inner(m.mem, a, c) = I \cup J
  BY <1>1, <1>2 DEF Inner
<1>5. Region(m.mem, Foot(m), a, c)
  BY <1>1, <1>2, <1>4 DEF Region
<1>6. a < c
  BY <1>1
<1> QED BY <1>1, <1>3, <1>4, <1>5, <1>6 DEF Area

\* A free chunk has a chunk in use before it, and behind it unless it is top.
LEMMA FreeIs ==
    ASSUME NEW m, Laid(m), NEW p \in Frees(m.mem, Foot(m))
    PROVE  LET n == p + m.mem[p].size IN
           /\ p \in DOMAIN m.mem \ {Foot(m)} /\ p \notin Fenced(m.mem) /\ p \notin Records(m.mem)
           /\ m.mem[p].pin /\ ~m.mem[p].cin /\ p \notin Used(m.mem)
           /\ n # Foot(m) => m.mem[n].cin /\ ~m.mem[n].pin
           /\ n = Foot(m) <=> p = m.top
           /\ m.top # NULL
<1> DEFINE mem == m.mem
           ft == Foot(m)
           n == p + mem[p].size
<1>1. /\ Tiled(mem, ft) /\ ft \in Nat
      /\ \A q \in DOMAIN mem : q \in Nat \ {0} /\ mem[q].size \in Nat /\ mem[q].cin \in BOOLEAN
         /\ mem[q].pin \in BOOLEAN
  BY LaidIs
<1>2. p \in DOMAIN mem \ {ft} /\ ~mem[p].cin
  BY DEF Frees
<1>3. Sound(mem, ft, p)
  BY <1>1, <1>2 DEF Tiled
<1>4. mem[p].pin /\ p \notin Fenced(mem)
  BY <1>2, <1>3 DEF Sound, Fenced, FENCEPOST, Chunk
<1>5. p \notin Records(mem)
  <2> SUFFICES ASSUME p + SEGMENT_SIZE \in Fenced(mem) PROVE FALSE
    BY DEF Records
  <2> DEFINE f == p + SEGMENT_SIZE
  <2>1. f \in DOMAIN mem /\ mem[f].size = 0 /\ f - SEGMENT_SIZE = p
    BY <1>1, <1>2 DEF Fenced, SEGMENT_SIZE
  <2>2. f # ft
    BY <2>1 DEF Laid, Tiled, FootHead, Chunk, TOP_FOOT_SIZE
  <2>3. Sound(mem, ft, f)
    BY <1>1, <2>1, <2>2 DEF Tiled
  <2> HIDE DEF f
  <2>4. mem[p].cin
    BY <2>1, <2>3 DEF Sound
  <2> QED BY <1>2, <2>4
<1>6. n \in DOMAIN mem /\ n \in Nat /\ p < n /\ mem[n].pin = mem[p].cin
  BY <1>2, <1>4, ChunkIs
<1>7. ASSUME n # ft PROVE mem[n].cin /\ ~mem[n].pin
  <2>1. Sound(mem, ft, n)
    BY <1>1, <1>6, <1>7 DEF Tiled
  <2> QED BY <1>2, <1>6, <2>1 DEF Sound
<1>8. m.top # NULL
  BY <1>2 DEF Laid, TopIs
<1>9. /\ m.top \in DOMAIN mem /\ mem[m.top].size = m.topsize /\ m.top + m.topsize = ft /\ m.topsize > 0
      /\ m.top \in Nat /\ m.topsize \in Nat
  BY <1>8 DEF Laid, TopIs, Foot
<1>10. n = ft <=> p = m.top
  <2>1. ASSUME p = m.top PROVE n = ft
    BY <1>9, <2>1
  <2>2. ASSUME n = ft, p < m.top PROVE FALSE
    <3>1. n <= m.top
      BY <1>1, <1>2, <1>9, <2>2, Apart
    <3> QED BY <1>1, <1>9, <2>2, <3>1
  <2>3. ASSUME n = ft, m.top < p PROVE FALSE
    <3>1. m.top + m.topsize <= p
      BY <1>1, <1>2, <1>9, <2>3, Apart
    <3> QED BY <1>1, <1>2, <1>6, <1>9, <2>3, <3>1
  <2> QED BY <1>1, <1>2, <1>9, <2>1, <2>2, <2>3
<1>11. p \notin Used(mem)
  BY <1>2 DEF Used
<1> QED BY <1>2, <1>4, <1>5, <1>7, <1>8, <1>10, <1>11

\* A chunk in use is none of the free ones.
LEMMA UsedIs ==
    ASSUME NEW m, Laid(m), NEW p \in Used(m.mem)
    PROVE  /\ p \in DOMAIN m.mem \ {Foot(m)} /\ p \notin Fenced(m.mem) /\ p \notin Records(m.mem)
           /\ m.mem[p].cin /\ p + m.mem[p].size # Foot(m) /\ m.mem[p + m.mem[p].size].pin
           /\ p \notin Frees(m.mem, Foot(m)) /\ m.mem[p].size >= MIN_CHUNK_SIZE
<1>1. p \in DOMAIN m.mem /\ m.mem[p].cin /\ p \notin Fenced(m.mem) /\ p \notin Records(m.mem)
  BY DEF Used
<1>2. Foot(m) \in DOMAIN m.mem => ~m.mem[Foot(m)].cin /\ ~m.mem[Foot(m)].pin
  BY DEF Laid, Tiled, FootHead, Chunk
<1>3. p # Foot(m) /\ p \notin Frees(m.mem, Foot(m))
  BY <1>1, <1>2 DEF Frees
<1>4. p + m.mem[p].size \in DOMAIN m.mem /\ m.mem[p + m.mem[p].size].pin = m.mem[p].cin
      /\ (p + m.mem[p].size # Foot(m) => m.mem[p].size >= MIN_CHUNK_SIZE)
  BY <1>1, <1>3, ChunkIs
<1>5. m.mem[p + m.mem[p].size].pin
  BY <1>1, <1>4
<1> QED BY <1>1, <1>2, <1>3, <1>4, <1>5

\* The chunk before one whose pin is clear.
LEMMA BackIs ==
    ASSUME NEW m, Laid(m), NEW p \in DOMAIN m.mem \ {Foot(m)}, ~m.mem[p].pin
    PROVE  LET q == p - m.mem[p].foot IN
           /\ q \in Frees(m.mem, Foot(m)) /\ q # m.top /\ m.mem[q].size = m.mem[p].foot
           /\ q + m.mem[q].size = p
           /\ q \in Nat /\ q < p
<1> DEFINE q == p - m.mem[p].foot
<1>1. Tiled(m.mem, Foot(m)) /\ \A r \in DOMAIN m.mem : r \in Nat \ {0} /\ m.mem[r].foot \in Nat
  BY LaidIs
<1>2. Sound(m.mem, Foot(m), p)
  BY <1>1 DEF Tiled
<1>3. /\ m.mem[p].foot # 0 /\ q \in DOMAIN m.mem /\ q # Foot(m) /\ ~m.mem[q].cin
      /\ m.mem[q].size = m.mem[p].foot
  BY <1>2 DEF Sound
<1>4. q \in Frees(m.mem, Foot(m))
  BY <1>3 DEF Frees
<1>5. q \in Nat /\ q + m.mem[q].size = p /\ q < p
  BY <1>1, <1>3
<1>6. q # m.top
  <2>1. q + m.mem[q].size = Foot(m) <=> q = m.top
    BY <1>4, FreeIs
  <2> QED BY <1>5, <2>1
<1> QED BY <1>3, <1>4, <1>5, <1>6

\* The top is a free chunk.
LEMMA TopIsFree ==
    ASSUME NEW m, Laid(m), m.top # NULL
    PROVE  /\ m.top \in Frees(m.mem, Foot(m)) /\ m.mem[m.top].size = m.topsize /\ m.mem[m.top].pin
           /\ m.top + m.topsize = Foot(m) /\ m.topsize \in Nat \ {0} /\ m.top \in Nat \ {0}
           /\ m.top # Foot(m)
           /\ Foot(m) \in DOMAIN m.mem
BY DEF Laid, TopIs, Foot, Frees, NULL

\* The chunks I become the free chunks F and the used ones U.
Turned(m, n, I, F, U) ==
    /\ Frees(n.mem, Foot(n)) = (Frees(m.mem, Foot(m)) \ I) \cup F
    /\ Used(n.mem) = (Used(m.mem) \ I) \cup U
    /\ \A a \in DOMAIN m.mem \ I : a \in DOMAIN n.mem /\ n.mem[a].size = m.mem[a].size
    /\ \A a \in F \cup U : a \in I \/ a \notin DOMAIN m.mem

\* The memory goes on where lo..hi was changed; top moves when hi is its foot.
Goes(m, n, hi, top) ==
    /\ n.seg = m.seg /\ n.least_addr = m.least_addr /\ Foot(n) = Foot(m) /\ n.top \in Nat
    /\ n.topsize \in Nat
    /\ IF hi = Foot(m) THEN n.top = top ELSE n.top = m.top

\* The sizes elsewhere stay.
LEMMA SizesStay ==
    ASSUME NEW mem, NEW mem2, NEW ft, NEW lo \in Nat, NEW hi \in Nat, NEW P,
           Renewed(mem, mem2, ft, lo, hi, P),
           DOMAIN mem \subseteq Nat, mem2[hi].size = mem[hi].size
    PROVE  \A a \in DOMAIN mem \ Inner(mem, lo, hi) : a \in DOMAIN mem2 /\ mem2[a].size = mem[a].size
<1> SUFFICES ASSUME NEW a \in DOMAIN mem \ Inner(mem, lo, hi) PROVE a \in DOMAIN mem2 /\ mem2[a].size = mem[a].size
  OBVIOUS
<1>1. a \in DOMAIN mem2
  BY DEF Renewed
<1>2. a \in Nat /\ ~(lo <= a /\ a < hi)
  BY DEF Inner
<1>3. CASE a = hi
  BY <1>1, <1>3
<1>4. CASE a # hi
  <2>1. a < lo \/ hi < a
    BY <1>2, <1>4
  <2>2. mem2[a] = mem[a]
    BY <2>1 DEF Renewed
  <2> QED BY <1>1, <2>2
<1> QED BY <1>3, <1>4

\* What one chunk in place of I makes of the memory.
LEMMA OneTurns ==
    ASSUME NEW m, Laid(m), NEW n, NEW lo, NEW hi, NEW I, Area(m, lo, hi, I), NEW c,
           AsOne(m.mem, n.mem, Foot(m), lo, hi, c), Goes(m, n, hi, lo)
    PROVE  /\ Laid(n) /\ n.mem[lo].size = hi - lo /\ Foot(n) = Foot(m)
           /\ c = FALSE => Turned(m, n, I, {lo}, {})
           /\ c = TRUE => Turned(m, n, I, {}, {lo})
<1>1. /\ Region(m.mem, Foot(m), lo, hi) /\ InOne(m.seg, lo, hi) /\ Inner(m.mem, lo, hi) = I
      /\ lo \in Nat /\ hi \in Nat
      /\ lo \in I /\ lo < hi
  BY DEF Area, Region, Inner
<1>2. Between(m, n, lo, hi) /\ (hi = Foot(m) => n.top = lo) /\ Foot(n) = Foot(m)
  BY <1>1 DEF Between, Goes
<1>3. /\ Laid(n)
      /\ c = FALSE => Kinds(m.mem, n.mem, Foot(m), lo, hi, {lo}, {})
      /\ c = TRUE => Kinds(m.mem, n.mem, Foot(m), lo, hi, {}, {lo})
  BY <1>2, OneLaid
<1>4. /\ n.mem[lo].size = hi - lo /\ n.mem[hi].size = m.mem[hi].size
      /\ Renewed(m.mem, n.mem, Foot(m), lo, hi, {lo})
  BY DEF AsOne, Piece
<1>5. DOMAIN m.mem \subseteq Nat
  BY LaidIs
<1>6. \A a \in DOMAIN m.mem \ I : a \in DOMAIN n.mem /\ n.mem[a].size = m.mem[a].size
  BY <1>1, <1>4, <1>5, SizesStay
<1>7. \A F, U : F \cup U = {lo} /\ Kinds(m.mem, n.mem, Foot(m), lo, hi, F, U) => Turned(m, n, I, F, U)
  BY <1>1, <1>2, <1>6 DEF Turned, Kinds
<1>8. {lo} \cup {} = {lo} /\ {} \cup {lo} = {lo}
  OBVIOUS
<1>9. (c = FALSE => Turned(m, n, I, {lo}, {})) /\ (c = TRUE => Turned(m, n, I, {}, {lo}))
  BY <1>3, <1>7, <1>8
<1> QED BY <1>2, <1>3, <1>4, <1>9

\* What two chunks in place of I make of the memory.
InTwo(m, n, lo, mid, hi, I, d) ==
    /\ Laid(n) /\ n.mem[lo].size = mid - lo /\ n.mem[mid].size = hi - mid /\ Foot(n) = Foot(m)
    /\ mid \in I \/ mid \notin DOMAIN m.mem
    /\ d = FALSE => Turned(m, n, I, {mid}, {lo})
    /\ d = TRUE => Turned(m, n, I, {}, {lo, mid})

LEMMA TwoTurns ==
    ASSUME NEW m, Laid(m), NEW n, NEW lo, NEW hi, NEW I, Area(m, lo, hi, I), NEW mid, NEW d,
           AsTwo(m.mem, n.mem, Foot(m), lo, mid, hi, d), Goes(m, n, hi, mid)
    PROVE  InTwo(m, n, lo, mid, hi, I, d)
<1>1. /\ Region(m.mem, Foot(m), lo, hi) /\ InOne(m.seg, lo, hi) /\ Inner(m.mem, lo, hi) = I
      /\ lo \in Nat /\ hi \in Nat
      /\ lo \in I /\ lo < hi
  BY DEF Area, Region, Inner
<1>2. Between(m, n, lo, hi) /\ (hi = Foot(m) => n.top = mid) /\ Foot(n) = Foot(m)
  BY <1>1 DEF Between, Goes
<1>3. /\ Laid(n)
      /\ d = FALSE => Kinds(m.mem, n.mem, Foot(m), lo, hi, {mid}, {lo})
      /\ d = TRUE => Kinds(m.mem, n.mem, Foot(m), lo, hi, {}, {lo, mid})
  BY <1>2, TwoLaid
<1>4. /\ n.mem[lo].size = mid - lo /\ n.mem[mid].size = hi - mid /\ n.mem[hi].size = m.mem[hi].size
      /\ Renewed(m.mem, n.mem, Foot(m), lo, hi, {lo, mid})
  BY DEF AsTwo, Piece
<1>5. DOMAIN m.mem \subseteq Nat
  BY LaidIs
<1>6. \A a \in DOMAIN m.mem \ I : a \in DOMAIN n.mem /\ n.mem[a].size = m.mem[a].size
  BY <1>1, <1>4, <1>5, SizesStay
<1>7. mid \in I \/ mid \notin DOMAIN m.mem
  <2>1. mid \in Nat /\ lo + MIN_CHUNK_SIZE <= mid /\ mid < hi
    BY DEF AsTwo
  <2>2. lo <= mid
    BY <1>1, <2>1 DEF MIN_CHUNK_SIZE
  <2> QED BY <1>1, <2>1, <2>2 DEF Inner
<1>8. \A F, U : F \cup U = {lo, mid}
      /\ Kinds(m.mem, n.mem, Foot(m), lo, hi, F, U) => Turned(m, n, I, F, U)
  BY <1>1, <1>2, <1>6, <1>7 DEF Turned, Kinds
<1>9. {mid} \cup {lo} = {lo, mid} /\ {} \cup {lo, mid} = {lo, mid}
  OBVIOUS
<1>10. (d = FALSE => Turned(m, n, I, {mid}, {lo})) /\ (d = TRUE => Turned(m, n, I, {}, {lo, mid}))
  BY <1>3, <1>8, <1>9
<1> QED BY <1>2, <1>3, <1>4, <1>7, <1>10 DEF InTwo

SameBins(m, n) ==
    /\ DOMAIN n = DOMAIN m /\ n.smallmap = m.smallmap /\ n.treemap = m.treemap
    /\ n.smallbins = m.smallbins /\ n.treebins = m.treebins

\* What the bins keep depends on the sizes of its chunks only.
LEMMA StoredStays ==
    ASSUME NEW m, NEW X, Stored(m, X), NEW n, SameBins(m, n)
    PROVE  Stored(n, X)
BY DEF SameBins, Stored, SmallStored, LargeStored

\* The free chunks that top and dv are not.
Bare(m, S) == Frees(m.mem, Foot(m)) \ ({m.top, m.dv} \cup S)

\* The bins keep the right chunks when what is free has changed with them.
LEMMA KeptTurns ==
    ASSUME NEW m, NEW X, NEW S, Kept(m, X, S), NEW n, NEW I, NEW F, NEW U, Turned(m, n, I, F, U),
           SameBins(m, n),
           NEW T, Bare(n, T) = Bare(m, S), Bare(m, S) \cap I = {}
    PROVE  Kept(n, X, T)
<1>1. DOMAIN X = Bare(m, S) /\ Shown(m, X) /\ Stored(m, X)
  BY DEF Kept, Bare
<1>2. ASSUME NEW p \in DOMAIN X PROVE chunksize(n, p) = X[p]
  <2>1. p \in DOMAIN m.mem \ I
    BY <1>1 DEF Bare, Frees
  <2>2. n.mem[p].size = m.mem[p].size
    BY <2>1 DEF Turned
  <2> QED BY <1>1, <2>2 DEF Shown, chunksize
<1>3. Stored(n, X)
  BY <1>1, StoredStays
<1> QED BY <1>1, <1>2, <1>3 DEF Kept, Bare, Shown

\* A chunk leaves the bins.
LEMMA KeptLeaves ==
    ASSUME NEW m, NEW X, NEW S, Kept(m, X, S), NEW p \in Bare(m, S)
    PROVE  LET n == unlink_chunk(m, p, m.mem[p].size) IN
           Kept(n, WithoutChunk(X, p), S \cup {p}) /\ SameButBins(m, n)
<1> DEFINE n == unlink_chunk(m, p, m.mem[p].size)
           Y == WithoutChunk(X, p)
<1>1. DOMAIN X = Bare(m, S) /\ Shown(m, X) /\ Stored(m, X)
  BY DEF Kept, Bare
<1>2. X[p] = m.mem[p].size
  BY <1>1 DEF Shown, chunksize
<1>3. Stored(n, Y) /\ SameButBins(m, n)
  BY <1>1, <1>2, ChunkLeaves
<1> HIDE DEF n
<1>4. n.mem = m.mem /\ n.top = m.top /\ n.topsize = m.topsize /\ n.dv = m.dv
  BY <1>3 DEF SameButBins
<1>5. DOMAIN Y = DOMAIN X \ {p} /\ \A q \in DOMAIN Y : Y[q] = X[q]
  BY DEF WithoutChunk
<1>6. Shown(n, Y)
  BY <1>1, <1>4, <1>5 DEF Shown, chunksize
<1>7. DOMAIN Y = Bare(n, S \cup {p})
  BY <1>1, <1>4, <1>5 DEF Bare, Foot
<1> QED BY <1>3, <1>6, <1>7 DEF Kept, Bare, n

\* A chunk joins the bins.
LEMMA KeptJoins ==
    ASSUME NEW m, NEW X, NEW S, Kept(m, X, S), NEW p \in S, p \in Frees(m.mem, Foot(m)),
           p \notin {m.top, m.dv},
           p \in Nat, m.mem[p].size \in MIN_CHUNK_SIZE..MAX_SIZE_T
    PROVE  LET n == insert_chunk(m, p, m.mem[p].size) IN
           Kept(n, With(X, p, m.mem[p].size), S \ {p}) /\ SameButBins(m, n)
<1> DEFINE s == m.mem[p].size
           n == insert_chunk(m, p, s)
           Y == With(X, p, s)
<1>1. DOMAIN X = Bare(m, S) /\ Shown(m, X) /\ Stored(m, X)
  BY DEF Kept, Bare
<1>2. p \notin DOMAIN X
  BY <1>1 DEF Bare
<1>3. Stored(n, Y) /\ SameButBins(m, n)
  <2>1. s \in MIN_CHUNK_SIZE..MAX_SIZE_T
    OBVIOUS
  <2> HIDE DEF s
  <2> QED BY <1>1, <1>2, <2>1, ChunkJoins
<1> HIDE DEF n
<1>4. n.mem = m.mem /\ n.top = m.top /\ n.topsize = m.topsize /\ n.dv = m.dv
  BY <1>3 DEF SameButBins
<1>5. DOMAIN Y = DOMAIN X \cup {p} /\ Y[p] = s /\ \A q \in DOMAIN X : Y[q] = X[q]
  BY <1>2 DEF With
<1>6. Shown(n, Y)
  BY <1>1, <1>4, <1>5 DEF Shown, chunksize
<1>7. DOMAIN Y = Bare(n, S \ {p})
  BY <1>1, <1>4, <1>5 DEF Bare, Foot
<1> QED BY <1>3, <1>6, <1>7 DEF Kept, Bare, n

\* The memory does not depend on the bins.
LEMMA LaidStays ==
    ASSUME NEW m, Laid(m), NEW n, n.mem = m.mem, n.top = m.top, n.topsize = m.topsize, n.seg = m.seg,
           n.least_addr = m.least_addr
    PROVE  Laid(n) /\ Foot(n) = Foot(m)
BY DEF Laid, TopIs, Segments, FencesAreCounted, Foot

\* Nor does a change of it.
LEMMA TurnedStays ==
    ASSUME NEW m, NEW n, NEW I, NEW F, NEW U, Turned(m, n, I, F, U), NEW r, r.mem = n.mem,
           Foot(r) = Foot(n)
    PROVE  Turned(m, r, I, F, U)
BY DEF Turned

\* The ways in which the chunks I from lo to hi change.
TurnsFree(m, n, lo, hi, I) ==
    Laid(n) /\ n.mem[lo].size = hi - lo /\ Foot(n) = Foot(m) /\ Turned(m, n, I, {lo}, {})

TurnsUsed(m, n, lo, hi, I) ==
    Laid(n) /\ n.mem[lo].size = hi - lo /\ Foot(n) = Foot(m) /\ Turned(m, n, I, {}, {lo})

TurnsDivided(m, n, lo, mid, hi, I) ==
    /\ Laid(n) /\ n.mem[lo].size = mid - lo /\ n.mem[mid].size = hi - mid /\ Foot(n) = Foot(m)
    /\ (mid \in I \/ mid \notin DOMAIN m.mem) /\ Turned(m, n, I, {mid}, {lo})

TurnsCut(m, n, lo, mid, hi, I) ==
    /\ Laid(n) /\ n.mem[lo].size = mid - lo /\ n.mem[mid].size = hi - mid /\ Foot(n) = Foot(m)
    /\ (mid \in I \/ mid \notin DOMAIN m.mem) /\ Turned(m, n, I, {}, {lo, mid})

\* One free chunk in place of I.
LEMMA OneFree ==
    ASSUME NEW m, Laid(m), NEW n, NEW lo, NEW hi, NEW I, Area(m, lo, hi, I),
           AsOne(m.mem, n.mem, Foot(m), lo, hi, FALSE), Goes(m, n, hi, lo)
    PROVE  TurnsFree(m, n, lo, hi, I)
<1> DEFINE c == FALSE
<1>1. c = FALSE /\ AsOne(m.mem, n.mem, Foot(m), lo, hi, c)
  OBVIOUS
<1> HIDE DEF c
<1>2. Laid(n) /\ n.mem[lo].size = hi - lo /\ Foot(n) = Foot(m)
      /\ (c = FALSE => Turned(m, n, I, {lo}, {}))
  BY <1>1, OneTurns
<1> QED BY <1>1, <1>2 DEF TurnsFree

\* One chunk in use in place of I.
LEMMA OneUsed ==
    ASSUME NEW m, Laid(m), NEW n, NEW lo, NEW hi, NEW I, Area(m, lo, hi, I),
           AsOne(m.mem, n.mem, Foot(m), lo, hi, TRUE), Goes(m, n, hi, lo)
    PROVE  TurnsUsed(m, n, lo, hi, I)
<1> DEFINE c == TRUE
<1>1. c = TRUE /\ AsOne(m.mem, n.mem, Foot(m), lo, hi, c)
  OBVIOUS
<1> HIDE DEF c
<1>2. Laid(n) /\ n.mem[lo].size = hi - lo /\ Foot(n) = Foot(m)
      /\ (c = TRUE => Turned(m, n, I, {}, {lo}))
  BY <1>1, OneTurns
<1> QED BY <1>1, <1>2 DEF TurnsUsed

\* A chunk in use and a free one in place of I.
LEMMA TwoDivided ==
    ASSUME NEW m, Laid(m), NEW n, NEW lo, NEW hi, NEW I, Area(m, lo, hi, I), NEW mid,
           AsTwo(m.mem, n.mem, Foot(m), lo, mid, hi, FALSE), Goes(m, n, hi, mid)
    PROVE  TurnsDivided(m, n, lo, mid, hi, I)
<1> DEFINE d == FALSE
<1>1. d = FALSE /\ AsTwo(m.mem, n.mem, Foot(m), lo, mid, hi, d)
  OBVIOUS
<1> HIDE DEF d
<1>2. InTwo(m, n, lo, mid, hi, I, d)
  BY <1>1, TwoTurns
<1> QED BY <1>1, <1>2 DEF TurnsDivided, InTwo

\* Two chunks in use in place of I.
LEMMA TwoCut ==
    ASSUME NEW m, Laid(m), NEW n, NEW lo, NEW hi, NEW I, Area(m, lo, hi, I), NEW mid,
           AsTwo(m.mem, n.mem, Foot(m), lo, mid, hi, TRUE), Goes(m, n, hi, mid)
    PROVE  TurnsCut(m, n, lo, mid, hi, I)
<1> DEFINE d == TRUE
<1>1. d = TRUE /\ AsTwo(m.mem, n.mem, Foot(m), lo, mid, hi, d)
  OBVIOUS
<1> HIDE DEF d
<1>2. InTwo(m, n, lo, mid, hi, I, d)
  BY <1>1, TwoTurns
<1> QED BY <1>1, <1>2 DEF TurnsCut, InTwo

================================================================================
