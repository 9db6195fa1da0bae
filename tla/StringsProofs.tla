----------------------------- MODULE StringsProofs -----------------------------
(* Proofs about Str and Strings, for any texts, capacities and sizes of memory. *)
EXTENDS Strings, SequenceTheorems, WellFoundedInduction, TLAPS

Text == Seq(Chars)

\* The strings there are: data point to what was written or are the null pointer.
Strs == [data : Text \cup {NoData}, size : Nat, step : Nat, len : Nat, error : BOOLEAN]
Proper == {s \in Strs : /\ s.error <=> s.data = NoData
                        /\ ~s.error => s.len <= Len(s.data)}

------------------------------------------------------------------------------
(* Induction over numbers, and what the folds of the community modules compute, *)
(* said with sets and functions: a step is a function of what there is and of *)
(* the position in the sequence.                                              *)

LEMMA LeastNumber ==
    ASSUME NEW T, T \subseteq Nat, T # {}
    PROVE  \E x \in T : \A y \in T : x <= y
<1>1. \E x \in T : \A y \in T : <<y, x>> \notin OpToRel(<, Nat)
  BY NatLessThanWellFounded, WFMin
<1>2. \E x \in T : \A y \in T : ~(y < x)
  BY <1>1 DEF OpToRel
<1> QED BY <1>2

\* Induction, with the set of the numbers for which a statement holds.
LEMMA Inductive ==
    ASSUME NEW S, 0 \in S, \A n \in Nat : n \in S => n + 1 \in S
    PROVE  Nat \subseteq S
<1> SUFFICES ASSUME Nat \ S # {} PROVE FALSE
  OBVIOUS
<1>1. PICK x \in Nat \ S : \A y \in Nat \ S : x <= y
  BY LeastNumber
<1>2. x # 0 /\ x - 1 \in Nat /\ ~(x <= x - 1) /\ (x - 1) + 1 = x
  BY <1>1
<1> QED BY <1>1, <1>2

\* The largest of a set with a number that bounds it.
LEMMA MaxAt ==
    ASSUME NEW n \in Nat, NEW s, s \subseteq 1..n + 1, n + 1 \in s
    PROVE  Max(s) = n + 1
<1>1. \A y \in s : n + 1 >= y
  OBVIOUS
<1>2. \A x \in s : (\A y \in s : x >= y) => x = n + 1
  OBVIOUS
<1> QED BY <1>1, <1>2 DEF Max

LEMMA MaxIn ==
    ASSUME NEW N \in Nat, NEW s, s \subseteq 1..N, s # {}
    PROVE  Max(s) \in s /\ \A y \in s : Max(s) >= y
<1> DEFINE T == {n \in Nat : N - n \in s}
<1>1. T \subseteq Nat /\ T # {}
  <2>1. PICK x \in s : TRUE
    OBVIOUS
  <2>2. N - x \in Nat /\ N - (N - x) = x
    BY <2>1
  <2> QED BY <2>1, <2>2
<1>2. PICK m \in T : \A y \in T : m <= y
  BY <1>1, LeastNumber
<1>3. N - m \in s
  OBVIOUS
<1>4. ASSUME NEW y \in s PROVE N - m >= y
  <2>1. N - y \in Nat /\ N - (N - y) = y
    OBVIOUS
  <2>2. N - y \in T
    BY <2>1
  <2>3. m <= N - y /\ m \in Nat /\ y \in Nat
    BY <1>2, <2>2
  <2> QED BY <2>3
<1>5. \E x \in s : \A y \in s : x >= y
  BY <1>3, <1>4
<1> QED BY <1>5 DEF Max

\* The positions a fold goes over, seen as MapThenFoldSet does.
Folded(it, N, base, step) ==
    it = [s \in SUBSET (1..N) |-> IF s = {} THEN base ELSE step[<<it[s \ {Max(s)}], Max(s)>>]]

Foldable(N, V, base, step) == \E it \in [SUBSET (1..N) -> V] : Folded(it, N, base, step)

LEMMA FoldExists ==
    ASSUME NEW V, NEW base \in V, NEW M \in Nat, NEW step \in [V \X (1..M) -> V]
    PROVE  Foldable(M, V, base, step)
<1> DEFINE S == {N \in Nat : N <= M => Foldable(N, V, base, step)}
<1>1. 0 \in S
  <2> DEFINE f == [s \in SUBSET (1..0) |-> base]
  <2>1. SUBSET (1..0) = {{}}
    OBVIOUS
  <2>2. f \in [SUBSET (1..0) -> V]
    OBVIOUS
  <2>3. \A s \in SUBSET (1..0) : s = {}
    BY <2>1
  <2>4. Folded(f, 0, base, step)
    BY <2>3 DEF Folded
  <2> QED BY <2>2, <2>4 DEF Foldable
<1>2. ASSUME NEW N \in Nat, N \in S PROVE N + 1 \in S
  <2> SUFFICES ASSUME N + 1 <= M PROVE Foldable(N + 1, V, base, step)
    OBVIOUS
  <2>0. Foldable(N, V, base, step)
    BY <1>2
  <2>1. PICK it \in [SUBSET (1..N) -> V] : Folded(it, N, base, step)
    BY <2>0 DEF Foldable
  <2> DEFINE f == [s \in SUBSET (1..N + 1) |->
                      IF N + 1 \in s THEN step[<<it[s \ {N + 1}], N + 1>>] ELSE it[s]]
  <2>2. ASSUME NEW s \in SUBSET (1..N + 1), N + 1 \in s
        PROVE  s \ {N + 1} \in SUBSET (1..N) /\ Max(s) = N + 1 /\ s # {}
    <3>1. Max(s) = N + 1
      BY <2>2, MaxAt
    <3> QED BY <2>2, <3>1
  <2>3. ASSUME NEW s \in SUBSET (1..N + 1), N + 1 \notin s
        PROVE  s \in SUBSET (1..N)
    BY <2>3
  <2>4. f \in [SUBSET (1..N + 1) -> V]
    <3> SUFFICES ASSUME NEW s \in SUBSET (1..N + 1) PROVE f[s] \in V
      OBVIOUS
    <3>1. CASE N + 1 \in s
      <4>1. it[s \ {N + 1}] \in V
        BY <2>2, <3>1
      <4>2. <<it[s \ {N + 1}], N + 1>> \in V \X (1..M)
        BY <4>1
      <4>3. f[s] = step[<<it[s \ {N + 1}], N + 1>>]
        BY <3>1
      <4> QED BY <4>2, <4>3
    <3>2. CASE N + 1 \notin s
      BY <2>3, <3>2
    <3> QED BY <3>1, <3>2
  <2>5. ASSUME NEW s \in SUBSET (1..N + 1)
        PROVE  f[s] = IF s = {} THEN base ELSE step[<<f[s \ {Max(s)}], Max(s)>>]
    <3>1. CASE N + 1 \in s
      <4>1. s \ {N + 1} \in SUBSET (1..N) /\ Max(s) = N + 1 /\ s # {}
        BY <2>2, <3>1
      <4>2. f[s \ {N + 1}] = it[s \ {N + 1}]
        BY <4>1
      <4>3. f[s] = step[<<it[s \ {N + 1}], N + 1>>]
        BY <3>1
      <4> QED BY <4>1, <4>2, <4>3
    <3>2. CASE N + 1 \notin s
      <4>1. s \in SUBSET (1..N) /\ f[s] = it[s]
        BY <2>3, <3>2
      <4>2. it[s] = IF s = {} THEN base ELSE step[<<it[s \ {Max(s)}], Max(s)>>]
        BY <2>1, <4>1 DEF Folded
      <4>3. s \ {Max(s)} \in SUBSET (1..N) /\ N + 1 \notin s \ {Max(s)}
        BY <3>2, <4>1
      <4>4. f[s \ {Max(s)}] = it[s \ {Max(s)}]
        BY <4>3
      <4> QED BY <4>1, <4>2, <4>4
    <3> QED BY <3>1, <3>2
  <2>6. Folded(f, N + 1, base, step)
    <3> HIDE DEF f
    <3>1. f = [s \in SUBSET (1..N + 1) |-> f[s]]
      BY <2>4
    <3> QED BY <2>5, <3>1, Zenon DEF Folded
  <2> QED BY <2>4, <2>6 DEF Foldable
<1>3. Nat \subseteq S
  <2> HIDE DEF S
  <2> QED BY <1>1, <1>2, Inductive
<1> QED BY <1>3

\* From left to right: what there is after n positions.
LEMMA FoldGoesOn ==
    ASSUME NEW N \in Nat, NEW base, NEW step, NEW it, Folded(it, N, base, step)
    PROVE  /\ it[1..0] = base
           /\ \A n \in 0..N - 1 : it[1..n + 1] = step[<<it[1..n], n + 1>>]
<1>1. it[1..0] = base
  BY DEF Folded
<1>2. ASSUME NEW n \in 0..N - 1 PROVE it[1..n + 1] = step[<<it[1..n], n + 1>>]
  <2>1. 1..n + 1 \in SUBSET (1..N) /\ 1..n + 1 # {} /\ n + 1 \in 1..n + 1
    OBVIOUS
  <2>2. Max(1..n + 1) = n + 1
    BY <2>1, MaxAt
  <2>3. (1..n + 1) \ {n + 1} = 1..n
    OBVIOUS
  <2>4. it[1..n + 1] = IF 1..n + 1 = {} THEN base
                       ELSE step[<<it[(1..n + 1) \ {Max(1..n + 1)}], Max(1..n + 1)>>]
    BY <2>1 DEF Folded
  <2> QED BY <2>1, <2>2, <2>3, <2>4
<1> QED BY <1>1, <1>2

\* The same, without the sets.
Steps(st, M, base, step) == st[0] = base /\ \A n \in 0..M - 1 : st[n + 1] = step[<<st[n], n + 1>>]

LEMMA StepsExist ==
    ASSUME NEW V, NEW base \in V, NEW M \in Nat, NEW step \in [V \X (1..M) -> V]
    PROVE  \E st \in [0..M -> V] : Steps(st, M, base, step)
<1>1. PICK it \in [SUBSET (1..M) -> V] : Folded(it, M, base, step)
  BY FoldExists DEF Foldable
<1>2. /\ it[1..0] = base
      /\ \A n \in 0..M - 1 : it[1..n + 1] = step[<<it[1..n], n + 1>>]
  BY <1>1, FoldGoesOn
<1> DEFINE st == [n \in 0..M |-> it[1..n]]
<1>3. \A n \in 0..M : 1..n \in SUBSET (1..M)
  OBVIOUS
<1>4. st \in [0..M -> V]
  BY <1>3
<1>5. \A n \in 0..M : st[n] = it[1..n]
  OBVIOUS
<1>6. 0 \in 0..M /\ \A n \in 0..M - 1 : n \in 0..M /\ n + 1 \in 0..M
  OBVIOUS
<1> HIDE DEF st
<1>7. st[0] = base
  BY <1>2, <1>5, <1>6
<1>8. ASSUME NEW n \in 0..M - 1 PROVE st[n + 1] = step[<<st[n], n + 1>>]
  <2>1. st[n] = it[1..n] /\ st[n + 1] = it[1..n + 1]
    BY <1>5, <1>6
  <2> QED BY <1>2, <2>1
<1> QED BY <1>4, <1>7, <1>8 DEF Steps

\* The parts of a FlattenSeq.
Flattened(fl, vs) ==
    /\ vs # <<>> => fl[1] = vs[1]
    /\ \A i \in 1..Len(vs) - 1 : fl[i + 1] = fl[i] \o vs[i + 1]

LEMMA FlattenGoesOn ==
    ASSUME NEW S, NEW vs \in Seq(Seq(S)), vs # <<>>
    PROVE  \E fl \in [1..Len(vs) -> Seq(S)] : Flattened(fl, vs) /\ FlattenSeq(vs) = fl[Len(vs)]
<1> DEFINE N == Len(vs)
           V == Seq(S)
           step == [p \in V \X (1..N) |-> IF p[2] = 1 THEN vs[1] ELSE p[1] \o vs[p[2]]]
           Def(f) == [i \in 1..N |-> IF i = 1 THEN vs[i] ELSE f[i - 1] \o vs[i]]
           iter == CHOOSE f : f = Def(f)
<1>1. N \in Nat \ {0} /\ \A i \in 1..N : vs[i] \in V
  OBVIOUS
<1>2. step \in [V \X (1..N) -> V] /\ <<>> \in V
  BY <1>1
<1>3. PICK st \in [0..N -> V] : Steps(st, N, <<>>, step)
  <2> HIDE DEF step, V
  <2> QED BY <1>1, <1>2, StepsExist
<1> DEFINE g == [i \in 1..N |-> st[i]]
<1>5. g \in [1..N -> V]
  OBVIOUS
<1>6. ASSUME NEW i \in 1..N PROVE g[i] = IF i = 1 THEN vs[i] ELSE g[i - 1] \o vs[i]
  <2>1. i - 1 \in 0..N - 1 /\ i - 1 \in 0..N /\ (i - 1) + 1 = i
    BY <1>1
  <2>2. st[i] = step[<<st[i - 1], i>>]
    <3> HIDE DEF step
    <3> QED BY <1>3, <2>1 DEF Steps
  <2>3. st[i - 1] \in V
    BY <2>1
  <2>4. st[i] = IF i = 1 THEN vs[1] ELSE st[i - 1] \o vs[i]
    BY <2>2, <2>3
  <2>5. i # 1 => i - 1 \in 1..N
    BY <1>1
  <2> QED BY <2>4, <2>5
<1>7. g = Def(g)
  <2> HIDE DEF g
  <2> QED BY <1>5, <1>6
<1>8. iter = Def(iter)
  <2> HIDE DEF g
  <2> QED BY <1>7, Zenon
<1>9. FlattenSeq(vs) = iter[N]
  <2>1. N # 0
    BY <1>1
  <2> QED BY <2>1, Zenon DEF FlattenSeq
<1> HIDE DEF iter
<1>10. \A i \in 1..N : iter[i] = IF i = 1 THEN vs[i] ELSE iter[i - 1] \o vs[i]
  BY <1>8
<1>11. \A k \in Nat : k + 1 <= N => iter[k + 1] \in V
  <2> DEFINE T == {k \in Nat : k + 1 <= N => iter[k + 1] \in V}
  <2>1. 0 \in T
    BY <1>1, <1>10
  <2>2. ASSUME NEW k \in Nat, k \in T, (k + 1) + 1 <= N PROVE iter[(k + 1) + 1] \in V
    <3>1. iter[k + 1] \in V
      BY <1>1, <2>2
    <3>2. (k + 1) + 1 \in 1..N /\ (k + 1) + 1 # 1 /\ ((k + 1) + 1) - 1 = k + 1
      BY <1>1, <2>2
    <3>3. iter[(k + 1) + 1] = iter[k + 1] \o vs[(k + 1) + 1] /\ vs[(k + 1) + 1] \in V
      BY <1>1, <1>10, <3>2
    <3> QED BY <3>1, <3>3
  <2>3. \A k \in Nat : k \in T => k + 1 \in T
    BY <2>2
  <2> HIDE DEF T
  <2>4. Nat \subseteq T
    BY <2>1, <2>3, Inductive
  <2> QED BY <2>4 DEF T
<1>12. iter \in [1..N -> V]
  <2>1. ASSUME NEW i \in 1..N PROVE iter[i] \in V
    <3>1. i - 1 \in Nat /\ (i - 1) + 1 = i /\ (i - 1) + 1 <= N
      BY <1>1
    <3> QED BY <1>11, <3>1
  <2>2. iter = [i \in 1..N |-> iter[i]]
    BY <1>8
  <2> QED BY <2>1, <2>2
<1>13. Flattened(iter, vs)
  <2>1. iter[1] = vs[1]
    BY <1>1, <1>10
  <2>2. ASSUME NEW i \in 1..N - 1 PROVE iter[i + 1] = iter[i] \o vs[i + 1]
    <3>1. i + 1 \in 1..N /\ i + 1 # 1 /\ (i + 1) - 1 = i
      BY <1>1
    <3> QED BY <1>10, <3>1
  <2> QED BY <2>1, <2>2 DEF Flattened
<1> QED BY <1>9, <1>12, <1>13

LEMMA ConcatElements ==
    ASSUME NEW S, NEW a \in Seq(S), NEW b \in Seq(S)
    PROVE  /\ a \o b \in Seq(S) /\ Len(a \o b) = Len(a) + Len(b)
           /\ \A m \in 1..Len(a) : (a \o b)[m] = a[m]
           /\ \A m \in 1..Len(b) : (a \o b)[Len(a) + m] = b[m]
<1>1. a \o b \in Seq(S) /\ Len(a \o b) = Len(a) + Len(b) /\ Len(a) \in Nat /\ Len(b) \in Nat
  OBVIOUS
<1>2. \A i \in 1..Len(a) + Len(b) : (a \o b)[i] = IF i <= Len(a) THEN a[i] ELSE b[i - Len(a)]
  OBVIOUS
<1>3. ASSUME NEW m \in 1..Len(a) PROVE (a \o b)[m] = a[m]
  <2>1. m \in 1..Len(a) + Len(b) /\ m <= Len(a)
    BY <1>1
  <2> QED BY <1>2, <2>1
<1>4. ASSUME NEW m \in 1..Len(b) PROVE (a \o b)[Len(a) + m] = b[m]
  <2>1. /\ Len(a) + m \in 1..Len(a) + Len(b) /\ ~(Len(a) + m <= Len(a))
        /\ (Len(a) + m) - Len(a) = m
    BY <1>1
  <2> QED BY <1>2, <2>1
<1> QED BY <1>1, <1>3, <1>4

\* Where the parts of a FlattenSeq begin.
PartsBegin(st, vs, w) ==
    /\ st[0] = 0 /\ st[Len(vs)] = Len(w)
    /\ \A i \in 1..Len(vs) :
          /\ st[i] = st[i - 1] + Len(vs[i]) /\ st[i] <= Len(w)
          /\ \A m \in 1..Len(vs[i]) : w[st[i - 1] + m] = vs[i][m]

LEMMA FlattenParts ==
    ASSUME NEW S, NEW vs \in Seq(Seq(S))
    PROVE  /\ FlattenSeq(vs) \in Seq(S)
           /\ \E st \in [0..Len(vs) -> Nat] : PartsBegin(st, vs, FlattenSeq(vs))
<1> DEFINE N == Len(vs)
           w == FlattenSeq(vs)
<1>1. N \in Nat /\ \A i \in 1..N : vs[i] \in Seq(S)
  OBVIOUS
<1>2. CASE vs = <<>>
  <2>1. w = <<>> /\ N = 0
    BY <1>2 DEF FlattenSeq
  <2> DEFINE st == [i \in 0..0 |-> 0]
  <2>2. st \in [0..N -> Nat] /\ st[0] = 0
    BY <2>1
  <2> HIDE DEF st
  <2>3. w \in Seq(S) /\ Len(w) = 0
    BY <2>1
  <2>4. \A i \in 1..N : FALSE
    BY <2>1
  <2>5. PartsBegin(st, vs, w)
    BY <2>1, <2>2, <2>3, <2>4 DEF PartsBegin
  <2> QED BY <2>2, <2>3, <2>5
<1>3. CASE vs # <<>>
  <2>1. N # 0
    BY <1>3
  <2>2. PICK fl \in [1..N -> Seq(S)] : Flattened(fl, vs) /\ w = fl[N]
    BY <1>3, FlattenGoesOn
  <2> HIDE DEF w
  <2>3. \A i \in 1..N : fl[i] \in Seq(S) /\ Len(fl[i]) \in Nat
    <3>1. \A a \in Seq(S) : Len(a) \in Nat
      OBVIOUS
    <3> QED BY <3>1
  <2>4. ASSUME NEW i \in 1..N - 1
        PROVE  /\ i + 1 \in 1..N
               /\ Len(fl[i + 1]) = Len(fl[i]) + Len(vs[i + 1])
               /\ \A m \in 1..Len(fl[i]) : fl[i + 1][m] = fl[i][m]
               /\ \A m \in 1..Len(vs[i + 1]) : fl[i + 1][Len(fl[i]) + m] = vs[i + 1][m]
    <3>1. i \in 1..N /\ i + 1 \in 1..N
      BY <1>1
    <3>2. fl[i + 1] = fl[i] \o vs[i + 1]
      BY <2>2 DEF Flattened
    <3>3. fl[i] \in Seq(S) /\ vs[i + 1] \in Seq(S)
      BY <1>1, <3>1
    <3>4. \A a, b \in Seq(S) : /\ Len(a \o b) = Len(a) + Len(b)
                               /\ \A m \in 1..Len(a) : (a \o b)[m] = a[m]
                               /\ \A m \in 1..Len(b) : (a \o b)[Len(a) + m] = b[m]
      BY ConcatElements
    <3> QED BY <3>1, <3>2, <3>3, <3>4
  <2> DEFINE Begins(i, j) == Len(fl[i]) <= Len(fl[j]) /\ \A m \in 1..Len(fl[i]) : fl[j][m] = fl[i][m]
             T == {j \in Nat : j + 1 <= N => \A i \in 1..j + 1 : Begins(i, j + 1)}
  <2>5. ASSUME NEW i \in 1..N - 1 PROVE Begins(i, i + 1)
    <3>1. Len(fl[i]) \in Nat /\ Len(vs[i + 1]) \in Nat /\ Len(fl[i + 1]) \in Nat
      BY <1>1, <2>3, <2>4
    <3>2. \A a, b, c \in Nat : c = a + b => a <= c
      OBVIOUS
    <3>3. Len(fl[i]) <= Len(fl[i + 1])
      BY <2>4, <3>1, <3>2
    <3> QED BY <2>4, <3>3
  <2>6. 0 \in T
    <3>1. \A i \in 1..0 + 1 : i = 1 /\ 0 + 1 = 1 /\ 1 \in 1..N
      BY <1>1, <2>1
    <3>2. Begins(1, 1)
      BY <2>3, <1>1, <2>1
    <3> QED BY <3>1, <3>2
  <2>7. ASSUME NEW j \in Nat, j \in T, (j + 1) + 1 <= N, NEW i \in 1..(j + 1) + 1
        PROVE  Begins(i, (j + 1) + 1)
    <3>1. j + 1 \in 1..N - 1 /\ j + 1 <= N /\ (j + 1) + 1 \in 1..N /\ j + 1 \in 1..N /\ i \in 1..N
      BY <1>1, <2>7
    <3>2. CASE i = (j + 1) + 1
      BY <2>3, <3>1, <3>2
    <3>3. CASE i \in 1..j + 1
      <4>1. Begins(i, j + 1)
        BY <2>7, <3>1, <3>3
      <4> HIDE DEF T
      <4>2. Begins(j + 1, (j + 1) + 1)
        BY <2>5, <3>1
      <4>3. Len(fl[i]) \in Nat /\ Len(fl[j + 1]) \in Nat /\ Len(fl[(j + 1) + 1]) \in Nat
        BY <2>3, <3>1
      <4> QED BY <4>1, <4>2, <4>3
    <3> QED BY <3>1, <3>2, <3>3
  <2>8. \A j \in Nat : j \in T => j + 1 \in T
    <3> HIDE DEF Begins
    <3> QED BY <2>7
  <2>9. ASSUME NEW i \in 1..N PROVE Begins(i, N)
    <3> HIDE DEF T
    <3>1. Nat \subseteq T
      BY <2>6, <2>8, Inductive
    <3>2. N - 1 \in Nat /\ (N - 1) + 1 = N /\ N <= N
      BY <1>1, <2>1
    <3> HIDE DEF Begins
    <3> QED BY <3>1, <3>2 DEF T
  <2> HIDE DEF T
  <2> DEFINE st == [i \in 0..N |-> IF i = 0 THEN 0 ELSE Len(fl[i])]
  <2>10. st \in [0..N -> Nat] /\ st[0] = 0 /\ \A i \in 1..N : st[i] = Len(fl[i])
    BY <1>1, <2>3
  <2> HIDE DEF st
  <2>11. ASSUME NEW i \in 1..N
         PROVE  /\ st[i] = st[i - 1] + Len(vs[i]) /\ st[i] <= Len(w)
                /\ \A m \in 1..Len(vs[i]) : w[st[i - 1] + m] = vs[i][m]
    <3>1. st[i] <= Len(w) /\ \A m \in 1..st[i] : w[m] = fl[i][m]
      BY <2>2, <2>9, <2>10
    <3> HIDE DEF Begins
    <3>2. vs[i] \in Seq(S) /\ Len(vs[i]) \in Nat
      BY <1>1
    <3>3. CASE i = 1
      <4>1. fl[1] = vs[1] /\ st[i - 1] = 0 /\ st[i] = Len(vs[i])
        BY <1>3, <2>2, <2>10, <3>3 DEF Flattened
      <4>2. \A m \in 1..Len(vs[i]) : 0 + m = m
        BY <3>2
      <4> QED BY <3>1, <3>2, <3>3, <4>1, <4>2
    <3>4. CASE i # 1
      <4>1. PICK j \in 1..N - 1 : i = j + 1
        <5>1. i - 1 \in 1..N - 1 /\ i = (i - 1) + 1
          BY <1>1, <3>4
        <5> QED BY <5>1
      <4>2. /\ Len(fl[i]) = Len(fl[j]) + Len(vs[i])
            /\ \A m \in 1..Len(vs[i]) : fl[i][Len(fl[j]) + m] = vs[i][m]
        BY <2>4, <4>1
      <4>3. j \in 1..N /\ i - 1 = j
        BY <1>1, <4>1
      <4>4. st[j] = Len(fl[j]) /\ st[i] = Len(fl[i]) /\ st[j] \in Nat
        BY <2>3, <2>10, <4>3
      <4>5. st[i] = st[j] + Len(vs[i]) /\ \A m \in 1..Len(vs[i]) : fl[i][st[j] + m] = vs[i][m]
        BY <4>2, <4>4
      <4>6. \A a, b \in Nat : \A m \in 1..b : a + m \in 1..a + b
        OBVIOUS
      <4>7. \A m \in 1..Len(vs[i]) : st[j] + m \in 1..st[i]
        BY <3>2, <4>4, <4>5, <4>6
      <4> QED BY <3>1, <4>3, <4>5, <4>7
    <3> QED BY <3>3, <3>4
  <2>12. N \in 1..N
    BY <1>1, <2>1
  <2>13. st[N] = Len(w) /\ w \in Seq(S)
    BY <2>2, <2>10, <2>12
  <2>14. PartsBegin(st, vs, w)
    BY <2>10, <2>11, <2>13 DEF PartsBegin
  <2> QED BY <2>10, <2>13, <2>14 DEF w
<1> QED BY <1>2, <1>3

\* No part is longer than k.
LEMMA FlattenLength ==
    ASSUME NEW S, NEW vs \in Seq(Seq(S)), NEW k \in Nat, \A i \in 1..Len(vs) : Len(vs[i]) <= k
    PROVE  Len(FlattenSeq(vs)) <= Len(vs) * k
<1> DEFINE N == Len(vs)
           w == FlattenSeq(vs)
           Most(i) == i * k
<1>1. N \in Nat /\ \A i \in 1..N : Len(vs[i]) \in Nat
  OBVIOUS
<1>2. PICK st \in [0..N -> Nat] : PartsBegin(st, vs, w)
  BY FlattenParts
<1> DEFINE T == {i \in Nat : i <= N => st[i] <= Most(i)}
<1>3. 0 \in T
  BY <1>2 DEF PartsBegin
<1>4. ASSUME NEW i \in Nat, i \in T, i + 1 <= N PROVE st[i + 1] <= Most(i + 1)
  <2>1. i + 1 \in 1..N /\ (i + 1) - 1 = i /\ i <= N /\ i \in 0..N
    BY <1>1, <1>4
  <2>2. st[i + 1] = st[i] + Len(vs[i + 1])
    BY <1>2, <2>1 DEF PartsBegin
  <2>3. Len(vs[i + 1]) \in Nat /\ Len(vs[i + 1]) <= k /\ st[i] \in Nat /\ st[i] <= Most(i)
    BY <1>1, <1>4, <2>1
  <2>4. (i + 1) * k = i * k + k /\ i * k \in Nat
    OBVIOUS
  <2> QED BY <2>2, <2>3, <2>4
<1>5. \A i \in Nat : i \in T => i + 1 \in T
  <2> HIDE DEF Most
  <2> QED BY <1>4
<1> HIDE DEF T, w
<1>6. N \in T
  BY <1>1, <1>3, <1>5, Inductive
<1>7. N <= N /\ st[N] = Len(w)
  BY <1>1, <1>2 DEF PartsBegin
<1> QED BY <1>6, <1>7 DEF T, w

------------------------------------------------------------------------------
(* Making room.                                                                 *)

LEMMA Multiples ==
    ASSUME NEW a \in Nat, NEW b \in Nat \ {0}
    PROVE  a \div b \in Nat /\ (a \div b) * b <= a /\ a < (a \div b + 1) * b
OBVIOUS

LEMMA Remainder ==
    ASSUME NEW a \in Nat, NEW b \in Nat, a < b
    PROVE  a % b = a
OBVIOUS

LEMMA OneMore ==
    ASSUME NEW q \in Nat, NEW b \in Nat
    PROVE  (q + 1) * b = q * b + b /\ q * b \in Nat
OBVIOUS

LEMMA FreeIsProper ==
    ASSUME NEW s \in Strs
    PROVE  StrFree(s) \in Proper /\ StrFree(s).error
BY DEF StrFree, Strs, Proper

\* What str_fit makes of a string.
LEMMA FitCases ==
    ASSUME NEW s \in Proper, NEW m \in Nat, NEW room \in Nat
    PROVE  \/ StrFit(s, m, room) = s /\ (s.error \/ SpaceLeft(s) >= m)
           \/ StrFit(s, m, room) = StrFree(s) /\ ~s.error
           \/ /\ StrFit(s, m, room) = [s EXCEPT !.size = Grown(s, m)]
              /\ ~s.error /\ ~(SpaceLeft(s) >= m) /\ s.step # 0
BY DEF StrFit, StrResize

LEMMA SpaceTyped ==
    ASSUME NEW s \in Proper
    PROVE  SpaceLeft(s) \in 0..Wrap - 1
BY StrAssumption DEF SpaceLeft, StrLen, Proper, Strs

LEMMA GrownTyped ==
    ASSUME NEW s \in Proper, NEW m \in Nat, s.step # 0, ~(SpaceLeft(s) >= m)
    PROVE  Grown(s, m) \in Nat
<1>1. SpaceLeft(s) \in Nat /\ s.step \in Nat \ {0} /\ s.size \in Nat
  BY SpaceTyped, StrAssumption DEF Proper, Strs
<1>2. (m - SpaceLeft(s)) \div s.step \in Nat
  BY <1>1, Multiples
<1>3. \A q, a, b \in Nat : a + (q + 1) * b \in Nat
  OBVIOUS
<1> QED BY <1>1, <1>2, <1>3, StrAssumption DEF Grown

LEMMA FitIsProper ==
    ASSUME NEW s \in Proper, NEW m \in Nat, NEW room \in Nat
    PROVE  /\ StrFit(s, m, room) \in Proper
           /\ s.error => StrFit(s, m, room) = s
           /\ ~StrFit(s, m, room).error =>
                 /\ ~s.error
                 /\ StrFit(s, m, room).data = s.data
                 /\ StrFit(s, m, room).len = s.len
                 /\ StrFit(s, m, room).step = s.step
<1> DEFINE t == StrFit(s, m, room)
<1> HIDE DEF t
<1>1. CASE t = s /\ (s.error \/ SpaceLeft(s) >= m)
  BY <1>1 DEF t
<1>2. CASE t = StrFree(s) /\ ~s.error
  BY <1>2, FreeIsProper DEF t, Proper
<1>3. CASE t = [s EXCEPT !.size = Grown(s, m)] /\ ~s.error /\ ~(SpaceLeft(s) >= m) /\ s.step # 0
  <2>1. Grown(s, m) \in Nat
    BY <1>3, GrownTyped
  <2>2. t \in Strs /\ t.data = s.data /\ t.len = s.len /\ t.step = s.step /\ t.error = s.error
    BY <1>3, <2>1 DEF Proper, Strs
  <2>3. t \in Proper
    BY <1>3, <2>2 DEF Proper
  <2> QED BY <1>3, <2>2, <2>3 DEF t
<1> QED BY <1>1, <1>2, <1>3, FitCases DEF t

------------------------------------------------------------------------------
(* Appending.                                                                   *)

\* The text that counts, up to str_len.
Counted(s) == SubSeq(s.data, 1, s.len)

\* t is s with v behind what is counted, or an error.
Appended(s, t, v) ==
    /\ t \in Proper
    /\ s.error => t = s
    /\ ~t.error => /\ ~s.error
                   /\ t.data = Counted(s) \o v /\ t.len = s.len + Len(v) /\ t.step = s.step

LEMMA CountedTyped ==
    ASSUME NEW s \in Proper, ~s.error
    PROVE  s.data \in Text /\ Counted(s) \in Text /\ Len(Counted(s)) = s.len /\ s.len \in Nat
<1>1. s.data \in Text /\ s.len \in Nat /\ s.len <= Len(s.data)
  BY DEF Proper, Strs
<1>2. \A d \in Text, n \in Nat : n <= Len(d) => SubSeq(d, 1, n) \in Text /\ Len(SubSeq(d, 1, n)) = n
  BY DEF Text
<1> QED BY <1>1, <1>2 DEF Counted

LEMMA Concat ==
    ASSUME NEW v \in Text, NEW w \in Text
    PROVE  v \o w \in Text /\ Len(v \o w) = Len(v) + Len(w) /\ Len(v) \in Nat
BY DEF Text

\* Characters are written where the string ends, and the first n of them counted.
Written(s, v, n) == [Put(s, v) EXCEPT !.len = @ + n]

LEMMA PutIsProper ==
    ASSUME NEW s \in Proper, ~s.error, NEW v \in Text, NEW n \in Nat, n <= Len(v)
    PROVE  /\ Written(s, v, n) \in Proper /\ ~Written(s, v, n).error
           /\ Written(s, v, n).data = Counted(s) \o v /\ Written(s, v, n).len = s.len + n
           /\ Written(s, v, n).step = s.step /\ Written(s, v, n).size = s.size
<1> DEFINE d == Counted(s) \o v
           t == Written(s, v, n)
<1>1. d \in Text /\ Len(d) = s.len + Len(v) /\ s.len \in Nat
  BY CountedTyped, Concat
<1>2. Put(s, v) = [s EXCEPT !.data = d]
  BY DEF Put, Counted
<1> HIDE DEF d
<1>3. Put(s, v) \in Strs /\ Put(s, v).data = d /\ Put(s, v).len = s.len /\ Put(s, v).step = s.step
      /\ Put(s, v).error = s.error /\ Put(s, v).size = s.size
  BY <1>1, <1>2 DEF Proper, Strs
<1>4. t \in Strs /\ t.data = d /\ t.len = s.len + n /\ t.step = s.step /\ t.error = s.error /\ t.size = s.size
  BY <1>1, <1>3 DEF Strs, Written
<1>5. d # NoData
  BY <1>1, StringsAssumption DEF Text
<1>6. Len(v) \in Nat
  BY DEF Text
<1> HIDE DEF t
<1>7. ~t.error /\ t.data # NoData
  BY <1>4, <1>5
<1>8. t.len <= Len(t.data)
  BY <1>1, <1>4, <1>6
<1>9. t \in Proper
  BY <1>4, <1>7, <1>8 DEF Proper
<1> QED BY <1>4, <1>7, <1>9 DEF d, t

LEMMA AddAppends ==
    ASSUME NEW s \in Proper, NEW v \in Text, NEW room \in Nat
    PROVE  Appended(s, StrAdd(s, v, room), v)
<1> DEFINE f == StrFit(s, Len(v), room)
           t == StrAdd(s, v, room)
<1>1. Len(v) \in Nat
  BY DEF Text
<1>2. /\ f \in Proper /\ (s.error => f = s)
      /\ ~f.error => ~s.error /\ f.data = s.data /\ f.len = s.len /\ f.step = s.step
  BY <1>1, FitIsProper
<1> HIDE DEF f
<1>3. CASE f.error
  <2>1. t = f
    BY <1>3 DEF StrAdd, f
  <2> QED BY <1>2, <1>3, <2>1 DEF Appended
<1>4. CASE ~f.error
  <2>1. t = Written(f, v, Len(v))
    BY <1>4 DEF StrAdd, f, Written
  <2> HIDE DEF t
  <2>2. /\ t \in Proper /\ ~t.error
        /\ t.data = Counted(f) \o v /\ t.len = f.len + Len(v) /\ t.step = f.step
    <3>1. Len(v) <= Len(v) /\ f \in Proper
      BY <1>1, <1>2
    <3> QED BY <1>1, <1>4, <2>1, <3>1, PutIsProper
  <2>3. Counted(f) = Counted(s)
    BY <1>2, <1>4 DEF Counted
  <2>4. ~s.error
    BY <1>2, <1>4
  <2> QED BY <1>2, <1>4, <2>2, <2>3, <2>4 DEF Appended, t
<1> QED BY <1>3, <1>4

\* One text after the other.
LEMMA AppendedTwice ==
    ASSUME NEW s \in Proper, NEW t, NEW u, NEW v \in Text, NEW w \in Text,
           Appended(s, t, v), Appended(t, u, w)
    PROVE  Appended(s, u, v \o w)
<1>1. t \in Proper /\ u \in Proper
  BY DEF Appended
<1>2. ASSUME s.error PROVE u = s
  BY <1>2 DEF Appended
<1>3. ASSUME ~u.error
      PROVE  /\ ~s.error /\ u.data = Counted(s) \o (v \o w)
             /\ u.len = s.len + Len(v \o w) /\ u.step = s.step
  <2>1. /\ ~t.error /\ u.data = Counted(t) \o w /\ u.len = t.len + Len(w) /\ u.step = t.step
    BY <1>3 DEF Appended
  <2>2. ~s.error /\ t.data = Counted(s) \o v /\ t.len = s.len + Len(v) /\ t.step = s.step
    BY <2>1 DEF Appended
  <2>3. Counted(s) \in Text /\ Len(Counted(s)) = s.len /\ s.len \in Nat
    BY <2>2, CountedTyped
  <2>4. t.data \in Text /\ Len(t.data) = t.len
    BY <2>2, <2>3, Concat
  <2>5. \A d \in Text : SubSeq(d, 1, Len(d)) = d
    BY DEF Text
  <2>6. Counted(t) = Counted(s) \o v
    BY <2>2, <2>4, <2>5 DEF Counted
  <2>7. \A a, b, c \in Text : (a \o b) \o c = a \o (b \o c)
    BY DEF Text
  <2>8. u.data = Counted(s) \o (v \o w)
    BY <2>1, <2>3, <2>6, <2>7
  <2>9. Len(v \o w) = Len(v) + Len(w) /\ Len(v) \in Nat /\ Len(w) \in Nat
    BY Concat
  <2> QED BY <2>1, <2>2, <2>3, <2>8, <2>9
<1> QED BY <1>1, <1>2, <1>3 DEF Appended

------------------------------------------------------------------------------
(* Room for what is appended.                                                   *)

\* The buffer holds the string and its zero, and cannot have wrapped.
Bounded(s, n) ==
    ~s.error => Len(s.data) < s.size /\ s.size <= Longest + 2 * n + 1 /\ s.step <= n

LEMMA FitBounded ==
    ASSUME NEW n, Short(n), NEW s \in Proper, Bounded(s, n), NEW m \in Nat, NEW room \in Nat,
           s.error \/ s.len + m <= Longest + n
    PROVE  LET t == StrFit(s, m, room) IN
           /\ Bounded(t, n)
           /\ ~t.error => s.len + m < t.size
<1> DEFINE t == StrFit(s, m, room)
<1> HIDE DEF t
<1>1. n \in Nat /\ Longest \in Nat /\ Wrap \in Nat \ {0} /\ Longest + 3 * n < Wrap /\ n >= 25
  BY StrAssumption, StringsAssumption DEF Short
<1>2. CASE s.error
  BY <1>2, FitIsProper DEF t, Bounded
<1>3. CASE t.error
  BY <1>3 DEF Bounded, t
<1>4. CASE ~s.error /\ ~t.error
  <2>1. /\ s.size \in Nat /\ s.len \in Nat /\ s.step \in Nat /\ s.data \in Text /\ Len(s.data) \in Nat
        /\ s.len <= Len(s.data) /\ Len(s.data) < s.size /\ s.size <= Longest + 2 * n + 1 /\ s.step <= n
        /\ s.len + m <= Longest + n
    BY <1>4, CountedTyped DEF Proper, Strs, Bounded, Text
  <2>2. SpaceLeft(s) = s.size - s.len - 1
    <3>1. s.size - s.len - 1 \in Nat /\ s.size - s.len - 1 < Wrap /\ Wrap \in Nat
      BY <1>1, <2>1
    <3>2. SpaceLeft(s) = (s.size - s.len - 1) % Wrap
      BY <1>4 DEF SpaceLeft, StrLen
    <3> QED BY <3>1, <3>2, Remainder
  <2>3. t.data = s.data /\ t.step = s.step
    BY <1>4, FitIsProper DEF t
  <2>4. CASE t = s /\ SpaceLeft(s) >= m
    BY <1>4, <2>1, <2>2, <2>4 DEF Bounded, t
  <2>5. CASE t = [s EXCEPT !.size = Grown(s, m)] /\ ~(SpaceLeft(s) >= m) /\ s.step # 0
    <3> DEFINE missing == m - (s.size - s.len - 1)
               q == missing \div s.step
               more == (q + 1) * s.step
    <3>1. missing \in Nat /\ s.step \in Nat \ {0}
      BY <2>1, <2>2, <2>5
    <3>2. q \in Nat /\ q * s.step <= missing /\ missing < (q + 1) * s.step
      <4> HIDE DEF missing
      <4> QED BY <3>1, Multiples
    <3>3. more = q * s.step + s.step /\ q * s.step \in Nat
      <4> HIDE DEF q
      <4> QED BY <2>1, <3>2, OneMore
    <3>4. more \in Nat /\ missing < more /\ more <= missing + s.step
      <4> HIDE DEF q, missing
      <4> QED BY <2>1, <3>1, <3>2, <3>3
    <3>5. Grown(s, m) = (s.size + more) % Wrap
      BY <2>2 DEF Grown
    <3> HIDE DEF more
    <3>6. s.size + more <= Longest + 2 * n + 1 /\ s.len + m < s.size + more
      BY <1>1, <2>1, <3>4, SMTT(30)
    <3>7. Grown(s, m) = s.size + more
      <4>1. s.size + more \in Nat /\ s.size + more < Wrap /\ Wrap \in Nat
        BY <1>1, <2>1, <3>4, <3>6
      <4> QED BY <3>5, <4>1, Remainder
    <3>8. t.size = s.size + more
      BY <2>5, <3>7 DEF Proper, Strs
    <3> QED BY <1>4, <2>1, <2>3, <3>4, <3>6, <3>8 DEF Bounded, t
  <2> QED BY <1>4, <2>4, <2>5, FitCases, FreeIsProper DEF t, Proper
<1> QED BY <1>2, <1>3, <1>4

\* The same, and within the bounds if it is for what is appended.
Fitting(s, t, v, n) == Bounded(s, n) /\ (s.error \/ s.len + Len(v) <= Longest + n) => Bounded(t, n)
Takes(s, t, v, n) == (t = s /\ v = <<>>) \/ (Appended(s, t, v) /\ Fitting(s, t, v, n))

LEMMA AddTakes ==
    ASSUME NEW n, Short(n), NEW s \in Proper, NEW v \in Text, NEW room \in Nat
    PROVE  Takes(s, StrAdd(s, v, room), v, n)
<1> DEFINE f == StrFit(s, Len(v), room)
           t == StrAdd(s, v, room)
<1>1. Appended(s, t, v)
  BY AddAppends
<1>2. Len(v) \in Nat
  BY DEF Text
<1>3. ASSUME Bounded(s, n), s.error \/ s.len + Len(v) <= Longest + n
      PROVE  Bounded(t, n)
  <2>1. Bounded(f, n) /\ (~f.error => s.len + Len(v) < f.size)
    BY <1>2, <1>3, FitBounded
  <2>2. CASE f.error
    <3>1. t = f
      BY <2>2 DEF StrAdd
    <3> QED BY <2>1, <3>1
  <2>3. CASE ~f.error
    <3>1. t = Written(f, v, Len(v))
      BY <2>3 DEF StrAdd, Written
    <3>2. f \in Proper /\ f.len = s.len /\ ~s.error
      BY <1>2, <2>3, FitIsProper
    <3> HIDE DEF f, t
    <3>3. Len(v) <= Len(v)
      BY <1>2
    <3>4. /\ ~t.error /\ t.data = Counted(f) \o v /\ t.len = f.len + Len(v)
          /\ t.step = f.step /\ t.size = f.size
      BY <1>2, <2>3, <3>1, <3>2, <3>3, PutIsProper
    <3>5. Len(t.data) = f.len + Len(v)
      BY <2>3, <3>2, <3>4, CountedTyped, Concat
    <3> QED BY <2>1, <2>3, <3>2, <3>4, <3>5 DEF Bounded
  <2> QED BY <2>2, <2>3
<1> HIDE DEF t
<1>4. Takes(s, t, v, n)
  BY <1>1, <1>3 DEF Takes, Fitting
<1> QED BY <1>4 DEF t

LEMMA TakesIsProper ==
    ASSUME NEW n, NEW s \in Proper, NEW t, NEW v, Takes(s, t, v, n)
    PROVE  t \in Proper /\ (s.error => t = s)
BY DEF Takes, Appended

LEMMA TakesTwice ==
    ASSUME NEW n, Short(n), NEW s \in Proper, NEW t, NEW u, NEW v \in Text, NEW w \in Text,
           Takes(s, t, v, n), Takes(t, u, w, n)
    PROVE  Takes(s, u, v \o w, n)
<1>1. CASE t = s /\ v = <<>>
  <2>1. \A x \in Text : <<>> \o x = x
    BY DEF Text
  <2>2. v \o w = w
    BY <1>1, <2>1
  <2> QED BY <1>1, <2>2
<1>2. CASE u = t /\ w = <<>>
  <2>1. \A x \in Text : x \o <<>> = x
    BY DEF Text
  <2>2. v \o w = v
    BY <1>2, <2>1
  <2> QED BY <1>2, <2>2
<1>3. CASE Appended(s, t, v) /\ Fitting(s, t, v, n) /\ Appended(t, u, w) /\ Fitting(t, u, w, n)
  <2>1. Appended(s, u, v \o w)
    BY <1>3, AppendedTwice
  <2>2. ASSUME Bounded(s, n), s.error \/ s.len + Len(v \o w) <= Longest + n PROVE Bounded(u, n)
    <3>1. SUFFICES ASSUME ~u.error PROVE Bounded(u, n)
      BY DEF Bounded
    <3>2. ~t.error /\ ~s.error /\ t.len = s.len + Len(v)
      BY <1>3, <3>1 DEF Appended
    <3>3. Len(v \o w) = Len(v) + Len(w) /\ Len(v) \in Nat /\ Len(w) \in Nat /\ s.len \in Nat
      BY <3>2, Concat, CountedTyped
    <3>4. Longest \in Nat /\ n \in Nat
      BY StringsAssumption DEF Short
    <3>5. s.len + Len(v) <= Longest + n /\ t.len + Len(w) <= Longest + n
      BY <2>2, <3>2, <3>3, <3>4
    <3>6. Bounded(t, n)
      BY <1>3, <2>2, <3>5 DEF Fitting
    <3> QED BY <1>3, <3>5, <3>6 DEF Fitting
  <2> QED BY <2>1, <2>2 DEF Takes, Fitting
<1> QED BY <1>1, <1>2, <1>3 DEF Takes

\* Texts one after the other: all of them, or the string is released.
LEMMA EachTakes ==
    ASSUME NEW n, Short(n), NEW s \in Proper, NEW vs \in Seq(Text), NEW room \in Nat
    PROVE  Takes(s, StrAddEach(s, vs, room), FlattenSeq(vs), n)
<1> DEFINE N == Len(vs)
           step == [p \in Proper \X (1..N) |-> StrAdd(p[1], vs[p[2]], room)]
           Def(f) == [S \in SUBSET DOMAIN vs |->
                         IF S = {} THEN s ELSE StrAdd(f[S \ {Max(S)}], vs[Max(S)], room)]
           iter == CHOOSE f : f = Def(f)
<1>1. N \in Nat /\ DOMAIN vs = 1..N /\ \A i \in 1..N : vs[i] \in Text
  OBVIOUS
<1>2. step \in [Proper \X (1..N) -> Proper]
  <2>1. ASSUME NEW t \in Proper, NEW i \in 1..N PROVE StrAdd(t, vs[i], room) \in Proper
    BY <1>1, AddAppends DEF Appended
  <2> QED BY <2>1
<1>3. PICK it \in [SUBSET (1..N) -> Proper] : Folded(it, N, s, step)
  <2> HIDE DEF step
  <2> QED BY <1>1, <1>2, FoldExists DEF Foldable
<1>4. it = Def(it)
  <2>1. ASSUME NEW S \in SUBSET (1..N), S # {}
        PROVE  step[<<it[S \ {Max(S)}], Max(S)>>] = StrAdd(it[S \ {Max(S)}], vs[Max(S)], room)
    <3>1. Max(S) \in 1..N
      BY <1>1, <2>1, MaxIn
    <3>2. it[S \ {Max(S)}] \in Proper
      OBVIOUS
    <3> QED BY <3>1, <3>2
  <2> HIDE DEF step
  <2> QED BY <1>1, <1>3, <2>1 DEF Folded
<1>5. iter = Def(iter)
  BY <1>4, Zenon
<1>6. StrAddEach(s, vs, room) = iter[DOMAIN vs]
  BY Zenon DEF StrAddEach, FoldLeft, MapThenFoldSet
<1> HIDE DEF iter, step
<1>7. iter[1..0] = s
  <2>1. 1..0 = {} /\ {} \in SUBSET DOMAIN vs
    OBVIOUS
  <2> QED BY <1>5, <2>1
<1>8. ASSUME NEW i \in Nat, i + 1 <= N
      PROVE  iter[1..i + 1] = StrAdd(iter[1..i], vs[i + 1], room) /\ i + 1 \in 1..N
  <2>1. 1..i + 1 \in SUBSET DOMAIN vs /\ i + 1 \in 1..i + 1 /\ i + 1 \in 1..N
    BY <1>1, <1>8
  <2>2. Max(1..i + 1) = i + 1
    BY <2>1, MaxAt
  <2>3. (1..i + 1) \ {i + 1} = 1..i
    OBVIOUS
  <2> QED BY <1>5, <2>1, <2>2, <2>3
<1>9. CASE vs = <<>>
  <2>1. FlattenSeq(vs) = <<>> /\ DOMAIN vs = 1..0
    BY <1>9 DEF FlattenSeq
  <2> QED BY <1>6, <1>7, <2>1 DEF Takes
<1>10. CASE vs # <<>>
  <2>1. N # 0
    BY <1>10
  <2>2. PICK fl \in [1..N -> Text] : Flattened(fl, vs) /\ FlattenSeq(vs) = fl[N]
    BY <1>10, FlattenGoesOn DEF Text
  <2> DEFINE T == {i \in Nat : i + 1 <= N => Takes(s, iter[1..i + 1], fl[i + 1], n)}
  <2>3. 0 \in T
    <3>1. 0 + 1 = 1 /\ 0 + 1 <= N /\ 1 \in 1..N
      BY <1>1, <2>1
    <3>2. iter[1..1] = StrAdd(s, vs[1], room)
      BY <1>7, <1>8, <3>1
    <3>3. fl[1] = vs[1]
      BY <1>10, <2>2 DEF Flattened
    <3> QED BY <1>1, <3>1, <3>2, <3>3, AddTakes
  <2>4. ASSUME NEW i \in Nat, i \in T, (i + 1) + 1 <= N
        PROVE  Takes(s, iter[1..(i + 1) + 1], fl[(i + 1) + 1], n)
    <3>1. i + 1 \in Nat /\ i + 1 <= N /\ i + 1 \in 1..N - 1 /\ i + 1 \in 1..N /\ (i + 1) + 1 \in 1..N
      BY <1>1, <2>4
    <3>2. Takes(s, iter[1..i + 1], fl[i + 1], n)
      BY <2>4, <3>1
    <3>3. iter[1..i + 1] \in Proper
      BY <3>2, TakesIsProper
    <3>4. iter[1..(i + 1) + 1] = StrAdd(iter[1..i + 1], vs[(i + 1) + 1], room)
      BY <1>8, <2>4, <3>1
    <3>5. Takes(iter[1..i + 1], iter[1..(i + 1) + 1], vs[(i + 1) + 1], n)
      BY <1>1, <3>1, <3>3, <3>4, AddTakes
    <3>6. fl[(i + 1) + 1] = fl[i + 1] \o vs[(i + 1) + 1]
      BY <2>2, <3>1 DEF Flattened
    <3>7. fl[i + 1] \in Text /\ vs[(i + 1) + 1] \in Text
      BY <1>1, <3>1
    <3> QED BY <3>2, <3>5, <3>6, <3>7, TakesTwice
  <2>5. \A i \in Nat : i \in T => i + 1 \in T
    BY <2>4
  <2> HIDE DEF T
  <2>6. Nat \subseteq T
    BY <2>3, <2>5, Inductive
  <2>7. N - 1 \in Nat /\ (N - 1) + 1 = N /\ N <= N
    BY <1>1, <2>1
  <2>8. Takes(s, iter[1..N], fl[N], n)
    BY <2>6, <2>7 DEF T
  <2> QED BY <1>1, <1>6, <2>2, <2>8
<1> QED BY <1>9, <1>10

------------------------------------------------------------------------------
(* What the conversions make of a text.                                         *)

LEMMA EscapesTyped ==
    ASSUME NEW c \in Chars
    PROVE  /\ EscapedChr(c) \in Text /\ Len(EscapedChr(c)) <= 2
           /\ <<c>> \in Text
<1>1. {"n", "r"} \cup DOMAIN Escapes \subseteq Chars /\ DOMAIN Escapes = {"\n", "\r", "\"", "'", "\\"}
  BY StringsAssumption DEF Escapes
<1>2. \A a, b \in Chars : <<a>> \in Text /\ Len(<<a>>) = 1 /\ <<a, b>> \in Text /\ Len(<<a, b>>) = 2
  BY DEF Text
<1>3. ASSUME c \in DOMAIN Escapes PROVE EscapedChr(c) \in Text /\ Len(EscapedChr(c)) <= 2
  <2>1. Escapes[c] \in Chars /\ "\\" \in Chars
    BY <1>1, <1>3 DEF Escapes
  <2>2. EscapedChr(c) = <<"\\", Escapes[c]>>
    BY <1>3 DEF EscapedChr
  <2>3. EscapedChr(c) \in Text /\ Len(EscapedChr(c)) = 2
    BY <1>2, <2>1, <2>2, Zenon
  <2> QED BY <2>3
<1>4. ASSUME c \notin DOMAIN Escapes PROVE EscapedChr(c) \in Text /\ Len(EscapedChr(c)) <= 2
  <2>1. EscapedChr(c) = <<c>>
    BY <1>4 DEF EscapedChr
  <2>2. EscapedChr(c) \in Text /\ Len(EscapedChr(c)) = 1
    BY <1>2, <2>1, Zenon
  <2> QED BY <2>2
<1>5. <<c>> \in Text
  BY <1>2, Zenon
<1> QED BY <1>3, <1>4, <1>5

LEMMA UrlTyped ==
    ASSUME NEW n, Short(n), NEW c \in Chars
    PROVE  UrlChr(c) \in Text /\ Len(UrlChr(c)) <= 3
<1>1. HexOf(c) \in Text /\ Len(HexOf(c)) <= 2 /\ Len(HexOf(c)) \in Nat
  BY StringsAssumption DEF Short, Text
<1>2. <<"%">> \in Text /\ Len(<<"%">>) = 1 /\ <<c>> \in Text /\ Len(<<c>>) = 1
  BY StringsAssumption DEF Text
<1>3. <<"%">> \o HexOf(c) \in Text /\ Len(<<"%">> \o HexOf(c)) = 1 + Len(HexOf(c))
  BY <1>1, <1>2, Concat
<1> QED BY <1>1, <1>2, <1>3 DEF UrlChr

LEMMA TextTyped ==
    ASSUME NEW v \in Text
    PROVE  Len(v) \in Nat /\ DOMAIN v = 1..Len(v) /\ \A i \in 1..Len(v) : v[i] \in Chars
BY DEF Text

\* Parts made of the characters of a text.
LEMMA PartsTyped ==
    ASSUME NEW v \in Text, NEW f, DOMAIN f = DOMAIN v, f = [i \in DOMAIN v |-> f[i]],
           \A i \in DOMAIN v : f[i] \in Text
    PROVE  f \in Seq(Text) /\ Len(f) = Len(v)
BY TextTyped

LEMMA UrlTextTyped ==
    ASSUME NEW n, Short(n), NEW v \in Text
    PROVE  UrlChrs(v) \in Seq(Text) /\ UrlText(v) \in Text /\ Len(UrlText(v)) <= Len(v) * 3
<1>1. \A i \in DOMAIN v : UrlChr(v[i]) \in Text /\ Len(UrlChr(v[i])) <= 3
  <2> SUFFICES ASSUME NEW i \in DOMAIN v
               PROVE  UrlChr(v[i]) \in Text /\ Len(UrlChr(v[i])) <= 3
    OBVIOUS
  <2>1. v[i] \in Chars
    BY TextTyped
  <2> QED BY <2>1, UrlTyped
<1>2. UrlChrs(v) \in Seq(Text) /\ Len(UrlChrs(v)) = Len(v)
  BY <1>1, PartsTyped DEF UrlChrs
<1>3. \A i \in 1..Len(UrlChrs(v)) : Len(UrlChrs(v)[i]) <= 3
  BY <1>1, <1>2, TextTyped DEF UrlChrs
<1> QED BY <1>2, <1>3, FlattenParts, FlattenLength DEF UrlText, Text

LEMMA EscapedTextTyped ==
    ASSUME NEW v \in Text
    PROVE  EscapedChrs(v) \in Seq(Text) /\ Len(EscapedChrs(v)) = Len(v)
           /\ EscapedText(v) \in Text /\ Len(EscapedText(v)) <= Len(v) * 2
<1>1. \A i \in DOMAIN v : EscapedChr(v[i]) \in Text /\ Len(EscapedChr(v[i])) <= 2
  <2> SUFFICES ASSUME NEW i \in DOMAIN v
               PROVE  EscapedChr(v[i]) \in Text /\ Len(EscapedChr(v[i])) <= 2
    OBVIOUS
  <2>1. v[i] \in Chars
    BY TextTyped
  <2> QED BY <2>1, EscapesTyped
<1>2. EscapedChrs(v) \in Seq(Text) /\ Len(EscapedChrs(v)) = Len(v)
  BY <1>1, PartsTyped DEF EscapedChrs
<1>3. \A i \in 1..Len(EscapedChrs(v)) : Len(EscapedChrs(v)[i]) <= 2
  BY <1>1, <1>2, TextTyped DEF EscapedChrs
<1> QED BY <1>2, <1>3, FlattenParts, FlattenLength DEF EscapedText, Text

\* Either a character that is not a backslash, or one and what stands for the character.
LEMMA EscapesBack ==
    ASSUME NEW c
    PROVE  \/ EscapedChr(c) = <<c>> /\ c # "\\"
           \/ \E d : EscapedChr(c) = <<"\\", d>> /\ UnescapedChr(d) = c
<1>1. DOMAIN Escapes = {"\n", "\r", "\"", "'", "\\"}
  BY DEF Escapes
<1>2. CASE c \in DOMAIN Escapes
  <2>1. UnescapedChr(Escapes[c]) = c
    BY <1>1, <1>2 DEF Escapes, UnescapedChr
  <2> QED BY <1>2, <2>1 DEF EscapedChr
<1>3. CASE c \notin DOMAIN Escapes
  BY <1>1, <1>3 DEF EscapedChr
<1> QED BY <1>2, <1>3

\* A string and whether a backslash waits.
Waiting == [str : Proper, esc : BOOLEAN]

LEMMA UnescapedTyped ==
    ASSUME NEW t \in Waiting, NEW c \in Chars, NEW room \in Nat
    PROVE  UnescapeNext(t, c, room) \in Waiting
<1>1. {"n", "r", "\n", "\r"} \subseteq Chars
  BY StringsAssumption DEF Escapes
<1>2. UnescapedChr(c) \in Chars
  BY <1>1 DEF UnescapedChr
<1>3. \A d \in Chars : <<d>> \in Text
  BY DEF Text
<1>4. t.str \in Proper
  BY DEF Waiting
<1>5. \A d \in Chars : StrAdd(t.str, <<d>>, room) \in Proper
  BY <1>3, <1>4, AddAppends DEF Appended
<1> QED BY <1>2, <1>4, <1>5 DEF Waiting, UnescapeNext

\* Character by character.
UnescapedAll(f, w, room) ==
    FoldLeft(LAMBDA t, c : UnescapeNext(t, c, room), [str |-> f, esc |-> FALSE], w)

LEMMA UnescapedGoesOn ==
    ASSUME NEW f \in Proper, NEW w \in Text, NEW room \in Nat
    PROVE  \E st \in [0..Len(w) -> Waiting] :
              /\ st[0] = [str |-> f, esc |-> FALSE]
              /\ st[Len(w)] = UnescapedAll(f, w, room)
              /\ \A j \in 1..Len(w) : st[j] = UnescapeNext(st[j - 1], w[j], room)
<1> DEFINE N == Len(w)
           base == [str |-> f, esc |-> FALSE]
           step == [p \in Waiting \X (1..N) |-> UnescapeNext(p[1], w[p[2]], room)]
           Def(g) == [S \in SUBSET DOMAIN w |->
                         IF S = {} THEN base ELSE UnescapeNext(g[S \ {Max(S)}], w[Max(S)], room)]
           iter == CHOOSE g : g = Def(g)
<1>1. N \in Nat /\ DOMAIN w = 1..N /\ \A i \in 1..N : w[i] \in Chars
  BY TextTyped
<1>2. base \in Waiting /\ step \in [Waiting \X (1..N) -> Waiting]
  <2>1. base \in Waiting
    BY DEF Waiting
  <2>2. ASSUME NEW t \in Waiting, NEW i \in 1..N PROVE UnescapeNext(t, w[i], room) \in Waiting
    BY <1>1, UnescapedTyped
  <2> QED BY <2>1, <2>2
<1> HIDE DEF base
<1>3. PICK it \in [SUBSET (1..N) -> Waiting] : Folded(it, N, base, step)
  <2> HIDE DEF step
  <2> QED BY <1>1, <1>2, FoldExists DEF Foldable
<1>4. it = Def(it)
  <2>1. ASSUME NEW S \in SUBSET (1..N), S # {}
        PROVE  step[<<it[S \ {Max(S)}], Max(S)>>] = UnescapeNext(it[S \ {Max(S)}], w[Max(S)], room)
    <3>1. Max(S) \in 1..N
      BY <1>1, <2>1, MaxIn
    <3>2. it[S \ {Max(S)}] \in Waiting
      OBVIOUS
    <3> QED BY <3>1, <3>2
  <2> HIDE DEF step
  <2> QED BY <1>1, <1>3, <2>1 DEF Folded
<1>5. iter = Def(iter)
  BY <1>4, Zenon
<1>6. UnescapedAll(f, w, room) = iter[DOMAIN w]
  BY Zenon DEF UnescapedAll, FoldLeft, MapThenFoldSet, base
<1> HIDE DEF iter, step
<1>7. iter[1..0] = base
  <2>1. 1..0 = {} /\ {} \in SUBSET DOMAIN w
    OBVIOUS
  <2> QED BY <1>5, <2>1
<1>8. ASSUME NEW i \in 1..N
      PROVE  iter[1..i] = UnescapeNext(iter[1..i - 1], w[i], room)
  <2>1. 1..i \in SUBSET DOMAIN w /\ i \in 1..i
    BY <1>1
  <2>2. Max(1..i) = i
    <3>1. i - 1 \in Nat /\ (i - 1) + 1 = i
      BY <1>1
    <3> QED BY <2>1, <3>1, MaxAt
  <2>3. (1..i) \ {i} = 1..i - 1
    BY <1>1
  <2> QED BY <1>5, <2>1, <2>2, <2>3
<1> DEFINE st == [j \in 0..N |-> iter[1..j]]
<1>9. ASSUME NEW j \in 0..N PROVE iter[1..j] \in Waiting
  <2> DEFINE T == {i \in Nat : i <= N => iter[1..i] \in Waiting}
  <2>1. 0 \in T
    BY <1>2, <1>7
  <2>2. ASSUME NEW i \in Nat, i \in T, i + 1 <= N PROVE iter[1..i + 1] \in Waiting
    <3>1. i + 1 \in 1..N /\ (i + 1) - 1 = i /\ i <= N
      BY <1>1, <2>2
    <3>2. iter[1..i + 1] = UnescapeNext(iter[1..i], w[i + 1], room)
      BY <1>8, <3>1
    <3> QED BY <1>1, <2>2, <3>1, <3>2, UnescapedTyped
  <2>3. \A i \in Nat : i \in T => i + 1 \in T
    BY <2>2
  <2> HIDE DEF T
  <2>4. j \in T /\ j <= N
    BY <1>1, <2>1, <2>3, Inductive
  <2> QED BY <2>4 DEF T
<1>10. st \in [0..N -> Waiting] /\ \A j \in 0..N : st[j] = iter[1..j]
  BY <1>9
<1> HIDE DEF st
<1>11. 0 \in 0..N /\ N \in 0..N /\ \A j \in 1..N : j \in 0..N /\ j - 1 \in 0..N
  BY <1>1
<1> QED BY <1>1, <1>6, <1>7, <1>8, <1>10, <1>11 DEF base

\* What was escaped is what is appended.
LEMMA UnescapeTakes ==
    ASSUME NEW n, Short(n), NEW f \in Proper, NEW v \in Text, NEW room \in Nat
    PROVE  Takes(f, UnescapedAll(f, EscapedText(v), room).str, v, n)
<1> DEFINE N == Len(v)
           vs == EscapedChrs(v)
           w == EscapedText(v)
<1>1. N \in Nat /\ (\A i \in 1..N : v[i] \in Chars)
      /\ vs \in Seq(Text) /\ Len(vs) = N /\ w \in Text /\ Len(w) \in Nat
      /\ \A i \in 1..N : vs[i] = EscapedChr(v[i])
  BY TextTyped, EscapedTextTyped DEF EscapedChrs
<1>2. PICK b \in [0..N -> Nat] : PartsBegin(b, vs, w)
  BY <1>1, FlattenParts DEF EscapedText, Text
<1>3. PICK st \in [0..Len(w) -> Waiting] :
              /\ st[0] = [str |-> f, esc |-> FALSE]
              /\ st[Len(w)] = UnescapedAll(f, w, room)
              /\ \A j \in 1..Len(w) : st[j] = UnescapeNext(st[j - 1], w[j], room)
  BY <1>1, UnescapedGoesOn
<1> HIDE DEF vs, w
<1> DEFINE Done(k) == ~st[b[k]].esc /\ Takes(f, st[b[k]].str, SubSeq(v, 1, k), n)
           T == {k \in Nat : k <= N => Done(k)}
<1>4. Done(0)
  <2>1. b[0] = 0
    BY <1>2 DEF PartsBegin
  <2>2. st[0].esc = FALSE /\ st[0].str = f
    BY <1>3
  <2>3. SubSeq(v, 1, 0) = <<>>
    BY SubSeqEmpty
  <2> QED BY <2>1, <2>2, <2>3 DEF Takes
<1>5. ASSUME NEW k \in Nat, Done(k), k + 1 <= N PROVE Done(k + 1)
  <2> DEFINE c == v[k + 1]
             t == st[b[k]]
             u == [str |-> StrAdd(t.str, <<c>>, room), esc |-> FALSE]
  <2>1. k + 1 \in 1..N /\ k \in 0..N /\ k + 1 \in 0..N /\ (k + 1) - 1 = k
    BY <1>1, <1>5
  <2>2. /\ b[k + 1] = b[k] + Len(EscapedChr(c)) /\ b[k + 1] <= Len(w) /\ b[k] \in Nat /\ b[k + 1] \in Nat
        /\ \A m \in 1..Len(EscapedChr(c)) : w[b[k] + m] = EscapedChr(c)[m]
    BY <1>1, <1>2, <2>1, SMTT(30) DEF PartsBegin
  <2>3. st[b[k + 1]] = u
    <3>1. CASE EscapedChr(c) = <<c>> /\ c # "\\"
      <4>1. b[k] + 1 \in 1..Len(w) /\ b[k + 1] = b[k] + 1 /\ w[b[k] + 1] = c /\ (b[k] + 1) - 1 = b[k]
        BY <1>1, <2>2, <3>1
      <4>2. st[b[k] + 1] = UnescapeNext(t, c, room)
        BY <1>3, <4>1
      <4>3. t \in Waiting /\ t.esc = FALSE
        BY <1>1, <1>5, <2>2 DEF Waiting
      <4> HIDE DEF t, c
      <4>4. UnescapeNext(t, c, room) = u
        BY <3>1, <4>3 DEF UnescapeNext, Waiting
      <4> QED BY <4>1, <4>2, <4>4
    <3>2. CASE \E d : EscapedChr(c) = <<"\\", d>> /\ UnescapedChr(d) = c
      <4>1. PICK d : EscapedChr(c) = <<"\\", d>> /\ UnescapedChr(d) = c
        BY <3>2
      <4>2. /\ b[k] + 1 \in 1..Len(w) /\ (b[k] + 1) - 1 = b[k] /\ w[b[k] + 1] = "\\"
            /\ b[k] + 2 \in 1..Len(w) /\ (b[k] + 2) - 1 = b[k] + 1 /\ w[b[k] + 2] = d
            /\ b[k + 1] = b[k] + 2
        BY <1>1, <2>2, <4>1
      <4>3. st[b[k] + 1] = UnescapeNext(t, "\\", room) /\ st[b[k] + 2] = UnescapeNext(st[b[k] + 1], d, room)
        BY <1>3, <4>2
      <4>4. t \in Waiting /\ t.esc = FALSE
        BY <1>1, <1>5, <2>2 DEF Waiting
      <4> DEFINE m == UnescapeNext(t, "\\", room)
      <4> HIDE DEF t
      <4>5. m.str = t.str /\ m.esc = TRUE
        BY <4>4 DEF UnescapeNext, Waiting
      <4> HIDE DEF m
      <4>6. UnescapeNext(m, d, room) = u
        BY <4>1, <4>5 DEF UnescapeNext
      <4> QED BY <4>2, <4>3, <4>6 DEF m
    <3> QED BY <3>1, <3>2, EscapesBack
  <2>4. /\ t.str \in Proper /\ <<c>> \in Text /\ SubSeq(v, 1, k) \in Text
        /\ SubSeq(v, 1, k + 1) = SubSeq(v, 1, k) \o <<c>>
    <3>1. t.str \in Proper
      BY <1>1, <2>2 DEF Waiting
    <3>2. <<c>> \in Text
      BY <1>1, <2>1 DEF Text
    <3>3. SubSeq(v, 1, k) \in Text
      BY <1>1, <2>1 DEF Text
    <3>4. SubSeq(v, 1, k + 1) = SubSeq(v, 1, (k + 1) - 1) \o <<v[k + 1]>>
      <4>1. 1 \in 1..Len(v) /\ k + 1 \in 1..Len(v) /\ v \in Seq(Chars)
        BY <1>1, <2>1 DEF Text
      <4> QED BY <4>1, SubSeqRecursiveSecond
    <3> QED BY <2>1, <3>1, <3>2, <3>3, <3>4
  <2>5. Takes(t.str, u.str, <<c>>, n)
    BY <2>4, AddTakes
  <2>6. Takes(f, t.str, SubSeq(v, 1, k), n)
    BY <1>5
  <2>7. u.esc = FALSE
    OBVIOUS
  <2> HIDE DEF t, u
  <2>8. Takes(f, u.str, SubSeq(v, 1, k + 1), n)
    BY <2>4, <2>5, <2>6, TakesTwice
  <2> QED BY <2>3, <2>7, <2>8
<1>6. Done(N)
  <2>1. 0 \in T
    BY <1>4
  <2>2. \A k \in Nat : k \in T => k + 1 \in T
    <3> HIDE DEF Done
    <3>1. \A k \in Nat : k + 1 <= N => k <= N
      BY <1>1
    <3> QED BY <1>5, <3>1
  <2> HIDE DEF T, Done
  <2>3. N \in T /\ N <= N
    BY <1>1, <2>1, <2>2, Inductive, SMTT(30)
  <2> QED BY <2>3 DEF T
<1>7. b[N] = Len(w) /\ SubSeq(v, 1, N) = v
  BY <1>1, <1>2, SubSeqFull DEF PartsBegin, Text
<1> QED BY <1>3, <1>6, <1>7 DEF w

------------------------------------------------------------------------------
(* Numbers: how far they reach counts, not what they say.                       *)

\* t has at most m more characters that count than s, and is within the bounds if there are.
Within(s, t, m, n) ==
    /\ t \in Proper
    /\ s.error => t = s
    /\ ~t.error => ~s.error /\ t.len <= s.len + m
    /\ Bounded(s, n) /\ (s.error \/ s.len + m <= Longest + n) => Bounded(t, n)

LEMMA TakesWithin ==
    ASSUME NEW n, NEW s \in Proper, NEW t, NEW v \in Text, Takes(s, t, v, n), NEW m \in Nat, Len(v) <= m, Short(n)
    PROVE  Within(s, t, m, n)
<1>1. Len(v) \in Nat /\ Longest \in Nat /\ n \in Nat
  BY TextTyped, StringsAssumption DEF Short
<1>2. s.len \in Nat
  BY DEF Proper, Strs
<1>3. CASE t = s /\ v = <<>>
  BY <1>1, <1>2, <1>3 DEF Within
<1>4. CASE Appended(s, t, v) /\ Fitting(s, t, v, n)
  <2>1. t \in Proper /\ (s.error => t = s) /\ (~t.error => ~s.error /\ t.len = s.len + Len(v))
    BY <1>4 DEF Appended
  <2>2. s.len + m <= Longest + n => s.len + Len(v) <= Longest + n
    BY <1>1, <1>2
  <2>3. ~t.error => t.len <= s.len + m
    BY <1>1, <1>2, <2>1
  <2> QED BY <1>4, <2>1, <2>2, <2>3 DEF Within, Fitting
<1> QED BY <1>3, <1>4 DEF Takes

LEMMA WithinTwice ==
    ASSUME NEW n, Short(n), NEW s \in Proper, NEW t, NEW u, NEW m \in Nat, NEW k \in Nat,
           Within(s, t, m, n), Within(t, u, k, n)
    PROVE  Within(s, u, m + k, n)
<1>1. Longest \in Nat /\ n \in Nat /\ s.len \in Nat /\ t.len \in Nat /\ u.len \in Nat
  BY StringsAssumption DEF Short, Proper, Strs, Within
<1>2. u \in Proper /\ (s.error => u = s) /\ (~u.error => ~s.error)
  BY DEF Within
<1>3. ASSUME ~u.error PROVE u.len <= s.len + (m + k)
  <2>1. t.len <= s.len + m /\ u.len <= t.len + k
    BY <1>3 DEF Within
  <2> QED BY <1>1, <2>1
<1>4. ASSUME Bounded(s, n), s.error \/ s.len + (m + k) <= Longest + n PROVE Bounded(u, n)
  <2>1. CASE t.error
    BY <2>1 DEF Within, Bounded
  <2>2. CASE ~t.error
    <3>1. ~s.error /\ t.len <= s.len + m
      BY <2>2 DEF Within
    <3>2. s.len + m <= Longest + n /\ t.len + k <= Longest + n
      BY <1>1, <1>4, <3>1
    <3> QED BY <1>4, <3>2 DEF Within
  <2> QED BY <2>1, <2>2
<1> QED BY <1>2, <1>3, <1>4 DEF Within

LEMMA WithinSame ==
    ASSUME NEW n, Short(n), NEW s \in Proper, NEW m \in Nat
    PROVE  Within(s, s, m, n)
<1>1. s.len \in Nat
  BY DEF Proper, Strs
<1> QED BY <1>1 DEF Within

LEMMA SignedTyped ==
    ASSUME NEW digits \in Text, NEW negative \in BOOLEAN
    PROVE  Signed(negative, digits) \in Text /\ Len(Signed(negative, digits)) <= Len(digits) + 1
<1>1. <<"-">> \in Text /\ Len(<<"-">>) = 1 /\ <<>> \in Text /\ Len(<<>>) = 0
  BY StringsAssumption DEF Text
<1>2. /\ <<"-">> \o digits \in Text /\ Len(<<"-">> \o digits) = 1 + Len(digits)
      /\ <<>> \o digits \in Text /\ Len(<<>> \o digits) = 0 + Len(digits)
  BY <1>1, Concat
<1>3. Len(digits) \in Nat /\ 1 + Len(digits) = Len(digits) + 1 /\ 0 + Len(digits) <= Len(digits) + 1
  BY TextTyped
<1>4. CASE negative
  BY <1>2, <1>3, <1>4 DEF Signed
<1>5. CASE ~negative
  BY <1>2, <1>3, <1>5 DEF Signed
<1> QED BY <1>4, <1>5

LEMMA IntWithin ==
    ASSUME NEW n, Short(n), NEW s \in Proper, NEW digits \in Text, NEW negative \in BOOLEAN,
           NEW len \in Nat, NEW room \in Nat
    PROVE  Within(s, StrAddIntFmt(s, digits, negative, len, room), 11, n)
<1> DEFINE u == StrAddIntFmt(s, digits, negative, len, room)
           t == StrFit(s, len + 1, room)
           v == Signed(negative, digits)
<1>1. CASE len > 10
  <2>1. u = s
    BY <1>1 DEF StrAddIntFmt
  <2> QED BY <2>1, WithinSame
<1>2. CASE ~(len > 10) /\ Len(digits) > len
  <2> DEFINE hashes == [i \in 1..len |-> "#"]
  <2>1. u = StrAdd(s, hashes, room)
    BY <1>2 DEF StrAddIntFmt
  <2>2. hashes \in Text /\ Len(hashes) = len
    BY StringsAssumption DEF Text
  <2> HIDE DEF hashes, u
  <2>3. Len(hashes) <= 11
    BY <1>2, <2>2
  <2> QED BY <2>1, <2>2, <2>3, AddTakes, TakesWithin DEF u
<1>3. CASE ~(len > 10) /\ ~(Len(digits) > len)
  <2>0. Len(digits) \in Nat /\ v \in Text /\ Len(v) \in Nat /\ Len(v) <= Len(digits) + 1
    BY SignedTyped, TextTyped
  <2> HIDE DEF t, v
  <2>1. /\ t \in Proper /\ (s.error => t = s)
        /\ ~t.error => ~s.error /\ t.data = s.data /\ t.len = s.len /\ t.step = s.step
    BY FitIsProper DEF t
  <2>2. u = IF t.error THEN t ELSE Put(t, v)
    BY <1>3 DEF StrAddIntFmt, t, v
  <2> HIDE DEF u
  <2>3. s.len \in Nat /\ Longest \in Nat /\ n \in Nat
    BY StringsAssumption DEF Short, Proper, Strs
  <2>4. ASSUME Bounded(s, n), s.error \/ s.len + 11 <= Longest + n
        PROVE  Bounded(t, n) /\ (~t.error => s.len + (len + 1) < t.size)
    <3>1. len + 1 \in Nat /\ (s.len + 11 <= Longest + n => s.len + (len + 1) <= Longest + n)
      BY <1>3, <2>3
    <3> QED BY <2>4, <3>1, FitBounded DEF t
  <2>5. CASE t.error
    <3>1. u = t
      BY <2>2, <2>5
    <3>2. Within(s, t, 11, n)
      BY <2>1, <2>4, <2>5, Zenon DEF Within
    <3> QED BY <3>1, <3>2 DEF u
  <2>6. CASE ~t.error
    <3> DEFINE p == Written(t, v, 0)
    <3>1. u = p
      <4>1. \A q \in Strs : [q EXCEPT !.len = q.len + 0] = q
        BY DEF Strs
      <4>2. Counted(t) \o v \in Text
        BY <2>0, <2>1, <2>6, CountedTyped, Concat
      <4>3. Put(t, v) = [t EXCEPT !.data = Counted(t) \o v]
        BY DEF Put, Counted
      <4>4. Put(t, v) \in Strs
        BY <2>1, <4>2, <4>3 DEF Proper, Strs
      <4>5. Written(t, v, 0) = Put(t, v)
        BY <4>1, <4>4 DEF Written
      <4> QED BY <2>2, <2>6, <4>5
    <3>2. /\ p \in Proper /\ ~p.error /\ p.data = Counted(t) \o v /\ p.len = t.len + 0
          /\ p.step = t.step /\ p.size = t.size
      <4>1. 0 \in Nat /\ 0 <= Len(v)
        BY <2>0
      <4> QED BY <2>0, <2>1, <2>6, <4>1, PutIsProper
    <3>3. Len(p.data) = t.len + Len(v) /\ t.len \in Nat
      <4>1. Counted(t) \in Text /\ Len(Counted(t)) = t.len /\ t.len \in Nat
        BY <2>1, <2>6, CountedTyped
      <4>2. Len(Counted(t) \o v) = t.len + Len(v)
        BY <2>0, <4>1, Concat
      <4> QED BY <3>2, <4>1, <4>2
    <3> HIDE DEF p
    <3>4. ASSUME Bounded(s, n), s.error \/ s.len + 11 <= Longest + n PROVE Bounded(p, n)
      <4>1. Bounded(t, n) /\ s.len + (len + 1) < t.size /\ t.len = s.len /\ t.size \in Nat
        BY <2>1, <2>4, <2>6, <3>4 DEF Proper, Strs
      <4>2. Len(p.data) < p.size
        BY <1>3, <2>0, <3>2, <3>3, <4>1
      <4> QED BY <2>6, <3>2, <4>1, <4>2 DEF Bounded
    <3>5. p.len <= s.len + 11
      BY <2>1, <2>3, <2>6, <3>2
    <3>6. ~s.error /\ p \in Proper
      BY <2>1, <2>6, <3>2
    <3>7. Within(s, p, 11, n)
      BY <3>4, <3>5, <3>6, Zenon DEF Within
    <3> QED BY <3>1, <3>7 DEF u
  <2> QED BY <2>5, <2>6 DEF u
<1> QED BY <1>1, <1>2, <1>3

LEMMA FloatWithin ==
    ASSUME NEW n, Short(n), NEW s \in Proper, NEW whole \in Text, NEW decimals \in Text,
           NEW negative \in BOOLEAN, NEW len \in Nat, NEW room \in Nat
    PROVE  Within(s, StrAddFloatExt(s, whole, decimals, negative, len, room), 24, n)
<1> DEFINE sign == IF negative THEN StrAdd(s, <<"-">>, room) ELSE s
           int == StrAddIntFmt(sign, whole, FALSE, len, room)
           point == StrAdd(int, <<".">>, room)
           all == StrAddIntFmt(point, decimals, FALSE, Len(decimals), room)
<1>1. \A c \in {"-", "."} : <<c>> \in Text /\ Len(<<c>>) <= 1
  BY StringsAssumption DEF Text
<1>2. Within(s, sign, 1, n) /\ sign \in Proper
  <2>1. CASE negative
    BY <1>1, <2>1, AddTakes, TakesWithin DEF Within
  <2>2. CASE ~negative
    BY <2>2, WithinSame
  <2> QED BY <2>1, <2>2
<1> HIDE DEF sign
<1>3. Within(sign, int, 11, n) /\ int \in Proper
  <2>1. FALSE \in BOOLEAN
    OBVIOUS
  <2>2. Within(sign, int, 11, n)
    BY <1>2, <2>1, IntWithin, Zenon
  <2> QED BY <2>2 DEF Within
<1> HIDE DEF int
<1>4. Within(int, point, 1, n) /\ point \in Proper
  BY <1>1, <1>3, AddTakes, TakesWithin DEF Within
<1> HIDE DEF point
<1>5. Within(point, all, 11, n) /\ all \in Proper
  <2>1. FALSE \in BOOLEAN /\ Len(decimals) \in Nat
    BY TextTyped
  <2>2. Within(point, all, 11, n)
    BY <1>4, <2>1, IntWithin, Zenon
  <2> QED BY <2>2 DEF Within
<1> HIDE DEF all
<1>6. Within(s, int, 12, n)
  <2>1. Within(s, int, 1 + 11, n)
    BY <1>2, <1>3, WithinTwice
  <2> QED BY <2>1
<1>7. Within(s, point, 13, n)
  <2>1. Within(s, point, 12 + 1, n)
    BY <1>4, <1>6, WithinTwice
  <2> QED BY <2>1
<1>8. Within(s, all, 24, n)
  <2>1. Within(s, all, 13 + 11, n)
    BY <1>5, <1>7, WithinTwice
  <2> QED BY <2>1
<1>9. Within(s, int, 24, n)
  <2>1. Within(s, int, 12 + 12, n)
    BY <1>3, <1>6, WithinSame, WithinTwice
  <2> QED BY <2>1
<1>10. StrAddFloatExt(s, whole, decimals, negative, len, room) = IF decimals = <<>> THEN int ELSE all
  BY DEF StrAddFloatExt, all, point, int, sign
<1> QED BY <1>8, <1>9, <1>10

------------------------------------------------------------------------------
(* The invariant.                                                               *)

\* s is a string that holds tx, unless it failed or got a number.
Holds(s, tx, number, n) ==
    /\ s \in Proper /\ Bounded(s, n)
    /\ tx \in Text /\ number \in BOOLEAN
    /\ ~s.error /\ ~number => s.data = tx /\ s.len = Len(tx)

SInv(n) == Holds(str, text, numbered, n)

\* What keeps a call within the bounds of the model.
Fits(s, m, n) == m \in Nat /\ (s.error \/ s.len + m <= Longest + n)

LEMMA InitHolds ==
    ASSUME NEW n, Short(n), Init
    PROVE  SInv(n)
<1>1. PICK g \in Garbage : str = [data |-> NoData, size |-> g, step |-> g, len |-> g, error |-> TRUE]
  BY DEF Init
<1>2. g \in Nat /\ <<>> \in Text
  BY StringsAssumption DEF Text
<1>3. str \in Proper /\ str.error
  BY <1>1, <1>2 DEF Proper, Strs
<1> QED BY <1>2, <1>3 DEF SInv, Holds, Bounded, Init

LEMMA TakingHolds ==
    ASSUME NEW n, Short(n), NEW s, NEW tx, NEW number, Holds(s, tx, number, n),
           NEW t, NEW v \in Text, Takes(s, t, v, n), NEW m \in Nat, Len(v) <= m, Fits(s, m, n)
    PROVE  Holds(t, tx \o v, number, n)
<1>1. s \in Proper /\ Bounded(s, n) /\ tx \in Text /\ number \in BOOLEAN
  BY DEF Holds
<1>2. tx \o v \in Text /\ Len(tx \o v) = Len(tx) + Len(v)
  BY <1>1, Concat
<1>3. Within(s, t, m, n)
  BY <1>1, TakesWithin
<1>4. t \in Proper /\ Bounded(t, n) /\ (~t.error => ~s.error)
  BY <1>1, <1>3 DEF Within, Fits
<1>5. ASSUME ~t.error, ~number PROVE t.data = tx \o v /\ t.len = Len(tx \o v)
  <2>1. ~s.error /\ s.data = tx /\ s.len = Len(tx)
    BY <1>4, <1>5 DEF Holds
  <2>2. CASE t = s /\ v = <<>>
    <3>1. tx \o <<>> = tx
      BY <1>1 DEF Text
    <3> QED BY <2>1, <2>2, <3>1
  <2>3. CASE Appended(s, t, v)
    <3>1. t.data = Counted(s) \o v /\ t.len = s.len + Len(v)
      BY <1>5, <2>3 DEF Appended
    <3>2. Counted(s) = tx
      BY <1>1, <2>1, SubSeqFull DEF Counted, Text
    <3> QED BY <1>2, <2>1, <3>1, <3>2
  <2> QED BY <2>2, <2>3 DEF Takes
<1> QED BY <1>1, <1>2, <1>4, <1>5 DEF Holds

\* A number may have been added: what the string holds is not looked at again.
LEMMA NumberHolds ==
    ASSUME NEW n, Short(n), NEW s, NEW tx, NEW number, Holds(s, tx, number, n),
           NEW t, NEW m \in Nat, Within(s, t, m, n), Fits(s, m, n)
    PROVE  Holds(t, tx, TRUE, n)
<1>1. t \in Proper /\ Bounded(t, n)
  BY DEF Holds, Within, Fits
<1> QED BY <1>1 DEF Holds

LEMMA FitHolds ==
    ASSUME NEW n, Short(n), NEW s, NEW tx, NEW number, Holds(s, tx, number, n),
           NEW m \in Nat, Fits(s, m, n), NEW room \in Nat
    PROVE  LET f == StrFit(s, m, room) IN
           /\ Holds(f, tx, number, n) /\ (s.error => f = s) /\ (~f.error => f.len = s.len)
<1> DEFINE f == StrFit(s, m, room)
<1>1. s \in Proper /\ Bounded(s, n) /\ tx \in Text /\ number \in BOOLEAN
  BY DEF Holds
<1>2. /\ f \in Proper /\ (s.error => f = s)
      /\ ~f.error => ~s.error /\ f.data = s.data /\ f.len = s.len
  BY <1>1, FitIsProper
<1>3. Bounded(f, n)
  BY <1>1, FitBounded DEF Fits
<1> HIDE DEF f
<1>4. Holds(f, tx, number, n)
  BY <1>1, <1>2, <1>3 DEF Holds
<1> QED BY <1>2, <1>4 DEF f

LEMMA EmptyText == <<>> \in Text /\ Len(<<>>) = 0 /\ <<>> # NoData
<1>1. <<>> \in Text /\ Len(<<>>) = 0
  BY DEF Text
<1>2. NoData \notin Text
  BY StringsAssumption DEF Text
<1> QED BY <1>1, <1>2, Zenon

LEMMA NewHolds ==
    ASSUME NEW n, Short(n), NEW s \in Proper, NEW size \in Nat \ {0}, NEW step \in Nat, NEW room \in Nat,
           size <= n, step <= n
    PROVE  Holds(StrNew(s, size, step, room), <<>>, FALSE, n)
<1> DEFINE t == StrNew(s, size, step, room)
<1>1. <<>> \in Text /\ Len(<<>>) = 0 /\ n \in Nat /\ Longest \in Nat /\ <<>> # NoData
  BY EmptyText, StringsAssumption DEF Short
<1>2. CASE size > room
  <2>1. t = [s EXCEPT !.data = NoData, !.error = TRUE]
    BY <1>2 DEF StrNew
  <2> HIDE DEF t
  <2>2. t \in Proper /\ t.error
    BY <2>1 DEF Proper, Strs
  <2> QED BY <1>1, <2>2 DEF Holds, Bounded, t
<1>3. CASE ~(size > room)
  <2>1. t = [data |-> <<>>, size |-> size, step |-> step, len |-> 0, error |-> FALSE]
    BY <1>3 DEF StrNew
  <2> HIDE DEF t
  <2>2. t \in Strs /\ ~t.error /\ t.data = <<>> /\ t.len = 0 /\ t.size = size /\ t.step = step
    BY <1>1, <2>1 DEF Strs
  <2>3. t \in Proper
    BY <1>1, <2>2 DEF Proper
  <2>4. Bounded(t, n)
    BY <1>1, <2>2 DEF Bounded
  <2> QED BY <1>1, <2>2, <2>3, <2>4 DEF Holds, t
<1> QED BY <1>2, <1>3

\* str_set begins with the buffer it has.
LEMMA SetHolds ==
    ASSUME NEW n, Short(n), NEW s \in Proper, Bounded(s, n), NEW v \in Text, Len(v) <= n, NEW room \in Nat
    PROVE  Holds(StrSet(s, v, room), v, FALSE, n) /\ (s.error => StrSet(s, v, room) = s)
<1>0. n \in Nat /\ Longest \in Nat /\ Len(v) \in Nat
  BY StringsAssumption, TextTyped DEF Short
<1>1. CASE s.error
  <2>1. StrSet(s, v, room) = s
    BY <1>1 DEF StrSet, Proper
  <2> QED BY <1>1, <2>1 DEF Holds
<1>2. CASE ~s.error
  <2> DEFINE e == [s EXCEPT !.data = <<>>, !.len = 0]
  <2>1. <<>> \in Text /\ Len(<<>>) = 0 /\ <<>> # NoData
    BY EmptyText
  <2>2. e \in Strs /\ e.data = <<>> /\ e.len = 0 /\ e.error = s.error /\ e.size = s.size /\ e.step = s.step
    BY <2>1 DEF Proper, Strs
  <2>3. StrSet(s, v, room) = StrAdd(e, v, room)
    BY <1>2 DEF StrSet, Proper
  <2> HIDE DEF e
  <2>4. e \in Proper
    BY <1>2, <2>1, <2>2 DEF Proper
  <2>5. Bounded(e, n)
    <3>1. s.data \in Text
      BY <1>2, CountedTyped
    <3>2. Len(s.data) \in Nat /\ Len(s.data) < s.size /\ s.size \in Nat
      BY <1>2, <3>1, TextTyped DEF Bounded, Proper, Strs
    <3> QED BY <1>2, <2>1, <2>2, <3>2 DEF Bounded
  <2>6. Holds(e, <<>>, FALSE, n)
    BY <2>1, <2>2, <2>4, <2>5 DEF Holds
  <2>7. Fits(e, Len(v), n) /\ Len(v) <= Len(v)
    BY <1>0, <2>2 DEF Fits
  <2>8. Holds(StrAdd(e, v, room), <<>> \o v, FALSE, n)
    BY <1>0, <2>4, <2>6, <2>7, AddTakes, TakingHolds
  <2>9. <<>> \o v = v
    BY DEF Text
  <2> QED BY <1>2, <2>3, <2>8, <2>9
<1> QED BY <1>1, <1>2

LEMMA RmcHolds ==
    ASSUME NEW n, NEW s, NEW tx, NEW number, Holds(s, tx, number, n)
    PROVE  Holds(StrRmc(s), IF tx = <<>> THEN tx ELSE Front(tx), number, n)
<1> DEFINE t == StrRmc(s)
           ty == IF tx = <<>> THEN tx ELSE Front(tx)
           d == IF s.data = NoData THEN s.data ELSE SubSeq(s.data, 1, s.len - 1)
<1>1. s \in Proper /\ s \in Strs /\ Bounded(s, n) /\ tx \in Text /\ number \in BOOLEAN
  BY DEF Holds, Proper
<1>2. Len(tx) \in Nat /\ (tx = <<>> <=> Len(tx) = 0)
  BY <1>1 DEF Text
<1>3. ty \in Text /\ (tx # <<>> => ty = SubSeq(tx, 1, Len(tx) - 1) /\ Len(ty) = Len(tx) - 1)
  <2>1. \A x \in Text, k \in Nat : k < Len(x) => SubSeq(x, 1, k) \in Text /\ Len(SubSeq(x, 1, k)) = k
    BY DEF Text
  <2>2. tx # <<>> => Len(tx) - 1 \in Nat /\ Len(tx) - 1 < Len(tx)
    BY <1>2
  <2>3. tx # <<>> => /\ SubSeq(tx, 1, Len(tx) - 1) \in Text
                     /\ Len(SubSeq(tx, 1, Len(tx) - 1)) = Len(tx) - 1
    BY <1>1, <2>1, <2>2
  <2> QED BY <1>1, <2>3 DEF Front
<1>4. CASE s.len = 0
  <2>1. t = s
    BY <1>4 DEF StrRmc
  <2>2. ~s.error /\ ~number => tx = <<>> /\ s.data = tx
    BY <1>2, <1>4 DEF Holds
  <2> HIDE DEF t
  <2>3. ~s.error /\ ~number => s.data = ty /\ s.len = Len(ty)
    BY <2>2 DEF Holds
  <2> HIDE DEF ty
  <2> QED BY <1>1, <1>3, <2>1, <2>3 DEF Holds, t, ty
<1>5. CASE s.len # 0
  <2>0. t = [s EXCEPT !.len = s.len - 1, !.data = d]
    BY <1>5 DEF StrRmc
  <2>1. s.len \in Nat \ {0} /\ s.len - 1 \in Nat
    BY <1>1, <1>5 DEF Strs
  <2>2. ASSUME ~s.error
        PROVE  /\ s.data \in Text /\ d = SubSeq(s.data, 1, s.len - 1) /\ d \in Text /\ d # NoData
               /\ Len(d) = s.len - 1 /\ Len(d) < Len(s.data) /\ Len(s.data) \in Nat
    <3>1. s.data \in Text /\ s.data # NoData /\ s.len <= Len(s.data)
      BY <1>1, <2>2, CountedTyped DEF Proper
    <3>2. \A x \in Text, k \in Nat : k < Len(x) => SubSeq(x, 1, k) \in Text /\ Len(SubSeq(x, 1, k)) = k
      BY DEF Text
    <3>3. s.len - 1 < Len(s.data) /\ Len(s.data) \in Nat
      BY <2>1, <3>1, TextTyped
    <3>4. \A x \in Text : x # NoData
      BY StringsAssumption DEF Text
    <3> QED BY <2>1, <3>1, <3>2, <3>3, <3>4
  <2>3. s.error => d = NoData
    BY <1>1 DEF Proper
  <2>4. d \in Text \cup {NoData}
    BY <2>2, <2>3
  <2> HIDE DEF d, ty, t
  <2>5. t \in Strs /\ t.data = d /\ t.len = s.len - 1 /\ t.error = s.error /\ t.size = s.size /\ t.step = s.step
    BY <1>1, <2>0, <2>1, <2>4 DEF Strs
  <2>6. t \in Proper
    <3>1. t.error <=> t.data = NoData
      BY <2>2, <2>3, <2>5
    <3>2. ~t.error => t.len <= Len(t.data)
      BY <2>1, <2>2, <2>5
    <3> QED BY <2>5, <3>1, <3>2 DEF Proper
  <2>7. Bounded(t, n)
    <3>1. ~s.error => Len(d) < s.size
      BY <1>1, <2>1, <2>2 DEF Bounded, Strs
    <3> QED BY <1>1, <2>5, <3>1 DEF Bounded
  <2>8. ASSUME ~t.error, ~number PROVE t.data = ty /\ t.len = Len(ty)
    <3>1. ~s.error /\ s.data = tx /\ s.len = Len(tx)
      BY <2>5, <2>8 DEF Holds
    <3>2. tx # <<>>
      BY <1>2, <1>5, <3>1
    <3> QED BY <1>3, <2>2, <2>5, <3>1, <3>2
  <2> QED BY <1>1, <1>3, <2>6, <2>7, <2>8 DEF Holds, t, ty
<1> QED BY <1>4, <1>5

LEMMA BecomesHolds ==
    ASSUME NEW n, NEW s, NEW tx, NEW number \in BOOLEAN, Holds(s, tx, number, n), Becomes(s, tx, number)
    PROVE  SInv(n)'
<1>1. str' = s /\ numbered' = (number /\ ~s.error) /\ text' = IF s.error \/ number THEN <<>> ELSE tx
  BY DEF Becomes
<1>2. s \in Proper /\ Bounded(s, n) /\ tx \in Text /\ <<>> \in Text
  BY DEF Holds, Text
<1>3. numbered' \in BOOLEAN /\ text' \in Text
  BY <1>1, <1>2
<1>4. ~str'.error /\ ~numbered' => str'.data = text' /\ str'.len = Len(text')
  BY <1>1 DEF Holds
<1>5. Holds(str', text', numbered', n)
  BY <1>1, <1>2, <1>3, <1>4 DEF Holds
<1> QED BY <1>5 DEF SInv

LEMMA PieceTyped ==
    ASSUME NEW n, Short(n), NEW v \in Pieces
    PROVE  v \in Text /\ Len(v) \in Nat /\ 4 * Len(v) + 2 <= n /\ n \in Nat /\ Longest \in Nat
BY StringsAssumption DEF Short, Text

\* What one call appends is within the bounds.
LEMMA CallFits ==
    ASSUME NEW n, Short(n), SInv(n), StrLen(str) <= Longest, NEW m \in Nat, m <= n
    PROVE  Fits(str, m, n)
<1>1. str.len \in Nat /\ Longest \in Nat /\ n \in Nat
  BY StringsAssumption DEF SInv, Holds, Proper, Strs, Short
<1> QED BY <1>1 DEF Fits, StrLen

\* What a call does to a string that failed.
Silent(s, t) == s.error => t = s

LEMMA AddedHolds ==
    ASSUME NEW n, Short(n), SInv(n), StrLen(str) <= Longest,
           NEW t, NEW v \in Text, Takes(str, t, v, n), NEW m \in Nat, Len(v) <= m, m <= n, Added(t, v)
    PROVE  SInv(n)' /\ Silent(str, str')
<1>1. Fits(str, m, n)
  BY CallFits
<1>2. Holds(t, text \o v, numbered, n)
  BY <1>1, TakingHolds DEF SInv
<1>3. numbered \in BOOLEAN
  BY DEF SInv, Holds
<1>4. SInv(n)'
  BY <1>2, <1>3, BecomesHolds DEF Added
<1>5. Silent(str, t)
  BY TakesIsProper DEF SInv, Holds, Silent
<1>6. str' = t
  BY DEF Added, Becomes
<1> QED BY <1>4, <1>5, <1>6

LEMMA NumberAddedHolds ==
    ASSUME NEW n, Short(n), SInv(n), StrLen(str) <= Longest,
           NEW t, Within(str, t, 24, n), NumberAdded(t)
    PROVE  SInv(n)' /\ Silent(str, str')
<1>1. Fits(str, 24, n)
  BY CallFits DEF Short
<1>2. Holds(t, text, TRUE, n)
  BY <1>1, NumberHolds DEF SInv
<1>3. SInv(n)'
  BY <1>2, BecomesHolds DEF NumberAdded
<1>4. str' = t /\ Silent(str, t)
  BY DEF NumberAdded, Becomes, Within, Silent
<1> QED BY <1>3, <1>4

LEMMA NewStep ==
    ASSUME NEW n, Short(n), SInv(n), New \/ Newn
    PROVE  SInv(n)'
<1>1. str \in Proper
  BY DEF SInv, Holds
<1>2. CASE New
  <2>1. PICK c \in Capacities, room \in Rooms : Started(StrNew(str, c[1], c[2], room), <<>>)
    BY <1>2 DEF New
  <2>2. c[1] \in Nat \ {0} /\ c[2] \in Nat /\ c[1] <= n /\ c[2] <= n /\ room \in Nat
    BY StringsAssumption DEF Short
  <2>3. Holds(StrNew(str, c[1], c[2], room), <<>>, FALSE, n)
    BY <1>1, <2>2, NewHolds
  <2> QED BY <2>1, <2>3, BecomesHolds DEF Started
<1>3. CASE Newn
  <2>1. PICK v \in Pieces, room \in Rooms : Started(StrNewn(str, v, room), v)
    BY <1>3 DEF Newn
  <2>2. v \in Text /\ Len(v) + 1 \in Nat \ {0} /\ Len(v) + 1 <= n /\ room \in Nat
    BY PieceTyped, StringsAssumption
  <2> DEFINE t == StrNew(str, Len(v) + 1, Len(v) + 1, room)
  <2>3. Holds(t, <<>>, FALSE, n)
    BY <1>1, <2>2, NewHolds
  <2>4. t.error \/ t.len = 0
    BY <1>1 DEF StrNew, Proper, Strs
  <2>5. Len(v) \in Nat /\ Len(v) <= n /\ Len(v) <= Len(v) /\ Longest \in Nat /\ n \in Nat
    BY PieceTyped
  <2> HIDE DEF t
  <2>6. Fits(t, Len(v), n)
    BY <2>4, <2>5 DEF Fits
  <2>7. t \in Proper
    BY <2>3 DEF Holds
  <2>8. Holds(StrAdd(t, v, room), <<>> \o v, FALSE, n)
    BY <2>2, <2>3, <2>5, <2>6, <2>7, AddTakes, TakingHolds
  <2>9. <<>> \o v = v
    BY <2>2 DEF Text
  <2>10. Holds(StrNewn(str, v, room), v, FALSE, n)
    BY <2>8, <2>9 DEF StrNewn, t
  <2> QED BY <2>1, <2>10, BecomesHolds DEF Started
<1> QED BY <1>2, <1>3

LEMMA FreeStep ==
    ASSUME NEW n, Short(n), SInv(n), Free
    PROVE  SInv(n)'
<1>1. StrFree(str) \in Proper /\ StrFree(str).error
  BY FreeIsProper DEF SInv, Holds, Proper
<1>2. Holds(StrFree(str), <<>>, FALSE, n)
  BY <1>1, EmptyText DEF Holds, Bounded
<1> QED BY <1>2, BecomesHolds DEF Free, Started

LEMMA SetStep ==
    ASSUME NEW n, Short(n), SInv(n), Set
    PROVE  SInv(n)' /\ Silent(str, str')
<1>1. PICK v \in Pieces, room \in Rooms : Started(StrSet(str, v, room), v)
  BY DEF Set
<1>2. v \in Text /\ Len(v) <= n /\ room \in Nat /\ str \in Proper /\ Bounded(str, n)
  BY PieceTyped, StringsAssumption DEF SInv, Holds
<1>3. Holds(StrSet(str, v, room), v, FALSE, n) /\ Silent(str, StrSet(str, v, room))
  BY <1>2, SetHolds DEF Silent
<1>4. str' = StrSet(str, v, room)
  BY <1>1 DEF Started, Becomes
<1> QED BY <1>1, <1>3, <1>4, BecomesHolds DEF Started

LEMMA RmcStep ==
    ASSUME NEW n, SInv(n), Rmc
    PROVE  SInv(n)' /\ (str.len = 0 => UNCHANGED str)
<1> DEFINE t == StrRmc(str)
           tx == IF text = <<>> THEN text ELSE Front(text)
<1>1. Holds(t, tx, numbered, n) /\ numbered \in BOOLEAN
  BY RmcHolds DEF SInv, Holds
<1>2. Becomes(t, tx, numbered)
  BY DEF Rmc
<1>3. str.len = 0 => str' = str
  BY DEF Rmc, Becomes, StrRmc
<1> HIDE DEF t, tx
<1> QED BY <1>1, <1>2, <1>3, BecomesHolds

LEMMA AddStep ==
    ASSUME NEW n, Short(n), SInv(n), StrLen(str) <= Longest, Add
    PROVE  SInv(n)' /\ Silent(str, str')
<1>1. PICK v \in Pieces, room \in Rooms : Added(StrAdd(str, v, room), v)
  BY DEF Add
<1>2. v \in Text /\ Len(v) \in Nat /\ Len(v) <= Len(v) /\ Len(v) <= n /\ room \in Nat /\ str \in Proper
  BY PieceTyped, StringsAssumption DEF SInv, Holds
<1>3. Takes(str, StrAdd(str, v, room), v, n)
  BY <1>2, AddTakes
<1> QED BY <1>1, <1>2, <1>3, AddedHolds

LEMMA UrlTakes ==
    ASSUME NEW n, Short(n), NEW s \in Proper, NEW v \in Text, NEW room \in Nat
    PROVE  Takes(s, StrAddUrlEnc(s, v, room), UrlText(v), n)
<1>1. UrlChrs(v) \in Seq(Text)
  BY UrlTextTyped
<1> QED BY <1>1, EachTakes DEF StrAddUrlEnc, UrlText

LEMMA AddUrlEncStep ==
    ASSUME NEW n, Short(n), SInv(n), StrLen(str) <= Longest, AddUrlEnc
    PROVE  SInv(n)' /\ Silent(str, str')
<1>1. PICK v \in Pieces, room \in Rooms : Added(StrAddUrlEnc(str, v, room), UrlText(v))
  BY DEF AddUrlEnc
<1>2. v \in Text /\ Len(v) * 3 \in Nat /\ Len(v) * 3 <= n /\ room \in Nat /\ str \in Proper
  BY PieceTyped, StringsAssumption DEF SInv, Holds
<1>3. Takes(str, StrAddUrlEnc(str, v, room), UrlText(v), n)
  BY <1>2, UrlTakes
<1>4. UrlText(v) \in Text /\ Len(UrlText(v)) <= Len(v) * 3
  BY <1>2, UrlTextTyped
<1> QED BY <1>1, <1>2, <1>3, <1>4, AddedHolds

LEMMA AddQVarStep ==
    ASSUME NEW n, Short(n), SInv(n), StrLen(str) <= Longest, AddQVar
    PROVE  SInv(n)' /\ Silent(str, str')
<1>1. PICK v \in Pieces, room \in Rooms :
          Added(StrAddQVar(str, v, v, room), <<"&">> \o v \o <<"=">> \o UrlText(v))
  BY DEF AddQVar
<1>2. /\ v \in Text /\ Len(v) \in Nat /\ 4 * Len(v) + 2 <= n /\ n \in Nat
      /\ room \in Nat /\ str \in Proper
  BY PieceTyped, StringsAssumption DEF SInv, Holds
<1>3. <<"&">> \in Text /\ Len(<<"&">>) = 1 /\ <<"=">> \in Text /\ Len(<<"=">>) = 1
  BY StringsAssumption DEF Text
<1>4. UrlText(v) \in Text /\ Len(UrlText(v)) <= Len(v) * 3 /\ Len(UrlText(v)) \in Nat
  BY <1>2, UrlTextTyped, TextTyped
<1> DEFINE a == <<"&">> \o v
           b == a \o <<"=">>
           c == b \o UrlText(v)
           s1 == StrAdd(str, <<"&">>, room)
           s2 == StrAdd(s1, v, room)
           s3 == StrAdd(s2, <<"=">>, room)
           s4 == StrAddUrlEnc(s3, v, room)
<1>5. a \in Text /\ Len(a) = 1 + Len(v)
  BY <1>2, <1>3, Concat
<1> HIDE DEF a
<1>6. b \in Text /\ Len(b) = Len(a) + 1
  BY <1>3, <1>5, Concat
<1> HIDE DEF b
<1>7. c \in Text /\ Len(c) = Len(b) + Len(UrlText(v))
  BY <1>4, <1>6, Concat
<1> HIDE DEF c
<1>8. Takes(str, s1, <<"&">>, n) /\ s1 \in Proper
  BY <1>2, <1>3, AddTakes, TakesIsProper
<1> HIDE DEF s1
<1>9. Takes(s1, s2, v, n) /\ s2 \in Proper
  BY <1>2, <1>8, AddTakes, TakesIsProper
<1> HIDE DEF s2
<1>10. Takes(s2, s3, <<"=">>, n) /\ s3 \in Proper
  BY <1>2, <1>3, <1>9, AddTakes, TakesIsProper
<1> HIDE DEF s3
<1>11. Takes(s3, s4, UrlText(v), n)
  BY <1>2, <1>10, UrlTakes
<1> HIDE DEF s4
<1>12. Takes(str, s2, a, n)
  BY <1>2, <1>3, <1>8, <1>9, TakesTwice DEF a
<1>13. Takes(str, s3, b, n)
  BY <1>2, <1>3, <1>5, <1>10, <1>12, TakesTwice DEF b
<1>14. Takes(str, s4, c, n)
  BY <1>2, <1>4, <1>6, <1>11, <1>13, TakesTwice DEF c
<1>15. Added(s4, c)
  BY <1>1 DEF StrAddQVar, s1, s2, s3, s4, a, b, c
<1>16. 4 * Len(v) + 2 \in Nat /\ Len(c) <= 4 * Len(v) + 2
  BY <1>2, <1>4, <1>5, <1>6, <1>7
<1> QED BY <1>2, <1>7, <1>14, <1>15, <1>16, AddedHolds

LEMMA AddEscapedStep ==
    ASSUME NEW n, Short(n), SInv(n), StrLen(str) <= Longest, AddEscaped
    PROVE  SInv(n)' /\ Silent(str, str')
<1>1. PICK v \in Pieces, room \in Rooms : Added(StrAddEscaped(str, v, room), EscapedText(v))
  BY DEF AddEscaped
<1>2. v \in Text /\ Len(v) * 2 \in Nat /\ Len(v) * 2 <= n /\ room \in Nat /\ str \in Proper
  BY PieceTyped, StringsAssumption DEF SInv, Holds
<1>3. EscapedChrs(v) \in Seq(Text) /\ EscapedText(v) \in Text /\ Len(EscapedText(v)) <= Len(v) * 2
  BY <1>2, EscapedTextTyped
<1>4. Takes(str, StrAddEscaped(str, v, room), EscapedText(v), n)
  BY <1>2, <1>3, EachTakes DEF StrAddEscaped, EscapedText
<1> QED BY <1>1, <1>2, <1>3, <1>4, AddedHolds

LEMMA AddUnescapedStep ==
    ASSUME NEW n, Short(n), SInv(n), StrLen(str) <= Longest, AddUnescaped
    PROVE  SInv(n)' /\ Silent(str, str')
<1>1. PICK v \in Pieces, room \in Rooms : Added(StrAddUnescaped(str, EscapedText(v), room), v)
  BY DEF AddUnescaped
<1> DEFINE w == EscapedText(v)
           f == StrFit(str, Len(w), room)
           t == UnescapedAll(f, w, room).str
<1>2. /\ v \in Text /\ Len(v) \in Nat /\ Len(v) <= Len(v) /\ Len(v) <= n /\ Len(v) * 2 <= n
      /\ room \in Nat /\ n \in Nat /\ str.len \in Nat /\ Longest \in Nat
  BY PieceTyped, StringsAssumption DEF SInv, Holds, Proper, Strs
<1>3. Len(w) \in Nat /\ Len(w) <= n
  BY <1>2, EscapedTextTyped, TextTyped
<1>4. Fits(str, Len(w), n) /\ Fits(str, Len(v), n)
  BY <1>2, <1>3, CallFits
<1>5. Holds(f, text, numbered, n) /\ Silent(str, f) /\ (~f.error => f.len = str.len)
  BY <1>2, <1>3, <1>4, FitHolds DEF SInv, Silent
<1>6. StrAddUnescaped(str, w, room) = t
  BY DEF StrAddUnescaped, UnescapedAll
<1> HIDE DEF f
<1>7. f \in Proper /\ numbered \in BOOLEAN
  BY <1>5 DEF Holds
<1>8. Takes(f, t, v, n)
  BY <1>2, <1>7, UnescapeTakes
<1>9. Fits(f, Len(v), n)
  BY <1>2, <1>4, <1>5 DEF Fits, Silent
<1> HIDE DEF t
<1>10. Holds(t, text \o v, numbered, n)
  BY <1>2, <1>5, <1>8, <1>9, TakingHolds
<1>11. Becomes(t, text \o v, numbered)
  BY <1>1, <1>6 DEF Added
<1>12. Silent(str, t) /\ str' = t
  BY <1>5, <1>7, <1>8, <1>11, TakesIsProper DEF Silent, Becomes
<1> QED BY <1>7, <1>10, <1>11, <1>12, BecomesHolds

LEMMA AddIntStep ==
    ASSUME NEW n, Short(n), SInv(n), StrLen(str) <= Longest, AddInt
    PROVE  SInv(n)' /\ Silent(str, str')
<1>1. PICK d \in Numbers, negative \in BOOLEAN, room \in Rooms :
          NumberAdded(StrAddInt(str, d, negative, room))
  BY DEF AddInt
<1>2. d \in Text /\ room \in Nat /\ str \in Proper /\ 10 \in Nat
  BY StringsAssumption DEF SInv, Holds, Text
<1> DEFINE t == StrAddInt(str, d, negative, room)
<1>3. Within(str, t, 11, n)
  BY <1>2, IntWithin DEF StrAddInt
<1> HIDE DEF t
<1>4. Within(str, t, 24, n)
  <2>1. Within(t, t, 13, n)
    BY <1>3, WithinSame DEF Within
  <2>2. Within(str, t, 11 + 13, n)
    BY <1>2, <1>3, <2>1, WithinTwice
  <2> QED BY <2>2
<1> QED BY <1>1, <1>4, NumberAddedHolds DEF t

LEMMA AddFloatStep ==
    ASSUME NEW n, Short(n), SInv(n), StrLen(str) <= Longest, AddFloat
    PROVE  SInv(n)' /\ Silent(str, str')
<1>1. PICK d \in Numbers, e \in Numbers, negative \in BOOLEAN, room \in Rooms :
          NumberAdded(StrAddFloatExt(str, d, e, negative, 10, room))
  BY DEF AddFloat
<1>2. d \in Text /\ e \in Text /\ room \in Nat /\ str \in Proper /\ 10 \in Nat
  BY StringsAssumption DEF SInv, Holds, Text
<1>3. Within(str, StrAddFloatExt(str, d, e, negative, 10, room), 24, n)
  BY <1>2, FloatWithin
<1> QED BY <1>1, <1>3, NumberAddedHolds

LEMMA StepHolds ==
    ASSUME NEW n, Short(n), SInv(n), [Next]_vars
    PROVE  /\ SInv(n)'
           /\ str.error /\ str.len = 0 => UNCHANGED str \/ New \/ Newn \/ Free
<1>1. CASE New \/ Newn
  BY <1>1, NewStep
<1>2. CASE Free
  BY <1>2, FreeStep
<1>3. CASE Set
  BY <1>3, SetStep DEF Silent
<1>4. CASE Rmc
  BY <1>4, RmcStep
<1>5. CASE StrLen(str) <= Longest /\ (Add \/ AddUrlEnc \/ AddQVar \/ AddEscaped)
  BY <1>5, AddStep, AddUrlEncStep, AddQVarStep, AddEscapedStep DEF Silent
<1>6. CASE StrLen(str) <= Longest /\ (AddUnescaped \/ AddInt \/ AddFloat)
  BY <1>6, AddUnescapedStep, AddIntStep, AddFloatStep DEF Silent
<1>7. CASE UNCHANGED vars
  BY <1>7 DEF vars, SInv
<1> QED BY <1>1, <1>2, <1>3, <1>4, <1>5, <1>6, <1>7 DEF Next

LEMMA StringsInvariant ==
    ASSUME NEW n, Short(n)
    PROVE  Spec => []SInv(n)
<1>1. Init => SInv(n)
  BY InitHolds
<1>2. SInv(n) /\ [Next]_vars => SInv(n)'
  BY StepHolds
<1> QED BY <1>1, <1>2, PTL DEF Spec

\* The buffer of str.c always holds the string and its zero: str_fit never takes a buffer
\* that is too small for what is written, and str_rmc never leaves the buffer.
THEOREM StringFits ==
    ASSUME NEW n, Short(n)
    PROVE  Spec => []FitsInBuffer
<1>1. SInv(n) => FitsInBuffer
  <2> SUFFICES ASSUME SInv(n) PROVE FitsInBuffer
    OBVIOUS
  <2>1. str \in Proper /\ Bounded(str, n)
    BY DEF SInv, Holds
  <2>2. str.size \in Nat /\ str.step \in Nat /\ str.len \in Nat /\ str.error \in BOOLEAN
    BY <2>1 DEF Proper, Strs
  <2>3. ~str.error => str.data \in Text /\ Len(str.data) < str.size
    BY <2>1, CountedTyped DEF Bounded
  <2> QED BY <2>2, <2>3 DEF FitsInBuffer, Text
<1> QED BY <1>1, StringsInvariant, PTL

\* Whatever is appended, escaped, unescaped or encoded, and however often the buffer of
\* str.c was replaced on the way: a string that did not fail holds exactly that.
THEOREM StringKeepsText ==
    ASSUME NEW n, Short(n)
    PROVE  Spec => []KeepsText
<1>1. SInv(n) => KeepsText
  BY DEF SInv, Holds, KeepsText
<1> QED BY <1>1, StringsInvariant, PTL

\* After a failure the calls of str.c leave the string alone until a new one is made.
THEOREM StringErrorStays ==
    ASSUME NEW n, Short(n)
    PROVE  Spec => ErrorStays
<1>1. SInv(n) /\ [Next]_vars => [str.error /\ str.len = 0 => UNCHANGED str \/ New \/ Newn \/ Free]_vars
  BY StepHolds
<1> QED BY <1>1, StringsInvariant, PTL DEF Spec, ErrorStays

\* str_addUnescaped undoes str_addEscaped: it appends the text that was escaped, unless
\* there is no memory for it.
THEOREM EscapingIsUndone ==
    ASSUME NEW n, Short(n), NEW s \in Proper, NEW v \in Text, v # <<>>, NEW room \in Nat,
           ~StrAddUnescaped(s, EscapedText(v), room).error
    PROVE  /\ StrAddUnescaped(s, EscapedText(v), room).data = Counted(s) \o v
           /\ StrAddUnescaped(s, EscapedText(v), room).len = s.len + Len(v)
<1> DEFINE w == EscapedText(v)
           f == StrFit(s, Len(w), room)
           t == UnescapedAll(f, w, room).str
<1>1. StrAddUnescaped(s, w, room) = t
  BY DEF StrAddUnescaped, UnescapedAll
<1>2. f \in Proper /\ (~f.error => f.data = s.data /\ f.len = s.len)
  BY EscapedTextTyped, TextTyped, FitIsProper
<1> HIDE DEF f
<1>3. Takes(f, t, v, n)
  BY <1>2, UnescapeTakes
<1> HIDE DEF t, w
<1>4. ~f.error /\ t.data = Counted(f) \o v /\ t.len = f.len + Len(v)
  BY <1>1, <1>3 DEF Takes, Appended, w
<1>5. Counted(f) = Counted(s)
  BY <1>2, <1>4 DEF Counted
<1> QED BY <1>1, <1>2, <1>4, <1>5 DEF w
================================================================================
