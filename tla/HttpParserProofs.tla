--------------------------- MODULE HttpParserProofs ----------------------------
(* Proofs about HttpParser, for any replies and any sizes of the buffers: what  *)
(* a peer may send, well-formed or not, and however it is cut into reads.       *)
EXTENDS HttpParser, WellFoundedInduction, TLAPS

\* What texts are made of.
Chars == (UNION {ToSet(r.text) : r \in Replies}) \cup {" "}
Text == Seq(Chars)

------------------------------------------------------------------------------
(* Induction over numbers, and what a fold over a sequence computes, said with *)
(* a function of what there is and of the position.                           *)

LEMMA LeastNumber ==
    ASSUME NEW T, T \subseteq Nat, T # {}
    PROVE  \E x \in T : \A y \in T : x <= y
<1>1. \E x \in T : \A y \in T : <<y, x>> \notin OpToRel(<, Nat)
  BY NatLessThanWellFounded, WFMin
<1>2. \E x \in T : \A y \in T : ~(y < x)
  BY <1>1 DEF OpToRel
<1> QED BY <1>2

\* Induction, with the set of the numbers for which a statement holds.
LEMMA Inductive ==
    ASSUME NEW S, 0 \in S, \A n \in Nat : n \in S => n + 1 \in S
    PROVE  Nat \subseteq S
<1> SUFFICES ASSUME Nat \ S # {} PROVE FALSE
  OBVIOUS
<1>1. PICK x \in Nat \ S : \A y \in Nat \ S : x <= y
  BY LeastNumber
<1>2. x # 0 /\ x - 1 \in Nat /\ ~(x <= x - 1) /\ (x - 1) + 1 = x
  BY <1>1
<1> QED BY <1>1, <1>2

LEMMA MinOf ==
    ASSUME NEW T, T \subseteq Nat, T # {}
    PROVE  Min(T) \in T /\ \A y \in T : Min(T) <= y
BY LeastNumber DEF Min

LEMMA MinOfTwo ==
    ASSUME NEW a \in Int, NEW b \in Int
    PROVE  Min({a, b}) = IF a <= b THEN a ELSE b
<1> DEFINE m == IF a <= b THEN a ELSE b
<1>1. m \in {a, b} /\ \A y \in {a, b} : m <= y
  OBVIOUS
<1>2. \A x \in {a, b} : (\A y \in {a, b} : x <= y) => x = m
  OBVIOUS
<1> QED BY <1>1, <1>2 DEF Min

LEMMA MaxOfTwo ==
    ASSUME NEW a \in Int, NEW b \in Int
    PROVE  Max({a, b}) = IF a >= b THEN a ELSE b
<1> DEFINE m == IF a >= b THEN a ELSE b
<1>1. m \in {a, b} /\ \A y \in {a, b} : m >= y
  OBVIOUS
<1>2. \A x \in {a, b} : (\A y \in {a, b} : x >= y) => x = m
  OBVIOUS
<1> QED BY <1>1, <1>2 DEF Max

\* The largest of a set with a number that bounds it.
LEMMA MaxAt ==
    ASSUME NEW n \in Nat, NEW s, s \subseteq 1..n + 1, n + 1 \in s
    PROVE  Max(s) = n + 1
<1>1. \A y \in s : n + 1 >= y
  OBVIOUS
<1>2. \A x \in s : (\A y \in s : x >= y) => x = n + 1
  OBVIOUS
<1> QED BY <1>1, <1>2 DEF Max

LEMMA MaxIn ==
    ASSUME NEW N \in Nat, NEW s, s \subseteq 1..N, s # {}
    PROVE  Max(s) \in s /\ \A y \in s : Max(s) >= y
<1> DEFINE T == {n \in Nat : N - n \in s}
<1>1. T \subseteq Nat /\ T # {}
  <2>1. PICK x \in s : TRUE
    OBVIOUS
  <2>2. N - x \in Nat /\ N - (N - x) = x
    BY <2>1
  <2> QED BY <2>1, <2>2
<1>2. PICK m \in T : \A y \in T : m <= y
  BY <1>1, LeastNumber
<1>3. N - m \in s
  OBVIOUS
<1>4. ASSUME NEW y \in s PROVE N - m >= y
  <2>1. N - y \in Nat /\ N - (N - y) = y
    OBVIOUS
  <2>2. N - y \in T
    BY <2>1
  <2>3. m <= N - y /\ m \in Nat /\ y \in Nat
    BY <1>2, <2>2
  <2> QED BY <2>3
<1>5. \E x \in s : \A y \in s : x >= y
  BY <1>3, <1>4
<1> QED BY <1>5 DEF Max

\* The positions a fold goes over, seen as MapThenFoldSet does.
Folded(it, N, base, step) ==
    it = [s \in SUBSET (1..N) |-> IF s = {} THEN base ELSE step[<<it[s \ {Max(s)}], Max(s)>>]]

Foldable(N, V, base, step) == \E it \in [SUBSET (1..N) -> V] : Folded(it, N, base, step)

LEMMA FoldExists ==
    ASSUME NEW V, NEW base \in V, NEW M \in Nat, NEW step \in [V \X (1..M) -> V]
    PROVE  Foldable(M, V, base, step)
<1> DEFINE S == {N \in Nat : N <= M => Foldable(N, V, base, step)}
<1>1. 0 \in S
  <2> DEFINE f == [s \in SUBSET (1..0) |-> base]
  <2>1. SUBSET (1..0) = {{}}
    OBVIOUS
  <2>2. f \in [SUBSET (1..0) -> V]
    OBVIOUS
  <2>3. \A s \in SUBSET (1..0) : s = {}
    BY <2>1
  <2>4. Folded(f, 0, base, step)
    BY <2>3 DEF Folded
  <2> QED BY <2>2, <2>4 DEF Foldable
<1>2. ASSUME NEW N \in Nat, N \in S PROVE N + 1 \in S
  <2> SUFFICES ASSUME N + 1 <= M PROVE Foldable(N + 1, V, base, step)
    OBVIOUS
  <2>0. Foldable(N, V, base, step)
    BY <1>2
  <2>1. PICK it \in [SUBSET (1..N) -> V] : Folded(it, N, base, step)
    BY <2>0 DEF Foldable
  <2> DEFINE f == [s \in SUBSET (1..N + 1) |->
                      IF N + 1 \in s THEN step[<<it[s \ {N + 1}], N + 1>>] ELSE it[s]]
  <2>2. ASSUME NEW s \in SUBSET (1..N + 1), N + 1 \in s
        PROVE  s \ {N + 1} \in SUBSET (1..N) /\ Max(s) = N + 1 /\ s # {}
    <3>1. Max(s) = N + 1
      BY <2>2, MaxAt
    <3> QED BY <2>2, <3>1
  <2>3. ASSUME NEW s \in SUBSET (1..N + 1), N + 1 \notin s
        PROVE  s \in SUBSET (1..N)
    BY <2>3
  <2>4. f \in [SUBSET (1..N + 1) -> V]
    <3> SUFFICES ASSUME NEW s \in SUBSET (1..N + 1) PROVE f[s] \in V
      OBVIOUS
    <3>1. CASE N + 1 \in s
      <4>1. it[s \ {N + 1}] \in V
        BY <2>2, <3>1
      <4>2. <<it[s \ {N + 1}], N + 1>> \in V \X (1..M)
        BY <4>1
      <4>3. f[s] = step[<<it[s \ {N + 1}], N + 1>>]
        BY <3>1
      <4> QED BY <4>2, <4>3
    <3>2. CASE N + 1 \notin s
      BY <2>3, <3>2
    <3> QED BY <3>1, <3>2
  <2>5. ASSUME NEW s \in SUBSET (1..N + 1)
        PROVE  f[s] = IF s = {} THEN base ELSE step[<<f[s \ {Max(s)}], Max(s)>>]
    <3>1. CASE N + 1 \in s
      <4>1. s \ {N + 1} \in SUBSET (1..N) /\ Max(s) = N + 1 /\ s # {}
        BY <2>2, <3>1
      <4>2. f[s \ {N + 1}] = it[s \ {N + 1}]
        BY <4>1
      <4>3. f[s] = step[<<it[s \ {N + 1}], N + 1>>]
        BY <3>1
      <4> QED BY <4>1, <4>2, <4>3
    <3>2. CASE N + 1 \notin s
      <4>1. s \in SUBSET (1..N) /\ f[s] = it[s]
        BY <2>3, <3>2
      <4>2. it[s] = IF s = {} THEN base ELSE step[<<it[s \ {Max(s)}], Max(s)>>]
        BY <2>1, <4>1 DEF Folded
      <4>3. s \ {Max(s)} \in SUBSET (1..N) /\ N + 1 \notin s \ {Max(s)}
        BY <3>2, <4>1
      <4>4. f[s \ {Max(s)}] = it[s \ {Max(s)}]
        BY <4>3
      <4> QED BY <4>1, <4>2, <4>4
    <3> QED BY <3>1, <3>2
  <2>6. Folded(f, N + 1, base, step)
    <3> HIDE DEF f
    <3>1. f = [s \in SUBSET (1..N + 1) |-> f[s]]
      BY <2>4
    <3> QED BY <2>5, <3>1, Zenon DEF Folded
  <2> QED BY <2>4, <2>6 DEF Foldable
<1>3. Nat \subseteq S
  <2> HIDE DEF S
  <2> QED BY <1>1, <1>2, Inductive
<1> QED BY <1>3

------------------------------------------------------------------------------
(* Numbers.                                                                     *)

LEMMA FirstOnes ==
    ASSUME NEW S, NEW d \in Seq(S), NEW n \in 1..Len(d)
    PROVE  DOMAIN SubSeq(d, 1, n) = 1..n /\ \A k \in 1..n : SubSeq(d, 1, n)[k] = d[k]
OBVIOUS

LEMMA DigitValues ==
    ASSUME NEW base \in 1..16, NEW c \in ToSet(DigitsOf(base))
    PROVE  DigitValue(c) \in 0..15
<1>1. PICK i \in DOMAIN DigitsOf(base) : c = DigitsOf(base)[i]
  BY DEF ToSet
<1>2. HexDigits \in Seq({HexDigits[j] : j \in 1..16}) /\ Len(HexDigits) = 16
  BY DEF HexDigits, DecDigits
<1>3. i \in 1..base /\ c = HexDigits[i]
  <2>1. base \in 1..Len(HexDigits)
    BY <1>2
  <2>2. DOMAIN DigitsOf(base) = 1..base /\ \A k \in 1..base : DigitsOf(base)[k] = HexDigits[k]
    BY <1>2, <2>1, FirstOnes DEF DigitsOf
  <2> QED BY <1>1, <2>2
<1>4. i - 1 \in 0..15 /\ HexDigits[(i - 1) + 1] = c
  BY <1>3
<1>5. \E j \in 0..15 : HexDigits[j + 1] = c
  BY <1>4
<1> QED BY <1>5 DEF DigitValue

\* What a text of digits says is a number.
LEMMA UnsignedIsNumber ==
    ASSUME NEW base \in 1..16, NEW digits \in Text,
           \A i \in 1..Len(digits) : digits[i] \in ToSet(DigitsOf(base))
    PROVE  Unsigned(digits, base) \in Nat
<1> DEFINE N == Len(digits)
           step == [p \in Nat \X (1..N) |-> p[1] * base + DigitValue(digits[p[2]])]
           Def(f) == [s \in SUBSET DOMAIN digits |->
                         IF s = {} THEN 0
                         ELSE f[s \ {Max(s)}] * base + DigitValue(digits[Max(s)])]
           iter == CHOOSE f : f = Def(f)
<1>1. N \in Nat /\ DOMAIN digits = 1..N /\ \A i \in 1..N : DigitValue(digits[i]) \in Nat
  <2>1. \A i \in 1..N : DigitValue(digits[i]) \in 0..15
    BY DigitValues
  <2> QED BY <2>1
<1>2. step \in [Nat \X (1..N) -> Nat]
  BY <1>1
<1>3. PICK it \in [SUBSET (1..N) -> Nat] : Folded(it, N, 0, step)
  <2> HIDE DEF step
  <2> QED BY <1>1, <1>2, FoldExists DEF Foldable
<1>4. it = Def(it)
  <2>1. ASSUME NEW s \in SUBSET (1..N), s # {}
        PROVE  step[<<it[s \ {Max(s)}], Max(s)>>] = it[s \ {Max(s)}] * base + DigitValue(digits[Max(s)])
    <3>1. Max(s) \in 1..N
      BY <1>1, <2>1, MaxIn
    <3>2. it[s \ {Max(s)}] \in Nat
      OBVIOUS
    <3> QED BY <3>1, <3>2
  <2> HIDE DEF step
  <2> QED BY <1>1, <1>3, <2>1 DEF Folded
<1>5. iter = Def(iter)
  BY <1>4, Zenon
<1>6. Unsigned(digits, base) = iter[DOMAIN digits]
  BY Zenon DEF Unsigned, FoldLeft, MapThenFoldSet
<1>7. \A n \in Nat : n <= N => iter[1..n] \in Nat
  <2> DEFINE S == {n \in Nat : n <= N => iter[1..n] \in Nat}
  <2> HIDE DEF iter, step
  <2>1. 0 \in S
    <3>1. 1..0 = {}
      OBVIOUS
    <3>2. iter[{}] = 0
      BY <1>5
    <3> QED BY <3>1, <3>2
  <2>2. ASSUME NEW n \in Nat, n \in S, n + 1 <= N PROVE iter[1..n + 1] \in Nat
    <3>1. 1..n + 1 \in SUBSET DOMAIN digits /\ n + 1 \in 1..n + 1
      BY <1>1, <2>2
    <3>2. Max(1..n + 1) = n + 1
      BY <3>1, MaxAt
    <3>3. (1..n + 1) \ {n + 1} = 1..n
      OBVIOUS
    <3>4. iter[1..n + 1] = iter[1..n] * base + DigitValue(digits[n + 1])
      BY <1>5, <3>1, <3>2, <3>3
    <3> QED BY <1>1, <2>2, <3>4
  <2>3. Nat \subseteq S
    <3>1. \A n \in Nat : n \in S => n + 1 \in S
      BY <2>2
    <3> HIDE DEF S
    <3> QED BY <2>1, <3>1, Inductive
  <2> QED BY <2>3
<1> HIDE DEF iter
<1> QED BY <1>1, <1>6, <1>7

LEMMA NumberTyped ==
    ASSUME NEW text \in Text, NEW base \in {0, 16}
    PROVE  \E ok \in BOOLEAN, v \in Int : Number(text, base) = [ok |-> ok, value |-> v]
<1> DEFINE negative == IsPrefix(<<"-">>, text)
           txt == IF negative THEN Tail(text) ELSE text
           hex == base \in {0, 16} /\ IsPrefix(<<"0", "x">>, txt) /\ Len(txt) > 2
           digits == IF hex THEN SubSeq(txt, 3, Len(txt)) ELSE txt
           radix == IF base # 0 THEN base
                    ELSE IF hex THEN 16 ELSE IF IsPrefix(<<"0">>, txt) THEN 8 ELSE 10
           bad == \/ txt = <<>> /\ negative
                  \/ ~(\A i \in 1..Len(digits) : digits[i] \in ToSet(DigitsOf(radix)))
           v == IF negative THEN -Unsigned(digits, radix) ELSE Unsigned(digits, radix)
<1>1. Number(text, base) = IF bad THEN [ok |-> FALSE, value |-> 0] ELSE [ok |-> TRUE, value |-> v]
  BY DEF Number
<1>2. txt \in Text
  <2>1. negative => Len(text) >= 1
    BY DEF IsPrefix
  <2> QED BY <2>1 DEF Text
<1>3. digits \in Text
  <2>1. CASE hex
    <3>1. Len(txt) > 2
      BY <2>1
    <3>2. digits = SubSeq(txt, 3, Len(txt))
      BY <2>1
    <3> HIDE DEF txt, digits
    <3> QED BY <1>2, <3>1, <3>2 DEF Text
  <2>2. CASE ~hex
    BY <1>2, <2>2
  <2> QED BY <2>1, <2>2
<1>4. radix \in 1..16
  OBVIOUS
<1>5. ASSUME ~bad PROVE v \in Int
  <2>1. \A i \in 1..Len(digits) : digits[i] \in ToSet(DigitsOf(radix))
    BY <1>5
  <2> HIDE DEF digits, radix, negative
  <2>2. Unsigned(digits, radix) \in Nat
    BY <1>3, <1>4, <2>1, UnsignedIsNumber
  <2> QED BY <2>2
<1> HIDE DEF bad, v
<1>6. CASE bad
  <2>1. Number(text, base) = [ok |-> FALSE, value |-> 0] /\ FALSE \in BOOLEAN /\ 0 \in Int
    BY <1>1, <1>6
  <2> QED BY <2>1, Zenon
<1>7. CASE ~bad
  <2>1. Number(text, base) = [ok |-> TRUE, value |-> v] /\ TRUE \in BOOLEAN
    BY <1>1, <1>7
  <2> QED BY <1>5, <1>7, <2>1, Zenon
<1> QED BY <1>6, <1>7

LEMMA StrtolTyped ==
    ASSUME NEW text \in Text, NEW base \in {0, 16}
    PROVE  Strtol(text, base).value \in -LongMax - 1..LongMax
<1>1. PICK ok \in BOOLEAN, v \in Int : Number(text, base) = [ok |-> ok, value |-> v]
  BY NumberTyped
<1>2. Strtol(text, base).value = Clamped(v)
  BY <1>1 DEF Strtol
<1> QED BY <1>2, CTextAssumption DEF Clamped

------------------------------------------------------------------------------
(* The invariant.                                                               *)

\* The states whose functions write to parseBuf or headerValue, or may do so next.
NumberStates == {"VERSION_MAJOR", "VERSION_MINOR", "STATUS"}
ChunkStates == {"CHUNK_LENGTH", "CHUNK_EXTENSION", "CHUNK_CRLF"}

Typed ==
    /\ reply \in Replies
    /\ rest \in Text /\ piece \in Text /\ body \in Text
    /\ parseState \in ToSet(States)
    /\ parsePos \in Nat
    /\ parseBuf \in Text /\ Len(parseBuf) <= BufSize
    /\ headerValue \in Text /\ Len(headerValue) <= BufSize
    /\ contentLength \in -LongMax - 1..LongMax
    /\ DOMAIN status = NumberStates

Flags == isChunked \in BOOLEAN /\ error \in BOOLEAN

\* What is written next is written inside the buffer; digits are all of what it holds.
Positions ==
    /\ parseState = "HTTP" => parsePos < Len(Http)
    /\ parseState \notin DOMAIN Eaten \cup {"HTTP"} => parsePos <= BufSize
    /\ parseState \in NumberStates => parsePos <= Len(parseBuf)

\* The number of characters of the reply that were parsed.
Parsed == Len(reply.text) - Len(piece) - Len(rest)

\* No character of the reply is skipped and none comes twice.
InOrder ==
    ~error =>
        /\ Parsed >= 0
        /\ \A i \in 1..Len(piece) : piece[i] = reply.text[Parsed + i]
        /\ \A i \in 1..Len(rest) : rest[i] = reply.text[Parsed + Len(piece) + i]

Phases ==
    /\ parseState \notin {"CONTENT", "DONE"} \cup ChunkStates => body = <<>>
    /\ parseState \in ChunkStates => isChunked

\* A body that is not chunked is a piece of the reply, and what follows it is parsed next.
BodyIsContiguous ==
    ~error /\ ~isChunked =>
        /\ Len(body) <= Parsed
        /\ \A i \in 1..Len(body) : body[i] = reply.text[Parsed - Len(body) + i]

PInv == Typed /\ Flags /\ Positions /\ InOrder /\ Phases /\ BodyIsContiguous

LEMMA TextOfReply ==
    ASSUME NEW r \in Replies
    PROVE  r.text \in Text
<1>1. r.text \in Seq(STRING)
  BY HttpParserAssumption
<1>2. \A i \in 1..Len(r.text) : r.text[i] \in Chars
  <2> SUFFICES ASSUME NEW i \in 1..Len(r.text) PROVE r.text[i] \in Chars
    OBVIOUS
  <2>1. i \in DOMAIN r.text
    BY <1>1
  <2>2. r.text[i] \in ToSet(r.text)
    BY <2>1 DEF ToSet
  <2> QED BY <2>2 DEF Chars
<1>3. Len(r.text) \in Nat /\ r.text = [i \in 1..Len(r.text) |-> r.text[i]]
  BY <1>1
<1> HIDE DEF Chars
<1> QED BY <1>2, <1>3 DEF Text

LEMMA Begins ==
    ASSUME NEW r \in Replies
    PROVE  /\ "HTTP" \in ToSet(States) /\ 0 < Len(Http) /\ 0 <= BufSize
           /\ <<>> \in Text /\ r.text \in Text
           /\ -1 \in -LongMax - 1..LongMax
<1>1. States[1] = "HTTP" /\ 1 \in DOMAIN States
  BY DEF States
<1>2. "HTTP" \in ToSet(States)
  BY <1>1 DEF ToSet
<1> QED BY <1>2, TextOfReply, HttpParserAssumption, CTextAssumption DEF Text

LEMMA InitPInv == Init => PInv
<1> SUFFICES ASSUME Init PROVE PInv
  OBVIOUS
<1>1. reply \in Replies
  BY DEF Init
<1>2. Typed
  BY <1>1, Begins DEF Init, Typed, NumberStates
<1>3. Flags
  BY DEF Init, Flags
<1>4. Positions
  BY <1>1, Begins DEF Init, Positions, NumberStates
<1>5. InOrder /\ BodyIsContiguous
  BY <1>1, Begins DEF Init, InOrder, BodyIsContiguous, Parsed, Text
<1>6. Phases
  BY DEF Init, Phases, ChunkStates
<1> QED BY <1>2, <1>3, <1>4, <1>5, <1>6 DEF PInv

------------------------------------------------------------------------------
(* What the parsing functions share.                                            *)

LEMMA SpanBound ==
    ASSUME piece \in Text, NEW chars
    PROVE  Span(chars) \in 0..Len(piece) /\ Span(chars) \in Nat
<1> DEFINE others == {i \in DOMAIN piece : piece[i] \notin chars}
<1>1. CASE others = {}
  BY <1>1 DEF Span, Text
<1>2. CASE others # {}
  <2>1. others \subseteq 1..Len(piece)
    BY DEF Text
  <2>2. Min(others) \in others
    BY <1>2, <2>1, MinOf
  <2>3. Span(chars) = Min(others) - 1
    BY <1>2 DEF Span
  <2>4. Len(piece) \in Nat
    BY DEF Text
  <2>5. Min(others) \in 1..Len(piece)
    BY <2>1, <2>2
  <2>6. Min(others) - 1 \in 0..Len(piece) /\ Min(others) - 1 \in Nat
    BY <2>4, <2>5
  <2> QED BY <2>3, <2>6
<1> QED BY <1>1, <1>2

LEMMA SpanOutBound ==
    ASSUME piece \in Text, NEW chars
    PROVE  SpanOut(chars) \in 0..Len(piece) /\ SpanOut(chars) \in Nat
BY SpanBound DEF SpanOut

LEMMA Pieces ==
    ASSUME piece \in Text, NEW k \in 0..Len(piece)
    PROVE  /\ SubSeq(piece, k + 1, Len(piece)) \in Text
           /\ Len(SubSeq(piece, k + 1, Len(piece))) = Len(piece) - k
           /\ \A i \in 1..Len(piece) - k : SubSeq(piece, k + 1, Len(piece))[i] = piece[k + i]
           /\ Taken(k) \in Text /\ Len(Taken(k)) = k
           /\ \A i \in 1..k : Taken(k)[i] = piece[i]
BY DEF Taken, Text

LEMMA StoredPosIs ==
    ASSUME parsePos \in Nat, NEW k \in Nat
    PROVE  StoredPos(k) = IF parsePos + k <= BufSize THEN parsePos + k ELSE BufSize
BY HttpParserAssumption, MinOfTwo DEF StoredPos

LEMMA StoredPosFits ==
    ASSUME parsePos \in Nat, NEW k \in Nat
    PROVE  StoredPos(k) \in Nat /\ StoredPos(k) <= BufSize
BY StoredPosIs, HttpParserAssumption

LEMMA KeptTyped ==
    ASSUME parsePos \in Nat, NEW buf \in Text
    PROVE  /\ Kept(buf) \in Text
           /\ Len(Kept(buf)) = IF parsePos <= Len(buf) THEN parsePos ELSE Len(buf)
<1>1. Len(buf) \in Nat
  BY DEF Text
<1>2. Min({parsePos, Len(buf)}) = IF parsePos <= Len(buf) THEN parsePos ELSE Len(buf)
  BY <1>1, MinOfTwo
<1>3. Min({parsePos, Len(buf)}) \in 0..Len(buf)
  BY <1>1, <1>2
<1>4. \A n \in 0..Len(buf) : SubSeq(buf, 1, n) \in Text /\ Len(SubSeq(buf, 1, n)) = n
  BY DEF Text
<1> QED BY <1>2, <1>3, <1>4 DEF Kept

LEMMA StoredTyped ==
    ASSUME parsePos \in Nat, piece \in Text, NEW k \in 0..Len(piece), NEW buf \in Text,
           NEW spoiled \in Text, Len(spoiled) <= BufSize
    PROVE  Stored(buf, k, spoiled) \in Text /\ Len(Stored(buf, k, spoiled)) <= BufSize
<1>1. k \in Nat /\ Len(buf) \in Nat
  BY DEF Text
<1>2. CASE parsePos + k > BufSize
  BY <1>2 DEF Stored
<1>3. CASE ~(parsePos + k > BufSize)
  <2>1. Stored(buf, k, spoiled) = Kept(buf) \o Taken(k)
    BY <1>3 DEF Stored
  <2>2. Kept(buf) \in Text /\ Len(Kept(buf)) <= parsePos /\ Taken(k) \in Text /\ Len(Taken(k)) = k
    BY <1>1, KeptTyped, Pieces
  <2>3. Kept(buf) \o Taken(k) \in Text /\ Len(Kept(buf) \o Taken(k)) = Len(Kept(buf)) + k
    BY <2>2 DEF Text
  <2> QED BY <1>1, <1>3, <2>1, <2>2, <2>3, HttpParserAssumption DEF Text
<1> QED BY <1>2, <1>3

LEMMA SpoiledTyped == <<" ">> \in Text /\ Len(<<" ">>) <= BufSize
<1>1. " " \in Chars
  BY DEF Chars
<1>2. 1 <= BufSize
  BY HttpParserAssumption
<1> HIDE DEF Chars
<1>3. \A c \in Chars : <<c>> \in Seq(Chars) /\ Len(<<c>>) = 1
  OBVIOUS
<1>4. <<" ">> \in Seq(Chars) /\ Len(<<" ">>) = 1
  BY <1>1, <1>3, Zenon
<1> QED BY <1>2, <1>4 DEF Text

LEMMA AfterIsState ==
    ASSUME NEW s \in ToSet(States), s # "DONE"
    PROVE  After(s) \in ToSet(States)
<1>1. PICK j \in 1..19 : s = States[j]
  BY DEF ToSet, States
<1>2. j # 19
  BY <1>1 DEF States
<1>3. \E i \in 1..18 : States[i] = s
  BY <1>1, <1>2
<1>4. (CHOOSE i \in 1..18 : States[i] = s) \in 1..18
  BY <1>3
<1>5. \A i \in 1..18 : States[i + 1] \in ToSet(States)
  BY DEF ToSet, States
<1> QED BY <1>4, <1>5 DEF After

\* A step that parses k characters and hands out none.
LEMMA PassesOver ==
    ASSUME PInv, NEW k \in 0..Len(piece), Take(k), UNCHANGED <<reply, rest, body, error>>,
           body = <<>> \/ isChunked'
    PROVE  piece' \in Text /\ InOrder' /\ BodyIsContiguous'
<1>1. piece' = SubSeq(piece, k + 1, Len(piece)) /\ piece \in Text
  BY DEF Take, PInv, Typed
<1>2. /\ piece' \in Text /\ Len(piece') = Len(piece) - k
      /\ \A i \in 1..Len(piece') : piece'[i] = piece[k + i]
      /\ Len(piece) \in Nat /\ Len(rest) \in Nat /\ Len(body) \in Nat /\ Len(reply.text) \in Nat
  BY <1>1, Pieces, TextOfReply DEF Text, PInv, Typed
<1>3. Parsed' = Parsed + k /\ Parsed \in Int
  BY <1>2 DEF Parsed
<1>4. InOrder'
  BY <1>2, <1>3, SMTT(30) DEF InOrder, PInv
<1>5. BodyIsContiguous'
  BY <1>2, <1>3 DEF BodyIsContiguous, PInv, InOrder
<1> QED BY <1>2, <1>4, <1>5

\* An error ends the parsing.
LEMMA FailKeeps ==
    ASSUME PInv, Fail, UNCHANGED <<reply, rest, status>>, body' \in Text,
           parseBuf' \in Text, Len(parseBuf') <= BufSize,
           headerValue' \in Text, Len(headerValue') <= BufSize,
           contentLength' \in -LongMax - 1..LongMax, isChunked' \in BOOLEAN,
           parseState \in NumberStates => parsePos <= Len(parseBuf'),
           body' = body \/ parseState \in {"CONTENT", "DONE"},
           parseState \in ChunkStates => isChunked'
    PROVE  PInv'
<1>1. error' /\ piece' = <<>> /\ parseState' = parseState /\ parsePos' = parsePos
  BY DEF Fail
<1>2. Typed'
  BY <1>1, Begins DEF Typed, PInv
<1>3. Flags'
  BY <1>1 DEF Flags, Fail
<1>4. Positions'
  BY <1>1 DEF Positions, PInv
<1>5. InOrder' /\ BodyIsContiguous'
  BY <1>1 DEF InOrder, BodyIsContiguous
<1>6. Phases'
  BY <1>1 DEF Phases, PInv
<1> QED BY <1>2, <1>3, <1>4, <1>5, <1>6 DEF PInv

\* A step that goes on.
LEMMA StepKeeps ==
    ASSUME PInv, NEW k \in 0..Len(piece), Take(k), UNCHANGED <<reply, rest, body, error>>,
           body = <<>> \/ isChunked',
           parseState' \in ToSet(States), parsePos' \in Nat,
           parseBuf' \in Text, Len(parseBuf') <= BufSize,
           headerValue' \in Text, Len(headerValue') <= BufSize,
           contentLength' \in -LongMax - 1..LongMax, isChunked' \in BOOLEAN,
           DOMAIN status' = NumberStates, Positions', Phases'
    PROVE  PInv'
<1>1. piece' \in Text /\ InOrder' /\ BodyIsContiguous'
  BY PassesOver
<1>2. Typed'
  BY <1>1 DEF Typed, PInv
<1>3. Flags'
  BY DEF Flags, PInv
<1> QED BY <1>1, <1>2, <1>3 DEF PInv

\* The same, when it is on to the next function.
HeadStates == DOMAIN Eaten \cup NumberStates \cup {"HTTP", "REASON", "HEADER_NAME", "HEADER_VALUE"}

LEMMA AfterHead ==
    ASSUME NEW s \in HeadStates
    PROVE  After(s) \in ToSet(States) \ ChunkStates
<1>1. \A i \in 1..12 : States[i] \in ToSet(States) \ ChunkStates /\ States[i + 1] \in ToSet(States) \ ChunkStates
  BY DEF States, ToSet, ChunkStates
<1>2. \E i \in 1..12 : States[i] = s
  BY DEF States, HeadStates, Eaten, NumberStates
<1>3. \A i \in 1..18 : States[i] = s => i \in 1..12
  BY DEF States, HeadStates, Eaten, NumberStates
<1>4. (CHOOSE i \in 1..18 : States[i] = s) \in 1..12
  BY <1>2, <1>3
<1> QED BY <1>1, <1>4 DEF After

LEMMA NextKeeps ==
    ASSUME PInv, NEW k \in 0..Len(piece), Take(k), NextState, parseState \in HeadStates,
           UNCHANGED <<reply, rest, body>>,
           parseBuf' \in Text, Len(parseBuf') <= BufSize,
           headerValue' \in Text, Len(headerValue') <= BufSize,
           contentLength' \in -LongMax - 1..LongMax, isChunked' \in BOOLEAN,
           DOMAIN status' = NumberStates
    PROVE  PInv'
<1>1. parseState' = After(parseState) /\ parsePos' = 0 /\ error' = error
  BY DEF NextState, Goto
<1>2. parseState' \in ToSet(States) \ ChunkStates
  BY <1>1, AfterHead
<1>3. body = <<>>
  BY DEF PInv, Phases, HeadStates, Eaten, NumberStates, ChunkStates
<1>4. Positions'
  <2>1. 0 < Len(Http) /\ 0 <= BufSize /\ 0 <= Len(parseBuf')
    BY Begins DEF PInv, Typed, Text
  <2> QED BY <1>1, <2>1 DEF Positions
<1>5. Phases'
  BY <1>2, <1>3 DEF Phases
<1> QED BY <1>1, <1>2, <1>3, <1>4, <1>5, StepKeeps

------------------------------------------------------------------------------
(* The steps.                                                                   *)

LEMMA SendKeeps ==
    ASSUME PInv, Send
    PROVE  PInv'
<1>1. PICK r \in Replies : Start(r)
  BY DEF Send
<1>2. /\ reply' = r /\ rest' = r.text /\ piece' = <<>> /\ parseState' = "HTTP" /\ isChunked' = FALSE
      /\ parsePos' = 0 /\ contentLength' = -1 /\ error' = FALSE /\ body' = <<>>
      /\ UNCHANGED <<parseBuf, headerValue, status>>
  BY <1>1 DEF Start, Send
<1>3. Typed'
  BY <1>2, Begins DEF PInv, Typed
<1>4. Flags'
  BY <1>2 DEF Flags
<1>5. Positions'
  BY <1>2, Begins DEF Positions, NumberStates
<1>6. InOrder' /\ BodyIsContiguous'
  BY <1>2, Begins DEF InOrder, BodyIsContiguous, Parsed, Text
<1>7. Phases'
  BY <1>2 DEF Phases, ChunkStates
<1> QED BY <1>3, <1>4, <1>5, <1>6, <1>7 DEF PInv

LEMMA ReadKeeps ==
    ASSUME PInv, Read
    PROVE  PInv'
<1>1. PICK n \in 1..Len(rest) :
         /\ piece' = IF error THEN <<>> ELSE SubSeq(rest, 1, n)
         /\ rest' = SubSeq(rest, n + 1, Len(rest))
  BY DEF Read
<1>2. /\ piece = <<>>
      /\ UNCHANGED <<reply, parseState, parsePos, parseBuf, headerValue, contentLength, isChunked,
                     error, status, body>>
  BY DEF Read, head
<1>3. /\ Len(rest) \in Nat /\ rest' \in Text /\ piece' \in Text
      /\ Len(rest') = Len(rest) - n
      /\ \A i \in 1..Len(rest) - n : rest'[i] = rest[n + i]
      /\ ~error => Len(piece') = n /\ \A i \in 1..n : piece'[i] = rest[i]
  BY <1>1, Begins DEF PInv, Typed, Text
<1>4. Typed'
  BY <1>2, <1>3 DEF PInv, Typed
<1>5. Flags' /\ Positions' /\ Phases'
  BY <1>2 DEF PInv, Flags, Positions, Phases
<1>6. InOrder' /\ BodyIsContiguous'
  <2> SUFFICES ASSUME ~error PROVE InOrder' /\ BodyIsContiguous'
    BY <1>2 DEF InOrder, BodyIsContiguous
  <2>0. Len(reply.text) \in Nat /\ reply' = reply
    BY <1>2, TextOfReply DEF PInv, Typed, Text
  <2>1. Parsed' = Parsed /\ Len(piece) = 0 /\ Parsed \in Int
    <3>1. Len(piece') = n /\ Len(rest') = Len(rest) - n /\ n \in Nat
      BY <1>3
    <3>2. Len(piece) = 0
      BY <1>2
    <3>3. Parsed' = Len(reply.text) - Len(piece') - Len(rest')
      BY <2>0 DEF Parsed
    <3>4. Parsed = Len(reply.text) - Len(rest) /\ Len(rest) \in Nat
      BY <1>3, <2>0, <3>2 DEF Parsed
    <3> QED BY <2>0, <3>1, <3>2, <3>3, <3>4
  <2>2. InOrder'
    <3>1. Parsed >= 0 /\ \A i \in 1..Len(rest) : rest[i] = reply.text[Parsed + i]
      BY <1>3, <2>1 DEF PInv, InOrder
    <3>2. \A i \in 1..Len(piece') : piece'[i] = reply.text[Parsed + i]
      BY <1>3, <3>1
    <3>3. \A i \in 1..Len(rest') : rest'[i] = reply.text[Parsed + Len(piece') + i]
      <4> SUFFICES ASSUME NEW i \in 1..Len(rest') PROVE rest'[i] = reply.text[Parsed + n + i]
        BY <1>3
      <4>1. n + i \in 1..Len(rest) /\ i \in 1..Len(rest) - n /\ Parsed + (n + i) = Parsed + n + i
        BY <1>3, <2>1
      <4> QED BY <1>3, <3>1, <4>1
    <3> QED BY <2>0, <2>1, <3>1, <3>2, <3>3 DEF InOrder
  <2>3. BodyIsContiguous'
    BY <1>2, <2>1 DEF PInv, BodyIsContiguous
  <2> QED BY <2>2, <2>3
<1> QED BY <1>4, <1>5, <1>6 DEF PInv

LEMMA ParseHttpKeeps ==
    ASSUME PInv, ParseHttp
    PROVE  PInv'
<1> DEFINE k == Min({Len(Http) - parsePos, Len(piece)})
<1>1. /\ parseState = "HTTP" /\ UNCHANGED <<reply, rest, parseBuf, headerValue, contentLength, isChunked, status, body>>
      /\ piece \in Text /\ parsePos \in Nat /\ parsePos < Len(Http)
  BY DEF ParseHttp, Parsing, PInv, Typed, Positions, head
<1>2. k \in 0..Len(piece) /\ parsePos + k <= Len(Http)
  <2>1. Len(Http) - parsePos \in Nat /\ Len(piece) \in Nat
    BY <1>1, HttpParserAssumption DEF Text
  <2> QED BY <1>1, <2>1, MinOfTwo
<1>3. CASE Fail
  BY <1>1, <1>3, FailKeeps DEF PInv, Typed, Flags, Positions, Phases
<1>4. CASE Take(k) /\ NextState
  <2> HIDE DEF k
  <2> QED BY <1>1, <1>2, <1>4, NextKeeps DEF PInv, Typed, Flags, HeadStates
<1>5. CASE Take(k) /\ parsePos + k # Len(Http) /\ Stay(k)
  <2> HIDE DEF k
  <2>1. parseState' = "HTTP" /\ parsePos' = parsePos + k /\ error' = error
    BY <1>1, <1>5 DEF Stay
  <2>2. Positions' /\ parsePos' \in Nat
    BY <1>1, <1>2, <1>5, <2>1, HttpParserAssumption DEF Positions, NumberStates
  <2>3. Phases' /\ body = <<>>
    BY <1>1, <2>1 DEF PInv, Phases, ChunkStates
  <2> QED BY <1>1, <1>2, <1>5, <2>1, <2>2, <2>3, StepKeeps DEF PInv, Typed, Flags
<1> QED BY <1>3, <1>4, <1>5 DEF ParseHttp

LEMMA EatCharsKeeps ==
    ASSUME PInv, EatChars
    PROVE  PInv'
<1> DEFINE k == Span(Eaten[parseState])
<1>1. /\ parseState \in DOMAIN Eaten
      /\ UNCHANGED <<reply, rest, parseBuf, headerValue, contentLength, isChunked, status, body>>
      /\ piece \in Text /\ parsePos \in Nat
  BY DEF EatChars, Parsing, PInv, Typed, head
<1>2. k \in 0..Len(piece)
  BY <1>1, SpanBound
<1>3. CASE Fail
  BY <1>1, <1>3, FailKeeps DEF PInv, Typed, Flags, Positions, Phases
<1>4. CASE Take(k) /\ NextState
  <2> HIDE DEF k
  <2> QED BY <1>1, <1>2, <1>4, NextKeeps DEF PInv, Typed, Flags, HeadStates
<1>5. CASE Take(k) /\ Stay(k)
  <2> HIDE DEF k
  <2>1. parseState' = parseState /\ parsePos' = parsePos + k /\ error' = error
    BY <1>1, <1>5 DEF Stay
  <2>2. Positions' /\ parsePos' \in Nat
    BY <1>1, <1>2, <2>1 DEF Positions, NumberStates, Eaten
  <2>3. Phases' /\ body = <<>>
    BY <1>1, <2>1 DEF PInv, Phases, ChunkStates, Eaten
  <2> QED BY <1>1, <1>2, <1>5, <2>1, <2>2, <2>3, StepKeeps DEF PInv, Typed, Flags
<1> QED BY <1>3, <1>4, <1>5 DEF EatChars

LEMMA ParseNumberKeeps ==
    ASSUME PInv, ParseNumber
    PROVE  PInv'
<1> DEFINE k == Span(Decimals)
           digits == SubSeq(Kept(parseBuf) \o Taken(k), 1, StoredPos(k))
<1>1. /\ parseState \in NumberStates /\ parseBuf' = digits
      /\ UNCHANGED <<reply, rest, headerValue, contentLength, isChunked, body>>
      /\ piece \in Text /\ parsePos \in Nat /\ parsePos <= Len(parseBuf) /\ parsePos <= BufSize
      /\ parseBuf \in Text
  BY DEF ParseNumber, Parsing, PInv, Typed, Positions, head, NumberStates, Eaten
<1>2. k \in 0..Len(piece) /\ k \in Nat
  BY <1>1, SpanBound DEF Text
<1>3. StoredPos(k) \in 0..BufSize /\ StoredPos(k) <= parsePos + k
  BY <1>1, <1>2, StoredPosIs, HttpParserAssumption
<1>4. digits \in Text /\ Len(digits) = StoredPos(k)
  <2> HIDE DEF k
  <2> DEFINE all == Kept(parseBuf) \o Taken(k)
  <2>1. Kept(parseBuf) \in Text /\ Len(Kept(parseBuf)) = parsePos /\ Taken(k) \in Text /\ Len(Taken(k)) = k
    BY <1>1, <1>2, KeptTyped, Pieces
  <2>2. all \in Text /\ Len(all) = parsePos + k
    BY <2>1 DEF Text
  <2> HIDE DEF all
  <2>3. \A n \in 0..Len(all) : SubSeq(all, 1, n) \in Text /\ Len(SubSeq(all, 1, n)) = n
    BY <2>2 DEF Text
  <2>4. StoredPos(k) \in 0..Len(all)
    BY <1>1, <1>2, <1>3, <2>2
  <2> QED BY <2>3, <2>4 DEF all
<1> HIDE DEF k, digits
<1>5. CASE Fail /\ UNCHANGED status
  <2>1. parsePos <= Len(parseBuf')
    <3>1. StoredPos(k) >= parsePos
      BY <1>1, <1>2, StoredPosIs
    <3> QED BY <1>1, <1>4, <3>1
  <2> QED BY <1>1, <1>3, <1>4, <1>5, <2>1, FailKeeps DEF PInv, Typed, Flags, Positions, Phases
<1>6. CASE Take(k) /\ NextState /\ \E v : status' = [status EXCEPT ![parseState] = v]
  <2>1. DOMAIN status' = NumberStates
    BY <1>6 DEF PInv, Typed
  <2> QED BY <1>1, <1>2, <1>3, <1>4, <1>6, <2>1, NextKeeps DEF PInv, Typed, Flags, HeadStates
<1>7. CASE Take(k) /\ parsePos' = StoredPos(k) /\ UNCHANGED <<parseState, error, status>>
  <2>1. Positions' /\ parsePos' \in Nat
    BY <1>1, <1>3, <1>4, <1>7 DEF Positions, NumberStates
  <2>2. Phases' /\ body = <<>>
    BY <1>1, <1>7 DEF PInv, Phases, ChunkStates, NumberStates
  <2> QED BY <1>1, <1>2, <1>3, <1>4, <1>7, <2>1, <2>2, StepKeeps DEF PInv, Typed, Flags
<1> QED
  <2>1. \/ Take(k) /\ parsePos' = StoredPos(k) /\ UNCHANGED <<parseState, error, status>>
        \/ Fail /\ UNCHANGED status
        \/ Take(k) /\ NextState /\ \E v : status' = [status EXCEPT ![parseState] = v]
    BY Zenon DEF ParseNumber, k
  <2> QED BY <1>5, <1>6, <1>7, <2>1

LEMMA ParseReasonKeeps ==
    ASSUME PInv, ParseReason
    PROVE  PInv'
<1> DEFINE k == SpanOut(Line)
<1>1. /\ parseState = "REASON" /\ Take(k) /\ parseBuf' = Stored(parseBuf, k, <<" ">>)
      /\ UNCHANGED <<reply, rest, headerValue, contentLength, isChunked, status, body>>
      /\ piece \in Text /\ parsePos \in Nat
  BY DEF ParseReason, Parsing, PInv, Typed, head
<1>2. k \in 0..Len(piece) /\ k \in Nat
  BY <1>1, SpanOutBound
<1> HIDE DEF k
<1>3. StoredPos(k) \in Nat /\ StoredPos(k) <= BufSize
  BY <1>1, <1>2, StoredPosFits
<1>4. parseBuf' \in Text /\ Len(parseBuf') <= BufSize
  BY <1>1, <1>2, SpoiledTyped, StoredTyped DEF PInv, Typed
<1>5. CASE NextState
  <2> QED BY <1>1, <1>2, <1>4, <1>5, NextKeeps DEF PInv, Typed, Flags, HeadStates
<1>6. CASE parsePos' = StoredPos(k) /\ UNCHANGED <<parseState, error>>
  <2>1. Positions' /\ parsePos' \in Nat
    BY <1>1, <1>3, <1>6 DEF Positions, NumberStates
  <2>2. Phases' /\ body = <<>>
    BY <1>1, <1>6 DEF PInv, Phases, ChunkStates
  <2> QED BY <1>1, <1>2, <1>4, <1>6, <2>1, <2>2, StepKeeps DEF PInv, Typed, Flags
<1> QED BY <1>5, <1>6 DEF ParseReason, k

LEMMA StateOf ==
    /\ \A s \in {"HEADER_VALUE", "HEAD_END", "CONTENT", "CHUNK_CRLF", "CHUNK_LENGTH", "HEADER_NAME", "DONE"} :
          s \in ToSet(States)
    /\ After("CHUNK_LENGTH") = "CHUNK_EXTENSION" /\ "CHUNK_EXTENSION" \in ToSet(States)
<1>1. \A i \in 1..19 : States[i] \in ToSet(States)
  BY DEF States, ToSet
<1>2. /\ States[10] = "HEADER_NAME" /\ States[12] = "HEADER_VALUE" /\ States[14] = "HEAD_END"
      /\ States[15] = "CHUNK_LENGTH" /\ States[16] = "CHUNK_EXTENSION" /\ States[17] = "CONTENT"
      /\ States[18] = "CHUNK_CRLF" /\ States[19] = "DONE"
  BY DEF States
<1>3. \A i \in 1..18 : States[i] = "CHUNK_LENGTH" => i = 15
  BY DEF States
<1>4. (CHOOSE i \in 1..18 : States[i] = "CHUNK_LENGTH") = 15
  BY <1>2, <1>3
<1>5. After("CHUNK_LENGTH") = States[15 + 1]
  BY <1>4, Zenon DEF After
<1> QED BY <1>1, <1>2, <1>5

LEMMA ParseHeaderNameKeeps ==
    ASSUME PInv, ParseHeaderName
    PROVE  PInv'
<1> DEFINE k == SpanOut(Line \cup {":"})
<1>1. /\ parseState = "HEADER_NAME" /\ piece # <<>>
      /\ UNCHANGED <<reply, rest, headerValue, contentLength, isChunked, status, body>>
      /\ piece \in Text /\ parsePos \in Nat
  BY DEF ParseHeaderName, Parsing, PInv, Typed, head
<1>2. k \in 0..Len(piece) /\ k \in Nat /\ 0 \in 0..Len(piece) /\ 1 \in 0..Len(piece)
  <2>1. Len(piece) \in Nat /\ Len(piece) # 0
    BY <1>1 DEF Text
  <2> QED BY <1>1, <2>1, SpanOutBound
<1> HIDE DEF k
<1>3. StoredPos(k) \in Nat /\ StoredPos(k) <= BufSize
  BY <1>1, <1>2, StoredPosFits
<1>4. Stored(parseBuf, k, <<" ">>) \in Text /\ Len(Stored(parseBuf, k, <<" ">>)) <= BufSize
  BY <1>1, <1>2, SpoiledTyped, StoredTyped DEF PInv, Typed
<1>5. body = <<>> /\ parsePos <= BufSize
  BY <1>1 DEF PInv, Phases, ChunkStates, Positions, Eaten
<1>6. CASE Take(1) /\ Goto("HEADER_VALUE") /\ UNCHANGED <<parsePos, parseBuf>>
  <2>1. parseState' = "HEADER_VALUE" /\ error' = error
    BY <1>6 DEF Goto
  <2>2. Positions' /\ Phases'
    BY <1>1, <1>5, <1>6, <2>1 DEF Positions, Phases, NumberStates, ChunkStates
  <2> QED BY <1>1, <1>2, <1>5, <1>6, <2>1, <2>2, StateOf, StepKeeps DEF PInv, Typed, Flags
<1>7. CASE parseBuf' = Stored(parseBuf, k, <<" ">>) /\ Take(k) /\ parsePos' = StoredPos(k) /\ UNCHANGED <<parseState, error>>
  <2>2. Positions' /\ Phases' /\ parsePos' \in Nat
    BY <1>1, <1>3, <1>5, <1>7 DEF Positions, Phases, NumberStates, ChunkStates
  <2> QED BY <1>1, <1>2, <1>4, <1>5, <1>7, <2>2, StepKeeps DEF PInv, Typed, Flags
<1>8. CASE parseBuf' = Stored(parseBuf, k, <<" ">>) /\ Take(k) /\ NextState
  BY <1>1, <1>2, <1>4, <1>8, NextKeeps DEF PInv, Typed, Flags, HeadStates
<1>9. CASE parseBuf' = Stored(parseBuf, k, <<" ">>) /\ Take(0) /\ Goto("HEAD_END") /\ parsePos' = StoredPos(k)
  <2>1. parseState' = "HEAD_END" /\ error' = error
    BY <1>9 DEF Goto
  <2>2. Positions' /\ Phases' /\ parsePos' \in Nat
    BY <1>1, <1>3, <1>5, <1>9, <2>1 DEF Positions, Phases, NumberStates, ChunkStates
  <2> QED BY <1>1, <1>2, <1>4, <1>5, <1>9, <2>1, <2>2, StateOf, StepKeeps DEF PInv, Typed, Flags
<1> QED BY <1>6, <1>7, <1>8, <1>9 DEF ParseHeaderName, k

LEMMA ParseHeaderValueKeeps ==
    ASSUME PInv, ParseHeaderValue
    PROVE  PInv'
<1> DEFINE k == SpanOut(Line)
           value == Stored(headerValue, k, <<>>)
<1>1. /\ parseState = "HEADER_VALUE" /\ headerValue' = value
      /\ UNCHANGED <<reply, rest, parseBuf, status, body>>
      /\ piece \in Text /\ parsePos \in Nat
  BY DEF ParseHeaderValue, Parsing, PInv, Typed
<1>2. k \in 0..Len(piece) /\ k \in Nat
  BY <1>1, SpanOutBound
<1>3. StoredPos(k) \in Nat /\ StoredPos(k) <= BufSize
  BY <1>1, <1>2, StoredPosFits
<1>4. value \in Text /\ Len(value) <= BufSize
  <2>1. <<>> \in Text /\ Len(<<>>) <= BufSize
    BY HttpParserAssumption DEF Text
  <2> QED BY <1>1, <1>2, <2>1, StoredTyped DEF PInv, Typed
<1>5. body = <<>>
  BY <1>1 DEF PInv, Phases, ChunkStates
<1> HIDE DEF k, value
<1>6. CASE Take(k) /\ parsePos' = StoredPos(k) /\ UNCHANGED <<parseState, error, contentLength, isChunked>>
  <2>1. Positions' /\ Phases' /\ parsePos' \in Nat
    BY <1>1, <1>3, <1>5, <1>6 DEF Positions, Phases, NumberStates, ChunkStates
  <2> QED BY <1>1, <1>2, <1>4, <1>5, <1>6, <2>1, StepKeeps DEF PInv, Typed, Flags
<1>7. CASE Fail /\ UNCHANGED <<contentLength, isChunked>>
  BY <1>1, <1>4, <1>7, FailKeeps DEF PInv, Typed, Flags, Positions, Phases
<1>8. CASE Take(k) /\ NextState /\ HeaderDone(value) /\ LengthAccepted(value)
  <2>1. contentLength' \in -LongMax - 1..LongMax
    <3>1. CASE parseBuf = Names.length
      <4>1. contentLength' = Strtol(value, 0).value /\ Strtol(value, 0).ok
        BY <1>8, <3>1 DEF HeaderDone, LengthAccepted
      <4> QED BY <1>4, <4>1, StrtolTyped
    <3>2. CASE parseBuf # Names.length
      BY <1>8, <3>2 DEF HeaderDone, PInv, Typed
    <3> QED BY <3>1, <3>2
  <2>2. isChunked' \in BOOLEAN
    BY <1>8, Zenon DEF HeaderDone, PInv, Flags
  <2> QED BY <1>1, <1>2, <1>4, <1>8, <2>1, <2>2, NextKeeps DEF PInv, Typed, HeadStates
<1> QED
  <2>1. \/ Take(k) /\ parsePos' = StoredPos(k) /\ UNCHANGED <<parseState, error, contentLength, isChunked>>
        \/ Fail /\ UNCHANGED <<contentLength, isChunked>>
        \/ Take(k) /\ NextState /\ HeaderDone(value) /\ LengthAccepted(value)
    BY Zenon DEF ParseHeaderValue, k, value
  <2> QED BY <1>6, <1>7, <1>8, <2>1

LEMMA EatLineKeeps ==
    ASSUME PInv, EatLine
    PROVE  PInv'
<1> DEFINE k == SpanOut({"\n"})
           LineStates == {"STATUS_LINE_CRLF", "HEADER_CRLF", "HEAD_END", "CHUNK_EXTENSION", "CHUNK_CRLF"}
<1>1. /\ parseState \in LineStates
      /\ UNCHANGED <<reply, rest, parseBuf, headerValue, contentLength, isChunked, status, body>>
      /\ piece \in Text /\ parsePos \in Nat
  BY DEF EatLine, Parsing, PInv, Typed, head
<1>2. k \in 0..Len(piece) /\ k \in Nat /\ Len(piece) \in Nat
  BY <1>1, SpanOutBound DEF Text
<1>3. parsePos <= BufSize /\ 0 <= BufSize
  BY <1>1, HttpParserAssumption DEF PInv, Positions, Eaten
<1>4. body = <<>> \/ isChunked'
  BY <1>1 DEF PInv, Phases, ChunkStates
<1> HIDE DEF k
<1>5. CASE Take(k) /\ Stay(0)
  <2>1. parseState' = parseState /\ parsePos' = parsePos /\ error' = error
    BY <1>1, <1>5 DEF Stay
  <2>2. Positions' /\ Phases'
    BY <1>1, <2>1 DEF PInv, Positions, Phases
  <2> QED BY <1>1, <1>2, <1>4, <1>5, <2>1, <2>2, StepKeeps DEF PInv, Typed, Flags
<1>6. CASE /\ AtDelimiter(k) /\ Take(k + 1) /\ Goto(AfterLine)
           /\ parsePos' = IF parseState = "CHUNK_EXTENSION" THEN 0 ELSE parsePos
  <2>1. parseState' = AfterLine /\ error' = error /\ k + 1 \in 0..Len(piece)
    BY <1>2, <1>6 DEF Goto, AtDelimiter
  <2>2. parsePos' \in Nat /\ parsePos' <= BufSize
    BY <1>1, <1>3, <1>6
  <2>3. /\ AfterLine \in {"DONE", "CHUNK_LENGTH", "CONTENT", "HEADER_NAME"}
        /\ AfterLine = "CHUNK_LENGTH" => isChunked
        /\ AfterLine = "HEADER_NAME" => body = <<>>
    <3>1. CASE parseState = "CHUNK_CRLF"
      BY <3>1 DEF AfterLine, PInv, Phases, ChunkStates
    <3>2. CASE parseState = "HEAD_END"
      BY <3>2 DEF AfterLine
    <3>3. CASE parseState \in {"STATUS_LINE_CRLF", "HEADER_CRLF"}
      BY <3>3 DEF AfterLine, PInv, Phases, ChunkStates
    <3>4. CASE parseState = "CHUNK_EXTENSION"
      BY <3>4 DEF AfterLine
    <3> QED BY <1>1, <3>1, <3>2, <3>3, <3>4
  <2>4. parseState' \in ToSet(States)
    BY <2>1, <2>3, StateOf
  <2>5. Positions'
    BY <2>1, <2>2, <2>3 DEF Positions, NumberStates
  <2>6. Phases'
    BY <1>1, <2>1, <2>3 DEF Phases, ChunkStates
  <2> QED BY <1>1, <1>4, <1>6, <2>1, <2>2, <2>4, <2>5, <2>6, StepKeeps DEF PInv, Typed, Flags
<1> QED BY <1>5, <1>6 DEF EatLine, k

LEMMA ParseHexNumberKeeps ==
    ASSUME PInv, ParseHexNumber
    PROVE  PInv'
<1> DEFINE k == Span(Hexadecimals)
           digits == Kept(parseBuf) \o Taken(k)
           number == Strtol(digits, 16)
<1>1. /\ parseState = "CHUNK_LENGTH" /\ isChunked
      /\ UNCHANGED <<reply, rest, headerValue, isChunked, status, body>>
      /\ piece \in Text /\ parsePos \in Nat /\ parsePos <= BufSize
      /\ parseBuf \in Text /\ Len(parseBuf) <= BufSize
  BY DEF ParseHexNumber, Parsing, PInv, Typed, Positions, Phases, ChunkStates, Eaten
<1>2. k \in 0..Len(piece) /\ k \in Nat
  BY <1>1, SpanBound
<1>3. digits \in Text /\ Len(digits) = Len(Kept(parseBuf)) + k /\ Len(Kept(parseBuf)) \in Nat
  <2> HIDE DEF k
  <2>1. Kept(parseBuf) \in Text /\ Taken(k) \in Text /\ Len(Taken(k)) = k
    BY <1>1, <1>2, KeptTyped, Pieces
  <2> QED BY <2>1 DEF Text
<1>4. Len(Kept(parseBuf)) <= parsePos
  BY <1>1, KeptTyped DEF Text
<1> HIDE DEF k, digits
<1>5. CASE Fail /\ UNCHANGED <<parseBuf, contentLength>>
  BY <1>1, <1>5, FailKeeps DEF PInv, Typed, Flags, Positions, Phases
<1>6. CASE k > 0 => parsePos + k <= HexSize
  <2>1. Len(digits) <= BufSize /\ parsePos + k <= BufSize
    BY <1>1, <1>2, <1>3, <1>4, <1>6, HttpParserAssumption
  <2>2. CASE Take(k) /\ parseBuf' = digits /\ Stay(k) /\ UNCHANGED contentLength
    <3>1. parseState' = "CHUNK_LENGTH" /\ parsePos' = parsePos + k /\ error' = error
      BY <1>1, <2>2 DEF Stay
    <3>2. Positions' /\ Phases' /\ parsePos' \in Nat
      BY <1>1, <1>2, <2>1, <3>1 DEF Positions, Phases, NumberStates, ChunkStates
    <3> QED BY <1>1, <1>2, <1>3, <2>1, <2>2, <3>1, <3>2, StepKeeps DEF PInv, Typed, Flags
  <2>3. CASE number.ok /\ Take(k) /\ parseBuf' = digits /\ NextState /\ contentLength' = number.value
    <3>1. parseState' = "CHUNK_EXTENSION" /\ parsePos' = 0 /\ error' = error
      BY <1>1, <2>3, StateOf DEF NextState, Goto
    <3>2. Positions' /\ Phases'
      BY <1>1, <3>1, HttpParserAssumption DEF Positions, Phases, NumberStates, ChunkStates
    <3>3. contentLength' \in -LongMax - 1..LongMax
      BY <1>3, <2>3, StrtolTyped
    <3>4. parseState' \in ToSet(States)
      BY <3>1, StateOf
    <3> HIDE DEF number
    <3> QED BY <1>1, <1>2, <1>3, <2>1, <2>3, <3>1, <3>2, <3>3, <3>4, StepKeeps DEF PInv, Typed, Flags
  <2>4. CASE Fail /\ UNCHANGED <<parseBuf, contentLength>>
    BY <1>5, <2>4
  <2>5. \/ Fail /\ UNCHANGED <<parseBuf, contentLength>>
        \/ Take(k) /\ parseBuf' = digits /\ Stay(k) /\ UNCHANGED contentLength
        \/ number.ok /\ Take(k) /\ parseBuf' = digits /\ NextState /\ contentLength' = number.value
    BY Zenon DEF ParseHexNumber, k, digits
  <2> QED BY <2>2, <2>3, <2>4, <2>5
<1>7. ASSUME ~(k > 0 => parsePos + k <= HexSize)
      PROVE  Fail /\ UNCHANGED <<parseBuf, contentLength>>
  <2>1. k > 0 /\ parsePos + k > HexSize
    BY <1>1, <1>2, <1>7, HttpParserAssumption
  <2> QED BY <2>1, Zenon DEF ParseHexNumber, k
<1> QED BY <1>5, <1>6, <1>7

LEMMA ParseContentKeeps ==
    ASSUME PInv, ParseContent
    PROVE  PInv'
<1> DEFINE n == IF contentLength < 0 THEN Len(piece) ELSE Min({contentLength, Len(piece)})
           next == IF contentLength # n THEN "CONTENT" ELSE IF isChunked THEN "CHUNK_CRLF" ELSE "DONE"
<1>1. /\ parseState = "CONTENT" /\ body' = body \o Taken(n)
      /\ UNCHANGED <<reply, rest, parseBuf, headerValue, isChunked, status>>
      /\ piece \in Text /\ parsePos \in Nat
  BY DEF ParseContent, Parsing, PInv, Typed
<1>2. Len(piece) \in Nat /\ contentLength \in Int
  BY <1>1, CTextAssumption DEF Text, PInv, Typed
<1>3. n \in 0..Len(piece) /\ n \in Nat /\ (contentLength >= 0 => n <= contentLength)
  BY <1>2, MinOfTwo
<1> HIDE DEF n
<1>4. /\ body' \in Text /\ Len(body') = Len(body) + n /\ Len(body) \in Nat
      /\ \A i \in 1..Len(body) : body'[i] = body[i]
      /\ \A i \in 1..n : body'[Len(body) + i] = piece[i]
  <2>1. Taken(n) \in Text /\ Len(Taken(n)) = n /\ \A i \in 1..n : Taken(n)[i] = piece[i]
    BY <1>1, <1>3, Pieces
  <2>2. body \in Text
    BY DEF PInv, Typed
  <2>3. \A s, t \in Text :
           /\ s \o t \in Text /\ Len(s \o t) = Len(s) + Len(t) /\ Len(s) \in Nat
           /\ \A i \in 1..Len(s) : (s \o t)[i] = s[i]
           /\ \A i \in 1..Len(t) : (s \o t)[Len(s) + i] = t[i]
    BY DEF Text
  <2> DEFINE given == Taken(n)
  <2>4. body' = body \o given /\ given \in Text /\ Len(given) = n /\ \A i \in 1..n : given[i] = piece[i]
    BY <1>1, <2>1
  <2> HIDE DEF given
  <2> QED BY <2>2, <2>3, <2>4
<1>5. parsePos <= BufSize
  BY <1>1 DEF PInv, Positions, Eaten
<1>6. CASE Fail /\ UNCHANGED contentLength
  BY <1>1, <1>4, <1>6, FailKeeps DEF PInv, Typed, Flags, NumberStates, ChunkStates
<1>7. CASE /\ Take(n) /\ Goto(next) /\ UNCHANGED parsePos
           /\ contentLength' = IF contentLength < 0 THEN contentLength ELSE contentLength - n
  <2>1. parseState' = next /\ error' = error
    BY <1>7 DEF Goto
  <2>2. /\ next \in {"CONTENT", "CHUNK_CRLF", "DONE"}
        /\ next = "CHUNK_CRLF" => isChunked
    BY Zenon
  <2> HIDE DEF next
  <2>3. contentLength' \in -LongMax - 1..LongMax
    BY <1>1, <1>3, <1>7, CTextAssumption DEF PInv, Typed
  <2>4. /\ piece' \in Text /\ Len(piece') = Len(piece) - n
        /\ \A i \in 1..Len(piece') : piece'[i] = piece[n + i]
    BY <1>1, <1>3, <1>7, Pieces DEF Take
  <2>5. Typed'
    BY <1>1, <1>4, <1>7, <2>1, <2>2, <2>3, <2>4, StateOf DEF PInv, Typed
  <2>6. Flags' /\ Phases'
    BY <1>1, <2>1, <2>2 DEF PInv, Flags, Phases, ChunkStates
  <2>7. Positions'
    BY <1>5, <1>7, <2>1, <2>2 DEF Positions, NumberStates
  <2>8. Parsed' = Parsed + n /\ Parsed \in Int
    <3>1. Len(rest) \in Nat /\ Len(reply.text) \in Nat
      BY TextOfReply DEF PInv, Typed, Text
    <3> QED BY <1>1, <1>2, <1>3, <2>4, <3>1 DEF Parsed
  <2>9. InOrder'
    <3>1. Len(rest) \in Nat
      BY DEF PInv, Typed, Text
    <3>2. SUFFICES ASSUME ~error PROVE InOrder'
      BY <2>1 DEF InOrder
    <3>3. /\ Parsed >= 0
          /\ \A i \in 1..Len(piece) : piece[i] = reply.text[Parsed + i]
          /\ \A i \in 1..Len(rest) : rest[i] = reply.text[Parsed + Len(piece) + i]
      BY <3>2 DEF PInv, InOrder
    <3>4. Parsed' >= 0 /\ Parsed' + Len(piece') = Parsed + Len(piece)
      BY <1>2, <1>3, <2>4, <2>8, <3>3
    <3>5. ASSUME NEW i \in 1..Len(piece') PROVE piece'[i] = reply.text[Parsed' + i]
      <4>1. n + i \in 1..Len(piece) /\ Parsed + (n + i) = Parsed' + i
        BY <1>2, <1>3, <2>4, <2>8
      <4> QED BY <2>4, <3>3, <4>1
    <3> QED BY <1>1, <3>1, <3>3, <3>4, <3>5 DEF InOrder
  <2>10. BodyIsContiguous'
    <3> SUFFICES ASSUME ~error, ~isChunked
                 PROVE  /\ Len(body') <= Parsed'
                        /\ \A i \in 1..Len(body') : body'[i] = reply.text[Parsed' - Len(body') + i]
      BY <1>1, <2>1 DEF BodyIsContiguous
    <3>1. /\ Len(body) <= Parsed
          /\ \A i \in 1..Len(body) : body[i] = reply.text[Parsed - Len(body) + i]
          /\ \A i \in 1..Len(piece) : piece[i] = reply.text[Parsed + i]
      BY DEF PInv, BodyIsContiguous, InOrder
    <3>2. Parsed' - Len(body') = Parsed - Len(body) /\ Len(body') <= Parsed'
      BY <1>3, <1>4, <2>8, <3>1
    <3>3. ASSUME NEW i \in 1..Len(body')
          PROVE  body'[i] = reply.text[Parsed - Len(body) + i]
      <4>1. CASE i <= Len(body)
        BY <1>4, <3>1, <4>1
      <4>2. CASE i > Len(body)
        <5>1. i - Len(body) \in 1..n /\ i - Len(body) \in 1..Len(piece)
          BY <1>2, <1>3, <1>4, <4>2
        <5>2. Len(body) + (i - Len(body)) = i /\ Parsed + (i - Len(body)) = Parsed - Len(body) + i
          BY <1>4, <2>8
        <5> QED BY <1>4, <3>1, <5>1, <5>2
      <4> QED BY <1>4, <4>1, <4>2
    <3> QED BY <3>2, <3>3
  <2> QED BY <2>5, <2>6, <2>7, <2>9, <2>10 DEF PInv
<1> QED BY <1>6, <1>7 DEF ParseContent, n

LEMMA TooLongKeeps ==
    ASSUME PInv, TooLong
    PROVE  PInv'
<1>1. /\ parseState = "DONE" /\ Fail
      /\ UNCHANGED <<reply, rest, parseBuf, headerValue, contentLength, isChunked, status, body>>
  BY DEF TooLong, Parsing, head
<1> QED BY <1>1, FailKeeps DEF PInv, Typed, Flags, NumberStates, ChunkStates

LEMMA NextPInv == PInv /\ [Next]_vars => PInv'
<1> SUFFICES ASSUME PInv, [Next]_vars PROVE PInv'
  OBVIOUS
<1>1. CASE Send
  BY <1>1, SendKeeps
<1>2. CASE Read
  BY <1>2, ReadKeeps
<1>3. CASE ParseHttp
  BY <1>3, ParseHttpKeeps
<1>4. CASE EatChars
  BY <1>4, EatCharsKeeps
<1>5. CASE ParseNumber
  BY <1>5, ParseNumberKeeps
<1>6. CASE ParseReason
  BY <1>6, ParseReasonKeeps
<1>7. CASE ParseHeaderName
  BY <1>7, ParseHeaderNameKeeps
<1>8. CASE ParseHeaderValue
  BY <1>8, ParseHeaderValueKeeps
<1>9. CASE EatLine
  BY <1>9, EatLineKeeps
<1>10. CASE ParseHexNumber
  BY <1>10, ParseHexNumberKeeps
<1>11. CASE ParseContent
  BY <1>11, ParseContentKeeps
<1>12. CASE TooLong
  BY <1>12, TooLongKeeps
<1>13. CASE UNCHANGED vars
  BY <1>13 DEF vars, head, PInv, Typed, Flags, Positions, InOrder, Parsed, Phases, BodyIsContiguous
<1> QED BY <1>1, <1>2, <1>3, <1>4, <1>5, <1>6, <1>7, <1>8, <1>9, <1>10, <1>11, <1>12, <1>13 DEF Next

------------------------------------------------------------------------------
(* The theorems.                                                                *)

\* Whatever is received, and however it is cut into reads, the parser stays in the states
\* PInv describes (vhttpc_parse and the functions of its table parsers).
THEOREM ParserInvariant == Spec => []PInv
<1>1. Init => PInv
  BY InitPInv
<1>2. PInv /\ [Next]_vars => PInv'
  BY NextPInv
<1> QED BY <1>1, <1>2, PTL DEF Spec

LEMMA PInvImpliesParserTypeOK == PInv => ParserTypeOK
<1> SUFFICES ASSUME PInv PROVE ParserTypeOK
  OBVIOUS
<1>1. parseState \in DOMAIN Eaten \/ parsePos <= Max({BufSize, Len(Http)})
  <2>1. BufSize \in Nat /\ Len(Http) \in Nat /\ parsePos \in Nat
    BY HttpParserAssumption DEF PInv, Typed
  <2>2. parsePos < Len(Http) \/ parseState \in DOMAIN Eaten \/ parsePos <= BufSize
    BY DEF PInv, Positions
  <2> QED BY <2>1, <2>2, MaxOfTwo
<1>2. {isChunked, error} \subseteq BOOLEAN
  BY Zenon DEF PInv, Flags
<1> QED BY <1>1, <1>2 DEF ParserTypeOK, PInv, Typed

\* No character is written behind parseBuf or headerValue and the position in what is being
\* parsed stays where there is room, whatever a peer sends (parse_number,
\* parse_text_till, parse_header_name, parse_header_value, parse_hex_number).
THEOREM TypeCorrect == Spec => []ParserTypeOK
<1>1. Spec => []PInv
  BY ParserInvariant
<1>2. PInv => ParserTypeOK
  BY PInvImpliesParserTypeOK
<1> QED BY <1>1, <1>2, PTL

\* Of a reply that is not chunked, well-formed or not, the callback is given characters that
\* follow each other in the reply, and the next one parsed is the one after them: no read
\* boundary loses, repeats or reorders a part of the body (parse_content).
THEOREM BodyContiguous == Spec => []BodyIsContiguous
<1>1. Spec => []PInv
  BY ParserInvariant
<1>2. PInv => BodyIsContiguous
  BY DEF PInv
<1> QED BY <1>1, <1>2, PTL
================================================================================
