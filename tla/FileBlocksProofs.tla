-------------------------- MODULE FileBlocksProofs --------------------------
(***************************************************************************)
(* What FileBlocks reads is what was written, for any sizes.  FlattenSeq,   *)
(* Popped and Kept are recursive functions: that they exist, and what they  *)
(* give, is shown by the least number for which it would not be so.         *)
(***************************************************************************)
EXTENDS FileBlocks, SequenceTheorems, FiniteSetTheorems, TLAPS

(* Numbers. *)
LEMMA MinOfTwo == \A a, b \in Int : Min({a, b}) = IF a <= b THEN a ELSE b
<1>. SUFFICES ASSUME NEW a \in Int, NEW b \in Int
              PROVE  Min({a, b}) = IF a <= b THEN a ELSE b
  OBVIOUS
<1>1. \E x \in {a, b} : \A y \in {a, b} : x <= y
  OBVIOUS
<1>2. Min({a, b}) \in {a, b} /\ \A y \in {a, b} : Min({a, b}) <= y
  BY <1>1 DEF Min
<1>. QED
  BY <1>2

LEMMA MaxOfTwo == \A a, b \in Int : Max({a, b}) = IF a >= b THEN a ELSE b
<1>. SUFFICES ASSUME NEW a \in Int, NEW b \in Int
              PROVE  Max({a, b}) = IF a >= b THEN a ELSE b
  OBVIOUS
<1>1. \E x \in {a, b} : \A y \in {a, b} : x >= y
  OBVIOUS
<1>2. Max({a, b}) \in {a, b} /\ \A y \in {a, b} : Max({a, b}) >= y
  BY <1>1 DEF Max
<1>. QED
  BY <1>2

LEMMA Smallest ==
    ASSUME NEW T, T \subseteq Nat, T # {}
    PROVE  \E x \in T : \A y \in T : x <= y
<1>1. PICK x \in T : \A y \in T : <<y, x>> \notin OpToRel(<, Nat)
  BY NatLessThanWellFounded, WFMin
<1>2. \A y \in T : ~ (y < x)
  BY <1>1 DEF OpToRel
<1>. QED
  BY <1>2

(* Induction up to n, with a set for the predicate. *)
LEMMA InductionUpTo ==
    ASSUME NEW n \in Nat, NEW S, 0 \in S,
           \A i \in 0 .. n - 1 : i \in S => i + 1 \in S
    PROVE  \A i \in 0 .. n : i \in S
<1>. SUFFICES ASSUME ~ (\A i \in 0 .. n : i \in S) PROVE FALSE
  OBVIOUS
<1>. DEFINE T == {i \in 0 .. n : i \notin S}
<1>1. T \subseteq Nat /\ T # {}
  OBVIOUS
<1>. HIDE DEF T
<1>2. PICK x \in T : \A y \in T : x <= y
  BY <1>1, Smallest
<1>3. x \in 0 .. n /\ x \notin S /\ x # 0
  BY <1>2 DEF T
<1>4. x - 1 \in 0 .. n - 1 /\ x - 1 \in 0 .. n /\ (x - 1) + 1 = x /\ ~ (x <= x - 1)
  BY <1>3
<1>5. x - 1 \in S
  BY <1>2, <1>4 DEF T
<1>. QED
  BY <1>3, <1>4, <1>5

(* A function with a first value and a rule for the next exists. *)
Unfolds(f, T, base, n, g) ==
    /\ f \in [0 .. n -> T]
    /\ f[0] = base
    /\ \A i \in 1 .. n : f[i] = g[<<f[i - 1], i>>]

LEMMA Recursion ==
    ASSUME NEW T, NEW base \in T, NEW n \in Nat, NEW g \in [T \X (1 .. n) -> T]
    PROVE  \E f : Unfolds(f, T, base, n, g)
<1>. DEFINE Up(m) == {f \in [0 .. m -> T] :
                        f[0] = base /\ \A i \in 1 .. m : f[i] = g[<<f[i - 1], i>>]}
            S == {m \in 0 .. n : Up(m) # {}}
<1>1. 0 \in S
  <2>1. [i \in 0 .. 0 |-> base] \in Up(0)
    OBVIOUS
  <2>. QED
    BY <2>1
<1>2. ASSUME NEW m \in 0 .. n - 1, m \in S PROVE m + 1 \in S
  <2>1. PICK f : f \in Up(m)
    BY <1>2
  <2>. DEFINE h == [i \in 0 .. m + 1 |-> IF i = m + 1 THEN g[<<f[m], m + 1>>] ELSE f[i]]
  <2>2. f \in [0 .. m -> T] /\ f[m] \in T /\ m + 1 \in 1 .. n
    BY <2>1
  <2>3. g[<<f[m], m + 1>>] \in T
    BY <2>2
  <2>4. h \in [0 .. m + 1 -> T] /\ h[0] = base
    BY <2>1, <2>2, <2>3
  <2>5. ASSUME NEW i \in 1 .. m + 1 PROVE h[i] = g[<<h[i - 1], i>>]
    <3>1. CASE i = m + 1
      <4>1. h[i - 1] = f[m] /\ h[i] = g[<<f[m], m + 1>>]
        BY <3>1, <2>2
      <4>. QED
        BY <3>1, <4>1
    <3>2. CASE i # m + 1
      <4>1. i \in 1 .. m /\ i - 1 \in 0 .. m /\ h[i - 1] = f[i - 1] /\ h[i] = f[i]
        BY <3>2
      <4>. QED
        BY <4>1, <2>1
    <3>. QED
      BY <3>1, <3>2
  <2>6. h \in Up(m + 1)
    BY <2>4, <2>5
  <2>7. m + 1 \in 0 .. n
    OBVIOUS
  <2>. QED
    BY <2>6, <2>7
<1>. HIDE DEF S
<1>3. n \in 0 .. n /\ \A i \in 0 .. n : i \in S
  BY <1>1, <1>2, InductionUpTo
<1>. QED
  BY <1>3 DEF S, Unfolds

-----------------------------------------------------------------------------
(* Sequences: the part of s after its first a elements, up to the b-th. *)
Bytes == Seq(Nat)
Piece(s, a, b) == SubSeq(s, a + 1, b)

LEMMA PieceTyped ==
    ASSUME NEW T, NEW s \in Seq(T), NEW a \in Nat, NEW b \in Nat, a <= b, b <= Len(s)
    PROVE  /\ Piece(s, a, b) \in Seq(T)
           /\ Len(Piece(s, a, b)) = b - a
           /\ \A i \in 1 .. b - a : Piece(s, a, b)[i] = s[a + i]
<1>1. \A i \in a + 1 .. b : s[i] \in T
  BY ElementOfSeq, LenProperties
<1>2. /\ SubSeq(s, a + 1, b) \in Seq(T)
      /\ Len(SubSeq(s, a + 1, b)) = IF a + 1 <= b THEN b - (a + 1) + 1 ELSE 0
      /\ \A i \in 1 .. b - (a + 1) + 1 : SubSeq(s, a + 1, b)[i] = s[a + 1 + i - 1]
  BY <1>1, SubSeqProperties
<1>3. b - (a + 1) + 1 = b - a /\ \A i \in 1 .. b - a : a + 1 + i - 1 = a + i
  OBVIOUS
<1>. QED
  BY <1>2, <1>3 DEF Piece

LEMMA PieceFirst ==
    ASSUME NEW T, NEW s \in Seq(T), NEW b \in Nat, b <= Len(s)
    PROVE  /\ Piece(s, 0, b) \in Seq(T)
           /\ Len(Piece(s, 0, b)) = b
           /\ \A i \in 1 .. b : Piece(s, 0, b)[i] = s[i]
<1>1. PICK a : a = 0
  OBVIOUS
<1>2. a \in Nat /\ a <= b
  BY <1>1
<1>3. /\ Piece(s, a, b) \in Seq(T)
      /\ Len(Piece(s, a, b)) = b - a
      /\ \A i \in 1 .. b - a : Piece(s, a, b)[i] = s[a + i]
  BY <1>2, PieceTyped
<1>4. b - a = b /\ \A i \in 1 .. b : a + i = i
  BY <1>1
<1>. QED
  BY <1>1, <1>3, <1>4

LEMMA PieceOfPiece ==
    ASSUME NEW T, NEW s \in Seq(T), NEW a \in Nat, NEW b \in Nat, a <= b, b <= Len(s),
           NEW c \in Nat, NEW e \in Nat, c <= e, e <= b - a
    PROVE  Piece(Piece(s, a, b), c, e) = Piece(s, a + c, a + e)
<1>9. PICK p : p = Piece(s, a, b)
  OBVIOUS
<1>0. Len(s) \in Nat
  BY LenProperties
<1>1. p \in Seq(T) /\ Len(p) = b - a /\ \A i \in 1 .. b - a : p[i] = s[a + i]
  BY <1>9, PieceTyped
<1>2. /\ Piece(p, c, e) \in Seq(T)
      /\ Len(Piece(p, c, e)) = e - c
      /\ \A i \in 1 .. e - c : Piece(p, c, e)[i] = p[c + i]
  <2>1. p \in Seq(T)
    BY <1>1
  <2>2. e <= Len(p)
    BY <1>1
  <2>. QED
    BY <2>1, <2>2, PieceTyped
<1>3. a + c \in Nat /\ a + e \in Nat /\ a + c <= a + e /\ a + e <= Len(s)
  BY <1>0
<1>4. /\ Piece(s, a + c, a + e) \in Seq(T)
      /\ Len(Piece(s, a + c, a + e)) = (a + e) - (a + c)
      /\ \A i \in 1 .. (a + e) - (a + c) : Piece(s, a + c, a + e)[i] = s[(a + c) + i]
  BY <1>3, PieceTyped
<1>5. (a + e) - (a + c) = e - c
  OBVIOUS
<1>6. ASSUME NEW i \in 1 .. e - c PROVE Piece(p, c, e)[i] = Piece(s, a + c, a + e)[i]
  <2>1. c + i \in 1 .. b - a /\ a + (c + i) = (a + c) + i
    OBVIOUS
  <2>2. p[c + i] = s[a + (c + i)]
    BY <1>1, <2>1
  <2>. QED
    BY <1>2, <1>4, <1>5, <2>1, <2>2
<1>7. Piece(p, c, e) = Piece(s, a + c, a + e)
  BY <1>2, <1>4, <1>5, <1>6, SeqEqual
<1>. QED
  BY <1>7, <1>9

LEMMA PieceOfFirst ==
    ASSUME NEW T, NEW s \in Seq(T), NEW b \in Nat, b <= Len(s),
           NEW c \in Nat, NEW e \in Nat, c <= e, e <= b
    PROVE  Piece(Piece(s, 0, b), c, e) = Piece(s, c, e)
<1>1. PICK a : a = 0
  OBVIOUS
<1>2. a \in Nat /\ a <= b /\ b - a = b /\ a + c = c /\ a + e = e
  BY <1>1
<1>3. Piece(Piece(s, a, b), c, e) = Piece(s, a + c, a + e)
  <2>1. a \in Nat
    BY <1>2
  <2>2. a <= b
    BY <1>2
  <2>3. e <= b - a
    BY <1>2
  <2>. QED
    BY <2>1, <2>2, <2>3, PieceOfPiece
<1>. QED
  BY <1>1, <1>2, <1>3

LEMMA PieceAll ==
    ASSUME NEW T, NEW s \in Seq(T)
    PROVE  Piece(s, 0, Len(s)) = s
BY SubSeqFull DEF Piece

LEMMA PieceNone ==
    ASSUME NEW s, NEW a \in Int, NEW b \in Int, b <= a
    PROVE  Piece(s, a, b) = << >>
BY SubSeqEmpty DEF Piece

LEMMA PiecesJoin ==
    ASSUME NEW T, NEW s \in Seq(T), NEW a \in Nat, NEW b \in Nat, NEW c \in Nat,
           a <= b, b <= c, c <= Len(s)
    PROVE  Piece(s, a, b) \o Piece(s, b, c) = Piece(s, a, c)
<1>0. Len(s) \in Nat
  BY LenProperties
<1>1. a + 1 \in 1 .. Len(s) + 1 /\ b \in (a + 1) - 1 .. Len(s) /\ c \in b .. Len(s)
  BY <1>0
<1>. QED
  BY <1>1, ConcatAdjacentSubSeq DEF Piece

(* The two halves of a concatenation. *)
LEMMA PiecesOfConcat ==
    ASSUME NEW T, NEW s \in Seq(T), NEW t \in Seq(T)
    PROVE  /\ Piece(s \o t, 0, Len(s)) = s
           /\ Piece(s \o t, Len(s), Len(s) + Len(t)) = t
<1>. DEFINE u == s \o t
            m == Len(s)
            n == Len(t)
<1>1. m \in Nat /\ n \in Nat
  BY LenProperties
<1>2. /\ u \in Seq(T) /\ Len(u) = m + n
      /\ \A i \in 1 .. m + n : u[i] = IF i <= m THEN s[i] ELSE t[i - m]
  BY ConcatProperties
<1>. HIDE DEF u
<1>3. Len(s) = m /\ Len(t) = n
  OBVIOUS
<1>. HIDE DEF m, n
<1>4. 0 <= m /\ m <= Len(u) /\ m + n \in Nat /\ m <= m + n /\ m + n <= Len(u)
      /\ m - 0 = m /\ (m + n) - m = n
  BY <1>1, <1>2
<1>5. /\ Piece(u, 0, m) \in Seq(T) /\ Len(Piece(u, 0, m)) = m
      /\ \A i \in 1 .. m : Piece(u, 0, m)[i] = u[i]
  <2>1. u \in Seq(T)
    BY <1>2
  <2>2. m \in Nat
    BY <1>1
  <2>3. m <= Len(u)
    BY <1>4
  <2>. QED
    BY <2>1, <2>2, <2>3, PieceFirst
<1>6. /\ Piece(u, m, m + n) \in Seq(T) /\ Len(Piece(u, m, m + n)) = (m + n) - m
      /\ \A i \in 1 .. (m + n) - m : Piece(u, m, m + n)[i] = u[m + i]
  <2>1. u \in Seq(T)
    BY <1>2
  <2>2. m \in Nat
    BY <1>1
  <2>3. m + n \in Nat
    BY <1>1
  <2>4. m <= m + n
    BY <1>4
  <2>5. m + n <= Len(u)
    BY <1>4
  <2>. QED
    BY <2>1, <2>2, <2>3, <2>4, <2>5, PieceTyped
<1>7. ASSUME NEW i \in 1 .. m PROVE Piece(u, 0, m)[i] = s[i]
  <2>1. i \in 1 .. m + n /\ i <= m
    BY <1>1
  <2>. QED
    BY <1>2, <1>4, <1>5, <2>1
<1>8. ASSUME NEW i \in 1 .. n PROVE Piece(u, m, m + n)[i] = t[i]
  <2>1. m + i \in 1 .. m + n /\ ~ (m + i <= m) /\ (m + i) - m = i
    BY <1>1
  <2>2. u[m + i] = t[(m + i) - m]
    BY <1>2, <2>1
  <2>. QED
    BY <1>4, <1>6, <2>1, <2>2
<1>9. Piece(u, 0, m) = s
  BY <1>3, <1>4, <1>5, <1>7, SeqEqual
<1>10. Piece(u, m, m + n) = t
  BY <1>3, <1>4, <1>6, <1>8, SeqEqual
<1>. QED
  BY <1>3, <1>9, <1>10 DEF u

LEMMA BytesAssociative == \A x, y, z \in Seq(Nat) : (x \o y) \o z = x \o (y \o z)
BY ConcatAssociative

LEMMA OneElement ==
    ASSUME NEW T, NEW e \in T
    PROVE  <<e>> \in Seq(T) /\ Len(<<e>>) = 1 /\ <<e>>[1] = e
OBVIOUS

-----------------------------------------------------------------------------
(* f joins the blocks of s one after the other. *)
Joins(s, f) ==
    /\ f \in [0 .. Len(s) -> Bytes]
    /\ f[0] = << >>
    /\ \A i \in 1 .. Len(s) : f[i] = f[i - 1] \o s[i]

LEMMA JoinsExist ==
    ASSUME NEW s \in Seq(Bytes)
    PROVE  \E f : Joins(s, f)
<1>1. Len(s) \in Nat /\ << >> \in Bytes /\ \A i \in 1 .. Len(s) : s[i] \in Bytes
  BY LenProperties, ElementOfSeq, EmptySeq DEF Bytes
<1>. DEFINE g == [p \in Bytes \X (1 .. Len(s)) |-> p[1] \o s[p[2]]]
<1>2. ASSUME NEW b \in Bytes, NEW i \in 1 .. Len(s)
      PROVE  b \o s[i] \in Bytes
  BY <1>1, ConcatProperties DEF Bytes
<1>3. g \in [Bytes \X (1 .. Len(s)) -> Bytes]
  BY <1>2
<1>4. \A b \in Bytes, i \in 1 .. Len(s) : g[<<b, i>>] = b \o s[i]
  OBVIOUS
<1>. HIDE DEF g
<1>. DEFINE n == Len(s)
<1>. HIDE DEF n
<1>5. n \in Nat /\ g \in [Bytes \X (1 .. n) -> Bytes] /\ n = Len(s)
  BY <1>1, <1>3 DEF n
<1>6. PICK f : Unfolds(f, Bytes, << >>, n, g)
  BY <1>1, <1>5, Recursion
<1>7. /\ f \in [0 .. Len(s) -> Bytes]
      /\ f[0] = << >> /\ \A i \in 1 .. Len(s) : f[i] = g[<<f[i - 1], i>>]
  BY <1>5, <1>6 DEF Unfolds
<1>8. ASSUME NEW i \in 1 .. Len(s) PROVE f[i] = f[i - 1] \o s[i]
  <2>1. i - 1 \in 0 .. Len(s) /\ f[i - 1] \in Bytes
    BY <1>1, <1>7
  <2>. QED
    BY <2>1, <1>4, <1>7
<1>. QED
  BY <1>7, <1>8 DEF Joins

LEMMA FlattenJoins ==
    ASSUME NEW s \in Seq(Bytes), NEW f, Joins(s, f)
    PROVE  FlattenSeq(s) = f[Len(s)] /\ FlattenSeq(s) \in Bytes
<1>1. Len(s) \in Nat /\ \A i \in 1 .. Len(s) : s[i] \in Bytes
  BY LenProperties, ElementOfSeq
<1>2. f[Len(s)] \in Bytes
  BY <1>1 DEF Joins
<1>3. CASE Len(s) = 0
  <2>1. s = << >>
    BY <1>3, EmptySeq
  <2>. QED
    BY <1>2, <1>3, <2>1 DEF FlattenSeq, Joins
<1>4. CASE Len(s) # 0
  <2>. DEFINE n == Len(s)
              Rule(h) == h = [i \in 1 .. Len(s) |-> IF i = 1 THEN s[i] ELSE h[i - 1] \o s[i]]
              h0 == CHOOSE h : Rule(h)
  <2>1. FlattenSeq(s) = h0[Len(s)]
    BY <1>4 DEF FlattenSeq
  <2>2. Rule([i \in 1 .. Len(s) |-> f[i]])
    <3>. DEFINE k == [i \in 1 .. Len(s) |-> f[i]]
    <3>1. ASSUME NEW i \in 1 .. Len(s)
          PROVE  k[i] = IF i = 1 THEN s[i] ELSE k[i - 1] \o s[i]
      <4>1. CASE i = 1
        <5>1. 1 \in 1 .. Len(s) /\ 1 - 1 = 0
          BY <1>1, <4>1
        <5>2. f[1] = << >> \o s[1] /\ s[1] \in Bytes
          BY ONLY <1>1, <5>1, Joins(s, f) DEF Joins
        <5>3. << >> \o s[1] = s[1]
          BY <5>2, ConcatEmptySeq DEF Bytes
        <5>. QED
          BY <5>2, <5>3, <4>1
      <4>2. CASE i # 1
        <5>1. i - 1 \in 1 .. Len(s) /\ k[i - 1] = f[i - 1]
          BY <4>2, <1>1
        <5>. QED
          BY <5>1, <4>2 DEF Joins
      <4>. QED
        BY <4>1, <4>2
    <3>2. k = [i \in 1 .. Len(s) |-> IF i = 1 THEN s[i] ELSE k[i - 1] \o s[i]]
      <4>. HIDE DEF k
      <4>1. k = [i \in 1 .. Len(s) |-> k[i]]
        BY DEF k
      <4>. QED
        BY <3>1, <4>1
    <3>. QED
      BY <3>2
  <2>3. Rule(h0)
    BY <2>2
  <2>. HIDE DEF h0
  <2>. DEFINE S == {i \in 0 .. Len(s) : i = 0 \/ h0[i] = f[i]}
  <2>4. \A i \in 1 .. Len(s) : h0[i] = IF i = 1 THEN s[i] ELSE h0[i - 1] \o s[i]
    BY <2>3
  <2>5. 0 \in S
    BY <1>1
  <2>6. ASSUME NEW i \in 0 .. Len(s) - 1, i \in S PROVE i + 1 \in S
    <3>1. i + 1 \in 1 .. Len(s) /\ (i + 1) - 1 = i /\ i + 1 \in 0 .. Len(s)
      BY <1>1
    <3>2. CASE i = 0
      <4>1. 1 \in 1 .. Len(s) /\ 1 - 1 = 0 /\ i + 1 = 1
        BY <3>1, <3>2
      <4>2. f[1] = << >> \o s[1] /\ s[1] \in Bytes
        BY ONLY <1>1, <4>1, Joins(s, f) DEF Joins
      <4>3. << >> \o s[1] = s[1]
        BY <4>2, ConcatEmptySeq DEF Bytes
      <4>4. h0[1] = s[1]
        BY <2>4, <4>1
      <4>. QED
        BY <3>1, <4>1, <4>2, <4>3, <4>4
    <3>3. CASE i # 0
      <4>1. f[i + 1] = f[i] \o s[i + 1]
        BY ONLY <3>1, Joins(s, f) DEF Joins
      <4>2. i + 1 # 1
        BY <3>3
      <4>3. h0[i + 1] = h0[(i + 1) - 1] \o s[i + 1]
        BY <3>1, <4>2, <2>4
      <4>. QED
        BY <4>1, <4>3, <2>6, <3>1, <3>3
    <3>. QED
      BY <3>2, <3>3
  <2>. HIDE DEF S
  <2>7. n \in Nat /\ n \in 0 .. n /\ \A i \in 0 .. n - 1 : i \in S => i + 1 \in S
    BY <1>1, <2>6
  <2>. HIDE DEF n
  <2>8. n \in S
    BY <2>5, <2>7, InductionUpTo
  <2>9. Len(s) \in S
    BY <2>8 DEF n
  <2>. QED
    BY <2>1, <2>9, <1>2, <1>4 DEF S
<1>. QED
  BY <1>3, <1>4

LEMMA FlattenTyped ==
    ASSUME NEW s \in Seq(Bytes)
    PROVE  FlattenSeq(s) \in Bytes
BY JoinsExist, FlattenJoins

LEMMA FlattenNone == FlattenSeq(<< >>) = << >>
BY DEF FlattenSeq

LEMMA FlattenPrefix ==
    ASSUME NEW s \in Seq(Bytes), NEW f, Joins(s, f), NEW i \in 0 .. Len(s)
    PROVE  FlattenSeq(Piece(s, 0, i)) = f[i]
<1>. DEFINE p == Piece(s, 0, i)
            k == [j \in 0 .. i |-> f[j]]
<1>0. Len(s) \in Nat /\ i \in Nat /\ i <= Len(s) /\ i - 0 = i /\ \A j \in 1 .. i : 0 + j = j
  BY LenProperties
<1>1. p \in Seq(Bytes) /\ Len(p) = i /\ \A j \in 1 .. i : p[j] = s[j]
  BY <1>0, PieceTyped
<1>2. \A j \in 0 .. i : k[j] = f[j] /\ f[j] \in Bytes
  BY <1>0 DEF Joins
<1>3. \A j \in 1 .. i : k[j] = k[j - 1] \o p[j]
  BY <1>0, <1>1, <1>2 DEF Joins
<1>4. k \in [0 .. i -> Bytes] /\ k[0] = << >> /\ k[i] = f[i]
  BY <1>0, <1>2 DEF Joins
<1>. HIDE DEF p, k
<1>5. Joins(p, k)
  BY <1>1, <1>3, <1>4 DEF Joins
<1>6. FlattenSeq(p) = k[i]
  BY <1>1, <1>5, FlattenJoins
<1>. QED
  BY <1>4, <1>6 DEF p

LEMMA FlattenConcat ==
    ASSUME NEW s \in Seq(Bytes), NEW t \in Seq(Bytes)
    PROVE  FlattenSeq(s \o t) = FlattenSeq(s) \o FlattenSeq(t)
<1>1. PICK f : Joins(s, f)
  BY JoinsExist
<1>2. PICK g : Joins(t, g)
  BY JoinsExist
<1>3. /\ FlattenSeq(s) = f[Len(s)] /\ FlattenSeq(s) \in Bytes
      /\ FlattenSeq(t) = g[Len(t)] /\ FlattenSeq(t) \in Bytes
  BY <1>1, <1>2, FlattenJoins
<1>. DEFINE u == s \o t
            h == [i \in 0 .. Len(s) + Len(t) |->
                    IF i <= Len(s) THEN f[i] ELSE f[Len(s)] \o g[i - Len(s)]]
<1>4. Len(s) \in Nat /\ Len(t) \in Nat
  BY LenProperties
<1>5. /\ u \in Seq(Bytes) /\ Len(u) = Len(s) + Len(t)
      /\ \A i \in 1 .. Len(s) + Len(t) : u[i] = IF i <= Len(s) THEN s[i] ELSE t[i - Len(s)]
  BY ConcatProperties
<1>. HIDE DEF u
<1>6. ASSUME NEW i \in 0 .. Len(s) + Len(t) PROVE h[i] \in Bytes
  <2>1. CASE i <= Len(s)
    BY <1>1, <1>4, <2>1 DEF Joins
  <2>2. CASE ~ (i <= Len(s))
    <3>1. i - Len(s) \in 0 .. Len(t) /\ g[i - Len(s)] \in Bytes
      BY <1>2, <1>4, <2>2 DEF Joins
    <3>2. f[Len(s)] \o g[i - Len(s)] \in Bytes
      BY <1>3, <3>1, ConcatProperties DEF Bytes
    <3>. QED
      BY <2>2, <3>2
  <2>. QED
    BY <2>1, <2>2
<1>7. h \in [0 .. Len(u) -> Bytes] /\ h[0] = << >>
  BY <1>1, <1>4, <1>5, <1>6 DEF Joins
<1>8. ASSUME NEW i \in 1 .. Len(u) PROVE h[i] = h[i - 1] \o u[i]
  <2>1. CASE i <= Len(s)
    <3>1. i \in 1 .. Len(s) /\ i - 1 \in 0 .. Len(s) + Len(t) /\ i - 1 <= Len(s)
          /\ i \in 0 .. Len(s) + Len(t) /\ u[i] = s[i]
      BY <1>4, <1>5, <2>1
    <3>. QED
      BY <1>1, <3>1, <2>1 DEF Joins
  <2>2. CASE i = Len(s) + 1
    <3>1. /\ i \in 0 .. Len(s) + Len(t) /\ i - 1 = Len(s) /\ i - Len(s) = 1
          /\ 1 \in 1 .. Len(t) /\ 1 - 1 = 0 /\ u[i] = t[1] /\ ~ (i <= Len(s))
          /\ Len(s) \in 0 .. Len(s) + Len(t)
      BY <1>4, <1>5, <2>2
    <3>2. g[1] = << >> \o t[1] /\ t[1] \in Seq(Nat)
      BY <1>2, <3>1, ElementOfSeq DEF Joins, Bytes
    <3>3. g[1] = t[1]
      BY <3>2, ConcatEmptySeq
    <3>4. h[i] = f[Len(s)] \o g[i - Len(s)] /\ h[i - 1] = f[i - 1]
      <4>1. i - 1 \in 0 .. Len(s) + Len(t) /\ i - 1 <= Len(s)
        BY <1>4, <3>1
      <4>. QED
        BY <3>1, <4>1
    <3>. QED
      BY <3>1, <3>3, <3>4
  <2>3. CASE i > Len(s) + 1
    <3>1. /\ i \in 0 .. Len(s) + Len(t) /\ i - 1 \in 0 .. Len(s) + Len(t)
          /\ ~ (i <= Len(s)) /\ ~ (i - 1 <= Len(s))
          /\ i - Len(s) \in 1 .. Len(t) /\ (i - 1) - Len(s) = (i - Len(s)) - 1
          /\ (i - Len(s)) - 1 \in 0 .. Len(t)
          /\ u[i] = t[i - Len(s)]
      BY <1>4, <1>5, <2>3
    <3>2. g[i - Len(s)] = g[(i - Len(s)) - 1] \o t[i - Len(s)]
      BY <1>2, <3>1 DEF Joins
    <3>3. f[Len(s)] \in Seq(Nat) /\ g[(i - Len(s)) - 1] \in Seq(Nat) /\ t[i - Len(s)] \in Seq(Nat)
      BY <1>2, <1>3, <3>1, ElementOfSeq DEF Joins, Bytes
    <3>4. (f[Len(s)] \o g[(i - Len(s)) - 1]) \o t[i - Len(s)]
            = f[Len(s)] \o (g[(i - Len(s)) - 1] \o t[i - Len(s)])
      BY <3>3, BytesAssociative
    <3>5. h[i] = f[Len(s)] \o g[i - Len(s)] /\ h[i - 1] = f[Len(s)] \o g[(i - Len(s)) - 1]
      BY <3>1
    <3>. QED
      BY <3>1, <3>2, <3>4, <3>5
  <2>4. i \in Int /\ Len(s) \in Int
    BY <1>4, <1>5
  <2>5. i <= Len(s) \/ i = Len(s) + 1 \/ i > Len(s) + 1
    BY <2>4
  <2>. QED
    BY <2>1, <2>2, <2>3, <2>5
<1>9. h[Len(u)] = f[Len(s)] \o g[Len(t)]
  <2>1. CASE Len(t) = 0
    <3>1. h[Len(u)] = f[Len(s)] /\ g[Len(t)] = << >>
      BY <1>2, <1>4, <1>5, <2>1 DEF Joins
    <3>. QED
      BY <3>1, <1>3, ConcatEmptySeq DEF Bytes
  <2>2. CASE Len(t) # 0
    <3>1. Len(u) \in 0 .. Len(s) + Len(t) /\ ~ (Len(u) <= Len(s)) /\ Len(u) - Len(s) = Len(t)
      BY <1>4, <1>5, <2>2
    <3>. QED
      BY <3>1
  <2>. QED
    BY <2>1, <2>2
<1>. HIDE DEF h
<1>10. Joins(u, h)
  BY <1>7, <1>8 DEF Joins
<1>11. FlattenSeq(u) = h[Len(u)]
  BY <1>5, <1>10, FlattenJoins
<1>. QED
  BY <1>3, <1>9, <1>11 DEF u

LEMMA FlattenOne ==
    ASSUME NEW b \in Bytes
    PROVE  FlattenSeq(<<b>>) = b
<1>. DEFINE f == [i \in 0 .. 1 |-> IF i = 0 THEN << >> ELSE b]
<1>1. <<b>> \in Seq(Bytes) /\ Len(<<b>>) = 1 /\ <<b>>[1] = b
  OBVIOUS
<1>2. << >> \o b = b /\ << >> \in Bytes
  BY ConcatEmptySeq, EmptySeq DEF Bytes
<1>3. f \in [0 .. 1 -> Bytes] /\ f[0] = << >> /\ f[1] = b
  BY <1>2
<1>. HIDE DEF f
<1>4. PICK s : s = <<b>>
  OBVIOUS
<1>5. \A i \in 1 .. 1 : f[i] = f[i - 1] \o s[i]
  <2>1. f[1] = f[0] \o s[1]
    BY <1>1, <1>2, <1>3, <1>4
  <2>2. 1 - 1 = 0 /\ \A i \in 1 .. 1 : i = 1
    OBVIOUS
  <2>. QED
    BY <2>1, <2>2
<1>6. Joins(s, f)
  BY <1>1, <1>3, <1>4, <1>5 DEF Joins
<1>7. s \in Seq(Bytes)
  BY <1>1, <1>4
<1>8. FlattenSeq(s) = f[Len(s)]
  BY <1>6, <1>7, FlattenJoins
<1>. QED
  BY <1>1, <1>3, <1>4, <1>8

LEMMA FlattenAppend ==
    ASSUME NEW s \in Seq(Bytes), NEW b \in Bytes
    PROVE  FlattenSeq(Append(s, b)) = FlattenSeq(s) \o b
<1>1. PICK t : t = <<b>>
  OBVIOUS
<1>2. t \in Seq(Bytes) /\ FlattenSeq(t) = b /\ Append(s, b) = s \o t
  BY <1>1, FlattenOne, AppendIsConcat
<1>3. FlattenSeq(s \o t) = FlattenSeq(s) \o FlattenSeq(t)
  BY <1>2, FlattenConcat
<1>. QED
  BY <1>2, <1>3

-----------------------------------------------------------------------------
(* Where the i-th block of s ends. *)
E(s, i) == Len(FlattenSeq(Piece(s, 0, i)))

(* No block is empty. *)
Full(s) == s \in Seq(Bytes) /\ \A i \in 1 .. Len(s) : s[i] # << >>

LEMMA EndTyped ==
    ASSUME NEW s \in Seq(Bytes), NEW i \in 0 .. Len(s)
    PROVE  E(s, i) \in Nat
<1>1. Len(s) \in Nat
  BY LenProperties
<1>2. i \in Nat
  BY <1>1
<1>3. i <= Len(s)
  BY <1>1
<1>4. Piece(s, 0, i) \in Seq(Bytes)
  BY <1>2, <1>3, PieceFirst
<1>5. FlattenSeq(Piece(s, 0, i)) \in Seq(Nat)
  BY <1>4, FlattenTyped DEF Bytes
<1>. QED
  BY <1>5, LenProperties DEF E

LEMMA EndFirst ==
    ASSUME NEW s \in Seq(Bytes)
    PROVE  E(s, 0) = 0 /\ E(s, Len(s)) = Len(FlattenSeq(s))
<1>1. Piece(s, 0, 0) = << >>
  BY PieceNone
<1>2. Piece(s, 0, Len(s)) = s
  BY PieceAll
<1>. QED
  BY <1>1, <1>2, FlattenNone, EmptySeq DEF E

LEMMA EndNext ==
    ASSUME NEW s \in Seq(Bytes), NEW i \in 1 .. Len(s)
    PROVE  E(s, i) = E(s, i - 1) + Len(s[i])
<1>1. PICK f : Joins(s, f)
  BY JoinsExist
<1>2. Len(s) \in Nat
  BY LenProperties
<1>3. i \in 0 .. Len(s)
  BY <1>2
<1>4. i - 1 \in 0 .. Len(s)
  BY <1>2
<1>5. FlattenSeq(Piece(s, 0, i)) = f[i]
  BY <1>1, <1>3, FlattenPrefix
<1>6. FlattenSeq(Piece(s, 0, i - 1)) = f[i - 1]
  BY <1>1, <1>4, FlattenPrefix
<1>7. f[i] = f[i - 1] \o s[i] /\ f[i - 1] \in Seq(Nat)
  BY <1>1, <1>4 DEF Joins, Bytes
<1>8. s[i] \in Seq(Nat)
  BY ElementOfSeq DEF Bytes
<1>9. Len(f[i - 1] \o s[i]) = Len(f[i - 1]) + Len(s[i])
  BY <1>7, <1>8, ConcatProperties
<1>. QED
  BY <1>5, <1>6, <1>7, <1>9 DEF E

(* The bytes of the blocks after the a-th up to the b-th. *)
LEMMA FlattenPiece ==
    ASSUME NEW s \in Seq(Bytes), NEW a \in 0 .. Len(s), NEW b \in 0 .. Len(s), a <= b
    PROVE  /\ FlattenSeq(Piece(s, a, b)) = Piece(FlattenSeq(s), E(s, a), E(s, b))
           /\ E(s, a) <= E(s, b) /\ E(s, b) <= Len(FlattenSeq(s))
<1>1. Len(s) \in Nat
  BY LenProperties
<1>2. a \in Nat /\ b \in Nat /\ b <= Len(s) /\ 0 <= a /\ 0 <= b /\ Len(s) <= Len(s) /\ 0 \in Nat
  BY <1>1
<1>3. PICK p, q, r : p = Piece(s, 0, a) /\ q = Piece(s, a, b) /\ r = Piece(s, b, Len(s))
  OBVIOUS
<1>4. p \in Seq(Bytes) /\ q \in Seq(Bytes) /\ r \in Seq(Bytes)
  <2>1. a <= Len(s)
    BY <1>1
  <2>2. Piece(s, 0, a) \in Seq(Bytes)
    BY <1>2, <2>1, PieceFirst
  <2>3. Piece(s, a, b) \in Seq(Bytes)
    BY <1>2, PieceTyped
  <2>4. Piece(s, b, Len(s)) \in Seq(Bytes)
    BY <1>1, <1>2, PieceTyped
  <2>. QED
    BY <2>2, <2>3, <2>4, <1>3
<1>5. p \o q = Piece(s, 0, b)
  BY <1>2, <1>3, PiecesJoin
<1>6. Piece(s, 0, b) \o r = s
  <2>1. Piece(s, 0, b) \o Piece(s, b, Len(s)) = Piece(s, 0, Len(s))
    BY <1>1, <1>2, PiecesJoin
  <2>. QED
    BY <2>1, <1>3, PieceAll
<1>7. PICK P, Q, R : P = FlattenSeq(p) /\ Q = FlattenSeq(q) /\ R = FlattenSeq(r)
  OBVIOUS
<1>8. P \in Seq(Nat) /\ Q \in Seq(Nat) /\ R \in Seq(Nat)
  BY <1>4, <1>7, FlattenTyped DEF Bytes
<1>9. FlattenSeq(p \o q) = P \o Q
  BY <1>4, <1>7, FlattenConcat
<1>10. p \o q \in Seq(Bytes)
  BY <1>4, ConcatProperties
<1>11. FlattenSeq(s) = (P \o Q) \o R
  <2>1. FlattenSeq((p \o q) \o r) = FlattenSeq(p \o q) \o R
    BY <1>4, <1>7, <1>10, FlattenConcat
  <2>. QED
    BY <2>1, <1>5, <1>6, <1>9
<1>12. PICK u : u = P \o Q
  OBVIOUS
<1>13. u \in Seq(Nat) /\ Len(u) = Len(P) + Len(Q)
  BY <1>8, <1>12, ConcatProperties
<1>14. E(s, a) = Len(P) /\ E(s, b) = Len(u)
  BY <1>3, <1>5, <1>7, <1>9, <1>12 DEF E
<1>15. Len(P) \in Nat /\ Len(Q) \in Nat /\ Len(R) \in Nat /\ Len(u) \in Nat
  BY <1>8, <1>13, LenProperties
<1>16. PICK v : v = u \o R
  OBVIOUS
<1>17. v \in Seq(Nat) /\ Len(v) = Len(u) + Len(R)
  BY <1>8, <1>13, <1>16, ConcatProperties
<1>18. Piece(v, 0, Len(u)) = u
  BY <1>8, <1>13, <1>16, PiecesOfConcat
<1>19. Piece(u, Len(P), Len(P) + Len(Q)) = Q
  BY <1>8, <1>12, PiecesOfConcat
<1>20. Piece(v, Len(P), Len(u)) = Q
  <2>1. Len(u) <= Len(v) /\ Len(P) <= Len(u) /\ 0 <= Len(u)
    BY <1>13, <1>15, <1>17
  <2>2. Piece(Piece(v, 0, Len(u)), Len(P), Len(u)) = Piece(v, Len(P), Len(u))
    <3>1. Len(P) \in Nat
      BY <1>15
    <3>2. Len(u) \in Nat
      BY <1>15
    <3>3. Len(P) <= Len(u)
      BY <2>1
    <3>4. Len(u) <= Len(v)
      BY <2>1
    <3>5. v \in Seq(Nat)
      BY <1>17
    <3>. QED
      BY <3>1, <3>2, <3>3, <3>4, <3>5, PieceOfFirst
  <2>. QED
    BY <2>2, <1>13, <1>18, <1>19
<1>. QED
  BY <1>3, <1>7, <1>11, <1>12, <1>13, <1>14, <1>15, <1>16, <1>17, <1>20

Rising(ends) ==
    /\ ends \in Seq(Nat)
    /\ \A i, j \in 1 .. Len(ends) : i < j => ends[i] < ends[j]

LEMMA EndsIncrease ==
    ASSUME NEW s, Full(s), NEW i \in 0 .. Len(s), NEW j \in 0 .. Len(s), i < j
    PROVE  E(s, i) < E(s, j)
<1>1. s \in Seq(Bytes)
  BY DEF Full
<1>2. Len(s) \in Nat
  BY <1>1, LenProperties
<1>3. j \in 1 .. Len(s)
  BY <1>2
<1>4. j - 1 \in 0 .. Len(s)
  BY <1>2, <1>3
<1>5. i <= j - 1
  BY <1>2
<1>6. E(s, i) <= E(s, j - 1)
  BY <1>1, <1>4, <1>5, FlattenPiece
<1>7. E(s, j) = E(s, j - 1) + Len(s[j])
  BY <1>1, <1>3, EndNext
<1>8. s[j] \in Seq(Nat) /\ s[j] # << >>
  BY <1>1, <1>3, ElementOfSeq DEF Full, Bytes
<1>9. Len(s[j]) \in Nat \ {0}
  BY <1>8, EmptySeq
<1>10. E(s, i) \in Nat /\ E(s, j - 1) \in Nat
  BY <1>1, <1>4, EndTyped
<1>. QED
  BY <1>6, <1>7, <1>9, <1>10

LEMMA EndsAre ==
    ASSUME NEW s, Full(s)
    PROVE  /\ Rising(Ends(s)) /\ Len(Ends(s)) = Len(s)
           /\ \A i \in 1 .. Len(s) : Ends(s)[i] = E(s, i)
<1>1. s \in Seq(Bytes)
  BY DEF Full
<1>2. Len(s) \in Nat /\ DOMAIN s = 1 .. Len(s)
  BY <1>1, LenProperties
<1>3. \A i \in 1 .. Len(s) : E(s, i) \in Nat
  BY <1>1, <1>2, EndTyped
<1>4. \A i : Len(FlattenSeq(SubSeq(s, 1, i))) = E(s, i)
  BY DEF E, Piece
<1>5. Ends(s) = [i \in 1 .. Len(s) |-> E(s, i)]
  BY <1>2, <1>4 DEF Ends
<1>6. Ends(s) \in Seq(Nat) /\ Len(Ends(s)) = Len(s)
  BY <1>2, <1>3, <1>5
<1>7. \A i \in 1 .. Len(s) : Ends(s)[i] = E(s, i)
  BY <1>5
<1>8. ASSUME NEW i \in 1 .. Len(s), NEW j \in 1 .. Len(s), i < j
      PROVE  Ends(s)[i] < Ends(s)[j]
  <2>1. i \in 0 .. Len(s)
    BY <1>2
  <2>2. j \in 0 .. Len(s)
    BY <1>2
  <2>3. E(s, i) < E(s, j)
    BY <1>8, <2>1, <2>2, EndsIncrease
  <2>. QED
    BY <1>7, <2>3
<1>. QED
  BY <1>6, <1>7, <1>8 DEF Rising

(* take_closest gives the first block that ends at x or later, or the last. *)
Below(ends, x, c) ==
    /\ \A i \in 1 .. c : ends[i] < x
    /\ \A i \in c + 1 .. Len(ends) : ends[i] >= x
    /\ TakeClosest(ends, x) = IF c = Len(ends) THEN c - 1 ELSE c

LEMMA Closest ==
    ASSUME NEW ends, Rising(ends), ends # << >>, NEW x \in Int
    PROVE  \E c \in 0 .. Len(ends) : Below(ends, x, c)
<1>. DEFINE n == Len(ends)
            T == {c \in 0 .. n : c = n \/ ends[c + 1] >= x}
<1>1. n \in Nat \ {0} /\ DOMAIN ends = 1 .. n
  BY EmptySeq, LenProperties DEF Rising
<1>2. \A i \in 1 .. n : ends[i] \in Nat
  BY ElementOfSeq DEF Rising
<1>3. \A i, j \in 1 .. n : i < j => ends[i] < ends[j]
  BY DEF Rising
<1>4. n = Len(ends)
  OBVIOUS
<1>. HIDE DEF n
<1>5. T \subseteq Nat /\ T # {}
  <2>1. n \in T
    BY <1>1
  <2>. QED
    BY <1>1, <2>1
<1>. HIDE DEF T
<1>6. PICK c \in T : \A y \in T : c <= y
  BY <1>5, Smallest
<1>7. c \in 0 .. n /\ (c = n \/ ends[c + 1] >= x)
  BY <1>6 DEF T
<1>8. ASSUME NEW i \in 1 .. c PROVE ends[i] < x
  <2>1. i - 1 \in 0 .. n /\ i - 1 # n /\ ~ (c <= i - 1) /\ (i - 1) + 1 = i
    BY <1>1, <1>7
  <2>2. i - 1 \notin T
    BY <1>6, <2>1
  <2>3. ~ (ends[i] >= x)
    BY <2>1, <2>2 DEF T
  <2>4. ends[i] \in Nat
    BY <1>1, <1>2, <1>7
  <2>. QED
    BY <2>3, <2>4
<1>9. ASSUME NEW i \in c + 1 .. n PROVE ends[i] >= x
  <2>1. i \in 1 .. n /\ c + 1 \in 1 .. n /\ c # n
    BY <1>1, <1>7
  <2>2. ends[c + 1] >= x
    BY <1>7, <2>1
  <2>3. i = c + 1 \/ c + 1 < i
    BY <1>7
  <2>4. i = c + 1 \/ ends[c + 1] < ends[i]
    BY <1>3, <2>1, <2>3
  <2>5. ends[i] \in Nat /\ ends[c + 1] \in Nat
    BY <1>2, <2>1
  <2>. QED
    BY <2>2, <2>4, <2>5
<1>10. {i \in DOMAIN ends : ends[i] < x} = 1 .. c
  <2>1. ASSUME NEW i \in 1 .. n, ends[i] < x PROVE i \in 1 .. c
    <3>1. ends[i] \in Nat
      BY <1>2
    <3>2. ~ (ends[i] >= x)
      BY <2>1, <3>1
    <3>3. i \notin c + 1 .. n
      BY <1>9, <3>2
    <3>. QED
      BY <1>1, <1>7, <3>3
  <2>2. 1 .. c \subseteq 1 .. n
    BY <1>1, <1>7
  <2>. QED
    BY <1>1, <1>8, <2>1, <2>2
<1>11. Cardinality(1 .. c) = c
  BY <1>1, <1>7, FS_Interval
<1>12. TakeClosest(ends, x) = Min({c, n - 1})
  BY <1>4, <1>10, <1>11 DEF TakeClosest
<1>13. Min({c, n - 1}) = IF c = n THEN c - 1 ELSE c
  <2>1. Min({c, n - 1}) = IF c <= n - 1 THEN c ELSE n - 1
    BY <1>1, <1>7, MinOfTwo
  <2>. QED
    BY <1>1, <1>7, <2>1
<1>. QED
  BY <1>4, <1>7, <1>8, <1>9, <1>12, <1>13 DEF Below

(* Slices. *)
LEMMA BoundTyped ==
    ASSUME NEW T, NEW s \in Seq(T), NEW i \in Int
    PROVE  /\ Bound(s, i) \in 0 .. Len(s)
           /\ 0 <= i /\ i <= Len(s) => Bound(s, i) = i
           /\ i > Len(s) => Bound(s, i) = Len(s)
           /\ i < 0 /\ 0 <= Len(s) + i => Bound(s, i) = Len(s) + i
<1>1. Len(s) \in Nat
  BY LenProperties
<1>2. Len(s) + i \in Int /\ 0 \in Int /\ Len(s) \in Int
  BY <1>1
<1>3. Max({0, Len(s) + i}) = IF 0 >= Len(s) + i THEN 0 ELSE Len(s) + i
  BY <1>2, MaxOfTwo
<1>4. Min({i, Len(s)}) = IF i <= Len(s) THEN i ELSE Len(s)
  BY <1>2, MinOfTwo
<1>. QED
  BY <1>1, <1>3, <1>4 DEF Bound

LEMMA SliceTyped ==
    ASSUME NEW T, NEW s \in Seq(T), NEW a \in Int, NEW b \in Int
    PROVE  /\ Slice(s, a, b) \in Seq(T)
           /\ Slice(s, a, b) = Piece(s, Bound(s, a), Bound(s, b))
<1>1. Bound(s, a) \in 0 .. Len(s)
  BY BoundTyped
<1>2. Bound(s, b) \in 0 .. Len(s)
  BY BoundTyped
<1>3. PICK x, y : x = Bound(s, a) /\ y = Bound(s, b)
  OBVIOUS
<1>4. Len(s) \in Nat
  BY LenProperties
<1>5. x \in Nat /\ y \in Nat /\ y <= Len(s)
  BY <1>1, <1>2, <1>3, <1>4
<1>6. Piece(s, x, y) \in Seq(T)
  <2>1. CASE x <= y
    BY <1>5, <2>1, PieceTyped
  <2>2. CASE y <= x
    <3>1. x \in Int /\ y \in Int
      BY <1>5
    <3>2. Piece(s, x, y) = << >>
      BY <2>2, <3>1, PieceNone
    <3>. QED
      BY <3>2, EmptySeq
  <2>. QED
    BY <1>5, <2>1, <2>2
<1>7. Slice(s, a, b) = Piece(s, x, y)
  BY <1>3 DEF Slice, Piece
<1>. QED
  BY <1>3, <1>6, <1>7

-----------------------------------------------------------------------------
(* Where a read starts and ends, for any offsets it may find. *)
LEMMA ItemOf ==
    ASSUME NEW s, Len(s) \in Nat, NEW i \in Int
    PROVE  Item(s, i) = IF i < 0 THEN s[Len(s) + i + 1] ELSE s[i + 1]
BY DEF Item

LEMMA StartTyped ==
    ASSUME NEW ends, Rising(ends), ends # << >>, NEW offset \in Nat
    PROVE  /\ StartOf(ends, offset).blk \in Int /\ StartOf(ends, offset).diff \in Int
           /\ StartOf(ends, offset).diff >= 0 => StartOf(ends, offset).blk >= 0
<1>. DEFINE n == TakeClosest(ends, offset)
            blk == Item(ends, n)
            last == Item(ends, n - 1)
<1>1. Len(ends) \in Nat \ {0}
  BY EmptySeq DEF Rising
<1>2. \A i \in 1 .. Len(ends) : ends[i] \in Nat
  BY ElementOfSeq DEF Rising
<1>0. PICK c \in 0 .. Len(ends) : Below(ends, offset, c)
  BY Closest
<1>3. /\ \A i \in 1 .. c : ends[i] < offset
      /\ \A i \in c + 1 .. Len(ends) : ends[i] >= offset
      /\ n = IF c = Len(ends) THEN c - 1 ELSE c
  BY <1>0 DEF Below
<1>. HIDE DEF n
<1>4. n \in 0 .. Len(ends) - 1
  BY <1>1, <1>3
<1>5. blk = ends[n + 1] /\ blk \in Nat
  <2>1. blk = ends[n + 1]
    BY <1>1, <1>4 DEF Item
  <2>2. n + 1 \in 1 .. Len(ends)
    BY <1>1, <1>4
  <2>. QED
    BY <1>2, <2>1, <2>2
<1>6. last \in Nat /\ (blk < offset => last < offset)
  <2>1. CASE n = 0
    <3>1. last = ends[Len(ends)]
      <4>1. n - 1 \in Int /\ n - 1 < 0 /\ Len(ends) + (n - 1) + 1 = Len(ends)
        BY <1>1, <2>1
      <4>. QED
        BY <1>1, <4>1, ItemOf
    <3>2. Len(ends) \in 1 .. Len(ends)
      BY <1>1
    <3>3. last \in Nat
      BY <1>2, <3>1, <3>2
    <3>4. ASSUME blk < offset PROVE last < offset
      <4>1. ~ (ends[n + 1] >= offset)
        BY <1>5, <3>4
      <4>2. n + 1 \notin c + 1 .. Len(ends)
        BY <1>3, <4>1
      <4>3. c = Len(ends)
        BY <1>1, <1>3, <1>4, <4>2
      <4>4. Len(ends) \in 1 .. c
        BY <1>1, <4>3
      <4>. QED
        BY <1>3, <3>1, <4>4
    <3>. QED
      BY <3>3, <3>4
  <2>2. CASE n # 0
    <3>1. last = ends[n]
      <4>1. n - 1 \in Int /\ ~ (n - 1 < 0) /\ (n - 1) + 1 = n
        BY <1>4, <2>2
      <4>. QED
        BY <1>1, <4>1, ItemOf
    <3>2. n \in 1 .. Len(ends) /\ n \in 1 .. c
      BY <1>1, <1>3, <1>4, <2>2
    <3>3. last \in Nat /\ last < offset
      BY <1>2, <1>3, <3>1, <3>2
    <3>. QED
      BY <3>3
  <2>. QED
    BY <2>1, <2>2
<1>7. StartOf(ends, offset) =
        CASE offset = 0 -> [blk |-> 0, diff |-> 0]
          [] offset # 0 /\ blk = offset -> [blk |-> n + 1, diff |-> 0]
          [] offset # 0 /\ blk < offset -> [blk |-> n - 1, diff |-> last - offset]
          [] offset # 0 /\ blk > offset -> [blk |-> n, diff |-> blk - offset]
  BY DEF StartOf, n
<1>. HIDE DEF blk, last
<1>8. n \in Nat
  BY <1>1, <1>4
<1>9. CASE offset = 0
  BY <1>7, <1>9
<1>10. CASE offset # 0 /\ blk = offset
  <2>1. StartOf(ends, offset) = [blk |-> n + 1, diff |-> 0]
    BY <1>5, <1>7, <1>10
  <2>. QED
    BY <1>8, <2>1
<1>11. CASE offset # 0 /\ blk < offset
  <2>1. StartOf(ends, offset) = [blk |-> n - 1, diff |-> last - offset]
    BY <1>5, <1>7, <1>11
  <2>. QED
    BY <1>6, <1>8, <1>11, <2>1
<1>12. CASE offset # 0 /\ blk > offset
  <2>1. StartOf(ends, offset) = [blk |-> n, diff |-> blk - offset]
    BY <1>5, <1>7, <1>12
  <2>. QED
    BY <1>5, <1>8, <2>1
<1>. QED
  BY <1>5, <1>9, <1>10, <1>11, <1>12

LEMMA EndOfTyped ==
    ASSUME NEW ends, Rising(ends), ends # << >>, NEW x \in Int
    PROVE  /\ EndOf(ends, x).blk \in 0 .. Len(ends) - 1
           /\ EndOf(ends, x).diff \in Int
<1>1. Len(ends) \in Nat \ {0}
  BY EmptySeq DEF Rising
<1>2. PICK n : n = TakeClosest(ends, x)
  OBVIOUS
<1>3. n \in 0 .. Len(ends) - 1
  <2>1. \E c \in 0 .. Len(ends) : n = IF c = Len(ends) THEN c - 1 ELSE c
    BY <1>2, Closest DEF Below
  <2>. QED
    BY <1>1, <2>1
<1>4. Item(ends, n) = ends[n + 1] /\ n + 1 \in 1 .. Len(ends)
  BY <1>1, <1>3, ItemOf
<1>5. ends[n + 1] \in Nat
  BY <1>4, ElementOfSeq DEF Rising
<1>6. EndOf(ends, x) = [blk |-> n, diff |-> Item(ends, n) - x]
  BY <1>2 DEF EndOf
<1>. QED
  BY <1>3, <1>4, <1>5, <1>6

-----------------------------------------------------------------------------
(* A read gives bytes, or fails, whatever offsets it finds. *)
Shape == Full(data) /\ Rising(offsets) /\ size \in Nat

LEMMA KnownTyped ==
    ASSUME Shape, data # << >>
    PROVE  Rising(KnownOffsets) /\ KnownOffsets # << >>
<1>1. Full(data) /\ data \in Seq(Bytes)
  BY DEF Shape, Full
<1>2. Len(data) \in Nat \ {0}
  BY <1>1, EmptySeq
<1>3. Rising(Ends(data)) /\ Len(Ends(data)) = Len(data)
  BY <1>1, EndsAre
<1>4. Ends(data) # << >>
  BY <1>2, <1>3, EmptySeq
<1>. QED
  BY <1>3, <1>4 DEF KnownOffsets, Shape

LEMMA FileDataTyped ==
    ASSUME NEW a \in Int, NEW b \in Int, data \in Seq(Bytes)
    PROVE  FileData(a, b) \in Bytes
<1>1. b + 1 \in Int
  OBVIOUS
<1>2. Slice(data, a, b + 1) \in Seq(Bytes)
  BY <1>1, SliceTyped
<1>. QED
  BY <1>2, FlattenTyped DEF FileData

LEMMA FromTyped ==
    ASSUME NEW b \in Bytes, NEW i \in Int
    PROVE  From(b, i) \in Bytes /\ UpTo(b, i) \in Bytes
<1>1. b \in Seq(Nat)
  BY DEF Bytes
<1>2. Len(b) \in Int /\ 0 \in Int
  BY <1>1, LenProperties
<1>3. Slice(b, i, Len(b)) \in Seq(Nat)
  BY <1>1, <1>2, SliceTyped
<1>4. Slice(b, 0, i) \in Seq(Nat)
  BY <1>1, <1>2, SliceTyped
<1>. QED
  BY <1>3, <1>4 DEF From, UpTo, Bytes

LEMMA RetrieveTyped ==
    ASSUME Shape, NEW offset \in Nat, NEW length \in Int
    PROVE  RetrieveData(offset, length) \in Bytes \union {IndexError}
<1>. DEFINE ends == KnownOffsets
            end_offset == Min({size, offset + length})
            wanted == end_offset - offset
            start == StartOf(ends, offset)
            end == EndOf(ends, end_offset)
            blocks == FileData(start.blk, end.blk)
            tail == CASE start.blk = 0 -> From(blocks, offset)
                      [] start.blk >= Len(data) /\ start.diff > 0 -> IndexError
                      [] start.blk # 0 /\ start.blk < Len(data) /\ start.diff > 0 ->
                            From(blocks, Len(Item(data, start.blk)) - start.diff)
                      [] OTHER -> blocks
<1>1. RetrieveData(offset, length) =
        CASE data = << >> -> << >>
          [] data # << >> /\ start.blk = 0 /\ end.blk = 0 ->
                Slice(FileData(0, 1), offset, end_offset)
          [] data # << >> /\ ~ (start.blk = 0 /\ end.blk = 0) /\ size = end_offset ->
                From(blocks, -wanted)
          [] OTHER ->
                IF tail # IndexError /\ end.diff # 0 /\ Len(tail) > wanted THEN UpTo(tail, -end.diff) ELSE tail
  BY DEF RetrieveData
<1>2. data \in Seq(Bytes)
  BY DEF Shape, Full
<1>3. size \in Int /\ offset + length \in Int
  BY DEF Shape
<1>4. end_offset \in Int
  <2>1. end_offset = IF size <= offset + length THEN size ELSE offset + length
    BY <1>3, MinOfTwo
  <2>. QED
    BY <1>3, <2>1
<1>5. wanted \in Int
  BY <1>4
<1>6. CASE data = << >>
  BY <1>1, <1>6, EmptySeq DEF Bytes
<1>7. CASE data # << >>
  <2>1. Rising(ends) /\ ends # << >>
    BY <1>7, KnownTyped
  <2>2. /\ start.blk \in Int /\ start.diff \in Int
        /\ start.diff >= 0 => start.blk >= 0
    <3>. HIDE DEF ends
    <3>. QED
      BY <2>1, StartTyped
  <2>3. end.blk \in Int /\ end.diff \in Int
    <3>. HIDE DEF ends, end_offset
    <3>1. EndOf(ends, end_offset).blk \in 0 .. Len(ends) - 1 /\ EndOf(ends, end_offset).diff \in Int
      BY <2>1, <1>4, EndOfTyped
    <3>. QED
      BY <3>1
  <2>. HIDE DEF ends, end_offset, wanted, start, end
  <2>4. blocks \in Bytes
    BY <1>2, <2>2, <2>3, FileDataTyped
  <2>. HIDE DEF blocks
  <2>5. tail \in Bytes \union {IndexError}
    <3>1. CASE start.blk = 0
      <4>1. ~ (0 >= Len(data))
        BY <1>2, <1>7, EmptySeq
      <4>2. tail = From(blocks, offset)
        BY <3>1, <4>1
      <4>. QED
        BY <2>4, <4>2, FromTyped
    <3>2. CASE start.blk # 0 /\ start.blk >= Len(data) /\ start.diff > 0
      <4>1. ~ (start.blk < Len(data))
        BY <1>2, <2>2, <3>2, LenProperties
      <4>2. tail = IndexError
        BY <3>2, <4>1
      <4>. QED
        BY <4>2
    <3>3. CASE start.blk # 0 /\ start.blk < Len(data) /\ start.diff > 0
      <4>1. ~ (start.blk >= Len(data))
        BY <1>2, <2>2, <3>3, LenProperties
      <4>2. tail = From(blocks, Len(Item(data, start.blk)) - start.diff)
        BY <3>3, <4>1
      <4>3. start.blk >= 0
        BY <2>2, <3>3
      <4>4. Item(data, start.blk) = data[start.blk + 1]
        BY <2>2, <4>3 DEF Item
      <4>5. start.blk + 1 \in 1 .. Len(data)
        BY <1>2, <2>2, <3>3, <4>3, LenProperties
      <4>6. data[start.blk + 1] \in Seq(Nat)
        BY <1>2, <4>5, ElementOfSeq DEF Bytes
      <4>7. Len(Item(data, start.blk)) - start.diff \in Int
        BY <2>2, <4>4, <4>6, LenProperties
      <4>. QED
        BY <2>4, <4>2, <4>7, FromTyped
    <3>4. CASE start.blk # 0 /\ ~ (start.diff > 0)
      <4>1. tail = blocks
        BY <3>4
      <4>. QED
        BY <2>4, <4>1
    <3>5. start.blk < Len(data) \/ start.blk >= Len(data)
      BY <1>2, <2>2, LenProperties
    <3>. QED
      BY <3>1, <3>2, <3>3, <3>4, <3>5
  <2>. HIDE DEF tail
  <2>6. Slice(FileData(0, 1), offset, end_offset) \in Bytes
    <3>1. FileData(0, 1) \in Seq(Nat)
      BY <1>2, FileDataTyped DEF Bytes
    <3>2. offset \in Int
      OBVIOUS
    <3>. QED
      BY <1>4, <3>1, <3>2, SliceTyped DEF Bytes
  <2>7. From(blocks, -wanted) \in Bytes
    <3>1. -wanted \in Int
      BY <1>5
    <3>. QED
      BY <2>4, <3>1, FromTyped
  <2>8. tail # IndexError => UpTo(tail, -end.diff) \in Bytes
    <3>1. -end.diff \in Int
      BY <2>3
    <3>. QED
      BY <2>5, <3>1, FromTyped
  <2>9. CASE start.blk = 0 /\ end.blk = 0
    <3>1. RetrieveData(offset, length) = Slice(FileData(0, 1), offset, end_offset)
      BY <1>1, <1>7, <2>9
    <3>. QED
      BY <2>6, <3>1
  <2>10. CASE ~ (start.blk = 0 /\ end.blk = 0) /\ size = end_offset
    <3>1. RetrieveData(offset, length) = From(blocks, -wanted)
      BY <1>1, <1>7, <2>10
    <3>. QED
      BY <2>7, <3>1
  <2>11. CASE ~ (start.blk = 0 /\ end.blk = 0) /\ size # end_offset
    <3>1. RetrieveData(offset, length) =
            IF tail # IndexError /\ end.diff # 0 /\ Len(tail) > wanted THEN UpTo(tail, -end.diff) ELSE tail
      BY <1>1, <1>7, <2>11
    <3>. QED
      BY <2>5, <2>8, <3>1
  <2>. QED
    BY <2>9, <2>10, <2>11
<1>. QED
  BY <1>6, <1>7

-----------------------------------------------------------------------------
(* dedup: the blocks a buffer is cut into are the buffer. *)
Rank(cuts, x) == Cardinality({b \in cuts : b <= x})

LEMMA RankTyped ==
    ASSUME NEW n \in Nat, NEW cuts, cuts \subseteq 1 .. n, NEW x \in Int
    PROVE  /\ Rank(cuts, x) \in Nat
           /\ IsFiniteSet({b \in cuts : b <= x})
<1>1. IsFiniteSet(1 .. n)
  BY FS_Interval
<1>2. {b \in cuts : b <= x} \subseteq 1 .. n
  OBVIOUS
<1>3. IsFiniteSet({b \in cuts : b <= x})
  BY <1>1, <1>2, FS_Subset
<1>. QED
  BY <1>3, FS_CardinalityType DEF Rank

LEMMA RankNext ==
    ASSUME NEW n \in Nat, NEW cuts, cuts \subseteq 1 .. n, NEW x \in Int
    PROVE  Rank(cuts, x) = IF x \in cuts THEN Rank(cuts, x - 1) + 1 ELSE Rank(cuts, x - 1)
<1>. DEFINE S == {b \in cuts : b <= x - 1}
<1>1. x - 1 \in Int
  OBVIOUS
<1>2. IsFiniteSet(S)
  BY <1>1, RankTyped
<1>3. cuts \subseteq Int
  OBVIOUS
<1>4. \A b \in Int : b <= x <=> b <= x - 1 \/ b = x
  OBVIOUS
<1>5. CASE x \in cuts
  <2>1. {b \in cuts : b <= x} = S \union {x}
    BY <1>3, <1>4, <1>5
  <2>2. x \notin S
    OBVIOUS
  <2>. HIDE DEF S
  <2>3. Cardinality(S \union {x}) = Cardinality(S) + 1
    BY <1>2, <2>2, FS_AddElement
  <2>. QED
    BY <1>5, <2>1, <2>3 DEF Rank, S
<1>6. CASE x \notin cuts
  <2>1. {b \in cuts : b <= x} = S
    BY <1>3, <1>4, <1>6
  <2>. QED
    BY <1>6, <2>1 DEF Rank
<1>. QED
  BY <1>5, <1>6

LEMMA NthExists ==
    ASSUME NEW n \in Nat, NEW cuts, cuts \subseteq 1 .. n, NEW i \in 1 .. Cardinality(cuts)
    PROVE  Nth(cuts, i) \in cuts /\ Rank(cuts, Nth(cuts, i)) = i
<1>0. IsFiniteSet(1 .. n) /\ \A b \in cuts : b \in Int /\ b <= n /\ ~ (b <= 0)
  BY FS_Interval
<1>1. IsFiniteSet(cuts)
  BY <1>0, FS_Subset
<1>2. Cardinality(cuts) \in Nat
  BY <1>1, FS_CardinalityType
<1>3. {b \in cuts : b <= n} = cuts /\ {b \in cuts : b <= 0} = {}
  BY <1>0
<1>4. Rank(cuts, n) = Cardinality(cuts) /\ Rank(cuts, 0) = 0
  BY <1>3, FS_EmptySet DEF Rank
<1>. DEFINE T == {x \in 0 .. n : Rank(cuts, x) >= i}
<1>5. T \subseteq Nat /\ T # {}
  <2>1. n \in T
    BY <1>2, <1>4
  <2>. QED
    BY <2>1
<1>. HIDE DEF T
<1>6. PICK c \in T : \A y \in T : c <= y
  BY <1>5, Smallest
<1>7. c \in 0 .. n /\ Rank(cuts, c) >= i
  BY <1>6 DEF T
<1>8. c # 0
  BY <1>2, <1>4, <1>7
<1>9. c - 1 \in 0 .. n /\ c - 1 \in Int /\ c \in Int /\ ~ (c <= c - 1)
  BY <1>7, <1>8
<1>10. c - 1 \notin T
  BY <1>6, <1>9
<1>11. ~ (Rank(cuts, c - 1) >= i)
  BY <1>9, <1>10 DEF T
<1>12. Rank(cuts, c) = IF c \in cuts THEN Rank(cuts, c - 1) + 1 ELSE Rank(cuts, c - 1)
  BY <1>9, RankNext
<1>13. Rank(cuts, c - 1) \in Nat
  BY <1>9, RankTyped
<1>14. c \in cuts /\ Rank(cuts, c) = i
  BY <1>2, <1>7, <1>11, <1>12, <1>13
<1>15. Nth(cuts, i) = CHOOSE x \in cuts : Rank(cuts, x) = i
  BY DEF Nth, Rank
<1>. QED
  BY <1>14, <1>15

LEMMA RankGrows ==
    ASSUME NEW n \in Nat, NEW cuts, cuts \subseteq 1 .. n, NEW x \in Int, NEW y \in Int, x <= y
    PROVE  Rank(cuts, x) <= Rank(cuts, y)
<1>1. IsFiniteSet({b \in cuts : b <= y})
  BY RankTyped
<1>2. {b \in cuts : b <= x} \subseteq {b \in cuts : b <= y}
  <2>1. \A b \in cuts : b \in Int
    OBVIOUS
  <2>2. \A b \in Int : b <= x => b <= y
    OBVIOUS
  <2>. QED
    BY <2>1, <2>2
<1>. QED
  BY <1>1, <1>2, FS_Subset DEF Rank

LEMMA CutTyped ==
    ASSUME NEW buf \in Bytes, NEW cuts, cuts \subseteq 1 .. Len(buf), Len(buf) \in cuts
    PROVE  Full(CutAt(buf, cuts)) /\ FlattenSeq(CutAt(buf, cuts)) = buf
<1>. DEFINE n == Len(buf)
            k == Cardinality(cuts)
            at == [i \in 0 .. k |-> IF i = 0 THEN 0 ELSE Nth(cuts, i)]
            s == CutAt(buf, cuts)
<1>1. n \in Nat
  BY LenProperties DEF Bytes
<1>2. IsFiniteSet(cuts)
  <2>1. IsFiniteSet(1 .. Len(buf))
    BY <1>1, FS_Interval
  <2>. QED
    BY <2>1, FS_Subset
<1>3. k \in Nat
  BY <1>2, FS_CardinalityType
<1>. HIDE DEF n
<1>4. cuts \subseteq 1 .. n /\ n \in cuts
  BY DEF n
<1>5. \A i \in 1 .. k : Nth(cuts, i) \in cuts /\ Rank(cuts, Nth(cuts, i)) = i
  BY <1>1, <1>4, NthExists
<1>6. Rank(cuts, 0) = 0
  <2>1. {b \in cuts : b <= 0} = {}
    <3>1. \A b \in cuts : b \in 1 .. n
      BY <1>4
    <3>2. \A b \in 1 .. n : ~ (b <= 0)
      BY <1>1
    <3>. QED
      BY <3>1, <3>2
  <2>. QED
    BY <2>1, FS_EmptySet DEF Rank
<1>. HIDE DEF k
<1>7. \A i \in 0 .. k : at[i] \in 0 .. n /\ Rank(cuts, at[i]) = i
  <2>1. SUFFICES ASSUME NEW i \in 0 .. k PROVE at[i] \in 0 .. n /\ Rank(cuts, at[i]) = i
    OBVIOUS
  <2>2. CASE i = 0
    <3>1. at[i] = 0
      BY <2>2
    <3>. QED
      BY <1>1, <1>6, <2>2, <3>1
  <2>3. CASE i # 0
    <3>1. i \in 1 .. k
      BY <1>3, <2>3
    <3>2. at[i] = Nth(cuts, i)
      BY <2>3
    <3>3. Nth(cuts, i) \in cuts /\ Rank(cuts, Nth(cuts, i)) = i
      BY <1>5, <3>1
    <3>4. \A b \in 1 .. n : b \in 0 .. n
      BY <1>1
    <3>. QED
      BY <1>4, <3>2, <3>3, <3>4
  <2>. QED
    BY <2>2, <2>3
<1>8. at[0] = 0
  BY <1>3
<1>9. at[k] = n
  <2>1. k # 0
    BY <1>2, <1>4, FS_EmptySet DEF k
  <2>2. k \in 1 .. k
    BY <1>3, <2>1
  <2>3. Nth(cuts, k) \in cuts /\ Rank(cuts, Nth(cuts, k)) = k
    BY <1>5, <2>2
  <2>4. PICK c : c = Nth(cuts, k)
    OBVIOUS
  <2>5. {b \in cuts : b <= c} = cuts
    <3>1. {b \in cuts : b <= c} \subseteq cuts
      OBVIOUS
    <3>2. Cardinality({b \in cuts : b <= c}) = Cardinality(cuts)
      BY <2>3, <2>4 DEF Rank, k
    <3>. QED
      BY <1>2, <3>1, <3>2, FS_Subset
  <2>6. n <= c
    BY <1>4, <2>5
  <2>7. c = n
    <3>1. c \in 1 .. n
      BY <1>4, <2>3, <2>4
    <3>. QED
      BY <1>1, <2>6, <3>1
  <2>8. at[k] = Nth(cuts, k)
    BY <1>3, <2>1
  <2>. QED
    BY <2>4, <2>7, <2>8
<1>. HIDE DEF at
<1>10. \A i \in 1 .. k : at[i - 1] < at[i]
  <2>. SUFFICES ASSUME NEW i \in 1 .. k PROVE at[i - 1] < at[i]
    OBVIOUS
  <2>1. i \in 0 .. k /\ i - 1 \in 0 .. k
    BY <1>3
  <2>2. at[i] \in 0 .. n /\ Rank(cuts, at[i]) = i
    BY <1>7, <2>1
  <2>3. at[i - 1] \in 0 .. n /\ Rank(cuts, at[i - 1]) = i - 1
    BY <1>7, <2>1
  <2>4. SUFFICES ASSUME at[i] <= at[i - 1] PROVE FALSE
    BY <1>1, <2>2, <2>3
  <2>5. at[i] \in Int
    BY <1>1, <2>2
  <2>6. at[i - 1] \in Int
    BY <1>1, <2>3
  <2>7. Rank(cuts, at[i]) <= Rank(cuts, at[i - 1])
    BY <1>1, <1>4, <2>4, <2>5, <2>6, RankGrows
  <2>. QED
    BY <1>3, <2>2, <2>3, <2>7
<1>11. s = [i \in 1 .. k |-> Piece(buf, at[i - 1], at[i])]
  <2>1. \A i \in 1 .. k : SubSeq(buf, IF i = 1 THEN 1 ELSE Nth(cuts, i - 1) + 1, Nth(cuts, i))
                            = Piece(buf, at[i - 1], at[i])
    <3>. SUFFICES ASSUME NEW i \in 1 .. k
                  PROVE  SubSeq(buf, IF i = 1 THEN 1 ELSE Nth(cuts, i - 1) + 1, Nth(cuts, i))
                            = Piece(buf, at[i - 1], at[i])
      OBVIOUS
    <3>1. at[i] = Nth(cuts, i) /\ at[i - 1] = IF i = 1 THEN 0 ELSE Nth(cuts, i - 1)
      BY <1>3 DEF at
    <3>2. at[i - 1] + 1 = IF i = 1 THEN 1 ELSE Nth(cuts, i - 1) + 1
      BY <3>1
    <3>. QED
      BY <3>1, <3>2 DEF Piece
  <2>2. s = [i \in 1 .. k |->
               SubSeq(buf, IF i = 1 THEN 1 ELSE Nth(cuts, i - 1) + 1, Nth(cuts, i))]
    BY DEF CutAt, k
  <2>. HIDE DEF s
  <2>. QED
    BY <2>1, <2>2
<1>12. \A i \in 1 .. k : /\ Piece(buf, at[i - 1], at[i]) \in Bytes
                         /\ Len(Piece(buf, at[i - 1], at[i])) = at[i] - at[i - 1]
  <2>. SUFFICES ASSUME NEW i \in 1 .. k
                PROVE /\ Piece(buf, at[i - 1], at[i]) \in Bytes
                      /\ Len(Piece(buf, at[i - 1], at[i])) = at[i] - at[i - 1]
    OBVIOUS
  <2>1. i \in 0 .. k /\ i - 1 \in 0 .. k
    BY <1>3
  <2>2. at[i] \in 0 .. n /\ at[i - 1] \in 0 .. n /\ at[i - 1] < at[i]
    BY <1>7, <1>10, <2>1
  <2>3. at[i] \in Nat
    BY <1>1, <2>2
  <2>4. at[i - 1] \in Nat
    BY <1>1, <2>2
  <2>5. at[i - 1] <= at[i]
    BY <2>2, <2>3, <2>4
  <2>6. at[i] <= Len(buf)
    BY <1>1, <2>2 DEF n
  <2>7. buf \in Seq(Nat)
    BY DEF Bytes
  <2>8. PICK x, y : x = at[i - 1] /\ y = at[i]
    OBVIOUS
  <2>9. Piece(buf, x, y) \in Seq(Nat) /\ Len(Piece(buf, x, y)) = y - x
    <3>1. x \in Nat
      BY <2>4, <2>8
    <3>2. y \in Nat
      BY <2>3, <2>8
    <3>3. x <= y
      BY <2>5, <2>8
    <3>4. y <= Len(buf)
      BY <2>6, <2>8
    <3>. QED
      BY <2>7, <3>1, <3>2, <3>3, <3>4, PieceTyped
  <2>. QED
    BY <2>8, <2>9 DEF Bytes
<1>. HIDE DEF s
<1>13. s \in Seq(Bytes) /\ Len(s) = k /\ \A i \in 1 .. k : s[i] = Piece(buf, at[i - 1], at[i])
  BY <1>3, <1>11, <1>12
<1>14. Full(s)
  <2>1. ASSUME NEW i \in 1 .. k PROVE s[i] # << >>
    <3>1. i \in 0 .. k /\ i - 1 \in 0 .. k
      BY <1>3
    <3>2. at[i] \in 0 .. n /\ at[i - 1] \in 0 .. n /\ at[i - 1] < at[i]
      BY <1>7, <1>10, <3>1
    <3>3. Len(s[i]) # 0
      BY <1>1, <1>12, <1>13, <3>2
    <3>. QED
      BY <3>3, EmptySeq
  <2>. QED
    BY <1>13, <2>1 DEF Full
<1>15. FlattenSeq(s) = buf
  <2>. DEFINE f == [i \in 0 .. k |-> Piece(buf, 0, at[i])]
  <2>0. buf \in Seq(Nat)
    BY DEF Bytes
  <2>1. \A i \in 0 .. k : Piece(buf, 0, at[i]) \in Bytes
    <3>. SUFFICES ASSUME NEW i \in 0 .. k PROVE Piece(buf, 0, at[i]) \in Bytes
      OBVIOUS
    <3>1. at[i] \in 0 .. n
      BY <1>7
    <3>2. at[i] \in Nat
      BY <1>1, <3>1
    <3>3. at[i] <= Len(buf)
      BY <1>1, <3>1 DEF n
    <3>. QED
      BY <2>0, <3>2, <3>3, PieceFirst DEF Bytes
  <2>2. Piece(buf, 0, 0) = << >>
    BY PieceNone
  <2>3. \A i \in 1 .. k : Piece(buf, 0, at[i]) = Piece(buf, 0, at[i - 1]) \o s[i]
    <3>. SUFFICES ASSUME NEW i \in 1 .. k
                  PROVE  Piece(buf, 0, at[i]) = Piece(buf, 0, at[i - 1]) \o s[i]
      OBVIOUS
    <3>1. i \in 0 .. k /\ i - 1 \in 0 .. k
      BY <1>3
    <3>2. at[i] \in 0 .. n /\ at[i - 1] \in 0 .. n /\ at[i - 1] < at[i]
      BY <1>7, <1>10, <3>1
    <3>3. PICK x, y, z : z = 0 /\ x = at[i - 1] /\ y = at[i]
      OBVIOUS
    <3>4. x \in Nat
      BY <1>1, <3>2, <3>3
    <3>5. y \in Nat
      BY <1>1, <3>2, <3>3
    <3>6. z \in Nat
      BY <3>3
    <3>7. z <= x
      BY <3>3, <3>4
    <3>8. x <= y
      BY <3>2, <3>3, <3>4, <3>5
    <3>9. y <= Len(buf)
      BY <1>1, <3>2, <3>3 DEF n
    <3>10. Piece(buf, z, x) \o Piece(buf, x, y) = Piece(buf, z, y)
      BY <2>0, <3>4, <3>5, <3>6, <3>7, <3>8, <3>9, PiecesJoin
    <3>. QED
      BY <1>13, <3>3, <3>10
  <2>4. f \in [0 .. k -> Bytes] /\ f[0] = << >> /\ f[k] = Piece(buf, 0, at[k])
        /\ \A i \in 1 .. k : f[i] = f[i - 1] \o s[i]
    <3>1. f \in [0 .. k -> Bytes]
      BY <2>1
    <3>2. 0 \in 0 .. k /\ k \in 0 .. k
      BY <1>3
    <3>3. f[0] = Piece(buf, 0, at[0]) /\ f[k] = Piece(buf, 0, at[k])
      BY <3>2
    <3>4. ASSUME NEW i \in 1 .. k PROVE f[i] = f[i - 1] \o s[i]
      <4>1. i \in 0 .. k /\ i - 1 \in 0 .. k
        BY <1>3
      <4>2. f[i] = Piece(buf, 0, at[i]) /\ f[i - 1] = Piece(buf, 0, at[i - 1])
        BY <4>1
      <4>. QED
        BY <2>3, <4>2
    <3>. QED
      BY <1>8, <2>2, <3>1, <3>3, <3>4
  <2>. HIDE DEF f
  <2>5. Joins(s, f)
    BY <1>13, <2>4 DEF Joins
  <2>6. FlattenSeq(s) = f[k]
    BY <1>13, <2>5, FlattenJoins
  <2>7. Piece(buf, 0, n) = buf
    BY <2>0, PieceAll DEF n
  <2>. QED
    BY <1>9, <2>4, <2>6, <2>7
<1>. QED
  BY <1>14, <1>15 DEF s

LEMMA CutsTyped ==
    ASSUME NEW buf \in Bytes, buf # << >>, NEW blocks \in Cuts(buf)
    PROVE  Full(blocks) /\ FlattenSeq(blocks) = buf
<1>1. Len(buf) \in Nat \ {0}
  BY EmptySeq DEF Bytes
<1>2. PICK inside \in SUBSET (1 .. Len(buf) - 1) : blocks = CutAt(buf, inside \union {Len(buf)})
  BY DEF Cuts
<1>3. inside \union {Len(buf)} \subseteq 1 .. Len(buf)
  <2>1. \A b \in 1 .. Len(buf) - 1 : b \in 1 .. Len(buf)
    BY <1>1
  <2>2. Len(buf) \in 1 .. Len(buf)
    BY <1>1
  <2>. QED
    BY <1>2, <2>1, <2>2
<1>4. Len(buf) \in inside \union {Len(buf)}
  OBVIOUS
<1>. QED
  BY <1>2, <1>3, <1>4, CutTyped

-----------------------------------------------------------------------------
(* Blocks that are not empty. *)
Solid == Bytes \ {<< >>}

LEMMA FullIs ==
    ASSUME NEW s
    PROVE  Full(s) <=> s \in Seq(Solid)
<1>1. ASSUME Full(s) PROVE s \in Seq(Solid)
  <2>1. s \in Seq(Bytes)
    BY <1>1 DEF Full
  <2>2. Len(s) \in Nat /\ s = [i \in 1 .. Len(s) |-> s[i]]
    BY <2>1, LenProperties
  <2>3. \A i \in 1 .. Len(s) : s[i] \in Solid
    BY <1>1, <2>1, ElementOfSeq DEF Full, Solid
  <2>. QED
    BY <2>2, <2>3
<1>2. ASSUME s \in Seq(Solid) PROVE Full(s)
  <2>1. Solid \subseteq Bytes
    BY DEF Solid
  <2>2. s \in Seq(Bytes)
    BY <1>2, <2>1, SeqMonotonic
  <2>3. \A i \in 1 .. Len(s) : s[i] \in Solid
    BY <1>2, ElementOfSeq
  <2>. QED
    BY <2>2, <2>3 DEF Full, Solid
<1>. QED
  BY <1>1, <1>2

LEMMA RemoveAtTyped ==
    ASSUME NEW T, NEW s \in Seq(T), NEW i \in 1 .. Len(s)
    PROVE  RemoveAt(s, i) \in Seq(T)
<1>1. Len(s) \in Nat
  BY LenProperties
<1>2. \A j \in 1 .. Len(s) : s[j] \in T
  BY ElementOfSeq
<1>3. i - 1 \in Int /\ i + 1 \in Int /\ 1 \in Int
      /\ (\A j \in 1 .. i - 1 : s[j] \in T) /\ (\A j \in i + 1 .. Len(s) : s[j] \in T)
  BY <1>1, <1>2
<1>4. SubSeq(s, 1, i - 1) \in Seq(T)
  BY <1>3, SubSeqProperties
<1>5. SubSeq(s, i + 1, Len(s)) \in Seq(T)
  BY <1>1, <1>3, SubSeqProperties
<1>. QED
  BY <1>4, <1>5, ConcatProperties DEF RemoveAt

LEMMA PoppedTyped ==
    ASSUME NEW blocks \in Seq(Solid), NEW first \in Nat, NEW last \in Int
    PROVE  Popped(blocks, first, last) \in Seq(Solid)
<1>. DEFINE Lines == Seq(Solid)
            count == Max({0, last - first + 1})
            Less(s, j) == IF first + j <= Len(s) THEN RemoveAt(s, first + j) ELSE s
            Rule(h) == h = [j \in 0 .. count |->
                              IF j = 0 THEN blocks
                              ELSE IF first + j <= Len(h[j - 1]) THEN RemoveAt(h[j - 1], first + j)
                              ELSE h[j - 1]]
            after == CHOOSE h : Rule(h)
            g == [p \in Lines \X (1 .. count) |-> Less(p[1], p[2])]
<1>1. count \in Nat
  <2>1. 0 \in Int /\ last - first + 1 \in Int
    OBVIOUS
  <2>2. count = IF 0 >= last - first + 1 THEN 0 ELSE last - first + 1
    BY <2>1, MaxOfTwo
  <2>. QED
    BY <2>1, <2>2
<1>2. Popped(blocks, first, last) = after[count]
  BY DEF Popped
<1>. HIDE DEF count
<1>3. ASSUME NEW s \in Lines, NEW j \in 1 .. count PROVE Less(s, j) \in Lines
  <2>1. CASE first + j <= Len(s)
    <3>1. first + j \in 1 .. Len(s)
      BY <1>1, <2>1, LenProperties
    <3>2. RemoveAt(s, first + j) \in Seq(Solid)
      BY <3>1, RemoveAtTyped
    <3>. QED
      BY <2>1, <3>2
  <2>2. CASE ~ (first + j <= Len(s))
    BY <2>2
  <2>. QED
    BY <2>1, <2>2
<1>4. g \in [Lines \X (1 .. count) -> Lines]
  <2>. HIDE DEF Lines, Less
  <2>. QED
    BY <1>3
<1>5. \A s \in Lines, j \in 1 .. count : g[<<s, j>>] = Less(s, j)
  <2>. HIDE DEF Lines, Less
  <2>. QED
    OBVIOUS
<1>. HIDE DEF Lines, g
<1>6. blocks \in Lines
  BY DEF Lines
<1>7. PICK f : Unfolds(f, Lines, blocks, count, g)
  BY <1>1, <1>4, <1>6, Recursion
<1>8. f \in [0 .. count -> Lines] /\ f[0] = blocks
      /\ \A j \in 1 .. count : f[j] = Less(f[j - 1], j)
  <2>1. \A j \in 1 .. count : j - 1 \in 0 .. count
    BY <1>1
  <2>. QED
    BY <1>5, <1>7, <2>1 DEF Unfolds
<1>9. Rule(f)
  <2>1. f = [j \in 0 .. count |-> f[j]]
    BY <1>8
  <2>2. \A j \in 0 .. count : j = 0 \/ j \in 1 .. count
    BY <1>1
  <2>3. \A j \in 0 .. count : f[j] = IF j = 0 THEN blocks
                              ELSE IF first + j <= Len(f[j - 1]) THEN RemoveAt(f[j - 1], first + j)
                              ELSE f[j - 1]
    BY <1>8, <2>2
  <2>. QED
    BY <2>1, <2>3
<1>10. Rule(after)
  BY <1>9
<1>. HIDE DEF after
<1>11. after[0] = blocks /\ \A j \in 1 .. count : after[j] = Less(after[j - 1], j)
  <2>1. \A j \in 0 .. count : after[j] = IF j = 0 THEN blocks
                              ELSE IF first + j <= Len(after[j - 1]) THEN RemoveAt(after[j - 1], first + j)
                              ELSE after[j - 1]
    BY <1>10
  <2>2. 0 \in 0 .. count /\ \A j \in 1 .. count : j \in 0 .. count /\ j # 0
    BY <1>1
  <2>. QED
    BY <2>1, <2>2
<1>. HIDE DEF Less, Rule
<1>. DEFINE S == {j \in 0 .. count : after[j] \in Lines}
<1>12. 0 \in S
  BY <1>1, <1>6, <1>11
<1>13. \A j \in 0 .. count - 1 : j \in S => j + 1 \in S
  <2>. SUFFICES ASSUME NEW j \in 0 .. count - 1, j \in S PROVE j + 1 \in S
    OBVIOUS
  <2>1. j + 1 \in 1 .. count /\ j + 1 \in 0 .. count /\ (j + 1) - 1 = j
    BY <1>1
  <2>2. after[j + 1] = Less(after[j], j + 1)
    BY <1>11, <2>1
  <2>. QED
    BY <1>3, <2>1, <2>2
<1>. HIDE DEF S
<1>14. count \in 0 .. count
  BY <1>1
<1>15. count \in S
  BY <1>1, <1>12, <1>13, <1>14, InductionUpTo
<1>. QED
  BY <1>2, <1>15 DEF S, Lines

-----------------------------------------------------------------------------
(* truncate_down, step by step. *)
Pieces == Seq((Bytes \union {IndexError}) \ {<< >>})
Keeping == [blocks : Pieces, offset : Nat, done : BOOLEAN]

LEMMA CopiedTyped ==
    ASSUME Shape, NEW kept \in Keeping, NEW block \in Bytes, NEW new_size \in Nat
    PROVE  Copied(kept, block, new_size) \in Keeping
<1>. DEFINE length == Min({Len(block), new_size - kept.offset})
            piece == RetrieveData(kept.offset, length)
<1>1. Len(block) \in Nat
  BY LenProperties DEF Bytes
<1>2. kept.offset \in Nat /\ kept.blocks \in Pieces /\ kept.done \in BOOLEAN
  BY DEF Keeping
<1>3. length \in Int
  <2>1. Len(block) \in Int /\ new_size - kept.offset \in Int
    BY <1>1, <1>2
  <2>2. length = IF Len(block) <= new_size - kept.offset THEN Len(block) ELSE new_size - kept.offset
    BY <2>1, MinOfTwo
  <2>. QED
    BY <2>1, <2>2
<1>. HIDE DEF length
<1>4. piece \in Bytes \union {IndexError}
  BY <1>2, <1>3, RetrieveTyped
<1>5. Copied(kept, block, new_size) =
        IF kept.done THEN kept
        ELSE [blocks |-> IF piece = << >> THEN kept.blocks ELSE Append(kept.blocks, piece),
              offset |-> kept.offset + Len(piece),
              done |-> \/ piece = IndexError
                       \/ Len(block) + kept.offset > new_size
                       \/ Len(piece) + kept.offset = new_size]
  BY DEF Copied, length
<1>. HIDE DEF piece
<1>6. Len(piece) \in Nat
  <2>1. CASE piece \in Bytes
    BY <2>1, LenProperties DEF Bytes
  <2>2. CASE piece = IndexError
    BY <2>2 DEF IndexError
  <2>. QED
    BY <1>4, <2>1, <2>2
<1>7. piece # << >> => Append(kept.blocks, piece) \in Pieces
  <2>1. ASSUME piece # << >> PROVE piece \in (Bytes \union {IndexError}) \ {<< >>}
    BY <1>4, <2>1
  <2>. QED
    BY <1>2, <2>1, AppendProperties DEF Pieces
<1>8. (IF piece = << >> THEN kept.blocks ELSE Append(kept.blocks, piece)) \in Pieces
  BY <1>2, <1>7
<1>9. kept.offset + Len(piece) \in Nat
  BY <1>2, <1>6
<1>. QED
  BY <1>5, <1>8, <1>9 DEF Keeping

LEMMA NothingKeptTyped == NothingKept \in Keeping
<1>1. << >> \in Pieces
  BY EmptySeq DEF Pieces
<1>. QED
  BY <1>1 DEF NothingKept, Keeping

(* What truncate_down has after each block: Kept is the last of these. *)
Copies(new_size, kept) ==
    /\ kept \in [0 .. Len(data) -> Keeping]
    /\ kept[0] = NothingKept
    /\ \A i \in 1 .. Len(data) : kept[i] = Copied(kept[i - 1], data[i], new_size)
    /\ Kept(new_size) = kept[Len(data)].blocks

LEMMA CopiesExist ==
    ASSUME Shape, NEW new_size \in Nat
    PROVE  \E kept : Copies(new_size, kept)
<1>. DEFINE n == Len(data)
            Rule(h) == h = [i \in 0 .. Len(data) |->
                              IF i = 0 THEN NothingKept ELSE Copied(h[i - 1], data[i], new_size)]
            kept == CHOOSE h : Rule(h)
            g == [p \in Keeping \X (1 .. Len(data)) |-> Copied(p[1], data[p[2]], new_size)]
<1>1. data \in Seq(Bytes)
  BY DEF Shape, Full
<1>2. Len(data) \in Nat /\ \A i \in 1 .. Len(data) : data[i] \in Bytes
  BY <1>1, LenProperties, ElementOfSeq
<1>3. Kept(new_size) = kept[Len(data)].blocks
  BY DEF Kept
<1>4. \A k \in Keeping, i \in 1 .. Len(data) : Copied(k, data[i], new_size) \in Keeping
  BY <1>2, CopiedTyped
<1>5. g \in [Keeping \X (1 .. Len(data)) -> Keeping]
  BY <1>4
<1>6. \A k \in Keeping, i \in 1 .. Len(data) : g[<<k, i>>] = Copied(k, data[i], new_size)
  OBVIOUS
<1>. HIDE DEF g, n, kept
<1>7. g \in [Keeping \X (1 .. n) -> Keeping]
  BY <1>5 DEF n
<1>8. n \in Nat
  BY <1>2 DEF n
<1>9. PICK f : Unfolds(f, Keeping, NothingKept, n, g)
  BY <1>7, <1>8, NothingKeptTyped, Recursion
<1>10. f \in [0 .. Len(data) -> Keeping] /\ f[0] = NothingKept
       /\ \A i \in 1 .. Len(data) : f[i] = Copied(f[i - 1], data[i], new_size)
  <2>1. \A i \in 1 .. Len(data) : i - 1 \in 0 .. Len(data)
    BY <1>2
  <2>. QED
    BY <1>6, <1>9, <2>1 DEF Unfolds, n
<1>11. Rule(f)
  <2>1. f = [i \in 0 .. Len(data) |-> f[i]]
    BY <1>10
  <2>2. \A i \in 0 .. Len(data) : i = 0 \/ i \in 1 .. Len(data)
    BY <1>2
  <2>3. \A i \in 0 .. Len(data) : f[i] = IF i = 0 THEN NothingKept
                                         ELSE Copied(f[i - 1], data[i], new_size)
    BY <1>10, <2>2
  <2>. QED
    BY <2>1, <2>3
<1>12. Rule(kept)
  BY <1>11 DEF kept
<1>13. kept[0] = NothingKept /\ DOMAIN kept = 0 .. Len(data)
       /\ kept = [i \in 0 .. Len(data) |-> kept[i]]
       /\ \A i \in 1 .. Len(data) : kept[i] = Copied(kept[i - 1], data[i], new_size)
  <2>1. \A i \in 0 .. Len(data) : kept[i] = IF i = 0 THEN NothingKept
                                            ELSE Copied(kept[i - 1], data[i], new_size)
    BY <1>12
  <2>2. 0 \in 0 .. Len(data) /\ \A i \in 1 .. Len(data) : i \in 0 .. Len(data) /\ i # 0
    BY <1>2
  <2>3. DOMAIN kept = 0 .. Len(data) /\ kept = [i \in 0 .. Len(data) |-> kept[i]]
    BY <1>12
  <2>. QED
    BY <2>1, <2>2, <2>3
<1>. HIDE DEF Rule
<1>. DEFINE S == {i \in 0 .. n : kept[i] \in Keeping}
<1>14. 0 \in S
  BY <1>8, <1>13, NothingKeptTyped
<1>15. \A i \in 0 .. n - 1 : i \in S => i + 1 \in S
  <2>. SUFFICES ASSUME NEW i \in 0 .. n - 1, i \in S PROVE i + 1 \in S
    OBVIOUS
  <2>1. i + 1 \in 1 .. n /\ i + 1 \in 0 .. n /\ (i + 1) - 1 = i
    BY <1>8
  <2>2. kept[i + 1] = Copied(kept[i], data[i + 1], new_size)
    BY <1>13, <2>1 DEF n
  <2>3. Copied(kept[i], data[i + 1], new_size) \in Keeping
    BY <1>4, <2>1 DEF n
  <2>. QED
    BY <2>1, <2>2, <2>3
<1>. HIDE DEF S
<1>16. \A i \in 0 .. n : i \in S
  BY <1>8, <1>14, <1>15, InductionUpTo
<1>17. \A i \in 0 .. Len(data) : kept[i] \in Keeping
  BY <1>16 DEF S, n
<1>18. Copies(new_size, kept)
  BY <1>3, <1>13, <1>17 DEF Copies
<1>. QED
  BY <1>18

-----------------------------------------------------------------------------
(* A file that was written from its start to its end before it was read:    *)
(* the offsets are of the blocks it has, and the blocks are what was written.*)
(* Once a write was elsewhere, or found offsets, neither need hold.          *)
Fresh ==
    ~ updated /\ ~ grown =>
        /\ offsets = << >> \/ offsets = Ends(data)
        /\ size = Len(content)
        /\ FlattenSeq(data) = content

IInv == TypeOK /\ Fresh

LEMMA TypeParts ==
    TypeOK <=> /\ data \in Seq(Solid) /\ Rising(offsets)
               /\ size \in Nat /\ content \in Bytes
               /\ updated \in BOOLEAN /\ grown \in BOOLEAN
               /\ writes \in 0 .. MaxWrites
<1>1. data \in Seq(Seq(Nat)) => (DOMAIN data = 1 .. Len(data))
  BY LenProperties
<1>2. offsets \in Seq(Nat) => (DOMAIN offsets = 1 .. Len(offsets))
  BY LenProperties
<1>3. Full(data) <=> data \in Seq(Seq(Nat)) /\ \A i \in DOMAIN data : data[i] # << >>
  BY <1>1 DEF Full, Bytes
<1>4. Rising(offsets) <=> offsets \in Seq(Nat)
                          /\ \A i, j \in DOMAIN offsets : i < j => offsets[i] < offsets[j]
  BY <1>2 DEF Rising
<1>5. Full(data) <=> data \in Seq(Solid)
  BY FullIs
<1>6. content \in Bytes <=> content \in Seq(Nat)
  BY DEF Bytes
<1>. QED
  BY <1>3, <1>4, <1>5, <1>6 DEF TypeOK

LEMMA TypeShape ==
    ASSUME TypeOK
    PROVE  Shape /\ data \in Seq(Bytes) /\ data \in Seq(Solid)
<1>1. data \in Seq(Solid) /\ Rising(offsets) /\ size \in Nat
  BY TypeParts
<1>2. Full(data)
  BY <1>1, FullIs
<1>. QED
  BY <1>1, <1>2 DEF Shape, Full

LEMMA KnownRising ==
    ASSUME TypeOK
    PROVE  Rising(KnownOffsets)
<1>1. CASE data # << >>
  BY <1>1, TypeShape, KnownTyped
<1>2. CASE data = << >>
  <2>1. Full(data)
    BY TypeShape DEF Shape
  <2>2. Rising(Ends(data))
    BY <2>1, EndsAre
  <2>. QED
    BY <2>2, TypeShape DEF KnownOffsets, Shape
<1>. QED
  BY <1>1, <1>2

LEMMA OverwrittenTyped ==
    ASSUME TypeOK, NEW offset \in Nat, NEW buf \in Bytes
    PROVE  /\ Overwritten(offset, buf) \in Bytes
           /\ offset = Len(content) => Overwritten(offset, buf) = content \o buf
<1>1. content \in Seq(Nat) /\ buf \in Seq(Nat)
  BY TypeParts DEF Bytes
<1>2. Len(content) \in Nat /\ Len(buf) \in Nat
  BY <1>1, LenProperties
<1>3. \A i \in 1 .. Len(content) : content[i] \in Nat
  BY <1>1, ElementOfSeq
<1>4. \A i \in 1 .. Len(buf) : buf[i] \in Nat
  BY <1>1, ElementOfSeq
<1>5. PICK m : m = Max({Len(content), offset + Len(buf)})
  OBVIOUS
<1>6. m = IF Len(content) >= offset + Len(buf) THEN Len(content) ELSE offset + Len(buf)
  <2>1. Len(content) \in Int /\ offset + Len(buf) \in Int
    BY <1>2
  <2>. QED
    BY <1>5, <2>1, MaxOfTwo
<1>7. m \in Nat
  BY <1>2, <1>6
<1>. DEFINE Byte(i) == IF i > offset /\ i <= offset + Len(buf) THEN buf[i - offset]
                       ELSE IF i <= Len(content) THEN content[i] ELSE Zero
<1>8. Overwritten(offset, buf) = [i \in 1 .. m |-> Byte(i)]
  BY <1>5 DEF Overwritten
<1>9. ASSUME NEW i \in 1 .. m PROVE Byte(i) \in Nat
  <2>1. CASE i > offset /\ i <= offset + Len(buf)
    <3>1. i - offset \in 1 .. Len(buf)
      BY <1>2, <1>7, <2>1
    <3>. QED
      BY <1>4, <2>1, <3>1
  <2>2. CASE ~ (i > offset /\ i <= offset + Len(buf)) /\ i <= Len(content)
    <3>1. i \in 1 .. Len(content)
      BY <1>2, <1>7, <2>2
    <3>2. Byte(i) = content[i]
      BY <2>2
    <3>. QED
      BY <1>3, <3>1, <3>2
  <2>3. CASE ~ (i > offset /\ i <= offset + Len(buf)) /\ ~ (i <= Len(content))
    <3>1. Byte(i) = Zero
      BY <2>3
    <3>. QED
      BY <3>1 DEF Zero
  <2>. QED
    BY <2>1, <2>2, <2>3
<1>10. Overwritten(offset, buf) \in Bytes
  <2>. HIDE DEF Byte
  <2>. QED
    BY <1>7, <1>8, <1>9 DEF Bytes
<1>11. ASSUME offset = Len(content) PROVE Overwritten(offset, buf) = content \o buf
  <2>1. m = Len(content) + Len(buf)
    BY <1>2, <1>6, <1>11
  <2>2. PICK o : o = Overwritten(offset, buf)
    OBVIOUS
  <2>3. o \in Seq(Nat) /\ Len(o) = m
    <3>. HIDE DEF Byte
    <3>. QED
      BY <1>7, <1>8, <1>9, <2>2
  <2>4. PICK u : u = content \o buf
    OBVIOUS
  <2>5. /\ u \in Seq(Nat) /\ Len(u) = Len(content) + Len(buf)
        /\ \A i \in 1 .. Len(content) + Len(buf) :
              u[i] = IF i <= Len(content) THEN content[i] ELSE buf[i - Len(content)]
    BY <1>1, <2>4, ConcatProperties
  <2>6. ASSUME NEW i \in 1 .. m PROVE o[i] = u[i]
    <3>1. o[i] = Byte(i)
      <4>. HIDE DEF Byte
      <4>. QED
        BY <1>8, <2>2
    <3>2. i \in 1 .. Len(content) + Len(buf)
      BY <2>1
    <3>3. Byte(i) = IF i <= Len(content) THEN content[i] ELSE buf[i - Len(content)]
      <4>1. CASE i <= Len(content)
        <5>1. ~ (i > offset)
          BY <1>2, <1>7, <1>11, <4>1
        <5>. QED
          BY <4>1, <5>1
      <4>2. CASE ~ (i <= Len(content))
        <5>1. i > offset /\ i <= offset + Len(buf)
          BY <1>2, <1>7, <1>11, <2>1, <4>2
        <5>. QED
          BY <1>11, <4>2, <5>1
      <4>. QED
        BY <4>1, <4>2
    <3>. QED
      BY <2>5, <3>1, <3>2, <3>3
  <2>7. o = u
    BY <2>1, <2>3, <2>5, <2>6, SeqEqual
  <2>. QED
    BY <2>2, <2>4, <2>7
<1>. QED
  BY <1>10, <1>11

LEMMA HistoryTyped ==
    ASSUME TypeOK, writes < MaxWrites, NEW offset \in Nat, NEW buf \in Bytes, History(offset, buf)
    PROVE  /\ content' \in Bytes
           /\ updated' \in BOOLEAN /\ grown' \in BOOLEAN /\ writes' \in 0 .. MaxWrites
<1>1. writes \in 0 .. MaxWrites /\ MaxWrites \in Nat
  BY TypeParts, BoundAssumption
<1>2. writes' \in 0 .. MaxWrites
  BY <1>1 DEF History
<1>3. content' \in Bytes
  BY OverwrittenTyped DEF History
<1>4. updated' \in BOOLEAN /\ grown' \in BOOLEAN
  BY DEF History
<1>. QED
  BY <1>2, <1>3, <1>4

LEMMA WritesStep ==
    ASSUME TypeOK, Fresh, writes < MaxWrites,
           NEW offset \in Nat, NEW buf \in Bytes, buf # << >>, Writes(offset, buf)
    PROVE  TypeOK' /\ Fresh'
<1>1. /\ data \in Seq(Solid) /\ data \in Seq(Bytes) /\ Rising(offsets)
      /\ size \in Nat /\ content \in Seq(Nat)
  BY TypeParts, TypeShape DEF Bytes
<1>2. PICK blocks \in Cuts(buf) : data' = data \o blocks
  BY DEF Writes
<1>3. Full(blocks) /\ FlattenSeq(blocks) = buf
  BY CutsTyped
<1>4. blocks \in Seq(Solid) /\ blocks \in Seq(Bytes)
  BY <1>3, FullIs DEF Full
<1>5. data' \in Seq(Solid)
  BY <1>1, <1>2, <1>4, ConcatProperties
<1>6. Len(buf) \in Nat
  BY LenProperties DEF Bytes
<1>7. size' = IF size >= offset + Len(buf) THEN size ELSE offset + Len(buf)
  <2>1. size \in Int /\ offset + Len(buf) \in Int
    BY <1>1, <1>6
  <2>2. Max({size, offset + Len(buf)}) = IF size >= offset + Len(buf) THEN size ELSE offset + Len(buf)
    BY <2>1, MaxOfTwo
  <2>. QED
    BY <2>2 DEF Writes
<1>8. size' \in Nat
  BY <1>1, <1>6, <1>7
<1>9. offsets' = offsets /\ History(offset, buf)
  BY DEF Writes
<1>10. Rising(offsets)'
  BY <1>1, <1>9 DEF Rising
<1>11. TypeOK'
  <2>1. /\ content' \in Bytes
        /\ updated' \in BOOLEAN /\ grown' \in BOOLEAN /\ writes' \in 0 .. MaxWrites
    BY <1>9, HistoryTyped
  <2>2. (/\ data \in Seq(Solid) /\ Rising(offsets)
         /\ size \in Nat /\ content \in Bytes
         /\ updated \in BOOLEAN /\ grown \in BOOLEAN
         /\ writes \in 0 .. MaxWrites)'
    BY <1>5, <1>8, <1>10, <2>1
  <2>. QED
    BY <2>2, TypeParts, PTL
<1>12. ASSUME ~ updated', ~ grown'
       PROVE /\ offsets' = << >> /\ size' = Len(content') /\ FlattenSeq(data') = content'
  <2>1. ~ updated /\ offset = size /\ ~ grown /\ offsets = << >>
    BY <1>9, <1>12 DEF History
  <2>2. size = Len(content) /\ FlattenSeq(data) = content
    BY <2>1 DEF Fresh
  <2>3. content' = content \o buf
    BY <1>9, <2>1, <2>2, OverwrittenTyped DEF History
  <2>4. FlattenSeq(data') = FlattenSeq(data) \o FlattenSeq(blocks)
    BY <1>1, <1>2, <1>4, FlattenConcat
  <2>5. Len(content \o buf) = Len(content) + Len(buf)
    BY <1>1, ConcatProperties DEF Bytes
  <2>6. size' = size + Len(buf)
    BY <1>1, <1>6, <1>7, <2>1
  <2>. QED
    BY <1>3, <1>9, <2>1, <2>2, <2>3, <2>4, <2>5, <2>6
<1>13. Fresh'
  BY <1>12 DEF Fresh
<1>. QED
  BY <1>11, <1>13

-----------------------------------------------------------------------------
(* Where a read starts and ends when the offsets are of the blocks. *)
IsBlock(s, x, c) ==
    /\ c \in 0 .. Len(s) - 1
    /\ c = 0 \/ E(s, c) < x
    /\ x <= E(s, c + 1)
    /\ TakeClosest(Ends(s), x) = c
    /\ Item(Ends(s), c) = E(s, c + 1)

LEMMA BlockFound ==
    ASSUME NEW s, Full(s), s # << >>, NEW x \in Nat, x <= Len(FlattenSeq(s))
    PROVE  \E c : IsBlock(s, x, c)
<1>1. s \in Seq(Bytes)
  BY DEF Full
<1>2. Len(s) \in Nat \ {0}
  BY <1>1, EmptySeq
<1>3. PICK ends : ends = Ends(s)
  OBVIOUS
<1>4. Rising(ends) /\ Len(ends) = Len(s) /\ \A i \in 1 .. Len(s) : ends[i] = E(s, i)
  BY <1>3, EndsAre
<1>5. ends # << >>
  BY <1>2, <1>4, EmptySeq
<1>6. x \in Int
  OBVIOUS
<1>7. PICK c \in 0 .. Len(ends) : Below(ends, x, c)
  BY <1>4, <1>5, <1>6, Closest
<1>8. /\ \A i \in 1 .. c : ends[i] < x
      /\ \A i \in c + 1 .. Len(s) : ends[i] >= x
      /\ TakeClosest(ends, x) = IF c = Len(s) THEN c - 1 ELSE c
  BY <1>4, <1>7 DEF Below
<1>9. \A i \in 0 .. Len(s) : E(s, i) \in Nat
  BY <1>1, EndTyped
<1>10. Len(s) \in 1 .. Len(s) /\ Len(s) \in 0 .. Len(s)
  BY <1>2
<1>11. ends[Len(s)] = Len(FlattenSeq(s))
  BY <1>1, <1>4, <1>10, EndFirst
<1>12. c # Len(s)
  <2>1. SUFFICES ASSUME c = Len(s) PROVE FALSE
    OBVIOUS
  <2>2. ends[Len(s)] < x
    BY <1>8, <1>10, <2>1
  <2>3. ends[Len(s)] \in Nat
    BY <1>4, <1>9, <1>10
  <2>. QED
    BY <1>11, <2>2, <2>3
<1>13. c \in 0 .. Len(s) - 1
  BY <1>2, <1>4, <1>7, <1>12
<1>14. c + 1 \in 1 .. Len(s) /\ c + 1 \in c + 1 .. Len(s) /\ c \in Nat /\ c + 1 \in 0 .. Len(s)
       /\ c \in 0 .. Len(s)
  BY <1>2, <1>13
<1>15. x <= E(s, c + 1)
  <2>1. ends[c + 1] >= x /\ ends[c + 1] = E(s, c + 1)
    BY <1>4, <1>8, <1>14
  <2>. QED
    BY <1>9, <1>14, <2>1
<1>16. c = 0 \/ E(s, c) < x
  <2>1. c # 0 => c \in 1 .. c /\ c \in 1 .. Len(s)
    BY <1>14
  <2>. QED
    BY <1>4, <1>8, <2>1
<1>17. Item(ends, c) = E(s, c + 1)
  <2>1. ~ (c < 0)
    BY <1>14
  <2>. QED
    BY <1>4, <1>14, <2>1 DEF Item
<1>18. TakeClosest(ends, x) = c
  BY <1>8, <1>12
<1>. QED
  BY <1>3, <1>13, <1>15, <1>16, <1>17, <1>18 DEF IsBlock

IsStart(s, x, a) ==
    /\ a \in 0 .. Len(s) - 1
    /\ E(s, a) <= x /\ x < E(s, a + 1)
    /\ StartOf(Ends(s), x).blk = a
    /\ StartOf(Ends(s), x).diff = IF x = 0 \/ x = E(s, a) THEN 0 ELSE E(s, a + 1) - x

LEMMA StartFound ==
    ASSUME NEW s, Full(s), NEW x \in Nat, x < Len(FlattenSeq(s))
    PROVE  \E a : IsStart(s, x, a)
<1>1. s \in Seq(Bytes)
  BY DEF Full
<1>2. Len(s) \in Nat /\ Len(FlattenSeq(s)) \in Nat
  BY <1>1, LenProperties, FlattenTyped DEF Bytes
<1>3. s # << >>
  <2>1. SUFFICES ASSUME s = << >> PROVE FALSE
    OBVIOUS
  <2>2. Len(FlattenSeq(s)) = 0
    BY <2>1, FlattenNone, EmptySeq
  <2>. QED
    BY <2>2
<1>4. Len(s) # 0
  BY <1>1, <1>3, EmptySeq
<1>5. \A i \in 0 .. Len(s) : E(s, i) \in Nat
  BY <1>1, EndTyped
<1>6. E(s, 0) = 0 /\ E(s, Len(s)) = Len(FlattenSeq(s))
  BY <1>1, EndFirst
<1>7. CASE x = 0
  <2>1. StartOf(Ends(s), x) = [blk |-> 0, diff |-> 0]
    BY <1>7 DEF StartOf
  <2>2. 0 \in 0 .. Len(s) /\ 1 \in 0 .. Len(s) /\ 0 \in 0 .. Len(s) - 1 /\ 0 < 1
    BY <1>2, <1>4
  <2>3. E(s, 0) < E(s, 1)
    BY <2>2, EndsIncrease
  <2>4. IsStart(s, x, 0)
    <3>1. 0 + 1 = 1
      OBVIOUS
    <3>. QED
      BY <1>5, <1>6, <1>7, <2>1, <2>2, <2>3, <3>1 DEF IsStart
  <2>. QED
    BY <2>4
<1>8. CASE x # 0
  <2>1. x <= Len(FlattenSeq(s))
    BY <1>2
  <2>2. PICK c : IsBlock(s, x, c)
    BY <1>3, <2>1, BlockFound
  <2>3. PICK blk, last : blk = E(s, c + 1) /\ last = Item(Ends(s), c - 1)
    OBVIOUS
  <2>4. /\ c \in 0 .. Len(s) - 1 /\ (c = 0 \/ E(s, c) < x) /\ x <= blk
        /\ TakeClosest(Ends(s), x) = c /\ Item(Ends(s), c) = blk
    BY <2>2, <2>3 DEF IsBlock
  <2>5. StartOf(Ends(s), x) =
            CASE x = 0 -> [blk |-> 0, diff |-> 0]
              [] x # 0 /\ blk = x -> [blk |-> c + 1, diff |-> 0]
              [] x # 0 /\ blk < x -> [blk |-> c - 1, diff |-> last - x]
              [] x # 0 /\ blk > x -> [blk |-> c, diff |-> blk - x]
    BY <2>3, <2>4 DEF StartOf
  <2>6. c \in 0 .. Len(s) /\ c + 1 \in 0 .. Len(s) /\ c \in Nat
    BY <1>2, <2>4
  <2>7. blk \in Nat /\ E(s, c) \in Nat /\ E(s, c) <= x
    <3>1. blk \in Nat /\ E(s, c) \in Nat
      BY <1>5, <2>3, <2>6
    <3>. QED
      BY <1>6, <2>4, <3>1
  <2>8. CASE blk = x
    <3>1. StartOf(Ends(s), x) = [blk |-> c + 1, diff |-> 0]
      BY <1>8, <2>5, <2>8
    <3>2. c + 1 # Len(s)
      BY <1>2, <1>6, <2>3, <2>8
    <3>3. c + 1 \in 0 .. Len(s) - 1 /\ (c + 1) + 1 \in 0 .. Len(s) /\ c + 1 < (c + 1) + 1
      BY <1>2, <2>6, <3>2
    <3>4. E(s, c + 1) < E(s, (c + 1) + 1)
      BY <2>6, <3>3, EndsIncrease
    <3>5. IsStart(s, x, c + 1)
      BY <2>3, <2>7, <2>8, <3>1, <3>3, <3>4 DEF IsStart
    <3>. QED
      BY <3>5
  <2>9. CASE blk # x
    <3>1. blk > x /\ ~ (blk < x)
      BY <2>4, <2>7, <2>9
    <3>2. StartOf(Ends(s), x) = [blk |-> c, diff |-> blk - x]
      BY <1>8, <2>5, <2>9, <3>1
    <3>3. x # E(s, c)
      BY <1>6, <1>8, <2>4, <2>7
    <3>4. x < E(s, c + 1)
      BY <2>3, <2>7, <3>1
    <3>5. IsStart(s, x, c)
      BY <1>8, <2>3, <2>4, <2>7, <3>2, <3>3, <3>4 DEF IsStart
    <3>. QED
      BY <3>5
  <2>. QED
    BY <2>8, <2>9
<1>. QED
  BY <1>7, <1>8

IsEnd(s, x, e) ==
    /\ e \in 0 .. Len(s) - 1
    /\ e = 0 \/ E(s, e) < x
    /\ x <= E(s, e + 1)
    /\ EndOf(Ends(s), x).blk = e
    /\ EndOf(Ends(s), x).diff = E(s, e + 1) - x

LEMMA EndFound ==
    ASSUME NEW s, Full(s), s # << >>, NEW x \in Nat, x <= Len(FlattenSeq(s))
    PROVE  \E e : IsEnd(s, x, e)
<1>1. PICK c : IsBlock(s, x, c)
  BY BlockFound
<1>2. EndOf(Ends(s), x) = [blk |-> c, diff |-> E(s, c + 1) - x]
  BY <1>1 DEF IsBlock, EndOf
<1>. QED
  BY <1>1, <1>2 DEF IsBlock, IsEnd

LEMMA SliceIs ==
    ASSUME NEW T, NEW s \in Seq(T), NEW a \in Nat, NEW b \in Nat, a <= Len(s), b <= Len(s)
    PROVE  Slice(s, a, b) = Piece(s, a, b)
<1>1. a \in Int /\ b \in Int /\ 0 <= a /\ 0 <= b
  OBVIOUS
<1>2. Bound(s, a) = a
  BY <1>1, BoundTyped
<1>3. Bound(s, b) = b
  BY <1>1, BoundTyped
<1>. QED
  BY <1>2, <1>3 DEF Slice, Piece

(* s[a:] and s[:-d] of a piece. *)
LEMMA FromIs ==
    ASSUME NEW s \in Bytes, NEW a \in Nat, a <= Len(s)
    PROVE  /\ From(s, a) = Piece(s, a, Len(s))
           /\ UpTo(s, a) = Piece(s, 0, a)
<1>1. s \in Seq(Nat)
  BY DEF Bytes
<1>2. Len(s) \in Nat
  BY <1>1, LenProperties
<1>3. Len(s) <= Len(s) /\ 0 <= Len(s) /\ 0 \in Nat
  BY <1>2
<1>4. Slice(s, a, Len(s)) = Piece(s, a, Len(s))
  BY <1>1, <1>2, <1>3, SliceIs
<1>5. Slice(s, 0, a) = Piece(s, 0, a)
  BY <1>1, <1>2, <1>3, SliceIs
<1>. QED
  BY <1>4, <1>5 DEF From, UpTo

LEMMA BackFromIs ==
    ASSUME NEW s \in Bytes, NEW d \in Nat, d # 0, d <= Len(s)
    PROVE  /\ From(s, -d) = Piece(s, Len(s) - d, Len(s))
           /\ UpTo(s, -d) = Piece(s, 0, Len(s) - d)
<1>1. s \in Seq(Nat)
  BY DEF Bytes
<1>2. Len(s) \in Nat
  BY <1>1, LenProperties
<1>3. -d \in Int /\ -d < 0 /\ 0 <= Len(s) + -d /\ Len(s) + -d = Len(s) - d
  BY <1>2
<1>4. Bound(s, -d) = Len(s) + -d
  BY <1>1, <1>3, BoundTyped
<1>5. Len(s) \in Int /\ 0 \in Int /\ 0 <= Len(s) /\ Len(s) <= Len(s) /\ 0 <= 0
  BY <1>2
<1>6. Bound(s, Len(s)) = Len(s)
  BY <1>1, <1>5, BoundTyped
<1>7. Bound(s, 0) = 0
  BY <1>1, <1>5, BoundTyped
<1>. QED
  BY <1>3, <1>4, <1>6, <1>7 DEF From, UpTo, Slice, Piece

LEMMA FileDataIs ==
    ASSUME Full(data), NEW a \in 0 .. Len(data) - 1, NEW e \in 0 .. Len(data) - 1, a <= e
    PROVE  /\ FileData(a, e) = Piece(FlattenSeq(data), E(data, a), E(data, e + 1))
           /\ E(data, e + 1) <= Len(FlattenSeq(data))
<1>1. data \in Seq(Bytes)
  BY DEF Full
<1>2. Len(data) \in Nat
  BY <1>1, LenProperties
<1>3. a \in Nat /\ a <= Len(data)
  BY <1>2
<1>4. e + 1 \in Nat /\ e + 1 <= Len(data)
  BY <1>2
<1>5. Slice(data, a, e + 1) = Piece(data, a, e + 1)
  BY <1>1, <1>3, <1>4, SliceIs
<1>6. a \in 0 .. Len(data)
  BY <1>2
<1>7. e + 1 \in 0 .. Len(data)
  BY <1>2
<1>8. a <= e + 1
  BY <1>2
<1>. QED
  BY <1>1, <1>5, <1>6, <1>7, <1>8, FlattenPiece DEF FileData

(* get_file_data(0, 1): the first block, and the second when there is one. *)
LEMMA FirstData ==
    ASSUME Full(data), data # << >>
    PROVE  \E m \in Nat : /\ FileData(0, 1) = Piece(FlattenSeq(data), 0, m)
                          /\ E(data, 1) <= m /\ m <= Len(FlattenSeq(data))
<1>1. data \in Seq(Bytes)
  BY DEF Full
<1>2. Len(data) \in Nat \ {0}
  BY <1>1, EmptySeq
<1>3. E(data, 0) = 0
  BY <1>1, EndFirst
<1>4. \A i \in 0 .. Len(data) : E(data, i) \in Nat
  BY <1>1, EndTyped
<1>5. CASE Len(data) = 1
  <2>1. 2 \in Int /\ 0 \in Int /\ 2 > Len(data) /\ 0 <= 0 /\ 0 <= Len(data)
    BY <1>5
  <2>2. Bound(data, 2) = Len(data)
    BY <1>1, <2>1, BoundTyped
  <2>3. Bound(data, 0) = 0
    BY <1>1, <2>1, BoundTyped
  <2>4. Slice(data, 0, 2) = data
    BY <1>1, <2>2, <2>3, PieceAll DEF Slice, Piece
  <2>5. FileData(0, 1) = FlattenSeq(data)
    <3>1. 1 + 1 = 2
      OBVIOUS
    <3>. QED
      BY <2>4, <3>1 DEF FileData
  <2>6. FlattenSeq(data) \in Seq(Nat)
    BY <1>1, FlattenTyped DEF Bytes
  <2>7. Piece(FlattenSeq(data), 0, Len(FlattenSeq(data))) = FlattenSeq(data)
    BY <2>6, PieceAll
  <2>8. E(data, 1) = Len(FlattenSeq(data))
    BY <1>1, <1>5, EndFirst
  <2>9. Len(FlattenSeq(data)) \in Nat
    BY <2>6, LenProperties
  <2>. QED
    BY <2>5, <2>7, <2>8, <2>9
<1>6. CASE Len(data) # 1
  <2>1. 0 \in 0 .. Len(data) - 1 /\ 1 \in 0 .. Len(data) - 1 /\ 0 <= 1
    BY <1>2, <1>6
  <2>2. /\ FileData(0, 1) = Piece(FlattenSeq(data), E(data, 0), E(data, 1 + 1))
        /\ E(data, 1 + 1) <= Len(FlattenSeq(data))
    BY <2>1, FileDataIs
  <2>3. 1 \in 0 .. Len(data) /\ 2 \in 0 .. Len(data) /\ 1 < 2 /\ 1 + 1 = 2
    BY <1>2, <1>6
  <2>4. E(data, 1) < E(data, 2)
    BY <2>3, EndsIncrease
  <2>. QED
    BY <1>3, <1>4, <2>2, <2>3, <2>4
<1>. QED
  BY <1>5, <1>6

LEMMA NoIndexError == IndexError \notin Seq(Nat)
<1>1. SUFFICES ASSUME IndexError \in Seq(Nat) PROVE FALSE
  OBVIOUS
<1>2. Len(IndexError) = 1 /\ IndexError[1] = -1
  BY DEF IndexError
<1>3. 1 \in 1 .. Len(IndexError)
  BY <1>2
<1>4. IndexError[1] \in Nat
  BY <1>1, <1>3, ElementOfSeq
<1>. QED
  BY <1>2, <1>4

(* When the offsets are of the blocks, a read of at least one byte of the   *)
(* file, or of none at its start, gives the bytes of the blocks it asks for.*)
LEMMA RetrieveFresh ==
    ASSUME Full(data), KnownOffsets = Ends(data), size = Len(FlattenSeq(data)),
           NEW offset \in Nat, NEW end_offset \in Nat, NEW length \in Nat,
           offset < size, end_offset = Min({size, offset + length}),
           offset < end_offset \/ (offset = 0 /\ end_offset = 0)
    PROVE  RetrieveData(offset, length) = Piece(FlattenSeq(data), offset, end_offset)
<1>. DEFINE wanted == end_offset - offset
            start == StartOf(Ends(data), offset)
            end == EndOf(Ends(data), end_offset)
            blocks == FileData(start.blk, end.blk)
            tail == CASE start.blk = 0 -> From(blocks, offset)
                      [] start.blk >= Len(data) /\ start.diff > 0 -> IndexError
                      [] start.blk # 0 /\ start.blk < Len(data) /\ start.diff > 0 ->
                            From(blocks, Len(Item(data, start.blk)) - start.diff)
                      [] OTHER -> blocks
<1>1. RetrieveData(offset, length) =
        CASE data = << >> -> << >>
          [] data # << >> /\ start.blk = 0 /\ end.blk = 0 ->
                Slice(FileData(0, 1), offset, end_offset)
          [] data # << >> /\ ~ (start.blk = 0 /\ end.blk = 0) /\ size = end_offset ->
                From(blocks, -wanted)
          [] OTHER ->
                IF tail # IndexError /\ end.diff # 0 /\ Len(tail) > wanted THEN UpTo(tail, -end.diff) ELSE tail
  BY DEF RetrieveData
<1>2. PICK F : F = FlattenSeq(data)
  OBVIOUS
<1>3. data \in Seq(Bytes)
  BY DEF Full
<1>4. F \in Bytes /\ F \in Seq(Nat) /\ Len(F) \in Nat /\ size = Len(F)
  BY <1>2, <1>3, FlattenTyped, LenProperties DEF Bytes
<1>5. end_offset <= size
  <2>1. size \in Int /\ offset + length \in Int
    BY <1>4
  <2>2. end_offset = IF size <= offset + length THEN size ELSE offset + length
    BY <2>1, MinOfTwo
  <2>. QED
    BY <1>4, <2>2
<1>6. data # << >>
  <2>1. SUFFICES ASSUME data = << >> PROVE FALSE
    OBVIOUS
  <2>2. Len(F) = 0
    BY <1>2, <2>1, FlattenNone, EmptySeq
  <2>. QED
    BY <1>4, <2>2
<1>7. Len(data) \in Nat \ {0}
  BY <1>3, <1>6, EmptySeq
<1>8. PICK a : IsStart(data, offset, a)
  BY StartFound
<1>9. PICK e : IsEnd(data, end_offset, e)
  BY <1>5, <1>6, EndFound
<1>10. PICK x, y, z : x = E(data, a) /\ y = E(data, a + 1) /\ z = E(data, e + 1)
  OBVIOUS
<1>11. \A i \in 0 .. Len(data) : E(data, i) \in Nat
  BY <1>3, EndTyped
<1>12. /\ a \in 0 .. Len(data) - 1 /\ x <= offset /\ offset < y
       /\ start.blk = a /\ start.diff = IF offset = 0 \/ offset = x THEN 0 ELSE y - offset
  BY <1>8, <1>10 DEF IsStart
<1>13. /\ e \in 0 .. Len(data) - 1 /\ (e = 0 \/ E(data, e) < end_offset) /\ end_offset <= z
       /\ end.blk = e /\ end.diff = z - end_offset
  BY <1>9, <1>10 DEF IsEnd
<1>14. /\ a \in 0 .. Len(data) /\ a + 1 \in 0 .. Len(data) /\ a + 1 \in 1 .. Len(data)
       /\ e \in 0 .. Len(data) /\ e + 1 \in 0 .. Len(data) /\ a \in Nat /\ e \in Nat
  BY <1>7, <1>12, <1>13
<1>15. x \in Nat /\ y \in Nat /\ z \in Nat
  BY <1>10, <1>11, <1>14
<1>. HIDE DEF wanted, start, end
<1>16. wanted = end_offset - offset
  BY DEF wanted
<1>17. CASE a = 0 /\ e = 0
  <2>1. RetrieveData(offset, length) = Slice(FileData(0, 1), offset, end_offset)
    BY <1>1, <1>6, <1>12, <1>13, <1>17
  <2>2. PICK m \in Nat : /\ FileData(0, 1) = Piece(F, 0, m)
                         /\ E(data, 1) <= m /\ m <= Len(F)
    BY <1>2, <1>6, FirstData
  <2>3. y = E(data, 1) /\ z = E(data, 1)
    <3>1. 0 + 1 = 1
      OBVIOUS
    <3>. QED
      BY <1>10, <1>17, <3>1
  <2>4. offset <= m /\ end_offset <= m /\ offset <= end_offset
    BY <1>12, <1>13, <1>15, <2>2, <2>3
  <2>5. Piece(F, 0, m) \in Seq(Nat) /\ Len(Piece(F, 0, m)) = m
    BY <1>4, <2>2, PieceFirst
  <2>6. PICK p : p = Piece(F, 0, m)
    OBVIOUS
  <2>7. p \in Seq(Nat)
    BY <2>5, <2>6
  <2>8. offset <= Len(p)
    BY <2>4, <2>5, <2>6
  <2>9. end_offset <= Len(p)
    BY <2>4, <2>5, <2>6
  <2>10. Slice(p, offset, end_offset) = Piece(p, offset, end_offset)
    BY <2>7, <2>8, <2>9, SliceIs
  <2>11. Piece(Piece(F, 0, m), offset, end_offset) = Piece(F, offset, end_offset)
    <3>1. m <= Len(F)
      BY <2>2
    <3>2. offset <= end_offset
      BY <2>4
    <3>3. end_offset <= m
      BY <2>4
    <3>4. F \in Seq(Nat)
      BY <1>4
    <3>. QED
      BY <3>1, <3>2, <3>3, <3>4, PieceOfFirst
  <2>. QED
    BY <1>2, <2>1, <2>2, <2>6, <2>10, <2>11
<1>18. CASE ~ (a = 0 /\ e = 0)
  <2>1. offset < end_offset
    <3>1. SUFFICES ASSUME offset = 0, end_offset = 0 PROVE FALSE
      OBVIOUS
    <3>2. e = 0
      BY <1>11, <1>13, <1>14, <3>1
    <3>3. a = 0
      <4>1. E(data, 0) = 0
        BY <1>3, EndFirst
      <4>2. SUFFICES ASSUME a # 0 PROVE FALSE
        OBVIOUS
      <4>3. 0 \in 0 .. Len(data) /\ 0 < a
        BY <1>7, <1>14, <4>2
      <4>4. E(data, 0) < E(data, a)
        BY <1>14, <4>3, EndsIncrease
      <4>. QED
        BY <1>10, <1>12, <1>15, <3>1, <4>1, <4>4
    <3>. QED
      BY <1>18, <3>2, <3>3
  <2>2. a <= e
    <3>1. SUFFICES ASSUME ~ (a <= e) PROVE FALSE
      OBVIOUS
    <3>2. e + 1 = a \/ e + 1 < a
      BY <1>14, <3>1
    <3>3. CASE e + 1 = a
      BY <1>10, <1>12, <1>13, <1>15, <2>1, <3>3
    <3>4. CASE e + 1 < a
      <4>1. E(data, e + 1) < E(data, a)
        BY <1>14, <3>4, EndsIncrease
      <4>. QED
        BY <1>10, <1>12, <1>13, <1>15, <2>1, <4>1
    <3>. QED
      BY <3>2, <3>3, <3>4
  <2>3. blocks = Piece(F, x, z) /\ z <= Len(F)
    <3>1. /\ FileData(a, e) = Piece(FlattenSeq(data), E(data, a), E(data, e + 1))
          /\ E(data, e + 1) <= Len(FlattenSeq(data))
      BY <1>12, <1>13, <2>2, FileDataIs
    <3>. QED
      BY <1>2, <1>10, <1>12, <1>13, <3>1
  <2>. HIDE DEF blocks
  <2>4. x <= z /\ offset - x \in Nat /\ offset - x <= z - x /\ z - x \in Nat /\ offset <= z
        /\ end_offset - offset \in Nat /\ end_offset - offset # 0
    BY <1>12, <1>13, <1>15, <2>1
  <2>5. blocks \in Seq(Nat) /\ Len(blocks) = z - x
    <3>1. x <= z
      BY <2>4
    <3>2. F \in Seq(Nat)
      BY <1>4
    <3>3. z <= Len(F)
      BY <2>3
    <3>4. Piece(F, x, z) \in Seq(Nat) /\ Len(Piece(F, x, z)) = z - x
      BY <1>15, <3>1, <3>2, <3>3, PieceTyped
    <3>. QED
      BY <2>3, <3>4
  <2>6. Piece(blocks, offset - x, z - x) = Piece(F, offset, z)
    <3>1. PICK c, d : c = offset - x /\ d = z - x
      OBVIOUS
    <3>2. c \in Nat
      BY <2>4, <3>1
    <3>3. d \in Nat
      BY <2>4, <3>1
    <3>4. c <= d
      BY <2>4, <3>1
    <3>5. d <= z - x
      BY <2>4, <3>1
    <3>6. x <= z
      BY <2>4
    <3>7. z <= Len(F)
      BY <2>3
    <3>8. F \in Seq(Nat)
      BY <1>4
    <3>9. Piece(Piece(F, x, z), c, d) = Piece(F, x + c, x + d)
      BY <1>15, <3>2, <3>3, <3>4, <3>5, <3>6, <3>7, <3>8, PieceOfPiece
    <3>10. x + c = offset /\ x + d = z
      BY <1>15, <3>1
    <3>. QED
      BY <2>3, <3>1, <3>9, <3>10
  <2>7. CASE size = end_offset
    <3>1. RetrieveData(offset, length) = From(blocks, -wanted)
      BY <1>1, <1>6, <1>12, <1>13, <1>18, <2>7
    <3>2. z = end_offset
      BY <1>4, <1>13, <1>15, <2>3, <2>7
    <3>3. wanted \in Nat /\ wanted # 0 /\ wanted <= Len(blocks)
          /\ Len(blocks) - wanted = offset - x
      <4>1. z - offset <= z - x /\ (z - x) - (z - offset) = offset - x
        BY <1>12, <1>15
      <4>2. wanted = z - offset
        BY <1>16, <3>2
      <4>. QED
        BY <1>16, <2>4, <2>5, <4>1, <4>2
    <3>4. blocks \in Bytes
      BY <2>5 DEF Bytes
    <3>5. From(blocks, -wanted) = Piece(blocks, Len(blocks) - wanted, Len(blocks))
      BY <3>3, <3>4, BackFromIs
    <3>. QED
      BY <1>2, <2>5, <2>6, <3>1, <3>2, <3>3, <3>5
  <2>8. CASE size # end_offset
    <3>1. RetrieveData(offset, length) =
            IF tail # IndexError /\ end.diff # 0 /\ Len(tail) > wanted THEN UpTo(tail, -end.diff) ELSE tail
      BY <1>1, <1>6, <1>12, <1>13, <1>18, <2>8
    <3>2. blocks \in Bytes
      BY <2>5 DEF Bytes
    <3>3. ~ (a >= Len(data)) /\ a < Len(data)
      BY <1>7, <1>12
    <3>4. tail = Piece(F, offset, z)
      <4>1. CASE a = 0
        <5>1. x = 0
          BY <1>3, <1>10, <4>1, EndFirst
        <5>2. tail = From(blocks, offset)
          BY <1>12, <3>3, <4>1
        <5>3. offset <= Len(blocks) /\ Len(blocks) = z - x /\ offset - x = offset
          BY <2>4, <2>5, <5>1
        <5>4. From(blocks, offset) = Piece(blocks, offset, Len(blocks))
          BY <3>2, <5>3, FromIs
        <5>. QED
          BY <2>6, <5>2, <5>3, <5>4
      <4>2. CASE a # 0 /\ offset = x
        <5>1. ~ (start.diff > 0)
          BY <1>12, <4>2
        <5>2. tail = blocks
          BY <1>12, <4>2, <5>1
        <5>. QED
          BY <2>3, <4>2, <5>2
      <4>3. CASE a # 0 /\ offset # x
        <5>1. x > 0
          <6>1. 0 \in 0 .. Len(data) /\ 0 < a
            BY <1>7, <1>14, <4>3
          <6>2. E(data, 0) < E(data, a)
            BY <1>14, <6>1, EndsIncrease
          <6>3. E(data, 0) = 0
            BY <1>3, EndFirst
          <6>. QED
            BY <1>10, <6>2, <6>3
        <5>2. start.diff = y - offset /\ start.diff > 0
          BY <1>12, <1>15, <4>3, <5>1
        <5>3. tail = From(blocks, Len(Item(data, start.blk)) - start.diff)
          BY <1>12, <3>3, <4>3, <5>2
        <5>4. Item(data, start.blk) = data[a + 1]
          <6>1. ~ (a < 0)
            BY <1>14
          <6>. QED
            BY <1>12, <6>1 DEF Item
        <5>5. y = x + Len(data[a + 1])
          <6>1. E(data, a + 1) = E(data, (a + 1) - 1) + Len(data[a + 1])
            BY <1>3, <1>14, EndNext
          <6>2. (a + 1) - 1 = a
            BY <1>14
          <6>. QED
            BY <1>10, <6>1, <6>2
        <5>6. data[a + 1] \in Seq(Nat)
          BY <1>3, <1>14, ElementOfSeq DEF Bytes
        <5>7. Len(data[a + 1]) \in Nat
          BY <5>6, LenProperties
        <5>8. Len(Item(data, start.blk)) - start.diff = offset - x
          BY <1>15, <5>2, <5>4, <5>5, <5>7
        <5>9. offset - x <= Len(blocks)
          BY <2>4, <2>5
        <5>10. From(blocks, offset - x) = Piece(blocks, offset - x, Len(blocks))
          BY <2>4, <3>2, <5>9, FromIs
        <5>. QED
          BY <2>5, <2>6, <5>3, <5>8, <5>10
      <4>. QED
        BY <4>1, <4>2, <4>3
    <3>5. tail \in Bytes /\ Len(tail) = z - offset
      <4>1. F \in Seq(Nat)
        BY <1>4
      <4>2. offset <= z
        BY <2>4
      <4>3. z <= Len(F)
        BY <2>3
      <4>4. Piece(F, offset, z) \in Seq(Nat) /\ Len(Piece(F, offset, z)) = z - offset
        BY <1>15, <4>1, <4>2, <4>3, PieceTyped
      <4>. QED
        BY <3>4, <4>4 DEF Bytes
    <3>6. tail # IndexError
      BY <3>5, NoIndexError DEF Bytes
    <3>. HIDE DEF tail
    <3>7. CASE end.diff = 0
      <4>1. z = end_offset
        BY <1>13, <1>15, <3>7
      <4>. QED
        BY <1>2, <3>1, <3>4, <3>7, <4>1
    <3>8. CASE end.diff # 0
      <4>1. end_offset < z
        BY <1>13, <1>15, <3>8
      <4>2. Len(tail) > wanted
        BY <1>15, <1>16, <3>5, <4>1
      <4>3. RetrieveData(offset, length) = UpTo(tail, -end.diff)
        BY <3>1, <3>6, <3>8, <4>2
      <4>4. PICK d : d = end.diff
        OBVIOUS
      <4>5. d \in Nat /\ d # 0
        BY <1>13, <1>15, <4>1, <4>4
      <4>6. d <= Len(tail) /\ Len(tail) - d = end_offset - offset
        BY <1>13, <1>15, <2>1, <3>5, <4>4
      <4>7. UpTo(tail, -d) = Piece(tail, 0, Len(tail) - d)
        BY <3>5, <4>5, <4>6, BackFromIs
      <4>8. Piece(Piece(F, offset, z), 0, end_offset - offset) = Piece(F, offset, end_offset)
        <5>1. PICK c, k : c = 0 /\ k = end_offset - offset
          OBVIOUS
        <5>2. c \in Nat
          BY <5>1
        <5>3. k \in Nat
          BY <2>4, <5>1
        <5>4. c <= k
          BY <5>1, <5>3
        <5>5. k <= z - offset
          BY <1>15, <4>1, <5>1
        <5>6. F \in Seq(Nat)
          BY <1>4
        <5>7. offset <= z
          BY <2>4
        <5>8. z <= Len(F)
          BY <2>3
        <5>9. Piece(Piece(F, offset, z), c, k) = Piece(F, offset + c, offset + k)
          BY <1>15, <5>2, <5>3, <5>4, <5>5, <5>6, <5>7, <5>8, PieceOfPiece
        <5>10. offset + c = offset /\ offset + k = end_offset
          BY <5>1
        <5>. QED
          BY <5>1, <5>9, <5>10
      <4>. QED
        BY <1>2, <3>4, <4>3, <4>4, <4>6, <4>7, <4>8
    <3>. QED
      BY <3>7, <3>8
  <2>. QED
    BY <2>7, <2>8
<1>. QED
  BY <1>17, <1>18

-----------------------------------------------------------------------------
(* truncate_down keeps the first new_size bytes of the blocks. *)
CopiedTo(i, kept, new_size) ==
    /\ kept.blocks \in Seq(Solid)
    /\ kept.offset \in Nat /\ kept.offset <= new_size
    /\ FlattenSeq(kept.blocks) = Piece(FlattenSeq(data), 0, kept.offset)
    /\ kept.done => kept.offset = new_size
    /\ ~ kept.done => kept.offset = E(data, i) /\ (i = 0 \/ E(data, i) < new_size)

LEMMA SolidBytes ==
    ASSUME NEW s \in Seq(Solid)
    PROVE  s \in Seq(Bytes)
<1>1. Solid \subseteq Bytes
  BY DEF Solid
<1>. QED
  BY <1>1, SeqMonotonic

LEMMA CopiedFresh ==
    ASSUME Full(data), KnownOffsets = Ends(data), size = Len(FlattenSeq(data)),
           NEW new_size \in Nat, new_size < size,
           NEW i \in 1 .. Len(data), NEW kept \in Keeping, CopiedTo(i - 1, kept, new_size)
    PROVE  CopiedTo(i, Copied(kept, data[i], new_size), new_size)
<1>1. data \in Seq(Bytes)
  BY DEF Full
<1>2. Len(data) \in Nat
  BY <1>1, LenProperties
<1>3. PICK F, o : F = FlattenSeq(data) /\ o = kept.offset
  OBVIOUS
<1>4. F \in Seq(Nat) /\ Len(F) \in Nat /\ size = Len(F)
  BY <1>1, <1>3, FlattenTyped, LenProperties DEF Bytes
<1>5. /\ kept.blocks \in Seq(Solid) /\ o \in Nat /\ o <= new_size
      /\ FlattenSeq(kept.blocks) = Piece(F, 0, o)
  BY <1>3 DEF CopiedTo
<1>6. CASE kept.done
  <2>1. Copied(kept, data[i], new_size) = kept
    BY <1>6 DEF Copied
  <2>. QED
    BY <1>6, <2>1 DEF CopiedTo
<1>7. CASE ~ kept.done
  <2>1. o = E(data, i - 1) /\ (i - 1 = 0 \/ E(data, i - 1) < new_size)
    BY <1>3, <1>7 DEF CopiedTo
  <2>2. PICK L : L = Len(data[i])
    OBVIOUS
  <2>3. data[i] \in Seq(Nat) /\ data[i] # << >>
    BY <1>1, ElementOfSeq DEF Full, Bytes
  <2>4. L \in Nat /\ L # 0
    BY <2>2, <2>3, EmptySeq
  <2>5. E(data, i) = o + L
    BY <1>1, <2>1, <2>2, EndNext
  <2>6. PICK m : m = Min({L, new_size - o})
    OBVIOUS
  <2>7. m = IF L <= new_size - o THEN L ELSE new_size - o
    <3>1. L \in Int /\ new_size - o \in Int
      BY <1>5, <2>4
    <3>. QED
      BY <2>6, <3>1, MinOfTwo
  <2>8. m \in Nat /\ o + m \in Nat /\ o + m <= new_size /\ o + m < size /\ o < size
    BY <1>4, <1>5, <2>4, <2>7
  <2>9. PICK y : y = o + m
    OBVIOUS
  <2>10. y = Min({size, o + m})
    <3>1. size \in Int /\ o + m \in Int
      BY <1>4, <2>8
    <3>2. Min({size, o + m}) = IF size <= o + m THEN size ELSE o + m
      BY <3>1, MinOfTwo
    <3>. QED
      BY <1>4, <2>8, <2>9, <3>2
  <2>11. o < y \/ (o = 0 /\ y = 0)
    <3>1. CASE o < new_size
      BY <1>5, <2>4, <2>7, <2>9, <3>1
    <3>2. CASE ~ (o < new_size)
      <4>1. o = new_size
        BY <1>5, <3>2
      <4>2. i - 1 = 0
        BY <1>5, <2>1, <4>1
      <4>3. o = 0
        BY <1>1, <2>1, <4>2, EndFirst
      <4>. QED
        BY <2>4, <2>7, <2>9, <4>1, <4>3
    <3>. QED
      BY <3>1, <3>2
  <2>12. RetrieveData(o, m) = Piece(F, o, y)
    <3>1. y \in Nat
      BY <2>8, <2>9
    <3>2. o < size
      BY <2>8
    <3>3. m \in Nat
      BY <2>8
    <3>4. o \in Nat
      BY <1>5
    <3>. QED
      BY <1>3, <2>10, <2>11, <3>1, <3>2, <3>3, <3>4, RetrieveFresh
  <2>13. PICK piece : piece = Piece(F, o, y)
    OBVIOUS
  <2>14. piece \in Seq(Nat) /\ Len(piece) = m
    <3>1. y \in Nat
      BY <2>8, <2>9
    <3>2. o \in Nat
      BY <1>5
    <3>3. o <= y
      BY <1>5, <2>8, <2>9
    <3>4. y <= Len(F)
      BY <1>4, <2>8, <2>9
    <3>5. F \in Seq(Nat)
      BY <1>4
    <3>6. Piece(F, o, y) \in Seq(Nat) /\ Len(Piece(F, o, y)) = y - o
      BY <3>1, <3>2, <3>3, <3>4, <3>5, PieceTyped
    <3>7. y - o = m
      BY <1>5, <2>8, <2>9
    <3>. QED
      BY <2>13, <3>6, <3>7
  <2>15. Copied(kept, data[i], new_size) =
            [blocks |-> IF piece = << >> THEN kept.blocks ELSE Append(kept.blocks, piece),
             offset |-> o + Len(piece),
             done |-> \/ piece = IndexError
                      \/ L + o > new_size
                      \/ Len(piece) + o = new_size]
    BY <1>3, <1>7, <2>2, <2>6, <2>12, <2>13 DEF Copied
  <2>16. PICK k : k = Copied(kept, data[i], new_size)
    OBVIOUS
  <2>17. /\ k.blocks = IF piece = << >> THEN kept.blocks ELSE Append(kept.blocks, piece)
         /\ k.offset = y
         /\ k.done <=> piece = IndexError \/ L + o > new_size \/ m + o = new_size
    BY <2>9, <2>14, <2>15, <2>16
  <2>18. piece # IndexError
    BY <2>14, NoIndexError
  <2>19. k.done <=> L + o > new_size \/ y = new_size
    BY <1>5, <2>8, <2>9, <2>17, <2>18
  <2>20. k.offset \in Nat /\ k.offset <= new_size
    BY <2>8, <2>9, <2>17
  <2>21. k.done => k.offset = new_size
    BY <1>5, <2>4, <2>7, <2>9, <2>17, <2>19
  <2>22. ~ k.done => k.offset = E(data, i) /\ (i = 0 \/ E(data, i) < new_size)
    BY <1>5, <2>4, <2>5, <2>7, <2>9, <2>17, <2>19
  <2>23. k.blocks \in Seq(Solid) /\ FlattenSeq(k.blocks) = Piece(F, 0, y)
    <3>1. CASE piece = << >>
      <4>1. m = 0
        BY <2>14, <3>1, EmptySeq
      <4>2. y = o
        BY <1>5, <2>9, <4>1
      <4>. QED
        BY <1>5, <2>17, <3>1, <4>2
    <3>2. CASE piece # << >>
      <4>1. piece \in Solid /\ piece \in Bytes
        BY <2>14, <3>2 DEF Solid, Bytes
      <4>2. k.blocks = Append(kept.blocks, piece)
        BY <2>17, <3>2
      <4>3. k.blocks \in Seq(Solid)
        BY <1>5, <4>1, <4>2, AppendProperties
      <4>4. kept.blocks \in Seq(Bytes)
        BY <1>5, SolidBytes
      <4>5. FlattenSeq(k.blocks) = Piece(F, 0, o) \o Piece(F, o, y)
        BY <1>5, <2>13, <4>1, <4>2, <4>4, FlattenAppend
      <4>6. Piece(F, 0, o) \o Piece(F, o, y) = Piece(F, 0, y)
        <5>1. PICK z : z = 0
          OBVIOUS
        <5>2. z \in Nat
          BY <5>1
        <5>3. o \in Nat
          BY <1>5
        <5>4. y \in Nat
          BY <2>8, <2>9
        <5>5. z <= o
          BY <5>1, <5>3
        <5>6. o <= y
          BY <1>5, <2>8, <2>9
        <5>7. y <= Len(F)
          BY <1>4, <2>8, <2>9
        <5>8. F \in Seq(Nat)
          BY <1>4
        <5>9. Piece(F, z, o) \o Piece(F, o, y) = Piece(F, z, y)
          BY <5>2, <5>3, <5>4, <5>5, <5>6, <5>7, <5>8, PiecesJoin
        <5>. QED
          BY <5>1, <5>9
      <4>. QED
        BY <4>3, <4>5, <4>6
    <3>. QED
      BY <3>1, <3>2
  <2>24. CopiedTo(i, k, new_size)
    BY <1>3, <2>17, <2>20, <2>21, <2>22, <2>23 DEF CopiedTo
  <2>. QED
    BY <2>16, <2>24
<1>. QED
  BY <1>6, <1>7

LEMMA KeptFresh ==
    ASSUME Shape, KnownOffsets = Ends(data), size = Len(FlattenSeq(data)),
           NEW new_size \in Nat, new_size < size
    PROVE  /\ FlattenSeq(Kept(new_size)) = Piece(FlattenSeq(data), 0, new_size)
           /\ Kept(new_size) \in Seq(Solid)
<1>1. Full(data) /\ data \in Seq(Bytes)
  BY DEF Shape, Full
<1>2. PICK n : n = Len(data)
  OBVIOUS
<1>3. n \in Nat
  BY <1>1, <1>2, LenProperties
<1>4. PICK kept : Copies(new_size, kept)
  BY CopiesExist
<1>5. /\ \A i \in 0 .. n : kept[i] \in Keeping
      /\ kept[0] = NothingKept
      /\ \A i \in 1 .. n : kept[i] = Copied(kept[i - 1], data[i], new_size)
      /\ Kept(new_size) = kept[n].blocks
  BY <1>2, <1>4 DEF Copies
<1>. DEFINE S == {i \in 0 .. n : CopiedTo(i, kept[i], new_size)}
<1>6. 0 \in S
  <2>1. E(data, 0) = 0
    BY <1>1, EndFirst
  <2>2. Piece(FlattenSeq(data), 0, 0) = << >>
    BY PieceNone
  <2>3. << >> \in Seq(Solid)
    BY EmptySeq
  <2>4. CopiedTo(0, NothingKept, new_size)
    BY <2>1, <2>2, <2>3, FlattenNone DEF CopiedTo, NothingKept
  <2>. QED
    BY <1>3, <1>5, <2>4
<1>7. \A i \in 0 .. n - 1 : i \in S => i + 1 \in S
  <2>. SUFFICES ASSUME NEW i \in 0 .. n - 1, i \in S PROVE i + 1 \in S
    OBVIOUS
  <2>1. PICK j : j = i + 1
    OBVIOUS
  <2>2. j \in 1 .. n /\ j \in 0 .. n /\ j - 1 = i /\ i \in 0 .. n
    BY <1>3, <2>1
  <2>3. CopiedTo(j - 1, kept[i], new_size)
    BY <2>2
  <2>4. CopiedTo(j, Copied(kept[i], data[j], new_size), new_size)
    <3>1. kept[i] \in Keeping
      BY <1>5, <2>2
    <3>2. j \in 1 .. Len(data)
      BY <1>2, <2>2
    <3>. QED
      BY <1>1, <2>3, <3>1, <3>2, CopiedFresh
  <2>5. kept[j] = Copied(kept[i], data[j], new_size)
    BY <1>5, <2>2
  <2>. QED
    BY <2>1, <2>2, <2>4, <2>5
<1>. HIDE DEF S
<1>8. \A i \in 0 .. n : i \in S
  BY <1>3, <1>6, <1>7, InductionUpTo
<1>9. CopiedTo(n, kept[n], new_size)
  BY <1>3, <1>8 DEF S
<1>10. kept[n].done
  <2>1. SUFFICES ASSUME ~ kept[n].done PROVE FALSE
    OBVIOUS
  <2>2. kept[n].offset = E(data, n) /\ kept[n].offset <= new_size
    BY <1>9, <2>1 DEF CopiedTo
  <2>3. E(data, n) = size
    BY <1>1, <1>2, EndFirst
  <2>4. size \in Nat
    BY DEF Shape
  <2>. QED
    BY <2>2, <2>3, <2>4
<1>. QED
  BY <1>5, <1>9, <1>10 DEF CopiedTo

-----------------------------------------------------------------------------
(* The steps. *)
LEMMA BufferTyped ==
    ASSUME TypeOK, NEW n \in Nat, n # 0
    PROVE  /\ Buffer(n) \in Bytes /\ Buffer(n) # << >> /\ Len(Buffer(n)) = n
           /\ Zeros(n) \in Bytes /\ Zeros(n) # << >>
<1>1. writes \in Nat
  BY TypeParts, BoundAssumption
<1>2. \A i \in 1 .. n : 10 * (writes + 1) + i \in Nat
  BY <1>1
<1>3. Buffer(n) \in Seq(Nat) /\ Len(Buffer(n)) = n
  BY <1>2 DEF Buffer
<1>4. Zeros(n) \in Seq(Nat) /\ Len(Zeros(n)) = n
  BY DEF Zeros, Zero
<1>. QED
  BY <1>3, <1>4, EmptySeq DEF Bytes

LEMMA WriteEndStep ==
    ASSUME TypeOK, Fresh, WriteEnd
    PROVE  TypeOK' /\ Fresh'
<1>1. PICK offset \in 0 .. size + 1, n \in 1 .. MaxWrite : Writes(offset, Buffer(n))
  BY DEF WriteEnd
<1>2. size \in Nat /\ MaxWrite \in Nat
  BY TypeParts, BoundAssumption
<1>3. offset \in Nat
  BY <1>2
<1>4. n \in Nat /\ n # 0
  BY <1>2
<1>5. Buffer(n) \in Bytes /\ Buffer(n) # << >>
  BY <1>4, BufferTyped
<1>6. writes < MaxWrites
  BY DEF WriteEnd
<1>. QED
  BY <1>1, <1>3, <1>5, <1>6, WritesStep

LEMMA ExtendStep ==
    ASSUME TypeOK, Fresh, Extend
    PROVE  TypeOK' /\ Fresh'
<1>1. PICK new_size \in size + 1 .. MaxSize : Writes(size, Zeros(new_size - size))
  BY DEF Extend
<1>2. size \in Nat /\ MaxSize \in Nat
  BY TypeParts, BoundAssumption
<1>3. new_size - size \in Nat /\ new_size - size # 0
  BY <1>2
<1>4. Zeros(new_size - size) \in Bytes /\ Zeros(new_size - size) # << >>
  BY <1>3, BufferTyped
<1>5. writes < MaxWrites
  BY DEF Extend
<1>. QED
  BY <1>1, <1>2, <1>4, <1>5, WritesStep

(* read computes the offsets, and a truncation that fails has read. *)
LEMMA OffsetsKnown ==
    ASSUME TypeOK, Fresh, offsets' = KnownOffsets,
           UNCHANGED <<data, size, content, updated, grown, writes>>
    PROVE  TypeOK' /\ Fresh'
<1>1. Rising(offsets)'
  BY KnownRising DEF Rising
<1>2. (/\ data \in Seq(Solid) /\ Rising(offsets)
       /\ size \in Nat /\ content \in Bytes
       /\ updated \in BOOLEAN /\ grown \in BOOLEAN
       /\ writes \in 0 .. MaxWrites)'
  BY <1>1, TypeParts
<1>3. TypeOK'
  BY <1>2, TypeParts, PTL
<1>4. Fresh'
  <2>1. Ends(data)' = Ends(data)
    BY DEF Ends
  <2>. QED
    BY <2>1 DEF Fresh, KnownOffsets
<1>. QED
  BY <1>3, <1>4

LEMMA WholeTyped ==
    ASSUME TypeOK, data # << >>, NEW offset \in Nat, NEW length \in Nat
    PROVE  /\ Whole(offset, length).diff \in Int /\ Whole(offset, length).start \in Nat
           /\ Whole(offset, length).end \in Int /\ Whole(offset, length).blocks \in Bytes
<1>1. PICK ends : ends = KnownOffsets
  OBVIOUS
<1>2. Rising(ends) /\ ends # << >>
  BY <1>1, TypeShape, KnownTyped
<1>3. PICK start, end : start = StartOf(ends, offset) /\ end = EndOf(ends, offset + length)
  OBVIOUS
<1>4. start.blk \in Int /\ start.diff \in Int /\ (start.diff >= 0 => start.blk >= 0)
  BY <1>2, <1>3, StartTyped
<1>5. end.blk \in Int
  <2>1. offset + length \in Int
    OBVIOUS
  <2>2. EndOf(ends, offset + length).blk \in 0 .. Len(ends) - 1
    BY <1>2, <2>1, EndOfTyped
  <2>. QED
    BY <1>3, <2>2
<1>6. FileData(start.blk, end.blk) \in Bytes
  BY <1>4, <1>5, TypeShape, FileDataTyped
<1>7. FileData(0, 1) \in Bytes
  BY TypeShape, FileDataTyped
<1>8. Whole(offset, length) =
        IF start.blk = 0 /\ end.blk = 0
        THEN [diff |-> start.diff, start |-> 0, end |-> 0, blocks |-> FileData(0, 1)]
        ELSE [diff |-> start.diff, end |-> end.blk,
              start |-> IF start.diff < 0 THEN Max({0, start.blk - 1}) ELSE start.blk,
              blocks |-> FileData(start.blk, end.blk)]
  BY <1>1, <1>3 DEF Whole
<1>9. CASE start.blk = 0 /\ end.blk = 0
  <2>1. Whole(offset, length) = [diff |-> start.diff, start |-> 0, end |-> 0, blocks |-> FileData(0, 1)]
    BY <1>8, <1>9
  <2>. QED
    BY <1>4, <1>7, <2>1
<1>10. CASE ~ (start.blk = 0 /\ end.blk = 0)
  <2>1. PICK at : at = IF start.diff < 0 THEN Max({0, start.blk - 1}) ELSE start.blk
    OBVIOUS
  <2>2. at \in Nat
    <3>1. start.blk - 1 \in Int /\ 0 \in Int
      BY <1>4
    <3>2. Max({0, start.blk - 1}) = IF 0 >= start.blk - 1 THEN 0 ELSE start.blk - 1
      BY <3>1, MaxOfTwo
    <3>. QED
      BY <1>4, <2>1, <3>1, <3>2
  <2>3. Whole(offset, length) = [diff |-> start.diff, end |-> end.blk, start |-> at,
                                 blocks |-> FileData(start.blk, end.blk)]
    BY <1>8, <1>10, <2>1
  <2>. QED
    BY <1>4, <1>5, <1>6, <2>2, <2>3
<1>. QED
  BY <1>9, <1>10

LEMMA WriteInsideStep ==
    ASSUME TypeOK, Fresh, WriteInside
    PROVE  TypeOK' /\ Fresh'
<1>1. size \in Nat /\ MaxWrite \in Nat /\ data \in Seq(Solid)
  BY TypeParts, BoundAssumption
<1>2. writes < MaxWrites /\ data # << >> /\ offsets' = KnownOffsets /\ size' = size
  BY DEF WriteInside
<1>3. PICK offset \in 0 .. size - 1, n \in 1 .. MaxWrite :
        LET whole == Whole(offset, n)
            at == Max({0, whole.diff})
            buf == Buffer(n)
            patched == UpTo(whole.blocks, at) \o buf \o From(whole.blocks, at + n)
            rest == Popped(data, whole.start, whole.end)
        IN  /\ offset + n < size
            /\ Len(patched) <= MaxSize
            /\ \E blocks \in Cuts(patched) :
                data' = UpTo(rest, whole.start) \o blocks \o From(rest, whole.start)
            /\ History(offset, buf)
  BY DEF WriteInside
<1>4. PICK whole, at, buf : whole = Whole(offset, n) /\ at = Max({0, whole.diff}) /\ buf = Buffer(n)
  OBVIOUS
<1>5. PICK patched, rest :
        /\ patched = UpTo(whole.blocks, at) \o buf \o From(whole.blocks, at + n)
        /\ rest = Popped(data, whole.start, whole.end)
  OBVIOUS
<1>6. /\ \E blocks \in Cuts(patched) :
            data' = UpTo(rest, whole.start) \o blocks \o From(rest, whole.start)
      /\ History(offset, buf)
  BY <1>3, <1>4, <1>5
<1>7. offset \in Nat
  BY <1>1
<1>8. n \in Nat /\ n # 0
  BY <1>1
<1>9. /\ whole.diff \in Int /\ whole.start \in Nat
      /\ whole.end \in Int /\ whole.blocks \in Bytes
  BY <1>2, <1>4, <1>7, <1>8, WholeTyped
<1>10. buf \in Bytes /\ buf \in Seq(Nat) /\ Len(buf) = n
  BY <1>4, <1>8, BufferTyped DEF Bytes
<1>11. at \in Int /\ at + n \in Int
  <2>1. Max({0, whole.diff}) = IF 0 >= whole.diff THEN 0 ELSE whole.diff
    BY <1>9, MaxOfTwo
  <2>. QED
    BY <1>4, <1>8, <1>9, <2>1
<1>12. patched \in Bytes /\ patched # << >>
  <2>1. PICK p, q : p = UpTo(whole.blocks, at) /\ q = From(whole.blocks, at + n)
    OBVIOUS
  <2>2. p \in Seq(Nat)
    BY <1>9, <1>11, <2>1, FromTyped DEF Bytes
  <2>3. q \in Seq(Nat)
    BY <1>9, <1>11, <2>1, FromTyped DEF Bytes
  <2>4. p \o buf \in Seq(Nat) /\ Len(p \o buf) = Len(p) + Len(buf)
    BY <1>10, <2>2, ConcatProperties
  <2>5. PICK r : r = p \o buf
    OBVIOUS
  <2>6. r \in Seq(Nat)
    BY <2>4, <2>5
  <2>7. r \o q \in Seq(Nat) /\ Len(r \o q) = Len(r) + Len(q)
    BY <2>3, <2>6, ConcatProperties
  <2>8. Len(p) \in Nat /\ Len(q) \in Nat
    BY <2>2, <2>3, LenProperties
  <2>9. patched = r \o q
    BY <1>5, <2>1, <2>5
  <2>10. Len(patched) # 0
    BY <1>8, <1>10, <2>4, <2>5, <2>7, <2>8, <2>9
  <2>. QED
    BY <2>7, <2>9, <2>10, EmptySeq DEF Bytes
<1>13. data' \in Seq(Solid)
  <2>1. PICK blocks \in Cuts(patched) :
            data' = UpTo(rest, whole.start) \o blocks \o From(rest, whole.start)
    BY <1>6
  <2>2. blocks \in Seq(Solid)
    BY <1>12, CutsTyped, FullIs
  <2>3. rest \in Seq(Solid)
    BY <1>1, <1>5, <1>9, PoppedTyped
  <2>4. whole.start \in Int /\ 0 \in Int /\ Len(rest) \in Int
    BY <1>9, <2>3, LenProperties
  <2>5. Slice(rest, 0, whole.start) \in Seq(Solid)
    BY <2>3, <2>4, SliceTyped
  <2>6. Slice(rest, whole.start, Len(rest)) \in Seq(Solid)
    BY <2>3, <2>4, SliceTyped
  <2>7. PICK p, q : p = UpTo(rest, whole.start) /\ q = From(rest, whole.start)
    OBVIOUS
  <2>8. p \in Seq(Solid)
    BY <2>5, <2>7 DEF UpTo
  <2>9. q \in Seq(Solid)
    BY <2>6, <2>7 DEF From
  <2>10. p \o blocks \in Seq(Solid)
    BY <2>2, <2>8, ConcatProperties
  <2>11. (p \o blocks) \o q \in Seq(Solid)
    BY <2>9, <2>10, ConcatProperties
  <2>. QED
    BY <2>1, <2>7, <2>11
<1>14. TypeOK'
  <2>1. /\ content' \in Bytes
        /\ updated' \in BOOLEAN /\ grown' \in BOOLEAN /\ writes' \in 0 .. MaxWrites
    BY <1>2, <1>6, <1>7, <1>10, HistoryTyped
  <2>2. Rising(offsets)'
    BY <1>2, KnownRising DEF Rising
  <2>3. (/\ data \in Seq(Solid) /\ Rising(offsets)
         /\ size \in Nat /\ content \in Bytes
         /\ updated \in BOOLEAN /\ grown \in BOOLEAN
         /\ writes \in 0 .. MaxWrites)'
    BY <1>1, <1>2, <1>13, <2>1, <2>2
  <2>. QED
    BY <2>3, TypeParts, PTL
<1>15. Fresh'
  <2>1. offset # size
    BY <1>1
  <2>2. updated'
    BY <1>6, <2>1 DEF History
  <2>. QED
    BY <2>2 DEF Fresh
<1>. QED
  BY <1>14, <1>15

LEMMA KeptTyped ==
    ASSUME Shape, NEW new_size \in Nat, IndexError \notin ToSet(Kept(new_size))
    PROVE  Kept(new_size) \in Seq(Solid)
<1>1. PICK kept : Copies(new_size, kept)
  BY CopiesExist
<1>2. Len(data) \in 0 .. Len(data)
  <2>1. Len(data) \in Nat
    BY LenProperties DEF Shape, Full
  <2>. QED
    BY <2>1
<1>3. PICK s : s = Kept(new_size)
  OBVIOUS
<1>4. s \in Pieces
  BY <1>1, <1>2, <1>3 DEF Copies, Keeping
<1>5. /\ Len(s) \in Nat /\ DOMAIN s = 1 .. Len(s) /\ s = [i \in 1 .. Len(s) |-> s[i]]
      /\ \A i \in 1 .. Len(s) : s[i] \in (Bytes \union {IndexError}) \ {<< >>}
  BY <1>4, LenProperties, ElementOfSeq DEF Pieces
<1>6. \A i \in 1 .. Len(s) : s[i] # IndexError
  BY <1>3, <1>5 DEF ToSet
<1>7. \A i \in 1 .. Len(s) : s[i] \in Solid
  BY <1>5, <1>6 DEF Solid
<1>. QED
  BY <1>3, <1>5, <1>7

LEMMA TruncateDownStep ==
    ASSUME TypeOK, Fresh, TruncateDown
    PROVE  TypeOK' /\ Fresh'
<1>1. PICK new_size \in 0 .. size - 1 : Truncated(new_size) /\ offsets' = << >>
  BY DEF TruncateDown
<1>2. /\ writes < MaxWrites /\ IndexError \notin ToSet(Kept(new_size))
      /\ data' = Kept(new_size) /\ size' = Len(FlattenSeq(Kept(new_size)))
      /\ content' = SubSeq(content, 1, Min({new_size, Len(content)}))
      /\ writes' = writes + 1 /\ updated' = updated /\ grown' = grown
  BY <1>1 DEF Truncated
<1>3. /\ size \in Nat /\ content \in Seq(Nat) /\ writes \in 0 .. MaxWrites /\ MaxWrites \in Nat
      /\ updated \in BOOLEAN /\ grown \in BOOLEAN
  BY TypeParts, BoundAssumption DEF Bytes
<1>4. new_size \in Nat /\ new_size < size
  BY <1>3
<1>5. Shape
  BY TypeShape
<1>6. data' \in Seq(Solid)
  BY <1>2, <1>4, <1>5, KeptTyped
<1>7. FlattenSeq(data') \in Seq(Nat)
  <2>1. data' \in Seq(Bytes)
    BY <1>6, SolidBytes
  <2>. QED
    BY <2>1, FlattenTyped DEF Bytes
<1>8. PICK m : m = Min({new_size, Len(content)})
  OBVIOUS
<1>9. Len(content) \in Nat
  BY <1>3, LenProperties
<1>10. m = IF new_size <= Len(content) THEN new_size ELSE Len(content)
  <2>1. new_size \in Int /\ Len(content) \in Int
    BY <1>4, <1>9
  <2>. QED
    BY <1>8, <2>1, MinOfTwo
<1>11. content' = Piece(content, 0, m)
  <2>1. 0 + 1 = 1
    OBVIOUS
  <2>. QED
    BY <1>2, <1>8, <2>1 DEF Piece
<1>12. content' \in Seq(Nat) /\ Len(content') = m
  <2>1. m \in Nat
    BY <1>4, <1>9, <1>10
  <2>2. m <= Len(content)
    BY <1>4, <1>9, <1>10
  <2>. QED
    BY <1>3, <1>11, <2>1, <2>2, PieceFirst
<1>13. TypeOK'
  <2>1. Rising(offsets)'
    <3>1. offsets' \in Seq(Nat) /\ Len(offsets') = 0
      BY <1>1, EmptySeq
    <3>. QED
      BY <3>1 DEF Rising
  <2>2. size' \in Nat
    BY <1>2, <1>7, LenProperties
  <2>3. writes' \in 0 .. MaxWrites
    BY <1>2, <1>3
  <2>4. (/\ data \in Seq(Solid) /\ Rising(offsets)
         /\ size \in Nat /\ content \in Bytes
         /\ updated \in BOOLEAN /\ grown \in BOOLEAN
         /\ writes \in 0 .. MaxWrites)'
    BY <1>2, <1>3, <1>6, <1>12, <2>1, <2>2, <2>3 DEF Bytes
  <2>. QED
    BY <2>4, TypeParts, PTL
<1>14. ASSUME ~ updated', ~ grown'
       PROVE  size' = Len(content') /\ FlattenSeq(data') = content'
  <2>1. ~ updated /\ ~ grown
    BY <1>2, <1>14
  <2>2. /\ offsets = << >> \/ offsets = Ends(data)
        /\ size = Len(content) /\ FlattenSeq(data) = content
    BY <2>1 DEF Fresh
  <2>3. KnownOffsets = Ends(data)
    BY <2>2 DEF KnownOffsets
  <2>4. FlattenSeq(Kept(new_size)) = Piece(FlattenSeq(data), 0, new_size)
    BY <1>4, <1>5, <2>2, <2>3, KeptFresh
  <2>5. m = new_size
    BY <1>4, <1>9, <1>10, <2>2
  <2>. QED
    BY <1>2, <1>11, <2>2, <2>4, <2>5
<1>15. Fresh'
  BY <1>1, <1>14 DEF Fresh
<1>. QED
  BY <1>13, <1>15

LEMMA InitInv == Init => IInv
<1>. SUFFICES ASSUME Init PROVE IInv
  OBVIOUS
<1>1. /\ data = << >> /\ offsets = << >> /\ size = 0 /\ content = << >>
      /\ updated = FALSE /\ grown = FALSE /\ writes = 0
  BY DEF Init
<1>2. << >> \in Seq(Solid) /\ << >> \in Bytes /\ << >> \in Seq(Nat) /\ Len(<< >>) = 0
  BY EmptySeq DEF Bytes
<1>3. Rising(offsets)
  BY <1>1, <1>2 DEF Rising
<1>4. writes \in 0 .. MaxWrites
  BY <1>1, BoundAssumption
<1>5. TypeOK
  BY <1>1, <1>2, <1>3, <1>4, TypeParts
<1>6. Fresh
  BY <1>1, <1>2, FlattenNone DEF Fresh
<1>. QED
  BY <1>5, <1>6 DEF IInv

LEMMA NextInv == IInv /\ [Next]_vars => IInv'
<1>. SUFFICES ASSUME TypeOK, Fresh, [Next]_vars PROVE TypeOK' /\ Fresh'
  BY DEF IInv
<1>1. CASE WriteEnd
  BY <1>1, WriteEndStep
<1>2. CASE WriteInside
  BY <1>2, WriteInsideStep
<1>3. CASE Read
  BY <1>3, OffsetsKnown DEF Read
<1>4. CASE Extend
  BY <1>4, ExtendStep
<1>5. CASE TruncateDown
  BY <1>5, TruncateDownStep
<1>6. CASE TruncateFails
  BY <1>6, OffsetsKnown DEF TruncateFails
<1>7. CASE UNCHANGED vars
  <2>1. TypeOK'
    BY <1>7 DEF TypeOK, vars
  <2>2. Fresh'
    BY <1>7 DEF Fresh, Ends, vars
  <2>. QED
    BY <2>1, <2>2
<1>. QED
  BY <1>1, <1>2, <1>3, <1>4, <1>5, <1>6, <1>7 DEF Next

LEMMA Invariant == Spec => []IInv
<1>. QED
  BY InitInv, NextInv, PTL DEF Spec

(* Whatever is written, extended and cut off, in any order and with any     *)
(* offsets left over: no block of a file is empty, the offsets rise, and no *)
(* byte comes from anywhere but the writes (write, read, setattr).          *)
THEOREM TypeCorrect == Spec => []TypeOK
<1>1. IInv => TypeOK
  BY DEF IInv
<1>. QED
  BY <1>1, Invariant, PTL

(* A file written from its start to its end before it was read gives back   *)
(* every part of what was written, for any sizes of writes, blocks and      *)
(* reads, wherever the blocks end, and after truncations (retrieve_data,    *)
(* calc_offsets, truncate_down).                                            *)
THEOREM WrittenOnceIsReadBack == Spec => []WrittenOnceReadsBack
<1>1. ASSUME IInv PROVE WrittenOnceReadsBack
  <2>. SUFFICES ASSUME ~ updated, ~ grown PROVE size = Len(content) /\ ReadsContent
    BY DEF WrittenOnceReadsBack
  <2>1. /\ offsets = << >> \/ offsets = Ends(data)
        /\ size = Len(content) /\ FlattenSeq(data) = content
    BY <1>1 DEF IInv, Fresh
  <2>2. KnownOffsets = Ends(data)
    BY <2>1 DEF KnownOffsets
  <2>3. Full(data) /\ size \in Nat /\ MaxSize \in Nat
    BY <1>1, TypeShape, BoundAssumption DEF IInv, Shape
  <2>4. ASSUME NEW offset \in 0 .. size - 1, NEW length \in 1 .. MaxSize
        PROVE  RetrieveData(offset, length) =
                 SubSeq(content, offset + 1, Min({Len(content), offset + length}))
    <3>1. PICK end_offset : end_offset = Min({size, offset + length})
      OBVIOUS
    <3>2. end_offset = IF size <= offset + length THEN size ELSE offset + length
      <4>1. size \in Int /\ offset + length \in Int
        BY <2>3
      <4>. QED
        BY <3>1, <4>1, MinOfTwo
    <3>3. end_offset \in Nat
      BY <2>3, <3>2
    <3>4. offset \in Nat
      BY <2>3
    <3>5. length \in Nat
      BY <2>3
    <3>6. offset < size
      BY <2>3
    <3>7. offset < end_offset
      BY <2>3, <3>2
    <3>8. RetrieveData(offset, length) = Piece(FlattenSeq(data), offset, end_offset)
      BY <2>1, <2>2, <2>3, <3>1, <3>3, <3>4, <3>5, <3>6, <3>7, RetrieveFresh
    <3>. QED
      BY <2>1, <3>1, <3>8 DEF Piece
  <2>. QED
    BY <2>1, <2>4 DEF ReadsContent
<1>2. IInv => WrittenOnceReadsBack
  BY <1>1
<1>. QED
  BY <1>2, Invariant, PTL

=============================================================================
