-------------------------- MODULE WireDecode_proofs --------------------------
(***************************************************************************)
(* Proofs about WireDecode and WireEncode, for every dictionary, any       *)
(* tokens and buffers of any length up to the bounds.                      *)
(*                                                                         *)
(* 1. Laminar is about the spans of a decode that is over.  What is        *)
(*    inductive is Placed: no span begins in front of a message that is    *)
(*    open and ends inside of it, and nothing was read since the sequence  *)
(*    under way began.  That the decoder takes numbers for numbers rests   *)
(*    on the values: Tree says that what it keeps for a message is of the  *)
(*    types of the items.                                                  *)
(* 2. Bounded: a decode has opened no more messages than it read tokens,   *)
(*    so that what it gives is a message, which encode() can be given.     *)
(* 3. encode() and what it does not lose are recursive functions on the    *)
(*    messages within a message.  Codec says what they are for each of     *)
(*    them, and all that follows rests on it.                              *)
(* 4. Follow: the messages that are open stand for messages that were      *)
(*    encoded, one in the other.  Each of them has what its first chunks   *)
(*    give (Part), and the decoder is where the next chunk is.  At the end *)
(*    this is Stable, and CutOff when the buffer was cut.                  *)
(***************************************************************************)
EXTENDS WireDecode, NaturalsInduction, WellFoundedInduction, TLAPS

(* A set of natural numbers that is closed under successor is Nat.         *)
LEMMA NatSetInduction ==
  ASSUME NEW S \in SUBSET Nat, 0 \in S, \A n \in S : n + 1 \in S
  PROVE  S = Nat
<1> DEFINE R == OpToRel(<, Nat)
           T == Nat \ S
<1>1. ASSUME T # {} PROVE FALSE
  <2>1. IsWellFoundedOn(R, Nat)  BY NatLessThanWellFounded
  <2> HIDE DEF R
  <2>2. PICK x \in T : \A y \in T : ~ (<<y, x>> \in R)  BY <1>1, <2>1, WFMin
  <2>3. x \in Nat /\ x - 1 \in Nat /\ x - 1 \in T /\ x - 1 < x  BY <2>2
  <2>4. <<x - 1, x>> \in R  BY <2>3 DEF R, OpToRel
  <2> QED  BY <2>2, <2>3, <2>4
<1> QED  BY <1>1

(***************************************************************************)
(* What FlattenSeq gives, one element of the sequence after the other.     *)
(* Off(q, n) is the length of the first n elements of q together.          *)
(***************************************************************************)
Flattens(q, F) ==
  /\ DOMAIN F = 0 .. Len(q) /\ F[0] = <<>>
  /\ \A n \in 1 .. Len(q) : F[n] = F[n - 1] \o q[n]

Partial(q) == CHOOSE F : Flattens(q, F)

\* The length of the first n elements.
Off(q, n) == Len(Partial(q)[n])

LEMMA PartialExist ==
    ASSUME NEW X, NEW q \in Seq(Seq(X))
    PROVE  Flattens(q, Partial(q)) /\ \A n \in 0 .. Len(q) : Partial(q)[n] \in Seq(X)
<1> DEFINE L == Len(q)
           Grows(F, n) == /\ F \in [0 .. n -> Seq(X)] /\ F[0] = <<>>
                          /\ \A k \in 1 .. n : F[k] = F[k - 1] \o q[k]
           G == {n \in Nat : n <= L => \E F : Grows(F, n)}
<1>1. 0 \in G
  <2>1. Grows([k \in 0 .. 0 |-> <<>>], 0)
    OBVIOUS
  <2> QED BY <2>1
<1>2. ASSUME NEW n \in G PROVE n + 1 \in G
  <2> SUFFICES ASSUME n + 1 <= L PROVE \E F : Grows(F, n + 1)
    <3> HIDE DEF Grows
    <3> QED BY <1>2
  <2>1. L \in Nat
    OBVIOUS
  <2>2. PICK F : Grows(F, n)
    <3> HIDE DEF Grows
    <3>1. n \in Nat /\ n <= L
      BY <2>1
    <3> QED BY <1>2, <3>1
  <2> DEFINE H == [k \in 0 .. n + 1 |-> IF k <= n THEN F[k] ELSE F[n] \o q[n + 1]]
  <2>3. q[n + 1] \in Seq(X) /\ F[n] \in Seq(X)
    BY <2>2
  <2>4. H \in [0 .. n + 1 -> Seq(X)]
    BY <2>2, <2>3
  <2>5. H[0] = <<>>
    BY <2>2
  <2>6. ASSUME NEW k \in 1 .. n + 1 PROVE H[k] = H[k - 1] \o q[k]
    <3>1. CASE k <= n
      <4>1. H[k] = F[k] /\ H[k - 1] = F[k - 1] /\ k \in 1 .. n
        BY <3>1
      <4> QED BY <2>2, <4>1
    <3>2. CASE k = n + 1
      <4>1. n \in Nat /\ ~(n + 1 <= n) /\ n + 1 \in 0 .. n + 1 /\ n \in 0 .. n + 1
            /\ (n + 1) - 1 = n /\ n <= n
        OBVIOUS
      <4>2. H[n + 1] = F[n] \o q[n + 1]
        BY <4>1
      <4>3. H[n] = F[n]
        BY <4>1
      <4> HIDE DEF H
      <4> QED BY <3>2, <4>1, <4>2, <4>3
    <3>3. k <= n \/ k = n + 1
      OBVIOUS
    <3> HIDE DEF H
    <3> QED BY <3>1, <3>2, <3>3
  <2> HIDE DEF H
  <2> QED BY <2>4, <2>5, <2>6
<1>3. L \in G /\ L \in Nat
  <2>1. G = Nat
    <3> HIDE DEF Grows
    <3>1. G \in SUBSET Nat
      OBVIOUS
    <3> HIDE DEF G
    <3> QED BY <1>1, <1>2, <3>1, NatSetInduction
  <2>2. L \in Nat
    OBVIOUS
  <2> HIDE DEF G, L
  <2> QED BY <2>1, <2>2
<1>4. PICK F : Grows(F, L)
  <2> HIDE DEF Grows
  <2>1. L <= L
    BY <1>3
  <2> QED BY <1>3, <2>1
<1>5. Flattens(q, F)
  BY <1>4 DEF Flattens
<1>6. Flattens(q, Partial(q))
  BY <1>5 DEF Partial
<1> DEFINE P == Partial(q)
<1> HIDE DEF Grows, G
<1> DEFINE A == {n \in Nat : n <= L => P[n] \in Seq(X)}
<1>7. 0 \in A
  <2>1. P[0] = <<>>
    BY <1>6 DEF Flattens
  <2>2. <<>> \in Seq(X)
    OBVIOUS
  <2> HIDE DEF P
  <2> QED BY <2>1, <2>2
<1>8. ASSUME NEW n \in A PROVE n + 1 \in A
  <2> SUFFICES ASSUME n + 1 <= L PROVE P[n + 1] \in Seq(X)
    OBVIOUS
  <2>1. n + 1 \in 1 .. L /\ P[n] \in Seq(X) /\ (n + 1) - 1 = n /\ q[n + 1] \in Seq(X)
    BY <1>3
  <2>2. P[n + 1] = P[n] \o q[n + 1]
    BY <1>6, <2>1 DEF Flattens
  <2> HIDE DEF P
  <2> QED BY <2>1, <2>2
<1>9. A = Nat
  <2>1. A \in SUBSET Nat
    OBVIOUS
  <2> HIDE DEF A
  <2> QED BY <1>7, <1>8, <2>1, NatSetInduction
<1> QED BY <1>6, <1>9

LEMMA FlattenIs ==
    ASSUME NEW X, NEW q \in Seq(Seq(X))
    PROVE  FlattenSeq(q) = Partial(q)[Len(q)]
<1> DEFINE L == Len(q)
           P == Partial(q)
           f == [i \in 1 .. L |-> P[i]]
<1>0. L \in Nat /\ Flattens(q, P)
  BY PartialExist
<1>1. CASE L = 0
  <2>1. q = <<>>
    BY <1>1
  <2> QED BY <1>0, <1>1, <2>1 DEF FlattenSeq, Flattens
<1>2. CASE L # 0
  <2> DEFINE Is(g) == g = [i \in 1 .. L |-> IF i = 1 THEN q[i] ELSE g[i - 1] \o q[i]]
  <2>1. Is(f)
    <3>1. ASSUME NEW i \in 1 .. L PROVE P[i] = IF i = 1 THEN q[i] ELSE f[i - 1] \o q[i]
      <4>1. P[i] = P[i - 1] \o q[i] /\ P[0] = <<>>
        BY <1>0 DEF Flattens
      <4>2. CASE i = 1
        <5>1. q[1] \in Seq(X)
          BY <1>2
        <5>2. <<>> \o q[1] = q[1]
          BY <5>1
        <5> HIDE DEF f, P
        <5>3. 1 \in 1 .. L /\ 1 - 1 = 0
          BY <4>2
        <5>5. P[1] = P[0] \o q[1]
          BY <1>0, <5>3 DEF Flattens
        <5>4. P[1] = q[1]
          BY <4>1, <5>2, <5>5
        <5> QED BY <4>2, <5>4
      <4>3. CASE i # 1
        <5>1. i - 1 \in 1 .. L
          BY <4>3
        <5>2. f[i - 1] = P[i - 1]
          BY <5>1
        <5> HIDE DEF f, P
        <5> QED BY <4>1, <4>3, <5>2
      <4> HIDE DEF f, P
      <4> QED BY <4>2, <4>3
    <3> HIDE DEF P
    <3> QED BY <3>1
  <2> DEFINE g == CHOOSE h : Is(h)
  <2>2. Is(g)
    <3> HIDE DEF Is, f
    <3> QED BY <2>1
  <2>3. FlattenSeq(q) = g[L]
    BY <1>2 DEF FlattenSeq
  <2> DEFINE A == {n \in Nat : n + 1 <= L => g[n + 1] = P[n + 1]}
  <2> HIDE DEF P, g, f
  <2>4. \A i \in 1 .. L : g[i] = IF i = 1 THEN q[i] ELSE g[i - 1] \o q[i]
    BY <2>2
  <2>5. \A i \in 1 .. L : P[i] = IF i = 1 THEN q[i] ELSE P[i - 1] \o q[i]
    <3>1. \A i \in 1 .. L : f[i] = IF i = 1 THEN q[i] ELSE f[i - 1] \o q[i]
      BY <2>1 DEF f
    <3>2. \A i \in 1 .. L : f[i] = P[i]
      BY DEF f
    <3>3. \A i \in 1 .. L : i # 1 => i - 1 \in 1 .. L
      BY <1>0
    <3> QED BY <3>1, <3>2, <3>3
  <2> HIDE DEF Is
  <2>6. 0 \in A
    BY <2>4, <2>5, <1>0
  <2>7. ASSUME NEW n \in A PROVE n + 1 \in A
    <3> SUFFICES ASSUME n + 2 <= L PROVE g[n + 2] = P[n + 2]
      OBVIOUS
    <3>1. g[n + 1] = P[n + 1] /\ n + 2 \in 1 .. L /\ n + 2 # 1 /\ (n + 2) - 1 = n + 1
      BY <1>0
    <3> QED BY <2>4, <2>5, <3>1
  <2>8. A = Nat
    <3>1. A \in SUBSET Nat
      OBVIOUS
    <3> HIDE DEF A
    <3> QED BY <2>6, <2>7, <3>1, NatSetInduction
  <2>9. L - 1 \in Nat /\ (L - 1) + 1 = L /\ L <= L
    BY <1>0, <1>2
  <2>10. g[L] = P[L]
    BY <2>8, <2>9
  <2> QED BY <2>3, <2>10 DEF P
<1> QED BY <1>1, <1>2

(* The tokens of two sequences, one behind the other.                      *)
LEMMA CatIs ==
    ASSUME NEW X, NEW c \in Seq(X), NEW d \in Seq(X)
    PROVE  /\ c \o d \in Seq(X) /\ Len(c \o d) = Len(c) + Len(d)
           /\ Len(c) \in Nat /\ Len(d) \in Nat
           /\ \A x \in 1 .. Len(c) : (c \o d)[x] = c[x]
           /\ \A x \in 1 .. Len(d) : (c \o d)[Len(c) + x] = d[x]
OBVIOUS

(* The length of the first n + 1 is that of the first n and of the next.   *)
LEMMA OffIs ==
    ASSUME NEW X, NEW q \in Seq(Seq(X))
    PROVE  /\ Off(q, 0) = 0
           /\ \A n \in 0 .. Len(q) : Off(q, n) \in Nat
           /\ \A n \in 1 .. Len(q) : Off(q, n) = Off(q, n - 1) + Len(q[n])
           /\ FlattenSeq(q) \in Seq(X) /\ Off(q, Len(q)) = Len(FlattenSeq(q))
<1> DEFINE P == Partial(q)
<1>1. /\ P[0] = <<>> /\ \A n \in 0 .. Len(q) : P[n] \in Seq(X)
      /\ \A n \in 1 .. Len(q) : P[n] = P[n - 1] \o q[n]
      /\ FlattenSeq(q) = P[Len(q)]
  BY PartialExist, FlattenIs DEF Flattens
<1>2. /\ Off(q, 0) = Len(P[0]) /\ \A n \in 0 .. Len(q) : Off(q, n) = Len(P[n])
      /\ Len(q) \in Nat
  BY DEF Off
<1> HIDE DEF P
<1>3. ASSUME NEW n \in 1 .. Len(q) PROVE Off(q, n) = Off(q, n - 1) + Len(q[n])
  <2>1. n - 1 \in 0 .. Len(q) /\ n \in 0 .. Len(q) /\ q[n] \in Seq(X)
    BY <1>2
  <2>2. P[n - 1] \in Seq(X) /\ P[n] = P[n - 1] \o q[n]
    BY <1>1, <2>1
  <2>3. Len(P[n]) = Len(P[n - 1]) + Len(q[n])
    BY <2>1, <2>2
  <2> QED BY <1>2, <2>1, <2>3
<1>4. \A n \in 0 .. Len(q) : Off(q, n) \in Nat
  BY <1>1, <1>2
<1>5. FlattenSeq(q) \in Seq(X) /\ Off(q, Len(q)) = Len(FlattenSeq(q))
  BY <1>1, <1>2
<1> QED BY <1>1, <1>2, <1>3, <1>4, <1>5

LEMMA OffGrows ==
    ASSUME NEW X, NEW q \in Seq(Seq(X)), NEW a \in 0 .. Len(q), NEW b \in 0 .. Len(q), a <= b
    PROVE  Off(q, a) <= Off(q, b)
<1> DEFINE A == {k \in Nat : a + k <= Len(q) => Off(q, a) <= Off(q, a + k)}
<1>0. Len(q) \in Nat
  OBVIOUS
<1>1. /\ \A n \in 0 .. Len(q) : Off(q, n) \in Nat
      /\ \A n \in 1 .. Len(q) : Off(q, n) = Off(q, n - 1) + Len(q[n])
      /\ \A n \in 1 .. Len(q) : Len(q[n]) \in Nat
  BY OffIs
<1>2. 0 \in A
  BY <1>0, <1>1
<1>3. ASSUME NEW k \in A PROVE k + 1 \in A
  <2> SUFFICES ASSUME a + (k + 1) <= Len(q) PROVE Off(q, a) <= Off(q, a + (k + 1))
    OBVIOUS
  <2>1. /\ a + (k + 1) \in 1 .. Len(q) /\ (a + (k + 1)) - 1 = a + k
        /\ a + k \in 0 .. Len(q) /\ a + k <= Len(q)
    BY <1>0
  <2>2. Off(q, a) <= Off(q, a + k)
    BY <2>1
  <2>3. Off(q, a + (k + 1)) = Off(q, a + k) + Len(q[a + (k + 1)])
    BY <1>1, <2>1
  <2>4. Off(q, a) \in Nat /\ Off(q, a + k) \in Nat /\ Len(q[a + (k + 1)]) \in Nat
    BY <1>1, <2>1
  <2> QED BY <2>2, <2>3, <2>4
<1>4. A = Nat
  <2>1. A \in SUBSET Nat
    OBVIOUS
  <2> HIDE DEF A
  <2> QED BY <1>2, <1>3, <2>1, NatSetInduction
<1>5. b - a \in Nat /\ a + (b - a) = b /\ b <= Len(q)
  BY <1>0
<1>6. a + (b - a) <= Len(q) => Off(q, a) <= Off(q, a + (b - a))
  BY <1>4, <1>5
<1> QED BY <1>5, <1>6

(* The elements lie one behind the other.                                  *)
LEMMA ElementAt ==
    ASSUME NEW X, NEW q \in Seq(Seq(X)), NEW i \in 1 .. Len(q), NEW k \in 1 .. Len(q[i])
    PROVE  /\ Off(q, i - 1) + k \in 1 .. Len(FlattenSeq(q))
           /\ FlattenSeq(q)[Off(q, i - 1) + k] = q[i][k]
<1> DEFINE P == Partial(q)
           L == Len(q)
           x == Off(q, i - 1) + k
           A == {m \in Nat : i + m <= L => x <= Off(q, i + m) /\ P[i + m][x] = q[i][k]}
<1>0. L \in Nat /\ i \in 1 .. L /\ i - 1 \in 0 .. L /\ i \in 0 .. L
  OBVIOUS
<1>1. /\ P[0] = <<>> /\ \A n \in 0 .. L : P[n] \in Seq(X)
      /\ \A n \in 1 .. L : P[n] = P[n - 1] \o q[n]
      /\ FlattenSeq(q) = P[L]
  BY PartialExist, FlattenIs DEF Flattens
<1>2. \A n \in 0 .. L : Off(q, n) = Len(P[n]) /\ Off(q, n) \in Nat
  BY OffIs DEF Off
<1>3. \A n \in 1 .. L : Off(q, n) = Off(q, n - 1) + Len(q[n]) /\ q[n] \in Seq(X)
  BY OffIs
<1>4. x \in Nat /\ x > 0 /\ x <= Off(q, i) /\ x > Off(q, i - 1)
  <2>1. Off(q, i - 1) \in Nat /\ Off(q, i) = Off(q, i - 1) + Len(q[i]) /\ Len(q[i]) \in Nat
        /\ k \in Nat /\ k > 0 /\ k <= Len(q[i])
    BY <1>0, <1>2, <1>3
  <2> QED BY <2>1
<1> HIDE DEF P
<1>5. 0 \in A
  <2>1. P[i] = P[i - 1] \o q[i] /\ P[i - 1] \in Seq(X) /\ q[i] \in Seq(X)
    BY <1>0, <1>1, <1>3
  <2>2. Len(P[i - 1]) = Off(q, i - 1)
    BY <1>0, <1>2
  <2>3. (P[i - 1] \o q[i])[Len(P[i - 1]) + k] = q[i][k]
    <3> DEFINE c == P[i - 1]
               d == q[i]
    <3>1. c \in Seq(X) /\ d \in Seq(X) /\ k \in 1 .. Len(d)
      BY <2>1
    <3> HIDE DEF c, d
    <3>2. (c \o d)[Len(c) + k] = d[k]
      BY <3>1, CatIs
    <3> QED BY <3>2 DEF c, d
  <2>4. P[i][x] = q[i][k]
    BY <2>1, <2>2, <2>3
  <2>5. i + 0 = i
    BY <1>0
  <2> HIDE DEF x
  <2> QED BY <1>4, <2>4, <2>5
<1>6. ASSUME NEW m \in A PROVE m + 1 \in A
  <2> SUFFICES ASSUME i + (m + 1) <= L
               PROVE  x <= Off(q, i + (m + 1)) /\ P[i + (m + 1)][x] = q[i][k]
    OBVIOUS
  <2> DEFINE n == i + m
             y == n + 1
  <2>1. y = i + (m + 1) /\ y \in 1 .. L /\ y - 1 = n /\ n \in 0 .. L /\ n <= L /\ y \in 0 .. L
    BY <1>0
  <2>2. x <= Off(q, n) /\ P[n][x] = q[i][k]
    BY <2>1
  <2> HIDE DEF x, n, y
  <2>3. P[y] = P[n] \o q[y] /\ P[n] \in Seq(X) /\ q[y] \in Seq(X) /\ Len(P[n]) = Off(q, n)
    BY <1>1, <1>2, <1>3, <2>1
  <2>4. x \in 1 .. Len(P[n])
    BY <1>2, <1>4, <2>1, <2>2, <2>3
  <2>5. (P[n] \o q[y])[x] = P[n][x]
    BY <2>3, <2>4, CatIs
  <2>6. Off(q, n) <= Off(q, y) /\ Off(q, n) \in Nat /\ Off(q, y) \in Nat
    <3>1. Off(q, y) = Off(q, n) + Len(q[y]) /\ Off(q, n) \in Nat /\ Off(q, y) \in Nat
      BY <1>2, <1>3, <2>1
    <3>2. Len(q[y]) \in Nat
      BY <2>3
    <3> QED BY <3>1, <3>2
  <2>7. x <= Off(q, y)
    BY <1>4, <2>2, <2>6
  <2> QED BY <2>1, <2>2, <2>3, <2>5, <2>7
<1>7. A = Nat
  <2>1. A \in SUBSET Nat
    OBVIOUS
  <2> HIDE DEF A
  <2> QED BY <1>5, <1>6, <2>1, NatSetInduction
<1>8. L - i \in Nat /\ i + (L - i) = L /\ L <= L
  BY <1>0
<1>9. x <= Off(q, L) /\ P[L][x] = q[i][k]
  BY <1>7, <1>8
<1>10. Off(q, L) = Len(FlattenSeq(q)) /\ Off(q, L) \in Nat
  BY <1>0, OffIs
<1> QED BY <1>1, <1>4, <1>9, <1>10

(* What is not at the end is in an element.                                *)
LEMMA ElementOf ==
    ASSUME NEW X, NEW q \in Seq(Seq(X)), NEW n \in Nat, n < Len(FlattenSeq(q))
    PROVE  \E i \in 1 .. Len(q) : Off(q, i - 1) <= n /\ n < Off(q, i)
<1> DEFINE L == Len(q)
           A == {m \in Nat : m <= L => Off(q, m) <= n}
<1>0. L \in Nat /\ Off(q, L) = Len(FlattenSeq(q)) /\ Off(q, 0) = 0
      /\ \A m \in 0 .. L : Off(q, m) \in Nat
  BY OffIs
<1> SUFFICES ASSUME \A i \in 1 .. L : ~(Off(q, i - 1) <= n /\ n < Off(q, i)) PROVE FALSE
  OBVIOUS
<1>1. 0 \in A
  BY <1>0
<1>2. ASSUME NEW m \in A PROVE m + 1 \in A
  <2> SUFFICES ASSUME m + 1 <= L PROVE Off(q, m + 1) <= n
    OBVIOUS
  <2>1. m + 1 \in 1 .. L /\ (m + 1) - 1 = m /\ m <= L /\ m + 1 \in 0 .. L
    BY <1>0
  <2>2. Off(q, m) <= n
    BY <2>1
  <2> QED BY <1>0, <2>1, <2>2
<1>3. A = Nat
  <2>1. A \in SUBSET Nat
    OBVIOUS
  <2> HIDE DEF A
  <2> QED BY <1>1, <1>2, <2>1, NatSetInduction
<1>4. L \in A /\ L <= L
  BY <1>0, <1>3
<1>5. Off(q, L) <= n
  BY <1>4
<1> QED BY <1>0, <1>5

(***************************************************************************)
(* The tokens c lie in the tokens b, behind the first p of them.           *)
(***************************************************************************)
Lies(b, p, c) == /\ p + Len(c) <= Len(b)
                 /\ \A x \in 1 .. Len(c) : b[p + x] = c[x]

LEMMA LiesElement ==
    ASSUME NEW X, NEW q \in Seq(Seq(X)), NEW b \in Seq(X), NEW p \in Nat,
           Lies(b, p, FlattenSeq(q)), NEW i \in 1 .. Len(q)
    PROVE  Lies(b, p + Off(q, i - 1), q[i])
<1> DEFINE o == Off(q, i - 1)
           F == FlattenSeq(q)
<1>1. /\ o \in Nat /\ Off(q, i) = o + Len(q[i]) /\ Off(q, i) \in Nat /\ q[i] \in Seq(X)
      /\ F \in Seq(X) /\ Off(q, Len(q)) = Len(F)
  BY OffIs
<1>2. Off(q, i) <= Len(F)
  <2>1. i \in 0 .. Len(q) /\ Len(q) \in 0 .. Len(q) /\ i <= Len(q)
    OBVIOUS
  <2> QED BY <1>1, <2>1, OffGrows
<1>3. \A k \in 1 .. Len(q[i]) : o + k \in 1 .. Len(F) /\ F[o + k] = q[i][k]
  BY ElementAt
<1> HIDE DEF o, F
<1>4. Lies(b, p, F)
  BY DEF F
<1>5. p + o + Len(q[i]) <= Len(b)
  BY <1>1, <1>2, <1>4 DEF Lies
<1>6. ASSUME NEW x \in 1 .. Len(q[i]) PROVE b[p + o + x] = q[i][x]
  <2>1. o + x \in 1 .. Len(F) /\ F[o + x] = q[i][x] /\ p + o + x = p + (o + x)
    BY <1>1, <1>3
  <2> QED BY <1>4, <2>1 DEF Lies
<1> QED BY <1>5, <1>6 DEF Lies, o

LEMMA LiesParts ==
    ASSUME NEW X, NEW c \in Seq(X), NEW d \in Seq(X), NEW b \in Seq(X), NEW p \in Nat,
           Lies(b, p, c \o d)
    PROVE  Lies(b, p, c) /\ Lies(b, p + Len(c), d)
<1>1. Len(c \o d) = Len(c) + Len(d) /\ Len(c) \in Nat /\ Len(d) \in Nat
  OBVIOUS
<1>2. \A x \in 1 .. Len(c) : (c \o d)[x] = c[x]
  OBVIOUS
<1>3. \A x \in 1 .. Len(d) : (c \o d)[Len(c) + x] = d[x]
  OBVIOUS
<1>4. p + Len(c) <= Len(b) /\ p + Len(c) + Len(d) <= Len(b)
  BY <1>1 DEF Lies
<1>5. \A x \in 1 .. Len(c) : b[p + x] = c[x]
  BY <1>1, <1>2 DEF Lies
<1>6. ASSUME NEW x \in 1 .. Len(d) PROVE b[p + Len(c) + x] = d[x]
  <2>1. Len(c) + x \in 1 .. Len(c \o d) /\ p + (Len(c) + x) = p + Len(c) + x
    BY <1>1
  <2> QED BY <1>3, <2>1 DEF Lies
<1> QED BY <1>4, <1>5, <1>6 DEF Lies

(***************************************************************************)
(* Messages: S is a set of pairs of a message's id and its values that     *)
(* holds the sub-messages of each of its messages.                         *)
(***************************************************************************)
\* What an item of this type holds.
Holds(item, type, v, S) ==
  /\ type = BOOL => v \in {0, 1}
  /\ type \in {LONG, DOUBLE} => v \in Int
  /\ type = STRING_T => v \in Nat
  /\ type = MESSAGE => <<item, v>> \in S
  /\ type = SEQ_BOOL => v \in Seq({0, 1})
  /\ type \in {SEQ_LONG, SEQ_DOUBLE} => v \in Seq(Int)
  /\ type = SEQ_STRING => v \in Seq(Nat)
  /\ type = SEQ_MESSAGE => \E M : v \in Seq(M) /\ \A m \in M : <<item, m>> \in S

WellFormed(id, values, S) ==
  /\ id \in DOMAIN Dico
  /\ values = [i \in DOMAIN values |-> values[i]]
  /\ DOMAIN values \subseteq DOMAIN Dico[id]
  /\ \A i \in DOMAIN values : Holds(i, Dico[id][i], values[i], S)

Closed(S) == \A id, values : <<id, values>> \in S => WellFormed(id, values, S)

\* The values of a message of the dictionary, with all sub-messages.
WellTyped(id, values) == \E S : Closed(S) /\ <<id, values>> \in S

Frames(S) ==
  {f \in [id : DOMAIN Dico, from : Nat, end : Int, type : {MESSAGE, SEQ_MESSAGE},
          values : {e[2] : e \in S}] : <<f.id, f.values>> \in S}

(***************************************************************************)
(* The inductive invariant.                                                *)
(***************************************************************************)
TreeIn(S) == Closed(S) /\ open \in Seq(Frames(S)) /\ Len(open) >= 1

Tree == \E S : TreeIn(S)

\* Each open message is an item of the one before it.
Path == \A k \in 2 .. Len(open) :
          /\ open[k].id \in DOMAIN Dico[open[k - 1].id]
          /\ Dico[open[k - 1].id][open[k].id] = open[k].type

Buffered == \/ buffer = AnyBuffer /\ Root \in DOMAIN Tokens
            \/ buffer \in Seq(Int) /\ limit = Len(buffer)

Positions == /\ limit \in Nat /\ pos \in 0 .. limit
             /\ at \in {"tag", "sequence", "done", "threw"}

\* The packed sequence under way is one of the message on top.
Sequence ==
  at = "sequence" =>
    /\ todo \in [tag : Tags, type : {BOOL, LONG, DOUBLE}, elements : Seq(Int), from : Nat,
                count : Int, end : Int]
    /\ TagItem[todo.tag] \in DOMAIN Dico[Top.id]
    /\ Dico[Top.id][TagItem[todo.tag]] \in {SEQ_BOOL, SEQ_LONG, SEQ_DOUBLE}
    /\ todo.type = Basic(Dico[Top.id][TagItem[todo.tag]])
    /\ todo.type = BOOL => todo.elements \in Seq({0, 1})

\* All that was read is in front of p, or inside of what begins there.
Clear(p) == \A s \in spans : s.to <= p \/ p <= s.from

\* A message begins behind the beginning of those it is in.
Ordered(o) == \A k \in 1 .. Len(o) : \A i \in 1 .. k : o[i].from <= o[k].from

Placed ==
  /\ \A s \in spans : s.from \in Nat /\ s.to \in Nat /\ s.to <= pos
  /\ \A a, b \in spans : Apart(a, b)
  /\ \A i \in 1 .. Len(open) : open[i].from <= pos /\ Clear(open[i].from)
  /\ Ordered(open)
  /\ at = "sequence" => /\ todo.from \in Nat /\ todo.from <= pos
                        /\ \A i \in 1 .. Len(open) : open[i].from <= todo.from
                        /\ \A s \in spans : s.to <= todo.from

IInv == Tree /\ Path /\ Buffered /\ Positions /\ Sequence /\ Placed

(* What is in a larger set of messages.                                    *)
LEMMA HoldsGrows ==
    ASSUME NEW S, NEW T, S \subseteq T, NEW item, NEW type, NEW v, Holds(item, type, v, S)
    PROVE  Holds(item, type, v, T)
<1>1. ASSUME type = SEQ_MESSAGE
      PROVE  \E M : v \in Seq(M) /\ \A m \in M : <<item, m>> \in T
  <2>1. PICK M : v \in Seq(M) /\ \A m \in M : <<item, m>> \in S
    BY <1>1 DEF Holds
  <2> QED BY <2>1
<1>2. type = MESSAGE => <<item, v>> \in T
  BY DEF Holds
<1> QED BY <1>1, <1>2 DEF Holds

LEMMA FramesGrow ==
    ASSUME NEW S, NEW T, S \subseteq T
    PROVE  Frames(S) \subseteq Frames(T)
BY DEF Frames

(* A message without values, and a message with one value more.            *)
LEMMA EmptyCloses ==
    ASSUME NEW S, Closed(S), NEW id \in DOMAIN Dico
    PROVE  Closed(S \cup {<<id, NoValues>>})
<1> DEFINE T == S \cup {<<id, NoValues>>}
<1> SUFFICES ASSUME NEW i, NEW m, <<i, m>> \in T PROVE WellFormed(i, m, T)
  BY DEF Closed
<1>1. CASE <<i, m>> \in S
  <2>1. WellFormed(i, m, S)
    BY <1>1 DEF Closed
  <2>2. \A j \in DOMAIN m : Holds(j, Dico[i][j], m[j], T)
    BY <2>1, HoldsGrows DEF WellFormed
  <2> QED BY <2>1, <2>2 DEF WellFormed
<1>2. CASE i = id /\ m = NoValues
  BY <1>2 DEF WellFormed, NoValues
<1> QED BY <1>1, <1>2

LEMMA PutCloses ==
    ASSUME NEW S, Closed(S), NEW id, NEW values, <<id, values>> \in S,
           NEW item \in DOMAIN Dico[id], NEW v, Holds(item, Dico[id][item], v, S)
    PROVE  Closed(S \cup {<<id, Put(values, item, v)>>})
<1> DEFINE p == Put(values, item, v)
           T == S \cup {<<id, p>>}
<1> SUFFICES ASSUME NEW i, NEW m, <<i, m>> \in T PROVE WellFormed(i, m, T)
  BY DEF Closed
<1>0. WellFormed(id, values, S)
  BY DEF Closed
<1>1. CASE <<i, m>> \in S
  <2>1. WellFormed(i, m, S)
    BY <1>1 DEF Closed
  <2>2. \A j \in DOMAIN m : Holds(j, Dico[i][j], m[j], T)
    BY <2>1, HoldsGrows DEF WellFormed
  <2> QED BY <2>1, <2>2 DEF WellFormed
<1>2. CASE i = id /\ m = p
  <2>1. /\ p = [x \in DOMAIN values \cup {item} |-> IF x = item THEN v ELSE values[x]]
        /\ DOMAIN p = DOMAIN values \cup {item}
    BY DEF Put
  <2>2. p = [x \in DOMAIN p |-> p[x]]
    BY <2>1
  <2>3. DOMAIN p \subseteq DOMAIN Dico[id]
    BY <1>0, <2>1 DEF WellFormed
  <2>4. ASSUME NEW j \in DOMAIN p PROVE Holds(j, Dico[id][j], p[j], T)
    <3>1. CASE j = item
      <4>1. p[j] = v
        BY <2>1, <3>1
      <4> QED BY <4>1, <3>1, HoldsGrows
    <3>2. CASE j # item
      <4>1. p[j] = values[j] /\ j \in DOMAIN values
        BY <2>1, <3>2
      <4>2. Holds(j, Dico[id][j], values[j], S)
        BY <4>1, <1>0 DEF WellFormed
      <4> QED BY <4>1, <4>2, HoldsGrows
    <3> QED BY <3>1, <3>2
  <2>5. id \in DOMAIN Dico
    BY <1>0 DEF WellFormed
  <2> HIDE DEF p, T
  <2> QED BY <1>2, <2>2, <2>3, <2>4, <2>5 DEF WellFormed
<1> QED BY <1>1, <1>2

(***************************************************************************)
(* The stack of open messages.                                             *)
(***************************************************************************)
\* The same with other values in the message on top.
TopTo(o, v) == [o EXCEPT ![Len(o)].values = v]

\* The same messages at the same places.
SamePlaces(o, p) ==
  /\ Len(p) = Len(o)
  /\ \A i \in 1 .. Len(o) : /\ p[i].id = o[i].id /\ p[i].from = o[i].from
                            /\ p[i].end = o[i].end /\ p[i].type = o[i].type

LEMMA TopToKeeps ==
    ASSUME NEW S, NEW T, S \subseteq T, NEW o \in Seq(Frames(S)), Len(o) >= 1,
           NEW v, <<o[Len(o)].id, v>> \in T
    PROVE  TopTo(o, v) \in Seq(Frames(T)) /\ SamePlaces(o, TopTo(o, v))
<1> DEFINE n == Len(o)
           f == [o[n] EXCEPT !.values = v]
<1>1. n \in Nat /\ n \in 1 .. n /\ o = [i \in 1 .. n |-> o[i]]
      /\ \A i \in 1 .. n : o[i] \in Frames(S)
  OBVIOUS
<1>2. o[n] \in Frames(S)
  BY <1>1
<1>3. f \in Frames(T) /\ f.id = o[n].id /\ f.from = o[n].from /\ f.end = o[n].end
      /\ f.type = o[n].type
  <2>1. v \in {e[2] : e \in T}
    <3>1. <<o[n].id, v>>[2] = v
      OBVIOUS
    <3> QED BY <3>1
  <2>2. o[n] \in [id : DOMAIN Dico, from : Nat, end : Int, type : {MESSAGE, SEQ_MESSAGE},
                 values : {e[2] : e \in S}]
    BY <1>2 DEF Frames
  <2>3. f \in [id : DOMAIN Dico, from : Nat, end : Int, type : {MESSAGE, SEQ_MESSAGE},
               values : {e[2] : e \in T}]
    BY <2>1, <2>2
  <2>4. f.id = o[n].id /\ f.from = o[n].from /\ f.end = o[n].end /\ f.type = o[n].type
        /\ f.values = v
    BY <2>2
  <2>5. <<f.id, f.values>> \in T
    BY <2>4
  <2> HIDE DEF f
  <2> QED BY <2>3, <2>4, <2>5 DEF Frames
<1>4. TopTo(o, v) = [o EXCEPT ![n] = f]
  BY DEF TopTo
<1>5. \A i \in 1 .. n : o[i] \in Frames(T)
  BY <1>1, FramesGrow
<1> HIDE DEF f, n
<1>6. DOMAIN o = 1 .. n
  BY <1>1
<1>7. [o EXCEPT ![n] = f] = [i \in 1 .. n |-> IF i = n THEN f ELSE o[i]]
  BY <1>6
<1>8. /\ TopTo(o, v) \in Seq(Frames(T)) /\ Len(TopTo(o, v)) = n
      /\ \A i \in 1 .. n : TopTo(o, v)[i] = IF i = n THEN f ELSE o[i]
  <2> DEFINE g == [i \in 1 .. n |-> IF i = n THEN f ELSE o[i]]
  <2>1. \A i \in 1 .. n : g[i] \in Frames(T)
    BY <1>3, <1>5
  <2>2. g \in Seq(Frames(T)) /\ Len(g) = n
    BY <1>1, <2>1
  <2> QED BY <1>4, <1>7, <2>2
<1> QED BY <1>8, <1>3 DEF SamePlaces, n

LEMMA StoredIsTopTo ==
    ASSUME NEW t, NEW v
    PROVE  Stored(t, v) = TopTo(open, Put(Top.values, TagItem[t], v))
BY DEF Stored, TopTo, Top

(***************************************************************************)
(* What is read from the buffer.                                           *)
(***************************************************************************)
LEMMA VarintSizeIs == \A v : VarintSize(v) \in {1, 2}
BY DEF VarintSize

LEMMA AtIs ==
    ASSUME Buffered, Positions, NEW p \in Nat, NEW v \in At(p)
    PROVE  v \in Int /\ p < limit
<1>1. p < limit
  BY DEF At, Positions
<1>2. CASE buffer = AnyBuffer
  <2>1. Root \in DOMAIN Tokens
    BY <1>2, WireAssumption DEF Buffered
  <2> QED BY <1>1, <1>2, <2>1, WireAssumption DEF At, Positions
<1>3. CASE buffer # AnyBuffer
  BY <1>1, <1>3 DEF Buffered, At, Positions
<1> QED BY <1>2, <1>3

LEMMA VarintsAre ==
    ASSUME Buffered, Positions, NEW p \in Nat, NEW r \in Varints(p)
    PROVE  r.value \in Int /\ r.next \in Nat /\ r.next > p
<1>1. PICK v \in At(p) : r = [value |-> v, next |-> p + VarintSize(v)]
  BY DEF Varints
<1> QED BY <1>1, AtIs, VarintSizeIs

(* A tag that is of an item.                                               *)
LEMMA ItemIs ==
    ASSUME NEW t, NEW type, Item(t, type)
    PROVE  /\ at = "tag" /\ t \in Tags /\ TagItem[t] \in DOMAIN Dico[Top.id]
           /\ Dico[Top.id][TagItem[t]] = type
BY DEF Item, Tag

LEMMA TopIs ==
    ASSUME NEW S, TreeIn(S)
    PROVE  /\ Top \in Frames(S) /\ <<Top.id, Top.values>> \in S /\ Len(open) \in Nat
           /\ Top.id \in DOMAIN Dico /\ WellFormed(Top.id, Top.values, S)
<1>1. Top \in Frames(S) /\ Len(open) \in Nat
  BY DEF TreeIn, Top
<1>2. <<Top.id, Top.values>> \in S /\ Top.id \in DOMAIN Dico
  BY <1>1 DEF Frames
<1> QED BY <1>1, <1>2 DEF TreeIn, Closed

LEMMA SomeAreOpen == Tree => Len(open) \in Nat /\ Len(open) >= 1
BY DEF Tree, TreeIn

LEMMA FromsAre ==
    ASSUME Tree, NEW i \in 1 .. Len(open)
    PROVE  open[i].from \in Nat
<1>1. PICK S : TreeIn(S)
  BY DEF Tree
<1>2. open[i] \in Frames(S)
  BY <1>1 DEF TreeIn
<1> QED BY <1>2 DEF Frames

(***************************************************************************)
(* The steps.                                                              *)
(***************************************************************************)
LEMMA ThrowKeeps ==
    ASSUME IInv, Throw
    PROVE  IInv'
<1> USE DEF Throw, Same
<1>1. Tree'
  BY DEF IInv, Tree, TreeIn
<1>2. Path'
  BY DEF IInv, Path
<1>3. Buffered'
  BY DEF IInv, Buffered, Root
<1>4. Positions' /\ Sequence'
  BY DEF IInv, Positions, Sequence
<1>5. Placed'
  BY DEF IInv, Placed, Clear
<1> QED BY <1>1, <1>2, <1>3, <1>4, <1>5 DEF IInv

LEMMA SamePlacesOrdered ==
    ASSUME NEW o, NEW p, SamePlaces(o, p), Ordered(o), Len(o) \in Nat
    PROVE  Ordered(p)
BY DEF SamePlaces, Ordered

(* A span that begins where all before it ended.                           *)
LEMMA ReadPlaced ==
    ASSUME IInv, at = "tag", NEW to \in Nat, pos <= to, Read(to), SamePlaces(open, open'),
           at' = at
    PROVE  Placed'
<1> DEFINE new == [from |-> pos, to |-> to]
<1>1. spans' = spans \cup {new} /\ pos' = to /\ pos \in Nat
  BY DEF Read, IInv, Positions
<1>2. \A s \in spans : s.from \in Nat /\ s.to \in Nat /\ s.to <= pos
  BY DEF IInv, Placed
<1>3. \A s \in spans' : s.from \in Nat /\ s.to \in Nat /\ s.to <= pos'
  BY <1>1, <1>2
<1>4. \A a, b \in spans' : Apart(a, b)
  <2>1. \A s \in spans : Apart(s, new) /\ Apart(new, s)
    BY <1>1, <1>2 DEF Apart
  <2>2. Apart(new, new)
    BY <1>1 DEF Apart
  <2>3. \A a, b \in spans : Apart(a, b)
    BY DEF IInv, Placed
  <2> QED BY <1>1, <2>1, <2>2, <2>3
<1>5. ASSUME NEW i \in 1 .. Len(open)' 
      PROVE  (open[i].from <= pos /\ Clear(open[i].from))'
  <2>1. i \in 1 .. Len(open) /\ open'[i].from = open[i].from
    BY DEF SamePlaces
  <2>2. open[i].from <= pos /\ Clear(open[i].from)
    BY <2>1 DEF IInv, Placed
  <2>3. open[i].from \in Nat
    BY <2>1, FromsAre DEF IInv
  <2> QED BY <1>1, <2>1, <2>2, <2>3 DEF Clear
<1>6. Ordered(open')
  <2>1. Len(open) \in Nat
    BY SomeAreOpen DEF IInv
  <2> QED BY <2>1, SamePlacesOrdered DEF IInv, Placed
<1> QED BY <1>3, <1>4, <1>5, <1>6 DEF Placed

(* Between two tags only the positions and the values change.              *)
LEMMA TagKeeps ==
    ASSUME IInv, Same, Tree', SamePlaces(open, open'), at' = "tag", pos' \in 0 .. limit,
           Placed'
    PROVE  IInv'
<1>1. Len(open) \in Nat /\ Len(open) >= 1
  BY SomeAreOpen DEF IInv
<1>2. Path'
  <2> SUFFICES ASSUME NEW k \in 2 .. Len(open)
               PROVE  /\ open'[k].id \in DOMAIN Dico[open'[k - 1].id]
                      /\ Dico[open'[k - 1].id][open'[k].id] = open'[k].type
    BY DEF Path, SamePlaces
  <2>1. k \in 1 .. Len(open) /\ k - 1 \in 1 .. Len(open)
    BY <1>1
  <2> QED BY <2>1 DEF IInv, Path, SamePlaces
<1>3. Buffered'
  <2>1. Root' = Root
    BY <1>1 DEF Root, SamePlaces
  <2> QED BY <2>1 DEF Same, IInv, Buffered
<1>4. Positions' /\ Sequence'
  BY DEF Same, IInv, Positions, Sequence
<1> QED BY <1>2, <1>3, <1>4 DEF IInv

LEMMA SameIsSamePlaces == open' = open => SamePlaces(open, open')
BY DEF SamePlaces

(* A value of the right type is stored in the message on top.              *)
LEMMA PutKeepsTree ==
    ASSUME NEW S, TreeIn(S), NEW i \in DOMAIN Dico[Top.id], NEW v,
           Holds(i, Dico[Top.id][i], v, S), open' = TopTo(open, Put(Top.values, i, v))
    PROVE  Tree' /\ SamePlaces(open, open')
<1> DEFINE p == Put(Top.values, i, v)
           T == S \cup {<<Top.id, p>>}
<1>1. Closed(T)
  <2>1. Closed(S) /\ <<Top.id, Top.values>> \in S
    BY TopIs DEF TreeIn
  <2> QED BY <2>1, PutCloses
<1>2. open' \in Seq(Frames(T)) /\ SamePlaces(open, open')
  <2>1. open \in Seq(Frames(S)) /\ Len(open) >= 1
    BY DEF TreeIn
  <2>2. <<open[Len(open)].id, p>> \in T /\ S \subseteq T
    BY DEF Top
  <2> HIDE DEF p, T
  <2> QED BY <2>1, <2>2, TopToKeeps DEF p
<1>3. Len(open') >= 1
  BY <1>2 DEF TreeIn, SamePlaces
<1> HIDE DEF T
<1> QED BY <1>1, <1>2, <1>3 DEF Tree, TreeIn

LEMMA ItemReadKeeps ==
    ASSUME IInv, at = "tag", NEW S, TreeIn(S), NEW i \in DOMAIN Dico[Top.id], NEW v,
           Holds(i, Dico[Top.id][i], v, S), open' = TopTo(open, Put(Top.values, i, v)),
           NEW to \in Nat, pos <= to, to <= limit, Read(to), Same, UNCHANGED <<at, todo>>
    PROVE  IInv'
<1>1. Tree' /\ SamePlaces(open, open')
  BY PutKeepsTree
<1>2. Placed'
  BY <1>1, ReadPlaced
<1>3. pos' \in 0 .. limit /\ at' = "tag"
  BY DEF Read, IInv, Positions
<1> QED BY <1>1, <1>2, <1>3, TagKeeps

(* The items of one value.                                                 *)
LEMMA InsertKeeps ==
    ASSUME IInv, NEW t, NEW type, Item(t, type), NEW v, \A S : Holds(TagItem[t], type, v, S),
           NEW to \in Nat, pos <= to, to <= limit, Insert(t, v, to)
    PROVE  IInv'
<1>1. CASE Fresh(t)
  <2>1. PICK S : TreeIn(S)
    BY DEF IInv, Tree
  <2>2. /\ open' = TopTo(open, Put(Top.values, TagItem[t], v))
        /\ Read(to) /\ Same /\ UNCHANGED <<at, todo>>
    BY <1>1, StoredIsTopTo DEF Insert
  <2>3. /\ at = "tag" /\ TagItem[t] \in DOMAIN Dico[Top.id]
        /\ Holds(TagItem[t], Dico[Top.id][TagItem[t]], v, S)
    BY ItemIs
  <2> QED BY <2>1, <2>2, <2>3, ItemReadKeeps
<1>2. CASE ~Fresh(t)
  BY <1>2, ThrowKeeps DEF Insert
<1> QED BY <1>1, <1>2

LEMMA DecodeBoolKeeps ==
    ASSUME IInv, NEW t, DecodeBool(t)
    PROVE  IInv'
<1>1. CASE Throw
  BY <1>1, ThrowKeeps
<1>2. ASSUME NEW r \in Varints(pos + 1), r.next <= limit,
             Insert(t, IF r.value = 0 THEN 0 ELSE 1, r.next)
      PROVE  IInv'
  <2>1. r.next \in Nat /\ pos <= r.next
    BY VarintsAre DEF IInv, Positions
  <2>2. \A S : Holds(TagItem[t], BOOL, IF r.value = 0 THEN 0 ELSE 1, S)
    BY DEF Holds, BOOL, LONG, DOUBLE, STRING_T, MESSAGE, SEQ_BOOL, SEQ_LONG, SEQ_DOUBLE, SEQ_STRING, SEQ_MESSAGE
  <2> QED BY <1>2, <2>1, <2>2, InsertKeeps DEF DecodeBool
<1> QED BY <1>1, <1>2 DEF DecodeBool

LEMMA DecodeLongKeeps ==
    ASSUME IInv, NEW t, DecodeLong(t)
    PROVE  IInv'
<1>1. CASE Throw
  BY <1>1, ThrowKeeps
<1>2. ASSUME NEW r \in Varints(pos + 1), r.next <= limit, Insert(t, r.value, r.next)
      PROVE  IInv'
  <2>1. r.value \in Int /\ r.next \in Nat /\ pos <= r.next
    BY VarintsAre DEF IInv, Positions
  <2>2. \A S : Holds(TagItem[t], LONG, r.value, S)
    BY <2>1 DEF Holds, BOOL, LONG, DOUBLE, STRING_T, MESSAGE, SEQ_BOOL, SEQ_LONG, SEQ_DOUBLE, SEQ_STRING, SEQ_MESSAGE
  <2> QED BY <1>2, <2>1, <2>2, InsertKeeps DEF DecodeLong
<1> QED BY <1>1, <1>2 DEF DecodeLong

LEMMA DecodeDoubleKeeps ==
    ASSUME IInv, NEW t, DecodeDouble(t)
    PROVE  IInv'
<1>1. CASE Throw
  BY <1>1, ThrowKeeps
<1>2. ASSUME NEW v \in At(pos + 1), pos + 1 + DoubleSize <= limit,
             Insert(t, v, pos + 1 + DoubleSize)
      PROVE  IInv'
  <2>1. v \in Int /\ pos + 1 + DoubleSize \in Nat /\ pos <= pos + 1 + DoubleSize
    BY AtIs, TagAssumption DEF IInv, Positions
  <2>2. \A S : Holds(TagItem[t], DOUBLE, v, S)
    BY <2>1 DEF Holds, BOOL, LONG, DOUBLE, STRING_T, MESSAGE, SEQ_BOOL, SEQ_LONG, SEQ_DOUBLE, SEQ_STRING, SEQ_MESSAGE
  <2> QED BY <1>2, <2>1, <2>2, InsertKeeps DEF DecodeDouble
<1> QED BY <1>1, <1>2 DEF DecodeDouble

LEMMA DecodeStrKeeps ==
    ASSUME IInv, NEW t, DecodeStr(t)
    PROVE  IInv'
<1>1. CASE Throw
  BY <1>1, ThrowKeeps
<1>2. ASSUME NEW r \in Varints(pos + 1), Fits(r), Insert(t, r.value, r.next + r.value)
      PROVE  IInv'
  <2>1. r.value \in Nat /\ r.next + r.value \in Nat /\ pos <= r.next + r.value
        /\ r.next + r.value <= limit
    BY <1>2, VarintsAre DEF IInv, Positions, Fits
  <2>2. \A S : Holds(TagItem[t], STRING_T, r.value, S)
    BY <2>1 DEF Holds, BOOL, LONG, DOUBLE, STRING_T, MESSAGE, SEQ_BOOL, SEQ_LONG, SEQ_DOUBLE, SEQ_STRING, SEQ_MESSAGE
  <2> QED BY <1>2, <2>1, <2>2, InsertKeeps DEF DecodeStr
<1> QED BY <1>1, <1>2 DEF DecodeStr

LEMMA DecodeSeqStrKeeps ==
    ASSUME IInv, NEW t, DecodeSeqStr(t)
    PROVE  IInv'
<1>1. CASE Throw
  BY <1>1, ThrowKeeps
<1> DEFINE w(r) == IF Fresh(t) THEN <<r.value>> ELSE Append(Top.values[TagItem[t]], r.value)
<1>2. ASSUME NEW r \in Varints(pos + 1), Fits(r), open' = Stored(t, w(r)),
             Read(r.next + r.value), Same, UNCHANGED <<at, todo>>
      PROVE  IInv'
  <2>1. r.value \in Nat /\ r.next + r.value \in Nat /\ pos <= r.next + r.value
        /\ r.next + r.value <= limit
    BY <1>2, VarintsAre DEF IInv, Positions, Fits
  <2>2. PICK S : TreeIn(S)
    BY DEF IInv, Tree
  <2>3. /\ at = "tag" /\ TagItem[t] \in DOMAIN Dico[Top.id]
        /\ Dico[Top.id][TagItem[t]] = SEQ_STRING
    BY ItemIs DEF DecodeSeqStr
  <2>4. ~Fresh(t) => Top.values[TagItem[t]] \in Seq(Nat)
    BY <2>2, <2>3, TopIs DEF Fresh, WellFormed, Holds
  <2>5. w(r) \in Seq(Nat)
    BY <2>1, <2>4
  <2>6. Holds(TagItem[t], Dico[Top.id][TagItem[t]], w(r), S)
    BY <2>3, <2>5 DEF Holds, BOOL, LONG, DOUBLE, STRING_T, MESSAGE, SEQ_BOOL, SEQ_LONG, SEQ_DOUBLE, SEQ_STRING, SEQ_MESSAGE
  <2>7. open' = TopTo(open, Put(Top.values, TagItem[t], w(r)))
    BY <1>2, StoredIsTopTo
  <2> HIDE DEF w
  <2> QED BY <1>2, <2>1, <2>2, <2>3, <2>6, <2>7, ItemReadKeeps
<1> QED BY <1>1, <1>2 DEF DecodeSeqStr

LEMMA DecodeOtherKeeps ==
    ASSUME IInv, NEW t, DecodeOther(t)
    PROVE  IInv'
<1>1. CASE Throw
  BY <1>1, ThrowKeeps
<1>2. ASSUME NEW r \in Varints(pos + 1), Fits(r), Read(r.next + r.value), Same,
             UNCHANGED <<open, at, todo>>
      PROVE  IInv'
  <2>1. r.next + r.value \in Nat /\ pos <= r.next + r.value /\ r.next + r.value <= limit
    BY <1>2, VarintsAre DEF IInv, Positions, Fits
  <2>2. at = "tag"
    BY DEF DecodeOther, Tag
  <2>3. SamePlaces(open, open') /\ Tree'
    BY <1>2, SameIsSamePlaces DEF IInv, Tree, TreeIn
  <2>4. Placed'
    BY <1>2, <2>1, <2>2, <2>3, ReadPlaced
  <2>5. pos' \in 0 .. limit /\ at' = "tag"
    BY <1>2, <2>1, <2>2 DEF Read
  <2> QED BY <1>2, <2>3, <2>4, <2>5, TagKeeps
<1> QED BY <1>1, <1>2 DEF DecodeOther

(* The end of the input.                                                   *)
LEMMA EndOfInputKeeps ==
    ASSUME IInv, EndOfInput
    PROVE  IInv'
<1>1. pos' \in Nat /\ pos <= pos' /\ pos' <= limit
  <2>1. CASE UNCHANGED pos
    BY <2>1 DEF IInv, Positions
  <2>2. CASE 0 \in At(pos) /\ pos' = pos + 1
    BY <2>2, AtIs DEF IInv, Positions
  <2> QED BY <2>1, <2>2 DEF EndOfInput
<1>2. UNCHANGED <<buffer, limit, open, todo, spans>> /\ at' \in {"threw", "done"}
  BY DEF EndOfInput, Same
<1>3. Tree' /\ Path' /\ Buffered'
  BY <1>2 DEF IInv, Tree, TreeIn, Path, Buffered, Root
<1>4. Positions' /\ Sequence'
  BY <1>1, <1>2 DEF IInv, Positions, Sequence
<1>5. Placed'
  <2>1. /\ \A s \in spans : s.from \in Nat /\ s.to \in Nat /\ s.to <= pos'
        /\ \A a, b \in spans : Apart(a, b)
    BY <1>1 DEF IInv, Placed, Positions
  <2>2. \A i \in 1 .. Len(open) : open[i].from <= pos' /\ Clear(open[i].from)
    BY <1>1, FromsAre DEF IInv, Placed, Positions
  <2> QED BY <1>2, <2>1, <2>2 DEF IInv, Placed, Clear
<1> QED BY <1>3, <1>4, <1>5 DEF IInv

(***************************************************************************)
(* Packed sequences.                                                       *)
(***************************************************************************)
\* A sequence is decoded further, from where it began.
LEMMA SequencePlaced ==
    ASSUME IInv, NEW p \in Nat, pos <= p, pos' = p, UNCHANGED <<open, spans>>,
           todo'.from \in Nat, todo'.from <= pos,
           \A s \in spans : s.to <= todo'.from,
           \A i \in 1 .. Len(open) : open[i].from <= todo'.from
    PROVE  Placed'
<1>1. /\ \A s \in spans : s.from \in Nat /\ s.to \in Nat /\ s.to <= p
      /\ \A a, b \in spans : Apart(a, b)
  BY DEF IInv, Placed, Positions
<1>2. \A i \in 1 .. Len(open) : open[i].from <= p /\ Clear(open[i].from)
  BY FromsAre DEF IInv, Placed, Positions
<1>3. todo'.from <= p
  BY DEF IInv, Positions
<1> QED BY <1>1, <1>2, <1>3 DEF IInv, Placed, Clear

LEMMA EighthIs == \A n \in Int : Eighth(n) \in Int
BY TagAssumption DEF Eighth

(* What is read of a packed sequence begins at its tag.                    *)
LEMMA OpenSequenceKeeps ==
    ASSUME IInv, NEW t, OpenSequence(t)
    PROVE  IInv'
<1>1. CASE Throw
  BY <1>1, ThrowKeeps
<1>2. ASSUME NEW type \in {SEQ_BOOL, SEQ_LONG, SEQ_DOUBLE}, Item(t, type),
             NEW r \in Varints(pos + 1), r.next <= limit,
             todo' = [tag |-> t, type |-> Basic(type), elements |-> <<>>, from |-> pos,
                      count |-> IF type = SEQ_BOOL THEN r.value ELSE Eighth(r.value),
                      end |-> r.next + r.value],
             at' = "sequence", pos' = r.next, Same, UNCHANGED <<open, spans>>
      PROVE  IInv'
  <2>1. r.value \in Int /\ r.next \in Nat /\ pos <= r.next /\ pos \in Nat
    BY VarintsAre DEF IInv, Positions
  <2>2. /\ at = "tag" /\ t \in Tags /\ TagItem[t] \in DOMAIN Dico[Top.id]
        /\ Dico[Top.id][TagItem[t]] = type
    BY <1>2, ItemIs
  <2>3. Tree' /\ Path' /\ Buffered'
    BY <1>2 DEF IInv, Tree, TreeIn, Path, Buffered, Root, Same
  <2>4. Positions'
    BY <1>2, <2>1 DEF Positions, Same, IInv
  <2>5. Sequence'
    <3>1. (IF type = SEQ_BOOL THEN r.value ELSE Eighth(r.value)) \in Int
      BY <2>1, EighthIs
    <3>2. Basic(type) \in {BOOL, LONG, DOUBLE}
      BY DEF Basic, Repeated, SEQ_DELTA, BOOL, LONG, DOUBLE, MESSAGE, SEQ_BOOL, SEQ_LONG, SEQ_DOUBLE
    <3>3. todo' \in [tag : Tags, type : {BOOL, LONG, DOUBLE}, elements : Seq(Int), from : Nat,
                     count : Int, end : Int]
      BY <1>2, <2>1, <2>2, <3>1, <3>2
    <3>4. todo'.tag = t /\ todo'.type = Basic(type) /\ todo'.elements = <<>>
      BY <1>2
    <3>5. Top' = Top
      BY <1>2 DEF Top
    <3> QED BY <2>2, <3>3, <3>4, <3>5 DEF Sequence
  <2>6. Placed'
    <3>1. todo'.from = pos
      BY <1>2
    <3>2. /\ \A s \in spans : s.to <= todo'.from
          /\ \A i \in 1 .. Len(open) : open[i].from <= todo'.from
      BY <3>1 DEF IInv, Placed
    <3> QED BY <1>2, <2>1, <3>1, <3>2, SequencePlaced
  <2> QED BY <2>3, <2>4, <2>5, <2>6 DEF IInv
<1> QED BY <1>1, <1>2 DEF OpenSequence

LEMMA ReadElementKeeps ==
    ASSUME IInv, ReadElement
    PROVE  IInv'
<1>1. CASE Throw
  BY <1>1, ThrowKeeps
<1> DEFINE size(v) == CASE todo.type = DOUBLE -> DoubleSize [] OTHER -> VarintSize(v)
           e(v)    == IF todo.type # BOOL \/ v = 0 THEN v ELSE 1
<1>2. ASSUME NEW v \in At(pos), pos + size(v) <= limit,
             todo' = [todo EXCEPT !.count = @ - 1, !.elements = Append(@, e(v))],
             pos' = pos + size(v), Same, UNCHANGED <<open, at, spans>>
      PROVE  IInv'
  <2>1. v \in Int /\ size(v) \in Nat /\ pos \in Nat /\ limit \in Nat
    BY AtIs, VarintSizeIs, TagAssumption DEF IInv, Positions
  <2>2. pos + size(v) \in Nat /\ pos <= pos + size(v)
    BY <2>1
  <2>3. at = "sequence"
    BY DEF ReadElement
  <2>4. Tree' /\ Path' /\ Buffered'
    BY <1>2 DEF IInv, Tree, TreeIn, Path, Buffered, Root, Same
  <2>5. Positions'
    BY <1>2, <2>1, <2>2 DEF Positions, Same, IInv
  <2>6. /\ todo \in [tag : Tags, type : {BOOL, LONG, DOUBLE}, elements : Seq(Int), from : Nat,
                   count : Int, end : Int]
        /\ todo.type = BOOL => todo.elements \in Seq({0, 1})
    BY <2>3 DEF IInv, Sequence
  <2>7. e(v) \in Int /\ (todo.type = BOOL => e(v) \in {0, 1})
    BY <2>1
  <2> HIDE DEF e, size
  <2>8. /\ todo' \in [tag : Tags, type : {BOOL, LONG, DOUBLE}, elements : Seq(Int), from : Nat,
                    count : Int, end : Int]
        /\ todo'.tag = todo.tag /\ todo'.type = todo.type /\ todo'.from = todo.from
        /\ todo'.elements = Append(todo.elements, e(v))
    <3> DEFINE c == todo.count - 1
               w == Append(todo.elements, e(v))
    <3>1. todo' = [todo EXCEPT !.count = c, !.elements = w]
      BY <1>2
    <3>2. c \in Int /\ w \in Seq(Int)
      BY <2>6, <2>7
    <3> HIDE DEF c, w
    <3>3. /\ todo' \in [tag : Tags, type : {BOOL, LONG, DOUBLE}, elements : Seq(Int),
                       from : Nat, count : Int, end : Int]
          /\ todo'.tag = todo.tag /\ todo'.type = todo.type /\ todo'.from = todo.from
          /\ todo'.elements = w
      BY <2>6, <3>1, <3>2
    <3> QED BY <3>3 DEF w
  <2>9. todo'.type = BOOL => todo'.elements \in Seq({0, 1})
    BY <2>6, <2>7, <2>8
  <2>10. Sequence'
    <3>1. Top' = Top
      BY <1>2 DEF Top
    <3> QED BY <2>3, <2>8, <2>9, <3>1 DEF IInv, Sequence
  <2>11. Placed'
    <3>1. /\ todo.from \in Nat /\ todo.from <= pos
          /\ \A i \in 1 .. Len(open) : open[i].from <= todo.from
          /\ \A s \in spans : s.to <= todo.from
      BY <2>3 DEF IInv, Placed
    <3> QED BY <1>2, <2>2, <2>8, <3>1, SequencePlaced
  <2> QED BY <2>4, <2>5, <2>10, <2>11 DEF IInv
<1>3. CASE At(pos) = {}
  BY <1>1, <1>3 DEF ReadElement
<1>4. CASE At(pos) # {}
  <2>1. PICK v \in At(pos) :
          IF pos + size(v) > limit THEN Throw
          ELSE /\ todo' = [todo EXCEPT !.count = @ - 1, !.elements = Append(@, e(v))]
               /\ pos' = pos + size(v)
               /\ Same /\ UNCHANGED <<open, at, spans>>
    BY <1>4 DEF ReadElement
  <2>2. pos + size(v) > limit \/ pos + size(v) <= limit
    BY AtIs, VarintSizeIs, TagAssumption DEF IInv, Positions
  <2> HIDE DEF e, size
  <2> QED BY <1>1, <1>2, <2>1, <2>2
<1> QED BY <1>3, <1>4

(* The span of a message or sequence that ends here.                       *)
LEMMA ClosePlaced ==
    ASSUME IInv, NEW p \in Nat, p <= pos, Clear(p), UNCHANGED pos, at' = "tag",
           spans' = spans \cup {[from |-> p, to |-> pos]},
           Len(open') \in 0 .. Len(open),
           \A i \in 1 .. Len(open') : open'[i].from = open[i].from /\ open[i].from <= p
    PROVE  Placed'
<1> DEFINE new == [from |-> p, to |-> pos]
<1>0. pos \in Nat
  BY DEF IInv, Positions
<1>1. \A s \in spans : s.from \in Nat /\ s.to \in Nat /\ s.to <= pos
  BY DEF IInv, Placed
<1>2. \A s \in spans' : s.from \in Nat /\ s.to \in Nat /\ s.to <= pos'
  BY <1>0, <1>1
<1>3. \A a, b \in spans' : Apart(a, b)
  <2>1. \A s \in spans : Apart(s, new) /\ Apart(new, s)
    BY <1>0, <1>1 DEF Apart, Clear
  <2>2. Apart(new, new)
    BY <1>0 DEF Apart
  <2>3. \A a, b \in spans : Apart(a, b)
    BY DEF IInv, Placed
  <2> QED BY <2>1, <2>2, <2>3
<1>4. ASSUME NEW i \in 1 .. Len(open)'
      PROVE  (open[i].from <= pos /\ Clear(open[i].from))'
  <2>1. i \in 1 .. Len(open) /\ open'[i].from = open[i].from /\ open[i].from <= p
    <3>1. Len(open) \in Nat
      BY SomeAreOpen DEF IInv
    <3> QED BY <3>1
  <2>2. open[i].from <= pos /\ Clear(open[i].from) /\ open[i].from \in Nat
    BY <2>1, FromsAre DEF IInv, Placed
  <2> QED BY <2>1, <2>2 DEF Clear
<1>5. Ordered(open')
  <2>1. Len(open) \in Nat
    BY SomeAreOpen DEF IInv
  <2> QED BY <2>1 DEF IInv, Placed, Ordered
<1> QED BY <1>2, <1>3, <1>4, <1>5 DEF Placed

LEMMA CloseSequenceKeeps ==
    ASSUME IInv, CloseSequence
    PROVE  IInv'
<1>1. CASE Throw
  BY <1>1, ThrowKeeps
<1>2. CASE /\ open' = Stored(todo.tag, todo.elements)
           /\ spans' = spans \cup {[from |-> todo.from, to |-> pos]}
           /\ at' = "tag" /\ todo' = None
           /\ Same /\ UNCHANGED pos
  <2>1. at = "sequence"
    BY DEF CloseSequence
  <2>2. PICK S : TreeIn(S)
    BY DEF IInv, Tree
  <2> DEFINE item == TagItem[todo.tag]
  <2>3. /\ item \in DOMAIN Dico[Top.id]
        /\ Dico[Top.id][item] \in {SEQ_BOOL, SEQ_LONG, SEQ_DOUBLE}
        /\ todo.type = Basic(Dico[Top.id][item])
        /\ todo.elements \in Seq(Int) /\ (todo.type = BOOL => todo.elements \in Seq({0, 1}))
    BY <2>1 DEF IInv, Sequence
  <2>4. Holds(item, Dico[Top.id][item], todo.elements, S)
    BY <2>3 DEF Holds, Basic, Repeated, SEQ_DELTA, BOOL, LONG, DOUBLE, STRING_T, MESSAGE, SEQ_BOOL, SEQ_LONG, SEQ_DOUBLE, SEQ_STRING, SEQ_MESSAGE
  <2>5. Tree' /\ SamePlaces(open, open')
    BY <1>2, <2>2, <2>3, <2>4, StoredIsTopTo, PutKeepsTree
  <2>6. /\ todo.from \in Nat /\ todo.from <= pos
        /\ \A i \in 1 .. Len(open) : open[i].from <= todo.from
        /\ \A s \in spans : s.to <= todo.from
    BY <2>1 DEF IInv, Placed
  <2>7. Placed'
    <3>1. Clear(todo.from)
      BY <2>6 DEF Clear
    <3>2. Len(open') \in 0 .. Len(open)
      BY <2>2, <2>5 DEF TreeIn, SamePlaces
    <3>3. \A i \in 1 .. Len(open') : open'[i].from = open[i].from /\ open[i].from <= todo.from
      BY <2>5, <2>6 DEF SamePlaces
    <3> QED BY <1>2, <2>6, <3>1, <3>2, <3>3, ClosePlaced
  <2>8. pos' \in 0 .. limit
    BY <1>2 DEF IInv, Positions
  <2> QED BY <1>2, <2>5, <2>7, <2>8, TagKeeps
<1> QED BY <1>1, <1>2 DEF CloseSequence

(***************************************************************************)
(* Nested messages.                                                        *)
(***************************************************************************)
LEMMA TreeGrows ==
    ASSUME NEW S, TreeIn(S), NEW id \in DOMAIN Dico
    PROVE  TreeIn(S \cup {<<id, NoValues>>})
<1> DEFINE T == S \cup {<<id, NoValues>>}
<1>1. Closed(T)
  BY EmptyCloses DEF TreeIn
<1>2. Frames(S) \subseteq Frames(T)
  BY FramesGrow
<1> HIDE DEF T
<1>3. open \in Seq(Frames(T)) /\ Len(open) >= 1
  BY <1>2 DEF TreeIn
<1> QED BY <1>1, <1>3 DEF TreeIn, T

(* A sub-message becomes the item, or the last element of it.              *)
LEMMA WithIsPut ==
    ASSUME NEW S, NEW id, NEW values, WellFormed(id, values, S),
           NEW item \in DOMAIN Dico[id], NEW type \in {MESSAGE, SEQ_MESSAGE},
           Dico[id][item] = type, NEW m, <<item, m>> \in S
    PROVE  \E v : With(values, item, type, m) = Put(values, item, v) /\ Holds(item, type, v, S)
<1>1. CASE type = MESSAGE
  <2>1. With(values, item, type, m) = Put(values, item, m)
    BY <1>1 DEF With
  <2>2. Holds(item, type, m, S)
    BY <1>1 DEF Holds, BOOL, LONG, DOUBLE, STRING_T, MESSAGE, SEQ_BOOL, SEQ_LONG, SEQ_DOUBLE, SEQ_STRING, SEQ_MESSAGE
  <2> QED BY <2>1, <2>2
<1>2. CASE type = SEQ_MESSAGE /\ item \in DOMAIN values
  <2>1. With(values, item, type, m) = Put(values, item, Append(values[item], m))
    BY <1>2 DEF With, MESSAGE, SEQ_MESSAGE
  <2>2. PICK M : values[item] \in Seq(M) /\ \A e \in M : <<item, e>> \in S
    BY <1>2 DEF WellFormed, Holds
  <2>3. Append(values[item], m) \in Seq(M \cup {m})
    BY <2>2
  <2>4. \A e \in M \cup {m} : <<item, e>> \in S
    BY <2>2
  <2>5. Holds(item, type, Append(values[item], m), S)
    BY <1>2, <2>3, <2>4 DEF Holds, BOOL, LONG, DOUBLE, STRING_T, MESSAGE, SEQ_BOOL, SEQ_LONG, SEQ_DOUBLE, SEQ_STRING, SEQ_MESSAGE
  <2> QED BY <2>1, <2>5
<1>3. CASE type = SEQ_MESSAGE /\ item \notin DOMAIN values
  <2>1. With(values, item, type, m) = Put(values, item, <<m>>)
    BY <1>3 DEF With, MESSAGE, SEQ_MESSAGE
  <2> DEFINE w == <<m>>
  <2>2. w \in Seq({m}) /\ \A e \in {m} : <<item, e>> \in S
    OBVIOUS
  <2> HIDE DEF w
  <2>3. Holds(item, type, w, S)
    BY <1>3, <2>2 DEF Holds, BOOL, LONG, DOUBLE, STRING_T, MESSAGE, SEQ_BOOL, SEQ_LONG, SEQ_DOUBLE, SEQ_STRING, SEQ_MESSAGE
  <2> QED BY <2>1, <2>3 DEF w
<1> QED BY <1>1, <1>2, <1>3

(* One more message is open.                                               *)
LEMMA NestKeeps ==
    ASSUME IInv, at = "tag", NEW item \in DOMAIN Dico[Top.id],
           NEW type \in {MESSAGE, SEQ_MESSAGE}, Dico[Top.id][item] = type,
           NEW end \in Int, NEW p \in Nat, pos <= p, p <= limit,
           open' = Append(open, Frame(item, end, type)), pos' = p, Same,
           UNCHANGED <<at, todo, spans>>
    PROVE  IInv'
<1> DEFINE f == Frame(item, end, type)
           n == Len(open)
<1>1. PICK S : TreeIn(S)
  BY DEF IInv, Tree
<1> DEFINE T == S \cup {<<item, NoValues>>}
<1>2. item \in DOMAIN Dico
  BY <1>1, TopIs, ItemsAssumption
<1>3. TreeIn(T)
  BY <1>1, <1>2, TreeGrows
<1>4. pos \in Nat /\ limit \in Nat
  BY DEF IInv, Positions
<1>5. /\ f.id = item /\ f.from = pos /\ f.end = end /\ f.type = type /\ f.values = NoValues
      /\ f \in Frames(T)
  <2>1. f = [id |-> item, from |-> pos, end |-> end, type |-> type, values |-> NoValues]
    BY DEF Frame
  <2>2. NoValues \in {e[2] : e \in T}
    <3>1. <<item, NoValues>> \in T /\ <<item, NoValues>>[2] = NoValues
      OBVIOUS
    <3> HIDE DEF T
    <3> QED BY <3>1
  <2>3. <<item, NoValues>> \in T
    OBVIOUS
  <2> HIDE DEF f, T
  <2> QED BY <1>2, <1>4, <2>1, <2>2, <2>3 DEF Frames
<1> HIDE DEF f, T
<1>6. n \in Nat /\ n >= 1 /\ open \in Seq(Frames(T))
  BY <1>3 DEF TreeIn
<1>7. /\ open' \in Seq(Frames(T)) /\ Len(open') = n + 1 /\ open'[n + 1] = f
      /\ \A i \in 1 .. n : open'[i] = open[i]
  BY <1>5, <1>6 DEF f
<1>8. Tree'
  <2>1. TreeIn(T)'
    BY <1>3, <1>6, <1>7 DEF TreeIn
  <2> QED BY <2>1 DEF Tree
<1>9. Path'
  <2> SUFFICES ASSUME NEW k \in 2 .. n + 1
               PROVE  /\ open'[k].id \in DOMAIN Dico[open'[k - 1].id]
                      /\ Dico[open'[k - 1].id][open'[k].id] = open'[k].type
    BY <1>7 DEF Path
  <2>1. k \in 2 .. n \/ k = n + 1
    BY <1>6
  <2>2. CASE k \in 2 .. n
    <3>1. k \in 1 .. n /\ k - 1 \in 1 .. n
      BY <1>6, <2>2
    <3> QED BY <1>7, <2>2, <3>1 DEF IInv, Path
  <2>3. CASE k = n + 1
    <3>1. open'[k] = f /\ open'[k - 1] = Top
      BY <1>6, <1>7, <2>3 DEF Top
    <3> QED BY <1>5, <3>1
  <2> QED BY <2>1, <2>2, <2>3
<1>10. Buffered' /\ Positions' /\ Sequence'
  <2>1. Root' = Root
    BY <1>6, <1>7 DEF Root
  <2> QED BY <1>4, <2>1 DEF IInv, Buffered, Positions, Sequence, Same
<1>11. Placed'
  <2>1. /\ \A s \in spans : s.from \in Nat /\ s.to \in Nat /\ s.to <= pos
        /\ \A a, b \in spans : Apart(a, b)
    BY DEF IInv, Placed
  <2>2. \A s \in spans : s.to <= p
    BY <1>4, <2>1
  <2>3. ASSUME NEW i \in 1 .. n + 1 PROVE open'[i].from <= p /\ Clear(open'[i].from)
    <3>1. CASE i \in 1 .. n
      <4>1. open'[i] = open[i] /\ open[i].from \in Nat /\ open[i].from <= pos
            /\ Clear(open[i].from)
        BY <1>7, <3>1, FromsAre DEF IInv, Placed
      <4> QED BY <1>4, <4>1
    <3>2. CASE i = n + 1
      <4>1. open'[i].from = pos
        BY <1>5, <1>7, <3>2
      <4> QED BY <1>4, <2>1, <4>1 DEF Clear
    <3> QED BY <1>6, <3>1, <3>2
  <2>4. Ordered(open')
    <3> SUFFICES ASSUME NEW k \in 1 .. n + 1, NEW i \in 1 .. k
                 PROVE  open'[i].from <= open'[k].from
      BY <1>7 DEF Ordered
    <3>1. CASE k \in 1 .. n
      <4>1. i \in 1 .. n
        BY <1>6, <3>1
      <4> QED BY <1>7, <3>1, <4>1 DEF IInv, Placed, Ordered
    <3>2. CASE k = n + 1 /\ i = n + 1
      BY <1>4, <1>5, <1>7, <3>2
    <3>3. CASE k = n + 1 /\ i # n + 1
      <4>1. i \in 1 .. n
        BY <1>6, <3>3
      <4> QED BY <1>5, <1>7, <3>3, <4>1 DEF IInv, Placed
    <3> QED BY <1>6, <3>1, <3>2, <3>3
  <2> QED BY <1>7, <2>1, <2>2, <2>3, <2>4 DEF Placed, Clear
<1> QED BY <1>8, <1>9, <1>10, <1>11 DEF IInv

LEMMA DecodeMsgKeeps ==
    ASSUME IInv, NEW t, DecodeMsg(t)
    PROVE  IInv'
<1> DEFINE Empty(r, type) ==
             /\ open' = [open EXCEPT ![Len(open)].values = With(@, TagItem[t], type, NoValues)]
             /\ Read(r.next)
             /\ Same /\ UNCHANGED <<at, todo>>
           Nest(r, type) ==
             /\ open' = Append(open, Frame(TagItem[t], r.next + r.value, type))
             /\ pos' = r.next
             /\ Same /\ UNCHANGED <<at, todo, spans>>
<1> PICK type \in {MESSAGE, SEQ_MESSAGE} :
      /\ Item(t, type)
      /\ \/ Throw
         \/ \E r \in Varints(pos + 1) : r.next <= limit /\ (Empty(r, type) \/ Nest(r, type))
  BY DEF DecodeMsg
<1>1. CASE Throw
  BY <1>1, ThrowKeeps
<1>2. /\ at = "tag" /\ TagItem[t] \in DOMAIN Dico[Top.id]
      /\ Dico[Top.id][TagItem[t]] = type
  BY ItemIs
<1>3. ASSUME NEW r \in Varints(pos + 1), r.next <= limit, Empty(r, type)
      PROVE  IInv'
  <2> DEFINE item == TagItem[t]
  <2>1. r.next \in Nat /\ pos <= r.next
    BY VarintsAre DEF IInv, Positions
  <2>2. PICK S : TreeIn(S)
    BY DEF IInv, Tree
  <2> DEFINE T == S \cup {<<item, NoValues>>}
  <2>3. TreeIn(T) /\ <<item, NoValues>> \in T
    BY <1>2, <2>2, TopIs, TreeGrows, ItemsAssumption
  <2>4. open' = TopTo(open, With(Top.values, item, type, NoValues))
    BY <1>3 DEF TopTo, Top
  <2> HIDE DEF T, item
  <2>5. WellFormed(Top.id, Top.values, T) /\ item \in DOMAIN Dico[Top.id]
        /\ Dico[Top.id][item] = type
    BY <1>2, <2>3, TopIs DEF item
  <2>6. PICK v : /\ With(Top.values, item, type, NoValues) = Put(Top.values, item, v)
                 /\ Holds(item, type, v, T)
    BY <2>3, <2>5, WithIsPut
  <2>7. open' = TopTo(open, Put(Top.values, item, v)) /\ Holds(item, Dico[Top.id][item], v, T)
    BY <2>4, <2>5, <2>6
  <2> QED BY <1>2, <1>3, <2>1, <2>3, <2>5, <2>7, ItemReadKeeps
<1>4. ASSUME NEW r \in Varints(pos + 1), r.next <= limit, Nest(r, type)
      PROVE  IInv'
  <2>1. r.next \in Nat /\ pos <= r.next /\ r.next + r.value \in Int
    BY VarintsAre DEF IInv, Positions
  <2> QED BY <1>2, <1>4, <2>1, NestKeeps
<1> HIDE DEF Empty, Nest
<1> QED BY <1>1, <1>3, <1>4

LEMMA CloseMsgKeeps ==
    ASSUME IInv, CloseMsg
    PROVE  IInv'
<1> DEFINE n == Len(open)
           q == open[n - 1]
           w == With(q.values, Top.id, Top.type, Top.values)
<1>1. CASE Throw
  BY <1>1, ThrowKeeps
<1>2. CASE /\ EndsWell(Top.end)
           /\ open' = [i \in 1 .. n - 1 |->
                         IF i < n - 1 THEN open[i]
                         ELSE [open[i] EXCEPT !.values = With(@, Top.id, Top.type, Top.values)]]
           /\ spans' = spans \cup {[from |-> Top.from, to |-> Top.end]}
           /\ Same /\ UNCHANGED <<pos, at, todo>>
  <2>1. PICK S : TreeIn(S)
    BY DEF IInv, Tree
  <2>2. n \in Nat /\ n > 1 /\ n \in 1 .. n /\ n - 1 \in 1 .. n /\ n \in 2 .. n
    BY <2>1 DEF CloseMsg, Nested, TreeIn
  <2>3. /\ q \in Frames(S) /\ <<q.id, q.values>> \in S /\ q.id \in DOMAIN Dico
        /\ WellFormed(q.id, q.values, S)
    <3>1. q \in Frames(S)
      BY <2>1, <2>2 DEF TreeIn
    <3>2. <<q.id, q.values>> \in S /\ q.id \in DOMAIN Dico
      BY <3>1 DEF Frames
    <3> QED BY <2>1, <3>1, <3>2 DEF TreeIn, Closed
  <2>4. /\ Top.id \in DOMAIN Dico[q.id] /\ Dico[q.id][Top.id] = Top.type
        /\ Top.type \in {MESSAGE, SEQ_MESSAGE} /\ <<Top.id, Top.values>> \in S
    <3>1. Top \in Frames(S) /\ <<Top.id, Top.values>> \in S
      BY <2>1, TopIs
    <3>2. Top.type \in {MESSAGE, SEQ_MESSAGE}
      BY <3>1 DEF Frames
    <3>3. Top.id \in DOMAIN Dico[q.id] /\ Dico[q.id][Top.id] = Top.type
      BY <2>2 DEF IInv, Path, Top
    <3> QED BY <3>1, <3>2, <3>3
  <2>5. PICK v : w = Put(q.values, Top.id, v) /\ Holds(Top.id, Top.type, v, S)
    BY <2>3, <2>4, WithIsPut
  <2> DEFINE T == S \cup {<<q.id, w>>}
  <2>6. Closed(T)
    <3>1. Closed(S)
      BY <2>1 DEF TreeIn
    <3> QED BY <2>3, <2>4, <2>5, <3>1, PutCloses
  <2> DEFINE front == [i \in 1 .. n - 1 |-> open[i]]
  <2>7. /\ front \in Seq(Frames(S)) /\ Len(front) = n - 1
        /\ \A i \in 1 .. n - 1 : front[i] = open[i]
    BY <2>1, <2>2 DEF TreeIn
  <2>8. open' = TopTo(front, w)
    <3> DEFINE g == [q EXCEPT !.values = w]
    <3>1. open' = [i \in 1 .. n - 1 |-> IF i < n - 1 THEN open[i] ELSE g]
      <4>1. ASSUME NEW i \in 1 .. n - 1, ~(i < n - 1) PROVE i = n - 1
        BY <2>2, <4>1
      <4> HIDE DEF w
      <4>2. ASSUME NEW i \in 1 .. n - 1, ~(i < n - 1)
            PROVE  [open[i] EXCEPT !.values = With(@, Top.id, Top.type, Top.values)] = g
        <5>1. i = n - 1
          BY <4>1, <4>2
        <5>2. open[i] = q
          BY <5>1
        <5>3. g = [q EXCEPT !.values = With(q.values, Top.id, Top.type, Top.values)]
          BY DEF w
        <5> QED BY <5>2, <5>3
      <4> HIDE DEF g
      <4> QED BY <1>2, <4>2
    <3>2. TopTo(front, w) = [front EXCEPT ![n - 1] = [front[n - 1] EXCEPT !.values = w]]
      BY <2>7 DEF TopTo
    <3>3. front[n - 1] = q
      BY <2>2
    <3> HIDE DEF w, g
    <3>4. TopTo(front, w) = [front EXCEPT ![n - 1] = g]
      BY <3>2, <3>3 DEF g
    <3>5. [front EXCEPT ![n - 1] = g] = [i \in 1 .. n - 1 |-> IF i < n - 1 THEN open[i] ELSE g]
      <4>1. [front EXCEPT ![n - 1] = g] = [i \in 1 .. n - 1 |-> IF i = n - 1 THEN g ELSE open[i]]
        OBVIOUS
      <4>2. \A i \in 1 .. n - 1 : i < n - 1 <=> i # n - 1
        BY <2>2
      <4> HIDE DEF n, front
      <4> QED BY <4>1, <4>2
    <3> QED BY <3>1, <3>4, <3>5
  <2> HIDE DEF w
  <2>9. TopTo(front, w) \in Seq(Frames(T)) /\ SamePlaces(front, TopTo(front, w))
    <3>1. <<front[Len(front)].id, w>> \in T /\ S \subseteq T /\ Len(front) >= 1
      BY <2>2, <2>7
    <3> HIDE DEF front, T
    <3> QED BY <2>7, <3>1, TopToKeeps
  <2> HIDE DEF front, T
  <2>10. /\ open' \in Seq(Frames(T)) /\ Len(open') = n - 1
         /\ \A i \in 1 .. n - 1 : /\ open'[i].id = open[i].id /\ open'[i].from = open[i].from
                                  /\ open'[i].type = open[i].type
    BY <2>7, <2>8, <2>9 DEF SamePlaces
  <2>11. Tree'
    BY <2>2, <2>6, <2>10 DEF Tree, TreeIn
  <2>12. Path'
    <3> SUFFICES ASSUME NEW k \in 2 .. n - 1
                 PROVE  /\ open'[k].id \in DOMAIN Dico[open'[k - 1].id]
                        /\ Dico[open'[k - 1].id][open'[k].id] = open'[k].type
      BY <2>10 DEF Path
    <3>1. k \in 2 .. n /\ k \in 1 .. n - 1 /\ k - 1 \in 1 .. n - 1
      BY <2>2
    <3> QED BY <2>10, <3>1 DEF IInv, Path
  <2>13. Buffered' /\ Positions' /\ Sequence' /\ at' = "tag"
    <3>1. at = "tag"
      BY DEF CloseMsg
    <3>2. Root' = Root
      BY <2>2, <2>10 DEF Root
    <3> QED BY <1>2, <3>1, <3>2 DEF IInv, Buffered, Positions, Sequence, Same
  <2>14. Placed'
    <3>1. /\ Top.from \in Nat /\ Top.from <= pos /\ Clear(Top.from) /\ Top.end = pos
      BY <1>2, <2>2, FromsAre DEF IInv, Placed, Top, EndsWell
    <3>2. \A i \in 1 .. n - 1 : open'[i].from = open[i].from /\ open[i].from <= Top.from
      BY <2>2, <2>10 DEF IInv, Placed, Ordered, Top
    <3>3. Len(open') \in 0 .. Len(open)
      BY <2>2, <2>10
    <3> QED BY <1>2, <2>10, <2>13, <3>1, <3>2, <3>3, ClosePlaced
  <2> QED BY <2>11, <2>12, <2>13, <2>14 DEF IInv
<1> QED BY <1>1, <1>2 DEF CloseMsg

(***************************************************************************)
(* The invariant.                                                          *)
(***************************************************************************)
LEMMA DecodeKeeps ==
    ASSUME IInv, Decode
    PROVE  IInv'
<1>1. CASE EndOfInput
  BY <1>1, EndOfInputKeeps
<1>2. CASE CloseMsg
  BY <1>2, CloseMsgKeeps
<1>3. CASE ReadElement
  BY <1>3, ReadElementKeeps
<1>4. CASE CloseSequence
  BY <1>4, CloseSequenceKeeps
<1>5. ASSUME NEW t \in At(pos), DecodeBool(t) PROVE IInv'
  BY <1>5, DecodeBoolKeeps
<1>6. ASSUME NEW t \in At(pos), DecodeLong(t) PROVE IInv'
  BY <1>6, DecodeLongKeeps
<1>7. ASSUME NEW t \in At(pos), DecodeDouble(t) PROVE IInv'
  BY <1>7, DecodeDoubleKeeps
<1>8. ASSUME NEW t \in At(pos), DecodeStr(t) PROVE IInv'
  BY <1>8, DecodeStrKeeps
<1>9. ASSUME NEW t \in At(pos), DecodeSeqStr(t) PROVE IInv'
  BY <1>9, DecodeSeqStrKeeps
<1>10. ASSUME NEW t \in At(pos), DecodeMsg(t) PROVE IInv'
  BY <1>10, DecodeMsgKeeps
<1>11. ASSUME NEW t \in At(pos), OpenSequence(t) PROVE IInv'
  BY <1>11, OpenSequenceKeeps
<1>12. ASSUME NEW t \in At(pos), DecodeOther(t) PROVE IInv'
  BY <1>12, DecodeOtherKeeps
<1> QED BY <1>1, <1>2, <1>3, <1>4, <1>5, <1>6, <1>7, <1>8, <1>9, <1>10, <1>11, <1>12 DEF Decode

LEMMA StutterKeeps ==
    ASSUME IInv, UNCHANGED vars
    PROVE  IInv'
<1> USE DEF vars
<1>1. Tree' /\ Path'
  BY DEF IInv, Tree, TreeIn, Path
<1>2. Buffered' /\ Positions' /\ Sequence'
  BY DEF IInv, Buffered, Root, Positions, Sequence, Top
<1>3. Placed'
  BY DEF IInv, Placed, Clear
<1> QED BY <1>1, <1>2, <1>3 DEF IInv

(* The first position of a buffer, in the root.                            *)
AtStart(root) ==
  /\ pos = 0 /\ at = "tag" /\ spans = {}
  /\ open = <<[id |-> root, from |-> 0, end |-> limit, type |-> MESSAGE, values |-> NoValues]>>

Started ==
  \E root \in DOMAIN Dico :
    /\ AtStart(root) /\ limit \in Nat
    /\ \/ buffer = AnyBuffer /\ root \in DOMAIN Tokens
       \/ buffer \in Seq(Int) /\ limit = Len(buffer)

(* A decode begins with an empty message, at the first token.              *)
LEMMA StartIsGood == Started => IInv
<1> SUFFICES ASSUME NEW root \in DOMAIN Dico, AtStart(root), limit \in Nat,
                    \/ buffer = AnyBuffer /\ root \in DOMAIN Tokens
                    \/ buffer \in Seq(Int) /\ limit = Len(buffer)
             PROVE  IInv
  BY DEF Started
<1> DEFINE f == [id |-> root, from |-> 0, end |-> limit, type |-> MESSAGE, values |-> NoValues]
           S == {<<root, NoValues>>}
<1>1. Closed(S)
  <2>1. Closed({})
    BY DEF Closed
  <2> QED BY <2>1, EmptyCloses
<1>2. f \in Frames(S)
  <2>1. NoValues \in {e[2] : e \in S}
    <3>1. <<root, NoValues>> \in S /\ <<root, NoValues>>[2] = NoValues
      OBVIOUS
    <3> HIDE DEF S
    <3> QED BY <3>1
  <2>2. <<root, NoValues>> \in S
    OBVIOUS
  <2> HIDE DEF S
  <2> QED BY <2>1, <2>2 DEF Frames
<1>3. open = <<f>>
  BY DEF AtStart
<1>4. f.id = root /\ f.from = 0
  OBVIOUS
<1> HIDE DEF f, S
<1>5. open \in Seq(Frames(S)) /\ Len(open) = 1 /\ open[1] = f
  BY <1>2, <1>3
<1>6. Tree
  BY <1>1, <1>5 DEF Tree, TreeIn
<1>7. Path
  BY <1>5 DEF Path
<1>8. Buffered /\ Positions /\ Sequence
  BY <1>4, <1>5 DEF AtStart, Buffered, Root, Positions, Sequence
<1>9. Placed
  BY <1>4, <1>5 DEF AtStart, Placed, Clear, Ordered
<1> QED BY <1>6, <1>7, <1>8, <1>9 DEF IInv

LEMMA StartIsGoodNext == Started' => IInv'
BY StartIsGood, PTL

(***************************************************************************)
(* The messages in a message, level by level.                              *)
(***************************************************************************)
LEMMA LevelsAre ==
    ASSUME NEW id, NEW values
    PROVE  /\ Level(id, values, 0) = {<<id, values>>}
           /\ \A n \in 1 .. MaxDepth :
                Level(id, values, n) = UNION {Parts(m[1], m[2]) : m \in Level(id, values, n - 1)}
<1> DEFINE Down(T) == UNION {Parts(m[1], m[2]) : m \in T}
           top == {<<id, values>>}
           Grows(F, n) == /\ DOMAIN F = 0 .. n /\ F[0] = top
                          /\ \A k \in 1 .. n : F[k] = Down(F[k - 1])
           G == {n \in Nat : \E F : Grows(F, n)}
           Is(F) == F = [n \in 0 .. MaxDepth |-> IF n = 0 THEN top ELSE Down(F[n - 1])]
<1> HIDE DEF Down, top
<1>1. 0 \in G
  <2>1. Grows([k \in 0 .. 0 |-> top], 0)
    OBVIOUS
  <2> QED BY <2>1
<1>2. ASSUME NEW n \in G PROVE n + 1 \in G
  <2>1. PICK F : Grows(F, n)
    BY <1>2
  <2> DEFINE H == [k \in 0 .. n + 1 |-> IF k <= n THEN F[k] ELSE Down(F[n])]
  <2>2. n \in Nat
    BY <1>2
  <2>3. DOMAIN H = 0 .. n + 1 /\ H[0] = top
    BY <2>1, <2>2
  <2>4. ASSUME NEW k \in 1 .. n + 1 PROVE H[k] = Down(H[k - 1])
    <3>1. CASE k <= n
      <4>1. H[k] = F[k] /\ H[k - 1] = F[k - 1] /\ k \in 1 .. n
        BY <2>2, <3>1
      <4> HIDE DEF H
      <4> QED BY <2>1, <4>1
    <3>2. CASE k = n + 1
      <4>1. ~(n + 1 <= n) /\ n + 1 \in 0 .. n + 1 /\ n \in 0 .. n + 1
            /\ (n + 1) - 1 = n /\ n <= n
        BY <2>2
      <4>2. H[n + 1] = Down(F[n]) /\ H[n] = F[n]
        BY <4>1
      <4> HIDE DEF H
      <4> QED BY <3>2, <4>1, <4>2
    <3>3. k <= n \/ k = n + 1
      BY <2>2
    <3> HIDE DEF H
    <3> QED BY <3>1, <3>2, <3>3
  <2> HIDE DEF H
  <2>5. Grows(H, n + 1)
    BY <2>3, <2>4
  <2> HIDE DEF Grows
  <2> QED BY <2>2, <2>5
<1>3. G = Nat
  <2>1. G \in SUBSET Nat
    OBVIOUS
  <2> HIDE DEF G
  <2> QED BY <1>1, <1>2, <2>1, NatSetInduction
<1>4. PICK F : Grows(F, MaxDepth)
  BY <1>3, TagAssumption
<1>5. MaxDepth \in Nat
  BY TagAssumption
<1>6. Is([n \in 0 .. MaxDepth |-> F[n]])
  <2> DEFINE f == [n \in 0 .. MaxDepth |-> F[n]]
  <2>1. ASSUME NEW n \in 0 .. MaxDepth
        PROVE  F[n] = IF n = 0 THEN top ELSE Down(f[n - 1])
    <3>1. CASE n = 0
      BY <1>4, <3>1
    <3>2. CASE n # 0
      <4>1. n \in 1 .. MaxDepth /\ n - 1 \in 0 .. MaxDepth
        BY <1>5, <3>2
      <4>2. f[n - 1] = F[n - 1]
        BY <4>1
      <4> HIDE DEF f
      <4> QED BY <1>4, <3>2, <4>1, <4>2
    <3> QED BY <3>1, <3>2
  <2>2. f = [n \in 0 .. MaxDepth |-> IF n = 0 THEN top ELSE Down(f[n - 1])]
    <3> HIDE DEF Grows
    <3> QED BY <2>1
  <2> QED BY <2>2
<1> DEFINE level == CHOOSE f : Is(f)
<1>7. Is(level)
  <2> HIDE DEF Is
  <2> QED BY <1>6
<1>8. \A n : Level(id, values, n) = level[n]
  BY DEF Level, Down, top
<1> HIDE DEF level
<1>9. level[0] = top
  BY <1>5, <1>7
<1>10. ASSUME NEW n \in 1 .. MaxDepth PROVE level[n] = Down(level[n - 1])
  <2>1. n \in 0 .. MaxDepth /\ n # 0
    BY <1>5
  <2> QED BY <1>7, <2>1
<1> QED BY <1>8, <1>9, <1>10 DEF Down, top

LEMMA NextLevel ==
    ASSUME NEW id, NEW values, NEW n \in Nat, NEW k \in 1 .. MaxDepth, k = n + 1
    PROVE  Level(id, values, k) = UNION {Parts(m[1], m[2]) : m \in Level(id, values, n)}
<1>1. n = k - 1
  OBVIOUS
<1>2. Level(id, values, k) = UNION {Parts(m[1], m[2]) : m \in Level(id, values, k - 1)}
  BY LevelsAre
<1> QED BY <1>1, <1>2, Zenon

(* What is not at the last level has its parts at the next.                *)
LEMMA PartsNext ==
    ASSUME NEW id, NEW values, NEW n \in Nat, n + 1 \in 0 .. MaxDepth,
           NEW m \in Level(id, values, n)
    PROVE  Parts(m[1], m[2]) \subseteq Level(id, values, n + 1)
<1>1. n + 1 \in 1 .. MaxDepth
  BY TagAssumption
<1>2. Level(id, values, n + 1)
        = UNION {Parts(x[1], x[2]) : x \in Level(id, values, n)}
  BY <1>1, NextLevel
<1> QED BY <1>2

\* No message is so deep that it has messages at the last level.
Shallow(id, values) == Level(id, values, MaxDepth) = {}

LEMMA WithinHasParts ==
    ASSUME NEW id, NEW values, Shallow(id, values), NEW m \in Within(id, values)
    PROVE  \E n \in Nat : /\ n + 1 \in 0 .. MaxDepth /\ m \in Level(id, values, n)
                          /\ Parts(m[1], m[2]) \subseteq Level(id, values, n + 1)
<1>1. PICK n \in 0 .. MaxDepth : m \in Level(id, values, n)
  BY DEF Within
<1>2. n # MaxDepth
  BY <1>1 DEF Shallow
<1>3. n \in Nat /\ n + 1 \in 0 .. MaxDepth
  BY <1>2, TagAssumption
<1> QED BY <1>1, <1>3, PartsNext

LEMMA PartsAreWithin ==
    ASSUME NEW id, NEW values, Shallow(id, values), NEW m \in Within(id, values)
    PROVE  Parts(m[1], m[2]) \subseteq Within(id, values)
<1>1. PICK n \in Nat : /\ n + 1 \in 0 .. MaxDepth
                       /\ Parts(m[1], m[2]) \subseteq Level(id, values, n + 1)
  BY WithinHasParts
<1> QED BY <1>1 DEF Within

LEMMA ItselfIsWithin == \A id, values : <<id, values>> \in Within(id, values)
<1> TAKE id, values
<1>1. 0 \in 0 .. MaxDepth /\ <<id, values>> \in Level(id, values, 0)
  BY LevelsAre, TagAssumption
<1> QED BY <1>1 DEF Within

LEMMA PartIs ==
    ASSUME NEW id, NEW values, NEW i \in DOMAIN values
    PROVE  /\ Dico[id][i] = MESSAGE => <<i, values[i]>> \in Parts(id, values)
           /\ Dico[id][i] = SEQ_MESSAGE =>
                \A k \in DOMAIN values[i] : <<i, values[i][k]>> \in Parts(id, values)
<1>1. Dico[id][i] = MESSAGE => <<i, values[i]>> \in Parts(id, values)
  BY DEF Parts, OfType
<1>2. ASSUME Dico[id][i] = SEQ_MESSAGE, NEW k \in DOMAIN values[i]
      PROVE  <<i, values[i][k]>> \in Parts(id, values)
  <2>1. i \in OfType(id, values, SEQ_MESSAGE)
    BY <1>2 DEF OfType
  <2>2. <<i, values[i][k]>> \in {<<i, values[i][x]>> : x \in DOMAIN values[i]}
    BY <1>2
  <2> QED BY <2>1, <2>2 DEF Parts
<1> QED BY <1>1, <1>2

(* Of which item a part is.                                                *)
LEMMA PartOf ==
    ASSUME NEW id, NEW values, NEW p \in Parts(id, values)
    PROVE  \E i \in DOMAIN values :
             \/ Dico[id][i] = MESSAGE /\ p = <<i, values[i]>>
             \/ /\ Dico[id][i] = SEQ_MESSAGE
                /\ \E k \in DOMAIN values[i] : p = <<i, values[i][k]>>
BY DEF Parts, OfType

(* The types of the values of a message, and of the messages in it.        *)
LEMMA TypedIsWellFormed ==
    ASSUME NEW id \in DOMAIN Dico, NEW values, Typed(id, values), NEW S,
           Parts(id, values) \subseteq S
    PROVE  WellFormed(id, values, S)
<1> SUFFICES ASSUME NEW i \in DOMAIN values PROVE Holds(i, Dico[id][i], values[i], S)
  BY DEF Typed, WellFormed
<1> DEFINE type == Dico[id][i]
           v    == values[i]
<1>1. ValueOK(i, type, v)
  BY DEF Typed
<1>2. type = MESSAGE => <<i, v>> \in S
  BY PartIs
<1>3. type = SEQ_MESSAGE => \A k \in DOMAIN v : <<i, v[k]>> \in S
  BY PartIs
<1> HIDE DEF type, v
<1>4. ASSUME type = SEQ_MESSAGE PROVE \E M : v \in Seq(M) /\ \A m \in M : <<i, m>> \in S
  <2> DEFINE M == {v[k] : k \in DOMAIN v}
  <2>1. v \in Seq(M)
    BY <1>1, <1>4 DEF ValueOK
  <2>2. \A m \in M : <<i, m>> \in S
    BY <1>3, <1>4
  <2> QED BY <2>1, <2>2
<1>5. Holds(i, type, v, S)
  BY <1>1, <1>2, <1>4 DEF ValueOK, Holds
<1> QED BY <1>5 DEF type, v

LEMMA WellFormedIsTyped ==
    ASSUME NEW S, Closed(S), NEW id, NEW values, WellFormed(id, values, S)
    PROVE  Typed(id, values) /\ Parts(id, values) \subseteq S
<1>1. ASSUME NEW i \in DOMAIN values
      PROVE  /\ ValueOK(i, Dico[id][i], values[i])
             /\ Dico[id][i] = SEQ_MESSAGE =>
                  \A k \in DOMAIN values[i] : <<i, values[i][k]>> \in S
             /\ Dico[id][i] = MESSAGE => <<i, values[i]>> \in S
  <2> DEFINE type == Dico[id][i]
             v    == values[i]
  <2>1. Holds(i, type, v, S)
    BY DEF WellFormed
  <2>2. \A w : <<i, w>> \in S => DOMAIN w \subseteq DOMAIN Dico[i]
    BY DEF Closed, WellFormed
  <2> HIDE DEF type, v
  <2>3. ASSUME type = SEQ_MESSAGE
        PROVE  /\ \A e \in DOMAIN v : DOMAIN v[e] \subseteq DOMAIN Dico[i] /\ <<i, v[e]>> \in S
               /\ v \in Seq({v[k] : k \in DOMAIN v})
    <3>1. PICK M : v \in Seq(M) /\ \A w \in M : <<i, w>> \in S
      BY <2>1, <2>3 DEF Holds
    <3>2. \A e \in DOMAIN v : v[e] \in M
      BY <3>1
    <3>3. v \in Seq({v[k] : k \in DOMAIN v})
      <4> DEFINE R == {v[k] : k \in DOMAIN v}
      <4>1. v = [k \in 1 .. Len(v) |-> v[k]] /\ Len(v) \in Nat /\ DOMAIN v = 1 .. Len(v)
        BY <3>1
      <4>2. \A k \in 1 .. Len(v) : v[k] \in R
        BY <4>1
      <4> HIDE DEF R
      <4> QED BY <4>1, <4>2 DEF R
    <3> QED BY <2>2, <3>1, <3>2, <3>3
  <2>4. type = MESSAGE => DOMAIN v \subseteq DOMAIN Dico[i] /\ <<i, v>> \in S
    BY <2>1, <2>2 DEF Holds
  <2>5. ValueOK(i, type, v)
    BY <2>1, <2>3, <2>4 DEF Holds, ValueOK
  <2> QED BY <2>3, <2>4, <2>5 DEF type, v
<1>2. Typed(id, values)
  BY <1>1 DEF Typed, WellFormed
<1>3. ASSUME NEW p \in Parts(id, values) PROVE p \in S
  <2>1. PICK i \in DOMAIN values :
             \/ Dico[id][i] = MESSAGE /\ p = <<i, values[i]>>
             \/ /\ Dico[id][i] = SEQ_MESSAGE
                /\ \E k \in DOMAIN values[i] : p = <<i, values[i][k]>>
    BY PartOf
  <2> QED BY <1>1, <2>1
<1> QED BY <1>2, <1>3

(* The messages within a message have each other's sub-messages.           *)
LEMMA WithinCloses ==
    ASSUME NEW id, NEW values, IsMessage(id, values)
    PROVE  /\ Closed(Within(id, values)) /\ Shallow(id, values)
           /\ \A m \in Within(id, values) :
                m = <<m[1], m[2]>> /\ m[1] \in DOMAIN Dico /\ Typed(m[1], m[2])
<1> DEFINE S == Within(id, values)
<1>0. Shallow(id, values)
  BY DEF IsMessage, Shallow
<1>1. \A m \in S : Typed(m[1], m[2]) /\ Parts(m[1], m[2]) \subseteq S
  BY <1>0, PartsAreWithin DEF IsMessage
<1> DEFINE A == {n \in Nat : n <= MaxDepth =>
                   \A m \in Level(id, values, n) : m[1] \in DOMAIN Dico /\ m = <<m[1], m[2]>>}
<1>2. 0 \in A
  <2>1. Level(id, values, 0) = {<<id, values>>} /\ id \in DOMAIN Dico
    BY LevelsAre DEF IsMessage
  <2> QED BY <2>1
<1>3. ASSUME NEW n \in A PROVE n + 1 \in A
  <2> SUFFICES ASSUME n + 1 <= MaxDepth, NEW p \in Level(id, values, n + 1)
               PROVE  p[1] \in DOMAIN Dico /\ p = <<p[1], p[2]>>
    BY <1>3
  <2>1. n + 1 \in 1 .. MaxDepth /\ (n + 1) - 1 = n /\ n <= MaxDepth /\ n \in 0 .. MaxDepth
    BY <1>3, TagAssumption
  <2>2. PICK m \in Level(id, values, n) : p \in Parts(m[1], m[2])
    <3>1. n \in Nat
      BY <2>1
    <3>2. Level(id, values, n + 1) = UNION {Parts(m[1], m[2]) : m \in Level(id, values, n)}
      BY <2>1, <3>1, NextLevel
    <3> QED BY <3>2
  <2>3. PICK i \in DOMAIN m[2] :
          /\ Dico[m[1]][i] \in {MESSAGE, SEQ_MESSAGE}
          /\ \E x : p = <<i, x>>
    BY <2>2, PartOf
  <2>4. m \in S /\ m[1] \in DOMAIN Dico
    BY <2>1, <1>3 DEF Within
  <2>5. i \in DOMAIN Dico[m[1]]
    BY <1>1, <2>4 DEF Typed
  <2>6. i \in DOMAIN Dico
    BY <2>3, <2>4, <2>5, ItemsAssumption
  <2> QED BY <2>3, <2>6
<1>4. A = Nat
  <2>1. A \in SUBSET Nat
    OBVIOUS
  <2> HIDE DEF A
  <2> QED BY <1>2, <1>3, <2>1, NatSetInduction
<1>5. \A m \in S : m[1] \in DOMAIN Dico /\ m = <<m[1], m[2]>>
  <2> SUFFICES ASSUME NEW m \in S PROVE m[1] \in DOMAIN Dico /\ m = <<m[1], m[2]>>
    OBVIOUS
  <2>1. PICK n \in 0 .. MaxDepth : m \in Level(id, values, n)
    BY DEF Within
  <2>2. n \in A /\ n <= MaxDepth
    BY <1>4, <2>1
  <2> QED BY <2>1, <2>2
<1> SUFFICES ASSUME NEW d, NEW v, <<d, v>> \in S PROVE WellFormed(d, v, S)
  BY <1>0, <1>1, <1>5 DEF Closed
<1>6. d \in DOMAIN Dico /\ Typed(d, v) /\ Parts(d, v) \subseteq S
  BY <1>1, <1>5
<1> HIDE DEF S
<1> QED BY <1>6, TypedIsWellFormed

(* What is within a message of a closed set is in the set.                 *)
LEMMA WithinIsIn ==
    ASSUME NEW S, Closed(S), NEW id, NEW values, <<id, values>> \in S
    PROVE  \A m \in Within(id, values) : m \in S /\ Typed(m[1], m[2])
<1> DEFINE A == {n \in Nat : n <= MaxDepth =>
                   \A m \in Level(id, values, n) : m \in S /\ m = <<m[1], m[2]>>}
<1>1. 0 \in A
  <2>1. Level(id, values, 0) = {<<id, values>>}
    BY LevelsAre
  <2> QED BY <2>1
<1>2. ASSUME NEW n \in A PROVE n + 1 \in A
  <2> SUFFICES ASSUME n + 1 <= MaxDepth, NEW p \in Level(id, values, n + 1)
               PROVE  p \in S /\ p = <<p[1], p[2]>>
    BY <1>2
  <2>1. n + 1 \in 1 .. MaxDepth /\ (n + 1) - 1 = n /\ n <= MaxDepth /\ n \in 0 .. MaxDepth
    BY <1>2, TagAssumption
  <2>2. PICK m \in Level(id, values, n) : p \in Parts(m[1], m[2])
    <3>1. n \in Nat
      BY <2>1
    <3>2. Level(id, values, n + 1) = UNION {Parts(m[1], m[2]) : m \in Level(id, values, n)}
      BY <2>1, <3>1, NextLevel
    <3> QED BY <3>2
  <2>3. m \in S /\ m = <<m[1], m[2]>>
    BY <1>2, <2>1
  <2>4. WellFormed(m[1], m[2], S)
    BY <2>3 DEF Closed
  <2>5. p \in S
    BY <2>2, <2>4, WellFormedIsTyped
  <2> QED BY <2>2, <2>5, PartOf
<1>3. A = Nat
  <2>1. A \in SUBSET Nat
    OBVIOUS
  <2> HIDE DEF A
  <2> QED BY <1>1, <1>2, <2>1, NatSetInduction
<1> SUFFICES ASSUME NEW m \in Within(id, values) PROVE m \in S /\ Typed(m[1], m[2])
  OBVIOUS
<1>4. PICK n \in 0 .. MaxDepth : m \in Level(id, values, n)
  BY DEF Within
<1>5. n \in A /\ n <= MaxDepth
  BY <1>3, <1>4
<1>6. m \in S /\ m = <<m[1], m[2]>>
  BY <1>4, <1>5
<1>7. WellFormed(m[1], m[2], S)
  BY <1>6 DEF Closed
<1> QED BY <1>6, <1>7, WellFormedIsTyped

(***************************************************************************)
(* What encode() writes.                                                   *)
(***************************************************************************)
LEMMA SeqIs ==
    ASSUME NEW X, NEW n \in Nat, NEW f, f = [k \in 1 .. n |-> f[k]], \A k \in 1 .. n : f[k] \in X
    PROVE  f \in Seq(X) /\ Len(f) = n
OBVIOUS

LEMMA OneIs ==
    ASSUME NEW X, NEW c \in X
    PROVE  <<c>> \in Seq(X) /\ Len(<<c>>) = 1 /\ <<c>>[1] = c
OBVIOUS

LEMMA NumberIs ==
    ASSUME NEW v \in Int, NEW n \in Nat \ {0}
    PROVE  Number(v, n) \in Seq(Int) /\ Len(Number(v, n)) = n /\ Number(v, n)[1] = v
<1>1. /\ Number(v, n) = [k \in 1 .. n |-> IF k = 1 THEN v ELSE 0]
      /\ \A k \in 1 .. n : (IF k = 1 THEN v ELSE 0) \in Int
      /\ 1 \in 1 .. n
  BY DEF Number
<1> QED BY <1>1

LEMMA VarintIs ==
    ASSUME NEW v \in Int
    PROVE  /\ Varint(v) \in Seq(Int) /\ Len(Varint(v)) = VarintSize(v) /\ Varint(v)[1] = v
           /\ VarintSize(v) \in {1, 2}
<1>1. VarintSize(v) \in Nat \ {0}
  BY VarintSizeIs
<1> QED BY <1>1, NumberIs, VarintSizeIs DEF Varint

LEMMA BlankIs ==
    ASSUME NEW n \in Nat
    PROVE  Blank(n) \in Seq(Int) /\ Len(Blank(n)) = n
BY DEF Blank

(* What comes with a length begins with it.                                *)
LEMMA PrefixedIs ==
    ASSUME NEW c \in Seq(Int)
    PROVE  /\ Prefixed(c) \in Seq(Int) /\ Len(Prefixed(c)) = VarintSize(Len(c)) + Len(c)
           /\ Prefixed(c)[1] = Len(c) /\ Len(c) \in Nat
<1> DEFINE n == Len(c)
           w == Varint(n)
<1>1. n \in Int /\ n \in Nat
  OBVIOUS
<1>2. w \in Seq(Int) /\ Len(w) = VarintSize(n) /\ w[1] = n /\ VarintSize(n) \in {1, 2}
  BY <1>1, VarintIs
<1>3. Prefixed(c) = w \o c
  BY DEF Prefixed
<1>4. w \o c \in Seq(Int) /\ Len(w \o c) = Len(w) + Len(c)
      /\ \A x \in 1 .. Len(w) : (w \o c)[x] = w[x]
  <2> HIDE DEF w
  <2> QED BY <1>2, CatIs
<1>5. 1 \in 1 .. Len(w)
  BY <1>2
<1> HIDE DEF w
<1> QED BY <1>1, <1>2, <1>3, <1>4, <1>5

\* The elements of a packed sequence.
Elements(type, v) ==
  [k \in 1 .. Len(v) |-> IF type = SEQ_DOUBLE THEN Number(v[k], DoubleSize) ELSE Varint(v[k])]

ElementSize(type, x) == IF type = SEQ_DOUBLE THEN DoubleSize ELSE VarintSize(x)

LEMMA PackedIs ==
    ASSUME NEW type, NEW v \in Seq(Int)
    PROVE  /\ Elements(type, v) \in Seq(Seq(Int)) /\ Len(Elements(type, v)) = Len(v)
           /\ \A k \in 1 .. Len(v) : /\ Len(Elements(type, v)[k]) = ElementSize(type, v[k])
                                     /\ Elements(type, v)[k][1] = v[k]
                                     /\ ElementSize(type, v[k]) \in Nat \ {0}
           /\ Packed(type, v) = FlattenSeq(Elements(type, v)) /\ Packed(type, v) \in Seq(Int)
<1> DEFINE el(x) == IF type = SEQ_DOUBLE THEN Number(x, DoubleSize) ELSE Varint(x)
<1>1. ASSUME NEW x \in Int
      PROVE  /\ el(x) \in Seq(Int) /\ Len(el(x)) = ElementSize(type, x) /\ el(x)[1] = x
             /\ ElementSize(type, x) \in Nat \ {0}
  <2>1. CASE type = SEQ_DOUBLE
    <3>1. el(x) = Number(x, DoubleSize) /\ ElementSize(type, x) = DoubleSize
      BY <2>1 DEF ElementSize
    <3>2. DoubleSize \in Nat \ {0}
      BY TagAssumption
    <3> QED BY <3>1, <3>2, NumberIs
  <2>2. CASE type # SEQ_DOUBLE
    <3>1. el(x) = Varint(x) /\ ElementSize(type, x) = VarintSize(x)
      BY <2>2 DEF ElementSize
    <3>2. /\ Varint(x) \in Seq(Int) /\ Len(Varint(x)) = VarintSize(x) /\ Varint(x)[1] = x
      BY VarintIs
    <3>3. VarintSize(x) \in Nat \ {0}
      BY VarintSizeIs
    <3> HIDE DEF el
    <3> QED BY <3>1, <3>2, <3>3
  <2> QED BY <2>1, <2>2
<1>2. Elements(type, v) = [k \in 1 .. Len(v) |-> el(v[k])]
  BY DEF Elements
<1>3. \A k \in 1 .. Len(v) : v[k] \in Int
  OBVIOUS
<1>4. Packed(type, v) = FlattenSeq(Elements(type, v))
  BY DEF Packed, Elements
<1> HIDE DEF el
<1>5. /\ Elements(type, v) \in Seq(Seq(Int)) /\ Len(Elements(type, v)) = Len(v)
      /\ \A k \in 1 .. Len(v) : Elements(type, v)[k] = el(v[k])
  <2>1. Elements(type, v) = [k \in 1 .. Len(v) |-> Elements(type, v)[k]]
    BY <1>2
  <2>2. \A k \in 1 .. Len(v) : Elements(type, v)[k] = el(v[k])
    BY <1>2
  <2>3. \A k \in 1 .. Len(v) : Elements(type, v)[k] \in Seq(Int)
    BY <1>1, <1>3, <2>2
  <2>4. Len(v) \in Nat
    OBVIOUS
  <2> QED BY <2>1, <2>2, <2>3, <2>4, SeqIs
<1> QED BY <1>1, <1>3, <1>4, <1>5, OffIs

LEMMA TagForIs ==
    ASSUME NEW id \in DOMAIN Dico, NEW i \in DOMAIN Dico[id]
    PROVE  LET t == TagFor(i, Dico[id][i])
           IN  /\ t \in Tags /\ t \in Nat \ {0} /\ TagItem[t] = i
               /\ TagWire[t] = WireType(Dico[id][i])
<1>1. \E t \in Tags : TagItem[t] = i /\ TagWire[t] = WireType(Dico[id][i])
  BY TagAssumption
<1> QED BY <1>1, TagAssumption DEF TagFor

(* The pieces of an item, by its type.                                     *)
LEMMA PiecesOfVarint ==
    ASSUME NEW i, NEW type, type \in {BOOL, LONG}, NEW v, NEW e
    PROVE  Pieces(i, type, v, e) = <<Varint(v)>>
BY DEF Pieces, BOOL, LONG, DOUBLE, STRING_T, MESSAGE, SEQ_BOOL, SEQ_LONG,
       SEQ_DOUBLE, SEQ_STRING, SEQ_MESSAGE

LEMMA PiecesOfDouble ==
    ASSUME NEW i, NEW type, type = DOUBLE, NEW v, NEW e
    PROVE  Pieces(i, type, v, e) = <<Number(v, DoubleSize)>>
BY DEF Pieces, BOOL, LONG, DOUBLE, STRING_T, MESSAGE, SEQ_BOOL, SEQ_LONG,
       SEQ_DOUBLE, SEQ_STRING, SEQ_MESSAGE

LEMMA PiecesOfString ==
    ASSUME NEW i, NEW type, type = STRING_T, NEW v, NEW e
    PROVE  Pieces(i, type, v, e) = <<Prefixed(Blank(v))>>
BY DEF Pieces, BOOL, LONG, DOUBLE, STRING_T, MESSAGE, SEQ_BOOL, SEQ_LONG,
       SEQ_DOUBLE, SEQ_STRING, SEQ_MESSAGE

LEMMA PiecesOfMessage ==
    ASSUME NEW i, NEW type, type = MESSAGE, NEW v, NEW e
    PROVE  Pieces(i, type, v, e) = <<Prefixed(e[<<i, v>>])>>
BY DEF Pieces, BOOL, LONG, DOUBLE, STRING_T, MESSAGE, SEQ_BOOL, SEQ_LONG,
       SEQ_DOUBLE, SEQ_STRING, SEQ_MESSAGE

LEMMA PiecesOfStrings ==
    ASSUME NEW i, NEW type, type = SEQ_STRING, NEW v, NEW e
    PROVE  Pieces(i, type, v, e) = [k \in 1 .. Len(v) |-> Prefixed(Blank(v[k]))]
BY DEF Pieces, BOOL, LONG, DOUBLE, STRING_T, MESSAGE, SEQ_BOOL, SEQ_LONG,
       SEQ_DOUBLE, SEQ_STRING, SEQ_MESSAGE

LEMMA PiecesOfMessages ==
    ASSUME NEW i, NEW type, type = SEQ_MESSAGE, NEW v, NEW e
    PROVE  Pieces(i, type, v, e) = [k \in 1 .. Len(v) |-> Prefixed(e[<<i, v[k]>>])]
BY DEF Pieces, BOOL, LONG, DOUBLE, STRING_T, MESSAGE, SEQ_BOOL, SEQ_LONG,
       SEQ_DOUBLE, SEQ_STRING, SEQ_MESSAGE

LEMMA PiecesOfPacked ==
    ASSUME NEW i, NEW type, type \in {SEQ_BOOL, SEQ_LONG, SEQ_DOUBLE}, NEW v, NEW e
    PROVE  Pieces(i, type, v, e) = IF v = <<>> THEN <<>> ELSE <<Prefixed(Packed(type, v))>>
BY DEF Pieces, BOOL, LONG, DOUBLE, STRING_T, MESSAGE, SEQ_BOOL, SEQ_LONG,
       SEQ_DOUBLE, SEQ_STRING, SEQ_MESSAGE

\* The function e has tokens for the messages in S.
Written(S, e) == \A m \in S : e[m] \in Seq(Int)

ItemTypes == {BOOL, LONG, DOUBLE, STRING_T, MESSAGE, SEQ_BOOL, SEQ_LONG, SEQ_DOUBLE, SEQ_STRING,
              SEQ_MESSAGE}

LEMMA ItemTypesAre == Types \ {EMPTY} = ItemTypes
BY DEF Types, ItemTypes, EMPTY, BOOL, LONG, DOUBLE, STRING_T, MESSAGE, SEQ_BOOL, SEQ_LONG,
       SEQ_DOUBLE, SEQ_STRING, SEQ_MESSAGE

LEMMA PiecesAre ==
    ASSUME NEW S, NEW e, Written(S, e), NEW i, NEW type \in ItemTypes, NEW v, Holds(i, type, v, S)
    PROVE  Pieces(i, type, v, e) \in Seq(Seq(Int))
<1>1. CASE type \in {BOOL, LONG}
  <2>1. v \in Int
    BY <1>1 DEF Holds
  <2>2. Varint(v) \in Seq(Int)
    BY <2>1, VarintIs
  <2>3. Pieces(i, type, v, e) = <<Varint(v)>>
    BY <1>1, PiecesOfVarint
  <2> QED BY <2>2, <2>3, OneIs
<1>2. CASE type = DOUBLE
  <2>1. v \in Int /\ DoubleSize \in Nat \ {0}
    BY <1>2, TagAssumption DEF Holds
  <2>2. Number(v, DoubleSize) \in Seq(Int)
    BY <2>1, NumberIs
  <2>3. Pieces(i, type, v, e) = <<Number(v, DoubleSize)>>
    BY <1>2, PiecesOfDouble
  <2> QED BY <2>2, <2>3, OneIs
<1>3. CASE type = STRING_T
  <2>1. v \in Nat
    BY <1>3 DEF Holds
  <2>2. Prefixed(Blank(v)) \in Seq(Int)
    BY <2>1, BlankIs, PrefixedIs
  <2>3. Pieces(i, type, v, e) = <<Prefixed(Blank(v))>>
    BY <1>3, PiecesOfString
  <2> QED BY <2>2, <2>3, OneIs
<1>4. CASE type = MESSAGE
  <2>1. e[<<i, v>>] \in Seq(Int)
    BY <1>4 DEF Holds, Written
  <2>2. Prefixed(e[<<i, v>>]) \in Seq(Int)
    BY <2>1, PrefixedIs
  <2>3. Pieces(i, type, v, e) = <<Prefixed(e[<<i, v>>])>>
    BY <1>4, PiecesOfMessage
  <2> QED BY <2>2, <2>3, OneIs
<1>5. CASE type = SEQ_STRING
  <2>1. v \in Seq(Nat)
    BY <1>5 DEF Holds
  <2>2. ASSUME NEW k \in 1 .. Len(v) PROVE Prefixed(Blank(v[k])) \in Seq(Int)
    <3>1. v[k] \in Nat
      BY <2>1
    <3>2. Blank(v[k]) \in Seq(Int)
      BY <3>1, BlankIs
    <3> QED BY <3>2, PrefixedIs
  <2>3. Len(v) \in Nat
    BY <2>1
  <2> DEFINE f == [k \in 1 .. Len(v) |-> Prefixed(Blank(v[k]))]
  <2>4. f = [k \in 1 .. Len(v) |-> f[k]] /\ \A k \in 1 .. Len(v) : f[k] \in Seq(Int)
    BY <2>2
  <2>5. Pieces(i, type, v, e) = f
    BY <1>5, PiecesOfStrings
  <2> HIDE DEF f
  <2> QED BY <2>3, <2>4, <2>5, SeqIs
<1>6. CASE type = SEQ_MESSAGE
  <2>1. PICK M : v \in Seq(M) /\ \A m \in M : <<i, m>> \in S
    BY <1>6 DEF Holds
  <2>2. \A k \in 1 .. Len(v) : v[k] \in M
    BY <2>1
  <2>3. \A k \in 1 .. Len(v) : e[<<i, v[k]>>] \in Seq(Int)
    BY <2>1, <2>2 DEF Written
  <2>4. \A k \in 1 .. Len(v) : Prefixed(e[<<i, v[k]>>]) \in Seq(Int)
    BY <2>3, PrefixedIs
  <2>5. Len(v) \in Nat
    BY <2>1
  <2> DEFINE f == [k \in 1 .. Len(v) |-> Prefixed(e[<<i, v[k]>>])]
  <2>6. f = [k \in 1 .. Len(v) |-> f[k]] /\ \A k \in 1 .. Len(v) : f[k] \in Seq(Int)
    BY <2>4
  <2>7. Pieces(i, type, v, e) = f
    BY <1>6, PiecesOfMessages
  <2> HIDE DEF f
  <2> QED BY <2>5, <2>6, <2>7, SeqIs
<1>7. CASE type \in {SEQ_BOOL, SEQ_LONG, SEQ_DOUBLE}
  <2>1. v \in Seq(Int)
    BY <1>7 DEF Holds
  <2>2. Prefixed(Packed(type, v)) \in Seq(Int)
    BY <2>1, PackedIs, PrefixedIs
  <2>3. Pieces(i, type, v, e) = IF v = <<>> THEN <<>> ELSE <<Prefixed(Packed(type, v))>>
    BY <1>7, PiecesOfPacked
  <2>4. <<>> \in Seq(Seq(Int))
    OBVIOUS
  <2> QED BY <2>2, <2>3, <2>4, OneIs
<1> QED BY <1>1, <1>2, <1>3, <1>4, <1>5, <1>6, <1>7 DEF ItemTypes

(* What is written of an item is its pieces, each behind the tag.          *)
LEMMA EncodeItemIs ==
    ASSUME NEW S, NEW e, Written(S, e), NEW id, NEW values, WellFormed(id, values, S), NEW i,
           i \in DOMAIN values
    PROVE  LET p == Pieces(i, Dico[id][i], values[i], e)
               q == EncodeItem(id, values, i, e)
           IN  /\ p \in Seq(Seq(Int)) /\ q \in Seq(Seq(Int)) /\ Len(q) = Len(p)
               /\ \A k \in 1 .. Len(p) : q[k] = <<TagFor(i, Dico[id][i])>> \o p[k]
               /\ \A k \in 1 .. Len(p) : Len(q[k]) = 1 + Len(p[k])
               /\ \A k \in 1 .. Len(p) : q[k][1] = TagFor(i, Dico[id][i])
               /\ Dico[id][i] \in ItemTypes /\ Holds(i, Dico[id][i], values[i], S)
<1> DEFINE type == Dico[id][i]
           p == Pieces(i, type, values[i], e)
           q == EncodeItem(id, values, i, e)
           t == TagFor(i, type)
<1>1. Holds(i, type, values[i], S) /\ id \in DOMAIN Dico /\ i \in DOMAIN Dico[id]
  BY DEF WellFormed
<1>2. type \in ItemTypes
  BY <1>1, ItemTypesAre, TagAssumption
<1>3. p \in Seq(Seq(Int))
  BY <1>1, <1>2, PiecesAre
<1>4. t \in Nat
  BY <1>1, TagForIs
<1>5. q = [k \in 1 .. Len(p) |-> <<t>> \o p[k]]
  BY DEF EncodeItem, Tagged
<1> HIDE DEF type, p, q, t
<1>6. ASSUME NEW k \in 1 .. Len(p)
      PROVE  /\ <<t>> \o p[k] \in Seq(Int) /\ Len(<<t>> \o p[k]) = 1 + Len(p[k])
             /\ (<<t>> \o p[k])[1] = t
  <2>1. p[k] \in Seq(Int) /\ <<t>> \in Seq(Int) /\ Len(<<t>>) = 1 /\ <<t>>[1] = t
    BY <1>3, <1>4
  <2> DEFINE c == p[k]
             d == <<t>>
  <2>2. c \in Seq(Int) /\ d \in Seq(Int) /\ Len(d) = 1 /\ d[1] = t /\ 1 \in 1 .. Len(d)
    BY <2>1
  <2> HIDE DEF c, d
  <2>3. d \o c \in Seq(Int) /\ Len(d \o c) = 1 + Len(c) /\ (d \o c)[1] = t
    BY <2>2, CatIs
  <2> QED BY <2>3 DEF c, d
<1>7. q \in Seq(Seq(Int)) /\ Len(q) = Len(p) /\ \A k \in 1 .. Len(p) : q[k] = <<t>> \o p[k]
  <2>1. q = [k \in 1 .. Len(p) |-> q[k]] /\ \A k \in 1 .. Len(p) : q[k] = <<t>> \o p[k]
    BY <1>5
  <2>2. \A k \in 1 .. Len(p) : q[k] \in Seq(Int)
    BY <1>6, <2>1
  <2>3. Len(p) \in Nat
    BY <1>3
  <2> QED BY <2>1, <2>2, <2>3, SeqIs
<1>8. /\ p \in Seq(Seq(Int)) /\ q \in Seq(Seq(Int)) /\ Len(q) = Len(p)
      /\ \A k \in 1 .. Len(p) : q[k] = <<t>> \o p[k]
      /\ \A k \in 1 .. Len(p) : Len(q[k]) = 1 + Len(p[k])
      /\ \A k \in 1 .. Len(p) : q[k][1] = t
  BY <1>3, <1>6, <1>7
<1> QED BY <1>1, <1>2, <1>8 DEF type, p, q, t

LEMMA NoItemIsEmpty ==
    ASSUME NEW id, NEW values, NEW i, i \notin DOMAIN values, NEW e
    PROVE  EncodeItem(id, values, i, e) = <<>>
BY DEF EncodeItem

\* The pieces of a message, item by item.
ItemChunks(id, values, e) == [i \in 1 .. IdMax |-> EncodeItem(id, values, i, e)]

(* What is written of a message, item by item.                             *)
LEMMA ChunksAre ==
    ASSUME NEW S, NEW e, Written(S, e), NEW id, NEW values, WellFormed(id, values, S)
    PROVE  /\ ItemChunks(id, values, e) \in Seq(Seq(Seq(Int)))
           /\ Len(ItemChunks(id, values, e)) = IdMax /\ IdMax \in Nat
           /\ \A i \in 1 .. IdMax : ItemChunks(id, values, e)[i] = EncodeItem(id, values, i, e)
           /\ Chunks(id, values, e) = FlattenSeq(ItemChunks(id, values, e))
           /\ Chunks(id, values, e) \in Seq(Seq(Int))
           /\ EncodeItems(id, values, e) = FlattenSeq(Chunks(id, values, e))
           /\ EncodeItems(id, values, e) \in Seq(Int)
           /\ \A i \in 1 .. IdMax : EncodeItem(id, values, i, e) \in Seq(Seq(Int))
<1> DEFINE q == ItemChunks(id, values, e)
           c == Chunks(id, values, e)
<1>1. \A i \in 1 .. IdMax : EncodeItem(id, values, i, e) \in Seq(Seq(Int))
  <2> SUFFICES ASSUME NEW i \in 1 .. IdMax PROVE EncodeItem(id, values, i, e) \in Seq(Seq(Int))
    OBVIOUS
  <2>1. CASE i \in DOMAIN values
    BY <2>1, EncodeItemIs
  <2>2. CASE i \notin DOMAIN values
    <3>1. EncodeItem(id, values, i, e) = <<>>
      BY <2>2, NoItemIsEmpty
    <3> QED BY <3>1
  <2> QED BY <2>1, <2>2
<1>2. IdMax \in Nat
  BY TagAssumption
<1>3. /\ q \in Seq(Seq(Seq(Int))) /\ Len(q) = IdMax
      /\ \A i \in 1 .. IdMax : q[i] = EncodeItem(id, values, i, e)
  BY <1>1, <1>2 DEF ItemChunks
<1>4. c = FlattenSeq(q)
  BY DEF Chunks, ItemChunks
<1> HIDE DEF q, c
<1>5. c \in Seq(Seq(Int))
  BY <1>3, <1>4, OffIs
<1>6. EncodeItems(id, values, e) = FlattenSeq(c)
  BY DEF EncodeItems, c
<1>7. EncodeItems(id, values, e) \in Seq(Int)
  BY <1>5, <1>6, OffIs
<1> QED BY <1>1, <1>2, <1>3, <1>4, <1>5, <1>6, <1>7 DEF q, c

(* What is written of a message depends on what is written of its parts.   *)
LEMMA PartsDecide ==
    ASSUME NEW S, NEW id, NEW values, WellFormed(id, values, S), NEW d, NEW e,
           \A m \in Parts(id, values) : d[m] = e[m]
    PROVE  EncodeItems(id, values, d) = EncodeItems(id, values, e)
<1>1. ASSUME NEW i \in 1 .. IdMax
      PROVE  EncodeItem(id, values, i, d) = EncodeItem(id, values, i, e)
  <2>1. CASE i \in DOMAIN values
    <3> DEFINE type == Dico[id][i]
               v == values[i]
    <3>1. Pieces(i, type, v, d) = Pieces(i, type, v, e)
      <4>0. type \in ItemTypes
        BY <2>1, ItemTypesAre, TagAssumption DEF WellFormed
      <4>1. CASE type = MESSAGE
        <5>1. d[<<i, v>>] = e[<<i, v>>]
          BY <2>1, <4>1, PartIs
        <5> HIDE DEF type, v
        <5>2. Pieces(i, type, v, d) = <<Prefixed(d[<<i, v>>])>>
              /\ Pieces(i, type, v, e) = <<Prefixed(e[<<i, v>>])>>
          BY <4>1, PiecesOfMessage
        <5> QED BY <5>1, <5>2
      <4>2. CASE type = SEQ_MESSAGE
        <5>1. \E M : v \in Seq(M)
          BY <2>1, <4>2 DEF WellFormed, Holds
        <5>2. DOMAIN v = 1 .. Len(v)
          BY <5>1
        <5>3. \A k \in 1 .. Len(v) : d[<<i, v[k]>>] = e[<<i, v[k]>>]
          BY <2>1, <4>2, <5>2, PartIs
        <5> HIDE DEF type, v
        <5>4. [k \in 1 .. Len(v) |-> Prefixed(d[<<i, v[k]>>])]
                = [k \in 1 .. Len(v) |-> Prefixed(e[<<i, v[k]>>])]
          BY <5>3
        <5>5. Pieces(i, type, v, d) = [k \in 1 .. Len(v) |-> Prefixed(d[<<i, v[k]>>])]
          BY <4>2, PiecesOfMessages
        <5>6. Pieces(i, type, v, e) = [k \in 1 .. Len(v) |-> Prefixed(e[<<i, v[k]>>])]
          BY <4>2, PiecesOfMessages
        <5> QED BY <5>4, <5>5, <5>6
      <4>3. CASE type \notin {MESSAGE, SEQ_MESSAGE}
        <5> HIDE DEF type, v
        <5>1. CASE type \in {BOOL, LONG}
          BY <5>1, PiecesOfVarint
        <5>2. CASE type = DOUBLE
          BY <5>2, PiecesOfDouble
        <5>3. CASE type = STRING_T
          BY <5>3, PiecesOfString
        <5>4. CASE type = SEQ_STRING
          <6>1. \A f : Pieces(i, type, v, f) = [k \in 1 .. Len(v) |-> Prefixed(Blank(v[k]))]
            BY <5>4, PiecesOfStrings
          <6> QED BY <6>1
        <5>5. CASE type \in {SEQ_BOOL, SEQ_LONG, SEQ_DOUBLE}
          <6>1. /\ Pieces(i, type, v, d) = IF v = <<>> THEN <<>> ELSE <<Prefixed(Packed(type, v))>>
                /\ Pieces(i, type, v, e) = IF v = <<>> THEN <<>> ELSE <<Prefixed(Packed(type, v))>>
            BY <5>5, PiecesOfPacked
          <6> QED BY <6>1
        <5> QED BY <4>0, <4>3, <5>1, <5>2, <5>3, <5>4, <5>5 DEF ItemTypes
      <4> QED BY <4>1, <4>2, <4>3
    <3> QED BY <2>1, <3>1 DEF EncodeItem
  <2>2. CASE i \notin DOMAIN values
    BY <2>2, NoItemIsEmpty
  <2> QED BY <2>1, <2>2
<1>2. [i \in 1 .. IdMax |-> EncodeItem(id, values, i, d)]
        = [i \in 1 .. IdMax |-> EncodeItem(id, values, i, e)]
  BY <1>1
<1> QED BY <1>2 DEF EncodeItems, Chunks

LEMMA PartsDecideTrimmed ==
    ASSUME NEW S, NEW id, NEW values, WellFormed(id, values, S), NEW d, NEW e,
           \A m \in Parts(id, values) : d[m] = e[m]
    PROVE  TrimItems(id, values, d) = TrimItems(id, values, e)
<1> DEFINE D == {j \in DOMAIN values : Repeated(Dico[id][j]) => values[j] # <<>>}
           new(i, f) ==
             CASE Dico[id][i] = MESSAGE     -> f[<<i, values[i]>>]
               [] Dico[id][i] = SEQ_MESSAGE -> [k \in 1 .. Len(values[i]) |-> f[<<i, values[i][k]>>]]
               [] OTHER                     -> values[i]
<1>1. ASSUME NEW i \in D PROVE new(i, d) = new(i, e)
  <2>0. i \in DOMAIN values
    OBVIOUS
  <2> DEFINE v == values[i]
  <2>1. CASE Dico[id][i] = MESSAGE
    <3>1. d[<<i, v>>] = e[<<i, v>>]
      BY <2>0, <2>1, PartIs
    <3> QED BY <2>1, <3>1
  <2>2. CASE Dico[id][i] = SEQ_MESSAGE
    <3>1. \E M : v \in Seq(M)
      BY <2>0, <2>2 DEF WellFormed, Holds
    <3>2. DOMAIN v = 1 .. Len(v)
      BY <3>1
    <3>3. \A k \in 1 .. Len(v) : d[<<i, v[k]>>] = e[<<i, v[k]>>]
      BY <2>0, <2>2, <3>2, PartIs
    <3>4. [k \in 1 .. Len(v) |-> d[<<i, v[k]>>]] = [k \in 1 .. Len(v) |-> e[<<i, v[k]>>]]
      BY <3>3
    <3> QED BY <2>2, <3>4 DEF MESSAGE, SEQ_MESSAGE
  <2>3. CASE Dico[id][i] # MESSAGE /\ Dico[id][i] # SEQ_MESSAGE
    BY <2>3
  <2> QED BY <2>1, <2>2, <2>3
<1>2. TrimItems(id, values, d) = [i \in D |-> new(i, d)]
      /\ TrimItems(id, values, e) = [i \in D |-> new(i, e)]
  BY DEF TrimItems
<1> HIDE DEF D, new
<1> QED BY <1>1, <1>2

(***************************************************************************)
(* The functions that encode() and what is kept are, for the messages of S.*)
(***************************************************************************)
Codec(S, e, t) ==
  \A m \in S : /\ m = <<m[1], m[2]>> /\ WellFormed(m[1], m[2], S)
               /\ e[m] \in Seq(Int)
               /\ e[m] = EncodeItems(m[1], m[2], e)
               /\ t[m] = TrimItems(m[1], m[2], t)

\* For the messages from level n on.
GoodFrom(id, values, e, t, n) ==
  \A x \in n .. MaxDepth : \A m \in Level(id, values, x) :
    e[m] = EncodeItems(m[1], m[2], e) /\ t[m] = TrimItems(m[1], m[2], t)

LEMMA OneLevelMore ==
    ASSUME NEW id, NEW values, IsMessage(id, values), NEW n \in Nat, n + 1 <= MaxDepth,
           NEW e, NEW t, DOMAIN e = Within(id, values), DOMAIN t = Within(id, values),
           GoodFrom(id, values, e, t, n + 1)
    PROVE  \E f, u : /\ DOMAIN f = Within(id, values) /\ DOMAIN u = Within(id, values)
                     /\ GoodFrom(id, values, f, u, n)
<1> DEFINE S == Within(id, values)
           L(x) == Level(id, values, x)
           f == [m \in S |-> IF m \in L(n) THEN EncodeItems(m[1], m[2], e) ELSE e[m]]
           u == [m \in S |-> IF m \in L(n) THEN TrimItems(m[1], m[2], t) ELSE t[m]]
<1>0. /\ MaxDepth \in Nat /\ \A x \in 0 .. MaxDepth : L(x) \subseteq S
      /\ Shallow(id, values)
      /\ \A m \in S : m[1] \in DOMAIN Dico /\ Typed(m[1], m[2])
  BY WithinCloses, TagAssumption DEF Within
<1>1. ASSUME NEW x \in n .. MaxDepth, NEW m \in L(x)
      PROVE  \A p \in Parts(m[1], m[2]) : p \in S /\ f[p] = e[p] /\ u[p] = t[p]
  <2> SUFFICES ASSUME NEW p \in Parts(m[1], m[2]) PROVE p \in S /\ f[p] = e[p] /\ u[p] = t[p]
    OBVIOUS
  <2>1. x # MaxDepth
    BY <1>0, <1>1 DEF Shallow
  <2>2. x \in Nat /\ x + 1 \in 0 .. MaxDepth /\ x + 1 \in n + 1 .. MaxDepth
    BY <1>0, <2>1
  <2>3. p \in L(x + 1)
    BY <1>1, <2>2, PartsNext
  <2>4. p \in S
    BY <1>0, <2>2, <2>3
  <2>5. e[p] = EncodeItems(p[1], p[2], e) /\ t[p] = TrimItems(p[1], p[2], t)
    BY <2>2, <2>3 DEF GoodFrom
  <2> HIDE DEF S, L
  <2> QED BY <2>4, <2>5
<1>2. ASSUME NEW x \in n .. MaxDepth, NEW m \in L(x)
      PROVE  /\ f[m] = EncodeItems(m[1], m[2], e) /\ u[m] = TrimItems(m[1], m[2], t)
  <2>1. m \in S
    <3>1. x \in 0 .. MaxDepth
      BY <1>0
    <3> QED BY <1>0, <1>2, <3>1
  <2>2. m \notin L(n) => x \in n + 1 .. MaxDepth
    BY <1>0, <1>2
  <2>3. m \notin L(n) => e[m] = EncodeItems(m[1], m[2], e) /\ t[m] = TrimItems(m[1], m[2], t)
    BY <1>2, <2>2 DEF GoodFrom
  <2> HIDE DEF S, L
  <2> QED BY <2>1, <2>3
<1>3. ASSUME NEW x \in n .. MaxDepth, NEW m \in L(x)
      PROVE  /\ EncodeItems(m[1], m[2], f) = EncodeItems(m[1], m[2], e)
             /\ TrimItems(m[1], m[2], u) = TrimItems(m[1], m[2], t)
  <2>1. \A p \in Parts(m[1], m[2]) : p \in S /\ f[p] = e[p] /\ u[p] = t[p]
    BY <1>1, <1>3
  <2>2. x \in 0 .. MaxDepth
    BY <1>0
  <2>3. m \in S
    BY <1>0, <1>3, <2>2
  <2>4. WellFormed(m[1], m[2], S)
    <3> HIDE DEF S
    <3> QED BY <1>0, <2>1, <2>3, TypedIsWellFormed
  <2> HIDE DEF S, f, u
  <2> QED BY <2>1, <2>4, PartsDecide, PartsDecideTrimmed
<1>4. DOMAIN f = S /\ DOMAIN u = S
  OBVIOUS
<1> HIDE DEF f, u
<1>5. GoodFrom(id, values, f, u, n)
  BY <1>2, <1>3 DEF GoodFrom
<1> QED BY <1>4, <1>5

LEMMA GoodExists ==
    ASSUME NEW id, NEW values, IsMessage(id, values)
    PROVE  \E e, t : /\ DOMAIN e = Within(id, values) /\ DOMAIN t = Within(id, values)
                     /\ GoodFrom(id, values, e, t, 0)
<1> DEFINE D == MaxDepth
           Good(n) == \E e, t : /\ DOMAIN e = Within(id, values) /\ DOMAIN t = Within(id, values)
                                /\ GoodFrom(id, values, e, t, n)
           A == {k \in Nat : k <= D => Good(D - k)}
<1>0. D \in Nat
  BY TagAssumption
<1>1. 0 \in A
  <2> DEFINE e == [m \in Within(id, values) |-> <<>>]
  <2>1. Level(id, values, D) = {}
    BY DEF IsMessage
  <2>2. D - 0 = D /\ D .. D = {D}
    BY <1>0
  <2>3. GoodFrom(id, values, e, e, D)
    BY <2>1, <2>2 DEF GoodFrom
  <2>4. DOMAIN e = Within(id, values)
    OBVIOUS
  <2> HIDE DEF e
  <2>5. Good(D)
    BY <2>3, <2>4
  <2> HIDE DEF Good
  <2> QED BY <2>2, <2>5
<1>2. ASSUME NEW k \in A PROVE k + 1 \in A
  <2> SUFFICES ASSUME k + 1 <= D PROVE Good(D - (k + 1))
    OBVIOUS
  <2> DEFINE n == D - (k + 1)
  <2>1. n \in Nat /\ n + 1 <= MaxDepth /\ n + 1 = D - k /\ k <= D
    BY <1>0
  <2>2. Good(D - k)
    <3> HIDE DEF Good
    <3> QED BY <2>1
  <2>3. Good(n + 1)
    <3> HIDE DEF Good, D, n
    <3> QED BY <2>1, <2>2
  <2> HIDE DEF n
  <2>4. Good(n)
    BY <2>1, <2>3, OneLevelMore
  <2> HIDE DEF Good
  <2> QED BY <2>4 DEF n
<1>3. A = Nat
  <2>1. A \in SUBSET Nat
    OBVIOUS
  <2> HIDE DEF A
  <2> QED BY <1>1, <1>2, <2>1, NatSetInduction
<1>4. Good(D - D) /\ D - D = 0
  <2>1. D \in A /\ D <= D
    BY <1>0, <1>3
  <2> HIDE DEF Good
  <2> QED BY <1>0, <2>1
<1> HIDE DEF D
<1>5. Good(0)
  <2> HIDE DEF Good
  <2> QED BY <1>4
<1> QED BY <1>5

(* encode() of a message, as a function of the messages within it.         *)
LEMMA CodecIs ==
    ASSUME NEW id, NEW values, IsMessage(id, values)
    PROVE  \E S, e, t : /\ Codec(S, e, t) /\ Closed(S) /\ <<id, values>> \in S
                        /\ Encode(id, values) = e[<<id, values>>]
                        /\ Trimmed(id, values) = t[<<id, values>>]
<1> DEFINE S == Within(id, values)
           L(x) == Level(id, values, x)
           IsE(e) == e = [m \in S |-> EncodeItems(m[1], m[2], e)]
           IsT(t) == t = [m \in S |-> TrimItems(m[1], m[2], t)]
<1>0. /\ Closed(S) /\ Shallow(id, values) /\ <<id, values>> \in S
      /\ \A m \in S : m = <<m[1], m[2]>> /\ m[1] \in DOMAIN Dico /\ Typed(m[1], m[2])
  BY WithinCloses, ItselfIsWithin
<1>1. PICK e0, t0 : DOMAIN e0 = S /\ DOMAIN t0 = S /\ GoodFrom(id, values, e0, t0, 0)
  BY GoodExists
<1>2. ASSUME NEW m \in S
      PROVE  e0[m] = EncodeItems(m[1], m[2], e0) /\ t0[m] = TrimItems(m[1], m[2], t0)
  <2>1. PICK x \in 0 .. MaxDepth : m \in L(x)
    BY DEF Within
  <2> QED BY <1>1, <2>1 DEF GoodFrom
<1> DEFINE e1 == [m \in S |-> e0[m]]
           t1 == [m \in S |-> t0[m]]
<1>3. ASSUME NEW m \in S
      PROVE  e0[m] = EncodeItems(m[1], m[2], e1) /\ t0[m] = TrimItems(m[1], m[2], t1)
  <2>1. WellFormed(m[1], m[2], S)
    BY <1>0 DEF Closed
  <2>2. \A p \in Parts(m[1], m[2]) : e1[p] = e0[p] /\ t1[p] = t0[p]
    <3>1. Parts(m[1], m[2]) \subseteq S
      BY <1>0, PartsAreWithin
    <3> HIDE DEF S
    <3> QED BY <3>1
  <2> HIDE DEF S, e1, t1
  <2>3. EncodeItems(m[1], m[2], e1) = EncodeItems(m[1], m[2], e0)
    BY <2>1, <2>2, PartsDecide
  <2>4. TrimItems(m[1], m[2], t1) = TrimItems(m[1], m[2], t0)
    BY <2>1, <2>2, PartsDecideTrimmed
  <2> QED BY <1>2, <2>3, <2>4
<1>4. IsE(e1) /\ IsT(t1)
  <2>1. \A m \in S : e0[m] = EncodeItems(m[1], m[2], e1)
    BY <1>3
  <2>2. \A m \in S : t0[m] = TrimItems(m[1], m[2], t1)
    BY <1>3
  <2>3. e1 = [m \in S |-> EncodeItems(m[1], m[2], e1)]
    BY <2>1
  <2>4. t1 = [m \in S |-> TrimItems(m[1], m[2], t1)]
    BY <2>2
  <2> QED BY <2>3, <2>4
<1> DEFINE e == CHOOSE f : IsE(f)
           t == CHOOSE f : IsT(f)
<1>5. IsE(e) /\ IsT(t)
  <2> HIDE DEF IsE, IsT, e1, t1
  <2> QED BY <1>4
<1>6. Encode(id, values) = e[<<id, values>>]
  BY DEF Encode
<1>7. Trimmed(id, values) = t[<<id, values>>]
  BY DEF Trimmed
<1> HIDE DEF e, t
<1>8. \A m \in S : e[m] = EncodeItems(m[1], m[2], e) /\ t[m] = TrimItems(m[1], m[2], t)
  <2> HIDE DEF S
  <2>1. \A m \in S : e[m] = EncodeItems(m[1], m[2], e)
    BY <1>5
  <2>2. \A m \in S : t[m] = TrimItems(m[1], m[2], t)
    BY <1>5
  <2> QED BY <2>1, <2>2
<1> DEFINE A == {k \in Nat : k <= MaxDepth => \A m \in L(MaxDepth - k) : e[m] \in Seq(Int)}
<1>9. MaxDepth \in Nat /\ \A x \in 0 .. MaxDepth : L(x) \subseteq S
  BY TagAssumption DEF Within
<1>10. 0 \in A
  <2>1. L(MaxDepth) = {} /\ MaxDepth - 0 = MaxDepth
    BY <1>0, <1>9 DEF Shallow
  <2> HIDE DEF L
  <2> QED BY <2>1
<1>11. ASSUME NEW k \in A PROVE k + 1 \in A
  <2> SUFFICES ASSUME k + 1 <= MaxDepth, NEW m \in L(MaxDepth - (k + 1))
               PROVE  e[m] \in Seq(Int)
    OBVIOUS
  <2>1. PICK n : n = MaxDepth - (k + 1)
    OBVIOUS
  <2>2. /\ n \in Nat /\ n + 1 \in 0 .. MaxDepth /\ n \in 0 .. MaxDepth /\ n + 1 = MaxDepth - k
        /\ k <= MaxDepth /\ m \in L(n)
    BY <1>9, <2>1
  <2>3. m \in S /\ Parts(m[1], m[2]) \subseteq L(n + 1)
    BY <1>9, <2>2, PartsNext
  <2>4. \A p \in L(n + 1) : e[p] \in Seq(Int)
    <3> HIDE DEF L
    <3> QED BY <2>2
  <2> DEFINE P == Parts(m[1], m[2])
  <2>5. Written(P, e)
    BY <2>3, <2>4 DEF Written
  <2>6. WellFormed(m[1], m[2], P)
    BY <1>0, <2>3, TypedIsWellFormed
  <2>7. EncodeItems(m[1], m[2], e) \in Seq(Int)
    <3> HIDE DEF P
    <3> QED BY <2>5, <2>6, ChunksAre
  <2> QED BY <1>8, <2>3, <2>7
<1>12. A = Nat
  <2>1. A \in SUBSET Nat
    OBVIOUS
  <2> HIDE DEF A
  <2> QED BY <1>10, <1>11, <2>1, NatSetInduction
<1>13. ASSUME NEW m \in S PROVE e[m] \in Seq(Int)
  <2>1. PICK x \in 0 .. MaxDepth : m \in L(x)
    BY DEF Within
  <2>2. PICK k : k = MaxDepth - x
    OBVIOUS
  <2>3. k \in Nat /\ k <= MaxDepth /\ MaxDepth - k = x
    BY <1>9, <2>2
  <2> HIDE DEF L
  <2> QED BY <1>12, <2>1, <2>3
<1>14. \A m \in S : m = <<m[1], m[2]>> /\ WellFormed(m[1], m[2], S)
  BY <1>0 DEF Closed
<1> HIDE DEF S
<1>15. Codec(S, e, t)
  BY <1>8, <1>13, <1>14 DEF Codec
<1> QED BY <1>0, <1>6, <1>7, <1>15

(***************************************************************************)
(* How deep a message is: n levels below it there is none.                 *)
(***************************************************************************)
Chain(p, n, g) == /\ p \in g[0] /\ g[n] = {}
                  /\ \A k \in 0 .. n - 1 : \A m \in g[k] : Parts(m[1], m[2]) \subseteq g[k + 1]

EndsIn(p, n) == n \in Nat /\ \E g : Chain(p, n, g)

LEMMA EndsLater ==
    ASSUME NEW p, NEW n, EndsIn(p, n), NEW k \in Nat, n <= k
    PROVE  EndsIn(p, k)
<1>1. n \in Nat
  BY DEF EndsIn
<1>2. PICK g : Chain(p, n, g)
  BY DEF EndsIn
<1> DEFINE h == [x \in 0 .. k |-> IF x <= n THEN g[x] ELSE {}]
<1>3. p \in h[0]
  BY <1>1, <1>2 DEF Chain
<1>4. h[k] = {}
  BY <1>1, <1>2 DEF Chain
<1>5. ASSUME NEW x \in 0 .. k - 1, NEW m \in h[x] PROVE Parts(m[1], m[2]) \subseteq h[x + 1]
  <2>1. CASE x < n
    <3>1. h[x] = g[x] /\ h[x + 1] = g[x + 1] /\ x \in 0 .. n - 1
      BY <1>1, <2>1
    <3> HIDE DEF h
    <3> QED BY <1>2, <1>5, <3>1 DEF Chain
  <2>2. CASE ~(x < n)
    <3>1. h[x] = {}
      BY <1>1, <1>2, <2>2 DEF Chain
    <3> HIDE DEF h
    <3> QED BY <1>5, <3>1
  <2> QED BY <2>1, <2>2
<1> HIDE DEF h
<1> QED BY <1>3, <1>4, <1>5 DEF EndsIn, Chain

LEMMA EndsAtOnce == \A p : Parts(p[1], p[2]) = {} => EndsIn(p, 1)
<1> SUFFICES ASSUME NEW p, Parts(p[1], p[2]) = {} PROVE EndsIn(p, 1)
  OBVIOUS
<1> DEFINE g == [x \in 0 .. 1 |-> IF x = 0 THEN {p} ELSE {}]
<1>1. g[0] = {p} /\ g[1] = {} /\ 0 .. 1 - 1 = {0} /\ 0 + 1 = 1
  OBVIOUS
<1> HIDE DEF g
<1> QED BY <1>1 DEF EndsIn, Chain

(* A message with one part more.                                           *)
LEMMA EndsWithPart ==
    ASSUME NEW p, NEW q, NEW r, NEW n \in Nat, EndsIn(p, n), EndsIn(q, n - 1),
           Parts(r[1], r[2]) \subseteq Parts(p[1], p[2]) \cup {q}
    PROVE  EndsIn(r, n)
<1>1. PICK g : Chain(p, n, g)
  BY DEF EndsIn
<1>2. PICK h : Chain(q, n - 1, h)
  BY DEF EndsIn
<1>3. n - 1 \in Nat
  BY DEF EndsIn
<1> DEFINE f == [x \in 0 .. n |-> IF x = 0 THEN {r} ELSE g[x] \cup h[x - 1]]
<1>4. f[0] = {r}
  OBVIOUS
<1>5. f[n] = {}
  BY <1>1, <1>2, <1>3 DEF Chain
<1>6. ASSUME NEW x \in 0 .. n - 1, NEW m \in f[x] PROVE Parts(m[1], m[2]) \subseteq f[x + 1]
  <2>1. CASE x = 0
    <3>1. m = r /\ 0 + 1 = 1 /\ 1 \in 0 .. n /\ 1 - 1 = 0
      BY <1>3, <1>6, <2>1
    <3>2. f[1] = g[1] \cup h[0]
      BY <3>1
    <3>3. Parts(p[1], p[2]) \subseteq g[1] /\ q \in h[0]
      <4>1. 0 \in 0 .. n - 1 /\ 0 + 1 = 1
        BY <1>3
      <4> QED BY <1>1, <1>2, <4>1 DEF Chain
    <3> HIDE DEF f
    <3> QED BY <2>1, <3>1, <3>2, <3>3
  <2>2. CASE x # 0 /\ m \in g[x]
    <3>1. f[x + 1] = g[x + 1] \cup h[x]
      BY <1>3, <2>2
    <3>2. Parts(m[1], m[2]) \subseteq g[x + 1]
      BY <1>1, <2>2 DEF Chain
    <3> HIDE DEF f
    <3> QED BY <3>1, <3>2
  <2>3. CASE x # 0 /\ m \in h[x - 1]
    <3>1. f[x + 1] = g[x + 1] \cup h[x]
      BY <1>3, <2>3
    <3>2. x - 1 \in 0 .. (n - 1) - 1 /\ (x - 1) + 1 = x
      BY <1>3, <2>3
    <3>3. Parts(m[1], m[2]) \subseteq h[x]
      BY <1>2, <2>3, <3>2 DEF Chain
    <3> HIDE DEF f
    <3> QED BY <3>1, <3>3
  <2>4. x # 0 => m \in g[x] \cup h[x - 1]
    BY <1>6
  <2> HIDE DEF f
  <2> QED BY <2>1, <2>2, <2>3, <2>4
<1> HIDE DEF f
<1> QED BY <1>3, <1>4, <1>5, <1>6 DEF EndsIn, Chain

LEMMA EndsWithParts ==
    ASSUME NEW p, NEW r, NEW n, EndsIn(p, n), Parts(r[1], r[2]) \subseteq Parts(p[1], p[2])
    PROVE  EndsIn(r, n)
<1>1. PICK g : Chain(p, n, g)
  BY DEF EndsIn
<1>2. n \in Nat /\ n # 0
  BY <1>1 DEF EndsIn, Chain
<1> DEFINE f == [x \in 0 .. n |-> IF x = 0 THEN {r} ELSE g[x]]
<1>3. f[0] = {r} /\ f[n] = {}
  BY <1>1, <1>2 DEF Chain
<1>4. ASSUME NEW x \in 0 .. n - 1, NEW m \in f[x] PROVE Parts(m[1], m[2]) \subseteq f[x + 1]
  <2>0. f[x + 1] = g[x + 1]
    BY <1>2
  <2>1. CASE x = 0
    <3>1. m = r /\ Parts(p[1], p[2]) \subseteq g[x + 1]
      BY <1>1, <1>2, <1>4, <2>1 DEF Chain
    <3> HIDE DEF f
    <3> QED BY <2>0, <3>1
  <2>2. CASE x # 0
    <3>1. m \in g[x]
      <4>1. f[x] = g[x]
        BY <1>2, <2>2
      <4> HIDE DEF f
      <4> QED BY <1>4, <4>1
    <3> HIDE DEF f
    <3> QED BY <1>1, <2>0, <3>1 DEF Chain
  <2> QED BY <2>1, <2>2
<1> HIDE DEF f
<1> QED BY <1>2, <1>3, <1>4 DEF EndsIn, Chain

(* A message that ends within the bound is one that encode() is for.       *)
LEMMA EndsIsShallow ==
    ASSUME NEW id, NEW values, NEW n, EndsIn(<<id, values>>, n), n <= MaxDepth
    PROVE  Shallow(id, values)
<1>1. PICK g : Chain(<<id, values>>, n, g)
  BY DEF EndsIn
<1>2. n \in Nat /\ MaxDepth \in Nat
  BY TagAssumption DEF EndsIn
<1> DEFINE L(x) == Level(id, values, x)
           A == {k \in Nat : k <= n => L(k) \subseteq g[k]}
           B == {k \in Nat : n + k <= MaxDepth => L(n + k) = {}}
<1>3. 0 \in A
  BY <1>1, LevelsAre DEF Chain
<1>4. ASSUME NEW k \in A PROVE k + 1 \in A
  <2> SUFFICES ASSUME k + 1 <= n PROVE L(k + 1) \subseteq g[k + 1]
    OBVIOUS
  <2>1. k \in Nat /\ k + 1 \in 1 .. MaxDepth /\ k \in 0 .. n - 1 /\ k <= n
    BY <1>2
  <2>2. L(k + 1) = UNION {Parts(m[1], m[2]) : m \in L(k)}
    BY <2>1, NextLevel
  <2>3. L(k) \subseteq g[k]
    BY <2>1
  <2>4. \A m \in L(k) : Parts(m[1], m[2]) \subseteq g[k + 1]
    BY <1>1, <2>1, <2>3 DEF Chain
  <2> HIDE DEF L
  <2> QED BY <2>2, <2>4
<1>5. A = Nat
  <2>1. A \in SUBSET Nat
    OBVIOUS
  <2> HIDE DEF A
  <2> QED BY <1>3, <1>4, <2>1, NatSetInduction
<1>6. 0 \in B
  <2>1. n \in A /\ n <= n /\ n + 0 = n
    BY <1>2, <1>5
  <2>2. L(n) = {}
    BY <1>1, <2>1 DEF Chain
  <2> HIDE DEF L
  <2> QED BY <2>1, <2>2
<1>7. ASSUME NEW k \in B PROVE k + 1 \in B
  <2> SUFFICES ASSUME n + (k + 1) <= MaxDepth PROVE L(n + (k + 1)) = {}
    OBVIOUS
  <2>1. PICK x : x = n + k
    OBVIOUS
  <2>2. x \in Nat /\ x + 1 \in 1 .. MaxDepth /\ x + 1 = n + (k + 1) /\ x <= MaxDepth
    BY <1>2, <2>1
  <2>3. L(x) = {}
    BY <2>1, <2>2
  <2>4. L(x + 1) = UNION {Parts(m[1], m[2]) : m \in L(x)}
    BY <2>2, NextLevel
  <2> HIDE DEF L
  <2>5. L(x + 1) = {}
    BY <2>3, <2>4
  <2> QED BY <2>2, <2>5
<1>8. B = Nat
  <2>1. B \in SUBSET Nat
    OBVIOUS
  <2> HIDE DEF B
  <2> QED BY <1>6, <1>7, <2>1, NatSetInduction
<1>9. PICK k : k = MaxDepth - n
  OBVIOUS
<1>10. k \in Nat /\ n + k = MaxDepth
  BY <1>2, <1>9
<1>11. L(n + k) = {}
  <2>1. n + k <= MaxDepth
    BY <1>2, <1>10
  <2> HIDE DEF L
  <2> QED BY <1>8, <1>10, <2>1
<1> QED BY <1>10, <1>11 DEF Shallow

(* The parts of a message with one value more.                             *)
LEMMA PartsOfPut ==
    ASSUME NEW id, NEW values, NEW i, NEW v, NEW p \in Parts(id, Put(values, i, v))
    PROVE  \/ p \in Parts(id, values)
           \/ Dico[id][i] = MESSAGE /\ p = <<i, v>>
           \/ Dico[id][i] = SEQ_MESSAGE /\ \E k \in DOMAIN v : p = <<i, v[k]>>
<1> DEFINE w == Put(values, i, v)
<1>1. /\ DOMAIN w = DOMAIN values \cup {i}
      /\ \A x \in DOMAIN w : w[x] = IF x = i THEN v ELSE values[x]
  BY DEF Put
<1> HIDE DEF w
<1>2. PICK x \in DOMAIN w :
        \/ Dico[id][x] = MESSAGE /\ p = <<x, w[x]>>
        \/ Dico[id][x] = SEQ_MESSAGE /\ \E k \in DOMAIN w[x] : p = <<x, w[x][k]>>
  BY PartOf DEF w
<1>3. CASE x = i
  BY <1>1, <1>2, <1>3
<1>4. CASE x # i
  <2>1. x \in DOMAIN values /\ w[x] = values[x]
    BY <1>1, <1>4
  <2> QED BY <1>2, <2>1, PartIs
<1> QED BY <1>3, <1>4

LEMMA PartsOfValue ==
    ASSUME NEW id, NEW values, NEW i, NEW v, Dico[id][i] \notin {MESSAGE, SEQ_MESSAGE}
    PROVE  Parts(id, Put(values, i, v)) \subseteq Parts(id, values)
BY PartsOfPut

LEMMA PartsOfWith ==
    ASSUME NEW id, NEW values, NEW S, WellFormed(id, values, S), NEW i,
           NEW type \in {MESSAGE, SEQ_MESSAGE}, Dico[id][i] = type, NEW m
    PROVE  Parts(id, With(values, i, type, m)) \subseteq Parts(id, values) \cup {<<i, m>>}
<1>1. CASE type = MESSAGE
  <2>1. With(values, i, type, m) = Put(values, i, m)
    BY <1>1 DEF With
  <2> QED BY <1>1, <2>1, PartsOfPut DEF MESSAGE, SEQ_MESSAGE
<1>2. CASE type = SEQ_MESSAGE /\ i \in DOMAIN values
  <2> DEFINE v == Append(values[i], m)
  <2>1. With(values, i, type, m) = Put(values, i, v)
    BY <1>2 DEF With, MESSAGE, SEQ_MESSAGE
  <2>2. \E M : values[i] \in Seq(M)
    BY <1>2 DEF WellFormed, Holds
  <2>3. \A k \in DOMAIN v : v[k] = m \/ (k \in DOMAIN values[i] /\ v[k] = values[i][k])
    BY <2>2
  <2>4. \A k \in DOMAIN values[i] : <<i, values[i][k]>> \in Parts(id, values)
    BY <1>2, PartIs
  <2> HIDE DEF v
  <2> SUFFICES ASSUME NEW p \in Parts(id, Put(values, i, v))
               PROVE  p \in Parts(id, values) \cup {<<i, m>>}
    BY <2>1
  <2>5. \/ p \in Parts(id, values)
        \/ \E k \in DOMAIN v : p = <<i, v[k]>>
    BY <1>2, PartsOfPut DEF MESSAGE, SEQ_MESSAGE
  <2> QED BY <2>3, <2>4, <2>5
<1>3. CASE type = SEQ_MESSAGE /\ i \notin DOMAIN values
  <2> DEFINE v == <<m>>
  <2>1. With(values, i, type, m) = Put(values, i, v)
    BY <1>3 DEF With, MESSAGE, SEQ_MESSAGE
  <2>2. \A k \in DOMAIN v : v[k] = m
    OBVIOUS
  <2> HIDE DEF v
  <2> SUFFICES ASSUME NEW p \in Parts(id, Put(values, i, v))
               PROVE  p \in Parts(id, values) \cup {<<i, m>>}
    BY <2>1
  <2>3. \/ p \in Parts(id, values)
        \/ \E k \in DOMAIN v : p = <<i, v[k]>>
    BY <1>3, PartsOfPut DEF MESSAGE, SEQ_MESSAGE
  <2> QED BY <2>2, <2>3
<1> QED BY <1>1, <1>2, <1>3

(***************************************************************************)
(* What is open has no more levels than tokens were read.                  *)
(***************************************************************************)
LEMMA TopToIs ==
    ASSUME NEW S, NEW o \in Seq(Frames(S)), Len(o) >= 1, NEW v
    PROVE  /\ Len(TopTo(o, v)) = Len(o) /\ TopTo(o, v)[Len(o)].values = v
           /\ TopTo(o, v)[Len(o)].id = o[Len(o)].id
           /\ TopTo(o, v)[Len(o)].end = o[Len(o)].end
           /\ TopTo(o, v)[Len(o)].type = o[Len(o)].type
           /\ \A k \in 1 .. Len(o) : k # Len(o) => TopTo(o, v)[k] = o[k]
           /\ DOMAIN TopTo(o, v) = 1 .. Len(o)
<1> DEFINE n == Len(o)
           f == [o[n] EXCEPT !.values = v]
<1>1. n \in Nat /\ n \in 1 .. n /\ DOMAIN o = 1 .. n
  OBVIOUS
<1>2. o[n] \in Frames(S)
  BY <1>1
<1>3. f.id = o[n].id /\ f.end = o[n].end /\ f.type = o[n].type /\ f.values = v
  <2>1. o[n] \in [id : DOMAIN Dico, from : Nat, end : Int, type : {MESSAGE, SEQ_MESSAGE},
                  values : {e[2] : e \in S}]
    BY <1>2 DEF Frames
  <2> QED BY <2>1
<1>4. TopTo(o, v) = [o EXCEPT ![n] = f]
  BY DEF TopTo
<1> HIDE DEF f
<1> DEFINE g == [i \in 1 .. n |-> IF i = n THEN f ELSE o[i]]
<1>5. TopTo(o, v) = g
  BY <1>1, <1>4
<1>6. Len(g) = n /\ g[n] = f /\ DOMAIN g = 1 .. n /\ \A i \in 1 .. n : i # n => g[i] = o[i]
  <2>1. g = [i \in 1 .. n |-> g[i]] /\ \A i \in 1 .. n : g[i] \in {g[x] : x \in 1 .. n}
    OBVIOUS
  <2>2. g[n] = f /\ DOMAIN g = 1 .. n /\ \A i \in 1 .. n : i # n => g[i] = o[i]
    BY <1>1
  <2> HIDE DEF g
  <2> QED BY <1>1, <2>1, <2>2, SeqIs
<1> HIDE DEF g, n
<1> QED BY <1>3, <1>5, <1>6 DEF n

(***************************************************************************)
(* A message is no deeper than the tokens that were read of it allow.      *)
(***************************************************************************)
Bounded ==
  /\ \A k \in 1 .. Len(open) : EndsIn(<<open[k].id, open[k].values>>, pos + 2 - k)
  /\ sent = None /\ round = 1 => limit <= MaxLimit

LEMMA TopEnds ==
    ASSUME IInv, Bounded
    PROVE  /\ EndsIn(<<Top.id, Top.values>>, pos + 2 - Len(open))
           /\ pos \in Nat /\ Len(open) \in Nat /\ Len(open) >= 1 /\ pos + 2 - Len(open) \in Nat
           /\ pos + 2 - Len(open) >= 1
<1>1. Len(open) \in Nat /\ Len(open) >= 1 /\ pos \in Nat
  BY SomeAreOpen DEF IInv, Positions
<1>2. EndsIn(<<Top.id, Top.values>>, pos + 2 - Len(open))
  BY <1>1 DEF Bounded, Top
<1>3. pos + 2 - Len(open) \in Nat /\ pos + 2 - Len(open) # 0
  BY <1>2 DEF EndsIn, Chain
<1> QED BY <1>1, <1>2, <1>3

LEMMA LevelsLeft ==
    ASSUME NEW a \in Nat, NEW b \in Nat, a <= b, NEW k \in Int, a + 2 - k \in Nat
    PROVE  b + 2 - k \in Nat /\ a + 2 - k <= b + 2 - k
OBVIOUS

(* Nothing is stored.                                                      *)
LEMMA BoundedRead ==
    ASSUME IInv, Bounded, Same, UNCHANGED open, pos' \in Nat, pos' >= pos
    PROVE  Bounded'
<1>0. Len(open) \in Nat /\ pos \in Nat
  BY SomeAreOpen DEF IInv, Positions
<1> SUFFICES ASSUME NEW k \in 1 .. Len(open)
             PROVE  EndsIn(<<open[k].id, open[k].values>>, pos' + 2 - k)
  BY DEF Bounded, Same
<1>1. EndsIn(<<open[k].id, open[k].values>>, pos + 2 - k)
  BY DEF Bounded
<1>2. pos + 2 - k \in Nat
  BY <1>1 DEF EndsIn
<1>3. pos' + 2 - k \in Nat /\ pos + 2 - k <= pos' + 2 - k
  <2>1. k \in Int
    BY <1>0
  <2>2. pos <= pos'
    BY <1>0
  <2> QED BY <1>0, <1>2, <2>1, <2>2, LevelsLeft
<1> QED BY <1>1, <1>3, EndsLater

(* Other values in the message on top.                                     *)
LEMMA BoundedTop ==
    ASSUME IInv, Bounded, Same, NEW v, open' = TopTo(open, v), pos' \in Nat, pos' >= pos,
           EndsIn(<<Top.id, v>>, pos' + 2 - Len(open))
    PROVE  Bounded'
<1>0. Len(open) \in Nat /\ Len(open) >= 1 /\ pos \in Nat
  BY SomeAreOpen DEF IInv, Positions
<1>1. PICK S : TreeIn(S)
  BY DEF IInv, Tree
<1>2. /\ Len(open') = Len(open) /\ open'[Len(open)].values = v
      /\ open'[Len(open)].id = Top.id
      /\ \A k \in 1 .. Len(open) : k # Len(open) => open'[k] = open[k]
  BY <1>0, <1>1, TopToIs DEF TreeIn, Top
<1> SUFFICES ASSUME NEW k \in 1 .. Len(open)
             PROVE  EndsIn(<<open'[k].id, open'[k].values>>, pos' + 2 - k)
  BY <1>2 DEF Bounded, Same
<1>3. CASE k = Len(open)
  BY <1>2, <1>3
<1>4. CASE k # Len(open)
  <2>1. EndsIn(<<open[k].id, open[k].values>>, pos + 2 - k) /\ open'[k] = open[k]
    BY <1>2, <1>4 DEF Bounded
  <2>2. pos + 2 - k \in Nat
    BY <2>1 DEF EndsIn
  <2>3. pos' + 2 - k \in Nat /\ pos + 2 - k <= pos' + 2 - k
    <3>1. k \in Int
      BY <1>0
    <3>2. pos <= pos'
      BY <1>0
    <3> QED BY <1>0, <2>2, <3>1, <3>2, LevelsLeft
  <2> QED BY <2>1, <2>3, EndsLater
<1> QED BY <1>3, <1>4

(* A value that is not a message.                                          *)
LEMMA BoundedValue ==
    ASSUME IInv, Bounded, Same, NEW i, NEW v, Dico[Top.id][i] \notin {MESSAGE, SEQ_MESSAGE},
           open' = TopTo(open, Put(Top.values, i, v)), pos' \in Nat, pos' >= pos
    PROVE  Bounded'
<1> DEFINE p == <<Top.id, Top.values>>
           r == <<Top.id, Put(Top.values, i, v)>>
           n == pos + 2 - Len(open)
           k == pos' + 2 - Len(open)
<1>1. Parts(Top.id, Put(Top.values, i, v)) \subseteq Parts(Top.id, Top.values)
  BY PartsOfValue
<1>2. p[1] = Top.id /\ p[2] = Top.values /\ r[1] = Top.id /\ r[2] = Put(Top.values, i, v)
  OBVIOUS
<1>3. EndsIn(p, n) /\ n \in Nat /\ k \in Nat /\ n <= k
  BY TopEnds
<1> HIDE DEF p, r, n, k
<1>4. Parts(r[1], r[2]) \subseteq Parts(p[1], p[2])
  BY <1>1, <1>2
<1>5. EndsIn(r, n)
  BY <1>3, <1>4, EndsWithParts
<1>6. EndsIn(r, k)
  BY <1>3, <1>5, EndsLater
<1> QED BY <1>6, BoundedTop DEF r, k

LEMMA BoundedEmpty ==
    ASSUME IInv, Bounded, Same, NEW i, NEW type \in {MESSAGE, SEQ_MESSAGE},
           Dico[Top.id][i] = type, open' = TopTo(open, With(Top.values, i, type, NoValues)),
           pos' \in Nat, pos' > pos
    PROVE  Bounded'
<1> DEFINE p == <<Top.id, Top.values>>
           w == With(Top.values, i, type, NoValues)
           r == <<Top.id, w>>
           q == <<i, NoValues>>
           n == pos + 2 - Len(open)
           k == pos' + 2 - Len(open)
<1>0. PICK S : TreeIn(S)
  BY DEF IInv, Tree
<1>1. Parts(Top.id, w) \subseteq Parts(Top.id, Top.values) \cup {q}
  BY <1>0, TopIs, PartsOfWith
<1>2. p[1] = Top.id /\ p[2] = Top.values /\ r[1] = Top.id /\ r[2] = w
      /\ q[1] = i /\ q[2] = NoValues
  OBVIOUS
<1>3. EndsIn(p, n) /\ n \in Nat /\ n >= 1 /\ k \in Nat /\ n < k /\ k - 1 \in Nat
  BY TopEnds
<1>4. Parts(i, NoValues) = {}
  BY PartOf DEF NoValues
<1> HIDE DEF p, r, q, n, k
<1>5. EndsIn(q, 1)
  BY <1>2, <1>4, EndsAtOnce
<1>6. EndsIn(q, k - 1)
  <2>1. 1 <= k - 1
    BY <1>3
  <2> QED BY <1>3, <1>5, <2>1, EndsLater
<1>7. EndsIn(p, k)
  <2>1. n <= k
    BY <1>3
  <2> QED BY <1>3, <2>1, EndsLater
<1>8. Parts(r[1], r[2]) \subseteq Parts(p[1], p[2]) \cup {q}
  BY <1>1, <1>2
<1>9. EndsIn(r, k)
  BY <1>3, <1>6, <1>7, <1>8, EndsWithPart
<1>10. pos' >= pos
  BY TopEnds
<1> HIDE DEF w
<1> QED BY <1>9, <1>10, BoundedTop DEF r, k, w

LEMMA BoundedNest ==
    ASSUME IInv, Bounded, Same, NEW f, f.values = NoValues, open' = Append(open, f),
           pos' \in Nat, pos' > pos
    PROVE  Bounded'
<1> DEFINE n == Len(open)
<1>0. n \in Nat /\ n >= 1 /\ pos \in Nat /\ pos + 2 - n >= 1
  BY TopEnds
<1>1. PICK S : TreeIn(S)
  BY DEF IInv, Tree
<1>2. open \in Seq(Frames(S))
  BY <1>1 DEF TreeIn
<1>3. Len(open') = n + 1 /\ open'[n + 1] = f /\ \A k \in 1 .. n : open'[k] = open[k]
  BY <1>2
<1> SUFFICES ASSUME NEW k \in 1 .. n + 1
             PROVE  EndsIn(<<open'[k].id, open'[k].values>>, pos' + 2 - k)
  BY <1>3 DEF Bounded, Same
<1>4. CASE k = n + 1
  <2> DEFINE q == <<f.id, NoValues>>
  <2>1. Parts(f.id, NoValues) = {}
    BY PartOf DEF NoValues
  <2>2. q[1] = f.id /\ q[2] = NoValues
    OBVIOUS
  <2> HIDE DEF q
  <2>3. EndsIn(q, 1)
    BY <2>1, <2>2, EndsAtOnce
  <2>4. pos' + 2 - k \in Nat /\ 1 <= pos' + 2 - k
    BY <1>0, <1>4
  <2>5. EndsIn(q, pos' + 2 - k)
    BY <2>3, <2>4, EndsLater
  <2> QED BY <1>3, <1>4, <2>5 DEF q
<1>5. CASE k # n + 1
  <2>0. k \in 1 .. n
    BY <1>0, <1>5
  <2>1. EndsIn(<<open[k].id, open[k].values>>, pos + 2 - k) /\ open'[k] = open[k]
    BY <1>3, <2>0 DEF Bounded
  <2>2. pos + 2 - k \in Nat
    BY <2>1 DEF EndsIn
  <2>3. pos' + 2 - k \in Nat /\ pos + 2 - k <= pos' + 2 - k
    <3>1. k \in Int
      BY <1>0
    <3>2. pos <= pos'
      BY <1>0
    <3> QED BY <1>0, <2>2, <3>1, <3>2, LevelsLeft
  <2> QED BY <2>1, <2>3, EndsLater
<1> QED BY <1>4, <1>5

(* The message on top is closed.                                           *)
LEMMA PopIs ==
    ASSUME IInv, Nested,
           open' = [i \in 1 .. Len(open) - 1 |->
                      IF i < Len(open) - 1 THEN open[i]
                      ELSE [open[i] EXCEPT !.values = With(@, Top.id, Top.type, Top.values)]]
    PROVE  LET n == Len(open) IN
           /\ n \in Nat /\ n - 1 \in Nat \ {0} /\ Len(open') = n - 1
           /\ \A k \in 1 .. n - 1 : k # n - 1 => open'[k] = open[k]
           /\ open'[n - 1].values = With(open[n - 1].values, Top.id, Top.type, Top.values)
           /\ open'[n - 1].id = open[n - 1].id /\ open'[n - 1].end = open[n - 1].end
           /\ open'[n - 1].type = open[n - 1].type
<1> DEFINE n == Len(open)
           m == n - 1
           w == With(open[m].values, Top.id, Top.type, Top.values)
           f == [open[m] EXCEPT !.values = w]
           g == [i \in 1 .. m |-> IF i < m THEN open[i] ELSE f]
<1>0. PICK S : TreeIn(S)
  BY DEF IInv, Tree
<1>1. n \in Nat /\ n > 1 /\ m \in Nat \ {0} /\ m \in 1 .. n
  BY <1>0 DEF Nested, TreeIn
<1>2. open[m] \in Frames(S)
  BY <1>0, <1>1 DEF TreeIn
<1>3. f.id = open[m].id /\ f.end = open[m].end /\ f.type = open[m].type /\ f.values = w
  <2>1. open[m] \in [id : DOMAIN Dico, from : Nat, end : Int, type : {MESSAGE, SEQ_MESSAGE},
                     values : {e[2] : e \in S}]
    BY <1>2 DEF Frames
  <2> HIDE DEF w, m
  <2> QED BY <2>1
<1>4. open' = g
  <2>1. ASSUME NEW i \in 1 .. m, ~(i < m)
        PROVE  [open[i] EXCEPT !.values = With(@, Top.id, Top.type, Top.values)] = f
    <3>1. i = m
      BY <1>1, <2>1
    <3>2. [open[m] EXCEPT !.values = With(@, Top.id, Top.type, Top.values)] = f
      OBVIOUS
    <3> HIDE DEF f, m
    <3> QED BY <3>1, <3>2
  <2> HIDE DEF f, w
  <2> QED BY <2>1
<1> HIDE DEF f, w, n
<1>5. /\ g[m] = f /\ \A i \in 1 .. m : i # m => g[i] = open[i]
      /\ g = [i \in 1 .. m |-> g[i]] /\ \A i \in 1 .. m : g[i] \in {g[x] : x \in 1 .. m}
  BY <1>1
<1> HIDE DEF g, m
<1>6. Len(g) = m
  BY <1>1, <1>5, SeqIs
<1> QED BY <1>1, <1>3, <1>4, <1>5, <1>6 DEF n, m, w

LEMMA BelowTop ==
    ASSUME IInv, Nested
    PROVE  LET q == open[Len(open) - 1] IN
           /\ \E S : TreeIn(S) /\ WellFormed(q.id, q.values, S)
           /\ Dico[q.id][Top.id] = Top.type /\ Top.type \in {MESSAGE, SEQ_MESSAGE}
           /\ Top.id \in DOMAIN Dico[q.id] /\ q.id \in DOMAIN Dico
<1> DEFINE n == Len(open)
           q == open[n - 1]
<1>1. PICK S : TreeIn(S)
  BY DEF IInv, Tree
<1>2. n \in Nat /\ n > 1 /\ n - 1 \in 1 .. n /\ n \in 2 .. n
  BY <1>1 DEF Nested, TreeIn
<1>3. q \in Frames(S) /\ Top \in Frames(S)
  BY <1>1, <1>2, TopIs DEF TreeIn
<1>4. <<q.id, q.values>> \in S /\ q.id \in DOMAIN Dico /\ Top.type \in {MESSAGE, SEQ_MESSAGE}
  BY <1>3 DEF Frames
<1>5. WellFormed(q.id, q.values, S)
  BY <1>1, <1>4 DEF TreeIn, Closed
<1>6. Top.id \in DOMAIN Dico[q.id] /\ Dico[q.id][Top.id] = Top.type
  BY <1>2 DEF IInv, Path, Top
<1> HIDE DEF q
<1> QED BY <1>1, <1>4, <1>5, <1>6 DEF q

LEMMA BoundedClose ==
    ASSUME IInv, Bounded, CloseMsg
    PROVE  Bounded'
<1>1. CASE Throw
  <2>1. pos \in Nat
    BY DEF IInv, Positions
  <2> QED BY <1>1, <2>1, BoundedRead DEF Throw
<1> DEFINE n == Len(open)
           m == n - 1
<1>2. CASE /\ open' = [i \in 1 .. n - 1 |->
                         IF i < n - 1 THEN open[i]
                         ELSE [open[i] EXCEPT !.values = With(@, Top.id, Top.type, Top.values)]]
           /\ Same /\ UNCHANGED pos
  <2>0. Nested
    BY DEF CloseMsg
  <2>1. /\ n \in Nat /\ m \in Nat \ {0} /\ Len(open') = m
        /\ \A k \in 1 .. m : k # m => open'[k] = open[k]
        /\ open'[m].values = With(open[m].values, Top.id, Top.type, Top.values)
        /\ open'[m].id = open[m].id
    BY <1>2, <2>0, PopIs
  <2>2. PICK S : WellFormed(open[m].id, open[m].values, S)
    BY <2>0, BelowTop
  <2>3. Dico[open[m].id][Top.id] = Top.type /\ Top.type \in {MESSAGE, SEQ_MESSAGE}
    BY <2>0, BelowTop
  <2> DEFINE p == <<open[m].id, open[m].values>>
             q == <<Top.id, Top.values>>
             r == <<open'[m].id, open'[m].values>>
             x == pos + 2 - m
  <2>4. Parts(open'[m].id, open'[m].values) \subseteq Parts(open[m].id, open[m].values) \cup {q}
    BY <2>1, <2>2, <2>3, PartsOfWith
  <2>5. EndsIn(p, x)
    BY <2>1 DEF Bounded
  <2>6. EndsIn(q, x - 1)
    <3>1. EndsIn(q, pos + 2 - n) /\ pos \in Nat
      BY TopEnds
    <3>2. pos + 2 - n = x - 1
      BY <2>1, <3>1
    <3> QED BY <3>1, <3>2
  <2>7. /\ r[1] = open'[m].id /\ r[2] = open'[m].values
        /\ p[1] = open[m].id /\ p[2] = open[m].values
    OBVIOUS
  <2>8. x \in Nat
    BY <2>5 DEF EndsIn
  <2> HIDE DEF p, q, r, x, m, n
  <2>9. EndsIn(r, x)
    BY <2>4, <2>5, <2>6, <2>7, <2>8, EndsWithPart
  <2> SUFFICES ASSUME NEW k \in 1 .. m
               PROVE  EndsIn(<<open'[k].id, open'[k].values>>, pos + 2 - k)
    BY <1>2, <2>1 DEF Bounded, Same
  <2>10. CASE k = m
    BY <2>9, <2>10 DEF r, x
  <2>11. CASE k # m
    <3>1. k \in 1 .. Len(open) /\ open'[k] = open[k]
      BY <2>1, <2>11 DEF m, n
    <3>2. EndsIn(<<open[k].id, open[k].values>>, pos + 2 - k)
      BY <3>1 DEF Bounded
    <3> QED BY <3>1, <3>2
  <2> QED BY <2>10, <2>11
<1> QED BY <1>1, <1>2 DEF CloseMsg

LEMMA BoundedInsert ==
    ASSUME IInv, Bounded, NEW t, NEW type, type \notin {MESSAGE, SEQ_MESSAGE}, Item(t, type),
           NEW v, NEW to \in Nat, pos <= to, Insert(t, v, to)
    PROVE  Bounded'
<1>0. pos \in Nat
  BY DEF IInv, Positions
<1>1. CASE Throw
  BY <1>0, <1>1, BoundedRead DEF Throw
<1>2. CASE open' = Stored(t, v) /\ Read(to) /\ Same
  <2>1. open' = TopTo(open, Put(Top.values, TagItem[t], v)) /\ Dico[Top.id][TagItem[t]] = type
    BY <1>2, StoredIsTopTo, ItemIs
  <2>2. pos' \in Nat /\ pos' >= pos
    BY <1>0, <1>2 DEF Read
  <2> QED BY <1>2, <2>1, <2>2, BoundedValue
<1> QED BY <1>1, <1>2 DEF Insert

(* A message is opened by a token at least.                                *)
LEMMA DecodeBounded ==
    ASSUME IInv, Bounded, Decode
    PROVE  Bounded'
<1> USE DEF BOOL, LONG, DOUBLE, STRING_T, MESSAGE, SEQ_BOOL, SEQ_LONG, SEQ_DOUBLE, SEQ_STRING,
            SEQ_MESSAGE
<1>0. pos \in Nat /\ pos + 1 \in Nat
  BY DEF IInv, Positions
<1>1. ASSUME Throw PROVE Bounded'
  BY <1>0, <1>1, BoundedRead DEF Throw
<1>2. CASE EndOfInput
  <2>1. pos' \in Nat /\ pos' >= pos
    BY <1>0, <1>2 DEF EndOfInput
  <2> QED BY <1>2, <2>1, BoundedRead DEF EndOfInput
<1>3. CASE CloseMsg
  BY <1>3, BoundedClose
<1>4. CASE ReadElement
  <2> DEFINE size(v) == CASE todo.type = DOUBLE -> DoubleSize [] OTHER -> VarintSize(v)
  <2>1. \/ Throw
        \/ \E v \in At(pos) : pos' = pos + size(v) /\ Same /\ UNCHANGED open
    BY <1>4 DEF ReadElement
  <2>2. \A v : size(v) \in Nat
    BY VarintSizeIs, TagAssumption
  <2> HIDE DEF size
  <2>3. ASSUME NEW v \in At(pos), pos' = pos + size(v), Same, UNCHANGED open PROVE Bounded'
    <3>1. pos' \in Nat /\ pos' >= pos
      BY <1>0, <2>2, <2>3
    <3> QED BY <2>3, <3>1, BoundedRead
  <2> QED BY <1>1, <2>1, <2>3
<1>5. CASE CloseSequence
  <2>1. CASE open' = Stored(todo.tag, todo.elements) /\ Same /\ UNCHANGED pos
    <3>1. Dico[Top.id][TagItem[todo.tag]] \notin {MESSAGE, SEQ_MESSAGE}
      BY <1>5 DEF IInv, Sequence, CloseSequence
    <3>2. pos' \in Nat /\ pos' >= pos
      BY <1>0, <2>1
    <3> QED BY <2>1, <3>1, <3>2, StoredIsTopTo, BoundedValue
  <2> QED BY <1>1, <1>5, <2>1 DEF CloseSequence
<1>6. ASSUME NEW t \in At(pos), DecodeBool(t) PROVE Bounded'
  <2>1. ASSUME NEW r \in Varints(pos + 1), Insert(t, IF r.value = 0 THEN 0 ELSE 1, r.next)
        PROVE  Bounded'
    <3>1. r.next \in Nat /\ pos <= r.next
      BY <1>0, VarintsAre DEF IInv
    <3> QED BY <1>6, <2>1, <3>1, BoundedInsert DEF DecodeBool
  <2> QED BY <1>1, <1>6, <2>1 DEF DecodeBool
<1>7. ASSUME NEW t \in At(pos), DecodeLong(t) PROVE Bounded'
  <2>1. ASSUME NEW r \in Varints(pos + 1), Insert(t, r.value, r.next) PROVE Bounded'
    <3>1. r.next \in Nat /\ pos <= r.next
      BY <1>0, VarintsAre DEF IInv
    <3> QED BY <1>7, <2>1, <3>1, BoundedInsert DEF DecodeLong
  <2> QED BY <1>1, <1>7, <2>1 DEF DecodeLong
<1>8. ASSUME NEW t \in At(pos), DecodeDouble(t) PROVE Bounded'
  <2>1. ASSUME NEW v, Insert(t, v, pos + 1 + DoubleSize) PROVE Bounded'
    <3>1. pos + 1 + DoubleSize \in Nat /\ pos <= pos + 1 + DoubleSize
      BY <1>0, TagAssumption
    <3> QED BY <1>8, <2>1, <3>1, BoundedInsert DEF DecodeDouble
  <2> QED BY <1>1, <1>8, <2>1 DEF DecodeDouble
<1>9. ASSUME NEW t \in At(pos), DecodeStr(t) PROVE Bounded'
  <2>1. ASSUME NEW r \in Varints(pos + 1), Fits(r), Insert(t, r.value, r.next + r.value)
        PROVE  Bounded'
    <3>1. r.next + r.value \in Nat /\ pos <= r.next + r.value
      BY <1>0, <2>1, VarintsAre DEF IInv, Fits
    <3> QED BY <1>9, <2>1, <3>1, BoundedInsert DEF DecodeStr
  <2> QED BY <1>1, <1>9, <2>1 DEF DecodeStr
<1>10. ASSUME NEW t \in At(pos), DecodeSeqStr(t) PROVE Bounded'
  <2>1. ASSUME NEW r \in Varints(pos + 1), Fits(r), NEW v, open' = Stored(t, v),
               Read(r.next + r.value), Same
        PROVE  Bounded'
    <3>1. r.next + r.value \in Nat /\ pos <= r.next + r.value
      BY <1>0, <2>1, VarintsAre DEF IInv, Fits
    <3>2. Dico[Top.id][TagItem[t]] \notin {MESSAGE, SEQ_MESSAGE}
      BY <1>10, ItemIs DEF DecodeSeqStr
    <3>3. pos' \in Nat /\ pos' >= pos
      BY <1>0, <2>1, <3>1 DEF Read
    <3> QED BY <2>1, <3>2, <3>3, StoredIsTopTo, BoundedValue
  <2> QED BY <1>1, <1>10, <2>1 DEF DecodeSeqStr
<1>11. ASSUME NEW t \in At(pos), DecodeMsg(t) PROVE Bounded'
  <2> PICK type \in {MESSAGE, SEQ_MESSAGE} :
        /\ Item(t, type)
        /\ \/ Throw
           \/ \E r \in Varints(pos + 1) :
                \/ /\ open' = [open EXCEPT ![Len(open)].values =
                                 With(@, TagItem[t], type, NoValues)]
                   /\ Read(r.next) /\ Same
                \/ /\ open' = Append(open, Frame(TagItem[t], r.next + r.value, type))
                   /\ pos' = r.next /\ Same
    BY <1>11 DEF DecodeMsg
  <2>1. ASSUME NEW r \in Varints(pos + 1),
               open' = [open EXCEPT ![Len(open)].values = With(@, TagItem[t], type, NoValues)],
               Read(r.next), Same
        PROVE  Bounded'
    <3>1. pos' \in Nat /\ pos' > pos
      BY <1>0, <2>1, VarintsAre DEF IInv, Read
    <3>2. open' = TopTo(open, With(Top.values, TagItem[t], type, NoValues))
      BY <2>1 DEF TopTo, Top
    <3>3. Dico[Top.id][TagItem[t]] = type
      BY ItemIs
    <3> QED BY <2>1, <3>1, <3>2, <3>3, BoundedEmpty
  <2>2. ASSUME NEW r \in Varints(pos + 1),
               open' = Append(open, Frame(TagItem[t], r.next + r.value, type)), pos' = r.next, Same
        PROVE  Bounded'
    <3> DEFINE f == Frame(TagItem[t], r.next + r.value, type)
    <3>1. pos' \in Nat /\ pos' > pos
      BY <1>0, <2>2, VarintsAre DEF IInv
    <3>2. f.values = NoValues
      BY DEF Frame
    <3> HIDE DEF f
    <3> QED BY <2>2, <3>1, <3>2, BoundedNest DEF f
  <2> QED BY <1>1, <2>1, <2>2
<1>12. ASSUME NEW t \in At(pos), OpenSequence(t) PROVE Bounded'
  <2>1. ASSUME NEW r \in Varints(pos + 1), pos' = r.next, Same, UNCHANGED open PROVE Bounded'
    <3>1. pos' \in Nat /\ pos' >= pos
      BY <1>0, <2>1, VarintsAre DEF IInv
    <3> QED BY <2>1, <3>1, BoundedRead
  <2> QED BY <1>1, <1>12, <2>1 DEF OpenSequence
<1>13. ASSUME NEW t \in At(pos), DecodeOther(t) PROVE Bounded'
  <2>1. ASSUME NEW r \in Varints(pos + 1), Fits(r), Read(r.next + r.value), Same, UNCHANGED open
        PROVE  Bounded'
    <3>1. pos' \in Nat /\ pos' >= pos
      BY <1>0, <2>1, VarintsAre DEF IInv, Fits, Read
    <3> QED BY <2>1, <3>1, BoundedRead
  <2> QED BY <1>1, <1>13, <2>1 DEF DecodeOther
<1> HIDE DEF BOOL, LONG, DOUBLE, STRING_T, MESSAGE, SEQ_BOOL, SEQ_LONG, SEQ_DOUBLE, SEQ_STRING,
             SEQ_MESSAGE
<1> QED BY <1>2, <1>3, <1>4, <1>5, <1>6, <1>7, <1>8, <1>9, <1>10, <1>11, <1>12, <1>13 DEF Decode

(***************************************************************************)
(* Every round is a decode of something.                                   *)
(***************************************************************************)
Sound == IInv /\ Bounded

\* A buffer from anywhere.
SmallLimit == sent = None /\ round = 1 => limit <= MaxLimit

LEMMA EmptyEnds == \A id : EndsIn(<<id, NoValues>>, 1)
<1> TAKE id
<1> DEFINE p == <<id, NoValues>>
<1>1. Parts(id, NoValues) = {}
  BY PartOf DEF NoValues
<1>2. p[1] = id /\ p[2] = NoValues
  OBVIOUS
<1> HIDE DEF p
<1>3. EndsIn(p, 1)
  BY <1>1, <1>2, EndsAtOnce
<1> QED BY <1>3 DEF p

(* What is opened first has no message in it.                              *)
LEMMA StartIsBounded ==
    ASSUME Started, SmallLimit
    PROVE  Sound
<1>1. IInv
  BY StartIsGood
<1>2. PICK root \in DOMAIN Dico : AtStart(root)
  BY DEF Started
<1>3. /\ Len(open) = 1 /\ open[1].id = root /\ open[1].values = NoValues /\ pos = 0
  BY <1>2 DEF AtStart
<1>4. ASSUME NEW k \in 1 .. Len(open)
      PROVE  EndsIn(<<open[k].id, open[k].values>>, pos + 2 - k)
  <2>1. k = 1 /\ pos + 2 - k = 1
    BY <1>3
  <2>2. EndsIn(<<root, NoValues>>, 1)
    BY EmptyEnds
  <2> QED BY <1>3, <2>1, <2>2
<1> QED BY <1>1, <1>4 DEF Sound, Bounded, SmallLimit

LEMMA StartIsBoundedNext == Started' /\ SmallLimit' => Sound'
<1>1. Started /\ SmallLimit => Sound
  BY StartIsBounded
<1> QED BY <1>1, PTL

(* What encode() writes of a message is a sequence of tokens.              *)
LEMMA EncodeIsTokens ==
    ASSUME NEW id, NEW values, IsMessage(id, values)
    PROVE  Encode(id, values) \in Seq(Int)
<1>1. PICK S, e, t : /\ Codec(S, e, t) /\ <<id, values>> \in S
                     /\ Encode(id, values) = e[<<id, values>>]
  BY CodecIs
<1> QED BY <1>1 DEF Codec

(* What was decoded is a message: it has the types of the dictionary and   *)
(* no more levels than the buffer had tokens.                              *)
LEMMA DecodedIsMessage ==
    ASSUME Sound, sent = None, round = 1
    PROVE  IsMessage(Root, Values)
<1>1. PICK S : TreeIn(S)
  BY DEF Sound, IInv, Tree
<1>2. <<Root, Values>> \in S /\ Root \in DOMAIN Dico
  <2>1. open[1] \in Frames(S)
    BY <1>1 DEF TreeIn
  <2> QED BY <2>1 DEF Frames, Root, Values
<1>3. \A m \in Within(Root, Values) : Typed(m[1], m[2])
  BY <1>1, <1>2, WithinIsIn DEF TreeIn
<1>4. pos \in Nat /\ limit \in Nat /\ pos <= limit /\ limit <= MaxLimit
  BY DEF Sound, Bounded, IInv, Positions
<1>5. pos + 2 - 1 <= MaxDepth
  BY <1>4, WireAssumption, TagAssumption
<1>6. EndsIn(<<Root, Values>>, pos + 2 - 1)
  <2>1. 1 \in 1 .. Len(open)
    BY SomeAreOpen DEF Sound, IInv
  <2> QED BY <2>1 DEF Sound, Bounded, Root, Values
<1>7. Shallow(Root, Values)
  BY <1>5, <1>6, EndsIsShallow
<1> QED BY <1>2, <1>3, <1>7 DEF IsMessage, Shallow

LEMMA InitIsStarted == Init => Started /\ SmallLimit
<1> SUFFICES ASSUME Init
             PROVE  Started /\ (sent = None /\ round = 1 => limit <= MaxLimit)
  BY DEF SmallLimit
<1>1. ASSUME NEW root \in DOMAIN Dico, Start(root) PROVE AtStart(root)
  BY <1>1 DEF Start, Frame, AtStart
<1>2. CASE /\ buffer = AnyBuffer /\ limit \in 0 .. MaxLimit
           /\ \E root \in DOMAIN Tokens : Start(root)
  <2>1. PICK root \in DOMAIN Tokens : Start(root)
    BY <1>2
  <2>2. root \in DOMAIN Dico /\ limit \in Nat /\ limit <= MaxLimit
    BY <1>2, WireAssumption
  <2> QED BY <1>1, <1>2, <2>1, <2>2 DEF Started
<1>3. ASSUME NEW root \in DOMAIN Sent, NEW m \in Sent[root], NEW n \in 0 .. Len(Encode(root, m)),
             buffer = SubSeq(Encode(root, m), 1, n), limit = n, sent = m, Start(root)
      PROVE  Started /\ sent # None
  <2>1. root \in DOMAIN Dico /\ IsMessage(root, m) /\ m # None
    BY WireAssumption
  <2>2. limit \in Nat /\ buffer \in Seq(Int) /\ limit = Len(buffer)
    <3> DEFINE s == Encode(root, m)
    <3>1. s \in Seq(Int) /\ n \in 0 .. Len(s) /\ buffer = SubSeq(s, 1, n)
      BY <1>3, <2>1, EncodeIsTokens
    <3> HIDE DEF s
    <3> QED BY <1>3, <3>1
  <2> QED BY <1>1, <1>3, <2>1, <2>2 DEF Started
<1> QED BY <1>2, <1>3 DEF Init

LEMMA InitIsSound == Init => Sound
BY InitIsStarted, StartIsBounded

(* The next decode starts with what encode() wrote.                        *)
LEMMA AgainStarts ==
    ASSUME Sound, Again
    PROVE  Started'
<1>1. IsMessage(Root, Values)
  BY DecodedIsMessage DEF Again
<1>2. Root \in DOMAIN Dico
  BY <1>1 DEF IsMessage
<1>3. buffer' \in Seq(Int) /\ limit' = Len(buffer')
  BY <1>1, EncodeIsTokens DEF Again
<1>4. limit' \in Nat
  BY <1>3
<1>5. open' = <<[id |-> Root, from |-> 0, end |-> limit', type |-> MESSAGE,
                values |-> NoValues]>>
      /\ pos' = 0 /\ at' = "tag" /\ spans' = {}
  BY DEF Again
<1> QED BY <1>2, <1>3, <1>4, <1>5 DEF Started, AtStart

LEMMA AgainIsSound ==
    ASSUME Sound, Again
    PROVE  Sound'
<1>1. Started'
  BY AgainStarts
<1>2. SmallLimit'
  BY DEF Again, SmallLimit
<1> QED BY <1>1, <1>2, StartIsBoundedNext

LEMMA StutterIsSound ==
    ASSUME Sound, UNCHANGED vars
    PROVE  Sound'
<1>1. IInv'
  BY StutterKeeps DEF Sound
<1>2. Bounded'
  BY DEF Sound, Bounded, vars
<1> QED BY <1>1, <1>2 DEF Sound

(* Every step is sound, of any round.                                      *)
LEMMA StepsAreSound == Sound /\ [Next]_vars => Sound'
<1>1. ASSUME Sound, Decode PROVE Sound'
  BY <1>1, DecodeKeeps, DecodeBounded DEF Sound
<1> QED BY <1>1, AgainIsSound, StutterIsSound DEF Next

LEMMA AlwaysSound == Spec => []Sound
BY InitIsSound, StepsAreSound, PTL DEF Spec

LEMMA SoundIsTyped == Sound => TypeOK
<1> SUFFICES ASSUME IInv PROVE TypeOK
  BY DEF Sound
<1>1. PICK S : TreeIn(S)
  BY DEF IInv, Tree
<1>2. ASSUME NEW k \in DOMAIN open PROVE Typed(open[k].id, open[k].values)
  <2> DEFINE id == open[k].id
             m  == open[k].values
  <2>1. open[k] \in Frames(S)
    BY <1>1 DEF TreeIn
  <2>2. <<id, m>> \in S
    BY <2>1 DEF Frames
  <2> HIDE DEF id, m
  <2>3. WellFormed(id, m, S)
    BY <1>1, <2>2 DEF TreeIn, Closed
  <2>4. Typed(id, m)
    BY <1>1, <2>3, WellFormedIsTyped DEF TreeIn
  <2> QED BY <2>4 DEF id, m
<1>3. at = "sequence" => todo.from \in 0 .. pos /\ todo.type \in {BOOL, LONG, DOUBLE}
  <2> SUFFICES ASSUME at = "sequence"
               PROVE  todo.from \in 0 .. pos /\ todo.type \in {BOOL, LONG, DOUBLE}
    OBVIOUS
  <2>1. todo.type \in {BOOL, LONG, DOUBLE}
    BY DEF IInv, Sequence
  <2>2. todo.from \in Nat /\ todo.from <= pos /\ pos \in Nat
    BY DEF IInv, Placed, Positions
  <2> QED BY <2>1, <2>2
<1> QED BY <1>2, <1>3 DEF IInv, Positions, Buffered, TypeOK

LEMMA SoundIsLaminar == Sound => Laminar
BY DEF Sound, IInv, Placed, Laminar

(* For every dictionary and every buffer, what was encoded or not: while   *)
(* it is decoded, the position is inside of the buffer, and what the       *)
(* messages hold is of the types of their items.                           *)
THEOREM WireTypeCorrect == Spec => []TypeOK
BY AlwaysSound, SoundIsTyped, PTL

(* For every buffer, a decode that succeeds has read no token as part of   *)
(* two items, unless one is inside of the other: a length or count that    *)
(* reaches out of the message it is in is always found (Decode.cpp:341).   *)
THEOREM TokensReadOnce == Spec => []Laminar
BY AlwaysSound, SoundIsLaminar, PTL

(***************************************************************************)
(* What is there of the items u when n of the chunks q were read.  The     *)
(* items of M have a chunk for every element, the others have one.         *)
(***************************************************************************)
Lesser(a, b) == IF a < b THEN a ELSE b

\* The first n elements.
Firsts(c, n) == [k \in 1 .. n |-> c[k]]

Taken(u, M, q, n) ==
  [x \in {y \in DOMAIN u : Off(q, y - 1) < n} |->
     IF x \in M THEN Firsts(u[x], Lesser(n - Off(q, x - 1), Len(u[x]))) ELSE u[x]]

\* The chunks q are those of u.
Chunked(u, M, q) ==
  /\ q \in Seq(Seq(Seq(Int))) /\ DOMAIN u \subseteq 1 .. Len(q) /\ u = [x \in DOMAIN u |-> u[x]]
  /\ \A x \in DOMAIN u : Len(q[x]) >= 1
  /\ \A x \in DOMAIN u : x \in M => Len(q[x]) = Len(u[x]) /\ \E X : u[x] \in Seq(X)

LEMMA ChunksGrow ==
    ASSUME NEW u, NEW M, NEW q, Chunked(u, M, q), NEW x \in DOMAIN u, NEW y \in DOMAIN u
    PROVE  /\ Off(q, x - 1) \in Nat /\ Len(q[x]) \in Nat /\ x \in Nat
           /\ x < y => Off(q, x - 1) + Len(q[x]) <= Off(q, y - 1)
           /\ Off(q, x - 1) + Len(q[x]) <= Len(FlattenSeq(q)) /\ Len(FlattenSeq(q)) \in Nat
<1>1. /\ q \in Seq(Seq(Seq(Int))) /\ x \in 1 .. Len(q) /\ y \in 1 .. Len(q) /\ Len(q) \in Nat
  BY DEF Chunked
<1>2. /\ x - 1 \in 0 .. Len(q) /\ x \in 0 .. Len(q) /\ y - 1 \in 0 .. Len(q)
      /\ Len(q) \in 0 .. Len(q) /\ x <= Len(q) /\ q[x] \in Seq(Seq(Int))
  BY <1>1
<1>3. /\ Off(q, x) = Off(q, x - 1) + Len(q[x]) /\ Off(q, x - 1) \in Nat
      /\ Off(q, Len(q)) = Len(FlattenSeq(q)) /\ Off(q, Len(q)) \in Nat
  BY <1>1, <1>2, OffIs
<1>4. Off(q, x) <= Off(q, Len(q))
  BY <1>1, <1>2, OffGrows
<1>5. ASSUME x < y PROVE Off(q, x) <= Off(q, y - 1)
  <2>1. x <= y - 1
    BY <1>1, <1>5
  <2> QED BY <1>1, <1>2, <2>1, OffGrows
<1>6. Len(q[x]) \in Nat
  BY <1>2
<1> QED BY <1>1, <1>3, <1>4, <1>5, <1>6

LEMMA FirstsAre ==
    ASSUME NEW X, NEW c \in Seq(X), NEW j \in Nat, j < Len(c)
    PROVE  /\ Firsts(c, j + 1) = Append(Firsts(c, j), c[j + 1])
           /\ j = 0 => Firsts(c, j + 1) = <<c[j + 1]>>
<1>1. Firsts(c, j) \in Seq(X) /\ Len(Firsts(c, j)) = j
  <2>1. Firsts(c, j) = [k \in 1 .. j |-> Firsts(c, j)[k]]
    BY DEF Firsts
  <2>2. \A k \in 1 .. j : Firsts(c, j)[k] = c[k] /\ c[k] \in X
    BY DEF Firsts
  <2> QED BY <2>1, <2>2, SeqIs
<1>2. \A k \in 1 .. j : Firsts(c, j)[k] = c[k]
  BY DEF Firsts
<1>3. Firsts(c, j + 1) = [k \in 1 .. j + 1 |-> c[k]]
  BY DEF Firsts
<1> DEFINE b == Firsts(c, j)
<1> HIDE DEF b
<1>4. b \in Seq(X) /\ Len(b) = j /\ \A k \in 1 .. j : b[k] = c[k]
  BY <1>1, <1>2 DEF b
<1>5. c[j + 1] \in X
  OBVIOUS
<1>6. [k \in 1 .. j + 1 |-> c[k]] = Append(b, c[j + 1])
  BY <1>4, <1>5
<1>7. j = 0 => [k \in 1 .. j + 1 |-> c[k]] = <<c[j + 1]>>
  OBVIOUS
<1> QED BY <1>3, <1>6, <1>7 DEF b

LEMMA FirstsOfAll ==
    ASSUME NEW X, NEW c \in Seq(X)
    PROVE  Firsts(c, Len(c)) = c
BY DEF Firsts

\* The value of item i with its chunk number j.
OneMore(u, M, f, i, j) ==
  IF i \notin M THEN u[i]
  ELSE IF i \in DOMAIN f THEN Append(f[i], u[i][j + 1]) ELSE <<u[i][j + 1]>>

(* One chunk more is one element more, or one item.                        *)
LEMMA TakenNext ==
    ASSUME NEW u, NEW M, NEW q, Chunked(u, M, q), NEW i \in DOMAIN u, NEW j \in Nat,
           j < Len(q[i]), i \notin M => Len(q[i]) = 1, NEW n, n = Off(q, i - 1) + j
    PROVE  /\ Taken(u, M, q, n + 1)
                = Put(Taken(u, M, q, n), i, OneMore(u, M, Taken(u, M, q, n), i, j))
           /\ i \notin M => i \notin DOMAIN Taken(u, M, q, n)
<1> DEFINE st(y) == Off(q, y - 1)
           D(k) == {y \in DOMAIN u : st(y) < k}
           val(x, k) == IF x \in M THEN Firsts(u[x], Lesser(k - st(x), Len(u[x]))) ELSE u[x]
           f == Taken(u, M, q, n)
           new == OneMore(u, M, f, i, j)
<1>1. \A k : Taken(u, M, q, k) = [x \in D(k) |-> val(x, k)]
  BY DEF Taken
<1>2. \A y \in DOMAIN u : /\ st(y) \in Nat /\ Len(q[y]) \in Nat /\ Len(q[y]) >= 1 /\ y \in Nat
                          /\ y < i => st(y) + Len(q[y]) <= st(i)
                          /\ i < y => st(i) + Len(q[i]) <= st(y)
  <2> SUFFICES ASSUME NEW y \in DOMAIN u
               PROVE  /\ st(y) \in Nat /\ Len(q[y]) \in Nat /\ Len(q[y]) >= 1 /\ y \in Nat
                      /\ y < i => st(y) + Len(q[y]) <= st(i)
                      /\ i < y => st(i) + Len(q[i]) <= st(y)
    OBVIOUS
  <2>1. Len(q[y]) >= 1
    BY DEF Chunked
  <2>2. /\ st(y) \in Nat /\ Len(q[y]) \in Nat /\ y \in Nat
        /\ y < i => st(y) + Len(q[y]) <= st(i)
    BY ChunksGrow
  <2>3. i < y => st(i) + Len(q[i]) <= st(y)
    BY ChunksGrow
  <2> QED BY <2>1, <2>2, <2>3
<1>3. n = st(i) + j
  OBVIOUS
<1> HIDE DEF st
<1>4. n \in Nat /\ i \in D(n + 1) /\ (i \in D(n) <=> j > 0)
  BY <1>2, <1>3
<1>5. D(n + 1) = D(n) \cup {i}
  <2>1. ASSUME NEW y \in DOMAIN u, y # i PROVE st(y) < n + 1 <=> st(y) < n
    <3>1. y < i \/ i < y
      BY <1>2, <2>1
    <3> QED BY <1>2, <1>3, <3>1
  <2>2. ASSUME NEW y \in D(n) PROVE y \in D(n + 1)
    BY <1>2, <1>4
  <2> QED BY <1>4, <2>1, <2>2
<1>6. ASSUME NEW x \in D(n), x # i PROVE val(x, n + 1) = val(x, n)
  <2>1. CASE x \in M
    <3>1. x \in DOMAIN u /\ st(x) < n
      OBVIOUS
    <3>2. x < i
      <4>1. ~(i < x)
        BY <1>2, <1>3, <3>1
      <4> QED BY <1>2, <1>6, <3>1, <4>1
    <3>3. Len(q[x]) = Len(u[x])
      BY <2>1, <3>1 DEF Chunked
    <3>4. st(x) + Len(u[x]) <= n /\ Len(u[x]) \in Nat /\ st(x) \in Nat
      BY <1>2, <1>3, <3>1, <3>2, <3>3
    <3>5. Lesser(n - st(x), Len(u[x])) = Len(u[x]) /\ Lesser((n + 1) - st(x), Len(u[x])) = Len(u[x])
      BY <1>4, <3>4 DEF Lesser
    <3> QED BY <3>5
  <2>2. CASE x \notin M
    BY <2>2
  <2> QED BY <2>1, <2>2
<1>7. DOMAIN f = D(n) /\ (i \in D(n) => f[i] = val(i, n)) /\ \A x \in D(n) : f[x] = val(x, n)
  BY <1>1
<1>8. val(i, n + 1) = new
  <2>1. CASE i \in M
    <3>0. PICK X : u[i] \in Seq(X)
      BY <2>1 DEF Chunked
    <3>1. Len(q[i]) = Len(u[i]) /\ Len(u[i]) \in Nat /\ st(i) \in Nat
      BY <1>2, <2>1 DEF Chunked
    <3>2. Lesser((n + 1) - st(i), Len(u[i])) = j + 1 /\ Lesser(n - st(i), Len(u[i])) = j
      BY <1>3, <3>1 DEF Lesser
    <3>3. val(i, n + 1) = Firsts(u[i], j + 1) /\ val(i, n) = Firsts(u[i], j)
      BY <2>1, <3>2
    <3>4. CASE j > 0
      <4>1. i \in DOMAIN f /\ f[i] = Firsts(u[i], j)
        BY <1>4, <1>7, <3>3, <3>4
      <4>2. new = Append(f[i], u[i][j + 1])
        BY <2>1, <4>1 DEF OneMore
      <4>3. Firsts(u[i], j + 1) = Append(Firsts(u[i], j), u[i][j + 1])
        BY <3>0, <3>1, FirstsAre
      <4> QED BY <3>3, <4>1, <4>2, <4>3
    <3>5. CASE j = 0
      <4>1. i \notin DOMAIN f
        BY <1>4, <1>7, <3>5
      <4>2. new = <<u[i][j + 1]>>
        BY <2>1, <4>1 DEF OneMore
      <4>3. Firsts(u[i], j + 1) = <<u[i][j + 1]>>
        BY <3>0, <3>1, <3>5, FirstsAre
      <4> QED BY <3>3, <4>2, <4>3
    <3> QED BY <3>4, <3>5
  <2>2. CASE i \notin M
    BY <2>2 DEF OneMore
  <2> QED BY <2>1, <2>2
<1>9. i \notin M => i \notin DOMAIN f
  <2> SUFFICES ASSUME i \notin M PROVE i \notin D(n)
    BY <1>7
  <2>1. j = 0
    <3>1. Len(q[i]) = 1 /\ j < Len(q[i])
      OBVIOUS
    <3> QED BY <3>1
  <2> QED BY <1>4, <2>1
<1>10. Taken(u, M, q, n + 1) = Put(f, i, new)
  <2>1. Taken(u, M, q, n + 1) = [x \in D(n + 1) |-> val(x, n + 1)]
    BY <1>1
  <2>2. Put(f, i, new) = [x \in D(n) \cup {i} |-> IF x = i THEN new ELSE f[x]]
    BY <1>7 DEF Put
  <2> HIDE DEF D, val, f, new
  <2>3. \A x \in D(n) \cup {i} : val(x, n + 1) = IF x = i THEN new ELSE f[x]
    BY <1>6, <1>7, <1>8
  <2> QED BY <1>5, <2>1, <2>2, <2>3
<1> QED BY <1>9, <1>10

LEMMA TakenNone ==
    ASSUME NEW u, NEW M, NEW q, Chunked(u, M, q)
    PROVE  Taken(u, M, q, 0) = NoValues
<1>1. \A y \in DOMAIN u : ~(Off(q, y - 1) < 0)
  <2> SUFFICES ASSUME NEW y \in DOMAIN u PROVE ~(Off(q, y - 1) < 0)
    OBVIOUS
  <2>1. Off(q, y - 1) \in Nat
    BY ChunksGrow
  <2> QED BY <2>1
<1>2. {y \in DOMAIN u : Off(q, y - 1) < 0} = {}
  BY <1>1
<1> DEFINE val(x) == IF x \in M THEN Firsts(u[x], Lesser(0 - Off(q, x - 1), Len(u[x]))) ELSE u[x]
<1>3. Taken(u, M, q, 0) = [x \in {y \in DOMAIN u : Off(q, y - 1) < 0} |-> val(x)]
  BY DEF Taken
<1> HIDE DEF val
<1>4. Taken(u, M, q, 0) = [x \in {} |-> val(x)]
  BY <1>2, <1>3
<1> QED BY <1>4 DEF NoValues

(* All chunks have all items.                                              *)
LEMMA TakenAll ==
    ASSUME NEW u, NEW M, NEW q, Chunked(u, M, q)
    PROVE  Taken(u, M, q, Len(FlattenSeq(q))) = u
<1> DEFINE n == Len(FlattenSeq(q))
           val(x) == IF x \in M THEN Firsts(u[x], Lesser(n - Off(q, x - 1), Len(u[x]))) ELSE u[x]
<1>1. Taken(u, M, q, n) = [x \in {y \in DOMAIN u : Off(q, y - 1) < n} |-> val(x)]
  BY DEF Taken
<1>2. ASSUME NEW x \in DOMAIN u PROVE Off(q, x - 1) < n /\ val(x) = u[x]
  <2>1. /\ Off(q, x - 1) \in Nat /\ Len(q[x]) \in Nat /\ Len(q[x]) >= 1
        /\ Off(q, x - 1) + Len(q[x]) <= n /\ n \in Nat
    BY ChunksGrow DEF Chunked
  <2>2. CASE x \in M
    <3>1. PICK X : u[x] \in Seq(X)
      BY <2>2 DEF Chunked
    <3>2. Len(u[x]) = Len(q[x])
      BY <2>2 DEF Chunked
    <3>3. Lesser(n - Off(q, x - 1), Len(u[x])) = Len(u[x])
      BY <2>1, <3>2 DEF Lesser
    <3>4. Firsts(u[x], Len(u[x])) = u[x]
      BY <3>1, FirstsOfAll
    <3> HIDE DEF n
    <3> QED BY <2>1, <2>2, <3>3, <3>4
  <2> HIDE DEF n
  <2> QED BY <2>1, <2>2
<1>3. {y \in DOMAIN u : Off(q, y - 1) < n} = DOMAIN u
  BY <1>2
<1>4. u = [x \in DOMAIN u |-> u[x]]
  BY DEF Chunked
<1> HIDE DEF n, val
<1>5. Taken(u, M, q, n) = [x \in DOMAIN u |-> val(x)]
  BY <1>1, <1>3
<1>6. [x \in DOMAIN u |-> val(x)] = [x \in DOMAIN u |-> u[x]]
  BY <1>2
<1> QED BY <1>4, <1>5, <1>6 DEF n

(* What was taken of an item.                                              *)
LEMMA TakenIs ==
    ASSUME NEW u, NEW M, NEW q, Chunked(u, M, q), NEW n \in Nat, NEW x \in DOMAIN Taken(u, M, q, n)
    PROVE  /\ x \in DOMAIN u
           /\ x \notin M => Taken(u, M, q, n)[x] = u[x]
           /\ x \in M => Taken(u, M, q, n)[x] = SubSeq(u[x], 1, Len(Taken(u, M, q, n)[x]))
<1>1. /\ x \in DOMAIN u /\ Off(q, x - 1) < n
      /\ Taken(u, M, q, n)[x] = IF x \in M
                                THEN Firsts(u[x], Lesser(n - Off(q, x - 1), Len(u[x]))) ELSE u[x]
  BY DEF Taken
<1>2. ASSUME x \in M
      PROVE  Taken(u, M, q, n)[x] = SubSeq(u[x], 1, Len(Taken(u, M, q, n)[x]))
  <2>1. PICK X : u[x] \in Seq(X)
    BY <1>1, <1>2 DEF Chunked
  <2>2. PICK k : k = Lesser(n - Off(q, x - 1), Len(u[x]))
    OBVIOUS
  <2>3. Off(q, x - 1) \in Nat
    BY <1>1, ChunksGrow
  <2>4. k \in Nat /\ k <= Len(u[x])
    BY <1>1, <2>1, <2>2, <2>3 DEF Lesser
  <2>5. Taken(u, M, q, n)[x] = Firsts(u[x], k)
    BY <1>1, <1>2, <2>2
  <2> DEFINE c == u[x]
  <2>6. c \in Seq(X) /\ k <= Len(c) /\ Taken(u, M, q, n)[x] = Firsts(c, k)
    BY <2>1, <2>4, <2>5
  <2> HIDE DEF c
  <2>7. Firsts(c, k) = SubSeq(c, 1, k) /\ Len(Firsts(c, k)) = k
    <3>1. Firsts(c, k) = [y \in 1 .. k |-> c[y]]
      BY DEF Firsts
    <3> QED BY <2>4, <2>6, <3>1
  <2> QED BY <2>6, <2>7 DEF c
<1> QED BY <1>1, <1>2

(***************************************************************************)
(* The chunks of one message m, an id and values: e has what is written of *)
(* the messages of S, t what is kept of them.                              *)
(***************************************************************************)
\* The items that have a chunk for every element.
Many(m) == {x \in DOMAIN m[2] : Dico[m[1]][x] \in {SEQ_STRING, SEQ_MESSAGE}}

ChunksOf(m, e) == Chunks(m[1], m[2], e)

\* The values there are after n chunks.
Part(m, n, e, t) == Taken(t[m], Many(m), ItemChunks(m[1], m[2], e), n)

PiecesOf(m, i, e) == Pieces(i, Dico[m[1]][i], m[2][i], e)

(* What the codec has for the message m.                                   *)
LEMMA CodecHas ==
    ASSUME NEW S, NEW e, NEW t, Codec(S, e, t), NEW m \in S
    PROVE  /\ m = <<m[1], m[2]>> /\ WellFormed(m[1], m[2], S) /\ Written(S, e)
           /\ e[m] \in Seq(Int) /\ e[m] = FlattenSeq(ChunksOf(m, e))
           /\ ChunksOf(m, e) \in Seq(Seq(Int))
           /\ t[m] = TrimItems(m[1], m[2], t)
<1>1. Written(S, e)
  BY DEF Codec, Written
<1>2. /\ m = <<m[1], m[2]>> /\ WellFormed(m[1], m[2], S) /\ e[m] \in Seq(Int)
      /\ e[m] = EncodeItems(m[1], m[2], e) /\ t[m] = TrimItems(m[1], m[2], t)
  BY DEF Codec
<1>3. ChunksOf(m, e) \in Seq(Seq(Int)) /\ EncodeItems(m[1], m[2], e) = FlattenSeq(ChunksOf(m, e))
  BY <1>1, <1>2, ChunksAre DEF ChunksOf
<1> QED BY <1>1, <1>2, <1>3

\* How many pieces an item has.
Counted(type, v, p) == Len(p) = IF type \in {SEQ_STRING, SEQ_MESSAGE} THEN Len(v)
                                ELSE IF Repeated(type) /\ v = <<>> THEN 0 ELSE 1

LEMMA PieceCount ==
    ASSUME NEW S, NEW i, NEW type \in ItemTypes, NEW v, Holds(i, type, v, S), NEW e
    PROVE  Counted(type, v, Pieces(i, type, v, e))
<1> DEFINE p == Pieces(i, type, v, e)
           one == <<Varint(v)>>
<1>1. CASE type \in {BOOL, LONG}
  <2>1. p = <<Varint(v)>>
    BY <1>1, PiecesOfVarint
  <2>2. type \notin {SEQ_STRING, SEQ_MESSAGE} /\ ~Repeated(type)
    BY <1>1 DEF Repeated, BOOL, LONG, DOUBLE, STRING_T, MESSAGE, SEQ_BOOL, SEQ_LONG, SEQ_DOUBLE,
       SEQ_STRING, SEQ_MESSAGE
  <2> QED BY <2>1, <2>2 DEF Counted
<1>2. CASE type = DOUBLE
  <2>1. p = <<Number(v, DoubleSize)>>
    BY <1>2, PiecesOfDouble
  <2>2. type \notin {SEQ_STRING, SEQ_MESSAGE} /\ ~Repeated(type)
    BY <1>2 DEF Repeated, BOOL, LONG, DOUBLE, STRING_T, MESSAGE, SEQ_BOOL, SEQ_LONG, SEQ_DOUBLE,
       SEQ_STRING, SEQ_MESSAGE
  <2> QED BY <2>1, <2>2 DEF Counted
<1>3. CASE type = STRING_T
  <2>1. p = <<Prefixed(Blank(v))>>
    BY <1>3, PiecesOfString
  <2>2. type \notin {SEQ_STRING, SEQ_MESSAGE} /\ ~Repeated(type)
    BY <1>3 DEF Repeated, BOOL, LONG, DOUBLE, STRING_T, MESSAGE, SEQ_BOOL, SEQ_LONG, SEQ_DOUBLE,
       SEQ_STRING, SEQ_MESSAGE
  <2> QED BY <2>1, <2>2 DEF Counted
<1>4. CASE type = MESSAGE
  <2>1. p = <<Prefixed(e[<<i, v>>])>>
    BY <1>4, PiecesOfMessage
  <2>2. type \notin {SEQ_STRING, SEQ_MESSAGE} /\ ~Repeated(type)
    BY <1>4 DEF Repeated, BOOL, LONG, DOUBLE, STRING_T, MESSAGE, SEQ_BOOL, SEQ_LONG, SEQ_DOUBLE,
       SEQ_STRING, SEQ_MESSAGE
  <2> QED BY <2>1, <2>2 DEF Counted
<1>5. CASE type = SEQ_STRING
  <2>1. p = [k \in 1 .. Len(v) |-> Prefixed(Blank(v[k]))]
    BY <1>5, PiecesOfStrings
  <2>2. Len(v) \in Nat
    BY <1>5 DEF Holds
  <2> DEFINE c(k) == Prefixed(Blank(v[k]))
  <2>3. p = [k \in 1 .. Len(v) |-> c(k)]
    BY <2>1
  <2> HIDE DEF c, p
  <2>4. Len(p) = Len(v)
    BY <2>2, <2>3
  <2> QED BY <1>5, <2>4 DEF p, Counted
<1>6. CASE type = SEQ_MESSAGE
  <2>1. p = [k \in 1 .. Len(v) |-> Prefixed(e[<<i, v[k]>>])]
    BY <1>6, PiecesOfMessages
  <2>2. Len(v) \in Nat
    BY <1>6 DEF Holds
  <2> DEFINE c(k) == Prefixed(e[<<i, v[k]>>])
  <2>3. p = [k \in 1 .. Len(v) |-> c(k)]
    BY <2>1
  <2> HIDE DEF c, p
  <2>4. Len(p) = Len(v)
    BY <2>2, <2>3
  <2> QED BY <1>6, <2>4 DEF p, Counted
<1>7. CASE type \in {SEQ_BOOL, SEQ_LONG, SEQ_DOUBLE}
  <2>1. p = IF v = <<>> THEN <<>> ELSE <<Prefixed(Packed(type, v))>>
    BY <1>7, PiecesOfPacked
  <2>2. type \notin {SEQ_STRING, SEQ_MESSAGE} /\ Repeated(type)
    BY <1>7 DEF Repeated, BOOL, LONG, DOUBLE, STRING_T, MESSAGE, SEQ_BOOL, SEQ_LONG, SEQ_DOUBLE,
       SEQ_STRING, SEQ_MESSAGE
  <2>3. Len(<<>>) = 0 /\ Len(<<Prefixed(Packed(type, v))>>) = 1
    OBVIOUS
  <2> QED BY <2>1, <2>2, <2>3 DEF Counted
<1> QED BY <1>1, <1>2, <1>3, <1>4, <1>5, <1>6, <1>7 DEF ItemTypes

\* The items that are not lost.
Lasting(m) == {x \in DOMAIN m[2] : Repeated(Dico[m[1]][x]) => m[2][x] # <<>>}

\* What is kept of an item.
KeptIs(t, m, x) ==
  /\ Dico[m[1]][x] = MESSAGE => t[m][x] = t[<<x, m[2][x]>>]
  /\ Dico[m[1]][x] = SEQ_MESSAGE =>
       t[m][x] = [k \in 1 .. Len(m[2][x]) |-> t[<<x, m[2][x][k]>>]]
  /\ Dico[m[1]][x] \notin {MESSAGE, SEQ_MESSAGE} => t[m][x] = m[2][x]

LEMMA TrimIs ==
    ASSUME NEW S, NEW e, NEW t, Codec(S, e, t), NEW m \in S
    PROVE  /\ DOMAIN t[m] = Lasting(m)
           /\ t[m] = [x \in DOMAIN t[m] |-> t[m][x]]
           /\ \A x \in DOMAIN t[m] : KeptIs(t, m, x)
<1> DEFINE D == {x \in DOMAIN m[2] : Repeated(Dico[m[1]][x]) => m[2][x] # <<>>}
           type(x) == Dico[m[1]][x]
           val(x) == CASE type(x) = MESSAGE     -> t[<<x, m[2][x]>>]
                       [] type(x) = SEQ_MESSAGE ->
                            [k \in 1 .. Len(m[2][x]) |-> t[<<x, m[2][x][k]>>]]
                       [] OTHER                 -> m[2][x]
<1>1. t[m] = [x \in D |-> val(x)]
  BY CodecHas DEF TrimItems
<1>2. ASSUME NEW x
      PROVE  /\ type(x) = MESSAGE => val(x) = t[<<x, m[2][x]>>]
             /\ type(x) = SEQ_MESSAGE =>
                  val(x) = [k \in 1 .. Len(m[2][x]) |-> t[<<x, m[2][x][k]>>]]
             /\ type(x) \notin {MESSAGE, SEQ_MESSAGE} => val(x) = m[2][x]
  <2> DEFINE ty == type(x)
             a == t[<<x, m[2][x]>>]
             b == [k \in 1 .. Len(m[2][x]) |-> t[<<x, m[2][x][k]>>]]
             c == m[2][x]
  <2>1. val(x) = CASE ty = MESSAGE -> a [] ty = SEQ_MESSAGE -> b [] OTHER -> c
    OBVIOUS
  <2> HIDE DEF val, ty, a, b, c
  <2>2. MESSAGE # SEQ_MESSAGE
    BY DEF MESSAGE, SEQ_MESSAGE
  <2>3. /\ ty = MESSAGE => val(x) = a
        /\ ty = SEQ_MESSAGE => val(x) = b
        /\ ty \notin {MESSAGE, SEQ_MESSAGE} => val(x) = c
    BY <2>1, <2>2
  <2> QED BY <2>3 DEF ty, a, b, c
<1> HIDE DEF val
<1>3. DOMAIN t[m] = D /\ \A x \in D : t[m][x] = val(x)
  BY <1>1
<1>4. t[m] = [x \in DOMAIN t[m] |-> t[m][x]]
  BY <1>1
<1>5. ASSUME NEW x \in DOMAIN t[m] PROVE KeptIs(t, m, x)
  BY <1>2, <1>3 DEF KeptIs
<1> QED BY <1>3, <1>4, <1>5 DEF Lasting

\* An item is written as its pieces, each behind the tag.
Encoded(S, e, id, values, i) ==
  LET p == Pieces(i, Dico[id][i], values[i], e)
      q == EncodeItem(id, values, i, e)
  IN  /\ p \in Seq(Seq(Int)) /\ Len(q) = Len(p) /\ Len(p) \in Nat
      /\ \A k \in 1 .. Len(p) : q[k] = <<TagFor(i, Dico[id][i])>> \o p[k]
      /\ Dico[id][i] \in ItemTypes /\ Holds(i, Dico[id][i], values[i], S)
      /\ Counted(Dico[id][i], values[i], p)

LEMMA LastingIs ==
    ASSUME NEW S, NEW e, NEW t, Codec(S, e, t), NEW m \in S
    PROVE  DOMAIN t[m] = Lasting(m)
<1>1. DOMAIN t[m] = Lasting(m) /\ t[m] = [x \in DOMAIN t[m] |-> t[m][x]]
  BY TrimIs
<1> QED BY <1>1

LEMMA ItemEncoded ==
    ASSUME NEW S, NEW e, Written(S, e), NEW id, NEW values, WellFormed(id, values, S), NEW i,
           i \in DOMAIN values
    PROVE  Encoded(S, e, id, values, i)
<1> DEFINE p == Pieces(i, Dico[id][i], values[i], e)
           q == EncodeItem(id, values, i, e)
<1>1. /\ p \in Seq(Seq(Int)) /\ Len(q) = Len(p)
      /\ \A k \in 1 .. Len(p) : q[k] = <<TagFor(i, Dico[id][i])>> \o p[k]
      /\ Dico[id][i] \in ItemTypes /\ Holds(i, Dico[id][i], values[i], S)
  BY EncodeItemIs
<1>2. Len(p) \in Nat
  BY <1>1
<1>3. Counted(Dico[id][i], values[i], p)
  BY <1>1, PieceCount
<1> QED BY <1>1, <1>2, <1>3 DEF Encoded

(* The chunks of a message are those of what is kept of it.                *)
LEMMA MessageChunked ==
    ASSUME NEW S, NEW e, NEW t, Codec(S, e, t), NEW m \in S
    PROVE  /\ Chunked(t[m], Many(m), ItemChunks(m[1], m[2], e))
           /\ ChunksOf(m, e) = FlattenSeq(ItemChunks(m[1], m[2], e))
           /\ DOMAIN t[m] \subseteq 1 .. IdMax
<1> DEFINE q == ItemChunks(m[1], m[2], e)
<1>0. Written(S, e) /\ WellFormed(m[1], m[2], S)
  BY CodecHas
<1>1. /\ q \in Seq(Seq(Seq(Int))) /\ Len(q) = IdMax
      /\ \A i \in 1 .. IdMax : q[i] = EncodeItem(m[1], m[2], i, e)
      /\ ChunksOf(m, e) = FlattenSeq(q)
  BY <1>0, ChunksAre DEF ChunksOf
<1> HIDE DEF q
<1>2. /\ DOMAIN t[m] = Lasting(m)
      /\ t[m] = [x \in DOMAIN t[m] |-> t[m][x]]
  BY TrimIs
<1>3. DOMAIN t[m] \subseteq 1 .. IdMax
  <2>1. \A x \in DOMAIN m[2] : x \in 1 .. IdMax
    BY <1>0, TagAssumption DEF WellFormed
  <2> QED BY <1>2, <2>1 DEF Lasting
<1>4. ASSUME NEW x \in DOMAIN t[m]
      PROVE  /\ Len(q[x]) >= 1
             /\ x \in Many(m) => Len(q[x]) = Len(t[m][x]) /\ \E X : t[m][x] \in Seq(X)
  <2> DEFINE type == Dico[m[1]][x]
             v == m[2][x]
             p == PiecesOf(m, x, e)
  <2>1. x \in DOMAIN m[2] /\ (Repeated(type) => v # <<>>) /\ x \in 1 .. IdMax
    BY <1>2, <1>3 DEF Lasting
  <2> HIDE DEF p
  <2>2. /\ Len(EncodeItem(m[1], m[2], x, e)) = Len(p) /\ type \in ItemTypes /\ Holds(x, type, v, S)
        /\ Counted(type, v, p)
    <3>1. Encoded(S, e, m[1], m[2], x)
      BY <1>0, <2>1, ItemEncoded
    <3> QED BY <3>1 DEF Encoded, p, PiecesOf
  <2>3. Len(q[x]) = Len(p)
    BY <1>1, <2>1, <2>2
  <2>4. /\ type = SEQ_MESSAGE => t[m][x] = [k \in 1 .. Len(v) |-> t[<<x, v[k]>>]]
        /\ type = SEQ_STRING => t[m][x] = v
    <3>1. type = SEQ_STRING => type \notin {MESSAGE, SEQ_MESSAGE}
      BY DEF SEQ_STRING, MESSAGE, SEQ_MESSAGE
    <3>2. /\ Dico[m[1]][x] = SEQ_MESSAGE =>
               t[m][x] = [k \in 1 .. Len(m[2][x]) |-> t[<<x, m[2][x][k]>>]]
          /\ Dico[m[1]][x] \notin {MESSAGE, SEQ_MESSAGE} => t[m][x] = m[2][x]
      <4>1. KeptIs(t, m, x)
        BY TrimIs
      <4> QED BY <4>1 DEF KeptIs
    <3> QED BY <3>1, <3>2
  <2>5. x \in Many(m) <=> type \in {SEQ_STRING, SEQ_MESSAGE}
    BY <2>1 DEF Many
  <2> HIDE DEF type, v, p
  <2>6. Len(p) = IF type \in {SEQ_STRING, SEQ_MESSAGE} THEN Len(v)
                 ELSE IF Repeated(type) /\ v = <<>> THEN 0 ELSE 1
    BY <2>2 DEF Counted
  <2>7. CASE type \in {SEQ_STRING, SEQ_MESSAGE}
    <3>1. Repeated(type)
      BY <2>7 DEF Repeated, MESSAGE, SEQ_STRING, SEQ_MESSAGE
    <3>2. \E X : v \in Seq(X)
      BY <2>2, <2>7 DEF Holds
    <3>3. Len(v) \in Nat /\ Len(v) >= 1
      BY <2>1, <3>1, <3>2
    <3>4. Len(t[m][x]) = Len(v) /\ \E X : t[m][x] \in Seq(X)
      <4>1. CASE type = SEQ_STRING
        BY <2>4, <3>2, <4>1
      <4>2. CASE type = SEQ_MESSAGE
        <5> DEFINE f == t[m][x]
        <5>1. f = [k \in 1 .. Len(v) |-> t[<<x, v[k]>>]]
          BY <2>4, <4>2
        <5> HIDE DEF f
        <5>2. f = [k \in 1 .. Len(v) |-> f[k]]
          BY <5>1
        <5>3. \A k \in 1 .. Len(v) : f[k] \in {f[y] : y \in 1 .. Len(v)}
          OBVIOUS
        <5>4. Len(f) = Len(v) /\ f \in Seq({f[y] : y \in 1 .. Len(v)})
          BY <3>3, <5>2, <5>3, SeqIs
        <5> QED BY <5>4 DEF f
      <4> QED BY <2>7, <4>1, <4>2
    <3> QED BY <2>3, <2>6, <2>7, <3>3, <3>4
  <2>8. CASE type \notin {SEQ_STRING, SEQ_MESSAGE}
    BY <2>1, <2>3, <2>5, <2>6, <2>8
  <2> QED BY <2>7, <2>8
<1>5. Chunked(t[m], Many(m), q)
  BY <1>1, <1>2, <1>3, <1>4 DEF Chunked
<1> QED BY <1>1, <1>3, <1>5 DEF q

\* Chunk n of m is piece j of item i, behind its tag, and what is added to what was read.
IsChunk(S, e, t, m, n, i, j) ==
  LET p == PiecesOf(m, i, e)
      f == Part(m, n, e, t)
  IN  /\ i \in DOMAIN m[2] /\ Dico[m[1]][i] \in ItemTypes
      /\ Holds(i, Dico[m[1]][i], m[2][i], S)
      /\ j < Len(p) /\ p \in Seq(Seq(Int)) /\ Len(p) \in Nat
      /\ ChunksOf(m, e)[n + 1] = <<TagFor(i, Dico[m[1]][i])>> \o p[j + 1]
      /\ Part(m, n + 1, e, t) = Put(f, i, OneMore(t[m], Many(m), f, i, j))
      /\ i \notin Many(m) => i \notin DOMAIN f /\ j = 0

(* Every chunk is a piece of an item.                                      *)
LEMMA ChunkIs ==
    ASSUME NEW S, NEW e, NEW t, Codec(S, e, t), NEW m \in S, NEW n \in Nat, n < Len(ChunksOf(m, e))
    PROVE  \E i \in DOMAIN t[m], j \in Nat : IsChunk(S, e, t, m, n, i, j)
<1> DEFINE q == ItemChunks(m[1], m[2], e)
<1>0. Written(S, e) /\ WellFormed(m[1], m[2], S)
  BY CodecHas
<1>a. DOMAIN t[m] = Lasting(m)
  BY LastingIs
<1>1. /\ q \in Seq(Seq(Seq(Int))) /\ Len(q) = IdMax /\ IdMax \in Nat
      /\ \A i \in 1 .. IdMax : q[i] = EncodeItem(m[1], m[2], i, e)
  BY <1>0, ChunksAre
<1>2. Chunked(t[m], Many(m), q) /\ ChunksOf(m, e) = FlattenSeq(q)
  BY MessageChunked
<1> HIDE DEF q
<1>3. PICK i \in 1 .. Len(q) : Off(q, i - 1) <= n /\ n < Off(q, i)
  BY <1>1, <1>2, ElementOf
<1>4. PICK j : j = n - Off(q, i - 1)
  OBVIOUS
<1>5. /\ Off(q, i) = Off(q, i - 1) + Len(q[i]) /\ Off(q, i - 1) \in Nat /\ Len(q[i]) \in Nat
  <2>1. i - 1 \in 0 .. Len(q) /\ q[i] \in Seq(Seq(Int)) /\ Len(q[i]) \in Nat
    BY <1>1
  <2>2. /\ \A x \in 0 .. Len(q) : Off(q, x) \in Nat
        /\ \A x \in 1 .. Len(q) : Off(q, x) = Off(q, x - 1) + Len(q[x])
    BY <1>1, OffIs
  <2> QED BY <2>1, <2>2
<1>6. j \in Nat /\ j < Len(q[i]) /\ n = Off(q, i - 1) + j /\ j + 1 \in 1 .. Len(q[i])
      /\ Off(q, i - 1) + (j + 1) = n + 1
  BY <1>3, <1>4, <1>5
<1>7. ChunksOf(m, e)[n + 1] = q[i][j + 1]
  <2>1. FlattenSeq(q)[Off(q, i - 1) + (j + 1)] = q[i][j + 1]
    BY <1>1, <1>6, ElementAt
  <2> QED BY <1>2, <1>6, <2>1
<1>8. i \in DOMAIN m[2]
  <2> SUFFICES ASSUME i \notin DOMAIN m[2] PROVE FALSE
    OBVIOUS
  <2>1. q[i] = <<>>
    BY <1>1, NoItemIsEmpty
  <2> QED BY <1>6, <2>1
<1> DEFINE type == Dico[m[1]][i]
           v == m[2][i]
           p == PiecesOf(m, i, e)
<1> HIDE DEF p
<1>9. /\ p \in Seq(Seq(Int)) /\ Len(q[i]) = Len(p) /\ type \in ItemTypes /\ Holds(i, type, v, S)
      /\ \A k \in 1 .. Len(p) : q[i][k] = <<TagFor(i, type)>> \o p[k]
      /\ Len(p) \in Nat /\ Counted(type, v, p)
  <2>1. i \in 1 .. IdMax
    BY <1>1
  <2>2. q[i] = EncodeItem(m[1], m[2], i, e)
    BY <1>1, <2>1
  <2>3. Encoded(S, e, m[1], m[2], i)
    BY <1>0, <1>8, ItemEncoded
  <2> QED BY <2>2, <2>3 DEF Encoded, p, PiecesOf
<1>10. Len(p) = IF type \in {SEQ_STRING, SEQ_MESSAGE} THEN Len(v)
                ELSE IF Repeated(type) /\ v = <<>> THEN 0 ELSE 1
  BY <1>9 DEF Counted
<1>11. i \in Many(m) <=> type \in {SEQ_STRING, SEQ_MESSAGE}
  BY <1>8 DEF Many
<1>12. i \in DOMAIN t[m]
  <2>1. Repeated(type) => v # <<>>
    <3> SUFFICES ASSUME Repeated(type), v = <<>> PROVE FALSE
      OBVIOUS
    <3>1. Len(v) = 0
      OBVIOUS
    <3> HIDE DEF type, v
    <3>2. Len(p) = 0
      BY <1>10, <3>1
    <3>3. Len(q[i]) = 0
      BY <1>9, <3>2
    <3> QED BY <1>6, <3>3
  <2> HIDE DEF type, v
  <2> QED BY <1>8, <1>a, <2>1 DEF type, v, Lasting
<1>13. i \notin Many(m) => Len(q[i]) = 1 /\ j = 0
  <2> HIDE DEF type, v
  <2> SUFFICES ASSUME i \notin Many(m) PROVE Len(q[i]) = 1 /\ j = 0
    OBVIOUS
  <2>1. Len(p) = 0 \/ Len(p) = 1
    BY <1>10, <1>11
  <2>2. Len(q[i]) = 0 \/ Len(q[i]) = 1
    BY <1>9, <2>1
  <2>3. j \in Nat /\ j < Len(q[i])
    BY <1>6
  <2>4. Len(q[i]) = 1
    BY <2>2, <2>3
  <2>5. j < 1
    BY <2>3, <2>4
  <2> QED BY <2>3, <2>4, <2>5
<1> DEFINE f == Taken(t[m], Many(m), q, n)
<1>14. /\ Taken(t[m], Many(m), q, n + 1) = Put(f, i, OneMore(t[m], Many(m), f, i, j))
       /\ i \notin Many(m) => i \notin DOMAIN f
  BY <1>2, <1>6, <1>12, <1>13, TakenNext
<1>15. /\ Part(m, n, e, t) = f
       /\ Part(m, n + 1, e, t) = Put(f, i, OneMore(t[m], Many(m), f, i, j))
  BY <1>14 DEF Part, q
<1>16. PiecesOf(m, i, e) = p
  BY DEF p
<1>17. Len(p) \in Nat
  BY <1>9
<1> HIDE DEF type, v, f
<1>18. /\ i \in DOMAIN m[2] /\ type \in ItemTypes
       /\ Holds(i, type, v, S)
       /\ j < Len(p) /\ p \in Seq(Seq(Int)) /\ Len(p) \in Nat
       /\ ChunksOf(m, e)[n + 1] = <<TagFor(i, type)>> \o p[j + 1]
       /\ Part(m, n + 1, e, t) = Put(Part(m, n, e, t), i, OneMore(t[m], Many(m), Part(m, n, e, t), i, j))
       /\ i \notin Many(m) => i \notin DOMAIN Part(m, n, e, t) /\ j = 0
  BY <1>6, <1>7, <1>8, <1>9, <1>13, <1>14, <1>15, <1>17
<1>19. IsChunk(S, e, t, m, n, i, j)
  BY <1>16, <1>18 DEF type, v, IsChunk
<1> QED BY <1>6, <1>12, <1>19

LEMMA NoPart ==
    ASSUME NEW S, NEW e, NEW t, Codec(S, e, t), NEW m \in S
    PROVE  Part(m, 0, e, t) = NoValues
BY MessageChunked, TakenNone DEF Part

LEMMA WholePart ==
    ASSUME NEW S, NEW e, NEW t, Codec(S, e, t), NEW m \in S
    PROVE  Part(m, Len(ChunksOf(m, e)), e, t) = t[m]
BY MessageChunked, TakenAll DEF Part

(* Where the chunks begin.                                                 *)
LEMMA ChunkAt ==
    ASSUME NEW S, NEW e, NEW t, Codec(S, e, t), NEW m \in S, NEW n \in Nat, n < Len(ChunksOf(m, e))
    PROVE  LET c == ChunksOf(m, e) IN
           /\ c[n + 1] \in Seq(Int) /\ Len(c[n + 1]) \in Nat /\ Len(c[n + 1]) >= 1
           /\ Off(c, n) \in Nat /\ Off(c, n + 1) = Off(c, n) + Len(c[n + 1])
           /\ Off(c, n + 1) <= Len(e[m]) /\ Off(c, n) < Len(e[m])
           /\ Len(e[m]) \in Nat /\ Len(c) \in Nat /\ n + 1 \in 1 .. Len(c)
<1> DEFINE c == ChunksOf(m, e)
<1>1. c \in Seq(Seq(Int)) /\ e[m] = FlattenSeq(c) /\ e[m] \in Seq(Int)
  BY CodecHas
<1>2. PICK i, j : /\ PiecesOf(m, i, e) \in Seq(Seq(Int)) /\ j \in Nat
                  /\ j < Len(PiecesOf(m, i, e))
                  /\ c[n + 1] = <<TagFor(i, Dico[m[1]][i])>> \o PiecesOf(m, i, e)[j + 1]
  <2>1. PICK i, j : j \in Nat /\ IsChunk(S, e, t, m, n, i, j)
    BY ChunkIs
  <2> QED BY <2>1 DEF IsChunk
<1> HIDE DEF c
<1>3. Len(c) \in Nat /\ n + 1 \in 1 .. Len(c) /\ n \in 0 .. Len(c) /\ (n + 1) - 1 = n
      /\ n + 1 \in 0 .. Len(c) /\ Len(c) \in 0 .. Len(c) /\ n + 1 <= Len(c) /\ n < Len(c)
  BY <1>1 DEF c
<1>4. c[n + 1] \in Seq(Int) /\ Len(c[n + 1]) \in Nat
  BY <1>1, <1>3
<1>5. Len(c[n + 1]) >= 1
  <2> DEFINE p == PiecesOf(m, i, e)[j + 1]
             a == TagFor(i, Dico[m[1]][i])
  <2>1. p \in Seq(Int)
    BY <1>2
  <2>2. c[n + 1] = <<a>> \o p
    BY <1>2
  <2> HIDE DEF p, a
  <2>3. <<a>> \o p \in Seq(Int \cup {a}) /\ Len(<<a>> \o p) = 1 + Len(p) /\ Len(p) \in Nat
    BY <2>1
  <2> QED BY <2>2, <2>3
<1>6. Off(c, n) \in Nat /\ Off(c, n + 1) = Off(c, n) + Len(c[n + 1]) /\ Off(c, n + 1) \in Nat
      /\ Off(c, Len(c)) = Len(e[m])
  BY <1>1, <1>3, OffIs
<1>7. Off(c, n + 1) <= Off(c, Len(c))
  BY <1>1, <1>3, OffGrows
<1>8. Len(e[m]) \in Nat
  BY <1>1
<1>9. Off(c, n) < Len(e[m])
  BY <1>4, <1>5, <1>6, <1>7, <1>8
<1> QED BY <1>3, <1>4, <1>5, <1>6, <1>7, <1>8, <1>9 DEF c

(***************************************************************************)
(* The chunk n of the message m, by the type of its item i.                *)
(***************************************************************************)
TypeOf(m, i) == Dico[m[1]][i]

\* The chunk is the tag of the item and then p.
Carries(m, n, e, i, p) ==
  /\ p \in Seq(Int) /\ i \in DOMAIN m[2]
  /\ ChunksOf(m, e)[n + 1] = <<TagFor(i, TypeOf(m, i))>> \o p

\* The value v of the item i is what the chunk adds.
Adds(m, n, e, t, i, v) == Part(m, n + 1, e, t) = Put(Part(m, n, e, t), i, v)

\* A number y, and k tokens in all.
Begins(p, y, k) == p[1] = y /\ Len(p) = k

\* What one value takes.
Size(type, y) == IF type = DOUBLE THEN DoubleSize
                 ELSE IF type = STRING_T THEN VarintSize(y) + y ELSE VarintSize(y)

\* The chunk of an item of a single value.
ValueChunk(m, n, e, t, i) ==
  \E p : /\ Carries(m, n, e, i, p) /\ Begins(p, m[2][i], Size(TypeOf(m, i), m[2][i]))
         /\ m[2][i] \in Int /\ (TypeOf(m, i) = BOOL => m[2][i] \in {0, 1})
         /\ (TypeOf(m, i) = STRING_T => m[2][i] \in Nat)
         /\ i \notin DOMAIN Part(m, n, e, t) /\ Adds(m, n, e, t, i, m[2][i])

\* The one of an element of a sequence of strings.
StringsChunk(m, n, e, t, i) ==
  \E p, y : /\ Carries(m, n, e, i, p) /\ y \in Nat /\ Begins(p, y, VarintSize(y) + y)
            /\ Adds(m, n, e, t, i, IF i \in DOMAIN Part(m, n, e, t)
                                   THEN Append(Part(m, n, e, t)[i], y) ELSE <<y>>)

\* The one of a message, of a sequence or not.
MessageChunk(S, m, n, e, t, i) ==
  \E c \in S : /\ c[1] = i /\ Carries(m, n, e, i, Prefixed(e[c]))
               /\ TypeOf(m, i) = MESSAGE => i \notin DOMAIN Part(m, n, e, t)
               /\ Part(m, n + 1, e, t) = With(Part(m, n, e, t), i, TypeOf(m, i), t[c])

\* The one of a packed sequence.
PackedChunk(m, n, e, t, i) ==
  /\ Carries(m, n, e, i, Prefixed(Packed(TypeOf(m, i), m[2][i])))
  /\ m[2][i] \in Seq(Int) /\ (TypeOf(m, i) = SEQ_BOOL => m[2][i] \in Seq({0, 1}))
  /\ i \notin DOMAIN Part(m, n, e, t) /\ Adds(m, n, e, t, i, m[2][i])

\* An item that has one chunk.
LEMMA OneChunk ==
    ASSUME NEW S, NEW e, NEW t, NEW m, NEW n, NEW i, NEW j, IsChunk(S, e, t, m, n, i, j),
           TypeOf(m, i) \notin {SEQ_STRING, SEQ_MESSAGE}
    PROVE  /\ j = 0 /\ i \notin DOMAIN Part(m, n, e, t) /\ Adds(m, n, e, t, i, t[m][i])
           /\ PiecesOf(m, i, e)[1] \in Seq(Int) /\ i \in DOMAIN m[2]
           /\ Carries(m, n, e, i, PiecesOf(m, i, e)[1])
           /\ Holds(i, TypeOf(m, i), m[2][i], S)
<1>1. i \notin Many(m)
  BY DEF Many, TypeOf
<1>2. j = 0 /\ i \notin DOMAIN Part(m, n, e, t)
  BY <1>1 DEF IsChunk
<1>3. Adds(m, n, e, t, i, t[m][i])
  <2>1. OneMore(t[m], Many(m), Part(m, n, e, t), i, j) = t[m][i]
    BY <1>1 DEF OneMore
  <2>2. Part(m, n + 1, e, t)
          = Put(Part(m, n, e, t), i, OneMore(t[m], Many(m), Part(m, n, e, t), i, j))
    BY DEF IsChunk
  <2> QED BY <2>1, <2>2 DEF Adds
<1>4. /\ i \in DOMAIN m[2] /\ Holds(i, TypeOf(m, i), m[2][i], S)
      /\ j < Len(PiecesOf(m, i, e)) /\ PiecesOf(m, i, e) \in Seq(Seq(Int))
      /\ ChunksOf(m, e)[n + 1] = <<TagFor(i, TypeOf(m, i))>> \o PiecesOf(m, i, e)[j + 1]
  BY DEF IsChunk, TypeOf
<1> DEFINE q == PiecesOf(m, i, e)
<1> HIDE DEF q
<1>5. q \in Seq(Seq(Int)) /\ 0 < Len(q)
  BY <1>2, <1>4 DEF q
<1>6. q[1] \in Seq(Int)
  BY <1>5
<1>7. ChunksOf(m, e)[n + 1] = <<TagFor(i, TypeOf(m, i))>> \o q[1]
  BY <1>2, <1>4 DEF q
<1> QED BY <1>2, <1>3, <1>4, <1>6, <1>7 DEF q, Carries

\* An item that has a chunk for every element.
LEMMA ElementChunk ==
    ASSUME NEW S, NEW e, NEW t, NEW m, NEW n, NEW i, NEW j \in Nat, IsChunk(S, e, t, m, n, i, j),
           TypeOf(m, i) \in {SEQ_STRING, SEQ_MESSAGE}
    PROVE  /\ Adds(m, n, e, t, i, IF i \in DOMAIN Part(m, n, e, t)
                                  THEN Append(Part(m, n, e, t)[i], t[m][i][j + 1])
                                  ELSE <<t[m][i][j + 1]>>)
           /\ PiecesOf(m, i, e)[j + 1] \in Seq(Int) /\ i \in DOMAIN m[2]
           /\ Carries(m, n, e, i, PiecesOf(m, i, e)[j + 1])
           /\ j + 1 \in 1 .. Len(PiecesOf(m, i, e))
           /\ Holds(i, TypeOf(m, i), m[2][i], S)
<1>1. i \in Many(m)
  BY DEF Many, TypeOf, IsChunk
<1> DEFINE f == Part(m, n, e, t)
           new == IF i \in DOMAIN f THEN Append(f[i], t[m][i][j + 1]) ELSE <<t[m][i][j + 1]>>
<1>3. Adds(m, n, e, t, i, new)
  <2>1. OneMore(t[m], Many(m), Part(m, n, e, t), i, j) = new
    BY <1>1 DEF OneMore
  <2>2. Part(m, n + 1, e, t)
          = Put(Part(m, n, e, t), i, OneMore(t[m], Many(m), Part(m, n, e, t), i, j))
    BY DEF IsChunk
  <2> HIDE DEF new
  <2> QED BY <2>1, <2>2 DEF Adds
<1>4. /\ i \in DOMAIN m[2] /\ Holds(i, TypeOf(m, i), m[2][i], S)
      /\ j < Len(PiecesOf(m, i, e)) /\ PiecesOf(m, i, e) \in Seq(Seq(Int))
      /\ ChunksOf(m, e)[n + 1] = <<TagFor(i, TypeOf(m, i))>> \o PiecesOf(m, i, e)[j + 1]
  BY DEF IsChunk, TypeOf
<1> DEFINE q == PiecesOf(m, i, e)
<1> HIDE DEF q
<1>5. q \in Seq(Seq(Int)) /\ j < Len(q)
  BY <1>4 DEF q
<1>6. q[j + 1] \in Seq(Int) /\ j + 1 \in 1 .. Len(q)
  BY <1>5
<1>7. ChunksOf(m, e)[n + 1] = <<TagFor(i, TypeOf(m, i))>> \o q[j + 1]
  BY <1>4 DEF q
<1>8. Carries(m, n, e, i, q[j + 1])
  BY <1>4, <1>6, <1>7 DEF Carries
<1> QED BY <1>3, <1>4, <1>6, <1>8 DEF q

LEMMA ValueChunkIs ==
    ASSUME NEW S, NEW e, NEW t, Codec(S, e, t), NEW m \in S, NEW n, NEW i \in DOMAIN t[m], NEW j,
           IsChunk(S, e, t, m, n, i, j), TypeOf(m, i) \in {BOOL, LONG, DOUBLE, STRING_T}
    PROVE  ValueChunk(m, n, e, t, i)
<1> DEFINE type == TypeOf(m, i)
           v == m[2][i]
           q == PiecesOf(m, i, e)
<1>1. type \notin {SEQ_STRING, SEQ_MESSAGE} /\ type \notin {MESSAGE, SEQ_MESSAGE}
  BY DEF BOOL, LONG, DOUBLE, STRING_T, MESSAGE, SEQ_STRING, SEQ_MESSAGE
<1>2. /\ i \notin DOMAIN Part(m, n, e, t) /\ Adds(m, n, e, t, i, t[m][i])
      /\ Carries(m, n, e, i, q[1]) /\ Holds(i, type, v, S)
  BY <1>1, OneChunk
<1>3. t[m][i] = v
  <2>1. KeptIs(t, m, i)
    BY TrimIs
  <2> QED BY <1>1, <2>1 DEF KeptIs, TypeOf
<1>4. q = Pieces(i, type, v, e)
  BY DEF PiecesOf, TypeOf
<1>5. type \in {BOOL, LONG, DOUBLE, STRING_T}
  OBVIOUS
<1> HIDE DEF type, v, q
<1>6. v \in Int /\ (type = BOOL => v \in {0, 1}) /\ (type = STRING_T => v \in Nat)
  BY <1>2, <1>5 DEF Holds
<1>7. Begins(q[1], v, Size(type, v))
  <2>1. CASE type \in {BOOL, LONG}
    <3>1. q = <<Varint(v)>>
      BY <1>4, <2>1, PiecesOfVarint
    <3>2. q[1] = Varint(v)
      BY <3>1
    <3>3. Size(type, v) = VarintSize(v)
      BY <2>1 DEF Size, BOOL, LONG, DOUBLE, STRING_T
    <3> QED BY <1>6, <3>2, <3>3, VarintIs DEF Begins
  <2>2. CASE type = DOUBLE
    <3>1. q = <<Number(v, DoubleSize)>>
      BY <1>4, <2>2, PiecesOfDouble
    <3>2. q[1] = Number(v, DoubleSize)
      BY <3>1
    <3>3. Size(type, v) = DoubleSize /\ DoubleSize \in Nat \ {0}
      BY <2>2, TagAssumption DEF Size
    <3> QED BY <1>6, <3>2, <3>3, NumberIs DEF Begins
  <2>3. CASE type = STRING_T
    <3>1. q = <<Prefixed(Blank(v))>>
      BY <1>4, <2>3, PiecesOfString
    <3>2. q[1] = Prefixed(Blank(v))
      BY <3>1
    <3>3. Size(type, v) = VarintSize(v) + v
      BY <2>3 DEF Size, DOUBLE, STRING_T
    <3>4. Blank(v) \in Seq(Int) /\ Len(Blank(v)) = v
      BY <1>6, <2>3, BlankIs
    <3> QED BY <3>2, <3>3, <3>4, PrefixedIs DEF Begins
  <2> QED BY <1>5, <2>1, <2>2, <2>3
<1>8. Adds(m, n, e, t, i, v)
  BY <1>2, <1>3
<1> QED BY <1>2, <1>6, <1>7, <1>8 DEF ValueChunk, type, v

LEMMA StringsChunkIs ==
    ASSUME NEW S, NEW e, NEW t, Codec(S, e, t), NEW m \in S, NEW n, NEW i \in DOMAIN t[m],
           NEW j \in Nat, IsChunk(S, e, t, m, n, i, j), TypeOf(m, i) = SEQ_STRING
    PROVE  StringsChunk(m, n, e, t, i)
<1> DEFINE type == TypeOf(m, i)
           v == m[2][i]
           q == PiecesOf(m, i, e)
           f == Part(m, n, e, t)
<1>1. type \in {SEQ_STRING, SEQ_MESSAGE} /\ type \notin {MESSAGE, SEQ_MESSAGE}
  BY DEF MESSAGE, SEQ_STRING, SEQ_MESSAGE
<1>2. /\ Adds(m, n, e, t, i, IF i \in DOMAIN f THEN Append(f[i], t[m][i][j + 1])
                             ELSE <<t[m][i][j + 1]>>)
      /\ Carries(m, n, e, i, q[j + 1]) /\ Holds(i, type, v, S) /\ j + 1 \in 1 .. Len(q)
  BY <1>1, ElementChunk
<1>3. t[m][i] = v
  <2>1. KeptIs(t, m, i)
    BY TrimIs
  <2> QED BY <1>1, <2>1 DEF KeptIs, TypeOf
<1>4. q = Pieces(i, type, v, e)
  BY DEF PiecesOf, TypeOf
<1>5. type = SEQ_STRING
  OBVIOUS
<1> HIDE DEF type, v, q, f
<1>6. v \in Seq(Nat)
  BY <1>2, <1>5 DEF Holds
<1>7. q = [k \in 1 .. Len(v) |-> Prefixed(Blank(v[k]))]
  BY <1>4, <1>5, PiecesOfStrings
<1>8. Len(v) \in Nat /\ Len(q) = Len(v)
  <2> DEFINE c(k) == Prefixed(Blank(v[k]))
  <2>1. q = [k \in 1 .. Len(v) |-> c(k)]
    BY <1>7
  <2>2. Len(v) \in Nat
    BY <1>6
  <2> HIDE DEF c
  <2> QED BY <2>1, <2>2
<1> DEFINE y == v[j + 1]
<1>9. y \in Nat
  BY <1>2, <1>6, <1>8
<1>10. q[j + 1] = Prefixed(Blank(y))
  BY <1>2, <1>7, <1>8
<1>11. Begins(q[j + 1], y, VarintSize(y) + y)
  <2>1. Blank(y) \in Seq(Int) /\ Len(Blank(y)) = y
    BY <1>9, BlankIs
  <2> HIDE DEF y
  <2> QED BY <1>10, <2>1, PrefixedIs DEF Begins
<1>12. Adds(m, n, e, t, i, IF i \in DOMAIN f THEN Append(f[i], y) ELSE <<y>>)
  BY <1>2, <1>3
<1> HIDE DEF y
<1> QED BY <1>2, <1>9, <1>11, <1>12 DEF StringsChunk, f

LEMMA MessageChunkIs ==
    ASSUME NEW S, NEW e, NEW t, Codec(S, e, t), NEW m \in S, NEW n, NEW i \in DOMAIN t[m],
           NEW j \in Nat, IsChunk(S, e, t, m, n, i, j), TypeOf(m, i) = MESSAGE
    PROVE  MessageChunk(S, m, n, e, t, i)
<1> DEFINE type == TypeOf(m, i)
           v == m[2][i]
           q == PiecesOf(m, i, e)
           f == Part(m, n, e, t)
           c == <<i, v>>
<1>1. type \notin {SEQ_STRING, SEQ_MESSAGE}
  BY DEF MESSAGE, SEQ_STRING, SEQ_MESSAGE
<1>2. /\ i \notin DOMAIN f /\ Adds(m, n, e, t, i, t[m][i])
      /\ Carries(m, n, e, i, q[1]) /\ Holds(i, type, v, S)
  BY <1>1, OneChunk
<1>3. t[m][i] = t[c]
  <2>1. KeptIs(t, m, i)
    BY TrimIs
  <2> QED BY <2>1 DEF KeptIs, TypeOf
<1>4. q = Pieces(i, type, v, e)
  BY DEF PiecesOf, TypeOf
<1>5. type = MESSAGE
  OBVIOUS
<1>6. c \in S /\ c[1] = i
  BY <1>2, <1>5 DEF Holds
<1> HIDE DEF type, v, q, f, c
<1>7. q[1] = Prefixed(e[c])
  BY <1>4, <1>5, PiecesOfMessage DEF c
<1>8. Part(m, n + 1, e, t) = With(f, i, type, t[c])
  BY <1>2, <1>3, <1>5 DEF Adds, With, f
<1>9. Carries(m, n, e, i, Prefixed(e[c]))
  BY <1>2, <1>7
<1> QED BY <1>2, <1>6, <1>8, <1>9 DEF MessageChunk, type, f

LEMMA MessagesChunkIs ==
    ASSUME NEW S, NEW e, NEW t, Codec(S, e, t), NEW m \in S, NEW n, NEW i \in DOMAIN t[m],
           NEW j \in Nat, IsChunk(S, e, t, m, n, i, j), TypeOf(m, i) = SEQ_MESSAGE
    PROVE  MessageChunk(S, m, n, e, t, i)
<1> DEFINE type == TypeOf(m, i)
           v == m[2][i]
           q == PiecesOf(m, i, e)
           f == Part(m, n, e, t)
           c == <<i, v[j + 1]>>
<1>1. type \in {SEQ_STRING, SEQ_MESSAGE} /\ type # MESSAGE
  BY DEF MESSAGE, SEQ_STRING, SEQ_MESSAGE
<1>2. /\ Adds(m, n, e, t, i, IF i \in DOMAIN f THEN Append(f[i], t[m][i][j + 1])
                             ELSE <<t[m][i][j + 1]>>)
      /\ Carries(m, n, e, i, q[j + 1]) /\ Holds(i, type, v, S) /\ j + 1 \in 1 .. Len(q)
  BY <1>1, ElementChunk
<1>3. t[m][i] = [k \in 1 .. Len(v) |-> t[<<i, v[k]>>]]
  <2>1. KeptIs(t, m, i)
    BY TrimIs
  <2> QED BY <2>1 DEF KeptIs, TypeOf
<1>4. q = Pieces(i, type, v, e)
  BY DEF PiecesOf, TypeOf
<1>5. type = SEQ_MESSAGE
  OBVIOUS
<1> HIDE DEF type, v, q, f
<1>6. PICK M : v \in Seq(M) /\ \A w \in M : <<i, w>> \in S
  BY <1>2, <1>5 DEF Holds
<1>7. q = [k \in 1 .. Len(v) |-> Prefixed(e[<<i, v[k]>>])]
  BY <1>4, <1>5, PiecesOfMessages
<1>8. Len(v) \in Nat /\ Len(q) = Len(v)
  <2> DEFINE d(k) == Prefixed(e[<<i, v[k]>>])
  <2>1. q = [k \in 1 .. Len(v) |-> d(k)]
    BY <1>7
  <2>2. Len(v) \in Nat
    BY <1>6
  <2> HIDE DEF d
  <2> QED BY <2>1, <2>2
<1>9. v[j + 1] \in M
  BY <1>2, <1>6, <1>8
<1>10. c \in S /\ c[1] = i
  BY <1>6, <1>9
<1>11. q[j + 1] = Prefixed(e[c]) /\ t[m][i][j + 1] = t[c]
  BY <1>2, <1>3, <1>7, <1>8
<1> HIDE DEF c
<1>12. Part(m, n + 1, e, t) = With(f, i, type, t[c])
  BY <1>1, <1>2, <1>11 DEF Adds, With, f
<1>13. Carries(m, n, e, i, Prefixed(e[c]))
  BY <1>2, <1>11
<1> QED BY <1>1, <1>10, <1>12, <1>13 DEF MessageChunk, type, f

LEMMA PackedChunkIs ==
    ASSUME NEW S, NEW e, NEW t, Codec(S, e, t), NEW m \in S, NEW n, NEW i \in DOMAIN t[m],
           NEW j, IsChunk(S, e, t, m, n, i, j), TypeOf(m, i) \in {SEQ_BOOL, SEQ_LONG, SEQ_DOUBLE}
    PROVE  PackedChunk(m, n, e, t, i)
<1> DEFINE type == TypeOf(m, i)
           v == m[2][i]
           q == PiecesOf(m, i, e)
           f == Part(m, n, e, t)
<1>1. type \notin {SEQ_STRING, SEQ_MESSAGE} /\ type \notin {MESSAGE, SEQ_MESSAGE}
  BY DEF MESSAGE, SEQ_BOOL, SEQ_LONG, SEQ_DOUBLE, SEQ_STRING, SEQ_MESSAGE
<1>2. /\ i \notin DOMAIN f /\ Adds(m, n, e, t, i, t[m][i])
      /\ Carries(m, n, e, i, q[1]) /\ Holds(i, type, v, S)
  BY <1>1, OneChunk
<1>3. t[m][i] = v
  <2>1. KeptIs(t, m, i)
    BY TrimIs
  <2> QED BY <1>1, <2>1 DEF KeptIs, TypeOf
<1>4. q = Pieces(i, type, v, e)
  BY DEF PiecesOf, TypeOf
<1>5. type \in {SEQ_BOOL, SEQ_LONG, SEQ_DOUBLE}
  OBVIOUS
<1>6. v # <<>>
  <2>1. i \in Lasting(m)
    BY LastingIs
  <2>2. Repeated(type)
    BY DEF Repeated, MESSAGE, SEQ_BOOL, SEQ_LONG, SEQ_DOUBLE
  <2> QED BY <2>1, <2>2 DEF Lasting, TypeOf
<1> HIDE DEF type, v, q, f
<1>7. v \in Seq(Int) /\ (type = SEQ_BOOL => v \in Seq({0, 1}))
  BY <1>2, <1>5 DEF Holds
<1>8. q = <<Prefixed(Packed(type, v))>>
  BY <1>4, <1>5, <1>6, PiecesOfPacked
<1>9. q[1] = Prefixed(Packed(type, v))
  BY <1>8
<1>10. Carries(m, n, e, i, Prefixed(Packed(type, v))) /\ Adds(m, n, e, t, i, v)
  BY <1>2, <1>3, <1>9
<1> QED BY <1>2, <1>7, <1>10 DEF PackedChunk, type, v, f

(***************************************************************************)
(* The decoder follows the encoder: each open message has the values of    *)
(* the first chunks of the message that was encoded there.                 *)
(***************************************************************************)
\* The frame f has the first n chunks of m, which lies at s.
FrameIs(S, e, t, w, f, m, s, n) ==
  /\ m \in S /\ s \in Nat /\ n \in Nat /\ n <= Len(ChunksOf(m, e))
  /\ f.id = m[1] /\ f.values = Part(m, n, e, t) /\ Lies(w, s, e[m])

\* The next chunk of f is that of the frame g, which is for the message c.
FrameIn(e, t, f, m, s, n, g, c, r) ==
  /\ n < Len(ChunksOf(m, e))
  /\ g.end = r + Len(e[c]) /\ g.end = s + Off(ChunksOf(m, e), n + 1)
  /\ With(f.values, g.id, g.type, t[c]) = Part(m, n + 1, e, t)

Opened(o, S, e, t, w, m, s, n) ==
  /\ \A k \in 1 .. Len(o) : FrameIs(S, e, t, w, o[k], m[k], s[k], n[k])
  /\ \A k \in 2 .. Len(o) :
       FrameIn(e, t, o[k - 1], m[k - 1], s[k - 1], n[k - 1], o[k], m[k], s[k])

\* The buffer is what was written of the message p, or the first tokens of it.
Source(S, e, t, p) ==
  /\ Codec(S, e, t) /\ p \in S /\ p = <<Root, sent>> /\ t[p] = Trimmed(Root, sent)
  /\ limit <= Len(e[p]) /\ buffer = SubSeq(e[p], 1, limit)
  /\ round = 2 => limit = Len(e[p])

\* The first q elements of the packed sequence at a were read: d is to do, at position p.
Packing(e, t, w, c, b, k, i, q, a, d, p) ==
  LET type == TypeOf(c, i)
      v    == c[2][i]
  IN  /\ k < Len(ChunksOf(c, e)) /\ type \in {SEQ_BOOL, SEQ_LONG, SEQ_DOUBLE}
      /\ PackedChunk(c, k, e, t, i) /\ TagItem[d.tag] = i /\ d.type = Basic(type)
      /\ q \in Nat /\ q <= Len(v) /\ d.elements = Firsts(v, q)
      /\ a \in Nat /\ Lies(w, a, Packed(type, v)) /\ p = a + Off(Elements(type, v), q)
      /\ a + Len(Packed(type, v)) = b + Off(ChunksOf(c, e), k + 1)
      /\ d.type = LONG => d.end = a + Len(Packed(type, v))
      /\ d.type # LONG => d.count = Len(v) - q

\* Where the decoder is in the message c on top.
Here(e, t, w, c, b, k) ==
  /\ at \in {"tag", "done"} => pos = b + Off(ChunksOf(c, e), k)
  /\ at = "done" => ~Nested /\ pos = limit
  /\ at = "threw" => limit < Len(w)
  /\ at = "sequence" => \E i, q, a : Packing(e, t, w, c, b, k, i, q, a, todo, pos)

Follows(S, e, t, m, s, n) ==
  /\ Source(S, e, t, m[1]) /\ s[1] = 0
  /\ Opened(open, S, e, t, e[m[1]], m, s, n)
  /\ Here(e, t, e[m[1]], m[Len(open)], s[Len(open)], n[Len(open)])

Follow == round = 2 \/ sent # None => \E S, e, t, m, s, n : Follows(S, e, t, m, s, n)

(***************************************************************************)
(* The message on top.                                                     *)
(***************************************************************************)
TopFollows(S, e, t, w, c, b, k) ==
  /\ Codec(S, e, t) /\ FrameIs(S, e, t, w, Top, c, b, k) /\ w \in Seq(Int)
  /\ limit \in Nat /\ limit <= Len(w) /\ buffer = SubSeq(w, 1, limit)
  /\ pos \in Nat /\ pos <= limit /\ Len(open) \in Nat /\ Len(open) >= 1
  /\ Nested => Top.end = b + Len(e[c])
  /\ ~Nested => b = 0 /\ e[c] = w

(* The message on top is one that was encoded.                             *)
LEMMA TopFollowsIs ==
    ASSUME Sound, NEW S, NEW e, NEW t, NEW m, NEW s, NEW n, Follows(S, e, t, m, s, n)
    PROVE  TopFollows(S, e, t, e[m[1]], m[Len(open)], s[Len(open)], n[Len(open)])
<1>1. /\ Source(S, e, t, m[1]) /\ s[1] = 0
      /\ Opened(open, S, e, t, e[m[1]], m, s, n)
  BY DEF Follows
<1>2. Len(open) \in Nat /\ Len(open) >= 1
  BY SomeAreOpen DEF Sound, IInv
<1>3. FrameIs(S, e, t, e[m[1]], Top, m[Len(open)], s[Len(open)], n[Len(open)])
  BY <1>1, <1>2 DEF Opened, Top
<1>4. e[m[1]] \in Seq(Int)
  BY <1>1 DEF Source, Codec
<1>5. ASSUME Nested PROVE Top.end = s[Len(open)] + Len(e[m[Len(open)]])
  <2>1. Len(open) \in 2 .. Len(open)
    BY <1>2, <1>5 DEF Nested
  <2>2. FrameIn(e, t, open[Len(open) - 1], m[Len(open) - 1], s[Len(open) - 1], n[Len(open) - 1],
                open[Len(open)], m[Len(open)], s[Len(open)])
    BY <1>1, <2>1 DEF Opened
  <2> QED BY <2>2 DEF FrameIn, Top
<1>6. ASSUME ~Nested PROVE Len(open) = 1
  BY <1>2, <1>6 DEF Nested
<1>7. limit \in Nat /\ pos \in Nat /\ pos <= limit
  BY DEF Sound, IInv, Positions
<1>8. Codec(S, e, t) /\ limit <= Len(e[m[1]]) /\ buffer = SubSeq(e[m[1]], 1, limit)
  BY <1>1 DEF Source
<1> QED BY <1>1, <1>2, <1>3, <1>4, <1>5, <1>6, <1>7, <1>8 DEF TopFollows

(* What is read is what was written.                                       *)
LEMMA AtGives ==
    ASSUME NEW w \in Seq(Int), limit \in Nat, limit <= Len(w), buffer = SubSeq(w, 1, limit),
           NEW p \in Nat
    PROVE  At(p) = IF p < limit THEN {w[p + 1]} ELSE {}
<1>1. buffer \in Seq(Int) /\ \A x \in 1 .. limit : buffer[x] = w[x]
  OBVIOUS
<1>2. buffer # AnyBuffer
  BY <1>1, WireAssumption
<1>3. CASE p < limit
  <2>1. p + 1 \in 1 .. limit
    BY <1>3
  <2> QED BY <1>1, <1>2, <1>3, <2>1 DEF At
<1>4. CASE ~(p < limit)
  BY <1>4 DEF At
<1> QED BY <1>3, <1>4

LEMMA VarintsGive ==
    ASSUME NEW w \in Seq(Int), limit \in Nat, limit <= Len(w), buffer = SubSeq(w, 1, limit),
           NEW p \in Nat, NEW r \in Varints(p)
    PROVE  p < limit /\ r.value = w[p + 1] /\ r.next = p + VarintSize(w[p + 1])
<1>1. PICK v \in At(p) : r = [value |-> v, next |-> p + VarintSize(v)]
  BY DEF Varints
<1>2. p < limit /\ v = w[p + 1]
  BY <1>1, AtGives
<1> QED BY <1>1, <1>2

(* Where there is more to read, there is a chunk.                          *)
LEMMA ChunkAhead ==
    ASSUME NEW S, NEW e, NEW t, NEW w, NEW c, NEW b, NEW k, TopFollows(S, e, t, w, c, b, k),
           pos = b + Off(ChunksOf(c, e), k), Nested => pos < Top.end, Nested \/ pos < limit
    PROVE  k < Len(ChunksOf(c, e))
<1>1. /\ c \in S /\ b \in Nat /\ k \in Nat /\ k <= Len(ChunksOf(c, e)) /\ Codec(S, e, t)
      /\ w \in Seq(Int)
  BY DEF TopFollows, FrameIs
<1>2. e[c] = FlattenSeq(ChunksOf(c, e)) /\ ChunksOf(c, e) \in Seq(Seq(Int))
  BY <1>1, CodecHas
<1>3. Off(ChunksOf(c, e), Len(ChunksOf(c, e))) = Len(e[c]) /\ Len(ChunksOf(c, e)) \in Nat
  BY <1>2, OffIs
<1>4. ASSUME k = Len(ChunksOf(c, e)) PROVE FALSE
  <2>1. pos = b + Len(e[c])
    BY <1>3, <1>4
  <2>2. Nested => FALSE
    BY <2>1 DEF TopFollows
  <2>3. ~Nested => pos = Len(w)
    BY <2>1, <1>1 DEF TopFollows
  <2> QED BY <2>2, <2>3, <1>1 DEF TopFollows
<1> QED BY <1>1, <1>3, <1>4

(***************************************************************************)
(* The chunk that is ahead.                                                *)
(***************************************************************************)
\* The tag, the item and the chunk that are ahead.
Ahead(S, e, t, w, c, k, i, j) ==
  /\ i \in DOMAIN t[c] /\ j \in Nat /\ IsChunk(S, e, t, c, k, i, j)
  /\ i \in DOMAIN Dico[Top.id] /\ Dico[Top.id][i] = TypeOf(c, i) /\ TypeOf(c, i) \in ItemTypes
  /\ w[pos + 1] \in Tags /\ w[pos + 1] # 0 /\ TagItem[w[pos + 1]] = i
  /\ TagWire[w[pos + 1]] = WireType(TypeOf(c, i))

\* What is behind the tag is p.
Behind(e, w, c, b, k, p) ==
  /\ p \in Seq(Int) /\ Len(p) \in Nat /\ Lies(w, pos + 1, p)
  /\ b + Off(ChunksOf(c, e), k + 1) = pos + 1 + Len(p) /\ pos + 1 + Len(p) <= Len(w)

LEMMA LiesIn ==
    ASSUME NEW w, NEW p, NEW c, Lies(w, p, c), NEW x \in 1 .. Len(c)
    PROVE  w[p + x] = c[x]
BY DEF Lies

LEMMA TaggedLies ==
    ASSUME NEW w \in Seq(Int), NEW a \in Nat, NEW tag \in Int, NEW p \in Seq(Int),
           Lies(w, a, <<tag>> \o p)
    PROVE  /\ w[a + 1] = tag /\ Lies(w, a + 1, p) /\ Len(p) \in Nat
           /\ Len(<<tag>> \o p) = 1 + Len(p) /\ a + 1 + Len(p) <= Len(w)
<1>1. <<tag>> \in Seq(Int) /\ Len(<<tag>>) = 1 /\ <<tag>>[1] = tag
  BY OneIs
<1> DEFINE d == <<tag>>
<1> HIDE DEF d
<1>2. d \in Seq(Int) /\ Len(d) = 1 /\ d[1] = tag /\ Lies(w, a, d \o p)
  BY <1>1 DEF d
<1>3. Lies(w, a, d) /\ Lies(w, a + Len(d), p)
  BY <1>2, LiesParts
<1>4. w[a + 1] = tag
  <2>1. 1 \in 1 .. Len(d)
    BY <1>2
  <2>2. w[a + 1] = d[1]
    BY <1>3, <2>1, LiesIn
  <2> QED BY <1>2, <2>2
<1>5. Len(d \o p) = 1 + Len(p) /\ Len(p) \in Nat
  <2>1. Len(d \o p) = Len(d) + Len(p) /\ Len(p) \in Nat
    BY <1>2, CatIs
  <2> QED BY <1>2, <2>1
<1>6. Lies(w, a + 1, p)
  BY <1>2, <1>3
<1>7. a + 1 + Len(p) <= Len(w)
  BY <1>6 DEF Lies
<1> QED BY <1>4, <1>5, <1>6, <1>7 DEF d

(* The next chunk is at the position.                                      *)
LEMMA ChunkLies ==
    ASSUME NEW S, NEW e, NEW t, NEW w, NEW c, NEW b, NEW k, TopFollows(S, e, t, w, c, b, k),
           pos = b + Off(ChunksOf(c, e), k), k < Len(ChunksOf(c, e))
    PROVE  /\ Lies(w, pos, ChunksOf(c, e)[k + 1])
           /\ b + Off(ChunksOf(c, e), k + 1) = pos + Len(ChunksOf(c, e)[k + 1])
           /\ Len(ChunksOf(c, e)[k + 1]) \in Nat
<1>1. /\ c \in S /\ b \in Nat /\ k \in Nat /\ Codec(S, e, t) /\ w \in Seq(Int)
      /\ Lies(w, b, e[c])
  BY DEF TopFollows, FrameIs
<1>2. e[c] = FlattenSeq(ChunksOf(c, e)) /\ ChunksOf(c, e) \in Seq(Seq(Int))
  BY <1>1, CodecHas
<1> DEFINE q == ChunksOf(c, e)
<1> HIDE DEF q
<1>3. /\ Len(q[k + 1]) \in Nat /\ Off(q, k) \in Nat /\ Off(q, k + 1) = Off(q, k) + Len(q[k + 1])
      /\ k + 1 \in 1 .. Len(q)
  BY <1>1, ChunkAt DEF q
<1>4. q \in Seq(Seq(Int)) /\ Lies(w, b, FlattenSeq(q))
  BY <1>1, <1>2 DEF q
<1>5. Lies(w, b + Off(q, (k + 1) - 1), q[k + 1])
  BY <1>1, <1>3, <1>4, LiesElement
<1>6. (k + 1) - 1 = k
  BY <1>1
<1>7. pos = b + Off(q, k)
  BY DEF q
<1>8. Lies(w, pos, q[k + 1])
  BY <1>5, <1>6, <1>7
<1>9. b + Off(q, k + 1) = pos + Len(q[k + 1])
  BY <1>1, <1>3, <1>7
<1> QED BY <1>3, <1>8, <1>9 DEF q

LEMMA TagIs ==
    ASSUME NEW S, NEW e, NEW t, Codec(S, e, t), NEW c \in S, NEW i \in DOMAIN c[2]
    PROVE  LET g == TagFor(i, TypeOf(c, i)) IN
           /\ g \in Tags /\ g \in Nat /\ g # 0 /\ TagItem[g] = i
           /\ TagWire[g] = WireType(TypeOf(c, i))
           /\ c[1] \in DOMAIN Dico /\ i \in DOMAIN Dico[c[1]]
<1>1. WellFormed(c[1], c[2], S)
  BY CodecHas
<1>2. c[1] \in DOMAIN Dico /\ i \in DOMAIN Dico[c[1]]
  BY <1>1 DEF WellFormed
<1> QED BY <1>2, TagForIs DEF TypeOf

(* What is behind the tag, and where the chunk ends.                       *)
LEMMA BehindIs ==
    ASSUME NEW S, NEW e, NEW t, NEW w, NEW c, NEW b, NEW k, TopFollows(S, e, t, w, c, b, k),
           pos = b + Off(ChunksOf(c, e), k), k < Len(ChunksOf(c, e)),
           NEW i, NEW p, Carries(c, k, e, i, p)
    PROVE  Behind(e, w, c, b, k, p) /\ w[pos + 1] = TagFor(i, TypeOf(c, i))
<1>1. c \in S /\ Codec(S, e, t) /\ w \in Seq(Int) /\ pos \in Nat
  BY DEF TopFollows, FrameIs
<1>2. p \in Seq(Int) /\ i \in DOMAIN c[2]
  BY DEF Carries
<1> DEFINE g == TagFor(i, TypeOf(c, i))
           d == ChunksOf(c, e)[k + 1]
<1>3. g \in Int
  BY <1>1, <1>2, TagIs
<1>4. d = <<g>> \o p
  BY DEF Carries
<1>5. /\ Lies(w, pos, d) /\ Len(d) \in Nat
      /\ b + Off(ChunksOf(c, e), k + 1) = pos + Len(d)
  BY ChunkLies
<1> HIDE DEF g, d
<1>6. /\ w[pos + 1] = g /\ Lies(w, pos + 1, p) /\ Len(p) \in Nat /\ Len(d) = 1 + Len(p)
      /\ pos + 1 + Len(p) <= Len(w)
  BY <1>1, <1>2, <1>3, <1>4, <1>5, TaggedLies
<1>7. b + Off(ChunksOf(c, e), k + 1) = pos + 1 + Len(p)
  BY <1>1, <1>5, <1>6
<1> QED BY <1>2, <1>6, <1>7 DEF Behind, g

(* A chunk is that of an item, whose tag is at the position.               *)
LEMMA AheadIs ==
    ASSUME NEW S, NEW e, NEW t, NEW w, NEW c, NEW b, NEW k, TopFollows(S, e, t, w, c, b, k),
           pos = b + Off(ChunksOf(c, e), k), k < Len(ChunksOf(c, e))
    PROVE  \E i, j : Ahead(S, e, t, w, c, k, i, j)
<1>1. c \in S /\ Codec(S, e, t) /\ k \in Nat /\ Top.id = c[1]
  BY DEF TopFollows, FrameIs
<1>2. PICK i \in DOMAIN t[c], j \in Nat : IsChunk(S, e, t, c, k, i, j)
  BY <1>1, ChunkIs
<1> DEFINE p == PiecesOf(c, i, e)[j + 1]
<1>3. Carries(c, k, e, i, p) /\ i \in DOMAIN c[2] /\ TypeOf(c, i) \in ItemTypes
  <2>1. /\ PiecesOf(c, i, e) \in Seq(Seq(Int)) /\ j < Len(PiecesOf(c, i, e))
        /\ i \in DOMAIN c[2] /\ TypeOf(c, i) \in ItemTypes
        /\ ChunksOf(c, e)[k + 1] = <<TagFor(i, TypeOf(c, i))>> \o p
    BY <1>2 DEF IsChunk, TypeOf
  <2>2. p \in Seq(Int)
    BY <2>1
  <2> QED BY <2>1, <2>2 DEF Carries
<1> HIDE DEF p
<1>4. w[pos + 1] = TagFor(i, TypeOf(c, i))
  BY <1>3, BehindIs
<1>5. LET g == TagFor(i, TypeOf(c, i)) IN
      /\ g \in Tags /\ g \in Nat /\ g # 0 /\ TagItem[g] = i
      /\ TagWire[g] = WireType(TypeOf(c, i))
      /\ c[1] \in DOMAIN Dico /\ i \in DOMAIN Dico[c[1]]
  BY <1>1, <1>3, TagIs
<1>6. Dico[Top.id][i] = TypeOf(c, i)
  BY <1>1 DEF TypeOf
<1>7. Ahead(S, e, t, w, c, k, i, j)
  BY <1>1, <1>2, <1>3, <1>4, <1>5, <1>6 DEF Ahead
<1> QED BY <1>7

(* The tag that is read is that of the item that was written.              *)
LEMMA TagAhead ==
    ASSUME NEW S, NEW e, NEW t, NEW w, NEW c, NEW b, NEW k, TopFollows(S, e, t, w, c, b, k),
           Here(e, t, w, c, b, k), NEW g, g \in At(pos), Tag(g)
    PROVE  /\ k < Len(ChunksOf(c, e)) /\ pos = b + Off(ChunksOf(c, e), k)
           /\ g = w[pos + 1] /\ pos < limit
           /\ \E i, j : Ahead(S, e, t, w, c, k, i, j)
<1>1. /\ w \in Seq(Int) /\ limit \in Nat /\ limit <= Len(w) /\ buffer = SubSeq(w, 1, limit)
      /\ pos \in Nat
  BY DEF TopFollows
<1>2. g = w[pos + 1] /\ pos < limit
  BY <1>1, AtGives
<1>3. at = "tag" /\ (Nested => pos < Top.end)
  BY DEF Tag
<1>4. pos = b + Off(ChunksOf(c, e), k)
  BY <1>3 DEF Here
<1>5. k < Len(ChunksOf(c, e))
  BY <1>2, <1>3, <1>4, ChunkAhead
<1>6. \E i, j : Ahead(S, e, t, w, c, k, i, j)
  BY <1>4, <1>5, AheadIs
<1> QED BY <1>2, <1>4, <1>5, <1>6

(***************************************************************************)
(* What a step of the decoder is, when it follows the encoder.             *)
(***************************************************************************)
Threw(w) == Throw /\ limit < Len(w)

\* The next chunk was read.
Took(e, t, c, b, k) ==
  /\ k < Len(ChunksOf(c, e)) /\ open' = TopTo(open, Part(c, k + 1, e, t))
  /\ pos' = b + Off(ChunksOf(c, e), k + 1) /\ at' = "tag" /\ Same

\* The next chunk is that of a message, which is opened.
Entered(S, e, t, w, c, b, k) ==
  /\ k < Len(ChunksOf(c, e)) /\ at' = "tag" /\ Same
  /\ \E d, f : /\ d \in S /\ open' = Append(open, f) /\ f.id = d[1] /\ f.values = NoValues
               /\ pos' \in Nat /\ Lies(w, pos', e[d]) /\ f.end = pos' + Len(e[d])
               /\ f.end = b + Off(ChunksOf(c, e), k + 1)
               /\ With(Top.values, f.id, f.type, t[d]) = Part(c, k + 1, e, t)

\* An item of a single value is ahead.
ValueAhead(e, t, w, c, b, k, g, type, y) ==
  /\ k < Len(ChunksOf(c, e)) /\ TagWire[g] = WireType(type) /\ Fresh(g)
  /\ y \in Int /\ (type = BOOL => y \in {0, 1}) /\ (type = STRING_T => y \in Nat)
  /\ w[pos + 1 + 1] = y /\ Size(type, y) \in Nat /\ Size(type, y) >= 1
  /\ b + Off(ChunksOf(c, e), k + 1) = pos + 1 + Size(type, y)
  /\ pos + 1 + Size(type, y) <= Len(w)
  /\ Put(Top.values, TagItem[g], y) = Part(c, k + 1, e, t)

LEMMA SizeIs ==
    ASSUME NEW type, NEW y \in Int, type = STRING_T => y \in Nat
    PROVE  Size(type, y) \in Nat /\ Size(type, y) >= 1
<1>1. VarintSize(y) \in {1, 2}
  BY VarintSizeIs
<1>2. DoubleSize \in Nat /\ DoubleSize >= 1
  BY TagAssumption
<1> QED BY <1>1, <1>2 DEF Size

(* The item of the tag that is read is the one that was written.           *)
LEMMA ItemAhead ==
    ASSUME NEW S, NEW e, NEW t, NEW w, NEW c, NEW b, NEW k, TopFollows(S, e, t, w, c, b, k),
           Here(e, t, w, c, b, k), NEW g, g \in At(pos), NEW type, Item(g, type)
    PROVE  /\ k < Len(ChunksOf(c, e)) /\ pos = b + Off(ChunksOf(c, e), k) /\ at = "tag"
           /\ TagWire[g] = WireType(type) /\ pos < limit
           /\ \E i, j : Ahead(S, e, t, w, c, k, i, j) /\ TypeOf(c, i) = type /\ TagItem[g] = i
<1>1. Tag(g) /\ Dico[Top.id][TagItem[g]] = type /\ at = "tag"
  BY DEF Item, Tag
<1>2. /\ k < Len(ChunksOf(c, e)) /\ pos = b + Off(ChunksOf(c, e), k)
      /\ g = w[pos + 1] /\ pos < limit
      /\ \E i, j : Ahead(S, e, t, w, c, k, i, j)
  BY <1>1, TagAhead
<1>3. PICK i, j : Ahead(S, e, t, w, c, k, i, j)
  BY <1>2
<1>4. TypeOf(c, i) = type /\ TagItem[g] = i /\ TagWire[g] = WireType(type)
  BY <1>1, <1>2, <1>3 DEF Ahead
<1> QED BY <1>1, <1>2, <1>3, <1>4

LEMMA ValueAheadIs ==
    ASSUME NEW S, NEW e, NEW t, NEW w, NEW c, NEW b, NEW k, TopFollows(S, e, t, w, c, b, k),
           Here(e, t, w, c, b, k), NEW g, g \in At(pos),
           NEW type \in {BOOL, LONG, DOUBLE, STRING_T}, Item(g, type)
    PROVE  \E y : ValueAhead(e, t, w, c, b, k, g, type, y)
<1>1. /\ k < Len(ChunksOf(c, e)) /\ pos = b + Off(ChunksOf(c, e), k) /\ at = "tag"
      /\ TagWire[g] = WireType(type)
      /\ \E i, j : Ahead(S, e, t, w, c, k, i, j) /\ TypeOf(c, i) = type /\ TagItem[g] = i
  BY ItemAhead
<1>2. PICK i, j : Ahead(S, e, t, w, c, k, i, j) /\ TypeOf(c, i) = type /\ TagItem[g] = i
  BY <1>1
<1>3. c \in S /\ Codec(S, e, t) /\ Top.values = Part(c, k, e, t) /\ pos \in Nat
  BY DEF TopFollows, FrameIs
<1>4. ValueChunk(c, k, e, t, i)
  <2>1. i \in DOMAIN t[c] /\ IsChunk(S, e, t, c, k, i, j)
    BY <1>2 DEF Ahead
  <2>2. TypeOf(c, i) \in {BOOL, LONG, DOUBLE, STRING_T}
    BY <1>2
  <2> QED BY <1>3, <2>1, <2>2, ValueChunkIs
<1> DEFINE y == c[2][i]
<1>5. PICK p : /\ Carries(c, k, e, i, p) /\ Begins(p, y, Size(TypeOf(c, i), y))
               /\ y \in Int /\ (TypeOf(c, i) = BOOL => y \in {0, 1})
               /\ (TypeOf(c, i) = STRING_T => y \in Nat)
               /\ i \notin DOMAIN Part(c, k, e, t) /\ Adds(c, k, e, t, i, y)
  BY <1>4 DEF ValueChunk
<1> HIDE DEF y
<1>6. Behind(e, w, c, b, k, p)
  BY <1>1, <1>5, BehindIs
<1>7. Size(type, y) \in Nat /\ Size(type, y) >= 1
  BY <1>2, <1>5, SizeIs
<1>8. p[1] = y /\ Len(p) = Size(type, y)
  BY <1>2, <1>5 DEF Begins
<1>9. w[pos + 1 + 1] = y
  <2>1. 1 \in 1 .. Len(p)
    BY <1>7, <1>8
  <2>2. Lies(w, pos + 1, p)
    BY <1>6 DEF Behind
  <2>3. w[pos + 1 + 1] = p[1]
    BY <2>1, <2>2, LiesIn
  <2> QED BY <1>8, <2>3
<1>10. /\ b + Off(ChunksOf(c, e), k + 1) = pos + 1 + Size(type, y)
       /\ pos + 1 + Size(type, y) <= Len(w)
  BY <1>6, <1>8 DEF Behind
<1>11. Fresh(g) /\ Put(Top.values, TagItem[g], y) = Part(c, k + 1, e, t)
  BY <1>2, <1>3, <1>5 DEF Fresh, Adds
<1>12. (type = BOOL => y \in {0, 1}) /\ (type = STRING_T => y \in Nat)
  BY <1>2, <1>5
<1>13. ValueAhead(e, t, w, c, b, k, g, type, y)
  BY <1>1, <1>5, <1>7, <1>9, <1>10, <1>11, <1>12 DEF ValueAhead
<1> QED BY <1>13

LEMMA InsertTakes ==
    ASSUME NEW e, NEW t, NEW w, NEW c, NEW b, NEW k, NEW g, NEW type, NEW y, at = "tag",
           ValueAhead(e, t, w, c, b, k, g, type, y), NEW to, to = pos + 1 + Size(type, y),
           Insert(g, y, to)
    PROVE  Took(e, t, c, b, k)
<1>1. open' = Stored(g, y) /\ Read(to) /\ Same /\ UNCHANGED at
  BY DEF Insert, ValueAhead
<1>2. open' = TopTo(open, Part(c, k + 1, e, t))
  BY <1>1, StoredIsTopTo DEF ValueAhead
<1>3. pos' = b + Off(ChunksOf(c, e), k + 1)
  BY <1>1 DEF ValueAhead, Read
<1>4. k < Len(ChunksOf(c, e))
  BY DEF ValueAhead
<1> QED BY <1>1, <1>2, <1>3, <1>4 DEF Took

(* A Boolean that is read is the one written, if it is there at all.       *)
LEMMA BoolFollows ==
    ASSUME NEW S, NEW e, NEW t, NEW w, NEW c, NEW b, NEW k, TopFollows(S, e, t, w, c, b, k),
           Here(e, t, w, c, b, k), NEW g, g \in At(pos), DecodeBool(g)
    PROVE  Threw(w) \/ Took(e, t, c, b, k)
<1>1. /\ w \in Seq(Int) /\ limit \in Nat /\ limit <= Len(w) /\ buffer = SubSeq(w, 1, limit)
      /\ pos \in Nat
  BY DEF TopFollows
<1>2. Item(g, BOOL) /\ at = "tag"
  BY DEF DecodeBool, Item, Tag
<1>3. PICK y : ValueAhead(e, t, w, c, b, k, g, BOOL, y)
  BY <1>2, ValueAheadIs
<1>4. /\ TagWire[g] = "varint" /\ y \in {0, 1} /\ w[pos + 1 + 1] = y /\ Size(BOOL, y) = VarintSize(y)
      /\ Size(BOOL, y) \in Nat /\ Size(BOOL, y) >= 1 /\ pos + 1 + Size(BOOL, y) <= Len(w)
  BY <1>3 DEF ValueAhead, WireType, Size, BOOL, DOUBLE, STRING_T, LONG
<1>5. Len(w) \in Nat
  BY <1>1
<1>6. CASE ~Readable(g, "varint")
  <2>1. Throw
    BY <1>6 DEF DecodeBool
  <2>2. ~(pos + 1 < limit)
    BY <1>4, <1>6 DEF Readable
  <2>3. limit < Len(w)
    BY <1>1, <1>4, <1>5, <2>2
  <2> QED BY <2>1, <2>3 DEF Threw
<1>7. CASE Readable(g, "varint")
  <2>1. PICK r \in Varints(pos + 1) :
          IF r.next <= limit THEN Insert(g, IF r.value = 0 THEN 0 ELSE 1, r.next) ELSE Throw
    BY <1>7 DEF DecodeBool
  <2>2. r.value = w[pos + 1 + 1] /\ r.next = pos + 1 + VarintSize(w[pos + 1 + 1])
    <3>1. pos + 1 \in Nat
      BY <1>1
    <3> QED BY <1>1, <3>1, VarintsGive
  <2>3. r.value = y /\ r.next = pos + 1 + Size(BOOL, y)
    BY <1>4, <2>2
  <2>4. CASE r.next <= limit
    <3>1. (IF r.value = 0 THEN 0 ELSE 1) = y
      BY <1>4, <2>3
    <3>2. Insert(g, y, r.next)
      BY <2>1, <2>4, <3>1
    <3> QED BY <1>2, <1>3, <2>3, <3>2, InsertTakes
  <2>5. CASE ~(r.next <= limit)
    <3>1. limit < Len(w)
      BY <1>1, <1>4, <1>5, <2>3, <2>5
    <3> QED BY <2>1, <2>5, <3>1 DEF Threw
  <2> QED BY <2>4, <2>5
<1> QED BY <1>6, <1>7

LEMMA LongFollows ==
    ASSUME NEW S, NEW e, NEW t, NEW w, NEW c, NEW b, NEW k, TopFollows(S, e, t, w, c, b, k),
           Here(e, t, w, c, b, k), NEW g, g \in At(pos), DecodeLong(g)
    PROVE  Threw(w) \/ Took(e, t, c, b, k)
<1>1. /\ w \in Seq(Int) /\ limit \in Nat /\ limit <= Len(w) /\ buffer = SubSeq(w, 1, limit)
      /\ pos \in Nat
  BY DEF TopFollows
<1>2. Item(g, LONG) /\ at = "tag"
  BY DEF DecodeLong, Item, Tag
<1>3. PICK y : ValueAhead(e, t, w, c, b, k, g, LONG, y)
  BY <1>2, ValueAheadIs
<1>4. /\ TagWire[g] = "varint" /\ w[pos + 1 + 1] = y /\ Size(LONG, y) = VarintSize(y)
      /\ Size(LONG, y) \in Nat /\ Size(LONG, y) >= 1 /\ pos + 1 + Size(LONG, y) <= Len(w)
  BY <1>3 DEF ValueAhead, WireType, Size, BOOL, DOUBLE, STRING_T, LONG
<1>5. Len(w) \in Nat
  BY <1>1
<1>6. CASE ~Readable(g, "varint")
  <2>1. Throw
    BY <1>6 DEF DecodeLong
  <2>2. ~(pos + 1 < limit)
    BY <1>4, <1>6 DEF Readable
  <2>3. limit < Len(w)
    BY <1>1, <1>4, <1>5, <2>2
  <2> QED BY <2>1, <2>3 DEF Threw
<1>7. CASE Readable(g, "varint")
  <2>1. PICK r \in Varints(pos + 1) :
          IF r.next <= limit THEN Insert(g, r.value, r.next) ELSE Throw
    BY <1>7 DEF DecodeLong
  <2>2. r.value = w[pos + 1 + 1] /\ r.next = pos + 1 + VarintSize(w[pos + 1 + 1])
    <3>1. pos + 1 \in Nat
      BY <1>1
    <3> QED BY <1>1, <3>1, VarintsGive
  <2>3. r.value = y /\ r.next = pos + 1 + Size(LONG, y)
    BY <1>4, <2>2
  <2>4. CASE r.next <= limit
    <3>1. Insert(g, y, r.next)
      BY <2>1, <2>3, <2>4
    <3> QED BY <1>2, <1>3, <2>3, <3>1, InsertTakes
  <2>5. CASE ~(r.next <= limit)
    <3>1. limit < Len(w)
      BY <1>1, <1>4, <1>5, <2>3, <2>5
    <3> QED BY <2>1, <2>5, <3>1 DEF Threw
  <2> QED BY <2>4, <2>5
<1> QED BY <1>6, <1>7

LEMMA DoubleFollows ==
    ASSUME NEW S, NEW e, NEW t, NEW w, NEW c, NEW b, NEW k, TopFollows(S, e, t, w, c, b, k),
           Here(e, t, w, c, b, k), NEW g, g \in At(pos), DecodeDouble(g)
    PROVE  Threw(w) \/ Took(e, t, c, b, k)
<1>1. /\ w \in Seq(Int) /\ limit \in Nat /\ limit <= Len(w) /\ buffer = SubSeq(w, 1, limit)
      /\ pos \in Nat
  BY DEF TopFollows
<1>2. Item(g, DOUBLE) /\ at = "tag"
  BY DEF DecodeDouble, Item, Tag
<1>3. PICK y : ValueAhead(e, t, w, c, b, k, g, DOUBLE, y)
  BY <1>2, ValueAheadIs
<1>4. /\ TagWire[g] = "fixed64" /\ w[pos + 1 + 1] = y /\ Size(DOUBLE, y) = DoubleSize
      /\ Size(DOUBLE, y) \in Nat /\ Size(DOUBLE, y) >= 1 /\ pos + 1 + Size(DOUBLE, y) <= Len(w)
  BY <1>3 DEF ValueAhead, WireType, Size, BOOL, DOUBLE, STRING_T, LONG
<1>5. Len(w) \in Nat
  BY <1>1
<1>6. CASE ~(Readable(g, "fixed64") /\ pos + 1 + DoubleSize <= limit)
  <2>1. Throw
    BY <1>6 DEF DecodeDouble
  <2>2. ~(pos + 1 < limit) \/ ~(pos + 1 + DoubleSize <= limit)
    BY <1>4, <1>6 DEF Readable
  <2>3. limit < Len(w)
    BY <1>1, <1>4, <1>5, <2>2
  <2> QED BY <2>1, <2>3 DEF Threw
<1>7. CASE Readable(g, "fixed64") /\ pos + 1 + DoubleSize <= limit
  <2>1. PICK v \in At(pos + 1) : Insert(g, v, pos + 1 + DoubleSize)
    BY <1>7 DEF DecodeDouble
  <2>2. v = w[pos + 1 + 1]
    <3>1. pos + 1 \in Nat
      BY <1>1
    <3> QED BY <1>1, <2>1, <3>1, AtGives
  <2>3. v = y
    BY <1>4, <2>2
  <2>4. Insert(g, y, pos + 1 + Size(DOUBLE, y))
    BY <1>4, <2>1, <2>3
  <2> QED BY <1>2, <1>3, <2>4, InsertTakes
<1> QED BY <1>6, <1>7

LEMMA StrFollows ==
    ASSUME NEW S, NEW e, NEW t, NEW w, NEW c, NEW b, NEW k, TopFollows(S, e, t, w, c, b, k),
           Here(e, t, w, c, b, k), NEW g, g \in At(pos), DecodeStr(g)
    PROVE  Threw(w) \/ Took(e, t, c, b, k)
<1>1. /\ w \in Seq(Int) /\ limit \in Nat /\ limit <= Len(w) /\ buffer = SubSeq(w, 1, limit)
      /\ pos \in Nat
  BY DEF TopFollows
<1>2. Item(g, STRING_T) /\ at = "tag"
  BY DEF DecodeStr, Item, Tag
<1>3. PICK y : ValueAhead(e, t, w, c, b, k, g, STRING_T, y)
  BY <1>2, ValueAheadIs
<1>4. /\ TagWire[g] = Delimited /\ w[pos + 1 + 1] = y /\ Size(STRING_T, y) = VarintSize(y) + y
      /\ y \in Nat
      /\ Size(STRING_T, y) \in Nat /\ Size(STRING_T, y) >= 1 /\ pos + 1 + Size(STRING_T, y) <= Len(w)
  BY <1>3 DEF ValueAhead, WireType, Size, BOOL, DOUBLE, STRING_T, LONG
<1>5. Len(w) \in Nat
  BY <1>1
<1>6. CASE ~Readable(g, Delimited)
  <2>1. Throw
    BY <1>6 DEF DecodeStr
  <2>2. ~(pos + 1 < limit)
    BY <1>4, <1>6 DEF Readable
  <2>3. limit < Len(w)
    BY <1>1, <1>4, <1>5, <2>2
  <2> QED BY <2>1, <2>3 DEF Threw
<1>7. CASE Readable(g, Delimited)
  <2>1. PICK r \in Varints(pos + 1) :
          IF Fits(r) THEN Insert(g, r.value, r.next + r.value) ELSE Throw
    BY <1>7 DEF DecodeStr
  <2>2. r.value = w[pos + 1 + 1] /\ r.next = pos + 1 + VarintSize(w[pos + 1 + 1])
    <3>1. pos + 1 \in Nat
      BY <1>1
    <3> QED BY <1>1, <3>1, VarintsGive
  <2>3. r.value = y /\ r.next + r.value = pos + 1 + Size(STRING_T, y)
    <3>1. VarintSize(y) \in {1, 2}
      BY VarintSizeIs
    <3>2. r.value = y /\ r.next = pos + 1 + VarintSize(y)
      BY <1>4, <2>2
    <3> QED BY <1>1, <1>4, <3>1, <3>2
  <2>4. CASE Fits(r)
    <3>1. Insert(g, y, r.next + r.value)
      BY <2>1, <2>3, <2>4
    <3> QED BY <1>2, <1>3, <2>3, <3>1, InsertTakes
  <2>5. CASE ~Fits(r)
    <3>1. ~(r.value >= 0 /\ r.next + r.value <= limit)
      BY <2>5 DEF Fits
    <3>2. ~(pos + 1 + Size(STRING_T, y) <= limit)
      BY <1>4, <2>3, <3>1
    <3>3. limit < Len(w)
      BY <1>1, <1>4, <1>5, <3>2
    <3> QED BY <2>1, <2>5, <3>3 DEF Threw
  <2> QED BY <2>4, <2>5
<1> QED BY <1>6, <1>7

\* An element of a sequence of strings is ahead.
StringAhead(e, t, w, c, b, k, g, y) ==
  /\ k < Len(ChunksOf(c, e)) /\ y \in Nat /\ w[pos + 1 + 1] = y /\ VarintSize(y) + y >= 1
  /\ b + Off(ChunksOf(c, e), k + 1) = pos + 1 + (VarintSize(y) + y)
  /\ pos + 1 + (VarintSize(y) + y) <= Len(w)
  /\ Put(Top.values, TagItem[g], IF Fresh(g) THEN <<y>> ELSE Append(Top.values[TagItem[g]], y))
       = Part(c, k + 1, e, t)

(* The next element of a sequence of strings.                              *)
LEMMA StringAheadIs ==
    ASSUME NEW S, NEW e, NEW t, NEW w, NEW c, NEW b, NEW k, TopFollows(S, e, t, w, c, b, k),
           Here(e, t, w, c, b, k), NEW g, g \in At(pos), Item(g, SEQ_STRING)
    PROVE  \E y : StringAhead(e, t, w, c, b, k, g, y)
<1> DEFINE type == SEQ_STRING
<1>1. /\ k < Len(ChunksOf(c, e)) /\ pos = b + Off(ChunksOf(c, e), k) /\ at = "tag"
      /\ \E i, j : Ahead(S, e, t, w, c, k, i, j) /\ TypeOf(c, i) = type /\ TagItem[g] = i
  BY ItemAhead
<1>2. PICK i, j : Ahead(S, e, t, w, c, k, i, j) /\ TypeOf(c, i) = type /\ TagItem[g] = i
  BY <1>1
<1>3. c \in S /\ Codec(S, e, t) /\ Top.values = Part(c, k, e, t) /\ pos \in Nat
  BY DEF TopFollows, FrameIs
<1>4. StringsChunk(c, k, e, t, i)
  <2>1. i \in DOMAIN t[c] /\ j \in Nat /\ IsChunk(S, e, t, c, k, i, j)
    BY <1>2 DEF Ahead
  <2>2. TypeOf(c, i) = SEQ_STRING
    BY <1>2
  <2> QED BY <1>3, <2>1, <2>2, StringsChunkIs
<1>5. PICK p, y : /\ Carries(c, k, e, i, p) /\ y \in Nat /\ Begins(p, y, VarintSize(y) + y)
                  /\ Adds(c, k, e, t, i, IF i \in DOMAIN Part(c, k, e, t)
                                         THEN Append(Part(c, k, e, t)[i], y) ELSE <<y>>)
  BY <1>4 DEF StringsChunk
<1>6. Behind(e, w, c, b, k, p)
  BY <1>1, <1>5, BehindIs
<1>7. VarintSize(y) + y \in Nat /\ VarintSize(y) + y >= 1
  <2>1. VarintSize(y) \in {1, 2}
    BY VarintSizeIs
  <2> QED BY <1>5, <2>1
<1>8. p[1] = y /\ Len(p) = VarintSize(y) + y
  BY <1>5 DEF Begins
<1>9. w[pos + 1 + 1] = y
  <2>1. 1 \in 1 .. Len(p)
    BY <1>7, <1>8
  <2>2. Lies(w, pos + 1, p)
    BY <1>6 DEF Behind
  <2>3. w[pos + 1 + 1] = p[1]
    BY <2>1, <2>2, LiesIn
  <2> QED BY <1>8, <2>3
<1>10. /\ b + Off(ChunksOf(c, e), k + 1) = pos + 1 + (VarintSize(y) + y)
       /\ pos + 1 + (VarintSize(y) + y) <= Len(w)
  BY <1>6, <1>8 DEF Behind
<1>11. Put(Top.values, TagItem[g], IF Fresh(g) THEN <<y>> ELSE Append(Top.values[TagItem[g]], y))
         = Part(c, k + 1, e, t)
  <2>1. (IF Fresh(g) THEN <<y>> ELSE Append(Top.values[TagItem[g]], y))
          = IF i \in DOMAIN Part(c, k, e, t) THEN Append(Part(c, k, e, t)[i], y) ELSE <<y>>
    BY <1>2, <1>3 DEF Fresh
  <2> QED BY <1>2, <1>3, <1>5, <2>1 DEF Adds
<1>12. StringAhead(e, t, w, c, b, k, g, y)
  BY <1>1, <1>5, <1>7, <1>9, <1>10, <1>11 DEF StringAhead
<1> QED BY <1>12

LEMMA SeqStrFollows ==
    ASSUME NEW S, NEW e, NEW t, NEW w, NEW c, NEW b, NEW k, TopFollows(S, e, t, w, c, b, k),
           Here(e, t, w, c, b, k), NEW g, g \in At(pos), DecodeSeqStr(g)
    PROVE  Threw(w) \/ Took(e, t, c, b, k)
<1>1. /\ w \in Seq(Int) /\ limit \in Nat /\ limit <= Len(w) /\ buffer = SubSeq(w, 1, limit)
      /\ pos \in Nat
  BY DEF TopFollows
<1>2. Item(g, SEQ_STRING) /\ at = "tag"
  BY DEF DecodeSeqStr, Item, Tag
<1>3. PICK y : StringAhead(e, t, w, c, b, k, g, y)
  BY <1>2, StringAheadIs
<1>4. /\ w[pos + 1 + 1] = y /\ y \in Nat /\ VarintSize(y) + y >= 1
      /\ pos + 1 + (VarintSize(y) + y) <= Len(w) /\ VarintSize(y) \in {1, 2}
  BY <1>3, VarintSizeIs DEF StringAhead
<1>5. Len(w) \in Nat
  BY <1>1
<1>6. CASE ~(pos + 1 < limit)
  <2>1. Throw
    BY <1>6 DEF DecodeSeqStr
  <2>2. limit < Len(w)
    BY <1>1, <1>4, <1>5, <1>6
  <2> QED BY <2>1, <2>2 DEF Threw
<1>7. CASE pos + 1 < limit
  <2> DEFINE v(x) == IF Fresh(g) THEN <<x>> ELSE Append(Top.values[TagItem[g]], x)
  <2>1. PICK r \in Varints(pos + 1) :
          IF Fits(r)
          THEN /\ open' = Stored(g, v(r.value)) /\ Read(r.next + r.value)
               /\ Same /\ UNCHANGED <<at, todo>>
          ELSE Throw
    BY <1>7 DEF DecodeSeqStr
  <2>2. r.value = w[pos + 1 + 1] /\ r.next = pos + 1 + VarintSize(w[pos + 1 + 1])
    <3>1. pos + 1 \in Nat
      BY <1>1
    <3> QED BY <1>1, <3>1, VarintsGive
  <2>3. r.value = y /\ r.next + r.value = pos + 1 + (VarintSize(y) + y)
    <3>1. r.value = y /\ r.next = pos + 1 + VarintSize(y)
      BY <1>4, <2>2
    <3> QED BY <1>1, <1>4, <3>1
  <2>4. CASE Fits(r)
    <3>1. open' = Stored(g, v(y)) /\ Read(r.next + r.value) /\ Same /\ UNCHANGED at
      BY <2>1, <2>3, <2>4
    <3>2. open' = TopTo(open, Put(Top.values, TagItem[g], v(y)))
      <4> HIDE DEF v
      <4> QED BY <3>1, StoredIsTopTo
    <3>3. open' = TopTo(open, Part(c, k + 1, e, t))
      BY <1>3, <3>2 DEF StringAhead
    <3>4. pos' = b + Off(ChunksOf(c, e), k + 1) /\ k < Len(ChunksOf(c, e))
      BY <1>3, <2>3, <3>1 DEF StringAhead, Read
    <3> QED BY <1>2, <3>1, <3>3, <3>4 DEF Took
  <2>5. CASE ~Fits(r)
    <3>1. ~(r.value >= 0 /\ r.next + r.value <= limit)
      BY <2>5 DEF Fits
    <3>2. ~(pos + 1 + (VarintSize(y) + y) <= limit)
      BY <1>4, <2>3, <3>1
    <3>3. limit < Len(w)
      BY <1>1, <1>4, <1>5, <3>2
    <3> QED BY <2>1, <2>5, <3>3 DEF Threw
  <2> QED BY <2>4, <2>5
<1> QED BY <1>6, <1>7

\* A message is ahead.
MessageAhead(S, e, t, w, c, b, k, g, type, d) ==
  /\ k < Len(ChunksOf(c, e)) /\ d \in S /\ d[1] = TagItem[g]
  /\ TagWire[g] = Delimited /\ (type = MESSAGE => Fresh(g))
  /\ w[pos + 1 + 1] = Len(e[d]) /\ Len(e[d]) \in Nat
  /\ Lies(w, pos + 1 + VarintSize(Len(e[d])), e[d])
  /\ pos + 1 + VarintSize(Len(e[d])) + Len(e[d]) = b + Off(ChunksOf(c, e), k + 1)
  /\ pos + 1 + VarintSize(Len(e[d])) + Len(e[d]) <= Len(w)
  /\ With(Top.values, TagItem[g], type, t[d]) = Part(c, k + 1, e, t)

LEMMA PrefixedLies ==
    ASSUME NEW w \in Seq(Int), NEW a \in Nat, NEW x \in Seq(Int), Lies(w, a, Prefixed(x))
    PROVE  /\ w[a + 1] = Len(x) /\ Lies(w, a + VarintSize(Len(x)), x) /\ Len(x) \in Nat
           /\ Len(Prefixed(x)) = VarintSize(Len(x)) + Len(x) /\ VarintSize(Len(x)) \in {1, 2}
<1>1. /\ Len(Prefixed(x)) = VarintSize(Len(x)) + Len(x) /\ Prefixed(x)[1] = Len(x)
      /\ Len(x) \in Nat
  BY PrefixedIs
<1> DEFINE y == Varint(Len(x))
<1>2. /\ y \in Seq(Int) /\ Len(y) = VarintSize(Len(x)) /\ VarintSize(Len(x)) \in {1, 2}
      /\ y[1] = Len(x)
  <2>1. Len(x) \in Int
    BY <1>1
  <2> QED BY <2>1, VarintIs
<1>3. Lies(w, a, y \o x)
  BY DEF Prefixed
<1> HIDE DEF y
<1>4. Lies(w, a, y) /\ Lies(w, a + Len(y), x)
  BY <1>2, <1>3, LiesParts
<1>5. w[a + 1] = Len(x)
  <2>1. 1 \in 1 .. Len(y)
    BY <1>2
  <2>2. w[a + 1] = y[1]
    BY <1>4, <2>1, LiesIn
  <2> QED BY <1>2, <2>2
<1>6. Lies(w, a + VarintSize(Len(x)), x)
  BY <1>2, <1>4
<1> QED BY <1>1, <1>2, <1>5, <1>6

(* A message of no tokens keeps nothing.                                   *)
LEMMA EmptyKeepsNothing ==
    ASSUME NEW S, NEW e, NEW t, Codec(S, e, t), NEW d \in S, Len(e[d]) = 0
    PROVE  t[d] = NoValues
<1>1. Len(ChunksOf(d, e)) \in Nat
  <2>1. ChunksOf(d, e) \in Seq(Seq(Int))
    BY CodecHas
  <2> QED BY <2>1
<1>2. ASSUME 0 < Len(ChunksOf(d, e)) PROVE FALSE
  <2>1. Off(ChunksOf(d, e), 0) \in Nat /\ Off(ChunksOf(d, e), 0) < Len(e[d])
    BY <1>2, ChunkAt
  <2> QED BY <2>1
<1>3. Len(ChunksOf(d, e)) = 0
  BY <1>1, <1>2
<1>4. Part(d, Len(ChunksOf(d, e)), e, t) = t[d]
  BY WholePart
<1>5. Part(d, 0, e, t) = NoValues
  BY NoPart
<1> QED BY <1>3, <1>4, <1>5

LEMMA MessageAheadIs ==
    ASSUME NEW S, NEW e, NEW t, NEW w, NEW c, NEW b, NEW k, TopFollows(S, e, t, w, c, b, k),
           Here(e, t, w, c, b, k), NEW g, g \in At(pos),
           NEW type \in {MESSAGE, SEQ_MESSAGE}, Item(g, type)
    PROVE  \E d : MessageAhead(S, e, t, w, c, b, k, g, type, d)
<1>1. /\ k < Len(ChunksOf(c, e)) /\ pos = b + Off(ChunksOf(c, e), k) /\ at = "tag"
      /\ TagWire[g] = WireType(type)
      /\ \E i, j : Ahead(S, e, t, w, c, k, i, j) /\ TypeOf(c, i) = type /\ TagItem[g] = i
  BY ItemAhead
<1>2. PICK i, j : Ahead(S, e, t, w, c, k, i, j) /\ TypeOf(c, i) = type /\ TagItem[g] = i
  BY <1>1
<1>3. c \in S /\ Codec(S, e, t) /\ Top.values = Part(c, k, e, t) /\ pos \in Nat /\ w \in Seq(Int)
  BY DEF TopFollows, FrameIs
<1>4. MessageChunk(S, c, k, e, t, i)
  <2>1. i \in DOMAIN t[c] /\ j \in Nat /\ IsChunk(S, e, t, c, k, i, j)
    BY <1>2 DEF Ahead
  <2>2. TypeOf(c, i) = MESSAGE \/ TypeOf(c, i) = SEQ_MESSAGE
    BY <1>2
  <2> QED BY <1>3, <2>1, <2>2, MessageChunkIs, MessagesChunkIs
<1>5. PICK d \in S : /\ d[1] = i /\ Carries(c, k, e, i, Prefixed(e[d]))
                     /\ TypeOf(c, i) = MESSAGE => i \notin DOMAIN Part(c, k, e, t)
                     /\ Part(c, k + 1, e, t) = With(Part(c, k, e, t), i, TypeOf(c, i), t[d])
  BY <1>4 DEF MessageChunk
<1>6. Behind(e, w, c, b, k, Prefixed(e[d]))
  BY <1>1, <1>5, BehindIs
<1>7. e[d] \in Seq(Int)
  BY <1>3, CodecHas
<1>8. /\ w[pos + 1 + 1] = Len(e[d]) /\ Lies(w, pos + 1 + VarintSize(Len(e[d])), e[d])
      /\ Len(e[d]) \in Nat
      /\ Len(Prefixed(e[d])) = VarintSize(Len(e[d])) + Len(e[d])
      /\ VarintSize(Len(e[d])) \in {1, 2}
  <2>1. pos + 1 \in Nat /\ Lies(w, pos + 1, Prefixed(e[d]))
    BY <1>3, <1>6 DEF Behind
  <2> QED BY <1>3, <1>7, <2>1, PrefixedLies
<1>9. /\ b + Off(ChunksOf(c, e), k + 1) = pos + 1 + Len(Prefixed(e[d]))
      /\ pos + 1 + Len(Prefixed(e[d])) <= Len(w)
  BY <1>6 DEF Behind
<1>10. /\ pos + 1 + VarintSize(Len(e[d])) + Len(e[d]) = b + Off(ChunksOf(c, e), k + 1)
       /\ pos + 1 + VarintSize(Len(e[d])) + Len(e[d]) <= Len(w)
  <2>1. ASSUME NEW x \in Nat, NEW y \in {1, 2}, NEW z, z = y + x
        PROVE  pos + 1 + y + x = pos + 1 + z
    BY <1>3, <2>1
  <2>2. pos + 1 + VarintSize(Len(e[d])) + Len(e[d]) = pos + 1 + Len(Prefixed(e[d]))
    BY <1>8, <2>1
  <2> QED BY <1>9, <2>2
<1>11. TagWire[g] = Delimited
  BY <1>1 DEF WireType, MESSAGE, SEQ_MESSAGE, BOOL, LONG, DOUBLE
<1>12. (type = MESSAGE => Fresh(g)) /\ d[1] = TagItem[g]
       /\ With(Top.values, TagItem[g], type, t[d]) = Part(c, k + 1, e, t)
  BY <1>2, <1>3, <1>5 DEF Fresh
<1>13. MessageAhead(S, e, t, w, c, b, k, g, type, d)
  BY <1>1, <1>5, <1>8, <1>10, <1>11, <1>12 DEF MessageAhead
<1> QED BY <1>13

(* A message is opened with the length that was written.                   *)
LEMMA MsgFollows ==
    ASSUME NEW S, NEW e, NEW t, NEW w, NEW c, NEW b, NEW k, TopFollows(S, e, t, w, c, b, k),
           Here(e, t, w, c, b, k), NEW g, g \in At(pos), DecodeMsg(g)
    PROVE  Threw(w) \/ Took(e, t, c, b, k) \/ Entered(S, e, t, w, c, b, k)
<1>1. /\ w \in Seq(Int) /\ limit \in Nat /\ limit <= Len(w) /\ buffer = SubSeq(w, 1, limit)
      /\ pos \in Nat /\ Codec(S, e, t)
  BY DEF TopFollows
<1>2. PICK type \in {MESSAGE, SEQ_MESSAGE} :
    /\ Item(g, type)
    /\ IF Readable(g, Delimited) /\ (type = MESSAGE => Fresh(g))
       THEN \E r \in Varints(pos + 1) :
              \/ /\ r.next > limit \/ r.value < 0
                 /\ Throw
              \/ /\ r.next <= limit /\ r.value = 0
                 /\ open' = [open EXCEPT ![Len(open)].values =
                               With(@, TagItem[g], type, NoValues)]
                 /\ Read(r.next)
                 /\ Same /\ UNCHANGED <<at, todo>>
              \/ /\ r.next <= limit /\ r.value > 0
                 /\ open' = Append(open, Frame(TagItem[g], r.next + r.value, type))
                 /\ pos' = r.next
                 /\ Same /\ UNCHANGED <<at, todo, spans>>
       ELSE Throw
  BY DEF DecodeMsg
<1>3. PICK d : MessageAhead(S, e, t, w, c, b, k, g, type, d)
  BY <1>2, MessageAheadIs
<1> DEFINE y == Len(e[d])
           z == VarintSize(y)
<1>4. /\ d \in S /\ d[1] = TagItem[g] /\ k < Len(ChunksOf(c, e))
      /\ w[pos + 1 + 1] = y /\ y \in Nat /\ z \in {1, 2} /\ TagWire[g] = Delimited
      /\ pos + 1 + z + y = b + Off(ChunksOf(c, e), k + 1) /\ pos + 1 + z + y <= Len(w)
      /\ Lies(w, pos + 1 + z, e[d]) /\ (type = MESSAGE => Fresh(g))
      /\ With(Top.values, TagItem[g], type, t[d]) = Part(c, k + 1, e, t)
  BY <1>3, VarintSizeIs DEF MessageAhead
<1>5. y = 0 => t[d] = NoValues
  BY <1>1, <1>4, EmptyKeepsNothing
<1>6. y = Len(e[d]) /\ z = VarintSize(y)
  OBVIOUS
<1> HIDE DEF y, z
<1>7. Len(w) \in Nat /\ at = "tag"
  BY <1>1, <1>2 DEF Item, Tag
<1>8. CASE ~Readable(g, Delimited)
  <2>1. Throw
    BY <1>2, <1>8
  <2>2. ~(pos + 1 < limit)
    BY <1>4, <1>8 DEF Readable
  <2>3. limit < Len(w)
    BY <1>1, <1>4, <1>7, <2>2
  <2> QED BY <2>1, <2>3 DEF Threw
<1>9. CASE Readable(g, Delimited)
  <2>1. PICK r \in Varints(pos + 1) :
              \/ /\ r.next > limit \/ r.value < 0
                 /\ Throw
              \/ /\ r.next <= limit /\ r.value = 0
                 /\ open' = [open EXCEPT ![Len(open)].values =
                               With(@, TagItem[g], type, NoValues)]
                 /\ Read(r.next)
                 /\ Same /\ UNCHANGED <<at, todo>>
              \/ /\ r.next <= limit /\ r.value > 0
                 /\ open' = Append(open, Frame(TagItem[g], r.next + r.value, type))
                 /\ pos' = r.next
                 /\ Same /\ UNCHANGED <<at, todo, spans>>
    BY <1>2, <1>4, <1>9
  <2>2. r.value = w[pos + 1 + 1] /\ r.next = pos + 1 + VarintSize(w[pos + 1 + 1])
    <3>1. pos + 1 \in Nat
      BY <1>1
    <3> QED BY <1>1, <3>1, VarintsGive
  <2>3. r.value = y /\ r.next = pos + 1 + z
    BY <1>4, <1>6, <2>2
  <2>4. CASE (r.next > limit \/ r.value < 0) /\ Throw
    <3>1. pos + 1 + z > limit
      BY <1>4, <2>3, <2>4
    <3>2. limit < Len(w)
      BY <1>1, <1>4, <1>7, <3>1
    <3> QED BY <2>4, <3>2 DEF Threw
  <2>5. CASE /\ r.next <= limit /\ r.value = 0
             /\ open' = [open EXCEPT ![Len(open)].values = With(@, TagItem[g], type, NoValues)]
             /\ Read(r.next)
             /\ Same /\ UNCHANGED <<at, todo>>
    <3>1. y = 0
      BY <2>3, <2>5
    <3>2. open' = TopTo(open, With(Top.values, TagItem[g], type, NoValues))
      BY <2>5 DEF TopTo, Top
    <3>3. With(Top.values, TagItem[g], type, NoValues) = Part(c, k + 1, e, t)
      BY <1>4, <1>5, <3>1
    <3>4. pos' = b + Off(ChunksOf(c, e), k + 1)
      <4>1. pos' = pos + 1 + z
        BY <2>3, <2>5 DEF Read
      <4>2. pos + 1 + z = pos + 1 + z + y
        BY <1>1, <1>4, <3>1
      <4> QED BY <1>4, <4>1, <4>2
    <3>5. Took(e, t, c, b, k)
      BY <1>4, <1>7, <2>5, <3>2, <3>3, <3>4 DEF Took
    <3> QED BY <3>5
  <2>6. CASE /\ r.next <= limit /\ r.value > 0
             /\ open' = Append(open, Frame(TagItem[g], r.next + r.value, type))
             /\ pos' = r.next
             /\ Same /\ UNCHANGED <<at, todo, spans>>
    <3> DEFINE f == Frame(TagItem[g], r.next + r.value, type)
    <3>1. /\ f.id = TagItem[g] /\ f.values = NoValues /\ f.end = r.next + r.value /\ f.type = type
      BY DEF Frame
    <3> HIDE DEF f
    <3>2. pos' = pos + 1 + z /\ f.end = pos + 1 + z + y /\ pos' \in Nat /\ f.end = pos' + y
      BY <1>1, <1>4, <2>3, <2>6, <3>1
    <3>3. /\ open' = Append(open, f) /\ at' = "tag" /\ Same
      BY <1>7, <2>6 DEF f
    <3>4. /\ f.id = d[1] /\ Lies(w, pos', e[d]) /\ f.end = pos' + Len(e[d])
          /\ f.end = b + Off(ChunksOf(c, e), k + 1)
          /\ With(Top.values, f.id, f.type, t[d]) = Part(c, k + 1, e, t)
      BY <1>4, <1>6, <3>1, <3>2
    <3>5. Entered(S, e, t, w, c, b, k)
      BY <1>4, <3>1, <3>2, <3>3, <3>4 DEF Entered
    <3> QED BY <3>5
  <2> QED BY <2>1, <2>4, <2>5, <2>6
<1> QED BY <1>8, <1>9

(* A tag that was written is that of an item.                              *)
LEMMA OtherIsNever ==
    ASSUME NEW S, NEW e, NEW t, NEW w, NEW c, NEW b, NEW k, TopFollows(S, e, t, w, c, b, k),
           Here(e, t, w, c, b, k), NEW g, g \in At(pos), DecodeOther(g)
    PROVE  FALSE
<1>1. Tag(g) /\ (g \in Tags => TagItem[g] \notin DOMAIN Dico[Top.id])
  BY DEF DecodeOther
<1>2. g = w[pos + 1] /\ \E i, j : Ahead(S, e, t, w, c, k, i, j)
  BY <1>1, TagAhead
<1> QED BY <1>1, <1>2 DEF Ahead

\* The end of the message, or of the buffer.
Finished == at' = "done" /\ ~Nested /\ pos = limit /\ UNCHANGED <<pos, open>> /\ Same

Stopped(w) == at' = "threw" /\ limit < Len(w) /\ UNCHANGED open /\ Same

(* Only the message that is decoded ends with the buffer.                  *)
LEMMA EndFollows ==
    ASSUME NEW S, NEW e, NEW t, NEW w, NEW c, NEW b, NEW k, TopFollows(S, e, t, w, c, b, k),
           Here(e, t, w, c, b, k), EndOfInput
    PROVE  Stopped(w) \/ Finished
<1>1. /\ w \in Seq(Int) /\ limit \in Nat /\ limit <= Len(w) /\ buffer = SubSeq(w, 1, limit)
      /\ pos \in Nat /\ pos <= limit /\ c \in S /\ b \in Nat /\ k \in Nat /\ Codec(S, e, t)
      /\ Lies(w, b, e[c])
  BY DEF TopFollows, FrameIs
<1>2. /\ at = "tag" /\ (Nested => pos < Top.end)
      /\ \/ At(pos) = {} /\ UNCHANGED pos
         \/ 0 \in At(pos)
      /\ at' = IF Nested THEN "threw" ELSE "done"
      /\ Same /\ UNCHANGED open
  BY DEF EndOfInput
<1>3. pos = b + Off(ChunksOf(c, e), k)
  BY <1>2 DEF Here
<1>4. 0 \notin At(pos)
  <2> SUFFICES ASSUME 0 \in At(pos) PROVE FALSE
    OBVIOUS
  <2>1. w[pos + 1] = 0 /\ pos < limit
    BY <1>1, AtGives
  <2>2. k < Len(ChunksOf(c, e))
    BY <1>2, <1>3, <2>1, ChunkAhead
  <2>3. \E i, j : Ahead(S, e, t, w, c, k, i, j)
    BY <1>3, <2>2, AheadIs
  <2> QED BY <2>1, <2>3 DEF Ahead
<1>5. At(pos) = {} /\ UNCHANGED pos
  BY <1>2, <1>4
<1>6. pos = limit
  <2>1. ~(pos < limit)
    BY <1>1, <1>5, AtGives
  <2> QED BY <1>1, <2>1
<1>7. CASE Nested
  <2>1. k < Len(ChunksOf(c, e))
    BY <1>2, <1>3, <1>7, ChunkAhead
  <2>2. /\ Off(ChunksOf(c, e), k) < Len(e[c]) /\ Off(ChunksOf(c, e), k) \in Nat
        /\ Len(e[c]) \in Nat
    BY <1>1, <2>1, ChunkAt
  <2>3. b + Len(e[c]) <= Len(w) /\ Len(w) \in Nat
    BY <1>1 DEF Lies
  <2>4. limit < Len(w)
    BY <1>1, <1>3, <1>6, <2>2, <2>3
  <2> QED BY <1>2, <1>7, <2>4 DEF Stopped
<1>8. CASE ~Nested
  BY <1>2, <1>5, <1>6, <1>8 DEF Finished
<1> QED BY <1>7, <1>8

(* A message that was written ends where its length says.                  *)
LEMMA CloseFollows ==
    ASSUME NEW S, NEW e, NEW t, NEW w, NEW c, NEW b, NEW k, TopFollows(S, e, t, w, c, b, k),
           Here(e, t, w, c, b, k), CloseMsg
    PROVE  EndsWell(Top.end) /\ Top.values = t[c]
<1>1. /\ c \in S /\ b \in Nat /\ k \in Nat /\ k <= Len(ChunksOf(c, e)) /\ Codec(S, e, t)
      /\ Top.values = Part(c, k, e, t) /\ pos \in Nat
  BY DEF TopFollows, FrameIs
<1>2. at = "tag" /\ Nested /\ pos >= Top.end
  BY DEF CloseMsg
<1>3. pos = b + Off(ChunksOf(c, e), k) /\ Top.end = b + Len(e[c])
  BY <1>2 DEF Here, TopFollows
<1>4. e[c] = FlattenSeq(ChunksOf(c, e)) /\ ChunksOf(c, e) \in Seq(Seq(Int)) /\ e[c] \in Seq(Int)
  BY <1>1, CodecHas
<1>5. /\ Off(ChunksOf(c, e), Len(ChunksOf(c, e))) = Len(e[c]) /\ Len(ChunksOf(c, e)) \in Nat
      /\ Len(e[c]) \in Nat
  BY <1>4, OffIs
<1>6. ASSUME k < Len(ChunksOf(c, e)) PROVE FALSE
  <2>1. /\ Off(ChunksOf(c, e), k) < Len(e[c]) /\ Off(ChunksOf(c, e), k) \in Nat
    BY <1>1, <1>6, ChunkAt
  <2> QED BY <1>1, <1>2, <1>3, <1>5, <2>1
<1>7. k = Len(ChunksOf(c, e))
  BY <1>1, <1>5, <1>6
<1>8. Top.values = t[c]
  BY <1>1, <1>7, WholePart
<1>9. pos = Top.end
  BY <1>3, <1>5, <1>7
<1> QED BY <1>8, <1>9 DEF EndsWell

(***************************************************************************)
(* Packed sequences.                                                       *)
(***************************************************************************)
LEMMA UniformOff ==
    ASSUME NEW q \in Seq(Seq(Int)), NEW d \in Nat, \A x \in 1 .. Len(q) : Len(q[x]) = d
    PROVE  Off(q, Len(q)) = Len(q) * d
<1> DEFINE A == {n \in Nat : n <= Len(q) => Off(q, n) = n * d}
<1>1. Len(q) \in Nat
  OBVIOUS
<1>2. Off(q, 0) = 0 /\ \A n \in 1 .. Len(q) : Off(q, n) = Off(q, n - 1) + Len(q[n])
  BY OffIs
<1>3. 0 \in A
  BY <1>2
<1>4. ASSUME NEW n \in A PROVE n + 1 \in A
  <2>1. n \in Nat /\ (n <= Len(q) => Off(q, n) = n * d)
    OBVIOUS
  <2>2. ASSUME n + 1 <= Len(q) PROVE Off(q, n + 1) = (n + 1) * d
    <3>1. n + 1 \in 1 .. Len(q) /\ (n + 1) - 1 = n /\ n <= Len(q)
      BY <1>1, <2>1, <2>2
    <3>2. Off(q, n + 1) = n * d + d
      BY <1>2, <2>1, <3>1
    <3>3. n * d + d = (n + 1) * d
      BY <2>1
    <3> QED BY <3>2, <3>3
  <2> QED BY <2>1, <2>2
<1>5. A = Nat
  <2>1. A \in SUBSET Nat
    OBVIOUS
  <2> HIDE DEF A
  <2> QED BY <1>3, <1>4, <2>1, NatSetInduction
<1> QED BY <1>1, <1>5

LEMMA EighthOf ==
    ASSUME NEW n \in Nat
    PROVE  Eighth(n * DoubleSize) = n
<1>1. DoubleSize \in Nat /\ DoubleSize > 0
  BY TagAssumption
<1> DEFINE d == DoubleSize
<1> HIDE DEF d
<1>2. d \in Nat /\ d > 0
  BY <1>1 DEF d
<1>3. n * d >= 0 /\ n * d \in Nat
  BY <1>2
<1>4. (n * d) \div d = n
  BY <1>2
<1> QED BY <1>3, <1>4 DEF Eighth, d

(* The number of elements, from the length of all.                         *)
LEMMA PackedLength ==
    ASSUME NEW type, NEW v \in Seq(Int), type = SEQ_BOOL => v \in Seq({0, 1})
    PROVE  /\ type = SEQ_BOOL => Len(Packed(type, v)) = Len(v)
           /\ type = SEQ_DOUBLE => Eighth(Len(Packed(type, v))) = Len(v)
<1> DEFINE q == Elements(type, v)
<1>1. /\ q \in Seq(Seq(Int)) /\ Len(q) = Len(v)
      /\ \A x \in 1 .. Len(v) : Len(q[x]) = ElementSize(type, v[x])
      /\ Packed(type, v) = FlattenSeq(q)
  BY PackedIs
<1> HIDE DEF q
<1>2. Off(q, Len(q)) = Len(Packed(type, v)) /\ Len(v) \in Nat
  BY <1>1, OffIs
<1>3. CASE type = SEQ_BOOL
  <2>1. \A x \in 1 .. Len(v) : ElementSize(type, v[x]) = 1
    <3>1. \A x \in 1 .. Len(v) : v[x] \in {0, 1}
      BY <1>3
    <3>2. Wide \notin {0, 1}
      BY TagAssumption
    <3> QED BY <1>3, <3>1, <3>2 DEF ElementSize, VarintSize, SEQ_BOOL, SEQ_DOUBLE
  <2>2. \A x \in 1 .. Len(q) : Len(q[x]) = 1
    BY <1>1, <2>1
  <2>3. Off(q, Len(q)) = Len(q) * 1
    BY <1>1, <2>2, UniformOff
  <2>4. Len(Packed(type, v)) = Len(v)
    BY <1>1, <1>2, <2>3
  <2> QED BY <1>3, <2>4 DEF SEQ_BOOL, SEQ_DOUBLE
<1>4. CASE type = SEQ_DOUBLE
  <2>1. DoubleSize \in Nat
    BY TagAssumption
  <2>2. \A x \in 1 .. Len(q) : Len(q[x]) = DoubleSize
    BY <1>1, <1>4 DEF ElementSize
  <2>3. Off(q, Len(q)) = Len(q) * DoubleSize
    BY <1>1, <2>1, <2>2, UniformOff
  <2>4. Len(Packed(type, v)) = Len(v) * DoubleSize
    BY <1>1, <1>2, <2>3
  <2>5. Eighth(Len(Packed(type, v))) = Len(v)
    BY <1>2, <2>4, EighthOf
  <2> QED BY <1>4, <2>5 DEF SEQ_BOOL, SEQ_DOUBLE
<1> QED BY <1>3, <1>4

LEMMA BasicOf == /\ Basic(SEQ_BOOL) = BOOL /\ Basic(SEQ_LONG) = LONG /\ Basic(SEQ_DOUBLE) = DOUBLE
                 /\ BOOL # LONG /\ BOOL # DOUBLE /\ LONG # DOUBLE
                 /\ SEQ_BOOL # SEQ_LONG /\ SEQ_BOOL # SEQ_DOUBLE /\ SEQ_LONG # SEQ_DOUBLE
BY DEF Basic, Repeated, SEQ_DELTA, BOOL, LONG, DOUBLE, MESSAGE, SEQ_BOOL, SEQ_LONG, SEQ_DOUBLE

\* A packed sequence is ahead.
PackedAhead(e, t, w, c, b, k, g, type, i) ==
  LET p == Packed(type, c[2][i]) IN
  /\ k < Len(ChunksOf(c, e)) /\ TypeOf(c, i) = type /\ TagItem[g] = i /\ Fresh(g)
  /\ PackedChunk(c, k, e, t, i) /\ TagWire[g] = Delimited /\ c[2][i] \in Seq(Int)
  /\ type = SEQ_BOOL => c[2][i] \in Seq({0, 1})
  /\ w[pos + 1 + 1] = Len(p) /\ Lies(w, pos + 1 + VarintSize(Len(p)), p) /\ Len(p) \in Nat
  /\ pos + 1 + VarintSize(Len(p)) + Len(p) = b + Off(ChunksOf(c, e), k + 1)
  /\ pos + 1 + VarintSize(Len(p)) + Len(p) <= Len(w)

(* A packed sequence begins with the length of its elements.               *)
LEMMA PackedAheadIs ==
    ASSUME NEW S, NEW e, NEW t, NEW w, NEW c, NEW b, NEW k, TopFollows(S, e, t, w, c, b, k),
           Here(e, t, w, c, b, k), NEW g, g \in At(pos),
           NEW type \in {SEQ_BOOL, SEQ_LONG, SEQ_DOUBLE}, Item(g, type)
    PROVE  \E i : PackedAhead(e, t, w, c, b, k, g, type, i)
<1>1. /\ k < Len(ChunksOf(c, e)) /\ pos = b + Off(ChunksOf(c, e), k) /\ at = "tag"
      /\ TagWire[g] = WireType(type)
      /\ \E i, j : Ahead(S, e, t, w, c, k, i, j) /\ TypeOf(c, i) = type /\ TagItem[g] = i
  BY ItemAhead
<1>2. PICK i, j : Ahead(S, e, t, w, c, k, i, j) /\ TypeOf(c, i) = type /\ TagItem[g] = i
  BY <1>1
<1>3. c \in S /\ Codec(S, e, t) /\ Top.values = Part(c, k, e, t) /\ pos \in Nat /\ w \in Seq(Int)
  BY DEF TopFollows, FrameIs
<1>4. PackedChunk(c, k, e, t, i)
  <2>1. i \in DOMAIN t[c] /\ IsChunk(S, e, t, c, k, i, j)
    BY <1>2 DEF Ahead
  <2>2. TypeOf(c, i) \in {SEQ_BOOL, SEQ_LONG, SEQ_DOUBLE}
    BY <1>2
  <2> QED BY <1>3, <2>1, <2>2, PackedChunkIs
<1> DEFINE v == c[2][i]
           p == Packed(type, v)
<1>5. /\ Carries(c, k, e, i, Prefixed(p)) /\ v \in Seq(Int)
      /\ (type = SEQ_BOOL => v \in Seq({0, 1})) /\ i \notin DOMAIN Part(c, k, e, t)
  BY <1>2, <1>4 DEF PackedChunk
<1>6. p \in Seq(Int)
  <2> HIDE DEF v
  <2> QED BY <1>5, PackedIs
<1>7. PackedAhead(e, t, w, c, b, k, g, type, i) <=>
        /\ k < Len(ChunksOf(c, e)) /\ TypeOf(c, i) = type /\ TagItem[g] = i /\ Fresh(g)
        /\ PackedChunk(c, k, e, t, i) /\ TagWire[g] = Delimited /\ v \in Seq(Int)
        /\ type = SEQ_BOOL => v \in Seq({0, 1})
        /\ w[pos + 1 + 1] = Len(p) /\ Lies(w, pos + 1 + VarintSize(Len(p)), p) /\ Len(p) \in Nat
        /\ pos + 1 + VarintSize(Len(p)) + Len(p) = b + Off(ChunksOf(c, e), k + 1)
        /\ pos + 1 + VarintSize(Len(p)) + Len(p) <= Len(w)
  BY DEF PackedAhead
<1> HIDE DEF v, p
<1>8. Behind(e, w, c, b, k, Prefixed(p))
  BY <1>1, <1>5, BehindIs
<1>9. /\ w[pos + 1 + 1] = Len(p) /\ Lies(w, pos + 1 + VarintSize(Len(p)), p)
      /\ Len(p) \in Nat
      /\ Len(Prefixed(p)) = VarintSize(Len(p)) + Len(p)
      /\ VarintSize(Len(p)) \in {1, 2}
  <2>1. pos + 1 \in Nat /\ Lies(w, pos + 1, Prefixed(p))
    BY <1>3, <1>8 DEF Behind
  <2> QED BY <1>3, <1>6, <2>1, PrefixedLies
<1>10. /\ b + Off(ChunksOf(c, e), k + 1) = pos + 1 + Len(Prefixed(p))
       /\ pos + 1 + Len(Prefixed(p)) <= Len(w)
  BY <1>8 DEF Behind
<1>11. /\ pos + 1 + VarintSize(Len(p)) + Len(p) = b + Off(ChunksOf(c, e), k + 1)
       /\ pos + 1 + VarintSize(Len(p)) + Len(p) <= Len(w)
  <2>1. ASSUME NEW x \in Nat, NEW y \in {1, 2}, NEW z, z = y + x
        PROVE  pos + 1 + y + x = pos + 1 + z
    BY <1>3, <2>1
  <2>2. pos + 1 + VarintSize(Len(p)) + Len(p) = pos + 1 + Len(Prefixed(p))
    BY <1>9, <2>1
  <2> QED BY <1>10, <2>2
<1>12. TagWire[g] = Delimited
  BY <1>1 DEF WireType, SEQ_BOOL, SEQ_LONG, SEQ_DOUBLE, BOOL, LONG, DOUBLE
<1>13. Fresh(g)
  BY <1>2, <1>3, <1>5 DEF Fresh
<1>14. PackedAhead(e, t, w, c, b, k, g, type, i)
  BY <1>1, <1>2, <1>4, <1>5, <1>7, <1>9, <1>11, <1>12, <1>13
<1> QED BY <1>14

\* A packed sequence is being read.
Began(e, t, w, c, b, k) ==
  /\ at' = "sequence" /\ UNCHANGED open /\ Same
  /\ \E i, q, a : Packing(e, t, w, c, b, k, i, q, a, todo', pos')

LEMMA SequenceFollows ==
    ASSUME NEW S, NEW e, NEW t, NEW w, NEW c, NEW b, NEW k, TopFollows(S, e, t, w, c, b, k),
           Here(e, t, w, c, b, k), NEW g, g \in At(pos), OpenSequence(g)
    PROVE  Threw(w) \/ Began(e, t, w, c, b, k)
<1>1. /\ w \in Seq(Int) /\ limit \in Nat /\ limit <= Len(w) /\ buffer = SubSeq(w, 1, limit)
      /\ pos \in Nat
  BY DEF TopFollows
<1>2. PICK type \in {SEQ_BOOL, SEQ_LONG, SEQ_DOUBLE} :
    /\ Item(g, type)
    /\ IF Readable(g, Delimited) /\ Fresh(g)
       THEN \E r \in Varints(pos + 1) :
              IF r.next <= limit
              THEN /\ todo' = [tag |-> g, type |-> Basic(type), elements |-> <<>>, from |-> pos,
                               count |-> IF type = SEQ_BOOL THEN r.value ELSE Eighth(r.value),
                               end |-> r.next + r.value]
                   /\ at' = "sequence" /\ pos' = r.next
                   /\ Same /\ UNCHANGED <<open, spans>>
              ELSE Throw
       ELSE Throw
  BY DEF OpenSequence
<1>3. PICK i : PackedAhead(e, t, w, c, b, k, g, type, i)
  BY <1>2, PackedAheadIs
<1> DEFINE v == c[2][i]
           P == Packed(type, v)
           y == Len(P)
           z == VarintSize(y)
<1>4. /\ k < Len(ChunksOf(c, e)) /\ TypeOf(c, i) = type /\ TagItem[g] = i /\ Fresh(g)
      /\ PackedChunk(c, k, e, t, i) /\ TagWire[g] = Delimited /\ v \in Seq(Int)
      /\ type = SEQ_BOOL => v \in Seq({0, 1})
      /\ w[pos + 1 + 1] = y /\ Lies(w, pos + 1 + z, P) /\ y \in Nat /\ z \in {1, 2}
      /\ pos + 1 + z + y = b + Off(ChunksOf(c, e), k + 1) /\ pos + 1 + z + y <= Len(w)
  BY <1>3, VarintSizeIs DEF PackedAhead
<1>5. (type = SEQ_BOOL => y = Len(v)) /\ (type = SEQ_DOUBLE => Eighth(y) = Len(v))
  <2> HIDE DEF v
  <2> QED BY <1>4, PackedLength
<1>6. /\ Off(Elements(type, v), 0) = 0 /\ Len(v) \in Nat /\ Firsts(v, 0) = <<>>
  <2> HIDE DEF v
  <2>1. Elements(type, v) \in Seq(Seq(Int))
    BY <1>4, PackedIs
  <2>2. Off(Elements(type, v), 0) = 0
    BY <2>1, OffIs
  <2> QED BY <1>4, <2>2 DEF Firsts
<1>7. \A q, a, d, p : Packing(e, t, w, c, b, k, i, q, a, d, p) <=>
        /\ k < Len(ChunksOf(c, e)) /\ type \in {SEQ_BOOL, SEQ_LONG, SEQ_DOUBLE}
        /\ PackedChunk(c, k, e, t, i) /\ TagItem[d.tag] = i /\ d.type = Basic(type)
        /\ q \in Nat /\ q <= Len(v) /\ d.elements = Firsts(v, q)
        /\ a \in Nat /\ Lies(w, a, P) /\ p = a + Off(Elements(type, v), q)
        /\ a + y = b + Off(ChunksOf(c, e), k + 1)
        /\ d.type = LONG => d.end = a + y
        /\ d.type # LONG => d.count = Len(v) - q
  BY <1>4 DEF Packing
<1>8. z = VarintSize(y)
  OBVIOUS
<1> HIDE DEF v, P, y, z
<1>9. Len(w) \in Nat
  BY <1>1
<1>10. CASE ~Readable(g, Delimited)
  <2>1. Throw
    BY <1>2, <1>10
  <2>2. ~(pos + 1 < limit)
    BY <1>4, <1>10 DEF Readable
  <2>3. limit < Len(w)
    BY <1>1, <1>4, <1>9, <2>2
  <2> QED BY <2>1, <2>3 DEF Threw
<1>11. CASE Readable(g, Delimited)
  <2>1. PICK r \in Varints(pos + 1) :
              IF r.next <= limit
              THEN /\ todo' = [tag |-> g, type |-> Basic(type), elements |-> <<>>, from |-> pos,
                               count |-> IF type = SEQ_BOOL THEN r.value ELSE Eighth(r.value),
                               end |-> r.next + r.value]
                   /\ at' = "sequence" /\ pos' = r.next
                   /\ Same /\ UNCHANGED <<open, spans>>
              ELSE Throw
    BY <1>2, <1>4, <1>11
  <2>2. r.value = w[pos + 1 + 1] /\ r.next = pos + 1 + VarintSize(w[pos + 1 + 1])
    <3>1. pos + 1 \in Nat
      BY <1>1
    <3> QED BY <1>1, <3>1, VarintsGive
  <2>3. r.value = y /\ r.next = pos + 1 + z
    BY <1>4, <1>8, <2>2
  <2>4. CASE ~(r.next <= limit)
    <3>1. limit < Len(w)
      BY <1>1, <1>4, <1>9, <2>3, <2>4
    <3> QED BY <2>1, <2>4, <3>1 DEF Threw
  <2>5. CASE r.next <= limit
    <3>1. /\ todo'.tag = g /\ todo'.type = Basic(type) /\ todo'.elements = <<>>
          /\ todo'.count = (IF type = SEQ_BOOL THEN y ELSE Eighth(y))
          /\ todo'.end = pos + 1 + z + y
          /\ at' = "sequence" /\ pos' = pos + 1 + z /\ Same /\ UNCHANGED open
      BY <2>1, <2>3, <2>5
    <3>2. pos + 1 + z \in Nat /\ pos' = (pos + 1 + z) + 0
      BY <1>1, <1>4, <3>1
    <3>3. Basic(type) # LONG => todo'.count = Len(v) - 0
      <4>1. CASE type = SEQ_BOOL
        BY <1>5, <1>6, <3>1, <4>1
      <4>2. CASE type = SEQ_DOUBLE
        BY <1>5, <1>6, <3>1, <4>2, BasicOf
      <4>3. CASE type = SEQ_LONG
        BY <4>3, BasicOf
      <4> QED BY <1>2, <4>1, <4>2, <4>3
    <3>4. Packing(e, t, w, c, b, k, i, 0, pos + 1 + z, todo', pos')
      BY <1>2, <1>4, <1>6, <1>7, <3>1, <3>2, <3>3
    <3> QED BY <3>1, <3>4 DEF Began
  <2> QED BY <2>4, <2>5
<1> QED BY <1>10, <1>11

\* The q elements read, and the others.
Reading(type, v, P, w, a, q, d, p) ==
  /\ v \in Seq(Int) /\ (type = SEQ_BOOL => v \in Seq({0, 1})) /\ w \in Seq(Int)
  /\ q \in Nat /\ q <= Len(v) /\ d.elements = Firsts(v, q) /\ P = Packed(type, v)
  /\ a \in Nat /\ Lies(w, a, P) /\ p = a + Off(Elements(type, v), q)

(* The next element of a packed sequence is at the position.               *)
LEMMA ElementHere ==
    ASSUME NEW type, NEW v, NEW P, NEW w, NEW a, NEW q, NEW d, NEW p,
           Reading(type, v, P, w, a, q, d, p)
    PROVE  /\ p \in Nat /\ p <= a + Len(P) /\ Len(P) \in Nat /\ a + Len(P) <= Len(w)
           /\ q = Len(v) => p = a + Len(P)
           /\ q < Len(v) =>
                /\ w[p + 1] = v[q + 1] /\ v[q + 1] \in Int
                /\ ElementSize(type, v[q + 1]) \in Nat \ {0}
                /\ p + ElementSize(type, v[q + 1]) = a + Off(Elements(type, v), q + 1)
                /\ p + ElementSize(type, v[q + 1]) <= a + Len(P)
                /\ Append(Firsts(v, q), v[q + 1]) = Firsts(v, q + 1)
                /\ type = SEQ_BOOL => v[q + 1] \in {0, 1}
<1>0. /\ v \in Seq(Int) /\ (type = SEQ_BOOL => v \in Seq({0, 1})) /\ w \in Seq(Int)
      /\ q \in Nat /\ q <= Len(v) /\ P = Packed(type, v)
      /\ a \in Nat /\ Lies(w, a, P) /\ p = a + Off(Elements(type, v), q) /\ Len(v) \in Nat
  BY DEF Reading
<1> DEFINE x == Elements(type, v)
<1>1. /\ x \in Seq(Seq(Int)) /\ Len(x) = Len(v)
      /\ \A n \in 1 .. Len(v) : /\ Len(x[n]) = ElementSize(type, v[n])
                                /\ x[n][1] = v[n] /\ ElementSize(type, v[n]) \in Nat \ {0}
      /\ P = FlattenSeq(x)
  BY <1>0, PackedIs
<1> HIDE DEF x
<1>2. /\ \A n \in 0 .. Len(x) : Off(x, n) \in Nat
      /\ \A n \in 1 .. Len(x) : Off(x, n) = Off(x, n - 1) + Len(x[n])
      /\ Off(x, Len(x)) = Len(P)
  BY <1>1, OffIs
<1>3. q \in 0 .. Len(x) /\ Len(x) \in 0 .. Len(x) /\ Len(x) \in Nat
  BY <1>0, <1>1
<1>4. Off(x, q) \in Nat /\ Off(x, q) <= Off(x, Len(x)) /\ Off(x, Len(x)) \in Nat
  BY <1>1, <1>2, <1>3, OffGrows
<1>5. p = a + Off(x, q)
  BY <1>0 DEF x
<1>6. p \in Nat /\ p <= a + Len(P) /\ Len(P) \in Nat
  BY <1>0, <1>2, <1>4, <1>5
<1>7. a + Len(P) <= Len(w)
  BY <1>0 DEF Lies
<1>8. q = Len(v) => p = a + Len(P)
  BY <1>1, <1>2, <1>5
<1>9. ASSUME q < Len(v)
      PROVE  /\ w[p + 1] = v[q + 1] /\ v[q + 1] \in Int
             /\ ElementSize(type, v[q + 1]) \in Nat \ {0}
             /\ p + ElementSize(type, v[q + 1]) = a + Off(x, q + 1)
             /\ p + ElementSize(type, v[q + 1]) <= a + Len(P)
             /\ Append(Firsts(v, q), v[q + 1]) = Firsts(v, q + 1)
             /\ type = SEQ_BOOL => v[q + 1] \in {0, 1}
  <2>1. q + 1 \in 1 .. Len(v) /\ q + 1 \in 1 .. Len(x) /\ q + 1 \in 0 .. Len(x) /\ (q + 1) - 1 = q
        /\ q + 1 <= Len(x)
    BY <1>0, <1>1, <1>9
  <2>2. v[q + 1] \in Int /\ (type = SEQ_BOOL => v[q + 1] \in {0, 1})
    BY <1>0, <2>1
  <2>3. /\ Len(x[q + 1]) = ElementSize(type, v[q + 1])
        /\ x[q + 1][1] = v[q + 1] /\ ElementSize(type, v[q + 1]) \in Nat \ {0}
    BY <1>1, <2>1
  <2>4. Off(x, q + 1) = Off(x, q) + ElementSize(type, v[q + 1]) /\ Off(x, q + 1) \in Nat
    BY <1>2, <2>1, <2>3
  <2>5. Off(x, q + 1) <= Len(P)
    BY <1>1, <1>2, <1>3, <2>1, OffGrows
  <2>6. p + ElementSize(type, v[q + 1]) = a + Off(x, q + 1)
    BY <1>0, <1>4, <1>5, <2>3, <2>4
  <2>7. p + ElementSize(type, v[q + 1]) <= a + Len(P)
    BY <1>0, <1>6, <2>4, <2>5, <2>6
  <2>8. Lies(w, p, x[q + 1])
    <3>1. Lies(w, a, FlattenSeq(x))
      BY <1>0, <1>1
    <3>2. Lies(w, a + Off(x, (q + 1) - 1), x[q + 1])
      BY <1>0, <1>1, <2>1, <3>1, LiesElement
    <3> QED BY <1>5, <2>1, <3>2
  <2>9. w[p + 1] = v[q + 1]
    <3>1. 1 \in 1 .. Len(x[q + 1])
      BY <2>3
    <3>2. w[p + 1] = x[q + 1][1]
      BY <2>8, <3>1, LiesIn
    <3> QED BY <2>3, <3>2
  <2>10. Append(Firsts(v, q), v[q + 1]) = Firsts(v, q + 1)
    BY <1>0, <1>9, FirstsAre
  <2> QED BY <2>2, <2>3, <2>6, <2>7, <2>9, <2>10
<1> QED BY <1>6, <1>7, <1>8, <1>9 DEF x

LEMMA PackingReads ==
    ASSUME NEW S, NEW e, NEW t, NEW w, NEW c, NEW b, NEW k, TopFollows(S, e, t, w, c, b, k),
           NEW i, NEW q, NEW a, NEW d, NEW p, Packing(e, t, w, c, b, k, i, q, a, d, p)
    PROVE  Reading(TypeOf(c, i), c[2][i], Packed(TypeOf(c, i), c[2][i]), w, a, q, d, p)
<1>1. w \in Seq(Int)
  BY DEF TopFollows
<1>2. c[2][i] \in Seq(Int) /\ (TypeOf(c, i) = SEQ_BOOL => c[2][i] \in Seq({0, 1}))
  BY DEF Packing, PackedChunk
<1> QED BY <1>1, <1>2 DEF Packing, Reading

(* An element that is read is the one written, if it is there at all.      *)
LEMMA ElementFollows ==
    ASSUME NEW S, NEW e, NEW t, NEW w, NEW c, NEW b, NEW k, TopFollows(S, e, t, w, c, b, k),
           Here(e, t, w, c, b, k), Sound, ReadElement
    PROVE  Threw(w) \/ Began(e, t, w, c, b, k)
<1>1. /\ w \in Seq(Int) /\ limit \in Nat /\ limit <= Len(w) /\ buffer = SubSeq(w, 1, limit)
      /\ pos \in Nat
  BY DEF TopFollows
<1>2. at = "sequence" /\ More
  BY DEF ReadElement
<1>3. PICK i, q, a : Packing(e, t, w, c, b, k, i, q, a, todo, pos)
  BY <1>2 DEF Here
<1> DEFINE type == TypeOf(c, i)
           v == c[2][i]
           P == Packed(type, v)
<1>4. Reading(type, v, P, w, a, q, todo, pos)
  BY <1>3, PackingReads
<1>5. \A z, d, p : Packing(e, t, w, c, b, k, i, z, a, d, p) <=>
        /\ k < Len(ChunksOf(c, e)) /\ type \in {SEQ_BOOL, SEQ_LONG, SEQ_DOUBLE}
        /\ PackedChunk(c, k, e, t, i) /\ TagItem[d.tag] = i /\ d.type = Basic(type)
        /\ z \in Nat /\ z <= Len(v) /\ d.elements = Firsts(v, z)
        /\ a \in Nat /\ Lies(w, a, P) /\ p = a + Off(Elements(type, v), z)
        /\ a + Len(P) = b + Off(ChunksOf(c, e), k + 1)
        /\ d.type = LONG => d.end = a + Len(P)
        /\ d.type # LONG => d.count = Len(v) - z
  BY DEF Packing
<1> HIDE DEF type, v, P
<1>6. /\ pos <= a + Len(P) /\ Len(P) \in Nat /\ a + Len(P) <= Len(w)
      /\ q = Len(v) => pos = a + Len(P)
  BY <1>4, ElementHere
<1>7. /\ k < Len(ChunksOf(c, e)) /\ type \in {SEQ_BOOL, SEQ_LONG, SEQ_DOUBLE}
      /\ PackedChunk(c, k, e, t, i) /\ TagItem[todo.tag] = i /\ todo.type = Basic(type)
      /\ q \in Nat /\ q <= Len(v) /\ todo.elements = Firsts(v, q)
      /\ a \in Nat /\ Lies(w, a, P) /\ a + Len(P) = b + Off(ChunksOf(c, e), k + 1)
      /\ todo.type = LONG => todo.end = a + Len(P)
      /\ todo.type # LONG => todo.count = Len(v) - q
  BY <1>3, <1>5
<1>8. Len(v) \in Nat /\ Len(w) \in Nat
  BY <1>1, <1>4 DEF Reading
<1>9. q < Len(v)
  <2>1. CASE todo.type = LONG
    <3>1. pos < a + Len(P)
      BY <1>2, <1>7, <2>1 DEF More
    <3> QED BY <1>1, <1>6, <1>7, <1>8, <3>1
  <2>2. CASE todo.type # LONG
    <3>1. Len(v) - q # 0
      BY <1>2, <1>7, <2>2 DEF More
    <3> QED BY <1>7, <1>8, <3>1
  <2> QED BY <2>1, <2>2
<1> DEFINE x == v[q + 1]
           y == ElementSize(type, x)
<1>10. /\ w[pos + 1] = x /\ x \in Int /\ y \in Nat \ {0}
       /\ pos + y = a + Off(Elements(type, v), q + 1) /\ pos + y <= a + Len(P)
       /\ Append(Firsts(v, q), x) = Firsts(v, q + 1)
       /\ type = SEQ_BOOL => x \in {0, 1}
  BY <1>4, <1>9, ElementHere
<1>11. y = ElementSize(type, x)
  OBVIOUS
<1> HIDE DEF x, y
<1>12. CASE At(pos) = {}
  <2>1. ~(pos < limit)
    BY <1>1, <1>12, AtGives
  <2>2. limit < Len(w)
    BY <1>1, <1>6, <1>7, <1>8, <1>10, <2>1
  <2>3. Throw
    BY <1>12 DEF ReadElement
  <2> QED BY <2>2, <2>3 DEF Threw
<1>13. CASE At(pos) # {}
  <2>1. PICK u \in At(pos) :
       LET size == CASE todo.type = DOUBLE -> DoubleSize
                     [] OTHER              -> VarintSize(u)
       IN  IF pos + size > limit THEN Throw
           ELSE /\ todo' = [todo EXCEPT !.count = @ - 1,
                              !.elements = Append(@, IF todo.type # BOOL \/ u = 0 THEN u ELSE 1)]
                /\ pos' = pos + size
                /\ Same /\ UNCHANGED <<open, at, spans>>
    BY <1>13 DEF ReadElement
  <2>2. u = x
    BY <1>1, <1>10, <2>1, AtGives
  <2>3. (CASE todo.type = DOUBLE -> DoubleSize [] OTHER -> VarintSize(u)) = y
    BY <1>7, <1>11, <2>2, BasicOf DEF ElementSize
  <2>4. (IF todo.type # BOOL \/ u = 0 THEN u ELSE 1) = x
    BY <1>7, <1>10, <2>2, BasicOf
  <2>5. IF pos + y > limit THEN Throw
        ELSE /\ todo' = [todo EXCEPT !.count = @ - 1, !.elements = Append(@, x)]
             /\ pos' = pos + y
             /\ Same /\ UNCHANGED <<open, at, spans>>
    BY <2>1, <2>3, <2>4
  <2>6. CASE pos + y > limit
    <3>1. limit < Len(w)
      BY <1>1, <1>6, <1>7, <1>8, <1>10, <2>6
    <3> QED BY <2>5, <2>6, <3>1 DEF Threw
  <2>7. CASE ~(pos + y > limit)
    <3>1. /\ todo' = [todo EXCEPT !.count = @ - 1, !.elements = Append(@, x)]
          /\ pos' = pos + y /\ at' = "sequence" /\ Same /\ UNCHANGED open
      BY <1>2, <2>5, <2>7
    <3>2. todo \in [tag : Tags, type : {BOOL, LONG, DOUBLE}, elements : Seq(Int), from : Nat,
                   count : Int, end : Int]
      BY <1>2 DEF Sound, IInv, Sequence
    <3>3. /\ todo'.tag = todo.tag /\ todo'.type = todo.type /\ todo'.end = todo.end
          /\ todo'.count = todo.count - 1 /\ todo'.elements = Append(todo.elements, x)
      BY <3>1, <3>2
    <3>4. q + 1 \in Nat /\ q + 1 <= Len(v)
      BY <1>7, <1>8, <1>9
    <3>5. todo'.type # LONG => todo'.count = Len(v) - (q + 1)
      BY <1>7, <1>8, <3>3
    <3>6. todo'.elements = Firsts(v, q + 1)
      BY <1>7, <1>10, <3>3
    <3>7. pos' = a + Off(Elements(type, v), q + 1)
      BY <1>10, <3>1
    <3>8. Packing(e, t, w, c, b, k, i, q + 1, a, todo', pos')
      BY <1>5, <1>7, <3>3, <3>4, <3>5, <3>6, <3>7
    <3> QED BY <3>1, <3>8 DEF Began
  <2> QED BY <2>6, <2>7
<1> QED BY <1>12, <1>13

(* A packed sequence ends with its last element.                           *)
LEMMA SequenceEnds ==
    ASSUME NEW S, NEW e, NEW t, NEW w, NEW c, NEW b, NEW k, TopFollows(S, e, t, w, c, b, k),
           Here(e, t, w, c, b, k), CloseSequence
    PROVE  Took(e, t, c, b, k)
<1>1. pos \in Nat /\ Top.values = Part(c, k, e, t)
  BY DEF TopFollows, FrameIs
<1>2. at = "sequence" /\ ~More
  BY DEF CloseSequence
<1>3. PICK i, q, a : Packing(e, t, w, c, b, k, i, q, a, todo, pos)
  BY <1>2 DEF Here
<1> DEFINE type == TypeOf(c, i)
           v == c[2][i]
           P == Packed(type, v)
<1>4. Reading(type, v, P, w, a, q, todo, pos)
  BY <1>3, PackingReads
<1>5. /\ k < Len(ChunksOf(c, e)) /\ Adds(c, k, e, t, i, v) /\ TagItem[todo.tag] = i
      /\ q \in Nat /\ q <= Len(v) /\ todo.elements = Firsts(v, q)
      /\ a \in Nat /\ a + Len(P) = b + Off(ChunksOf(c, e), k + 1)
      /\ todo.type = LONG => todo.end = a + Len(P)
      /\ todo.type # LONG => todo.count = Len(v) - q
  BY <1>3 DEF Packing, PackedChunk
<1> HIDE DEF type, v, P
<1>6. /\ pos <= a + Len(P) /\ Len(P) \in Nat
      /\ q = Len(v) => pos = a + Len(P)
  BY <1>4, ElementHere
<1>7. v \in Seq(Int) /\ Len(v) \in Nat
  BY <1>4 DEF Reading
<1>8. q = Len(v)
  <2>1. CASE todo.type = LONG
    <3>1. ~(pos < a + Len(P))
      BY <1>2, <1>5, <2>1 DEF More
    <3>2. ASSUME q < Len(v) PROVE FALSE
      <4>1. /\ ElementSize(type, v[q + 1]) \in Nat \ {0}
            /\ pos + ElementSize(type, v[q + 1]) <= a + Len(P)
        BY <1>4, <3>2, ElementHere
      <4> QED BY <1>1, <1>5, <1>6, <3>1, <4>1
    <3> QED BY <1>5, <1>7, <3>2
  <2>2. CASE todo.type # LONG
    <3>1. Len(v) - q = 0
      BY <1>2, <1>5, <2>2 DEF More
    <3> QED BY <1>5, <1>7, <3>1
  <2> QED BY <2>1, <2>2
<1>9. pos = a + Len(P) /\ todo.elements = v
  <2>1. Firsts(v, Len(v)) = v
    BY <1>7, FirstsOfAll
  <2> QED BY <1>5, <1>6, <1>8, <2>1
<1>10. todo.type = LONG => EndsWell(todo.end)
  BY <1>5, <1>9 DEF EndsWell
<1>11. /\ open' = Stored(todo.tag, todo.elements) /\ at' = "tag" /\ Same /\ UNCHANGED pos
  BY <1>10 DEF CloseSequence
<1>12. open' = TopTo(open, Put(Top.values, i, v))
  BY <1>5, <1>9, <1>11, StoredIsTopTo
<1>13. open' = TopTo(open, Part(c, k + 1, e, t))
  BY <1>1, <1>5, <1>12 DEF Adds
<1>14. pos' = b + Off(ChunksOf(c, e), k + 1)
  BY <1>5, <1>9, <1>11
<1> QED BY <1>5, <1>11, <1>13, <1>14 DEF Took

(***************************************************************************)
(* The open messages after a step.                                         *)
(***************************************************************************)
\* The function f with v at k, for what is up to k.
UpTo(f, k, v) == [x \in 1 .. k |-> IF x = k THEN v ELSE f[x]]

LEMMA UpToIs ==
    ASSUME NEW f, NEW k \in Nat, NEW v
    PROVE  /\ k >= 1 => UpTo(f, k, v)[k] = v
           /\ \A x \in 1 .. k : x # k => UpTo(f, k, v)[x] = f[x]
BY DEF UpTo

(* The next chunk of the message on top is read.                           *)
LEMMA OpenedTop ==
    ASSUME NEW S, NEW e, NEW t, NEW w, NEW m, NEW s, NEW n, NEW o, Opened(o, S, e, t, w, m, s, n),
           NEW L \in Nat \ {0}, Len(o) = L, NEW p, Len(p) = L,
           \A k \in 1 .. L : k # L => p[k] = o[k],
           p[L].id = o[L].id, p[L].end = o[L].end, p[L].type = o[L].type,
           n[L] < Len(ChunksOf(m[L], e)), p[L].values = Part(m[L], n[L] + 1, e, t),
           Len(ChunksOf(m[L], e)) \in Nat
    PROVE  Opened(p, S, e, t, w, m, s, UpTo(n, L, n[L] + 1))
<1> DEFINE N == UpTo(n, L, n[L] + 1)
<1>1. N[L] = n[L] + 1 /\ \A k \in 1 .. L : k # L => N[k] = n[k]
  BY UpToIs
<1> HIDE DEF N
<1>2. ASSUME NEW k \in 1 .. L PROVE FrameIs(S, e, t, w, p[k], m[k], s[k], N[k])
  <2>1. FrameIs(S, e, t, w, o[k], m[k], s[k], n[k])
    BY DEF Opened
  <2>2. CASE k # L
    BY <1>1, <2>1, <2>2
  <2>3. CASE k = L
    <3>1. n[L] \in Nat /\ n[L] + 1 \in Nat /\ n[L] + 1 <= Len(ChunksOf(m[L], e))
      BY <2>1, <2>3 DEF FrameIs
    <3>2. FrameIs(S, e, t, w, p[L], m[L], s[L], N[L])
      BY <1>1, <2>1, <2>3, <3>1 DEF FrameIs
    <3> QED BY <2>3, <3>2
  <2> QED BY <2>2, <2>3
<1>3. ASSUME NEW k \in 2 .. L
      PROVE  FrameIn(e, t, p[k - 1], m[k - 1], s[k - 1], N[k - 1], p[k], m[k], s[k])
  <2>1. FrameIn(e, t, o[k - 1], m[k - 1], s[k - 1], n[k - 1], o[k], m[k], s[k])
    BY DEF Opened
  <2>2. k - 1 \in 1 .. L /\ k - 1 # L /\ k \in 1 .. L
    OBVIOUS
  <2>3. p[k - 1] = o[k - 1] /\ N[k - 1] = n[k - 1]
    BY <1>1, <2>2
  <2>4. p[k].id = o[k].id /\ p[k].end = o[k].end /\ p[k].type = o[k].type
    BY <2>2
  <2> QED BY <2>1, <2>3, <2>4 DEF FrameIn
<1> QED BY <1>2, <1>3 DEF Opened, N

(* A message is opened for the next chunk.                                 *)
LEMMA OpenedMore ==
    ASSUME NEW S, NEW e, NEW t, NEW w, NEW m, NEW s, NEW n, NEW o, Opened(o, S, e, t, w, m, s, n),
           NEW L \in Nat \ {0}, Len(o) = L, NEW p, Len(p) = L + 1,
           \A k \in 1 .. L : p[k] = o[k], NEW d, NEW r,
           FrameIs(S, e, t, w, p[L + 1], d, r, 0),
           FrameIn(e, t, o[L], m[L], s[L], n[L], p[L + 1], d, r)
    PROVE  Opened(p, S, e, t, w, UpTo(m, L + 1, d), UpTo(s, L + 1, r), UpTo(n, L + 1, 0))
<1> DEFINE M == UpTo(m, L + 1, d)
           R == UpTo(s, L + 1, r)
           N == UpTo(n, L + 1, 0)
<1>0. L + 1 \in Nat /\ L + 1 >= 1
  OBVIOUS
<1>1. /\ M[L + 1] = d /\ \A k \in 1 .. L + 1 : k # L + 1 => M[k] = m[k]
      /\ R[L + 1] = r /\ \A k \in 1 .. L + 1 : k # L + 1 => R[k] = s[k]
      /\ N[L + 1] = 0 /\ \A k \in 1 .. L + 1 : k # L + 1 => N[k] = n[k]
  BY <1>0, UpToIs
<1> HIDE DEF M, R, N
<1>2. ASSUME NEW k \in 1 .. L + 1 PROVE FrameIs(S, e, t, w, p[k], M[k], R[k], N[k])
  <2>1. CASE k # L + 1
    <3>1. k \in 1 .. L
      BY <2>1
    <3>2. FrameIs(S, e, t, w, o[k], m[k], s[k], n[k])
      BY <3>1 DEF Opened
    <3> QED BY <1>1, <2>1, <3>1, <3>2
  <2>2. CASE k = L + 1
    BY <1>1, <2>2
  <2> QED BY <2>1, <2>2
<1>3. ASSUME NEW k \in 2 .. L + 1
      PROVE  FrameIn(e, t, p[k - 1], M[k - 1], R[k - 1], N[k - 1], p[k], M[k], R[k])
  <2>1. k - 1 \in 1 .. L /\ k - 1 \in 1 .. L + 1 /\ k - 1 # L + 1 /\ k \in 1 .. L + 1
    OBVIOUS
  <2>2. /\ p[k - 1] = o[k - 1] /\ M[k - 1] = m[k - 1] /\ R[k - 1] = s[k - 1]
        /\ N[k - 1] = n[k - 1]
    BY <1>1, <2>1
  <2>3. CASE k # L + 1
    <3>1. k \in 2 .. L /\ k \in 1 .. L
      BY <2>3
    <3>2. FrameIn(e, t, o[k - 1], m[k - 1], s[k - 1], n[k - 1], o[k], m[k], s[k])
      BY <3>1 DEF Opened
    <3>3. p[k] = o[k] /\ M[k] = m[k] /\ R[k] = s[k]
      BY <1>1, <2>1, <2>3, <3>1
    <3> QED BY <2>2, <3>2, <3>3
  <2>4. CASE k = L + 1
    <3>1. k - 1 = L
      BY <2>4
    <3> QED BY <1>1, <2>2, <2>4, <3>1
  <2> QED BY <2>3, <2>4
<1> QED BY <1>2, <1>3 DEF Opened, M, R, N

(* The message on top is closed, and the one below has a chunk more.       *)
LEMMA OpenedLess ==
    ASSUME NEW S, NEW e, NEW t, NEW w, NEW m, NEW s, NEW n, NEW o, Opened(o, S, e, t, w, m, s, n),
           NEW L \in Nat \ {0}, Len(o) = L + 1, NEW p, Len(p) = L,
           \A k \in 1 .. L : k # L => p[k] = o[k],
           p[L].id = o[L].id, p[L].end = o[L].end, p[L].type = o[L].type,
           n[L] < Len(ChunksOf(m[L], e)), p[L].values = Part(m[L], n[L] + 1, e, t),
           Len(ChunksOf(m[L], e)) \in Nat
    PROVE  Opened(p, S, e, t, w, m, s, UpTo(n, L, n[L] + 1))
<1> DEFINE N == UpTo(n, L, n[L] + 1)
<1>1. N[L] = n[L] + 1 /\ \A k \in 1 .. L : k # L => N[k] = n[k]
  BY UpToIs
<1> HIDE DEF N
<1>2. ASSUME NEW k \in 1 .. L PROVE FrameIs(S, e, t, w, p[k], m[k], s[k], N[k])
  <2>1. FrameIs(S, e, t, w, o[k], m[k], s[k], n[k])
    <3>1. k \in 1 .. L + 1
      OBVIOUS
    <3> QED BY <3>1 DEF Opened
  <2>2. CASE k # L
    BY <1>1, <2>1, <2>2
  <2>3. CASE k = L
    <3>1. n[L] \in Nat /\ n[L] + 1 \in Nat /\ n[L] + 1 <= Len(ChunksOf(m[L], e))
      BY <2>1, <2>3 DEF FrameIs
    <3>2. FrameIs(S, e, t, w, p[L], m[L], s[L], N[L])
      BY <1>1, <2>1, <2>3, <3>1 DEF FrameIs
    <3> QED BY <2>3, <3>2
  <2> QED BY <2>2, <2>3
<1>3. ASSUME NEW k \in 2 .. L
      PROVE  FrameIn(e, t, p[k - 1], m[k - 1], s[k - 1], N[k - 1], p[k], m[k], s[k])
  <2>1. FrameIn(e, t, o[k - 1], m[k - 1], s[k - 1], n[k - 1], o[k], m[k], s[k])
    <3>1. k \in 2 .. L + 1
      OBVIOUS
    <3> QED BY <3>1 DEF Opened
  <2>2. k - 1 \in 1 .. L /\ k - 1 # L /\ k \in 1 .. L
    OBVIOUS
  <2>3. p[k - 1] = o[k - 1] /\ N[k - 1] = n[k - 1]
    BY <1>1, <2>2
  <2>4. p[k].id = o[k].id /\ p[k].end = o[k].end /\ p[k].type = o[k].type
    BY <2>2
  <2> QED BY <2>1, <2>3, <2>4 DEF FrameIn
<1> QED BY <1>2, <1>3 DEF Opened, N

(***************************************************************************)
(* Every step follows.                                                     *)
(***************************************************************************)
LEMMA SourceKept ==
    ASSUME NEW S, NEW e, NEW t, NEW p, Source(S, e, t, p), Same, Root' = Root
    PROVE  Source(S, e, t, p)'
BY DEF Source, Same

LEMMA RootIs ==
    ASSUME NEW S, NEW e, NEW t, NEW m, NEW s, NEW n, Follows(S, e, t, m, s, n)
    PROVE  /\ Source(S, e, t, m[1]) /\ s[1] = 0 /\ Opened(open, S, e, t, e[m[1]], m, s, n)
           /\ Here(e, t, e[m[1]], m[Len(open)], s[Len(open)], n[Len(open)])
BY DEF Follows

LEMMA StopsFollow ==
    ASSUME NEW S, NEW e, NEW t, NEW m, NEW s, NEW n, Follows(S, e, t, m, s, n),
           Stopped(e[m[1]]) \/ Threw(e[m[1]])
    PROVE  Follows(S, e, t, m, s, n)'
<1>1. at' = "threw" /\ limit < Len(e[m[1]]) /\ open' = open /\ Same
  BY DEF Stopped, Threw, Throw
<1>2. Source(S, e, t, m[1])'
  BY <1>1, SourceKept, RootIs DEF Root
<1>3. Opened(open', S, e, t, e[m[1]], m, s, n)
  BY <1>1, RootIs
<1>4. Here(e, t, e[m[1]], m[Len(open)], s[Len(open)], n[Len(open)])'
  BY <1>1 DEF Here, Same
<1> QED BY <1>2, <1>3, <1>4, RootIs DEF Follows

LEMMA FinishFollows ==
    ASSUME NEW S, NEW e, NEW t, NEW m, NEW s, NEW n, Follows(S, e, t, m, s, n), at = "tag",
           Finished
    PROVE  Follows(S, e, t, m, s, n)'
<1>1. at' = "done" /\ ~Nested /\ pos = limit /\ open' = open /\ pos' = pos /\ Same
  BY DEF Finished
<1>2. Source(S, e, t, m[1])'
  BY <1>1, SourceKept, RootIs DEF Root
<1>3. Opened(open', S, e, t, e[m[1]], m, s, n)
  BY <1>1, RootIs
<1>4. pos = s[Len(open)] + Off(ChunksOf(m[Len(open)], e), n[Len(open)])
  BY RootIs DEF Here
<1>5. Here(e, t, e[m[1]], m[Len(open)], s[Len(open)], n[Len(open)])'
  BY <1>1, <1>4 DEF Here, Same, Nested
<1> QED BY <1>2, <1>3, <1>5, RootIs DEF Follows

LEMMA BeginsFollow ==
    ASSUME NEW S, NEW e, NEW t, NEW m, NEW s, NEW n, Follows(S, e, t, m, s, n),
           Began(e, t, e[m[1]], m[Len(open)], s[Len(open)], n[Len(open)])
    PROVE  Follows(S, e, t, m, s, n)'
<1>1. /\ at' = "sequence" /\ open' = open /\ Same
      /\ \E i, q, a : Packing(e, t, e[m[1]], m[Len(open)], s[Len(open)], n[Len(open)], i, q, a,
                              todo', pos')
  BY DEF Began
<1>2. Source(S, e, t, m[1])'
  BY <1>1, SourceKept, RootIs DEF Root
<1>3. Opened(open', S, e, t, e[m[1]], m, s, n)
  BY <1>1, RootIs
<1>4. Here(e, t, e[m[1]], m[Len(open)], s[Len(open)], n[Len(open)])'
  BY <1>1 DEF Here
<1> QED BY <1>2, <1>3, <1>4, RootIs DEF Follows

LEMMA TagFollows ==
    ASSUME NEW S, NEW e, NEW t, NEW m, NEW s, NEW n, Source(S, e, t, m[1])', s[1] = 0,
           Opened(open', S, e, t, e[m[1]], m, s, n), at' = "tag",
           pos' = s[Len(open')] + Off(ChunksOf(m[Len(open')], e), n[Len(open')])
    PROVE  Follow'
<1>1. Here(e, t, e[m[1]], m[Len(open)], s[Len(open)], n[Len(open)])'
  BY DEF Here
<1>2. Follows(S, e, t, m, s, n)'
  BY <1>1 DEF Follows
<1> QED BY <1>2 DEF Follow

(* How many chunks there are.                                              *)
LEMMA ChunkCount ==
    ASSUME NEW S, NEW e, NEW t, Codec(S, e, t), NEW c \in S
    PROVE  /\ Len(ChunksOf(c, e)) \in Nat /\ Off(ChunksOf(c, e), 0) = 0
<1>1. ChunksOf(c, e) \in Seq(Seq(Int))
  BY CodecHas
<1> QED BY <1>1, OffIs

(* A step that reads the next chunk.                                       *)
LEMMA TakesFollow ==
    ASSUME Sound, NEW S, NEW e, NEW t, NEW m, NEW s, NEW n, Follows(S, e, t, m, s, n),
           Took(e, t, m[Len(open)], s[Len(open)], n[Len(open)])
    PROVE  Follow'
<1> DEFINE L == Len(open)
           N == UpTo(n, L, n[L] + 1)
<1>1. /\ n[L] < Len(ChunksOf(m[L], e)) /\ open' = TopTo(open, Part(m[L], n[L] + 1, e, t))
      /\ pos' = s[L] + Off(ChunksOf(m[L], e), n[L] + 1) /\ at' = "tag" /\ Same
  BY DEF Took
<1>2. L \in Nat \ {0} /\ Len(open) = L
  BY SomeAreOpen DEF Sound, IInv
<1>3. PICK F : TreeIn(F)
  BY DEF Sound, IInv, Tree
<1> DEFINE v == Part(m[L], n[L] + 1, e, t)
<1>4. open' = TopTo(open, v)
  BY <1>1
<1> HIDE DEF v, L
<1>5. /\ Len(open') = L /\ open'[L].values = v
      /\ open'[L].id = open[L].id /\ open'[L].end = open[L].end /\ open'[L].type = open[L].type
      /\ \A k \in 1 .. L : k # L => open'[k] = open[k]
  <2>1. open \in Seq(Frames(F)) /\ Len(open) >= 1
    BY <1>3 DEF TreeIn
  <2>2. /\ Len(TopTo(open, v)) = Len(open) /\ TopTo(open, v)[Len(open)].values = v
        /\ TopTo(open, v)[Len(open)].id = open[Len(open)].id
        /\ TopTo(open, v)[Len(open)].end = open[Len(open)].end
        /\ TopTo(open, v)[Len(open)].type = open[Len(open)].type
        /\ \A k \in 1 .. Len(open) : k # Len(open) => TopTo(open, v)[k] = open[k]
    BY <2>1, TopToIs
  <2> QED BY <1>2, <1>4, <2>2
<1>6. /\ Source(S, e, t, m[1]) /\ s[1] = 0 /\ Opened(open, S, e, t, e[m[1]], m, s, n)
  BY RootIs
<1>7. m[L] \in S /\ Codec(S, e, t)
  BY <1>2, <1>6 DEF Opened, FrameIs, Source
<1>8. Len(ChunksOf(m[L], e)) \in Nat
  BY <1>7, ChunkCount
<1>9. Opened(open', S, e, t, e[m[1]], m, s, N)
  BY <1>1, <1>2, <1>5, <1>6, <1>8, OpenedTop DEF v
<1>10. Root' = Root
  BY <1>2, <1>5 DEF Root
<1>11. Source(S, e, t, m[1])'
  BY <1>1, <1>6, <1>10, SourceKept
<1>12. N[L] = n[L] + 1
  BY <1>2, UpToIs
<1> HIDE DEF N
<1>13. pos' = s[Len(open')] + Off(ChunksOf(m[Len(open')], e), N[Len(open')])
  BY <1>1, <1>5, <1>12
<1> QED BY <1>1, <1>5, <1>6, <1>9, <1>11, <1>13, TagFollows

(* A step that opens a message.                                            *)
LEMMA EntersFollow ==
    ASSUME Sound, NEW S, NEW e, NEW t, NEW m, NEW s, NEW n, Follows(S, e, t, m, s, n),
           Entered(S, e, t, e[m[1]], m[Len(open)], s[Len(open)], n[Len(open)])
    PROVE  Follow'
<1> DEFINE L == Len(open)
           w == e[m[1]]
<1>1. /\ n[L] < Len(ChunksOf(m[L], e)) /\ at' = "tag" /\ Same
      /\ \E d, f : /\ d \in S /\ open' = Append(open, f) /\ f.id = d[1] /\ f.values = NoValues
                   /\ pos' \in Nat /\ Lies(w, pos', e[d]) /\ f.end = pos' + Len(e[d])
                   /\ f.end = s[L] + Off(ChunksOf(m[L], e), n[L] + 1)
                   /\ With(Top.values, f.id, f.type, t[d]) = Part(m[L], n[L] + 1, e, t)
  BY DEF Entered
<1> DEFINE Inside(d, f) ==
            /\ open' = Append(open, f) /\ f.id = d[1] /\ f.values = NoValues
            /\ pos' \in Nat /\ Lies(w, pos', e[d]) /\ f.end = pos' + Len(e[d])
            /\ f.end = s[L] + Off(ChunksOf(m[L], e), n[L] + 1)
            /\ With(Top.values, f.id, f.type, t[d]) = Part(m[L], n[L] + 1, e, t)
<1>0. PICK d \in S : \E f : Inside(d, f)
  BY <1>1
<1>2. PICK f : Inside(d, f)
  BY <1>0
<1>3. L \in Nat \ {0} /\ Len(open) = L
  BY SomeAreOpen DEF Sound, IInv
<1>4. Top = open[L]
  BY DEF Top
<1>5. PICK F : TreeIn(F)
  BY DEF Sound, IInv, Tree
<1>6. open \in Seq(Frames(F))
  BY <1>5 DEF TreeIn
<1>7. /\ Source(S, e, t, m[1]) /\ s[1] = 0 /\ Opened(open, S, e, t, w, m, s, n)
  BY RootIs
<1> HIDE DEF L, w
<1>8. Len(open') = L + 1 /\ open'[L + 1] = f /\ \A k \in 1 .. L : open'[k] = open[k]
  <2>1. open' = Append(open, f)
    BY <1>2
  <2> QED BY <1>3, <1>6, <2>1
<1>9. Codec(S, e, t)
  BY <1>7 DEF Source
<1>10. Len(ChunksOf(d, e)) \in Nat /\ Off(ChunksOf(d, e), 0) = 0
  BY <1>9, ChunkCount
<1>11. Part(d, 0, e, t) = NoValues
  BY <1>9, NoPart
<1> DEFINE r == pos'
<1>12. FrameIs(S, e, t, w, open'[L + 1], d, r, 0)
  BY <1>2, <1>8, <1>10, <1>11 DEF FrameIs
<1>13. FrameIn(e, t, open[L], m[L], s[L], n[L], open'[L + 1], d, r)
  BY <1>1, <1>2, <1>4, <1>8 DEF FrameIn
<1>14. \E M, R, N : /\ Opened(open', S, e, t, w, M, R, N) /\ M[1] = m[1] /\ R[1] = s[1]
                    /\ pos' = R[Len(open')] + Off(ChunksOf(M[Len(open')], e), N[Len(open')])
  <2> DEFINE M == UpTo(m, L + 1, d)
             R == UpTo(s, L + 1, r)
             N == UpTo(n, L + 1, 0)
  <2>1. Opened(open', S, e, t, w, M, R, N)
    BY <1>3, <1>7, <1>8, <1>12, <1>13, OpenedMore
  <2>2. /\ M[L + 1] = d /\ R[L + 1] = r /\ N[L + 1] = 0 /\ M[1] = m[1] /\ R[1] = s[1]
    <3>1. L + 1 \in Nat /\ L + 1 >= 1 /\ 1 \in 1 .. L + 1 /\ 1 # L + 1
      BY <1>3
    <3> QED BY <3>1, UpToIs
  <2> HIDE DEF M, N, R
  <2>3. pos' = R[Len(open')] + Off(ChunksOf(M[Len(open')], e), N[Len(open')])
    BY <1>2, <1>8, <1>10, <2>2
  <2> QED BY <2>1, <2>2, <2>3
<1>15. PICK M, R, N : /\ Opened(open', S, e, t, w, M, R, N) /\ M[1] = m[1] /\ R[1] = s[1]
                      /\ pos' = R[Len(open')] + Off(ChunksOf(M[Len(open')], e), N[Len(open')])
  BY <1>14
<1>16. Root' = Root
  <2>1. 1 \in 1 .. L
    BY <1>3
  <2> QED BY <1>8, <2>1 DEF Root
<1>17. Source(S, e, t, m[1])'
  BY <1>1, <1>7, <1>16, SourceKept
<1>18. Source(S, e, t, M[1])'
  BY <1>15, <1>17
<1>19. R[1] = 0 /\ Opened(open', S, e, t, e[M[1]], M, R, N)
  BY <1>7, <1>15 DEF w
<1> QED BY <1>1, <1>15, <1>18, <1>19, TagFollows

(* A step that closes one.                                                 *)
LEMMA ClosesFollow ==
    ASSUME Sound, NEW S, NEW e, NEW t, NEW m, NEW s, NEW n, Follows(S, e, t, m, s, n), CloseMsg
    PROVE  Follow'
<1>1. TopFollows(S, e, t, e[m[1]], m[Len(open)], s[Len(open)], n[Len(open)])
      /\ Here(e, t, e[m[1]], m[Len(open)], s[Len(open)], n[Len(open)])
  BY TopFollowsIs, RootIs
<1>2. EndsWell(Top.end) /\ Top.values = t[m[Len(open)]]
  BY <1>1, CloseFollows
<1>3. /\ open' = [i \in 1 .. Len(open) - 1 |->
                    IF i < Len(open) - 1 THEN open[i]
                    ELSE [open[i] EXCEPT !.values = With(@, Top.id, Top.type, Top.values)]]
      /\ pos' = pos /\ at' = "tag" /\ Same /\ Nested
  BY <1>2 DEF CloseMsg
<1>4. LET x == Len(open) IN
      /\ x \in Nat /\ x - 1 \in Nat \ {0} /\ Len(open') = x - 1
      /\ \A k \in 1 .. x - 1 : k # x - 1 => open'[k] = open[k]
      /\ open'[x - 1].values = With(open[x - 1].values, Top.id, Top.type, Top.values)
      /\ open'[x - 1].id = open[x - 1].id /\ open'[x - 1].end = open[x - 1].end
      /\ open'[x - 1].type = open[x - 1].type
  BY <1>3, PopIs DEF Sound
<1> DEFINE L == Len(open) - 1
<1>5. /\ L \in Nat \ {0} /\ Len(open) = L + 1 /\ Len(open') = L
      /\ \A k \in 1 .. L : k # L => open'[k] = open[k]
      /\ open'[L].values = With(open[L].values, Top.id, Top.type, Top.values)
      /\ open'[L].id = open[L].id /\ open'[L].end = open[L].end
      /\ open'[L].type = open[L].type
  BY <1>4
<1> HIDE DEF L
<1>6. /\ Source(S, e, t, m[1]) /\ s[1] = 0 /\ Opened(open, S, e, t, e[m[1]], m, s, n)
  BY RootIs
<1>7. /\ FrameIn(e, t, open[L], m[L], s[L], n[L], open[L + 1], m[L + 1], s[L + 1])
      /\ FrameIs(S, e, t, e[m[1]], open[L], m[L], s[L], n[L])
  <2>1. L + 1 \in 2 .. Len(open) /\ (L + 1) - 1 = L /\ L \in 1 .. Len(open)
    BY <1>5
  <2>2. FrameIn(e, t, open[(L + 1) - 1], m[(L + 1) - 1], s[(L + 1) - 1], n[(L + 1) - 1],
                open[L + 1], m[L + 1], s[L + 1])
    BY <1>6, <2>1 DEF Opened
  <2> QED BY <1>6, <2>1, <2>2 DEF Opened
<1>8. Top = open[L + 1] /\ Top.values = t[m[L + 1]]
  BY <1>2, <1>5 DEF Top
<1>9. /\ n[L] < Len(ChunksOf(m[L], e)) /\ Top.end = s[L] + Off(ChunksOf(m[L], e), n[L] + 1)
      /\ With(open[L].values, Top.id, Top.type, Top.values) = Part(m[L], n[L] + 1, e, t)
      /\ m[L] \in S
  BY <1>7, <1>8 DEF FrameIn, FrameIs
<1>10. Codec(S, e, t)
  BY <1>6 DEF Source
<1>11. Len(ChunksOf(m[L], e)) \in Nat
  BY <1>9, <1>10, ChunkCount
<1> DEFINE N == UpTo(n, L, n[L] + 1)
<1>12. Opened(open', S, e, t, e[m[1]], m, s, N)
  BY <1>5, <1>6, <1>9, <1>11, OpenedLess
<1>13. N[L] = n[L] + 1
  BY <1>5, UpToIs
<1>14. Root' = Root
  <2>1. 1 \in 1 .. L
    BY <1>5
  <2> QED BY <1>5, <2>1 DEF Root
<1>15. Source(S, e, t, m[1])'
  BY <1>3, <1>6, <1>14, SourceKept
<1> HIDE DEF N
<1>16. pos' = s[Len(open')] + Off(ChunksOf(m[Len(open')], e), N[Len(open')])
  BY <1>2, <1>3, <1>5, <1>9, <1>13 DEF EndsWell
<1> QED BY <1>3, <1>5, <1>6, <1>12, <1>15, <1>16, TagFollows

(* No step of the decoder leaves what was written.                         *)
LEMMA DecodeFollows ==
    ASSUME Sound, Follow, Decode
    PROVE  Follow'
<1>1. Same
  BY DEF Decode, EndOfInput, CloseMsg, ReadElement, CloseSequence, DecodeBool, DecodeLong,
         DecodeDouble, DecodeStr, DecodeSeqStr, DecodeMsg, OpenSequence, DecodeOther, Insert, Throw
<1>2. CASE ~(round = 2 \/ sent # None)
  BY <1>1, <1>2 DEF Same, Follow
<1>3. CASE round = 2 \/ sent # None
  <2>1. PICK S, e, t, m, s, n : Follows(S, e, t, m, s, n)
    BY <1>3 DEF Follow
  <2> DEFINE w == e[m[1]]
             c == m[Len(open)]
             b == s[Len(open)]
             k == n[Len(open)]
  <2>2. TopFollows(S, e, t, w, c, b, k) /\ Here(e, t, w, c, b, k)
    BY <2>1, TopFollowsIs, RootIs
  <2>3. ASSUME Threw(w) \/ Stopped(w) PROVE Follow'
    <3>1. Follows(S, e, t, m, s, n)'
      BY <2>1, <2>3, StopsFollow
    <3> QED BY <3>1 DEF Follow
  <2>4. ASSUME Took(e, t, c, b, k) PROVE Follow'
    BY <2>1, <2>4, TakesFollow
  <2>5. ASSUME Entered(S, e, t, w, c, b, k) PROVE Follow'
    BY <2>1, <2>5, EntersFollow
  <2>6. ASSUME Began(e, t, w, c, b, k) PROVE Follow'
    <3>1. Follows(S, e, t, m, s, n)'
      BY <2>1, <2>6, BeginsFollow
    <3> QED BY <3>1 DEF Follow
  <2>7. ASSUME Finished, at = "tag" PROVE Follow'
    <3>1. Follows(S, e, t, m, s, n)'
      BY <2>1, <2>7, FinishFollows
    <3> QED BY <3>1 DEF Follow
  <2> HIDE DEF w, c, b, k
  <2>8. CASE EndOfInput
    <3>1. Stopped(w) \/ Finished
      BY <2>2, <2>8, EndFollows
    <3>2. at = "tag"
      BY <2>8 DEF EndOfInput
    <3> QED BY <2>3, <2>7, <3>1, <3>2
  <2>9. CASE CloseMsg
    BY <2>1, <2>9, ClosesFollow
  <2>10. CASE ReadElement
    BY <2>2, <2>3, <2>6, <2>10, ElementFollows
  <2>11. CASE CloseSequence
    BY <2>2, <2>4, <2>11, SequenceEnds
  <2>12. ASSUME NEW g \in At(pos), DecodeBool(g) PROVE Follow'
    BY <2>2, <2>3, <2>4, <2>12, BoolFollows
  <2>13. ASSUME NEW g \in At(pos), DecodeLong(g) PROVE Follow'
    BY <2>2, <2>3, <2>4, <2>13, LongFollows
  <2>14. ASSUME NEW g \in At(pos), DecodeDouble(g) PROVE Follow'
    BY <2>2, <2>3, <2>4, <2>14, DoubleFollows
  <2>15. ASSUME NEW g \in At(pos), DecodeStr(g) PROVE Follow'
    BY <2>2, <2>3, <2>4, <2>15, StrFollows
  <2>16. ASSUME NEW g \in At(pos), DecodeSeqStr(g) PROVE Follow'
    BY <2>2, <2>3, <2>4, <2>16, SeqStrFollows
  <2>17. ASSUME NEW g \in At(pos), DecodeMsg(g) PROVE Follow'
    BY <2>2, <2>3, <2>4, <2>5, <2>17, MsgFollows
  <2>18. ASSUME NEW g \in At(pos), OpenSequence(g) PROVE Follow'
    BY <2>2, <2>3, <2>6, <2>18, SequenceFollows
  <2>19. ASSUME NEW g \in At(pos), DecodeOther(g) PROVE Follow'
    BY <2>2, <2>19, OtherIsNever
  <2> QED BY <2>8, <2>9, <2>10, <2>11, <2>12, <2>13, <2>14, <2>15, <2>16, <2>17, <2>18, <2>19 DEF Decode
<1> QED BY <1>2, <1>3

(* The decode of a message that was encoded starts.                        *)
EncodedStart ==
  \E root, values :
    /\ root \in DOMAIN Dico /\ AtStart(root) /\ IsMessage(root, values) /\ sent = values
    /\ limit \in Nat /\ limit <= Len(Encode(root, values))
    /\ buffer = SubSeq(Encode(root, values), 1, limit)
    /\ round = 2 => limit = Len(Encode(root, values))

LEMMA StartFollows == EncodedStart => Follow
<1> SUFFICES ASSUME EncodedStart PROVE Follow
  OBVIOUS
<1> DEFINE From(root, values) ==
            /\ AtStart(root) /\ IsMessage(root, values) /\ sent = values
            /\ limit \in Nat /\ limit <= Len(Encode(root, values))
            /\ buffer = SubSeq(Encode(root, values), 1, limit)
            /\ round = 2 => limit = Len(Encode(root, values))
<1>0. PICK root \in DOMAIN Dico : \E values : From(root, values)
  BY DEF EncodedStart
<1>1. PICK values : From(root, values)
  BY <1>0
<1>2. PICK S, e, t : /\ Codec(S, e, t) /\ <<root, values>> \in S
                     /\ Encode(root, values) = e[<<root, values>>]
                     /\ Trimmed(root, values) = t[<<root, values>>]
  BY <1>1, CodecIs
<1> DEFINE p == <<root, values>>
           m == [x \in {1} |-> p]
           z == [x \in {1} |-> 0]
<1>3. m[1] = p /\ z[1] = 0 /\ p[1] = root /\ p \in S /\ p = <<root, values>>
  BY <1>2
<1>4. /\ Len(open) = 1 /\ open[1].id = root /\ open[1].values = NoValues /\ pos = 0 /\ at = "tag"
  BY <1>1 DEF AtStart
<1>5. Source(S, e, t, p)
  <2>1. Root = root
    BY <1>4 DEF Root
  <2>2. Codec(S, e, t) /\ p \in S /\ p = <<Root, sent>> /\ t[p] = Trimmed(Root, sent)
    BY <1>1, <1>2, <2>1
  <2>3. /\ limit <= Len(e[p]) /\ buffer = SubSeq(e[p], 1, limit)
        /\ round = 2 => limit = Len(e[p])
    BY <1>1, <1>2
  <2> QED BY <2>2, <2>3 DEF Source
<1> HIDE DEF p, m, z
<1>6. e[p] \in Seq(Int) /\ Len(ChunksOf(p, e)) \in Nat /\ Off(ChunksOf(p, e), 0) = 0
      /\ Part(p, 0, e, t) = NoValues
  BY <1>2, <1>3, CodecHas, ChunkCount, NoPart
<1>7. Lies(e[p], 0, e[p])
  BY <1>6 DEF Lies
<1>8. FrameIs(S, e, t, e[p], open[1], p, 0, 0)
  BY <1>3, <1>4, <1>6, <1>7 DEF FrameIs
<1>9. Opened(open, S, e, t, e[m[1]], m, z, z)
  <2>1. 1 .. Len(open) = {1} /\ 2 .. Len(open) = {}
    BY <1>4
  <2> QED BY <1>3, <1>8, <2>1 DEF Opened
<1>10. Here(e, t, e[m[1]], m[Len(open)], z[Len(open)], z[Len(open)])
  <2>1. pos = z[Len(open)] + Off(ChunksOf(m[Len(open)], e), z[Len(open)])
    <3>1. m[1] = p /\ z[1] = 0 /\ Len(open) = 1 /\ pos = 0
      BY <1>3, <1>4
    <3>2. Off(ChunksOf(p, e), 0) = 0
      BY <1>6
    <3>3. Off(ChunksOf(m[1], e), z[1]) = 0
      BY <3>1, <3>2
    <3> QED BY <3>1, <3>3
  <2>2. at = "tag"
    BY <1>4
  <2> QED BY <2>1, <2>2 DEF Here
<1>11. Follows(S, e, t, m, z, z)
  BY <1>3, <1>5, <1>9, <1>10 DEF Follows
<1> QED BY <1>11 DEF Follow

LEMMA StartFollowsNext == EncodedStart' => Follow'
BY StartFollows, PTL

LEMMA InitFollows == Init => Follow
<1> SUFFICES ASSUME Init PROVE Follow
  OBVIOUS
<1>1. CASE sent = None /\ round = 1
  BY <1>1 DEF Follow
<1>2. ASSUME NEW root \in DOMAIN Sent, NEW m \in Sent[root], NEW n \in 0 .. Len(Encode(root, m)),
             buffer = SubSeq(Encode(root, m), 1, n), limit = n, sent = m, Start(root), round = 1
      PROVE  Follow
  <2>1. root \in DOMAIN Dico /\ IsMessage(root, m)
    BY WireAssumption
  <2>2. AtStart(root)
    BY <1>2 DEF Start, Frame, AtStart
  <2>3. Encode(root, m) \in Seq(Int)
    BY <2>1, EncodeIsTokens
  <2>4. n \in Nat /\ n <= Len(Encode(root, m))
    <3>1. Len(Encode(root, m)) \in Nat
      BY <2>3
    <3> QED BY <3>1
  <2>5. EncodedStart
    BY <1>2, <2>1, <2>2, <2>4 DEF EncodedStart
  <2> QED BY <2>5, StartFollows
<1> QED BY <1>1, <1>2 DEF Init

(* The second round decodes what was encoded, all of it.                   *)
LEMMA AgainFollows ==
    ASSUME Sound, Again
    PROVE  Follow'
<1>1. IsMessage(Root, Values)
  BY DecodedIsMessage DEF Again
<1>2. PICK root, values : root = Root /\ values = Values
  OBVIOUS
<1>3. /\ root \in DOMAIN Dico /\ IsMessage(root, values)
  BY <1>1, <1>2 DEF IsMessage
<1>4. Encode(root, values) \in Seq(Int)
  BY <1>3, EncodeIsTokens
<1>5. buffer' = Encode(root, values) /\ limit' = Len(Encode(root, values)) /\ sent' = values
      /\ AtStart(root)'
  BY <1>2 DEF Again, AtStart
<1>6. /\ limit' \in Nat /\ limit' <= Len(Encode(root, values))
      /\ buffer' = SubSeq(Encode(root, values), 1, limit')
  <2>1. ASSUME NEW x \in Seq(Int) PROVE Len(x) \in Nat /\ SubSeq(x, 1, Len(x)) = x
    OBVIOUS
  <2> QED BY <1>4, <1>5, <2>1
<1>7. EncodedStart'
  BY <1>3, <1>5, <1>6 DEF EncodedStart
<1> QED BY <1>7, StartFollowsNext

LEMMA StutterFollows ==
    ASSUME Follow, UNCHANGED vars
    PROVE  Follow'
<1>1. /\ open' = open /\ pos' = pos /\ at' = at /\ todo' = todo /\ limit' = limit /\ Same
      /\ round' = round /\ sent' = sent
  BY DEF vars, Same
<1>2. CASE ~(round = 2 \/ sent # None)
  BY <1>1, <1>2 DEF Follow
<1>3. CASE round = 2 \/ sent # None
  <2>1. PICK S, e, t, m, s, n : Follows(S, e, t, m, s, n)
    BY <1>3 DEF Follow
  <2>2. Source(S, e, t, m[1])'
    BY <1>1, <2>1, SourceKept, RootIs DEF Root
  <2>3. Opened(open', S, e, t, e[m[1]], m, s, n) /\ s[1] = 0
    BY <1>1, <2>1, RootIs
  <2>4. Here(e, t, e[m[1]], m[Len(open)], s[Len(open)], n[Len(open)])
    BY <2>1, RootIs
  <2>5. Here(e, t, e[m[1]], m[Len(open)], s[Len(open)], n[Len(open)])'
    BY <1>1, <2>4 DEF Here, Nested
  <2>6. Follows(S, e, t, m, s, n)'
    BY <2>2, <2>3, <2>5 DEF Follows
  <2> QED BY <2>6 DEF Follow
<1> QED BY <1>2, <1>3

LEMMA StepsFollow == Sound /\ Follow /\ [Next]_vars => Follow'
BY DecodeFollows, AgainFollows, StutterFollows DEF Next

LEMMA AlwaysFollows == Spec => [](Sound /\ Follow)
<1>1. Init => Sound /\ Follow
  BY InitIsSound, InitFollows
<1>2. (Sound /\ Follow) /\ [Next]_vars => (Sound /\ Follow)'
  BY StepsAreSound, StepsFollow
<1> QED BY <1>1, <1>2, PTL DEF Spec

LEMMA OneIsOpen ==
    ASSUME Sound, ~Nested
    PROVE  Len(open) = 1
<1>1. Len(open) \in Nat /\ Len(open) >= 1
  BY SomeAreOpen DEF Sound, IInv
<1>2. ~(Len(open) > 1)
  BY DEF Nested
<1> DEFINE x == Len(open)
<1>3. x \in Nat /\ x >= 1 /\ ~(x > 1)
  BY <1>1, <1>2
<1> HIDE DEF x
<1>4. x = 1
  BY <1>3
<1> QED BY <1>4 DEF x

(* At the end of the whole buffer all chunks were read.                    *)
LEMMA FollowsIsStable ==
    ASSUME Sound, Follow
    PROVE  Stable
<1> SUFFICES ASSUME round = 2
             PROVE  at # "threw" /\ (at = "done" => Values = Trimmed(Root, sent) /\ pos = limit)
  BY DEF Stable
<1>1. PICK S, e, t, m, s, n : Follows(S, e, t, m, s, n)
  BY DEF Follow
<1> DEFINE w == e[m[1]]
           c == m[Len(open)]
           b == s[Len(open)]
           k == n[Len(open)]
<1>2. TopFollows(S, e, t, w, c, b, k) /\ Here(e, t, w, c, b, k)
  BY <1>1, TopFollowsIs, RootIs
<1>3. Source(S, e, t, m[1]) /\ limit = Len(w)
  BY <1>1, RootIs DEF Source
<1>4. Len(open) \in Nat /\ Len(open) >= 1 /\ limit \in Nat
  BY <1>2 DEF TopFollows
<1>5. at # "threw"
  BY <1>2, <1>3, <1>4 DEF Here
<1>6. ASSUME at = "done" PROVE Values = Trimmed(Root, sent) /\ pos = limit
  <2>1. /\ ~Nested /\ pos = limit /\ pos = b + Off(ChunksOf(c, e), k) /\ b = 0 /\ e[c] = w
    BY <1>2, <1>6 DEF Here, TopFollows
  <2>2. Len(open) = 1
    <3>1. ~Nested
      BY <2>1
    <3> QED BY <3>1, OneIsOpen
  <2>3. /\ Codec(S, e, t) /\ c \in S /\ k \in Nat /\ k <= Len(ChunksOf(c, e))
        /\ Top.values = Part(c, k, e, t)
    BY <1>2 DEF TopFollows, FrameIs
  <2>4. c = m[1] /\ Top.values = Values
    BY <2>2 DEF Top, Values
  <2> HIDE DEF w, c, b, k
  <2>5. Len(ChunksOf(c, e)) \in Nat
    BY <2>3, ChunkCount
  <2>6. ASSUME k < Len(ChunksOf(c, e)) PROVE FALSE
    <3>1. Off(ChunksOf(c, e), k) < Len(e[c]) /\ Off(ChunksOf(c, e), k) \in Nat
      BY <2>3, <2>6, ChunkAt
    <3>2. pos = Len(e[c])
      BY <1>3, <2>1
    <3>3. b = 0 /\ pos = b + Off(ChunksOf(c, e), k)
      BY <2>1
    <3> QED BY <3>1, <3>2, <3>3
  <2>7. k = Len(ChunksOf(c, e))
    BY <2>3, <2>5, <2>6
  <2>8. Part(c, k, e, t) = t[c]
    BY <2>3, <2>7, WholePart
  <2>9. t[c] = Trimmed(Root, sent)
    BY <1>3, <2>4 DEF Source
  <2> QED BY <2>1, <2>3, <2>4, <2>8, <2>9
<1> QED BY <1>5, <1>6

(* At the end of a part of it some first chunks were.                      *)
LEMMA FollowsIsCutOff ==
    ASSUME Sound, Follow
    PROVE  CutOff
<1> SUFFICES ASSUME at = "done", sent # None, NEW i \in DOMAIN Values
             PROVE  LET whole == Trimmed(Root, sent) IN
                    /\ i \in DOMAIN whole
                    /\ IF Dico[Root][i] \in {SEQ_STRING, SEQ_MESSAGE}
                       THEN Values[i] = SubSeq(whole[i], 1, Len(Values[i]))
                       ELSE Values[i] = whole[i]
  BY DEF CutOff
<1>1. PICK S, e, t, m, s, n : Follows(S, e, t, m, s, n)
  BY DEF Follow
<1> DEFINE c == m[1]
           k == n[1]
<1>2. /\ TopFollows(S, e, t, e[m[1]], m[Len(open)], s[Len(open)], n[Len(open)])
      /\ Here(e, t, e[m[1]], m[Len(open)], s[Len(open)], n[Len(open)])
      /\ Source(S, e, t, m[1])
  BY <1>1, TopFollowsIs, RootIs
<1>3. Len(open) = 1
  <2>1. ~Nested
    BY <1>2 DEF Here
  <2> QED BY <2>1, OneIsOpen
<1>4. /\ Codec(S, e, t) /\ c \in S /\ k \in Nat /\ Values = Part(c, k, e, t)
  BY <1>2, <1>3 DEF TopFollows, FrameIs, Top, Values
<1>5. c = <<Root, sent>> /\ t[c] = Trimmed(Root, sent)
  BY <1>2 DEF Source
<1>6. c[1] = Root
  BY <1>5
<1> HIDE DEF c, k
<1> DEFINE u == t[c]
           M == Many(c)
           q == ItemChunks(c[1], c[2], e)
<1>7. Chunked(u, M, q)
  BY <1>4, MessageChunked
<1>8. Values = Taken(u, M, q, k)
  BY <1>4 DEF Part
<1>9. DOMAIN u = Lasting(c)
  BY <1>4, LastingIs
<1>10. i \in DOMAIN u => (i \in M <=> Dico[Root][i] \in {SEQ_STRING, SEQ_MESSAGE})
  BY <1>6, <1>9 DEF Lasting, Many
<1>11. u = Trimmed(Root, sent)
  BY <1>5
<1> HIDE DEF u, M, q
<1>12. /\ i \in DOMAIN u
       /\ i \notin M => Values[i] = u[i]
       /\ i \in M => Values[i] = SubSeq(u[i], 1, Len(Values[i]))
  BY <1>4, <1>7, <1>8, TakenIs
<1> QED BY <1>10, <1>11, <1>12

(* Whatever buffer was accepted: what it gave is encoded to a buffer that  *)
(* the decoder accepts and reads to its end, and that gives the same       *)
(* message but for the sequences without elements.                         *)
THEOREM DecodedIsStable == Spec => []Stable
BY AlwaysFollows, FollowsIsStable, PTL

(* A message that was encoded and cut off anywhere is refused, or gives    *)
(* items of it, each complete but for the last elements of a sequence of   *)
(* strings or of messages (Decode.cpp:690-728).                            *)
THEOREM CutOffGivesItems == Spec => []CutOff
BY AlwaysFollows, FollowsIsCutOff, PTL
=============================================================================
