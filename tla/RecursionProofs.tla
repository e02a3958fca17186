-------------------------- MODULE RecursionProofs --------------------------
(***************************************************************************)
(* What the proofs about results and conditions need of functions that are *)
(* defined by recursion on a position in a sequence: that they exist, and  *)
(* what FlattenSeq returns.  Induction is an argument on the least         *)
(* position where a claim fails.                                           *)
(***************************************************************************)
EXTENDS Integers, SequencesExt, WellFoundedInduction, TLAPS

LEMMA LeastNumber ==
    ASSUME NEW S \in SUBSET Nat, S # {}
    PROVE  \E m \in S : \A k \in S : m <= k
<1> DEFINE R == OpToRel(<, Nat)
<1>1. IsWellFoundedOn(R, Nat)
  BY NatLessThanWellFounded
<1>2. \A x \in Nat, y \in Nat : x < y => <<x, y>> \in R
  BY DEF OpToRel
<1> HIDE DEF R
<1>3. PICK m \in S : \A k \in S : ~ (<<k, m>> \in R)
  BY <1>1, WFMin
<1>4. ASSUME NEW k \in S PROVE m <= k
  <2>1. m \in Nat /\ k \in Nat /\ ~(k < m)
    BY <1>2, <1>3
  <2> QED
    BY <2>1
<1> QED
  BY <1>4

\* What holds at 0 and goes on from each position to the next holds at all.
LEMMA ByPosition ==
    ASSUME NEW n \in Nat, NEW Q \in SUBSET (0 .. n), 0 \in Q,
           \A i \in 1 .. n : i - 1 \in Q => i \in Q
    PROVE  Q = 0 .. n
<1> DEFINE S == (0 .. n) \ Q
<1> SUFFICES ASSUME S # {} PROVE FALSE
  OBVIOUS
<1>1. PICK m \in S : \A k \in S : m <= k
  <2>1. S \in SUBSET Nat
    OBVIOUS
  <2> HIDE DEF S
  <2> QED
    BY <2>1, LeastNumber
<1>2. m \in 1 .. n /\ m - 1 \in 0 .. n /\ ~(m <= m - 1)
  OBVIOUS
<1>3. m - 1 \in Q
  BY <1>1, <1>2
<1> QED
  BY <1>1, <1>2, <1>3

\* Function g starts at base and takes each next value from the one before.
HasRecursion(n, T, base, step) ==
    \E g \in [0 .. n -> T] :
        g[0] = base /\ \A i \in 1 .. n : g[i] = step[g[i - 1]][i]

LEMMA RecursionExists ==
    ASSUME NEW n \in Nat, NEW T, NEW base \in T, NEW step \in [T -> [1 .. n -> T]]
    PROVE  HasRecursion(n, T, base, step)
<1> DEFINE Good(g, k) == g[0] = base /\ \A i \in 1 .. k : g[i] = step[g[i - 1]][i]
           Q == {k \in 0 .. n : \E g \in [0 .. n -> T] : Good(g, k)}
<1>1. 0 \in Q
  <2>1. [i \in 0 .. n |-> base] \in [0 .. n -> T] /\ 0 \in 0 .. n
    OBVIOUS
  <2>2. Good([i \in 0 .. n |-> base], 0)
    OBVIOUS
  <2> QED
    BY <2>1, <2>2
<1>2. ASSUME NEW k \in 1 .. n, k - 1 \in Q PROVE k \in Q
  <2>1. PICK g \in [0 .. n -> T] : Good(g, k - 1)
    BY <1>2
  <2> DEFINE x == step[g[k - 1]][k]
             h == [i \in 0 .. n |-> IF i = k THEN x ELSE g[i]]
  <2>2. x \in T
    <3>1. g[k - 1] \in T /\ k \in 1 .. n
      BY <2>1
    <3> QED
      BY <3>1
  <2>3. h \in [0 .. n -> T]
    BY <2>1, <2>2
  <2>4. \A i \in 0 .. n : h[i] = IF i = k THEN x ELSE g[i]
    OBVIOUS
  <2> HIDE DEF h
  <2>5. h[0] = base
    BY <2>1, <2>4
  <2>6. ASSUME NEW i \in 1 .. k PROVE h[i] = step[h[i - 1]][i]
    <3>1. i - 1 \in 0 .. n /\ i - 1 # k /\ i \in 0 .. n
      OBVIOUS
    <3>2. h[i - 1] = g[i - 1]
      BY <2>4, <3>1
    <3>3. CASE i = k
      BY <2>4, <3>1, <3>2, <3>3
    <3>4. CASE i # k
      <4>1. i \in 1 .. (k - 1)
        BY <3>4
      <4> QED
        BY <2>1, <2>4, <3>1, <3>2, <3>4, <4>1
    <3> QED
      BY <3>3, <3>4
  <2>7. Good(h, k) /\ k \in 0 .. n
    BY <2>5, <2>6
  <2> HIDE DEF Good
  <2> QED
    BY <2>3, <2>7
<1>3. Q \in SUBSET (0 .. n)
  OBVIOUS
<1> HIDE DEF Q
<1>4. Q = 0 .. n
  BY <1>1, <1>2, <1>3, ByPosition
<1>5. n \in Q
  BY <1>4
<1> QED
  BY <1>5 DEF Q, HasRecursion

LEMMA FunctionIsSeq ==
    ASSUME NEW S, NEW n \in Nat, NEW f \in [1 .. n -> S]
    PROVE  f \in Seq(S) /\ Len(f) = n
OBVIOUS

\* Sequence b behind sequence a, and their lengths l and m.
Behind(a, m, b, l) ==
    /\ Len(a \o b) = m + l
    /\ \A i \in 1 .. m : (a \o b)[i] = a[i]
    /\ \A i \in 1 .. l : (a \o b)[m + i] = b[i]

LEMMA ConcatParts ==
    ASSUME NEW S, NEW a \in Seq(S), NEW b \in Seq(S), NEW m \in Nat, NEW l \in Nat,
           Len(a) = m, Len(b) = l
    PROVE  a \o b \in Seq(S) /\ Behind(a, m, b, l)
<1>1. \A i \in 1 .. m + l : (a \o b)[i] = IF i <= m THEN a[i] ELSE b[i - m]
  OBVIOUS
<1>2. a \o b \in Seq(S) /\ Len(a \o b) = m + l
  OBVIOUS
<1>3. \A i \in 1 .. m : i \in 1 .. m + l /\ i <= m
  OBVIOUS
<1>4. \A i \in 1 .. l : m + i \in 1 .. m + l /\ ~(m + i <= m) /\ (m + i) - m = i
  OBVIOUS
<1>5. \A i \in 1 .. l : (a \o b)[m + i] = b[i]
  BY ONLY <1>1, <1>4
<1> QED
  BY ONLY <1>1, <1>2, <1>3, <1>5 DEF Behind

\* FlattenSeq puts the sequences behind one another.
LEMMA FlattenByParts ==
    ASSUME NEW S, NEW seqs \in Seq(Seq(S))
    PROVE  \E g \in [0 .. Len(seqs) -> Seq(S)] :
               /\ g[0] = <<>> /\ FlattenSeq(seqs) = g[Len(seqs)]
               /\ \A i \in 1 .. Len(seqs) : g[i] = g[i - 1] \o seqs[i]
<1> DEFINE n == Len(seqs)
           T == Seq(S)
           step == [x \in T |-> [i \in 1 .. n |-> x \o seqs[i]]]
           P(f) == f = [i \in 1 .. n |-> IF i = 1 THEN seqs[i] ELSE f[i - 1] \o seqs[i]]
<1>1. n \in Nat /\ \A i \in 1 .. n : seqs[i] \in T
  OBVIOUS
<1>2. step \in [T -> [1 .. n -> T]] /\ <<>> \in T
  BY <1>1
<1>3. PICK g \in [0 .. n -> T] :
          g[0] = <<>> /\ \A i \in 1 .. n : g[i] = step[g[i - 1]][i]
  <2> HIDE DEF step, T, n
  <2>1. HasRecursion(n, T, <<>>, step)
    BY <1>1, <1>2, RecursionExists
  <2> QED
    BY <2>1 DEF HasRecursion
<1>4. \A i \in 1 .. n : i - 1 \in 0 .. n /\ g[i - 1] \in T
  <2>1. \A i \in 1 .. n : i - 1 \in 0 .. n
    BY <1>1
  <2> HIDE DEF T, n
  <2> QED
    BY <1>3, <2>1
<1>5. \A i \in 1 .. n : g[i] = g[i - 1] \o seqs[i]
  BY <1>1, <1>3, <1>4
<1>6. n = 0 => FlattenSeq(seqs) = g[n]
  <2>1. n = 0 => seqs = <<>>
    OBVIOUS
  <2> QED
    BY <1>3, <2>1 DEF FlattenSeq
<1>7. ASSUME n # 0 PROVE FlattenSeq(seqs) = g[n]
  <2> DEFINE h == [i \in 1 .. n |-> g[i]]
  <2>1. P(h)
    <3>1. \A i \in 1 .. n : i # 1 => i - 1 \in 1 .. n
      BY <1>1
    <3>2. 1 \in 1 .. n => g[1] = seqs[1]
      <4> SUFFICES ASSUME 1 \in 1 .. n PROVE g[1] = seqs[1]
        OBVIOUS
      <4>1. g[1] = g[1 - 1] \o seqs[1] /\ 1 - 1 = 0 /\ seqs[1] \in Seq(S)
        <5>1. g[1] = g[1 - 1] \o seqs[1]
          BY <1>5
        <5> QED
          BY <1>1, <5>1
      <4>2. g[1] = <<>> \o seqs[1]
        BY <1>3, <4>1
      <4> QED
        BY <4>1, <4>2
    <3>3. \A i \in 1 .. n : h[i] = IF i = 1 THEN seqs[i] ELSE h[i - 1] \o seqs[i]
      BY <1>5, <3>1, <3>2
    <3> QED
      BY <3>3
  <2>2. FlattenSeq(seqs) = (CHOOSE f : P(f))[n]
    BY <1>7 DEF FlattenSeq
  <2> DEFINE c == CHOOSE f : P(f)
  <2>3. P(c)
    <3> HIDE DEF P, h
    <3> QED
      BY <2>1
  <2>4. \A i \in 1 .. n : c[i] = IF i = 1 THEN seqs[i] ELSE c[i - 1] \o seqs[i]
    BY <2>3
  <2> HIDE DEF c
  <2> DEFINE Q == {i \in 0 .. n : i = 0 \/ c[i] = g[i]}
  <2>5. ASSUME NEW i \in 1 .. n, i - 1 \in Q PROVE i \in Q
    <3>1. CASE i = 1
      <4>1. h[1] = g[1] /\ h[1] = seqs[1]
        BY <2>1, <3>1
      <4> QED
        BY <2>4, <3>1, <4>1
    <3>2. CASE i # 1
      <4>1. c[i - 1] = g[i - 1]
        BY <2>5, <3>2
      <4>2. g[i] = g[i - 1] \o seqs[i] /\ c[i] = c[i - 1] \o seqs[i]
        BY <1>5, <2>4, <3>2
      <4>3. i \in 0 .. n
        BY <1>1
      <4> QED
        BY <4>1, <4>2, <4>3
    <3> QED
      BY <3>1, <3>2
  <2>6. 0 \in Q /\ Q \in SUBSET (0 .. n)
    BY <1>1
  <2> HIDE DEF Q
  <2>7. Q = 0 .. n
    BY <1>1, <2>5, <2>6, ByPosition
  <2>8. n \in Q
    BY <1>1, <2>7
  <2> QED
    BY <1>7, <2>2, <2>8 DEF Q, c
<1> QED
  BY <1>3, <1>5, <1>6, <1>7

LEMMA FlattenSeqs ==
    ASSUME NEW S, NEW seqs \in Seq(Seq(S))
    PROVE  FlattenSeq(seqs) \in Seq(S)
<1>1. Len(seqs) \in 0 .. Len(seqs)
  OBVIOUS
<1>2. PICK g \in [0 .. Len(seqs) -> Seq(S)] : FlattenSeq(seqs) = g[Len(seqs)]
  BY FlattenByParts
<1> QED
  BY <1>1, <1>2
-----------------------------------------------------------------------------
(* Products and quotients, one fact at a time.                             *)

LEMMA ProductMonotonic ==
    ASSUME NEW a \in Nat, NEW b \in Nat, NEW l \in Nat, a <= b
    PROVE  a * l \in Nat /\ b * l \in Nat /\ a * l <= b * l
OBVIOUS

LEMMA ProductStep ==
    ASSUME NEW a \in Nat, NEW l \in Nat, a >= 1
    PROVE  a - 1 \in Nat /\ (a - 1) * l + l = a * l
OBVIOUS

LEMMA ExactQuotient ==
    ASSUME NEW r \in Nat, NEW d \in Nat, d >= 1
    PROVE  (r * d) \div d = r
<1> DEFINE x == r * d
           q == x \div d
           m == x % d
<1>1. x \in Nat
  OBVIOUS
<1> HIDE DEF x
<1>2. x = d * q + m /\ m \in 0 .. d - 1 /\ q \in Int
  BY <1>1
<1>3. CASE q >= r + 1
  OBVIOUS
<1>4. CASE q <= r - 1
  OBVIOUS
<1> QED
  BY <1>2, <1>3, <1>4 DEF q, x

\* Sequences of length l put behind one another: where each element goes.
FlatRows(seqs, l) ==
    /\ Len(FlattenSeq(seqs)) = Len(seqs) * l
    /\ \A r \in 1 .. Len(seqs) : \A i \in 1 .. l :
          FlattenSeq(seqs)[(r - 1) * l + i] = seqs[r][i]

LEMMA FlattenRows ==
    ASSUME NEW S, NEW seqs \in Seq(Seq(S)), NEW l \in Nat,
           \A r \in 1 .. Len(seqs) : Len(seqs[r]) = l
    PROVE  FlattenSeq(seqs) \in Seq(S) /\ FlatRows(seqs, l)
<1> DEFINE n == Len(seqs)
           Filled(s, k) ==
               /\ Len(s) = k * l
               /\ \A r \in 1 .. k : \A i \in 1 .. l : s[(r - 1) * l + i] = seqs[r][i]
<1>1. n \in Nat /\ \A r \in 1 .. n : seqs[r] \in Seq(S) /\ Len(seqs[r]) = l
  OBVIOUS
<1>2. PICK g \in [0 .. n -> Seq(S)] :
          /\ g[0] = <<>> /\ FlattenSeq(seqs) = g[n]
          /\ \A i \in 1 .. n : g[i] = g[i - 1] \o seqs[i]
  BY FlattenByParts
<1> DEFINE Q == {k \in 0 .. n : Filled(g[k], k)}
<1>3. 0 \in Q
  <2>1. Len(g[0]) = 0 * l /\ 0 \in 0 .. n
    BY <1>1, <1>2
  <2> QED
    BY <2>1
<1>4. ASSUME NEW k \in 1 .. n, k - 1 \in Q PROVE k \in Q
  <2>1. k \in 0 .. n /\ k - 1 \in 0 .. n /\ k \in Nat /\ k - 1 \in Nat /\ k >= 1
    BY <1>1
  <2>2. Filled(g[k - 1], k - 1)
    BY <1>4
  <2>3. g[k - 1] \in Seq(S) /\ seqs[k] \in Seq(S) /\ Len(seqs[k]) = l
    BY <1>1, <1>2, <2>1
  <2>4. g[k] = g[k - 1] \o seqs[k]
    BY <1>2
  <2>5. PICK m, a, b : m = (k - 1) * l /\ a = g[k - 1] /\ b = seqs[k]
    OBVIOUS
  <2>6. m \in Nat /\ m + l = k * l /\ Len(a) = m /\ a \in Seq(S) /\ b \in Seq(S) /\ Len(b) = l
    <3>1. m \in Nat
      BY <2>1, <2>5, ProductMonotonic
    <3>2. m + l = k * l
      BY <2>1, <2>5, ProductStep
    <3> QED
      BY <2>2, <2>3, <2>5, <3>1, <3>2
  <2>7. /\ Len(a \o b) = m + l
        /\ \A i \in 1 .. m : (a \o b)[i] = a[i]
        /\ \A i \in 1 .. l : (a \o b)[m + i] = b[i]
    <3>1. /\ m \in Nat /\ l \in Nat /\ Len(a) = m /\ Len(b) = l
          /\ a \in Seq(S) /\ b \in Seq(S)
      BY <2>6
    <3>2. Behind(a, m, b, l)
      BY ONLY <3>1, ConcatParts
    <3> QED
      BY ONLY <3>2 DEF Behind
  <2>8. ASSUME NEW r \in 1 .. k, NEW i \in 1 .. l
        PROVE  g[k][(r - 1) * l + i] = seqs[r][i]
    <3>1. CASE r = k
      BY <2>4, <2>5, <2>7, <3>1
    <3>2. CASE r # k
      <4>1. r \in 1 .. k - 1 /\ r \in Nat /\ r - 1 \in Nat /\ r >= 1 /\ r <= k - 1
        BY <2>1, <3>2
      <4>2. (r - 1) * l + l = r * l /\ r * l <= m /\ r * l \in Nat /\ (r - 1) * l \in Nat
        <5>1. (r - 1) * l + l = r * l
          BY <4>1, ProductStep
        <5>2. r * l <= (k - 1) * l /\ r * l \in Nat
          BY <2>1, <4>1, ProductMonotonic
        <5>3. (r - 1) * l \in Nat
          BY <4>1, ProductMonotonic
        <5> QED
          BY <2>5, <5>1, <5>2, <5>3
      <4>3. PICK x : x = (r - 1) * l
        OBVIOUS
      <4>4. x + i \in 1 .. m
        <5>1. x \in Nat /\ x + l <= m
          BY <4>2, <4>3
        <5> QED
          BY ONLY <2>6, <5>1
      <4>5. g[k][x + i] = g[k - 1][x + i]
        BY <2>4, <2>5, <2>7, <4>4
      <4>6. g[k - 1][x + i] = seqs[r][i]
        BY <2>2, <4>1, <4>3
      <4> QED
        BY <4>3, <4>5, <4>6
    <3> QED
      BY <3>1, <3>2
  <2>9. Len(g[k]) = k * l
    BY <2>4, <2>5, <2>6, <2>7
  <2> QED
    BY <2>1, <2>8, <2>9
<1>5. Q \in SUBSET (0 .. n)
  OBVIOUS
<1> HIDE DEF Q
<1>6. Q = 0 .. n
  BY <1>1, <1>3, <1>4, <1>5, ByPosition
<1>7. n \in Q /\ g[n] \in Seq(S)
  BY <1>1, <1>2, <1>6
<1> QED
  BY <1>2, <1>7 DEF Q, FlatRows
=============================================================================
