------------------------------ MODULE ListsProofs ------------------------------
(***************************************************************************)
(* What Kept returns, for every list and every set, and the induction it   *)
(* takes.  The library states induction for an operator P(_), which the    *)
(* provers here cannot instantiate; for a set T it follows from the fact,  *)
(* stated there without an operator, that < is well founded on Nat.        *)
(***************************************************************************)
EXTENDS Lists, Integers, WellFoundedInduction, TLAPS

LEMMA LeastNumber ==
    ASSUME NEW T \in SUBSET Nat, T # {}
    PROVE  \E x \in T : \A y \in T : x <= y
<1> DEFINE R == OpToRel(<, Nat)
<1>1. IsWellFoundedOn(R, Nat)
  BY NatLessThanWellFounded
<1>2. \A x, y \in Nat : x < y => <<x, y>> \in R
  BY DEF OpToRel
<1> HIDE DEF R
<1>3. PICK x \in T : \A y \in T : ~(<<y, x>> \in R)
  BY <1>1, WFMin
<1>4. ASSUME NEW y \in T PROVE x <= y
  <2>1. x \in Nat /\ y \in Nat
    OBVIOUS
  <2>2. ~(y < x)
    BY <1>2, <1>3, <2>1
  <2>3. QED
    BY <2>1, <2>2
<1>5. QED
  BY <1>4

LEMMA NumbersByInduction ==
    ASSUME NEW T, 0 \in T, \A n \in Nat : n \in T => n + 1 \in T
    PROVE  Nat \subseteq T
<1> SUFFICES ASSUME NEW z \in Nat \ T PROVE FALSE
  OBVIOUS
<1> DEFINE U == Nat \ T
<1>1. PICK x \in U : \A y \in U : x <= y
  BY LeastNumber
<1>2. x # 0 /\ x - 1 \in Nat
  BY <1>1
<1>3. x - 1 \in T
  BY <1>1, <1>2
<1>4. QED
  BY <1>1, <1>2, <1>3

\* The same up to a bound.
LEMMA IntervalByInduction ==
    ASSUME NEW L \in Nat, NEW T, 0 \in T,
           \A n \in 1..L : n - 1 \in T => n \in T
    PROVE  0..L \subseteq T
<1> DEFINE V == {n \in Nat : n <= L => n \in T}
<1>1. 0 \in V
  OBVIOUS
<1>2. ASSUME NEW n \in Nat, n \in V PROVE n + 1 \in V
  <2>1. CASE n + 1 <= L
    <3>1. n + 1 \in 1..L /\ (n + 1) - 1 = n /\ n <= L
      BY <2>1
    <3>2. n \in T
      BY <1>2, <3>1
    <3>3. n + 1 \in T
      BY <3>1, <3>2
    <3>4. QED
      BY <3>3
  <2>2. CASE ~(n + 1 <= L)
    BY <2>2
  <2>3. QED
    BY <2>1, <2>2
<1>3. Nat \subseteq V
  <2> HIDE DEF V
  <2>1. QED
    BY <1>1, <1>2, NumbersByInduction
<1>4. QED
  BY <1>3

\* Primitive recursion over an interval, the step given as a function.
IsRecursion(g, L, Y, y0, N) ==
    /\ g \in [0..L -> Y]
    /\ g[0] = y0
    /\ \A n \in 1..L : g[n] = N[<<n, g[n - 1]>>]

LEMMA RecursionExists ==
    ASSUME NEW L \in Nat, NEW Y, NEW y0 \in Y, NEW N \in [(1..L) \X Y -> Y]
    PROVE  \E g : IsRecursion(g, L, Y, y0, N)
<1> DEFINE Upto(g, k) == /\ g \in [0..k -> Y]
                         /\ g[0] = y0
                         /\ \A n \in 1..k : g[n] = N[<<n, g[n - 1]>>]
           T == {k \in 0..L : \E g : Upto(g, k)}
<1>1. 0 \in T
  <2> DEFINE g == [n \in 0..0 |-> y0]
  <2>1. Upto(g, 0)
    OBVIOUS
  <2> HIDE DEF Upto
  <2>2. QED
    BY <2>1
<1>2. ASSUME NEW k \in 1..L, k - 1 \in T PROVE k \in T
  <2>1. PICK g : Upto(g, k - 1)
    <3> HIDE DEF Upto
    <3>1. QED
      BY <1>2
  <2>2. g[k - 1] \in Y
    BY <2>1
  <2> DEFINE v == N[<<k, g[k - 1]>>]
             h == [n \in 0..k |-> IF n = k THEN v ELSE g[n]]
  <2>3. v \in Y
    BY <2>2
  <2>4. /\ h \in [0..k -> Y] /\ h[0] = y0 /\ h[k] = v
        /\ \A n \in 0..(k-1) : h[n] = g[n]
    <3> HIDE DEF v
    <3>1. QED
      BY <2>1, <2>3
  <2>5. ASSUME NEW n \in 1..k PROVE h[n] = N[<<n, h[n - 1]>>]
    <3> HIDE DEF h
    <3>1. CASE n = k
      <4>1. h[k - 1] = g[k - 1]
        BY <2>4
      <4>2. QED
        BY <2>4, <3>1, <4>1
    <3>2. CASE n \in 1..(k-1)
      <4>1. h[n] = g[n] /\ h[n - 1] = g[n - 1]
        BY <2>4, <3>2
      <4>2. g[n] = N[<<n, g[n - 1]>>]
        BY <2>1, <3>2
      <4>3. QED
        BY <4>1, <4>2
    <3>3. QED
      BY <3>1, <3>2
  <2>6. Upto(h, k)
    <3> HIDE DEF h
    <3>1. QED
      BY <2>4, <2>5
  <2>7. QED
    <3> HIDE DEF h, Upto
    <3>1. QED
      BY <2>6
<1>3. 0..L \subseteq T
  <2> HIDE DEF T
  <2>1. QED
    BY <1>1, <1>2, IntervalByInduction
<1>4. L \in 0..L
  OBVIOUS
<1>5. PICK g : Upto(g, L)
  <2> HIDE DEF Upto
  <2>1. QED
    BY <1>3, <1>4
<1>6. IsRecursion(g, L, Y, y0, N)
  BY <1>5 DEF IsRecursion
<1>7. QED
  BY <1>6

------------------------------------------------------------------------------

\* Kept goes along its list: the equation its definition stands for.
IsKept(g, s, S, X) ==
    /\ g \in [0..Len(s) -> Seq(X \cap S)]
    /\ Kept(s, S) = g[Len(s)]
    /\ g[0] = <<>>
    /\ \A n \in 1..Len(s) :
          g[n] = IF s[n] \in S THEN Append(g[n - 1], s[n]) ELSE g[n - 1]

LEMMA KeptFunction ==
    ASSUME NEW X, NEW s \in Seq(X), NEW S
    PROVE  \E g : IsKept(g, s, S, X)
<1> DEFINE Y == Seq(X \cap S)
           L == Len(s)
           N == [p \in (1..L) \X Y |-> IF s[p[1]] \in S THEN Append(p[2], s[p[1]]) ELSE p[2]]
           f == CHOOSE g : g = [n \in 0..L |-> IF n = 0 THEN <<>>
                                  ELSE IF s[n] \in S THEN Append(g[n - 1], s[n]) ELSE g[n - 1]]
<1>1. Kept(s, S) = f[L]
  BY DEF Kept
<1>2. L \in Nat /\ \A n \in 1..L : s[n] \in X
  OBVIOUS
<1> HIDE DEF L
<1>3. N \in [(1..L) \X Y -> Y] /\ <<>> \in Y
  BY <1>2
<1>4. \A n \in 1..L, y \in Y : N[<<n, y>>] = IF s[n] \in S THEN Append(y, s[n]) ELSE y
  OBVIOUS
<1> HIDE DEF N
<1>5. PICK g0 \in [0..L -> Y] : g0[0] = <<>> /\ \A n \in 1..L : g0[n] = N[<<n, g0[n - 1]>>]
  <2>1. L \in Nat
    BY <1>2
  <2>2. N \in [(1..L) \X Y -> Y]
    BY <1>3
  <2>3. <<>> \in Y
    BY <1>3
  <2> HIDE DEF Y, f
  <2>4. \E g : IsRecursion(g, L, Y, <<>>, N)
    BY <2>1, <2>2, <2>3, RecursionExists
  <2>5. QED
    BY <2>4 DEF IsRecursion
<1>6. \A n \in 0..L : g0[n] = IF n = 0 THEN <<>>
                        ELSE IF s[n] \in S THEN Append(g0[n - 1], s[n]) ELSE g0[n - 1]
  <2>1. ASSUME NEW n \in 1..L
        PROVE  g0[n] = IF s[n] \in S THEN Append(g0[n - 1], s[n]) ELSE g0[n - 1]
    <3>1. g0[n - 1] \in Y
      BY <1>2
    <3>2. QED
      BY <1>4, <1>5, <3>1
  <2>2. \A n \in 0..L : n = 0 \/ n \in 1..L
    BY <1>2
  <2>3. QED
    BY <1>5, <2>1, <2>2
<1>7. g0 = [n \in 0..L |-> IF n = 0 THEN <<>>
                           ELSE IF s[n] \in S THEN Append(g0[n - 1], s[n]) ELSE g0[n - 1]]
  BY <1>6
<1>8. f = [n \in 0..L |-> IF n = 0 THEN <<>>
                          ELSE IF s[n] \in S THEN Append(f[n - 1], s[n]) ELSE f[n - 1]]
  BY <1>7
<1> HIDE DEF f
<1>9. /\ f[0] = <<>>
      /\ \A n \in 1..L : f[n] = IF s[n] \in S THEN Append(f[n - 1], s[n]) ELSE f[n - 1]
  <2>1. 0 \in 0..L /\ \A n \in 1..L : n \in 0..L /\ n # 0
    BY <1>2
  <2>2. \A n \in 0..L : f[n] = IF n = 0 THEN <<>>
                               ELSE IF s[n] \in S THEN Append(f[n - 1], s[n]) ELSE f[n - 1]
    BY <1>8
  <2>3. QED
    BY <2>1, <2>2
<1>10. f \in [0..L -> Y]
  <2> DEFINE T == {n \in 0..L : f[n] \in Y}
  <2>1. 0 \in T
    <3>1. f[0] \in Y /\ 0 \in 0..L
      BY <1>2, <1>3, <1>9
    <3> HIDE DEF Y
    <3>2. QED
      BY <3>1
  <2>2. ASSUME NEW n \in 1..L, n - 1 \in T PROVE n \in T
    <3>1. f[n - 1] \in Y /\ s[n] \in X /\ n \in 0..L
      BY <1>2, <2>2
    <3>2. f[n] = IF s[n] \in S THEN Append(f[n - 1], s[n]) ELSE f[n - 1]
      BY <1>9
    <3>3. f[n] \in Y
      BY <3>1, <3>2
    <3> HIDE DEF Y
    <3>4. QED
      BY <3>1, <3>3
  <2>3. 0..L \subseteq T
    <3> HIDE DEF T
    <3>1. QED
      BY <1>2, <2>1, <2>2, IntervalByInduction
  <2>4. f = [n \in 0..L |-> f[n]]
    BY <1>8
  <2> HIDE DEF Y
  <2>5. QED
    BY <2>3, <2>4
<1>11. IsKept(f, s, S, X)
  BY <1>1, <1>9, <1>10 DEF L, IsKept
<1>12. QED
  BY <1>11

LEMMA KeptType ==
    ASSUME NEW X, NEW s \in Seq(X), NEW S
    PROVE  Kept(s, S) \in Seq(X \cap S)
<1>1. Len(s) \in 0..Len(s)
  OBVIOUS
<1>2. PICK g : IsKept(g, s, S, X)
  BY KeptFunction
<1>3. QED
  BY <1>1, <1>2 DEF IsKept

LEMMA KeptEmpty ==
    ASSUME NEW S
    PROVE  Kept(<<>>, S) = <<>>
<1> DEFINE s == <<>>
           X == {}
<1>1. s \in Seq(X) /\ Len(s) = 0
  OBVIOUS
<1> HIDE DEF s, X
<1>2. PICK g : IsKept(g, s, S, X)
  BY <1>1, KeptFunction
<1>3. QED
  BY <1>1, <1>2 DEF s, IsKept

\* The places in s that k was taken from: they rise, so none is before its own.
IsSpread(f, k, s, n) ==
    /\ f \in [1..Len(k) -> 1..n]
    /\ \A i \in 1..Len(k) : k[i] = s[f[i]] /\ i <= f[i]
    /\ \A i, j \in 1..Len(k) : i < j => f[i] < f[j]

\* What is kept is in its order and moves only towards the front.
LEMMA KeptInOrder ==
    ASSUME NEW X, NEW s \in Seq(X), NEW S
    PROVE  \E f : IsSpread(f, Kept(s, S), s, Len(s))
<1>1. PICK g : IsKept(g, s, S, X)
  BY KeptFunction
<1> DEFINE L == Len(s)
           T == {n \in 0..L : \E f : IsSpread(f, g[n], s, n)}
<1>2. /\ L \in Nat /\ \A n \in 1..L : s[n] \in X
      /\ \A n \in 0..L : g[n] \in Seq(X \cap S)
  <2>1. L \in Nat /\ \A n \in 1..L : s[n] \in X
    OBVIOUS
  <2>2. g \in [0..L -> Seq(X \cap S)]
    BY <1>1 DEF IsKept
  <2> HIDE DEF L, T
  <2>3. QED
    BY <2>1, <2>2
<1>3. \A n \in 1..L : g[n] = IF s[n] \in S THEN Append(g[n - 1], s[n]) ELSE g[n - 1]
  BY <1>1 DEF IsKept
<1>4. 0 \in T
  <2> DEFINE f == [i \in 1..0 |-> 0]
  <2>1. g[0] = <<>> /\ 0 \in 0..L
    BY <1>1, <1>2 DEF IsKept
  <2>2. IsSpread(f, g[0], s, 0)
    BY <2>1 DEF IsSpread
  <2> HIDE DEF f, L
  <2>3. QED
    BY <2>1, <2>2
<1>5. ASSUME NEW n \in 1..L, n - 1 \in T PROVE n \in T
  <2>1. n - 1 \in 0..L /\ n \in 0..L /\ n \in Nat
    BY <1>2
  <2>2. PICK f : IsSpread(f, g[n - 1], s, n - 1)
    BY <1>5
  <2> DEFINE k == g[n - 1]
             m == Len(k)
  <2>3. k \in Seq(X \cap S) /\ m \in Nat
    BY <1>2, <2>1
  <2>4. /\ f \in [1..m -> 1..(n - 1)]
        /\ \A i \in 1..m : k[i] = s[f[i]] /\ i <= f[i]
        /\ \A i, j \in 1..m : i < j => f[i] < f[j]
    BY <2>2 DEF IsSpread
  <2>5. CASE s[n] \notin S
    <3>1. IsSpread(f, k, s, n)
      <4> HIDE DEF k
      <4>1. f \in [1..m -> 1..n]
        BY <2>1, <2>3, <2>4
      <4>2. QED
        BY <2>4, <4>1 DEF IsSpread
    <3>2. g[n] = k
      BY <1>3, <2>5
    <3> HIDE DEF L
    <3>3. QED
      BY <2>1, <3>1, <3>2
  <2>6. CASE s[n] \in S
    <3> DEFINE h == [i \in 1..(m + 1) |-> IF i = m + 1 THEN n ELSE f[i]]
               e == Append(k, s[n])
    <3>1. g[n] = e /\ s[n] \in X \cap S
      BY <1>2, <1>3, <2>6
    <3> HIDE DEF k
    <3>2. Len(e) = m + 1 /\ e[m + 1] = s[n] /\ \A i \in 1..m : e[i] = k[i]
      BY <2>3, <3>1
    <3>3. m + 1 <= n
      <4>1. CASE m = 0
        BY <2>1, <4>1
      <4>2. CASE m > 0
        <5>1. m \in 1..m
          BY <2>3, <4>2
        <5>2. m <= f[m] /\ f[m] \in 1..(n - 1)
          BY <2>4, <5>1
        <5>3. QED
          BY <2>1, <2>3, <5>2
      <4>3. QED
        BY <2>3, <4>1, <4>2
    <3> HIDE DEF e, m
    <3>4. h[m + 1] = n /\ \A i \in 1..m : h[i] = f[i] /\ h[i] \in 1..(n - 1)
      BY <2>3, <2>4
    <3>5. \A i \in 1..(m + 1) : i = m + 1 \/ i \in 1..m
      BY <2>3
    <3>6. h \in [1..(m + 1) -> 1..n]
      <4>1. h = [i \in 1..(m + 1) |-> h[i]]
        OBVIOUS
      <4> HIDE DEF h
      <4>2. \A i \in 1..(m + 1) : h[i] \in 1..n
        BY <2>1, <3>4, <3>5
      <4>3. QED
        BY <4>1, <4>2
    <3> HIDE DEF h
    <3>7. \A i \in 1..(m + 1) : e[i] = s[h[i]] /\ i <= h[i]
      BY <2>1, <2>3, <2>4, <3>2, <3>3, <3>4, <3>5
    <3>8. \A i, j \in 1..(m + 1) : i < j => h[i] < h[j]
      <4> SUFFICES ASSUME NEW i \in 1..(m + 1), NEW j \in 1..(m + 1), i < j
                   PROVE  h[i] < h[j]
        OBVIOUS
      <4>1. i \in 1..m
        BY <2>3, <3>5
      <4>2. QED
        BY <2>1, <2>3, <2>4, <3>4, <3>5, <4>1
    <3>9. IsSpread(h, e, s, n)
      BY <3>2, <3>6, <3>7, <3>8 DEF IsSpread
    <3>10. QED
      <4> HIDE DEF L
      <4>1. QED
        BY <2>1, <3>1, <3>9
  <2>7. QED
    BY <2>5, <2>6
<1>6. 0..L \subseteq T
  <2> HIDE DEF T
  <2>1. QED
    BY <1>2, <1>4, <1>5, IntervalByInduction
<1>7. L \in 0..L /\ Kept(s, S) = g[L]
  BY <1>1, <1>2 DEF IsKept
<1> HIDE DEF L
<1>8. QED
  BY <1>6, <1>7 DEF L

LEMMA KeptShorter ==
    ASSUME NEW X, NEW s \in Seq(X), NEW S
    PROVE  Len(Kept(s, S)) <= Len(s)
<1>1. PICK f : IsSpread(f, Kept(s, S), s, Len(s))
  BY KeptInOrder
<1> DEFINE m == Len(Kept(s, S))
<1>2. m \in Nat /\ Len(s) \in Nat
  BY KeptType
<1> HIDE DEF m
<1>3. CASE m > 0
  <2>1. m \in 1..m
    BY <1>2, <1>3
  <2>2. m <= f[m] /\ f[m] \in 1..Len(s)
    BY <1>1, <2>1 DEF IsSpread, m
  <2>3. QED
    BY <1>2, <2>2 DEF m
<1>4. QED
  BY <1>2, <1>3 DEF m
=============================================================================
