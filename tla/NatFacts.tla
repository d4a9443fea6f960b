------------------------------ MODULE NatFacts ------------------------------
(* What the proofs need of the naturals: least elements, induction, the      *)
(* existence of recursive functions, remainders.  Everything is stated of    *)
(* sets and functions, which the provers can instantiate, where the          *)
(* library's theorems are about operators.                                   *)
EXTENDS Integers, WellFoundedInduction, TLAPS

(* Every nonempty set of naturals has a least element.                      *)
LEMMA LeastNatural ==
  ASSUME NEW S, S \subseteq Nat, S # {}
  PROVE  \E x \in S : \A y \in S : x <= y
  <1> DEFINE Less == OpToRel(<, Nat)
  <1>1. IsWellFoundedOn(Less, Nat)
    BY NatLessThanWellFounded
  <1>2. \A x, y \in Nat : << y, x >> \in Less <=> y < x
    BY DEF OpToRel
  <1> HIDE DEF Less
  <1>3. PICK x \in S : \A y \in S : << y, x >> \notin Less
    <2>1. \E x \in S : \A y \in S : ~(<< y, x >> \in Less)
      BY <1>1, WFMin
    <2> QED
      BY <2>1
  <1>4. \A y \in S : x <= y
    <2> TAKE y \in S
    <2>1. x \in Nat /\ y \in Nat /\ ~(y < x)
      BY <1>2, <1>3
    <2> QED
      BY <2>1
  <1> QED
    BY <1>4

(* Induction over a set of naturals, from below.                            *)
LEMMA Induction ==
  ASSUME NEW S, 0 \in S, \A n \in Nat : n \in S => n + 1 \in S
  PROVE  Nat \subseteq S
  <1> SUFFICES ASSUME Nat \ S # {} PROVE FALSE
    OBVIOUS
  <1>1. PICK n \in Nat \ S : \A m \in Nat \ S : n <= m
    BY LeastNatural
  <1>2. n - 1 \in Nat /\ n - 1 \in S
    BY <1>1
  <1> QED
    BY <1>2

(* Induction from all smaller numbers.                                      *)
LEMMA StrongInduction ==
  ASSUME NEW S, \A n \in Nat : (\A m \in Nat : m < n => m \in S) => n \in S
  PROVE  Nat \subseteq S
  <1> SUFFICES ASSUME Nat \ S # {} PROVE FALSE
    OBVIOUS
  <1>1. PICK n \in Nat \ S : \A m \in Nat \ S : n <= m
    BY LeastNatural
  <1>2. \A m \in Nat : m < n => m \in S
    BY <1>1
  <1> QED
    BY <1>1, <1>2

-----------------------------------------------------------------------------
\* What a recursive definition gives: values on base, and elsewhere a step from
\* the value at a smaller number.
Descends(V, base, value, below, step) ==
    /\ value \in [Nat -> V] /\ below \in [Nat -> Nat] /\ step \in [Nat \X V -> V]
    /\ \A n \in Nat \ base : below[n] < n

Solves(f, base, value, below, step) ==
    \A n \in Nat : f[n] = IF n \in base THEN value[n] ELSE step[<< n, f[below[n]] >>]

(* Such a definition has a solution with values in V.                       *)
LEMMA RecursionExists ==
  ASSUME NEW V, NEW base, NEW value, NEW below, NEW step,
         Descends(V, base, value, below, step)
  PROVE  \E f \in [Nat -> V] : Solves(f, base, value, below, step)
  <1> USE DEF Descends
  <1> DEFINE At(g, n) == IF n \in base THEN value[n] ELSE step[<< n, g[below[n]] >>]
             To(n) == {g \in [0 .. n -> V] : \A m \in 0 .. n : g[m] = At(g, m)}
  <1>1. \A n \in Nat : To(n) # {}
    <2> DEFINE S == {n \in Nat : To(n) # {}}
    <2>1. 0 \in S
      <3>1. 0 \in base
        OBVIOUS
      <3> DEFINE g == [m \in 0 .. 0 |-> value[m]]
      <3>2. g \in [0 .. 0 -> V] /\ \A m \in 0 .. 0 : m = 0 /\ g[m] = value[m]
        OBVIOUS
      <3>3. g \in To(0)
        BY <3>1, <3>2
      <3> QED
        BY <3>3
    <2>2. ASSUME NEW n \in Nat, n \in S PROVE n + 1 \in S
      <3>1. PICK g : g \in To(n)
        BY <2>2
      <3>2. g \in [0 .. n -> V] /\ \A m \in 0 .. n : g[m] = At(g, m)
        BY <3>1
      <3>3. n + 1 \notin base => below[n + 1] \in 0 .. n
        OBVIOUS
      <3>4. At(g, n + 1) \in V
        <4>1. CASE n + 1 \in base
          BY <4>1
        <4>2. CASE n + 1 \notin base
          <5>1. g[below[n + 1]] \in V /\ n + 1 \in Nat
            BY <3>2, <3>3, <4>2
          <5>2. step[<< n + 1, g[below[n + 1]] >>] \in V
            BY <5>1
          <5> QED
            BY <4>2, <5>2
        <4> QED
          BY <4>1, <4>2
      <3>5. PICK last \in V : last = At(g, n + 1)
        BY <3>4
      <3> DEFINE h == [m \in 0 .. n + 1 |-> IF m = n + 1 THEN last ELSE g[m]]
      <3>6. h \in [0 .. n + 1 -> V] /\ h[n + 1] = last /\ \A m \in 0 .. n : h[m] = g[m]
        BY <3>2
      <3> HIDE DEF h
      <3>7. ASSUME NEW m \in 0 .. n + 1 PROVE h[m] = At(h, m)
        <4>1. CASE m \in 0 .. n
          <5>1. m \notin base => below[m] \in 0 .. n
            BY <4>1
          <5> QED
            BY <3>2, <3>6, <4>1, <5>1
        <4>2. CASE m = n + 1
          BY <3>3, <3>5, <3>6, <4>2
        <4> QED
          BY <4>1, <4>2
      <3>8. h \in To(n + 1)
        BY <3>6, <3>7
      <3> HIDE DEF To
      <3> QED
        BY <3>8
    <2> HIDE DEF S
    <2>3. Nat \subseteq S
      BY <2>1, <2>2, Induction
    <2> QED
      BY <2>3 DEF S
  <1>2. ASSUME NEW n \in Nat, NEW k \in Nat, NEW g \in To(n), NEW h \in To(k),
               NEW i \in 0 .. n, i <= k
        PROVE  g[i] = h[i]
    <2> DEFINE D == {m \in 0 .. n : m <= k /\ g[m] # h[m]}
    <2> SUFFICES ASSUME D # {} PROVE FALSE
      BY <1>2
    <2>1. D \subseteq Nat
      OBVIOUS
    <2> HIDE DEF D
    <2>2. PICK m \in D : \A l \in D : m <= l
      BY <2>1, LeastNatural
    <2>3. m \in 0 .. n /\ m \in 0 .. k /\ g[m] # h[m]
      BY <2>2 DEF D
    <2>4. g[m] = At(g, m) /\ h[m] = At(h, m)
      BY <2>3
    <2>5. ASSUME m \notin base PROVE g[below[m]] = h[below[m]]
      <3>1. below[m] \in 0 .. n /\ below[m] <= k /\ ~(m <= below[m])
        BY <2>3, <2>5
      <3>2. below[m] \notin D
        BY <2>2, <3>1
      <3> QED
        BY <3>1, <3>2 DEF D
    <2> QED
      BY <2>3, <2>4, <2>5
  <1>3. PICK G : \A n \in Nat : G[n] \in To(n)
    <2> DEFINE F == [n \in Nat |-> CHOOSE g \in To(n) : TRUE]
    <2>1. \A n \in Nat : F[n] \in To(n)
      BY <1>1
    <2> QED
      BY <2>1
  <1>4. \A n \in Nat : G[n] \in [0 .. n -> V] /\ \A m \in 0 .. n : G[n][m] = At(G[n], m)
    BY <1>3
  <1> DEFINE f == [n \in Nat |-> G[n][n]]
  <1>5. f \in [Nat -> V]
    BY <1>4
  <1>6. ASSUME NEW n \in Nat PROVE f[n] = At(f, n)
    <2>1. f[n] = At(G[n], n)
      <3>1. n \in 0 .. n /\ f[n] = G[n][n]
        OBVIOUS
      <3> HIDE DEF f
      <3>2. G[n][n] = At(G[n], n)
        BY <1>4, <3>1
      <3> QED
        BY <3>1, <3>2
    <2>2. ASSUME n \notin base PROVE f[below[n]] = G[n][below[n]]
      <3>1. below[n] \in Nat /\ below[n] \in 0 .. n /\ below[n] \in 0 .. below[n]
        BY <2>2
      <3>2. G[below[n]] \in To(below[n]) /\ G[n] \in To(n)
        BY <1>3, <3>1
      <3> HIDE DEF To
      <3>3. G[below[n]][below[n]] = G[n][below[n]]
        BY <1>2, <3>1, <3>2
      <3> QED
        BY <3>1, <3>3
    <2> QED
      BY <2>1, <2>2
  <1> WITNESS f \in [Nat -> V]
  <1> QED
    BY <1>6 DEF Solves

-----------------------------------------------------------------------------
(* Quotient and remainder are unique.                                       *)
LEMMA RemainderUnique ==
  ASSUME NEW M \in Nat \ {0}, NEW p \in Int, NEW q \in Int,
         NEW r \in 0 .. M - 1, NEW s \in 0 .. M - 1, M * p + r = M * q + s
  PROVE  r = s
  <1>1. ASSUME NEW x \in Int, NEW y \in Int, x > y PROVE M * x >= M * y + M
    <2> DEFINE z == x - y - 1
    <2>1. z \in Nat /\ x = y + 1 + z
      BY <1>1
    <2> HIDE DEF z
    <2>2. M * z \in Nat
      BY <2>1
    <2>3. M * x = M * y + M + M * z
      BY <2>1
    <2> QED
      BY <2>1, <2>2, <2>3
  <1>2. M * p \in Int /\ M * q \in Int
    OBVIOUS
  <1>3. ~(p > q) /\ ~(q > p)
    <2>1. p > q => M * p >= M * q + M
      BY <1>1
    <2>2. q > p => M * q >= M * p + M
      BY <1>1
    <2> QED
      BY <1>2, <2>1, <2>2
  <1> QED
    BY <1>2, <1>3

(* A number is its quotient and its remainder.                              *)
LEMMA Remainder ==
  ASSUME NEW M \in Nat \ {0}, NEW a \in Nat
  PROVE  /\ a % M \in 0 .. M - 1 /\ a \div M \in Int
         /\ a = M * (a \div M) + (a % M)
  BY SMTT(20)

Congruent(a, b, M) == a % M = b % M

(* Addresses that meet, meet again the same distance further on or back.    *)
LEMMA RemainderShift ==
  ASSUME NEW M \in Nat \ {0}, NEW a \in Nat, NEW b \in Nat, Congruent(a, b, M),
         NEW c \in Nat, NEW d \in Nat, c - a = d - b
  PROVE  Congruent(c, d, M)
  <1> USE DEF Congruent
  <1>1. PICK p \in Int, q \in Int, r \in 0 .. M - 1 : a = M * p + r /\ b = M * q + r
    BY Remainder
  <1>2. PICK p1 \in Int, r1 \in 0 .. M - 1 : c = M * p1 + r1 /\ r1 = c % M
    BY Remainder
  <1>3. PICK q1 \in Int, s1 \in 0 .. M - 1 : d = M * q1 + s1 /\ s1 = d % M
    BY Remainder
  <1>4. M * (p1 - p) + r1 = M * (q1 - q) + s1
    <2>1. /\ M * (p1 - p) = M * p1 - M * p /\ M * (q1 - q) = M * q1 - M * q
          /\ M * p1 \in Int /\ M * q1 \in Int /\ M * p \in Int /\ M * q \in Int
      OBVIOUS
    <2>2. /\ M * p = a - r /\ M * p1 = c - r1
          /\ M * q = b - r /\ M * q1 = d - s1
      BY <1>1, <1>2, <1>3, <2>1
    <2> QED
      BY <2>1, <2>2
  <1>5. r1 = s1
    BY <1>4, RemainderUnique
  <1> QED
    BY <1>2, <1>3, <1>5

(* One turn more does not change a remainder.                               *)
LEMMA RemainderPeriod ==
  ASSUME NEW M \in Nat \ {0}, NEW a \in Nat
  PROVE  (a + M) % M = a % M
  <1>1. PICK p \in Int, r \in 0 .. M - 1 : a = M * p + r /\ r = a % M
    BY Remainder
  <1>2. PICK q \in Int, s \in 0 .. M - 1 : a + M = M * q + s /\ s = (a + M) % M
    <2>1. a + M \in Nat
      OBVIOUS
    <2> QED
      BY <2>1, Remainder
  <1>3. p + 1 \in Int /\ M * (p + 1) + r = M * q + s
    <2>1. M * (p + 1) = M * p + M /\ M * p \in Int /\ M * q \in Int
      OBVIOUS
    <2> QED
      BY <1>1, <1>2, <2>1
  <1>4. r = s
    BY <1>3, RemainderUnique
  <1> QED
    BY <1>1, <1>2, <1>4
=============================================================================
