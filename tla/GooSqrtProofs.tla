--------------------------- MODULE GooSqrtProofs -----------------------------
(***************************************************************************)
(* goo_mpz_sqrtm and goo_mpz_sqrtpq (GooSqrt), for every pair of moduli    *)
(* that MaxSquarings bits hold: the roots returned are roots, and modulo   *)
(* the product of distinct odd primes one is found when there is one.      *)
(*                                                                         *)
(* The number theory stands on GooNumberProofs: Euler's criterion, that    *)
(* mpz_jacobi is the product of Legendre symbols, and what keeps the loop  *)
(* of Tonelli and Shanks going.  With p - 1 = 2^s * odd, g has order 2^k   *)
(* and b a smaller power of two; m, the order of b, is below k, and a turn *)
(* leaves g with order 2^m and b with less, so that `m >= k` never fails   *)
(* for a prime.  y^2 = x * b needs no prime at all.                        *)
(***************************************************************************)
EXTENDS GooNumberProofs, GooSqrt

------------------------------------------------------------------------------
(* Euler's criterion: pairing the residues k and l with k * l = a tells    *)
(* squares from the rest, with Wilson's theorem for a = 1.                 *)

Marked(S, a) == [k \in Nat |-> IF k \in S THEN a ELSE 1]

(* A product that is a on a set and 1 off it is a power of a.              *)
LEMMA MarkedPower ==
  ASSUME NEW n \in Nat, NEW X
  PROVE  \E z \in Nat : \A a \in Int : Product(Marked(X, a), n) = Power(a, z)
<1> DEFINE S == {l \in Nat : \E z \in Nat : \A a \in Int : Product(Marked(X, a), l) = Power(a, z)}
<1>0. \A a \in Int : \A l \in Nat : Integers(Marked(X, a), l)
  BY DEF Marked, Integers
<1>1. 0 \in S
  <2>1. \A a \in Int : Product(Marked(X, a), 0) = 1 /\ Power(a, 0) = 1
    <3>1. TAKE a \in Int
    <3>2. Product(Marked(X, a), 0) = 1
      BY <1>0, ProductIs
    <3>3. Power(a, 0) = 1
      BY PowerIs
    <3>4. QED
      BY <3>2, <3>3
  <2>2. QED
    BY <2>1
<1>2. ASSUME NEW l \in 0..(n - 1), l \in S PROVE l + 1 \in S
  <2>1. l \in Nat /\ l + 1 \in Nat /\ l + 1 > 0 /\ l + 1 \in 1..n /\ (l + 1) - 1 = l
    OBVIOUS
  <2>2. PICK z \in Nat : \A a \in Int : Product(Marked(X, a), l) = Power(a, z)
    BY <1>2
  <2>3. \A a \in Int : Product(Marked(X, a), l + 1) = Product(Marked(X, a), l) * Marked(X, a)[l + 1]
    BY <1>0, <2>1, ProductIs
  <2>4. \A a \in Int : Marked(X, a)[l + 1] = IF l + 1 \in X THEN a ELSE 1
    BY <2>1 DEF Marked
  <2>5. \A a \in Int : Power(a, z) \in Int /\ Power(a, z + 1) = Power(a, z) * a
    BY PowerIs
  <2>6. CASE l + 1 \in X
    <3>1. \A a \in Int : Product(Marked(X, a), l + 1) = Power(a, z + 1)
      BY <2>2, <2>3, <2>4, <2>5, <2>6
    <3>2. z + 1 \in Nat
      OBVIOUS
    <3>3. QED
      BY <2>1, <3>1, <3>2
  <2>7. CASE l + 1 \notin X
    <3>1. \A a \in Int : Product(Marked(X, a), l + 1) = Power(a, z)
      BY <2>2, <2>3, <2>4, <2>5, <2>7
    <3>2. QED
      BY <2>1, <3>1
  <2>8. QED
    BY <2>6, <2>7
<1> HIDE DEF S
<1>3. n \in S
  <2>1. \A l \in 0..n : l \in S
    BY <1>1, <1>2, UpTo
  <2>2. QED
    BY <2>1
<1>4. QED
  BY <1>3 DEF S

(* A power of 2 in the integers tells its exponent.                        *)
LEMMA PowerOfTwoGrows ==
  ASSUME NEW n \in Nat
  PROVE  Power(2, n) \in Int /\ Power(2, n) >= n + 1
<1> DEFINE S == {l \in Nat : Power(2, l) >= l + 1}
<1>1. 0 \in S
  <2>1. Power(2, 0) = 1
    BY PowerIs
  <2>2. QED
    BY <2>1
<1>2. ASSUME NEW l \in 0..(n - 1), l \in S PROVE l + 1 \in S
  <2>1. l \in Nat /\ l + 1 \in Nat /\ 2 \in Int
    OBVIOUS
  <2>2. Power(2, l) \in Int /\ Power(2, l + 1) = Power(2, l) * 2
    BY <2>1, PowerIs
  <2>3. QED
    BY <1>2, <2>1, <2>2
<1> HIDE DEF S
<1>3. n \in S
  <2>1. \A l \in 0..n : l \in S
    BY <1>1, <1>2, UpTo
  <2>2. QED
    BY <2>1
<1>4. Power(2, n) \in Int
  BY PowerIs
<1>5. QED
  BY <1>3, <1>4 DEF S

LEMMA PowerOfTwoOnce ==
  ASSUME NEW i \in Nat, NEW j \in Nat, Power(2, i) = Power(2, j)
  PROVE  i = j
<1>1. ASSUME NEW a \in Nat, NEW b \in Nat, a < b PROVE Power(2, a) # Power(2, b)
  <2>1. b - a \in Nat /\ b - a >= 1 /\ a + (b - a) = b /\ 2 \in Int
    BY <1>1
  <2>2. Power(2, b) = Power(2, a) * Power(2, b - a)
    BY <2>1, PowerSum
  <2>3. Power(2, a) \in Int /\ Power(2, a) >= 1
    BY PowerOfTwoGrows
  <2>4. Power(2, b - a) \in Int /\ Power(2, b - a) >= 2
    BY <2>1, PowerOfTwoGrows
  <2>5. \A x, y \in Int : x >= 1 /\ y >= 2 => x # x * y
    OBVIOUS
  <2>6. QED
    BY <2>2, <2>3, <2>4, <2>5
<1>2. i < j \/ j < i \/ i = j
  OBVIOUS
<1>3. QED
  BY <1>1, <1>2

Swaps(g, n) == g \in [1..n -> 1..n] /\ \A k \in 1..n : g[g[k]] = k

(* What is its own inverse permutes 1..n.                                  *)
LEMMA SwapsPermutes ==
  ASSUME NEW n \in Nat, NEW g, Swaps(g, n)
  PROVE  Permutes(g, n)
<1>1. g \in [1..n -> 1..n]
  BY DEF Swaps
<1>2. ASSUME NEW i \in 1..n, NEW j \in 1..n, g[i] = g[j] PROVE i = j
  BY <1>2 DEF Swaps
<1>3. ASSUME NEW j \in 1..n PROVE \E i \in 1..n : g[i] = j
  BY <1>1, <1>3 DEF Swaps
<1>4. QED
  BY <1>1, <1>2, <1>3 DEF Permutes

Fst(f, g) == [k \in DOMAIN g |-> IF k < g[k] THEN f[k] ELSE 1]
Snd(f, g) == [k \in DOMAIN g |-> IF g[k] < k THEN f[k] ELSE 1]
Fixed(f, g) == [k \in DOMAIN g |-> IF g[k] = k THEN f[k] ELSE 1]
Paired(f, g) == [k \in DOMAIN g |-> IF k < g[k] THEN f[k] * f[g[k]] ELSE 1]

LEMMA SndIs ==
  ASSUME NEW n \in Nat, NEW f, Integers(f, n), NEW g, Swaps(g, n)
  PROVE  /\ Integers(Fst(f, g), n) /\ Integers(Snd(f, g), n) /\ Integers(Fixed(f, g), n)
         /\ Product(Snd(f, g), n) = Product([k \in 1..n |-> IF k < g[k] THEN f[g[k]] ELSE 1], n)
<1>1. g \in [1..n -> 1..n] /\ (\A k \in 1..n : g[g[k]] = k) /\ \A k \in 1..n : f[k] \in Int
  BY DEF Swaps, Integers
<1>2. Integers(Fst(f, g), n) /\ Integers(Snd(f, g), n) /\ Integers(Fixed(f, g), n)
  BY <1>1 DEF Integers, Fst, Snd, Fixed
<1> DEFINE e == [k \in 1..n |-> IF k < g[k] THEN f[g[k]] ELSE 1]
           along == Along(Snd(f, g), g)
<1>3. Product(along, n) = Product(Snd(f, g), n)
  BY <1>2, SwapsPermutes, ProductPermuted
<1>4. \A k \in 1..n : along[k] = e[k]
  <2>1. TAKE k \in 1..n
  <2>2. g[k] \in 1..n /\ g[g[k]] = k
    BY <1>1
  <2>3. along[k] = Snd(f, g)[g[k]]
    BY <1>1 DEF Along
  <2>4. Snd(f, g)[g[k]] = IF g[g[k]] < g[k] THEN f[g[k]] ELSE 1
    BY <1>1, <2>2 DEF Snd
  <2>5. QED
    BY <2>2, <2>3, <2>4
<1> HIDE DEF e, along
<1>5. Product(along, n) = Product(e, n)
  BY <1>4, ProductSame
<1>6. QED
  BY <1>2, <1>3, <1>5 DEF e

(* A product by pairs: of the first of every pair and its partner.         *)
LEMMA PairedProduct ==
  ASSUME NEW n \in Nat, NEW f, Integers(f, n), NEW g, Swaps(g, n)
  PROVE  /\ Integers(Paired(f, g), n)
         /\ Product(f, n) = Product(Paired(f, g), n) * Product(Fixed(f, g), n)
<1>1. g \in [1..n -> 1..n] /\ \A k \in 1..n : g[k] \in 1..n /\ f[k] \in Int /\ f[g[k]] \in Int
  BY DEF Swaps, Integers
<1> DEFINE e == [k \in 1..n |-> IF k < g[k] THEN f[g[k]] ELSE 1]
           u == Fst(f, g)
           v == Snd(f, g)
           w == Fixed(f, g)
           both == Paired(f, g)
           r == [k \in 1..n |-> both[k] * w[k]]
<1>2. /\ \A k \in 1..n : u[k] \in Int /\ v[k] \in Int /\ w[k] \in Int /\ e[k] \in Int
      /\ Integers(u, n) /\ Integers(v, n) /\ Integers(w, n) /\ Product(v, n) = Product(e, n)
  <2>1. \A k \in 1..n : e[k] \in Int
    BY <1>1
  <2>2. Integers(u, n) /\ Integers(v, n) /\ Integers(w, n) /\ Product(v, n) = Product(e, n)
    BY SndIs
  <2>3. QED
    BY <2>1, <2>2 DEF Integers
<1>3. Integers(e, n)
  BY <1>2 DEF Integers
<1>4. \A k \in 1..n : both[k] = u[k] * e[k] /\ both[k] \in Int
  <2>1. TAKE k \in 1..n
  <2>2. k < g[k] => both[k] = f[k] * f[g[k]] /\ u[k] = f[k] /\ e[k] = f[g[k]]
    BY <1>1 DEF Paired, Fst
  <2>3. ~(k < g[k]) => both[k] = 1 /\ u[k] = 1 /\ e[k] = 1
    BY <1>1 DEF Paired, Fst
  <2>4. k < g[k] => both[k] = u[k] * e[k]
    BY <2>2
  <2>5. ~(k < g[k]) => both[k] = u[k] * e[k]
    BY <2>3
  <2>6. u[k] * e[k] \in Int
    BY <1>2
  <2>7. QED
    BY <2>4, <2>5, <2>6
<1>5. \A k \in 1..n : f[k] = (u[k] * v[k]) * w[k]
  <2>1. TAKE k \in 1..n
  <2>2. g[k] \in Int /\ k \in Int /\ f[k] \in Int
    BY <1>1
  <2>3. u[k] = (IF k < g[k] THEN f[k] ELSE 1) /\ v[k] = (IF g[k] < k THEN f[k] ELSE 1)
        /\ w[k] = (IF g[k] = k THEN f[k] ELSE 1)
    BY <1>1 DEF Fst, Snd, Fixed
  <2>4. CASE k < g[k]
    BY <2>2, <2>3, <2>4
  <2>5. CASE g[k] < k
    BY <2>2, <2>3, <2>5
  <2>6. CASE g[k] = k
    BY <2>2, <2>3, <2>6
  <2>7. QED
    BY <2>2, <2>4, <2>5, <2>6
<1> HIDE DEF e, u, v, w, both, r
<1> DEFINE d == [k \in 1..n |-> u[k] * v[k]]
<1>6. Integers(both, n) /\ Product(both, n) = Product(u, n) * Product(e, n)
  <2>1. Integers(both, n)
    BY <1>4 DEF Integers
  <2>2. \A k \in 1..n : both[k] = u[k] * e[k]
    BY <1>4
  <2>3. QED
    BY <1>2, <1>3, <2>1, <2>2, ProductTimes
<1>7. (\A k \in 1..n : d[k] = u[k] * v[k] /\ d[k] \in Int) /\ \A k \in 1..n : f[k] = d[k] * w[k]
  BY <1>2, <1>5
<1> HIDE DEF d
<1>8. Integers(d, n) /\ Product(d, n) = Product(u, n) * Product(v, n)
  <2>1. Integers(d, n)
    BY <1>7 DEF Integers
  <2>2. \A k \in 1..n : d[k] = u[k] * v[k]
    BY <1>7
  <2>3. QED
    BY <1>2, <2>1, <2>2, ProductTimes
<1>9. Product(f, n) = Product(d, n) * Product(w, n)
  <2>1. \A k \in 1..n : f[k] = d[k] * w[k]
    BY <1>7
  <2>2. QED
    BY <1>2, <1>8, <2>1, ProductTimes
<1>10. QED
  BY <1>2, <1>6, <1>8, <1>9 DEF both, w

LEMMA ResidueIs ==
  ASSUME NEW m \in Nat, m > 0, NEW k \in 1..(m - 1)
  PROVE  k \in Nat /\ k \in Int /\ ~Multiple(m, k)
<1>1. k \in Nat /\ k < m /\ k # 0
  OBVIOUS
<1>2. k % m = k
  BY <1>1, SmallResidue
<1>3. QED
  BY <1>1, <1>2, MultipleIs

(* Every residue k has one partner l with k * l = a.                       *)
LEMMA PartnerExists ==
  ASSUME NEW m \in Nat, IsPrimeNumber(m), NEW a \in Int, ~Multiple(m, a), NEW k \in 1..(m - 1)
  PROVE  \E l \in 1..(m - 1) : Same(k * l, a, m)
<1>1. m \in Nat /\ m > 1 /\ m > 0 /\ m \in Int
  BY PrimeIs
<1>2. k \in Int /\ Coprime(k, m)
  BY <1>1, ResidueIs, PrimeCoprime
<1>3. PICK b \in 0..(m - 1) : (k * b) % m = 1
  BY <1>1, <1>2, InverseExists
<1>4. b \in Int /\ k * b \in Int /\ a * b \in Int /\ 1 % m = 1
  BY <1>1, <1>2
<1>5. Same(k * b, 1, m)
  <2>1. (k * b) % m = 1 % m /\ 1 \in Int
    BY <1>3, <1>4
  <2>2. QED
    BY <1>1, <1>4, <2>1, SameIs
<1> DEFINE l == (a * b) % m
<1>6. Same(l, a * b, m) /\ l \in 0..(m - 1) /\ l \in Int
  <2>1. Same(l, a * b, m) /\ l \in 0..(m - 1)
    BY <1>1, <1>4, SameRemainder
  <2>2. QED
    BY <2>1
<1> HIDE DEF l
<1>7. Same(k * l, a, m)
  <2>1. Same(k, k, m) /\ Same(a, a, m)
    BY <1>1, <1>2, SameItself
  <2>2. Same(k * l, k * (a * b), m)
    BY <1>1, <1>2, <1>4, <1>6, <2>1, SameTimes
  <2>3. Same(a * (k * b), a * 1, m)
    BY <1>1, <1>2, <1>4, <1>5, <2>1, SameTimes
  <2>4. k * (a * b) = a * (k * b) /\ a * 1 = a /\ k * l \in Int /\ a * (k * b) \in Int
    BY <1>2, <1>4, <1>6
  <2>5. QED
    BY <1>1, <2>2, <2>3, <2>4, SameChain
<1>8. l # 0
  <2>1. SUFFICES ASSUME l = 0 PROVE FALSE
    OBVIOUS
  <2>2. Same(a, k * l, m) /\ k * l = 0
    BY <1>1, <1>2, <1>6, <1>7, <2>1, SameBack
  <2>3. a - 0 = a
    OBVIOUS
  <2>4. QED
    BY <2>2, <2>3 DEF Same
<1>9. l \in 1..(m - 1)
  BY <1>1, <1>6, <1>8
<1>10. QED
  BY <1>7, <1>9

LEMMA PartnerOnce ==
  ASSUME NEW m \in Nat, IsPrimeNumber(m), NEW a \in Int, NEW k \in 1..(m - 1),
         NEW i \in 1..(m - 1), NEW j \in 1..(m - 1), Same(k * i, a, m), Same(k * j, a, m)
  PROVE  i = j
<1>1. m \in Nat /\ m > 0 /\ m \in Int
  BY PrimeIs
<1>2. k \in Int /\ i \in Int /\ j \in Int /\ k * i \in Int /\ k * j \in Int /\ i - j \in Int
      /\ i \in 0..(m - 1) /\ j \in 0..(m - 1)
  OBVIOUS
<1>3. ~Multiple(m, k)
  BY <1>1, ResidueIs
<1>4. Same(k * i, k * j, m)
  BY <1>1, <1>2, SameBack, SameChain
<1>5. k * i - k * j = k * (i - j)
  BY <1>2
<1>6. Multiple(m, k * (i - j))
  BY <1>4, <1>5 DEF Same
<1>7. Multiple(m, i - j)
  BY <1>2, <1>3, <1>6, PrimeDivides
<1>8. Same(i, j, m)
  BY <1>7 DEF Same
<1>9. QED
  BY <1>1, <1>2, <1>8, SameResidue

LEMMA PartnersSwap ==
  ASSUME NEW m \in Nat, IsPrimeNumber(m), NEW a \in Int, ~Multiple(m, a)
  PROVE  \E g : Swaps(g, m - 1) /\ \A k \in 1..(m - 1) : Same(k * g[k], a, m)
<1> DEFINE g == [k \in 1..(m - 1) |-> CHOOSE l \in 1..(m - 1) : Same(k * l, a, m)]
<1>1. \A k \in 1..(m - 1) : g[k] \in 1..(m - 1) /\ Same(k * g[k], a, m)
  BY PartnerExists
<1>2. g \in [1..(m - 1) -> 1..(m - 1)]
  BY <1>1
<1> HIDE DEF g
<1>3. ASSUME NEW k \in 1..(m - 1) PROVE g[g[k]] = k
  <2>1. g[k] \in 1..(m - 1) /\ g[g[k]] \in 1..(m - 1)
    BY <1>1
  <2>2. Same(g[k] * g[g[k]], a, m)
    BY <1>1, <2>1
  <2>3. k * g[k] = g[k] * k
    BY <2>1
  <2>4. Same(g[k] * k, a, m)
    BY <1>1, <2>3
  <2>5. QED
    BY <2>1, <2>2, <2>4, PartnerOnce
<1>4. Swaps(g, m - 1)
  BY <1>2, <1>3 DEF Swaps
<1>5. QED
  BY <1>1, <1>4

(* Each pair multiplies to a.                                              *)
LEMMA PairsAre ==
  ASSUME NEW m \in Nat, IsPrimeNumber(m), NEW a \in Int, NEW g, Swaps(g, m - 1),
         \A k \in 1..(m - 1) : Same(k * g[k], a, m)
  PROVE  Same(Product(Paired(Identity, g), m - 1), Product(Marked({k \in 1..(m - 1) : k < g[k]}, a), m - 1), m)
<1> DEFINE X == {k \in 1..(m - 1) : k < g[k]}
           u == Paired(Identity, g)
           v == Marked(X, a)
<1>1. m \in Nat /\ m > 0 /\ m \in Int /\ m - 1 \in Nat
  BY PrimeIs
<1>2. g \in [1..(m - 1) -> 1..(m - 1)]
  BY DEF Swaps
<1>3. \A k \in 1..(m - 1) : /\ g[k] \in 1..(m - 1) /\ u[k] = IF k < g[k] THEN k * g[k] ELSE 1
                            /\ v[k] = IF k < g[k] THEN a ELSE 1
  BY <1>2 DEF Paired, Identity, Marked
<1> HIDE DEF u, v
<1>4. \A k \in 1..(m - 1) : u[k] \in Int /\ v[k] \in Int /\ Same(u[k], v[k], m)
  <2>1. TAKE k \in 1..(m - 1)
  <2>2. g[k] \in Int /\ k * g[k] \in Int
    BY <1>3
  <2>3. u[k] \in Int /\ v[k] \in Int
    BY <1>3, <2>2
  <2>4. CASE k < g[k]
    BY <1>3, <2>3, <2>4
  <2>5. CASE ~(k < g[k])
    <3>1. u[k] = 1 /\ v[k] = 1 /\ 1 \in Int
      BY <1>3, <2>5
    <3>2. QED
      BY <1>1, <2>3, <3>1, SameItself
  <2>6. QED
    BY <2>3, <2>4, <2>5
<1>5. Integers(u, m - 1) /\ Integers(v, m - 1)
  BY <1>4 DEF Integers
<1>6. Same(Product(u, m - 1), Product(v, m - 1), m)
  BY <1>1, <1>4, <1>5, ProductCongruent
<1>7. QED
  BY <1>6 DEF u, v

LEMMA ProductOfOnes ==
  ASSUME NEW n \in Nat, NEW f, \A k \in 1..n : f[k] = 1
  PROVE  Product(f, n) = 1
<1>1. \A k \in 1..n : f[k] = Constantly(1)[k]
  BY DEF Constantly
<1>2. Product(f, n) = Product(Constantly(1), n)
  BY <1>1, ProductSame
<1>3. QED
  BY <1>2, PowerOfOne DEF Power

(* Without fixed points half of the residues come before their partners.   *)
LEMMA HalfOfPairs ==
  ASSUME NEW h \in Nat, NEW m \in Nat, m = 2 * h + 1, NEW g, Swaps(g, m - 1),
         \A k \in 1..(m - 1) : g[k] # k, NEW a \in Int
  PROVE  Product(Marked({k \in 1..(m - 1) : k < g[k]}, a), m - 1) = Power(a, h)
<1> DEFINE X == {k \in 1..(m - 1) : k < g[k]}
           two == Constantly(2)
           u == Paired(two, g)
           v == Fixed(two, g)
           w == Marked(X, 4)
<1>1. m - 1 = 2 * h /\ m - 1 \in Nat /\ g \in [1..(m - 1) -> 1..(m - 1)]
  BY DEF Swaps
<1>2. PICK z \in Nat : \A b \in Int : Product(Marked(X, b), m - 1) = Power(b, z)
  <2> HIDE DEF X
  <2>1. QED
    BY <1>1, MarkedPower
<1>3. \A k \in 1..(m - 1) : v[k] = 1 /\ u[k] = w[k] /\ two[k] \in Int
  <2>1. TAKE k \in 1..(m - 1)
  <2>2. k \in DOMAIN g /\ k \in Nat /\ g[k] \in 1..(m - 1) /\ g[k] \in Nat /\ g[k] # k
    BY <1>1
  <2>3. two[k] = 2 /\ two[g[k]] = 2
    BY <2>2 DEF Constantly
  <2>4. v[k] = 1
    BY <2>2 DEF Fixed
  <2>5. u[k] = IF k < g[k] THEN two[k] * two[g[k]] ELSE 1
    BY <2>2 DEF Paired
  <2>6. w[k] = IF k < g[k] THEN 4 ELSE 1
    BY <2>2 DEF Marked
  <2>7. u[k] = w[k] /\ two[k] \in Int
    BY <2>3, <2>5, <2>6
  <2>8. QED
    BY <2>4, <2>7
<1>4. Integers(two, m - 1)
  BY <1>3 DEF Integers
<1>5. Product(two, m - 1) = Product(u, m - 1) * Product(v, m - 1)
  BY <1>1, <1>4, PairedProduct
<1>6. Product(w, m - 1) = Power(4, z)
  BY <1>2
<1> HIDE DEF X, u, v, w
<1>7. Product(v, m - 1) = 1 /\ Product(u, m - 1) = Product(w, m - 1)
  <2>1. Product(v, m - 1) = 1
    BY <1>1, <1>3, ProductOfOnes
  <2>2. Product(u, m - 1) = Product(w, m - 1)
    BY <1>1, <1>3, ProductSame
  <2>3. QED
    BY <2>1, <2>2
<1>8. Power(2, 2 * h) = Power(4, z)
  <2>1. Power(4, z) \in Int
    BY PowerIs
  <2>2. Product(two, m - 1) = Power(4, z)
    BY <1>5, <1>6, <1>7, <2>1
  <2>3. QED
    BY <1>1, <2>2 DEF Power
<1>9. Power(4, z) = Power(2, 2 * z)
  <2>1. Power(2, 0) = 1 /\ Power(2, 0 + 1) = Power(2, 0) * 2 /\ Power(2, 1 + 1) = Power(2, 1) * 2
    <3>1. 0 \in Nat /\ 1 \in Nat /\ 2 \in Int
      OBVIOUS
    <3>2. Power(2, 0) = 1
      BY <3>1, PowerIs
    <3>3. Power(2, 0 + 1) = Power(2, 0) * 2
      BY <3>1, PowerIs
    <3>4. Power(2, 1 + 1) = Power(2, 1) * 2
      BY <3>1, PowerIs
    <3>5. QED
      BY <3>2, <3>3, <3>4
  <2>2. Power(2, 2) = 4
    BY <2>1
  <2>3. Power(Power(2, 2), z) = Power(2, 2 * z)
    BY PowerOfPower
  <2>4. QED
    BY <2>2, <2>3
<1>10. 2 * h = 2 * z
  <2>1. 2 * h \in Nat /\ 2 * z \in Nat
    OBVIOUS
  <2>2. QED
    BY <1>8, <1>9, <2>1, PowerOfTwoOnce
<1>11. h = z
  BY <1>10
<1>12. QED
  BY <1>2, <1>11 DEF X

(* Wilson's theorem, (p - 1)! = -1 modulo p: 1 and p - 1 are their own     *)
(* partners, and the other residues make pairs with product 1.             *)
LEMMA Wilson ==
  ASSUME NEW m \in Nat, IsPrimeNumber(m), m > 2
  PROVE  Same(Product(Identity, m - 1), -1, m)
<1>1. m \in Nat /\ m > 0 /\ m \in Int /\ m - 1 \in Nat /\ m - 1 > 0 /\ m - 2 \in Nat /\ (m - 1) - 1 = m - 2
  OBVIOUS
<1>2. ~Multiple(m, 1)
  BY <1>1, ResidueIs
<1>3. PICK g : Swaps(g, m - 1) /\ \A k \in 1..(m - 1) : Same(k * g[k], 1, m)
  BY <1>2, PartnersSwap
<1> DEFINE X == {k \in 1..(m - 1) : k < g[k]}
           v == Fixed(Identity, g)
           u == Paired(Identity, g)
<1>4. g \in [1..(m - 1) -> 1..(m - 1)] /\ Integers(Identity, m - 1)
  BY <1>3 DEF Swaps, Integers, Identity
<1>5. ASSUME NEW k \in 1..(m - 2) PROVE v[k] = 1
  <2>1. k \in 1..(m - 1) /\ k \in 0..(m - 1) /\ k # m - 1
    OBVIOUS
  <2>2. g[k] = k => k = 1
    <3>1. g[k] = k => Same(k * k, 1, m)
      BY <1>3, <2>1
    <3>2. QED
      BY <1>1, <2>1, <3>1, RootOfOne
  <2>3. v[k] = IF g[k] = k THEN k ELSE 1
    BY <1>4, <2>1 DEF Fixed, Identity
  <2>4. QED
    BY <2>2, <2>3
<1>6. v[m - 1] = m - 1
  <2>1. m - 1 \in 1..(m - 1)
    BY <1>1
  <2>2. Same((m - 1) * (m - 1), 1, m)
    <3>1. (m - 1) * (m - 1) - 1 = (m - 2) * m /\ m - 2 \in Int
      BY <1>1
    <3>2. QED
      BY <3>1 DEF Same, Multiple
  <2>3. Same((m - 1) * g[m - 1], 1, m) /\ g[m - 1] \in 1..(m - 1) /\ 1 \in Int
    BY <1>3, <1>4, <2>1
  <2>4. g[m - 1] = m - 1
    BY <2>1, <2>2, <2>3, PartnerOnce
  <2>5. QED
    BY <1>4, <2>1, <2>4 DEF Fixed, Identity
<1> HIDE DEF v, u
<1>7. Integers(u, m - 1) /\ Integers(v, m - 1) /\ Product(Identity, m - 1) = Product(u, m - 1) * Product(v, m - 1)
  <2>1. Integers(u, m - 1) /\ Product(Identity, m - 1) = Product(u, m - 1) * Product(v, m - 1)
    BY <1>1, <1>3, <1>4, PairedProduct DEF u, v
  <2>2. Integers(v, m - 1)
    BY <1>1, <1>3, <1>4, SndIs DEF v
  <2>3. QED
    BY <2>1, <2>2
<1>8. Product(v, m - 1) = m - 1
  <2>1. Product(v, m - 2) = 1
    BY <1>1, <1>5, ProductOfOnes
  <2>2. Product(v, m - 1) = Product(v, (m - 1) - 1) * v[m - 1]
    BY <1>1, <1>7, ProductIs
  <2>3. QED
    BY <1>1, <1>6, <2>1, <2>2
<1>9. Same(Product(u, m - 1), 1, m)
  <2>1. Same(Product(u, m - 1), Product(Marked(X, 1), m - 1), m)
    BY <1>3, PairsAre DEF u
  <2>2. PICK z \in Nat : \A a \in Int : Product(Marked(X, a), m - 1) = Power(a, z)
    <3> HIDE DEF X
    <3>1. QED
      BY <1>1, MarkedPower
  <2>3. Product(Marked(X, 1), m - 1) = 1
    BY <2>2, PowerOfOne
  <2>4. QED
    BY <2>1, <2>3
<1>10. Product(u, m - 1) \in Int
  BY <1>1, <1>7, ProductIs
<1>11. Same(m - 1, -1, m)
  <2>1. (m - 1) - (-1) = 1 * m
    BY <1>1
  <2>2. QED
    BY <2>1 DEF Same, Multiple
<1>12. Same(Product(u, m - 1) * (m - 1), 1 * (-1), m)
  <2>1. m - 1 \in Int /\ -1 \in Int /\ 1 \in Int
    BY <1>1
  <2>2. QED
    BY <1>1, <1>9, <1>10, <1>11, <2>1, SameTimes
<1>13. QED
  BY <1>7, <1>8, <1>12

(* IsSquareMod in terms of congruence.                                     *)
LEMMA SquareIs ==
  ASSUME NEW m \in Nat, m > 0, NEW a \in Int
  PROVE  /\ \A w \in Int : Same(w * w, a, m) => IsSquareMod(a, m)
         /\ IsSquareMod(a, m) => \E w \in 0..(m - 1) : w \in Int /\ Same(w * w, a, m)
<1>1. ASSUME NEW w \in Int, Same(w * w, a, m) PROVE IsSquareMod(a, m)
  <2>1. m \in Int /\ w % m \in 0..(m - 1) /\ Same(w % m, w, m)
    BY SameRemainder
  <2> DEFINE r == w % m
  <2>2. r \in Int /\ r * r \in Int /\ w * w \in Int /\ r * r - a \in Int
    BY <2>1
  <2> HIDE DEF r
  <2>3. Same(r * r, w * w, m)
    BY <2>1, <2>2, SameTimes DEF r
  <2>4. Same(r * r, a, m)
    BY <1>1, <2>1, <2>2, <2>3, SameChain
  <2>5. (r * r - a) % m = 0
    BY <2>2, <2>4, MultipleIs DEF Same
  <2>6. QED
    BY <2>1, <2>5 DEF IsSquareMod, r
<1>2. ASSUME IsSquareMod(a, m) PROVE \E w \in 0..(m - 1) : w \in Int /\ Same(w * w, a, m)
  <2>1. PICK w \in 0..(m - 1) : (w * w - a) % m = 0
    BY <1>2 DEF IsSquareMod
  <2>2. w \in Int /\ w * w - a \in Int
    OBVIOUS
  <2>3. QED
    BY <2>1, <2>2, MultipleIs DEF Same
<1>3. QED
  BY <1>1, <1>2

(* Euler's criterion: a no multiple of an odd prime p is a square modulo p *)
(* exactly when a^((p - 1) / 2), the symbol of Gauss's lemma, is 1.        *)
LEMMA EulerCriterion ==
  ASSUME NEW h \in Nat, NEW m \in Nat, m = 2 * h + 1, IsPrimeNumber(m), NEW a \in Int, ~Multiple(m, a)
  PROVE  Gauss(a, h) = 1 <=> IsSquareMod(a, m)
<1>1. m \in Nat /\ m > 2 /\ m > 0 /\ m \in Int
  <2>1. m >= 2
    BY PrimeIs
  <2>2. QED
    BY <2>1
<1>2. ASSUME IsSquareMod(a, m) PROVE Gauss(a, h) = 1
  <2>1. PICK w \in Int : Same(w * w, a, m)
    BY <1>1, <1>2, SquareIs
  <2>2. w * w \in Int /\ ~Multiple(m, w)
    <3>1. Multiple(m, w) => Multiple(m, w * w)
      BY <1>1, MultipleTimes
    <3>2. Multiple(m, w * w) => Multiple(m, a)
      <4>1. w * w \in Int /\ w * w - (w * w - a) = a /\ w * w - a \in Int
        OBVIOUS
      <4>2. Multiple(m, w * w - a)
        BY <2>1 DEF Same
      <4>3. Multiple(m, w * w) => Multiple(m, w * w - (w * w - a))
        BY <1>1, <4>1, <4>2, MultipleSum
      <4>4. QED
        BY <4>1, <4>3
    <3>3. QED
      BY <3>1, <3>2
  <2>3. Coprime(w, m)
    BY <2>2, PrimeCoprime
  <2>4. Gauss(w * w, h) = Gauss(w, h) * Gauss(w, h) /\ Gauss(w, h) \in {1, -1}
    <3>1. Gauss(w * w, h) = Gauss(w, h) * Gauss(w, h)
      BY <2>3, GaussTimes
    <3>2. Gauss(w, h) \in {1, -1}
      BY <2>3, GaussIs
    <3>3. QED
      BY <3>1, <3>2
  <2>5. Gauss(w * w, h) = Gauss(a, h)
    BY <2>1, <2>2, GaussSame
  <2>6. QED
    BY <2>4, <2>5
<1>3. ASSUME ~IsSquareMod(a, m) PROVE Gauss(a, h) # 1
  <2>1. PICK g : Swaps(g, m - 1) /\ \A k \in 1..(m - 1) : Same(k * g[k], a, m)
    BY PartnersSwap
  <2>2. ASSUME NEW k \in 1..(m - 1), g[k] = k PROVE FALSE
    <3>1. k \in Int /\ Same(k * k, a, m)
      BY <2>1, <2>2
    <3>2. QED
      BY <1>1, <1>3, <3>1, SquareIs
  <2> DEFINE X == {k \in 1..(m - 1) : k < g[k]}
             u == Paired(Identity, g)
             v == Fixed(Identity, g)
             P == Product(Identity, m - 1)
  <2>3. Product(Marked(X, a), m - 1) = Power(a, h)
    BY <2>1, <2>2, HalfOfPairs
  <2>4. Same(Product(u, m - 1), Power(a, h), m)
    <3>1. Same(Product(u, m - 1), Product(Marked(X, a), m - 1), m)
      BY <2>1, PairsAre
    <3>2. QED
      BY <2>3, <3>1
  <2>5. g \in [1..(m - 1) -> 1..(m - 1)] /\ m - 1 \in Nat /\ Integers(Identity, m - 1)
    BY <1>1, <2>1 DEF Swaps, Integers, Identity
  <2>6. \A k \in 1..(m - 1) : v[k] = 1
    BY <2>2, <2>5 DEF Fixed
  <2>7. P = Product(u, m - 1) * Product(v, m - 1) /\ Product(u, m - 1) \in Int
    <3>1. Integers(u, m - 1) /\ P = Product(u, m - 1) * Product(v, m - 1)
      BY <2>1, <2>5, PairedProduct
    <3>2. Product(u, m - 1) \in Int
      BY <2>5, <3>1, ProductIs
    <3>3. QED
      BY <3>1, <3>2
  <2>8. Same(P, -1, m)
    BY <1>1, Wilson
  <2> HIDE DEF u, v, P, X
  <2>9. Product(v, m - 1) = 1
    BY <2>5, <2>6, ProductOfOnes
  <2>10. P = Product(u, m - 1) /\ P \in Int
    BY <2>7, <2>9
  <2>11. Same(Power(a, h), Gauss(a, h), m)
    BY GaussPower
  <2>12. SUFFICES ASSUME Gauss(a, h) = 1 PROVE FALSE
    OBVIOUS
  <2>13. Power(a, h) \in Int
    BY PowerIs
  <2>14. Same(P, 1, m)
    <3>1. Same(P, Power(a, h), m) /\ Same(Power(a, h), 1, m) /\ 1 \in Int
      BY <2>4, <2>10, <2>11, <2>12
    <3>2. QED
      BY <1>1, <2>10, <2>13, <3>1, SameChain
  <2>15. Same(1, P, m) /\ -1 \in Int /\ 1 \in Int
    BY <1>1, <2>10, <2>14, SameBack
  <2>16. Same(1, -1, m)
    BY <1>1, <2>8, <2>10, <2>15, SameChain
  <2>17. Multiple(m, 2)
    BY <2>16 DEF Same
  <2>18. 2 \in 1..(m - 1)
    BY <1>1
  <2>19. QED
    BY <1>1, <2>17, <2>18, ResidueIs
<1>4. QED
  BY <1>2, <1>3

------------------------------------------------------------------------------
(* The symbol of an odd modulus is the product over its prime factors.     *)

LEMMA CoprimeParts ==
  ASSUME NEW m1 \in Nat, m1 > 0, NEW m2 \in Nat, m2 > 0, NEW a \in Int
  PROVE  Coprime(a, m1 * m2) <=> Coprime(a, m1) /\ Coprime(a, m2)
<1> DEFINE m == m1 * m2
<1>1. m \in Nat /\ m > 0 /\ m >= m1 /\ m >= m2 /\ m = m2 * m1
  OBVIOUS
<1>2. AbsVal(m) = m /\ AbsVal(m1) = m1 /\ AbsVal(m2) = m2
  BY <1>1 DEF AbsVal
<1>3. ASSUME NEW n1 \in Nat, NEW n2 \in Nat, m = n1 * n2, m >= n1, AbsVal(n1) = n1, Coprime(a, m)
      PROVE  Coprime(a, n1)
  <2>1. SUFFICES ASSUME NEW d \in 2..n1, a % d = 0, n1 % d = 0 PROVE FALSE
    BY <1>3 DEF Coprime, Divides
  <2>2. d \in Nat /\ d > 0 /\ d \in Int /\ d \in 2..m
    BY <1>1, <1>3
  <2>3. Multiple(d, n1)
    BY <1>3, <2>1, <2>2, MultipleIs
  <2>4. Multiple(d, m)
    <3>1. n1 \in Int /\ n2 \in Int
      OBVIOUS
    <3>2. Multiple(d, n1 * n2)
      BY <2>2, <2>3, <3>1, MultipleTimes
    <3>3. QED
      BY <1>3, <3>2
  <2>5. m % d = 0
    BY <1>1, <2>2, <2>4, MultipleIs
  <2>6. QED
    BY <1>2, <1>3, <2>1, <2>2, <2>5 DEF Coprime, Divides
<1> HIDE DEF m
<1>4. ASSUME Coprime(a, m1), Coprime(a, m2) PROVE Coprime(a, m)
  <2>1. SUFFICES ASSUME NEW d \in 2..m, a % d = 0, m % d = 0 PROVE FALSE
    BY <1>2 DEF Coprime, Divides
  <2>2. d \in Nat /\ d > 0 /\ d \in Int /\ d >= 2
    OBVIOUS
  <2>3. PICK s, t \in Int : 1 = s * a + t * m1
    BY <1>4, Bezout DEF Combines
  <2>4. m2 = (s * m2) * a + t * m
    <3>1. m2 = m2 * (s * a + t * m1)
      BY <2>3
    <3>2. m2 * (s * a + t * m1) = (s * m2) * a + t * (m1 * m2)
      OBVIOUS
    <3>3. QED
      BY <3>1, <3>2 DEF m
  <2>5. Multiple(d, a) /\ Multiple(d, m)
    BY <1>1, <2>1, <2>2, MultipleIs
  <2>6. Multiple(d, (s * m2) * a) /\ Multiple(d, t * m)
    <3>1. s * m2 \in Int /\ t \in Int /\ m \in Int
      BY <1>1
    <3>2. QED
      BY <2>2, <2>5, <3>1, MultipleTimes
  <2>7. Multiple(d, m2)
    <3>1. (s * m2) * a \in Int /\ t * m \in Int
      BY <1>1
    <3>2. QED
      BY <2>2, <2>4, <2>6, <3>1, MultipleSum
  <2>8. m2 % d = 0
    BY <2>2, <2>7, MultipleIs
  <2>9. d <= m2
    <3>1. SUFFICES ASSUME m2 < d PROVE FALSE
      BY <2>2
    <3>2. m2 % d = m2
      BY <2>2, <3>1, SmallResidue
    <3>3. QED
      BY <2>8, <3>2
  <2>10. d \in 2..AbsVal(m2)
    BY <1>2, <2>2, <2>9
  <2>11. QED
    BY <1>4, <2>1, <2>8, <2>10 DEF Coprime, Divides
<1>5. m = m1 * m2 /\ m = m2 * m1
  BY <1>1 DEF m
<1>6. Coprime(a, m) => Coprime(a, m1) /\ Coprime(a, m2)
  BY <1>1, <1>2, <1>3, <1>5
<1>7. QED
  BY <1>4, <1>6 DEF m

LEMMA OverOdd ==
  ASSUME NEW w \in Nat, NEW a \in Nat, a = 2 * w + 1
  PROVE  \A x, y \in Int : Coprime(x, a) /\ Coprime(y, a) => Gauss(x * y, w) = Gauss(x, w) * Gauss(y, w)
BY GaussTimes

LEMMA SymbolTimesOdd ==
  ASSUME NEW h1 \in Nat, NEW h2 \in Nat, NEW h \in Nat, NEW w \in Nat, NEW a \in Nat, a = 2 * w + 1,
         NEW m1 \in Nat, m1 = 2 * h1 + 1, NEW m2 \in Nat, m2 = 2 * h2 + 1, m1 * m2 = 2 * h + 1,
         Coprime(a, m1 * m2)
  PROVE  Gauss(a, h) = Gauss(a, h1) * Gauss(a, h2)
<1> DEFINE both == m1 * m2
<1>1. m1 > 0 /\ m2 > 0 /\ a > 0 /\ both \in Nat /\ both > 0 /\ both = 2 * h + 1
  OBVIOUS
<1>2. Coprime(a, m1) /\ Coprime(a, m2)
  <2>1. m1 > 0 /\ m2 > 0 /\ a \in Int
    OBVIOUS
  <2> HIDE DEF both
  <2>2. QED
    BY <2>1, CoprimeParts
<1>3. Coprime(m1, a) /\ Coprime(m2, a) /\ Coprime(both, a) /\ Coprime(a, both)
  <2> HIDE DEF both
  <2>1. Coprime(m1, a)
    BY <1>1, <1>2, CoprimeBack
  <2>2. Coprime(m2, a)
    BY <1>1, <1>2, CoprimeBack
  <2>3. Coprime(a, both)
    BY DEF both
  <2>4. Coprime(both, a)
    BY <1>1, <2>3, CoprimeBack
  <2>5. QED
    BY <2>1, <2>2, <2>3, <2>4
<1>4. Gauss(m1 * m2, w) = Gauss(m1, w) * Gauss(m2, w)
  <2>1. m1 \in Int /\ m2 \in Int /\ Coprime(m1, a) /\ Coprime(m2, a)
    BY <1>3
  <2> HIDE DEF both
  <2>2. \A x, y \in Int : Coprime(x, a) /\ Coprime(y, a) => Gauss(x * y, w) = Gauss(x, w) * Gauss(y, w)
    BY OverOdd
  <2>3. QED
    BY <2>1, <2>2
<1>5. h * w = 2 * ((h1 * h2) * w) + (h1 * w + h2 * w)
  <2>1. m1 * m2 = (2 * h1 + 1) * (2 * h2 + 1)
    OBVIOUS
  <2>2. (2 * h1 + 1) * (2 * h2 + 1) = 2 * (2 * (h1 * h2) + (h1 + h2)) + 1
    OBVIOUS
  <2>3. h = 2 * (h1 * h2) + (h1 + h2)
    <3> DEFINE z == h1 * h2
    <3>1. z \in Nat
      OBVIOUS
    <3> HIDE DEF z
    <3>2. 2 * h + 1 = 2 * (2 * z + (h1 + h2)) + 1
      BY <2>1, <2>2 DEF z
    <3>3. h = 2 * z + (h1 + h2)
      BY <3>1, <3>2
    <3>4. QED
      BY <3>3 DEF z
  <2>4. (2 * (h1 * h2) + (h1 + h2)) * w = 2 * ((h1 * h2) * w) + (h1 * w + h2 * w)
    OBVIOUS
  <2>5. QED
    BY <2>3, <2>4
<1>6. Sgn(h * w) = Sgn(h1 * w) * Sgn(h2 * w)
  <2> DEFINE x == (h1 * h2) * w
             y1 == h1 * w
             y2 == h2 * w
  <2>1. x \in Int /\ y1 \in Int /\ y2 \in Int
    OBVIOUS
  <2>2. h * w = 2 * x + (y1 + y2)
    BY <1>5
  <2> HIDE DEF x, y1, y2
  <2>3. Sgn(2 * x + (y1 + y2)) = Sgn(2 * x) * Sgn(y1 + y2)
    <3>1. 2 * x \in Int /\ y1 + y2 \in Int
      BY <2>1
    <3>2. QED
      BY <3>1, SgnIs
  <2>4. Sgn(2 * x) = 1
    BY <2>1, SgnOdd
  <2>5. Sgn(y1 + y2) = Sgn(y1) * Sgn(y2) /\ Sgn(y1 + y2) \in {1, -1}
    <3>1. Sgn(y1 + y2) = Sgn(y1) * Sgn(y2)
      BY <2>1, SgnIs
    <3>2. y1 + y2 \in Int
      BY <2>1
    <3>3. QED
      BY <3>1, <3>2, SgnIs
  <2>6. Sgn(h * w) = Sgn(y1) * Sgn(y2)
    BY <2>2, <2>3, <2>4, <2>5
  <2>7. QED
    BY <2>6 DEF y1, y2
<1> HIDE DEF both
<1>7. /\ Gauss(a, h) \in {1, -1} /\ Gauss(a, h1) \in {1, -1} /\ Gauss(a, h2) \in {1, -1}
      /\ Gauss(m1, w) \in {1, -1} /\ Gauss(m2, w) \in {1, -1}
  <2>1. Gauss(a, h) \in {1, -1}
    BY <1>1, <1>3, GaussIs
  <2>2. Gauss(a, h1) \in {1, -1}
    BY <1>2, GaussIs
  <2>3. Gauss(a, h2) \in {1, -1}
    BY <1>2, GaussIs
  <2>4. Gauss(m1, w) \in {1, -1}
    BY <1>3, GaussIs
  <2>5. Gauss(m2, w) \in {1, -1}
    BY <1>3, GaussIs
  <2>6. QED
    BY <2>1, <2>2, <2>3, <2>4, <2>5
<1>8. Gauss(a, h) * Gauss(both, w) = Sgn(h * w)
  BY <1>1, <1>3, Reciprocity
<1>9. Gauss(a, h1) * Gauss(m1, w) = Sgn(h1 * w)
  BY <1>2, <1>3, Reciprocity
<1>10. Gauss(a, h2) * Gauss(m2, w) = Sgn(h2 * w)
  BY <1>2, <1>3, Reciprocity
<1>11. Gauss(both, w) = Gauss(m1, w) * Gauss(m2, w)
  BY <1>4 DEF both
<1>12. \A u, v, x, y, z \in {1, -1} : u * (y * z) = (v * y) * (x * z) => u = v * x
  OBVIOUS
<1>13. QED
  BY <1>6, <1>7, <1>8, <1>9, <1>10, <1>11, <1>12

(* The symbol is multiplicative in the modulus, for any number prime to    *)
(* it: for odd numbers by reciprocity, for the others by periodicity.      *)
LEMMA SymbolTimes ==
  ASSUME NEW h1 \in Nat, NEW h2 \in Nat, NEW h \in Nat, NEW a \in Int,
         NEW m1 \in Nat, m1 = 2 * h1 + 1, NEW m2 \in Nat, m2 = 2 * h2 + 1, m1 * m2 = 2 * h + 1,
         Coprime(a, m1 * m2)
  PROVE  Gauss(a, h) = Gauss(a, h1) * Gauss(a, h2)
<1> DEFINE m == m1 * m2
           r == a % m
           b == IF r % 2 = 1 THEN r ELSE r + m
<1>1. m \in Nat /\ m > 0 /\ m = 2 * h + 1 /\ m \in Int /\ m1 > 0 /\ m2 > 0
  OBVIOUS
<1> HIDE DEF m
<1>2. r \in 0..(m - 1) /\ Same(r, a, m)
  BY <1>1, SameRemainder
<1> HIDE DEF r
<1>3. b \in Nat /\ b % 2 = 1 /\ \E t \in {0, 1} : b = r + t * m
  <2>1. CASE r % 2 = 1
    BY <1>1, <1>2, <2>1
  <2>2. CASE r % 2 # 1
    <3>1. b = r + m
      BY <2>2
    <3>2. r \in Nat /\ r % 2 = 0
      BY <1>2, <2>2
    <3>3. (r + (2 * h + 1)) % 2 = 1
      BY <3>2
    <3>4. QED
      BY <1>1, <3>1, <3>2, <3>3
  <2>3. QED
    BY <2>1, <2>2
<1> HIDE DEF b
<1>4. Same(a, b, m)
  <2>1. PICK t \in {0, 1} : b = r + t * m
    BY <1>3
  <2>2. PICK i \in Int : r - a = i * m
    BY <1>2 DEF Same, Multiple
  <2>3. r \in Int /\ b \in Int /\ a \in Int
    BY <1>2, <1>3
  <2>4. a - b = -(i * m) - t * m
    BY <1>1, <2>1, <2>2, <2>3
  <2>5. -(i * m) - t * m = (-i - t) * m /\ -i - t \in Int
    BY <1>1
  <2>6. QED
    BY <2>4, <2>5 DEF Same, Multiple
<1>5. Coprime(b, m)
  BY <1>1, <1>3, <1>4, CoprimeSame DEF m
<1>6. Same(a, b, m1) /\ Same(a, b, m2)
  <2>1. PICK i \in Int : a - b = i * m
    BY <1>4 DEF Same, Multiple
  <2>2. i * m = (i * m2) * m1 /\ i * m = (i * m1) * m2 /\ i * m1 \in Int /\ i * m2 \in Int
    BY DEF m
  <2>3. QED
    BY <2>1, <2>2 DEF Same, Multiple
<1>7. b = 2 * (b \div 2) + 1 /\ b \div 2 \in Nat /\ b \in Int
  BY <1>3
<1>8. Gauss(b, h) = Gauss(b, h1) * Gauss(b, h2)
  <2> DEFINE w == b \div 2
  <2>1. w \in Nat /\ b = 2 * w + 1
    BY <1>7
  <2> HIDE DEF w
  <2>2. Coprime(b, m1 * m2)
    BY <1>5 DEF m
  <2>3. QED
    BY <1>3, <2>1, <2>2, SymbolTimesOdd
<1>9. Gauss(a, h) = Gauss(b, h)
  BY <1>1, <1>4, <1>7, GaussSame
<1>10. Gauss(a, h1) = Gauss(b, h1)
  BY <1>6, <1>7, GaussSame
<1>11. Gauss(a, h2) = Gauss(b, h2)
  BY <1>6, <1>7, GaussSame
<1>12. QED
  BY <1>8, <1>9, <1>10, <1>11

LeastOf(z) == CHOOSE d \in 2..z : Divides(d, z) /\ \A k \in 2..(d - 1) : ~Divides(k, z)

(* The least divisor from 2 on is a prime.                                 *)
LEMMA LeastIs ==
  ASSUME NEW z \in Nat, z >= 2
  PROVE  /\ LeastOf(z) \in 2..z /\ IsPrimeNumber(LeastOf(z))
         /\ z \div LeastOf(z) \in 1..(z - 1) /\ z = LeastOf(z) * (z \div LeastOf(z))
<1> DEFINE D == {d \in Nat : d >= 2 /\ d <= z /\ z % d = 0}
           l == LeastOf(z)
<1>1. \E d \in 2..z : Divides(d, z) /\ \A k \in 2..(d - 1) : ~Divides(k, z)
  <2>1. z \in D /\ D \in SUBSET Nat
    <3>1. z = 1 * z + 0 /\ 0 \in 0..(z - 1) /\ z > 0
      OBVIOUS
    <3>2. z % z = 0
      BY <3>1, QuotientIs
    <3>3. QED
      BY <3>2
  <2> HIDE DEF D
  <2>2. D # {}
    BY <2>1
  <2>3. PICK d \in D : \A i \in D : d <= i
    BY <2>1, <2>2, LeastExists
  <2>4. d \in 2..z /\ Divides(d, z)
    BY <2>3 DEF D, Divides
  <2>5. ASSUME NEW k \in 2..(d - 1), Divides(k, z) PROVE FALSE
    <3>1. k \in Nat /\ k >= 2 /\ k < d /\ k <= z
      BY <2>4
    <3>2. k \in D
      BY <2>5, <3>1 DEF D, Divides
    <3>3. QED
      BY <2>3, <2>4, <3>1, <3>2
  <2>6. QED
    BY <2>4, <2>5
<1>2. l \in 2..z /\ Divides(l, z) /\ \A k \in 2..(l - 1) : ~Divides(k, z)
  BY <1>1 DEF LeastOf
<1> HIDE DEF l, D
<1>3. l \in Nat /\ l >= 2 /\ l > 0 /\ l <= z /\ z % l = 0
  BY <1>2 DEF Divides
<1>4. IsPrimeNumber(l)
  <2>1. SUFFICES ASSUME NEW k \in 2..(l - 1), l % k = 0 PROVE FALSE
    BY <1>3 DEF IsPrimeNumber, Divides
  <2>2. k \in Nat /\ k > 0 /\ l \in Int /\ z \in Int
    BY <1>3
  <2>3. Multiple(k, l)
    BY <2>1, <2>2, MultipleIs
  <2>4. PICK t \in Int : z = t * l
    BY <1>3, MultipleIs DEF Multiple
  <2>5. Multiple(k, z)
    BY <2>2, <2>3, <2>4, MultipleTimes
  <2>6. z % k = 0
    BY <2>2, <2>5, MultipleIs
  <2>7. QED
    BY <1>2, <2>6 DEF Divides
<1>5. z \div l \in Int /\ z = (z \div l) * l + (z % l)
  BY <1>3, RemainderIs
<1> DEFINE r == z \div l
<1>6. r \in Int /\ z = r * l
  BY <1>3, <1>5
<1> HIDE DEF r
<1>7. r >= 1 /\ r < z
  <2>1. r <= 0 => r * l <= 0
    BY <1>3, <1>6
  <2>2. r >= 1 => r * l >= 2 * r
    BY <1>3, <1>6
  <2>3. QED
    BY <1>6, <2>1, <2>2
<1>8. z = l * r
  BY <1>3, <1>6
<1>9. QED
  BY <1>2, <1>4, <1>6, <1>7, <1>8 DEF r, l

(* At a prime the symbol is Legendre's, by Euler's criterion.              *)
LEMMA LegendreIs ==
  ASSUME NEW x \in Int, NEW m \in Nat, m > 0
  PROVE  /\ Legendre(x, m) \in {-1, 0, 1}
         /\ \A h \in Nat : m = 2 * h + 1 /\ IsPrimeNumber(m) =>
              Legendre(x, m) = IF Multiple(m, x) THEN 0 ELSE Gauss(x, h)
<1>1. Divides(m, x) <=> Multiple(m, x)
  BY MultipleIs DEF Divides
<1>2. Legendre(x, m) \in {-1, 0, 1}
  BY DEF Legendre
<1>3. ASSUME NEW h \in Nat, m = 2 * h + 1, IsPrimeNumber(m)
      PROVE  Legendre(x, m) = IF Multiple(m, x) THEN 0 ELSE Gauss(x, h)
  <2>1. CASE Multiple(m, x)
    BY <1>1, <2>1 DEF Legendre
  <2>2. CASE ~Multiple(m, x)
    <3>1. Coprime(x, m)
      BY <1>3, <2>2, PrimeCoprime
    <3>2. Gauss(x, h) \in {1, -1}
      BY <1>3, <3>1, GaussIs
    <3>3. Gauss(x, h) = 1 <=> IsSquareMod(x, m)
      BY <1>3, <2>2, EulerCriterion
    <3>4. QED
      BY <1>1, <2>2, <3>2, <3>3 DEF Legendre
  <2>3. QED
    BY <2>1, <2>2
<1>4. QED
  BY <1>2, <1>3

LEMMA MultipleShares ==
  ASSUME NEW m \in Nat, m >= 2, NEW x \in Int, Multiple(m, x)
  PROVE  ~Coprime(x, m)
<1>1. x % m = 0 /\ m % m = 0
  <2>1. m = 1 * m
    OBVIOUS
  <2>2. Multiple(m, m)
    BY <2>1 DEF Multiple
  <2>3. QED
    BY <2>2, MultipleIs
<1>2. m \in 2..AbsVal(m)
  BY DEF AbsVal
<1>3. QED
  BY <1>1, <1>2 DEF Coprime, Divides

LEMMA OddParts ==
  ASSUME NEW z \in Nat, z % 2 = 1, NEW i \in Nat, NEW j \in Nat, z = i * j
  PROVE  i % 2 = 1 /\ j % 2 = 1
<1>1. ASSUME NEW a \in Nat, NEW b \in Nat, z = a * b, a % 2 = 0 PROVE FALSE
  <2>1. Multiple(2, a)
    BY <1>1, MultipleIs
  <2>2. Multiple(2, a * b)
    <3>1. 2 \in Int /\ a \in Int /\ b \in Int
      OBVIOUS
    <3>2. QED
      BY <2>1, <3>1, MultipleTimes
  <2>3. QED
    BY <1>1, <2>2, MultipleIs
<1>2. i % 2 # 0
  BY <1>1
<1>3. z = j * i
  OBVIOUS
<1>4. j % 2 # 0
  BY <1>1, <1>3
<1>5. QED
  BY <1>2, <1>4

(* One prime factor less.                                                  *)
LEMMA SymStep ==
  ASSUME NEW x \in Int, NEW z \in Nat, z >= 2, z % 2 = 1
  PROVE  /\ (z \div LeastOf(z)) % 2 = 1
         /\ Sym(x, z) = Legendre(x, LeastOf(z)) * Sym(x, z \div LeastOf(z))
<1> DEFINE l == LeastOf(z)
           r == z \div l
           h == (z - 1) \div 2
           h1 == (l - 1) \div 2
           h2 == (r - 1) \div 2
<1>1. l \in 2..z /\ IsPrimeNumber(l) /\ r \in 1..(z - 1) /\ z = l * r
  BY LeastIs
<1> HIDE DEF l, r
<1>2. l \in Nat /\ l > 0 /\ r \in Nat /\ r > 0
  BY <1>1
<1>3. l % 2 = 1 /\ r % 2 = 1
  BY <1>1, <1>2, OddParts
<1>4. h \in Nat /\ z = 2 * h + 1 /\ h1 \in Nat /\ l = 2 * h1 + 1 /\ h2 \in Nat /\ r = 2 * h2 + 1
  <2>1. \A n \in Nat : n > 0 /\ n % 2 = 1 => (n - 1) \div 2 \in Nat /\ n = 2 * ((n - 1) \div 2) + 1
    OBVIOUS
  <2>2. QED
    BY <1>2, <1>3, <2>1
<1>5. Coprime(x, z) <=> Coprime(x, l) /\ Coprime(x, r)
  BY <1>1, <1>2, CoprimeParts
<1>6. Coprime(x, l) <=> ~Multiple(l, x)
  <2>1. ~Multiple(l, x) => Coprime(x, l)
    BY <1>1, <1>2, PrimeCoprime
  <2>2. Multiple(l, x) => ~Coprime(x, l)
    BY <1>1, <1>2, MultipleShares
  <2>3. QED
    BY <2>1, <2>2
<1>7. Legendre(x, l) = IF Multiple(l, x) THEN 0 ELSE Gauss(x, h1)
  BY <1>1, <1>2, <1>4, LegendreIs
<1>8. /\ Sym(x, z) = IF Coprime(x, z) THEN Gauss(x, h) ELSE 0
      /\ Sym(x, r) = IF Coprime(x, r) THEN Gauss(x, h2) ELSE 0
  BY DEF Sym
<1>9. Coprime(x, z) => Gauss(x, h) = Gauss(x, h1) * Gauss(x, h2)
  <2> HIDE DEF h, h1, h2
  <2>1. l * r = 2 * h + 1 /\ (Coprime(x, z) => Coprime(x, l * r))
    BY <1>1, <1>4
  <2>2. QED
    BY <1>2, <1>4, <2>1, SymbolTimes
<1>10. (Coprime(x, r) => Gauss(x, h2) \in Int) /\ (Coprime(x, l) => Gauss(x, h1) \in Int)
  <2>1. Coprime(x, r) => Gauss(x, h2) \in {1, -1}
    BY <1>2, <1>4, GaussIs
  <2>2. Coprime(x, l) => Gauss(x, h1) \in {1, -1}
    BY <1>2, <1>4, GaussIs
  <2>3. QED
    BY <2>1, <2>2
<1> HIDE DEF h, h1, h2
<1>11. Sym(x, z) = Legendre(x, l) * Sym(x, r)
  <2>1. CASE Coprime(x, z)
    BY <1>5, <1>6, <1>7, <1>8, <1>9, <2>1
  <2>2. CASE ~Coprime(x, l)
    <3>1. Legendre(x, l) = 0 /\ Sym(x, z) = 0
      BY <1>5, <1>6, <1>7, <1>8, <2>2
    <3>2. Sym(x, r) \in Int
      BY <1>8, <1>10
    <3>3. QED
      BY <3>1, <3>2
  <2>3. CASE ~Coprime(x, r)
    <3>1. Sym(x, r) = 0 /\ Sym(x, z) = 0
      BY <1>5, <1>8, <2>3
    <3>2. Legendre(x, l) \in Int
      BY <1>2, LegendreIs
    <3>3. QED
      BY <3>1, <3>2
  <2>4. QED
    BY <1>5, <2>1, <2>2, <2>3
<1>12. QED
  BY <1>3, <1>11 DEF r, l

Refers(x, y, w) ==
  w = [z \in 1..y |-> IF z = 1 THEN 1 ELSE Legendre(x, LeastOf(z)) * w[z \div LeastOf(z)]]

LEMMA RefersExists ==
  ASSUME NEW x \in Int, NEW y \in Nat
  PROVE  \E w : Refers(x, y, w)
<1> DEFINE before == [z \in 1..y |-> IF z = 1 THEN 0 ELSE z \div LeastOf(z)]
           L(z) == Legendre(x, LeastOf(z))
           turn == [z \in 1..y |-> [v \in Int |-> IF z = 1 THEN 1 ELSE L(z) * v]]
<1>1. ASSUME NEW z \in 1..y, z # 1 PROVE z \div LeastOf(z) \in 1..(z - 1) /\ L(z) \in Int
  <2>1. z \in Nat /\ z >= 2
    BY <1>1
  <2>2. LeastOf(z) \in 2..z /\ z \div LeastOf(z) \in 1..(z - 1)
    BY <2>1, LeastIs
  <2>3. LeastOf(z) \in Nat /\ LeastOf(z) > 0
    BY <2>2
  <2>4. L(z) \in {-1, 0, 1}
    BY <2>3, LegendreIs
  <2>5. QED
    BY <2>2, <2>4
<1>2. before \in [1..y -> Nat] /\ \A z \in 1..y : before[z] < z
  <2>1. ASSUME NEW z \in 1..y PROVE before[z] \in Nat /\ before[z] < z
    <3>1. CASE z = 1
      BY <3>1
    <3>2. CASE z # 1
      <4>1. before[z] = z \div LeastOf(z)
        BY <3>2
      <4>2. z \div LeastOf(z) \in 1..(z - 1)
        BY <1>1, <3>2
      <4> DEFINE d == z \div LeastOf(z)
      <4>3. d \in 1..(z - 1) /\ before[z] = d
        BY <4>1, <4>2
      <4> HIDE DEF d, before
      <4>4. QED
        BY <4>3
    <3>3. QED
      BY <3>1, <3>2
  <2>2. QED
    BY <2>1
<1>3. turn \in [1..y -> [Int -> Int]]
  <2>1. ASSUME NEW z \in 1..y, NEW v \in Int PROVE (IF z = 1 THEN 1 ELSE L(z) * v) \in Int
    <3>1. z # 1 => L(z) \in Int
      BY <1>1
    <3> HIDE DEF L
    <3>2. QED
      BY <3>1
  <2> HIDE DEF L
  <2>2. QED
    BY <2>1
<1>4. \A z \in 1..y : \A v \in Int : turn[z][v] = IF z = 1 THEN 1 ELSE L(z) * v
  OBVIOUS
<1>5. \A z \in 1..y : before[z] = IF z = 1 THEN 0 ELSE z \div LeastOf(z)
  OBVIOUS
<1> HIDE DEF before, turn, L
<1>6. Walkable(y, Int, 1, before, turn)
  <2>1. 1 \in Int
    OBVIOUS
  <2>2. \A z \in 1..y : before[z] < z
    BY <1>2
  <2>3. before \in [1..y -> Nat]
    BY <1>2
  <2>4. QED
    BY <1>3, <2>1, <2>2, <2>3, RecursionExists
<1>7. PICK u : Walk(u, y, Int, 1, before, turn)
  BY <1>6 DEF Walkable
<1>8. u \in [0..y -> Int] /\ \A z \in 1..y : u[z] = turn[z][u[before[z]]]
  BY <1>7 DEF Walk
<1> DEFINE w == [z \in 1..y |-> u[z]]
<1>9. ASSUME NEW z \in 1..y PROVE w[z] = IF z = 1 THEN 1 ELSE L(z) * w[z \div LeastOf(z)]
  <2>1. before[z] \in Nat /\ before[z] < z /\ before[z] \in 0..y
    <3>1. before[z] \in Nat /\ before[z] < z
      BY <1>2
    <3>2. QED
      BY <3>1
  <2>2. u[before[z]] \in Int
    BY <1>8, <2>1
  <2>3. w[z] = IF z = 1 THEN 1 ELSE L(z) * u[before[z]]
    BY <1>4, <1>8, <2>2
  <2>4. z # 1 => before[z] = z \div LeastOf(z) /\ z \div LeastOf(z) \in 1..(z - 1)
    BY <1>1, <1>5
  <2>5. z # 1 => z \div LeastOf(z) \in 1..y
    BY <2>4
  <2>6. z # 1 => w[z \div LeastOf(z)] = u[before[z]]
    BY <2>4, <2>5
  <2> HIDE DEF w
  <2>7. QED
    BY <2>3, <2>6
<1>10. w = [z \in 1..y |-> w[z]]
  OBVIOUS
<1> HIDE DEF w
<1>11. [z \in 1..y |-> w[z]] = [z \in 1..y |-> IF z = 1 THEN 1 ELSE L(z) * w[z \div LeastOf(z)]]
  BY <1>9
<1>12. w = [z \in 1..y |-> IF z = 1 THEN 1 ELSE L(z) * w[z \div LeastOf(z)]]
  BY <1>10, <1>11
<1>13. Refers(x, y, w)
  BY <1>12 DEF Refers, L
<1>14. QED
  BY <1>13

LEMMA SymOne == ASSUME NEW x \in Int PROVE Sym(x, 1) = 1
<1>1. Coprime(x, 1)
  BY DEF Coprime, AbsVal
<1>2. Integers(SignsOf(x, 0), 0)
  BY DEF Integers
<1>3. Gauss(x, 0) = 1
  BY <1>2, ProductIs DEF Gauss
<1>4. (1 - 1) \div 2 = 0
  OBVIOUS
<1>5. QED
  BY <1>1, <1>3, <1>4 DEF Sym

(* JacobiReference is the symbol of every odd modulus.                     *)
LEMMA ReferenceIs ==
  ASSUME NEW x \in Int, NEW y \in Nat, y % 2 = 1
  PROVE  JacobiReference(x, y) = Sym(x, y)
<1> DEFINE w == CHOOSE w : Refers(x, y, w)
<1>1. Refers(x, y, w)
  BY RefersExists
<1>2. JacobiReference(x, y) = w[y]
  <2>1. JacobiReference(x, y) = (CHOOSE f : Refers(x, y, f))[y]
    BY DEF JacobiReference, Refers, LeastOf
  <2>2. w = CHOOSE f : Refers(x, y, f)
    OBVIOUS
  <2>3. QED
    BY <2>1
<1> HIDE DEF w
<1>3. \A z \in 1..y : w[z] = IF z = 1 THEN 1 ELSE Legendre(x, LeastOf(z)) * w[z \div LeastOf(z)]
  BY <1>1 DEF Refers
<1> DEFINE S == {i \in Nat : \A z \in 1..y : z <= i /\ z % 2 = 1 => w[z] = Sym(x, z)}
<1>4. 0 \in S
  OBVIOUS
<1>5. ASSUME NEW i \in 0..(y - 1), i \in S PROVE i + 1 \in S
  <2>1. i \in Nat /\ i + 1 \in Nat
    OBVIOUS
  <2>2. ASSUME NEW z \in 1..y, z <= i + 1, z % 2 = 1 PROVE w[z] = Sym(x, z)
    <3>1. CASE z = 1
      BY <1>3, <3>1, SymOne
    <3>2. CASE z # 1
      <4> DEFINE r == z \div LeastOf(z)
      <4>1. z \in Nat /\ z >= 2
        BY <3>2
      <4>2. r \in 1..(z - 1) /\ r % 2 = 1 /\ Sym(x, z) = Legendre(x, LeastOf(z)) * Sym(x, r)
        BY <2>2, <4>1, LeastIs, SymStep
      <4>3. w[z] = Legendre(x, LeastOf(z)) * w[r]
        BY <1>3, <3>2
      <4> HIDE DEF r
      <4>4. r \in 1..y /\ r <= i
        BY <2>1, <2>2, <4>2
      <4>5. w[r] = Sym(x, r)
        BY <1>5, <4>2, <4>4
      <4>6. QED
        BY <4>2, <4>3, <4>5
    <3>3. QED
      BY <3>1, <3>2
  <2>3. QED
    BY <2>1, <2>2
<1> HIDE DEF S
<1>6. y \in S
  <2>1. \A i \in 0..y : i \in S
    BY <1>4, <1>5, UpTo
  <2>2. QED
    BY <2>1
<1>7. y \in 1..y /\ y <= y
  OBVIOUS
<1>8. QED
  BY <1>2, <1>6, <1>7 DEF S

------------------------------------------------------------------------------
(* The arithmetic of sqrtm: the two closed forms, and the invariants of    *)
(* the loop of Tonelli and Shanks.                                         *)

LEMMA SquareOfPowMod ==
  ASSUME NEW x \in Int, NEW e \in Nat, NEW m \in Nat, m > 0, NEW r, r = PowMod(x, e, m)
  PROVE  r \in 0..(m - 1) /\ r \in Int /\ Same(r, Power(x, e), m) /\ Same(r * r, Power(x, 2 * e), m)
<1>1. r \in 0..(m - 1) /\ Same(r, Power(x, e), m) /\ Power(x, e) \in Int /\ m \in Int
  <2>1. r \in 0..(m - 1)
    BY PowModIs
  <2>2. Same(r, Power(x, e), m)
    BY PowModSame
  <2>3. Power(x, e) \in Int
    BY PowerIs
  <2>4. QED
    BY <2>1, <2>2, <2>3
<1>2. r \in Int
  BY <1>1
<1>3. Same(r * r, Power(x, e) * Power(x, e), m)
  BY <1>1, <1>2, SameTimes
<1>4. Power(x, e) * Power(x, e) = Power(x, e + e) /\ e + e = 2 * e
  BY PowerSum
<1>5. QED
  BY <1>1, <1>2, <1>3, <1>4

LEMMA ResidueOf ==
  ASSUME NEW m \in Nat, m > 0, NEW v \in Int
  PROVE  v % m \in 0..(m - 1) /\ v % m \in Int /\ Same(v % m, v, m)
<1>1. v % m \in 0..(m - 1) /\ Same(v % m, v, m)
  BY SameRemainder
<1>2. QED
  BY <1>1

LEMMA MultipleOfSame ==
  ASSUME NEW m \in Nat, m > 0, NEW x \in Int, NEW v \in Int, Same(x, v, m)
  PROVE  Multiple(m, x) <=> Multiple(m, v)
<1>1. x - v \in Int /\ v + (x - v) = x /\ x - (x - v) = v /\ m \in Int
  OBVIOUS
<1>2. Multiple(m, x - v)
  BY DEF Same
<1>3. Multiple(m, v) => Multiple(m, v + (x - v))
  BY <1>1, <1>2, MultipleSum
<1>4. Multiple(m, x) => Multiple(m, x - (x - v))
  BY <1>1, <1>2, MultipleSum
<1>5. QED
  BY <1>1, <1>3, <1>4

LEMMA OfSquare ==
  ASSUME NEW h \in Nat, NEW m \in Nat, m = 2 * h + 1, IsPrimeNumber(m), NEW v \in Int,
         IsSquareMod(v, m), ~Multiple(m, v), NEW x \in Int, Same(x, v, m)
  PROVE  ~Multiple(m, x) /\ Gauss(x, h) = 1 /\ Same(Power(x, h), 1, m)
<1>1. m > 0
  OBVIOUS
<1>2. ~Multiple(m, x)
  BY <1>1, MultipleOfSame
<1>3. Gauss(v, h) = 1
  BY EulerCriterion
<1>4. Gauss(x, h) = Gauss(v, h)
  BY GaussSame
<1>5. Same(Power(x, h), Gauss(x, h), m)
  BY <1>2, GaussPower
<1>6. QED
  BY <1>2, <1>3, <1>4, <1>5

LEMMA ZeroIs ==
  ASSUME NEW m \in Nat, m > 0, NEW x \in 0..(m - 1), Multiple(m, x)
  PROVE  x = 0
<1>1. x = 0 \/ x \in 1..(m - 1)
  OBVIOUS
<1>2. QED
  BY <1>1, ResidueIs

(* p = 3 mod 4                                                             *)
LEMMA Quarter ==
  ASSUME NEW h \in Nat, NEW m \in Nat, m = 2 * h + 1, IsPrimeNumber(m), NEW e \in Nat, 2 * e = h + 1,
         NEW v \in Int, IsSquareMod(v, m), NEW x \in 0..(m - 1), Same(x, v, m),
         NEW r \in Int, Same(r * r, Power(x, 2 * e), m)
  PROVE  Same(r * r, x, m)
<1>1. m > 0 /\ m \in Int /\ x \in Int /\ r * r \in Int
  OBVIOUS
<1>2. Power(x, h) \in Int /\ Power(x, h + 1) = Power(x, h) * x
  BY <1>1, PowerIs
<1>3. Same(Power(x, h) * x, x, m)
  <2>1. CASE Multiple(m, v)
    <3>1. x = 0
      BY <1>1, <2>1, MultipleOfSame, ZeroIs
    <3>2. Power(x, h) * x = x
      BY <1>2, <3>1
    <3>3. QED
      BY <1>1, <3>2, SameItself
  <2>2. CASE ~Multiple(m, v)
    <3>1. Same(Power(x, h), 1, m)
      BY <1>1, <2>2, OfSquare
    <3>2. Same(x, x, m) /\ 1 \in Int
      BY <1>1, SameItself
    <3>3. Same(Power(x, h) * x, 1 * x, m)
      BY <1>1, <1>2, <3>1, <3>2, SameTimes
    <3>4. QED
      BY <1>1, <3>3
  <2>3. QED
    BY <2>1, <2>2
<1>4. Same(r * r, Power(x, h) * x, m) /\ Power(x, h) * x \in Int
  BY <1>1, <1>2
<1>5. QED
  BY <1>1, <1>3, <1>4, SameChain

(* p = 5 mod 8                                                             *)
LEMMA EighthIdentity ==
  ASSUME NEW m \in Int, NEW i \in Int, NEW a \in Int, NEW x \in Int,
         Multiple(m, i * i + 1), Multiple(m, i - 2 * (a * (a * x)))
  PROVE  Multiple(m, (((i - 1) * x) * a) * (((i - 1) * x) * a) - x)
<1> DEFINE A == i - 2 * (a * (a * x))
           B == i * i + 1
           X == (x * x) * (a * a)
<1>1. A \in Int /\ B \in Int /\ X \in Int /\ i * x \in Int
  OBVIOUS
<1>2. (((i - 1) * x) * a) * (((i - 1) * x) * a) - x = (B * X + A * (i * x)) - B * x
  OBVIOUS
<1> HIDE DEF A, B, X
<1>3. Multiple(m, B * X) /\ Multiple(m, A * (i * x)) /\ Multiple(m, B * x)
  <2>1. Multiple(m, B) /\ Multiple(m, A)
    BY DEF A, B
  <2>2. QED
    BY <1>1, <2>1, MultipleTimes
<1>4. B * X \in Int /\ A * (i * x) \in Int /\ B * x \in Int /\ B * X + A * (i * x) \in Int
  BY <1>1
<1>5. Multiple(m, B * X + A * (i * x))
  BY <1>3, <1>4, MultipleSum
<1>6. Multiple(m, (B * X + A * (i * x)) - B * x)
  BY <1>3, <1>4, <1>5, MultipleSum
<1>7. QED
  BY <1>2, <1>6

LEMMA Eighth ==
  ASSUME NEW h \in Nat, NEW m \in Nat, m = 2 * h + 1, IsPrimeNumber(m), NEW t \in Nat, h = 2 * (2 * t + 1),
         Gauss(2, h) = -1, NEW v \in Int, IsSquareMod(v, m), NEW x \in 0..(m - 1), Same(x, v, m),
         NEW u \in Int, Same(u, 2 * x, m), NEW a \in Int, Same(a * a, Power(u, 2 * t), m),
         NEW i \in Int, Same(i, (a * a) * u, m), NEW r \in Int, Same(r, ((i - 1) * x) * a, m)
  PROVE  Same(r * r, x, m)
<1> DEFINE l == ((i - 1) * x) * a
<1>1. m > 0 /\ m \in Int /\ x \in Int /\ 2 * x \in Int /\ a * a \in Int /\ (a * a) * u \in Int
  OBVIOUS
<1>2. l \in Int /\ Same(r, l, m)
  BY <1>1
<1> HIDE DEF l
<1>3. Same(r * r, l * l, m) /\ r * r \in Int /\ l * l \in Int
  <2>1. Same(r * r, l * l, m)
    BY <1>1, <1>2, SameTimes
  <2>2. QED
    BY <1>2, <2>1
<1>4. Same(l * l, x, m)
  <2>1. CASE Multiple(m, v)
    <3>1. x = 0
      BY <1>1, <2>1, MultipleOfSame, ZeroIs
    <3>2. l = 0
      BY <3>1 DEF l
    <3>3. l * l = x
      BY <3>1, <3>2
    <3>4. QED
      BY <1>1, <3>3, SameItself
  <2>2. CASE ~Multiple(m, v)
    <3>1. ~Multiple(m, x) /\ Gauss(x, h) = 1
      BY <1>1, <2>2, OfSquare
    <3>2. Coprime(x, m) /\ Coprime(2, m)
      <4>1. Coprime(x, m)
        BY <1>1, <3>1, PrimeCoprime
      <4>2. Coprime(2, m)
        BY <1>1, CoprimeTwo
      <4>3. QED
        BY <4>1, <4>2
    <3>3. Gauss(2 * x, h) = Gauss(2, h) * Gauss(x, h)
      <4>1. 2 \in Int
        OBVIOUS
      <4>2. \A y, z \in Int : Coprime(y, m) /\ Coprime(z, m) => Gauss(y * z, h) = Gauss(y, h) * Gauss(z, h)
        BY OverOdd
      <4>3. QED
        BY <1>1, <3>2, <4>1, <4>2
    <3>4. Gauss(2, h) = -1
      OBVIOUS
    <3>5. Gauss(u, h) = -1
      <4>1. Gauss(u, h) = Gauss(2 * x, h)
        BY <1>1, GaussSame
      <4>2. QED
        BY <3>1, <3>3, <3>4, <4>1
    <3>6. ~Multiple(m, u)
      <4>1. Coprime(2 * x, m)
        BY <1>1, <3>2, CoprimeProduct
      <4>2. Same(2 * x, u, m)
        BY <1>1, SameBack
      <4>3. Coprime(u, m)
        BY <1>1, <4>1, <4>2, CoprimeSame
      <4>4. SUFFICES ASSUME Multiple(m, u) PROVE FALSE
        OBVIOUS
      <4>5. u % m = 0 /\ m % m = 0
        BY <1>1, <4>4, MultipleIs
      <4>6. m \in 2..AbsVal(m)
        BY <1>1, PrimeIs DEF AbsVal
      <4>7. QED
        BY <4>3, <4>5, <4>6 DEF Coprime, Divides
    <3>7. Same(Power(u, h), -1, m)
      <4>1. Same(Power(u, h), Gauss(u, h), m)
        BY <1>1, <3>6, GaussPower
      <4>2. QED
        BY <3>5, <4>1
    <3> DEFINE o == Power(u, 2 * t + 1)
    <3>8. Power(u, 2 * t) \in Int /\ o = Power(u, 2 * t) * u /\ o \in Int /\ o * o = Power(u, h)
      <4>1. 2 * t \in Nat /\ 2 * t + 1 \in Nat
        BY <1>1
      <4>2. Power(u, 2 * t) \in Int /\ o = Power(u, 2 * t) * u /\ o \in Int
        BY <1>1, <4>1, PowerIs
      <4>3. o * o = Power(u, (2 * t + 1) + (2 * t + 1))
        BY <1>1, <4>1, PowerSum
      <4>4. (2 * t + 1) + (2 * t + 1) = h
        BY <1>1
      <4>5. QED
        BY <4>2, <4>3, <4>4
    <3> HIDE DEF o
    <3>9. Same(i, o, m)
      <4>1. Same(u, u, m) /\ (a * a) * u \in Int
        BY <1>1, SameItself
      <4>2. Same((a * a) * u, Power(u, 2 * t) * u, m)
        BY <1>1, <3>8, <4>1, SameTimes
      <4>3. Same((a * a) * u, o, m)
        BY <3>8, <4>2
      <4>4. QED
        BY <1>1, <3>8, <4>1, <4>3, SameChain
    <3>10. Multiple(m, i * i + 1)
      <4>1. Same(i * i, o * o, m) /\ i * i \in Int /\ o * o \in Int /\ -1 \in Int
        <5>1. Same(i * i, o * o, m)
          BY <1>1, <3>8, <3>9, SameTimes
        <5>2. QED
          BY <1>1, <3>8, <5>1
      <4>2. Same(o * o, -1, m)
        BY <3>7, <3>8
      <4>3. Same(i * i, -1, m)
        BY <1>1, <4>1, <4>2, SameChain
      <4>4. i * i - (-1) = i * i + 1
        BY <4>1
      <4>5. QED
        BY <4>3, <4>4 DEF Same
    <3>11. Multiple(m, i - 2 * (a * (a * x)))
      <4>1. Same(a * a, a * a, m) /\ (a * a) * u \in Int /\ (a * a) * (2 * x) \in Int
        BY <1>1, SameItself
      <4>2. Same((a * a) * u, (a * a) * (2 * x), m)
        BY <1>1, <4>1, SameTimes
      <4>3. Same(i, (a * a) * (2 * x), m)
        BY <1>1, <4>1, <4>2, SameChain
      <4>4. (a * a) * (2 * x) = 2 * (a * (a * x))
        BY <1>1
      <4>5. QED
        BY <4>3, <4>4 DEF Same
    <3>12. Multiple(m, l * l - x)
      BY <1>1, <3>10, <3>11, EighthIdentity DEF l
    <3>13. QED
      BY <3>12 DEF Same
  <2>3. QED
    BY <2>1, <2>2
<1>5. QED
  BY <1>1, <1>3, <1>4, SameChain

(* 2^e as a power in the sense of Power, up to the assumed width.          *)
LEMMA TwoIsPower ==
  ASSUME NEW W \in Nat, Binary(W), NEW e \in 0..(W + 1)
  PROVE  2^e = Power(2, e) /\ 2^e \in Nat /\ 2^e > 0
<1> DEFINE S == {i \in Nat : 2^i = Power(2, i)}
<1>1. 0 \in S
  <2>1. Power(2, 0) = 1
    BY PowerIs
  <2>2. QED
    BY <2>1 DEF Binary
<1>2. ASSUME NEW i \in 0..((W + 1) - 1), i \in S PROVE i + 1 \in S
  <2>1. i \in 0..W /\ i \in Nat /\ i + 1 \in Nat /\ 2 \in Int
    OBVIOUS
  <2>2. 2^(i + 1) = 2 * 2^i /\ 2^i = Power(2, i)
    BY <1>2, <2>1 DEF Binary
  <2>3. Power(2, i) \in Int /\ Power(2, i + 1) = Power(2, i) * 2
    BY <2>1, PowerIs
  <2>4. 2^(i + 1) = Power(2, i + 1)
    BY <2>2, <2>3
  <2>5. QED
    BY <2>1, <2>4
<1> HIDE DEF S
<1>3. e \in S
  <2>1. W + 1 \in Nat
    OBVIOUS
  <2>2. \A i \in 0..(W + 1) : i \in S
    BY <1>1, <1>2, <2>1, UpTo
  <2>3. QED
    BY <2>2
<1>4. 2^e \in Nat /\ 2^e >= e + 1
  BY TwoPower
<1>5. QED
  BY <1>3, <1>4 DEF S

(* p - 1 = 2^k * odd                                                       *)
LEMMA TwoAdic ==
  ASSUME NEW W \in Nat, Binary(W), NEW h \in Nat, NEW m \in Nat, m = 2 * h + 1, m > 1, m < 2^W,
         NEW k, k = ZeroBits(m - 1), NEW q, q = (m - 1) \div 2^ZeroBits(m - 1)
  PROVE  /\ k \in 1..(W - 1) /\ q \in Nat /\ q % 2 = 1
         /\ 2^(k - 1) \in Nat /\ h = q * 2^(k - 1)
<1> DEFINE z == 2 * h
<1>1. m - 1 = z /\ z \in Nat /\ z > 0
  OBVIOUS
<1>2. z < 2^W
  <2>1. W \in 0..(W + 1)
    OBVIOUS
  <2>2. 2^W \in Nat
    BY <2>1, TwoPower
  <2>3. QED
    BY <1>1, <2>2
<1>3. k = ZeroBits(z) /\ q = z \div 2^k
  BY <1>1
<1> HIDE DEF z
<1>4. k \in 0..(W - 1) /\ q \in Nat /\ z = 2^k * q /\ q % 2 = 1
  <2>1. /\ ZeroBits(z) \in 0..(W - 1)
        /\ z \div 2^ZeroBits(z) \in Nat /\ z = 2^ZeroBits(z) * (z \div 2^ZeroBits(z))
        /\ (z \div 2^ZeroBits(z)) % 2 = 1
    BY <1>1, <1>2, ZeroBitsIs
  <2>2. QED
    BY <1>3, <2>1
<1>5. k # 0
  <2>1. SUFFICES ASSUME k = 0 PROVE FALSE
    OBVIOUS
  <2>2. 2^k = 1
    BY <2>1 DEF Binary
  <2>3. z = q
    BY <1>4, <2>2
  <2>4. z % 2 = 0
    BY DEF z
  <2>5. QED
    BY <1>4, <2>3, <2>4
<1>6. k \in 1..(W - 1) /\ k - 1 \in 0..(W + 1) /\ k - 1 \in 0..W /\ (k - 1) + 1 = k
  BY <1>4, <1>5
<1>7. 2^(k - 1) \in Nat
  BY <1>6, TwoPower
<1>8. 2^k = 2 * 2^(k - 1)
  <2>1. 2^((k - 1) + 1) = 2 * 2^(k - 1)
    BY <1>6 DEF Binary
  <2>2. QED
    BY <1>6, <2>1
<1> DEFINE f == 2^(k - 1)
<1>9. f \in Nat /\ z = (2 * f) * q
  BY <1>4, <1>7, <1>8
<1> HIDE DEF f
<1>10. h = q * f
  <2>1. (2 * f) * q = 2 * (q * f) /\ q * f \in Nat
    BY <1>4, <1>9
  <2> DEFINE w == q * f
  <2>2. 2 * h = 2 * w /\ w \in Nat
    BY <1>9, <2>1 DEF z
  <2> HIDE DEF w
  <2>3. h = w
    BY <2>2
  <2>4. QED
    BY <2>3 DEF w
<1>11. QED
  BY <1>4, <1>6, <1>7, <1>10 DEF f

LEMMA LoopBegins ==
  ASSUME NEW m \in Nat, m > 0, NEW q \in Nat, q % 2 = 1, NEW v \in Int, NEW x \in Int, Same(x, v, m),
         NEW y, y = PowMod(x, (q + 1) \div 2, m), NEW b, b = PowMod(x, q, m)
  PROVE  y \in 0..(m - 1) /\ b \in 0..(m - 1) /\ Same(y * y, v * b, m)
<1> DEFINE e == (q + 1) \div 2
<1>1. e \in Nat /\ 2 * e = q + 1 /\ m \in Int
  OBVIOUS
<1> HIDE DEF e
<1>2. y \in 0..(m - 1) /\ y \in Int /\ Same(y * y, Power(x, 2 * e), m)
  <2>1. y = PowMod(x, e, m)
    BY DEF e
  <2>2. QED
    BY <1>1, <2>1, SquareOfPowMod
<1>3. b \in 0..(m - 1) /\ b \in Int /\ Same(b, Power(x, q), m)
  BY SquareOfPowMod
<1>4. Power(x, q) \in Int /\ Power(x, q + 1) = Power(x, q) * x
  BY PowerIs
<1>5. Same(v, x, m) /\ Same(Power(x, q), b, m)
  <2>1. Same(v, x, m)
    BY <1>1, SameBack
  <2>2. Same(Power(x, q), b, m)
    BY <1>1, <1>3, <1>4, SameBack
  <2>3. QED
    BY <2>1, <2>2
<1>6. Same(Power(x, q) * x, b * v, m)
  BY <1>1, <1>3, <1>4, <1>5, SameTimes
<1>7. Same(y * y, Power(x, q) * x, m) /\ b * v = v * b
  BY <1>1, <1>2, <1>3, <1>4
<1>8. y * y \in Int /\ Power(x, q) * x \in Int /\ v * b \in Int
  BY <1>2, <1>3, <1>4
<1>9. Same(y * y, v * b, m)
  BY <1>1, <1>6, <1>7, <1>8, SameChain
<1>10. QED
  BY <1>2, <1>3, <1>9

(* y^2 = x * b goes on to hold.                                            *)
LEMMA LoopTurns ==
  ASSUME NEW m \in Int, NEW v \in Int, NEW y \in Int, NEW b \in Int, Same(y * y, v * b, m), NEW t \in Int,
         NEW g2 \in Int, Same(g2, t * t, m), NEW y2 \in Int, Same(y2, y * t, m),
         NEW b2 \in Int, Same(b2, b * g2, m)
  PROVE  Same(y2 * y2, v * b2, m)
<1>1. y * t \in Int /\ t * t \in Int /\ v * b \in Int /\ b * g2 \in Int /\ y2 * y2 \in Int /\ y * y \in Int
      /\ v * b2 \in Int /\ v * (b * g2) \in Int /\ (v * b) * (t * t) \in Int /\ (v * b) * g2 \in Int
  OBVIOUS
<1>2. Same(y2 * y2, (y * t) * (y * t), m)
  BY <1>1, SameTimes
<1>3. (y * t) * (y * t) = (y * y) * (t * t) /\ (v * b) * g2 = v * (b * g2)
  OBVIOUS
<1>4. Same(t * t, g2, m) /\ Same(v, v, m) /\ Same(b * g2, b2, m)
  <2>1. Same(t * t, g2, m)
    BY <1>1, SameBack
  <2>2. Same(v, v, m)
    BY SameItself
  <2>3. Same(b * g2, b2, m)
    BY <1>1, SameBack
  <2>4. QED
    BY <2>1, <2>2, <2>3
<1>5. Same((y * y) * (t * t), (v * b) * g2, m)
  BY <1>1, <1>4, SameTimes
<1>6. Same(v * (b * g2), v * b2, m)
  BY <1>1, <1>4, SameTimes
<1>7. Same(y2 * y2, (v * b) * g2, m)
  <2>1. (y * y) * (t * t) \in Int
    BY <1>1
  <2>2. QED
    BY <1>1, <1>2, <1>3, <1>5, <2>1, SameChain
<1>8. QED
  BY <1>1, <1>3, <1>6, <1>7, SameChain

(* b = x^q and g = n^q begin with orders that say what x and n are.        *)
LEMMA OrderBegins ==
  ASSUME NEW h \in Nat, NEW m \in Nat, m = 2 * h + 1, IsPrimeNumber(m), NEW q \in Nat, NEW e \in Nat, h = q * e,
         NEW x \in Int, ~Multiple(m, x), NEW b \in Int, Same(b, Power(x, q), m)
  PROVE  Same(Power(b, e), Gauss(x, h), m)
<1>1. m \in Int /\ Power(x, q) \in Int
  <2>1. Power(x, q) \in Int
    BY PowerIs
  <2>2. QED
    BY <2>1
<1>2. Same(Power(b, e), Power(Power(x, q), e), m)
  BY <1>1, PowerSame
<1>3. Power(Power(x, q), e) = Power(x, h)
  BY PowerOfPower
<1>4. Same(Power(x, h), Gauss(x, h), m)
  BY GaussPower
<1>5. Power(b, e) \in Int /\ Power(x, h) \in Int
  <2>1. Power(b, e) \in Int
    BY PowerIs
  <2>2. Power(x, h) \in Int
    BY PowerIs
  <2>3. QED
    BY <2>1, <2>2
<1>6. Gauss(x, h) \in Int
  <2>1. Coprime(x, m)
    BY PrimeCoprime
  <2>2. Gauss(x, h) \in {1, -1}
    BY <2>1, GaussIs
  <2>3. QED
    BY <2>2
<1>7. QED
  BY <1>1, <1>2, <1>3, <1>4, <1>5, <1>6, SameChain

(* The order of g is 2^k, that of b a smaller power of two.                *)
LEMMA OrderTurns ==
  ASSUME NEW m \in Nat, IsPrimeNumber(m), NEW e1 \in Nat, NEW e \in Nat, e = 2 * e1, NEW s \in Nat,
         NEW g \in Int, Same(Power(g, s * e), -1, m),
         NEW b \in Int, Same(Power(b, e), 1, m), ~Same(Power(b, e1), 1, m),
         NEW t \in Int, Same(t, Power(g, s), m), NEW g2 \in Int, Same(g2, t * t, m),
         NEW b2 \in Int, Same(b2, b * g2, m)
  PROVE  Same(Power(g2, e1), -1, m) /\ Same(Power(b2, e1), 1, m)
<1>1. m \in Int /\ e1 + e1 = e /\ -1 \in Int /\ 1 \in Int /\ t * t \in Int /\ b * g2 \in Int /\ s * e \in Nat
  OBVIOUS
<1>2. /\ Power(g2, e1) \in Int /\ Power(t, e1) \in Int /\ Power(t, e) \in Int /\ Power(g, s) \in Int
      /\ Power(b, e1) \in Int /\ Power(b2, e1) \in Int /\ Power(Power(g, s), e) \in Int
  <2>1. \A z \in Int, n \in Nat : Power(z, n) \in Int
    BY PowerIs
  <2>2. QED
    BY <2>1
<1>3. Same(Power(g2, e1), -1, m)
  <2>1. Same(Power(g2, e1), Power(t * t, e1), m)
    BY <1>1, PowerSame
  <2>2. Power(t * t, e1) = Power(t, e1) * Power(t, e1)
    BY PowerOfProduct
  <2>3. Power(t, e) = Power(t, e1) * Power(t, e1)
    BY <1>1, PowerSum
  <2>4. Same(Power(t, e), Power(Power(g, s), e), m)
    BY <1>1, <1>2, PowerSame
  <2>5. Power(Power(g, s), e) = Power(g, s * e)
    BY PowerOfPower
  <2>6. Same(Power(g2, e1), Power(t, e), m)
    BY <2>1, <2>2, <2>3
  <2>7. Same(Power(t, e), -1, m)
    BY <1>1, <1>2, <2>4, <2>5, SameChain
  <2>8. QED
    BY <1>1, <1>2, <2>6, <2>7, SameChain
<1>4. Same(Power(b, e1), -1, m)
  <2> DEFINE w == Power(b, e1)
  <2>1. Power(b, e) = w * w
    BY <1>1, PowerSum
  <2>2. Same(w * w, 1 * 1, m) /\ w \in Int
    BY <1>2, <2>1
  <2> HIDE DEF w
  <2>3. Same(w, 1, m) \/ Same(w, -1, m)
    BY <1>1, <2>2, RootsOfSquare
  <2>4. QED
    BY <2>3 DEF w
<1>5. Same(Power(b2, e1), 1, m)
  <2>1. Same(Power(b2, e1), Power(b * g2, e1), m)
    BY <1>1, PowerSame
  <2>2. Power(b * g2, e1) = Power(b, e1) * Power(g2, e1)
    BY PowerOfProduct
  <2>3. Same(Power(b, e1) * Power(g2, e1), (-1) * (-1), m)
    BY <1>1, <1>2, <1>3, <1>4, SameTimes
  <2>4. Power(b, e1) * Power(g2, e1) \in Int /\ (-1) * (-1) = 1
    BY <1>2
  <2>5. Same(Power(b2, e1), Power(b, e1) * Power(g2, e1), m)
    BY <2>1, <2>2
  <2>6. Same(Power(b, e1) * Power(g2, e1), 1, m)
    BY <2>3, <2>4
  <2>7. QED
    BY <1>1, <1>2, <2>4, <2>5, <2>6, SameChain
<1>6. QED
  BY <1>3, <1>5

(* What mpz_jacobi answers for a residue, for every odd modulus.           *)
LEMMA JacobiOfResidue ==
  ASSUME NEW W \in Nat, Binary(W), NEW m \in Nat, m % 2 = 1, m < 2^W, NEW v \in Int, NEW x \in Int, Same(x, v, m)
  PROVE  /\ Jacobi(v, m) = JacobiReference(v, m)
         /\ Jacobi(x, m) = 0 => ~Coprime(v, m)
         /\ Jacobi(x, m) \in {-1, 0, 1}
<1>1. m > 0 /\ m \in Int /\ m = 2 * ((m - 1) \div 2) + 1 /\ (m - 1) \div 2 \in Nat
  OBVIOUS
<1>2. m \in OddTo(2^W - 1)
  <2>1. W \in 0..(W + 1)
    OBVIOUS
  <2>2. 2^W \in Nat
    BY <2>1, TwoPower
  <2> DEFINE z == 2^W
  <2>3. z \in Nat /\ m < z
    BY <2>2
  <2> HIDE DEF z
  <2>4. m \in 1..(z - 1)
    BY <1>1, <2>3
  <2>5. QED
    BY <2>4 DEF OddTo, z
<1>3. Jacobi(v, m) = Sym(v, m) /\ Jacobi(x, m) = Sym(x, m)
  BY <1>2, JacobiIs
<1>4. JacobiReference(v, m) = Sym(v, m)
  BY ReferenceIs
<1>5. Coprime(x, m) => Gauss(x, (m - 1) \div 2) \in {1, -1}
  BY <1>1, GaussIs
<1>6. Coprime(v, m) => Coprime(x, m)
  <2>1. Same(v, x, m)
    BY <1>1, SameBack
  <2>2. QED
    BY <1>1, <2>1, CoprimeSame
<1>7. Sym(x, m) = IF Coprime(x, m) THEN Gauss(x, (m - 1) \div 2) ELSE 0
  BY DEF Sym
<1>8. QED
  BY <1>3, <1>4, <1>5, <1>6, <1>7

------------------------------------------------------------------------------
(* Square roots: what holds at each place of sqrtm.                        *)

Rooted(v, m, r) == (r * r - v) % m = 0 \/ (~IsPrimeNumber(m) /\ ~Coprime(v, m))

Called ==
  /\ second \in BOOLEAN
  /\ sqrtPc = "idle" => ~second
  /\ sqrtPc # "idle" => <<pp, qq>> \in Moduli /\ num \in Nums
  /\ second => pp > 0 /\ sp \in Int /\ Rooted(num, pp, sp)

Tonelli == Mod > 1 /\ Mod % 8 = 1

Searches ==
  /\ Tonelli
  /\ xx = Residue /\ kk = ZeroBits(Mod - 1) /\ nn \in 0..(Mod - 1)
  /\ Jacobi(Residue, Mod) = 1

(* k bounds the orders: g has order 2^k and b a smaller one.               *)
Works ==
  /\ Tonelli
  /\ bb \in 0..(Mod - 1) /\ gg \in 0..(Mod - 1) /\ yy \in 0..(Mod - 1)
  /\ kk \in 0..(MaxSquarings - 1)
  /\ Same(yy * yy, num * bb, Mod)
  /\ IsPrimeNumber(Mod) =>
       /\ kk >= 1
       /\ Same(Power(gg, 2^(kk - 1)), -1, Mod)
       /\ Same(Power(bb, 2^(kk - 1)), 1, Mod)

OrderCounts ==
  /\ tt \in 0..(Mod - 1)
  /\ mm \in 0..MaxSquarings
  /\ mm = 0 => tt = bb
  /\ IsPrimeNumber(Mod) =>
       /\ mm < kk
       /\ Same(tt, Power(bb, 2^mm), Mod)
       /\ mm > 0 => ~Same(Power(bb, 2^(mm - 1)), 1, Mod)

RootInv ==
  /\ sqrtPc \in {"idle", "sqrtm", "search", "outer", "inner", "root", "done"}
  /\ Called
  /\ sqrtPc = "search" => Searches
  /\ sqrtPc \in {"outer", "inner"} => Works
  /\ sqrtPc = "inner" => OrderCounts
  /\ sqrtPc = "root" => Mod > 0 /\ root \in Int /\ Rooted(num, Mod, root)
  /\ RootExactly

LEMMA ModulusIs ==
  ASSUME Called, sqrtPc # "idle"
  PROVE  /\ MaxSquarings \in Nat /\ Binary(MaxSquarings)
         /\ pp \in Int /\ qq \in Int /\ Mod \in Int /\ num \in Int
         /\ pp < 2^MaxSquarings /\ qq < 2^MaxSquarings /\ Mod < 2^MaxSquarings
         /\ Mod = IF second THEN qq ELSE pp
<1>1. <<pp, qq>> \in Moduli /\ num \in Nums /\ second \in BOOLEAN
  BY DEF Called
<1>2. MaxSquarings \in Nat /\ Binary(MaxSquarings) /\ Nums \subseteq Int /\ Moduli \subseteq Int \X Int
  BY SqrtAssumption DEF Binary
<1>3. pp \in Int /\ qq \in Int
  BY <1>1, <1>2
<1>4. <<pp, qq>>[1] < 2^MaxSquarings /\ <<pp, qq>>[2] < 2^MaxSquarings
  BY <1>1, SqrtAssumption
<1>5. pp < 2^MaxSquarings /\ qq < 2^MaxSquarings
  BY <1>4
<1>6. Mod = pp \/ Mod = qq
  BY DEF Mod
<1>7. Mod = IF second THEN qq ELSE pp
  BY DEF Mod
<1>8. QED
  BY <1>1, <1>2, <1>3, <1>5, <1>6, <1>7

LEMMA RootedIs ==
  ASSUME NEW m \in Nat, m > 0, NEW v \in Int, NEW r \in Int
  PROVE  /\ (r * r) % m = v % m <=> Same(r * r, v, m)
         /\ (r * r - v) % m = 0 <=> Same(r * r, v, m)
<1>1. r * r \in Int /\ r * r - v \in Int
  OBVIOUS
<1>2. Same(r * r, v, m) <=> (r * r) % m = v % m
  BY <1>1, SameIs
<1>3. (r * r - v) % m = 0 <=> Multiple(m, r * r - v)
  BY <1>1, MultipleIs
<1>4. QED
  BY <1>2, <1>3 DEF Same

OddPrimeNumber(m) == IsPrimeNumber(m) /\ m # 2

(* sqrtm gives up only on what has no root.                                *)
LEMMA FailInv ==
  ASSUME RootInv, sqrtPc # "idle", sqrtPc # "done", Fail, UNCHANGED <<pp, qq, num, second, sp>>,
         OddPrimeNumber(Mod) => ~IsSquareMod(num, Mod)
  PROVE  RootInv'
<1>1. sqrtPc' = "done" /\ ok' = FALSE
  BY DEF Fail
<1>2. Called'
  <2>1. Called
    BY DEF RootInv
  <2>2. Rooted(num, pp, sp)' <=> Rooted(num, pp, sp)
    BY DEF Rooted
  <2>3. QED
    BY <1>1, <2>1, <2>2 DEF Called
<1>3. RootExactly'
  <2>1. SUFFICES ASSUME BothPrime', pp # 2, qq # 2 PROVE ~(IsSquareMod(num, pp) /\ IsSquareMod(num, qq))
    <3>1. IsSquareMod(num, pp)' = IsSquareMod(num, pp) /\ IsSquareMod(num, qq)' = IsSquareMod(num, qq)
      BY DEF IsSquareMod
    <3>2. sqrtPc' # "sqrtm" /\ sqrtPc' # "root"
      BY <1>1
    <3>3. QED
      BY <1>1, <2>1, <3>1, <3>2 DEF RootExactly
  <2>2. IsPrimeNumber(pp) /\ IsPrimeNumber(qq)
    BY <2>1 DEF BothPrime
  <2>3. Mod = pp \/ Mod = qq
    BY DEF Mod
  <2>4. OddPrimeNumber(Mod)
    BY <2>1, <2>2, <2>3 DEF OddPrimeNumber
  <2>5. QED
    BY <2>3, <2>4
<1>4. QED
  BY <1>1, <1>2, <1>3 DEF RootInv

LEMMA SucceedInv ==
  ASSUME RootInv, sqrtPc # "idle", sqrtPc # "done", NEW r \in Int, Mod > 0, Rooted(num, Mod, r),
         Succeed(r), UNCHANGED <<pp, qq, num, second, sp>>
  PROVE  RootInv'
<1>1. sqrtPc' = "root" /\ root' = r
  BY DEF Succeed
<1>2. Called'
  <2>1. Called
    BY DEF RootInv
  <2>2. Rooted(num, pp, sp)' <=> Rooted(num, pp, sp)
    BY DEF Rooted
  <2>3. QED
    BY <1>1, <2>1, <2>2 DEF Called
<1>3. Mod' = Mod
  BY DEF Mod
<1>4. Rooted(num, Mod, root)'
  BY <1>1, <1>3 DEF Rooted
<1>5. RootExactly'
  BY <1>1, <1>4 DEF RootExactly, Rooted
<1>6. QED
  BY <1>1, <1>2, <1>3, <1>4, <1>5 DEF RootInv
(* The symbol of an argument is the reference's.                           *)
LEMMA SymbolOfArgument ==
  ASSUME NEW m \in Int, m < 2^MaxSquarings, NEW v \in Int
  PROVE  m > 0 /\ m % 2 = 1 => Jacobi(v, m) = JacobiReference(v, m)
<1>1. MaxSquarings \in Nat /\ Binary(MaxSquarings)
  BY SqrtAssumption DEF Binary
<1>2. SUFFICES ASSUME m > 0, m % 2 = 1 PROVE Jacobi(v, m) = JacobiReference(v, m)
  OBVIOUS
<1>3. m \in Nat /\ m \in Int /\ Multiple(m, v - v)
  <2>1. v - v = 0 * m /\ 0 \in Int
    OBVIOUS
  <2>2. QED
    BY <1>2, <2>1 DEF Multiple
<1>4. Same(v, v, m)
  BY <1>3 DEF Same
<1>5. QED
  BY <1>1, <1>2, <1>3, <1>4, JacobiOfResidue

LEMMA RootInit == ASSUME SqrtInit PROVE RootInv
<1>1. Called
  BY DEF SqrtInit, Called
<1>2. RootExactly
  BY DEF SqrtInit, RootExactly
<1>3. QED
  BY <1>1, <1>2 DEF SqrtInit, RootInv

LEMMA AskedInv ==
  ASSUME RootInv, NEW pq \in Moduli, NEW v \in Nums, SqrtPQ(pq, v)
  PROVE  RootInv'
<1>1. /\ sqrtPc = "idle" /\ ~second /\ second' = second
      /\ pp' = pq[1] /\ qq' = pq[2] /\ num' = v /\ sqrtPc' = "sqrtm"
  <2>1. sqrtPc = "idle" => ~second
    BY DEF RootInv, Called
  <2>2. QED
    BY <2>1 DEF SqrtPQ
<1>2. pq \in Int \X Int /\ v \in Int /\ pq[1] < 2^MaxSquarings
  BY SqrtAssumption
<1>3. pq = <<pq[1], pq[2]>> /\ pq[1] \in Int
  BY <1>2
<1>4. Mod' = pq[1]
  BY <1>1 DEF Mod
<1>5. Called'
  BY <1>1, <1>3 DEF Called, RootInv
<1>6. RootExactly'
  <2>1. pq[1] > 0 /\ pq[1] % 2 = 1 => Jacobi(v, pq[1]) = JacobiReference(v, pq[1])
    BY <1>2, <1>3, SymbolOfArgument
  <2>2. QED
    BY <1>1, <1>4, <2>1 DEF RootExactly
<1>7. QED
  BY <1>1, <1>5, <1>6 DEF RootInv

LEMMA SecondInv ==
  ASSUME RootInv, SecondRoot
  PROVE  RootInv'
<1>1. /\ sqrtPc = "root" /\ second = FALSE /\ second' = TRUE /\ sp' = root /\ sqrtPc' = "sqrtm"
      /\ UNCHANGED <<pp, qq, num>>
  BY DEF SecondRoot, RootInv, Called
<1>2. Mod = pp /\ Mod' = qq
  BY <1>1 DEF Mod
<1>3. root \in Int /\ pp > 0 /\ Rooted(num, pp, root)
  BY <1>1, <1>2 DEF RootInv
<1>4. qq \in Int /\ num \in Int /\ qq < 2^MaxSquarings
  BY <1>1, ModulusIs DEF RootInv
<1>5. Called'
  <2>1. Rooted(num, pp, sp)' <=> Rooted(num, pp, root)
    BY <1>1 DEF Rooted
  <2>2. QED
    BY <1>1, <1>3, <2>1 DEF Called, RootInv
<1>6. RootExactly'
  <2>1. qq > 0 /\ qq % 2 = 1 => Jacobi(num, qq) = JacobiReference(num, qq)
    BY <1>4, SymbolOfArgument
  <2>2. QED
    BY <1>1, <1>2, <2>1 DEF RootExactly
<1>7. QED
  BY <1>1, <1>5, <1>6 DEF RootInv

(* What a step within sqrtm leaves alone.                                  *)
LEMMA WithinInv ==
  ASSUME RootInv, sqrtPc # "idle", sqrtPc' \in {"search", "outer", "inner"},
         UNCHANGED <<pp, qq, num, second, sp>>,
         (sqrtPc = "search" => Searches)', (sqrtPc \in {"outer", "inner"} => Works)', (sqrtPc = "inner" => OrderCounts)'
  PROVE  RootInv'
<1>1. Called'
  <2>1. Rooted(num, pp, sp)' <=> Rooted(num, pp, sp)
    BY DEF Rooted
  <2>2. QED
    BY <2>1 DEF Called, RootInv
<1>2. RootExactly'
  BY DEF RootExactly
<1>3. QED
  BY <1>1, <1>2 DEF RootInv
------------------------------------------------------------------------------
(* The branches of sqrtm that need no loop.                                *)

LEMMA ModTimes ==
  ASSUME NEW m \in Nat, m > 0, NEW s \in Int, NEW a \in Int, Same(s, a, m), NEW u \in Int
  PROVE  (s * u) % m \in Int /\ Same((s * u) % m, a * u, m)
<1>1. s * u \in Int /\ a * u \in Int /\ m \in Int
  OBVIOUS
<1> DEFINE r == (s * u) % m
<1>2. r \in Int /\ Same(r, s * u, m)
  BY <1>1, ResidueOf
<1> HIDE DEF r
<1>3. Same(u, u, m)
  BY <1>1, SameItself
<1>4. Same(s * u, a * u, m)
  BY <1>1, <1>3, SameTimes
<1>5. Same(r, a * u, m)
  BY <1>1, <1>2, <1>4, SameChain
<1>6. QED
  BY <1>2, <1>5 DEF r

LEMMA EntryQuarter ==
  ASSUME NEW m \in Nat, m % 4 = 3, NEW v \in Int, NEW r, r = PowMod(v % m, (m + 1) \div 4, m)
  PROVE  r \in Int /\ (IsPrimeNumber(m) /\ IsSquareMod(v, m) => Same(r * r, v, m))
<1> DEFINE h == (m - 1) \div 2
           e == (m + 1) \div 4
           x == v % m
<1>1. m > 0 /\ h \in Nat /\ e \in Nat /\ m = 2 * h + 1 /\ 2 * e = h + 1 /\ m \in Int
  OBVIOUS
<1>2. x \in 0..(m - 1) /\ x \in Int /\ Same(x, v, m)
  BY <1>1, ResidueOf
<1>3. r = PowMod(x, e, m)
  OBVIOUS
<1> HIDE DEF h, e, x
<1>4. r \in Int /\ Same(r * r, Power(x, 2 * e), m)
  BY <1>1, <1>2, <1>3, SquareOfPowMod
<1>5. ASSUME IsPrimeNumber(m), IsSquareMod(v, m) PROVE Same(r * r, v, m)
  <2>1. Same(r * r, x, m)
    BY <1>1, <1>2, <1>4, <1>5, Quarter
  <2>2. r * r \in Int
    BY <1>4
  <2>3. QED
    BY <1>1, <1>2, <2>1, <2>2, SameChain
<1>6. QED
  BY <1>4, <1>5

LEMMA EighthRoot ==
  ASSUME NEW m \in Nat, m % 8 = 5, IsPrimeNumber(m), NEW v \in Int, IsSquareMod(v, m),
         NEW x \in 0..(m - 1), Same(x, v, m), NEW t, t = m \div 8,
         NEW u \in Int, Same(u, 2 * x, m), NEW a \in Int, Same(a * a, Power(u, 2 * t), m),
         NEW i \in Int, Same(i, (a * a) * u, m), NEW r \in Int, Same(r, ((i - 1) * x) * a, m)
  PROVE  Same(r * r, v, m)
<1> DEFINE h == (m - 1) \div 2
<1>1. m > 0 /\ h \in Nat /\ t \in Nat /\ m = 2 * h + 1 /\ h = 2 * (2 * t + 1) /\ m \in Int /\ x \in Int
  OBVIOUS
<1>2. Gauss(2, h) = -1
  <2>1. (2 * h + 1) % 8 = 5
    BY <1>1
  <2> HIDE DEF h
  <2>2. 0 \in Nat /\ 5 \in {3, 5}
    OBVIOUS
  <2>3. Gauss(2, h) = IF (2 * h + 1) % 8 \in {3, 5} THEN -1 ELSE 1
    BY <1>1, <2>2, SignRules
  <2>4. QED
    BY <2>1, <2>2, <2>3
<1> HIDE DEF h
<1>3. Same(r * r, x, m)
  BY <1>1, <1>2, Eighth
<1>4. r * r \in Int
  OBVIOUS
<1>5. QED
  BY <1>1, <1>3, <1>4, SameChain

(* p = 5 mod 8: the values of sqrtm.                                       *)
EighthU(v, m) == (2 * (v % m)) % m
EighthA(v, m) == PowMod(EighthU(v, m), m \div 8, m)
EighthI(v, m) == (((EighthA(v, m) * EighthA(v, m)) % m) * EighthU(v, m)) % m
EighthR(v, m) == (((((EighthI(v, m) - 1) % m) * (v % m)) % m) * EighthA(v, m)) % m

LEMMA EntryEighth ==
  ASSUME NEW m \in Nat, m % 8 = 5, NEW v \in Int
  PROVE  /\ EighthR(v, m) \in Int
         /\ IsPrimeNumber(m) /\ IsSquareMod(v, m) => Same(EighthR(v, m) * EighthR(v, m), v, m)
<1> DEFINE t == m \div 8
           x == v % m
           u == EighthU(v, m)
           a == EighthA(v, m)
           i == EighthI(v, m)
           r == EighthR(v, m)
<1>1. m > 0 /\ t \in Nat /\ m \in Int
  OBVIOUS
<1>2. x \in 0..(m - 1) /\ x \in Int /\ Same(x, v, m)
  BY <1>1, ResidueOf
<1>3. u = (2 * x) % m /\ a = PowMod(u, t, m)
  BY DEF EighthU, EighthA
<1>4. i = (((a * a) % m) * u) % m /\ r = (((((i - 1) % m) * x) % m) * a) % m
  BY DEF EighthI, EighthR
<1> HIDE DEF t, x, u, a, i, r
<1>5. u \in Int /\ Same(u, 2 * x, m)
  <2>1. 2 * x \in Int
    BY <1>2
  <2>2. QED
    BY <1>1, <1>3, <2>1, ResidueOf
<1>6. a \in Int /\ Same(a * a, Power(u, 2 * t), m)
  BY <1>1, <1>3, <1>5, SquareOfPowMod
<1>7. i \in Int /\ Same(i, (a * a) * u, m)
  <2> DEFINE s == (a * a) % m
  <2>1. a * a \in Int
    BY <1>6
  <2>2. s \in Int /\ Same(s, a * a, m)
    BY <1>1, <2>1, ResidueOf
  <2>3. i = (s * u) % m
    BY <1>4
  <2> HIDE DEF s
  <2>4. (s * u) % m \in Int /\ Same((s * u) % m, (a * a) * u, m)
    BY <1>1, <1>5, <2>1, <2>2, ModTimes
  <2>5. QED
    BY <2>3, <2>4
<1>8. r \in Int /\ Same(r, ((i - 1) * x) * a, m)
  <2> DEFINE s == (i - 1) % m
             w == (s * x) % m
  <2>1. i - 1 \in Int /\ (i - 1) * x \in Int
    BY <1>2, <1>7
  <2>2. s \in Int /\ Same(s, i - 1, m)
    BY <1>1, <2>1, ResidueOf
  <2>3. r = (w * a) % m
    BY <1>4
  <2> HIDE DEF s
  <2>4. w \in Int /\ Same(w, (i - 1) * x, m)
    BY <1>1, <1>2, <2>1, <2>2, ModTimes
  <2> HIDE DEF w
  <2>5. (w * a) % m \in Int /\ Same((w * a) % m, ((i - 1) * x) * a, m)
    BY <1>1, <1>6, <2>1, <2>4, ModTimes
  <2>6. QED
    BY <2>3, <2>5
<1>9. IsPrimeNumber(m) /\ IsSquareMod(v, m) => Same(r * r, v, m)
  <2>1. t = m \div 8
    BY DEF t
  <2>2. QED
    BY <1>2, <1>5, <1>6, <1>7, <1>8, <2>1, EighthRoot
<1>10. QED
  BY <1>8, <1>9 DEF r

------------------------------------------------------------------------------
(* What the symbol says of a prime.                                        *)
LEMMA SymbolSays ==
  ASSUME NEW W \in Nat, Binary(W), NEW h \in Nat, NEW m \in Nat, m = 2 * h + 1, m < 2^W, IsPrimeNumber(m),
         NEW v \in Int, NEW x \in Int, Same(x, v, m)
  PROVE  /\ Jacobi(x, m) = -1 => ~Multiple(m, x) /\ Gauss(x, h) = -1 /\ ~IsSquareMod(v, m)
         /\ Jacobi(x, m) = 0 => Multiple(m, v)
         /\ Jacobi(x, m) = 1 => ~Multiple(m, x) /\ Gauss(x, h) = 1
<1>1. m > 0 /\ m \in Int
  OBVIOUS
<1>2. Multiple(m, x) <=> Multiple(m, v)
  BY <1>1, MultipleOfSame
<1>3. /\ Multiple(m, x) => Jacobi(x, m) = 0
      /\ ~Multiple(m, x) => Jacobi(x, m) = Gauss(x, h) /\ Gauss(x, h) \in {1, -1}
  BY JacobiAtPrime
<1>4. Gauss(x, h) = Gauss(v, h)
  BY GaussSame
<1>5. ~Multiple(m, v) => (Gauss(v, h) = 1 <=> IsSquareMod(v, m))
  BY EulerCriterion
<1>6. QED
  BY <1>2, <1>3, <1>4, <1>5

(* sqrtm before its loops: a root is returned, or there is none.           *)
LEMMA EntryInv ==
  ASSUME RootInv, Entry
  PROVE  RootInv'
<1>1. sqrtPc = "sqrtm" /\ UNCHANGED <<pp, qq, num, second, sp>> /\ sqrtPc # "idle" /\ sqrtPc # "done"
  BY DEF Entry
<1>2. MaxSquarings \in Nat /\ Binary(MaxSquarings) /\ Mod \in Int /\ num \in Int /\ Mod < 2^MaxSquarings
  BY <1>1, ModulusIs DEF RootInv
<1>3. OddPrimeNumber(Mod) => Mod > 1 /\ Mod % 2 = 1
  <2>1. SUFFICES ASSUME OddPrimeNumber(Mod) PROVE Mod > 1 /\ Mod % 2 = 1
    OBVIOUS
  <2>2. IsPrimeNumber(Mod) /\ Mod # 2
    BY <2>1 DEF OddPrimeNumber
  <2>3. Mod >= 2
    BY <2>2 DEF IsPrimeNumber
  <2>4. Mod \in Nat
    BY <1>2, <2>3
  <2>5. Mod % 2 # 0
    BY <2>2, <2>4, EvenPrime
  <2>6. QED
    BY <1>2, <2>3, <2>5
<1>4. ASSUME Fail, OddPrimeNumber(Mod) => ~IsSquareMod(num, Mod) PROVE RootInv'
  BY <1>1, <1>4, FailInv
<1>5. ASSUME NEW r \in Int, Mod > 0, Rooted(num, Mod, r), Succeed(r) PROVE RootInv'
  BY <1>1, <1>5, SucceedInv
<1>6. ASSUME NEW r \in Int, Mod > 0, IsPrimeNumber(Mod) /\ IsSquareMod(num, Mod) => Same(r * r, num, Mod),
             IF Test(r) THEN Succeed(r) ELSE Fail
      PROVE  RootInv'
  <2>1. Mod \in Nat
    BY <1>2, <1>6
  <2>2. /\ (r * r) % Mod = num % Mod <=> Same(r * r, num, Mod)
        /\ (r * r - num) % Mod = 0 <=> Same(r * r, num, Mod)
    BY <1>2, <1>6, <2>1, RootedIs
  <2>3. Test(r) <=> Same(r * r, num, Mod)
    BY <2>2 DEF Test, Residue
  <2>4. CASE Test(r)
    <3>1. Succeed(r)
      BY <1>6, <2>4
    <3>2. Rooted(num, Mod, r)
      BY <2>2, <2>3, <2>4 DEF Rooted
    <3>3. QED
      BY <1>5, <1>6, <3>1, <3>2
  <2>5. CASE ~Test(r)
    <3>1. Fail
      BY <1>6, <2>5
    <3>2. OddPrimeNumber(Mod) => ~IsSquareMod(num, Mod)
      BY <1>6, <2>3, <2>5 DEF OddPrimeNumber
    <3>3. QED
      BY <1>4, <3>1, <3>2
  <2>6. QED
    BY <2>4, <2>5
<1>7. CASE (Mod <= 0 \/ Mod % 2 = 0) /\ Fail
  BY <1>2, <1>3, <1>4, <1>7
<1>8. CASE Mod = 1 /\ Fail
  BY <1>3, <1>4, <1>8
<1>9. CASE /\ Mod > 0 /\ Mod % 4 = 3
           /\ LET r == PowMod(Residue, (Mod + 1) \div 4, Mod) IN IF Test(r) THEN Succeed(r) ELSE Fail
  <2> DEFINE r == PowMod(Residue, (Mod + 1) \div 4, Mod)
  <2>1. IF Test(r) THEN Succeed(r) ELSE Fail
    BY <1>9
  <2>2. r = PowMod(num % Mod, (Mod + 1) \div 4, Mod)
    BY DEF Residue
  <2> HIDE DEF r
  <2>3. Mod \in Nat /\ Mod > 0 /\ Mod % 4 = 3
    BY <1>2, <1>9
  <2>4. r \in Int /\ (IsPrimeNumber(Mod) /\ IsSquareMod(num, Mod) => Same(r * r, num, Mod))
    BY <1>2, <2>2, <2>3, EntryQuarter
  <2>5. QED
    BY <1>6, <2>1, <2>3, <2>4
<1>10. CASE /\ Mod > 0 /\ Mod % 8 = 5
            /\ LET u == (2 * Residue) % Mod
                   a == PowMod(u, Mod \div 8, Mod)
                   i == (((a * a) % Mod) * u) % Mod
                   r == (((((i - 1) % Mod) * Residue) % Mod) * a) % Mod
               IN IF Test(r) THEN Succeed(r) ELSE Fail
  <2> DEFINE r == EighthR(num, Mod)
  <2>1. IF Test(r) THEN Succeed(r) ELSE Fail
    BY <1>10 DEF EighthU, EighthA, EighthI, EighthR, Residue
  <2>2. Mod \in Nat /\ Mod > 0 /\ Mod % 8 = 5
    BY <1>2, <1>10
  <2>3. r \in Int /\ (IsPrimeNumber(Mod) /\ IsSquareMod(num, Mod) => Same(r * r, num, Mod))
    BY <1>2, <2>2, EntryEighth
  <2> HIDE DEF r
  <2>4. QED
    BY <1>6, <2>1, <2>2, <2>3
<1>11. CASE /\ Mod > 1 /\ Mod % 8 = 1
            /\ \/ Jacobi(Residue, Mod) = -1 /\ Fail
               \/ Jacobi(Residue, Mod) = 0 /\ Succeed(0)
  <2> DEFINE x == num % Mod
             h == (Mod - 1) \div 2
  <2>1. Residue = x
    BY DEF Residue
  <2>2. Mod \in Nat /\ Mod > 0 /\ h \in Nat /\ Mod = 2 * h + 1 /\ Mod % 2 = 1 /\ 0 \in Int /\ Mod \in Int
    BY <1>2, <1>11
  <2>3. x \in Int /\ Same(x, num, Mod)
    BY <1>2, <2>2, ResidueOf
  <2> HIDE DEF x, h
  <2>4. IsPrimeNumber(Mod) =>
          /\ Jacobi(x, Mod) = -1 => ~IsSquareMod(num, Mod)
          /\ Jacobi(x, Mod) = 0 => Multiple(Mod, num)
    BY <1>2, <2>2, <2>3, SymbolSays
  <2>5. Jacobi(x, Mod) = 0 => ~Coprime(num, Mod)
    BY <1>2, <2>2, <2>3, JacobiOfResidue
  <2>6. CASE Jacobi(x, Mod) = -1 /\ Fail
    BY <1>4, <2>4, <2>6 DEF OddPrimeNumber
  <2>7. CASE Jacobi(x, Mod) = 0 /\ Succeed(0)
    <3>1. Multiple(Mod, num) => (0 * 0 - num) % Mod = 0
      <4>1. SUFFICES ASSUME Multiple(Mod, num) PROVE (0 * 0 - num) % Mod = 0
        OBVIOUS
      <4>2. -1 \in Int /\ num * (-1) = 0 * 0 - num /\ 0 * 0 - num \in Int
        BY <1>2
      <4>3. Multiple(Mod, num * (-1))
        BY <1>2, <4>1, <4>2, MultipleTimes
      <4>4. Multiple(Mod, 0 * 0 - num)
        BY <4>2, <4>3
      <4>5. QED
        BY <2>2, <4>2, <4>4, MultipleIs
    <3>2. Rooted(num, Mod, 0)
      BY <2>4, <2>5, <2>7, <3>1 DEF Rooted
    <3>3. QED
      BY <1>5, <2>2, <2>7, <3>2
  <2>8. QED
    BY <1>11, <2>1, <2>6, <2>7
<1>12. QED
  BY <1>7, <1>8, <1>9, <1>10, <1>11 DEF Entry

------------------------------------------------------------------------------
(* The loops of Tonelli and Shanks.                                        *)

LEMMA WorkAt ==
  ASSUME RootInv, sqrtPc # "idle"
  PROVE  /\ MaxSquarings \in Nat /\ Binary(MaxSquarings) /\ Mod \in Int /\ num \in Int /\ Mod < 2^MaxSquarings
         /\ Mod > 0 => Residue \in 0..(Mod - 1) /\ Residue \in Int /\ Same(Residue, num, Mod)
<1>1. MaxSquarings \in Nat /\ Binary(MaxSquarings) /\ Mod \in Int /\ num \in Int /\ Mod < 2^MaxSquarings
  BY ModulusIs DEF RootInv
<1>2. ASSUME Mod > 0 PROVE Residue \in 0..(Mod - 1) /\ Residue \in Int /\ Same(Residue, num, Mod)
  <2>1. Mod \in Nat
    BY <1>1, <1>2
  <2>2. QED
    BY <1>1, <1>2, <2>1, ResidueOf DEF Residue
<1>3. QED
  BY <1>1, <1>2

LEMMA TonelliIs ==
  ASSUME Mod \in Int, Tonelli
  PROVE  /\ Mod \in Nat /\ Mod > 0 /\ Mod >= 9 /\ Mod % 2 = 1
         /\ (Mod - 1) \div 2 \in Nat /\ Mod = 2 * ((Mod - 1) \div 2) + 1
BY DEF Tonelli

LEMMA StartInv ==
  ASSUME RootInv, BeginSearch
  PROVE  RootInv'
<1>1. /\ sqrtPc = "sqrtm" /\ sqrtPc' = "search" /\ UNCHANGED <<pp, qq, num, second, sp>> /\ Tonelli
      /\ Jacobi(Residue, Mod) = 1 /\ xx' = Residue /\ nn' = 2 /\ kk' = ZeroBits(Mod - 1)
  BY DEF BeginSearch, Tonelli
<1>2. Mod' = Mod /\ Residue' = Residue
  BY <1>1 DEF Mod, Residue
<1>3. Mod \in Int /\ Mod >= 9
  BY <1>1, WorkAt, TonelliIs
<1>4. Searches'
  <2>1. 2 \in 0..(Mod - 1)
    BY <1>3
  <2>2. Tonelli'
    BY <1>1, <1>2 DEF Tonelli
  <2>3. QED
    BY <1>1, <1>2, <2>1, <2>2 DEF Searches
<1>5. QED
  BY <1>1, <1>4, WithinInv

LEMMA TryInv ==
  ASSUME RootInv, TryNext
  PROVE  RootInv'
<1>1. /\ sqrtPc = "search" /\ sqrtPc' = "search" /\ UNCHANGED <<pp, qq, num, second, sp, xx, kk>>
      /\ nn' = (nn + 1) % Mod
  BY DEF TryNext, NextCandidate
<1>2. Mod' = Mod /\ Residue' = Residue
  BY <1>1 DEF Mod, Residue
<1>3. Searches
  BY <1>1 DEF RootInv
<1>4. nn' \in 0..(Mod - 1)
  <2>1. Mod \in Int /\ Tonelli /\ nn \in 0..(Mod - 1)
    BY <1>1, <1>3, WorkAt DEF Searches
  <2>2. Mod \in Nat /\ Mod > 0 /\ nn + 1 \in Int
    BY <2>1, TonelliIs
  <2>3. (nn + 1) % Mod \in 0..(Mod - 1)
    BY <2>2, SameRemainder
  <2>4. QED
    BY <1>1, <2>3
<1>5. Searches'
  <2>1. Tonelli'
    BY <1>2, <1>3 DEF Tonelli, Searches
  <2>2. QED
    BY <1>1, <1>2, <1>3, <1>4, <2>1 DEF Searches
<1>6. QED
  BY <1>1, <1>5, WithinInv

(* A non-residue is found: it has the full power of 2 in its order.        *)
LEMMA LoopStarts ==
  ASSUME NEW W \in Nat, Binary(W), NEW h \in Nat, NEW m \in Nat, m = 2 * h + 1, m > 1, m < 2^W,
         NEW v \in Int, NEW x \in Int, Same(x, v, m), Jacobi(x, m) = 1, NEW n \in Int, Jacobi(n, m) = -1,
         NEW q \in Nat, NEW e \in Nat, h = q * e,
         NEW b \in Int, Same(b, Power(x, q), m), NEW g \in Int, Same(g, Power(n, q), m)
  PROVE  IsPrimeNumber(m) => Same(Power(g, e), -1, m) /\ Same(Power(b, e), 1, m)
<1>1. SUFFICES ASSUME IsPrimeNumber(m) PROVE Same(Power(g, e), -1, m) /\ Same(Power(b, e), 1, m)
  OBVIOUS
<1>2. Same(n, n, m)
  <2>1. m \in Int
    OBVIOUS
  <2>2. QED
    BY <2>1, SameItself
<1>3. ~Multiple(m, x) /\ Gauss(x, h) = 1
  BY <1>1, SymbolSays
<1>4. ~Multiple(m, n) /\ Gauss(n, h) = -1
  BY <1>1, <1>2, SymbolSays
<1>5. Same(Power(b, e), Gauss(x, h), m)
  BY <1>1, <1>3, OrderBegins
<1>6. Same(Power(g, e), Gauss(n, h), m)
  BY <1>1, <1>4, OrderBegins
<1>7. QED
  BY <1>3, <1>4, <1>5, <1>6

LEMMA FoundInv ==
  ASSUME RootInv, Found
  PROVE  RootInv'
<1>1. /\ sqrtPc = "search" /\ sqrtPc' = "outer" /\ UNCHANGED <<pp, qq, num, second, sp, xx, kk>>
      /\ Jacobi(nn, Mod) = -1
      /\ yy' = PowMod(xx, (OddPart + 1) \div 2, Mod)
      /\ bb' = PowMod(xx, OddPart, Mod) /\ gg' = PowMod(nn, OddPart, Mod)
  BY DEF Found
<1>2. Mod' = Mod
  BY <1>1 DEF Mod
<1>3. Tonelli /\ xx = Residue /\ kk = ZeroBits(Mod - 1) /\ nn \in 0..(Mod - 1) /\ Jacobi(xx, Mod) = 1
  BY <1>1 DEF RootInv, Searches
<1>4. /\ MaxSquarings \in Nat /\ Binary(MaxSquarings) /\ Mod \in Int /\ num \in Int /\ Mod < 2^MaxSquarings
      /\ Mod > 0 => Residue \in 0..(Mod - 1) /\ Residue \in Int /\ Same(Residue, num, Mod)
  BY <1>1, WorkAt
<1> DEFINE h == (Mod - 1) \div 2
           e == 2^(kk - 1)
<1>5. Mod \in Nat /\ Mod > 0 /\ Mod > 1 /\ h \in Nat /\ Mod = 2 * h + 1 /\ nn \in Int
  BY <1>3, <1>4, TonelliIs
<1> HIDE DEF h
<1>6. OddPart = (Mod - 1) \div 2^ZeroBits(Mod - 1)
  BY DEF OddPart
<1>7. kk \in 1..(MaxSquarings - 1) /\ OddPart \in Nat /\ OddPart % 2 = 1 /\ e \in Nat /\ h = OddPart * e
  BY <1>3, <1>4, <1>5, <1>6, TwoAdic
<1> HIDE DEF e
<1>8. xx \in Int /\ Same(xx, num, Mod)
  BY <1>3, <1>4, <1>5
<1>9. yy' \in 0..(Mod - 1) /\ bb' \in 0..(Mod - 1) /\ Same(yy' * yy', num * bb', Mod)
  BY <1>1, <1>4, <1>5, <1>7, <1>8, LoopBegins
<1>10. bb' \in Int /\ Same(bb', Power(xx, OddPart), Mod)
  BY <1>1, <1>5, <1>7, <1>8, SquareOfPowMod
<1>11. gg' \in 0..(Mod - 1) /\ gg' \in Int /\ Same(gg', Power(nn, OddPart), Mod)
  BY <1>1, <1>5, <1>7, SquareOfPowMod
<1>12. IsPrimeNumber(Mod) => Same(Power(gg', e), -1, Mod) /\ Same(Power(bb', e), 1, Mod)
  BY <1>1, <1>3, <1>4, <1>5, <1>7, <1>8, <1>10, <1>11, LoopStarts
<1>13. Works'
  <2>1. Tonelli'
    BY <1>2, <1>3 DEF Tonelli
  <2>2. kk' \in 0..(MaxSquarings - 1) /\ kk' >= 1 /\ kk' = kk
    BY <1>1, <1>4, <1>7
  <2>3. Same(yy * yy, num * bb, Mod)'
    BY <1>1, <1>2, <1>9
  <2>4. IsPrimeNumber(Mod') => Same(Power(gg', 2^(kk' - 1)), -1, Mod') /\ Same(Power(bb', 2^(kk' - 1)), 1, Mod')
    BY <1>2, <1>12, <2>2 DEF e
  <2>5. bb' \in 0..(Mod' - 1) /\ gg' \in 0..(Mod' - 1) /\ yy' \in 0..(Mod' - 1)
    BY <1>2, <1>9, <1>11
  <2>6. QED
    BY <2>1, <2>2, <2>3, <2>4, <2>5 DEF Works
<1>14. QED
  BY <1>1, <1>13, WithinInv

LEMMA OrderInv ==
  ASSUME RootInv, BeginOrder
  PROVE  RootInv'
<1>1. /\ sqrtPc = "outer" /\ sqrtPc' = "inner" /\ UNCHANGED <<pp, qq, num, second, sp, kk, bb, gg, yy>>
      /\ tt' = bb /\ mm' = 0
  BY DEF BeginOrder
<1>2. Mod' = Mod
  BY <1>1 DEF Mod
<1>3. Works
  BY <1>1 DEF RootInv
<1>4. Works'
  <2>1. Tonelli'
    BY <1>2, <1>3 DEF Tonelli, Works
  <2>2. QED
    BY <1>1, <1>2, <1>3, <2>1 DEF Works
<1>5. OrderCounts'
  <2>1. /\ MaxSquarings \in Nat /\ Mod \in Int /\ bb \in 0..(Mod - 1) /\ Binary(MaxSquarings)
        /\ kk \in 0..(MaxSquarings - 1) /\ (IsPrimeNumber(Mod) => kk >= 1)
    BY <1>1, <1>3, WorkAt DEF Works
  <2>2. 2^0 = 1 /\ bb \in Int /\ 0 \in Nat
    BY <2>1 DEF Binary
  <2>3. Power(bb, 1) = bb
    <3>1. Power(bb, 0) = 1 /\ Power(bb, 0 + 1) = Power(bb, 0) * bb
      BY <2>2, PowerIs
    <3>2. QED
      BY <2>2, <3>1
  <2>4. Same(bb, Power(bb, 2^0), Mod)
    BY <2>1, <2>2, <2>3, SameItself
  <2>5. mm' \in 0..MaxSquarings /\ ~(mm' > 0) /\ (IsPrimeNumber(Mod) => mm' < kk)
    BY <1>1, <2>1
  <2>6. tt' \in 0..(Mod' - 1) /\ tt' = bb'
    BY <1>1, <1>2, <2>1
  <2>7. IsPrimeNumber(Mod') => mm' < kk' /\ Same(tt', Power(bb', 2^mm'), Mod')
    BY <1>1, <1>2, <2>4, <2>5
  <2>8. QED
    BY <2>5, <2>6, <2>7 DEF OrderCounts
<1>6. QED
  BY <1>1, <1>4, <1>5, WithinInv

LEMMA SquaredOnce ==
  ASSUME NEW m \in Nat, m > 1, NEW b \in Int, NEW e1 \in Nat, NEW e \in Nat, e = 2 * e1,
         NEW t \in Int, Same(t, Power(b, e1), m), NEW w \in Int, Same(w, t * t, m)
  PROVE  Same(w, Power(b, e), m)
<1>1. m \in Int /\ e1 + e1 = e /\ t * t \in Int
  OBVIOUS
<1>2. Power(b, e1) \in Int /\ Power(b, e) \in Int
  <2>1. \A n \in Nat : Power(b, n) \in Int
    BY PowerIs
  <2>2. QED
    BY <2>1
<1>3. Power(b, e) = Power(b, e1) * Power(b, e1)
  BY <1>1, PowerSum
<1>4. Same(t * t, Power(b, e1) * Power(b, e1), m)
  BY <1>1, <1>2, SameTimes
<1>5. Same(t * t, Power(b, e), m)
  BY <1>3, <1>4
<1>6. QED
  BY <1>1, <1>2, <1>5, SameChain

LEMMA SquareInv ==
  ASSUME RootInv, SquareOnce
  PROVE  RootInv'
<1>1. /\ sqrtPc = "inner" /\ sqrtPc' = "inner" /\ UNCHANGED <<pp, qq, num, second, sp, kk, bb, gg, yy>>
      /\ tt # 1 /\ tt' = (tt * tt) % Mod /\ mm' = IF mm < MaxSquarings THEN mm + 1 ELSE mm
  BY DEF SquareOnce
<1>2. Mod' = Mod
  BY <1>1 DEF Mod
<1>3. Works /\ OrderCounts
  BY <1>1 DEF RootInv
<1>4. Works'
  <2>1. Tonelli'
    BY <1>2, <1>3 DEF Tonelli, Works
  <2>2. QED
    BY <1>1, <1>2, <1>3, <2>1 DEF Works
<1>5. MaxSquarings \in Nat /\ Binary(MaxSquarings) /\ Mod \in Int /\ Mod \in Nat /\ Mod > 1 /\ Mod > 0
  <2>1. MaxSquarings \in Nat /\ Binary(MaxSquarings) /\ Mod \in Int
    BY <1>1, WorkAt
  <2>2. Mod \in Nat /\ Mod > 0 /\ Mod >= 9
    BY <1>3, <2>1, TonelliIs DEF Works
  <2>3. QED
    BY <2>1, <2>2
<1>6. /\ bb \in Int /\ kk \in 0..(MaxSquarings - 1) /\ tt \in 0..(Mod - 1) /\ tt \in Int /\ mm \in 0..MaxSquarings
      /\ IsPrimeNumber(Mod) => mm < kk /\ Same(tt, Power(bb, 2^mm), Mod) /\ Same(Power(bb, 2^(kk - 1)), 1, Mod)
  BY <1>3, <1>5 DEF Works, OrderCounts
<1>7. tt' \in 0..(Mod - 1) /\ tt' \in Int /\ Same(tt', tt * tt, Mod)
  <2>1. tt * tt \in Int
    BY <1>6
  <2>2. (tt * tt) % Mod \in 0..(Mod - 1) /\ (tt * tt) % Mod \in Int /\ Same((tt * tt) % Mod, tt * tt, Mod)
    BY <1>5, <2>1, ResidueOf
  <2>3. QED
    BY <1>1, <2>2
<1>8. mm' \in 0..MaxSquarings /\ mm' > 0
  BY <1>1, <1>5, <1>6
<1>9. ASSUME IsPrimeNumber(Mod)
      PROVE  mm' < kk /\ Same(tt', Power(bb, 2^mm'), Mod) /\ ~Same(Power(bb, 2^(mm' - 1)), 1, Mod)
  <2>1. mm < kk /\ Same(tt, Power(bb, 2^mm), Mod) /\ Same(Power(bb, 2^(kk - 1)), 1, Mod)
    BY <1>6, <1>9
  <2>2. mm \in 0..MaxSquarings /\ mm \in 0..(MaxSquarings + 1) /\ mm + 1 \in 0..(MaxSquarings + 1)
        /\ mm' = mm + 1 /\ mm' - 1 = mm /\ 1 \in Int
    BY <1>1, <1>5, <1>6, <2>1
  <2>3. 2^mm \in Nat /\ 2^(mm + 1) \in Nat
    BY <1>5, <2>2, TwoPower
  <2>4. 2^(mm + 1) = 2 * 2^mm
    BY <1>5, <2>2 DEF Binary
  <2>5. Power(bb, 2^mm) \in Int
    BY <1>6, <2>3, PowerIs
  <2>6. ~Same(Power(bb, 2^mm), 1, Mod)
    <3>1. SUFFICES ASSUME Same(Power(bb, 2^mm), 1, Mod) PROVE FALSE
      OBVIOUS
    <3>2. Same(tt, 1, Mod)
      BY <1>5, <1>6, <2>1, <2>2, <2>5, <3>1, SameChain
    <3>3. 1 \in 0..(Mod - 1)
      BY <1>5
    <3>4. tt = 1
      BY <1>5, <1>6, <3>2, <3>3, SameResidue
    <3>5. QED
      BY <1>1, <3>4
  <2>7. mm # kk - 1
    BY <2>1, <2>6
  <2>8. mm' < kk
    BY <1>5, <1>6, <2>1, <2>2, <2>7
  <2>9. Same(tt', Power(bb, 2^(mm + 1)), Mod)
    <3> DEFINE e1 == 2^mm
               e == 2^(mm + 1)
    <3>1. e1 \in Nat /\ e \in Nat /\ e = 2 * e1 /\ Same(tt, Power(bb, e1), Mod)
      BY <2>1, <2>3, <2>4
    <3> HIDE DEF e1, e
    <3>2. Same(tt', Power(bb, e), Mod)
      BY <1>5, <1>6, <1>7, <3>1, SquaredOnce
    <3>3. QED
      BY <3>2 DEF e
  <2>10. QED
    BY <2>2, <2>6, <2>8, <2>9
<1>10. OrderCounts'
  BY <1>1, <1>2, <1>5, <1>7, <1>8, <1>9 DEF OrderCounts
<1>11. QED
  BY <1>1, <1>4, <1>10, WithinInv

(* The order of b is 2^m: it is 1, or g makes it smaller.                  *)
LEMMA TurnInv ==
  ASSUME RootInv, OrderFound
  PROVE  RootInv'
<1>1. sqrtPc = "inner" /\ sqrtPc # "idle" /\ sqrtPc # "done" /\ tt = 1 /\ UNCHANGED <<pp, qq, num, second, sp, mm>>
  BY DEF OrderFound
<1>2. Works /\ OrderCounts
  BY <1>1 DEF RootInv
<1>3. /\ MaxSquarings \in Nat /\ Binary(MaxSquarings) /\ Mod \in Int /\ Mod \in Nat /\ Mod > 1 /\ Mod > 0
      /\ num \in Int /\ Tonelli
  <2>1. MaxSquarings \in Nat /\ Binary(MaxSquarings) /\ Mod \in Int /\ num \in Int
    BY <1>1, WorkAt
  <2>2. Mod \in Nat /\ Mod > 0 /\ Mod >= 9 /\ Tonelli
    BY <1>2, <2>1, TonelliIs DEF Works
  <2>3. QED
    BY <2>1, <2>2
<1>4. /\ bb \in Int /\ gg \in Int /\ yy \in Int /\ kk \in 0..(MaxSquarings - 1) /\ mm \in 0..MaxSquarings
      /\ Same(yy * yy, num * bb, Mod) /\ (mm = 0 => bb = 1)
      /\ IsPrimeNumber(Mod) => /\ mm < kk
                               /\ Same(Power(gg, 2^(kk - 1)), -1, Mod)
                               /\ Same(1, Power(bb, 2^mm), Mod)
                               /\ mm > 0 => ~Same(Power(bb, 2^(mm - 1)), 1, Mod)
  BY <1>1, <1>2, <1>3 DEF Works, OrderCounts
<1>5. CASE mm = 0 /\ Succeed(yy)
  <2>1. Same(yy * yy, num, Mod)
    BY <1>3, <1>4, <1>5
  <2>2. Rooted(num, Mod, yy)
    BY <1>3, <1>4, <2>1, RootedIs DEF Rooted
  <2>3. QED
    BY <1>1, <1>3, <1>4, <1>5, <2>2, SucceedInv
<1>6. CASE mm > 0 /\ mm >= kk /\ Fail
  <2>1. ~IsPrimeNumber(Mod)
    BY <1>3, <1>4, <1>6
  <2>2. QED
    BY <1>1, <1>6, <2>1, FailInv DEF OddPrimeNumber
<1>7. CASE /\ 0 < mm /\ mm < kk
           /\ sqrtPc' = "outer"
           /\ tt' = PowMod(gg, StepOf(kk), Mod)
           /\ gg' = (tt' * tt') % Mod
           /\ yy' = (yy * tt') % Mod
           /\ bb' = (bb * gg') % Mod
           /\ kk' = mm
  <2>1. Mod' = Mod
    BY <1>1 DEF Mod
  <2> DEFINE s == 2^(kk - mm - 1)
             e1 == 2^(mm - 1)
             e == 2^mm
  <2>2. /\ kk - mm - 1 \in 0..(MaxSquarings + 1) /\ mm - 1 \in 0..(MaxSquarings + 1) /\ mm \in 0..(MaxSquarings + 1)
        /\ kk - 1 \in 0..(MaxSquarings + 1) /\ mm - 1 \in 0..MaxSquarings /\ mm - 1 + 1 = mm
        /\ kk - mm - 1 \in Nat /\ mm \in Nat /\ (kk - mm - 1) + mm = kk - 1 /\ kk - mm - 1 \in Int
    BY <1>3, <1>4, <1>7
  <2>3. s \in Nat /\ e1 \in Nat /\ e \in Nat
    BY <1>3, <2>2, TwoPower
  <2>4. e = 2 * e1
    <3>1. \A i \in 0..MaxSquarings : 2^(i + 1) = 2 * 2^i
      BY <1>3 DEF Binary
    <3>2. 2^((mm - 1) + 1) = 2 * 2^(mm - 1)
      BY <2>2, <3>1
    <3>3. QED
      BY <2>2, <3>2
  <2>5. s * e = 2^(kk - 1)
    <3>1. s = Power(2, kk - mm - 1)
      BY <1>3, <2>2, TwoIsPower
    <3>2. e = Power(2, mm)
      BY <1>3, <2>2, TwoIsPower
    <3>3. 2^(kk - 1) = Power(2, kk - 1)
      BY <1>3, <2>2, TwoIsPower
    <3>4. 2 \in Int
      OBVIOUS
    <3> HIDE DEF s, e
    <3>5. Power(2, (kk - mm - 1) + mm) = Power(2, kk - mm - 1) * Power(2, mm)
      BY <2>2, <3>4, PowerSum
    <3>6. QED
      BY <2>2, <3>1, <3>2, <3>3, <3>5
  <2>6. tt' = PowMod(gg, s, Mod)
    BY <1>7 DEF StepOf
  <2>7. IsPrimeNumber(Mod) => /\ Same(Power(gg, s * e), -1, Mod) /\ Same(1, Power(bb, e), Mod)
                              /\ ~Same(Power(bb, e1), 1, Mod)
    BY <1>4, <1>7, <2>5
  <2> HIDE DEF s, e1, e
  <2>8. tt' \in Int /\ Same(tt', Power(gg, s), Mod)
    BY <1>3, <1>4, <2>3, <2>6, SquareOfPowMod
  <2>9. gg' \in 0..(Mod - 1) /\ gg' \in Int /\ Same(gg', tt' * tt', Mod)
    <3>1. tt' * tt' \in Int
      BY <2>8
    <3>2. (tt' * tt') % Mod \in 0..(Mod - 1) /\ (tt' * tt') % Mod \in Int /\ Same((tt' * tt') % Mod, tt' * tt', Mod)
      BY <1>3, <3>1, ResidueOf
    <3>3. QED
      BY <1>7, <3>2
  <2>10. yy' \in 0..(Mod - 1) /\ yy' \in Int /\ Same(yy', yy * tt', Mod)
    <3>1. yy * tt' \in Int
      BY <1>4, <2>8
    <3>2. (yy * tt') % Mod \in 0..(Mod - 1) /\ (yy * tt') % Mod \in Int /\ Same((yy * tt') % Mod, yy * tt', Mod)
      BY <1>3, <3>1, ResidueOf
    <3>3. QED
      BY <1>7, <3>2
  <2>11. bb' \in 0..(Mod - 1) /\ bb' \in Int /\ Same(bb', bb * gg', Mod)
    <3>1. bb * gg' \in Int
      BY <1>4, <2>9
    <3>2. (bb * gg') % Mod \in 0..(Mod - 1) /\ (bb * gg') % Mod \in Int /\ Same((bb * gg') % Mod, bb * gg', Mod)
      BY <1>3, <3>1, ResidueOf
    <3>3. QED
      BY <1>7, <3>2
  <2>12. Same(yy' * yy', num * bb', Mod)
    BY <1>3, <1>4, <2>8, <2>9, <2>10, <2>11, LoopTurns
  <2>13. ASSUME IsPrimeNumber(Mod) PROVE Same(Power(gg', e1), -1, Mod) /\ Same(Power(bb', e1), 1, Mod)
    <3>1. Same(Power(gg, s * e), -1, Mod) /\ ~Same(Power(bb, e1), 1, Mod) /\ Same(1, Power(bb, e), Mod)
      BY <2>7, <2>13
    <3>2. Power(bb, e) \in Int /\ 1 \in Int
      BY <1>4, <2>3, PowerIs
    <3>3. Same(Power(bb, e), 1, Mod)
      BY <1>3, <3>1, <3>2, SameBack
    <3>4. QED
      BY <1>3, <1>4, <2>3, <2>4, <2>8, <2>9, <2>11, <2>13, <3>1, <3>3, OrderTurns
  <2>14. Works'
    <3>1. Tonelli'
      BY <1>3, <2>1 DEF Tonelli
    <3>2. kk' \in 0..(MaxSquarings - 1) /\ kk' >= 1 /\ kk' = mm
      BY <1>3, <1>4, <1>7
    <3>3. Same(yy * yy, num * bb, Mod)'
      BY <1>1, <2>1, <2>12
    <3>4. IsPrimeNumber(Mod') => Same(Power(gg', 2^(kk' - 1)), -1, Mod') /\ Same(Power(bb', 2^(kk' - 1)), 1, Mod')
      BY <2>1, <2>13, <3>2 DEF e1
    <3>5. bb' \in 0..(Mod' - 1) /\ gg' \in 0..(Mod' - 1) /\ yy' \in 0..(Mod' - 1)
      BY <2>1, <2>9, <2>10, <2>11
    <3>6. QED
      BY <3>1, <3>2, <3>3, <3>4, <3>5 DEF Works
  <2>15. QED
    BY <1>1, <1>7, <2>14, WithinInv
<1>8. QED
  BY <1>1, <1>5, <1>6, <1>7 DEF OrderFound

------------------------------------------------------------------------------
(* sqrtpq puts the two roots together.                                     *)

LEMMA CombinedAt ==
  ASSUME NEW p1 \in Nat, NEW q1 \in Nat, NEW v \in Int, NEW rp \in Int, Same(rp * rp, v, p1), NEW rq \in Int,
         NEW a \in Int, NEW b \in Int, a * p1 + b * q1 = 1,
         NEW r \in Int, Multiple(p1, r - ((rq * a) * p1 + (rp * b) * q1))
  PROVE  Multiple(p1, r * r - v)
<1> DEFINE z == (rq * a) * p1 + (rp * b) * q1
<1>1. z \in Int /\ r * r \in Int /\ rp * rp \in Int /\ p1 \in Int /\ r - z \in Int /\ z - rp \in Int
  OBVIOUS
<1>2. z - rp = (rq * a - rp * a) * p1
  <2>1. rp = rp * (a * p1 + b * q1)
    OBVIOUS
  <2>2. rp * (a * p1 + b * q1) = (rp * a) * p1 + (rp * b) * q1
    OBVIOUS
  <2>3. (rq * a - rp * a) * p1 = (rq * a) * p1 - (rp * a) * p1
    OBVIOUS
  <2> DEFINE z1 == (rq * a) * p1
             z2 == (rp * b) * q1
             z3 == (rp * a) * p1
  <2>4. z1 \in Int /\ z2 \in Int /\ z3 \in Int
    OBVIOUS
  <2>5. rp = z3 + z2 /\ z = z1 + z2 /\ (rq * a - rp * a) * p1 = z1 - z3
    BY <2>1, <2>2, <2>3
  <2> HIDE DEF z1, z2, z3, z
  <2>6. z - rp = z1 - z3
    BY <2>4, <2>5
  <2>7. QED
    BY <2>5, <2>6
<1>3. rq * a - rp * a \in Int
  OBVIOUS
<1>4. Multiple(p1, z - rp)
  BY <1>2, <1>3 DEF Multiple
<1>5. Same(r, z, p1)
  BY DEF Same
<1>6. Same(z, rp, p1)
  BY <1>4 DEF Same
<1> HIDE DEF z
<1>7. Same(r, rp, p1)
  BY <1>1, <1>5, <1>6, SameChain
<1>8. Same(r * r, rp * rp, p1)
  BY <1>1, <1>7, SameTimes
<1>9. Same(r * r, v, p1)
  BY <1>1, <1>8, SameChain
<1>10. QED
  BY <1>9 DEF Same

RootOfProduct(r, v, p1, q1) == (r * r - v) % (p1 * q1) = 0 /\ 0 <= r /\ r < p1 * q1
AddToOne(a, p1, b, q1) == a * p1 + b * q1 = 1
CombinedOf(rp, rq, a, b, p1, q1) == (rq * a * p1 + rp * b * q1) % (p1 * q1)

LEMMA CombineRoots ==
  ASSUME NEW p1 \in Nat, IsPrimeNumber(p1), NEW q1 \in Nat, IsPrimeNumber(q1), p1 # q1, NEW v \in Int,
         NEW rp \in Int, Same(rp * rp, v, p1), NEW rq \in Int, Same(rq * rq, v, q1),
         NEW a \in Int, NEW b \in Int, AddToOne(a, p1, b, q1),
         NEW r, r = CombinedOf(rp, rq, a, b, p1, q1)
  PROVE  RootOfProduct(r, v, p1, q1)
<1> DEFINE z == (rq * a) * p1 + (rp * b) * q1
           y == (rp * b) * q1 + (rq * a) * p1
           n == p1 * q1
<1>1. p1 > 0 /\ q1 > 0 /\ p1 \in Int /\ q1 \in Int
  BY DEF IsPrimeNumber
<1>2. n \in Nat /\ n > 0
  BY <1>1
<1>3. z \in Int /\ y = z /\ r = z % n
  BY DEF CombinedOf
<1>4. n = q1 * p1 /\ n = p1 * q1 /\ b * q1 + a * p1 = 1 /\ a * p1 + b * q1 = 1
  BY DEF AddToOne
<1>5. y = (rp * b) * q1 + (rq * a) * p1 /\ z = (rq * a) * p1 + (rp * b) * q1
  OBVIOUS
<1> HIDE DEF z, y, n
<1>6. r \in Int /\ r \in 0..(n - 1) /\ Same(r, z, n)
  BY <1>2, <1>3, ResidueOf
<1>7. Multiple(p1, r - z) /\ Multiple(q1, r - z)
  <2>1. PICK t \in Int : r - z = t * n
    BY <1>6 DEF Same, Multiple
  <2>2. r - z = (t * q1) * p1 /\ r - z = (t * p1) * q1 /\ t * q1 \in Int /\ t * p1 \in Int
    BY <1>4, <2>1
  <2>3. QED
    BY <2>2 DEF Multiple
<1>8. Multiple(p1, r * r - v)
  <2>1. Multiple(p1, r - ((rq * a) * p1 + (rp * b) * q1))
    BY <1>5, <1>7
  <2>2. QED
    BY <1>4, <1>6, <2>1, CombinedAt
<1>9. Multiple(q1, r * r - v)
  <2>1. Multiple(q1, r - ((rp * b) * q1 + (rq * a) * p1))
    BY <1>3, <1>5, <1>7
  <2>2. QED
    BY <1>4, <1>6, <2>1, CombinedAt
<1>10. r * r - v \in Int
  BY <1>6
<1>11. Multiple(n, r * r - v)
  BY <1>4, <1>8, <1>9, <1>10, MultipleOfBoth
<1>12. (r * r - v) % n = 0
  BY <1>2, <1>10, <1>11, MultipleIs
<1>13. 0 <= r /\ r < n
  BY <1>2, <1>6
<1>14. QED
  BY <1>4, <1>12, <1>13 DEF RootOfProduct

(* The coefficients of mpz_gcdext for distinct primes.                     *)
LEMMA OnlyOneDivides ==
  ASSUME NEW p1 \in Nat, IsPrimeNumber(p1), NEW q1 \in Nat, IsPrimeNumber(q1), p1 # q1,
         NEW n \in 1..p1, Divides(n, p1), Divides(n, q1)
  PROVE  n = 1
<1>1. p1 >= 2 /\ q1 >= 2 /\ p1 \in Int /\ q1 \in Int
  BY DEF IsPrimeNumber
<1>2. ~Multiple(p1, q1)
  BY PrimesDiffer
<1>3. \A d \in 2..(p1 - 1) : p1 % d # 0
  BY PrimeIs
<1>4. p1 % n = 0 /\ q1 % n = 0
  BY DEF Divides
<1>5. n = 1 \/ n = p1 \/ n \in 2..(p1 - 1)
  BY <1>1
<1>6. n # p1
  BY <1>1, <1>2, <1>4, MultipleIs
<1>7. QED
  BY <1>3, <1>4, <1>5, <1>6

LEMMA MultiplierExists ==
  ASSUME NEW p1 \in Nat, IsPrimeNumber(p1), NEW q1 \in Nat, IsPrimeNumber(q1), p1 # q1
  PROVE  \E n \in 0..q1 : Divides(q1, n * p1 - 1)
<1>1. p1 >= 2 /\ q1 >= 2 /\ p1 \in Int /\ q1 \in Int /\ q1 > 1 /\ q1 > 0
  BY DEF IsPrimeNumber
<1>2. Coprime(p1, q1)
  <2>1. ~Multiple(q1, p1)
    BY PrimesDiffer
  <2>2. QED
    BY <1>1, <2>1, PrimeCoprime
<1>3. PICK b \in 0..(q1 - 1) : (p1 * b) % q1 = 1
  BY <1>1, <1>2, InverseExists
<1>4. b \in Int /\ b \in 0..q1 /\ p1 * b = b * p1 /\ p1 * b \in Int /\ 1 \in Int /\ b * p1 - 1 \in Int
  BY <1>1
<1>5. 1 % q1 = 1
  BY <1>1
<1>6. Same(p1 * b, 1, q1)
  BY <1>1, <1>3, <1>4, <1>5, SameIs
<1>7. Multiple(q1, b * p1 - 1)
  BY <1>4, <1>6 DEF Same
<1>8. (b * p1 - 1) % q1 = 0
  BY <1>1, <1>4, <1>7, MultipleIs
<1>9. QED
  BY <1>4, <1>8 DEF Divides

LEMMA SecondMultiplier ==
  ASSUME NEW p1 \in Int, NEW q1 \in Nat, q1 > 0, NEW a \in Int, Multiple(q1, a * p1 - 1)
  PROVE  (1 - a * p1) \div q1 \in Int /\ a * p1 + ((1 - a * p1) \div q1) * q1 = 1
<1>1. PICK t \in Int : a * p1 - 1 = t * q1
  BY DEF Multiple
<1> DEFINE z == a * p1
           y == t * q1
           u == -t
<1>2. z \in Int /\ y \in Int /\ z - 1 = y /\ u \in Int /\ u * q1 = -y
  BY <1>1
<1>3. (1 - z) \div q1 = u
  <2>1. 1 - z = u * q1
    BY <1>2
  <2> HIDE DEF z, u
  <2>2. (u * q1) \div q1 = u
    BY <1>2
  <2>3. QED
    BY <2>1, <2>2
<1> HIDE DEF u, y
<1>4. z + u * q1 = 1
  BY <1>2
<1>5. QED
  BY <1>2, <1>3, <1>4

LEMMA Coefficients ==
  ASSUME NEW p1 \in Nat, IsPrimeNumber(p1), NEW q1 \in Nat, IsPrimeNumber(q1), p1 # q1,
         NEW g, g = CHOOSE d \in 1..p1 : /\ Divides(d, p1) /\ Divides(d, q1)
                                        /\ \A n \in 1..p1 : Divides(n, p1) /\ Divides(n, q1) => n <= d,
         NEW a, a = CHOOSE n \in 0..q1 : Divides(q1, n * p1 - g)
  PROVE  g = 1 /\ a \in Int /\ Multiple(q1, a * p1 - 1)
<1>1. p1 >= 2 /\ q1 >= 2 /\ p1 \in Int /\ q1 \in Int /\ q1 > 0
  BY DEF IsPrimeNumber
<1>2. \A n \in 1..p1 : Divides(n, p1) /\ Divides(n, q1) => n = 1
  BY OnlyOneDivides
<1> DEFINE P(d) == /\ Divides(d, p1) /\ Divides(d, q1)
                   /\ \A n \in 1..p1 : Divides(n, p1) /\ Divides(n, q1) => n <= d
           Q(n) == Divides(q1, n * p1 - g)
<1>3. g = CHOOSE d \in 1..p1 : P(d)
  OBVIOUS
<1>4. a = CHOOSE n \in 0..q1 : Q(n)
  OBVIOUS
<1>5. g = 1
  <2>1. Divides(1, p1) /\ Divides(1, q1)
    BY <1>1 DEF Divides
  <2>2. 1 \in 1..p1 /\ P(1)
    BY <1>1, <1>2, <2>1
  <2>3. g \in 1..p1 /\ P(g)
    <3> HIDE DEF P
    <3>1. QED
      BY <1>3, <2>2
  <2>4. QED
    BY <1>2, <2>3
<1>6. \E n \in 0..q1 : Q(n)
  BY <1>5, MultiplierExists
<1>7. a \in 0..q1 /\ Q(a)
  <2> HIDE DEF Q
  <2>1. QED
    BY <1>4, <1>6
<1>8. a \in Int /\ Divides(q1, a * p1 - 1)
  <2>1. a \in Int
    BY <1>1, <1>7
  <2>2. Divides(q1, a * p1 - g)
    BY <1>7
  <2>3. Divides(q1, a * p1 - 1)
    BY <1>5, <2>2, Zenon
  <2>4. QED
    BY <2>1, <2>3
<1>9. Multiple(q1, a * p1 - 1)
  <2>1. a * p1 - 1 \in Int
    BY <1>1, <1>8
  <2>2. (a * p1 - 1) % q1 = 0
    BY <1>8 DEF Divides
  <2> DEFINE z == a * p1 - 1
  <2>3. z \in Int /\ z % q1 = 0
    BY <2>1, <2>2
  <2> HIDE DEF z
  <2>4. Multiple(q1, z)
    BY <1>1, <2>3, MultipleIs
  <2>5. QED
    BY <2>4 DEF z
<1>10. QED
  BY <1>5, <1>8, <1>9

LEMMA CombineInv ==
  ASSUME RootInv, Combine
  PROVE  RootInv'
<1>1. /\ sqrtPc = "root" /\ sqrtPc # "idle" /\ second = TRUE /\ UNCHANGED <<pp, qq, num, second, sp>>
      /\ sqrtPc' = "done" /\ ok' = TRUE
  BY DEF Combine, RootInv, Called
<1>2. /\ pp \in Int /\ qq \in Int /\ num \in Int /\ Mod = qq /\ pp > 0 /\ qq > 0 /\ sp \in Int /\ root \in Int
      /\ Rooted(num, pp, sp) /\ Rooted(num, qq, root)
  <2>1. pp \in Int /\ qq \in Int /\ num \in Int
    BY <1>1, ModulusIs DEF RootInv
  <2>2. Mod = qq
    BY <1>1 DEF Mod
  <2>3. pp > 0 /\ sp \in Int /\ Rooted(num, pp, sp)
    BY <1>1 DEF RootInv, Called
  <2>4. Mod > 0 /\ root \in Int /\ Rooted(num, Mod, root)
    BY <1>1 DEF RootInv
  <2>5. QED
    BY <2>1, <2>2, <2>3, <2>4
<1>3. Called'
  <2>1. Rooted(num, pp, sp)' <=> Rooted(num, pp, sp)
    BY <1>1 DEF Rooted
  <2>2. QED
    BY <1>1, <2>1 DEF Called, RootInv
<1>4. ASSUME IsPrimeNumber(pp), IsPrimeNumber(qq), pp # qq
      PROVE  /\ IsSquareMod(num, pp) /\ IsSquareMod(num, qq)
             /\ (res' * res' - num) % (pp * qq) = 0 /\ 0 <= res' /\ res' < pp * qq
  <2>1. pp \in Nat /\ qq \in Nat
    BY <1>2
  <2>2. Same(sp * sp, num, pp) /\ Same(root * root, num, qq)
    <3>1. (sp * sp - num) % pp = 0 /\ (root * root - num) % qq = 0
      BY <1>2, <1>4 DEF Rooted
    <3>2. Same(sp * sp, num, pp)
      BY <1>2, <2>1, <3>1, RootedIs
    <3>3. Same(root * root, num, qq)
      BY <1>2, <2>1, <3>1, RootedIs
    <3>4. QED
      BY <3>2, <3>3
  <2>3. IsSquareMod(num, pp) /\ IsSquareMod(num, qq)
    BY <1>2, <2>1, <2>2, SquareIs
  <2> DEFINE g == CHOOSE d \in 1..pp : /\ Divides(d, pp) /\ Divides(d, qq)
                                      /\ \A n \in 1..pp : Divides(n, pp) /\ Divides(n, qq) => n <= d
             a == CHOOSE n \in 0..qq : Divides(qq, n * pp - g)
             b == (g - a * pp) \div qq
  <2>4. g = 1 /\ a \in Int /\ Multiple(qq, a * pp - 1)
    BY <1>4, <2>1, Coefficients
  <2>5. res' = Combined(sp, root, a, b)
    BY DEF Combine
  <2> HIDE DEF g, a
  <2>6. b = (1 - a * pp) \div qq
    BY <2>4
  <2> HIDE DEF b
  <2>7. b \in Int /\ a * pp + b * qq = 1
    BY <1>2, <2>1, <2>4, <2>6, SecondMultiplier
  <2>8. res' = CombinedOf(sp, root, a, b, pp, qq)
    BY <2>5 DEF Combined, CombinedOf
  <2>9. (res' * res' - num) % (pp * qq) = 0 /\ 0 <= res' /\ res' < pp * qq
    <3>1. AddToOne(a, pp, b, qq)
      BY <2>7 DEF AddToOne
    <3>2. a \in Int /\ b \in Int
      BY <2>4, <2>7
    <3>3. RootOfProduct(res', num, pp, qq)
      BY <1>2, <1>4, <2>1, <2>2, <2>8, <3>1, <3>2, CombineRoots
    <3>4. QED
      BY <3>3 DEF RootOfProduct
  <2>10. QED
    BY <2>3, <2>9
<1>5. RootExactly'
  <2>1. pp' = pp /\ qq' = qq /\ num' = num
    BY <1>1
  <2>2. BothPrime' => IsPrimeNumber(pp) /\ IsPrimeNumber(qq)
    BY <2>1 DEF BothPrime
  <2>3. BothPrime' /\ pp # qq =>
          /\ ok' <=> IsSquareMod(num', pp') /\ IsSquareMod(num', qq')
          /\ ok' => (res' * res' - num') % (pp' * qq') = 0 /\ 0 <= res' /\ res' < pp' * qq'
    BY <1>1, <1>4, <2>1, <2>2
  <2>4. sqrtPc' # "sqrtm" /\ sqrtPc' # "root"
    BY <1>1
  <2>5. QED
    BY <2>1, <2>3, <2>4 DEF RootExactly
<1>6. QED
  BY <1>1, <1>3, <1>5 DEF RootInv

(* Every step keeps the invariant.                                         *)
LEMMA RootNext ==
  ASSUME RootInv, [SqrtNext]_sqrtVars
  PROVE  RootInv'
<1>1. CASE \E pq \in Moduli, v \in Nums : SqrtPQ(pq, v)
  BY <1>1, AskedInv
<1>2. CASE SqrtStep
  BY <1>2, EntryInv, StartInv, TryInv, FoundInv, OrderInv, SquareInv, TurnInv, SecondInv, CombineInv DEF SqrtStep
<1>3. CASE UNCHANGED sqrtVars
  <2>1. UNCHANGED <<sqrtPc, pp, qq, num, second, xx, nn, kk, mm, tt, bb, gg, yy, root, sp, res, ok>>
    BY <1>3 DEF sqrtVars, locals
  <2>2. Mod' = Mod /\ Residue' = Residue
    BY <2>1 DEF Mod, Residue
  <2>3. Tonelli' = Tonelli /\ Called' = Called
    BY <2>1, <2>2 DEF Tonelli, Called, Rooted
  <2>4. Searches' = Searches /\ Works' = Works /\ OrderCounts' = OrderCounts /\ RootExactly' = RootExactly
    BY <2>1, <2>2, <2>3 DEF Searches, Works, OrderCounts, RootExactly, BothPrime
  <2>5. Rooted(num, Mod, root)' = Rooted(num, Mod, root)
    BY <2>1, <2>2 DEF Rooted
  <2>6. QED
    BY <2>1, <2>2, <2>3, <2>4, <2>5 DEF RootInv
<1>4. QED
  BY <1>1, <1>2, <1>3 DEF SqrtNext

(* What mpz_jacobi walks to: for every odd modulus the product of Legendre *)
(* symbols that the reference takes, and so for an odd prime 0, 1 or -1 as *)
(* the number is a multiple, a square or neither.  (Powers of two double:  *)
(* arithmetic that the prover has to be told.)                             *)
THEOREM JacobiDecides ==
  ASSUME NEW W \in Nat, Binary(W), NEW y \in OddTo(2^W - 1), NEW x \in Int
  PROVE  /\ Jacobi(x, y) = JacobiReference(x, y)
         /\ IsPrimeNumber(y) => Jacobi(x, y) = Legendre(x, y)
<1>1. Jacobi(x, y) = Sym(x, y)
  BY JacobiIs
<1>2. 2^W - 1 \in Nat
  BY TwoPower, W \in 0..(W + 1)
<1> DEFINE h == (y - 1) \div 2
<1>3. y \in Nat /\ y > 0 /\ y % 2 = 1 /\ h \in Nat /\ y = 2 * h + 1
  BY <1>2, OddIs DEF OddTo
<1>4. JacobiReference(x, y) = Sym(x, y)
  BY <1>3, ReferenceIs
<1>5. ASSUME IsPrimeNumber(y) PROVE Sym(x, y) = Legendre(x, y)
  <2>1. Legendre(x, y) = IF Multiple(y, x) THEN 0 ELSE Gauss(x, h)
    BY <1>3, <1>5, LegendreIs
  <2>2. Multiple(y, x) <=> ~Coprime(x, y)
    <3>1. ~Multiple(y, x) => Coprime(x, y)
      BY <1>3, <1>5, PrimeCoprime
    <3>2. Multiple(y, x) => ~Coprime(x, y)
      BY <1>3, <1>5, PrimeIs, MultipleShares
    <3>3. QED
      BY <3>1, <3>2
  <2>3. QED
    BY <2>1, <2>2 DEF Sym
<1>6. QED
  BY <1>1, <1>4, <1>5

(* goo_mpz_sqrtm returns roots, goo_mpz_sqrtpq finds one modulo p * q for  *)
(* distinct odd primes exactly when there is one, and the symbol that      *)
(* decides is the product of the Legendre symbols.                         *)
THEOREM RootsAreExact == SqrtSpec => []RootExactly
<1>1. SqrtInit => RootInv
  BY RootInit
<1>2. RootInv /\ [SqrtNext]_sqrtVars => RootInv'
  BY RootNext
<1>3. RootInv => RootExactly
  BY DEF RootInv
<1>4. QED
  BY <1>1, <1>2, <1>3, PTL DEF SqrtSpec
==============================================================================
