----------------------------- MODULE GooSigProofs -----------------------------
(***************************************************************************)
(* Proofs about GooSig, for every base, every width of the fields and all  *)
(* signatures: export and import agree on size and place of each field,    *)
(* import undoes export, and export undoes import unless Eq is zero.       *)
(***************************************************************************)
EXTENDS GooSig, WellFoundedInduction, TLAPS

(* A set of naturals with 0 that is closed under successor, up to n.       *)
LEMMA UpTo ==
  ASSUME NEW n \in Nat, NEW S, 0 \in S, \A i \in 0..(n - 1) : i \in S => i + 1 \in S
  PROVE  \A i \in 0..n : i \in S
<1>1. SUFFICES ASSUME NEW i \in 0..n, i \notin S PROVE FALSE
  OBVIOUS
<1> DEFINE Out == {j \in Nat : j <= n /\ j \notin S}
<1>2. i \in Out /\ Out \in SUBSET Nat
  BY <1>1
<1>3. PICK j \in Out : \A m \in Out : j <= m
  <2> DEFINE Less == OpToRel(<, Nat)
  <2>1. \A m, j \in Out : <<m, j>> \in Less <=> m < j
    BY DEF OpToRel
  <2>2. \A m, j \in Out : j <= m <=> ~(m < j)
    OBVIOUS
  <2>3. IsWellFoundedOn(Less, Nat)
    BY NatLessThanWellFounded
  <2> HIDE DEF Out, Less
  <2>4. \E j \in Out : \A m \in Out : <<m, j>> \notin Less
    BY <1>2, <2>3, WFMin
  <2>5. QED
    BY <2>1, <2>2, <2>4
<1>4. j \in Nat /\ j <= n /\ j \notin S /\ j # 0
  BY <1>3
<1>5. j - 1 \in 0..(n - 1) /\ j - 1 \notin Out
  BY <1>3, <1>4
<1>6. j - 1 \in S
  BY <1>4, <1>5
<1>7. (j - 1) + 1 \in S /\ (j - 1) + 1 = j
  BY <1>4, <1>5, <1>6
<1>8. QED
  BY <1>4, <1>7

------------------------------------------------------------------------------
(* Powers of the base.                                                     *)

Wide == ModBytes + ChalBytes + EllBytes + ExpBytes + 3
Pow == [k \in 0..Wide |-> Byte^k]

LEMMA Sizes ==
  /\ Byte \in Nat /\ Byte >= 2
  /\ ModBytes \in Nat /\ ChalBytes \in Nat /\ EllBytes \in Nat /\ ExpBytes \in Nat
  /\ Wide \in Nat /\ Wide >= 3 /\ Size \in Nat /\ Size >= 3
BY SigAssumption DEF Wide, Size

LEMMA PowIs ==
  /\ Pow[0] = 1
  /\ \A k \in 0..(Wide - 1) : Pow[k] \in Nat /\ Pow[k + 1] = Byte * Pow[k]
<1>1. 0 \in 0..Wide /\ \A k \in 0..(Wide - 1) : k \in 0..Wide /\ k + 1 \in 0..Wide
  BY Sizes
<1>2. Wide - 1 = ModBytes + ChalBytes + EllBytes + ExpBytes + 2
  BY Sizes DEF Wide
<1>3. QED
  BY <1>1, <1>2, PowersAssumption DEF Pow

LEMMA PowPositive == \A k \in 0..Wide : Pow[k] \in Nat /\ Pow[k] >= 1
<1> DEFINE S == {k \in Nat : Pow[k] \in Nat /\ Pow[k] >= 1}
<1>1. 0 \in S
  BY PowIs
<1>2. ASSUME NEW k \in 0..(Wide - 1), k \in S PROVE k + 1 \in S
  <2>1. Pow[k + 1] = Byte * Pow[k] /\ Pow[k] \in Nat /\ Pow[k] >= 1 /\ k + 1 \in Nat
    BY <1>2, PowIs, Sizes
  <2>2. Byte * Pow[k] \in Nat /\ Byte * Pow[k] >= 1
    BY <2>1, Sizes
  <2>3. QED
    BY <2>1, <2>2
<1> HIDE DEF S
<1>3. \A k \in 0..Wide : k \in S
  BY <1>1, <1>2, UpTo, Sizes
<1>4. QED
  BY <1>3 DEF S

(* What is written Byte^k in the module is an entry of the function.       *)
LEMMA PowerIs == \A k \in 0..Wide : Byte^k = Pow[k]
BY DEF Pow

------------------------------------------------------------------------------
(* Division.                                                               *)

LEMMA Euclid ==
  ASSUME NEW x \in Int, NEW l \in Nat, l > 0
  PROVE  /\ x \div l \in Int /\ x % l \in Int
         /\ x = (x \div l) * l + (x % l)
         /\ 0 <= x % l /\ x % l < l
BY SMT

LEMMA QuotientIs ==
  ASSUME NEW x \in Nat, NEW l \in Nat, l > 0, NEW q \in Nat, NEW r \in Nat,
         r < l, x = q * l + r
  PROVE  x \div l = q /\ x % l = r
<1>1. x \div l \in Int /\ x % l \in Int /\ x = (x \div l) * l + (x % l) /\ 0 <= x % l /\ x % l < l
  BY Euclid
<1> DEFINE p == x \div l
           s == x % l
<1> HIDE DEF p, s
<1>2. p \in Int /\ s \in Int /\ x = p * l + s /\ 0 <= s /\ s < l
  BY <1>1 DEF p, s
<1>3. (p - q) * l = r - s
  BY <1>2
<1>4. ~(p - q >= 1)
  <2>1. SUFFICES ASSUME p - q >= 1 PROVE FALSE
    OBVIOUS
  <2>2. (p - q) * l >= l
    BY <1>2, <2>1
  <2>3. QED
    BY <1>2, <1>3, <2>2
<1>5. ~(q - p >= 1)
  <2>1. SUFFICES ASSUME q - p >= 1 PROVE FALSE
    OBVIOUS
  <2>2. (q - p) * l >= l
    BY <1>2, <2>1
  <2>3. (q - p) * l = s - r
    BY <1>2
  <2>4. QED
    BY <1>2, <2>2, <2>3
<1>6. p = q
  BY <1>2, <1>4, <1>5
<1>7. s = r
  BY <1>2, <1>6
<1>8. QED
  BY <1>6, <1>7 DEF p, s

LEMMA NatQuotient ==
  ASSUME NEW x \in Nat, NEW l \in Nat, l > 0
  PROVE  x \div l \in Nat /\ x % l \in Nat
<1>1. x \div l \in Int /\ x % l \in Int /\ x = (x \div l) * l + (x % l) /\ 0 <= x % l /\ x % l < l
  BY Euclid
<1> DEFINE p == x \div l
           s == x % l
<1> HIDE DEF p, s
<1>2. p \in Int /\ s \in Int /\ x = p * l + s /\ 0 <= s /\ s < l
  BY <1>1 DEF p, s
<1>3. ~(p <= -1)
  <2>1. SUFFICES ASSUME p <= -1 PROVE FALSE
    OBVIOUS
  <2>2. p * l <= -l
    BY <1>2, <2>1
  <2>3. QED
    BY <1>2, <2>2
<1>4. QED
  BY <1>2, <1>3 DEF p, s

(* The quotient of a quotient.                                             *)
LEMMA QuotientTwice ==
  ASSUME NEW x \in Nat, NEW l \in Nat, l > 0, NEW m \in Nat, m > 0
  PROVE  (x \div l) \div m = x \div (l * m)
<1> DEFINE q == x \div l
           r == x % l
           p == q \div m
           s == q % m
<1>1. q \in Nat /\ r \in Nat /\ r < l /\ x = q * l + r
  BY Euclid, NatQuotient
<1>2. p \in Nat /\ s \in Nat /\ s < m /\ q = p * m + s
  BY <1>1, Euclid, NatQuotient
<1> HIDE DEF q, r, p, s
<1>3. x = p * (l * m) + (s * l + r)
  <2>1. q * l = (p * m + s) * l
    BY <1>2
  <2>2. (p * m + s) * l = p * (l * m) + s * l
    BY <1>2
  <2>3. QED
    BY <1>1, <1>2, <2>1, <2>2
<1>4. s * l + r \in Nat /\ s * l + r < l * m
  <2>1. s + 1 <= m
    BY <1>2
  <2>2. (s + 1) * l <= m * l
    BY <1>2, <2>1
  <2>3. (s + 1) * l = s * l + l
    BY <1>2
  <2>4. s * l \in Nat /\ m * l = l * m
    BY <1>2
  <2>5. QED
    BY <1>1, <1>2, <2>2, <2>3, <2>4
<1>5. l * m \in Nat /\ l * m > 0
  BY SMT
<1>6. x \div (l * m) = p
  BY <1>2, <1>3, <1>4, <1>5, QuotientIs
<1>7. QED
  BY <1>6 DEF p, q

------------------------------------------------------------------------------
(* Bytes and numbers.                                                      *)

Bytes == 0..(Byte - 1)

(* u holds the value of each prefix of s.                                  *)
Recursion(s, n, u) == u = [d \in 0..n |-> IF d = 0 THEN 0 ELSE u[d - 1] * Byte + s[d]]
Prefixes(s, n, u) == u \in [0..n -> Nat] /\ Recursion(s, n, u)

LEMMA RecursionGives ==
  ASSUME NEW n \in Nat, NEW s, NEW u, Recursion(s, n, u)
  PROVE  /\ u[0] = 0
         /\ \A d \in 1..n : u[d] = u[d - 1] * Byte + s[d]
         /\ u = [d \in 0..n |-> u[d]]
<1> DEFINE g == [d \in 0..n |-> IF d = 0 THEN 0 ELSE u[d - 1] * Byte + s[d]]
<1>1. g[0] = 0
  OBVIOUS
<1>2. ASSUME NEW d \in 1..n PROVE g[d] = u[d - 1] * Byte + s[d]
  <2>1. d \in 0..n /\ d # 0
    OBVIOUS
  <2>2. QED
    BY <2>1
<1>3. g = [d \in 0..n |-> g[d]]
  OBVIOUS
<1>4. u = g
  BY DEF Recursion
<1> HIDE DEF g
<1>5. \A d \in 1..n : g[d] = u[d - 1] * Byte + s[d]
  BY <1>2
<1>6. QED
  BY <1>1, <1>3, <1>4, <1>5, Zenon

LEMMA PrefixesExist ==
  ASSUME NEW n \in Nat, NEW s, \A d \in 1..n : s[d] \in Nat
  PROVE  \E u : Prefixes(s, n, u)
<1> DEFINE S == {k \in Nat : \E u : Prefixes(s, k, u)}
<1>1. 0 \in S
  <2>1. Prefixes(s, 0, [d \in 0..0 |-> 0])
    BY DEF Prefixes, Recursion
  <2>2. QED
    BY <2>1
<1>2. ASSUME NEW k \in 0..(n - 1), k \in S PROVE k + 1 \in S
  <2>1. PICK u : Prefixes(s, k, u)
    BY <1>2
  <2>2. u \in [0..k -> Nat] /\ u[0] = 0 /\ \A d \in 1..k : u[d] = u[d - 1] * Byte + s[d]
    <3>1. u \in [0..k -> Nat] /\ Recursion(s, k, u) /\ k \in Nat
      BY <2>1 DEF Prefixes
    <3>2. u[0] = 0 /\ \A d \in 1..k : u[d] = u[d - 1] * Byte + s[d]
      BY <3>1, RecursionGives, SMTT(30)
    <3>3. QED
      BY <3>1, <3>2
  <2> DEFINE next == u[k] * Byte + s[k + 1]
             v == [d \in 0..(k + 1) |-> IF d = k + 1 THEN next ELSE u[d]]
  <2>3. s[k + 1] \in Nat /\ u[k] \in Nat /\ k \in Nat
    BY <2>2
  <2>4. next \in Nat
    BY <2>3, Sizes
  <2> HIDE DEF next
  <2>5. v \in [0..(k + 1) -> Nat] /\ v[0] = 0 /\ v[k + 1] = next /\ \A d \in 0..k : v[d] = u[d]
    BY <2>2, <2>3, <2>4
  <2>6. DOMAIN v = 0..(k + 1) /\ v = [d \in 0..(k + 1) |-> v[d]]
    OBVIOUS
  <2> HIDE DEF v
  <2>7. ASSUME NEW d \in 0..(k + 1)
        PROVE  v[d] = IF d = 0 THEN 0 ELSE v[d - 1] * Byte + s[d]
    <3>1. CASE d = 0
      BY <2>5, <3>1
    <3>2. CASE d = k + 1
      <4>1. d - 1 = k /\ d # 0 /\ k \in 0..k
        BY <2>3, <3>2
      <4>2. v[d - 1] = u[k] /\ v[d] = u[k] * Byte + s[d]
        BY <2>5, <3>2, <4>1 DEF next
      <4>3. QED
        BY <4>1, <4>2
    <3>3. CASE d \in 1..k
      <4>1. d # 0 /\ d - 1 \in 0..k /\ d \in 0..k
        BY <2>3, <3>3
      <4>2. v[d] = u[d] /\ v[d - 1] = u[d - 1] /\ u[d] = u[d - 1] * Byte + s[d]
        BY <2>2, <2>5, <3>3, <4>1
      <4>3. QED
        BY <4>1, <4>2
    <3>4. QED
      BY <2>3, <3>1, <3>2, <3>3
  <2>8. v = [d \in 0..(k + 1) |-> IF d = 0 THEN 0 ELSE v[d - 1] * Byte + s[d]]
    BY <2>6, <2>7
  <2>9. Prefixes(s, k + 1, v)
    BY <2>5, <2>8 DEF Prefixes, Recursion
  <2>10. QED
    BY <2>3, <2>9
<1> HIDE DEF S
<1>3. n \in S
  <2>1. \A k \in 0..n : k \in S
    BY <1>1, <1>2, UpTo
  <2>2. QED
    BY <2>1
<1>4. QED
  BY <1>3 DEF S

(* What import reads is the last of the prefixes.                          *)
LEMMA ValueIs ==
  ASSUME NEW s \in Seq(Nat)
  PROVE  \E u \in [0..Len(s) -> Nat] :
           /\ u[0] = 0
           /\ \A d \in 1..Len(s) : u[d] = u[d - 1] * Byte + s[d]
           /\ Value(s) = u[Len(s)]
<1> DEFINE n == Len(s)
           u == CHOOSE u : Recursion(s, n, u)
<1>1. n \in Nat /\ \A d \in 1..n : s[d] \in Nat
  OBVIOUS
<1>2. \E v : v \in [0..n -> Nat] /\ Recursion(s, n, v)
  <2>1. PICK v : Prefixes(s, n, v)
    BY <1>1, PrefixesExist
  <2>2. v \in [0..n -> Nat] /\ Recursion(s, n, v)
    BY <2>1 DEF Prefixes
  <2>3. QED
    BY <2>2
<1>3. Value(s) = u[n]
  BY DEF Value, Recursion
<1>4. Recursion(s, n, u)
  BY <1>2
<1> HIDE DEF u
<1>5. u[0] = 0 /\ \A d \in 1..n : u[d] = u[d - 1] * Byte + s[d]
  BY <1>1, <1>4, RecursionGives
<1>6. u \in [0..n -> Nat]
  <2> DEFINE S == {d \in Nat : u[d] \in Nat}
  <2>1. 0 \in S
    BY <1>5
  <2>2. ASSUME NEW d \in 0..(n - 1), d \in S PROVE d + 1 \in S
    <3>1. d + 1 \in 1..n /\ (d + 1) - 1 = d /\ d + 1 \in Nat
      BY <1>1
    <3>2. u[d + 1] = u[d] * Byte + s[d + 1] /\ s[d + 1] \in Nat /\ u[d] \in Nat
      BY <1>1, <1>5, <2>2, <3>1
    <3>3. u[d] * Byte \in Nat
      BY <3>2, Sizes
    <3>4. QED
      BY <3>1, <3>2, <3>3
  <2> HIDE DEF S
  <2>3. \A d \in 0..n : d \in S
    BY <1>1, <2>1, <2>2, UpTo
  <2>4. \A d \in 0..n : u[d] \in Nat
    BY <2>3 DEF S
  <2>5. u = [d \in 0..n |-> u[d]]
    BY <1>1, <1>4, RecursionGives
  <2>6. QED
    BY <2>4, <2>5
<1>7. QED
  BY <1>3, <1>5, <1>6

------------------------------------------------------------------------------
(* Import undoes export, for one number, and export undoes import.         *)

LEMMA DigitIs ==
  ASSUME NEW x \in Int, NEW w \in 0..Wide, NEW d \in 1..w
  PROVE  Digits(x, w)[d] = (Abs(x) \div Pow[w - d]) % Byte /\ w - d \in 0..Wide
<1>1. w - d \in 0..Wide /\ w \in Nat
  BY Sizes
<1>2. Byte^(w - d) = Pow[w - d]
  BY <1>1, PowerIs
<1>3. Digits(x, w)[d] = (Abs(x) \div Byte^(w - d)) % Byte
  BY DEF Digits
<1>4. QED
  BY <1>1, <1>2, <1>3

LEMMA OneMoreDigit ==
  ASSUME NEW x \in Nat, NEW p \in Nat, NEW b \in Nat, NEW d \in Nat, x < p, d < b
  PROVE  x * b + d < b * p
<1>1. PICK q \in Nat : p = x + 1 + q
  <2>1. p - (x + 1) \in Nat /\ p = x + 1 + (p - (x + 1))
    OBVIOUS
  <2>2. QED
    BY <2>1
<1>2. b * p = x * b + b + b * q /\ b * q \in Nat /\ x * b \in Nat
  BY <1>1
<1>3. QED
  BY <1>2

LEMMA AbsIs == \A x \in Int : Abs(x) \in Nat /\ (x >= 0 => Abs(x) = x) /\ (x < 0 => Abs(x) = -x)
BY DEF Abs

LEMMA DigitsAre ==
  ASSUME NEW x \in Int, NEW w \in 0..Wide
  PROVE  Digits(x, w) \in Seq(Bytes) /\ Len(Digits(x, w)) = w
<1>1. ASSUME NEW d \in 1..w PROVE Digits(x, w)[d] \in Bytes
  <2>1. Digits(x, w)[d] = (Abs(x) \div Pow[w - d]) % Byte /\ w - d \in 0..Wide
    BY DigitIs
  <2>2. Abs(x) \in Nat /\ Pow[w - d] \in Nat /\ Pow[w - d] > 0
    BY <2>1, AbsIs, PowPositive
  <2>3. (Abs(x) \div Pow[w - d]) \in Nat
    BY <2>2, NatQuotient
  <2> DEFINE q == Abs(x) \div Pow[w - d]
  <2> HIDE DEF q
  <2>4. q \in Nat
    BY <2>3 DEF q
  <2>5. q % Byte \in Bytes
    BY <2>4, Sizes DEF Bytes
  <2>6. QED
    BY <2>1, <2>5 DEF q
<1>2. w \in Nat
  BY Sizes
<1> DEFINE g(d) == (Abs(x) \div Byte^(w - d)) % Byte
<1> HIDE DEF g
<1>3. Digits(x, w) = [d \in 1..w |-> g(d)]
  BY DEF Digits, g
<1>4. \A d \in 1..w : g(d) \in Bytes
  BY <1>1, <1>3
<1>5. QED
  BY <1>2, <1>3, <1>4

(* A number that fits is read as its magnitude.                            *)
LEMMA ValueOfDigits ==
  ASSUME NEW x \in Int, NEW w \in 0..Wide, Abs(x) < Pow[w]
  PROVE  Value(Digits(x, w)) = Abs(x)
<1> DEFINE s == Digits(x, w)
           a == Abs(x)
<1>1. s \in Seq(Bytes) /\ Len(s) = w /\ w \in Nat
  BY DigitsAre, Sizes
<1>2. s \in Seq(Nat)
  BY <1>1, Sizes DEF Bytes
<1>3. a \in Nat
  BY AbsIs
<1>4. PICK u \in [0..w -> Nat] :
        /\ u[0] = 0
        /\ \A d \in 1..w : u[d] = u[d - 1] * Byte + s[d]
        /\ Value(s) = u[w]
  BY <1>1, <1>2, ValueIs
<1>5. \A d \in 1..w : s[d] = (a \div Pow[w - d]) % Byte
  BY DigitIs
<1>6. a < Pow[w]
  OBVIOUS
<1> HIDE DEF s, a
<1> DEFINE S == {d \in Nat : u[d] = a \div Pow[w - d]}
<1>7. 0 \in S
  <2>1. w - 0 = w /\ Pow[w] \in Nat
    BY <1>1, PowPositive
  <2>2. a = 0 * Pow[w] + a
    BY <1>3, <2>1
  <2>3. a \div Pow[w] = 0
    BY <1>3, <1>6, <2>1, <2>2, QuotientIs
  <2>4. QED
    BY <1>4, <2>1, <2>3
<1>8. ASSUME NEW d \in 0..(w - 1), d \in S PROVE d + 1 \in S
  <2> DEFINE k == w - (d + 1)
             q == a \div Pow[k]
  <2>1. k \in 0..(Wide - 1) /\ w - d = k + 1 /\ d + 1 \in 1..w /\ (d + 1) - 1 = d /\ k \in 0..Wide
    BY <1>1, Sizes
  <2> HIDE DEF k
  <2>2. Pow[k] \in Nat /\ Pow[k] >= 1 /\ Pow[k + 1] = Byte * Pow[k]
    BY <2>1, PowIs, PowPositive
  <2>3. Pow[k + 1] = Pow[k] * Byte
    BY <2>2, Sizes
  <2>4. q \div Byte = a \div (Pow[k] * Byte)
    <3>1. Pow[k] > 0 /\ Byte > 0 /\ Byte \in Nat
      BY <2>2, Sizes
    <3>2. QED
      BY <1>3, <2>2, <3>1, QuotientTwice
  <2>5. q \in Nat
    BY <1>3, <2>2, NatQuotient
  <2> HIDE DEF q
  <2>6. u[d] = q \div Byte
    BY <1>8, <2>1, <2>3, <2>4
  <2>7. u[d + 1] = u[d] * Byte + s[d + 1]
    BY <1>4, <2>1
  <2>8. s[d + 1] = q % Byte
    BY <1>5, <2>1 DEF q, k
  <2>9. q = (q \div Byte) * Byte + (q % Byte)
    BY <2>5, Sizes, Euclid
  <2>10. u[d + 1] = q
    BY <2>6, <2>7, <2>8, <2>9
  <2>11. QED
    BY <2>1, <2>10 DEF q, k
<1> HIDE DEF S
<1>9. w \in S
  <2>1. \A d \in 0..w : d \in S
    BY <1>1, <1>7, <1>8, UpTo
  <2>2. QED
    BY <1>1, <2>1
<1>10. u[w] = a \div Pow[0] /\ Pow[0] = 1
  BY <1>1, <1>9, PowIs DEF S
<1>11. a \div 1 = a
  BY <1>3, QuotientIs
<1>12. QED
  BY <1>4, <1>10, <1>11 DEF s, a

(* What is read fits, and is written as it was read.                       *)
LEMMA DigitsOfValue ==
  ASSUME NEW s \in Seq(Bytes), Len(s) \in 0..Wide
  PROVE  /\ Value(s) \in Nat /\ Value(s) < Pow[Len(s)]
         /\ Digits(Value(s), Len(s)) = s
<1> DEFINE w == Len(s)
<1>1. w \in Nat /\ w \in 0..Wide
  BY Sizes
<1>2. s \in Seq(Nat) /\ \A d \in 1..w : s[d] \in Bytes
  BY Sizes DEF Bytes
<1>3. PICK u \in [0..w -> Nat] :
        /\ u[0] = 0
        /\ \A d \in 1..w : u[d] = u[d - 1] * Byte + s[d]
        /\ Value(s) = u[w]
  BY <1>2, ValueIs
<1>4. s = [d \in 1..w |-> s[d]]
  OBVIOUS
<1> HIDE DEF w
<1> DEFINE S == {d \in Nat : /\ u[d] < Pow[d]
                             /\ \A k \in 1..d : (u[d] \div Pow[d - k]) % Byte = s[k]}
<1>5. 0 \in S
  BY <1>3, PowIs
<1>6. ASSUME NEW d \in 0..(w - 1), d \in S PROVE d + 1 \in S
  <2>1. d + 1 \in 1..w /\ (d + 1) - 1 = d /\ d \in 0..(Wide - 1) /\ d \in 0..Wide /\ d \in 0..w /\ d \in Nat
    BY <1>1, Sizes
  <2>2. u[d + 1] = u[d] * Byte + s[d + 1] /\ u[d] \in Nat
    BY <1>3, <2>1
  <2>3. s[d + 1] \in Nat /\ s[d + 1] < Byte
    BY <1>2, <2>1, Sizes DEF Bytes
  <2>4. Pow[d + 1] = Byte * Pow[d] /\ Pow[d] \in Nat /\ u[d] < Pow[d]
    BY <1>6, <2>1, PowIs, PowPositive
  <2>5. u[d + 1] \in Nat
    BY <1>3, <2>1
  <2>6. u[d + 1] < Pow[d + 1]
    <3>1. u[d] * Byte + s[d + 1] < Byte * Pow[d]
      BY <2>2, <2>3, <2>4, Sizes, OneMoreDigit
    <3>2. QED
      BY <2>2, <2>4, <3>1
  <2>7. u[d + 1] \div Byte = u[d] /\ u[d + 1] % Byte = s[d + 1]
    <3>1. Byte > 0 /\ Byte \in Nat
      BY Sizes
    <3>2. QED
      BY <2>2, <2>3, <2>5, <3>1, QuotientIs
  <2>8. ASSUME NEW k \in 1..(d + 1) PROVE (u[d + 1] \div Pow[(d + 1) - k]) % Byte = s[k]
    <3>1. CASE k = d + 1
      <4>1. (d + 1) - k = 0 /\ Pow[0] = 1
        BY <2>1, <3>1, PowIs
      <4>2. u[d + 1] \div 1 = u[d + 1]
        BY <2>5, QuotientIs
      <4>3. QED
        BY <2>7, <3>1, <4>1, <4>2
    <3>2. CASE k \in 1..d
      <4> DEFINE m == d - k
      <4>1. m \in 0..(Wide - 1) /\ m \in 0..Wide /\ (d + 1) - k = m + 1
        BY <2>1, <3>2, Sizes
      <4>2. (u[d] \div Pow[m]) % Byte = s[k]
        BY <1>6, <3>2
      <4> HIDE DEF m
      <4>3. Pow[m + 1] = Byte * Pow[m] /\ Pow[m] \in Nat /\ Pow[m] > 0
        BY <4>1, PowIs, PowPositive
      <4>4. Byte > 0 /\ Byte \in Nat
        BY Sizes
      <4>5. u[d + 1] \div (Byte * Pow[m]) = (u[d + 1] \div Byte) \div Pow[m]
        BY <2>5, <4>3, <4>4, QuotientTwice
      <4>6. QED
        BY <2>7, <4>1, <4>2, <4>3, <4>5
    <3>3. QED
      BY <2>1, <3>1, <3>2
  <2>9. QED
    BY <2>1, <2>6, <2>8
<1> HIDE DEF S
<1>7. w \in S
  <2>1. \A d \in 0..w : d \in S
    BY <1>1, <1>5, <1>6, UpTo
  <2>2. QED
    BY <1>1, <2>1
<1>8. u[w] < Pow[w] /\ \A k \in 1..w : (u[w] \div Pow[w - k]) % Byte = s[k]
  BY <1>7 DEF S
<1>9. u[w] \in Nat /\ Abs(u[w]) = u[w]
  BY <1>1, <1>3, AbsIs
<1>10. ASSUME NEW d \in 1..w PROVE Digits(u[w], w)[d] = s[d]
  BY <1>1, <1>8, <1>9, DigitIs
<1>11. Digits(u[w], w) = [d \in 1..w |-> Digits(u[w], w)[d]]
  BY DEF Digits
<1>12. Digits(u[w], w) = s
  BY <1>4, <1>10, <1>11 DEF w
<1>13. QED
  BY <1>3, <1>8, <1>9, <1>12 DEF w

------------------------------------------------------------------------------
(* The fields and their places.                                            *)

NameOf(i) == ExportList[i][1]
WidthOf(i) == ExportList[i][2]

(* Import reads what export writes, in the same order and widths.          *)
LEMMA ListsAgree == ImportList = ExportList
BY DEF ImportList, ExportList

(* Where each field begins, and at last the sign byte.                     *)
Start ==
  << 0, ModBytes, 2 * ModBytes, 2 * ModBytes + 2, 2 * ModBytes + 2 + ChalBytes,
     2 * ModBytes + 2 + ChalBytes + EllBytes,
     3 * ModBytes + 2 + ChalBytes + EllBytes,
     4 * ModBytes + 2 + ChalBytes + EllBytes,
     5 * ModBytes + 2 + ChalBytes + EllBytes,
     6 * ModBytes + 2 + ChalBytes + EllBytes,
     6 * ModBytes + 2 + ChalBytes + EllBytes + ExpBytes,
     6 * ModBytes + 2 + ChalBytes + 2 * EllBytes + ExpBytes,
     6 * ModBytes + 2 + ChalBytes + 3 * EllBytes + ExpBytes,
     6 * ModBytes + 2 + ChalBytes + 4 * EllBytes + ExpBytes,
     6 * ModBytes + 2 + ChalBytes + 5 * EllBytes + ExpBytes,
     6 * ModBytes + 2 + ChalBytes + 6 * EllBytes + ExpBytes,
     6 * ModBytes + 2 + ChalBytes + 7 * EllBytes + ExpBytes,
     6 * ModBytes + 2 + ChalBytes + 8 * EllBytes + ExpBytes,
     6 * ModBytes + 2 + ChalBytes + 9 * EllBytes + ExpBytes >>

LEMMA ListIs ==
  /\ Len(ExportList) = 18 /\ DOMAIN ExportList = 1..18
  /\ \A i \in 1..18 : NameOf(i) \in Fields /\ WidthOf(i) \in 0..Wide
  /\ \A x \in Fields : \E i \in 1..18 : NameOf(i) = x
  /\ NameOf(10) = "Eq"
<1>1. Len(ExportList) = 18 /\ DOMAIN ExportList = 1..18
  BY DEF ExportList
<1>2. ASSUME NEW i \in 1..18 PROVE NameOf(i) \in Fields /\ WidthOf(i) \in 0..Wide
  BY Sizes DEF NameOf, WidthOf, ExportList, Fields, Wide
<1>3. ASSUME NEW x \in Fields PROVE \E i \in 1..18 : NameOf(i) = x
  BY DEF NameOf, ExportList, Fields
<1>4. NameOf(10) = "Eq"
  BY DEF NameOf, ExportList
<1>5. QED
  BY <1>1, <1>2, <1>3, <1>4

LEMMA WidthsAre == \A i \in 1..18 : WidthOf(i) \in Nat
<1>1. \A i \in 1..18 : WidthOf(i) \in 0..Wide
  BY ListIs
<1>2. QED
  BY <1>1, Sizes

LEMMA NamesDiffer ==
  \A i, j \in 1..18 : NameOf(i) = NameOf(j) => i = j
BY DEF NameOf, ExportList

LEMMA StartIs ==
  /\ \A i \in 1..19 : Start[i] \in Nat
  /\ Start[1] = 0 /\ Start[19] + 1 = Size
  /\ \A i \in 1..18 : Start[i + 1] = Start[i] + WidthOf(i)
<1>1. \A i \in 1..19 : Start[i] \in Nat
  BY Sizes DEF Start
<1>2. Start[1] = 0 /\ Start[19] + 1 = Size
  BY Sizes DEF Start, Size
<1>3. ASSUME NEW i \in 1..18 PROVE Start[i + 1] = Start[i] + WidthOf(i)
  BY Sizes DEF Start, WidthOf, ExportList
<1>4. QED
  BY <1>1, <1>2, <1>3

LEMMA StartsGrow ==
  ASSUME NEW i \in 1..19, NEW j \in 1..19, i <= j
  PROVE  Start[i] <= Start[j]
<1> DEFINE S == {k \in Nat : k + 1 >= i => Start[i] <= Start[k + 1]}
<1>1. 0 \in S
  BY StartIs
<1>2. ASSUME NEW k \in 0..(18 - 1), k \in S PROVE k + 1 \in S
  <2>1. k + 1 \in 1..18 /\ (k + 1) + 1 \in 1..19 /\ k + 1 \in 1..19
    OBVIOUS
  <2>2. Start[(k + 1) + 1] = Start[k + 1] + WidthOf(k + 1)
    BY <2>1, StartIs
  <2>3. WidthOf(k + 1) \in Nat /\ Start[k + 1] \in Nat /\ Start[i] \in Nat
    BY <2>1, ListIs, StartIs
  <2>4. CASE (k + 1) + 1 = i
    BY <2>1, <2>3, <2>4
  <2>5. CASE (k + 1) + 1 # i
    BY <1>2, <2>1, <2>2, <2>3, <2>5
  <2>6. QED
    BY <2>4, <2>5
<1> HIDE DEF S
<1>3. \A k \in 0..18 : k \in S
  BY <1>1, <1>2, UpTo
<1>4. j - 1 \in 0..18 /\ (j - 1) + 1 = j
  OBVIOUS
<1>5. QED
  BY <1>3, <1>4 DEF S

(* A field lies before every later one, and before the sign byte.          *)
LEMMA PlaceIs ==
  ASSUME NEW i \in 1..18, NEW d \in 1..WidthOf(i)
  PROVE  /\ Start[i] + d \in 1..(Size - 1)
         /\ \A j \in 1..19 : i < j => Start[i] + d <= Start[j]
<1>1. i + 1 \in 1..19 /\ i \in 1..19 /\ 19 \in 1..19
  OBVIOUS
<1>2. Start[i] \in Nat /\ WidthOf(i) \in Nat /\ Start[i + 1] = Start[i] + WidthOf(i)
  BY <1>1, StartIs, ListIs
<1>3. ASSUME NEW j \in 1..19, i < j PROVE Start[i] + d <= Start[j]
  <2>1. Start[i + 1] <= Start[j]
    BY <1>1, <1>3, StartsGrow
  <2>2. Start[j] \in Nat
    BY StartIs
  <2>3. QED
    BY <1>2, <2>1, <2>2
<1>4. Start[i] + d <= Start[19] /\ Start[19] \in Nat /\ Start[19] = Size - 1
  BY <1>1, <1>3, StartIs, Sizes
<1>5. QED
  BY <1>2, <1>3, <1>4

(* Each byte but the last belongs to a field.                              *)
LEMMA EveryPlace ==
  ASSUME NEW p \in 1..(Size - 1)
  PROVE  \E i \in 1..18 : \E d \in 1..WidthOf(i) : p = Start[i] + d
<1> DEFINE In(q) == \E i \in 1..18 : \E d \in 1..WidthOf(i) : q = Start[i] + d
           S == {k \in Nat : \A q \in 1..Start[k + 1] : In(q)}
<1>1. 0 \in S
  BY StartIs
<1>2. ASSUME NEW k \in 0..(18 - 1), k \in S PROVE k + 1 \in S
  <2>1. k + 1 \in 1..18 /\ (k + 1) + 1 \in 1..19 /\ k + 1 \in 1..19
    OBVIOUS
  <2>2. Start[(k + 1) + 1] = Start[k + 1] + WidthOf(k + 1)
    BY <2>1, StartIs
  <2>3. WidthOf(k + 1) \in Nat /\ Start[k + 1] \in Nat
    BY <2>1, ListIs, StartIs
  <2>4. ASSUME NEW q \in 1..Start[(k + 1) + 1] PROVE In(q)
    <3>1. CASE q <= Start[k + 1]
      <4>1. q \in 1..Start[k + 1]
        BY <2>3, <3>1
      <4>2. QED
        BY <1>2, <4>1
    <3>2. CASE q > Start[k + 1]
      <4>1. q - Start[k + 1] \in 1..WidthOf(k + 1) /\ q = Start[k + 1] + (q - Start[k + 1])
        BY <2>2, <2>3, <3>2
      <4>2. QED
        BY <2>1, <4>1
    <3>3. QED
      BY <2>3, <3>1, <3>2
  <2>5. QED
    BY <2>1, <2>4
<1> HIDE DEF S, In
<1>3. \A k \in 0..18 : k \in S
  BY <1>1, <1>2, UpTo
<1>4. 18 \in S /\ Start[18 + 1] = Size - 1
  BY <1>3, StartIs, Sizes
<1>5. In(p)
  BY <1>4 DEF S
<1>6. QED
  BY <1>5 DEF In

------------------------------------------------------------------------------
(* Signatures in bytes.                                                    *)

Fits(x, i) == Abs(x[NameOf(i)]) < Pow[WidthOf(i)]
Holds(s, x, i) ==
  \A d \in 1..WidthOf(i) : s[Start[i] + d] = Digits(x[NameOf(i)], WidthOf(i))[d]
Chunk(s, i) == SubSeq(s, Start[i] + 1, Start[i] + WidthOf(i))

(* s is what export makes of x.                                            *)
Encodes(s, x) ==
  /\ Len(s) = Size
  /\ \A i \in 1..18 : Fits(x, i) /\ Holds(s, x, i)
  /\ s[Size] = SignByte(x["Eq"])

(* x is what import makes of s: the sign of zero is lost.                  *)
Taken(s, x) ==
  /\ Len(s) = Size
  /\ \A i \in 1..18 : Abs(x[NameOf(i)]) = Value(Chunk(s, i))
  /\ x["Eq"] # 0 => s[Size] = SignByte(x["Eq"])

LEMMA ChunkIs ==
  ASSUME NEW s \in Seq(Bytes), Len(s) = Size, NEW i \in 1..18
  PROVE  /\ Chunk(s, i) \in Seq(Bytes) /\ Len(Chunk(s, i)) = WidthOf(i)
         /\ \A d \in 1..WidthOf(i) : Chunk(s, i)[d] = s[Start[i] + d]
<1>1. Start[i] \in Nat /\ WidthOf(i) \in Nat /\ Start[i] + WidthOf(i) <= Size
  <2>1. i \in 1..19 /\ i + 1 \in 1..19 /\ 19 \in 1..19 /\ i + 1 <= 19
    OBVIOUS
  <2>2. Start[i + 1] <= Start[19]
    BY <2>1, StartsGrow
  <2>3. Start[i] \in Nat /\ Start[19] \in Nat
    BY <2>1, StartIs
  <2>4. WidthOf(i) \in Nat
    BY WidthsAre
  <2>5. Start[i + 1] = Start[i] + WidthOf(i) /\ Start[19] + 1 = Size
    BY StartIs
  <2>6. QED
    BY <2>2, <2>3, <2>4, <2>5
<1>2. \A d \in 1..WidthOf(i) : Start[i] + d \in 1..Len(s) /\ s[Start[i] + d] \in Bytes
  BY <1>1
<1>3. Len(Chunk(s, i)) = WidthOf(i)
  BY <1>1 DEF Chunk
<1>4. ASSUME NEW d \in 1..WidthOf(i) PROVE Chunk(s, i)[d] = s[Start[i] + d]
  BY <1>1 DEF Chunk
<1>5. Chunk(s, i) \in Seq(Bytes)
  BY <1>1, <1>2 DEF Chunk
<1>6. QED
  BY <1>3, <1>4, <1>5

(* Import reads the magnitude that export wrote.                           *)
LEMMA ReadsBack ==
  ASSUME NEW s \in Seq(Bytes), Len(s) = Size, NEW x \in [Fields -> Int], NEW i \in 1..18,
         Fits(x, i), Holds(s, x, i)
  PROVE  Value(Chunk(s, i)) = Abs(x[NameOf(i)])
<1> DEFINE v == x[NameOf(i)]
           w == WidthOf(i)
<1>1. v \in Int /\ w \in 0..Wide /\ w \in Nat
  <2>1. NameOf(i) \in Fields /\ w \in 0..Wide
    BY ListIs
  <2>2. QED
    BY <2>1
<1>2. Digits(v, w) \in Seq(Bytes) /\ Len(Digits(v, w)) = w /\ Value(Digits(v, w)) = Abs(v)
  BY <1>1, DigitsAre, ValueOfDigits DEF Fits
<1>3. Chunk(s, i) \in Seq(Bytes) /\ Len(Chunk(s, i)) = w
      /\ \A d \in 1..w : Chunk(s, i)[d] = Digits(v, w)[d]
  BY ChunkIs DEF Holds
<1> DEFINE a == Chunk(s, i)
           b == Digits(v, w)
<1> HIDE DEF a, b, v, w
<1>4. a = b
  <2>1. a \in Seq(Bytes) /\ b \in Seq(Bytes) /\ Len(a) = w /\ Len(b) = w /\ \A d \in 1..w : a[d] = b[d]
    BY <1>2, <1>3 DEF a, b
  <2>2. QED
    BY <2>1
<1>5. QED
  BY <1>2, <1>4 DEF a, b, v

(* What was read from a field is in range, and in the bytes it came from.  *)
LEMMA WritesBack ==
  ASSUME NEW s \in Seq(Bytes), Len(s) = Size, NEW x \in [Fields -> Int], NEW i \in 1..18,
         Abs(x[NameOf(i)]) = Value(Chunk(s, i))
  PROVE  Fits(x, i) /\ Holds(s, x, i)
<1> DEFINE v == x[NameOf(i)]
           w == WidthOf(i)
           a == Chunk(s, i)
<1>1. v \in Int /\ w \in 0..Wide /\ w \in Nat
  <2>1. NameOf(i) \in Fields /\ w \in 0..Wide
    BY ListIs
  <2>2. QED
    BY <2>1
<1>2. a \in Seq(Bytes) /\ Len(a) = w /\ \A d \in 1..w : a[d] = s[Start[i] + d]
  BY ChunkIs
<1>3. Value(a) = Abs(v)
  OBVIOUS
<1> HIDE DEF a, v, w
<1>4. Value(a) < Pow[w] /\ Digits(Value(a), w) = a
  BY <1>1, <1>2, DigitsOfValue
<1>5. Digits(Value(a), w) = Digits(v, w)
  <2>1. Abs(v) \in Nat /\ Abs(Abs(v)) = Abs(v)
    BY <1>1, AbsIs
  <2>2. QED
    BY <1>3, <2>1 DEF Digits
<1>6. Fits(x, i)
  BY <1>3, <1>4 DEF Fits, v, w
<1>7. Holds(s, x, i)
  BY <1>2, <1>4, <1>5 DEF Holds, v, w
<1>8. QED
  BY <1>6, <1>7

(* There is one encoding of the magnitudes and the sign byte.              *)
LEMMA OneOfEach ==
  ASSUME NEW s \in Seq(Bytes), NEW t \in Seq(Bytes), NEW x \in [Fields -> Int],
         Len(s) = Size, Len(t) = Size, s[Size] = t[Size],
         \A i \in 1..18 : Holds(s, x, i) /\ Holds(t, x, i)
  PROVE  s = t
<1>1. ASSUME NEW p \in 1..Size PROVE s[p] = t[p]
  <2>1. CASE p = Size
    BY <2>1
  <2>2. CASE p # Size
    <3>1. p \in 1..(Size - 1)
      BY <2>2, Sizes
    <3>2. PICK i \in 1..18 : \E d \in 1..WidthOf(i) : p = Start[i] + d
      BY <3>1, EveryPlace
    <3>3. PICK d \in 1..WidthOf(i) : p = Start[i] + d
      BY <3>2
    <3>4. s[p] = Digits(x[NameOf(i)], WidthOf(i))[d] /\ t[p] = Digits(x[NameOf(i)], WidthOf(i))[d]
      BY <3>3 DEF Holds
    <3>5. QED
      BY <3>4
  <2>3. QED
    BY <2>1, <2>2
<1>2. QED
  BY <1>1, Sizes

(* Import of export gives the signature back: only Eq may be negative.     *)
LEMMA SameSignature ==
  ASSUME NEW s, NEW x \in [Fields -> Int], NEW y \in [Fields -> Int], s \in Seq(Bytes),
         Encodes(s, x), Taken(s, y),
         \A n \in Fields \ {"Eq"} : x[n] >= 0 /\ y[n] >= 0
  PROVE  x = y
<1>1. ASSUME NEW n \in Fields PROVE x[n] = y[n]
  <2>1. PICK i \in 1..18 : NameOf(i) = n
    BY ListIs
  <2>2. Len(s) = Size /\ Fits(x, i) /\ Holds(s, x, i) /\ Abs(y[n]) = Value(Chunk(s, i))
    BY <2>1 DEF Encodes, Taken
  <2>3. Abs(x[n]) = Abs(y[n]) /\ x[n] \in Int /\ y[n] \in Int
    BY <2>1, <2>2, ReadsBack
  <2>4. CASE n # "Eq"
    <3>1. x[n] >= 0 /\ y[n] >= 0
      BY <2>4
    <3>2. QED
      BY <2>3, <3>1 DEF Abs
  <2>5. CASE n = "Eq"
    <3>1. s[Size] = SignByte(x[n]) /\ (y[n] # 0 => s[Size] = SignByte(y[n]))
      BY <2>5 DEF Encodes, Taken
    <3>2. CASE y[n] = 0
      BY <2>3, <3>2 DEF Abs
    <3>3. CASE y[n] # 0
      BY <2>3, <3>1, <3>3 DEF Abs, SignByte
    <3>4. QED
      BY <3>2, <3>3
  <2>6. QED
    BY <2>4, <2>5
<1>2. QED
  BY <1>1

------------------------------------------------------------------------------
(* The inductive invariant.                                                *)

Signatures == [Fields -> Int]

TypeOK ==
  /\ pc \in {"idle", "write", "sent", "read", "imported", "done"}
  /\ sig \in Signatures /\ first \in Signatures
  /\ data \in Seq(Bytes) /\ wire \in Seq(Bytes)
  /\ f \in 1..19 /\ pos \in Nat
  /\ ok \in BOOLEAN /\ intact \in BOOLEAN
  /\ \A n \in Fields \ {"Eq"} : first[n] >= 0

Idle ==
  pc = "idle" =>
    /\ sig = Zero /\ data = <<>> /\ f = 1 /\ pos = 0
    /\ ~ok /\ wire = <<>>

(* Export has written the fields before f, of the signature to be sent or  *)
(* of the one that was read from wire.                                     *)
Writing ==
  pc = "write" =>
    /\ pos = Start[f] /\ Len(data) = pos
    /\ \A i \in 1..18 : i < f => Fits(sig, i) /\ Holds(data, sig, i)
    /\ wire = <<>> => sig = first
    /\ wire # <<>> => ok /\ Taken(wire, sig)

Sent ==
  pc = "sent" =>
    /\ pos = Size /\ Encodes(data, first)
    /\ wire = <<>> /\ sig = first

(* Import has read the fields before f.                                    *)
Reading ==
  pc = "read" =>
    /\ wire # <<>>
    /\ intact => Encodes(wire, first)
    /\ Len(wire) = Size =>
         /\ pos = Start[f]
         /\ \A i \in 1..18 : i < f => sig[NameOf(i)] = Value(Chunk(wire, i))

Imported ==
  pc = "imported" =>
    /\ wire # <<>>
    /\ ok => pos = Len(wire) /\ Taken(wire, sig)
    /\ intact => ok /\ sig = first

Done ==
  pc = "done" =>
    /\ ok => pos = Size /\ Len(data) = Size
    /\ wire = <<>> => ~ok /\ \E i \in 1..18 : ~Fits(first, i)
    /\ wire # <<>> => ok /\ (sig["Eq"] # 0 => data = wire)

Inv == TypeOK /\ Idle /\ Writing /\ Sent /\ Reading /\ Imported /\ Done

LEMMA FieldAtHand ==
  ASSUME f \in 1..19, f <= Len(ExportList)
  PROVE  /\ f \in 1..18 /\ f + 1 \in 1..19
         /\ Name(ExportList) = NameOf(f) /\ Width(ExportList) = WidthOf(f)
         /\ Byte^Width(ExportList) = Pow[WidthOf(f)]
         /\ \A i \in 1..18 : i < f + 1 => i < f \/ i = f
<1>1. f \in 1..18
  BY ListIs
<1>2. Name(ExportList) = NameOf(f) /\ Width(ExportList) = WidthOf(f) /\ Byte^WidthOf(f) = Pow[WidthOf(f)]
  BY <1>1, ListIs, PowerIs DEF Name, Width, NameOf, WidthOf
<1>3. QED
  BY <1>1, <1>2

LEMMA InitInv == Init => Inv
<1>1. SUFFICES ASSUME Init PROVE Inv
  OBVIOUS
<1>2. <<>> \in Seq(Bytes) /\ Zero \in Signatures /\ \A n \in Fields : Zero[n] = 0
  BY DEF Zero, Signatures
<1>3. pc = "idle" /\ f \in 1..19 /\ pos \in Nat /\ ok \in BOOLEAN /\ intact \in BOOLEAN
      /\ sig \in Signatures /\ first \in Signatures /\ data \in Seq(Bytes) /\ wire \in Seq(Bytes)
  <2>1. pc = "idle" /\ f = 1 /\ pos = 0 /\ ok = FALSE /\ intact = FALSE
        /\ sig = Zero /\ first = Zero /\ data = <<>> /\ wire = <<>>
    BY <1>1 DEF Init
  <2>2. f \in 1..19 /\ pos \in Nat
    BY <2>1
  <2>3. ok \in BOOLEAN /\ intact \in BOOLEAN
    BY <2>1
  <2>4. QED
    BY <1>2, <2>1, <2>2, <2>3
<1>4. \A n \in Fields \ {"Eq"} : first[n] >= 0
  BY <1>1, <1>2 DEF Init
<1>5. TypeOK
  BY <1>3, <1>4 DEF TypeOK
<1>6. Idle /\ Writing /\ Sent /\ Reading /\ Imported /\ Done
  BY <1>1 DEF Init, Idle, Writing, Sent, Reading, Imported, Done
<1>7. QED
  BY <1>5, <1>6 DEF Inv

(* The step leaves the module's state at one place of the program.         *)
LEMMA OnlyWriting ==
  ASSUME TypeOK', Writing', pc' = "write"
  PROVE  Inv'
BY DEF Inv, Idle, Writing, Sent, Reading, Imported, Done

LEMMA OnlyReading ==
  ASSUME TypeOK', Reading', pc' = "read"
  PROVE  Inv'
BY DEF Inv, Idle, Writing, Sent, Reading, Imported, Done

LEMMA OnlyDone ==
  ASSUME TypeOK', Done', pc' = "done"
  PROVE  Inv'
BY DEF Inv, Idle, Writing, Sent, Reading, Imported, Done

LEMMA OnlySent ==
  ASSUME TypeOK', Sent', pc' = "sent"
  PROVE  Inv'
BY DEF Inv, Idle, Writing, Sent, Reading, Imported, Done

LEMMA OnlyImported ==
  ASSUME TypeOK', Imported', pc' = "imported"
  PROVE  Inv'
BY DEF Inv, Idle, Writing, Sent, Reading, Imported, Done

LEMMA ExportInv ==
  ASSUME Inv, NEW s \in Sigs, Export(s)
  PROVE  Inv'
<1>1. s \in Signatures /\ \A n \in Fields \ {"Eq"} : s[n] >= 0
  BY FieldsAssumption DEF Signatures
<1>2. pc = "idle" /\ pc' = "write" /\ sig' = s /\ first' = s
      /\ UNCHANGED <<data, f, pos, ok, wire, intact>>
  BY DEF Export
<1>3. TypeOK'
  BY <1>1, <1>2 DEF Inv, TypeOK
<1>4. data' = <<>> /\ f' = 1 /\ pos' = 0 /\ wire' = <<>>
  BY <1>2 DEF Inv, Idle
<1>5. pos' = Start[f'] /\ Len(data') = pos' /\ ~ \E i \in 1..18 : i < f'
  BY <1>4, StartIs
<1>6. Writing'
  BY <1>2, <1>4, <1>5 DEF Writing
<1>7. QED
  BY <1>2, <1>3, <1>6, OnlyWriting

LEMMA TooWideInv ==
  ASSUME Inv, TooWide
  PROVE  Inv'
<1>1. pc = "write" /\ f <= Len(ExportList) /\ Abs(sig[Name(ExportList)]) >= Byte^Width(ExportList) /\ pc' = "done" /\ ok' = FALSE
      /\ UNCHANGED <<sig, data, f, pos, first, wire, intact>>
  BY DEF TooWide
<1>2. TypeOK'
  BY <1>1 DEF Inv, TypeOK
<1>3. f \in 1..19 /\ wire \in Seq(Bytes) /\ sig \in [Fields -> Int]
  BY DEF Inv, TypeOK, Signatures
<1>4. f \in 1..18 /\ Name(ExportList) = NameOf(f) /\ Byte^Width(ExportList) = Pow[WidthOf(f)]
  BY <1>1, <1>3, FieldAtHand
<1>5. ~Fits(sig, f)
  <2>1. NameOf(f) \in Fields /\ WidthOf(f) \in 0..Wide
    BY <1>4, ListIs
  <2>2. Abs(sig[NameOf(f)]) \in Nat /\ Pow[WidthOf(f)] \in Nat
    BY <1>3, <2>1, AbsIs, PowPositive
  <2>3. QED
    BY <1>1, <1>4, <2>2 DEF Fits
<1>6. wire = <<>>
  <2>1. SUFFICES ASSUME wire # <<>> PROVE FALSE
    OBVIOUS
  <2>2. Taken(wire, sig)
    BY <1>1, <2>1 DEF Inv, Writing
  <2>3. Len(wire) = Size /\ Abs(sig[NameOf(f)]) = Value(Chunk(wire, f))
    BY <1>4, <2>2 DEF Taken
  <2>4. QED
    BY <1>3, <1>4, <1>5, <2>3, WritesBack
<1>7. sig = first
  BY <1>1, <1>6 DEF Inv, Writing
<1>8. ~Fits(first, f)'
  BY <1>1, <1>5, <1>7 DEF Fits
<1>9. Done'
  BY <1>1, <1>4, <1>6, <1>8 DEF Done
<1>10. QED
  BY <1>1, <1>2, <1>9, OnlyDone

LEMMA BothEnds ==
  ASSUME NEW s \in Seq(Bytes), NEW t \in Seq(Bytes)
  PROVE  s \o t \in Seq(Bytes) /\ Len(s \o t) = Len(s) + Len(t)
OBVIOUS

LEMMA OneByteMore ==
  ASSUME NEW s \in Seq(Bytes), NEW b \in Bytes
  PROVE  /\ Append(s, b) \in Seq(Bytes) /\ Len(Append(s, b)) = Len(s) + 1
         /\ Append(s, b)[Len(s) + 1] = b
         /\ \A k \in 1..Len(s) : Append(s, b)[k] = s[k]
OBVIOUS

LEMMA OneByteLess ==
  ASSUME NEW s \in Seq(Bytes), Len(s) >= 1
  PROVE  SubSeq(s, 1, Len(s) - 1) \in Seq(Bytes) /\ Len(SubSeq(s, 1, Len(s) - 1)) = Len(s) - 1
<1> DEFINE n == Len(s) - 1
           t == SubSeq(s, 1, n)
<1>1. Len(s) \in Nat /\ n \in Nat /\ \A k \in 1..n : s[k] \in Bytes
  OBVIOUS
<1>2. t = [k \in 1..n |-> s[k]]
  BY <1>1
<1> HIDE DEF n, t
<1>3. t \in Seq(Bytes) /\ Len(t) = n
  BY <1>1, <1>2
<1>4. QED
  BY <1>3 DEF n, t

LEMMA OtherField ==
  ASSUME NEW x \in Signatures, NEW n \in Fields, NEW v \in Int
  PROVE  [x EXCEPT ![n] = v] \in Signatures
BY DEF Signatures

(* A sequence of bytes that grows keeps the fields it has.                 *)
LEMMA HoldsStays ==
  ASSUME NEW s \in Seq(Bytes), NEW t \in Seq(Bytes), NEW x \in Signatures,
         NEW i \in 1..18, NEW j \in 1..19, i < j, Len(s) = Start[j], Holds(s, x, i)
  PROVE  Holds(s \o t, x, i)
<1>1. SUFFICES ASSUME NEW d \in 1..WidthOf(i)
               PROVE  (s \o t)[Start[i] + d] = s[Start[i] + d]
  BY DEF Holds
<1>2. Start[i] + d \in 1..(Size - 1) /\ Start[i] + d <= Len(s)
  BY PlaceIs
<1>3. Start[i] + d \in 1..Len(s)
  BY <1>2
<1>4. QED
  BY <1>3

LEMMA HoldsNew ==
  ASSUME NEW s \in Seq(Bytes), NEW x \in Signatures, NEW i \in 1..18, Len(s) = Start[i]
  PROVE  Holds(s \o Digits(x[NameOf(i)], WidthOf(i)), x, i)
<1> DEFINE t == Digits(x[NameOf(i)], WidthOf(i))
<1>1. t \in Seq(Bytes) /\ Len(t) = WidthOf(i)
  <2>1. NameOf(i) \in Fields /\ WidthOf(i) \in 0..Wide
    BY ListIs
  <2>2. x[NameOf(i)] \in Int
    BY <2>1 DEF Signatures
  <2>3. QED
    BY <2>1, <2>2, DigitsAre
<1> HIDE DEF t
<1>2. ASSUME NEW d \in 1..WidthOf(i) PROVE (s \o t)[Start[i] + d] = t[d]
  <2>1. d \in 1..Len(t) /\ Start[i] + d = Len(s) + d
    BY <1>1
  <2>2. QED
    BY <1>1, <2>1
<1>3. QED
  BY <1>2 DEF Holds, t

LEMMA WriteFieldInv ==
  ASSUME Inv, WriteField
  PROVE  Inv'
<1>1. pc = "write" /\ f <= Len(ExportList) /\ Abs(sig[Name(ExportList)]) < Byte^Width(ExportList)
      /\ data' = data \o Digits(sig[Name(ExportList)], Width(ExportList)) /\ pos' = pos + Width(ExportList) /\ f' = f + 1
      /\ UNCHANGED <<pc, sig, ok, first, wire, intact>>
  BY DEF WriteField
<1>2. f \in 1..19 /\ data \in Seq(Bytes) /\ sig \in Signatures /\ pos \in Nat
  BY DEF Inv, TypeOK
<1>3. f \in 1..18 /\ f + 1 \in 1..19 /\ Name(ExportList) = NameOf(f) /\ Width(ExportList) = WidthOf(f)
      /\ Byte^Width(ExportList) = Pow[WidthOf(f)] /\ \A i \in 1..18 : i < f + 1 => i < f \/ i = f
  BY <1>1, <1>2, FieldAtHand
<1>4. WidthOf(f) \in 0..Wide /\ WidthOf(f) \in Nat /\ NameOf(f) \in Fields
  BY <1>3, ListIs, WidthsAre
<1>5. pos = Start[f] /\ Len(data) = pos
      /\ \A i \in 1..18 : i < f => Fits(sig, i) /\ Holds(data, sig, i)
  BY <1>1 DEF Inv, Writing
<1> DEFINE t == Digits(sig[NameOf(f)], WidthOf(f))
<1>6. t \in Seq(Bytes) /\ Len(t) = WidthOf(f)
  BY <1>2, <1>4, DigitsAre DEF Signatures
<1>7. \A i \in 1..18 : i < f + 1 => Fits(sig, i)
  BY <1>1, <1>3, <1>5 DEF Fits
<1>8. ASSUME NEW i \in 1..18, i < f + 1 PROVE Holds(data \o t, sig, i)
  <2>1. CASE i < f
    BY <1>2, <1>5, <1>6, <2>1, HoldsStays
  <2>2. CASE i = f
    BY <1>2, <1>3, <1>5, <2>2, HoldsNew
  <2>3. QED
    BY <1>3, <1>8, <2>1, <2>2
<1>9. data' = data \o t
  BY <1>1, <1>3
<1> HIDE DEF t
<1>10. data' \in Seq(Bytes) /\ Len(data') = Len(data) + WidthOf(f)
  BY <1>2, <1>6, <1>9, BothEnds
<1>11. TypeOK'
  <2>1. pos' \in Nat /\ f' \in 1..19
    BY <1>1, <1>2, <1>3, <1>4
  <2>2. QED
    BY <1>1, <1>10, <2>1 DEF Inv, TypeOK
<1>12. pos' = Start[f'] /\ Len(data') = pos'
  BY <1>1, <1>3, <1>5, <1>10, StartIs
<1>13. Writing'
  <2>1. \A i \in 1..18 : i < f' => Fits(sig', i) /\ Holds(data', sig', i)
    BY <1>1, <1>7, <1>8, <1>9
  <2>2. (wire' = <<>> => sig' = first') /\ (wire' # <<>> => ok' /\ Taken(wire', sig'))
    BY <1>1 DEF Inv, Writing
  <2>3. QED
    BY <1>12, <2>1, <2>2 DEF Writing, Fits, Holds
<1>14. QED
  BY <1>1, <1>11, <1>13, OnlyWriting

(* With the sign byte the signature is complete.                           *)
LEMMA WrittenOut ==
  ASSUME NEW s \in Seq(Bytes), NEW x \in Signatures, Len(s) = Start[19],
         \A i \in 1..18 : Fits(x, i) /\ Holds(s, x, i)
  PROVE  /\ Append(s, SignByte(x["Eq"])) \in Seq(Bytes)
         /\ Encodes(Append(s, SignByte(x["Eq"])), x)
<1> DEFINE b == SignByte(x["Eq"])
<1>1. b \in Bytes
  BY Sizes DEF SignByte, Bytes
<1> HIDE DEF b
<1>2. Append(s, b) \in Seq(Bytes) /\ Len(Append(s, b)) = Len(s) + 1 /\ Append(s, b)[Len(s) + 1] = b
      /\ \A k \in 1..Len(s) : Append(s, b)[k] = s[k]
  <2>1. Append(s, b) \in Seq(Bytes) /\ Len(Append(s, b)) = Len(s) + 1
    BY <1>1, OneByteMore
  <2>2. Append(s, b)[Len(s) + 1] = b
    BY <1>1, OneByteMore
  <2>3. \A k \in 1..Len(s) : Append(s, b)[k] = s[k]
    BY <1>1, OneByteMore
  <2>4. QED
    BY <2>1, <2>2, <2>3
<1>3. Len(s) + 1 = Size
  BY StartIs
<1>4. ASSUME NEW i \in 1..18 PROVE Holds(Append(s, b), x, i)
  <2>1. ASSUME NEW d \in 1..WidthOf(i) PROVE Append(s, b)[Start[i] + d] = s[Start[i] + d]
    <3>1. i < 19 /\ 19 \in 1..19
      OBVIOUS
    <3>2. Start[i] + d \in 1..(Size - 1) /\ Start[i] + d <= Start[19]
      BY <3>1, PlaceIs
    <3>3. Start[i] + d \in 1..Len(s)
      BY <3>2
    <3>4. QED
      BY <1>2, <3>3
  <2>2. QED
    BY <2>1 DEF Holds
<1>5. QED
  BY <1>2, <1>3, <1>4 DEF Encodes, b

LEMMA WriteSignInv ==
  ASSUME Inv, WriteSign
  PROVE  Inv'
<1>1. pc = "write" /\ f > Len(ExportList) /\ data' = Append(data, SignByte(sig["Eq"]))
      /\ pos' = pos + 1 /\ pc' = (IF wire = <<>> THEN "sent" ELSE "done") /\ ok' = TRUE
      /\ UNCHANGED <<sig, f, first, wire, intact>>
  BY DEF WriteSign
<1>2. f \in 1..19 /\ data \in Seq(Bytes) /\ sig \in Signatures /\ pos \in Nat /\ wire \in Seq(Bytes)
  BY DEF Inv, TypeOK
<1>3. f = 19 /\ \A i \in 1..18 : i < f
  <2>1. f > 18
    BY <1>1, ListIs
  <2>2. QED
    BY <1>2, <2>1
<1>4. pos = Start[19] /\ Len(data) = Start[19] /\ \A i \in 1..18 : Fits(sig, i) /\ Holds(data, sig, i)
  BY <1>1, <1>3 DEF Inv, Writing
<1>5. data' \in Seq(Bytes) /\ Encodes(data', sig)
  BY <1>1, <1>2, <1>4, WrittenOut
<1>6. pos' = Size /\ pos' \in Nat
  BY <1>1, <1>4, StartIs, Sizes
<1>7. TypeOK'
  <2>1. pc' \in {"sent", "done"} /\ ok' \in BOOLEAN
    BY <1>1
  <2>2. QED
    BY <1>1, <1>5, <1>6, <2>1 DEF Inv, TypeOK
<1>8. CASE wire = <<>>
  <2>1. sig = first
    BY <1>1, <1>8 DEF Inv, Writing
  <2>2. pc' = "sent" /\ wire' = <<>> /\ sig' = first' /\ first' = sig
    BY <1>1, <1>8, <2>1
  <2>3. Sent'
    BY <1>5, <1>6, <2>2 DEF Sent
  <2>4. QED
    BY <1>7, <2>2, <2>3, OnlySent
<1>9. CASE wire # <<>>
  <2>1. Taken(wire, sig)
    BY <1>1, <1>9 DEF Inv, Writing
  <2>2. Len(wire) = Size /\ Len(data') = Size /\ data'[Size] = SignByte(sig["Eq"])
        /\ \A i \in 1..18 : Holds(data', sig, i) /\ Abs(sig[NameOf(i)]) = Value(Chunk(wire, i))
    BY <1>5, <2>1 DEF Encodes, Taken
  <2>3. \A i \in 1..18 : Holds(wire, sig, i)
    BY <1>2, <2>2, WritesBack DEF Signatures
  <2>4. sig["Eq"] # 0 => data' = wire
    <3>1. SUFFICES ASSUME sig["Eq"] # 0 PROVE data' = wire
      OBVIOUS
    <3>2. wire[Size] = SignByte(sig["Eq"])
      BY <2>1, <3>1 DEF Taken
    <3>3. wire[Size] = data'[Size] /\ sig \in [Fields -> Int]
      BY <1>2, <2>2, <3>2 DEF Signatures
    <3>4. QED
      BY <1>2, <1>5, <2>2, <2>3, <3>3, OneOfEach
  <2>5. pc' = "done" /\ wire' # <<>> /\ ok' /\ wire' = wire /\ sig' = sig
    BY <1>1, <1>9
  <2>6. Done'
    BY <1>6, <2>2, <2>4, <2>5 DEF Done
  <2>7. QED
    BY <1>7, <2>5, <2>6, OnlyDone
<1>10. QED
  BY <1>8, <1>9

LEMMA DeliverInv ==
  ASSUME Inv, Deliver
  PROVE  Inv'
<1>1. pc = "sent" /\ pc' = "read" /\ intact' = (wire' = data) /\ sig' = Zero /\ data' = <<>>
      /\ f' = 1 /\ pos' = 0 /\ ok' = FALSE /\ first' = first
  BY DEF Deliver
<1>2. data \in Seq(Bytes) /\ first \in Signatures
  BY DEF Inv, TypeOK
<1>3. pos = Size /\ Encodes(data, first) /\ Len(data) = Size
  BY <1>1 DEF Inv, Sent, Encodes
<1>4. Len(data) \in Nat /\ Len(data) >= 3
  BY <1>3, Sizes
<1>5. wire' \in Seq(Bytes) /\ wire' # <<>>
  <2>1. CASE wire' = data
    BY <1>2, <1>4, <2>1
  <2>2. CASE \E d \in DOMAIN data, b \in 0..(Byte - 1) : wire' = [data EXCEPT ![d] = b]
    <3>1. PICK d \in DOMAIN data, b \in Bytes : wire' = [data EXCEPT ![d] = b]
      BY <2>2 DEF Bytes
    <3>2. wire' \in Seq(Bytes) /\ Len(wire') = Len(data)
      BY <1>2, <3>1
    <3>3. QED
      BY <1>4, <3>2
  <2>3. CASE wire' = SubSeq(data, 1, Len(data) - 1)
    <3>1. SubSeq(data, 1, Len(data) - 1) \in Seq(Bytes)
          /\ Len(SubSeq(data, 1, Len(data) - 1)) = Len(data) - 1
      BY <1>2, <1>4, OneByteLess
    <3>2. wire' \in Seq(Bytes) /\ Len(wire') = Len(data) - 1
      BY <2>3, <3>1
    <3>3. QED
      BY <1>4, <3>2
  <2>4. CASE wire' = Append(data, 0)
    <3>1. 0 \in Bytes
      BY Sizes DEF Bytes
    <3>2. wire' \in Seq(Bytes) /\ Len(wire') = Len(data) + 1
      BY <1>2, <2>4, <3>1, OneByteMore
    <3>3. QED
      BY <1>4, <3>2
  <2>5. QED
    BY <2>1, <2>2, <2>3, <2>4 DEF Deliver
<1>6. TypeOK'
  <2>1. Zero \in Signatures /\ <<>> \in Seq(Bytes) /\ 1 \in 1..19 /\ 0 \in Nat
    BY DEF Zero, Signatures
  <2>2. ok' \in BOOLEAN /\ intact' \in BOOLEAN
    BY <1>1
  <2>3. sig' \in Signatures /\ first' \in Signatures /\ data' \in Seq(Bytes) /\ f' \in 1..19 /\ pos' \in Nat
    BY <1>1, <1>2, <2>1
  <2>4. \A n \in Fields \ {"Eq"} : first'[n] >= 0
    BY <1>1 DEF Inv, TypeOK
  <2>5. QED
    BY <1>1, <1>5, <2>2, <2>3, <2>4 DEF TypeOK
<1>7. intact' => Encodes(wire', first')
  BY <1>1, <1>3
<1>8. pos' = Start[f'] /\ ~ \E i \in 1..18 : i < f'
  BY <1>1, StartIs
<1>9. Reading'
  BY <1>5, <1>7, <1>8 DEF Reading, Encodes
<1>10. QED
  BY <1>1, <1>6, <1>9, OnlyReading

LEMMA WrongLengthInv ==
  ASSUME Inv, WrongLength
  PROVE  Inv'
<1>1. pc = "read" /\ Len(wire) # Size /\ pc' = "imported" /\ ok' = FALSE
      /\ UNCHANGED <<sig, data, f, pos, first, wire, intact>>
  BY DEF WrongLength
<1>2. TypeOK'
  BY <1>1 DEF Inv, TypeOK
<1>3. wire # <<>> /\ ~intact
  BY <1>1 DEF Inv, Reading, Encodes
<1>4. Imported'
  BY <1>1, <1>3 DEF Imported
<1>5. QED
  BY <1>1, <1>2, <1>4, OnlyImported

LEMMA ReadFieldInv ==
  ASSUME Inv, ReadField
  PROVE  Inv'
<1>1. pc = "read" /\ Len(wire) = Size /\ f <= Len(ExportList)
      /\ sig' = [sig EXCEPT ![Name(ExportList)] = Value(SubSeq(wire, pos + 1, pos + Width(ExportList)))]
      /\ pos' = pos + Width(ExportList) /\ f' = f + 1
      /\ UNCHANGED <<pc, data, ok, first, wire, intact>>
  BY ListsAgree DEF ReadField
<1>2. f \in 1..19 /\ sig \in Signatures /\ pos \in Nat /\ wire \in Seq(Bytes)
  BY DEF Inv, TypeOK
<1>3. f \in 1..18 /\ f + 1 \in 1..19 /\ Name(ExportList) = NameOf(f) /\ Width(ExportList) = WidthOf(f)
      /\ \A i \in 1..18 : i < f + 1 => i < f \/ i = f
  BY <1>1, <1>2, FieldAtHand
<1>4. WidthOf(f) \in 0..Wide /\ WidthOf(f) \in Nat /\ NameOf(f) \in Fields
  BY <1>3, ListIs, WidthsAre
<1>5. wire # <<>> /\ (intact => Encodes(wire, first)) /\ pos = Start[f]
      /\ \A i \in 1..18 : i < f => sig[NameOf(i)] = Value(Chunk(wire, i))
  BY <1>1 DEF Inv, Reading
<1>6. sig' = [sig EXCEPT ![NameOf(f)] = Value(Chunk(wire, f))]
  BY <1>1, <1>3, <1>5 DEF Chunk
<1>7. Value(Chunk(wire, f)) \in Nat
  <2> DEFINE s == Chunk(wire, f)
  <2>1. s \in Seq(Bytes) /\ Len(s) = WidthOf(f)
    BY <1>1, <1>2, <1>3, ChunkIs
  <2> HIDE DEF s
  <2>2. Value(s) \in Nat
    BY <1>4, <2>1, DigitsOfValue
  <2>3. QED
    BY <2>2 DEF s
<1>8. sig' \in Signatures
  <2> DEFINE v == Value(Chunk(wire, f))
  <2>1. v \in Int /\ sig' = [sig EXCEPT ![NameOf(f)] = v]
    BY <1>6, <1>7
  <2> HIDE DEF v
  <2>2. QED
    BY <1>2, <1>4, <2>1, OtherField
<1>9. ASSUME NEW i \in 1..18, i < f + 1 PROVE sig'[NameOf(i)] = Value(Chunk(wire, i))
  <2>1. CASE i = f
    BY <1>2, <1>4, <1>6, <2>1 DEF Signatures
  <2>2. CASE i < f
    <3>1. i # f
      BY <1>3, <2>2
    <3>2. NameOf(i) # NameOf(f)
      BY <1>3, <3>1, NamesDiffer
    <3>3. sig'[NameOf(i)] = sig[NameOf(i)]
      BY <1>6, <3>2
    <3>4. QED
      BY <1>5, <2>2, <3>3
  <2>3. QED
    BY <1>3, <1>9, <2>1, <2>2
<1>10. TypeOK'
  <2>1. pos' \in Nat /\ f' \in 1..19
    BY <1>1, <1>2, <1>3, <1>4
  <2>2. QED
    BY <1>1, <1>8, <2>1 DEF Inv, TypeOK
<1>11. pos' = Start[f'] /\ wire' = wire
  BY <1>1, <1>3, <1>5, StartIs
<1>12. Reading'
  BY <1>1, <1>5, <1>9, <1>11 DEF Reading, Chunk
<1>13. QED
  BY <1>1, <1>10, <1>12, OnlyReading

LEMMA ReadSignInv ==
  ASSUME Inv, ReadSign
  PROVE  Inv'
<1>1. pc = "read" /\ Len(wire) = Size /\ f > Len(ExportList) /\ pos' = pos + 1 /\ pc' = "imported"
      /\ ok' = Minimal(wire[pos'])
      /\ sig' = (IF wire[pos'] # 0 /\ ok' THEN [sig EXCEPT !["Eq"] = -sig["Eq"]] ELSE sig)
      /\ UNCHANGED <<data, f, first, wire, intact>>
  BY ListsAgree DEF ReadSign
<1>2. f \in 1..19 /\ sig \in Signatures /\ pos \in Nat /\ wire \in Seq(Bytes) /\ first \in Signatures
      /\ \A n \in Fields \ {"Eq"} : first[n] >= 0
  BY DEF Inv, TypeOK
<1>3. f = 19 /\ \A i \in 1..18 : i < f
  <2>1. f > 18
    BY <1>1, ListIs
  <2>2. QED
    BY <1>2, <2>1
<1>4. wire # <<>> /\ (intact => Encodes(wire, first)) /\ pos = Start[19]
      /\ \A i \in 1..18 : sig[NameOf(i)] = Value(Chunk(wire, i))
  BY <1>1, <1>3 DEF Inv, Reading
<1>5. pos' = Size /\ pos' \in Nat /\ Size \in 1..Len(wire)
  <2>1. Start[19] + 1 = Size /\ Size \in Nat /\ Size >= 3
    BY StartIs, Sizes
  <2>2. pos' = Size
    BY <1>1, <1>4, <2>1
  <2>3. pos' \in Nat /\ Size \in 1..Len(wire)
    BY <1>1, <2>1, <2>2
  <2>4. QED
    BY <2>2, <2>3
<1>6. wire[Size] \in Nat
  <2>1. wire[Size] \in Bytes
    BY <1>2, <1>5
  <2>2. QED
    BY <2>1, Sizes DEF Bytes
<1>7. ASSUME NEW n \in Fields PROVE sig[n] \in Nat
  <2>1. PICK i \in 1..18 : NameOf(i) = n
    BY ListIs
  <2>2. WidthOf(i) \in 0..Wide
    BY ListIs
  <2>3. Chunk(wire, i) \in Seq(Bytes) /\ Len(Chunk(wire, i)) = WidthOf(i)
    BY <1>1, <1>2, ChunkIs
  <2>4. Value(Chunk(wire, i)) \in Nat
    BY <2>2, <2>3, DigitsOfValue
  <2>5. QED
    BY <1>4, <2>1, <2>4
<1>8. "Eq" \in Fields
  BY DEF Fields
<1> DEFINE neg == wire[Size] # 0 /\ ok'
<1>9. sig' = IF neg THEN [sig EXCEPT !["Eq"] = -sig["Eq"]] ELSE sig
  BY <1>1, <1>5
<1>10. sig' \in Signatures
  BY <1>2, <1>7, <1>8, <1>9 DEF Signatures
<1>11. \A n \in Fields \ {"Eq"} : sig'[n] = sig[n]
  BY <1>2, <1>9 DEF Signatures
<1>12. sig'["Eq"] = IF neg THEN -sig["Eq"] ELSE sig["Eq"]
  BY <1>2, <1>8, <1>9 DEF Signatures
<1>13. ok' <=> wire[Size] <= 1
  BY <1>1, <1>5 DEF Minimal
<1>14. ASSUME NEW n \in Fields PROVE Abs(sig'[n]) = sig[n]
  <2>1. sig[n] \in Nat
    BY <1>7
  <2>2. CASE n = "Eq"
    BY <1>12, <2>1, <2>2 DEF Abs
  <2>3. CASE n # "Eq"
    BY <1>11, <2>1, <2>3 DEF Abs
  <2>4. QED
    BY <2>2, <2>3
<1>15. \A i \in 1..18 : Abs(sig'[NameOf(i)]) = Value(Chunk(wire, i))
  <2>1. \A i \in 1..18 : NameOf(i) \in Fields
    BY ListIs
  <2>2. QED
    BY <1>4, <1>14, <2>1
<1>16. ok' /\ sig'["Eq"] # 0 => wire[Size] = SignByte(sig'["Eq"])
  <2>1. sig["Eq"] \in Nat
    BY <1>7, <1>8
  <2>2. QED
    BY <1>6, <1>12, <1>13, <2>1 DEF SignByte
<1>17. ok' => Taken(wire, sig')
  BY <1>1, <1>15, <1>16 DEF Taken
<1>18. intact => ok' /\ sig' = first
  <2>1. SUFFICES ASSUME intact PROVE ok' /\ sig' = first
    OBVIOUS
  <2>2. Encodes(wire, first) /\ wire[Size] = SignByte(first["Eq"])
    BY <1>4, <2>1 DEF Encodes
  <2>3. ok'
    BY <1>13, <2>2 DEF SignByte
  <2>4. Taken(wire, sig')
    BY <1>17, <2>3
  <2>5. \A n \in Fields \ {"Eq"} : first[n] >= 0 /\ sig'[n] >= 0
    BY <1>2, <1>7, <1>11
  <2>6. first = sig'
    BY <1>2, <1>10, <2>2, <2>4, <2>5, SameSignature DEF Signatures
  <2>7. QED
    BY <2>3, <2>6
<1>19. TypeOK'
  <2>1. ok' \in BOOLEAN
    BY <1>1 DEF Minimal
  <2>2. QED
    BY <1>1, <1>5, <1>10, <2>1 DEF Inv, TypeOK
<1>20. Imported'
  BY <1>1, <1>4, <1>5, <1>17, <1>18 DEF Imported
<1>21. QED
  BY <1>1, <1>19, <1>20, OnlyImported

LEMMA ExportAgainInv ==
  ASSUME Inv, ExportAgain
  PROVE  Inv'
<1>1. pc = "imported" /\ ok /\ pc' = "write" /\ data' = <<>> /\ f' = 1 /\ pos' = 0
      /\ UNCHANGED <<sig, ok, first, wire, intact>>
  BY DEF ExportAgain
<1>2. TypeOK'
  <2>1. <<>> \in Seq(Bytes) /\ 1 \in 1..19 /\ 0 \in Nat
    OBVIOUS
  <2>2. QED
    BY <1>1, <2>1 DEF Inv, TypeOK
<1>3. wire # <<>> /\ Taken(wire, sig)
  BY <1>1 DEF Inv, Imported
<1>4. pos' = Start[f'] /\ Len(data') = pos' /\ ~ \E i \in 1..18 : i < f'
  BY <1>1, StartIs
<1>5. ok' /\ wire' = wire /\ sig' = sig
  BY <1>1
<1>6. Writing'
  BY <1>3, <1>4, <1>5 DEF Writing
<1>7. QED
  BY <1>1, <1>2, <1>6, OnlyWriting

LEMMA StepInv == Inv /\ [Next]_vars => Inv'
<1>1. SUFFICES ASSUME Inv, [Next]_vars PROVE Inv'
  OBVIOUS
<1>2. CASE UNCHANGED vars
  BY <1>1, <1>2 DEF vars, Inv, TypeOK, Idle, Writing, Sent, Reading, Imported, Done
<1>3. CASE Next
  <2>1. CASE \E s \in Sigs : Export(s)
    BY <1>1, <2>1, ExportInv
  <2>2. CASE TooWide \/ WriteField \/ WriteSign
    BY <1>1, <2>2, TooWideInv, WriteFieldInv, WriteSignInv
  <2>3. CASE Deliver \/ WrongLength
    BY <1>1, <2>3, DeliverInv, WrongLengthInv
  <2>4. CASE ReadField \/ ReadSign \/ ExportAgain
    BY <1>1, <2>4, ReadFieldInv, ReadSignInv, ExportAgainInv
  <2>5. QED
    BY <1>3, <2>1, <2>2, <2>3, <2>4 DEF Next
<1>4. QED
  BY <1>1, <1>2, <1>3

(* The invariant holds in every state of every behaviour.                  *)
THEOREM InvAlways == Spec => []Inv
<1>1. Init => Inv
  BY InitInv
<1>2. Inv /\ [Next]_vars => Inv'
  BY StepInv
<1>3. QED
  BY <1>1, <1>2, PTL DEF Spec

(* Size, export and import agree, import of what export wrote gives the    *)
(* signature back, and export takes every signature whose fields fit.      *)
THEOREM RoundTripAlways == Spec => []RoundTrip
<1>1. Inv => RoundTrip
  <2>1. SUFFICES ASSUME Inv PROVE RoundTrip
    OBVIOUS
  <2>2. pc \in {"sent", "done"} /\ ok => pos = Size /\ Len(data) = Size
    BY <2>1 DEF Inv, Sent, Done, Encodes
  <2>3. pc = "imported" /\ ok => pos = Len(wire)
    BY <2>1 DEF Inv, Imported
  <2>4. pc = "imported" /\ intact => ok /\ sig = first
    BY <2>1 DEF Inv, Imported
  <2>5. ASSUME pc = "done", wire = <<>>
        PROVE  ~ok /\ \E x \in DOMAIN ExportList : Abs(first[ExportList[x][1]]) >= Byte^ExportList[x][2]
    <3>1. ~ok /\ \E i \in 1..18 : ~Fits(first, i)
      BY <2>1, <2>5 DEF Inv, Done
    <3>2. PICK i \in 1..18 : ~(Abs(first[NameOf(i)]) < Pow[WidthOf(i)])
      BY <3>1 DEF Fits
    <3>3. NameOf(i) \in Fields /\ WidthOf(i) \in 0..Wide /\ i \in DOMAIN ExportList
      BY ListIs
    <3>4. first[NameOf(i)] \in Int
      BY <2>1, <3>3 DEF Inv, TypeOK, Signatures
    <3>5. Abs(first[NameOf(i)]) >= Byte^WidthOf(i)
      BY <3>2, <3>3, <3>4, AbsIs, PowPositive, PowerIs
    <3>6. QED
      BY <3>1, <3>3, <3>5 DEF NameOf, WidthOf
  <2>6. QED
    BY <2>2, <2>3, <2>4, <2>5 DEF RoundTrip
<1>2. QED
  BY <1>1, InvAlways, PTL

(* What import accepts, export gives back byte by byte, unless Eq is 0.    *)
THEOREM OneEncodingAlways == Spec => []OneEncodingUnlessZero
<1>1. Inv => OneEncodingUnlessZero
  BY DEF Inv, Done, OneEncodingUnlessZero
<1>2. QED
  BY <1>1, InvAlways, PTL
==============================================================================
