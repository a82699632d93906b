---------------------------- MODULE GooCombProofs ----------------------------
(***************************************************************************)
(* The fixed-base combs, for every choice of shapes and exponents: what    *)
(* powgh computes is g^e1 * h^e2 (GooComb), and the exponents that sign    *)
(* and verify ask for fit the combs (GooWidths).                           *)
(*                                                                         *)
(* The product is a double sum over the bits of an exponent.  Number the   *)
(* parts of `shifts` bits from below: part m is bits m * shifts on.  A     *)
(* comb of `adds` parts for every point has part k * adds + a in the       *)
(* window of addition a, as the bit for point k.  Items add up the powers  *)
(* of the points of a window (TableIs), a shift adds up the windows of one *)
(* bit of every part (ColumnIs, ShiftIs), and after t shifts the product   *)
(* has the top t bits of every part, each at its place (GatherTurn): after *)
(* all, the whole exponent (GatherAll).                                    *)
(***************************************************************************)
EXTENDS GooWidths, GooComb, WellFoundedInduction, TLAPS

------------------------------------------------------------------------------
(* Sums.                                                                   *)

LEMMA UpTo ==
  ASSUME NEW m \in Nat, NEW S, 0 \in S, \A j \in 0..(m - 1) : j \in S => j + 1 \in S
  PROVE  \A j \in 0..m : j \in S
<1>1. SUFFICES ASSUME NEW j \in 0..m, j \notin S PROVE FALSE
  OBVIOUS
<1> DEFINE Out == {k \in Nat : k <= m /\ k \notin S}
<1>2. j \in Out /\ Out \in SUBSET Nat
  BY <1>1
<1>3. PICK k \in Out : \A l \in Out : k <= l
  <2> DEFINE Less == OpToRel(<, Nat)
  <2>1. \A l, k \in Out : <<l, k>> \in Less <=> l < k
    BY DEF OpToRel
  <2>2. \A l, k \in Out : k <= l <=> ~(l < k)
    OBVIOUS
  <2>3. IsWellFoundedOn(Less, Nat)
    BY NatLessThanWellFounded
  <2> HIDE DEF Out, Less
  <2>4. \E k \in Out : \A l \in Out : <<l, k>> \notin Less
    BY <1>2, <2>3, WFMin
  <2>5. QED
    BY <2>1, <2>2, <2>4
<1>4. k \in Nat /\ k <= m /\ k \notin S /\ k # 0
  BY <1>3
<1>5. k - 1 \in 0..(m - 1) /\ k - 1 \notin Out
  BY <1>3, <1>4
<1>6. k - 1 \in S
  BY <1>4, <1>5
<1>7. (k - 1) + 1 \in S /\ (k - 1) + 1 = k
  BY <1>4, <1>5, <1>6
<1>8. QED
  BY <1>4, <1>7

(* Lists of numbers, and what the first m entries of v evaluate to, each   *)
(* turn of a loop multiplying by x and adding one.                         *)
Lists == [Nat -> Int]
Horner(x, v, m, u) ==
  u \in [0..m -> Int] /\ u[0] = 0 /\ \A k \in 0..(m - 1) : u[k + 1] = x * u[k] + v[k]

LEMMA HornerExists ==
  ASSUME NEW x \in Int, NEW v \in Lists, NEW m \in Nat
  PROVE  \E u : Horner(x, v, m, u)
<1> DEFINE S == {k \in 0..m : \E u : Horner(x, v, k, u)}
<1>1. 0 \in S
  <2>1. Horner(x, v, 0, [k \in 0..0 |-> 0])
    BY DEF Horner
  <2>2. QED
    BY <2>1
<1>2. ASSUME NEW k \in 0..(m - 1), k \in S PROVE k + 1 \in S
  <2>1. PICK u : Horner(x, v, k, u)
    BY <1>2
  <2>2. u \in [0..k -> Int] /\ u[0] = 0 /\ \A l \in 0..(k - 1) : u[l + 1] = x * u[l] + v[l]
    BY <2>1 DEF Horner
  <2> DEFINE last == x * u[k] + v[k]
  <2>3. k \in Nat /\ v[k] \in Int /\ u[k] \in Int
    BY <2>2 DEF Lists
  <2>8. last \in Int /\ last = x * u[k] + v[k]
    BY <2>3
  <2> HIDE DEF last
  <2> DEFINE w == [l \in 0..(k + 1) |-> IF l = k + 1 THEN last ELSE u[l]]
  <2>4. w \in [0..(k + 1) -> Int] /\ w[0] = 0
    BY <2>2, <2>3, <2>8
  <2>5. \A l \in 0..k : w[l + 1] = x * w[l] + v[l]
    BY <2>2, <2>3, <2>8
  <2>6. Horner(x, v, k + 1, w)
    <3>1. (k + 1) - 1 = k
      BY <2>3
    <3> HIDE DEF w
    <3>2. QED
      BY <2>4, <2>5, <3>1 DEF Horner
  <2>7. QED
    BY <2>3, <2>6
<1> HIDE DEF S
<1>3. m \in S
  <2>1. \A k \in 0..m : k \in S
    BY <1>1, <1>2, UpTo
  <2>2. QED
    BY <2>1
<1>4. QED
  BY <1>3 DEF S

(* The sum of the first m entries of v.                                    *)
Sums(v, m, u) == u \in [0..m -> Int] /\ u[0] = 0 /\ \A k \in 0..(m - 1) : u[k + 1] = u[k] + v[k]
Total(v, m) == CHOOSE t \in Int : \E u : Sums(v, m, u) /\ u[m] = t

LEMMA SumsExist ==
  ASSUME NEW v \in Lists, NEW m \in Nat
  PROVE  \E u : Sums(v, m, u)
<1>1. PICK u : Horner(1, v, m, u)
  BY HornerExists
<1>2. u \in [0..m -> Int] /\ u[0] = 0 /\ \A k \in 0..(m - 1) : u[k + 1] = 1 * u[k] + v[k]
  BY <1>1 DEF Horner
<1>3. \A k \in 0..(m - 1) : u[k + 1] = u[k] + v[k]
  BY <1>2
<1>4. QED
  BY <1>2, <1>3 DEF Sums

LEMMA SumsAgree ==
  ASSUME NEW v \in Lists, NEW m \in Nat, NEW l \in Nat, m <= l,
         NEW u, Sums(v, m, u), NEW w, Sums(v, l, w)
  PROVE  u[m] = w[m]
<1> DEFINE S == {k \in 0..m : u[k] = w[k]}
<1>1. 0 \in S
  BY DEF Sums
<1>2. ASSUME NEW k \in 0..(m - 1), k \in S PROVE k + 1 \in S
  <2>1. k \in 0..(l - 1) /\ k + 1 \in 0..m /\ u[k] = w[k]
    BY <1>2
  <2>2. u[k + 1] = u[k] + v[k] /\ w[k + 1] = w[k] + v[k]
    BY <2>1 DEF Sums
  <2>3. QED
    BY <2>1, <2>2
<1> HIDE DEF S
<1>3. \A k \in 0..m : k \in S
  BY <1>1, <1>2, UpTo
<1>4. QED
  BY <1>3 DEF S

LEMMA TotalIs ==
  ASSUME NEW v \in Lists, NEW m \in Nat, NEW u, Sums(v, m, u)
  PROVE  Total(v, m) = u[m] /\ Total(v, m) \in Int
<1>1. u[m] \in Int
  BY DEF Sums
<1>2. \E t \in Int : \E w : Sums(v, m, w) /\ w[m] = t
  BY <1>1
<1>3. PICK w : Sums(v, m, w) /\ w[m] = Total(v, m)
  BY <1>2 DEF Total
<1>4. w[m] = u[m]
  BY <1>3, SumsAgree
<1>5. QED
  BY <1>1, <1>3, <1>4

LEMMA TotalNone ==
  ASSUME NEW v \in Lists
  PROVE  Total(v, 0) = 0
<1>1. PICK u : Sums(v, 0, u)
  BY SumsExist
<1>2. QED
  BY <1>1, TotalIs DEF Sums

LEMMA TotalNext ==
  ASSUME NEW v \in Lists, NEW m \in Nat
  PROVE  /\ Total(v, m) \in Int /\ v[m] \in Int
         /\ Total(v, m + 1) = Total(v, m) + v[m]
<1>1. PICK u : Sums(v, m, u)
  BY SumsExist
<1>2. PICK w : Sums(v, m + 1, w)
  BY SumsExist
<1>3. Total(v, m) = u[m] /\ Total(v, m) \in Int
  BY <1>1, TotalIs
<1>4. Total(v, m + 1) = w[m + 1]
  BY <1>2, TotalIs
<1>5. u[m] = w[m]
  BY <1>1, <1>2, SumsAgree
<1>6. w[m + 1] = w[m] + v[m]
  BY <1>2 DEF Sums
<1>7. v[m] \in Int
  BY DEF Lists
<1>8. QED
  BY <1>3, <1>4, <1>5, <1>6, <1>7

(* A sum is what adding entry after entry gives.                           *)
LEMMA TotalUnique ==
  ASSUME NEW v \in Lists, NEW m \in Nat, NEW first \in Int, NEW u, u[0] = first,
         \A k \in 0..(m - 1) : u[k + 1] = u[k] + v[k]
  PROVE  \A k \in 0..m : u[k] = first + Total(v, k)
<1> DEFINE S == {k \in 0..m : u[k] = first + Total(v, k)}
<1>1. 0 \in S
  BY TotalNone
<1>2. ASSUME NEW k \in 0..(m - 1), k \in S PROVE k + 1 \in S
  <2>1. /\ Total(v, k) \in Int /\ v[k] \in Int
        /\ Total(v, k + 1) = Total(v, k) + v[k]
    BY TotalNext
  <2>2. u[k + 1] = first + Total(v, k) + v[k]
    BY <1>2
  <2>3. QED
    BY <1>2, <2>1, <2>2
<1> HIDE DEF S
<1>3. \A k \in 0..m : k \in S
  BY <1>1, <1>2, UpTo
<1>4. QED
  BY <1>3 DEF S

(* Sums are linear: of x * v + y * w.                                      *)
LEMMA TotalLinear ==
  ASSUME NEW v \in Lists, NEW w \in Lists, NEW z \in Lists, NEW x \in Int, NEW y \in Int,
         NEW m \in Nat, \A k \in 0..(m - 1) : z[k] = x * v[k] + y * w[k]
  PROVE  Total(z, m) = x * Total(v, m) + y * Total(w, m)
<1> DEFINE S == {k \in 0..m : Total(z, k) = x * Total(v, k) + y * Total(w, k)}
<1>1. 0 \in S
  BY TotalNone
<1>2. ASSUME NEW k \in 0..(m - 1), k \in S PROVE k + 1 \in S
  <2>1. /\ Total(v, k) \in Int /\ v[k] \in Int
        /\ Total(v, k + 1) = Total(v, k) + v[k]
    BY TotalNext
  <2>2. /\ Total(w, k) \in Int /\ w[k] \in Int
        /\ Total(w, k + 1) = Total(w, k) + w[k]
    BY TotalNext
  <2>3. /\ Total(z, k) \in Int /\ z[k] \in Int
        /\ Total(z, k + 1) = Total(z, k) + z[k]
    BY TotalNext
  <2>4. \A a, b, c, d \in Int : (x * a + y * b) + (x * c + y * d) = x * (a + c) + y * (b + d)
    OBVIOUS
  <2>5. Total(z, k + 1) = (x * Total(v, k) + y * Total(w, k)) + (x * v[k] + y * w[k])
    BY <1>2, <2>3
  <2>6. Total(z, k + 1) = x * Total(v, k + 1) + y * Total(w, k + 1)
    BY <2>1, <2>2, <2>4, <2>5
  <2>7. QED
    BY <2>6
<1> HIDE DEF S
<1>3. \A k \in 0..m : k \in S
  BY <1>1, <1>2, UpTo
<1>4. QED
  BY <1>3 DEF S

LEMMA TotalScaled ==
  ASSUME NEW v \in Lists, NEW z \in Lists, NEW x \in Int, NEW m \in Nat,
         \A k \in 0..(m - 1) : z[k] = x * v[k]
  PROVE  Total(z, m) = x * Total(v, m)
<1> DEFINE S == {k \in 0..m : Total(z, k) = x * Total(v, k)}
<1>1. 0 \in S
  BY TotalNone
<1>2. ASSUME NEW k \in 0..(m - 1), k \in S PROVE k + 1 \in S
  <2>1. /\ Total(v, k) \in Int /\ v[k] \in Int
        /\ Total(v, k + 1) = Total(v, k) + v[k]
    BY TotalNext
  <2>2. /\ Total(z, k) \in Int /\ z[k] \in Int
        /\ Total(z, k + 1) = Total(z, k) + z[k]
    BY TotalNext
  <2>3. \A a, b \in Int : x * a + x * b = x * (a + b)
    OBVIOUS
  <2>4. Total(z, k + 1) = x * Total(v, k) + x * v[k]
    BY <1>2, <2>2
  <2>5. Total(z, k + 1) = x * Total(v, k + 1)
    BY <2>1, <2>3, <2>4
  <2>6. QED
    BY <2>5
<1> HIDE DEF S
<1>3. \A k \in 0..m : k \in S
  BY <1>1, <1>2, UpTo
<1>4. QED
  BY <1>3 DEF S

LEMMA TotalSame ==
  ASSUME NEW v \in Lists, NEW w \in Lists, NEW m \in Nat, \A k \in 0..(m - 1) : v[k] = w[k]
  PROVE  Total(v, m) = Total(w, m)
<1>1. \A k \in 0..(m - 1) : v[k] = 1 * w[k] + 0 * w[k]
  BY DEF Lists
<1>2. Total(v, m) = 1 * Total(w, m) + 0 * Total(w, m)
  BY <1>1, TotalLinear
<1>3. QED
  BY <1>2, TotalNext

(* The sum of the first x + y entries, in two parts.                       *)
LEMMA TotalSplit ==
  ASSUME NEW v \in Lists, NEW x \in Nat, NEW y \in Nat, NEW w \in Lists,
         \A k \in 0..(y - 1) : w[k] = v[x + k]
  PROVE  Total(v, x + y) = Total(v, x) + Total(w, y)
<1> DEFINE S == {k \in 0..y : Total(v, x + k) = Total(v, x) + Total(w, k)}
<1>1. 0 \in S
  BY TotalNone, TotalNext
<1>2. ASSUME NEW k \in 0..(y - 1), k \in S PROVE k + 1 \in S
  <2>1. /\ Total(v, x + k) \in Int /\ v[x + k] \in Int
        /\ Total(v, (x + k) + 1) = Total(v, x + k) + v[x + k]
    BY TotalNext
  <2>2. /\ Total(w, k) \in Int /\ w[k] \in Int
        /\ Total(w, k + 1) = Total(w, k) + w[k]
    BY TotalNext
  <2>3. Total(v, x) \in Int
    BY TotalNext
  <2>4. w[k] = v[x + k] /\ (x + k) + 1 = x + (k + 1) /\ k + 1 \in 0..y
    BY <1>2
  <2>5. QED
    BY <1>2, <2>1, <2>2, <2>3, <2>4
<1> HIDE DEF S
<1>3. y \in S
  <2>1. \A k \in 0..y : k \in S
    BY <1>1, <1>2, UpTo
  <2>2. QED
    BY <2>1
<1>4. QED
  BY <1>3 DEF S

(* Summing row by row is summing column by column: v has y columns.        *)
Column(v, y, x, k) == Total([l \in Nat |-> v[l * y + k]], x)
LEMMA TotalColumns ==
  ASSUME NEW v \in Lists, NEW x \in Nat, NEW y \in Nat
  PROVE  /\ [k \in Nat |-> Column(v, y, x, k)] \in Lists
         /\ Total(v, x * y) = Total([k \in Nat |-> Column(v, y, x, k)], y)
<1> DEFINE Row(k) == [l \in Nat |-> v[l * y + k]]
           Cols(m) == [k \in Nat |-> Column(v, y, m, k)]
<1>1. ASSUME NEW k \in Nat PROVE Row(k) \in Lists
  <2>1. \A l \in Nat : l * y + k \in Nat
    OBVIOUS
  <2>2. QED
    BY <2>1 DEF Lists
<1>2. ASSUME NEW m \in Nat, NEW k \in Nat
      PROVE  /\ Column(v, y, m, k) \in Int /\ v[m * y + k] \in Int
             /\ Column(v, y, m + 1, k) = Column(v, y, m, k) + v[m * y + k]
  <2>1. /\ Total(Row(k), m) \in Int /\ Row(k)[m] \in Int
        /\ Total(Row(k), m + 1) = Total(Row(k), m) + Row(k)[m]
    <3> HIDE DEF Row
    <3>1. QED
      BY <1>1, TotalNext
  <2>2. QED
    BY <2>1 DEF Column
<1>3. ASSUME NEW m \in Nat PROVE Cols(m) \in Lists
  BY <1>2 DEF Lists
<1> DEFINE S == {m \in 0..x : Total(v, m * y) = Total(Cols(m), y)}
<1>4. 0 \in S
  <2>1. ASSUME NEW k \in Nat PROVE Column(v, y, 0, k) = 0
    <3> HIDE DEF Row
    <3>1. Total(Row(k), 0) = 0
      BY <1>1, TotalNone
    <3>2. QED
      BY <3>1 DEF Column, Row
  <2> DEFINE z == Cols(0)
  <2>2. z \in Lists /\ \A k \in 0..(y - 1) : z[k] = 0 * z[k] + 0 * z[k]
    BY <1>3, <2>1
  <2> HIDE DEF z
  <2>3. Total(z, y) = 0 * Total(z, y) + 0 * Total(z, y)
    BY <2>2, TotalLinear
  <2>4. Total(z, y) = 0
    BY <2>2, <2>3, TotalNext
  <2>5. Total(v, 0 * y) = 0
    BY TotalNone
  <2>6. QED
    BY <2>4, <2>5 DEF z
<1>5. ASSUME NEW m \in 0..(x - 1), m \in S PROVE m + 1 \in S
  <2> DEFINE w == [k \in Nat |-> v[m * y + k]]
             c == Cols(m)
             z == Cols(m + 1)
  <2>1. m \in Nat /\ m * y \in Nat /\ (m + 1) * y = m * y + y /\ m + 1 \in 0..x
    BY <1>5
  <2>2. \A k \in Nat : m * y + k \in Nat
    BY <2>1
  <2>3. w \in Lists /\ c \in Lists /\ z \in Lists
    BY <1>3, <2>1, <2>2 DEF Lists
  <2>4. \A k \in 0..(y - 1) : w[k] = v[m * y + k]
    OBVIOUS
  <2>5. \A k \in 0..(y - 1) : z[k] = 1 * c[k] + 1 * w[k]
    <3>1. ASSUME NEW k \in 0..(y - 1) PROVE z[k] = 1 * c[k] + 1 * w[k]
      <4>1. k \in Nat
        OBVIOUS
      <4>2. /\ Column(v, y, m, k) \in Int /\ v[m * y + k] \in Int
            /\ Column(v, y, m + 1, k) = Column(v, y, m, k) + v[m * y + k]
        BY <1>2, <2>1, <4>1
      <4>3. z[k] = Column(v, y, m + 1, k) /\ c[k] = Column(v, y, m, k) /\ w[k] = v[m * y + k]
        BY <4>1
      <4> HIDE DEF z, c, w
      <4>4. QED
        BY <4>2, <4>3
    <3>2. QED
      BY <3>1
  <2>6. Total(v, m * y) = Total(c, y)
    BY <1>5
  <2> HIDE DEF w, c, z
  <2>7. Total(v, m * y + y) = Total(v, m * y) + Total(w, y)
    BY <2>1, <2>3, <2>4, TotalSplit
  <2>8. Total(z, y) = 1 * Total(c, y) + 1 * Total(w, y)
    BY <2>3, <2>5, TotalLinear
  <2>9. Total(c, y) \in Int /\ Total(w, y) \in Int
    BY <2>3, TotalNext
  <2>10. Total(v, (m + 1) * y) = Total(z, y)
    BY <2>1, <2>6, <2>7, <2>8, <2>9
  <2>11. QED
    BY <2>1, <2>10 DEF z
<1>6. x \in S
  <2> HIDE DEF S
  <2>1. \A m \in 0..x : m \in S
    BY <1>4, <1>5, UpTo
  <2>2. QED
    BY <2>1
<1>7. QED
  BY <1>3, <1>6

------------------------------------------------------------------------------
(* Powers of two, and the bits of a number.                                *)

LEMMA PowersAdd ==
  ASSUME NEW m \in Nat, Doubling(m), NEW k \in Nat, NEW l \in Nat, k + l <= m
  PROVE  2^(k + l) = 2^k * 2^l /\ 2^k \in Nat \ {0} /\ 2^l \in Nat \ {0}
<1>1. \A j \in 0..m : 2^j \in Nat \ {0} /\ 2^(j + 1) = 2 * 2^j
  BY DEF Doubling
<1>2. 2^0 = 1
  BY DEF Doubling
<1> DEFINE S == {j \in 0..l : 2^(k + j) = 2^k * 2^j}
<1>3. 0 \in S
  <2>1. k \in 0..m /\ k + 0 = k
    OBVIOUS
  <2>2. 2^k \in Nat
    BY <1>1, <2>1
  <2>3. QED
    BY <1>2, <2>1, <2>2
<1>4. ASSUME NEW j \in 0..(l - 1), j \in S PROVE j + 1 \in S
  <2>1. j \in 0..m /\ k + j \in 0..m /\ k \in 0..m /\ (k + j) + 1 = k + (j + 1)
    BY <1>4
  <2>2. /\ 2^j \in Nat /\ 2^(j + 1) = 2 * 2^j /\ 2^k \in Nat
        /\ 2^(k + (j + 1)) = 2 * 2^(k + j)
    BY <1>1, <2>1
  <2>3. 2^(k + j) = 2^k * 2^j
    BY <1>4
  <2>4. \A x, y \in Nat : 2 * (x * y) = x * (2 * y)
    OBVIOUS
  <2>5. 2^(k + (j + 1)) = 2^k * 2^(j + 1)
    BY <2>2, <2>3, <2>4
  <2>6. QED
    BY <2>1, <2>5
<1> HIDE DEF S
<1>5. l \in S
  <2>1. \A j \in 0..l : j \in S
    BY <1>3, <1>4, UpTo
  <2>2. QED
    BY <2>1
<1>6. k \in 0..m /\ l \in 0..m
  OBVIOUS
<1>7. QED
  BY <1>1, <1>5, <1>6 DEF S

LEMMA PowersGrow ==
  ASSUME NEW m \in Nat, Doubling(m), NEW l \in 0..m, NEW k \in 0..(l - 1)
  PROVE  /\ 2^l = 2^k * (2 * 2^(l - k - 1)) /\ 2^(l - k - 1) \in Nat \ {0}
         /\ 2^k \in Nat \ {0} /\ 2^l >= 2 * 2^k /\ 2^l \in Nat
<1>1. /\ k \in Nat /\ l - k - 1 \in 0..m /\ k + (l - k) <= m /\ l - k \in Nat
      /\ (l - k - 1) + 1 = l - k /\ k + (l - k) = l
  OBVIOUS
<1>2. 2^l = 2^k * 2^(l - k) /\ 2^k \in Nat \ {0}
  BY <1>1, PowersAdd
<1>3. 2^(l - k) = 2 * 2^(l - k - 1) /\ 2^(l - k - 1) \in Nat \ {0}
  BY <1>1 DEF Doubling
<1>4. \A x, y \in Nat \ {0} : x * (2 * y) >= 2 * x /\ x * (2 * y) \in Nat
  <2>1. ASSUME NEW x \in Nat \ {0}, NEW y \in Nat \ {0}
        PROVE  x * (2 * y) >= 2 * x /\ x * (2 * y) \in Nat
    <3>1. x * (2 * y) = 2 * (x * y) /\ x * y \in Nat
      OBVIOUS
    <3>2. x * y = x * (y - 1) + x /\ x * (y - 1) \in Nat
      OBVIOUS
    <3>3. QED
      BY <3>1, <3>2
  <2>2. QED
    BY <2>1
<1>5. QED
  BY <1>2, <1>3, <1>4

LEMMA PowersOrder ==
  ASSUME NEW m \in Nat, Doubling(m), NEW l \in 0..m, NEW k \in 0..l
  PROVE  2^k <= 2^l /\ 2^k \in Nat \ {0} /\ 2^l \in Nat \ {0}
<1>1. l \in 0..m /\ k \in 0..m
  OBVIOUS
<1>2. 2^k \in Nat \ {0} /\ 2^l \in Nat \ {0}
  BY <1>1 DEF Doubling
<1>3. CASE k = l
  BY <1>2, <1>3
<1>4. CASE k \in 0..(l - 1)
  <2>1. 2^l >= 2 * 2^k
    BY <1>4, PowersGrow
  <2>2. QED
    BY <1>2, <2>1
<1>5. QED
  BY <1>3, <1>4

LEMMA Euclid ==
  ASSUME NEW x \in Nat, NEW y \in Nat \ {0}
  PROVE  /\ x \div y \in Nat /\ x % y \in 0..(y - 1)
         /\ x = y * (x \div y) + (x % y)
<1>1. /\ x \div y \in Int /\ x % y \in Int
      /\ x = (x \div y) * y + (x % y)
      /\ 0 <= x % y /\ x % y < y
  BY SMT
<1>2. x \div y >= 0
  BY SMT
<1>3. (x \div y) * y = y * (x \div y)
  BY <1>1
<1> DEFINE q == x \div y
           rest == x % y
<1>4. q \in Int /\ rest \in Int /\ x = y * q + rest /\ 0 <= rest /\ rest < y /\ q >= 0
  BY <1>1, <1>2, <1>3
<1> HIDE DEF q, rest
<1>5. q \in Nat /\ rest \in 0..(y - 1) /\ x = y * q + rest
  BY <1>4
<1>6. QED
  BY <1>5 DEF q, rest

LEMMA QuotientIs ==
  ASSUME NEW x \in Nat, NEW y \in Nat \ {0}, NEW q \in Int, NEW r \in 0..(y - 1),
         x = y * q + r
  PROVE  x \div y = q /\ x % y = r
<1>1. /\ x \div y \in Nat /\ x % y \in 0..(y - 1)
      /\ x = y * (x \div y) + (x % y)
  BY Euclid
<1>2. ASSUME NEW d \in Int, d >= 1 PROVE y * d >= y
  <2>1. y * d = y * (d - 1) + y /\ y * (d - 1) >= 0
    BY <1>2
  <2>2. QED
    BY <2>1
<1>3. ASSUME q < x \div y PROVE FALSE
  <2>1. y * (x \div y - q) >= y
    BY <1>1, <1>2, <1>3
  <2>2. y * (x \div y - q) = y * (x \div y) - y * q
    BY <1>1
  <2>3. QED
    BY <1>1, <2>1, <2>2
<1>4. ASSUME x \div y < q PROVE FALSE
  <2>1. y * (q - x \div y) >= y
    BY <1>1, <1>2, <1>4
  <2>2. y * (q - x \div y) = y * q - y * (x \div y)
    BY <1>1
  <2>3. QED
    BY <1>1, <2>1, <2>2
<1>5. x \div y = q
  BY <1>1, <1>3, <1>4
<1>6. QED
  BY <1>1, <1>5

(* Division by a product, one factor at a time.                            *)
LEMMA DivDiv ==
  ASSUME NEW x \in Nat, NEW y \in Nat \ {0}, NEW z \in Nat \ {0}
  PROVE  x \div (y * z) = (x \div y) \div z
<1> DEFINE q == x \div y
           p == q \div z
           r == x % y
           s == q % z
<1>1. q \in Nat /\ r \in 0..(y - 1) /\ x = y * q + r
  BY Euclid
<1>2. p \in Nat /\ s \in 0..(z - 1) /\ q = z * p + s
  BY <1>1, Euclid
<1> HIDE DEF q, p, r, s
<1>3. x = (y * z) * p + (y * s + r)
  <2>1. y * q = y * (z * p) + y * s
    BY <1>2
  <2>2. y * (z * p) = (y * z) * p
    BY <1>2
  <2>3. QED
    BY <1>1, <1>2, <2>1, <2>2
<1>4. y * z \in Nat \ {0} /\ y * s + r \in 0..(y * z - 1)
  <2>1. y * z = y * (z - 1) + y /\ y * (z - 1) \in Nat
    OBVIOUS
  <2>2. y * (z - 1) = y * s + y * (z - 1 - s) /\ y * (z - 1 - s) \in Nat /\ y * s \in Nat
    BY <1>2
  <2>3. QED
    BY <1>1, <1>2, <2>1, <2>2
<1>5. x \div (y * z) = p
  BY <1>2, <1>3, <1>4, QuotientIs
<1>6. QED
  BY <1>5 DEF p, q

(* A bit is what is left when the rest above it is taken twice.            *)
LEMMA BitIs ==
  ASSUME NEW m \in Nat, Doubling(m), NEW x \in Nat, NEW k \in 0..(m - 1)
  PROVE  /\ Bit(x, k) \in 0..1
         /\ x \div 2^k \in Nat /\ x \div 2^(k + 1) \in Nat
         /\ x \div 2^k = 2 * (x \div 2^(k + 1)) + Bit(x, k)
<1>1. 2^k \in Nat \ {0} /\ 2^(k + 1) = 2 * 2^k
  BY DEF Doubling
<1>2. 2^(k + 1) = 2^k * 2 /\ 2^(k + 1) \in Nat \ {0}
  BY <1>1
<1>3. x \div 2^(k + 1) = (x \div 2^k) \div 2
  <2> DEFINE y == 2^k
  <2>1. y \in Nat \ {0} /\ 2^(k + 1) = y * 2
    BY <1>1, <1>2
  <2> HIDE DEF y
  <2>2. x \div (y * 2) = (x \div y) \div 2
    BY <2>1, DivDiv
  <2>3. QED
    BY <2>1, <2>2 DEF y
<1> DEFINE q == x \div 2^k
<1>4. q \in Nat
  BY <1>1, Euclid
<1>5. Bit(x, k) = q % 2 /\ x \div 2^(k + 1) = q \div 2
  BY <1>3 DEF Bit
<1> HIDE DEF q
<1>6. q % 2 \in 0..(2 - 1) /\ q \div 2 \in Nat /\ q = 2 * (q \div 2) + (q % 2)
  BY <1>4, Euclid
<1>7. /\ Bit(x, k) \in 0..1 /\ x \div 2^(k + 1) \in Nat
      /\ q = 2 * (x \div 2^(k + 1)) + Bit(x, k)
  <2>1. 2 - 1 = 1
    OBVIOUS
  <2>2. QED
    BY <1>5, <1>6, <2>1
<1>8. QED
  BY <1>4, <1>7 DEF q

LEMMA BitOfNone ==
  ASSUME NEW m \in Nat, Doubling(m), NEW k \in 0..m
  PROVE  Bit(0, k) = 0
<1>1. 2^k \in Nat \ {0}
  BY DEF Doubling
<1>2. 0 = 2^k * 0 + 0
  BY <1>1
<1>3. 0 \div 2^k = 0
  BY <1>1, <1>2, QuotientIs
<1>4. Bit(0, k) = 0 % 2
  BY <1>3 DEF Bit
<1>5. QED
  BY <1>4

(* The top bit of a number stands by itself.                               *)
LEMMA TopBit ==
  ASSUME NEW m \in Nat, Doubling(m), NEW l \in 0..(m - 1), NEW r \in Nat, r < 2^l,
         NEW k \in 0..(m - 1)
  PROVE  Bit(2^l + r, k) = Bit(r, k) + (IF k = l THEN 1 ELSE 0)
<1>1. 2^l \in Nat \ {0} /\ 2^k \in Nat \ {0} /\ 2^(l + 1) = 2 * 2^l
  BY DEF Doubling
<1>2. CASE k < l
  <2> DEFINE y == 2^(l - k - 1)
             z == 2^k
             q == r \div z
             rest == r % z
  <2>1. 2^l = z * (2 * y) /\ y \in Nat /\ z \in Nat \ {0}
    <3>1. k \in 0..(l - 1) /\ l \in 0..m
      BY <1>2
    <3>2. QED
      BY <3>1, PowersGrow
  <2>2. q \in Nat /\ rest \in 0..(z - 1) /\ r = z * q + rest
    BY <2>1, Euclid
  <2>3. Bit(r, k) = q % 2 /\ Bit(2^l + r, k) = ((2^l + r) \div z) % 2
    BY DEF Bit
  <2> HIDE DEF y, z, q, rest
  <2>4. 2^l + r = z * (2 * y + q) + rest
    <3>1. z * (2 * y + q) = z * (2 * y) + z * q
      BY <2>1, <2>2
    <3>2. QED
      BY <2>1, <2>2, <3>1
  <2>5. (2^l + r) \div z = 2 * y + q
    <3>1. 2 * y + q \in Int /\ 2^l + r \in Nat
      BY <1>1, <2>1, <2>2
    <3>2. QED
      BY <2>1, <2>2, <2>4, <3>1, QuotientIs
  <2>6. (2 * y + q) % 2 = q % 2
    BY <2>1, <2>2
  <2>7. Bit(2^l + r, k) = Bit(r, k) /\ Bit(r, k) \in Int
    BY <2>2, <2>3, <2>5, <2>6
  <2>8. QED
    BY <1>2, <2>7
<1>3. CASE k = l
  <2>1. (2^l + r) \div 2^l = 1
    <3>1. 2^l + r = 2^l * 1 + r /\ r \in 0..(2^l - 1) /\ 2^l + r \in Nat
      BY <1>1
    <3>2. QED
      BY <1>1, <3>1, QuotientIs
  <2>2. r \div 2^l = 0
    <3>1. r = 2^l * 0 + r /\ r \in 0..(2^l - 1)
      BY <1>1
    <3>2. QED
      BY <1>1, <3>1, QuotientIs
  <2>3. QED
    BY <1>3, <2>1, <2>2 DEF Bit
<1>4. CASE k > l
  <2>1. 2^k >= 2 * 2^l
    <3>1. l \in 0..(k - 1) /\ k \in 0..m
      BY <1>4
    <3>2. QED
      BY <3>1, PowersGrow
  <2>2. (2^l + r) \div 2^k = 0
    <3>1. 2^l + r = 2^k * 0 + (2^l + r) /\ 2^l + r \in 0..(2^k - 1) /\ 2^l + r \in Nat
      BY <1>1, <2>1
    <3>2. QED
      BY <1>1, <3>1, QuotientIs
  <2>3. r \div 2^k = 0
    <3>1. r = 2^k * 0 + r /\ r \in 0..(2^k - 1)
      BY <1>1, <2>1
    <3>2. QED
      BY <1>1, <3>1, QuotientIs
  <2>4. Bit(2^l + r, k) = 0 % 2 /\ Bit(r, k) = 0 % 2
    BY <2>2, <2>3 DEF Bit
  <2>5. QED
    BY <1>4, <2>4
<1>5. QED
  BY <1>2, <1>3, <1>4

(* The sum of a list with one entry at most.                               *)
LEMMA TotalOne ==
  ASSUME NEW v \in Lists, NEW m \in Nat, NEW l \in 0..(m - 1),
         \A k \in 0..(m - 1) : k # l => v[k] = 0
  PROVE  Total(v, m) = v[l]
<1> DEFINE S == {k \in 0..m : Total(v, k) = (IF l < k THEN v[l] ELSE 0)}
<1>1. 0 \in S
  BY TotalNone
<1>2. ASSUME NEW k \in 0..(m - 1), k \in S PROVE k + 1 \in S
  <2>1. /\ Total(v, k) \in Int /\ v[k] \in Int /\ v[l] \in Int
        /\ Total(v, k + 1) = Total(v, k) + v[k]
    BY TotalNext DEF Lists
  <2>2. Total(v, k) = (IF l < k THEN v[l] ELSE 0)
    BY <1>2
  <2>3. Total(v, k + 1) = (IF l < k + 1 THEN v[l] ELSE 0)
    BY <2>1, <2>2
  <2>4. k + 1 \in 0..m
    BY <1>2
  <2>5. QED
    BY <2>3, <2>4
<1> HIDE DEF S
<1>3. m \in S
  <2>1. \A k \in 0..m : k \in S
    BY <1>1, <1>2, UpTo
  <2>2. QED
    BY <2>1
<1>4. QED
  BY <1>3 DEF S

------------------------------------------------------------------------------
(* The shape of a comb: points P, additions A, shifts S.                   *)

CombShapes == {Shapes[l] : l \in DOMAIN Shapes}

LEMMA ShapeIs ==
  ASSUME NEW c \in CombShapes
  PROVE  /\ c.points_per_add \in Nat \ {0} /\ c.adds_per_shift \in Nat \ {0}
         /\ c.shifts \in Nat \ {0}
         /\ BitsPerWindow(c) \in Nat \ {0} /\ Bits(c) \in Nat \ {0}
         /\ Doubling(Bits(c))
<1>1. PICK l \in DOMAIN Shapes : c = Shapes[l]
  BY DEF CombShapes
<1>2. c \in [points_per_add : Nat \ {0}, adds_per_shift : Nat \ {0}, shifts : Nat \ {0}]
  <2>1. ASSUME NEW T, NEW s \in Seq(T), NEW k \in DOMAIN s PROVE s[k] \in T
    <3>1. k \in 1..Len(s) /\ s \in [1..Len(s) -> T]
      OBVIOUS
    <3>2. QED
      BY <3>1
  <2> DEFINE T == [points_per_add : Nat \ {0}, adds_per_shift : Nat \ {0}, shifts : Nat \ {0}]
  <2>2. Shapes \in Seq(T)
    BY CombAssumption
  <2> HIDE DEF T
  <2>3. Shapes[l] \in T
    BY <1>1, <2>1, <2>2
  <2>4. QED
    BY <1>1, <2>3 DEF T
<1>3. \A x, y \in Nat \ {0} : x * y \in Nat \ {0}
  OBVIOUS
<1>4. Doubling(Bits(c))
  BY <1>1, DoublingAssumption
<1>5. QED
  BY <1>2, <1>3, <1>4 DEF BitsPerWindow, Bits

(* The place of bit t of the part of addition a at point k.                *)
Place(c, k, a) == (k * c.adds_per_shift + a) * c.shifts

LEMMA PlaceIs ==
  ASSUME NEW c \in CombShapes, NEW k \in 0..(c.points_per_add - 1),
         NEW a \in 0..(c.adds_per_shift - 1)
  PROVE  /\ Place(c, k, a) = k * BitsPerWindow(c) + a * c.shifts
         /\ Place(c, k, a) \in Nat /\ k * BitsPerWindow(c) \in Nat /\ a * c.shifts \in Nat
         /\ Place(c, k, a) + c.shifts <= Bits(c)
         /\ k * c.adds_per_shift + a \in 0..(c.points_per_add * c.adds_per_shift - 1)
<1> DEFINE P == c.points_per_add
           A == c.adds_per_shift
           S == c.shifts
<1>1. P \in Nat \ {0} /\ A \in Nat \ {0} /\ S \in Nat \ {0}
  BY ShapeIs
<1>2. k \in 0..(P - 1) /\ a \in 0..(A - 1)
  OBVIOUS
<1> HIDE DEF P, A, S
<1> DEFINE r == k * A + a
<1>3. r \in Nat /\ r + 1 <= P * A
  <2>1. P * A = k * A + (P - 1 - k) * A + A
    BY <1>1, <1>2
  <2>2. (P - 1 - k) * A \in Nat /\ k * A \in Nat
    BY <1>1, <1>2
  <2>3. QED
    BY <1>1, <1>2, <2>1, <2>2
<1>4. r * S = k * (A * S) + a * S /\ k * (A * S) \in Nat /\ a * S \in Nat
  BY <1>1, <1>2
<1> HIDE DEF r
<1>5. r * S \in Nat /\ r * S + S <= P * (A * S)
  <2>1. (r + 1) * S = r * S + S /\ r * S \in Nat
    BY <1>1, <1>3
  <2> DEFINE d == P * A - (r + 1)
  <2>2. d \in Nat /\ P * A = (r + 1) + d
    BY <1>1, <1>3
  <2>3. P * (A * S) = (P * A) * S
    BY <1>1
  <2> HIDE DEF d
  <2>4. (P * A) * S = (r + 1) * S + d * S /\ d * S \in Nat
    BY <1>1, <1>3, <2>2
  <2>5. QED
    BY <1>1, <2>1, <2>3, <2>4
<1>6. P * A \in Nat /\ r \in 0..(P * A - 1)
  BY <1>1, <1>3
<1>7. Place(c, k, a) = r * S /\ BitsPerWindow(c) = A * S /\ Bits(c) = P * (A * S)
  BY DEF Place, BitsPerWindow, Bits, r, P, A, S
<1>8. /\ Place(c, k, a) = k * BitsPerWindow(c) + a * S
      /\ Place(c, k, a) \in Nat /\ k * BitsPerWindow(c) \in Nat /\ a * S \in Nat
      /\ Place(c, k, a) + S <= Bits(c)
      /\ r \in 0..(P * A - 1)
  BY <1>4, <1>5, <1>6, <1>7
<1>9. QED
  BY <1>8 DEF r, P, A, S

LEMMA PowerOfPlace ==
  ASSUME NEW c \in CombShapes, NEW k \in 0..(c.points_per_add - 1),
         NEW a \in 0..(c.adds_per_shift - 1)
  PROVE  /\ 2^(Place(c, k, a)) = 2^(k * BitsPerWindow(c)) * 2^(a * c.shifts)
         /\ 2^(Place(c, k, a)) \in Nat \ {0} /\ 2^(k * BitsPerWindow(c)) \in Nat \ {0}
         /\ 2^(a * c.shifts) \in Nat \ {0}
<1> DEFINE x == k * BitsPerWindow(c)
           y == a * c.shifts
<1>1. /\ Place(c, k, a) = x + y /\ x \in Nat /\ y \in Nat /\ x + y <= Bits(c)
  BY PlaceIs, ShapeIs
<1>2. Bits(c) \in Nat /\ Doubling(Bits(c))
  BY ShapeIs
<1> HIDE DEF x, y
<1>3. 2^(x + y) = 2^x * 2^y /\ 2^x \in Nat \ {0} /\ 2^y \in Nat \ {0}
  BY <1>1, <1>2, PowersAdd
<1>4. x + y \in 0..Bits(c)
  BY <1>1, <1>2
<1>5. 2^(x + y) \in Nat \ {0}
  BY <1>2, <1>4 DEF Doubling
<1>6. QED
  BY <1>1, <1>3, <1>5 DEF x, y

(* The bits of u, each as far apart as the windows are wide.               *)
SpreadBits(c, u) ==
  [k \in Nat |-> IF k < c.points_per_add THEN Bit(u, k) * 2^(k * BitsPerWindow(c)) ELSE 0]
Spread(c, u) == Total(SpreadBits(c, u), c.points_per_add)

Windows(c) == 0..(2^c.points_per_add - 1)

LEMMA PointsFit ==
  ASSUME NEW c \in CombShapes
  PROVE  /\ c.points_per_add \in Nat \ {0} /\ c.points_per_add <= Bits(c)
         /\ 2^c.points_per_add \in Nat /\ 2^c.points_per_add >= 2
         /\ Doubling(c.points_per_add) /\ 2^0 = 1
<1>1. /\ c.points_per_add \in Nat \ {0} /\ BitsPerWindow(c) \in Nat \ {0} /\ Bits(c) \in Nat
      /\ Doubling(Bits(c))
  BY ShapeIs
<1>2. Bits(c) = c.points_per_add * BitsPerWindow(c)
  BY DEF Bits
<1>3. \A x, y \in Nat \ {0} : x <= x * y
  OBVIOUS
<1>4. c.points_per_add <= Bits(c)
  BY <1>1, <1>2, <1>3
<1>5. Doubling(c.points_per_add) /\ 2^0 = 1
  BY <1>1, <1>4 DEF Doubling
<1>6. 2^c.points_per_add >= 2 * 2^0 /\ 2^c.points_per_add \in Nat
  <2>1. c.points_per_add \in 0..Bits(c) /\ 0 \in 0..(c.points_per_add - 1)
    BY <1>1, <1>4
  <2>2. QED
    BY <1>1, <2>1, PowersGrow
<1>7. QED
  BY <1>1, <1>4, <1>5, <1>6

LEMMA SpreadIs ==
  ASSUME NEW c \in CombShapes, NEW u \in Nat
  PROVE  /\ SpreadBits(c, u) \in Lists /\ Spread(c, u) \in Int
         /\ \A k \in 0..(c.points_per_add - 1) :
              /\ SpreadBits(c, u)[k] = Bit(u, k) * 2^(k * BitsPerWindow(c))
              /\ Bit(u, k) \in 0..1
<1>1. c.points_per_add \in Nat /\ Doubling(c.points_per_add)
  BY PointsFit
<1>2. ASSUME NEW k \in 0..(c.points_per_add - 1)
      PROVE  Bit(u, k) \in 0..1 /\ 2^(k * BitsPerWindow(c)) \in Nat
  <2>1. 0 \in 0..(c.adds_per_shift - 1)
    BY ShapeIs
  <2>2. QED
    BY <1>1, <2>1, BitIs, PowerOfPlace
<1>3. ASSUME NEW k \in 0..(c.points_per_add - 1)
      PROVE  /\ SpreadBits(c, u)[k] = Bit(u, k) * 2^(k * BitsPerWindow(c))
             /\ Bit(u, k) * 2^(k * BitsPerWindow(c)) \in Int
  BY <1>1, <1>2 DEF SpreadBits
<1>4. SpreadBits(c, u) \in Lists
  <2>1. ASSUME NEW k \in Nat
        PROVE  (IF k < c.points_per_add THEN Bit(u, k) * 2^(k * BitsPerWindow(c)) ELSE 0) \in Int
    <3>1. CASE k < c.points_per_add
      <4>1. k \in 0..(c.points_per_add - 1)
        BY <1>1, <3>1
      <4>2. QED
        BY <1>3, <3>1, <4>1
    <3>2. QED
      BY <3>1
  <2>2. QED
    BY <2>1 DEF Lists, SpreadBits
<1>5. Spread(c, u) \in Int
  BY <1>1, <1>4, TotalNext DEF Spread
<1>6. QED
  BY <1>2, <1>3, <1>4, <1>5

LEMMA SpreadNone ==
  ASSUME NEW c \in CombShapes
  PROVE  Spread(c, 0) = 0
<1>1. c.points_per_add \in Nat \ {0} /\ Doubling(c.points_per_add)
  BY PointsFit
<1> DEFINE v == SpreadBits(c, 0)
<1>2. v \in Lists /\ \A k \in 0..(c.points_per_add - 1) : v[k] = 0
  <2>1. ASSUME NEW k \in 0..(c.points_per_add - 1) PROVE v[k] = 0
    <3>1. Bit(0, k) = 0 /\ v[k] = Bit(0, k) * 2^(k * BitsPerWindow(c))
      BY <1>1, BitOfNone, SpreadIs
    <3>2. 2^(k * BitsPerWindow(c)) \in Nat
      <4>1. 0 \in 0..(c.adds_per_shift - 1)
        BY ShapeIs
      <4>2. QED
        BY <4>1, PowerOfPlace
    <3>3. QED
      BY <3>1, <3>2
  <2>2. QED
    BY <2>1, SpreadIs
<1> HIDE DEF v
<1>3. Total(v, c.points_per_add) = v[0]
  <2>1. 0 \in 0..(c.points_per_add - 1)
    BY <1>1
  <2>2. QED
    BY <1>1, <1>2, <2>1, TotalOne
<1>4. v[0] = 0
  BY <1>1, <1>2
<1>5. QED
  BY <1>3, <1>4 DEF Spread, v

(* A top bit is spread by itself.                                          *)
LEMMA SpreadTop ==
  ASSUME NEW c \in CombShapes, NEW l \in 0..(c.points_per_add - 1), NEW r \in Nat, r < 2^l
  PROVE  Spread(c, 2^l + r) = Spread(c, r) + 2^(l * BitsPerWindow(c))
<1> DEFINE P == c.points_per_add
           v == SpreadBits(c, r)
           z == SpreadBits(c, 2^l + r)
           w == [k \in Nat |-> IF k = l THEN 2^(l * BitsPerWindow(c)) ELSE 0]
<1>1. P \in Nat \ {0} /\ Doubling(P) /\ l \in 0..(P - 1)
  BY PointsFit
<1>2. 2^l \in Nat /\ 2^l + r \in Nat
  BY <1>1 DEF Doubling
<1>3. v \in Lists /\ z \in Lists
  BY <1>2, SpreadIs
<1>4. ASSUME NEW k \in 0..(P - 1) PROVE 2^(k * BitsPerWindow(c)) \in Nat
  <2>1. 0 \in 0..(c.adds_per_shift - 1)
    BY ShapeIs
  <2>2. QED
    BY <2>1, PowerOfPlace
<1>5. w \in Lists /\ \A k \in 0..(P - 1) : k # l => w[k] = 0
  BY <1>1, <1>4 DEF Lists
<1>6. \A k \in 0..(P - 1) : z[k] = 1 * v[k] + 1 * w[k]
  <2>1. ASSUME NEW k \in 0..(P - 1) PROVE z[k] = 1 * v[k] + 1 * w[k]
    <3> DEFINE x == 2^(k * BitsPerWindow(c))
    <3>1. Bit(2^l + r, k) = Bit(r, k) + (IF k = l THEN 1 ELSE 0)
      BY <1>1, TopBit
    <3>2. /\ z[k] = Bit(2^l + r, k) * x /\ v[k] = Bit(r, k) * x
          /\ Bit(r, k) \in 0..1
      BY <1>2, SpreadIs
    <3>3. w[k] = IF k = l THEN x ELSE 0
      BY <1>1
    <3>4. x \in Nat
      BY <1>4
    <3> HIDE DEF x, z, v, w
    <3>5. QED
      BY <3>1, <3>2, <3>3, <3>4
  <2>2. QED
    BY <2>1
<1>7. w[l] = 2^(l * BitsPerWindow(c)) /\ w[l] \in Int
  BY <1>1, <1>4
<1>8. z = SpreadBits(c, 2^l + r) /\ v = SpreadBits(c, r)
  OBVIOUS
<1> HIDE DEF z, v, w
<1>9. Total(z, P) = 1 * Total(v, P) + 1 * Total(w, P)
  BY <1>1, <1>3, <1>5, <1>6, TotalLinear
<1>10. Total(w, P) = w[l]
  BY <1>1, <1>5, TotalOne
<1>11. Total(v, P) \in Int
  BY <1>1, <1>3, TotalNext
<1>12. QED
  BY <1>7, <1>8, <1>9, <1>10, <1>11 DEF Spread

------------------------------------------------------------------------------
(* The tables.                                                             *)

Points == {<<x, y>> : x \in Int, y \in Int}

LEMMA PowerTwice ==
  ASSUME NEW b \in Points, NEW x \in Int, NEW y \in Int
  PROVE  /\ CombPow(b, x) \in Points
         /\ CombPow(CombPow(b, x), y) = CombPow(b, x * y)
         /\ CombMul(CombPow(b, x), CombPow(b, y)) = CombPow(b, x + y)
         /\ CombPow(b, 1) = b
<1>1. PICK g, h \in Int : b = <<g, h>>
  BY DEF Points
<1>2. CombPow(b, x) = <<g * x, h * x>> /\ CombPow(b, y) = <<g * y, h * y>>
  BY <1>1 DEF CombPow
<1>3. CombPow(CombPow(b, x), y) = <<(g * x) * y, (h * x) * y>>
  BY <1>2 DEF CombPow
<1>4. /\ (g * x) * y = g * (x * y) /\ (h * x) * y = h * (x * y)
      /\ g * x + g * y = g * (x + y) /\ h * x + h * y = h * (x + y)
      /\ g * 1 = g /\ h * 1 = h
      /\ g * x \in Int /\ h * x \in Int
  OBVIOUS
<1>5. CombPow(b, x * y) = <<g * (x * y), h * (x * y)>>
  BY <1>1 DEF CombPow
<1>6. CombPow(b, x + y) = <<g * (x + y), h * (x + y)>>
  BY <1>1 DEF CombPow
<1>7. CombMul(CombPow(b, x), CombPow(b, y)) = <<g * x + g * y, h * x + h * y>>
  BY <1>2 DEF CombMul
<1>8. CombPow(b, 1) = <<g * 1, h * 1>>
  BY <1>1 DEF CombPow
<1>9. CombPow(b, x) \in Points
  BY <1>2, <1>4 DEF Points
<1>10. QED
  BY <1>1, <1>3, <1>4, <1>5, <1>6, <1>7, <1>8, <1>9

(* What stands in the table at s: the bits of the window, spread, in the   *)
(* sub-comb of the addition.                                               *)
Factor(c, s) ==
  Spread(c, (s % PointsPerSubcomb(c)) + 1) * 2^((s \div PointsPerSubcomb(c)) * c.shifts)

Slots(c) == 0..(Size(c) - 1)

LEMMA SlotIs ==
  ASSUME NEW c \in CombShapes, NEW s \in Slots(c)
  PROVE  /\ PointsPerSubcomb(c) \in Nat \ {0}
         /\ s \div PointsPerSubcomb(c) \in 0..(c.adds_per_shift - 1)
         /\ s % PointsPerSubcomb(c) \in 0..(PointsPerSubcomb(c) - 1)
         /\ s = PointsPerSubcomb(c) * (s \div PointsPerSubcomb(c)) + (s % PointsPerSubcomb(c))
         /\ Size(c) \in Nat /\ s \in Nat
         /\ Factor(c, s) \in Int
<1> DEFINE skip == PointsPerSubcomb(c)
           q == s \div skip
           r == s % skip
<1>1. skip \in Nat \ {0} /\ c.adds_per_shift \in Nat \ {0} /\ Size(c) = skip * c.adds_per_shift
  BY PointsFit, ShapeIs DEF PointsPerSubcomb, Size
<1>2. Size(c) \in Nat /\ s \in 0..(skip * c.adds_per_shift - 1)
  BY <1>1 DEF Slots
<1>3. q \in Nat /\ r \in 0..(skip - 1) /\ s = skip * q + r
  <2> HIDE DEF skip
  <2>1. QED
    BY <1>1, <1>2, Euclid
<1> HIDE DEF skip, q, r
<1>4. q < c.adds_per_shift
  <2>1. SUFFICES ASSUME q >= c.adds_per_shift PROVE FALSE
    BY <1>1, <1>3
  <2>2. skip * q = skip * c.adds_per_shift + skip * (q - c.adds_per_shift)
        /\ skip * (q - c.adds_per_shift) \in Nat
    BY <1>1, <1>3, <2>1
  <2>3. QED
    BY <1>1, <1>2, <1>3, <2>2
<1>5. q \in 0..(c.adds_per_shift - 1)
  BY <1>1, <1>3, <1>4
<1>6. 2^(q * c.shifts) \in Nat
  <2>1. 0 \in 0..(c.points_per_add - 1)
    BY ShapeIs
  <2>2. QED
    BY <1>5, <2>1, PowerOfPlace
<1>7. Spread(c, r + 1) \in Int
  BY <1>1, <1>3, SpreadIs
<1>8. Factor(c, s) = Spread(c, r + 1) * 2^(q * c.shifts)
  BY DEF Factor, skip, q, r
<1>9. Factor(c, s) \in Int
  BY <1>6, <1>7, <1>8
<1>10. QED
  BY <1>1, <1>2, <1>3, <1>5, <1>9 DEF q, r, skip

(* The top bit of a window.                                                *)
TopOf(c, u) == CHOOSE x \in {2^m : m \in 0..c.points_per_add} : x <= u /\ u < 2 * x

LEMMA TopIs ==
  ASSUME NEW c \in CombShapes, NEW u \in 1..PointsPerSubcomb(c)
  PROVE  \E l \in 0..(c.points_per_add - 1) :
           TopOf(c, u) = 2^l /\ 2^l \in Nat \ {0} /\ 2^l <= u /\ u < 2 * 2^l
<1> DEFINE P == c.points_per_add
           S == {k \in 0..P : u < 2^k => \E l \in 0..(P - 1) : 2^l <= u /\ u < 2 * 2^l}
<1>1. /\ P \in Nat \ {0} /\ Doubling(P) /\ 2^0 = 1
      /\ u \in Nat /\ u >= 1 /\ u < 2^P /\ 2^P \in Nat
  BY PointsFit DEF PointsPerSubcomb
<1>2. \A k \in 0..P : 2^k \in Nat \ {0} /\ 2^(k + 1) = 2 * 2^k
  BY <1>1 DEF Doubling
<1> HIDE DEF P
<1>3. 0 \in S
  BY <1>1
<1>4. ASSUME NEW k \in 0..(P - 1), k \in S PROVE k + 1 \in S
  <2>1. k + 1 \in 0..P /\ k \in 0..P
    BY <1>1
  <2>2. 2^(k + 1) = 2 * 2^k /\ 2^k \in Nat
    BY <1>2, <2>1
  <2>3. CASE u < 2^k
    BY <1>4, <2>1, <2>3
  <2>4. CASE 2^k <= u
    BY <2>1, <2>2, <2>4
  <2>5. QED
    BY <1>1, <2>2, <2>3, <2>4
<1>5. P \in S
  <2> HIDE DEF S
  <2>1. \A k \in 0..P : k \in S
    BY <1>1, <1>3, <1>4, UpTo
  <2>2. QED
    BY <1>1, <2>1
<1>6. PICK l \in 0..(P - 1) : 2^l <= u /\ u < 2 * 2^l
  BY <1>1, <1>5
<1>7. \E x \in {2^m : m \in 0..P} : x <= u /\ u < 2 * x
  <2>1. l \in 0..P
    BY <1>1
  <2>2. 2^l \in {2^m : m \in 0..P}
    BY <2>1
  <2>3. QED
    BY <1>6, <2>2
<1>8. TopOf(c, u) \in {2^m : m \in 0..P} /\ TopOf(c, u) <= u /\ u < 2 * TopOf(c, u)
  BY <1>7 DEF TopOf, P
<1>9. PICK k \in 0..P : TopOf(c, u) = 2^k
  BY <1>8
<1>10. k # P
  BY <1>1, <1>8, <1>9
<1>11. k \in 0..(P - 1) /\ 2^k \in Nat \ {0}
  BY <1>1, <1>2, <1>10
<1>12. QED
  BY <1>8, <1>9, <1>11 DEF P

(* A turn of goo_comb_init: what is written at s from what is in f.        *)
ItemTurn(c, b, f, s) ==
  LET u == s + 1
      x == TopOf(c, u)
  IN IF s >= PointsPerSubcomb(c) THEN CombPow(f[s - PointsPerSubcomb(c)], 2^c.shifts)
     ELSE IF u = 1 THEN b
     ELSE IF u = x THEN CombPow(f[x \div 2 - 1], 2^BitsPerWindow(c))
     ELSE CombMul(f[u - x - 1], f[x - 1])
TableFor(c, b, f) == f = [s \in Slots(c) |-> ItemTurn(c, b, f, s)]

(* Within the first sub-comb.                                              *)
LEMMA FirstSubcomb ==
  ASSUME NEW c \in CombShapes, NEW s \in Slots(c), s < PointsPerSubcomb(c)
  PROVE  Factor(c, s) = Spread(c, s + 1)
<1> DEFINE skip == PointsPerSubcomb(c)
<1>1. skip \in Nat \ {0} /\ s \in Nat /\ s \in 0..(skip - 1) /\ s = skip * 0 + s
  BY SlotIs
<1>2. s \div skip = 0 /\ s % skip = s
  <2> HIDE DEF skip
  <2>1. QED
    BY <1>1, QuotientIs
<1>3. 2^(0 * c.shifts) = 1
  <2>1. 0 * c.shifts = 0
    BY ShapeIs
  <2>2. QED
    BY <2>1, PointsFit
<1>4. Spread(c, s + 1) \in Int
  BY <1>1, SpreadIs
<1>5. QED
  BY <1>2, <1>3, <1>4 DEF Factor

LEMMA NextSubcomb ==
  ASSUME NEW c \in CombShapes, NEW s \in Slots(c), s >= PointsPerSubcomb(c)
  PROVE  /\ s - PointsPerSubcomb(c) \in Slots(c)
         /\ Factor(c, s) = Factor(c, s - PointsPerSubcomb(c)) * 2^c.shifts
         /\ 2^c.shifts \in Nat
<1> DEFINE skip == PointsPerSubcomb(c)
           t == s - skip
           q == s \div skip
           r == s % skip
           S == c.shifts
<1>1. /\ skip \in Nat \ {0} /\ Size(c) \in Nat /\ s \in Nat
      /\ q \in 0..(c.adds_per_shift - 1) /\ r \in 0..(skip - 1) /\ s = skip * q + r
  BY SlotIs
<1>2. s >= skip /\ t = s - skip /\ s \in 0..(Size(c) - 1)
  BY DEF Slots
<1>13. S \in Nat \ {0}
  BY ShapeIs
<1> HIDE DEF skip, t, q, r, S
<1>3. t \in Nat /\ t \in 0..(Size(c) - 1)
  BY <1>1, <1>2
<1>4. t = skip * (q - 1) + r
  <2>1. skip * (q - 1) = skip * q - skip /\ skip * q \in Int
    BY <1>1
  <2>2. QED
    BY <1>1, <1>2, <2>1
<1>5. t \div skip = q - 1 /\ t % skip = r
  <2>1. q - 1 \in Int /\ t \in Nat /\ skip \in Nat \ {0} /\ r \in 0..(skip - 1)
    BY <1>1, <1>3
  <2> DEFINE d == q - 1
  <2>2. d \in Int /\ t = skip * d + r
    BY <1>4, <2>1
  <2> HIDE DEF d
  <2>3. t \div skip = d /\ t % skip = r
    BY <2>1, <2>2, QuotientIs
  <2>4. QED
    BY <2>3 DEF d
<1>6. q - 1 \in 0..(c.adds_per_shift - 1)
  <2>1. t \div skip \in Nat
    BY <1>1, <1>3, Euclid
  <2>2. QED
    BY <1>1, <1>5, <2>1, ShapeIs
<1>7. Factor(c, s) = Spread(c, r + 1) * 2^(q * S) /\ Spread(c, r + 1) \in Int
  <2>1. r + 1 \in Nat
    BY <1>1
  <2>2. Spread(c, r + 1) \in Int
    BY <2>1, SpreadIs
  <2>3. QED
    BY <2>2 DEF Factor, skip, q, r, S
<1>8. Factor(c, t) = Spread(c, r + 1) * 2^((q - 1) * S)
  BY <1>5 DEF Factor, skip, S
<1>9. 2^(q * S) = 2^((q - 1) * S) * 2^S /\ 2^((q - 1) * S) \in Nat /\ 2^S \in Nat
  <2>1. Bits(c) \in Nat /\ Doubling(Bits(c))
    BY ShapeIs
  <2>2. 0 \in 0..(c.points_per_add - 1)
    BY ShapeIs
  <2>3. Place(c, 0, q) + S <= Bits(c) /\ q * S \in Nat /\ Place(c, 0, q) = 0 * BitsPerWindow(c) + q * S
    BY <1>1, <2>2, PlaceIs DEF S
  <2>4. BitsPerWindow(c) \in Nat
    BY ShapeIs
  <2>5. q * S <= Bits(c)
    BY <1>13, <2>1, <2>3, <2>4
  <2>6. q * S = (q - 1) * S + S /\ (q - 1) * S \in Nat /\ S \in Nat
    BY <1>1, <1>6, <1>13
  <2> DEFINE x == (q - 1) * S
  <2>7. x \in Nat /\ S \in Nat /\ x + S <= Bits(c) /\ q * S = x + S
    BY <2>5, <2>6
  <2> HIDE DEF x
  <2>8. 2^(x + S) = 2^x * 2^S /\ 2^x \in Nat \ {0} /\ 2^S \in Nat \ {0}
    BY <2>1, <2>7, PowersAdd
  <2>9. QED
    BY <2>7, <2>8 DEF x
<1>10. Factor(c, s) = Factor(c, t) * 2^S
  <2> DEFINE x == 2^((q - 1) * S)
             y == 2^S
             z == Spread(c, r + 1)
  <2>1. Factor(c, s) = z * (x * y) /\ Factor(c, t) = z * x /\ x \in Int /\ y \in Int /\ z \in Int
    BY <1>7, <1>8, <1>9
  <2> HIDE DEF x, y, z
  <2>2. Factor(c, s) = Factor(c, t) * y
    BY <2>1
  <2>3. QED
    BY <2>2 DEF y
<1>11. t \in Slots(c)
  BY <1>3 DEF Slots
<1>12. QED
  BY <1>9, <1>10, <1>11 DEF S, t, skip

LEMMA SpreadPower ==
  ASSUME NEW c \in CombShapes, NEW l \in 0..(c.points_per_add - 1)
  PROVE  /\ Spread(c, 2^l) = 2^(l * BitsPerWindow(c))
         /\ 2^(l * BitsPerWindow(c)) \in Nat /\ 2^l \in Nat \ {0}
<1>1. c.points_per_add \in Nat /\ Doubling(c.points_per_add)
  BY PointsFit
<1>2. 2^l \in Nat \ {0}
  BY <1>1 DEF Doubling
<1>3. 2^(l * BitsPerWindow(c)) \in Nat
  <2>1. 0 \in 0..(c.adds_per_shift - 1)
    BY ShapeIs
  <2>2. QED
    BY <2>1, PowerOfPlace
<1>4. Spread(c, 2^l + 0) = Spread(c, 0) + 2^(l * BitsPerWindow(c))
  BY <1>2, SpreadTop
<1>5. 2^l + 0 = 2^l
  BY <1>2
<1>6. QED
  BY <1>2, <1>3, <1>4, <1>5, SpreadNone

(* Every turn of goo_comb_init writes what the slot is for, if the turns   *)
(* before it did.                                                          *)
LEMMA ItemTurnIs ==
  ASSUME NEW c \in CombShapes, NEW b \in Points, NEW s \in Slots(c), NEW f,
         \A t \in Slots(c) : t < s => f[t] = CombPow(b, Factor(c, t))
  PROVE  ItemTurn(c, b, f, s) = CombPow(b, Factor(c, s))
<1> DEFINE skip == PointsPerSubcomb(c)
           W == BitsPerWindow(c)
           P == c.points_per_add
<1>1. s \in Nat /\ skip \in Nat \ {0} /\ Size(c) \in Nat /\ s \in 0..(Size(c) - 1)
  BY SlotIs DEF Slots
<1>2. CASE s >= skip
  <2>1. /\ s - skip \in Slots(c) /\ 2^c.shifts \in Nat
        /\ Factor(c, s) = Factor(c, s - skip) * 2^c.shifts
    BY <1>2, NextSubcomb
  <2>2. f[s - skip] = CombPow(b, Factor(c, s - skip))
    BY <1>1, <2>1
  <2>3. Factor(c, s - skip) \in Int
    BY <2>1, SlotIs
  <2>4. CombPow(f[s - skip], 2^c.shifts) = CombPow(b, Factor(c, s))
    <3> DEFINE x == Factor(c, s - skip)
               y == 2^c.shifts
    <3>1. x \in Int /\ y \in Int /\ Factor(c, s) = x * y /\ f[s - skip] = CombPow(b, x)
      BY <2>1, <2>2, <2>3
    <3> HIDE DEF x
    <3>2. CombPow(CombPow(b, x), y) = CombPow(b, x * y)
      <4> HIDE DEF y
      <4>1. QED
        BY <3>1, PowerTwice
    <3>3. QED
      BY <3>1, <3>2
  <2>5. QED
    BY <1>2, <2>4 DEF ItemTurn
<1>3. CASE s < skip
  <2> DEFINE u == s + 1
             x == TopOf(c, u)
  <2>1. u \in 1..skip /\ u = s + 1
    BY <1>1, <1>3
  <2>2. PICK l \in 0..(P - 1) : x = 2^l /\ 2^l \in Nat \ {0} /\ 2^l <= u /\ u < 2 * 2^l
    BY <2>1, TopIs
  <2>3. Factor(c, s) = Spread(c, u)
    BY <1>3, FirstSubcomb
  <2>4. ASSUME NEW t \in 1..s
        PROVE  f[t - 1] = CombPow(b, Spread(c, t))
    <3>1. t - 1 \in Slots(c) /\ t - 1 < s /\ t - 1 < skip /\ (t - 1) + 1 = t
      BY <1>1, <1>3 DEF Slots
    <3>2. QED
      BY <3>1, FirstSubcomb
  <2>5. P \in Nat \ {0} /\ Doubling(P) /\ 2^0 = 1
    BY PointsFit
  <2>6. Spread(c, 2^l) = 2^(l * W) /\ 2^(l * W) \in Nat
    BY SpreadPower
  <2>7. W \in Nat \ {0}
    BY ShapeIs
  <2>8. ItemTurn(c, b, f, s) = IF u = 1 THEN b
                               ELSE IF u = x THEN CombPow(f[x \div 2 - 1], 2^W)
                               ELSE CombMul(f[u - x - 1], f[x - 1])
    BY <1>1, <1>3 DEF ItemTurn
  <2> HIDE DEF u, x, W, P
  <2>9. CASE u = 1
    <3>1. 2^l = 1
      BY <2>2, <2>9
    <3>2. 0 \in 0..(P - 1) /\ 0 * W = 0
      BY <2>5, <2>7
    <3>3. Spread(c, 2^0) = 2^(0 * W)
      BY <3>2, SpreadPower DEF P, W
    <3>4. Spread(c, 1) = 1
      BY <2>5, <3>2, <3>3
    <3>5. QED
      BY <2>3, <2>8, <2>9, <3>4, PowerTwice
  <2>10. CASE u # 1 /\ u = x
    <3>1. l # 0
      BY <2>2, <2>5, <2>10
    <3> DEFINE h == l - 1
    <3>2. h \in 0..(P - 1) /\ h \in 0..P /\ h + 1 = l
      BY <2>2, <2>5, <3>1
    <3>3. 2^l = 2 * 2^h /\ 2^h \in Nat \ {0}
      BY <2>5, <3>2 DEF Doubling
    <3>4. Spread(c, 2^h) = 2^(h * W) /\ 2^(h * W) \in Nat
      BY <3>2, SpreadPower DEF P, W
    <3>5. 2^(l * W) = 2^(h * W) * 2^W /\ 2^W \in Nat
      <4>1. Bits(c) = P * W /\ Bits(c) \in Nat /\ Doubling(Bits(c))
        BY ShapeIs DEF Bits, P, W
      <4>2. h * W + W = l * W /\ h * W \in Nat
        BY <2>7, <3>2
      <4>3. P * W = l * W + (P - l) * W /\ (P - l) * W \in Nat /\ l * W \in Nat
        BY <2>2, <2>5, <2>7
      <4> DEFINE y == h * W
      <4>4. y \in Nat /\ W \in Nat /\ y + W <= Bits(c) /\ y + W = l * W
        BY <2>7, <4>1, <4>2, <4>3
      <4> HIDE DEF y
      <4>5. 2^(y + W) = 2^y * 2^W /\ 2^W \in Nat \ {0}
        BY <4>1, <4>4, PowersAdd
      <4>6. QED
        BY <4>4, <4>5 DEF y
    <3>6. x \div 2 = 2^h /\ 2^h \in 1..s
      <4> DEFINE z == 2^h
      <4>1. z \in Nat \ {0} /\ x = 2 * z /\ 2 * z <= u
        BY <2>2, <3>3
      <4> HIDE DEF z
      <4>2. x \div 2 = z /\ z <= s
        BY <1>1, <2>1, <4>1
      <4>3. QED
        BY <1>1, <4>1, <4>2 DEF z
    <3>7. f[x \div 2 - 1] = CombPow(b, 2^(h * W))
      BY <2>4, <3>4, <3>6
    <3>8. CombPow(f[x \div 2 - 1], 2^W) = CombPow(b, 2^(l * W))
      BY <3>4, <3>5, <3>7, PowerTwice
    <3>9. Factor(c, s) = 2^(l * W)
      BY <2>2, <2>3, <2>6, <2>10
    <3>10. QED
      BY <2>8, <2>10, <3>8, <3>9
  <2>11. CASE u # 1 /\ u # x
    <3> DEFINE r == u - x
    <3>1. r \in 1..s /\ r < 2^l /\ r \in Nat /\ 2^l + r = u /\ x \in 1..s /\ x = 2^l
      BY <1>1, <2>1, <2>2, <2>11
    <3>2. Spread(c, u) = Spread(c, r) + 2^(l * W)
      BY <3>1, SpreadTop DEF W, P
    <3>3. f[r - 1] = CombPow(b, Spread(c, r)) /\ f[x - 1] = CombPow(b, 2^(l * W))
      BY <2>4, <2>6, <3>1
    <3>4. Spread(c, r) \in Int
      BY <3>1, SpreadIs
    <3>5. CombMul(f[r - 1], f[x - 1]) = CombPow(b, Factor(c, s))
      BY <2>3, <2>6, <3>2, <3>3, <3>4, PowerTwice
    <3>6. QED
      BY <2>8, <2>11, <3>5
  <2>12. QED
    BY <2>9, <2>10, <2>11
<1>4. QED
  BY <1>1, <1>2, <1>3

LEMMA TableIs ==
  ASSUME NEW c \in CombShapes, NEW b \in Points, NEW s \in Slots(c)
  PROVE  Table(c, b)[s] = CombPow(b, Factor(c, s))
<1> DEFINE f0 == [t \in Slots(c) |-> CombPow(b, Factor(c, t))]
           f == Table(c, b)
<1>1. TableFor(c, b, f0)
  <2>1. ASSUME NEW t \in Slots(c) PROVE ItemTurn(c, b, f0, t) = CombPow(b, Factor(c, t))
    <3>1. \A r \in Slots(c) : r < t => f0[r] = CombPow(b, Factor(c, r))
      OBVIOUS
    <3> HIDE DEF f0
    <3>2. QED
      BY <3>1, ItemTurnIs
  <2>2. QED
    BY <2>1 DEF TableFor
<1>2. Table(c, b) = CHOOSE g : TableFor(c, b, g)
  BY DEF Table, TableFor, ItemTurn, TopOf, Slots
<1> HIDE DEF f0, f
<1>3. TableFor(c, b, f)
  BY <1>1, <1>2 DEF f
<1>4. \A t \in Slots(c) : f[t] = ItemTurn(c, b, f, t)
  <2>1. f = [t \in Slots(c) |-> ItemTurn(c, b, f, t)]
    BY <1>3 DEF TableFor
  <2> DEFINE g == [t \in Slots(c) |-> ItemTurn(c, b, f, t)]
  <2>2. \A t \in Slots(c) : g[t] = ItemTurn(c, b, f, t)
    OBVIOUS
  <2> HIDE DEF g
  <2>3. f = g
    BY <2>1 DEF g
  <2>4. QED
    BY <2>2, <2>3
<1> DEFINE S == {m \in 0..s : \A t \in 0..m : f[t] = CombPow(b, Factor(c, t))}
<1>5. s \in Nat /\ Size(c) \in Nat /\ s \in 0..(Size(c) - 1) /\ \A t \in 0..s : t \in Slots(c)
  BY SlotIs DEF Slots
<1>6. 0 \in S
  <2>1. 0 \in Slots(c) /\ \A t \in Slots(c) : ~(t < 0)
    BY <1>5, SlotIs
  <2>2. ItemTurn(c, b, f, 0) = CombPow(b, Factor(c, 0))
    BY <2>1, ItemTurnIs
  <2>3. QED
    BY <1>4, <1>5, <2>1, <2>2
<1>7. ASSUME NEW m \in 0..(s - 1), m \in S PROVE m + 1 \in S
  <2>1. m + 1 \in Slots(c) /\ m + 1 \in 0..s /\ \A t \in Slots(c) : t < m + 1 => t \in 0..m
    <3>1. m \in Nat /\ m + 1 \in 0..s /\ m + 1 \in Slots(c)
      BY <1>5
    <3>2. \A t \in Slots(c) : t \in Nat
      BY <1>5 DEF Slots
    <3>3. \A t \in Nat : t < m + 1 => t \in 0..m
      BY <3>1
    <3>4. QED
      BY <3>1, <3>2, <3>3
  <2>2. \A t \in 0..m : f[t] = CombPow(b, Factor(c, t))
    BY <1>7
  <2>3. ItemTurn(c, b, f, m + 1) = CombPow(b, Factor(c, m + 1))
    BY <2>1, <2>2, ItemTurnIs
  <2>4. f[m + 1] = CombPow(b, Factor(c, m + 1))
    BY <1>4, <2>1, <2>3
  <2>5. \A t \in 0..(m + 1) : t \in 0..m \/ t = m + 1
    BY <1>5
  <2>6. QED
    BY <2>1, <2>2, <2>4, <2>5
<1>8. s \in S
  <2> HIDE DEF S
  <2>1. \A m \in 0..s : m \in S
    BY <1>5, <1>6, <1>7, UpTo
  <2>2. QED
    BY <1>5, <2>1
<1>9. QED
  BY <1>5, <1>8 DEF f

------------------------------------------------------------------------------
(* The windows.                                                            *)

(* Bits taken in from the top: a number of m bits, and where they end up.  *)
LEMMA HornerBits ==
  ASSUME NEW m \in Nat, Doubling(m), NEW v \in Lists,
         \A k \in 0..(m - 1) : v[k] \in 0..1, NEW u, Horner(2, v, m, u)
  PROVE  /\ u[m] \in 0..(2^m - 1)
         /\ \A k \in 0..(m - 1) : Bit(u[m], k) = v[m - 1 - k]
<1>1. \A k \in 0..m : 2^k \in Nat \ {0} /\ 2^(k + 1) = 2 * 2^k
  BY DEF Doubling
<1>2. u[0] = 0 /\ 2^0 = 1
  BY DEF Horner, Doubling
<1>3. \A k \in 0..(m - 1) : u[k + 1] = 2 * u[k] + v[k]
  BY DEF Horner
<1> DEFINE S == {k \in 0..m : u[k] \in 0..(2^k - 1)}
<1>4. 0 \in S
  BY <1>2
<1>5. ASSUME NEW k \in 0..(m - 1), k \in S PROVE k + 1 \in S
  <2> DEFINE x == u[k]
             y == 2^k
             z == v[k]
  <2>1. k + 1 \in 0..m /\ k \in 0..m
    BY <1>5
  <2>2. u[k + 1] = 2 * x + z /\ x \in 0..(y - 1) /\ 2^(k + 1) = 2 * y /\ y \in Nat \ {0} /\ z \in 0..1
    BY <1>1, <1>3, <1>5, <2>1
  <2> HIDE DEF x, y, z
  <2>3. 2 * x + z \in 0..(2 * y - 1)
    BY <2>2
  <2>4. u[k + 1] \in 0..(2^(k + 1) - 1)
    BY <2>2, <2>3
  <2>5. QED
    BY <2>1, <2>4
<1>6. \A k \in 0..m : u[k] \in 0..(2^k - 1)
  <2> HIDE DEF S
  <2>1. \A k \in 0..m : k \in S
    BY <1>4, <1>5, UpTo
  <2>2. QED
    BY <2>1 DEF S
<1>7. \A k \in 0..m : u[k] \in Nat
  BY <1>1, <1>6
<1> DEFINE Q == {k \in 0..m : u[m] \div 2^k = u[m - k]}
<1>8. 0 \in Q
  <2>1. m \in 0..m
    OBVIOUS
  <2>2. u[m] \in Nat /\ m - 0 = m /\ 2^0 = 1
    BY <1>2, <1>7, <2>1
  <2>3. u[m] \div 1 = u[m]
    BY <2>2
  <2>4. QED
    BY <2>2, <2>3
<1>9. ASSUME NEW k \in 0..(m - 1), k \in Q PROVE k + 1 \in Q
  <2> DEFINE x == u[m]
             y == 2^k
             l == m - 1 - k
             a == u[l]
             d == v[l]
  <2>1. k \in 0..m /\ k + 1 \in 0..m /\ l \in 0..(m - 1) /\ l \in 0..m /\ m \in 0..m
        /\ l + 1 = m - k /\ m - (k + 1) = l
    OBVIOUS
  <2>2. x \div y = u[m - k]
    BY <1>9
  <2>3. u[m - k] = 2 * a + d /\ a \in Nat /\ d \in 0..1 /\ x \in Nat
    BY <1>3, <1>7, <2>1
  <2>4. y \in Nat \ {0} /\ 2^(k + 1) = y * 2
    BY <1>1, <2>1
  <2>5. u[m - (k + 1)] = a
    BY <2>1
  <2> HIDE DEF x, y, a, d, l
  <2>6. x \div (y * 2) = (x \div y) \div 2
    BY <2>3, <2>4, DivDiv
  <2>7. (2 * a + d) \div 2 = a
    BY <2>3
  <2>8. x \div 2^(k + 1) = u[m - (k + 1)]
    BY <2>2, <2>3, <2>4, <2>5, <2>6, <2>7
  <2>9. QED
    BY <2>1, <2>8 DEF x
<1>10. \A k \in 0..m : u[m] \div 2^k = u[m - k]
  <2> HIDE DEF Q
  <2>1. \A k \in 0..m : k \in Q
    BY <1>8, <1>9, UpTo
  <2>2. QED
    BY <2>1 DEF Q
<1>11. ASSUME NEW k \in 0..(m - 1) PROVE Bit(u[m], k) = v[m - 1 - k]
  <2> DEFINE l == m - 1 - k
             a == u[l]
             d == v[l]
  <2>1. k \in 0..m /\ l \in 0..(m - 1) /\ l \in 0..m /\ l + 1 = m - k
    OBVIOUS
  <2>2. u[m] \div 2^k = u[l + 1]
    BY <1>10, <2>1
  <2>3. u[l + 1] = 2 * a + d /\ a \in Nat /\ d \in 0..1
    BY <1>3, <1>7, <2>1
  <2> HIDE DEF a
  <2>4. (2 * a + d) % 2 = d
    <3> HIDE DEF d
    <3>1. QED
      BY <2>3
  <2>5. QED
    BY <2>2, <2>3, <2>4 DEF Bit
<1>12. QED
  BY <1>6, <1>11

(* What goo_comb_recode reads for the k-th point.                          *)
WindowBits(c, e, a, j) ==
  [k \in Nat |-> IF k < c.points_per_add
                 THEN Bit(e, (Bits(c) - 1) - ((a + k * c.adds_per_shift) * c.shifts + j))
                 ELSE 0]

WindowFor(c, e, a, j, w) ==
  w = [k \in 0..c.points_per_add |->
         IF k = 0 THEN 0
         ELSE 2 * w[k - 1]
              + Bit(e, (Bits(c) - 1) - ((a + (k - 1) * c.adds_per_shift) * c.shifts + j))]

(* Counted from the top or from the bottom, it is the same bit.            *)
LEMMA FromTheTop ==
  ASSUME NEW c \in CombShapes, NEW k \in 0..(c.points_per_add - 1),
         NEW a \in 0..(c.adds_per_shift - 1), NEW j \in 0..(c.shifts - 1)
  PROVE  /\ (Bits(c) - 1) - ((a + k * c.adds_per_shift) * c.shifts + j)
              = Place(c, c.points_per_add - 1 - k, c.adds_per_shift - 1 - a) + (c.shifts - 1 - j)
         /\ Place(c, c.points_per_add - 1 - k, c.adds_per_shift - 1 - a) + (c.shifts - 1 - j)
              \in 0..(Bits(c) - 1)
<1> DEFINE P == c.points_per_add
           A == c.adds_per_shift
           S == c.shifts
           q == P - 1 - k
           d == A - 1 - a
           r == a + k * A
           t == q * A + d
<1>1. P \in Nat \ {0} /\ A \in Nat \ {0} /\ S \in Nat \ {0} /\ Bits(c) \in Nat
  BY ShapeIs
<1>2. Bits(c) = P * (A * S) /\ Place(c, q, d) = t * S
  BY DEF Bits, BitsPerWindow, Place
<1>3. q \in 0..(P - 1) /\ d \in 0..(A - 1) /\ k \in 0..(P - 1) /\ a \in 0..(A - 1) /\ j \in 0..(S - 1)
      /\ q = P - 1 - k /\ d = A - 1 - a
  BY <1>1
<1>4. Place(c, q, d) \in Nat /\ Place(c, q, d) + S <= Bits(c)
  <2> HIDE DEF q, d
  <2>1. QED
    BY <1>3, PlaceIs DEF P, A, S
<1> HIDE DEF P, A, S
<1>5. r + t = P * A - 1 /\ r \in Int /\ t \in Int
  <2>1. (P - 1 - k) * A = P * A - A - k * A /\ P * A \in Int /\ k * A \in Int
    BY <1>1, <1>3
  <2>2. QED
    BY <1>1, <1>3, <2>1
<1> HIDE DEF q, d, r, t
<1>6. r * S + t * S = P * (A * S) - S /\ r * S \in Int /\ t * S \in Int
  <2>1. r * S + t * S = (r + t) * S
    BY <1>1, <1>5
  <2>2. (P * A - 1) * S = P * (A * S) - S
    BY <1>1
  <2>3. QED
    BY <1>1, <1>5, <2>1, <2>2
<1>7. (Bits(c) - 1) - (r * S + j) = Place(c, q, d) + (S - 1 - j)
  BY <1>1, <1>2, <1>3, <1>6
<1>8. Place(c, q, d) + (S - 1 - j) \in 0..(Bits(c) - 1)
  BY <1>1, <1>3, <1>4
<1>9. QED
  BY <1>7, <1>8 DEF P, A, S, q, d, r

LEMMA WindowBitsAre ==
  ASSUME NEW c \in CombShapes, NEW e \in Nat,
         NEW a \in 0..(c.adds_per_shift - 1), NEW j \in 0..(c.shifts - 1)
  PROVE  /\ WindowBits(c, e, a, j) \in Lists
         /\ \A k \in 0..(c.points_per_add - 1) :
              /\ WindowBits(c, e, a, j)[k] \in 0..1
              /\ WindowBits(c, e, a, j)[k]
                   = Bit(e, (Bits(c) - 1) - ((a + k * c.adds_per_shift) * c.shifts + j))
              /\ WindowBits(c, e, a, j)[k]
                   = Bit(e, Place(c, c.points_per_add - 1 - k, c.adds_per_shift - 1 - a)
                              + (c.shifts - 1 - j))
<1>1. c.points_per_add \in Nat \ {0} /\ Bits(c) \in Nat /\ Doubling(Bits(c))
  BY ShapeIs
<1>2. ASSUME NEW k \in 0..(c.points_per_add - 1)
      PROVE  Bit(e, (Bits(c) - 1) - ((a + k * c.adds_per_shift) * c.shifts + j)) \in 0..1
  <2> DEFINE x == (Bits(c) - 1) - ((a + k * c.adds_per_shift) * c.shifts + j)
  <2>1. x \in 0..(Bits(c) - 1)
    BY FromTheTop
  <2> HIDE DEF x
  <2>2. Bit(e, x) \in 0..1
    BY <1>1, <2>1, BitIs
  <2>3. QED
    BY <2>2 DEF x
<1>3. ASSUME NEW k \in 0..(c.points_per_add - 1)
      PROVE  WindowBits(c, e, a, j)[k]
               = Bit(e, (Bits(c) - 1) - ((a + k * c.adds_per_shift) * c.shifts + j))
  BY <1>1 DEF WindowBits
<1>4. WindowBits(c, e, a, j) \in Lists
  <2>1. ASSUME NEW k \in Nat
        PROVE  (IF k < c.points_per_add
                THEN Bit(e, (Bits(c) - 1) - ((a + k * c.adds_per_shift) * c.shifts + j))
                ELSE 0) \in Int
    <3>1. CASE k < c.points_per_add
      <4>1. k \in 0..(c.points_per_add - 1)
        BY <1>1, <3>1
      <4>2. Bit(e, (Bits(c) - 1) - ((a + k * c.adds_per_shift) * c.shifts + j)) \in 0..1
        BY <1>2, <4>1
      <4>3. QED
        BY <3>1, <4>2
    <3>2. QED
      BY <3>1
  <2>2. QED
    BY <2>1 DEF Lists, WindowBits
<1>5. QED
  BY <1>2, <1>3, <1>4, FromTheTop

(* A window has a bit of every part of its addition.                       *)
LEMMA WindowIs ==
  ASSUME NEW c \in CombShapes, c = Shape, NEW e \in Nat,
         NEW a \in 0..(c.adds_per_shift - 1), NEW j \in 0..(c.shifts - 1)
  PROVE  /\ Window(e, a, j) \in Windows(c)
         /\ \A k \in 0..(c.points_per_add - 1) :
              Bit(Window(e, a, j), k)
                = Bit(e, Place(c, k, c.adds_per_shift - 1 - a) + (c.shifts - 1 - j))
<1> DEFINE P == c.points_per_add
           v == WindowBits(c, e, a, j)
<1>1. P \in Nat \ {0} /\ Doubling(P)
  BY PointsFit
<1>2. /\ v \in Lists
      /\ \A k \in 0..(P - 1) :
           /\ v[k] \in 0..1
           /\ v[k] = Bit(e, (Bits(c) - 1) - ((a + k * c.adds_per_shift) * c.shifts + j))
           /\ v[k] = Bit(e, Place(c, P - 1 - k, c.adds_per_shift - 1 - a) + (c.shifts - 1 - j))
  BY WindowBitsAre
<1> HIDE DEF v
<1>3. PICK u : Horner(2, v, P, u)
  BY <1>1, <1>2, HornerExists
<1>4. u \in [0..P -> Int] /\ u[0] = 0 /\ \A k \in 0..(P - 1) : u[k + 1] = 2 * u[k] + v[k]
  BY <1>3 DEF Horner
<1>5. WindowFor(c, e, a, j, u)
  <2>1. ASSUME NEW k \in 0..P
        PROVE  u[k] = IF k = 0 THEN 0
                      ELSE 2 * u[k - 1]
                           + Bit(e, (Bits(c) - 1) - ((a + (k - 1) * c.adds_per_shift) * c.shifts + j))
    <3>1. CASE k = 0
      BY <1>4, <3>1
    <3>2. CASE k # 0
      <4>1. k - 1 \in 0..(P - 1) /\ (k - 1) + 1 = k
        BY <1>1, <3>2
      <4>2. u[(k - 1) + 1] = 2 * u[k - 1] + v[k - 1]
        BY <1>4, <4>1
      <4>3. v[k - 1] = Bit(e, (Bits(c) - 1) - ((a + (k - 1) * c.adds_per_shift) * c.shifts + j))
        BY <1>2, <4>1
      <4>4. QED
        BY <3>2, <4>1, <4>2, <4>3
    <3>3. QED
      BY <3>1, <3>2
  <2>2. QED
    BY <1>4, <2>1 DEF WindowFor
<1> DEFINE w == CHOOSE g : WindowFor(c, e, a, j, g)
<1>6. Window(e, a, j) = w[P]
  BY DEF Window, WindowFor
<1>7. WindowFor(c, e, a, j, w)
  BY <1>5
<1> HIDE DEF w
<1>8. w[0] = 0 /\ \A k \in 0..(P - 1) : w[k + 1] = 2 * w[k] + v[k]
  <2> DEFINE At(k) == IF k = 0 THEN 0
                      ELSE 2 * w[k - 1]
                           + Bit(e, (Bits(c) - 1) - ((a + (k - 1) * c.adds_per_shift) * c.shifts + j))
             g == [k \in 0..P |-> At(k)]
  <2>1. w = g
    BY <1>7 DEF WindowFor
  <2>2. \A k \in 0..P : w[k] = At(k)
    <3>1. \A k \in 0..P : g[k] = At(k)
      OBVIOUS
    <3> HIDE DEF g, At
    <3>2. QED
      BY <2>1, <3>1
  <2>3. ASSUME NEW k \in 0..(P - 1) PROVE w[k + 1] = 2 * w[k] + v[k]
    <3>1. k + 1 \in 0..P /\ (k + 1) - 1 = k /\ k + 1 # 0
      BY <1>1
    <3>2. w[k + 1] = At(k + 1)
      BY <2>2, <3>1
    <3>3. At(k + 1) = 2 * w[k] + Bit(e, (Bits(c) - 1) - ((a + k * c.adds_per_shift) * c.shifts + j))
      BY <3>1
    <3>4. v[k] = Bit(e, (Bits(c) - 1) - ((a + k * c.adds_per_shift) * c.shifts + j))
      BY <1>2
    <3> HIDE DEF At
    <3>5. QED
      BY <3>2, <3>3, <3>4
  <2>4. 0 \in 0..P /\ At(0) = 0
    BY <1>1
  <2> HIDE DEF At
  <2>5. QED
    BY <2>2, <2>3, <2>4
<1> DEFINE S == {k \in 0..P : w[k] = u[k]}
<1>9. 0 \in S
  BY <1>1, <1>4, <1>8
<1>10. ASSUME NEW k \in 0..(P - 1), k \in S PROVE k + 1 \in S
  <2>1. k + 1 \in 0..P /\ w[k] = u[k]
    BY <1>1, <1>10
  <2>2. w[k + 1] = u[k + 1]
    BY <1>4, <1>8, <2>1
  <2>3. QED
    BY <2>1, <2>2
<1>11. w[P] = u[P]
  <2> HIDE DEF S
  <2>1. \A k \in 0..P : k \in S
    BY <1>1, <1>9, <1>10, UpTo
  <2>2. QED
    BY <1>1, <2>1 DEF S
<1>12. u[P] \in 0..(2^P - 1) /\ \A k \in 0..(P - 1) : Bit(u[P], k) = v[P - 1 - k]
  BY <1>1, <1>2, <1>3, HornerBits
<1>13. ASSUME NEW k \in 0..(P - 1)
       PROVE  Bit(u[P], k) = Bit(e, Place(c, k, c.adds_per_shift - 1 - a) + (c.shifts - 1 - j))
  <2> DEFINE l == P - 1 - k
  <2>1. l \in 0..(P - 1) /\ P - 1 - l = k
    BY <1>1
  <2>2. Bit(u[P], k) = v[l]
    BY <1>12
  <2> HIDE DEF l
  <2>3. v[l] = Bit(e, Place(c, P - 1 - l, c.adds_per_shift - 1 - a) + (c.shifts - 1 - j))
    BY <1>2, <2>1
  <2>4. QED
    BY <2>1, <2>2, <2>3
<1>14. QED
  BY <1>6, <1>11, <1>12, <1>13 DEF Windows

------------------------------------------------------------------------------
(* The digits of an exponent that the shifts have added up.                *)

(* The highest t bits of digit m of e, digits as wide as the shifts.       *)
Chunk(c, e, t, m) ==
  (e \div 2^(m * c.shifts + (c.shifts - t))) - 2^t * (e \div 2^(m * c.shifts + c.shifts))
Digits(c) == c.points_per_add * c.adds_per_shift
GatheredBits(c, e, t) ==
  [m \in Nat |-> IF m < Digits(c) THEN 2^(m * c.shifts) * Chunk(c, e, t, m) ELSE 0]
Gathered(c, e, t) == Total(GatheredBits(c, e, t), Digits(c))

(* What shift t adds for each digit.                                       *)
ShiftBits(c, e, t) ==
  [m \in Nat |-> IF m < Digits(c)
                 THEN 2^(m * c.shifts) * Bit(e, m * c.shifts + (c.shifts - 1 - t))
                 ELSE 0]

LEMMA DigitIs ==
  ASSUME NEW c \in CombShapes, NEW m \in 0..(Digits(c) - 1)
  PROVE  /\ Digits(c) \in Nat /\ m \in Nat /\ c.shifts \in Nat \ {0}
         /\ Bits(c) = Digits(c) * c.shifts /\ Bits(c) \in Nat /\ Doubling(Bits(c))
         /\ m * c.shifts \in Nat /\ m * c.shifts + c.shifts <= Bits(c)
         /\ (m + 1) * c.shifts = m * c.shifts + c.shifts
<1> DEFINE P == c.points_per_add
           A == c.adds_per_shift
           S == c.shifts
           D == Digits(c)
<1>1. /\ P \in Nat \ {0} /\ A \in Nat \ {0} /\ S \in Nat \ {0} /\ Bits(c) \in Nat
      /\ Doubling(Bits(c))
  BY ShapeIs
<1>2. Bits(c) = P * (A * S) /\ D = P * A /\ m \in 0..(D - 1)
  BY DEF Bits, BitsPerWindow, Digits
<1> HIDE DEF P, A, S, D
<1>3. D \in Nat /\ Bits(c) = D * S
  BY <1>1, <1>2
<1>4. m \in Nat /\ m * S \in Nat /\ (m + 1) * S = m * S + S
  BY <1>1, <1>2, <1>3
<1>5. m * S + S <= D * S
  <2> DEFINE d == D - (m + 1)
  <2>1. d \in Nat /\ D = (m + 1) + d
    BY <1>2, <1>3
  <2> HIDE DEF d
  <2>2. D * S = (m + 1) * S + d * S /\ d * S \in Nat
    BY <1>1, <1>4, <2>1
  <2>3. QED
    BY <1>1, <1>4, <2>2
<1>6. QED
  BY <1>1, <1>3, <1>4, <1>5 DEF S, D

(* Division by the powers met here.                                        *)
LEMMA PartIs ==
  ASSUME NEW c \in CombShapes, NEW e \in Nat, NEW m \in 0..(Digits(c) - 1), NEW t \in 0..c.shifts
  PROVE  /\ m * c.shifts + (c.shifts - t) \in 0..Bits(c)
         /\ e \div 2^(m * c.shifts + (c.shifts - t)) \in Nat
         /\ 2^(m * c.shifts) \in Nat /\ 2^t \in Nat
         /\ Chunk(c, e, t, m) \in Int
<1>1. /\ c.shifts \in Nat \ {0} /\ Bits(c) \in Nat /\ Doubling(Bits(c))
      /\ m * c.shifts \in Nat /\ m * c.shifts + c.shifts <= Bits(c)
  BY DigitIs
<1> DEFINE x == m * c.shifts
           S == c.shifts
<1>2. x + (S - t) \in 0..Bits(c) /\ x + S \in 0..Bits(c) /\ x \in 0..Bits(c) /\ t \in 0..Bits(c)
  BY <1>1
<1>3. \A k \in 0..Bits(c) : 2^k \in Nat \ {0}
  BY <1>1 DEF Doubling
<1>4. \A k \in 0..Bits(c) : e \div 2^k \in Nat
  BY <1>3, Euclid
<1>5. Chunk(c, e, t, m) = (e \div 2^(x + (S - t))) - 2^t * (e \div 2^(x + S))
  BY DEF Chunk
<1> HIDE DEF x, S
<1>6. /\ e \div 2^(x + (S - t)) \in Nat /\ e \div 2^(x + S) \in Nat /\ 2^t \in Nat /\ 2^x \in Nat
  BY <1>2, <1>3, <1>4
<1>7. Chunk(c, e, t, m) \in Int
  BY <1>5, <1>6
<1>8. QED
  BY <1>2, <1>6, <1>7 DEF x, S

LEMMA GatheredIs ==
  ASSUME NEW c \in CombShapes, NEW e \in Nat, NEW t \in 0..c.shifts
  PROVE  /\ GatheredBits(c, e, t) \in Lists /\ Gathered(c, e, t) \in Int
         /\ \A m \in 0..(Digits(c) - 1) :
              GatheredBits(c, e, t)[m] = 2^(m * c.shifts) * Chunk(c, e, t, m)
<1>1. Digits(c) \in Nat
  BY ShapeIs DEF Digits
<1>2. ASSUME NEW m \in 0..(Digits(c) - 1)
      PROVE  /\ GatheredBits(c, e, t)[m] = 2^(m * c.shifts) * Chunk(c, e, t, m)
             /\ 2^(m * c.shifts) * Chunk(c, e, t, m) \in Int
  <2>1. 2^(m * c.shifts) \in Nat /\ Chunk(c, e, t, m) \in Int
    BY PartIs
  <2>2. QED
    BY <1>1, <2>1 DEF GatheredBits
<1>3. GatheredBits(c, e, t) \in Lists
  <2>1. ASSUME NEW m \in Nat
        PROVE  (IF m < Digits(c) THEN 2^(m * c.shifts) * Chunk(c, e, t, m) ELSE 0) \in Int
    <3>1. CASE m < Digits(c)
      <4>1. m \in 0..(Digits(c) - 1)
        BY <1>1, <3>1
      <4>2. QED
        BY <1>2, <3>1, <4>1
    <3>2. QED
      BY <3>1
  <2>2. QED
    BY <2>1 DEF Lists, GatheredBits
<1>4. QED
  BY <1>1, <1>2, <1>3, TotalNext DEF Gathered

LEMMA ShiftBitsAre ==
  ASSUME NEW c \in CombShapes, NEW e \in Nat, NEW t \in 0..(c.shifts - 1)
  PROVE  /\ ShiftBits(c, e, t) \in Lists
         /\ \A m \in 0..(Digits(c) - 1) :
              /\ ShiftBits(c, e, t)[m]
                   = 2^(m * c.shifts) * Bit(e, m * c.shifts + (c.shifts - 1 - t))
              /\ Bit(e, m * c.shifts + (c.shifts - 1 - t)) \in 0..1
<1>1. Digits(c) \in Nat
  BY ShapeIs DEF Digits
<1>2. ASSUME NEW m \in 0..(Digits(c) - 1)
      PROVE  /\ Bit(e, m * c.shifts + (c.shifts - 1 - t)) \in 0..1
             /\ 2^(m * c.shifts) \in Nat
  <2>1. /\ c.shifts \in Nat \ {0} /\ Bits(c) \in Nat /\ Doubling(Bits(c))
        /\ m * c.shifts \in Nat /\ m * c.shifts + c.shifts <= Bits(c)
    BY DigitIs
  <2> DEFINE x == m * c.shifts + (c.shifts - 1 - t)
  <2>2. x \in 0..(Bits(c) - 1)
    BY <2>1
  <2> HIDE DEF x
  <2>3. Bit(e, x) \in 0..1
    BY <2>1, <2>2, BitIs
  <2>4. t \in 0..c.shifts
    BY <2>1
  <2>5. QED
    BY <2>3, <2>4, PartIs DEF x
<1>3. ASSUME NEW m \in 0..(Digits(c) - 1)
      PROVE  ShiftBits(c, e, t)[m]
               = 2^(m * c.shifts) * Bit(e, m * c.shifts + (c.shifts - 1 - t))
  BY <1>1 DEF ShiftBits
<1>4. ShiftBits(c, e, t) \in Lists
  <2>1. ASSUME NEW m \in Nat
        PROVE  (IF m < Digits(c)
                THEN 2^(m * c.shifts) * Bit(e, m * c.shifts + (c.shifts - 1 - t)) ELSE 0) \in Int
    <3>1. CASE m < Digits(c)
      <4>1. m \in 0..(Digits(c) - 1)
        BY <1>1, <3>1
      <4>2. Bit(e, m * c.shifts + (c.shifts - 1 - t)) \in 0..1 /\ 2^(m * c.shifts) \in Nat
        BY <1>2, <4>1
      <4>3. QED
        BY <3>1, <4>2
    <3>2. QED
      BY <3>1
  <2>2. QED
    BY <2>1 DEF Lists, ShiftBits
<1>5. QED
  BY <1>2, <1>3, <1>4

(* Before the first shift there is nothing.                                *)
LEMMA GatherNone ==
  ASSUME NEW c \in CombShapes, NEW e \in Nat
  PROVE  Gathered(c, e, 0) = 0
<1> DEFINE v == GatheredBits(c, e, 0)
           D == Digits(c)
<1>1. D \in Nat /\ c.shifts \in Nat
  BY ShapeIs DEF Digits
<1>2. v \in Lists
  BY <1>1, GatheredIs
<1>3. ASSUME NEW m \in 0..(D - 1) PROVE v[m] = 0
  <2>1. v[m] = 2^(m * c.shifts) * Chunk(c, e, 0, m)
    BY <1>1, GatheredIs
  <2>2. 2^0 = 1 /\ m * c.shifts + (c.shifts - 0) = m * c.shifts + c.shifts
    BY DigitIs, PointsFit
  <2>3. /\ e \div 2^(m * c.shifts + (c.shifts - 0)) \in Nat /\ 2^(m * c.shifts) \in Nat
    BY <1>1, PartIs
  <2>4. Chunk(c, e, 0, m) = 0
    <3> DEFINE x == e \div 2^(m * c.shifts + c.shifts)
    <3>1. Chunk(c, e, 0, m) = x - 1 * x /\ x \in Nat
      BY <2>2, <2>3 DEF Chunk
    <3> HIDE DEF x
    <3>2. QED
      BY <3>1
  <2>5. QED
    BY <2>1, <2>3, <2>4
<1>4. Gathered(c, e, 0) = Total(v, D)
  BY DEF Gathered
<1> HIDE DEF v, D
<1>5. \A m \in 0..(D - 1) : v[m] = 0 * v[m] + 0 * v[m]
  BY <1>3
<1>6. Total(v, D) = 0 * Total(v, D) + 0 * Total(v, D)
  BY <1>1, <1>2, <1>5, TotalLinear
<1>7. Total(v, D) = 0
  BY <1>1, <1>2, <1>6, TotalNext
<1>8. QED
  BY <1>4, <1>7

(* A shift doubles what there is and adds a bit of every digit.            *)
LEMMA GatherTurn ==
  ASSUME NEW c \in CombShapes, NEW e \in Nat, NEW t \in 0..(c.shifts - 1)
  PROVE  Gathered(c, e, t + 1) = 2 * Gathered(c, e, t) + Total(ShiftBits(c, e, t), Digits(c))
<1> DEFINE v == GatheredBits(c, e, t)
           z == GatheredBits(c, e, t + 1)
           w == ShiftBits(c, e, t)
           D == Digits(c)
<1>1. D \in Nat /\ c.shifts \in Nat \ {0}
  BY ShapeIs DEF Digits
<1>2. t \in 0..c.shifts /\ t + 1 \in 0..c.shifts
  BY <1>1
<1>3. v \in Lists /\ z \in Lists /\ w \in Lists
  BY <1>2, GatheredIs, ShiftBitsAre
<1>4. ASSUME NEW m \in 0..(D - 1) PROVE z[m] = 2 * v[m] + 1 * w[m]
  <2> DEFINE x == m * c.shifts
             k == x + (c.shifts - (t + 1))
             hi == e \div 2^(x + (c.shifts - t))
             lo == e \div 2^k
             top == e \div 2^(x + c.shifts)
             bit == Bit(e, k)
             y == 2^x
             q == 2^t
  <2>1. /\ Bits(c) \in Nat /\ Doubling(Bits(c)) /\ x \in Nat /\ x + c.shifts <= Bits(c)
    BY DigitIs
  <2>2. k \in 0..(Bits(c) - 1) /\ k + 1 = x + (c.shifts - t) /\ k = x + (c.shifts - 1 - t)
    BY <1>1, <2>1
  <2>3. lo = 2 * hi + bit /\ bit \in 0..1 /\ lo \in Nat /\ hi \in Nat
    <3> HIDE DEF k
    <3>1. /\ Bit(e, k) \in 0..1 /\ e \div 2^k \in Nat /\ e \div 2^(k + 1) \in Nat
          /\ e \div 2^k = 2 * (e \div 2^(k + 1)) + Bit(e, k)
      BY <2>1, <2>2, BitIs
    <3>2. QED
      BY <2>2, <3>1
  <2>4. v[m] = y * (hi - q * top)
    BY <1>2, GatheredIs DEF Chunk
  <2>5. z[m] = y * (lo - 2^(t + 1) * top)
    BY <1>2, GatheredIs DEF Chunk
  <2>6. w[m] = y * bit
    BY <2>2, ShiftBitsAre
  <2>7. 2^(t + 1) = 2 * q /\ q \in Nat
    <3>1. t \in 0..Bits(c)
      BY <1>1, <2>1
    <3>2. QED
      BY <2>1, <3>1 DEF Doubling
  <2>8. y \in Nat
    BY <1>2, PartIs
  <2>9. top \in Nat
    <3>1. x + c.shifts \in 0..Bits(c)
      BY <1>1, <2>1
    <3>2. 2^(x + c.shifts) \in Nat \ {0}
      BY <2>1, <3>1 DEF Doubling
    <3>3. QED
      BY <3>2, Euclid
  <2> HIDE DEF hi, lo, top, bit, y, q, v, z, w, k, x
  <2>10. (2 * hi + bit) - (2 * q) * top = 2 * (hi - q * top) + bit
    <3>1. (2 * q) * top = 2 * (q * top) /\ q * top \in Int
      BY <2>7, <2>9
    <3> DEFINE g == q * top
    <3>2. (2 * q) * top = 2 * g /\ g \in Int
      BY <3>1
    <3> HIDE DEF g
    <3>3. (2 * hi + bit) - (2 * q) * top = 2 * (hi - g) + bit
      BY <2>3, <3>2
    <3>4. QED
      BY <3>3 DEF g
  <2> DEFINE d == hi - q * top
  <2>11. d \in Int
    <3>1. q * top \in Int
      BY <2>7, <2>9
    <3>2. QED
      BY <2>3, <3>1
  <2>12. z[m] = y * (2 * d + bit) /\ v[m] = y * d
    BY <2>3, <2>4, <2>5, <2>7, <2>10
  <2> HIDE DEF d
  <2>13. y * (2 * d + bit) = 2 * (y * d) + 1 * (y * bit)
    BY <2>3, <2>8, <2>11
  <2>14. QED
    BY <2>6, <2>12, <2>13
<1>5. Gathered(c, e, t) = Total(v, D) /\ Gathered(c, e, t + 1) = Total(z, D)
  BY DEF Gathered
<1> HIDE DEF v, z, w, D
<1>6. Total(z, D) = 2 * Total(v, D) + 1 * Total(w, D)
  BY <1>1, <1>3, <1>4, TotalLinear
<1>7. Total(w, D) \in Int
  BY <1>1, <1>3, TotalNext
<1>8. QED
  BY <1>5, <1>6, <1>7 DEF w, D

(* After the last shift there is e.                                        *)
LEMMA GatherAll ==
  ASSUME NEW c \in CombShapes, NEW e \in Nat, e < 2^Bits(c)
  PROVE  Gathered(c, e, c.shifts) = e
<1> DEFINE v == GatheredBits(c, e, c.shifts)
           D == Digits(c)
           S == c.shifts
           Rest(m) == 2^(m * S) * (e \div 2^(m * S))
           u == [m \in 0..D |-> Rest(0) - Rest(m)]
<1>1. D \in Nat /\ S \in Nat \ {0} /\ S \in 0..c.shifts
  BY ShapeIs DEF Digits
<1>2. v \in Lists
  BY <1>1, GatheredIs
<1>3. Bits(c) = D * S /\ Bits(c) \in Nat /\ Doubling(Bits(c)) /\ 2^0 = 1
  <2>1. c.points_per_add \in Nat \ {0} /\ c.adds_per_shift \in Nat \ {0}
    BY ShapeIs
  <2>2. Bits(c) = c.points_per_add * (c.adds_per_shift * S)
    BY DEF Bits, BitsPerWindow
  <2>3. QED
    BY <1>1, <2>1, <2>2, ShapeIs, PointsFit DEF Digits
<1>4. ASSUME NEW m \in 0..D PROVE Rest(m) \in Int
  <2> DEFINE x == m * S
  <2>1. x \in 0..Bits(c)
    <3> DEFINE d == D - m
    <3>1. d \in Nat /\ D = m + d /\ m \in Nat
      BY <1>1
    <3> HIDE DEF d, D, S
    <3>2. D * S = m * S + d * S /\ d * S \in Nat /\ m * S \in Nat
      BY <1>1, <3>1
    <3>3. QED
      BY <1>3, <3>2
  <2> HIDE DEF x
  <2>2. 2^x \in Nat \ {0}
    BY <1>3, <2>1 DEF Doubling
  <2>3. 2^x * (e \div 2^x) \in Int
    <3> DEFINE y == 2^x
    <3>1. y \in Nat \ {0}
      BY <2>2
    <3> HIDE DEF y
    <3>2. e \div y \in Nat
      BY <3>1, Euclid
    <3>3. y * (e \div y) \in Int
      BY <3>1, <3>2
    <3>4. QED
      BY <3>3 DEF y
  <2>4. QED
    BY <2>3 DEF x
<1>5. ASSUME NEW m \in 0..(D - 1) PROVE Rest(m + 1) = Rest(m) - v[m]
  <2> DEFINE x == m * S
  <2>1. x \in Nat /\ x + S <= Bits(c) /\ (m + 1) * S = x + S
    BY DigitIs
  <2>2. v[m] = 2^x * Chunk(c, e, S, m)
    BY <1>1, GatheredIs
  <2>3. x + (S - S) = x
    BY <1>1, <2>1
  <2>4. Chunk(c, e, S, m) = (e \div 2^x) - 2^S * (e \div 2^(x + S))
    BY <2>3 DEF Chunk
  <2>5. Rest(m + 1) = 2^(x + S) * (e \div 2^(x + S)) /\ Rest(m) = 2^x * (e \div 2^x)
    BY <2>1
  <2> DEFINE hi == e \div 2^(x + S)
             lo == e \div 2^x
             y == 2^x
             q == 2^S
  <2> HIDE DEF x, v, Rest, D, S
  <2>6. 2^(x + S) = y * q /\ y \in Nat \ {0} /\ q \in Nat \ {0}
    BY <1>1, <1>3, <2>1, PowersAdd
  <2>7. lo \in Nat
    <3> HIDE DEF y
    <3>1. e \div y \in Nat
      BY <2>6, Euclid
    <3>2. QED
      BY <3>1 DEF y
  <2>8. hi \in Nat
    <3>1. x + S \in 0..Bits(c)
      BY <1>1, <1>3, <2>1
    <3> DEFINE g == 2^(x + S)
    <3>2. g \in Nat \ {0}
      BY <1>3, <3>1 DEF Doubling
    <3> HIDE DEF g
    <3>3. e \div g \in Nat
      BY <3>2, Euclid
    <3>4. QED
      BY <3>3 DEF g
  <2>9. Rest(m + 1) = (y * q) * hi /\ Rest(m) = y * lo /\ v[m] = y * (lo - q * hi)
    BY <2>2, <2>4, <2>5, <2>6
  <2> HIDE DEF hi, lo, y, q
  <2>10. y * (lo - q * hi) = y * lo - (y * q) * hi /\ y * lo \in Int /\ (y * q) * hi \in Int
    BY <2>6, <2>7, <2>8
  <2>11. QED
    BY <2>9, <2>10
<1>6. Rest(0) = e
  <2>1. 0 * S = 0
    BY <1>1
  <2>2. e \div 1 = e
    OBVIOUS
  <2>3. Rest(0) = 1 * (e \div 1)
    BY <1>3, <2>1
  <2>4. QED
    BY <2>2, <2>3
<1>7. Rest(D) = 0
  <2> DEFINE y == 2^Bits(c)
  <2>1. y \in Nat \ {0} /\ e \in 0..(y - 1)
    <3>1. Bits(c) \in 0..Bits(c)
      BY <1>3
    <3>2. y \in Nat \ {0}
      BY <1>3, <3>1 DEF Doubling
    <3>3. QED
      BY <3>2
  <2>2. Rest(D) = y * (e \div y)
    BY <1>3
  <2> HIDE DEF y, Rest
  <2>3. e = y * 0 + e
    BY <2>1
  <2>4. e \div y = 0
    BY <2>1, <2>3, QuotientIs
  <2>5. QED
    BY <2>1, <2>2, <2>4
<1>8. Gathered(c, e, c.shifts) = Total(v, D)
  BY DEF Gathered
<1>9. u[0] = 0 /\ u[D] = Rest(0) - Rest(D) /\ \A k \in 0..(D - 1) : u[k + 1] = u[k] + v[k]
  <2>1. ASSUME NEW k \in 0..(D - 1) PROVE u[k + 1] = u[k] + v[k]
    <3>1. k \in 0..D /\ k + 1 \in 0..D /\ 0 \in 0..D /\ k \in Nat
      BY <1>1
    <3>2. u[k + 1] = Rest(0) - Rest(k + 1) /\ u[k] = Rest(0) - Rest(k)
      BY <3>1
    <3>3. Rest(k + 1) = Rest(k) - v[k] /\ Rest(k) \in Int /\ Rest(0) \in Int /\ v[k] \in Int
      BY <1>2, <1>4, <1>5, <3>1 DEF Lists
    <3> HIDE DEF u, v, Rest
    <3>4. QED
      BY <3>2, <3>3
  <2>2. 0 \in 0..D /\ D \in 0..D
    BY <1>1
  <2>3. u[0] = Rest(0) - Rest(0) /\ u[D] = Rest(0) - Rest(D)
    BY <2>2
  <2>4. u[0] = 0
    BY <1>6, <2>3
  <2> HIDE DEF u
  <2>5. QED
    BY <2>1, <2>3, <2>4
<1> HIDE DEF u, v, D, Rest
<1>10. u[D] = 0 + Total(v, D)
  <2>1. \A k \in 0..D : u[k] = 0 + Total(v, k)
    BY <1>1, <1>2, <1>9, TotalUnique
  <2>2. QED
    BY <1>1, <2>1
<1>11. Total(v, D) \in Int
  BY <1>1, <1>2, TotalNext
<1>12. QED
  BY <1>6, <1>7, <1>8, <1>9, <1>10, <1>11

------------------------------------------------------------------------------
(* A shift: the items that the windows select add up to its bits.          *)

LEMMA ColumnIs ==
  ASSUME NEW c \in CombShapes, c = Shape, NEW e \in Nat, NEW t \in 0..(c.shifts - 1),
         NEW a \in 0..(c.adds_per_shift - 1)
  PROVE  /\ Column(ShiftBits(c, e, t), c.adds_per_shift, c.points_per_add, a)
              = 2^(a * c.shifts) * Spread(c, Window(e, c.adds_per_shift - 1 - a, t))
         /\ Window(e, c.adds_per_shift - 1 - a, t) \in Windows(c)
<1> DEFINE P == c.points_per_add
           A == c.adds_per_shift
           W == BitsPerWindow(c)
           d == A - 1 - a
           u == Window(e, d, t)
           y == 2^(a * c.shifts)
           v == SpreadBits(c, u)
           s == ShiftBits(c, e, t)
           z == [l \in Nat |-> s[l * A + a]]
<1>1. P \in Nat \ {0} /\ A \in Nat \ {0} /\ c.shifts \in Nat \ {0} /\ a \in Nat
  BY ShapeIs
<1>2. d \in 0..(A - 1) /\ A - 1 - d = a
  BY <1>1
<1>3. u \in Windows(c) /\ \A k \in 0..(P - 1) : Bit(u, k) = Bit(e, Place(c, k, a) + (c.shifts - 1 - t))
  <2> HIDE DEF d
  <2>1. /\ Window(e, d, t) \in Windows(c)
        /\ \A k \in 0..(c.points_per_add - 1) :
             Bit(Window(e, d, t), k)
               = Bit(e, Place(c, k, c.adds_per_shift - 1 - d) + (c.shifts - 1 - t))
    BY <1>2, WindowIs
  <2>2. QED
    BY <1>2, <2>1
<1>4. u \in Nat
  BY <1>3, PointsFit DEF Windows
<1>5. v \in Lists /\ s \in Lists
  BY <1>4, SpreadIs, ShiftBitsAre
<1>6. z \in Lists
  <2> HIDE DEF s
  <2>1. \A l \in Nat : l * A + a \in Nat
    BY <1>1
  <2>2. QED
    BY <1>5, <2>1 DEF Lists
<1>7. y \in Nat
  <2>1. 0 \in 0..(P - 1)
    BY <1>1
  <2>2. QED
    BY <2>1, PowerOfPlace
<1>8. ASSUME NEW k \in 0..(P - 1) PROVE z[k] = y * v[k]
  <2> DEFINE m == k * A + a
             place == Place(c, k, a)
             bit == Bit(u, k)
             x == 2^(k * W)
  <2>1. m \in 0..(Digits(c) - 1) /\ m * c.shifts = place /\ k \in Nat
    BY <1>1, PlaceIs DEF Digits, Place
  <2>2. z[k] = s[m]
    BY <2>1
  <2>3. s[m] = 2^(m * c.shifts) * Bit(e, m * c.shifts + (c.shifts - 1 - t))
    <3> HIDE DEF m
    <3>1. QED
      BY <2>1, ShiftBitsAre
  <2>4. v[k] = bit * x /\ bit \in 0..1
    BY <1>4, SpreadIs
  <2>5. 2^place = x * y /\ x \in Nat
    BY PowerOfPlace
  <2>6. z[k] = (x * y) * bit
    <3> HIDE DEF z, s, m, place
    <3>1. s[m] = 2^place * Bit(e, place + (c.shifts - 1 - t))
      BY <2>1, <2>3
    <3>2. Bit(e, place + (c.shifts - 1 - t)) = bit
      BY <1>3 DEF place
    <3>3. QED
      BY <2>2, <2>5, <3>1, <3>2
  <2> HIDE DEF z, s, m, place, bit, x, y, v
  <2>7. (x * y) * bit = y * (bit * x)
    BY <1>7, <2>4, <2>5
  <2>8. QED
    BY <2>4, <2>6, <2>7
<1>9. Column(s, A, P, a) = Total(z, P) /\ Spread(c, u) = Total(v, P)
  BY DEF Column, Spread
<1> HIDE DEF z, s, v, y, P
<1>10. Total(z, P) = y * Total(v, P)
  <2>1. y \in Int /\ P \in Nat /\ \A k \in 0..(P - 1) : z[k] = y * v[k]
    BY <1>1, <1>7, <1>8 DEF P
  <2>2. QED
    BY <1>5, <1>6, <2>1, TotalScaled
<1>11. Total(v, P) \in Int
  BY <1>1, <1>5, TotalNext
<1>12. Column(s, A, P, a) = y * Spread(c, u)
  BY <1>7, <1>9, <1>10, <1>11
<1>13. QED
  BY <1>3, <1>12 DEF s, P, y

TablesOk ==
  items = [m \in DOMAIN Shapes |-> [g |-> Table(Shapes[m], G), h |-> Table(Shapes[m], H)]]

LEMMA BasesAre ==
  /\ G \in Points /\ H \in Points
  /\ \A x \in Int : CombPow(G, x) = <<x, 0>> /\ CombPow(H, x) = <<0, x>>
<1>1. G \in Points /\ H \in Points
  BY DEF G, H, Points
<1>2. ASSUME NEW x \in Int PROVE CombPow(G, x) = <<x, 0>> /\ CombPow(H, x) = <<0, x>>
  <2>1. 1 * x = x /\ 0 * x = 0
    OBVIOUS
  <2>2. CombPow(G, x) = <<1 * x, 0 * x>> /\ CombPow(H, x) = <<0 * x, 1 * x>>
    BY DEF CombPow, G, H
  <2>3. QED
    BY <2>1, <2>2
<1>3. QED
  BY <1>1, <1>2

(* What a window selects.                                                  *)
Selected(c, a, u) == 2^(a * c.shifts) * Spread(c, u)

LEMMA SlotOfWindow ==
  ASSUME NEW c \in CombShapes, NEW a \in 0..(c.adds_per_shift - 1), NEW u \in Windows(c), u # 0
  PROVE  /\ a * PointsPerSubcomb(c) + u - 1 \in Slots(c)
         /\ Factor(c, a * PointsPerSubcomb(c) + u - 1) = Selected(c, a, u)
<1> DEFINE skip == PointsPerSubcomb(c)
           A == c.adds_per_shift
           s == a * skip + u - 1
<1>1. skip \in Nat \ {0} /\ A \in Nat \ {0} /\ Size(c) = skip * A /\ u \in 1..skip
  BY PointsFit, ShapeIs DEF PointsPerSubcomb, Size, Windows
<1>2. a \in 0..(A - 1) /\ s = a * skip + u - 1
  OBVIOUS
<1> HIDE DEF skip, A, s
<1>3. s = skip * a + (u - 1) /\ s \in Nat
  <2>1. a * skip = skip * a /\ skip * a \in Nat
    BY <1>1, <1>2
  <2>2. QED
    BY <1>1, <1>2, <2>1
<1>4. s \in 0..(Size(c) - 1)
  <2>1. skip * A = skip * a + skip + skip * (A - 1 - a) /\ skip * (A - 1 - a) \in Nat /\ skip * a \in Nat
    BY <1>1, <1>2
  <2>2. QED
    BY <1>1, <1>3, <2>1
<1>5. s \div skip = a /\ s % skip = u - 1
  <2> DEFINE r == u - 1
  <2>1. r \in 0..(skip - 1) /\ s = skip * a + r /\ a \in Int
    BY <1>1, <1>2, <1>3
  <2> HIDE DEF r
  <2>2. s \div skip = a /\ s % skip = r
    BY <1>1, <1>3, <2>1, QuotientIs
  <2>3. QED
    BY <2>2 DEF r
<1>6. (u - 1) + 1 = u /\ u \in Nat
  BY <1>1
<1>7. Factor(c, s) = Spread(c, u) * 2^(a * c.shifts)
  BY <1>5, <1>6 DEF Factor, skip
<1>8. 2^(a * c.shifts) \in Nat /\ Spread(c, u) \in Int
  <2>1. 0 \in 0..(c.points_per_add - 1)
    BY ShapeIs
  <2>2. QED
    BY <1>6, <2>1, PowerOfPlace, SpreadIs
<1>9. Factor(c, s) = Selected(c, a, u)
  <2>1. \A x, y \in Int : x * y = y * x
    OBVIOUS
  <2>2. QED
    BY <1>7, <1>8, <2>1 DEF Selected
<1>10. QED
  BY <1>4, <1>9 DEF s, skip, Slots

LEMMA ItemIs ==
  ASSUME TablesOk, n \in DOMAIN Shapes, NEW a \in 0..(Shape.adds_per_shift - 1),
         NEW u \in Windows(Shape)
  PROVE  /\ Selected(Shape, a, u) \in Int
         /\ Item("g", a, u) = <<Selected(Shape, a, u), 0>>
         /\ Item("h", a, u) = <<0, Selected(Shape, a, u)>>
<1> DEFINE c == Shape
<1>1. c \in CombShapes /\ c = Shapes[n]
  BY DEF CombShapes, Shape
<1>2. items[n] = [g |-> Table(Shapes[n], G), h |-> Table(Shapes[n], H)]
  BY DEF TablesOk
<1>3. items[n]["g"] = Table(c, G) /\ items[n]["h"] = Table(c, H)
  BY <1>1, <1>2
<1> HIDE DEF c
<1>4. a \in 0..(c.adds_per_shift - 1) /\ u \in Windows(c)
  BY DEF c
<1>5. CASE u = 0
  <2>1. Spread(c, 0) = 0
    BY <1>1, SpreadNone
  <2>2. 2^(a * c.shifts) \in Nat
    <3>1. 0 \in 0..(c.points_per_add - 1)
      BY <1>1, ShapeIs
    <3>2. QED
      BY <1>1, <1>4, <3>1, PowerOfPlace
  <2>3. Selected(c, a, u) = 0
    BY <1>5, <2>1, <2>2 DEF Selected
  <2>4. Item("g", a, u) = <<0, 0>> /\ Item("h", a, u) = <<0, 0>>
    BY <1>5 DEF Item, One
  <2>5. QED
    BY <2>3, <2>4 DEF c
<1>6. CASE u # 0
  <2> DEFINE s == a * PointsPerSubcomb(c) + u - 1
  <2>1. s \in Slots(c) /\ Factor(c, s) = Selected(c, a, u)
    BY <1>1, <1>4, <1>6, SlotOfWindow
  <2>2. Item("g", a, u) = Table(c, G)[s] /\ Item("h", a, u) = Table(c, H)[s]
    BY <1>3, <1>6 DEF Item, c
  <2> HIDE DEF s
  <2>3. Table(c, G)[s] = CombPow(G, Factor(c, s)) /\ Table(c, H)[s] = CombPow(H, Factor(c, s))
    BY <1>1, <2>1, TableIs, BasesAre
  <2>4. Factor(c, s) \in Int
    BY <1>1, <2>1, SlotIs
  <2>5. QED
    BY <2>1, <2>2, <2>3, <2>4, BasesAre DEF c
<1>7. QED
  BY <1>5, <1>6

(* The additions of a shift, one after the other.                          *)
Added(c, e, t) == [a \in Nat |-> Column(ShiftBits(c, e, t), c.adds_per_shift, c.points_per_add, a)]
ProductFor(first, w) ==
  w = [a \in 0..Shape.adds_per_shift |->
         IF a = 0 THEN first
         ELSE CombMul(CombMul(w[a - 1], Item("g", a - 1, wins[n].g[i][a - 1])),
                      Item("h", a - 1, wins[n].h[i][a - 1]))]

LEMMA ProductIs ==
  ASSUME NEW m \in Nat, NEW v \in Lists, NEW w \in Lists, NEW x \in Int, NEW y \in Int, NEW p,
         p[0] = <<x, y>>,
         \A a \in 1..m : p[a] = CombMul(CombMul(p[a - 1], <<v[a - 1], 0>>), <<0, w[a - 1]>>)
  PROVE  p[m] = <<x + Total(v, m), y + Total(w, m)>>
<1> DEFINE S == {a \in 0..m : p[a] = <<x + Total(v, a), y + Total(w, a)>>}
<1>1. 0 \in S
  <2>1. Total(v, 0) = 0 /\ Total(w, 0) = 0
    BY TotalNone
  <2>2. QED
    BY <2>1
<1>2. ASSUME NEW a \in 0..(m - 1), a \in S PROVE a + 1 \in S
  <2>1. a + 1 \in 1..m /\ (a + 1) - 1 = a /\ a \in Nat /\ a + 1 \in 0..m
    OBVIOUS
  <2>2. p[a + 1] = CombMul(CombMul(p[a], <<v[a], 0>>), <<0, w[a]>>)
    BY <2>1
  <2> DEFINE tv == Total(v, a)
             tw == Total(w, a)
             va == v[a]
             wa == w[a]
  <2>3. /\ tv \in Int /\ va \in Int /\ Total(v, a + 1) = tv + va
        /\ tw \in Int /\ wa \in Int /\ Total(w, a + 1) = tw + wa
    BY <2>1, TotalNext
  <2>4. p[a] = <<x + tv, y + tw>>
    BY <1>2
  <2> HIDE DEF tv, tw, va, wa
  <2>5. CombMul(CombMul(<<x + tv, y + tw>>, <<va, 0>>), <<0, wa>>)
          = <<((x + tv) + va) + 0, ((y + tw) + 0) + wa>>
    BY DEF CombMul
  <2>6. ((x + tv) + va) + 0 = x + (tv + va) /\ ((y + tw) + 0) + wa = y + (tw + wa)
    BY <2>3
  <2>7. p[a + 1] = <<x + Total(v, a + 1), y + Total(w, a + 1)>>
    BY <2>2, <2>3, <2>4, <2>5, <2>6 DEF va, wa
  <2>8. QED
    BY <2>1, <2>7
<1>3. m \in S
  <2> HIDE DEF S
  <2>1. \A a \in 0..m : a \in S
    BY <1>1, <1>2, UpTo
  <2>2. QED
    BY <2>1
<1>4. QED
  BY <1>3

(* The windows of both combs are those of the exponents: those of all      *)
(* additions, or of those that a turn beyond `from` has recoded.           *)
WindowOf(c, e, a, j) == (CHOOSE w : WindowFor(c, e, a, j, w))[c.points_per_add]
WindowsAre(c, w, e, from) ==
  \A j \in 0..(c.shifts - 1) : \A a \in 0..(c.adds_per_shift - 1) :
    a < c.adds_per_shift - 1 - from => w[j][a] = WindowOf(c, e, c.adds_per_shift - 1 - a, j)
WindowsDone(b, e, from) == WindowsAre(Shape, wins[n][b], e, from)

LEMMA WindowOfShape == \A e, a, j : Window(e, a, j) = WindowOf(Shape, e, a, j)
  BY DEF Window, WindowOf, WindowFor

LEMMA AddedIs ==
  ASSUME n \in DOMAIN Shapes, NEW e \in Nat, NEW t \in 0..(Shape.shifts - 1)
  PROVE  /\ Added(Shape, e, t) \in Lists
         /\ Gathered(Shape, e, t + 1)
              = 2 * Gathered(Shape, e, t) + Total(Added(Shape, e, t), Shape.adds_per_shift)
         /\ Gathered(Shape, e, t) \in Int
<1> DEFINE c == Shape
           s == ShiftBits(c, e, t)
<1>1. c \in CombShapes
  BY DEF CombShapes, Shape
<1> HIDE DEF c
<1>2. t \in 0..(c.shifts - 1) /\ t \in 0..c.shifts
  BY <1>1, ShapeIs DEF c
<1>3. s \in Lists /\ c.points_per_add \in Nat /\ c.adds_per_shift \in Nat
  BY <1>1, <1>2, ShiftBitsAre, ShapeIs
<1>4. Gathered(c, e, t + 1) = 2 * Gathered(c, e, t) + Total(s, Digits(c))
  BY <1>1, <1>2, GatherTurn
<1> HIDE DEF s
<1>5. /\ [a \in Nat |-> Column(s, c.adds_per_shift, c.points_per_add, a)] \in Lists
      /\ Total(s, c.points_per_add * c.adds_per_shift)
           = Total([a \in Nat |-> Column(s, c.adds_per_shift, c.points_per_add, a)], c.adds_per_shift)
  BY <1>3, TotalColumns
<1>6. Gathered(c, e, t) \in Int
  BY <1>1, <1>2, GatheredIs
<1>7. QED
  BY <1>4, <1>5, <1>6 DEF Added, Digits, s, c

LEMMA ShiftIs ==
  ASSUME TablesOk, n \in DOMAIN Shapes, e1 \in Nat, e2 \in Nat, i \in 0..(Shape.shifts - 1),
         WindowsDone("g", e1, -1), WindowsDone("h", e2, -1),
         ret = <<Gathered(Shape, e1, i), Gathered(Shape, e2, i)>>, Shift
  PROVE  ret' = <<Gathered(Shape, e1, i + 1), Gathered(Shape, e2, i + 1)>>
<1> DEFINE c == Shape
           A == c.adds_per_shift
           v == Added(c, e1, i)
           w == Added(c, e2, i)
           x == Gathered(c, e1, i)
           y == Gathered(c, e2, i)
           first == IF i = 0 THEN ret ELSE CombPow(ret, 2)
           p == CHOOSE q : ProductFor(first, q)
           p0 == [a \in 0..A |-> <<2 * x + Total(v, a), 2 * y + Total(w, a)>>]
<1>1. c \in CombShapes /\ c = Shape
  BY DEF CombShapes, Shape
<1>2. A \in Nat \ {0} /\ c.shifts \in Nat
  BY <1>1, ShapeIs
<1>3. /\ v \in Lists /\ w \in Lists /\ x \in Int /\ y \in Int
      /\ Gathered(c, e1, i + 1) = 2 * x + Total(v, A)
      /\ Gathered(c, e2, i + 1) = 2 * y + Total(w, A)
  BY AddedIs
<1>4. first = <<2 * x, 2 * y>>
  <2>1. ret = <<x, y>>
    OBVIOUS
  <2>2. CASE i = 0
    <3>1. x = 0 /\ y = 0
      BY <1>1, <2>2, GatherNone
    <3>2. QED
      BY <2>1, <2>2, <3>1
  <2>3. CASE i # 0
    <3>1. first = <<x * 2, y * 2>>
      <4> HIDE DEF x, y
      <4>1. CombPow(<<x, y>>, 2) = <<x * 2, y * 2>>
        BY DEF CombPow
      <4>2. QED
        BY <2>1, <2>3, <4>1
    <3>2. x * 2 = 2 * x /\ y * 2 = 2 * y
      BY <1>3
    <3> HIDE DEF x, y, first
    <3>3. QED
      BY <3>1, <3>2
  <2>4. QED
    BY <2>2, <2>3
<1>5. ASSUME NEW a \in 1..A
      PROVE  /\ Item("g", a - 1, wins[n].g[i][a - 1]) = <<v[a - 1], 0>>
             /\ Item("h", a - 1, wins[n].h[i][a - 1]) = <<0, w[a - 1]>>
  <2> DEFINE d == a - 1
  <2>1. d \in 0..(A - 1) /\ d < A - 1 - (-1) /\ d \in Nat
    BY <1>2
  <2>2. /\ wins[n]["g"][i][d] = Window(e1, A - 1 - d, i)
        /\ wins[n]["h"][i][d] = Window(e2, A - 1 - d, i)
    <3> HIDE DEF d
    <3>1. QED
      BY <2>1, WindowOfShape DEF WindowsDone, WindowsAre
  <2>3. /\ v[d] = Column(ShiftBits(c, e1, i), A, c.points_per_add, d)
        /\ w[d] = Column(ShiftBits(c, e2, i), A, c.points_per_add, d)
    <3> HIDE DEF d
    <3>1. QED
      BY <2>1 DEF Added
  <2>4. /\ v[d] = Selected(c, d, Window(e1, A - 1 - d, i)) /\ Window(e1, A - 1 - d, i) \in Windows(c)
        /\ w[d] = Selected(c, d, Window(e2, A - 1 - d, i)) /\ Window(e2, A - 1 - d, i) \in Windows(c)
    <3> HIDE DEF d, c, v, w
    <3>1. i \in 0..(c.shifts - 1)
      BY DEF c
    <3>2. QED
      BY <1>1, <2>1, <2>3, <3>1, ColumnIs DEF Selected
  <2>5. /\ Item("g", d, Window(e1, A - 1 - d, i)) = <<v[d], 0>>
        /\ Item("h", d, Window(e2, A - 1 - d, i)) = <<0, w[d]>>
    <3> HIDE DEF d, v, w
    <3>1. QED
      BY <2>1, <2>4, ItemIs
  <2> HIDE DEF v, w
  <2>6. QED
    BY <2>2, <2>5
<1>6. ret' = p[A]
  BY DEF Shift, ProductFor
<1> HIDE DEF c, v, w, x, y, first
<1>7. ProductFor(first, p0)
  <2>1. Total(v, 0) = 0 /\ Total(w, 0) = 0
    BY <1>3, TotalNone
  <2>2. ASSUME NEW a \in 0..A
        PROVE  p0[a] = IF a = 0 THEN first
                       ELSE CombMul(CombMul(p0[a - 1], Item("g", a - 1, wins[n].g[i][a - 1])),
                                    Item("h", a - 1, wins[n].h[i][a - 1]))
    <3>1. CASE a = 0
      BY <1>2, <1>3, <1>4, <2>1, <3>1
    <3>2. CASE a # 0
      <4> DEFINE d == a - 1
                 tv == Total(v, d)
                 tw == Total(w, d)
                 va == v[d]
                 wa == w[d]
      <4>1. a \in 1..A /\ d \in 0..A /\ d \in Nat /\ d + 1 = a
        BY <1>2, <3>2
      <4>2. /\ tv \in Int /\ va \in Int /\ Total(v, d + 1) = tv + va
            /\ tw \in Int /\ wa \in Int /\ Total(w, d + 1) = tw + wa
        <5> HIDE DEF d
        <5>1. QED
          BY <1>3, <4>1, TotalNext
      <4>3. p0[d] = <<2 * x + tv, 2 * y + tw>> /\ p0[a] = <<2 * x + (tv + va), 2 * y + (tw + wa)>>
        BY <4>1, <4>2
      <4>4. /\ Item("g", d, wins[n].g[i][d]) = <<va, 0>>
            /\ Item("h", d, wins[n].h[i][d]) = <<0, wa>>
        BY <1>5, <4>1
      <4> HIDE DEF tv, tw, va, wa, p0, d
      <4>5. CombMul(CombMul(<<2 * x + tv, 2 * y + tw>>, <<va, 0>>), <<0, wa>>)
              = <<((2 * x + tv) + va) + 0, ((2 * y + tw) + 0) + wa>>
        BY DEF CombMul
      <4>6. ((2 * x + tv) + va) + 0 = 2 * x + (tv + va) /\ ((2 * y + tw) + 0) + wa = 2 * y + (tw + wa)
        BY <1>3, <4>2
      <4>7. p0[a] = CombMul(CombMul(p0[d], Item("g", d, wins[n].g[i][d])),
                            Item("h", d, wins[n].h[i][d]))
        BY <4>3, <4>4, <4>5, <4>6
      <4>8. QED
        BY <3>2, <4>7 DEF d
    <3>3. QED
      BY <3>1, <3>2
  <2> DEFINE At(a) == IF a = 0 THEN first
                      ELSE CombMul(CombMul(p0[a - 1], Item("g", a - 1, wins[n].g[i][a - 1])),
                                   Item("h", a - 1, wins[n].h[i][a - 1]))
  <2>3. \A a \in 0..A : p0[a] = At(a)
    BY <2>2
  <2>4. p0 = [a \in 0..A |-> p0[a]]
    OBVIOUS
  <2> HIDE DEF At, p0
  <2>5. p0 = [a \in 0..A |-> At(a)]
    BY <2>3, <2>4
  <2>6. QED
    BY <2>5 DEF ProductFor, At, A, c
<1> HIDE DEF p0
<1>8. ProductFor(first, p)
  BY <1>7
<1> HIDE DEF p
<1>9. p[0] = first /\ \A a \in 1..A : p[a] = CombMul(CombMul(p[a - 1], <<v[a - 1], 0>>), <<0, w[a - 1]>>)
  <2> DEFINE At(a) == IF a = 0 THEN first
                      ELSE CombMul(CombMul(p[a - 1], Item("g", a - 1, wins[n].g[i][a - 1])),
                                   Item("h", a - 1, wins[n].h[i][a - 1]))
             q == [a \in 0..A |-> At(a)]
  <2>1. p = q
    BY <1>8 DEF ProductFor, A, c
  <2>2. \A a \in 0..A : p[a] = At(a)
    <3>1. \A a \in 0..A : q[a] = At(a)
      OBVIOUS
    <3> HIDE DEF q, At
    <3>2. QED
      BY <2>1, <3>1
  <2> HIDE DEF q
  <2>3. ASSUME NEW a \in 1..A
        PROVE  p[a] = CombMul(CombMul(p[a - 1], <<v[a - 1], 0>>), <<0, w[a - 1]>>)
    <3>1. a \in 0..A /\ a # 0
      BY <1>2
    <3>2. At(a) = CombMul(CombMul(p[a - 1], <<v[a - 1], 0>>), <<0, w[a - 1]>>)
      BY <1>5, <3>1
    <3> HIDE DEF At
    <3>3. QED
      BY <2>2, <3>1, <3>2
  <2>4. 0 \in 0..A /\ At(0) = first
    BY <1>2
  <2> HIDE DEF At
  <2>5. QED
    BY <2>2, <2>3, <2>4
<1>10. 2 * x \in Int /\ 2 * y \in Int /\ A \in Nat
  BY <1>2, <1>3
<1> DEFINE x2 == 2 * x
           y2 == 2 * y
<1>11. p[A] = <<x2 + Total(v, A), y2 + Total(w, A)>>
  <2>1. x2 \in Int /\ y2 \in Int /\ p[0] = <<x2, y2>>
    BY <1>4, <1>9, <1>10
  <2> HIDE DEF x2, y2, A
  <2>2. v \in Lists
    BY <1>3
  <2>3. w \in Lists
    BY <1>3
  <2>4. A \in Nat
    BY <1>10
  <2>5. \A a \in 1..A : p[a] = CombMul(CombMul(p[a - 1], <<v[a - 1], 0>>), <<0, w[a - 1]>>)
    BY <1>9
  <2>6. QED
    BY <2>1, <2>2, <2>3, <2>4, <2>5, ProductIs
<1>12. QED
  BY <1>3, <1>6, <1>11 DEF c

------------------------------------------------------------------------------
(* powgh: from the recoding to the product.                                *)

(* An exponent fits a comb when its bits do.                               *)
LEMMA HoldsIs ==
  ASSUME NEW x \in Exponents, NEW l \in DOMAIN Shapes
  PROVE  BitLen(x) <= Bits(Shapes[l]) <=> Abs(x) < 2^Bits(Shapes[l])
<1> DEFINE m == BitLen(x)
           B == Bits(Shapes[l])
<1>1. x \in Int /\ Abs(x) \in Nat
  BY CombAssumption DEF Abs
<1>2. m \in Nat /\ IsBitLen(x, m) /\ Doubling(m)
  <2>1. (\E k \in 0..Abs(x) : IsBitLen(x, k)) /\ Doubling(BitLen(x))
    BY DoublingAssumption
  <2>2. m \in 0..Abs(x) /\ IsBitLen(x, m)
    BY <2>1 DEF BitLen
  <2>3. QED
    BY <1>1, <2>1, <2>2
<1>3. B \in Nat /\ Doubling(B)
  BY ShapeIs DEF CombShapes
<1> HIDE DEF m, B
<1>4. CASE m <= B
  <2>1. m \in 0..B /\ B \in 0..B
    BY <1>2, <1>3, <1>4
  <2>2. 2^m <= 2^B /\ 2^m \in Nat /\ 2^B \in Nat
    BY <1>3, <2>1, PowersOrder
  <2>3. Abs(x) < 2^m
    BY <1>2 DEF IsBitLen
  <2>4. QED
    BY <1>1, <1>4, <2>2, <2>3 DEF m, B
<1>5. CASE ~(m <= B)
  <2>1. m - 1 \in 0..m /\ B \in 0..(m - 1) /\ m > 0
    BY <1>2, <1>3, <1>5
  <2>2. 2^B <= 2^(m - 1) /\ 2^(m - 1) \in Nat /\ 2^B \in Nat
    BY <1>2, <2>1, PowersOrder
  <2>3. Abs(x) >= 2^(m - 1)
    BY <1>2, <2>1 DEF IsBitLen
  <2>4. QED
    BY <1>1, <1>5, <2>2, <2>3 DEF m, B
<1>6. QED
  BY <1>4, <1>5

LEMMA FitsIs ==
  ASSUME NEW x \in Exponents, NEW y \in Exponents, NEW l \in DOMAIN Shapes
  PROVE  {x, y} \subseteq 0..(2^Bits(Shapes[l]) - 1) <=> x \in Nat /\ y \in Nat /\ Holds(l, x, y)
<1> DEFINE B == 2^Bits(Shapes[l])
<1>1. x \in Int /\ y \in Int
  BY CombAssumption
<1>2. B \in Nat
  <2>1. Bits(Shapes[l]) \in Nat /\ Doubling(Bits(Shapes[l]))
    BY ShapeIs DEF CombShapes
  <2>2. Bits(Shapes[l]) \in 0..Bits(Shapes[l])
    BY <2>1
  <2>3. QED
    BY <2>1, <2>2, PowersOrder
<1>3. Holds(l, x, y) <=> Abs(x) < B /\ Abs(y) < B
  BY HoldsIs DEF Holds
<1> HIDE DEF B
<1>4. x \in 0..(B - 1) /\ y \in 0..(B - 1) <=> x \in Nat /\ y \in Nat /\ Holds(l, x, y)
  BY <1>1, <1>2, <1>3 DEF Abs
<1>5. QED
  BY <1>4 DEF B

Rows(c) == [0..(c.shifts - 1) -> [0..(c.adds_per_shift - 1) -> Nat]]

WinsTyped ==
  /\ wins = [m \in DOMAIN Shapes |-> wins[m]]
  /\ \A m \in DOMAIN Shapes : wins[m] \in [g : Rows(Shapes[m]), h : Rows(Shapes[m])]

(* The invariant.  While a comb is being recoded, its windows beyond turn  *)
(* i are those of the exponent, whatever the last call left there; g is    *)
(* done before h.  In the product, ret has the top i bits of every part.   *)
Chosen ==
  /\ n \in DOMAIN Shapes /\ Holds(n, e1, e2)
  /\ e1 \in Exponents /\ e2 \in Exponents
  /\ combOk = FALSE

RecodeInv ==
  combPc = "recode" =>
    /\ Chosen
    /\ base \in {"g", "h"} /\ i \in (-1)..(Shape.adds_per_shift - 1)
    /\ i < Shape.adds_per_shift - 1 => Exponent \in Nat
    /\ WindowsDone(base, Exponent, i)
    /\ base = "h" => e1 \in Nat /\ WindowsDone("g", e1, -1)

EvalInv ==
  combPc = "eval" =>
    /\ Chosen
    /\ e1 \in Nat /\ e2 \in Nat /\ i \in 0..Shape.shifts
    /\ WindowsDone("g", e1, -1) /\ WindowsDone("h", e2, -1)
    /\ ret = <<Gathered(Shape, e1, i), Gathered(Shape, e2, i)>>

SetUp == combPc # "setup" => TablesOk /\ WinsTyped

CombInv == SetUp /\ RecodeInv /\ EvalInv /\ ProductIsExact

LEMMA InitCombInv == PowGHInit => CombInv
  BY DEF PowGHInit, CombInv, SetUp, RecodeInv, EvalInv, ProductIsExact

LEMMA CleansedIs ==
  \A m \in DOMAIN Shapes : Cleansed[m] \in [g : Rows(Shapes[m]), h : Rows(Shapes[m])]
  BY DEF Cleansed, NoWindows, Rows

LEMMA CombInitOk == CombInv /\ CombInit => CombInv'
<1> SUFFICES ASSUME CombInv, CombInit PROVE CombInv'
  OBVIOUS
<1>1. combPc' = "idle"
  BY DEF CombInit
<1>2. TablesOk'
  BY DEF CombInit, TablesOk
<1>3. WinsTyped'
  <2>1. wins' = Cleansed /\ Cleansed = [m \in DOMAIN Shapes |-> Cleansed[m]]
    BY DEF CombInit, Cleansed
  <2>2. QED
    BY <2>1, CleansedIs DEF WinsTyped
<1>4. QED
  BY <1>1, <1>2, <1>3 DEF CombInv, SetUp, RecodeInv, EvalInv, ProductIsExact

LEMMA PowGHOk ==
  ASSUME CombInv, NEW x \in Exponents, NEW y \in Exponents, PowGH(x, y)
  PROVE  CombInv'
<1>1. combPc = "idle" /\ e1' = x /\ e2' = y /\ combOk' = FALSE /\ items' = items /\ wins' = wins
  BY DEF PowGH
<1>2. TablesOk' /\ WinsTyped'
  BY <1>1 DEF CombInv, SetUp, TablesOk, WinsTyped
<1>3. CASE /\ \E m \in DOMAIN Shapes : Holds(m, x, y) /\ n' = m
           /\ combPc' = "recode" /\ base' = "g" /\ i' = Shapes[n'].adds_per_shift - 1
  <2>1. Chosen'
    BY <1>1, <1>3 DEF Chosen, Holds
  <2>2. n' \in DOMAIN Shapes
    BY <1>3
  <2>3. Shape' \in CombShapes /\ Shape' = Shapes[n']
    BY <2>2 DEF CombShapes, Shape
  <2>4. Shape'.adds_per_shift \in Nat \ {0}
    BY <2>3, ShapeIs
  <2>5. i' = Shape'.adds_per_shift - 1 /\ base' = "g"
    BY <1>3, <2>3
  <2>6. i' \in (-1)..(Shape'.adds_per_shift - 1) /\ ~(i' < Shape'.adds_per_shift - 1)
    BY <2>4, <2>5
  <2>7. WindowsDone(base, Exponent, i)'
    <3>1. Shape'.adds_per_shift - 1 - i' = 0
      BY <2>4, <2>5
    <3>2. \A a \in 0..(Shape'.adds_per_shift - 1) : ~(a < Shape'.adds_per_shift - 1 - i')
      BY <3>1
    <3>3. QED
      BY <3>2 DEF WindowsDone, WindowsAre
  <2>8. RecodeInv'
    BY <2>1, <2>5, <2>6, <2>7 DEF RecodeInv
  <2>9. QED
    BY <1>2, <1>3, <2>8 DEF CombInv, SetUp, EvalInv, ProductIsExact
<1>4. CASE (\A m \in DOMAIN Shapes : ~Holds(m, x, y)) /\ combPc' = "done"
  <2>1. ~\E m \in DOMAIN Shapes : {x, y} \subseteq 0..(2^Bits(Shapes[m]) - 1)
    BY <1>4, FitsIs
  <2>2. ProductIsExact'
    BY <1>1, <2>1 DEF ProductIsExact
  <2>3. QED
    BY <1>2, <1>4, <2>2 DEF CombInv, SetUp, RecodeInv, EvalInv
<1>5. QED
  BY <1>3, <1>4 DEF PowGH

LEMMA RefusesOk == CombInv /\ RecodeRefuses => CombInv'
<1> SUFFICES ASSUME CombInv, RecodeRefuses PROVE CombInv'
  OBVIOUS
<1>1. /\ combPc = "recode" /\ combPc' = "done"
      /\ UNCHANGED <<items, wins, e1, e2, n, base, i, ret, combOk>>
  BY DEF RecodeRefuses
<1>2. Chosen /\ base \in {"g", "h"}
  BY <1>1 DEF CombInv, RecodeInv
<1>3. BitLen(Exponent) <= Bits(Shape)
  BY <1>2 DEF Chosen, Holds, Shape, Exponent
<1>4. Exponent < 0
  <2>1. Exponent \in Exponents /\ n \in DOMAIN Shapes
    BY <1>2 DEF Chosen, Exponent
  <2>2. BitLen(Exponent) \in Nat
    <3>1. Exponent \in Int /\ \E m \in 0..Abs(Exponent) : IsBitLen(Exponent, m)
      BY <2>1, CombAssumption, DoublingAssumption
    <3>2. BitLen(Exponent) \in 0..Abs(Exponent) /\ Abs(Exponent) \in Nat
      BY <3>1 DEF BitLen, Abs
    <3>3. QED
      BY <3>2
  <2>3. Bits(Shape) \in Nat
    BY <2>1, ShapeIs DEF CombShapes, Shape
  <2>4. ~(BitLen(Exponent) > Bits(Shape))
    BY <1>3, <2>2, <2>3
  <2>5. QED
    BY <2>4 DEF RecodeRefuses
<1>5. ~(e1 \in Nat /\ e2 \in Nat)
  BY <1>4 DEF Exponent
<1>6. ~\E m \in DOMAIN Shapes : {e1, e2} \subseteq 0..(2^Bits(Shapes[m]) - 1)
  BY <1>2, <1>5, FitsIs DEF Chosen
<1>7. ProductIsExact'
  BY <1>1, <1>2, <1>6 DEF ProductIsExact, Chosen
<1>8. TablesOk' /\ WinsTyped'
  BY <1>1 DEF CombInv, SetUp, TablesOk, WinsTyped
<1>9. QED
  BY <1>1, <1>7, <1>8 DEF CombInv, SetUp, RecodeInv, EvalInv

(* A turn of the recoding writes one column of the windows, and no other.  *)
LEMMA RecodeTurn ==
  ASSUME CombInv, Recode
  PROVE  /\ WinsTyped'
         /\ WindowsDone(base, Exponent, i)'
         /\ base = "h" /\ WindowsDone("g", e1, -1) => WindowsDone("g", e1, -1)'
<1> DEFINE c == Shape
           A == c.adds_per_shift
           S == c.shifts
           w == wins[n][base]
           col == (A - 1) - i
           new == [j \in 0..(S - 1) |-> [w[j] EXCEPT ![col] = Window(Exponent, i, j)]]
<1>1. /\ combPc = "recode" /\ i >= 0 /\ Exponent >= 0 /\ wins' = [wins EXCEPT ![n][base] = new]
      /\ UNCHANGED <<combPc, items, e1, e2, n, base>>
  BY DEF Recode
<1>2. /\ n \in DOMAIN Shapes /\ base \in {"g", "h"} /\ Exponent \in Nat
      /\ i \in (-1)..(A - 1) /\ WindowsDone(base, Exponent, i) /\ WinsTyped
  <2>1. Exponent \in Int
    BY <1>1, CombAssumption DEF CombInv, RecodeInv, Chosen, Exponent
  <2>2. QED
    BY <1>1, <2>1 DEF CombInv, RecodeInv, Chosen, SetUp
<1>3. c \in CombShapes /\ c = Shapes[n]
  BY <1>2 DEF CombShapes, Shape
<1>4. A \in Nat \ {0} /\ S \in Nat \ {0} /\ i \in 0..(A - 1) /\ col \in 0..(A - 1) /\ A - 1 - col = i
  <2>1. A \in Nat \ {0} /\ S \in Nat \ {0}
    BY <1>3, ShapeIs
  <2>2. QED
    BY <1>1, <1>2, <2>1
<1>5. wins[n] \in [g : Rows(c), h : Rows(c)] /\ w \in Rows(c)
  BY <1>2, <1>3 DEF WinsTyped
<1>6. \A j \in 0..(S - 1) : Window(Exponent, i, j) \in Nat
  <2> HIDE DEF c
  <2>1. ASSUME NEW j \in 0..(S - 1) PROVE Window(Exponent, i, j) \in Nat
    <3>1. Window(Exponent, i, j) \in Windows(c)
      BY <1>2, <1>3, <1>4, WindowIs DEF c
    <3>2. 2^c.points_per_add \in Nat
      BY <1>3, PointsFit
    <3>3. QED
      BY <3>1, <3>2 DEF Windows
  <2>2. QED
    BY <2>1
<1> HIDE DEF c, A, S, w, col
<1>7. \A j \in 0..(S - 1) : w[j] \in [0..(A - 1) -> Nat]
  BY <1>5 DEF Rows, A, S
<1>8. new \in Rows(c)
  BY <1>6, <1>7 DEF Rows, A, S
<1>9. \A j \in 0..(S - 1) : \A a \in 0..(A - 1) :
        new[j][a] = IF a = col THEN Window(Exponent, i, j) ELSE w[j][a]
  BY <1>4, <1>7
<1> HIDE DEF new
<1>10. wins' = [wins EXCEPT ![n] = [wins[n] EXCEPT ![base] = new]]
  BY <1>1
<1>11. n \in DOMAIN wins /\ DOMAIN wins = DOMAIN Shapes
  BY <1>2 DEF WinsTyped
<1>12. /\ wins' = [m \in DOMAIN Shapes |-> wins'[m]]
       /\ \A m \in DOMAIN Shapes : m # n => wins'[m] = wins[m]
       /\ wins'[n] = [wins[n] EXCEPT ![base] = new]
  BY <1>2, <1>10, <1>11 DEF WinsTyped
<1>13. /\ wins'[n] \in [g : Rows(c), h : Rows(c)]
       /\ wins'[n][base] = new
       /\ base = "h" => wins'[n]["g"] = wins[n]["g"]
  BY <1>2, <1>5, <1>8, <1>12
<1>14. WinsTyped'
  BY <1>2, <1>3, <1>12, <1>13 DEF WinsTyped
<1>15. n' = n /\ base' = base /\ Exponent' = Exponent /\ e1' = e1
  BY <1>1 DEF Exponent
<1>16. Shape' = Shape
  BY <1>15 DEF Shape
<1>17. ASSUME NEW j \in 0..(S - 1), NEW a \in 0..(A - 1), a < A - 1 - (i - 1)
       PROVE  new[j][a] = WindowOf(c, Exponent, A - 1 - a, j)
  <2>1. CASE a = col
    <3>1. new[j][a] = Window(Exponent, i, j)
      BY <1>9, <2>1
    <3>2. A - 1 - a = i
      BY <1>4, <2>1
    <3>3. QED
      BY <3>1, <3>2, WindowOfShape DEF c
  <2>2. CASE a # col
    <3>1. a < A - 1 - i
      BY <1>4, <1>17, <2>2 DEF col
    <3>2. w[j][a] = WindowOf(c, Exponent, A - 1 - a, j)
      BY <1>2, <3>1 DEF WindowsDone, WindowsAre, A, S, c, w
    <3>3. QED
      BY <1>9, <2>2, <3>2
  <2>3. QED
    BY <2>1, <2>2
<1>18. WindowsDone(base, Exponent, i)'
  <2>1. i' = i - 1
    BY DEF Recode
  <2>2. WindowsAre(c, new, Exponent, i')
    BY <1>17, <2>1 DEF WindowsAre, A, S
  <2>3. QED
    BY <1>13, <1>15, <1>16, <2>2 DEF WindowsDone, c
<1>19. ASSUME base = "h", WindowsDone("g", e1, -1)
       PROVE  WindowsDone("g", e1, -1)'
  BY <1>13, <1>15, <1>16, <1>19 DEF WindowsDone
<1>20. QED
  BY <1>14, <1>18, <1>19

LEMMA RecodeOk == CombInv /\ Recode => CombInv'
<1> SUFFICES ASSUME CombInv, Recode PROVE CombInv'
  OBVIOUS
<1>1. /\ combPc = "recode" /\ i >= 0 /\ Exponent >= 0 /\ i' = i - 1
      /\ UNCHANGED <<combPc, items, e1, e2, n, base, ret, combOk>>
  BY DEF Recode
<1>2. /\ Chosen /\ base \in {"g", "h"} /\ i \in (-1)..(Shape.adds_per_shift - 1)
      /\ base = "h" => e1 \in Nat /\ WindowsDone("g", e1, -1)
      /\ TablesOk
  BY <1>1 DEF CombInv, SetUp, RecodeInv
<1>3. /\ WinsTyped' /\ WindowsDone(base, Exponent, i)'
      /\ base = "h" => WindowsDone("g", e1, -1)'
  BY <1>2, RecodeTurn
<1>4. Chosen' /\ TablesOk' /\ Shape' = Shape /\ Exponent' = Exponent
  BY <1>1, <1>2 DEF Chosen, Holds, TablesOk, Shape, Exponent
<1>5. Exponent \in Nat
  BY <1>1, <1>2, CombAssumption DEF Chosen, Exponent
<1>6. i' \in (-1)..(Shape.adds_per_shift - 1)
  <2>1. Shape.adds_per_shift \in Nat
    BY <1>2, ShapeIs DEF Chosen, CombShapes, Shape
  <2>2. QED
    BY <1>1, <1>2, <2>1
<1>7. RecodeInv'
  BY <1>1, <1>2, <1>3, <1>4, <1>5, <1>6 DEF RecodeInv
<1>8. QED
  BY <1>1, <1>3, <1>4, <1>7 DEF CombInv, SetUp, EvalInv, ProductIsExact

(* When all columns of a comb are recoded, its exponent was not negative.  *)
LEMMA RecodeDone ==
  ASSUME CombInv, combPc = "recode", i < 0
  PROVE  i = -1 /\ Exponent \in Nat /\ WindowsDone(base, Exponent, -1)
<1>1. i \in (-1)..(Shape.adds_per_shift - 1) /\ n \in DOMAIN Shapes
  BY DEF CombInv, RecodeInv, Chosen
<1>2. Shape.adds_per_shift \in Nat \ {0}
  BY <1>1, ShapeIs DEF CombShapes, Shape
<1>3. i = -1 /\ i < Shape.adds_per_shift - 1
  BY <1>1, <1>2
<1>4. QED
  BY <1>3 DEF CombInv, RecodeInv

LEMMA NextBaseOk == CombInv /\ NextBase => CombInv'
<1> SUFFICES ASSUME CombInv, NextBase PROVE CombInv'
  OBVIOUS
<1>1. /\ combPc = "recode" /\ i < 0 /\ base = "g" /\ base' = "h"
      /\ i' = Shape.adds_per_shift - 1
      /\ UNCHANGED <<combPc, items, wins, e1, e2, n, ret, combOk>>
  BY DEF NextBase
<1>2. Chosen /\ TablesOk /\ WinsTyped
  BY <1>1 DEF CombInv, SetUp, RecodeInv
<1>3. e1 \in Nat /\ WindowsDone("g", e1, -1)
  BY <1>1, RecodeDone DEF Exponent
<1>4. Chosen' /\ TablesOk' /\ WinsTyped' /\ Shape' = Shape
  BY <1>1, <1>2 DEF Chosen, Holds, TablesOk, WinsTyped, Shape
<1>5. WindowsDone("g", e1, -1)'
  BY <1>1, <1>3, <1>4 DEF WindowsDone
<1>6. /\ i' \in (-1)..(Shape'.adds_per_shift - 1) /\ ~(i' < Shape'.adds_per_shift - 1)
      /\ WindowsDone(base, Exponent, i)'
  <2>1. Shape'.adds_per_shift \in Nat \ {0} /\ i' = Shape'.adds_per_shift - 1
    BY <1>1, <1>2, <1>4, ShapeIs DEF Chosen, CombShapes, Shape
  <2>2. \A a \in 0..(Shape'.adds_per_shift - 1) : ~(a < Shape'.adds_per_shift - 1 - i')
    BY <2>1
  <2>3. QED
    BY <2>1, <2>2 DEF WindowsDone, WindowsAre
<1>7. RecodeInv'
  BY <1>1, <1>3, <1>4, <1>5, <1>6 DEF RecodeInv
<1>8. QED
  BY <1>1, <1>4, <1>7 DEF CombInv, SetUp, EvalInv, ProductIsExact

LEMMA RecodedOk == CombInv /\ Recoded => CombInv'
<1> SUFFICES ASSUME CombInv, Recoded PROVE CombInv'
  OBVIOUS
<1>1. /\ combPc = "recode" /\ i < 0 /\ base = "h" /\ combPc' = "eval" /\ i' = 0 /\ ret' = One
      /\ UNCHANGED <<items, wins, e1, e2, n, base, combOk>>
  BY DEF Recoded
<1>2. Chosen /\ TablesOk /\ WinsTyped /\ e1 \in Nat /\ WindowsDone("g", e1, -1)
  BY <1>1 DEF CombInv, SetUp, RecodeInv
<1>3. e2 \in Nat /\ WindowsDone("h", e2, -1)
  BY <1>1, RecodeDone DEF Exponent
<1>4. Chosen' /\ TablesOk' /\ WinsTyped' /\ Shape' = Shape
  BY <1>1, <1>2 DEF Chosen, Holds, TablesOk, WinsTyped, Shape
<1>5. WindowsDone("g", e1, -1)' /\ WindowsDone("h", e2, -1)'
  BY <1>1, <1>2, <1>3, <1>4 DEF WindowsDone
<1>6. Shape \in CombShapes /\ Shape.shifts \in Nat
  BY <1>2, ShapeIs DEF Chosen, CombShapes, Shape
<1>7. Gathered(Shape, e1, 0) = 0 /\ Gathered(Shape, e2, 0) = 0
  BY <1>2, <1>3, <1>6, GatherNone
<1>8. ret' = <<Gathered(Shape', e1', i'), Gathered(Shape', e2', i')>> /\ i' \in 0..Shape'.shifts
  BY <1>1, <1>4, <1>6, <1>7 DEF One
<1>9. EvalInv'
  BY <1>1, <1>2, <1>3, <1>4, <1>5, <1>8 DEF EvalInv, Gathered, GatheredBits, Chunk
<1>10. QED
  BY <1>1, <1>4, <1>9 DEF CombInv, SetUp, RecodeInv, ProductIsExact

LEMMA ShiftOk == CombInv /\ Shift => CombInv'
<1> SUFFICES ASSUME CombInv, Shift PROVE CombInv'
  OBVIOUS
<1>1. /\ combPc = "eval" /\ i < Shape.shifts /\ i' = i + 1
      /\ UNCHANGED <<combPc, items, wins, e1, e2, n, base, combOk>>
  BY DEF Shift
<1>2. /\ Chosen /\ TablesOk /\ WinsTyped /\ e1 \in Nat /\ e2 \in Nat /\ i \in 0..Shape.shifts
      /\ WindowsDone("g", e1, -1) /\ WindowsDone("h", e2, -1)
      /\ ret = <<Gathered(Shape, e1, i), Gathered(Shape, e2, i)>>
  BY <1>1 DEF CombInv, SetUp, EvalInv
<1>3. Shape.shifts \in Nat
  BY <1>2, ShapeIs DEF Chosen, CombShapes, Shape
<1>4. i \in 0..(Shape.shifts - 1) /\ i + 1 \in 0..Shape.shifts
  BY <1>1, <1>2, <1>3
<1>5. ret' = <<Gathered(Shape, e1, i + 1), Gathered(Shape, e2, i + 1)>>
  BY <1>2, <1>4, ShiftIs DEF Chosen
<1>6. Chosen' /\ TablesOk' /\ WinsTyped' /\ Shape' = Shape
  BY <1>1, <1>2 DEF Chosen, Holds, TablesOk, WinsTyped, Shape
<1>7. WindowsDone("g", e1, -1)' /\ WindowsDone("h", e2, -1)'
  BY <1>1, <1>2, <1>6 DEF WindowsDone
<1>8. ret' = <<Gathered(Shape', e1', i'), Gathered(Shape', e2', i')>>
  BY <1>1, <1>5, <1>6
<1>9. EvalInv'
  BY <1>1, <1>2, <1>4, <1>6, <1>7, <1>8 DEF EvalInv, Gathered, GatheredBits, Chunk
<1>10. QED
  BY <1>1, <1>6, <1>9 DEF CombInv, SetUp, RecodeInv, ProductIsExact

LEMMA ReturnOk == CombInv /\ PowGHReturn => CombInv'
<1> SUFFICES ASSUME CombInv, PowGHReturn PROVE CombInv'
  OBVIOUS
<1>1. /\ combPc = "eval" /\ i = Shape.shifts /\ combPc' = "done" /\ combOk' = TRUE
      /\ UNCHANGED <<items, wins, e1, e2, n, base, i, ret>>
  BY DEF PowGHReturn
<1>2. /\ Chosen /\ TablesOk /\ WinsTyped /\ e1 \in Nat /\ e2 \in Nat
      /\ ret = <<Gathered(Shape, e1, i), Gathered(Shape, e2, i)>>
  BY <1>1 DEF CombInv, SetUp, EvalInv
<1>3. n \in DOMAIN Shapes /\ Shape \in CombShapes /\ Shape = Shapes[n]
  BY <1>2 DEF Chosen, CombShapes, Shape
<1>4. {e1, e2} \subseteq 0..(2^Bits(Shapes[n]) - 1)
  BY <1>2, FitsIs DEF Chosen
<1>5. e1 < 2^Bits(Shape) /\ e2 < 2^Bits(Shape)
  <2>1. Abs(e1) < 2^Bits(Shapes[n]) /\ Abs(e2) < 2^Bits(Shapes[n])
    BY <1>2, HoldsIs DEF Chosen, Holds
  <2>2. Abs(e1) = e1 /\ Abs(e2) = e2
    BY <1>2 DEF Abs
  <2>3. QED
    BY <1>3, <2>1, <2>2
<1>6. ret = <<e1, e2>>
  BY <1>1, <1>2, <1>3, <1>5, GatherAll
<1>7. ProductIsExact'
  BY <1>1, <1>3, <1>4, <1>6 DEF ProductIsExact
<1>8. TablesOk' /\ WinsTyped'
  BY <1>1, <1>2 DEF TablesOk, WinsTyped
<1>9. QED
  BY <1>1, <1>7, <1>8 DEF CombInv, SetUp, RecodeInv, EvalInv

LEMMA AgainOk == CombInv /\ Again => CombInv'
<1> SUFFICES ASSUME CombInv, Again PROVE CombInv'
  OBVIOUS
<1>1. combPc = "done" /\ combPc' = "idle" /\ wins' \in {wins, Cleansed} /\ items' = items
  BY DEF Again
<1>2. TablesOk' /\ WinsTyped
  BY <1>1 DEF CombInv, SetUp, TablesOk
<1>3. WinsTyped'
  <2>1. CASE wins' = wins
    BY <1>2, <2>1 DEF WinsTyped
  <2>2. CASE wins' = Cleansed
    <3>1. Cleansed = [m \in DOMAIN Shapes |-> Cleansed[m]]
      BY DEF Cleansed
    <3>2. QED
      BY <2>2, <3>1, CleansedIs DEF WinsTyped
  <2>3. QED
    BY <1>1, <2>1, <2>2
<1>4. QED
  BY <1>1, <1>2, <1>3 DEF CombInv, SetUp, RecodeInv, EvalInv, ProductIsExact

LEMMA CombStutters == CombInv /\ UNCHANGED powGHVars => CombInv'
<1> SUFFICES ASSUME CombInv, UNCHANGED powGHVars PROVE CombInv'
  OBVIOUS
<1>1. UNCHANGED <<combPc, items, wins, e1, e2, n, base, i, ret, combOk>>
  BY DEF powGHVars
<1>2. Shape' = Shape /\ Exponent' = Exponent /\ (Chosen' <=> Chosen)
  BY <1>1 DEF Shape, Exponent, Chosen, Holds
<1>3. \A b, e, from : WindowsDone(b, e, from) => WindowsDone(b, e, from)'
  BY <1>1, <1>2 DEF WindowsDone
<1>4. SetUp'
  BY <1>1 DEF CombInv, SetUp, TablesOk, WinsTyped
<1>5. RecodeInv'
  BY <1>1, <1>2, <1>3 DEF CombInv, RecodeInv, WindowsDone
<1>6. EvalInv'
  BY <1>1, <1>2, <1>3 DEF CombInv, EvalInv, WindowsDone
<1>7. ProductIsExact'
  BY <1>1 DEF CombInv, ProductIsExact
<1>8. QED
  BY <1>4, <1>5, <1>6, <1>7 DEF CombInv

(* g^e1 * h^e2 is computed exactly for every group of combs, whichever     *)
(* comb is chosen and whatever the windows held before, and refused only   *)
(* when an exponent is negative or wider than every comb.                  *)
THEOREM ProductIsExactAlways == PowGHSpec => []ProductIsExact
<1>1. CombInv /\ [PowGHNext]_powGHVars => CombInv'
  BY CombInitOk, PowGHOk, RefusesOk, RecodeOk, NextBaseOk, RecodedOk, ShiftOk, ReturnOk,
     AgainOk, CombStutters DEF PowGHNext
<1>2. CombInv => ProductIsExact
  BY DEF CombInv
<1>3. QED
  BY InitCombInv, <1>1, <1>2, PTL DEF PowGHSpec

------------------------------------------------------------------------------
(* The widths of GooWidths, for every context, group and key.              *)

KeyRange == GOO_MIN_RSA_BITS..GOO_MAX_RSA_BITS

WidthsTyped ==
  /\ bits \in Nat
  /\ group \in Nat \ {0}
  /\ key \in Nat
  /\ step \in Nat
  /\ pc \in {"idle", "ready", "sign", "verify", "signed", "done", "failed"}
  /\ pc \in {"sign", "signed", "verify"} => key \in KeyRange
  /\ pc \in {"sign", "verify"} => step > 0

(* A comb as wide as group_init asks for, where sign may be called ...     *)
ProverComb ==
  pc \in {"ready", "sign", "signed"} /\ bits # 0 =>
    \E m \in DOMAIN combs : combs[m] \in Nat /\ combs[m] >= BigBits(bits, group)

(* ... and one for the exponents of verify.                                *)
VerifierComb ==
  pc \in {"ready", "sign", "signed", "verify"} =>
    \E m \in DOMAIN combs : combs[m] \in Nat /\ combs[m] >= GOO_ELL_BITS

WidthsInv == WidthsTyped /\ ProverComb /\ VerifierComb /\ WideEnough

USE DEF GOO_MIN_RSA_BITS, GOO_MAX_RSA_BITS, GOO_EXP_BITS, GOO_CHAL_BITS,
        GOO_ELL_BITS, PrimeBits

LEMMA CallCounts == Len(SignCalls) = 16 /\ Len(VerifyCalls) = 9
<1>1. \A a, b, c, d, e, f, g, h, j, k, l, m, o, p, q, r :
        Len(<<a, b, c, d, e, f, g, h, j, k, l, m, o, p, q, r>>) = 16
  OBVIOUS
<1>2. \A a, b, c, d, e, f, g, h, j : Len(<<a, b, c, d, e, f, g, h, j>>) = 9
  OBVIOUS
<1> QED
  BY <1>1, <1>2 DEF SignCalls, VerifyCalls

(* Every exponent of sign is below 2^BigBits for a key that the context    *)
(* supports, and E has at most 2048 bits.                                  *)
LEMMA SignWidths ==
  ASSUME bits \in Nat, group \in Nat \ {0}, key \in KeyRange, Supported,
         NEW l \in 1..Len(SignCalls)
  PROVE  /\ SignCalls[l].op = "powgh" => SignCalls[l].width <= BigBits(bits, group)
         /\ SignCalls[l].op = "hash" => SignCalls[l].width <= GOO_EXP_BITS
         /\ SignCalls[l].width \in Nat
<1> DEFINE Wide(c) == /\ c.op = "powgh" => c.width <= BigBits(bits, group)
                      /\ c.op = "hash" => c.width <= GOO_EXP_BITS
                      /\ c.width \in Nat
<1>1. /\ Scalar \in Nat /\ Scalar <= GOO_EXP_BITS
      /\ BigBits(bits, group) \in Nat /\ BigBits(bits, group) >= 2 * bits + 137
      /\ BigBits(bits, group) >= bits + group + 136
      /\ key \in Nat /\ key <= bits /\ key >= 1024
      /\ BigBits(bits, group) >= key + 2042
  BY DEF Scalar, BigBits, Larger, RandBits, Supported, KeyRange
<1>2. Wide(Powgh(key, ExpandedS)) /\ Wide(Powgh(key, Scalar))
  BY <1>1 DEF Powgh, ExpandedS, Larger
<1>3. Wide(Powgh(Scalar, Scalar)) /\ Wide(Pow(Scalar)) /\ Wide(Hash(EBits))
  BY <1>1 DEF Powgh, Pow, Hash, EBits, Larger
<1>4. Wide(Powgh(Quotient(ZW), Quotient(ZS1))) /\ Wide(Pow(Quotient(ZW)))
  BY <1>1 DEF Powgh, Pow, Quotient, ZW, ZS1, Sum, Larger
<1>5. Wide(Powgh(Quotient(ZA), Quotient(ZS2))) /\ Wide(Pow(Quotient(ZA)))
  BY <1>1 DEF Powgh, Pow, Quotient, ZA, ZS2, Sum, Larger
<1>6. Wide(Powgh(Quotient(ZW2), Quotient(ZS1W)))
  BY <1>1 DEF Powgh, Quotient, ZW2, ZS1W, Sum, Larger
<1>7. Wide(Powgh(Quotient(ZAN), Quotient(ZSA)))
  BY <1>1 DEF Powgh, Quotient, ZAN, ZSA, Sum, Larger, ExpandedS
<1> HIDE DEF Wide
<1>8. Wide(SignCalls[l])
  BY <1>2, <1>3, <1>4, <1>5, <1>6, <1>7 DEF SignCalls
<1> QED
  BY <1>8 DEF Wide

(* Every exponent of verify has at most 136 bits, and E at most 2048.      *)
LEMMA VerifyWidths ==
  ASSUME group \in Nat \ {0}, NEW l \in 1..Len(VerifyCalls)
  PROVE  /\ VerifyCalls[l].op = "powgh" => VerifyCalls[l].width <= GOO_ELL_BITS
         /\ VerifyCalls[l].op = "pow2" => VerifyCalls[l].width <= GOO_ELL_BITS
         /\ VerifyCalls[l].op = "hash" => VerifyCalls[l].width <= GOO_EXP_BITS
         /\ VerifyCalls[l].op # "pow"
         /\ VerifyCalls[l].width \in Nat
<1>1. Scalar \in Nat /\ Scalar <= GOO_EXP_BITS
  BY DEF Scalar, RandBits
<1> QED
  BY <1>1 DEF VerifyCalls, Powgh, Pow2, Hash, EBits, Larger

LEMMA SignHasNoPow2 == \A l \in 1..Len(SignCalls) : SignCalls[l].op # "pow2"
<1> DEFINE Other(c) == c.op # "pow2"
<1>1. \A x, y : Other(Powgh(x, y)) /\ Other(Pow(x)) /\ Other(Hash(x))
  BY DEF Powgh, Pow, Hash
<1> HIDE DEF Other
<1>2. \A l \in 1..Len(SignCalls) : Other(SignCalls[l])
  BY <1>1, CallCounts DEF SignCalls
<1> QED
  BY <1>2 DEF Other

LEMMA InitWidthsInv == Init => WidthsInv
  BY DEF Init, WidthsInv, WidthsTyped, ProverComb, VerifierComb, WideEnough

LEMMA NextWidthsInv == WidthsInv /\ [Next]_vars => WidthsInv'
<1> SUFFICES ASSUME WidthsInv, [Next]_vars PROVE WidthsInv'
  OBVIOUS
<1> USE DEF WidthsInv
<1>1. ASSUME NEW b \in ContextBits, NEW g \in GroupBits, CreateProver(b, g) PROVE WidthsInv'
  <2>1. PICK small \in Roundings, big \in Roundings :
          combs' = <<RandBits(g) + small, BigBits(b, g) + big>>
    BY <1>1 DEF CreateProver
  <2>2. /\ b \in Nat /\ g \in Nat \ {0} /\ big \in Nat
        /\ BigBits(b, g) \in Nat /\ BigBits(b, g) >= GOO_ELL_BITS
    BY WidthsAssumption DEF BigBits, Larger, RandBits
  <2>3. 2 \in DOMAIN combs' /\ combs'[2] = BigBits(b, g) + big
    BY <2>1
  <2>4. /\ combs'[2] \in Nat /\ combs'[2] >= BigBits(b, g) /\ combs'[2] >= GOO_ELL_BITS
    BY <2>2, <2>3
  <2>5. bits' = b /\ group' = g /\ pc' = "ready" /\ key' = key /\ step' = step
    BY <1>1 DEF CreateProver
  <2>6. WidthsTyped' /\ WideEnough'
    BY <2>2, <2>5 DEF WidthsTyped, WideEnough
  <2>7. BigBits(b, g) = BigBits(bits, group)'
    BY <2>5 DEF BigBits, Larger, RandBits
  <2>8. ProverComb' /\ VerifierComb'
    BY <2>3, <2>4, <2>5, <2>7 DEF ProverComb, VerifierComb
  <2> QED BY <2>6, <2>8
<1>2. ASSUME NEW g \in GroupBits, CreateVerifier(g) PROVE WidthsInv'
  <2>1. PICK tiny \in Roundings : combs' = <<GOO_ELL_BITS + tiny>>
    BY <1>2 DEF CreateVerifier
  <2>2. 1 \in DOMAIN combs' /\ combs'[1] \in Nat /\ combs'[1] >= GOO_ELL_BITS
    BY <2>1, WidthsAssumption
  <2> QED
    BY <1>2, <2>2, WidthsAssumption
    DEF CreateVerifier, WidthsTyped, ProverComb, VerifierComb, WideEnough
<1>3. ASSUME NEW k \in KeyBits, Sign(k) PROVE WidthsInv'
  <2>1. k \in KeyRange /\ k \in Nat
    BY WidthsAssumption DEF KeyRange
  <2>2. WidthsTyped' /\ WideEnough'
    BY <1>3, <2>1 DEF Sign, WidthsTyped, WideEnough
  <2>3. BigBits(bits, group)' = BigBits(bits, group)
    BY <1>3 DEF Sign, BigBits, Larger, RandBits
  <2>4. ProverComb' /\ VerifierComb'
    BY <1>3, <2>3 DEF Sign, ProverComb, VerifierComb
  <2> QED BY <2>2, <2>4
<1>4. ASSUME SignCall PROVE WidthsInv'
  <2>1. /\ pc = "sign" /\ UNCHANGED <<bits, group, combs, key>>
        /\ \/ pc' = "signed" /\ step' = step
           \/ pc' = "sign" /\ step' = step + 1
           \/ pc' = "failed" /\ step' = step /\ step <= Len(SignCalls) /\ ~Fits(SignCalls[step])
    BY <1>4, CallCounts DEF SignCall, Run, WidthsTyped
  <2>2. WidthsTyped'
    BY <2>1 DEF WidthsTyped
  <2>3. BigBits(bits, group)' = BigBits(bits, group) /\ (Supported' <=> Supported)
    BY <2>1 DEF BigBits, Larger, RandBits, Supported
  <2>4. ProverComb' /\ VerifierComb'
    BY <2>1, <2>3 DEF ProverComb, VerifierComb
  <2>5. ASSUME pc' = "failed", Supported PROVE FALSE
    <3>1. step \in 1..Len(SignCalls) /\ ~Fits(SignCalls[step])
      BY <2>1, <2>5, CallCounts DEF WidthsTyped
    <3>2. bits \in Nat /\ group \in Nat \ {0} /\ key \in KeyRange
      BY <2>1 DEF WidthsTyped
    <3>3. /\ SignCalls[step].op = "powgh" => SignCalls[step].width <= BigBits(bits, group)
          /\ SignCalls[step].op = "hash" => SignCalls[step].width <= GOO_EXP_BITS
          /\ SignCalls[step].width \in Nat
      BY <2>5, <3>1, <3>2, SignWidths
    <3>4. bits # 0
      BY <2>5, <3>2 DEF Supported, KeyRange
    <3>5. PICK m \in DOMAIN combs : combs[m] \in Nat /\ combs[m] >= BigBits(bits, group)
      BY <2>1, <3>4 DEF ProverComb
    <3>6. BigBits(bits, group) \in Nat
      BY <3>2 DEF BigBits, Larger, RandBits
    <3> DEFINE c == SignCalls[step]
    <3>7. c.op = "powgh" => c.width <= combs[m]
      BY <3>3, <3>5, <3>6
    <3>8. c.op # "pow2"
      BY <3>1, SignHasNoPow2
    <3> HIDE DEF c
    <3> QED
      BY <3>1, <3>3, <3>7, <3>8 DEF Fits, c
  <2> QED
    BY <2>2, <2>3, <2>4, <2>5 DEF WideEnough
<1>5. ASSUME Verify PROVE WidthsInv'
  <2>1. WidthsTyped' /\ WideEnough'
    BY <1>5 DEF Verify, WidthsTyped, WideEnough
  <2>2. VerifierComb' /\ ProverComb'
    <3>1. CASE combs' = combs
      BY <1>5, <3>1 DEF Verify, VerifierComb, ProverComb
    <3>2. CASE combs' = <<GOO_ELL_BITS>>
      <4>1. 1 \in DOMAIN combs' /\ combs'[1] = GOO_ELL_BITS
        BY <3>2
      <4> QED BY <1>5, <4>1 DEF Verify, VerifierComb, ProverComb
    <3> QED BY <1>5, <3>1, <3>2 DEF Verify
  <2> QED BY <2>1, <2>2
<1>6. ASSUME VerifyCall PROVE WidthsInv'
  <2>1. /\ pc = "verify" /\ UNCHANGED <<bits, group, combs, key>>
        /\ \/ pc' = "done" /\ step' = step
           \/ pc' = "verify" /\ step' = step + 1
           \/ pc' = "failed" /\ step' = step /\ step <= Len(VerifyCalls) /\ ~Fits(VerifyCalls[step])
    BY <1>6, CallCounts DEF VerifyCall, Run, WidthsTyped
  <2>2. WidthsTyped'
    BY <2>1 DEF WidthsTyped
  <2>3. ProverComb' /\ VerifierComb'
    BY <2>1 DEF ProverComb, VerifierComb
  <2>4. ASSUME pc' = "failed" PROVE FALSE
    <3>1. step \in 1..Len(VerifyCalls) /\ ~Fits(VerifyCalls[step]) /\ group \in Nat \ {0}
      BY <2>1, <2>4, CallCounts DEF WidthsTyped
    <3>2. /\ VerifyCalls[step].op = "powgh" => VerifyCalls[step].width <= GOO_ELL_BITS
          /\ VerifyCalls[step].op = "pow2" => VerifyCalls[step].width <= GOO_ELL_BITS
          /\ VerifyCalls[step].op = "hash" => VerifyCalls[step].width <= GOO_EXP_BITS
          /\ VerifyCalls[step].width \in Nat
      BY <3>1, VerifyWidths
    <3>3. PICK m \in DOMAIN combs : combs[m] \in Nat /\ combs[m] >= GOO_ELL_BITS
      BY <2>1 DEF VerifierComb
    <3> DEFINE c == VerifyCalls[step]
    <3>4. c.op = "powgh" => c.width <= combs[m]
      BY <3>2, <3>3
    <3> HIDE DEF c
    <3> QED
      BY <3>1, <3>2, <3>4 DEF Fits, c
  <2> QED
    BY <2>2, <2>3, <2>4 DEF WideEnough
<1>7. CASE UNCHANGED vars
  BY <1>7 DEF vars, WidthsTyped, ProverComb, VerifierComb, WideEnough, Supported,
              BigBits, Larger, RandBits
<1> QED
  BY <1>1, <1>2, <1>3, <1>4, <1>5, <1>6, <1>7 DEF Next

LEMMA WidthsInvAlways == Spec => []WidthsInv
  BY InitWidthsInv, NextWidthsInv, PTL DEF Spec

(* sign and verify never lack a comb or room in the hash, for any group,   *)
(* any context and any key that the context supports.                      *)
THEOREM AlwaysWideEnough == Spec => []WideEnough
<1>1. WidthsInv => WideEnough
  BY DEF WidthsInv
<1> QED BY WidthsInvAlways, <1>1, PTL

(* No exponent overruns the arrays of the wNAF recoding.                   *)
THEOREM ArraysAlwaysHold == Spec => []ArraysHold
<1>1. WidthsInv => ArraysHold
  <2> SUFFICES ASSUME WidthsInv PROVE ArraysHold
    OBVIOUS
  <2>1. bits \in Nat /\ group \in Nat \ {0} /\ step \in Nat /\ key \in Nat
    BY DEF WidthsInv, WidthsTyped
  <2>2. Scalar \in Nat /\ Scalar <= GOO_EXP_BITS
    BY <2>1 DEF Scalar, RandBits
  <2>3. ASSUME pc = "sign", step <= Len(SignCalls), SignCalls[step].op = "pow"
        PROVE  SignCalls[step].width <= GOO_MAX_RSA_BITS
    <3>1. step \in 1..16 /\ key \in KeyRange
      BY <2>1, <2>3, CallCounts DEF WidthsInv, WidthsTyped
    <3>2. Scalar <= GOO_MAX_RSA_BITS
      BY <2>2
    <3>3. Quotient(ZW) <= GOO_MAX_RSA_BITS /\ Quotient(ZA) <= GOO_MAX_RSA_BITS
      BY <2>2, <3>1 DEF Quotient, ZW, ZA, Sum, Larger, KeyRange
    <3> QED
      BY <2>3, <3>1, <3>2, <3>3 DEF SignCalls, Powgh, Pow, Hash
  <2>4. ASSUME pc = "sign", step <= Len(SignCalls)
        PROVE  SignCalls[step].op # "pow2" /\ SignCalls[step].width \in Int
    <3>1. step \in 1..16 /\ key \in KeyRange
      BY <2>1, <2>4, CallCounts DEF WidthsInv, WidthsTyped
    <3>2. \A x, y \in Int : Larger(x, y) \in Int /\ Sum(x, y) \in Int /\ Quotient(x) \in Int
      BY DEF Larger, Sum, Quotient
    <3>3. /\ ZW \in Int /\ ZW2 \in Int /\ ZS1 \in Int /\ ZA \in Int /\ ZAN \in Int
          /\ ZS1W \in Int /\ ZSA \in Int /\ ZS2 \in Int /\ EBits \in Int
      BY <2>1, <2>2, <3>2 DEF ZW, ZW2, ZS1, ZA, ZAN, ZS1W, ZSA, ZS2, EBits, ExpandedS
    <3> DEFINE Plain(c) == c.op # "pow2" /\ c.width \in Int
    <3>4. \A x, y \in Int : Plain(Powgh(x, y)) /\ Plain(Pow(x)) /\ Plain(Hash(x))
      BY <3>2 DEF Powgh, Pow, Hash
    <3>5. /\ Scalar \in Int /\ ExpandedS \in Int /\ key \in Int /\ EBits \in Int
          /\ Quotient(ZW) \in Int /\ Quotient(ZW2) \in Int /\ Quotient(ZS1) \in Int
          /\ Quotient(ZA) \in Int /\ Quotient(ZAN) \in Int /\ Quotient(ZS1W) \in Int
          /\ Quotient(ZSA) \in Int /\ Quotient(ZS2) \in Int
      BY <2>1, <2>2, <3>2, <3>3 DEF ExpandedS
    <3> HIDE DEF Plain
    <3>6. /\ Plain(Powgh(key, ExpandedS)) /\ Plain(Powgh(key, Scalar))
          /\ Plain(Powgh(Scalar, Scalar)) /\ Plain(Pow(Scalar)) /\ Plain(Hash(EBits))
          /\ Plain(Powgh(Quotient(ZW), Quotient(ZS1)))
          /\ Plain(Powgh(Quotient(ZA), Quotient(ZS2)))
          /\ Plain(Pow(Quotient(ZW))) /\ Plain(Powgh(Quotient(ZW2), Quotient(ZS1W)))
          /\ Plain(Pow(Quotient(ZA))) /\ Plain(Powgh(Quotient(ZAN), Quotient(ZSA)))
      BY <3>4, <3>5
    <3>7. Plain(SignCalls[step])
      BY <3>1, <3>6 DEF SignCalls
    <3> QED
      BY <3>7 DEF Plain
  <2>5. ASSUME pc = "verify", step <= Len(VerifyCalls)
        PROVE  /\ VerifyCalls[step].op # "pow"
               /\ VerifyCalls[step].op = "pow2" => VerifyCalls[step].width <= GOO_ELL_BITS
               /\ VerifyCalls[step].width \in Nat
    <3>1. step \in 1..Len(VerifyCalls)
      BY <2>1, <2>5, CallCounts DEF WidthsInv, WidthsTyped
    <3> QED BY <2>1, <3>1, VerifyWidths
  <2>6. ASSUME pc = "sign", step <= Len(SignCalls)
        PROVE  SignCalls[step].op = "pow" =>
                 SignCalls[step].width + 1 <= GOO_MAX_RSA_BITS + 1
    BY <2>3, <2>4, <2>6
  <2> QED
    BY <2>4, <2>5, <2>6 DEF ArraysHold
<1> QED BY WidthsInvAlways, <1>1, PTL

(* The quotient Eq of a signature has at most 2048 bits.                   *)
THEOREM EqAlwaysFits == Spec => []EqFits
<1>1. WidthsInv => EqFits
  <2> SUFFICES ASSUME WidthsInv PROVE EqFits
    OBVIOUS
  <2>1. group \in Nat \ {0}
    BY DEF WidthsInv, WidthsTyped
  <2> QED
    BY <2>1 DEF EqFits, EqBits, EBits, Scalar, RandBits, Quotient, Sum, Larger
<1> QED BY WidthsInvAlways, <1>1, PTL
==============================================================================
