---------------------------- MODULE GooGroupProofs ----------------------------
(***************************************************************************)
(* Proofs about the group's loops.  GooInverse, for every commutative      *)
(* monoid: each output of inv2 and inv7 is the inverse of its own input,   *)
(* and they fail on inputs without an inverse only.  The inductive         *)
(* invariant says which product a register holds between which two         *)
(* statements: the lifetimes behind the aliases.                           *)
(*                                                                         *)
(* GooWnaf, for any window, widths and exponents: the digits are sparse    *)
(* and use up the exponent, and the power is exact.  What is left of an    *)
(* exponent before each turn of the recoding is what the evaluation has    *)
(* computed after as many digits from the other end.                       *)
(***************************************************************************)
EXTENDS GooInverse, GooWnaf, WellFoundedInduction, TLAPS

(* The products of the inputs.                                             *)
P12 == Times(b[1], b[2])
P34 == Times(b[3], b[4])
P56 == Times(b[5], b[6])
P1234 == Times(P12, P34)
P123456 == Times(P1234, P56)
PAll == Times(P123456, b[7])

Types ==
  /\ op \in {"none", "inv2", "inv7"}
  /\ pc \in 0..20
  /\ b \in [1..7 -> Elems] /\ r \in [1..7 -> Elems]
  /\ done \in BOOLEAN /\ ok \in BOOLEAN

(* inv2: r2 is the product, then its inverse, then the result.             *)
Inv2Registers ==
  op = "inv2" =>
    /\ pc \in 1..5
    /\ pc = 2 => r[2] = P12
    /\ pc >= 3 => Invertible(P12)
    /\ pc \in 3..4 => Times(r[2], P12) = one
    /\ pc >= 4 => Times(r[1], b[1]) = one
    /\ pc >= 5 => Times(r[2], b[2]) = one

(* The first half of inv7: products.                                       *)
Products ==
  op = "inv7" =>
    /\ pc \in 1..20
    /\ pc \in 2..11 => r[b12] = P12
    /\ pc \in 3..12 => r[b34] = P34
    /\ pc \in 4..9 => r[b56] = P56
    /\ pc \in 5..10 => r[b1234] = P1234
    /\ pc \in 6..13 => r[b123456] = P123456
    /\ pc = 7 => r[b1234567] = PAll

(* The second half: inverses of the products.                              *)
Inverses ==
  op = "inv7" =>
    /\ pc >= 8 => Invertible(PAll)
    /\ pc \in 8..13 => Times(r[b1234567i], PAll) = one
    /\ pc \in 9..10 => Times(r[b123456i], P123456) = one
    /\ pc \in 10..12 => Times(r[b1234i], P1234) = one
    /\ pc \in 11..15 => Times(r[b56i], P56) = one
    /\ pc \in 12..19 => Times(r[b34i], P34) = one
    /\ pc \in 13..17 => Times(r[b12i], P12) = one

(* The results, in the order they are written.                             *)
Results ==
  op = "inv7" =>
    /\ pc >= 14 => Times(r[7], b[7]) = one
    /\ pc >= 15 => Times(r[5], b[5]) = one
    /\ pc >= 16 => Times(r[6], b[6]) = one
    /\ pc >= 17 => Times(r[1], b[1]) = one
    /\ pc >= 18 => Times(r[2], b[2]) = one
    /\ pc >= 19 => Times(r[3], b[3]) = one
    /\ pc >= 20 => Times(r[4], b[4]) = one

(* A failure is one at the inversion.                                      *)
Outcome ==
  /\ op = "none" => ~done
  /\ ~done => ~ok
  /\ done /\ ok => pc = (IF op = "inv2" THEN 5 ELSE 20)
  /\ done /\ ~ok => ~Invertible(IF op = "inv2" THEN P12 ELSE PAll)

IInv == Types /\ Inv2Registers /\ Products /\ Inverses /\ Results /\ Outcome

------------------------------------------------------------------------------
(* The inverse of a product, times one factor, is the inverse of the other.*)
LEMMA Cofactor ==
  ASSUME NEW x \in Elems, NEW y \in Elems, NEW z \in Elems,
         Times(x, Times(y, z)) = one
  PROVE  /\ Times(Times(x, z), y) = one
         /\ Times(Times(x, y), z) = one
         /\ Times(Times(z, x), y) = one
         /\ Times(Times(y, x), z) = one
<1>1. Times(Times(x, z), y) = Times(x, Times(z, y))
  BY MonoidAssumption
<1>2. Times(z, y) = Times(y, z)
  BY MonoidAssumption
<1>3. Times(Times(x, y), z) = Times(x, Times(y, z))
  BY MonoidAssumption
<1>4. Times(z, x) = Times(x, z) /\ Times(y, x) = Times(x, y)
  BY MonoidAssumption
<1> QED BY <1>1, <1>2, <1>3, <1>4

(* A product is invertible when both factors are.                          *)
LEMMA UnitProduct ==
  ASSUME NEW x \in Elems, NEW y \in Elems
  PROVE  Invertible(Times(x, y)) <=> Invertible(x) /\ Invertible(y)
<1>1. ASSUME Invertible(Times(x, y)) PROVE Invertible(x) /\ Invertible(y)
  <2>1. PICK z \in Elems : Times(Times(x, y), z) = one
    BY <1>1 DEF Invertible
  <2>2. Times(x, Times(y, z)) = one /\ Times(y, z) \in Elems
    BY <2>1, MonoidAssumption
  <2>3. Times(y, Times(x, z)) = one /\ Times(x, z) \in Elems
    <3>1. Times(Times(y, x), z) = one
      BY <2>1, MonoidAssumption
    <3> QED BY <3>1, MonoidAssumption
  <2> QED BY <2>2, <2>3 DEF Invertible
<1>2. ASSUME Invertible(x), Invertible(y) PROVE Invertible(Times(x, y))
  <2>1. PICK u \in Elems : Times(x, u) = one
    BY <1>2 DEF Invertible
  <2>2. PICK v \in Elems : Times(y, v) = one
    BY <1>2 DEF Invertible
  <2>3. Times(Times(x, y), Times(v, u)) = Times(x, Times(y, Times(v, u)))
    BY MonoidAssumption
  <2>4. Times(y, Times(v, u)) = Times(Times(y, v), u)
    BY MonoidAssumption
  <2>5. Times(Times(y, v), u) = u
    BY <2>2, MonoidAssumption
  <2>6. Times(Times(x, y), Times(v, u)) = one /\ Times(v, u) \in Elems
    BY <2>1, <2>3, <2>4, <2>5, MonoidAssumption
  <2> QED BY <2>6, MonoidAssumption DEF Invertible
<1> QED BY <1>1, <1>2

(* What mpz_invert returns.                                                *)
LEMMA InverseWorks ==
  ASSUME NEW x \in Elems, Invertible(x)
  PROVE  Inverse(x) \in Elems /\ Times(Inverse(x), x) = one
<1>1. Inverse(x) \in Elems /\ Times(x, Inverse(x)) = one
  BY DEF Invertible, Inverse
<1> QED BY <1>1, MonoidAssumption

LEMMA Closed ==
  \A x, y \in Elems : Times(x, y) \in Elems
BY MonoidAssumption

(* The products are elements, and do not change while a call runs.         *)
LEMMA ProductTypes ==
  ASSUME Types
  PROVE  /\ P12 \in Elems /\ P34 \in Elems /\ P56 \in Elems
         /\ P1234 \in Elems /\ P123456 \in Elems /\ PAll \in Elems
         /\ \A m \in 1..7 : b[m] \in Elems /\ r[m] \in Elems
<1>1. \A m \in 1..7 : b[m] \in Elems /\ r[m] \in Elems
  BY DEF Types
<1>2. P12 \in Elems /\ P34 \in Elems /\ P56 \in Elems
  BY <1>1, Closed DEF P12, P34, P56
<1>3. P1234 \in Elems
  BY <1>2, Closed DEF P1234
<1>4. P123456 \in Elems
  BY <1>2, <1>3, Closed DEF P123456
<1>5. PAll \in Elems
  BY <1>1, <1>4, Closed DEF PAll
<1> QED BY <1>1, <1>2, <1>3, <1>4, <1>5

LEMMA SameProducts ==
  ASSUME b' = b
  PROVE  /\ P12' = P12 /\ P34' = P34 /\ P56' = P56
         /\ P1234' = P1234 /\ P123456' = P123456 /\ PAll' = PAll
BY DEF P12, P34, P56, P1234, P123456, PAll

LEMMA Residues == zero \in Elems /\ one \in Elems
BY MonoidAssumption

LEMMA ZeroRegisters == [m \in 1..7 |-> zero] \in [1..7 -> Elems]
BY Residues

LEMMA InitIInv == Init => IInv
<1> SUFFICES ASSUME Init PROVE IInv
  OBVIOUS
<1>1. Types
  <2>1. b \in [1..7 -> Elems] /\ r \in [1..7 -> Elems]
    BY ZeroRegisters DEF Init
  <2>2. done \in BOOLEAN /\ ok \in BOOLEAN
    BY DEF Init
  <2>3. op \in {"none", "inv2", "inv7"} /\ pc \in 0..20
    BY DEF Init
  <2> QED BY <2>1, <2>2, <2>3 DEF Types
<1>2. Inv2Registers /\ Products /\ Inverses /\ Results /\ Outcome
  BY DEF Init, Inv2Registers, Products, Inverses, Results, Outcome
<1> QED BY <1>1, <1>2 DEF IInv

LEMMA CallIInv ==
  ASSUME IInv, NEW name \in {"inv2", "inv7"}, NEW bs \in [1..7 -> Elems],
         Call(name, bs)
  PROVE  IInv'
<1>1. op' = name /\ pc' = 1 /\ ~done' /\ ~ok'
  BY DEF Call
<1>2. Types'
  <2>1. b' \in [1..7 -> Elems] /\ r' \in [1..7 -> Elems]
    BY ZeroRegisters DEF Call
  <2>2. done' \in BOOLEAN /\ ok' \in BOOLEAN
    BY DEF Call
  <2>3. op' \in {"none", "inv2", "inv7"} /\ pc' \in 0..20
    BY <1>1
  <2> QED BY <2>1, <2>2, <2>3 DEF Types
<1>3. Inv2Registers' /\ Products' /\ Inverses' /\ Results'
  BY <1>1 DEF Inv2Registers, Products, Inverses, Results
<1> QED BY <1>1, <1>2, <1>3 DEF IInv, Outcome

(* A multiplication keeps everything but one register.                     *)
LEMMA MulTypes ==
  ASSUME Types, NEW m \in 1..7, NEW x \in Elems, Set(m, x), pc < 20
  PROVE  /\ Types' /\ pc' = pc + 1 /\ b' = b /\ op' = op
         /\ done' = done /\ ok' = ok
         /\ r'[m] = x /\ \A j \in 1..7 : j # m => r'[j] = r[j]
BY DEF Types, Set

LEMMA Inv2IInv ==
  ASSUME IInv, Inv2Step
  PROVE  IInv'
<1> USE DEF IInv
<1>0. op = "inv2" /\ ~done
  BY DEF Inv2Step
<1>a. /\ P12 \in Elems
      /\ \A m \in 1..7 : b[m] \in Elems /\ r[m] \in Elems
  BY ProductTypes
<1>b. pc \in 1..5
  BY <1>0 DEF Inv2Registers
<1>s. ASSUME NEW m \in 1..7, NEW x \in Elems, Set(m, x), pc \in 1..4
      PROVE  /\ Types' /\ pc' = pc + 1 /\ b' = b /\ op' = "inv2" /\ ~done'
             /\ r'[m] = x /\ \A j \in 1..7 : j # m => r'[j] = r[j]
             /\ P12' = P12 /\ Products' /\ Inverses' /\ Results' /\ Outcome'
  <2>1. /\ Types' /\ pc' = pc + 1 /\ b' = b /\ op' = "inv2" /\ ~done'
        /\ ~ok'
        /\ r'[m] = x /\ \A j \in 1..7 : j # m => r'[j] = r[j]
    BY <1>0, <1>s, MulTypes DEF Outcome
  <2>2. P12' = P12
    BY <2>1, SameProducts
  <2> QED BY <2>1, <2>2 DEF Products, Inverses, Results, Outcome
<1>1. CASE pc = 1 /\ Mul(2, b[1], b[2])
  <2>1. Times(b[1], b[2]) = P12
    BY DEF P12
  <2> QED BY <1>0, <1>1, <1>a, <1>s, <2>1 DEF Mul, Inv2Registers
<1>2. CASE pc = 2 /\ Inv(2, r[2])
  <2>1. r[2] = P12
    BY <1>0, <1>2 DEF Inv2Registers
  <2>2. Inverse(P12) \in Elems /\ Times(Inverse(P12), P12) = one /\ Invertible(P12)
    BY <1>2, <1>a, <2>1, InverseWorks DEF Inv
  <2>3. Invertible(P12)'
    BY <1>2, <2>1, <2>2, <1>s DEF Inv, Invertible
  <2> QED BY <1>0, <1>2, <1>a, <1>s, <2>1, <2>2, <2>3 DEF Inv, Inv2Registers
<1>3. CASE pc = 2 /\ InvFails(r[2])
  <2>1. r[2] = P12
    BY <1>0, <1>3 DEF Inv2Registers
  <2> QED BY <1>0, <1>3, <2>1, SameProducts
    DEF InvFails, Types, Inv2Registers, Products, Inverses, Results, Outcome,
        Invertible
<1>4. CASE pc = 3 /\ Mul(1, b[2], r[2])
  <2>1. Times(r[2], Times(b[1], b[2])) = one /\ Invertible(P12)
    BY <1>0, <1>4 DEF Inv2Registers, P12
  <2>2. Times(Times(b[2], r[2]), b[1]) = one
    BY <1>a, <2>1, Cofactor
  <2>3. Times(b[2], r[2]) \in Elems
    BY <1>a, Closed
  <2>4. Set(1, Times(b[2], r[2]))
    BY <1>4 DEF Mul
  <2>5. /\ Types' /\ pc' = 4 /\ b' = b /\ op' = "inv2" /\ P12' = P12
        /\ r'[1] = Times(b[2], r[2]) /\ r'[2] = r[2]
        /\ Products' /\ Inverses' /\ Results' /\ Outcome'
    BY <1>4, <1>s, <2>3, <2>4
  <2> QED BY <1>0, <1>4, <2>1, <2>2, <2>3, <2>5
    DEF Inv2Registers, Invertible, P12
<1>5. CASE pc = 4 /\ Mul(2, b[1], r[2])
  <2>1. /\ Times(r[2], Times(b[1], b[2])) = one /\ Invertible(P12)
        /\ Times(r[1], b[1]) = one
    BY <1>0, <1>5 DEF Inv2Registers, P12
  <2>2. Times(Times(b[1], r[2]), b[2]) = one
    BY <1>a, <2>1, Cofactor
  <2>3. Times(b[1], r[2]) \in Elems
    BY <1>a, Closed
  <2>4. Set(2, Times(b[1], r[2]))
    BY <1>5 DEF Mul
  <2>5. /\ Types' /\ pc' = 5 /\ b' = b /\ op' = "inv2" /\ P12' = P12
        /\ r'[2] = Times(b[1], r[2]) /\ r'[1] = r[1]
        /\ Products' /\ Inverses' /\ Results' /\ Outcome'
    BY <1>5, <1>s, <2>3, <2>4
  <2> QED BY <1>0, <1>5, <2>1, <2>2, <2>3, <2>5
    DEF Inv2Registers, Invertible, P12
<1>6. CASE pc = 5 /\ Return
  BY <1>0, <1>6, SameProducts
  DEF Return, Types, Inv2Registers, Products, Inverses, Results, Outcome,
      Invertible
<1> QED BY <1>0, <1>1, <1>2, <1>3, <1>4, <1>5, <1>6 DEF Inv2Step

LEMMA Inv7IInv ==
  ASSUME IInv, Inv7Step
  PROVE  IInv'
<1> USE DEF IInv
<1> USE DEF b12, b34, b56, b1234, b123456, b1234567, b1234567i, b123456i,
            b1234i, b56i, b34i, b12i
<1>0. op = "inv7" /\ ~done /\ ~ok
  BY DEF Inv7Step, Outcome
<1>a. /\ P12 \in Elems /\ P34 \in Elems /\ P56 \in Elems
      /\ P1234 \in Elems /\ P123456 \in Elems /\ PAll \in Elems
      /\ b[1] \in Elems /\ b[2] \in Elems /\ b[3] \in Elems /\ b[4] \in Elems
      /\ b[5] \in Elems /\ b[6] \in Elems /\ b[7] \in Elems
      /\ r[1] \in Elems /\ r[2] \in Elems /\ r[3] \in Elems /\ r[4] \in Elems
      /\ r[5] \in Elems /\ r[6] \in Elems /\ r[7] \in Elems
  BY ProductTypes
<1>s. ASSUME NEW m \in 1..7, NEW x \in Elems, Set(m, x), pc \in 1..19
      PROVE  /\ Types' /\ pc' = pc + 1 /\ b' = b /\ op' = "inv7"
             /\ r'[m] = x /\ \A j \in 1..7 : j # m => r'[j] = r[j]
             /\ P12' = P12 /\ P34' = P34 /\ P56' = P56
             /\ P1234' = P1234 /\ P123456' = P123456 /\ PAll' = PAll
             /\ Inv2Registers' /\ Outcome'
  <2>1. /\ Types' /\ pc' = pc + 1 /\ b' = b /\ op' = "inv7" /\ ~done' /\ ~ok'
        /\ r'[m] = x /\ \A j \in 1..7 : j # m => r'[j] = r[j]
    BY <1>0, <1>s, MulTypes
  <2>2. /\ P12' = P12 /\ P34' = P34 /\ P56' = P56
        /\ P1234' = P1234 /\ P123456' = P123456 /\ PAll' = PAll
    BY <2>1, SameProducts
  <2> QED BY <2>1, <2>2 DEF Inv2Registers, Outcome
<1>p1. CASE pc = 1 /\ Mul(4, b[1], b[2])
  <2>1. Times(b[1], b[2]) = P12
    BY <1>0, <1>p1 DEF P12
  <2>2. Set(4, P12)
    BY <1>p1, <2>1 DEF Mul
  <2>4. /\ Types' /\ pc' = 2 /\ b' = b /\ op' = "inv7" /\ r'[4] = P12
        /\ r'[1] = r[1] /\ r'[2] = r[2] /\ r'[3] = r[3] /\ r'[5] = r[5] /\ r'[6] = r[6] /\ r'[7] = r[7]
        /\ P12' = P12 /\ P34' = P34 /\ P56' = P56
        /\ P1234' = P1234 /\ P123456' = P123456 /\ PAll' = PAll
        /\ Inv2Registers' /\ Outcome'
    BY <1>a, <1>s, <1>p1, <2>2
  <2>5. Products'
    BY <1>0, <1>p1, <2>4 DEF Products
  <2>6. Inverses'
    BY <1>0, <1>p1, <2>4 DEF Inverses, Invertible
  <2>7. Results'
    BY <1>0, <1>p1, <2>4 DEF Results
  <2> QED BY <2>4, <2>5, <2>6, <2>7
<1>p2. CASE pc = 2 /\ Mul(2, b[3], b[4])
  <2>1. Times(b[3], b[4]) = P34
    BY <1>0, <1>p2 DEF P34
  <2>2. Set(2, P34)
    BY <1>p2, <2>1 DEF Mul
  <2>4. /\ Types' /\ pc' = 3 /\ b' = b /\ op' = "inv7" /\ r'[2] = P34
        /\ r'[1] = r[1] /\ r'[3] = r[3] /\ r'[4] = r[4] /\ r'[5] = r[5] /\ r'[6] = r[6] /\ r'[7] = r[7]
        /\ P12' = P12 /\ P34' = P34 /\ P56' = P56
        /\ P1234' = P1234 /\ P123456' = P123456 /\ PAll' = PAll
        /\ Inv2Registers' /\ Outcome'
    BY <1>a, <1>s, <1>p2, <2>2
  <2>5. Products'
    BY <1>0, <1>p2, <2>4 DEF Products
  <2>6. Inverses'
    BY <1>0, <1>p2, <2>4 DEF Inverses, Invertible
  <2>7. Results'
    BY <1>0, <1>p2, <2>4 DEF Results
  <2> QED BY <2>4, <2>5, <2>6, <2>7
<1>p3. CASE pc = 3 /\ Mul(3, b[5], b[6])
  <2>1. Times(b[5], b[6]) = P56
    BY <1>0, <1>p3 DEF P56
  <2>2. Set(3, P56)
    BY <1>p3, <2>1 DEF Mul
  <2>4. /\ Types' /\ pc' = 4 /\ b' = b /\ op' = "inv7" /\ r'[3] = P56
        /\ r'[1] = r[1] /\ r'[2] = r[2] /\ r'[4] = r[4] /\ r'[5] = r[5] /\ r'[6] = r[6] /\ r'[7] = r[7]
        /\ P12' = P12 /\ P34' = P34 /\ P56' = P56
        /\ P1234' = P1234 /\ P123456' = P123456 /\ PAll' = PAll
        /\ Inv2Registers' /\ Outcome'
    BY <1>a, <1>s, <1>p3, <2>2
  <2>5. Products'
    BY <1>0, <1>p3, <2>4 DEF Products
  <2>6. Inverses'
    BY <1>0, <1>p3, <2>4 DEF Inverses, Invertible
  <2>7. Results'
    BY <1>0, <1>p3, <2>4 DEF Results
  <2> QED BY <2>4, <2>5, <2>6, <2>7
<1>p4. CASE pc = 4 /\ Mul(1, r[4], r[2])
  <2>1. Times(r[4], r[2]) = P1234
    BY <1>0, <1>p4 DEF P1234, Products
  <2>2. Set(1, P1234)
    BY <1>p4, <2>1 DEF Mul
  <2>4. /\ Types' /\ pc' = 5 /\ b' = b /\ op' = "inv7" /\ r'[1] = P1234
        /\ r'[2] = r[2] /\ r'[3] = r[3] /\ r'[4] = r[4] /\ r'[5] = r[5] /\ r'[6] = r[6] /\ r'[7] = r[7]
        /\ P12' = P12 /\ P34' = P34 /\ P56' = P56
        /\ P1234' = P1234 /\ P123456' = P123456 /\ PAll' = PAll
        /\ Inv2Registers' /\ Outcome'
    BY <1>a, <1>s, <1>p4, <2>2
  <2>5. Products'
    BY <1>0, <1>p4, <2>4 DEF Products
  <2>6. Inverses'
    BY <1>0, <1>p4, <2>4 DEF Inverses, Invertible
  <2>7. Results'
    BY <1>0, <1>p4, <2>4 DEF Results
  <2> QED BY <2>4, <2>5, <2>6, <2>7
<1>p5. CASE pc = 5 /\ Mul(5, r[1], r[3])
  <2>1. Times(r[1], r[3]) = P123456
    BY <1>0, <1>p5 DEF P123456, Products
  <2>2. Set(5, P123456)
    BY <1>p5, <2>1 DEF Mul
  <2>4. /\ Types' /\ pc' = 6 /\ b' = b /\ op' = "inv7" /\ r'[5] = P123456
        /\ r'[1] = r[1] /\ r'[2] = r[2] /\ r'[3] = r[3] /\ r'[4] = r[4] /\ r'[6] = r[6] /\ r'[7] = r[7]
        /\ P12' = P12 /\ P34' = P34 /\ P56' = P56
        /\ P1234' = P1234 /\ P123456' = P123456 /\ PAll' = PAll
        /\ Inv2Registers' /\ Outcome'
    BY <1>a, <1>s, <1>p5, <2>2
  <2>5. Products'
    BY <1>0, <1>p5, <2>4 DEF Products
  <2>6. Inverses'
    BY <1>0, <1>p5, <2>4 DEF Inverses, Invertible
  <2>7. Results'
    BY <1>0, <1>p5, <2>4 DEF Results
  <2> QED BY <2>4, <2>5, <2>6, <2>7
<1>p6. CASE pc = 6 /\ Mul(7, r[5], b[7])
  <2>1. Times(r[5], b[7]) = PAll
    BY <1>0, <1>p6 DEF PAll, Products
  <2>2. Set(7, PAll)
    BY <1>p6, <2>1 DEF Mul
  <2>4. /\ Types' /\ pc' = 7 /\ b' = b /\ op' = "inv7" /\ r'[7] = PAll
        /\ r'[1] = r[1] /\ r'[2] = r[2] /\ r'[3] = r[3] /\ r'[4] = r[4] /\ r'[5] = r[5] /\ r'[6] = r[6]
        /\ P12' = P12 /\ P34' = P34 /\ P56' = P56
        /\ P1234' = P1234 /\ P123456' = P123456 /\ PAll' = PAll
        /\ Inv2Registers' /\ Outcome'
    BY <1>a, <1>s, <1>p6, <2>2
  <2>5. Products'
    BY <1>0, <1>p6, <2>4 DEF Products
  <2>6. Inverses'
    BY <1>0, <1>p6, <2>4 DEF Inverses, Invertible
  <2>7. Results'
    BY <1>0, <1>p6, <2>4 DEF Results
  <2> QED BY <2>4, <2>5, <2>6, <2>7
<1>p8. CASE pc = 8 /\ Mul(6, r[7], b[7])
  <2>1. Times(r[7], Times(P123456, b[7])) = one
    BY <1>0, <1>p8 DEF Inverses, Products, PAll
  <2>2. Times(Times(r[7], b[7]), P123456) = one
    BY <1>a, <2>1, Cofactor
  <2>3. Times(r[7], b[7]) \in Elems /\ Set(6, Times(r[7], b[7]))
    BY <1>a, <1>p8, Closed DEF Mul
  <2>4. /\ Types' /\ pc' = 9 /\ b' = b /\ op' = "inv7" /\ r'[6] = Times(r[7], b[7])
        /\ r'[1] = r[1] /\ r'[2] = r[2] /\ r'[3] = r[3] /\ r'[4] = r[4] /\ r'[5] = r[5] /\ r'[7] = r[7]
        /\ P12' = P12 /\ P34' = P34 /\ P56' = P56
        /\ P1234' = P1234 /\ P123456' = P123456 /\ PAll' = PAll
        /\ Inv2Registers' /\ Outcome'
    BY <1>a, <1>s, <1>p8, <2>3
  <2>5. Products'
    BY <1>0, <1>p8, <2>4 DEF Products
  <2>6. Inverses'
    BY <1>0, <1>p8, <2>2, <2>4 DEF Inverses, Invertible
  <2>7. Results'
    BY <1>0, <1>p8, <2>2, <2>4 DEF Results
  <2> QED BY <2>4, <2>5, <2>6, <2>7
<1>p9. CASE pc = 9 /\ Mul(3, r[6], r[3])
  <2>1. Times(r[6], Times(P1234, P56)) = one /\ r[3] = P56
    BY <1>0, <1>p9 DEF Inverses, Products, P123456
  <2>2. Times(Times(r[6], r[3]), P1234) = one
    BY <1>a, <2>1, Cofactor
  <2>3. Times(r[6], r[3]) \in Elems /\ Set(3, Times(r[6], r[3]))
    BY <1>a, <1>p9, Closed DEF Mul
  <2>4. /\ Types' /\ pc' = 10 /\ b' = b /\ op' = "inv7" /\ r'[3] = Times(r[6], r[3])
        /\ r'[1] = r[1] /\ r'[2] = r[2] /\ r'[4] = r[4] /\ r'[5] = r[5] /\ r'[6] = r[6] /\ r'[7] = r[7]
        /\ P12' = P12 /\ P34' = P34 /\ P56' = P56
        /\ P1234' = P1234 /\ P123456' = P123456 /\ PAll' = PAll
        /\ Inv2Registers' /\ Outcome'
    BY <1>a, <1>s, <1>p9, <2>3
  <2>5. Products'
    BY <1>0, <1>p9, <2>4 DEF Products
  <2>6. Inverses'
    BY <1>0, <1>p9, <2>2, <2>4 DEF Inverses, Invertible
  <2>7. Results'
    BY <1>0, <1>p9, <2>2, <2>4 DEF Results
  <2> QED BY <2>4, <2>5, <2>6, <2>7
<1>p10. CASE pc = 10 /\ Mul(1, r[6], r[1])
  <2>1. Times(r[6], Times(P1234, P56)) = one /\ r[1] = P1234
    BY <1>0, <1>p10 DEF Inverses, Products, P123456
  <2>2. Times(Times(r[6], r[1]), P56) = one
    BY <1>a, <2>1, Cofactor
  <2>3. Times(r[6], r[1]) \in Elems /\ Set(1, Times(r[6], r[1]))
    BY <1>a, <1>p10, Closed DEF Mul
  <2>4. /\ Types' /\ pc' = 11 /\ b' = b /\ op' = "inv7" /\ r'[1] = Times(r[6], r[1])
        /\ r'[2] = r[2] /\ r'[3] = r[3] /\ r'[4] = r[4] /\ r'[5] = r[5] /\ r'[6] = r[6] /\ r'[7] = r[7]
        /\ P12' = P12 /\ P34' = P34 /\ P56' = P56
        /\ P1234' = P1234 /\ P123456' = P123456 /\ PAll' = PAll
        /\ Inv2Registers' /\ Outcome'
    BY <1>a, <1>s, <1>p10, <2>3
  <2>5. Products'
    BY <1>0, <1>p10, <2>4 DEF Products
  <2>6. Inverses'
    BY <1>0, <1>p10, <2>2, <2>4 DEF Inverses, Invertible
  <2>7. Results'
    BY <1>0, <1>p10, <2>2, <2>4 DEF Results
  <2> QED BY <2>4, <2>5, <2>6, <2>7
<1>p11. CASE pc = 11 /\ Mul(4, r[3], r[4])
  <2>1. Times(r[3], Times(P12, P34)) = one /\ r[4] = P12
    BY <1>0, <1>p11 DEF Inverses, Products, P1234
  <2>2. Times(Times(r[3], r[4]), P34) = one
    BY <1>a, <2>1, Cofactor
  <2>3. Times(r[3], r[4]) \in Elems /\ Set(4, Times(r[3], r[4]))
    BY <1>a, <1>p11, Closed DEF Mul
  <2>4. /\ Types' /\ pc' = 12 /\ b' = b /\ op' = "inv7" /\ r'[4] = Times(r[3], r[4])
        /\ r'[1] = r[1] /\ r'[2] = r[2] /\ r'[3] = r[3] /\ r'[5] = r[5] /\ r'[6] = r[6] /\ r'[7] = r[7]
        /\ P12' = P12 /\ P34' = P34 /\ P56' = P56
        /\ P1234' = P1234 /\ P123456' = P123456 /\ PAll' = PAll
        /\ Inv2Registers' /\ Outcome'
    BY <1>a, <1>s, <1>p11, <2>3
  <2>5. Products'
    BY <1>0, <1>p11, <2>4 DEF Products
  <2>6. Inverses'
    BY <1>0, <1>p11, <2>2, <2>4 DEF Inverses, Invertible
  <2>7. Results'
    BY <1>0, <1>p11, <2>2, <2>4 DEF Results
  <2> QED BY <2>4, <2>5, <2>6, <2>7
<1>p12. CASE pc = 12 /\ Mul(2, r[3], r[2])
  <2>1. Times(r[3], Times(P12, P34)) = one /\ r[2] = P34
    BY <1>0, <1>p12 DEF Inverses, Products, P1234
  <2>2. Times(Times(r[3], r[2]), P12) = one
    BY <1>a, <2>1, Cofactor
  <2>3. Times(r[3], r[2]) \in Elems /\ Set(2, Times(r[3], r[2]))
    BY <1>a, <1>p12, Closed DEF Mul
  <2>4. /\ Types' /\ pc' = 13 /\ b' = b /\ op' = "inv7" /\ r'[2] = Times(r[3], r[2])
        /\ r'[1] = r[1] /\ r'[3] = r[3] /\ r'[4] = r[4] /\ r'[5] = r[5] /\ r'[6] = r[6] /\ r'[7] = r[7]
        /\ P12' = P12 /\ P34' = P34 /\ P56' = P56
        /\ P1234' = P1234 /\ P123456' = P123456 /\ PAll' = PAll
        /\ Inv2Registers' /\ Outcome'
    BY <1>a, <1>s, <1>p12, <2>3
  <2>5. Products'
    BY <1>0, <1>p12, <2>4 DEF Products
  <2>6. Inverses'
    BY <1>0, <1>p12, <2>2, <2>4 DEF Inverses, Invertible
  <2>7. Results'
    BY <1>0, <1>p12, <2>2, <2>4 DEF Results
  <2> QED BY <2>4, <2>5, <2>6, <2>7
<1>p13. CASE pc = 13 /\ Mul(7, r[7], r[5])
  <2>1. Times(r[7], Times(P123456, b[7])) = one /\ r[5] = P123456
    BY <1>0, <1>p13 DEF Inverses, Products, PAll
  <2>2. Times(Times(r[7], r[5]), b[7]) = one
    BY <1>a, <2>1, Cofactor
  <2>3. Times(r[7], r[5]) \in Elems /\ Set(7, Times(r[7], r[5]))
    BY <1>a, <1>p13, Closed DEF Mul
  <2>4. /\ Types' /\ pc' = 14 /\ b' = b /\ op' = "inv7" /\ r'[7] = Times(r[7], r[5])
        /\ r'[1] = r[1] /\ r'[2] = r[2] /\ r'[3] = r[3] /\ r'[4] = r[4] /\ r'[5] = r[5] /\ r'[6] = r[6]
        /\ P12' = P12 /\ P34' = P34 /\ P56' = P56
        /\ P1234' = P1234 /\ P123456' = P123456 /\ PAll' = PAll
        /\ Inv2Registers' /\ Outcome'
    BY <1>a, <1>s, <1>p13, <2>3
  <2>5. Products'
    BY <1>0, <1>p13, <2>4 DEF Products
  <2>6. Inverses'
    BY <1>0, <1>p13, <2>2, <2>4 DEF Inverses, Invertible
  <2>7. Results'
    BY <1>0, <1>p13, <2>2, <2>4 DEF Results
  <2> QED BY <2>4, <2>5, <2>6, <2>7
<1>p14. CASE pc = 14 /\ Mul(5, r[1], b[6])
  <2>1. Times(r[1], Times(b[5], b[6])) = one
    BY <1>0, <1>p14 DEF Inverses, Products, P56
  <2>2. Times(Times(r[1], b[6]), b[5]) = one
    BY <1>a, <2>1, Cofactor
  <2>3. Times(r[1], b[6]) \in Elems /\ Set(5, Times(r[1], b[6]))
    BY <1>a, <1>p14, Closed DEF Mul
  <2>4. /\ Types' /\ pc' = 15 /\ b' = b /\ op' = "inv7" /\ r'[5] = Times(r[1], b[6])
        /\ r'[1] = r[1] /\ r'[2] = r[2] /\ r'[3] = r[3] /\ r'[4] = r[4] /\ r'[6] = r[6] /\ r'[7] = r[7]
        /\ P12' = P12 /\ P34' = P34 /\ P56' = P56
        /\ P1234' = P1234 /\ P123456' = P123456 /\ PAll' = PAll
        /\ Inv2Registers' /\ Outcome'
    BY <1>a, <1>s, <1>p14, <2>3
  <2>5. Products'
    BY <1>0, <1>p14, <2>4 DEF Products
  <2>6. Inverses'
    BY <1>0, <1>p14, <2>2, <2>4 DEF Inverses, Invertible
  <2>7. Results'
    BY <1>0, <1>p14, <2>2, <2>4 DEF Results
  <2> QED BY <2>4, <2>5, <2>6, <2>7
<1>p15. CASE pc = 15 /\ Mul(6, r[1], b[5])
  <2>1. Times(r[1], Times(b[5], b[6])) = one
    BY <1>0, <1>p15 DEF Inverses, Products, P56
  <2>2. Times(Times(r[1], b[5]), b[6]) = one
    BY <1>a, <2>1, Cofactor
  <2>3. Times(r[1], b[5]) \in Elems /\ Set(6, Times(r[1], b[5]))
    BY <1>a, <1>p15, Closed DEF Mul
  <2>4. /\ Types' /\ pc' = 16 /\ b' = b /\ op' = "inv7" /\ r'[6] = Times(r[1], b[5])
        /\ r'[1] = r[1] /\ r'[2] = r[2] /\ r'[3] = r[3] /\ r'[4] = r[4] /\ r'[5] = r[5] /\ r'[7] = r[7]
        /\ P12' = P12 /\ P34' = P34 /\ P56' = P56
        /\ P1234' = P1234 /\ P123456' = P123456 /\ PAll' = PAll
        /\ Inv2Registers' /\ Outcome'
    BY <1>a, <1>s, <1>p15, <2>3
  <2>5. Products'
    BY <1>0, <1>p15, <2>4 DEF Products
  <2>6. Inverses'
    BY <1>0, <1>p15, <2>2, <2>4 DEF Inverses, Invertible
  <2>7. Results'
    BY <1>0, <1>p15, <2>2, <2>4 DEF Results
  <2> QED BY <2>4, <2>5, <2>6, <2>7
<1>p16. CASE pc = 16 /\ Mul(1, r[2], b[2])
  <2>1. Times(r[2], Times(b[1], b[2])) = one
    BY <1>0, <1>p16 DEF Inverses, Products, P12
  <2>2. Times(Times(r[2], b[2]), b[1]) = one
    BY <1>a, <2>1, Cofactor
  <2>3. Times(r[2], b[2]) \in Elems /\ Set(1, Times(r[2], b[2]))
    BY <1>a, <1>p16, Closed DEF Mul
  <2>4. /\ Types' /\ pc' = 17 /\ b' = b /\ op' = "inv7" /\ r'[1] = Times(r[2], b[2])
        /\ r'[2] = r[2] /\ r'[3] = r[3] /\ r'[4] = r[4] /\ r'[5] = r[5] /\ r'[6] = r[6] /\ r'[7] = r[7]
        /\ P12' = P12 /\ P34' = P34 /\ P56' = P56
        /\ P1234' = P1234 /\ P123456' = P123456 /\ PAll' = PAll
        /\ Inv2Registers' /\ Outcome'
    BY <1>a, <1>s, <1>p16, <2>3
  <2>5. Products'
    BY <1>0, <1>p16, <2>4 DEF Products
  <2>6. Inverses'
    BY <1>0, <1>p16, <2>2, <2>4 DEF Inverses, Invertible
  <2>7. Results'
    BY <1>0, <1>p16, <2>2, <2>4 DEF Results
  <2> QED BY <2>4, <2>5, <2>6, <2>7
<1>p17. CASE pc = 17 /\ Mul(2, r[2], b[1])
  <2>1. Times(r[2], Times(b[1], b[2])) = one
    BY <1>0, <1>p17 DEF Inverses, Products, P12
  <2>2. Times(Times(r[2], b[1]), b[2]) = one
    BY <1>a, <2>1, Cofactor
  <2>3. Times(r[2], b[1]) \in Elems /\ Set(2, Times(r[2], b[1]))
    BY <1>a, <1>p17, Closed DEF Mul
  <2>4. /\ Types' /\ pc' = 18 /\ b' = b /\ op' = "inv7" /\ r'[2] = Times(r[2], b[1])
        /\ r'[1] = r[1] /\ r'[3] = r[3] /\ r'[4] = r[4] /\ r'[5] = r[5] /\ r'[6] = r[6] /\ r'[7] = r[7]
        /\ P12' = P12 /\ P34' = P34 /\ P56' = P56
        /\ P1234' = P1234 /\ P123456' = P123456 /\ PAll' = PAll
        /\ Inv2Registers' /\ Outcome'
    BY <1>a, <1>s, <1>p17, <2>3
  <2>5. Products'
    BY <1>0, <1>p17, <2>4 DEF Products
  <2>6. Inverses'
    BY <1>0, <1>p17, <2>2, <2>4 DEF Inverses, Invertible
  <2>7. Results'
    BY <1>0, <1>p17, <2>2, <2>4 DEF Results
  <2> QED BY <2>4, <2>5, <2>6, <2>7
<1>p18. CASE pc = 18 /\ Mul(3, r[4], b[4])
  <2>1. Times(r[4], Times(b[3], b[4])) = one
    BY <1>0, <1>p18 DEF Inverses, Products, P34
  <2>2. Times(Times(r[4], b[4]), b[3]) = one
    BY <1>a, <2>1, Cofactor
  <2>3. Times(r[4], b[4]) \in Elems /\ Set(3, Times(r[4], b[4]))
    BY <1>a, <1>p18, Closed DEF Mul
  <2>4. /\ Types' /\ pc' = 19 /\ b' = b /\ op' = "inv7" /\ r'[3] = Times(r[4], b[4])
        /\ r'[1] = r[1] /\ r'[2] = r[2] /\ r'[4] = r[4] /\ r'[5] = r[5] /\ r'[6] = r[6] /\ r'[7] = r[7]
        /\ P12' = P12 /\ P34' = P34 /\ P56' = P56
        /\ P1234' = P1234 /\ P123456' = P123456 /\ PAll' = PAll
        /\ Inv2Registers' /\ Outcome'
    BY <1>a, <1>s, <1>p18, <2>3
  <2>5. Products'
    BY <1>0, <1>p18, <2>4 DEF Products
  <2>6. Inverses'
    BY <1>0, <1>p18, <2>2, <2>4 DEF Inverses, Invertible
  <2>7. Results'
    BY <1>0, <1>p18, <2>2, <2>4 DEF Results
  <2> QED BY <2>4, <2>5, <2>6, <2>7
<1>p19. CASE pc = 19 /\ Mul(4, r[4], b[3])
  <2>1. Times(r[4], Times(b[3], b[4])) = one
    BY <1>0, <1>p19 DEF Inverses, Products, P34
  <2>2. Times(Times(r[4], b[3]), b[4]) = one
    BY <1>a, <2>1, Cofactor
  <2>3. Times(r[4], b[3]) \in Elems /\ Set(4, Times(r[4], b[3]))
    BY <1>a, <1>p19, Closed DEF Mul
  <2>4. /\ Types' /\ pc' = 20 /\ b' = b /\ op' = "inv7" /\ r'[4] = Times(r[4], b[3])
        /\ r'[1] = r[1] /\ r'[2] = r[2] /\ r'[3] = r[3] /\ r'[5] = r[5] /\ r'[6] = r[6] /\ r'[7] = r[7]
        /\ P12' = P12 /\ P34' = P34 /\ P56' = P56
        /\ P1234' = P1234 /\ P123456' = P123456 /\ PAll' = PAll
        /\ Inv2Registers' /\ Outcome'
    BY <1>a, <1>s, <1>p19, <2>3
  <2>5. Products'
    BY <1>0, <1>p19, <2>4 DEF Products
  <2>6. Inverses'
    BY <1>0, <1>p19, <2>2, <2>4 DEF Inverses, Invertible
  <2>7. Results'
    BY <1>0, <1>p19, <2>2, <2>4 DEF Results
  <2> QED BY <2>4, <2>5, <2>6, <2>7
<1>p7. CASE pc = 7 /\ Inv(7, r[7])
  <2>1. r[7] = PAll
    BY <1>0, <1>p7 DEF Products
  <2>2. /\ Inverse(PAll) \in Elems /\ Times(Inverse(PAll), PAll) = one
        /\ Invertible(PAll)
    BY <1>a, <1>p7, <2>1, InverseWorks DEF Inv
  <2>3. Set(7, Inverse(PAll))
    BY <1>p7, <2>1 DEF Inv
  <2>4. /\ Types' /\ pc' = 8 /\ b' = b /\ op' = "inv7" /\ r'[7] = Inverse(PAll)
        /\ r'[1] = r[1] /\ r'[2] = r[2] /\ r'[3] = r[3] /\ r'[4] = r[4]
        /\ r'[5] = r[5] /\ r'[6] = r[6]
        /\ P12' = P12 /\ P34' = P34 /\ P56' = P56
        /\ P1234' = P1234 /\ P123456' = P123456 /\ PAll' = PAll
        /\ Inv2Registers' /\ Outcome'
    BY <1>s, <1>p7, <2>2, <2>3
  <2>5. Products'
    BY <1>0, <1>p7, <2>4 DEF Products
  <2>6. Inverses'
    BY <2>2, <2>4 DEF Inverses, Invertible
  <2>7. Results'
    BY <2>4 DEF Results
  <2> QED BY <2>4, <2>5, <2>6, <2>7
<1>f. CASE pc = 7 /\ InvFails(r[7])
  <2>1. r[7] = PAll
    BY <1>0, <1>f DEF Products
  <2> QED BY <1>0, <1>f, <2>1, SameProducts
    DEF InvFails, Types, Inv2Registers, Products, Inverses, Results, Outcome,
        Invertible
<1>e. CASE pc = 20 /\ Return
  BY <1>0, <1>e, SameProducts
  DEF Return, Types, Inv2Registers, Products, Inverses, Results, Outcome,
      Invertible
<1> QED
  BY <1>0, <1>p1, <1>p2, <1>p3, <1>p4, <1>p5, <1>p6, <1>p7, <1>p8, <1>p9,
     <1>p10, <1>p11, <1>p12, <1>p13, <1>p14, <1>p15, <1>p16, <1>p17, <1>p18,
     <1>p19, <1>f, <1>e
  DEF Inv7Step, Inverts

THEOREM IInvAlways == Spec => []IInv
<1>1. Init => IInv
  BY InitIInv
<1>2. IInv /\ [Next]_vars => IInv'
  <2> SUFFICES ASSUME IInv, [Next]_vars PROVE IInv'
    OBVIOUS
  <2>1. ASSUME NEW bs \in [1..7 -> Inputs], Call("inv7", bs) PROVE IInv'
    <3>1. bs \in [1..7 -> Elems]
      BY <2>1, MonoidAssumption
    <3> QED BY <2>1, <3>1, CallIInv
  <2>2. ASSUME NEW x \in Inputs, NEW y \in Inputs,
               Call("inv2", [m \in 1..7 |-> IF m = 1 THEN x ELSE y])
        PROVE  IInv'
    <3>1. [m \in 1..7 |-> IF m = 1 THEN x ELSE y] \in [1..7 -> Elems]
      BY <2>2, MonoidAssumption
    <3> QED BY <2>2, <3>1, CallIInv
  <2>3. CASE Inv2Step
    BY <2>3, Inv2IInv
  <2>4. CASE Inv7Step
    BY <2>4, Inv7IInv
  <2>5. CASE UNCHANGED vars
    BY <2>5, SameProducts
    DEF vars, IInv, Types, Inv2Registers, Products, Inverses, Results, Outcome,
        Invertible
  <2> QED BY <2>1, <2>2, <2>3, <2>4, <2>5 DEF Next
<1> QED BY <1>1, <1>2, PTL DEF Spec

(* Each output is the inverse of the input of the same index, whatever the *)
(* aliasing of the temporaries, in every group.                            *)
THEOREM OutputsAreInverses == Spec => []EachItsOwn
<1>1. IInv => EachItsOwn
  <2> SUFFICES ASSUME IInv, done, ok, NEW m \in 1..Width
               PROVE  Times(r[m], b[m]) = one
    BY DEF EachItsOwn
  <2>1. CASE op = "inv2"
    BY <2>1 DEF IInv, Outcome, Inv2Registers, Width
  <2>2. CASE op = "inv7"
    BY <2>2 DEF IInv, Outcome, Results, Width
  <2> QED BY <2>1, <2>2 DEF IInv, Types, Outcome
<1> QED BY <1>1, IInvAlways, PTL

(* inv2 and inv7 fail exactly on inputs of which one has no inverse.       *)
THEOREM FailureIsNonUnit == Spec => []FailsOnNonUnit
<1>1. IInv => FailsOnNonUnit
  <2> SUFFICES ASSUME IInv, done
               PROVE  ok <=> \A m \in 1..Width : Invertible(b[m])
    BY DEF FailsOnNonUnit
  <2>a. /\ P12 \in Elems /\ P34 \in Elems /\ P56 \in Elems
        /\ P1234 \in Elems /\ P123456 \in Elems
        /\ \A m \in 1..7 : b[m] \in Elems
    BY ProductTypes DEF IInv
  <2>1. CASE op = "inv2"
    <3>1. ok <=> Invertible(P12)
      BY <2>1 DEF IInv, Outcome, Inv2Registers
    <3>2. Invertible(P12) <=> Invertible(b[1]) /\ Invertible(b[2])
      BY <2>a, UnitProduct DEF P12
    <3> QED BY <2>1, <3>1, <3>2 DEF Width
  <2>2. CASE op = "inv7"
    <3>1. ok <=> Invertible(PAll)
      BY <2>2 DEF IInv, Outcome, Inverses
    <3>2. Invertible(PAll) <=> Invertible(P123456) /\ Invertible(b[7])
      BY <2>a, UnitProduct DEF PAll
    <3>3. Invertible(P123456) <=> Invertible(P1234) /\ Invertible(P56)
      BY <2>a, UnitProduct DEF P123456
    <3>4. Invertible(P1234) <=> Invertible(P12) /\ Invertible(P34)
      BY <2>a, UnitProduct DEF P1234
    <3>5. /\ Invertible(P12) <=> Invertible(b[1]) /\ Invertible(b[2])
          /\ Invertible(P34) <=> Invertible(b[3]) /\ Invertible(b[4])
          /\ Invertible(P56) <=> Invertible(b[5]) /\ Invertible(b[6])
      BY <2>a, UnitProduct DEF P12, P34, P56
    <3>6. 1..7 = {1, 2, 3, 4, 5, 6, 7}
      OBVIOUS
    <3> QED BY <2>2, <3>1, <3>2, <3>3, <3>4, <3>5, <3>6 DEF Width
  <2> QED BY <2>1, <2>2 DEF IInv, Types, Outcome
<1> QED BY <1>1, IInvAlways, PTL

------------------------------------------------------------------------------
(* GooWnaf.                                                                *)

(* A set of naturals with 0 that is closed under successor, up to n.       *)
LEMMA UpTo ==
  ASSUME NEW n \in Nat, NEW S, 0 \in S, \A i \in 0..(n - 1) : i \in S => i + 1 \in S
  PROVE  \A i \in 0..n : i \in S
<1>1. SUFFICES ASSUME NEW i \in 0..n, i \notin S PROVE FALSE
  OBVIOUS
<1> DEFINE Out == {j \in Nat : j <= n /\ j \notin S}
<1>2. i \in Out /\ Out \in SUBSET Nat
  BY <1>1
<1>3. PICK j \in Out : \A m \in Out : j <= m
  <2> DEFINE Less == OpToRel(<, Nat)
  <2>1. \A m, j \in Out : <<m, j>> \in Less <=> m < j
    BY DEF OpToRel
  <2>2. \A m, j \in Out : j <= m <=> ~(m < j)
    OBVIOUS
  <2>3. IsWellFoundedOn(Less, Nat)
    BY NatLessThanWellFounded
  <2> HIDE DEF Out, Less
  <2>4. \E j \in Out : \A m \in Out : <<m, j>> \notin Less
    BY <1>2, <2>3, WFMin
  <2>5. QED
    BY <2>1, <2>2, <2>4
<1>4. j \in Nat /\ j <= n /\ j \notin S /\ j # 0
  BY <1>3
<1>5. j - 1 \in 0..(n - 1) /\ j - 1 \notin Out
  BY <1>3, <1>4
<1>6. j - 1 \in S
  BY <1>4, <1>5
<1>7. (j - 1) + 1 \in S /\ (j - 1) + 1 = j
  BY <1>4, <1>5, <1>6
<1>8. QED
  BY <1>4, <1>7

------------------------------------------------------------------------------
(* Powers of two.                                                          *)

LEMMA LongestIs == LongestPower \in Nat /\ WindowSize \in Nat /\ WindowSize <= LongestPower
BY WnafAssumption DEF LongestPower

LEMMA PowersPositive == \A n \in 0..LongestPower : Pow2[n] \in Nat /\ Pow2[n] >= 1
<1> DEFINE S == {n \in Nat : Pow2[n] \in Nat /\ Pow2[n] >= 1}
<1>1. 0 \in S
  BY Pow2Assumption
<1>2. \A i \in 0..(LongestPower - 1) : i \in S => i + 1 \in S
  BY Pow2Assumption, LongestIs
<1> HIDE DEF S
<1>3. \A i \in 0..LongestPower : i \in S
  BY <1>1, <1>2, UpTo, LongestIs
<1>4. QED
  BY <1>3 DEF S

LEMMA PowersGrow ==
  ASSUME NEW n \in 0..LongestPower, NEW m \in 0..LongestPower, n <= m
  PROVE  Pow2[n] <= Pow2[m]
<1> DEFINE S == {i \in Nat : i >= n => Pow2[n] <= Pow2[i]}
<1>1. 0 \in S
  BY PowersPositive, LongestIs
<1>2. ASSUME NEW i \in 0..(LongestPower - 1), i \in S PROVE i + 1 \in S
  <2>1. Pow2[i + 1] = 2 * Pow2[i] /\ Pow2[i] \in Nat /\ Pow2[n] \in Nat
    BY Pow2Assumption, LongestIs
  <2>2. CASE i + 1 = n
    BY <1>2, <2>1, <2>2
  <2>3. CASE i + 1 # n
    BY <1>2, <2>1, <2>3
  <2>4. QED
    BY <2>2, <2>3
<1> HIDE DEF S
<1>3. \A i \in 0..LongestPower : i \in S
  BY <1>1, <1>2, UpTo, LongestIs
<1>4. QED
  BY <1>3 DEF S

LEMMA TableLenIs ==
  /\ TableLen \in Nat /\ TableLen >= 1
  /\ Pow2[WindowSize - 1] = 2 * TableLen /\ Pow2[WindowSize] = 4 * TableLen
<1>1. WindowSize \in Nat /\ WindowSize >= 2 /\ WindowSize <= LongestPower /\ LongestPower \in Nat
  BY LongestIs, WnafAssumption
<1>2. WindowSize - 2 \in 0..(LongestPower - 1) /\ WindowSize - 1 \in 0..(LongestPower - 1)
  BY <1>1
<1>3. /\ Pow2[(WindowSize - 2) + 1] = 2 * Pow2[WindowSize - 2]
      /\ Pow2[(WindowSize - 1) + 1] = 2 * Pow2[WindowSize - 1]
  BY <1>2, Pow2Assumption
<1>4. (WindowSize - 2) + 1 = WindowSize - 1 /\ (WindowSize - 1) + 1 = WindowSize
  BY <1>1
<1>5. Pow2[WindowSize - 2] \in Nat /\ Pow2[WindowSize - 2] >= 1
  BY <1>1, <1>2, PowersPositive
<1>6. QED
  BY <1>3, <1>4, <1>5 DEF TableLen

LEMMA PowersDivide ==
  \A n \in 0..LongestPower : n >= WindowSize => \E m \in Nat : Pow2[n] = Pow2[WindowSize] * m
<1> DEFINE S == {n \in Nat : n >= WindowSize => \E m \in Nat : Pow2[n] = Pow2[WindowSize] * m}
<1>1. 0 \in S
  BY WnafAssumption
<1>2. ASSUME NEW i \in 0..(LongestPower - 1), i \in S PROVE i + 1 \in S
  <2>1. Pow2[i + 1] = 2 * Pow2[i] /\ i \in Nat /\ i + 1 \in Nat
    BY Pow2Assumption, LongestIs
  <2>2. CASE i + 1 < WindowSize
    BY <2>1, <2>2, LongestIs
  <2>3. CASE i + 1 = WindowSize
    <3>1. Pow2[i + 1] = Pow2[WindowSize] * 1
      BY <2>3, TableLenIs
    <3>2. QED
      BY <2>1, <3>1
  <2>4. CASE i >= WindowSize
    <3>1. PICK m \in Nat : Pow2[i] = Pow2[WindowSize] * m
      BY <1>2, <2>4
    <3>2. Pow2[i + 1] = Pow2[WindowSize] * (2 * m)
      BY <2>1, <3>1, TableLenIs
    <3>3. QED
      BY <2>1, <3>2
  <2>5. QED
    BY <2>1, <2>2, <2>3, <2>4, LongestIs
<1> HIDE DEF S
<1>3. \A i \in 0..LongestPower : i \in S
  BY <1>1, <1>2, UpTo, LongestIs
<1>4. QED
  BY <1>3 DEF S
LEMMA BitLengthIs ==
  ASSUME NEW x \in Nat
  PROVE  /\ BitLength(x) \in 0..(LongestPower + 1)
         /\ BitLength(x) <= LongestPower => x < Pow2[BitLength(x)]
<1>1. Magnitude(x) = x
  BY DEF Magnitude
<1>2. CASE x >= Pow2[LongestPower]
  BY <1>1, <1>2, LongestIs DEF BitLength
<1>3. CASE x < Pow2[LongestPower]
  <2> DEFINE Least(n) == x < Pow2[n] /\ (n > 0 => Pow2[n - 1] <= x)
             S == {n \in Nat : x >= Pow2[n]}
  <2>1. \E n \in 0..LongestPower : Least(n)
    <3>1. SUFFICES ASSUME \A n \in 0..LongestPower : ~Least(n) PROVE FALSE
      OBVIOUS
    <3>2. 0 \in S
      BY <3>1, PowersPositive, LongestIs
    <3>3. ASSUME NEW i \in 0..(LongestPower - 1), i \in S PROVE i + 1 \in S
      <4>1. i + 1 \in 0..LongestPower /\ (i + 1) - 1 = i /\ i + 1 \in Nat
        BY LongestIs
      <4>2. ~Least(i + 1) /\ x >= Pow2[i]
        BY <3>1, <3>3, <4>1
      <4>3. ~(x < Pow2[i + 1])
        BY <4>1, <4>2, PowersPositive
      <4>4. QED
        BY <4>1, <4>3, PowersPositive
    <3> HIDE DEF S
    <3>4. LongestPower \in S
      BY <3>2, <3>3, UpTo, LongestIs
    <3>5. QED
      BY <1>3, <3>4, PowersPositive, LongestIs DEF S
  <2>2. BitLength(x) = CHOOSE n \in 0..LongestPower : Least(n)
    BY <1>1, <1>3, PowersPositive, LongestIs DEF BitLength
  <2>3. BitLength(x) \in 0..LongestPower /\ Least(BitLength(x))
    BY <2>1, <2>2
  <2>4. QED
    BY <2>3, LongestIs
<1>4. QED
  BY <1>2, <1>3, PowersPositive, LongestIs

(* The exponents of a call: one or two.                                    *)
Exponents(xs) == (\E x \in Int : xs = <<x>>) \/ \E x, y \in Int : xs = <<x, y>>

LEMMA ExponentsAre ==
  ASSUME NEW xs, Exponents(xs)
  PROVE  /\ Len(xs) \in {1, 2} /\ DOMAIN xs = 1..Len(xs)
         /\ \A j \in 1..Len(xs) : xs[j] \in Int
BY DEF Exponents

LEMMA WidthFits ==
  ASSUME NEW xs, Exponents(xs), \A j \in DOMAIN xs : xs[j] >= 0, BitsOf(xs) <= Cap(xs)
  PROVE  /\ BitsOf(xs) \in 1..LongestPower
         /\ \A j \in 1..Len(xs) : xs[j] \in Nat /\ xs[j] < Pow2[BitsOf(xs) - 1]
<1>1. /\ Len(xs) \in {1, 2} /\ DOMAIN xs = 1..Len(xs)
      /\ \A j \in 1..Len(xs) : xs[j] \in Nat
  BY ExponentsAre
<1> DEFINE lens == {BitLength(xs[j]) : j \in DOMAIN xs}
<1>2. \A j \in 1..Len(xs) : BitLength(xs[j]) \in Int
  BY <1>1, BitLengthIs, LongestIs
<1>3. \E n \in lens : \A m \in lens : m <= n
  <2>1. CASE Len(xs) = 1
    BY <1>1, <1>2, <2>1
  <2>2. CASE Len(xs) = 2
    <3>1. 1 \in DOMAIN xs /\ 2 \in DOMAIN xs /\ \A j \in DOMAIN xs : j = 1 \/ j = 2
      BY <1>1, <2>2
    <3>2. BitLength(xs[1]) \in Int /\ BitLength(xs[2]) \in Int
      BY <1>1, <1>2, <3>1
    <3>3. CASE BitLength(xs[1]) <= BitLength(xs[2])
      BY <3>1, <3>2, <3>3
    <3>4. CASE BitLength(xs[2]) <= BitLength(xs[1])
      BY <3>1, <3>2, <3>4
    <3>5. QED
      BY <3>2, <3>3, <3>4
  <2>3. QED
    BY <1>1, <2>1, <2>2
<1>4. MaxLen(xs) \in lens /\ \A m \in lens : m <= MaxLen(xs)
  <2>1. MaxLen(xs) = CHOOSE n \in lens : \A m \in lens : m <= n
    BY DEF MaxLen
  <2> HIDE DEF lens
  <2>2. QED
    BY <1>3, <2>1
<1>5. MaxLen(xs) \in 0..(LongestPower + 1)
  BY <1>1, <1>4, BitLengthIs
<1>6. Cap(xs) <= LongestPower /\ Cap(xs) \in Nat
  BY WnafAssumption DEF Cap, LongestPower
<1>7. BitsOf(xs) = MaxLen(xs) + 1 /\ MaxLen(xs) \in 0..(LongestPower - 1)
  BY <1>5, <1>6, LongestIs DEF BitsOf
<1>8. ASSUME NEW j \in 1..Len(xs) PROVE xs[j] < Pow2[MaxLen(xs)]
  <2>1. BitLength(xs[j]) <= MaxLen(xs) /\ BitLength(xs[j]) \in 0..(LongestPower + 1)
    BY <1>1, <1>4, BitLengthIs
  <2>2. xs[j] < Pow2[BitLength(xs[j])]
    <3>1. BitLength(xs[j]) <= LongestPower
      BY <1>7, <2>1, LongestIs
    <3>2. xs[j] \in Nat
      BY <1>1
    <3>3. QED
      BY <3>1, <3>2, BitLengthIs
  <2>3. /\ BitLength(xs[j]) \in 0..LongestPower /\ MaxLen(xs) \in 0..LongestPower
    BY <1>7, <2>1, LongestIs
  <2>4. /\ Pow2[BitLength(xs[j])] <= Pow2[MaxLen(xs)]
        /\ Pow2[BitLength(xs[j])] \in Nat /\ Pow2[MaxLen(xs)] \in Nat
    BY <2>1, <2>3, PowersGrow, PowersPositive
  <2>5. QED
    BY <1>1, <2>2, <2>4
<1>9. BitsOf(xs) \in 1..LongestPower /\ BitsOf(xs) - 1 = MaxLen(xs)
  BY <1>7, LongestIs
<1>10. QED
  BY <1>1, <1>8, <1>9

------------------------------------------------------------------------------
(* Digits.                                                                 *)

LEMMA Euclid ==
  ASSUME NEW x \in Int, NEW l \in Nat, l > 0
  PROVE  /\ x \div l \in Int /\ x % l \in Int
         /\ x = (x \div l) * l + (x % l)
         /\ 0 <= x % l /\ x % l < l
BY SMT

(* The digit takes x to a multiple of 2^w, the nearest one, if x is odd.   *)
LEMMA DigitIs ==
  ASSUME NEW x \in Nat
  PROVE  /\ Digit(x) \in Int
         /\ (x - Digit(x)) % 2 = 0
         /\ x % 2 = 0 => Digit(x) = 0
         /\ x % 2 = 1 => /\ Digit(x) % 2 = 1
                         /\ Magnitude(Digit(x)) < Pow2[WindowSize - 1]
                         /\ \E q \in Nat : x - Digit(x) = Pow2[WindowSize] * q
                         /\ x < Pow2[WindowSize - 1] => Digit(x) = x
<1>1. CASE x % 2 = 0
  BY <1>1 DEF Digit
<1>2. CASE x % 2 = 1
  <2> DEFINE T == TableLen
             q == x \div (4 * T)
             low == x % (4 * T)
  <2>1. T \in Nat /\ T >= 1 /\ Pow2[WindowSize - 1] = 2 * T /\ Pow2[WindowSize] = 4 * T
    BY TableLenIs
  <2>2. q \in Int /\ low \in Int /\ x = q * (4 * T) + low /\ 0 <= low /\ low < 4 * T
    BY <2>1, Euclid
  <2>3. Digit(x) = IF low >= 2 * T THEN low - 4 * T ELSE low
    BY <1>2, <2>1 DEF Digit
  <2> HIDE DEF T, q, low
  <2> DEFINE z == T * q
  <2>4. q * (4 * T) = 4 * z /\ z \in Int
    BY <2>1, <2>2
  <2>5. q >= 0
    <3>1. CASE q <= -1
      <4>1. (-1 - q) * T >= 0 /\ (-1 - q) * T = -T - z
        BY <2>1, <2>2, <3>1
      <4>2. QED
        BY <2>1, <2>2, <2>4, <4>1
    <3>2. QED
      BY <2>2, <3>1
  <2>6. /\ (4 * T) * q = 4 * z
        /\ (4 * T) * (q + 1) = 4 * z + 4 * T
    BY <2>1, <2>2
  <2> HIDE DEF z
  <2>7. Digit(x) \in Int /\ (x - Digit(x)) % 2 = 0 /\ Digit(x) % 2 = 1
    BY <1>2, <2>1, <2>2, <2>3, <2>4
  <2>8. Magnitude(Digit(x)) < 2 * T
    <3>1. Digit(x) >= -(2 * T) /\ Digit(x) < 2 * T
      BY <2>1, <2>2, <2>3
    <3>2. Digit(x) # -(2 * T)
      BY <2>1, <2>7
    <3>3. QED
      BY <2>1, <2>7, <3>1, <3>2 DEF Magnitude
  <2>9. \E m \in Nat : x - Digit(x) = (4 * T) * m
    <3>1. CASE low >= 2 * T
      <4>1. x - Digit(x) = (4 * T) * (q + 1) /\ q + 1 \in Nat
        BY <2>1, <2>2, <2>3, <2>4, <2>5, <2>6, <3>1
      <4>2. QED
        BY <4>1
    <3>2. CASE low < 2 * T
      <4>1. x - Digit(x) = (4 * T) * q /\ q \in Nat
        BY <2>1, <2>2, <2>3, <2>4, <2>5, <2>6, <3>2
      <4>2. QED
        BY <4>1
    <3>3. QED
      BY <2>1, <2>2, <3>1, <3>2
  <2>10. x < 2 * T => Digit(x) = x
    <3>1. SUFFICES ASSUME x < 2 * T PROVE Digit(x) = x
      OBVIOUS
    <3>2. q = 0
      <4>1. CASE q >= 1
        <5>1. (q - 1) * T >= 0 /\ (q - 1) * T = z - T
          BY <2>1, <2>2, <4>1 DEF z
        <5>2. z \in Int
          BY <2>1, <2>2 DEF z
        <5>3. QED
          BY <2>1, <2>2, <2>4, <3>1, <5>1, <5>2
      <4>2. QED
        BY <2>2, <2>5, <4>1
    <3>3. low = x
      BY <2>1, <2>2, <3>2
    <3>4. QED
      BY <2>1, <2>3, <3>1, <3>3
  <2>11. QED
    BY <1>2, <2>1, <2>7, <2>8, <2>9, <2>10
<1>3. QED
  BY <1>1, <1>2
(* What is left of x is one bit shorter, but for a carry that a later turn *)
(* takes in: after the last turn nothing is left.                          *)
LEMMA TurnShrinks ==
  ASSUME NEW x \in Nat, NEW p \in 0..LongestPower, x <= Pow2[p]
  PROVE  /\ (x - Digit(x)) \div 2 \in Nat
         /\ x = 2 * ((x - Digit(x)) \div 2) + Digit(x)
         /\ p >= 1 => (x - Digit(x)) \div 2 <= Pow2[p - 1]
         /\ p = 0 => (x - Digit(x)) \div 2 = 0
<1> DEFINE d == Digit(x)
           W == Pow2[WindowSize]
<1>1. /\ d \in Int /\ (x - d) % 2 = 0
      /\ x % 2 = 0 => d = 0
      /\ x % 2 = 1 => /\ \E q \in Nat : x - d = W * q
                      /\ Magnitude(d) < Pow2[WindowSize - 1]
                      /\ x < Pow2[WindowSize - 1] => d = x
  BY DigitIs
<1>2. /\ TableLen \in Nat /\ TableLen >= 1
      /\ Pow2[WindowSize - 1] = 2 * TableLen /\ W = 4 * TableLen
  BY TableLenIs
<1>3. Pow2[p] \in Nat /\ Pow2[p] >= 1 /\ p \in Nat /\ LongestPower \in Nat
  BY PowersPositive, LongestIs
<1>4. p >= 1 => Pow2[p] = 2 * Pow2[p - 1] /\ Pow2[p - 1] \in Nat
  <2>1. SUFFICES ASSUME p >= 1 PROVE Pow2[p] = 2 * Pow2[p - 1] /\ Pow2[p - 1] \in Nat
    OBVIOUS
  <2>2. p - 1 \in 0..(LongestPower - 1) /\ (p - 1) + 1 = p /\ p - 1 \in 0..LongestPower
    BY <1>3, <2>1
  <2>3. QED
    BY <2>2, Pow2Assumption
<1>5. x - d >= 0 /\ x - d <= Pow2[p] /\ (p = 0 => x - d = 0)
  <2>1. CASE x % 2 = 0
    <3>1. p = 0 => x = 0
      BY <1>3, <2>1, Pow2Assumption
    <3>2. QED
      BY <1>1, <1>3, <2>1, <3>1
  <2>2. CASE x % 2 = 1 /\ p < WindowSize
    <3>1. x < 2 * TableLen
      <4>1. CASE p = 0
        BY <1>2, <4>1, Pow2Assumption
      <4>2. CASE p >= 1
        <5>1. x # Pow2[p]
          BY <1>4, <2>2, <4>2
        <5>2. WindowSize - 1 \in 0..LongestPower /\ p <= WindowSize - 1
          BY <1>3, <2>2, LongestIs, WnafAssumption
        <5>3. Pow2[p] <= Pow2[WindowSize - 1]
          BY <5>2, PowersGrow
        <5>4. QED
          BY <1>2, <1>3, <5>1, <5>3
      <4>3. QED
        BY <1>3, <4>1, <4>2
    <3>2. d = x
      BY <1>1, <1>2, <2>2, <3>1
    <3>3. QED
      BY <1>3, <3>2
  <2>3. CASE x % 2 = 1 /\ p >= WindowSize
    <3>1. PICK m \in Nat : Pow2[p] = W * m
      BY <2>3, PowersDivide
    <3>2. PICK q \in Nat : x - d = W * q
      BY <1>1, <2>3
    <3>3. Magnitude(d) < 2 * TableLen
      BY <1>1, <1>2, <2>3
    <3>4. d > -(2 * TableLen)
      BY <1>1, <1>2, <3>3 DEF Magnitude
    <3> HIDE DEF d, W
    <3>5. W * q < W * m + W
      BY <1>1, <1>2, <1>3, <3>1, <3>2, <3>4
    <3>6. q <= m
      <4>1. CASE q >= m + 1
        <5>1. W * (q - (m + 1)) >= 0 /\ W * (q - (m + 1)) = W * q - W * m - W
          BY <1>2, <4>1
        <5>2. W * q \in Int /\ W * m \in Int /\ W \in Int
          BY <1>2
        <5>3. QED
          BY <3>5, <5>1, <5>2
      <4>2. QED
        BY <4>1
    <3>7. W * q <= W * m /\ W * q >= 0
      <4>1. W * (m - q) >= 0 /\ W * (m - q) = W * m - W * q /\ W * q >= 0
        BY <1>2, <3>6
      <4>2. W * q \in Int /\ W * m \in Int
        BY <1>2
      <4>3. QED
        BY <4>1, <4>2
    <3>8. p # 0
      BY <1>3, <2>3, WnafAssumption
    <3>9. QED
      BY <3>1, <3>2, <3>7, <3>8
  <2>4. QED
    BY <1>3, <2>1, <2>2, <2>3, WnafAssumption
<1> HIDE DEF d, W
<1>6. /\ (x - d) \div 2 \in Nat
      /\ x = 2 * ((x - d) \div 2) + d
      /\ p >= 1 => (x - d) \div 2 <= Pow2[p - 1]
      /\ p = 0 => (x - d) \div 2 = 0
  BY <1>1, <1>3, <1>4, <1>5
<1>7. QED
  BY <1>6 DEF d

------------------------------------------------------------------------------
(* Elements.                                                               *)

Element == [Bases -> Int]

(* The n-th power of the base, or the inverse, of table t.                 *)
Scaled(t, n) == IF t % 2 = 1 THEN Power((t + 1) \div 2, n) ELSE Power(t \div 2, -n)
OddPower(t, s) == Scaled(t, 2 * s + 1)

LEMMA ScaledIs ==
  ASSUME NEW t \in Tables
  PROVE  /\ TableBase(t) = Scaled(t, 1)
         /\ \A m \in Int : Scaled(t, m) \in Element
         /\ \A m, n \in Int : PowMul(Scaled(t, m), Scaled(t, n)) = Scaled(t, m + n)
<1>1. TableBase(t) = Scaled(t, 1)
  BY DEF TableBase, Scaled
<1>2. \A m \in Int : Scaled(t, m) \in Element
  BY DEF Scaled, Power, Element, Bases
<1>3. ASSUME NEW m \in Int, NEW n \in Int
      PROVE  PowMul(Scaled(t, m), Scaled(t, n)) = Scaled(t, m + n)
  BY DEF PowMul, Scaled, Power, Bases
<1>4. QED
  BY <1>1, <1>2, <1>3
------------------------------------------------------------------------------
(* The invariant.                                                          *)

Positions == 0..(digitsLen - 1)

(* The call has exponents that fit the array of digits.                    *)
Begun ==
  powPc \in {"table", "recode", "eval"} =>
    /\ Len(es) \in {1, 2} /\ DOMAIN es = 1..Len(es)
    /\ digitsLen \in 1..LongestPower
    /\ \A j \in 1..Len(es) : es[j] \in Nat /\ es[j] < Pow2[digitsLen - 1]

Filled(n) == \A t \in 1..n, s \in Slots : table[t][s] = OddPower(t, s)

TableInv ==
  /\ table \in [Tables -> [Slots -> Element]]
  /\ powPc = "table" =>
       /\ k \in 1..(2 * Len(es)) /\ pos \in 0..TableLen
       /\ Filled(k - 1)
       /\ \A s \in 0..(pos - 1) : table[k][s] = OddPower(k, s)
       /\ pos > 0 /\ pos < TableLen => table[k][TableLen - 1] = Scaled(k, 2)
  /\ powPc \in {"recode", "eval"} => Filled(2 * Len(es))

(* rest[q] is what is left of x before its digit at position q is taken.      *)
Rests(d, p, x, rest) ==
  /\ rest \in [p..(digitsLen - 1) -> Int]
  /\ rest[digitsLen - 1] = x
  /\ \A q \in (p + 1)..(digitsLen - 1) : rest[q] = 2 * rest[q - 1] + d[q]
Recoded(d, x) == \E rest : Rests(d, -1, x, rest) /\ rest[-1] = 0

(* The digits after position p are such as the tables have powers for,     *)
(* and no two of them are close.                                           *)
Fine(d, p) ==
  \A x \in (p + 1)..(digitsLen - 1) :
    d[x] # 0 =>
      /\ d[x] % 2 = 1
      /\ Magnitude(d[x]) < Pow2[WindowSize - 1]
      /\ \A y \in (p + 1)..(digitsLen - 1) : x < y /\ y < x + WindowSize => d[y] = 0

(* For some turns after a digit, what is left of the exponent is even.     *)
Room(d, p, x) ==
  \A y \in (p + 1)..(digitsLen - 1) :
    d[y] # 0 /\ y - p < WindowSize =>
      \E m \in Int : x = Pow2[WindowSize - (y - p)] * m

DigitsType == digits \in [1..Len(es) -> [Positions -> Int]]

RecodeInv ==
  powPc = "recode" =>
    /\ k \in 1..Len(es) /\ pos \in -1..(digitsLen - 1) /\ DigitsType
    /\ \A j \in 1..(k - 1) : Recoded(digits[j], es[j]) /\ Fine(digits[j], -1)
    /\ e \in Nat /\ (pos >= 0 => e <= Pow2[pos]) /\ (pos < 0 => e = 0)
    /\ \E rest : Rests(digits[k], pos, es[k], rest) /\ rest[pos] = e
    /\ Fine(digits[k], pos) /\ Room(digits[k], pos, e)

EvalInv ==
  powPc = "eval" =>
    /\ pos \in 0..digitsLen /\ DigitsType /\ powRet \in Element
    /\ \A j \in 1..Len(es) :
         /\ Fine(digits[j], -1)
         /\ \E rest : Rests(digits[j], -1, es[j], rest) /\ rest[-1] = 0 /\ powRet[j] = rest[pos - 1]
    /\ Len(es) = 1 => powRet[2] = 0

PowInv == Begun /\ TableInv /\ RecodeInv /\ EvalInv /\ PowerIsExact
LEMMA InitInv == PowInit => PowInv
<1> SUFFICES ASSUME PowInit PROVE PowInv
  OBVIOUS
<1>1. powPc = "idle" /\ powOk = FALSE
  BY DEF PowInit
<1>2. table \in [Tables -> [Slots -> Element]]
  <2>1. PICK x \in Stale :
          table = [t \in Tables |-> [s \in Slots |-> [c \in Bases |-> (2 * s + 1) * x]]]
    BY DEF PowInit
  <2>2. x \in Int /\ Slots \subseteq Int
    BY WnafAssumption, TableLenIs DEF Slots
  <2>3. \A s \in Slots : [c \in Bases |-> (2 * s + 1) * x] \in Element
    BY <2>2 DEF Element
  <2>4. QED
    BY <2>1, <2>3
<1>3. QED
  BY <1>1, <1>2 DEF PowInv, Begun, TableInv, RecodeInv, EvalInv, PowerIsExact

LEMMA CallStep ==
  ASSUME PowInv, NEW xs, Exponents(xs), PowRefuse(xs) \/ Precompute(xs)
  PROVE  PowInv'
<1>1. CASE PowRefuse(xs)
  BY <1>1 DEF PowRefuse, PowInv, Begun, TableInv, RecodeInv, EvalInv, PowerIsExact
<1>2. CASE Precompute(xs)
  <2>1. /\ powPc' = "table" /\ es' = xs /\ digitsLen' = BitsOf(xs) /\ k' = 1 /\ pos' = 0
        /\ table' = table
    BY <1>2 DEF Precompute
  <2>2. /\ BitsOf(xs) \in 1..LongestPower
        /\ \A j \in 1..Len(xs) : xs[j] \in Nat /\ xs[j] < Pow2[BitsOf(xs) - 1]
    BY <1>2, WidthFits DEF Precompute
  <2>3. Len(xs) \in {1, 2} /\ DOMAIN xs = 1..Len(xs)
    BY ExponentsAre
  <2>4. Begun'
    BY <2>1, <2>2, <2>3 DEF Begun
  <2>5. TableInv'
    BY <2>1, <2>3, TableLenIs DEF PowInv, TableInv, Filled
  <2>6. QED
    BY <2>1, <2>4, <2>5 DEF PowInv, RecodeInv, EvalInv, PowerIsExact
<1>3. QED
  BY <1>1, <1>2

(* Steps that only go on with the tables.                                  *)
LEMMA TableStep ==
  ASSUME PowInv, powPc = "table", powPc' = "table", UNCHANGED <<es, digitsLen>>, TableInv'
  PROVE  PowInv'
BY DEF PowInv, Begun, RecodeInv, EvalInv, PowerIsExact

LEMMA TableStartInv ==
  ASSUME PowInv, TableStart
  PROVE  PowInv'
<1> DEFINE x0 == Scaled(k, 1)
           t1 == [table[k] EXCEPT ![TableLen - 1] = Scaled(k, 2)]
           t2 == [t1 EXCEPT ![0] = x0]
<1>1. /\ powPc = "table" /\ pos = 0 /\ pos' = 1
      /\ UNCHANGED <<powPc, es, digitsLen, k>>
      /\ Len(es) \in {1, 2} /\ k \in 1..(2 * Len(es)) /\ k \in Tables
      /\ table \in [Tables -> [Slots -> Element]]
      /\ Filled(k - 1)
  <2>1. /\ powPc = "table" /\ pos = 0 /\ pos' = 1
        /\ UNCHANGED <<powPc, es, digitsLen, k>>
    BY DEF TableStart
  <2>2. Begun /\ TableInv
    BY DEF PowInv
  <2>3. /\ table \in [Tables -> [Slots -> Element]]
        /\ k \in 1..(2 * Len(es)) /\ Filled(k - 1)
    BY <2>1, <2>2 DEF TableInv
  <2>4. Len(es) \in {1, 2}
    BY <2>1, <2>2 DEF Begun
  <2>5. k \in Tables
    <3>1. Len(es) = 1 => k \in 1..4
      BY <2>3
    <3>2. Len(es) = 2 => k \in 1..4
      BY <2>3
    <3>3. QED
      BY <2>4, <3>1, <3>2 DEF Tables
  <2>6. QED
    BY <2>1, <2>3, <2>4, <2>5
<1>2. TableBase(k) = x0 /\ PowMul(x0, x0) = Scaled(k, 2) /\ x0 \in Element /\ Scaled(k, 2) \in Element
  <2>1. /\ \A m, n \in Int : PowMul(Scaled(k, m), Scaled(k, n)) = Scaled(k, m + n)
        /\ \A m \in Int : Scaled(k, m) \in Element
        /\ TableBase(k) = Scaled(k, 1)
    BY <1>1, ScaledIs
  <2>2. PowMul(Scaled(k, 1), Scaled(k, 1)) = Scaled(k, 1 + 1)
    BY <2>1
  <2>3. QED
    BY <2>1, <2>2
<1>3. table' = [table EXCEPT ![k] = t2]
  BY <1>2 DEF TableStart
<1>4. 0 \in Slots /\ TableLen - 1 \in Slots /\ TableLen \in Nat /\ TableLen >= 1
  BY TableLenIs DEF Slots
<1>5. table[k] \in [Slots -> Element]
  BY <1>1
<1>6. /\ t2 \in [Slots -> Element] /\ t2[0] = x0
      /\ TableLen > 1 => t2[TableLen - 1] = Scaled(k, 2)
  BY <1>2, <1>4, <1>5
<1> HIDE DEF t1, t2, x0
<1>7. /\ table' \in [Tables -> [Slots -> Element]]
      /\ table'[k] = t2
      /\ \A t \in Tables : t # k => table'[t] = table[t]
  BY <1>1, <1>3, <1>6
<1>8. Filled(k - 1)'
  <2>1. \A t \in 1..(k - 1) : t \in Tables /\ t # k
    BY <1>1 DEF Tables
  <2>2. QED
    BY <1>1, <1>7, <2>1 DEF Filled
<1>9. \A s \in 0..(pos' - 1) : table'[k'][s] = OddPower(k', s)
  <2>1. OddPower(k, 0) = x0
    BY DEF OddPower, x0
  <2>2. QED
    BY <1>1, <1>6, <1>7, <2>1
<1>10. TableInv'
  BY <1>1, <1>4, <1>6, <1>7, <1>8, <1>9 DEF TableInv
<1>11. QED
  BY <1>1, <1>10, TableStep

LEMMA TableTurnInv ==
  ASSUME PowInv, TableTurn
  PROVE  PowInv'
<1> DEFINE t2 == [table[k] EXCEPT ![pos] = NextPower(table[k], pos)]
<1>1. /\ powPc = "table" /\ pos > 0 /\ pos < TableLen /\ pos' = pos + 1
      /\ UNCHANGED <<powPc, es, digitsLen, k>>
      /\ Len(es) \in {1, 2} /\ k \in 1..(2 * Len(es)) /\ k \in Tables
      /\ table \in [Tables -> [Slots -> Element]]
      /\ Filled(k - 1) /\ pos \in 0..TableLen
      /\ \A s \in 0..(pos - 1) : table[k][s] = OddPower(k, s)
      /\ table[k][TableLen - 1] = Scaled(k, 2)
      /\ table' = [table EXCEPT ![k] = t2]
  <2>1. /\ powPc = "table" /\ pos > 0 /\ pos < TableLen /\ pos' = pos + 1
        /\ UNCHANGED <<powPc, es, digitsLen, k>>
        /\ table' = [table EXCEPT ![k] = t2]
    BY DEF TableTurn
  <2> HIDE DEF t2
  <2>2. /\ Len(es) \in {1, 2} /\ k \in 1..(2 * Len(es))
        /\ table \in [Tables -> [Slots -> Element]]
        /\ Filled(k - 1) /\ pos \in 0..TableLen
        /\ \A s \in 0..(pos - 1) : table[k][s] = OddPower(k, s)
        /\ table[k][TableLen - 1] = Scaled(k, 2)
    BY <2>1 DEF PowInv, Begun, TableInv
  <2>3. k \in Tables
    <3>1. Len(es) \in {1, 2} /\ k \in 1..(2 * Len(es))
      BY <2>2
    <3>2. CASE Len(es) = 1
      BY <3>1, <3>2 DEF Tables
    <3>3. CASE Len(es) = 2
      BY <3>1, <3>3 DEF Tables
    <3>4. QED
      BY <3>1, <3>2, <3>3
  <2>4. QED
    BY <2>1, <2>2, <2>3
<1>2. TableLen \in Nat /\ TableLen >= 1 /\ pos \in Slots /\ pos - 1 \in 0..(pos - 1)
  BY <1>1, TableLenIs DEF Slots
<1>3. NextPower(table[k], pos) = OddPower(k, pos) /\ OddPower(k, pos) \in Element
  <2>1. NextPower(table[k], pos) = PowMul(Scaled(k, 2 * (pos - 1) + 1), Scaled(k, 2))
    BY <1>1, <1>2 DEF NextPower, OddPower
  <2>2. /\ 2 * (pos - 1) + 1 \in Int /\ (2 * (pos - 1) + 1) + 2 = 2 * pos + 1
        /\ 2 * pos + 1 \in Int
    BY <1>1
  <2>3. /\ PowMul(Scaled(k, 2 * (pos - 1) + 1), Scaled(k, 2))
             = Scaled(k, (2 * (pos - 1) + 1) + 2)
        /\ Scaled(k, 2 * pos + 1) \in Element
    <3>1. /\ \A m, n \in Int : PowMul(Scaled(k, m), Scaled(k, n)) = Scaled(k, m + n)
          /\ \A m \in Int : Scaled(k, m) \in Element
      BY <1>1, ScaledIs
    <3>2. QED
      BY <2>2, <3>1
  <2>4. QED
    BY <2>1, <2>2, <2>3 DEF OddPower
<1>4. table[k] \in [Slots -> Element]
  BY <1>1
<1>5. /\ t2 \in [Slots -> Element] /\ t2[pos] = OddPower(k, pos)
      /\ \A s \in Slots : s # pos => t2[s] = table[k][s]
  BY <1>2, <1>3, <1>4
<1> HIDE DEF t2
<1>6. /\ table' \in [Tables -> [Slots -> Element]]
      /\ table'[k] = t2
      /\ \A t \in Tables : t # k => table'[t] = table[t]
  BY <1>1, <1>5
<1>7. Filled(k - 1)'
  <2>1. \A t \in 1..(k - 1) : t \in Tables /\ t # k
    BY <1>1 DEF Tables
  <2>2. QED
    BY <1>1, <1>6, <2>1 DEF Filled
<1>8. \A s \in 0..(pos' - 1) : table'[k'][s] = OddPower(k', s)
  <2>1. ASSUME NEW s \in 0..(pos' - 1) PROVE table'[k'][s] = OddPower(k', s)
    <3>1. s = pos \/ (s \in 0..(pos - 1) /\ s \in Slots /\ s # pos)
      BY <1>1, <1>2 DEF Slots
    <3>2. QED
      BY <1>1, <1>5, <1>6, <3>1
  <2>2. QED
    BY <2>1
<1>9. pos' < TableLen => table'[k'][TableLen - 1] = Scaled(k', 2)
  <2>1. pos' < TableLen => TableLen - 1 # pos /\ TableLen - 1 \in Slots
    BY <1>1, <1>2 DEF Slots
  <2>2. QED
    BY <1>1, <1>5, <1>6, <2>1
<1>10. TableInv'
  BY <1>1, <1>2, <1>6, <1>7, <1>8, <1>9 DEF TableInv
<1>11. QED
  BY <1>1, <1>10, TableStep

LEMMA TableNextInv ==
  ASSUME PowInv, TableNext
  PROVE  PowInv'
<1>1. /\ powPc = "table" /\ pos = TableLen /\ pos' = 0 /\ k' = k + 1
      /\ UNCHANGED <<powPc, es, digitsLen, table>>
      /\ Len(es) \in {1, 2} /\ k \in 1..(2 * Len(es)) /\ k < 2 * Len(es)
      /\ table \in [Tables -> [Slots -> Element]]
      /\ Filled(k - 1)
      /\ \A s \in 0..(pos - 1) : table[k][s] = OddPower(k, s)
  BY DEF TableNext, PowInv, Begun, TableInv
<1>2. \A t \in 1..(k' - 1), s \in Slots : table'[t][s] = OddPower(t, s)
  <2>1. ASSUME NEW t \in 1..(k' - 1), NEW s \in Slots PROVE table'[t][s] = OddPower(t, s)
    <3>1. s \in 0..(pos - 1)
      BY <1>1 DEF Slots
    <3>2. t = k \/ t \in 1..(k - 1)
      BY <1>1
    <3>3. QED
      BY <1>1, <3>1, <3>2 DEF Filled
  <2>2. QED
    BY <2>1
<1>3. TableInv'
  <2>1. Filled(k - 1)'
    BY <1>2 DEF Filled
  <2>2. k' \in 1..(2 * Len(es'))
    BY <1>1
  <2>3. QED
    BY <1>1, <2>1, <2>2, TableLenIs DEF TableInv
<1>4. QED
  BY <1>1, <1>3, TableStep
------------------------------------------------------------------------------
(* Recoding.                                                               *)

(* Before the first turn nothing is recoded and the exponent is all there. *)
LEMMA Whole ==
  ASSUME Begun, powPc \in {"table", "recode"}, NEW j \in 1..Len(es), NEW d
  PROVE  /\ \E rest : Rests(d, digitsLen - 1, es[j], rest) /\ rest[digitsLen - 1] = es[j]
         /\ Fine(d, digitsLen - 1) /\ Room(d, digitsLen - 1, es[j])
         /\ es[j] \in Nat /\ es[j] <= Pow2[digitsLen - 1]
<1>1. digitsLen \in 1..LongestPower /\ es[j] \in Nat /\ es[j] < Pow2[digitsLen - 1]
  BY DEF Begun
<1>2. digitsLen - 1 \in 0..LongestPower /\ Pow2[digitsLen - 1] \in Nat
  BY <1>1, PowersPositive, LongestIs
<1> DEFINE rest == [q \in (digitsLen - 1)..(digitsLen - 1) |-> es[j]]
<1>3. Rests(d, digitsLen - 1, es[j], rest) /\ rest[digitsLen - 1] = es[j]
  BY <1>1 DEF Rests
<1>4. Fine(d, digitsLen - 1) /\ Room(d, digitsLen - 1, es[j])
  BY <1>1, LongestIs DEF Fine, Room
<1>5. QED
  BY <1>1, <1>2, <1>3, <1>4

LEMMA TablesEndInv ==
  ASSUME PowInv, TablesEnd
  PROVE  PowInv'
<1>1. /\ powPc = "table" /\ pos = TableLen /\ k = 2 * Len(es)
      /\ powPc' = "recode" /\ k' = 1 /\ e' = es[1] /\ pos' = digitsLen - 1
      /\ digits' = [j \in DOMAIN es |-> [x \in 0..(digitsLen - 1) |-> 0]]
      /\ UNCHANGED <<es, digitsLen, table>>
  BY DEF TablesEnd
<1>2. /\ Len(es) \in {1, 2} /\ DOMAIN es = 1..Len(es) /\ digitsLen \in 1..LongestPower
  BY <1>1 DEF PowInv, Begun
<1>3. Begun'
  BY <1>1 DEF PowInv, Begun
<1>4. TableInv'
  <2>1. /\ table \in [Tables -> [Slots -> Element]] /\ Filled(k - 1)
        /\ \A s \in 0..(pos - 1) : table[k][s] = OddPower(k, s)
    BY <1>1 DEF PowInv, TableInv
  <2>2. ASSUME NEW t \in 1..(2 * Len(es)), NEW s \in Slots PROVE table[t][s] = OddPower(t, s)
    <3>1. s \in 0..(pos - 1)
      BY <1>1 DEF Slots
    <3>2. t = k \/ t \in 1..(k - 1)
      BY <1>1, <1>2
    <3>3. QED
      BY <2>1, <3>1, <3>2 DEF Filled
  <2>3. Filled(2 * Len(es))'
    BY <1>1, <2>2 DEF Filled
  <2>4. QED
    BY <1>1, <2>1, <2>3 DEF TableInv
<1>5. RecodeInv'
  <2>1. DigitsType'
    BY <1>1, <1>2 DEF DigitsType, Positions
  <2>2. 1 \in 1..Len(es) /\ digitsLen - 1 \in -1..(digitsLen - 1) /\ digitsLen - 1 >= 0
    BY <1>2, LongestIs
  <2>3. /\ \E rest : Rests(digits'[1], digitsLen - 1, es[1], rest) /\ rest[digitsLen - 1] = es[1]
        /\ Fine(digits'[1], digitsLen - 1) /\ Room(digits'[1], digitsLen - 1, es[1])
        /\ es[1] \in Nat /\ es[1] <= Pow2[digitsLen - 1]
    BY <1>1, <2>2, Whole DEF PowInv
  <2>4. (\E rest : Rests(digits[k], pos, es[k], rest) /\ rest[pos] = e)'
    BY <1>1, <2>3 DEF Rests
  <2>5. (Fine(digits[k], pos) /\ Room(digits[k], pos, e))'
    BY <1>1, <2>3 DEF Fine, Room
  <2>6. (k \in 1..Len(es) /\ pos \in -1..(digitsLen - 1))'
    BY <1>1, <2>2
  <2>7. (e \in Nat /\ (pos >= 0 => e <= Pow2[pos]) /\ (pos < 0 => e = 0))'
    BY <1>1, <2>2, <2>3
  <2>8. (\A j \in 1..(k - 1) : Recoded(digits[j], es[j]) /\ Fine(digits[j], -1))'
    BY <1>1
  <2>9. QED
    BY <2>1, <2>4, <2>5, <2>6, <2>7, <2>8 DEF RecodeInv
<1>6. QED
  BY <1>1, <1>3, <1>4, <1>5 DEF PowInv, EvalInv, PowerIsExact

LEMMA WnafNextInv ==
  ASSUME PowInv, WnafNext
  PROVE  PowInv'
<1>1. /\ powPc = "recode" /\ pos < 0 /\ k < Len(es)
      /\ k' = k + 1 /\ e' = es[k + 1] /\ pos' = digitsLen - 1
      /\ UNCHANGED <<powPc, es, digitsLen, table, digits>>
  BY DEF WnafNext
<1>2. /\ Len(es) \in {1, 2} /\ digitsLen \in 1..LongestPower /\ k \in 1..Len(es)
      /\ pos = -1 /\ e = 0 /\ DigitsType
      /\ \A j \in 1..(k - 1) : Recoded(digits[j], es[j]) /\ Fine(digits[j], -1)
      /\ \E rest : Rests(digits[k], -1, es[k], rest) /\ rest[-1] = 0
      /\ Fine(digits[k], -1)
  BY <1>1 DEF PowInv, Begun, RecodeInv
<1>3. Begun' /\ TableInv'
  BY <1>1 DEF PowInv, Begun, TableInv, Filled
<1>4. RecodeInv'
  <2>1. DigitsType'
    BY <1>1, <1>2 DEF DigitsType, Positions
  <2>2. k + 1 \in 1..Len(es) /\ digitsLen - 1 \in -1..(digitsLen - 1) /\ digitsLen - 1 >= 0
    BY <1>1, <1>2, LongestIs
  <2>3. /\ \E rest : Rests(digits[k + 1], digitsLen - 1, es[k + 1], rest)
                  /\ rest[digitsLen - 1] = es[k + 1]
        /\ Fine(digits[k + 1], digitsLen - 1) /\ Room(digits[k + 1], digitsLen - 1, es[k + 1])
        /\ es[k + 1] \in Nat /\ es[k + 1] <= Pow2[digitsLen - 1]
    BY <1>1, <2>2, Whole DEF PowInv
  <2>4. ASSUME NEW j \in 1..k PROVE Recoded(digits[j], es[j]) /\ Fine(digits[j], -1)
    <3>1. j = k \/ j \in 1..(k - 1)
      BY <1>2
    <3>2. Recoded(digits[k], es[k])
      BY <1>2 DEF Recoded
    <3>3. QED
      BY <1>2, <3>1, <3>2
  <2>5. k' - 1 = k
    BY <1>1, <1>2
  <2>6. (\E rest : Rests(digits[k], pos, es[k], rest) /\ rest[pos] = e)'
    BY <1>1, <2>3 DEF Rests
  <2>7. (Fine(digits[k], pos) /\ Room(digits[k], pos, e))'
    BY <1>1, <2>3 DEF Fine, Room
  <2>8. (k \in 1..Len(es) /\ pos \in -1..(digitsLen - 1))'
    BY <1>1, <2>2
  <2>9. (e \in Nat /\ (pos >= 0 => e <= Pow2[pos]) /\ (pos < 0 => e = 0))'
    BY <1>1, <2>2, <2>3
  <2>10. (\A j \in 1..(k - 1) : Recoded(digits[j], es[j]) /\ Fine(digits[j], -1))'
    <3>1. ASSUME NEW j \in 1..k PROVE Recoded(digits[j], es[j])' /\ Fine(digits[j], -1)'
      <4>1. Recoded(digits[j], es[j]) /\ Fine(digits[j], -1)
        BY <2>4
      <4>2. UNCHANGED <<digits, es, digitsLen>>
        BY <1>1
      <4>3. Recoded(digits[j], es[j])'
        BY <4>1, <4>2 DEF Recoded, Rests
      <4>4. Fine(digits[j], -1)'
        BY <4>1, <4>2 DEF Fine
      <4>5. QED
        BY <4>3, <4>4
    <3>2. QED
      BY <2>5, <3>1
  <2>11. QED
    BY <2>1, <2>6, <2>7, <2>8, <2>9, <2>10 DEF RecodeInv
<1>5. QED
  BY <1>1, <1>3, <1>4 DEF PowInv, EvalInv, PowerIsExact
LEMMA WnafEndsInv ==
  ASSUME PowInv, WnafEnds
  PROVE  PowInv'
<1>1. /\ powPc = "recode" /\ pos < 0 /\ k = Len(es)
      /\ powPc' = "eval" /\ pos' = 0 /\ powRet' = PowOne
      /\ UNCHANGED <<es, digitsLen, table, digits>>
  BY DEF WnafEnds
<1>2. /\ Len(es) \in {1, 2} /\ digitsLen \in 1..LongestPower /\ k \in 1..Len(es)
      /\ pos = -1 /\ e = 0 /\ DigitsType
      /\ \A j \in 1..(k - 1) : Recoded(digits[j], es[j]) /\ Fine(digits[j], -1)
      /\ \E rest : Rests(digits[k], -1, es[k], rest) /\ rest[-1] = 0
      /\ Fine(digits[k], -1)
  BY <1>1 DEF PowInv, Begun, RecodeInv
<1>3. Begun' /\ TableInv'
  BY <1>1 DEF PowInv, Begun, TableInv, Filled
<1>4. /\ PowOne \in Element /\ \A j \in 1..Len(es) : PowOne[j] = 0
      /\ PowOne[2] = 0
  <2>1. PowOne \in Element /\ \A c \in 1..2 : PowOne[c] = 0
    BY DEF PowOne, Element, Bases
  <2>2. \A j \in 1..Len(es) : j \in 1..2
    <3>1. \A n \in {1, 2} : \A j \in 1..n : j \in 1..2
      OBVIOUS
    <3>2. QED
      BY <1>2, <3>1, Zenon
  <2>3. QED
    BY <2>1, <2>2
<1>5. EvalInv'
  <2>1. DigitsType'
    BY <1>1, <1>2 DEF DigitsType, Positions
  <2>2. ASSUME NEW j \in 1..Len(es)
        PROVE  (/\ Fine(digits[j], -1)
                /\ \E rest : Rests(digits[j], -1, es[j], rest) /\ rest[-1] = 0 /\ powRet[j] = rest[pos - 1])'
    <3>1. j = k \/ j \in 1..(k - 1)
      BY <1>1, <1>2
    <3>2. Fine(digits[j], -1)
      BY <1>2, <3>1
    <3>3. \E rest : Rests(digits[j], -1, es[j], rest) /\ rest[-1] = 0
      BY <1>2, <3>1 DEF Recoded
    <3>4. Fine(digits[j], -1)'
      BY <1>1, <3>2 DEF Fine
    <3>5. PICK rest : Rests(digits[j], -1, es[j], rest) /\ rest[-1] = 0
      BY <3>3
    <3>6. Rests(digits[j], -1, es[j], rest)'
      BY <1>1, <3>5 DEF Rests
    <3>7. powRet'[j] = 0 /\ pos' - 1 = -1
      BY <1>1, <1>4
    <3>8. QED
      BY <3>4, <3>5, <3>6, <3>7
  <2>3. pos' \in 0..digitsLen'
    BY <1>1, <1>2
  <2>4. QED
    BY <1>1, <1>4, <2>1, <2>2, <2>3 DEF EvalInv
<1>6. QED
  BY <1>1, <1>3, <1>5 DEF PowInv, RecodeInv, PowerIsExact

(* One more digit: what is left before it is twice what is left after it,  *)
(* and the digit.                                                          *)
LEMMA OneMoreDigit ==
  ASSUME NEW d \in [Positions -> Int], NEW x, NEW y \in Int, NEW z \in Int,
         digitsLen \in Nat, pos \in 0..(digitsLen - 1),
         \E rest : Rests(d, pos, x, rest) /\ rest[pos] = y, y = 2 * z + d[pos]
  PROVE  \E rest : Rests(d, pos - 1, x, rest) /\ rest[pos - 1] = z
<1>1. PICK rest : Rests(d, pos, x, rest) /\ rest[pos] = y
  OBVIOUS
<1> DEFINE r2 == [q \in (pos - 1)..(digitsLen - 1) |-> IF q = pos - 1 THEN z ELSE rest[q]]
<1>2. /\ rest \in [pos..(digitsLen - 1) -> Int] /\ rest[digitsLen - 1] = x
      /\ \A q \in (pos + 1)..(digitsLen - 1) : rest[q] = 2 * rest[q - 1] + d[q]
  BY <1>1 DEF Rests
<1>3. r2 \in [(pos - 1)..(digitsLen - 1) -> Int]
  <2>1. \A q \in (pos - 1)..(digitsLen - 1) : q # pos - 1 => q \in pos..(digitsLen - 1)
    OBVIOUS
  <2>2. QED
    BY <1>2, <2>1
<1>4. r2[pos - 1] = z /\ r2[pos] = y /\ r2[digitsLen - 1] = x
  BY <1>1, <1>2
<1>5. ASSUME NEW q \in pos..(digitsLen - 1) PROVE r2[q] = 2 * r2[q - 1] + d[q]
  <2>1. CASE q = pos
    BY <1>4, <2>1
  <2>2. CASE q # pos
    <3>1. q \in (pos + 1)..(digitsLen - 1) /\ r2[q] = rest[q] /\ r2[q - 1] = rest[q - 1]
      BY <2>2
    <3>2. QED
      BY <1>2, <3>1
  <2>3. QED
    BY <2>1, <2>2
<1> HIDE DEF r2
<1>6. (pos - 1) + 1 = pos
  OBVIOUS
<1>7. Rests(d, pos - 1, x, r2)
  BY <1>3, <1>4, <1>5, <1>6 DEF Rests
<1>8. QED
  BY <1>4, <1>7
(* A digit that is not zero leaves a multiple of 2^(w-1), and while the    *)
(* turns after an earlier one last, what is left is even.                  *)
LEMMA StaysFine ==
  ASSUME NEW d, NEW d2, NEW x \in Nat,
         digitsLen \in Nat, pos \in 0..(digitsLen - 1), digitsLen <= LongestPower,
         \A q \in (pos + 1)..(digitsLen - 1) : d2[q] = d[q],
         d2[pos] = Digit(x),
         Fine(d, pos), Room(d, pos, x)
  PROVE  Fine(d2, pos - 1) /\ Room(d2, pos - 1, (x - Digit(x)) \div 2)
<1> DEFINE z == (x - Digit(x)) \div 2
<1>1. /\ WindowSize \in Nat /\ WindowSize >= 2 /\ LongestPower \in Nat
      /\ WindowSize <= LongestPower /\ (pos - 1) + 1 = pos
  BY LongestIs, WnafAssumption
<1>2. /\ Digit(x) \in Int
      /\ x % 2 = 0 => Digit(x) = 0
      /\ x % 2 = 1 => /\ Digit(x) % 2 = 1
                      /\ Magnitude(Digit(x)) < Pow2[WindowSize - 1]
                      /\ \E q \in Nat : x - Digit(x) = Pow2[WindowSize] * q
  BY DigitIs
<1>3. \A q \in pos..(digitsLen - 1) : q = pos \/ q \in (pos + 1)..(digitsLen - 1)
  OBVIOUS
<1>4. \A n \in 1..WindowSize : /\ Pow2[n] = 2 * Pow2[n - 1] /\ Pow2[n - 1] \in Nat
  <2>1. ASSUME NEW n \in 1..WindowSize PROVE Pow2[n] = 2 * Pow2[n - 1] /\ Pow2[n - 1] \in Nat
    <3>1. n - 1 \in 0..(LongestPower - 1) /\ (n - 1) + 1 = n /\ n - 1 \in 0..LongestPower
      BY <1>1
    <3>2. QED
      BY <3>1, Pow2Assumption
  <2>2. QED
    BY <2>1
<1>5. ASSUME NEW y \in (pos + 1)..(digitsLen - 1), d[y] # 0, y - pos < WindowSize
      PROVE  x % 2 = 0 /\ \E m \in Int : z = Pow2[WindowSize - (y - (pos - 1))] * m
  <2>1. PICK m \in Int : x = Pow2[WindowSize - (y - pos)] * m
    BY <1>5 DEF Room
  <2>2. /\ WindowSize - (y - pos) \in 1..WindowSize
        /\ (WindowSize - (y - pos)) - 1 = WindowSize - (y - (pos - 1))
    BY <1>1, <1>5
  <2> DEFINE P == Pow2[WindowSize - (y - (pos - 1))]
  <2>3. Pow2[WindowSize - (y - pos)] = 2 * P /\ P \in Nat
    BY <1>4, <2>2
  <2> HIDE DEF P
  <2>4. x = 2 * (P * m) /\ P * m \in Int
    BY <2>1, <2>3
  <2>5. x % 2 = 0 /\ x \div 2 = P * m
    BY <2>4
  <2>6. z = P * m
    BY <1>2, <2>5
  <2>7. QED
    BY <2>5, <2>6 DEF P
<1>6. Fine(d2, pos - 1)
  <2>1. ASSUME NEW y \in pos..(digitsLen - 1), d2[y] # 0
        PROVE  d2[y] % 2 = 1 /\ Magnitude(d2[y]) < Pow2[WindowSize - 1]
    <3>1. CASE y = pos
      BY <1>2, <2>1, <3>1
    <3>2. CASE y \in (pos + 1)..(digitsLen - 1)
      BY <2>1, <3>2 DEF Fine
    <3>3. QED
      BY <1>3, <3>1, <3>2
  <2>2. ASSUME NEW y \in pos..(digitsLen - 1), NEW v \in pos..(digitsLen - 1),
               d2[y] # 0, y < v, v < y + WindowSize
        PROVE  d2[v] = 0
    <3>1. v \in (pos + 1)..(digitsLen - 1)
      BY <2>2
    <3>2. CASE y = pos
      <4>1. v - pos < WindowSize
        BY <1>1, <2>2, <3>2
      <4>2. x % 2 = 1
        BY <1>2, <2>2, <3>2
      <4>3. d[v] = 0
        BY <1>5, <3>1, <4>1, <4>2
      <4>4. QED
        BY <3>1, <4>3
    <3>3. CASE y \in (pos + 1)..(digitsLen - 1)
      BY <2>2, <3>1, <3>3 DEF Fine
    <3>4. QED
      BY <1>3, <3>2, <3>3
  <2>3. QED
    BY <1>1, <2>1, <2>2 DEF Fine
<1>7. Room(d2, pos - 1, z)
  <2>1. ASSUME NEW y \in pos..(digitsLen - 1), d2[y] # 0, y - (pos - 1) < WindowSize
        PROVE  \E m \in Int : z = Pow2[WindowSize - (y - (pos - 1))] * m
    <3>1. CASE y = pos
      <4>1. PICK q \in Nat : x - Digit(x) = Pow2[WindowSize] * q
        BY <1>2, <2>1, <3>1
      <4>2. WindowSize - (y - (pos - 1)) = WindowSize - 1
        BY <1>1, <3>1
      <4>3. Pow2[WindowSize] = 2 * Pow2[WindowSize - 1] /\ Pow2[WindowSize - 1] \in Nat
        BY <1>1, <1>4
      <4> DEFINE P == Pow2[WindowSize - 1]
      <4> HIDE DEF P
      <4>4. x - Digit(x) = 2 * (P * q) /\ P * q \in Int
        BY <4>1, <4>3 DEF P
      <4>5. z = P * q
        BY <4>4
      <4>6. QED
        BY <4>2, <4>5 DEF P
    <3>2. CASE y \in (pos + 1)..(digitsLen - 1)
      <4>1. d[y] # 0 /\ y - pos < WindowSize
        BY <1>1, <2>1, <3>2
      <4>2. QED
        BY <1>5, <3>2, <4>1
    <3>3. QED
      BY <1>3, <3>1, <3>2
  <2>2. QED
    BY <1>1, <2>1 DEF Room
<1>8. QED
  BY <1>6, <1>7

LEMMA WnafTurnInv ==
  ASSUME PowInv, WnafTurn
  PROVE  PowInv'
<1> DEFINE z == (e - Digit(e)) \div 2
           d == digits[k]
           d2 == [d EXCEPT ![pos] = Digit(e)]
<1>1. /\ powPc = "recode" /\ pos >= 0 /\ e' = z /\ pos' = pos - 1
      /\ digits' = [digits EXCEPT ![k] = d2]
      /\ UNCHANGED <<powPc, es, digitsLen, table, k>>
  BY DEF WnafTurn
<1>2. /\ digitsLen \in 1..LongestPower /\ k \in 1..Len(es)
      /\ pos \in -1..(digitsLen - 1) /\ DigitsType
      /\ \A j \in 1..(k - 1) : Recoded(digits[j], es[j]) /\ Fine(digits[j], -1)
      /\ e \in Nat /\ e <= Pow2[pos]
      /\ \E rest : Rests(d, pos, es[k], rest) /\ rest[pos] = e
      /\ Fine(d, pos) /\ Room(d, pos, e)
  BY <1>1 DEF PowInv, Begun, RecodeInv
<1>3. /\ pos \in 0..(digitsLen - 1) /\ pos \in Positions /\ digitsLen \in Nat
      /\ digitsLen <= LongestPower /\ pos \in 0..LongestPower
  BY <1>1, <1>2, LongestIs DEF Positions
<1>4. d \in [Positions -> Int] /\ Digit(e) \in Int
  BY <1>2, DigitIs DEF DigitsType
<1>5. /\ d2 \in [Positions -> Int] /\ d2[pos] = Digit(e)
      /\ \A q \in Positions : q # pos => d2[q] = d[q]
  BY <1>3, <1>4
<1>6. /\ z \in Nat /\ e = 2 * z + Digit(e)
      /\ pos >= 1 => z <= Pow2[pos - 1]
      /\ pos = 0 => z = 0
  BY <1>2, <1>3, TurnShrinks
<1>7. \A q \in (pos + 1)..(digitsLen - 1) : d2[q] = d[q]
  BY <1>3, <1>5 DEF Positions
<1> HIDE DEF d2, z
<1>8. /\ digits' \in [1..Len(es) -> [Positions -> Int]] /\ digits'[k] = d2
      /\ \A j \in 1..(k - 1) : digits'[j] = digits[j]
  BY <1>1, <1>2, <1>5 DEF DigitsType
<1>9. Fine(d2, pos - 1) /\ Room(d2, pos - 1, z)
  BY <1>2, <1>3, <1>5, <1>7, StaysFine DEF z
<1>10. \E rest : Rests(d2, pos - 1, es[k], rest) /\ rest[pos - 1] = z
  <2>1. \E rest : Rests(d2, pos, es[k], rest) /\ rest[pos] = e
    BY <1>2, <1>7 DEF Rests
  <2>2. e \in Int /\ z \in Int /\ e = 2 * z + d2[pos]
    BY <1>2, <1>5, <1>6
  <2>3. QED
    BY <1>3, <1>5, <2>1, <2>2, OneMoreDigit
<1>11. Begun' /\ TableInv'
  BY <1>1 DEF PowInv, Begun, TableInv, Filled
<1>12. RecodeInv'
  <2>1. DigitsType'
    BY <1>1, <1>8 DEF DigitsType, Positions
  <2>2. (\E rest : Rests(digits[k], pos, es[k], rest) /\ rest[pos] = e)'
    BY <1>1, <1>8, <1>10 DEF Rests
  <2>3. (Fine(digits[k], pos) /\ Room(digits[k], pos, e))'
    BY <1>1, <1>8, <1>9 DEF Fine, Room
  <2>4. (k \in 1..Len(es) /\ pos \in -1..(digitsLen - 1))'
    BY <1>1, <1>2, <1>3
  <2>5. (e \in Nat /\ (pos >= 0 => e <= Pow2[pos]) /\ (pos < 0 => e = 0))'
    BY <1>1, <1>3, <1>6
  <2>6. ASSUME NEW j \in 1..(k - 1) PROVE Recoded(digits[j], es[j])' /\ Fine(digits[j], -1)'
    <3>1. Recoded(digits[j], es[j]) /\ Fine(digits[j], -1)
      BY <1>2
    <3>2. digits'[j] = digits[j] /\ UNCHANGED <<es, digitsLen>>
      BY <1>1, <1>8
    <3>3. Recoded(digits[j], es[j])'
      BY <3>1, <3>2 DEF Recoded, Rests
    <3>4. Fine(digits[j], -1)'
      BY <3>1, <3>2 DEF Fine
    <3>5. QED
      BY <3>3, <3>4
  <2>7. (\A j \in 1..(k - 1) : Recoded(digits[j], es[j]) /\ Fine(digits[j], -1))'
    BY <1>1, <2>6
  <2>8. QED
    BY <2>1, <2>2, <2>3, <2>4, <2>5, <2>7 DEF RecodeInv
<1>13. QED
  BY <1>1, <1>11, <1>12 DEF PowInv, EvalInv, PowerIsExact
------------------------------------------------------------------------------
(* Evaluation.                                                             *)

LEMMA OneMulIs ==
  ASSUME TableInv, powPc = "eval", NEW j \in 1..2, j <= Len(es), Len(es) \in {1, 2},
         NEW w \in Int,
         w # 0 => w % 2 = 1 /\ Magnitude(w) < Pow2[WindowSize - 1]
  PROVE  OneMul(j, w) = Power(j, w)
<1>1. /\ TableLen \in Nat /\ TableLen >= 1 /\ Pow2[WindowSize - 1] = 2 * TableLen
      /\ Filled(2 * Len(es))
  BY TableLenIs DEF TableInv
<1>2. 2 * j - 1 \in 1..(2 * Len(es)) /\ 2 * j \in 1..(2 * Len(es))
  <2>1. CASE Len(es) = 1
    BY <2>1
  <2>2. CASE Len(es) = 2
    BY <2>2
  <2>3. QED
    BY <2>1, <2>2
<1>3. CASE w > 0
  <2> DEFINE s == (w - 1) \div 2
  <2>1. s \in Slots /\ 2 * s + 1 = w
    BY <1>1, <1>3 DEF Slots, Magnitude
  <2>2. OneMul(j, w) = OddPower(2 * j - 1, s)
    BY <1>1, <1>2, <1>3, <2>1 DEF OneMul, PTable, Filled
  <2>3. (2 * j - 1) % 2 = 1 /\ ((2 * j - 1) + 1) \div 2 = j
    OBVIOUS
  <2> HIDE DEF s
  <2>4. QED
    BY <2>1, <2>2, <2>3 DEF OddPower, Scaled
<1>4. CASE w < 0
  <2> DEFINE s == (-1 - w) \div 2
  <2>1. s \in Slots /\ 2 * s + 1 = -w
    BY <1>1, <1>4 DEF Slots, Magnitude
  <2>2. OneMul(j, w) = OddPower(2 * j, s)
    BY <1>1, <1>2, <1>4, <2>1 DEF OneMul, NTable, Filled
  <2>3. (2 * j) % 2 = 0 /\ (2 * j) \div 2 = j /\ -(-w) = w
    OBVIOUS
  <2> HIDE DEF s
  <2>4. QED
    BY <2>1, <2>2, <2>3 DEF OddPower, Scaled
<1>5. CASE w = 0
  BY <1>5 DEF OneMul, PowOne, Power, Bases
<1>6. QED
  BY <1>3, <1>4, <1>5

LEMMA EvaluateInv ==
  ASSUME PowInv, Evaluate
  PROVE  PowInv'
<1> DEFINE squared == IF pos = 0 THEN powRet ELSE PowMul(powRet, powRet)
           first == PowMul(squared, OneMul(1, digits[1][pos]))
<1>1. /\ powPc = "eval" /\ pos < digitsLen /\ pos' = pos + 1
      /\ powRet' = IF Len(es) = 1 THEN first ELSE PowMul(first, OneMul(2, digits[2][pos]))
      /\ UNCHANGED <<powPc, es, digitsLen, table, digits>>
  BY DEF Evaluate
<1>2. /\ Len(es) \in {1, 2} /\ digitsLen \in 1..LongestPower
      /\ pos \in 0..digitsLen /\ DigitsType /\ powRet \in Element
      /\ \A j \in 1..Len(es) :
           /\ Fine(digits[j], -1)
           /\ \E rest : Rests(digits[j], -1, es[j], rest) /\ rest[-1] = 0 /\ powRet[j] = rest[pos - 1]
      /\ Len(es) = 1 => powRet[2] = 0
  BY <1>1 DEF PowInv, Begun, EvalInv
<1>3. pos \in Positions /\ pos \in 0..(digitsLen - 1) /\ digitsLen \in Nat /\ (-1) + 1 = 0
  BY <1>1, <1>2, LongestIs DEF Positions
<1>4. \A n \in {1, 2} : \A j \in 1..n : j \in 1..2 /\ j <= n
  OBVIOUS
<1>5. ASSUME NEW j \in 1..Len(es)
      PROVE  /\ j \in 1..2 /\ digits[j][pos] \in Int
             /\ OneMul(j, digits[j][pos]) = Power(j, digits[j][pos])
  <2>1. j \in 1..2 /\ j <= Len(es)
    BY <1>2, <1>4, Zenon
  <2>2. digits[j][pos] \in Int
    BY <1>2, <1>3 DEF DigitsType
  <2>3. digits[j][pos] # 0 => /\ digits[j][pos] % 2 = 1
                             /\ Magnitude(digits[j][pos]) < Pow2[WindowSize - 1]
    BY <1>2, <1>3 DEF Fine
  <2>4. OneMul(j, digits[j][pos]) = Power(j, digits[j][pos])
    BY <1>1, <1>2, <2>1, <2>2, <2>3, OneMulIs DEF PowInv
  <2>5. QED
    BY <2>1, <2>2, <2>4
<1>6. /\ squared \in Element
      /\ \A j \in 1..Len(es) : squared[j] = 2 * powRet[j]
      /\ Len(es) = 1 => squared[2] = 0
  <2>1. powRet[1] \in Int /\ powRet[2] \in Int /\ powRet \in [1..2 -> Int]
    BY <1>2 DEF Element, Bases
  <2>2. CASE pos = 0
    <3>1. \A j \in 1..Len(es) : powRet[j] = 0
      BY <1>2, <2>2
    <3>2. QED
      BY <1>2, <2>2, <3>1
  <2>3. CASE pos # 0
    <3>1. squared = [c \in Bases |-> powRet[c] + powRet[c]]
      BY <2>3 DEF PowMul
    <3>2. /\ squared \in Element
          /\ \A c \in 1..2 : squared[c] = 2 * powRet[c]
      <4> HIDE DEF squared
      <4>1. \A c \in 1..2 : squared[c] = powRet[c] + powRet[c] /\ powRet[c] \in Int
        BY <2>1, <3>1 DEF Bases
      <4>2. squared \in [1..2 -> Int]
        BY <2>1, <3>1 DEF Bases
      <4>3. QED
        BY <4>1, <4>2 DEF Element, Bases
    <3> HIDE DEF squared
    <3>3. squared[2] = 2 * powRet[2]
      BY <3>2
    <3>4. Len(es) = 1 => squared[2] = 0
      BY <1>2, <3>3
    <3>5. QED
      BY <1>5, <3>2, <3>4
  <2>4. QED
    BY <2>2, <2>3
<1> HIDE DEF squared
<1>7. /\ powRet' \in Element
      /\ \A j \in 1..Len(es) : powRet'[j] = 2 * powRet[j] + digits[j][pos]
      /\ Len(es) = 1 => powRet'[2] = 0
  <2>1. squared[1] \in Int /\ squared[2] \in Int
    BY <1>6 DEF Element, Bases
  <2>2. CASE Len(es) = 1
    <3>1. 1 \in 1..Len(es) /\ \A j \in 1..Len(es) : j = 1
      BY <2>2
    <3>2. digits[1][pos] \in Int /\ OneMul(1, digits[1][pos]) = Power(1, digits[1][pos])
      BY <1>5, <3>1
    <3>3. powRet' = PowMul(squared, Power(1, digits[1][pos]))
      BY <1>1, <2>2, <3>2
    <3>4. /\ powRet' \in Element /\ powRet'[1] = squared[1] + digits[1][pos]
          /\ powRet'[2] = squared[2]
      BY <2>1, <3>2, <3>3 DEF PowMul, Power, Element, Bases
    <3>5. squared[1] = 2 * powRet[1] /\ squared[2] = 0
      BY <1>6, <2>2, <3>1
    <3>6. powRet'[1] = 2 * powRet[1] + digits[1][pos]
      BY <3>4, <3>5
    <3>7. QED
      BY <3>1, <3>4, <3>5, <3>6
  <2>3. CASE Len(es) = 2
    <3>1. 1 \in 1..Len(es) /\ 2 \in 1..Len(es) /\ \A j \in 1..Len(es) : j = 1 \/ j = 2
      BY <2>3
    <3>2. /\ digits[1][pos] \in Int /\ OneMul(1, digits[1][pos]) = Power(1, digits[1][pos])
          /\ digits[2][pos] \in Int /\ OneMul(2, digits[2][pos]) = Power(2, digits[2][pos])
      BY <1>5, <3>1
    <3>3. powRet' = PowMul(PowMul(squared, Power(1, digits[1][pos])), Power(2, digits[2][pos]))
      BY <1>1, <2>3, <3>2
    <3>4. /\ powRet' \in Element /\ powRet'[1] = squared[1] + digits[1][pos]
          /\ powRet'[2] = squared[2] + digits[2][pos]
      BY <2>1, <3>2, <3>3 DEF PowMul, Power, Element, Bases
    <3>5. squared[1] = 2 * powRet[1] /\ squared[2] = 2 * powRet[2]
      BY <1>6, <3>1
    <3>6. /\ powRet'[1] = 2 * powRet[1] + digits[1][pos]
          /\ powRet'[2] = 2 * powRet[2] + digits[2][pos]
      BY <3>4, <3>5
    <3>7. QED
      BY <2>3, <3>1, <3>4, <3>6
  <2>4. QED
    BY <1>2, <2>2, <2>3
<1>8. Begun' /\ TableInv'
  BY <1>1 DEF PowInv, Begun, TableInv, Filled
<1>9. EvalInv'
  <2>1. DigitsType'
    BY <1>1, <1>2 DEF DigitsType, Positions
  <2>2. ASSUME NEW j \in 1..Len(es)
        PROVE  (/\ Fine(digits[j], -1)
                /\ \E rest : Rests(digits[j], -1, es[j], rest) /\ rest[-1] = 0 /\ powRet[j] = rest[pos - 1])'
    <3>1. Fine(digits[j], -1)
      BY <1>2
    <3>2. PICK rest : Rests(digits[j], -1, es[j], rest) /\ rest[-1] = 0 /\ powRet[j] = rest[pos - 1]
      BY <1>2
    <3>3. rest[pos] = 2 * rest[pos - 1] + digits[j][pos]
      BY <1>3, <3>2 DEF Rests
    <3>4. powRet'[j] = rest[pos] /\ pos' - 1 = pos
      <4>1. powRet'[j] = 2 * powRet[j] + digits[j][pos]
        BY <1>7
      <4>2. powRet[j] = rest[pos - 1]
        BY <3>2
      <4>3. pos' - 1 = pos
        BY <1>1, <1>3
      <4>4. QED
        BY <3>3, <4>1, <4>2, <4>3
    <3>5. Fine(digits[j], -1)'
      BY <1>1, <3>1 DEF Fine
    <3>6. Rests(digits[j], -1, es[j], rest)'
      BY <1>1, <3>2 DEF Rests
    <3>7. QED
      BY <3>2, <3>4, <3>5, <3>6
  <2>3. pos' \in 0..digitsLen'
    BY <1>1, <1>3
  <2>4. QED
    BY <1>1, <1>7, <2>1, <2>2, <2>3 DEF EvalInv
<1>10. QED
  BY <1>1, <1>8, <1>9 DEF PowInv, RecodeInv, PowerIsExact

LEMMA PowReturnInv ==
  ASSUME PowInv, PowReturn
  PROVE  PowInv'
<1>1. /\ powPc = "eval" /\ pos = digitsLen /\ powPc' = "done"
      /\ UNCHANGED <<es, digitsLen, table, digits, powRet>>
  BY DEF PowReturn
<1>2. /\ Len(es) \in {1, 2} /\ powRet \in Element
      /\ \A j \in 1..Len(es) :
           \E rest : Rests(digits[j], -1, es[j], rest) /\ rest[-1] = 0 /\ powRet[j] = rest[pos - 1]
      /\ Len(es) = 1 => powRet[2] = 0
  BY <1>1 DEF PowInv, Begun, EvalInv
<1>3. \A j \in 1..Len(es) : powRet[j] = es[j]
  BY <1>1, <1>2 DEF Rests
<1>4. powRet = [c \in Bases |-> IF c <= Len(es) THEN es[c] ELSE 0]
  <2>1. CASE Len(es) = 1
    <3>1. powRet[1] = es[1] /\ powRet[2] = 0
      BY <1>2, <1>3, <2>1
    <3>2. QED
      BY <1>2, <2>1, <3>1 DEF Element, Bases
  <2>2. CASE Len(es) = 2
    <3>1. powRet[1] = es[1] /\ powRet[2] = es[2]
      BY <1>3, <2>2
    <3>2. QED
      BY <1>2, <2>2, <3>1 DEF Element, Bases
  <2>3. QED
    BY <1>2, <2>1, <2>2
<1>5. PowerIsExact'
  BY <1>1, <1>4 DEF PowerIsExact
<1>6. QED
  BY <1>1, <1>5 DEF PowInv, Begun, TableInv, RecodeInv, EvalInv

------------------------------------------------------------------------------
LEMMA StepInv == PowInv /\ [PowNext]_powVars => PowInv'
<1> SUFFICES ASSUME PowInv, [PowNext]_powVars PROVE PowInv'
  OBVIOUS
<1>1. CASE UNCHANGED powVars
  <2>1. UNCHANGED <<powPc, es, digitsLen, table, k, e, pos, digits, powRet, powOk>>
    BY <1>1 DEF powVars
  <2>2. Begun' /\ TableInv' /\ PowerIsExact'
    BY <2>1 DEF PowInv, Begun, TableInv, Filled, PowerIsExact
  <2>3. RecodeInv'
    <3>1. SUFFICES ASSUME powPc = "recode" PROVE RecodeInv'
      BY <2>1 DEF RecodeInv
    <3>2. RecodeInv
      BY DEF PowInv
    <3>3. (k \in 1..Len(es) /\ pos \in -1..(digitsLen - 1) /\ DigitsType)'
      BY <2>1, <3>1, <3>2 DEF RecodeInv, DigitsType, Positions
    <3>4. ASSUME NEW j \in 1..(k - 1) PROVE Recoded(digits[j], es[j])' /\ Fine(digits[j], -1)'
      <4>1. Recoded(digits[j], es[j]) /\ Fine(digits[j], -1)
        BY <3>1, <3>2 DEF RecodeInv
      <4>2. Recoded(digits[j], es[j])'
        BY <2>1, <4>1 DEF Recoded, Rests
      <4>3. QED
        BY <2>1, <4>1, <4>2 DEF Fine
    <3>5. (\A j \in 1..(k - 1) : Recoded(digits[j], es[j]) /\ Fine(digits[j], -1))'
      BY <2>1, <3>4
    <3>6. (e \in Nat /\ (pos >= 0 => e <= Pow2[pos]) /\ (pos < 0 => e = 0))'
      BY <2>1, <3>1, <3>2 DEF RecodeInv
    <3>7. (\E rest : Rests(digits[k], pos, es[k], rest) /\ rest[pos] = e)'
      <4>1. \E rest : Rests(digits[k], pos, es[k], rest) /\ rest[pos] = e
        BY <3>1, <3>2 DEF RecodeInv
      <4>2. QED
        BY <2>1, <4>1 DEF Rests
    <3>8. (Fine(digits[k], pos) /\ Room(digits[k], pos, e))'
      <4>1. Fine(digits[k], pos) /\ Room(digits[k], pos, e)
        BY <3>1, <3>2 DEF RecodeInv
      <4>2. QED
        BY <2>1, <4>1 DEF Fine, Room
    <3>9. QED
      BY <3>3, <3>5, <3>6, <3>7, <3>8 DEF RecodeInv
  <2>4. EvalInv'
    <3>1. SUFFICES ASSUME powPc = "eval" PROVE EvalInv'
      BY <2>1 DEF EvalInv
    <3>2. EvalInv
      BY DEF PowInv
    <3>3. (pos \in 0..digitsLen /\ DigitsType /\ powRet \in Element)'
      BY <2>1, <3>1, <3>2 DEF EvalInv, DigitsType, Positions
    <3>4. ASSUME NEW j \in 1..Len(es)
          PROVE  (/\ Fine(digits[j], -1)
                  /\ \E rest : Rests(digits[j], -1, es[j], rest) /\ rest[-1] = 0 /\ powRet[j] = rest[pos - 1])'
      <4>1. /\ Fine(digits[j], -1)
            /\ \E rest : Rests(digits[j], -1, es[j], rest) /\ rest[-1] = 0 /\ powRet[j] = rest[pos - 1]
        BY <3>1, <3>2 DEF EvalInv
      <4>2. QED
        BY <2>1, <4>1 DEF Fine, Rests
    <3>5. (Len(es) = 1 => powRet[2] = 0)'
      BY <2>1, <3>1, <3>2 DEF EvalInv
    <3>6. QED
      BY <2>1, <3>3, <3>4, <3>5 DEF EvalInv
  <2>5. QED
    BY <2>2, <2>3, <2>4 DEF PowInv
<1>2. ASSUME NEW x \in PowExps, GroupPow(x) PROVE PowInv'
  <2>1. Exponents(<<x>>)
    BY WnafAssumption DEF Exponents
  <2>2. QED
    BY <1>2, <2>1, CallStep DEF GroupPow
<1>3. ASSUME NEW x \in Pow2Exps, NEW y \in Pow2Exps, GroupPow2(x, y) PROVE PowInv'
  <2>1. Exponents(<<x, y>>)
    BY WnafAssumption DEF Exponents
  <2>2. QED
    BY <1>3, <2>1, CallStep DEF GroupPow2
<1>4. CASE PowStep
  BY <1>4, TableStartInv, TableTurnInv, TableNextInv, TablesEndInv, WnafTurnInv, WnafNextInv,
     WnafEndsInv, EvaluateInv, PowReturnInv DEF PowStep
<1>5. QED
  BY <1>1, <1>2, <1>3, <1>4 DEF PowNext

(* The invariant: tables of odd powers, digits such as the tables have     *)
(* powers for, and the remainders of the recoding that the evaluation goes *)
(* through in the opposite order.                                          *)
THEOREM PowAlways == PowSpec => []PowInv
BY InitInv, StepInv, PTL DEF PowSpec

(* goo_group_pow and goo_group_pow2, whenever they do not refuse, compute  *)
(* the product of the powers asked for, whatever the window, the widths    *)
(* and what an earlier call left in tables and digits.                     *)
THEOREM PowerIsExactAlways == PowSpec => []PowerIsExact
<1>1. PowInv => PowerIsExact
  BY DEF PowInv
<1>2. QED
  BY <1>1, PowAlways, PTL

(* The digits goo_group_wnaf makes use up the exponent (its assertion),    *)
(* are odd and small enough for the tables, and at most one of WindowSize  *)
(* in a row is not zero.                                                   *)
THEOREM DigitsSparseAlways == PowSpec => []DigitsSparse
<1>1. PowInv => DigitsSparse
  <2> SUFFICES ASSUME PowInv PROVE DigitsSparse
    OBVIOUS
  <2>1. powPc = "recode" /\ pos < 0 => e = 0
    BY DEF PowInv, RecodeInv
  <2>2. ASSUME powPc = "eval", NEW j \in DOMAIN digits, NEW x \in 0..(digitsLen - 1),
               digits[j][x] # 0
        PROVE  /\ digits[j][x] % 2 = 1
               /\ Magnitude(digits[j][x]) < Pow2[WindowSize - 1]
               /\ \A y \in 0..(digitsLen - 1) :
                    x < y /\ y < x + WindowSize => digits[j][y] = 0
    <3>1. j \in 1..Len(es)
      BY <2>2 DEF PowInv, EvalInv, DigitsType
    <3>2. Fine(digits[j], -1) /\ (-1) + 1 = 0
      BY <2>2, <3>1 DEF PowInv, EvalInv
    <3>3. QED
      BY <2>2, <3>2 DEF Fine
  <2>3. QED
    BY <2>1, <2>2 DEF DigitsSparse
<1>2. QED
  BY <1>1, PowAlways, PTL
==============================================================================
