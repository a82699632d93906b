------------------------------ MODULE GooNumber ------------------------------
(***************************************************************************)
(* The number theory under src/src/goo/goo.c that its own code computes:   *)
(* goo_mpz_zerobits, the Jacobi symbol that stands in for GMP's, and modular*)
(* powers; and the reference definitions they are compared with.           *)
(***************************************************************************)
EXTENDS Integers

AbsVal(x) == IF x < 0 THEN -x ELSE x

(* goo_mpz_zerobits: the place of the lowest 1, 0 for 0; a negative number  *)
(* is negated for the scan and negated back.                               *)
ZeroBits(x) ==
  IF x = 0 THEN 0
  ELSE CHOOSE s \in 0..AbsVal(x) :
         /\ (AbsVal(x) \div 2^s) % 2 = 1
         /\ \A t \in 0..(s - 1) : (AbsVal(x) \div 2^t) % 2 = 0

(* goo_mpz_bitlen                                                          *)
BitLength(x) ==
  CHOOSE s \in 0..AbsVal(x) : AbsVal(x) < 2^s /\ \A t \in 0..(s - 1) : AbsVal(x) >= 2^t

(* mpz_powm for a modulus above 0.                                         *)
PowMod(x, e, p) ==
  LET pow[k \in 0..e] ==
        IF k = 0 THEN 1 % p
        ELSE LET half == pow[k \div 2]
                 sq == (half * half) % p
             IN IF k % 2 = 0 THEN sq ELSE (sq * (x % p)) % p
  IN pow[e]

(* mpz_jacobi: Euclid's algorithm, with the sign changes of the factors 2  *)
(* and of reciprocity; walk[b][a] is the symbol of a over an odd b.        *)
Jacobi(x, y) ==
  LET walk[b \in {d \in 1..AbsVal(y) : d % 2 = 1}] ==
        [a \in Int |->
           IF b = 1 THEN 1
           ELSE LET r == a % b
                    s == ZeroBits(r)
                    c == r \div 2^s
                    flips == (s % 2 = 1 /\ b % 8 \in {3, 5}) # (b % 4 = 3 /\ c % 4 = 3)
                IN IF r = 0 THEN 0
                   ELSE IF flips THEN -walk[c][b] ELSE walk[c][b]]
  IN IF y % 2 = 0 THEN 0
     ELSE IF x < 0 /\ y < 0 THEN -walk[AbsVal(y)][x] ELSE walk[AbsVal(y)][x]

------------------------------------------------------------------------------
(* Reference definitions.                                                  *)
Divides(d, x) == x % d = 0

IsPrimeNumber(x) == x >= 2 /\ \A d \in 2..(x - 1) : d * d <= x => ~Divides(d, x)

IsSquareMod(x, p) == \E w \in 0..(p - 1) : (w * w - x) % p = 0

Legendre(x, p) ==
  IF Divides(p, x) THEN 0 ELSE IF IsSquareMod(x, p) THEN 1 ELSE -1

(* The symbol of an odd y > 0 is the product over the prime factors of y.  *)
JacobiReference(x, y) ==
  LET least(z) == CHOOSE d \in 2..z : Divides(d, z) /\ \A c \in 2..(d - 1) : ~Divides(c, z)
      over[z \in 1..y] ==
        IF z = 1 THEN 1 ELSE Legendre(x, least(z)) * over[z \div least(z)]
  IN over[y]

Coprime(x, y) == \A d \in 2..AbsVal(y) : ~(Divides(d, x) /\ Divides(d, y))
==============================================================================
