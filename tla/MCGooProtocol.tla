---------------------------- MODULE MCGooProtocol ----------------------------
(***************************************************************************)
(* GooProtocol at toy widths: moduli of 6 to 8 bits, s and the scalars of  *)
(* at most 6, a challenge of 2 and an ell of 4 bits.                       *)
(*   <<7, 11>>, <<7, 19>>  sign with some prime of <<3, 23, 37>>           *)
(*   <<7, 31>>             no prime of the list is a residue               *)
(*   <<7, 7>>              w^2 - t is not divisible by n                   *)
(*   <<4, 19>>, <<3, 5>>   refused: even, and too small                    *)
(* The odd primes are 3 mod 4, as goo_mpz_sqrtm's first case wants.        *)
(***************************************************************************)
EXTENDS GooProtocol, TLC

CONSTANTS prover, other, narrow, verifier

Key(p, q) == [p |-> p, q |-> q]

MCSmallPrimes == <<3, 23, 37>>
RootedPrimes == <<23, 37>>

(* The root mod p that x^((p + 1) / 4) is: the one that is a square.       *)
RootsMod(t, p) == {x \in 0..(p - 1) : (x * x) % p = t % p}
SqrtM(t, p) ==
  IF RootsMod(t, p) = {} THEN -1
  ELSE CHOOSE x \in RootsMod(t, p) : \E y \in 0..(p - 1) : (y * y) % p = x

(* goo_mpz_sqrtpq: Chinese remaindering by the coefficients of gcdext,     *)
(* which gives sp * p mod p^2 if p = q.                                    *)
Pq(t, p, q) ==
  LET sp == SqrtM(t, p)
      sq == SqrtM(t, q) IN
  IF sp = -1 \/ sq = -1 THEN -1
  ELSE IF p = q THEN (sp * p) % (p * q)
  ELSE CHOOSE w \in 0..(p * q - 1) : w % p = sp /\ w % q = sq

MCSqrtPQ ==
  [k \in Keys |-> [t \in SmallPrimeSet |->
     IF k.p % 4 = 3 /\ k.q % 4 = 3 THEN Pq(t, k.p, k.q) ELSE -1]]

(* A prover's combs hold rand_bits and 2 * bits + ELL_BITS + 1 bits, those *)
(* of a context made for smaller keys less; a verifier's hold an ell.      *)
MCCombs ==
  [c \in Ctxs |-> CASE c \in {prover, other} -> {64, 2097152}
                    [] c = narrow -> {64, 256}
                    [] c = verifier -> {16}]

Provers == Permutations({prover, other})

MCAccepts(tr) == {2, 3, 5, 7, 11, 13, 17}

(* The seven scalars: one of them at most is not the least.                *)
MCMasks ==
  LET least == CHOOSE v \in Scalars : \A u \in Scalars : v <= u IN
    {r \in [1..7 -> Scalars] :
       \E x \in 1..7 : \A y \in (1..7) \ {x} : r[y] = least}

OneKey == {Key(7, 11)}
OddKeys == {Key(7, 11), Key(7, 31), Key(7, 7), Key(4, 19), Key(3, 5)}
==============================================================================
