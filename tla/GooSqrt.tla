------------------------------- MODULE GooSqrt -------------------------------
(***************************************************************************)
(* Square roots of src/src/goo/goo.c: goo_mpz_sqrtm modulo p and           *)
(* goo_mpz_sqrtpq modulo p * q, with an action for each branch and for     *)
(* each turn of the loops of Tonelli and Shanks.  sign calls sqrtpq with   *)
(* the factors of the key, of which it has tested parity and size, not     *)
(* that they are prime: the loops are followed for every modulus.          *)
(*                                                                         *)
(* Two counters that a composite modulus can drive up for ever are kept    *)
(* finite: n counts modulo p, which is all the symbol sees of it, and m    *)
(* stops at MaxSquarings, above any k it is compared with.                 *)
(***************************************************************************)
EXTENDS GooNumber

CONSTANTS
  Moduli,         \* pairs <<p, q>>
  Nums,           \* the numbers whose root is asked for
  MaxSquarings    \* bound of m

(* The moduli have at most MaxSquarings bits, so m may reach every k.      *)
ASSUME SqrtAssumption ==
  /\ Moduli \subseteq Int \X Int
  /\ Nums \subseteq Int
  /\ MaxSquarings \in Nat
  /\ 2^0 = 1 /\ \A e \in 0..MaxSquarings : 2^(e + 1) = 2 * 2^e
  /\ \A pq \in Moduli : pq[1] < 2^MaxSquarings /\ pq[2] < 2^MaxSquarings

VARIABLES         \* p, q and the locals of sqrtm have doubled letters for names
  sqrtPc,         \* "idle", "sqrtm", "search", "outer", "inner", "root", "done"
  pp, qq, num,    \* the arguments of sqrtpq
  second,         \* sqrtm runs for q
  xx,             \* num modulo the modulus at hand
  nn, kk, mm, tt, bb, gg, yy,
  root,           \* the root sqrtm returned
  sp,             \* the root modulo p, once it is known
  res,            \* the root modulo p * q
  ok

locals == <<xx, nn, kk, mm, tt, bb, gg, yy>>
sqrtVars == <<sqrtPc, pp, qq, num, second, locals, root, sp, res, ok>>

SqrtInit ==
  /\ sqrtPc = "idle"
  /\ pp = 0 /\ qq = 0 /\ num = 0
  /\ second = FALSE
  /\ xx = 0 /\ nn = 0 /\ kk = 0 /\ mm = 0 /\ tt = 0 /\ bb = 0 /\ gg = 0 /\ yy = 0
  /\ root = 0 /\ sp = 0 /\ res = 0 /\ ok = FALSE

(* goo_mpz_sqrtpq(ret, x, p, q) begins with sqrtm modulo p.                *)
SqrtPQ(pq, v) ==
  /\ sqrtPc = "idle"
  /\ pp' = pq[1] /\ qq' = pq[2] /\ num' = v
  /\ sqrtPc' = "sqrtm"
  /\ UNCHANGED <<second, locals, root, sp, res, ok>>

Mod == IF second THEN qq ELSE pp

(* `goto fail`, which makes sqrtpq fail too, and `goto succeed`.           *)
Fail == sqrtPc' = "done" /\ ok' = FALSE /\ UNCHANGED root
Succeed(r) == sqrtPc' = "root" /\ root' = r /\ UNCHANGED ok

Residue == num % Mod

(* `g != x`: the candidate is squared.                                     *)
Test(r) == (r * r) % Mod = Residue

(* sqrtm up to the symbol, by the shape of the modulus.                    *)
Entry ==
  /\ sqrtPc = "sqrtm"
  /\ \/ /\ Mod <= 0 \/ Mod % 2 = 0
        /\ Fail
     \/ /\ Mod > 0 /\ Mod % 4 = 3
        /\ LET r == PowMod(Residue, (Mod + 1) \div 4, Mod)
           IN IF Test(r) THEN Succeed(r) ELSE Fail
     \/ /\ Mod > 0 /\ Mod % 8 = 5
        /\ LET u == (2 * Residue) % Mod
               a == PowMod(u, Mod \div 8, Mod)
               i == (((a * a) % Mod) * u) % Mod
               r == (((((i - 1) % Mod) * Residue) % Mod) * a) % Mod
           IN IF Test(r) THEN Succeed(r) ELSE Fail
     \/ /\ Mod = 1
        /\ Fail
     \/ /\ Mod > 1 /\ Mod % 8 = 1
        /\ \/ Jacobi(Residue, Mod) = -1 /\ Fail
           \/ Jacobi(Residue, Mod) = 0 /\ Succeed(0)
  /\ UNCHANGED <<pp, qq, num, second, locals, sp, res>>

(* The symbol is 1: look for a non-residue from 2 on.                      *)
BeginSearch ==
  /\ sqrtPc = "sqrtm"
  /\ Mod > 1 /\ Mod % 8 = 1
  /\ Jacobi(Residue, Mod) = 1
  /\ sqrtPc' = "search"
  /\ xx' = Residue
  /\ nn' = 2
  /\ kk' = ZeroBits(Mod - 1)
  /\ UNCHANGED <<pp, qq, num, second, mm, tt, bb, gg, yy, root, sp, res, ok>>

(* Definitions named Bug... are defects: each is put in the place of the   *)
(* definition that follows it to see which property notices.               *)
(* Candidates are doubled: for p = 1 mod 8 none is a non-residue.          *)
BugNextCandidate(i) == (2 * i) % Mod

(* n = n + 1, of which the symbol sees the residue.                        *)
NextCandidate(i) == (i + 1) % Mod

(* `while (mpz_jacobi(n, p) != -1)`                                        *)
TryNext ==
  /\ sqrtPc = "search"
  /\ Jacobi(nn, Mod) # -1
  /\ nn' = NextCandidate(nn)
  /\ UNCHANGED <<sqrtPc, pp, qq, num, second, xx, kk, mm, tt, bb, gg, yy, root, sp, res, ok>>

OddPart == (Mod - 1) \div 2^ZeroBits(Mod - 1)

Found ==
  /\ sqrtPc = "search"
  /\ Jacobi(nn, Mod) = -1
  /\ sqrtPc' = "outer"
  /\ yy' = PowMod(xx, (OddPart + 1) \div 2, Mod)
  /\ bb' = PowMod(xx, OddPart, Mod)
  /\ gg' = PowMod(nn, OddPart, Mod)
  /\ UNCHANGED <<pp, qq, num, second, xx, nn, kk, mm, tt, root, sp, res, ok>>

(* A turn of the outer loop begins: the order of b is to be found.         *)
BeginOrder ==
  /\ sqrtPc = "outer"
  /\ sqrtPc' = "inner"
  /\ tt' = bb
  /\ mm' = 0
  /\ UNCHANGED <<pp, qq, num, second, xx, nn, kk, bb, gg, yy, root, sp, res, ok>>

(* `while (t != 1)`                                                        *)
SquareOnce ==
  /\ sqrtPc = "inner"
  /\ tt # 1
  /\ tt' = (tt * tt) % Mod
  /\ mm' = IF mm < MaxSquarings THEN mm + 1 ELSE mm
  /\ UNCHANGED <<sqrtPc, pp, qq, num, second, xx, nn, kk, bb, gg, yy, root, sp, res, ok>>

(* The exponent that makes g the square root needed: 2^(k - m - 1).        *)
StepOf(i) == 2^(i - mm - 1)

OrderFound ==
  /\ sqrtPc = "inner"
  /\ tt = 1
  /\ \/ mm = 0 /\ Succeed(yy) /\ UNCHANGED <<kk, tt, bb, gg, yy>>
     \/ mm > 0 /\ mm >= kk /\ Fail /\ UNCHANGED <<kk, tt, bb, gg, yy>>
     \/ /\ 0 < mm /\ mm < kk
        /\ sqrtPc' = "outer"
        /\ tt' = PowMod(gg, StepOf(kk), Mod)
        /\ gg' = (tt' * tt') % Mod
        /\ yy' = (yy * tt') % Mod
        /\ bb' = (bb * gg') % Mod
        /\ kk' = mm
        /\ UNCHANGED <<root, ok>>
  /\ UNCHANGED <<pp, qq, num, second, xx, nn, mm, sp, res>>

(* sqrtpq goes on with q.                                                  *)
SecondRoot ==
  /\ sqrtPc = "root"
  /\ ~second
  /\ second' = TRUE
  /\ sp' = root
  /\ sqrtPc' = "sqrtm"
  /\ xx' = 0 /\ nn' = 0 /\ kk' = 0 /\ mm' = 0 /\ tt' = 0 /\ bb' = 0 /\ gg' = 0 /\ yy' = 0
  /\ UNCHANGED <<pp, qq, num, root, res, ok>>

BugCombined(rp, rq, mp, mq) == (rp * mp * pp + rq * mq * qq) % (pp * qq)

(* u = sq * mp * p + sp * mq * q                                           *)
Combined(rp, rq, mp, mq) == (rq * mp * pp + rp * mq * qq) % (pp * qq)

(* mpz_gcdext gives coefficients, and both roots make one.                 *)
Combine ==
  /\ sqrtPc = "root"
  /\ second
  /\ LET gcd == CHOOSE d \in 1..pp : /\ Divides(d, pp) /\ Divides(d, qq)
                                    /\ \A c \in 1..pp : Divides(c, pp) /\ Divides(c, qq) => c <= d
         mp == CHOOSE c \in 0..qq : Divides(qq, c * pp - gcd)
     IN res' = Combined(sp, root, mp, (gcd - mp * pp) \div qq)
  /\ sqrtPc' = "done"
  /\ ok' = TRUE
  /\ UNCHANGED <<pp, qq, num, second, locals, root, sp>>

SqrtStep ==
  \/ Entry \/ BeginSearch \/ TryNext \/ Found
  \/ BeginOrder \/ SquareOnce \/ OrderFound
  \/ SecondRoot \/ Combine

SqrtNext ==
  \/ \E pq \in Moduli, v \in Nums : SqrtPQ(pq, v)
  \/ SqrtStep

(* A sequential program keeps running.                                     *)
SqrtSpec == SqrtInit /\ [][SqrtNext]_sqrtVars /\ WF_sqrtVars(SqrtStep)

------------------------------------------------------------------------------
BothPrime == IsPrimeNumber(pp) /\ IsPrimeNumber(qq)

(* What sqrtm returns is a root, for a modulus that is not prime too,      *)
(* unless the number shares a factor with such a modulus: the invariant    *)
(* y^2 = x * b of the loop needs no prime.  And for distinct odd primes    *)
(* sqrtpq finds a root modulo the product exactly when there is one: sign  *)
(* gives up on no number that it could use.  The symbol that decides is    *)
(* the product of the Legendre symbols for every odd modulus.              *)
RootExactly ==
  /\ sqrtPc = "sqrtm" /\ Mod > 0 /\ Mod % 2 = 1 =>
       Jacobi(num, Mod) = JacobiReference(num, Mod)
  /\ sqrtPc = "root" =>
       \/ (root * root - num) % Mod = 0
       \/ ~IsPrimeNumber(Mod) /\ ~Coprime(num, Mod)
  /\ sqrtPc = "done" /\ BothPrime /\ pp # qq /\ pp # 2 /\ qq # 2 =>
       /\ ok <=> IsSquareMod(num, pp) /\ IsSquareMod(num, qq)
       /\ ok => (res * res - num) % (pp * qq) = 0 /\ 0 <= res /\ res < pp * qq

(* For primes every loop ends: the search for a non-residue, the search    *)
(* for the order of b, and the loop around it.  With a modulus that is not *)
(* prime the first two may run for ever.                                   *)
EndsForPrimes == (sqrtPc # "idle" /\ sqrtPc # "done" /\ BothPrime) ~> (sqrtPc = "done")
==============================================================================
