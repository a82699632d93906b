----------------------------- MODULE GooIsPrime ------------------------------
(***************************************************************************)
(* goo_is_prime of src/src/goo/goo.c: trial division, then Miller-Rabin    *)
(* with bases from a PRNG and base 2 at the end, then the Lucas test with  *)
(* a limit on its parameter.  One action per turn of each loop.  The bases *)
(* are whatever the key of the PRNG makes them: any of Bases.  The squares *)
(* that get past base 2 (of Wieferich primes, from 1093^2) are beyond      *)
(* TLC's integers, so the Lucas test is also called by itself.             *)
(***************************************************************************)
EXTENDS GooNumber, Sequences, Functions

CONSTANTS
  Candidates,   \* the numbers goo_is_prime tests
  Odds,         \* odd numbers above 1 for goo_is_prime_lucas by itself
  TestPrimes,   \* goo_test_primes, in their order
  Width,        \* a bound of the bits of a number tested
  Bases,        \* what the PRNG may give for a base, less than the candidate
  Reps,         \* repetitions of Miller-Rabin: 16 + 1
  LucasLimit,   \* the limit on p: 50; 0 is no limit
  LastP,        \* the last p in any case: 10000
  SquareP       \* the p after which n is tested to be a square: 40

ASSUME IsPrimeAssumption ==
  /\ Candidates \subseteq Int
  /\ \A c \in Odds : c \in Nat /\ c > 1 /\ c % 2 = 1
  /\ TestPrimes \in Seq(Nat \ {0, 1}) /\ {2, 3, 5} \subseteq Range(TestPrimes)
  /\ Width \in Nat /\ 2^0 = 1 /\ \A e \in 0..Width : 2^(e + 1) = 2 * 2^e
  /\ \A c \in Candidates \cup Odds : c + 1 < 2^Width
  /\ Bases \subseteq Nat
  /\ Reps \in Nat \ {0}
  /\ LucasLimit \in Nat /\ LastP \in Nat /\ SquareP \in Nat

VARIABLES
  stage,        \* "idle", "div", "mr", "square", "param", "chain", "tail", "done"
  cand,         \* the candidate
  ii, jj,       \* loop indices i and j (doubled letters leave single ones free)
  power,        \* Miller-Rabin's power
  par,          \* the parameter of the Lucas sequence
  vk, vk1,      \* two neighbours of the sequence
  result        \* what goo_is_prime returns

isPrimeVars == <<stage, cand, ii, jj, power, par, vk, vk1, result>>

IsPrimeInit ==
  /\ stage = "idle"
  /\ cand = 0 /\ ii = 0 /\ jj = 0 /\ power = 0 /\ par = 0 /\ vk = 0 /\ vk1 = 0
  /\ result = FALSE

Answer(r) ==
  /\ stage' = "done"
  /\ result' = r
  /\ UNCHANGED <<cand, ii, jj, power, par, vk, vk1>>

Goto(l) == stage' = l /\ UNCHANGED result

IsPrime(c) ==
  /\ stage = "idle"
  /\ cand' = c
  /\ ii' = 1
  /\ Goto("div")
  /\ UNCHANGED <<jj, power, par, vk, vk1>>

IsPrimeLucas(c) ==
  /\ stage = "idle"
  /\ cand' = c
  /\ Goto("param")
  /\ par' = 3
  /\ UNCHANGED <<ii, jj, power, vk, vk1>>

(* Definitions named Bug... are defects: each is put in the place of the   *)
(* definition that follows it to see which property notices.               *)
BugDivided(d) == cand % d = 0

(* A test prime that divides the candidate, and is not the candidate.      *)
Divided(d) == cand # d /\ cand % d = 0

(* goo_is_prime_div: small and even numbers, then the list.                *)
Small ==
  /\ stage = "div" /\ ii = 1
  /\ cand <= 1 \/ cand % 2 = 0
  /\ Answer(cand = 2)

Divide ==
  /\ stage = "div"
  /\ cand > 1 /\ cand % 2 = 1
  /\ ii <= Len(TestPrimes)
  /\ \/ Divided(TestPrimes[ii]) /\ Answer(FALSE)
     \/ ~Divided(TestPrimes[ii]) /\ cand = TestPrimes[ii] /\ Answer(TRUE)
     \/ /\ ~Divided(TestPrimes[ii]) /\ cand # TestPrimes[ii]
        /\ ii' = ii + 1
        /\ UNCHANGED <<stage, cand, jj, power, par, vk, vk1, result>>

(* goo_is_prime_mr: what is not above 5 was in the list.                   *)
BeginMR ==
  /\ stage = "div"
  /\ cand > 1 /\ cand % 2 = 1
  /\ ii > Len(TestPrimes)
  /\ Goto("mr")
  /\ ii' = 0
  /\ UNCHANGED <<cand, jj, power, par, vk, vk1>>

KK == ZeroBits(cand - 1)
QQ == (cand - 1) \div 2^KK

(* random_int below n - 3, plus 2; the last base is 2 (force2).            *)
BaseOf(r) == IF r = Reps - 1 THEN {2} ELSE {x \in Bases : 2 <= x /\ x <= cand - 2}

(* A repetition: y is 1 or -1 at once, or is squared.                      *)
Repetition ==
  /\ stage = "mr"
  /\ ii < Reps
  /\ \E x \in BaseOf(ii) :
       LET first == PowMod(x, QQ, cand)
       IN IF first \in {1, cand - 1}
          THEN ii' = ii + 1 /\ UNCHANGED <<stage, jj, power, result>>
          ELSE /\ Goto("square")
               /\ jj' = 1 /\ power' = first
               /\ UNCHANGED ii
  /\ UNCHANGED <<cand, par, vk, vk1>>

BugSquarings == KK - 1

(* `j < k`                                                                 *)
Squarings == KK

(* `for (j = 1; j < k; j++)`                                               *)
Square ==
  /\ stage = "square"
  /\ jj < Squarings
  /\ LET sq == (power * power) % cand
     IN \/ /\ sq = cand - 1
           /\ Goto("mr")
           /\ ii' = ii + 1
           /\ UNCHANGED <<cand, jj, power, par, vk, vk1>>
        \/ sq = 1 /\ Answer(FALSE)
        \/ /\ sq \notin {1, cand - 1}
           /\ power' = sq /\ jj' = jj + 1
           /\ UNCHANGED <<stage, cand, ii, par, vk, vk1, result>>

Witness ==
  /\ stage = "square"
  /\ jj >= Squarings
  /\ Answer(FALSE)

BeginLucas ==
  /\ stage = "mr"
  /\ ii >= Reps
  /\ Goto("param")
  /\ par' = 3
  /\ UNCHANGED <<cand, ii, jj, power, vk, vk1>>

DD == par * par - 4

(* mpz_perfect_square_p                                                    *)
PerfectSquare == \E s \in 0..cand : s * s = cand

OverLimit == par > LastP \/ (LucasLimit # 0 /\ par > LucasLimit)

BugCommon == TRUE

(* A factor in common with p^2 - 4 is n itself only when n = p + 2.        *)
Common == cand = par + 2

(* The parameter: the first p whose p^2 - 4 is no square modulo n.         *)
Parameter ==
  /\ stage = "param"
  /\ \/ OverLimit /\ Answer(FALSE)
     \/ /\ ~OverLimit /\ Jacobi(DD, cand) = -1
        /\ Goto("chain")
        /\ ii' = BitLength((cand + 1) \div 2^ZeroBits(cand + 1))
        /\ vk' = 2 /\ vk1' = par
        /\ UNCHANGED <<cand, jj, power, par>>
     \/ ~OverLimit /\ Jacobi(DD, cand) = 0 /\ Answer(Common)
     \/ /\ ~OverLimit /\ Jacobi(DD, cand) = 1
        /\ par = SquareP /\ PerfectSquare
        /\ Answer(FALSE)
     \/ /\ ~OverLimit /\ Jacobi(DD, cand) = 1
        /\ ~(par = SquareP /\ PerfectSquare)
        /\ par' = par + 1
        /\ UNCHANGED <<stage, cand, ii, jj, power, vk, vk1, result>>

SS == (cand + 1) \div 2^ZeroBits(cand + 1)

(* V(a + b) = V(a) V(b) - V(a - b), so that a pair of neighbours moves up. *)
Between == (vk * vk1 + cand - par) % cand
Doubled(v) == (v * v + cand - 2) % cand

(* A bit of s, from the top; the bit above the highest is 0.               *)
Chain ==
  /\ stage = "chain"
  /\ ii >= 0
  /\ IF (SS \div 2^ii) % 2 = 1
     THEN vk' = Between /\ vk1' = Doubled(vk1)
     ELSE vk1' = Between /\ vk' = Doubled(vk)
  /\ ii' = ii - 1
  /\ UNCHANGED <<stage, cand, jj, power, par, result>>

(* abs(vk * p - vk1 * 2) mod n is 0: U(s) is.                              *)
Vanishes == AbsVal(vk * par - 2 * vk1) % cand = 0

ChainEnds ==
  /\ stage = "chain"
  /\ ii < 0
  /\ \/ vk \in {2, cand - 2} /\ Vanishes /\ Answer(TRUE)
     \/ /\ ~(vk \in {2, cand - 2} /\ Vanishes)
        /\ Goto("tail")
        /\ jj' = 0
        /\ UNCHANGED <<cand, ii, power, par, vk, vk1>>

(* `for (t = 0; t < (long)r - 1; t++)`                                     *)
Doubling ==
  /\ stage = "tail"
  /\ jj < ZeroBits(cand + 1) - 1
  /\ \/ vk = 0 /\ Answer(TRUE)
     \/ vk = 2 /\ Answer(FALSE)
     \/ /\ vk \notin {0, 2}
        /\ vk' = (vk * vk - 2) % cand
        /\ jj' = jj + 1
        /\ UNCHANGED <<stage, cand, ii, power, par, vk1, result>>

DoublingEnds ==
  /\ stage = "tail"
  /\ jj >= ZeroBits(cand + 1) - 1
  /\ Answer(FALSE)

IsPrimeStep ==
  \/ Small \/ Divide
  \/ BeginMR \/ Repetition \/ Square \/ Witness
  \/ BeginLucas \/ Parameter \/ Chain \/ ChainEnds \/ Doubling \/ DoublingEnds

IsPrimeNext ==
  \/ \E c \in Candidates : IsPrime(c)
  \/ \E c \in Odds : IsPrimeLucas(c)
  \/ IsPrimeStep

IsPrimeSpec == IsPrimeInit /\ [][IsPrimeNext]_isPrimeVars

------------------------------------------------------------------------------
(* No p to the limit has p^2 - 4 a non-square modulo n.                    *)
AllSquares ==
  \A p \in 3..LastP : (LucasLimit = 0 \/ p <= LucasLimit) => Jacobi(p * p - 4, cand) # -1

(* No prime is refused, whatever the bases, except for the limit on the    *)
(* Lucas parameter: verify would otherwise turn down an ell that sign      *)
(* found under the same key, or sign would pass over it.                   *)
NoPrimeRefused == stage = "done" /\ IsPrimeNumber(cand) /\ ~AllSquares => result

(* Of the candidates of the run no composite passes, whatever the bases:   *)
(* the pseudoprimes to base 2 fall to the Lucas test and the Lucas         *)
(* pseudoprimes to base 2.  (Not a theorem: a composite that passes both   *)
(* is not known, nor known not to exist.)                                  *)
NoCompositeAccepted ==
  stage = "done" /\ cand \in Candidates \ Odds /\ result => IsPrimeNumber(cand)
==============================================================================
