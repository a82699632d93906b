----------------------------- MODULE MCGooNumbers -----------------------------
(***************************************************************************)
(* Square roots, primality tests and encryption, one of the three per      *)
(* behaviour.                                                              *)
(*                                                                         *)
(* Roots: every first modulus to 105, prime or not, with a second of each  *)
(* kind modulo 8; 97 and 193 take the loop of Tonelli and Shanks through   *)
(* five and six squarings.                                                 *)
(*                                                                         *)
(* Tests: a list of three test primes and a limit of 12, so that every     *)
(* later test has something to refuse: all numbers to 500; squares of      *)
(* primes; and strong pseudoprimes to base 2 and (almost extra) strong     *)
(* Lucas pseudoprimes of the next thousands (15841 = 7 * 31 * 73 shares a  *)
(* factor with a discriminant).                                            *)
(*                                                                         *)
(* Encryption: bytes of two bits and digests of one byte.  29 * 37 leaves  *)
(* two bytes for the message; 19 * 17 leaves one; 5 * 3 none at all; 29    *)
(* and 7 are coprime with no exponent 7 (28 = 4 * 7); e = 4 is refused for *)
(* being even.  The ciphertexts include blocks with no 0x01, a byte that   *)
(* is neither, and more bits than a veil.                                  *)
(***************************************************************************)
EXTENDS GooSqrt, GooIsPrime, GooOaep

VARIABLE part     \* what the behaviour is about

MCModuli == (0..105 \cup {193}) \X {7, 13, 17} \cup {<<97, 41>>, <<41, 73>>, <<7, 193>>}
MCNums == -1..12

MCCandidates ==
  -1..500 \cup {841, 961, 1369, 1681, 1849, 2209}
          \cup {2047, 3277, 4033, 4681, 8321, 15841}
          \cup {989, 3239, 5777, 10469, 10877}
          \cup {1009, 7919, 8191}
MCOdds == {1919, 2911, 529, 2809, 10201, 37249, 521, 523}
MCTestPrimes == <<2, 3, 5>>

MCHashOf(s) ==
  LET sum[l \in 0..Len(s)] == IF l = 0 THEN 2 ELSE 3 * sum[l - 1] + (2 * s[l]) + l
  IN <<(sum[Len(s)] \div 2) % 4>>
MCKeys == {[p |-> 29, q |-> 37, e |-> 5], [p |-> 19, q |-> 17, e |-> 5],
           [p |-> 3, q |-> 5, e |-> 3], [p |-> 29, q |-> 37, e |-> 7],
           [p |-> 29, q |-> 37, e |-> 4]}
MCMessages == {<<>>, <<0>>, <<1>>, <<3>>, <<0, 1>>, <<1, 1>>, <<2, 0>>, <<1, 2, 3>>}
MCSeeds == {<<0>>, <<1>>, <<3>>}
MCLabels == {<<>>, <<3>>}
ASSUME KeysArePrimes

MCCiphertexts == 0..300 \cup {8191, 8192, 16000}
MCDraws == {1, 17, 29, 1000}

Init ==
  /\ part \in {"roots", "tests", "encryption"}
  /\ SqrtInit /\ IsPrimeInit /\ OaepInit
  /\ part # "encryption" => key.p = 29 /\ key.e = 5

Next ==
  \/ part = "roots" /\ SqrtNext /\ UNCHANGED <<part, isPrimeVars, oaepVars>>
  \/ part = "tests" /\ IsPrimeNext /\ UNCHANGED <<part, sqrtVars, oaepVars>>
  \/ part = "encryption" /\ OaepNext /\ UNCHANGED <<part, sqrtVars, isPrimeVars>>

Spec ==
  Init /\ [][Next]_<<part, sqrtVars, isPrimeVars, oaepVars>> /\ WF_sqrtVars(SqrtStep)
===============================================================================
