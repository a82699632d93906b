---------------------------- MODULE NextPrimeSpec ----------------------------
(***************************************************************************)
(* What goo_next_prime(ret, p, key, max) promises to the signer, stated    *)
(* without its loop.  `Acc` is the set of numbers that goo_is_prime        *)
(* accepts under `key`: nothing else is assumed of the primality test.     *)
(***************************************************************************)
EXTENDS Naturals

OddsIn(p, max) == {x \in p..(p + max) : x % 2 = 1}

(* r is the smallest accepted odd number of [p, p + max], or 0 for none.   *)
IsNextPrime(Acc, p, max, r) ==
  \/ /\ r \in OddsIn(p, max) \cap Acc
     /\ \A x \in OddsIn(p, max) : x < r => x \notin Acc
  \/ /\ r = 0
     /\ OddsIn(p, max) \cap Acc = {}
==============================================================================
