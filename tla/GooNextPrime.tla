---------------------------- MODULE GooNextPrime -----------------------------
(***************************************************************************)
(* goo_next_prime of src/src/goo/goo.c, one action per turn of its loop.   *)
(* The signer looks for the prime `ell` with it; the verifier never        *)
(* searches: it checks that `ell` lies in [ell', ell' + 512] and is prime. *)
(* The two must agree to the unit, whatever the parity of ell'.            *)
(***************************************************************************)
EXTENDS Naturals, NextPrimeSpec

CONSTANTS
  Accepted,   \* the numbers goo_is_prime accepts under the key of the call
  Starts,     \* the values of p
  Maxes       \* the values of max; 0 is "no limit"

ASSUME NextPrimeAssumption ==
  /\ Accepted \subseteq Nat
  /\ Starts \subseteq Nat
  /\ Maxes \subseteq Nat

VARIABLES
  pc,         \* "idle" before the first call, "test" in the loop, "done" after
  p, max,     \* the arguments
  ret, inc,   \* the candidate and its distance from p
  found       \* the value returned

vars == <<pc, p, max, ret, inc, found>>

Init ==
  /\ pc = "idle"
  /\ p = 0 /\ max = 0 /\ ret = 0 /\ inc = 0
  /\ found = FALSE

(* Definitions named Bug... are defects: each is put in the place of the   *)
(* definition that follows it to see which property notices.               *)
BugFirstInc(p0) == IF p0 % 2 = 0 THEN 1 ELSE 2

(* The first candidate is the first odd number from p on.                  *)
FirstInc(p0) == IF p0 % 2 = 0 THEN 1 ELSE 0

(* The entry.                                                              *)
Call(p0, m) ==
  /\ pc # "test"
  /\ pc' = "test"
  /\ p' = p0 /\ max' = m
  /\ inc' = FirstInc(p0)
  /\ ret' = p0 + inc'
  /\ UNCHANGED found

BugTooFar == max # 0 /\ inc >= max
TooFar == max # 0 /\ inc > max

BugAdvance ==
  /\ pc = "test"
  /\ ret \notin Accepted
  /\ ~TooFar
  /\ ret' = ret
  /\ UNCHANGED <<pc, p, max, inc, found>>

(* A turn of the loop: the candidate is not prime and not past the limit.  *)
Advance ==
  /\ pc = "test"
  /\ ret \notin Accepted
  /\ ~TooFar
  /\ ret' = ret + 2
  /\ inc' = inc + 2
  /\ UNCHANGED <<pc, p, max, found>>

(* The loop ends, by its condition or by `break`, and the limit decides.   *)
Leave ==
  /\ pc = "test"
  /\ ret \in Accepted \/ TooFar
  /\ pc' = "done"
  /\ found' = ~TooFar
  /\ UNCHANGED <<p, max, ret, inc>>

Next ==
  \/ \E p0 \in Starts, m \in Maxes : Call(p0, m)
  \/ Advance
  \/ Leave

(* The loop is a loop: once entered it keeps running.                      *)
Spec == Init /\ [][Next]_vars /\ WF_vars(Advance \/ Leave)

------------------------------------------------------------------------------
TypeOK ==
  /\ pc \in {"idle", "test", "done"}
  /\ p \in Nat /\ max \in Nat /\ ret \in Nat /\ inc \in Nat
  /\ found \in BOOLEAN

(* The value handed to the signer: 0 stands for "derive again".            *)
Result == IF found THEN ret ELSE 0

(* With a limit, the answer is the smallest odd accepted number of the     *)
(* interval the verifier will check, and failure means there is none: the  *)
(* boundary p + max belongs to the interval and p + max + 1 does not,      *)
(* though the loop tests candidates beyond the limit before it breaks.     *)
BoundedSearch ==
  pc = "done" /\ max # 0 => IsNextPrime(Accepted, p, max, Result)

(* Without a limit the search only ends at the first odd accepted number.  *)
UnboundedSearch ==
  pc = "done" /\ max = 0 =>
    /\ found /\ ret \in Accepted
    /\ \A x \in p..ret : x % 2 = 1 /\ x \in Accepted => x = ret

(* A search ends: at a prime, or because of its limit.                     *)
SearchEnds == (pc = "test") ~> (pc = "done")
==============================================================================
