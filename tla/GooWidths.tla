------------------------------ MODULE GooWidths ------------------------------
(***************************************************************************)
(* How wide the exponents of src/src/goo/goo.c get, and what they must fit:*)
(* the combs that goo_group_init chooses, the arrays of the wNAF recoding, *)
(* the fields that goo_group_hash writes.  Numbers are bounds on bit       *)
(* lengths: k stands for what is below 2^k.  A call whose exponent is too  *)
(* wide makes sign or verify fail; an array that is too short would be     *)
(* overrun.                                                                *)
(***************************************************************************)
EXTENDS Integers, Sequences

CONSTANTS
  ContextBits,   \* the `bits` contexts are made with: 0 for a verifier
  GroupBits,     \* bit lengths of group moduli
  KeyBits,       \* bit lengths of signers' moduli
  Roundings      \* bits by which combspec_init exceeds what was asked

(* internal.h                                                              *)
GOO_MIN_RSA_BITS == 1024
GOO_MAX_RSA_BITS == 4096
GOO_EXP_BITS == 2048
GOO_CHAL_BITS == 128
GOO_ELL_BITS == 136
PrimeBits == 10      \* goo_primes are below 1000

ASSUME WidthsAssumption ==
  /\ ContextBits \subseteq Nat
  /\ GroupBits \subseteq Nat \ {0}
  /\ KeyBits \subseteq GOO_MIN_RSA_BITS..GOO_MAX_RSA_BITS
  /\ Roundings \subseteq Nat

VARIABLES
  pc,            \* "idle", "ready", "sign", "verify", "signed", "done", "failed"
  bits,          \* the argument of goo_group_init where sign is called
  group,         \* group->bits
  combs,         \* the bits of the combs
  key,           \* the bits of the signer's n
  step           \* the call that is next

vars == <<pc, bits, group, combs, key, step>>

Larger(x, y) == IF x > y THEN x ELSE y

Init ==
  /\ pc = "idle"
  /\ bits = 0 /\ group = 1 /\ combs = <<>> /\ key = 0 /\ step = 0

RandBits(g) == g - 1

(* Definitions named Bug... are defects: each is put in the place of the   *)
(* definition that follows it to see which property notices.               *)
BugBigBits(b, g) == 2 * b + GOO_ELL_BITS + 1

BigBits(b, g) == Larger(2 * b, b + RandBits(g)) + GOO_ELL_BITS + 1

(* goo_group_init; a comb of no bits is refused by combspec_init.          *)
CreateProver(b, g) ==
  /\ pc = "idle"
  /\ b \in GOO_MIN_RSA_BITS..GOO_MAX_RSA_BITS
  /\ RandBits(g) # 0
  /\ \E small, big \in Roundings :
       combs' = <<RandBits(g) + small, BigBits(b, g) + big>>
  /\ pc' = "ready" /\ bits' = b /\ group' = g
  /\ UNCHANGED <<key, step>>

CreateVerifier(g) ==
  /\ pc = "idle"
  /\ \E tiny \in Roundings : combs' = <<GOO_ELL_BITS + tiny>>
  /\ pc' = "ready" /\ bits' = 0 /\ group' = g
  /\ UNCHANGED <<key, step>>

BugScalar == RandBits(group)

(* goo_group_random_scalar                                                 *)
Scalar == IF RandBits(group) > GOO_EXP_BITS THEN GOO_EXP_BITS ELSE RandBits(group)

BugQuotient(z) == z

(* z / ell for an ell of exactly GOO_ELL_BITS bits.                        *)
Quotient(z) == IF z > GOO_ELL_BITS - 1 THEN z - (GOO_ELL_BITS - 1) ELSE 0

Sum(x, y) == Larger(x, y) + 1

(* The secrets: s from s_prime, w below n, a = (w^2 - t) / n below n.      *)
ExpandedS == GOO_EXP_BITS
ZW == Sum(GOO_CHAL_BITS + key, Scalar)
ZW2 == Sum(GOO_CHAL_BITS + 2 * key, Scalar)
ZS1 == Sum(GOO_CHAL_BITS + Scalar, Scalar)
ZA == Sum(GOO_CHAL_BITS + key, Scalar)
ZAN == Sum(GOO_CHAL_BITS + 2 * key, Scalar)
ZS1W == Sum(GOO_CHAL_BITS + Scalar + key, Scalar)
ZSA == Sum(GOO_CHAL_BITS + ExpandedS + key, Scalar)
ZS2 == Sum(GOO_CHAL_BITS + Scalar, Scalar)

(* E = r_w2 - r_an; z_w2 - z_an = chal * t + E, for w^2 - a * n is t.      *)
EBits == Scalar
BugEqBits == Quotient(Sum(GOO_CHAL_BITS + 2 * key, EBits))
EqBits == Quotient(Sum(GOO_CHAL_BITS + PrimeBits, EBits))

Powgh(e1, e2) == [op |-> "powgh", width |-> Larger(e1, e2)]
Pow(e) == [op |-> "pow", width |-> e]
Hash(e) == [op |-> "hash", width |-> e]

(* The calls of goo_group_sign, in order.                                  *)
SignCalls == <<
  Powgh(key, ExpandedS),                        \* C1
  Powgh(key, Scalar),                           \* C2
  Powgh(key, Scalar),                           \* C3
  Powgh(Scalar, Scalar),                        \* B
  Pow(Scalar), Powgh(Scalar, Scalar),           \* C
  Pow(Scalar), Powgh(Scalar, Scalar),           \* D
  Powgh(Scalar, Scalar), Hash(EBits),           \* A, chal and ell
  Powgh(Quotient(ZW), Quotient(ZS1)),           \* Aq
  Powgh(Quotient(ZA), Quotient(ZS2)),           \* Bq
  Pow(Quotient(ZW)), Powgh(Quotient(ZW2), Quotient(ZS1W)),    \* Cq
  Pow(Quotient(ZA)), Powgh(Quotient(ZAN), Quotient(ZSA)) >>   \* Dq

Pow2(e1, e2) == [op |-> "pow2", width |-> Larger(e1, e2)]

(* goo_group_recover for A, B, C and D, with z below ell, then the hash of *)
(* E = Eq * ell + (z_w2 - z_an) mod ell - t * chal, which is r_w2 - r_an   *)
(* when the signature is the signer's.                                     *)
VerifyCalls == <<
  Pow2(GOO_ELL_BITS, GOO_CHAL_BITS), Powgh(GOO_ELL_BITS, GOO_ELL_BITS),
  Pow2(GOO_ELL_BITS, GOO_CHAL_BITS), Powgh(GOO_ELL_BITS, GOO_ELL_BITS),
  Pow2(GOO_ELL_BITS, GOO_ELL_BITS), Powgh(GOO_ELL_BITS, GOO_ELL_BITS),
  Pow2(GOO_ELL_BITS, GOO_ELL_BITS), Powgh(GOO_ELL_BITS, GOO_ELL_BITS),
  Hash(EBits) >>

(* A comb is found, a number fits its field, pow2 has room for its digits. *)
(* pow has a check of its own too, but sign does not look at its result.   *)
Fits(call) ==
  CASE call.op = "powgh" -> \E i \in DOMAIN combs : call.width <= combs[i]
    [] call.op = "hash" -> call.width <= GOO_EXP_BITS
    [] call.op = "pow2" -> call.width + 1 <= GOO_ELL_BITS + 1
    [] OTHER -> TRUE

Sign(k) ==
  /\ pc = "ready"
  /\ pc' = "sign" /\ key' = k /\ step' = 1
  /\ UNCHANGED <<bits, group, combs>>

Run(from, calls, to) ==
  /\ pc = from
  /\ IF step > Len(calls) THEN pc' = to /\ UNCHANGED step
     ELSE IF Fits(calls[step]) THEN step' = step + 1 /\ UNCHANGED pc
     ELSE pc' = "failed" /\ UNCHANGED step
  /\ UNCHANGED <<bits, group, combs, key>>

SignCall == Run("sign", SignCalls, "signed")

(* verify on the same kind of context or on a verifier's for the group.    *)
Verify ==
  /\ pc = "signed"
  /\ pc' = "verify" /\ step' = 1
  /\ combs' \in {combs, <<GOO_ELL_BITS>>}
  /\ UNCHANGED <<bits, group, key>>

VerifyCall == Run("verify", VerifyCalls, "done")

Next ==
  \/ \E b \in ContextBits, g \in GroupBits : CreateProver(b, g)
  \/ \E g \in GroupBits : CreateVerifier(g)
  \/ \E k \in KeyBits : Sign(k)
  \/ SignCall
  \/ Verify
  \/ VerifyCall

Spec == Init /\ [][Next]_vars

------------------------------------------------------------------------------
(* The keys a context is for: no wider than its bits, and the context or   *)
(* the group wide enough for z_sa / ell, which has the 2048 bits of s in   *)
(* it whatever the group is.  (goo_group_init accepts bits from 1024 on;   *)
(* below 1905, and with a group below 1906, sign refuses every key: the    *)
(* lib and the tests make contexts of 2048 and 4096.)                      *)
Supported ==
  /\ key <= bits
  /\ \/ 2 * bits >= key + GOO_EXP_BITS - GOO_CHAL_BITS - 15
     \/ bits + RandBits(group) >= key + GOO_EXP_BITS - GOO_CHAL_BITS - 15

(* sign and verify do not fail for want of a comb, or of room in the hash  *)
(* or the digits, for a key that the context is for.                       *)
WideEnough == pc = "failed" => ~Supported

(* What pow and pow2 recode fits wnaf0, and wnaf1 and wnaf2: the checks in *)
(* pow and pow2 never fire.  sign would not notice if that of pow did, and *)
(* go on with a result that was not set.                                   *)
ArraysHold ==
  LET fits(call) ==
        /\ call.op = "pow" => call.width + 1 <= GOO_MAX_RSA_BITS + 1
        /\ call.op = "pow2" => call.width + 1 <= GOO_ELL_BITS + 1
  IN /\ pc = "sign" /\ step <= Len(SignCalls) => fits(SignCalls[step])
     /\ pc = "verify" /\ step <= Len(VerifyCalls) => fits(VerifyCalls[step])

(* The assertion of sign that Eq has GOO_EXP_BITS bits, and with it the    *)
(* same test of verify and the field of the signature.                     *)
EqFits == pc = "signed" => EqBits <= GOO_EXP_BITS
==============================================================================
