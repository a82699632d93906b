----------------------------- MODULE GooInverse ------------------------------
(***************************************************************************)
(* goo_group_inv, goo_group_inv2 and goo_group_inv7 of src/src/goo/goo.c:  *)
(* several inverses for the price of one.  The product of the inputs is    *)
(* inverted once and the single inverses are multiplied out of it.  To     *)
(* avoid allocations the intermediate products live in the registers that  *)
(* are to hold the results, so that a register is read and overwritten     *)
(* several times on the way; one action per multiplication here, over the  *)
(* registers as the code aliases them.                                     *)
(***************************************************************************)
EXTENDS Naturals

CONSTANTS
  Elems,        \* the residues mod n
  zero, one,    \* the residues 0 and 1
  Times(_, _),  \* goo_group_mul
  Inputs        \* the elements callers pass

ASSUME MonoidAssumption ==
  /\ zero \in Elems /\ one \in Elems
  /\ Inputs \subseteq Elems
  /\ \A x, y \in Elems : Times(x, y) \in Elems /\ Times(x, y) = Times(y, x)
  /\ \A x, y, z \in Elems : Times(Times(x, y), z) = Times(x, Times(y, z))
  /\ \A x \in Elems : Times(x, one) = x

VARIABLES
  op,           \* the call: "none", "inv2" or "inv7"
  pc,           \* the next statement of it
  b,            \* its inputs b1 .. b7
  r,            \* its outputs r1 .. r7, which hold the temporaries too
  done,         \* it has returned
  ok            \* what it returned

vars == <<op, pc, b, r, done, ok>>

Invertible(x) == \E y \in Elems : Times(x, y) = one

(* goo_group_inv: what mpz_invert returns when there is an inverse.        *)
Inverse(x) == CHOOSE y \in Elems : Times(x, y) = one

Init ==
  /\ op = "none" /\ pc = 0
  /\ b = [k \in 1..7 |-> zero]
  /\ r = [k \in 1..7 |-> zero]
  /\ done = FALSE /\ ok = FALSE

(* sign and verify pass locals they have just initialised.                 *)
Call(name, bs) ==
  /\ op = "none" \/ done
  /\ op' = name /\ pc' = 1
  /\ b' = bs
  /\ r' = [k \in 1..7 |-> zero]
  /\ done' = FALSE /\ ok' = FALSE

Set(k, x) ==
  /\ r' = [r EXCEPT ![k] = x]
  /\ pc' = pc + 1
  /\ UNCHANGED <<op, b, done, ok>>

Mul(k, x, y) == Set(k, Times(x, y))

(* goo_group_inv into r[k], and the return when there is no inverse.       *)
Inv(k, x) == Invertible(x) /\ Set(k, Inverse(x))

InvFails(x) ==
  /\ ~Invertible(x)
  /\ done' = TRUE
  /\ UNCHANGED <<op, pc, b, r, ok>>

Return ==
  /\ done' = TRUE /\ ok' = TRUE
  /\ UNCHANGED <<op, pc, b, r>>

(* Definitions named Bug... are defects: each is put in the place of the   *)
(* definition that follows it to see which property notices.               *)
(* r2 is written while it still holds the inverse of the product.          *)
BugInv2Step ==
  /\ op = "inv2" /\ ~done
  /\ \/ pc = 1 /\ Mul(2, b[1], b[2])
     \/ pc = 2 /\ (Inv(2, r[2]) \/ InvFails(r[2]))
     \/ pc = 3 /\ Mul(2, b[1], r[2])
     \/ pc = 4 /\ Mul(1, b[2], r[2])
     \/ pc = 5 /\ Return

(* goo_group_inv2; b12i is r2.                                             *)
Inv2Step ==
  /\ op = "inv2" /\ ~done
  /\ \/ pc = 1 /\ Mul(2, b[1], b[2])
     \/ pc = 2 /\ (Inv(2, r[2]) \/ InvFails(r[2]))
     \/ pc = 3 /\ Mul(1, b[2], r[2])
     \/ pc = 4 /\ Mul(2, b[1], r[2])
     \/ pc = 5 /\ Return

(* The aliases of goo_group_inv7: which register holds which product.      *)
b12      == 4
b34      == 2
b56      == 3
b1234    == 1
b123456  == 5
b1234567 == 7
b1234567i == 7
b123456i == 6
b1234i   == 3
b56i     == 1
b34i     == 4
b12i     == 2

(* A product is inverted before its last factor is in: the seventh input   *)
(* is never multiplied in.                                                 *)
BugInverts ==
  \/ pc = 6 /\ Mul(b1234567, r[b123456], one)
  \/ pc = 7 /\ (Inv(b1234567i, r[b1234567]) \/ InvFails(r[b1234567]))

(* b1234567 and its inverse.                                               *)
Inverts ==
  \/ pc = 6 /\ Mul(b1234567, r[b123456], b[7])
  \/ pc = 7 /\ (Inv(b1234567i, r[b1234567]) \/ InvFails(r[b1234567]))

(* goo_group_inv7: the products, the one inversion, the inverses of the    *)
(* products, and the seven results.                                        *)
Inv7Step ==
  /\ op = "inv7" /\ ~done
  /\ \/ pc = 1 /\ Mul(b12, b[1], b[2])
     \/ pc = 2 /\ Mul(b34, b[3], b[4])
     \/ pc = 3 /\ Mul(b56, b[5], b[6])
     \/ pc = 4 /\ Mul(b1234, r[b12], r[b34])
     \/ pc = 5 /\ Mul(b123456, r[b1234], r[b56])
     \/ Inverts
     \/ pc = 8 /\ Mul(b123456i, r[b1234567i], b[7])
     \/ pc = 9 /\ Mul(b1234i, r[b123456i], r[b56])
     \/ pc = 10 /\ Mul(b56i, r[b123456i], r[b1234])
     \/ pc = 11 /\ Mul(b34i, r[b1234i], r[b12])
     \/ pc = 12 /\ Mul(b12i, r[b1234i], r[b34])
     \/ pc = 13 /\ Mul(7, r[b1234567i], r[b123456])
     \/ pc = 14 /\ Mul(5, r[b56i], b[6])
     \/ pc = 15 /\ Mul(6, r[b56i], b[5])
     \/ pc = 16 /\ Mul(1, r[b12i], b[2])
     \/ pc = 17 /\ Mul(2, r[b12i], b[1])
     \/ pc = 18 /\ Mul(3, r[b34i], b[4])
     \/ pc = 19 /\ Mul(4, r[b34i], b[3])
     \/ pc = 20 /\ Return

Next ==
  \/ \E bs \in [1..7 -> Inputs] : Call("inv7", bs)
  \/ \E x, y \in Inputs : Call("inv2", [k \in 1..7 |-> IF k = 1 THEN x ELSE y])
  \/ Inv2Step
  \/ Inv7Step

Spec == Init /\ [][Next]_vars

------------------------------------------------------------------------------
Width == IF op = "inv2" THEN 2 ELSE 7

(* Each output is the inverse of the input of the same index: no register  *)
(* was overwritten while a later statement still needed it, and none was   *)
(* read before it was written (inv2 and inv7 with their aliased            *)
(* temporaries).                                                           *)
EachItsOwn ==
  done /\ ok => \A k \in 1..Width : Times(r[k], b[k]) = one

(* The call fails exactly when one of the inputs has no inverse: verify    *)
(* must not refuse a proof for any other reason here, nor go on with a     *)
(* value that is not an inverse.                                           *)
FailsOnNonUnit ==
  done => (ok <=> \A k \in 1..Width : Invertible(b[k]))
==============================================================================
