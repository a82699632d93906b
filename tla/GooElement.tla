----------------------------- MODULE GooElement ------------------------------
(***************************************************************************)
(* The group of src/src/goo/goo.c as its callers use it.  All elements the *)
(* protocol computes are products g^x * h^y, so an element is modelled by  *)
(* the two exponents: what holds for exponents holds in (Z/n)*, whatever   *)
(* the unknown order.  The group proper is the quotient by {1, -1}: the C  *)
(* code computes residues mod n, of which goo_group_reduce picks the       *)
(* representative that is at most n / 2.  `canon` says that this was done: *)
(* a residue that was not reduced may be the other one, and a value that   *)
(* is hashed or compared must be canonical.                                *)
(***************************************************************************)
EXTENDS Integers

Element == [g : Int, h : Int, canon : BOOLEAN]

Elem(x, y) == [g |-> x, h |-> y, canon |-> FALSE]

(* goo_group_powgh: g^e1 * h^e2.                                           *)
PowGH(e1, e2) == Elem(e1, e2)

(* goo_group_mul, goo_group_pow and goo_group_inv: residues mod n.         *)
Mul(a, b) == Elem(a.g + b.g, a.h + b.h)
Pow(b, e) == Elem(b.g * e, b.h * e)
Inv(b) == Elem(-b.g, -b.h)

(* goo_group_reduce: the canonical representative.                         *)
Reduce(b) == [g |-> b.g, h |-> b.h, canon |-> TRUE]
==============================================================================
