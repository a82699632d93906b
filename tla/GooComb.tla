------------------------------- MODULE GooComb -------------------------------
(***************************************************************************)
(* Fixed-base combs of src/src/goo/goo.c: goo_comb_init fills the tables   *)
(* of powers, goo_comb_recode cuts an exponent into windows, and           *)
(* goo_group_powgh computes g^e1 * h^e2 with the first pair of combs that  *)
(* is wide enough.  The windows are kept in the comb from call to call.    *)
(*                                                                         *)
(* An element g^x * h^y is the pair <<x, y>>, so that what is checked is   *)
(* the exponent the tables and windows add up to.                          *)
(***************************************************************************)
EXTENDS Integers, Sequences

CONSTANTS
  Shapes,     \* the shapes of the group's combs, in the order of the array
  Exponents   \* what powgh is asked for

ASSUME CombAssumption ==
  /\ Shapes \in Seq([points_per_add : Nat \ {0}, adds_per_shift : Nat \ {0},
                     shifts : Nat \ {0}])
  /\ Exponents \subseteq Int

VARIABLES
  combPc,     \* "setup", "idle", "recode", "eval" or "done"
  items,      \* items[n].g and .h: the tables of comb n
  wins,       \* wins[n].g and .h: its windows
  e1, e2,     \* the exponents of the call
  n,          \* the comb chosen
  base,       \* the comb being recoded: "g", then "h"
  i,          \* loop index: of the recoding downwards, of the product upwards
  ret,        \* the product so far
  combOk

powGHVars == <<combPc, items, wins, e1, e2, n, base, i, ret, combOk>>

One == <<0, 0>>
CombMul(x, y) == <<x[1] + y[1], x[2] + y[2]>>
CombPow(x, e) == <<x[1] * e, x[2] * e>>
G == <<1, 0>>
H == <<0, 1>>

Abs(x) == IF x < 0 THEN -x ELSE x
IsBitLen(x, m) == Abs(x) < 2^m /\ (m > 0 => Abs(x) >= 2^(m - 1))
BitLen(x) == CHOOSE m \in 0..Abs(x) : IsBitLen(x, m)

(* mpz_tstbit                                                              *)
Bit(x, b) == (x \div 2^b) % 2

BitsPerWindow(c) == c.adds_per_shift * c.shifts
Bits(c) == c.points_per_add * BitsPerWindow(c)
PointsPerSubcomb(c) == 2^c.points_per_add - 1
Size(c) == PointsPerSubcomb(c) * c.adds_per_shift

(* What the proofs need to be told of powers of two, up to m ...           *)
Doubling(m) == 2^0 = 1 /\ \A k \in 0..m : 2^k \in Nat \ {0} /\ 2^(k + 1) = 2 * 2^k

(* ... as far as the bits of the combs and of the exponents.               *)
ASSUME DoublingAssumption ==
  /\ \A m \in DOMAIN Shapes : Doubling(Bits(Shapes[m]))
  /\ \A x \in Exponents : (\E m \in 0..Abs(x) : IsBitLen(x, m)) /\ Doubling(BitLen(x))

(* Definitions named Bug... are defects: each is put in the place of the   *)
(* definition that follows it to see which property notices.               *)
(* The steps between sub-combs and between points are mixed up.            *)
BugTable(c, b) ==
  LET skip == PointsPerSubcomb(c)
      top(u) == CHOOSE x \in {2^m : m \in 0..c.points_per_add} : x <= u /\ u < 2 * x
      item[s \in 0..(Size(c) - 1)] ==
        LET u == s + 1
            x == top(u)
        IN IF s >= skip THEN CombPow(item[s - skip], 2^BitsPerWindow(c))
           ELSE IF u = 1 THEN b
           ELSE IF u = x THEN CombPow(item[x \div 2 - 1], 2^c.shifts)
           ELSE CombMul(item[u - x - 1], item[x - 1])
  IN item

(* goo_comb_init: in the first sub-comb item u - 1 is the product of the   *)
(* powers base^(2^(k * bits_per_window)) for the bits k of u; each further *)
(* sub-comb is the one before it raised to 2^shifts.                       *)
Table(c, b) ==
  LET skip == PointsPerSubcomb(c)
      top(u) == CHOOSE x \in {2^m : m \in 0..c.points_per_add} : x <= u /\ u < 2 * x
      item[s \in 0..(Size(c) - 1)] ==
        LET u == s + 1
            x == top(u)
        IN IF s >= skip THEN CombPow(item[s - skip], 2^c.shifts)
           ELSE IF u = 1 THEN b
           ELSE IF u = x THEN CombPow(item[x \div 2 - 1], 2^BitsPerWindow(c))
           ELSE CombMul(item[u - x - 1], item[x - 1])
  IN item

NoWindows(c) == [j \in 0..(c.shifts - 1) |-> [a \in 0..(c.adds_per_shift - 1) |-> 0]]
Cleansed == [m \in DOMAIN Shapes |-> [g |-> NoWindows(Shapes[m]), h |-> NoWindows(Shapes[m])]]

PowGHInit ==
  /\ combPc = "setup"
  /\ items = <<>> /\ wins = <<>>
  /\ e1 = 0 /\ e2 = 0 /\ n = 1 /\ base = "g" /\ i = 0
  /\ ret = One
  /\ combOk = FALSE

(* goo_comb_init for every comb of the group.                              *)
CombInit ==
  /\ combPc = "setup"
  /\ combPc' = "idle"
  /\ items' = [m \in DOMAIN Shapes |-> [g |-> Table(Shapes[m], G), h |-> Table(Shapes[m], H)]]
  /\ wins' = Cleansed
  /\ UNCHANGED <<e1, e2, n, base, i, ret, combOk>>

(* `bits <= group->combs[i].g.bits`                                        *)
Holds(m, x, y) == BitLen(x) <= Bits(Shapes[m]) /\ BitLen(y) <= Bits(Shapes[m])

(* goo_group_powgh: the first comb that is wide enough, or failure.        *)
PowGH(x, y) ==
  /\ combPc = "idle"
  /\ e1' = x /\ e2' = y
  /\ combOk' = FALSE
  /\ \/ /\ \E m \in DOMAIN Shapes :
             /\ Holds(m, x, y)
             /\ \A l \in 1..(m - 1) : ~Holds(l, x, y)
             /\ n' = m
        /\ combPc' = "recode"
        /\ base' = "g"
        /\ i' = Shapes[n'].adds_per_shift - 1
        /\ UNCHANGED <<items, wins, ret>>
     \/ /\ \A m \in DOMAIN Shapes : ~Holds(m, x, y)
        /\ combPc' = "done"
        /\ UNCHANGED <<items, wins, n, base, i, ret>>

Shape == Shapes[n]
Exponent == IF base = "g" THEN e1 ELSE e2

(* The refusals of goo_comb_recode: too wide for the comb, or negative.    *)
RecodeRefuses ==
  /\ combPc = "recode"
  /\ i = Shape.adds_per_shift - 1
  /\ BitLen(Exponent) > Bits(Shape) \/ Exponent < 0
  /\ combPc' = "done"
  /\ UNCHANGED <<items, wins, e1, e2, n, base, i, ret, combOk>>

BugWindow(e, a, j) ==
  LET c == Shape
      at(k) == (a + k * c.adds_per_shift) * c.shifts + j
      bits[k \in 0..c.points_per_add] ==
        IF k = 0 THEN 0 ELSE 2 * bits[k - 1] + Bit(e, Bits(c) - at(k - 1))
  IN bits[c.points_per_add]

(* The window for shift j and addition a: a bit of every bits_per_window,  *)
(* counted from the top.                                                   *)
Window(e, a, j) ==
  LET c == Shape
      at(k) == (a + k * c.adds_per_shift) * c.shifts + j
      bits[k \in 0..c.points_per_add] ==
        IF k = 0 THEN 0 ELSE 2 * bits[k - 1] + Bit(e, (Bits(c) - 1) - at(k - 1))
  IN bits[c.points_per_add]

(* A turn of the outer loop of goo_comb_recode.                            *)
Recode ==
  /\ combPc = "recode"
  /\ i >= 0
  /\ Exponent >= 0
  /\ LET w == wins[n][base]
         recoded == [j \in 0..(Shape.shifts - 1) |->
                       [w[j] EXCEPT ![(Shape.adds_per_shift - 1) - i] =
                          Window(Exponent, i, j)]]
     IN wins' = [wins EXCEPT ![n][base] = recoded]
  /\ i' = i - 1
  /\ UNCHANGED <<combPc, items, e1, e2, n, base, ret, combOk>>

(* The first exponent is recoded: go on with h, then with the product.     *)
NextBase ==
  /\ combPc = "recode" /\ i < 0
  /\ base = "g"
  /\ base' = "h"
  /\ i' = Shape.adds_per_shift - 1
  /\ UNCHANGED <<combPc, items, wins, e1, e2, n, ret, combOk>>

Recoded ==
  /\ combPc = "recode" /\ i < 0
  /\ base = "h"
  /\ combPc' = "eval"
  /\ i' = 0
  /\ ret' = One
  /\ UNCHANGED <<items, wins, e1, e2, n, base, combOk>>

(* The item a window of one addition selects; an empty window selects none.*)
Item(b, a, u) ==
  IF u = 0 THEN One ELSE items[n][b][a * PointsPerSubcomb(Shape) + u - 1]

(* A turn of the outer loop of goo_group_powgh: square, and add the items  *)
(* of both combs for every addition of this shift.                         *)
Shift ==
  /\ combPc = "eval"
  /\ i < Shape.shifts
  /\ LET squared == IF i = 0 THEN ret ELSE CombPow(ret, 2)
         upto[a \in 0..Shape.adds_per_shift] ==
           IF a = 0 THEN squared
           ELSE CombMul(CombMul(upto[a - 1], Item("g", a - 1, wins[n].g[i][a - 1])),
                    Item("h", a - 1, wins[n].h[i][a - 1]))
     IN ret' = upto[Shape.adds_per_shift]
  /\ i' = i + 1
  /\ UNCHANGED <<combPc, items, wins, e1, e2, n, base, combOk>>

PowGHReturn ==
  /\ combPc = "eval"
  /\ i = Shape.shifts
  /\ combPc' = "done"
  /\ combOk' = TRUE
  /\ UNCHANGED <<items, wins, e1, e2, n, base, i, ret>>

(* Another call of powgh, on the windows the last one left, or, when the   *)
(* operation is over, goo_comb_cleanse of all combs.                       *)
Again ==
  /\ combPc = "done"
  /\ combPc' = "idle"
  /\ e1' = 0 /\ e2' = 0 /\ n' = 1 /\ base' = "g" /\ i' = 0
  /\ ret' = One /\ combOk' = FALSE
  /\ wins' \in {wins, Cleansed}
  /\ UNCHANGED items

PowGHNext ==
  \/ CombInit
  \/ \E x, y \in Exponents : PowGH(x, y)
  \/ RecodeRefuses \/ Recode \/ NextBase \/ Recoded \/ Shift \/ PowGHReturn
  \/ Again

PowGHSpec == PowGHInit /\ [][PowGHNext]_powGHVars

------------------------------------------------------------------------------
(* powgh computes what mpz_powm would (goo_group_powgh_slow): every bit of *)
(* both exponents reaches the product once and with its own weight,        *)
(* whatever the windows held before, and whichever comb was chosen.  It    *)
(* refuses only what is negative or no comb of the group can hold: an      *)
(* exponent that the widest comb holds is never turned down.               *)
ProductIsExact ==
  combPc = "done" =>
    LET fits == \E m \in DOMAIN Shapes : {e1, e2} \subseteq 0..(2^Bits(Shapes[m]) - 1)
    IN /\ combOk <=> fits
       /\ combOk => ret = <<e1, e2>>
==============================================================================
