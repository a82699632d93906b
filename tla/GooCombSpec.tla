----------------------------- MODULE GooCombSpec -----------------------------
(***************************************************************************)
(* goo_combspec_init of src/src/goo/goo.c: the shape of a fixed-base comb. *)
(* For every number of points per addition and every way to split a window *)
(* into shifts and additions it computes the cost in operations and the    *)
(* size of the table; the cheapest shape whose table is small enough wins. *)
(* The candidates are kept in an array indexed by cost, whose length a     *)
(* second function, combspec_size, finds beforehand with loops of its own. *)
(***************************************************************************)
EXTENDS Naturals, FiniteSets

CONSTANTS
  MaxPpa,     \* the loops run ppa from 2 to this: 17
  BitSizes,   \* the widths combs are asked for
  MaxSizes    \* the table sizes allowed: GOO_MAX_COMB_SIZE

ASSUME CombSpecAssumption ==
  /\ MaxPpa \in Nat /\ MaxPpa >= 2
  /\ BitSizes \subseteq Nat /\ MaxSizes \subseteq Nat

VARIABLES
  planPc,     \* "idle", "fill", "pick" or "done"
  bits, maxSize,
  specsLen,   \* the length of the array
  specs,      \* the array: cost -> best shape of that cost
  ppa, aps,   \* the loop indices of the filling
  idx, sm,    \* index and least size of the selection
  chosen,     \* the shape copied to the caller
  planOk

planVars == <<planPc, bits, maxSize, specsLen, specs, ppa, aps, idx, sm, chosen, planOk>>

(* A shape, as goo_combspec_t.                                             *)
ShapeOf(p, a, s, w) ==
  [points_per_add |-> p, adds_per_shift |-> a, shifts |-> s,
   bits_per_window |-> w, size |-> (2^p - 1) * a]
NoShape == [points_per_add |-> 0, adds_per_shift |-> 0, shifts |-> 0,
            bits_per_window |-> 0, size |-> 0]

Ops(a, s) == s * (a + 1) - 1

CeilDiv(x, y) == (x + y - 1) \div y

(* A power of two above the root of x, by the length of x.                 *)
FirstGuess(x) ==
  LET len == CHOOSE n \in 0..x : 2^n > x /\ (n > 0 => 2^(n - 1) <= x)
  IN 2^(len \div 2 + 1)

(* What the proofs need of powers of two.                                  *)
ASSUME PowersAssumption ==
  /\ \A w \in BitSizes : \A x \in 2..w :
       FirstGuess(x) \in 1..(4 * x + 4) /\ x < FirstGuess(x) * FirstGuess(x)
  /\ \A p \in 2..MaxPpa : 2^p \in Nat /\ 2 <= 2^p /\ 2^p <= 2^MaxPpa

(* goo_isqrt: Newton's iteration.                                          *)
Isqrt(x) ==
  LET step[a \in 1..(4 * x + 4)] ==
        LET b == (x \div a + a) \div 2 IN IF b >= a THEN a ELSE step[b]
  IN IF x <= 1 THEN x ELSE step[FirstGuess(x)]

(* The bits of a window: bits / ppa, rounded up.                           *)
BitsPerWindowOf(w, p) == CeilDiv(w, p)

(* Definitions named Bug... are defects: each is put in the place of the   *)
(* definition that follows it to see which property notices.               *)
BugApsEnd(bpw) == Isqrt(bpw)

(* `aps < sqrt + 2`                                                        *)
ApsEnd(bpw) == Isqrt(bpw) + 2

(* The factors combspec_size finds.                                        *)
ApsOf(bpw) == {a \in 1..(Isqrt(bpw) + 1) : bpw % a = 0}

BugSpecsLenOf(w) ==
  LET costs == UNION {{Ops(a, BitsPerWindowOf(w, p) \div a) : a \in ApsOf(BitsPerWindowOf(w, p))} :
                        p \in 2..MaxPpa}
  IN CHOOSE m \in costs : \A c \in costs : c <= m

(* combspec_size: one more than the largest cost, by loops of its own.     *)
SpecsLenOf(w) ==
  LET costs == UNION {{Ops(a, BitsPerWindowOf(w, p) \div a) : a \in ApsOf(BitsPerWindowOf(w, p))}
                        \cup {Ops(BitsPerWindowOf(w, p) \div a, a) : a \in ApsOf(BitsPerWindowOf(w, p))} :
                        p \in 2..MaxPpa}
  IN 1 + CHOOSE m \in costs : \A c \in costs : c <= m

PlanInit ==
  /\ planPc = "idle"
  /\ bits = 0 /\ maxSize = 0 /\ specsLen = 0
  /\ specs = [c \in {} |-> NoShape]
  /\ ppa = 0 /\ aps = 0 /\ idx = 0 /\ sm = 0
  /\ chosen = NoShape
  /\ planOk = FALSE

(* `bits == 0 || max_size == 0`                                            *)
PlanRefuse(w, m) ==
  /\ planPc = "idle"
  /\ w = 0 \/ m = 0
  /\ planPc' = "done"
  /\ bits' = w /\ maxSize' = m
  /\ planOk' = FALSE
  /\ UNCHANGED <<specsLen, specs, ppa, aps, idx, sm, chosen>>

PlanBegin(w, m) ==
  /\ planPc = "idle"
  /\ w # 0 /\ m # 0
  /\ planPc' = "fill"
  /\ bits' = w /\ maxSize' = m
  /\ specsLen' = SpecsLenOf(w)
  /\ ppa' = 2 /\ aps' = 1
  /\ UNCHANGED <<specs, idx, sm, chosen, planOk>>

BugKept(arr, cost, sh) == cost \in DOMAIN arr

(* combspec_generate keeps what is in the array unless the new shape is    *)
(* smaller.                                                                *)
Kept(arr, cost, sh) == cost \in DOMAIN arr /\ arr[cost].size <= sh.size

Generate(arr, s, a, p, w) ==
  LET cost == Ops(a, s)
      shape == ShapeOf(p, a, s, w)
  IN IF Kept(arr, cost, shape) THEN arr
     ELSE [c \in DOMAIN arr \cup {cost} |-> IF c = cost THEN shape ELSE arr[c]]

(* A turn of the inner loop: both orientations of a factorisation, or      *)
(* nothing when aps does not divide the window.                            *)
Fill ==
  /\ planPc = "fill"
  /\ ppa <= MaxPpa
  /\ LET bpw == BitsPerWindowOf(bits, ppa)
         s == bpw \div aps
     IN /\ aps < ApsEnd(bpw)
        /\ specs' = IF bpw % aps = 0
                    THEN Generate(Generate(specs, s, aps, ppa, bpw), aps, s, ppa, bpw)
                    ELSE specs
  /\ aps' = aps + 1
  /\ UNCHANGED <<planPc, bits, maxSize, specsLen, ppa, idx, sm, chosen, planOk>>

NextPpa ==
  /\ planPc = "fill"
  /\ ppa <= MaxPpa
  /\ aps >= ApsEnd(BitsPerWindowOf(bits, ppa))
  /\ ppa' = ppa + 1
  /\ aps' = 1
  /\ UNCHANGED <<planPc, bits, maxSize, specsLen, specs, idx, sm, chosen, planOk>>

(* ULONG_MAX, the least size so far when the selection starts.              *)
Unbounded == 2^MaxPpa * (bits + 1)

Filled ==
  /\ planPc = "fill"
  /\ ppa > MaxPpa
  /\ planPc' = "pick"
  /\ idx' = 0
  /\ sm' = Unbounded
  /\ UNCHANGED <<bits, maxSize, specsLen, specs, ppa, aps, chosen, planOk>>

(* A turn of the selection: by increasing cost, the first shape that fits. *)
Skip ==
  /\ planPc = "pick"
  /\ idx < specsLen
  /\ idx \in DOMAIN specs => sm <= specs[idx].size \/ specs[idx].size > maxSize
  /\ sm' = IF idx \in DOMAIN specs /\ specs[idx].size < sm THEN specs[idx].size ELSE sm
  /\ idx' = idx + 1
  /\ UNCHANGED <<planPc, bits, maxSize, specsLen, specs, ppa, aps, chosen, planOk>>

Pick ==
  /\ planPc = "pick"
  /\ idx < specsLen
  /\ idx \in DOMAIN specs
  /\ specs[idx].size < sm
  /\ specs[idx].size <= maxSize
  /\ planPc' = "done"
  /\ sm' = specs[idx].size
  /\ chosen' = specs[idx]
  /\ planOk' = TRUE
  /\ specs' = [c \in {} |-> NoShape]
  /\ UNCHANGED <<bits, maxSize, specsLen, ppa, aps, idx>>

NoneFits ==
  /\ planPc = "pick"
  /\ idx >= specsLen
  /\ planPc' = "done"
  /\ planOk' = FALSE
  /\ specs' = [c \in {} |-> NoShape]
  /\ UNCHANGED <<bits, maxSize, specsLen, ppa, aps, idx, sm, chosen>>

PlanNext ==
  \/ \E w \in BitSizes, m \in MaxSizes : PlanRefuse(w, m) \/ PlanBegin(w, m)
  \/ Fill \/ NextPpa \/ Filled
  \/ Skip \/ Pick \/ NoneFits

PlanSpec == PlanInit /\ [][PlanNext]_planVars

------------------------------------------------------------------------------
(* `assert((size_t)ops < specs_len)` in combspec_generate: the loops of    *)
(* combspec_size bound the costs that the loops of goo_combspec_init       *)
(* produce.  Without assertions a cost beyond it is a write past the array.*)
CostsFitArray == \A c \in DOMAIN specs : c < specsLen

(* Every shape there is, whatever way it was found: all divisors of the    *)
(* window, not those up to its square root.                                *)
AllShapes ==
  UNION {{ShapeOf(p, a, BitsPerWindowOf(bits, p) \div a, BitsPerWindowOf(bits, p)) :
            a \in {d \in 1..BitsPerWindowOf(bits, p) : BitsPerWindowOf(bits, p) % d = 0}} :
           p \in 2..MaxPpa}
Cost(sh) == Ops(sh.adds_per_shift, sh.shifts)

Covered(sh) == sh.points_per_add * sh.adds_per_shift * sh.shifts

(* The shape chosen is the cheapest of all those whose table is small      *)
(* enough, and none is chosen only if there is none: the bound on the      *)
(* square root skips no factorisation, no shape is overwritten by a larger *)
(* one of the same cost, and the early end of the selection misses none.   *)
(* Its points, additions and shifts cover the bits asked for, and fewer    *)
(* than ppa bits more.                                                     *)
CheapestThatFits ==
  planPc = "done" /\ bits # 0 =>
    LET fitting == {sh \in AllShapes : sh.size <= maxSize}
    IN /\ planOk <=> fitting # {}
       /\ planOk => /\ chosen \in fitting
                    /\ \A sh \in fitting : Cost(chosen) <= Cost(sh)
                    /\ bits <= Covered(chosen)
                    /\ Covered(chosen) < bits + chosen.points_per_add
==============================================================================
