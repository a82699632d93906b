------------------------------ MODULE MCGooGroup ------------------------------
(***************************************************************************)
(* The operations of the group below the protocol: inverses, powers by     *)
(* windows, the shapes of combs and powers by combs, one of the four per   *)
(* behaviour.                                                              *)
(*                                                                         *)
(* Inverses: residues mod 15, two of which callers pass have an inverse    *)
(* (one of them not its own) and one has none.                             *)
(* Powers: windows of 4 bits, tables of 4.  pow takes every exponent of up *)
(* to 8 bits, twice the window, and some that are refused; pow2 takes      *)
(* pairs of up to 5 bits.                                                  *)
(* Shapes: every width to 48, and five that groups of 1024 to 2048 bits    *)
(* ask for: 136 for a verifier, 1023 and 2047 for a small comb, 2185 and   *)
(* 4233 for a large one.  Tables range from too small for any shape to the *)
(* code's.                                                                 *)
(* Combs: two as a prover has, a small one of 6 bits (3 points, 2 shifts)  *)
(* and one of 12 bits with 2 points, 2 additions and 3 shifts.             *)
(***************************************************************************)
EXTENDS GooInverse, GooWnaf, GooCombSpec, GooComb

VARIABLE part     \* what the behaviour is about

MCElems == 0..14
MCTimes(x, y) == (x * y) % 15
MCInputs == {2, 7, 3}

MCPowers == [m \in 0..30 |-> 2^m]
MCPowExps == {-3} \cup 0..257
MCPow2Exps == {-1, 40} \cup 0..32

MCBitSizes == 0..48 \cup {136, 1023, 2047, 2185, 4233}
MCMaxSizes == {0, 2, 3, 20, 512}

MCShapes == << [points_per_add |-> 3, adds_per_shift |-> 1, shifts |-> 2],
               [points_per_add |-> 2, adds_per_shift |-> 2, shifts |-> 3] >>
MCExponents == {-1, 0, 1, 38, 63, 64, 1365, 2730, 3001, 4095, 4096}

GroupInit ==
  /\ part \in {"inverses", "powers", "shapes", "combs"}
  /\ Init /\ PowInit /\ PlanInit /\ PowGHInit
  /\ part # "powers" => table[1][0] = PowOne

GroupNext ==
  \/ part = "inverses" /\ Next /\ UNCHANGED <<part, powVars, planVars, powGHVars>>
  \/ part = "powers" /\ PowNext /\ UNCHANGED <<part, vars, planVars, powGHVars>>
  \/ part = "shapes" /\ PlanNext /\ UNCHANGED <<part, vars, powVars, powGHVars>>
  \/ part = "combs" /\ PowGHNext /\ UNCHANGED <<part, vars, powVars, planVars>>

GroupSpec ==
  GroupInit /\ [][GroupNext]_<<part, vars, powVars, planVars, powGHVars>>
===============================================================================
