----------------------------- MODULE MCGooContext -----------------------------
(***************************************************************************)
(* One API object that is renewed at will, so that contexts wait to be     *)
(* collected while new ones are made at their side; three addresses for    *)
(* contexts and one for buffers, all of them used again.                   *)
(***************************************************************************)
EXTENDS GooContext, TLC

Alike == Permutations(Ctxs)
==============================================================================
