------------------------------- MODULE MCGooHash ------------------------------
(***************************************************************************)
(* The block buffer, HMAC over it, and the generator over HMAC, one of the *)
(* three per behaviour.                                                    *)
(*                                                                         *)
(* Blocks of four bytes with a length field of one: the padding goes into  *)
(* the same block or into a new one.  Pieces are empty, end inside, at and *)
(* beyond a block, and pass over two; messages take up to three blocks.    *)
(* Digests have two bytes, so that a key may be a digest, empty, or a      *)
(* whole block, and a result may be the next key.                          *)
(*                                                                         *)
(* Two generators and two seeds: a call may end inside a block or beyond   *)
(* it, or ask for nothing.  With three seedings one is seeded again beside *)
(* another.                                                                *)
(***************************************************************************)
EXTENDS GooSha256Stream, GooHmac, GooDrbg, TLC

VARIABLE part     \* what the behaviour is about

MCPieceLens == {0, 1, 2, 3, 4, 9}
MCKeyLens == {0, 2, 4}
MCMessageLens == {0, 1, 3, 4}
MCLens == {0, 1, 3}
MCSymmetry == Permutations(Users) \cup Permutations(Seeds)

Init ==
  /\ part \in {"hash", "mac", "generators"}
  /\ StreamInit /\ MacInit /\ GeneratorInit
  /\ part # "mac" => buffer = <<>>

Next ==
  \/ part = "hash" /\ StreamNext /\ UNCHANGED <<part, macVars, generatorVars>>
  \/ part = "mac" /\ MacNext /\ UNCHANGED <<part, streamVars, generatorVars>>
  \/ part = "generators" /\ GeneratorNext /\ UNCHANGED <<part, streamVars, macVars>>

Spec == Init /\ [][Next]_<<part, streamVars, macVars, generatorVars>>
===============================================================================
