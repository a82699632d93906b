------------------------------ MODULE MCGooPrng ------------------------------
(***************************************************************************)
(* A small GooPrng.  With words of 4 bits, requests of 2, 3 and 8 bits     *)
(* stand for the code's 128 (half a word), 136 (leaves a remainder) and    *)
(* 2048 (a multiple of the word) of a 256-bit word, and the empty request  *)
(* is what random_bits(0) is: an answer from the reservoir alone.          *)
(***************************************************************************)
EXTENDS GooPrng

MCRequests == {0, 2, 3, 8}
==============================================================================
