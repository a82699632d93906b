------------------------------ MODULE BitSource ------------------------------
(***************************************************************************)
(* What every caller of the goosig PRNG relies on, with no word about      *)
(* reservoirs or word sizes: after a seeding, each request is answered     *)
(* with bits of the stream that seed defines, a bit is never handed out    *)
(* twice, and the bits of one answer keep the order of the stream.         *)
(* GooPrng implements this specification.                                  *)
(***************************************************************************)
EXTENDS Naturals, Sequences

CONSTANTS
  Seeds,      \* DRBG seeds (iv || key)
  NumBits,    \* bits of an answer to random_num
  Requests    \* sizes that random_bits is asked for

VARIABLES
  seed,       \* the seed in force
  given,      \* positions of that seed's stream handed out so far
  out         \* the last answer: a sequence of bits

bitVars == <<seed, given, out>>

(* A bit is its identity: the seed and the position in the seed's stream.  *)
Bit == [seed : Seeds, at : Nat \ {0}]

PositionsOf(s) == {s[i].at : i \in DOMAIN s}

BitInit ==
  /\ seed \in Seeds
  /\ given = {}
  /\ out = <<>>

(* A new seed starts a new stream: nothing of the old one survives.        *)
Reseed ==
  /\ seed' \in Seeds
  /\ given' = {}
  /\ out' = <<>>

(* An answer: bits of the stream in force, in order, none of them old.     *)
Take ==
  /\ seed' = seed
  /\ Len(out') \in Requests \cup {NumBits}
  /\ \A i \in DOMAIN out' : out'[i].seed = seed
  /\ \A i, j \in DOMAIN out' : i < j => out'[i].at < out'[j].at
  /\ PositionsOf(out') \cap given = {}
  /\ given' = given \cup PositionsOf(out')

BitNext == Reseed \/ Take

BitSpec == BitInit /\ [][BitNext]_bitVars
==============================================================================
