------------------------------- MODULE GooPrng -------------------------------
(***************************************************************************)
(* The deterministic random bit generator of src/src/goo/goo.c             *)
(* (goo_prng_seed, goo_prng_random_bits, goo_prng_random_int,              *)
(* goo_prng_random_num): a reservoir `save` of `total` bits in front of    *)
(* the HMAC-DRBG.  random_bits fetches whole words of WordBits bits until  *)
(* it has enough, returns the leading ones and saves the rest.             *)
(*                                                                         *)
(* An mpz that holds random bits is modelled as the sequence of its bits,  *)
(* most significant first, and a bit by its identity: which seed's stream  *)
(* it belongs to and its position there.  Shifting left and or-ing a word  *)
(* is then concatenation, masking a suffix, shifting right a prefix.       *)
(* Whether a candidate is rejected depends on values the identities do not *)
(* carry, so the model lets every candidate be rejected or accepted.       *)
(***************************************************************************)
EXTENDS Naturals, Sequences

CONSTANTS
  Seeds,      \* seeds (iv || key)
  WordBits,   \* bits of a DRBG output used as a word: 8 * sizeof(out) = 256
  NumBits,    \* bits random_num takes straight from the DRBG: 32
  Requests,   \* the sizes callers ask for
  MaxDrawn    \* bound on the bits drawn from one seed

ASSUME PrngAssumption ==
  /\ WordBits \in Nat \ {0}
  /\ NumBits \in Nat \ {0}
  /\ Requests \subseteq Nat
  /\ MaxDrawn \in Nat

VARIABLES
  seed,       \* prng->ctx was initialised from it
  drawn,      \* bits the DRBG has output since then
  save,       \* prng->save
  total,      \* prng->total
  prngPc,     \* where random_bits is: "idle" between calls
  want,       \* its argument `bits`
  ret,        \* its result under construction, or the last result
  have,       \* its local `total`
  retry,      \* random_bits was called by random_int
  out,        \* history: the last answer of random_bits or random_num
  given       \* history: positions of the stream those answers used

prngVars == <<seed, drawn, save, total, prngPc, want, ret, have, retry, out, given>>

Bit == [seed : Seeds, at : Nat \ {0}]

(* The next k bits of the DRBG: goo_prng_generate.                         *)
Generate(k) == [i \in 1..k |-> [seed |-> seed, at |-> drawn + i]]

(* Definitions named Bug... are defects: each is put in the place of the   *)
(* definition that follows it to see which property notices.               *)
BugSuffixLong(s, k) == SubSeq(s, IF k = Len(s) THEN 1 ELSE Len(s) - k, Len(s))
BugSuffixShort(s, k) == SubSeq(s, Len(s) - k + 2, Len(s))
Suffix(s, k) == SubSeq(s, Len(s) - k + 1, Len(s))
Prefix(s, k) == SubSeq(s, 1, k)

(* ret = (ret << 8 * sizeof(out)) | word                                   *)
BugJoined(s, w) == w \o s
Joined(s, w) == s \o w

PositionsOf(s) == {s[i].at : i \in DOMAIN s}

(* The bound: there is room for a request of that size.  A request fetches *)
(* less than one word more than it asks for.                               *)
Room(bits) == drawn + bits + WordBits <= MaxDrawn

PrngInit ==
  /\ seed \in Seeds
  /\ drawn = 0
  /\ save = <<>>
  /\ total = 0
  /\ prngPc = "idle"
  /\ want = 0
  /\ ret = <<>>
  /\ have = 0
  /\ retry = FALSE
  /\ out = <<>>
  /\ given = {}

(* The reservoir survives a new seed.                                      *)
BugSeed(s) ==
  /\ prngPc = "idle"
  /\ seed' = s
  /\ drawn' = 0
  /\ out' = <<>>
  /\ given' = {}
  /\ UNCHANGED <<save, total, prngPc, want, ret, have, retry>>

(* goo_prng_seed: the DRBG restarts and the reservoir is emptied.          *)
Seed(s) ==
  /\ prngPc = "idle"
  /\ seed' = s
  /\ drawn' = 0
  /\ save' = <<>>
  /\ total' = 0
  /\ out' = <<>>
  /\ given' = {}
  /\ UNCHANGED <<prngPc, want, ret, have, retry>>

(* Entry of goo_prng_random_bits(bits): ret = save.                        *)
BeginBits(bits, byInt) ==
  /\ prngPc = "idle"
  /\ Room(bits)
  /\ prngPc' = "fill"
  /\ want' = bits
  /\ ret' = save
  /\ have' = total
  /\ retry' = byInt
  /\ UNCHANGED <<seed, drawn, save, total, out, given>>

(* goo_prng_random_bits(prng, ret, bits), called by the group.             *)
RandomBits(bits) == BeginBits(bits, FALSE)

(* goo_prng_random_int(prng, ret, max) with a `max` of `bits` bits.  Its   *)
(* early return for max <= 0 asks for nothing and leaves the prng alone.   *)
RandomInt(bits) ==
  /\ bits > 0
  /\ BeginBits(bits, TRUE)

(* `total < bits`                                                          *)
Short == have < want

(* One turn of `while (total < bits)`.                                     *)
Fill ==
  /\ prngPc = "fill"
  /\ Short
  /\ ret' = Joined(ret, Generate(WordBits))
  /\ drawn' = drawn + WordBits
  /\ have' = have + WordBits
  /\ UNCHANGED <<seed, save, total, prngPc, want, retry, out, given>>

(* The end of goo_prng_random_bits: split ret into result and reservoir.   *)
Split ==
  /\ prngPc = "fill"
  /\ ~Short
  /\ LET left == have - want IN
       /\ save' = Suffix(ret, left)
       /\ total' = left
       /\ ret' = Prefix(ret, Len(ret) - left)
       /\ out' = ret'
       /\ given' = given \cup PositionsOf(ret')
  /\ prngPc' = IF retry THEN "compare" ELSE "idle"
  /\ UNCHANGED <<seed, drawn, want, have, retry>>

(* random_int's `while (ret >= max)`: the candidate is good, or dropped.   *)
Accept ==
  /\ prngPc = "compare"
  /\ prngPc' = "idle"
  /\ UNCHANGED <<seed, drawn, save, total, want, ret, have, retry, out, given>>

Reject ==
  /\ prngPc = "compare"
  /\ Room(want)
  /\ prngPc' = "fill"
  /\ ret' = save
  /\ have' = total
  /\ UNCHANGED <<seed, drawn, save, total, want, retry, out, given>>

(* One turn of goo_prng_random_num's loop: 4 bytes straight from the DRBG, *)
(* past the reservoir.  A rejected candidate is replaced by another turn.  *)
RandomNum ==
  /\ prngPc = "idle"
  /\ drawn + NumBits <= MaxDrawn
  /\ out' = Generate(NumBits)
  /\ drawn' = drawn + NumBits
  /\ given' = given \cup PositionsOf(out')
  /\ UNCHANGED <<seed, save, total, prngPc, want, ret, have, retry>>

PrngNext ==
  \/ \E s \in Seeds : Seed(s)
  \/ \E bits \in Requests : RandomBits(bits) \/ RandomInt(bits)
  \/ Fill \/ Split \/ Accept \/ Reject
  \/ RandomNum

PrngSpec == PrngInit /\ [][PrngNext]_prngVars

------------------------------------------------------------------------------
(* The reservoir, or what random_bits holds before it splits.              *)
Held == IF prngPc = "fill" THEN ret ELSE save

TypeOK ==
  /\ seed \in Seeds
  /\ drawn \in Nat
  /\ save \in Seq(Bit) /\ ret \in Seq(Bit) /\ out \in Seq(Bit)
  /\ total \in Nat /\ have \in Nat /\ want \in Nat
  /\ prngPc \in {"idle", "fill", "compare"}
  /\ retry \in BOOLEAN
  /\ given \subseteq Nat

(* Bits are never used twice: nothing held for a later request has been    *)
(* handed out already (goo_prng_random_bits masks `save` to the bits it    *)
(* does not return, and random_num does not read the reservoir).           *)
NoReuse == PositionsOf(Held) \cap given = {}

(* Bits are never lost: what the DRBG has output was handed out or is      *)
(* still held.  A lost bit would make two conforming implementations (C    *)
(* and JS) derive different challenges from the same key.                  *)
NoLoss == given \cup PositionsOf(Held) = 1..drawn

(* Held bits are bits of the seed in force, in stream order: a reservoir   *)
(* left from an earlier seed, or words joined the wrong way round, would   *)
(* make `chal` and `ell` depend on the context's history.                  *)
InOrder ==
  /\ \A i \in DOMAIN Held : Held[i].seed = seed
  /\ \A i, j \in DOMAIN Held : i < j => Held[i].at < Held[j].at

(* `total` is the width of the reservoir, which is less than one word:     *)
(* random_bits never fetches a word it does not need.                      *)
ReservoirWidth ==
  /\ total = Len(save)
  /\ total < WordBits
  /\ prngPc = "fill" => have = Len(ret)

(* The promise of BitSource, of which this module is an implementation:    *)
(* every step either hands out bits of the seed's stream that no earlier   *)
(* answer used, in stream order, or starts a new stream, or is internal.   *)
Source == INSTANCE BitSource WITH
            seed <- seed, given <- given, out <- out,
            Seeds <- Seeds, NumBits <- NumBits, Requests <- Requests
ImplementsBitSource == Source!BitSpec
==============================================================================
