# Formal models of goosig

goosig makes anonymous RSA signatures (GooSig): the holder of an RSA key proves
knowledge of the factors of a committed modulus over a group of unknown order.
The repository holds a C library (`src/src/goo`), a N-API binding
(`src/src/goosig.cc`), and a second implementation in JavaScript (`src/lib/js`).
The modules here are TLA+ specifications of that code, configurations that
check them with TLC, and proofs that TLAPS checks.

Line numbers below are those of `src/src/goo/goo.c` unless a file is named.

## The system

The library is sequential. A *context* (`goo_group_t`) is made once for a group
`(n, g, h)` and then serves calls in any order; a call runs to its end. What is
hard is therefore not a race but what one call leaves to the next, how draws
from one stream interleave, loops that start over, boundaries that two
independent pieces of code must agree on to the unit, and returns half way
through an operation.

| Part | State | Operations | What makes it correct |
|---|---|---|---|
| PRNG (376-520) | DRBG, reservoir `save`, its width `total` | seed, random_bits, random_int, random_num | every bit of a stream is used once, in order; a seeding forgets everything |
| HMAC-DRBG, SHA-256 (`drbg.c`, `hmac.c`, `sha256.c`) | K, V; block buffer | init, update, generate, final | block boundaries do not show in the output |
| Prime search (1106-1132) | candidate, distance | goo_next_prime | the first accepted odd number of the interval verify checks |
| Primality (805-1104) | none | trial division, Miller-Rabin, Lucas | no prime is refused |
| Square roots (526-799) | none | isqrt, sqrtm, sqrtpq | w^2 = t mod n; ends |
| Combs (1316-1583, 1912-1966) | tables, windows | combspec, comb_init, recode, powgh | the product is g^e1 * h^e2 for every e that fits |
| wNAF (1968-2167) | three digit arrays, four tables | wnaf, pow, pow2 | the digits sum to e; no carry is left |
| Inversion (1766-1876) | registers | inv, inv2, inv7 | each output is the inverse of its own input |
| Group and context (1592-1764) | n, n/2, combs, PRNG, scratch, SHA prefix | init, uninit, cleanse, reduce | a context behaves as a fresh one, whatever it did before |
| Protocol (2207-3010) | none beyond the context; sign's locals | challenge, validate, sign, verify | what sign returns verifies, in one form only, and depends on key, s_prime and message alone |
| Serialization (1138-1308) | none | export, import | import of export is the identity; one encoding for a signature |
| OAEP and veil (3016-3374, 3612-3705) | none | encrypt, decrypt | decrypt of encrypt is the identity |
| Exported API (3380-3705), binding, `lib/api.js` | contexts; two lazily made ones per API object | create, destroy, and the above | failures leave nothing behind; calls go to a context that can serve them |
| JavaScript backend | as in C | as in C | agrees with C |

How they interact: sign and challenge read `s` from the *context's* PRNG, which
they reseed from `s_prime`; sign draws everything else from a PRNG of its own,
seeded from the key, `s_prime` and message (403-435). Both derive `chal` and
`ell'` from the context's PRNG, reseeded with the hash of the transcript. The
signer searches the prime `ell` from `ell'` with goo_next_prime; the verifier
never searches, it checks an interval and primality. Every exponentiation with
base g or h goes through the combs of the context, and fails if none is wide
enough.

## Modules

| Module | What it is |
|---|---|
| `BitSource` | what callers rely on from a PRNG: bits of a seed's stream, each at most once, in order |
| `GooPrng` | the PRNG with its reservoir; implements `BitSource` |
| `NextPrimeSpec` | what goo_next_prime promises, without its loop |
| `GooNextPrime` | goo_next_prime, one action per turn |
| `GooElement` | the group as its callers use it |
| `GooProtocol` | challenge, validate, sign and verify on several contexts; uses `GooElement` and `NextPrimeSpec` |
| `GooWidths` | the widths of all exponents of sign and verify, with the code's constants |
| `GooInverse` | inv, inv2 and inv7, register by register |
| `GooWnaf` | precomp_table, wnaf, one_mul, pow and pow2, digit by digit |
| `GooCombSpec` | combspec_size, combspec_generate, goo_combspec_init |
| `GooComb` | comb_init, comb_recode, powgh |
| `GooSig` | export and import of a signature, field by field |
| `GooNumber` | zerobits, bitlen, powers and the Jacobi symbol, with the references they are compared with |
| `GooSqrt` | sqrtm and sqrtpq, turn by turn |
| `GooIsPrime` | trial division, Miller-Rabin and Lucas, turn by turn |
| `GooOaep` | OAEP, veil and unveil |
| `HashSpec` | what a streaming hash promises: the digest of all bytes at once |
| `GooSha256`, `GooSha256Stream` | the block buffer and padding as operators; a context in use, which implements `HashSpec` |
| `GooHmac` | HMAC in place over `GooSha256` |
| `GooDrbg` | HMAC-DRBG, one action per HMAC, several generators |
| `GooContext` | contexts, their memory and their secrets, from `lib/api.js` through the binding to goo_create and goo_destroy |
| `MCGooPrng`, `MCGooNextPrime`, `MCGooProtocol`, `MCGooSig`, `MCGooWidths`, `MCGooContext` | instances for TLC of one module each |
| `MCGooGroup`, `MCGooNumbers`, `MCGooHash` | instances of several: a variable `part`, chosen at the start, says which component the behaviour is about, and the others stand still |
| `GooNumberProofs`, `GooSqrtProofs`, `GooProtocolProofs`, `GooGroupProofs`, `GooSigProofs`, `GooHashProofs`, `GooCombProofs`, `GooContextProofs` | theorems |

Definitions whose name starts with `Bug` are defects. Each stands before the
definition it would replace, and no specification uses it: they show that a
property notices the mistake.

### GooPrng

A number made of random bits is the sequence of those bits, and a bit is its
identity (which seed, which position), so a bit lost, repeated, out of place or
left from an earlier seed is visible. `save`, `total`, `ret` and `have` are the
fields and locals of the code; `out` and `given` are history. random_int keeps
drawing until its candidate is below the limit; the identities carry no values,
so `Accept` and `Reject` are both possible.

### GooNextPrime

`Accepted` is what goo_is_prime accepts; nothing is assumed of it, so the
results hold for the probabilistic test too. `Result` is what sign makes of the
answer (0 for failure, 2667). The loop is fair: it is a loop of a sequential
program.

### GooElement

Everything the protocol computes is a product g^x * h^y. An element is modelled
by the pair of exponents over the integers: an identity between exponents holds
in (Z/n)* whatever the unknown order of the group is. `canon` records that
goo_group_reduce was applied, since the other residue of the pair {b, n - b}
hashes differently. Elements are always invertible here.

### GooProtocol

A context is the state of its PRNG (`prng`) and the widths of its combs
(`Combs`). Signing is a sequence of actions over `pc`, cut at the draws:

| pc | action | code |
|---|---|---|
| idle | `SignBegin` | 2513-2532: checks of the key, seed of sign's PRNG |
| search | `SearchHit`, `SearchMiss`, `SearchFails` | 2534-2552: one Fisher-Yates step and one square root per turn |
| blind | `NotDivisible`, `DrawBlinding` | 2563-2596 |
| commit | `MakeCommitments` | 2584-2615 |
| mask | `MakeMasks` | 2628-2651 |
| loop, try | `DrawTry`, `Try` | 2653-2669: a turn of the loop for ell |
| respond | `Respond` | 2671-2772 |
| any | `SignFails` | every `goto fail` for an exponent no comb can hold |

`Challenge`, `Validate` and `Verify` are one step each, with `...Refuse` for
their early returns. After `SignBegin` no other call can be made until sign
returns: the program is sequential. Several calls then follow each other on any
context.

- Hash digests are the values hashed (`Transcript`, `SignSeed`): equal inputs
  have equal digests and different ones differ. The fixed prefix, with the
  group's hash, is left out, as all contexts of an instance share a group.
- Random values are sampled. The first reader of a place in the stream of a
  seed fixes its value in `tape`; every later reader of that place gets the
  same one. A PRNG is a seed and a position in values, which GooPrng justifies:
  each answer is the next bits of the stream.
- `Accepts(tr)` is what goo_is_prime accepts with the key of that transcript.
- `SqrtPQ` gives the root goo_mpz_sqrtpq finds, or -1; `RootAssumption` says what
  a root is when the factors of the key are primes.
- Widths are exclusive bounds (`EllLim` is 2^ELL_BITS). `WidthAssumption` says
  what goo_group_init and internal.h guarantee of the real ones: every context
  has a comb that holds ELL_BITS bits, CHAL_BITS <= ELL_BITS, and chal * t is
  far less than ell * 2^EXP_BITS.
- verify is given signatures that sign returned, and two other forms of the
  same proof: z_s2 larger by ell with Bq adjusted, and C2 as the other residue.
- `sigs`, `issued` and `verdict` are history.

### GooWidths

A number is a bound on its bit length, so an action is a comparison. `SignCalls`
and `VerifyCalls` list the calls of powgh, pow, pow2 and the fields of the
transcript in their order with the width of each exponent, and a step of the
machine is one call: it fails when no comb of the context, which goo_group_init
made from `bits` and the group's modulus, holds the width. The constants are
those of internal.h. pow2 fails too when its digits would not fit their array, as
the code does; pow has the same test, but sign does not look at what it returns.
`ArraysHold` says that neither test is ever met. Widths come from the arithmetic of sign (a product adds
widths, a sum takes one more, a quotient by ell subtracts). `Roundings` is by
how much combspec_init exceeds what was asked.

Two facts show here. A context may be made with `bits` from 1024 on, but below
1905, and with a group of fewer than 1906 bits, its combs hold z_sa / ell for no
key: sign always fails, after drawing. And Eq fits its 2048 bits for all sizes.

### GooInverse

`b` are the inputs b1 to b7 and `r` the outputs r1 to r7, which hold the
intermediate products before they hold the inverses, as in the code: a register
is read and overwritten several times on the way. Elements are those of any commutative
monoid; an input may have no inverse, and the one call of mpz_invert then fails.

### GooWnaf, GooCombSpec, GooComb

In `GooWnaf` and `GooComb` an element is the tuple of exponents of its bases, so
the result of a power is compared with the exponents asked for. Tables, digits
and windows hold what the call before left there. `GooWnaf` follows one call of
pow or pow2, a turn of each of its loops per action: those that fill a table (the
square of the base waits in the last slot until the last turn overwrites it),
that recode an exponent, and that evaluate the digits; `GooComb` call after call on two combs. `GooCombSpec` fills the
array of shapes indexed by cost as the loops do and picks from it; the reference
enumerates all factorisations. Widths of C integers do not matter at these
sizes.

### GooSig

One action per field. The code lists the eighteen fields with their widths three
times, and so does the model: `ExportList` are the calls of goo_write_int,
`ImportList` those of goo_read_int, and `Size` is the sum that goo_sig_size adds up.
Nothing but `RoundTrip` says that they agree. Between export and import the bytes may arrive with one
byte changed, missing or added. What was imported is exported again, which is
what shows whether an encoding is unique.

### GooNumber, GooSqrt, GooIsPrime

Numbers are computed. sqrtm is followed for every modulus, since nothing tests
that a key's factors are prime: with a modulus that is not, the search for a
non-residue and the search for the order may run for ever (the model keeps the
two counters finite), and the code has no limit there. goo_is_prime takes any
base that may be drawn. Its limit of 50 on the Lucas parameter refuses those
primes for which all p^2 - 4 up to it are squares, about one prime in 2^15;
`NoPrimeRefused` says so by leaving them out. The limit is that of the code, the
same for sign and verify.

### HashSpec, GooSha256Stream, GooHmac, GooDrbg

A digest is the sequence of blocks compressed, so two messages have one digest
only if they are padded to the same blocks. A byte of a message is its position,
and a byte left in the block from an earlier message is told apart. `GooHmac`
has the key and the result in one buffer, as the DRBG calls it. `GooDrbg`
takes HMAC as an oracle: an answer is the number of its question.

### GooOaep

In the run bytes have two bits and digests one byte, and the hash is a toy that
tells its labels apart; the xor of two bytes is defined by their bits. The scan of the padded block is one action per byte,
with the flags of the branch-free code.

### GooContext

`heap` is what was allocated; a working area holds a secret, something public,
or nothing. Calls are synchronous. A call goes through the stages of its
goo_group function in order, each of which writes into areas and may fail, and
ends through the clean-up of the label it jumps to. Finalizers of contexts that
no API object holds, and of buffers, run at any moment, during a call too.
malloc leaves any value in `combs_len`. Of goo_group_cleanse and the PRNG it
matters what they wipe: challenge does not call cleanse, so the
windows of `s` stay in the context until the next validate or sign, or until it
is destroyed. `ScratchWiped` claims nothing of challenge, and speaks of
goo_group_validate and goo_group_sign: a goo_validate or goo_sign that refuses its
arguments returns before it gets to either, and what was there stays
(`EnterRefuses`). Two more exits come before a group function: goo_create without a
modulus frees the struct that goo_group_init has not touched (`NoModulus`), and
goo_verify gives up when goo_sig_import does (`BadSignature`).

## What the runs check

| Run | Instance | Properties |
|---|---|---|
| `prng` | two seeds, words of 4 bits, random_num of 2, requests of 0, 2, 3 and 8 bits, 26 bits per seed | `NoReuse`, `NoLoss`, `InOrder`: each bit once; `ImplementsBitSource`: the refinement |
| `next_prime` | starts and limits on both sides of prime gaps, of either parity, limit 0 included | `BoundedSearch`, `UnboundedSearch`: the answer is exact; `SearchEnds` |
| `protocol_draws` | one key, a prover and a verifier, two scalars, two values of ell', a second turn of the loop | `HonestSignatureVerifies`, `OneForm`, `AssertionsHold` |
| `protocol_calls` | two provers and a context with combs too narrow for the key, two calls of sign, two values of s | `SignDeterministic`, `OneChallenge` |
| `protocol_keys` | five keys: one that signs, one without a residue, p = q, an even factor, a modulus too small; narrow combs and a verifier | `TypeOK`, `SearchCovers` |
| `group` | residues mod 15; all exponents to 8 bits (pow) and pairs to 5 bits (pow2) with windows of 4; widths to 48 and five of real groups; two combs of 6 and 12 bits | `EachItsOwn`, `FailsOnNonUnit` of inv2 and inv7; `DigitsSparse`, `PowerIsExact` of pow and pow2; `CostsFitArray`, `CheapestThatFits` of the shapes; `ProductIsExact` of powgh |
| `widths` | contexts, groups and keys at and around every limit | `WideEnough`: a key the context is for never fails for want of a comb; `ArraysHold`, `EqFits` |
| `sig` | bytes of three values; fields of every kind of value, any two of one width different in some signature, too wide ones too; Eq negative, zero, widest | `RoundTrip`, `OneEncodingUnlessZero` |
| `sig_minimal` | the same | `OneEncoding`, which is violated: see below |
| `numbers` | moduli to 105 and some larger, in pairs; candidates to 500, squares, pseudoprimes; five small RSA keys | `RootExactly`, `EndsForPrimes`; `NoPrimeRefused`, `NoCompositeAccepted`; `RoundTrip`, `DecodesAsSpecified`, `VeilIsExact` |
| `hash` | blocks of 4 bytes, pieces inside, at and beyond a block; digests of 2 bytes; two generators, two seeds, three seedings | `ImplementsHash`: the refinement; `MacIsHmac`; `SameSeedSameStream`, `NoByteTwice` |
| `context` | one API object, renewed at will; three addresses of contexts, one of buffers | `NothingLost`, `ScratchWiped`, `VerifierHoldsNoSecret` |

Together the runs take every action of the modules, the refusals and the
failures included. Deadlock is checked in `prng`, `next_prime`, the three
`protocol` runs and `context`. It is not in the others: each behaviour there is
one call, or one signature on its way, that ends, or a bounded number of calls.
Symmetry is used where the members of a set are interchangeable: the provers of
`protocol_calls`, generators and seeds of `hash`, addresses of `context`. No
run with a liveness property uses it, and `ImplementsHash` is a safety property.

`sig_minimal` shows where code and comment differ. The comment at 1300 calls
what the test of the sign byte refuses "Non-minimal serialization", but
import takes a signature with Eq = 0 and sign byte 1, negates the zero, and
export then writes sign byte 0. Every other signature has one encoding, which is
`OneEncodingUnlessZero`.

Why the bounds are enough. `prng`: requests smaller than, equal to and larger
than a word, with room for a reservoir to be used up and refilled, and a seeding
at each point; 256-bit words and 128-bit requests give no other case.
`next_prime`: the code depends on parity, on the gap to the next accepted
number, and on where the limit falls in the gap. The protocol runs keep the
order of the real widths (challenge < ell < scalars < modulus < big comb) at a
few bits each. `Ells` has an ell' whose next prime is 137 bits wide in the
scale of the model (15 to 17 with a limit of 16), which sends sign round its
loop. Of the seven scalars at most one differs from the least, since each is
used in one relation. `MaxSigns`, `MaxTries` and `MaxDrawn` bound the runs and
nothing else. One choice is a bound too: the next r_s1 of the loop is never the
one before it. `group`: the recoding depends on the exponent only through its
low window and what is left, so all exponents of twice the window meet every
digit beside every other, the carry out of the top included; the two combs have
shifts, additions and points above one in some combination each. `numbers`:
every residue mod 8 of both moduli, and up to six squarings; the list of test
primes is cut to three so that the later tests have work. `hash`: the padding
falls into the last block, fills it, or goes into one more; with `MaxMessage`,
`MaxRekeys`, `MaxCalls` and `MaxInits` as bounds. `sig`: the code does
not look at values except for width and the sign byte. `widths`: no bound; the
sets hold the limits and their neighbours, and the theorems the rest.

Fairness. `GooNextPrime` has WF on the turns of its loop and `GooSqrt` on its
steps: both are loops of one sequential call, which keeps running. `EndsForPrimes`
is claimed for prime moduli only. All other properties are about safety. That
sign's loop for ell, and veil's, end is not claimed: they have no bound in the
code and end with overwhelming probability only. (`VeilIsExact` shows that the
loop of veil in fact turns once.)

## What is proved

For every value of the constants that satisfies the named assumptions:

- `GooContextProofs`, of the PRNG in every group: `PrngTypes`, `EveryBitOnce`,
  `NoBitLost`, `HeldInOrder`, `ReservoirIsTail`, `Refinement`.
  The inductive invariant is the conjunction of the properties the run checks,
  of `TypeOK` and `ReservoirWidth`,
  and one more, `NotAhead`: while random_bits fills, it is never a whole word
  ahead of the request. Without it nothing bounds the reservoir. random_num
  skips the reservoir, so what is held need not be one interval of the stream:
  the invariant speaks of the set of held positions and of their order.
  Of the contexts: `NothingLostAlways`, `ScratchWipedAlways`,
  `VerifierHoldsNoSecretAlways`, for any number of addresses of contexts and
  buffers.
- `GooNumberProofs`: `SearchIsExact`, `UnlimitedIsExact`. The invariant of
  the loop: the candidate is odd, at distance inc from p, and every odd number
  between p and the candidate was refused. `DecodesAsSpecifiedAlways`, for any
  key and any number given to decrypt; `VeilIsExactAlways`, for any hash that
  gives digests; `MessageComesBack`, that decryption undoes encryption, for any
  such hash and any keys of two different primes; `PrimesPass`, that goo_is_prime
  refuses no prime, for any width, bases and limits; `CostsFitArrayAlways` and
  `CheapestThatFitsAlways`, for every width, every limit and any number of
  points per addition.
- `GooSqrtProofs`, on top of `GooNumberProofs`: `RootsAreExact`, that sqrtm
  returns roots and that sqrtpq finds one modulo the product of distinct odd
  primes exactly when there is one, for any moduli and numbers; `JacobiDecides`,
  that the walk of `mpz_jacobi` returns the symbol of the reference for every odd
  modulus, and the Legendre symbol for an odd prime.
- `GooProtocolProofs`: `ProtocolTypes`; `Completeness`, that what sign returns
  verifies; and `SearchIsExhaustive`. It begins with lemmas on floor division
  (quotients of a difference, their bounds) and on the operators of `GooElement`.
  On top of that invariant: `ProofHasOneForm` and `ChallengeIsOne`. The invariant `FormInv` says what the last verify or validate
  was given when it accepted, that the numbers of every signature of sign are
  reduced, and that every commitment to a modulus, of challenge or of sign, was
  made with the s that the stream of its s_prime begins with. Then
  `SigningIsDeterministic` and `SignAsserts`, see below.
- `GooGroupProofs`: `OutputsAreInverses`, `FailureIsNonUnit`, in any
  commutative monoid. The inductive invariant says, for each value of `pc`,
  which product of inputs and inverses each register holds at that line, and
  that a product has an inverse only if each factor has. Then
  `PowerIsExactAlways`, `DigitsSparseAlways`, for every window size, exponent
  and stale table.
- `GooSigProofs`: `RoundTripAlways`, `OneEncodingAlways`, for every base, all
  widths and all signatures. The invariant is about the fields export has written;
  what import reads of them rests on `ListsAgree`, that the two lists are one.
- `GooHashProofs`: `ContextImplementsHash`, the refinement of `HashSpec`, and
  `MacIsHmacAlways`, for blocks and pieces of any size; `NoByteTwiceAlways`,
  `SameSeedSameStreamAlways`, for any number of generators, seeds and lengths.
- `GooCombProofs`: `ProductIsExactAlways`, for any shapes of combs, any exponents
  and whatever windows earlier calls left. `AlwaysWideEnough`, `ArraysAlwaysHold`,
  `EqAlwaysFits`, for all sizes of context, group and key: their invariant gives
  the widths of the combs that group_init made, and that every call already passed was wide
  enough.

Completeness needs an invariant about sign's locals. `HonestSignatureVerifies`
says nothing of a signature under construction, so the inductive invariant
follows `pc`: the key is valid, w and a satisfy w^2 = t + a * n, the commitments
open to them, the masks to the r_*, the streams are told to give chal and ell'
for the transcript of the last turn, and every signature in `sigs` is *honest*:
its elements are reduced, its ranges are those verify checks, and what the
verifier recovers from it is the transcript that was hashed. That is kept by
every step because the tape only grows. The arithmetic is in lemmas of its own:
`QuotientsOpen` (a quotient commitment to the power ell, with the remainders,
opens to z), `EOpens` (the floor of a possibly negative quotient), and
`QuotientBound` (Eq is as narrow as verify asks, by `WidthAssumption`).

That signing is deterministic is a fact about two calls of sign that may have
run on different contexts, with anything in between, so it is proved by way of a
function: `Made` says, of a tape of streams and of the arguments of sign, that a
signature is what sign makes of them: n turns of the search, s1 and s2 after
them, seven scalars, then one scalar for each turn of the loop for ell, of which
all but the last ended with an ell too short. `OneSignature` proves that there
is one such signature: two searches read the same indices as long as both go on,
so they end at the same turn (`OneSearch`); there is one next prime; and the
first turn with a full ell is the same. The invariant `DrawInv` follows the place
of sign in its own stream, and the tape only grows, so that what was read stays
read (`MadeStays`). s comes from another stream, whose seed differs in its iv.

The assertions of sign need what the prover cannot know: that the numbers
goo_mpz_sqrtpq returns are roots below n. `RootAssumption` says so for valid
keys, `RootsAreExact` proves it of sqrtpq for prime factors, and sign tests only
parity and size, so a key whose factors are not prime is outside of
`SignAsserts`, though not of the other theorems. From it follow w > 0 and
0 <= a < n, and, with the widths (`ExponentAssumption`), that the exponents of
the quotient commitments are in the range of goo_group_pow, whose return value
sign does not look at.

The wNAF proof joins two loops that run in opposite orders. Recoding goes from
the lowest digit to the highest and leaves, before each position q, a remainder;
evaluation goes from the highest down. `PowInv` says that remainders exist, one
for each position, each twice the next one up plus the digit between them, with
the exponent at the bottom and zero at the top; then the product evaluated so far
*is* the remainder at the position reached. That the top one is zero needs the
carry: before position pos, e is at most 2^pos, not below it, which is why the
code takes one digit more than the exponent has bits. Sparsity needs that after a
digit that is not zero the remainder has room: it is divisible by 2^(w-1), and
each position takes one factor. The tables are odd powers up to the slot the loop
has reached, with the square still in the last slot. Facts about every n up to a
bound go by `UpTo`, which takes the least counterexample as a set and needs no
operator parameter.

The product of a comb is a double sum over the bits of an exponent. Cut the
exponent into parts of `shifts` bits. A window holds one bit of each part that
belongs to its addition, and an item of the table is the sum of the powers of the
bits of its index (`SpreadIs`, `TableIs`: by the top bit in the first sub-comb,
from one sub-comb to the next after that). So a shift adds one bit of every part,
each at its part's place (`ColumnIs`, `ShiftIs`; `TotalColumns` adds up a
table of numbers by its columns), and by induction the product after t shifts
holds the top t bits of every part (`GatherTurn`), which after all shifts is the
exponent (`GatherAll`). Around that stands the invariant `CombInv`: during the
recoding the columns already written are those of this call's exponent, of g
before h, so nothing an earlier call left is read. An exponent has no more bits
than a comb exactly if it is below that power of two (`HoldsIs`), which makes the
refusals those of the property. The prover knows nothing of powers:
`DoublingAssumption` gives it their recursion, up to the bits of the combs and
exponents, and that a bit length exists.

For signatures in bytes the invariant says, per `pc`, which fields the bytes so
far hold, or which fields of the signature are the values of the bytes. What a
field holds rests on two facts about numbers and digits, `ValueOfDigits` and
`DigitsOfValue`: a number that fits is read as its magnitude, and what was read
is written as it was read. Both go along the prefixes of the bytes, whose values
exist as a function by `PrefixesExist`. The magnitude says nothing of the sign of
zero, hence the exception. `FieldsAssumption` says that only Eq can be negative,
as in what sign returns; `PowersAssumption` states the recursion of powers, of
which the prover knows nothing, for the exponents needed.

The scan of unveil goes over every byte, so its invariant says for each flag
what the bytes read so far contain: `looking`, that none of them was 0x01;
`index`, that the first 0x01 stands there; `invalid`, that a byte other than
zero came before it. At the end `FlagsDecide` compares the flags with the
quantifiers of the property. For the veil the invariant is that c is a residue:
encrypt's power is taken modulo n (`PowModIs`), and rounding up gives a range
whose every draw is below 2^bits (`RmaxIs`), so no second draw is made. That the
numbers hashed are digests is the hypothesis `HashesBytes` of the theorem.

That decryption undoes encryption needs the theorem of RSA, which no library here
has, so `GooNumberProofs` proves the number theory from the integers up. A least
element and division give `Bezout`, and with it that a prime divides a factor of
a product (`PrimeDivides`) and that what is coprime to a modulus has an inverse
(`InverseExists`). Products are functions on 0..n; that their order does not
matter (`ProductPermuted`) goes by exchanging two factors, and since the multiples
of a are a permutation of the residues (`ScaledPermutes`), a^(p - 1) is 1
(`Fermat`). `RsaReturns` puts both primes together, for a number that shares
a factor with the modulus too, and `RsaBlinded` adds the blinding factor. Around
that stand the conversions: the bytes of a number are those it was read from
(`PaddedReturns`), and a mask put on twice is off (`MaskReturns`, from
`XorReturns`, since bytes are their bits, `BitsDecide`). The invariant `RoundInv`
names the message, label and seed that were encrypted; the number on its way is
of the class of the power of their block, below the veil's bound once veiled, and
when the scan begins `em` is the block without its masks, in which `OpenedIs`
finds the message where the scan looks for it. decrypt refuses such a number only
if the exponent has no inverse. That the two primes differ and are primes is the
hypothesis `KeysArePrimes`, which the run evaluates for its keys.

That no prime is refused needs two theorems more. The first is what the Jacobi
symbol of the code says: `mpz_jacobi` walks down as Euclid's algorithm does, with a
change of sign by the residues modulo 4 and 8. The symbol it is compared with is
that of Gauss's lemma, the product of the signs that a, 2a, ..., ha have once they
are folded into 1..h for a modulus 2h + 1 (`Gauss`), which is multiplicative
(`GaussTimes`) and, at a prime, the power a^h (`GaussPower`), by the same
permutation argument as Fermat's theorem. `Reciprocity` counts the points of a
rectangle by rows and by columns, `JacobiStep` is one turn of the walk and
`JacobiIs` the whole of it. The second is the binomial theorem at a prime n, whose inner
coefficients are multiples of n (`PascalPrime`): with P^2 - 4 a non-square, the
n-th power of P + sqrt(P^2 - 4) is its conjugate (`AtPrime`), so V(n + 1) is 2
(`LucasRank`). The invariant `PrimeInv` then says where a prime stands in each loop: in
Miller-Rabin the power is neither 1 nor -1 and one of its next squares is 1, so
it must meet -1 (`MrTurns`); in the chain the two neighbours are V at the bits of s read
so far; after it v is neither 2 nor -2, so neither are its successors, and before
the last doubling v has to be 0 (`TailTurns`, `TailEnds`); among the parameters, none
before the present one would have done. Exit by a common factor is right because
a prime n divides (p - 2)(p + 2) for p up to n - 2 only if n = p + 2.
`IsPrimeAssumption` states the recursion of powers of two, for the `Width` of the numbers
tested.

Square roots need to know which numbers have one. Pair the residues of an odd
prime p that multiply to a: without a square root of a every residue has a
partner that is another one, so the product of all is a^((p - 1) / 2); for a = 1
only 1 and p - 1 are left over, and the product is -1 (`Wilson`). Hence
`EulerCriterion`. The symbol of the walk is multiplicative in the modulus too
(`SymbolTimes`), so it is the product of the Legendre symbols over the prime
factors, which the reference takes in the order of the least divisor
(`ReferenceIs`); with `JacobiIs` that is `JacobiDecides`. The two closed forms are computed (`Quarter`; `Eighth`, where i
is a root of -1 since 2 is no square). For the loop the invariant `RootInv` keeps
two things apart. For every modulus y^2 = x * b, so what is returned is a root
whether or not the modulus is prime. For a prime g^(2^(k - 1)) is -1 and
b^(2^(k - 1)) is 1; then m, the squarings that take b to 1, is below k, and a
turn leaves both facts with m for k (`OrderTurns`): `m >= k` never fails for a
prime. `CombineRoots` puts the roots together with the coefficients of mpz_gcdext.
`SqrtAssumption` says that `MaxSquarings` bits hold the moduli, so that the bound
on m cuts nothing off for primes, and states the recursion of powers of two.

goo_combspec_init tries additions only up to one above the root of the window,
in both orientations. The proof begins with Newton's iteration: by the
inequality of the means a turn never falls below x's root by one (`NewtonStays`),
it descends until it stops (`NewtonEnds`), so goo_isqrt is not too small
(`IsqrtIs`) and one of the factors of any factorisation is met (`OneIsSmall`).
The invariant of the filling: an entry of the array is a shape of that cost, and
every shape met has an entry of its cost that is no larger. Of the selection:
every entry passed over has too large a table, and so has whatever `sm` is the
size of. The bound
on the array comes from the loops of combspec_size (`CostBelow`): the largest
cost is met in one orientation or the other. `PowersAssumption` and
`LengthAssumption` state facts of powers that the prover has no rules for (the
first guess is above the root, a length exists, a power is one factor more than
the one before it); TLC evaluates both.

A context of the hash *holds* a message (`Holds`) when its chunks are the whole
blocks of the message and its block begins with the rest. `UpdateHolds` shows
that goo_sha256_update keeps this whatever the message and the data, with or
without a block to fill up, by quotient and remainder of the block size;
`PaddingIs` that the zeros of goo_sha256_final are the fewest that make whole
blocks. Each step of a context is then a step of `HashSpec` with the message
held for `msg`, and HMAC is two contexts that hold the padded key and what
follows it. Bytes are of any kind: sequences here are lists, functions on 1..n,
since the bytes of a digest are made of digests.

What a generator gives is an answer of the oracle, and a question is made of
earlier answers, so K and V are numbers below that of the next answer
(`Older`). While output is made V is the youngest answer a generator holds, and
after the update K is, so a new block repeats none. For two seeds the invariant
supplies an origin for each answer: the seed that was mixed into the key of
zeros from which its key descends; a generator holds and gives only what
originates in its own seed. That the same seed gives the same stream is a fact
about two histories at different times. `Trailed` says of every generator that a
*trail* leads from the start on its seed to its state, by moves that depend only
on the questions put so far and on the lengths asked for. Questions are only
added, so trails stay; two trails for the same lengths agree step by step
(`SameWay`), and an idle generator goes on only with one more request, so neither
is longer than the other (`SameEnd`).

The context proof says, for each `pc`, to whom each block of the heap belongs:
the contexts that a handle names, the context that create is building (with the
combs made so far and a `combs_len` that is trusted only once it is set), the
output of a sign that is about to be exported, the buffers of JavaScript. Freeing
is safe because those sets are disjoint and what a call frees is its own. Of the
secrets it says which areas a stage of the call can have written, that an API
object's two slots are different live contexts, that no call on the verifier's
context writes a secret, and that between a call's start and its clean-up nothing
else touches its context: a finalizer frees only what no API object and no call
holds.

Only model-checked: `SearchEnds` and `EndsForPrimes` (liveness is out of the
prover's reach), and `NoCompositeAccepted`, which is no theorem: that no composite passes both
tests is known of the numbers the run tries, not of all.

## What is not modelled

- mini-gmp (vendored), which stands in for GMP; integers are TLA+'s.
- The JavaScript backend: a second implementation of the same algorithms.
- The rounds of SHA-256, which are data here, and PRNG quality.
- goo_generate, which is the SHA-256 of a prefix and 32 bytes of entropy and
  keeps nothing, and the RSA key checks of the JavaScript side.
- What freed memory still holds: `GooContext` forgets a context that was
  destroyed, though goo_destroy wipes nothing and malloc may hand the memory out
  again. `VerifierHoldsNoSecret` is therefore about what is written.
- In `GooOaep`: the lengths of ciphertexts as byte strings. goo_unveil refuses one
  of fewer bytes than the modulus has; the model passes numbers.
- Failures of N-API calls themselves, and the type checks of
  `lib/native/goo.js` beyond one refusal before the C function runs.
- The functions named `_slow`, tests, benchmarks and scripts.
- In `GooProtocol`: elements that share a factor with the group's modulus
  (`GooInverse` has them), hash collisions, and the combs' products (`GooComb`).
- Termination of the loops for ell and of the search without a limit, beyond
  what "Fairness" says.

## Plan

Done: everything the table of modules lists. Next, in this order:

1. `GooBackends`: the points where the JavaScript code decides differently from
   C (limits of the search, checks of keys).
