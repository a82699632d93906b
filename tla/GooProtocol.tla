----------------------------- MODULE GooProtocol -----------------------------
(***************************************************************************)
(* The signature scheme of src/src/goo/goo.c: goo_group_challenge,         *)
(* goo_group_validate, goo_group_sign and goo_group_verify, called in any  *)
(* order on any of several contexts.  A context keeps a PRNG that every    *)
(* operation reseeds, and the combs that bound the exponents of g and h it *)
(* can compute with.  Signing is split at the points where it draws random *)
(* values; the other operations are one step each.                         *)
(*                                                                         *)
(* Widths are exclusive bounds: EllLim is 2^ELL_BITS, and so on.  Hash     *)
(* digests are the values hashed; the stream of random values of a seed is *)
(* sampled when it is first read and is the same for every later reader.   *)
(*                                                                         *)
(* The definitions named Bug... are defects: each stands just before the   *)
(* definition it would replace, and no specification uses it.              *)
(***************************************************************************)
EXTENDS Integers, Sequences, GooElement, NextPrimeSpec

CONSTANTS
  Ctxs,         \* contexts made by goo_create
  Combs,        \* [Ctxs -> sets of the exponent bounds of the context's combs]
  Keys,         \* RSA private keys: records [p, q]
  SqrtPQ,       \* [Keys -> [prime -> its root mod p * q, or -1]]: goo_mpz_sqrtpq
  SPrimes,      \* values of s_prime
  Msgs,         \* messages
  SmallPrimes,  \* goo_primes, a sequence
  Accepts(_),   \* what goo_is_prime accepts under a key
  ModMin,       \* 2^(MIN_RSA_BITS - 1), the least modulus
  ModLim,       \* 2^MAX_RSA_BITS
  ExpLim,       \* 2^EXP_BITS
  ChalLim,      \* 2^CHAL_BITS
  EllLim,       \* 2^ELL_BITS
  EllDiffMax,   \* ELLDIFF_MAX
  Scalars,      \* sample of 0 .. 2^min(rand_bits, EXP_BITS) - 1
  Masks,        \* sample of the seven scalars drawn before the loop for ell
  Expands,      \* sample of 0 .. ExpLim - 1, for s
  Chals,        \* sample of 0 .. ChalLim - 1
  Ells,         \* sample of 0 .. EllLim - 1
  MaxSigns,     \* bound on the calls of sign
  MaxTries      \* bound on the turns of sign's loop for ell

SmallPrimeSet == {SmallPrimes[x] : x \in DOMAIN SmallPrimes}

Modulus(k) == k.p * k.q

ASSUME ProtocolAssumption ==
  /\ Combs \in [Ctxs -> SUBSET Nat]
  /\ Keys \subseteq [p : Nat, q : Nat]
  /\ SmallPrimes \in Seq(Nat \ {0}) /\ SmallPrimes # <<>>
  /\ SqrtPQ \in [Keys -> [SmallPrimeSet -> Nat \cup {-1}]]
  /\ ModMin \in Nat /\ ModLim \in Nat /\ ExpLim \in Nat
  /\ ChalLim \in Nat /\ EllLim \in Nat /\ EllDiffMax \in Nat
  /\ Scalars \subseteq 0..(ExpLim - 1) /\ Masks \subseteq [1..7 -> Scalars]
  /\ Expands \subseteq 0..(ExpLim - 1)
  /\ Chals \subseteq 0..(ChalLim - 1)
  /\ Ells \subseteq 0..(EllLim - 1)
  /\ MaxSigns \in Nat /\ MaxTries \in Nat

(* What the constants of internal.h and goo_group_init's choice of combs   *)
(* guarantee: every context has a comb of ELL_BITS bits, a challenge is no *)
(* wider than an ell, and chal * t is far below ell * 2^EXP_BITS.          *)
ASSUME WidthAssumption ==
  /\ \A c \in Ctxs : \E cap \in Combs[c] : EllLim <= cap
  /\ EllLim >= 2 /\ ChalLim <= EllLim
  /\ \A t \in SmallPrimeSet : ChalLim * t + ExpLim <= ExpLim * (EllLim \div 2)

VARIABLES
  prng,     \* [Ctxs -> state of group->prng]
  tape,     \* the random streams, where they have been read
  issued,   \* history: challenges C1 issued, with what they were made of
  pc,       \* where goo_group_sign is; "idle" outside
  job,      \* its arguments: context, key, s_prime and message
  rng,      \* its own PRNG
  primes,   \* its shuffled copy of goo_primes
  i,        \* the index of its search
  wit,      \* t, w and a
  blind,    \* s, s1 and s2
  com,      \* the commitments C1, C2, C3
  rnd,      \* the r_*
  mask,     \* B, C, D and E
  tries,    \* turns of the loop for ell so far
  try,      \* r_s1, A, chal and ell of the last turn
  sigs,     \* history: signatures returned, with what they were made of
  signs,    \* calls of sign so far
  verdict   \* the last call and its result, once it has returned

signVars == <<job, rng, primes, i, wit, blind, com, rnd, mask, tries, try>>
vars == <<prng, tape, issued, pc, signVars, sigs, signs, verdict>>

------------------------------------------------------------------------------
(* Random streams.                                                         *)

BugSignSeed(k, sp, m) == [iv |-> "SIGN", of |-> <<k, sp, m, signs>>]
SignSeed(k, sp, m) == [iv |-> "SIGN", of |-> <<k, sp, m>>]
ExpandSeed(sp) == [iv |-> "EXPAND", of |-> <<sp>>]
DeriveSeed(tr) == [iv |-> "DERIVE", of |-> tr]

(* goo_prng_seed: the stream of `sd` from its start, whatever pr was.      *)
BugSeedPrng(pr, sd) == [pr EXCEPT !.seed = sd]
SeedPrng(pr, sd) == [seed |-> sd, pos |-> 0]

(* The next values of the stream may be `vals`: where the stream has been  *)
(* read before, by anyone, it is what it was.                              *)
Reads(pr, vals) ==
  \A x \in DOMAIN vals :
    <<pr.seed, pr.pos + x>> \in DOMAIN tape =>
      tape[<<pr.seed, pr.pos + x>>] = vals[x]

Recorded(tp, pr, vals) ==
  [x \in DOMAIN tp \cup {<<pr.seed, pr.pos + y>> : y \in DOMAIN vals} |->
     IF x \in DOMAIN tp THEN tp[x] ELSE vals[x[2] - pr.pos]]

Past(pr, vals) == [pr EXCEPT !.pos = @ + Len(vals)]

------------------------------------------------------------------------------
(* The context and the values.                                             *)

(* goo_group_powgh finds a comb wide enough for both exponents.            *)
Fits(c, e1, e2) == \E cap \in Combs[c] : e1 < cap /\ e2 < cap

(* goo_is_valid_prime, goo_is_valid_modulus.                               *)
ValidPrime(p) == p % 2 = 1 /\ p >= 3 /\ p < ModLim
ValidModulus(n) == n >= ModMin /\ n < ModLim /\ n % 2 = 1

ValidKey(k) == ValidPrime(k.p) /\ ValidPrime(k.q) /\ ValidModulus(Modulus(k))

(* What goo_mpz_sqrtpq returns when p and q are primes above the list of   *)
(* small primes, which sign takes for granted (see GooSqrt): the root of t *)
(* below n, or, when p = q and the coefficients of gcdext are 0 and 1, the *)
(* root modulo p times p.                                                  *)
ASSUME RootAssumption ==
  \A k \in Keys : ValidKey(k) => \A t \in SmallPrimeSet :
    LET w == SqrtPQ[k][t] IN
      w # -1 => /\ t < Modulus(k) /\ w < Modulus(k)
                /\ IF k.p # k.q THEN (w * w) % Modulus(k) = t ELSE w >= k.p

(* EXP_BITS is below MAX_RSA_BITS, and a challenge 8 bits below an ell.    *)
ASSUME ExponentAssumption ==
  ExpLim <= ModLim /\ ChalLim * ModLim + ExpLim <= ModLim * (EllLim \div 2)

(* goo_mpz_bitlen(x) <= EXP_BITS.                                          *)
IsExp(x) == -ExpLim < x /\ x < ExpLim

BugCommit(x, y) == PowGH(x, y)
Commit(x, y) == Reduce(PowGH(x, y))

(* What goo_group_hash hashes after the group's own prefix.                *)
Transcript(C1, C2, C3, t, A, B, C, D, E, m) ==
  <<C1, C2, C3, t, A, B, C, D, E, m>>

(* goo_group_recover: b1^e1 * g^e3 * h^e4 / b2^e2.                         *)
Recover(b1, e1, b2, e2, e3, e4) ==
  Reduce(Mul(Mul(Pow(b1, e1), Pow(Inv(b2), e2)), PowGH(e3, e4)))

(* goo_group_pow2 takes exponents of at most ELL_BITS bits, and powgh what *)
(* a comb holds.                                                           *)
Recoverable(c, e1, e2, e3, e4) == e1 < EllLim /\ e2 < EllLim /\ Fits(c, e3, e4)

------------------------------------------------------------------------------
Called == [op |-> "none", ok |-> FALSE, of |-> <<>>]

Unseeded == [seed |-> [iv |-> "NONE", of |-> <<>>], pos |-> 0]

Init ==
  /\ prng = [c \in Ctxs |-> Unseeded]
  /\ tape = [x \in {} |-> 0]
  /\ issued = {}
  /\ pc = "idle"
  /\ job = <<>> /\ rng = Unseeded /\ primes = SmallPrimes /\ i = 1
  /\ wit = <<>> /\ blind = <<>> /\ com = <<>> /\ rnd = <<>> /\ mask = <<>>
  /\ tries = 0 /\ try = <<>>
  /\ sigs = {}
  /\ signs = 0
  /\ verdict = Called

Returns(op, ok, of) == verdict' = [op |-> op, ok |-> ok, of |-> of]

(* goo_group_expand_sprime: the context's PRNG yields s.                   *)
ExpandSPrime(c, sp, s) ==
  LET pr == SeedPrng(prng[c], ExpandSeed(sp)) IN
    /\ s \in Expands
    /\ Reads(pr, <<s>>)
    /\ tape' = Recorded(tape, pr, <<s>>)
    /\ prng' = [prng EXCEPT ![c] = Past(pr, <<s>>)]

(* goo_group_derive: hash the transcript, and chal and ell' of its key.    *)
Derive(c, tr, chal, ell0) ==
  LET pr == SeedPrng(prng[c], DeriveSeed(tr)) IN
    /\ chal \in Chals /\ ell0 \in Ells
    /\ Reads(pr, <<chal, ell0>>)
    /\ tape' = Recorded(tape, pr, <<chal, ell0>>)
    /\ prng' = [prng EXCEPT ![c] = Past(pr, <<chal, ell0>>)]

(* goo_group_challenge on the modulus of k.                                *)
Challenge(c, k, sp) ==
  /\ pc = "idle"
  /\ ValidModulus(Modulus(k))
  /\ \E s \in Expands :
       /\ ExpandSPrime(c, sp, s)
       /\ LET n == Modulus(k)
              ok == Fits(c, n, s) IN
            /\ issued' = IF ok THEN issued \cup {[n |-> n, sp |-> sp, C1 |-> Commit(n, s)]}
                         ELSE issued
            /\ Returns("challenge", ok, <<c, n, sp>>)
  /\ UNCHANGED <<pc, signVars, sigs, signs>>

(* goo_group_validate: C1 opens to the modulus of k, with s from s_prime.  *)
Validate(c, sp, C1, k) ==
  /\ pc = "idle"
  /\ C1.canon
  /\ ValidKey(k)
  /\ \E s \in Expands :
       /\ ExpandSPrime(c, sp, s)
       /\ Returns("validate",
                  Fits(c, Modulus(k), s) /\ Commit(Modulus(k), s) = C1,
                  <<c, sp, C1, k>>)
  /\ UNCHANGED <<issued, pc, signVars, sigs, signs>>

(* The early returns: a key that is out of range, a C1 not canonical.      *)
Refuse(op, of) ==
  /\ pc = "idle"
  /\ Returns(op, FALSE, of)
  /\ UNCHANGED <<prng, tape, issued, pc, signVars, sigs, signs>>

ChallengeRefuse(c, k, sp) == ~ValidModulus(Modulus(k)) /\ Refuse("challenge", <<c, k, sp>>)
ValidateRefuse(c, sp, C1, k) == ~(C1.canon /\ ValidKey(k)) /\ Refuse("validate", <<c, sp, C1, k>>)
SignRefuse(c, k) == ~ValidKey(k) /\ Refuse("sign", <<c, k>>)

------------------------------------------------------------------------------
(* goo_group_sign.                                                         *)

(* A return from sign: its locals are gone.                                *)
SignReturns(ok) ==
  /\ pc' = "idle"
  /\ job' = <<>> /\ rng' = Unseeded /\ primes' = SmallPrimes /\ i' = 1
  /\ wit' = <<>> /\ blind' = <<>> /\ com' = <<>> /\ rnd' = <<>> /\ mask' = <<>>
  /\ tries' = 0 /\ try' = <<>>
  /\ Returns("sign", ok, <<job>>)

SignBegin(c, k, sp, m) ==
  /\ pc = "idle"
  /\ signs < MaxSigns
  /\ ValidKey(k)
  /\ pc' = "search"
  /\ signs' = signs + 1
  /\ job' = [c |-> c, k |-> k, sp |-> sp, m |-> m]
  /\ rng' = SeedPrng(rng, SignSeed(k, sp, m))
  /\ primes' = SmallPrimes
  /\ i' = 1
  /\ verdict' = Called
  /\ UNCHANGED <<prng, tape, issued, wit, blind, com, rnd, mask, tries, try, sigs>>

(* One turn of the search for t: a Fisher-Yates step, by goo_prng_random_num *)
(* and goo_swap, then the square root of the prime it brings to the front. *)
Shuffle(j) ==
  /\ pc = "search"
  /\ j \in 0..(Len(primes) - i)
  /\ Reads(rng, <<j>>)
  /\ tape' = Recorded(tape, rng, <<j>>)

BugSwapped(j) == [primes EXCEPT ![i] = primes[i + j], ![j + 1] = primes[i]]
Swapped(j) == [primes EXCEPT ![i] = primes[i + j], ![i + j] = primes[i]]

RootOf(t) == SqrtPQ[job.k][t]

BugAtEnd == i > Len(primes)
AtEnd == i = Len(primes)

SearchHit(j) ==
  /\ Shuffle(j)
  /\ RootOf(primes[i + j]) # -1
  /\ LET t == primes[i + j]
         w == RootOf(t) IN
       wit' = [t |-> t, w |-> w, a |-> (w * w - t) \div Modulus(job.k)]
  /\ primes' = Swapped(j)
  /\ rng' = Past(rng, <<j>>)
  /\ pc' = "blind"
  /\ UNCHANGED <<prng, issued, job, i, blind, com, rnd, mask, tries, try, sigs,
                 signs, verdict>>

SearchMiss(j) ==
  /\ Shuffle(j)
  /\ RootOf(primes[i + j]) = -1
  /\ ~AtEnd
  /\ primes' = Swapped(j)
  /\ rng' = Past(rng, <<j>>)
  /\ i' = i + 1
  /\ UNCHANGED <<prng, issued, pc, job, wit, blind, com, rnd, mask, tries, try,
                 sigs, signs, verdict>>

(* No prime of the list has a root mod n.                                  *)
SearchFails(j) ==
  /\ Shuffle(j)
  /\ RootOf(primes[i + j]) = -1
  /\ AtEnd
  /\ SignReturns(FALSE)
  /\ UNCHANGED <<prng, issued, sigs, signs>>

(* w^2 = t + a * n.                                                        *)
Divides == wit.a * Modulus(job.k) = wit.w * wit.w - wit.t

NotDivisible ==
  /\ pc = "blind"
  /\ ~Divides
  /\ SignReturns(FALSE)
  /\ UNCHANGED <<prng, tape, issued, sigs, signs>>

(* s comes from s_prime through the context's PRNG, s1 and s2 from rng.    *)
DrawBlinding ==
  /\ pc = "blind"
  /\ Divides
  /\ \E s \in Expands, s1, s2 \in Scalars :
       LET pr == SeedPrng(prng[job.c], ExpandSeed(job.sp)) IN
         /\ Reads(pr, <<s>>)
         /\ Reads(rng, <<s1, s2>>)
         /\ tape' = Recorded(Recorded(tape, pr, <<s>>), rng, <<s1, s2>>)
         /\ prng' = [prng EXCEPT ![job.c] = Past(pr, <<s>>)]
         /\ rng' = Past(rng, <<s1, s2>>)
         /\ blind' = [s |-> s, s1 |-> s1, s2 |-> s2]
  /\ pc' = "commit"
  /\ UNCHANGED <<issued, job, primes, i, wit, com, rnd, mask, tries, try, sigs,
                 signs, verdict>>

(* C1, C2 and C3; and the seven draws that precede the loop, in order.     *)
MakeCommitments ==
  /\ pc = "commit"
  /\ Fits(job.c, Modulus(job.k), blind.s)
  /\ Fits(job.c, wit.w, blind.s1)
  /\ Fits(job.c, wit.a, blind.s2)
  /\ com' = [C1 |-> Commit(Modulus(job.k), blind.s),
             C2 |-> Commit(wit.w, blind.s1),
             C3 |-> Commit(wit.a, blind.s2)]
  /\ \E r \in Masks :
       /\ Reads(rng, r)
       /\ tape' = Recorded(tape, rng, r)
       /\ rng' = Past(rng, r)
       /\ rnd' = [r_w |-> r[1], r_w2 |-> r[2], r_a |-> r[3], r_an |-> r[4],
                  r_s1w |-> r[5], r_sa |-> r[6], r_s2 |-> r[7]]
  /\ pc' = "mask"
  /\ UNCHANGED <<prng, issued, job, primes, i, wit, blind, mask, tries, try, sigs,
                 signs, verdict>>

(* b^e1 in the denominator: g^x * h^y / b^e, as sign computes it from the  *)
(* inverse of b.                                                           *)
Over(x, y, b, e) == Reduce(Mul(Pow(Inv(b), e), PowGH(x, y)))

MakeMasks ==
  /\ pc = "mask"
  /\ Fits(job.c, rnd.r_a, rnd.r_s2)
  /\ Fits(job.c, rnd.r_w2, rnd.r_s1w)
  /\ Fits(job.c, rnd.r_an, rnd.r_sa)
  /\ mask' = [B |-> Commit(rnd.r_a, rnd.r_s2),
              C |-> Over(rnd.r_w2, rnd.r_s1w, com.C2, rnd.r_w),
              D |-> Over(rnd.r_an, rnd.r_sa, com.C1, rnd.r_a),
              E |-> rnd.r_w2 - rnd.r_an]
  /\ pc' = "loop"
  /\ UNCHANGED <<prng, tape, issued, job, rng, primes, i, wit, blind, com, rnd,
                 tries, try, sigs, signs, verdict>>

(* The loop for ell: a new r_s1 gives a new A, which gives a new challenge *)
(* and a new start for the search, until the prime has ELL_BITS bits.      *)
(* That a draw of rand_bits bits repeats the one before it is left out.    *)
DrawTry ==
  /\ pc = "loop"
  /\ \E r_s1 \in Scalars :
       /\ tries > 0 => r_s1 # try.r_s1
       /\ Reads(rng, <<r_s1>>)
       /\ tape' = Recorded(tape, rng, <<r_s1>>)
       /\ rng' = Past(rng, <<r_s1>>)
       /\ try' = [r_s1 |-> r_s1, A |-> Commit(rnd.r_w, r_s1), chal |-> 0, ell |-> 0]
  /\ pc' = "try"
  /\ UNCHANGED <<prng, issued, job, primes, i, wit, blind, com, rnd, mask, tries,
                 sigs, signs, verdict>>

JobTranscript(A) ==
  Transcript(com.C1, com.C2, com.C3, wit.t, A, mask.B, mask.C, mask.D, mask.E, job.m)

FullLength(ell) == EllLim \div 2 <= ell /\ ell < EllLim

Try ==
  /\ pc = "try"
  /\ Fits(job.c, rnd.r_w, try.r_s1)
  /\ IsExp(mask.E)
  /\ LET tr == JobTranscript(try.A) IN
       \E chal \in Chals, ell0 \in Ells, ell \in 0..(EllLim + EllDiffMax) :
         /\ Derive(job.c, tr, chal, ell0)
         /\ IsNextPrime(Accepts(tr), ell0, EllDiffMax, ell)
         /\ \/ /\ FullLength(ell)
               /\ pc' = "respond"
               /\ tries' = tries
            \/ /\ ~FullLength(ell)
               /\ tries < MaxTries
               /\ pc' = "loop"
               /\ tries' = tries + 1
         /\ try' = [r_s1 |-> try.r_s1, A |-> try.A, chal |-> chal, ell |-> ell]
  /\ UNCHANGED <<issued, job, rng, primes, i, wit, blind, com, rnd, mask, sigs,
                 signs, verdict>>

(* The vector z.                                                           *)
Z ==
  LET chal == try.chal
      n == Modulus(job.k) IN
  [w   |-> chal * wit.w + rnd.r_w,
   w2  |-> chal * wit.w * wit.w + rnd.r_w2,
   s1  |-> chal * blind.s1 + try.r_s1,
   a   |-> chal * wit.a + rnd.r_a,
   an  |-> chal * wit.a * n + rnd.r_an,
   s1w |-> chal * blind.s1 * wit.w + rnd.r_s1w,
   sa  |-> chal * blind.s * wit.a + rnd.r_sa,
   s2  |-> chal * blind.s2 + rnd.r_s2]

BugQuotients == Z
Quotients == [x \in DOMAIN Z |-> Z[x] \div try.ell]
Residues == [x \in DOMAIN Z |-> Z[x] % try.ell]

(* The quotient commitments, and z' = z mod ell.                           *)
Signature ==
  LET q == Quotients IN
  [C2 |-> com.C2, C3 |-> com.C3, t |-> wit.t, chal |-> try.chal, ell |-> try.ell,
   Aq |-> Commit(q.w, q.s1),
   Bq |-> Commit(q.a, q.s2),
   Cq |-> Over(q.w2, q.s1w, com.C2, q.w),
   Dq |-> Over(q.an, q.sa, com.C1, q.a),
   Eq |-> (Z.w2 - Z.an) \div try.ell,
   z  |-> Residues]

QuotientsFit ==
  LET q == Quotients IN
    /\ Fits(job.c, q.w, q.s1)
    /\ Fits(job.c, q.a, q.s2)
    /\ Fits(job.c, q.w2, q.s1w)
    /\ Fits(job.c, q.an, q.sa)

Respond ==
  /\ pc = "respond"
  /\ QuotientsFit
  /\ sigs' = sigs \cup {[k |-> job.k, sp |-> job.sp, m |-> job.m, C1 |-> com.C1,
                         sig |-> Signature, tr |-> JobTranscript(try.A)]}
  /\ SignReturns(TRUE)
  /\ UNCHANGED <<prng, tape, issued, signs>>

(* goo_group_powgh has no comb for the exponents of the step at pc, or     *)
(* goo_group_hash no room for E.                                           *)
TooWide ==
  \/ /\ pc = "commit"
     /\ ~(/\ Fits(job.c, Modulus(job.k), blind.s)
          /\ Fits(job.c, wit.w, blind.s1)
          /\ Fits(job.c, wit.a, blind.s2))
  \/ /\ pc = "mask"
     /\ ~(/\ Fits(job.c, rnd.r_a, rnd.r_s2)
          /\ Fits(job.c, rnd.r_w2, rnd.r_s1w)
          /\ Fits(job.c, rnd.r_an, rnd.r_sa))
  \/ pc = "try" /\ ~(Fits(job.c, rnd.r_w, try.r_s1) /\ IsExp(mask.E))
  \/ pc = "respond" /\ ~QuotientsFit

SignFails ==
  /\ pc \in {"commit", "mask", "try", "respond"}
  /\ TooWide
  /\ SignReturns(FALSE)
  /\ UNCHANGED <<prng, tape, issued, sigs, signs>>

------------------------------------------------------------------------------
(* goo_group_verify.                                                       *)

ZNames == {"w", "w2", "s1", "a", "an", "s1w", "sa", "s2"}

BugWellFormed(S, C1) ==
  /\ S.t \in SmallPrimeSet
  /\ S.chal < ChalLim
  /\ S.ell # 0 /\ S.ell < EllLim
  /\ \A b \in {C1, S.C2, S.C3, S.Aq, S.Bq, S.Cq, S.Dq} : b.canon
  /\ IsExp(S.Eq)

(* The checks that need no computation in the group.                       *)
WellFormed(S, C1) ==
  /\ S.t \in SmallPrimeSet
  /\ S.chal < ChalLim
  /\ S.ell # 0 /\ S.ell < EllLim
  /\ \A b \in {C1, S.C2, S.C3, S.Aq, S.Bq, S.Cq, S.Dq} : b.canon
  /\ IsExp(S.Eq)
  /\ \A x \in ZNames : S.z[x] < S.ell

RecoveredE(S) ==
  S.Eq * S.ell + ((S.z.w2 - S.z.an) % S.ell) - S.t * S.chal

(* A, B, C and D as the verifier reconstructs them, and the hash input.    *)
RecoveredTranscript(S, C1, m) ==
  Transcript(C1, S.C2, S.C3, S.t,
             Recover(S.Aq, S.ell, S.C2, S.chal, S.z.w, S.z.s1),
             Recover(S.Bq, S.ell, S.C3, S.chal, S.z.a, S.z.s2),
             Recover(S.Cq, S.ell, S.C2, S.z.w, S.z.w2, S.z.s1w),
             Recover(S.Dq, S.ell, C1, S.z.a, S.z.an, S.z.sa),
             RecoveredE(S), m)

AllRecoverable(c, S) ==
  /\ Recoverable(c, S.ell, S.chal, S.z.w, S.z.s1)
  /\ Recoverable(c, S.ell, S.chal, S.z.a, S.z.s2)
  /\ Recoverable(c, S.ell, S.z.w, S.z.w2, S.z.s1w)
  /\ Recoverable(c, S.ell, S.z.a, S.z.an, S.z.sa)

Checkable(c, S, C1) ==
  WellFormed(S, C1) /\ AllRecoverable(c, S) /\ IsExp(RecoveredE(S))

VerifyRefuse(c, S, C1, m) == ~Checkable(c, S, C1) /\ Refuse("verify", <<c, m, S, C1>>)

Verify(c, S, C1, m) ==
  /\ pc = "idle"
  /\ Checkable(c, S, C1)
  /\ LET tr == RecoveredTranscript(S, C1, m) IN
       \E chal \in Chals, ell0 \in Ells :
         /\ Derive(c, tr, chal, ell0)
         /\ Returns("verify",
                    /\ S.chal = chal
                    /\ ell0 <= S.ell /\ S.ell <= ell0 + EllDiffMax
                    /\ S.ell \in Accepts(tr),
                    <<c, m, S, C1>>)
  /\ UNCHANGED <<issued, pc, signVars, sigs, signs>>

------------------------------------------------------------------------------
(* What verify is given: a signature as it was made, or one that stands    *)
(* for the same proof with z_s2 not reduced, or with C2 not canonical.     *)
Unreduced(S) ==
  [S EXCEPT !.z.s2 = @ + S.ell, !.Bq = Commit(S.Bq.g, S.Bq.h - 1)]

NotCanonical(b) == [b EXCEPT !.canon = FALSE]
Uncanonical(S) == [S EXCEPT !.C2 = NotCanonical(@)]

Variants(S) == {S, Unreduced(S), Uncanonical(S)}

Sign ==
  \/ \E c \in Ctxs, k \in Keys, sp \in SPrimes, m \in Msgs : SignBegin(c, k, sp, m)
  \/ \E j \in 0..(Len(primes) - 1) : SearchHit(j) \/ SearchMiss(j) \/ SearchFails(j)
  \/ NotDivisible
  \/ DrawBlinding
  \/ MakeCommitments
  \/ MakeMasks
  \/ DrawTry
  \/ Try
  \/ Respond
  \/ SignFails

Next ==
  \/ \E c \in Ctxs, k \in Keys, sp \in SPrimes :
       \/ Challenge(c, k, sp) \/ ChallengeRefuse(c, k, sp)
       \/ \E ch \in issued : \E C1 \in {ch.C1, NotCanonical(ch.C1)} :
            Validate(c, sp, C1, k) \/ ValidateRefuse(c, sp, C1, k)
       \/ SignRefuse(c, k)
  \/ Sign
  \/ \E c \in Ctxs, m \in Msgs, x \in sigs, C1 \in {y.C1 : y \in sigs \cup issued} :
       \E S \in Variants(x.sig) : VerifyRefuse(c, S, C1, m) \/ Verify(c, S, C1, m)

Spec == Init /\ [][Next]_vars

------------------------------------------------------------------------------
Pcs == {"idle", "search", "blind", "commit", "mask", "loop", "try", "respond"}

TypeOK ==
  /\ DOMAIN prng = Ctxs
  /\ pc \in Pcs
  /\ pc # "idle" => job.c \in Ctxs /\ job.k \in Keys
  /\ i \in 1..Len(SmallPrimes)
  /\ primes \in [1..Len(SmallPrimes) -> SmallPrimeSet]
  /\ signs \in 0..MaxSigns
  /\ tries \in 0..MaxTries
  /\ verdict.ok \in BOOLEAN

(* A signature that sign returned is accepted by verify with its challenge *)
(* and its message, on every context, provers and verifiers alike, and     *)
(* whatever the context did before: the verifier recovers A, B, C, D and E *)
(* exactly, reads chal and ell' from the start of the same stream, and its *)
(* range checks admit what the signer computes.                            *)
HonestSignatureVerifies ==
  /\ verdict.op = "verify"
  /\ (\E x \in sigs : verdict.of = <<verdict.of[1], x.m, x.sig, x.C1>>)
  => verdict.ok

(* A proof has one accepted form: a z' that is not reduced mod ell, or an  *)
(* element that is not canonical, is refused though it recovers the same   *)
(* group elements; and a challenge has one form that opens.                *)
OneForm ==
  verdict.ok =>
    /\ verdict.op = "verify" =>
         \A x \in sigs : verdict.of[3] \notin {Unreduced(x.sig), Uncanonical(x.sig)}
    /\ verdict.op = "validate" => verdict.of[3].canon

(* Signing is deterministic: the same key, s_prime and message give the    *)
(* same signature on any context at any time.                              *)
SignDeterministic ==
  \A x, y \in sigs :
    <<x.k, x.sp, x.m>> = <<y.k, y.sp, y.m>> => x.sig = y.sig

(* The C1 under which a signature is made is the challenge that was issued *)
(* for its modulus and s_prime, whichever contexts did the work, and the   *)
(* holder of the key finds that it opens, if its context has the combs.    *)
OneChallenge ==
  /\ \A x \in sigs, ch \in issued :
       <<Modulus(x.k), x.sp>> = <<ch.n, ch.sp>> => x.C1 = ch.C1
  /\ verdict.op = "validate" =>
       LET c == verdict.of[1]
           C1 == verdict.of[3]
           n == Modulus(verdict.of[4]) IN
         (\E ch \in issued : <<n, verdict.of[2], C1>> = <<ch.n, ch.sp, ch.C1>>)
           => (verdict.ok <=> ValidKey(verdict.of[4]) /\ Fits(c, C1.g, C1.h))

(* The search for t skips no prime: the shuffled list is the whole list,   *)
(* and the part behind i has no roots.  So sign gives up only on a key for *)
(* which no prime of the list is a residue.                                *)
SearchCovers ==
  pc = "search" =>
    /\ {primes[x] : x \in DOMAIN primes} = SmallPrimeSet
    /\ \A x \in 1..(i - 1) : RootOf(primes[x]) = -1

(* The assertions of goo_group_sign hold (w > 0, a >= 0, Eq has at most    *)
(* EXP_BITS bits), and the exponents it gives to goo_group_pow, whose      *)
(* return value it ignores, are in that function's range.                  *)
AssertionsHold ==
  /\ pc \in Pcs \ {"idle", "search"} => wit.w > 0 /\ wit.a >= 0
  /\ pc \in {"mask", "loop", "try"} => rnd.r_w < ModLim /\ rnd.r_a < ModLim
  /\ pc = "respond" =>
       /\ IsExp(Signature.Eq)
       /\ Quotients.w < ModLim /\ Quotients.a < ModLim
==============================================================================
