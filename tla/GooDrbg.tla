------------------------------- MODULE GooDrbg -------------------------------
(***************************************************************************)
(* src/src/goo/drbg.c: HMAC-DRBG.  Several generators run side by side, as *)
(* those of sign, of verify and of the primality tests do: the calls to    *)
(* them alternate, but one call is over before another begins.  HMAC is a  *)
(* function that nobody can predict: `asked` lists the different questions *)
(* put to it so far, and an answer is the number of its question.  One     *)
(* action is one HMAC.                                                     *)
(***************************************************************************)
EXTENDS Integers, Sequences

CONSTANTS
  Users,      \* the generators
  Seeds,      \* what they are seeded with
  NoSeed,     \* the empty seed of the update after a generate
  OutLen,     \* bytes of a block: 32
  Lens,       \* the lengths asked for
  MaxCalls,   \* bound: calls of generate on one seed
  MaxInits    \* bound: calls of init

ASSUME DrbgAssumption ==
  NoSeed \notin Seeds /\ OutLen \in Nat \ {0} /\ Lens \subseteq Nat

VARIABLES
  asked,      \* the questions put to HMAC
  K, V,       \* drbg->K and drbg->V of each generator
  pc,         \* "unseeded", "idle", "out", or the HMAC of update that is next
  material,   \* the seed that update mixes in
  left,       \* bytes to go
  seed,       \* history: the seed in force
  calls,      \* history: the lengths asked for on this seed
  stream,     \* history: the bytes given on this seed
  inits       \* history: calls of init

generatorVars == <<asked, K, V, pc, material, left, seed, calls, stream, inits>>

(* memset of K with 0x00 and of V with 0x01                                *)
Zeros == 0
Ones == -1

GeneratorInit ==
  /\ asked = <<>>
  /\ K = [u \in Users |-> Zeros] /\ V = [u \in Users |-> Zeros]
  /\ pc = [u \in Users |-> "unseeded"]
  /\ material = [u \in Users |-> NoSeed]
  /\ left = [u \in Users |-> 0]
  /\ seed = [u \in Users |-> NoSeed]
  /\ calls = [u \in Users |-> <<>>] /\ stream = [u \in Users |-> <<>>]
  /\ inits = 0

NobodyCalls == \A u \in Users : pc[u] \in {"unseeded", "idle"}

Question(u, tag, mixed) == [key |-> K[u], val |-> V[u], tag |-> tag, mixed |-> mixed]

Answer(q) ==
  IF \E i \in DOMAIN asked : asked[i] = q
  THEN CHOOSE i \in DOMAIN asked : asked[i] = q
  ELSE Len(asked) + 1

Ask(q) == asked' = IF Answer(q) > Len(asked) THEN Append(asked, q) ELSE asked

(* Definitions named Bug... are defects: each is put in the place of the   *)
(* definition that follows it to see which property notices.               *)
BugStartVal(u) == IF seed[u] = NoSeed THEN Ones ELSE V[u]

StartVal(u) == Ones

(* goo_drbg_init, up to its update.                                        *)
DrbgInit(u, s) ==
  /\ NobodyCalls
  /\ inits < MaxInits
  /\ inits' = inits + 1
  /\ K' = [K EXCEPT ![u] = Zeros]
  /\ V' = [V EXCEPT ![u] = StartVal(u)]
  /\ pc' = [pc EXCEPT ![u] = "key0"]
  /\ material' = [material EXCEPT ![u] = s]
  /\ seed' = [seed EXCEPT ![u] = s]
  /\ calls' = [calls EXCEPT ![u] = <<>>]
  /\ stream' = [stream EXCEPT ![u] = <<>>]
  /\ UNCHANGED <<asked, left>>

(* goo_drbg_update: K from K, V, a byte and the seed ...                   *)
UpdateKey(u, from, tag, to) ==
  LET q == Question(u, tag, material[u])
  IN /\ pc[u] = from
     /\ Ask(q)
     /\ K' = [K EXCEPT ![u] = Answer(q)]
     /\ pc' = [pc EXCEPT ![u] = to]
     /\ UNCHANGED <<V, material, left, seed, calls, stream, inits>>

(* ... and V from the new K and V; with a seed, both once more.            *)
UpdateVal(u, from) ==
  LET q == Question(u, "none", NoSeed)
  IN /\ pc[u] = from
     /\ Ask(q)
     /\ V' = [V EXCEPT ![u] = Answer(q)]
     /\ pc' = [pc EXCEPT ![u] =
                 IF from = "val0" /\ material[u] # NoSeed THEN "key1" ELSE "idle"]
     /\ UNCHANGED <<K, material, left, seed, calls, stream, inits>>

(* goo_drbg_generate                                                       *)
Generate(u, len) ==
  /\ NobodyCalls /\ pc[u] = "idle"
  /\ Len(calls[u]) < MaxCalls
  /\ left' = [left EXCEPT ![u] = len]
  /\ pc' = [pc EXCEPT ![u] = "out"]
  /\ calls' = [calls EXCEPT ![u] = Append(@, len)]
  /\ UNCHANGED <<asked, K, V, material, seed, stream, inits>>

BugKept(u, v) == V[u]

(* goo_hmac_final writes the new V over the old one.                       *)
Kept(u, v) == v

(* One turn of the loop: a block, or as much of it as is still wanted.     *)
Block(u) ==
  LET q == Question(u, "none", NoSeed)
      size == IF OutLen > left[u] THEN left[u] ELSE OutLen
  IN /\ pc[u] = "out" /\ left[u] > 0
     /\ Ask(q)
     /\ V' = [V EXCEPT ![u] = Kept(u, Answer(q))]
     /\ stream' = [stream EXCEPT ![u] =
                     @ \o [i \in 1..size |-> [block |-> Answer(q), at |-> i]]]
     /\ left' = [left EXCEPT ![u] = @ - size]
     /\ UNCHANGED <<K, pc, material, seed, calls, inits>>

(* goo_drbg_update(drbg, NULL, 0)                                          *)
AfterOutput == "key0"

BlocksDone(u) ==
  /\ pc[u] = "out" /\ left[u] = 0
  /\ pc' = [pc EXCEPT ![u] = AfterOutput]
  /\ material' = [material EXCEPT ![u] = NoSeed]
  /\ UNCHANGED <<asked, K, V, left, seed, calls, stream, inits>>

GeneratorNext == \E u \in Users :
  \/ \E s \in Seeds : DrbgInit(u, s)
  \/ UpdateKey(u, "key0", "zero", "val0")
  \/ UpdateVal(u, "val0")
  \/ UpdateKey(u, "key1", "one", "val1")
  \/ UpdateVal(u, "val1")
  \/ \E len \in Lens : Generate(u, len)
  \/ Block(u)
  \/ BlocksDone(u)

GeneratorSpec == GeneratorInit /\ [][GeneratorNext]_generatorVars

------------------------------------------------------------------------------
(* Generators with the same seed that were asked for the same lengths have *)
(* given the same bytes and are in the same state, whatever they were used *)
(* for before and whoever else drew in between: verify derives the         *)
(* challenge that sign derived.                                            *)
SameSeedSameStream ==
  \A u, w \in Users :
    /\ pc[u] = "idle" /\ pc[w] = "idle"
    /\ seed[u] = seed[w] /\ calls[u] = calls[w]
    => stream[u] = stream[w] /\ K[u] = K[w] /\ V[u] = V[w]

(* A byte of output is given once on a seed, and two seeds have none in    *)
(* common; and between calls the key is not one that output was made with, *)
(* so that the state left behind does not yield what was given.            *)
NoByteTwice ==
  /\ \A u, w \in Users : \A i \in DOMAIN stream[u], j \in DOMAIN stream[w] :
       /\ stream[u][i] = stream[w][j]
       /\ u = w \/ seed[u] # seed[w]
       => u = w /\ i = j
  /\ \A u \in Users : pc[u] = "idle" =>
       \A i \in DOMAIN stream[u] : asked[stream[u][i].block].key # K[u]
==============================================================================
