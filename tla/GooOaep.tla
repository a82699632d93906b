------------------------------- MODULE GooOaep -------------------------------
(***************************************************************************)
(* RSA-OAEP and the veil of src/src/goo/goo.c: goo_encrypt_oaep,           *)
(* goo_decrypt_oaep, goo_veil, goo_unveil and the scan that finds the      *)
(* message without a branch on its bytes.  A byte is one of Base values    *)
(* and the hash a function of the run; numbers are computed.  What the     *)
(* PRNG gives is any value of its range (Draws bounds the blinding).  A    *)
(* value used more than once is bound by \E over a set of one.             *)
(***************************************************************************)
EXTENDS GooNumber, Sequences

CONSTANTS
  ByteBits,     \* bits of a byte: 8
  HashLen,      \* bytes of a digest: 32
  HashOf(_),    \* SHA-256 as a function of a sequence of bytes
  Keys,         \* records p, q, e
  MinBits,      \* GOO_MIN_RSA_BITS
  MaxBits,      \* GOO_MAX_RSA_BITS
  Slack,        \* the veil's additional bits: 8
  Messages,     \* sequences of bytes
  OaepSeeds,    \* what the PRNG gives for the OAEP seed
  Labels,
  Draws,        \* what it may give for a blinding factor
  Ciphertexts   \* other numbers given to decrypt

Base == 2^ByteBits

ASSUME OaepAssumption ==
  /\ \A l, k \in Labels : HashOf(l) = HashOf(k) => l = k
  /\ \A l \in Labels : HashOf(l) \in [1..HashLen -> 0..(Base - 1)]
  /\ \A s \in OaepSeeds : s \in [1..HashLen -> 0..(Base - 1)]
  /\ Base \in Nat /\ Base >= 2 /\ HashLen \in Nat \ {0}
  /\ Labels \subseteq Seq(0..(Base - 1)) /\ Messages \subseteq Seq(0..(Base - 1))
  /\ \A k \in Keys : {k.p, k.q, k.e} \subseteq Nat \ {0}
  /\ MinBits \in Nat /\ MaxBits \in Nat /\ Slack \in Nat /\ ByteBits \in Nat
  /\ Draws \subseteq Nat

VARIABLES
  oaepPc,        \* "idle", "veil", "sent", "blind", "scan", "done"
  key,           \* the key of the call
  label,         \* its label
  sent,          \* history: the message and label encrypted; "none" as text
  c,             \* the number on its way
  rmax,          \* veil: one above the largest multiple
  draws,         \* veil: draws made
  em,            \* decrypt: the encoded message
  scanned, looking, index, invalid,   \* decrypt: the scan
  plain          \* [ok, text]

oaepVars == <<oaepPc, key, label, sent, c, rmax, draws, em, scanned, looking, index, invalid, plain>>

Modulus == key.p * key.q
VeilBits == MaxBits + Slack

ByteLength(x) == CHOOSE s \in 0..x : x < Base^s /\ (s > 0 => x >= Base^(s - 1))

(* What the proofs need of powers: every modulus has a length, and a power  *)
(* is one factor more than the one before it.                              *)
ASSUME LengthAssumption ==
  /\ \A k \in Keys :
       LET n == k.p * k.q
       IN /\ \E s \in 0..n : n < Base^s /\ (s > 0 => n >= Base^(s - 1))
          /\ \E s \in 0..n : n < 2^s
          /\ \A s \in 0..ByteLength(n) : Base^(s + 1) = Base * Base^s
  /\ \A s \in 0..(MaxBits + Slack + ByteBits) : 2^(s + 1) = 2 * 2^s
  /\ 2^0 = 1 /\ Base^0 = 1

(* goo_mpz_import and goo_mpz_pad                                          *)
Import(b) ==
  LET upto[k \in 0..Len(b)] == IF k = 0 THEN 0 ELSE upto[k - 1] * Base + b[k]
  IN upto[Len(b)]
Padded(size, x) == [k \in 1..size |-> (x \div Base^(size - k)) % Base]

Bit(x, k) == (x \div 2^k) % 2
XorByte(x, y) ==
  CHOOSE z \in 0..(Base - 1) :
    \A k \in 0..(ByteBits - 1) : Bit(z, k) = (Bit(x, k) + Bit(y, k)) % 2

(* goo_mgf1xor: digests of the seed and a counter, one after another.      *)
Mgf1Xor(out, seed) ==
  [k \in 1..Len(out) |->
     XorByte(out[k],
             HashOf(Append(seed, (k - 1) \div HashLen))[((k - 1) % HashLen) + 1])]

ValidModulus == Modulus % 2 = 1 /\ BitLength(Modulus) \in MinBits..MaxBits
ValidPrime(x) == x % 2 = 1 /\ BitLength(x) \in 2..MaxBits
ValidExponent(e) == e >= 3 /\ BitLength(e) <= 33 /\ e % 2 = 1

KeyLen == ByteLength(Modulus)
Split == HashLen + 1
Front(s, k) == SubSeq(s, 1, k)
Back(s, k) == SubSeq(s, k + 1, Len(s))

Nothing == [ok |-> FALSE, text |-> <<>>]
NotSent == [text |-> <<>>, label |-> <<>>, any |-> TRUE]

OaepInit ==
  /\ oaepPc = "idle"
  /\ key \in Keys
  /\ label = <<>>
  /\ sent = NotSent
  /\ c = 0 /\ rmax = 0 /\ draws = 0
  /\ em = <<>> /\ scanned = 0 /\ looking = TRUE /\ index = 0 /\ invalid = FALSE
  /\ plain = Nothing

scanVars == <<em, scanned, looking, index, invalid>>

OaepFail ==
  /\ oaepPc' = "done"
  /\ plain' = Nothing

(* 0x00, the seed masked with the rest, and the rest masked with the seed: *)
(* the label's hash, zeros, 0x01 and the message.                          *)
Encoded(m, l, seed) ==
  LET db == HashOf(l) \o [k \in 1..(KeyLen - 2 * HashLen - 2 - Len(m)) |-> 0]
                      \o <<1>> \o m
      masked == Mgf1Xor(db, seed)
  IN <<0>> \o Mgf1Xor(seed, masked) \o masked

(* Definitions named Bug... are defects: each is put in the place of the   *)
(* definition that follows it to see which property notices.               *)
BugRmax(x) == (2^VeilBits + Modulus - 1) \div Modulus

(* rmax = (vmax - c + n - 1) / n                                           *)
Rmax(x) == (2^VeilBits - x + Modulus - 1) \div Modulus

(* goo_encrypt_oaep up to the loop of goo_veil.                            *)
Encrypt(m, l, seed) ==
  /\ oaepPc = "idle"
  /\ LET fits == /\ ValidModulus /\ ValidExponent(key.e)
                 /\ KeyLen >= 2 * HashLen + 2
                 /\ Len(m) <= KeyLen - 2 * HashLen - 2
     IN \/ ~fits /\ OaepFail /\ UNCHANGED <<sent, c, rmax>>
        \/ /\ fits
           /\ oaepPc' = "veil"
           /\ sent' = [text |-> m, label |-> l, any |-> FALSE]
           /\ \E block \in {Encoded(m, l, seed)} :
              \E x \in {Import(block)} :
                c' = PowMod(x, key.e, Modulus)
           /\ rmax' = Rmax(c')
           /\ UNCHANGED plain
  /\ UNCHANGED <<key, label, draws, scanVars>>

(* v = c + r * n, again while it is not below vmax.                        *)
Veil ==
  /\ oaepPc = "veil"
  /\ draws' = draws + 1
  /\ \E r \in 0..(rmax - 1) :
       IF c + r * Modulus < 2^VeilBits
       THEN c' = c + r * Modulus /\ oaepPc' = "sent"
       ELSE UNCHANGED <<c, oaepPc>>
  /\ UNCHANGED <<key, label, sent, rmax, scanVars, plain>>

(* goo_decrypt_oaep up to the blinding, with goo_unveil.  Their tests that *)
(* there are no fewer bytes than the modulus has are about the encoding of *)
(* v, which is given here as a number, and are left out.                   *)
Unveil(v, l) ==
  LET phi == (key.p - 1) * (key.q - 1)
      fits == /\ ValidPrime(key.p) /\ ValidPrime(key.q)
              /\ ValidModulus /\ ValidExponent(key.e)
              /\ Coprime(phi, key.e)
              /\ KeyLen >= 2 * HashLen + 2
              /\ BitLength(v) <= VeilBits
  IN /\ label' = l
     /\ \/ ~fits /\ OaepFail /\ UNCHANGED c
        \/ fits /\ oaepPc' = "blind" /\ c' = v % Modulus /\ UNCHANGED plain
     /\ UNCHANGED <<key, rmax, draws, scanVars>>

Decrypt(l) ==
  /\ oaepPc = "sent"
  /\ Unveil(c, l)
  /\ UNCHANGED sent

DecryptOther(v, l) ==
  /\ oaepPc = "idle"
  /\ Unveil(v, l)
  /\ UNCHANGED sent

PrivateExponent == LET phi == (key.p - 1) * (key.q - 1)
     IN CHOOSE d \in 0..(phi - 1) : (key.e * d) % phi = 1

InverseOf(s) == CHOOSE b \in 0..(Modulus - 1) : (s * b) % Modulus = 1

BugFactor(s) == s

(* bi = s^-1 mod n                                                         *)
Factor(s) == InverseOf(s)

(* c' = c * s^e, m' = c'^d, m = m' * s^-1                                  *)
Unblinded(s) ==
  (PowMod((c * PowMod(s, key.e, Modulus)) % Modulus, PrivateExponent, Modulus) * Factor(s)) % Modulus

(* goo_mpz_invert finds an inverse of the draw.                            *)
Units == {s \in Draws : s < Modulus /\ Coprime(s, Modulus)}

(* The blinding factor is drawn until it is a unit.                        *)
DrawNonUnit ==
  /\ oaepPc = "blind"
  /\ \E s \in Draws \ Units : s < Modulus
  /\ UNCHANGED oaepVars

DrawUnit ==
  /\ oaepPc = "blind"
  /\ \E s \in Units :
       \E x \in {Unblinded(s)} :
          \E masked \in {Padded(KeyLen, x)} :
          \E seed \in {Mgf1Xor(SubSeq(masked, 2, Split), Back(masked, Split))} :
            em' = <<masked[1]>> \o seed \o Mgf1Xor(Back(masked, Split), seed)
  /\ oaepPc' = "scan"
  /\ scanned' = 0 /\ looking' = TRUE /\ index' = 0 /\ invalid' = FALSE
  /\ UNCHANGED <<key, label, sent, c, rmax, draws, plain>>

Rest == Back(em, Split + HashLen)

BugStillLooking(byte) == looking

(* looking = safe_select(looking, 0, equals1)                              *)
StillLooking(byte) == looking /\ byte # 1

(* One turn of the scan: all its bytes are read, found or not.             *)
Scan ==
  /\ oaepPc = "scan"
  /\ scanned < Len(Rest)
  /\ LET byte == Rest[scanned + 1]
     IN /\ index' = IF looking /\ byte = 1 THEN scanned ELSE index
        /\ looking' = StillLooking(byte)
        /\ invalid' = (invalid \/ (looking' /\ byte # 0))
  /\ scanned' = scanned + 1
  /\ UNCHANGED <<oaepPc, key, label, sent, c, rmax, draws, em, plain>>

(* valid = zero & lvalid & (invalid ^ 1) & (looking ^ 1)                   *)
Valid(z, h) == z /\ h /\ ~invalid /\ ~looking

Decode ==
  /\ oaepPc = "scan"
  /\ scanned = Len(Rest)
  /\ oaepPc' = "done"
  /\ plain' =
       IF Valid(em[1] = 0, SubSeq(em, Split + 1, Split + HashLen) = HashOf(label))
       THEN [ok |-> TRUE, text |-> Back(Rest, index + 1)]
       ELSE Nothing
  /\ UNCHANGED <<key, label, sent, c, rmax, draws, scanVars>>

OaepNext ==
  \/ \E m \in Messages, l \in Labels, seed \in OaepSeeds : Encrypt(m, l, seed)
  \/ Veil
  \/ \E l \in Labels : Decrypt(l)
  \/ \E v \in Ciphertexts, l \in Labels : DecryptOther(v, l)
  \/ DrawNonUnit
  \/ DrawUnit
  \/ Scan
  \/ Decode

OaepSpec == OaepInit /\ [][OaepNext]_oaepVars

------------------------------------------------------------------------------
(* What an RSA key is: two different primes.                               *)
KeysArePrimes ==
  \A k \in Keys : IsPrimeNumber(k.p) /\ IsPrimeNumber(k.q) /\ k.p # k.q

(* What was encrypted comes back under the same label, whatever the seed,  *)
(* the veil and the blinding factor, and under no other label.             *)
RoundTrip ==
  oaepPc = "done" /\ ~sent.any =>
    IF sent.label = label
    THEN Coprime(key.e, (key.p - 1) * (key.q - 1)) =>
           plain = [ok |-> TRUE, text |-> sent.text]
    ELSE ~plain.ok

(* The scan without branches finds what RFC 8017 describes: for any        *)
(* ciphertext, a leading 0x00, the hash of the label, zeros, the first     *)
(* 0x01 and the message after it; anything else is refused.                *)
DecodesAsSpecified ==
  oaepPc = "done" /\ em # <<>> =>
    LET begins(k) == /\ Rest[k] = 1
                     /\ \A j \in 1..(k - 1) : Rest[j] = 0
        fits == /\ em[1] = 0
                /\ SubSeq(em, Split + 1, Split + HashLen) = HashOf(label)
    IN /\ plain.ok <=> fits /\ \E k \in 1..Len(Rest) : begins(k)
       /\ \A k \in 1..Len(Rest) : plain.ok /\ begins(k) => plain.text = Back(Rest, k)

(* The range of the veil is exactly the multiples that fit: no draw is     *)
(* refused (the loop of goo_veil ends at its first turn), and no number of *)
(* the class of c below 2^bits is left out.                                *)
VeilIsExact ==
  /\ draws <= 1
  /\ oaepPc = "veil" => rmax > 0 /\ c + rmax * Modulus >= 2^VeilBits
==============================================================================
