------------------------------- MODULE GooHmac -------------------------------
(***************************************************************************)
(* src/src/goo/hmac.c: two hash contexts, each begun with a block made of  *)
(* the key, and the digest of the one given to the other.  The output      *)
(* buffer first holds the inner digest, and may be where the key came from *)
(* (drbg.c writes K and V in place).                                       *)
(***************************************************************************)
EXTENDS GooSha256

CONSTANTS
  HashSize,      \* GOO_SHA256_HASH_SIZE: 32
  KeyLens,       \* the lengths of keys
  MessageLens,   \* the lengths of the pieces of a message
  MaxMessage,    \* bound: bytes of a message
  MaxRekeys      \* bound: digests in a row that are the next key

ASSUME HmacAssumption ==
  /\ HashSize \in Nat /\ MessageLens \subseteq Nat
  /\ \A len \in KeyLens : len \in 0..BlockSize

VARIABLES
  inner, outer,   \* goo_hmac_t
  active,         \* after init and before final
  buffer,         \* where the key is read and the digest is written
  key,            \* the key as it was at init
  message,        \* what the caller has passed
  mac,            \* the last result, with its key and message
  rekeys          \* digests in a row that were the next key

macVars == <<inner, outer, active, buffer, key, message, mac, rekeys>>

Blank == [k \in 1..BlockSize |-> <<"junk", k>>]

(* The bytes that goo_sha256_final writes.                                 *)
DigestBytes(chunks) == [i \in 1..HashSize |-> <<"digest", chunks, i>>]

(* Definitions named Bug... are defects: each is put in the place of the   *)
(* definition that follows it to see which property notices.               *)
BugKeyBlock(k, pad) == [i \in 1..BlockSize |-> <<pad, IF i <= HashSize /\ i <= Len(k) THEN k[i] ELSE <<"pad", 0>> >>]

(* Each byte of the key, and zero beyond it, xor 0x36 or 0x5c.             *)
KeyBlock(k, pad) ==
  [i \in 1..BlockSize |-> <<pad, IF i <= Len(k) THEN k[i] ELSE <<"pad", 0>> >>]

KeyBytes(len) == [i \in 1..len |-> <<"key", i>>]

MacInit ==
  /\ inner = Sha256Cleared /\ outer = Sha256Cleared
  /\ active = FALSE
  /\ buffer \in {KeyBytes(len) : len \in KeyLens}
  /\ key = <<>> /\ message = <<>>
  /\ mac = [tag |-> <<>>, key |-> <<>>, message |-> <<>>]
  /\ rekeys = 0

(* goo_hmac_init with the contents of the buffer as the key.               *)
HmacInit ==
  /\ rekeys <= MaxRekeys
  /\ Len(buffer) <= BlockSize
  /\ inner' = Sha256Update(Sha256Init(inner.block), KeyBlock(buffer, 54))
  /\ outer' = Sha256Update(Sha256Init(outer.block), KeyBlock(buffer, 92))
  /\ active' = TRUE
  /\ key' = buffer
  /\ message' = <<>>
  /\ UNCHANGED <<buffer, mac, rekeys>>

MessageByte(k) == <<"data", k>>

(* goo_hmac_update                                                         *)
HmacUpdate(len) ==
  LET piece == [k \in 1..len |-> MessageByte(Len(message) + k)]
  IN /\ active
     /\ Len(message) + len <= MaxMessage
     /\ inner' = Sha256Update(inner, piece)
     /\ message' = message \o piece
     /\ UNCHANGED <<outer, active, buffer, key, mac, rekeys>>

BugInnerDigest == DigestBytes(inner.chunks)

(* goo_sha256_final(&hmac->inner, out)                                     *)
InnerDigest == DigestBytes(Sha256Final(inner))

(* goo_hmac_final                                                          *)
HmacFinal ==
  LET whole == DigestBytes(Sha256Final(Sha256Update(outer, InnerDigest)))
  IN /\ active
     /\ inner' = Sha256Cleared /\ outer' = Sha256Cleared
     /\ active' = FALSE
     /\ buffer' = whole
     /\ mac' = [tag |-> whole, key |-> key, message |-> message]
     /\ rekeys' = rekeys + 1
     /\ UNCHANGED <<key, message>>

(* The caller puts a key of its own into the buffer.                       *)
NewKey(len) ==
  /\ ~active
  /\ buffer' = KeyBytes(len)
  /\ rekeys' = 0
  /\ UNCHANGED <<inner, outer, active, key, message, mac>>

MacNext ==
  \/ HmacInit
  \/ \E len \in MessageLens : HmacUpdate(len)
  \/ HmacFinal
  \/ \E len \in KeyLens : NewKey(len)

MacSpec == MacInit /\ [][MacNext]_macVars

------------------------------------------------------------------------------
Whole == INSTANCE HashSpec WITH
  open <- active, msg <- message, digest <- mac.tag,
  DataByte <- MessageByte, Lengths <- MessageLens

(* RFC 2104 in terms of the hash of whole messages.                        *)
Xored(k, pad) ==
  [i \in 1..BlockSize |-> <<pad, IF i \in DOMAIN k THEN k[i] ELSE <<"pad", 0>> >>]

Reference(k, m) ==
  DigestBytes(Whole!Digest(Xored(k, 92) \o DigestBytes(Whole!Digest(Xored(k, 54) \o m))))

(* A result is the MAC of its message under its key, for keys as long as   *)
(* the hash, shorter, longer to the block and empty, for keys that the     *)
(* result overwrites and contexts used before.                             *)
MacIsHmac ==
  mac.tag # <<>> => mac.tag = Reference(mac.key, mac.message)
==============================================================================
