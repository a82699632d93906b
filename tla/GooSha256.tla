------------------------------ MODULE GooSha256 ------------------------------
(***************************************************************************)
(* The contexts of src/src/goo/sha256.c: what is kept between calls is the *)
(* compression state, a block that is filled in pieces and the number of   *)
(* bytes.  The compression function is not computed: a state is where it   *)
(* started and the chunks it was given.  Bytes are any values; the length  *)
(* field is the size with a place.                                         *)
(***************************************************************************)
EXTENDS Naturals, Sequences

CONSTANTS
  BlockSize,     \* GOO_SHA256_BLOCK_SIZE: 64
  LengthSize     \* bytes of the length field: 8

ASSUME Sha256Assumption ==
  BlockSize \in Nat /\ LengthSize \in Nat /\ 0 < LengthSize /\ LengthSize < BlockSize

(* goo_sha256_init: the block keeps whatever was there.                    *)
Sha256Init(block) ==
  [iv |-> TRUE, chunks |-> <<>>, block |-> block, size |-> 0]

Chunk(data, off) == SubSeq(data, off + 1, off + BlockSize)

(* goo_sha256_transform for each of the whole blocks of data from off on.  *)
Transformed(chunks, data, off, count) ==
  chunks \o [b \in 1..count |-> Chunk(data, off + (b - 1) * BlockSize)]

(* memcpy to the block from pos on of `want` bytes of data from off on.    *)
Copied(block, pos, data, off, want) ==
  [k \in 1..BlockSize |->
     IF pos < k /\ k <= pos + want THEN data[off + k - pos] ELSE block[k]]

(* goo_sha256_update: fill the block if there is something in it, compress *)
(* it when full, compress the whole blocks of the data where they are, and *)
(* keep the rest.                                                          *)
Sha256Update(ctx, data) ==
  LET len == Len(data)
      pos == ctx.size % BlockSize
      space == IF pos > 0 THEN BlockSize - pos ELSE 0
      want == IF space > len THEN len ELSE space
      filled == Copied(ctx.block, pos, data, 0, want)
      first == IF pos > 0 THEN Append(ctx.chunks, filled) ELSE ctx.chunks
      whole == (len - want) \div BlockSize
      off == want + whole * BlockSize
  IN IF want < space
     THEN [ctx EXCEPT !.size = @ + len, !.block = filled]
     ELSE [ctx EXCEPT
             !.size = @ + len,
             !.chunks = Transformed(first, data, want, whole),
             !.block = Copied(filled, 0, data, off, len - off)]

(* P: 0x80 and zeros.                                                      *)
Pad(count) == [i \in 1..count |-> IF i = 1 THEN <<"pad", 128>> ELSE <<"pad", 0>>]

(* Definitions named Bug... are defects: each is put in the place of the   *)
(* definition that follows it to see which property notices.               *)
BugPadCount(pos) == 1 + ((2 * BlockSize - LengthSize - pos) % BlockSize)

(* 1 + ((119 - pos) & 63)                                                  *)
PadCount(pos) == 1 + ((2 * BlockSize - LengthSize - 1 - pos) % BlockSize)

(* write64(D, ctx->size << 3), taken before the padding is added           *)
LengthBytes(size) == [i \in 1..LengthSize |-> <<"length", size, i>>]

(* What goo_sha256_final leaves before it writes the state out.            *)
Sha256Closed(ctx) ==
  Sha256Update(Sha256Update(ctx, Pad(PadCount(ctx.size % BlockSize))),
               LengthBytes(ctx.size))

(* The digest: the state after the last block.                             *)
Sha256Final(ctx) == Sha256Closed(ctx).chunks

(* The context after goo_sha256_final: no state, no block, no size.        *)
Sha256Cleared ==
  [iv |-> FALSE, chunks |-> <<>>,
   block |-> [k \in 1..BlockSize |-> <<"pad", 0>>], size |-> 0]
==============================================================================
