--------------------------- MODULE GooSha256Stream ---------------------------
(***************************************************************************)
(* A context of sha256.c in use: init, updates with pieces of any length,  *)
(* final, and the one-shot goo_sha256 with a context of its own.  Bytes    *)
(* are told apart by their place in the message, so that a byte lost,      *)
(* doubled or moved shows.                                                 *)
(***************************************************************************)
EXTENDS GooSha256

CONSTANTS
  PieceLens,   \* the lengths of the pieces
  MaxSize      \* bound: bytes in one message

ASSUME StreamAssumption == PieceLens \subseteq Nat

VARIABLES
  ctx,        \* goo_sha256_t
  out         \* the last digest written

streamVars == <<ctx, out>>

Unwritten == [k \in 1..BlockSize |-> <<"junk", k>>]

StreamInit ==
  /\ ctx = [Sha256Cleared EXCEPT !.block = Unwritten]
  /\ out = <<>>

DataByte(k) == <<"data", k>>
Piece(from, len) == [k \in 1..len |-> DataByte(from + k)]

Begin ==
  /\ ctx' = Sha256Init(ctx.block)
  /\ UNCHANGED out

Update(len) ==
  /\ ctx.iv
  /\ ctx.size + len <= MaxSize
  /\ ctx' = Sha256Update(ctx, Piece(ctx.size, len))
  /\ UNCHANGED out

Final ==
  /\ ctx.iv
  /\ out' = Sha256Final(ctx)
  /\ ctx' = Sha256Cleared

(* goo_sha256: its context is on the stack.                                *)
OneShot(len) ==
  /\ out' = Sha256Final(Sha256Update(Sha256Init(Unwritten), Piece(0, len)))
  /\ UNCHANGED ctx

StreamNext ==
  \/ Begin
  \/ \E len \in PieceLens : Update(len)
  \/ Final
  \/ \E len \in PieceLens : OneShot(len)

StreamSpec == StreamInit /\ [][StreamNext]_streamVars

------------------------------------------------------------------------------
(* What was absorbed: the chunks compressed and the filled part of the     *)
(* block.                                                                  *)
Absorbed ==
  [k \in 1..ctx.size |->
     IF k <= Len(ctx.chunks) * BlockSize
     THEN ctx.chunks[((k - 1) \div BlockSize) + 1][((k - 1) % BlockSize) + 1]
     ELSE ctx.block[((k - 1) % BlockSize) + 1]]

Hash == INSTANCE HashSpec WITH
  open <- ctx.iv, msg <- Absorbed, digest <- out,
  Lengths <- PieceLens

(* The context implements a streaming hash: the digest depends on the      *)
(* bytes and not on the calls that brought them, with the padding of       *)
(* FIPS 180-4 for every length and nothing left over from the block of an  *)
(* earlier message.                                                        *)
ImplementsHash == Hash!Spec
==============================================================================
