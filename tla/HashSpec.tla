------------------------------ MODULE HashSpec -------------------------------
(***************************************************************************)
(* What a streaming hash promises: the digest is that of the bytes         *)
(* absorbed since the beginning, whatever pieces they came in.  A digest   *)
(* is the sequence of blocks that the compression function is given: two   *)
(* messages have the same digest when their padded blocks are the same.    *)
(***************************************************************************)
EXTENDS Naturals, Sequences

CONSTANTS
  BlockSize,     \* bytes of a block
  LengthSize,    \* bytes of the length field at the end of the padding
  DataByte(_),   \* the byte at a place of the caller's data
  Lengths        \* how many bytes may be absorbed at once

VARIABLES
  open,          \* a hash was begun and not finished
  msg,           \* what was absorbed since
  digest         \* the last digest given

specVars == <<open, msg, digest>>

Zeros(k) == [i \in 1..k |-> <<"pad", 0>>]

LengthField(size) == [i \in 1..LengthSize |-> <<"length", size, i>>]

(* FIPS 180-4: the bit 1, the fewest zeros that make whole blocks, and the *)
(* length.                                                                 *)
Padded(m) ==
  LET fits(k) == (Len(m) + 1 + k + LengthSize) % BlockSize = 0
      zeros == CHOOSE k \in 0..(BlockSize - 1) : fits(k)
  IN m \o <<<<"pad", 128>>>> \o Zeros(zeros) \o LengthField(Len(m))

Cut(m) ==
  [b \in 1..(Len(m) \div BlockSize) |->
     SubSeq(m, (b - 1) * BlockSize + 1, b * BlockSize)]

Digest(m) == Cut(Padded(m))

Init == open = FALSE /\ msg = <<>> /\ digest = <<>>

Begin ==
  /\ open' = TRUE
  /\ msg' = <<>>
  /\ UNCHANGED digest

Data(from, len) == [k \in 1..len |-> DataByte(from + k)]

Absorb(len) ==
  /\ open
  /\ msg' = msg \o Data(Len(msg), len)
  /\ UNCHANGED <<open, digest>>

Finish ==
  /\ open
  /\ digest' = Digest(msg)
  /\ open' = FALSE
  /\ msg' = <<>>

AtOnce(len) ==
  /\ digest' = Digest(Data(0, len))
  /\ UNCHANGED <<open, msg>>

Next ==
  \/ Begin
  \/ \E len \in Lengths : Absorb(len)
  \/ Finish
  \/ \E len \in Lengths : AtOnce(len)

Spec == Init /\ [][Next]_specVars
==============================================================================
