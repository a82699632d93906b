---------------------------- MODULE GooHashProofs -----------------------------
(***************************************************************************)
(* Proofs about what the random numbers are made of.  GooSha256Stream      *)
(* implements HashSpec, for blocks and pieces of any size; GooHmac is HMAC *)
(* of whole messages; and of GooDrbg, for any number of generators, seeds  *)
(* and lengths: the stream of a seed is a function of what was asked for,  *)
(* no byte is given twice, and two seeds share none.                       *)
(***************************************************************************)
EXTENDS GooSha256Stream, GooHmac, GooDrbg, SequenceTheorems, WellFoundedInduction, TLAPS

------------------------------------------------------------------------------
(* Lists: sequences of whatever values.                                    *)

List(f, n) == f = [i \in 1..n |-> f[i]]

LEMMA ListIs ==
  ASSUME NEW f, NEW n \in Nat, List(f, n)
  PROVE  Len(f) = n /\ DOMAIN f = 1..n
<1> DEFINE S == {f[i] : i \in 1..n}
<1>1. f \in [1..n -> S]
  BY DEF List
<1> HIDE DEF S
<1>2. f \in Seq(S)
  BY <1>1
<1>3. DOMAIN f = 1..n
  BY <1>1
<1>4. QED
  BY <1>2, <1>3

LEMMA SameLists ==
  ASSUME NEW f, NEW g, NEW n \in Nat, List(f, n), List(g, n), \A i \in 1..n : f[i] = g[i]
  PROVE  f = g
BY DEF List

Joined(f, n, g, k) == [i \in 1..(n + k) |-> IF i <= n THEN f[i] ELSE g[i - n]]

LEMMA ListConcat ==
  ASSUME NEW f, NEW g, NEW n \in Nat, NEW k \in Nat, List(f, n), List(g, k)
  PROVE  f \o g = Joined(f, n, g, k)
<1> DEFINE S == {f[i] : i \in 1..n} \cup {g[i] : i \in 1..k}
<1>1. f \in [1..n -> S] /\ g \in [1..k -> S]
  BY DEF List
<1> HIDE DEF S
<1>2. f \in Seq(S) /\ g \in Seq(S) /\ Len(f) = n /\ Len(g) = k
  BY <1>1
<1> DEFINE h == f \o g
<1>3. h \in Seq(S) /\ Len(h) = n + k
      /\ \A i \in 1..(n + k) : h[i] = IF i <= n THEN f[i] ELSE g[i - n]
  BY <1>2, ConcatProperties
<1> HIDE DEF h
<1>4. h \in [1..(n + k) -> S]
  BY <1>3, LenProperties
<1>5. QED
  BY <1>3, <1>4 DEF h, Joined

Longer(f, n, x) == [i \in 1..(n + 1) |-> IF i <= n THEN f[i] ELSE x]

LEMMA ListAppend ==
  ASSUME NEW f, NEW n \in Nat, List(f, n), NEW x
  PROVE  Append(f, x) = Longer(f, n, x)
<1> DEFINE S == {f[i] : i \in 1..n} \cup {x}
<1>1. f \in [1..n -> S] /\ x \in S
  BY DEF List
<1> HIDE DEF S
<1>2. f \in Seq(S) /\ Len(f) = n
  BY <1>1
<1> DEFINE h == Append(f, x)
<1>3. h \in Seq(S) /\ Len(h) = n + 1 /\ (\A i \in 1..n : h[i] = f[i]) /\ h[n + 1] = x
  BY <1>1, <1>2
<1> HIDE DEF h
<1>4. h \in [1..(n + 1) -> S]
  BY <1>3, LenProperties
<1>5. \A i \in 1..(n + 1) : i <= n => i \in 1..n
  OBVIOUS
<1>6. \A i \in 1..(n + 1) : ~(i <= n) => i = n + 1
  OBVIOUS
<1>7. \A i \in 1..(n + 1) : h[i] = Longer(f, n, x)[i]
  BY <1>3, <1>5, <1>6 DEF Longer
<1>8. QED
  BY <1>4, <1>7 DEF Longer, h

Part(f, a, b) == [i \in 1..(b - a + 1) |-> f[a + i - 1]]

LEMMA ListSub ==
  ASSUME NEW f, NEW a \in Int, NEW b \in Int, a <= b
  PROVE  SubSeq(f, a, b) = Part(f, a, b)
<1> DEFINE S == {f[i] : i \in a..b}
<1>1. \A i \in a..b : f[i] \in S
  OBVIOUS
<1> HIDE DEF S
<1> DEFINE h == SubSeq(f, a, b)
<1>2. h \in Seq(S) /\ Len(h) = b - a + 1 /\ \A i \in 1..(b - a + 1) : h[i] = f[a + i - 1]
  BY <1>1, SubSeqProperties
<1> HIDE DEF h
<1>3. h \in [1..(b - a + 1) -> S]
  BY <1>2, LenProperties
<1>4. QED
  BY <1>2, <1>3 DEF Part, h

(* Quotient and remainder.                                                 *)
LEMMA Euclid ==
  ASSUME NEW B \in Nat, B > 0, NEW n \in Nat
  PROVE  /\ n \div B \in Nat /\ n % B \in Nat /\ n % B < B
         /\ n = (n \div B) * B + (n % B)
BY SMT

LEMMA Quotient ==
  ASSUME NEW B \in Nat, B > 0, NEW q \in Nat, NEW r \in Nat, r < B
  PROVE  (q * B + r) \div B = q /\ (q * B + r) % B = r
<1> DEFINE n == q * B + r
           p == n \div B
           s == n % B
<1>1. n \in Nat
  BY SMT DEF n
<1>2. p \in Nat /\ s \in Nat /\ s < B /\ n = p * B + s
  BY <1>1, Euclid
<1> HIDE DEF p, s
<1>3. \A u, v \in Int : u < v => (v - u) * B >= B
  BY SMT
<1>4. \A u, v \in Int : (v - u) * B = v * B - u * B
  BY SMT
<1>5. p = q
  <2>1. p * B \in Int /\ q * B \in Int /\ p * B + s = q * B + r
    BY <1>2
  <2>2. ~(p < q)
    BY <1>2, <1>3, <1>4, <2>1
  <2>3. ~(q < p)
    BY <1>2, <1>3, <1>4, <2>1
  <2>4. QED
    BY <1>2, <2>2, <2>3
<1>6. s = r
  BY <1>2, <1>5
<1>7. QED
  BY <1>5, <1>6 DEF p, s

------------------------------------------------------------------------------
(* What a context has absorbed.                                            *)

Blocks(m, count) ==
  [b \in 1..count |-> [i \in 1..BlockSize |-> m[(b - 1) * BlockSize + i]]]

(* The whole blocks of m are compressed, the rest is in the block.         *)
Holds(c, m, n) ==
  /\ DOMAIN c = {"iv", "chunks", "block", "size"}
  /\ c.size = n
  /\ c.chunks = Blocks(m, n \div BlockSize)
  /\ List(c.block, BlockSize)
  /\ \A i \in 1..(n % BlockSize) : c.block[i] = m[(n \div BlockSize) * BlockSize + i]

LEMMA BlockSizeIs == BlockSize \in Nat /\ BlockSize > 0 /\ LengthSize \in Nat /\ LengthSize > 0
BY Sha256Assumption DEF Sha256Assumption

LEMMA ContextFields ==
  ASSUME NEW c, DOMAIN c = {"iv", "chunks", "block", "size"}, NEW x, NEW y, NEW z
  PROVE  /\ DOMAIN [c EXCEPT !.size = x, !.block = y] = DOMAIN c
         /\ [c EXCEPT !.size = x, !.block = y].size = x
         /\ [c EXCEPT !.size = x, !.block = y].block = y
         /\ [c EXCEPT !.size = x, !.block = y].chunks = c.chunks
         /\ [c EXCEPT !.size = x, !.block = y].iv = c.iv
         /\ DOMAIN [c EXCEPT !.size = x, !.chunks = z, !.block = y] = DOMAIN c
         /\ [c EXCEPT !.size = x, !.chunks = z, !.block = y].size = x
         /\ [c EXCEPT !.size = x, !.chunks = z, !.block = y].block = y
         /\ [c EXCEPT !.size = x, !.chunks = z, !.block = y].chunks = z
         /\ [c EXCEPT !.size = x, !.chunks = z, !.block = y].iv = c.iv
OBVIOUS

LEMMA ZeroDigits == 0 \div BlockSize = 0 /\ 0 % BlockSize = 0
<1>1. 0 \in Nat /\ 0 < BlockSize /\ 0 * BlockSize + 0 = 0
  BY BlockSizeIs
<1>2. QED
  BY <1>1, BlockSizeIs, Quotient

LEMMA NoBlocks == ASSUME NEW m PROVE Blocks(m, 0) = <<>>
BY DEF Blocks

LEMMA InitHolds ==
  ASSUME NEW block, List(block, BlockSize), NEW m
  PROVE  Holds(Sha256Init(block), m, 0)
<1>1. Sha256Init(block).size = 0 /\ Sha256Init(block).chunks = <<>> /\ Sha256Init(block).block = block
      /\ DOMAIN Sha256Init(block) = {"iv", "chunks", "block", "size"}
  BY DEF Sha256Init
<1>2. QED
  BY <1>1, ZeroDigits, NoBlocks DEF Holds

Continues(m, q, data, off, count) ==
  \A b \in 1..count, i \in 1..BlockSize :
    m[(q + b - 1) * BlockSize + i] = data[off + (b - 1) * BlockSize + i]

(* The whole blocks of data from off on follow the blocks compressed.      *)
LEMMA MoreBlocks ==
  ASSUME NEW chunks, NEW m, NEW q \in Nat, chunks = Blocks(m, q),
         NEW data, NEW off \in Nat, NEW count \in Nat,
         Continues(m, q, data, off, count)
  PROVE  Transformed(chunks, data, off, count) = Blocks(m, q + count)
<1> DEFINE more == [b \in 1..count |-> Chunk(data, off + (b - 1) * BlockSize)]
<1>1. List(chunks, q)
  BY DEF List, Blocks
<1>2. List(more, count)
  BY DEF List
<1>3. ASSUME NEW b \in 1..count
      PROVE  more[b] = [i \in 1..BlockSize |-> m[(q + b - 1) * BlockSize + i]]
  <2> DEFINE o == off + (b - 1) * BlockSize
  <2>1. o \in Nat
    BY BlockSizeIs
  <2>2. \A i \in 1..BlockSize : m[(q + b - 1) * BlockSize + i] = data[o + i]
    BY DEF Continues
  <2>3. more[b] = SubSeq(data, o + 1, o + BlockSize)
    BY DEF Chunk
  <2> HIDE DEF o, more
  <2>4. SubSeq(data, o + 1, o + BlockSize)
        = [i \in 1..((o + BlockSize) - (o + 1) + 1) |-> data[(o + 1) + i - 1]]
    <3>1. o + 1 \in Int /\ o + BlockSize \in Int /\ o + 1 <= o + BlockSize
      BY <2>1, BlockSizeIs
    <3>2. SubSeq(data, o + 1, o + BlockSize) = Part(data, o + 1, o + BlockSize)
      BY <3>1, ListSub
    <3>3. QED
      BY <3>2 DEF Part
  <2>5. (o + BlockSize) - (o + 1) + 1 = BlockSize
    BY <2>1, BlockSizeIs
  <2>6. \A i \in 1..BlockSize : (o + 1) + i - 1 = o + i
    BY <2>1, BlockSizeIs
  <2>7. QED
    BY <2>2, <2>3, <2>4, <2>5, <2>6
<1> HIDE DEF more
<1>4. chunks \o more = [b \in 1..(q + count) |-> IF b <= q THEN chunks[b] ELSE more[b - q]]
  <2>1. chunks \o more = Joined(chunks, q, more, count)
    BY <1>1, <1>2, ListConcat
  <2>2. QED
    BY <2>1 DEF Joined
<1>5. ASSUME NEW b \in 1..(q + count), ~(b <= q)
      PROVE  more[b - q] = [i \in 1..BlockSize |-> m[(b - 1) * BlockSize + i]]
  <2>1. b - q \in 1..count /\ q + (b - q) = b
    BY <1>5
  <2>2. more[b - q] = [i \in 1..BlockSize |-> m[(q + (b - q) - 1) * BlockSize + i]]
    BY <1>3, <2>1
  <2>3. QED
    BY <2>1, <2>2
<1>6. chunks \o more = Blocks(m, q + count)
  <2>1. \A b \in 1..(q + count) : b <= q => b \in 1..q
    OBVIOUS
  <2>2. QED
    BY <1>4, <1>5, <2>1 DEF Blocks
<1>7. QED
  BY <1>6 DEF Transformed, more

(* Filling the block.                                                      *)
LEMMA CopiedIs ==
  ASSUME NEW block, NEW pos, NEW data, NEW off, NEW want
  PROVE  /\ List(Copied(block, pos, data, off, want), BlockSize)
         /\ \A i \in 1..BlockSize :
              Copied(block, pos, data, off, want)[i]
              = IF pos < i /\ i <= pos + want THEN data[off + i - pos] ELSE block[i]
BY DEF Copied, List

(* goo_sha256_update absorbs the bytes it is given, wherever it was.       *)
LEMMA UpdateHolds ==
  ASSUME NEW c, NEW m, NEW n \in Nat, List(m, n), Holds(c, m, n),
         NEW data, NEW k \in Nat, List(data, k)
  PROVE  Holds(Sha256Update(c, data), m \o data, n + k) /\ Sha256Update(c, data).iv = c.iv
<1> DEFINE B == BlockSize
           q == n \div B
           p == n % B
           M == m \o data
           space == IF p > 0 THEN B - p ELSE 0
           want == IF space > k THEN k ELSE space
           filled == Copied(c.block, p, data, 0, want)
           first == IF p > 0 THEN Append(c.chunks, filled) ELSE c.chunks
           whole == (k - want) \div B
           off == want + whole * B
           r == (k - want) % B
           next == Sha256Update(c, data)
<1>1. B \in Nat /\ B > 0
  BY BlockSizeIs
<1>2. q \in Nat /\ p \in Nat /\ p < B /\ n = q * B + p
  BY <1>1, Euclid
<1>3. M = [i \in 1..(n + k) |-> IF i <= n THEN m[i] ELSE data[i - n]]
  <2>1. M = Joined(m, n, data, k)
    BY ListConcat DEF M
  <2>2. QED
    BY <2>1 DEF Joined
<1>4. /\ DOMAIN c = {"iv", "chunks", "block", "size"} /\ c.size = n /\ c.chunks = Blocks(m, q)
      /\ List(c.block, B) /\ \A i \in 1..p : c.block[i] = m[q * B + i]
  BY DEF Holds
<1>5. Len(data) = k
  BY ListIs
<1>6. next = IF want < space
               THEN [c EXCEPT !.size = n + k, !.block = filled]
               ELSE [c EXCEPT !.size = n + k, !.chunks = Transformed(first, data, want, whole),
                              !.block = Copied(filled, 0, data, off, k - off)]
  BY <1>4, <1>5 DEF Sha256Update
<1>7. /\ List(filled, B)
      /\ \A i \in 1..B : filled[i] = IF p < i /\ i <= p + want THEN data[0 + i - p] ELSE c.block[i]
  BY CopiedIs
<1> HIDE DEF B, q, p, M, filled, next, first, whole, r
<1>8. space \in Nat /\ want \in Nat /\ want <= k /\ want <= space /\ k - want \in Nat
  BY <1>1, <1>2
<1>9. \A b \in 1..q, i \in 1..B : (b - 1) * B + i \in 1..(q * B)
  <2>1. SUFFICES ASSUME NEW b \in 1..q, NEW i \in 1..B PROVE (b - 1) * B + i \in 1..(q * B)
    OBVIOUS
  <2>2. (b - 1) * B >= 0 /\ (b - 1) * B \in Int /\ (q - b) * B >= 0 /\ (q - b) * B \in Int
    BY <1>1, <1>2
  <2>3. q * B = (b - 1) * B + (q - b) * B + B /\ q * B \in Int
    BY <1>1, <1>2
  <2>4. QED
    BY <1>1, <2>2, <2>3
<1>10. q * B \in Nat
  BY <1>1, <1>2
<1>11. c.chunks = Blocks(M, q)
  <2>1. \A j \in 1..(q * B) : M[j] = m[j]
    BY <1>2, <1>3, <1>10
  <2>2. \A b \in 1..q, i \in 1..B : M[(b - 1) * B + i] = m[(b - 1) * B + i]
    BY <1>9, <2>1
  <2>3. QED
    BY <1>4, <2>2 DEF Blocks, B
<1>12. \A i \in 1..p : filled[i] = M[q * B + i]
  <2>1. SUFFICES ASSUME NEW i \in 1..p PROVE filled[i] = M[q * B + i]
    OBVIOUS
  <2>2. i \in 1..B /\ ~(p < i) /\ q * B + i \in 1..(n + k) /\ q * B + i <= n
    BY <1>1, <1>2, <1>10
  <2>3. filled[i] = m[q * B + i]
    BY <1>4, <1>7, <2>2
  <2>4. QED
    BY <1>3, <2>2, <2>3
<1>13. \A i \in 1..B : p < i /\ i <= p + want => filled[i] = M[q * B + i]
  <2>1. SUFFICES ASSUME NEW i \in 1..B, p < i, i <= p + want PROVE filled[i] = M[q * B + i]
    OBVIOUS
  <2>2. q * B + i \in 1..(n + k) /\ ~(q * B + i <= n) /\ (q * B + i) - n = i - p /\ 0 + i - p = i - p
    BY <1>1, <1>2, <1>8, <1>10, <2>1
  <2>3. filled[i] = data[i - p]
    BY <1>7, <2>1, <2>2
  <2>4. QED
    BY <1>3, <2>2, <2>3
<1>14. CASE want < space
  <2>1. want = k /\ p + k < B
    BY <1>1, <1>2, <1>8, <1>14
  <2>2. n + k = q * B + (p + k) /\ p + k \in Nat
    BY <1>2, <1>10
  <2>3. (n + k) \div B = q /\ (n + k) % B = p + k
    BY <1>1, <1>2, <2>1, <2>2, Quotient
  <2>4. /\ DOMAIN next = DOMAIN c /\ next.size = n + k /\ next.block = filled
        /\ next.chunks = c.chunks /\ next.iv = c.iv
    BY <1>4, <1>6, <1>14, ContextFields
  <2>5. \A i \in 1..(p + k) : filled[i] = M[q * B + i]
    BY <1>1, <1>2, <1>12, <1>13, <2>1
  <2>6. Holds(next, M, n + k)
    BY <1>4, <1>7, <1>11, <2>3, <2>4, <2>5 DEF Holds, B
  <2>7. QED
    BY <2>4, <2>6 DEF next, M
<1>15. CASE ~(want < space)
  <2>1. want = space
    BY <1>8, <1>15
  <2> DEFINE q1 == IF p > 0 THEN q + 1 ELSE q
  <2>2. q1 \in Nat /\ q1 * B = n + want
    BY <1>1, <1>2, <1>10, <2>1
  <2>3. first = Blocks(M, q1)
    <3>1. CASE p > 0
      <4>1. List(c.chunks, q)
        BY <1>4 DEF List, Blocks
      <4>2. /\ List(first, q + 1) /\ first[q + 1] = filled
            /\ \A b \in 1..q : first[b] = c.chunks[b]
        <5>1. first = Append(c.chunks, filled)
          BY <3>1 DEF first
        <5>2. first = Longer(c.chunks, q, filled)
          BY <1>2, <4>1, <5>1, ListAppend
        <5>3. QED
          BY <1>2, <5>2 DEF Longer, List
      <4>3. p + want = B
        BY <1>1, <1>2, <2>1, <3>1
      <4>4. \A i \in 1..B : filled[i] = M[q * B + i]
        BY <1>1, <1>2, <1>12, <1>13, <4>3
      <4>5. filled = [i \in 1..B |-> M[q * B + i]]
        BY <1>7, <4>4 DEF List
      <4>6. \A b \in 1..(q + 1) : b \in 1..q \/ b = q + 1
        BY <1>2
      <4>7. (q + 1) - 1 = q
        BY <1>2
      <4>8. \A b \in 1..(q + 1) : first[b] = [i \in 1..B |-> M[(b - 1) * B + i]]
        <5>1. SUFFICES ASSUME NEW b \in 1..(q + 1)
                       PROVE  first[b] = [i \in 1..B |-> M[(b - 1) * B + i]]
          OBVIOUS
        <5>2. CASE b \in 1..q
          BY <1>11, <4>2, <5>2 DEF Blocks, B
        <5>3. CASE b = q + 1
          BY <4>2, <4>5, <4>7, <5>3
        <5>4. QED
          BY <4>6, <5>2, <5>3
      <4>9. QED
        BY <3>1, <4>2, <4>8 DEF List, Blocks, B
    <3>2. CASE ~(p > 0)
      BY <1>11, <3>2 DEF first
    <3>3. QED
      BY <3>1, <3>2
  <2>4. whole \in Nat /\ r \in Nat /\ r < B /\ k - want = whole * B + r
    BY <1>1, <1>8, Euclid DEF whole, r
  <2>5. whole * B \in Nat
    BY <1>1, <2>4
  <2>6. off \in Nat /\ k - off = r
    BY <1>8, <2>4, <2>5
  <2> HIDE DEF q1, off, want
  <2>7. Transformed(first, data, want, whole) = Blocks(M, q1 + whole)
    <3>1. ASSUME NEW b \in 1..whole, NEW i \in 1..B
          PROVE  M[(q1 + b - 1) * B + i] = data[want + (b - 1) * B + i]
      <4>1. (b - 1) * B \in Int /\ (b - 1) * B >= 0 /\ (whole - b) * B \in Int /\ (whole - b) * B >= 0
        BY <1>1, <2>4
      <4>2. whole * B = (b - 1) * B + (whole - b) * B + B
        BY <1>1, <2>4
      <4>3. (q1 + b - 1) * B = q1 * B + (b - 1) * B
        BY <1>1, <2>2
      <4> DEFINE x == (b - 1) * B
      <4>4. x \in Nat /\ x + B <= whole * B /\ (q1 + b - 1) * B + i = n + (want + x + i)
        BY <1>1, <1>8, <2>2, <4>1, <4>2, <4>3
      <4> HIDE DEF x
      <4>5. want + x + i \in 1..k
        BY <1>1, <1>8, <2>4, <2>5, <4>4
      <4> DEFINE j == n + (want + x + i)
      <4>6. j \in 1..(n + k) /\ ~(j <= n) /\ j - n = want + x + i
        BY <4>5
      <4> HIDE DEF j
      <4>7. M[j] = data[want + x + i]
        BY <1>3, <4>6
      <4>8. QED
        BY <4>4, <4>7 DEF x, j
    <3>2. QED
      <4>1. q1 \in Nat /\ want \in Nat /\ whole \in Nat
        BY <1>8, <2>2, <2>4
      <4>2. Continues(M, q1, data, want, whole)
        BY <3>1 DEF B, Continues
      <4>3. QED
        BY <2>3, <4>1, <4>2, MoreBlocks
  <2>8. n + k = (q1 + whole) * B + r
    <3>1. (q1 + whole) * B = q1 * B + whole * B
      BY <1>1, <2>2, <2>4
    <3>2. QED
      BY <1>8, <2>2, <2>4, <2>5, <3>1
  <2>9. (n + k) \div B = q1 + whole /\ (n + k) % B = r
    <3>1. q1 + whole \in Nat
      BY <2>2, <2>4
    <3>2. QED
      BY <1>1, <2>4, <2>8, <3>1, Quotient
  <2> DEFINE block == Copied(filled, 0, data, off, r)
  <2>10. /\ DOMAIN next = DOMAIN c /\ next.size = n + k /\ next.block = block
         /\ next.chunks = Blocks(M, q1 + whole) /\ next.iv = c.iv
    BY <1>4, <1>6, <1>15, <2>6, <2>7, ContextFields
  <2>11. /\ List(block, B)
         /\ \A i \in 1..B : block[i] = IF 0 < i /\ i <= 0 + r THEN data[off + i - 0] ELSE filled[i]
    BY CopiedIs DEF B
  <2> HIDE DEF block
  <2>12. \A i \in 1..r : block[i] = M[(q1 + whole) * B + i]
    <3>1. SUFFICES ASSUME NEW i \in 1..r PROVE block[i] = M[(q1 + whole) * B + i]
      OBVIOUS
    <3>2. i \in 1..B /\ 0 < i /\ i <= 0 + r /\ off + i - 0 = off + i
      BY <1>1, <2>4, <2>6
    <3>3. block[i] = data[off + i]
      BY <2>11, <3>2
    <3>4. (q1 + whole) * B = n + off
      <4>1. (q1 + whole) * B \in Int
        BY <1>1, <2>2, <2>4
      <4>2. QED
        BY <2>4, <2>6, <2>8, <4>1
    <3> DEFINE j == n + off + i
    <3>5. j \in 1..(n + k) /\ ~(j <= n) /\ j - n = off + i
      BY <2>4, <2>6
    <3> HIDE DEF j
    <3>6. M[j] = data[off + i]
      BY <1>3, <3>5
    <3>7. QED
      BY <3>3, <3>4, <3>6 DEF j
  <2>13. Holds(next, M, n + k)
    BY <1>4, <2>9, <2>10, <2>11, <2>12 DEF Holds, B
  <2>14. QED
    BY <2>10, <2>13 DEF next, M
<1>16. QED
  BY <1>14, <1>15

LEMMA JoinedIs ==
  ASSUME NEW f, NEW g, NEW n, NEW k
  PROVE  List(Joined(f, n, g, k), n + k)
BY DEF List, Joined

(* FIPS 180-4, as in HashSpec.                                             *)
ZerosFor(n) == CHOOSE k \in 0..(BlockSize - 1) : (n + 1 + k + LengthSize) % BlockSize = 0
ZeroBytes(k) == [i \in 1..k |-> <<"pad", 0>>]
PaddedOf(m) ==
  m \o <<<<"pad", 128>>>> \o ZeroBytes(ZerosFor(Len(m))) \o LengthBytes(Len(m))
CutOf(m) ==
  [b \in 1..(Len(m) \div BlockSize) |-> SubSeq(m, (b - 1) * BlockSize + 1, b * BlockSize)]
DigestOf(m) == CutOf(PaddedOf(m))

LEMMA CutIs ==
  ASSUME NEW m, NEW n \in Nat, List(m, n)
  PROVE  CutOf(m) = Blocks(m, n \div BlockSize)
<1>1. Len(m) = n /\ n \div BlockSize \in Nat
  BY ListIs, BlockSizeIs, Euclid
<1>2. ASSUME NEW b \in 1..(n \div BlockSize)
      PROVE  SubSeq(m, (b - 1) * BlockSize + 1, b * BlockSize)
             = [i \in 1..BlockSize |-> m[(b - 1) * BlockSize + i]]
  <2> DEFINE o == (b - 1) * BlockSize
             e == b * BlockSize
  <2>1. o \in Int /\ e = o + BlockSize /\ e \in Int
    BY <1>1, BlockSizeIs
  <2> HIDE DEF o, e
  <2>2. o + 1 \in Int /\ o + 1 <= e
    BY <2>1, BlockSizeIs
  <2>3. SubSeq(m, o + 1, e) = Part(m, o + 1, e)
    BY <2>1, <2>2, ListSub
  <2>4. e - (o + 1) + 1 = BlockSize /\ \A i \in 1..BlockSize : (o + 1) + i - 1 = o + i
    BY <2>1, BlockSizeIs
  <2>5. SubSeq(m, o + 1, e) = [i \in 1..BlockSize |-> m[o + i]]
    BY <2>3, <2>4 DEF Part
  <2>6. QED
    BY <2>5 DEF o, e
<1>3. QED
  BY <1>1, <1>2 DEF CutOf, Blocks

(* The padding of goo_sha256_final makes whole blocks, with the fewest     *)
(* zeros that do.                                                          *)
LEMMA PaddingIs ==
  ASSUME NEW n \in Nat
  PROVE  /\ ZerosFor(n) \in Nat
         /\ PadCount(n % BlockSize) = 1 + ZerosFor(n)
         /\ (n + 1 + ZerosFor(n) + LengthSize) % BlockSize = 0
<1> DEFINE B == BlockSize
           L == LengthSize
           q == n \div B
           p == n % B
           x == 2 * B - L - 1 - p
           t == x \div B
           z == x % B
<1>1. B \in Nat /\ B > 0 /\ L \in Nat /\ L < B
  BY Sha256Assumption DEF Sha256Assumption
<1>2. q \in Nat /\ p \in Nat /\ p < B /\ n = q * B + p
  BY <1>1, Euclid
<1> HIDE DEF B, L, q, p
<1>3. x \in Nat
  BY <1>1, <1>2
<1> HIDE DEF x
<1>4. t \in Nat /\ z \in Nat /\ z < B /\ x = t * B + z
  BY <1>1, <1>3, Euclid
<1> HIDE DEF t, z
<1>5. n + 1 + z + L = (q + 2 - t) * B
  <2>1. (q + 2 - t) * B = q * B + 2 * B - t * B
    BY <1>1, <1>2, <1>4
  <2>2. q * B \in Int /\ t * B \in Int
    BY <1>1, <1>2, <1>4
  <2>3. QED
    BY <1>1, <1>2, <1>4, <2>1, <2>2 DEF x
<1>6. \A u \in Int : u < 0 => u * B < 0
  BY <1>1, SMT
<1>7. q + 2 - t \in Nat
  <2>1. q + 2 - t \in Int
    BY <1>2, <1>4
  <2>2. ~(q + 2 - t < 0)
    BY <1>1, <1>4, <1>5, <1>6, <2>1
  <2>3. QED
    BY <2>1, <2>2
<1> DEFINE fits(k) == (n + 1 + k + L) % B = 0
<1>8. fits(z)
  <2>1. 0 \in Nat /\ 0 < B /\ (q + 2 - t) * B + 0 = (q + 2 - t) * B
    BY <1>1, <1>7
  <2>2. QED
    BY <1>1, <1>5, <1>7, <2>1, Quotient
<1>9. ASSUME NEW k \in 0..(B - 1), fits(k) PROVE k = z
  <2> DEFINE y == n + 1 + k + L
             u == y \div B
             v == q + 2 - t
  <2>1. y \in Nat /\ y % B = 0
    BY <1>1, <1>9
  <2>2. u \in Nat /\ y = u * B + (y % B)
    BY <1>1, <2>1, Euclid
  <2> HIDE DEF u
  <2>3. u * B \in Int /\ v * B \in Int /\ v \in Nat
    BY <1>1, <1>7, <2>2
  <2>4. k - z = u * B - v * B
    BY <1>1, <1>4, <1>5, <2>1, <2>2, <2>3
  <2> HIDE DEF v, y
  <2>5. \A a, b \in Int : a < b => (b - a) * B >= B
    BY <1>1, SMT
  <2>6. \A a, b \in Int : (b - a) * B = b * B - a * B
    BY <1>1, SMT
  <2>7. ~(u < v)
    BY <1>1, <1>4, <2>2, <2>3, <2>4, <2>5, <2>6
  <2>8. ~(v < u)
    BY <1>1, <1>4, <2>2, <2>3, <2>4, <2>5, <2>6
  <2>9. u = v
    BY <2>2, <2>3, <2>7, <2>8
  <2>10. QED
    BY <1>4, <2>3, <2>4, <2>9
<1>10. z \in 0..(B - 1)
  BY <1>1, <1>4
<1> HIDE DEF fits
<1>11. z = CHOOSE k \in 0..(B - 1) : fits(k)
  BY <1>8, <1>9, <1>10
<1>12. z = ZerosFor(n)
  BY <1>11 DEF ZerosFor, fits, B, L
<1>13. PadCount(n % BlockSize) = 1 + z
  BY DEF PadCount, z, x, B, L, p
<1>14. (n + 1 + z + L) % B = 0
  BY <1>8 DEF fits
<1>15. QED
  BY <1>4, <1>12, <1>13, <1>14 DEF B, L

(* goo_sha256_final gives the digest of what was absorbed.                 *)
LEMMA FinalIs ==
  ASSUME NEW c, NEW m, NEW n \in Nat, List(m, n), Holds(c, m, n)
  PROVE  Sha256Final(c) = DigestOf(m)
<1> DEFINE z == ZerosFor(n)
           pad == Pad(1 + z)
           field == LengthBytes(n)
           c1 == Sha256Update(c, pad)
           c2 == Sha256Update(c1, field)
           N == n + (1 + z) + LengthSize
<1>1. z \in Nat /\ PadCount(n % BlockSize) = 1 + z /\ (n + 1 + z + LengthSize) % BlockSize = 0
      /\ LengthSize \in Nat /\ 1 + z \in Nat /\ n + (1 + z) \in Nat
  <2>1. z \in Nat /\ PadCount(n % BlockSize) = 1 + z /\ (n + 1 + z + LengthSize) % BlockSize = 0
    BY PaddingIs
  <2>2. QED
    BY <2>1, BlockSizeIs
<1>2. List(pad, 1 + z) /\ List(field, LengthSize)
  BY DEF Pad, LengthBytes, List
<1>3. c.size = n
  BY DEF Holds
<1>4. Sha256Closed(c) = c2
  BY <1>1, <1>3 DEF Sha256Closed
<1> HIDE DEF z, pad, field, c1, c2
<1>5. Holds(c1, m \o pad, n + (1 + z))
  BY <1>1, <1>2, UpdateHolds DEF c1
<1>6. m \o pad = Joined(m, n, pad, 1 + z) /\ List(m \o pad, n + (1 + z))
  <2>1. m \o pad = Joined(m, n, pad, 1 + z)
    BY <1>1, <1>2, ListConcat
  <2>2. QED
    BY <2>1, JoinedIs
<1> DEFINE P == m \o pad
<1>7. Holds(c1, P, n + (1 + z)) /\ List(P, n + (1 + z))
  BY <1>5, <1>6
<1> HIDE DEF P
<1>8. Holds(c2, P \o field, N)
  BY <1>1, <1>2, <1>7, UpdateHolds DEF c2
<1>9. List(P \o field, N)
  <2>1. P \o field = Joined(P, n + (1 + z), field, LengthSize)
    BY <1>1, <1>2, <1>7, ListConcat
  <2>2. QED
    BY <1>1, <2>1, JoinedIs
<1>10. N \in Nat
  BY <1>1
<1>11. P = (m \o <<<<"pad", 128>>>>) \o ZeroBytes(z)
  <2> DEFINE one == <<<<"pad", 128>>>>
             m1 == m \o one
             zb == ZeroBytes(z)
  <2>1. List(one, 1) /\ one[1] = <<"pad", 128>>
    BY DEF List
  <2> HIDE DEF one
  <2>2. m1 = Joined(m, n, one, 1)
    BY <2>1, ListConcat
  <2>3. List(m1, n + 1)
    BY <2>2, JoinedIs
  <2>4. (\A i \in 1..n : m1[i] = m[i]) /\ m1[n + 1] = <<"pad", 128>>
    <3>1. \A i \in 1..(n + 1) : m1[i] = IF i <= n THEN m[i] ELSE one[i - n]
      BY <2>2 DEF Joined
    <3>2. m1[n + 1] = one[1]
      <4>1. n + 1 \in 1..(n + 1) /\ ~(n + 1 <= n) /\ (n + 1) - n = 1
        OBVIOUS
      <4>2. QED
        BY <3>1, <4>1
    <3>3. \A i \in 1..n : i \in 1..(n + 1) /\ i <= n
      OBVIOUS
    <3>4. QED
      BY <2>1, <3>1, <3>2, <3>3
  <2>5. List(zb, z) /\ \A i \in 1..z : zb[i] = <<"pad", 0>>
    BY DEF List, ZeroBytes
  <2> HIDE DEF m1, zb
  <2>6. m1 \o zb = Joined(m1, n + 1, zb, z)
    <3>1. n + 1 \in Nat /\ z \in Nat
      BY <1>1
    <3>2. QED
      BY <2>3, <2>5, <3>1, ListConcat
  <2> DEFINE m2 == Joined(m1, n + 1, zb, z)
  <2>7. /\ List(m2, n + 1 + z)
        /\ \A i \in 1..(n + 1 + z) : m2[i] = IF i <= n + 1 THEN m1[i] ELSE zb[i - (n + 1)]
    BY JoinedIs DEF Joined
  <2> HIDE DEF m2
  <2>8. /\ List(P, n + (1 + z))
        /\ \A i \in 1..(n + (1 + z)) : P[i] = IF i <= n THEN m[i] ELSE pad[i - n]
    BY <1>6, <1>7 DEF P, Joined
  <2>9. \A i \in 1..(1 + z) : pad[i] = IF i = 1 THEN <<"pad", 128>> ELSE <<"pad", 0>>
    BY DEF pad, Pad
  <2>10. ASSUME NEW i \in 1..(n + (1 + z)) PROVE P[i] = m2[i]
    <3>1. i \in 1..(n + 1 + z)
      BY <1>1
    <3>2. CASE i <= n
      <4>1. i \in 1..n /\ i <= n + 1
        BY <3>2
      <4>2. QED
        BY <2>4, <2>7, <2>8, <3>1, <3>2, <4>1
    <3>3. CASE i = n + 1
      <4>1. i <= n + 1 /\ ~(i <= n) /\ i - n = 1 /\ 1 \in 1..(1 + z)
        BY <1>1, <3>3
      <4>2. P[i] = <<"pad", 128>>
        BY <2>8, <2>9, <4>1
      <4>3. QED
        BY <2>4, <2>7, <3>1, <3>3, <4>1, <4>2
    <3>4. CASE i > n + 1
      <4>1. ~(i <= n) /\ ~(i <= n + 1) /\ i - n \in 1..(1 + z) /\ i - n # 1
            /\ i - (n + 1) \in 1..z
        BY <1>1, <3>4
      <4>2. P[i] = <<"pad", 0>>
        BY <2>8, <2>9, <4>1
      <4>3. QED
        BY <2>5, <2>7, <3>1, <4>1, <4>2
    <3>5. QED
      BY <1>1, <3>2, <3>3, <3>4
  <2>11. n + 1 + z = n + (1 + z)
    BY <1>1
  <2>12. P = m2
    BY <2>7, <2>8, <2>10, <2>11 DEF List
  <2>13. QED
    BY <2>6, <2>12 DEF m1, m2, zb, one
<1>12. PaddedOf(m) = P \o field
  BY <1>11, ListIs DEF PaddedOf, z, field
<1>13. CutOf(P \o field) = Blocks(P \o field, N \div BlockSize)
  BY <1>9, <1>10, CutIs
<1>14. c2.chunks = Blocks(P \o field, N \div BlockSize)
  BY <1>8 DEF Holds
<1>15. QED
  BY <1>4, <1>12, <1>13, <1>14 DEF Sha256Final, DigestOf

------------------------------------------------------------------------------
(* The context refines the streaming hash.                                 *)

LEMMA EmptyFirst ==
  ASSUME NEW g, NEW k \in Nat, List(g, k)
  PROVE  List(<<>>, 0) /\ <<>> \o g = g
<1>1. List(<<>>, 0)
  BY DEF List
<1>2. <<>> \o g = Joined(<<>>, 0, g, k)
  BY <1>1, ListConcat
<1>3. \A i \in 1..k : ~(i <= 0) /\ i - 0 = i
  OBVIOUS
<1>4. 0 + k = k
  OBVIOUS
<1>5. Joined(<<>>, 0, g, k) = [i \in 1..k |-> g[i]]
  BY <1>3, <1>4 DEF Joined
<1>6. QED
  BY <1>1, <1>2, <1>5 DEF List

AbsorbedBy(c) ==
  [k \in 1..c.size |->
     IF k <= Len(c.chunks) * BlockSize
     THEN c.chunks[((k - 1) \div BlockSize) + 1][((k - 1) % BlockSize) + 1]
     ELSE c.block[((k - 1) % BlockSize) + 1]]

LEMMA AbsorbedIs ==
  ASSUME NEW c, NEW m, NEW n \in Nat, List(m, n), Holds(c, m, n)
  PROVE  AbsorbedBy(c) = m
<1> DEFINE B == BlockSize
           q == n \div B
           p == n % B
<1>1. B \in Nat /\ B > 0
  BY BlockSizeIs
<1>2. q \in Nat /\ p \in Nat /\ p < B /\ n = q * B + p
  BY <1>1, Euclid
<1>3. /\ c.size = n /\ c.chunks = [b \in 1..q |-> [i \in 1..B |-> m[(b - 1) * B + i]]]
      /\ \A i \in 1..p : c.block[i] = m[q * B + i]
  BY DEF Holds, Blocks
<1>4. List(c.chunks, q)
  BY <1>3 DEF List
<1> HIDE DEF B, q, p
<1>5. Len(c.chunks) = q
  BY <1>2, <1>4, ListIs
<1>6. ASSUME NEW k \in 1..n
      PROVE  m[k] = IF k <= q * B
                    THEN c.chunks[((k - 1) \div B) + 1][((k - 1) % B) + 1]
                    ELSE c.block[((k - 1) % B) + 1]
  <2> DEFINE a == (k - 1) \div B
             s == (k - 1) % B
  <2>1. k - 1 \in Nat
    OBVIOUS
  <2>2. a \in Nat /\ s \in Nat /\ s < B /\ k - 1 = a * B + s
    BY <1>1, <2>1, Euclid
  <2> HIDE DEF a, s
  <2>3. a * B \in Nat /\ q * B \in Nat
    BY <1>1, <1>2, <2>2
  <2>4. CASE k <= q * B
    <3>1. a < q
      <4>1. \A u, v \in Int : u <= v => u * B <= v * B
        BY <1>1, SMT
      <4>2. ~(q <= a)
        BY <1>1, <1>2, <2>2, <2>3, <2>4, <4>1
      <4>3. QED
        BY <1>2, <2>2, <4>2
    <3>2. a + 1 \in 1..q /\ s + 1 \in 1..B /\ (a + 1) - 1 = a
      BY <1>1, <1>2, <2>2, <3>1
    <3>3. c.chunks[a + 1][s + 1] = m[a * B + (s + 1)]
      BY <1>3, <3>2
    <3>4. a * B + (s + 1) = k
      BY <2>2, <2>3
    <3>5. QED
      BY <2>4, <3>3, <3>4 DEF a, s
  <2>5. CASE ~(k <= q * B)
    <3> DEFINE r == k - 1 - q * B
    <3>1. r \in Nat /\ r < p /\ r < B /\ k - 1 = q * B + r
      BY <1>1, <1>2, <2>3, <2>5
    <3> HIDE DEF r
    <3>2. s = r
      <4>1. (q * B + r) % B = r
        BY <1>1, <1>2, <3>1, Quotient
      <4>2. QED
        BY <3>1, <4>1 DEF s
    <3>3. r + 1 \in 1..p /\ q * B + (r + 1) = k
      BY <1>2, <2>3, <3>1
    <3>4. c.block[r + 1] = m[k]
      BY <1>3, <3>3
    <3>5. QED
      BY <2>5, <3>2, <3>4 DEF s
  <2>6. QED
    BY <2>4, <2>5
<1>7. AbsorbedBy(c) = [k \in 1..n |-> m[k]]
  BY <1>3, <1>5, <1>6 DEF AbsorbedBy, B
<1>8. QED
  BY <1>7 DEF List

StreamInv == \E n \in Nat : \E m : List(m, n) /\ Holds(ctx, m, n)

LEMMA HashDigestIs == \A m : Hash!Digest(m) = DigestOf(m)
BY DEF Hash!Digest, Hash!Cut, Hash!Padded, Hash!Zeros, Hash!LengthField,
       DigestOf, CutOf, PaddedOf, ZerosFor, ZeroBytes, LengthBytes

LEMMA PieceIs ==
  ASSUME NEW from, NEW len
  PROVE  List(Piece(from, len), len) /\ Piece(from, len) = Hash!Data(from, len)
BY DEF Piece, List, Hash!Data

LEMMA ClearedHolds ==
  /\ Holds(Sha256Cleared, <<>>, 0) /\ List(<<>>, 0) /\ Sha256Cleared.iv = FALSE
  /\ List(Sha256Cleared.block, BlockSize)
<1>1. /\ DOMAIN Sha256Cleared = {"iv", "chunks", "block", "size"}
      /\ Sha256Cleared.size = 0 /\ Sha256Cleared.chunks = <<>>
      /\ Sha256Cleared.iv = FALSE
      /\ Sha256Cleared.block = [k \in 1..BlockSize |-> <<"pad", 0>>]
  BY DEF Sha256Cleared
<1>2. List(Sha256Cleared.block, BlockSize) /\ List(<<>>, 0)
  BY <1>1 DEF List
<1>3. QED
  BY <1>1, <1>2, ZeroDigits, NoBlocks DEF Holds

LEMMA StreamStart ==
  ASSUME StreamInit PROVE StreamInv /\ Absorbed = <<>> /\ ctx.iv = FALSE
<1>1. DOMAIN ctx = {"iv", "chunks", "block", "size"} /\ ctx.size = 0 /\ ctx.chunks = <<>>
      /\ ctx.iv = FALSE /\ ctx.block = Unwritten
  BY DEF StreamInit, Sha256Cleared
<1>2. List(ctx.block, BlockSize) /\ List(<<>>, 0)
  BY <1>1 DEF List, Unwritten
<1>3. Holds(ctx, <<>>, 0)
  BY <1>1, <1>2, ZeroDigits, NoBlocks DEF Holds
<1>4. Absorbed = AbsorbedBy(ctx)
  BY DEF Absorbed, AbsorbedBy
<1>5. QED
  BY <1>1, <1>2, <1>3, <1>4, AbsorbedIs DEF StreamInv

(* What a step leaves behind.                                              *)
LEMMA StreamGoesOn ==
  ASSUME NEW n \in Nat, NEW m, List(m, n), Holds(ctx', m, n)
  PROVE  StreamInv' /\ Absorbed' = m
<1>1. Absorbed' = AbsorbedBy(ctx')
  BY DEF Absorbed, AbsorbedBy
<1>2. QED
  BY <1>1, AbsorbedIs DEF StreamInv

LEMMA StreamStep ==
  ASSUME StreamInv, StreamNext
  PROVE  StreamInv' /\ Hash!Next
<1>1. PICK n \in Nat : \E m : List(m, n) /\ Holds(ctx, m, n)
  BY DEF StreamInv
<1>2. PICK m : List(m, n) /\ Holds(ctx, m, n)
  BY <1>1
<1>3. Absorbed = m /\ ctx.size = n /\ Len(m) = n
  <2>1. Absorbed = AbsorbedBy(ctx)
    BY DEF Absorbed, AbsorbedBy
  <2>2. QED
    BY <1>2, <2>1, AbsorbedIs, ListIs DEF Holds
<1>4. CASE Begin
  <2>1. ctx' = Sha256Init(ctx.block) /\ out' = out
    BY <1>4 DEF Begin
  <2>2. List(ctx.block, BlockSize)
    BY <1>2 DEF Holds
  <2>3. Holds(ctx', <<>>, 0) /\ List(<<>>, 0) /\ ctx'.iv = TRUE
    BY <2>1, <2>2, InitHolds, ClearedHolds DEF Sha256Init
  <2>4. StreamInv' /\ Absorbed' = <<>>
    BY <2>3, StreamGoesOn
  <2>5. Hash!Begin
    BY <2>1, <2>3, <2>4 DEF Hash!Begin
  <2>6. QED
    BY <2>4, <2>5 DEF Hash!Next
<1>5. CASE \E len \in PieceLens : Update(len)
  <2>1. PICK len \in PieceLens : Update(len)
    BY <1>5
  <2>2. len \in Nat
    BY StreamAssumption DEF StreamAssumption
  <2> DEFINE piece == Piece(n, len)
  <2>3. ctx.iv /\ ctx' = Sha256Update(ctx, piece) /\ out' = out
    BY <1>3, <2>1 DEF Update
  <2>4. List(piece, len) /\ piece = Hash!Data(Len(m), len)
    BY <1>3, PieceIs
  <2> HIDE DEF piece
  <2>5. Holds(ctx', m \o piece, n + len) /\ ctx'.iv = ctx.iv
    BY <1>2, <2>2, <2>3, <2>4, UpdateHolds
  <2>6. List(m \o piece, n + len) /\ n + len \in Nat
    <3>1. m \o piece = Joined(m, n, piece, len)
      BY <1>2, <2>2, <2>4, ListConcat
    <3>2. QED
      BY <2>2, <3>1, JoinedIs
  <2>7. StreamInv' /\ Absorbed' = m \o piece
    BY <2>5, <2>6, StreamGoesOn
  <2>8. Absorbed' = Absorbed \o Hash!Data(Len(Absorbed), len)
    BY <1>3, <2>4, <2>7
  <2>9. Hash!Absorb(len)
    BY <2>3, <2>5, <2>8 DEF Hash!Absorb
  <2>10. QED
    BY <2>7, <2>9 DEF Hash!Next
<1>6. CASE Final
  <2>1. ctx.iv /\ out' = Sha256Final(ctx) /\ ctx' = Sha256Cleared
    BY <1>6 DEF Final
  <2>2. out' = Hash!Digest(Absorbed)
    BY <1>2, <1>3, <2>1, FinalIs, HashDigestIs
  <2>3. StreamInv' /\ Absorbed' = <<>> /\ ctx'.iv = FALSE
    BY <2>1, ClearedHolds, StreamGoesOn
  <2>4. Hash!Finish
    BY <2>1, <2>2, <2>3 DEF Hash!Finish
  <2>5. QED
    BY <2>3, <2>4 DEF Hash!Next
<1>7. CASE \E len \in PieceLens : OneShot(len)
  <2>1. PICK len \in PieceLens : OneShot(len)
    BY <1>7
  <2>2. len \in Nat
    BY StreamAssumption DEF StreamAssumption
  <2> DEFINE piece == Piece(0, len)
             own == Sha256Init(Unwritten)
  <2>3. out' = Sha256Final(Sha256Update(own, piece)) /\ ctx' = ctx
    BY <2>1 DEF OneShot
  <2>4. List(piece, len) /\ piece = Hash!Data(0, len) /\ List(Unwritten, BlockSize)
    BY PieceIs DEF Unwritten, List
  <2> HIDE DEF piece
  <2>5. Holds(own, <<>>, 0)
    BY <2>4, InitHolds
  <2> HIDE DEF own
  <2>6. List(<<>>, 0) /\ <<>> \o piece = piece /\ 0 + len = len
    BY <2>2, <2>4, EmptyFirst
  <2>7. Holds(Sha256Update(own, piece), <<>> \o piece, 0 + len)
    BY <2>2, <2>4, <2>5, <2>6, UpdateHolds
  <2>8. Holds(Sha256Update(own, piece), piece, len)
    BY <2>6, <2>7
  <2>9. out' = Hash!Digest(Hash!Data(0, len))
    BY <2>2, <2>3, <2>4, <2>8, FinalIs, HashDigestIs
  <2>10. Absorbed' = Absorbed /\ StreamInv'
    BY <2>3 DEF Absorbed, StreamInv
  <2>11. Hash!AtOnce(len)
    BY <2>3, <2>9, <2>10 DEF Hash!AtOnce
  <2>12. QED
    BY <2>10, <2>11 DEF Hash!Next
<1>8. QED
  BY <1>4, <1>5, <1>6, <1>7 DEF StreamNext

(* A context in use is a streaming hash: whatever the pieces, the digest   *)
(* is that of FIPS 180-4 of the bytes absorbed, for any size of block and  *)
(* of length field and pieces of any length.                               *)
THEOREM ContextImplementsHash == StreamSpec => ImplementsHash
<1>1. StreamInit => StreamInv /\ Hash!Init
  BY StreamStart DEF StreamInit, Hash!Init
<1>2. StreamInv /\ [StreamNext]_streamVars => StreamInv' /\ [Hash!Next]_(Hash!specVars)
  <2>1. SUFFICES ASSUME StreamInv, [StreamNext]_streamVars
                 PROVE  StreamInv' /\ [Hash!Next]_(Hash!specVars)
    OBVIOUS
  <2>2. CASE StreamNext
    BY <2>1, <2>2, StreamStep
  <2>3. CASE UNCHANGED streamVars
    <3>1. ctx' = ctx /\ out' = out
      BY <2>3 DEF streamVars
    <3>2. StreamInv' /\ Absorbed' = Absorbed
      BY <2>1, <3>1 DEF StreamInv, Absorbed
    <3>3. UNCHANGED Hash!specVars
      BY <3>1, <3>2 DEF Hash!specVars
    <3>4. QED
      BY <3>2, <3>3
  <2>4. QED
    BY <2>1, <2>2, <2>3
<1>3. QED
  BY <1>1, <1>2, PTL DEF StreamSpec, ImplementsHash, Hash!Spec

------------------------------------------------------------------------------
(* HMAC.                                                                   *)

LEMMA EmptyLast ==
  ASSUME NEW f, NEW n \in Nat, List(f, n)
  PROVE  f \o <<>> = f
<1>1. List(<<>>, 0)
  BY DEF List
<1>2. f \o <<>> = Joined(f, n, <<>>, 0)
  BY <1>1, ListConcat
<1>3. n + 0 = n /\ \A i \in 1..n : i <= n
  OBVIOUS
<1>4. Joined(f, n, <<>>, 0) = [i \in 1..n |-> f[i]]
  BY <1>3 DEF Joined
<1>5. QED
  BY <1>2, <1>4 DEF List

LEMMA ListAssoc ==
  ASSUME NEW f, NEW g, NEW h, NEW n \in Nat, NEW k \in Nat, NEW l \in Nat,
         List(f, n), List(g, k), List(h, l)
  PROVE  (f \o g) \o h = f \o (g \o h)
<1> DEFINE S == {f[i] : i \in 1..n} \cup {g[i] : i \in 1..k} \cup {h[i] : i \in 1..l}
<1>1. f \in [1..n -> S] /\ g \in [1..k -> S] /\ h \in [1..l -> S]
  BY DEF List
<1> HIDE DEF S
<1>2. f \in Seq(S) /\ g \in Seq(S) /\ h \in Seq(S)
  BY <1>1
<1>3. QED
  BY <1>2, ConcatAssociative

ListOf(f) == \E n \in Nat : List(f, n)

LEMMA ListOfIs ==
  ASSUME NEW f, ListOf(f)
  PROVE  Len(f) \in Nat /\ List(f, Len(f))
<1>1. PICK n \in Nat : List(f, n)
  BY DEF ListOf
<1>2. QED
  BY <1>1, ListIs

LEMMA WholeDigestIs == \A m : Whole!Digest(m) = DigestOf(m)
BY DEF Whole!Digest, Whole!Cut, Whole!Padded, Whole!Zeros, Whole!LengthField,
       DigestOf, CutOf, PaddedOf, ZerosFor, ZeroBytes, LengthBytes

LEMMA XoredIs ==
  ASSUME NEW k, NEW pad
  PROVE  List(Xored(k, pad), BlockSize)
BY DEF Xored, List

LEMMA KeyBlockIs ==
  ASSUME NEW k, NEW pad, ListOf(k)
  PROVE  KeyBlock(k, pad) = Xored(k, pad)
<1>1. PICK n \in Nat : List(k, n)
  BY DEF ListOf
<1>2. Len(k) = n /\ DOMAIN k = 1..n
  BY <1>1, ListIs
<1>3. \A i \in 1..BlockSize : i <= Len(k) <=> i \in DOMAIN k
  BY <1>2, BlockSizeIs
<1>4. QED
  BY <1>3 DEF KeyBlock, Xored

LEMMA DigestBytesIs == \A x : List(DigestBytes(x), HashSize)
BY DEF DigestBytes, List

(* The contexts are lists of bytes ahead: the inner one has absorbed the   *)
(* key and the message so far, the outer one the key.                      *)
MacInv ==
  /\ ListOf(buffer) /\ ListOf(message)
  /\ List(inner.block, BlockSize) /\ List(outer.block, BlockSize)
  /\ active => /\ Holds(inner, Xored(key, 54) \o message, BlockSize + Len(message))
               /\ Holds(outer, Xored(key, 92), BlockSize)
  /\ MacIsHmac

LEMMA MacStart == ASSUME MacInit PROVE MacInv
<1>1. PICK len \in KeyLens : buffer = KeyBytes(len)
  BY DEF MacInit
<1>2. len \in Nat
  BY HmacAssumption, BlockSizeIs DEF HmacAssumption
<1>3. ListOf(buffer)
  BY <1>1, <1>2 DEF ListOf, KeyBytes, List
<1>4. ListOf(message)
  <2>1. message = <<>>
    BY DEF MacInit
  <2>2. List(<<>>, 0) /\ 0 \in Nat
    BY DEF List
  <2>3. QED
    BY <2>1, <2>2 DEF ListOf
<1>5. List(inner.block, BlockSize) /\ List(outer.block, BlockSize)
  BY ClearedHolds DEF MacInit
<1>6. MacIsHmac
  BY DEF MacInit, MacIsHmac
<1>7. ~active
  BY DEF MacInit
<1>8. QED
  BY <1>3, <1>4, <1>5, <1>6, <1>7 DEF MacInv

LEMMA MacInitStep == ASSUME MacInv, HmacInit PROVE MacInv'
<1>1. /\ inner' = Sha256Update(Sha256Init(inner.block), KeyBlock(buffer, 54))
      /\ outer' = Sha256Update(Sha256Init(outer.block), KeyBlock(buffer, 92))
      /\ key' = buffer /\ message' = <<>> /\ buffer' = buffer /\ mac' = mac
  BY DEF HmacInit
<1>2. KeyBlock(buffer, 54) = Xored(buffer, 54) /\ KeyBlock(buffer, 92) = Xored(buffer, 92)
  BY KeyBlockIs DEF MacInv
<1>3. ASSUME NEW block, List(block, BlockSize), NEW x, List(x, BlockSize)
      PROVE  Holds(Sha256Update(Sha256Init(block), x), x, BlockSize)
  <2>1. List(<<>>, 0) /\ <<>> \o x = x /\ 0 + BlockSize = BlockSize /\ 0 \in Nat
    BY <1>3, BlockSizeIs, EmptyFirst
  <2>2. Holds(Sha256Init(block), <<>>, 0)
    BY <1>3, InitHolds
  <2>3. Holds(Sha256Update(Sha256Init(block), x), <<>> \o x, 0 + BlockSize)
    BY <1>3, <2>1, <2>2, BlockSizeIs, UpdateHolds
  <2>4. QED
    BY <2>1, <2>3
<1>4. Holds(inner', Xored(buffer, 54), BlockSize) /\ Holds(outer', Xored(buffer, 92), BlockSize)
  BY <1>1, <1>2, <1>3, XoredIs DEF MacInv
<1>5. Xored(buffer, 54) \o <<>> = Xored(buffer, 54)
  BY XoredIs, BlockSizeIs, EmptyLast
<1>6. List(<<>>, 0) /\ Len(<<>>) = 0 /\ BlockSize + 0 = BlockSize
  BY BlockSizeIs DEF List
<1>7. Holds(inner', Xored(key', 54) \o message', BlockSize + Len(message'))
  BY <1>1, <1>4, <1>5, <1>6
<1>8. Holds(outer', Xored(key', 92), BlockSize)
  BY <1>1, <1>4
<1>9. List(inner'.block, BlockSize) /\ List(outer'.block, BlockSize)
  BY <1>4 DEF Holds
<1>10. ListOf(buffer') /\ ListOf(message')
  BY <1>1, <1>6 DEF MacInv, ListOf
<1>11. MacIsHmac'
  BY <1>1 DEF MacInv, MacIsHmac
<1>12. QED
  BY <1>7, <1>8, <1>9, <1>10, <1>11 DEF MacInv

LEMMA MacUpdateStep ==
  ASSUME MacInv, NEW len \in MessageLens, HmacUpdate(len) PROVE MacInv'
<1> DEFINE piece == [k \in 1..len |-> MessageByte(Len(message) + k)]
           x == Xored(key, 54)
           n == Len(message)
<1>1. len \in Nat
  BY HmacAssumption DEF HmacAssumption
<1>2. /\ active /\ active' = active /\ inner' = Sha256Update(inner, piece)
      /\ message' = message \o piece
      /\ outer' = outer /\ key' = key /\ buffer' = buffer /\ mac' = mac
  BY DEF HmacUpdate
<1>3. List(piece, len)
  BY DEF List
<1> HIDE DEF piece
<1>4. List(x, BlockSize) /\ n \in Nat /\ List(message, n) /\ BlockSize \in Nat
  BY XoredIs, ListOfIs, BlockSizeIs DEF MacInv
<1>5. Holds(inner, x \o message, BlockSize + n)
  BY <1>2 DEF MacInv
<1> HIDE DEF x, n
<1>6. List(x \o message, BlockSize + n) /\ BlockSize + n \in Nat
  <2>1. x \o message = Joined(x, BlockSize, message, n)
    BY <1>4, ListConcat
  <2>2. QED
    BY <1>4, <2>1, JoinedIs
<1>7. Holds(inner', (x \o message) \o piece, (BlockSize + n) + len)
  BY <1>1, <1>2, <1>3, <1>5, <1>6, UpdateHolds
<1>8. (x \o message) \o piece = x \o message'
  BY <1>1, <1>2, <1>3, <1>4, ListAssoc
<1>9. List(message', n + len) /\ Len(message') = n + len
  <2>1. message' = Joined(message, n, piece, len)
    BY <1>1, <1>2, <1>3, <1>4, ListConcat
  <2>2. List(message', n + len) /\ n + len \in Nat
    BY <1>1, <1>4, <2>1, JoinedIs
  <2>3. QED
    BY <2>2, ListIs
<1>10. (BlockSize + n) + len = BlockSize + Len(message')
  BY <1>1, <1>4, <1>9
<1>11. Holds(inner', Xored(key', 54) \o message', BlockSize + Len(message'))
  BY <1>2, <1>7, <1>8, <1>10 DEF x
<1>12. List(inner'.block, BlockSize)
  BY <1>7 DEF Holds
<1>13. n + len \in Nat
  BY <1>1, <1>4
<1>14. ListOf(message')
  BY <1>9, <1>13 DEF ListOf
<1>15. MacIsHmac'
  BY <1>2 DEF MacInv, MacIsHmac
<1>16. QED
  BY <1>2, <1>11, <1>12, <1>14, <1>15 DEF MacInv

LEMMA MacFinalStep == ASSUME MacInv, HmacFinal PROVE MacInv'
<1> DEFINE digest == InnerDigest
           whole == DigestBytes(Sha256Final(Sha256Update(outer, digest)))
           x == Xored(key, 54)
           y == Xored(key, 92)
           n == Len(message)
<1>1. /\ active /\ inner' = Sha256Cleared /\ outer' = Sha256Cleared /\ active' = FALSE
      /\ buffer' = whole /\ mac' = [tag |-> whole, key |-> key, message |-> message]
      /\ message' = message
  BY DEF HmacFinal
<1>2. /\ List(x, BlockSize) /\ List(y, BlockSize) /\ n \in Nat /\ List(message, n)
      /\ BlockSize \in Nat /\ HashSize \in Nat
  BY XoredIs, ListOfIs, BlockSizeIs, HmacAssumption DEF MacInv, HmacAssumption
<1>3. Holds(inner, x \o message, BlockSize + n) /\ Holds(outer, y, BlockSize)
  BY <1>1 DEF MacInv
<1> HIDE DEF x, y, n
<1>4. List(x \o message, BlockSize + n) /\ BlockSize + n \in Nat
  <2>1. x \o message = Joined(x, BlockSize, message, n)
    BY <1>2, ListConcat
  <2>2. QED
    BY <1>2, <2>1, JoinedIs
<1>5. digest = DigestBytes(DigestOf(x \o message))
  BY <1>3, <1>4, FinalIs DEF InnerDigest
<1>6. List(digest, HashSize)
  BY <1>5, DigestBytesIs
<1> HIDE DEF digest
<1>7. Holds(Sha256Update(outer, digest), y \o digest, BlockSize + HashSize)
  BY <1>2, <1>3, <1>6, UpdateHolds
<1>8. List(y \o digest, BlockSize + HashSize) /\ BlockSize + HashSize \in Nat
  <2>1. y \o digest = Joined(y, BlockSize, digest, HashSize)
    BY <1>2, <1>6, ListConcat
  <2>2. QED
    BY <1>2, <2>1, JoinedIs
<1>9. whole = DigestBytes(DigestOf(y \o digest))
  BY <1>7, <1>8, FinalIs
<1>10. whole = Reference(key, message)
  BY <1>5, <1>9, WholeDigestIs DEF Reference, x, y
<1>11. List(whole, HashSize)
  BY <1>9, DigestBytesIs
<1> HIDE DEF whole
<1>12. MacIsHmac'
  BY <1>1, <1>10 DEF MacIsHmac, Reference
<1>13. ListOf(buffer') /\ ListOf(message')
  BY <1>1, <1>2, <1>11 DEF ListOf
<1>14. List(inner'.block, BlockSize) /\ List(outer'.block, BlockSize)
  BY <1>1, ClearedHolds
<1>15. QED
  BY <1>1, <1>12, <1>13, <1>14 DEF MacInv

LEMMA MacKeyStep == ASSUME MacInv, NEW len \in KeyLens, NewKey(len) PROVE MacInv'
<1>1. /\ ~active /\ active' = active /\ buffer' = KeyBytes(len)
      /\ UNCHANGED <<inner, outer, key, message, mac>>
  BY DEF NewKey
<1>2. len \in Nat
  BY HmacAssumption, BlockSizeIs DEF HmacAssumption
<1>3. ListOf(buffer')
  BY <1>1, <1>2 DEF ListOf, KeyBytes, List
<1>4. QED
  BY <1>1, <1>3 DEF MacInv, MacIsHmac

(* A result is the MAC of the message under the key: whatever the pieces   *)
(* of the message, for keys of every length up to the block, for a key     *)
(* that the result overwrites or that is a result, and for contexts used   *)
(* before.                                                                 *)
THEOREM MacIsHmacAlways == MacSpec => []MacIsHmac
<1>1. MacInit => MacInv
  BY MacStart
<1>2. MacInv /\ [MacNext]_macVars => MacInv'
  <2>1. SUFFICES ASSUME MacInv, [MacNext]_macVars PROVE MacInv'
    OBVIOUS
  <2>2. CASE MacNext
    BY <2>1, <2>2, MacInitStep, MacUpdateStep, MacFinalStep, MacKeyStep DEF MacNext
  <2>3. CASE UNCHANGED macVars
    BY <2>1, <2>3 DEF macVars, MacInv, MacIsHmac
  <2>4. QED
    BY <2>1, <2>2, <2>3
<1>3. MacInv => MacIsHmac
  BY DEF MacInv
<1>4. QED
  BY <1>1, <1>2, <1>3, PTL DEF MacSpec

------------------------------------------------------------------------------
(* The generators.                                                         *)

(* A set of naturals with 0 that is closed under successor, up to n.       *)
LEMMA UpTo ==
  ASSUME NEW n \in Nat, NEW S, 0 \in S, \A i \in 0..(n - 1) : i \in S => i + 1 \in S
  PROVE  \A i \in 0..n : i \in S
<1>1. SUFFICES ASSUME NEW i \in 0..n, i \notin S PROVE FALSE
  OBVIOUS
<1> DEFINE Out == {j \in Nat : j <= n /\ j \notin S}
<1>2. i \in Out /\ Out \in SUBSET Nat
  BY <1>1
<1>3. PICK j \in Out : \A m \in Out : j <= m
  <2> DEFINE Less == OpToRel(<, Nat)
  <2>1. \A m, j \in Out : <<m, j>> \in Less <=> m < j
    BY DEF OpToRel
  <2>2. \A m, j \in Out : j <= m <=> ~(m < j)
    OBVIOUS
  <2>3. IsWellFoundedOn(Less, Nat)
    BY NatLessThanWellFounded
  <2> HIDE DEF Out, Less
  <2>4. \E j \in Out : \A m \in Out : <<m, j>> \notin Less
    BY <1>2, <2>3, WFMin
  <2>5. QED
    BY <2>1, <2>2, <2>4
<1>4. j \in Nat /\ j <= n /\ j \notin S /\ j # 0
  BY <1>3
<1>5. j - 1 \in 0..(n - 1) /\ j - 1 \notin Out
  BY <1>3, <1>4
<1>6. j - 1 \in S
  BY <1>4, <1>5
<1>7. (j - 1) + 1 \in S /\ (j - 1) + 1 = j
  BY <1>4, <1>5, <1>6
<1>8. QED
  BY <1>4, <1>7

------------------------------------------------------------------------------
(* The questions put to HMAC.                                              *)

NoDup(qs) == \A i, j \in DOMAIN qs : qs[i] = qs[j] => i = j

(* A question is made of answers, so that it comes after them.             *)
Older(qs) ==
  \A i \in DOMAIN qs : qs[i].key \in 0..(i - 1) /\ qs[i].val \in (-1)..(i - 1)

Extends(qs, rs) == Len(qs) <= Len(rs) /\ \A i \in DOMAIN qs : i \in DOMAIN rs /\ rs[i] = qs[i]

Materials == Seeds \cup {NoSeed}
Questions == [key : Int, val : Int, tag : {"zero", "one", "none"}, mixed : Materials]

AskedOK == asked \in Seq(Questions) /\ NoDup(asked) /\ Older(asked)

(* HMAC of a question that may have been put before.                       *)
LEMMA AnswerIs ==
  ASSUME AskedOK, NEW q \in Questions, Ask(q),
         q.key \in 0..Len(asked), q.val \in (-1)..Len(asked)
  PROVE  /\ AskedOK' /\ Extends(asked, asked')
         /\ Answer(q) \in DOMAIN asked' /\ asked'[Answer(q)] = q
         /\ \A i \in DOMAIN asked' : i \in DOMAIN asked \/ i = Answer(q)
         /\ Answer(q) \in Nat /\ q.key < Answer(q) /\ q.val < Answer(q)
<1>1. asked \in Seq(Questions) /\ Len(asked) \in Nat /\ DOMAIN asked = 1..Len(asked)
      /\ NoDup(asked) /\ Older(asked)
  BY DEF AskedOK
<1>2. asked' = IF Answer(q) > Len(asked) THEN Append(asked, q) ELSE asked
  BY DEF Ask
<1>3. CASE \E i \in DOMAIN asked : asked[i] = q
  <2>1. Answer(q) \in DOMAIN asked /\ asked[Answer(q)] = q
    BY <1>3 DEF Answer
  <2>2. asked' = asked
    <3>1. ~(Answer(q) > Len(asked))
      BY <1>1, <2>1
    <3>2. QED
      BY <1>2, <3>1
  <2>3. AskedOK' /\ Extends(asked, asked')
    BY <1>1, <2>2 DEF AskedOK, Extends
  <2>4. q.key < Answer(q) /\ q.val < Answer(q) /\ Answer(q) \in Nat
    BY <1>1, <2>1 DEF Older
  <2>5. QED
    BY <2>1, <2>2, <2>3, <2>4
<1>4. CASE ~ \E i \in DOMAIN asked : asked[i] = q
  <2>1. Answer(q) = Len(asked) + 1
    BY <1>4 DEF Answer
  <2>2. asked' = Append(asked, q)
    <3>1. Answer(q) > Len(asked)
      BY <1>1, <2>1
    <3>2. QED
      BY <1>2, <3>1
  <2>3. asked' \in Seq(Questions) /\ Len(asked') = Len(asked) + 1
        /\ DOMAIN asked' = 1..(Len(asked) + 1)
        /\ asked'[Len(asked) + 1] = q /\ \A i \in 1..Len(asked) : asked'[i] = asked[i]
    BY <1>1, <2>2
  <2>4. Extends(asked, asked')
    BY <1>1, <2>3 DEF Extends
  <2>5. NoDup(asked')
    <3>1. SUFFICES ASSUME NEW i \in 1..(Len(asked) + 1), NEW j \in 1..(Len(asked) + 1),
                          asked'[i] = asked'[j]
                   PROVE  i = j
      BY <2>3 DEF NoDup
    <3>2. CASE i = Len(asked) + 1 \/ j = Len(asked) + 1
      BY <1>1, <1>4, <2>3, <3>1, <3>2
    <3>3. CASE i \in 1..Len(asked) /\ j \in 1..Len(asked)
      BY <1>1, <2>3, <3>1, <3>3 DEF NoDup
    <3>4. QED
      BY <1>1, <3>2, <3>3
  <2>6. Older(asked')
    <3>1. SUFFICES ASSUME NEW i \in 1..(Len(asked) + 1)
                   PROVE  asked'[i].key \in 0..(i - 1) /\ asked'[i].val \in (-1)..(i - 1)
      BY <2>3 DEF Older
    <3>2. CASE i = Len(asked) + 1
      BY <1>1, <2>3, <3>2
    <3>3. CASE i \in 1..Len(asked)
      BY <1>1, <2>3, <3>3 DEF Older
    <3>4. QED
      BY <1>1, <3>2, <3>3
  <2>7. AskedOK'
    BY <2>3, <2>5, <2>6 DEF AskedOK
  <2>8. QED
    BY <1>1, <2>1, <2>3, <2>4, <2>7
<1>5. QED
  BY <1>3, <1>4

------------------------------------------------------------------------------
(* No byte twice.                                                          *)

Places == {"unseeded", "idle", "out", "key0", "val0", "key1", "val1"}
Pieces == [block : Nat, at : Nat]

TypeOK ==
  /\ K \in [Users -> Nat] /\ V \in [Users -> Int]
  /\ pc \in [Users -> Places]
  /\ material \in [Users -> Materials] /\ seed \in [Users -> Materials]
  /\ left \in [Users -> Nat]
  /\ calls \in [Users -> Seq(Lens)] /\ stream \in [Users -> Seq(Pieces)]

(* K and V are answers.  V is the younger one while output is made, and K  *)
(* after the update: it is younger than all blocks given on the seed.      *)
Fresh(u) ==
  /\ K[u] <= Len(asked) /\ V[u] \in (-1)..Len(asked)
  /\ pc[u] # "unseeded" => seed[u] \in Seeds
  /\ pc[u] # "out" => left[u] = 0
  /\ K[u] = Zeros => /\ pc[u] \in {"unseeded", "key0"}
                     /\ material[u] = seed[u] /\ stream[u] = <<>>
  /\ pc[u] = "unseeded" => stream[u] = <<>>
  /\ \A i, j \in DOMAIN stream[u] : stream[u][i] = stream[u][j] => i = j
  /\ \A i \in DOMAIN stream[u] :
       /\ stream[u][i].block \in DOMAIN asked
       /\ stream[u][i].block <= V[u]
       /\ pc[u] \notin {"out", "key0"} => stream[u][i].block < K[u]

(* Each answer comes, by way of its key and the keys before it, from the   *)
(* question that mixed a seed into the key of zeros.                       *)
Origin(qs, org) ==
  /\ org \in [DOMAIN qs -> Materials]
  /\ \A i \in DOMAIN qs :
       org[i] = IF qs[i].key = Zeros THEN qs[i].mixed ELSE org[qs[i].key]

(* What a generator holds and gives comes from its own seed.               *)
Own(u, org) ==
  /\ K[u] # Zeros => org[K[u]] = seed[u]
  /\ \A i \in DOMAIN stream[u] : org[stream[u][i].block] = seed[u]

Origins == \E org : Origin(asked, org) /\ \A u \in Users : Own(u, org)

Inv == AskedOK /\ TypeOK /\ (\A u \in Users : Fresh(u)) /\ Origins

UnchangedFor(w) ==
  /\ K'[w] = K[w] /\ V'[w] = V[w] /\ pc'[w] = pc[w] /\ material'[w] = material[w]
  /\ left'[w] = left[w] /\ seed'[w] = seed[w] /\ calls'[w] = calls[w] /\ stream'[w] = stream[w]

(* Who is not at work keeps what it has when others ask.                   *)
LEMMA FreshStays ==
  ASSUME NEW w, Fresh(w), UnchangedFor(w), Extends(asked, asked'), asked \in Seq(Questions),
         asked' \in Seq(Questions), TypeOK, w \in Users
  PROVE  Fresh(w)'
<1>1. Len(asked) \in Nat /\ Len(asked') \in Nat /\ Len(asked) <= Len(asked')
      /\ \A i \in DOMAIN asked : i \in DOMAIN asked'
  BY DEF Extends
<1>2. K[w] \in Nat /\ V[w] \in Int
  BY DEF TypeOK
<1>3. (K[w] <= Len(asked) /\ V[w] \in (-1)..Len(asked))'
  BY <1>1, <1>2 DEF Fresh, UnchangedFor
<1>4. QED
  BY <1>1, <1>3 DEF Fresh, UnchangedFor

LEMMA OriginStep ==
  ASSUME AskedOK, NEW org, Origin(asked, org), NEW q \in Questions, Ask(q),
         q.key \in 0..Len(asked), q.val \in (-1)..Len(asked)
  PROVE  \E o : /\ Origin(asked', o) /\ \A i \in DOMAIN asked : o[i] = org[i]
                /\ o[Answer(q)] = IF q.key = Zeros THEN q.mixed ELSE org[q.key]
<1> DEFINE a == Answer(q)
           new == IF q.key = Zeros THEN q.mixed ELSE org[q.key]
           o == [i \in DOMAIN asked' |-> IF i \in DOMAIN asked THEN org[i] ELSE new]
<1>1. /\ AskedOK' /\ Extends(asked, asked') /\ a \in DOMAIN asked' /\ asked'[a] = q
      /\ \A i \in DOMAIN asked' : i \in DOMAIN asked \/ i = a
      /\ a \in Nat /\ q.key < a
  BY AnswerIs
<1>2. asked \in Seq(Questions) /\ DOMAIN asked = 1..Len(asked) /\ Len(asked) \in Nat
      /\ asked' \in Seq(Questions) /\ DOMAIN asked' = 1..Len(asked') /\ Len(asked') \in Nat
      /\ Older(asked)
  BY <1>1 DEF AskedOK
<1>3. org \in [DOMAIN asked -> Materials]
      /\ \A i \in DOMAIN asked : org[i] = IF asked[i].key = Zeros THEN asked[i].mixed ELSE org[asked[i].key]
  BY DEF Origin
<1>4. \A i \in DOMAIN asked : i \in DOMAIN asked' /\ asked'[i] = asked[i]
  BY <1>1 DEF Extends
<1>5. q.key # Zeros => q.key \in DOMAIN asked
  BY <1>2 DEF Zeros
<1>6. new \in Materials
  BY <1>3, <1>5 DEF Questions
<1> HIDE DEF new, a
<1>7. o \in [DOMAIN asked' -> Materials] /\ (\A i \in DOMAIN asked : o[i] = org[i])
  BY <1>3, <1>4, <1>6
<1>8. o[a] = new
  <2>1. CASE a \in DOMAIN asked
    <3>1. asked[a] = q
      BY <1>1, <1>4, <2>1
    <3>2. org[a] = new
      BY <1>3, <2>1, <3>1 DEF new
    <3>3. QED
      BY <1>7, <2>1, <3>2
  <2>2. CASE a \notin DOMAIN asked
    BY <1>1, <2>2
  <2>3. QED
    BY <2>1, <2>2
<1> HIDE DEF o
<1>9. ASSUME NEW i \in DOMAIN asked'
      PROVE  o[i] = IF asked'[i].key = Zeros THEN asked'[i].mixed ELSE o[asked'[i].key]
  <2>1. CASE i \in DOMAIN asked
    <3>1. asked'[i] = asked[i] /\ o[i] = org[i]
      BY <1>4, <1>7, <2>1
    <3>2. asked[i].key # Zeros => asked[i].key \in DOMAIN asked
      BY <1>2, <2>1 DEF Older, Zeros
    <3>3. QED
      BY <1>3, <1>7, <2>1, <3>1, <3>2
  <2>2. CASE i = a
    BY <1>1, <1>5, <1>7, <1>8, <2>2 DEF new
  <2>3. QED
    BY <1>1, <2>1, <2>2
<1>10. Origin(asked', o)
  BY <1>7, <1>9 DEF Origin
<1>11. QED
  BY <1>7, <1>8, <1>10 DEF new, a

LEMMA OwnStays ==
  ASSUME NEW w \in Users, NEW org, NEW o, Own(w, org), Fresh(w), TypeOK, UnchangedFor(w),
         asked \in Seq(Questions), \A i \in DOMAIN asked : o[i] = org[i]
  PROVE  Own(w, o)'
<1>1. K[w] # Zeros => K[w] \in DOMAIN asked
  BY DEF Fresh, TypeOK, Zeros
<1>2. QED
  BY <1>1 DEF Own, Fresh, UnchangedFor

Actions(u) ==
  \/ \E s \in Seeds : DrbgInit(u, s)
  \/ UpdateKey(u, "key0", "zero", "val0")
  \/ UpdateVal(u, "val0")
  \/ UpdateKey(u, "key1", "one", "val1")
  \/ UpdateVal(u, "val1")
  \/ \E len \in Lens : Generate(u, len)
  \/ Block(u)
  \/ BlocksDone(u)

LEMMA OthersStandStill ==
  ASSUME TypeOK, NEW u \in Users, NEW w \in Users, w # u, Actions(u)
  PROVE  UnchangedFor(w)
<1>1. CASE \E s \in Seeds : DrbgInit(u, s)
  BY <1>1 DEF TypeOK, DrbgInit, UnchangedFor
<1>2. ASSUME NEW from, NEW tag, NEW to, UpdateKey(u, from, tag, to) PROVE UnchangedFor(w)
  BY <1>2 DEF TypeOK, UpdateKey, UnchangedFor
<1>3. ASSUME NEW from, UpdateVal(u, from) PROVE UnchangedFor(w)
  BY <1>3 DEF TypeOK, UpdateVal, UnchangedFor
<1>4. CASE \E len \in Lens : Generate(u, len)
  BY <1>4 DEF TypeOK, Generate, UnchangedFor
<1>5. CASE Block(u)
  BY <1>5 DEF TypeOK, Block, UnchangedFor
<1>6. CASE BlocksDone(u)
  BY <1>6 DEF TypeOK, BlocksDone, UnchangedFor
<1>7. QED
  BY <1>1, <1>2, <1>3, <1>4, <1>5, <1>6 DEF Actions

(* A step without a question.                                              *)
LEMMA QuietStep ==
  ASSUME Inv, NEW u \in Users, Actions(u), UNCHANGED asked, TypeOK', Fresh(u)',
         \A org : Own(u, org) => Own(u, org)'
  PROVE  Inv'
<1>1. AskedOK /\ TypeOK /\ (\A w \in Users : Fresh(w)) /\ asked \in Seq(Questions)
  BY DEF Inv, AskedOK
<1>2. AskedOK' /\ asked' \in Seq(Questions) /\ Extends(asked, asked')
  BY <1>1 DEF AskedOK, Extends, NoDup, Older
<1>3. \A w \in Users : Fresh(w)'
  BY <1>1, <1>2, OthersStandStill, FreshStays
<1>4. PICK org : Origin(asked, org) /\ \A w \in Users : Own(w, org)
  BY DEF Inv, Origins
<1>5. \A w \in Users : Own(w, org)'
  BY <1>1, <1>4, OthersStandStill, OwnStays
<1>6. Origins'
  BY <1>4, <1>5 DEF Origins, Origin
<1>7. QED
  BY <1>2, <1>3, <1>6 DEF Inv

(* A step with one.                                                        *)
LEMMA AskingStep ==
  ASSUME Inv, NEW u \in Users, Actions(u), NEW q \in Questions, Ask(q), q.key = K[u], q.val = V[u],
         K[u] = Zeros => q.mixed = seed[u],
         TypeOK',
         /\ AskedOK' /\ Extends(asked, asked') /\ Answer(q) \in DOMAIN asked'
         /\ Answer(q) \in Nat /\ K[u] < Answer(q) /\ V[u] < Answer(q)
         => Fresh(u)',
         \A o : Own(u, o) /\ o[Answer(q)] = seed[u] => Own(u, o)'
  PROVE  Inv'
<1>1. AskedOK /\ TypeOK /\ (\A w \in Users : Fresh(w)) /\ asked \in Seq(Questions)
  BY DEF Inv, AskedOK
<1>2. q.key \in 0..Len(asked) /\ q.val \in (-1)..Len(asked)
  <2>1. Len(asked) \in Nat /\ K[u] \in Nat /\ K[u] <= Len(asked) /\ V[u] \in (-1)..Len(asked)
    BY <1>1 DEF Fresh, TypeOK
  <2>2. QED
    BY <2>1
<1>3. /\ AskedOK' /\ Extends(asked, asked')
      /\ Answer(q) \in DOMAIN asked' /\ Answer(q) \in Nat /\ K[u] < Answer(q) /\ V[u] < Answer(q)
  BY <1>1, <1>2, AnswerIs
<1>4. asked' \in Seq(Questions)
  BY <1>3 DEF AskedOK
<1>5. \A w \in Users : Fresh(w)'
  <2>1. Fresh(u)'
    BY <1>3
  <2>2. ASSUME NEW w \in Users, w # u PROVE Fresh(w)'
    BY <1>1, <1>3, <1>4, <2>2, OthersStandStill, FreshStays
  <2>3. QED
    BY <2>1, <2>2
<1>6. PICK org : Origin(asked, org) /\ \A w \in Users : Own(w, org)
  BY DEF Inv, Origins
<1>7. PICK o : /\ Origin(asked', o) /\ \A i \in DOMAIN asked : o[i] = org[i]
               /\ o[Answer(q)] = IF q.key = Zeros THEN q.mixed ELSE org[q.key]
  BY <1>1, <1>2, <1>6, OriginStep
<1>8. ASSUME NEW w \in Users, w # u PROVE Own(w, o)'
  BY <1>1, <1>6, <1>7, <1>8, OthersStandStill, OwnStays
<1>9. Own(u, o)
  <2>1. K[u] # Zeros => K[u] \in DOMAIN asked
    BY <1>1 DEF Fresh, TypeOK, Zeros
  <2>2. QED
    BY <1>1, <1>6, <1>7, <2>1 DEF Own, Fresh
<1>10. o[Answer(q)] = seed[u]
  BY <1>6, <1>7 DEF Own
<1>11. Own(u, o)'
  BY <1>9, <1>10
<1>12. Origins'
  BY <1>7, <1>8, <1>11 DEF Origins
<1>13. QED
  BY <1>3, <1>5, <1>12 DEF Inv

LEMMA InitInv == GeneratorInit => Inv
<1>1. SUFFICES ASSUME GeneratorInit PROVE Inv
  OBVIOUS
<1>2. AskedOK
  BY <1>1 DEF GeneratorInit, AskedOK, NoDup, Older
<1>3. TypeOK
  BY <1>1 DEF GeneratorInit, TypeOK, Materials, Places, Zeros
<1>4. \A u \in Users : Fresh(u)
  <2>1. SUFFICES ASSUME NEW u \in Users PROVE Fresh(u)
    OBVIOUS
  <2>2. asked = <<>> /\ K[u] = 0 /\ V[u] = 0 /\ pc[u] = "unseeded" /\ material[u] = NoSeed
        /\ seed[u] = NoSeed /\ stream[u] = <<>> /\ left[u] = 0
    BY <1>1 DEF GeneratorInit, Zeros
  <2>3. QED
    BY <2>2 DEF Fresh
<1>5. Origins
  <2> DEFINE org == [i \in DOMAIN asked |-> NoSeed]
  <2>1. Origin(asked, org)
    BY <1>1 DEF GeneratorInit, Origin
  <2> HIDE DEF org
  <2>2. \A u \in Users : Own(u, org)
    <3>1. SUFFICES ASSUME NEW u \in Users PROVE Own(u, org)
      OBVIOUS
    <3>2. K[u] = Zeros /\ stream[u] = <<>> /\ DOMAIN stream[u] = {}
      BY <1>1 DEF GeneratorInit
    <3>3. QED
      BY <3>2 DEF Own
  <2>3. QED
    BY <2>1, <2>2 DEF Origins
<1>6. QED
  BY <1>2, <1>3, <1>4, <1>5 DEF Inv

LEMMA DrbgInitInv ==
  ASSUME Inv, NEW u \in Users, NEW s \in Seeds, DrbgInit(u, s)
  PROVE  Inv'
<1>1. TypeOK /\ Fresh(u) /\ s \in Materials
  BY DEF Inv, Materials
<1>2. K' = [K EXCEPT ![u] = Zeros] /\ V' = [V EXCEPT ![u] = Ones]
      /\ pc' = [pc EXCEPT ![u] = "key0"] /\ material' = [material EXCEPT ![u] = s]
      /\ seed' = [seed EXCEPT ![u] = s] /\ calls' = [calls EXCEPT ![u] = <<>>]
      /\ stream' = [stream EXCEPT ![u] = <<>>] /\ asked' = asked /\ left' = left
  BY DEF DrbgInit, StartVal
<1>3. TypeOK'
  <2>1. <<>> \in Seq(Lens) /\ <<>> \in Seq(Pieces) /\ Zeros \in Nat /\ Ones \in Int /\ "key0" \in Places
    BY DEF Zeros, Ones, Places
  <2>2. QED
    BY <1>1, <1>2, <2>1 DEF TypeOK
<1>4. K'[u] = 0 /\ V'[u] = -1 /\ pc'[u] = "key0" /\ material'[u] = s /\ seed'[u] = s
      /\ stream'[u] = <<>> /\ left'[u] = left[u]
  BY <1>1, <1>2 DEF TypeOK, Zeros, Ones
<1>5. left[u] = 0
  BY <1>1 DEF DrbgInit, NobodyCalls, Fresh
<1>6. Fresh(u)'
  <2>1. Len(asked) \in Nat
    BY DEF Inv, AskedOK
  <2>2. QED
    BY <1>2, <1>4, <1>5, <2>1 DEF Fresh, Zeros
<1>7. \A org : Own(u, org) => Own(u, org)'
  BY <1>4 DEF Own, Zeros
<1>8. QED
  BY <1>2, <1>3, <1>6, <1>7, QuietStep DEF Actions

LEMMA GenerateInv ==
  ASSUME Inv, NEW u \in Users, NEW len \in Lens, Generate(u, len)
  PROVE  Inv'
<1>1. TypeOK /\ Fresh(u) /\ len \in Nat
  BY DrbgAssumption DEF Inv
<1>2. pc[u] = "idle" /\ left' = [left EXCEPT ![u] = len] /\ pc' = [pc EXCEPT ![u] = "out"]
      /\ calls' = [calls EXCEPT ![u] = Append(@, len)]
      /\ UNCHANGED <<asked, K, V, material, seed, stream>>
  BY DEF Generate
<1>3. TypeOK'
  <2>1. Append(calls[u], len) \in Seq(Lens) /\ "out" \in Places
    BY <1>1 DEF TypeOK, Places
  <2>2. QED
    BY <1>1, <1>2, <2>1 DEF TypeOK
<1>4. pc'[u] = "out" /\ left'[u] = len
  BY <1>1, <1>2 DEF TypeOK
<1>5. Fresh(u)'
  BY <1>1, <1>2, <1>4 DEF Fresh
<1>6. \A org : Own(u, org) => Own(u, org)'
  BY <1>2 DEF Own
<1>7. QED
  BY <1>2, <1>3, <1>5, <1>6, QuietStep DEF Actions

LEMMA BlocksDoneInv ==
  ASSUME Inv, NEW u \in Users, BlocksDone(u)
  PROVE  Inv'
<1>1. TypeOK /\ Fresh(u)
  BY DEF Inv
<1>2. pc[u] = "out" /\ left[u] = 0 /\ pc' = [pc EXCEPT ![u] = "key0"]
      /\ material' = [material EXCEPT ![u] = NoSeed]
      /\ UNCHANGED <<asked, K, V, left, seed, calls, stream>>
  BY DEF BlocksDone, AfterOutput
<1>3. TypeOK'
  BY <1>1, <1>2 DEF TypeOK, Places, Materials
<1>4. pc'[u] = "key0" /\ material'[u] = NoSeed /\ K[u] # Zeros
  BY <1>1, <1>2 DEF TypeOK, Fresh
<1>5. Fresh(u)'
  BY <1>1, <1>2, <1>4 DEF Fresh
<1>6. \A org : Own(u, org) => Own(u, org)'
  BY <1>2 DEF Own
<1>7. QED
  BY <1>2, <1>3, <1>5, <1>6, QuietStep DEF Actions

LEMMA QuestionIs ==
  ASSUME TypeOK, NEW u \in Users, NEW tag \in {"zero", "one", "none"}, NEW mixed \in Materials
  PROVE  /\ Question(u, tag, mixed) \in Questions
         /\ Question(u, tag, mixed).key = K[u] /\ Question(u, tag, mixed).val = V[u]
         /\ Question(u, tag, mixed).mixed = mixed
BY DEF TypeOK, Question, Questions

LEMMA UpdateKeyInv ==
  ASSUME Inv, NEW u \in Users, NEW from, NEW tag \in {"zero", "one"}, NEW to,
         from \in {"key0", "key1"}, to \in {"val0", "val1"}, Actions(u),
         UpdateKey(u, from, tag, to)
  PROVE  Inv'
<1> DEFINE q == Question(u, tag, material[u])
           a == Answer(q)
<1>1. TypeOK /\ Fresh(u) /\ material[u] \in Materials /\ asked \in Seq(Questions)
  BY DEF Inv, TypeOK, AskedOK
<1>2. q \in Questions /\ q.key = K[u] /\ q.val = V[u] /\ q.mixed = material[u]
  BY <1>1, QuestionIs
<1>3. pc[u] = from /\ Ask(q) /\ K' = [K EXCEPT ![u] = a] /\ pc' = [pc EXCEPT ![u] = to]
      /\ UNCHANGED <<V, material, left, seed, calls, stream>>
  BY DEF UpdateKey
<1> HIDE DEF q
<1>4. K[u] \in 0..Len(asked) /\ V[u] \in (-1)..Len(asked)
  BY <1>1 DEF Fresh, TypeOK
<1>5. /\ AskedOK' /\ Extends(asked, asked') /\ a \in DOMAIN asked' /\ a \in Nat
      /\ K[u] < a /\ V[u] < a
  BY <1>2, <1>3, <1>4, AnswerIs DEF Inv
<1> HIDE DEF a
<1>6. TypeOK'
  BY <1>1, <1>3, <1>5 DEF TypeOK, Places
<1>7. K'[u] = a /\ pc'[u] = to /\ to # "out" /\ to # "unseeded" /\ pc[u] # "unseeded" /\ pc[u] # "out"
  BY <1>1, <1>3 DEF TypeOK
<1>8. Fresh(u)'
  <2>1. Len(asked) \in Nat /\ Len(asked') \in Nat /\ Len(asked) <= Len(asked') /\ a <= Len(asked')
    BY <1>1, <1>5 DEF Extends, AskedOK
  <2>2. (K[u] <= Len(asked) /\ V[u] \in (-1)..Len(asked))'
    BY <1>1, <1>3, <1>4, <1>7, <2>1
  <2>3. a # Zeros
    BY <1>4, <1>5 DEF Zeros
  <2>4. ASSUME NEW i \in DOMAIN stream[u]
        PROVE  stream[u][i].block \in DOMAIN asked' /\ stream[u][i].block <= V[u] /\ stream[u][i].block < a
    <3>1. stream[u][i].block \in DOMAIN asked /\ stream[u][i].block <= V[u]
      BY <1>1 DEF Fresh
    <3>2. stream[u][i].block \in Nat
      BY <1>1, <3>1
    <3>3. QED
      BY <1>4, <1>5, <3>1, <3>2 DEF Extends
  <2>5. QED
    BY <1>1, <1>3, <1>7, <2>2, <2>3, <2>4 DEF Fresh
<1>9. K[u] = Zeros => q.mixed = seed[u]
  BY <1>1, <1>2 DEF Fresh
<1>10. \A o : Own(u, o) /\ o[a] = seed[u] => Own(u, o)'
  BY <1>3, <1>7 DEF Own
<1>11. QED
  BY <1>2, <1>3, <1>6, <1>8, <1>9, <1>10, AskingStep DEF a

LEMMA UpdateValInv ==
  ASSUME Inv, NEW u \in Users, NEW from, from \in {"val0", "val1"}, Actions(u), UpdateVal(u, from)
  PROVE  Inv'
<1> DEFINE q == Question(u, "none", NoSeed)
           a == Answer(q)
           to == IF from = "val0" /\ material[u] # NoSeed THEN "key1" ELSE "idle"
<1>1. TypeOK /\ Fresh(u) /\ NoSeed \in Materials /\ asked \in Seq(Questions)
  BY DEF Inv, Materials, AskedOK
<1>2. q \in Questions /\ q.key = K[u] /\ q.val = V[u]
  BY <1>1, QuestionIs
<1>3. pc[u] = from /\ Ask(q) /\ V' = [V EXCEPT ![u] = a] /\ pc' = [pc EXCEPT ![u] = to]
      /\ UNCHANGED <<K, material, left, seed, calls, stream>>
  BY DEF UpdateVal
<1> HIDE DEF q
<1>4. K[u] \in 0..Len(asked) /\ V[u] \in (-1)..Len(asked) /\ K[u] # Zeros
  BY <1>1, <1>3 DEF Fresh, TypeOK
<1>5. /\ AskedOK' /\ Extends(asked, asked') /\ a \in DOMAIN asked' /\ a \in Nat
      /\ K[u] < a /\ V[u] < a
  BY <1>2, <1>3, <1>4, AnswerIs DEF Inv
<1>6. to \in {"key1", "idle"}
  OBVIOUS
<1> HIDE DEF a, to
<1>7. TypeOK'
  BY <1>1, <1>3, <1>5, <1>6 DEF TypeOK, Places
<1>8. V'[u] = a /\ pc'[u] = to /\ to # "out" /\ to # "unseeded" /\ pc[u] \notin {"out", "key0", "unseeded"}
  BY <1>1, <1>3, <1>6 DEF TypeOK
<1>9. Fresh(u)'
  <2>1. Len(asked) \in Nat /\ Len(asked') \in Nat /\ Len(asked) <= Len(asked') /\ a <= Len(asked')
    BY <1>1, <1>5 DEF Extends, AskedOK
  <2>2. (K[u] <= Len(asked) /\ V[u] \in (-1)..Len(asked))'
    BY <1>1, <1>3, <1>4, <1>5, <1>8, <2>1
  <2>3. ASSUME NEW i \in DOMAIN stream[u]
        PROVE  /\ stream[u][i].block \in DOMAIN asked' /\ stream[u][i].block <= a
               /\ stream[u][i].block < K[u]
    <3>1. stream[u][i].block \in DOMAIN asked /\ stream[u][i].block <= V[u] /\ stream[u][i].block < K[u]
      BY <1>1, <1>8 DEF Fresh
    <3>2. stream[u][i].block \in Nat
      BY <1>1, <3>1
    <3>3. QED
      BY <1>4, <1>5, <3>1, <3>2 DEF Extends
  <2>4. QED
    BY <1>1, <1>3, <1>4, <1>8, <2>2, <2>3 DEF Fresh
<1>10. \A o : Own(u, o) /\ o[a] = seed[u] => Own(u, o)'
  BY <1>3 DEF Own
<1>11. QED
  BY <1>2, <1>3, <1>4, <1>7, <1>9, <1>10, AskingStep DEF a

LEMMA BothEnds ==
  ASSUME NEW S, NEW s \in Seq(S), NEW t \in Seq(S)
  PROVE  /\ s \o t \in Seq(S) /\ Len(s \o t) = Len(s) + Len(t)
         /\ \A i \in 1..Len(s) : (s \o t)[i] = s[i]
         /\ \A i \in 1..Len(t) : (s \o t)[Len(s) + i] = t[i]
OBVIOUS

LEMMA BlockInv ==
  ASSUME Inv, NEW u \in Users, Block(u)
  PROVE  Inv'
<1> DEFINE q == Question(u, "none", NoSeed)
           a == Answer(q)
           size == IF OutLen > left[u] THEN left[u] ELSE OutLen
           more == [i \in 1..size |-> [block |-> a, at |-> i]]
<1>1. TypeOK /\ Fresh(u) /\ NoSeed \in Materials /\ asked \in Seq(Questions)
  BY DEF Inv, Materials, AskedOK
<1>2. q \in Questions /\ q.key = K[u] /\ q.val = V[u]
  BY <1>1, QuestionIs
<1>3. pc[u] = "out" /\ left[u] > 0 /\ Ask(q) /\ V' = [V EXCEPT ![u] = a]
      /\ stream' = [stream EXCEPT ![u] = @ \o more]
      /\ left' = [left EXCEPT ![u] = @ - size]
      /\ UNCHANGED <<K, pc, material, seed, calls>>
  BY DEF Block, Kept
<1> HIDE DEF q
<1>4. K[u] \in 0..Len(asked) /\ V[u] \in (-1)..Len(asked) /\ K[u] # Zeros
  BY <1>1, <1>3 DEF Fresh, TypeOK
<1>5. /\ AskedOK' /\ Extends(asked, asked') /\ a \in DOMAIN asked' /\ a \in Nat
      /\ K[u] < a /\ V[u] < a
  BY <1>2, <1>3, <1>4, AnswerIs DEF Inv
<1> HIDE DEF a
<1>6. size \in Nat /\ left[u] - size \in Nat
  BY <1>1, DrbgAssumption DEF TypeOK
<1> HIDE DEF size
<1>7. more \in Seq(Pieces) /\ Len(more) = size
      /\ \A i \in 1..size : more[i] = [block |-> a, at |-> i]
  <2>1. \A i \in 1..size : [block |-> a, at |-> i] \in Pieces
    BY <1>5, <1>6 DEF Pieces
  <2>2. more \in [1..size -> Pieces]
    BY <2>1
  <2>3. \A i \in 1..size : more[i] = [block |-> a, at |-> i]
    OBVIOUS
  <2> HIDE DEF more
  <2>4. more \in Seq(Pieces) /\ Len(more) = size
    BY <1>6, <2>2
  <2>5. QED
    BY <2>3, <2>4
<1> HIDE DEF more
<1> DEFINE s == stream[u]
           t == s \o more
<1>8. s \in Seq(Pieces) /\ Len(s) \in Nat
  BY <1>1 DEF TypeOK
<1>9. t \in Seq(Pieces) /\ Len(t) = Len(s) + size /\ \A i \in 1..Len(s) : t[i] = s[i]
  <2> HIDE DEF s
  <2>1. s \o more \in Seq(Pieces) /\ Len(s \o more) = Len(s) + Len(more)
    BY <1>7, <1>8, BothEnds
  <2>2. \A i \in 1..Len(s) : (s \o more)[i] = s[i]
    BY <1>7, <1>8, BothEnds
  <2>3. QED
    BY <1>7, <2>1, <2>2
<1>10. \A i \in (Len(s) + 1)..Len(t) : t[i].block = a /\ t[i].at = i - Len(s)
  <2>1. SUFFICES ASSUME NEW i \in (Len(s) + 1)..Len(t)
                 PROVE  t[i].block = a /\ t[i].at = i - Len(s)
    OBVIOUS
  <2>2. i - Len(s) \in 1..size /\ Len(s) + (i - Len(s)) = i
    BY <1>6, <1>8, <1>9
  <2>3. t[i] = more[i - Len(s)]
    BY <1>7, <1>8, <2>2, BothEnds
  <2>4. more[i - Len(s)] = [block |-> a, at |-> i - Len(s)]
    BY <1>7, <2>2
  <2>5. QED
    BY <2>3, <2>4
<1>11. stream'[u] = t /\ V'[u] = a /\ left'[u] = left[u] - size
  BY <1>1, <1>3 DEF TypeOK
<1>12. TypeOK'
  <2>1. stream' \in [Users -> Seq(Pieces)]
    BY <1>1, <1>3, <1>9 DEF TypeOK
  <2>2. V' \in [Users -> Int] /\ left' \in [Users -> Nat]
    BY <1>1, <1>3, <1>5, <1>6 DEF TypeOK
  <2>3. QED
    BY <1>1, <1>3, <2>1, <2>2 DEF TypeOK
<1>13. \A i \in 1..Len(s) : s[i].block \in DOMAIN asked /\ s[i].block <= V[u] /\ s[i].block \in Nat
  <2>1. \A i \in 1..Len(s) : i \in DOMAIN s
    BY <1>8
  <2>2. QED
    BY <1>1, <2>1 DEF Fresh
<1>14. \A i \in 1..Len(s) : s[i].block # a
  BY <1>4, <1>5, <1>13
<1> HIDE DEF s, t
<1>15. ASSUME NEW i \in 1..Len(t), NEW j \in 1..Len(t), t[i] = t[j] PROVE i = j
  <2>1. \A m \in 1..Len(t) : m \in 1..Len(s) \/ m \in (Len(s) + 1)..Len(t)
    BY <1>8, <1>9
  <2>2. CASE i \in 1..Len(s) /\ j \in 1..Len(s)
    <3>1. s[i] = s[j]
      BY <1>9, <1>15, <2>2
    <3>2. i \in DOMAIN s /\ j \in DOMAIN s
      BY <1>8, <2>2
    <3>3. QED
      BY <1>1, <3>1, <3>2 DEF Fresh, s
  <2>3. CASE i \in (Len(s) + 1)..Len(t) /\ j \in (Len(s) + 1)..Len(t)
    <3>1. t[i].at = i - Len(s) /\ t[j].at = j - Len(s)
      BY <1>10, <2>3
    <3>2. i - Len(s) = j - Len(s)
      BY <1>15, <3>1
    <3>3. QED
      BY <1>8, <3>2
  <2>4. CASE (i \in 1..Len(s) /\ j \in (Len(s) + 1)..Len(t)) \/ (j \in 1..Len(s) /\ i \in (Len(s) + 1)..Len(t))
    <3>1. \A m \in (Len(s) + 1)..Len(t) : t[m].block = a
      BY <1>10
    <3>2. \A m \in 1..Len(s) : t[m].block # a
      BY <1>9, <1>14
    <3>3. QED
      BY <1>15, <2>4, <3>1, <3>2
  <2>5. QED
    BY <2>1, <2>2, <2>3, <2>4
<1>16. ASSUME NEW i \in 1..Len(t) PROVE t[i].block \in DOMAIN asked' /\ t[i].block <= a
  <2>1. CASE i \in 1..Len(s)
    <3>1. t[i].block \in DOMAIN asked /\ t[i].block <= V[u] /\ t[i].block \in Nat
      BY <1>9, <1>13, <2>1
    <3>2. QED
      BY <1>4, <1>5, <3>1 DEF Extends
  <2>2. CASE i \in (Len(s) + 1)..Len(t)
    <3>1. t[i].block = a
      BY <1>10, <2>2
    <3>2. QED
      BY <1>5, <3>1
  <2>3. QED
    BY <1>8, <1>9, <2>1, <2>2
<1>17. DOMAIN t = 1..Len(t)
  BY <1>9
<1>18. Fresh(u)'
  <2>1. Len(asked) \in Nat /\ Len(asked') \in Nat /\ Len(asked) <= Len(asked') /\ a <= Len(asked')
    BY <1>1, <1>5 DEF Extends, AskedOK
  <2>2. (K[u] <= Len(asked) /\ V[u] \in (-1)..Len(asked))'
    BY <1>1, <1>3, <1>4, <1>5, <1>11, <2>1
  <2>3. seed[u] \in Seeds
    BY <1>1, <1>3 DEF Fresh
  <2>4. \A i, j \in DOMAIN stream'[u] : stream'[u][i] = stream'[u][j] => i = j
    BY <1>11, <1>15, <1>17
  <2>5. \A i \in DOMAIN stream'[u] : stream'[u][i].block \in DOMAIN asked' /\ stream'[u][i].block <= V'[u]
    BY <1>11, <1>16, <1>17
  <2>6. pc'[u] = "out" /\ K'[u] # Zeros
    BY <1>3, <1>4
  <2>7. QED
    BY <1>3, <2>2, <2>3, <2>4, <2>5, <2>6 DEF Fresh
<1>19. \A o : Own(u, o) /\ o[a] = seed[u] => Own(u, o)'
  <2>1. SUFFICES ASSUME NEW o, Own(u, o), o[a] = seed[u] PROVE Own(u, o)'
    OBVIOUS
  <2>2. \A i \in 1..Len(s) : o[s[i].block] = seed[u]
    <3>1. \A i \in 1..Len(s) : i \in DOMAIN s
      BY <1>8
    <3>2. QED
      BY <2>1, <3>1 DEF Own, s
  <2>3. ASSUME NEW i \in 1..Len(t) PROVE o[t[i].block] = seed[u]
    <3>1. CASE i \in 1..Len(s)
      BY <1>9, <2>2, <3>1
    <3>2. CASE i \in (Len(s) + 1)..Len(t)
      <4>1. t[i].block = a
        BY <1>10, <3>2
      <4>2. QED
        BY <2>1, <4>1
    <3>3. QED
      BY <1>8, <1>9, <3>1, <3>2
  <2>4. \A i \in DOMAIN stream'[u] : o[stream'[u][i].block] = seed'[u]
    BY <1>3, <1>11, <1>17, <2>3
  <2>5. K'[u] # Zeros => o[K'[u]] = seed'[u]
    BY <1>3, <2>1 DEF Own
  <2>6. QED
    BY <2>4, <2>5 DEF Own
<1>20. QED
  BY <1>2, <1>3, <1>4, <1>12, <1>18, <1>19, AskingStep DEF a, Actions

LEMMA StepInv == Inv /\ [GeneratorNext]_generatorVars => Inv'
<1>1. SUFFICES ASSUME Inv, [GeneratorNext]_generatorVars PROVE Inv'
  OBVIOUS
<1>2. CASE UNCHANGED generatorVars
  <2>1. UNCHANGED <<asked, K, V, pc, material, left, seed, calls, stream, inits>>
    BY <1>2 DEF generatorVars
  <2>2. AskedOK'
    BY <1>1, <2>1 DEF Inv, AskedOK, NoDup, Older
  <2>3. TypeOK'
    BY <1>1, <2>1 DEF Inv, TypeOK
  <2>4. (\A u \in Users : Fresh(u))'
    BY <1>1, <2>1 DEF Inv, Fresh
  <2>5. Origins'
    BY <1>1, <2>1 DEF Inv, Origins, Origin, Own
  <2>6. QED
    BY <2>2, <2>3, <2>4, <2>5 DEF Inv
<1>3. CASE GeneratorNext
  <2>1. PICK u \in Users : Actions(u)
    BY <1>3 DEF GeneratorNext, Actions
  <2>2. CASE \E s \in Seeds : DrbgInit(u, s)
    BY <1>1, <2>2, DrbgInitInv
  <2>3. CASE UpdateKey(u, "key0", "zero", "val0") \/ UpdateKey(u, "key1", "one", "val1")
    BY <1>1, <2>1, <2>3, UpdateKeyInv
  <2>4. CASE UpdateVal(u, "val0") \/ UpdateVal(u, "val1")
    BY <1>1, <2>1, <2>4, UpdateValInv
  <2>5. CASE \E len \in Lens : Generate(u, len)
    BY <1>1, <2>5, GenerateInv
  <2>6. CASE Block(u) \/ BlocksDone(u)
    BY <1>1, <2>6, BlockInv, BlocksDoneInv
  <2>7. QED
    BY <2>1, <2>2, <2>3, <2>4, <2>5, <2>6 DEF Actions
<1>4. QED
  BY <1>1, <1>2, <1>3

LEMMA InvAlways == GeneratorSpec => []Inv
<1>1. GeneratorInit => Inv
  BY InitInv
<1>2. Inv /\ [GeneratorNext]_generatorVars => Inv'
  BY StepInv
<1>3. QED
  BY <1>1, <1>2, PTL DEF GeneratorSpec

(* A byte of output is given once on a seed, two seeds have none in        *)
(* common, and the key left behind is not one that output was made with.   *)
THEOREM NoByteTwiceAlways == GeneratorSpec => []NoByteTwice
<1>1. Inv => NoByteTwice
  <2>1. SUFFICES ASSUME Inv PROVE NoByteTwice
    OBVIOUS
  <2>2. PICK org : Origin(asked, org) /\ \A u \in Users : Own(u, org)
    BY <2>1 DEF Inv, Origins
  <2>3. ASSUME NEW u \in Users, NEW w \in Users, NEW i \in DOMAIN stream[u], NEW j \in DOMAIN stream[w],
               stream[u][i] = stream[w][j], u = w \/ seed[u] # seed[w]
        PROVE  u = w /\ i = j
    <3>1. org[stream[u][i].block] = seed[u] /\ org[stream[w][j].block] = seed[w]
      BY <2>2 DEF Own
    <3>2. u = w
      BY <2>3, <3>1
    <3>3. i = j
      BY <2>1, <2>3, <3>2 DEF Inv, Fresh
    <3>4. QED
      BY <3>2, <3>3
  <2>4. ASSUME NEW u \in Users, pc[u] = "idle", NEW i \in DOMAIN stream[u]
        PROVE  asked[stream[u][i].block].key # K[u]
    <3>1. stream[u][i].block \in DOMAIN asked /\ stream[u][i].block < K[u]
      BY <2>1, <2>4 DEF Inv, Fresh
    <3>2. stream[u][i].block \in Nat
      BY <2>1, <3>1 DEF Inv, AskedOK
    <3>3. asked[stream[u][i].block].key \in 0..(stream[u][i].block - 1)
      BY <2>1, <3>1 DEF Inv, AskedOK, Older
    <3>4. K[u] \in Nat
      BY <2>1 DEF Inv, TypeOK
    <3>5. QED
      BY <3>1, <3>2, <3>3, <3>4
  <2>5. QED
    BY <2>3, <2>4 DEF NoByteTwice
<1>2. QED
  BY <1>1, InvAlways, PTL

------------------------------------------------------------------------------
(* The same stream for the same seed.                                      *)

(* A generator at some time, and the moves from one to the next: given the *)
(* questions that were put, only the length of a request is free.          *)
At(k, v, place, mixed, togo, asks, gave) ==
  [K |-> k, V |-> v, pc |-> place, material |-> mixed, left |-> togo,
   calls |-> asks, stream |-> gave]
State(u) == At(K[u], V[u], pc[u], material[u], left[u], calls[u], stream[u])
States ==
  [K : Nat, V : Int, pc : Places, material : Materials, left : Nat,
   calls : Seq(Lens), stream : Seq(Pieces)]

Start(s) == At(Zeros, Ones, "key0", s, 0, <<>>, <<>>)

Put(c, tag, mixed) == [key |-> c.K, val |-> c.V, tag |-> tag, mixed |-> mixed]

KeyMove(qs, c, d, from, tag, to) ==
  /\ c.pc = from
  /\ \E a \in DOMAIN qs : /\ qs[a] = Put(c, tag, c.material)
                          /\ d = At(a, c.V, to, c.material, c.left, c.calls, c.stream)
AfterVal(c, from) == IF from = "val0" /\ c.material # NoSeed THEN "key1" ELSE "idle"
ValMove(qs, c, d, from) ==
  /\ c.pc = from
  /\ \E a \in DOMAIN qs :
       /\ qs[a] = Put(c, "none", NoSeed)
       /\ d = At(c.K, a, AfterVal(c, from), c.material, c.left, c.calls, c.stream)
SizeOf(c) == IF OutLen > c.left THEN c.left ELSE OutLen
BlockMove(qs, c, d) ==
  /\ c.pc = "out" /\ c.left > 0
  /\ \E a \in DOMAIN qs :
       /\ qs[a] = Put(c, "none", NoSeed)
       /\ d = At(c.K, a, c.pc, c.material, c.left - SizeOf(c), c.calls,
                 c.stream \o [i \in 1..SizeOf(c) |-> [block |-> a, at |-> i]])
DoneMove(c, d) ==
  /\ c.pc = "out" /\ c.left = 0
  /\ d = At(c.K, c.V, "key0", NoSeed, c.left, c.calls, c.stream)
CallMove(c, d) ==
  /\ c.pc = "idle"
  /\ \E len \in Lens : d = At(c.K, c.V, "out", c.material, len, Append(c.calls, len), c.stream)

Move(qs, c, d) ==
  \/ KeyMove(qs, c, d, "key0", "zero", "val0") \/ ValMove(qs, c, d, "val0")
  \/ KeyMove(qs, c, d, "key1", "one", "val1") \/ ValMove(qs, c, d, "val1")
  \/ CallMove(c, d) \/ BlockMove(qs, c, d) \/ DoneMove(c, d)

Prefix(a, b) == Len(a) <= Len(b) /\ \A i \in 1..Len(a) : a[i] = b[i]

(* h goes from the start on seed s to where the generator is.              *)
Trail(qs, s, n, h) ==
  /\ h \in [1..n -> States]
  /\ h[1] = Start(s)
  /\ \A i \in 1..(n - 1) : Move(qs, h[i], h[i + 1])
  /\ \A i \in 1..n : Prefix(h[i].calls, h[n].calls)

Trailed(u) ==
  pc[u] # "unseeded" =>
    \E n \in Nat \ {0} : \E h : Trail(asked, seed[u], n, h) /\ h[n] = State(u)

LEMMA OneMove ==
  ASSUME NEW qs, NoDup(qs), NEW c \in States, NEW d, NEW e, Move(qs, c, d), Move(qs, c, e),
         c.pc # "idle"
  PROVE  d = e
<1>1. ASSUME NEW from, NEW tag, NEW to, KeyMove(qs, c, d, from, tag, to), KeyMove(qs, c, e, from, tag, to)
      PROVE  d = e
  BY <1>1 DEF KeyMove, NoDup
<1>2. ASSUME NEW from, ValMove(qs, c, d, from), ValMove(qs, c, e, from) PROVE d = e
  BY <1>2 DEF ValMove, NoDup
<1>3. ASSUME BlockMove(qs, c, d), BlockMove(qs, c, e) PROVE d = e
  BY <1>3 DEF BlockMove, NoDup
<1>4. ASSUME DoneMove(c, d), DoneMove(c, e) PROVE d = e
  BY <1>4 DEF DoneMove
<1>5. CASE c.pc = "key0"
  <2>1. \A x : Move(qs, c, x) => KeyMove(qs, c, x, "key0", "zero", "val0")
    BY <1>5 DEF Move, KeyMove, ValMove, CallMove, BlockMove, DoneMove
  <2>2. QED
    BY <1>1, <2>1
<1>6. CASE c.pc = "key1"
  <2>1. \A x : Move(qs, c, x) => KeyMove(qs, c, x, "key1", "one", "val1")
    BY <1>6 DEF Move, KeyMove, ValMove, CallMove, BlockMove, DoneMove
  <2>2. QED
    BY <1>1, <2>1
<1>7. CASE c.pc \in {"val0", "val1"}
  <2>1. \A x : Move(qs, c, x) => ValMove(qs, c, x, c.pc)
    BY <1>7 DEF Move, KeyMove, ValMove, CallMove, BlockMove, DoneMove
  <2>2. QED
    BY <1>2, <2>1
<1>8. CASE c.pc = "out" /\ c.left > 0
  <2>1. c.left # 0
    BY <1>8
  <2>2. \A x : ~DoneMove(c, x)
    BY <2>1 DEF DoneMove
  <2>3. \A x : Move(qs, c, x) => BlockMove(qs, c, x)
    BY <1>8, <2>2 DEF Move, KeyMove, ValMove, CallMove
  <2>4. QED
    BY <1>3, <2>3
<1>9. CASE c.pc = "out" /\ c.left = 0
  <2>1. \A x : Move(qs, c, x) => DoneMove(c, x)
    BY <1>9 DEF Move, KeyMove, ValMove, CallMove, BlockMove, DoneMove
  <2>2. QED
    BY <1>4, <2>1
<1>10. c.left \in Nat /\ c.pc \in Places
  BY DEF States
<1>11. c.pc # "unseeded"
  BY DEF Move, KeyMove, ValMove, CallMove, BlockMove, DoneMove
<1>12. QED
  BY <1>5, <1>6, <1>7, <1>8, <1>9, <1>10, <1>11 DEF Places

(* An idle generator goes on with a request.                               *)
LEMMA IdleMoves ==
  ASSUME NEW qs, NEW c \in States, NEW d, Move(qs, c, d), c.pc = "idle"
  PROVE  CallMove(c, d)
BY DEF Move, KeyMove, ValMove, BlockMove, DoneMove

(* Two trails for the same requests are the same as long as both go.       *)
LEMMA SameWay ==
  ASSUME NEW qs, NoDup(qs), NEW s, NEW n \in Nat \ {0}, NEW m \in Nat \ {0}, NEW g, NEW h,
         Trail(qs, s, n, h), Trail(qs, s, m, g), h[n].calls = g[m].calls, n <= m
  PROVE  \A i \in 1..n : h[i] = g[i]
<1> DEFINE S == {i \in Nat : i + 1 <= n => h[i + 1] = g[i + 1]}
<1>1. 0 \in S
  BY DEF Trail
<1>2. ASSUME NEW i \in 0..((n - 1) - 1), i \in S PROVE i + 1 \in S
  <2> DEFINE c == h[i + 1]
             d == h[(i + 1) + 1]
             e == g[(i + 1) + 1]
  <2>1. i + 1 \in 1..(n - 1) /\ i + 1 \in 1..(m - 1) /\ i + 1 <= n /\ i + 1 \in Nat
        /\ (i + 1) + 1 \in 1..n /\ (i + 1) + 1 \in 1..m /\ i + 1 \in 1..n
    OBVIOUS
  <2>2. c = g[i + 1] /\ c \in States /\ Move(qs, c, d) /\ Move(qs, c, e) /\ d \in States /\ e \in States
    BY <1>2, <2>1 DEF Trail
  <2>3. Prefix(d.calls, h[n].calls) /\ Prefix(e.calls, h[n].calls)
    BY <2>1 DEF Trail
  <2> HIDE DEF c, d, e
  <2>4. CASE c.pc = "idle"
    <3>1. CallMove(c, d) /\ CallMove(c, e)
      BY <2>2, <2>4, IdleMoves
    <3>2. PICK l1 \in Lens : d = At(c.K, c.V, "out", c.material, l1, Append(c.calls, l1), c.stream)
      BY <3>1 DEF CallMove
    <3>3. PICK l2 \in Lens : e = At(c.K, c.V, "out", c.material, l2, Append(c.calls, l2), c.stream)
      BY <3>1 DEF CallMove
    <3>4. c.calls \in Seq(Lens)
      BY <2>2 DEF States
    <3>5. d.calls = Append(c.calls, l1) /\ e.calls = Append(c.calls, l2)
      BY <3>2, <3>3 DEF At
    <3> DEFINE k == Len(c.calls) + 1
    <3>6. Len(d.calls) = k /\ d.calls[k] = l1 /\ Len(e.calls) = k /\ e.calls[k] = l2 /\ k \in Nat /\ k >= 1
      BY <3>4, <3>5
    <3> HIDE DEF k
    <3>7. h[n].calls[k] = l1 /\ h[n].calls[k] = l2
      BY <2>3, <3>6 DEF Prefix
    <3>8. QED
      BY <3>2, <3>3, <3>7, <2>1 DEF d, e
  <2>5. CASE c.pc # "idle"
    <3>1. d = e
      BY <2>2, <2>5, OneMove
    <3>2. QED
      BY <3>1, <2>1 DEF d, e
  <2>6. QED
    BY <2>4, <2>5
<1> HIDE DEF S
<1>3. \A i \in 0..(n - 1) : i \in S
  BY <1>1, <1>2, UpTo
<1>4. ASSUME NEW i \in 1..n PROVE h[i] = g[i]
  <2>1. i - 1 \in 0..(n - 1) /\ (i - 1) + 1 = i
    OBVIOUS
  <2>2. i - 1 \in S
    BY <1>3, <2>1
  <2>3. QED
    BY <2>1, <2>2 DEF S
<1>5. QED
  BY <1>4

(* If both end idle, they end at the same place: an idle generator that    *)
(* goes on has one more request.                                           *)
LEMMA SameEnd ==
  ASSUME NEW qs, NoDup(qs), NEW s, NEW n \in Nat \ {0}, NEW m \in Nat \ {0}, NEW g, NEW h,
         Trail(qs, s, n, h), Trail(qs, s, m, g), h[n].calls = g[m].calls, n <= m,
         h[n].pc = "idle"
  PROVE  h[n] = g[m]
<1>1. h[n] = g[n]
  BY SameWay
<1>2. ASSUME n < m PROVE FALSE
  <2> DEFINE c == g[n]
             d == g[n + 1]
  <2>1. n \in 1..(m - 1) /\ n \in 1..m /\ n + 1 \in 1..m
    BY <1>2
  <2>2. c \in States /\ Move(qs, c, d) /\ Prefix(d.calls, g[m].calls)
    BY <2>1 DEF Trail
  <2>3. c.pc = "idle" /\ c.calls = g[m].calls
    BY <1>1
  <2> HIDE DEF c, d
  <2>4. CallMove(c, d)
    BY <2>2, <2>3, IdleMoves
  <2>5. PICK len \in Lens : d = At(c.K, c.V, "out", c.material, len, Append(c.calls, len), c.stream)
    BY <2>4 DEF CallMove
  <2>6. c.calls \in Seq(Lens) /\ d.calls = Append(c.calls, len)
    BY <2>2, <2>5 DEF States, At
  <2>7. Len(d.calls) = Len(c.calls) + 1 /\ Len(c.calls) \in Nat
    BY <2>6
  <2>8. QED
    BY <2>2, <2>3, <2>7 DEF Prefix
<1>3. n = m
  BY <1>2
<1>4. QED
  BY <1>1, <1>3

LEMMA MoveStays ==
  ASSUME NEW qs, NEW rs, Extends(qs, rs), NEW c, NEW d, Move(qs, c, d)
  PROVE  Move(rs, c, d)
<1>1. \A i \in DOMAIN qs : i \in DOMAIN rs /\ rs[i] = qs[i]
  BY DEF Extends
<1>2. \A from, tag, to : KeyMove(qs, c, d, from, tag, to) => KeyMove(rs, c, d, from, tag, to)
  BY <1>1 DEF KeyMove
<1>3. \A from : ValMove(qs, c, d, from) => ValMove(rs, c, d, from)
  BY <1>1 DEF ValMove
<1>4. BlockMove(qs, c, d) => BlockMove(rs, c, d)
  BY <1>1 DEF BlockMove
<1>5. QED
  BY <1>2, <1>3, <1>4 DEF Move

LEMMA TrailStays ==
  ASSUME NEW qs, NEW rs, Extends(qs, rs), NEW s, NEW n, NEW h, Trail(qs, s, n, h)
  PROVE  Trail(rs, s, n, h)
BY MoveStays DEF Trail

(* A trail and one more move.                                              *)
LEMMA OneMoveMore ==
  ASSUME NEW qs, NEW s, NEW n \in Nat \ {0}, NEW h, Trail(qs, s, n, h),
         NEW d \in States, Move(qs, h[n], d), Prefix(h[n].calls, d.calls)
  PROVE  \E g : Trail(qs, s, n + 1, g) /\ g[n + 1] = d
<1> DEFINE g == [i \in 1..(n + 1) |-> IF i <= n THEN h[i] ELSE d]
<1>1. /\ h \in [1..n -> States] /\ h[1] = Start(s)
      /\ \A i \in 1..(n - 1) : Move(qs, h[i], h[i + 1])
      /\ \A i \in 1..n : Prefix(h[i].calls, h[n].calls)
  BY DEF Trail
<1>2. g \in [1..(n + 1) -> States] /\ (\A i \in 1..n : g[i] = h[i]) /\ g[n + 1] = d
  BY <1>1
<1> HIDE DEF g
<1>3. g[1] = Start(s)
  <2>1. 1 \in 1..n
    OBVIOUS
  <2>2. QED
    BY <1>1, <1>2, <2>1
<1>4. ASSUME NEW i \in 1..((n + 1) - 1) PROVE Move(qs, g[i], g[i + 1])
  <2>1. CASE i = n
    <3>1. g[i] = h[n] /\ g[i + 1] = d
      BY <1>2, <2>1
    <3>2. QED
      BY <3>1
  <2>2. CASE i # n
    <3>1. i \in 1..(n - 1) /\ i \in 1..n /\ i + 1 \in 1..n
      BY <2>2
    <3>2. g[i] = h[i] /\ g[i + 1] = h[i + 1]
      BY <1>2, <3>1
    <3>3. Move(qs, h[i], h[i + 1])
      BY <1>1, <3>1
    <3>4. QED
      BY <3>2, <3>3
  <2>3. QED
    BY <2>1, <2>2
<1>5. ASSUME NEW i \in 1..(n + 1) PROVE Prefix(g[i].calls, g[n + 1].calls)
  <2>1. d.calls \in Seq(Lens) /\ Len(d.calls) \in Nat
    BY DEF States
  <2>2. CASE i = n + 1
    BY <1>2, <2>1, <2>2 DEF Prefix
  <2>3. CASE i # n + 1
    <3>1. i \in 1..n
      BY <2>3
    <3>2. g[i] = h[i] /\ h[i] \in States /\ h[n] \in States
      BY <1>1, <1>2, <3>1
    <3>3. Len(h[i].calls) \in Nat /\ Len(h[n].calls) \in Nat
      <4>1. h[i].calls \in Seq(Lens) /\ h[n].calls \in Seq(Lens)
        BY <3>2 DEF States
      <4>2. QED
        BY <4>1
    <3>4. Prefix(h[i].calls, h[n].calls)
      BY <1>1, <3>1
    <3>5. Prefix(h[i].calls, d.calls)
      <4>1. Len(h[i].calls) <= Len(h[n].calls) /\ Len(h[n].calls) <= Len(d.calls)
            /\ Len(h[i].calls) <= Len(d.calls)
        BY <2>1, <3>3, <3>4 DEF Prefix
      <4>2. ASSUME NEW j \in 1..Len(h[i].calls) PROVE h[i].calls[j] = d.calls[j]
        <5>1. j \in 1..Len(h[n].calls)
          BY <3>3, <4>1
        <5>2. h[i].calls[j] = h[n].calls[j] /\ h[n].calls[j] = d.calls[j]
          BY <3>4, <5>1 DEF Prefix
        <5>3. QED
          BY <5>2
      <4>3. QED
        BY <4>1, <4>2 DEF Prefix
    <3>6. QED
      BY <1>2, <3>2, <3>5
  <2>4. QED
    BY <2>2, <2>3
<1>6. Trail(qs, s, n + 1, g)
  BY <1>2, <1>3, <1>4, <1>5 DEF Trail
<1>7. QED
  BY <1>2, <1>6

(* Who stands still keeps its trail.                                       *)
LEMMA TrailedStays ==
  ASSUME NEW w \in Users, Trailed(w), UnchangedFor(w), Extends(asked, asked')
  PROVE  Trailed(w)'
<1>1. SUFFICES ASSUME pc'[w] # "unseeded"
               PROVE  \E n \in Nat \ {0} : \E h : Trail(asked', seed'[w], n, h) /\ h[n] = State(w)'
  BY DEF Trailed
<1>2. seed'[w] = seed[w] /\ State(w)' = State(w)
  BY DEF UnchangedFor, State
<1>3. pc[w] # "unseeded"
  BY <1>1 DEF UnchangedFor
<1>4. PICK n \in Nat \ {0} : \E h : Trail(asked, seed[w], n, h) /\ h[n] = State(w)
  BY <1>3 DEF Trailed
<1>5. PICK h : Trail(asked, seed[w], n, h) /\ h[n] = State(w)
  BY <1>4
<1>6. Trail(asked', seed[w], n, h)
  BY <1>5, TrailStays
<1>7. QED
  BY <1>2, <1>5, <1>6

(* Who moves goes on with its trail.                                       *)
LEMMA TrailedMoves ==
  ASSUME NEW u \in Users, Trailed(u), pc[u] # "unseeded", seed'[u] = seed[u],
         Extends(asked, asked'), State(u)' \in States, Move(asked', State(u), State(u)'),
         Prefix(calls[u], calls'[u])
  PROVE  Trailed(u)'
<1>1. PICK n \in Nat \ {0} : \E h : Trail(asked, seed[u], n, h) /\ h[n] = State(u)
  BY DEF Trailed
<1>2. PICK h : Trail(asked, seed[u], n, h) /\ h[n] = State(u)
  BY <1>1
<1>3. Trail(asked', seed[u], n, h)
  BY <1>2, TrailStays
<1>4. h[n].calls = calls[u] /\ State(u)'.calls = calls'[u]
  BY <1>2 DEF State, At
<1> DEFINE d == State(u)'
           qs == asked'
<1>5. d \in States /\ Move(qs, h[n], d) /\ Prefix(h[n].calls, d.calls) /\ Trail(qs, seed[u], n, h)
  BY <1>2, <1>3, <1>4
<1> HIDE DEF d, qs
<1>6. \E g : Trail(qs, seed[u], n + 1, g) /\ g[n + 1] = d
  BY <1>5, OneMoveMore
<1>7. \E g : Trail(asked', seed'[u], n + 1, g) /\ g[n + 1] = State(u)'
  BY <1>6 DEF d, qs
<1>8. n + 1 \in Nat \ {0}
  OBVIOUS
<1>9. QED
  BY <1>7, <1>8 DEF Trailed

LEMMA StateIs ==
  ASSUME TypeOK, NEW u \in Users
  PROVE  State(u) \in States
BY DEF TypeOK, State, At, States

LEMMA Fields ==
  ASSUME NEW u
  PROVE  /\ State(u).K = K[u] /\ State(u).V = V[u] /\ State(u).pc = pc[u]
         /\ State(u).material = material[u] /\ State(u).left = left[u]
         /\ State(u).calls = calls[u] /\ State(u).stream = stream[u]
BY DEF State, At

LEMMA AskedNow ==
  ASSUME Inv, NEW u \in Users, NEW tag \in {"zero", "one", "none"}, NEW mixed \in Materials,
         Ask(Question(u, tag, mixed))
  PROVE  LET a == Answer(Question(u, tag, mixed))
         IN Extends(asked, asked') /\ a \in DOMAIN asked' /\ asked'[a] = Put(State(u), tag, mixed)
<1> DEFINE q == Question(u, tag, mixed)
<1>1. AskedOK /\ TypeOK /\ Fresh(u)
  BY DEF Inv
<1>2. K[u] \in Nat /\ V[u] \in Int /\ K[u] <= Len(asked) /\ V[u] \in (-1)..Len(asked)
  BY <1>1 DEF TypeOK, Fresh
<1>3. q \in Questions /\ q.key = K[u] /\ q.val = V[u]
  BY <1>2 DEF Question, Questions
<1>4. q = Put(State(u), tag, mixed)
  BY DEF Question, Put, State, At
<1>5. Len(asked) \in Nat
  BY <1>1 DEF AskedOK
<1>6. q.key \in 0..Len(asked) /\ q.val \in (-1)..Len(asked)
  BY <1>2, <1>3, <1>5
<1>7. Ask(q)
  OBVIOUS
<1> HIDE DEF q
<1>8. Extends(asked, asked') /\ Answer(q) \in DOMAIN asked' /\ asked'[Answer(q)] = q
  BY <1>1, <1>3, <1>6, <1>7, AnswerIs
<1>9. QED
  BY <1>4, <1>8 DEF q

LEMMA NotAsked ==
  ASSUME Inv, UNCHANGED asked PROVE Extends(asked, asked')
BY DEF Inv, AskedOK, Extends

LEMMA SamePrefix ==
  ASSUME TypeOK, NEW u \in Users, calls'[u] = calls[u] PROVE Prefix(calls[u], calls'[u])
<1>1. calls[u] \in Seq(Lens)
  BY DEF TypeOK
<1>2. QED
  BY <1>1 DEF Prefix

(* What UpdateKey, UpdateVal, Block, BlocksDone and Generate do to the     *)
(* generator is a move.                                                    *)
LEMMA KeyTrailed ==
  ASSUME Inv, TypeOK', NEW u \in Users, Trailed(u), NEW from \in Places \ {"unseeded"},
         NEW tag \in {"zero", "one"}, NEW to, UpdateKey(u, from, tag, to),
         <<from, tag, to>> \in {<<"key0", "zero", "val0">>, <<"key1", "one", "val1">>}
  PROVE  Extends(asked, asked') /\ Trailed(u)'
<1> DEFINE a == Answer(Question(u, tag, material[u]))
<1>1. TypeOK /\ material[u] \in Materials
  BY DEF Inv, TypeOK
<1>2. /\ pc[u] = from /\ Ask(Question(u, tag, material[u]))
      /\ K' = [K EXCEPT ![u] = a] /\ pc' = [pc EXCEPT ![u] = to]
      /\ UNCHANGED <<V, material, left, seed, calls, stream>>
  BY DEF UpdateKey
<1>3. Extends(asked, asked') /\ a \in DOMAIN asked'
      /\ asked'[a] = Put(State(u), tag, material[u])
  BY <1>1, <1>2, AskedNow
<1> HIDE DEF a
<1>4. State(u)' = At(a, V[u], to, material[u], left[u], calls[u], stream[u])
  <2>1. K'[u] = a /\ V'[u] = V[u] /\ pc'[u] = to /\ material'[u] = material[u] /\ left'[u] = left[u]
       /\ calls'[u] = calls[u] /\ stream'[u] = stream[u]
    BY <1>1, <1>2 DEF TypeOK
  <2>2. QED
    BY <2>1 DEF State
<1>5. State(u).pc = from
  BY <1>2, Fields
<1>6. KeyMove(asked', State(u), State(u)', from, tag, to)
  BY <1>3, <1>4, <1>5, Fields DEF KeyMove
<1>7. Move(asked', State(u), State(u)')
  BY <1>6 DEF Move
<1>8. State(u)' \in States
  <2>1. \A x \in Users : State(x)' \in States
    BY DEF TypeOK, State, At, States
  <2>2. QED
    BY <2>1
<1>9. Prefix(calls[u], calls'[u])
  BY <1>1, <1>2, SamePrefix
<1>10. QED
  BY <1>2, <1>3, <1>7, <1>8, <1>9, TrailedMoves

LEMMA ValTrailed ==
  ASSUME Inv, TypeOK', NEW u \in Users, Trailed(u), NEW from \in {"val0", "val1"},
         UpdateVal(u, from)
  PROVE  Extends(asked, asked') /\ Trailed(u)'
<1> DEFINE a == Answer(Question(u, "none", NoSeed))
           to == IF from = "val0" /\ material[u] # NoSeed THEN "key1" ELSE "idle"
<1>1. TypeOK /\ NoSeed \in Materials
  BY DEF Inv, Materials
<1>2. /\ pc[u] = from /\ Ask(Question(u, "none", NoSeed))
      /\ V' = [V EXCEPT ![u] = a] /\ pc' = [pc EXCEPT ![u] = to]
      /\ UNCHANGED <<K, material, left, seed, calls, stream>>
  BY DEF UpdateVal
<1>3. Extends(asked, asked') /\ a \in DOMAIN asked'
      /\ asked'[a] = Put(State(u), "none", NoSeed)
  BY <1>1, <1>2, AskedNow
<1>4. State(u).pc = from /\ to = AfterVal(State(u), from)
  BY <1>2, Fields DEF AfterVal
<1>5. State(u)' = At(K[u], a, to, material[u], left[u], calls[u], stream[u])
  <2> HIDE DEF a, to
  <2>1. K'[u] = K[u] /\ V'[u] = a /\ pc'[u] = to /\ material'[u] = material[u] /\ left'[u] = left[u]
       /\ calls'[u] = calls[u] /\ stream'[u] = stream[u]
    BY <1>1, <1>2 DEF TypeOK
  <2>2. QED
    BY <2>1 DEF State
<1> HIDE DEF a, to
<1>6. ValMove(asked', State(u), State(u)', from)
  BY <1>3, <1>4, <1>5, Fields DEF ValMove
<1>7. Move(asked', State(u), State(u)')
  BY <1>6 DEF Move
<1>8. State(u)' \in States
  <2>1. \A x \in Users : State(x)' \in States
    BY DEF TypeOK, State, At, States
  <2>2. QED
    BY <2>1
<1>9. Prefix(calls[u], calls'[u])
  BY <1>1, <1>2, SamePrefix
<1>10. pc[u] # "unseeded"
  BY <1>2
<1>11. QED
  BY <1>2, <1>3, <1>7, <1>8, <1>9, <1>10, TrailedMoves

LEMMA BlockTrailed ==
  ASSUME Inv, TypeOK', NEW u \in Users, Trailed(u), Block(u)
  PROVE  Extends(asked, asked') /\ Trailed(u)'
<1> DEFINE a == Answer(Question(u, "none", NoSeed))
           size == IF OutLen > left[u] THEN left[u] ELSE OutLen
           given == [i \in 1..size |-> [block |-> a, at |-> i]]
<1>1. TypeOK /\ NoSeed \in Materials
  BY DEF Inv, Materials
<1>2. /\ pc[u] = "out" /\ left[u] > 0 /\ Ask(Question(u, "none", NoSeed))
      /\ V' = [V EXCEPT ![u] = a]
      /\ stream' = [stream EXCEPT ![u] = stream[u] \o given]
      /\ left' = [left EXCEPT ![u] = left[u] - size]
      /\ UNCHANGED <<K, pc, material, seed, calls>>
  BY DEF Block, Kept
<1>3. Extends(asked, asked') /\ a \in DOMAIN asked'
      /\ asked'[a] = Put(State(u), "none", NoSeed)
  BY <1>1, <1>2, AskedNow
<1>4. SizeOf(State(u)) = size /\ given = [i \in 1..SizeOf(State(u)) |-> [block |-> a, at |-> i]]
  BY Fields DEF SizeOf
<1>5. State(u)' = At(K[u], a, pc[u], material[u], left[u] - size, calls[u], stream[u] \o given)
  <2> HIDE DEF a, size, given
  <2>1. K'[u] = K[u] /\ V'[u] = a /\ pc'[u] = pc[u] /\ material'[u] = material[u]
       /\ left'[u] = left[u] - size /\ calls'[u] = calls[u] /\ stream'[u] = stream[u] \o given
    BY <1>1, <1>2 DEF TypeOK
  <2>2. QED
    BY <2>1 DEF State
<1> HIDE DEF a, size, given
<1>6. BlockMove(asked', State(u), State(u)')
  <2>1. State(u).pc = "out" /\ State(u).left > 0
    BY <1>2, Fields
  <2>2. State(u)' = At(State(u).K, a, State(u).pc, State(u).material,
                       State(u).left - SizeOf(State(u)), State(u).calls,
                       State(u).stream \o [i \in 1..SizeOf(State(u)) |-> [block |-> a, at |-> i]])
    BY <1>4, <1>5, Fields
  <2>3. QED
    BY <1>3, <2>1, <2>2 DEF BlockMove
<1>7. Move(asked', State(u), State(u)')
  BY <1>6 DEF Move
<1>8. State(u)' \in States
  <2>1. \A x \in Users : State(x)' \in States
    BY DEF TypeOK, State, At, States
  <2>2. QED
    BY <2>1
<1>9. Prefix(calls[u], calls'[u])
  BY <1>1, <1>2, SamePrefix
<1>10. pc[u] # "unseeded"
  BY <1>2
<1>11. QED
  BY <1>2, <1>3, <1>7, <1>8, <1>9, <1>10, TrailedMoves

LEMMA DoneTrailed ==
  ASSUME Inv, TypeOK', NEW u \in Users, Trailed(u), BlocksDone(u)
  PROVE  Extends(asked, asked') /\ Trailed(u)'
<1>1. TypeOK
  BY DEF Inv
<1>2. /\ pc[u] = "out" /\ left[u] = 0 /\ pc' = [pc EXCEPT ![u] = "key0"]
      /\ material' = [material EXCEPT ![u] = NoSeed]
      /\ UNCHANGED <<asked, K, V, left, seed, calls, stream>>
  BY DEF BlocksDone, AfterOutput
<1>3. State(u)' = At(K[u], V[u], "key0", NoSeed, left[u], calls[u], stream[u])
  <2>1. K'[u] = K[u] /\ V'[u] = V[u] /\ pc'[u] = "key0" /\ material'[u] = NoSeed /\ left'[u] = left[u]
       /\ calls'[u] = calls[u] /\ stream'[u] = stream[u]
    BY <1>1, <1>2 DEF TypeOK
  <2>2. QED
    BY <2>1 DEF State
<1>4. DoneMove(State(u), State(u)')
  BY <1>2, <1>3, Fields DEF DoneMove
<1>5. Move(asked', State(u), State(u)')
  BY <1>4 DEF Move
<1>6. State(u)' \in States
  <2>1. \A x \in Users : State(x)' \in States
    BY DEF TypeOK, State, At, States
  <2>2. QED
    BY <2>1
<1>7. Prefix(calls[u], calls'[u]) /\ Extends(asked, asked')
  BY <1>1, <1>2, SamePrefix, NotAsked
<1>8. pc[u] # "unseeded"
  BY <1>2
<1>9. QED
  BY <1>2, <1>5, <1>6, <1>7, <1>8, TrailedMoves

LEMMA CallTrailed ==
  ASSUME Inv, TypeOK', NEW u \in Users, Trailed(u), NEW len \in Lens, Generate(u, len)
  PROVE  Extends(asked, asked') /\ Trailed(u)'
<1>1. TypeOK /\ calls[u] \in Seq(Lens)
  BY DEF Inv, TypeOK
<1>2. /\ pc[u] = "idle" /\ left' = [left EXCEPT ![u] = len] /\ pc' = [pc EXCEPT ![u] = "out"]
      /\ calls' = [calls EXCEPT ![u] = Append(calls[u], len)]
      /\ UNCHANGED <<asked, K, V, material, seed, stream>>
  BY DEF Generate
<1>3. State(u)' = At(K[u], V[u], "out", material[u], len, Append(calls[u], len), stream[u])
  <2>1. K'[u] = K[u] /\ V'[u] = V[u] /\ pc'[u] = "out" /\ material'[u] = material[u] /\ left'[u] = len
       /\ calls'[u] = Append(calls[u], len) /\ stream'[u] = stream[u]
    BY <1>1, <1>2 DEF TypeOK
  <2>2. QED
    BY <2>1 DEF State
<1>4. State(u).pc = "idle"
  BY <1>2, Fields
<1>5. CallMove(State(u), State(u)')
  BY <1>3, <1>4, Fields DEF CallMove
<1>6. Move(asked', State(u), State(u)')
  BY <1>5 DEF Move
<1>7. State(u)' \in States
  <2>1. \A x \in Users : State(x)' \in States
    BY DEF TypeOK, State, At, States
  <2>2. QED
    BY <2>1
<1>8. calls'[u] = Append(calls[u], len)
  BY <1>1, <1>2 DEF TypeOK
<1>9. Prefix(calls[u], calls'[u])
  BY <1>1, <1>8 DEF Prefix
<1>10. Extends(asked, asked')
  BY <1>2, NotAsked
<1>11. pc[u] # "unseeded"
  BY <1>2
<1>12. QED
  BY <1>2, <1>6, <1>7, <1>9, <1>10, <1>11, TrailedMoves

(* A trail begins.                                                         *)
LEMMA StartTrailed ==
  ASSUME Inv, TypeOK', NEW u \in Users, NEW s \in Seeds, DrbgInit(u, s)
  PROVE  Extends(asked, asked') /\ Trailed(u)'
<1>1. TypeOK /\ Fresh(u)
  BY DEF Inv
<1>2. /\ pc[u] \in {"unseeded", "idle"}
      /\ K' = [K EXCEPT ![u] = Zeros] /\ V' = [V EXCEPT ![u] = Ones]
      /\ pc' = [pc EXCEPT ![u] = "key0"] /\ material' = [material EXCEPT ![u] = s]
      /\ seed' = [seed EXCEPT ![u] = s] /\ calls' = [calls EXCEPT ![u] = <<>>]
      /\ stream' = [stream EXCEPT ![u] = <<>>] /\ UNCHANGED <<asked, left>>
  BY DEF DrbgInit, NobodyCalls, StartVal
<1>3. left[u] = 0
  BY <1>1, <1>2 DEF Fresh
<1>4. State(u)' = Start(s) /\ seed'[u] = s
  <2>1. K'[u] = Zeros /\ V'[u] = Ones /\ pc'[u] = "key0" /\ material'[u] = s /\ left'[u] = 0
       /\ calls'[u] = <<>> /\ stream'[u] = <<>> /\ seed'[u] = s
    BY <1>1, <1>2, <1>3 DEF TypeOK
  <2>2. QED
    BY <2>1 DEF State, Start
<1>5. State(u)' \in States
  <2>1. \A x \in Users : State(x)' \in States
    BY DEF TypeOK, State, At, States
  <2>2. QED
    BY <2>1
<1> DEFINE h == [i \in 1..1 |-> Start(s)]
<1>6. Trail(asked', s, 1, h)
  <2>1. h \in [1..1 -> States] /\ h[1] = Start(s) /\ 1..(1 - 1) = {}
    BY <1>4, <1>5
  <2>2. \A i \in 1..1 : Prefix(h[i].calls, h[1].calls)
    BY DEF Prefix, Start
  <2> HIDE DEF h
  <2>3. QED
    BY <2>1, <2>2 DEF Trail
<1>7. h[1] = Start(s)
  OBVIOUS
<1> HIDE DEF h
<1>8. Trailed(u)'
  BY <1>4, <1>6, <1>7 DEF Trailed
<1>9. Extends(asked, asked')
  BY <1>2, NotAsked
<1>10. QED
  BY <1>8, <1>9

AllTrailed == Inv /\ \A u \in Users : Trailed(u)

LEMMA TrailedStep ==
  ASSUME AllTrailed, Inv', NEW u \in Users, Actions(u)
  PROVE  AllTrailed'
<1>1. Inv /\ TypeOK /\ TypeOK' /\ Trailed(u)
  BY DEF AllTrailed, Inv
<1>2. Extends(asked, asked') /\ Trailed(u)'
  <2>1. CASE \E s \in Seeds : DrbgInit(u, s)
    BY <1>1, <2>1, StartTrailed
  <2>2. CASE UpdateKey(u, "key0", "zero", "val0")
    BY <1>1, <2>2, KeyTrailed DEF Places
  <2>3. CASE UpdateKey(u, "key1", "one", "val1")
    BY <1>1, <2>3, KeyTrailed DEF Places
  <2>4. CASE UpdateVal(u, "val0") \/ UpdateVal(u, "val1")
    BY <1>1, <2>4, ValTrailed
  <2>5. CASE \E len \in Lens : Generate(u, len)
    BY <1>1, <2>5, CallTrailed
  <2>6. CASE Block(u)
    BY <1>1, <2>6, BlockTrailed
  <2>7. CASE BlocksDone(u)
    BY <1>1, <2>7, DoneTrailed
  <2>8. QED
    BY <2>1, <2>2, <2>3, <2>4, <2>5, <2>6, <2>7 DEF Actions
<1>3. ASSUME NEW w \in Users, w # u PROVE Trailed(w)'
  BY <1>1, <1>2, <1>3, OthersStandStill, TrailedStays DEF AllTrailed
<1>4. QED
  BY <1>2, <1>3 DEF AllTrailed

LEMMA AllTrailedAlways == GeneratorSpec => []AllTrailed
<1>1. GeneratorInit => AllTrailed
  <2>1. GeneratorInit => \A u \in Users : Trailed(u)
    BY DEF GeneratorInit, Trailed
  <2>2. QED
    BY <2>1, InitInv DEF AllTrailed
<1>2. AllTrailed /\ Inv' /\ [GeneratorNext]_generatorVars => AllTrailed'
  <2>1. SUFFICES ASSUME AllTrailed, Inv', [GeneratorNext]_generatorVars PROVE AllTrailed'
    OBVIOUS
  <2>2. CASE GeneratorNext
    <3>1. PICK u \in Users : Actions(u)
      BY <2>2 DEF GeneratorNext, Actions
    <3>2. QED
      BY <2>1, <3>1, TrailedStep
  <2>3. CASE UNCHANGED generatorVars
    <3>1. \A u \in Users : UnchangedFor(u)
      BY <2>3 DEF generatorVars, UnchangedFor
    <3>2. Extends(asked, asked')
      BY <2>1, <2>3, NotAsked DEF generatorVars, AllTrailed
    <3>3. QED
      BY <2>1, <3>1, <3>2, TrailedStays DEF AllTrailed
  <2>4. QED
    BY <2>1, <2>2, <2>3
<1>3. QED
  BY <1>1, <1>2, InvAlways, PTL DEF GeneratorSpec

(* Two generators seeded alike and asked for the same lengths have given   *)
(* the same bytes and hold the same key and value, whatever was done in    *)
(* between and before: goo_drbg_init forgets, and goo_drbg_generate and    *)
(* goo_drbg_update do nothing that depends on anything else.               *)
THEOREM SameSeedSameStreamAlways == GeneratorSpec => []SameSeedSameStream
<1>1. AllTrailed => SameSeedSameStream
  <2>1. SUFFICES ASSUME AllTrailed, NEW u \in Users, NEW w \in Users,
                        pc[u] = "idle", pc[w] = "idle", seed[u] = seed[w], calls[u] = calls[w]
                 PROVE  stream[u] = stream[w] /\ K[u] = K[w] /\ V[u] = V[w]
    BY DEF SameSeedSameStream
  <2>2. NoDup(asked)
    BY <2>1 DEF AllTrailed, Inv, AskedOK
  <2>3. PICK n \in Nat \ {0} : \E h : Trail(asked, seed[u], n, h) /\ h[n] = State(u)
    BY <2>1 DEF AllTrailed, Trailed
  <2>4. PICK h : Trail(asked, seed[u], n, h) /\ h[n] = State(u)
    BY <2>3
  <2>5. PICK m \in Nat \ {0} : \E g : Trail(asked, seed[u], m, g) /\ g[m] = State(w)
    BY <2>1 DEF AllTrailed, Trailed
  <2>6. PICK g : Trail(asked, seed[u], m, g) /\ g[m] = State(w)
    BY <2>5
  <2>7. h[n].calls = g[m].calls /\ h[n].pc = "idle" /\ g[m].pc = "idle"
    BY <2>1, <2>4, <2>6, Fields
  <2>8. State(u) = State(w)
    <3>1. h[n] = g[m]
      <4>1. CASE n <= m
        BY <2>2, <2>4, <2>6, <2>7, <4>1, SameEnd
      <4>2. CASE m <= n
        BY <2>2, <2>4, <2>6, <2>7, <4>2, SameEnd
      <4>3. QED
        BY <4>1, <4>2
    <3>2. QED
      BY <2>4, <2>6, <3>1
  <2>9. QED
    BY <2>8, Fields
<1>2. QED
  BY <1>1, AllTrailedAlways, PTL
==============================================================================
