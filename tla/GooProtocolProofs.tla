-------------------------- MODULE GooProtocolProofs --------------------------
(***************************************************************************)
(* Proofs about GooProtocol, for all keys, widths, draws and tests of      *)
(* primality.  The invariants, each kept on top of those before it:        *)
(*   TypeOK    ranges;                                                     *)
(*   IInv      what sign knows at each point and what an honest signature  *)
(*             is, from which a signature verifies;                        *)
(*   FormInv   a proof has one form, and a challenge is the same whichever *)
(*             context made it: what the last call was given, and that     *)
(*             every commitment to a modulus was made with the s that the  *)
(*             stream of its s_prime begins with;                          *)
(*   DrawInv   signing is deterministic: where in which stream each number *)
(*             of a signature was drawn, so that the streams determine it; *)
(*   RootInv   the assertions of sign hold: what w and a are.              *)
(***************************************************************************)
EXTENDS GooProtocol, WellFoundedInduction, TLAPS

(* Division by ell, exact and rounded down whatever the sign of x.         *)
LEMMA Euclid ==
  ASSUME NEW x \in Int, NEW l \in Nat, l > 0
  PROVE  /\ x \div l \in Int /\ x % l \in Int
         /\ x = (x \div l) * l + (x % l)
         /\ 0 <= x % l /\ x % l < l
BY SMT

(* q and r are the quotient and the residue of x by l: there is one pair.  *)
Divided(x, l, q, r) ==
  q \in Int /\ r \in Int /\ x = q * l + r /\ 0 <= r /\ r < l

LEMMA OneQuotient ==
  ASSUME NEW l \in Nat, l > 0, NEW x \in Int,
         NEW q1, NEW r1, NEW q2, NEW r2,
         Divided(x, l, q1, r1), Divided(x, l, q2, r2)
  PROVE  q1 = q2 /\ r1 = r2
<1> USE DEF Divided
<1>1. \A u, v \in Int : u < v => (v - u) * l >= l
  BY SMT
<1>2. \A u, v \in Int : (v - u) * l = v * l - u * l
  BY SMT
<1>3. ~(q1 < q2)
  BY <1>1, <1>2
<1>4. ~(q2 < q1)
  BY <1>1, <1>2
<1>5. q1 = q2
  BY <1>3, <1>4
<1>6. QED
  BY <1>5

(* The difference of two residues has the residue of the difference, and   *)
(* the quotient of the difference completes it.                            *)
LEMMA DifferenceOpens ==
  ASSUME NEW x \in Int, NEW y \in Int, NEW l \in Nat, l > 0
  PROVE  ((x - y) \div l) * l + (((x % l) - (y % l)) % l) = x - y
<1> DEFINE d == (x % l) - (y % l)
           qx == x \div l
           qy == y \div l
           qd == d \div l
           q == (x - y) \div l
           r == (x - y) % l
<1>1. /\ qx \in Int /\ x % l \in Int /\ x = qx * l + (x % l)
      /\ qy \in Int /\ y % l \in Int /\ y = qy * l + (y % l)
  BY Euclid
<1>2. d \in Int
  BY <1>1
<1>3. qd \in Int /\ d % l \in Int /\ d = qd * l + (d % l) /\ 0 <= d % l /\ d % l < l
  BY <1>2, Euclid
<1>4. q \in Int /\ r \in Int /\ x - y = q * l + r /\ 0 <= r /\ r < l
  BY Euclid
<1> DEFINE qs == qx - qy + qd
           rd == d % l
<1>5. x - y = (qx * l - qy * l) + qd * l + rd
  BY <1>1, <1>2, <1>3
<1>6. qs * l = (qx * l - qy * l) + qd * l
  BY <1>1, <1>3
<1>7. Divided(x - y, l, qs, rd)
  BY <1>5, <1>6, <1>1, <1>3 DEF Divided
<1> HIDE DEF d, q, r, qs, rd
<1>8. rd = r
  <2>1. Divided(x - y, l, q, r)
    BY <1>4 DEF Divided
  <2>2. x - y \in Int
    OBVIOUS
  <2>3. QED
    BY <1>7, <2>1, <2>2, OneQuotient
<1>9. q * l + rd = x - y
  BY <1>4, <1>8
<1>10. QED
  BY <1>9 DEF q, rd, d

LEMMA TimesMonotone ==
  ASSUME NEW a \in Int, NEW b \in Int, NEW c \in Nat, a <= b
  PROVE  a * c <= b * c /\ c * a <= c * b
<1>1. (b - a) * c >= 0 /\ (b - a) * c = b * c - a * c
  BY SMT
<1>2. QED
  BY <1>1

(* A quotient is no wider than what it is the quotient of.                 *)
LEMMA QuotientBound ==
  ASSUME NEW l \in Nat, l > 0, NEW x \in Int, NEW B \in Nat, -B < x, x < B * l
  PROVE  -B < x \div l /\ x \div l < B
<1> DEFINE q == x \div l
           r == x % l
<1>1. q \in Int /\ r \in Int /\ x = q * l + r /\ 0 <= r /\ r < l
  BY Euclid
<1> HIDE DEF q, r
<1>2. B >= 1
  <2>1. B = 0 => B * l = 0
    OBVIOUS
  <2>2. QED
    BY <2>1
<1>3. ~(q >= B)
  <2>1. q >= B => (q - B) * l >= 0
    BY <1>1
  <2>2. (q - B) * l = q * l - B * l
    BY <1>1
  <2>3. q * l \in Int /\ B * l \in Int
    BY <1>1
  <2>4. QED
    BY <1>1, <2>1, <2>2, <2>3
<1>4. ~(q <= -B)
  <2>1. q <= -B => (-B - q) * l >= 0
    BY <1>1
  <2>2. (-B - q) * l = -(B * l) - q * l
    BY <1>1
  <2>3. (B - 1) * (l - 1) >= 0 /\ (B - 1) * (l - 1) = B * l - B - l + 1
    BY <1>2
  <2>4. q * l \in Int /\ B * l \in Int
    BY <1>1
  <2>5. QED
    BY <1>1, <1>2, <2>1, <2>2, <2>3, <2>4
<1>5. QED
  BY <1>1, <1>3, <1>4 DEF q

(* The operations on explicit exponents.                                   *)
LEMMA ReduceIs ==
  ASSUME NEW x, NEW y
  PROVE  Reduce(Elem(x, y)) = [g |-> x, h |-> y, canon |-> TRUE]
BY DEF Reduce, Elem

LEMMA MulIs ==
  ASSUME NEW x1, NEW y1, NEW x2, NEW y2, NEW c1, NEW c2
  PROVE  Mul([g |-> x1, h |-> y1, canon |-> c1], [g |-> x2, h |-> y2, canon |-> c2])
           = Elem(x1 + x2, y1 + y2)
BY DEF Mul, Elem

LEMMA PowIs ==
  ASSUME NEW x, NEW y, NEW c, NEW e
  PROVE  /\ Pow([g |-> x, h |-> y, canon |-> c], e) = Elem(x * e, y * e)
         /\ Pow(Inv([g |-> x, h |-> y, canon |-> c]), e) = Elem((-x) * e, (-y) * e)
BY DEF Pow, Inv, Elem

LEMMA CommitIs ==
  ASSUME NEW x, NEW y
  PROVE  Commit(x, y) = [g |-> x, h |-> y, canon |-> TRUE]
BY ReduceIs DEF Commit, PowGH

LEMMA OverIs ==
  ASSUME NEW x, NEW y, NEW b, NEW s, NEW e
  PROVE  Over(x, y, Commit(b, s), e)
           = [g |-> (-b) * e + x, h |-> (-s) * e + y, canon |-> TRUE]
<1>1. Pow(Inv(Commit(b, s)), e) = Elem((-b) * e, (-s) * e)
  BY CommitIs, PowIs
<1>2. Mul(Elem((-b) * e, (-s) * e), Elem(x, y)) = Elem((-b) * e + x, (-s) * e + y)
  BY MulIs DEF Elem
<1>3. QED
  BY <1>1, <1>2, ReduceIs DEF Over, PowGH

LEMMA RecoverIs ==
  ASSUME NEW x, NEW y, NEW b, NEW s, NEW e1, NEW e2, NEW e3, NEW e4
  PROVE  Recover([g |-> x, h |-> y, canon |-> TRUE], e1, Commit(b, s), e2, e3, e4)
           = [g |-> (x * e1 + (-b) * e2) + e3, h |-> (y * e1 + (-s) * e2) + e4,
              canon |-> TRUE]
<1>1. /\ Pow([g |-> x, h |-> y, canon |-> TRUE], e1) = Elem(x * e1, y * e1)
      /\ Pow(Inv(Commit(b, s)), e2) = Elem((-b) * e2, (-s) * e2)
  BY CommitIs, PowIs
<1>2. /\ Mul(Elem(x * e1, y * e1), Elem((-b) * e2, (-s) * e2))
          = Elem(x * e1 + (-b) * e2, y * e1 + (-s) * e2)
      /\ Mul(Elem(x * e1 + (-b) * e2, y * e1 + (-s) * e2), Elem(e3, e4))
          = Elem((x * e1 + (-b) * e2) + e3, (y * e1 + (-s) * e2) + e4)
  BY MulIs DEF Elem
<1>3. QED
  BY <1>1, <1>2, ReduceIs DEF Recover, PowGH

(* A and B: a commitment to (b, s), masked by r and rs and opened with the *)
(* quotients and residues of k * b + r and k * s + rs.                     *)
CommitmentOpens(b, s, k, r, rs, l) ==
  Recover(Commit((k * b + r) \div l, (k * s + rs) \div l), l, Commit(b, s), k,
          (k * b + r) % l, (k * s + rs) % l) = Commit(r, rs)

LEMMA CommitmentsOpen ==
  ASSUME NEW b \in Int, NEW s \in Int, NEW k \in Int, NEW r \in Int, NEW rs \in Int,
         NEW l \in Nat, l > 0
  PROVE  CommitmentOpens(b, s, k, r, rs, l)
<1> DEFINE z == k * b + r
           zs == k * s + rs
           q == z \div l
           qs == zs \div l
           m == z % l
           ms == zs % l
<1>1. z \in Int /\ zs \in Int
  OBVIOUS
<1>2. q \in Int /\ m \in Int /\ z = q * l + m
  BY <1>1, Euclid
<1>3. qs \in Int /\ ms \in Int /\ zs = qs * l + ms
  BY <1>1, Euclid
<1> HIDE DEF q, qs, m, ms
<1>4. Recover(Commit(q, qs), l, Commit(b, s), k, m, ms)
        = [g |-> (q * l + (-b) * k) + m, h |-> (qs * l + (-s) * k) + ms, canon |-> TRUE]
  <2>1. Commit(q, qs) = [g |-> q, h |-> qs, canon |-> TRUE]
    BY CommitIs
  <2>2. QED
    BY <2>1, RecoverIs
<1>5. q * l + (-b) * k + m = r /\ qs * l + (-s) * k + ms = rs
  BY <1>2, <1>3
<1>6. Recover(Commit(q, qs), l, Commit(b, s), k, m, ms) = Commit(r, rs)
  BY <1>4, <1>5, CommitIs
<1>7. QED
  BY <1>6 DEF q, qs, m, ms, CommitmentOpens

(* C and D: a product of powers of g, h and a commitment to (b, s).        *)
QuotientOpens(b, s, e, k, r, rb, rs, l) ==
  Recover(Over((k * e * b + rb) \div l, (k * s * e + rs) \div l,
               Commit(b, s), (k * e + r) \div l),
          l, Commit(b, s), (k * e + r) % l,
          (k * e * b + rb) % l, (k * s * e + rs) % l)
    = Over(rb, rs, Commit(b, s), r)

LEMMA QuotientsOpen ==
  ASSUME NEW b \in Int, NEW s \in Int, NEW e \in Int, NEW k \in Int,
         NEW r \in Int, NEW rb \in Int, NEW rs \in Int,
         NEW l \in Nat, l > 0
  PROVE  QuotientOpens(b, s, e, k, r, rb, rs, l)
<1> DEFINE z == k * e + r
           zb == k * e * b + rb
           zs == k * s * e + rs
           q == z \div l
           qb == zb \div l
           qs == zs \div l
           m == z % l
           mb == zb % l
           ms == zs % l
<1>1. z \in Int /\ zb \in Int /\ zs \in Int
  OBVIOUS
<1>2. q \in Int /\ m \in Int /\ z = q * l + m
  BY <1>1, Euclid
<1>3. qb \in Int /\ mb \in Int /\ zb = qb * l + mb
  BY <1>1, Euclid
<1>4. qs \in Int /\ ms \in Int /\ zs = qs * l + ms
  BY <1>1, Euclid
<1> HIDE DEF q, qb, qs, m, mb, ms
<1>5. Recover(Over(qb, qs, Commit(b, s), q), l, Commit(b, s), m, mb, ms)
        = [g |-> ((-b) * q + qb) * l + (-b) * m + mb,
           h |-> ((-s) * q + qs) * l + (-s) * m + ms, canon |-> TRUE]
  <2>1. Over(qb, qs, Commit(b, s), q)
          = [g |-> (-b) * q + qb, h |-> (-s) * q + qs, canon |-> TRUE]
    BY OverIs
  <2>2. QED
    BY <2>1, RecoverIs
<1>6. ((-b) * q + qb) * l + (-b) * m + mb = (-b) * r + rb
  <2>1. ((-b) * q + qb) * l + (-b) * m + mb = (-b) * (q * l + m) + (qb * l + mb)
    BY <1>2, <1>3
  <2>2. (-b) * (k * e + r) + (k * e * b + rb) = (-b) * r + rb
    OBVIOUS
  <2>3. QED
    BY <2>1, <2>2, <1>2, <1>3
<1>7. ((-s) * q + qs) * l + (-s) * m + ms = (-s) * r + rs
  <2>1. ((-s) * q + qs) * l + (-s) * m + ms = (-s) * (q * l + m) + (qs * l + ms)
    BY <1>2, <1>4
  <2>2. (-s) * (k * e + r) + (k * s * e + rs) = (-s) * r + rs
    OBVIOUS
  <2>3. QED
    BY <2>1, <2>2, <1>2, <1>4
<1>8. Over(rb, rs, Commit(b, s), r)
        = [g |-> (-b) * r + rb, h |-> (-s) * r + rs, canon |-> TRUE]
  BY OverIs
<1>9. Recover(Over(qb, qs, Commit(b, s), q), l, Commit(b, s), m, mb, ms)
        = Over(rb, rs, Commit(b, s), r)
  BY <1>5, <1>6, <1>7, <1>8
<1>10. QED
  BY <1>9 DEF q, qb, qs, m, mb, ms, QuotientOpens

------------------------------------------------------------------------------
(* The random streams: what has been read of a stream stays as it was.     *)

Keeps(tp, tq) ==
  /\ DOMAIN tp \subseteq DOMAIN tq
  /\ \A x \in DOMAIN tp : tq[x] = tp[x]

LEMMA RecordedKeeps ==
  ASSUME NEW tp, NEW pr, NEW vals
  PROVE  Keeps(tp, Recorded(tp, pr, vals))
BY DEF Keeps, Recorded

LEMMA KeepsTwice ==
  ASSUME NEW tp, NEW pr, NEW vals, NEW pr2, NEW vals2
  PROVE  Keeps(tp, Recorded(Recorded(tp, pr, vals), pr2, vals2))
<1>1. Keeps(tp, Recorded(tp, pr, vals))
  BY RecordedKeeps
<1>2. Keeps(Recorded(tp, pr, vals), Recorded(Recorded(tp, pr, vals), pr2, vals2))
  BY RecordedKeeps
<1>3. QED
  BY <1>1, <1>2 DEF Keeps

(* The key of tr gave chal, and a start from which ell is within reach.    *)
Told(tp, tr, chal, ell) ==
  LET at(y) == <<DeriveSeed(tr), y>> IN
    /\ at(1) \in DOMAIN tp /\ tp[at(1)] = chal
    /\ at(2) \in DOMAIN tp /\ tp[at(2)] <= ell /\ ell <= tp[at(2)] + EllDiffMax
    /\ ell \in Accepts(tr)

LEMMA ToldStays ==
  ASSUME NEW tp, NEW tq, NEW tr, NEW chal, NEW ell,
         Keeps(tp, tq), Told(tp, tr, chal, ell)
  PROVE  Told(tq, tr, chal, ell)
BY DEF Keeps, Told

(* goo_group_derive reads chal and ell' from the start of the stream.      *)
LEMMA DeriveTells ==
  ASSUME NEW c, NEW tr, NEW chal, NEW ell0, Derive(c, tr, chal, ell0)
  PROVE  /\ Keeps(tape, tape')
         /\ <<DeriveSeed(tr), 1>> \in DOMAIN tape'
         /\ <<DeriveSeed(tr), 2>> \in DOMAIN tape'
         /\ tape'[<<DeriveSeed(tr), 1>>] = chal
         /\ tape'[<<DeriveSeed(tr), 2>>] = ell0
<1> DEFINE sd == DeriveSeed(tr)
           vals == <<chal, ell0>>
           pr == SeedPrng(prng[c], sd)
<1>1. pr.seed = sd /\ pr.pos = 0
  BY DEF SeedPrng
<1>2. Reads(pr, vals) /\ tape' = Recorded(tape, pr, vals)
  BY DEF Derive
<1>3. DOMAIN vals = {1, 2} /\ vals[1] = chal /\ vals[2] = ell0
  OBVIOUS
<1> HIDE DEF sd, vals, pr
<1>4. {<<pr.seed, pr.pos + y>> : y \in DOMAIN vals} = {<<sd, 1>>, <<sd, 2>>}
  BY <1>1, <1>3
<1>5. tape' = [x \in DOMAIN tape \cup {<<sd, 1>>, <<sd, 2>>} |->
                 IF x \in DOMAIN tape THEN tape[x] ELSE vals[x[2] - 0]]
  BY <1>1, <1>2, <1>4 DEF Recorded
<1>6. \A y \in {1, 2} : <<sd, y>> \in DOMAIN tape => tape[<<sd, y>>] = vals[y]
  BY <1>1, <1>2, <1>3 DEF Reads
<1>7. \A y \in {1, 2} : <<sd, y>> \in DOMAIN tape' /\ tape'[<<sd, y>>] = vals[y]
  BY <1>5, <1>6
<1>8. QED
  BY <1>2, <1>3, <1>7, RecordedKeeps DEF sd

------------------------------------------------------------------------------
(* What is known at each point of goo_group_sign.                          *)

Exp == 0..(ExpLim - 1)

JobInv ==
  pc # "idle" =>
    /\ job \in [c : Ctxs, k : Keys, sp : SPrimes, m : Msgs]
    /\ ValidKey(job.k)

WitInv ==
  pc \in {"blind", "commit", "mask", "loop", "try", "respond"} =>
    wit \in [t : SmallPrimeSet, w : Nat, a : Int]

BlindInv ==
  pc \in {"commit", "mask", "loop", "try", "respond"} =>
    Divides /\ blind \in [s : Exp, s1 : Exp, s2 : Exp]

ComInv ==
  pc \in {"mask", "loop", "try", "respond"} =>
    /\ rnd \in [r_w : Exp, r_w2 : Exp, r_a : Exp, r_an : Exp,
                r_s1w : Exp, r_sa : Exp, r_s2 : Exp]
    /\ com.C1 = Commit(Modulus(job.k), blind.s)
    /\ com.C2 = Commit(wit.w, blind.s1)
    /\ com.C3 = Commit(wit.a, blind.s2)

MaskInv ==
  pc \in {"loop", "try", "respond"} =>
    /\ mask.B = Commit(rnd.r_a, rnd.r_s2)
    /\ mask.C = Over(rnd.r_w2, rnd.r_s1w, com.C2, rnd.r_w)
    /\ mask.D = Over(rnd.r_an, rnd.r_sa, com.C1, rnd.r_a)
    /\ mask.E = rnd.r_w2 - rnd.r_an

TryInv ==
  pc \in {"try", "respond"} =>
    try.r_s1 \in Exp /\ try.A = Commit(rnd.r_w, try.r_s1)

TurnInv ==
  pc = "respond" =>
    /\ try.chal \in Chals
    /\ try.ell \in Nat /\ FullLength(try.ell)
    /\ Told(tape, JobTranscript(try.A), try.chal, try.ell)

SignInv == JobInv /\ WitInv /\ BlindInv /\ ComInv /\ MaskInv /\ TryInv /\ TurnInv

(* The numbers of a signature in the making.                               *)
LEMMA Numbers ==
  ASSUME SignInv, pc = "respond"
  PROVE  /\ Modulus(job.k) \in Nat /\ wit.w \in Nat /\ wit.a \in Int
         /\ wit.t \in Nat /\ wit.t \in SmallPrimeSet
         /\ wit.a * Modulus(job.k) = wit.w * wit.w - wit.t
         /\ \A x \in {blind.s, blind.s1, blind.s2, rnd.r_w, rnd.r_w2, rnd.r_a,
                      rnd.r_an, rnd.r_s1w, rnd.r_sa, rnd.r_s2, try.r_s1} :
              x \in Nat /\ x < ExpLim
         /\ try.chal \in Nat /\ try.chal < ChalLim
         /\ try.ell \in Nat /\ try.ell > 0 /\ EllLim \div 2 <= try.ell
         /\ try.ell < EllLim /\ EllLim \in Nat /\ ExpLim \in Nat /\ ChalLim \in Nat
<1>1. EllLim \in Nat /\ ExpLim \in Nat /\ ChalLim \in Nat /\ EllLim >= 2
      /\ Keys \subseteq [p : Nat, q : Nat] /\ Chals \subseteq 0..(ChalLim - 1)
      /\ SmallPrimes \in Seq(Nat \ {0})
  BY ProtocolAssumption, WidthAssumption
<1>2. Modulus(job.k) \in Nat
  BY <1>1 DEF SignInv, JobInv, Modulus
<1>3. SmallPrimeSet \subseteq Nat
  BY <1>1 DEF SmallPrimeSet
<1>4. wit.w \in Nat /\ wit.a \in Int /\ wit.t \in SmallPrimeSet /\ wit.t \in Nat
  BY <1>3 DEF SignInv, WitInv
<1>5. wit.a * Modulus(job.k) = wit.w * wit.w - wit.t
  BY DEF SignInv, BlindInv, Divides
<1>6. \A x \in {blind.s, blind.s1, blind.s2, rnd.r_w, rnd.r_w2, rnd.r_a,
                rnd.r_an, rnd.r_s1w, rnd.r_sa, rnd.r_s2, try.r_s1} : x \in Exp
  BY DEF SignInv, BlindInv, ComInv, TryInv
<1>7. try.chal \in 0..(ChalLim - 1) /\ try.ell \in Nat
      /\ EllLim \div 2 <= try.ell /\ try.ell < EllLim
  BY <1>1 DEF SignInv, TurnInv, FullLength
<1>8. EllLim \div 2 >= 1
  BY <1>1
<1>9. \A x \in Exp : x \in Nat /\ x < ExpLim
  BY <1>1 DEF Exp
<1>10. try.chal \in Nat /\ try.chal < ChalLim /\ try.ell > 0
  BY <1>1, <1>7, <1>8
<1>11. QED
  BY <1>1, <1>2, <1>4, <1>5, <1>6, <1>7, <1>9, <1>10

(* E comes back: the quotient Eq and the residues of z_w2 and z_an open    *)
(* chal * t + E, and Eq is no wider than an exponent.                      *)
LEMMA EOpens ==
  ASSUME SignInv, pc = "respond"
  PROVE  /\ RecoveredE(Signature) = mask.E
         /\ IsExp(Signature.Eq) /\ IsExp(mask.E)
<1> DEFINE n == Modulus(job.k)
           k == try.chal
           l == try.ell
           E == rnd.r_w2 - rnd.r_an
           zw2 == k * wit.w * wit.w + rnd.r_w2
           zan == k * wit.a * n + rnd.r_an
           q == (zw2 - zan) \div l
<1>1. /\ n \in Nat /\ wit.w \in Nat /\ wit.a \in Int /\ wit.t \in Nat
      /\ wit.a * n = wit.w * wit.w - wit.t
      /\ k \in Nat /\ l \in Nat /\ l > 0
      /\ rnd.r_w2 \in Nat /\ rnd.r_an \in Nat
  BY Numbers
<1>2. zw2 \in Int /\ zan \in Int /\ E \in Int
  BY <1>1
<1>3. q * l + (((zw2 % l) - (zan % l)) % l) = zw2 - zan
  <2>1. \A x, y \in Int : ((x - y) \div l) * l + (((x % l) - (y % l)) % l) = x - y
    BY <1>1, DifferenceOpens
  <2> HIDE DEF zw2, zan
  <2>2. QED
    BY <1>2, <2>1
<1>4. zw2 - zan = wit.t * k + E
  <2>1. k * wit.w * wit.w - k * wit.a * n = k * (wit.w * wit.w - wit.a * n)
    BY <1>1
  <2>2. wit.w * wit.w - wit.a * n = wit.t
    BY <1>1
  <2>3. k * (wit.w * wit.w - wit.a * n) = wit.t * k
    BY <1>1, <2>2
  <2>4. QED
    BY <1>1, <2>1, <2>3
<1>5. /\ Signature.Eq = q /\ Signature.ell = l /\ Signature.t = wit.t
      /\ Signature.chal = k
      /\ Signature.z.w2 = zw2 % l /\ Signature.z.an = zan % l
  BY DEF Signature, Residues, Z
<1>6. mask.E = E
  BY DEF SignInv, MaskInv
<1>7. RecoveredE(Signature) = E
  <2>1. RecoveredE(Signature) = q * l + (((zw2 % l) - (zan % l)) % l) - wit.t * k
    BY <1>5 DEF RecoveredE
  <2> DEFINE d == ((zw2 % l) - (zan % l)) % l
  <2>2. q \in Int /\ d \in Int
    BY <1>1, <1>2, Euclid
  <2> HIDE DEF d, q, E
  <2>3. q * l + d = wit.t * k + E
    BY <1>3, <1>4 DEF d
  <2>4. q * l \in Int /\ wit.t * k \in Int
    BY <1>1, <2>2
  <2>5. q * l + d - wit.t * k = E
    BY <2>2, <2>3, <2>4, <1>2
  <2>6. QED
    BY <2>1, <2>5 DEF d
<1>8. -ExpLim < E /\ E < ExpLim /\ ExpLim \in Nat
  BY Numbers
<1>9. -ExpLim < q /\ q < ExpLim
  <2>1. wit.t \in SmallPrimeSet /\ k < ChalLim /\ ChalLim \in Nat
        /\ EllLim \in Nat /\ EllLim \div 2 <= l /\ EllLim \div 2 \in Int
    BY Numbers
  <2>2. ChalLim * wit.t + ExpLim <= ExpLim * (EllLim \div 2)
    BY <2>1, WidthAssumption
  <2>3. wit.t * k <= ChalLim * wit.t /\ wit.t * k >= 0
    BY <1>1, <2>1, TimesMonotone
  <2>4. ExpLim * (EllLim \div 2) <= ExpLim * l
    BY <1>1, <1>8, <2>1, TimesMonotone
  <2> DEFINE x == zw2 - zan
             P == wit.t * k
             Q == ChalLim * wit.t
             R == ExpLim * (EllLim \div 2)
             S == ExpLim * l
  <2>5. x \in Int /\ P \in Int /\ Q \in Int /\ R \in Int /\ S \in Int
    BY <1>1, <1>2, <1>8, <2>1
  <2>6. x = P + E
    BY <1>4
  <2>7. Q + ExpLim <= R /\ P <= Q /\ P >= 0 /\ R <= S
    BY <2>2, <2>3, <2>4
  <2> HIDE DEF x, P, Q, R, S, E
  <2>8. -ExpLim < x /\ x < S
    BY <1>2, <1>8, <2>5, <2>6, <2>7
  <2>9. -ExpLim < x \div l /\ x \div l < ExpLim
    BY <1>1, <1>8, <2>5, <2>8, QuotientBound DEF S
  <2>10. QED
    BY <2>9 DEF x
<1>10. QED
  BY <1>5, <1>6, <1>7, <1>8, <1>9 DEF IsExp

(* A, B, C and D come back.                                                *)
LEMMA ElementsOpen ==
  ASSUME SignInv, pc = "respond"
  PROVE  LET S == Signature IN
           /\ Recover(S.Aq, S.ell, S.C2, S.chal, S.z.w, S.z.s1) = try.A
           /\ Recover(S.Bq, S.ell, S.C3, S.chal, S.z.a, S.z.s2) = mask.B
           /\ Recover(S.Cq, S.ell, S.C2, S.z.w, S.z.w2, S.z.s1w) = mask.C
           /\ Recover(S.Dq, S.ell, com.C1, S.z.a, S.z.an, S.z.sa) = mask.D
<1> DEFINE S == Signature
           k == try.chal
           l == try.ell
           n == Modulus(job.k)
<1>1. /\ n \in Int /\ wit.w \in Int /\ wit.a \in Int
      /\ k \in Int /\ l \in Nat /\ l > 0
      /\ \A x \in {blind.s, blind.s1, blind.s2, rnd.r_w, rnd.r_w2, rnd.r_a,
                   rnd.r_an, rnd.r_s1w, rnd.r_sa, rnd.r_s2, try.r_s1} : x \in Int
  BY Numbers
<1>2. /\ S.C2 = com.C2 /\ S.C3 = com.C3 /\ S.chal = k /\ S.ell = l
      /\ S.Aq = Commit(Quotients.w, Quotients.s1)
      /\ S.Bq = Commit(Quotients.a, Quotients.s2)
      /\ S.Cq = Over(Quotients.w2, Quotients.s1w, com.C2, Quotients.w)
      /\ S.Dq = Over(Quotients.an, Quotients.sa, com.C1, Quotients.a)
      /\ S.z = Residues
  BY DEF Signature
<1>3. /\ com.C1 = Commit(n, blind.s)
      /\ com.C2 = Commit(wit.w, blind.s1)
      /\ com.C3 = Commit(wit.a, blind.s2)
      /\ mask.B = Commit(rnd.r_a, rnd.r_s2)
      /\ mask.C = Over(rnd.r_w2, rnd.r_s1w, com.C2, rnd.r_w)
      /\ mask.D = Over(rnd.r_an, rnd.r_sa, com.C1, rnd.r_a)
      /\ try.A = Commit(rnd.r_w, try.r_s1)
  BY DEF SignInv, ComInv, MaskInv, TryInv
<1>4. /\ Quotients.w = Z.w \div l /\ Residues.w = Z.w % l
      /\ Quotients.w2 = Z.w2 \div l /\ Residues.w2 = Z.w2 % l
      /\ Quotients.s1 = Z.s1 \div l /\ Residues.s1 = Z.s1 % l
      /\ Quotients.a = Z.a \div l /\ Residues.a = Z.a % l
      /\ Quotients.an = Z.an \div l /\ Residues.an = Z.an % l
      /\ Quotients.s1w = Z.s1w \div l /\ Residues.s1w = Z.s1w % l
      /\ Quotients.sa = Z.sa \div l /\ Residues.sa = Z.sa % l
      /\ Quotients.s2 = Z.s2 \div l /\ Residues.s2 = Z.s2 % l
  BY DEF Quotients, Residues, Z
<1>5. /\ Z.w = k * wit.w + rnd.r_w /\ Z.w2 = k * wit.w * wit.w + rnd.r_w2
      /\ Z.s1 = k * blind.s1 + try.r_s1 /\ Z.a = k * wit.a + rnd.r_a
      /\ Z.an = k * wit.a * n + rnd.r_an
      /\ Z.s1w = k * blind.s1 * wit.w + rnd.r_s1w
      /\ Z.sa = k * blind.s * wit.a + rnd.r_sa
      /\ Z.s2 = k * blind.s2 + rnd.r_s2
  BY DEF Z
<1> HIDE DEF S, n, k, l
<1>6. Recover(S.Aq, S.ell, S.C2, S.chal, S.z.w, S.z.s1) = try.A
  <2>1. CommitmentOpens(wit.w, blind.s1, k, rnd.r_w, try.r_s1, l)
    BY <1>1, CommitmentsOpen
  <2>2. /\ S.Aq = Commit((k * wit.w + rnd.r_w) \div l, (k * blind.s1 + try.r_s1) \div l)
        /\ S.z.w = (k * wit.w + rnd.r_w) % l /\ S.z.s1 = (k * blind.s1 + try.r_s1) % l
    BY <1>2, <1>4, <1>5
  <2>3. QED
    BY <2>1, <2>2, <1>2, <1>3 DEF CommitmentOpens
<1>7. Recover(S.Bq, S.ell, S.C3, S.chal, S.z.a, S.z.s2) = mask.B
  <2>1. CommitmentOpens(wit.a, blind.s2, k, rnd.r_a, rnd.r_s2, l)
    BY <1>1, CommitmentsOpen
  <2>2. /\ S.Bq = Commit((k * wit.a + rnd.r_a) \div l, (k * blind.s2 + rnd.r_s2) \div l)
        /\ S.z.a = (k * wit.a + rnd.r_a) % l /\ S.z.s2 = (k * blind.s2 + rnd.r_s2) % l
    BY <1>2, <1>4, <1>5
  <2>3. QED
    BY <2>1, <2>2, <1>2, <1>3 DEF CommitmentOpens
<1>8. Recover(S.Cq, S.ell, S.C2, S.z.w, S.z.w2, S.z.s1w) = mask.C
  <2>1. QuotientOpens(wit.w, blind.s1, wit.w, k, rnd.r_w, rnd.r_w2, rnd.r_s1w, l)
    BY <1>1, QuotientsOpen
  <2>2. /\ S.Cq = Over((k * wit.w * wit.w + rnd.r_w2) \div l, (k * blind.s1 * wit.w + rnd.r_s1w) \div l,
                       com.C2, (k * wit.w + rnd.r_w) \div l)
        /\ S.z.w = (k * wit.w + rnd.r_w) % l /\ S.z.w2 = (k * wit.w * wit.w + rnd.r_w2) % l
        /\ S.z.s1w = (k * blind.s1 * wit.w + rnd.r_s1w) % l
    BY <1>2, <1>4, <1>5
  <2>3. QED
    BY <2>1, <2>2, <1>2, <1>3 DEF QuotientOpens
<1>9. Recover(S.Dq, S.ell, com.C1, S.z.a, S.z.an, S.z.sa) = mask.D
  <2>1. QuotientOpens(n, blind.s, wit.a, k, rnd.r_a, rnd.r_an, rnd.r_sa, l)
    BY <1>1, QuotientsOpen
  <2>2. /\ S.Dq = Over((k * wit.a * n + rnd.r_an) \div l, (k * blind.s * wit.a + rnd.r_sa) \div l,
                       com.C1, (k * wit.a + rnd.r_a) \div l)
        /\ S.z.a = (k * wit.a + rnd.r_a) % l /\ S.z.an = (k * wit.a * n + rnd.r_an) % l
        /\ S.z.sa = (k * blind.s * wit.a + rnd.r_sa) % l
    BY <1>2, <1>4, <1>5
  <2>3. QED
    BY <2>1, <2>2, <1>2, <1>3 DEF QuotientOpens
<1>10. QED
  BY <1>6, <1>7, <1>8, <1>9 DEF S

------------------------------------------------------------------------------
(* What a returned signature is worth: every context finds it well formed, *)
(* recovers the transcript it was made from, and that transcript's key     *)
(* yields its chal and leads to its ell.                                   *)
Honest(x) ==
  /\ \A c \in Ctxs : Checkable(c, x.sig, x.C1)
  /\ RecoveredTranscript(x.sig, x.C1, x.m) = x.tr
  /\ Told(tape, x.tr, x.sig.chal, x.sig.ell)

LEMMA SignatureIsHonest ==
  ASSUME SignInv, pc = "respond"
  PROVE  Honest([k |-> job.k, sp |-> job.sp, m |-> job.m, C1 |-> com.C1,
                 sig |-> Signature, tr |-> JobTranscript(try.A)])
<1> DEFINE S == Signature
<1>1. /\ S.C2 = com.C2 /\ S.C3 = com.C3 /\ S.t = wit.t /\ S.chal = try.chal
      /\ S.ell = try.ell /\ S.z = Residues
      /\ \A b \in {com.C1, S.C2, S.C3, S.Aq, S.Bq, S.Cq, S.Dq} : b.canon = TRUE
  <2>1. com.C1.canon = TRUE /\ com.C2.canon = TRUE /\ com.C3.canon = TRUE
    BY CommitIs DEF SignInv, ComInv
  <2>2. \A x, y : Commit(x, y).canon = TRUE
    BY CommitIs
  <2>3. \A x, y, b, e : Over(x, y, b, e).canon = TRUE
    BY DEF Over, Reduce
  <2>4. QED
    BY <2>1, <2>2, <2>3 DEF Signature
<1>2. /\ wit.t \in SmallPrimeSet /\ try.chal < ChalLim /\ try.chal \in Nat
      /\ try.ell \in Nat /\ try.ell > 0 /\ try.ell < EllLim
      /\ EllLim \in Nat /\ ChalLim \in Nat /\ ChalLim <= EllLim
  BY Numbers, WidthAssumption
<1>3. \A x \in ZNames : Residues[x] \in Int /\ Residues[x] < try.ell
  <2>1. DOMAIN Z = ZNames /\ \A x \in ZNames : Z[x] \in Int
    BY Numbers DEF Z, ZNames
  <2>2. \A x \in ZNames : Residues[x] = Z[x] % try.ell
    BY <2>1 DEF Residues
  <2>3. QED
    BY <1>2, <2>1, <2>2, Euclid
<1>4. WellFormed(S, com.C1)
  BY <1>1, <1>2, <1>3, EOpens DEF WellFormed
<1>5. ASSUME NEW c \in Ctxs PROVE AllRecoverable(c, S)
  <2>1. PICK cap \in Combs[c] : EllLim <= cap
    BY WidthAssumption
  <2>2. cap \in Nat
    BY ProtocolAssumption
  <2>3. \A x \in ZNames : Residues[x] \in Int /\ Residues[x] < EllLim /\ Residues[x] < cap
    BY <1>2, <1>3, <2>1, <2>2
  <2>4. \A x, y \in ZNames : Fits(c, Residues[x], Residues[y])
    BY <2>3 DEF Fits
  <2>5. try.ell < EllLim /\ try.chal < EllLim
    BY <1>2
  <2>6. /\ Residues.w < EllLim /\ Residues.a < EllLim
        /\ Fits(c, Residues.w, Residues.s1) /\ Fits(c, Residues.a, Residues.s2)
        /\ Fits(c, Residues.w2, Residues.s1w) /\ Fits(c, Residues.an, Residues.sa)
    BY <2>3, <2>4 DEF ZNames
  <2>7. QED
    BY <1>1, <2>5, <2>6 DEF AllRecoverable, Recoverable
<1>6. \A c \in Ctxs : Checkable(c, S, com.C1)
  BY <1>4, <1>5, EOpens DEF Checkable
<1>7. RecoveredTranscript(S, com.C1, job.m) = JobTranscript(try.A)
  BY <1>1, ElementsOpen, EOpens DEF RecoveredTranscript, JobTranscript
<1>8. Told(tape, JobTranscript(try.A), S.chal, S.ell)
  BY <1>1 DEF SignInv, TurnInv
<1>9. QED
  BY <1>6, <1>7, <1>8 DEF Honest

------------------------------------------------------------------------------
(* Type correctness.                                                       *)

LEMMA PrimesTyped ==
  /\ Len(SmallPrimes) \in Nat /\ Len(SmallPrimes) >= 1
  /\ SmallPrimes \in [1..Len(SmallPrimes) -> SmallPrimeSet]
  /\ SmallPrimeSet \subseteq Nat
<1>1. SmallPrimes \in Seq(Nat \ {0}) /\ SmallPrimes # <<>>
  BY ProtocolAssumption
<1>2. QED
  BY <1>1 DEF SmallPrimeSet

LEMMA BoundsTyped == MaxSigns \in Nat /\ MaxTries \in Nat
BY ProtocolAssumption

LEMMA InitTypes == Init => TypeOK
<1> SUFFICES ASSUME Init PROVE TypeOK
  OBVIOUS
<1>1. DOMAIN prng = Ctxs /\ pc = "idle" /\ i = 1 /\ primes = SmallPrimes
      /\ signs = 0 /\ tries = 0 /\ verdict.ok \in BOOLEAN
  BY DEF Init, Called
<1>2. QED
  BY <1>1, PrimesTyped, BoundsTyped DEF TypeOK, Pcs

(* A step outside sign, or the return of sign.                             *)
LEMMA IdleTypes ==
  ASSUME TypeOK, pc' = "idle", DOMAIN prng' = DOMAIN prng,
         \/ i' = 1 /\ primes' = SmallPrimes /\ tries' = 0
         \/ UNCHANGED <<i, primes, tries>>,
         signs' = signs, verdict'.ok \in BOOLEAN
  PROVE  TypeOK'
<1>1. i' \in 1..Len(SmallPrimes) /\ primes' \in [1..Len(SmallPrimes) -> SmallPrimeSet]
      /\ tries' \in 0..MaxTries
  BY PrimesTyped, BoundsTyped DEF TypeOK
<1>2. QED
  BY <1>1 DEF TypeOK, Pcs

LEMMA CallTypes ==
  ASSUME TypeOK, NEW c, NEW k, NEW sp, NEW C1, NEW S, NEW m,
         \/ Challenge(c, k, sp) \/ Validate(c, sp, C1, k) \/ Verify(c, S, C1, m)
         \/ \E op, of : Refuse(op, of)
  PROVE  TypeOK'
<1>1. pc' = "idle" /\ signs' = signs /\ UNCHANGED <<i, primes, tries>>
  BY DEF Challenge, Validate, Refuse, Verify, signVars
<1>2. DOMAIN prng' = DOMAIN prng
  BY DEF Challenge, Validate, Refuse, Verify, ExpandSPrime, Derive
<1>3. verdict'.ok \in BOOLEAN
  <2>1. CASE Challenge(c, k, sp)
    BY <2>1 DEF Challenge, Returns, Fits
  <2>2. CASE Validate(c, sp, C1, k)
    BY <2>2 DEF Validate, Returns, Fits
  <2>3. CASE \E op, of : Refuse(op, of)
    <3>1. verdict'.ok = FALSE
      BY <2>3 DEF Refuse, Returns
    <3>2. QED
      BY <3>1
  <2>4. CASE Verify(c, S, C1, m)
    BY <2>4 DEF Verify, Returns
  <2>5. QED
    BY <2>1, <2>2, <2>3, <2>4
<1>4. QED
  BY <1>1, <1>2, <1>3, IdleTypes

LEMMA SearchTypes ==
  ASSUME TypeOK, NEW j, SearchHit(j) \/ SearchMiss(j)
  PROVE  TypeOK'
<1>1. j \in 0..(Len(primes) - i) /\ Len(primes) = Len(SmallPrimes)
  BY PrimesTyped DEF TypeOK, SearchHit, SearchMiss, Shuffle
<1>2. i \in 1..Len(SmallPrimes) /\ i + j \in 1..Len(SmallPrimes)
  BY <1>1, PrimesTyped DEF TypeOK
<1>3. primes' \in [1..Len(SmallPrimes) -> SmallPrimeSet]
  BY <1>2 DEF TypeOK, SearchHit, SearchMiss, Swapped
<1>4. i' \in 1..Len(SmallPrimes)
  BY <1>1, <1>2, PrimesTyped DEF SearchHit, SearchMiss, AtEnd
<1>5. /\ pc' \in Pcs /\ pc # "idle" /\ UNCHANGED <<prng, job, tries, signs, verdict>>
  BY DEF SearchHit, SearchMiss, Shuffle, Pcs
<1>6. QED
  BY <1>3, <1>4, <1>5 DEF TypeOK

LEMMA SignTypes ==
  ASSUME TypeOK, Sign
  PROVE  TypeOK'
<1>1. ASSUME NEW c \in Ctxs, NEW k \in Keys, NEW sp \in SPrimes, NEW m \in Msgs,
             SignBegin(c, k, sp, m)
      PROVE  TypeOK'
  <2>1. /\ pc' = "search" /\ job' = [c |-> c, k |-> k, sp |-> sp, m |-> m]
        /\ signs' = signs + 1 /\ signs < MaxSigns /\ i' = 1 /\ primes' = SmallPrimes
        /\ verdict'.ok \in BOOLEAN /\ UNCHANGED <<prng, tries>>
    BY <1>1 DEF SignBegin, Called
  <2>2. QED
    BY <2>1, PrimesTyped, BoundsTyped DEF TypeOK, Pcs
<1>2. ASSUME NEW j, SearchHit(j) \/ SearchMiss(j) PROVE TypeOK'
  BY <1>2, SearchTypes
<1>3. ASSUME NEW j, SearchFails(j) PROVE TypeOK'
  <2>1. /\ pc' = "idle" /\ i' = 1 /\ primes' = SmallPrimes /\ tries' = 0
        /\ verdict'.ok \in BOOLEAN /\ UNCHANGED <<prng, signs>>
    BY <1>3 DEF SearchFails, SignReturns, Returns
  <2>2. QED
    BY <2>1, IdleTypes
<1>4. ASSUME NotDivisible \/ Respond \/ SignFails PROVE TypeOK'
  <2>1. /\ pc' = "idle" /\ i' = 1 /\ primes' = SmallPrimes /\ tries' = 0
        /\ verdict'.ok \in BOOLEAN /\ UNCHANGED <<prng, signs>>
    <3>1. CASE NotDivisible
      BY <3>1 DEF NotDivisible, SignReturns, Returns
    <3>2. CASE Respond
      BY <3>2 DEF Respond, SignReturns, Returns
    <3>3. CASE SignFails
      BY <3>3 DEF SignFails, SignReturns, Returns
    <3>4. QED
      BY <1>4, <3>1, <3>2, <3>3
  <2>2. QED
    BY <2>1, IdleTypes
<1>5. ASSUME DrawBlinding \/ MakeCommitments \/ MakeMasks \/ DrawTry PROVE TypeOK'
  <2>1. /\ pc' \in Pcs /\ pc # "idle" /\ DOMAIN prng' = DOMAIN prng
        /\ UNCHANGED <<job, i, primes, tries, signs, verdict>>
    BY <1>5 DEF DrawBlinding, MakeCommitments, MakeMasks, DrawTry, Pcs
  <2>2. QED
    BY <2>1 DEF TypeOK
<1>6. ASSUME Try PROVE TypeOK'
  <2>1. /\ pc' \in Pcs /\ pc # "idle" /\ DOMAIN prng' = DOMAIN prng
        /\ tries' = tries \/ (tries < MaxTries /\ tries' = tries + 1)
        /\ UNCHANGED <<job, i, primes, signs, verdict>>
    BY <1>6 DEF Try, Derive, Pcs
  <2>2. QED
    BY <2>1, BoundsTyped DEF TypeOK
<1>7. QED
  BY <1>1, <1>2, <1>3, <1>4, <1>5, <1>6 DEF Sign

LEMMA StepTypes == TypeOK /\ [Next]_vars => TypeOK'
<1>1. CASE UNCHANGED vars
  BY <1>1 DEF vars, signVars, TypeOK
<1>2. CASE TypeOK /\ Next
  BY <1>2, CallTypes, SignTypes
     DEF Next, ChallengeRefuse, ValidateRefuse, SignRefuse, VerifyRefuse
<1>3. QED
  BY <1>1, <1>2

(* Every state the calls and the steps of sign reach is well typed.        *)
THEOREM ProtocolTypes == Spec => []TypeOK
<1>1. QED
  BY InitTypes, StepTypes, PTL DEF Spec

------------------------------------------------------------------------------
IInv ==
  /\ SignInv
  /\ \A x \in sigs : Honest(x)
  /\ HonestSignatureVerifies

LEMMA InitInv == Init => IInv
BY DEF Init, IInv, SignInv, JobInv, WitInv, BlindInv, ComInv, MaskInv, TryInv,
       TurnInv, HonestSignatureVerifies

LEMMA HonestStays ==
  ASSUME NEW x, Keeps(tape, tape'), Honest(x)
  PROVE  Honest(x)'
BY ToldStays DEF Honest

(* A step that is not the return of sign or verify only has to keep what   *)
(* is known inside sign.                                                   *)
LEMMA QuietStep ==
  ASSUME IInv, Keeps(tape, tape'), SignInv', sigs' = sigs,
         verdict' = verdict \/ verdict'.op # "verify"
  PROVE  IInv'
<1>1. \A x \in sigs' : Honest(x)'
  BY HonestStays DEF IInv
<1>2. HonestSignatureVerifies'
  BY DEF IInv, HonestSignatureVerifies
<1>3. QED
  BY <1>1, <1>2 DEF IInv

LEMMA IdleInv ==
  ASSUME pc' = "idle"
  PROVE  SignInv'
BY DEF SignInv, JobInv, WitInv, BlindInv, ComInv, MaskInv, TryInv, TurnInv

LEMMA KeepsSame ==
  ASSUME UNCHANGED tape
  PROVE  Keeps(tape, tape')
BY DEF Keeps

LEMMA ExpandKeeps ==
  ASSUME NEW c, NEW sp, NEW s, ExpandSPrime(c, sp, s)
  PROVE  Keeps(tape, tape')
BY RecordedKeeps DEF ExpandSPrime

LEMMA ChallengeInv ==
  ASSUME IInv, NEW c \in Ctxs, NEW k \in Keys, NEW sp \in SPrimes, Challenge(c, k, sp)
  PROVE  IInv'
<1>1. Keeps(tape, tape')
  BY ExpandKeeps DEF Challenge
<1>2. pc' = "idle" /\ sigs' = sigs /\ verdict'.op # "verify"
  BY DEF Challenge, Returns
<1>3. QED
  BY <1>1, <1>2, IdleInv, QuietStep

LEMMA ValidateInv ==
  ASSUME IInv, NEW c, NEW sp, NEW C1, NEW k, Validate(c, sp, C1, k)
  PROVE  IInv'
<1>1. Keeps(tape, tape')
  BY ExpandKeeps DEF Validate
<1>2. pc' = "idle" /\ sigs' = sigs /\ verdict'.op # "verify"
  BY DEF Validate, Returns
<1>3. QED
  BY <1>1, <1>2, IdleInv, QuietStep

LEMMA RefuseInv ==
  ASSUME IInv, NEW op, NEW of, op # "verify", Refuse(op, of)
  PROVE  IInv'
<1>1. Keeps(tape, tape')
  BY KeepsSame DEF Refuse
<1>2. pc' = "idle" /\ sigs' = sigs /\ verdict'.op # "verify"
  BY DEF Refuse, Returns
<1>3. QED
  BY <1>1, <1>2, IdleInv, QuietStep

LEMMA SignBeginInv ==
  ASSUME IInv, NEW c \in Ctxs, NEW k \in Keys, NEW sp \in SPrimes, NEW m \in Msgs,
         SignBegin(c, k, sp, m)
  PROVE  IInv'
<1>1. Keeps(tape, tape') /\ sigs' = sigs /\ verdict'.op # "verify"
  BY KeepsSame DEF SignBegin, Called
<1>2. /\ pc' = "search" /\ job' = [c |-> c, k |-> k, sp |-> sp, m |-> m] /\ ValidKey(k)
  BY DEF SignBegin
<1>3. SignInv'
  BY <1>2 DEF SignInv, JobInv, WitInv, BlindInv, ComInv, MaskInv, TryInv, TurnInv
<1>4. QED
  BY <1>1, <1>3, QuietStep

LEMMA SearchInv ==
  ASSUME IInv, TypeOK, NEW j, SearchHit(j) \/ SearchMiss(j) \/ SearchFails(j)
  PROVE  IInv'
<1>1. Keeps(tape, tape')
  BY RecordedKeeps DEF SearchHit, SearchMiss, SearchFails, Shuffle
<1>2. sigs' = sigs /\ (verdict' = verdict \/ verdict'.op # "verify")
  BY DEF SearchHit, SearchMiss, SearchFails, SignReturns, Returns
<1>3. CASE SearchHit(j)
  <2> DEFINE t == primes[i + j]
             n == Modulus(job.k)
  <2>1. /\ pc = "search" /\ pc' = "blind" /\ UNCHANGED job
        /\ j \in 0..(Len(primes) - i) /\ RootOf(t) # -1
        /\ wit' = [t |-> t, w |-> RootOf(t),
                   a |-> (RootOf(t) * RootOf(t) - t) \div n]
    BY <1>3 DEF SearchHit, Shuffle
  <2>2. t \in SmallPrimeSet /\ t \in Nat
    <3>1. Len(primes) = Len(SmallPrimes) /\ i \in 1..Len(SmallPrimes)
      BY PrimesTyped DEF TypeOK
    <3>2. i + j \in 1..Len(SmallPrimes)
      BY <2>1, <3>1, PrimesTyped
    <3>3. QED
      BY <3>2, PrimesTyped DEF TypeOK
  <2>3. job.k \in Keys /\ ValidKey(job.k)
    BY <2>1 DEF IInv, SignInv, JobInv
  <2>4. RootOf(t) \in Nat
    <3>1. SqrtPQ[job.k] \in [SmallPrimeSet -> Nat \cup {-1}]
      BY <2>3, ProtocolAssumption
    <3>2. SqrtPQ[job.k][t] \in Nat \cup {-1}
      BY <2>2, <3>1
    <3>3. QED
      BY <2>1, <3>2 DEF RootOf
  <2>5. n \in Nat /\ n > 0
    <3>1. /\ job.k.p \in Nat /\ job.k.q \in Nat
          /\ job.k.p >= 3 /\ job.k.q >= 3 /\ n = job.k.p * job.k.q
      BY <2>3, ProtocolAssumption DEF ValidKey, ValidPrime, Modulus
    <3>2. \A x, y \in Nat : x >= 3 /\ y >= 3 => x * y \in Nat /\ x * y > 0
      BY SMT
    <3>3. QED
      BY <3>1, <3>2
  <2>6. (RootOf(t) * RootOf(t) - t) \div n \in Int
    <3>1. RootOf(t) * RootOf(t) - t \in Int
      BY <2>2, <2>4
    <3>2. QED
      BY <3>1, <2>5, Euclid
  <2>7. wit' \in [t : SmallPrimeSet, w : Nat, a : Int]
    BY <2>1, <2>2, <2>4, <2>6
  <2>8. SignInv'
    BY <2>1, <2>3, <2>7
       DEF IInv, SignInv, JobInv, WitInv, BlindInv, ComInv, MaskInv, TryInv, TurnInv
  <2>9. QED
    BY <2>8, <1>1, <1>2, QuietStep
<1>4. CASE SearchMiss(j)
  <2>1. pc' = "search" /\ pc = "search" /\ UNCHANGED job
    BY <1>4 DEF SearchMiss, Shuffle
  <2>2. SignInv'
    BY <2>1 DEF IInv, SignInv, JobInv, WitInv, BlindInv, ComInv, MaskInv, TryInv, TurnInv
  <2>3. QED
    BY <2>2, <1>1, <1>2, QuietStep
<1>5. CASE SearchFails(j)
  BY <1>5, <1>1, <1>2, IdleInv, QuietStep DEF SearchFails, SignReturns
<1>6. QED
  BY <1>3, <1>4, <1>5

LEMMA DrawBlindingInv ==
  ASSUME IInv, DrawBlinding
  PROVE  IInv'
<1>1. Keeps(tape, tape')
  BY KeepsTwice DEF DrawBlinding
<1>2. PICK s \in Expands, s1 \in Scalars, s2 \in Scalars :
        blind' = [s |-> s, s1 |-> s1, s2 |-> s2]
  BY DEF DrawBlinding
<1>3. Expands \subseteq Exp /\ Scalars \subseteq Exp
  BY ProtocolAssumption DEF Exp
<1>4. /\ pc = "blind" /\ pc' = "commit" /\ Divides /\ UNCHANGED <<job, wit, sigs, verdict>>
  BY DEF DrawBlinding
<1>5. Divides' /\ blind' \in [s : Exp, s1 : Exp, s2 : Exp]
  BY <1>2, <1>3, <1>4 DEF Divides
<1>6. SignInv'
  BY <1>4, <1>5
     DEF IInv, SignInv, JobInv, WitInv, BlindInv, ComInv, MaskInv, TryInv, TurnInv
<1>7. QED
  BY <1>1, <1>4, <1>6, QuietStep

LEMMA MakeCommitmentsInv ==
  ASSUME IInv, MakeCommitments
  PROVE  IInv'
<1>1. Keeps(tape, tape')
  BY RecordedKeeps DEF MakeCommitments
<1>2. PICK r \in Masks :
        rnd' = [r_w |-> r[1], r_w2 |-> r[2], r_a |-> r[3], r_an |-> r[4],
                r_s1w |-> r[5], r_sa |-> r[6], r_s2 |-> r[7]]
  BY DEF MakeCommitments
<1>3. r \in [1..7 -> Exp]
  BY ProtocolAssumption DEF Exp
<1>4. rnd' \in [r_w : Exp, r_w2 : Exp, r_a : Exp, r_an : Exp,
                r_s1w : Exp, r_sa : Exp, r_s2 : Exp]
  BY <1>2, <1>3
<1>5. /\ pc = "commit" /\ pc' = "mask" /\ UNCHANGED <<job, wit, blind, sigs, verdict>>
      /\ com' = [C1 |-> Commit(Modulus(job.k), blind.s),
                 C2 |-> Commit(wit.w, blind.s1),
                 C3 |-> Commit(wit.a, blind.s2)]
  BY DEF MakeCommitments
<1>6. SignInv'
  BY <1>4, <1>5
     DEF IInv, SignInv, JobInv, WitInv, BlindInv, ComInv, MaskInv, TryInv, TurnInv, Divides
<1>7. QED
  BY <1>1, <1>5, <1>6, QuietStep

LEMMA MakeMasksInv ==
  ASSUME IInv, MakeMasks
  PROVE  IInv'
<1>1. Keeps(tape, tape')
  BY KeepsSame DEF MakeMasks
<1>2. /\ pc = "mask" /\ pc' = "loop" /\ UNCHANGED <<job, wit, blind, com, rnd, sigs, verdict>>
      /\ mask' = [B |-> Commit(rnd.r_a, rnd.r_s2),
                  C |-> Over(rnd.r_w2, rnd.r_s1w, com.C2, rnd.r_w),
                  D |-> Over(rnd.r_an, rnd.r_sa, com.C1, rnd.r_a),
                  E |-> rnd.r_w2 - rnd.r_an]
  BY DEF MakeMasks
<1>3. SignInv'
  BY <1>2
     DEF IInv, SignInv, JobInv, WitInv, BlindInv, ComInv, MaskInv, TryInv, TurnInv, Divides
<1>4. QED
  BY <1>1, <1>2, <1>3, QuietStep

LEMMA DrawTryInv ==
  ASSUME IInv, DrawTry
  PROVE  IInv'
<1>1. Keeps(tape, tape')
  BY RecordedKeeps DEF DrawTry
<1>2. PICK r_s1 \in Scalars :
        try' = [r_s1 |-> r_s1, A |-> Commit(rnd.r_w, r_s1), chal |-> 0, ell |-> 0]
  BY DEF DrawTry
<1>3. r_s1 \in Exp
  BY ProtocolAssumption DEF Exp
<1>4. /\ pc = "loop" /\ pc' = "try"
      /\ UNCHANGED <<job, wit, blind, com, rnd, mask, sigs, verdict>>
  BY DEF DrawTry
<1>5. SignInv'
  BY <1>2, <1>3, <1>4
     DEF IInv, SignInv, JobInv, WitInv, BlindInv, ComInv, MaskInv, TryInv, TurnInv, Divides
<1>6. QED
  BY <1>1, <1>4, <1>5, QuietStep

(* A turn of the loop for ell: what ell is, and where it comes from.       *)
LEMMA TryStepInv ==
  ASSUME IInv, Try
  PROVE  IInv'
<1> DEFINE tr == JobTranscript(try.A)
<1>1. PICK chal \in Chals, ell0 \in Ells, ell \in 0..(EllLim + EllDiffMax) :
        /\ Derive(job.c, tr, chal, ell0)
        /\ IsNextPrime(Accepts(tr), ell0, EllDiffMax, ell)
        /\ \/ FullLength(ell) /\ pc' = "respond"
           \/ pc' = "loop"
        /\ try' = [r_s1 |-> try.r_s1, A |-> try.A, chal |-> chal, ell |-> ell]
  BY DEF Try
<1>2. /\ pc = "try"
      /\ UNCHANGED <<job, wit, blind, com, rnd, mask, sigs, verdict>>
  BY DEF Try
<1>3. Keeps(tape, tape')
  BY <1>1, DeriveTells
<1>4. CASE pc' = "loop"
  <2>1. SignInv'
    BY <1>2, <1>4
       DEF IInv, SignInv, JobInv, WitInv, BlindInv, ComInv, MaskInv, TryInv, TurnInv, Divides
  <2>2. QED
    BY <2>1, <1>2, <1>3, QuietStep
<1>5. CASE FullLength(ell) /\ pc' = "respond"
  <2>1. /\ ell \in Nat /\ ell > 0 /\ ell0 \in Nat /\ EllDiffMax \in Nat
    <3>1. EllLim \in Nat /\ EllDiffMax \in Nat /\ EllLim >= 2
          /\ Ells \subseteq 0..(EllLim - 1)
      BY ProtocolAssumption, WidthAssumption
    <3>2. EllLim \div 2 >= 1 /\ EllLim \div 2 <= ell
      BY <3>1, <1>5 DEF FullLength
    <3>3. QED
      BY <3>1, <3>2
  <2>2. ell \in Accepts(tr) /\ ell0 <= ell /\ ell <= ell0 + EllDiffMax
    BY <1>1, <2>1 DEF IsNextPrime, OddsIn
  <2>3. Told(tape', tr, chal, ell)
    BY <1>1, <2>2, DeriveTells DEF Told
  <2>4. /\ try'.r_s1 = try.r_s1 /\ try'.A = try.A /\ try'.chal = chal /\ try'.ell = ell
    BY <1>1
  <2>5. JobTranscript(try.A)' = tr
    BY <1>2, <2>4 DEF JobTranscript
  <2>6. TurnInv'
    BY <1>1, <1>5, <2>1, <2>3, <2>4, <2>5 DEF TurnInv
  <2>7. SignInv'
    BY <1>2, <1>5, <2>4, <2>6
       DEF IInv, SignInv, JobInv, WitInv, BlindInv, ComInv, MaskInv, TryInv, Divides
  <2>8. QED
    BY <2>7, <1>2, <1>3, QuietStep
<1>6. QED
  BY <1>1, <1>4, <1>5

(* The return of sign: the new signature is honest.                        *)
LEMMA RespondInv ==
  ASSUME IInv, Respond
  PROVE  IInv'
<1> DEFINE x == [k |-> job.k, sp |-> job.sp, m |-> job.m, C1 |-> com.C1,
                 sig |-> Signature, tr |-> JobTranscript(try.A)]
<1>1. /\ pc = "respond" /\ pc' = "idle" /\ sigs' = sigs \cup {x}
      /\ UNCHANGED tape /\ verdict'.op = "sign"
  BY DEF Respond, SignReturns, Returns
<1>2. Honest(x)
  BY <1>1, SignatureIsHonest DEF IInv
<1> HIDE DEF x
<1>3. \A y \in sigs' : Honest(y)
  BY <1>1, <1>2 DEF IInv
<1>4. \A y \in sigs' : Honest(y)'
  BY <1>1, <1>3 DEF Honest
<1>5. HonestSignatureVerifies'
  BY <1>1 DEF HonestSignatureVerifies
<1>6. QED
  BY <1>1, <1>4, <1>5, IdleInv DEF IInv

LEMMA FailureInv ==
  ASSUME IInv, NotDivisible \/ SignFails
  PROVE  IInv'
<1>1. /\ pc' = "idle" /\ sigs' = sigs /\ UNCHANGED tape /\ verdict'.op # "verify"
  BY DEF NotDivisible, SignFails, SignReturns, Returns
<1>2. QED
  BY <1>1, KeepsSame, IdleInv, QuietStep

(* Verification refuses no honest signature: not by its checks, nor by     *)
(* what it derives.                                                        *)
LEMMA VerifyRefuseInv ==
  ASSUME IInv, NEW c \in Ctxs, NEW S, NEW C1, NEW m, VerifyRefuse(c, S, C1, m)
  PROVE  IInv'
<1>1. /\ pc' = "idle" /\ sigs' = sigs /\ UNCHANGED tape /\ ~Checkable(c, S, C1)
      /\ verdict'.of = <<c, m, S, C1>>
  BY DEF VerifyRefuse, Refuse, Returns
<1>2. ASSUME NEW x \in sigs, verdict'.of = <<verdict'.of[1], x.m, x.sig, x.C1>>
      PROVE  FALSE
  <2>1. S = x.sig /\ C1 = x.C1
    BY <1>1, <1>2
  <2>2. QED
    BY <1>1, <2>1 DEF IInv, Honest
<1>3. HonestSignatureVerifies'
  BY <1>1, <1>2 DEF HonestSignatureVerifies
<1>4. \A x \in sigs' : Honest(x)'
  BY <1>1, KeepsSame, HonestStays DEF IInv
<1>5. QED
  BY <1>1, <1>3, <1>4, IdleInv DEF IInv

LEMMA VerifyInv ==
  ASSUME IInv, NEW c \in Ctxs, NEW S, NEW C1, NEW m, Verify(c, S, C1, m)
  PROVE  IInv'
<1> DEFINE tr == RecoveredTranscript(S, C1, m)
<1>1. PICK chal \in Chals, ell0 \in Ells :
        /\ Derive(c, tr, chal, ell0)
        /\ Returns("verify",
                   /\ S.chal = chal
                   /\ ell0 <= S.ell /\ S.ell <= ell0 + EllDiffMax
                   /\ S.ell \in Accepts(tr),
                   <<c, m, S, C1>>)
  BY DEF Verify
<1>2. pc' = "idle" /\ sigs' = sigs
  BY DEF Verify
<1>3. /\ Keeps(tape, tape')
      /\ tape'[<<DeriveSeed(tr), 1>>] = chal /\ tape'[<<DeriveSeed(tr), 2>>] = ell0
  BY <1>1, DeriveTells
<1>4. \A x \in sigs' : Honest(x)'
  BY <1>2, <1>3, HonestStays DEF IInv
<1>5. verdict'.of = <<c, m, S, C1>>
  BY <1>1 DEF Returns
<1>6. ASSUME NEW x \in sigs', verdict'.of = <<verdict'.of[1], x.m, x.sig, x.C1>>
      PROVE  verdict'.ok
  <2>1. S = x.sig /\ C1 = x.C1 /\ m = x.m
    BY <1>5, <1>6
  <2>2. x.tr = tr /\ Told(tape', tr, S.chal, S.ell)
    BY <1>4, <2>1 DEF Honest
  <2>3. /\ S.chal = chal /\ ell0 <= S.ell /\ S.ell <= ell0 + EllDiffMax
        /\ S.ell \in Accepts(tr)
    BY <1>3, <2>2 DEF Told
  <2>4. QED
    BY <1>1, <2>3 DEF Returns
<1>7. HonestSignatureVerifies'
  <2>1. SUFFICES ASSUME \E x \in sigs' : verdict'.of = <<verdict'.of[1], x.m, x.sig, x.C1>>
                 PROVE  verdict'.ok
    BY Zenon DEF HonestSignatureVerifies
  <2>2. QED
    BY <1>6, <2>1, Zenon
<1>8. QED
  BY <1>2, <1>4, <1>7, IdleInv DEF IInv

LEMMA StepInv == TypeOK /\ IInv /\ [Next]_vars => IInv'
<1> SUFFICES ASSUME TypeOK, IInv, [Next]_vars PROVE IInv'
  OBVIOUS
<1>1. CASE UNCHANGED vars
  BY <1>1
     DEF vars, signVars, IInv, SignInv, JobInv, WitInv, BlindInv, ComInv, MaskInv,
         TryInv, TurnInv, Honest, HonestSignatureVerifies, Divides, JobTranscript
<1>2. CASE Sign
  BY <1>2, SignBeginInv, SearchInv, FailureInv, DrawBlindingInv, MakeCommitmentsInv,
     MakeMasksInv, DrawTryInv, TryStepInv, RespondInv DEF Sign
<1>3. CASE \E c \in Ctxs, k \in Keys, sp \in SPrimes :
             \/ Challenge(c, k, sp) \/ ChallengeRefuse(c, k, sp)
             \/ \E ch \in issued : \E C1 \in {ch.C1, NotCanonical(ch.C1)} :
                  Validate(c, sp, C1, k) \/ ValidateRefuse(c, sp, C1, k)
             \/ SignRefuse(c, k)
  BY <1>3, ChallengeInv, ValidateInv, RefuseInv
     DEF ChallengeRefuse, ValidateRefuse, SignRefuse
<1>4. CASE \E c \in Ctxs, m \in Msgs, x \in sigs, C1 \in {y.C1 : y \in sigs \cup issued} :
             \E S \in Variants(x.sig) : VerifyRefuse(c, S, C1, m) \/ Verify(c, S, C1, m)
  BY <1>4, VerifyRefuseInv, VerifyInv
<1>5. QED
  BY <1>1, <1>2, <1>3, <1>4 DEF Next

(* Completeness: what sign returns, verify accepts, on every context and   *)
(* after any calls.                                                        *)
THEOREM Completeness == Spec => []HonestSignatureVerifies
<1>1. Init => TypeOK /\ IInv
  BY InitTypes, InitInv
<1>2. TypeOK /\ IInv /\ [Next]_vars => TypeOK' /\ IInv'
  BY StepTypes, StepInv
<1>3. TypeOK /\ IInv => HonestSignatureVerifies
  BY DEF IInv
<1>4. QED
  BY <1>1, <1>2, <1>3, PTL DEF Spec

------------------------------------------------------------------------------
(* The search.                                                             *)

(* Exchanging two entries of a list keeps the set of its entries.          *)
LEMMA SwapKeepsAll ==
  ASSUME TypeOK, NEW j \in 0..(Len(primes) - i)
  PROVE  /\ DOMAIN Swapped(j) = DOMAIN primes
         /\ {Swapped(j)[x] : x \in DOMAIN primes} = {primes[x] : x \in DOMAIN primes}
         /\ Swapped(j)[i] = primes[i + j]
         /\ \A x \in 1..(i - 1) : Swapped(j)[x] = primes[x]
<1>1. /\ i \in DOMAIN primes /\ i + j \in DOMAIN primes /\ i \in Nat /\ j \in Nat
      /\ DOMAIN primes = 1..Len(SmallPrimes) /\ Len(SmallPrimes) \in Nat
      /\ primes \in [DOMAIN primes -> SmallPrimeSet]
  <2>1. Len(primes) = Len(SmallPrimes) /\ DOMAIN primes = 1..Len(SmallPrimes)
    BY PrimesTyped DEF TypeOK
  <2>2. QED
    BY <2>1, PrimesTyped DEF TypeOK
<1>2. \A x \in DOMAIN primes :
        Swapped(j)[x] = IF x = i + j THEN primes[i] ELSE IF x = i THEN primes[i + j] ELSE primes[x]
  BY <1>1 DEF Swapped
<1>3. DOMAIN Swapped(j) = DOMAIN primes
  BY DEF Swapped
<1>4. Swapped(j)[i] = primes[i + j] /\ Swapped(j)[i + j] = primes[i]
  BY <1>1, <1>2
<1>5. \A x \in DOMAIN primes : x # i /\ x # i + j => Swapped(j)[x] = primes[x]
  BY <1>2
<1>6. \A x \in DOMAIN primes : \E y \in DOMAIN primes : Swapped(j)[x] = primes[y]
  BY <1>1, <1>4, <1>5, Zenon
<1>7. \A x \in DOMAIN primes : \E y \in DOMAIN primes : Swapped(j)[y] = primes[x]
  BY <1>1, <1>4, <1>5, Zenon
<1>8. {Swapped(j)[x] : x \in DOMAIN primes} = {primes[x] : x \in DOMAIN primes}
  <2>1. \A v \in {Swapped(j)[x] : x \in DOMAIN primes} : v \in {primes[x] : x \in DOMAIN primes}
    BY <1>6
  <2>2. \A v \in {primes[x] : x \in DOMAIN primes} : v \in {Swapped(j)[x] : x \in DOMAIN primes}
    BY <1>7
  <2>3. QED
    BY <2>1, <2>2
<1>9. \A x \in 1..(i - 1) : x \in DOMAIN primes /\ x # i /\ x # i + j
  BY <1>1
<1>10. QED
  BY <1>3, <1>4, <1>5, <1>8, <1>9

LEMMA SearchStep == TypeOK /\ SearchCovers /\ [Next]_vars => SearchCovers'
<1> SUFFICES ASSUME TypeOK, SearchCovers, [Next]_vars, pc' = "search"
             PROVE  /\ {primes'[x] : x \in DOMAIN primes'} = SmallPrimeSet
                    /\ \A x \in 1..(i' - 1) : SqrtPQ[job'.k][primes'[x]] = -1
  BY DEF SearchCovers, RootOf
<1>1. CASE UNCHANGED <<pc, primes, i, job>>
  BY <1>1 DEF SearchCovers, RootOf
<1>2. CASE \E c \in Ctxs, k \in Keys, sp \in SPrimes, m \in Msgs : SignBegin(c, k, sp, m)
  <2>1. primes' = SmallPrimes /\ i' = 1
    BY <1>2 DEF SignBegin
  <2>2. QED
    BY <2>1 DEF SmallPrimeSet
<1>3. ASSUME NEW j, SearchMiss(j)
      PROVE  /\ {primes'[x] : x \in DOMAIN primes'} = SmallPrimeSet
             /\ \A x \in 1..(i' - 1) : SqrtPQ[job'.k][primes'[x]] = -1
  <2>1. /\ pc = "search" /\ j \in 0..(Len(primes) - i) /\ RootOf(primes[i + j]) = -1
        /\ primes' = Swapped(j) /\ i' = i + 1 /\ job' = job
    BY <1>3 DEF SearchMiss, Shuffle
  <2>2. {primes'[x] : x \in DOMAIN primes'} = SmallPrimeSet
    BY <2>1, SwapKeepsAll DEF SearchCovers
  <2>3. i \in Nat /\ i >= 1
    BY PrimesTyped DEF TypeOK
  <2>4. \A x \in 1..i : RootOf(primes'[x]) = -1
    <3>1. \A x \in 1..(i - 1) : RootOf(primes'[x]) = -1
      BY <2>1, SwapKeepsAll DEF SearchCovers
    <3>2. RootOf(primes'[i]) = -1
      BY <2>1, SwapKeepsAll
    <3>3. QED
      BY <2>3, <3>1, <3>2
  <2>5. \A x \in 1..(i' - 1) : SqrtPQ[job'.k][primes'[x]] = -1
    BY <2>1, <2>3, <2>4 DEF RootOf
  <2>6. QED
    BY <2>2, <2>5
<1>4. pc' = "search" => UNCHANGED <<pc, primes, i, job>> \/ (\E j : SearchMiss(j))
        \/ \E c \in Ctxs, k \in Keys, sp \in SPrimes, m \in Msgs : SignBegin(c, k, sp, m)
  <2>1. CASE UNCHANGED vars
    BY <2>1 DEF vars, signVars
  <2>2. CASE Sign
    BY <2>2 DEF Sign, SearchHit, SearchFails, NotDivisible, DrawBlinding,
                MakeCommitments, MakeMasks, DrawTry, Try, Respond, SignFails, SignReturns
  <2>3. CASE \E c \in Ctxs, k \in Keys, sp \in SPrimes :
               \/ Challenge(c, k, sp) \/ ChallengeRefuse(c, k, sp)
               \/ \E ch \in issued : \E C1 \in {ch.C1, NotCanonical(ch.C1)} :
                    Validate(c, sp, C1, k) \/ ValidateRefuse(c, sp, C1, k)
               \/ SignRefuse(c, k)
    <3>1. ASSUME NEW c, NEW k, NEW sp, NEW C1,
                 Challenge(c, k, sp) \/ Validate(c, sp, C1, k) \/ \E op, of : Refuse(op, of)
          PROVE  UNCHANGED <<pc, primes, i, job>>
      <4>1. CASE Challenge(c, k, sp)
        BY <4>1 DEF Challenge, signVars
      <4>2. CASE Validate(c, sp, C1, k)
        BY <4>2 DEF Validate, signVars
      <4>3. CASE \E op, of : Refuse(op, of)
        BY <4>3 DEF Refuse, signVars
      <4>4. QED
        BY <3>1, <4>1, <4>2, <4>3
    <3>2. QED
      BY <2>3, <3>1 DEF ChallengeRefuse, ValidateRefuse, SignRefuse
  <2>4. CASE \E c \in Ctxs, m \in Msgs, x \in sigs, C1 \in {y.C1 : y \in sigs \cup issued} :
               \E S \in Variants(x.sig) : VerifyRefuse(c, S, C1, m) \/ Verify(c, S, C1, m)
    <3>1. ASSUME NEW c, NEW m, NEW S, NEW C1, VerifyRefuse(c, S, C1, m) \/ Verify(c, S, C1, m)
          PROVE  UNCHANGED <<pc, primes, i, job>>
      <4>1. CASE VerifyRefuse(c, S, C1, m)
        BY <4>1 DEF VerifyRefuse, Refuse, signVars
      <4>2. CASE Verify(c, S, C1, m)
        BY <4>2 DEF Verify, signVars
      <4>3. QED
        BY <3>1, <4>1, <4>2
    <3>2. QED
      BY <2>4, <3>1
  <2>5. QED
    BY <2>1, <2>2, <2>3, <2>4 DEF Next
<1>5. QED
  BY <1>1, <1>2, <1>3, <1>4

(* Sign gives up on a key only when the list holds no prime with a root.   *)
THEOREM SearchIsExhaustive == Spec => []SearchCovers
<1>1. Init => TypeOK /\ SearchCovers
  BY InitTypes DEF Init, SearchCovers
<1>2. TypeOK /\ SearchCovers /\ [Next]_vars => TypeOK' /\ SearchCovers'
  BY StepTypes, SearchStep
<1>3. QED
  BY <1>1, <1>2, PTL DEF Spec

------------------------------------------------------------------------------
(* s as the tape tells it.                                                 *)
Start(sp) == <<ExpandSeed(sp), 1>>
Opens(tp, sp, n, C1) == Start(sp) \in DOMAIN tp /\ C1 = Commit(n, tp[Start(sp)])

(* The numbers and elements that the two other forms of a proof change.    *)
Reduced(S) ==
  /\ {"C2", "Bq", "ell", "z"} \subseteq DOMAIN S
  /\ "s2" \in DOMAIN S.z /\ S.z.s2 \in Nat
  /\ S.ell \in Nat
  /\ "canon" \in DOMAIN S.C2

(* The last call, if it was verify or validate.                            *)
Accepted ==
  verdict.ok =>
    /\ verdict.op = "verify" => WellFormed(verdict.of[3], verdict.of[4])
    /\ verdict.op = "validate" => verdict.of[3].canon

Outcome(tp, ok, c, sp, C1, k) ==
  \/ ~ok /\ ~(C1.canon /\ ValidKey(k))
  \/ /\ ValidKey(k)
     /\ Start(sp) \in DOMAIN tp
     /\ ok <=> /\ Fits(c, Modulus(k), tp[Start(sp)])
               /\ Commit(Modulus(k), tp[Start(sp)]) = C1

Validated ==
  verdict.op = "validate" =>
    Outcome(tape, verdict.ok, verdict.of[1], verdict.of[2], verdict.of[3], verdict.of[4])

(* s inside sign.                                                          *)
Blinded ==
  pc \in {"commit", "mask", "loop", "try", "respond"} =>
    Start(job.sp) \in DOMAIN tape /\ blind.s = tape[Start(job.sp)]

FormInv ==
  /\ \A x \in sigs : Reduced(x.sig) /\ Opens(tape, x.sp, Modulus(x.k), x.C1)
  /\ \A ch \in issued : Opens(tape, ch.sp, ch.n, ch.C1)
  /\ Accepted
  /\ Validated
  /\ Blinded

------------------------------------------------------------------------------
LEMMA OpensStays ==
  ASSUME NEW tp, NEW tq, NEW sp, NEW n, NEW C1, Keeps(tp, tq), Opens(tp, sp, n, C1)
  PROVE  Opens(tq, sp, n, C1)
BY DEF Keeps, Opens

LEMMA OutcomeStays ==
  ASSUME NEW tp, NEW tq, NEW ok, NEW c, NEW sp, NEW C1, NEW k,
         Keeps(tp, tq), Outcome(tp, ok, c, sp, C1, k)
  PROVE  Outcome(tq, ok, c, sp, C1, k)
<1>1. Start(sp) \in DOMAIN tp => Start(sp) \in DOMAIN tq /\ tq[Start(sp)] = tp[Start(sp)]
  BY DEF Keeps
<1>2. QED
  BY <1>1 DEF Outcome

(* goo_group_expand_sprime reads s from the start of the stream.           *)
LEMMA ExpandTells ==
  ASSUME NEW c, NEW sp, NEW s, NEW tp,
         Reads(SeedPrng(prng[c], ExpandSeed(sp)), <<s>>),
         tp = Recorded(tape, SeedPrng(prng[c], ExpandSeed(sp)), <<s>>)
  PROVE  Keeps(tape, tp) /\ Start(sp) \in DOMAIN tp /\ tp[Start(sp)] = s
<1> DEFINE vals == <<s>>
           pr == SeedPrng(prng[c], ExpandSeed(sp))
<1>1. pr.seed = ExpandSeed(sp) /\ pr.pos = 0
  BY DEF SeedPrng
<1>2. Reads(pr, vals) /\ tp = Recorded(tape, pr, vals)
  OBVIOUS
<1>3. DOMAIN vals = {1} /\ vals[1] = s
  OBVIOUS
<1> HIDE DEF vals, pr
<1>4. {<<pr.seed, pr.pos + y>> : y \in DOMAIN vals} = {Start(sp)}
  BY <1>1, <1>3 DEF Start
<1>5. tp = [x \in DOMAIN tape \cup {Start(sp)} |->
              IF x \in DOMAIN tape THEN tape[x] ELSE vals[x[2] - 0]]
  BY <1>1, <1>2, <1>4 DEF Recorded
<1>6. Start(sp) \in DOMAIN tape => tape[Start(sp)] = s
  BY <1>1, <1>2, <1>3 DEF Reads, Start
<1>7. Start(sp)[2] = 1
  BY DEF Start
<1>8. Start(sp) \in DOMAIN tp /\ tp[Start(sp)] = s
  BY <1>3, <1>5, <1>6, <1>7
<1>9. QED
  BY <1>2, <1>8, RecordedKeeps

(* A step that returns no signature, issues no challenge, and accepts      *)
(* nothing, only has to keep s inside sign.                                *)
LEMMA QuietForm ==
  ASSUME FormInv, Keeps(tape, tape'), Blinded', sigs' = sigs, issued' = issued,
         verdict' = verdict \/ verdict'.op \notin {"verify", "validate"}
  PROVE  FormInv'
<1>1. \A x \in sigs' : Reduced(x.sig) /\ Opens(tape', x.sp, Modulus(x.k), x.C1)
  BY OpensStays DEF FormInv
<1>2. \A ch \in issued' : Opens(tape', ch.sp, ch.n, ch.C1)
  BY OpensStays DEF FormInv
<1>3. Accepted'
  BY DEF FormInv, Accepted
<1>4. Validated'
  BY OutcomeStays DEF FormInv, Validated
<1>5. QED
  BY <1>1, <1>2, <1>3, <1>4 DEF FormInv

LEMMA IdleBlinded ==
  ASSUME pc' = "idle"
  PROVE  Blinded'
BY DEF Blinded

LEMMA ChallengeForm ==
  ASSUME FormInv, NEW c, NEW k, NEW sp, Challenge(c, k, sp)
  PROVE  FormInv'
<1> DEFINE n == Modulus(k)
<1>1. PICK s \in Expands :
        /\ ExpandSPrime(c, sp, s)
        /\ issued' \subseteq issued \cup {[n |-> n, sp |-> sp, C1 |-> Commit(n, s)]}
  BY DEF Challenge
<1>2. Keeps(tape, tape') /\ Start(sp) \in DOMAIN tape' /\ tape'[Start(sp)] = s
  BY <1>1, ExpandTells DEF ExpandSPrime
<1>3. pc' = "idle" /\ sigs' = sigs /\ verdict'.op = "challenge"
  BY DEF Challenge, Returns
<1>4. \A ch \in issued' : Opens(tape', ch.sp, ch.n, ch.C1)
  <2>1. ASSUME NEW ch \in issued PROVE Opens(tape', ch.sp, ch.n, ch.C1)
    BY <1>2, OpensStays DEF FormInv
  <2>2. ASSUME NEW ch, ch = [n |-> n, sp |-> sp, C1 |-> Commit(n, s)]
        PROVE  Opens(tape', ch.sp, ch.n, ch.C1)
    BY <1>2, <2>2 DEF Opens
  <2>3. QED
    BY <1>1, <2>1, <2>2
<1>5. \A x \in sigs' : Reduced(x.sig) /\ Opens(tape', x.sp, Modulus(x.k), x.C1)
  BY <1>2, <1>3, OpensStays DEF FormInv
<1>6. Accepted' /\ Validated'
  BY <1>3 DEF Accepted, Validated
<1>7. QED
  BY <1>3, <1>4, <1>5, <1>6, IdleBlinded DEF FormInv

LEMMA ValidateForm ==
  ASSUME FormInv, NEW c, NEW sp, NEW C1, NEW k, Validate(c, sp, C1, k)
  PROVE  FormInv'
<1>1. PICK s \in Expands :
        /\ ExpandSPrime(c, sp, s)
        /\ Returns("validate",
                   Fits(c, Modulus(k), s) /\ Commit(Modulus(k), s) = C1,
                   <<c, sp, C1, k>>)
  BY DEF Validate
<1>2. Keeps(tape, tape') /\ Start(sp) \in DOMAIN tape' /\ tape'[Start(sp)] = s
  BY <1>1, ExpandTells DEF ExpandSPrime
<1>3. /\ pc' = "idle" /\ UNCHANGED <<sigs, issued>>
      /\ C1.canon /\ ValidKey(k)
  BY DEF Validate
<1>4. /\ verdict'.op = "validate" /\ verdict'.of = <<c, sp, C1, k>>
      /\ verdict'.ok = (Fits(c, Modulus(k), s) /\ Commit(Modulus(k), s) = C1)
  BY <1>1 DEF Returns
<1>5. Accepted'
  BY <1>3, <1>4 DEF Accepted
<1>6. Outcome(tape', verdict'.ok, c, sp, C1, k)
  BY <1>2, <1>3, <1>4 DEF Outcome
<1>7. Validated'
  BY <1>4, <1>6 DEF Validated
<1>8. /\ \A x \in sigs' : Reduced(x.sig) /\ Opens(tape', x.sp, Modulus(x.k), x.C1)
      /\ \A ch \in issued' : Opens(tape', ch.sp, ch.n, ch.C1)
  BY <1>2, <1>3, OpensStays DEF FormInv
<1>9. QED
  BY <1>3, <1>5, <1>7, <1>8, IdleBlinded DEF FormInv

(* Early returns accept nothing.                                           *)
LEMMA RefuseForm ==
  ASSUME FormInv, NEW op, NEW of, Refuse(op, of),
         op = "validate" => ~(of[3].canon /\ ValidKey(of[4]))
  PROVE  FormInv'
<1>1. pc' = "idle" /\ UNCHANGED <<tape, sigs, issued>>
      /\ verdict' = [op |-> op, ok |-> FALSE, of |-> of]
  BY DEF Refuse, Returns
<1>2. Accepted'
  BY <1>1 DEF Accepted
<1>3. Validated'
  BY <1>1 DEF Validated, Outcome
<1>4. /\ \A x \in sigs' : Reduced(x.sig) /\ Opens(tape', x.sp, Modulus(x.k), x.C1)
      /\ \A ch \in issued' : Opens(tape', ch.sp, ch.n, ch.C1)
  BY <1>1 DEF FormInv
<1>5. QED
  BY <1>1, <1>2, <1>3, <1>4, IdleBlinded DEF FormInv

(* What verify accepts is well formed.                                     *)
LEMMA VerifyForm ==
  ASSUME FormInv, NEW c, NEW S, NEW C1, NEW m, Verify(c, S, C1, m)
  PROVE  FormInv'
<1>1. Keeps(tape, tape')
  BY DeriveTells DEF Verify
<1>2. /\ pc' = "idle" /\ UNCHANGED <<sigs, issued>> /\ WellFormed(S, C1)
      /\ verdict'.op = "verify" /\ verdict'.of = <<c, m, S, C1>>
  BY DEF Verify, Returns, Checkable
<1>3. Accepted' /\ Validated'
  BY <1>2 DEF Accepted, Validated
<1>4. /\ \A x \in sigs' : Reduced(x.sig) /\ Opens(tape', x.sp, Modulus(x.k), x.C1)
      /\ \A ch \in issued' : Opens(tape', ch.sp, ch.n, ch.C1)
  BY <1>1, <1>2, OpensStays DEF FormInv
<1>5. QED
  BY <1>2, <1>3, <1>4, IdleBlinded DEF FormInv

------------------------------------------------------------------------------
(* The steps of sign.                                                      *)

LEMMA SearchForm ==
  ASSUME FormInv,
         \/ \E c, k, sp, m : SignBegin(c, k, sp, m)
         \/ \E j : SearchHit(j) \/ SearchMiss(j) \/ SearchFails(j)
         \/ NotDivisible \/ SignFails
  PROVE  FormInv'
<1>1. CASE \E c, k, sp, m : SignBegin(c, k, sp, m)
  BY <1>1, KeepsSame, QuietForm DEF SignBegin, Called, Blinded
<1>2. ASSUME NEW j, SearchHit(j) \/ SearchMiss(j) \/ SearchFails(j)
      PROVE  FormInv'
  <2>1. Keeps(tape, tape')
    BY <1>2, RecordedKeeps DEF SearchHit, SearchMiss, SearchFails, Shuffle
  <2>2. /\ UNCHANGED <<sigs, issued>> /\ pc' \in {"idle", "search", "blind"}
        /\ verdict' = verdict \/ verdict'.op = "sign"
    BY <1>2 DEF SearchHit, SearchMiss, SearchFails, Shuffle, SignReturns, Returns
  <2>3. QED
    BY <2>1, <2>2, QuietForm DEF Blinded
<1>3. CASE NotDivisible \/ SignFails
  <2>1. /\ UNCHANGED <<tape, sigs, issued>> /\ pc' = "idle" /\ verdict'.op = "sign"
    BY <1>3 DEF NotDivisible, SignFails, SignReturns, Returns
  <2>2. QED
    BY <2>1, KeepsSame, IdleBlinded, QuietForm
<1>4. QED
  BY <1>1, <1>2, <1>3

LEMMA DrawBlindingForm ==
  ASSUME FormInv, DrawBlinding
  PROVE  FormInv'
<1> DEFINE pr == SeedPrng(prng[job.c], ExpandSeed(job.sp))
<1>1. PICK s \in Expands, s1 \in Scalars, s2 \in Scalars :
        /\ Reads(pr, <<s>>)
        /\ tape' = Recorded(Recorded(tape, pr, <<s>>), rng, <<s1, s2>>)
        /\ blind' = [s |-> s, s1 |-> s1, s2 |-> s2]
  BY DEF DrawBlinding
<1>2. UNCHANGED <<job, sigs, issued, verdict>>
  BY DEF DrawBlinding
<1> DEFINE tp == Recorded(tape, pr, <<s>>)
<1>3. Keeps(tape, tp) /\ Start(job.sp) \in DOMAIN tp /\ tp[Start(job.sp)] = s
  BY <1>1, ExpandTells
<1>4. Keeps(tp, tape')
  BY <1>1, RecordedKeeps
<1> HIDE DEF tp
<1>5. Keeps(tape, tape') /\ Start(job.sp) \in DOMAIN tape' /\ tape'[Start(job.sp)] = s
  BY <1>3, <1>4 DEF Keeps
<1>6. Blinded'
  BY <1>1, <1>2, <1>5 DEF Blinded
<1>7. QED
  BY <1>2, <1>5, <1>6, QuietForm

LEMMA LaterForm ==
  ASSUME FormInv, MakeCommitments \/ MakeMasks \/ DrawTry \/ Try
  PROVE  FormInv'
<1>1. Keeps(tape, tape')
  <2>1. CASE MakeCommitments
    BY <2>1, RecordedKeeps DEF MakeCommitments
  <2>2. CASE MakeMasks
    BY <2>2, KeepsSame DEF MakeMasks
  <2>3. CASE DrawTry
    BY <2>3, RecordedKeeps DEF DrawTry
  <2>4. CASE Try
    BY <2>4, DeriveTells DEF Try
  <2>5. QED
    BY <2>1, <2>2, <2>3, <2>4
<1>2. /\ pc \in {"commit", "mask", "loop", "try"}
      /\ UNCHANGED <<job, blind, sigs, issued, verdict>>
  BY DEF MakeCommitments, MakeMasks, DrawTry, Try
<1>3. Blinded'
  BY <1>1, <1>2 DEF FormInv, Blinded, Keeps
<1>4. QED
  BY <1>1, <1>2, <1>3, QuietForm

LEMMA SignatureReduced ==
  ASSUME SignInv, pc = "respond"
  PROVE  Reduced(Signature)
<1>1. /\ DOMAIN Z = ZNames /\ Z.s2 \in Int
  BY Numbers DEF Z, ZNames
<1>2. "s2" \in DOMAIN Residues /\ Residues.s2 = Z.s2 % try.ell
  BY <1>1 DEF Residues, ZNames
<1>3. try.ell \in Nat /\ try.ell > 0
  BY Numbers
<1>4. Residues.s2 \in Nat
  BY <1>1, <1>2, <1>3, Euclid
<1>5. "canon" \in DOMAIN com.C2
  BY CommitIs DEF SignInv, ComInv
<1>6. QED
  BY <1>2, <1>3, <1>4, <1>5 DEF Reduced, Signature

LEMMA RespondForm ==
  ASSUME FormInv, SignInv, Respond
  PROVE  FormInv'
<1> DEFINE x == [k |-> job.k, sp |-> job.sp, m |-> job.m, C1 |-> com.C1,
                 sig |-> Signature, tr |-> JobTranscript(try.A)]
<1>1. /\ pc = "respond" /\ pc' = "idle" /\ sigs' = sigs \cup {x}
      /\ UNCHANGED <<tape, issued>> /\ verdict'.op = "sign"
  BY DEF Respond, SignReturns, Returns
<1>2. Reduced(x.sig)
  BY <1>1, SignatureReduced
<1>3. Opens(tape, x.sp, Modulus(x.k), x.C1)
  BY <1>1 DEF FormInv, Blinded, SignInv, ComInv, Opens
<1> HIDE DEF x
<1>4. \A y \in sigs' : Reduced(y.sig) /\ Opens(tape', y.sp, Modulus(y.k), y.C1)
  BY <1>1, <1>2, <1>3 DEF FormInv
<1>5. Accepted' /\ Validated'
  BY <1>1 DEF Accepted, Validated
<1>6. QED
  BY <1>1, <1>4, <1>5, IdleBlinded DEF FormInv

------------------------------------------------------------------------------
LEMMA InitForm == Init => FormInv
BY DEF Init, FormInv, Accepted, Validated, Blinded, Called

LEMMA StepForm == IInv /\ FormInv /\ [Next]_vars => FormInv'
<1> SUFFICES ASSUME IInv, FormInv, [Next]_vars PROVE FormInv'
  OBVIOUS
<1>1. CASE UNCHANGED vars
  BY <1>1 DEF vars, signVars, FormInv, Accepted, Validated, Blinded
<1>2. CASE Sign
  BY <1>2, SearchForm, DrawBlindingForm, LaterForm, RespondForm DEF Sign, IInv
<1>3. CASE \E c \in Ctxs, k \in Keys, sp \in SPrimes :
             \/ Challenge(c, k, sp) \/ ChallengeRefuse(c, k, sp)
             \/ \E ch \in issued : \E C1 \in {ch.C1, NotCanonical(ch.C1)} :
                  Validate(c, sp, C1, k) \/ ValidateRefuse(c, sp, C1, k)
             \/ SignRefuse(c, k)
  <2>1. ASSUME NEW c, NEW k, NEW sp, ChallengeRefuse(c, k, sp) \/ SignRefuse(c, k)
        PROVE  FormInv'
    BY <2>1, RefuseForm DEF ChallengeRefuse, SignRefuse
  <2>2. ASSUME NEW c, NEW k, NEW sp, NEW C1, ValidateRefuse(c, sp, C1, k)
        PROVE  FormInv'
    <3> DEFINE of == <<c, sp, C1, k>>
    <3>1. Refuse("validate", of) /\ ~(of[3].canon /\ ValidKey(of[4]))
      BY <2>2 DEF ValidateRefuse
    <3> HIDE DEF of
    <3>2. QED
      BY <3>1, RefuseForm
  <2>3. QED
    BY <1>3, <2>1, <2>2, ChallengeForm, ValidateForm
<1>4. CASE \E c \in Ctxs, m \in Msgs, x \in sigs, C1 \in {y.C1 : y \in sigs \cup issued} :
             \E S \in Variants(x.sig) : VerifyRefuse(c, S, C1, m) \/ Verify(c, S, C1, m)
  <2>1. ASSUME NEW c, NEW S, NEW C1, NEW m, VerifyRefuse(c, S, C1, m)
        PROVE  FormInv'
    BY <2>1, RefuseForm DEF VerifyRefuse
  <2>2. QED
    BY <1>4, <2>1, VerifyForm
<1>5. QED
  BY <1>1, <1>2, <1>3, <1>4 DEF Next

(* FormInv holds of every state that the calls lead to.                    *)
THEOREM FormAlways == Spec => []FormInv
<1>1. Init => TypeOK /\ IInv /\ FormInv
  BY InitTypes, InitInv, InitForm
<1>2. TypeOK /\ IInv /\ FormInv /\ [Next]_vars => TypeOK' /\ IInv' /\ FormInv'
  BY StepTypes, StepInv, StepForm
<1>3. QED
  BY <1>1, <1>2, PTL DEF Spec

------------------------------------------------------------------------------
(* A z' that is not reduced is not below ell.                              *)
LEMMA UnreducedIsIll ==
  ASSUME NEW S, NEW C1, Reduced(S)
  PROVE  ~WellFormed(Unreduced(S), C1)
<1> DEFINE U == Unreduced(S)
<1>1. U.ell = S.ell /\ U.z.s2 = S.z.s2 + S.ell
  BY DEF Reduced, Unreduced
<1>2. WellFormed(U, C1) => U.z.s2 < U.ell
  BY DEF WellFormed, ZNames
<1> HIDE DEF U
<1>3. ~(U.z.s2 < U.ell)
  BY <1>1 DEF Reduced
<1>4. QED
  BY <1>2, <1>3 DEF U

LEMMA UncanonicalIsIll ==
  ASSUME NEW S, NEW C1, Reduced(S)
  PROVE  ~WellFormed(Uncanonical(S), C1)
<1>1. Uncanonical(S).C2.canon = FALSE
  BY DEF Reduced, Uncanonical, NotCanonical
<1>2. QED
  BY <1>1 DEF WellFormed

(* Of the forms of a proof verify accepts only the one that sign returns,  *)
(* and of those of a challenge validate only the canonical one.            *)
THEOREM ProofHasOneForm == Spec => []OneForm
<1>1. FormInv => OneForm
  <2> SUFFICES ASSUME FormInv, verdict.ok
               PROVE  /\ verdict.op = "verify" =>
                           \A x \in sigs :
                             verdict.of[3] \notin {Unreduced(x.sig), Uncanonical(x.sig)}
                      /\ verdict.op = "validate" => verdict.of[3].canon
    BY DEF OneForm
  <2>1. verdict.op = "validate" => verdict.of[3].canon
    BY DEF FormInv, Accepted
  <2>2. ASSUME verdict.op = "verify", NEW x \in sigs
        PROVE  verdict.of[3] \notin {Unreduced(x.sig), Uncanonical(x.sig)}
    <3>1. WellFormed(verdict.of[3], verdict.of[4])
      BY <2>2 DEF FormInv, Accepted
    <3>2. Reduced(x.sig)
      BY DEF FormInv
    <3>3. QED
      BY <3>1, <3>2, UnreducedIsIll, UncanonicalIsIll
  <2>3. QED
    BY <2>1, <2>2
<1>2. QED
  BY <1>1, FormAlways, PTL

(* Every context makes the same challenge of a modulus and an s_prime, and *)
(* the holder of the key finds that it opens.                              *)
THEOREM ChallengeIsOne == Spec => []OneChallenge
<1>1. FormInv => OneChallenge
  <2> SUFFICES ASSUME FormInv PROVE OneChallenge
    OBVIOUS
  <2>1. ASSUME NEW x \in sigs, NEW ch \in issued,
               <<Modulus(x.k), x.sp>> = <<ch.n, ch.sp>>
        PROVE  x.C1 = ch.C1
    BY <2>1 DEF FormInv, Opens
  <2>2. ASSUME verdict.op = "validate", NEW ch \in issued,
               <<Modulus(verdict.of[4]), verdict.of[2], verdict.of[3]>>
                 = <<ch.n, ch.sp, ch.C1>>
        PROVE  verdict.ok <=> /\ ValidKey(verdict.of[4])
                              /\ Fits(verdict.of[1], verdict.of[3].g, verdict.of[3].h)
    <3> DEFINE n == Modulus(verdict.of[4])
               sp == verdict.of[2]
               C1 == verdict.of[3]
               s == tape[Start(sp)]
    <3>1. C1 = Commit(n, s)
      BY <2>2 DEF FormInv, Opens
    <3>2. C1.g = n /\ C1.h = s /\ C1.canon
      BY <3>1, CommitIs
    <3>3. Outcome(tape, verdict.ok, verdict.of[1], sp, C1, verdict.of[4])
      BY <2>2 DEF FormInv, Validated
    <3>4. QED
      BY <3>1, <3>2, <3>3 DEF Outcome
  <2>3. QED
    BY <2>1, <2>2, Zenon DEF OneChallenge
<1>2. QED
  BY <1>1, FormAlways, PTL
------------------------------------------------------------------------------
(* Signing as a function of the streams.                                   *)

(* The stream of sd has v at place y.                                      *)
At(tp, sd, y, v) == <<sd, y>> \in DOMAIN tp /\ tp[<<sd, y>>] = v

Exchanged(ps, u, j) == [ps EXCEPT ![u] = ps[u + j], ![u + j] = ps[u]]

(* P[u] is the list of primes before turn u of the search for t, up to     *)
(* turn n, and no turn before n found a root.                              *)
Turns(tp, k, sd, n, P) ==
  /\ P[1] = SmallPrimes
  /\ \A u \in 1..(n - 1) : \E j :
       /\ At(tp, sd, u, j)
       /\ SqrtPQ[k][P[u][u + j]] = -1
       /\ P[u + 1] = Exchanged(P[u], u, j)

Found(tp, k, sd, n, t) ==
  \E P : /\ Turns(tp, k, sd, n, P)
         /\ \E j : At(tp, sd, n, j) /\ t = P[n][n + j] /\ SqrtPQ[k][t] # -1

WitOf(k, t) ==
  [t |-> t, w |-> SqrtPQ[k][t],
   a |-> (SqrtPQ[k][t] * SqrtPQ[k][t] - t) \div Modulus(k)]

(* The draws: n turns of the search, then s1 and s2, seven scalars, and    *)
(* one scalar per turn of the loop for ell.                                *)
BlindDrawn(tp, sp, sd, n, bl) ==
  \E s, s1, s2 : /\ At(tp, ExpandSeed(sp), 1, s)
                 /\ At(tp, sd, n + 1, s1) /\ At(tp, sd, n + 2, s2)
                 /\ bl = [s |-> s, s1 |-> s1, s2 |-> s2]

Scalars7(r) ==
  [r_w |-> r[1], r_w2 |-> r[2], r_a |-> r[3], r_an |-> r[4],
   r_s1w |-> r[5], r_sa |-> r[6], r_s2 |-> r[7]]

MasksDrawn(tp, sd, n, rn) ==
  \E r : (\A y \in 1..7 : At(tp, sd, n + 2 + y, r[y])) /\ rn = Scalars7(r)

(* What a turn with r1 hashes.                                             *)
TurnTranscript(k, wt, bl, rn, r1, m) ==
  Transcript(Commit(Modulus(k), bl.s), Commit(wt.w, bl.s1), Commit(wt.a, bl.s2), wt.t,
             Commit(rn.r_w, r1), Commit(rn.r_a, rn.r_s2),
             Over(rn.r_w2, rn.r_s1w, Commit(wt.w, bl.s1), rn.r_w),
             Over(rn.r_an, rn.r_sa, Commit(Modulus(k), bl.s), rn.r_a),
             rn.r_w2 - rn.r_an, m)

Ended(tp, tr, chal, ell) ==
  \E ell0 \in Nat : /\ At(tp, DeriveSeed(tr), 1, chal) /\ At(tp, DeriveSeed(tr), 2, ell0)
                    /\ IsNextPrime(Accepts(tr), ell0, EllDiffMax, ell)

(* Turn u of the loop drew r1 and ended with chal and ell.                 *)
Turned(tp, sd, n, u, k, wt, bl, rn, m, r1, chal, ell) ==
  /\ At(tp, sd, n + 10 + u, r1)
  /\ Ended(tp, TurnTranscript(k, wt, bl, rn, r1, m), chal, ell)

Missed(tp, sd, n, u, k, wt, bl, rn, m) ==
  \A v \in 0..(u - 1) : \E r1, chal : \E ell \in Nat :
    Turned(tp, sd, n, v, k, wt, bl, rn, m, r1, chal, ell) /\ ~FullLength(ell)

(* z and the signature, from what they are made of.                        *)
ZOf(k, wt, bl, rn, r1, chal) ==
  [w   |-> chal * wt.w + rn.r_w,
   w2  |-> chal * wt.w * wt.w + rn.r_w2,
   s1  |-> chal * bl.s1 + r1,
   a   |-> chal * wt.a + rn.r_a,
   an  |-> chal * wt.a * Modulus(k) + rn.r_an,
   s1w |-> chal * bl.s1 * wt.w + rn.r_s1w,
   sa  |-> chal * bl.s * wt.a + rn.r_sa,
   s2  |-> chal * bl.s2 + rn.r_s2]

SignatureOf(k, wt, bl, rn, r1, chal, ell) ==
  LET z == ZOf(k, wt, bl, rn, r1, chal)
      q == [x \in DOMAIN z |-> z[x] \div ell] IN
  [C2 |-> Commit(wt.w, bl.s1), C3 |-> Commit(wt.a, bl.s2), t |-> wt.t,
   chal |-> chal, ell |-> ell,
   Aq |-> Commit(q.w, q.s1),
   Bq |-> Commit(q.a, q.s2),
   Cq |-> Over(q.w2, q.s1w, Commit(wt.w, bl.s1), q.w),
   Dq |-> Over(q.an, q.sa, Commit(Modulus(k), bl.s), q.a),
   Eq |-> (z.w2 - z.an) \div ell,
   z  |-> [x \in DOMAIN z |-> z[x] % ell]]

(* S is what sign makes of k, sp and m when the streams are as tp tells.   *)
MadeBy(tp, k, sp, m, S, n, u, wt, bl, rn, r1, chal, ell) ==
  LET sd == SignSeed(k, sp, m) IN
    /\ Found(tp, k, sd, n, wt.t) /\ wt = WitOf(k, wt.t)
    /\ BlindDrawn(tp, sp, sd, n, bl)
    /\ MasksDrawn(tp, sd, n, rn)
    /\ Missed(tp, sd, n, u, k, wt, bl, rn, m)
    /\ Turned(tp, sd, n, u, k, wt, bl, rn, m, r1, chal, ell)
    /\ FullLength(ell)
    /\ S = SignatureOf(k, wt, bl, rn, r1, chal, ell)

Made(tp, k, sp, m, S) ==
  \E n \in Nat \ {0}, u \in Nat, ell \in Nat : \E wt, bl, rn, r1, chal :
    MadeBy(tp, k, sp, m, S, n, u, wt, bl, rn, r1, chal, ell)

(* A set of naturals that holds 1 and is closed under successor up to n.   *)
LEMMA FromOne ==
  ASSUME NEW n \in Nat, NEW S, 1 \in S, \A x \in 1..(n - 1) : x \in S => x + 1 \in S
  PROVE  \A x \in 1..n : x \in S
<1>1. SUFFICES ASSUME NEW x \in 1..n, x \notin S PROVE FALSE
  OBVIOUS
<1> DEFINE Out == {y \in Nat : y >= 1 /\ y <= n /\ y \notin S}
<1>2. x \in Out /\ Out \in SUBSET Nat
  BY <1>1
<1>3. PICK y \in Out : \A z \in Out : y <= z
  <2> DEFINE Less == OpToRel(<, Nat)
  <2>1. \A z, y \in Out : <<z, y>> \in Less <=> z < y
    BY DEF OpToRel
  <2>2. \A z, y \in Out : y <= z <=> ~(z < y)
    OBVIOUS
  <2>3. IsWellFoundedOn(Less, Nat)
    BY NatLessThanWellFounded
  <2> HIDE DEF Out, Less
  <2>4. \E y \in Out : \A z \in Out : <<z, y>> \notin Less
    BY <1>2, <2>3, WFMin
  <2>5. QED
    BY <2>1, <2>2, <2>4
<1>4. y \in Nat /\ y <= n /\ y \notin S /\ y > 1
  BY <1>3
<1>5. y - 1 \in 1..(n - 1) /\ y - 1 \notin Out
  BY <1>3, <1>4
<1>6. y - 1 \in S
  BY <1>4, <1>5
<1>7. (y - 1) + 1 \in S /\ (y - 1) + 1 = y
  BY <1>4, <1>5, <1>6
<1>8. QED
  BY <1>4, <1>7

(* The stream has one value at a place: the lists of two searches that     *)
(* read it are the same as long as both go on, and so they find the same.  *)
LEMMA OneSearch ==
  ASSUME NEW tp, NEW k, NEW sd, NEW n1 \in Nat \ {0}, NEW n2 \in Nat \ {0}, NEW t1, NEW t2,
         Found(tp, k, sd, n1, t1), Found(tp, k, sd, n2, t2)
  PROVE  n1 = n2 /\ t1 = t2
<1>1. PICK P1 : /\ Turns(tp, k, sd, n1, P1)
                /\ \E j : At(tp, sd, n1, j) /\ t1 = P1[n1][n1 + j] /\ SqrtPQ[k][t1] # -1
  BY DEF Found
<1>2. PICK P2 : /\ Turns(tp, k, sd, n2, P2)
                /\ \E j : At(tp, sd, n2, j) /\ t2 = P2[n2][n2 + j] /\ SqrtPQ[k][t2] # -1
  BY DEF Found
<1>3. PICK j1 : At(tp, sd, n1, j1) /\ t1 = P1[n1][n1 + j1] /\ SqrtPQ[k][t1] # -1
  BY <1>1
<1>4. PICK j2 : At(tp, sd, n2, j2) /\ t2 = P2[n2][n2 + j2] /\ SqrtPQ[k][t2] # -1
  BY <1>2
<1>5. \A y, v, w : At(tp, sd, y, v) /\ At(tp, sd, y, w) => v = w
  BY DEF At
<1> DEFINE n == IF n1 <= n2 THEN n1 ELSE n2
           S == {x \in Nat : P1[x] = P2[x]}
<1>6. n \in Nat /\ n >= 1 /\ n <= n1 /\ n <= n2
  OBVIOUS
<1>7. 1 \in S
  BY <1>1, <1>2 DEF Turns
<1>8. ASSUME NEW x \in 1..(n - 1), x \in S PROVE x + 1 \in S
  <2>1. x \in 1..(n1 - 1) /\ x \in 1..(n2 - 1) /\ x + 1 \in Nat
    BY <1>6, <1>8
  <2>2. PICK a : At(tp, sd, x, a) /\ P1[x + 1] = Exchanged(P1[x], x, a)
    BY <1>1, <2>1 DEF Turns
  <2>3. PICK b : At(tp, sd, x, b) /\ P2[x + 1] = Exchanged(P2[x], x, b)
    BY <1>2, <2>1 DEF Turns
  <2>4. a = b /\ P1[x] = P2[x]
    BY <1>5, <1>8, <2>2, <2>3
  <2>5. QED
    BY <2>1, <2>2, <2>3, <2>4
<1> HIDE DEF n, S
<1>9. \A x \in 1..n : x \in S
  BY <1>6, <1>7, <1>8, FromOne
<1>10. P1[n] = P2[n]
  BY <1>6, <1>9 DEF S
<1>11. CASE n1 < n2
  <2>1. n = n1 /\ n1 \in 1..(n2 - 1)
    BY <1>11 DEF n
  <2>2. PICK b : At(tp, sd, n1, b) /\ SqrtPQ[k][P2[n1][n1 + b]] = -1
    BY <1>2, <2>1 DEF Turns
  <2>3. b = j1
    BY <1>3, <1>5, <2>2
  <2>4. QED
    BY <1>3, <1>10, <2>1, <2>2, <2>3
<1>12. CASE n2 < n1
  <2>1. n = n2 /\ n2 \in 1..(n1 - 1)
    BY <1>12 DEF n
  <2>2. PICK b : At(tp, sd, n2, b) /\ SqrtPQ[k][P1[n2][n2 + b]] = -1
    BY <1>1, <2>1 DEF Turns
  <2>3. b = j2
    BY <1>4, <1>5, <2>2
  <2>4. QED
    BY <1>4, <1>10, <2>1, <2>2, <2>3
<1>13. CASE n1 = n2
  <2>1. n = n1 /\ j1 = j2
    BY <1>3, <1>4, <1>5, <1>13 DEF n
  <2>2. QED
    BY <1>3, <1>4, <1>10, <1>13, <2>1
<1>14. QED
  BY <1>11, <1>12, <1>13

(* A search for the next prime has one answer.                             *)
LEMMA OneNextPrime ==
  ASSUME NEW Acc, NEW p \in Nat, NEW x \in Nat, NEW y \in Nat,
         IsNextPrime(Acc, p, EllDiffMax, x), IsNextPrime(Acc, p, EllDiffMax, y)
  PROVE  x = y
<1>1. EllDiffMax \in Nat
  BY ProtocolAssumption
<1>2. QED
  BY <1>1 DEF IsNextPrime, OddsIn

LEMMA OneEnd ==
  ASSUME NEW tp, NEW tr, NEW chal1, NEW chal2, NEW ell1 \in Nat, NEW ell2 \in Nat,
         Ended(tp, tr, chal1, ell1), Ended(tp, tr, chal2, ell2)
  PROVE  chal1 = chal2 /\ ell1 = ell2
BY OneNextPrime DEF Ended, At

LEMMA OneTurn ==
  ASSUME NEW tp, NEW sd, NEW n, NEW u, NEW k, NEW wt, NEW bl, NEW rn, NEW m,
         NEW r1, NEW r2, NEW chal1, NEW chal2, NEW ell1 \in Nat, NEW ell2 \in Nat,
         Turned(tp, sd, n, u, k, wt, bl, rn, m, r1, chal1, ell1),
         Turned(tp, sd, n, u, k, wt, bl, rn, m, r2, chal2, ell2)
  PROVE  r1 = r2 /\ chal1 = chal2 /\ ell1 = ell2
<1>1. r1 = r2
  BY DEF Turned, At
<1>2. QED
  BY <1>1, OneEnd DEF Turned

LEMMA OneBlind ==
  ASSUME NEW tp, NEW sp, NEW sd, NEW n, NEW bl1, NEW bl2,
         BlindDrawn(tp, sp, sd, n, bl1), BlindDrawn(tp, sp, sd, n, bl2)
  PROVE  bl1 = bl2
BY DEF BlindDrawn, At

LEMMA OneMask ==
  ASSUME NEW tp, NEW sd, NEW n, NEW rn1, NEW rn2,
         MasksDrawn(tp, sd, n, rn1), MasksDrawn(tp, sd, n, rn2)
  PROVE  rn1 = rn2
<1>1. PICK r : (\A y \in 1..7 : At(tp, sd, n + 2 + y, r[y])) /\ rn1 = Scalars7(r)
  BY DEF MasksDrawn
<1>2. PICK q : (\A y \in 1..7 : At(tp, sd, n + 2 + y, q[y])) /\ rn2 = Scalars7(q)
  BY DEF MasksDrawn
<1>3. \A y \in 1..7 : r[y] = q[y]
  BY <1>1, <1>2 DEF At
<1>4. 1 \in 1..7 /\ 2 \in 1..7 /\ 3 \in 1..7 /\ 4 \in 1..7 /\ 5 \in 1..7 /\ 6 \in 1..7 /\ 7 \in 1..7
  OBVIOUS
<1>5. /\ r[1] = q[1] /\ r[2] = q[2] /\ r[3] = q[3] /\ r[4] = q[4]
      /\ r[5] = q[5] /\ r[6] = q[6] /\ r[7] = q[7]
  BY <1>3, <1>4
<1>6. QED
  BY <1>1, <1>2, <1>5 DEF Scalars7

LEMMA OneSignature ==
  ASSUME NEW tp, NEW k, NEW sp, NEW m, NEW S, NEW T,
         Made(tp, k, sp, m, S), Made(tp, k, sp, m, T)
  PROVE  S = T
<1> DEFINE sd == SignSeed(k, sp, m)
<1>1. PICK n1 \in Nat \ {0}, u1 \in Nat, l1 \in Nat : \E wt, bl, rn, r1, chal :
        MadeBy(tp, k, sp, m, S, n1, u1, wt, bl, rn, r1, chal, l1)
  BY Zenon DEF Made
<1>2. PICK wt1, bl1, rn1, a1, c1 : MadeBy(tp, k, sp, m, S, n1, u1, wt1, bl1, rn1, a1, c1, l1)
  BY <1>1, Zenon
<1>3. PICK n2 \in Nat \ {0}, u2 \in Nat, l2 \in Nat : \E wt, bl, rn, r1, chal :
        MadeBy(tp, k, sp, m, T, n2, u2, wt, bl, rn, r1, chal, l2)
  BY Zenon DEF Made
<1>4. PICK wt2, bl2, rn2, a2, c2 : MadeBy(tp, k, sp, m, T, n2, u2, wt2, bl2, rn2, a2, c2, l2)
  BY <1>3, Zenon
<1>5. /\ Found(tp, k, sd, n1, wt1.t) /\ wt1 = WitOf(k, wt1.t)
      /\ BlindDrawn(tp, sp, sd, n1, bl1) /\ MasksDrawn(tp, sd, n1, rn1)
      /\ Missed(tp, sd, n1, u1, k, wt1, bl1, rn1, m)
      /\ Turned(tp, sd, n1, u1, k, wt1, bl1, rn1, m, a1, c1, l1)
      /\ FullLength(l1) /\ S = SignatureOf(k, wt1, bl1, rn1, a1, c1, l1)
  BY <1>2, Zenon DEF MadeBy
<1>6. /\ Found(tp, k, sd, n2, wt2.t) /\ wt2 = WitOf(k, wt2.t)
      /\ BlindDrawn(tp, sp, sd, n2, bl2) /\ MasksDrawn(tp, sd, n2, rn2)
      /\ Missed(tp, sd, n2, u2, k, wt2, bl2, rn2, m)
      /\ Turned(tp, sd, n2, u2, k, wt2, bl2, rn2, m, a2, c2, l2)
      /\ FullLength(l2) /\ T = SignatureOf(k, wt2, bl2, rn2, a2, c2, l2)
  BY <1>4, Zenon DEF MadeBy
<1> HIDE DEF sd
<1>7. n1 = n2 /\ wt1.t = wt2.t
  BY <1>5, <1>6, OneSearch
<1>8. wt1 = wt2 /\ bl1 = bl2 /\ rn1 = rn2
  BY <1>5, <1>6, <1>7, OneBlind, OneMask
<1>9. ~(u1 < u2)
  <2> SUFFICES ASSUME u1 < u2 PROVE FALSE
    OBVIOUS
  <2>1. u1 \in 0..(u2 - 1)
    OBVIOUS
  <2>2. PICK r1, chal : \E ell \in Nat :
          Turned(tp, sd, n2, u1, k, wt2, bl2, rn2, m, r1, chal, ell) /\ ~FullLength(ell)
    BY <1>6, <2>1 DEF Missed
  <2>3. PICK ell \in Nat :
          Turned(tp, sd, n2, u1, k, wt2, bl2, rn2, m, r1, chal, ell) /\ ~FullLength(ell)
    BY <2>2
  <2>4. ell = l1
    BY <1>5, <1>7, <1>8, <2>3, OneTurn
  <2>5. QED
    BY <1>5, <2>3, <2>4
<1>10. ~(u2 < u1)
  <2> SUFFICES ASSUME u2 < u1 PROVE FALSE
    OBVIOUS
  <2>1. u2 \in 0..(u1 - 1)
    OBVIOUS
  <2>2. PICK r1, chal : \E ell \in Nat :
          Turned(tp, sd, n1, u2, k, wt1, bl1, rn1, m, r1, chal, ell) /\ ~FullLength(ell)
    BY <1>5, <2>1 DEF Missed
  <2>3. PICK ell \in Nat :
          Turned(tp, sd, n1, u2, k, wt1, bl1, rn1, m, r1, chal, ell) /\ ~FullLength(ell)
    BY <2>2
  <2>4. ell = l2
    BY <1>6, <1>7, <1>8, <2>3, OneTurn
  <2>5. QED
    BY <1>6, <2>3, <2>4
<1>11. u1 = u2
  BY <1>9, <1>10
<1>12. a1 = a2 /\ c1 = c2 /\ l1 = l2
  BY <1>5, <1>6, <1>7, <1>8, <1>11, OneTurn
<1>13. QED
  BY <1>5, <1>6, <1>8, <1>12

(* What streams have told stays told.                                      *)
LEMMA AtStays ==
  ASSUME NEW tp, NEW tq, Keeps(tp, tq)
  PROVE  \A sd, y, v : At(tp, sd, y, v) => At(tq, sd, y, v)
BY DEF Keeps, At

LEMMA TurnsStay ==
  ASSUME NEW tp, NEW tq, Keeps(tp, tq), NEW k, NEW sd, NEW n, NEW P, Turns(tp, k, sd, n, P)
  PROVE  Turns(tq, k, sd, n, P)
BY AtStays DEF Turns

LEMMA FoundStays ==
  ASSUME NEW tp, NEW tq, Keeps(tp, tq), NEW k, NEW sd, NEW n, NEW t, Found(tp, k, sd, n, t)
  PROVE  Found(tq, k, sd, n, t)
<1>1. PICK P : /\ Turns(tp, k, sd, n, P)
               /\ \E j : At(tp, sd, n, j) /\ t = P[n][n + j] /\ SqrtPQ[k][t] # -1
  BY DEF Found
<1>2. PICK j : At(tp, sd, n, j) /\ t = P[n][n + j] /\ SqrtPQ[k][t] # -1
  BY <1>1
<1>3. Turns(tq, k, sd, n, P) /\ At(tq, sd, n, j)
  BY <1>1, <1>2, TurnsStay, AtStays
<1>4. QED
  BY <1>2, <1>3 DEF Found

LEMMA DrawnStay ==
  ASSUME NEW tp, NEW tq, Keeps(tp, tq), NEW sp, NEW sd, NEW n, NEW x
  PROVE  /\ BlindDrawn(tp, sp, sd, n, x) => BlindDrawn(tq, sp, sd, n, x)
         /\ MasksDrawn(tp, sd, n, x) => MasksDrawn(tq, sd, n, x)
<1>1. BlindDrawn(tp, sp, sd, n, x) => BlindDrawn(tq, sp, sd, n, x)
  BY AtStays DEF BlindDrawn
<1>2. ASSUME MasksDrawn(tp, sd, n, x) PROVE MasksDrawn(tq, sd, n, x)
  <2>1. PICK r : (\A y \in 1..7 : At(tp, sd, n + 2 + y, r[y])) /\ x = Scalars7(r)
    BY <1>2 DEF MasksDrawn
  <2>2. \A y \in 1..7 : At(tq, sd, n + 2 + y, r[y])
    BY <2>1, AtStays
  <2>3. QED
    BY <2>1, <2>2 DEF MasksDrawn
<1>3. QED
  BY <1>1, <1>2

LEMMA TurnedStays ==
  ASSUME NEW tp, NEW tq, Keeps(tp, tq), NEW sd, NEW n, NEW u, NEW k, NEW wt, NEW bl,
         NEW rn, NEW m, NEW r1, NEW chal, NEW ell,
         Turned(tp, sd, n, u, k, wt, bl, rn, m, r1, chal, ell)
  PROVE  Turned(tq, sd, n, u, k, wt, bl, rn, m, r1, chal, ell)
BY AtStays DEF Turned, Ended

LEMMA MissedStays ==
  ASSUME NEW tp, NEW tq, Keeps(tp, tq), NEW sd, NEW n, NEW u, NEW k, NEW wt, NEW bl,
         NEW rn, NEW m, Missed(tp, sd, n, u, k, wt, bl, rn, m)
  PROVE  Missed(tq, sd, n, u, k, wt, bl, rn, m)
<1> SUFFICES ASSUME NEW v \in 0..(u - 1)
             PROVE  \E r1, chal : \E ell \in Nat :
                      Turned(tq, sd, n, v, k, wt, bl, rn, m, r1, chal, ell) /\ ~FullLength(ell)
  BY DEF Missed
<1>1. PICK r1, chal : \E ell \in Nat :
        Turned(tp, sd, n, v, k, wt, bl, rn, m, r1, chal, ell) /\ ~FullLength(ell)
  BY DEF Missed
<1>2. PICK ell \in Nat :
        Turned(tp, sd, n, v, k, wt, bl, rn, m, r1, chal, ell) /\ ~FullLength(ell)
  BY <1>1
<1>3. Turned(tq, sd, n, v, k, wt, bl, rn, m, r1, chal, ell)
  BY <1>2, TurnedStays
<1>4. QED
  BY <1>2, <1>3

LEMMA MadeStays ==
  ASSUME NEW tp, NEW tq, Keeps(tp, tq), NEW k, NEW sp, NEW m, NEW S, Made(tp, k, sp, m, S)
  PROVE  Made(tq, k, sp, m, S)
<1> DEFINE sd == SignSeed(k, sp, m)
<1>1. PICK n \in Nat \ {0}, u \in Nat, ell \in Nat : \E wt, bl, rn, r1, chal :
        MadeBy(tp, k, sp, m, S, n, u, wt, bl, rn, r1, chal, ell)
  BY Zenon DEF Made
<1>2. PICK wt, bl, rn, r1, chal : MadeBy(tp, k, sp, m, S, n, u, wt, bl, rn, r1, chal, ell)
  BY <1>1, Zenon
<1>3. /\ Found(tp, k, sd, n, wt.t) /\ wt = WitOf(k, wt.t)
      /\ BlindDrawn(tp, sp, sd, n, bl) /\ MasksDrawn(tp, sd, n, rn)
      /\ Missed(tp, sd, n, u, k, wt, bl, rn, m)
      /\ Turned(tp, sd, n, u, k, wt, bl, rn, m, r1, chal, ell)
      /\ FullLength(ell) /\ S = SignatureOf(k, wt, bl, rn, r1, chal, ell)
  BY <1>2, Zenon DEF MadeBy
<1> HIDE DEF sd
<1>4. /\ Found(tq, k, sd, n, wt.t)
      /\ BlindDrawn(tq, sp, sd, n, bl) /\ MasksDrawn(tq, sd, n, rn)
      /\ Missed(tq, sd, n, u, k, wt, bl, rn, m)
      /\ Turned(tq, sd, n, u, k, wt, bl, rn, m, r1, chal, ell)
  BY <1>3, FoundStays, DrawnStay, MissedStays, TurnedStays
<1>5. MadeBy(tq, k, sp, m, S, n, u, wt, bl, rn, r1, chal, ell)
  BY <1>3, <1>4, Zenon DEF MadeBy, sd
<1>6. QED
  BY <1>5, Zenon DEF Made

(* What a draw of vals from pr leaves on the tape.                         *)
LEMMA DrawTells ==
  ASSUME NEW tp, NEW pr, NEW vals, pr.pos \in Nat, DOMAIN vals \subseteq Nat,
         \A y \in DOMAIN vals : <<pr.seed, pr.pos + y>> \in DOMAIN tp =>
                                  tp[<<pr.seed, pr.pos + y>>] = vals[y]
  PROVE  /\ Keeps(tp, Recorded(tp, pr, vals))
         /\ \A y \in DOMAIN vals : At(Recorded(tp, pr, vals), pr.seed, pr.pos + y, vals[y])
<1> DEFINE tq == Recorded(tp, pr, vals)
<1>1. Keeps(tp, tq)
  BY RecordedKeeps
<1>2. ASSUME NEW y \in DOMAIN vals PROVE At(tq, pr.seed, pr.pos + y, vals[y])
  <2> DEFINE a == <<pr.seed, pr.pos + y>>
  <2>1. a \in DOMAIN tq
    BY DEF Recorded
  <2>2. tq[a] = IF a \in DOMAIN tp THEN tp[a] ELSE vals[a[2] - pr.pos]
    BY <2>1 DEF Recorded
  <2>3. a[2] - pr.pos = y
    OBVIOUS
  <2>4. tq[a] = vals[y]
    BY <2>2, <2>3
  <2> HIDE DEF tq
  <2>5. QED
    BY <2>1, <2>4 DEF At
<1>3. QED
  BY <1>1, <1>2

(* The seed of a call of sign, and how far it has come.                    *)
OwnSeed == SignSeed(job.k, job.sp, job.m)

Searching ==
  /\ rng.pos = i - 1
  /\ \E P : Turns(tape, job.k, OwnSeed, i, P) /\ P[i] = primes

AfterBlind == {"commit", "mask", "loop", "try", "respond"}
AfterMasks == {"mask", "loop", "try", "respond"}

Drawn(n) ==
  /\ Found(tape, job.k, OwnSeed, n, wit.t) /\ wit = WitOf(job.k, wit.t)
  /\ pc = "blind" => rng.pos = n
  /\ pc \in AfterBlind => BlindDrawn(tape, job.sp, OwnSeed, n, blind)
  /\ pc = "commit" => rng.pos = n + 2
  /\ pc \in AfterMasks => MasksDrawn(tape, OwnSeed, n, rnd)
  /\ pc = "mask" => rng.pos = n + 9
  /\ pc = "loop" => rng.pos = n + 9 + tries
  /\ pc = "try" => rng.pos = n + 10 + tries
  /\ pc \in {"loop", "try", "respond"} =>
       Missed(tape, OwnSeed, n, tries, job.k, wit, blind, rnd, job.m)
  /\ pc \in {"try", "respond"} => At(tape, OwnSeed, n + 10 + tries, try.r_s1)
  /\ pc = "respond" => Turned(tape, OwnSeed, n, tries, job.k, wit, blind, rnd, job.m,
                              try.r_s1, try.chal, try.ell)

(* Inside sign rng is somewhere in its stream.                             *)
OwnStream == pc # "idle" => rng = [seed |-> OwnSeed, pos |-> rng.pos]

DrawInv ==
  /\ \A x \in sigs : Made(tape, x.k, x.sp, x.m, x.sig)
  /\ OwnStream
  /\ pc \in {"idle", "search", "blind", "commit", "mask"} => tries = 0
  /\ pc = "search" => Searching
  /\ pc \in {"blind"} \cup AfterBlind => \E n \in Nat \ {0} : Drawn(n)

LEMMA OutsideDraw ==
  ASSUME DrawInv, Keeps(tape, tape'), sigs' = sigs, pc' = "idle", tries' = 0
  PROVE  DrawInv'
<1>1. \A x \in sigs' : Made(tape', x.k, x.sp, x.m, x.sig)
  BY MadeStays DEF DrawInv
<1>2. pc' \notin {"search", "blind"} \cup AfterBlind /\ OwnStream'
  BY DEF AfterBlind, OwnStream
<1>3. QED
  BY <1>1, <1>2 DEF DrawInv

LEMMA CallDraw ==
  ASSUME DrawInv, NEW c, NEW k, NEW sp, NEW C1, NEW S, NEW m,
         \/ Challenge(c, k, sp) \/ Validate(c, sp, C1, k) \/ Verify(c, S, C1, m)
         \/ \E op, of : Refuse(op, of)
  PROVE  DrawInv'
<1>1. pc = "idle" /\ pc' = "idle" /\ sigs' = sigs /\ tries' = tries
  BY DEF Challenge, Validate, Refuse, Verify, signVars
<1>2. Keeps(tape, tape')
  <2>1. CASE Challenge(c, k, sp)
    BY <2>1, ExpandKeeps DEF Challenge
  <2>2. CASE Validate(c, sp, C1, k)
    BY <2>2, ExpandKeeps DEF Validate
  <2>3. CASE \E op, of : Refuse(op, of)
    BY <2>3, KeepsSame DEF Refuse
  <2>4. CASE Verify(c, S, C1, m)
    BY <2>4, DeriveTells DEF Verify
  <2>5. QED
    BY <2>1, <2>2, <2>3, <2>4
<1>3. tries' = 0
  BY <1>1 DEF DrawInv
<1>4. QED
  BY <1>1, <1>2, <1>3, OutsideDraw

LEMMA FailDraw ==
  ASSUME DrawInv, NotDivisible \/ SignFails \/ \E j : SearchFails(j)
  PROVE  DrawInv'
<1>1. pc' = "idle" /\ sigs' = sigs /\ tries' = 0
  BY DEF NotDivisible, SignFails, SearchFails, SignReturns
<1>2. Keeps(tape, tape')
  BY RecordedKeeps, KeepsSame DEF NotDivisible, SignFails, SearchFails, Shuffle
<1>3. QED
  BY <1>1, <1>2, OutsideDraw

LEMMA SignBeginDraw ==
  ASSUME DrawInv, NEW c, NEW k, NEW sp, NEW m, SignBegin(c, k, sp, m)
  PROVE  DrawInv'
<1>1. /\ pc = "idle" /\ pc' = "search" /\ UNCHANGED <<tape, tries, sigs>>
      /\ job' = [c |-> c, k |-> k, sp |-> sp, m |-> m]
      /\ rng' = SeedPrng(rng, SignSeed(k, sp, m)) /\ primes' = SmallPrimes /\ i' = 1
  BY DEF SignBegin
<1>2. rng' = [seed |-> OwnSeed', pos |-> 0] /\ rng'.pos = 0
  BY <1>1 DEF SeedPrng, OwnSeed
<1>3. tries' = 0
  BY <1>1 DEF DrawInv
<1> DEFINE P == [u \in {1} |-> SmallPrimes]
<1>4. Turns(tape', job'.k, OwnSeed', 1, P) /\ P[1] = primes'
  BY <1>1 DEF Turns
<1> HIDE DEF P
<1>5. Searching'
  BY <1>1, <1>2, <1>4 DEF Searching
<1>6. \A x \in sigs' : Made(tape', x.k, x.sp, x.m, x.sig)
  BY <1>1 DEF DrawInv
<1>7. pc' \notin {"idle", "blind"} \cup AfterBlind
  BY <1>1 DEF AfterBlind
<1>8. OwnStream'
  BY <1>2 DEF OwnStream
<1>9. QED
  BY <1>1, <1>3, <1>5, <1>6, <1>7, <1>8 DEF DrawInv

(* A draw of sign from its own stream.                                     *)
LEMMA OwnDraw ==
  ASSUME NEW p \in Nat, NEW l \in Nat, NEW vals, rng = [seed |-> OwnSeed, pos |-> p],
         DOMAIN vals = 1..l, Len(vals) = l, Reads(rng, vals)
  PROVE  /\ Keeps(tape, Recorded(tape, rng, vals))
         /\ \A y \in 1..l : At(Recorded(tape, rng, vals), OwnSeed, p + y, vals[y])
         /\ Past(rng, vals) = [seed |-> OwnSeed, pos |-> p + l]
<1>1. \A y \in DOMAIN vals : <<rng.seed, rng.pos + y>> \in DOMAIN tape =>
                               tape[<<rng.seed, rng.pos + y>>] = vals[y]
  BY DEF Reads
<1>2. rng.pos \in Nat /\ DOMAIN vals \subseteq Nat /\ rng.seed = OwnSeed /\ rng.pos = p
  OBVIOUS
<1>3. /\ Keeps(tape, Recorded(tape, rng, vals))
      /\ \A y \in DOMAIN vals : At(Recorded(tape, rng, vals), rng.seed, rng.pos + y, vals[y])
  BY <1>1, <1>2, DrawTells
<1>4. Past(rng, vals) = [seed |-> OwnSeed, pos |-> p + l]
  BY DEF Past
<1>5. QED
  BY <1>2, <1>3, <1>4

(* A turn of the search extends the list of lists by one.                  *)
LEMMA SearchDraw ==
  ASSUME DrawInv, TypeOK, NEW j, SearchHit(j) \/ SearchMiss(j)
  PROVE  DrawInv'
<1> DEFINE sd == OwnSeed
           tq == Recorded(tape, rng, <<j>>)
<1>1. /\ pc = "search" /\ j \in 0..(Len(primes) - i) /\ Reads(rng, <<j>>) /\ tape' = tq
      /\ UNCHANGED <<job, tries, sigs>> /\ rng' = Past(rng, <<j>>)
  BY DEF SearchHit, SearchMiss, Shuffle
<1>2. rng.pos = i - 1 /\ rng = [seed |-> OwnSeed, pos |-> rng.pos] /\ i \in Nat \ {0}
  <2>1. i \in Nat \ {0}
    BY PrimesTyped DEF TypeOK
  <2>2. OwnStream /\ Searching
    BY <1>1, Zenon DEF DrawInv
  <2>3. QED
    BY <1>1, <2>1, <2>2 DEF OwnStream, Searching
<1>3. PICK P : Turns(tape, job.k, sd, i, P) /\ P[i] = primes
  BY <1>1 DEF DrawInv, Searching
<1>4. Keeps(tape, tape') /\ At(tape', sd, i, j) /\ rng' = [seed |-> sd, pos |-> i]
  <2> DEFINE vals == <<j>>
  <2>1. DOMAIN vals = 1..1 /\ Len(vals) = 1 /\ vals[1] = j /\ 1 \in Nat /\ i - 1 \in Nat
    BY <1>2
  <2>2. Reads(rng, vals) /\ tape' = Recorded(tape, rng, vals) /\ rng' = Past(rng, vals)
    BY <1>1
  <2> HIDE DEF vals
  <2>3. rng = [seed |-> OwnSeed, pos |-> i - 1]
    BY <1>2
  <2>4. /\ Keeps(tape, tape')
        /\ \A y \in 1..1 : At(tape', OwnSeed, i - 1 + y, vals[y])
        /\ rng' = [seed |-> OwnSeed, pos |-> i - 1 + 1]
    BY <2>1, <2>2, <2>3, OwnDraw
  <2>5. 1 \in 1..1 /\ i - 1 + 1 = i
    BY <1>2
  <2>6. QED
    BY <2>1, <2>4, <2>5
<1> HIDE DEF tq
<1>5. rng'.pos = i /\ OwnStream' /\ OwnSeed' = sd
  BY <1>1, <1>4 DEF OwnSeed, OwnStream
<1>6. \A x \in sigs' : Made(tape', x.k, x.sp, x.m, x.sig)
  BY <1>1, <1>4, MadeStays DEF DrawInv
<1>7. tries' = 0
  BY <1>1 DEF DrawInv
<1>8. Turns(tape', job.k, sd, i, P)
  BY <1>3, <1>4, TurnsStay
<1>9. CASE SearchHit(j)
  <2> DEFINE t == primes[i + j]
  <2>1. /\ pc' = "blind" /\ RootOf(t) # -1
        /\ wit' = [t |-> t, w |-> RootOf(t),
                   a |-> (RootOf(t) * RootOf(t) - t) \div Modulus(job.k)]
    BY <1>9 DEF SearchHit
  <2>2. wit'.t = t /\ wit' = WitOf(job.k, t)
    BY <2>1 DEF WitOf, RootOf
  <2>3. Found(tape', job.k, sd, i, t)
    BY <1>3, <1>4, <1>8, <2>1 DEF Found, RootOf
  <2> HIDE DEF t
  <2>4. PICK n \in Nat \ {0} : n = i
    BY <1>2
  <2>5. Drawn(n)'
    <3>1. pc' \notin AfterBlind /\ pc' \notin AfterMasks
      BY <2>1 DEF AfterBlind, AfterMasks
    <3>2. rng'.pos = n /\ Found(tape', job'.k, OwnSeed', n, wit'.t) /\ wit' = WitOf(job'.k, wit'.t)
      BY <1>1, <1>5, <2>2, <2>3, <2>4
    <3>3. QED
      BY <2>1, <3>1, <3>2 DEF Drawn
  <2>6. QED
    BY <1>5, <1>6, <1>7, <2>1, <2>5 DEF DrawInv
<1>10. CASE SearchMiss(j)
  <2>1. /\ pc' = "search" /\ RootOf(primes[i + j]) = -1 /\ i' = i + 1
        /\ primes' = Exchanged(primes, i, j)
    BY <1>1, <1>10 DEF SearchMiss, Swapped, Exchanged
  <2> DEFINE Q == [u \in 1..(i + 1) |-> IF u <= i THEN P[u] ELSE Exchanged(primes, i, j)]
  <2>2. /\ \A u \in 1..i : Q[u] = P[u]
        /\ Q[i + 1] = Exchanged(primes, i, j)
    BY <1>2
  <2> HIDE DEF Q
  <2>3. Turns(tape', job.k, sd, i + 1, Q)
    <3>1. Q[1] = SmallPrimes
      BY <1>2, <1>8, <2>2 DEF Turns
    <3>2. ASSUME NEW u \in 1..((i + 1) - 1)
          PROVE  \E b : /\ At(tape', sd, u, b)
                        /\ SqrtPQ[job.k][Q[u][u + b]] = -1
                        /\ Q[u + 1] = Exchanged(Q[u], u, b)
      <4>1. CASE u < i
        <5>1. u \in 1..(i - 1) /\ u \in 1..i /\ u + 1 \in 1..i
          BY <1>2, <4>1
        <5>2. Q[u] = P[u] /\ Q[u + 1] = P[u + 1]
          BY <2>2, <5>1
        <5>3. QED
          BY <1>8, <5>1, <5>2 DEF Turns
      <4>2. CASE u = i
        <5>1. Q[u] = primes /\ Q[u + 1] = Exchanged(primes, i, j)
          BY <1>2, <1>3, <2>2, <4>2
        <5>2. QED
          BY <1>4, <2>1, <4>2, <5>1 DEF RootOf
      <4>3. QED
        BY <1>2, <4>1, <4>2
    <3>3. QED
      BY <3>1, <3>2 DEF Turns
  <2>4. Q[i + 1] = primes'
    BY <2>1, <2>2
  <2>5. Searching'
    <3>1. rng'.pos = i' - 1
      BY <1>2, <1>5, <2>1
    <3>2. Turns(tape', job'.k, OwnSeed', i', Q) /\ Q[i'] = primes'
      BY <1>1, <1>5, <2>1, <2>3, <2>4
    <3>3. QED
      BY <3>1, <3>2 DEF Searching
  <2>6. pc' \notin {"idle", "blind"} \cup AfterBlind
    BY <2>1 DEF AfterBlind
  <2>7. QED
    BY <1>5, <1>6, <1>7, <2>5, <2>6 DEF DrawInv
<1>11. QED
  BY <1>9, <1>10

(* The draw of s leaves alone what the stream of sign has told.            *)
LEMMA SecondDraw ==
  ASSUME NEW s, NEW s1, NEW s2, NEW tp, NEW n \in Nat, rng = [seed |-> OwnSeed, pos |-> n],
         Reads(rng, <<s1, s2>>),
         tp = Recorded(tape, SeedPrng(prng[job.c], ExpandSeed(job.sp)), <<s>>)
  PROVE  /\ Keeps(tp, Recorded(tp, rng, <<s1, s2>>))
         /\ At(Recorded(tp, rng, <<s1, s2>>), OwnSeed, n + 1, s1)
         /\ At(Recorded(tp, rng, <<s1, s2>>), OwnSeed, n + 2, s2)
         /\ Past(rng, <<s1, s2>>) = [seed |-> OwnSeed, pos |-> n + 2]
<1> DEFINE vals == <<s1, s2>>
<1>1. /\ DOMAIN vals = {1, 2} /\ vals[1] = s1 /\ vals[2] = s2 /\ Len(vals) = 2
      /\ Reads(rng, vals)
  OBVIOUS
<1> HIDE DEF vals
<1>2. \A x \in DOMAIN tp : x[1] = OwnSeed => x \in DOMAIN tape /\ tp[x] = tape[x]
  <2>1. OwnSeed # ExpandSeed(job.sp)
    BY DEF OwnSeed, SignSeed, ExpandSeed
  <2>2. \A x \in DOMAIN tp : x \in DOMAIN tape \/ x[1] = ExpandSeed(job.sp)
    BY DEF Recorded, SeedPrng
  <2>3. \A x \in DOMAIN tape : tp[x] = tape[x]
    BY DEF Recorded
  <2>4. QED
    BY <2>1, <2>2, <2>3
<1>3. rng.seed = OwnSeed /\ rng.pos = n /\ rng.pos \in Nat /\ DOMAIN vals \subseteq Nat
  BY <1>1
<1>4. ASSUME NEW y \in DOMAIN vals, <<rng.seed, rng.pos + y>> \in DOMAIN tp
      PROVE  tp[<<rng.seed, rng.pos + y>>] = vals[y]
  <2>1. <<rng.seed, rng.pos + y>>[1] = OwnSeed
    BY <1>3
  <2>2. QED
    BY <1>1, <1>2, <1>4, <2>1 DEF Reads
<1>5. /\ Keeps(tp, Recorded(tp, rng, vals))
      /\ \A y \in DOMAIN vals : At(Recorded(tp, rng, vals), rng.seed, rng.pos + y, vals[y])
  BY <1>3, <1>4, DrawTells
<1>6. /\ At(Recorded(tp, rng, vals), OwnSeed, n + 1, s1)
      /\ At(Recorded(tp, rng, vals), OwnSeed, n + 2, s2)
  BY <1>1, <1>3, <1>5
<1>7. Past(rng, vals) = [seed |-> OwnSeed, pos |-> n + 2]
  BY <1>1 DEF Past
<1>8. QED
  BY <1>5, <1>6, <1>7 DEF vals

LEMMA DrawBlindingDraw ==
  ASSUME DrawInv, DrawBlinding
  PROVE  DrawInv'
<1>1. /\ pc = "blind" /\ pc' = "commit"
      /\ UNCHANGED <<job, wit, tries, sigs>>
  BY DEF DrawBlinding
<1> DEFINE pr == SeedPrng(prng[job.c], ExpandSeed(job.sp))
<1>2. PICK s \in Expands, s1 \in Scalars, s2 \in Scalars :
        /\ Reads(pr, <<s>>) /\ Reads(rng, <<s1, s2>>)
        /\ tape' = Recorded(Recorded(tape, pr, <<s>>), rng, <<s1, s2>>)
        /\ rng' = Past(rng, <<s1, s2>>)
        /\ blind' = [s |-> s, s1 |-> s1, s2 |-> s2]
  BY DEF DrawBlinding
<1>3. PICK n \in Nat \ {0} : Drawn(n)
  BY <1>1 DEF DrawInv
<1>4. rng = [seed |-> OwnSeed, pos |-> n] /\ tries = 0
  BY <1>1, <1>3 DEF DrawInv, OwnStream, Drawn
<1> DEFINE tp == Recorded(tape, pr, <<s>>)
<1>5. Keeps(tape, tp) /\ At(tp, ExpandSeed(job.sp), 1, s)
  <2>1. Keeps(tape, tp) /\ Start(job.sp) \in DOMAIN tp /\ tp[Start(job.sp)] = s
    BY <1>2, ExpandTells
  <2>2. QED
    BY <2>1 DEF At, Start
<1>6. /\ Keeps(tp, tape')
      /\ At(tape', OwnSeed, n + 1, s1) /\ At(tape', OwnSeed, n + 2, s2)
      /\ rng' = [seed |-> OwnSeed, pos |-> n + 2]
  BY <1>2, <1>4, SecondDraw
<1> HIDE DEF tp, pr
<1>7. Keeps(tape, tape') /\ At(tape', ExpandSeed(job.sp), 1, s)
  BY <1>5, <1>6, AtStays DEF Keeps
<1>8. BlindDrawn(tape', job.sp, OwnSeed, n, blind')
  BY <1>2, <1>6, <1>7 DEF BlindDrawn
<1>9. OwnSeed' = OwnSeed
  BY <1>1 DEF OwnSeed
<1>10. Drawn(n)'
  <2>1. Found(tape, job.k, OwnSeed, n, wit.t) /\ wit = WitOf(job.k, wit.t)
    BY <1>3 DEF Drawn
  <2>2. Found(tape', job'.k, OwnSeed', n, wit'.t) /\ wit' = WitOf(job'.k, wit'.t)
    BY <1>1, <1>7, <1>9, <2>1, FoundStays
  <2>3. rng'.pos = n + 2 /\ BlindDrawn(tape', job'.sp, OwnSeed', n, blind')
    BY <1>1, <1>6, <1>8, <1>9
  <2>4. QED
    BY <1>1, <2>2, <2>3 DEF Drawn, AfterMasks
<1>11. OwnStream' /\ \A x \in sigs' : Made(tape', x.k, x.sp, x.m, x.sig)
  BY <1>1, <1>6, <1>7, <1>9, MadeStays DEF DrawInv, OwnStream
<1>12. QED
  BY <1>1, <1>4, <1>10, <1>11 DEF DrawInv

LEMMA MakeCommitmentsDraw ==
  ASSUME DrawInv, MakeCommitments
  PROVE  DrawInv'
<1>1. /\ pc = "commit" /\ pc' = "mask"
      /\ UNCHANGED <<job, wit, blind, tries, sigs>>
  BY DEF MakeCommitments
<1>2. PICK r \in Masks :
        /\ Reads(rng, r) /\ tape' = Recorded(tape, rng, r) /\ rng' = Past(rng, r)
        /\ rnd' = Scalars7(r)
  BY DEF MakeCommitments, Scalars7
<1>3. DOMAIN r = 1..7 /\ Len(r) = 7
  <2>1. r \in [1..7 -> Scalars]
    BY ProtocolAssumption
  <2>2. QED
    BY <2>1
<1>4. PICK n \in Nat \ {0} : Drawn(n)
  BY <1>1 DEF DrawInv, AfterBlind
<1>5. rng = [seed |-> OwnSeed, pos |-> n + 2] /\ tries = 0
  BY <1>1, <1>4 DEF DrawInv, OwnStream, Drawn
<1>6. /\ Keeps(tape, tape')
      /\ \A y \in 1..7 : At(tape', OwnSeed, n + 2 + y, r[y])
      /\ rng' = [seed |-> OwnSeed, pos |-> n + 2 + 7]
  <2>1. n + 2 \in Nat /\ 7 \in Nat
    OBVIOUS
  <2>2. QED
    BY <1>2, <1>3, <1>5, <2>1, OwnDraw
<1>7. MasksDrawn(tape', OwnSeed, n, rnd')
  BY <1>2, <1>6 DEF MasksDrawn
<1>8. OwnSeed' = OwnSeed
  BY <1>1 DEF OwnSeed
<1>9. Drawn(n)'
  <2>1. /\ Found(tape, job.k, OwnSeed, n, wit.t) /\ wit = WitOf(job.k, wit.t)
        /\ BlindDrawn(tape, job.sp, OwnSeed, n, blind)
    BY <1>1, <1>4 DEF Drawn, AfterBlind
  <2>2. /\ Found(tape', job'.k, OwnSeed', n, wit'.t) /\ wit' = WitOf(job'.k, wit'.t)
        /\ BlindDrawn(tape', job'.sp, OwnSeed', n, blind')
    BY <1>1, <1>6, <1>8, <2>1, FoundStays, DrawnStay
  <2>3. rng'.pos = n + 9 /\ MasksDrawn(tape', OwnSeed', n, rnd')
    BY <1>6, <1>7, <1>8
  <2>4. QED
    BY <1>1, <2>2, <2>3 DEF Drawn
<1>10. OwnStream' /\ \A x \in sigs' : Made(tape', x.k, x.sp, x.m, x.sig)
  BY <1>1, <1>6, <1>8, MadeStays DEF DrawInv, OwnStream
<1>11. QED
  BY <1>1, <1>5, <1>9, <1>10 DEF DrawInv

LEMMA MakeMasksDraw ==
  ASSUME DrawInv, MakeMasks
  PROVE  DrawInv'
<1>1. /\ pc = "mask" /\ pc' = "loop"
      /\ UNCHANGED <<tape, job, rng, wit, blind, rnd, tries, sigs>>
  BY DEF MakeMasks
<1>2. PICK n \in Nat \ {0} : Drawn(n)
  BY <1>1 DEF DrawInv, AfterBlind
<1>3. tries = 0 /\ OwnSeed' = OwnSeed
  BY <1>1 DEF DrawInv, OwnSeed
<1>4. Drawn(n)'
  <2>1. Missed(tape, OwnSeed, n, 0, job.k, wit, blind, rnd, job.m)
    BY DEF Missed
  <2>2. rng.pos = n + 9 + tries
    BY <1>1, <1>2, <1>3 DEF Drawn
  <2>3. /\ Found(tape, job.k, OwnSeed, n, wit.t) /\ wit = WitOf(job.k, wit.t)
        /\ BlindDrawn(tape, job.sp, OwnSeed, n, blind) /\ MasksDrawn(tape, OwnSeed, n, rnd)
    BY <1>1, <1>2 DEF Drawn, AfterBlind, AfterMasks
  <2>4. QED
    BY <1>1, <1>3, <2>1, <2>2, <2>3 DEF Drawn
<1>5. OwnStream' /\ \A x \in sigs' : Made(tape', x.k, x.sp, x.m, x.sig)
  BY <1>1, <1>3 DEF DrawInv, OwnStream
<1>6. QED
  BY <1>1, <1>4, <1>5 DEF DrawInv

(* What was drawn before the loop for ell stays as it was.                 *)
LEMMA LoopKeeps ==
  ASSUME DrawInv, NEW n \in Nat \ {0}, Drawn(n), pc \in {"loop", "try"}, Keeps(tape, tape'),
         UNCHANGED <<job, wit, blind, rnd, sigs>>
  PROVE  /\ OwnSeed' = OwnSeed
         /\ Found(tape', job'.k, OwnSeed', n, wit'.t) /\ wit' = WitOf(job'.k, wit'.t)
         /\ BlindDrawn(tape', job'.sp, OwnSeed', n, blind')
         /\ MasksDrawn(tape', OwnSeed', n, rnd')
         /\ Missed(tape', OwnSeed', n, tries, job'.k, wit', blind', rnd', job'.m)
         /\ \A x \in sigs' : Made(tape', x.k, x.sp, x.m, x.sig)
<1>1. OwnSeed' = OwnSeed
  BY DEF OwnSeed
<1>2. /\ Found(tape, job.k, OwnSeed, n, wit.t) /\ wit = WitOf(job.k, wit.t)
      /\ BlindDrawn(tape, job.sp, OwnSeed, n, blind) /\ MasksDrawn(tape, OwnSeed, n, rnd)
      /\ Missed(tape, OwnSeed, n, tries, job.k, wit, blind, rnd, job.m)
  BY DEF Drawn, AfterBlind, AfterMasks
<1>3. /\ Found(tape', job.k, OwnSeed, n, wit.t)
      /\ BlindDrawn(tape', job.sp, OwnSeed, n, blind) /\ MasksDrawn(tape', OwnSeed, n, rnd)
      /\ Missed(tape', OwnSeed, n, tries, job.k, wit, blind, rnd, job.m)
  BY <1>2, FoundStays, DrawnStay, MissedStays
<1>4. \A x \in sigs' : Made(tape', x.k, x.sp, x.m, x.sig)
  BY MadeStays DEF DrawInv
<1>5. QED
  BY <1>1, <1>2, <1>3, <1>4

LEMMA TriesTyped ==
  ASSUME TypeOK
  PROVE  tries \in Nat
BY BoundsTyped DEF TypeOK

LEMMA DrawTryDraw ==
  ASSUME DrawInv, TypeOK, DrawTry
  PROVE  DrawInv'
<1>1. /\ pc = "loop" /\ pc' = "try"
      /\ UNCHANGED <<job, wit, blind, rnd, tries, sigs>>
  BY DEF DrawTry
<1>2. PICK r1 \in Scalars :
        /\ Reads(rng, <<r1>>) /\ tape' = Recorded(tape, rng, <<r1>>)
        /\ rng' = Past(rng, <<r1>>) /\ try'.r_s1 = r1
  BY DEF DrawTry
<1>3. PICK n \in Nat \ {0} : Drawn(n)
  BY <1>1 DEF DrawInv, AfterBlind
<1>4. tries \in Nat /\ rng = [seed |-> OwnSeed, pos |-> n + 9 + tries]
  BY <1>1, <1>3, TriesTyped DEF DrawInv, OwnStream, Drawn
<1>5. /\ Keeps(tape, tape') /\ At(tape', OwnSeed, n + 10 + tries, r1)
      /\ rng' = [seed |-> OwnSeed, pos |-> n + 10 + tries]
  <2> DEFINE vals == <<r1>>
             p == n + 9 + tries
  <2>1. /\ DOMAIN vals = 1..1 /\ Len(vals) = 1 /\ vals[1] = r1 /\ 1 \in Nat /\ 1 \in 1..1
        /\ p \in Nat /\ p + 1 = n + 10 + tries
    BY <1>4
  <2>2. /\ Reads(rng, vals) /\ tape' = Recorded(tape, rng, vals) /\ rng' = Past(rng, vals)
        /\ rng = [seed |-> OwnSeed, pos |-> p]
    BY <1>2, <1>4
  <2> HIDE DEF vals, p
  <2>3. /\ Keeps(tape, tape')
        /\ \A y \in 1..1 : At(tape', OwnSeed, p + y, vals[y])
        /\ rng' = [seed |-> OwnSeed, pos |-> p + 1]
    BY <2>1, <2>2, OwnDraw
  <2>4. QED
    BY <2>1, <2>3
<1>6. /\ OwnSeed' = OwnSeed
      /\ Found(tape', job'.k, OwnSeed', n, wit'.t) /\ wit' = WitOf(job'.k, wit'.t)
      /\ BlindDrawn(tape', job'.sp, OwnSeed', n, blind')
      /\ MasksDrawn(tape', OwnSeed', n, rnd')
      /\ Missed(tape', OwnSeed', n, tries, job'.k, wit', blind', rnd', job'.m)
      /\ \A x \in sigs' : Made(tape', x.k, x.sp, x.m, x.sig)
  BY <1>1, <1>3, <1>5, LoopKeeps
<1>7. At(tape', OwnSeed', n + 10 + tries', try'.r_s1) /\ rng'.pos = n + 10 + tries'
  BY <1>1, <1>2, <1>5, <1>6
<1>8. Drawn(n)'
  BY <1>1, <1>6, <1>7 DEF Drawn
<1>9. OwnStream'
  BY <1>5, <1>6 DEF OwnStream
<1>10. QED
  BY <1>1, <1>6, <1>8, <1>9 DEF DrawInv

(* A turn that goes round again is one more that missed.                   *)
LEMMA MissedMore ==
  ASSUME NEW tp, NEW sd, NEW n, NEW u \in Nat, NEW k, NEW wt, NEW bl, NEW rn, NEW m,
         NEW r1, NEW chal, NEW ell \in Nat, ~FullLength(ell),
         Missed(tp, sd, n, u, k, wt, bl, rn, m),
         Turned(tp, sd, n, u, k, wt, bl, rn, m, r1, chal, ell)
  PROVE  Missed(tp, sd, n, u + 1, k, wt, bl, rn, m)
<1> SUFFICES ASSUME NEW v \in 0..((u + 1) - 1)
             PROVE  \E a, b : \E l \in Nat :
                      Turned(tp, sd, n, v, k, wt, bl, rn, m, a, b, l) /\ ~FullLength(l)
  BY DEF Missed
<1>1. CASE v = u
  BY <1>1
<1>2. CASE v # u
  <2>1. v \in 0..(u - 1)
    BY <1>2
  <2>2. QED
    BY <2>1 DEF Missed
<1>3. QED
  BY <1>1, <1>2

(* The transcript of a turn is a function of what was drawn.               *)
LEMMA TurnHashes ==
  ASSUME SignInv, pc = "try"
  PROVE  JobTranscript(try.A) = TurnTranscript(job.k, wit, blind, rnd, try.r_s1, job.m)
<1>1. /\ com.C1 = Commit(Modulus(job.k), blind.s)
      /\ com.C2 = Commit(wit.w, blind.s1)
      /\ com.C3 = Commit(wit.a, blind.s2)
  BY DEF SignInv, ComInv
<1>2. /\ mask.B = Commit(rnd.r_a, rnd.r_s2)
      /\ mask.C = Over(rnd.r_w2, rnd.r_s1w, com.C2, rnd.r_w)
      /\ mask.D = Over(rnd.r_an, rnd.r_sa, com.C1, rnd.r_a)
      /\ mask.E = rnd.r_w2 - rnd.r_an
  BY DEF SignInv, MaskInv
<1>3. try.A = Commit(rnd.r_w, try.r_s1)
  BY DEF SignInv, TryInv
<1>4. QED
  BY <1>1, <1>2, <1>3 DEF JobTranscript, TurnTranscript

LEMMA TryDraw ==
  ASSUME DrawInv, TypeOK, SignInv, Try
  PROVE  DrawInv'
<1> DEFINE tr == JobTranscript(try.A)
<1>1. pc = "try" /\ UNCHANGED <<job, rng, wit, blind, rnd, sigs>>
  BY DEF Try
<1>2. PICK chal \in Chals, ell0 \in Ells, ell \in 0..(EllLim + EllDiffMax) :
        /\ Derive(job.c, tr, chal, ell0)
        /\ IsNextPrime(Accepts(tr), ell0, EllDiffMax, ell)
        /\ \/ FullLength(ell) /\ pc' = "respond" /\ tries' = tries
           \/ ~FullLength(ell) /\ pc' = "loop" /\ tries' = tries + 1
        /\ try' = [r_s1 |-> try.r_s1, A |-> try.A, chal |-> chal, ell |-> ell]
  BY DEF Try
<1>3. PICK n \in Nat \ {0} : Drawn(n)
  BY <1>1 DEF DrawInv, AfterBlind
<1>4. tries \in Nat /\ rng = [seed |-> OwnSeed, pos |-> n + 10 + tries]
  BY <1>1, <1>3, TriesTyped DEF DrawInv, OwnStream, Drawn
<1>5. ell \in Nat /\ ell0 \in Nat
  BY ProtocolAssumption
<1>6. tr = TurnTranscript(job.k, wit, blind, rnd, try.r_s1, job.m)
  BY <1>1, TurnHashes
<1> HIDE DEF tr
<1>7. /\ Keeps(tape, tape')
      /\ At(tape', DeriveSeed(tr), 1, chal) /\ At(tape', DeriveSeed(tr), 2, ell0)
  BY <1>2, DeriveTells DEF At
<1>8. Ended(tape', tr, chal, ell)
  BY <1>2, <1>5, <1>7 DEF Ended
<1>9. At(tape', OwnSeed, n + 10 + tries, try.r_s1)
  BY <1>1, <1>3, <1>7, AtStays DEF Drawn
<1>10. Turned(tape', OwnSeed, n, tries, job.k, wit, blind, rnd, job.m, try.r_s1, chal, ell)
  BY <1>6, <1>8, <1>9 DEF Turned
<1>11. /\ OwnSeed' = OwnSeed
       /\ Found(tape', job'.k, OwnSeed', n, wit'.t) /\ wit' = WitOf(job'.k, wit'.t)
       /\ BlindDrawn(tape', job'.sp, OwnSeed', n, blind')
       /\ MasksDrawn(tape', OwnSeed', n, rnd')
       /\ Missed(tape', OwnSeed', n, tries, job'.k, wit', blind', rnd', job'.m)
       /\ \A x \in sigs' : Made(tape', x.k, x.sp, x.m, x.sig)
  BY <1>1, <1>3, <1>7, LoopKeeps
<1>12. OwnStream'
  BY <1>1, <1>4, <1>11 DEF OwnStream
<1>13. CASE FullLength(ell) /\ pc' = "respond" /\ tries' = tries
  <2>1. /\ try'.r_s1 = try.r_s1 /\ try'.chal = chal /\ try'.ell = ell
    BY <1>2
  <2>2. /\ At(tape', OwnSeed', n + 10 + tries', try'.r_s1)
        /\ Turned(tape', OwnSeed', n, tries', job'.k, wit', blind', rnd', job'.m,
                  try'.r_s1, try'.chal, try'.ell)
    BY <1>1, <1>9, <1>10, <1>11, <1>13, <2>1
  <2>3. Drawn(n)'
    BY <1>11, <1>13, <2>2 DEF Drawn
  <2>4. QED
    BY <1>11, <1>12, <1>13, <2>3 DEF DrawInv
<1>14. CASE ~FullLength(ell) /\ pc' = "loop" /\ tries' = tries + 1
  <2>1. Missed(tape', OwnSeed', n, tries', job'.k, wit', blind', rnd', job'.m)
    BY <1>1, <1>4, <1>5, <1>10, <1>11, <1>14, MissedMore
  <2>2. rng'.pos = n + 9 + tries'
    BY <1>1, <1>4, <1>14
  <2>3. Drawn(n)'
    BY <1>11, <1>14, <2>1, <2>2 DEF Drawn
  <2>4. QED
    BY <1>11, <1>12, <1>14, <2>3 DEF DrawInv
<1>15. QED
  BY <1>2, <1>13, <1>14

LEMMA SignatureIsOf ==
  ASSUME SignInv, pc = "respond"
  PROVE  Signature = SignatureOf(job.k, wit, blind, rnd, try.r_s1, try.chal, try.ell)
<1>1. /\ com.C1 = Commit(Modulus(job.k), blind.s)
      /\ com.C2 = Commit(wit.w, blind.s1)
      /\ com.C3 = Commit(wit.a, blind.s2)
  BY DEF SignInv, ComInv
<1>2. Z = ZOf(job.k, wit, blind, rnd, try.r_s1, try.chal)
  BY DEF Z, ZOf
<1> DEFINE z == ZOf(job.k, wit, blind, rnd, try.r_s1, try.chal)
<1>3. /\ Quotients = [x \in DOMAIN z |-> z[x] \div try.ell]
      /\ Residues = [x \in DOMAIN z |-> z[x] % try.ell]
      /\ Z = z
  BY <1>2 DEF Quotients, Residues
<1> HIDE DEF z
<1>4. QED
  BY <1>1, <1>3, SMT DEF Signature, SignatureOf, z

LEMMA RespondDraw ==
  ASSUME DrawInv, TypeOK, SignInv, Respond
  PROVE  DrawInv'
<1> DEFINE new == [k |-> job.k, sp |-> job.sp, m |-> job.m, C1 |-> com.C1,
                   sig |-> Signature, tr |-> JobTranscript(try.A)]
<1>1. pc = "respond" /\ pc' = "idle" /\ tries' = 0 /\ tape' = tape /\ sigs' = sigs \cup {new}
  BY DEF Respond, SignReturns
<1>2. PICK n \in Nat \ {0} : Drawn(n)
  BY <1>1 DEF DrawInv, AfterBlind
<1>3. tries \in Nat /\ try.ell \in Nat /\ FullLength(try.ell)
  BY <1>1, TriesTyped DEF SignInv, TurnInv
<1>4. Signature = SignatureOf(job.k, wit, blind, rnd, try.r_s1, try.chal, try.ell)
  BY <1>1, SignatureIsOf
<1>5. MadeBy(tape, job.k, job.sp, job.m, Signature, n, tries, wit, blind, rnd,
             try.r_s1, try.chal, try.ell)
  <2>1. /\ Found(tape, job.k, OwnSeed, n, wit.t) /\ wit = WitOf(job.k, wit.t)
        /\ BlindDrawn(tape, job.sp, OwnSeed, n, blind) /\ MasksDrawn(tape, OwnSeed, n, rnd)
        /\ Missed(tape, OwnSeed, n, tries, job.k, wit, blind, rnd, job.m)
        /\ Turned(tape, OwnSeed, n, tries, job.k, wit, blind, rnd, job.m,
                  try.r_s1, try.chal, try.ell)
    BY <1>1, <1>2 DEF Drawn, AfterBlind, AfterMasks
  <2>2. QED
    BY <1>3, <1>4, <2>1, Zenon DEF MadeBy, OwnSeed
<1>6. Made(tape, job.k, job.sp, job.m, Signature)
  BY <1>3, <1>5, Zenon DEF Made
<1>7. \A x \in sigs' : Made(tape', x.k, x.sp, x.m, x.sig)
  <2>1. Made(tape, new.k, new.sp, new.m, new.sig)
    BY <1>6
  <2> HIDE DEF new
  <2>2. QED
    BY <1>1, <2>1 DEF DrawInv
<1>8. pc' \notin {"search", "blind"} \cup AfterBlind /\ OwnStream'
  BY <1>1 DEF AfterBlind, OwnStream
<1>9. QED
  BY <1>1, <1>7, <1>8 DEF DrawInv

LEMMA InitDraw == Init => DrawInv
BY DEF Init, DrawInv, OwnStream, AfterBlind

LEMMA StutterDraw ==
  ASSUME DrawInv, UNCHANGED vars
  PROVE  DrawInv'
<1>1. UNCHANGED <<tape, pc, job, rng, primes, i, wit, blind, rnd, tries, try, sigs>>
  BY DEF vars, signVars
<1>2. OwnSeed' = OwnSeed
  BY <1>1 DEF OwnSeed
<1>3. (\A x \in sigs' : Made(tape', x.k, x.sp, x.m, x.sig)) /\ OwnStream'
  BY <1>1, <1>2 DEF DrawInv, OwnStream
<1>4. pc' = "search" => Searching'
  BY <1>1, <1>2 DEF DrawInv, Searching
<1>5. ASSUME pc' \in {"blind"} \cup AfterBlind PROVE \E n \in Nat \ {0} : Drawn(n)'
  <2>1. PICK n \in Nat \ {0} : Drawn(n)
    BY <1>1, <1>5 DEF DrawInv
  <2>2. Drawn(n)'
    BY <1>1, <1>2, <2>1 DEF Drawn
  <2>3. QED
    BY <2>2
<1>6. QED
  BY <1>1, <1>3, <1>4, <1>5 DEF DrawInv

LEMMA SignDraw ==
  ASSUME DrawInv, TypeOK, SignInv, Sign
  PROVE  DrawInv'
<1>1. CASE \E c \in Ctxs, k \in Keys, sp \in SPrimes, m \in Msgs : SignBegin(c, k, sp, m)
  BY <1>1, SignBeginDraw
<1>2. CASE \E j \in 0..(Len(primes) - 1) : SearchHit(j) \/ SearchMiss(j) \/ SearchFails(j)
  BY <1>2, SearchDraw, FailDraw
<1>3. CASE NotDivisible \/ SignFails
  BY <1>3, FailDraw
<1>4. CASE DrawBlinding \/ MakeCommitments \/ MakeMasks
  BY <1>4, DrawBlindingDraw, MakeCommitmentsDraw, MakeMasksDraw
<1>5. CASE DrawTry \/ Try \/ Respond
  BY <1>5, DrawTryDraw, TryDraw, RespondDraw
<1>6. QED
  BY <1>1, <1>2, <1>3, <1>4, <1>5 DEF Sign

LEMMA StepDraw == IInv /\ TypeOK /\ DrawInv /\ [Next]_vars => DrawInv'
<1> SUFFICES ASSUME IInv, TypeOK, DrawInv, [Next]_vars PROVE DrawInv'
  OBVIOUS
<1>1. CASE UNCHANGED vars
  BY <1>1, StutterDraw
<1>2. CASE Sign
  BY <1>2, SignDraw DEF IInv
<1>3. CASE \E c \in Ctxs, k \in Keys, sp \in SPrimes :
             \/ Challenge(c, k, sp) \/ ChallengeRefuse(c, k, sp)
             \/ \E ch \in issued : \E C1 \in {ch.C1, NotCanonical(ch.C1)} :
                  Validate(c, sp, C1, k) \/ ValidateRefuse(c, sp, C1, k)
             \/ SignRefuse(c, k)
  BY <1>3, CallDraw DEF ChallengeRefuse, ValidateRefuse, SignRefuse
<1>4. CASE \E c \in Ctxs, m \in Msgs, x \in sigs, C1 \in {y.C1 : y \in sigs \cup issued} :
             \E S \in Variants(x.sig) : VerifyRefuse(c, S, C1, m) \/ Verify(c, S, C1, m)
  BY <1>4, CallDraw DEF VerifyRefuse
<1>5. QED
  BY <1>1, <1>2, <1>3, <1>4 DEF Next

(* The same key, s_prime and message give the same signature, on any       *)
(* context and whatever came between: each signature is made of the streams *)
(* as the tape tells them, and only one can be made of them.               *)
THEOREM SigningIsDeterministic == Spec => []SignDeterministic
<1>1. Init => TypeOK /\ IInv /\ DrawInv
  BY InitTypes, InitInv, InitDraw
<1>2. TypeOK /\ IInv /\ DrawInv /\ [Next]_vars => TypeOK' /\ IInv' /\ DrawInv'
  BY StepTypes, StepInv, StepDraw
<1>3. DrawInv => SignDeterministic
  <2> SUFFICES ASSUME DrawInv, NEW x \in sigs, NEW y \in sigs,
                      <<x.k, x.sp, x.m>> = <<y.k, y.sp, y.m>>
               PROVE  x.sig = y.sig
    BY DEF SignDeterministic
  <2>1. x.k = y.k /\ x.sp = y.sp /\ x.m = y.m
    OBVIOUS
  <2>2. Made(tape, x.k, x.sp, x.m, x.sig) /\ Made(tape, y.k, y.sp, y.m, y.sig)
    BY DEF DrawInv
  <2>3. QED
    BY <2>1, <2>2, OneSignature
<1>4. QED
  BY <1>1, <1>2, <1>3, PTL DEF Spec

------------------------------------------------------------------------------
(* The assertions of sign.                                                 *)

(* A quotient of a number that is not negative is not negative.            *)
LEMMA QuotientPositive ==
  ASSUME NEW x \in Nat, NEW l \in Nat, l > 0
  PROVE  x \div l >= 0
<1> DEFINE q == x \div l
           r == x % l
<1>1. q \in Int /\ r \in Int /\ x = q * l + r /\ r < l
  BY Euclid
<1> HIDE DEF q, r
<1>2. SUFFICES ASSUME q <= -1 PROVE FALSE
  BY <1>1 DEF q
<1>3. q * l <= (-1) * l
  BY <1>1, <1>2, TimesMonotone
<1>4. (-1) * l = -l /\ q * l \in Int
  BY <1>1
<1> DEFINE y == q * l
<1>5. y \in Int /\ x = y + r /\ y <= -l
  BY <1>1, <1>3, <1>4
<1> HIDE DEF y
<1>6. QED
  BY <1>1, <1>5

(* A number is no less than its residue.                                   *)
LEMMA ResidueBelow ==
  ASSUME NEW x \in Nat, NEW l \in Nat, l > 0
  PROVE  x % l <= x
<1>1. x \div l \in Int /\ x % l \in Int /\ x = (x \div l) * l + (x % l) /\ x \div l >= 0
  BY Euclid, QuotientPositive
<1>2. (x \div l) * l >= 0 * l /\ (x \div l) * l \in Int
  BY <1>1, TimesMonotone
<1>3. QED
  BY <1>1, <1>2

(* What the search finds: a root w of t below n, and the a that goes with  *)
(* it.                                                                     *)
LEMMA RootIs ==
  ASSUME NEW k \in Keys, ValidKey(k), NEW t \in SmallPrimeSet, SqrtPQ[k][t] # -1
  PROVE  LET w == SqrtPQ[k][t]
             n == Modulus(k)
             a == (w * w - t) \div n IN
           w \in Nat /\ w > 0 /\ w < n /\ a \in Int /\ a >= 0 /\ a < n
<1> DEFINE w == SqrtPQ[k][t]
           n == Modulus(k)
           a == (w * w - t) \div n
<1>1. k.p \in Nat /\ k.q \in Nat /\ k.p >= 3 /\ k.q >= 3
  BY ProtocolAssumption DEF ValidKey, ValidPrime
<1>2. n \in Nat /\ n > 0
  <2>1. \A x, y \in Nat : x >= 3 /\ y >= 3 => x * y \in Nat /\ x * y > 0
    BY SMT
  <2>2. QED
    BY <1>1, <2>1 DEF Modulus
<1>3. w \in Nat
  <2>1. SqrtPQ[k] \in [SmallPrimeSet -> Nat \cup {-1}]
    BY ProtocolAssumption
  <2>2. QED
    BY <2>1
<1>4. t \in Nat /\ t > 0
  <2>1. SmallPrimes \in Seq(Nat \ {0})
    BY ProtocolAssumption
  <2>2. QED
    BY <2>1 DEF SmallPrimeSet
<1>5. t < n /\ w < n /\ IF k.p # k.q THEN (w * w) % n = t ELSE w >= k.p
  BY RootAssumption
<1>6. n = k.p * k.q
  BY DEF Modulus
<1> HIDE DEF w, n
<1>7. w * w \in Nat /\ w * w >= t
  <2>1. w * w \in Nat
    BY <1>3
  <2>2. CASE k.p # k.q
    <3>1. (w * w) % n = t
      BY <1>5, <2>2
    <3>2. QED
      BY <1>2, <2>1, <3>1, ResidueBelow
  <2>3. CASE k.p = k.q
    <3>1. w >= k.p /\ n = k.p * k.p
      BY <1>5, <1>6, <2>3
    <3>2. k.p * k.p <= w * k.p /\ w * k.p <= w * w
      BY <1>1, <1>3, <3>1, TimesMonotone
    <3>3. w * k.p \in Nat
      BY <1>1, <1>3
    <3>4. QED
      BY <1>2, <1>4, <1>5, <2>1, <3>1, <3>2, <3>3
  <2>4. QED
    BY <2>1, <2>2, <2>3
<1>8. w > 0
  <2>1. w = 0 => w * w = 0
    BY <1>3
  <2>2. QED
    BY <1>3, <1>4, <1>7, <2>1
<1> DEFINE x == w * w - t
<1>9. x \in Nat /\ x < n * n
  <2>1. w * w <= n * w /\ n * w <= n * n
    BY <1>2, <1>3, <1>5, TimesMonotone
  <2>2. n * w \in Nat /\ n * n \in Nat
    BY <1>2, <1>3
  <2>3. QED
    BY <1>4, <1>7, <2>1, <2>2
<1> HIDE DEF x
<1>10. x \div n \in Int /\ x \div n >= 0 /\ x \div n < n
  <2>1. -n < x
    BY <1>2, <1>9
  <2>2. QED
    BY <1>2, <1>9, <2>1, Euclid, QuotientPositive, QuotientBound
<1>11. QED
  BY <1>3, <1>5, <1>8, <1>10 DEF x, w, n

(* w and a from the moment that the search ends.                           *)
RootInv ==
  pc \notin {"idle", "search"} =>
    /\ wit.w > 0 /\ wit.w < Modulus(job.k)
    /\ wit.a >= 0 /\ wit.a < Modulus(job.k)

LEMMA StepRoot == IInv /\ TypeOK /\ RootInv /\ [Next]_vars => RootInv'
<1> SUFFICES ASSUME IInv, TypeOK, RootInv, [Next]_vars PROVE RootInv'
  OBVIOUS
<1>1. ASSUME NEW j, SearchHit(j) PROVE RootInv'
  <2> DEFINE t == primes[i + j]
  <2>1. /\ pc = "search" /\ job' = job /\ j \in 0..(Len(primes) - i) /\ RootOf(t) # -1
        /\ wit' = [t |-> t, w |-> RootOf(t),
                   a |-> (RootOf(t) * RootOf(t) - t) \div Modulus(job.k)]
    BY <1>1 DEF SearchHit, Shuffle
  <2>2. t \in SmallPrimeSet
    <3>1. Len(primes) = Len(SmallPrimes) /\ i \in 1..Len(SmallPrimes)
      BY PrimesTyped DEF TypeOK
    <3>2. i + j \in 1..Len(SmallPrimes)
      BY <2>1, <3>1, PrimesTyped
    <3>3. QED
      BY <3>2, PrimesTyped DEF TypeOK
  <2>3. job.k \in Keys /\ ValidKey(job.k)
    BY <2>1 DEF IInv, SignInv, JobInv
  <2> HIDE DEF t
  <2>4. /\ wit'.w > 0 /\ wit'.w < Modulus(job.k)
        /\ wit'.a >= 0 /\ wit'.a < Modulus(job.k)
    BY <2>1, <2>2, <2>3, RootIs DEF RootOf
  <2>5. QED
    BY <2>1, <2>4 DEF RootInv
<1>2. CASE pc' \in {"idle", "search"}
  BY <1>2 DEF RootInv
<1>3. CASE UNCHANGED <<pc, job, wit>>
  BY <1>3 DEF RootInv
<1>4. CASE DrawBlinding \/ MakeCommitments \/ MakeMasks \/ DrawTry \/ Try
  <2>1. pc \notin {"idle", "search"} /\ UNCHANGED <<job, wit>>
    BY <1>4 DEF DrawBlinding, MakeCommitments, MakeMasks, DrawTry, Try
  <2>2. QED
    BY <2>1 DEF RootInv
<1>5. CASE Sign
  <2>1. ASSUME NEW c, NEW k, NEW sp, NEW m, SignBegin(c, k, sp, m) PROVE pc' = "search"
    BY <2>1 DEF SignBegin
  <2>2. ASSUME NEW j, SearchMiss(j) \/ SearchFails(j) PROVE pc' \in {"idle", "search"}
    BY <2>2 DEF SearchMiss, SearchFails, Shuffle, SignReturns
  <2>3. ASSUME NotDivisible \/ Respond \/ SignFails PROVE pc' = "idle"
    BY <2>3 DEF NotDivisible, Respond, SignFails, SignReturns
  <2>4. QED
    BY <1>1, <1>2, <1>4, <1>5, <2>1, <2>2, <2>3 DEF Sign
<1>6. CASE UNCHANGED <<pc, signVars>>
  BY <1>3, <1>6 DEF signVars
<1>7. QED
  <2>1. CASE UNCHANGED vars
    BY <1>6, <2>1 DEF vars
  <2>2. CASE \E c \in Ctxs, k \in Keys, sp \in SPrimes :
               \/ Challenge(c, k, sp) \/ ChallengeRefuse(c, k, sp)
               \/ \E ch \in issued : \E C1 \in {ch.C1, NotCanonical(ch.C1)} :
                    Validate(c, sp, C1, k) \/ ValidateRefuse(c, sp, C1, k)
               \/ SignRefuse(c, k)
    <3>1. ASSUME NEW c, NEW k, NEW sp, NEW C1,
                 Challenge(c, k, sp) \/ Validate(c, sp, C1, k) \/ \E op, of : Refuse(op, of)
          PROVE  UNCHANGED <<pc, signVars>>
      BY <3>1 DEF Challenge, Validate, Refuse
    <3>2. QED
      BY <1>6, <2>2, <3>1 DEF ChallengeRefuse, ValidateRefuse, SignRefuse
  <2>3. CASE \E c \in Ctxs, m \in Msgs, x \in sigs, C1 \in {y.C1 : y \in sigs \cup issued} :
               \E S \in Variants(x.sig) : VerifyRefuse(c, S, C1, m) \/ Verify(c, S, C1, m)
    <3>1. ASSUME NEW c, NEW S, NEW C1, NEW m,
                 Verify(c, S, C1, m) \/ \E op, of : Refuse(op, of)
          PROVE  UNCHANGED <<pc, signVars>>
      BY <3>1 DEF Verify, Refuse
    <3>2. QED
      BY <1>6, <2>3, <3>1 DEF VerifyRefuse
  <2>4. QED
    BY <1>5, <2>1, <2>2, <2>3 DEF Next

(* An exponent of the signature, from the factor the challenge multiplies. *)
LEMMA ExponentBound ==
  ASSUME SignInv, pc = "respond", NEW x \in Nat, x < ModLim, NEW r \in Nat, r < ExpLim
  PROVE  (try.chal * x + r) \div try.ell < ModLim
<1> DEFINE k == try.chal
           l == try.ell
           y == k * x
           h == EllLim \div 2
<1>1. /\ k \in Nat /\ k < ChalLim /\ l \in Nat /\ l > 0 /\ h <= l
      /\ EllLim \in Nat /\ ExpLim \in Nat /\ ChalLim \in Nat /\ ModLim \in Nat
  BY Numbers, ProtocolAssumption
<1>2. h \in Int
  BY <1>1
<1>3. ChalLim * ModLim + ExpLim <= ModLim * h
  BY ExponentAssumption
<1> HIDE DEF k, l, h
<1>4. y \in Nat /\ y <= ChalLim * x /\ ChalLim * x <= ChalLim * ModLim
  BY <1>1, TimesMonotone
<1>5. ModLim * h <= ModLim * l
  BY <1>1, <1>2, TimesMonotone
<1> DEFINE A == ChalLim * x
           B == ChalLim * ModLim
           D == ModLim * h
           F == ModLim * l
<1>6. A \in Nat /\ B \in Nat /\ D \in Int /\ F \in Nat
  BY <1>1, <1>2
<1>7. y <= A /\ A <= B /\ B + ExpLim <= D /\ D <= F
  BY <1>3, <1>4, <1>5
<1> HIDE DEF y, A, B, D, F
<1>8. y + r \in Int /\ y + r < F
  BY <1>1, <1>4, <1>6, <1>7
<1>9. -ModLim < y + r
  BY <1>1, <1>4
<1>10. (y + r) \div l < ModLim
  BY <1>1, <1>8, <1>9, QuotientBound DEF F
<1>11. QED
  BY <1>10 DEF y, k, l

(* The assertions of sign hold for keys whose roots are as RootAssumption  *)
(* says, and goo_group_pow and goo_group_hash get numbers in their range.  *)
THEOREM SignAsserts == Spec => []AssertionsHold
<1>1. Init => TypeOK /\ IInv /\ RootInv
  BY InitTypes, InitInv DEF Init, RootInv
<1>2. TypeOK /\ IInv /\ RootInv /\ [Next]_vars => TypeOK' /\ IInv' /\ RootInv'
  BY StepTypes, StepInv, StepRoot
<1>3. IInv /\ RootInv => AssertionsHold
  <2> SUFFICES ASSUME SignInv, RootInv PROVE AssertionsHold
    BY DEF IInv
  <2>1. pc \in Pcs \ {"idle", "search"} => wit.w > 0 /\ wit.a >= 0
    BY DEF RootInv
  <2>2. pc \in {"mask", "loop", "try"} => rnd.r_w < ModLim /\ rnd.r_a < ModLim
    <3>1. ExpLim \in Nat /\ ModLim \in Nat /\ ExpLim <= ModLim
      BY ProtocolAssumption, ExponentAssumption
    <3>2. pc \in {"mask", "loop", "try"} => rnd.r_w \in Exp /\ rnd.r_a \in Exp
      BY DEF SignInv, ComInv
    <3>3. QED
      BY <3>1, <3>2 DEF Exp
  <2>3. ASSUME pc = "respond"
        PROVE  /\ IsExp(Signature.Eq)
               /\ Quotients.w < ModLim /\ Quotients.a < ModLim
    <3>1. IsExp(Signature.Eq)
      BY <2>3, EOpens
    <3>2. /\ wit.w \in Nat /\ wit.a \in Nat /\ rnd.r_w \in Nat /\ rnd.r_w < ExpLim
          /\ rnd.r_a \in Nat /\ rnd.r_a < ExpLim
      BY <2>3, Numbers DEF RootInv
    <3>3. wit.w < ModLim /\ wit.a < ModLim
      <4>1. Modulus(job.k) \in Nat /\ Modulus(job.k) < ModLim /\ ModLim \in Nat
        BY <2>3, Numbers, ProtocolAssumption DEF SignInv, JobInv, ValidKey, ValidModulus
      <4>2. QED
        BY <2>3, <3>2, <4>1 DEF RootInv
    <3>4. /\ Quotients.w = (try.chal * wit.w + rnd.r_w) \div try.ell
          /\ Quotients.a = (try.chal * wit.a + rnd.r_a) \div try.ell
      BY DEF Quotients, Z
    <3>5. QED
      BY <2>3, <3>1, <3>2, <3>3, <3>4, ExponentBound
  <2>4. QED
    BY <2>1, <2>2, <2>3 DEF AssertionsHold
<1>4. QED
  BY <1>1, <1>2, <1>3, PTL DEF Spec
==============================================================================
