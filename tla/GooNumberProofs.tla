-------------------------- MODULE GooNumberProofs ----------------------------
(***************************************************************************)
(* Theorems about the algorithms on numbers, each a section:               *)
(*                                                                         *)
(*   - goo_next_prime returns the smallest odd accepted number in range;   *)
(*   - the scan of unveil without branches decodes what RFC 8017 says;     *)
(*   - goo_veil draws from the whole residue class, and draws once;        *)
(*   - goo_decrypt_oaep gives back what goo_encrypt_oaep encrypted, for    *)
(*     which the theorem of Fermat is proved, and with it that of RSA;     *)
(*   - goo_isqrt, and with it combspec_size and goo_combspec_init: the     *)
(*     array holds every cost, and the cheapest shape that fits is chosen; *)
(*   - the Jacobi symbol that Euclid's algorithm walks to is the one of    *)
(*     Gauss's lemma, by the law of quadratic reciprocity;                 *)
(*   - goo_is_prime refuses no prime: Miller-Rabin by the theorem of       *)
(*     Fermat, the Lucas test by the binomial theorem at a prime.          *)
(***************************************************************************)
EXTENDS GooNextPrime, GooOaep, GooIsPrime, GooCombSpec, SequenceTheorems, WellFoundedInduction, TLAPS

------------------------------------------------------------------------------
(* The search for the next prime.                                          *)

(* The candidate is odd, inc beyond p, and every odd number between p and  *)
(* the candidate has been tested and refused.                              *)
Skipped ==
  pc # "idle" =>
    /\ ret = p + inc
    /\ ret % 2 = 1
    /\ \A x \in p..(ret - 1) : x % 2 = 1 => x \notin Accepted

Verdict ==
  pc = "done" =>
    /\ ret \in Accepted \/ TooFar
    /\ found = ~TooFar

IInv == TypeOK /\ Skipped /\ Verdict

LEMMA InitInv == Init => IInv
<1> SUFFICES ASSUME Init PROVE IInv
  OBVIOUS
<1>1. pc = "idle" /\ TypeOK
  BY DEF Init, TypeOK
<1>2. QED
  BY <1>1 DEF IInv, Skipped, Verdict

LEMMA CallInv ==
  ASSUME NEW p0 \in Starts, NEW m \in Maxes, IInv, Call(p0, m)
  PROVE  IInv'
<1>1. p0 \in Nat /\ m \in Nat
  BY NextPrimeAssumption
<1>2. /\ pc' = "test" /\ p' = p0 /\ max' = m /\ found' = found
      /\ inc' = (IF p0 % 2 = 0 THEN 1 ELSE 0) /\ ret' = p0 + inc'
  BY DEF Call, FirstInc
<1>3. inc' \in Nat /\ ret' \in Nat /\ ret' % 2 = 1
  BY <1>1, <1>2
<1>4. \A x \in p'..(ret' - 1) : x % 2 # 1
  BY <1>1, <1>2
<1>5. TypeOK'
  BY <1>1, <1>2, <1>3 DEF IInv, TypeOK
<1>6. Skipped'
  BY <1>2, <1>3, <1>4 DEF Skipped
<1>7. QED
  BY <1>2, <1>5, <1>6 DEF IInv, Verdict

LEMMA AdvanceInv == IInv /\ Advance => IInv'
<1> SUFFICES ASSUME IInv, Advance PROVE IInv'
  OBVIOUS
<1>1. /\ pc = "test" /\ pc' = "test" /\ ret \notin Accepted
      /\ ret' = ret + 2 /\ inc' = inc + 2
      /\ UNCHANGED <<p, max, found>>
  BY DEF Advance
<1>2. /\ p \in Nat /\ ret \in Nat /\ inc \in Nat /\ ret = p + inc /\ ret % 2 = 1
      /\ \A x \in p..(ret - 1) : x % 2 = 1 => x \notin Accepted
  BY <1>1 DEF IInv, TypeOK, Skipped
<1>3. TypeOK'
  BY <1>1, <1>2 DEF IInv, TypeOK
<1>4. ret' = p' + inc' /\ ret' % 2 = 1
  BY <1>1, <1>2
<1>5. ASSUME NEW x \in p'..(ret' - 1), x % 2 = 1
      PROVE  x \notin Accepted
  <2>1. x \in p..(ret - 1) \/ x = ret \/ x = ret + 1
    BY <1>1, <1>2
  <2>2. x # ret + 1
    BY <1>2, <1>5
  <2>3. QED
    BY <2>1, <2>2, <1>1, <1>2, <1>5
<1>6. QED
  BY <1>1, <1>3, <1>4, <1>5 DEF IInv, Skipped, Verdict

LEMMA LeaveInv == IInv /\ Leave => IInv'
<1> SUFFICES ASSUME IInv, Leave PROVE IInv'
  OBVIOUS
<1>1. /\ pc = "test" /\ pc' = "done" /\ found' = ~TooFar
      /\ ret \in Accepted \/ TooFar
      /\ UNCHANGED <<p, max, ret, inc>> /\ TooFar' = TooFar
  BY DEF Leave, TooFar
<1>2. TypeOK'
  BY <1>1 DEF IInv, TypeOK, TooFar
<1>3. Skipped' /\ Verdict'
  BY <1>1 DEF IInv, Skipped, Verdict
<1>4. QED
  BY <1>2, <1>3 DEF IInv

LEMMA StepInv == IInv /\ [Next]_vars => IInv'
<1> SUFFICES ASSUME IInv, [Next]_vars PROVE IInv'
  OBVIOUS
<1>1. CASE \E p0 \in Starts, m \in Maxes : Call(p0, m)
  BY <1>1, CallInv
<1>2. CASE Advance
  BY <1>2, AdvanceInv
<1>3. CASE Leave
  BY <1>3, LeaveInv
<1>4. CASE UNCHANGED vars
  BY <1>4 DEF vars, IInv, TypeOK, Skipped, Verdict, TooFar
<1>5. QED
  BY <1>1, <1>2, <1>3, <1>4 DEF Next

LEMMA Loop == Spec => []IInv
<1>1. QED
  BY InitInv, StepInv, PTL DEF Spec

(* With a limit the search is exact on [p, p + max], boundary included:    *)
(* the interval in which goo_group_verify accepts `ell`.                   *)
THEOREM SearchIsExact == Spec => []BoundedSearch
<1>1. IInv => BoundedSearch
  <2> SUFFICES ASSUME IInv, pc = "done", max # 0
               PROVE  IsNextPrime(Accepted, p, max, Result)
    BY DEF BoundedSearch
  <2>1. /\ p \in Nat /\ max \in Nat /\ ret \in Nat /\ inc \in Nat
        /\ ret = p + inc /\ ret % 2 = 1
        /\ \A x \in p..(ret - 1) : x % 2 = 1 => x \notin Accepted
        /\ ret \in Accepted \/ inc > max
        /\ found = ~(inc > max)
    BY DEF IInv, TypeOK, Skipped, Verdict, TooFar
  <2>2. CASE found
    <3>1. Result = ret /\ ret \in p..(p + max) /\ ret \in Accepted
      <4>1. Result = ret /\ ~(inc > max)
        BY <2>1, <2>2, Zenon DEF Result
      <4>2. QED
        BY <2>1, <4>1
    <3>2. \A x \in OddsIn(p, max) : x < ret => x \notin Accepted
      BY <2>1 DEF OddsIn
    <3>3. QED
      BY <2>1, <3>1, <3>2 DEF IsNextPrime, OddsIn
  <2>3. CASE ~found
    <3>1. Result = 0
      BY <2>3 DEF Result
    <3>2. \A x \in OddsIn(p, max) : x \in p..(ret - 1) /\ x % 2 = 1
      <4>1. inc > max
        BY <2>1, <2>3, Zenon
      <4>2. QED
        BY <2>1, <4>1 DEF OddsIn
    <3>3. QED
      BY <2>1, <3>1, <3>2 DEF IsNextPrime
  <2>4. QED
    BY <2>2, <2>3
<1>2. QED
  BY <1>1, Loop, PTL

(* Without a limit the search returns the first odd accepted number.       *)
THEOREM UnlimitedIsExact == Spec => []UnboundedSearch
<1>1. IInv => UnboundedSearch
  <2> SUFFICES ASSUME IInv, pc = "done", max = 0
               PROVE  /\ found /\ ret \in Accepted
                      /\ \A x \in p..ret : x % 2 = 1 /\ x \in Accepted => x = ret
    BY DEF UnboundedSearch
  <2>1. found /\ ret \in Accepted
    BY DEF IInv, Verdict, TooFar
  <2>2. \A x \in p..ret : x \in p..(ret - 1) \/ x = ret
    BY DEF IInv, TypeOK
  <2>3. QED
    BY <2>1, <2>2 DEF IInv, Skipped
<1>2. QED
  BY <1>1, Loop, PTL

------------------------------------------------------------------------------
(* Lists: sequences of whatever values.                                    *)

List(s, n) == s = [i \in 1..n |-> s[i]]

LEMMA ListIs ==
  ASSUME NEW s, NEW n \in Nat, List(s, n)
  PROVE  Len(s) = n /\ DOMAIN s = 1..n
<1> DEFINE S == {s[i] : i \in 1..n}
<1>1. s \in [1..n -> S]
  BY DEF List
<1> HIDE DEF S
<1>2. s \in Seq(S)
  BY <1>1
<1>3. DOMAIN s = 1..n
  BY <1>1
<1>4. QED
  BY <1>2, <1>3

LEMMA ConcatIsList ==
  ASSUME NEW s, NEW u, NEW n \in Nat, NEW k \in Nat, List(s, n), List(u, k)
  PROVE  List(s \o u, n + k)
<1> DEFINE S == {s[i] : i \in 1..n} \cup {u[i] : i \in 1..k}
<1>1. s \in [1..n -> S] /\ u \in [1..k -> S]
  BY DEF List
<1> HIDE DEF S
<1>2. s \in Seq(S) /\ u \in Seq(S) /\ Len(s) = n /\ Len(u) = k
  BY <1>1
<1> DEFINE h == s \o u
<1>3. h \in Seq(S) /\ Len(h) = n + k
  BY <1>2, ConcatProperties
<1> HIDE DEF h
<1>4. h \in [1..(n + k) -> S]
  BY <1>3, LenProperties
<1>5. QED
  BY <1>4 DEF h, List

LEMMA PartIsList ==
  ASSUME NEW s, NEW a \in Nat, NEW b \in Nat, a <= b
  PROVE  List(SubSeq(s, a, b), b - a + 1)
<1> DEFINE S == {s[i] : i \in a..b}
<1>1. \A i \in a..b : s[i] \in S
  OBVIOUS
<1> HIDE DEF S
<1> DEFINE h == SubSeq(s, a, b)
<1>2. h \in Seq(S) /\ Len(h) = b - a + 1
  BY <1>1, SubSeqProperties
<1> HIDE DEF h
<1>3. h \in [1..(b - a + 1) -> S]
  BY <1>2, LenProperties
<1>4. QED
  BY <1>3 DEF List, h

LEMMA MaskIsList ==
  ASSUME NEW s, NEW n \in Nat, List(s, n), NEW seed
  PROVE  List(Mgf1Xor(s, seed), n)
<1>1. Len(s) = n
  BY ListIs
<1>2. QED
  BY <1>1 DEF Mgf1Xor, List

------------------------------------------------------------------------------
(* OAEP: what is decoded.                                                  *)

LEMMA KeyIs ==
  ASSUME key \in Keys
  PROVE  Modulus \in Nat /\ Modulus > 0 /\ key.e \in Nat /\ KeyLen \in Nat
<1>1. key.p \in Nat /\ key.q \in Nat /\ key.e \in Nat /\ key.p > 0 /\ key.q > 0
  BY OaepAssumption
<1>2. Modulus \in Nat /\ Modulus > 0
  BY <1>1 DEF Modulus
<1>3. \E s \in 0..Modulus : Modulus < Base^s /\ (s > 0 => Modulus >= Base^(s - 1))
  BY LengthAssumption DEF Modulus
<1>4. ByteLength(Modulus) \in 0..Modulus
  BY <1>3 DEF ByteLength
<1>5. QED
  BY <1>1, <1>2, <1>4 DEF KeyLen

(* Byte k is the 0x01 after the zeros, or only the first 0x01; a stray byte*)
(* is one that is neither zero nor behind a 0x01.                          *)
Begins(k) == Rest[k] = 1 /\ \A j \in 1..(k - 1) : Rest[j] = 0
FirstOne(k) == Rest[k] = 1 /\ \A j \in 1..(k - 1) : Rest[j] # 1
Stray(k) == Rest[k] # 0 /\ \A j \in 1..k : Rest[j] # 1

(* What the flags of the scan say of the bytes read so far.                *)
Scanned ==
  /\ Len(Rest) \in Nat
  /\ scanned \in 0..Len(Rest)
  /\ looking \in BOOLEAN /\ invalid \in BOOLEAN /\ index \in Nat
  /\ looking <=> \A k \in 1..scanned : Rest[k] # 1
  /\ ~looking => index + 1 \in 1..scanned /\ FirstOne(index + 1)
  /\ invalid <=> \E k \in 1..scanned : Stray(k)

DecodeInv ==
  /\ key \in Keys
  /\ oaepPc \in {"idle", "veil", "sent", "blind"} => em = <<>>
  /\ oaepPc = "blind" => KeyLen >= 2 * HashLen + 2
  /\ oaepPc = "scan" => Scanned
  /\ DecodesAsSpecified

LEMMA DrawUnitInv ==
  ASSUME DecodeInv, DrawUnit
  PROVE  DecodeInv'
<1>1. /\ oaepPc = "blind" /\ oaepPc' = "scan"
      /\ scanned' = 0 /\ looking' = TRUE /\ index' = 0 /\ invalid' = FALSE
      /\ key' = key
  BY DEF DrawUnit
<1>2. /\ key \in Keys /\ KeyLen \in Nat /\ KeyLen >= 2 * HashLen + 2
      /\ HashLen \in Nat /\ HashLen > 0
      /\ Split \in Nat /\ Split = HashLen + 1
  BY <1>1, KeyIs, OaepAssumption DEF DecodeInv, Split
<1>3. PICK masked, seed :
        /\ List(masked, KeyLen)
        /\ seed = Mgf1Xor(SubSeq(masked, 2, Split), Back(masked, Split))
        /\ em' = <<masked[1]>> \o seed \o Mgf1Xor(Back(masked, Split), seed)
  <2>1. PICK x : \E masked \in {Padded(KeyLen, x)} :
                 \E seed \in {Mgf1Xor(SubSeq(masked, 2, Split), Back(masked, Split))} :
                   em' = <<masked[1]>> \o seed \o Mgf1Xor(Back(masked, Split), seed)
    BY DEF DrawUnit
  <2>2. List(Padded(KeyLen, x), KeyLen)
    BY DEF Padded, List
  <2>3. QED
    BY <2>1, <2>2
<1>4. List(seed, HashLen)
  <2>1. 2 \in Nat /\ 2 <= Split /\ Split - 2 + 1 = HashLen
    BY <1>2
  <2>2. List(SubSeq(masked, 2, Split), HashLen)
    BY <1>2, <2>1, PartIsList
  <2>3. QED
    BY <1>2, <1>3, <2>2, MaskIsList
<1>5. List(Mgf1Xor(Back(masked, Split), seed), KeyLen - Split)
  <2>1. Len(masked) = KeyLen
    BY <1>2, <1>3, ListIs
  <2>2. Split + 1 \in Nat /\ Split + 1 <= KeyLen /\ KeyLen - (Split + 1) + 1 = KeyLen - Split
        /\ KeyLen - Split \in Nat
    BY <1>2
  <2>3. List(Back(masked, Split), KeyLen - Split)
    BY <1>2, <2>1, <2>2, PartIsList DEF Back
  <2>4. QED
    BY <2>2, <2>3, MaskIsList
<1>6. List(em', KeyLen)
  <2>1. List(<<masked[1]>>, 1)
    BY DEF List
  <2>2. List(<<masked[1]>> \o seed, 1 + HashLen)
    BY <1>2, <1>4, <2>1, ConcatIsList
  <2>3. 1 + HashLen \in Nat /\ KeyLen - Split \in Nat /\ 1 + HashLen + (KeyLen - Split) = KeyLen
    BY <1>2
  <2>4. List((<<masked[1]>> \o seed) \o Mgf1Xor(Back(masked, Split), seed), (1 + HashLen) + (KeyLen - Split))
    BY <1>5, <2>2, <2>3, ConcatIsList
  <2>5. QED
    BY <1>3, <2>3, <2>4
<1>7. Len(Rest') \in Nat
  <2>1. Len(em') = KeyLen
    BY <1>2, <1>6, ListIs
  <2>2. Rest' = SubSeq(em', Split + HashLen + 1, KeyLen)
    BY <2>1 DEF Rest, Back
  <2>3. Split + HashLen + 1 \in Nat /\ Split + HashLen + 1 <= KeyLen
        /\ KeyLen - (Split + HashLen + 1) + 1 \in Nat
    BY <1>2
  <2>4. List(Rest', KeyLen - (Split + HashLen + 1) + 1)
    BY <1>2, <2>2, <2>3, PartIsList
  <2>5. QED
    BY <2>3, <2>4, ListIs
<1>8. Scanned'
  <2>1. 0 \in 0..Len(Rest') /\ \A k : k \notin 1..0
    BY <1>7
  <2>2. QED
    BY <1>1, <1>7, <2>1 DEF Scanned
<1>9. DecodesAsSpecified'
  BY <1>1 DEF DecodesAsSpecified
<1>10. QED
  BY <1>1, <1>2, <1>8, <1>9 DEF DecodeInv

LEMMA ScanInv ==
  ASSUME DecodeInv, Scan
  PROVE  DecodeInv'
<1>1. /\ oaepPc = "scan" /\ oaepPc' = "scan"
      /\ scanned < Len(Rest) /\ scanned' = scanned + 1
      /\ index' = IF looking /\ Rest[scanned + 1] = 1 THEN scanned ELSE index
      /\ looking' = (looking /\ Rest[scanned + 1] # 1)
      /\ invalid' = (invalid \/ (looking' /\ Rest[scanned + 1] # 0))
      /\ key' = key
  BY DEF Scan, StillLooking
<1>2. Rest' = Rest /\ \A k : (FirstOne(k)' <=> FirstOne(k)) /\ (Stray(k)' <=> Stray(k))
  <2>1. em' = em
    BY DEF Scan
  <2>2. QED
    BY <2>1 DEF Rest, FirstOne, Stray
<1>3. Scanned /\ key \in Keys
  BY <1>1 DEF DecodeInv
<1> DEFINE s == scanned + 1
<1>4. /\ Len(Rest) \in Nat /\ scanned \in Nat /\ s \in 0..Len(Rest) /\ s - 1 = scanned
      /\ \A k \in 1..s : k \in 1..scanned \/ k = s
      /\ s \in 1..s /\ \A k \in 1..scanned : k \in 1..s
  BY <1>1, <1>3 DEF Scanned
<1>5. looking' <=> \A k \in 1..s : Rest[k] # 1
  BY <1>1, <1>3, <1>4 DEF Scanned
<1>6. ~looking' => index' + 1 \in 1..s /\ FirstOne(index' + 1)
  <2>1. CASE looking /\ Rest[s] = 1
    <3>1. index' + 1 = s
      BY <1>1, <1>4, <2>1
    <3>2. FirstOne(s)
      BY <1>3, <1>4, <2>1 DEF FirstOne, Scanned
    <3>3. QED
      BY <1>4, <3>1, <3>2
  <2>2. CASE ~looking
    BY <1>1, <1>3, <1>4, <2>2 DEF Scanned
  <2>3. CASE looking /\ Rest[s] # 1
    BY <1>1, <2>3
  <2>4. QED
    BY <1>3, <2>1, <2>2, <2>3
<1>7. invalid' <=> \E k \in 1..s : Stray(k)
  <2>1. (looking' /\ Rest[s] # 0) <=> Stray(s)
    BY <1>5 DEF Stray
  <2>2. invalid <=> \E k \in 1..scanned : Stray(k)
    BY <1>3 DEF Scanned
  <2>3. QED
    BY <1>1, <1>4, <2>1, <2>2
<1>8. looking' \in BOOLEAN /\ invalid' \in BOOLEAN /\ index' \in Nat
  BY <1>1, <1>3, <1>4 DEF Scanned
<1>9. Scanned'
  BY <1>1, <1>2, <1>4, <1>5, <1>6, <1>7, <1>8 DEF Scanned
<1>10. DecodesAsSpecified'
  BY <1>1 DEF DecodesAsSpecified
<1>11. QED
  BY <1>1, <1>3, <1>9, <1>10 DEF DecodeInv

(* What the flags say at the end is what is to be decided.                 *)
LEMMA FlagsDecide ==
  ASSUME Scanned, scanned = Len(Rest)
  PROVE  /\ (~invalid /\ ~looking) <=> \E k \in 1..Len(Rest) : Begins(k)
         /\ \A k \in 1..Len(Rest) : Begins(k) => k = index + 1
<1> DEFINE L == Len(Rest)
<1>1. /\ L \in Nat /\ index \in Nat
      /\ looking <=> \A k \in 1..L : Rest[k] # 1
      /\ ~looking => index + 1 \in 1..L /\ FirstOne(index + 1)
      /\ invalid <=> \E k \in 1..L : Stray(k)
  BY DEF Scanned
<1> HIDE DEF L
<1>2. ASSUME ~invalid, ~looking PROVE index + 1 \in 1..L /\ Begins(index + 1)
  <2>1. index + 1 \in 1..L /\ FirstOne(index + 1)
    BY <1>1, <1>2
  <2>2. ASSUME NEW j \in 1..((index + 1) - 1), Rest[j] # 0 PROVE FALSE
    <3>1. j \in 1..L /\ \A m \in 1..j : m \in 1..((index + 1) - 1)
      BY <1>1, <2>1
    <3>2. Stray(j)
      BY <2>1, <2>2, <3>1 DEF FirstOne, Stray
    <3>3. QED
      BY <1>1, <1>2, <3>1, <3>2
  <2>3. QED
    BY <2>1, <2>2 DEF Begins, FirstOne
<1>3. ASSUME NEW k \in 1..L, Begins(k) PROVE ~invalid /\ ~looking /\ k = index + 1
  <2>1. Rest[k] = 1 /\ \A j \in 1..(k - 1) : Rest[j] = 0
    BY <1>3 DEF Begins
  <2>2. ~looking /\ index + 1 \in 1..L
        /\ Rest[index + 1] = 1 /\ \A j \in 1..((index + 1) - 1) : Rest[j] # 1
    BY <1>1, <2>1 DEF FirstOne
  <2>3. k = index + 1
    <3>1. ~(k < index + 1)
      BY <1>1, <2>1, <2>2
    <3>2. ASSUME index + 1 < k PROVE FALSE
      <4>1. index + 1 \in 1..(k - 1)
        BY <1>1, <3>2
      <4>2. Rest[index + 1] = 0
        BY <2>1, <4>1
      <4>3. QED
        BY <2>2, <4>2
    <3>3. QED
      BY <1>1, <3>1, <3>2
  <2>4. ASSUME NEW m \in 1..L, Stray(m) PROVE FALSE
    <3>1. Rest[m] # 0 /\ \A j \in 1..m : Rest[j] # 1
      BY <2>4 DEF Stray
    <3>2. CASE m < k
      BY <1>1, <2>1, <3>1, <3>2
    <3>3. CASE k <= m
      BY <1>1, <2>1, <3>1, <3>3
    <3>4. QED
      BY <1>1, <3>2, <3>3
  <2>5. QED
    BY <1>1, <2>2, <2>3, <2>4
<1>4. QED
  BY <1>1, <1>2, <1>3 DEF L

LEMMA DecodeStepInv ==
  ASSUME DecodeInv, Decode
  PROVE  DecodeInv'
<1> DEFINE z == em[1] = 0
           h == SubSeq(em, Split + 1, Split + HashLen) = HashOf(label)
<1>1. /\ oaepPc = "scan" /\ oaepPc' = "done" /\ scanned = Len(Rest)
      /\ plain' = IF z /\ h /\ ~invalid /\ ~looking
                  THEN [ok |-> TRUE, text |-> Back(Rest, index + 1)]
                  ELSE Nothing
      /\ key' = key /\ em' = em /\ label' = label
  BY DEF Decode, Valid, scanVars
<1>2. Scanned /\ key \in Keys
  BY <1>1 DEF DecodeInv
<1>3. Rest' = Rest
  BY <1>1 DEF Rest
<1>4. /\ (~invalid /\ ~looking) <=> \E k \in 1..Len(Rest) : Begins(k)
      /\ \A k \in 1..Len(Rest) : Begins(k) => k = index + 1
  BY <1>1, <1>2, FlagsDecide
<1>5. /\ plain'.ok <=> z /\ h /\ ~invalid /\ ~looking
      /\ plain'.ok => plain'.text = Back(Rest, index + 1)
  BY <1>1 DEF Nothing
<1>6. plain'.ok <=> (z /\ h) /\ \E k \in 1..Len(Rest) : Begins(k)
  BY <1>4, <1>5
<1>7. \A k \in 1..Len(Rest) : plain'.ok /\ Begins(k) => plain'.text = Back(Rest, k)
  BY <1>4, <1>5
<1>8. DecodesAsSpecified'
  BY <1>1, <1>3, <1>6, <1>7 DEF DecodesAsSpecified, Begins
<1>9. QED
  BY <1>1, <1>2, <1>8 DEF DecodeInv

LEMMA UnveilInv ==
  ASSUME DecodeInv, oaepPc \in {"idle", "sent"}, NEW v, NEW l, Unveil(v, l)
  PROVE  DecodeInv'
<1>1. key' = key /\ em' = em /\ em = <<>> /\ key \in Keys
  BY DEF Unveil, scanVars, DecodeInv
<1>2. oaepPc' = "done" \/ (oaepPc' = "blind" /\ KeyLen >= 2 * HashLen + 2)
  BY DEF Unveil, OaepFail
<1>3. KeyLen' = KeyLen
  BY <1>1 DEF KeyLen, Modulus
<1>4. QED
  BY <1>1, <1>2, <1>3 DEF DecodeInv, DecodesAsSpecified

LEMMA DecodeInitInv == OaepInit => DecodeInv
BY DEF OaepInit, DecodeInv, DecodesAsSpecified

LEMMA DecodeNextInv == DecodeInv /\ [OaepNext]_oaepVars => DecodeInv'
<1> SUFFICES ASSUME DecodeInv, [OaepNext]_oaepVars PROVE DecodeInv'
  OBVIOUS
<1>1. ASSUME NEW m \in Messages, NEW l \in Labels, NEW seed \in OaepSeeds, Encrypt(m, l, seed)
      PROVE  DecodeInv'
  <2>1. key' = key /\ em' = em /\ oaepPc = "idle" /\ oaepPc' \in {"veil", "done"}
    BY <1>1 DEF Encrypt, OaepFail, scanVars
  <2>2. QED
    BY <2>1 DEF DecodeInv, DecodesAsSpecified
<1>2. ASSUME Veil PROVE DecodeInv'
  <2>1. key' = key /\ em' = em /\ oaepPc = "veil" /\ oaepPc' \in {"veil", "sent"}
    BY <1>2 DEF Veil, scanVars
  <2>2. QED
    BY <2>1 DEF DecodeInv, DecodesAsSpecified
<1>3. ASSUME NEW l \in Labels, Decrypt(l) PROVE DecodeInv'
  BY <1>3, UnveilInv DEF Decrypt
<1>4. ASSUME NEW v \in Ciphertexts, NEW l \in Labels, DecryptOther(v, l) PROVE DecodeInv'
  BY <1>4, UnveilInv DEF DecryptOther
<1>5. ASSUME UNCHANGED oaepVars PROVE DecodeInv'
  <2>1. UNCHANGED <<oaepPc, key, label, em, scanned, looking, index, invalid, plain>>
    BY <1>5 DEF oaepVars
  <2>2. Scanned <=> Scanned'
    BY <2>1 DEF Scanned, Rest, FirstOne, Stray
  <2>3. DecodesAsSpecified <=> DecodesAsSpecified'
    BY <2>1 DEF DecodesAsSpecified, Rest
  <2>4. KeyLen' = KeyLen
    BY <2>1 DEF KeyLen, Modulus
  <2>5. QED
    BY <2>1, <2>2, <2>3, <2>4 DEF DecodeInv
<1>6. ASSUME DrawNonUnit PROVE DecodeInv'
  BY <1>5, <1>6 DEF DrawNonUnit
<1>7. QED
  BY <1>1, <1>2, <1>3, <1>4, <1>5, <1>6, DrawUnitInv, ScanInv, DecodeStepInv DEF OaepNext

(* The scan that reads every byte, found or not, finds what RFC 8017       *)
(* describes, for any hash, any key and any number given to decrypt.       *)
THEOREM DecodesAsSpecifiedAlways == OaepSpec => []DecodesAsSpecified
<1>1. DecodeInv => DecodesAsSpecified
  BY DEF DecodeInv
<1>2. QED
  BY <1>1, DecodeInitInv, DecodeNextInv, PTL DEF OaepSpec

------------------------------------------------------------------------------
(* Recursion on natural numbers, entry k from an entry before it.          *)

LEMMA UpTo ==
  ASSUME NEW n \in Nat, NEW S, 0 \in S, \A i \in 0..(n - 1) : i \in S => i + 1 \in S
  PROVE  \A i \in 0..n : i \in S
<1>1. SUFFICES ASSUME NEW i \in 0..n, i \notin S PROVE FALSE
  OBVIOUS
<1> DEFINE Out == {j \in Nat : j <= n /\ j \notin S}
<1>2. i \in Out /\ Out \in SUBSET Nat
  BY <1>1
<1>3. PICK j \in Out : \A m \in Out : j <= m
  <2> DEFINE Less == OpToRel(<, Nat)
  <2>1. \A m, j \in Out : <<m, j>> \in Less <=> m < j
    BY DEF OpToRel
  <2>2. \A m, j \in Out : j <= m <=> ~(m < j)
    OBVIOUS
  <2>3. IsWellFoundedOn(Less, Nat)
    BY NatLessThanWellFounded
  <2> HIDE DEF Out, Less
  <2>4. \E j \in Out : \A m \in Out : <<m, j>> \notin Less
    BY <1>2, <2>3, WFMin
  <2>5. QED
    BY <2>1, <2>2, <2>4
<1>4. j \in Nat /\ j <= n /\ j \notin S /\ j # 0
  BY <1>3
<1>5. j - 1 \in 0..(n - 1) /\ j - 1 \notin Out
  BY <1>3, <1>4
<1>6. j - 1 \in S
  BY <1>4, <1>5
<1>7. (j - 1) + 1 \in S /\ (j - 1) + 1 = j
  BY <1>4, <1>5, <1>6
<1>8. QED
  BY <1>4, <1>7

Walk(u, n, V, first, before, turn) ==
  u \in [0..n -> V] /\ u[0] = first /\ \A k \in 1..n : u[k] = turn[k][u[before[k]]]
Walkable(n, V, first, before, turn) == \E u : Walk(u, n, V, first, before, turn)

(* Such functions exist, ...                                               *)
LEMMA RecursionExists ==
  ASSUME NEW n \in Nat, NEW V, NEW first \in V, NEW before \in [1..n -> Nat],
         \A k \in 1..n : before[k] < k,
         NEW turn \in [1..n -> [V -> V]]
  PROVE  Walkable(n, V, first, before, turn)
<1> DEFINE Good(m, u) == Walk(u, m, V, first, before, turn)
           S == {m \in 0..n : \E u : Good(m, u)}
<1>1. 0 \in S
  <2>1. Good(0, [k \in 0..0 |-> first])
    BY DEF Walk
  <2> HIDE DEF Good
  <2>2. QED
    BY <2>1
<1>2. ASSUME NEW m \in 0..(n - 1), m \in S PROVE m + 1 \in S
  <2>1. PICK u : Good(m, u)
    BY <1>2
  <2>9. /\ u \in [0..m -> V] /\ u[0] = first
        /\ \A k \in 1..m : u[k] = turn[k][u[before[k]]]
    BY <2>1 DEF Walk
  <2> DEFINE next == turn[m + 1][u[before[m + 1]]]
             w == [k \in 0..(m + 1) |-> IF k = m + 1 THEN next ELSE u[k]]
  <2>2. m \in Nat /\ m + 1 \in 1..n /\ before[m + 1] \in 0..m
    BY <1>2
  <2>3. u[before[m + 1]] \in V /\ next \in V
    BY <2>9, <2>2
  <2> HIDE DEF next
  <2>4. w \in [0..(m + 1) -> V] /\ (\A k \in 0..m : w[k] = u[k]) /\ w[m + 1] = next
    BY <2>9, <2>2, <2>3
  <2> HIDE DEF w
  <2>5. w[0] = first
    BY <2>9, <2>2, <2>4
  <2>6. ASSUME NEW k \in 1..(m + 1) PROVE w[k] = turn[k][w[before[k]]]
    <3>1. k \in 1..n /\ before[k] \in 0..m
      BY <2>2
    <3>2. w[before[k]] = u[before[k]]
      BY <2>4, <3>1
    <3>3. CASE k = m + 1
      BY <2>4, <3>2, <3>3 DEF next
    <3>4. CASE k \in 1..m
      BY <2>9, <2>4, <3>2, <3>4
    <3>5. QED
      BY <2>2, <3>3, <3>4
  <2>7. Good(m + 1, w)
    BY <2>4, <2>5, <2>6 DEF Walk
  <2> HIDE DEF Good
  <2>8. QED
    BY <2>2, <2>7
<1> HIDE DEF S
<1>3. n \in S
  <2>1. \A m \in 0..n : m \in S
    BY <1>1, <1>2, UpTo
  <2>2. QED
    BY <2>1
<1>4. QED
  BY <1>3 DEF S, Walkable

(* ... and have their values where every turn stays.                       *)
LEMMA RecursionStays ==
  ASSUME NEW n \in Nat, NEW V, NEW before \in [1..n -> Nat],
         \A k \in 1..n : before[k] < k,
         NEW u, u[0] \in V, \A k \in 1..n : u[before[k]] \in V => u[k] \in V
  PROVE  \A k \in 0..n : u[k] \in V
<1> DEFINE S == {m \in Nat : \A k \in 0..m : u[k] \in V}
<1>1. 0 \in S
  OBVIOUS
<1>2. ASSUME NEW m \in 0..(n - 1), m \in S PROVE m + 1 \in S
  <2>1. m \in Nat /\ m + 1 \in 1..n /\ before[m + 1] \in 0..m
    BY <1>2
  <2>2. u[m + 1] \in V
    BY <1>2, <2>1
  <2>3. QED
    BY <1>2, <2>1, <2>2
<1> HIDE DEF S
<1>3. \A m \in 0..n : m \in S
  BY <1>1, <1>2, UpTo
<1>4. QED
  <2>1. ASSUME NEW k \in 0..n PROVE u[k] \in V
    <3>1. k \in Nat /\ k \in 0..k
      OBVIOUS
    <3>2. QED
      BY <1>3, <3>1 DEF S
  <2>2. QED
    BY <2>1

Halving(x, e, p0, u) ==
  u = [k \in 0..e |->
        IF k = 0 THEN 1 % p0
        ELSE IF k % 2 = 0 THEN (u[k \div 2] * u[k \div 2]) % p0
             ELSE (((u[k \div 2] * u[k \div 2]) % p0) * (x % p0)) % p0]

(* How mpz_powm halves the exponent.                                       *)
Halves(x, e, m, u) ==
  /\ u \in [0..e -> 0..(m - 1)]
  /\ u[0] = 1 % m
  /\ \A k \in 1..e :
       u[k] = IF k % 2 = 0 THEN (u[k \div 2] * u[k \div 2]) % m
              ELSE (((u[k \div 2] * u[k \div 2]) % m) * (x % m)) % m

LEMMA PowModHalves ==
  ASSUME NEW x \in Int, NEW e \in Nat, NEW m \in Nat, m > 0
  PROVE  \E u : Halves(x, e, m, u) /\ PowMod(x, e, m) = u[e]
<1> DEFINE V == 0..(m - 1)
           sq(a) == (a * a) % m
           after(k, a) == IF k % 2 = 0 THEN sq(a) ELSE (sq(a) * (x % m)) % m
           before == [k \in 1..e |-> k \div 2]
           turn == [k \in 1..e |-> [a \in V |-> after(k, a)]]
           u == CHOOSE u : Halving(x, e, m, u)
<1>1. \A z \in Int : z % m \in V
  OBVIOUS
<1>2. \A k, a : a \in V => after(k, a) \in V
  <2>1. \A a \in V : a * a \in Int
    OBVIOUS
  <2>2. \A a \in V : sq(a) \in V
    BY <1>1, <2>1
  <2>3. x % m \in V
    BY <1>1
  <2>4. \A a \in V : sq(a) * (x % m) \in Int
    BY <2>2, <2>3
  <2>5. \A a \in V : (sq(a) * (x % m)) % m \in V
    BY <1>1, <2>4
  <2>6. QED
    BY <2>2, <2>5
<1>3. before \in [1..e -> Nat] /\ (\A k \in 1..e : before[k] < k /\ before[k] = k \div 2)
  OBVIOUS
<1>4. 1 % m \in V
  BY <1>1
<1>5. turn \in [1..e -> [V -> V]] /\ \A k \in 1..e, a \in V : turn[k][a] = after(k, a)
  <2> HIDE DEF after, V
  <2>1. \A k \in 1..e : [a \in V |-> after(k, a)] \in [V -> V]
    BY <1>2
  <2>2. QED
    BY <2>1
<1> HIDE DEF before, turn, V
<1>6. \E w : Halving(x, e, m, w)
  <2> DEFINE first == 1 % m
  <2>1. first \in V /\ turn \in [1..e -> [V -> V]] /\ before \in [1..e -> Nat]
        /\ \A k \in 1..e : before[k] < k
    BY <1>3, <1>4, <1>5
  <2> HIDE DEF first
  <2>5. \E w \in [0..e -> V] : w[0] = first /\ \A k \in 1..e : w[k] = turn[k][w[before[k]]]
    <3>1. Walkable(e, V, first, before, turn)
      BY <2>1, RecursionExists
    <3>2. QED
      BY <3>1 DEF Walkable, Walk
  <2>6. PICK w \in [0..e -> V] : w[0] = 1 % m /\ \A k \in 1..e : w[k] = turn[k][w[before[k]]]
    BY <2>5 DEF first
  <2>2. ASSUME NEW k \in 1..e PROVE w[k] = after(k, w[k \div 2])
    <3>1. before[k] = k \div 2 /\ k \div 2 \in 0..e
      BY <1>3
    <3>2. w[k \div 2] \in V
      BY <2>6, <3>1
    <3>3. QED
      BY <1>5, <2>6, <3>1, <3>2
  <2>3. w = [k \in 0..e |-> IF k = 0 THEN 1 % m ELSE after(k, w[k \div 2])]
    <3>1. \A k \in 0..e : w[k] = IF k = 0 THEN 1 % m ELSE after(k, w[k \div 2])
      <4> HIDE DEF after
      <4>1. \A k \in 0..e : k = 0 \/ k \in 1..e
        OBVIOUS
      <4>2. QED
        BY <2>6, <2>2, <4>1
    <3> HIDE DEF after
    <3>2. QED
      BY <2>6, <3>1
  <2>4. QED
    BY <2>3 DEF Halving
<1>7. PowMod(x, e, m) = u[e]
  BY DEF PowMod, Halving
<1>8. Halving(x, e, m, u)
  BY <1>6
<1> HIDE DEF u
<1>14. u \in [0..e -> {u[k] : k \in 0..e}]
  <2> DEFINE w == [k \in 0..e |-> IF k = 0 THEN 1 % m ELSE after(k, u[k \div 2])]
  <2>1. u = w
    BY <1>8 DEF Halving
  <2> HIDE DEF after
  <2>2. DOMAIN w = 0..e /\ w = [k \in 0..e |-> w[k]]
    OBVIOUS
  <2> HIDE DEF w
  <2>3. u = [k \in 0..e |-> u[k]]
    BY <2>1, <2>2
  <2>4. QED
    BY <2>3
<1>9. u[0] = 1 % m /\ \A k \in 1..e : u[k] = after(k, u[k \div 2])
  <2> DEFINE w == [k \in 0..e |-> IF k = 0 THEN 1 % m ELSE after(k, u[k \div 2])]
  <2>1. u = w
    BY <1>8 DEF Halving
  <2> HIDE DEF after
  <2>2. w[0] = 1 % m /\ \A k \in 1..e : w[k] = after(k, u[k \div 2])
    OBVIOUS
  <2> HIDE DEF w
  <2>3. QED
    BY <2>1, <2>2
<1>10. \A k \in 1..e : u[before[k]] \in V => u[k] \in V
  <2> HIDE DEF after
  <2>1. QED
    BY <1>2, <1>3, <1>9
<1>11. u[0] \in V
  BY <1>4, <1>9
<1> HIDE DEF after
<1>12. \A k \in 0..e : u[k] \in V
  BY <1>3, <1>10, <1>11, RecursionStays
<1>15. u \in [0..e -> V]
  BY <1>12, <1>14
<1>13. Halves(x, e, m, u)
  BY <1>9, <1>15 DEF Halves, V, after
<1>16. QED
  BY <1>7, <1>13

(* A power modulo a number is below it.                                    *)
LEMMA PowModIs ==
  ASSUME NEW x \in Int, NEW e \in Nat, NEW m \in Nat, m > 0
  PROVE  PowMod(x, e, m) \in 0..(m - 1)
<1>1. PICK u : Halves(x, e, m, u) /\ PowMod(x, e, m) = u[e]
  BY PowModHalves
<1>2. QED
  BY <1>1 DEF Halves

------------------------------------------------------------------------------
(* Congruence.                                                             *)

Multiple(m, z) == \E t \in Int : z = t * m
Same(a, b, m) == Multiple(m, a - b)

LEMMA RemainderIs ==
  ASSUME NEW m \in Nat, m > 0, NEW z \in Int
  PROVE  z % m \in 0..(m - 1) /\ z \div m \in Int /\ z = (z \div m) * m + (z % m)
<1>1. z % m \in 0..(m - 1) /\ z \div m \in Int
  BY SMT
<1>2. z = (z \div m) * m + (z % m)
  BY SMT
<1>3. QED
  BY <1>1, <1>2

LEMMA Euclid ==
  ASSUME NEW h \in Nat, h > 0, NEW z \in Nat
  PROVE  z \div h \in Nat /\ z % h \in Nat /\ z % h < h
BY SMT

LEMMA MultipleIs ==
  ASSUME NEW m \in Nat, m > 0, NEW z \in Int
  PROVE  z % m = 0 <=> Multiple(m, z)
<1>1. z % m \in 0..(m - 1) /\ z \div m \in Int /\ z = (z \div m) * m + (z % m)
  BY RemainderIs
<1> DEFINE h == z \div m
           r == z % m
<1>2. ASSUME NEW t \in Int, z = t * m PROVE r = 0
  <2>1. r = (t - h) * m /\ r \in Nat /\ r < m /\ t - h \in Int
    BY <1>1, <1>2
  <2> DEFINE s == t - h
  <2> HIDE DEF r, h, s
  <2>2. s * m = r /\ s \in Int
    BY <2>1 DEF s
  <2>3. s <= 0 \/ s >= 1
    BY <2>2
  <2>4. CASE s >= 1
    <3>1. s * m >= m
      BY <2>2, <2>4
    <3>2. QED
      BY <2>1, <2>2, <3>1
  <2>5. CASE s <= 0
    <3>1. s * m <= 0
      BY <2>2, <2>5
    <3>2. QED
      BY <2>1, <2>2, <3>1
  <2>6. QED
    BY <2>3, <2>4, <2>5
<1>3. ASSUME r = 0 PROVE z = h * m
  BY <1>1, <1>3
<1>4. QED
  BY <1>1, <1>2, <1>3 DEF Multiple

LEMMA MultipleSum ==
  ASSUME NEW m \in Int, NEW a \in Int, NEW b \in Int, Multiple(m, a), Multiple(m, b)
  PROVE  Multiple(m, a + b) /\ Multiple(m, a - b)
<1>1. PICK t \in Int, s \in Int : a = t * m /\ b = s * m
  BY DEF Multiple
<1>2. a + b = (t + s) * m /\ a - b = (t - s) * m /\ t + s \in Int /\ t - s \in Int
  BY <1>1
<1>3. QED
  BY <1>2 DEF Multiple

LEMMA MultipleTimes ==
  ASSUME NEW m \in Int, NEW a \in Int, NEW b \in Int, Multiple(m, a)
  PROVE  Multiple(m, a * b) /\ Multiple(m, b * a)
<1>1. PICK t \in Int : a = t * m
  BY DEF Multiple
<1>2. a * b = (t * b) * m /\ b * a = (t * b) * m /\ t * b \in Int
  BY <1>1
<1>3. QED
  BY <1>2 DEF Multiple

LEMMA SameItself == ASSUME NEW m \in Int, NEW a \in Int PROVE Same(a, a, m)
<1>1. a - a = 0 * m /\ 0 \in Int
  OBVIOUS
<1>2. QED
  BY <1>1 DEF Same, Multiple

LEMMA SameBack ==
  ASSUME NEW m \in Int, NEW a \in Int, NEW b \in Int, Same(a, b, m) PROVE Same(b, a, m)
<1>1. PICK t \in Int : a - b = t * m
  BY DEF Same, Multiple
<1>2. b - a = (-t) * m /\ -t \in Int
  BY <1>1
<1>3. QED
  BY <1>2 DEF Same, Multiple

LEMMA SameChain ==
  ASSUME NEW m \in Int, NEW a \in Int, NEW b \in Int, NEW d \in Int, Same(a, b, m), Same(b, d, m)
  PROVE  Same(a, d, m)
<1>1. Multiple(m, (a - b) + (b - d)) /\ (a - b) + (b - d) = a - d
  BY MultipleSum DEF Same
<1>2. QED
  BY <1>1 DEF Same

LEMMA SameTimes ==
  ASSUME NEW m \in Int, NEW a \in Int, NEW b \in Int, NEW d \in Int, NEW f \in Int,
         Same(a, b, m), Same(d, f, m)
  PROVE  Same(a * d, b * f, m)
<1>1. PICK t \in Int, s \in Int : a - b = t * m /\ d - f = s * m
  BY DEF Same, Multiple
<1>2. a * d - b * f = (a - b) * d + b * (d - f)
  OBVIOUS
<1>3. a * d - b * f = (t * d + b * s) * m /\ t * d + b * s \in Int
  BY <1>1, <1>2
<1>4. QED
  BY <1>3 DEF Same, Multiple

LEMMA SameRemainder ==
  ASSUME NEW m \in Nat, m > 0, NEW a \in Int
  PROVE  Same(a % m, a, m) /\ a % m \in 0..(m - 1)
<1>1. a % m \in 0..(m - 1) /\ a \div m \in Int /\ a = (a \div m) * m + (a % m)
  BY RemainderIs
<1>2. (a % m) - a = (-(a \div m)) * m /\ -(a \div m) \in Int
  BY <1>1
<1>3. QED
  BY <1>1, <1>2 DEF Same, Multiple

LEMMA SameResidue ==
  ASSUME NEW m \in Nat, m > 0, NEW a \in 0..(m - 1), NEW b \in 0..(m - 1), Same(a, b, m)
  PROVE  a = b
<1>1. PICK t \in Int : a - b = t * m
  BY DEF Same, Multiple
<1>2. t >= 1 => t * m >= m
  OBVIOUS
<1>3. t <= -1 => t * m <= -m
  OBVIOUS
<1>4. t = 0 => a = b
  BY <1>1
<1>5. QED
  BY <1>1, <1>2, <1>3, <1>4

LEMMA SameIs ==
  ASSUME NEW m \in Nat, m > 0, NEW a \in Int, NEW b \in Int
  PROVE  Same(a, b, m) <=> a % m = b % m
<1>1. Same(a % m, a, m) /\ a % m \in 0..(m - 1) /\ Same(b % m, b, m) /\ b % m \in 0..(m - 1)
  BY SameRemainder
<1>2. Same(a, a % m, m) /\ Same(b, b % m, m)
  BY <1>1, SameBack
<1>3. ASSUME Same(a, b, m) PROVE a % m = b % m
  <2>1. Same(a % m, b % m, m)
    <3>1. Same(a % m, b, m)
      BY <1>1, <1>3, SameChain
    <3>2. QED
      BY <1>1, <1>2, <3>1, SameChain
  <2>2. QED
    BY <1>1, <2>1, SameResidue
<1>4. ASSUME a % m = b % m PROVE Same(a, b, m)
  BY <1>1, <1>2, <1>4, SameChain
<1>5. QED
  BY <1>3, <1>4

------------------------------------------------------------------------------
(* Common divisors.                                                        *)

LEMMA LeastExists ==
  ASSUME NEW S \in SUBSET Nat, S # {}
  PROVE  \E j \in S : \A i \in S : j <= i
<1> DEFINE Less == OpToRel(<, Nat)
<1>1. \A i, j \in S : <<i, j>> \in Less <=> i < j
  BY DEF OpToRel
<1>2. \A i, j \in S : j <= i <=> ~(i < j)
  OBVIOUS
<1>3. IsWellFoundedOn(Less, Nat)
  BY NatLessThanWellFounded
<1> HIDE DEF Less
<1>4. \E j \in S : \A i \in S : <<i, j>> \notin Less
  BY <1>3, WFMin
<1>5. QED
  BY <1>1, <1>2, <1>4

(* What is a sum of multiples of z and of m.                               *)
Combines(z, m, g) == \E s, t \in Int : g = s * z + t * m

LEMMA CombinesLess ==
  ASSUME NEW z \in Int, NEW m \in Int, NEW g \in Int, NEW h \in Int, NEW a \in Int,
         Combines(z, m, g), Combines(z, m, h)
  PROVE  Combines(z, m, h - a * g)
<1>1. PICK s \in Int, t \in Int : g = s * z + t * m
  BY DEF Combines
<1>2. PICK i \in Int, j \in Int : h = i * z + j * m
  BY DEF Combines
<1>3. h - a * g = (i - a * s) * z + (j - a * t) * m /\ i - a * s \in Int /\ j - a * t \in Int
  BY <1>1, <1>2
<1>4. QED
  BY <1>3 DEF Combines

LEMMA Bezout ==
  ASSUME NEW z \in Int, NEW m \in Nat, m > 0, Coprime(z, m)
  PROVE  Combines(z, m, 1)
<1> DEFINE S == {g \in Nat : g > 0 /\ Combines(z, m, g)}
<1>1. m \in S /\ Combines(z, m, z) /\ Combines(z, m, m)
  <2>1. m = 0 * z + 1 * m /\ z = 1 * z + 0 * m /\ 0 \in Int /\ 1 \in Int
    OBVIOUS
  <2>2. QED
    BY <2>1 DEF Combines
<1>2. PICK g \in S : \A i \in S : g <= i
  <2>1. S \in SUBSET Nat /\ S # {}
    BY <1>1
  <2> HIDE DEF S
  <2>2. QED
    BY <2>1, LeastExists
<1>3. g \in Nat /\ g > 0 /\ Combines(z, m, g) /\ g <= m
  BY <1>1, <1>2
<1>4. ASSUME NEW h \in Int, Combines(z, m, h) PROVE h % g = 0
  <2>1. h % g \in 0..(g - 1) /\ h \div g \in Int /\ h = (h \div g) * g + (h % g)
    BY <1>3, RemainderIs
  <2> DEFINE a == h \div g
  <2>2. Combines(z, m, h - a * g)
    <3>1. a \in Int /\ g \in Int
      BY <1>3, <2>1
    <3> HIDE DEF a
    <3>2. QED
      BY <1>3, <1>4, <3>1, CombinesLess
  <2>3. h - (h \div g) * g = h % g
    BY <1>3, <2>1
  <2>4. h % g # 0 => h % g \in S
    BY <1>3, <2>1, <2>2, <2>3
  <2>5. QED
    BY <1>2, <1>3, <2>1, <2>4
<1>5. z % g = 0 /\ m % g = 0
  BY <1>1, <1>4
<1>6. AbsVal(m) = m
  BY DEF AbsVal
<1>7. g = 1
  <2>1. ~(g >= 2)
    <3>1. g >= 2 => g \in 2..AbsVal(m)
      BY <1>3, <1>6
    <3>2. QED
      BY <1>5, <3>1 DEF Coprime, Divides
  <2>2. QED
    BY <1>3, <2>1
<1>8. QED
  BY <1>3, <1>7

(* A number coprime to m can be cancelled, and has an inverse.             *)
LEMMA Cancels ==
  ASSUME NEW z \in Int, NEW m \in Nat, m > 0, Coprime(z, m), NEW b \in Int, Multiple(m, z * b)
  PROVE  Multiple(m, b)
<1>1. PICK s \in Int, t \in Int : 1 = s * z + t * m
  BY Bezout DEF Combines
<1>2. PICK j \in Int : z * b = j * m
  BY DEF Multiple
<1>3. b = (s * z + t * m) * b
  BY <1>1
<1>4. (s * z + t * m) * b = s * (z * b) + (t * b) * m
  OBVIOUS
<1>5. b = (s * j + t * b) * m /\ s * j + t * b \in Int
  BY <1>2, <1>3, <1>4
<1>6. QED
  BY <1>5 DEF Multiple

LEMMA InverseExists ==
  ASSUME NEW z \in Int, NEW m \in Nat, m > 1, Coprime(z, m)
  PROVE  \E b \in 0..(m - 1) : (z * b) % m = 1
<1>0. m > 0 /\ m \in Int
  OBVIOUS
<1>1. PICK s \in Int, t \in Int : 1 = s * z + t * m
  BY <1>0, Bezout DEF Combines
<1> DEFINE b == s % m
<1>2. Same(b, s, m) /\ b \in 0..(m - 1)
  BY <1>0, SameRemainder
<1> HIDE DEF b
<1>3. Same(z * b, z * s, m)
  BY <1>2, SameItself, SameTimes
<1>4. z * s - 1 = (-t) * m /\ -t \in Int
  BY <1>1
<1>5. Same(z * s, 1, m)
  BY <1>4 DEF Same, Multiple
<1>6. Same(z * b, 1, m)
  BY <1>2, <1>3, <1>5, SameChain
<1>7. (z * b) % m = 1 % m
  <2>1. z * b \in Int /\ 1 \in Int
    BY <1>2
  <2> DEFINE a == z * b
  <2> HIDE DEF a
  <2>2. Same(a, 1, m) /\ a \in Int
    BY <1>6, <2>1 DEF a
  <2>3. a % m = 1 % m
    BY <1>0, <2>2, SameIs
  <2>4. QED
    BY <2>3 DEF a
<1>8. 1 % m = 1
  OBVIOUS
<1>9. QED
  BY <1>2, <1>7, <1>8

LEMMA PrimeIs ==
  ASSUME NEW m \in Nat, IsPrimeNumber(m)
  PROVE  m >= 2 /\ \A d \in 2..(m - 1) : m % d # 0
<1>1. m >= 2 /\ \A d \in 2..(m - 1) : d * d <= m => m % d # 0
  BY DEF IsPrimeNumber, Divides
<1>2. ASSUME NEW d \in 2..(m - 1), m % d = 0 PROVE FALSE
  <2>1. d * d > m
    BY <1>1, <1>2
  <2>2. Multiple(d, m)
    BY <1>2, MultipleIs
  <2>3. PICK t \in Int : m = t * d
    BY <2>2 DEF Multiple
  <2>4. t >= 2
    <3>1. t <= 0 => t * d <= 0
      OBVIOUS
    <3>2. t = 1 => t * d = d
      OBVIOUS
    <3>3. QED
      BY <1>1, <2>3, <3>1, <3>2
  <2>5. t < d
    <3>1. t >= d => t * d >= d * d
      OBVIOUS
    <3>2. QED
      BY <2>1, <2>3, <3>1
  <2>6. t * t <= m
    <3>1. t * t <= t * d
      BY <2>4, <2>5
    <3>2. QED
      BY <2>3, <3>1
  <2>7. m % t = 0
    <3>1. m = d * t /\ d \in Int /\ t \in Nat /\ t > 0
      BY <2>3, <2>4
    <3>2. Multiple(t, m)
      BY <3>1 DEF Multiple
    <3>3. QED
      BY <3>1, <3>2, MultipleIs
  <2>8. t \in 2..(m - 1)
    BY <2>4, <2>5
  <2>9. QED
    BY <1>1, <2>6, <2>7, <2>8
<1>3. QED
  BY <1>1, <1>2

LEMMA PrimeCoprime ==
  ASSUME NEW m \in Nat, IsPrimeNumber(m), NEW z \in Int, ~Multiple(m, z)
  PROVE  Coprime(z, m)
<1>1. m >= 2 /\ \A d \in 2..(m - 1) : m % d # 0
  BY PrimeIs
<1>2. AbsVal(m) = m
  BY DEF AbsVal
<1>3. z % m # 0
  BY <1>1, MultipleIs
<1>4. \A d \in 2..m : d \in 2..(m - 1) \/ d = m
  BY <1>1
<1>5. QED
  BY <1>1, <1>2, <1>3, <1>4 DEF Coprime, Divides

LEMMA PrimeDivides ==
  ASSUME NEW m \in Nat, IsPrimeNumber(m), NEW a \in Int, NEW b \in Int, Multiple(m, a * b)
  PROVE  Multiple(m, a) \/ Multiple(m, b)
<1>1. m > 0
  BY PrimeIs
<1>2. QED
  BY <1>1, PrimeCoprime, Cancels

------------------------------------------------------------------------------
(* Products and powers.                                                    *)

Multiplies(f, n, u) ==
  u \in [0..n -> Int] /\ u[0] = 1 /\ \A k \in 1..n : u[k] = u[k - 1] * f[k]
Product(f, n) == (CHOOSE u : Multiplies(f, n, u))[n]
Constantly(a) == [k \in Nat |-> a]
Power(a, n) == Product(Constantly(a), n)
Integers(f, n) == \A k \in 1..n : f[k] \in Int

LEMMA MultipliesExists ==
  ASSUME NEW n \in Nat, NEW f, Integers(f, n)
  PROVE  \E u : Multiplies(f, n, u)
<1> DEFINE before == [k \in 1..n |-> k - 1]
           turn == [k \in 1..n |-> [a \in Int |-> a * f[k]]]
<1>1. before \in [1..n -> Nat] /\ \A k \in 1..n : before[k] < k /\ before[k] = k - 1
  OBVIOUS
<1>2. turn \in [1..n -> [Int -> Int]] /\ \A k \in 1..n, a \in Int : turn[k][a] = a * f[k]
  BY DEF Integers
<1> HIDE DEF before, turn
<1>3. Walkable(n, Int, 1, before, turn)
  <2>1. 1 \in Int
    OBVIOUS
  <2>2. QED
    BY <1>1, <1>2, <2>1, RecursionExists
<1>4. PICK u \in [0..n -> Int] : u[0] = 1 /\ \A k \in 1..n : u[k] = turn[k][u[before[k]]]
  BY <1>3 DEF Walkable, Walk
<1>5. ASSUME NEW k \in 1..n PROVE u[k] = u[k - 1] * f[k]
  <2>1. before[k] = k - 1 /\ k - 1 \in 0..n
    BY <1>1
  <2>2. u[k - 1] \in Int
    BY <2>1
  <2>3. QED
    BY <1>2, <1>4, <2>1, <2>2
<1>6. Multiplies(f, n, u)
  BY <1>4, <1>5 DEF Multiplies
<1>7. QED
  BY <1>6

LEMMA MultipliesOnce ==
  ASSUME NEW n \in Nat, NEW j \in 0..n, NEW f, NEW u, NEW w,
         Multiplies(f, n, u), Multiplies(f, j, w)
  PROVE  u[j] = w[j]
<1> DEFINE S == {i \in Nat : i <= j => u[i] = w[i]}
<1>1. 0 \in S
  BY DEF Multiplies
<1>2. ASSUME NEW i \in 0..(j - 1), i \in S PROVE i + 1 \in S
  <2>1. i \in Nat /\ i + 1 \in 1..n /\ i + 1 \in 1..j /\ (i + 1) - 1 = i
    OBVIOUS
  <2>2. u[i] = w[i]
    BY <1>2
  <2>3. u[i + 1] = u[i] * f[i + 1] /\ w[i + 1] = w[i] * f[i + 1]
    BY <2>1 DEF Multiplies
  <2>4. QED
    BY <2>1, <2>2, <2>3
<1> HIDE DEF S
<1>3. \A i \in 0..j : i \in S
  BY <1>1, <1>2, UpTo
<1>4. j \in S
  BY <1>3
<1>5. QED
  BY <1>4 DEF S

LEMMA ProductIs ==
  ASSUME NEW n \in Nat, NEW f, Integers(f, n)
  PROVE  /\ Product(f, n) \in Int
         /\ Product(f, 0) = 1
         /\ n > 0 => Product(f, n - 1) \in Int /\ Product(f, n) = Product(f, n - 1) * f[n]
<1> DEFINE u == CHOOSE u : Multiplies(f, n, u)
<1>1. Multiplies(f, n, u)
  BY MultipliesExists
<1>2. Product(f, n) = u[n]
  BY DEF Product
<1> HIDE DEF u
<1>3. ASSUME NEW j \in 0..n PROVE Product(f, j) = u[j]
  <2>1. Integers(f, j)
    BY DEF Integers
  <2>2. Multiplies(f, j, CHOOSE w : Multiplies(f, j, w))
    BY <2>1, MultipliesExists
  <2>3. QED
    BY <1>1, <2>2, MultipliesOnce DEF Product
<1>4. u \in [0..n -> Int] /\ u[0] = 1 /\ \A k \in 1..n : u[k] = u[k - 1] * f[k]
  BY <1>1 DEF Multiplies
<1>5. 0 \in 0..n /\ n \in 0..n /\ (n > 0 => n - 1 \in 0..n /\ n \in 1..n)
  OBVIOUS
<1>6. QED
  BY <1>3, <1>4, <1>5

(* Only the entries matter.                                                *)
LEMMA ProductSame ==
  ASSUME NEW n \in Nat, NEW f, NEW g, \A k \in 1..n : f[k] = g[k]
  PROVE  Product(f, n) = Product(g, n)
<1>1. \A u : Multiplies(f, n, u) <=> Multiplies(g, n, u)
  BY DEF Multiplies
<1>2. QED
  BY <1>1 DEF Product

LEMMA PowerIs ==
  ASSUME NEW a \in Int, NEW n \in Nat
  PROVE  Power(a, n) \in Int /\ Power(a, 0) = 1 /\ Power(a, n + 1) = Power(a, n) * a
<1>1. Integers(Constantly(a), n + 1) /\ Constantly(a)[n + 1] = a
  BY DEF Integers, Constantly
<1>2. /\ Product(Constantly(a), 0) = 1
      /\ Product(Constantly(a), (n + 1) - 1) \in Int
      /\ Product(Constantly(a), n + 1) = Product(Constantly(a), (n + 1) - 1) * Constantly(a)[n + 1]
  BY <1>1, n + 1 \in Nat, n + 1 > 0, ProductIs
<1>3. (n + 1) - 1 = n
  OBVIOUS
<1>4. QED
  BY <1>1, <1>2, <1>3 DEF Power

LEMMA PowerSum ==
  ASSUME NEW a \in Int, NEW i \in Nat, NEW j \in Nat
  PROVE  Power(a, i + j) = Power(a, i) * Power(a, j)
<1> DEFINE S == {l \in Nat : Power(a, i + l) = Power(a, i) * Power(a, l)}
<1>1. 0 \in S
  <2>1. Power(a, i) \in Int /\ Power(a, 0) = 1 /\ i + 0 = i
    BY PowerIs
  <2>2. QED
    BY <2>1
<1>2. ASSUME NEW l \in 0..(j - 1), l \in S PROVE l + 1 \in S
  <2>1. l \in Nat /\ Power(a, i + l) = Power(a, i) * Power(a, l)
    BY <1>2
  <2>2. Power(a, i) \in Int /\ Power(a, l) \in Int /\ Power(a, l + 1) = Power(a, l) * a
    BY <2>1, PowerIs
  <2>3. Power(a, (i + l) + 1) = Power(a, i + l) * a /\ (i + l) + 1 = i + (l + 1)
    BY <2>1, PowerIs
  <2>4. (Power(a, i) * Power(a, l)) * a = Power(a, i) * (Power(a, l) * a)
    BY <2>2
  <2>5. QED
    BY <2>1, <2>2, <2>3, <2>4
<1> HIDE DEF S
<1>3. j \in S
  <2>1. \A l \in 0..j : l \in S
    BY <1>1, <1>2, UpTo
  <2>2. QED
    BY <2>1
<1>4. QED
  BY <1>3 DEF S

LEMMA PowerOfProduct ==
  ASSUME NEW a \in Int, NEW b \in Int, NEW j \in Nat
  PROVE  Power(a * b, j) = Power(a, j) * Power(b, j)
<1> DEFINE d == a * b
<1>0. d \in Int /\ d = a * b
  OBVIOUS
<1> HIDE DEF d
<1> DEFINE S == {l \in Nat : Power(d, l) = Power(a, l) * Power(b, l)}
<1>1. 0 \in S
  BY <1>0, PowerIs
<1>2. ASSUME NEW l \in 0..(j - 1), l \in S PROVE l + 1 \in S
  <2>1. l \in Nat /\ Power(d, l) = Power(a, l) * Power(b, l)
    BY <1>2
  <2>2. /\ Power(a, l) \in Int /\ Power(a, l + 1) = Power(a, l) * a
        /\ Power(b, l) \in Int /\ Power(b, l + 1) = Power(b, l) * b
        /\ Power(d, l + 1) = Power(d, l) * d
    BY <1>0, <2>1, PowerIs
  <2>3. (Power(a, l) * Power(b, l)) * (a * b) = (Power(a, l) * a) * (Power(b, l) * b)
    BY <2>2
  <2>4. QED
    BY <1>0, <2>1, <2>2, <2>3
<1> HIDE DEF S
<1>3. j \in S
  <2>1. \A l \in 0..j : l \in S
    BY <1>1, <1>2, UpTo
  <2>2. QED
    BY <2>1
<1>4. QED
  BY <1>3 DEF S, d

LEMMA PowerOfPower ==
  ASSUME NEW a \in Int, NEW i \in Nat, NEW j \in Nat
  PROVE  Power(Power(a, i), j) = Power(a, i * j)
<1> DEFINE d == Power(a, i)
<1>0. d \in Int
  BY PowerIs
<1> HIDE DEF d
<1> DEFINE S == {l \in Nat : Power(d, l) = Power(a, i * l)}
<1>1. 0 \in S
  <2>1. i * 0 = 0
    OBVIOUS
  <2>2. QED
    BY <1>0, <2>1, PowerIs
<1>2. ASSUME NEW l \in 0..(j - 1), l \in S PROVE l + 1 \in S
  <2>1. l \in Nat /\ Power(d, l) = Power(a, i * l)
    BY <1>2
  <2>2. Power(d, l + 1) = Power(d, l) * d
    BY <1>0, <2>1, PowerIs
  <2>3. i * l \in Nat /\ i * (l + 1) = (i * l) + i
    BY <2>1
  <2> DEFINE h == i * l
  <2> HIDE DEF h
  <2>4. Power(a, h + i) = Power(a, h) * Power(a, i)
    BY <2>3, PowerSum DEF h
  <2>5. QED
    BY <2>1, <2>2, <2>3, <2>4 DEF d, h
<1> HIDE DEF S
<1>3. j \in S
  <2>1. \A l \in 0..j : l \in S
    BY <1>1, <1>2, UpTo
  <2>2. QED
    BY <2>1
<1>4. QED
  BY <1>3 DEF S, d

LEMMA PowerSame ==
  ASSUME NEW m \in Int, NEW a \in Int, NEW b \in Int, Same(a, b, m), NEW j \in Nat
  PROVE  Same(Power(a, j), Power(b, j), m)
<1> DEFINE S == {l \in Nat : Same(Power(a, l), Power(b, l), m)}
<1>1. 0 \in S
  BY PowerIs, SameItself
<1>2. ASSUME NEW l \in 0..(j - 1), l \in S PROVE l + 1 \in S
  <2>1. l \in Nat /\ Same(Power(a, l), Power(b, l), m)
    BY <1>2
  <2>2. /\ Power(a, l) \in Int /\ Power(a, l + 1) = Power(a, l) * a
        /\ Power(b, l) \in Int /\ Power(b, l + 1) = Power(b, l) * b
    BY <2>1, PowerIs
  <2>3. Same(Power(a, l) * a, Power(b, l) * b, m)
    BY <2>1, <2>2, SameTimes
  <2>4. QED
    BY <2>1, <2>2, <2>3
<1> HIDE DEF S
<1>3. j \in S
  <2>1. \A l \in 0..j : l \in S
    BY <1>1, <1>2, UpTo
  <2>2. QED
    BY <2>1
<1>4. QED
  BY <1>3 DEF S

(* What mpz_powm computes is a power.                                      *)
LEMMA PowModSame ==
  ASSUME NEW a \in Int, NEW e \in Nat, NEW m \in Nat, m > 0
  PROVE  Same(PowMod(a, e, m), Power(a, e), m)
<1>1. PICK u : Halves(a, e, m, u) /\ PowMod(a, e, m) = u[e]
  BY PowModHalves
<1>2. /\ u \in [0..e -> 0..(m - 1)]
      /\ u[0] = 1 % m
      /\ \A k \in 1..e :
           u[k] = IF k % 2 = 0 THEN (u[k \div 2] * u[k \div 2]) % m
                  ELSE (((u[k \div 2] * u[k \div 2]) % m) * (a % m)) % m
  BY <1>1 DEF Halves
<1> DEFINE S == {l \in Nat : l <= e => \A k \in 0..l : Same(u[k], Power(a, k), m)}
<1>3. 0 \in S
  <2>1. Same(1 % m, 1, m) /\ Power(a, 0) = 1
    BY SameRemainder, PowerIs
  <2>2. QED
    BY <1>2, <2>1
<1>4. ASSUME NEW l \in 0..(e - 1), l \in S PROVE l + 1 \in S
  <2> DEFINE k == l + 1
             h == k \div 2
  <2>1. l \in Nat /\ k \in 1..e /\ h \in 0..l /\ h \in 0..e /\ k \in Nat
        /\ (k % 2 = 0 => k = h + h) /\ (k % 2 # 0 => k = (h + h) + 1)
    BY <1>4
  <2>2. Same(u[h], Power(a, h), m) /\ u[h] \in Int /\ Power(a, h) \in Int
    <3>1. l <= e /\ \A i \in 0..l : Same(u[i], Power(a, i), m)
      BY <1>4, <2>1
    <3>2. u[h] \in Int /\ h \in Nat
      BY <1>2, <2>1
    <3> HIDE DEF h
    <3>3. QED
      BY <2>1, <3>1, <3>2, PowerIs
  <2>3. u[k] = IF k % 2 = 0 THEN (u[h] * u[h]) % m ELSE (((u[h] * u[h]) % m) * (a % m)) % m
    BY <1>2, <2>1
  <2> DEFINE sq == (u[h] * u[h]) % m
  <2>4. Same(sq, Power(a, h + h), m) /\ sq \in Int /\ Power(a, h + h) \in Int
    <3>1. Same(u[h] * u[h], Power(a, h) * Power(a, h), m)
      BY <2>2, SameTimes
    <3>2. Power(a, h + h) = Power(a, h) * Power(a, h)
      BY <2>1, PowerSum
    <3>3. u[h] * u[h] \in Int /\ Power(a, h) * Power(a, h) \in Int
      BY <2>2
    <3>4. Same(sq, u[h] * u[h], m) /\ sq \in Int
      BY <3>3, SameRemainder
    <3>5. QED
      BY <3>1, <3>2, <3>3, <3>4, SameChain
  <2>5. Same(u[k], Power(a, k), m)
    <3>1. CASE k % 2 = 0
      BY <2>1, <2>3, <2>4, <3>1
    <3>2. CASE k % 2 # 0
      <4>1. Same(a % m, a, m) /\ a % m \in Int
        BY SameRemainder
      <4>2. Same(sq * (a % m), Power(a, h + h) * a, m)
        BY <2>4, <4>1, SameTimes
      <4>3. Power(a, (h + h) + 1) = Power(a, h + h) * a
        BY <2>1, h + h \in Nat, PowerIs
      <4>4. sq * (a % m) \in Int /\ Power(a, h + h) * a \in Int
        BY <2>4, <4>1
      <4> DEFINE z == sq * (a % m)
      <4>5. Same(z % m, z, m) /\ z % m \in Int
        <5> HIDE DEF z
        <5>1. z \in Int
          BY <4>4 DEF z
        <5>2. QED
          BY <5>1, SameRemainder
      <4>6. Same(z % m, Power(a, h + h) * a, m)
        BY <4>2, <4>4, <4>5, SameChain
      <4>7. u[k] = z % m
        BY <2>3, <3>2
      <4>8. QED
        BY <2>1, <3>2, <4>3, <4>6, <4>7
    <3>3. QED
      BY <3>1, <3>2
  <2> HIDE DEF h, sq
  <2>6. \A i \in 0..k : i \in 0..l \/ i = k
    BY <2>1
  <2>7. QED
    BY <1>4, <2>1, <2>5, <2>6
<1> HIDE DEF S
<1>5. e \in S
  <2>1. \A l \in 0..e : l \in S
    BY <1>3, <1>4, UpTo
  <2>2. QED
    BY <2>1
<1>6. QED
  BY <1>1, <1>5 DEF S

(* Congruent entries, congruent products; no entry a multiple of a prime,  *)
(* nor the product.                                                        *)
LEMMA ProductCongruent ==
  ASSUME NEW m \in Int, NEW n \in Nat, NEW f, NEW g, Integers(f, n), Integers(g, n),
         \A k \in 1..n : Same(f[k], g[k], m)
  PROVE  Same(Product(f, n), Product(g, n), m)
<1> DEFINE S == {l \in Nat : l <= n => Same(Product(f, l), Product(g, l), m)}
<1>1. 0 \in S
  BY ProductIs, SameItself
<1>2. ASSUME NEW l \in 0..(n - 1), l \in S PROVE l + 1 \in S
  <2>1. /\ l \in Nat /\ l + 1 \in Nat /\ l + 1 > 0 /\ l + 1 \in 1..n /\ (l + 1) - 1 = l
        /\ Integers(f, l + 1) /\ Integers(g, l + 1)
    BY DEF Integers
  <2>2. Same(Product(f, l), Product(g, l), m) /\ Same(f[l + 1], g[l + 1], m)
    BY <1>2, <2>1
  <2>3. /\ Product(f, l) \in Int /\ Product(f, l + 1) = Product(f, l) * f[l + 1]
        /\ Product(g, l) \in Int /\ Product(g, l + 1) = Product(g, l) * g[l + 1]
        /\ f[l + 1] \in Int /\ g[l + 1] \in Int
    <3>1. f[l + 1] \in Int /\ g[l + 1] \in Int
      BY <2>1 DEF Integers
    <3>2. QED
      BY <2>1, <3>1, ProductIs
  <2>4. Same(Product(f, l) * f[l + 1], Product(g, l) * g[l + 1], m)
    BY <2>2, <2>3, SameTimes
  <2>5. QED
    BY <2>1, <2>3, <2>4
<1> HIDE DEF S
<1>3. n \in S
  <2>1. \A l \in 0..n : l \in S
    BY <1>1, <1>2, UpTo
  <2>2. QED
    BY <2>1
<1>4. QED
  BY <1>3 DEF S

LEMMA ProductNoMultiple ==
  ASSUME NEW m \in Nat, IsPrimeNumber(m), NEW n \in Nat, NEW f, Integers(f, n),
         \A k \in 1..n : ~Multiple(m, f[k])
  PROVE  ~Multiple(m, Product(f, n))
<1> DEFINE S == {l \in Nat : l <= n => ~Multiple(m, Product(f, l))}
<1>1. 0 \in S
  <2>1. m >= 2
    BY PrimeIs
  <2>2. 1 % m = 1 /\ m > 0
    BY <2>1
  <2>3. ~Multiple(m, 1)
    BY <2>2, MultipleIs
  <2>4. QED
    BY <2>3, ProductIs
<1>2. ASSUME NEW l \in 0..(n - 1), l \in S PROVE l + 1 \in S
  <2>1. /\ l \in Nat /\ l + 1 \in Nat /\ l + 1 > 0 /\ l + 1 \in 1..n /\ (l + 1) - 1 = l
        /\ Integers(f, l + 1)
    BY DEF Integers
  <2>2. ~Multiple(m, Product(f, l)) /\ ~Multiple(m, f[l + 1])
    BY <1>2, <2>1
  <2>3. f[l + 1] \in Int
    BY <2>1 DEF Integers
  <2>4. Product(f, l) \in Int /\ Product(f, l + 1) = Product(f, l) * f[l + 1]
    BY <2>1, ProductIs
  <2>5. ~Multiple(m, Product(f, l) * f[l + 1])
    BY <2>2, <2>3, <2>4, PrimeDivides
  <2>6. QED
    BY <2>1, <2>4, <2>5
<1> HIDE DEF S
<1>3. n \in S
  <2>1. \A l \in 0..n : l \in S
    BY <1>1, <1>2, UpTo
  <2>2. QED
    BY <2>1
<1>4. QED
  BY <1>3 DEF S

------------------------------------------------------------------------------
(* A product in another order.                                             *)

LEMMA ProductExchange ==
  ASSUME NEW n \in Nat, NEW f, NEW g, Integers(f, n), Integers(g, n), NEW z \in 1..n,
         \A k \in 1..n : k # z => f[k] = g[k]
  PROVE  Product(f, n) * g[z] = Product(g, n) * f[z]
<1> DEFINE Holds(l) == IF l < z THEN Product(f, l) = Product(g, l)
                       ELSE Product(f, l) * g[z] = Product(g, l) * f[z]
           S == {l \in Nat : l <= n => Holds(l)}
<1>1. 0 \in S
  BY ProductIs
<1>0. f[z] \in Int /\ g[z] \in Int /\ z \in Nat
  BY DEF Integers
<1>2. ASSUME NEW l \in 0..(n - 1), l \in S PROVE l + 1 \in S
  <2>1. /\ l \in Nat /\ l + 1 \in Nat /\ l + 1 > 0 /\ l + 1 \in 1..n /\ (l + 1) - 1 = l
        /\ Integers(f, l + 1) /\ Integers(g, l + 1)
    BY DEF Integers
  <2>2. Holds(l)
    BY <1>2, <2>1
  <2>3. f[l + 1] \in Int /\ g[l + 1] \in Int
    BY <2>1 DEF Integers
  <2>4. /\ Product(f, l) \in Int /\ Product(f, l + 1) = Product(f, l) * f[l + 1]
        /\ Product(g, l) \in Int /\ Product(g, l + 1) = Product(g, l) * g[l + 1]
    BY <2>1, ProductIs
  <2>5. CASE l + 1 < z
    <3>1. l < z /\ f[l + 1] = g[l + 1]
      BY <1>0, <2>1, <2>5
    <3>2. QED
      BY <2>1, <2>2, <2>4, <2>5, <3>1
  <2>6. CASE l + 1 = z
    <3>1. Product(f, l) = Product(g, l)
      BY <1>0, <2>1, <2>2, <2>6
    <3>2. (Product(f, l) * f[z]) * g[z] = (Product(f, l) * g[z]) * f[z]
      BY <1>0, <2>4
    <3>3. Product(f, l + 1) * g[z] = Product(g, l + 1) * f[z]
      BY <2>4, <2>6, <3>1, <3>2
    <3>4. QED
      BY <1>0, <2>1, <2>6, <3>3
  <2>7. CASE l + 1 > z
    <3>1. ~(l < z) /\ f[l + 1] = g[l + 1] /\ ~(l + 1 < z)
      BY <1>0, <2>1, <2>7
    <3>2. Product(f, l) * g[z] = Product(g, l) * f[z]
      BY <2>2, <3>1
    <3>3. (Product(f, l) * f[l + 1]) * g[z] = (Product(f, l) * g[z]) * f[l + 1]
      BY <1>0, <2>3, <2>4
    <3>4. (Product(g, l) * f[l + 1]) * f[z] = (Product(g, l) * f[z]) * f[l + 1]
      BY <1>0, <2>3, <2>4
    <3>5. Product(f, l + 1) * g[z] = Product(g, l + 1) * f[z]
      BY <2>4, <3>1, <3>2, <3>3, <3>4
    <3>6. QED
      BY <2>1, <3>1, <3>5
  <2>8. QED
    BY <1>0, <2>1, <2>5, <2>6, <2>7
<1> HIDE DEF S
<1>3. n \in S
  <2>1. \A l \in 0..n : l \in S
    BY <1>1, <1>2, UpTo
  <2>2. QED
    BY <2>1
<1>4. ~(n < z)
  BY <1>0
<1>5. QED
  BY <1>3, <1>4 DEF S

Permutes(g, n) ==
  /\ g \in [1..n -> 1..n]
  /\ \A i, j \in 1..n : g[i] = g[j] => i = j
  /\ \A j \in 1..n : \E i \in 1..n : g[i] = j
Along(f, g) == [k \in DOMAIN g |-> f[g[k]]]

(* One less: what is sent to the last place goes where the last went.      *)
LEMMA PermutesLess ==
  ASSUME NEW n \in Nat, NEW g, Permutes(g, n + 1), NEW z \in 1..(n + 1), g[z] = n + 1
  PROVE  Permutes([k \in 1..n |-> IF k = z THEN g[n + 1] ELSE g[k]], n)
<1> DEFINE h == [k \in 1..n |-> IF k = z THEN g[n + 1] ELSE g[k]]
<1>1. /\ g \in [1..(n + 1) -> 1..(n + 1)]
      /\ \A i, j \in 1..(n + 1) : g[i] = g[j] => i = j
      /\ \A j \in 1..(n + 1) : \E i \in 1..(n + 1) : g[i] = j
  BY DEF Permutes
<1>2. n + 1 \in 1..(n + 1) /\ \A k \in 1..n : k \in 1..(n + 1) /\ k # n + 1
  OBVIOUS
<1>3. ASSUME NEW k \in 1..n PROVE h[k] \in 1..n
  <2>1. h[k] = IF k = z THEN g[n + 1] ELSE g[k]
    OBVIOUS
  <2>2. h[k] \in 1..(n + 1) /\ h[k] # n + 1
    <3>1. CASE k = z
      <4>1. h[k] = g[n + 1] /\ z # n + 1
        BY <1>2, <2>1, <3>1
      <4>2. QED
        BY <1>1, <1>2, <4>1
    <3>2. CASE k # z
      BY <1>1, <1>2, <2>1, <3>2
    <3>3. QED
      BY <3>1, <3>2
  <2>3. QED
    BY <2>2
<1>4. ASSUME NEW i \in 1..n, NEW j \in 1..n, h[i] = h[j] PROVE i = j
  <2>1. /\ h[i] = (IF i = z THEN g[n + 1] ELSE g[i])
        /\ h[j] = (IF j = z THEN g[n + 1] ELSE g[j])
    OBVIOUS
  <2>2. QED
    BY <1>1, <1>2, <1>4, <2>1
<1>5. ASSUME NEW j \in 1..n PROVE \E i \in 1..n : h[i] = j
  <2>1. PICK i \in 1..(n + 1) : g[i] = j
    BY <1>1, <1>2
  <2>2. i # z
    BY <1>2, <2>1
  <2>3. CASE i \in 1..n
    BY <2>1, <2>2, <2>3
  <2>4. CASE i = n + 1
    <3>1. z \in 1..n
      BY <2>2, <2>4
    <3>2. h[z] = j
      BY <2>1, <2>4, <3>1
    <3>3. QED
      BY <3>1, <3>2
  <2>5. QED
    BY <2>3, <2>4
<1>6. h \in [1..n -> 1..n]
  BY <1>3
<1> HIDE DEF h
<1>7. Permutes(h, n)
  BY <1>4, <1>5, <1>6 DEF Permutes
<1>8. QED
  BY <1>7 DEF h

LEMMA ProductPermuted ==
  ASSUME NEW n \in Nat, NEW f, Integers(f, n), NEW g, Permutes(g, n)
  PROVE  Product(Along(f, g), n) = Product(f, n)
<1> DEFINE Holds(l) == \A u : Permutes(u, l) => Product(Along(f, u), l) = Product(f, l)
           S == {l \in Nat : l <= n => Holds(l)}
<1>1. 0 \in S
  <2>1. \A u : Product(u, 0) = 1
    <3>1. \A u : Integers(u, 0)
      BY DEF Integers
    <3>2. QED
      BY <3>1, ProductIs
  <2>2. QED
    BY <2>1
<1>2. ASSUME NEW l \in 0..(n - 1), l \in S PROVE l + 1 \in S
  <2>1. l \in Nat /\ l + 1 \in 1..n /\ l + 1 > 0 /\ (l + 1) - 1 = l /\ Holds(l)
    BY <1>2
  <2>2. ASSUME NEW u, Permutes(u, l + 1) PROVE Product(Along(f, u), l + 1) = Product(f, l + 1)
    <3>1. /\ u \in [1..(l + 1) -> 1..(l + 1)] /\ l + 1 \in 1..(l + 1)
          /\ \A i \in 1..l : i \in 1..(l + 1) /\ i \in 1..n
      <4>1. u \in [1..(l + 1) -> 1..(l + 1)]
        BY <2>2 DEF Permutes
      <4>2. l + 1 \in 1..(l + 1) /\ \A i \in 1..l : i \in 1..(l + 1) /\ i \in 1..n
        BY <2>1
      <4>3. QED
        BY <4>1, <4>2
    <3>2. PICK z \in 1..(l + 1) : u[z] = l + 1
      BY <2>2, <3>1 DEF Permutes
    <3> DEFINE h == [k \in 1..l |-> IF k = z THEN u[l + 1] ELSE u[k]]
               A == Along(f, u)
               B == Along(f, h)
    <3>3. Permutes(h, l)
      BY <2>1, <2>2, <3>2, PermutesLess
    <3>4. Product(B, l) = Product(f, l)
      <4> HIDE DEF h
      <4>1. QED
        BY <2>1, <3>3
    <3>5. \A k \in 1..(l + 1) : A[k] = f[u[k]]
      BY <3>1 DEF Along
    <3>6. \A k \in 1..l : B[k] = IF k = z THEN f[u[l + 1]] ELSE f[u[k]]
      BY DEF Along
    <3> HIDE DEF h, A, B
    <3>7. \A i \in 1..(l + 1) : i \in 1..n /\ f[i] \in Int
      BY <2>1, <3>1 DEF Integers
    <3>8. Integers(A, l + 1) /\ Integers(f, l + 1)
      BY <3>1, <3>5, <3>7 DEF Integers
    <3>9. Integers(A, l) /\ Integers(B, l)
      BY <3>1, <3>5, <3>6, <3>7 DEF Integers
    <3>10. /\ Product(A, l) \in Int /\ Product(A, l + 1) = Product(A, l) * A[l + 1]
           /\ Product(f, l) \in Int /\ Product(f, l + 1) = Product(f, l) * f[l + 1]
      BY <2>1, <3>8, ProductIs
    <3>11. CASE z = l + 1
      <4>1. \A k \in 1..l : A[k] = B[k]
        BY <2>1, <3>1, <3>5, <3>6, <3>11
      <4>2. Product(A, l) = Product(B, l)
        BY <2>1, <4>1, ProductSame
      <4>3. A[l + 1] = f[l + 1]
        BY <3>1, <3>2, <3>5, <3>11
      <4>4. QED
        BY <3>4, <3>10, <4>2, <4>3 DEF A
    <3>12. CASE z # l + 1
      <4>1. z \in 1..l
        BY <2>1, <3>12
      <4>2. \A k \in 1..l : k # z => B[k] = A[k]
        BY <3>1, <3>5, <3>6
      <4>3. Product(B, l) * A[z] = Product(A, l) * B[z]
        BY <2>1, <3>9, <4>1, <4>2, ProductExchange
      <4>4. A[z] = f[l + 1] /\ B[z] = A[l + 1]
        BY <3>1, <3>2, <3>5, <3>6, <4>1
      <4>5. QED
        BY <3>4, <3>10, <4>3, <4>4 DEF A
    <3>13. QED
      BY <3>11, <3>12
  <2>3. QED
    BY <2>1, <2>2
<1> HIDE DEF S
<1>3. n \in S
  <2>1. \A l \in 0..n : l \in S
    BY <1>1, <1>2, UpTo
  <2>2. QED
    BY <2>1
<1>4. QED
  BY <1>3 DEF S

(* Every entry times a: the product times a power of a.                    *)
LEMMA ProductScaled ==
  ASSUME NEW n \in Nat, NEW f, Integers(f, n), NEW a \in Int
  PROVE  Product([k \in 1..n |-> a * f[k]], n) = Power(a, n) * Product(f, n)
<1> DEFINE g == [k \in 1..n |-> a * f[k]]
           S == {l \in Nat : l <= n => Product(g, l) = Power(a, l) * Product(f, l)}
<1>0. \A k \in 1..n : f[k] \in Int /\ g[k] \in Int /\ g[k] = a * f[k]
  BY DEF Integers
<1> HIDE DEF g
<1>1. 0 \in S
  <2>1. Product(g, 0) = 1 /\ Product(f, 0) = 1
    <3>1. Integers(g, 0) /\ Integers(f, 0)
      BY DEF Integers
    <3>2. QED
      BY <3>1, ProductIs
  <2>2. QED
    BY <2>1, PowerIs
<1>2. ASSUME NEW l \in 0..(n - 1), l \in S PROVE l + 1 \in S
  <2>1. /\ l \in Nat /\ l + 1 \in Nat /\ l + 1 > 0 /\ l + 1 \in 1..n /\ (l + 1) - 1 = l
        /\ Integers(f, l + 1) /\ Integers(g, l + 1)
    BY <1>0 DEF Integers
  <2>2. Product(g, l) = Power(a, l) * Product(f, l)
    BY <1>2, <2>1
  <2>3. f[l + 1] \in Int /\ g[l + 1] = a * f[l + 1]
    BY <1>0, <2>1
  <2>4. /\ Product(f, l) \in Int /\ Product(f, l + 1) = Product(f, l) * f[l + 1]
        /\ Product(g, l + 1) = Product(g, l) * g[l + 1]
        /\ Power(a, l) \in Int /\ Power(a, l + 1) = Power(a, l) * a
    <3>1. Power(a, l) \in Int /\ Power(a, l + 1) = Power(a, l) * a
      BY <2>1, PowerIs
    <3>2. QED
      BY <2>1, <3>1, ProductIs
  <2>5. (Power(a, l) * Product(f, l)) * (a * f[l + 1])
          = (Power(a, l) * a) * (Product(f, l) * f[l + 1])
    BY <2>3, <2>4
  <2>6. QED
    BY <2>1, <2>2, <2>3, <2>4, <2>5
<1> HIDE DEF S
<1>3. n \in S
  <2>1. \A l \in 0..n : l \in S
    BY <1>1, <1>2, UpTo
  <2>2. QED
    BY <2>1
<1>4. QED
  BY <1>3 DEF S, g

------------------------------------------------------------------------------
(* Fermat: a power of a prime less one, of what is no multiple of it.      *)

Identity == [k \in Nat |-> k]
Scaled(a, m) == [k \in 1..(m - 1) |-> (a * k) % m]

LEMMA ScaledPermutes ==
  ASSUME NEW m \in Nat, m > 1, NEW a \in Int, Coprime(a, m)
  PROVE  Permutes(Scaled(a, m), m - 1)
<1> DEFINE n == m - 1
           g == Scaled(a, m)
<1>1. m > 0 /\ m \in Int /\ n \in Nat /\ 0..(m - 1) = 0..n
  OBVIOUS
<1>2. ASSUME NEW k \in Int PROVE (a * k) % m \in 0..n /\ Same((a * k) % m, a * k, m)
  <2>1. a * k \in Int
    OBVIOUS
  <2> DEFINE z == a * k
  <2> HIDE DEF z
  <2>2. z % m \in 0..(m - 1) /\ Same(z % m, z, m)
    BY <1>1, <2>1, SameRemainder DEF z
  <2>3. QED
    BY <1>1, <2>2 DEF z
<1>3. ASSUME NEW k \in 1..n PROVE ~Multiple(m, k)
  <2>1. k \in 0..(m - 1) /\ k # 0 /\ k \in Int
    BY <1>1
  <2>2. k % m = k
    BY <2>1
  <2>3. QED
    BY <1>1, <2>1, <2>2, MultipleIs
<1>4. ASSUME NEW k \in 1..n PROVE ~Multiple(m, a * k)
  BY <1>1, <1>3, <1>4, Cancels
<1>5. \A k \in 1..n : g[k] = (a * k) % m
  BY DEF Scaled
<1>6. ASSUME NEW k \in 1..n PROVE g[k] \in 1..n
  <2>1. a * k \in Int
    OBVIOUS
  <2>2. (a * k) % m # 0
    <3> DEFINE z == a * k
    <3> HIDE DEF z
    <3>1. z \in Int /\ ~Multiple(m, z)
      BY <1>4, <2>1 DEF z
    <3>2. z % m # 0
      BY <1>1, <3>1, MultipleIs
    <3>3. QED
      BY <3>2 DEF z
  <2>3. (a * k) % m \in 0..n
    BY <1>2
  <2>4. QED
    BY <1>1, <1>5, <2>2, <2>3
<1>7. ASSUME NEW i \in 1..n, NEW j \in 1..n, g[i] = g[j] PROVE i = j
  <2>1. (a * i) % m = (a * j) % m
    BY <1>5, <1>7
  <2> DEFINE y == a * i
             z == a * j
  <2>2. y \in Int /\ z \in Int /\ y - z = a * (i - j)
    OBVIOUS
  <2> HIDE DEF y, z
  <2>3. Same(y, z, m)
    BY <1>1, <2>1, <2>2, SameIs DEF y, z
  <2>4. Multiple(m, a * (i - j)) /\ i - j \in Int
    BY <2>2, <2>3 DEF Same
  <2>5. Multiple(m, i - j)
    BY <1>1, <2>4, Cancels
  <2>6. Same(i, j, m) /\ i \in 0..(m - 1) /\ j \in 0..(m - 1)
    BY <1>1, <2>5 DEF Same
  <2>7. QED
    BY <1>1, <2>6, SameResidue
<1>8. ASSUME NEW j \in 1..n PROVE \E i \in 1..n : g[i] = j
  <2>1. PICK b \in 0..(m - 1) : (a * b) % m = 1
    BY InverseExists
  <2> DEFINE z == b * j
             i == z % m
  <2>2. z \in Int /\ a * b \in Int /\ b \in Int
    OBVIOUS
  <2>3. Same(a * b, 1, m)
    <3> DEFINE y == a * b
    <3> HIDE DEF y
    <3>1. y \in Int /\ y % m = 1 /\ 1 % m = 1 /\ 1 \in Int
      BY <2>1, <2>2 DEF y
    <3>2. Same(y, 1, m)
      BY <1>1, <3>1, SameIs
    <3>3. QED
      BY <3>2 DEF y
  <2> HIDE DEF z
  <2>4. i \in 0..n /\ Same(i, z, m)
    BY <1>1, <2>2, SameRemainder
  <2> HIDE DEF i
  <2>5. Same(a * i, a * z, m)
    BY <1>1, <2>2, <2>4, SameItself, SameTimes
  <2>6. Same((a * b) * j, 1 * j, m) /\ (a * b) * j = a * z /\ 1 * j = j
    <3>1. Same((a * b) * j, 1 * j, m)
      BY <1>1, <2>2, <2>3, SameItself, SameTimes
    <3>2. (a * b) * j = a * (b * j) /\ 1 * j = j
      OBVIOUS
    <3>3. QED
      BY <3>1, <3>2 DEF z
  <2>7. a * i \in Int /\ a * z \in Int
    BY <2>2, <2>4
  <2>8. Same(a * i, j, m)
    BY <1>1, <2>5, <2>6, <2>7, SameChain
  <2>9. i # 0
    <3>1. ASSUME i = 0 PROVE FALSE
      <4>1. a * i = 0
        BY <3>1
      <4>2. Same(0, j, m) /\ 0 \in 0..(m - 1) /\ j \in 0..(m - 1)
        BY <1>1, <2>8, <4>1
      <4>3. QED
        BY <1>1, <4>2, SameResidue
    <3>2. QED
      BY <3>1
  <2>10. i \in 1..n /\ i \in Int
    BY <2>4, <2>9
  <2>11. g[i] = j
    <3>1. g[i] = (a * i) % m /\ (a * i) % m \in 0..n /\ Same((a * i) % m, a * i, m)
      BY <1>2, <1>5, <2>10
    <3>2. Same((a * i) % m, j, m)
      BY <1>1, <2>7, <2>8, <3>1, SameChain
    <3>3. QED
      BY <1>1, <3>1, <3>2, SameResidue
  <2>12. QED
    BY <2>10, <2>11
<1>9. g \in [1..n -> 1..n]
  BY <1>5, <1>6 DEF Scaled
<1> HIDE DEF g, n
<1>10. Permutes(g, n)
  BY <1>7, <1>8, <1>9 DEF Permutes
<1>11. QED
  BY <1>10 DEF g, n

LEMMA Fermat ==
  ASSUME NEW m \in Nat, IsPrimeNumber(m), NEW a \in Int, ~Multiple(m, a)
  PROVE  Same(Power(a, m - 1), 1, m)
<1> DEFINE n == m - 1
           g == Scaled(a, m)
           F == Product(Identity, n)
           sc == [k \in 1..n |-> a * Identity[k]]
<1>1. m > 1 /\ m > 0 /\ m \in Int /\ n \in Nat /\ Coprime(a, m)
  BY PrimeIs, PrimeCoprime
<1>2. Permutes(g, n)
  BY <1>1, ScaledPermutes
<1>3. Integers(Identity, n) /\ (\A k \in 1..n : Identity[k] = k)
  BY DEF Integers, Identity
<1>4. Product(Along(Identity, g), n) = F
  <2> HIDE DEF n, g
  <2>1. QED
    BY <1>1, <1>2, <1>3, ProductPermuted
<1>5. Product(sc, n) = Power(a, n) * F
  <2> HIDE DEF n
  <2>1. QED
    BY <1>1, <1>3, ProductScaled
<1>6. ASSUME NEW k \in 1..n
      PROVE  /\ Along(Identity, g)[k] = (a * k) % m /\ sc[k] = a * k
             /\ (a * k) % m \in Int /\ a * k \in Int
             /\ Same((a * k) % m, a * k, m)
  <2>1. a * k \in Int
    OBVIOUS
  <2>2. (a * k) % m \in 0..(m - 1) /\ Same((a * k) % m, a * k, m)
    <3> DEFINE z == a * k
    <3> HIDE DEF z
    <3>1. z % m \in 0..(m - 1) /\ Same(z % m, z, m)
      BY <1>1, <2>1, SameRemainder DEF z
    <3>2. QED
      BY <3>1 DEF z
  <2>3. DOMAIN g = 1..n /\ g[k] = (a * k) % m
    BY DEF Scaled
  <2>4. Along(Identity, g)[k] = Identity[(a * k) % m]
    BY <2>3 DEF Along
  <2>5. Identity[(a * k) % m] = (a * k) % m
    BY <2>2 DEF Identity
  <2>6. sc[k] = a * k
    BY <1>3
  <2>7. QED
    BY <2>1, <2>2, <2>4, <2>5, <2>6
<1>7. Same(F, Power(a, n) * F, m)
  <2> DEFINE A == Along(Identity, g)
  <2> HIDE DEF A, sc, g
  <2>1. Integers(A, n) /\ Integers(sc, n) /\ \A k \in 1..n : Same(A[k], sc[k], m)
    BY <1>6 DEF Integers, A
  <2> HIDE DEF n
  <2>2. Same(Product(A, n), Product(sc, n), m)
    BY <1>1, <2>1, ProductCongruent
  <2>3. QED
    BY <1>4, <1>5, <2>2 DEF A
<1>8. ~Multiple(m, F)
  <2>1. ASSUME NEW k \in 1..n PROVE ~Multiple(m, Identity[k])
    <3>1. k % m = k /\ k # 0 /\ k \in Int
      OBVIOUS
    <3>2. ~Multiple(m, k)
      BY <1>1, <3>1, MultipleIs
    <3>3. QED
      BY <1>3, <3>2
  <2> HIDE DEF n
  <2>2. QED
    BY <1>1, <1>3, <2>1, ProductNoMultiple
<1>9. F \in Int /\ Power(a, n) \in Int
  <2> HIDE DEF n
  <2>1. QED
    BY <1>1, <1>3, ProductIs, PowerIs
<1> HIDE DEF F, n
<1>10. Multiple(m, (Power(a, n) - 1) * F)
  <2>1. Same(Power(a, n) * F, F, m)
    BY <1>1, <1>7, <1>9, SameBack
  <2>2. Power(a, n) * F - F = (Power(a, n) - 1) * F
    BY <1>9
  <2>3. QED
    BY <2>1, <2>2 DEF Same
<1>11. Multiple(m, Power(a, n) - 1)
  BY <1>8, <1>9, <1>10, PrimeDivides
<1>12. QED
  BY <1>11 DEF Same, n

(* Raising to 1 + t * (m - 1) changes nothing modulo the prime m.          *)
LEMMA PowerOfOne ==
  ASSUME NEW j \in Nat PROVE Power(1, j) = 1
<1> DEFINE S == {l \in Nat : Power(1, l) = 1}
<1>1. 0 \in S
  BY PowerIs
<1>2. ASSUME NEW l \in 0..(j - 1), l \in S PROVE l + 1 \in S
  BY <1>2, PowerIs
<1> HIDE DEF S
<1>3. \A l \in 0..j : l \in S
  BY <1>1, <1>2, UpTo
<1>4. j \in S
  BY <1>3
<1>5. QED
  BY <1>4 DEF S

LEMMA FermatTurns ==
  ASSUME NEW m \in Nat, IsPrimeNumber(m), NEW a \in Int, NEW t \in Nat
  PROVE  Same(Power(a, (m - 1) * t + 1), a, m)
<1> DEFINE h == (m - 1) * t
           b == Power(a, h)
<1>1. m > 1 /\ m > 0 /\ m \in Int /\ m - 1 \in Nat
  BY PrimeIs
<1>2. h \in Nat
  BY <1>1
<1> HIDE DEF h
<1>3. b \in Int /\ Power(a, h + 1) = b * a
  BY <1>2, PowerIs
<1>4. CASE Multiple(m, a)
  <2>1. Multiple(m, b * a)
    BY <1>1, <1>3, <1>4, MultipleTimes
  <2>2. Multiple(m, b * a - a)
    BY <1>1, <1>3, <1>4, <2>1, MultipleSum
  <2>3. QED
    BY <1>3, <2>2 DEF Same, h
<1>5. CASE ~Multiple(m, a)
  <2> DEFINE d == Power(a, m - 1)
  <2>1. Same(d, 1, m) /\ d \in Int
    BY <1>1, <1>5, Fermat, PowerIs
  <2> HIDE DEF d
  <2>2. Same(Power(d, t), Power(1, t), m) /\ Power(d, t) \in Int
    <3>1. 1 \in Int
      OBVIOUS
    <3>2. Same(Power(d, t), Power(1, t), m)
      BY <1>1, <2>1, <3>1, PowerSame
    <3>3. Power(d, t) \in Int
      BY <2>1, PowerIs
    <3>4. QED
      BY <3>2, <3>3
  <2>3. Power(d, t) = b
    BY <1>1, PowerOfPower DEF d, h
  <2>4. Power(1, t) = 1
    BY PowerOfOne
  <2>5. Same(b * a, 1 * a, m) /\ 1 * a = a
    BY <1>1, <1>3, <2>2, <2>3, <2>4, SameItself, SameTimes
  <2>6. QED
    BY <1>3, <2>5 DEF h
<1>6. QED
  BY <1>4, <1>5

LEMMA PrimesDiffer ==
  ASSUME NEW m \in Nat, IsPrimeNumber(m), NEW w \in Nat, IsPrimeNumber(w), m # w
  PROVE  ~Multiple(w, m)
<1>1. m >= 2 /\ w >= 2 /\ \A d \in 2..(m - 1) : m % d # 0
  BY PrimeIs
<1>2. m % w # 0
  <2>1. CASE w < m
    BY <1>1, <2>1
  <2>2. CASE w > m
    <3>1. m % w = m
      BY <1>1, <2>2
    <3>2. QED
      BY <1>1, <3>1
  <2>3. QED
    BY <2>1, <2>2
<1>3. QED
  BY <1>1, <1>2, MultipleIs

LEMMA MultipleOfBoth ==
  ASSUME NEW m \in Nat, IsPrimeNumber(m), NEW w \in Nat, IsPrimeNumber(w), m # w,
         NEW z \in Int, Multiple(m, z), Multiple(w, z)
  PROVE  Multiple(m * w, z)
<1>1. PICK t \in Int : z = t * m
  BY DEF Multiple
<1>2. ~Multiple(w, m) /\ m \in Int
  BY PrimesDiffer
<1>3. Multiple(w, t)
  BY <1>1, <1>2, PrimeDivides
<1>4. PICK s \in Int : t = s * w
  BY <1>3 DEF Multiple
<1>5. z = s * (m * w)
  BY <1>1, <1>4
<1>6. QED
  BY <1>5 DEF Multiple

(* RSA: e * d = 1 modulo (m - 1) * (w - 1).                                *)
LEMMA RsaReturns ==
  ASSUME NEW m \in Nat, IsPrimeNumber(m), NEW w \in Nat, IsPrimeNumber(w), m # w,
         NEW e \in Nat, NEW d \in Nat, (e * d) % ((m - 1) * (w - 1)) = 1,
         NEW a \in Int
  PROVE  Same(Power(Power(a, e), d), a, m * w)
<1> DEFINE phi == (m - 1) * (w - 1)
           t == (e * d) \div phi
<1>1. m >= 2 /\ w >= 2 /\ m - 1 \in Nat /\ w - 1 \in Nat /\ m \in Int /\ w \in Int
  BY PrimeIs
<1>2. phi \in Nat /\ phi > 0
  <2>1. \A i, j \in Nat : i > 0 /\ j > 0 => i * j \in Nat /\ i * j > 0
    OBVIOUS
  <2>2. m - 1 > 0 /\ w - 1 > 0
    BY <1>1
  <2>3. QED
    BY <1>1, <2>1, <2>2
<1>3. t \in Nat /\ e * d = t * phi + 1
  <2> DEFINE z == e * d
  <2>1. z \in Nat
    OBVIOUS
  <2> HIDE DEF z, phi
  <2>2. z \div phi \in Int /\ z = (z \div phi) * phi + (z % phi)
    BY <1>2, <2>1, RemainderIs
  <2>3. z \div phi \in Nat
    BY <1>2, <2>1, Euclid
  <2>4. z % phi = 1
    BY DEF z, phi
  <2>5. QED
    BY <2>2, <2>3, <2>4 DEF z
<1> HIDE DEF t
<1>4. t * phi = (m - 1) * (t * (w - 1)) /\ t * phi = (w - 1) * (t * (m - 1))
      /\ t * (w - 1) \in Nat /\ t * (m - 1) \in Nat
  BY <1>1, <1>3
<1> DEFINE h == e * d
           z == Power(a, h)
<1>5. h \in Nat /\ h = (m - 1) * (t * (w - 1)) + 1 /\ h = (w - 1) * (t * (m - 1)) + 1
  BY <1>3, <1>4
<1> HIDE DEF phi
<1>6. Same(z, a, m) /\ Same(z, a, w)
  <2> DEFINE i == t * (w - 1)
             j == t * (m - 1)
  <2>1. i \in Nat /\ j \in Nat /\ h = (m - 1) * i + 1 /\ h = (w - 1) * j + 1
    BY <1>4, <1>5
  <2> HIDE DEF i, j, h
  <2>2. Same(Power(a, (m - 1) * i + 1), a, m)
    BY <2>1, FermatTurns
  <2>3. Same(Power(a, (w - 1) * j + 1), a, w)
    BY <2>1, FermatTurns
  <2>4. QED
    BY <2>1, <2>2, <2>3
<1>7. z \in Int /\ Power(Power(a, e), d) = z
  BY <1>5, PowerIs, PowerOfPower
<1> HIDE DEF z
<1>8. Multiple(m, z - a) /\ Multiple(w, z - a) /\ z - a \in Int
  BY <1>6, <1>7 DEF Same
<1>9. Multiple(m * w, z - a)
  BY <1>8, MultipleOfBoth
<1>10. QED
  BY <1>7, <1>9 DEF Same

(* With a blinding factor s and its inverse b.                             *)
LEMMA RsaBlinded ==
  ASSUME NEW m \in Nat, IsPrimeNumber(m), NEW w \in Nat, IsPrimeNumber(w), m # w,
         NEW e \in Nat, NEW d \in Nat, (e * d) % ((m - 1) * (w - 1)) = 1,
         NEW a \in 0..(m * w - 1), NEW s \in Nat, NEW b \in Int, (s * b) % (m * w) = 1,
         NEW f \in Int, f = PowMod(a, e, m * w)
  PROVE  (PowMod((f * PowMod(s, e, m * w)) % (m * w), d, m * w) * b) % (m * w) = a
<1> DEFINE n == m * w
           g == PowMod(s, e, n)
           h == (f * g) % n
           y == PowMod(h, d, n)
           z == Power(a * s, e)
<1>1. n \in Nat /\ n > 1 /\ n > 0 /\ n \in Int /\ n = m * w
  <2>1. m >= 2 /\ w >= 2
    BY PrimeIs
  <2>2. QED
    BY <2>1
<1> HIDE DEF n
<1>2. a \in 0..(n - 1) /\ a \in Int /\ s \in Int /\ a * s \in Int /\ f = PowMod(a, e, n)
      /\ (s * b) % n = 1
  BY <1>1
<1>3. Same(f, Power(a, e), n) /\ Power(a, e) \in Int /\ f \in Int
  BY <1>1, <1>2, PowModSame, PowerIs
<1>4. Same(g, Power(s, e), n) /\ Power(s, e) \in Int /\ g \in Int
  <2>1. g \in 0..(n - 1)
    BY <1>1, <1>2, PowModIs
  <2>2. QED
    BY <1>1, <1>2, <2>1, PowModSame, PowerIs
<1> HIDE DEF g
<1>5. f * g \in Int /\ Power(a, e) * Power(s, e) \in Int
  BY <1>3, <1>4
<1>6. Same(f * g, Power(a, e) * Power(s, e), n)
  BY <1>1, <1>3, <1>4, SameTimes
<1>7. z = Power(a, e) * Power(s, e) /\ z \in Int
  BY <1>2, <1>5, PowerOfProduct
<1>8. Same(h, f * g, n) /\ h \in Int
  <2> DEFINE x == f * g
  <2> HIDE DEF x
  <2>1. x \in Int
    BY <1>5 DEF x
  <2>2. Same(x % n, x, n) /\ x % n \in Int
    BY <1>1, <2>1, SameRemainder
  <2>3. QED
    BY <2>2 DEF x
<1>9. Same(h, z, n)
  BY <1>1, <1>5, <1>6, <1>7, <1>8, SameChain
<1> HIDE DEF h
<1>10. Same(y, Power(h, d), n) /\ y \in Int /\ Power(h, d) \in Int
  <2>1. y \in 0..(n - 1)
    BY <1>1, <1>8, PowModIs
  <2>2. QED
    BY <1>1, <1>8, <2>1, PowModSame, PowerIs
<1> HIDE DEF y
<1>11. Same(Power(h, d), Power(z, d), n) /\ Power(z, d) \in Int
  <2> HIDE DEF z
  <2>1. QED
    BY <1>1, <1>7, <1>8, <1>9, PowerSame, PowerIs
<1>12. Same(Power(z, d), a * s, n)
  <2> DEFINE x == a * s
  <2> HIDE DEF x
  <2>1. x \in Int
    BY <1>2 DEF x
  <2>2. Same(Power(Power(x, e), d), x, m * w)
    BY <2>1, RsaReturns
  <2>3. QED
    BY <1>1, <2>2 DEF x, n
<1> HIDE DEF z
<1>13. Same(y, a * s, n)
  <2>1. Same(y, Power(z, d), n)
    BY <1>1, <1>10, <1>11, SameChain
  <2>2. QED
    BY <1>1, <1>2, <1>10, <1>11, <1>12, <2>1, SameChain
<1>14. Same(y * b, (a * s) * b, n)
  BY <1>1, <1>2, <1>10, <1>13, SameItself, SameTimes
<1>15. Same((a * s) * b, a, n)
  <2> DEFINE x == s * b
  <2>1. x \in Int /\ (a * s) * b = a * x
    OBVIOUS
  <2> HIDE DEF x
  <2>2. x % n = 1 /\ 1 % n = 1 /\ 1 \in Int
    BY <1>1, <1>2 DEF x
  <2>3. Same(x, 1, n)
    BY <1>1, <2>1, <2>2, SameIs
  <2>4. Same(a * x, a * 1, n) /\ a * 1 = a
    BY <1>1, <1>2, <2>1, <2>2, <2>3, SameItself, SameTimes
  <2>5. QED
    BY <2>1, <2>4
<1>16. y * b \in Int /\ (a * s) * b \in Int
  BY <1>2, <1>10
<1>17. Same(y * b, a, n)
  BY <1>1, <1>2, <1>14, <1>15, <1>16, SameChain
<1>18. (y * b) % n = a
  <2> DEFINE x == y * b
  <2> HIDE DEF x
  <2>1. x \in Int /\ Same(x, a, n)
    BY <1>16, <1>17 DEF x
  <2>2. Same(x % n, x, n) /\ x % n \in 0..(n - 1) /\ x % n \in Int
    BY <1>1, <2>1, SameRemainder
  <2>3. Same(x % n, a, n)
    BY <1>1, <1>2, <2>1, <2>2, SameChain
  <2>4. x % n = a
    BY <1>1, <1>2, <2>2, <2>3, SameResidue
  <2>5. QED
    BY <2>4 DEF x
<1>19. QED
  BY <1>18 DEF y, h, g, n

------------------------------------------------------------------------------
(* The veil.                                                               *)

(* The hash gives digests, of whatever bytes and counters.                 *)
HashesBytes == \A s \in Seq(Nat) : HashOf(s) \in [1..HashLen -> 0..(Base - 1)]

(* The number read so far, byte after byte.                                *)
Reads(b, u) ==
  /\ u \in [0..Len(b) -> Nat]
  /\ u[0] = 0
  /\ \A k \in 1..Len(b) : u[k] = u[k - 1] * Base + b[k]

LEMMA ImportReads ==
  ASSUME NEW b \in Seq(Nat)
  PROVE  \E u : Reads(b, u) /\ Import(b) = u[Len(b)]
<1> DEFINE n == Len(b)
           V == Nat
           before == [k \in 1..n |-> k - 1]
           turn == [k \in 1..n |-> [a \in V |-> a * Base + b[k]]]
           Follows(w) == w = [k \in 0..n |-> IF k = 0 THEN 0 ELSE w[k - 1] * Base + b[k]]
           u == CHOOSE w : Follows(w)
<1>1. n \in Nat /\ Base \in Nat /\ \A k \in 1..n : b[k] \in Nat
  BY OaepAssumption
<1>2. before \in [1..n -> Nat] /\ \A k \in 1..n : before[k] < k /\ before[k] = k - 1
  BY <1>1
<1>3. \A k \in 1..n, a \in Nat : a * Base + b[k] \in Nat
  BY <1>1
<1>4. turn \in [1..n -> [V -> V]] /\ \A k \in 1..n, a \in V : turn[k][a] = a * Base + b[k]
  BY <1>3
<1>5. Import(b) = u[n]
  BY DEF Import
<1> HIDE DEF before, turn, n
<1>6. \E w : Follows(w)
  <2>1. 0 \in V /\ \A k \in 1..n : before[k] < k
    BY <1>2
  <2>2. Walkable(n, V, 0, before, turn)
    <3> HIDE DEF V
    <3>1. QED
      BY <1>1, <1>2, <1>4, <2>1, RecursionExists
  <2>3. PICK w \in [0..n -> V] : w[0] = 0 /\ \A k \in 1..n : w[k] = turn[k][w[before[k]]]
    BY <2>2 DEF Walkable, Walk
  <2>4. ASSUME NEW k \in 1..n PROVE w[k] = w[k - 1] * Base + b[k]
    <3>1. before[k] = k - 1 /\ k - 1 \in 0..n
      BY <1>1, <1>2
    <3>2. w[k - 1] \in V
      BY <2>3, <3>1
    <3>3. QED
      BY <1>4, <2>3, <3>1, <3>2
  <2>5. \A k \in 0..n : w[k] = IF k = 0 THEN 0 ELSE w[k - 1] * Base + b[k]
    <3>1. \A k \in 0..n : k = 0 \/ k \in 1..n
      BY <1>1
    <3>2. \A k \in 1..n : k # 0
      BY <1>1
    <3>3. QED
      BY <2>3, <2>4, <3>1, <3>2
  <2>6. Follows(w)
    BY <2>3, <2>5
  <2> HIDE DEF Follows
  <2>7. QED
    BY <2>6
<1>7. Follows(u)
  BY <1>6
<1> HIDE DEF u
<1>8. u[0] = 0 /\ \A k \in 1..n : u[k] = u[k - 1] * Base + b[k]
  <2> DEFINE w == [k \in 0..n |-> IF k = 0 THEN 0 ELSE u[k - 1] * Base + b[k]]
  <2>1. u = w
    BY <1>7
  <2>2. w[0] = 0 /\ \A k \in 1..n : w[k] = u[k - 1] * Base + b[k]
    BY <1>1
  <2> HIDE DEF w
  <2>3. QED
    BY <2>1, <2>2
<1>9. ASSUME NEW k \in 1..n, u[before[k]] \in V PROVE u[k] \in V
  <2>1. u[k - 1] \in Nat /\ u[k] = u[k - 1] * Base + b[k]
    BY <1>2, <1>8, <1>9
  <2>2. QED
    BY <1>3, <2>1
<1>10. u[0] \in V
  BY <1>8
<1> HIDE DEF V
<1>11. \A k \in 0..n : u[k] \in V
  BY <1>1, <1>2, <1>9, <1>10, RecursionStays
<1>13. u \in [0..n -> {u[k] : k \in 0..n}]
  <2> DEFINE w == [k \in 0..n |-> IF k = 0 THEN 0 ELSE u[k - 1] * Base + b[k]]
  <2>1. u = w
    BY <1>7
  <2>2. DOMAIN w = 0..n /\ w = [k \in 0..n |-> w[k]]
    OBVIOUS
  <2> HIDE DEF w
  <2>3. u = [k \in 0..n |-> u[k]]
    BY <2>1, <2>2
  <2>4. QED
    BY <2>3
<1>12. u \in [0..n -> Nat]
  BY <1>11, <1>13 DEF V
<1>14. Reads(b, u)
  BY <1>8, <1>12 DEF Reads, n
<1>15. QED
  BY <1>5, <1>14 DEF n

LEMMA ImportIs ==
  ASSUME NEW b \in Seq(Nat)
  PROVE  Import(b) \in Nat
<1>1. PICK u : Reads(b, u) /\ Import(b) = u[Len(b)]
  BY ImportReads
<1>2. QED
  BY <1>1 DEF Reads

(* Powers of two grow, so the length of a number is at most that of a      *)
(* power above it.                                                         *)
Top == MaxBits + Slack + ByteBits

LEMMA TopIs ==
  /\ Top \in Nat /\ MaxBits <= VeilBits /\ VeilBits <= Top /\ ByteBits <= Top
  /\ MaxBits \in Nat /\ VeilBits \in Nat /\ ByteBits \in Nat
BY OaepAssumption DEF Top, VeilBits

LEMMA TwoGrows ==
  ASSUME NEW s \in 0..(Top + 1)
  PROVE  2^s \in Nat /\ 2^s >= s + 1
<1>1. Top \in Nat
  BY TopIs
<1> DEFINE S == {i \in Nat : 2^i \in Nat /\ 2^i >= i + 1}
<1>2. 0 \in S
  BY LengthAssumption
<1>3. ASSUME NEW i \in 0..((Top + 1) - 1), i \in S PROVE i + 1 \in S
  <2>1. i \in 0..(MaxBits + Slack + ByteBits) /\ i \in Nat
    BY <1>1 DEF Top
  <2>2. 2^(i + 1) = 2 * 2^i
    BY <2>1, LengthAssumption
  <2> DEFINE w == 2^i
  <2>3. w \in Nat /\ w >= i + 1
    BY <1>3
  <2> HIDE DEF w
  <2>4. 2 * w \in Nat /\ 2 * w >= (i + 1) + 1
    BY <2>1, <2>3
  <2>5. QED
    BY <2>1, <2>2, <2>4 DEF w
<1> HIDE DEF S
<1>4. \A i \in 0..(Top + 1) : i \in S
  BY <1>1, <1>2, <1>3, Top + 1 \in Nat, UpTo
<1>5. s \in S
  BY <1>4
<1>6. QED
  BY <1>5 DEF S

LEMMA TwoMonotone ==
  ASSUME NEW a \in Nat, NEW b \in Nat, a <= b, b <= Top + 1
  PROVE  2^a <= 2^b
<1>1. Top \in Nat
  BY TopIs
<1> DEFINE S == {i \in Nat : i <= b - a => 2^a <= 2^(a + i)}
<1>2. 0 \in S
  <2>1. a + 0 = a /\ 2^a \in Nat
    BY <1>1, TwoGrows
  <2> DEFINE w == 2^a
  <2>2. w <= w
    BY <2>1
  <2>3. QED
    BY <2>1, <2>2
<1>3. ASSUME NEW i \in 0..((b - a) - 1), i \in S PROVE i + 1 \in S
  <2>1. a + i \in 0..(MaxBits + Slack + ByteBits) /\ a + i \in 0..(Top + 1) /\ a \in 0..(Top + 1)
        /\ i <= b - a /\ i \in Nat /\ (a + i) + 1 = a + (i + 1)
    BY <1>1 DEF Top
  <2>2. 2^((a + i) + 1) = 2 * 2^(a + i)
    BY <2>1, LengthAssumption
  <2>3. 2^(a + i) \in Nat /\ 2^a \in Nat /\ 2^a <= 2^(a + i)
    BY <1>3, <2>1, TwoGrows
  <2> DEFINE w == 2^(a + i)
             y == 2^a
  <2> HIDE DEF w, y
  <2>4. y \in Nat /\ w \in Nat /\ y <= w
    BY <2>3 DEF w, y
  <2>5. y <= 2 * w
    BY <2>4
  <2>6. QED
    BY <2>1, <2>2, <2>5 DEF w, y
<1> HIDE DEF S
<1>4. b - a \in S
  <2>1. \A i \in 0..(b - a) : i \in S
    BY <1>2, <1>3, b - a \in Nat, UpTo
  <2>2. QED
    BY <2>1
<1>5. a + (b - a) = b /\ b - a <= b - a
  OBVIOUS
<1>6. QED
  BY <1>4, <1>5 DEF S

LEMMA BitLengthLeast ==
  ASSUME NEW x \in Nat, NEW w \in 0..x, x < 2^w
  PROVE  /\ BitLength(x) \in 0..w /\ x < 2^BitLength(x)
         /\ \A i \in 0..(BitLength(x) - 1) : x >= 2^i
<1> DEFINE S == {i \in 0..w : x < 2^i}
<1>1. PICK j \in S : \A i \in S : j <= i
  <2>1. w \in S /\ S \in SUBSET Nat
    OBVIOUS
  <2> HIDE DEF S
  <2>2. QED
    BY <2>1, LeastExists
<1>2. j \in 0..w /\ x < 2^j
  OBVIOUS
<1>3. \A i \in Nat : 2^i \in Int
  BY Z3
<1>4. ASSUME NEW i \in 0..(j - 1) PROVE x >= 2^i
  <2>1. i \in 0..w /\ i \notin S /\ i \in Nat
    BY <1>1, <1>2
  <2>2. ~(x < 2^i) /\ 2^i \in Int
    BY <1>3, <2>1
  <2> DEFINE y == 2^i
  <2> HIDE DEF y
  <2>3. ~(x < y) /\ y \in Int
    BY <2>2 DEF y
  <2>4. x >= y
    BY <2>3
  <2>5. QED
    BY <2>4 DEF y
<1>5. AbsVal(x) = x
  BY DEF AbsVal
<1> DEFINE Fits(s) == x < 2^s /\ \A t \in 0..(s - 1) : x >= 2^t
<1>6. j \in 0..x /\ Fits(j)
  BY <1>2, <1>4
<1>7. BitLength(x) = CHOOSE s \in 0..x : Fits(s)
  BY <1>5 DEF BitLength
<1> HIDE DEF Fits
<1>8. BitLength(x) \in 0..x /\ Fits(BitLength(x))
  BY <1>6, <1>7
<1> DEFINE b == BitLength(x)
<1> HIDE DEF b
<1>9. b \in 0..x /\ x < 2^b /\ \A t \in 0..(b - 1) : x >= 2^t
  BY <1>8 DEF b, Fits
<1>10. b <= w
  <2>1. ASSUME b > w PROVE FALSE
    <3>1. w \in 0..(b - 1) /\ w \in Nat
      BY <1>9, <2>1
    <3>2. x >= 2^w /\ 2^w \in Int
      BY <1>3, <1>9, <3>1
    <3> DEFINE y == 2^w
    <3> HIDE DEF y
    <3>3. x >= y /\ y \in Int /\ x < y
      BY <3>2 DEF y
    <3>4. QED
      BY <3>3
  <2>2. QED
    BY <1>9, <2>1
<1>11. QED
  BY <1>9, <1>10 DEF b

LEMMA BitLengthIs ==
  ASSUME NEW x \in Nat, NEW w \in 0..Top, x < 2^w
  PROVE  /\ BitLength(x) \in 0..w /\ x < 2^BitLength(x)
         /\ \A i \in 0..(BitLength(x) - 1) : x >= 2^i
<1>1. Top \in Nat
  BY TopIs
<1> DEFINE S == {i \in 0..w : x < 2^i}
<1>2. PICK j \in S : \A i \in S : j <= i
  <2>1. w \in S /\ S \in SUBSET Nat
    BY <1>1
  <2> HIDE DEF S
  <2>2. QED
    BY <2>1, LeastExists
<1>3. j \in 0..w /\ x < 2^j
  OBVIOUS
<1>4. ASSUME j > 0 PROVE j <= x
  <2>1. j - 1 \in 0..w /\ j - 1 \notin S /\ j - 1 \in 0..(Top + 1)
    BY <1>1, <1>2, <1>4
  <2>2. ~(x < 2^(j - 1)) /\ 2^(j - 1) \in Nat /\ 2^(j - 1) >= (j - 1) + 1
    BY <2>1, TwoGrows
  <2> DEFINE y == 2^(j - 1)
  <2> HIDE DEF y
  <2>3. ~(x < y) /\ y \in Nat /\ y >= (j - 1) + 1
    BY <2>2 DEF y
  <2>4. QED
    BY <1>1, <1>3, <2>3
<1>5. j \in 0..x
  BY <1>1, <1>3, <1>4
<1>6. /\ BitLength(x) \in 0..j /\ x < 2^BitLength(x)
      /\ \A i \in 0..(BitLength(x) - 1) : x >= 2^i
  BY <1>3, <1>5, BitLengthLeast
<1>7. QED
  BY <1>1, <1>3, <1>6

(* The bits of a byte.                                                     *)

LEMMA QuotientIs ==
  ASSUME NEW m \in Nat, m > 0, NEW a \in Int, NEW r \in 0..(m - 1), NEW z \in Int, z = a * m + r
  PROVE  z \div m = a /\ z % m = r
<1>1. z % m \in 0..(m - 1) /\ z \div m \in Int /\ z = (z \div m) * m + (z % m)
  BY RemainderIs
<1> DEFINE h == z \div m
           d == z % m
<1> HIDE DEF h, d
<1>2. d \in 0..(m - 1) /\ h \in Int /\ z = h * m + d
  BY <1>1 DEF h, d
<1>3. d - r = (a - h) * m /\ a - h \in Int
  BY <1>2
<1>4. Same(d, r, m)
  BY <1>3 DEF Same, Multiple
<1>5. d = r
  BY <1>2, <1>4, SameResidue
<1> DEFINE t == a - h
<1>6. t \in Int /\ t * m = 0
  BY <1>3, <1>5
<1>7. t = 0
  <2> HIDE DEF t
  <2>1. t >= 1 => t * m >= m
    BY <1>6
  <2>2. t <= -1 => t * m <= -m
    BY <1>6
  <2>3. QED
    BY <1>6, <2>1, <2>2
<1>8. a = h
  BY <1>2, <1>7
<1>9. QED
  BY <1>5, <1>8 DEF h, d

LEMMA HalfThen ==
  ASSUME NEW x \in Nat, NEW m \in Nat, m > 0
  PROVE  x \div (2 * m) = (x \div 2) \div m
<1> DEFINE y == x \div 2
<1>1. y \in Nat /\ \E s \in 0..1 : x = 2 * y + s
  OBVIOUS
<1>2. PICK s \in 0..1 : x = 2 * y + s
  BY <1>1
<1> HIDE DEF y
<1>3. y % m \in 0..(m - 1) /\ y \div m \in Int /\ y = (y \div m) * m + (y % m)
  BY <1>1, RemainderIs
<1> DEFINE h == y \div m
           r == y % m
<1> HIDE DEF h, r
<1>4. r \in 0..(m - 1) /\ h \in Int /\ y = h * m + r
  BY <1>3 DEF h, r
<1> DEFINE d == 2 * m
           t == 2 * r + s
<1>5. d \in Nat /\ d > 0 /\ t \in 0..(d - 1)
  BY <1>4
<1>6. h * d = 2 * (h * m)
  BY <1>4
<1> DEFINE w == h * m
<1>7. w \in Int /\ y = w + r /\ h * d = 2 * w
  BY <1>4, <1>6
<1>8. x = h * d + t
  <2> HIDE DEF w, d
  <2>1. QED
    BY <1>2, <1>4, <1>7
<1> HIDE DEF d, t
<1>9. x \div d = h
  BY <1>4, <1>5, <1>8, QuotientIs
<1>10. QED
  BY <1>9 DEF d, h, y

LEMMA BitIs ==
  ASSUME NEW x \in Nat, NEW k \in 0..Top
  PROVE  /\ Bit(x, 0) = x % 2 /\ Bit(x, k) \in 0..1
         /\ Bit(x, k + 1) = Bit(x \div 2, k)
<1>0. Top \in Nat
  BY TopIs
<1>1. 2^0 = 1 /\ x \div 1 = x
  BY LengthAssumption
<1> DEFINE w == 2^k
<1>2. w \in Nat /\ w > 0
  <2>1. w \in Nat /\ w >= k + 1
    BY <1>0, TwoGrows
  <2> HIDE DEF w
  <2>2. QED
    BY <1>0, <2>1
<1>3. 2^(k + 1) = 2 * w
  <2>1. k \in 0..(MaxBits + Slack + ByteBits)
    BY DEF Top
  <2>2. QED
    BY <2>1, LengthAssumption
<1> HIDE DEF w
<1>4. x \div (2 * w) = (x \div 2) \div w
  BY <1>2, HalfThen
<1>5. x \div w \in Nat
  BY <1>2, Euclid
<1>6. (x \div w) % 2 \in 0..1
  BY <1>5
<1>7. QED
  BY <1>1, <1>3, <1>4, <1>6 DEF Bit, w

(* A number below 2^w is its first w bits, whatever these are.             *)
LEMMA BitsDecide ==
  ASSUME NEW w \in 0..Top
  PROVE  \A x, y \in 0..(2^w - 1) : (\A k \in 0..(w - 1) : Bit(x, k) = Bit(y, k)) => x = y
<1>0. Top \in Nat
  BY TopIs
<1> DEFINE Alike(x, y, i) == \A k \in 0..(i - 1) : Bit(x, k) = Bit(y, k)
           S == {i \in Nat : \A x, y \in 0..(2^i - 1) : Alike(x, y, i) => x = y}
<1>1. 0 \in S
  <2>1. 2^0 - 1 = 0
    BY LengthAssumption
  <2>2. QED
    BY <2>1
<1>2. ASSUME NEW i \in 0..(w - 1), i \in S PROVE i + 1 \in S
  <2>1. i \in Nat /\ i \in 0..Top /\ i \in 0..(Top + 1)
        /\ \A x, y \in 0..(2^i - 1) : Alike(x, y, i) => x = y
    BY <1>0, <1>2
  <2>2. 2^(i + 1) = 2 * 2^i /\ 2^i \in Nat
    <3>1. i \in 0..(MaxBits + Slack + ByteBits)
      BY <2>1 DEF Top
    <3>2. QED
      BY <2>1, <3>1, TwoGrows, LengthAssumption
  <2>3. ASSUME NEW x \in 0..(2^(i + 1) - 1), NEW y \in 0..(2^(i + 1) - 1), Alike(x, y, i + 1)
        PROVE  x = y
    <3> DEFINE d == 2^i
    <3>1. d \in Nat /\ x \in 0..(2 * d - 1) /\ y \in 0..(2 * d - 1)
      BY <2>2
    <3> HIDE DEF d
    <3>2. x \div 2 \in 0..(d - 1) /\ y \div 2 \in 0..(d - 1) /\ x \in Nat /\ y \in Nat
      BY <3>1
    <3>3. Alike(x \div 2, y \div 2, i)
      <4>1. ASSUME NEW k \in 0..(i - 1) PROVE Bit(x \div 2, k) = Bit(y \div 2, k)
        <5>1. k \in 0..Top /\ k + 1 \in 0..((i + 1) - 1)
          BY <1>0, <2>1
        <5>2. Bit(x, k + 1) = Bit(y, k + 1)
          BY <2>3, <5>1
        <5>3. QED
          BY <3>2, <5>1, <5>2, BitIs
      <4>2. QED
        BY <4>1
    <3>4. x \div 2 = y \div 2
      <4> HIDE DEF Alike
      <4>1. x \div 2 \in 0..(2^i - 1) /\ y \div 2 \in 0..(2^i - 1)
        BY <3>2 DEF d
      <4>2. QED
        BY <2>1, <3>3, <4>1
    <3>5. x % 2 = y % 2
      <4>1. 0 \in 0..((i + 1) - 1) /\ 0 \in 0..Top
        BY <1>0, <2>1
      <4>2. Bit(x, 0) = Bit(y, 0)
        BY <2>3, <4>1
      <4>3. QED
        BY <3>2, <4>1, <4>2, BitIs
    <3>6. QED
      BY <3>2, <3>4, <3>5
  <2>4. QED
    BY <2>1, <2>3
<1> HIDE DEF S
<1>3. w \in S
  <2>1. w \in Nat
    OBVIOUS
  <2>2. \A i \in 0..w : i \in S
    BY <1>1, <1>2, <2>1, UpTo
  <2>3. QED
    BY <2>2
<1>4. QED
  BY <1>3 DEF S

LEMMA BitsExist ==
  ASSUME NEW w \in 0..Top
  PROVE  \A f \in [Nat -> 0..1] : \E z \in 0..(2^w - 1) : \A k \in 0..(w - 1) : Bit(z, k) = f[k]
<1>0. Top \in Nat
  BY TopIs
<1> DEFINE Has(z, f, i) == \A k \in 0..(i - 1) : Bit(z, k) = f[k]
           S == {i \in Nat : \A f \in [Nat -> 0..1] : \E z \in 0..(2^i - 1) : Has(z, f, i)}
<1>1. 0 \in S
  <2>1. 2^0 - 1 = 0
    BY LengthAssumption
  <2>2. \A f : Has(0, f, 0)
    OBVIOUS
  <2> HIDE DEF Has
  <2>3. QED
    BY <2>1, <2>2
<1>2. ASSUME NEW i \in 0..(w - 1), i \in S PROVE i + 1 \in S
  <2>1. i \in Nat /\ i \in 0..Top /\ i \in 0..(Top + 1)
        /\ \A f \in [Nat -> 0..1] : \E z \in 0..(2^i - 1) : Has(z, f, i)
    <3>1. \A f \in [Nat -> 0..1] : \E z \in 0..(2^i - 1) : Has(z, f, i)
      BY <1>2
    <3>2. QED
      BY <1>0, <3>1
  <2>2. 2^(i + 1) = 2 * 2^i /\ 2^i \in Nat
    <3>1. i \in 0..(MaxBits + Slack + ByteBits)
      BY <2>1 DEF Top
    <3>2. QED
      BY <2>1, <3>1, TwoGrows, LengthAssumption
  <2>3. ASSUME NEW f \in [Nat -> 0..1] PROVE \E z \in 0..(2^(i + 1) - 1) : Has(z, f, i + 1)
    <3> DEFINE g == [k \in Nat |-> f[k + 1]]
               d == 2^i
    <3>1. g \in [Nat -> 0..1]
      OBVIOUS
    <3>2. \A k \in Nat : g[k] = f[k + 1]
      OBVIOUS
    <3> HIDE DEF g
    <3>3. PICK y \in 0..(d - 1) : Has(y, g, i)
      <4> HIDE DEF Has
      <4>1. QED
        BY <2>1, <3>1
    <3> DEFINE z == 2 * y + f[0]
    <3>4. d \in Nat /\ y \in Nat /\ f[0] \in 0..1
      BY <2>2
    <3> HIDE DEF d
    <3>5. z \in 0..(2 * d - 1) /\ z \in Nat /\ z \div 2 = y /\ z % 2 = f[0]
      BY <3>3, <3>4
    <3> HIDE DEF z
    <3>6. ASSUME NEW k \in 0..((i + 1) - 1) PROVE Bit(z, k) = f[k]
      <4>1. CASE k = 0
        <5>1. 0 \in 0..Top
          BY <1>0
        <5>2. QED
          BY <3>5, <4>1, <5>1, BitIs
      <4>2. CASE k # 0
        <5> DEFINE j == k - 1
        <5>1. j \in 0..Top /\ j \in 0..(i - 1) /\ k = j + 1 /\ j \in Nat
          BY <1>0, <2>1, <4>2
        <5> HIDE DEF j
        <5>2. Bit(z, j + 1) = Bit(y, j)
          BY <3>5, <5>1, BitIs
        <5>3. QED
          BY <3>2, <3>3, <5>1, <5>2
      <4>3. QED
        BY <4>1, <4>2
    <3>7. z \in 0..(2^(i + 1) - 1)
      BY <2>2, <3>5 DEF d
    <3>8. QED
      BY <3>6, <3>7
  <2> HIDE DEF Has
  <2>4. QED
    BY <2>1, <2>3
<1> HIDE DEF S
<1>3. w \in S
  <2>1. w \in Nat
    OBVIOUS
  <2>2. \A i \in 0..w : i \in S
    BY <1>1, <1>2, <2>1, UpTo
  <2>3. QED
    BY <2>2
<1>4. QED
  BY <1>3 DEF S

LEMMA XorBits ==
  ASSUME NEW x \in Nat, NEW y \in Nat
  PROVE  /\ XorByte(x, y) \in 0..(Base - 1) /\ XorByte(x, y) \in Nat
         /\ \A k \in 0..(ByteBits - 1) : Bit(XorByte(x, y), k) = (Bit(x, k) + Bit(y, k)) % 2
<1>0. ByteBits \in 0..Top /\ Base \in Nat
  BY TopIs, OaepAssumption
<1> DEFINE sum(k) == (Bit(x, k) + Bit(y, k)) % 2
           f == [k \in Nat |-> IF k \in 0..Top THEN sum(k) ELSE 0]
           Is(z) == \A k \in 0..(ByteBits - 1) : Bit(z, k) = sum(k)
<1>1. ASSUME NEW k \in 0..Top PROVE sum(k) \in 0..1
  <2>1. Bit(x, k) \in 0..1 /\ Bit(y, k) \in 0..1
    BY BitIs
  <2>2. QED
    BY <2>1
<1>2. f \in [Nat -> 0..1]
  <2> HIDE DEF sum
  <2>1. QED
    BY <1>1
<1>3. \A k \in 0..(ByteBits - 1) : f[k] = sum(k)
  <2> HIDE DEF sum
  <2>1. \A k \in 0..(ByteBits - 1) : k \in 0..Top /\ k \in Nat
    BY <1>0, TopIs
  <2>2. QED
    BY <2>1
<1> HIDE DEF f
<1>4. \E z \in 0..(Base - 1) : \A k \in 0..(ByteBits - 1) : Bit(z, k) = f[k]
  <2>1. \E z \in 0..(2^ByteBits - 1) : \A k \in 0..(ByteBits - 1) : Bit(z, k) = f[k]
    BY <1>0, <1>2, BitsExist
  <2>2. QED
    BY <2>1 DEF Base
<1>5. \E z \in 0..(Base - 1) : Is(z)
  <2> HIDE DEF sum
  <2>1. QED
    BY <1>3, <1>4
<1>6. XorByte(x, y) = CHOOSE z \in 0..(Base - 1) : Is(z)
  BY DEF XorByte
<1> HIDE DEF Is
<1>7. XorByte(x, y) \in 0..(Base - 1) /\ Is(XorByte(x, y))
  BY <1>5, <1>6
<1>8. \A z \in 0..(Base - 1) : z \in Nat
  BY <1>0
<1>9. QED
  BY <1>7, <1>8 DEF Is

LEMMA XorIs == \A x, y \in Nat : XorByte(x, y) \in Nat
BY XorBits

(* Twice with the same byte gives back what was there.                     *)
LEMMA XorReturns ==
  ASSUME NEW x \in 0..(Base - 1), NEW y \in Nat
  PROVE  XorByte(XorByte(x, y), y) = x
<1>0. ByteBits \in 0..Top /\ Base \in Nat /\ x \in Nat
  BY TopIs, OaepAssumption
<1> DEFINE w == XorByte(x, y)
           z == XorByte(w, y)
<1>1. w \in Nat /\ \A k \in 0..(ByteBits - 1) : Bit(w, k) = (Bit(x, k) + Bit(y, k)) % 2
  BY <1>0, XorBits
<1> HIDE DEF w
<1>2. z \in 0..(Base - 1) /\ \A k \in 0..(ByteBits - 1) : Bit(z, k) = (Bit(w, k) + Bit(y, k)) % 2
  BY <1>1, XorBits
<1> HIDE DEF z
<1>3. ASSUME NEW k \in 0..(ByteBits - 1) PROVE Bit(z, k) = Bit(x, k)
  <2>1. k \in 0..Top
    BY <1>0, TopIs
  <2>2. Bit(x, k) \in 0..1 /\ Bit(y, k) \in 0..1
    BY <1>0, <2>1, BitIs
  <2>3. \A i, j \in 0..1 : (((i + j) % 2) + j) % 2 = i
    OBVIOUS
  <2>4. QED
    BY <1>1, <1>2, <2>2, <2>3
<1>4. z = x
  BY <1>0, <1>2, <1>3, BitsDecide DEF Base
<1>5. QED
  BY <1>4 DEF z, w

LEMMA MaskIs ==
  ASSUME HashesBytes, NEW s \in Seq(Nat), NEW seed \in Seq(Nat)
  PROVE  Mgf1Xor(s, seed) \in Seq(Nat)
<1>1. HashLen \in Nat /\ HashLen > 0 /\ Base \in Nat
  BY OaepAssumption
<1>2. ASSUME NEW k \in 1..Len(s)
      PROVE  XorByte(s[k], HashOf(Append(seed, (k - 1) \div HashLen))[((k - 1) % HashLen) + 1]) \in Nat
  <2>1. (k - 1) \div HashLen \in Nat /\ ((k - 1) % HashLen) + 1 \in 1..HashLen
    <3>1. k - 1 \in Nat
      OBVIOUS
    <3>2. (k - 1) \div HashLen \in Nat /\ (k - 1) % HashLen \in Nat /\ (k - 1) % HashLen < HashLen
      BY <1>1, <3>1, Euclid
    <3>3. QED
      BY <1>1, <3>2
  <2>2. Append(seed, (k - 1) \div HashLen) \in Seq(Nat)
    BY <2>1
  <2>3. HashOf(Append(seed, (k - 1) \div HashLen)) \in [1..HashLen -> 0..(Base - 1)]
    BY <2>2 DEF HashesBytes
  <2>4. HashOf(Append(seed, (k - 1) \div HashLen))[((k - 1) % HashLen) + 1] \in Nat
    BY <1>1, <2>1, <2>3
  <2>5. s[k] \in Nat
    OBVIOUS
  <2>6. QED
    BY <2>4, <2>5, XorIs
<1>3. Mgf1Xor(s, seed) \in [1..Len(s) -> Nat] /\ Len(s) \in Nat
  BY <1>2 DEF Mgf1Xor
<1>4. \A n \in Nat : \A t \in [1..n -> Nat] : t \in Seq(Nat)
  OBVIOUS
<1>5. QED
  BY <1>3, <1>4

LEMMA EncodedIs ==
  ASSUME HashesBytes, key \in Keys, NEW m \in Messages, NEW l \in Labels, NEW seed \in OaepSeeds,
         Len(m) <= KeyLen - 2 * HashLen - 2
  PROVE  Encoded(m, l, seed) \in Seq(Nat)
<1>1. HashLen \in Nat /\ Base \in Nat /\ KeyLen \in Nat
  BY OaepAssumption, KeyIs
<1>2. \A s \in Seq(0..(Base - 1)) : s \in Seq(Nat)
  BY <1>1
<1>3. m \in Seq(Nat) /\ l \in Seq(Nat)
  BY <1>2, OaepAssumption
<1>4. seed \in Seq(Nat)
  <2>1. seed \in [1..HashLen -> Nat]
    BY <1>1, OaepAssumption
  <2>2. QED
    BY <1>1, <2>1
<1>5. HashOf(l) \in Seq(Nat)
  <2>1. HashOf(l) \in [1..HashLen -> Nat]
    BY <1>1, <1>3 DEF HashesBytes
  <2>2. QED
    BY <1>1, <2>1
<1> DEFINE zeros == [k \in 1..(KeyLen - 2 * HashLen - 2 - Len(m)) |-> 0]
<1>6. zeros \in Seq(Nat)
  <2>1. KeyLen - 2 * HashLen - 2 - Len(m) \in Nat
    BY <1>1, <1>3
  <2>2. QED
    BY <2>1
<1> HIDE DEF zeros
<1> DEFINE db == HashOf(l) \o zeros \o <<1>> \o m
<1>7. db \in Seq(Nat)
  BY <1>3, <1>5, <1>6
<1> HIDE DEF db
<1> DEFINE masked == Mgf1Xor(db, seed)
<1>8. masked \in Seq(Nat) /\ Mgf1Xor(seed, masked) \in Seq(Nat)
  BY <1>4, <1>7, MaskIs
<1> HIDE DEF masked
<1>9. <<0>> \o Mgf1Xor(seed, masked) \o masked \in Seq(Nat)
  BY <1>8
<1>10. QED
  BY <1>9 DEF Encoded, masked, db, zeros

Bound == 2^VeilBits

(* While the loop of goo_veil runs, c is a residue, and no draw was made.  *)
VeilInv ==
  /\ key \in Keys
  /\ draws \in {0, 1}
  /\ oaepPc \in {"idle", "veil"} => draws = 0
  /\ oaepPc = "veil" =>
       /\ c \in Nat /\ c < Modulus /\ Modulus <= Bound /\ Bound \in Nat
       /\ rmax = Rmax(c)

(* Rounding up: rmax multiples of n fit above c, and one more does not.    *)
LEMMA RmaxIs ==
  ASSUME NEW n \in Nat, NEW x \in Nat, x < n, NEW b \in Nat, n <= b
  PROVE  LET r == (b - x + n - 1) \div n
         IN r \in Nat /\ r > 0 /\ x + r * n >= b /\ x + (r - 1) * n < b
<1> DEFINE y == b - x + n - 1
           r == y \div n
<1>1. y \in Nat /\ y >= n /\ n > 0 /\ y = b - x + n - 1
  OBVIOUS
<1> HIDE DEF y
<1>2. r \in Nat /\ r * n <= y /\ y < r * n + n
  <2>1. r \in Nat /\ y % n \in Nat /\ y % n < n /\ y = r * n + (y % n)
    BY <1>1, SMT
  <2>2. r * n \in Nat
    BY <1>1, <2>1
  <2> HIDE DEF r
  <2>3. QED
    BY <1>1, <2>1, <2>2
<1> HIDE DEF r
<1>3. r > 0
  <2>1. ASSUME r = 0 PROVE FALSE
    BY <1>1, <1>2, <2>1
  <2>2. QED
    BY <1>2, <2>1
<1> DEFINE z == r * n
<1>4. z \in Nat /\ (r - 1) * n = z - n
  BY <1>1, <1>2
<1>5. z <= y /\ y < z + n
  BY <1>2
<1> HIDE DEF z
<1>6. x + z >= b /\ x + (z - n) < b
  BY <1>1, <1>4, <1>5
<1>7. x + r * n >= b /\ x + (r - 1) * n < b
  BY <1>4, <1>6 DEF z
<1>8. QED
  BY <1>2, <1>3, <1>7 DEF r, y

LEMMA RmaxHolds ==
  ASSUME VeilInv, oaepPc = "veil"
  PROVE  /\ rmax \in Nat /\ rmax > 0 /\ c + rmax * Modulus >= Bound
         /\ c + (rmax - 1) * Modulus < Bound
<1>1. /\ Modulus \in Nat /\ Modulus > 0 /\ c \in Nat /\ c < Modulus
      /\ Modulus <= Bound /\ Bound \in Nat
  BY KeyIs DEF VeilInv
<1>2. rmax = (Bound - c + Modulus - 1) \div Modulus
  BY DEF VeilInv, Rmax, Bound
<1>3. QED
  BY <1>1, <1>2, RmaxIs

LEMMA ModulusLength ==
  ASSUME key \in Keys, ValidModulus
  PROVE  Modulus < 2^BitLength(Modulus) /\ BitLength(Modulus) \in 0..MaxBits
<1>1. Modulus \in Nat /\ MinBits \in Nat /\ MaxBits \in Nat /\ Slack \in Nat
  BY KeyIs, OaepAssumption
<1>2. PICK s \in 0..Modulus : Modulus < 2^s
  BY LengthAssumption DEF Modulus
<1> DEFINE n == Modulus
<1> HIDE DEF n
<1>3. n \in Nat /\ s \in 0..n /\ n < 2^s
  BY <1>1, <1>2 DEF n
<1>4. n < 2^BitLength(n)
  BY <1>3, BitLengthLeast
<1>5. QED
  BY <1>1, <1>4 DEF ValidModulus, n

LEMMA NarrowEnough ==
  ASSUME key \in Keys, ValidModulus
  PROVE  Modulus <= Bound /\ Bound \in Nat
<1>1. Modulus \in Nat /\ MaxBits \in Nat /\ VeilBits \in Nat /\ MaxBits <= VeilBits
      /\ VeilBits <= Top /\ Top \in Nat
  BY KeyIs, TopIs
<1> DEFINE b == BitLength(Modulus)
<1>2. Modulus < 2^b /\ b \in 0..MaxBits
  BY ModulusLength
<1> HIDE DEF b
<1>3. 2^b <= 2^VeilBits
  BY <1>1, <1>2, TwoMonotone
<1>4. 2^b \in Nat /\ 2^VeilBits \in Nat
  BY <1>1, <1>2, TwoGrows
<1> DEFINE w == 2^b
           y == 2^VeilBits
<1> HIDE DEF w, y
<1>5. w \in Nat /\ y \in Nat /\ Modulus < w /\ w <= y
  BY <1>2, <1>3, <1>4 DEF w, y
<1>6. Modulus <= y /\ y \in Nat
  BY <1>1, <1>5
<1>7. QED
  BY <1>6 DEF y, Bound

LEMMA EncryptVeil ==
  ASSUME HashesBytes, VeilInv, NEW m \in Messages, NEW l \in Labels, NEW seed \in OaepSeeds,
         Encrypt(m, l, seed)
  PROVE  VeilInv'
<1>1. key' = key /\ key \in Keys /\ draws' = draws /\ draws = 0 /\ oaepPc = "idle"
  BY DEF Encrypt, VeilInv
<1>2. CASE oaepPc' = "done"
  BY <1>1, <1>2 DEF VeilInv
<1>3. CASE oaepPc' # "done"
  <2>1. /\ ValidModulus /\ Len(m) <= KeyLen - 2 * HashLen - 2
        /\ oaepPc' = "veil" /\ rmax' = Rmax(c')
        /\ \E block \in {Encoded(m, l, seed)} : \E x \in {Import(block)} :
             c' = PowMod(x, key.e, Modulus)
    BY <1>3 DEF Encrypt, OaepFail
  <2>2. PICK x : x = Import(Encoded(m, l, seed)) /\ c' = PowMod(x, key.e, Modulus)
    BY <2>1
  <2>3. x \in Nat
    BY <1>1, <2>1, <2>2, EncodedIs, ImportIs
  <2>4. Modulus \in Nat /\ Modulus > 0 /\ key.e \in Nat
    BY <1>1, KeyIs
  <2>5. c' \in 0..(Modulus - 1)
    <3>1. x \in Int
      BY <2>3
    <3>2. PowMod(x, key.e, Modulus) \in 0..(Modulus - 1)
      BY <2>4, <3>1, PowModIs
    <3>3. QED
      BY <2>2, <3>2
  <2>6. Modulus <= Bound /\ Bound \in Nat
    BY <1>1, <2>1, NarrowEnough
  <2>7. Modulus' = Modulus /\ Bound' = Bound /\ Rmax(c') = (Rmax(c))'
    BY <1>1 DEF Modulus, Bound, Rmax, VeilBits
  <2>8. QED
    BY <1>1, <2>1, <2>4, <2>5, <2>6, <2>7 DEF VeilInv
<1>4. QED
  BY <1>2, <1>3

LEMMA VeilTurn ==
  ASSUME VeilInv, Veil
  PROVE  VeilInv'
<1>1. oaepPc = "veil" /\ key' = key /\ draws' = draws + 1 /\ draws = 0 /\ key \in Keys
  BY DEF Veil, VeilInv
<1>2. PICK r \in 0..(rmax - 1) :
        IF c + r * Modulus < Bound
        THEN c' = c + r * Modulus /\ oaepPc' = "sent"
        ELSE UNCHANGED <<c, oaepPc>>
  BY DEF Veil, Bound
<1>3. /\ rmax \in Nat /\ rmax > 0 /\ c + (rmax - 1) * Modulus < Bound
      /\ Modulus \in Nat /\ c \in Nat /\ Bound \in Nat
  BY <1>1, RmaxHolds, KeyIs DEF VeilInv
<1>4. c + r * Modulus < Bound
  <2> DEFINE t == r * Modulus
             z == (rmax - 1) * Modulus
  <2>1. t <= z /\ t \in Nat /\ z \in Nat
    <3>1. PICK d \in Nat : rmax - 1 = r + d
      BY <1>3, r \in Nat /\ r <= rmax - 1 /\ (rmax - 1) - r \in Nat
    <3>2. (r + d) * Modulus = t + d * Modulus /\ d * Modulus \in Nat /\ t \in Nat
      BY <1>3
    <3> DEFINE a == d * Modulus
    <3>3. z = t + a /\ a \in Nat /\ t \in Nat
      BY <3>1, <3>2
    <3> HIDE DEF a, t, z
    <3>4. QED
      BY <3>3
  <2>2. c + z < Bound
    BY <1>3
  <2> HIDE DEF t, z
  <2>3. c + t < Bound
    BY <1>3, <2>1, <2>2
  <2>4. QED
    BY <2>3 DEF t
<1>5. oaepPc' = "sent"
  BY <1>2, <1>4
<1>6. QED
  BY <1>1, <1>5 DEF VeilInv

LEMMA VeilInitInv == OaepInit => VeilInv
BY DEF OaepInit, VeilInv

LEMMA VeilNextInv ==
  ASSUME HashesBytes
  PROVE  VeilInv /\ [OaepNext]_oaepVars => VeilInv'
<1> SUFFICES ASSUME VeilInv, [OaepNext]_oaepVars PROVE VeilInv'
  OBVIOUS
<1>1. ASSUME NEW m \in Messages, NEW l \in Labels, NEW seed \in OaepSeeds, Encrypt(m, l, seed)
      PROVE  VeilInv'
  BY <1>1, EncryptVeil
<1>2. ASSUME Veil PROVE VeilInv'
  BY <1>2, VeilTurn
<1>3. ASSUME key' = key, draws' = draws, oaepPc' \notin {"idle", "veil"} PROVE VeilInv'
  BY <1>3 DEF VeilInv
<1>4. ASSUME NEW v, NEW l, Unveil(v, l) PROVE VeilInv'
  <2>1. key' = key /\ draws' = draws /\ oaepPc' \in {"done", "blind"}
    BY <1>4 DEF Unveil, OaepFail
  <2>2. QED
    BY <1>3, <2>1
<1>5. ASSUME UNCHANGED oaepVars PROVE VeilInv'
  <2>1. UNCHANGED <<oaepPc, key, c, rmax, draws>>
    BY <1>5 DEF oaepVars
  <2>2. QED
    BY <2>1 DEF VeilInv, Rmax, Modulus, Bound, VeilBits
<1>6. ASSUME DrawUnit \/ Scan \/ Decode PROVE VeilInv'
  <2>1. key' = key /\ draws' = draws /\ oaepPc' \in {"scan", "done"}
    BY <1>6 DEF DrawUnit, Scan, Decode
  <2>2. QED
    BY <1>3, <2>1
<1>7. QED
  BY <1>1, <1>2, <1>4, <1>5, <1>6 DEF OaepNext, Decrypt, DecryptOther, DrawNonUnit

(* For a hash that gives digests: no draw of goo_veil is refused, and the  *)
(* range leaves out no number of the class of c below 2^bits.              *)
THEOREM VeilIsExactAlways ==
  ASSUME HashesBytes
  PROVE  OaepSpec => []VeilIsExact
<1>1. VeilInv => VeilIsExact
  BY RmaxHolds DEF VeilInv, VeilIsExact, Bound
<1>2. VeilInv /\ [OaepNext]_oaepVars => VeilInv'
  BY VeilNextInv
<1>3. QED
  BY <1>1, <1>2, VeilInitInv, PTL DEF OaepSpec

------------------------------------------------------------------------------
(* The round trip.                                                         *)

Byte == 0..(Base - 1)

LEMMA ByteIs == Base \in Nat /\ Base >= 2 /\ 0 \in Byte /\ 1 \in Byte /\ \A x \in Byte : x \in Nat
BY OaepAssumption DEF Byte

LEMMA BytesAreNumbers == ASSUME NEW s \in Seq(Byte) PROVE s \in Seq(Nat)
BY ByteIs

(* The byte of the digests that meets byte k.                              *)
Pad(seed, k) == HashOf(Append(seed, (k - 1) \div HashLen))[((k - 1) % HashLen) + 1]

LEMMA PadIs ==
  ASSUME HashesBytes, NEW seed \in Seq(Nat), NEW k \in Nat, k > 0
  PROVE  Pad(seed, k) \in Nat
<1>1. HashLen \in Nat /\ HashLen > 0 /\ Base \in Nat
  BY OaepAssumption
<1>2. (k - 1) \div HashLen \in Nat /\ ((k - 1) % HashLen) + 1 \in 1..HashLen
  <2>1. k - 1 \in Nat
    OBVIOUS
  <2>2. (k - 1) \div HashLen \in Nat /\ (k - 1) % HashLen \in Nat /\ (k - 1) % HashLen < HashLen
    BY <1>1, <2>1, Euclid
  <2>3. QED
    BY <1>1, <2>2
<1>3. Append(seed, (k - 1) \div HashLen) \in Seq(Nat)
  BY <1>2
<1>4. HashOf(Append(seed, (k - 1) \div HashLen)) \in [1..HashLen -> 0..(Base - 1)]
  BY <1>3 DEF HashesBytes
<1>5. QED
  BY <1>1, <1>2, <1>4 DEF Pad

LEMMA MaskReturns ==
  ASSUME HashesBytes, NEW s \in Seq(Byte), NEW seed \in Seq(Nat)
  PROVE  /\ Mgf1Xor(s, seed) \in Seq(Byte) /\ Len(Mgf1Xor(s, seed)) = Len(s)
         /\ Mgf1Xor(Mgf1Xor(s, seed), seed) = s
<1> DEFINE n == Len(s)
           w == Mgf1Xor(s, seed)
<1>1. n \in Nat /\ \A k \in 1..n : k \in Nat /\ k > 0 /\ s[k] \in Byte /\ s[k] \in Nat
  BY ByteIs
<1>2. w = [k \in 1..n |-> XorByte(s[k], Pad(seed, k))]
  BY DEF Mgf1Xor, Pad
<1>3. \A k \in 1..n : Pad(seed, k) \in Nat
  BY <1>1, PadIs
<1>4. \A k \in 1..n : XorByte(s[k], Pad(seed, k)) \in Byte
  BY <1>1, <1>3, XorBits DEF Byte
<1> HIDE DEF w
<1>5. w \in [1..n -> Byte] /\ \A k \in 1..n : w[k] = XorByte(s[k], Pad(seed, k))
  BY <1>2, <1>4
<1>6. w \in Seq(Byte) /\ Len(w) = n
  BY <1>1, <1>5
<1>7. Mgf1Xor(w, seed) = [k \in 1..n |-> XorByte(w[k], Pad(seed, k))]
  BY <1>6 DEF Mgf1Xor, Pad
<1>8. \A k \in 1..n : XorByte(w[k], Pad(seed, k)) = s[k]
  BY <1>1, <1>3, <1>5, XorReturns DEF Byte
<1>9. Mgf1Xor(w, seed) = [k \in 1..n |-> s[k]]
  BY <1>7, <1>8
<1>10. s = [k \in 1..n |-> s[k]]
  OBVIOUS
<1>11. QED
  BY <1>6, <1>9, <1>10 DEF w

(* What is written in KeyLen bytes is what was read from them.             *)
LEMMA BasePowers ==
  ASSUME key \in Keys
  PROVE  /\ KeyLen \in Nat
         /\ \A i \in 0..KeyLen : Base^(i + 1) = Base * Base^i
         /\ \A i \in 0..(KeyLen + 1) : Base^i \in Nat /\ Base^i > 0
         /\ KeyLen > 0 => Modulus >= Base^(KeyLen - 1)
<1>1. KeyLen \in Nat /\ Base \in Nat /\ Base >= 2 /\ KeyLen + 1 \in Nat
  BY KeyIs, ByteIs
<1>2. \A i \in 0..KeyLen : Base^(i + 1) = Base * Base^i
  BY LengthAssumption DEF KeyLen, Modulus
<1>3. \E s \in 0..Modulus : Modulus < Base^s /\ (s > 0 => Modulus >= Base^(s - 1))
  BY LengthAssumption DEF Modulus
<1>4. KeyLen > 0 => Modulus >= Base^(KeyLen - 1)
  BY <1>3 DEF KeyLen, ByteLength
<1> DEFINE S == {i \in Nat : Base^i \in Nat /\ Base^i > 0}
<1>5. 0 \in S
  BY LengthAssumption
<1>6. ASSUME NEW i \in 0..((KeyLen + 1) - 1), i \in S PROVE i + 1 \in S
  <2>1. i \in 0..KeyLen
    BY <1>1
  <2>2. Base^(i + 1) = Base * Base^i
    BY <1>2, <2>1
  <2> DEFINE w == Base^i
  <2>3. w \in Nat /\ w > 0
    BY <1>6
  <2> HIDE DEF w
  <2>4. \A x, y \in Nat : x > 0 /\ y > 0 => x * y \in Nat /\ x * y > 0
    OBVIOUS
  <2>5. Base * w \in Nat /\ Base * w > 0
    BY <1>1, <2>3, <2>4
  <2>6. QED
    BY <2>1, <2>2, <2>5 DEF w
<1> HIDE DEF S
<1>7. \A i \in 0..(KeyLen + 1) : i \in S
  BY <1>1, <1>5, <1>6, UpTo
<1>8. \A i \in 0..(KeyLen + 1) : Base^i \in Nat /\ Base^i > 0
  BY <1>7 DEF S
<1>9. QED
  BY <1>1, <1>2, <1>4, <1>8

LEMMA DigitsLeft ==
  ASSUME key \in Keys, NEW b \in Seq(Byte), Len(b) = KeyLen, NEW u, Reads(b, u)
  PROVE  \A i \in 0..KeyLen :
           \E r \in Nat : r < Base^i /\ u[KeyLen] = u[KeyLen - i] * Base^i + r
<1> DEFINE L == KeyLen
           Holds(i) == \E r \in Nat : r < Base^i /\ u[L] = u[L - i] * Base^i + r
           S == {i \in Nat : i <= L => Holds(i)}
<1>1. /\ L \in Nat /\ Base \in Nat
      /\ \A i \in 0..L : Base^(i + 1) = Base * Base^i
      /\ \A i \in 0..(L + 1) : Base^i \in Nat /\ Base^i > 0
  BY BasePowers, ByteIs
<1>2. u \in [0..L -> Nat] /\ \A k \in 1..L : u[k] = u[k - 1] * Base + b[k]
  BY DEF Reads
<1>3. \A k \in 1..L : b[k] \in 0..(Base - 1)
  <2>1. \A k \in 1..L : b[k] \in Byte
    OBVIOUS
  <2>2. QED
    BY <2>1 DEF Byte
<1> HIDE DEF L
<1>4. 0 \in S
  <2>1. Base^0 = 1 /\ L - 0 = L /\ u[L] \in Nat
    BY <1>1, <1>2, LengthAssumption
  <2>2. u[L] = u[L - 0] * Base^0 + 0 /\ 0 < Base^0
    BY <2>1
  <2>3. QED
    BY <2>2
<1>5. ASSUME NEW i \in 0..(L - 1), i \in S PROVE i + 1 \in S
  <2>1. i \in 0..L /\ i \in 0..(L + 1) /\ L - i \in 1..L /\ (L - i) - 1 = L - (i + 1)
        /\ L - (i + 1) \in 0..L
    BY <1>1
  <2>2. PICK r \in Nat : r < Base^i /\ u[L] = u[L - i] * Base^i + r
    BY <1>5, <2>1
  <2> DEFINE w == Base^i
             a == u[L - (i + 1)]
             d == b[L - i]
  <2>3. w \in Nat /\ w > 0 /\ a \in Nat /\ d \in 0..(Base - 1) /\ d \in Nat
        /\ u[L - i] = a * Base + d /\ Base^(i + 1) = Base * w
    <3>1. w \in Nat /\ w > 0 /\ Base^(i + 1) = Base * w
      BY <1>1, <2>1
    <3>2. a \in Nat /\ u[L - i] = a * Base + d
      BY <1>2, <2>1
    <3>3. d \in 0..(Base - 1)
      BY <1>3, <2>1
    <3>4. QED
      BY <1>1, <3>1, <3>2, <3>3
  <2>4. r < w /\ u[L] = (a * Base + d) * w + r
    BY <2>2, <2>3
  <2> HIDE DEF w, a, d
  <2> DEFINE t == d * w + r
  <2>5. t \in Nat /\ t < Base * w
    <3>1. PICK f \in Nat : Base = d + 1 + f
      <4>1. Base - (d + 1) \in Nat
        BY <1>1, <2>3
      <4>2. Base = d + 1 + (Base - (d + 1))
        BY <1>1, <2>3
      <4>3. QED
        BY <4>1, <4>2
    <3>2. Base * w = d * w + w + f * w
      BY <2>3, <3>1
    <3>3. d * w \in Nat /\ f * w \in Nat
      BY <2>3
    <3> DEFINE x == d * w
               y == f * w
    <3> HIDE DEF x, y
    <3>4. x \in Nat /\ y \in Nat /\ Base * w = x + w + y /\ t = x + r
      BY <3>2, <3>3 DEF x, y
    <3> HIDE DEF t
    <3>5. QED
      BY <2>3, <2>4, <3>4
  <2>6. (a * Base + d) * w + r = a * (Base * w) + t
    BY <1>1, <2>3
  <2> HIDE DEF t
  <2>7. t \in Nat /\ t < Base^(i + 1) /\ u[L] = u[L - (i + 1)] * Base^(i + 1) + t
    BY <2>3, <2>4, <2>5, <2>6 DEF a
  <2>8. i + 1 \in Nat
    BY <2>1
  <2>9. QED
    BY <2>7, <2>8
<1> HIDE DEF S
<1>6. \A i \in 0..L : i \in S
  BY <1>1, <1>4, <1>5, UpTo
<1>7. \A i \in 0..L : Holds(i)
  BY <1>6 DEF S
<1>8. QED
  BY <1>7 DEF L

LEMMA PaddedReturns ==
  ASSUME key \in Keys, NEW b \in Seq(Byte), Len(b) = KeyLen
  PROVE  Padded(KeyLen, Import(b)) = b
<1> DEFINE L == KeyLen
<1>1. /\ L \in Nat /\ Base \in Nat /\ Base > 0
      /\ \A i \in 0..(L + 1) : Base^i \in Nat /\ Base^i > 0
  BY BasePowers, ByteIs
<1>2. b \in Seq(Nat)
  BY BytesAreNumbers
<1>3. PICK u : Reads(b, u) /\ Import(b) = u[L]
  BY <1>2, ImportReads
<1>4. /\ u \in [0..L -> Nat] /\ \A k \in 1..L : u[k] = u[k - 1] * Base + b[k]
      /\ \A k \in 1..L : b[k] \in 0..(Base - 1)
  <2>1. \A k \in 1..L : b[k] \in Byte
    OBVIOUS
  <2>2. \A k \in 1..L : b[k] \in 0..(Base - 1)
    BY <2>1 DEF Byte
  <2>3. u \in [0..L -> Nat] /\ \A k \in 1..L : u[k] = u[k - 1] * Base + b[k]
    BY <1>3 DEF Reads
  <2>4. QED
    BY <2>2, <2>3
<1>5. \A i \in 0..L : \E r \in Nat : r < Base^i /\ u[L] = u[L - i] * Base^i + r
  BY <1>3, DigitsLeft
<1> HIDE DEF L
<1>6. ASSUME NEW k \in 1..L PROVE (u[L] \div Base^(L - k)) % Base = b[k]
  <2>1. L - k \in 0..L /\ L - k \in 0..(L + 1) /\ L - (L - k) = k /\ k \in 0..L /\ k - 1 \in 0..L
    BY <1>1
  <2> DEFINE w == Base^(L - k)
  <2>2. w \in Nat /\ w > 0
    BY <1>1, <2>1
  <2>3. PICK r \in Nat : r < w /\ u[L] = u[k] * w + r
    BY <1>5, <2>1
  <2> HIDE DEF w
  <2>4. r \in 0..(w - 1) /\ u[k] \in Int /\ u[L] \in Int
    <3>1. u[k] \in Nat /\ L \in 0..L /\ u[L] \in Nat
      BY <1>1, <1>4, <2>1
    <3>2. QED
      BY <2>2, <2>3, <3>1
  <2> DEFINE z == u[L]
             a == u[k]
  <2> HIDE DEF z, a
  <2>5. u[L] \div w = u[k]
    <3>1. a \in Int /\ z \in Int /\ r \in 0..(w - 1) /\ z = a * w + r
      BY <2>3, <2>4 DEF a, z
    <3>2. z \div w = a
      BY <2>2, <3>1, QuotientIs
    <3>3. QED
      BY <3>2 DEF a, z
  <2>6. u[k] = u[k - 1] * Base + b[k] /\ b[k] \in 0..(Base - 1) /\ u[k - 1] \in Int
    <3>1. u[k - 1] \in Nat
      BY <1>4, <2>1
    <3>2. QED
      BY <1>4, <3>1
  <2>7. u[k] % Base = b[k]
    <3> DEFINE x == u[k]
               y == u[k - 1]
               d == b[k]
    <3> HIDE DEF x, y, d
    <3>1. x = y * Base + d /\ d \in 0..(Base - 1) /\ y \in Int /\ x \in Int
      BY <2>4, <2>6 DEF x, y, d
    <3>2. x % Base = d
      BY <1>1, <3>1, QuotientIs
    <3>3. QED
      BY <3>2 DEF x, d
  <2>8. QED
    BY <2>5, <2>7 DEF w
<1>7. Padded(L, u[L]) = [k \in 1..L |-> b[k]]
  BY <1>6 DEF Padded
<1>8. b = [k \in 1..L |-> b[k]]
  BY DEF L
<1>9. QED
  BY <1>3, <1>7, <1>8 DEF L

(* A block that starts with 0x00 is below the modulus.                     *)
LEMMA BlockBelow ==
  ASSUME key \in Keys, NEW b \in Seq(Byte), Len(b) = KeyLen, KeyLen > 0, b[1] = 0
  PROVE  Import(b) \in 0..(Modulus - 1)
<1> DEFINE L == KeyLen
<1>1. /\ L \in Nat /\ Base \in Nat /\ Modulus \in Nat
      /\ \A i \in 0..(L + 1) : Base^i \in Nat /\ Base^i > 0
      /\ Modulus >= Base^(L - 1)
  BY BasePowers, ByteIs, KeyIs
<1>2. b \in Seq(Nat)
  BY BytesAreNumbers
<1>3. PICK u : Reads(b, u) /\ Import(b) = u[L]
  BY <1>2, ImportReads
<1>4. u \in [0..L -> Nat] /\ u[0] = 0 /\ \A k \in 1..L : u[k] = u[k - 1] * Base + b[k]
  BY <1>3 DEF Reads
<1>5. \A i \in 0..L : \E r \in Nat : r < Base^i /\ u[L] = u[L - i] * Base^i + r
  BY <1>3, DigitsLeft
<1>0. L > 0
  OBVIOUS
<1> HIDE DEF L
<1>6. L - 1 \in 0..L /\ L - 1 \in 0..(L + 1) /\ L - (L - 1) = 1 /\ 1 \in 1..L /\ 1 - 1 = 0
  BY <1>0, <1>1
<1>7. u[1] = 0
  BY <1>1, <1>4, <1>6
<1>8. PICK r \in Nat : r < Base^(L - 1) /\ u[L] = u[1] * Base^(L - 1) + r
  BY <1>5, <1>6
<1> DEFINE w == Base^(L - 1)
<1>9. w \in Nat /\ r < w /\ u[L] = u[1] * w + r /\ Modulus >= w
  BY <1>1, <1>6, <1>8
<1> HIDE DEF w
<1>10. u[1] * w = 0
  BY <1>7, <1>9
<1>11. u[L] \in Nat /\ u[L] < Modulus
  BY <1>1, <1>9, <1>10
<1>12. QED
  BY <1>1, <1>3, <1>11

(* The key.                                                                *)
Phi == (key.p - 1) * (key.q - 1)

LEMMA RsaKeyIs ==
  ASSUME KeysArePrimes, key \in Keys
  PROVE  /\ key.p \in Nat /\ IsPrimeNumber(key.p) /\ key.p >= 2
         /\ key.q \in Nat /\ IsPrimeNumber(key.q) /\ key.q >= 2
         /\ key.p # key.q /\ key.e \in Nat /\ key.e > 0
         /\ Modulus \in Nat /\ Modulus > 1 /\ Phi \in Nat /\ Phi > 1
<1>1. /\ key.p \in Nat /\ IsPrimeNumber(key.p)
      /\ key.q \in Nat /\ IsPrimeNumber(key.q)
      /\ key.p # key.q /\ key.e \in Nat /\ key.e > 0
  BY OaepAssumption DEF KeysArePrimes
<1>2. key.p >= 2 /\ key.q >= 2
  BY <1>1, PrimeIs
<1>3. \A i, j \in Nat : i >= 2 /\ j >= 2 => i * j \in Nat /\ i * j > 1
  <2>1. ASSUME NEW i \in Nat, NEW j \in Nat, i >= 2, j >= 2 PROVE i * j \in Nat /\ i * j > 1
    <3>1. i * j >= i * 2
      BY <2>1
    <3>2. QED
      BY <2>1, <3>1
  <2>2. QED
    BY <2>1
<1>4. Modulus \in Nat /\ Modulus > 1
  BY <1>1, <1>2, <1>3 DEF Modulus
<1>5. Phi \in Nat /\ Phi > 1
  <2> DEFINE i == key.p - 1
             j == key.q - 1
  <2>1. i \in Nat /\ j \in Nat /\ i >= 1 /\ j >= 1 /\ (i >= 2 \/ j >= 2)
    BY <1>1, <1>2
  <2> HIDE DEF i, j
  <2>2. i >= 2 => i * j >= i
    BY <2>1
  <2>3. j >= 2 => i * j >= j
    BY <2>1
  <2>4. i * j \in Nat /\ i * j > 1
    BY <2>1, <2>2, <2>3
  <2>5. QED
    BY <2>4 DEF Phi, i, j
<1>6. QED
  BY <1>1, <1>2, <1>4, <1>5

LEMMA CoprimeBack ==
  ASSUME NEW x \in Nat, x > 0, NEW y \in Nat, y > 0, Coprime(x, y)
  PROVE  Coprime(y, x)
<1>1. AbsVal(x) = x /\ AbsVal(y) = y
  BY DEF AbsVal
<1>2. ASSUME NEW d \in 2..x, y % d = 0, x % d = 0 PROVE FALSE
  <2>1. d <= y
    <3>1. ASSUME d > y PROVE FALSE
      <4>1. y % d = y
        BY <3>1
      <4>2. QED
        BY <1>2, <4>1
    <3>2. QED
      BY <3>1
  <2>2. d \in 2..AbsVal(y)
    BY <1>1, <2>1
  <2>3. QED
    BY <1>2, <2>2 DEF Coprime, Divides
<1>3. QED
  BY <1>1, <1>2 DEF Coprime, Divides

LEMMA PrivateIs ==
  ASSUME KeysArePrimes, key \in Keys, Coprime(key.e, Phi)
  PROVE  PrivateExponent \in Nat /\ (key.e * PrivateExponent) % Phi = 1
<1>1. Phi \in Nat /\ Phi > 1 /\ key.e \in Int
  BY RsaKeyIs
<1>2. \E d \in 0..(Phi - 1) : (key.e * d) % Phi = 1
  BY <1>1, InverseExists
<1>3. PrivateExponent = CHOOSE d \in 0..(Phi - 1) : (key.e * d) % Phi = 1
  BY DEF PrivateExponent, Phi
<1>4. PrivateExponent \in 0..(Phi - 1) /\ (key.e * PrivateExponent) % Phi = 1
  BY <1>2, <1>3
<1>5. QED
  BY <1>1, <1>4

(* Whatever unit blinds it, the number that was encrypted comes back.      *)
LEMMA UnblindedIs ==
  ASSUME KeysArePrimes, key \in Keys, Coprime(key.e, Phi), NEW s \in Units,
         NEW x \in 0..(Modulus - 1), c = PowMod(x, key.e, Modulus)
  PROVE  Unblinded(s) = x
<1>1. /\ key.p \in Nat /\ IsPrimeNumber(key.p) /\ key.q \in Nat /\ IsPrimeNumber(key.q)
      /\ key.p # key.q /\ key.e \in Nat /\ Modulus \in Nat /\ Modulus > 1
      /\ Modulus = key.p * key.q
  BY RsaKeyIs DEF Modulus
<1>2. PrivateExponent \in Nat /\ (key.e * PrivateExponent) % ((key.p - 1) * (key.q - 1)) = 1
  BY PrivateIs DEF Phi
<1>3. s \in Nat /\ Coprime(s, Modulus)
  BY OaepAssumption DEF Units
<1>4. \E b \in 0..(Modulus - 1) : (s * b) % Modulus = 1
  <2> DEFINE n == Modulus
  <2> HIDE DEF n
  <2>1. n \in Nat /\ n > 1 /\ s \in Int /\ Coprime(s, n)
    BY <1>1, <1>3 DEF n
  <2>2. \E b \in 0..(n - 1) : (s * b) % n = 1
    BY <2>1, InverseExists
  <2>3. QED
    BY <2>2 DEF n
<1> DEFINE b == Factor(s)
<1>5. b \in 0..(Modulus - 1) /\ (s * b) % Modulus = 1
  BY <1>4 DEF Factor, InverseOf
<1> HIDE DEF b
<1>6. c \in Int
  <2>1. x \in Int /\ Modulus > 0
    BY <1>1
  <2>2. c \in 0..(Modulus - 1)
    BY <1>1, <2>1, PowModIs
  <2>3. QED
    BY <2>2
<1> DEFINE d == PrivateExponent
           e == key.e
           m == key.p
           w == key.q
<1> HIDE DEF d, e, m, w
<1>7. /\ m \in Nat /\ IsPrimeNumber(m) /\ w \in Nat /\ IsPrimeNumber(w) /\ m # w
      /\ e \in Nat /\ d \in Nat /\ (e * d) % ((m - 1) * (w - 1)) = 1
      /\ x \in 0..(m * w - 1) /\ (s * b) % (m * w) = 1 /\ c = PowMod(x, e, m * w)
      /\ Modulus = m * w
  BY <1>1, <1>2, <1>5 DEF d, e, m, w
<1>8. b \in Int
  BY <1>5
<1>9. (PowMod((c * PowMod(s, e, m * w)) % (m * w), d, m * w) * b) % (m * w) = x
  BY <1>3, <1>6, <1>7, <1>8, RsaBlinded
<1>10. QED
  BY <1>7, <1>9 DEF Unblinded, b, d, e

(* The checks of goo_decrypt_oaep hold of a key that encrypted.            *)
LEMMA PrimesAreValid ==
  ASSUME KeysArePrimes, key \in Keys, ValidModulus
  PROVE  ValidPrime(key.p) /\ ValidPrime(key.q)
<1>1. /\ key.p \in Nat /\ key.p >= 2 /\ key.q \in Nat /\ key.q >= 2 /\ Modulus \in Nat
      /\ Modulus = key.p * key.q
  BY RsaKeyIs DEF Modulus
<1>2. ASSUME NEW a \in Nat, NEW b \in Nat, a >= 2, b >= 2, Modulus = a * b PROVE ValidPrime(a)
  <2>1. a % 2 = 1
    <3>1. ASSUME a % 2 = 0 PROVE FALSE
      <4>1. Multiple(2, a)
        BY <1>2, <3>1, MultipleIs
      <4>2. Multiple(2, a * b) /\ a * b \in Int
        <5>1. 2 \in Int /\ a \in Int /\ b \in Int
          OBVIOUS
        <5>2. Multiple(2, a * b)
          BY <4>1, <5>1, MultipleTimes
        <5>3. QED
          BY <5>1, <5>2
      <4>3. Multiple(2, Modulus) /\ Modulus \in Int
        BY <1>2, <4>2
      <4>4. Modulus % 2 = 0
        BY <4>3, MultipleIs
      <4>5. QED
        BY <4>4 DEF ValidModulus
    <3>2. a % 2 = 0 \/ a % 2 = 1
      OBVIOUS
    <3>3. QED
      BY <3>1, <3>2
  <2>2. a <= Modulus
    <3>1. a * b >= a * 1
      BY <1>2
    <3>2. QED
      BY <1>2, <3>1
  <2> DEFINE h == BitLength(Modulus)
  <2>3. Modulus < 2^h /\ h \in 0..MaxBits
    BY ModulusLength
  <2> HIDE DEF h
  <2>4. h \in 0..Top /\ 2^h \in Nat /\ h \in 0..(Top + 1)
    <3>1. h \in 0..Top /\ h \in 0..(Top + 1)
      BY <2>3, TopIs
    <3>2. QED
      BY <3>1, TwoGrows
  <2>5. a < 2^h
    <3> DEFINE y == 2^h
    <3> HIDE DEF y
    <3>1. y \in Nat /\ Modulus < y
      BY <2>3, <2>4 DEF y
    <3>2. a < y
      BY <1>1, <1>2, <2>2, <3>1
    <3>3. QED
      BY <3>2 DEF y
  <2> DEFINE g == BitLength(a)
  <2>6. g \in 0..h /\ a < 2^g
    BY <2>4, <2>5, BitLengthIs
  <2> HIDE DEF g
  <2>7. 2^0 = 1 /\ 2^1 = 2
    BY Z3
  <2>8. g # 0 /\ g # 1
    <3>1. ASSUME g = 0 PROVE FALSE
      <4>1. a < 2^0
        BY <2>6, <3>1
      <4>2. QED
        BY <1>2, <2>7, <4>1
    <3>2. ASSUME g = 1 PROVE FALSE
      <4>1. a < 2^1
        BY <2>6, <3>2
      <4>2. QED
        BY <1>2, <2>7, <4>1
    <3>3. QED
      BY <3>1, <3>2
  <2>9. g \in 2..MaxBits
    BY <2>3, <2>6, <2>8, TopIs
  <2>10. QED
    BY <2>1, <2>9 DEF ValidPrime, g
<1>3. Modulus = key.q * key.p
  BY <1>1
<1>4. QED
  BY <1>1, <1>2, <1>3

LEMMA VeilFits ==
  ASSUME NEW x \in Nat, x < Bound
  PROVE  BitLength(x) <= VeilBits
<1>1. VeilBits \in 0..Top /\ VeilBits \in Nat
  BY TopIs
<1>2. x < 2^VeilBits
  BY DEF Bound
<1>3. BitLength(x) \in 0..VeilBits
  BY <1>1, <1>2, BitLengthIs
<1>4. QED
  BY <1>1, <1>3

(* Parts of a concatenation.                                               *)
LEMMA MiddleIs ==
  ASSUME NEW S, NEW a \in Seq(S), NEW b \in Seq(S), NEW d \in Seq(S)
  PROVE  /\ (a \o b) \o d \in Seq(S) /\ Len((a \o b) \o d) = Len(a) + Len(b) + Len(d)
         /\ SubSeq((a \o b) \o d, Len(a) + 1, Len(a) + Len(b)) = b
         /\ SubSeq((a \o b) \o d, Len(a) + Len(b) + 1, Len((a \o b) \o d)) = d
         /\ \A i \in 1..Len(a) : ((a \o b) \o d)[i] = a[i]
         /\ \A i \in 1..Len(b) : ((a \o b) \o d)[Len(a) + i] = b[i]
         /\ \A i \in 1..Len(d) : ((a \o b) \o d)[Len(a) + Len(b) + i] = d[i]
<1> DEFINE h == a \o b
           s == h \o d
           i0 == Len(a)
           j0 == Len(b)
           k0 == Len(d)
<1>1. /\ i0 \in Nat /\ j0 \in Nat /\ k0 \in Nat
      /\ h \in Seq(S) /\ Len(h) = i0 + j0
      /\ \A i \in 1..(i0 + j0) : h[i] = IF i <= i0 THEN a[i] ELSE b[i - i0]
  BY ConcatProperties
<1> HIDE DEF h
<1>2. /\ s \in Seq(S) /\ Len(s) = i0 + j0 + k0
      /\ \A i \in 1..(i0 + j0 + k0) : s[i] = IF i <= i0 + j0 THEN h[i] ELSE d[i - (i0 + j0)]
  <2>1. /\ s \in Seq(S) /\ Len(s) = Len(h) + Len(d)
        /\ \A i \in 1..(Len(h) + Len(d)) : s[i] = IF i <= Len(h) THEN h[i] ELSE d[i - Len(h)]
    <3>1. h \in Seq(S) /\ d \in Seq(S)
      BY <1>1
    <3>2. QED
      BY <3>1, ConcatProperties
  <2>2. QED
    BY <1>1, <2>1
<1> HIDE DEF s
<1>3. ASSUME NEW i \in 1..i0 PROVE s[i] = a[i]
  <2>1. i \in 1..(i0 + j0) /\ i \in 1..(i0 + j0 + k0) /\ i <= i0 /\ i <= i0 + j0
    BY <1>1
  <2>2. QED
    BY <1>1, <1>2, <2>1
<1>4. ASSUME NEW i \in 1..j0 PROVE s[i0 + i] = b[i]
  <2>1. i0 + i \in 1..(i0 + j0) /\ i0 + i \in 1..(i0 + j0 + k0) /\ ~(i0 + i <= i0)
        /\ i0 + i <= i0 + j0 /\ (i0 + i) - i0 = i
    BY <1>1
  <2>2. QED
    BY <1>1, <1>2, <2>1
<1>5. ASSUME NEW i \in 1..k0 PROVE s[i0 + j0 + i] = d[i]
  <2>1. i0 + j0 + i \in 1..(i0 + j0 + k0) /\ ~(i0 + j0 + i <= i0 + j0)
        /\ (i0 + j0 + i) - (i0 + j0) = i
    BY <1>1
  <2>2. QED
    BY <1>2, <2>1
<1>6. \A i \in 1..Len(s) : s[i] \in S
  BY <1>2
<1>7. SubSeq(s, i0 + 1, i0 + j0) = b
  <2> DEFINE t == SubSeq(s, i0 + 1, i0 + j0)
  <2>1. i0 + 1 \in Int /\ i0 + j0 \in Int /\ \A i \in (i0 + 1)..(i0 + j0) : s[i] \in S
    BY <1>1, <1>2, <1>6
  <2>2. /\ t \in Seq(S) /\ Len(t) = IF i0 + 1 <= i0 + j0 THEN (i0 + j0) - (i0 + 1) + 1 ELSE 0
        /\ \A i \in 1..((i0 + j0) - (i0 + 1) + 1) : t[i] = s[(i0 + 1) + i - 1]
    BY <2>1, SubSeqProperties
  <2> HIDE DEF t
  <2>3. Len(t) = j0 /\ (i0 + j0) - (i0 + 1) + 1 = j0
    BY <1>1, <2>2
  <2>4. ASSUME NEW i \in 1..j0 PROVE t[i] = b[i]
    <3>1. (i0 + 1) + i - 1 = i0 + i
      BY <1>1
    <3>2. QED
      BY <1>4, <2>2, <2>3, <3>1
  <2>5. t = b
    BY <2>2, <2>3, <2>4, SeqEqual
  <2>6. QED
    BY <2>5 DEF t
<1>8. SubSeq(s, i0 + j0 + 1, Len(s)) = d
  <2> DEFINE t == SubSeq(s, i0 + j0 + 1, Len(s))
             x == i0 + j0 + 1
             y == i0 + j0 + k0
  <2>1. x \in Int /\ y \in Int /\ Len(s) = y /\ \A i \in x..y : s[i] \in S
    BY <1>1, <1>2, <1>6
  <2>2. /\ t \in Seq(S) /\ Len(t) = IF x <= y THEN y - x + 1 ELSE 0
        /\ \A i \in 1..(y - x + 1) : t[i] = s[x + i - 1]
    <3> HIDE DEF x, y
    <3>1. /\ SubSeq(s, x, y) \in Seq(S)
          /\ Len(SubSeq(s, x, y)) = IF x <= y THEN y - x + 1 ELSE 0
          /\ \A i \in 1..(y - x + 1) : SubSeq(s, x, y)[i] = s[x + i - 1]
      BY <2>1, SubSeqProperties
    <3>2. t = SubSeq(s, x, y)
      BY <2>1 DEF x
    <3> HIDE DEF t
    <3>3. QED
      BY <3>1, <3>2
  <2> HIDE DEF t
  <2>3. Len(t) = k0 /\ y - x + 1 = k0
    BY <1>1, <2>2
  <2>4. ASSUME NEW i \in 1..k0 PROVE t[i] = d[i]
    <3>1. x + i - 1 = i0 + j0 + i
      BY <1>1
    <3>2. QED
      BY <1>5, <2>2, <2>3, <3>1
  <2>5. t = d
    BY <2>2, <2>3, <2>4, SeqEqual
  <2>6. QED
    BY <2>5 DEF t
<1>9. QED
  BY <1>2, <1>3, <1>4, <1>5, <1>7, <1>8 DEF s, h

(* The data block: the label's hash, zeros, 0x01 and the message.          *)
Zeros(m) == KeyLen - 2 * HashLen - 2 - Len(m)
DataBlock(m, l) == HashOf(l) \o [k \in 1..Zeros(m) |-> 0] \o <<1>> \o m

Fits(m, l, seed) ==
  /\ m \in Messages /\ l \in Labels /\ seed \in OaepSeeds
  /\ KeyLen >= 2 * HashLen + 2 /\ Len(m) <= KeyLen - 2 * HashLen - 2

LEMMA PartsAre ==
  ASSUME key \in Keys, NEW m, NEW l, NEW seed, Fits(m, l, seed)
  PROVE  /\ HashLen \in Nat /\ HashLen > 0 /\ KeyLen \in Nat /\ Zeros(m) \in Nat
         /\ m \in Seq(Byte) /\ Len(m) \in Nat /\ l \in Seq(Nat)
         /\ seed \in Seq(Byte) /\ Len(seed) = HashLen
         /\ HashOf(l) \in Seq(Byte) /\ Len(HashOf(l)) = HashLen
         /\ [k \in 1..Zeros(m) |-> 0] \in Seq(Byte) /\ Len([k \in 1..Zeros(m) |-> 0]) = Zeros(m)
<1>1. HashLen \in Nat /\ HashLen > 0 /\ KeyLen \in Nat
  BY OaepAssumption, KeyIs
<1>2. m \in Seq(Byte) /\ l \in Seq(Byte) /\ HashOf(l) \in [1..HashLen -> Byte]
      /\ seed \in [1..HashLen -> Byte]
  BY OaepAssumption DEF Fits, Byte
<1>3. l \in Seq(Nat)
  BY <1>2, BytesAreNumbers
<1>4. Len(m) \in Nat
  BY <1>2
<1>5. Zeros(m) \in Nat
  BY <1>1, <1>4 DEF Zeros, Fits
<1>6. \A n \in Nat : \A t \in [1..n -> Byte] : t \in Seq(Byte) /\ Len(t) = n
  OBVIOUS
<1>7. [k \in 1..Zeros(m) |-> 0] \in [1..Zeros(m) -> Byte]
  BY ByteIs
<1>8. QED
  BY <1>1, <1>2, <1>3, <1>4, <1>5, <1>6, <1>7

LEMMA DataBlockIs ==
  ASSUME key \in Keys, NEW m, NEW l, NEW seed, Fits(m, l, seed)
  PROVE  /\ DataBlock(m, l) \in Seq(Byte) /\ Len(DataBlock(m, l)) = KeyLen - HashLen - 1
         /\ \E rest \in Seq(Byte) :
              /\ DataBlock(m, l) = HashOf(l) \o rest
              /\ Len(rest) = Zeros(m) + 1 + Len(m)
              /\ rest[Zeros(m) + 1] = 1 /\ \A j \in 1..Zeros(m) : rest[j] = 0
              /\ Back(rest, Zeros(m) + 1) = m
<1> DEFINE h == HashOf(l)
           z == [k \in 1..Zeros(m) |-> 0]
           n == Zeros(m)
           rest == (z \o <<1>>) \o m
<1>1. /\ HashLen \in Nat /\ KeyLen \in Nat /\ n \in Nat /\ m \in Seq(Byte) /\ Len(m) \in Nat
      /\ h \in Seq(Byte) /\ Len(h) = HashLen /\ z \in Seq(Byte) /\ Len(z) = n
      /\ \A j \in 1..n : z[j] = 0
  <2>1. /\ HashLen \in Nat /\ KeyLen \in Nat /\ n \in Nat /\ m \in Seq(Byte) /\ Len(m) \in Nat
        /\ h \in Seq(Byte) /\ Len(h) = HashLen /\ z \in Seq(Byte) /\ Len(z) = n
    BY PartsAre
  <2>2. \A j \in 1..n : z[j] = 0
    OBVIOUS
  <2>3. QED
    BY <2>1, <2>2
<1>2. n = KeyLen - 2 * HashLen - 2 - Len(m)
  BY DEF Zeros
<1>3. DataBlock(m, l) = ((h \o z) \o <<1>>) \o m
  BY DEF DataBlock
<1>4. <<1>> \in Seq(Byte) /\ Len(<<1>>) = 1 /\ <<1>>[1] = 1
  BY ByteIs
<1> HIDE DEF z, h, n
<1>5. /\ rest \in Seq(Byte) /\ Len(rest) = n + 1 + Len(m)
      /\ SubSeq(rest, n + 1 + 1, Len(rest)) = m
      /\ \A i \in 1..n : rest[i] = z[i]
      /\ \A i \in 1..1 : rest[n + i] = <<1>>[i]
  <2> DEFINE one == <<1>>
             w == (z \o one) \o m
  <2>1. one \in Seq(Byte) /\ Len(one) = 1
    BY <1>4
  <2> HIDE DEF one
  <2>2. /\ w \in Seq(Byte) /\ Len(w) = Len(z) + Len(one) + Len(m)
        /\ SubSeq(w, Len(z) + Len(one) + 1, Len(w)) = m
        /\ \A i \in 1..Len(z) : w[i] = z[i]
        /\ \A i \in 1..Len(one) : w[Len(z) + i] = one[i]
    <3>1. z \in Seq(Byte) /\ one \in Seq(Byte) /\ m \in Seq(Byte)
      BY <1>1, <2>1
    <3>2. w \in Seq(Byte) /\ Len(w) = Len(z) + Len(one) + Len(m)
      BY <3>1, MiddleIs
    <3>3. SubSeq(w, Len(z) + Len(one) + 1, Len(w)) = m
      BY <3>1, MiddleIs
    <3>4. \A i \in 1..Len(z) : w[i] = z[i]
      BY <3>1, MiddleIs
    <3>5. \A i \in 1..Len(one) : w[Len(z) + i] = one[i]
      BY <3>1, MiddleIs
    <3>6. QED
      BY <3>2, <3>3, <3>4, <3>5
  <2> HIDE DEF w
  <2>3. /\ w \in Seq(Byte) /\ Len(w) = n + 1 + Len(m)
        /\ SubSeq(w, n + 1 + 1, Len(w)) = m
        /\ \A i \in 1..n : w[i] = z[i]
        /\ \A i \in 1..1 : w[n + i] = one[i]
    BY <1>1, <2>1, <2>2
  <2>4. QED
    BY <2>3 DEF w, one
<1>6. DataBlock(m, l) = h \o rest
  <2> DEFINE one == <<1>>
             f == z \o one
  <2>1. one \in Seq(Byte)
    BY <1>4
  <2> HIDE DEF one
  <2>2. f \in Seq(Byte)
    BY <1>1, <2>1, ConcatProperties
  <2>3. (h \o z) \o one = h \o f
    <3>1. h \in Seq(Byte) /\ z \in Seq(Byte) /\ one \in Seq(Byte)
      BY <1>1, <2>1
    <3>2. QED
      BY <3>1, ConcatAssociative
  <2> HIDE DEF f
  <2>4. (h \o f) \o m = h \o (f \o m)
    <3>1. h \in Seq(Byte) /\ f \in Seq(Byte) /\ m \in Seq(Byte)
      BY <1>1, <2>2
    <3>2. QED
      BY <3>1, ConcatAssociative
  <2>5. QED
    BY <1>3, <2>3, <2>4 DEF f, one
<1> HIDE DEF rest
<1>7. rest[n + 1] = 1 /\ \A j \in 1..n : rest[j] = 0
  <2>1. rest[n + 1] = <<1>>[1]
    BY <1>5
  <2>2. QED
    BY <1>1, <1>4, <1>5, <2>1
<1>8. Back(rest, n + 1) = m
  BY <1>5 DEF Back
<1>9. h \o rest \in Seq(Byte) /\ Len(h \o rest) = HashLen + (n + 1 + Len(m))
  <2>1. h \in Seq(Byte) /\ rest \in Seq(Byte)
    BY <1>1, <1>5
  <2>2. h \o rest \in Seq(Byte) /\ Len(h \o rest) = Len(h) + Len(rest)
    BY <2>1, ConcatProperties
  <2>3. QED
    BY <1>1, <1>5, <2>2
<1>10. HashLen + (n + 1 + Len(m)) = KeyLen - HashLen - 1
  BY <1>1, <1>2
<1>11. QED
  BY <1>5, <1>6, <1>7, <1>8, <1>9, <1>10 DEF h, n

(* The block before its masks, and with them.                              *)
Opened(m, l, seed) == (<<0>> \o seed) \o DataBlock(m, l)

LEMMA EncodedIsBlock ==
  ASSUME HashesBytes, key \in Keys, NEW m, NEW l, NEW seed, Fits(m, l, seed),
         NEW D, D = DataBlock(m, l), NEW M, M = Mgf1Xor(D, seed)
  PROVE  /\ Encoded(m, l, seed) \in Seq(Byte) /\ Len(Encoded(m, l, seed)) = KeyLen
         /\ Encoded(m, l, seed)[1] = 0
         /\ SubSeq(Encoded(m, l, seed), 2, Split) = Mgf1Xor(seed, M)
         /\ Back(Encoded(m, l, seed), Split) = M
<1> DEFINE o == <<0>>
           g == Mgf1Xor(seed, M)
           f == Encoded(m, l, seed)
<1>1. /\ HashLen \in Nat /\ HashLen > 0 /\ KeyLen \in Nat
      /\ seed \in Seq(Byte) /\ Len(seed) = HashLen /\ seed \in Seq(Nat)
  <2>1. /\ HashLen \in Nat /\ HashLen > 0 /\ KeyLen \in Nat
        /\ seed \in Seq(Byte) /\ Len(seed) = HashLen
    BY PartsAre
  <2>2. QED
    BY <2>1, BytesAreNumbers
<1>2. D \in Seq(Byte) /\ Len(D) = KeyLen - HashLen - 1
  BY DataBlockIs
<1>3. M \in Seq(Byte) /\ Len(M) = KeyLen - HashLen - 1 /\ M \in Seq(Nat)
  <2>1. M \in Seq(Byte) /\ Len(M) = Len(D)
    BY <1>1, <1>2, MaskReturns
  <2>2. QED
    BY <1>2, <2>1, BytesAreNumbers
<1>4. g \in Seq(Byte) /\ Len(g) = HashLen
  BY <1>1, <1>3, MaskReturns
<1>5. o \in Seq(Byte) /\ Len(o) = 1 /\ o[1] = 0
  BY ByteIs
<1>6. f = (o \o g) \o M
  BY DEF Encoded, DataBlock, Zeros
<1> HIDE DEF o, g, f
<1>7. f \in Seq(Byte) /\ Len(f) = Len(o) + Len(g) + Len(M)
  <2>1. o \in Seq(Byte) /\ g \in Seq(Byte) /\ M \in Seq(Byte)
    BY <1>3, <1>4, <1>5
  <2>2. QED
    BY <2>1, <1>6, MiddleIs
<1>8. SubSeq(f, Len(o) + 1, Len(o) + Len(g)) = g
  <2>1. o \in Seq(Byte) /\ g \in Seq(Byte) /\ M \in Seq(Byte)
    BY <1>3, <1>4, <1>5
  <2>2. QED
    BY <2>1, <1>6, MiddleIs
<1>9. SubSeq(f, Len(o) + Len(g) + 1, Len(f)) = M
  <2>1. o \in Seq(Byte) /\ g \in Seq(Byte) /\ M \in Seq(Byte)
    BY <1>3, <1>4, <1>5
  <2>2. QED
    BY <2>1, <1>6, MiddleIs
<1>10. \A i \in 1..Len(o) : f[i] = o[i]
  <2>1. o \in Seq(Byte) /\ g \in Seq(Byte) /\ M \in Seq(Byte)
    BY <1>3, <1>4, <1>5
  <2>2. QED
    BY <2>1, <1>6, MiddleIs
<1>11. Len(f) = KeyLen /\ Len(o) + 1 = 2 /\ Len(o) + Len(g) = Split
  BY <1>1, <1>3, <1>4, <1>5, <1>7 DEF Split
<1>12. f[1] = 0
  BY <1>5, <1>10
<1>13. SubSeq(f, 2, Split) = g /\ Back(f, Split) = M
  BY <1>8, <1>9, <1>11 DEF Back
<1>14. QED
  BY <1>7, <1>11, <1>12, <1>13 DEF f, g

(* Taking the masks off.                                                   *)
LEMMA UnmaskedIs ==
  ASSUME HashesBytes, key \in Keys, NEW m, NEW l, NEW seed, Fits(m, l, seed),
         NEW masked, masked = Encoded(m, l, seed),
         NEW s, s = Mgf1Xor(SubSeq(masked, 2, Split), Back(masked, Split))
  PROVE  <<masked[1]>> \o s \o Mgf1Xor(Back(masked, Split), s) = Opened(m, l, seed)
<1> DEFINE D == DataBlock(m, l)
           M == Mgf1Xor(D, seed)
<1>1. seed \in Seq(Byte) /\ seed \in Seq(Nat)
  BY PartsAre, BytesAreNumbers
<1>2. D \in Seq(Byte)
  BY DataBlockIs
<1> HIDE DEF D
<1>3. M \in Seq(Byte) /\ Mgf1Xor(M, seed) = D
  BY <1>1, <1>2, MaskReturns
<1>4. M \in Seq(Nat)
  BY <1>3, BytesAreNumbers
<1>5. masked[1] = 0 /\ SubSeq(masked, 2, Split) = Mgf1Xor(seed, M) /\ Back(masked, Split) = M
  BY EncodedIsBlock DEF D
<1> HIDE DEF M
<1>6. s = seed
  BY <1>1, <1>4, <1>5, MaskReturns
<1>7. QED
  BY <1>3, <1>5, <1>6 DEF Opened, D

LEMMA OpenedIs ==
  ASSUME key \in Keys, NEW m, NEW l, NEW seed, Fits(m, l, seed), em = Opened(m, l, seed)
  PROVE  /\ em # <<>> /\ em[1] = 0
         /\ SubSeq(em, Split + 1, Split + HashLen) = HashOf(l)
         /\ \E k \in 1..Len(Rest) : Begins(k) /\ Back(Rest, k) = m
<1> DEFINE o == <<0>>
           a == o \o seed
           h == HashOf(l)
           D == DataBlock(m, l)
<1>1. /\ HashLen \in Nat /\ HashLen > 0 /\ Zeros(m) \in Nat /\ Len(m) \in Nat
      /\ seed \in Seq(Byte) /\ Len(seed) = HashLen
      /\ h \in Seq(Byte) /\ Len(h) = HashLen
  BY PartsAre
<1>2. PICK rest \in Seq(Byte) :
        /\ D = h \o rest
        /\ Len(rest) = Zeros(m) + 1 + Len(m)
        /\ rest[Zeros(m) + 1] = 1 /\ \A j \in 1..Zeros(m) : rest[j] = 0
        /\ Back(rest, Zeros(m) + 1) = m
  BY DataBlockIs
<1>3. o \in Seq(Byte) /\ Len(o) = 1 /\ o[1] = 0
  BY ByteIs
<1>4. em = a \o D
  BY DEF Opened
<1> HIDE DEF o, h, D
<1>5. a \in Seq(Byte) /\ Len(a) = Split /\ a[1] = 0
  <2>1. /\ a \in Seq(Byte) /\ Len(a) = Len(o) + Len(seed)
        /\ \A i \in 1..(Len(o) + Len(seed)) : a[i] = IF i <= Len(o) THEN o[i] ELSE seed[i - Len(o)]
    BY <1>1, <1>3, ConcatProperties
  <2> HIDE DEF a
  <2>2. Len(a) = Split
    BY <1>1, <1>3, <2>1 DEF Split
  <2>3. a[1] = o[1]
    BY <1>1, <1>3, <2>1
  <2>4. QED
    BY <1>3, <2>1, <2>2, <2>3
<1> HIDE DEF a
<1>6. em = (a \o h) \o rest
  <2>1. a \in Seq(Byte) /\ h \in Seq(Byte) /\ rest \in Seq(Byte)
    BY <1>1, <1>2, <1>5
  <2>2. (a \o h) \o rest = a \o (h \o rest)
    BY <2>1, ConcatAssociative
  <2>3. QED
    BY <1>2, <1>4, <2>2
<1>7. em \in Seq(Byte) /\ Len(em) = Len(a) + Len(h) + Len(rest)
  <2>1. a \in Seq(Byte) /\ h \in Seq(Byte) /\ rest \in Seq(Byte)
    BY <1>1, <1>2, <1>5
  <2>2. QED
    BY <2>1, <1>6, MiddleIs
<1>8. SubSeq(em, Len(a) + 1, Len(a) + Len(h)) = h
  <2>1. a \in Seq(Byte) /\ h \in Seq(Byte) /\ rest \in Seq(Byte)
    BY <1>1, <1>2, <1>5
  <2>2. QED
    BY <2>1, <1>6, MiddleIs
<1>9. SubSeq(em, Len(a) + Len(h) + 1, Len(em)) = rest
  <2>1. a \in Seq(Byte) /\ h \in Seq(Byte) /\ rest \in Seq(Byte)
    BY <1>1, <1>2, <1>5
  <2>2. QED
    BY <2>1, <1>6, MiddleIs
<1>10. \A i \in 1..Len(a) : em[i] = a[i]
  <2>1. a \in Seq(Byte) /\ h \in Seq(Byte) /\ rest \in Seq(Byte)
    BY <1>1, <1>2, <1>5
  <2>2. QED
    BY <2>1, <1>6, MiddleIs
<1>11. em[1] = 0 /\ em # <<>>
  <2>1. 1 \in 1..Len(a) /\ Len(em) > 0
    BY <1>1, <1>2, <1>5, <1>7 DEF Split
  <2>2. em[1] = 0
    BY <1>5, <1>10, <2>1
  <2>3. Len(<<>>) = 0
    OBVIOUS
  <2>4. em # <<>>
    BY <2>1, <2>3
  <2>5. QED
    BY <2>2, <2>4
<1>12. SubSeq(em, Split + 1, Split + HashLen) = h
  BY <1>1, <1>5, <1>8
<1>13. Rest = rest
  BY <1>1, <1>5, <1>9 DEF Rest, Back
<1> DEFINE k == Zeros(m) + 1
<1>14. k \in 1..Len(Rest) /\ k - 1 = Zeros(m)
  BY <1>1, <1>2, <1>13
<1>15. Begins(k) /\ Back(Rest, k) = m
  <2>1. Rest[k] = 1 /\ \A j \in 1..(k - 1) : Rest[j] = 0
    BY <1>2, <1>13, <1>14
  <2>2. Back(Rest, k) = m
    BY <1>2, <1>13
  <2> HIDE DEF k
  <2>3. QED
    BY <2>1, <2>2 DEF Begins
<1> HIDE DEF k
<1>16. QED
  BY <1>11, <1>12, <1>14, <1>15 DEF h


(* What was encrypted, on its way: the number carried is always of the     *)
(* class of the block's power, and the scan reads the block itself.        *)
CipherOf(m, l, seed) == PowMod(Import(Encoded(m, l, seed)), key.e, Modulus)

Travels(m, l, seed) ==
  /\ Fits(m, l, seed)
  /\ sent = [text |-> m, label |-> l, any |-> FALSE]
  /\ ValidModulus /\ ValidExponent(key.e)
  /\ oaepPc \in {"veil", "sent", "blind", "scan", "done"}
  /\ oaepPc \in {"veil", "sent", "blind"} => c \in Nat /\ c % Modulus = CipherOf(m, l, seed)
  /\ oaepPc = "sent" => c < Bound
  /\ oaepPc = "blind" => c < Modulus /\ Coprime(key.e, Phi) /\ label \in Labels
  /\ oaepPc = "scan" => label \in Labels /\ em = Opened(m, l, seed)

RoundInv ==
  /\ key \in Keys
  /\ oaepPc = "idle" => sent.any
  /\ ~sent.any => \E m, l, seed : Travels(m, l, seed)
  /\ RoundTrip

LEMMA KeyStays ==
  ASSUME key' = key, NEW m, NEW l, NEW seed
  PROVE  /\ Modulus' = Modulus /\ KeyLen' = KeyLen /\ Phi' = Phi
         /\ ValidModulus' <=> ValidModulus
         /\ Fits(m, l, seed)' <=> Fits(m, l, seed)
         /\ Encoded(m, l, seed)' = Encoded(m, l, seed)
         /\ CipherOf(m, l, seed)' = CipherOf(m, l, seed)
         /\ Opened(m, l, seed)' = Opened(m, l, seed)
<1>1. Modulus' = Modulus
  BY DEF Modulus
<1>2. KeyLen' = KeyLen /\ Phi' = Phi
  BY <1>1 DEF KeyLen, Phi
<1>3. ValidModulus' <=> ValidModulus
  BY <1>1 DEF ValidModulus
<1>4. Fits(m, l, seed)' <=> Fits(m, l, seed)
  BY <1>2 DEF Fits
<1>5. Encoded(m, l, seed)' = Encoded(m, l, seed)
  BY <1>2 DEF Encoded
<1>6. CipherOf(m, l, seed)' = CipherOf(m, l, seed)
  BY <1>1, <1>5 DEF CipherOf
<1>7. Opened(m, l, seed)' = Opened(m, l, seed)
  BY <1>2 DEF Opened, DataBlock, Zeros
<1>8. QED
  BY <1>1, <1>2, <1>3, <1>4, <1>5, <1>6, <1>7

(* The block as a number is below the modulus.                             *)
LEMMA BlockIs ==
  ASSUME HashesBytes, key \in Keys, NEW m, NEW l, NEW seed, Fits(m, l, seed)
  PROVE  /\ Import(Encoded(m, l, seed)) \in 0..(Modulus - 1)
         /\ Padded(KeyLen, Import(Encoded(m, l, seed))) = Encoded(m, l, seed)
         /\ CipherOf(m, l, seed) \in 0..(Modulus - 1)
<1> DEFINE f == Encoded(m, l, seed)
<1>1. f \in Seq(Byte) /\ Len(f) = KeyLen /\ f[1] = 0
  BY EncodedIsBlock
<1>2. KeyLen > 0
  <2>1. HashLen \in Nat /\ KeyLen \in Nat /\ KeyLen >= 2 * HashLen + 2
    BY PartsAre DEF Fits
  <2>2. QED
    BY <2>1
<1>3. Import(f) \in 0..(Modulus - 1)
  BY <1>1, <1>2, BlockBelow
<1>4. Padded(KeyLen, Import(f)) = f
  BY <1>1, PaddedReturns
<1>5. Modulus \in Nat /\ Modulus > 0 /\ key.e \in Nat
  BY KeyIs
<1> DEFINE x == Import(f)
<1> HIDE DEF x
<1>6. x \in Int
  BY <1>3, <1>5 DEF x
<1>7. PowMod(x, key.e, Modulus) \in 0..(Modulus - 1)
  BY <1>5, <1>6, PowModIs
<1>8. QED
  BY <1>3, <1>4, <1>7 DEF x, CipherOf

LEMMA SmallResidue ==
  ASSUME NEW n \in Nat, n > 0, NEW a \in Nat, a < n
  PROVE  a % n = a
BY SMT

(* goo_encrypt_oaep                                                        *)
LEMMA EncryptTravels ==
  ASSUME HashesBytes, RoundInv, NEW m \in Messages, NEW l \in Labels, NEW seed \in OaepSeeds,
         Encrypt(m, l, seed)
  PROVE  RoundInv'
<1>1. key' = key /\ key \in Keys /\ oaepPc = "idle" /\ sent.any
  BY DEF Encrypt, RoundInv
<1>2. CASE oaepPc' = "done"
  <2>1. sent' = sent
    BY <1>2 DEF Encrypt, OaepFail
  <2>2. RoundTrip'
    BY <1>1, <2>1 DEF RoundTrip
  <2>3. QED
    BY <1>1, <1>2, <2>1, <2>2 DEF RoundInv
<1>3. CASE oaepPc' # "done"
  <2>1. /\ ValidModulus /\ ValidExponent(key.e) /\ KeyLen >= 2 * HashLen + 2
        /\ Len(m) <= KeyLen - 2 * HashLen - 2
        /\ oaepPc' = "veil" /\ sent' = [text |-> m, label |-> l, any |-> FALSE]
        /\ \E block \in {Encoded(m, l, seed)} : \E x \in {Import(block)} :
             c' = PowMod(x, key.e, Modulus)
    BY <1>3 DEF Encrypt, OaepFail
  <2>2. Fits(m, l, seed)
    BY <2>1 DEF Fits
  <2>3. c' = CipherOf(m, l, seed)
    BY <2>1 DEF CipherOf
  <2>4. CipherOf(m, l, seed) \in 0..(Modulus - 1)
    BY <1>1, <2>2, BlockIs
  <2>5. c' \in Nat /\ c' % Modulus = CipherOf(m, l, seed)
    <3>1. Modulus \in Nat /\ Modulus > 0
      BY <1>1, KeyIs
    <3>2. c' \in Nat /\ c' < Modulus
      BY <2>3, <2>4, <3>1
    <3>3. c' % Modulus = c'
      BY <3>1, <3>2, SmallResidue
    <3>4. QED
      BY <2>3, <3>2, <3>3
  <2>6. Travels(m, l, seed)'
    BY <1>1, <2>1, <2>2, <2>5, KeyStays DEF Travels, ValidExponent
  <2>7. RoundTrip'
    BY <2>1 DEF RoundTrip
  <2>8. QED
    BY <1>1, <2>1, <2>6, <2>7 DEF RoundInv
<1>4. QED
  BY <1>2, <1>3

(* goo_veil adds multiples of the modulus.                                 *)
LEMMA VeilTravels ==
  ASSUME VeilInv, NEW m, NEW l, NEW seed, Travels(m, l, seed), Veil
  PROVE  Travels(m, l, seed)' /\ RoundTrip'
<1>1. oaepPc = "veil" /\ key' = key /\ sent' = sent /\ key \in Keys
  BY DEF Veil, VeilInv
<1>2. PICK r \in 0..(rmax - 1) :
        IF c + r * Modulus < Bound
        THEN c' = c + r * Modulus /\ oaepPc' = "sent"
        ELSE UNCHANGED <<c, oaepPc>>
  BY DEF Veil, Bound
<1>3. rmax \in Nat /\ Modulus \in Nat /\ Modulus > 0 /\ c \in Nat /\ r \in Nat
  BY <1>1, RmaxHolds, KeyIs DEF VeilInv
<1>4. c % Modulus = CipherOf(m, l, seed)
  BY <1>1 DEF Travels
<1>5. CASE UNCHANGED <<c, oaepPc>>
  <2>1. Travels(m, l, seed)'
    BY <1>1, <1>3, <1>5, <1>4, KeyStays DEF Travels, ValidExponent
  <2>2. RoundTrip'
    BY <1>1, <1>5 DEF RoundTrip
  <2>3. QED
    BY <2>1, <2>2
<1>6. CASE c + r * Modulus < Bound
  <2>1. c' = c + r * Modulus /\ oaepPc' = "sent" /\ c' < Bound
    BY <1>2, <1>6
  <2>2. r * Modulus \in Nat
    BY <1>3
  <2>3. c' \in Nat
    BY <1>3, <2>1, <2>2
  <2>4. c' % Modulus = c % Modulus
    <3>1. c' - c = r * Modulus /\ r \in Int
      BY <1>3, <2>1, <2>2
    <3>2. Same(c', c, Modulus)
      BY <3>1 DEF Same, Multiple
    <3>3. c' \in Int /\ c \in Int
      BY <1>3, <2>3
    <3>4. QED
      BY <1>3, <3>2, <3>3, SameIs
  <2>5. Bound' = Bound
    BY DEF Bound, VeilBits
  <2>6. Travels(m, l, seed)'
    BY <1>1, <1>4, <2>1, <2>3, <2>4, <2>5, KeyStays DEF Travels, ValidExponent
  <2>7. RoundTrip'
    BY <2>1 DEF RoundTrip
  <2>8. QED
    BY <2>6, <2>7
<1>7. QED
  BY <1>2, <1>5, <1>6

(* goo_decrypt_oaep refuses the number only if the key has no private      *)
(* exponent, and goo_unveil takes the veil off.                            *)
LEMMA UnveilTravels ==
  ASSUME KeysArePrimes, key \in Keys, NEW m, NEW l, NEW seed, Travels(m, l, seed),
         NEW k \in Labels, Decrypt(k)
  PROVE  Travels(m, l, seed)' /\ RoundTrip'
<1>1. /\ oaepPc = "sent" /\ key' = key /\ sent' = sent /\ label' = k
      /\ c \in Nat /\ c % Modulus = CipherOf(m, l, seed) /\ c < Bound
      /\ ValidModulus /\ ValidExponent(key.e) /\ Fits(m, l, seed)
      /\ sent = [text |-> m, label |-> l, any |-> FALSE]
  BY DEF Decrypt, Unveil, Travels
<1>2. /\ ValidPrime(key.p) /\ ValidPrime(key.q)
      /\ KeyLen >= 2 * HashLen + 2 /\ BitLength(c) <= VeilBits
  BY <1>1, PrimesAreValid, VeilFits DEF Fits
<1>3. Coprime(Phi, key.e) <=> Coprime(key.e, Phi)
  <2>1. Phi \in Nat /\ Phi > 0 /\ key.e \in Nat /\ key.e > 0
    BY RsaKeyIs
  <2> DEFINE f == Phi
             e == key.e
  <2> HIDE DEF f, e
  <2>2. f \in Nat /\ f > 0 /\ e \in Nat /\ e > 0
    BY <2>1 DEF f, e
  <2>3. Coprime(f, e) <=> Coprime(e, f)
    BY <2>2, CoprimeBack
  <2>4. QED
    BY <2>3 DEF f, e
<1>4. \/ ~Coprime(Phi, key.e) /\ oaepPc' = "done" /\ plain' = Nothing
      \/ Coprime(Phi, key.e) /\ oaepPc' = "blind" /\ c' = c % Modulus
  BY <1>1, <1>2 DEF Decrypt, Unveil, OaepFail, Phi
<1>5. CASE ~Coprime(Phi, key.e) /\ oaepPc' = "done" /\ plain' = Nothing
  <2>1. ~Coprime(key.e, Phi) /\ Phi' = Phi
    BY <1>1, <1>3, <1>5, KeyStays
  <2>2. RoundTrip'
    <3>1. ~Coprime(key'.e, (key'.p - 1) * (key'.q - 1))
      BY <1>1, <2>1 DEF Phi
    <3>2. ~plain'.ok
      BY <1>5 DEF Nothing
    <3>3. QED
      BY <3>1, <3>2 DEF RoundTrip
  <2>3. Travels(m, l, seed)'
    BY <1>1, <1>5, KeyStays DEF Travels, ValidExponent
  <2>4. QED
    BY <2>2, <2>3
<1>6. CASE Coprime(Phi, key.e) /\ oaepPc' = "blind" /\ c' = c % Modulus
  <2>1. Modulus \in Nat /\ Modulus > 0
    BY KeyIs
  <2>2. c' \in Nat /\ c' < Modulus /\ c' % Modulus = c'
    <3>1. c' \in Nat /\ c' < Modulus
      BY <1>1, <1>6, <2>1, Euclid
    <3>2. QED
      BY <2>1, <3>1, SmallResidue
  <2>3. Travels(m, l, seed)'
    <3>1. c' % Modulus = CipherOf(m, l, seed) /\ Coprime(key.e, Phi)
      BY <1>1, <1>3, <1>6, <2>2
    <3>2. QED
      BY <1>1, <1>6, <2>2, <3>1, KeyStays DEF Travels, ValidExponent
  <2>4. RoundTrip'
    BY <1>6 DEF RoundTrip
  <2>5. QED
    BY <2>3, <2>4
<1>7. QED
  BY <1>4, <1>5, <1>6

(* Whatever the blinding, the block comes out.                             *)
LEMMA DrawTravels ==
  ASSUME HashesBytes, KeysArePrimes, key \in Keys, NEW m, NEW l, NEW seed, Travels(m, l, seed),
         DrawUnit
  PROVE  Travels(m, l, seed)' /\ RoundTrip'
<1> DEFINE f == Encoded(m, l, seed)
           x == Import(f)
<1>1. /\ oaepPc = "blind" /\ oaepPc' = "scan" /\ key' = key /\ sent' = sent /\ label' = label
      /\ c \in Nat /\ c < Modulus /\ c % Modulus = CipherOf(m, l, seed)
      /\ Coprime(key.e, Phi) /\ label \in Labels /\ Fits(m, l, seed)
  BY DEF DrawUnit, Travels
<1>2. PICK s \in Units :
        \E masked \in {Padded(KeyLen, Unblinded(s))} :
        \E mask \in {Mgf1Xor(SubSeq(masked, 2, Split), Back(masked, Split))} :
          em' = <<masked[1]>> \o mask \o Mgf1Xor(Back(masked, Split), mask)
  BY DEF DrawUnit
<1>3. x \in 0..(Modulus - 1) /\ Padded(KeyLen, x) = f
  BY <1>1, BlockIs
<1>4. c = PowMod(x, key.e, Modulus)
  <2>1. Modulus \in Nat /\ Modulus > 0
    BY KeyIs
  <2>2. c % Modulus = c
    BY <1>1, <2>1, SmallResidue
  <2>3. QED
    BY <1>1, <2>2 DEF CipherOf
<1> HIDE DEF x, f
<1>5. Unblinded(s) = x
  BY <1>1, <1>3, <1>4, UnblindedIs
<1>6. PICK masked, mask :
        /\ masked = f
        /\ mask = Mgf1Xor(SubSeq(masked, 2, Split), Back(masked, Split))
        /\ em' = <<masked[1]>> \o mask \o Mgf1Xor(Back(masked, Split), mask)
  BY <1>2, <1>3, <1>5
<1>7. em' = Opened(m, l, seed)
  BY <1>1, <1>6, UnmaskedIs DEF f
<1>8. Travels(m, l, seed)'
  BY <1>1, <1>7, KeyStays DEF Travels, ValidExponent
<1>9. RoundTrip'
  BY <1>1 DEF RoundTrip
<1>10. QED
  BY <1>8, <1>9

LEMMA ScanTravels ==
  ASSUME NEW m, NEW l, NEW seed, Travels(m, l, seed), Scan
  PROVE  Travels(m, l, seed)' /\ RoundTrip'
<1>1. /\ oaepPc = "scan" /\ oaepPc' = "scan"
      /\ key' = key /\ sent' = sent /\ label' = label /\ em' = em
  BY DEF Scan
<1>2. Travels(m, l, seed)'
  BY <1>1, KeyStays DEF Travels, ValidExponent
<1>3. RoundTrip'
  BY <1>1 DEF RoundTrip
<1>4. QED
  BY <1>2, <1>3

(* The message is read under its own label and under no other.             *)
LEMMA DecodeTravels ==
  ASSUME DecodeInv, NEW m, NEW l, NEW seed, Travels(m, l, seed), Decode
  PROVE  Travels(m, l, seed)' /\ RoundTrip'
<1>1. /\ oaepPc = "scan" /\ oaepPc' = "done"
      /\ key' = key /\ sent' = sent /\ label' = label /\ em' = em /\ key \in Keys
      /\ em = Opened(m, l, seed) /\ label \in Labels /\ Fits(m, l, seed)
      /\ sent = [text |-> m, label |-> l, any |-> FALSE]
  BY DEF Decode, scanVars, Travels, DecodeInv
<1>2. plain' = IF Valid(em[1] = 0, SubSeq(em, Split + 1, Split + HashLen) = HashOf(label))
               THEN [ok |-> TRUE, text |-> Back(Rest, index + 1)]
               ELSE Nothing
  BY DEF Decode
<1>3. /\ em # <<>> /\ em[1] = 0
      /\ SubSeq(em, Split + 1, Split + HashLen) = HashOf(l)
  BY <1>1, OpenedIs
<1>4. PICK k \in 1..Len(Rest) : Begins(k) /\ Back(Rest, k) = m
  BY <1>1, OpenedIs
<1>5. Scanned /\ scanned = Len(Rest)
  BY <1>1 DEF DecodeInv, Decode
<1>6. ~invalid /\ ~looking /\ k = index + 1
  BY <1>4, <1>5, FlagsDecide
<1>7. Travels(m, l, seed)'
  BY <1>1, KeyStays DEF Travels, ValidExponent
<1>8. CASE label = l
  <2>1. plain' = [ok |-> TRUE, text |-> m]
    BY <1>2, <1>3, <1>4, <1>6, <1>8 DEF Valid
  <2>2. RoundTrip'
    BY <1>1, <1>8, <2>1 DEF RoundTrip
  <2>3. QED
    BY <1>7, <2>2
<1>9. CASE label # l
  <2>1. HashOf(label) # HashOf(l)
    BY <1>1, <1>9, OaepAssumption DEF Fits
  <2>2. plain' = Nothing
    BY <1>2, <1>3, <2>1 DEF Valid
  <2>3. RoundTrip'
    BY <1>1, <1>9, <2>2 DEF RoundTrip, Nothing
  <2>4. QED
    BY <1>7, <2>3
<1>10. QED
  BY <1>8, <1>9

LEMMA RoundInitInv == OaepInit => RoundInv
BY DEF OaepInit, RoundInv, RoundTrip, NotSent

LEMMA RoundNextInv ==
  ASSUME HashesBytes, KeysArePrimes
  PROVE  DecodeInv /\ VeilInv /\ RoundInv /\ [OaepNext]_oaepVars => RoundInv'
<1> SUFFICES ASSUME DecodeInv, VeilInv, RoundInv, [OaepNext]_oaepVars PROVE RoundInv'
  OBVIOUS
<1>1. ASSUME NEW m \in Messages, NEW l \in Labels, NEW seed \in OaepSeeds, Encrypt(m, l, seed)
      PROVE  RoundInv'
  BY <1>1, EncryptTravels
<1>2. ASSUME key' = key, sent' = sent, oaepPc' # "idle",
             \A m, l, seed : Travels(m, l, seed) => Travels(m, l, seed)' /\ RoundTrip'
      PROVE  RoundInv'
  <2>1. CASE sent.any
    <3>1. RoundTrip'
      BY <1>2, <2>1 DEF RoundTrip
    <3>2. QED
      BY <1>2, <2>1, <3>1 DEF RoundInv
  <2>2. CASE ~sent.any
    <3>1. PICK m, l, seed : Travels(m, l, seed)
      BY <2>2 DEF RoundInv
    <3>2. Travels(m, l, seed)' /\ RoundTrip'
      BY <1>2, <3>1
    <3>3. QED
      BY <1>2, <3>2 DEF RoundInv
  <2>3. QED
    BY <2>1, <2>2
<1>3. ASSUME Veil PROVE RoundInv'
  <2>1. key' = key /\ sent' = sent /\ oaepPc' # "idle"
    BY <1>3 DEF Veil
  <2>2. \A m, l, seed : Travels(m, l, seed) => Travels(m, l, seed)' /\ RoundTrip'
    BY <1>3, VeilTravels
  <2>3. QED
    BY <1>2, <2>1, <2>2
<1>4. ASSUME NEW k \in Labels, Decrypt(k) PROVE RoundInv'
  <2>1. key' = key /\ sent' = sent /\ oaepPc' # "idle" /\ key \in Keys
    BY <1>4 DEF Decrypt, Unveil, OaepFail, RoundInv
  <2>2. \A m, l, seed : Travels(m, l, seed) => Travels(m, l, seed)' /\ RoundTrip'
    BY <1>4, <2>1, UnveilTravels
  <2>3. QED
    BY <1>2, <2>1, <2>2
<1>5. ASSUME NEW v \in Ciphertexts, NEW k \in Labels, DecryptOther(v, k) PROVE RoundInv'
  <2>1. key' = key /\ sent' = sent /\ oaepPc' # "idle" /\ sent.any
    BY <1>5 DEF DecryptOther, Unveil, OaepFail, RoundInv
  <2>2. RoundTrip'
    BY <2>1 DEF RoundTrip
  <2>3. QED
    BY <2>1, <2>2 DEF RoundInv
<1>6. ASSUME DrawUnit PROVE RoundInv'
  <2>1. key' = key /\ sent' = sent /\ oaepPc' # "idle" /\ key \in Keys
    BY <1>6 DEF DrawUnit, RoundInv
  <2>2. \A m, l, seed : Travels(m, l, seed) => Travels(m, l, seed)' /\ RoundTrip'
    BY <1>6, <2>1, DrawTravels
  <2>3. QED
    BY <1>2, <2>1, <2>2
<1>7. ASSUME Scan PROVE RoundInv'
  <2>1. key' = key /\ sent' = sent /\ oaepPc' # "idle"
    BY <1>7 DEF Scan
  <2>2. \A m, l, seed : Travels(m, l, seed) => Travels(m, l, seed)' /\ RoundTrip'
    BY <1>7, ScanTravels
  <2>3. QED
    BY <1>2, <2>1, <2>2
<1>8. ASSUME Decode PROVE RoundInv'
  <2>1. key' = key /\ sent' = sent /\ oaepPc' # "idle"
    BY <1>8 DEF Decode
  <2>2. \A m, l, seed : Travels(m, l, seed) => Travels(m, l, seed)' /\ RoundTrip'
    BY <1>8, DecodeTravels
  <2>3. QED
    BY <1>2, <2>1, <2>2
<1>9. ASSUME UNCHANGED oaepVars PROVE RoundInv'
  <2>1. UNCHANGED <<oaepPc, key, label, sent, c, em, plain>>
    BY <1>9 DEF oaepVars
  <2>2. RoundTrip'
    BY <2>1 DEF RoundInv, RoundTrip
  <2>3. Bound' = Bound
    BY DEF Bound, VeilBits
  <2>4. ASSUME NEW m, NEW l, NEW seed, Travels(m, l, seed) PROVE Travels(m, l, seed)'
    BY <2>1, <2>3, <2>4, KeyStays DEF Travels, ValidExponent
  <2>5. QED
    BY <2>1, <2>2, <2>4 DEF RoundInv
<1>10. ASSUME DrawNonUnit PROVE RoundInv'
  BY <1>9, <1>10 DEF DrawNonUnit
<1>11. QED
  BY <1>1, <1>3, <1>4, <1>5, <1>6, <1>7, <1>8, <1>9, <1>10 DEF OaepNext

(* For a hash that gives digests and keys of two different primes: what    *)
(* goo_encrypt_oaep encrypted, goo_decrypt_oaep gives back under the same  *)
(* label, whatever the message, the seed, the veil and the blinding        *)
(* factor, and refuses under any other.                                    *)
THEOREM MessageComesBack ==
  ASSUME HashesBytes, KeysArePrimes
  PROVE  OaepSpec => []RoundTrip
<1>1. RoundInv => RoundTrip
  BY DEF RoundInv
<1>2. DecodeInv /\ VeilInv /\ RoundInv /\ [OaepNext]_oaepVars => RoundInv'
  BY RoundNextInv
<1>3. VeilInv /\ [OaepNext]_oaepVars => VeilInv'
  BY VeilNextInv
<1>4. QED
  BY <1>1, <1>2, <1>3, DecodeInitInv, DecodeNextInv, VeilInitInv, RoundInitInv, PTL DEF OaepSpec

------------------------------------------------------------------------------
(* The root: Newton's iteration stops no lower than one below it.          *)

LEMMA SquaresGrow ==
  ASSUME NEW a \in Nat, NEW b \in Nat, a <= b
  PROVE  a * a <= b * b
<1>1. PICK d \in Nat : b = a + d
  BY b - a \in Nat /\ b = a + (b - a)
<1>2. (a + d) * (a + d) = a * a + (2 * (a * d) + d * d)
  OBVIOUS
<1>3. a * d \in Nat /\ d * d \in Nat /\ a * a \in Nat
  OBVIOUS
<1> DEFINE x == a * a
           y == a * d
           z == d * d
<1>4. b * b = x + (2 * y + z) /\ x \in Nat /\ y \in Nat /\ z \in Nat
  BY <1>1, <1>2, <1>3
<1> HIDE DEF x, y, z
<1>5. x <= b * b
  BY <1>4
<1>6. QED
  BY <1>5 DEF x

(* The square of a sum is at least four times the product.                 *)
LEMMA MeanSquare ==
  ASSUME NEW a \in Nat, NEW m \in Nat
  PROVE  4 * (m * a) <= (a + m) * (a + m)
<1>1. (a + m) * (a + m) = (a - m) * (a - m) + 4 * (m * a)
  OBVIOUS
<1>2. (a - m) * (a - m) >= 0 /\ (a - m) * (a - m) \in Int /\ m * a \in Int
  OBVIOUS
<1> DEFINE x == (a - m) * (a - m)
           y == m * a
           z == (a + m) * (a + m)
<1>3. z = x + 4 * y /\ x >= 0 /\ x \in Int /\ y \in Int
  BY <1>1, <1>2
<1> HIDE DEF x, y, z
<1>4. 4 * y <= z
  BY <1>3
<1>5. QED
  BY <1>4 DEF y, z

Turned(x, a) == (x \div a + a) \div 2
Above(x) == {y \in Nat : (y + 1) * (y + 1) > x}

LEMMA NewtonStays ==
  ASSUME NEW x \in Nat, NEW a \in Nat, a > 0
  PROVE  /\ Turned(x, a) \in Above(x)
         /\ a >= 2 \/ x > 0 => Turned(x, a) >= 1
<1> DEFINE q == x \div a
           b == Turned(x, a)
           m == q + 1
<1>1. q \in Nat /\ x < m * a /\ (x > 0 /\ a = 1 => q >= 1)
  <2>1. q \in Nat /\ x % a \in Nat /\ x % a < a /\ x = q * a + (x % a)
    BY SMT
  <2>2. m * a = q * a + a /\ q * a \in Nat
    BY <2>1
  <2> HIDE DEF q
  <2>3. x < m * a
    BY <2>1, <2>2
  <2>4. a = 1 => q = x
    BY <2>1, <2>2
  <2>5. QED
    BY <2>1, <2>3, <2>4
<1>2. b = (q + a) \div 2
  BY DEF Turned
<1> HIDE DEF q, b
<1>3. b \in Nat /\ 2 * (b + 1) >= a + m
  BY <1>1, <1>2
<1>4. a >= 2 \/ x > 0 => b >= 1
  BY <1>1, <1>2
<1>5. (b + 1) * (b + 1) > x
  <2> DEFINE s == a + m
             t == 2 * (b + 1)
             u == (b + 1) * (b + 1)
             v == m * a
  <2>1. s \in Nat /\ t \in Nat /\ s <= t /\ m \in Nat
    BY <1>1, <1>3
  <2>2. s * s <= t * t
    <3> HIDE DEF s, t
    <3>1. QED
      BY <2>1, SquaresGrow
  <2>3. 4 * v <= s * s
    BY <2>1, MeanSquare
  <2>4. t * t = 4 * u /\ u \in Nat /\ v \in Nat /\ s * s \in Nat
    BY <1>1, <1>3, <2>1
  <2>5. x < v
    BY <1>1
  <2> DEFINE ss == s * s
             t2 == t * t
  <2>6. ss <= t2 /\ 4 * v <= ss /\ t2 = 4 * u /\ u \in Nat /\ v \in Nat /\ ss \in Nat /\ x < v
    BY <2>2, <2>3, <2>4, <2>5
  <2> HIDE DEF ss, t2, u, v
  <2>7. u > x
    BY <2>6
  <2>8. QED
    BY <2>7 DEF u
<1>6. QED
  BY <1>3, <1>4, <1>5 DEF b, Above

Newton(x, n, w) == w = [a \in 1..n |-> IF Turned(x, a) >= a THEN a ELSE w[Turned(x, a)]]

LEMMA NewtonExists ==
  ASSUME NEW x \in Nat, x > 0, NEW n \in Nat
  PROVE  \E w : Newton(x, n, w)
<1> DEFINE V == Nat
           before == [a \in 1..n |-> IF Turned(x, a) >= a THEN 0 ELSE Turned(x, a)]
           turn == [a \in 1..n |-> [y \in V |-> IF Turned(x, a) >= a THEN a ELSE y]]
<1>1. ASSUME NEW a \in 1..n PROVE Turned(x, a) \in Nat /\ Turned(x, a) >= 1
  <2>1. a \in Nat /\ a > 0
    OBVIOUS
  <2>2. Turned(x, a) \in Above(x) /\ Turned(x, a) >= 1
    BY <2>1, NewtonStays
  <2>3. QED
    BY <2>2 DEF Above
<1>2. /\ before \in [1..n -> Nat] /\ \A a \in 1..n : before[a] < a
      /\ \A a \in 1..n : before[a] = IF Turned(x, a) >= a THEN 0 ELSE Turned(x, a)
  BY <1>1
<1>3. /\ turn \in [1..n -> [V -> V]]
      /\ \A a \in 1..n, y \in V : turn[a][y] = IF Turned(x, a) >= a THEN a ELSE y
  OBVIOUS
<1>4. 0 \in V
  OBVIOUS
<1> HIDE DEF before, turn, V
<1>5. Walkable(n, V, 0, before, turn)
  BY <1>2, <1>3, <1>4, RecursionExists
<1>6. PICK u \in [0..n -> V] : u[0] = 0 /\ \A a \in 1..n : u[a] = turn[a][u[before[a]]]
  BY <1>5 DEF Walkable, Walk
<1> DEFINE w == [a \in 1..n |-> u[a]]
<1>7. ASSUME NEW a \in 1..n
      PROVE  u[a] = IF Turned(x, a) >= a THEN a ELSE w[Turned(x, a)]
  <2>1. before[a] \in 0..n /\ u[before[a]] \in V
    BY <1>2, <1>6
  <2>2. u[a] = IF Turned(x, a) >= a THEN a ELSE u[before[a]]
    BY <1>3, <1>6, <2>1
  <2>3. CASE Turned(x, a) >= a
    BY <2>2, <2>3
  <2>4. CASE ~(Turned(x, a) >= a)
    <3>1. Turned(x, a) \in 1..n /\ before[a] = Turned(x, a)
      BY <1>1, <1>2, <2>4
    <3>2. w[Turned(x, a)] = u[Turned(x, a)]
      BY <3>1
    <3>3. QED
      BY <2>2, <2>4, <3>1, <3>2
  <2>5. QED
    BY <2>3, <2>4
<1>8. Newton(x, n, w)
  <2>1. \A a \in 1..n : w[a] = IF Turned(x, a) >= a THEN a ELSE w[Turned(x, a)]
    BY <1>7
  <2>2. w = [a \in 1..n |-> w[a]]
    OBVIOUS
  <2> HIDE DEF w
  <2>3. QED
    BY <2>1, <2>2 DEF Newton
<1>9. QED
  BY <1>8

LEMMA NewtonEnds ==
  ASSUME NEW x \in Nat, x > 0, NEW n \in Nat, NEW w, Newton(x, n, w),
         NEW g \in 1..n, g \in Above(x)
  PROVE  w[g] \in Above(x)
<1>1. \A a \in 1..n : w[a] = IF Turned(x, a) >= a THEN a ELSE w[Turned(x, a)]
  <2> DEFINE v == [a \in 1..n |-> IF Turned(x, a) >= a THEN a ELSE w[Turned(x, a)]]
  <2>1. w = v
    BY DEF Newton
  <2>2. \A a \in 1..n : v[a] = IF Turned(x, a) >= a THEN a ELSE w[Turned(x, a)]
    OBVIOUS
  <2> HIDE DEF v
  <2>3. QED
    BY <2>1, <2>2
<1>2. ASSUME NEW a \in 1..n
      PROVE  Turned(x, a) \in Nat /\ Turned(x, a) >= 1 /\ Turned(x, a) \in Above(x)
  <2>1. a \in Nat /\ a > 0
    OBVIOUS
  <2>2. Turned(x, a) \in Above(x) /\ Turned(x, a) >= 1
    BY <2>1, NewtonStays
  <2>3. QED
    BY <2>2 DEF Above
<1>3. x \in Above(x)
  <2>1. (x + 1) * (x + 1) = x * x + 2 * x + 1 /\ x * x \in Nat
    OBVIOUS
  <2>2. QED
    BY <2>1 DEF Above
<1> DEFINE before == [a \in 1..n |-> IF Turned(x, a) >= a THEN 0 ELSE Turned(x, a)]
           u == [a \in 0..n |-> IF a \in Above(x) /\ a # 0 THEN w[a] ELSE x]
           V == Above(x)
<1>4. /\ before \in [1..n -> Nat] /\ \A a \in 1..n : before[a] < a
      /\ \A a \in 1..n : before[a] = IF Turned(x, a) >= a THEN 0 ELSE Turned(x, a)
  BY <1>2
<1>5. /\ \A a \in 0..n : a \in V /\ a # 0 => u[a] = w[a]
      /\ \A a \in 0..n : ~(a \in V /\ a # 0) => u[a] = x
  OBVIOUS
<1>6. 0 \in 0..n /\ \A a \in 1..n : a \in 0..n /\ a # 0
  OBVIOUS
<1> HIDE DEF before, u, V
<1>7. u[0] \in V
  BY <1>3, <1>5, <1>6 DEF V
<1>8. ASSUME NEW a \in 1..n, u[before[a]] \in V PROVE u[a] \in V
  <2>1. CASE a \notin V
    BY <1>3, <1>5, <1>6, <2>1 DEF V
  <2>2. CASE a \in V /\ Turned(x, a) >= a
    <3>1. u[a] = w[a] /\ w[a] = a
      BY <1>1, <1>5, <1>6, <2>2
    <3>2. QED
      BY <2>2, <3>1
  <2>3. CASE a \in V /\ ~(Turned(x, a) >= a)
    <3>1. u[a] = w[a] /\ w[a] = w[Turned(x, a)] /\ before[a] = Turned(x, a)
      BY <1>1, <1>4, <1>5, <1>6, <2>3
    <3>2. Turned(x, a) \in 0..n /\ Turned(x, a) # 0 /\ Turned(x, a) \in V
      BY <1>2, <2>3 DEF V
    <3>3. u[before[a]] = w[Turned(x, a)]
      BY <1>5, <3>1, <3>2
    <3>4. QED
      BY <1>8, <3>1, <3>3
  <2>4. QED
    BY <2>1, <2>2, <2>3
<1>9. \A a \in 0..n : u[a] \in V
  BY <1>4, <1>7, <1>8, RecursionStays
<1>10. u[g] \in V /\ u[g] = w[g]
  BY <1>5, <1>6, <1>9 DEF V
<1>11. QED
  BY <1>10 DEF V

LEMMA IsqrtIs ==
  ASSUME NEW w \in BitSizes, NEW x \in 0..w
  PROVE  Isqrt(x) \in Above(x)
<1>1. x \in Nat /\ w \in Nat
  BY CombSpecAssumption
<1>2. CASE x <= 1
  <2>1. Isqrt(x) = x
    BY <1>2 DEF Isqrt
  <2>2. (x + 1) * (x + 1) = x * x + 2 * x + 1 /\ x * x \in Nat
    BY <1>1
  <2>3. QED
    BY <1>1, <2>1, <2>2 DEF Above
<1>3. CASE ~(x <= 1)
  <2> DEFINE n == 4 * x + 4
             g == FirstGuess(x)
             u == CHOOSE u : Newton(x, n, u)
  <2>1. x > 0 /\ x \in 2..w /\ n \in Nat
    BY <1>1, <1>3
  <2>2. g \in 1..n /\ x < g * g
    BY <2>1, PowersAssumption
  <2>3. Isqrt(x) = u[g]
    BY <1>3 DEF Isqrt, Newton, Turned
  <2>4. Newton(x, n, u)
    BY <1>1, <2>1, NewtonExists
  <2> HIDE DEF u, g, n
  <2>5. g \in Above(x)
    <3>1. g \in Nat
      BY <2>1, <2>2
    <3>2. (g + 1) * (g + 1) = g * g + 2 * g + 1 /\ g * g \in Nat
      BY <3>1
    <3>3. QED
      BY <1>1, <2>2, <3>1, <3>2 DEF Above
  <2>6. QED
    BY <1>1, <2>1, <2>2, <2>3, <2>4, <2>5, NewtonEnds
<1>4. QED
  BY <1>2, <1>3

------------------------------------------------------------------------------
(* The shapes of combs.                                                    *)

Widths == {w \in BitSizes : w > 0}

(* a additions and s shifts make a window of pts points per addition.        *)
Factors(w, pts, a, s) ==
  pts \in 2..MaxPpa /\ a \in Nat \ {0} /\ s \in Nat \ {0} /\ a * s = BitsPerWindowOf(w, pts)
Made(w, pts, a, s) == ShapeOf(pts, a, s, BitsPerWindowOf(w, pts))
IsShape(w, sh) == \E pts, a, s : Factors(w, pts, a, s) /\ sh = Made(w, pts, a, s)

TableSize(pts, a) == (2^pts - 1) * a
Largest(w) == 2^MaxPpa * (w + 1)

LEMMA MadeIs ==
  ASSUME NEW w, NEW pts, NEW a, NEW s
  PROVE  /\ Made(w, pts, a, s).size = TableSize(pts, a)
         /\ Cost(Made(w, pts, a, s)) = Ops(a, s)
         /\ Covered(Made(w, pts, a, s)) = pts * a * s
         /\ Made(w, pts, a, s).points_per_add = pts
BY DEF Made, ShapeOf, TableSize, Cost, Covered

LEMMA WindowIs ==
  ASSUME NEW w \in Widths, NEW pts \in 2..MaxPpa
  PROVE  /\ BitsPerWindowOf(w, pts) \in 1..w
         /\ w <= pts * BitsPerWindowOf(w, pts) /\ pts * BitsPerWindowOf(w, pts) < w + pts
<1> DEFINE y == w + pts - 1
           b == y \div pts
           z == pts * b
<1>1. w \in Nat /\ w > 0 /\ pts \in Nat /\ pts >= 2 /\ y \in Nat
  BY CombSpecAssumption DEF Widths
<1>2. BitsPerWindowOf(w, pts) = b
  BY DEF BitsPerWindowOf, CeilDiv
<1>3. b \in Nat /\ z \in Nat /\ z <= y /\ y < z + pts
  <2>1. b \in Nat /\ y % pts \in Nat /\ y % pts < pts /\ y = pts * b + (y % pts)
    <3> HIDE DEF y
    <3>1. y \div pts \in Nat /\ y % pts \in Nat /\ y % pts < pts /\ y = pts * (y \div pts) + (y % pts)
      BY <1>1, SMT
    <3>2. QED
      BY <3>1
  <2> HIDE DEF b, y
  <2>2. z \in Nat
    BY <1>1, <2>1
  <2>3. y = z + (y % pts)
    BY <2>1
  <2> HIDE DEF z
  <2>4. QED
    BY <1>1, <2>1, <2>2, <2>3
<1> HIDE DEF b
<1>4. b >= 1
  <2>1. ASSUME b = 0 PROVE FALSE
    BY <1>1, <1>3, <2>1
  <2>2. QED
    BY <1>3, <2>1
<1>5. b <= w
  <2>1. ASSUME b > w PROVE FALSE
    <3>1. PICK d \in Nat : b = w + 1 + d
      BY <1>1, <1>3, <2>1, b - w - 1 \in Nat
    <3>2. PICK m \in Nat : pts = m + 2
      BY <1>1, pts - 2 \in Nat
    <3>3. z = (m + 2) * (w + 1 + d)
      BY <3>1, <3>2
    <3>4. (m + 2) * (w + 1 + d) = m * w + m + m * d + 2 * w + 2 + 2 * d
          /\ m * w \in Nat /\ m * d \in Nat
      BY <1>1
    <3> DEFINE mw == m * w
               md == m * d
    <3>5. z = mw + m + md + 2 * w + 2 + 2 * d /\ mw \in Nat /\ md \in Nat
      BY <3>3, <3>4
    <3>6. mw >= 0 /\ z <= w + pts - 1
      BY <1>3, <3>5
    <3> HIDE DEF z, mw, md
    <3>7. QED
      BY <1>1, <3>2, <3>5, <3>6
  <2>2. QED
    BY <1>1, <1>3, <2>1
<1> HIDE DEF z
<1>6. w <= z /\ z < w + pts /\ b \in 1..w
  BY <1>1, <1>3, <1>4, <1>5
<1>7. QED
  BY <1>2, <1>6 DEF z

LEMMA FactorIs ==
  ASSUME NEW w \in Widths, NEW pts, NEW a, NEW s, Factors(w, pts, a, s)
  PROVE  /\ a \in 1..w /\ s \in 1..w
         /\ a <= BitsPerWindowOf(w, pts) /\ s <= BitsPerWindowOf(w, pts)
         /\ BitsPerWindowOf(w, pts) % a = 0 /\ BitsPerWindowOf(w, pts) \div a = s
         /\ Factors(w, pts, s, a)
<1> DEFINE x == BitsPerWindowOf(w, pts)
<1>1. x \in 1..w /\ a \in Nat /\ s \in Nat /\ a > 0 /\ s > 0 /\ a * s = x /\ pts \in 2..MaxPpa
      /\ w \in Nat
  BY WindowIs, CombSpecAssumption DEF Factors, Widths
<1> HIDE DEF x
<1>2. \A i, j \in Nat : i > 0 => j <= i * j
  <2> SUFFICES ASSUME NEW i \in Nat, NEW j \in Nat, i > 0 PROVE j <= i * j
    OBVIOUS
  <2>1. PICK d \in Nat : i = d + 1
    BY i - 1 \in Nat
  <2>2. i * j = d * j + j /\ d * j \in Nat
    BY <2>1
  <2>3. QED
    BY <2>2
<1>3. s <= x
  BY <1>1, <1>2
<1>4. a <= x
  <2>1. a <= s * a /\ s * a = a * s
    BY <1>1, <1>2
  <2>2. QED
    BY <1>1, <2>1
<1>5. x \div a = s /\ x % a = 0
  <2> DEFINE q == x \div a
             r == x % a
  <2>1. q \in Nat /\ r \in Nat /\ r < a /\ x = a * q + r
    BY <1>1, SMT
  <2> HIDE DEF q, r
  <2>2. a * (s - q) = a * s - a * q /\ a * s \in Nat /\ a * q \in Nat
    BY <1>1, <2>1
  <2>3. a * (s - q) = r
    BY <1>1, <2>1, <2>2
  <2>4. ~(s < q)
    <3>1. ASSUME s < q PROVE FALSE
      <4>1. q - s \in Nat /\ q - s >= 1 /\ a * (q - s) = a * q - a * s
        BY <1>1, <2>1, <3>1
      <4>2. a <= (q - s) * a /\ (q - s) * a = a * (q - s)
        BY <1>1, <1>2, <4>1
      <4>3. QED
        BY <1>1, <2>1, <2>2, <4>1, <4>2
    <3>2. QED
      BY <3>1
  <2>5. ~(q < s)
    <3>1. ASSUME q < s PROVE FALSE
      <4>1. s - q \in Nat /\ s - q >= 1
        BY <1>1, <2>1, <3>1
      <4>2. a <= (s - q) * a /\ (s - q) * a = a * (s - q)
        BY <1>1, <1>2, <4>1
      <4>3. QED
        BY <1>1, <2>1, <2>3, <4>2
    <3>2. QED
      BY <3>1
  <2>6. q = s
    BY <1>1, <2>1, <2>4, <2>5
  <2>7. r = 0
    BY <1>1, <2>1, <2>2, <2>6
  <2>8. QED
    BY <2>6, <2>7 DEF q, r
<1>6. Factors(w, pts, s, a)
  BY <1>1 DEF Factors, x
<1>7. QED
  BY <1>1, <1>3, <1>4, <1>5, <1>6 DEF x

LEMMA DivisorFactors ==
  ASSUME NEW w \in Widths, NEW pts \in 2..MaxPpa, NEW a \in Nat \ {0},
         BitsPerWindowOf(w, pts) % a = 0
  PROVE  Factors(w, pts, a, BitsPerWindowOf(w, pts) \div a)
<1> DEFINE x == BitsPerWindowOf(w, pts)
<1>1. x \in Nat /\ x > 0 /\ a \in Nat /\ a > 0 /\ x % a = 0
  BY WindowIs
<1> HIDE DEF x
<1>2. x \div a \in Nat /\ a * (x \div a) = x
  <2>1. x \div a \in Nat /\ x = a * (x \div a) + (x % a)
    BY <1>1, SMT
  <2>2. a * (x \div a) \in Nat
    BY <1>1, <2>1
  <2>3. QED
    BY <1>1, <2>1, <2>2
<1>3. x \div a # 0
  BY <1>1, <1>2
<1>4. QED
  BY <1>1, <1>2, <1>3 DEF Factors, x

LEMMA ShapesAre ==
  ASSUME bits \in Widths
  PROVE  \A sh : sh \in AllShapes <=> IsShape(bits, sh)
<1>1. ASSUME NEW sh \in AllShapes PROVE IsShape(bits, sh)
  <2>1. PICK pts \in 2..MaxPpa : \E a \in 1..BitsPerWindowOf(bits, pts) :
          /\ BitsPerWindowOf(bits, pts) % a = 0
          /\ sh = ShapeOf(pts, a, BitsPerWindowOf(bits, pts) \div a, BitsPerWindowOf(bits, pts))
    BY DEF AllShapes
  <2>2. PICK a \in 1..BitsPerWindowOf(bits, pts) :
          /\ BitsPerWindowOf(bits, pts) % a = 0
          /\ sh = ShapeOf(pts, a, BitsPerWindowOf(bits, pts) \div a, BitsPerWindowOf(bits, pts))
    BY <2>1
  <2>3. Factors(bits, pts, a, BitsPerWindowOf(bits, pts) \div a)
    BY <2>2, DivisorFactors
  <2>4. QED
    BY <2>2, <2>3 DEF IsShape, Made
<1>2. ASSUME NEW sh, IsShape(bits, sh) PROVE sh \in AllShapes
  <2>1. PICK pts, a, s : Factors(bits, pts, a, s) /\ sh = Made(bits, pts, a, s)
    BY <1>2 DEF IsShape
  <2> DEFINE x == BitsPerWindowOf(bits, pts)
  <2>2. pts \in 2..MaxPpa /\ x \in Nat
    BY <2>1, WindowIs DEF Factors
  <2>3. a \in Nat /\ a >= 1 /\ a <= x /\ x % a = 0 /\ s = x \div a
    BY <2>1, FactorIs
  <2>4. sh = ShapeOf(pts, a, x \div a, x)
    BY <2>1, <2>3 DEF Made
  <2> HIDE DEF x
  <2>5. a \in {d \in 1..x : x % d = 0}
    BY <2>2, <2>3
  <2>6. QED
    BY <2>2, <2>4, <2>5 DEF AllShapes, x
<1>3. QED
  BY <1>1, <1>2

(* One of two factors is reached by a loop to one above the root.          *)
LEMMA OneIsSmall ==
  ASSUME NEW w \in Widths, NEW pts, NEW a, NEW s, Factors(w, pts, a, s)
  PROVE  /\ Isqrt(BitsPerWindowOf(w, pts)) \in Nat
         /\ a <= Isqrt(BitsPerWindowOf(w, pts)) + 1 \/ s <= Isqrt(BitsPerWindowOf(w, pts)) + 1
<1> DEFINE x == BitsPerWindowOf(w, pts)
           r == Isqrt(x)
<1>1. a \in Nat /\ s \in Nat /\ a * s = x /\ x \in 0..w /\ w \in BitSizes
  BY WindowIs, CombSpecAssumption DEF Factors, Widths
<1>2. r \in Nat /\ (r + 1) * (r + 1) > x
  BY <1>1, IsqrtIs DEF Above
<1> HIDE DEF r, x
<1>3. ASSUME a > r + 1, s > r + 1 PROVE FALSE
  <2>1. PICK d \in Nat, e \in Nat : a = (r + 1) + d /\ s = (r + 1) + e
    BY <1>1, <1>2, <1>3, a - (r + 1) \in Nat, s - (r + 1) \in Nat,
       a = (r + 1) + (a - (r + 1)), s = (r + 1) + (s - (r + 1))
  <2> DEFINE t == r + 1
             t2 == t * t
             rest == t * e + d * t + d * e
  <2>2. a * s = t2 + rest /\ t2 \in Nat /\ rest \in Nat
    <3>1. t \in Nat /\ a = t + d /\ s = t + e
      BY <1>2, <2>1
    <3> HIDE DEF t
    <3>2. (t + d) * (t + e) = t * t + (t * e + d * t + d * e)
      BY <3>1
    <3>3. t * t \in Nat /\ t * e \in Nat /\ d * t \in Nat /\ d * e \in Nat
      BY <3>1
    <3>4. QED
      BY <3>1, <3>2, <3>3
  <2>3. x \in Nat /\ x = t2 + rest /\ t2 > x
    BY <1>1, <1>2, <2>2
  <2> HIDE DEF t2, rest
  <2>4. QED
    BY <2>2, <2>3
<1>4. QED
  BY <1>1, <1>2, <1>3 DEF r, x

LEMMA OpsIs ==
  ASSUME NEW w \in Widths, NEW a \in 1..w, NEW s \in 1..w
  PROVE  Ops(a, s) \in Nat /\ Ops(a, s) <= w * (w + 1)
<1>1. w \in Nat /\ a \in Nat /\ s \in Nat
  BY CombSpecAssumption DEF Widths
<1>2. PICK d \in Nat, e \in Nat : w = a + d /\ w = s + e
  BY <1>1, w - a \in Nat, w - s \in Nat
<1>3. w * (w + 1) = (s + e) * (a + d + 1)
  BY <1>2
<1>4. (s + e) * (a + d + 1) = s * (a + 1) + (s * d + e * (a + d + 1))
  BY <1>1
<1> DEFINE x == s * (a + 1)
           y == s * d + e * (a + d + 1)
           z == w * (w + 1)
<1>5. x \in Nat /\ y \in Nat /\ z = x + y
  <2>1. s * (a + 1) \in Nat /\ s * d \in Nat /\ e * (a + d + 1) \in Nat
    BY <1>1
  <2>2. QED
    BY <1>3, <1>4, <2>1
<1>6. x >= 1
  <2>1. s * (a + 1) = s * a + s /\ s * a \in Nat
    BY <1>1
  <2>2. QED
    BY <1>1, <2>1
<1>7. Ops(a, s) = x - 1
  BY DEF Ops
<1> HIDE DEF x, y, z
<1>8. x - 1 \in Nat /\ x - 1 <= z
  BY <1>5, <1>6
<1>9. QED
  BY <1>7, <1>8 DEF z

(* A set of naturals with a bound has a greatest member.                   *)
LEMMA GreatestExists ==
  ASSUME NEW b \in Nat, NEW C, C \subseteq 0..b, NEW z \in C
  PROVE  \E m \in C : \A k \in C : k <= m
<1> DEFINE S == {n \in Nat : (\E k \in C : k >= b - n) => \E m \in C : \A k \in C : k <= m}
<1>1. 0 \in S
  <2>1. ASSUME NEW k \in C, k >= b PROVE \A j \in C : j <= k
    BY <2>1
  <2>2. QED
    BY <2>1
<1>2. ASSUME NEW n \in 0..(b - 1), n \in S PROVE n + 1 \in S
  <2>1. ASSUME NEW k \in C, k >= b - (n + 1) PROVE \E m \in C : \A j \in C : j <= m
    <3>1. CASE \E j \in C : j >= b - n
      BY <1>2, <3>1
    <3>2. CASE ~ \E j \in C : j >= b - n
      <4>1. \A j \in C : j <= k
        BY <1>2, <2>1, <3>2
      <4>2. QED
        BY <4>1
    <3>3. QED
      BY <3>1, <3>2
  <2>2. QED
    BY <1>2, <2>1
<1> HIDE DEF S
<1>3. b \in S
  <2>1. \A n \in 0..b : n \in S
    BY <1>1, <1>2, UpTo
  <2>2. QED
    BY <2>1
<1>4. z >= b - b
  OBVIOUS
<1>5. QED
  BY <1>3, <1>4 DEF S

CostsOf(w, pts) ==
  {Ops(a, BitsPerWindowOf(w, pts) \div a) : a \in ApsOf(BitsPerWindowOf(w, pts))}
    \cup {Ops(BitsPerWindowOf(w, pts) \div a, a) : a \in ApsOf(BitsPerWindowOf(w, pts))}

(* The loops of combspec_size meet every cost, in one orientation or the   *)
(* other.                                                                  *)
LEMMA CostBelow ==
  ASSUME NEW w \in Widths, NEW pts, NEW a, NEW s, Factors(w, pts, a, s)
  PROVE  SpecsLenOf(w) \in Nat /\ Ops(a, s) < SpecsLenOf(w)
<1> DEFINE C == UNION {CostsOf(w, q) : q \in 2..MaxPpa}
           top == CHOOSE m \in C : \A k \in C : k <= m
<1>1. SpecsLenOf(w) = 1 + top
  BY DEF SpecsLenOf, CostsOf
<1>2. C \subseteq 0..(w * (w + 1)) /\ w * (w + 1) \in Nat
  <2>1. w \in Nat /\ w * (w + 1) \in Nat
    BY CombSpecAssumption DEF Widths
  <2>2. ASSUME NEW q \in 2..MaxPpa, NEW d \in ApsOf(BitsPerWindowOf(w, q))
        PROVE  /\ Ops(d, BitsPerWindowOf(w, q) \div d) \in 0..(w * (w + 1))
               /\ Ops(BitsPerWindowOf(w, q) \div d, d) \in 0..(w * (w + 1))
    <3> DEFINE e == BitsPerWindowOf(w, q) \div d
    <3>1. BitsPerWindowOf(w, q) \in 0..w
      BY WindowIs, <2>1
    <3>2. Isqrt(BitsPerWindowOf(w, q)) \in Nat
      BY <3>1, IsqrtIs DEF Above, Widths
    <3>3. d \in Nat \ {0} /\ BitsPerWindowOf(w, q) % d = 0
      BY <3>2 DEF ApsOf
    <3>4. d \in 1..w /\ e \in 1..w
      BY <3>3, DivisorFactors, FactorIs
    <3> HIDE DEF e
    <3>5. Ops(d, e) \in Nat /\ Ops(d, e) <= w * (w + 1) /\ Ops(e, d) \in Nat /\ Ops(e, d) <= w * (w + 1)
      BY <3>4, OpsIs
    <3> DEFINE z == w * (w + 1)
    <3>6. Ops(d, e) \in 0..z /\ Ops(e, d) \in 0..z
      <4>1. z \in Nat /\ Ops(d, e) <= z /\ Ops(e, d) <= z
        BY <2>1, <3>5
      <4> HIDE DEF z
      <4>2. QED
        BY <3>5, <4>1
    <3>7. QED
      BY <3>6 DEF e
  <2>3. \A q \in 2..MaxPpa : CostsOf(w, q) \subseteq 0..(w * (w + 1))
    BY <2>2 DEF CostsOf
  <2>4. QED
    BY <2>1, <2>3
<1>3. Ops(a, s) \in C
  <2> DEFINE x == BitsPerWindowOf(w, pts)
  <2>1. pts \in 2..MaxPpa /\ a \in Nat /\ s \in Nat /\ a > 0 /\ s > 0
    BY DEF Factors
  <2>2. Factors(w, pts, s, a) /\ x % a = 0 /\ x \div a = s
    BY FactorIs
  <2>3. x % s = 0 /\ x \div s = a
    BY <2>2, FactorIs
  <2>4. Isqrt(x) \in Nat /\ (a <= Isqrt(x) + 1 \/ s <= Isqrt(x) + 1)
    BY OneIsSmall
  <2>5. Ops(a, s) \in CostsOf(w, pts)
    <3>1. CASE a <= Isqrt(x) + 1
      <4>1. a \in ApsOf(x)
        BY <2>1, <2>2, <2>4, <3>1 DEF ApsOf
      <4>2. QED
        BY <2>2, <4>1 DEF CostsOf
    <3>2. CASE s <= Isqrt(x) + 1
      <4>1. s \in ApsOf(x)
        BY <2>1, <2>3, <2>4, <3>2 DEF ApsOf
      <4>2. QED
        BY <2>3, <4>1 DEF CostsOf
    <3>3. QED
      BY <2>4, <3>1, <3>2
  <2>6. QED
    BY <2>1, <2>5
<1> HIDE DEF C
<1>4. \E m \in C : \A k \in C : k <= m
  BY <1>2, <1>3, GreatestExists
<1>5. top \in C /\ \A k \in C : k <= top
  BY <1>4
<1> HIDE DEF top
<1>6. top \in Nat /\ Ops(a, s) <= top /\ Ops(a, s) \in Nat
  <2>1. \A k \in C : k \in Nat
    BY <1>2
  <2>2. QED
    BY <1>3, <1>5, <2>1
<1>7. QED
  BY <1>1, <1>6

LEMMA TableSizeIs ==
  ASSUME NEW w \in Widths, NEW pts, NEW a, NEW s, Factors(w, pts, a, s)
  PROVE  TableSize(pts, a) \in Nat /\ Largest(w) \in Nat /\ TableSize(pts, a) < Largest(w)
<1> DEFINE t == 2^pts
           u == 2^MaxPpa
<1>1. t \in Nat /\ 2 <= t /\ t <= u /\ u \in Nat /\ pts \in 2..MaxPpa
  BY PowersAssumption, CombSpecAssumption, MaxPpa \in 2..MaxPpa DEF Factors
<1>2. a \in Nat /\ a > 0 /\ a <= w /\ w \in Nat
  BY FactorIs, CombSpecAssumption DEF Widths
<1>3. TableSize(pts, a) = (t - 1) * a /\ Largest(w) = u * (w + 1)
  BY DEF TableSize, Largest
<1> HIDE DEF t, u
<1>4. PICK d \in Nat, e \in Nat : u = (t - 1) + 1 + d /\ w = a + e
  BY <1>1, <1>2, u - t \in Nat, w - a \in Nat
<1> DEFINE m == t - 1
           x == m * a
           y == u * (w + 1)
           rest == m * (e + 1) + (1 + d) * (a + e)
<1>5. m \in Nat /\ u = m + (1 + d)
  BY <1>1, <1>4
<1>6. y = x + rest + (1 + d) /\ x \in Nat /\ rest \in Nat
  <2> HIDE DEF m
  <2>1. u * (w + 1) = (m + (1 + d)) * (a + e + 1)
    BY <1>4, <1>5
  <2>2. (m + (1 + d)) * (a + e + 1) = m * a + (m * (e + 1) + (1 + d) * (a + e)) + (1 + d)
    BY <1>2, <1>5
  <2>3. m * a \in Nat /\ m * (e + 1) \in Nat /\ (1 + d) * (a + e) \in Nat
    BY <1>2, <1>5
  <2>4. QED
    BY <2>1, <2>2, <2>3
<1> HIDE DEF m, x, y, rest
<1>7. x \in Nat /\ y \in Nat /\ x < y
  BY <1>6
<1>8. QED
  BY <1>3, <1>7 DEF m, x, y

------------------------------------------------------------------------------
(* The array of the cheapest tables.                                       *)

(* An entry is a shape of its cost.                                        *)
ArrayOk(w, arr) ==
  /\ arr = [k \in DOMAIN arr |-> arr[k]]
  /\ \A k \in DOMAIN arr : k \in Nat /\ IsShape(w, arr[k]) /\ Cost(arr[k]) = k

(* The array has an entry for the shape, whose table is no larger.         *)
Stored(arr, pts, a, s) ==
  Ops(a, s) \in DOMAIN arr /\ arr[Ops(a, s)].size <= TableSize(pts, a)

LEMMA ShapeSize ==
  ASSUME NEW w \in Widths, NEW sh, IsShape(w, sh)
  PROVE  sh.size \in Nat /\ sh.size < Largest(w)
<1>1. PICK pts, a, s : Factors(w, pts, a, s) /\ sh = Made(w, pts, a, s)
  BY DEF IsShape
<1>2. sh.size = TableSize(pts, a)
  BY <1>1, MadeIs
<1>3. QED
  BY <1>1, <1>2, TableSizeIs

LEMMA ShapeCost ==
  ASSUME NEW w \in Widths, NEW sh, IsShape(w, sh)
  PROVE  Cost(sh) \in Nat /\ Cost(sh) < SpecsLenOf(w)
<1>1. PICK pts, a, s : Factors(w, pts, a, s) /\ sh = Made(w, pts, a, s)
  BY DEF IsShape
<1>2. Cost(sh) = Ops(a, s)
  BY <1>1, MadeIs
<1>3. a \in 1..w /\ s \in 1..w
  BY <1>1, FactorIs
<1>4. QED
  BY <1>1, <1>2, <1>3, OpsIs, CostBelow

LEMMA GenerateIs ==
  ASSUME NEW w \in Widths, NEW arr, ArrayOk(w, arr), NEW pts, NEW a, NEW s, Factors(w, pts, a, s)
  PROVE  /\ ArrayOk(w, Generate(arr, s, a, pts, BitsPerWindowOf(w, pts)))
         /\ Stored(Generate(arr, s, a, pts, BitsPerWindowOf(w, pts)), pts, a, s)
         /\ \A p2, a2, s2 : Factors(w, p2, a2, s2) /\ Stored(arr, p2, a2, s2) =>
              Stored(Generate(arr, s, a, pts, BitsPerWindowOf(w, pts)), p2, a2, s2)
<1> DEFINE cost == Ops(a, s)
           shape == Made(w, pts, a, s)
           new == [k \in DOMAIN arr \cup {cost} |-> IF k = cost THEN shape ELSE arr[k]]
           gen == Generate(arr, s, a, pts, BitsPerWindowOf(w, pts))
<1>1. gen = IF cost \in DOMAIN arr /\ arr[cost].size <= shape.size THEN arr ELSE new
  BY DEF Generate, Kept, Made
<1>2. shape.size = TableSize(pts, a) /\ Cost(shape) = cost /\ IsShape(w, shape)
  BY MadeIs DEF IsShape
<1>3. shape.size \in Nat /\ cost \in Nat
  BY <1>2, ShapeSize, ShapeCost
<1>4. \A k \in DOMAIN arr : arr[k].size \in Nat
  BY ShapeSize DEF ArrayOk
<1> HIDE DEF cost, shape, gen
<1>5. CASE cost \in DOMAIN arr /\ arr[cost].size <= shape.size
  <2>1. gen = arr
    BY <1>1, <1>5
  <2>2. Stored(arr, pts, a, s)
    BY <1>2, <1>5 DEF Stored, cost
  <2>3. QED
    BY <2>1, <2>2 DEF gen
<1>6. CASE ~(cost \in DOMAIN arr /\ arr[cost].size <= shape.size)
  <2>1. gen = new
    BY <1>1, <1>6
  <2>2. /\ DOMAIN new = DOMAIN arr \cup {cost} /\ new[cost] = shape
        /\ \A k \in DOMAIN arr : k # cost => new[k] = arr[k]
        /\ new = [k \in DOMAIN new |-> new[k]]
    OBVIOUS
  <2> HIDE DEF new
  <2>3. ArrayOk(w, new)
    <3>1. ASSUME NEW k \in DOMAIN new PROVE k \in Nat /\ IsShape(w, new[k]) /\ Cost(new[k]) = k
      <4>1. CASE k = cost
        BY <1>2, <1>3, <2>2, <4>1
      <4>2. CASE k # cost
        <5>1. k \in DOMAIN arr /\ new[k] = arr[k]
          BY <2>2, <4>2
        <5>2. QED
          BY <5>1 DEF ArrayOk
      <4>3. QED
        BY <4>1, <4>2
    <3>2. QED
      BY <2>2, <3>1 DEF ArrayOk
  <2>4. Stored(new, pts, a, s)
    <3>1. cost \in DOMAIN new /\ new[cost].size <= TableSize(pts, a)
      BY <1>2, <1>3, <2>2
    <3>2. QED
      BY <3>1 DEF Stored, cost
  <2>5. ASSUME NEW p2, NEW a2, NEW s2, Factors(w, p2, a2, s2), Stored(arr, p2, a2, s2)
        PROVE  Stored(new, p2, a2, s2)
    <3> DEFINE k2 == Ops(a2, s2)
    <3>1. k2 \in DOMAIN arr /\ arr[k2].size <= TableSize(p2, a2) /\ arr[k2].size \in Nat
          /\ TableSize(p2, a2) \in Nat
      BY <1>4, <2>5, TableSizeIs DEF Stored
    <3> HIDE DEF k2
    <3>2. CASE k2 # cost
      <4>1. k2 \in DOMAIN new /\ new[k2].size <= TableSize(p2, a2)
        BY <2>2, <3>1, <3>2
      <4>2. QED
        BY <4>1 DEF Stored, k2
    <3>3. CASE k2 = cost
      <4>1. shape.size <= arr[k2].size
        BY <1>3, <1>6, <3>1, <3>3
      <4>2. k2 \in DOMAIN new /\ new[k2] = shape
        BY <2>2, <3>3
      <4>3. new[k2].size <= TableSize(p2, a2)
        BY <1>3, <3>1, <4>1, <4>2
      <4>4. QED
        BY <4>2, <4>3 DEF Stored, k2
    <3>4. QED
      BY <3>2, <3>3
  <2>6. QED
    BY <2>1, <2>3, <2>4, <2>5 DEF gen
<1>7. QED
  BY <1>5, <1>6

------------------------------------------------------------------------------
(* The loops.                                                              *)

(* A factorisation the filling has met: aps ran over one of the factors.   *)
Met(pts, a, s) == pts < ppa \/ (pts = ppa /\ (a < aps \/ s < aps))

Filling ==
  /\ ppa \in 2..(MaxPpa + 1) /\ aps \in Nat \ {0}
  /\ \A pts, a, s : Factors(bits, pts, a, s) /\ Met(pts, a, s) => Stored(specs, pts, a, s)

(* What the selection has passed over does not fit.                        *)
Picking ==
  /\ idx \in Nat /\ sm \in Nat
  /\ sm = Largest(bits) \/ sm > maxSize
  /\ \A pts, a, s : Factors(bits, pts, a, s) => Stored(specs, pts, a, s)
  /\ \A k \in DOMAIN specs : k < idx => specs[k].size > maxSize

PlanInv ==
  /\ planPc \in {"idle", "fill", "pick", "done"}
  /\ planPc \in {"idle", "done"} => DOMAIN specs = {}
  /\ planPc \in {"fill", "pick"} =>
       /\ bits \in Widths /\ maxSize \in Nat /\ specsLen = SpecsLenOf(bits)
       /\ ArrayOk(bits, specs)
  /\ planPc = "fill" => Filling
  /\ planPc = "pick" => Picking
  /\ CheapestThatFits

LEMMA PlanInitInv == PlanInit => PlanInv
BY DEF PlanInit, PlanInv, CheapestThatFits

LEMMA BeginInv ==
  ASSUME PlanInv, NEW w \in BitSizes, NEW m \in MaxSizes, PlanBegin(w, m)
  PROVE  PlanInv'
<1>1. /\ planPc = "idle" /\ planPc' = "fill" /\ bits' = w /\ maxSize' = m /\ w # 0
      /\ specsLen' = SpecsLenOf(w) /\ ppa' = 2 /\ aps' = 1 /\ specs' = specs
  BY DEF PlanBegin
<1>2. w \in Widths /\ m \in Nat /\ MaxPpa \in Nat /\ MaxPpa >= 2
  BY <1>1, CombSpecAssumption DEF Widths
<1>3. DOMAIN specs = {}
  BY <1>1 DEF PlanInv
<1>4. ArrayOk(w, specs')
  <2>1. specs = [k \in DOMAIN specs |-> specs[k]]
    BY <1>1 DEF PlanInv
  <2>2. QED
    BY <1>1, <1>3, <2>1 DEF ArrayOk
<1>5. Filling'
  <2>1. ASSUME NEW pts, NEW a, NEW s, Factors(w, pts, a, s), Met(pts, a, s)' PROVE FALSE
    <3>1. pts \in 2..MaxPpa /\ a \in Nat \ {0} /\ s \in Nat \ {0}
      BY <2>1 DEF Factors
    <3>2. pts < 2 \/ a < 1 \/ s < 1
      BY <1>1, <2>1 DEF Met
    <3>3. QED
      BY <3>1, <3>2
  <2>2. ppa' \in 2..(MaxPpa + 1) /\ aps' \in Nat \ {0}
    BY <1>1, <1>2
  <2>3. QED
    BY <1>1, <2>1, <2>2 DEF Filling
<1>6. QED
  BY <1>1, <1>2, <1>4, <1>5 DEF PlanInv, CheapestThatFits

LEMMA FillTurn ==
  ASSUME PlanInv, Fill
  PROVE  PlanInv'
<1> DEFINE x == BitsPerWindowOf(bits, ppa)
           t == x \div aps
           once == Generate(specs, t, aps, ppa, x)
           twice == Generate(once, aps, t, ppa, x)
<1>1. /\ planPc = "fill" /\ planPc' = "fill" /\ ppa <= MaxPpa
      /\ specs' = IF x % aps = 0 THEN twice ELSE specs
      /\ aps' = aps + 1 /\ ppa' = ppa /\ bits' = bits /\ maxSize' = maxSize /\ specsLen' = specsLen
  BY DEF Fill
<1>2. /\ bits \in Widths /\ maxSize \in Nat /\ specsLen = SpecsLenOf(bits)
      /\ ArrayOk(bits, specs) /\ Filling
  BY <1>1 DEF PlanInv
<1>3. ppa \in 2..MaxPpa /\ aps \in Nat \ {0} /\ MaxPpa \in Nat
  BY <1>1, <1>2, CombSpecAssumption DEF Filling
<1>4. /\ ArrayOk(bits, specs')
      /\ \A pts, a, s : Factors(bits, pts, a, s) /\ Stored(specs, pts, a, s) => Stored(specs', pts, a, s)
      /\ x % aps = 0 => Stored(specs', ppa, aps, t) /\ Stored(specs', ppa, t, aps)
  <2>1. CASE x % aps = 0
    <3>1. Factors(bits, ppa, aps, t)
      BY <1>2, <1>3, <2>1, DivisorFactors
    <3>2. Factors(bits, ppa, t, aps)
      BY <1>2, <3>1, FactorIs
    <3> HIDE DEF t
    <3>3. /\ ArrayOk(bits, once) /\ Stored(once, ppa, aps, t)
          /\ \A pts, a, s : Factors(bits, pts, a, s) /\ Stored(specs, pts, a, s) => Stored(once, pts, a, s)
      BY <1>2, <3>1, GenerateIs
    <3> HIDE DEF once
    <3>4. /\ ArrayOk(bits, twice) /\ Stored(twice, ppa, t, aps)
          /\ \A pts, a, s : Factors(bits, pts, a, s) /\ Stored(once, pts, a, s) => Stored(twice, pts, a, s)
      BY <1>2, <3>2, <3>3, GenerateIs
    <3> HIDE DEF twice
    <3>5. specs' = twice
      BY <1>1, <2>1 DEF once, t
    <3>6. QED
      BY <3>1, <3>3, <3>4, <3>5
  <2>2. CASE x % aps # 0
    BY <1>1, <1>2, <2>2
  <2>3. QED
    BY <2>1, <2>2
<1> HIDE DEF once, twice
<1>5. Filling'
  <2>1. ASSUME NEW pts, NEW a, NEW s, Factors(bits, pts, a, s), Met(pts, a, s)'
        PROVE  Stored(specs', pts, a, s)
    <3>1. pts < ppa \/ (pts = ppa /\ (a < aps + 1 \/ s < aps + 1))
      BY <1>1, <2>1 DEF Met, Factors
    <3>2. a \in Nat /\ s \in Nat
      BY <2>1 DEF Factors
    <3>3. CASE Met(pts, a, s)
      <4>1. Stored(specs, pts, a, s)
        BY <1>2, <2>1, <3>3 DEF Filling
      <4>2. QED
        BY <1>4, <2>1, <4>1
    <3>4. CASE ~Met(pts, a, s)
      <4>1. pts = ppa /\ (a = aps \/ s = aps)
        BY <1>3, <3>1, <3>2, <3>4 DEF Met
      <4>2. x % a = 0 /\ x \div a = s /\ Factors(bits, pts, s, a)
        BY <1>2, <2>1, <4>1, FactorIs
      <4>3. x % s = 0 /\ x \div s = a
        BY <1>2, <4>1, <4>2, FactorIs
      <4>4. QED
        BY <1>4, <4>1, <4>2, <4>3
    <3>5. QED
      BY <3>3, <3>4
  <2>2. ppa' \in 2..(MaxPpa + 1) /\ aps' \in Nat \ {0}
    BY <1>1, <1>3
  <2>3. QED
    BY <1>1, <2>1, <2>2 DEF Filling
<1>6. QED
  BY <1>1, <1>2, <1>4, <1>5 DEF PlanInv, CheapestThatFits

(* Beyond one above the root, one of the two factors has been met.         *)
LEMMA NextPpaInv ==
  ASSUME PlanInv, NextPpa
  PROVE  PlanInv'
<1>1. /\ planPc = "fill" /\ planPc' = "fill" /\ ppa <= MaxPpa
      /\ aps >= ApsEnd(BitsPerWindowOf(bits, ppa))
      /\ ppa' = ppa + 1 /\ aps' = 1
      /\ bits' = bits /\ maxSize' = maxSize /\ specsLen' = specsLen /\ specs' = specs
  BY DEF NextPpa
<1>2. /\ bits \in Widths /\ maxSize \in Nat /\ specsLen = SpecsLenOf(bits)
      /\ ArrayOk(bits, specs) /\ Filling
  BY <1>1 DEF PlanInv
<1>3. ppa \in 2..MaxPpa /\ aps \in Nat \ {0} /\ MaxPpa \in Nat
  BY <1>1, <1>2, CombSpecAssumption DEF Filling
<1>4. ASSUME NEW pts, NEW a, NEW s, Factors(bits, pts, a, s), Met(pts, a, s)'
      PROVE  Met(pts, a, s)
  <2>1. pts \in 2..MaxPpa /\ a \in Nat \ {0} /\ s \in Nat \ {0}
    BY <1>4 DEF Factors
  <2>2. pts < ppa + 1
    BY <1>1, <1>3, <1>4, <2>1 DEF Met
  <2>3. CASE pts = ppa
    <3> DEFINE r == Isqrt(BitsPerWindowOf(bits, pts))
    <3>1. r \in Nat /\ (a <= r + 1 \/ s <= r + 1)
      BY <1>2, <1>4, OneIsSmall
    <3>2. aps >= r + 2
      BY <1>1, <2>3 DEF ApsEnd
    <3> HIDE DEF r
    <3>3. a < aps \/ s < aps
      BY <1>3, <2>1, <3>1, <3>2
    <3>4. QED
      BY <2>3, <3>3 DEF Met
  <2>4. CASE pts < ppa
    BY <2>4 DEF Met
  <2>5. QED
    BY <1>3, <2>1, <2>2, <2>3, <2>4
<1>5. Filling'
  <2>1. ppa' \in 2..(MaxPpa + 1) /\ aps' \in Nat \ {0}
    BY <1>1, <1>3
  <2>2. QED
    BY <1>1, <1>2, <1>4, <2>1 DEF Filling
<1>6. QED
  BY <1>1, <1>2, <1>5 DEF PlanInv, CheapestThatFits

LEMMA FilledInv ==
  ASSUME PlanInv, Filled
  PROVE  PlanInv'
<1>1. /\ planPc = "fill" /\ planPc' = "pick" /\ ppa > MaxPpa
      /\ idx' = 0 /\ sm' = Unbounded
      /\ bits' = bits /\ maxSize' = maxSize /\ specsLen' = specsLen /\ specs' = specs
  BY DEF Filled
<1>2. /\ bits \in Widths /\ maxSize \in Nat /\ specsLen = SpecsLenOf(bits)
      /\ ArrayOk(bits, specs) /\ Filling
  BY <1>1 DEF PlanInv
<1>3. MaxPpa \in Nat /\ MaxPpa >= 2 /\ ppa \in Nat
  BY <1>2, CombSpecAssumption DEF Filling
<1>4. ASSUME NEW pts, NEW a, NEW s, Factors(bits, pts, a, s) PROVE Stored(specs, pts, a, s)
  <2>1. pts \in 2..MaxPpa
    BY <1>4 DEF Factors
  <2>2. Met(pts, a, s)
    BY <1>1, <1>3, <2>1 DEF Met
  <2>3. QED
    BY <1>2, <1>4, <2>2 DEF Filling
<1>5. sm' = Largest(bits) /\ Largest(bits) \in Nat
  <2>1. sm' = Largest(bits)
    BY <1>1 DEF Unbounded, Largest
  <2>2. 2^MaxPpa \in Nat /\ bits \in Nat
    BY <1>2, <1>3, PowersAssumption, CombSpecAssumption, MaxPpa \in 2..MaxPpa DEF Widths
  <2> DEFINE u == 2^MaxPpa
  <2>3. u * (bits + 1) \in Nat
    <3> HIDE DEF u
    <3>1. QED
      BY <2>2 DEF u
  <2>4. QED
    BY <2>1, <2>3 DEF Largest
<1>6. Picking'
  <2>1. \A k \in DOMAIN specs : ~(k < 0)
    BY <1>2 DEF ArrayOk
  <2>2. QED
    BY <1>1, <1>4, <1>5, <2>1 DEF Picking
<1>7. QED
  BY <1>1, <1>2, <1>6 DEF PlanInv, CheapestThatFits

LEMMA SkipInv ==
  ASSUME PlanInv, Skip
  PROVE  PlanInv'
<1>1. /\ planPc = "pick" /\ planPc' = "pick"
      /\ idx \in DOMAIN specs => sm <= specs[idx].size \/ specs[idx].size > maxSize
      /\ sm' = IF idx \in DOMAIN specs /\ specs[idx].size < sm THEN specs[idx].size ELSE sm
      /\ idx' = idx + 1
      /\ bits' = bits /\ maxSize' = maxSize /\ specsLen' = specsLen /\ specs' = specs
  BY DEF Skip
<1>2. /\ bits \in Widths /\ maxSize \in Nat /\ specsLen = SpecsLenOf(bits)
      /\ ArrayOk(bits, specs) /\ Picking
  BY <1>1 DEF PlanInv
<1>3. \A k \in DOMAIN specs : k \in Nat /\ specs[k].size \in Nat /\ specs[k].size < Largest(bits)
  BY <1>2, ShapeSize DEF ArrayOk
<1>4. /\ idx \in Nat /\ sm \in Nat /\ (sm = Largest(bits) \/ sm > maxSize)
      /\ \A k \in DOMAIN specs : k < idx => specs[k].size > maxSize
  BY <1>2 DEF Picking
<1>5. idx \in DOMAIN specs => specs[idx].size > maxSize
  BY <1>1, <1>2, <1>3, <1>4
<1>6. sm' \in Nat /\ (sm' = Largest(bits) \/ sm' > maxSize)
  BY <1>1, <1>3, <1>4, <1>5
<1>7. \A k \in DOMAIN specs : k < idx + 1 => specs[k].size > maxSize
  BY <1>3, <1>4, <1>5
<1>8. Picking'
  BY <1>1, <1>2, <1>4, <1>6, <1>7 DEF Picking
<1>9. QED
  BY <1>1, <1>2, <1>8 DEF PlanInv, CheapestThatFits

(* A shape that fits has an entry, no larger, that was not passed over.    *)
LEMMA FittingEntry ==
  ASSUME bits \in Widths, maxSize \in Nat, ArrayOk(bits, specs), Picking,
         NEW sh \in AllShapes, sh.size <= maxSize
  PROVE  /\ Cost(sh) \in DOMAIN specs /\ Cost(sh) \in Nat /\ Cost(sh) < SpecsLenOf(bits)
         /\ idx <= Cost(sh)
<1>1. IsShape(bits, sh)
  BY ShapesAre
<1>2. PICK pts, a, s : Factors(bits, pts, a, s) /\ sh = Made(bits, pts, a, s)
  BY <1>1 DEF IsShape
<1> DEFINE k == Cost(sh)
<1>3. k = Ops(a, s) /\ sh.size = TableSize(pts, a) /\ sh.size \in Nat
  BY <1>1, <1>2, MadeIs, ShapeSize
<1>4. k \in DOMAIN specs /\ specs[k].size <= sh.size
  BY <1>2, <1>3 DEF Picking, Stored
<1>5. specs[k].size \in Nat
  BY <1>4, ShapeSize DEF ArrayOk
<1>6. k \in Nat /\ k < SpecsLenOf(bits)
  BY <1>1, ShapeCost
<1> HIDE DEF k
<1>7. specs[k].size <= maxSize
  BY <1>3, <1>4, <1>5
<1>8. ~(k < idx)
  BY <1>4, <1>5, <1>7 DEF Picking
<1>9. idx <= k
  BY <1>6, <1>8 DEF Picking
<1>10. QED
  BY <1>4, <1>6, <1>9 DEF k

Fitting == {sh \in AllShapes : sh.size <= maxSize}

LEMMA PickInv ==
  ASSUME PlanInv, Pick
  PROVE  PlanInv'
<1>1. /\ planPc = "pick" /\ planPc' = "done" /\ idx \in DOMAIN specs
      /\ specs[idx].size <= maxSize
      /\ chosen' = specs[idx] /\ planOk' = TRUE /\ DOMAIN specs' = {}
      /\ bits' = bits /\ maxSize' = maxSize
  BY DEF Pick
<1>2. bits \in Widths /\ maxSize \in Nat /\ ArrayOk(bits, specs) /\ Picking
  BY <1>1 DEF PlanInv
<1>3. IsShape(bits, chosen') /\ Cost(chosen') = idx
  BY <1>1, <1>2 DEF ArrayOk
<1>4. chosen' \in Fitting
  BY <1>1, <1>2, <1>3, ShapesAre DEF Fitting
<1>5. \A sh \in Fitting : Cost(chosen') <= Cost(sh)
  BY <1>2, <1>3, FittingEntry DEF Fitting
<1>6. bits <= Covered(chosen') /\ Covered(chosen') < bits + chosen'.points_per_add
  <2>1. PICK pts, a, s : Factors(bits, pts, a, s) /\ chosen' = Made(bits, pts, a, s)
    BY <1>3 DEF IsShape
  <2>2. Covered(chosen') = pts * a * s /\ chosen'.points_per_add = pts
    BY <2>1, MadeIs
  <2>3. pts \in 2..MaxPpa /\ a \in Nat /\ s \in Nat /\ a * s = BitsPerWindowOf(bits, pts)
    BY <2>1 DEF Factors
  <2>4. pts * a * s = pts * (a * s)
    BY <2>3
  <2>5. bits <= pts * BitsPerWindowOf(bits, pts) /\ pts * BitsPerWindowOf(bits, pts) < bits + pts
    BY <1>2, <2>3, WindowIs
  <2>6. Covered(chosen') = pts * BitsPerWindowOf(bits, pts)
    BY <2>2, <2>3, <2>4
  <2>7. QED
    BY <2>2, <2>5, <2>6
<1>7. AllShapes' = AllShapes /\ Fitting' = Fitting
  BY <1>1 DEF AllShapes, Fitting
<1>8. CheapestThatFits'
  BY <1>1, <1>4, <1>5, <1>6, <1>7 DEF CheapestThatFits, Fitting
<1>9. QED
  BY <1>1, <1>8 DEF PlanInv

LEMMA NoneFitsInv ==
  ASSUME PlanInv, NoneFits
  PROVE  PlanInv'
<1>1. /\ planPc = "pick" /\ planPc' = "done" /\ idx >= specsLen
      /\ planOk' = FALSE /\ DOMAIN specs' = {}
      /\ bits' = bits /\ maxSize' = maxSize
  BY DEF NoneFits
<1>2. bits \in Widths /\ maxSize \in Nat /\ ArrayOk(bits, specs) /\ Picking
      /\ specsLen = SpecsLenOf(bits)
  BY <1>1 DEF PlanInv
<1>3. ASSUME NEW sh \in Fitting PROVE FALSE
  <2>1. Cost(sh) \in Nat /\ Cost(sh) < SpecsLenOf(bits) /\ idx <= Cost(sh) /\ idx \in Nat
    BY <1>2, <1>3, FittingEntry DEF Fitting, Picking
  <2>2. SpecsLenOf(bits) \in Nat
    <3>1. PICK pts, a, s : Factors(bits, pts, a, s)
      BY <1>2, <1>3, ShapesAre DEF Fitting, IsShape
    <3>2. QED
      BY <1>2, <3>1, CostBelow
  <2>3. QED
    BY <1>1, <1>2, <2>1, <2>2
<1>4. Fitting = {} /\ Fitting' = Fitting
  BY <1>1, <1>3 DEF Fitting, AllShapes
<1>5. CheapestThatFits'
  BY <1>1, <1>4 DEF CheapestThatFits, Fitting
<1>6. QED
  BY <1>1, <1>5 DEF PlanInv

LEMMA PlanStepInv == PlanInv /\ [PlanNext]_planVars => PlanInv'
<1> SUFFICES ASSUME PlanInv, [PlanNext]_planVars PROVE PlanInv'
  OBVIOUS
<1>1. ASSUME NEW w \in BitSizes, NEW m \in MaxSizes, PlanRefuse(w, m) PROVE PlanInv'
  <2>1. /\ planPc = "idle" /\ planPc' = "done" /\ planOk' = FALSE /\ specs' = specs
        /\ bits' = w /\ maxSize' = m /\ (w = 0 \/ m = 0)
    BY <1>1 DEF PlanRefuse
  <2>2. CheapestThatFits'
    <3>1. CASE w = 0
      BY <2>1, <3>1 DEF CheapestThatFits
    <3>2. CASE w # 0 /\ m = 0
      <4>1. bits' \in Widths
        BY <2>1, <3>2, CombSpecAssumption DEF Widths
      <4>2. ASSUME NEW sh \in AllShapes', sh.size <= 0 PROVE FALSE
        <5>1. PICK pts \in 2..MaxPpa : \E a \in 1..BitsPerWindowOf(w, pts) :
                sh = ShapeOf(pts, a, BitsPerWindowOf(w, pts) \div a, BitsPerWindowOf(w, pts))
          BY <2>1, <4>2 DEF AllShapes
        <5>2. PICK a \in 1..BitsPerWindowOf(w, pts) :
                sh = ShapeOf(pts, a, BitsPerWindowOf(w, pts) \div a, BitsPerWindowOf(w, pts))
          BY <5>1
        <5>3. sh.size = (2^pts - 1) * a
          BY <5>2 DEF ShapeOf
        <5> DEFINE t == 2^pts
        <5>4. t \in Nat /\ 2 <= t /\ a \in Nat /\ a >= 1
          BY <4>1, <5>2, WindowIs, PowersAssumption
        <5> HIDE DEF t
        <5>5. PICK d \in Nat : t = d + 2
          BY <5>4, t - 2 \in Nat
        <5>6. (t - 1) * a = d * a + a /\ d * a \in Nat
          BY <5>4, <5>5
        <5>7. sh.size = (t - 1) * a
          BY <5>3 DEF t
        <5>8. QED
          BY <4>2, <5>4, <5>6, <5>7
      <4>3. QED
        BY <2>1, <3>2, <4>2 DEF CheapestThatFits
    <3>3. QED
      BY <2>1, <3>1, <3>2
  <2>3. QED
    BY <2>1, <2>2 DEF PlanInv
<1>2. ASSUME NEW w \in BitSizes, NEW m \in MaxSizes, PlanBegin(w, m) PROVE PlanInv'
  BY <1>2, BeginInv
<1>3. ASSUME UNCHANGED planVars PROVE PlanInv'
  <2>1. /\ UNCHANGED <<planPc, bits, maxSize, specsLen, specs, ppa, aps>>
        /\ UNCHANGED <<idx, sm, chosen, planOk>>
    BY <1>3 DEF planVars
  <2>2. (Filling <=> Filling') /\ (Picking <=> Picking')
    BY <2>1 DEF Filling, Picking, Met
  <2>3. CheapestThatFits <=> CheapestThatFits'
    BY <2>1 DEF CheapestThatFits, AllShapes
  <2>4. QED
    BY <2>1, <2>2, <2>3 DEF PlanInv
<1>4. QED
  BY <1>1, <1>2, <1>3, FillTurn, NextPpaInv, FilledInv, SkipInv, PickInv, NoneFitsInv DEF PlanNext

LEMMA PlanAlways == PlanSpec => []PlanInv
BY PlanInitInv, PlanStepInv, PTL DEF PlanSpec

(* No cost that goo_combspec_init produces lies outside the array that     *)
(* combspec_size measured, for every width: no write past its end.         *)
THEOREM CostsFitArrayAlways == PlanSpec => []CostsFitArray
<1>1. PlanInv => CostsFitArray
  <2> SUFFICES ASSUME PlanInv, NEW k \in DOMAIN specs PROVE k < specsLen
    BY DEF CostsFitArray
  <2>1. bits \in Widths /\ ArrayOk(bits, specs) /\ specsLen = SpecsLenOf(bits)
    BY DEF PlanInv
  <2>2. IsShape(bits, specs[k]) /\ Cost(specs[k]) = k
    BY <2>1 DEF ArrayOk
  <2>3. QED
    BY <2>1, <2>2, ShapeCost
<1>2. QED
  BY <1>1, PlanAlways, PTL

(* For every width and every limit the shape chosen is the cheapest whose  *)
(* table fits, and none is chosen only if there is none.                   *)
THEOREM CheapestThatFitsAlways == PlanSpec => []CheapestThatFits
<1>1. PlanInv => CheapestThatFits
  BY DEF PlanInv
<1>2. QED
  BY <1>1, PlanAlways, PTL

------------------------------------------------------------------------------
(* Signs.                                                                  *)

Signs(f, n) == \A k \in 1..n : f[k] \in {1, -1}
Sgn(z) == IF z % 2 = 0 THEN 1 ELSE -1

LEMMA SgnIs ==
  ASSUME NEW a \in Int, NEW b \in Int
  PROVE  Sgn(a) \in {1, -1} /\ Sgn(a + b) = Sgn(a) * Sgn(b) /\ Sgn(a - b) = Sgn(a) * Sgn(b)
<1>1. a % 2 \in {0, 1} /\ b % 2 \in {0, 1} /\ (a + b) % 2 = ((a % 2) + (b % 2)) % 2
      /\ (a - b) % 2 = ((a % 2) + (b % 2)) % 2
  BY SMT
<1>2. QED
  BY <1>1 DEF Sgn

LEMMA SgnOdd ==
  ASSUME NEW a \in Int, NEW d \in Int
  PROVE  Sgn((2 * d + 1) * a) = Sgn(a) /\ Sgn(2 * d + 1) = -1 /\ Sgn(2 * d) = 1 /\ Sgn(-a) = Sgn(a)
<1>1. (2 * d + 1) * a = 2 * (d * a) + a /\ d * a \in Int
  OBVIOUS
<1>2. \A u \in Int : (2 * u + a) % 2 = a % 2 /\ (2 * u + 1) % 2 = 1 /\ (2 * u) % 2 = 0
  BY SMT
<1>3. (-a) % 2 = a % 2
  BY SMT
<1>4. QED
  BY <1>1, <1>2, <1>3 DEF Sgn

LEMMA ProductTimes ==
  ASSUME NEW n \in Nat, NEW f, NEW g, NEW e, Integers(f, n), Integers(g, n),
         \A k \in 1..n : e[k] = f[k] * g[k]
  PROVE  Product(e, n) = Product(f, n) * Product(g, n)
<1> DEFINE S == {l \in Nat : l <= n => Product(e, l) = Product(f, l) * Product(g, l)}
<1>0. \A k \in 1..n : f[k] \in Int /\ g[k] \in Int /\ e[k] \in Int /\ e[k] = f[k] * g[k]
  BY DEF Integers
<1>1. 0 \in S
  <2>1. Integers(e, 0) /\ Integers(f, 0) /\ Integers(g, 0)
    BY DEF Integers
  <2>2. QED
    BY <2>1, ProductIs
<1>2. ASSUME NEW l \in 0..(n - 1), l \in S PROVE l + 1 \in S
  <2>1. /\ l \in Nat /\ l + 1 \in Nat /\ l + 1 > 0 /\ l + 1 \in 1..n /\ (l + 1) - 1 = l
        /\ Integers(e, l + 1) /\ Integers(f, l + 1) /\ Integers(g, l + 1)
    BY <1>0 DEF Integers
  <2>2. Product(e, l) = Product(f, l) * Product(g, l)
    BY <1>2, <2>1
  <2>3. f[l + 1] \in Int /\ g[l + 1] \in Int /\ e[l + 1] = f[l + 1] * g[l + 1]
    BY <1>0, <2>1
  <2>4. /\ Product(f, l) \in Int /\ Product(f, l + 1) = Product(f, l) * f[l + 1]
        /\ Product(g, l) \in Int /\ Product(g, l + 1) = Product(g, l) * g[l + 1]
        /\ Product(e, l + 1) = Product(e, l) * e[l + 1]
    BY <2>1, ProductIs
  <2>5. (Product(f, l) * Product(g, l)) * (f[l + 1] * g[l + 1])
          = (Product(f, l) * f[l + 1]) * (Product(g, l) * g[l + 1])
    BY <2>3, <2>4
  <2>6. QED
    BY <2>1, <2>2, <2>3, <2>4, <2>5
<1> HIDE DEF S
<1>3. n \in S
  <2>1. \A l \in 0..n : l \in S
    BY <1>1, <1>2, UpTo
  <2>2. QED
    BY <2>1
<1>4. QED
  BY <1>3 DEF S

LEMMA SignsAre ==
  ASSUME NEW n \in Nat, NEW f, Signs(f, n)
  PROVE  Product(f, n) \in {1, -1} /\ Integers(f, n)
<1> DEFINE S == {l \in Nat : l <= n => Product(f, l) \in {1, -1}}
<1>0. Integers(f, n)
  BY DEF Signs, Integers
<1>1. 0 \in S
  <2>1. Integers(f, 0)
    BY DEF Integers
  <2>2. QED
    BY <2>1, ProductIs
<1>2. ASSUME NEW l \in 0..(n - 1), l \in S PROVE l + 1 \in S
  <2>1. /\ l \in Nat /\ l + 1 \in Nat /\ l + 1 > 0 /\ l + 1 \in 1..n /\ (l + 1) - 1 = l
        /\ Integers(f, l + 1)
    BY <1>0 DEF Integers
  <2>2. Product(f, l) \in {1, -1} /\ f[l + 1] \in {1, -1}
    BY <1>2, <2>1 DEF Signs
  <2>3. Product(f, l + 1) = Product(f, l) * f[l + 1]
    BY <2>1, ProductIs
  <2>4. QED
    BY <2>1, <2>2, <2>3
<1> HIDE DEF S
<1>3. n \in S
  <2>1. \A l \in 0..n : l \in S
    BY <1>1, <1>2, UpTo
  <2>2. QED
    BY <2>1
<1>4. QED
  BY <1>0, <1>3 DEF S

(* The first d are -1.                                                     *)
LEMMA StepProduct ==
  ASSUME NEW n \in Nat, NEW d \in 0..n, NEW f, \A k \in 1..n : f[k] = IF k <= d THEN -1 ELSE 1
  PROVE  Product(f, n) = Sgn(d)
<1> DEFINE S == {l \in Nat : l <= n => Product(f, l) = Sgn(IF l <= d THEN l ELSE d)}
<1>0. Integers(f, n)
  BY DEF Integers
<1>1. 0 \in S
  <2>1. Integers(f, 0)
    BY DEF Integers
  <2>2. Sgn(0) = 1
    BY DEF Sgn
  <2>3. QED
    BY <2>1, <2>2, ProductIs
<1>2. ASSUME NEW l \in 0..(n - 1), l \in S PROVE l + 1 \in S
  <2>1. /\ l \in Nat /\ l + 1 \in Nat /\ l + 1 > 0 /\ l + 1 \in 1..n /\ (l + 1) - 1 = l
        /\ Integers(f, l + 1)
    BY <1>0 DEF Integers
  <2>2. Product(f, l) = Sgn(IF l <= d THEN l ELSE d)
    BY <1>2, <2>1
  <2>3. Product(f, l + 1) = Product(f, l) * f[l + 1]
    BY <2>1, ProductIs
  <2>4. Sgn(l + 1) = Sgn(l) * Sgn(1) /\ Sgn(1) = -1 /\ Sgn(l) \in {1, -1} /\ Sgn(d) \in {1, -1}
    <3>1. l \in Int /\ 1 \in Int /\ d \in Int
      OBVIOUS
    <3>2. Sgn(1) = -1
      BY DEF Sgn
    <3>3. QED
      BY <3>1, <3>2, SgnIs
  <2>5. CASE l + 1 <= d
    <3>1. f[l + 1] = -1 /\ Product(f, l) = Sgn(l)
      BY <2>1, <2>2, <2>5
    <3>2. QED
      BY <2>1, <2>3, <2>4, <2>5, <3>1
  <2>6. CASE ~(l + 1 <= d)
    <3>1. f[l + 1] = 1 /\ Product(f, l) = Sgn(d)
      <4>1. l = d \/ l > d
        BY <2>6
      <4>2. QED
        BY <2>1, <2>2, <2>6, <4>1
    <3>2. Product(f, l + 1) = Sgn(d)
      BY <2>3, <2>4, <3>1
    <3>3. QED
      BY <2>1, <2>6, <3>2
  <2>7. QED
    BY <2>5, <2>6
<1> HIDE DEF S
<1>3. n \in S
  <2>1. \A l \in 0..n : l \in S
    BY <1>1, <1>2, UpTo
  <2>2. QED
    BY <2>1
<1>4. n <= d => n = d
  OBVIOUS
<1>5. QED
  BY <1>3, <1>4 DEF S

------------------------------------------------------------------------------
(* The symbol of a modulo m = 2 * h + 1, by the lemma of Gauss: every      *)
(* number is a sign times one of 1..h.                                     *)

SignOf(z, h) == IF z % (2 * h + 1) <= h THEN 1 ELSE -1
LowOf(z, h) ==
  IF z % (2 * h + 1) <= h THEN z % (2 * h + 1) ELSE (2 * h + 1) - (z % (2 * h + 1))

LEMMA FoldIs ==
  ASSUME NEW h \in Nat, NEW m \in Nat, m = 2 * h + 1, NEW z \in Int, ~Multiple(m, z)
  PROVE  SignOf(z, h) \in {1, -1} /\ LowOf(z, h) \in 1..h /\ Same(z, SignOf(z, h) * LowOf(z, h), m)
<1> DEFINE r == z % m
<1>1. r \in 0..(m - 1) /\ Same(r, z, m) /\ m > 0
  BY SameRemainder
<1>2. r # 0
  BY <1>1, MultipleIs
<1>3. Same(z, r, m)
  <2>1. r \in Int
    BY <1>1
  <2>2. QED
    BY <1>1, <2>1, SameBack
<1>4. SignOf(z, h) = (IF r <= h THEN 1 ELSE -1) /\ LowOf(z, h) = IF r <= h THEN r ELSE m - r
  BY DEF SignOf, LowOf
<1> HIDE DEF r
<1>5. CASE r <= h
  BY <1>1, <1>2, <1>3, <1>4, <1>5
<1>6. CASE ~(r <= h)
  <2>1. SignOf(z, h) * LowOf(z, h) = r - m /\ LowOf(z, h) \in 1..h
    BY <1>1, <1>4, <1>6
  <2>2. PICK t \in Int : z - r = t * m
    BY <1>3 DEF Same, Multiple
  <2>3. z - (r - m) = (t + 1) * m /\ t + 1 \in Int
    BY <1>1, <2>2
  <2>4. Same(z, r - m, m)
    BY <2>3 DEF Same, Multiple
  <2>5. QED
    BY <1>4, <1>6, <2>1, <2>4
<1>7. QED
  BY <1>5, <1>6

(* ... in one way.                                                         *)
LEMMA FoldOnce ==
  ASSUME NEW h \in Nat, NEW m \in Nat, m = 2 * h + 1, NEW z \in Int,
         NEW s \in {1, -1}, NEW d \in 1..h, Same(z, s * d, m)
  PROVE  SignOf(z, h) = s /\ LowOf(z, h) = d
<1> DEFINE r == z % m
<1>1. m > 0 /\ s * d \in Int /\ d \in Nat
  OBVIOUS
<1>2. r = (s * d) % m
  BY <1>1, SameIs
<1>3. SignOf(z, h) = (IF r <= h THEN 1 ELSE -1) /\ LowOf(z, h) = IF r <= h THEN r ELSE m - r
  BY DEF SignOf, LowOf
<1> HIDE DEF r
<1>4. CASE s = 1
  <2>1. s * d = d /\ d < m
    BY <1>1, <1>4
  <2>2. r = d
    <3>1. d % m = d
      BY <1>1, <2>1
    <3>2. QED
      BY <1>2, <2>1, <3>1
  <2>3. QED
    BY <1>3, <1>4, <2>2
<1>5. CASE s = -1
  <2>1. s * d = (-1) * m + (m - d) /\ m - d \in 0..(m - 1)
    BY <1>1, <1>5
  <2>2. r = m - d
    <3>1. -1 \in Int /\ s * d \in Int /\ m - d \in 0..(m - 1)
      BY <1>1, <2>1
    <3> DEFINE z0 == s * d
               r0 == m - d
    <3>2. z0 \in Int /\ r0 \in 0..(m - 1) /\ z0 = (-1) * m + r0
      BY <2>1, <3>1
    <3> HIDE DEF z0, r0
    <3>3. z0 % m = r0
      BY <1>1, <3>1, <3>2, QuotientIs
    <3>4. QED
      BY <1>2, <3>3 DEF z0, r0
  <2>3. QED
    BY <1>1, <1>3, <1>5, <2>2
<1>6. QED
  BY <1>4, <1>5

SignsOf(a, h) == [k \in 1..h |-> SignOf(a * k, h)]
Folded(a, h) == [k \in 1..h |-> LowOf(a * k, h)]
Gauss(a, h) == Product(SignsOf(a, h), h)

LEMMA CoprimeMultiple ==
  ASSUME NEW h \in Nat, NEW m \in Nat, m = 2 * h + 1, NEW a \in Int, Coprime(a, m), NEW z \in Int,
         z \in 1..(2 * h) \/ -z \in 1..(2 * h)
  PROVE  ~Multiple(m, a * z)
<1>1. ASSUME Multiple(m, a * z) PROVE FALSE
  <2>1. Multiple(m, z)
    <3>1. m > 0
      OBVIOUS
    <3>2. QED
      BY <1>1, <3>1, Cancels
  <2>2. PICK t \in Int : z = t * m
    BY <2>1 DEF Multiple
  <2>3. t = 0 \/ t >= 1 \/ t <= -1
    OBVIOUS
  <2>4. t >= 1 => t * m >= m
    OBVIOUS
  <2>5. t <= -1 => t * m <= -m
    OBVIOUS
  <2>6. QED
    BY <2>2, <2>3, <2>4, <2>5
<1>2. QED
  BY <1>1

LEMMA SignsOfAre ==
  ASSUME NEW h \in Nat, NEW m \in Nat, m = 2 * h + 1, NEW a \in Int, Coprime(a, m)
  PROVE  /\ Signs(SignsOf(a, h), h) /\ Folded(a, h) \in [1..h -> 1..h]
         /\ \A k \in 1..h : Same(a * k, SignsOf(a, h)[k] * Folded(a, h)[k], m)
<1>1. ASSUME NEW k \in 1..h
      PROVE  SignOf(a * k, h) \in {1, -1} /\ LowOf(a * k, h) \in 1..h
             /\ Same(a * k, SignOf(a * k, h) * LowOf(a * k, h), m)
  <2>1. k \in Int /\ k \in 1..(2 * h) /\ a * k \in Int
    OBVIOUS
  <2>2. ~Multiple(m, a * k)
    BY <2>1, CoprimeMultiple
  <2>3. QED
    BY <2>1, <2>2, FoldIs
<1>2. QED
  BY <1>1 DEF Signs, SignsOf, Folded

LEMMA FoldedPermutes ==
  ASSUME NEW h \in Nat, NEW m \in Nat, m = 2 * h + 1, NEW a \in Int, Coprime(a, m)
  PROVE  Permutes(Folded(a, h), h)
<1> DEFINE f == Folded(a, h)
           s == SignsOf(a, h)
<1>1. /\ \A k \in 1..h : s[k] \in {1, -1}
      /\ f \in [1..h -> 1..h]
      /\ \A k \in 1..h : Same(a * k, s[k] * f[k], m)
  BY SignsOfAre DEF Signs
<1>2. \A k \in 1..h : f[k] = LowOf(a * k, h)
  BY DEF Folded
<1> HIDE DEF f, s
<1>3. ASSUME NEW i \in 1..h, NEW j \in 1..h, f[i] = f[j] PROVE i = j
  <2>1. PICK u \in Int : a * i - s[i] * f[i] = u * m
    BY <1>1 DEF Same, Multiple
  <2>2. PICK v \in Int : a * j - s[j] * f[j] = v * m
    BY <1>1 DEF Same, Multiple
  <2>3. f[i] \in Int /\ s[i] \in {1, -1} /\ s[j] \in {1, -1} /\ i \in Int /\ j \in Int
    <3>1. s[i] \in {1, -1} /\ s[j] \in {1, -1}
      BY <1>1
    <3>2. f[i] \in 1..h
      BY <1>1
    <3>3. f[i] \in Int /\ i \in Int /\ j \in Int
      BY <3>2
    <3>4. QED
      BY <3>1, <3>3
  <2>4. CASE s[i] = s[j]
    <3>1. a * (i - j) = (u - v) * m /\ u - v \in Int
      <4> DEFINE e == s[i] * f[i]
      <4>1. s[j] * f[j] = e /\ e \in Int /\ a * i = u * m + e /\ a * j = v * m + e
        <5>1. s[j] * f[j] = e /\ e \in Int
          BY <1>3, <2>3, <2>4
        <5>2. QED
          BY <2>1, <2>2, <2>3, <5>1
      <4> HIDE DEF e
      <4>2. QED
        BY <2>3, <4>1
    <3>2. Multiple(m, a * (i - j))
      BY <3>1 DEF Multiple
    <3>3. i - j \in Int
      BY <2>3
    <3>4. ~(i - j \in 1..(2 * h) \/ -(i - j) \in 1..(2 * h))
      BY <3>2, <3>3, CoprimeMultiple
    <3>5. QED
      BY <3>4
  <2>5. CASE s[i] # s[j]
    <3>1. s[i] = -s[j]
      BY <2>3, <2>5
    <3>2. a * (i + j) = (u + v) * m /\ u + v \in Int
      BY <1>3, <2>1, <2>2, <2>3, <3>1
    <3>3. Multiple(m, a * (i + j))
      BY <3>2 DEF Multiple
    <3>4. i + j \in Int /\ i + j \in 1..(2 * h)
      BY <2>3
    <3>5. QED
      BY <3>3, <3>4, CoprimeMultiple
  <2>6. QED
    BY <2>4, <2>5
<1>4. ASSUME NEW j \in 1..h PROVE \E i \in 1..h : f[i] = j
  <2>1. m > 1 /\ m > 0 /\ j \in Int /\ j \in 1..(2 * h)
    OBVIOUS
  <2>2. PICK b \in 0..(m - 1) : (a * b) % m = 1
    BY <2>1, InverseExists
  <2>3. b \in Int /\ b * j \in Int /\ a * b \in Int
    BY <2>1, <2>2
  <2>4. Same(a * b, 1, m)
    <3>1. 1 % m = 1 /\ 1 \in Int
      BY <2>1
    <3> DEFINE z == a * b
    <3>2. z \in Int /\ z % m = 1 % m
      BY <2>2, <2>3, <3>1
    <3> HIDE DEF z
    <3>3. Same(z, 1, m)
      BY <2>1, <3>1, <3>2, SameIs
    <3>4. QED
      BY <3>3 DEF z
  <2>5. Same((a * b) * j, 1 * j, m) /\ (a * b) * j = a * (b * j) /\ 1 * j = j
    BY <2>1, <2>3, <2>4, SameTimes, SameItself
  <2>6. ~Multiple(m, b * j)
    <3>1. ASSUME Multiple(m, b * j) PROVE FALSE
      <4>1. Multiple(m, a * (b * j))
        <5> DEFINE z == b * j
        <5>1. z \in Int /\ Multiple(m, z)
          BY <2>3, <3>1
        <5> HIDE DEF z
        <5>2. Multiple(m, a * z)
          BY <5>1, MultipleTimes
        <5>3. QED
          BY <5>2 DEF z
      <4>2. Multiple(m, a * (b * j) - (a * (b * j) - j)) /\ a * (b * j) \in Int
        <5>1. Multiple(m, a * (b * j) - j) /\ a * (b * j) \in Int /\ a * (b * j) - j \in Int
          BY <2>1, <2>3, <2>5 DEF Same
        <5>2. QED
          BY <4>1, <5>1, MultipleSum
      <4>3. a * (b * j) - (a * (b * j) - j) = 1 * j
        BY <2>1, <4>2
      <4>4. Multiple(m, 1 * j) /\ 1 \in Int
        BY <4>2, <4>3
      <4>5. Coprime(1, m)
        <5>1. \A d \in 2..AbsVal(m) : 1 % d = 1
          BY DEF AbsVal
        <5>2. QED
          BY <5>1 DEF Coprime, Divides
      <4>6. QED
        BY <2>1, <4>4, <4>5, CoprimeMultiple
    <3>2. QED
      BY <3>1
  <2> DEFINE e == SignOf(b * j, h)
             d == LowOf(b * j, h)
  <2>7. e \in {1, -1} /\ d \in 1..h /\ Same(b * j, e * d, m)
    BY <2>3, <2>6, FoldIs
  <2> HIDE DEF e, d
  <2>8. d \in Int /\ e \in Int /\ e * d \in Int /\ e * e = 1 /\ a * d \in Int
    BY <2>7
  <2>9. Same(a * (b * j), a * (e * d), m)
    BY <2>3, <2>7, <2>8, SameTimes, SameItself
  <2>10. Same(a * (e * d), j, m)
    <3>1. a * (b * j) \in Int /\ a * (e * d) \in Int
      BY <2>3, <2>8
    <3>2. Same(a * (e * d), a * (b * j), m)
      BY <2>9, <3>1, SameBack
    <3>3. QED
      BY <2>1, <2>5, <3>1, <3>2, SameChain
  <2>11. Same(e * (a * (e * d)), e * j, m)
    <3> DEFINE z == a * (e * d)
    <3>1. z \in Int /\ Same(z, j, m) /\ Same(e, e, m)
      BY <2>8, <2>10, SameItself
    <3> HIDE DEF z
    <3>2. Same(e * z, e * j, m)
      BY <2>1, <2>8, <3>1, SameTimes
    <3>3. QED
      BY <3>2 DEF z
  <2>12. e * (a * (e * d)) = a * d
    BY <2>7, <2>8
  <2>13. Same(a * d, e * j, m)
    BY <2>11, <2>12
  <2>14. LowOf(a * d, h) = j
    BY <2>7, <2>8, <2>13, FoldOnce
  <2>15. QED
    BY <1>2, <2>7, <2>14
<1>5. QED
  BY <1>1, <1>3, <1>4 DEF Permutes, f

(* The symbol is that of the residue, ...                                  *)
LEMMA GaussSame ==
  ASSUME NEW h \in Nat, NEW m \in Nat, m = 2 * h + 1, NEW a \in Int, NEW b \in Int, Same(a, b, m)
  PROVE  Gauss(a, h) = Gauss(b, h)
<1>1. ASSUME NEW k \in 1..h PROVE SignsOf(a, h)[k] = SignsOf(b, h)[k]
  <2>1. k \in Int /\ a * k \in Int /\ b * k \in Int /\ m > 0
    OBVIOUS
  <2>2. Same(a * k, b * k, m)
    <3>1. Same(k, k, m)
      BY <2>1, SameItself
    <3>2. QED
      BY <2>1, <3>1, SameTimes
  <2>3. (a * k) % m = (b * k) % m
    BY <2>1, <2>2, SameIs
  <2>4. QED
    BY <2>3 DEF SignsOf, SignOf
<1>2. QED
  BY <1>1, ProductSame DEF Gauss

LEMMA GaussIs ==
  ASSUME NEW h \in Nat, NEW m \in Nat, m = 2 * h + 1, NEW a \in Int, Coprime(a, m)
  PROVE  Gauss(a, h) \in {1, -1}
<1>1. Signs(SignsOf(a, h), h)
  BY SignsOfAre
<1>2. QED
  BY <1>1, SignsAre DEF Gauss

LEMMA CoprimeProduct ==
  ASSUME NEW m \in Nat, m > 0, NEW a \in Int, NEW b \in Int, Coprime(a, m), Coprime(b, m)
  PROVE  Coprime(a * b, m)
<1>1. SUFFICES ASSUME NEW d \in 2..AbsVal(m), Divides(d, a * b), Divides(d, m) PROVE FALSE
  BY DEF Coprime
<1>2. d \in Nat /\ d > 1 /\ d > 0 /\ AbsVal(m) = m
  BY <1>1 DEF AbsVal
<1>3. Multiple(d, a * b) /\ Multiple(d, m)
  BY <1>1, <1>2, MultipleIs DEF Divides
<1>4. ASSUME NEW z \in Int, Coprime(z, m) PROVE Coprime(z, d)
  <2>1. SUFFICES ASSUME NEW f \in 2..AbsVal(d), Divides(f, z), Divides(f, d) PROVE FALSE
    BY DEF Coprime
  <2>2. f \in Nat /\ f > 0 /\ f \in 2..d /\ f \in 2..m
    BY <1>1, <1>2, <2>1 DEF AbsVal
  <2>3. Multiple(f, d)
    BY <1>2, <2>1, <2>2, MultipleIs DEF Divides
  <2>4. PICK u \in Int, v \in Int : d = u * f /\ m = v * d
    BY <1>3, <2>3 DEF Multiple
  <2>5. m = (v * u) * f /\ v * u \in Int
    BY <2>2, <2>4
  <2>6. Divides(f, m)
    <3>1. Multiple(f, m)
      BY <2>5 DEF Multiple
    <3>2. QED
      BY <2>2, <3>1, MultipleIs DEF Divides
  <2>7. QED
    BY <1>2, <1>4, <2>1, <2>2, <2>6 DEF Coprime
<1>5. Coprime(a, d) /\ Coprime(b, d)
  BY <1>4
<1>6. Multiple(d, b)
  BY <1>2, <1>3, <1>5, Cancels
<1>7. Divides(d, b) /\ Divides(d, d)
  BY <1>2, <1>6, MultipleIs DEF Divides
<1>8. QED
  BY <1>2, <1>5, <1>7 DEF Coprime, AbsVal

(* ... that of a product is the product of the symbols, ...                *)
LEMMA GaussTimes ==
  ASSUME NEW h \in Nat, NEW m \in Nat, m = 2 * h + 1, NEW a \in Int, NEW b \in Int,
         Coprime(a, m), Coprime(b, m)
  PROVE  Gauss(a * b, h) = Gauss(a, h) * Gauss(b, h)
<1> DEFINE s == SignsOf(a, h)
           u == SignsOf(b, h)
           f == Folded(b, h)
           w == SignsOf(a * b, h)
<1>1. /\ \A k \in 1..h : s[k] \in {1, -1}
      /\ \A k \in 1..h : Same(a * k, s[k] * Folded(a, h)[k], m)
      /\ Folded(a, h) \in [1..h -> 1..h]
  BY SignsOfAre DEF Signs
<1>2. /\ \A k \in 1..h : u[k] \in {1, -1}
      /\ f \in [1..h -> 1..h]
      /\ \A k \in 1..h : Same(b * k, u[k] * f[k], m)
  BY SignsOfAre DEF Signs
<1>3. Permutes(f, h)
  BY FoldedPermutes
<1>4. \A k \in 1..h : w[k] = SignOf((a * b) * k, h)
  BY DEF SignsOf
<1> HIDE DEF s, u, f, w
<1>5. ASSUME NEW k \in 1..h PROVE w[k] = s[f[k]] * u[k]
  <2> DEFINE l == f[k]
             d == Folded(a, h)[l]
  <2>1. l \in 1..h
    BY <1>2
  <2>2. d \in 1..h /\ Same(a * l, s[l] * d, m) /\ s[l] \in {1, -1} /\ u[k] \in {1, -1}
        /\ Same(b * k, u[k] * l, m)
    BY <1>1, <1>2, <2>1
  <2> HIDE DEF l, d
  <2>3. k \in Int /\ l \in Int /\ d \in Int /\ b * k \in Int /\ u[k] * l \in Int /\ a * l \in Int
        /\ s[l] * d \in Int /\ u[k] \in Int
    BY <2>1, <2>2
  <2>4. Same(a * (b * k), a * (u[k] * l), m)
    <3> DEFINE y == b * k
               z == u[k] * l
    <3>1. y \in Int /\ z \in Int /\ Same(y, z, m) /\ Same(a, a, m)
      BY <2>2, <2>3, SameItself
    <3> HIDE DEF y, z
    <3>2. Same(a * y, a * z, m)
      BY <3>1, SameTimes
    <3>3. QED
      BY <3>2 DEF y, z
  <2>5. Same(u[k] * (a * l), u[k] * (s[l] * d), m)
    <3> DEFINE y == a * l
               z == s[l] * d
               e == u[k]
    <3>1. y \in Int /\ z \in Int /\ e \in Int /\ Same(y, z, m) /\ Same(e, e, m)
      BY <2>2, <2>3, SameItself
    <3> HIDE DEF y, z, e
    <3>2. Same(e * y, e * z, m)
      BY <3>1, SameTimes
    <3>3. QED
      BY <3>2 DEF y, z, e
  <2>6. a * (b * k) = (a * b) * k /\ a * (u[k] * l) = u[k] * (a * l)
        /\ u[k] * (s[l] * d) = (s[l] * u[k]) * d /\ (s[l] * u[k]) * d \in Int
        /\ (a * b) * k \in Int /\ u[k] * (a * l) \in Int
    BY <2>2, <2>3
  <2>7. Same((a * b) * k, (s[l] * u[k]) * d, m)
    BY <2>4, <2>5, <2>6, SameChain
  <2>8. s[l] * u[k] \in {1, -1}
    BY <2>2
  <2>9. SignOf((a * b) * k, h) = s[l] * u[k]
    <3> DEFINE e == s[l] * u[k]
               z == (a * b) * k
    <3>1. e \in {1, -1} /\ z \in Int /\ Same(z, e * d, m)
      BY <2>6, <2>7, <2>8
    <3> HIDE DEF e, z
    <3>2. SignOf(z, h) = e
      BY <2>2, <3>1, FoldOnce
    <3>3. QED
      BY <3>2 DEF e, z
  <2>10. QED
    BY <1>4, <2>9 DEF l
<1> DEFINE v == Along(s, f)
<1>6. \A k \in 1..h : v[k] = s[f[k]]
  BY <1>2 DEF Along
<1>7. Integers(s, h) /\ Integers(u, h)
  <2>1. \A k \in 1..h : s[k] \in Int /\ u[k] \in Int
    <3>1. \A k \in 1..h : s[k] \in {1, -1} /\ u[k] \in {1, -1}
      BY <1>1, <1>2
    <3>2. QED
      BY <3>1
  <2>2. QED
    BY <2>1 DEF Integers
<1>8. Product(v, h) = Product(s, h)
  BY <1>3, <1>7, ProductPermuted
<1>9. Integers(v, h)
  <2>1. \A k \in 1..h : f[k] \in 1..h
    BY <1>2
  <2>2. \A k \in 1..h : v[k] \in {1, -1}
    BY <1>1, <1>6, <2>1
  <2>3. QED
    BY <2>2 DEF Integers
<1> HIDE DEF v
<1>10. \A k \in 1..h : w[k] = v[k] * u[k]
  BY <1>5, <1>6
<1>11. Product(w, h) = Product(v, h) * Product(u, h)
  BY <1>7, <1>9, <1>10, ProductTimes
<1>12. QED
  BY <1>8, <1>11 DEF Gauss, s, u, w

(* ... and for a prime it is a power of the number (the lemma of Gauss).   *)
LEMMA GaussPower ==
  ASSUME NEW h \in Nat, NEW m \in Nat, m = 2 * h + 1, IsPrimeNumber(m), NEW a \in Int, ~Multiple(m, a)
  PROVE  Same(Power(a, h), Gauss(a, h), m)
<1> DEFINE s == SignsOf(a, h)
           f == Folded(a, h)
           id == Identity
           aid == [k \in 1..h |-> a * id[k]]
           both == [k \in 1..h |-> s[k] * f[k]]
           fac == Product(id, h)
<1>1. Coprime(a, m)
  BY PrimeCoprime
<1>2. /\ \A k \in 1..h : s[k] \in {1, -1}
      /\ f \in [1..h -> 1..h]
      /\ \A k \in 1..h : Same(a * k, s[k] * f[k], m)
  BY <1>1, SignsOfAre DEF Signs
<1>3. Permutes(f, h)
  BY <1>1, FoldedPermutes
<1> HIDE DEF s, f
<1>4. \A k \in 1..h : id[k] = k
  BY DEF Identity
<1>5. Integers(id, h) /\ Integers(s, h) /\ Integers(f, h)
  <2>1. \A k \in 1..h : id[k] \in Int /\ s[k] \in Int /\ f[k] \in Int
    <3>1. \A k \in 1..h : s[k] \in {1, -1} /\ f[k] \in 1..h
      BY <1>2
    <3>2. QED
      BY <1>4, <3>1
  <2>2. QED
    BY <2>1 DEF Integers
<1>6. Product(aid, h) = Power(a, h) * fac
  BY <1>5, ProductScaled
<1>7. Product(f, h) = fac
  <2> DEFINE along == Along(id, f)
  <2>1. \A k \in 1..h : along[k] = f[k]
    <3>1. \A k \in 1..h : along[k] = id[f[k]] /\ f[k] \in 1..h
      BY <1>2 DEF Along
    <3>2. QED
      BY <1>4, <3>1
  <2>2. Product(along, h) = fac
    BY <1>3, <1>5, ProductPermuted
  <2> HIDE DEF along
  <2>3. Product(along, h) = Product(f, h)
    BY <2>1, ProductSame
  <2>4. QED
    BY <2>2, <2>3
<1>8. Product(both, h) = Gauss(a, h) * fac
  <2>1. \A k \in 1..h : both[k] = s[k] * f[k]
    OBVIOUS
  <2> HIDE DEF both
  <2>2. Product(both, h) = Product(s, h) * Product(f, h)
    BY <1>5, <2>1, ProductTimes
  <2>3. QED
    BY <1>7, <2>2 DEF Gauss, s
<1>9. Same(Product(aid, h), Product(both, h), m)
  <2>1. \A k \in 1..h : /\ aid[k] = a * k /\ both[k] = s[k] * f[k]
                        /\ aid[k] \in Int /\ both[k] \in Int
    <3>1. \A k \in 1..h : s[k] \in {1, -1} /\ f[k] \in Int
      <4>1. \A k \in 1..h : s[k] \in {1, -1} /\ f[k] \in 1..h
        BY <1>2
      <4>2. QED
        BY <4>1
    <3>2. \A k \in 1..h : s[k] * f[k] \in Int
      BY <3>1
    <3>3. \A k \in 1..h : aid[k] = a * k /\ both[k] = s[k] * f[k] /\ a * k \in Int
      BY <1>4
    <3>4. QED
      BY <3>2, <3>3
  <2> HIDE DEF aid, both
  <2>2. Integers(aid, h) /\ Integers(both, h) /\ \A k \in 1..h : Same(aid[k], both[k], m)
    BY <1>2, <2>1 DEF Integers
  <2>3. QED
    BY <2>2, ProductCongruent
<1> HIDE DEF aid, both
<1>10. fac \in Int /\ Power(a, h) \in Int /\ Gauss(a, h) \in Int
  <2>1. fac \in Int
    BY <1>5, ProductIs
  <2>2. Power(a, h) \in Int
    BY PowerIs
  <2>3. Gauss(a, h) \in {1, -1}
    BY <1>1, GaussIs
  <2>4. QED
    BY <2>1, <2>2, <2>3
<1>11. ~Multiple(m, fac)
  <2>1. ASSUME NEW k \in 1..h PROVE ~Multiple(m, id[k])
    <3>1. k \in Int /\ k \in 1..(2 * h) /\ 1 \in Int /\ 1 * k = k
      OBVIOUS
    <3>2. Coprime(1, m)
      <4>1. \A d \in 2..AbsVal(m) : 1 % d = 1
        BY DEF AbsVal
      <4>2. QED
        BY <4>1 DEF Coprime, Divides
    <3>3. ~Multiple(m, 1 * k)
      BY <3>1, <3>2, CoprimeMultiple
    <3>4. QED
      BY <1>4, <3>1, <3>3
  <2>2. QED
    BY <1>5, <2>1, ProductNoMultiple
<1> HIDE DEF fac, id
<1>12. Multiple(m, (Power(a, h) - Gauss(a, h)) * fac)
  <2>1. Multiple(m, Power(a, h) * fac - Gauss(a, h) * fac)
    BY <1>6, <1>8, <1>9 DEF Same
  <2>2. Power(a, h) * fac - Gauss(a, h) * fac = (Power(a, h) - Gauss(a, h)) * fac
    BY <1>10
  <2>3. QED
    BY <2>1, <2>2
<1>13. Power(a, h) - Gauss(a, h) \in Int
  BY <1>10
<1>14. Multiple(m, Power(a, h) - Gauss(a, h))
  BY <1>10, <1>11, <1>12, <1>13, PrimeDivides
<1>15. QED
  BY <1>14 DEF Same

------------------------------------------------------------------------------
(* The symbols of 2 and of odd numbers.                                    *)

LEMMA CoprimeTwo ==
  ASSUME NEW h \in Nat, NEW m \in Nat, m = 2 * h + 1
  PROVE  Coprime(2, m)
<1>1. SUFFICES ASSUME NEW d \in 2..AbsVal(m), 2 % d = 0, m % d = 0 PROVE FALSE
  BY DEF Coprime, Divides
<1>2. d \in Nat /\ d >= 2
  BY DEF AbsVal
<1>3. d = 2
  <2>1. d > 2 => 2 % d = 2
    BY <1>2
  <2>2. QED
    BY <1>1, <1>2, <2>1
<1>4. m % 2 = 1
  OBVIOUS
<1>5. QED
  BY <1>1, <1>3, <1>4

LEMMA GaussTwo ==
  ASSUME NEW h \in Nat
  PROVE  Gauss(2, h) = Sgn(h - (h \div 2))
<1> DEFINE l == h \div 2
           f == SignsOf(2, h)
           g == [k \in 1..h |-> IF k <= l THEN -1 ELSE 1]
           e == [k \in 1..h |-> IF k <= h THEN -1 ELSE 1]
<1>1. l \in Nat /\ l \in 0..h /\ h \in 0..h /\ \A k \in 1..h : 2 * k <= h <=> k <= l
  <2>1. h = 2 * (h \div 2) + (h % 2) /\ h % 2 \in 0..1 /\ h \div 2 \in Nat
    OBVIOUS
  <2>2. QED
    BY <2>1
<1>2. \A k \in 1..h : g[k] = (IF k <= l THEN -1 ELSE 1) /\ e[k] = -1
  OBVIOUS
<1>3. Product(g, h) = Sgn(l) /\ Product(e, h) = Sgn(h)
  <2>1. \A k \in 1..h : e[k] = IF k <= h THEN -1 ELSE 1
    OBVIOUS
  <2> HIDE DEF l, g, e
  <2>2. Product(g, h) = Sgn(l)
    BY <1>1, <1>2, StepProduct
  <2>3. Product(e, h) = Sgn(h)
    BY <1>1, <2>1, StepProduct
  <2>4. QED
    BY <2>2, <2>3
<1>4. ASSUME NEW k \in 1..h PROVE f[k] = e[k] * g[k]
  <2>1. f[k] = IF (2 * k) % (2 * h + 1) <= h THEN 1 ELSE -1
    BY DEF SignsOf, SignOf
  <2>2. (2 * k) % (2 * h + 1) = 2 * k
    OBVIOUS
  <2>3. f[k] = IF k <= l THEN 1 ELSE -1
    BY <1>1, <2>1, <2>2
  <2> HIDE DEF f, e, g, l
  <2>4. QED
    BY <1>2, <2>3
<1> HIDE DEF f, g, e, l
<1>5. Integers(g, h) /\ Integers(e, h)
  <2>1. \A k \in 1..h : g[k] \in Int /\ e[k] \in Int
    BY <1>2
  <2>2. QED
    BY <2>1 DEF Integers
<1>6. Product(f, h) = Product(e, h) * Product(g, h)
  BY <1>4, <1>5, ProductTimes
<1>7. Sgn(h - l) = Sgn(h) * Sgn(l)
  BY <1>1, SgnIs
<1>8. QED
  BY <1>3, <1>6, <1>7 DEF Gauss, f, l

Floors(a, m) == [k \in Nat |-> Sgn((a * k) \div m)]

(* For an odd number the signs are those of quotients (Eisenstein).        *)
LEMMA GaussOdd ==
  ASSUME NEW h \in Nat, NEW m \in Nat, m = 2 * h + 1, NEW w \in Nat, NEW a \in Nat, a = 2 * w + 1,
         Coprime(a, m)
  PROVE  Gauss(a, h) = Product(Floors(a, m), h)
<1> DEFINE s == SignsOf(a, h)
           f == Folded(2, h)
           F == Floors(a, m)
           u == Along(F, f)
<1>1. f \in [1..h -> 1..h] /\ Permutes(f, h)
  <2>1. Coprime(2, m)
    BY CoprimeTwo
  <2>2. QED
    BY <2>1, SignsOfAre, FoldedPermutes
<1>2. \A k \in Nat : F[k] = Sgn((a * k) \div m)
  BY DEF Floors
<1>3. \A k \in 1..h : u[k] = F[f[k]]
  BY <1>1 DEF Along
<1>4. ASSUME NEW k \in 1..h PROVE f[k] = IF 2 * k <= h THEN 2 * k ELSE m - 2 * k
  <2>1. f[k] = LowOf(2 * k, h)
    BY DEF Folded
  <2>2. (2 * k) % (2 * h + 1) = 2 * k
    OBVIOUS
  <2>3. QED
    BY <2>1, <2>2 DEF LowOf
<1>5. \A k \in 1..h : s[k] = SignOf(a * k, h)
  BY DEF SignsOf
<1> HIDE DEF s, f, F, u
<1>6. ASSUME NEW k \in 1..h PROVE s[k] = u[k]
  <2> DEFINE z == a * k
             v == z \div m
             r == z % m
             y == 2 * z
             v2 == y \div m
             r2 == y % m
  <2>1. z \in Int /\ y \in Int /\ m > 0
    OBVIOUS
  <2>2. v \in Int /\ r \in 0..(m - 1) /\ z = v * m + r
    BY <2>1, RemainderIs
  <2>3. v2 \in Int /\ r2 \in 0..(m - 1) /\ y = v2 * m + r2
    BY <2>1, RemainderIs
  <2>4. s[k] = IF r <= h THEN 1 ELSE -1
    BY <1>5 DEF SignOf
  <2>5. y = a * (2 * k)
    OBVIOUS
  <2>6. r2 # 0
    <3>1. ASSUME r2 = 0 PROVE FALSE
      <4>1. Multiple(m, a * (2 * k))
        BY <2>1, <2>5, <3>1, MultipleIs
      <4>2. 2 * k \in Int /\ 2 * k \in 1..(2 * h) /\ a \in Int
        OBVIOUS
      <4>3. QED
        BY <4>1, <4>2, CoprimeMultiple
    <3>2. QED
      BY <3>1
  <2>7. y = 2 * z
    OBVIOUS
  <2> HIDE DEF z, v, r, y, v2, r2
  <2>8. s[k] = Sgn(v2)
    <3>1. CASE r <= h
      <4>1. y = (2 * v) * m + 2 * r /\ 2 * r \in 0..(m - 1) /\ 2 * v \in Int
        BY <2>2, <2>7, <3>1
      <4> DEFINE v0 == 2 * v
                 r0 == 2 * r
      <4>2. y = v0 * m + r0 /\ r0 \in 0..(m - 1) /\ v0 \in Int
        BY <4>1
      <4> HIDE DEF v0, r0
      <4>3. y \div m = v0
        BY <2>1, <4>2, QuotientIs
      <4>4. Sgn(2 * v) = 1
        BY <2>2, SgnOdd
      <4>5. QED
        BY <2>4, <3>1, <4>3, <4>4 DEF v2, v0
    <3>2. CASE ~(r <= h)
      <4>1. y = (2 * v + 1) * m + (2 * r - m) /\ 2 * r - m \in 0..(m - 1) /\ 2 * v + 1 \in Int
        BY <2>2, <2>7, <3>2
      <4> DEFINE v0 == 2 * v + 1
                 r0 == 2 * r - m
      <4>2. y = v0 * m + r0 /\ r0 \in 0..(m - 1) /\ v0 \in Int
        BY <4>1
      <4> HIDE DEF v0, r0
      <4>3. y \div m = v0
        BY <2>1, <4>2, QuotientIs
      <4>4. Sgn(2 * v + 1) = -1
        BY <2>2, SgnOdd
      <4>5. QED
        BY <2>4, <3>2, <4>3, <4>4 DEF v2, v0
    <3>3. QED
      BY <3>1, <3>2
  <2>9. u[k] = Sgn(v2)
    <3>1. u[k] = F[f[k]]
      BY <1>3
    <3>2. CASE 2 * k <= h
      <4>1. f[k] = 2 * k /\ 2 * k \in Nat
        BY <1>4, <3>2
      <4>2. QED
        BY <1>2, <2>5, <3>1, <4>1 DEF v2
    <3>3. CASE ~(2 * k <= h)
      <4>1. f[k] = m - 2 * k /\ m - 2 * k \in Nat
        BY <1>4, <3>3
      <4> DEFINE v0 == 2 * w - v2
                 r0 == m - r2
                 y0 == a * (m - 2 * k)
      <4>2. y0 = a * m - y /\ y0 \in Int
        BY <2>5
      <4>3. r0 \in 0..(m - 1) /\ v0 \in Int
        BY <2>3, <2>6
      <4>4. y0 = v0 * m + r0
        <5>1. a * m = 2 * (w * m) + m /\ (2 * w - v2) * m = 2 * (w * m) - v2 * m
          BY <2>3
        <5>2. v2 * m \in Int /\ w * m \in Int
          BY <2>3
        <5>3. QED
          BY <2>3, <4>2, <5>1, <5>2
      <4> HIDE DEF v0, r0, y0
      <4>5. y0 \div m = v0
        BY <2>1, <4>2, <4>3, <4>4, QuotientIs
      <4>6. Sgn(2 * w - v2) = Sgn(2 * w) * Sgn(v2) /\ Sgn(v2) \in {1, -1} /\ Sgn(2 * w) = 1
        <5>1. 2 * w \in Int /\ w \in Int
          OBVIOUS
        <5>2. Sgn(2 * w - v2) = Sgn(2 * w) * Sgn(v2)
          BY <2>3, <5>1, SgnIs
        <5>3. Sgn(v2) \in {1, -1}
          BY <2>3, SgnIs
        <5>4. Sgn(2 * w) = 1
          BY <5>1, SgnOdd
        <5>5. QED
          BY <5>2, <5>3, <5>4
      <4>7. F[f[k]] = Sgn(v0)
        BY <1>2, <4>1, <4>5 DEF y0
      <4>8. QED
        BY <3>1, <4>6, <4>7 DEF v0
    <3>4. QED
      BY <3>2, <3>3
  <2>10. QED
    BY <2>8, <2>9
<1>7. Integers(F, h)
  <2>1. ASSUME NEW k \in 1..h PROVE F[k] \in Int
    <3> DEFINE z == a * k
    <3>1. z \in Int /\ m > 0 /\ k \in Nat
      OBVIOUS
    <3> HIDE DEF z
    <3>2. z \div m \in Int
      BY <3>1, RemainderIs
    <3>3. Sgn(z \div m) \in {1, -1}
      BY <3>2, SgnIs
    <3>4. QED
      BY <1>2, <3>1, <3>3 DEF z
  <2>2. QED
    BY <2>1 DEF Integers
<1>8. Product(s, h) = Product(u, h)
  BY <1>6, ProductSame
<1>9. Product(u, h) = Product(F, h)
  BY <1>1, <1>7, ProductPermuted DEF u
<1>10. QED
  BY <1>8, <1>9 DEF Gauss, s, F

------------------------------------------------------------------------------
(* A product of products, by rows and by columns.                          *)

Rows(F, n, l) == [j \in 1..l |-> Product(F[j], n)]
Column(F, i) == [j \in Nat |-> F[j][i]]
Columns(F, n, l) == [i \in 1..n |-> Product(Column(F, i), l)]

LEMMA RowsAndColumns ==
  ASSUME NEW n \in Nat, NEW l \in Nat, NEW F, \A j \in 1..l, i \in 1..n : F[j][i] \in Int
  PROVE  Product(Rows(F, n, l), l) = Product(Columns(F, n, l), n)
<1> DEFINE R == Rows(F, n, l)
           C(b) == Columns(F, n, b)
           S == {b \in Nat : b <= l => Product(R, b) = Product(C(b), n)}
<1>1. \A j \in 1..l : R[j] = Product(F[j], n) /\ R[j] \in Int
  <2>1. ASSUME NEW j \in 1..l PROVE Product(F[j], n) \in Int
    <3>1. Integers(F[j], n)
      BY DEF Integers
    <3>2. QED
      BY <3>1, ProductIs
  <2>2. QED
    BY <2>1 DEF Rows
<1>2. ASSUME NEW b \in 0..l, NEW i \in 1..n
      PROVE  C(b)[i] = Product(Column(F, i), b) /\ C(b)[i] \in Int /\ Integers(Column(F, i), b)
  <2>1. \A j \in 1..b : Column(F, i)[j] \in Int
    BY DEF Column
  <2>2. Integers(Column(F, i), b) /\ b \in Nat
    BY <2>1 DEF Integers
  <2>3. Product(Column(F, i), b) \in Int
    BY <2>2, ProductIs
  <2>4. QED
    BY <2>2, <2>3 DEF Columns
<1> HIDE DEF R, C
<1>3. 0 \in S
  <2>1. Integers(R, 0)
    BY DEF Integers
  <2>2. Product(R, 0) = 1
    BY <2>1, ProductIs
  <2> DEFINE e == [i \in 1..n |-> IF i <= 0 THEN -1 ELSE 1]
  <2>3. \A i \in 1..n : e[i] = IF i <= 0 THEN -1 ELSE 1
    OBVIOUS
  <2> HIDE DEF e
  <2>4. Product(e, n) = Sgn(0)
    BY <2>3, 0 \in 0..n, StepProduct
  <2>5. \A i \in 1..n : C(0)[i] = e[i]
    <3>1. ASSUME NEW i \in 1..n PROVE C(0)[i] = 1
      <4>1. 0 \in 0..l /\ 0 \in Nat
        OBVIOUS
      <4>2. C(0)[i] = Product(Column(F, i), 0) /\ Integers(Column(F, i), 0)
        BY <1>2, <4>1
      <4>3. Product(Column(F, i), 0) = 1
        BY <4>1, <4>2, ProductIs
      <4>4. QED
        BY <4>2, <4>3
    <3>2. QED
      BY <2>3, <3>1
  <2>6. Product(C(0), n) = Product(e, n)
    BY <2>5, ProductSame
  <2>7. Sgn(0) = 1
    BY DEF Sgn
  <2>8. QED
    BY <2>2, <2>4, <2>6, <2>7
<1>4. ASSUME NEW b \in 0..(l - 1), b \in S PROVE b + 1 \in S
  <2>1. /\ b \in Nat /\ b + 1 \in Nat /\ b + 1 > 0 /\ b + 1 \in 1..l /\ (b + 1) - 1 = b
        /\ b \in 0..l /\ b + 1 \in 0..l
    OBVIOUS
  <2>2. Product(R, b) = Product(C(b), n)
    BY <1>4, <2>1
  <2>3. Product(R, b + 1) = Product(R, b) * R[b + 1]
    <3>1. Integers(R, b + 1)
      BY <1>1, <2>1 DEF Integers
    <3>2. QED
      BY <2>1, <3>1, ProductIs
  <2> DEFINE row == F[b + 1]
  <2>4. \A i \in 1..n : row[i] \in Int
    BY <2>1
  <2>5. ASSUME NEW i \in 1..n PROVE C(b + 1)[i] = C(b)[i] * row[i]
    <3>1. C(b + 1)[i] = Product(Column(F, i), b + 1) /\ Integers(Column(F, i), b + 1)
      BY <1>2, <2>1
    <3>2. C(b)[i] = Product(Column(F, i), b)
      BY <1>2, <2>1
    <3>3. Product(Column(F, i), b + 1) = Product(Column(F, i), b) * Column(F, i)[b + 1]
      BY <2>1, <3>1, ProductIs
    <3>4. Column(F, i)[b + 1] = row[i]
      BY <2>1 DEF Column
    <3>5. QED
      BY <3>1, <3>2, <3>3, <3>4
  <2> HIDE DEF row
  <2>6. Integers(C(b), n) /\ Integers(row, n)
    <3>1. \A i \in 1..n : C(b)[i] \in Int
      BY <1>2, <2>1
    <3>2. QED
      BY <2>4, <3>1 DEF Integers
  <2>7. Product(C(b + 1), n) = Product(C(b), n) * Product(row, n)
    BY <2>5, <2>6, ProductTimes
  <2>8. R[b + 1] = Product(row, n)
    BY <1>1, <2>1 DEF row
  <2>9. QED
    BY <2>1, <2>2, <2>3, <2>7, <2>8
<1> HIDE DEF S
<1>5. l \in S
  <2>1. \A b \in 0..l : b \in S
    BY <1>3, <1>4, UpTo
  <2>2. QED
    BY <2>1
<1>6. QED
  BY <1>5 DEF S, R, C

(* h factors that are all the sign of w.                                   *)
LEMMA SgnProduct ==
  ASSUME NEW h \in Nat, NEW w \in Int, NEW f, \A k \in 1..h : f[k] = Sgn(w)
  PROVE  Product(f, h) = Sgn(h * w)
<1>1. CASE w % 2 = 0
  <2>1. \A k \in 1..h : f[k] = IF k <= 0 THEN -1 ELSE 1
    BY <1>1 DEF Sgn
  <2>2. Product(f, h) = Sgn(0)
    BY <2>1, 0 \in 0..h, StepProduct
  <2>3. PICK v \in Int : w = 2 * v
    <3>1. w = 2 * (w \div 2) /\ w \div 2 \in Int
      BY <1>1, SMT
    <3>2. QED
      BY <3>1
  <2>4. h * w = 2 * (h * v) /\ h * v \in Int
    BY <2>3
  <2>5. Sgn(2 * (h * v)) = 1
    BY <2>4, SgnOdd
  <2>6. Sgn(0) = 1
    BY DEF Sgn
  <2>7. QED
    BY <2>2, <2>4, <2>5, <2>6
<1>2. CASE w % 2 # 0
  <2>1. \A k \in 1..h : f[k] = IF k <= h THEN -1 ELSE 1
    BY <1>2 DEF Sgn
  <2>2. Product(f, h) = Sgn(h)
    BY <2>1, h \in 0..h, StepProduct
  <2>3. PICK v \in Int : w = 2 * v + 1
    <3>1. w = 2 * (w \div 2) + 1 /\ w \div 2 \in Int
      BY <1>2, SMT
    <3>2. QED
      BY <3>1
  <2>4. Sgn((2 * v + 1) * h) = Sgn(h)
    BY <2>3, SgnOdd
  <2>5. (2 * v + 1) * h = h * w
    BY <2>3
  <2>6. QED
    BY <2>2, <2>4, <2>5
<1>3. QED
  BY <1>1, <1>2

(* The quotient of a * k by m, counted.                                    *)
Counts(f, a, k, m, w) == \A i \in 1..w : f[i] = IF i * m <= a * k THEN -1 ELSE 1

LEMMA FloorCounts ==
  ASSUME NEW h \in Nat, NEW m \in Nat, m = 2 * h + 1, NEW w \in Nat, NEW a \in Nat, a = 2 * w + 1,
         NEW k \in 1..h, NEW f, Counts(f, a, k, m, w)
  PROVE  Product(f, w) = Sgn((a * k) \div m)
<1> DEFINE d == (a * k) \div m
           r == (a * k) % m
<1>1. a * k \in Nat /\ m > 0
  OBVIOUS
<1>2. d \in Int /\ r \in 0..(m - 1) /\ a * k = d * m + r
  BY <1>1, RemainderIs
<1> HIDE DEF d, r
<1>3. d >= 0
  <2>1. ASSUME d <= -1 PROVE FALSE
    <3>1. d * m <= -m
      BY <1>1, <1>2, <2>1
    <3>2. QED
      BY <1>1, <1>2, <3>1
  <2>2. QED
    BY <1>2, <2>1
<1>4. d <= w
  <2>1. ASSUME d >= w + 1 PROVE FALSE
    <3>1. d * m >= (w + 1) * m
      BY <1>1, <1>2, <2>1
    <3>2. a * k <= a * h
      OBVIOUS
    <3>3. a * h = 2 * (w * h) + h /\ (w + 1) * m = 2 * (w * h) + w + 2 * h + 1 /\ w * h \in Nat
      OBVIOUS
    <3>4. d * m \in Int /\ (w + 1) * m \in Int /\ a * h \in Int
      BY <1>2
    <3>5. QED
      BY <1>1, <1>2, <3>1, <3>2, <3>3, <3>4
  <2>2. QED
    BY <1>2, <2>1
<1>5. \A i \in 1..w : i * m <= a * k <=> i <= d
  <2>1. ASSUME NEW i \in 1..w, i <= d PROVE i * m <= a * k
    <3>1. i * m <= d * m
      BY <1>1, <1>2, <2>1
    <3>2. i * m \in Int /\ d * m \in Int
      BY <1>2
    <3>3. QED
      BY <1>1, <1>2, <3>1, <3>2
  <2>2. ASSUME NEW i \in 1..w, ~(i <= d) PROVE ~(i * m <= a * k)
    <3>1. i >= d + 1
      BY <1>2, <2>2
    <3>2. i * m >= (d + 1) * m
      BY <1>1, <1>2, <3>1
    <3>3. (d + 1) * m = d * m + m /\ d * m \in Int /\ i * m \in Int
      BY <1>2
    <3>4. QED
      BY <1>1, <1>2, <3>2, <3>3
  <2>3. QED
    BY <2>1, <2>2
<1>6. d \in 0..w /\ \A i \in 1..w : f[i] = IF i <= d THEN -1 ELSE 1
  BY <1>2, <1>3, <1>4, <1>5 DEF Counts
<1>7. Product(f, w) = Sgn(d)
  BY <1>6, StepProduct
<1>8. QED
  BY <1>7 DEF d

(* Quadratic reciprocity: of i * m and a * j one is less, and which of the *)
(* two is counted by one symbol or by the other.                           *)
LEMMA Reciprocity ==
  ASSUME NEW h \in Nat, NEW m \in Nat, m = 2 * h + 1, NEW w \in Nat, NEW a \in Nat, a = 2 * w + 1,
         Coprime(a, m), Coprime(m, a)
  PROVE  Gauss(a, h) * Gauss(m, w) = Sgn(h * w)
<1> DEFINE F == [j \in Nat |-> [i \in Nat |-> IF i * m <= a * j THEN -1 ELSE 1]]
           E == [i \in Nat |-> [j \in Nat |-> IF j * a <= m * i THEN -1 ELSE 1]]
           A == Floors(a, m)
           B == Floors(m, a)
           R == Rows(F, w, h)
           C == Columns(F, w, h)
           U == Rows(E, h, w)
           both == [i \in 1..w |-> C[i] * U[i]]
<1>1. Gauss(a, h) = Product(A, h) /\ Gauss(m, w) = Product(B, w)
  <2>1. Gauss(a, h) = Product(A, h)
    BY GaussOdd
  <2>2. Gauss(m, w) = Product(B, w)
    BY GaussOdd
  <2>3. QED
    BY <2>1, <2>2
<1>2. /\ \A j \in Nat, i \in Nat : F[j][i] = IF i * m <= a * j THEN -1 ELSE 1
      /\ \A j \in Nat, i \in Nat : E[i][j] = IF j * a <= m * i THEN -1 ELSE 1
      /\ \A j \in 1..h : R[j] = Product(F[j], w)
      /\ \A i \in 1..w : C[i] = Product(Column(F, i), h)
      /\ \A i \in 1..w : U[i] = Product(E[i], h)
      /\ \A k \in Nat : A[k] = Sgn((a * k) \div m) /\ B[k] = Sgn((m * k) \div a)
  <2>1. /\ \A j \in Nat, i \in Nat : F[j][i] = IF i * m <= a * j THEN -1 ELSE 1
        /\ \A j \in Nat, i \in Nat : E[i][j] = IF j * a <= m * i THEN -1 ELSE 1
    OBVIOUS
  <2> HIDE DEF E, F
  <2>2. /\ \A j \in 1..h : R[j] = Product(F[j], w)
        /\ \A i \in 1..w : C[i] = Product(Column(F, i), h)
        /\ \A i \in 1..w : U[i] = Product(E[i], h)
    BY DEF Rows, Columns
  <2>3. \A k \in Nat : A[k] = Sgn((a * k) \div m) /\ B[k] = Sgn((m * k) \div a)
    BY DEF Floors
  <2>4. QED
    BY <2>1, <2>2, <2>3
<1> HIDE DEF A, B, E, F, R, C, U
<1>3. \A j \in 1..h : R[j] = A[j]
  <2>1. ASSUME NEW j \in 1..h PROVE R[j] = A[j]
    <3>1. j \in Nat /\ \A i \in 1..w : i \in Nat
      OBVIOUS
    <3>2. \A i \in 1..w : F[j][i] = IF i * m <= a * j THEN -1 ELSE 1
      BY <1>2, <3>1
    <3>3. Product(F[j], w) = Sgn((a * j) \div m)
      <4>1. Counts(F[j], a, j, m, w)
        BY <3>2 DEF Counts
      <4>2. QED
        BY <4>1, FloorCounts
    <3>4. QED
      BY <1>2, <3>1, <3>3
  <2>2. QED
    BY <2>1
<1>4. \A i \in 1..w : U[i] = B[i]
  <2>1. ASSUME NEW i \in 1..w PROVE U[i] = B[i]
    <3>1. i \in Nat /\ \A j \in 1..h : j \in Nat
      OBVIOUS
    <3>2. \A j \in 1..h : E[i][j] = IF j * a <= m * i THEN -1 ELSE 1
      BY <1>2, <3>1
    <3>3. Product(E[i], h) = Sgn((m * i) \div a)
      <4>1. Counts(E[i], m, i, a, h)
        BY <3>2 DEF Counts
      <4>2. QED
        BY <4>1, FloorCounts
    <3>4. QED
      BY <1>2, <3>1, <3>3
  <2>2. QED
    BY <2>1
<1>5. Product(A, h) = Product(C, w) /\ Product(B, w) = Product(U, w)
  <2>1. Product(A, h) = Product(R, h) /\ Product(B, w) = Product(U, w)
    BY <1>3, <1>4, ProductSame
  <2>2. \A j \in 1..h, i \in 1..w : F[j][i] \in Int
    <3>1. \A j \in 1..h, i \in 1..w : F[j][i] = IF i * m <= a * j THEN -1 ELSE 1
      BY <1>2
    <3>2. QED
      BY <3>1
  <2>3. Product(R, h) = Product(C, w)
    BY <2>2, RowsAndColumns DEF R, C
  <2>4. QED
    BY <2>1, <2>3
<1>6. ASSUME NEW i \in 1..w
      PROVE  C[i] \in Int /\ U[i] \in Int /\ C[i] * U[i] = Sgn(h)
  <2> DEFINE f == Column(F, i)
             g == E[i]
             e == [j \in 1..h |-> IF j <= h THEN -1 ELSE 1]
  <2>1. i \in Nat
    OBVIOUS
  <2>2. ASSUME NEW j \in 1..h PROVE f[j] \in {1, -1} /\ g[j] \in {1, -1} /\ f[j] * g[j] = -1
    <3>1. j \in Nat
      OBVIOUS
    <3>2. f[j] = IF i * m <= a * j THEN -1 ELSE 1
      BY <1>2, <2>1, <3>1 DEF Column
    <3>3. g[j] = IF j * a <= m * i THEN -1 ELSE 1
      BY <1>2, <2>1, <3>1
    <3>4. i * m # a * j
      <4>1. ASSUME i * m = a * j PROVE FALSE
        <5>1. Multiple(m, a * j)
          <6>1. a * j = i * m /\ i \in Int
            BY <2>1, <4>1
          <6>2. QED
            BY <6>1 DEF Multiple
        <5>2. j \in Int /\ j \in 1..(2 * h) /\ a \in Int
          OBVIOUS
        <5>3. QED
          BY <5>1, <5>2, CoprimeMultiple
      <4>2. QED
        BY <4>1
    <3>5. i * m \in Int /\ a * j \in Int /\ m * i = i * m /\ j * a = a * j
      OBVIOUS
    <3>6. i * m <= a * j <=> ~(j * a <= m * i)
      BY <3>4, <3>5
    <3>7. QED
      BY <3>2, <3>3, <3>6
  <2>3. \A j \in 1..h : e[j] = (IF j <= h THEN -1 ELSE 1)
    OBVIOUS
  <2> HIDE DEF f, g, e
  <2>4. Product(e, h) = Sgn(h)
    BY <2>3, h \in 0..h, StepProduct
  <2>5. Integers(f, h) /\ Integers(g, h)
    <3>1. \A j \in 1..h : f[j] \in Int /\ g[j] \in Int
      BY <2>2
    <3>2. QED
      BY <3>1 DEF Integers
  <2>6. \A j \in 1..h : e[j] = f[j] * g[j]
    BY <2>2, <2>3
  <2>7. Product(e, h) = Product(f, h) * Product(g, h)
    BY <2>5, <2>6, ProductTimes
  <2>8. Product(f, h) \in Int /\ Product(g, h) \in Int
    BY <2>5, ProductIs
  <2>9. C[i] = Product(f, h) /\ U[i] = Product(g, h)
    BY <1>2 DEF f, g
  <2>10. QED
    BY <2>4, <2>7, <2>8, <2>9
<1>7. \A i \in 1..w : both[i] = C[i] * U[i]
  OBVIOUS
<1> HIDE DEF both
<1>8. Product(both, w) = Product(C, w) * Product(U, w)
  <2>1. Integers(C, w) /\ Integers(U, w)
    BY <1>6 DEF Integers
  <2>2. QED
    BY <1>7, <2>1, ProductTimes
<1>9. Product(both, w) = Sgn(w * h)
  <2>1. \A i \in 1..w : both[i] = Sgn(h)
    BY <1>6, <1>7
  <2>2. QED
    BY <2>1, SgnProduct
<1>10. w * h = h * w
  OBVIOUS
<1>11. QED
  BY <1>1, <1>5, <1>8, <1>9, <1>10

------------------------------------------------------------------------------
(* Powers of 2, as far as they are said to double.                         *)

Binary(W) == 2^0 = 1 /\ \A e \in 0..W : 2^(e + 1) = 2 * 2^e

LEMMA TwoPower ==
  ASSUME NEW W \in Nat, Binary(W), NEW e \in 0..(W + 1)
  PROVE  2^e \in Nat /\ 2^e >= e + 1
<1> DEFINE S == {i \in Nat : 2^i \in Nat /\ 2^i >= i + 1}
<1>1. 0 \in S
  BY DEF Binary
<1>2. ASSUME NEW i \in 0..((W + 1) - 1), i \in S PROVE i + 1 \in S
  <2>1. 2^(i + 1) = 2 * 2^i /\ i \in Nat
    BY DEF Binary
  <2> DEFINE w == 2^i
  <2>2. w \in Nat /\ w >= i + 1
    BY <1>2
  <2> HIDE DEF w
  <2>3. 2 * w \in Nat /\ 2 * w >= (i + 1) + 1
    BY <2>1, <2>2
  <2>4. QED
    BY <2>1, <2>3 DEF w
<1> HIDE DEF S
<1>3. \A i \in 0..(W + 1) : i \in S
  BY <1>1, <1>2, W + 1 \in Nat, UpTo
<1>4. e \in S
  BY <1>3
<1>5. QED
  BY <1>4 DEF S

LEMMA TwoPowerLess ==
  ASSUME NEW W \in Nat, Binary(W), NEW d \in Nat, NEW e \in Nat, d < e, e <= W + 1
  PROVE  2 * 2^d <= 2^e
<1> DEFINE S == {i \in Nat : i <= (e - d) - 1 => 2 * 2^d <= 2^((d + 1) + i)}
<1>0. d \in 0..W /\ 2^(d + 1) = 2 * 2^d
  BY DEF Binary
<1>1. 0 \in S
  <2>1. (d + 1) + 0 = d + 1 /\ 2^d \in Nat
    BY <1>0, TwoPower
  <2> DEFINE w == 2^d
  <2> HIDE DEF w
  <2>2. 2 * w <= 2 * w
    BY <2>1 DEF w
  <2>3. QED
    BY <1>0, <2>1, <2>2 DEF w
<1>2. ASSUME NEW i \in 0..(((e - d) - 1) - 1), i \in S PROVE i + 1 \in S
  <2> DEFINE l == (d + 1) + i
  <2>1. i \in Nat /\ l \in 0..W /\ l + 1 = (d + 1) + (i + 1) /\ i <= (e - d) - 1
    OBVIOUS
  <2>2. 2 * 2^d <= 2^l
    BY <1>2, <2>1
  <2> HIDE DEF l
  <2>3. 2^(l + 1) = 2 * 2^l /\ 2^l \in Nat /\ 2^d \in Nat
    <3>1. 2^(l + 1) = 2 * 2^l
      BY <2>1 DEF Binary
    <3>2. 2^l \in Nat /\ 2^d \in Nat
      BY <1>0, <2>1, TwoPower
    <3>3. QED
      BY <3>1, <3>2
  <2> DEFINE w == 2^l
             v == 2^d
  <2>4. w \in Nat /\ v \in Nat /\ 2 * v <= w
    BY <2>2, <2>3
  <2> HIDE DEF w, v
  <2>5. 2 * v <= 2 * w
    BY <2>4
  <2>6. QED
    BY <2>1, <2>3, <2>5 DEF w, v
<1> HIDE DEF S
<1>3. (e - d) - 1 \in S
  <2>1. \A i \in 0..((e - d) - 1) : i \in S
    BY <1>1, <1>2, (e - d) - 1 \in Nat, UpTo
  <2>2. QED
    BY <2>1
<1>4. (d + 1) + ((e - d) - 1) = e /\ (e - d) - 1 <= (e - d) - 1
  OBVIOUS
<1>5. QED
  BY <1>3, <1>4 DEF S

(* Below the lowest 1.                                                     *)
LEMMA EvenDown ==
  ASSUME NEW W \in Nat, Binary(W), NEW x \in Nat, NEW j \in 0..(W + 1),
         \A t \in 0..(j - 1) : (x \div 2^t) % 2 = 0
  PROVE  x \div 2^j \in Nat /\ x = 2^j * (x \div 2^j)
<1> DEFINE S == {i \in Nat : i <= j => x \div 2^i \in Nat /\ x = 2^i * (x \div 2^i)}
<1>1. 0 \in S
  <2>1. x \div 1 = x /\ x = 1 * x
    OBVIOUS
  <2>2. 2^0 = 1
    BY DEF Binary
  <2>3. QED
    BY <2>1, <2>2
<1>2. ASSUME NEW i \in 0..(j - 1), i \in S PROVE i + 1 \in S
  <2>1. i \in Nat /\ i <= j /\ i \in 0..W /\ i + 1 \in 0..(W + 1)
    OBVIOUS
  <2> DEFINE w == 2^i
             y == 2^(i + 1)
             q == x \div w
  <2>2. w \in Nat /\ y \in Nat /\ y >= 1 /\ y = 2 * w
    <3>1. 2^(i + 1) = 2 * 2^i
      BY <2>1 DEF Binary
    <3>2. 2^i \in Nat /\ 2^(i + 1) \in Nat /\ 2^(i + 1) >= (i + 1) + 1
      BY <2>1, TwoPower
    <3> DEFINE v == 2^(i + 1)
    <3>3. v \in Nat /\ v >= (i + 1) + 1
      BY <3>2
    <3> HIDE DEF v
    <3>4. v >= 1
      BY <2>1, <3>3
    <3>5. QED
      BY <3>1, <3>2, <3>4 DEF v
  <2>3. q \in Nat /\ x = w * q /\ q % 2 = 0
    BY <1>2, <2>1
  <2> HIDE DEF w, y, q
  <2>4. PICK v \in Nat : q = 2 * v
    <3>1. q = 2 * (q \div 2) /\ q \div 2 \in Nat
      BY <2>3, SMT
    <3>2. QED
      BY <3>1
  <2>5. x = v * y + 0 /\ x = y * v
    BY <2>2, <2>3, <2>4
  <2>6. x \div y = v
    <3>1. 0 \in 0..(y - 1) /\ y > 0
      BY <2>2
    <3>2. QED
      BY <2>2, <2>4, <2>5, <3>1, QuotientIs
  <2>7. QED
    BY <2>4, <2>5, <2>6 DEF y
<1> HIDE DEF S
<1>3. j \in S
  <2>1. \A i \in 0..j : i \in S
    BY <1>1, <1>2, UpTo
  <2>2. QED
    BY <2>1
<1>4. j \in Nat /\ j <= j
  OBVIOUS
<1>5. QED
  BY <1>3, <1>4 DEF S

LEMMA ZeroBitsIs ==
  ASSUME NEW W \in Nat, Binary(W), NEW x \in Nat, x > 0, x < 2^W
  PROVE  /\ ZeroBits(x) \in 0..(W - 1)
         /\ x \div 2^ZeroBits(x) \in Nat /\ x = 2^ZeroBits(x) * (x \div 2^ZeroBits(x))
         /\ (x \div 2^ZeroBits(x)) % 2 = 1
<1> DEFINE Odd(i) == (x \div 2^i) % 2 = 1
           S == {i \in 0..(W - 1) : Odd(i)}
<1>0. \A z \in Int : z % 2 \in {0, 1}
  OBVIOUS
<1>1. S # {}
  <2>1. ASSUME S = {} PROVE FALSE
    <3> DEFINE T == {i \in Nat : i <= W => \A t \in 0..(i - 1) : (x \div 2^t) % 2 = 0}
    <3>1. 0 \in T
      OBVIOUS
    <3>2. ASSUME NEW i \in 0..(W - 1), i \in T PROVE i + 1 \in T
      <4>1. i \in Nat /\ i <= W /\ i \in 0..(W + 1)
        OBVIOUS
      <4>2. \A t \in 0..(i - 1) : (x \div 2^t) % 2 = 0
        BY <3>2, <4>1
      <4>3. x \div 2^i \in Nat
        BY <4>1, <4>2, EvenDown
      <4>4. ~Odd(i)
        BY <2>1
      <4>5. (x \div 2^i) % 2 = 0
        BY <1>0, <4>3, <4>4
      <4>6. \A t \in 0..((i + 1) - 1) : (x \div 2^t) % 2 = 0
        <5>1. \A t \in 0..((i + 1) - 1) : t = i \/ t \in 0..(i - 1)
          BY <4>1
        <5>2. QED
          BY <4>2, <4>5, <5>1
      <4>7. QED
        BY <4>1, <4>6
    <3> HIDE DEF T
    <3>3. W \in T
      <4>1. \A i \in 0..W : i \in T
        BY <3>1, <3>2, UpTo
      <4>2. QED
        BY <4>1
    <3>4. W \in 0..(W + 1) /\ \A t \in 0..(W - 1) : (x \div 2^t) % 2 = 0
      BY <3>3 DEF T
    <3> DEFINE w == 2^W
               q == x \div w
    <3>5. q \in Nat /\ x = w * q /\ w \in Nat /\ x < w
      <4>1. x \div 2^W \in Nat /\ x = 2^W * (x \div 2^W)
        BY <3>4, EvenDown
      <4>2. 2^W \in Nat
        BY <3>4, TwoPower
      <4>3. QED
        BY <4>1, <4>2
    <3> HIDE DEF w, q
    <3>6. q = 0 \/ w * q >= w
      BY <3>5
    <3>7. QED
      BY <3>5, <3>6
  <2>2. QED
    BY <2>1
<1>2. PICK j \in S : \A i \in S : j <= i
  <2>1. S \in SUBSET Nat
    OBVIOUS
  <2> HIDE DEF S
  <2>2. QED
    BY <1>1, <2>1, LeastExists
<1>3. j \in 0..(W - 1) /\ Odd(j) /\ j \in 0..(W + 1) /\ j \in Nat
  BY <1>2
<1>4. ASSUME NEW t \in 0..(j - 1) PROVE (x \div 2^t) % 2 = 0
  <2> DEFINE T == {i \in Nat : i <= j => \A u \in 0..(i - 1) : (x \div 2^u) % 2 = 0}
  <2>1. 0 \in T
    OBVIOUS
  <2>2. ASSUME NEW i \in 0..(j - 1), i \in T PROVE i + 1 \in T
    <3>1. i \in Nat /\ i <= j /\ i \in 0..(W + 1) /\ i \in 0..(W - 1) /\ i \notin S
      BY <1>2, <1>3
    <3>2. \A u \in 0..(i - 1) : (x \div 2^u) % 2 = 0
      BY <2>2, <3>1
    <3>3. x \div 2^i \in Nat
      BY <3>1, <3>2, EvenDown
    <3>4. ~Odd(i)
      BY <3>1
    <3>5. (x \div 2^i) % 2 = 0
      BY <1>0, <3>3, <3>4
    <3>6. \A u \in 0..((i + 1) - 1) : u = i \/ u \in 0..(i - 1)
      BY <3>1
    <3>7. QED
      BY <3>2, <3>5, <3>6
  <2> HIDE DEF T
  <2>3. j \in T
    <3>1. \A i \in 0..j : i \in T
      BY <1>3, <2>1, <2>2, UpTo
    <3>2. QED
      BY <1>3, <3>1
  <2>4. QED
    BY <1>3, <2>3 DEF T
<1>5. x \div 2^j \in Nat /\ x = 2^j * (x \div 2^j)
  BY <1>3, <1>4, EvenDown
<1>6. j <= x
  <2> DEFINE w == 2^j
             q == x \div w
  <2>1. w \in Nat /\ w >= j + 1
    BY <1>3, TwoPower
  <2>2. q \in Nat /\ x = w * q /\ q % 2 = 1
    BY <1>3, <1>5
  <2> HIDE DEF w, q
  <2>3. q >= 1
    BY <2>2
  <2>4. w * q >= w
    BY <2>1, <2>2, <2>3
  <2>5. QED
    BY <1>3, <2>1, <2>2, <2>4
<1> DEFINE Lowest(s) == Odd(s) /\ \A t \in 0..(s - 1) : (x \div 2^t) % 2 = 0
<1>7. Lowest(j) /\ j \in 0..x
  BY <1>3, <1>4, <1>6
<1>8. ZeroBits(x) = CHOOSE s \in 0..x : Lowest(s)
  <2>1. AbsVal(x) = x /\ x # 0
    BY DEF AbsVal
  <2>2. QED
    BY <2>1 DEF ZeroBits
<1> HIDE DEF Lowest
<1>9. ZeroBits(x) \in 0..x /\ Lowest(ZeroBits(x))
  BY <1>7, <1>8
<1> DEFINE s == ZeroBits(x)
<1> HIDE DEF s
<1>10. s \in Nat /\ Odd(s) /\ \A t \in 0..(s - 1) : (x \div 2^t) % 2 = 0
  BY <1>9 DEF s, Lowest
<1>11. ~(j < s)
  <2>1. ASSUME j < s PROVE FALSE
    <3>1. j \in 0..(s - 1)
      BY <1>3, <1>10, <2>1
    <3>2. QED
      BY <1>3, <1>10, <3>1
  <2>2. QED
    BY <2>1
<1>12. ~(s < j)
  <2>1. ASSUME s < j PROVE FALSE
    <3>1. s \in 0..(j - 1)
      BY <1>3, <1>10, <2>1
    <3>2. QED
      BY <1>4, <1>10, <3>1
  <2>2. QED
    BY <2>1
<1>13. s = j
  BY <1>3, <1>10, <1>11, <1>12
<1>14. QED
  BY <1>3, <1>5, <1>13 DEF s

------------------------------------------------------------------------------
(* The symbol of mpz_jacobi.                                               *)

Sym(a, b) == IF Coprime(a, b) THEN Gauss(a, (b - 1) \div 2) ELSE 0

LEMMA CoprimeSame ==
  ASSUME NEW m \in Nat, m > 0, NEW a \in Int, NEW b \in Int, Same(a, b, m), Coprime(a, m)
  PROVE  Coprime(b, m)
<1>1. SUFFICES ASSUME NEW d \in 2..AbsVal(m), Divides(d, b), Divides(d, m) PROVE FALSE
  BY DEF Coprime
<1>2. d \in Nat /\ d > 0
  BY DEF AbsVal
<1>3. Multiple(d, b) /\ Multiple(d, m)
  BY <1>1, <1>2, MultipleIs DEF Divides
<1>4. PICK t \in Int : a - b = t * m
  BY DEF Same, Multiple
<1>5. Multiple(d, m * t)
  <2>1. d \in Int /\ m \in Int /\ t \in Int /\ Multiple(d, m)
    BY <1>2, <1>3
  <2>2. QED
    BY <2>1, MultipleTimes
<1>6. Multiple(d, b + m * t) /\ m * t \in Int
  <2> DEFINE z == m * t
  <2>1. z \in Int /\ Multiple(d, z)
    BY <1>5
  <2> HIDE DEF z
  <2>2. Multiple(d, b + z)
    BY <1>2, <1>3, <2>1, MultipleSum
  <2>3. QED
    BY <2>1, <2>2 DEF z
<1>7. b + m * t = a
  BY <1>4
<1>8. Divides(d, a)
  BY <1>2, <1>6, <1>7, MultipleIs DEF Divides
<1>9. QED
  BY <1>1, <1>8 DEF Coprime

LEMMA CoprimeFactor ==
  ASSUME NEW m \in Nat, m > 0, NEW a \in Int, NEW b \in Int, Coprime(a * b, m)
  PROVE  Coprime(b, m)
<1>1. SUFFICES ASSUME NEW d \in 2..AbsVal(m), Divides(d, b), Divides(d, m) PROVE FALSE
  BY DEF Coprime
<1>2. d \in Nat /\ d > 0 /\ a * b \in Int
  BY DEF AbsVal
<1>3. Multiple(d, b)
  BY <1>1, <1>2, MultipleIs DEF Divides
<1>4. Multiple(d, a * b)
  BY <1>2, <1>3, MultipleTimes
<1>5. Divides(d, a * b)
  <2> DEFINE z == a * b
  <2>1. z \in Int /\ Multiple(d, z)
    BY <1>2, <1>4
  <2> HIDE DEF z
  <2>2. Divides(d, z)
    BY <1>2, <2>1, MultipleIs DEF Divides
  <2>3. QED
    BY <2>2 DEF z
<1>6. QED
  BY <1>1, <1>5 DEF Coprime

LEMMA TwosTimes ==
  ASSUME NEW W \in Nat, Binary(W), NEW h \in Nat, NEW m \in Nat, m = 2 * h + 1,
         NEW b \in Int, Coprime(b, m), NEW e \in 0..W
  PROVE  /\ Coprime(2^e * b, m)
         /\ Gauss(2^e * b, h) = (IF e % 2 = 1 THEN Gauss(2, h) ELSE 1) * Gauss(b, h)
<1> DEFINE G == Gauss(2, h)
           B == Gauss(b, h)
           S == {i \in Nat : i <= e =>
                   Coprime(2^i * b, m) /\ Gauss(2^i * b, h) = (IF i % 2 = 1 THEN G ELSE 1) * B}
<1>0. G \in {1, -1} /\ B \in {1, -1} /\ Coprime(2, m) /\ m > 0
  <2>1. Coprime(2, m)
    BY CoprimeTwo
  <2>2. G \in {1, -1}
    BY <2>1, GaussIs
  <2>3. B \in {1, -1}
    BY GaussIs
  <2>4. QED
    BY <2>1, <2>2, <2>3
<1>1. 0 \in S
  <2>1. 2^0 = 1
    BY DEF Binary
  <2>2. 2^0 * b = b /\ 0 % 2 = 0
    BY <2>1
  <2> HIDE DEF G
  <2>3. Gauss(2^0 * b, h) = B
    BY <2>2
  <2> HIDE DEF B
  <2>4. QED
    BY <1>0, <2>2, <2>3
<1>2. ASSUME NEW i \in 0..(e - 1), i \in S PROVE i + 1 \in S
  <2>1. i \in Nat /\ i <= e /\ i \in 0..W /\ i \in 0..(W + 1)
    OBVIOUS
  <2> DEFINE z == 2^i * b
  <2>2. Coprime(z, m) /\ Gauss(z, h) = (IF i % 2 = 1 THEN G ELSE 1) * B
    BY <1>2, <2>1
  <2>3. 2^(i + 1) * b = 2 * z /\ z \in Int
    <3>1. 2^(i + 1) = 2 * 2^i
      BY <2>1 DEF Binary
    <3>2. 2^i \in Nat
      BY <2>1, TwoPower
    <3> DEFINE w == 2^i
    <3>3. w \in Nat
      BY <3>2
    <3> HIDE DEF w
    <3>4. (2 * w) * b = 2 * (w * b) /\ w * b \in Int
      BY <3>3
    <3>5. QED
      BY <3>1, <3>4 DEF w
  <2> HIDE DEF z
  <2>4. Coprime(2 * z, m) /\ Gauss(2 * z, h) = G * Gauss(z, h)
    <3>1. Coprime(2 * z, m)
      BY <1>0, <2>2, <2>3, CoprimeProduct
    <3>2. Gauss(2 * z, h) = G * Gauss(z, h)
      <4>1. 2 \in Int /\ z \in Int /\ Coprime(2, m) /\ Coprime(z, m)
        BY <1>0, <2>2, <2>3
      <4>2. Gauss(2 * z, h) = Gauss(2, h) * Gauss(z, h)
        BY <4>1, GaussTimes
      <4>3. QED
        BY <4>2
    <3>3. QED
      BY <3>1, <3>2
  <2> HIDE DEF G, B
  <2>5. i % 2 = 1 <=> ~((i + 1) % 2 = 1)
    BY <2>1
  <2>6. G * ((IF i % 2 = 1 THEN G ELSE 1) * B) = (IF (i + 1) % 2 = 1 THEN G ELSE 1) * B
    BY <1>0, <2>5
  <2>7. QED
    BY <2>1, <2>2, <2>3, <2>4, <2>6
<1> HIDE DEF S
<1>3. e \in S
  <2>1. \A i \in 0..e : i \in S
    BY <1>1, <1>2, UpTo
  <2>2. QED
    BY <2>1
<1>4. e \in Nat /\ e <= e
  OBVIOUS
<1>5. QED
  BY <1>3, <1>4 DEF S

(* The sign of 2, and of the exchange.                                     *)
LEMMA SignRules ==
  ASSUME NEW h \in Nat, NEW w \in Nat
  PROVE  /\ Gauss(2, h) = IF (2 * h + 1) % 8 \in {3, 5} THEN -1 ELSE 1
         /\ Sgn(h * w) = IF (2 * h + 1) % 4 = 3 /\ (2 * w + 1) % 4 = 3 THEN -1 ELSE 1
<1>1. (h - (h \div 2)) % 2 = 0 <=> ~((2 * h + 1) % 8 \in {3, 5})
  <2> DEFINE q == h \div 4
             r == h % 4
  <2>1. q \in Int /\ r \in 0..3 /\ h = 4 * q + r
    BY SMT
  <2> HIDE DEF q, r
  <2>2. (2 * h + 1) % 8 = 2 * r + 1
    BY <2>1, SMT
  <2>3. h \div 2 = 2 * q + (r \div 2)
    BY <2>1, SMT
  <2>4. (h - (h \div 2)) % 2 = (r - (r \div 2)) % 2
    BY <2>1, <2>3, SMT
  <2>5. QED
    BY <2>1, <2>2, <2>4
<1>2. Gauss(2, h) = Sgn(h - (h \div 2))
  BY GaussTwo
<1>3. (2 * h + 1) % 4 = 3 <=> h % 2 # 0
  BY SMT
<1>4. (2 * w + 1) % 4 = 3 <=> w % 2 # 0
  BY SMT
<1>5. (h * w) % 2 = 0 <=> h % 2 = 0 \/ w % 2 = 0
  <2>1. CASE h % 2 = 0
    <3>1. PICK u \in Int : h = 2 * u
      <4>1. h = 2 * (h \div 2) /\ h \div 2 \in Int
        BY <2>1, SMT
      <4>2. QED
        BY <4>1
    <3>2. h * w = 2 * (u * w) /\ u * w \in Int
      BY <3>1
    <3>3. (2 * (u * w)) % 2 = 0
      BY <3>2
    <3>4. QED
      BY <2>1, <3>2, <3>3
  <2>2. CASE h % 2 # 0
    <3>1. PICK u \in Int : h = 2 * u + 1
      <4>1. h = 2 * (h \div 2) + 1 /\ h \div 2 \in Int
        BY <2>2, SMT
      <4>2. QED
        BY <4>1
    <3>2. h * w = 2 * (u * w) + w /\ u * w \in Int
      BY <3>1
    <3> DEFINE z == u * w
    <3>3. h * w = 2 * z + w /\ z \in Int
      BY <3>2
    <3> HIDE DEF z
    <3>4. (2 * z + w) % 2 = w % 2
      BY <3>3, SMT
    <3>5. QED
      BY <2>2, <3>3, <3>4
  <2>3. QED
    BY <2>1, <2>2
<1>6. QED
  BY <1>1, <1>2, <1>3, <1>4, <1>5 DEF Sgn

OddTo(n) == {d \in 1..n : d % 2 = 1}

LEMMA OddIs ==
  ASSUME NEW n \in Nat, NEW b \in OddTo(n)
  PROVE  b \in Nat /\ b > 0 /\ b <= n /\ (b - 1) \div 2 \in Nat /\ b = 2 * ((b - 1) \div 2) + 1
<1>1. b \in 1..n /\ b % 2 = 1
  BY DEF OddTo
<1>2. QED
  BY <1>1

(* A turn of its loop.                                                     *)
LEMMA JacobiStep ==
  ASSUME NEW W \in Nat, Binary(W), NEW y \in Nat, y < 2^W, NEW b \in OddTo(y), b # 1, NEW a \in Int
  PROVE  /\ a % b = 0 => Sym(a, b) = 0
         /\ a % b # 0 =>
              LET r == a % b
                  s == ZeroBits(r)
                  d == r \div 2^s
                  flips == (s % 2 = 1 /\ b % 8 \in {3, 5}) # (b % 4 = 3 /\ d % 4 = 3)
              IN d \in OddTo(y) /\ d < b /\ Sym(a, b) = IF flips THEN -Sym(b, d) ELSE Sym(b, d)
<1> DEFINE h == (b - 1) \div 2
           r == a % b
           s == ZeroBits(r)
           d == r \div 2^s
           w == (d - 1) \div 2
<1>1. b \in Nat /\ b > 1 /\ b <= y /\ h \in Nat /\ b = 2 * h + 1 /\ b > 0
  BY OddIs
<1>2. Same(r, a, b) /\ r \in 0..(b - 1) /\ Same(a, r, b)
  <2>1. Same(r, a, b) /\ r \in 0..(b - 1)
    BY <1>1, SameRemainder
  <2> HIDE DEF r
  <2>2. Same(a, r, b)
    BY <1>1, <2>1, SameBack
  <2>3. QED
    BY <2>1, <2>2
<1>3. CASE r = 0
  <2>1. Divides(b, a) /\ Divides(b, b) /\ b \in 2..AbsVal(b)
    BY <1>1, <1>3 DEF Divides, AbsVal
  <2>2. QED
    BY <1>3, <2>1 DEF Sym, Coprime
<1>4. CASE r # 0
  <2>1. r \in Nat /\ r > 0 /\ r < 2^W
    <3>1. 2^W \in Nat
      BY TwoPower, W \in 0..(W + 1)
    <3> DEFINE z == 2^W
    <3>2. z \in Nat /\ y < z
      BY <3>1
    <3> HIDE DEF z
    <3>3. r < z
      BY <1>1, <1>2, <3>2
    <3>4. QED
      BY <1>2, <1>4, <3>3 DEF z
  <2> HIDE DEF r
  <2>2. s \in 0..(W - 1) /\ d \in Nat /\ r = 2^s * d /\ d % 2 = 1
    BY <2>1, ZeroBitsIs
  <2>3. 2^s \in Nat /\ 2^s >= 1 /\ s \in 0..W
    <3>1. s \in 0..W /\ s \in 0..(W + 1)
      BY <2>2
    <3> HIDE DEF s
    <3>2. 2^s \in Nat /\ 2^s >= s + 1
      BY <3>1, TwoPower
    <3> DEFINE z == 2^s
    <3>3. z \in Nat /\ z >= s + 1
      BY <3>2
    <3> HIDE DEF z
    <3>4. z >= 1
      BY <3>1, <3>3
    <3>5. QED
      BY <3>1, <3>2, <3>4 DEF z
  <2> HIDE DEF s, d
  <2>4. d <= r
    <3> DEFINE z == 2^s
    <3>1. z \in Nat /\ z >= 1 /\ r = z * d
      BY <2>2, <2>3
    <3> HIDE DEF z
    <3>2. z * d >= d
      BY <2>2, <3>1
    <3>3. QED
      BY <2>1, <2>2, <3>1, <3>2
  <2>5. d \in OddTo(y) /\ d < b /\ d > 0 /\ w \in Nat /\ d = 2 * w + 1
    <3>1. d < b /\ d > 0 /\ d \in 1..y
      BY <1>1, <1>2, <2>1, <2>2, <2>4
    <3>2. d \in OddTo(y)
      BY <2>2, <3>1 DEF OddTo
    <3>3. QED
      BY <3>1, <3>2, OddIs
  <2>6. Coprime(a, b) <=> Coprime(b, d)
    <3>1. Coprime(a, b) <=> Coprime(r, b)
      <4>1. b \in Nat /\ b > 0 /\ r \in Int /\ Same(a, r, b) /\ Same(r, a, b)
        BY <1>1, <1>2, <2>1
      <4>2. Coprime(a, b) => Coprime(r, b)
        BY <4>1, CoprimeSame
      <4>3. Coprime(r, b) => Coprime(a, b)
        BY <4>1, CoprimeSame
      <4>4. QED
        BY <4>2, <4>3
    <3>2. Coprime(r, b) => Coprime(d, b)
      BY <1>1, <2>2, <2>3, CoprimeFactor
    <3>3. Coprime(d, b) => Coprime(r, b)
      <4>1. ASSUME Coprime(d, b) PROVE Coprime(2^s * d, b)
        <5>1. d \in Int /\ s \in 0..W /\ h \in Nat /\ b \in Nat /\ b = 2 * h + 1
          BY <1>1, <2>2, <2>3
        <5> HIDE DEF h
        <5>2. QED
          BY <4>1, <5>1, TwosTimes
      <4>2. QED
        BY <2>2, <4>1
    <3>4. Coprime(d, b) <=> Coprime(b, d)
      BY <1>1, <2>2, <2>5, CoprimeBack
    <3>5. QED
      BY <3>1, <3>2, <3>3, <3>4
  <2> DEFINE flips == (s % 2 = 1 /\ b % 8 \in {3, 5}) # (b % 4 = 3 /\ d % 4 = 3)
  <2>7. CASE Coprime(a, b)
    <3>1. Coprime(b, d) /\ Coprime(d, b)
      <4>1. Coprime(b, d)
        BY <2>6, <2>7
      <4>2. QED
        BY <1>1, <2>2, <2>5, <4>1, CoprimeBack
    <3>2. Gauss(a, h) = Gauss(r, h)
      BY <1>1, <1>2, <2>1, GaussSame
    <3>3. Gauss(r, h) = (IF s % 2 = 1 THEN Gauss(2, h) ELSE 1) * Gauss(d, h)
      <4>1. d \in Int /\ s \in 0..W /\ h \in Nat /\ b \in Nat /\ b = 2 * h + 1 /\ Coprime(d, b)
        BY <1>1, <2>2, <2>3, <3>1
      <4> HIDE DEF h
      <4>2. Gauss(2^s * d, h) = (IF s % 2 = 1 THEN Gauss(2, h) ELSE 1) * Gauss(d, h)
        BY <4>1, TwosTimes
      <4>3. QED
        BY <2>2, <4>2
    <3>4. Gauss(d, h) * Gauss(b, w) = Sgn(h * w)
      BY <1>1, <2>2, <2>5, <3>1, Reciprocity
    <3>5. Gauss(2, h) = (IF b % 8 \in {3, 5} THEN -1 ELSE 1)
          /\ Sgn(h * w) = IF b % 4 = 3 /\ d % 4 = 3 THEN -1 ELSE 1
      BY <1>1, <2>5, SignRules
    <3>6. Gauss(d, h) \in {1, -1} /\ Gauss(b, w) \in {1, -1}
      <4>1. Gauss(d, h) \in {1, -1}
        BY <1>1, <2>2, <3>1, GaussIs
      <4>2. Gauss(b, w) \in {1, -1}
        BY <1>1, <2>2, <2>5, <3>1, GaussIs
      <4>3. QED
        BY <4>1, <4>2
    <3>7. Sym(a, b) = Gauss(a, h) /\ Sym(b, d) = Gauss(b, w)
      BY <2>7, <3>1 DEF Sym
    <3> DEFINE x1 == Gauss(d, h)
               x2 == Gauss(b, w)
               x3 == Gauss(2, h)
               odd == s % 2 = 1
               low == b % 8 \in {3, 5}
               both == b % 4 = 3 /\ d % 4 = 3
    <3>8. Sym(a, b) = (IF odd THEN x3 ELSE 1) * x1 /\ Sym(b, d) = x2
          /\ x3 = (IF low THEN -1 ELSE 1) /\ x1 * x2 = (IF both THEN -1 ELSE 1)
          /\ x1 \in {1, -1} /\ x2 \in {1, -1} /\ (flips <=> ((odd /\ low) # both))
      BY <3>2, <3>3, <3>4, <3>5, <3>6, <3>7
    <3> HIDE DEF x1, x2, x3, odd, low, both, flips
    <3>9. odd \in BOOLEAN /\ low \in BOOLEAN /\ both \in BOOLEAN
      BY DEF odd, low, both
    <3>10. Sym(a, b) = IF flips THEN -Sym(b, d) ELSE Sym(b, d)
      BY <3>8, <3>9
    <3>11. QED
      BY <1>4, <2>5, <3>10 DEF r, s, d, flips
  <2>8. CASE ~Coprime(a, b)
    <3>1. Sym(a, b) = 0 /\ Sym(b, d) = 0 /\ -Sym(b, d) = 0
      <4>1. ~Coprime(b, d)
        BY <2>6, <2>8
      <4>2. Sym(a, b) = 0 /\ Sym(b, d) = 0
        BY <2>8, <4>1 DEF Sym
      <4> DEFINE z == Sym(b, d)
      <4>3. z = 0
        BY <4>2
      <4> HIDE DEF z
      <4>4. -z = 0
        <5>1. \A v \in Int : v <= 0 /\ v >= 0 => -v = 0
          OBVIOUS
        <5>2. z \in Int /\ z <= 0 /\ z >= 0
          BY <4>3
        <5>3. QED
          BY <5>1, <5>2
      <4>5. QED
        BY <4>2, <4>4 DEF z
    <3>2. Sym(a, b) = IF flips THEN -Sym(b, d) ELSE Sym(b, d)
      BY <3>1
    <3> HIDE DEF flips
    <3>3. QED
      BY <1>4, <2>5, <3>2 DEF r, s, d, flips
  <2>9. QED
    BY <2>7, <2>8
<1>5. QED
  BY <1>3, <1>4

Turn(a, b, w) ==
  IF b = 1 THEN 1
  ELSE LET r == a % b
           s == ZeroBits(r)
           d == r \div 2^s
           flips == (s % 2 = 1 /\ b % 8 \in {3, 5}) # (b % 4 = 3 /\ d % 4 = 3)
       IN IF r = 0 THEN 0
          ELSE IF flips THEN -w[d][b] ELSE w[d][b]
Turns(y, w) ==
  w = [b \in {d \in 1..AbsVal(y) : d % 2 = 1} |-> [a \in Int |-> Turn(a, b, w)]]

LEMMA TurnIs ==
  ASSUME NEW W \in Nat, Binary(W), NEW y \in Nat, y < 2^W, NEW b \in OddTo(y), NEW a \in Int,
         NEW w, \A d \in OddTo(y) : d < b => w[d][b] = Sym(b, d)
  PROVE  Turn(a, b, w) = Sym(a, b)
<1>1. b \in Nat /\ b > 0 /\ b = 2 * ((b - 1) \div 2) + 1
  BY OddIs
<1>2. CASE b = 1
  <2>1. Coprime(a, b)
    <3>1. AbsVal(b) = 1
      BY <1>2 DEF AbsVal
    <3>2. QED
      BY <3>1 DEF Coprime
  <2>2. Sym(a, b) = Gauss(a, (b - 1) \div 2) /\ (b - 1) \div 2 = 0
    BY <1>1, <1>2, <2>1 DEF Sym
  <2>3. Gauss(a, 0) = 1
    <3>1. Integers(SignsOf(a, 0), 0)
      BY DEF Integers
    <3>2. QED
      BY <3>1, ProductIs DEF Gauss
  <2>4. QED
    BY <1>2, <2>2, <2>3 DEF Turn
<1>3. CASE b # 1
  <2> DEFINE r == a % b
             s == ZeroBits(r)
             d == r \div 2^s
             flips == (s % 2 = 1 /\ b % 8 \in {3, 5}) # (b % 4 = 3 /\ d % 4 = 3)
  <2>1. /\ r = 0 => Sym(a, b) = 0
        /\ r # 0 => d \in OddTo(y) /\ d < b /\ Sym(a, b) = IF flips THEN -Sym(b, d) ELSE Sym(b, d)
    BY <1>3, JacobiStep
  <2>2. Turn(a, b, w) = IF r = 0 THEN 0 ELSE IF flips THEN -w[d][b] ELSE w[d][b]
    BY <1>3 DEF Turn
  <2> HIDE DEF r, s, d, flips
  <2>3. CASE r = 0
    BY <2>1, <2>2, <2>3
  <2>4. CASE r # 0
    <3>1. w[d][b] = Sym(b, d)
      BY <2>1, <2>4
    <3>2. QED
      BY <2>1, <2>2, <2>4, <3>1
  <2>5. QED
    BY <2>3, <2>4
<1>4. QED
  BY <1>2, <1>3

LEMMA JacobiIs ==
  ASSUME NEW W \in Nat, Binary(W), NEW y \in OddTo(2^W - 1), NEW x \in Int
  PROVE  Jacobi(x, y) = Sym(x, y)
<1> DEFINE w == CHOOSE w : Turns(y, w)
           u == [b \in OddTo(y) |-> [a \in Int |-> Sym(a, b)]]
<1>1. y \in Nat /\ y > 0 /\ y < 2^W /\ y % 2 = 1 /\ AbsVal(y) = y /\ y \in OddTo(y)
  <2>1. 2^W \in Nat
    BY TwoPower, W \in 0..(W + 1)
  <2> DEFINE z == 2^W
  <2>2. z \in Nat /\ y \in 1..(z - 1) /\ y % 2 = 1
    BY <2>1 DEF OddTo
  <2> HIDE DEF z
  <2>3. y \in Nat /\ y > 0 /\ y < z /\ y % 2 = 1 /\ y \in 1..y
    BY <2>2
  <2>4. QED
    BY <2>3 DEF z, AbsVal, OddTo
<1>2. Turns(y, u)
  <2>1. ASSUME NEW b \in OddTo(y), NEW a \in Int PROVE Turn(a, b, u) = Sym(a, b)
    <3>1. ASSUME NEW d \in OddTo(y) PROVE u[d][b] = Sym(b, d)
      <4>1. b \in Int
        BY OddIs, <1>1
      <4>2. QED
        BY <4>1
    <3> HIDE DEF u
    <3>2. QED
      BY <1>1, <3>1, TurnIs
  <2> DEFINE v == [b \in OddTo(y) |-> [a \in Int |-> Turn(a, b, u)]]
  <2>2. u = v
    <3>1. \A b \in OddTo(y) : [a \in Int |-> Sym(a, b)] = [a \in Int |-> Turn(a, b, u)]
      <4> HIDE DEF u
      <4>1. QED
        BY <2>1
    <3>2. QED
      BY <3>1
  <2>3. OddTo(y) = {d \in 1..AbsVal(y) : d % 2 = 1}
    BY <1>1 DEF OddTo
  <2> HIDE DEF u
  <2>4. QED
    BY <2>2, <2>3 DEF Turns
<1>3. Turns(y, w)
  <2> HIDE DEF u
  <2>1. \E f : Turns(y, f)
    BY <1>2
  <2>2. QED
    BY <2>1
<1>4. Jacobi(x, y) = w[y][x]
  <2>1. w = CHOOSE f : Turns(y, f)
    OBVIOUS
  <2>2. Jacobi(x, y) = (CHOOSE f : Turns(y, f))[y][x]
    BY <1>1 DEF Jacobi, Turns, Turn
  <2>3. QED
    BY <2>2
<1> HIDE DEF w
<1>5. \A b \in OddTo(y), a \in Int : w[b][a] = Turn(a, b, w)
  <2>1. OddTo(y) = {d \in 1..AbsVal(y) : d % 2 = 1}
    BY <1>1 DEF OddTo
  <2> DEFINE v == [b \in OddTo(y) |-> [a \in Int |-> Turn(a, b, w)]]
  <2>2. w = v
    BY <1>3, <2>1 DEF Turns
  <2>3. \A b \in OddTo(y), a \in Int : v[b][a] = Turn(a, b, w)
    OBVIOUS
  <2> HIDE DEF v
  <2>4. QED
    BY <2>2, <2>3
<1> DEFINE S == {i \in Nat : \A b \in OddTo(y), a \in Int : b <= i => w[b][a] = Sym(a, b)}
<1>6. 0 \in S
  <2>1. \A b \in OddTo(y) : ~(b <= 0)
    BY <1>1, OddIs
  <2>2. QED
    BY <2>1
<1>7. ASSUME NEW i \in 0..(y - 1), i \in S PROVE i + 1 \in S
  <2>1. i \in Nat /\ i + 1 \in Nat
    OBVIOUS
  <2>2. ASSUME NEW b \in OddTo(y), NEW a \in Int, b <= i + 1 PROVE w[b][a] = Sym(a, b)
    <3>1. b \in Int
      BY OddIs, <1>1
    <3>2. ASSUME NEW d \in OddTo(y), d < b PROVE w[d][b] = Sym(b, d)
      <4>1. d <= i
        BY <1>1, <2>1, <2>2, <3>1, <3>2, OddIs
      <4>2. QED
        BY <1>7, <3>1, <4>1
    <3>3. Turn(a, b, w) = Sym(a, b)
      BY <1>1, <3>2, TurnIs
    <3>4. QED
      BY <1>5, <3>3
  <2>3. QED
    BY <2>1, <2>2
<1> HIDE DEF S
<1>8. y \in S
  <2>1. \A i \in 0..y : i \in S
    BY <1>1, <1>6, <1>7, UpTo
  <2>2. QED
    BY <1>1, <2>1
<1>9. w[y][x] = Sym(x, y)
  BY <1>1, <1>8 DEF S
<1>10. QED
  BY <1>4, <1>9

------------------------------------------------------------------------------
(* Sums from 0 to n.                                                       *)

Adds(f, n, u) ==
  u \in [0..n -> Int] /\ u[0] = f[0] /\ \A k \in 1..n : u[k] = u[k - 1] + f[k]
Sum0(f, n) == (CHOOSE u : Adds(f, n, u))[n]
Terms(f, n) == \A k \in 0..n : f[k] \in Int

LEMMA AddsExists ==
  ASSUME NEW n \in Nat, NEW f, Terms(f, n)
  PROVE  \E u : Adds(f, n, u)
<1> DEFINE before == [k \in 1..n |-> k - 1]
           turn == [k \in 1..n |-> [a \in Int |-> a + f[k]]]
           first == f[0]
<1>1. \A k \in 1..n : f[k] \in Int
  BY DEF Terms
<1>2. first \in Int
  BY DEF Terms
<1>3. before \in [1..n -> Nat] /\ (\A k \in 1..n : before[k] < k /\ before[k] = k - 1)
  OBVIOUS
<1>4. turn \in [1..n -> [Int -> Int]] /\ \A k \in 1..n, a \in Int : turn[k][a] = a + f[k]
  BY <1>1
<1> HIDE DEF before, turn, first
<1>5. Walkable(n, Int, first, before, turn)
  BY <1>2, <1>3, <1>4, RecursionExists
<1>6. PICK u : Walk(u, n, Int, first, before, turn)
  BY <1>5 DEF Walkable
<1>7. /\ u \in [0..n -> Int] /\ u[0] = first
      /\ \A k \in 1..n : u[k] = turn[k][u[before[k]]]
  BY <1>6 DEF Walk
<1>8. \A k \in 1..n : u[k] = u[k - 1] + f[k]
  <2>1. ASSUME NEW k \in 1..n PROVE u[k] = u[k - 1] + f[k]
    <3>1. k - 1 \in 0..n
      OBVIOUS
    <3>2. u[k - 1] \in Int /\ u[k] = turn[k][u[k - 1]]
      BY <1>3, <1>7, <3>1
    <3>3. QED
      BY <1>4, <3>2
  <2>2. QED
    BY <2>1
<1>9. Adds(f, n, u)
  BY <1>7, <1>8 DEF Adds, first
<1>10. QED
  BY <1>9

LEMMA AddsOnce ==
  ASSUME NEW n \in Nat, NEW j \in 0..n, NEW f, NEW u, NEW w, Adds(f, n, u), Adds(f, j, w)
  PROVE  u[j] = w[j]
<1> DEFINE S == {i \in Nat : i <= j => u[i] = w[i]}
<1>1. 0 \in S
  BY DEF Adds
<1>2. ASSUME NEW i \in 0..(j - 1), i \in S PROVE i + 1 \in S
  <2>1. i + 1 \in 1..n /\ i + 1 \in 1..j /\ (i + 1) - 1 = i /\ i \in Nat /\ i <= j
    OBVIOUS
  <2>2. u[i + 1] = u[i] + f[i + 1] /\ w[i + 1] = w[i] + f[i + 1]
    BY <2>1 DEF Adds
  <2>3. u[i] = w[i]
    BY <1>2, <2>1
  <2>4. QED
    BY <2>1, <2>2, <2>3
<1> HIDE DEF S
<1>3. j \in S
  <2>1. \A i \in 0..j : i \in S
    BY <1>1, <1>2, UpTo
  <2>2. QED
    BY <2>1
<1>4. j \in Nat /\ j <= j
  OBVIOUS
<1>5. QED
  BY <1>3, <1>4 DEF S

LEMMA SumIs ==
  ASSUME NEW n \in Nat, NEW f, Terms(f, n)
  PROVE  /\ Sum0(f, n) \in Int
         /\ Sum0(f, 0) = f[0]
         /\ n > 0 => Sum0(f, n - 1) \in Int /\ Sum0(f, n) = Sum0(f, n - 1) + f[n]
<1>1. ASSUME NEW j \in 0..n PROVE Adds(f, j, CHOOSE u : Adds(f, j, u))
  <2>1. Terms(f, j) /\ j \in Nat
    BY DEF Terms
  <2>2. QED
    BY <2>1, AddsExists
<1> DEFINE w(j) == CHOOSE u : Adds(f, j, u)
<1>2. \A j \in 0..n : Adds(f, j, w(j)) /\ Sum0(f, j) = w(j)[j]
  BY <1>1 DEF Sum0
<1> HIDE DEF w
<1>3. \A j \in 0..n : Sum0(f, j) \in Int
  BY <1>2 DEF Adds
<1>4. Sum0(f, 0) = f[0]
  BY <1>2, 0 \in 0..n DEF Adds
<1>5. ASSUME n > 0 PROVE Sum0(f, n) = Sum0(f, n - 1) + f[n]
  <2>1. n \in 0..n /\ n - 1 \in 0..n /\ n \in 1..n
    BY <1>5
  <2>2. w(n)[n] = w(n)[n - 1] + f[n]
    BY <1>2, <2>1 DEF Adds
  <2>3. w(n)[n - 1] = w(n - 1)[n - 1]
    BY <1>2, <2>1, AddsOnce
  <2>4. QED
    BY <1>2, <2>1, <2>2, <2>3
<1>6. n \in 0..n /\ (n > 0 => n - 1 \in 0..n)
  OBVIOUS
<1>7. QED
  BY <1>3, <1>4, <1>5, <1>6

LEMMA SumLinear ==
  ASSUME NEW n \in Nat, NEW f, NEW g, NEW e, Terms(f, n), Terms(g, n), NEW a \in Int, NEW b \in Int,
         \A k \in 0..n : e[k] = a * f[k] + b * g[k]
  PROVE  Terms(e, n) /\ Sum0(e, n) = a * Sum0(f, n) + b * Sum0(g, n)
<1> DEFINE S == {l \in Nat : l <= n => Sum0(e, l) = a * Sum0(f, l) + b * Sum0(g, l)}
<1>0. \A k \in 0..n : f[k] \in Int /\ g[k] \in Int
  BY DEF Terms
<1>9. Terms(e, n)
  <2>1. \A k \in 0..n : a * f[k] \in Int /\ b * g[k] \in Int
    BY <1>0
  <2>2. \A k \in 0..n : e[k] \in Int
    BY <2>1
  <2>3. QED
    BY <2>2 DEF Terms
<1>1. 0 \in S
  <2>1. Sum0(e, 0) = e[0] /\ Sum0(f, 0) = f[0] /\ Sum0(g, 0) = g[0]
    BY <1>9, SumIs
  <2>2. e[0] = a * f[0] + b * g[0]
    BY 0 \in 0..n
  <2>3. QED
    BY <2>1, <2>2
<1>2. ASSUME NEW l \in 0..(n - 1), l \in S PROVE l + 1 \in S
  <2>1. /\ l \in Nat /\ l + 1 \in Nat /\ l + 1 > 0 /\ l + 1 \in 0..n /\ (l + 1) - 1 = l
        /\ Terms(e, l + 1) /\ Terms(f, l + 1) /\ Terms(g, l + 1)
    BY <1>9 DEF Terms
  <2>2. Sum0(e, l) = a * Sum0(f, l) + b * Sum0(g, l)
    BY <1>2, <2>1
  <2>3. /\ Sum0(f, l) \in Int /\ Sum0(f, l + 1) = Sum0(f, l) + f[l + 1]
        /\ Sum0(g, l) \in Int /\ Sum0(g, l + 1) = Sum0(g, l) + g[l + 1]
        /\ Sum0(e, l + 1) = Sum0(e, l) + e[l + 1]
    BY <2>1, SumIs
  <2>4. e[l + 1] = a * f[l + 1] + b * g[l + 1] /\ f[l + 1] \in Int /\ g[l + 1] \in Int
    BY <1>0, <2>1
  <2> DEFINE F == Sum0(f, l)
             H == Sum0(g, l)
             x1 == f[l + 1]
             x2 == g[l + 1]
  <2>5. F \in Int /\ H \in Int /\ x1 \in Int /\ x2 \in Int
    BY <2>3, <2>4
  <2> HIDE DEF F, H, x1, x2
  <2>6. (a * F + b * H) + (a * x1 + b * x2) = a * (F + x1) + b * (H + x2)
    BY <2>5
  <2>7. QED
    BY <2>1, <2>2, <2>3, <2>4, <2>6 DEF F, H, x1, x2
<1> HIDE DEF S
<1>3. n \in S
  <2>1. \A l \in 0..n : l \in S
    BY <1>1, <1>2, UpTo
  <2>2. QED
    BY <2>1
<1>4. QED
  BY <1>3, <1>9 DEF S

(* One place further, when nothing falls off the end.                      *)
LEMMA SumShift ==
  ASSUME NEW n \in Nat, NEW f, NEW e, Terms(f, n), f[n] = 0,
         e[0] = 0, \A k \in 1..n : e[k] = f[k - 1]
  PROVE  Terms(e, n) /\ Sum0(e, n) = Sum0(f, n)
<1> DEFINE S == {l \in Nat : l <= n - 1 => Sum0(e, l + 1) = Sum0(f, l)}
<1>0. \A k \in 0..n : f[k] \in Int
  BY DEF Terms
<1>9. Terms(e, n)
  <2>1. ASSUME NEW k \in 0..n PROVE e[k] \in Int
    <3>1. CASE k = 0
      BY <3>1
    <3>2. CASE k # 0
      <4>1. k \in 1..n /\ k - 1 \in 0..n
        BY <3>2
      <4>2. QED
        BY <1>0, <4>1
    <3>3. QED
      BY <3>1, <3>2
  <2>2. QED
    BY <2>1 DEF Terms
<1>1. CASE n = 0
  <2>1. Sum0(e, 0) = e[0] /\ Sum0(f, 0) = f[0]
    BY <1>9, SumIs
  <2>2. QED
    BY <1>1, <1>9, <2>1
<1>2. CASE n > 0
  <2>1. 0 \in S
    <3>1. Terms(e, 1) /\ 1 - 1 = 0 /\ 1 \in 1..n
      BY <1>2, <1>9 DEF Terms
    <3>2. Sum0(e, 1) = Sum0(e, 0) + e[1] /\ Sum0(e, 0) = e[0]
      BY <3>1, SumIs
    <3>3. Sum0(f, 0) = f[0] /\ f[0] \in Int
      BY <1>0, SumIs
    <3>4. e[1] = f[0]
      BY <3>1
    <3>5. 0 + 1 = 1
      OBVIOUS
    <3>6. QED
      BY <3>2, <3>3, <3>4, <3>5
  <2>2. ASSUME NEW l \in 0..((n - 1) - 1), l \in S PROVE l + 1 \in S
    <3>1. /\ l \in Nat /\ l <= n - 1 /\ l + 1 \in Nat /\ l + 2 \in Nat /\ (l + 1) + 1 = l + 2 /\ (l + 2) - 1 = l + 1
          /\ (l + 1) - 1 = l /\ l + 2 \in 1..n /\ l + 1 \in 0..n /\ l + 1 > 0 /\ l + 2 > 0
      BY <1>2
    <3>2. Terms(e, l + 2) /\ Terms(f, l + 1)
      BY <1>9, <3>1 DEF Terms
    <3>3. Sum0(e, l + 2) = Sum0(e, l + 1) + e[l + 2]
      BY <3>1, <3>2, SumIs
    <3>4. Sum0(f, l + 1) = Sum0(f, l) + f[l + 1]
      BY <3>1, <3>2, SumIs
    <3>5. e[l + 2] = f[l + 1] /\ Sum0(e, l + 1) = Sum0(f, l)
      BY <2>2, <3>1
    <3>6. QED
      BY <3>1, <3>3, <3>4, <3>5
  <2> HIDE DEF S
  <2>3. n - 1 \in S
    <3>1. \A l \in 0..(n - 1) : l \in S
      BY <1>2, <2>1, <2>2, n - 1 \in Nat, UpTo
    <3>2. QED
      BY <1>2, <3>1
  <2>4. Sum0(e, n) = Sum0(f, n - 1)
    <3>1. (n - 1) + 1 = n /\ n - 1 <= n - 1
      OBVIOUS
    <3>2. QED
      BY <2>3, <3>1 DEF S
  <2>5. Sum0(f, n) = Sum0(f, n - 1) + f[n] /\ Sum0(f, n - 1) \in Int
    BY <1>2, SumIs
  <2>6. QED
    BY <1>9, <2>4, <2>5
<1>3. QED
  BY <1>1, <1>2

(* All terms but the first and the last are multiples.                     *)
LEMMA SumEnds ==
  ASSUME NEW m \in Int, NEW n \in Nat, n > 0, NEW f, Terms(f, n), \A k \in 1..(n - 1) : Multiple(m, f[k])
  PROVE  Same(Sum0(f, n), f[0] + f[n], m)
<1> DEFINE S == {l \in Nat : l <= n - 1 => Multiple(m, Sum0(f, l) - f[0])}
<1>0. (\A k \in 0..n : f[k] \in Int) /\ f[0] \in Int /\ f[n] \in Int
  <2>1. \A k \in 0..n : f[k] \in Int
    BY DEF Terms
  <2>2. QED
    BY <2>1
<1>1. 0 \in S
  <2>1. Sum0(f, 0) = f[0]
    BY SumIs
  <2>2. f[0] - f[0] = 0 * m /\ 0 \in Int
    BY <1>0
  <2>3. QED
    BY <2>1, <2>2 DEF Multiple
<1>2. ASSUME NEW l \in 0..((n - 1) - 1), l \in S PROVE l + 1 \in S
  <2>1. l \in Nat /\ l <= n - 1 /\ l + 1 \in 1..(n - 1) /\ l + 1 \in Nat /\ l + 1 > 0 /\ (l + 1) - 1 = l
        /\ l + 1 \in 0..n /\ l \in 0..n
    OBVIOUS
  <2>2. Terms(f, l + 1)
    BY <2>1 DEF Terms
  <2>3. Sum0(f, l) \in Int /\ Sum0(f, l + 1) = Sum0(f, l) + f[l + 1]
    BY <2>1, <2>2, SumIs
  <2> DEFINE F == Sum0(f, l)
             x1 == f[l + 1]
             x0 == f[0]
  <2>4. F \in Int /\ x1 \in Int /\ x0 \in Int /\ Multiple(m, F - x0) /\ Multiple(m, x1)
    BY <1>0, <1>2, <2>1, <2>3
  <2> HIDE DEF F, x1, x0
  <2>5. Multiple(m, (F - x0) + x1) /\ F - x0 \in Int
    BY <2>4, MultipleSum
  <2>6. (F - x0) + x1 = (F + x1) - x0
    BY <2>4
  <2>7. QED
    BY <2>1, <2>3, <2>5, <2>6 DEF F, x1, x0
<1> HIDE DEF S
<1>3. n - 1 \in S
  <2>1. \A l \in 0..(n - 1) : l \in S
    BY <1>1, <1>2, n - 1 \in Nat, UpTo
  <2>2. QED
    BY <2>1
<1>4. Multiple(m, Sum0(f, n - 1) - f[0])
  BY <1>3, n - 1 \in Nat, n - 1 <= n - 1 DEF S
<1>5. Sum0(f, n) = Sum0(f, n - 1) + f[n] /\ Sum0(f, n - 1) \in Int
  BY SumIs
<1>6. Sum0(f, n) - (f[0] + f[n]) = Sum0(f, n - 1) - f[0]
  BY <1>0, <1>5
<1>7. QED
  BY <1>4, <1>6 DEF Same

------------------------------------------------------------------------------
(* The coefficients of (P + X)^k.                                          *)

Pascal(P, n, u) ==
  /\ u \in [0..n -> [Nat -> Int]]
  /\ u[0] = [j \in Nat |-> IF j = 0 THEN 1 ELSE 0]
  /\ \A k \in 1..n :
       u[k] = [j \in Nat |-> IF j = 0 THEN P * u[k - 1][0] ELSE P * u[k - 1][j] + u[k - 1][j - 1]]

LEMMA PascalExists ==
  ASSUME NEW P \in Int, NEW n \in Nat
  PROVE  \E u : Pascal(P, n, u)
<1> DEFINE V == [Nat -> Int]
           first == [j \in Nat |-> IF j = 0 THEN 1 ELSE 0]
           above(a) == [j \in Nat |-> IF j = 0 THEN P * a[0] ELSE P * a[j] + a[j - 1]]
           before == [k \in 1..n |-> k - 1]
           turn == [k \in 1..n |-> [a \in V |-> above(a)]]
<1>1. first \in V
  OBVIOUS
<1>2. before \in [1..n -> Nat] /\ (\A k \in 1..n : before[k] < k /\ before[k] = k - 1)
  OBVIOUS
<1>3. ASSUME NEW a \in V PROVE above(a) \in V
  <2>1. ASSUME NEW j \in Nat PROVE (IF j = 0 THEN P * a[0] ELSE P * a[j] + a[j - 1]) \in Int
    <3>1. CASE j = 0
      <4>1. a[0] \in Int /\ P * a[0] \in Int
        OBVIOUS
      <4>2. QED
        BY <3>1, <4>1
    <3>2. CASE j # 0
      <4>1. j - 1 \in Nat
        BY <3>2
      <4>2. a[j] \in Int /\ a[j - 1] \in Int /\ P * a[j] \in Int
        BY <4>1
      <4>3. QED
        BY <3>2, <4>2
    <3>3. QED
      BY <3>1, <3>2
  <2>2. QED
    BY <2>1
<1> HIDE DEF V, first, above, before
<1>4. turn \in [1..n -> [V -> V]] /\ \A k \in 1..n, a \in V : turn[k][a] = above(a)
  BY <1>3
<1> HIDE DEF turn
<1>5. PICK u : Walk(u, n, V, first, before, turn)
  BY <1>1, <1>2, <1>4, RecursionExists DEF Walkable
<1>6. u \in [0..n -> V] /\ u[0] = first /\ \A k \in 1..n : u[k] = turn[k][u[before[k]]]
  BY <1>5 DEF Walk
<1>7. ASSUME NEW k \in 1..n PROVE u[k] = above(u[k - 1])
  <2>1. k - 1 \in 0..n
    OBVIOUS
  <2>2. u[k - 1] \in V /\ u[k] = turn[k][u[k - 1]]
    BY <1>2, <1>6, <2>1
  <2>3. QED
    BY <1>4, <2>2
<1>8. Pascal(P, n, u)
  BY <1>6, <1>7 DEF Pascal, V, first, above
<1>9. QED
  BY <1>8

LEMMA PascalIs ==
  ASSUME NEW P \in Int, NEW n \in Nat, NEW u, Pascal(P, n, u)
  PROVE  /\ \A k \in 0..n, j \in Nat : u[k][j] \in Int
         /\ u[0][0] = 1 /\ \A j \in Nat : j > 0 => u[0][j] = 0
         /\ \A k \in 0..(n - 1) : u[k + 1][0] = P * u[k][0]
         /\ \A k \in 0..(n - 1), j \in Nat : j > 0 => u[k + 1][j] = P * u[k][j] + u[k][j - 1]
<1>1. \A k \in 0..n, j \in Nat : u[k][j] \in Int
  BY DEF Pascal
<1>2. u[0][0] = 1 /\ \A j \in Nat : j > 0 => u[0][j] = 0
  BY DEF Pascal
<1>3. ASSUME NEW k \in 0..(n - 1) PROVE u[k + 1][0] = P * u[k][0] /\ \A j \in Nat : j > 0 => u[k + 1][j] = P * u[k][j] + u[k][j - 1]
  <2> DEFINE i == k + 1
  <2>1. i \in 1..n /\ i - 1 = k
    OBVIOUS
  <2>2. u[i] = [j \in Nat |-> IF j = 0 THEN P * u[i - 1][0] ELSE P * u[i - 1][j] + u[i - 1][j - 1]]
    BY <2>1 DEF Pascal
  <2>3. QED
    BY <2>2
<1>4. QED
  BY <1>1, <1>2, <1>3

LEMMA PascalEdges ==
  ASSUME NEW P \in Int, NEW n \in Nat, NEW u, Pascal(P, n, u), NEW k \in 0..n
  PROVE  /\ \A j \in Nat : j > k => u[k][j] = 0
         /\ u[k][0] = Power(P, k) /\ u[k][k] = 1
<1> DEFINE Good(l) == (\A j \in Nat : j > l => u[l][j] = 0) /\ u[l][0] = Power(P, l) /\ u[l][l] = 1
           S == {l \in Nat : Good(l)}
<1>0. /\ \A l \in 0..n, j \in Nat : u[l][j] \in Int
      /\ u[0][0] = 1 /\ \A j \in Nat : j > 0 => u[0][j] = 0
      /\ \A l \in 0..(n - 1) : u[l + 1][0] = P * u[l][0]
      /\ \A l \in 0..(n - 1), j \in Nat : j > 0 => u[l + 1][j] = P * u[l][j] + u[l][j - 1]
  <2> HIDE DEF S
  <2>1. \A l \in 0..n, j \in Nat : u[l][j] \in Int
    BY PascalIs
  <2>2. u[0][0] = 1 /\ \A j \in Nat : j > 0 => u[0][j] = 0
    BY PascalIs
  <2>3. \A l \in 0..(n - 1) : u[l + 1][0] = P * u[l][0]
    BY PascalIs
  <2>4. \A l \in 0..(n - 1), j \in Nat : j > 0 => u[l + 1][j] = P * u[l][j] + u[l][j - 1]
    BY PascalIs
  <2>5. QED
    BY <2>1, <2>2, <2>3, <2>4
<1>1. 0 \in S
  <2>1. Power(P, 0) = 1
    BY PowerIs
  <2>2. QED
    BY <1>0, <2>1
<1>2. ASSUME NEW l \in 0..(n - 1), l \in S PROVE l + 1 \in S
  <2>0. l \in Nat /\ l + 1 \in Nat /\ (l + 1) - 1 = l /\ l + 1 > 0 /\ l + 1 > l /\ Good(l)
    BY <1>2
  <2>1. ASSUME NEW j \in Nat, j > l + 1 PROVE u[l + 1][j] = 0
    <3>1. j - 1 \in Nat /\ j > l /\ j - 1 > l /\ j > 0
      BY <2>0, <2>1
    <3>2. u[l][j] = 0 /\ u[l][j - 1] = 0
      BY <2>0, <3>1
    <3>3. u[l + 1][j] = P * u[l][j] + u[l][j - 1]
      BY <1>0, <3>1
    <3>4. QED
      BY <3>2, <3>3
  <2>2. u[l + 1][0] = Power(P, l + 1)
    <3>1. Power(P, l + 1) = Power(P, l) * P /\ Power(P, l) \in Int
      BY <2>0, PowerIs
    <3>2. u[l + 1][0] = P * Power(P, l)
      BY <1>0, <2>0
    <3>3. QED
      BY <3>1, <3>2
  <2>3. u[l + 1][l + 1] = 1
    <3>1. u[l + 1][l + 1] = P * u[l][l + 1] + u[l][l]
      BY <1>0, <2>0
    <3>2. u[l][l + 1] = 0 /\ u[l][l] = 1
      BY <2>0
    <3>3. QED
      BY <3>1, <3>2
  <2>4. Good(l + 1)
    BY <2>1, <2>2, <2>3
  <2>5. QED
    BY <2>0, <2>4
<1> HIDE DEF Good
<1>3. \A l \in 0..n : l \in S
  <2> HIDE DEF S
  <2>1. QED
    BY <1>1, <1>2, UpTo
<1>4. Good(k)
  BY <1>3
<1>5. QED
  BY <1>4 DEF Good

(* j times a coefficient of row k is k times one of the row before.        *)
LEMMA PascalRow ==
  ASSUME NEW P \in Int, NEW n \in Nat, NEW u, Pascal(P, n, u), NEW k \in 0..(n - 1)
  PROVE  \A j \in Nat : j > 0 => j * u[k + 1][j] = (k + 1) * u[k][j - 1]
<1> DEFINE Good(l) == \A j \in Nat : j > 0 => j * u[l + 1][j] = (l + 1) * u[l][j - 1]
           S == {l \in Nat : Good(l)}
<1>0. /\ \A l \in 0..n, j \in Nat : u[l][j] \in Int
      /\ u[0][0] = 1 /\ \A j \in Nat : j > 0 => u[0][j] = 0
      /\ \A l \in 0..(n - 1) : u[l + 1][0] = P * u[l][0]
      /\ \A l \in 0..(n - 1), j \in Nat : j > 0 => u[l + 1][j] = P * u[l][j] + u[l][j - 1]
  BY PascalIs
<1>1. 0 \in S
  <2>1. ASSUME NEW j \in Nat, j > 0 PROVE j * u[1][j] = (0 + 1) * u[0][j - 1]
    <3>0. 0 \in 0..(n - 1) /\ 0 + 1 = 1 /\ j - 1 \in Nat
      BY <2>1
    <3>1. u[0 + 1][j] = P * u[0][j] + u[0][j - 1]
      BY <1>0, <2>1, <3>0
    <3>2. u[0][j] = 0
      BY <1>0, <2>1
    <3>3. CASE j = 1
      <4>1. j - 1 = 0 /\ 0 + 1 = 1 /\ u[0][0] = 1
        BY <1>0, <3>3
      <4>2. u[1][j] = 1
        BY <3>1, <3>2, <4>1
      <4>3. j * 1 = 1 * 1
        BY <3>3
      <4>4. QED
        BY <4>1, <4>2, <4>3
    <3>4. CASE j # 1
      <4>1. u[0][j - 1] = 0
        BY <1>0, <2>1, <3>0, <3>4
      <4>2. QED
        BY <3>0, <3>1, <3>2, <4>1
    <3>5. QED
      BY <3>3, <3>4
  <2>2. 0 + 1 = 1
    OBVIOUS
  <2>3. QED
    BY <2>1, <2>2
<1>2. ASSUME NEW l \in 0..((n - 1) - 1), l \in S PROVE l + 1 \in S
  <2>0. l \in Nat /\ l + 1 \in Nat /\ l \in 0..(n - 1) /\ l + 1 \in 0..(n - 1) /\ Good(l)
    BY <1>2
  <2>1. ASSUME NEW j \in Nat, j > 0 PROVE j * u[(l + 1) + 1][j] = ((l + 1) + 1) * u[l + 1][j - 1]
    <3>0. j - 1 \in Nat
      BY <2>1
    <3>1. u[(l + 1) + 1][j] = P * u[l + 1][j] + u[l + 1][j - 1]
      BY <1>0, <2>0, <2>1
    <3>2. j * u[l + 1][j] = (l + 1) * u[l][j - 1]
      BY <2>0, <2>1
    <3> DEFINE x0 == u[l + 1][j]
               x1 == u[l + 1][j - 1]
               y0 == u[l][j - 1]
               x2 == u[(l + 1) + 1][j]
    <3>3. x0 \in Int /\ x1 \in Int /\ y0 \in Int
      BY <1>0, <2>0, <3>0
    <3>4. CASE j = 1
      <4>1. x1 = P * y0
        BY <1>0, <2>0, <3>4
      <4>2. x2 = P * x0 + x1 /\ j * x0 = (l + 1) * y0
        BY <3>1, <3>2
      <4> HIDE DEF x0, x1, y0, x2
      <4>3. P * ((l + 1) * y0) = (l + 1) * (P * y0)
        BY <2>0, <3>3
      <4>4. x2 = (l + 1) * x1 + x1
        BY <3>3, <3>4, <4>1, <4>2, <4>3
      <4>5. (l + 1) * x1 + x1 = ((l + 1) + 1) * x1
        BY <2>0, <3>3
      <4>6. j * x2 = ((l + 1) + 1) * x1
        <5>1. x2 \in Int
          BY <2>0, <3>3, <4>4
        <5>2. QED
          BY <3>4, <4>4, <4>5, <5>1
      <4>7. QED
        BY <4>6 DEF x1, x2
    <3>5. CASE j # 1
      <4>0. j - 1 > 0 /\ (j - 1) - 1 \in Nat
        BY <2>1, <3>5
      <4> DEFINE y1 == u[l][(j - 1) - 1]
                 i == j - 1
      <4>1. x1 = P * y0 + y1 /\ i * x1 = (l + 1) * y1 /\ y1 \in Int
        BY <1>0, <2>0, <3>0, <4>0
      <4>2. x2 = P * x0 + x1 /\ (i + 1) * x0 = (l + 1) * y0 /\ i \in Nat /\ j = i + 1
        BY <3>0, <3>1, <3>2
      <4> HIDE DEF x0, x1, y0, x2, y1, i
      <4>3. (i + 1) * (P * x0 + x1) = P * ((i + 1) * x0) + i * x1 + x1
        BY <3>3, <4>2
      <4>4. P * ((l + 1) * y0) + (l + 1) * y1 + x1 = (l + 1) * (P * y0 + y1) + x1
        BY <2>0, <3>3, <4>1
      <4>5. (l + 1) * x1 + x1 = ((l + 1) + 1) * x1
        BY <2>0, <3>3
      <4>6. (i + 1) * x2 = ((l + 1) + 1) * x1
        BY <4>1, <4>2, <4>3, <4>4, <4>5
      <4>7. QED
        BY <4>2, <4>6 DEF x1, x2
    <3>6. QED
      BY <3>4, <3>5
  <2>2. QED
    BY <2>0, <2>1
<1> HIDE DEF Good
<1>3. \A l \in 0..(n - 1) : l \in S
  <2> HIDE DEF S
  <2>0. n - 1 \in Nat
    OBVIOUS
  <2>1. QED
    BY <1>1, <1>2, <2>0, UpTo
<1>4. Good(k)
  BY <1>3
<1>5. QED
  BY <1>4 DEF Good

LEMMA PascalPrime ==
  ASSUME NEW P \in Int, NEW n \in Nat, IsPrimeNumber(n), NEW u, Pascal(P, n, u), NEW j \in 1..(n - 1)
  PROVE  Multiple(n, u[n][j])
<1>1. n - 1 \in 0..(n - 1) /\ (n - 1) + 1 = n /\ j - 1 \in Nat /\ j \in Nat /\ j > 0 /\ n > 0 /\ n - 1 \in 0..n /\ n \in 0..n
  BY DEF IsPrimeNumber
<1>2. j * u[n][j] = n * u[n - 1][j - 1]
  BY <1>1, PascalRow
<1>3. u[n][j] \in Int /\ u[n - 1][j - 1] \in Int
  BY <1>1, PascalIs
<1>4. Multiple(n, j * u[n][j])
  BY <1>2, <1>3 DEF Multiple
<1>5. ~Multiple(n, j)
  <2>1. j % n = j
    OBVIOUS
  <2>2. QED
    BY <1>1, <2>1, MultipleIs
<1>6. QED
  BY <1>1, <1>3, <1>4, <1>5, PrimeDivides

------------------------------------------------------------------------------
(* (P + sqrt(P^2 - 4))^k is A + B sqrt(P^2 - 4).                           *)

Pairs(P, n, u) ==
  /\ u \in [0..n -> Int \X Int]
  /\ u[0] = <<1, 0>>
  /\ \A k \in 1..n :
       u[k] = <<P * u[k - 1][1] + (P * P - 4) * u[k - 1][2], u[k - 1][1] + P * u[k - 1][2]>>
PairOf(P, n) == (CHOOSE u : Pairs(P, n, u))[n]
LucA(P, n) == PairOf(P, n)[1]
LucB(P, n) == PairOf(P, n)[2]

LEMMA PairsExist ==
  ASSUME NEW P \in Int, NEW n \in Nat
  PROVE  \E u : Pairs(P, n, u)
<1> DEFINE V == Int \X Int
           first == <<1, 0>>
           next(a) == <<P * a[1] + (P * P - 4) * a[2], a[1] + P * a[2]>>
           before == [k \in 1..n |-> k - 1]
           turn == [k \in 1..n |-> [a \in V |-> next(a)]]
<1>1. first \in V
  OBVIOUS
<1>2. before \in [1..n -> Nat] /\ (\A k \in 1..n : before[k] < k /\ before[k] = k - 1)
  OBVIOUS
<1>3. ASSUME NEW a \in V PROVE next(a) \in V
  <2>1. a[1] \in Int /\ a[2] \in Int /\ P * P - 4 \in Int
    OBVIOUS
  <2>2. P * a[1] \in Int /\ (P * P - 4) * a[2] \in Int /\ P * a[2] \in Int
    BY <2>1
  <2>3. QED
    BY <2>1, <2>2
<1> HIDE DEF V, first, next, before
<1>4. turn \in [1..n -> [V -> V]] /\ \A k \in 1..n, a \in V : turn[k][a] = next(a)
  BY <1>3
<1> HIDE DEF turn
<1>5. PICK u : Walk(u, n, V, first, before, turn)
  BY <1>1, <1>2, <1>4, RecursionExists DEF Walkable
<1>6. u \in [0..n -> V] /\ u[0] = first /\ \A k \in 1..n : u[k] = turn[k][u[before[k]]]
  BY <1>5 DEF Walk
<1>7. ASSUME NEW k \in 1..n PROVE u[k] = next(u[k - 1])
  <2>1. k - 1 \in 0..n
    OBVIOUS
  <2>2. u[k - 1] \in V /\ u[k] = turn[k][u[k - 1]]
    BY <1>2, <1>6, <2>1
  <2>3. QED
    BY <1>4, <2>2
<1>8. Pairs(P, n, u)
  BY <1>6, <1>7 DEF Pairs, V, first, next
<1>9. QED
  BY <1>8

LEMMA PairsOnce ==
  ASSUME NEW P \in Int, NEW n \in Nat, NEW j \in 0..n, NEW u, NEW w, Pairs(P, n, u), Pairs(P, j, w)
  PROVE  u[j] = w[j]
<1> DEFINE S == {i \in Nat : i <= j => u[i] = w[i]}
<1>1. 0 \in S
  BY DEF Pairs
<1>2. ASSUME NEW i \in 0..(j - 1), i \in S PROVE i + 1 \in S
  <2> DEFINE k == i + 1
  <2>1. k \in 1..n /\ k \in 1..j /\ k - 1 = i /\ i \in Nat /\ i <= j /\ k \in Nat
    OBVIOUS
  <2>2. u[k] = <<P * u[k - 1][1] + (P * P - 4) * u[k - 1][2], u[k - 1][1] + P * u[k - 1][2]>>
    BY <2>1 DEF Pairs
  <2>3. w[k] = <<P * w[k - 1][1] + (P * P - 4) * w[k - 1][2], w[k - 1][1] + P * w[k - 1][2]>>
    BY <2>1 DEF Pairs
  <2>4. u[k - 1] = w[k - 1]
    BY <1>2, <2>1
  <2>5. u[k] = w[k]
    BY <2>2, <2>3, <2>4
  <2>6. QED
    BY <2>1, <2>5
<1> HIDE DEF S
<1>3. j \in S
  <2>1. \A i \in 0..j : i \in S
    BY <1>1, <1>2, UpTo
  <2>2. QED
    BY <2>1
<1>4. j \in Nat /\ j <= j
  OBVIOUS
<1>5. QED
  BY <1>3, <1>4 DEF S

LEMMA LucIs ==
  ASSUME NEW P \in Int, NEW n \in Nat
  PROVE  /\ LucA(P, n) \in Int /\ LucB(P, n) \in Int
         /\ LucA(P, 0) = 1 /\ LucB(P, 0) = 0
         /\ LucA(P, n + 1) = P * LucA(P, n) + (P * P - 4) * LucB(P, n)
         /\ LucB(P, n + 1) = LucA(P, n) + P * LucB(P, n)
<1> DEFINE w(j) == CHOOSE u : Pairs(P, j, u)
<1>1. ASSUME NEW j \in Nat PROVE Pairs(P, j, w(j)) /\ PairOf(P, j) = w(j)[j]
  <2>1. Pairs(P, j, w(j))
    BY PairsExist
  <2>2. QED
    BY <2>1 DEF PairOf
<1> HIDE DEF w
<1>2. ASSUME NEW j \in Nat PROVE PairOf(P, j) \in Int \X Int
  <2>1. w(j) \in [0..j -> Int \X Int] /\ PairOf(P, j) = w(j)[j] /\ j \in 0..j
    BY <1>1 DEF Pairs
  <2>2. QED
    BY <2>1
<1>3. PairOf(P, 0) = <<1, 0>>
  BY <1>1 DEF Pairs
<1> DEFINE k == n + 1
<1>4. k \in Nat /\ k \in 1..k /\ k - 1 = n /\ n \in 0..k
  OBVIOUS
<1>5. w(k)[k] = <<P * w(k)[k - 1][1] + (P * P - 4) * w(k)[k - 1][2], w(k)[k - 1][1] + P * w(k)[k - 1][2]>>
  BY <1>1, <1>4 DEF Pairs
<1>6. w(k)[n] = w(n)[n]
  BY <1>1, <1>4, PairsOnce
<1>7. PairOf(P, k) = <<P * PairOf(P, n)[1] + (P * P - 4) * PairOf(P, n)[2], PairOf(P, n)[1] + P * PairOf(P, n)[2]>>
  BY <1>1, <1>4, <1>5, <1>6
<1>8. PairOf(P, n)[1] \in Int /\ PairOf(P, n)[2] \in Int
  BY <1>2
<1>9. QED
  BY <1>3, <1>7, <1>8 DEF LucA, LucB

Weigh(r, e) == [j \in Nat |-> r[j] * e[j]]
After(e) == [j \in Nat |-> e[j + 1]]
EvenPowers(D) == [j \in Nat |-> IF j % 2 = 0 THEN Power(D, j \div 2) ELSE 0]
OddPowers(D) == [j \in Nat |-> IF j % 2 = 1 THEN Power(D, j \div 2) ELSE 0]

LEMMA WeighNext ==
  ASSUME NEW P \in Int, NEW n \in Nat, NEW u, Pascal(P, n, u), NEW k \in 0..(n - 1), NEW e \in [Nat -> Int]
  PROVE  /\ Terms(Weigh(u[k], e), n) /\ Terms(Weigh(u[k], After(e)), n) /\ Terms(Weigh(u[k + 1], e), n)
         /\ Sum0(Weigh(u[k + 1], e), n) = P * Sum0(Weigh(u[k], e), n) + Sum0(Weigh(u[k], After(e)), n)
<1> DEFINE f == Weigh(u[k], e)
           g == Weigh(u[k], After(e))
           d == Weigh(u[k + 1], e)
           s == [j \in Nat |-> IF j = 0 THEN 0 ELSE g[j - 1]]
<1>1. /\ k \in 0..n /\ k + 1 \in 0..n /\ n > k
      /\ \A l \in 0..n, j \in Nat : u[l][j] \in Int
  <2>1. \A l \in 0..n, j \in Nat : u[l][j] \in Int
    BY PascalIs
  <2>2. QED
    BY <2>1
<1>2. u[k + 1][0] = P * u[k][0]
  BY PascalIs
<1>3. \A j \in Nat : j > 0 => u[k + 1][j] = P * u[k][j] + u[k][j - 1]
  BY PascalIs
<1>4. ASSUME NEW j \in Nat
      PROVE  f[j] \in Int /\ g[j] \in Int /\ d[j] \in Int /\ d[j] = P * f[j] + 1 * s[j] /\ s[j] \in Int
  <2>1. e[j] \in Int /\ e[j + 1] \in Int /\ u[k][j] \in Int /\ u[k + 1][j] \in Int
    BY <1>1
  <2>2. f[j] = u[k][j] * e[j] /\ g[j] = u[k][j] * e[j + 1] /\ d[j] = u[k + 1][j] * e[j]
    BY DEF Weigh, After
  <2>3. f[j] \in Int /\ g[j] \in Int /\ d[j] \in Int
    BY <2>1, <2>2
  <2> DEFINE x0 == u[k][j]
             y0 == e[j]
  <2>4. CASE j = 0
    <3>1. s[j] = 0
      BY <2>4
    <3>2. d[j] = (P * x0) * y0 /\ f[j] = x0 * y0
      BY <1>2, <2>2, <2>4
    <3>3. x0 \in Int /\ y0 \in Int
      BY <2>1
    <3> HIDE DEF x0, y0, s, f, d
    <3>4. (P * x0) * y0 = P * (x0 * y0) + 1 * 0
      BY <3>3
    <3>5. QED
      BY <2>3, <3>1, <3>2, <3>4
  <2>5. CASE j # 0
    <3>1. j - 1 \in Nat /\ j > 0 /\ (j - 1) + 1 = j
      BY <2>5
    <3> DEFINE x1 == u[k][j - 1]
    <3>2. x1 \in Int
      BY <1>1, <3>1
    <3>3. s[j] = x1 * y0
      BY <2>5, <3>1 DEF Weigh, After
    <3>4. d[j] = (P * x0 + x1) * y0 /\ f[j] = x0 * y0
      BY <1>3, <2>2, <3>1
    <3>5. x0 \in Int /\ y0 \in Int
      BY <2>1
    <3> HIDE DEF x0, y0, x1, s, f, d
    <3>6. (P * x0 + x1) * y0 = P * (x0 * y0) + 1 * (x1 * y0) /\ x1 * y0 \in Int
      BY <3>2, <3>5
    <3>7. QED
      BY <2>3, <3>3, <3>4, <3>6
  <2>6. QED
    BY <2>4, <2>5
<1>5. g[n] = 0
  <2>1. u[k][n] = 0
    BY <1>1, PascalEdges
  <2>2. e[n + 1] \in Int /\ g[n] = u[k][n] * e[n + 1]
    BY DEF Weigh, After
  <2>3. QED
    BY <2>1, <2>2
<1>6. s[0] = 0 /\ \A j \in 1..n : s[j] = g[j - 1]
  OBVIOUS
<1> HIDE DEF f, g, d, s
<1>7. Terms(f, n) /\ Terms(g, n) /\ Terms(d, n) /\ Terms(s, n)
  BY <1>4 DEF Terms
<1>8. Sum0(s, n) = Sum0(g, n)
  BY <1>5, <1>6, <1>7, SumShift
<1>9. Sum0(d, n) = P * Sum0(f, n) + 1 * Sum0(s, n)
  <2>1. \A j \in 0..n : d[j] = P * f[j] + 1 * s[j]
    BY <1>4
  <2>2. QED
    BY <1>7, <2>1, SumLinear
<1>10. Sum0(f, n) \in Int /\ Sum0(g, n) \in Int
  BY <1>7, SumIs
<1>11. Sum0(d, n) = P * Sum0(f, n) + Sum0(g, n)
  BY <1>8, <1>9, <1>10
<1>12. QED
  BY <1>7, <1>11 DEF f, g, d

LEMMA PowersAre ==
  ASSUME NEW D \in Int
  PROVE  /\ EvenPowers(D) \in [Nat -> Int] /\ OddPowers(D) \in [Nat -> Int]
         /\ EvenPowers(D)[0] = 1 /\ OddPowers(D)[0] = 0
         /\ \A j \in Nat : After(EvenPowers(D))[j] = D * OddPowers(D)[j]
         /\ \A j \in Nat : After(OddPowers(D))[j] = EvenPowers(D)[j]
<1> DEFINE E == EvenPowers(D)
           O == OddPowers(D)
<1>1. ASSUME NEW j \in Nat
      PROVE  /\ j \div 2 \in Nat /\ Power(D, j \div 2) \in Int
             /\ E[j] = IF j % 2 = 0 THEN Power(D, j \div 2) ELSE 0
             /\ O[j] = IF j % 2 = 1 THEN Power(D, j \div 2) ELSE 0
  <2>1. j \div 2 \in Nat
    OBVIOUS
  <2>2. QED
    BY <2>1, PowerIs DEF EvenPowers, OddPowers
<1>2. E \in [Nat -> Int] /\ O \in [Nat -> Int]
  <2>1. \A j \in Nat : Power(D, j \div 2) \in Int
    BY <1>1
  <2>2. QED
    BY <2>1 DEF EvenPowers, OddPowers
<1>3. E[0] = 1 /\ O[0] = 0
  <2>1. 0 \div 2 = 0 /\ 0 % 2 = 0
    OBVIOUS
  <2>2. Power(D, 0) = 1
    BY PowerIs
  <2>3. QED
    BY <1>1, <2>1, <2>2
<1>4. ASSUME NEW j \in Nat PROVE E[j + 1] = D * O[j] /\ O[j + 1] = E[j]
  <2>1. CASE j % 2 = 0
    <3>1. (j + 1) % 2 = 1 /\ (j + 1) \div 2 = j \div 2 /\ j + 1 \in Nat
      BY <2>1
    <3>2. E[j + 1] = 0 /\ O[j] = 0 /\ O[j + 1] = Power(D, j \div 2) /\ E[j] = Power(D, j \div 2)
      BY <1>1, <2>1, <3>1
    <3>3. QED
      BY <3>2
  <2>2. CASE j % 2 = 1
    <3>1. (j + 1) % 2 = 0 /\ (j + 1) \div 2 = (j \div 2) + 1 /\ j + 1 \in Nat
      BY <2>2
    <3>2. E[j + 1] = Power(D, (j \div 2) + 1) /\ O[j] = Power(D, j \div 2) /\ O[j + 1] = 0 /\ E[j] = 0
      BY <1>1, <2>2, <3>1
    <3>3. Power(D, (j \div 2) + 1) = Power(D, j \div 2) * D /\ Power(D, j \div 2) \in Int
      BY <1>1, PowerIs
    <3>4. QED
      BY <3>2, <3>3
  <2>3. QED
    BY <2>1, <2>2
<1>5. \A j \in Nat : After(E)[j] = E[j + 1] /\ After(O)[j] = O[j + 1]
  BY DEF After
<1> HIDE DEF E, O
<1>6. \A j \in Nat : After(E)[j] = D * O[j]
  BY <1>4, <1>5
<1>7. \A j \in Nat : After(O)[j] = E[j]
  BY <1>4, <1>5
<1>8. QED
  BY <1>2, <1>3, <1>6, <1>7 DEF E, O

LEMMA Expansion ==
  ASSUME NEW P \in Int, NEW D \in Int, D = P * P - 4, NEW n \in Nat, n > 0, NEW u, Pascal(P, n, u), NEW k \in 0..n
  PROVE  /\ LucA(P, k) = Sum0(Weigh(u[k], EvenPowers(D)), n)
         /\ LucB(P, k) = Sum0(Weigh(u[k], OddPowers(D)), n)
<1> DEFINE E == EvenPowers(D)
           O == OddPowers(D)
           Good(l) == LucA(P, l) = Sum0(Weigh(u[l], E), n) /\ LucB(P, l) = Sum0(Weigh(u[l], O), n)
           S == {l \in Nat : Good(l)}
<1>0. /\ E \in [Nat -> Int] /\ O \in [Nat -> Int]
      /\ E[0] = 1 /\ O[0] = 0
      /\ \A j \in Nat : After(E)[j] = D * O[j]
      /\ \A j \in Nat : After(O)[j] = E[j]
  <2>1. E \in [Nat -> Int] /\ O \in [Nat -> Int] /\ E[0] = 1 /\ O[0] = 0
    BY PowersAre
  <2>2. \A j \in Nat : After(E)[j] = D * O[j]
    BY PowersAre
  <2>3. \A j \in Nat : After(O)[j] = E[j]
    BY PowersAre
  <2>4. QED
    BY <2>1, <2>2, <2>3
<1> HIDE DEF E, O
<1>1. 0 \in S
  <2>1. u[0][0] = 1
    BY PascalIs
  <2>2. \A j \in Nat : j > 0 => u[0][j] = 0
    BY PascalIs
  <2>3. ASSUME NEW e \in [Nat -> Int] PROVE Sum0(Weigh(u[0], e), n) = e[0]
    <3> DEFINE f == Weigh(u[0], e)
    <3>1. f[0] = e[0] /\ \A j \in Nat : j > 0 => f[j] = 0
      <4>1. \A j \in Nat : f[j] = u[0][j] * e[j] /\ e[j] \in Int
        BY DEF Weigh
      <4>2. QED
        BY <2>1, <2>2, <4>1
    <3> HIDE DEF f
    <3>2. \A j \in 0..n : f[j] \in Int
      <4>1. e[0] \in Int
        OBVIOUS
      <4>2. \A j \in 0..n : j = 0 \/ (j \in Nat /\ j > 0)
        OBVIOUS
      <4>3. QED
        BY <3>1, <4>1, <4>2
    <3>3. Terms(f, n)
      BY <3>2 DEF Terms
    <3>4. \A j \in 1..(n - 1) : Multiple(0, f[j])
      <4>1. \A j \in 1..(n - 1) : f[j] = 0 * 0
        BY <3>1
      <4>2. QED
        BY <4>1 DEF Multiple
    <3>5. Same(Sum0(f, n), f[0] + f[n], 0)
      BY <3>3, <3>4, SumEnds
    <3>6. f[n] = 0 /\ f[0] \in Int /\ Sum0(f, n) \in Int
      BY <3>1, <3>3, SumIs
    <3>7. PICK i \in Int : Sum0(f, n) - (f[0] + f[n]) = i * 0
      BY <3>5 DEF Same, Multiple
    <3>8. QED
      BY <3>1, <3>6, <3>7 DEF f
  <2>4. LucA(P, 0) = 1 /\ LucB(P, 0) = 0
    BY LucIs
  <2>5. QED
    BY <1>0, <2>3, <2>4
<1>2. ASSUME NEW l \in 0..(n - 1), l \in S PROVE l + 1 \in S
  <2>0. l \in Nat /\ l + 1 \in Nat /\ Good(l)
    BY <1>2
  <2>1. /\ LucA(P, l + 1) = P * LucA(P, l) + D * LucB(P, l)
        /\ LucB(P, l + 1) = LucA(P, l) + P * LucB(P, l)
        /\ LucA(P, l) \in Int /\ LucB(P, l) \in Int
    BY <2>0, LucIs
  <2> DEFINE f == Weigh(u[l], E)
             g == Weigh(u[l], O)
             f1 == Weigh(u[l], After(E))
             g1 == Weigh(u[l], After(O))
  <2>2. /\ Terms(f, n) /\ Terms(f1, n) /\ Sum0(Weigh(u[l + 1], E), n) = P * Sum0(f, n) + Sum0(f1, n)
        /\ Terms(g, n) /\ Terms(g1, n) /\ Sum0(Weigh(u[l + 1], O), n) = P * Sum0(g, n) + Sum0(g1, n)
    BY <1>0, WeighNext
  <2>3. ASSUME NEW j \in Nat PROVE f1[j] = D * g[j] + 0 * g[j] /\ g1[j] = 1 * f[j] + 0 * f[j]
    <3>1. l \in 0..n
      OBVIOUS
    <3>2. u[l][j] \in Int
      BY <3>1, PascalIs
    <3>3. E[j] \in Int /\ O[j] \in Int
      BY <1>0
    <3>4. f1[j] = u[l][j] * (D * O[j]) /\ g[j] = u[l][j] * O[j] /\ g1[j] = u[l][j] * E[j] /\ f[j] = u[l][j] * E[j]
      BY <1>0 DEF Weigh
    <3> DEFINE x0 == u[l][j]
               y0 == E[j]
               z0 == O[j]
    <3>5. x0 \in Int /\ y0 \in Int /\ z0 \in Int
      BY <3>2, <3>3
    <3> HIDE DEF x0, y0, z0
    <3>6. x0 * (D * z0) = D * (x0 * z0) + 0 * (x0 * z0) /\ x0 * y0 = 1 * (x0 * y0) + 0 * (x0 * y0)
      BY <3>5
    <3>7. QED
      BY <3>4, <3>6 DEF x0, y0, z0
  <2> HIDE DEF f, g, f1, g1
  <2>4. Sum0(f1, n) = D * Sum0(g, n) + 0 * Sum0(g, n)
    <3>1. \A j \in 0..n : f1[j] = D * g[j] + 0 * g[j]
      BY <2>3
    <3>2. QED
      BY <2>2, <3>1, SumLinear
  <2>5. Sum0(g1, n) = 1 * Sum0(f, n) + 0 * Sum0(f, n)
    <3>1. \A j \in 0..n : g1[j] = 1 * f[j] + 0 * f[j]
      BY <2>3
    <3>2. QED
      BY <2>2, <3>1, SumLinear
  <2>6. LucA(P, l) = Sum0(f, n) /\ LucB(P, l) = Sum0(g, n)
    BY <2>0 DEF f, g
  <2>7. LucA(P, l + 1) = Sum0(Weigh(u[l + 1], E), n)
    BY <2>1, <2>2, <2>4, <2>6
  <2>8. LucB(P, l + 1) = Sum0(Weigh(u[l + 1], O), n)
    BY <2>1, <2>2, <2>5, <2>6
  <2>9. QED
    BY <2>0, <2>7, <2>8
<1> HIDE DEF Good
<1>3. \A l \in 0..n : l \in S
  <2> HIDE DEF S
  <2>1. QED
    BY <1>1, <1>2, UpTo
<1>4. Good(k)
  BY <1>3
<1>5. QED
  BY <1>4 DEF Good, E, O

(* At a prime n: A is P and B is D^((n - 1) / 2) modulo n.                 *)
LEMMA AtPrime ==
  ASSUME NEW P \in Int, NEW D \in Int, D = P * P - 4, NEW h \in Nat, NEW n \in Nat, n = 2 * h + 1, IsPrimeNumber(n)
  PROVE  Same(LucA(P, n), P, n) /\ Same(LucB(P, n), Power(D, h), n)
<1>1. n > 0 /\ n \in 0..n /\ n % 2 = 1 /\ n \div 2 = h
  OBVIOUS
<1>2. PICK u : Pascal(P, n, u)
  BY PascalExists
<1> DEFINE E == EvenPowers(D)
           O == OddPowers(D)
           f == Weigh(u[n], E)
           g == Weigh(u[n], O)
<1>3. LucA(P, n) = Sum0(f, n) /\ LucB(P, n) = Sum0(g, n)
  BY <1>1, <1>2, Expansion
<1>4. E \in [Nat -> Int] /\ O \in [Nat -> Int] /\ E[0] = 1 /\ O[0] = 0
  BY PowersAre
<1>5. E[n] = 0 /\ O[n] = Power(D, h)
  BY <1>1 DEF EvenPowers, OddPowers
<1>6. \A j \in 0..n : u[n][j] \in Int
  <2>1. \A j \in Nat : u[n][j] \in Int
    BY <1>1, <1>2, PascalIs
  <2>2. QED
    BY <2>1
<1>7. u[n][0] = Power(P, n) /\ u[n][n] = 1
  BY <1>1, <1>2, PascalEdges
<1>8. \A j \in 1..(n - 1) : Multiple(n, u[n][j])
  BY <1>2, PascalPrime
<1>9. ASSUME NEW e \in [Nat -> Int]
      PROVE  Same(Sum0(Weigh(u[n], e), n), Power(P, n) * e[0] + e[n], n) /\ Sum0(Weigh(u[n], e), n) \in Int
  <2> DEFINE d == Weigh(u[n], e)
  <2>1. \A j \in 0..n : d[j] = u[n][j] * e[j] /\ e[j] \in Int
    BY DEF Weigh
  <2> HIDE DEF d
  <2>2. \A j \in 0..n : d[j] \in Int
    BY <1>6, <2>1
  <2>3. Terms(d, n)
    BY <2>2 DEF Terms
  <2>4. ASSUME NEW j \in 1..(n - 1) PROVE Multiple(n, d[j])
    <3>1. j \in 0..n /\ n \in Int
      OBVIOUS
    <3>2. u[n][j] \in Int /\ e[j] \in Int /\ d[j] = u[n][j] * e[j] /\ Multiple(n, u[n][j])
      BY <1>6, <1>8, <2>1, <3>1
    <3>3. QED
      BY <3>1, <3>2, MultipleTimes
  <2>5. Same(Sum0(d, n), d[0] + d[n], n)
    <3>1. n \in Int /\ \A j \in 1..(n - 1) : Multiple(n, d[j])
      BY <2>4
    <3>2. QED
      BY <1>1, <2>3, <3>1, SumEnds
  <2>6. d[0] = Power(P, n) * e[0] /\ d[n] = e[n]
    BY <1>1, <1>7, <2>1
  <2>7. QED
    BY <2>3, <2>5, <2>6, SumIs DEF d
<1>10. Power(P, n) \in Int /\ Power(D, h) \in Int
  BY PowerIs
<1>11. Same(LucA(P, n), Power(P, n), n) /\ LucA(P, n) \in Int
  <2>1. Power(P, n) * 1 + 0 = Power(P, n)
    BY <1>10
  <2>2. QED
    BY <1>3, <1>4, <1>5, <1>9, <2>1
<1>12. Same(LucB(P, n), Power(D, h), n)
  <2>1. Power(P, n) * 0 + Power(D, h) = Power(D, h)
    BY <1>10
  <2>2. QED
    BY <1>3, <1>4, <1>5, <1>9, <2>1
<1>13. Same(Power(P, n), P, n)
  <2>1. (n - 1) * 1 + 1 = n
    OBVIOUS
  <2>2. QED
    BY <2>1, FermatTurns
<1>14. QED
  BY <1>10, <1>11, <1>12, <1>13, SameChain

LEMMA LucNorm ==
  ASSUME NEW P \in Int, NEW D \in Int, D = P * P - 4, NEW k \in Nat
  PROVE  LucA(P, k) * LucA(P, k) - D * (LucB(P, k) * LucB(P, k)) = Power(4, k)
<1> DEFINE S == {l \in Nat : LucA(P, l) * LucA(P, l) - D * (LucB(P, l) * LucB(P, l)) = Power(4, l)}
<1>1. 0 \in S
  <2>1. LucA(P, 0) = 1 /\ LucB(P, 0) = 0 /\ Power(4, 0) = 1
    BY LucIs, PowerIs
  <2>2. 1 * 1 - D * (0 * 0) = 1
    OBVIOUS
  <2>3. QED
    BY <2>1, <2>2
<1>2. ASSUME NEW l \in 0..(k - 1), l \in S PROVE l + 1 \in S
  <2> DEFINE a == LucA(P, l)
             b == LucB(P, l)
             a1 == LucA(P, l + 1)
             b1 == LucB(P, l + 1)
  <2>1. a \in Int /\ b \in Int /\ a1 = P * a + D * b /\ b1 = a + P * b
    BY LucIs
  <2>2. a * a - D * (b * b) = Power(4, l)
    BY <1>2
  <2>3. Power(4, l + 1) = Power(4, l) * 4 /\ Power(4, l) \in Int
    BY PowerIs
  <2> HIDE DEF a, b, a1, b1
  <2>4. (P * a + D * b) * (P * a + D * b) - D * ((a + P * b) * (a + P * b)) = (P * P - D) * (a * a - D * (b * b))
    BY <2>1
  <2>5. P * P - D = 4
    OBVIOUS
  <2>6. a1 * a1 - D * (b1 * b1) = Power(4, l + 1)
    BY <2>1, <2>2, <2>3, <2>4, <2>5
  <2>7. QED
    BY <2>6 DEF a1, b1
<1>3. \A l \in 0..k : l \in S
  <2> HIDE DEF S
  <2>1. QED
    BY <1>1, <1>2, UpTo
<1>4. QED
  BY <1>3

LEMMA LucSum ==
  ASSUME NEW P \in Int, NEW D \in Int, D = P * P - 4, NEW i \in Nat, NEW j \in Nat
  PROVE  /\ LucA(P, i + j) = LucA(P, i) * LucA(P, j) + D * (LucB(P, i) * LucB(P, j))
         /\ LucB(P, i + j) = LucA(P, i) * LucB(P, j) + LucB(P, i) * LucA(P, j)
<1> DEFINE Good(l) == /\ LucA(P, i + l) = LucA(P, i) * LucA(P, l) + D * (LucB(P, i) * LucB(P, l))
                      /\ LucB(P, i + l) = LucA(P, i) * LucB(P, l) + LucB(P, i) * LucA(P, l)
           S == {l \in Nat : Good(l)}
           x == LucA(P, i)
           z == LucB(P, i)
<1>0. x \in Int /\ z \in Int
  BY LucIs
<1>1. 0 \in S
  <2>1. LucA(P, 0) = 1 /\ LucB(P, 0) = 0 /\ i + 0 = i
    BY LucIs
  <2> HIDE DEF x, z
  <2>2. x = x * 1 + D * (z * 0) /\ z = x * 0 + z * 1
    BY <1>0
  <2>3. QED
    BY <2>1, <2>2 DEF x, z
<1>2. ASSUME NEW l \in 0..(j - 1), l \in S PROVE l + 1 \in S
  <2> DEFINE a == LucA(P, l)
             b == LucB(P, l)
             y0 == LucA(P, i + l)
             y1 == LucB(P, i + l)
  <2>0. l \in Nat /\ l + 1 \in Nat /\ i + l \in Nat /\ i + (l + 1) = (i + l) + 1 /\ Good(l)
    BY <1>2
  <2>1. a \in Int /\ b \in Int /\ LucA(P, l + 1) = P * a + D * b /\ LucB(P, l + 1) = a + P * b
    BY <2>0, LucIs
  <2>2. y0 \in Int /\ y1 \in Int /\ LucA(P, (i + l) + 1) = P * y0 + D * y1 /\ LucB(P, (i + l) + 1) = y0 + P * y1
    BY <2>0, LucIs
  <2>3. y0 = x * a + D * (z * b) /\ y1 = x * b + z * a
    BY <2>0
  <2> HIDE DEF a, b, y0, y1, x, z
  <2>4. P * (x * a + D * (z * b)) + D * (x * b + z * a) = x * (P * a + D * b) + D * (z * (a + P * b))
    BY <1>0, <2>1
  <2>5. (x * a + D * (z * b)) + P * (x * b + z * a) = x * (a + P * b) + z * (P * a + D * b)
    BY <1>0, <2>1
  <2>6. Good(l + 1)
    BY <2>0, <2>1, <2>2, <2>3, <2>4, <2>5 DEF x, z
  <2>7. QED
    BY <2>0, <2>6
<1> HIDE DEF Good
<1>3. \A l \in 0..j : l \in S
  <2> HIDE DEF S
  <2>1. QED
    BY <1>1, <1>2, UpTo
<1>4. Good(j)
  BY <1>3
<1>5. QED
  BY <1>4 DEF Good

(* v is V(k) modulo n: V(k) is twice A(k) over 2^k.                        *)
Lucas(P, n, k, v) == Same(Power(2, k) * v, 2 * LucA(P, k), n)

LEMMA LucasDoubles ==
  ASSUME NEW n \in Nat, NEW P \in Int, NEW k \in Nat, NEW v \in Int, Lucas(P, n, k, v)
  PROVE  Lucas(P, n, 2 * k, v * v - 2)
<1> DEFINE D == P * P - 4
           a == LucA(P, k)
           b == LucB(P, k)
           t2k == Power(2, k)
           f4 == Power(4, k)
<1>1. D \in Int /\ a \in Int /\ b \in Int /\ t2k \in Int /\ f4 \in Int /\ 2 * k \in Nat /\ k + k = 2 * k
  BY LucIs, PowerIs
<1>2. LucA(P, 2 * k) = a * a + D * (b * b)
  BY <1>1, LucSum
<1>3. a * a - D * (b * b) = f4
  BY <1>1, LucNorm
<1>4. Power(2, 2 * k) = t2k * t2k
  BY <1>1, PowerSum
<1>5. f4 = t2k * t2k
  <2>1. 2 * 2 = 4
    OBVIOUS
  <2>2. QED
    BY <2>1, PowerOfProduct
<1>6. Same(t2k * v, 2 * a, n)
  BY DEF Lucas
<1> DEFINE y0 == D * (b * b)
<1>7. y0 \in Int
  BY <1>1
<1> HIDE DEF D, a, b, t2k, f4, y0
<1>8. Same((t2k * v) * (t2k * v), (2 * a) * (2 * a), n)
  <2>1. t2k * v \in Int /\ 2 * a \in Int
    BY <1>1
  <2>2. QED
    BY <1>6, <2>1, SameTimes
<1>9. (t2k * v) * (t2k * v) - (2 * a) * (2 * a) = (t2k * t2k) * (v * v - 2) - 2 * (a * a + y0)
  <2>1. (t2k * v) * (t2k * v) = (t2k * t2k) * (v * v - 2) + 2 * (t2k * t2k)
    BY <1>1
  <2>2. a * a - y0 = t2k * t2k
    BY <1>3, <1>5 DEF y0
  <2> DEFINE q0 == t2k * t2k
             q1 == a * a
             q2 == q0 * (v * v - 2)
  <2>3. q0 \in Int /\ q1 \in Int /\ q2 \in Int
    BY <1>1
  <2>4. (2 * a) * (2 * a) = 4 * q1
    BY <1>1
  <2> HIDE DEF q0, q1, q2
  <2>5. ASSUME q1 - y0 = q0 PROVE (q2 + 2 * q0) - 4 * q1 = q2 - 2 * (q1 + y0)
    BY <1>7, <2>3, <2>5
  <2>6. (q2 + 2 * q0) - 4 * q1 = q2 - 2 * (q1 + y0)
    BY <2>2, <2>5 DEF q0, q1
  <2>7. QED
    BY <2>1, <2>4, <2>6 DEF q0, q1, q2
<1>10. QED
  BY <1>2, <1>4, <1>8, <1>9 DEF Lucas, Same, y0

LEMMA LucasBetween ==
  ASSUME NEW n \in Nat, NEW P \in Int, NEW k \in Nat, NEW v \in Int, NEW w \in Int,
         Lucas(P, n, k, v), Lucas(P, n, k + 1, w)
  PROVE  Lucas(P, n, 2 * k + 1, v * w - P)
<1> DEFINE D == P * P - 4
           a == LucA(P, k)
           b == LucB(P, k)
           a1 == LucA(P, k + 1)
           b1 == LucB(P, k + 1)
           t2k == Power(2, k)
           f4 == Power(4, k)
<1>1. D \in Int /\ a \in Int /\ b \in Int /\ t2k \in Int /\ f4 \in Int /\ 2 * k \in Nat /\ k + k = 2 * k
      /\ k + 1 \in Nat /\ k + (k + 1) = 2 * k + 1
  <2>1. D \in Int /\ 2 * k \in Nat /\ k + k = 2 * k /\ k + 1 \in Nat /\ k + (k + 1) = 2 * k + 1
    OBVIOUS
  <2>2. a \in Int /\ b \in Int
    BY LucIs
  <2>3. t2k \in Int /\ f4 \in Int
    BY PowerIs
  <2>4. QED
    BY <2>1, <2>2, <2>3
<1>2. a1 = P * a + D * b /\ b1 = a + P * b
  BY LucIs
<1>3. LucA(P, 2 * k + 1) = a * a1 + D * (b * b1)
  BY <1>1, LucSum
<1>4. a * a - D * (b * b) = f4
  BY <1>1, LucNorm
<1>5. Power(2, k + 1) = t2k * 2 /\ Power(2, 2 * k + 1) = t2k * (t2k * 2)
  <2>1. Power(2, k + (k + 1)) = Power(2, k) * Power(2, k + 1)
    BY <1>1, PowerSum
  <2>2. Power(2, k + 1) = t2k * 2
    BY PowerIs
  <2>3. QED
    BY <1>1, <2>1, <2>2
<1>6. f4 = t2k * t2k
  <2>1. 2 * 2 = 4
    OBVIOUS
  <2>2. QED
    BY <2>1, PowerOfProduct
<1>7. Same(t2k * v, 2 * a, n) /\ Same((t2k * 2) * w, 2 * a1, n)
  BY <1>5 DEF Lucas
<1> HIDE DEF D, a, b, a1, b1, t2k, f4
<1>8. a1 \in Int /\ b1 \in Int
  BY <1>1, <1>2
<1>9. Same((t2k * v) * ((t2k * 2) * w), (2 * a) * (2 * a1), n)
  <2>1. t2k * v \in Int /\ 2 * a \in Int /\ (t2k * 2) * w \in Int /\ 2 * a1 \in Int
    BY <1>1, <1>8
  <2>2. QED
    BY <1>7, <2>1, SameTimes
<1>10. a * a1 - D * (b * b1) = P * f4
  <2>1. a * (P * a + D * b) - D * (b * (a + P * b)) = P * (a * a - D * (b * b))
    BY <1>1
  <2>2. QED
    BY <1>2, <1>4, <2>1
<1>11. (t2k * v) * ((t2k * 2) * w) - (2 * a) * (2 * a1)
         = (t2k * (t2k * 2)) * (v * w - P) - 2 * (a * a1 + D * (b * b1))
  <2> DEFINE q1 == a * a1
             q0 == D * (b * b1)
             q2 == (t2k * (t2k * 2)) * (v * w - P)
             q3 == P * f4
  <2>1. (t2k * v) * ((t2k * 2) * w) = q2 + 2 * q3
    <3>1. (t2k * v) * ((t2k * 2) * w) = (t2k * (t2k * 2)) * (v * w - P) + 2 * (P * (t2k * t2k))
      BY <1>1
    <3>2. QED
      BY <1>6, <3>1
  <2>2. q0 \in Int /\ q1 \in Int /\ q2 \in Int /\ q3 \in Int
    BY <1>1, <1>8
  <2>3. (2 * a) * (2 * a1) = 4 * q1
    BY <1>1, <1>8
  <2>4. q1 - q0 = q3
    BY <1>10
  <2> HIDE DEF q0, q1, q2, q3
  <2>5. (q2 + 2 * q3) - 4 * q1 = q2 - 2 * (q1 + q0)
    BY <2>2, <2>4
  <2>6. QED
    BY <2>1, <2>3, <2>5 DEF q0, q1, q2
<1>12. QED
  BY <1>3, <1>5, <1>9, <1>11 DEF Lucas, Same

LEMMA LucasStarts ==
  ASSUME NEW n \in Nat, NEW P \in Int
  PROVE  Lucas(P, n, 0, 2) /\ Lucas(P, n, 1, P)
<1>1. Power(2, 0) = 1 /\ Power(2, 1) = 2
  <2>1. Power(2, 0) = 1 /\ Power(2, 0 + 1) = Power(2, 0) * 2 /\ 0 + 1 = 1
    BY PowerIs
  <2>2. QED
    BY <2>1
<1>2. LucA(P, 0) = 1 /\ LucA(P, 1) = P
  <2>1. LucA(P, 0) = 1 /\ LucB(P, 0) = 0 /\ LucA(P, 0 + 1) = P * LucA(P, 0) + (P * P - 4) * LucB(P, 0)
    BY LucIs
  <2>2. 0 + 1 = 1 /\ P * 1 + (P * P - 4) * 0 = P
    OBVIOUS
  <2>3. QED
    BY <2>1, <2>2
<1>3. Same(1 * 2, 2 * 1, n) /\ Same(2 * P, 2 * P, n)
  <2>1. 1 * 2 = 2 /\ 2 * 1 = 2 /\ 2 \in Int /\ 2 * P \in Int /\ n \in Int
    OBVIOUS
  <2>2. QED
    BY <2>1, SameItself
<1>4. QED
  BY <1>1, <1>2, <1>3 DEF Lucas

LEMMA LucasSame ==
  ASSUME NEW n \in Nat, NEW P \in Int, NEW k \in Nat, NEW v \in Int, NEW w \in Int,
         Lucas(P, n, k, v), Same(w, v, n)
  PROVE  Lucas(P, n, k, w)
<1> DEFINE x == Power(2, k)
           z == 2 * LucA(P, k)
<1>1. x \in Int /\ z \in Int /\ Same(x, x, n) /\ Same(x * v, z, n)
  <2>1. x \in Int
    BY PowerIs
  <2>2. LucA(P, k) \in Int
    BY LucIs
  <2>3. Same(x, x, n)
    BY <2>1, SameItself
  <2>4. QED
    BY <2>1, <2>2, <2>3 DEF Lucas
<1> HIDE DEF x, z
<1>2. Same(x * w, x * v, n)
  BY <1>1, SameTimes
<1>3. x * w \in Int /\ x * v \in Int
  BY <1>1
<1>4. Same(x * w, z, n)
  BY <1>1, <1>2, <1>3, SameChain
<1>5. QED
  BY <1>4 DEF Lucas, x, z

LEMMA TwoNoMultiple ==
  ASSUME NEW h \in Nat, NEW n \in Nat, n = 2 * h + 1, IsPrimeNumber(n), NEW k \in Nat
  PROVE  ~Multiple(n, Power(2, k))
<1> DEFINE S == {l \in Nat : ~Multiple(n, Power(2, l))}
<1>1. n >= 2 /\ n > 2 /\ n > 0
  BY DEF IsPrimeNumber
<1>2. ~Multiple(n, 1) /\ ~Multiple(n, 2)
  <2>1. 1 % n = 1 /\ 2 % n = 2
    BY <1>1
  <2>2. QED
    BY <1>1, <2>1, MultipleIs
<1>3. 0 \in S
  <2>1. Power(2, 0) = 1
    BY PowerIs
  <2>2. QED
    BY <1>2, <2>1
<1>4. ASSUME NEW l \in 0..(k - 1), l \in S PROVE l + 1 \in S
  <2>1. Power(2, l + 1) = Power(2, l) * 2 /\ Power(2, l) \in Int
    <3>1. l \in Nat /\ 2 \in Int
      OBVIOUS
    <3>2. QED
      BY <3>1, PowerIs
  <2>2. ~Multiple(n, Power(2, l) * 2)
    BY <1>2, <1>4, <2>1, PrimeDivides
  <2>3. QED
    BY <2>1, <2>2
<1>5. \A l \in 0..k : l \in S
  <2> HIDE DEF S
  <2>1. QED
    BY <1>3, <1>4, UpTo
<1>6. QED
  BY <1>5

(* The square roots of 4 modulo a prime.                                   *)
LEMMA RootsOfSquare ==
  ASSUME NEW n \in Nat, IsPrimeNumber(n), NEW v \in Int, NEW x \in Int, Same(v * v, x * x, n)
  PROVE  Same(v, x, n) \/ Same(v, -x, n)
<1>1. (v - x) * (v + x) = v * v - x * x /\ v - (-x) = v + x
  OBVIOUS
<1>2. Multiple(n, (v - x) * (v + x))
  BY <1>1 DEF Same
<1>3. Multiple(n, v - x) \/ Multiple(n, v + x)
  BY <1>2, PrimeDivides
<1>4. QED
  BY <1>1, <1>3 DEF Same

(* V(n + 1) is 2 where D is no square modulo the prime n.                  *)
LEMMA LucasRank ==
  ASSUME NEW P \in Int, NEW D \in Int, D = P * P - 4, NEW h \in Nat, NEW n \in Nat, n = 2 * h + 1, IsPrimeNumber(n),
         ~Multiple(n, D), Gauss(D, h) = -1, NEW v \in Int, Lucas(P, n, n + 1, v)
  PROVE  Same(v, 2, n)
<1>0. n > 0 /\ n - 1 \in Nat /\ n + 1 \in Nat /\ n \in Int /\ n > 2
  BY DEF IsPrimeNumber
<1> DEFINE a == LucA(P, n)
           b == LucB(P, n)
           a1 == LucA(P, n + 1)
           x == Power(2, n + 1)
<1>1. a \in Int /\ b \in Int /\ a1 = P * a + D * b /\ a1 \in Int
  <2>1. a \in Int /\ b \in Int /\ a1 = P * a + D * b
    BY LucIs
  <2>2. QED
    BY <2>1
<1>2. Same(a, P, n) /\ Same(b, Power(D, h), n)
  BY AtPrime
<1>3. Same(b, -1, n)
  <2>1. Same(Power(D, h), -1, n) /\ Power(D, h) \in Int
    BY GaussPower, PowerIs
  <2>2. QED
    BY <1>0, <1>1, <1>2, <2>1, SameChain
<1>4. x \in Int /\ Same(x, 4, n)
  <2>1. Power(2, n - 1) \in Int /\ Power(2, 2) = 4
    <3>1. Power(2, n - 1) \in Int
      BY <1>0, PowerIs
    <3>2. Power(2, 0) = 1 /\ Power(2, 0 + 1) = Power(2, 0) * 2 /\ Power(2, 1 + 1) = Power(2, 1) * 2
      BY PowerIs
    <3>3. QED
      BY <3>1, <3>2
  <2>2. x = Power(2, n - 1) * 4
    <3>1. (n - 1) + 2 = n + 1
      OBVIOUS
    <3>2. Power(2, (n - 1) + 2) = Power(2, n - 1) * Power(2, 2)
      BY <1>0, PowerSum
    <3>3. QED
      BY <2>1, <3>1, <3>2
  <2>3. Same(Power(2, n - 1), 1, n)
    <3>1. 2 % n = 2
      BY <1>0
    <3>2. ~Multiple(n, 2)
      BY <1>0, <3>1, MultipleIs
    <3>3. QED
      BY <3>2, Fermat
  <2>4. Same(4, 4, n)
    BY <1>0, SameItself
  <2>5. Same(Power(2, n - 1) * 4, 1 * 4, n)
    BY <1>0, <2>1, <2>3, <2>4, SameTimes
  <2>6. QED
    BY <2>1, <2>2, <2>5
<1>5. Same(x * v, 2 * a1, n)
  BY DEF Lucas
<1> HIDE DEF a, b, a1, x
<1>6. Same(a1, 4, n)
  <2>1. Multiple(n, a - P) /\ Multiple(n, b - (-1))
    BY <1>2, <1>3 DEF Same
  <2>2. b - (-1) = b + 1 /\ a - P \in Int /\ b + 1 \in Int
    BY <1>1
  <2>3. Multiple(n, P * (a - P)) /\ Multiple(n, D * (b + 1))
    BY <1>0, <2>1, <2>2, MultipleTimes
  <2>4. Multiple(n, P * (a - P) + D * (b + 1))
    <3>1. P * (a - P) \in Int /\ D * (b + 1) \in Int
      BY <2>2
    <3>2. QED
      BY <1>0, <2>3, <3>1, MultipleSum
  <2>5. P * (a - P) + D * (b + 1) = a1 - 4
    <3>1. P * (a - P) + D * (b + 1) = (P * a + D * b) - (P * P - D)
      BY <1>1
    <3>2. P * P - D = 4
      OBVIOUS
    <3>3. QED
      BY <1>1, <3>1, <3>2
  <2>6. QED
    BY <2>4, <2>5 DEF Same
<1>7. Multiple(n, 4 * (v - 2))
  <2>1. Multiple(n, x * v - 2 * a1) /\ Multiple(n, x - 4) /\ Multiple(n, a1 - 4)
    BY <1>4, <1>5, <1>6 DEF Same
  <2>2. Multiple(n, (x - 4) * v) /\ Multiple(n, 2 * (a1 - 4))
    <3>1. x - 4 \in Int /\ a1 - 4 \in Int
      BY <1>1, <1>4
    <3>2. QED
      BY <1>0, <2>1, <3>1, MultipleTimes
  <2> DEFINE q0 == x * v - 2 * a1
             q1 == (x - 4) * v
             q2 == 2 * (a1 - 4)
  <2>3. q0 \in Int /\ q1 \in Int /\ q2 \in Int
    BY <1>1, <1>4
  <2>4. (q0 - q1) + q2 = 4 * (v - 2)
    BY <1>1, <1>4
  <2>5. Multiple(n, q0) /\ Multiple(n, q1) /\ Multiple(n, q2)
    BY <2>1, <2>2
  <2> HIDE DEF q0, q1, q2
  <2>6. Multiple(n, q0 - q1) /\ q0 - q1 \in Int
    BY <1>0, <2>3, <2>5, MultipleSum
  <2>7. Multiple(n, (q0 - q1) + q2)
    BY <1>0, <2>3, <2>5, <2>6, MultipleSum
  <2>8. QED
    BY <2>4, <2>7
<1>8. ~Multiple(n, 4)
  <2>1. Power(2, 2) = 4
    <3>1. Power(2, 0) = 1 /\ Power(2, 0 + 1) = Power(2, 0) * 2 /\ Power(2, 1 + 1) = Power(2, 1) * 2
      BY PowerIs
    <3>2. QED
      BY <3>1
  <2>2. QED
    BY <2>1, TwoNoMultiple
<1>9. Multiple(n, v - 2)
  BY <1>7, <1>8, v - 2 \in Int, 4 \in Int, PrimeDivides
<1>10. QED
  BY <1>9 DEF Same

(* U(k) vanishes where V(k) is 2 or -2.                                    *)
LEMMA LucasVanishes ==
  ASSUME NEW P \in Int, NEW D \in Int, D = P * P - 4, NEW h \in Nat, NEW n \in Nat, n = 2 * h + 1, IsPrimeNumber(n),
         ~Multiple(n, D), NEW k \in Nat, NEW v \in Int, NEW w \in Int,
         Lucas(P, n, k, v), Lucas(P, n, k + 1, w), Same(v, 2, n) \/ Same(v, -2, n)
  PROVE  Multiple(n, v * P - 2 * w)
<1>0. n > 0 /\ k + 1 \in Nat /\ n \in Int /\ n > 2
  BY DEF IsPrimeNumber
<1> DEFINE a == LucA(P, k)
           b == LucB(P, k)
           a1 == LucA(P, k + 1)
           x == Power(2, k)
<1>1. a \in Int /\ b \in Int /\ a1 = P * a + D * b /\ a1 \in Int
  <2>1. a \in Int /\ b \in Int /\ a1 = P * a + D * b
    BY LucIs
  <2>2. QED
    BY <2>1
<1>2. x \in Int /\ Power(2, k + 1) = x * 2 /\ ~Multiple(n, Power(2, k + 1)) /\ ~Multiple(n, x)
  BY <1>0, PowerIs, TwoNoMultiple
<1>3. Same(x * v, 2 * a, n) /\ Same((x * 2) * w, 2 * a1, n)
  BY <1>2 DEF Lucas
<1>4. a * a - D * (b * b) = x * x
  <2>1. Power(4, k) = x * x
    <3>1. 2 * 2 = 4
      OBVIOUS
    <3>2. QED
      BY <3>1, PowerOfProduct
  <2>2. QED
    BY <2>1, LucNorm
<1> HIDE DEF a, b, a1, x
<1>5. Same(v * v, 4, n)
  <2>1. CASE Same(v, 2, n)
    <3>1. Same(v * v, 2 * 2, n)
      BY <1>0, <2>1, SameTimes
    <3>2. QED
      BY <3>1
  <2>2. CASE Same(v, -2, n)
    <3>1. Same(v * v, (-2) * (-2), n)
      BY <1>0, <2>2, -2 \in Int, SameTimes
    <3>2. (-2) * (-2) = 4
      OBVIOUS
    <3>3. QED
      BY <3>1, <3>2
  <2>3. QED
    BY <2>1, <2>2
<1>6. Multiple(n, 4 * (D * (b * b)))
  <2> DEFINE q0 == v * v - 4
             q1 == (x * v) * (x * v) - (2 * a) * (2 * a)
  <2>1. Multiple(n, q0)
    BY <1>5 DEF Same
  <2>2. x * v \in Int /\ 2 * a \in Int /\ x * x \in Int
    BY <1>1, <1>2
  <2>3. Multiple(n, q1)
    <3>1. Same((x * v) * (x * v), (2 * a) * (2 * a), n)
      BY <1>0, <1>3, <2>2, SameTimes
    <3>2. QED
      BY <3>1 DEF Same
  <2>4. q0 \in Int /\ q1 \in Int
    BY <2>2
  <2>5. (x * x) * q0 - q1 = 4 * (D * (b * b))
    <3> DEFINE y0 == D * (b * b)
               y1 == a * a
               y2 == x * x
    <3>1. y0 \in Int /\ y1 \in Int /\ y2 \in Int /\ y1 - y0 = y2
      BY <1>1, <1>2, <1>4
    <3>2. (x * v) * (x * v) = y2 * (v * v) /\ (2 * a) * (2 * a) = 4 * y1
      BY <1>1, <1>2
    <3> HIDE DEF y0, y1, y2
    <3>3. y2 * (v * v - 4) - (y2 * (v * v) - 4 * y1) = 4 * (y1 - y2)
      BY <3>1
    <3>4. y1 - y2 = y0
      BY <3>1
    <3>5. QED
      BY <3>2, <3>3, <3>4 DEF y0, y2
  <2> HIDE DEF q0, q1
  <2>6. Multiple(n, (x * x) * q0) /\ (x * x) * q0 \in Int
    <3>1. Multiple(n, (x * x) * q0)
      BY <1>0, <2>1, <2>2, <2>4, MultipleTimes
    <3>2. (x * x) * q0 \in Int
      BY <2>2, <2>4
    <3>3. QED
      BY <3>1, <3>2
  <2>7. Multiple(n, (x * x) * q0 - q1)
    BY <1>0, <2>3, <2>4, <2>6, MultipleSum
  <2>8. QED
    BY <2>5, <2>7
<1>7. ~Multiple(n, 4)
  <2>1. Power(2, 2) = 4
    <3>1. Power(2, 0) = 1 /\ Power(2, 0 + 1) = Power(2, 0) * 2 /\ Power(2, 1 + 1) = Power(2, 1) * 2
      BY PowerIs
    <3>2. QED
      BY <3>1
  <2>2. QED
    BY <2>1, TwoNoMultiple
<1>8. Multiple(n, b)
  <2>1. b * b \in Int /\ D * (b * b) \in Int
    BY <1>1
  <2>2. Multiple(n, D * (b * b))
    BY <1>6, <1>7, <2>1, 4 \in Int, PrimeDivides
  <2>3. Multiple(n, b * b)
    BY <2>1, <2>2, PrimeDivides
  <2>4. QED
    BY <1>1, <2>3, PrimeDivides
<1>9. Multiple(n, (x * 2) * (v * P - 2 * w))
  <2> DEFINE q0 == x * v - 2 * a
             q1 == (x * 2) * w - 2 * a1
             q2 == (2 * D) * b
             q3 == (2 * P) * q0
             q4 == 2 * q1
             q5 == 2 * q2
  <2>1. Multiple(n, q0) /\ Multiple(n, q1)
    BY <1>3 DEF Same
  <2>2. q0 \in Int /\ q1 \in Int /\ 2 * D \in Int /\ q2 \in Int /\ q3 \in Int /\ q4 \in Int /\ q5 \in Int
    BY <1>1, <1>2
  <2>3. Multiple(n, q2)
    BY <1>0, <1>1, <1>8, <2>2, MultipleTimes
  <2>4. Multiple(n, q3) /\ Multiple(n, q4) /\ Multiple(n, q5)
    <3> HIDE DEF q0, q1, q2
    <3>1. 2 * P \in Int
      OBVIOUS
    <3>2. QED
      BY <1>0, <2>1, <2>2, <2>3, <3>1, MultipleTimes
  <2>5. (q3 - q4) - q5 = (x * 2) * (v * P - 2 * w)
    <3>1. q3 = (2 * P) * (x * v - 2 * a) /\ q4 = 2 * ((x * 2) * w - 2 * a1) /\ q5 = 2 * ((2 * D) * b)
      OBVIOUS
    <3> HIDE DEF q3, q4, q5
    <3>2. (2 * P) * (x * v - 2 * a) = 2 * (P * (x * v)) - 4 * (P * a)
      BY <1>1, <1>2
    <3>3. 2 * ((x * 2) * w - 2 * a1) = 4 * (x * w) - 4 * (P * a) - 4 * (D * b)
      <4>1. (x * 2) * w = 2 * (x * w)
        BY <1>2
      <4> DEFINE z0 == P * a
                 z1 == D * b
                 z2 == x * w
                 z3 == (x * 2) * w
      <4>2. z0 \in Int /\ z1 \in Int /\ z2 \in Int /\ z3 = 2 * z2 /\ a1 = z0 + z1
        BY <1>1, <1>2, <4>1
      <4> HIDE DEF z0, z1, z2, z3
      <4>3. 2 * (z3 - 2 * a1) = 4 * z2 - 4 * z0 - 4 * z1
        BY <4>2
      <4>4. QED
        BY <4>3 DEF z0, z1, z2, z3
    <3>4. 2 * ((2 * D) * b) = 4 * (D * b)
      BY <1>1
    <3>5. (x * 2) * (v * P - 2 * w) = 2 * (P * (x * v)) - 4 * (x * w)
      BY <1>2
    <3> DEFINE z0 == P * a
               z1 == D * b
               z2 == x * w
               z4 == P * (x * v)
    <3>6. z0 \in Int /\ z1 \in Int /\ z2 \in Int /\ z4 \in Int
      BY <1>1, <1>2
    <3>7. q3 = 2 * z4 - 4 * z0 /\ q4 = 4 * z2 - 4 * z0 - 4 * z1 /\ q5 = 4 * z1
      BY <3>1, <3>2, <3>3, <3>4
    <3>8. (x * 2) * (v * P - 2 * w) = 2 * z4 - 4 * z2
      BY <3>5
    <3> HIDE DEF z0, z1, z2, z4
    <3>9. QED
      BY <3>6, <3>7, <3>8
  <2> HIDE DEF q3, q4, q5
  <2>6. Multiple(n, q3 - q4) /\ q3 - q4 \in Int
    BY <1>0, <2>2, <2>4, MultipleSum
  <2>7. Multiple(n, (q3 - q4) - q5)
    BY <1>0, <2>2, <2>4, <2>6, MultipleSum
  <2>8. QED
    BY <2>5, <2>7
<1>10. v * P - 2 * w \in Int /\ x * 2 \in Int
  BY <1>2
<1>11. QED
  BY <1>2, <1>9, <1>10, PrimeDivides

------------------------------------------------------------------------------
(* goo_is_prime refuses no prime.                                          *)

LEMMA BitLengthBelow ==
  ASSUME NEW W \in Nat, Binary(W), NEW x \in Nat, x < 2^W
  PROVE  BitLength(x) \in 0..W /\ x < 2^BitLength(x)
<1> DEFINE S == {w \in Nat : w <= W /\ x < 2^w}
<1>1. W \in S /\ S \in SUBSET Nat
  OBVIOUS
<1>2. PICK w \in S : \A i \in S : w <= i
  BY <1>1, LeastExists
<1>3. w \in 0..x
  <2>1. CASE w = 0
    BY <2>1
  <2>2. CASE w # 0
    <3>1. w - 1 \in Nat /\ w - 1 <= W /\ w - 1 \in 0..(W + 1) /\ ~(w <= w - 1)
      BY <2>2, <1>2
    <3>2. w - 1 \notin S
      BY <1>2, <3>1
    <3>3. 2^(w - 1) \in Nat /\ 2^(w - 1) >= (w - 1) + 1
      BY <3>1, TwoPower
    <3>4. ~(x < 2^(w - 1))
      BY <3>1, <3>2
    <3>5. QED
      BY <2>2, <3>1, <3>3, <3>4
  <2>3. QED
    BY <2>1, <2>2
<1>4. x < 2^w /\ w <= W
  BY <1>2
<1>5. BitLength(x) \in 0..w /\ x < 2^BitLength(x)
  BY <1>3, <1>4, BitLengthLeast
<1>6. QED
  BY <1>2, <1>4, <1>5

LEMMA ThenHalf ==
  ASSUME NEW x \in Nat, NEW m \in Nat, m > 0
  PROVE  x \div m \in Nat /\ x \div (2 * m) = (x \div m) \div 2
<1> DEFINE d == x \div m
           r == x % m
           e == d \div 2
           b == d % 2
<1>1. d \in Nat /\ r \in Nat /\ r < m /\ x = d * m + r
  BY Euclid, RemainderIs
<1>2. e \in Nat /\ b \in 0..1 /\ d = e * 2 + b
  BY <1>1
<1> HIDE DEF d, r, e, b
<1>3. x = e * (2 * m) + (b * m + r)
  BY <1>1, <1>2
<1>4. b * m + r \in 0..(2 * m - 1)
  <2>1. CASE b = 0
    BY <1>1, <2>1
  <2>2. CASE b = 1
    BY <1>1, <2>2
  <2>3. QED
    BY <1>2, <2>1, <2>2
<1>5. x \div (2 * m) = e
  <2>1. 2 * m \in Nat /\ 2 * m > 0
    OBVIOUS
  <2>2. QED
    BY <1>2, <1>3, <1>4, <2>1, QuotientIs
<1>6. QED
  BY <1>1, <1>5 DEF d, e

LEMMA EvenPrime ==
  ASSUME NEW n \in Nat, IsPrimeNumber(n), n % 2 = 0 PROVE n = 2
<1>1. n >= 2 /\ \A d \in 2..(n - 1) : n % d # 0
  BY PrimeIs
<1>2. QED
  BY <1>1

LEMMA PrimeNoSquare ==
  ASSUME NEW n \in Nat, IsPrimeNumber(n), NEW s \in 0..n PROVE s * s # n
<1>1. n >= 2 /\ \A d \in 2..(n - 1) : n % d # 0
  BY PrimeIs
<1>2. SUFFICES ASSUME s * s = n PROVE FALSE
  OBVIOUS
<1>3. CASE s \in 2..(n - 1)
  <2>1. s \in Nat /\ s > 0 /\ Multiple(s, n)
    BY <1>2, <1>3 DEF Multiple
  <2>2. n % s = 0
    BY <2>1, MultipleIs
  <2>3. QED
    BY <1>1, <1>3, <2>2
<1>4. CASE s = 0
  BY <1>1, <1>2, <1>4
<1>5. CASE s = 1
  BY <1>1, <1>2, <1>5
<1>6. CASE s = n
  <2>1. n * n >= 2 * n
    BY <1>1
  <2>2. QED
    BY <1>1, <1>2, <1>6, <2>1
<1>7. QED
  BY <1>3, <1>4, <1>5, <1>6

LEMMA JacobiAtPrime ==
  ASSUME NEW W \in Nat, Binary(W), NEW h \in Nat, NEW n \in Nat, n = 2 * h + 1, IsPrimeNumber(n), n < 2^W, NEW D \in Int
  PROVE  /\ Multiple(n, D) => Jacobi(D, n) = 0
         /\ ~Multiple(n, D) => Jacobi(D, n) = Gauss(D, h) /\ Gauss(D, h) \in {1, -1}
<1>1. n \in OddTo(2^W - 1) /\ (n - 1) \div 2 = h /\ n >= 2
  <2>1. 2^W \in Nat
    BY W \in 0..(W + 1), TwoPower
  <2>2. QED
    BY <2>1 DEF OddTo, IsPrimeNumber
<1>2. Jacobi(D, n) = Sym(D, n)
  BY <1>1, JacobiIs
<1>3. ASSUME Multiple(n, D) PROVE Sym(D, n) = 0
  <2>1. D % n = 0 /\ n % n = 0
    <3>1. D % n = 0
      BY <1>1, <1>3, MultipleIs
    <3>2. n = 1 * n
      OBVIOUS
    <3>3. Multiple(n, n)
      BY <3>2 DEF Multiple
    <3>4. n % n = 0
      BY <1>1, <3>3, MultipleIs
    <3>5. QED
      BY <3>1, <3>4
  <2>2. n \in 2..AbsVal(n)
    BY <1>1 DEF AbsVal
  <2>3. ~Coprime(D, n)
    BY <2>1, <2>2 DEF Coprime, Divides
  <2>4. QED
    BY <2>3 DEF Sym
<1>4. ASSUME ~Multiple(n, D) PROVE Sym(D, n) = Gauss(D, h) /\ Gauss(D, h) \in {1, -1}
  <2>1. Coprime(D, n)
    BY <1>4, PrimeCoprime
  <2>2. QED
    BY <1>1, <2>1, GaussIs DEF Sym
<1>5. QED
  BY <1>2, <1>3, <1>4

(* A factor of p^2 - 4 in common with a prime.                             *)
LEMMA CommonFactor ==
  ASSUME NEW n \in Nat, IsPrimeNumber(n), NEW r \in Nat, r >= 3, r <= n - 2
  PROVE  Multiple(n, r * r - 4) <=> n = r + 2
<1>1. (r - 2) * (r + 2) = r * r - 4
  OBVIOUS
<1>2. ASSUME Multiple(n, r * r - 4) PROVE n = r + 2
  <2>1. Multiple(n, r - 2) \/ Multiple(n, r + 2)
    BY <1>1, <1>2, PrimeDivides
  <2>2. n > 0 /\ (r - 2) % n = r - 2
    OBVIOUS
  <2>3. ~Multiple(n, r - 2)
    BY <2>2, MultipleIs
  <2>4. CASE n # r + 2
    <3>1. (r + 2) % n = r + 2
      BY <2>4
    <3>2. QED
      BY <2>1, <2>2, <2>3, <3>1, MultipleIs
  <2>5. QED
    BY <2>4
<1>3. ASSUME n = r + 2 PROVE Multiple(n, r * r - 4)
  <2>1. r * r - 4 = (r - 2) * n /\ r - 2 \in Int
    BY <1>1, <1>3
  <2>2. QED
    BY <2>1 DEF Multiple
<1>4. QED
  BY <1>2, <1>3

LEMMA AtThree == ~Multiple(3, 5) /\ Gauss(5, 1) = -1
<1>1. ~Multiple(3, 5)
  <2>1. 5 % 3 = 2
    OBVIOUS
  <2>2. QED
    BY <2>1, MultipleIs
<1>2. Same(5, 2, 3)
  <2>1. 5 - 2 = 1 * 3
    OBVIOUS
  <2>2. QED
    BY <2>1 DEF Same, Multiple
<1>3. Gauss(5, 1) = Gauss(2, 1)
  BY <1>2, 3 = 2 * 1 + 1, GaussSame
<1>4. Gauss(2, 1) = Sgn(1 - (1 \div 2))
  BY GaussTwo
<1>5. 1 \div 2 = 0 /\ 1 - 0 = 1 /\ 1 % 2 = 1
  OBVIOUS
<1>6. Gauss(2, 1) = -1
  BY <1>4, <1>5 DEF Sgn
<1>7. QED
  BY <1>1, <1>3, <1>6

OddPrime(n) == n \in Nat /\ IsPrimeNumber(n) /\ n % 2 = 1 /\ n + 1 < 2^Width
KOf(n) == ZeroBits(n - 1)
RankOf(n) == ZeroBits(n + 1)
OddOf(n) == (n + 1) \div 2^ZeroBits(n + 1)
HalfOf(n) == (n - 1) \div 2

LEMMA OddPrimeIs ==
  ASSUME NEW n, OddPrime(n)
  PROVE  /\ n \in Nat /\ n \in Int /\ n > 2 /\ IsPrimeNumber(n) /\ n < 2^Width
         /\ Width \in Nat /\ Binary(Width)
         /\ HalfOf(n) \in Nat /\ n = 2 * HalfOf(n) + 1
<1>1. n \in Nat /\ IsPrimeNumber(n) /\ n % 2 = 1 /\ n + 1 < 2^Width
  BY DEF OddPrime
<1>2. Width \in Nat /\ Binary(Width)
  BY IsPrimeAssumption DEF Binary
<1>3. n >= 2
  BY <1>1 DEF IsPrimeNumber
<1>4. n > 2
  BY <1>1, <1>3
<1>5. 2^Width \in Nat
  BY <1>2, Width \in 0..(Width + 1), TwoPower
<1>6. n < 2^Width
  <2> DEFINE y == 2^Width
  <2>1. y \in Nat /\ n + 1 < y
    BY <1>1, <1>5
  <2> HIDE DEF y
  <2>2. n < y
    BY <1>1, <2>1
  <2>3. QED
    BY <2>2 DEF y
<1>7. HalfOf(n) \in Nat /\ n = 2 * HalfOf(n) + 1
  BY <1>1, <1>4 DEF HalfOf
<1>8. QED
  BY <1>1, <1>2, <1>4, <1>6, <1>7

LEMMA EvenHasZero ==
  ASSUME NEW x \in Nat, x > 0, x % 2 = 0, x < 2^Width, Width \in Nat, Binary(Width)
  PROVE  /\ ZeroBits(x) \in 1..(Width - 1)
         /\ x \div 2^ZeroBits(x) \in Nat /\ x = 2^ZeroBits(x) * (x \div 2^ZeroBits(x))
<1>1. /\ ZeroBits(x) \in 0..(Width - 1)
      /\ x \div 2^ZeroBits(x) \in Nat /\ x = 2^ZeroBits(x) * (x \div 2^ZeroBits(x))
      /\ (x \div 2^ZeroBits(x)) % 2 = 1
  BY ZeroBitsIs
<1>2. ZeroBits(x) # 0
  <2>1. SUFFICES ASSUME ZeroBits(x) = 0 PROVE FALSE
    OBVIOUS
  <2>2. 2^ZeroBits(x) = 1
    BY <2>1 DEF Binary
  <2> DEFINE y == x \div 2^ZeroBits(x)
  <2>3. y \in Nat /\ x = 1 * y /\ y % 2 = 1
    BY <1>1, <2>2
  <2> HIDE DEF y
  <2>4. QED
    BY <2>3
<1>3. QED
  BY <1>1, <1>2

LEMMA OddPrimeBits ==
  ASSUME NEW n, OddPrime(n)
  PROVE  /\ KOf(n) \in 1..(Width - 1) /\ (n - 1) \div 2^KOf(n) \in Nat
         /\ n - 1 = 2^KOf(n) * ((n - 1) \div 2^KOf(n))
         /\ RankOf(n) \in 1..(Width - 1) /\ OddOf(n) \in Nat /\ n + 1 = 2^RankOf(n) * OddOf(n)
         /\ OddOf(n) < 2^Width
<1>1. n \in Nat /\ n > 2 /\ n < 2^Width /\ Width \in Nat /\ Binary(Width) /\ n % 2 = 1 /\ n + 1 < 2^Width
  BY OddPrimeIs DEF OddPrime
<1>2. 2^Width \in Nat
  BY <1>1, Width \in 0..(Width + 1), TwoPower
<1>3. n - 1 < 2^Width /\ n - 1 \in Nat /\ n - 1 > 0 /\ (n - 1) % 2 = 0
      /\ n + 1 \in Nat /\ n + 1 > 0 /\ (n + 1) % 2 = 0
  <2> DEFINE y == 2^Width
  <2>1. y \in Nat /\ n < y
    BY <1>1, <1>2
  <2> HIDE DEF y
  <2>2. n - 1 < y
    BY <1>1, <2>1
  <2>3. n - 1 \in Nat /\ n - 1 > 0 /\ (n - 1) % 2 = 0 /\ n + 1 \in Nat /\ n + 1 > 0 /\ (n + 1) % 2 = 0
    BY <1>1
  <2>4. QED
    BY <2>2, <2>3 DEF y
<1>4. /\ ZeroBits(n - 1) \in 1..(Width - 1)
      /\ (n - 1) \div 2^ZeroBits(n - 1) \in Nat /\ n - 1 = 2^ZeroBits(n - 1) * ((n - 1) \div 2^ZeroBits(n - 1))
  BY <1>1, <1>3, EvenHasZero
<1>5. /\ ZeroBits(n + 1) \in 1..(Width - 1)
      /\ (n + 1) \div 2^ZeroBits(n + 1) \in Nat /\ n + 1 = 2^ZeroBits(n + 1) * ((n + 1) \div 2^ZeroBits(n + 1))
  BY <1>1, <1>3, EvenHasZero
<1>6. OddOf(n) < 2^Width
  <2> DEFINE y == 2^Width
             x == 2^RankOf(n)
             z == OddOf(n)
  <2>1. y \in Nat /\ n + 1 < y /\ z \in Nat /\ n + 1 = x * z
    BY <1>1, <1>2, <1>5 DEF RankOf, OddOf
  <2>2. x \in Nat /\ x >= 1
    <3>1. RankOf(n) \in 0..(Width + 1)
      BY <1>1, <1>5 DEF RankOf
    <3>2. x \in Nat /\ x >= RankOf(n) + 1
      BY <1>1, <3>1, TwoPower
    <3>3. QED
      BY <3>1, <3>2
  <2> HIDE DEF y, x, z
  <2>3. x * z >= z
    BY <2>1, <2>2
  <2>4. z < y
    BY <1>1, <2>1, <2>2, <2>3
  <2>5. QED
    BY <2>4 DEF y, z
<1>7. QED
  BY <1>4, <1>5, <1>6 DEF KOf, RankOf, OddOf

(* Miller-Rabin: the power is no root of 1 seen yet, and one of its squares*)
(* to come is 1.                                                           *)
MrInv(n, w, k) ==
  /\ w \in 0..(n - 1) /\ w # 1 /\ w # n - 1
  /\ k \in 1..KOf(n)
  /\ Same(Power(w, 2^(KOf(n) - k + 1)), 1, n)

LEMMA RootOfOne ==
  ASSUME NEW n \in Nat, n > 2, IsPrimeNumber(n), NEW w \in 0..(n - 1), Same(w * w, 1, n)
  PROVE  w = 1 \/ w = n - 1
<1>1. 1 * 1 = 1 /\ w \in Int /\ 1 \in 0..(n - 1) /\ n - 1 \in 0..(n - 1)
  OBVIOUS
<1>2. Same(w, 1, n) \/ Same(w, -1, n)
  BY <1>1, RootsOfSquare
<1>3. CASE Same(w, 1, n)
  BY <1>1, <1>3, SameResidue
<1>4. CASE Same(w, -1, n)
  <2>1. Same(-1, n - 1, n)
    <3>1. (-1) - (n - 1) = (-1) * n
      OBVIOUS
    <3>2. QED
      BY <3>1, -1 \in Int DEF Same, Multiple
  <2>2. Same(w, n - 1, n)
    BY <1>1, <1>4, <2>1, n \in Int, -1 \in Int, n - 1 \in Int, SameChain
  <2>3. QED
    BY <1>1, <2>2, SameResidue
<1>5. QED
  BY <1>2, <1>3, <1>4

LEMMA MrBegins ==
  ASSUME NEW n, OddPrime(n), NEW x \in Nat, ~Multiple(n, x), NEW w,
         w = PowMod(x, (n - 1) \div 2^KOf(n), n), w # 1, w # n - 1
  PROVE  MrInv(n, w, 1)
<1>1. n \in Nat /\ n \in Int /\ n > 2 /\ IsPrimeNumber(n) /\ Width \in Nat /\ Binary(Width)
  BY OddPrimeIs
<1> DEFINE Q0 == (n - 1) \div 2^KOf(n)
           t2k == 2^KOf(n)
<1>2. KOf(n) \in 1..(Width - 1) /\ Q0 \in Nat /\ n - 1 = t2k * Q0
  BY OddPrimeBits
<1>3. t2k \in Nat
  <2>1. KOf(n) \in 0..(Width + 1)
    BY <1>1, <1>2
  <2>2. QED
    BY <1>1, <2>1, TwoPower
<1>4. w = PowMod(x, Q0, n)
  OBVIOUS
<1> HIDE DEF Q0, t2k
<1>5. w \in 0..(n - 1) /\ Same(w, Power(x, Q0), n)
  BY <1>1, <1>2, <1>4, PowModIs, PowModSame
<1>6. w \in Int /\ Power(x, Q0) \in Int /\ x \in Int
  BY <1>2, <1>5, PowerIs
<1>7. Same(Power(w, t2k), Power(Power(x, Q0), t2k), n)
  BY <1>1, <1>3, <1>5, <1>6, PowerSame
<1>8. Power(Power(x, Q0), t2k) = Power(x, n - 1)
  <2>1. Power(Power(x, Q0), t2k) = Power(x, Q0 * t2k)
    BY <1>2, <1>3, <1>6, PowerOfPower
  <2>2. Q0 * t2k = n - 1
    BY <1>2, <1>3
  <2>3. QED
    BY <2>1, <2>2
<1>9. Same(Power(x, n - 1), 1, n)
  BY <1>1, <1>6, Fermat
<1>10. Power(w, t2k) \in Int /\ Power(x, n - 1) \in Int
  <2>1. n - 1 \in Nat
    BY <1>1
  <2>2. QED
    BY <1>3, <1>6, <2>1, PowerIs
<1>11. Same(Power(w, t2k), 1, n)
  BY <1>1, <1>7, <1>8, <1>9, <1>10, SameChain
<1>12. KOf(n) - 1 + 1 = KOf(n) /\ 1 \in 1..KOf(n)
  BY <1>1, <1>2
<1>13. QED
  BY <1>5, <1>11, <1>12 DEF MrInv, t2k

LEMMA MrTurns ==
  ASSUME NEW n, OddPrime(n), NEW w, NEW k, MrInv(n, w, k), k < KOf(n), NEW s, s = (w * w) % n
  PROVE  s # 1 /\ (s # n - 1 => MrInv(n, s, k + 1))
<1>1. n \in Nat /\ n \in Int /\ n > 2 /\ IsPrimeNumber(n) /\ Width \in Nat /\ Binary(Width)
  BY OddPrimeIs
<1>2. KOf(n) \in 1..(Width - 1)
  BY OddPrimeBits
<1>3. /\ w \in 0..(n - 1) /\ w # 1 /\ w # n - 1 /\ w \in Int
      /\ k \in 1..KOf(n) /\ Same(Power(w, 2^(KOf(n) - k + 1)), 1, n)
  BY <1>1 DEF MrInv
<1>4. s \in 0..(n - 1) /\ Same(s, w * w, n) /\ w * w \in Int /\ s \in Int
  <2>1. w * w \in Int
    BY <1>3
  <2>2. s \in 0..(n - 1) /\ Same(s, w * w, n)
    BY <1>1, <2>1, SameRemainder
  <2>3. QED
    BY <1>1, <2>1, <2>2
<1>5. s # 1
  <2>1. SUFFICES ASSUME s = 1 PROVE FALSE
    OBVIOUS
  <2>2. Same(w * w, 1, n)
    BY <1>1, <1>4, <2>1, SameBack
  <2>3. QED
    BY <1>1, <1>3, <2>2, RootOfOne
<1> DEFINE e == KOf(n) - k
<1>6. e \in 0..Width /\ KOf(n) - (k + 1) + 1 = e /\ KOf(n) - k + 1 = e + 1 /\ k + 1 \in 1..KOf(n)
  BY <1>1, <1>2, <1>3
<1> HIDE DEF e
<1> DEFINE z == 2^e
<1>7. z \in Nat /\ 2^(e + 1) = 2 * z
  <2>1. e \in 0..(Width + 1)
    BY <1>1, <1>6
  <2>2. z \in Nat
    BY <1>1, <2>1, TwoPower
  <2>3. QED
    BY <1>6, <1>1, <2>2 DEF Binary
<1> HIDE DEF z
<1>8. Same(Power(w, 2 * z), 1, n)
  BY <1>3, <1>6, <1>7
<1>9. Power(w * w, z) = Power(w, 2 * z)
  <2>1. Power(w * w, z) = Power(w, z) * Power(w, z)
    BY <1>3, <1>7, PowerOfProduct
  <2>2. Power(w, z + z) = Power(w, z) * Power(w, z)
    BY <1>3, <1>7, PowerSum
  <2>3. z + z = 2 * z
    BY <1>7
  <2>4. QED
    BY <2>1, <2>2, <2>3
<1>10. Same(Power(s, z), Power(w * w, z), n)
  BY <1>1, <1>4, <1>7, PowerSame
<1>11. Power(s, z) \in Int /\ Power(w * w, z) \in Int
  BY <1>4, <1>7, PowerIs
<1>12. Same(Power(s, z), 1, n)
  BY <1>1, <1>8, <1>9, <1>10, <1>11, SameChain
<1>13. QED
  BY <1>4, <1>5, <1>6, <1>12 DEF MrInv, z

LEMMA MrEnds ==
  ASSUME NEW n, OddPrime(n), NEW w, NEW k, MrInv(n, w, k), k >= KOf(n)
  PROVE  FALSE
<1>1. n \in Nat /\ n > 2 /\ IsPrimeNumber(n) /\ Width \in Nat /\ Binary(Width)
  BY OddPrimeIs
<1>2. KOf(n) \in 1..(Width - 1)
  BY OddPrimeBits
<1>3. /\ w \in 0..(n - 1) /\ w # 1 /\ w # n - 1 /\ w \in Int
      /\ k \in 1..KOf(n) /\ Same(Power(w, 2^(KOf(n) - k + 1)), 1, n)
  BY <1>1 DEF MrInv
<1>4. KOf(n) - k + 1 = 1
  BY <1>2, <1>3
<1>5. 2^1 = 2
  <2>1. 0 \in 0..Width /\ 0 + 1 = 1 /\ 2 * 1 = 2
    BY <1>1
  <2>2. QED
    BY <1>1, <2>1 DEF Binary
<1>6. Power(w, 2) = w * w
  <2>1. Power(w, 0) = 1 /\ Power(w, 0 + 1) = Power(w, 0) * w /\ Power(w, 1 + 1) = Power(w, 1) * w
    BY <1>3, PowerIs
  <2>2. 0 + 1 = 1 /\ 1 + 1 = 2 /\ 1 * w = w
    BY <1>3
  <2>3. QED
    BY <2>1, <2>2
<1>7. Same(w * w, 1, n)
  BY <1>3, <1>4, <1>5, <1>6
<1>8. QED
  BY <1>1, <1>3, <1>7, RootOfOne

(* The parameter: every one before had p^2 - 4 a square modulo n, ...      *)
ParInv(n, r) ==
  /\ r \in Nat /\ r >= 3
  /\ r <= n - 2 \/ (n = 3 /\ r = 3)
  /\ \A i \in 3..(r - 1) : Jacobi(i * i - 4, n) # -1

(* ... and the one that is chosen has not.                                 *)
LucInv(n, r) ==
  r \in Nat /\ ~Multiple(n, r * r - 4) /\ Gauss(r * r - 4, HalfOf(n)) = -1

LEMMA ParamStarts ==
  ASSUME NEW n, OddPrime(n) PROVE ParInv(n, 3)
<1>1. n \in Nat /\ n > 2 /\ n % 2 = 1
  BY OddPrimeIs DEF OddPrime
<1>2. n = 3 \/ 3 <= n - 2
  BY <1>1
<1>3. QED
  BY <1>2 DEF ParInv

LEMMA ParamTurns ==
  ASSUME NEW n, OddPrime(n), NEW r, ParInv(n, r)
  PROVE  /\ Jacobi(r * r - 4, n) \in {-1, 0, 1}
         /\ Jacobi(r * r - 4, n) = -1 => LucInv(n, r)
         /\ Jacobi(r * r - 4, n) = 0 => n = r + 2
         /\ Jacobi(r * r - 4, n) = 1 => ParInv(n, r + 1)
<1>1. /\ n \in Nat /\ n > 2 /\ IsPrimeNumber(n) /\ n < 2^Width /\ Width \in Nat /\ Binary(Width)
      /\ HalfOf(n) \in Nat /\ n = 2 * HalfOf(n) + 1
  BY OddPrimeIs
<1>2. /\ r \in Nat /\ r >= 3
      /\ r <= n - 2 \/ (n = 3 /\ r = 3)
      /\ \A i \in 3..(r - 1) : Jacobi(i * i - 4, n) # -1
  BY DEF ParInv
<1> DEFINE D == r * r - 4
           J == Jacobi(D, n)
<1>3. D \in Int
  BY <1>2
<1> HIDE DEF D
<1>4. /\ Multiple(n, D) => J = 0
      /\ ~Multiple(n, D) => J = Gauss(D, HalfOf(n)) /\ Gauss(D, HalfOf(n)) \in {1, -1}
  BY <1>1, <1>3, JacobiAtPrime
<1>5. J \in {-1, 0, 1}
  BY <1>4
<1>6. ASSUME J = -1 PROVE LucInv(n, r)
  BY <1>2, <1>4, <1>6 DEF LucInv, D
<1>7. CASE n = 3 /\ r = 3
  <2>1. 3 * 3 - 4 = 5 /\ HalfOf(3) = 1
    BY DEF HalfOf
  <2>2. J = -1
    BY <1>4, <1>7, <2>1, AtThree DEF D
  <2>3. QED
    BY <1>5, <1>6, <2>2 DEF D
<1>8. CASE r <= n - 2
  <2>1. Multiple(n, D) <=> n = r + 2
    BY <1>1, <1>2, <1>8, CommonFactor DEF D
  <2>2. J = 0 => n = r + 2
    BY <1>4, <2>1
  <2>3. ASSUME J = 1 PROVE ParInv(n, r + 1)
    <3>1. r # n - 2
      BY <1>1, <1>2, <1>4, <2>1, <2>3
    <3>2. r + 1 <= n - 2 /\ r + 1 \in Nat /\ r + 1 >= 3
      BY <1>1, <1>2, <1>8, <3>1
    <3>3. Jacobi(r * r - 4, n) # -1
      BY <2>3 DEF D
    <3>4. ASSUME NEW i \in 3..((r + 1) - 1) PROVE Jacobi(i * i - 4, n) # -1
      <4>1. i \in 3..(r - 1) \/ i = r
        BY <1>2
      <4>2. QED
        BY <1>2, <3>3, <4>1
    <3>5. QED
      BY <3>2, <3>4 DEF ParInv
  <2>4. QED
    BY <1>5, <1>6, <2>2, <2>3 DEF D
<1>9. QED
  BY <1>2, <1>7, <1>8

(* The chain: v and w are neighbours of the sequence, at the bits of s     *)
(* read so far.                                                            *)
ChainInv(n, r, i, v, w) ==
  /\ i \in (-1)..BitLength(OddOf(n)) /\ v \in Int /\ w \in Int
  /\ Lucas(r, n, OddOf(n) \div 2^(i + 1), v)
  /\ Lucas(r, n, (OddOf(n) \div 2^(i + 1)) + 1, w)
  /\ i < BitLength(OddOf(n)) => v \in 0..(n - 1)

LEMMA OddOfLength ==
  ASSUME NEW n, OddPrime(n)
  PROVE  BitLength(OddOf(n)) \in 0..Width /\ OddOf(n) < 2^BitLength(OddOf(n)) /\ OddOf(n) \in Nat
<1>1. Width \in Nat /\ Binary(Width)
  BY OddPrimeIs
<1>2. OddOf(n) \in Nat /\ OddOf(n) < 2^Width
  BY OddPrimeBits
<1>3. QED
  BY <1>1, <1>2, BitLengthBelow

LEMMA ChainStarts ==
  ASSUME NEW n, OddPrime(n), NEW r \in Nat
  PROVE  ChainInv(n, r, BitLength(OddOf(n)), 2, r)
<1>1. n \in Nat /\ Width \in Nat /\ Binary(Width)
  BY OddPrimeIs
<1> DEFINE l == BitLength(OddOf(n))
           z == OddOf(n)
           y == 2^l
<1>2. l \in 0..Width /\ z < y /\ z \in Nat
  BY OddOfLength
<1>3. y \in Nat /\ 2^(l + 1) = 2 * y
  <2>1. l \in 0..(Width + 1)
    BY <1>1, <1>2
  <2>2. y \in Nat
    BY <1>1, <2>1, TwoPower
  <2>3. QED
    BY <1>1, <1>2, <2>2 DEF Binary
<1>4. Lucas(r, n, 0, 2) /\ Lucas(r, n, 1, r)
  BY <1>1, LucasStarts
<1> HIDE DEF l, z, y
<1>5. z \div (2 * y) = 0
  <2>1. z \in 0..(2 * y - 1) /\ 2 * y \in Nat /\ 2 * y > 0 /\ z = 0 * (2 * y) + z
    BY <1>2, <1>3
  <2>2. QED
    BY <1>2, <2>1, QuotientIs
<1>6. z \div 2^(l + 1) = 0 /\ 0 + 1 = 1
  BY <1>3, <1>5
<1>7. l \in (-1)..l /\ ~(l < l)
  BY <1>1, <1>2
<1>8. QED
  BY <1>4, <1>6, <1>7 DEF ChainInv, l, z

LEMMA ChainTurns ==
  ASSUME NEW n, OddPrime(n), NEW r \in Nat, NEW i, i >= 0, NEW v, NEW w, ChainInv(n, r, i, v, w)
  PROVE  /\ (OddOf(n) \div 2^i) % 2 = 1 =>
              ChainInv(n, r, i - 1, (v * w + n - r) % n, (w * w + n - 2) % n)
         /\ (OddOf(n) \div 2^i) % 2 # 1 =>
              ChainInv(n, r, i - 1, (v * v + n - 2) % n, (v * w + n - r) % n)
<1>1. n \in Nat /\ n \in Int /\ n > 0 /\ Width \in Nat /\ Binary(Width)
  BY OddPrimeIs
<1> DEFINE l == BitLength(OddOf(n))
           z == OddOf(n)
           y == 2^i
           e == z \div 2^(i + 1)
           e1 == z \div y
<1>2. l \in 0..Width /\ z \in Nat
  BY OddOfLength
<1>3. i \in (-1)..l /\ v \in Int /\ w \in Int /\ Lucas(r, n, e, v) /\ Lucas(r, n, e + 1, w)
  BY DEF ChainInv
<1>4. i \in 0..Width
  BY <1>1, <1>2, <1>3
<1>5. y \in Nat /\ y > 0 /\ 2^(i + 1) = 2 * y
  <2>1. i \in 0..(Width + 1)
    BY <1>1, <1>4
  <2>2. y \in Nat /\ y >= i + 1
    BY <1>1, <2>1, TwoPower
  <2>3. y > 0
    BY <1>4, <2>2
  <2>4. QED
    BY <1>1, <1>4, <2>2, <2>3 DEF Binary
<1>6. e1 \in Nat /\ e = e1 \div 2
  BY <1>2, <1>5, ThenHalf
<1> HIDE DEF l, z, y, e, e1
<1>7. e \in Nat /\ e + 1 \in Nat /\ e1 = 2 * e + (e1 % 2) /\ e1 % 2 \in 0..1
  BY <1>6
<1> DEFINE b == (v * w + n - r) % n
           dv == (v * v + n - 2) % n
           dw == (w * w + n - 2) % n
<1>8. \A x, u \in Int : x + n - u \in Int /\ Same((x + n - u) % n, x - u, n) /\ (x + n - u) % n \in 0..(n - 1)
  <2>1. ASSUME NEW x \in Int, NEW u \in Int PROVE x + n - u \in Int /\ Same((x + n - u) % n, x - u, n) /\ (x + n - u) % n \in 0..(n - 1)
    <3>1. x + n - u \in Int /\ x - u \in Int
      BY <1>1
    <3>2. Same((x + n - u) % n, x + n - u, n) /\ (x + n - u) % n \in 0..(n - 1)
      BY <1>1, <3>1, SameRemainder
    <3>3. Same(x + n - u, x - u, n)
      <4>1. (x + n - u) - (x - u) = 1 * n
        BY <1>1
      <4>2. QED
        BY <4>1 DEF Same, Multiple
    <3>4. (x + n - u) % n \in Int
      BY <1>1, <3>2
    <3>5. Same((x + n - u) % n, x - u, n)
      BY <1>1, <3>1, <3>2, <3>3, <3>4, SameChain
    <3>6. QED
      BY <3>1, <3>2, <3>5
  <2>2. QED
    BY <2>1
<1>9. v * w \in Int /\ v * v \in Int /\ w * w \in Int /\ r \in Int /\ 2 \in Int
  BY <1>3
<1>10. /\ Same(b, v * w - r, n) /\ b \in 0..(n - 1) /\ b \in Int
       /\ Same(dv, v * v - 2, n) /\ dv \in 0..(n - 1) /\ dv \in Int
       /\ Same(dw, w * w - 2, n) /\ dw \in 0..(n - 1) /\ dw \in Int
  <2>1. Same(b, v * w - r, n) /\ b \in 0..(n - 1)
    BY <1>8, <1>9
  <2>2. Same(dv, v * v - 2, n) /\ dv \in 0..(n - 1)
    BY <1>8, <1>9
  <2>3. Same(dw, w * w - 2, n) /\ dw \in 0..(n - 1)
    BY <1>8, <1>9
  <2> HIDE DEF b, dv, dw
  <2>4. QED
    BY <1>1, <2>1, <2>2, <2>3
<1> HIDE DEF b, dv, dw
<1>11. v * w - r \in Int /\ v * v - 2 \in Int /\ w * w - 2 \in Int
       /\ 2 * e \in Nat /\ 2 * e + 1 \in Nat /\ 2 * (e + 1) = (2 * e + 1) + 1 /\ (2 * e + 1) + 1 \in Nat
  BY <1>7, <1>9
<1>12. Lucas(r, n, 2 * e, v * v - 2) /\ Lucas(r, n, 2 * e + 1, v * w - r) /\ Lucas(r, n, (2 * e + 1) + 1, w * w - 2)
  <2>1. Lucas(r, n, 2 * e, v * v - 2)
    BY <1>1, <1>3, <1>7, <1>9, LucasDoubles
  <2>2. Lucas(r, n, 2 * e + 1, v * w - r)
    BY <1>1, <1>3, <1>7, <1>9, LucasBetween
  <2>3. Lucas(r, n, 2 * (e + 1), w * w - 2)
    BY <1>1, <1>3, <1>7, <1>9, LucasDoubles
  <2>4. QED
    BY <1>11, <2>1, <2>2, <2>3
<1>13. Lucas(r, n, 2 * e, dv) /\ Lucas(r, n, 2 * e + 1, b) /\ Lucas(r, n, (2 * e + 1) + 1, dw)
  <2>1. Lucas(r, n, 2 * e, dv)
    BY <1>1, <1>9, <1>10, <1>11, <1>12, LucasSame
  <2>2. Lucas(r, n, 2 * e + 1, b)
    BY <1>1, <1>9, <1>10, <1>11, <1>12, LucasSame
  <2>3. Lucas(r, n, (2 * e + 1) + 1, dw)
    BY <1>1, <1>9, <1>10, <1>11, <1>12, LucasSame
  <2>4. QED
    BY <2>1, <2>2, <2>3
<1>14. i - 1 \in (-1)..l /\ (i - 1) + 1 = i
  BY <1>1, <1>2, <1>3, <1>4
<1>15. ASSUME e1 % 2 = 1 PROVE ChainInv(n, r, i - 1, b, dw)
  <2>1. z \div 2^((i - 1) + 1) = 2 * e + 1
    BY <1>7, <1>14, <1>15 DEF e1, y
  <2>2. QED
    BY <1>10, <1>13, <1>14, <2>1 DEF ChainInv, l, z
<1>16. ASSUME e1 % 2 # 1 PROVE ChainInv(n, r, i - 1, dv, b)
  <2>1. e1 = 2 * e
    BY <1>7, <1>16
  <2>2. z \div 2^((i - 1) + 1) = 2 * e
    BY <1>14, <2>1 DEF e1, y
  <2>3. QED
    BY <1>10, <1>13, <1>14, <2>2 DEF ChainInv, l, z
<1>17. QED
  BY <1>15, <1>16 DEF e1, y, z, b, dv, dw

(* After the chain: v is neither 2 nor -2, and its place is s doubled k    *)
(* times.                                                                  *)
TailInv(n, r, k, v) ==
  /\ k \in 0..(RankOf(n) - 1)
  /\ v \in 0..(n - 1) /\ v # 2 /\ v # n - 2
  /\ Lucas(r, n, 2^k * OddOf(n), v)

LEMMA MinusTwo ==
  ASSUME NEW n \in Nat, n > 2, NEW v \in 0..(n - 1)
  PROVE  /\ Same(v, 2, n) <=> v = 2
         /\ Same(v, -2, n) <=> v = n - 2
<1>1. 2 \in 0..(n - 1) /\ n - 2 \in 0..(n - 1) /\ n \in Int /\ v \in Int /\ -2 \in Int /\ n - 2 \in Int
  OBVIOUS
<1>2. Same(n - 2, -2, n)
  <2>1. (n - 2) - (-2) = 1 * n
    OBVIOUS
  <2>2. QED
    BY <2>1 DEF Same, Multiple
<1>3. Same(v, 2, n) => v = 2
  BY <1>1, SameResidue
<1>4. v = 2 => Same(v, 2, n)
  BY <1>1, SameItself
<1>5. ASSUME Same(v, -2, n) PROVE v = n - 2
  <2>1. Same(-2, n - 2, n)
    BY <1>1, <1>2, SameBack
  <2>2. Same(v, n - 2, n)
    BY <1>1, <1>5, <2>1, SameChain
  <2>3. QED
    BY <1>1, <2>2, SameResidue
<1>6. v = n - 2 => Same(v, -2, n)
  BY <1>2
<1>7. QED
  BY <1>3, <1>4, <1>5, <1>6

LEMMA ChainStops ==
  ASSUME NEW n, OddPrime(n), NEW r, LucInv(n, r), NEW i, i < 0, NEW v, NEW w, ChainInv(n, r, i, v, w)
  PROVE  /\ v = 2 \/ v = n - 2 => AbsVal(v * r - 2 * w) % n = 0
         /\ v # 2 /\ v # n - 2 => TailInv(n, r, 0, v)
<1>1. /\ n \in Nat /\ n \in Int /\ n > 2 /\ IsPrimeNumber(n) /\ Width \in Nat /\ Binary(Width)
      /\ HalfOf(n) \in Nat /\ n = 2 * HalfOf(n) + 1
  BY OddPrimeIs
<1>2. r \in Nat /\ ~Multiple(n, r * r - 4)
  BY DEF LucInv
<1>3. BitLength(OddOf(n)) \in 0..Width /\ OddOf(n) \in Nat
  BY OddOfLength
<1>4. /\ i \in (-1)..BitLength(OddOf(n)) /\ v \in Int /\ w \in Int
      /\ Lucas(r, n, OddOf(n) \div 2^(i + 1), v)
      /\ Lucas(r, n, (OddOf(n) \div 2^(i + 1)) + 1, w)
      /\ i < BitLength(OddOf(n)) => v \in 0..(n - 1)
  BY DEF ChainInv
<1>5. i = -1 /\ i + 1 = 0 /\ i < BitLength(OddOf(n)) /\ 2^0 = 1
  BY <1>1, <1>3, <1>4 DEF Binary
<1>6. OddOf(n) \div 2^(i + 1) = OddOf(n)
  <2> DEFINE z == OddOf(n)
  <2>1. z \in Nat
    BY <1>3
  <2> HIDE DEF z
  <2>2. z \div 1 = z
    BY <2>1
  <2>3. QED
    BY <1>5, <2>2 DEF z
<1>7. v \in 0..(n - 1) /\ Lucas(r, n, OddOf(n), v) /\ Lucas(r, n, OddOf(n) + 1, w)
  BY <1>4, <1>5, <1>6
<1>8. ASSUME v = 2 \/ v = n - 2 PROVE AbsVal(v * r - 2 * w) % n = 0
  <2>1. Same(v, 2, n) \/ Same(v, -2, n)
    BY <1>1, <1>7, <1>8, MinusTwo
  <2>2. Multiple(n, v * r - 2 * w)
    BY <1>1, <1>2, <1>3, <1>4, <1>7, <2>1, LucasVanishes
  <2> DEFINE z == v * r - 2 * w
  <2>3. z \in Int
    BY <1>2, <1>4
  <2> HIDE DEF z
  <2>4. Multiple(n, z)
    BY <2>2 DEF z
  <2>5. Multiple(n, -z)
    <3>1. Multiple(n, (-1) * z)
      BY <1>1, <2>3, <2>4, -1 \in Int, MultipleTimes
    <3>2. (-1) * z = -z
      BY <2>3
    <3>3. QED
      BY <3>1, <3>2
  <2>6. AbsVal(z) \in Int /\ (AbsVal(z) = z \/ AbsVal(z) = -z)
    BY <2>3 DEF AbsVal
  <2>7. Multiple(n, AbsVal(z))
    BY <2>4, <2>5, <2>6
  <2>8. AbsVal(z) % n = 0
    BY <1>1, <2>6, <2>7, MultipleIs
  <2>9. QED
    BY <2>8 DEF z
<1>9. ASSUME v # 2, v # n - 2 PROVE TailInv(n, r, 0, v)
  <2>1. RankOf(n) \in 1..(Width - 1)
    BY OddPrimeBits
  <2>2. 0 \in 0..(RankOf(n) - 1)
    BY <1>1, <2>1
  <2>3. 2^0 * OddOf(n) = OddOf(n)
    BY <1>3, <1>5
  <2>4. QED
    BY <1>7, <1>9, <2>2, <2>3 DEF TailInv
<1>10. QED
  BY <1>8, <1>9

LEMMA TailTurns ==
  ASSUME NEW n, OddPrime(n), NEW r \in Nat, NEW k, k < RankOf(n) - 1, NEW v, v # 0, TailInv(n, r, k, v)
  PROVE  v # 2 /\ TailInv(n, r, k + 1, (v * v - 2) % n)
<1>1. n \in Nat /\ n \in Int /\ n > 2 /\ IsPrimeNumber(n) /\ Width \in Nat /\ Binary(Width)
  BY OddPrimeIs
<1>2. RankOf(n) \in 1..(Width - 1) /\ OddOf(n) \in Nat
  BY OddPrimeBits
<1>3. /\ k \in 0..(RankOf(n) - 1) /\ v \in 0..(n - 1) /\ v # 2 /\ v # n - 2 /\ v \in Int
      /\ Lucas(r, n, 2^k * OddOf(n), v)
  BY <1>1 DEF TailInv
<1> DEFINE x == (v * v - 2) % n
           y == 2^k
           z == OddOf(n)
<1>4. v * v - 2 \in Int /\ v * v \in Int
  BY <1>3
<1>5. Same(x, v * v - 2, n) /\ x \in 0..(n - 1)
  <2> DEFINE d == v * v - 2
  <2>1. d \in Int /\ x = d % n /\ n > 0
    BY <1>1, <1>4
  <2> HIDE DEF d, x
  <2>2. Same(x, d, n) /\ x \in 0..(n - 1)
    BY <1>1, <2>1, SameRemainder
  <2>3. QED
    BY <2>2 DEF d
<1>6. y \in Nat /\ 2^(k + 1) = 2 * y
  <2>1. k \in 0..(Width + 1) /\ k \in 0..Width
    BY <1>1, <1>2, <1>3
  <2>2. y \in Nat
    BY <1>1, <2>1, TwoPower
  <2>3. QED
    BY <1>1, <2>1, <2>2 DEF Binary
<1>7. z \in Nat /\ Lucas(r, n, y * z, v)
  BY <1>2, <1>3
<1> HIDE DEF x, y, z
<1>8. y * z \in Nat /\ 2 * (y * z) = (2 * y) * z /\ 2 * (y * z) \in Nat /\ x \in Int
  BY <1>1, <1>5, <1>6, <1>7
<1>9. Lucas(r, n, 2 * (y * z), v * v - 2)
  BY <1>1, <1>3, <1>7, <1>8, LucasDoubles
<1>10. Lucas(r, n, (2 * y) * z, x)
  BY <1>1, <1>4, <1>5, <1>8, <1>9, LucasSame
<1>11. x # 2
  <2>1. SUFFICES ASSUME x = 2 PROVE FALSE
    OBVIOUS
  <2>2. Same(2, v * v - 2, n)
    BY <1>5, <2>1
  <2>3. Same(v * v - 2, 2, n)
    BY <1>1, <1>4, <2>2, SameBack
  <2>4. (v * v - 2) - 2 = v * v - 2 * 2
    BY <1>4
  <2>5. Same(v * v, 2 * 2, n)
    BY <2>3, <2>4 DEF Same
  <2>6. Same(v, 2, n) \/ Same(v, -2, n)
    BY <1>1, <1>3, <2>5, RootsOfSquare
  <2>7. QED
    BY <1>1, <1>3, <2>6, MinusTwo
<1>12. x # n - 2
  <2>1. SUFFICES ASSUME x = n - 2 PROVE FALSE
    OBVIOUS
  <2>2. Same(x, -2, n)
    BY <1>1, <1>5, <2>1, MinusTwo
  <2>3. Multiple(n, x - (v * v - 2)) /\ Multiple(n, x - (-2))
    BY <1>5, <2>2 DEF Same
  <2>4. x - (v * v - 2) \in Int /\ x - (-2) \in Int
    BY <1>4, <1>8
  <2>5. Multiple(n, (x - (-2)) - (x - (v * v - 2)))
    BY <1>1, <2>3, <2>4, MultipleSum
  <2>6. (x - (-2)) - (x - (v * v - 2)) = v * v
    BY <1>4, <1>8
  <2>7. Multiple(n, v)
    BY <1>1, <1>3, <2>5, <2>6, PrimeDivides
  <2>8. v % n = v
    BY <1>1, <1>3
  <2>9. v % n = 0
    BY <1>1, <1>3, <2>7, MultipleIs
  <2>10. QED
    BY <2>8, <2>9
<1>13. k + 1 \in 0..(RankOf(n) - 1)
  BY <1>1, <1>2, <1>3
<1>14. TailInv(n, r, k + 1, x)
  BY <1>5, <1>6, <1>10, <1>11, <1>12, <1>13 DEF TailInv, z
<1>15. QED
  BY <1>3, <1>14 DEF x

LEMMA TailEnds ==
  ASSUME NEW n, OddPrime(n), NEW r, LucInv(n, r), NEW k, k >= RankOf(n) - 1, NEW v, TailInv(n, r, k, v)
  PROVE  FALSE
<1>1. /\ n \in Nat /\ n \in Int /\ n > 2 /\ IsPrimeNumber(n) /\ Width \in Nat /\ Binary(Width)
      /\ HalfOf(n) \in Nat /\ n = 2 * HalfOf(n) + 1
  BY OddPrimeIs
<1>2. RankOf(n) \in 1..(Width - 1) /\ OddOf(n) \in Nat /\ n + 1 = 2^RankOf(n) * OddOf(n)
  BY OddPrimeBits
<1>3. /\ k \in 0..(RankOf(n) - 1) /\ v \in 0..(n - 1) /\ v # 2 /\ v # n - 2 /\ v \in Int
      /\ Lucas(r, n, 2^k * OddOf(n), v)
  BY <1>1 DEF TailInv
<1>4. r \in Nat /\ ~Multiple(n, r * r - 4) /\ Gauss(r * r - 4, HalfOf(n)) = -1
  BY DEF LucInv
<1> DEFINE y == 2^k
           z == OddOf(n)
<1>5. k + 1 = RankOf(n)
  BY <1>1, <1>2, <1>3
<1>6. y \in Nat /\ 2^RankOf(n) = 2 * y
  <2>1. k \in 0..(Width + 1) /\ k \in 0..Width
    BY <1>1, <1>2, <1>3
  <2>2. y \in Nat
    BY <1>1, <2>1, TwoPower
  <2>3. QED
    BY <1>1, <1>5, <2>1, <2>2 DEF Binary
<1>7. z \in Nat /\ Lucas(r, n, y * z, v) /\ n + 1 = (2 * y) * z
  BY <1>2, <1>3, <1>6
<1> HIDE DEF y, z
<1>8. y * z \in Nat /\ 2 * (y * z) = n + 1 /\ v * v - 2 \in Int
  BY <1>3, <1>6, <1>7
<1>9. Lucas(r, n, n + 1, v * v - 2)
  BY <1>1, <1>3, <1>4, <1>7, <1>8, LucasDoubles
<1> DEFINE D == r * r - 4
<1>10. D \in Int
  BY <1>4
<1>11. Same(v * v - 2, 2, n)
  BY <1>1, <1>4, <1>8, <1>9, <1>10, LucasRank
<1>12. (v * v - 2) - 2 = v * v - 2 * 2
  BY <1>3
<1>13. Same(v * v, 2 * 2, n)
  BY <1>11, <1>12 DEF Same
<1>14. Same(v, 2, n) \/ Same(v, -2, n)
  BY <1>1, <1>3, <1>13, RootsOfSquare
<1>15. QED
  BY <1>1, <1>3, <1>14, MinusTwo

------------------------------------------------------------------------------
(* The inductive invariant of goo_is_prime: where a prime stands in each   *)
(* loop.                                                                   *)
PrimeInv ==
  /\ stage \in {"idle", "div", "mr", "square", "param", "chain", "tail", "done"}
  /\ stage # "idle" => cand \in Candidates \cup Odds
  /\ NoPrimeRefused
  /\ IsPrimeNumber(cand) =>
       /\ stage = "div" => ii \in Nat \ {0}
       /\ stage \notin {"idle", "div", "done"} => cand % 2 = 1
       /\ stage = "mr" => ii \in Nat
       /\ stage = "square" => MrInv(cand, power, jj) /\ ii \in Nat
       /\ stage = "param" => ParInv(cand, par)
       /\ stage \in {"chain", "tail"} => LucInv(cand, par)
       /\ stage = "chain" => ChainInv(cand, par, ii, vk, vk1)
       /\ stage = "tail" => TailInv(cand, par, jj, vk)

LEMMA PrimeInit == IsPrimeInit => PrimeInv
<1>1. SUFFICES ASSUME IsPrimeInit PROVE PrimeInv
  OBVIOUS
<1>2. stage = "idle"
  BY <1>1 DEF IsPrimeInit
<1>3. QED
  BY <1>2 DEF PrimeInv, NoPrimeRefused

(* A candidate in a loop after the trial division is an odd prime or none. *)
LEMMA CandIs ==
  ASSUME PrimeInv, IsPrimeNumber(cand), stage \in {"mr", "square", "param", "chain", "tail"}
  PROVE  OddPrime(cand)
<1>1. cand \in Candidates \cup Odds /\ cand % 2 = 1
  BY DEF PrimeInv
<1>2. cand + 1 < 2^Width /\ cand \in Int
  BY <1>1, IsPrimeAssumption
<1>3. cand \in Nat
  BY <1>2 DEF IsPrimeNumber
<1>4. QED
  BY <1>1, <1>2, <1>3 DEF OddPrime

LEMMA AnswerInv ==
  ASSUME PrimeInv, stage # "idle", NEW r, Answer(r), IsPrimeNumber(cand) /\ ~AllSquares => r
  PROVE  PrimeInv'
<1>1. stage' = "done" /\ result' = r /\ cand' = cand
  BY DEF Answer
<1>2. cand \in Candidates \cup Odds
  BY DEF PrimeInv
<1>3. AllSquares' = AllSquares
  BY <1>1 DEF AllSquares
<1>4. NoPrimeRefused'
  BY <1>1, <1>3 DEF NoPrimeRefused
<1>5. QED
  BY <1>1, <1>2, <1>4 DEF PrimeInv

LEMMA DivideInv == PrimeInv /\ (Small \/ Divide) => PrimeInv'
<1>1. ASSUME PrimeInv, Small PROVE PrimeInv'
  <2>1. stage = "div" /\ (cand <= 1 \/ cand % 2 = 0) /\ Answer(cand = 2)
    BY <1>1 DEF Small
  <2>2. cand \in Candidates \cup Odds
    BY <1>1, <2>1 DEF PrimeInv
  <2>3. cand \in Int
    BY <2>2, IsPrimeAssumption
  <2>4. ASSUME IsPrimeNumber(cand) PROVE cand = 2
    <3>1. cand >= 2 /\ cand \in Nat
      BY <2>3, <2>4 DEF IsPrimeNumber
    <3>2. cand % 2 = 0
      BY <2>1, <3>1
    <3>3. QED
      BY <2>4, <3>1, <3>2, EvenPrime
  <2>5. QED
    BY <1>1, <2>1, <2>4, AnswerInv
<1>2. ASSUME PrimeInv, Divide PROVE PrimeInv'
  <2>1. /\ stage = "div" /\ cand > 1 /\ cand % 2 = 1 /\ ii <= Len(TestPrimes)
        /\ \/ Divided(TestPrimes[ii]) /\ Answer(FALSE)
           \/ ~Divided(TestPrimes[ii]) /\ cand = TestPrimes[ii] /\ Answer(TRUE)
           \/ /\ ~Divided(TestPrimes[ii]) /\ cand # TestPrimes[ii]
              /\ ii' = ii + 1
              /\ UNCHANGED <<stage, cand, jj, power, par, vk, vk1, result>>
    BY <1>2 DEF Divide
  <2>2. cand \in Candidates \cup Odds
    BY <1>2, <2>1 DEF PrimeInv
  <2>3. cand \in Int
    BY <2>2, IsPrimeAssumption
  <2>4. CASE Divided(TestPrimes[ii]) /\ Answer(FALSE)
    <3>1. ~IsPrimeNumber(cand)
      <4>1. SUFFICES ASSUME IsPrimeNumber(cand) PROVE FALSE
        OBVIOUS
      <4>2. ii \in Nat \ {0}
        BY <1>2, <2>1, <4>1 DEF PrimeInv
      <4>3. TestPrimes \in Seq(Nat \ {0, 1})
        BY IsPrimeAssumption
      <4>4. TestPrimes[ii] \in Nat \ {0, 1}
        <5>1. ii \in 1..Len(TestPrimes)
          BY <2>1, <4>2, <4>3
        <5>2. QED
          BY <4>3, <5>1
      <4> DEFINE d == TestPrimes[ii]
      <4>5. d \in Nat /\ d >= 2 /\ cand # d /\ cand % d = 0
        BY <2>4, <4>4 DEF Divided
      <4> HIDE DEF d
      <4>6. cand \in Nat /\ cand > 0
        BY <2>1, <2>3
      <4>7. cand >= 2 /\ \A e \in 2..(cand - 1) : cand % e # 0
        BY <4>1, <4>6, PrimeIs
      <4>8. d <= cand
        <5>1. ASSUME d > cand PROVE FALSE
          <6>1. cand % d = cand
            BY <4>5, <4>6, <5>1
          <6>2. QED
            BY <4>5, <4>6, <6>1
        <5>2. QED
          BY <4>5, <4>6, <5>1
      <4>9. d \in 2..(cand - 1)
        BY <4>5, <4>6, <4>8
      <4>10. QED
        BY <4>5, <4>7, <4>9
    <3>2. QED
      BY <1>2, <2>1, <2>4, <3>1, AnswerInv
  <2>5. CASE ~Divided(TestPrimes[ii]) /\ cand = TestPrimes[ii] /\ Answer(TRUE)
    BY <1>2, <2>1, <2>5, AnswerInv
  <2>6. CASE ii' = ii + 1 /\ UNCHANGED <<stage, cand, jj, power, par, vk, vk1, result>>
    <3>1. stage' = "div" /\ cand' = cand /\ ii' = ii + 1 /\ result' = result
      BY <2>1, <2>6
    <3>2. IsPrimeNumber(cand) => ii' \in Nat \ {0}
      BY <1>2, <2>1, <3>1 DEF PrimeInv
    <3>3. NoPrimeRefused'
      BY <3>1 DEF NoPrimeRefused
    <3>4. QED
      BY <2>2, <3>1, <3>2, <3>3 DEF PrimeInv
  <2>7. QED
    BY <2>1, <2>4, <2>5, <2>6
<1>3. QED
  BY <1>1, <1>2

LEMMA CallsInv == PrimeInv /\ ((\E d \in Candidates : IsPrime(d)) \/ (\E d \in Odds : IsPrimeLucas(d))) => PrimeInv'
<1>1. ASSUME PrimeInv, NEW d \in Candidates, IsPrime(d) PROVE PrimeInv'
  <2>1. stage' = "div" /\ cand' = d /\ ii' = 1
    BY <1>1 DEF IsPrime, Goto
  <2>2. NoPrimeRefused'
    BY <2>1 DEF NoPrimeRefused
  <2>3. QED
    BY <2>1, <2>2 DEF PrimeInv
<1>2. ASSUME PrimeInv, NEW d \in Odds, IsPrimeLucas(d) PROVE PrimeInv'
  <2>1. stage' = "param" /\ cand' = d /\ par' = 3
    BY <1>2 DEF IsPrimeLucas, Goto
  <2>2. NoPrimeRefused'
    BY <2>1 DEF NoPrimeRefused
  <2>3. d \in Nat /\ d % 2 = 1 /\ d + 1 < 2^Width
    BY IsPrimeAssumption
  <2>4. IsPrimeNumber(d) => ParInv(d, 3)
    BY <2>3, ParamStarts DEF OddPrime
  <2>5. QED
    BY <2>1, <2>2, <2>3, <2>4 DEF PrimeInv
<1>3. QED
  BY <1>1, <1>2

LEMMA MillerRabinInv == PrimeInv /\ (BeginMR \/ Repetition \/ Square \/ Witness) => PrimeInv'
<1>1. ASSUME PrimeInv, BeginMR PROVE PrimeInv'
  <2>1. stage = "div" /\ cand % 2 = 1 /\ stage' = "mr" /\ ii' = 0 /\ cand' = cand
    BY <1>1 DEF BeginMR, Goto
  <2>2. cand \in Candidates \cup Odds
    BY <1>1, <2>1 DEF PrimeInv
  <2>3. NoPrimeRefused'
    BY <2>1 DEF NoPrimeRefused
  <2>4. QED
    BY <2>1, <2>2, <2>3 DEF PrimeInv
<1>2. ASSUME PrimeInv, Repetition PROVE PrimeInv'
  <2>1. PICK x \in BaseOf(ii) :
          LET first == PowMod(x, QQ, cand)
          IN IF first \in {1, cand - 1}
             THEN ii' = ii + 1 /\ UNCHANGED <<stage, jj, power, result>>
             ELSE /\ Goto("square")
                  /\ jj' = 1 /\ power' = first
                  /\ UNCHANGED ii
    BY <1>2 DEF Repetition
  <2>2. stage = "mr" /\ UNCHANGED <<cand, par, vk, vk1>>
    BY <1>2 DEF Repetition
  <2> DEFINE w == PowMod(x, (cand - 1) \div 2^KOf(cand), cand)
  <2>3. w = PowMod(x, QQ, cand)
    BY DEF QQ, KK, KOf
  <2>4. cand \in Candidates \cup Odds
    BY <1>2, <2>2 DEF PrimeInv
  <2>5. IsPrimeNumber(cand) => OddPrime(cand) /\ ii \in Nat
    BY <1>2, <2>2, CandIs DEF PrimeInv
  <2>6. IsPrimeNumber(cand) => x \in Nat /\ ~Multiple(cand, x)
    <3>1. SUFFICES ASSUME IsPrimeNumber(cand) PROVE x \in Nat /\ ~Multiple(cand, x)
      OBVIOUS
    <3>2. cand \in Nat /\ cand > 2
      BY <2>5, <3>1, OddPrimeIs
    <3>3. x \in Nat /\ x > 0 /\ x < cand
      <4>1. x = 2 \/ (x \in Bases /\ 2 <= x /\ x <= cand - 2)
        BY DEF BaseOf
      <4>2. CASE x = 2
        BY <3>2, <4>2
      <4>3. CASE x \in Bases /\ 2 <= x /\ x <= cand - 2
        <5>1. x \in Nat
          BY <4>3, IsPrimeAssumption
        <5>2. QED
          BY <3>2, <4>3, <5>1
      <4>4. QED
        BY <4>1, <4>2, <4>3
    <3>4. x % cand = x
      BY <3>2, <3>3
    <3>5. ~Multiple(cand, x)
      BY <3>2, <3>3, <3>4, MultipleIs
    <3>6. QED
      BY <3>3, <3>5
  <2> HIDE DEF w
  <2>7. CASE w \in {1, cand - 1}
    <3>1. ii' = ii + 1 /\ stage' = "mr" /\ cand' = cand /\ result' = result
      BY <2>1, <2>2, <2>3, <2>7
    <3>2. NoPrimeRefused'
      BY <3>1 DEF NoPrimeRefused
    <3>3. IsPrimeNumber(cand) => cand % 2 = 1 /\ ii + 1 \in Nat
      BY <1>2, <2>2, <2>5 DEF PrimeInv
    <3>4. QED
      BY <2>4, <3>1, <3>2, <3>3 DEF PrimeInv
  <2>8. CASE w \notin {1, cand - 1}
    <3>1. ii' = ii /\ stage' = "square" /\ cand' = cand /\ jj' = 1 /\ power' = w
      BY <2>1, <2>2, <2>3, <2>8 DEF Goto
    <3>2. NoPrimeRefused'
      BY <3>1 DEF NoPrimeRefused
    <3>3. IsPrimeNumber(cand) => cand % 2 = 1 /\ ii \in Nat
      BY <1>2, <2>2, <2>5 DEF PrimeInv
    <3>4. IsPrimeNumber(cand) => MrInv(cand, w, 1)
      <4>1. w # 1 /\ w # cand - 1
        BY <2>8
      <4>2. QED
        BY <2>5, <2>6, <4>1, MrBegins DEF w
    <3>5. QED
      BY <2>4, <3>1, <3>2, <3>3, <3>4 DEF PrimeInv
  <2>9. QED
    BY <2>7, <2>8
<1>3. ASSUME PrimeInv, Square PROVE PrimeInv'
  <2> DEFINE s == (power * power) % cand
  <2>1. /\ stage = "square" /\ jj < KOf(cand)
        /\ \/ /\ s = cand - 1
              /\ stage' = "mr" /\ ii' = ii + 1
              /\ UNCHANGED <<cand, jj, power, par, vk, vk1>>
           \/ s = 1 /\ Answer(FALSE)
           \/ /\ s \notin {1, cand - 1}
              /\ power' = s /\ jj' = jj + 1
              /\ UNCHANGED <<stage, cand, ii, par, vk, vk1, result>>
    BY <1>3 DEF Square, Squarings, KK, KOf, Goto
  <2>2. cand \in Candidates \cup Odds
    BY <1>3, <2>1 DEF PrimeInv
  <2>3. IsPrimeNumber(cand) => OddPrime(cand) /\ ii \in Nat /\ cand % 2 = 1 /\ MrInv(cand, power, jj)
    BY <1>3, <2>1, CandIs DEF PrimeInv
  <2>4. IsPrimeNumber(cand) => s # 1 /\ (s # cand - 1 => MrInv(cand, s, jj + 1))
    BY <2>1, <2>3, MrTurns
  <2> HIDE DEF s
  <2>5. CASE s = cand - 1 /\ stage' = "mr" /\ ii' = ii + 1 /\ UNCHANGED <<cand, jj, power, par, vk, vk1>>
    <3>1. NoPrimeRefused'
      BY <2>5 DEF NoPrimeRefused
    <3>2. IsPrimeNumber(cand) => ii + 1 \in Nat
      BY <2>3
    <3>3. QED
      BY <2>2, <2>3, <2>5, <3>1, <3>2 DEF PrimeInv
  <2>6. CASE s = 1 /\ Answer(FALSE)
    BY <1>3, <2>1, <2>4, <2>6, AnswerInv
  <2>7. CASE /\ s \notin {1, cand - 1}
             /\ power' = s /\ jj' = jj + 1
             /\ UNCHANGED <<stage, cand, ii, par, vk, vk1, result>>
    <3>1. stage' = "square" /\ cand' = cand /\ ii' = ii /\ power' = s /\ jj' = jj + 1
      BY <2>1, <2>7
    <3>2. NoPrimeRefused'
      BY <3>1 DEF NoPrimeRefused
    <3>3. IsPrimeNumber(cand) => MrInv(cand, s, jj + 1)
      BY <2>4, <2>7
    <3>4. QED
      BY <2>2, <2>3, <3>1, <3>2, <3>3 DEF PrimeInv
  <2>8. QED
    BY <2>1, <2>5, <2>6, <2>7
<1>4. ASSUME PrimeInv, Witness PROVE PrimeInv'
  <2>1. stage = "square" /\ jj >= KOf(cand) /\ Answer(FALSE)
    BY <1>4 DEF Witness, Squarings, KK, KOf
  <2>2. IsPrimeNumber(cand) => OddPrime(cand) /\ MrInv(cand, power, jj)
    BY <1>4, <2>1, CandIs DEF PrimeInv
  <2>3. ~IsPrimeNumber(cand)
    BY <2>1, <2>2, MrEnds
  <2>4. QED
    BY <1>4, <2>1, <2>3, AnswerInv
<1>5. QED
  BY <1>1, <1>2, <1>3, <1>4

LEMMA LucasInv == PrimeInv /\ (BeginLucas \/ Parameter \/ Chain \/ ChainEnds \/ Doubling \/ DoublingEnds) => PrimeInv'
<1>1. ASSUME PrimeInv, BeginLucas PROVE PrimeInv'
  <2>1. stage = "mr" /\ stage' = "param" /\ par' = 3 /\ cand' = cand
    BY <1>1 DEF BeginLucas, Goto
  <2>2. cand \in Candidates \cup Odds
    BY <1>1, <2>1 DEF PrimeInv
  <2>3. NoPrimeRefused'
    BY <2>1 DEF NoPrimeRefused
  <2>4. IsPrimeNumber(cand) => ParInv(cand, 3) /\ cand % 2 = 1
    BY <1>1, <2>1, CandIs, ParamStarts DEF OddPrime
  <2>5. QED
    BY <2>1, <2>2, <2>3, <2>4 DEF PrimeInv
<1>2. ASSUME PrimeInv, Parameter PROVE PrimeInv'
  <2> DEFINE J == Jacobi(par * par - 4, cand)
  <2>1. /\ stage = "param"
        /\ \/ OverLimit /\ Answer(FALSE)
           \/ /\ ~OverLimit /\ J = -1
              /\ stage' = "chain" /\ ii' = BitLength(OddOf(cand))
              /\ vk' = 2 /\ vk1' = par
              /\ UNCHANGED <<cand, jj, power, par>>
           \/ ~OverLimit /\ J = 0 /\ Answer(Common)
           \/ J = 1 /\ PerfectSquare /\ Answer(FALSE)
           \/ /\ ~OverLimit /\ J = 1
              /\ par' = par + 1
              /\ UNCHANGED <<stage, cand, ii, jj, power, vk, vk1, result>>
    BY <1>2 DEF Parameter, DD, Goto, OddOf
  <2>2. cand \in Candidates \cup Odds
    BY <1>2, <2>1 DEF PrimeInv
  <2>3. IsPrimeNumber(cand) => OddPrime(cand) /\ cand % 2 = 1 /\ ParInv(cand, par)
    BY <1>2, <2>1, CandIs DEF PrimeInv
  <2>4. IsPrimeNumber(cand) =>
          /\ J \in {-1, 0, 1}
          /\ J = -1 => LucInv(cand, par)
          /\ J = 0 => cand = par + 2
          /\ J = 1 => ParInv(cand, par + 1)
    BY <2>3, ParamTurns
  <2> HIDE DEF J
  <2>5. CASE OverLimit /\ Answer(FALSE)
    <3>1. IsPrimeNumber(cand) => AllSquares
      <4>1. SUFFICES ASSUME IsPrimeNumber(cand), NEW i \in 3..LastP, LucasLimit = 0 \/ i <= LucasLimit
                     PROVE  Jacobi(i * i - 4, cand) # -1
        BY DEF AllSquares
      <4>2. par \in Nat /\ \A l \in 3..(par - 1) : Jacobi(l * l - 4, cand) # -1
        BY <2>3, <4>1 DEF ParInv
      <4>3. par > LastP \/ (LucasLimit # 0 /\ par > LucasLimit)
        BY <2>5 DEF OverLimit
      <4>4. LastP \in Nat /\ LucasLimit \in Nat
        BY IsPrimeAssumption
      <4>5. i \in 3..(par - 1)
        BY <4>1, <4>2, <4>3, <4>4
      <4>6. QED
        BY <4>2, <4>5
    <3>2. QED
      BY <1>2, <2>1, <2>5, <3>1, AnswerInv
  <2>6. CASE J = -1 /\ stage' = "chain" /\ ii' = BitLength(OddOf(cand)) /\ vk' = 2 /\ vk1' = par
             /\ UNCHANGED <<cand, jj, power, par>>
    <3>1. NoPrimeRefused'
      BY <2>6 DEF NoPrimeRefused
    <3>2. IsPrimeNumber(cand) => LucInv(cand, par) /\ ChainInv(cand, par, BitLength(OddOf(cand)), 2, par)
      BY <2>3, <2>4, <2>6, ChainStarts DEF LucInv
    <3>3. QED
      BY <2>2, <2>3, <2>6, <3>1, <3>2 DEF PrimeInv
  <2>7. CASE J = 0 /\ Answer(Common)
    <3>1. IsPrimeNumber(cand) => Common
      BY <2>4, <2>7 DEF Common
    <3>2. QED
      BY <1>2, <2>1, <2>7, <3>1, AnswerInv
  <2>8. CASE PerfectSquare /\ Answer(FALSE)
    <3>1. ~IsPrimeNumber(cand)
      <4>1. SUFFICES ASSUME IsPrimeNumber(cand) PROVE FALSE
        OBVIOUS
      <4>2. cand \in Nat
        BY <2>3, <4>1, OddPrimeIs
      <4>3. QED
        BY <2>8, <4>1, <4>2, PrimeNoSquare DEF PerfectSquare
    <3>2. QED
      BY <1>2, <2>1, <2>8, <3>1, AnswerInv
  <2>9. CASE J = 1 /\ par' = par + 1 /\ UNCHANGED <<stage, cand, ii, jj, power, vk, vk1, result>>
    <3>1. stage' = "param" /\ cand' = cand
      BY <2>1, <2>9
    <3>2. NoPrimeRefused'
      BY <3>1 DEF NoPrimeRefused
    <3>3. QED
      BY <2>2, <2>3, <2>4, <2>9, <3>1, <3>2 DEF PrimeInv
  <2>10. QED
    BY <2>1, <2>5, <2>6, <2>7, <2>8, <2>9
<1>3. ASSUME PrimeInv, Chain PROVE PrimeInv'
  <2> DEFINE b == (vk * vk1 + cand - par) % cand
             dv == (vk * vk + cand - 2) % cand
             dw == (vk1 * vk1 + cand - 2) % cand
             top == (OddOf(cand) \div 2^ii) % 2
  <2>1. /\ stage = "chain" /\ ii >= 0
        /\ IF top = 1 THEN vk' = b /\ vk1' = dw ELSE vk1' = b /\ vk' = dv
        /\ ii' = ii - 1
        /\ UNCHANGED <<stage, cand, jj, power, par, result>>
    BY <1>3 DEF Chain, Between, Doubled, SS, OddOf
  <2>2. cand \in Candidates \cup Odds
    BY <1>3, <2>1 DEF PrimeInv
  <2>3. IsPrimeNumber(cand) => OddPrime(cand) /\ cand % 2 = 1 /\ LucInv(cand, par) /\ ChainInv(cand, par, ii, vk, vk1)
    BY <1>3, <2>1, CandIs DEF PrimeInv
  <2>4. IsPrimeNumber(cand) =>
          /\ top = 1 => ChainInv(cand, par, ii - 1, b, dw)
          /\ top # 1 => ChainInv(cand, par, ii - 1, dv, b)
    BY <2>1, <2>3, ChainTurns DEF LucInv
  <2> HIDE DEF b, dv, dw, top
  <2>5. stage' = "chain" /\ cand' = cand /\ par' = par /\ ii' = ii - 1
    BY <2>1
  <2>6. NoPrimeRefused'
    BY <2>5 DEF NoPrimeRefused
  <2>7. IsPrimeNumber(cand) => ChainInv(cand, par, ii - 1, vk', vk1')
    BY <2>1, <2>4
  <2>8. QED
    BY <2>2, <2>3, <2>5, <2>6, <2>7 DEF PrimeInv
<1>4. ASSUME PrimeInv, ChainEnds PROVE PrimeInv'
  <2>1. /\ stage = "chain" /\ ii < 0
        /\ \/ vk \in {2, cand - 2} /\ Vanishes /\ Answer(TRUE)
           \/ /\ ~(vk \in {2, cand - 2} /\ Vanishes)
              /\ stage' = "tail" /\ jj' = 0
              /\ UNCHANGED <<cand, ii, power, par, vk, vk1>>
    BY <1>4 DEF ChainEnds, Goto
  <2>2. cand \in Candidates \cup Odds
    BY <1>4, <2>1 DEF PrimeInv
  <2>3. IsPrimeNumber(cand) => OddPrime(cand) /\ cand % 2 = 1 /\ LucInv(cand, par) /\ ChainInv(cand, par, ii, vk, vk1)
    BY <1>4, <2>1, CandIs DEF PrimeInv
  <2>4. IsPrimeNumber(cand) =>
          /\ vk = 2 \/ vk = cand - 2 => Vanishes
          /\ vk # 2 /\ vk # cand - 2 => TailInv(cand, par, 0, vk)
    BY <2>1, <2>3, ChainStops DEF Vanishes
  <2>5. CASE Answer(TRUE)
    BY <1>4, <2>1, <2>5, AnswerInv
  <2>6. CASE /\ ~(vk \in {2, cand - 2} /\ Vanishes)
             /\ stage' = "tail" /\ jj' = 0
             /\ UNCHANGED <<cand, ii, power, par, vk, vk1>>
    <3>1. NoPrimeRefused'
      BY <2>6 DEF NoPrimeRefused
    <3>2. IsPrimeNumber(cand) => TailInv(cand, par, 0, vk)
      BY <2>4, <2>6
    <3>3. QED
      BY <2>2, <2>3, <2>6, <3>1, <3>2 DEF PrimeInv
  <2>7. QED
    BY <2>1, <2>5, <2>6
<1>5. ASSUME PrimeInv, Doubling PROVE PrimeInv'
  <2> DEFINE v == (vk * vk - 2) % cand
  <2>1. /\ stage = "tail" /\ jj < RankOf(cand) - 1
        /\ \/ vk = 0 /\ Answer(TRUE)
           \/ vk = 2 /\ Answer(FALSE)
           \/ /\ vk \notin {0, 2}
              /\ vk' = v /\ jj' = jj + 1
              /\ UNCHANGED <<stage, cand, ii, power, par, vk1, result>>
    BY <1>5 DEF Doubling, RankOf
  <2>2. cand \in Candidates \cup Odds
    BY <1>5, <2>1 DEF PrimeInv
  <2>3. IsPrimeNumber(cand) => OddPrime(cand) /\ cand % 2 = 1 /\ LucInv(cand, par) /\ TailInv(cand, par, jj, vk)
    BY <1>5, <2>1, CandIs DEF PrimeInv
  <2>4. IsPrimeNumber(cand) /\ vk # 0 => vk # 2 /\ TailInv(cand, par, jj + 1, v)
    BY <2>1, <2>3, TailTurns DEF LucInv
  <2> HIDE DEF v
  <2>5. CASE vk = 0 /\ Answer(TRUE)
    BY <1>5, <2>1, <2>5, AnswerInv
  <2>6. CASE vk = 2 /\ Answer(FALSE)
    <3>1. ~IsPrimeNumber(cand)
      BY <2>4, <2>6
    <3>2. QED
      BY <1>5, <2>1, <2>6, <3>1, AnswerInv
  <2>7. CASE /\ vk \notin {0, 2}
             /\ vk' = v /\ jj' = jj + 1
             /\ UNCHANGED <<stage, cand, ii, power, par, vk1, result>>
    <3>1. stage' = "tail" /\ cand' = cand /\ par' = par /\ vk' = v /\ jj' = jj + 1
      BY <2>1, <2>7
    <3>2. NoPrimeRefused'
      BY <3>1 DEF NoPrimeRefused
    <3>3. IsPrimeNumber(cand) => TailInv(cand, par, jj + 1, v)
      BY <2>4, <2>7
    <3>4. QED
      BY <2>2, <2>3, <3>1, <3>2, <3>3 DEF PrimeInv
  <2>8. QED
    BY <2>1, <2>5, <2>6, <2>7
<1>6. ASSUME PrimeInv, DoublingEnds PROVE PrimeInv'
  <2>1. stage = "tail" /\ jj >= RankOf(cand) - 1 /\ Answer(FALSE)
    BY <1>6 DEF DoublingEnds, RankOf
  <2>2. IsPrimeNumber(cand) => OddPrime(cand) /\ LucInv(cand, par) /\ TailInv(cand, par, jj, vk)
    BY <1>6, <2>1, CandIs DEF PrimeInv
  <2>3. ~IsPrimeNumber(cand)
    BY <2>1, <2>2, TailEnds
  <2>4. QED
    BY <1>6, <2>1, <2>3, AnswerInv
<1>7. QED
  BY <1>1, <1>2, <1>3, <1>4, <1>5, <1>6

LEMMA PrimeNext == PrimeInv /\ [IsPrimeNext]_isPrimeVars => PrimeInv'
<1>1. ASSUME PrimeInv, UNCHANGED isPrimeVars PROVE PrimeInv'
  <2>1. UNCHANGED <<stage, cand, ii, jj, power, par, vk, vk1, result>>
    BY <1>1 DEF isPrimeVars
  <2>2. AllSquares' = AllSquares
    BY <2>1 DEF AllSquares
  <2>3. NoPrimeRefused'
    BY <1>1, <2>1, <2>2 DEF NoPrimeRefused, PrimeInv
  <2>4. QED
    BY <1>1, <2>1, <2>3 DEF PrimeInv
<1>2. QED
  BY <1>1, CallsInv, DivideInv, MillerRabinInv, LucasInv DEF IsPrimeNext, IsPrimeStep

(* No prime is refused, for every number of bits of the candidate, all     *)
(* bases, any test primes and every limit on the parameter, but where the  *)
(* limit (goo_is_prime_lucas) leaves only p whose p^2 - 4 is a square.     *)
THEOREM PrimesPass == IsPrimeSpec => []NoPrimeRefused
<1>1. PrimeInv => NoPrimeRefused
  BY DEF PrimeInv
<1>2. QED
  BY <1>1, PrimeInit, PrimeNext, PTL DEF IsPrimeSpec
=============================================================================
