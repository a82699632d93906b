------------------------------- MODULE GooWnaf -------------------------------
(***************************************************************************)
(* goo_group_pow and goo_group_pow2 of src/src/goo/goo.c: products of      *)
(* powers b1^e1 * b2^e2 by signed windows.  Each base and its inverse get  *)
(* a table of odd powers, each exponent is recoded into signed odd digits, *)
(* one position per turn of a loop, and the digits are evaluated from the  *)
(* top.  A call has one exponent (pow) or two (pow2); pow has an array of  *)
(* digits of its own, as long as the longest modulus.                      *)
(*                                                                         *)
(* An element is the function from bases to exponents: what is checked is  *)
(* exponents, which holds in the group whatever its order.                 *)
(***************************************************************************)
EXTENDS Integers, Sequences

CONSTANTS
  WindowSize,   \* GOO_WINDOW_SIZE
  PowBits,      \* widest exponent of pow: GOO_MAX_RSA_BITS
  Pow2Bits,     \* widest exponent of pow2: GOO_ELL_BITS
  PowExps,      \* the exponents pow is called with
  Pow2Exps,     \* the exponents pow2 is called with
  Pow2,         \* the powers of two, as far as they are needed
  Stale         \* what may be in the tables when a call begins

(* 2^n for n up to the longest recoding and the window.                    *)
LongestPower == PowBits + Pow2Bits + WindowSize + 2

ASSUME WnafAssumption ==
  /\ WindowSize \in Nat /\ WindowSize >= 2
  /\ PowBits \in Nat /\ Pow2Bits \in Nat
  /\ PowExps \subseteq Int /\ Pow2Exps \subseteq Int /\ Stale \subseteq Int

ASSUME Pow2Assumption ==
  /\ Pow2[0] = 1
  /\ \A n \in 0..LongestPower : Pow2[n] \in Nat
  /\ \A n \in 0..(LongestPower - 1) : Pow2[n + 1] = 2 * Pow2[n]

VARIABLES
  powPc,       \* "idle", "table", "recode", "eval" or "done"
  es,          \* the exponents of the call, a sequence of one or two
  digitsLen,   \* its local `bits`
  table,       \* table_p1, table_n1, table_p2, table_n2 of the group
  k,           \* the table at hand, then the exponent
  e,           \* what is left of it
  pos,         \* the loop index of the table, of goo_group_wnaf, of the evaluation
  digits,      \* wnaf0, or wnaf1 and wnaf2
  powRet,      \* the product so far
  powOk        \* the result of the call

powVars == <<powPc, es, digitsLen, table, k, e, pos, digits, powRet, powOk>>

Bases == 1..2
Power(b, x) == [c \in Bases |-> IF c = b THEN x ELSE 0]
PowOne == [c \in Bases |-> 0]
PowMul(x, y) == [c \in Bases |-> x[c] + y[c]]

TableLen == Pow2[WindowSize - 2]
Slots == 0..(TableLen - 1)

(* table_p1, table_n1, table_p2, table_n2: the tables of a base and of its *)
(* inverse.                                                                *)
Tables == 1..4
PTable(b) == 2 * b - 1
NTable(b) == 2 * b
TableBase(t) == IF t % 2 = 1 THEN Power((t + 1) \div 2, 1) ELSE Power(t \div 2, -1)

(* The position of the highest bit: the least n with |x| < 2^n.            *)
Magnitude(x) == IF x < 0 THEN -x ELSE x
BitLength(x) ==
  IF Magnitude(x) >= Pow2[LongestPower] THEN LongestPower + 1
  ELSE CHOOSE n \in 0..LongestPower :
         /\ Magnitude(x) < Pow2[n]
         /\ n > 0 => Pow2[n - 1] <= Magnitude(x)

(* Before a call: the tables hold the odd powers of an earlier base.       *)
PowInit ==
  /\ powPc = "idle"
  /\ es = <<>> /\ digitsLen = 0
  /\ \E x \in Stale :
       table = [t \in Tables |-> [s \in Slots |-> [c \in Bases |-> (2 * s + 1) * x]]]
  /\ k = 1 /\ e = 0 /\ pos = 0
  /\ digits = <<>>
  /\ powRet = PowOne
  /\ powOk = FALSE

Cap(xs) == IF Len(xs) = 1 THEN PowBits + 1 ELSE Pow2Bits + 1

MaxLen(xs) ==
  LET lens == {BitLength(xs[j]) : j \in DOMAIN xs}
  IN CHOOSE n \in lens : \A m \in lens : m <= n

(* One digit more than the longest exponent has bits: the carry.           *)
BitsOf(xs) == MaxLen(xs) + 1

(* The early returns: too wide for the array of digits, or negative.       *)
PowRefuse(xs) ==
  /\ powPc = "idle"
  /\ BitsOf(xs) > Cap(xs) \/ \E j \in DOMAIN xs : xs[j] < 0
  /\ powPc' = "done"
  /\ es' = xs
  /\ powOk' = FALSE
  /\ UNCHANGED <<digitsLen, table, k, e, pos, digits, powRet>>

Precompute(xs) ==
  /\ powPc = "idle"
  /\ BitsOf(xs) <= Cap(xs)
  /\ \A j \in DOMAIN xs : xs[j] >= 0
  /\ powPc' = "table"
  /\ es' = xs
  /\ digitsLen' = BitsOf(xs)
  /\ k' = 1
  /\ pos' = 0
  /\ powOk' = FALSE
  /\ UNCHANGED <<table, e, digits, powRet>>

(* goo_group_precomp_table: b, b^3, b^5, ...  The square of b is kept in   *)
(* the last slot, which the last turn of the loop overwrites from itself.  *)
TableStart ==
  /\ powPc = "table"
  /\ pos = 0
  /\ LET b == TableBase(k)
     IN table' = [table EXCEPT ![k] =
                    [[@ EXCEPT ![TableLen - 1] = PowMul(b, b)] EXCEPT ![0] = b]]
  /\ pos' = 1
  /\ UNCHANGED <<powPc, es, digitsLen, k, e, digits, powRet, powOk>>

(* Definitions named Bug... are defects: each is put in the place of the   *)
(* definition that follows it to see which property notices.               *)
(* The square is looked for in a slot that the loop has overwritten.       *)
BugNextPower(t, i) == PowMul(t[i - 1], t[1])

NextPower(t, i) == PowMul(t[i - 1], t[TableLen - 1])

TableTurn ==
  /\ powPc = "table"
  /\ pos > 0 /\ pos < TableLen
  /\ table' = [table EXCEPT ![k] = [@ EXCEPT ![pos] = NextPower(table[k], pos)]]
  /\ pos' = pos + 1
  /\ UNCHANGED <<powPc, es, digitsLen, k, e, digits, powRet, powOk>>

(* goo_group_precomp_wnaf for each base: the powers of it, then of its     *)
(* inverse.                                                                *)
TableNext ==
  /\ powPc = "table"
  /\ pos = TableLen
  /\ k < 2 * Len(es)
  /\ k' = k + 1
  /\ pos' = 0
  /\ UNCHANGED <<powPc, es, digitsLen, table, e, digits, powRet, powOk>>

(* The entry of the recoding of the first exponent.                        *)
TablesEnd ==
  /\ powPc = "table"
  /\ pos = TableLen
  /\ k = 2 * Len(es)
  /\ powPc' = "recode"
  /\ k' = 1
  /\ e' = es[1]
  /\ pos' = digitsLen - 1
  /\ digits' = [j \in DOMAIN es |-> [x \in 0..(digitsLen - 1) |-> 0]]
  /\ UNCHANGED <<es, digitsLen, table, powRet, powOk>>

(* The window is read as an unsigned number.                               *)
BugDigit(x) == IF x % 2 = 0 THEN 0 ELSE x % Pow2[WindowSize]

(* The digit for the low window of x, in (-2^(w-1), 2^(w-1)).              *)
Digit(x) ==
  IF x % 2 = 0 THEN 0
  ELSE LET low == x % Pow2[WindowSize]
       IN IF low >= Pow2[WindowSize - 1] THEN low - Pow2[WindowSize] ELSE low

(* A turn of the loop of goo_group_wnaf; position 0 is the highest.        *)
WnafTurn ==
  /\ powPc = "recode"
  /\ pos >= 0
  /\ digits' = [digits EXCEPT ![k][pos] = Digit(e)]
  /\ e' = (e - Digit(e)) \div 2
  /\ pos' = pos - 1
  /\ UNCHANGED <<powPc, es, digitsLen, table, k, powRet, powOk>>

(* The recoding of one exponent ends: the next one, or the evaluation.     *)
WnafNext ==
  /\ powPc = "recode"
  /\ pos < 0
  /\ k < Len(es)
  /\ k' = k + 1
  /\ e' = es[k + 1]
  /\ pos' = digitsLen - 1
  /\ UNCHANGED <<powPc, es, digitsLen, table, digits, powRet, powOk>>

WnafEnds ==
  /\ powPc = "recode"
  /\ pos < 0
  /\ k = Len(es)
  /\ powPc' = "eval"
  /\ pos' = 0
  /\ powRet' = PowOne
  /\ UNCHANGED <<es, digitsLen, table, k, e, digits, powOk>>

(* goo_group_one_mul: the element digit w of base b stands for.            *)
OneMul(b, w) ==
  IF w > 0 THEN table[PTable(b)][(w - 1) \div 2]
  ELSE IF w < 0 THEN table[NTable(b)][(-1 - w) \div 2]
  ELSE PowOne

(* A turn of the evaluation: square, except before the first digit, and    *)
(* multiply by the digit of every exponent.                                *)
Evaluate ==
  /\ powPc = "eval"
  /\ pos < digitsLen
  /\ LET squared == IF pos = 0 THEN powRet ELSE PowMul(powRet, powRet)
         first == PowMul(squared, OneMul(1, digits[1][pos]))
     IN powRet' = IF Len(es) = 1 THEN first ELSE PowMul(first, OneMul(2, digits[2][pos]))
  /\ pos' = pos + 1
  /\ UNCHANGED <<powPc, es, digitsLen, table, k, e, digits, powOk>>

PowReturn ==
  /\ powPc = "eval"
  /\ pos = digitsLen
  /\ powPc' = "done"
  /\ powOk' = TRUE
  /\ UNCHANGED <<es, digitsLen, table, k, e, pos, digits, powRet>>

(* goo_group_pow, called by sign, and goo_group_pow2, called by recover.   *)
GroupPow(x) == PowRefuse(<<x>>) \/ Precompute(<<x>>)
GroupPow2(x, y) == PowRefuse(<<x, y>>) \/ Precompute(<<x, y>>)

PowStep ==
  \/ TableStart \/ TableTurn \/ TableNext \/ TablesEnd
  \/ WnafTurn \/ WnafNext \/ WnafEnds \/ Evaluate \/ PowReturn

PowNext ==
  \/ \E x \in PowExps : GroupPow(x)
  \/ \E x, y \in Pow2Exps : GroupPow2(x, y)
  \/ PowStep

PowSpec == PowInit /\ [][PowNext]_powVars

------------------------------------------------------------------------------
(* The digits are those of the window method.  They use up the exponent,   *)
(* the carry of a negative top digit included, as the assertion of         *)
(* goo_group_wnaf says (mpz_sgn(e) == 0).  Each fits the tables: it is     *)
(* zero, or odd and below 2^(w-1) in size.  And of any WindowSize digits   *)
(* in a row at most one is not zero, which bounds the work of evaluation.  *)
DigitsSparse ==
  /\ powPc = "recode" /\ pos < 0 => e = 0
  /\ powPc = "eval" =>
       \A j \in DOMAIN digits : \A x \in 0..(digitsLen - 1) :
         digits[j][x] # 0 =>
           /\ digits[j][x] % 2 = 1
           /\ Magnitude(digits[j][x]) < Pow2[WindowSize - 1]
           /\ \A y \in 0..(digitsLen - 1) :
                x < y /\ y < x + WindowSize => digits[j][y] = 0

(* The result is the product of the powers asked for, each base to its own *)
(* exponent, whatever the tables and digits of an earlier call held.       *)
PowerIsExact ==
  powPc = "done" /\ powOk =>
    powRet = [c \in Bases |-> IF c <= Len(es) THEN es[c] ELSE 0]
==============================================================================
