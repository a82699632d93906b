------------------------------- MODULE GooSig --------------------------------
(***************************************************************************)
(* Signatures as bytes: goo_sig_export, goo_sig_import and goo_sig_size of *)
(* src/src/goo/goo.c, one action per field.  A field is written big-endian *)
(* in a fixed number of bytes, of the absolute value, for which Eq has a   *)
(* sign byte of its own at the end.  The model exports a signature, hands  *)
(* the bytes on as they are or with an error in them, imports what came    *)
(* over, and exports the result again.                                     *)
(***************************************************************************)
EXTENDS Integers, Sequences

CONSTANTS
  Byte,       \* the number of values of a byte: 256
  ModBytes,   \* (bits + 7) / 8 of the group's modulus
  ChalBytes, EllBytes, ExpBytes,
  Sigs        \* signatures to export

ASSUME SigAssumption ==
  /\ Byte \in Nat /\ Byte >= 2
  /\ {ModBytes, ChalBytes, EllBytes, ExpBytes} \subseteq Nat

VARIABLES
  pc,         \* "idle", "write", "sent", "read", "imported" or "done"
  sig,        \* the signature written or read
  data,       \* the bytes
  f,          \* the field at hand
  pos,        \* `pos` of the function that runs
  ok,         \* what it returned
  first,      \* history: the signature exported first
  wire,       \* history: the bytes handed to import
  intact      \* history: they are the bytes exported

vars == <<pc, sig, data, f, pos, ok, first, wire, intact>>

(* What goo_sig_export writes, in its order, with widths in bytes.         *)
ExportList ==
  << <<"C2", ModBytes>>, <<"C3", ModBytes>>, <<"t", 2>>, <<"chal", ChalBytes>>,
     <<"ell", EllBytes>>, <<"Aq", ModBytes>>, <<"Bq", ModBytes>>,
     <<"Cq", ModBytes>>, <<"Dq", ModBytes>>, <<"Eq", ExpBytes>>,
     <<"z_w", EllBytes>>, <<"z_w2", EllBytes>>, <<"z_s1", EllBytes>>,
     <<"z_a", EllBytes>>, <<"z_an", EllBytes>>, <<"z_s1w", EllBytes>>,
     <<"z_sa", EllBytes>>, <<"z_s2", EllBytes>> >>

(* Definitions named Bug... are defects: each is put in the place of the   *)
(* definition that follows it to see which property notices.               *)
BugImportList == [ExportList EXCEPT ![14] = <<"z_an", EllBytes>>, ![15] = <<"z_a", EllBytes>>]

(* What goo_sig_import reads: a list of its own in the code, and here.     *)
ImportList ==
  << <<"C2", ModBytes>>, <<"C3", ModBytes>>, <<"t", 2>>, <<"chal", ChalBytes>>,
     <<"ell", EllBytes>>, <<"Aq", ModBytes>>, <<"Bq", ModBytes>>,
     <<"Cq", ModBytes>>, <<"Dq", ModBytes>>, <<"Eq", ExpBytes>>,
     <<"z_w", EllBytes>>, <<"z_w2", EllBytes>>, <<"z_s1", EllBytes>>,
     <<"z_a", EllBytes>>, <<"z_an", EllBytes>>, <<"z_s1w", EllBytes>>,
     <<"z_sa", EllBytes>>, <<"z_s2", EllBytes>> >>

Fields == {"C2", "C3", "t", "chal", "ell", "Aq", "Bq", "Cq", "Dq", "Eq",
           "z_w", "z_w2", "z_s1", "z_a", "z_an", "z_s1w", "z_sa", "z_s2"}

(* Only Eq can be negative: the other fields are group elements, hashes and*)
(* remainders.  What is said of powers is arithmetic, for the proofs.      *)
ASSUME FieldsAssumption ==
  /\ Sigs \subseteq [Fields -> Int]
  /\ \A s \in Sigs : \A x \in Fields \ {"Eq"} : s[x] >= 0

ASSUME PowersAssumption ==
  /\ Byte^0 = 1
  /\ \A k \in 0..(ModBytes + ChalBytes + EllBytes + ExpBytes + 2) :
       Byte^k \in Nat /\ Byte^(k + 1) = Byte * Byte^k

(* The arguments of the macro at hand, goo_write_int(sig->name, width) or  *)
(* goo_read_int(sig->name, width).                                         *)
Name(list) == list[f][1]
Width(list) == list[f][2]

(* goo_sig_size                                                            *)
Size == ModBytes * 6 + 2 + ChalBytes + EllBytes + ExpBytes + EllBytes * 8 + 1

(* goo_sig_init                                                            *)
Zero == [x \in Fields |-> 0]

Abs(x) == IF x < 0 THEN -x ELSE x

(* goo_mpz_export behind zeros: the last w digits of |x|.                  *)
Digits(x, w) == [d \in 1..w |-> (Abs(x) \div Byte^(w - d)) % Byte]

(* goo_mpz_import                                                          *)
Value(s) ==
  LET upto[d \in 0..Len(s)] == IF d = 0 THEN 0 ELSE upto[d - 1] * Byte + s[d]
  IN upto[Len(s)]

Init ==
  /\ pc = "idle"
  /\ sig = Zero /\ data = <<>>
  /\ f = 1 /\ pos = 0 /\ ok = FALSE
  /\ first = Zero /\ wire = <<>> /\ intact = FALSE

Export(s) ==
  /\ pc = "idle"
  /\ pc' = "write"
  /\ sig' = s /\ first' = s
  /\ UNCHANGED <<data, f, pos, ok, wire, intact>>

(* goo_write_int: `bytes > (size)` ends the export.                        *)
TooWide ==
  /\ pc = "write"
  /\ f <= Len(ExportList)
  /\ Abs(sig[Name(ExportList)]) >= Byte^Width(ExportList)
  /\ pc' = "done"
  /\ ok' = FALSE
  /\ UNCHANGED <<sig, data, f, pos, first, wire, intact>>

WriteField ==
  /\ pc = "write"
  /\ f <= Len(ExportList)
  /\ Abs(sig[Name(ExportList)]) < Byte^Width(ExportList)
  /\ data' = data \o Digits(sig[Name(ExportList)], Width(ExportList))
  /\ pos' = pos + Width(ExportList)
  /\ f' = f + 1
  /\ UNCHANGED <<pc, sig, ok, first, wire, intact>>

SignByte(x) == IF x < 0 THEN 1 ELSE 0

(* The sign of Eq; the second export is the last step of the model.        *)
WriteSign ==
  /\ pc = "write"
  /\ f > Len(ExportList)
  /\ data' = Append(data, SignByte(sig["Eq"]))
  /\ pos' = pos + 1
  /\ pc' = IF wire = <<>> THEN "sent" ELSE "done"
  /\ ok' = TRUE
  /\ UNCHANGED <<sig, f, first, wire, intact>>

(* The bytes reach import as they are, with one byte another, cut short,   *)
(* or with a byte too many.                                                *)
Deliver ==
  /\ pc = "sent"
  /\ \/ wire' = data
     \/ \E d \in DOMAIN data, b \in 0..(Byte - 1) : wire' = [data EXCEPT ![d] = b]
     \/ wire' = SubSeq(data, 1, Len(data) - 1)
     \/ wire' = Append(data, 0)
  /\ intact' = (wire' = data)
  /\ pc' = "read"
  /\ sig' = Zero /\ data' = <<>>
  /\ f' = 1 /\ pos' = 0 /\ ok' = FALSE
  /\ UNCHANGED first

(* `data_len != goo_sig_size(sig, bits)`                                   *)
WrongLength ==
  /\ pc = "read"
  /\ Len(wire) # Size
  /\ pc' = "imported"
  /\ ok' = FALSE
  /\ UNCHANGED <<sig, data, f, pos, first, wire, intact>>

ReadField ==
  /\ pc = "read"
  /\ Len(wire) = Size
  /\ f <= Len(ImportList)
  /\ sig' = [sig EXCEPT ![Name(ImportList)] = Value(SubSeq(wire, pos + 1, pos + Width(ImportList)))]
  /\ pos' = pos + Width(ImportList)
  /\ f' = f + 1
  /\ UNCHANGED <<pc, data, ok, first, wire, intact>>

BugMinimal(b) == TRUE

(* `sign > 1` is refused.                                                  *)
Minimal(b) == b <= 1

(* The sign byte: more than 1 is refused, 1 negates Eq.                    *)
ReadSign ==
  /\ pc = "read"
  /\ Len(wire) = Size
  /\ f > Len(ImportList)
  /\ pos' = pos + 1
  /\ pc' = "imported"
  /\ ok' = Minimal(wire[pos'])
  /\ sig' = IF wire[pos'] # 0 /\ ok' THEN [sig EXCEPT !["Eq"] = -sig["Eq"]] ELSE sig
  /\ UNCHANGED <<data, f, first, wire, intact>>

(* What was imported is exported again.                                    *)
ExportAgain ==
  /\ pc = "imported"
  /\ ok
  /\ pc' = "write"
  /\ data' = <<>> /\ f' = 1 /\ pos' = 0
  /\ UNCHANGED <<sig, ok, first, wire, intact>>

Next ==
  \/ \E s \in Sigs : Export(s)
  \/ TooWide \/ WriteField \/ WriteSign
  \/ Deliver
  \/ WrongLength \/ ReadField \/ ReadSign
  \/ ExportAgain

Spec == Init /\ [][Next]_vars

------------------------------------------------------------------------------
(* The three lists of the fields (goo_sig_size, export, import) agree:     *)
(* `assert(goo_sig_size(sig, bits) == pos)` and `assert(pos == data_len)`  *)
(* hold, import of export is the identity for every signature that export  *)
(* takes, and it takes each one whose fields fit their widths.             *)
RoundTrip ==
  /\ pc \in {"sent", "done"} /\ ok => pos = Size /\ Len(data) = Size
  /\ pc = "imported" /\ ok => pos = Len(wire)
  /\ pc = "imported" /\ intact => ok /\ sig = first
  /\ pc = "done" /\ wire = <<>> =>
       ~ok /\ \E x \in DOMAIN ExportList : Abs(first[ExportList[x][1]]) >= Byte^ExportList[x][2]

(* A signature other than one with Eq = 0 has one encoding: what import    *)
(* accepts, export gives back byte by byte.                                *)
OneEncodingUnlessZero ==
  pc = "done" /\ wire # <<>> /\ sig["Eq"] # 0 => ok /\ data = wire

(* "Non-minimal serialization." is refused, says the comment of the check  *)
(* at goo.c:1300: then every signature has one encoding.                   *)
OneEncoding ==
  pc = "done" /\ wire # <<>> => data = wire
==============================================================================
