------------------------------ MODULE GooContext ------------------------------
(***************************************************************************)
(* The life of a context: the API object of lib/api.js, which makes a      *)
(* prover and a verifier when they are first needed, the binding of        *)
(* src/goosig.cc, which hands a context to the garbage collector, and the  *)
(* goo_create, goo_destroy, goo_challenge ... goo_verify of goo.c with the *)
(* memory they take, free and wipe.  Calls are synchronous, so there is    *)
(* one at a time; finalizers run when they like.  Of a computation only    *)
(* two things are kept: whether it fails, and which working areas of the   *)
(* context it leaves secret or public values in.  goo_malloc aborts when   *)
(* there is no memory, so it does not fail.                                *)
(***************************************************************************)
EXTENDS Naturals, Sequences

CONSTANTS
  Apis,       \* API objects
  Ctxs,       \* addresses of contexts
  Bufs,       \* addresses of the buffers that challenge and sign return
  None

ASSUME ContextAssumption == None \notin Ctxs \cup Bufs

Ops == {"challenge", "validate", "sign", "verify"}

(* The working areas: table_*, wnaf*, the windows of each pair of combs,   *)
(* the slab, and the PRNG that goo_prng_seed resets.                       *)
Areas == {"tables", "wnaf", "win0", "win1", "slab", "prng"}
Win(k) == IF k = 0 THEN "win0" ELSE "win1"

VARIABLES
  slots,      \* the _p and _v of each API object
  handles,    \* the contexts that a live external points to
  buffers,    \* the buffers that JavaScript owns
  heap,       \* what malloc and mpz_init have taken
  badFree,    \* something was freed that was not allocated
  combsLen,   \* combs_len of each context
  area,       \* what the areas of each context hold
  last,       \* history: the last goo_group_* to return on a context, and what
  call,       \* the call under way
  pc          \* where it is; "idle" when there is none

vars == <<slots, handles, buffers, heap, badFree, combsLen, area, last, call, pc>>

Clean == [x \in Areas |-> "clean"]
NoCall == [op |-> "none", api |-> None, ctx |-> None, at |-> 0, ok |-> FALSE, out |-> None]
Never == [op |-> "none", ok |-> FALSE]

Init ==
  /\ slots = [a \in Apis |-> [p |-> None, v |-> None]]
  /\ handles = {} /\ buffers = {} /\ heap = {} /\ badFree = FALSE
  /\ combsLen = [c \in Ctxs |-> 0]
  /\ area = [c \in Ctxs |-> Clean]
  /\ last = [c \in Ctxs |-> Never]
  /\ call = NoCall /\ pc = "idle"

Struct(c) == <<"struct", c>>
Ints(c) == <<"ints", c>>           \* n, g, h, nh, the tables' and the PRNG's
Comb(c, k) == <<"comb", c, k>>     \* items and wins of the pair for g and h
Out(b) == <<"out", b>>
ApiLocals == <<"locals", "api">>
GroupLocals == <<"locals", "group">>

Take(blocks) == heap' = heap \cup blocks /\ UNCHANGED badFree
Free(blocks) ==
  /\ heap' = heap \ blocks
  /\ badFree' = (badFree \/ ~(blocks \subseteq heap))

Goto(l) == pc' = l

------------------------------------------------------------------------------
(* lib/api.js and the garbage collector.                                   *)

(* Definitions named Bug... are defects: each is put in the place of the   *)
(* definition that follows it to see which property notices.               *)
BugSlotOf(op) == IF op \in {"verify", "challenge"} THEN "v" ELSE "p"

SlotOf(op) == IF op = "verify" THEN "v" ELSE "p"

(* A method of an API object: _prover() or _verifier() makes the context   *)
(* if there is none, and keeps none when goosig_create throws.             *)
Call(a, op) ==
  /\ pc = "idle"
  /\ LET c == slots[a][SlotOf(op)] IN
       /\ call' = [NoCall EXCEPT !.op = op, !.api = a, !.ctx = c]
       /\ Goto(IF c = None THEN "malloc" ELSE "enter")
  /\ UNCHANGED <<slots, handles, buffers, heap, badFree, combsLen, area, last>>

(* The object is dropped and another one made in its place: its contexts   *)
(* are not reachable any more.                                             *)
Renew(a) ==
  /\ pc = "idle"
  /\ slots' = [slots EXCEPT ![a] = [p |-> None, v |-> None]]
  /\ UNCHANGED <<handles, buffers, heap, badFree, combsLen, area, last, call, pc>>

Reachable(c) == \E a \in Apis : c \in {slots[a].p, slots[a].v}

Return ==
  /\ pc' = "idle" /\ call' = NoCall

------------------------------------------------------------------------------
(* goosig_create, goo_create and goo_group_init.                           *)

IsProver == SlotOf(call.op) = "p"
C == call.ctx

(* goo_group_uninit.                                                       *)
Uninit(c) == {Ints(c)} \cup {Comb(c, k) : k \in 0..(combsLen[c] - 1)}

(* What freed memory holds is not followed.                                *)
Forget(c) ==
  /\ area' = [area EXCEPT ![c] = Clean]
  /\ last' = [last EXCEPT ![c] = Never]

(* malloc leaves what was there before in combs_len.                       *)
Malloc ==
  /\ pc = "malloc"
  /\ \E c \in Ctxs, was \in 0..2 :
       /\ Struct(c) \notin heap
       /\ Take({Struct(c), ApiLocals})
       /\ call' = [call EXCEPT !.ctx = c]
       /\ combsLen' = [combsLen EXCEPT ![c] = was]
  /\ Goto("init")
  /\ UNCHANGED <<slots, handles, buffers, area, last>>

Cleared(c) == [combsLen EXCEPT ![c] = 0]

GroupInit ==
  /\ pc = "init"
  /\ Take({Ints(C)})
  /\ combsLen' = Cleared(C)
  /\ Goto("prefix")
  /\ UNCHANGED <<slots, handles, buffers, area, last, call>>

(* goo_create without a modulus, as the data of an empty Buffer may be:    *)
(* the struct goes back without goo_group_uninit.                          *)
NoModulus ==
  /\ pc = "init"
  /\ Free({Struct(C), ApiLocals})
  /\ combsLen' = Cleared(C)
  /\ Return
  /\ UNCHANGED <<slots, handles, buffers, area, last>>

(* The hash of g, h and n, through the slab.                               *)
HashPrefix ==
  /\ pc = "prefix"
  /\ area' = [area EXCEPT ![C]["slab"] = "public"]
  /\ \/ Goto("plan") /\ call' = [call EXCEPT !.at = 1]
     \/ Goto("undo") /\ UNCHANGED call
  /\ UNCHANGED <<slots, handles, buffers, heap, badFree, combsLen, last>>

BugPlan == IF IsProver THEN <<"range", "spec", "comb1", "spec", "comb0">>
           ELSE <<"spec", "comb0">>
Plan == IF IsProver THEN <<"range", "spec", "spec", "comb0", "comb1">>
        ELSE <<"spec", "comb0">>

(* The range of bits, combspec_init (whose own array is freed on every     *)
(* path) and comb_init; combs_len counts the combs only at the end.        *)
PlanStep ==
  /\ pc = "plan" /\ call.at <= Len(Plan)
  /\ Plan[call.at] \in {"range", "spec"}
  /\ \/ call' = [call EXCEPT !.at = @ + 1] /\ UNCHANGED pc
     \/ Goto("undo") /\ UNCHANGED call
  /\ UNCHANGED <<slots, handles, buffers, heap, badFree, combsLen, area, last>>

CombInit ==
  /\ pc = "plan" /\ call.at <= Len(Plan)
  /\ \E k \in {0, 1} :
       /\ Plan[call.at] = <<"comb0", "comb1">>[k + 1]
       /\ Take({Comb(C, k)})
  /\ call' = [call EXCEPT !.at = @ + 1]
  /\ UNCHANGED <<slots, handles, buffers, combsLen, area, last, pc>>

(* The context is handed over to the external, whose finalizer destroys it,*)
(* and the call that needed it goes on.                                    *)
Created ==
  /\ pc = "plan" /\ call.at > Len(Plan)
  /\ combsLen' = [combsLen EXCEPT ![C] = IF IsProver THEN 2 ELSE 1]
  /\ Free({ApiLocals})
  /\ handles' = handles \cup {C}
  /\ slots' = [slots EXCEPT ![call.api][SlotOf(call.op)] = C]
  /\ Goto("enter")
  /\ UNCHANGED <<buffers, area, last, call>>

(* goo_group_uninit, then goo_free in goo_create; goosig_create throws.    *)
Undo ==
  /\ pc = "undo"
  /\ Free(Uninit(C) \cup {Struct(C), ApiLocals})
  /\ combsLen' = [combsLen EXCEPT ![C] = 0]
  /\ Forget(C)
  /\ Return
  /\ UNCHANGED <<slots, handles, buffers>>

(* goosig_destroy, goo_destroy: the finalizer of an external.              *)
Finalize(c) ==
  /\ c \in handles /\ ~Reachable(c)
  /\ handles' = handles \ {c}
  /\ Free(Uninit(c) \cup {Struct(c)})
  /\ combsLen' = [combsLen EXCEPT ![c] = 0]
  /\ Forget(c)
  /\ UNCHANGED <<slots, buffers, call, pc>>

FinalizeBuffer(b) ==
  /\ b \in buffers
  /\ buffers' = buffers \ {b}
  /\ Free({Out(b)})
  /\ UNCHANGED <<slots, handles, combsLen, area, last, call, pc>>

------------------------------------------------------------------------------
(* goosig_challenge ... goosig_verify, and the functions below them.       *)

(* s_prime of a wrong length throws, C1 of a wrong length or a missing     *)
(* argument is refused: nothing is touched.                                *)
EnterRefuses ==
  /\ pc = "enter"
  /\ Return
  /\ UNCHANGED <<slots, handles, buffers, heap, badFree, combsLen, area, last>>

Enter ==
  /\ pc = "enter"
  /\ Take({ApiLocals, GroupLocals})
  /\ call' = [call EXCEPT !.at = 1]
  /\ Goto("group")
  /\ UNCHANGED <<slots, handles, buffers, combsLen, area, last>>

(* goo_verify: goo_sig_import fails before the group is asked.             *)
BadSignature ==
  /\ pc = "enter" /\ call.op = "verify"
  /\ Take({ApiLocals})
  /\ Goto("leave")
  /\ UNCHANGED <<slots, handles, buffers, combsLen, area, last, call>>

Stages ==
  CASE call.op = "challenge" -> <<"check", "expand", "powgh">>
    [] call.op = "validate" -> <<"check", "expand", "powgh", "check">>
    [] call.op = "sign" ->
         <<"check", "seed", "check", "expand", "powgh", "powgh", "check", "powgh",
           "pow", "powgh", "derive", "powgh", "pow", "powgh">>
    [] OTHER -> <<"check", "pow", "powgh", "pow", "powgh", "derive", "check">>

(* What an exponent or a seed is: verify has no secrets.                   *)
Taint == IF call.op = "verify" THEN "public" ELSE "secret"

Seeded(x) == [x EXCEPT !["slab"] = "public", !["prng"] = "public"]

(* The areas after a stage.  seed_sign wipes the slab it passes p and q    *)
(* through; powgh recodes into the first pair of combs that holds the      *)
(* exponents; goo_group_hash fills the slab and goo_group_derive reseeds.  *)
After(stage, x) ==
  CASE stage = "expand" -> {[x EXCEPT !["prng"] = "secret"]}
    [] stage = "seed" -> {[x EXCEPT !["slab"] = "clean"]}
    [] stage = "powgh" -> {[x EXCEPT ![Win(k)] = Taint] : k \in 0..(combsLen[C] - 1)}
    [] stage = "pow" -> {[x EXCEPT !["wnaf"] = Taint, !["tables"] = "public"]}
    [] stage = "derive" -> {Seeded(x)}
    [] OTHER -> {x}

Stage ==
  /\ pc = "group" /\ call.at <= Len(Stages)
  /\ \E x \in After(Stages[call.at], area[C]) : area' = [area EXCEPT ![C] = x]
  /\ call' = [call EXCEPT !.at = @ + 1]
  /\ UNCHANGED <<slots, handles, buffers, heap, badFree, combsLen, last, pc>>

(* No prime follows ell', or it is too long: sign goes back to the draw of *)
(* r_s1 and the powgh for A.                                               *)
TryAgain ==
  /\ pc = "group" /\ call.op = "sign"
  /\ call.at > 1 /\ call.at <= Len(Stages) /\ Stages[call.at - 1] = "derive"
  /\ call' = [call EXCEPT !.at = @ - 2]
  /\ UNCHANGED <<slots, handles, buffers, heap, badFree, combsLen, area, last, pc>>

(* A jump to `fail` from a stage that can fail; goo_group_seed_sign wipes  *)
(* the slab when it does, goo_group_hash leaves what it wrote.  verify     *)
(* looks at what pow2 returns, sign does not look at pow's.                *)
StageFails ==
  /\ pc = "group" /\ call.at <= Len(Stages)
  /\ \/ Stages[call.at] \in {"check", "seed", "powgh", "derive"}
     \/ Stages[call.at] = "pow" /\ call.op = "verify"
  /\ area' = [area EXCEPT ![C]["slab"] =
                CASE Stages[call.at] = "seed" -> "clean"
                  [] Stages[call.at] = "derive" -> "public"
                  [] OTHER -> @]
  /\ Goto("clear")
  /\ UNCHANGED <<slots, handles, buffers, heap, badFree, combsLen, last, call>>

StagesDone ==
  /\ pc = "group" /\ call.at > Len(Stages)
  /\ call' = [call EXCEPT !.ok = TRUE]
  /\ Goto("clear")
  /\ UNCHANGED <<slots, handles, buffers, heap, badFree, combsLen, area, last>>

(* goo_group_cleanse, with goo_comb_cleanse of every comb.                 *)
BugWiped(c) == {"tables", "wnaf", "win0", "slab"}
Wiped(c) == {"tables", "wnaf", "slab"} \cup {Win(k) : k \in 0..(combsLen[c] - 1)}

(* The end of goo_group_*, from whichever jump to `fail`.                  *)
Clear ==
  /\ pc = "clear"
  /\ Free({GroupLocals})
  /\ area' = IF call.op \in {"validate", "sign"}
               THEN [area EXCEPT ![C] = [x \in Areas |-> IF x \in Wiped(C) THEN "clean" ELSE @[x]]]
             ELSE area
  /\ last' = [last EXCEPT ![C] = [op |-> call.op, ok |-> call.ok]]
  /\ Goto(IF call.ok /\ call.op \in {"challenge", "sign"} THEN "export" ELSE "leave")
  /\ UNCHANGED <<slots, handles, buffers, combsLen, call>>

(* goo_mpz_pad for C1, goo_sig_export; data is freed if it fails.          *)
Export ==
  /\ pc = "export"
  /\ \/ \E b \in Bufs :
          /\ Out(b) \notin heap
          /\ Take({Out(b)})
          /\ call' = [call EXCEPT !.out = b]
     \/ UNCHANGED <<heap, badFree, call>>
  /\ Goto("leave")
  /\ UNCHANGED <<slots, handles, buffers, combsLen, area, last>>

(* The locals are cleared, and the binding makes a boolean, a buffer that  *)
(* frees what it points to, or an exception.                               *)
Leave ==
  /\ pc = "leave"
  /\ Free({ApiLocals})
  /\ buffers' = buffers \cup ({call.out} \ {None})
  /\ Return
  /\ UNCHANGED <<slots, handles, combsLen, area, last>>

Next ==
  \/ \E a \in Apis : Renew(a) \/ \E op \in Ops : Call(a, op)
  \/ Malloc \/ NoModulus \/ GroupInit \/ HashPrefix \/ PlanStep \/ CombInit \/ Created \/ Undo
  \/ EnterRefuses \/ BadSignature \/ Enter \/ Stage \/ TryAgain \/ StageFails \/ StagesDone
  \/ Clear \/ Export \/ Leave
  \/ \E c \in Ctxs : Finalize(c)
  \/ \E b \in Bufs : FinalizeBuffer(b)

(* A call that has begun goes on to its end.                               *)
Spec == Init /\ [][Next]_vars

------------------------------------------------------------------------------
Whole(c) == {Struct(c), Ints(c)} \cup {Comb(c, k) : k \in 0..(combsLen[c] - 1)}

(* Between calls, what is allocated is what the live contexts and buffers  *)
(* consist of: whichever step of which call failed, nothing was left       *)
(* behind, and nothing that is still pointed to was freed.  And what is    *)
(* freed was allocated, once: goo_group_uninit counts on a combs_len that  *)
(* goo_group_init has set, whatever malloc returned.                       *)
NothingLost ==
  /\ pc = "idle" => heap = (UNION {Whole(c) : c \in handles}) \cup {Out(b) : b \in buffers}
  /\ ~badFree

(* After goo_group_validate and goo_group_sign, however they ended, the    *)
(* tables, the recoded exponents and the slab hold no secret.  After a     *)
(* goo_group_sign that succeeded not even the PRNG does: it was reseeded   *)
(* from the public challenge after it had expanded s_prime.                *)
(* (goo_group_challenge does not wipe: the windows of s stay until the     *)
(* next of these two is entered, or for good.  A goo_validate or goo_sign  *)
(* that refuses its arguments gets to neither, and wipes nothing.)         *)
ScratchWiped ==
  \A c \in handles : ~(pc # "idle" /\ C = c) =>
    /\ last[c].op \in {"validate", "sign"} =>
         \A x \in Areas \ {"prng"} : area[c][x] # "secret"
    /\ last[c] = [op |-> "sign", ok |-> TRUE] => area[c]["prng"] # "secret"

(* No secret is ever written into a context that an API object verifies    *)
(* with.                                                                   *)
VerifierHoldsNoSecret ==
  \A a \in Apis :
    slots[a].v # None => \A x \in Areas : area[slots[a].v][x] # "secret"
==============================================================================
