--------------------------- MODULE GooContextProofs ---------------------------
(***************************************************************************)
(* Proofs about the state a context keeps.  Of GooContext, for any number  *)
(* of API objects, contexts and buffers: nothing is leaked or freed twice, *)
(* and secrets are wiped.  Of GooPrng, the generator in every group, for   *)
(* every word size, every set of requests and every bound: it hands out    *)
(* each bit of its seed's stream at most once, loses none and keeps their  *)
(* order.                                                                  *)
(***************************************************************************)
EXTENDS GooContext, GooPrng, Integers, SequenceTheorems, TLAPS

------------------------------------------------------------------------------
(* Contexts: the types, and what a call under way holds.                   *)

Building == {"init", "prefix", "plan", "undo"}
Using == {"enter", "group", "clear", "export", "leave"}
Pcs == {"idle", "malloc"} \cup Building \cup Using
Contents == {"clean", "public", "secret"}

Calls == [op : Ops \cup {"none"}, api : Apis \cup {None}, ctx : Ctxs \cup {None},
          at : Nat, ok : BOOLEAN, out : Bufs \cup {None}]

Types ==
  /\ slots \in [Apis -> [p : Ctxs \cup {None}, v : Ctxs \cup {None}]]
  /\ handles \subseteq Ctxs
  /\ buffers \subseteq Bufs
  /\ combsLen \in [Ctxs -> 0..2]
  /\ area \in [Ctxs -> [Areas -> Contents]]
  /\ last \in [Ctxs -> [op : Ops \cup {"none"}, ok : BOOLEAN]]
  /\ call \in Calls
  /\ pc \in Pcs

(* The call under way: a context is its own until it is handed over, and   *)
(* then it stays in its slot.                                              *)
CallInv ==
  /\ pc # "idle" => call.op \in Ops /\ call.api \in Apis
  /\ pc \in Building => /\ C \in Ctxs \ handles
                        /\ pc # "init" => combsLen[C] = 0
  /\ pc \in Using => C \in handles /\ slots[call.api][SlotOf(call.op)] = C
  /\ pc = "plan" => call.at \in 1..(Len(Plan) + 1)
  /\ pc = "group" => call.at \in 1..(Len(Stages) + 1)
  /\ pc # "leave" => call.out = None
  /\ call.out # None => call.out \notin buffers

(* Slots point to live contexts, and none is a prover here and a verifier  *)
(* there.                                                                  *)
SlotsInv ==
  /\ \A a \in Apis : slots[a].p \in handles \cup {None} /\ slots[a].v \in handles \cup {None}
  /\ \A a, b \in Apis : slots[a].v # None => slots[b].p # slots[a].v

(* The first comb of the plan is the step FirstComb.                       *)
FirstComb == IF IsProver THEN 4 ELSE 2

(* What is allocated, kind by kind.                                        *)
StructsHeld ==
  \A c \in Ctxs : Struct(c) \in heap <=> c \in handles \/ (pc \in Building /\ c = C)
IntsHeld ==
  \A c \in Ctxs : Ints(c) \in heap <=> c \in handles \/ (pc \in Building \ {"init"} /\ c = C)
CombsHeld ==
  \A c \in Ctxs, n \in Nat :
    Comb(c, n) \in heap <=> \/ c \in handles /\ n < combsLen[c]
                            \/ pc = "plan" /\ c = C /\ FirstComb + n < call.at
OutsHeld == \A b \in Bufs : Out(b) \in heap <=> b \in buffers \/ b = call.out
LocalsHeld ==
  /\ ApiLocals \in heap <=> pc \in Building \cup (Using \ {"enter"})
  /\ GroupLocals \in heap <=> pc \in {"group", "clear"}

Block(x) ==
  \/ x \in {ApiLocals, GroupLocals}
  \/ \E c \in Ctxs : x \in {Struct(c), Ints(c)} \/ \E n \in Nat : x = Comb(c, n)
  \/ \E b \in Bufs : x = Out(b)

HeapInv ==
  /\ ~badFree
  /\ StructsHeld /\ IntsHeld /\ CombsHeld /\ OutsHeld /\ LocalsHeld
  /\ \A x \in heap : Block(x)

NoSecret(c) == \A x \in Areas : area[c][x] # "secret"

(* Windows of a comb that the context does not have are never written, and *)
(* a context that is not in use yet holds nothing secret.                  *)
AreaInv ==
  /\ \A c \in Ctxs \ handles : last[c] = Never /\ NoSecret(c) /\ area[c]["win1"] = "clean"
  /\ \A c \in handles : /\ combsLen[c] \in {1, 2}
                        /\ combsLen[c] = 1 => area[c]["win1"] = "clean"

WipedAfterwards(c) ==
  /\ last[c].op \in {"validate", "sign"} => \A x \in Areas \ {"prng"} : area[c][x] # "secret"
  /\ last[c] = [op |-> "sign", ok |-> TRUE] => area[c]["prng"] # "secret"

(* sign derives the challenge, which seeds the PRNG again, at stage 11,    *)
(* and never expands s_prime after that; a call is a success only once all *)
(* of its stages are done.                                                 *)
WipeInv ==
  /\ call.ok => pc \in {"clear", "export", "leave"}
  /\ \A c \in handles : ~(pc \in {"group", "clear"} /\ c = C) => WipedAfterwards(c)
  /\ call.op = "sign" =>
       /\ pc = "group" /\ call.at > 11 => area[C]["prng"] # "secret"
       /\ pc = "clear" /\ call.ok => area[C]["prng"] # "secret"

ContextInv ==
  /\ Types /\ CallInv /\ SlotsInv /\ HeapInv /\ AreaInv /\ WipeInv
  /\ VerifierHoldsNoSecret
------------------------------------------------------------------------------
(* Blocks of different kinds, and of different contexts, are different.    *)
LEMMA BlocksDiffer ==
  /\ \A c, d : /\ Struct(c) = Struct(d) => c = d
               /\ Ints(c) = Ints(d) => c = d
               /\ Struct(c) # Ints(d)
               /\ Out(c) = Out(d) => c = d
               /\ Out(c) # Struct(d) /\ Out(c) # Ints(d)
               /\ Struct(c) # ApiLocals /\ Struct(c) # GroupLocals
               /\ Ints(c) # ApiLocals /\ Ints(c) # GroupLocals
               /\ Out(c) # ApiLocals /\ Out(c) # GroupLocals
  /\ \A c, d, n, m : Comb(c, n) = Comb(d, m) => c = d /\ n = m
  /\ \A c, d, n : /\ Comb(c, n) # Struct(d) /\ Comb(c, n) # Ints(d)
                  /\ Comb(c, n) # Out(d)
                  /\ Comb(c, n) # ApiLocals /\ Comb(c, n) # GroupLocals
  /\ ApiLocals # GroupLocals
BY DEF Struct, Ints, Comb, Out, ApiLocals, GroupLocals

(* What the steps make of the record of the call.                          *)
LEMMA CallUpdates ==
  ASSUME NEW x \in Calls
  PROVE  /\ \A n \in Nat : /\ [x EXCEPT !.at = n] \in Calls
                           /\ [x EXCEPT !.at = n].at = n
                           /\ [x EXCEPT !.at = n].op = x.op
                           /\ [x EXCEPT !.at = n].api = x.api
                           /\ [x EXCEPT !.at = n].ctx = x.ctx
                           /\ [x EXCEPT !.at = n].ok = x.ok
                           /\ [x EXCEPT !.at = n].out = x.out
         /\ \A c \in Ctxs : /\ [x EXCEPT !.ctx = c] \in Calls
                            /\ [x EXCEPT !.ctx = c].at = x.at
                            /\ [x EXCEPT !.ctx = c].op = x.op
                            /\ [x EXCEPT !.ctx = c].api = x.api
                            /\ [x EXCEPT !.ctx = c].ctx = c
                            /\ [x EXCEPT !.ctx = c].out = x.out
         /\ \A b \in Bufs : /\ [x EXCEPT !.out = b] \in Calls
                            /\ [x EXCEPT !.out = b].op = x.op
                            /\ [x EXCEPT !.out = b].api = x.api
                            /\ [x EXCEPT !.out = b].ctx = x.ctx
                            /\ [x EXCEPT !.out = b].ok = x.ok
                            /\ [x EXCEPT !.out = b].out = b
         /\ [x EXCEPT !.ok = TRUE] \in Calls
         /\ [x EXCEPT !.ok = TRUE].op = x.op /\ [x EXCEPT !.ok = TRUE].api = x.api
         /\ [x EXCEPT !.ok = TRUE].ctx = x.ctx /\ [x EXCEPT !.ok = TRUE].out = x.out
BY DEF Calls

LEMMA NoCallType == NoCall \in Calls /\ NoCall.out = None /\ NoCall.op = "none"
BY DEF NoCall, Calls

LEMMA InitTypes == Init => Types
<1>1. Clean \in [Areas -> Contents]
  BY DEF Clean, Areas, Contents
<1>2. Never \in [op : Ops \cup {"none"}, ok : BOOLEAN]
  BY DEF Never
<1>3. QED
  BY <1>1, <1>2, NoCallType DEF Init, Types, Pcs

LEMMA AfterTypes ==
  ASSUME Types, C \in Ctxs, NEW stage, NEW x \in After(stage, area[C])
  PROVE  x \in [Areas -> Contents]
<1>1. area[C] \in [Areas -> Contents]
  BY DEF Types
<1>2. Taint \in Contents
  BY DEF Taint, Contents
<1>3. \A n : Win(n) \in Areas
  BY DEF Win, Areas
<1>4. QED
  BY <1>1, <1>2, <1>3 DEF After, Seeded, Areas, Contents

LEMMA StepTypes ==
  ASSUME Types, CallInv, [Next]_vars
  PROVE  Types'
<1>1. CASE UNCHANGED vars
  BY <1>1 DEF vars, Types
<1>2. ASSUME NEW a \in Apis, Renew(a) PROVE Types'
  BY <1>2 DEF Renew, Types
<1>3. ASSUME NEW a \in Apis, NEW op \in Ops, Call(a, op) PROVE Types'
  <2>1. call' \in Calls
    BY <1>3, NoCallType DEF Call, Types, NoCall, Calls, SlotOf
  <2>2. QED
    BY <1>3, <2>1 DEF Call, Types, Goto, Pcs, Building, Using
<1>4. CASE Malloc
  <2>1. call' \in Calls
    <3>1. call \in Calls /\ \E c \in Ctxs : call' = [call EXCEPT !.ctx = c]
      BY <1>4 DEF Malloc, Types
    <3>2. QED
      BY <3>1 DEF Calls
  <2>2. QED
    BY <1>4, <2>1 DEF Malloc, Types, Take, Goto, Pcs, Building
<1>5. CASE GroupInit \/ NoModulus
  <2>1. combsLen' \in [Ctxs -> 0..2]
    <3>1. combsLen \in [Ctxs -> 0..2] /\ combsLen' = [combsLen EXCEPT ![C] = 0]
      BY <1>5 DEF GroupInit, NoModulus, Cleared, Types
    <3>2. 0 \in 0..2
      OBVIOUS
    <3> DEFINE lens == 0..2
    <3> HIDE DEF lens
    <3>3. combsLen \in [Ctxs -> lens] /\ 0 \in lens
      BY <3>1, <3>2 DEF lens
    <3>4. combsLen' \in [Ctxs -> lens]
      BY <3>1, <3>3
    <3>5. QED
      BY <3>4 DEF lens
  <2>2. QED
    BY <1>5, <2>1, NoCallType
       DEF GroupInit, NoModulus, Types, Take, Free, Goto, Return, Pcs, Building
<1>6. CASE HashPrefix
  <2>1. call' \in Calls
    <3>1. call \in Calls /\ (call' = call \/ call' = [call EXCEPT !.at = 1])
      BY <1>6 DEF HashPrefix, Types
    <3>2. QED
      BY <3>1 DEF Calls
  <2>2. area' \in [Ctxs -> [Areas -> Contents]]
    BY <1>6 DEF HashPrefix, Types, Areas, Contents
  <2>3. QED
    BY <1>6, <2>1, <2>2 DEF HashPrefix, Types, Goto, Pcs, Building
<1>7. CASE PlanStep
  <2>1. call' \in Calls
    <3>1. call \in Calls /\ call.at + 1 \in Nat
      BY <1>7 DEF PlanStep, Types, Calls
    <3>2. [call EXCEPT !.at = call.at + 1] \in Calls
      BY <3>1, CallUpdates
    <3>3. call' = call \/ call' = [call EXCEPT !.at = @ + 1]
      BY <1>7 DEF PlanStep
    <3>4. QED
      BY <3>1, <3>2, <3>3, Zenon
  <2>2. QED
    BY <1>7, <2>1 DEF PlanStep, Types, Goto, Pcs, Building
<1>8. CASE CombInit
  <2>1. call' \in Calls
    <3>1. call \in Calls /\ call' = [call EXCEPT !.at = @ + 1]
      BY <1>8 DEF CombInit, Types
    <3>2. QED
      BY <3>1 DEF Calls
  <2>2. QED
    BY <1>8, <2>1 DEF CombInit, Types, Take, Pcs
<1>9. CASE Created
  <2>1. C \in Ctxs
    BY <1>9 DEF Created, CallInv, Building
  <2>2. slots' \in [Apis -> [p : Ctxs \cup {None}, v : Ctxs \cup {None}]]
    <3>1. /\ slots \in [Apis -> [p : Ctxs \cup {None}, v : Ctxs \cup {None}]]
          /\ \E f \in {"p", "v"} : slots' = [slots EXCEPT ![call.api][f] = C]
      BY <1>9 DEF Created, Types, SlotOf
    <3>2. PICK f \in {"p", "v"} : slots' = [slots EXCEPT ![call.api][f] = C]
      BY <3>1
    <3>3. ASSUME NEW s \in [p : Ctxs \cup {None}, v : Ctxs \cup {None}]
          PROVE  [s EXCEPT ![f] = C] \in [p : Ctxs \cup {None}, v : Ctxs \cup {None}]
      <4>1. CASE f = "p"
        BY <2>1, <4>1
      <4>2. CASE f = "v"
        BY <2>1, <4>2
      <4>3. QED
        BY <4>1, <4>2
    <3>4. QED
      BY <3>1, <3>2, <3>3
  <2>3. QED
    BY <1>9, <2>1, <2>2 DEF Created, Types, Free, Goto, Pcs, Using
<1>10. CASE Undo
  <2>1. Clean \in [Areas -> Contents] /\ Never \in [op : Ops \cup {"none"}, ok : BOOLEAN]
    BY DEF Clean, Never, Areas, Contents
  <2>2. C \in Ctxs
    BY <1>10 DEF Undo, CallInv, Building
  <2>3. /\ area' \in [Ctxs -> [Areas -> Contents]]
        /\ last' \in [Ctxs -> [op : Ops \cup {"none"}, ok : BOOLEAN]]
        /\ combsLen' \in [Ctxs -> 0..2]
    BY <1>10, <2>1, <2>2 DEF Undo, Forget, Types
  <2>4. QED
    BY <1>10, <2>3, NoCallType DEF Undo, Types, Return, Pcs
<1>11. CASE EnterRefuses \/ Enter
  <2>1. call' \in Calls
    <3>1. call \in Calls /\ (call' = NoCall \/ call' = [call EXCEPT !.at = 1])
      BY <1>11 DEF EnterRefuses, Enter, Types, Return
    <3>2. QED
      BY <3>1, NoCallType DEF Calls
  <2>2. QED
    BY <1>11, <2>1 DEF EnterRefuses, Enter, Types, Return, Goto, Pcs, Using
<1>12. CASE Stage
  <2>1. C \in Ctxs
    BY <1>12 DEF Stage, CallInv, Using, Types
  <2>2. PICK x \in After(Stages[call.at], area[C]) : area' = [area EXCEPT ![C] = x]
    BY <1>12 DEF Stage
  <2>3. x \in [Areas -> Contents]
    BY <2>1, AfterTypes
  <2>4. area' \in [Ctxs -> [Areas -> Contents]]
    BY <2>1, <2>2, <2>3 DEF Types
  <2>5. call' \in Calls
    <3>1. call \in Calls /\ call' = [call EXCEPT !.at = @ + 1]
      BY <1>12 DEF Stage, Types
    <3>2. QED
      BY <3>1 DEF Calls
  <2>6. QED
    BY <1>12, <2>4, <2>5 DEF Stage, Types, Pcs
<1>13. CASE TryAgain
  <2>1. call.at - 2 \in Nat
    BY <1>13 DEF TryAgain, Types, Calls, Stages
  <2>2. call' \in Calls
    BY <1>13, <2>1, CallUpdates DEF TryAgain, Types
  <2>3. QED
    BY <1>13, <2>2 DEF TryAgain, Types, Pcs
<1>14. CASE StageFails
  BY <1>14 DEF StageFails, Types, Goto, Pcs, Using, Areas, Contents
<1>15. CASE StagesDone
  <2>1. call' \in Calls
    BY <1>15, CallUpdates DEF StagesDone, Types
  <2>2. QED
    BY <1>15, <2>1 DEF StagesDone, Types, Goto, Pcs, Using
<1>16. CASE Clear
  <2>1. C \in Ctxs /\ call.op \in Ops /\ call.ok \in BOOLEAN
    BY <1>16 DEF Clear, CallInv, Types, Calls, Using
  <2>2. area' \in [Ctxs -> [Areas -> Contents]]
    BY <1>16, <2>1 DEF Clear, Types, Contents
  <2>3. last' \in [Ctxs -> [op : Ops \cup {"none"}, ok : BOOLEAN]]
    BY <1>16, <2>1 DEF Clear, Types
  <2>4. QED
    BY <1>16, <2>2, <2>3 DEF Clear, Types, Goto, Pcs, Using
<1>17. CASE Export
  <2>1. call' \in Calls
    <3>1. call \in Calls /\ (call' = call \/ \E b \in Bufs : call' = [call EXCEPT !.out = b])
      BY <1>17 DEF Export, Types
    <3>2. QED
      BY <3>1 DEF Calls
  <2>2. QED
    BY <1>17, <2>1 DEF Export, Types, Goto, Pcs, Using
<1>18. CASE Leave
  <2>1. buffers' \subseteq Bufs
    BY <1>18 DEF Leave, Types, Calls
  <2>2. QED
    BY <1>18, <2>1, NoCallType DEF Leave, Types, Return, Pcs
<1>19. ASSUME NEW c \in Ctxs, Finalize(c) PROVE Types'
  BY <1>19 DEF Finalize, Types, Free, Forget, Clean, Never, Areas, Contents
<1>20. ASSUME NEW b \in Bufs, FinalizeBuffer(b) PROVE Types'
  BY <1>20 DEF FinalizeBuffer, Types, Free
<1>21. CASE BadSignature
  BY <1>21 DEF BadSignature, Types, Take, Goto, Pcs, Using
<1>22. QED
  BY <1>1, <1>2, <1>3, <1>4, <1>5, <1>6, <1>7, <1>8, <1>9, <1>10, <1>11, <1>12, <1>13,
     <1>14, <1>15, <1>16, <1>17, <1>18, <1>19, <1>20, <1>21 DEF Next

------------------------------------------------------------------------------
(* The call under way.                                                     *)

LEMMA PlanIs ==
  /\ IsProver => /\ Len(Plan) = 5
                 /\ Plan[1] = "range" /\ Plan[2] = "spec" /\ Plan[3] = "spec"
                 /\ Plan[4] = "comb0" /\ Plan[5] = "comb1"
  /\ ~IsProver => Len(Plan) = 2 /\ Plan[1] = "spec" /\ Plan[2] = "comb0"
BY DEF Plan

LEMMA InitCall == Init => CallInv
BY NoCallType DEF Init, CallInv, Building, Using

(* Steps that leave the call where it is.                                  *)
LEMMA QuietCall ==
  ASSUME CallInv, Types, UNCHANGED <<call, pc>>,
         pc \in Building => C \notin handles' /\ combsLen'[C] = combsLen[C],
         pc \in Using => C \in handles' /\ slots' = slots,
         buffers' \subseteq buffers
  PROVE  CallInv'
BY DEF CallInv, Building, Using, C, Plan, IsProver, Stages, SlotOf

LEMMA CreateCall ==
  ASSUME Types, CallInv, SlotsInv, HeapInv,
         \/ Malloc \/ NoModulus \/ GroupInit \/ HashPrefix \/ PlanStep \/ CombInit
         \/ Created \/ Undo
  PROVE  CallInv'
<1>1. CASE Malloc
  <2>1. PICK c \in Ctxs : /\ Struct(c) \notin heap
                          /\ call' = [call EXCEPT !.ctx = c]
    BY <1>1 DEF Malloc
  <2>2. call'.ctx = c /\ call'.op = call.op /\ call'.api = call.api /\ call'.out = call.out
    BY <2>1 DEF Types, Calls
  <2>3. c \notin handles
    BY <2>1 DEF HeapInv, StructsHeld
  <2>4. pc = "malloc" /\ pc' = "init" /\ UNCHANGED <<handles, buffers>>
    BY <1>1 DEF Malloc, Goto
  <2>5. QED
    BY <2>2, <2>3, <2>4 DEF CallInv, C, Building, Using
<1>2. CASE GroupInit
  BY <1>2 DEF GroupInit, Cleared, Goto, Types, CallInv, C, Building, Using
<1>3. CASE HashPrefix
  <2>1. /\ call' = call \/ (call' = [call EXCEPT !.at = 1] /\ pc' = "plan")
        /\ pc' \in {"plan", "undo"} /\ pc = "prefix"
        /\ call' = call => pc' = "undo" \/ call.at = 1
        /\ UNCHANGED <<handles, buffers, combsLen>>
    BY <1>3 DEF HashPrefix, Goto, Types, Calls
  <2>2. /\ call'.ctx = C /\ call'.op = call.op /\ call'.api = call.api
        /\ call'.out = call.out
        /\ pc' = "plan" => call'.at = 1
    BY <2>1 DEF Types, Calls, C
  <2>3. 1 \in 1..(Len(Plan)' + 1)
    BY PlanIs DEF Plan
  <2>4. QED
    BY <2>1, <2>2, <2>3 DEF CallInv, C, Building, Using
<1>4. CASE PlanStep \/ CombInit
  <2>1. /\ pc = "plan" /\ pc' \in {"plan", "undo"} /\ call.at <= Len(Plan)
        /\ call' = [call EXCEPT !.at = @ + 1] \/ (call' = call /\ pc' = "undo")
        /\ UNCHANGED <<handles, buffers, combsLen>>
    BY <1>4 DEF PlanStep, CombInit, Goto
  <2>2. /\ call'.ctx = C /\ call'.op = call.op /\ call'.api = call.api
        /\ call'.out = call.out
        /\ pc' = "plan" => call'.at = call.at + 1
    BY <2>1 DEF Types, Calls, C
  <2>3. Plan' = Plan
    BY <2>2 DEF Plan, IsProver
  <2>4. Len(Plan) \in Nat /\ call.at \in Nat
    BY PlanIs DEF Types, Calls
  <2>5. pc' = "plan" => call'.at \in 1..(Len(Plan') + 1)
    BY <2>1, <2>2, <2>3, <2>4
  <2>6. QED
    BY <2>1, <2>2, <2>5 DEF CallInv, C, Building, Using
<1>5. CASE Created
  <2>1. /\ pc = "plan" /\ pc' = "enter" /\ UNCHANGED <<call, buffers>>
        /\ handles' = handles \cup {C}
        /\ slots' = [slots EXCEPT ![call.api][SlotOf(call.op)] = C]
    BY <1>5 DEF Created, Goto
  <2>2. call.api \in Apis /\ call.op \in Ops
    BY <2>1 DEF CallInv
  <2>3. slots'[call.api][SlotOf(call.op)] = C
    BY <2>1, <2>2 DEF Types, SlotOf
  <2>4. QED
    BY <2>1, <2>2, <2>3 DEF CallInv, C, Building, Using, SlotOf
<1>6. CASE Undo \/ NoModulus
  BY <1>6, NoCallType DEF Undo, NoModulus, Return, CallInv, Building, Using
<1>7. QED
  BY <1>1, <1>2, <1>3, <1>4, <1>5, <1>6

LEMMA StagesLen == Len(Stages) \in Nat /\ Len(Stages) > 0
BY DEF Stages

LEMMA UseCall ==
  ASSUME Types, CallInv, HeapInv,
         \/ EnterRefuses \/ BadSignature \/ Enter \/ Stage \/ TryAgain \/ StageFails
         \/ StagesDone \/ Clear \/ Export \/ Leave
  PROVE  CallInv'
<1>1. CASE EnterRefuses \/ Leave
  BY <1>1, NoCallType DEF EnterRefuses, Leave, Return, CallInv, Building, Using
<1>2. CASE Enter
  <2>1. /\ pc = "enter" /\ pc' = "group" /\ call' = [call EXCEPT !.at = 1]
        /\ UNCHANGED <<slots, handles, buffers>>
    BY <1>2 DEF Enter, Goto
  <2>2. /\ call'.ctx = C /\ call'.op = call.op /\ call'.api = call.api
        /\ call'.out = call.out /\ call'.at = 1
    BY <2>1 DEF Types, Calls, C
  <2>3. 1 \in 1..(Len(Stages)' + 1)
    BY DEF Stages
  <2>4. QED
    BY <2>1, <2>2, <2>3 DEF CallInv, C, Building, Using, SlotOf
<1>3. CASE Stage \/ TryAgain
  <2>1. /\ pc = "group" /\ pc' = "group" /\ call.at <= Len(Stages)
        /\ \/ call' = [call EXCEPT !.at = @ + 1]
           \/ call' = [call EXCEPT !.at = @ - 2] /\ TryAgain
        /\ UNCHANGED <<slots, handles, buffers>>
    BY <1>3 DEF Stage, TryAgain
  <2>2. /\ call'.ctx = C /\ call'.op = call.op /\ call'.api = call.api
        /\ call'.out = call.out
        /\ call'.at = call.at + 1 \/ (call'.at = call.at - 2 /\ TryAgain)
    BY <2>1 DEF Types, Calls, C
  <2>3. Stages' = Stages /\ Len(Stages) \in Nat /\ call.at \in Nat
    BY <2>2, StagesLen DEF Stages, Types, Calls
  <2>4. TryAgain => call.at - 2 \in 1..(Len(Stages) + 1)
    BY DEF TryAgain, Stages, Types, Calls
  <2>5. call'.at \in 1..(Len(Stages)' + 1)
    BY <2>1, <2>2, <2>3, <2>4 DEF CallInv
  <2>6. QED
    BY <2>1, <2>2, <2>5 DEF CallInv, C, Building, Using, SlotOf
<1>4. CASE BadSignature \/ StageFails
  BY <1>4 DEF BadSignature, StageFails, Goto, CallInv, C, Building, Using, SlotOf
<1>5. CASE StagesDone
  <2>1. /\ pc = "group" /\ pc' = "clear" /\ call' = [call EXCEPT !.ok = TRUE]
        /\ UNCHANGED <<slots, handles, buffers>>
    BY <1>5 DEF StagesDone, Goto
  <2>2. /\ call'.ctx = C /\ call'.op = call.op /\ call'.api = call.api
        /\ call'.out = call.out
    BY <2>1 DEF Types, Calls, C
  <2>3. QED
    BY <2>1, <2>2 DEF CallInv, C, Building, Using, SlotOf
<1>6. CASE Clear
  BY <1>6 DEF Clear, Goto, CallInv, C, Building, Using, SlotOf
<1>7. CASE Export
  <2>1. /\ pc = "export" /\ pc' = "leave"
        /\ call' = call \/ \E b \in Bufs : /\ Out(b) \notin heap
                                           /\ call' = [call EXCEPT !.out = b]
        /\ UNCHANGED <<slots, handles, buffers>>
    BY <1>7 DEF Export, Goto
  <2>2. /\ call'.ctx = C /\ call'.op = call.op /\ call'.api = call.api
        /\ call'.out = call.out \/ \E b \in Bufs : /\ Out(b) \notin heap
                                                   /\ call'.out = b
    BY <2>1 DEF Types, Calls, C
  <2>3. call'.out # None => call'.out \notin buffers
    BY <2>1, <2>2 DEF CallInv, HeapInv, OutsHeld
  <2>4. QED
    BY <2>1, <2>2, <2>3 DEF CallInv, C, Building, Using, SlotOf
<1>8. QED
  BY <1>1, <1>2, <1>3, <1>4, <1>5, <1>6, <1>7

LEMMA StepCall ==
  ASSUME Types, CallInv, SlotsInv, HeapInv, [Next]_vars
  PROVE  CallInv'
<1>1. CASE UNCHANGED vars
  <2>1. UNCHANGED <<slots, handles, buffers, combsLen, call, pc>>
    BY <1>1 DEF vars
  <2>2. QED
    BY <2>1, QuietCall DEF CallInv
<1>2. ASSUME NEW a \in Apis, Renew(a) PROVE CallInv'
  BY <1>2, QuietCall DEF Renew, Building, Using
<1>3. ASSUME NEW a \in Apis, NEW op \in Ops, Call(a, op) PROVE CallInv'
  <2> DEFINE c == slots[a][SlotOf(op)]
  <2>1. /\ call' = [NoCall EXCEPT !.op = op, !.api = a, !.ctx = c]
        /\ pc' = IF c = None THEN "malloc" ELSE "enter"
        /\ UNCHANGED <<slots, handles, buffers>>
    BY <1>3 DEF Call, Goto
  <2>2. call'.op = op /\ call'.api = a /\ call'.ctx = c /\ call'.out = None
    BY <2>1 DEF NoCall
  <2>3. c \in handles \cup {None}
    BY DEF SlotsInv, SlotOf
  <2> HIDE DEF c
  <2>4. SlotOf(op) = SlotOf(call'.op) /\ c = slots'[a][SlotOf(op)]
    BY <2>1, <2>2 DEF c
  <2>5. QED
    BY <2>1, <2>2, <2>3, <2>4 DEF CallInv, C, Building, Using, SlotOf
<1>4. ASSUME NEW c \in Ctxs, Finalize(c) PROVE CallInv'
  <2>1. pc \in Using => C \in handles'
    <3>1. pc \in Using => Reachable(C)
      BY DEF CallInv, Reachable, SlotOf, Using
    <3>2. QED
      BY <1>4, <3>1 DEF Finalize, CallInv
  <2>2. pc \in Building => C \notin handles' /\ combsLen'[C] = combsLen[C]
    BY <1>4 DEF Finalize, CallInv, Types
  <2>3. QED
    BY <1>4, <2>1, <2>2, QuietCall DEF Finalize
<1>5. ASSUME NEW b \in Bufs, FinalizeBuffer(b) PROVE CallInv'
  BY <1>5, QuietCall DEF FinalizeBuffer, CallInv
<1>6. QED
  BY <1>1, <1>2, <1>3, <1>4, <1>5, CreateCall, UseCall DEF Next

------------------------------------------------------------------------------
(* Slots.                                                                  *)

LEMMA InitSlots == Init => SlotsInv
BY DEF Init, SlotsInv

LEMMA StepSlots ==
  ASSUME Types, CallInv, SlotsInv, [Next]_vars
  PROVE  SlotsInv'
<1>1. CASE handles' = handles /\ slots' = slots
  BY <1>1 DEF SlotsInv
<1>2. ASSUME NEW a \in Apis, Renew(a) PROVE SlotsInv'
  BY <1>2 DEF Renew, SlotsInv, Types
<1>3. CASE Created
  <2> DEFINE s == SlotOf(call.op)
  <2>1. /\ C \in Ctxs \ handles /\ call.api \in Apis
        /\ handles' = handles \cup {C}
        /\ slots' = [slots EXCEPT ![call.api][s] = C]
    BY <1>3 DEF Created, CallInv, Building
  <2>2. C # None
    BY <2>1, ContextAssumption
  <2>3. \A a \in Apis :
          /\ slots'[a].p = IF a = call.api /\ s = "p" THEN C ELSE slots[a].p
          /\ slots'[a].v = IF a = call.api /\ s = "v" THEN C ELSE slots[a].v
    BY <2>1 DEF Types, SlotOf
  <2>4. s \in {"p", "v"}
    BY DEF SlotOf
  <2> HIDE DEF s
  <2>5. \A a \in Apis : slots'[a].p \in handles' \cup {None} /\ slots'[a].v \in handles' \cup {None}
    BY <2>1, <2>3 DEF SlotsInv
  <2>6. \A a, b \in Apis : slots'[a].v # None => slots'[b].p # slots'[a].v
    BY <2>1, <2>2, <2>3, <2>4 DEF SlotsInv
  <2>7. QED
    BY <2>5, <2>6 DEF SlotsInv
<1>4. ASSUME NEW c \in Ctxs, Finalize(c) PROVE SlotsInv'
  BY <1>4 DEF Finalize, SlotsInv, Reachable
<1>5. QED
  BY <1>1, <1>2, <1>3, <1>4
     DEF Next, vars, Call, Malloc, NoModulus, GroupInit, HashPrefix, PlanStep, CombInit,
         Undo, EnterRefuses, BadSignature, Enter, Stage, TryAgain, StageFails, StagesDone,
         Clear, Export, Leave, FinalizeBuffer

------------------------------------------------------------------------------
(* The heap.                                                               *)

LEMMA InitHeap == Init => HeapInv
BY NoCallType, ContextAssumption DEF Init, HeapInv, StructsHeld, IntsHeld, CombsHeld, OutsHeld,
                                         LocalsHeld, Building, Using, C

(* Steps that neither take nor free anything.                              *)
LEMMA QuietHeap ==
  ASSUME HeapInv, UNCHANGED <<heap, badFree, handles, buffers>>,
         \A c \in handles : combsLen'[c] = combsLen[c],
         call'.out = call.out,
         \/ pc \in Building /\ pc # "init" /\ pc # "plan" /\ call'.ctx = C /\ pc' \in {"prefix", "undo"}
         \/ pc \notin Building /\ pc' \notin Building
         \/ pc = "prefix" /\ pc' = "plan" /\ call'.ctx = C /\ call'.at = 1
         \/ pc = "plan" /\ UNCHANGED <<call, pc>>,
         pc' \in Building \cup (Using \ {"enter"}) <=> pc \in Building \cup (Using \ {"enter"}),
         pc' \in {"group", "clear"} <=> pc \in {"group", "clear"}
  PROVE  HeapInv'
<1>1. pc' = "plan" /\ pc # "plan" => \A n \in Nat : ~(FirstComb' + n < call'.at)
  BY DEF FirstComb, Building
<1>2. pc' = "plan" /\ pc = "plan" => FirstComb' = FirstComb /\ C' = C
  BY DEF FirstComb, IsProver, C, Building
<1>3. QED
  BY <1>1, <1>2 DEF HeapInv, StructsHeld, IntsHeld, CombsHeld, OutsHeld, LocalsHeld, Block, C,
                    Building, Using

LEMMA CreateHeap ==
  ASSUME Types, CallInv, SlotsInv, HeapInv, AreaInv,
         \/ Malloc \/ NoModulus \/ GroupInit \/ HashPrefix \/ PlanStep \/ CombInit
         \/ Created \/ Undo
  PROVE  HeapInv'
<1>1. CASE Malloc
  <2>1. PICK c \in Ctxs : /\ Struct(c) \notin heap
                          /\ heap' = heap \cup {Struct(c), ApiLocals}
                          /\ call' = [call EXCEPT !.ctx = c]
                          /\ \A d \in Ctxs : d # c => combsLen'[d] = combsLen[d]
    BY <1>1 DEF Malloc, Take, Types
  <2>2. call'.ctx = c /\ call'.op = call.op /\ call'.api = call.api /\ call'.out = call.out
    BY <2>1 DEF Types, Calls
  <2>3. c \notin handles
    BY <2>1 DEF HeapInv, StructsHeld
  <2>4. pc = "malloc" /\ pc' = "init" /\ UNCHANGED <<handles, buffers, badFree>>
    BY <1>1 DEF Malloc, Goto, Take
  <2>5. ~badFree' /\ StructsHeld'
    BY <2>1, <2>2, <2>3, <2>4, BlocksDiffer DEF HeapInv, StructsHeld, C, Building
  <2>6. IntsHeld'
    BY <2>1, <2>2, <2>3, <2>4, BlocksDiffer DEF HeapInv, IntsHeld, C, Building
  <2>7. CombsHeld'
    BY <2>1, <2>2, <2>3, <2>4, BlocksDiffer DEF HeapInv, CombsHeld, C, Building
  <2>8. OutsHeld'
    BY <2>1, <2>2, <2>3, <2>4, BlocksDiffer DEF HeapInv, OutsHeld
  <2>9. LocalsHeld'
    BY <2>1, <2>2, <2>3, <2>4, BlocksDiffer DEF HeapInv, LocalsHeld, Building, Using
  <2>10. \A x \in heap' : Block(x)'
    BY <2>1, <2>2, <2>3, <2>4, BlocksDiffer DEF HeapInv, Block, C
  <2>11. QED
    BY <2>5, <2>6, <2>7, <2>8, <2>9, <2>10 DEF HeapInv
<1>2. CASE GroupInit
  <2>1. /\ pc = "init" /\ pc' = "prefix" /\ C \in Ctxs \ handles
        /\ heap' = heap \cup {Ints(C)}
        /\ \A d \in Ctxs : d # C => combsLen'[d] = combsLen[d]
        /\ UNCHANGED <<handles, buffers, badFree, call>>
    BY <1>2 DEF GroupInit, Cleared, Take, Goto, Types, CallInv, Building
  <2>2. ~badFree' /\ StructsHeld'
    BY <2>1, BlocksDiffer DEF HeapInv, StructsHeld, C, Building
  <2>3. IntsHeld'
    BY <2>1, BlocksDiffer DEF HeapInv, IntsHeld, C, Building
  <2>4. CombsHeld'
    BY <2>1, BlocksDiffer DEF HeapInv, CombsHeld, C, Building
  <2>5. OutsHeld'
    BY <2>1, BlocksDiffer DEF HeapInv, OutsHeld
  <2>6. LocalsHeld'
    BY <2>1, BlocksDiffer DEF HeapInv, LocalsHeld, Building, Using
  <2>7. \A x \in heap' : Block(x)'
    BY <2>1, BlocksDiffer DEF HeapInv, Block, C
  <2>8. QED
    BY <2>2, <2>3, <2>4, <2>5, <2>6, <2>7 DEF HeapInv
<1>3. CASE HashPrefix
  <2>1. /\ pc = "prefix" /\ UNCHANGED <<heap, badFree, handles, buffers, combsLen>>
        /\ \/ pc' = "plan" /\ call' = [call EXCEPT !.at = 1]
           \/ pc' = "undo" /\ call' = call
    BY <1>3 DEF HashPrefix, Goto
  <2>2. call'.ctx = C /\ call'.out = call.out /\ (pc' = "plan" => call'.at = 1)
    BY <2>1 DEF Types, Calls, C
  <2>3. QED
    BY <2>1, <2>2, QuietHeap DEF Building, Using
<1>4. CASE PlanStep
  <2>1. /\ pc = "plan" /\ pc' \in {"plan", "undo"}
        /\ call.at <= Len(Plan) /\ Plan[call.at] \in {"range", "spec"}
        /\ call' = [call EXCEPT !.at = @ + 1] \/ (call' = call /\ pc' = "undo")
        /\ pc' = "plan" => call' # call \/ call' = [call EXCEPT !.at = @ + 1]
        /\ UNCHANGED <<heap, badFree, handles, buffers, combsLen>>
    BY <1>4 DEF PlanStep, Goto
  <2>2. /\ call'.ctx = C /\ call'.op = call.op /\ call'.out = call.out
        /\ call'.at <= call.at + 1
        /\ call.at \in Nat /\ call'.at \in Nat
    BY <2>1 DEF Types, Calls, C
  <2>3. call.at < FirstComb
    <3>1. call.at \in 1..5 /\ (IsProver \/ call.at \in 1..2)
      BY <2>1, PlanIs DEF CallInv
    <3>2. QED
      BY <2>1, <3>1, PlanIs DEF FirstComb
  <2>4. FirstComb' = FirstComb /\ FirstComb \in Nat
    BY <2>2 DEF FirstComb, IsProver
  <2>5. \A n \in Nat : ~(FirstComb + n < call.at) /\ ~(FirstComb' + n < call'.at)
    BY <2>2, <2>3, <2>4
  <2>6. QED
    BY <2>1, <2>2, <2>5 DEF HeapInv, StructsHeld, IntsHeld, CombsHeld, OutsHeld, LocalsHeld, Block,
                            C, Building, Using
<1>5. CASE CombInit
  <2>1. PICK n \in {0, 1} : /\ Plan[call.at] = <<"comb0", "comb1">>[n + 1]
                            /\ heap' = heap \cup {Comb(C, n)}
    BY <1>5 DEF CombInit, Take
  <2>2. /\ pc = "plan" /\ call' = [call EXCEPT !.at = @ + 1] /\ call.at <= Len(Plan)
        /\ UNCHANGED <<badFree, handles, buffers, combsLen, pc>>
    BY <1>5 DEF CombInit, Take
  <2>3. /\ call'.ctx = C /\ call'.op = call.op /\ call'.out = call.out
        /\ call'.at = call.at + 1 /\ call.at \in Nat /\ call.at > 0
    BY <2>2 DEF Types, Calls, C, CallInv
  <2>4. Plan[call.at] = IF n = 0 THEN "comb0" ELSE "comb1"
    BY <2>1
  <2>5. FirstComb + n = call.at
    <3>1. call.at \in 1..Len(Plan) /\ Plan[call.at] \in {"comb0", "comb1"}
      BY <2>2, <2>3, <2>4, PlanIs
    <3>2. CASE IsProver
      <4>0. /\ Len(Plan) = 5 /\ Plan[1] = "range" /\ Plan[2] = "spec" /\ Plan[3] = "spec"
        BY <3>2, PlanIs
      <4>1. call.at \in {1, 2, 3, 4, 5} /\ call.at \notin {1, 2, 3}
        BY <3>1, <4>0
      <4>2. n = 0 => call.at = 4
        BY <2>4, <3>2, <4>1, PlanIs
      <4>3. n = 1 => call.at = 5
        BY <2>4, <3>2, <4>1, PlanIs
      <4>4. QED
        BY <3>2, <4>2, <4>3 DEF FirstComb
    <3>3. CASE ~IsProver
      <4>0. Len(Plan) = 2 /\ Plan[1] = "spec"
        BY <3>3, PlanIs
      <4>1. call.at \in {1, 2} /\ call.at # 1
        BY <3>1, <4>0
      <4>2. n = 0
        BY <2>4, <3>3, <4>1, PlanIs
      <4>3. QED
        BY <3>3, <4>1, <4>2 DEF FirstComb
    <3>4. QED
      BY <3>2, <3>3
  <2>6. FirstComb' = FirstComb /\ FirstComb \in Nat
    BY <2>3 DEF FirstComb, IsProver
  <2>7. \A m \in Nat : FirstComb' + m < call'.at <=> FirstComb + m < call.at \/ m = n
    BY <2>3, <2>5, <2>6
  <2>8. C \in Ctxs \ handles
    BY <2>2 DEF CallInv, Building
  <2>9. n \in Nat /\ FirstComb + n < call.at + 1
    BY <2>3, <2>5, <2>6
  <2>10. StructsHeld' /\ IntsHeld'
    BY <2>1, <2>2, <2>3, <2>8, BlocksDiffer DEF HeapInv, StructsHeld, IntsHeld, C, Building
  <2>11. CombsHeld'
    BY <2>1, <2>2, <2>3, <2>7, <2>8, <2>9, BlocksDiffer DEF HeapInv, CombsHeld, C
  <2>12. OutsHeld' /\ LocalsHeld'
    <3>1. OutsHeld'
      <4>1. \A b \in Bufs : Out(b) \in heap' <=> Out(b) \in heap
        BY <2>1, BlocksDiffer
      <4>2. OutsHeld /\ call'.out = call.out /\ buffers' = buffers
        BY <2>2, <2>3 DEF HeapInv
      <4>3. QED
        BY <4>1, <4>2 DEF OutsHeld
    <3>2. LocalsHeld'
      BY <2>1, <2>2, BlocksDiffer DEF HeapInv, LocalsHeld, Building, Using
    <3>3. QED
      BY <3>1, <3>2
  <2>13. \A x \in heap' : Block(x)'
    BY <2>1, <2>8, <2>9, BlocksDiffer DEF HeapInv, Block
  <2>14. QED
    BY <2>2, <2>10, <2>11, <2>12, <2>13 DEF HeapInv
<1>6. CASE Created
  <2>1. /\ pc = "plan" /\ pc' = "enter" /\ UNCHANGED <<call, buffers>>
        /\ call.at > Len(Plan)
        /\ handles' = handles \cup {C}
        /\ heap' = heap \ {ApiLocals}
        /\ badFree' = (badFree \/ ~({ApiLocals} \subseteq heap))
        /\ combsLen' = [combsLen EXCEPT ![C] = IF IsProver THEN 2 ELSE 1]
    BY <1>6 DEF Created, Goto, Free
  <2>2. C \in Ctxs \ handles /\ call.at = Len(Plan) + 1
    BY <2>1, PlanIs DEF CallInv, Building, Types, Calls
  <2>3. \A n \in Nat : FirstComb + n < call.at <=> n < combsLen'[C]
    <3>1. combsLen'[C] = IF IsProver THEN 2 ELSE 1
      BY <2>1, <2>2 DEF Types
    <3>2. Len(Plan) + 1 = FirstComb + combsLen'[C]
      <4>1. CASE IsProver
        <5>1. Len(Plan) = 5
          BY <4>1, PlanIs
        <5>2. FirstComb = 4 /\ combsLen'[C] = 2
          BY <3>1, <4>1 DEF FirstComb
        <5>3. QED
          BY <5>1, <5>2
      <4>2. CASE ~IsProver
        BY <3>1, <4>2, PlanIs DEF FirstComb
      <4>3. QED
        BY <4>1, <4>2
    <3>3. QED
      BY <2>2, <3>1, <3>2 DEF FirstComb
  <2>4. \A d \in Ctxs : d # C => combsLen'[d] = combsLen[d]
    BY <2>1 DEF Types
  <2>5. ~badFree'
    BY <2>1 DEF HeapInv, LocalsHeld, Building
  <2>6. ~badFree' /\ StructsHeld'
    BY <2>1, <2>2, <2>3, <2>4, <2>5, BlocksDiffer DEF HeapInv, StructsHeld, C, Building
  <2>7. IntsHeld'
    BY <2>1, <2>2, <2>3, <2>4, <2>5, BlocksDiffer DEF HeapInv, IntsHeld, C, Building
  <2>8. CombsHeld'
    BY <2>1, <2>2, <2>3, <2>4, <2>5, BlocksDiffer DEF HeapInv, CombsHeld, C, Building
  <2>9. OutsHeld'
    BY <2>1, <2>2, <2>3, <2>4, <2>5, BlocksDiffer DEF HeapInv, OutsHeld
  <2>10. LocalsHeld'
    BY <2>1, <2>2, <2>3, <2>4, <2>5, BlocksDiffer DEF HeapInv, LocalsHeld, Building, Using
  <2>11. \A x \in heap' : Block(x)'
    BY <2>1, <2>2, <2>3, <2>4, <2>5, BlocksDiffer DEF HeapInv, Block, C
  <2>12. QED
    BY <2>6, <2>7, <2>8, <2>9, <2>10, <2>11 DEF HeapInv
<1>7. CASE Undo
  <2>1. /\ pc = "undo" /\ pc' = "idle" /\ UNCHANGED <<handles, buffers>>
        /\ heap' = heap \ (Uninit(C) \cup {Struct(C), ApiLocals})
        /\ badFree' = (badFree \/ ~(Uninit(C) \cup {Struct(C), ApiLocals} \subseteq heap))
        /\ call' = NoCall /\ combsLen' = [combsLen EXCEPT ![C] = 0]
    BY <1>7 DEF Undo, Return, Free
  <2>2. C \in Ctxs \ handles /\ combsLen[C] = 0 /\ call.out = None
    BY <2>1 DEF CallInv, Building
  <2>3. Uninit(C) = {Ints(C)}
    BY <2>2 DEF Uninit
  <2>4. ~badFree'
    BY <2>1, <2>2, <2>3 DEF HeapInv, StructsHeld, IntsHeld, LocalsHeld, Building
  <2>5. \A d \in Ctxs : d # C => combsLen'[d] = combsLen[d]
    BY <2>1 DEF Types
  <2>6. ~badFree' /\ StructsHeld'
    BY <2>1, <2>2, <2>3, <2>4, <2>5, BlocksDiffer, NoCallType DEF HeapInv, StructsHeld, C, Building
  <2>7. IntsHeld'
    BY <2>1, <2>2, <2>3, <2>4, <2>5, BlocksDiffer, NoCallType DEF HeapInv, IntsHeld, C, Building
  <2>8. CombsHeld'
    BY <2>1, <2>2, <2>3, <2>4, <2>5, BlocksDiffer, NoCallType DEF HeapInv, CombsHeld, C, Building
  <2>9. OutsHeld'
    BY <2>1, <2>2, <2>3, <2>4, <2>5, BlocksDiffer, NoCallType DEF HeapInv, OutsHeld
  <2>10. LocalsHeld'
    BY <2>1, <2>2, <2>3, <2>4, <2>5, BlocksDiffer, NoCallType
       DEF HeapInv, LocalsHeld, Building, Using
  <2>11. \A x \in heap' : Block(x)'
    BY <2>1, <2>2, <2>3, <2>4, <2>5, BlocksDiffer, NoCallType DEF HeapInv, Block, C
  <2>12. QED
    BY <2>6, <2>7, <2>8, <2>9, <2>10, <2>11 DEF HeapInv
<1>8. CASE NoModulus
  <2>1. /\ pc = "init" /\ pc' = "idle" /\ UNCHANGED <<handles, buffers>>
        /\ heap' = heap \ {Struct(C), ApiLocals}
        /\ badFree' = (badFree \/ ~({Struct(C), ApiLocals} \subseteq heap))
        /\ call' = NoCall /\ combsLen' = [combsLen EXCEPT ![C] = 0]
    BY <1>8 DEF NoModulus, Cleared, Return, Free
  <2>2. C \in Ctxs \ handles /\ call.out = None
    BY <2>1 DEF CallInv, Building
  <2>3. \A d \in Ctxs : d # C => combsLen'[d] = combsLen[d]
    BY <2>1 DEF Types
  <2>4. ~badFree'
    BY <2>1, <2>2 DEF HeapInv, StructsHeld, LocalsHeld, Building
  <2>5. StructsHeld'
    BY <2>1, <2>2, BlocksDiffer DEF HeapInv, StructsHeld, C, Building
  <2>6. IntsHeld'
    BY <2>1, <2>2, BlocksDiffer DEF HeapInv, IntsHeld, C, Building
  <2>7. CombsHeld'
    BY <2>1, <2>2, <2>3, BlocksDiffer DEF HeapInv, CombsHeld, C, Building
  <2>8. OutsHeld'
    BY <2>1, <2>2, BlocksDiffer, NoCallType DEF HeapInv, OutsHeld
  <2>9. LocalsHeld'
    BY <2>1, BlocksDiffer DEF HeapInv, LocalsHeld, Building, Using
  <2>10. \A x \in heap' : Block(x)'
    BY <2>1 DEF HeapInv, Block
  <2>11. QED
    BY <2>4, <2>5, <2>6, <2>7, <2>8, <2>9, <2>10 DEF HeapInv
<1>9. QED
  BY <1>1, <1>2, <1>3, <1>4, <1>5, <1>6, <1>7, <1>8

LEMMA UseHeap ==
  ASSUME Types, CallInv, SlotsInv, HeapInv,
         \/ EnterRefuses \/ BadSignature \/ Enter \/ Stage \/ TryAgain \/ StageFails
         \/ StagesDone \/ Clear \/ Export \/ Leave
  PROVE  HeapInv'
<1>1. CASE EnterRefuses
  <2>1. /\ pc = "enter" /\ pc' = "idle" /\ call' = NoCall
        /\ UNCHANGED <<heap, badFree, handles, buffers, combsLen>>
    BY <1>1 DEF EnterRefuses, Return
  <2>2. call'.out = call.out
    BY <2>1, NoCallType DEF CallInv
  <2>3. QED
    BY <2>1, <2>2, QuietHeap DEF Building, Using
<1>2. CASE Enter
  <2>1. /\ pc = "enter" /\ pc' = "group" /\ call' = [call EXCEPT !.at = 1]
        /\ heap' = heap \cup {ApiLocals, GroupLocals}
        /\ UNCHANGED <<badFree, handles, buffers, combsLen>>
    BY <1>2 DEF Enter, Take, Goto
  <2>2. call'.out = call.out
    BY <2>1 DEF Types, Calls
  <2>3. StructsHeld' /\ IntsHeld' /\ CombsHeld'
    BY <2>1, BlocksDiffer DEF HeapInv, StructsHeld, IntsHeld, CombsHeld, Building
  <2>4. OutsHeld' /\ LocalsHeld'
    BY <2>1, <2>2, BlocksDiffer DEF HeapInv, OutsHeld, LocalsHeld, Building, Using
  <2>5. \A x \in heap' : Block(x)'
    BY <2>1 DEF HeapInv, Block
  <2>6. QED
    BY <2>1, <2>3, <2>4, <2>5 DEF HeapInv
<1>3. CASE Stage \/ TryAgain \/ StageFails \/ StagesDone
  <2>1. /\ pc = "group" /\ pc' \in {"group", "clear"} /\ call'.out = call.out
        /\ UNCHANGED <<heap, badFree, handles, buffers, combsLen>>
    BY <1>3 DEF Stage, TryAgain, StageFails, StagesDone, Goto, Types, Calls
  <2>2. QED
    BY <2>1, QuietHeap DEF Building, Using
<1>4. CASE Clear
  <2>1. /\ pc = "clear" /\ pc' \in {"export", "leave"}
        /\ heap' = heap \ {GroupLocals}
        /\ badFree' = (badFree \/ ~({GroupLocals} \subseteq heap))
        /\ UNCHANGED <<handles, buffers, combsLen, call>>
    BY <1>4 DEF Clear, Free, Goto
  <2>2. ~badFree'
    BY <2>1 DEF HeapInv, LocalsHeld
  <2>3. StructsHeld' /\ IntsHeld' /\ CombsHeld'
    BY <2>1, BlocksDiffer DEF HeapInv, StructsHeld, IntsHeld, CombsHeld, Building
  <2>4. OutsHeld' /\ LocalsHeld'
    BY <2>1, BlocksDiffer DEF HeapInv, OutsHeld, LocalsHeld, Building, Using
  <2>5. \A x \in heap' : Block(x)'
    BY <2>1 DEF HeapInv, Block
  <2>6. QED
    BY <2>2, <2>3, <2>4, <2>5 DEF HeapInv
<1>5. CASE Export
  <2>1. /\ pc = "export" /\ pc' = "leave"
        /\ UNCHANGED <<handles, buffers, combsLen>>
    BY <1>5 DEF Export, Goto
  <2>2. ASSUME UNCHANGED <<heap, badFree, call>> PROVE HeapInv'
    BY <2>1, <2>2, QuietHeap DEF Building, Using
  <2>3. ASSUME NEW b \in Bufs, Out(b) \notin heap, Take({Out(b)}),
               call' = [call EXCEPT !.out = b]
        PROVE  HeapInv'
    <3>1. call'.out = b /\ call.out = None
      BY <2>1, <2>3 DEF Types, Calls, CallInv
    <3>2. heap' = heap \cup {Out(b)} /\ badFree' = badFree
      BY <2>3 DEF Take
    <3>3. StructsHeld' /\ IntsHeld' /\ CombsHeld'
      BY <2>1, <3>2, BlocksDiffer DEF HeapInv, StructsHeld, IntsHeld, CombsHeld, Building
    <3>4. OutsHeld'
      BY <2>1, <3>1, <3>2, BlocksDiffer, ContextAssumption DEF HeapInv, OutsHeld
    <3>5. LocalsHeld'
      BY <2>1, <3>2, BlocksDiffer DEF HeapInv, LocalsHeld, Building, Using
    <3>6. \A x \in heap' : Block(x)'
      BY <3>2 DEF HeapInv, Block
    <3>7. QED
      BY <3>2, <3>3, <3>4, <3>5, <3>6 DEF HeapInv
  <2>4. QED
    BY <1>5, <2>2, <2>3 DEF Export
<1>6. CASE Leave
  <2>1. /\ pc = "leave" /\ pc' = "idle" /\ call' = NoCall
        /\ heap' = heap \ {ApiLocals}
        /\ badFree' = (badFree \/ ~({ApiLocals} \subseteq heap))
        /\ buffers' = buffers \cup ({call.out} \ {None})
        /\ UNCHANGED <<handles, combsLen>>
    BY <1>6 DEF Leave, Free, Return
  <2>2. ~badFree'
    BY <2>1 DEF HeapInv, LocalsHeld, Using
  <2>3. StructsHeld' /\ IntsHeld' /\ CombsHeld'
    BY <2>1, BlocksDiffer DEF HeapInv, StructsHeld, IntsHeld, CombsHeld, Building
  <2>4. OutsHeld'
    BY <2>1, NoCallType, BlocksDiffer, ContextAssumption DEF HeapInv, OutsHeld
  <2>5. LocalsHeld'
    BY <2>1, BlocksDiffer DEF HeapInv, LocalsHeld, Building, Using
  <2>6. \A x \in heap' : Block(x)'
    BY <2>1 DEF HeapInv, Block
  <2>7. QED
    BY <2>2, <2>3, <2>4, <2>5, <2>6 DEF HeapInv
<1>7. CASE BadSignature
  <2>1. /\ pc = "enter" /\ pc' = "leave" /\ heap' = heap \cup {ApiLocals}
        /\ UNCHANGED <<badFree, handles, buffers, combsLen, call>>
    BY <1>7 DEF BadSignature, Take, Goto
  <2>2. StructsHeld' /\ IntsHeld' /\ CombsHeld'
    BY <2>1, BlocksDiffer DEF HeapInv, StructsHeld, IntsHeld, CombsHeld, Building
  <2>3. OutsHeld' /\ LocalsHeld'
    BY <2>1, BlocksDiffer DEF HeapInv, OutsHeld, LocalsHeld, Building, Using
  <2>4. \A x \in heap' : Block(x)'
    BY <2>1 DEF HeapInv, Block
  <2>5. QED
    BY <2>1, <2>2, <2>3, <2>4 DEF HeapInv
<1>8. QED
  BY <1>1, <1>2, <1>3, <1>4, <1>5, <1>6, <1>7

LEMMA FinalizeHeap ==
  ASSUME Types, CallInv, HeapInv, AreaInv, NEW c \in Ctxs, Finalize(c)
  PROVE  HeapInv'
<1>1. /\ c \in handles /\ handles' = handles \ {c}
      /\ heap' = heap \ (Uninit(c) \cup {Struct(c)})
      /\ badFree' = (badFree \/ ~(Uninit(c) \cup {Struct(c)} \subseteq heap))
      /\ combsLen' = [combsLen EXCEPT ![c] = 0]
      /\ UNCHANGED <<buffers, call, pc>>
  BY DEF Finalize, Free
<1>2. \A d \in Ctxs : d # c => combsLen'[d] = combsLen[d]
  BY <1>1 DEF Types
<1>3. combsLen[c] \in {1, 2}
  BY <1>1 DEF AreaInv
<1>4. ~(pc \in Building /\ c = C)
  BY <1>1 DEF CallInv
<1>5. \A x : x \in Uninit(c) <=> x = Ints(c) \/ \E n \in Nat : n < combsLen[c] /\ x = Comb(c, n)
  BY <1>3 DEF Uninit
<1>6. ~badFree'
  BY <1>1, <1>5 DEF HeapInv, StructsHeld, IntsHeld, CombsHeld
<1>7. StructsHeld'
  BY <1>1, <1>4, <1>5, BlocksDiffer DEF HeapInv, StructsHeld, C
<1>8. IntsHeld'
  BY <1>1, <1>4, <1>5, BlocksDiffer DEF HeapInv, IntsHeld, C, Building
<1>9. CombsHeld'
  <2>1. ASSUME NEW d \in Ctxs, NEW n \in Nat, d # c
        PROVE  Comb(d, n) \in heap' <=> Comb(d, n) \in heap
    BY <1>1, <1>5, <2>1, BlocksDiffer
  <2>2. \A n \in Nat : Comb(c, n) \notin heap'
    BY <1>1, <1>4, <1>5, BlocksDiffer DEF HeapInv, CombsHeld, Building
  <2>3. FirstComb' = FirstComb
    BY <1>1 DEF FirstComb, IsProver
  <2>4. QED
    BY <1>1, <1>2, <1>4, <2>1, <2>2, <2>3 DEF HeapInv, CombsHeld, C, Building
<1>10. OutsHeld' /\ LocalsHeld'
  <2>1. \A b : Out(b) \in heap' <=> Out(b) \in heap
    BY <1>1, <1>5, BlocksDiffer
  <2>2. /\ ApiLocals \in heap' <=> ApiLocals \in heap
        /\ GroupLocals \in heap' <=> GroupLocals \in heap
    BY <1>1, <1>5, BlocksDiffer
  <2>3. QED
    BY <1>1, <2>1, <2>2 DEF HeapInv, OutsHeld, LocalsHeld
<1>11. \A x \in heap' : Block(x)'
  BY <1>1 DEF HeapInv, Block
<1>12. QED
  BY <1>6, <1>7, <1>8, <1>9, <1>10, <1>11 DEF HeapInv

LEMMA StepHeap ==
  ASSUME Types, CallInv, SlotsInv, HeapInv, AreaInv, [Next]_vars
  PROVE  HeapInv'
<1>1. CASE UNCHANGED vars
  <2>1. /\ UNCHANGED <<heap, badFree, handles, buffers, combsLen, call, pc>>
    BY <1>1 DEF vars
  <2>2. FirstComb' = FirstComb
    BY <2>1 DEF FirstComb, IsProver
  <2>3. QED
    BY <2>1, <2>2 DEF HeapInv, StructsHeld, IntsHeld, CombsHeld, OutsHeld, LocalsHeld, Block, C
<1>2. ASSUME NEW a \in Apis, Renew(a) PROVE HeapInv'
  <2>1. /\ UNCHANGED <<heap, badFree, handles, buffers, combsLen, call, pc>>
    BY <1>2 DEF Renew
  <2>2. FirstComb' = FirstComb
    BY <2>1 DEF FirstComb, IsProver
  <2>3. QED
    BY <2>1, <2>2 DEF HeapInv, StructsHeld, IntsHeld, CombsHeld, OutsHeld, LocalsHeld, Block, C
<1>3. ASSUME NEW a \in Apis, NEW op \in Ops, Call(a, op) PROVE HeapInv'
  <2>1. /\ pc = "idle" /\ pc' \in {"malloc", "enter"}
        /\ call'.out = None
        /\ UNCHANGED <<heap, badFree, handles, buffers, combsLen>>
    BY <1>3 DEF Call, Goto, NoCall
  <2>2. QED
    BY <2>1, QuietHeap DEF Building, Using, CallInv
<1>4. ASSUME NEW b \in Bufs, FinalizeBuffer(b) PROVE HeapInv'
  <2>1. /\ b \in buffers /\ buffers' = buffers \ {b}
        /\ heap' = heap \ {Out(b)}
        /\ badFree' = (badFree \/ ~({Out(b)} \subseteq heap))
        /\ UNCHANGED <<handles, combsLen, call, pc>>
    BY <1>4 DEF FinalizeBuffer, Free
  <2>2. b # call.out
    BY <2>1, ContextAssumption DEF CallInv
  <2>3. FirstComb' = FirstComb
    BY <2>1 DEF FirstComb, IsProver
  <2>4. ~badFree'
    BY <2>1 DEF HeapInv, OutsHeld
  <2>5. StructsHeld' /\ IntsHeld' /\ CombsHeld'
    BY <2>1, <2>3, BlocksDiffer DEF HeapInv, StructsHeld, IntsHeld, CombsHeld, C
  <2>6. OutsHeld' /\ LocalsHeld'
    BY <2>1, <2>2, BlocksDiffer DEF HeapInv, OutsHeld, LocalsHeld
  <2>7. \A x \in heap' : Block(x)'
    BY <2>1 DEF HeapInv, Block
  <2>8. QED
    BY <2>4, <2>5, <2>6, <2>7 DEF HeapInv
<1>5. QED
  BY <1>1, <1>2, <1>3, <1>4, CreateHeap, UseHeap, FinalizeHeap DEF Next
------------------------------------------------------------------------------
(* What the working areas hold.                                            *)

(* A stage writes a window only of a comb that the context has, and no     *)
(* secret in a verification.                                               *)
LEMMA AfterKeeps ==
  ASSUME Types, C \in Ctxs, NEW stage, NEW x \in After(stage, area[C])
  PROVE  /\ combsLen[C] = 1 => x["win1"] = area[C]["win1"]
         /\ call.op = "verify" /\ stage # "expand" =>
              \A y \in Areas : x[y] = area[C][y] \/ x[y] # "secret"
         /\ stage \notin {"expand", "derive"} => x["prng"] = area[C]["prng"]
         /\ stage = "derive" => x["prng"] = "public"
<1>1. area[C] \in [Areas -> Contents] /\ combsLen[C] \in 0..2
  BY DEF Types
<1>2. call.op = "verify" => Taint = "public"
  BY DEF Taint
<1>3. CASE stage = "powgh"
  <2>1. PICK k \in 0..(combsLen[C] - 1) : x = [area[C] EXCEPT ![Win(k)] = Taint]
    BY <1>3 DEF After
  <2>2. Win(k) \in {"win0", "win1"} /\ (combsLen[C] = 1 => Win(k) = "win0")
    BY <1>1 DEF Win
  <2>3. QED
    BY <1>1, <1>2, <1>3, <2>1, <2>2 DEF Areas
<1>4. CASE stage # "powgh"
  BY <1>1, <1>2, <1>4 DEF After, Seeded, Areas
<1>5. QED
  BY <1>3, <1>4

(* A stage changes the areas of the context in use, and of no other.       *)
LEMMA StageArea ==
  ASSUME Types, CallInv, Stage
  PROVE  /\ C \in handles /\ pc = "group" /\ pc' = "group" /\ call.at <= Len(Stages)
         /\ call' = [call EXCEPT !.at = @ + 1]
         /\ UNCHANGED <<slots, handles, combsLen, last>>
         /\ \A c \in Ctxs : c # C => area'[c] = area[c]
         /\ area'[C] \in After(Stages[call.at], area[C])
<1>1. C \in handles /\ C \in Ctxs
  BY DEF Stage, CallInv, Using, Types
<1>2. PICK x \in After(Stages[call.at], area[C]) : area' = [area EXCEPT ![C] = x]
  BY DEF Stage
<1>3. area'[C] = x /\ \A c \in Ctxs : c # C => area'[c] = area[c]
  BY <1>1, <1>2 DEF Types
<1>4. QED
  BY <1>1, <1>2, <1>3 DEF Stage

LEMMA StageFailsArea ==
  ASSUME Types, CallInv, StageFails
  PROVE  /\ C \in handles /\ pc = "group" /\ pc' = "clear"
         /\ UNCHANGED <<slots, handles, combsLen, last, call>>
         /\ \A c \in Ctxs : c # C => area'[c] = area[c]
         /\ \A x \in Areas : area'[C][x] = area[C][x] \/ area'[C][x] # "secret"
         /\ area'[C]["win1"] = area[C]["win1"]
<1>1. C \in handles /\ C \in Ctxs
  BY DEF StageFails, CallInv, Using, Types
<1>2. PICK y : /\ y = area[C]["slab"] \/ y \in {"clean", "public"}
               /\ area' = [area EXCEPT ![C]["slab"] = y]
  BY DEF StageFails
<1>3. QED
  BY <1>1, <1>2 DEF StageFails, Goto, Types, Areas

LEMMA ClearArea ==
  ASSUME Types, CallInv, AreaInv, Clear
  PROVE  /\ C \in handles /\ pc = "clear" /\ pc' \in {"export", "leave"}
         /\ UNCHANGED <<slots, handles, combsLen, call>>
         /\ \A c \in Ctxs : c # C => area'[c] = area[c] /\ last'[c] = last[c]
         /\ last'[C] = [op |-> call.op, ok |-> call.ok]
         /\ \A x \in Areas : area'[C][x] \in {area[C][x], "clean"}
         /\ call.op \in {"validate", "sign"} =>
              \A x \in Areas \ {"prng"} : area'[C][x] = "clean"
<1>1. C \in handles /\ C \in Ctxs
  BY DEF Clear, CallInv, Using, Types
<1>2. /\ \A c \in Ctxs : c # C => area'[c] = area[c] /\ last'[c] = last[c]
      /\ last'[C] = [op |-> call.op, ok |-> call.ok]
  BY <1>1 DEF Clear, Types
<1>3. area'[C] = IF call.op \in {"validate", "sign"}
                   THEN [x \in Areas |-> IF x \in Wiped(C) THEN "clean" ELSE area[C][x]]
                 ELSE area[C]
  BY <1>1 DEF Clear, Types
<1>4. \A x \in Areas \ {"prng"} : x \in Wiped(C) \/ area[C][x] = "clean"
  <2>1. combsLen[C] \in {1, 2} /\ (combsLen[C] = 1 => area[C]["win1"] = "clean")
    BY <1>1 DEF AreaInv
  <2>2. "win0" \in Wiped(C) /\ (combsLen[C] = 2 => "win1" \in Wiped(C))
    <3>1. Win(0) \in Wiped(C) /\ (combsLen[C] = 2 => Win(1) \in Wiped(C))
      BY <2>1 DEF Wiped
    <3>2. QED
      BY <3>1 DEF Win
  <2>3. {"tables", "wnaf", "slab"} \subseteq Wiped(C)
    BY DEF Wiped
  <2>4. QED
    BY <2>1, <2>2, <2>3 DEF Areas
<1>5. QED
  BY <1>1, <1>2, <1>3, <1>4 DEF Clear, Goto

(* A context on which no goo_group_* is under way keeps what it holds, but *)
(* for a slab that is public.                                              *)
LEMMA CreateArea ==
  ASSUME Types, CallInv,
         Malloc \/ NoModulus \/ GroupInit \/ HashPrefix \/ PlanStep \/ CombInit \/ Undo
  PROVE  /\ UNCHANGED <<slots, handles>>
         /\ \A c \in handles : /\ area'[c] = area[c] /\ last'[c] = last[c]
                               /\ HeapInv => combsLen'[c] = combsLen[c]
         /\ AreaInv => \A c \in Ctxs \ handles :
              last'[c] = Never /\ NoSecret(c)' /\ area'[c]["win1"] = "clean"
<1>1. CASE Malloc
  BY <1>1 DEF Malloc, Types, HeapInv, StructsHeld, AreaInv, NoSecret
<1>2. CASE GroupInit \/ NoModulus
  BY <1>2 DEF GroupInit, NoModulus, Cleared, Types, CallInv, Building, AreaInv, NoSecret
<1>3. CASE HashPrefix
  <2>1. C \in Ctxs \ handles /\ area' = [area EXCEPT ![C]["slab"] = "public"]
    BY <1>3 DEF HashPrefix, CallInv, Building
  <2>2. /\ \A c \in Ctxs : c # C => area'[c] = area[c]
        /\ area'[C] = [area[C] EXCEPT !["slab"] = "public"]
    BY <2>1 DEF Types
  <2>3. /\ \A x \in Areas : area'[C][x] = IF x = "slab" THEN "public" ELSE area[C][x]
        /\ area'[C]["win1"] = area[C]["win1"]
    BY <2>1, <2>2 DEF Types, Areas
  <2>4. UNCHANGED <<slots, handles, combsLen, last>>
    BY <1>3 DEF HashPrefix
  <2>5. QED
    BY <2>1, <2>2, <2>3, <2>4 DEF AreaInv, NoSecret
<1>4. CASE PlanStep \/ CombInit
  BY <1>4 DEF PlanStep, CombInit, AreaInv, NoSecret
<1>5. CASE Undo
  <2>1. /\ C \in Ctxs \ handles /\ area' = [area EXCEPT ![C] = Clean]
        /\ last' = [last EXCEPT ![C] = Never]
        /\ combsLen' = [combsLen EXCEPT ![C] = 0]
        /\ UNCHANGED <<slots, handles>>
    BY <1>5 DEF Undo, Forget, CallInv, Building
  <2>2. \A x \in Areas : Clean[x] = "clean"
    BY DEF Clean
  <2>3. QED
    BY <2>1, <2>2 DEF Types, AreaInv, NoSecret, Areas
<1>6. QED
  BY <1>1, <1>2, <1>3, <1>4, <1>5
(* The finalizer runs only on a context that no slot and no call holds.    *)
LEMMA FinalizeArea ==
  ASSUME Types, CallInv, NEW c \in Ctxs, Finalize(c)
  PROVE  /\ c \in handles /\ handles' = handles \ {c} /\ UNCHANGED <<slots, call, pc>>
         /\ \A a \in Apis : slots[a].p # c /\ slots[a].v # c
         /\ \A d \in Ctxs : d # c => /\ area'[d] = area[d] /\ last'[d] = last[d]
                                     /\ combsLen'[d] = combsLen[d]
         /\ area'[c] = Clean /\ last'[c] = Never
         /\ pc \in Using => C # c
<1>1. /\ c \in handles /\ handles' = handles \ {c} /\ UNCHANGED <<slots, call, pc>>
      /\ ~Reachable(c)
      /\ area' = [area EXCEPT ![c] = Clean] /\ last' = [last EXCEPT ![c] = Never]
      /\ combsLen' = [combsLen EXCEPT ![c] = 0]
  BY DEF Finalize, Forget
<1>2. \A a \in Apis : slots[a].p # c /\ slots[a].v # c
  BY <1>1 DEF Reachable
<1>3. pc \in Using => C # c
  BY <1>2 DEF CallInv, SlotOf, Using
<1>4. QED
  BY <1>1, <1>2, <1>3 DEF Types

LEMMA CreatedArea ==
  ASSUME Types, CallInv, AreaInv, Created
  PROVE  /\ C \in Ctxs \ handles /\ handles' = handles \cup {C}
         /\ pc = "plan" /\ pc' = "enter" /\ UNCHANGED <<area, last, call>>
         /\ last[C] = Never /\ NoSecret(C) /\ area[C]["win1"] = "clean"
         /\ combsLen'[C] \in {1, 2} /\ \A c \in Ctxs : c # C => combsLen'[c] = combsLen[c]
         /\ \A a \in Apis : slots'[a].v \in {slots[a].v, C}
<1>1. C \in Ctxs \ handles /\ call.api \in Apis
  BY DEF Created, CallInv, Building
<1>2. combsLen'[C] \in {1, 2} /\ \A c \in Ctxs : c # C => combsLen'[c] = combsLen[c]
  BY <1>1 DEF Created, Types
<1>3. \A a \in Apis : slots'[a].v \in {slots[a].v, C}
  BY <1>1 DEF Created, Types, SlotOf
<1>4. last[C] = Never /\ NoSecret(C) /\ area[C]["win1"] = "clean"
  BY <1>1 DEF AreaInv
<1>5. QED
  BY <1>1, <1>2, <1>3, <1>4 DEF Created, Goto

LEMMA KeepArea ==
  ASSUME Types, AreaInv, C \in handles, UNCHANGED <<handles, combsLen>>,
         \A c \in Ctxs : c # C => area'[c] = area[c] /\ last'[c] = last[c],
         combsLen[C] = 1 => area'[C]["win1"] = "clean"
  PROVE  AreaInv'
<1>1. \A c \in Ctxs \ handles : c # C
  OBVIOUS
<1>2. \A c \in Ctxs \ handles' : last'[c] = Never /\ NoSecret(c)' /\ area'[c]["win1"] = "clean"
  BY <1>1 DEF AreaInv, NoSecret
<1>3. \A c \in handles' : /\ combsLen'[c] \in {1, 2}
                         /\ combsLen'[c] = 1 => area'[c]["win1"] = "clean"
  BY DEF AreaInv, Types
<1>4. QED
  BY <1>2, <1>3 DEF AreaInv

LEMMA InitArea == Init => AreaInv
BY DEF Init, AreaInv, NoSecret, Clean, Areas

LEMMA StepArea ==
  ASSUME Types, CallInv, HeapInv, AreaInv, [Next]_vars
  PROVE  AreaInv'
<1>1. CASE UNCHANGED <<handles, combsLen, area, last>>
  BY <1>1 DEF AreaInv, NoSecret
<1>2. CASE Malloc \/ NoModulus \/ GroupInit \/ HashPrefix \/ PlanStep \/ CombInit \/ Undo
  BY <1>2, CreateArea DEF AreaInv
<1>3. CASE Created
  BY <1>3, CreatedArea DEF AreaInv, NoSecret, Types
<1>4. CASE Stage
  <2>1. combsLen[C] = 1 => area'[C]["win1"] = area[C]["win1"]
    BY <1>4, StageArea, AfterKeeps, Zenon DEF Types
  <2>2. QED
    <3>1. C \in handles /\ (combsLen[C] = 1 => area[C]["win1"] = "clean")
      BY <1>4, StageArea DEF AreaInv
    <3>2. QED
      BY <1>4, <2>1, <3>1, StageArea, KeepArea
<1>5. CASE StageFails
  <2>1. C \in handles /\ (combsLen[C] = 1 => area[C]["win1"] = "clean")
    BY <1>5, StageFailsArea DEF AreaInv
  <2>2. QED
    BY <1>5, <2>1, StageFailsArea, KeepArea
<1>6. CASE Clear
  <2>1. area'[C]["win1"] \in {area[C]["win1"], "clean"}
    BY <1>6, ClearArea DEF Areas
  <2>2. QED
    <3>1. C \in handles /\ (combsLen[C] = 1 => area[C]["win1"] = "clean")
      BY <1>6, ClearArea DEF AreaInv
    <3>2. QED
      BY <1>6, <2>1, <3>1, ClearArea, KeepArea
<1>7. ASSUME NEW c \in Ctxs, Finalize(c) PROVE AreaInv'
  <2>1. \A x \in Areas : Clean[x] = "clean"
    BY DEF Clean
  <2>2. QED
    BY <1>7, <2>1, FinalizeArea DEF AreaInv, NoSecret, Types, Areas
<1>8. QED
  BY <1>1, <1>2, <1>3, <1>4, <1>5, <1>6, <1>7
     DEF Next, vars, Renew, Call, EnterRefuses, BadSignature, Enter, TryAgain, StagesDone,
         Export, Leave, FinalizeBuffer

------------------------------------------------------------------------------
(* No secret stays behind.                                                 *)

LEMMA InitWipe == Init => WipeInv
BY DEF Init, WipeInv, NoCall

(* The stages of sign around the derivation of the challenge.              *)
LEMMA SignStages ==
  ASSUME call.op = "sign"
  PROVE  /\ Len(Stages) = 14
         /\ Stages[11] = "derive"
         /\ \A n \in 12..14 : Stages[n] \notin {"expand", "derive"}
         /\ \A n \in 1..14 : Stages[n] = "derive" => n = 11
<1>1. Stages = <<"check", "seed", "check", "expand", "powgh", "powgh", "check", "powgh",
                 "pow", "powgh", "derive", "powgh", "pow", "powgh">>
  BY DEF Stages
<1>2. QED
  BY <1>1

LEMMA StepWipe ==
  ASSUME Types, CallInv, AreaInv, WipeInv, [Next]_vars
  PROVE  WipeInv'
<1>1. CASE UNCHANGED vars
  BY <1>1 DEF vars, WipeInv, WipedAfterwards, C
<1>2. ASSUME NEW a \in Apis, Renew(a) PROVE WipeInv'
  BY <1>2 DEF Renew, WipeInv, WipedAfterwards, C
<1>3. ASSUME NEW a \in Apis, NEW op \in Ops, Call(a, op) PROVE WipeInv'
  <2>1. call'.ok = FALSE
    BY <1>3 DEF Call, NoCall
  <2>2. QED
    BY <1>3, <2>1 DEF Call, Goto, WipeInv, WipedAfterwards
<1>4. CASE Malloc \/ NoModulus \/ GroupInit \/ HashPrefix \/ PlanStep \/ CombInit \/ Undo
  <2>1. pc \in {"malloc"} \cup Building /\ pc' \in {"idle"} \cup Building
    BY <1>4 DEF Malloc, NoModulus, GroupInit, HashPrefix, PlanStep, CombInit, Undo, Goto,
                Return, Building
  <2>2. ~call'.ok
    <3>1. ~call.ok
      BY <2>1 DEF WipeInv, Building
    <3>2. CASE Malloc
      BY <3>1, <3>2 DEF Malloc, Types, Calls
    <3>3. CASE GroupInit
      BY <3>1, <3>3 DEF GroupInit
    <3>4. CASE HashPrefix
      BY <3>1, <3>4 DEF HashPrefix, Types, Calls
    <3>5. CASE PlanStep \/ CombInit
      BY <3>1, <3>5 DEF PlanStep, CombInit, Types, Calls
    <3>6. CASE Undo \/ NoModulus
      BY <3>6 DEF Undo, NoModulus, Return, NoCall
    <3>7. QED
      BY <1>4, <3>2, <3>3, <3>4, <3>5, <3>6
  <2>3. \A c \in handles' : WipedAfterwards(c)'
    BY <1>4, <2>1, CreateArea DEF WipeInv, WipedAfterwards, Building
  <2>4. QED
    BY <2>1, <2>2, <2>3 DEF WipeInv, Building
<1>5. CASE Created
  <2>1. WipedAfterwards(C)
    BY <1>5, CreatedArea DEF WipedAfterwards, Never
  <2>2. QED
    BY <1>5, <2>1, CreatedArea DEF WipeInv, WipedAfterwards
<1>6. CASE EnterRefuses \/ BadSignature \/ Enter
  <2>1. call'.ok = FALSE \/ call'.ok = call.ok
    BY <1>6 DEF EnterRefuses, BadSignature, Enter, Return, NoCall, Types, Calls
  <2>2. Enter => call'.at = 1 /\ call'.ctx = C
    BY DEF Enter, Types, Calls, C
  <2>3. QED
    BY <1>6, <2>1, <2>2 DEF EnterRefuses, BadSignature, Enter, Return, Goto, NoCall, WipeInv,
                            WipedAfterwards, C
<1>7. CASE Stage
  <2>1. /\ call'.ctx = C /\ call'.op = call.op /\ call'.ok = call.ok
        /\ call'.at = call.at + 1 /\ call.at \in Nat
    BY <1>7, StageArea DEF Types, Calls, C
  <2>2. \A c \in handles' : c # C' => WipedAfterwards(c)'
    BY <1>7, <2>1, StageArea DEF WipeInv, WipedAfterwards, C, Types
  <2>3. call.op = "sign" /\ call'.at > 11 => area'[C]["prng"] # "secret"
    <3>1. SUFFICES ASSUME call.op = "sign", call.at + 1 > 11
                   PROVE  area'[C]["prng"] # "secret"
      BY <2>1
    <3>2. call.at \in 11..14
      <4>1. Len(Stages) = 14 /\ call.at <= Len(Stages) /\ call.at \in Nat
        BY <1>7, <2>1, <3>1, SignStages, StageArea
      <4>2. QED
        BY <3>1, <4>1
    <3>3. CASE call.at = 11
      <4>1. Stages[call.at] = "derive"
        BY <3>1, <3>3, SignStages
      <4>2. area'[C]["prng"] = "public"
        BY <1>7, <4>1, StageArea, AfterKeeps DEF Types
      <4>3. QED
        BY <4>2
    <3>4. CASE call.at \in 12..14
      <4>1. Stages[call.at] \notin {"expand", "derive"}
        BY <3>1, <3>4, SignStages
      <4>2. area'[C]["prng"] = area[C]["prng"]
        BY <1>7, <4>1, StageArea, AfterKeeps DEF Types
      <4>3. area[C]["prng"] # "secret"
        BY <1>7, <3>1, <3>4, StageArea DEF WipeInv
      <4>4. QED
        BY <4>2, <4>3
    <3>5. QED
      BY <3>2, <3>3, <3>4
  <2>4. QED
    BY <1>7, <2>1, <2>2, <2>3, StageArea DEF WipeInv, C
<1>8. CASE TryAgain
  <2>1. /\ call.op = "sign" /\ call.at > 1 /\ call.at <= Len(Stages)
        /\ Stages[call.at - 1] = "derive" /\ pc = "group" /\ pc' = "group"
        /\ call' = [call EXCEPT !.at = @ - 2]
        /\ UNCHANGED <<handles, area, last>>
    BY <1>8 DEF TryAgain
  <2>2. /\ call'.ctx = C /\ call'.op = call.op /\ call'.ok = call.ok
        /\ call'.at = call.at - 2 /\ call.at \in Nat
    BY <2>1 DEF Types, Calls, C
  <2>3. call.at = 12
    <3>1. /\ Len(Stages) = 14
          /\ \A n \in 1..14 : Stages[n] = "derive" => n = 11
      BY <2>1, SignStages
    <3>2. call.at - 1 \in 1..14
      BY <2>1, <2>2, <3>1
    <3>3. call.at - 1 = 11
      BY <2>1, <3>1, <3>2
    <3>4. QED
      BY <2>2, <3>3
  <2>4. ~(call'.at > 11)
    BY <2>2, <2>3
  <2>5. QED
    BY <2>1, <2>2, <2>4 DEF WipeInv, WipedAfterwards, C
<1>9. CASE StageFails
  <2>1. call.ok = FALSE
    BY <1>9, StageFailsArea DEF WipeInv, Types, Calls
  <2>2. QED
    BY <1>9, <2>1, StageFailsArea DEF WipeInv, WipedAfterwards, C, Types
<1>10. CASE StagesDone
  <2>1. /\ pc = "group" /\ pc' = "clear" /\ call.at > Len(Stages)
        /\ call' = [call EXCEPT !.ok = TRUE]
        /\ UNCHANGED <<handles, area, last>>
    BY <1>10 DEF StagesDone, Goto
  <2>2. call'.ctx = C /\ call'.op = call.op /\ call.at \in Nat
    BY <2>1 DEF Types, Calls, C
  <2>3. call.op = "sign" => area[C]["prng"] # "secret"
    <3>1. SUFFICES ASSUME call.op = "sign" PROVE area[C]["prng"] # "secret"
      OBVIOUS
    <3>2. Len(Stages) = 14
      BY <3>1, SignStages
    <3>3. call.at > 11
      BY <2>1, <2>2, <3>2
    <3>4. QED
      BY <2>1, <3>1, <3>3 DEF WipeInv
  <2>4. QED
    BY <2>1, <2>2, <2>3 DEF WipeInv, WipedAfterwards, C
<1>11. CASE Clear
  <2>1. \A c \in handles' : c # C => WipedAfterwards(c)'
    BY <1>11, ClearArea DEF WipeInv, WipedAfterwards, Types
  <2>2. last'[C].op = call.op /\ last'[C].ok = call.ok
    BY <1>11, ClearArea
  <2>3. call.op = "sign" /\ call.ok => area'[C]["prng"] # "secret"
    BY <1>11, ClearArea DEF WipeInv, Areas
  <2>4. last'[C] = [op |-> "sign", ok |-> TRUE] => call.op = "sign" /\ call.ok
    <3>1. SUFFICES ASSUME last'[C] = [op |-> "sign", ok |-> TRUE]
                   PROVE  call.op = "sign" /\ call.ok
      OBVIOUS
    <3>2. last'[C].op = "sign" /\ last'[C].ok = TRUE
      BY <3>1
    <3>3. QED
      BY <2>2, <3>2
  <2>5. call.op \in {"validate", "sign"} => \A x \in Areas \ {"prng"} : area'[C][x] # "secret"
    BY <1>11, ClearArea
  <2>6. WipedAfterwards(C)'
    BY <2>2, <2>3, <2>4, <2>5, ClearArea, <1>11 DEF WipedAfterwards, C
  <2>7. QED
    BY <1>11, <2>1, <2>6, ClearArea DEF WipeInv, C
<1>12. CASE Export
  <2>1. call'.ok = call.ok
    BY <1>12 DEF Export, Types, Calls
  <2>2. QED
    BY <1>12, <2>1 DEF Export, Goto, WipeInv, WipedAfterwards
<1>13. CASE Leave
  <2>1. call'.ok = FALSE
    BY <1>13 DEF Leave, Return, NoCall
  <2>2. QED
    BY <1>13, <2>1 DEF Leave, Return, WipeInv, WipedAfterwards
<1>14. ASSUME NEW c \in Ctxs, Finalize(c) PROVE WipeInv'
  <2>1. \A d \in handles' : d # c /\ d \in handles
    BY <1>14, FinalizeArea
  <2>2. \A d \in handles' : WipedAfterwards(d) => WipedAfterwards(d)'
    BY <1>14, <2>1, FinalizeArea DEF WipedAfterwards, Types
  <2>3. pc \in {"group", "clear"} => area'[C] = area[C]
    BY <1>14, FinalizeArea DEF CallInv, Using, Types
  <2>4. QED
    BY <1>14, <2>1, <2>2, <2>3, FinalizeArea DEF WipeInv, C
<1>15. ASSUME NEW b \in Bufs, FinalizeBuffer(b) PROVE WipeInv'
  BY <1>15 DEF FinalizeBuffer, WipeInv, WipedAfterwards, C
<1>16. QED
  BY <1>1, <1>2, <1>3, <1>4, <1>5, <1>6, <1>7, <1>8, <1>9, <1>10, <1>11, <1>12, <1>13,
     <1>14, <1>15 DEF Next
------------------------------------------------------------------------------
(* The contexts of verifiers.                                              *)

LEMMA InitVerifier == Init => VerifierHoldsNoSecret
BY DEF Init, VerifierHoldsNoSecret

(* verify has no stage that expands s_prime.                               *)
LEMMA VerifyStages ==
  ASSUME call.op = "verify", call.at \in Nat, call.at >= 1, call.at <= Len(Stages)
  PROVE  Stages[call.at] # "expand"
<1>1. Stages = <<"check", "pow", "powgh", "pow", "powgh", "derive", "check">>
  BY DEF Stages
<1>2. call.at \in 1..7
  BY <1>1
<1>3. QED
  BY <1>1, <1>2

(* What a method other than verify works on is in the other slot.          *)
LEMMA NotTheVerifiers ==
  ASSUME Types, CallInv, SlotsInv, pc \in Using, call.op # "verify", NEW a \in Apis
  PROVE  slots[a].v # C
<1>1. C \in handles /\ call.api \in Apis /\ slots[call.api].p = C
  BY DEF CallInv, SlotOf, Using
<1>2. C # None
  BY <1>1, ContextAssumption DEF Types
<1>3. QED
  BY <1>1, <1>2 DEF SlotsInv

LEMMA StepVerifier ==
  ASSUME Types, CallInv, SlotsInv, HeapInv, AreaInv, VerifierHoldsNoSecret, [Next]_vars
  PROVE  VerifierHoldsNoSecret'
<1> USE DEF VerifierHoldsNoSecret
<1>1. \A a \in Apis : slots[a].v # None => slots[a].v \in handles /\ slots[a].v \in Ctxs
  BY DEF SlotsInv, Types
<1>2. CASE UNCHANGED <<slots, area>>
  BY <1>2
<1>3. ASSUME NEW a \in Apis, Renew(a) PROVE VerifierHoldsNoSecret'
  BY <1>3 DEF Renew, Types
<1>4. CASE Malloc \/ NoModulus \/ GroupInit \/ HashPrefix \/ PlanStep \/ CombInit \/ Undo
  BY <1>1, <1>4, CreateArea
<1>5. CASE Created
  BY <1>5, CreatedArea DEF NoSecret
<1>6. CASE Stage
  <2>1. \A a \in Apis : slots[a].v # None /\ slots[a].v # C => area'[slots[a].v] = area[slots[a].v]
    BY <1>1, <1>6, StageArea
  <2>2. CASE call.op = "verify"
    <3>1. Stages[call.at] # "expand"
      <4>1. call.at \in Nat /\ call.at >= 1 /\ call.at <= Len(Stages)
        BY <1>6, StageArea DEF CallInv, Types, Calls
      <4>2. QED
        BY <2>2, <4>1, VerifyStages
    <3>2. \A y \in Areas : area'[C][y] = area[C][y] \/ area'[C][y] # "secret"
      BY <1>6, <2>2, <3>1, StageArea, AfterKeeps DEF Types
    <3>3. QED
      BY <1>6, <2>1, <3>2, StageArea
  <2>3. CASE call.op # "verify"
    <3>1. \A a \in Apis : slots[a].v # C
      BY <1>6, <2>3, NotTheVerifiers, StageArea DEF Using
    <3>2. QED
      BY <1>6, <2>1, <3>1, StageArea
  <2>4. QED
    BY <2>2, <2>3
<1>7. CASE StageFails
  BY <1>1, <1>7, StageFailsArea
<1>8. CASE Clear
  <2>1. \A x \in Areas : area[C][x] # "secret" => area'[C][x] # "secret"
    BY <1>8, ClearArea
  <2>2. \A c \in Ctxs : c # C => area'[c] = area[c]
    BY <1>8, ClearArea
  <2>3. slots' = slots
    BY <1>8, ClearArea
  <2>4. QED
    BY <1>1, <2>1, <2>2, <2>3
<1>9. ASSUME NEW c \in Ctxs, Finalize(c) PROVE VerifierHoldsNoSecret'
  BY <1>1, <1>9, FinalizeArea
<1>10. QED
  BY <1>2, <1>3, <1>4, <1>5, <1>6, <1>7, <1>8, <1>9
     DEF Next, vars, Call, EnterRefuses, BadSignature, Enter, TryAgain, StagesDone, Export,
         Leave, FinalizeBuffer

------------------------------------------------------------------------------
(* The invariant that the three properties follow from: what every block   *)
(* that is allocated belongs to, where the call under way is, what slots   *)
(* point to and what the working areas hold.                               *)
THEOREM ContextAlways == Spec => []ContextInv
<1>1. Init => ContextInv
  BY InitTypes, InitCall, InitSlots, InitHeap, InitArea, InitWipe, InitVerifier DEF ContextInv
<1>2. ContextInv /\ [Next]_vars => ContextInv'
  BY StepTypes, StepCall, StepSlots, StepHeap, StepArea, StepWipe, StepVerifier DEF ContextInv
<1>3. QED
  BY <1>1, <1>2, PTL DEF Spec

(* Whatever combination of calls, failures and finalizers there was, what  *)
(* is allocated between calls is exactly what the live contexts and the    *)
(* buffers of JavaScript consist of, and goo_free was given nothing that   *)
(* was not allocated (goo_create, goo_destroy, goo_group_uninit).          *)
THEOREM NothingLostAlways == Spec => []NothingLost
<1>1. ContextInv => NothingLost
  <2> SUFFICES ASSUME ContextInv PROVE NothingLost
    OBVIOUS
  <2> USE DEF ContextInv
  <2>1. ~badFree
    BY DEF HeapInv
  <2>2. ASSUME pc = "idle"
        PROVE  heap = (UNION {Whole(c) : c \in handles}) \cup {Out(b) : b \in buffers}
    <3>1. \A c \in handles : /\ c \in Ctxs /\ combsLen[c] \in {1, 2}
                             /\ Struct(c) \in heap /\ Ints(c) \in heap
                             /\ \A n \in Nat : n < combsLen[c] => Comb(c, n) \in heap
      BY DEF Types, AreaInv, HeapInv, StructsHeld, IntsHeld, CombsHeld
    <3>2. \A c \in handles : \A x :
            x \in Whole(c) <=> \/ x \in {Struct(c), Ints(c)}
                              \/ \E n \in Nat : n < combsLen[c] /\ x = Comb(c, n)
      BY <3>1 DEF Whole
    <3>3. \A b \in buffers : Out(b) \in heap
      BY DEF Types, HeapInv, OutsHeld
    <3>4. ASSUME NEW x \in heap
          PROVE  (\E c \in handles : x \in Whole(c)) \/ \E b \in buffers : x = Out(b)
      <4>1. Block(x) /\ x \notin {ApiLocals, GroupLocals}
        BY <2>2, <3>4 DEF HeapInv, LocalsHeld, Building, Using
      <4>2. ASSUME NEW c \in Ctxs, x \in {Struct(c), Ints(c)} PROVE c \in handles /\ x \in Whole(c)
        BY <2>2, <3>2, <3>4, <4>2 DEF HeapInv, StructsHeld, IntsHeld, Building
      <4>3. ASSUME NEW c \in Ctxs, NEW n \in Nat, x = Comb(c, n)
            PROVE  c \in handles /\ x \in Whole(c)
        BY <2>2, <3>2, <3>4, <4>3 DEF HeapInv, CombsHeld
      <4>4. ASSUME NEW b \in Bufs, x = Out(b) PROVE b \in buffers
        BY <2>2, <3>4, <4>4, ContextAssumption DEF HeapInv, OutsHeld, CallInv
      <4>5. QED
        BY <4>1, <4>2, <4>3, <4>4, Zenon DEF Block
    <3>5. \A x : x \in heap <=> (\E c \in handles : x \in Whole(c)) \/ \E b \in buffers : x = Out(b)
      BY <3>1, <3>2, <3>3, <3>4
    <3>6. \A x :
            x \in heap <=> x \in (UNION {Whole(c) : c \in handles}) \cup {Out(b) : b \in buffers}
      <4>1. \A x : x \in UNION {Whole(c) : c \in handles} <=> \E c \in handles : x \in Whole(c)
        OBVIOUS
      <4>2. \A x : x \in {Out(b) : b \in buffers} <=> \E b \in buffers : x = Out(b)
        OBVIOUS
      <4>3. QED
        BY <3>5, <4>1, <4>2
    <3>7. QED
      BY <3>6
  <2>3. QED
    BY <2>1, <2>2 DEF NothingLost
<1>2. QED
  BY <1>1, ContextAlways, PTL

(* A goo_group_validate or goo_group_sign that has returned, with whatever *)
(* result, leaves no secret in the tables, windows and slab of its context *)
(* (goo_group_cleanse), and a sign that succeeded none in the PRNG either. *)
THEOREM ScratchWipedAlways == Spec => []ScratchWiped
<1>1. ContextInv => ScratchWiped
  BY DEF ContextInv, WipeInv, WipedAfterwards, ScratchWiped
<1>2. QED
  BY <1>1, ContextAlways, PTL

(* The context in the _v of an API object never holds a secret: nothing    *)
(* but verify works on it, and verify computes with public values alone.   *)
THEOREM VerifierHoldsNoSecretAlways == Spec => []VerifierHoldsNoSecret
<1>1. ContextInv => VerifierHoldsNoSecret
  BY DEF ContextInv
<1>2. QED
  BY <1>1, ContextAlways, PTL

------------------------------------------------------------------------------
(* The PRNG: the inductive invariant.                                      *)

Ordered(s) == \A i, j \in DOMAIN s : i < j => s[i].at < s[j].at

OfSeed(s) == \A i \in DOMAIN s : s[i].seed = seed

(* While random_bits fills, it is never a whole word ahead of the request: *)
(* this is what makes the reservoir narrower than a word when it splits.   *)
NotAhead == prngPc = "fill" => have < want + WordBits

IInv == TypeOK /\ NoReuse /\ NoLoss /\ InOrder /\ ReservoirWidth /\ NotAhead

(* While a call is in progress its argument is a size callers ask for.     *)
Asked == prngPc # "idle" => want \in Requests

------------------------------------------------------------------------------
(* The next word: k bits of the seed in force, in order, right behind the  *)
(* bits already drawn.                                                     *)
LEMMA GenerateFacts ==
  ASSUME NEW k \in Nat, TypeOK
  PROVE  /\ Generate(k) \in Seq(Bit)
         /\ Len(Generate(k)) = k
         /\ DOMAIN Generate(k) = 1..k
         /\ \A i \in 1..k : Generate(k)[i].at = drawn + i
         /\ OfSeed(Generate(k))
         /\ Ordered(Generate(k))
         /\ PositionsOf(Generate(k)) = (drawn + 1)..(drawn + k)
<1>1. \A i \in 1..k : [seed |-> seed, at |-> drawn + i] \in Bit
  BY DEF TypeOK, Bit
<1>2. Generate(k) \in [1..k -> Bit]
  BY <1>1 DEF Generate
<1>3. Generate(k) \in Seq(Bit) /\ Len(Generate(k)) = k
  BY <1>2
<1>4. DOMAIN Generate(k) = 1..k /\ \A i \in 1..k : Generate(k)[i].at = drawn + i
  BY DEF Generate
<1>5. OfSeed(Generate(k))
  BY DEF OfSeed, Generate
<1>6. Ordered(Generate(k))
  BY <1>4 DEF Ordered, TypeOK
<1>7. PositionsOf(Generate(k)) = (drawn + 1)..(drawn + k)
  <2>1. ASSUME NEW x \in (drawn + 1)..(drawn + k)
        PROVE  x \in PositionsOf(Generate(k))
    <3>1. x - drawn \in 1..k /\ drawn + (x - drawn) = x
      BY DEF TypeOK
    <3>2. QED
      BY <1>4, <3>1 DEF PositionsOf
  <2>2. PositionsOf(Generate(k)) \subseteq (drawn + 1)..(drawn + k)
    BY <1>4 DEF PositionsOf, TypeOK
  <2>3. QED
    BY <2>1, <2>2
<1>8. QED
  BY <1>3, <1>4, <1>5, <1>6, <1>7

(* Shifting a word in: its bits come behind the ones held.                 *)
LEMMA JoinFacts ==
  ASSUME NEW s \in Seq(Bit), NEW t \in Seq(Bit)
  PROVE  /\ s \o t \in Seq(Bit)
         /\ Len(s \o t) = Len(s) + Len(t)
         /\ PositionsOf(s \o t) = PositionsOf(s) \cup PositionsOf(t)
         /\ OfSeed(s) /\ OfSeed(t) => OfSeed(s \o t)
         /\ /\ Ordered(s) /\ Ordered(t)
            /\ \A x \in PositionsOf(s), y \in PositionsOf(t) : x < y
            => Ordered(s \o t)
<1>1. /\ s \o t \in Seq(Bit)
      /\ Len(s \o t) = Len(s) + Len(t)
      /\ \A i \in 1..(Len(s) + Len(t)) :
           (s \o t)[i] = IF i <= Len(s) THEN s[i] ELSE t[i - Len(s)]
  BY ConcatProperties
<1>2. /\ DOMAIN s = 1..Len(s) /\ DOMAIN t = 1..Len(t)
      /\ DOMAIN (s \o t) = 1..(Len(s) + Len(t))
      /\ Len(s) \in Nat /\ Len(t) \in Nat
  BY <1>1
<1>3. \A i \in DOMAIN s : i \in DOMAIN (s \o t) /\ (s \o t)[i] = s[i]
  BY <1>1, <1>2
<1>4. \A i \in DOMAIN t : Len(s) + i \in DOMAIN (s \o t) /\ (s \o t)[Len(s) + i] = t[i]
  BY <1>1, <1>2
<1>5. \A i \in DOMAIN (s \o t) :
        \/ i \in DOMAIN s /\ (s \o t)[i] = s[i]
        \/ i - Len(s) \in DOMAIN t /\ (s \o t)[i] = t[i - Len(s)] /\ i > Len(s)
  BY <1>1, <1>2
<1>6. PositionsOf(s \o t) = PositionsOf(s) \cup PositionsOf(t)
  <2>1. PositionsOf(s \o t) \subseteq PositionsOf(s) \cup PositionsOf(t)
    BY <1>5 DEF PositionsOf
  <2>2. PositionsOf(s) \subseteq PositionsOf(s \o t)
    BY <1>3 DEF PositionsOf
  <2>3. PositionsOf(t) \subseteq PositionsOf(s \o t)
    BY <1>4 DEF PositionsOf
  <2>4. QED
    BY <2>1, <2>2, <2>3
<1>7. OfSeed(s) /\ OfSeed(t) => OfSeed(s \o t)
  BY <1>5 DEF OfSeed
<1>8. ASSUME Ordered(s), Ordered(t),
             \A x \in PositionsOf(s), y \in PositionsOf(t) : x < y
      PROVE  Ordered(s \o t)
  <2> SUFFICES ASSUME NEW i \in DOMAIN (s \o t), NEW j \in DOMAIN (s \o t), i < j
               PROVE  (s \o t)[i].at < (s \o t)[j].at
    BY DEF Ordered
  <2>1. CASE j \in DOMAIN s /\ (s \o t)[j] = s[j]
    <3>1. i \in DOMAIN s /\ (s \o t)[i] = s[i]
      BY <2>1, <1>1, <1>2
    <3>2. QED
      BY <2>1, <3>1, <1>8 DEF Ordered
  <2>2. CASE j - Len(s) \in DOMAIN t /\ (s \o t)[j] = t[j - Len(s)] /\ j > Len(s)
    <3>1. CASE i \in DOMAIN s /\ (s \o t)[i] = s[i]
      BY <2>2, <3>1, <1>8 DEF PositionsOf
    <3>2. CASE i - Len(s) \in DOMAIN t /\ (s \o t)[i] = t[i - Len(s)] /\ i > Len(s)
      <4>1. i - Len(s) < j - Len(s)
        BY <1>2
      <4>2. QED
        BY <2>2, <3>2, <4>1, <1>8 DEF Ordered
    <3>3. QED
      BY <3>1, <3>2, <1>5
  <2>3. QED
    BY <2>1, <2>2, <1>5
<1>9. QED
  BY <1>1, <1>6, <1>7, <1>8

(* Splitting: the answer is a prefix and the reservoir the rest of it.     *)
LEMMA SplitFacts ==
  ASSUME NEW s \in Seq(Bit), NEW k \in 0..Len(s), Ordered(s), OfSeed(s)
  PROVE  /\ Prefix(s, Len(s) - k) \in Seq(Bit) /\ Suffix(s, k) \in Seq(Bit)
         /\ Len(Prefix(s, Len(s) - k)) = Len(s) - k /\ Len(Suffix(s, k)) = k
         /\ PositionsOf(Prefix(s, Len(s) - k)) \cup PositionsOf(Suffix(s, k))
              = PositionsOf(s)
         /\ PositionsOf(Prefix(s, Len(s) - k)) \cap PositionsOf(Suffix(s, k)) = {}
         /\ Ordered(Prefix(s, Len(s) - k)) /\ Ordered(Suffix(s, k))
         /\ OfSeed(Prefix(s, Len(s) - k)) /\ OfSeed(Suffix(s, k))
<1> DEFINE p == Prefix(s, Len(s) - k)
           q == Suffix(s, k)
           m == Len(s) - k
<1>1. Len(s) \in Nat /\ k \in Nat /\ k <= Len(s) /\ m \in Nat /\ DOMAIN s = 1..Len(s)
  OBVIOUS
<1>2. p \in Seq(Bit) /\ Len(p) = m /\ \A i \in 1..m : p[i] = s[i]
  <2>1. \A i \in 1..m : s[i] \in Bit
    BY <1>1
  <2>2. p = SubSeq(s, 1, m)
    BY DEF Prefix
  <2>3. p \in Seq(Bit)
    BY <1>1, <2>1, <2>2
  <2>4. Len(p) = m
    <3>1. Len(SubSeq(s, 1, m)) = IF 1 <= m THEN m - 1 + 1 ELSE 0
      <4> HIDE DEF m
      <4> QED
        BY <1>1, <2>1, SubSeqProperties
    <3>2. (IF 1 <= m THEN m - 1 + 1 ELSE 0) = m
      <4>1. m \in Nat
        BY <1>1
      <4> HIDE DEF m
      <4>2. QED
        BY <4>1
    <3>3. QED
      BY <2>2, <3>1, <3>2, Zenon
  <2>5. \A i \in 1..m : p[i] = s[i]
    BY <1>1, <2>2
  <2>6. QED
    BY <2>3, <2>4, <2>5
<1>3. q \in Seq(Bit) /\ Len(q) = k /\ \A i \in 1..k : q[i] = s[m + i]
  <2>1. /\ m \in Nat /\ k \in Nat /\ Len(s) \in Nat /\ m = Len(s) - k /\ m + k = Len(s)
        /\ \A i \in 1..Len(s) : s[i] \in Bit
    BY <1>1
  <2>2. q = SubSeq(s, m + 1, Len(s))
    BY DEF Suffix
  <2> HIDE DEF m, q
  <2>3. \A i \in (m + 1)..Len(s) : s[i] \in Bit
    BY <2>1
  <2>4. q \in Seq(Bit)
    BY <2>1, <2>2, <2>3
  <2>5. Len(q) = k
    <3>1. Len(SubSeq(s, m + 1, Len(s)))
            = IF m + 1 <= Len(s) THEN Len(s) - (m + 1) + 1 ELSE 0
      BY <2>1, <2>3, SubSeqProperties
    <3>2. (IF m + 1 <= Len(s) THEN Len(s) - (m + 1) + 1 ELSE 0) = k
      BY <2>1
    <3>3. QED
      BY <2>2, <3>1, <3>2, Zenon
  <2>6. \A i \in 1..k : q[i] = s[m + i]
    BY <2>1, <2>2
  <2>7. QED
    BY <2>4, <2>5, <2>6
<1>4. DOMAIN p = 1..m /\ DOMAIN q = 1..k
  BY <1>2, <1>3
<1> HIDE DEF p, q
<1>5. \A i \in DOMAIN p : i \in DOMAIN s /\ p[i] = s[i]
  BY <1>1, <1>2, <1>4
<1>6. \A i \in DOMAIN q : m + i \in DOMAIN s /\ q[i] = s[m + i]
  BY <1>1, <1>3, <1>4
<1>7. \A i \in DOMAIN s :
        \/ i \in DOMAIN p /\ p[i] = s[i]
        \/ i - m \in DOMAIN q /\ q[i - m] = s[i]
  <2> SUFFICES ASSUME NEW i \in DOMAIN s
               PROVE  \/ i \in DOMAIN p /\ p[i] = s[i]
                      \/ i - m \in DOMAIN q /\ q[i - m] = s[i]
    OBVIOUS
  <2>1. m \in Nat /\ k \in Nat /\ i \in 1..(m + k)
    BY <1>1
  <2> HIDE DEF m
  <2>2. CASE i <= m
    BY <1>2, <1>4, <2>1, <2>2
  <2>3. CASE i > m
    <3>1. i - m \in 1..k /\ m + (i - m) = i
      BY <2>1, <2>3
    <3>2. QED
      BY <1>3, <1>4, <3>1
  <2>4. QED
    BY <2>1, <2>2, <2>3
<1>8. PositionsOf(p) \cup PositionsOf(q) = PositionsOf(s)
  BY <1>5, <1>6, <1>7 DEF PositionsOf
<1>9. ASSUME NEW i \in DOMAIN p, NEW j \in DOMAIN q
      PROVE  p[i].at < q[j].at
  <2>1. i < m + j
    BY <1>1, <1>4
  <2>2. QED
    BY <2>1, <1>5, <1>6 DEF Ordered
<1>10. \A i \in DOMAIN p : p[i].at \in Nat
  <2>1. \A i \in DOMAIN p : p[i] \in Bit
    BY <1>2, <1>4
  <2>2. QED
    BY <2>1 DEF Bit
<1>11. PositionsOf(p) \cap PositionsOf(q) = {}
  BY <1>9, <1>10 DEF PositionsOf
<1>12. Ordered(p)
  BY <1>5, <1>4 DEF Ordered
<1>13. Ordered(q)
  <2> SUFFICES ASSUME NEW i \in DOMAIN q, NEW j \in DOMAIN q, i < j
               PROVE  q[i].at < q[j].at
    BY DEF Ordered
  <2>1. m + i < m + j
    BY <1>1, <1>4
  <2>2. QED
    BY <2>1, <1>6 DEF Ordered
<1>14. OfSeed(p) /\ OfSeed(q)
  BY <1>5, <1>6 DEF OfSeed
<1>15. QED
  BY <1>2, <1>3, <1>8, <1>11, <1>12, <1>13, <1>14 DEF p, q

------------------------------------------------------------------------------
LEMMA InitInv == PrngInit => IInv
<1> SUFFICES ASSUME PrngInit PROVE IInv
  OBVIOUS
<1>1. Held = <<>> /\ PositionsOf(Held) = {}
  BY DEF PrngInit, Held, PositionsOf
<1>2. TypeOK
  <2>1. <<>> \in Seq(Bit)
    OBVIOUS
  <2>2. QED
    BY <2>1 DEF PrngInit, TypeOK
<1>3. NoReuse /\ NoLoss
  BY <1>1 DEF PrngInit, NoReuse, NoLoss
<1>4. InOrder
  BY <1>1 DEF InOrder
<1>5. ReservoirWidth /\ NotAhead
  BY PrngAssumption DEF PrngInit, ReservoirWidth, NotAhead
<1>6. QED
  BY <1>2, <1>3, <1>4, <1>5 DEF IInv

LEMMA FillInv == IInv /\ Fill => IInv'
<1> SUFFICES ASSUME IInv, Fill PROVE IInv'
  OBVIOUS
<1> DEFINE g == Generate(WordBits)
<1>1. /\ WordBits \in Nat /\ g \in Seq(Bit) /\ Len(g) = WordBits
      /\ OfSeed(g) /\ Ordered(g)
      /\ PositionsOf(g) = (drawn + 1)..(drawn + WordBits)
  BY GenerateFacts, PrngAssumption DEF IInv
<1> HIDE DEF g
<1>2. /\ prngPc = "fill" /\ prngPc' = "fill" /\ ret' = ret \o g
      /\ drawn' = drawn + WordBits /\ have' = have + WordBits
      /\ seed' = seed /\ given' = given /\ Held = ret /\ Held' = ret'
  BY DEF Fill, Joined, Short, g, Held
<1>3. /\ drawn \in Nat /\ ret \in Seq(Bit) /\ given \subseteq Nat
      /\ Ordered(ret) /\ OfSeed(ret) /\ PositionsOf(ret) \cap given = {}
      /\ given \cup PositionsOf(ret) = 1..drawn
  BY <1>2 DEF IInv, TypeOK, NoReuse, NoLoss, InOrder, Ordered, OfSeed
<1>4. \A x \in PositionsOf(ret), y \in PositionsOf(g) : x < y
  BY <1>1, <1>3
<1>5. /\ ret' \in Seq(Bit) /\ Len(ret') = Len(ret) + WordBits
      /\ PositionsOf(ret') = PositionsOf(ret) \cup PositionsOf(g)
      /\ Ordered(ret') /\ OfSeed(ret')
  BY <1>1, <1>2, <1>3, <1>4, JoinFacts
<1>6. TypeOK'
  BY <1>1, <1>2, <1>5 DEF IInv, TypeOK, Fill, Joined, Short
<1>7. NoReuse'
  <2>1. PositionsOf(g) \cap given = {}
    BY <1>1, <1>3
  <2>2. QED
    BY <2>1, <1>2, <1>3, <1>5 DEF NoReuse, PositionsOf
<1>8. NoLoss'
  <2>1. 1..drawn \cup (drawn + 1)..(drawn + WordBits) = 1..(drawn + WordBits)
    BY <1>1, <1>3
  <2>2. PositionsOf(Held)' = PositionsOf(ret')
    BY <1>2 DEF PositionsOf
  <2>3. QED
    BY <2>1, <2>2, <1>1, <1>2, <1>3, <1>5 DEF NoLoss
<1>9. InOrder'
  BY <1>2, <1>5 DEF InOrder, Ordered, OfSeed
<1>10. ReservoirWidth' /\ NotAhead'
  <2>1. /\ have \in Nat /\ want \in Nat /\ have < want /\ have = Len(ret)
        /\ total = Len(save) /\ total < WordBits
        /\ UNCHANGED <<save, total, want>>
    BY <1>2 DEF IInv, TypeOK, ReservoirWidth, Fill, Joined, Short
  <2>2. QED
    BY <2>1, <1>1, <1>2, <1>5 DEF ReservoirWidth, NotAhead
<1>11. QED
  BY <1>6, <1>7, <1>8, <1>9, <1>10 DEF IInv

LEMMA SplitInv == IInv /\ Split => IInv'
<1> SUFFICES ASSUME IInv, Split PROVE IInv'
  OBVIOUS
<1> DEFINE left == have - want
<1>1. /\ prngPc = "fill" /\ prngPc' \in {"idle", "compare"} /\ seed' = seed
      /\ drawn' = drawn /\ save' = Suffix(ret, left) /\ total' = left
      /\ ret' = Prefix(ret, Len(ret) - left) /\ out' = ret'
      /\ given' = given \cup PositionsOf(ret')
      /\ Held = ret /\ Held' = save'
  BY DEF Split, Short, Held
<1>2. /\ drawn \in Nat /\ ret \in Seq(Bit) /\ given \subseteq Nat
      /\ Ordered(ret) /\ OfSeed(ret) /\ PositionsOf(ret) \cap given = {}
      /\ given \cup PositionsOf(ret) = 1..drawn
  BY <1>1 DEF IInv, TypeOK, NoReuse, NoLoss, InOrder, Ordered, OfSeed
<1>3. left \in 0..Len(ret) /\ left < WordBits
  BY <1>1, PrngAssumption DEF IInv, TypeOK, ReservoirWidth, NotAhead, Split, Short
<1> HIDE DEF left
<1>4. /\ ret' \in Seq(Bit) /\ save' \in Seq(Bit) /\ Len(save') = left
      /\ PositionsOf(ret') \cup PositionsOf(save') = PositionsOf(ret)
      /\ PositionsOf(ret') \cap PositionsOf(save') = {}
      /\ Ordered(save') /\ OfSeed(save')
  BY <1>1, <1>2, <1>3, SplitFacts
<1>5. PositionsOf(Held)' = PositionsOf(save')
  BY <1>1 DEF PositionsOf
<1>6. TypeOK'
  <2>1. given' \subseteq Nat
    BY <1>1, <1>2, <1>4
  <2>2. QED
    BY <2>1, <1>1, <1>3, <1>4 DEF IInv, TypeOK, Split, Short
<1>7. NoReuse' /\ NoLoss'
  BY <1>1, <1>2, <1>4, <1>5 DEF NoReuse, NoLoss
<1>8. InOrder'
  BY <1>1, <1>4 DEF InOrder, Ordered, OfSeed
<1>9. ReservoirWidth' /\ NotAhead'
  BY <1>1, <1>3, <1>4 DEF ReservoirWidth, NotAhead
<1>10. QED
  BY <1>6, <1>7, <1>8, <1>9 DEF IInv

LEMMA RandomNumInv == IInv /\ RandomNum => IInv'
<1> SUFFICES ASSUME IInv, RandomNum PROVE IInv'
  OBVIOUS
<1> DEFINE g == Generate(NumBits)
<1>1. /\ NumBits \in Nat /\ g \in Seq(Bit)
      /\ PositionsOf(g) = (drawn + 1)..(drawn + NumBits)
  BY GenerateFacts, PrngAssumption DEF IInv
<1> HIDE DEF g
<1>2. /\ prngPc = "idle" /\ out' = g /\ drawn' = drawn + NumBits
      /\ given' = given \cup PositionsOf(g)
      /\ UNCHANGED <<seed, save, total, prngPc, want, ret, have, retry>>
  BY DEF RandomNum, g, PositionsOf
<1>3. /\ drawn \in Nat /\ given \subseteq Nat /\ Held = save /\ Held' = save
      /\ PositionsOf(Held) = PositionsOf(save)
      /\ PositionsOf(Held)' = PositionsOf(save)
  BY <1>2 DEF IInv, TypeOK, Held, PositionsOf
<1>4. TypeOK'
  BY <1>1, <1>2, <1>3 DEF IInv, TypeOK
<1>5. NoReuse'
  BY <1>1, <1>2, <1>3 DEF IInv, NoReuse, NoLoss
<1>6. NoLoss'
  BY <1>1, <1>2, <1>3 DEF IInv, NoLoss
<1>7. InOrder' /\ ReservoirWidth' /\ NotAhead'
  BY <1>2, <1>3 DEF IInv, InOrder, ReservoirWidth, NotAhead
<1>8. QED
  BY <1>4, <1>5, <1>6, <1>7 DEF IInv

LEMMA SeedInv == ASSUME NEW s \in Seeds, IInv, Seed(s) PROVE IInv'
<1>1. /\ prngPc' = "idle" /\ save' = <<>> /\ total' = 0 /\ drawn' = 0
      /\ given' = {} /\ Held' = <<>>
  BY DEF Seed, Held
<1>2. TypeOK'
  BY DEF IInv, TypeOK, Seed
<1>3. NoReuse' /\ NoLoss' /\ InOrder'
  BY <1>1 DEF NoReuse, NoLoss, InOrder, PositionsOf
<1>4. ReservoirWidth' /\ NotAhead'
  BY <1>1, PrngAssumption DEF ReservoirWidth, NotAhead
<1>5. QED
  BY <1>2, <1>3, <1>4 DEF IInv

(* A request, or random_int's next candidate, starts from the reservoir:   *)
(* the bits held are the same bits before and after.                       *)
LEMMA RestartInv ==
  ASSUME IInv, prngPc \in {"idle", "compare"}, prngPc' = "fill", want' \in Nat,
         ret' = save, have' = total, retry' \in BOOLEAN,
         UNCHANGED <<seed, drawn, save, total, out, given>>
  PROVE  IInv'
<1>1. Held = save /\ Held' = save
  BY DEF Held
<1>2. TypeOK'
  BY DEF IInv, TypeOK
<1>3. NoReuse' /\ NoLoss' /\ InOrder'
  BY <1>1 DEF IInv, NoReuse, NoLoss, InOrder, PositionsOf
<1>4. ReservoirWidth' /\ NotAhead'
  BY PrngAssumption DEF IInv, TypeOK, ReservoirWidth, NotAhead
<1>5. QED
  BY <1>2, <1>3, <1>4 DEF IInv

LEMMA StepInv == IInv /\ [PrngNext]_prngVars => IInv'
<1> SUFFICES ASSUME IInv, [PrngNext]_prngVars PROVE IInv'
  OBVIOUS
<1>1. CASE \E s \in Seeds : Seed(s)
  BY <1>1, SeedInv
<1>2. CASE \E bits \in Requests : RandomBits(bits) \/ RandomInt(bits)
  <2>1. PICK bits \in Requests, b \in BOOLEAN : BeginBits(bits, b)
    BY <1>2 DEF RandomBits, RandomInt
  <2>2. QED
    BY <2>1, RestartInv, PrngAssumption DEF BeginBits
<1>3. CASE Fill
  BY <1>3, FillInv
<1>4. CASE Split
  BY <1>4, SplitInv
<1>5. CASE Accept
  <2>1. Held' = Held
    BY <1>5 DEF Accept, Held
  <2>2. QED
    BY <1>5, <2>1 DEF Accept, IInv, TypeOK, NoReuse, NoLoss, InOrder,
                      ReservoirWidth, NotAhead, PositionsOf
<1>6. CASE Reject
  BY <1>6, RestartInv DEF Reject, IInv, TypeOK
<1>7. CASE RandomNum
  BY <1>7, RandomNumInv
<1>8. CASE UNCHANGED prngVars
  BY <1>8 DEF prngVars, IInv, TypeOK, NoReuse, NoLoss, InOrder,
              ReservoirWidth, NotAhead, PositionsOf, Held
<1>9. QED
  BY <1>1, <1>2, <1>3, <1>4, <1>5, <1>6, <1>7, <1>8 DEF PrngNext

THEOREM Reservoir == PrngSpec => []IInv
<1>1. QED
  BY InitInv, StepInv, PTL DEF PrngSpec

(* The state of the generator is well typed in every behaviour.            *)
THEOREM PrngTypes == PrngSpec => []TypeOK
<1>1. IInv => TypeOK
  BY DEF IInv
<1>2. QED
  BY <1>1, Reservoir, PTL

(* No bit of a seed's stream is ever handed out twice by random_bits,      *)
(* random_int and random_num.                                              *)
THEOREM EveryBitOnce == PrngSpec => []NoReuse
<1>1. IInv => NoReuse
  BY DEF IInv
<1>2. QED
  BY <1>1, Reservoir, PTL

(* None is skipped: what the DRBG has output was handed out or is held.    *)
THEOREM NoBitLost == PrngSpec => []NoLoss
<1>1. IInv => NoLoss
  BY DEF IInv
<1>2. QED
  BY <1>1, Reservoir, PTL

(* What random_bits keeps is narrower than a DRBG word and as wide as      *)
(* `total` says.                                                           *)
THEOREM ReservoirIsTail == PrngSpec => []ReservoirWidth
<1>1. IInv => ReservoirWidth
  BY DEF IInv
<1>2. QED
  BY <1>1, Reservoir, PTL

(* It is made of bits of the seed in force, in stream order.               *)
THEOREM HeldInOrder == PrngSpec => []InOrder
<1>1. IInv => InOrder
  BY DEF IInv
<1>2. QED
  BY <1>1, Reservoir, PTL

------------------------------------------------------------------------------
LEMMA AskedInv == PrngSpec => []Asked
<1>1. PrngInit => Asked
  BY DEF PrngInit, Asked
<1>2. Asked /\ [PrngNext]_prngVars => Asked'
  BY DEF Asked, PrngNext, prngVars, Seed, RandomBits, RandomInt, BeginBits, Fill, Joined, Short, Split,
         Accept, Reject, RandomNum
<1>3. QED
  BY <1>1, <1>2, PTL DEF PrngSpec

(* A step that ends random_bits hands out unused bits of the seed's        *)
(* stream, in order, as many as were asked for.                            *)
LEMMA SplitTakes == IInv /\ Asked /\ Split => Source!Take
<1> SUFFICES ASSUME IInv, Asked, Split PROVE Source!Take
  OBVIOUS
<1> DEFINE left == have - want
<1>1. /\ prngPc = "fill" /\ seed' = seed /\ out' = Prefix(ret, Len(ret) - left)
      /\ given' = given \cup PositionsOf(out') /\ Held = ret
  BY DEF Split, Short, Held, PositionsOf
<1>2. /\ ret \in Seq(Bit) /\ Ordered(ret) /\ OfSeed(ret)
      /\ PositionsOf(ret) \cap given = {}
  BY <1>1 DEF IInv, TypeOK, NoReuse, InOrder, Ordered, OfSeed
<1>3. /\ left \in 0..Len(ret) /\ Len(ret) - left = want /\ want \in Requests
  BY <1>1 DEF IInv, TypeOK, ReservoirWidth, Split, Short, Asked
<1> HIDE DEF left
<1>4. /\ Len(out') = want /\ Ordered(out') /\ OfSeed(out')
      /\ PositionsOf(out') \subseteq PositionsOf(ret)
  <2>1. LET p == Prefix(ret, Len(ret) - left) IN
          /\ Len(p) = Len(ret) - left /\ Ordered(p) /\ OfSeed(p)
          /\ PositionsOf(p) \subseteq PositionsOf(ret)
    <3>1. PositionsOf(Prefix(ret, Len(ret) - left)) \cup PositionsOf(Suffix(ret, left))
            = PositionsOf(ret)
      BY <1>2, <1>3, SplitFacts
    <3>2. QED
      BY <1>2, <1>3, <3>1, SplitFacts
  <2>2. QED
    BY <2>1, <1>1, <1>3
<1>5. PositionsOf(out') \cap given = {}
  BY <1>2, <1>4
<1>6. QED
  BY <1>1, <1>3, <1>4, <1>5
     DEF Source!Take, Source!PositionsOf, PositionsOf, Ordered, OfSeed

LEMMA RandomNumTakes == IInv /\ RandomNum => Source!Take
<1> SUFFICES ASSUME IInv, RandomNum PROVE Source!Take
  OBVIOUS
<1>1. /\ seed' = seed /\ out' = Generate(NumBits) /\ drawn \in Nat
      /\ given' = given \cup PositionsOf(out')
  BY DEF RandomNum, PositionsOf, IInv, TypeOK
<1>2. /\ Len(out') = NumBits /\ Ordered(out') /\ OfSeed(out')
      /\ PositionsOf(out') = (drawn + 1)..(drawn + NumBits) /\ NumBits \in Nat
  BY <1>1, GenerateFacts, PrngAssumption DEF IInv
<1>3. given \subseteq 1..drawn
  BY DEF IInv, NoLoss
<1>4. PositionsOf(out') \cap given = {}
  BY <1>1, <1>2, <1>3
<1>5. QED
  BY <1>1, <1>2, <1>4
     DEF Source!Take, Source!PositionsOf, PositionsOf, Ordered, OfSeed

(* The PRNG of goo.c implements the abstract source of bits: its answers   *)
(* are fresh bits of the seed in force, and a seeding forgets the past.    *)
THEOREM Refinement == PrngSpec => ImplementsBitSource
<1>1. PrngInit => Source!BitInit
  BY DEF PrngInit, Source!BitInit
<1>2. IInv /\ Asked /\ [PrngNext]_prngVars => [Source!BitNext]_(Source!bitVars)
  <2> SUFFICES ASSUME IInv, Asked, [PrngNext]_prngVars
               PROVE  Source!BitNext \/ UNCHANGED <<seed, given, out>>
    BY DEF Source!bitVars
  <2>1. CASE \E s \in Seeds : Seed(s)
    BY <2>1 DEF Seed, Source!BitNext, Source!Reseed
  <2>2. CASE Split
    BY <2>2, SplitTakes DEF Source!BitNext
  <2>3. CASE RandomNum
    BY <2>3, RandomNumTakes DEF Source!BitNext
  <2>4. CASE \/ \E bits \in Requests : RandomBits(bits) \/ RandomInt(bits)
             \/ Fill \/ Accept \/ Reject \/ UNCHANGED prngVars
    BY <2>4 DEF RandomBits, RandomInt, BeginBits, Fill, Joined, Short, Accept, Reject, prngVars
  <2>5. QED
    BY <2>1, <2>2, <2>3, <2>4 DEF PrngNext
<1>3. QED
  BY <1>1, <1>2, Reservoir, AskedInv, PTL
     DEF PrngSpec, ImplementsBitSource, Source!BitSpec
==============================================================================
