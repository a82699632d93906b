------------------------------- MODULE MCGooSig ------------------------------
(***************************************************************************)
(* Bytes of three values, so that a sign byte can be wrong.  Any two fields*)
(* of one width differ in Plain or in Half; in the others one field is     *)
(* zero, the largest that fits, or one more.                               *)
(***************************************************************************)
EXTENDS GooSig

Plain ==
  [x \in Fields |->
     CASE x = "C2" -> 1 [] x = "C3" -> 2 [] x = "t" -> 3 [] x = "chal" -> 2
       [] x = "ell" -> 4 [] x = "Aq" -> 5 [] x = "Bq" -> 6 [] x = "Cq" -> 7
       [] x = "Dq" -> 8 [] x = "Eq" -> 5 [] x = "z_w" -> 1 [] x = "z_w2" -> 2
       [] x = "z_s1" -> 3 [] x = "z_a" -> 4 [] x = "z_an" -> 5
       [] x = "z_s1w" -> 6 [] x = "z_sa" -> 7 [] x = "z_s2" -> 8]

Half == [x \in Fields |-> IF x \in {"C2", "C3", "t", "ell", "Aq", "Bq", "Cq", "Dq"}
                           THEN 0 ELSE Plain[x]]

MCSigs ==
  {Plain, Half} \cup {[Plain EXCEPT !["Eq"] = v] : v \in {-9, -8, -1, 0, 8}}
          \cup {[Plain EXCEPT ![x] = v] : x \in {"C2", "t", "z_s2"}, v \in {0, 9}}
          \cup {[Plain EXCEPT !["chal"] = 3]}
==============================================================================
