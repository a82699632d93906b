--------------------------- MODULE MCGooNextPrime ----------------------------
(***************************************************************************)
(* Searches from 0..40 with limits that fall short of the next prime, hit  *)
(* it, and pass it; 0 is no limit.  113 and 127 enclose a gap of 14, wider *)
(* than every limit.                                                       *)
(***************************************************************************)
EXTENDS GooNextPrime

MCPrimes == {x \in 2..131 : \A d \in 2..11 : d < x => x % d # 0}
MCStarts == 0..30 \cup 110..124
MCMaxes == {0, 1, 2, 3, 4, 6, 7}
==============================================================================
