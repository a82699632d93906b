----------------------------- MODULE MCGooWidths -----------------------------
(***************************************************************************)
(* The limits 1024 and 4096 and their neighbours, the contexts of the lib  *)
(* and the tests, and where the support of a context begins.               *)
(***************************************************************************)
EXTENDS GooWidths

MCContextBits == {0, 1023, 1024, 1500, 1904, 1905, 2048, 4096, 4097}
MCGroupBits == {1, 2, 100, 136, 1024, 1905, 1906, 2048, 2049, 2050, 4096}
MCKeyBits == {1024, 1025, 1500, 1904, 1905, 1906, 2047, 2048, 3072, 4096}
MCRoundings == {0, 16}
==============================================================================
