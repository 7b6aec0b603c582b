----------------------------- MODULE MCHaParquet -----------------------------
(* Instances of HaParquet for TLC: three versions of the file, of two rows,  *)
(* of one row and of none.                                                   *)
EXTENDS HaParquet, TLC

CONSTANTS h1, h2, v1, v2, v3, a1, a2

FileRows == (v1 :> 2) @@ (v2 :> 1) @@ (v3 :> 0)
=============================================================================
