--------------------------- MODULE MCParquetSidecar ---------------------------
(* Instances of ParquetSidecar for TLC: two table names; two COMMENT paths, *)
(* the second of which has a newline in it.                                 *)
EXTENDS ParquetSidecar, TLC

CONSTANTS t1, t2, h1, h2, p1, p2, t1_parquet, t2_parquet, line1_of_p2

DefaultPaths == (t1 :> t1_parquet) @@ (t2 :> t2_parquet)

ReadLine == [p \in Paths |-> IF p = p2 THEN line1_of_p2 ELSE p]
=============================================================================
