--------------------------- MODULE MCParquetEngine ---------------------------
(* Instances of ParquetEngine for TLC: two tables, one COMMENT path with a  *)
(* newline in it.                                                           *)
EXTENDS ParquetEngine, TLC

CONSTANTS t1, t2, h1, h2, p1, t1_parquet, t2_parquet, line1_of_p1, v1, v2

DefaultPaths == (t1 :> t1_parquet) @@ (t2 :> t2_parquet)

ReadLine == [p \in Paths |-> IF p = p1 THEN line1_of_p1 ELSE p]

RowCounts == (v1 :> 1) @@ (v2 :> 2)

\* What may be where: the file of the COMMENT is replaced at any time, that of
\* t1's own name stays, and at the other paths there is none.
Written == (line1_of_p1 :> {<<line1_of_p1, v1>>, <<line1_of_p1, v2>>})
        @@ (t1_parquet :> {<<t1_parquet, v1>>})
        @@ [p \in Openable |-> {NULL}]

\* Only h1 reads rows and opens both tables; h2 opens and closes t1.
Bounded ==
  /\ \A p \in Openable : content[p] \in Written[p]
  /\ IsOpen(h2) => handler[h2].name = t1
  /\ row[h2] = NULL /\ records[h2] = 0 /\ current_row[h2] = 0

MCNext == EngineNext /\ Bounded'

MCInit == EngineInit /\ Bounded

MCSpec == MCInit /\ [][MCNext]_engineVars
=============================================================================
