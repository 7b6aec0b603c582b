---------------------------- MODULE MCParquetLock ----------------------------
(* Instances of ParquetLock for TLC: three sessions on two tables.  The    *)
(* first uses both, or one of them twice; the others use one.              *)
EXTENDS ParquetLock, TLC

CONSTANTS s1, s2, s3, a1, a2, a3, b1, c1, t1, t2

Owners == (a1 :> s1) @@ (a2 :> s1) @@ (a3 :> s1) @@ (b1 :> s2) @@ (c1 :> s3)

TablesOf == (a1 :> t1) @@ (a2 :> t2) @@ (a3 :> t1) @@ (b1 :> t1) @@ (c1 :> t1)

Addresses == (t1 :> 1) @@ (t2 :> 2)

\* a3 only reads, as in INSERT ... SELECT from the same table.
Bounded == type[a3] <= TL_READ /\ (type[a3] # TL_UNLOCK => type[a2] = TL_UNLOCK)

MCNext == Next /\ Bounded'

MCSpec == Init /\ [][MCNext]_vars
=============================================================================
