------------------------------ MODULE MCFillRow ------------------------------
(* A table of four fields over three Arrow columns of four rows whose chunks *)
(* differ; field 3 has no column, all but field 2 may be NULL.  Beside the   *)
(* search of a cell, and before it so that the state spaces add up, cells of *)
(* the types that are computed are converted.                                *)
EXTENDS FillRow, ParquetValues, TLC

Chunking == (0 :> 3) @@ (1 :> 2) @@ (2 :> 1)

Lengths ==
  (0 :> (0 :> 0 @@ 1 :> 3 @@ 2 :> 1)) @@
  (1 :> (0 :> 2 @@ 1 :> 2)) @@
  (2 :> (0 :> 4))

Sums ==
  [k \in Columns |->
     LET sum[ch \in 0 .. Chunking[k]] ==
           IF ch = 0 THEN 0 ELSE sum[ch - 1] + Lengths[k][ch - 1]
     IN sum]

NullCells == (0 :> {<<1, 1>>}) @@ (1 :> {}) @@ (2 :> {<<0, 2>>})

BadCells  == (0 :> {}) @@ (1 :> {<<1, 1>>}) @@ (2 :> {})

\* Days of four years on each side of: 0000-03-01 (the eras of the algorithm
\* and the sign change), 1600, 1970, 2000 (a leap century), 2100 (not one) and
\* 10000-01-01; and the ends of the range.
MCDays ==
  UNION {(d - 1461) .. (d + 1461) : d \in {-719468, -135081, 0, 11017, 47541, 2932897}}
    \cup {MinInt32, MaxInt32 - 719468}

\* Days an int32_t holds and, in the epochs before and after, days it does not.
MCMillis ==
  (-1 .. 1) \X {MinInt32, -719529, -719528, -366, -2, -1, 0, 1, 59, 2932896, MaxInt32 - 719469}
            \X {0, 1, 43200000, 86399999}

\* Seconds at the ends of days, years and 32 bits, with every kind of fraction.
MCStamps ==
  UNION {{<<unit, sec, ticks>> :
            sec \in {-2147483647, -86401, -86400, -1, 0, 1, 59, 3600, 86399, 86400,
                     68169599, 68169600, 951782400, 2147483647},
            ticks \in {0, unit - 1, unit \div 2, 1 % unit, 999 % unit, 1001 % unit}} :
         unit \in Units}

\* Every exponent and sign, with mantissas at the ends.
MCHalfs == {s * 32768 + e * 1024 + m : s \in 0 .. 1, e \in 0 .. 31, m \in {0, 1, 512, 1023}}

MCInit == Init /\ ValueInit

MCNext ==
  \/ cell = NoCell /\ Next /\ UNCHANGED valueVars
  \/ row = NULL /\ ValueNext /\ UNCHANGED vars

MCSpec == MCInit /\ [][MCNext]_<<vars, valueVars>>
=============================================================================
