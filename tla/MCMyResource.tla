---------------------------- MODULE MCMyResource ----------------------------
(* MyResource with the interval at its least value, where the pause is as   *)
(* long as it, and at a greater one, where the CPU sample is part of it.    *)
EXTENDS MyResource

\* Two steps of Questions and one of the disk, which the code treats alike
\* except that its connection cannot be refused.
Bounds == [c \in Counters |-> IF c = "questions" THEN 2 ELSE 1]
=============================================================================
