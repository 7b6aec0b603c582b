------------------------------ MODULE MCMedian ------------------------------
(* The UDFs of the repository and its logger.  Median with groups of up to   *)
(* five rows, so that both parities occur with equal and with different      *)
(* numbers in the middle; the hello_world functions over an empty name, one  *)
(* with a NUL byte, and the longest that fits the result buffer and one      *)
(* more; the logger with two thread ids, so that a thread of an earlier life *)
(* could be told from the present one.  They share nothing: each starts from *)
(* the others' initial states, so that the state spaces add up.              *)
EXTENDS Median, HelloUdf, OsLogger

\* Groups of a column that Linux reads as text have two rows.
Bounded == readAs \in {"DECIMAL", "STRING"} => rows <= 2

MCNames ==
  {[length |-> n, upto |-> n] : n \in {0, 5, 240, 241}} \cup {[length |-> 5, upto |-> 2]}

mcVars == <<vars, helloVars, loggerVars>>

MCInit == Init /\ HelloInit /\ udf[1] = platform /\ LoggerInit

MCNext ==
  \/ /\ stage = "idle" /\ ~ udf[2] /\ LoggerInit
     /\ Next /\ Bounded'
     /\ UNCHANGED <<helloVars, loggerVars>>
  \/ /\ phase = "idle" /\ LoggerInit
     /\ HelloNext
     /\ UNCHANGED <<vars, loggerVars>>
  \/ /\ Init /\ HelloInit
     /\ LoggerNext
     /\ UNCHANGED <<vars, helloVars>>

\* Outside the logger's first life Fairness asks for nothing: no thread runs.
MCSpec == MCInit /\ [][MCNext]_mcVars /\ Fairness
=============================================================================
