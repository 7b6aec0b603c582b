-------------------------------- MODULE Median --------------------------------
(***************************************************************************)
(* The aggregate UDF my_median, in its two versions: median.cpp (Linux,    *)
(* MariaDB) and my_median.cpp (Mac, MySQL 8).  The server calls init once, *)
(* then clear, a call per row and the main function for each group, then   *)
(* deinit.                                                                 *)
(*                                                                         *)
(* External: the server's order of calls, the rows, and the conversion of  *)
(* the argument to the type init leaves in arg_type.  The server sets      *)
(* is_null to 0 before it calls the main function.  std::sort is external  *)
(* too, and does what its library says: the same numbers, in order.        *)
(***************************************************************************)
EXTENDS Integers, Sequences, FiniteSets, Functions

CONSTANTS
  Values,       \* numbers in the column
  NULL,         \* SQL NULL
  MaxRows,      \* bound on the rows of a group
  MaxArgs       \* bound on the arguments a statement gives

ASSUME ValuesAssumption == Values \subseteq Nat /\ NULL \notin Nat
ASSUME BoundsAssumption == MaxRows \in Nat /\ MaxArgs \in Nat

VARIABLES
  platform,     \* which version is installed
  phase,        \* where the server is in the calls of one statement
  argType,      \* the type of the column
  readAs,       \* args->arg_type[0] after init: what the server passes
  maybeNull,    \* initid->maybe_null
  live,         \* what is allocated on the heap
  values,       \* the vector
  result,       \* twice the number returned, or NULL
  rows,         \* rows of the group so far
  group         \* history: the numbers of the group's rows

vars == <<platform, phase, argType, readAs, maybeNull, live, values, result, rows, group>>

Platforms == {"linux", "mac"}
Types     == {"REAL", "INT", "DECIMAL", "STRING"}
Phases    == {"idle", "ctx", "ready", "cleared", "rows", "done"}

TypeOK ==
  /\ platform \in Platforms
  /\ phase \in Phases
  /\ argType \in Types
  /\ readAs \in Types
  /\ maybeNull \in BOOLEAN
  /\ live \subseteq {"ctx", "values"}
  /\ values \in Seq(Nat)
  /\ result \in Nat \cup {NULL}
  /\ rows \in 0 .. MaxRows
  /\ group \in Seq(Values)

Init ==
  /\ platform \in Platforms
  /\ phase = "idle"
  /\ argType = "REAL"
  /\ readAs = "REAL"
  /\ maybeNull = FALSE
  /\ live = {}
  /\ values = << >>
  /\ result = NULL
  /\ rows = 0
  /\ group = << >>

(***************************************************************************)
(* my_median_init.  Linux counts the arguments; Mac also looks at the type *)
(* and asks for a double.  The server proposes the column's own type and   *)
(* nullability.  Linux allocates the vector; Mac allocates a context, then *)
(* the vector in it, and looks whether either new gave null.               *)
(***************************************************************************)
Accepts(n, t) == n = 1 /\ (platform = "mac" => t \in {"REAL", "INT", "DECIMAL"})

InitRejects ==
  /\ phase = "idle"
  /\ \E n \in 0 .. MaxArgs, t \in Types : ~ Accepts(n, t)
  /\ UNCHANGED vars

\* Up to the first new, if that does not fail.
InitCall ==
  /\ phase = "idle"
  /\ \E t \in Types :
       /\ Accepts(1, t)
       /\ argType' = t
       /\ readAs' = IF platform = "mac" THEN "REAL" ELSE t
  /\ maybeNull' \in BOOLEAN
  /\ \/ platform = "linux" /\ phase' = "ready" /\ live' = {"values"}
     \/ platform = "mac"   /\ phase' = "ctx"   /\ live' = {"ctx"}
  /\ values' = << >>
  /\ UNCHANGED <<platform, result, rows, group>>

\* The statement is over; the server drops what init wrote to args.
NewContextFails ==
  /\ phase = "idle"
  /\ platform = "mac"
  /\ UNCHANGED vars

NewVector ==
  /\ phase = "ctx"
  /\ phase' = "ready"
  /\ live' = live \cup {"values"}
  /\ maybeNull' = TRUE
  /\ UNCHANGED <<platform, argType, readAs, values, result, rows, group>>

\* Mutant: the context is not deleted when there is no memory for its vector.
NewVectorFailsLeaks ==
  /\ phase = "ctx"
  /\ phase' = "idle"
  /\ UNCHANGED <<platform, argType, readAs, maybeNull, live, values, result, rows, group>>

\* The server does not call deinit after an init that failed.
NewVectorFails ==
  /\ phase = "ctx"
  /\ phase' = "idle"
  /\ live' = live \ {"ctx"}
  /\ UNCHANGED <<platform, argType, readAs, maybeNull, values, result, rows, group>>

(***************************************************************************)
(* The calls of a group.                                                   *)
(***************************************************************************)
\* Mutant: the vector keeps what the group before left in it.
ClearNothing ==
  /\ phase \in {"ready", "done"}
  /\ phase' = "cleared"
  /\ rows' = 0
  /\ group' = << >>
  /\ UNCHANGED <<platform, argType, readAs, maybeNull, live, values, result>>

Clear ==
  /\ phase \in {"ready", "done"}
  /\ phase' = "cleared"
  /\ values' = << >>
  /\ rows' = 0
  /\ group' = << >>
  /\ UNCHANGED <<platform, argType, readAs, maybeNull, live, result>>

\* What *(double *)args[0] reads: a REAL is the number.  The bits of a small
\* longlong are a double next to 0.  DECIMAL and STRING are passed as text,
\* whose bytes may be any double.
ReadDouble(v) ==
  CASE readAs = "REAL" -> {v}
    [] readAs = "INT"  -> {0}
    [] OTHER           -> Values \cup {0}

\* Mutant: args[0] is not compared with NULL.
NullRowPushed(before) == values' = Append(before, NULL) /\ UNCHANGED group

NullRow(before) == values' = before /\ UNCHANGED group

\* A row reaches the vector unless its value is NULL.
Push(before) ==
  /\ rows < MaxRows
  /\ rows' = rows + 1
  /\ phase' = "rows"
  /\ \/ NullRow(before)
     \/ \E v \in Values :
          /\ \E d \in ReadDouble(v) : values' = Append(before, d)
          /\ group' = Append(group, v)
  /\ UNCHANGED <<platform, argType, readAs, maybeNull, live, result>>

\* my_median_reset: the first row of a group, on servers that call it.
Reset ==
  /\ phase = "cleared"
  /\ platform = "mac"
  /\ Push(<< >>)

Add ==
  /\ phase \in {"cleared", "rows"}
  /\ Push(values)

\* Indexes of the vector count from 0, of the sequence from 1.
Middle(v) ==
  LET n == Len(v)
  IN  IF n % 2 = 0 THEN v[n \div 2 - 1 + 1] + v[n \div 2 + 1]
                   ELSE 2 * v[n \div 2 + 1]

\* w is v in another order.
Reorders(v, w) ==
  \E p \in Bijection(DOMAIN v, DOMAIN v) : w = [i \in DOMAIN v |-> v[p[i]]]

IsSorted(w) == \A i, j \in DOMAIN w : i <= j => w[i] <= w[j]

\* What std::sort may leave in the vector v.
Sortings(v) ==
  {w \in {[i \in DOMAIN v |-> v[p[i]]] : p \in Bijection(DOMAIN v, DOMAIN v)} : IsSorted(w)}

\* my_median; it may be called again, as by HAVING.
Result ==
  /\ phase \in {"cleared", "rows", "done"}
  /\ phase' = "done"
  /\ values' \in Sortings(values)
  /\ result' = IF values = << >> THEN NULL ELSE Middle(values')
  /\ UNCHANGED <<platform, argType, readAs, maybeNull, live, rows, group>>

\* my_median_deinit, after the last group or an error anywhere before.
Deinit ==
  /\ phase \notin {"idle", "ctx"}
  /\ phase' = "idle"
  /\ live' = {}
  /\ values' = << >>
  /\ rows' = 0
  /\ group' = << >>
  /\ result' = NULL
  /\ UNCHANGED <<platform, argType, readAs, maybeNull>>

Next ==
  \/ InitRejects \/ InitCall \/ NewContextFails \/ NewVector \/ NewVectorFails
  \/ Clear \/ Reset \/ Add \/ Result \/ Deinit

Spec == Init /\ [][Next]_vars

(***************************************************************************)
(* Properties.                                                             *)
(***************************************************************************)

\* How many numbers of g are below v, and how many are not above it.
Below(g, v) == Cardinality({i \in DOMAIN g : g[i] < v})
UpTo(g, v)  == Cardinality({i \in DOMAIN g : g[i] <= v})

\* The k-th smallest number: fewer than k are smaller, k are not greater.
IsKthSmallest(g, k, v) == Below(g, v) < k /\ k <= UpTo(g, v)

KthSmallest(g, k) == CHOOSE v \in Range(g) : IsKthSmallest(g, k, v)

\* The mean of the two numbers in the middle, that are one if n is odd; twice.
TwiceMedian(g) ==
  KthSmallest(g, (Len(g) + 1) \div 2) + KthSmallest(g, Len(g) \div 2 + 1)

IsMedian == result = IF group = << >> THEN NULL ELSE TwiceMedian(group)

\* The result of a group is the median of its own numbers, in whatever order
\* they came, NULLs left out, and NULL if it has none.  On Linux this takes a
\* column of type DOUBLE: see LinuxMedian.
MedianOfGroup ==
  phase = "done" /\ (platform = "mac" \/ argType = "REAL") => IsMedian

\* Linux/README.md:3: my_median(column) computes the median.  So it does of a
\* column of type INT.
LinuxMedian ==
  platform = "linux" /\ argType = "INT" /\ phase = "done" => IsMedian

\* Nothing is allocated between statements, and the vector is there whenever a
\* function that uses it may be called.
HeapBalanced == (phase = "idle") <=> (live = {})

(***************************************************************************)
(* The inductive invariant: what the vector has to do with the group, and  *)
(* what each phase says of the memory and of the type the server passes.   *)
(***************************************************************************)

\* The server passes doubles.
ReadsNumbers == platform = "mac" \/ argType = "REAL"

\* In a statement, the vector is the numbers of the group, in some order.
VectorIsGroup ==
  /\ phase = "cleared" => group = << >>
  /\ phase \in {"cleared", "rows", "done"} /\ ReadsNumbers => Reorders(group, values)

PhaseInv ==
  /\ phase = "idle" => live = {}
  /\ phase = "ctx" => live = {"ctx"}
  /\ phase # "idle" =>
       /\ live # {}
       /\ ReadsNumbers => readAs = "REAL"

IInv == TypeOK /\ PhaseInv /\ VectorIsGroup /\ MedianOfGroup
=============================================================================
