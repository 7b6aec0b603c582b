---------------------------- MODULE TableSnapshot ----------------------------
(***************************************************************************)
(* What a read-only table over a file promises its readers.  A reader      *)
(* loads, in one step, one of the versions that can be read at that time   *)
(* (more than one when the table can be opened on several files); from     *)
(* then on every row it is given is a row of that version, handed out in   *)
(* order by NextRow and by row number by Fetch, until it drops it.         *)
(***************************************************************************)
EXTENDS Naturals

CONSTANTS Readers, Contents, Rows, NULL

VARIABLES
  available,    \* versions a reader can load now
  snap,         \* version each reader has loaded, or NULL
  cursor,       \* row number Next hands out next
  row           \* <<version, row number>> handed out last, or NULL

vars == <<available, snap, cursor, row>>

Init ==
  /\ available \in SUBSET Contents
  /\ snap = [r \in Readers |-> NULL]
  /\ cursor = [r \in Readers |-> 0]
  /\ row = [r \in Readers |-> NULL]

Replace ==
  /\ available' \in SUBSET Contents
  /\ UNCHANGED <<snap, cursor, row>>

Load(r) ==
  /\ snap[r] = NULL
  /\ \E v \in available : snap' = [snap EXCEPT ![r] = v]
  /\ UNCHANGED <<available, cursor, row>>

Drop(r) ==
  /\ snap' = [snap EXCEPT ![r] = NULL]
  /\ cursor' = [cursor EXCEPT ![r] = 0]
  /\ UNCHANGED <<available, row>>

Rewind(r) ==
  /\ cursor' = [cursor EXCEPT ![r] = 0]
  /\ UNCHANGED <<available, snap, row>>

NextRow(r) ==
  /\ snap[r] # NULL
  /\ cursor[r] < Rows[snap[r]]
  /\ row' = [row EXCEPT ![r] = <<snap[r], cursor[r]>>]
  /\ cursor' = [cursor EXCEPT ![r] = @ + 1]
  /\ UNCHANGED <<available, snap>>

Fetch(r) ==
  /\ snap[r] # NULL
  /\ \E i \in 0 .. (Rows[snap[r]] - 1) : row' = [row EXCEPT ![r] = <<snap[r], i>>]
  /\ UNCHANGED <<available, snap, cursor>>

Forget(r) ==
  /\ row' = [row EXCEPT ![r] = NULL]
  /\ UNCHANGED <<available, snap, cursor>>

\* The server stops: every reader is gone.
DropAll ==
  /\ snap' = [r \in Readers |-> NULL]
  /\ cursor' = [r \in Readers |-> 0]
  /\ row' = [r \in Readers |-> NULL]
  /\ UNCHANGED available

Next ==
  \/ Replace
  \/ DropAll
  \/ \E r \in Readers :
       Load(r) \/ Drop(r) \/ Rewind(r) \/ NextRow(r) \/ Fetch(r) \/ Forget(r)

Spec == Init /\ [][Next]_vars
=============================================================================
