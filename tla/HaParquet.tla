------------------------------ MODULE HaParquet ------------------------------
(***************************************************************************)
(* The handlers of one READ_PARQUET table (ha_parquet.cc): open with its   *)
(* shared Parquet_share, the snapshot of the parquet file that open reads, *)
(* and the scan and positioned-read calls the server makes on an open      *)
(* handler.  Each handler is used by one thread at a time; open of several *)
(* handlers, scans, and a writer that replaces the file all interleave.    *)
(*                                                                         *)
(* External parts, modelled from how the engine relies on them: the        *)
(* server's table cache (Close of an idle handler), its TABLE_SHARE (the   *)
(* pointer get_share reads and LOCK_ha_data), the statement around a scan, *)
(* and the file, which a writer replaces as a whole (a new inode), so that *)
(* an open file keeps the contents it had when it was opened.              *)
(***************************************************************************)
EXTENDS Naturals, Sequences, FiniteSets

CONSTANTS
  Handlers,     \* ha_parquet objects that may be open at the same time
  Contents,     \* versions of the parquet file
  Rows,         \* Rows[c]: the number of rows of version c
  ShareAddrs,   \* addresses a Parquet_share can be allocated at
  NULL,         \* the null pointer / nothing read yet
  Absent,       \* there is no file at the path
  Corrupt,      \* the file is there and is not parquet
  MaxSaved      \* bound: positions a statement saves

ASSUME RowsAssumption     == Rows \in [Contents -> Nat]
ASSUME SentinelAssumption ==
  /\ NULL \notin ShareAddrs \cup Contents \cup Handlers \cup Nat \cup (Contents \X Nat)
  /\ {Absent, Corrupt} \cap Contents = {}
  /\ NULL \notin {Absent, Corrupt}
ASSUME BoundAssumption    == MaxSaved \in Nat

VARIABLES
  file,         \* what the parquet path holds now
  haShare,      \* TABLE_SHARE::ha_share, what get_ha_share_ptr returns
  allocated,    \* Parquet_share objects that exist
  mutex,        \* holder of lock_shared_ha_data
  pc,           \* where each handler is in its life
  tmpShare,     \* local variable of get_share
  share,        \* member share
  fd,           \* version pinned by the open ReadableFile
  table,        \* member arrow_table
  totalRows,    \* member total_rows
  currentRow,   \* member current_row
  ref,          \* handler::ref, the row index my_store_ptr wrote
  buf,          \* the server's record buffer: <<version, row>> filled last
  readBy,       \* the call that filled buf: "next" (rnd_next) or "pos" (rnd_pos)
  got,          \* history: rows rnd_next returned since rnd_init
  eof,          \* rnd_next returned HA_ERR_END_OF_FILE since rnd_init
  saved         \* server: positions it saved, with the row each was taken at

shareVars == <<haShare, allocated, mutex, tmpShare, share>>
openVars  == <<fd, table, totalRows>>
scanVars  == <<currentRow, ref, buf, readBy, got, eof, saved>>
vars      == <<file, shareVars, pc, openVars, scanVars>>

(***************************************************************************)
(* Program locations.                                                      *)
(***************************************************************************)
InGetShare == {"check", "alloc", "unlock"}       \* lock_shared_ha_data is held
Opening    == {"get_share"} \cup InGetShare \cup {"open_file", "parse", "read_table"}
Opened     == {"idle", "stmt", "scan"}           \* open() returned 0

Locations  == {"closed"} \cup Opening \cup Opened
File       == Contents \cup {Absent, Corrupt}
Position_  == [ref : Nat \cup {NULL}, row : Nat, by : {"next", "pos"}]

TypeOK ==
  /\ file \in File
  /\ haShare \in ShareAddrs \cup {NULL}
  /\ allocated \in SUBSET ShareAddrs
  /\ mutex \in Handlers \cup {NULL}
  /\ pc \in [Handlers -> Locations]
  /\ tmpShare \in [Handlers -> ShareAddrs \cup {NULL}]
  /\ share \in [Handlers -> ShareAddrs \cup {NULL}]
  /\ fd \in [Handlers -> File \cup {NULL}]
  /\ table \in [Handlers -> Contents \cup {NULL}]
  /\ totalRows \in [Handlers -> Nat]
  /\ currentRow \in [Handlers -> Nat]
  /\ ref \in [Handlers -> Nat \cup {NULL}]
  /\ buf \in [Handlers -> (Contents \X Nat) \cup {NULL}]
  /\ readBy \in [Handlers -> {"next", "pos"}]
  /\ got \in [Handlers -> Seq(Nat)]
  /\ eof \in [Handlers -> BOOLEAN]
  /\ saved \in [Handlers -> SUBSET Position_]

Init ==
  /\ file \in File
  /\ haShare = NULL
  /\ allocated = {}
  /\ mutex = NULL
  /\ pc = [h \in Handlers |-> "closed"]
  /\ tmpShare = [h \in Handlers |-> NULL]
  /\ share = [h \in Handlers |-> NULL]
  /\ fd = [h \in Handlers |-> NULL]
  /\ table = [h \in Handlers |-> NULL]
  /\ totalRows = [h \in Handlers |-> 0]
  /\ currentRow = [h \in Handlers |-> 0]
  /\ ref = [h \in Handlers |-> NULL]
  /\ buf = [h \in Handlers |-> NULL]
  /\ readBy = [h \in Handlers |-> "next"]
  /\ got = [h \in Handlers |-> <<>>]
  /\ eof = [h \in Handlers |-> FALSE]
  /\ saved = [h \in Handlers |-> {}]

GoTo(h, from, to) ==
  /\ pc[h] = from
  /\ pc' = [pc EXCEPT ![h] = to]

(***************************************************************************)
(* get_share(): the pointer in TABLE_SHARE is read and, when it is null,   *)
(* set, under lock_shared_ha_data.                                         *)
(***************************************************************************)

\* open() is called on a fresh handler object and enters get_share.
OpenCall(h) ==
  /\ GoTo(h, "closed", "get_share")
  /\ UNCHANGED <<file, shareVars, openVars, scanVars>>

\* Mutant: the lock around the test of the pointer is forgotten.
LockShareDataNot(h) ==
  /\ GoTo(h, "get_share", "check")
  /\ mutex' = h
  /\ UNCHANGED <<file, haShare, allocated, tmpShare, share, openVars, scanVars>>

LockShareData(h) ==
  /\ GoTo(h, "get_share", "check")
  /\ mutex = NULL
  /\ mutex' = h
  /\ UNCHANGED <<file, haShare, allocated, tmpShare, share, openVars, scanVars>>

CheckShare(h) ==
  /\ GoTo(h, "check", IF haShare = NULL THEN "alloc" ELSE "unlock")
  /\ tmpShare' = [tmpShare EXCEPT ![h] = haShare]
  /\ UNCHANGED <<file, haShare, allocated, mutex, share, openVars, scanVars>>

AllocShare(h) ==
  /\ GoTo(h, "alloc", "unlock")
  /\ \E a \in ShareAddrs \ allocated :
       /\ allocated' = allocated \cup {a}
       /\ tmpShare' = [tmpShare EXCEPT ![h] = a]
       /\ haShare' = a
  /\ UNCHANGED <<file, mutex, share, openVars, scanVars>>

\* The "goto err" of get_share: no share, and the mutex is still released.
AllocShareFails(h) ==
  /\ GoTo(h, "alloc", "unlock")
  /\ UNCHANGED <<file, shareVars, openVars, scanVars>>

\* Mutant: a null share returns without the unlock.
UnlockShareDataIfShare(h) ==
  /\ GoTo(h, "unlock", IF tmpShare[h] = NULL THEN "closed" ELSE "open_file")
  /\ mutex' = IF tmpShare[h] = NULL THEN mutex ELSE NULL
  /\ share' = [share EXCEPT ![h] = tmpShare[h]]
  /\ tmpShare' = [tmpShare EXCEPT ![h] = NULL]
  /\ UNCHANGED <<file, haShare, allocated, openVars, scanVars>>

\* Unlock and return to open(), which fails with HA_ERR_OUT_OF_MEM on null.
UnlockShareData(h) ==
  /\ GoTo(h, "unlock", IF tmpShare[h] = NULL THEN "closed" ELSE "open_file")
  /\ mutex' = NULL
  /\ share' = [share EXCEPT ![h] = tmpShare[h]]
  /\ tmpShare' = [tmpShare EXCEPT ![h] = NULL]
  /\ UNCHANGED <<file, haShare, allocated, openVars, scanVars>>

(***************************************************************************)
(* The rest of open(): open the file, parse its footer, read it whole.     *)
(* On an error the server deletes the handler object; the Parquet_share    *)
(* stays with the TABLE_SHARE.                                             *)
(***************************************************************************)
FailOpen(h, at) ==
  /\ GoTo(h, at, "closed")
  /\ share' = [share EXCEPT ![h] = NULL]
  /\ fd' = [fd EXCEPT ![h] = NULL]
  /\ UNCHANGED <<file, haShare, allocated, mutex, tmpShare, table, totalRows, scanVars>>

OpenFile(h) ==
  /\ GoTo(h, "open_file", "parse")
  /\ file # Absent
  /\ fd' = [fd EXCEPT ![h] = file]
  /\ UNCHANGED <<file, shareVars, table, totalRows, scanVars>>

\* HA_ERR_NO_SUCH_TABLE
OpenFileFails(h) == file = Absent /\ FailOpen(h, "open_file")

ParseFile(h) ==
  /\ GoTo(h, "parse", "read_table")
  /\ fd[h] # Corrupt
  /\ UNCHANGED <<file, shareVars, openVars, scanVars>>

\* HA_ERR_CRASHED_ON_USAGE
ParseFileFails(h) == fd[h] = Corrupt /\ FailOpen(h, "parse")

ReadTable(h) ==
  /\ GoTo(h, "read_table", "idle")
  /\ table' = [table EXCEPT ![h] = fd[h]]
  /\ totalRows' = [totalRows EXCEPT ![h] = Rows[fd[h]]]
  /\ currentRow' = [currentRow EXCEPT ![h] = 0]
  /\ fd' = [fd EXCEPT ![h] = NULL]
  /\ UNCHANGED <<file, shareVars, ref, buf, readBy, got, eof, saved>>

\* ReadTable() returns an error status: a bad page, an I/O error, no memory.
ReadTableFails(h) == FailOpen(h, "read_table")

\* close() of a handler no statement uses; the server then deletes it.
Close(h) ==
  /\ GoTo(h, "idle", "closed")
  /\ table' = [table EXCEPT ![h] = NULL]
  /\ totalRows' = [totalRows EXCEPT ![h] = 0]
  /\ currentRow' = [currentRow EXCEPT ![h] = 0]
  /\ share' = [share EXCEPT ![h] = NULL]
  /\ ref' = [ref EXCEPT ![h] = NULL]
  /\ got' = [got EXCEPT ![h] = <<>>]
  /\ eof' = [eof EXCEPT ![h] = FALSE]
  /\ UNCHANGED <<file, haShare, allocated, mutex, tmpShare, fd, buf, readBy, saved>>

(***************************************************************************)
(* One statement on an open handler.                                       *)
(***************************************************************************)
StmtBegin(h) ==
  /\ GoTo(h, "idle", "stmt")
  /\ UNCHANGED <<file, shareVars, openVars, scanVars>>

StmtEnd(h) ==
  /\ GoTo(h, "stmt", "idle")
  /\ saved' = [saved EXCEPT ![h] = {}]
  /\ buf' = [buf EXCEPT ![h] = NULL]
  /\ readBy' = [readBy EXCEPT ![h] = "next"]
  /\ UNCHANGED <<file, shareVars, openVars, currentRow, ref, got, eof>>

\* Mutant: the cursor is put before the first row.
RndInitBeforeFirst(h) ==
  /\ GoTo(h, "stmt", "scan")
  /\ currentRow' = [currentRow EXCEPT ![h] = 0 - 1]
  /\ got' = [got EXCEPT ![h] = <<>>]
  /\ eof' = [eof EXCEPT ![h] = FALSE]
  /\ UNCHANGED <<file, shareVars, openVars, ref, buf, readBy, saved>>

\* rnd_init: the same for a scan and before positioned reads.
RndInit(h) ==
  /\ GoTo(h, "stmt", "scan")
  /\ currentRow' = [currentRow EXCEPT ![h] = 0]
  /\ got' = [got EXCEPT ![h] = <<>>]
  /\ eof' = [eof EXCEPT ![h] = FALSE]
  /\ UNCHANGED <<file, shareVars, openVars, ref, buf, readBy, saved>>

\* Mutant: rows are read from the path at the time of the call.
FillRowFromPath(h, i, by) ==
  /\ buf' = [buf EXCEPT ![h] = <<file, i>>]
  /\ readBy' = [readBy EXCEPT ![h] = by]

\* fill_row as the caller sees it: buf holds row i of the handler's table.
FillRow(h, i, by) ==
  /\ buf' = [buf EXCEPT ![h] = <<table[h], i>>]
  /\ readBy' = [readBy EXCEPT ![h] = by]

\* Mutant: the position is stored after the cursor has moved.
RndNextLateRef(h) ==
  /\ pc[h] = "scan"
  /\ currentRow[h] < totalRows[h]
  /\ FillRow(h, currentRow[h], "next")
  /\ ref' = [ref EXCEPT ![h] = currentRow[h] + 1]
  /\ currentRow' = [currentRow EXCEPT ![h] = @ + 1]
  /\ got' = [got EXCEPT ![h] = Append(@, currentRow[h])]
  /\ UNCHANGED <<file, shareVars, pc, openVars, eof, saved>>

RndNext(h) ==
  /\ pc[h] = "scan"
  /\ currentRow[h] < totalRows[h]
  /\ FillRow(h, currentRow[h], "next")
  /\ ref' = [ref EXCEPT ![h] = currentRow[h]]
  /\ currentRow' = [currentRow EXCEPT ![h] = @ + 1]
  /\ got' = [got EXCEPT ![h] = Append(@, currentRow[h])]
  /\ UNCHANGED <<file, shareVars, pc, openVars, eof, saved>>

RndNextEof(h) ==
  /\ pc[h] = "scan"
  /\ currentRow[h] >= totalRows[h]
  /\ eof' = [eof EXCEPT ![h] = TRUE]
  /\ UNCHANGED <<file, shareVars, pc, openVars, currentRow, ref, buf, readBy, got, saved>>

\* position() does nothing; the server copies ref as it stands.
Position(h) ==
  /\ pc[h] = "scan"
  /\ buf[h] # NULL
  /\ Cardinality(saved[h]) < MaxSaved
  /\ saved' = [saved EXCEPT ![h] = @ \cup {[ref |-> ref[h], row |-> buf[h][2], by |-> readBy[h]]}]
  /\ UNCHANGED <<file, shareVars, pc, openVars, currentRow, ref, buf, readBy, got, eof>>

\* Mutant: a positioned read moves the cursor of the scan.
RndPosMovesCursor(h) ==
  /\ pc[h] = "scan"
  /\ \E p \in saved[h] :
       /\ p.ref \in 0 .. (totalRows[h] - 1)
       /\ FillRow(h, p.ref, "pos")
       /\ currentRow' = [currentRow EXCEPT ![h] = p.ref + 1]
  /\ UNCHANGED <<file, shareVars, pc, openVars, ref, got, eof, saved>>

\* rnd_pos on a saved position: past the end it returns HA_ERR_END_OF_FILE
\* and leaves the buffer alone.
RndPos(h) ==
  /\ pc[h] = "scan"
  /\ \E p \in saved[h] :
       IF p.ref \in 0 .. (totalRows[h] - 1)
         THEN FillRow(h, p.ref, "pos")
         ELSE UNCHANGED <<buf, readBy>>
  /\ UNCHANGED <<file, shareVars, pc, openVars, currentRow, ref, got, eof, saved>>

RndEnd(h) ==
  /\ GoTo(h, "scan", "stmt")
  /\ UNCHANGED <<file, shareVars, openVars, scanVars>>

(***************************************************************************)
(* The environment: a writer replaces the file; the server frees the       *)
(* TABLE_SHARE, and the Parquet_share with it, when no handler uses it.    *)
(***************************************************************************)
ReplaceFile ==
  /\ \E f \in File \ {file} : file' = f
  /\ UNCHANGED <<shareVars, pc, openVars, scanVars>>

FreeTableShare ==
  /\ haShare # NULL
  /\ \A h \in Handlers : pc[h] = "closed"
  /\ allocated' = allocated \ {haShare}
  /\ haShare' = NULL
  /\ UNCHANGED <<file, mutex, tmpShare, share, pc, openVars, scanVars>>

OpenStep(h) ==
  \/ CheckShare(h) \/ AllocShare(h) \/ AllocShareFails(h) \/ UnlockShareData(h)
  \/ OpenFile(h) \/ OpenFileFails(h) \/ ParseFile(h) \/ ParseFileFails(h)
  \/ ReadTable(h) \/ ReadTableFails(h)

ScanStep(h) ==
  \/ RndInit(h) \/ RndNext(h) \/ RndNextEof(h) \/ Position(h)
  \/ RndPos(h) \/ RndEnd(h)

Next ==
  \/ \E h \in Handlers :
       \/ OpenCall(h) \/ LockShareData(h) \/ OpenStep(h) \/ Close(h)
       \/ StmtBegin(h) \/ ScanStep(h) \/ StmtEnd(h)
  \/ ReplaceFile
  \/ FreeTableShare

Spec == Init /\ [][Next]_vars

\* A call of open() that has started runs to its end: its steps are code of one
\* thread.  The mutex is contended, and each holder keeps it for a bounded
\* number of steps, so a waiter is granted it infinitely often (SF).
Fairness ==
  \A h \in Handlers : SF_vars(LockShareData(h)) /\ WF_vars(OpenStep(h))

FairSpec == Spec /\ Fairness

(***************************************************************************)
(* Properties.                                                             *)
(***************************************************************************)

\* All the handlers of the table hang their lock data on one and the same
\* THR_LOCK, the one in the Parquet_share that get_share published, and no
\* other Parquet_share was made: not by two racing opens, not by failed ones.
OneShare ==
  /\ \A h \in Handlers : share[h] # NULL => share[h] = haShare
  /\ allocated = {haShare} \ {NULL}

\* When rnd_next reports the end of file, the scan returned each row of the
\* file version read by open exactly once and in order, whatever positioned
\* reads, other handlers and the writer of the file did in between.
ScanExact ==
  \A h \in Handlers :
    pc[h] = "scan" /\ eof[h] =>
      got[h] = [i \in 1 .. Rows[table[h]] |-> i - 1]

\* A position taken on a row that rnd_next returned leads rnd_pos back to that
\* row, and every saved position is inside the table.
PositionRoundTrip ==
  \A h \in Handlers : \A p \in saved[h] :
    /\ p.ref \in 0 .. (totalRows[h] - 1)
    /\ p.by = "next" => p.ref = p.row

\* Every open() ends, with an open handler or with an error: no path out of
\* get_share keeps lock_shared_ha_data.
OpenEnds ==
  \A h \in Handlers : pc[h] \in Opening ~> pc[h] \in Opened \cup {"closed"}

(***************************************************************************)
(* The inductive invariant the properties follow from.                     *)
(***************************************************************************)
HasShare == {"open_file", "parse", "read_table"} \cup Opened

ShareInv ==
  /\ allocated = {haShare} \ {NULL}
  /\ \A h \in Handlers :
       /\ mutex = h <=> pc[h] \in InGetShare
       /\ pc[h] = "alloc" => haShare = NULL /\ tmpShare[h] = NULL
       /\ pc[h] = "unlock" => tmpShare[h] = haShare
       /\ IF pc[h] \in HasShare THEN share[h] = haShare /\ haShare # NULL
                                ELSE share[h] = NULL

FileInv ==
  \A h \in Handlers :
    /\ pc[h] = "read_table" => fd[h] \in Contents
    /\ pc[h] = "parse" => fd[h] \in Contents \cup {Corrupt}
    /\ pc[h] \notin {"parse", "read_table"} => fd[h] = NULL
    /\ IF pc[h] \in Opened THEN table[h] \in Contents /\ totalRows[h] = Rows[table[h]]
                           ELSE table[h] = NULL /\ currentRow[h] = 0

ScanInvOf(h) ==
  /\ pc[h] \notin {"stmt", "scan"} => buf[h] = NULL /\ saved[h] = {}
  /\ currentRow[h] <= totalRows[h]
  /\ got[h] = [i \in 1 .. currentRow[h] |-> i - 1]
  /\ eof[h] => pc[h] \in Opened /\ currentRow[h] = totalRows[h]
  /\ buf[h] # NULL \/ saved[h] # {} => ref[h] \in 0 .. (totalRows[h] - 1)
  /\ buf[h] # NULL =>
       /\ buf[h][1] = table[h]
       /\ buf[h][2] \in 0 .. (totalRows[h] - 1)
       /\ readBy[h] = "next" => ref[h] = buf[h][2]
  /\ \A p \in saved[h] :
       /\ p.ref \in 0 .. (totalRows[h] - 1)
       /\ p.by = "next" => p.ref = p.row

ScanInv == \A h \in Handlers : ScanInvOf(h)

IInv == TypeOK /\ ShareInv /\ FileInv /\ ScanInv

(***************************************************************************)
(* The promise of the component: see TableSnapshot.  A version counts as   *)
(* loaded from the moment its file is open.                                *)
(***************************************************************************)
Loaded(h) == IF fd[h] \in Contents THEN fd[h] ELSE table[h]

Snapshot == INSTANCE TableSnapshot WITH
  Readers <- Handlers,
  available <- {file} \cap Contents,
  snap    <- [h \in Handlers |-> Loaded(h)],
  cursor  <- currentRow,
  row     <- buf

Refinement == Snapshot!Spec
=============================================================================
