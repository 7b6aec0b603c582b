---------------------------- MODULE ParquetEngine ----------------------------
(***************************************************************************)
(* The whole READ_PARQUET engine as the statements of a server see it:     *)
(* tables, their sidecars, the parquet files, and handlers that open them  *)
(* and read rows, while DDL runs on the tables, a writer replaces files    *)
(* and the server crashes.  It puts the reads of the handlers on top of    *)
(* ParquetSidecar, so that what a table's rows come from can be followed   *)
(* from the COMMENT in CREATE TABLE to the record buffer.  Written from    *)
(* the MySQL 8 engine; get_share is in HaParquet, the rows in FillRow.     *)
(***************************************************************************)
EXTENDS ParquetSidecar

CONSTANTS
  Versions,     \* contents a file may have
  Rows,         \* Rows[v]: number of rows of the table in v
  NULL          \* no file, no table, no row

Openable == {FirstLine[p] : p \in Paths}

\* The file at path p with the contents v.
Files == Openable \X Versions

RowsOf == [f \in Files |-> Rows[f[2]]]

ASSUME RowsAssumption == Rows \in [Versions -> Nat]
ASSUME NullAssumption == NULL \notin Files \cup (Files \X Nat)

VARIABLES
  content,      \* the file at each path, or NULL
  file,         \* file a handler has open inside open()
  arrow_table,  \* table a handler has read, known by the file it is from
  total_rows,
  current_row,
  row,          \* the record of a handler's statement: <<file, row number>>
  records       \* stats.records, 0 until info() is called

readVars == <<file, arrow_table, total_rows, current_row, row, records>>

engineVars == <<vars, content, readVars>>

EngineTypeOK ==
  /\ content \in [Openable -> Files \cup {NULL}]
  /\ \A p \in Openable : content[p] # NULL => content[p][1] = p
  /\ file \in [Handlers -> Files \cup {NULL}]
  /\ arrow_table \in [Handlers -> Files \cup {NULL}]
  /\ total_rows \in [Handlers -> Nat]
  /\ current_row \in [Handlers -> Nat]
  /\ row \in [Handlers -> (Files \X Nat) \cup {NULL}]
  /\ records \in [Handlers -> Nat]

EngineInit ==
  /\ Init
  /\ content \in [Openable -> Files \cup {NULL}]
  /\ \A p \in Openable : content[p] # NULL => content[p][1] = p
  /\ file = [h \in Handlers |-> NULL]
  /\ arrow_table = [h \in Handlers |-> NULL]
  /\ total_rows = [h \in Handlers |-> 0]
  /\ current_row = [h \in Handlers |-> 0]
  /\ row = [h \in Handlers |-> NULL]
  /\ records = [h \in Handlers |-> 0]

IsReady(h) == arrow_table[h] # NULL

(***************************************************************************)
(* open() after the sidecar has been read, and close().                    *)
(***************************************************************************)
OpenTable(h, n) ==
  /\ Open(h, n)
  /\ UNCHANGED <<content, readVars>>

\* Mutant: the table's own name is used, not the path in the sidecar.
OpenFileByName(h) ==
  /\ IsOpen(h) /\ ~ IsReady(h) /\ file[h] = NULL
  /\ content[Default[handler[h].name]] # NULL
  /\ file' = [file EXCEPT ![h] = content[Default[handler[h].name]]]
  /\ UNCHANGED <<vars, content, arrow_table, total_rows, current_row, row, records>>

\* The file that is open now keeps its contents whatever a writer does.
OpenFile(h) ==
  /\ IsOpen(h) /\ ~ IsReady(h) /\ file[h] = NULL
  /\ content[handler[h].path] # NULL
  /\ file' = [file EXCEPT ![h] = content[handler[h].path]]
  /\ UNCHANGED <<vars, content, arrow_table, total_rows, current_row, row, records>>

\* Mutant: the table is read from the path again, not from the open file.
ReadTableFromPath(h) ==
  /\ file[h] # NULL /\ content[handler[h].path] # NULL
  /\ arrow_table' = [arrow_table EXCEPT ![h] = content[handler[h].path]]
  /\ total_rows' = [total_rows EXCEPT ![h] = RowsOf[content[handler[h].path]]]
  /\ current_row' = [current_row EXCEPT ![h] = 0]
  /\ file' = [file EXCEPT ![h] = NULL]
  /\ UNCHANGED <<vars, content, row, records>>

\* OpenFile of the parquet reader and ReadTable.
ReadTable(h) ==
  /\ file[h] # NULL
  /\ arrow_table' = [arrow_table EXCEPT ![h] = file[h]]
  /\ total_rows' = [total_rows EXCEPT ![h] = RowsOf[file[h]]]
  /\ current_row' = [current_row EXCEPT ![h] = 0]
  /\ file' = [file EXCEPT ![h] = NULL]
  /\ UNCHANGED <<vars, content, row, records>>

\* There is no file, it cannot be parsed, or reading it fails: open() returns
\* an error and the server deletes the handler.
OpenFails(h) ==
  /\ ~ IsReady(h)
  /\ Close(h)
  /\ file' = [file EXCEPT ![h] = NULL]
  /\ UNCHANGED <<content, arrow_table, total_rows, current_row, row, records>>

\* close() between two statements; the server deletes the handler.
CloseTable(h) ==
  /\ IsReady(h) /\ row[h] = NULL
  /\ Close(h)
  /\ arrow_table' = [arrow_table EXCEPT ![h] = NULL]
  /\ total_rows' = [total_rows EXCEPT ![h] = 0]
  /\ current_row' = [current_row EXCEPT ![h] = 0]
  /\ records' = [records EXCEPT ![h] = 0]
  /\ UNCHANGED <<content, file, row>>

(***************************************************************************)
(* Reads of a statement.                                                   *)
(***************************************************************************)
RndInit(h) ==
  /\ IsReady(h)
  /\ current_row' = [current_row EXCEPT ![h] = 0]
  /\ UNCHANGED <<vars, content, file, arrow_table, total_rows, row, records>>

\* fill_row as its caller sees it.
FillRow(h, i) == row' = [row EXCEPT ![h] = <<arrow_table[h], i>>]

\* At the end of the table HA_ERR_END_OF_FILE changes nothing.
RndNext(h) ==
  /\ current_row[h] < total_rows[h]
  /\ FillRow(h, current_row[h])
  /\ current_row' = [current_row EXCEPT ![h] = @ + 1]
  /\ UNCHANGED <<vars, content, file, arrow_table, total_rows, records>>

RndPos(h) ==
  /\ \E i \in 0 .. (total_rows[h] - 1) : FillRow(h, i)
  /\ UNCHANGED <<vars, content, file, arrow_table, total_rows, current_row, records>>

\* Mutant: the number of rows is passed on as it is.
InfoExact(h) ==
  /\ IsReady(h)
  /\ records' = [records EXCEPT ![h] = total_rows[h]]
  /\ UNCHANGED <<vars, content, file, arrow_table, total_rows, current_row, row>>

\* info(): never fewer than two, "to avoid single-row optimizer tricks".
Info(h) ==
  /\ IsReady(h)
  /\ records' = [records EXCEPT ![h] = IF total_rows[h] < 2 THEN 2 ELSE total_rows[h]]
  /\ UNCHANGED <<vars, content, file, arrow_table, total_rows, current_row, row>>

EndStatement(h) ==
  /\ row[h] # NULL
  /\ row' = [row EXCEPT ![h] = NULL]
  /\ UNCHANGED <<vars, content, file, arrow_table, total_rows, current_row, records>>

(***************************************************************************)
(* What goes on around the handlers.                                       *)
(***************************************************************************)
ReplaceFile(p) ==
  /\ content' \in {[content EXCEPT ![p] = f] : f \in ({p} \X Versions) \cup {NULL}}
  /\ UNCHANGED <<vars, readVars>>

RunDdl(n) == Ddl(n) /\ UNCHANGED <<content, readVars>>

Rename(n, m) == RenameTable(n, m) /\ UNCHANGED <<content, readVars>>

ServerCrash ==
  /\ Crash
  /\ file' = [h \in Handlers |-> NULL]
  /\ arrow_table' = [h \in Handlers |-> NULL]
  /\ total_rows' = [h \in Handlers |-> 0]
  /\ current_row' = [h \in Handlers |-> 0]
  /\ row' = [h \in Handlers |-> NULL]
  /\ records' = [h \in Handlers |-> 0]
  /\ UNCHANGED content

HandlerStep(h) ==
  \/ \E n \in Names : OpenTable(h, n)
  \/ OpenFile(h) \/ ReadTable(h) \/ OpenFails(h) \/ CloseTable(h)
  \/ RndInit(h) \/ RndNext(h) \/ RndPos(h) \/ Info(h) \/ EndStatement(h)

EngineNext ==
  \/ \E n \in Names : RunDdl(n)
  \/ \E n, m \in Names : Rename(n, m)
  \/ \E h \in Handlers : HandlerStep(h)
  \/ \E p \in Openable : ReplaceFile(p)
  \/ ServerCrash

EngineSpec == EngineInit /\ [][EngineNext]_engineVars

(***************************************************************************)
(* Properties.                                                             *)
(***************************************************************************)

\* A row of a table made by a successful create() comes from the file that its
\* COMMENT (or its name) stands for, never from the one of an earlier table of
\* the name; if open() could not read the sidecar, from <name>.parquet, whoever
\* wrote it; if a failed write cut the sidecar, from the piece of the path left.
ReadsOwnFile ==
  \A h \in Handlers : row[h] # NULL /\ handler[h].name \in made =>
    LET n == handler[h].name
        path == row[h][1][1]
    IN
    \/ path = FirstLine[ParquetPath(n, def[n])]
    \/ ~ handler[h].read /\ path = Default[n]
    \/ sidecar[n] = Torn /\ path = Torn

\* The number of rows the optimizer was told is not below the number that a
\* scan of this handler returns, and never one or none.
RecordsCoverScan ==
  \A h \in Handlers : records[h] # 0 =>
    /\ records[h] >= 2
    /\ IsReady(h) /\ records[h] >= RowsOf[arrow_table[h]]
    /\ current_row[h] <= records[h]

\* What each handler of table n has loaded of its file, its cursor and row.
LoadedOf(n) ==
  [h \in Handlers |->
     IF ~ IsOpen(h) \/ handler[h].name # n THEN NULL
     ELSE IF IsReady(h) THEN arrow_table[h] ELSE file[h]]

CursorOf(n) == [h \in Handlers |-> IF LoadedOf(n)[h] = NULL THEN 0 ELSE current_row[h]]

RowOf(n) == [h \in Handlers |-> IF LoadedOf(n)[h] = NULL THEN NULL ELSE row[h]]

\* The files an open() of table n can find: the one the sidecar leads to and,
\* where the read of the sidecar can fail, <name>.parquet.
FilesOf(n) == {content[OpenPath(n, ok)] : ok \in ReadPrqMeta(n)} \ {NULL}

\* Table n as its readers see it: a snapshot of one of those files for each.
Table(n) == INSTANCE TableSnapshot WITH
  Readers <- Handlers,
  Contents <- Files,
  Rows <- RowsOf,
  available <- FilesOf(n),
  snap <- LoadedOf(n),
  cursor <- CursorOf(n),
  row <- RowOf(n)

\* Every table is a TableSnapshot of its own, whatever happens to the others:
\* DDL on it is no more than a replacement of its files.  (This is Table(n)!Spec
\* for every n, with the quantifier inside the box.)
Refinement ==
  /\ \A n \in Names : Table(n)!Init
  /\ [][\A n \in Names : [Table(n)!Next]_(Table(n)!vars)]_engineVars

\* The inductive invariant, on top of ParquetSidecar's: what a handler holds
\* is from the path it opened.
HoldsOf(h) ==
  /\ file[h] # NULL => IsOpen(h) /\ file[h][1] = handler[h].path /\ ~ IsReady(h)
  /\ IsReady(h) =>
       /\ IsOpen(h) /\ arrow_table[h][1] = handler[h].path
       /\ total_rows[h] = RowsOf[arrow_table[h]]
       /\ current_row[h] <= total_rows[h]
  /\ ~ IsReady(h) =>
       total_rows[h] = 0 /\ current_row[h] = 0 /\ row[h] = NULL /\ records[h] = 0
  /\ row[h] # NULL => row[h][1] = arrow_table[h] /\ row[h][2] < total_rows[h]
  /\ records[h] # 0 => records[h] >= 2 /\ records[h] >= total_rows[h]

EngineIInv == IInv /\ EngineTypeOK /\ \A h \in Handlers : HoldsOf(h)
=============================================================================
