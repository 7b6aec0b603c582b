------------------------ MODULE ParquetEngine_proofs ------------------------
(***************************************************************************)
(* Proofs about ParquetEngine, for any set of tables, handlers, paths and  *)
(* contents of any length.  The sidecar's invariant is taken over from     *)
(* ParquetSidecar_proofs: a step of the engine is one of ParquetSidecar,   *)
(* or leaves its variables alone.                                          *)
(***************************************************************************)
EXTENDS ParquetEngine, ParquetSidecar_proofs

LEMMA EngineStepIsSidecarStep == [EngineNext]_engineVars => [Next]_vars
BY DEF EngineNext, engineVars, RunDdl, Rename, HandlerStep, OpenTable, OpenFile, ReadTable,
       OpenFails, CloseTable, RndInit, RndNext, RndPos, Info, EndStatement, ReplaceFile,
       ServerCrash, Next

\* The engine is ParquetSidecar with reads on top: what holds of sidecars
\* holds of it.
THEOREM EngineHasSidecar == EngineSpec => Spec
<1>1. EngineInit => Init
  BY DEF EngineInit
<1>2. QED
  BY <1>1, EngineStepIsSidecarStep, PTL DEF EngineSpec, Spec


(***************************************************************************)
(* The invariant of the handlers.                                          *)
(***************************************************************************)
LEMMA EngineInitInv == EngineInit => EngineIInv
<1> SUFFICES ASSUME EngineInit PROVE EngineIInv
  OBVIOUS
<1>1. IInv
  BY InitIInv DEF EngineInit
<1>2. EngineTypeOK
  BY DEF EngineInit, EngineTypeOK
<1>3. \A h \in Handlers : HoldsOf(h)
  BY DEF EngineInit, HoldsOf, IsReady
<1>4. QED
  BY <1>1, <1>2, <1>3 DEF EngineIInv

\* Steps that leave handlers and their reads alone.
LEMMA OutsideStep ==
  ASSUME EngineIInv, UNCHANGED <<handler, readVars>>,
         content' \in [Openable -> Files \cup {NULL}],
         \A p \in Openable : content'[p] # NULL => content'[p][1] = p
  PROVE  EngineTypeOK' /\ \A h \in Handlers : HoldsOf(h)'
BY DEF EngineIInv, EngineTypeOK, HoldsOf, IsReady, IsOpen, readVars

LEMMA DdlKeepsHandlers ==
  ASSUME NEW n \in Names, Ddl(n)
  PROVE  UNCHANGED handler
BY DEF Ddl, BeginCreate, BeginTruncate, BeginDrop, OpenSidecar, OpenSidecarFails,
       WriteSidecar, WriteSidecarFails, Created, DeleteTable, ForgetTable

\* A step of one handler: its own part is to be shown, the others keep theirs.
LEMMA OneHandlerStep ==
  ASSUME EngineIInv, NEW h \in Handlers, EngineTypeOK', HoldsOf(h)',
         \A k \in Handlers \ {h} :
           /\ handler'[k] = handler[k]
           /\ file'[k] = file[k] /\ arrow_table'[k] = arrow_table[k]
           /\ total_rows'[k] = total_rows[k] /\ current_row'[k] = current_row[k]
           /\ row'[k] = row[k] /\ records'[k] = records[k]
  PROVE  EngineTypeOK' /\ \A k \in Handlers : HoldsOf(k)'
<1>1. ASSUME NEW k \in Handlers \ {h} PROVE HoldsOf(k)'
  BY DEF EngineIInv, HoldsOf, IsReady, IsOpen
<1>2. QED
  BY <1>1

LEMMA OpenSteps ==
  ASSUME EngineIInv, NEW h \in Handlers,
         \/ \E n \in Names : OpenTable(h, n)
         \/ OpenFile(h) \/ ReadTable(h) \/ OpenFails(h) \/ CloseTable(h)
  PROVE  EngineTypeOK' /\ \A k \in Handlers : HoldsOf(k)'
<1> USE RowsAssumption, NullAssumption
    DEF EngineIInv, EngineTypeOK, HoldsOf, IsReady, IsOpen, readVars, vars
<1>1. CASE \E n \in Names : OpenTable(h, n)
  <2>1. PICK n \in Names : OpenTable(h, n)
    BY <1>1
  <2>2. EngineTypeOK'
    BY <2>1 DEF OpenTable
  <2>3. HoldsOf(h)'
    BY <2>1 DEF OpenTable, Open
  <2>4. QED
    BY <2>1, <2>2, <2>3, OneHandlerStep DEF OpenTable, Open, IInv, TypeOK
<1>2. CASE OpenFile(h)
  <2>1. content[handler[h].path] \in Files /\ content[handler[h].path][1] = handler[h].path
    BY <1>2 DEF OpenFile, IInv, TypeOK, Opening, Openable
  <2>2. EngineTypeOK'
    BY <1>2, <2>1 DEF OpenFile
  <2>3. HoldsOf(h)'
    BY <1>2, <2>1 DEF OpenFile
  <2>4. QED
    BY <1>2, <2>2, <2>3, OneHandlerStep DEF OpenFile
<1>3. CASE ReadTable(h)
  <2>1. file[h] \in Files /\ RowsOf[file[h]] \in Nat
    BY <1>3 DEF ReadTable, RowsOf, Files
  <2>2. EngineTypeOK'
    BY <1>3, <2>1 DEF ReadTable
  <2>3. HoldsOf(h)'
    BY <1>3, <2>1 DEF ReadTable
  <2>4. QED
    BY <1>3, <2>2, <2>3, OneHandlerStep DEF ReadTable
<1>4. CASE OpenFails(h)
  <2>1. EngineTypeOK'
    BY <1>4 DEF OpenFails
  <2>2. HoldsOf(h)'
    BY <1>4 DEF OpenFails
  <2>3. QED
    BY <1>4, <2>1, <2>2, OneHandlerStep DEF OpenFails, Close, IInv, TypeOK
<1>5. CASE CloseTable(h)
  <2>1. EngineTypeOK'
    BY <1>5 DEF CloseTable
  <2>2. HoldsOf(h)'
    BY <1>5 DEF CloseTable
  <2>3. QED
    BY <1>5, <2>1, <2>2, OneHandlerStep DEF CloseTable, Close, IInv, TypeOK
<1>6. QED
  BY <1>1, <1>2, <1>3, <1>4, <1>5

LEMMA ReadSteps ==
  ASSUME EngineIInv, NEW h \in Handlers,
         RndInit(h) \/ RndNext(h) \/ RndPos(h) \/ Info(h) \/ EndStatement(h)
  PROVE  EngineTypeOK' /\ \A k \in Handlers : HoldsOf(k)'
<1> USE RowsAssumption, NullAssumption
    DEF EngineIInv, EngineTypeOK, HoldsOf, IsReady, IsOpen, readVars, vars
<1>1. CASE RndInit(h)
  <2>1. EngineTypeOK' /\ HoldsOf(h)'
    BY <1>1 DEF RndInit
  <2>2. QED
    BY <1>1, <2>1, OneHandlerStep DEF RndInit
<1>2. CASE RndNext(h)
  <2>1. IsReady(h) /\ arrow_table[h] \in Files
    BY <1>2 DEF RndNext
  <2>2. row'[h] = <<arrow_table[h], current_row[h]>> /\ row'[h] \in Files \X Nat
    BY <1>2, <2>1 DEF RndNext, FillRow
  <2>3. EngineTypeOK'
    BY <1>2, <2>2 DEF RndNext, FillRow
  <2>4. HoldsOf(h)'
    BY <1>2, <2>1, <2>2 DEF RndNext
  <2>5. QED
    BY <1>2, <2>3, <2>4, OneHandlerStep DEF RndNext, FillRow
<1>3. CASE RndPos(h)
  <2>1. PICK i \in 0 .. (total_rows[h] - 1) : FillRow(h, i)
    BY <1>3 DEF RndPos
  <2>2. IsReady(h) /\ arrow_table[h] \in Files /\ i \in Nat /\ i < total_rows[h]
    BY <2>1
  <2>3. row'[h] = <<arrow_table[h], i>> /\ row'[h] \in Files \X Nat
    BY <2>1, <2>2 DEF FillRow
  <2>4. EngineTypeOK'
    BY <1>3, <2>1, <2>3 DEF RndPos, FillRow
  <2>5. HoldsOf(h)'
    BY <1>3, <2>2, <2>3 DEF RndPos
  <2>6. QED
    BY <1>3, <2>1, <2>4, <2>5, OneHandlerStep DEF RndPos, FillRow
<1>4. CASE Info(h)
  <2>1. EngineTypeOK' /\ HoldsOf(h)'
    BY <1>4 DEF Info
  <2>2. QED
    BY <1>4, <2>1, OneHandlerStep DEF Info
<1>5. CASE EndStatement(h)
  <2>1. EngineTypeOK' /\ HoldsOf(h)'
    BY <1>5 DEF EndStatement
  <2>2. QED
    BY <1>5, <2>1, OneHandlerStep DEF EndStatement
<1>6. QED
  BY <1>1, <1>2, <1>3, <1>4, <1>5

LEMMA EngineStepInv ==
  ASSUME EngineIInv, [EngineNext]_engineVars
  PROVE  EngineTypeOK' /\ \A h \in Handlers : HoldsOf(h)'
<1>1. CASE \E n \in Names : RunDdl(n)
  BY <1>1, OutsideStep, DdlKeepsHandlers DEF RunDdl, EngineIInv, EngineTypeOK
<1>2. CASE \E n, m \in Names : Rename(n, m)
  BY <1>2, OutsideStep DEF Rename, RenameTable, EngineIInv, EngineTypeOK
<1>3. CASE \E h \in Handlers : HandlerStep(h)
  BY <1>3, OpenSteps, ReadSteps DEF HandlerStep
<1>4. CASE \E p \in Openable : ReplaceFile(p)
  <2> PICK p \in Openable : ReplaceFile(p)
    BY <1>4
  <2>1. PICK f \in ({p} \X Versions) \cup {NULL} :
          content' = [content EXCEPT ![p] = f] /\ UNCHANGED <<vars, readVars>>
    BY DEF ReplaceFile
  <2>2. f \in Files \cup {NULL} /\ (f # NULL => f[1] = p)
    BY <2>1 DEF Files
  <2>3. QED
    BY <2>1, <2>2, OutsideStep DEF EngineIInv, EngineTypeOK, vars
<1>5. CASE ServerCrash
  BY <1>5 DEF ServerCrash, EngineIInv, EngineTypeOK, HoldsOf, IsReady
<1>6. CASE UNCHANGED engineVars
  BY <1>6, OutsideStep DEF engineVars, vars, EngineIInv, EngineTypeOK
<1>7. QED
  BY <1>1, <1>2, <1>3, <1>4, <1>5, <1>6 DEF EngineNext

THEOREM EngineInvariance == EngineSpec => []EngineIInv
<1>1. EngineIInv /\ IInv' /\ [EngineNext]_engineVars => EngineIInv'
  BY EngineStepInv DEF EngineIInv
<1>2. QED
  BY <1>1, EngineInitInv, EngineHasSidecar, Invariance, PTL DEF EngineSpec

\* The variables of the reads keep their types, and a file its path.
THEOREM EngineTypeCorrect == EngineSpec => []EngineTypeOK
<1>1. EngineIInv => EngineTypeOK
  BY DEF EngineIInv
<1>2. QED
  BY <1>1, EngineInvariance, PTL

\* From the COMMENT to the record buffer: whatever DDL, crashes and writers did,
\* a row of a created table is a row of the file of its present definition, or
\* of <name>.parquet when its sidecar was not read, or of the piece of its path
\* that a failed write left.
THEOREM RowsAreOwn == EngineSpec => []ReadsOwnFile
<1>1. EngineIInv /\ OpensOwnPath => ReadsOwnFile
  <2> SUFFICES ASSUME EngineIInv, OpensOwnPath, NEW h \in Handlers,
                      row[h] # NULL, handler[h].name \in made
               PROVE  LET n == handler[h].name
                          path == row[h][1][1]
                      IN \/ path = FirstLine[ParquetPath(n, def[n])]
                         \/ ~ handler[h].read /\ path = Default[n]
                         \/ sidecar[n] = Torn /\ path = Torn
    BY DEF ReadsOwnFile
  <2>1. IsOpen(h) /\ row[h][1][1] = handler[h].path
    BY DEF EngineIInv, HoldsOf
  <2>2. QED
    BY <2>1 DEF OpensOwnPath
<1>2. QED
  BY <1>1, EngineInvariance, EngineHasSidecar, OwnPath, PTL

\* What info() has told the optimizer stays an upper bound of the scan.
THEOREM RecordsCover == EngineSpec => []RecordsCoverScan
<1>1. EngineIInv => RecordsCoverScan
  <2> SUFFICES ASSUME EngineIInv, NEW h \in Handlers, records[h] # 0
               PROVE  /\ records[h] >= 2
                      /\ IsReady(h) /\ records[h] >= RowsOf[arrow_table[h]]
                      /\ current_row[h] <= records[h]
    BY DEF RecordsCoverScan
  <2>1. IsReady(h) /\ records[h] >= 2 /\ records[h] >= total_rows[h]
        /\ total_rows[h] = RowsOf[arrow_table[h]] /\ current_row[h] <= total_rows[h]
    BY DEF EngineIInv, HoldsOf
  <2>2. QED
    BY <2>1 DEF EngineIInv, EngineTypeOK
<1>2. QED
  BY <1>1, EngineInvariance, PTL

(***************************************************************************)
(* Every table is a TableSnapshot.                                         *)
(***************************************************************************)
LEMMA FilesOfType ==
  ASSUME EngineIInv, NEW n \in Names
  PROVE  FilesOf(n) \in SUBSET Files
<1>1. \A ok \in ReadPrqMeta(n) : OpenPath(n, ok) \in Openable
  BY OpenPathType DEF EngineIInv, IInv, Openable
<1>2. QED
  BY <1>1 DEF FilesOf, EngineIInv, EngineTypeOK

LEMMA TableInit ==
  ASSUME EngineInit, NEW n \in Names
  PROVE  Table(n)!Init
<1>1. FilesOf(n) \in SUBSET Files
  BY EngineInitInv, FilesOfType
<1>2. QED
  BY <1>1 DEF EngineInit, Init, Table!Init, LoadedOf, CursorOf, RowOf, IsOpen

\* Steps that change neither what handlers have loaded nor their rows.
LEMMA TableReplace ==
  ASSUME EngineIInv', NEW n \in Names, UNCHANGED <<handler, readVars>>
  PROVE  Table(n)!Replace
<1>1. (FilesOf(n) \in SUBSET Files)'
  BY FilesOfType, PTL
<1>2. QED
  BY <1>1 DEF Table!Replace, LoadedOf, CursorOf, RowOf, IsOpen, IsReady, readVars

\* The three functions a table is mapped to, before and after a step.
LEMMA MappedFunctions ==
  ASSUME NEW n \in Names
  PROVE  /\ LoadedOf(n) = [k \in Handlers |-> LoadedOf(n)[k]]
         /\ CursorOf(n) = [k \in Handlers |-> CursorOf(n)[k]]
         /\ RowOf(n) = [k \in Handlers |-> RowOf(n)[k]]
         /\ LoadedOf(n)' = [k \in Handlers |-> LoadedOf(n)'[k]]
         /\ CursorOf(n)' = [k \in Handlers |-> CursorOf(n)'[k]]
         /\ RowOf(n)' = [k \in Handlers |-> RowOf(n)'[k]]
BY DEF LoadedOf, CursorOf, RowOf

LEMMA TableOpenSteps ==
  ASSUME EngineIInv, NEW n \in Names, NEW h \in Handlers,
         \/ \E m \in Names : OpenTable(h, m)
         \/ OpenFile(h) \/ ReadTable(h) \/ OpenFails(h) \/ CloseTable(h)
  PROVE  [Table(n)!Next]_(Table(n)!vars)
<1> USE NullAssumption
    DEF EngineIInv, EngineTypeOK, IInv, TypeOK, HoldsOf, IsReady, IsOpen, readVars, vars
<1> DEFINE Same(k) == /\ LoadedOf(n)'[k] = LoadedOf(n)[k]
                      /\ CursorOf(n)'[k] = CursorOf(n)[k]
                      /\ RowOf(n)'[k] = RowOf(n)[k]
<1>0. ASSUME \A k \in Handlers : Same(k), UNCHANGED <<content, sidecar>>
      PROVE  UNCHANGED Table(n)!vars
  BY <1>0, MappedFunctions DEF Table!vars, FilesOf, OpenPath, ReadPrqMeta, HasLine
<1>1. CASE \E m \in Names : OpenTable(h, m)
  <2>1. \A k \in Handlers : Same(k)
    BY <1>1 DEF OpenTable, Open, LoadedOf, CursorOf, RowOf
  <2>2. QED
    BY <1>0, <1>1, <2>1 DEF OpenTable, Open
<1>2. CASE OpenFile(h)
  <2>1. /\ \A k \in Handlers \ {h} : Same(k)
        /\ LoadedOf(n)[h] = NULL
        /\ CursorOf(n)[h] = 0 /\ CursorOf(n)'[h] = 0
        /\ RowOf(n)[h] = NULL /\ RowOf(n)'[h] = NULL
    BY <1>2 DEF OpenFile, LoadedOf, CursorOf, RowOf
  <2>2. CASE handler[h].name # n
    <3>1. LoadedOf(n)'[h] = NULL
      BY <1>2, <2>2 DEF OpenFile, LoadedOf
    <3>2. QED
      BY <1>0, <1>2, <2>1, <3>1 DEF OpenFile
  <2>3. CASE handler[h].name = n
    <3> DEFINE v == content[handler[h].path]
    <3>1. v \in FilesOf(n)
      BY <1>2, <2>3 DEF OpenFile, HandlerInv, FilesOf
    <3>2. LoadedOf(n)'[h] = v
      BY <1>2, <2>3 DEF OpenFile, LoadedOf
    <3>3. LoadedOf(n)' = [LoadedOf(n) EXCEPT ![h] = v]
      <4>1. \A k \in Handlers :
              LoadedOf(n)'[k] = IF k = h THEN v ELSE LoadedOf(n)[k]
        BY <2>1, <3>2
      <4>2. QED
        BY <4>1, MappedFunctions
    <3>4. CursorOf(n)' = CursorOf(n)
      BY <2>1, MappedFunctions
    <3>5. RowOf(n)' = RowOf(n)
      BY <2>1, MappedFunctions
    <3>6. FilesOf(n)' = FilesOf(n)
      BY <1>2 DEF OpenFile, FilesOf, OpenPath, ReadPrqMeta, HasLine
    <3>7. Table(n)!Load(h)
      BY <2>1, <3>1, <3>3, <3>4, <3>5, <3>6 DEF Table!Load
    <3>8. QED
      BY <3>7 DEF Table!Next
  <2>4. QED
    BY <2>2, <2>3
<1>3. CASE ReadTable(h)
  <2>1. \A k \in Handlers : Same(k)
    BY <1>3 DEF ReadTable, LoadedOf, CursorOf, RowOf
  <2>2. QED
    BY <1>0, <1>3, <2>1 DEF ReadTable
<1>4. CASE OpenFails(h) \/ CloseTable(h)
  <2>1. /\ \A k \in Handlers \ {h} : Same(k)
        /\ LoadedOf(n)'[h] = NULL /\ CursorOf(n)'[h] = 0
        /\ RowOf(n)[h] = NULL /\ RowOf(n)'[h] = NULL
    BY <1>4 DEF OpenFails, CloseTable, Close, LoadedOf, CursorOf, RowOf
  <2>2. /\ LoadedOf(n)' = [LoadedOf(n) EXCEPT ![h] = NULL]
        /\ CursorOf(n)' = [CursorOf(n) EXCEPT ![h] = 0]
        /\ RowOf(n)' = RowOf(n)
    BY <2>1, MappedFunctions
  <2>3. Table(n)!Drop(h)
    BY <1>4, <2>2 DEF OpenFails, CloseTable, Close, Table!Drop, FilesOf, OpenPath, ReadPrqMeta, HasLine
  <2>4. QED
    BY <2>3 DEF Table!Next
<1>5. QED
  BY <1>1, <1>2, <1>3, <1>4

LEMMA TableReadSteps ==
  ASSUME EngineIInv, NEW n \in Names, NEW h \in Handlers,
         RndInit(h) \/ RndNext(h) \/ RndPos(h) \/ Info(h) \/ EndStatement(h)
  PROVE  [Table(n)!Next]_(Table(n)!vars)
<1> USE NullAssumption
    DEF EngineIInv, EngineTypeOK, HoldsOf, IsReady, IsOpen, readVars, vars
<1> DEFINE Same(k) == CursorOf(n)'[k] = CursorOf(n)[k] /\ RowOf(n)'[k] = RowOf(n)[k]
<1>1. /\ UNCHANGED <<content, sidecar>>
      /\ \A k \in Handlers : LoadedOf(n)'[k] = LoadedOf(n)[k]
      /\ \A k \in Handlers \ {h} : Same(k)
  BY DEF RndInit, RndNext, RndPos, Info, EndStatement, FillRow, LoadedOf, CursorOf, RowOf
<1>2. ASSUME Same(h) PROVE UNCHANGED Table(n)!vars
  BY <1>1, <1>2, MappedFunctions DEF Table!vars, FilesOf, OpenPath, ReadPrqMeta, HasLine
<1>3. CASE LoadedOf(n)[h] = NULL
  BY <1>1, <1>2, <1>3 DEF CursorOf, RowOf
<1>4. CASE LoadedOf(n)[h] # NULL /\ RndInit(h)
  <2>1. CursorOf(n)'[h] = 0 /\ RowOf(n)'[h] = RowOf(n)[h]
    BY <1>1, <1>4 DEF RndInit, CursorOf, RowOf
  <2>2. Table(n)!Rewind(h)
    BY <1>1, <2>1, MappedFunctions DEF Table!Rewind, FilesOf, OpenPath, ReadPrqMeta, HasLine
  <2>3. QED
    BY <2>2 DEF Table!Next
<1>5. CASE LoadedOf(n)[h] # NULL /\ RndNext(h)
  <2>1. /\ LoadedOf(n)[h] = arrow_table[h] /\ current_row[h] < RowsOf[arrow_table[h]]
        /\ CursorOf(n)[h] = current_row[h]
    BY <1>5 DEF RndNext, LoadedOf, CursorOf
  <2>2. CursorOf(n)'[h] = current_row[h] + 1 /\ RowOf(n)'[h] = <<arrow_table[h], current_row[h]>>
    BY <1>1, <1>5, <2>1 DEF RndNext, FillRow, CursorOf, RowOf
  <2>3. CursorOf(n)' = [CursorOf(n) EXCEPT ![h] = @ + 1]
    <3>1. \A k \in Handlers :
            CursorOf(n)'[k] = IF k = h THEN CursorOf(n)[h] + 1 ELSE CursorOf(n)[k]
      BY <1>1, <2>1, <2>2
    <3>2. QED
      BY <3>1, MappedFunctions
  <2>4. RowOf(n)' = [RowOf(n) EXCEPT ![h] = <<arrow_table[h], current_row[h]>>]
    <3>1. \A k \in Handlers : RowOf(n)'[k] = IF k = h THEN <<arrow_table[h], current_row[h]>> ELSE RowOf(n)[k]
      BY <1>1, <2>2
    <3>2. QED
      BY <3>1, MappedFunctions
  <2>5. LoadedOf(n)' = LoadedOf(n)
    BY <1>1, MappedFunctions
  <2>6. Table(n)!NextRow(h)
    BY <1>1, <1>5, <2>1, <2>3, <2>4, <2>5 DEF Table!NextRow, FilesOf, OpenPath, ReadPrqMeta, HasLine
  <2>7. QED
    BY <2>6 DEF Table!Next
<1>6. CASE LoadedOf(n)[h] # NULL /\ RndPos(h)
  <2>1. PICK i \in 0 .. (total_rows[h] - 1) : FillRow(h, i)
    BY <1>6 DEF RndPos
  <2>2. LoadedOf(n)[h] = arrow_table[h] /\ total_rows[h] = RowsOf[arrow_table[h]]
    BY <1>6, <2>1 DEF LoadedOf
  <2>3. CursorOf(n)'[h] = CursorOf(n)[h] /\ RowOf(n)'[h] = <<arrow_table[h], i>>
    BY <1>1, <1>6, <2>1 DEF RndPos, FillRow, CursorOf, RowOf
  <2>4. CursorOf(n)' = CursorOf(n)
    BY <1>1, <2>3, MappedFunctions
  <2>5. RowOf(n)' = [RowOf(n) EXCEPT ![h] = <<arrow_table[h], i>>]
    <3>1. \A k \in Handlers : RowOf(n)'[k] = IF k = h THEN <<arrow_table[h], i>> ELSE RowOf(n)[k]
      BY <1>1, <2>3
    <3>2. QED
      BY <3>1, MappedFunctions
  <2>6. LoadedOf(n)' = LoadedOf(n)
    BY <1>1, MappedFunctions
  <2>7. Table(n)!Fetch(h)
    BY <1>1, <1>6, <2>1, <2>2, <2>4, <2>5, <2>6 DEF Table!Fetch, FilesOf, OpenPath, ReadPrqMeta, HasLine
  <2>8. QED
    BY <2>7 DEF Table!Next
<1>7. CASE LoadedOf(n)[h] # NULL /\ Info(h)
  BY <1>1, <1>2, <1>7 DEF Info, CursorOf, RowOf
<1>8. CASE LoadedOf(n)[h] # NULL /\ EndStatement(h)
  <2>1. CursorOf(n)'[h] = CursorOf(n)[h] /\ RowOf(n)'[h] = NULL
    BY <1>1, <1>8 DEF EndStatement, CursorOf, RowOf
  <2>2. Table(n)!Forget(h)
    BY <1>1, <2>1, MappedFunctions DEF Table!Forget, FilesOf, OpenPath, ReadPrqMeta, HasLine
  <2>3. QED
    BY <2>2 DEF Table!Next
<1>9. QED
  BY <1>3, <1>4, <1>5, <1>6, <1>7, <1>8

LEMMA TableNext ==
  ASSUME EngineIInv, EngineIInv', [EngineNext]_engineVars, NEW n \in Names
  PROVE  [Table(n)!Next]_(Table(n)!vars)
<1>1. CASE UNCHANGED <<handler, readVars>>
  BY <1>1, TableReplace DEF Table!Next
<1>2. CASE \E h \in Handlers : HandlerStep(h)
  BY <1>2, TableOpenSteps, TableReadSteps DEF HandlerStep
<1>3. CASE ServerCrash
  <2>1. Table(n)!DropAll
    BY <1>3 DEF ServerCrash, Crash, Table!DropAll, LoadedOf, CursorOf, RowOf, IsOpen, FilesOf, OpenPath, ReadPrqMeta, HasLine
  <2>2. QED
    BY <2>1 DEF Table!Next
<1>4. CASE \E m \in Names : RunDdl(m)
  BY <1>1, <1>4, DdlKeepsHandlers DEF RunDdl
<1>5. CASE \E m, k \in Names : Rename(m, k)
  BY <1>1, <1>5 DEF Rename, RenameTable
<1>6. CASE \E p \in Openable : ReplaceFile(p)
  BY <1>1, <1>6 DEF ReplaceFile, vars
<1>7. CASE UNCHANGED engineVars
  BY <1>1, <1>7 DEF engineVars, vars
<1>8. QED
  BY <1>2, <1>3, <1>4, <1>5, <1>6, <1>7 DEF EngineNext

\* Every table behaves as a TableSnapshot of the files its open() can find, for
\* any number of tables and handlers: DDL, crashes and the reads of other tables
\* never change rows a statement is reading.
THEOREM EngineImplements == EngineSpec => Refinement
<1>1. EngineInit => \A n \in Names : Table(n)!Init
  BY TableInit
<1>2. EngineIInv /\ EngineIInv' /\ [EngineNext]_engineVars
        => [\A n \in Names : [Table(n)!Next]_(Table(n)!vars)]_engineVars
  BY TableNext
<1>3. QED
  BY <1>1, <1>2, EngineInvariance, PTL DEF EngineSpec, Refinement
=============================================================================
