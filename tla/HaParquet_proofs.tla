--------------------------- MODULE HaParquet_proofs ---------------------------
(***************************************************************************)
(* Proofs about HaParquet, for any number of handlers, file versions, rows *)
(* and saved positions.                                                    *)
(***************************************************************************)
EXTENDS HaParquet, TLAPS

LEMMA InitType == Init => TypeOK
BY RowsAssumption, SentinelAssumption
   DEF Init, TypeOK, Locations, File, Position_

LEMMA OpenType ==
  ASSUME TypeOK, FileInv, NEW h \in Handlers,
         OpenCall(h) \/ LockShareData(h) \/ OpenStep(h) \/ Close(h)
  PROVE  TypeOK'
<1> USE RowsAssumption, SentinelAssumption
    DEF TypeOK, Locations, Opening, Opened, InGetShare, File, GoTo,
        shareVars, openVars, scanVars
<1>1. CASE OpenCall(h)         BY <1>1 DEF OpenCall
<1>2. CASE LockShareData(h)    BY <1>2 DEF LockShareData
<1>3. CASE CheckShare(h)       BY <1>3 DEF CheckShare
<1>4. CASE AllocShare(h)       BY <1>4 DEF AllocShare
<1>5. CASE AllocShareFails(h)  BY <1>5 DEF AllocShareFails
<1>6. CASE UnlockShareData(h)  BY <1>6 DEF UnlockShareData
<1>7. CASE OpenFile(h)         BY <1>7 DEF OpenFile
<1>8. CASE OpenFileFails(h)    BY <1>8 DEF OpenFileFails, FailOpen
<1>9. CASE ParseFile(h)        BY <1>9 DEF ParseFile
<1>10. CASE ParseFileFails(h)  BY <1>10 DEF ParseFileFails, FailOpen
<1>11. CASE ReadTable(h)       BY <1>11 DEF ReadTable, FileInv
<1>12. CASE ReadTableFails(h)  BY <1>12 DEF ReadTableFails, FailOpen
<1>13. CASE Close(h)           BY <1>13 DEF Close
<1>14. QED
  BY <1>1, <1>2, <1>3, <1>4, <1>5, <1>6, <1>7, <1>8, <1>9, <1>10, <1>11, <1>12, <1>13
     DEF OpenStep

LEMMA StmtType ==
  ASSUME TypeOK, FileInv, NEW h \in Handlers,
         StmtBegin(h) \/ ScanStep(h) \/ StmtEnd(h)
  PROVE  TypeOK'
<1> USE RowsAssumption, SentinelAssumption
    DEF TypeOK, Locations, Opening, Opened, InGetShare, File, GoTo,
        shareVars, openVars, scanVars
<1>1. CASE StmtBegin(h)        BY <1>1 DEF StmtBegin
<1>2. CASE StmtEnd(h)          BY <1>2 DEF StmtEnd
<1>3. CASE RndInit(h)          BY <1>3 DEF RndInit
<1>4. CASE RndNext(h)          BY <1>4 DEF RndNext, FillRow, FileInv
<1>5. CASE RndNextEof(h)       BY <1>5 DEF RndNextEof
<1>6. CASE Position(h)
  <2> DEFINE new == [ref |-> ref[h], row |-> buf[h][2], by |-> readBy[h]]
  <2>1. buf[h] \in Contents \X Nat
    BY <1>6 DEF Position
  <2>2. new \in Position_
    BY <2>1 DEF Position_
  <2>3. saved' = [saved EXCEPT ![h] = saved[h] \cup {new}]
    BY <1>6 DEF Position
  <2>4. saved' \in [Handlers -> SUBSET Position_]
    BY <2>2, <2>3
  <2>5. QED
    BY <1>6, <2>4 DEF Position
<1>7. CASE RndPos(h)
  <2>1. table[h] \in Contents
    BY <1>7 DEF RndPos, FileInv
  <2>2. PICK p \in saved[h] :
          IF p.ref \in 0 .. (totalRows[h] - 1)
            THEN FillRow(h, p.ref, "pos") ELSE UNCHANGED <<buf, readBy>>
    BY <1>7 DEF RndPos
  <2>3. /\ buf' \in [Handlers -> (Contents \X Nat) \cup {NULL}]
        /\ readBy' \in [Handlers -> {"next", "pos"}]
    <3>1. CASE p.ref \in 0 .. (totalRows[h] - 1)
      <4>1. <<table[h], p.ref>> \in Contents \X Nat
        BY <2>1, <3>1
      <4>2. FillRow(h, p.ref, "pos")
        BY <2>2, <3>1
      <4>3. QED
        BY <4>1, <4>2 DEF FillRow
    <3>2. CASE p.ref \notin 0 .. (totalRows[h] - 1)
      BY <2>2, <3>2
    <3>3. QED
      BY <3>1, <3>2
  <2>4. QED
    BY <1>7, <2>3 DEF RndPos
<1>8. CASE RndEnd(h)           BY <1>8 DEF RndEnd
<1>9. QED
  BY <1>1, <1>2, <1>3, <1>4, <1>5, <1>6, <1>7, <1>8 DEF ScanStep

(***************************************************************************)
(* get_share: mutual exclusion, and what it gives.                         *)
(***************************************************************************)
LEMMA OpenShare ==
  ASSUME TypeOK, ShareInv, NEW h \in Handlers,
         OpenCall(h) \/ LockShareData(h) \/ OpenStep(h) \/ Close(h)
  PROVE  ShareInv'
<1> USE SentinelAssumption
    DEF TypeOK, ShareInv, HasShare, Opened, InGetShare, GoTo, shareVars
<1>1. CASE OpenCall(h)         BY <1>1 DEF OpenCall
<1>2. CASE LockShareData(h)    BY <1>2 DEF LockShareData
<1>3. CASE CheckShare(h)       BY <1>3 DEF CheckShare
<1>4. CASE AllocShare(h)       BY <1>4 DEF AllocShare
<1>5. CASE AllocShareFails(h)  BY <1>5 DEF AllocShareFails
<1>6. CASE UnlockShareData(h)  BY <1>6 DEF UnlockShareData
<1>7. CASE OpenFile(h)         BY <1>7 DEF OpenFile
<1>8. CASE OpenFileFails(h)    BY <1>8 DEF OpenFileFails, FailOpen
<1>9. CASE ParseFile(h)        BY <1>9 DEF ParseFile
<1>10. CASE ParseFileFails(h)  BY <1>10 DEF ParseFileFails, FailOpen
<1>11. CASE ReadTable(h)       BY <1>11 DEF ReadTable
<1>12. CASE ReadTableFails(h)  BY <1>12 DEF ReadTableFails, FailOpen
<1>13. CASE Close(h)           BY <1>13 DEF Close
<1>14. QED
  BY <1>1, <1>2, <1>3, <1>4, <1>5, <1>6, <1>7, <1>8, <1>9, <1>10, <1>11, <1>12, <1>13
     DEF OpenStep

LEMMA StmtShare ==
  ASSUME TypeOK, ShareInv, NEW h \in Handlers,
         StmtBegin(h) \/ ScanStep(h) \/ StmtEnd(h)
  PROVE  ShareInv'
<1>1. UNCHANGED shareVars
  BY DEF StmtBegin, StmtEnd, ScanStep, RndInit, RndNext, RndNextEof, Position, RndPos, RndEnd
<1>2. \/ UNCHANGED pc
      \/ \E to \in Opened : pc[h] \in Opened /\ pc' = [pc EXCEPT ![h] = to]
  BY DEF StmtBegin, StmtEnd, ScanStep, RndInit, RndNext, RndNextEof, Position, RndPos, RndEnd,
         GoTo, Opened
<1>3. QED
  BY <1>1, <1>2 DEF TypeOK, ShareInv, HasShare, Opened, InGetShare, shareVars

(***************************************************************************)
(* The version of the file a handler has open or has read.                 *)
(***************************************************************************)
LEMMA OpenFileInv ==
  ASSUME TypeOK, FileInv, NEW h \in Handlers,
         OpenCall(h) \/ LockShareData(h) \/ OpenStep(h) \/ Close(h)
  PROVE  FileInv'
<1> USE SentinelAssumption
    DEF TypeOK, FileInv, File, Opened, GoTo, shareVars, openVars, scanVars
<1>1. CASE OpenCall(h)         BY <1>1 DEF OpenCall
<1>2. CASE LockShareData(h)    BY <1>2 DEF LockShareData
<1>3. CASE CheckShare(h)       BY <1>3 DEF CheckShare
<1>4. CASE AllocShare(h)       BY <1>4 DEF AllocShare
<1>5. CASE AllocShareFails(h)  BY <1>5 DEF AllocShareFails
<1>6. CASE UnlockShareData(h)  BY <1>6 DEF UnlockShareData
<1>7. CASE OpenFile(h)         BY <1>7 DEF OpenFile
<1>8. CASE OpenFileFails(h)    BY <1>8 DEF OpenFileFails, FailOpen
<1>9. CASE ParseFile(h)        BY <1>9 DEF ParseFile
<1>10. CASE ParseFileFails(h)  BY <1>10 DEF ParseFileFails, FailOpen
<1>11. CASE ReadTable(h)       BY <1>11 DEF ReadTable
<1>12. CASE ReadTableFails(h)  BY <1>12 DEF ReadTableFails, FailOpen
<1>13. CASE Close(h)           BY <1>13 DEF Close
<1>14. QED
  BY <1>1, <1>2, <1>3, <1>4, <1>5, <1>6, <1>7, <1>8, <1>9, <1>10, <1>11, <1>12, <1>13
     DEF OpenStep

LEMMA StmtFileInv ==
  ASSUME TypeOK, FileInv, NEW h \in Handlers,
         StmtBegin(h) \/ ScanStep(h) \/ StmtEnd(h)
  PROVE  FileInv'
<1>1. UNCHANGED openVars
  BY DEF StmtBegin, StmtEnd, ScanStep, RndInit, RndNext, RndNextEof, Position, RndPos, RndEnd
<1>2. /\ pc[h] \in Opened
      /\ UNCHANGED pc \/ \E to \in Opened : pc' = [pc EXCEPT ![h] = to]
  BY DEF StmtBegin, StmtEnd, ScanStep, RndInit, RndNext, RndNextEof, Position, RndPos, RndEnd,
         GoTo, Opened
<1>3. \A k \in Handlers \ {h} : currentRow'[k] = currentRow[k]
  BY DEF StmtBegin, StmtEnd, ScanStep, RndInit, RndNext, RndNextEof, Position, RndPos, RndEnd,
         TypeOK, scanVars
<1>4. QED
  BY <1>1, <1>2, <1>3 DEF TypeOK, FileInv, Opened, openVars

(***************************************************************************)
(* The scan.                                                               *)
(***************************************************************************)

\* What a step of one handler must keep of ScanInv: its own part.
LEMMA ScanInvOfOne ==
  ASSUME ScanInv, NEW h \in Handlers,
         \A k \in Handlers \ {h} :
           /\ pc'[k] = pc[k] /\ totalRows'[k] = totalRows[k] /\ table'[k] = table[k]
           /\ currentRow'[k] = currentRow[k] /\ ref'[k] = ref[k] /\ buf'[k] = buf[k]
           /\ readBy'[k] = readBy[k] /\ got'[k] = got[k] /\ eof'[k] = eof[k]
           /\ saved'[k] = saved[k],
         ScanInvOf(h)'
  PROVE  ScanInv'
<1> SUFFICES ASSUME NEW k \in Handlers PROVE ScanInvOf(k)'
  BY DEF ScanInv
<1>1. CASE k = h
  BY <1>1
<1>2. CASE k # h
  BY <1>2 DEF ScanInv, ScanInvOf
<1>3. QED
  BY <1>1, <1>2

\* A step of open() that fails or has not read the table yet.
LEMMA NotYetOpen ==
  ASSUME TypeOK, ScanInv, NEW h \in Handlers, pc[h] \notin Opened,
         NEW to \in Locations \ {"stmt", "scan"}, pc' = [pc EXCEPT ![h] = to],
         UNCHANGED <<table, totalRows, scanVars>>
  PROVE  ScanInv'
<1>1. ScanInvOf(h)
  BY DEF ScanInv
<1>2. pc'[h] = to /\ \A k \in Handlers \ {h} : pc'[k] = pc[k]
  BY DEF TypeOK
<1>3. ScanInvOf(h)'
  BY <1>1, <1>2 DEF ScanInvOf, Opened, scanVars
<1>4. QED
  BY <1>2, <1>3, ScanInvOfOne DEF scanVars

LEMMA OpenScanInv ==
  ASSUME TypeOK, FileInv, ScanInv, NEW h \in Handlers,
         OpenCall(h) \/ LockShareData(h) \/ OpenStep(h) \/ Close(h)
  PROVE  ScanInv'
<1>1. CASE OpenCall(h) \/ LockShareData(h) \/ CheckShare(h) \/ AllocShare(h)
           \/ AllocShareFails(h) \/ UnlockShareData(h)
  <2>1. /\ pc[h] \notin Opened
        /\ \E to \in Locations \ {"stmt", "scan"} : pc' = [pc EXCEPT ![h] = to]
    BY <1>1 DEF OpenCall, LockShareData, CheckShare, AllocShare, AllocShareFails,
                UnlockShareData, GoTo, Opened, Locations, Opening, InGetShare
  <2>2. UNCHANGED <<table, totalRows, scanVars>>
    BY <1>1 DEF OpenCall, LockShareData, CheckShare, AllocShare, AllocShareFails,
                UnlockShareData, openVars
  <2>3. QED
    BY <2>1, <2>2, NotYetOpen
<1>2. CASE OpenFile(h) \/ OpenFileFails(h) \/ ParseFile(h) \/ ParseFileFails(h)
           \/ ReadTableFails(h)
  <2>1. /\ pc[h] \notin Opened
        /\ \E to \in Locations \ {"stmt", "scan"} : pc' = [pc EXCEPT ![h] = to]
    BY <1>2 DEF OpenFile, OpenFileFails, ParseFile, ParseFileFails, ReadTableFails, FailOpen,
                GoTo, Opened, Locations, Opening
  <2>2. UNCHANGED <<table, totalRows, scanVars>>
    BY <1>2 DEF OpenFile, OpenFileFails, ParseFile, ParseFileFails, ReadTableFails, FailOpen,
                openVars
  <2>3. QED
    BY <2>1, <2>2, NotYetOpen
<1> USE SentinelAssumption
    DEF TypeOK, ScanInv, ScanInvOf, Opened, GoTo, shareVars, openVars, scanVars
<1>3. CASE ReadTable(h)
  <2>1. pc[h] \notin Opened /\ totalRows'[h] \in Nat /\ fd[h] \in Contents
    BY <1>3, RowsAssumption DEF ReadTable, FileInv
  <2>2. currentRow[h] = 0
    BY <2>1 DEF FileInv
  <2>3. ScanInvOf(h)'
    <3>1. buf[h] = NULL /\ saved[h] = {} /\ ~ eof[h] /\ got[h] = [i \in 1 .. 0 |-> i - 1]
      BY <2>1, <2>2
    <3>2. /\ pc'[h] = "idle" /\ currentRow'[h] = 0
          /\ UNCHANGED <<buf, saved, eof, got>>
      BY <1>3 DEF ReadTable
    <3>3. QED
      BY <2>1, <3>1, <3>2
  <2>4. QED
    BY <1>3, <2>3, ScanInvOfOne DEF ReadTable
<1>4. CASE Close(h)
  <2>1. ScanInvOf(h)'
    <3>1. /\ pc'[h] = "closed" /\ buf'[h] = NULL /\ saved'[h] = {}
          /\ currentRow'[h] = 0 /\ totalRows'[h] = 0 /\ got'[h] = <<>> /\ ~ eof'[h]
      <4>1. pc[h] = "idle" /\ buf[h] = NULL /\ saved[h] = {}
        BY <1>4 DEF Close
      <4>2. UNCHANGED <<buf, saved>>
        BY <1>4 DEF Close
      <4>3. QED
        BY <1>4, <4>1, <4>2 DEF Close
    <3>2. got'[h] = [i \in 1 .. 0 |-> i - 1]
      BY <3>1
    <3>3. QED
      BY <3>1, <3>2
  <2>2. QED
    BY <1>4, <2>1, ScanInvOfOne DEF Close
<1>5. QED
  BY <1>1, <1>2, <1>3, <1>4 DEF OpenStep

LEMMA StmtScanInv ==
  ASSUME TypeOK, FileInv, ScanInv, NEW h \in Handlers,
         StmtBegin(h) \/ ScanStep(h) \/ StmtEnd(h)
  PROVE  ScanInv'
<1> USE SentinelAssumption DEF TypeOK, Opened, GoTo, shareVars, openVars, scanVars
<1>0. ScanInvOf(h)
  BY DEF ScanInv
<1>1. CASE StmtBegin(h)
  <2>1. ScanInvOf(h)'
    BY <1>0, <1>1 DEF StmtBegin, ScanInvOf
  <2>2. QED
    BY <1>1, <2>1, ScanInvOfOne DEF StmtBegin
<1>2. CASE StmtEnd(h)
  <2>1. ScanInvOf(h)'
    BY <1>0, <1>2 DEF StmtEnd, ScanInvOf
  <2>2. QED
    BY <1>2, <2>1, ScanInvOfOne DEF StmtEnd
<1>3. CASE RndInit(h)
  <2>1. ScanInvOf(h)'
    <3>1. got'[h] = [i \in 1 .. 0 |-> i - 1]
      BY <1>3 DEF RndInit
    <3>2. QED
      BY <1>0, <1>3, <3>1 DEF RndInit, ScanInvOf
  <2>2. QED
    BY <1>3, <2>1, ScanInvOfOne DEF RndInit
<1>4. CASE RndNext(h)
  <2>1. ScanInvOf(h)'
    <3> DEFINE n == currentRow[h]
    <3>1. /\ n \in Nat /\ totalRows[h] \in Nat /\ n < totalRows[h]
          /\ buf'[h] = <<table[h], n>> /\ readBy'[h] = "next" /\ ref'[h] = n
          /\ currentRow'[h] = n + 1 /\ got'[h] = Append(got[h], n)
          /\ UNCHANGED <<pc, table, totalRows, eof, saved>>
      BY <1>4 DEF RndNext, FillRow
    <3>2. got'[h] = [i \in 1 .. (n + 1) |-> i - 1]
      BY <1>0, <3>1 DEF ScanInvOf
    <3>3. QED
      BY <1>0, <1>4, <3>1, <3>2 DEF RndNext, ScanInvOf
  <2>2. QED
    BY <1>4, <2>1, ScanInvOfOne DEF RndNext, FillRow
<1>5. CASE RndNextEof(h)
  <2>1. ScanInvOf(h)'
    BY <1>0, <1>5 DEF RndNextEof, ScanInvOf
  <2>2. QED
    BY <1>5, <2>1, ScanInvOfOne DEF RndNextEof
<1>6. CASE Position(h)
  <2>1. ScanInvOf(h)'
    BY <1>0, <1>6 DEF Position, ScanInvOf
  <2>2. QED
    BY <1>6, <2>1, ScanInvOfOne DEF Position
<1>7. CASE RndPos(h)
  <2>1. PICK p \in saved[h] :
          IF p.ref \in 0 .. (totalRows[h] - 1)
            THEN FillRow(h, p.ref, "pos") ELSE UNCHANGED <<buf, readBy>>
    BY <1>7 DEF RndPos
  <2>2. /\ buf'[h] = <<table[h], p.ref>> /\ readBy'[h] = "pos"
        /\ p.ref \in 0 .. (totalRows[h] - 1)
        /\ \A k \in Handlers \ {h} : buf'[k] = buf[k] /\ readBy'[k] = readBy[k]
    BY <1>0, <2>1 DEF ScanInvOf, FillRow
  <2>3. ScanInvOf(h)'
    BY <1>0, <1>7, <2>2 DEF RndPos, ScanInvOf
  <2>4. QED
    BY <1>7, <2>2, <2>3, ScanInvOfOne DEF RndPos
<1>8. CASE RndEnd(h)
  <2>1. ScanInvOf(h)'
    BY <1>0, <1>8 DEF RndEnd, ScanInvOf
  <2>2. QED
    BY <1>8, <2>1, ScanInvOfOne DEF RndEnd
<1>9. QED
  BY <1>1, <1>2, <1>3, <1>4, <1>5, <1>6, <1>7, <1>8 DEF ScanStep

(***************************************************************************)
(* The invariant, and the properties that follow from it.                  *)
(***************************************************************************)
LEMMA InitIInv == Init => IInv
<1> SUFFICES ASSUME Init PROVE IInv
  OBVIOUS
<1>1. TypeOK
  BY InitType
<1>2. ShareInv
  BY SentinelAssumption DEF Init, ShareInv, HasShare, Opened, InGetShare
<1>3. FileInv
  BY DEF Init, FileInv, Opened
<1>4. ScanInv
  BY DEF Init, ScanInv, ScanInvOf, Opened
<1>5. QED
  BY <1>1, <1>2, <1>3, <1>4 DEF IInv

LEMMA EnvironmentIInv ==
  ASSUME IInv, ReplaceFile \/ FreeTableShare
  PROVE  IInv'
<1> USE SentinelAssumption
    DEF IInv, TypeOK, ShareInv, FileInv, ScanInv, ScanInvOf, HasShare, Opened, InGetShare,
        shareVars, openVars, scanVars
<1>1. CASE ReplaceFile     BY <1>1 DEF ReplaceFile
<1>2. CASE FreeTableShare  BY <1>2 DEF FreeTableShare
<1>3. QED                  BY <1>1, <1>2

LEMMA NextIInv == IInv /\ [Next]_vars => IInv'
<1> SUFFICES ASSUME IInv, [Next]_vars PROVE IInv'
  OBVIOUS
<1>1. ASSUME NEW h \in Handlers,
             OpenCall(h) \/ LockShareData(h) \/ OpenStep(h) \/ Close(h)
      PROVE  IInv'
  BY <1>1, OpenType, OpenShare, OpenFileInv, OpenScanInv DEF IInv
<1>2. ASSUME NEW h \in Handlers, StmtBegin(h) \/ ScanStep(h) \/ StmtEnd(h)
      PROVE  IInv'
  BY <1>2, StmtType, StmtShare, StmtFileInv, StmtScanInv DEF IInv
<1>3. CASE ReplaceFile \/ FreeTableShare
  BY <1>3, EnvironmentIInv
<1>4. CASE UNCHANGED vars
  BY <1>4 DEF IInv, TypeOK, ShareInv, FileInv, ScanInv, ScanInvOf, vars,
              shareVars, openVars, scanVars
<1>5. QED
  BY <1>1, <1>2, <1>3, <1>4 DEF Next

THEOREM Invariance == Spec => []IInv
BY InitIInv, NextIInv, PTL DEF Spec

\* Every variable keeps its type, whatever the number of handlers and rows.
THEOREM TypeCorrect == Spec => []TypeOK
<1>1. IInv => TypeOK
  BY DEF IInv
<1>2. QED
  BY <1>1, Invariance, PTL

\* Any number of opens may race in get_share: they end up with one
\* Parquet_share, and none is leaked.
THEOREM ShareIsUnique == Spec => []OneShare
<1>1. IInv => OneShare
  BY DEF IInv, ShareInv, OneShare
<1>2. QED
  BY <1>1, Invariance, PTL

\* A scan that ends has returned every row of its version of the file once.
THEOREM ScansAreExact == Spec => []ScanExact
<1>1. IInv => ScanExact
  <2> SUFFICES ASSUME IInv, NEW h \in Handlers, pc[h] = "scan", eof[h]
               PROVE  got[h] = [i \in 1 .. Rows[table[h]] |-> i - 1]
    BY DEF ScanExact
  <2>1. currentRow[h] = Rows[table[h]]
    BY DEF IInv, FileInv, ScanInv, ScanInvOf, Opened
  <2>2. got[h] = [i \in 1 .. currentRow[h] |-> i - 1]
    BY DEF IInv, ScanInv, ScanInvOf
  <2>3. QED
    BY <2>1, <2>2
<1>2. QED
  BY <1>1, Invariance, PTL

\* A position saved after rnd_next leads rnd_pos back to its row.
THEOREM PositionsRoundTrip == Spec => []PositionRoundTrip
<1>1. IInv => PositionRoundTrip
  BY DEF IInv, ScanInv, ScanInvOf, PositionRoundTrip
<1>2. QED
  BY <1>1, Invariance, PTL

(***************************************************************************)
(* HaParquet implements TableSnapshot.                                     *)
(***************************************************************************)
LEMMA InitSnapshot == Init => Snapshot!Init
BY SentinelAssumption DEF Init, Snapshot!Init, Loaded, File

LEMMA OpenSnapshot ==
  ASSUME IInv, NEW h \in Handlers,
         OpenCall(h) \/ LockShareData(h) \/ OpenStep(h) \/ Close(h)
  PROVE  [Snapshot!Next]_Snapshot!vars
<1> USE SentinelAssumption
    DEF IInv, TypeOK, FileInv, File, Opened, GoTo, shareVars, openVars, scanVars
<1>1. ASSUME UNCHANGED <<file, fd, table, currentRow, buf>>
      PROVE  UNCHANGED Snapshot!vars
  BY <1>1 DEF Snapshot!vars, Loaded
<1>2. CASE OpenCall(h)         BY <1>1, <1>2 DEF OpenCall
<1>3. CASE LockShareData(h)    BY <1>1, <1>3 DEF LockShareData
<1>4. CASE CheckShare(h)       BY <1>1, <1>4 DEF CheckShare
<1>5. CASE AllocShare(h)       BY <1>1, <1>5 DEF AllocShare
<1>6. CASE AllocShareFails(h)  BY <1>1, <1>6 DEF AllocShareFails
<1>7. CASE UnlockShareData(h)  BY <1>1, <1>7 DEF UnlockShareData
<1>8. CASE ParseFile(h)        BY <1>1, <1>8 DEF ParseFile
<1>9. CASE OpenFile(h)
  <2>0. /\ Loaded(h) = NULL
        /\ \A k \in Handlers \ {h} : Loaded(k)' = Loaded(k)
        /\ UNCHANGED <<file, currentRow, buf>>
    BY <1>9 DEF OpenFile, Loaded
  <2>1. CASE file \in Contents
    <3>1. Loaded(h)' = file
      BY <1>9, <2>1 DEF OpenFile, Loaded
    <3>2. LET snap == [k \in Handlers |-> Loaded(k)] IN
            snap' = [snap EXCEPT ![h] = file]
      BY <2>0, <3>1
    <3>3. file \in {file} \cap Contents
      BY <2>1
    <3>4. Snapshot!Load(h)
      BY <2>0, <3>2, <3>3 DEF Snapshot!Load
    <3>5. QED
      BY <3>4 DEF Snapshot!Next
  <2>2. CASE file \notin Contents
    <3>1. Loaded(h)' = NULL
      BY <1>9, <2>2 DEF OpenFile, Loaded
    <3>2. QED
      BY <2>0, <3>1 DEF Snapshot!vars
  <2>3. QED
    BY <2>1, <2>2
<1>10. ASSUME NEW at \in {"open_file", "parse", "read_table"}, FailOpen(h, at)
       PROVE  [Snapshot!Next]_Snapshot!vars
  <2>1. /\ Loaded(h)' = NULL /\ currentRow[h] = 0
        /\ \A k \in Handlers \ {h} : Loaded(k)' = Loaded(k)
        /\ UNCHANGED <<file, currentRow, buf>>
    BY <1>10 DEF FailOpen, Loaded
  <2>2. LET snap == [k \in Handlers |-> Loaded(k)] IN
          snap' = [snap EXCEPT ![h] = NULL]
    BY <2>1
  <2>3. Snapshot!Drop(h)
    BY <2>1, <2>2 DEF Snapshot!Drop
  <2>4. QED
    BY <2>3 DEF Snapshot!Next
<1>11. CASE OpenFileFails(h)   BY <1>10, <1>11 DEF OpenFileFails
<1>12. CASE ParseFileFails(h)  BY <1>10, <1>12 DEF ParseFileFails
<1>13. CASE ReadTableFails(h)  BY <1>10, <1>13 DEF ReadTableFails
<1>14. CASE ReadTable(h)
  <2>1. Loaded(h)' = Loaded(h)
    BY <1>14 DEF ReadTable, Loaded
  <2>2. \A k \in Handlers \ {h} : Loaded(k)' = Loaded(k)
    BY <1>14 DEF ReadTable, Loaded
  <2>3. UNCHANGED <<file, currentRow, buf>>
    <3>1. currentRow[h] = 0 /\ currentRow' = [currentRow EXCEPT ![h] = 0]
      BY <1>14 DEF ReadTable
    <3>2. QED
      BY <1>14, <3>1 DEF ReadTable
  <2>4. QED
    BY <2>1, <2>2, <2>3 DEF Snapshot!vars
<1>15. CASE Close(h)
  <2>1. /\ Loaded(h)' = NULL
        /\ \A k \in Handlers \ {h} : Loaded(k)' = Loaded(k)
        /\ currentRow' = [currentRow EXCEPT ![h] = 0]
        /\ UNCHANGED <<file, buf>>
    BY <1>15 DEF Close, Loaded
  <2>2. LET snap == [k \in Handlers |-> Loaded(k)] IN
          snap' = [snap EXCEPT ![h] = NULL]
    BY <2>1
  <2>3. Snapshot!Drop(h)
    BY <2>1, <2>2 DEF Snapshot!Drop
  <2>4. QED
    BY <2>3 DEF Snapshot!Next
<1>16. QED
  BY <1>2, <1>3, <1>4, <1>5, <1>6, <1>7, <1>8, <1>9, <1>11, <1>12, <1>13, <1>14, <1>15
     DEF OpenStep

LEMMA StmtSnapshot ==
  ASSUME IInv, NEW h \in Handlers, StmtBegin(h) \/ ScanStep(h) \/ StmtEnd(h)
  PROVE  [Snapshot!Next]_Snapshot!vars
<1> USE SentinelAssumption
    DEF IInv, TypeOK, FileInv, Opened, GoTo, shareVars, openVars, scanVars, Loaded
<1>1. ASSUME UNCHANGED <<file, fd, table, currentRow, buf>>
      PROVE  UNCHANGED Snapshot!vars
  BY <1>1 DEF Snapshot!vars
<1>2. CASE StmtBegin(h)        BY <1>1, <1>2 DEF StmtBegin
<1>3. CASE RndNextEof(h)       BY <1>1, <1>3 DEF RndNextEof
<1>4. CASE Position(h)         BY <1>1, <1>4 DEF Position
<1>5. CASE RndEnd(h)           BY <1>1, <1>5 DEF RndEnd
<1>6. CASE StmtEnd(h)
  <2>1. Snapshot!Forget(h)
    BY <1>6 DEF StmtEnd, Snapshot!Forget
  <2>2. QED
    BY <2>1 DEF Snapshot!Next
<1>7. CASE RndInit(h)
  <2>1. Snapshot!Rewind(h)
    BY <1>7 DEF RndInit, Snapshot!Rewind
  <2>2. QED
    BY <2>1 DEF Snapshot!Next
<1>8. CASE RndNext(h)
  <2>1. Loaded(h) = table[h] /\ table[h] \in Contents /\ totalRows[h] = Rows[table[h]]
    BY <1>8 DEF RndNext
  <2>2. Snapshot!NextRow(h)
    BY <1>8, <2>1 DEF RndNext, FillRow, Snapshot!NextRow
  <2>3. QED
    BY <2>2 DEF Snapshot!Next
<1>9. CASE RndPos(h)
  <2>1. Loaded(h) = table[h] /\ table[h] \in Contents /\ totalRows[h] = Rows[table[h]]
    BY <1>9 DEF RndPos
  <2>2. PICK p \in saved[h] :
          IF p.ref \in 0 .. (totalRows[h] - 1)
            THEN FillRow(h, p.ref, "pos") ELSE UNCHANGED <<buf, readBy>>
    BY <1>9 DEF RndPos
  <2>3. CASE p.ref \in 0 .. (totalRows[h] - 1)
    <3>1. Snapshot!Fetch(h)
      BY <1>9, <2>1, <2>2, <2>3 DEF RndPos, FillRow, Snapshot!Fetch
    <3>2. QED
      BY <3>1 DEF Snapshot!Next
  <2>4. CASE p.ref \notin 0 .. (totalRows[h] - 1)
    BY <1>1, <1>9, <2>2, <2>4 DEF RndPos
  <2>5. QED
    BY <2>3, <2>4
<1>10. QED
  BY <1>2, <1>3, <1>4, <1>5, <1>6, <1>7, <1>8, <1>9 DEF ScanStep

LEMMA NextSnapshot == IInv /\ [Next]_vars => [Snapshot!Next]_Snapshot!vars
<1> SUFFICES ASSUME IInv, [Next]_vars PROVE [Snapshot!Next]_Snapshot!vars
  OBVIOUS
<1>1. CASE ReplaceFile
  <2>1. Snapshot!Replace
    BY <1>1 DEF ReplaceFile, Snapshot!Replace, Loaded, openVars, scanVars
  <2>2. QED
    BY <2>1 DEF Snapshot!Next
<1>2. CASE FreeTableShare
  BY <1>2 DEF FreeTableShare, Snapshot!vars, Loaded, openVars, scanVars
<1>3. CASE UNCHANGED vars
  BY <1>3 DEF vars, Snapshot!vars, Loaded, openVars, scanVars
<1>4. QED
  BY <1>1, <1>2, <1>3, OpenSnapshot, StmtSnapshot DEF Next

\* Each handler reads one version of the file, the one that was current at a
\* moment during its open, row by row, while the file is replaced and other
\* handlers are opened and closed.
THEOREM Implements == Spec => Refinement
BY InitSnapshot, NextSnapshot, Invariance, PTL DEF Spec, Refinement, Snapshot!Spec
====
