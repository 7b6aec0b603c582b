------------------------- MODULE ParquetSidecar_proofs -------------------------
(***************************************************************************)
(* Proofs about ParquetSidecar, for any set of tables, handlers and        *)
(* COMMENT strings, with and without failing disks and crashes.            *)
(***************************************************************************)
EXTENDS ParquetSidecar, TLAPS

\* A path read back from a sidecar, or fallen back to, is one open() can use.
LEMMA OpenPathType ==
  ASSUME TypeOK, NEW n \in Names, NEW ok \in ReadPrqMeta(n)
  PROVE  OpenPath(n, ok) \in {FirstLine[p] : p \in Paths}
<1>1. Default[n] \in Paths /\ FirstLine[Default[n]] = Default[n]
  BY PathsAssumption DEF Paths
<1>2. CASE ~ ok
  BY <1>1, <1>2 DEF OpenPath
<1>3. CASE ok
  <2>1. sidecar[n] \in Paths
    BY <1>3 DEF ReadPrqMeta, HasLine, TypeOK
  <2>2. QED
    BY <1>3, <2>1 DEF OpenPath
<1>4. QED
  BY <1>2, <1>3

LEMMA ParquetPathType ==
  ASSUME NEW n \in Names, NEW c \in Comments \cup {NoComment}
  PROVE  ParquetPath(n, c) \in Paths
BY DEF ParquetPath, Paths

LEMMA InitIInv == Init => IInv
BY DEF Init, IInv, TypeOK, DdlInv, MadeInv, HandlerInv, IsOpen

\* What a DDL step on table n has to show: its own part of the invariant, and
\* that it touches nothing an open handler looks at.
LEMMA DdlStep ==
  ASSUME IInv, NEW n \in Names, ddl[n] # Idle \/ OpenOn(n) = {},
         TypeOK', DdlInv(n)', MadeInv(n)', UNCHANGED handler,
         \A m \in Names \ {n} :
           /\ def'[m] = def[m] /\ sidecar'[m] = sidecar[m] /\ ddl'[m] = ddl[m]
           /\ m \in made' <=> m \in made
  PROVE  IInv'
<1>1. ASSUME NEW m \in Names PROVE DdlInv(m)' /\ MadeInv(m)'
  <2>1. CASE m = n
    BY <2>1
  <2>2. CASE m # n
    BY <2>2 DEF IInv, DdlInv, MadeInv, Exists
  <2>3. QED
    BY <2>1, <2>2
<1>2. ASSUME NEW h \in Handlers PROVE HandlerInv(h)'
  <2> SUFFICES ASSUME IsOpen(h) PROVE HandlerInv(h)'
    BY DEF HandlerInv, IsOpen
  <2>1. handler[h] \in Opening
    BY DEF IInv, TypeOK, IsOpen
  <2>2. handler[h].name \in Names \ {n}
    BY <2>1 DEF IInv, HandlerInv, OpenOn, Opening
  <2>3. QED
    BY <2>2 DEF IInv, HandlerInv, IsOpen, Exists, OpenPath, ReadPrqMeta, HasLine
<1>3. QED
  BY <1>1, <1>2 DEF IInv

LEMMA BeginIInv ==
  ASSUME IInv, NEW n \in Names, BeginCreate(n) \/ BeginTruncate(n) \/ BeginDrop(n)
  PROVE  IInv'
<1>1. PICK s \in Statement :
        /\ ddl' = [ddl EXCEPT ![n] = s]
        /\ s.op = "create" <=> ~ Exists(n)
        /\ s.op = "truncate" => s.comment = def[n]
        /\ s.op = "drop" <=> s.next \in {"remove", "forget"}
  <2>1. CASE BeginCreate(n)
    <3>1. PICK com \in Comments \cup {NoComment} :
            ddl' = [ddl EXCEPT ![n] = [op |-> "create", comment |-> com, next |-> "fopen"]]
      BY <2>1 DEF BeginCreate
    <3>2. [op |-> "create", comment |-> com, next |-> "fopen"] \in Statement
      BY DEF Statement
    <3>3. ~ Exists(n)
      BY <2>1 DEF BeginCreate
    <3>4. QED
      BY <3>1, <3>2, <3>3
  <2>2. CASE BeginTruncate(n)
    <3>1. [op |-> "truncate", comment |-> def[n], next |-> "fopen"] \in Statement
      BY <2>2 DEF BeginTruncate, Exists, IInv, TypeOK, Statement
    <3>2. QED
      BY <2>2, <3>1 DEF BeginTruncate
  <2>3. CASE BeginDrop(n)
    <3>1. [op |-> "drop", comment |-> def[n], next |-> "remove"] \in Statement
      BY <2>3 DEF BeginDrop, Exists, IInv, TypeOK, Statement
    <3>2. QED
      BY <2>3, <3>1 DEF BeginDrop
  <2>4. QED
    BY <2>1, <2>2, <2>3
<1>2. UNCHANGED <<def, sidecar, handler, made>> /\ OpenOn(n) = {}
  BY DEF BeginCreate, BeginTruncate, BeginDrop, CanAlter
<1>3. DdlInv(n)' /\ MadeInv(n)'
  BY <1>1, <1>2 DEF DdlInv, MadeInv, IInv, TypeOK, Exists
<1>4. TypeOK'
  BY <1>1, <1>2 DEF IInv, TypeOK
<1>5. QED
  BY <1>1, <1>2, <1>3, <1>4, DdlStep DEF IInv, TypeOK

\* The statement of a DDL call in progress, field by field.
LEMMA AtStatement ==
  ASSUME IInv, NEW n \in Names, ddl[n] # Idle
  PROVE  /\ ddl[n] \in Statement
         /\ ddl[n].comment \in Comments \cup {NoComment}
         /\ ddl[n].comment # NoTable
         /\ DdlInv(n) /\ MadeInv(n)
BY SentinelAssumption DEF IInv, TypeOK, Statement

\* The calls of create() after which it still runs: only the sidecar and the
\* statement's next call change.
LEMMA AdvanceType ==
  ASSUME IInv, NEW n \in Names, ddl[n] # Idle, NEW call \in {"fprintf", "forget"},
         ddl' = [ddl EXCEPT ![n].next = call]
  PROVE  /\ ddl' \in [Names -> Statement \cup {Idle}]
         /\ ddl'[n].op = ddl[n].op /\ ddl'[n].comment = ddl[n].comment
         /\ ddl'[n].next = call
         /\ \A m \in Names \ {n} : ddl'[m] = ddl[m]
<1>1. ddl[n] \in Statement /\ ddl \in [Names -> Statement \cup {Idle}]
  BY AtStatement DEF IInv, TypeOK
<1>2. [ddl[n] EXCEPT !.next = call] \in Statement
  BY <1>1 DEF Statement
<1>3. ddl' = [ddl EXCEPT ![n] = [ddl[n] EXCEPT !.next = call]]
  BY <1>1
<1>4. QED
  BY <1>1, <1>2, <1>3 DEF Statement

LEMMA OpenSidecarIInv ==
  ASSUME IInv, NEW n \in Names, OpenSidecar(n)
  PROVE  IInv'
<1>1. ddl[n] # Idle /\ ddl[n].next = "fopen"
  BY DEF OpenSidecar, At
<1>2. /\ ddl' \in [Names -> Statement \cup {Idle}]
      /\ ddl'[n].op = ddl[n].op /\ ddl'[n].comment = ddl[n].comment
      /\ ddl'[n].next = "fprintf"
      /\ \A m \in Names \ {n} : ddl'[m] = ddl[m]
  BY <1>1, AdvanceType DEF OpenSidecar
<1>3. TypeOK'
  BY <1>2 DEF OpenSidecar, IInv, TypeOK
<1>4. DdlInv(n)' /\ MadeInv(n)'
  BY <1>1, <1>2, AtStatement DEF OpenSidecar, IInv, TypeOK, DdlInv, MadeInv, Exists
<1>5. QED
  BY <1>1, <1>2, <1>3, <1>4, DdlStep DEF OpenSidecar, IInv, TypeOK

LEMMA OpenSidecarFailsIInv ==
  ASSUME IInv, NEW n \in Names, OpenSidecarFails(n)
  PROVE  IInv'
<1>1. ddl[n] # Idle /\ ddl' = [ddl EXCEPT ![n] = Idle]
  BY DEF OpenSidecarFails, At
<1>2. TypeOK'
  BY <1>1 DEF OpenSidecarFails, IInv, TypeOK
<1>3. DdlInv(n)' /\ MadeInv(n)'
  BY <1>1, AtStatement DEF OpenSidecarFails, IInv, TypeOK, DdlInv, MadeInv, Exists
<1>4. QED
  BY <1>1, <1>2, <1>3, DdlStep DEF OpenSidecarFails, IInv, TypeOK

\* create() returns 0 with its own path or a damaged one in the sidecar.
LEMMA CreatedIInv ==
  ASSUME IInv, NEW n \in Names, ddl[n] # Idle, Created(n),
         NEW left \in {Empty, Torn, ParquetPath(n, ddl[n].comment)},
         sidecar' = [sidecar EXCEPT ![n] = left]
  PROVE  IInv'
<1>1. ParquetPath(n, ddl[n].comment) \in Paths /\ Torn \in Paths
  BY AtStatement, ParquetPathType DEF Paths
<1>2. TypeOK'
  BY <1>1, AtStatement DEF Created, IInv, TypeOK
<1>3. def'[n] = ddl[n].comment /\ sidecar'[n] = left /\ ddl'[n] = Idle
  BY DEF Created, IInv, TypeOK
<1>4. DdlInv(n)' /\ MadeInv(n)'
  BY <1>3, AtStatement DEF DdlInv, MadeInv, Exists, ParquetPath
<1>5. \A m \in Names \ {n} :
        /\ def'[m] = def[m] /\ sidecar'[m] = sidecar[m] /\ ddl'[m] = ddl[m]
        /\ m \in made' <=> m \in made
  BY DEF Created, IInv, TypeOK
<1>6. QED
  BY <1>2, <1>4, <1>5, DdlStep DEF Created

LEMMA WriteIInv ==
  ASSUME IInv, NEW n \in Names, WriteSidecar(n) \/ WriteSidecarFails(n)
  PROVE  IInv'
<1>1. ddl[n] # Idle /\ Created(n)
  BY DEF WriteSidecar, WriteSidecarFails, At
<1>2. PICK left \in {Empty, Torn, ParquetPath(n, ddl[n].comment)} :
        sidecar' = [sidecar EXCEPT ![n] = left]
  BY DEF WriteSidecar, WriteSidecarFails
<1>3. QED
  BY <1>1, <1>2, CreatedIInv

LEMMA DeleteTableIInv ==
  ASSUME IInv, NEW n \in Names, DeleteTable(n)
  PROVE  IInv'
<1>1. ddl[n] # Idle /\ ddl[n].next = "remove"
  BY DEF DeleteTable, At
<1>2. /\ ddl' \in [Names -> Statement \cup {Idle}]
      /\ ddl'[n].op = ddl[n].op /\ ddl'[n].comment = ddl[n].comment
      /\ ddl'[n].next = "forget"
      /\ \A m \in Names \ {n} : ddl'[m] = ddl[m]
  BY <1>1, AdvanceType DEF DeleteTable
<1>3. /\ sidecar' \in [Names -> Paths \cup {Missing, Empty}]
      /\ sidecar'[n] \in {Missing, sidecar[n]}
      /\ \A m \in Names \ {n} : sidecar'[m] = sidecar[m]
  BY DEF DeleteTable, IInv, TypeOK
<1>4. TypeOK'
  BY <1>2, <1>3 DEF DeleteTable, IInv, TypeOK
<1>5. DdlInv(n)' /\ MadeInv(n)'
  BY <1>1, <1>2, <1>3, AtStatement DEF DeleteTable, DdlInv, MadeInv, Exists
<1>6. QED
  BY <1>1, <1>2, <1>3, <1>4, <1>5, DdlStep DEF DeleteTable

LEMMA ForgetTableIInv ==
  ASSUME IInv, NEW n \in Names, ForgetTable(n)
  PROVE  IInv'
<1>1. ddl[n] # Idle
  BY DEF ForgetTable, At
<1>2. TypeOK'
  BY DEF ForgetTable, IInv, TypeOK
<1>3. ddl'[n] = Idle /\ n \notin made'
  BY DEF ForgetTable, IInv, TypeOK
<1>4. DdlInv(n)' /\ MadeInv(n)'
  BY <1>3 DEF DdlInv, MadeInv
<1>5. QED
  BY <1>1, <1>2, <1>4, DdlStep DEF ForgetTable, IInv, TypeOK

LEMMA RenameTableIInv ==
  ASSUME IInv, NEW n \in Names, NEW m \in Names, RenameTable(n, m)
  PROVE  IInv'
<1>1. n # m /\ ddl[n] = Idle /\ ddl[m] = Idle /\ OpenOn(n) = {} /\ OpenOn(m) = {}
  BY DEF RenameTable, CanAlter
<1>2. /\ def' \in [Names -> Comments \cup {NoComment, NoTable}]
      /\ \A k \in Names \ {n, m} : def'[k] = def[k]
  BY DEF RenameTable, IInv, TypeOK
<1>3. TypeOK'
  BY <1>2 DEF RenameTable, IInv, TypeOK
<1>4. m \notin made
  BY DEF RenameTable, IInv, MadeInv
<1>5. ASSUME NEW k \in Names PROVE DdlInv(k)' /\ MadeInv(k)'
  <2>1. CASE k \in {n, m}
    BY <1>1, <1>4, <2>1 DEF RenameTable, DdlInv, MadeInv
  <2>2. CASE k \notin {n, m}
    BY <1>2, <2>2 DEF RenameTable, IInv, DdlInv, MadeInv, Exists
  <2>3. QED
    BY <2>1, <2>2
<1>6. ASSUME NEW h \in Handlers PROVE HandlerInv(h)'
  <2> SUFFICES ASSUME IsOpen(h) PROVE HandlerInv(h)'
    BY DEF RenameTable, HandlerInv, IsOpen
  <2>1. handler[h].name \in Names \ {n, m}
    BY <1>1 DEF IInv, TypeOK, IsOpen, OpenOn, Opening
  <2>2. QED
    BY <1>2, <2>1 DEF RenameTable, IInv, HandlerInv, IsOpen, Exists, OpenPath, ReadPrqMeta, HasLine
<1>7. QED
  BY <1>3, <1>5, <1>6 DEF IInv

LEMMA OpenIInv ==
  ASSUME IInv, NEW h \in Handlers, NEW n \in Names, Open(h, n)
  PROVE  IInv'
<1>0. PICK ok \in ReadPrqMeta(n) :
        handler' = [handler EXCEPT ![h] = [name |-> n, read |-> ok, path |-> OpenPath(n, ok)]]
  BY DEF Open
<1> DEFINE o == [name |-> n, read |-> ok, path |-> OpenPath(n, ok)]
<1>1. o \in Opening
  BY OpenPathType DEF IInv, Opening, ReadPrqMeta
<1>2. handler' = [handler EXCEPT ![h] = o] /\ UNCHANGED <<def, sidecar, ddl, made>>
  BY <1>0 DEF Open
<1>3. TypeOK'
  BY <1>1, <1>2 DEF IInv, TypeOK
<1>4. ASSUME NEW k \in Handlers PROVE HandlerInv(k)'
  <2>1. CASE k = h
    <3>1. handler'[h] = o /\ o.name = n /\ o.read = ok /\ o.path = OpenPath(n, ok)
      BY <1>2 DEF IInv, TypeOK
    <3>2. QED
      BY <1>2, <2>1, <3>1 DEF Open, HandlerInv, Exists, OpenPath, ReadPrqMeta, HasLine
  <2>2. CASE k # h
    BY <1>2, <2>2 DEF IInv, TypeOK, HandlerInv, IsOpen, Exists, OpenPath, ReadPrqMeta, HasLine
  <2>3. QED
    BY <2>1, <2>2
<1>5. \A k \in Names : DdlInv(k)' /\ MadeInv(k)'
  BY <1>2 DEF IInv, DdlInv, MadeInv, Exists
<1>6. QED
  BY <1>3, <1>4, <1>5 DEF IInv

LEMMA CloseIInv ==
  ASSUME IInv, NEW h \in Handlers, Close(h)
  PROVE  IInv'
<1>1. handler' = [handler EXCEPT ![h] = Closed] /\ UNCHANGED <<def, sidecar, ddl, made>>
  BY DEF Close
<1>2. TypeOK'
  BY <1>1 DEF IInv, TypeOK
<1>3. \A k \in Handlers : HandlerInv(k)'
  BY <1>1 DEF IInv, TypeOK, HandlerInv, IsOpen, Exists, OpenPath, ReadPrqMeta, HasLine
<1>4. \A k \in Names : DdlInv(k)' /\ MadeInv(k)'
  BY <1>1 DEF IInv, DdlInv, MadeInv, Exists
<1>5. QED
  BY <1>2, <1>3, <1>4 DEF IInv

LEMMA CrashIInv ==
  ASSUME IInv, Crash
  PROVE  IInv'
<1>1. PICK kept \in SUBSET {n \in Names : ddl[n] # Idle /\ ddl[n].op = "create"} :
        def' = [n \in Names |-> IF n \in kept THEN ddl[n].comment ELSE def[n]]
  BY DEF Crash
<1>2. \A n \in kept : n \in Names /\ ddl[n] # Idle /\ ~ Exists(n) /\ n \notin made
  BY <1>1 DEF IInv, DdlInv, MadeInv
<1>3. \A n \in kept : ddl[n].comment \in Comments \cup {NoComment}
  BY <1>2, AtStatement
<1>4. TypeOK'
  BY <1>1, <1>3 DEF Crash, IInv, TypeOK
<1>5. ASSUME NEW n \in Names PROVE DdlInv(n)' /\ MadeInv(n)'
  <2>1. ddl'[n] = Idle
    BY DEF Crash
  <2>2. n \in made => def'[n] = def[n]
    BY <1>1, <1>2
  <2>3. QED
    BY <2>1, <2>2 DEF Crash, IInv, DdlInv, MadeInv, Exists
<1>6. \A h \in Handlers : HandlerInv(h)'
  BY DEF Crash, HandlerInv, IsOpen
<1>7. QED
  BY <1>4, <1>5, <1>6 DEF IInv

\* Whatever DDL, opens, failures and crashes do to the tables, sidecar and
\* definition of a table that a create() made stay in step.
THEOREM Invariance == Spec => []IInv
<1>1. IInv /\ [Next]_vars => IInv'
  <2> SUFFICES ASSUME IInv, [Next]_vars PROVE IInv'
    OBVIOUS
  <2>1. CASE \E n \in Names : Ddl(n)
    <3> PICK n \in Names : Ddl(n)
      BY <2>1
    <3> QED
      BY BeginIInv, OpenSidecarIInv, OpenSidecarFailsIInv, WriteIInv,
         DeleteTableIInv, ForgetTableIInv DEF Ddl
  <2>2. CASE \E n, m \in Names : RenameTable(n, m)
    BY <2>2, RenameTableIInv
  <2>3. CASE \E h \in Handlers : Close(h) \/ (\E n \in Names : Open(h, n))
    BY <2>3, CloseIInv, OpenIInv
  <2>4. CASE Crash
    BY <2>4, CrashIInv
  <2>5. CASE UNCHANGED vars
    BY <2>5 DEF vars, IInv, TypeOK, DdlInv, MadeInv, HandlerInv, IsOpen, Exists, OpenPath, ReadPrqMeta, HasLine
  <2>6. QED
    BY <2>1, <2>2, <2>3, <2>4, <2>5 DEF Next
<1>2. QED
  BY InitIInv, <1>1, PTL DEF Spec

\* The sidecar, the definitions and the handlers keep their types.
THEOREM TypeCorrect == Spec => []TypeOK
<1>1. IInv => TypeOK
  BY DEF IInv
<1>2. QED
  BY <1>1, Invariance, PTL

\* A created table is opened on the path of its present definition, on
\* <name>.parquet when open() could not read its sidecar, or on what a failed
\* write left in it: never on the path of an earlier table of its name.
THEOREM OwnPath == Spec => []OpensOwnPath
<1>1. IInv => OpensOwnPath
  <2> SUFFICES ASSUME IInv, NEW h \in Handlers, IsOpen(h), handler[h].name \in made
               PROVE  LET n == handler[h].name IN
                        \/ handler[h].path = FirstLine[ParquetPath(n, def[n])]
                        \/ ~ handler[h].read /\ handler[h].path = Default[n]
                        \/ sidecar[n] = Torn /\ handler[h].path = Torn
    BY DEF OpensOwnPath
  <2>1. handler[h].name \in Names
    BY DEF IInv, TypeOK
  <2>2. /\ handler[h].read \in ReadPrqMeta(handler[h].name)
        /\ handler[h].path = OpenPath(handler[h].name, handler[h].read)
        /\ MadeInv(handler[h].name)
    BY <2>1 DEF IInv, HandlerInv
  <2>3. CASE ~ handler[h].read
    BY <2>2, <2>3 DEF OpenPath
  <2>4. CASE handler[h].read
    <3>1. sidecar[handler[h].name] \in {Torn, ParquetPath(handler[h].name, def[handler[h].name])}
      BY <2>1, <2>2, <2>4 DEF MadeInv, ReadPrqMeta, HasLine
    <3>2. QED
      BY <2>2, <2>4, <3>1, PathsAssumption DEF OpenPath
  <2>5. QED
    BY <2>3, <2>4
<1>2. QED
  BY <1>1, Invariance, PTL
=============================================================================
