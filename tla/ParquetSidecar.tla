---------------------------- MODULE ParquetSidecar ----------------------------
(***************************************************************************)
(* Which parquet file a READ_PARQUET table stands for.  create() writes    *)
(* the path into the sidecar <table>.prq, open() reads it back and falls   *)
(* back to <table>.parquet when it cannot, delete_table() removes it; the  *)
(* sidecar is the only state of the engine that outlives the server.       *)
(*                                                                         *)
(* DDL statements on a table run alone (the server's exclusive metadata    *)
(* lock, after it has closed the table's handlers), on different tables    *)
(* concurrently.  A file operation may fail and the process may be killed  *)
(* between any two of them.  The table definition (COMMENT included) is    *)
(* the server's and survives on its own.                                   *)
(***************************************************************************)
EXTENDS Naturals, FiniteSets

CONSTANTS
  Names,        \* table paths
  Handlers,     \* handlers that may have a table open
  Comments,     \* COMMENT strings users give, each the path of a file
  Default,      \* Default[n]: the path <n>.parquet
  FirstLine,    \* FirstLine[p]: the bytes of p up to its first newline
  Torn,         \* a proper prefix of a path, left by a short write
  NoComment,    \* CREATE TABLE without COMMENT
  NoTable,      \* the name is not in use
  Missing,      \* there is no sidecar
  Empty,        \* the sidecar has no bytes
  Idle,         \* no DDL runs on the table
  Closed,       \* the handler is not open
  DiskFails,    \* may a file operation fail?
  Crashes       \* may the server process be killed?

Paths == Comments \cup {Default[n] : n \in Names} \cup {Torn}

\* A DDL statement: what it does, the definition it is given, and the engine
\* call it makes next.
Statement == [op : {"create", "truncate", "drop"},
              comment : Comments \cup {NoComment},
              next : {"fopen", "fprintf", "remove", "forget"}]

\* What open() leaves: the table, what read_prq_meta returned (a history of the
\* call) and the path open() settled on.
Opening == [name : Names, read : BOOLEAN, path : {FirstLine[p] : p \in Paths}]

ASSUME PathsAssumption ==
  /\ FirstLine \in [Paths -> Paths \cup {FirstLine[c] : c \in Comments}]
  /\ \A n \in Names : FirstLine[Default[n]] = Default[n]
  /\ FirstLine[Torn] = Torn
ASSUME SwitchAssumption == DiskFails \in BOOLEAN /\ Crashes \in BOOLEAN
ASSUME SentinelAssumption ==
  /\ NoTable \notin Comments \cup {NoComment}
  /\ Idle \notin Statement
  /\ Closed \notin Opening

VARIABLES
  def,          \* the server's definition of each name: its COMMENT, or NoTable
  sidecar,      \* what <name>.prq holds
  ddl,          \* the DDL statement running on each name
  handler,      \* the table and the path each handler was opened with
  made          \* history: names whose table a create() made that returned 0

vars == <<def, sidecar, ddl, handler, made>>

TypeOK ==
  /\ def \in [Names -> Comments \cup {NoComment, NoTable}]
  /\ sidecar \in [Names -> Paths \cup {Missing, Empty}]
  /\ ddl \in [Names -> Statement \cup {Idle}]
  /\ handler \in [Handlers -> Opening \cup {Closed}]
  /\ made \in SUBSET Names

Init ==
  /\ def = [n \in Names |-> NoTable]
  /\ sidecar = [n \in Names |-> Missing]
  /\ ddl = [n \in Names |-> Idle]
  /\ handler = [h \in Handlers |-> Closed]
  /\ made = {}

Exists(n)   == def[n] # NoTable
IsOpen(h)   == handler[h] # Closed
OpenOn(n)   == {h \in Handlers : IsOpen(h) /\ handler[h].name = n}

\* The table has no other DDL running and no open handler.
CanAlter(n) == ddl[n] = Idle /\ OpenOn(n) = {}

\* The path create() settles on.
ParquetPath(n, c) == IF c = NoComment THEN Default[n] ELSE c

\* What read_prq_meta may return: TRUE with the first line of the sidecar, FALSE
\* when there is none, and FALSE too when fopen or fgets fails on an intact one.
HasLine(n) == sidecar[n] \notin {Missing, Empty}
ReadPrqMeta(n) == {ok \in BOOLEAN : IF ok THEN HasLine(n) ELSE ~ HasLine(n) \/ DiskFails}

\* The path open() settles on: <name>.parquet whenever the read did not succeed.
OpenPath(n, ok) == IF ok THEN FirstLine[sidecar[n]] ELSE Default[n]

(***************************************************************************)
(* CREATE TABLE, and TRUNCATE TABLE, which the server turns into create()  *)
(* with the same definition because of HTON_CAN_RECREATE.                  *)
(***************************************************************************)
BeginCreate(n) ==
  /\ ~ Exists(n) /\ CanAlter(n)
  /\ \E c \in Comments \cup {NoComment} :
       ddl' = [ddl EXCEPT ![n] = [op |-> "create", comment |-> c, next |-> "fopen"]]
  /\ UNCHANGED <<def, sidecar, handler, made>>

BeginTruncate(n) ==
  /\ Exists(n) /\ CanAlter(n)
  /\ ddl' = [ddl EXCEPT ![n] = [op |-> "truncate", comment |-> def[n], next |-> "fopen"]]
  /\ UNCHANGED <<def, sidecar, handler, made>>

At(n, call) == ddl[n] # Idle /\ ddl[n].next = call

\* create() has returned 0: a new table is in the server's dictionary.
Created(n) ==
  /\ ddl' = [ddl EXCEPT ![n] = Idle]
  /\ def' = [def EXCEPT ![n] = ddl[n].comment]
  /\ made' = made \cup {n}
  /\ UNCHANGED handler

\* Mutant: a sidecar that is already there is kept.
OpenSidecarUnlessThere(n) ==
  /\ At(n, "fopen")
  /\ IF sidecar[n] = Missing
       THEN /\ sidecar' = [sidecar EXCEPT ![n] = Empty]
            /\ ddl' = [ddl EXCEPT ![n].next = "fprintf"]
            /\ UNCHANGED <<def, handler, made>>
       ELSE UNCHANGED sidecar /\ Created(n)

\* fopen(prq, "w") cuts the sidecar to nothing.
OpenSidecar(n) ==
  /\ At(n, "fopen")
  /\ sidecar' = [sidecar EXCEPT ![n] = Empty]
  /\ ddl' = [ddl EXCEPT ![n].next = "fprintf"]
  /\ UNCHANGED <<def, handler, made>>

\* fopen fails: create() returns HA_ERR_CRASHED_ON_USAGE, nothing has changed.
OpenSidecarFails(n) ==
  /\ DiskFails
  /\ At(n, "fopen")
  /\ ddl' = [ddl EXCEPT ![n] = Idle]
  /\ UNCHANGED <<def, sidecar, handler, made>>

\* Mutant: the COMMENT is written even if there is none.
WriteComment(n) ==
  /\ At(n, "fprintf")
  /\ sidecar' = [sidecar EXCEPT ![n] = ddl[n].comment]
  /\ Created(n)

\* fprintf fills the stdio buffer, fclose writes it; create() returns 0.
WriteSidecar(n) ==
  /\ At(n, "fprintf")
  /\ sidecar' = [sidecar EXCEPT ![n] = ParquetPath(n, ddl[n].comment)]
  /\ Created(n)

\* The write in fclose fails or is short; write_prq_meta does not look at the
\* results of fprintf and fclose, and create() returns 0 all the same.
WriteSidecarFails(n) ==
  /\ DiskFails
  /\ At(n, "fprintf")
  /\ \E left \in {Empty, Torn} : sidecar' = [sidecar EXCEPT ![n] = left]
  /\ Created(n)

(***************************************************************************)
(* DROP TABLE: delete_table() removes the sidecar, best effort, and the    *)
(* server then forgets the definition.                                     *)
(***************************************************************************)
BeginDrop(n) ==
  /\ Exists(n) /\ CanAlter(n)
  /\ ddl' = [ddl EXCEPT ![n] = [op |-> "drop", comment |-> def[n], next |-> "remove"]]
  /\ UNCHANGED <<def, sidecar, handler, made>>

DeleteTable(n) ==
  /\ At(n, "remove")
  /\ \/ sidecar' = [sidecar EXCEPT ![n] = Missing]
     \/ DiskFails /\ UNCHANGED sidecar
  /\ ddl' = [ddl EXCEPT ![n].next = "forget"]
  /\ UNCHANGED <<def, handler, made>>

ForgetTable(n) ==
  /\ At(n, "forget")
  /\ ddl' = [ddl EXCEPT ![n] = Idle]
  /\ def' = [def EXCEPT ![n] = NoTable]
  /\ made' = made \ {n}
  /\ UNCHANGED <<sidecar, handler>>

\* RENAME TABLE: the engine overrides neither rename_table nor bas_ext, and
\* the server's default renames the files of the listed extensions: none.
RenameTable(n, m) ==
  /\ Exists(n) /\ CanAlter(n)
  /\ ~ Exists(m) /\ CanAlter(m)
  /\ def' = [def EXCEPT ![m] = def[n], ![n] = NoTable]
  /\ made' = made \ {n}
  /\ UNCHANGED <<sidecar, ddl, handler>>

(***************************************************************************)
(* open() and close(): only the path is followed here, see HaParquet.      *)
(***************************************************************************)
Open(h, n) ==
  /\ ~ IsOpen(h)
  /\ Exists(n) /\ ddl[n] = Idle
  /\ \E ok \in ReadPrqMeta(n) :
       handler' = [handler EXCEPT ![h] = [name |-> n, read |-> ok, path |-> OpenPath(n, ok)]]
  /\ UNCHANGED <<def, sidecar, ddl, made>>

Close(h) ==
  /\ IsOpen(h)
  /\ handler' = [handler EXCEPT ![h] = Closed]
  /\ UNCHANGED <<def, sidecar, ddl, made>>

\* The server process is killed and started again.  What was in the stdio
\* buffer is lost; a CREATE TABLE that was running is there or not, depending
\* on what the server had logged of it.
Crash ==
  /\ Crashes
  /\ handler' = [h \in Handlers |-> Closed]
  /\ ddl' = [n \in Names |-> Idle]
  /\ \E kept \in SUBSET {n \in Names : ddl[n] # Idle /\ ddl[n].op = "create"} :
       def' = [n \in Names |-> IF n \in kept THEN ddl[n].comment ELSE def[n]]
  /\ UNCHANGED <<sidecar, made>>

Ddl(n) ==
  \/ BeginCreate(n) \/ BeginTruncate(n) \/ BeginDrop(n)
  \/ OpenSidecar(n) \/ OpenSidecarFails(n) \/ WriteSidecar(n) \/ WriteSidecarFails(n)
  \/ DeleteTable(n) \/ ForgetTable(n)

Next ==
  \/ \E n \in Names : Ddl(n)
  \/ \E n, m \in Names : RenameTable(n, m)
  \/ \E h \in Handlers : Close(h) \/ (\E n \in Names : Open(h, n))
  \/ Crash

Spec == Init /\ [][Next]_vars

(***************************************************************************)
(* Properties.                                                             *)
(***************************************************************************)

\* A table made by a successful create() is opened on the path of its present
\* definition, never on that of a dropped table of the same name or of an
\* earlier definition, with two exceptions the code has: when open() could not
\* read the sidecar, missing or not, it takes <name>.parquet, whoever wrote
\* that file; and a sidecar cut by a failed write gives the prefix left of it.
OpensOwnPath ==
  \A h \in Handlers : IsOpen(h) /\ handler[h].name \in made =>
    LET n == handler[h].name IN
    \/ handler[h].path = FirstLine[ParquetPath(n, def[n])]
    \/ ~ handler[h].read /\ handler[h].path = Default[n]
    \/ sidecar[n] = Torn /\ handler[h].path = Torn

\* The inductive invariant of OpensOwnPath: what a DDL statement has been given
\* agrees with the definition; the sidecar of a table that a create() made is
\* its own or damaged; no DDL runs on an open table.
DdlInv(n) ==
  ddl[n] # Idle =>
    /\ ddl[n].op = "create" <=> ~ Exists(n)
    /\ ddl[n].op = "truncate" => ddl[n].comment = def[n]
    /\ ddl[n].op = "drop" <=> ddl[n].next \in {"remove", "forget"}

MadeInv(n) ==
  n \in made =>
    /\ Exists(n)
    /\ sidecar[n] \in {Missing, Empty, Torn, ParquetPath(n, def[n])}

HandlerInv(h) ==
  IsOpen(h) =>
    /\ Exists(handler[h].name)
    /\ ddl[handler[h].name] = Idle
    /\ handler[h].read \in ReadPrqMeta(handler[h].name)
    /\ handler[h].path = OpenPath(handler[h].name, handler[h].read)

IInv ==
  /\ TypeOK
  /\ \A n \in Names : DdlInv(n) /\ MadeInv(n)
  /\ \A h \in Handlers : HandlerInv(h)

\* The sidecar keeps the path of a table as long as the table exists: an open
\* handler reads the file its COMMENT names (or the default one).
PathRemembered ==
  \A h \in Handlers : IsOpen(h) =>
    handler[h].path = FirstLine[ParquetPath(handler[h].name, def[handler[h].name])]
=============================================================================
