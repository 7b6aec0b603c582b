# A verification project for devel_mysql_plugin

The repository is a course in writing plugins for MariaDB and MySQL: loadable
functions, two daemon plugins and a read-only storage engine over parquet files.
This directory holds TLA+ models of its code, the TLC runs that check them and TLAPS
proofs about them. Paths below are relative to `src/`; `ha_parquet.cc`,
`ha_parquet.h` and `os_logger.cpp` are the Linux files.

## Inventory

| Component | State | Operations | Interacts with |
|---|---|---|---|
| READ_PARQUET handler (`Source/05_ReadParquet/*/ha_parquet.{h,cc}`) | per handler: `share`, `lock`, `arrow_table`, `current_row`, `total_rows`, and `ref` of the base class; per table: the `Parquet_share` hung on the TABLE_SHARE | `open`, `close`, `rnd_init`, `rnd_next`, `rnd_end`, `position`, `rnd_pos`, `info`, `external_lock`, `store_lock`; writes are refused | called by the server's threads, one per open handler; `get_share` meets other handlers under `lock_shared_ha_data`; reads the sidecar and the parquet file |
| READ_PARQUET DDL | the sidecar `<table>.prq` on disk | `create`, `delete_table`; TRUNCATE through `HTON_CAN_RECREATE`; RENAME through the server's default | the server's definition of the table (COMMENT); `open` reads the sidecar |
| `fill_row` and conversions | the server's record buffer | one call per row | Arrow's chunked columns, `Field::store`, null bits |
| `os_logger` (`Source/04_OS_logger/Linux`) | `logger_thread`, `stop_logger`, `thread_running` | `os_logger_init`, `os_logger_deinit`, worker thread | plugin load and unload |
| `my_resource` (`Source/04_OS_logger/Mac`) | running flag, metrics, system variables, previous counters | init, deinit, monitor thread, SHOW STATUS, SET GLOBAL | a connection back to the server, OS counters |
| `my_median` (`Source/03_Median`) | a vector of values per aggregate | init, clear, reset, add, main, deinit | the server's GROUP BY loop |
| `hello_world` (`Source/01_HelloWorld`, `Source/02_HelloWorld_Args`) | a result buffer | init, main, deinit | argument values and lengths |

What is hard here: `open` of several handlers races on one pointer; the file and the
sidecar change under handlers that cached what they said; the server reuses cursors,
positions and the record buffer in orders no example in the repository runs; file
calls fail and the process dies between two of them; a thread must be gone before
its code is. `PROJECT.json` lists these hazards line by line, with the properties
that cover them.

What makes each component correct:

* handler: one lock object per table; each scan returns its snapshot exactly once
  and in order; a saved position leads back to its row; all reads of a handler come
  from one version of the file; `open` always ends;
* DDL: a table stands for its own file, or for `<table>.parquet` when its sidecar
  could not be read, whatever failed or crashed before;
* the whole engine: the rows a table shows come from such a file, one version of it
  at a time, whatever DDL, other tables and crashes do;
* `store_lock`: reading statements are not kept waiting by writing ones, LOCK TABLES
  still means what it says, the lock type does not change in mid-lock;
* `fill_row`: the value stored is the one at the row asked for, nothing of an
  earlier row shows; a date, time or half becomes the one it stands for;
* `os_logger`: no thread outlives the library, each life of the plugin has one that
  runs, `deinit` ends promptly;
* `my_resource`: the same for its thread; every query is counted once;
* `my_median`: the median of the group's values and of no others;
* `hello_world`: the answer is that of the row, with room for it where it is, in
  memory that is freed once.

## Modules

`TableSnapshot` is the abstract specification of a READ_PARQUET table to its
readers: a reader takes a snapshot of one of the contents that are available, and
reads rows of this snapshot only, in order or at a position, however often the
contents are replaced. Available is the file's version, or more than one where an
`open` may end at more than one file. It knows nothing of shares, locks, errors or
the steps of `open`.

`HaParquet` is the code of the handler. One action is one critical step: `OpenCall`,
`LockShareData`, `CheckShare`, `AllocShare`, `AllocShareFails` and `UnlockShareData`
are `get_share`, statement by statement, because these interleave; `OpenFile`,
`ParseFile`, `ReadTable` and their failures are the rest of `open`; `Close`,
`RndInit`, `RndNext`, `RndNextEof`, `Position`, `RndPos`, `RndEnd` are the calls of
the same names. Variables have the members' names (`current_row` is `currentRow`).
`buf`, `readBy` and `saved` are the server's: the record, the call that filled it
in, and the positions it saved. `got` and `eof` are history: what `rnd_next` has
returned since `rnd_init`. A row is `<<version, index>>`; `FillRow` is the whole of
`fill_row` as its caller sees it. It follows the file at one path; which path that
is, the read of the sidecar before it, is in `ParquetSidecar`. The file is replaced
as a whole (a new inode), so an open file keeps its version; a writer that
overwrites the file in place is outside the model. The refinement `Snapshot ==
INSTANCE TableSnapshot` maps a handler's snapshot to the version its open file pins,
and then to its `arrow_table`.

`FillRow` opens that last step: the loop over fields and the search over chunks, one
action per branch. A cell is known by its place, `<<chunk, offset>>`; what becomes
of its value is in `ParquetValues`. `isNull` and `value` are the record buffer and
survive the call, as the server's does. `Field::set_null` and `set_notnull` are
external: they change a bit only for fields declared nullable.

`ParquetValues` is the conversions that compute something: DATE32 and DATE64 through
`days_to_mysql_date`, TIMESTAMP of the four units, HALF_FLOAT. The other types go to
`Field::store` as they are. Each step of the algorithm is an operator of its own,
named for what the variable holds. 64-bit counts are outside TLC's integers: a
TIMESTAMP is whole seconds and the rest, a DATE64 is `<<epoch, day, ms>>` for
`(epoch * 2^32 + day) * 86400000 + ms` milliseconds, with `day` an `int32_t`.
`Quotient` and `Remainder` are what C's division, which rounds towards zero, makes
of the parts, and `Int32Days` is the quotient of a DATE64 after
`static_cast<int32_t>` (478), which drops the epoch. A number that an unsigned wraps
is `Wrapped`. A float is its three fields. `gmtime_r` is external. What the results
are held against is written separately: day numbers counted over the Gregorian
calendar, significand times power of two.

`ParquetSidecar` is the life of `<table>.prq`. `create` is two steps, `fopen` (which
cuts the file) and the write in `fclose`, with the failures of each; `delete_table`
is one, which may fail silently; TRUNCATE is `create` on the existing definition;
RENAME moves the definition and nothing else. The server's part is external:
exclusive metadata locks (DDL on a table runs alone and after the table's handlers
have closed), the definition with its COMMENT, which survives a crash. `ReadPrqMeta`
is what `read_prq_meta` may return: it fails without a sidecar or on an empty one,
and also on an intact one when `fopen` or `fgets` fails; `OpenPath` is what `open`
makes of that, `<table>.parquet` after any failure. A handler keeps as `read` how it
went, a history of the call. `FirstLine` stands for `fgets` and the stripped
newline: a path with a newline comes back cut. `made` is history: the tables a
`create` made that returned 0.

`ParquetEngine` is the whole engine, written from the MySQL 8 file
`Mac/ha_parquet.cc`: it extends `ParquetSidecar` with the parquet files at the
paths, the handlers' reads and `info`, so that a row can be followed from the
COMMENT of CREATE TABLE to the record. `OpenTable`, `OpenFile`, `ReadTable`,
`CloseTable`, `RndInit`, `RndNext`, `RndPos`, `Info` are the engine; files are
replaced or removed at any time, and a crash loses what handlers hold. Every step is
a step of `ParquetSidecar` (theorem `EngineHasSidecar`), and every table is a
`TableSnapshot` of its own, `Table(n)`, for which DDL, RENAME and crashes are
replacements of its files: `FilesOf(n)`, the one the sidecar leads to and, where the
read of the sidecar may fail, `<table>.parquet`.

`ParquetLock` is `store_lock`, the only part of the lock protocol that is in this
repository, under the server's THR_LOCK, which is external: `thr_multi_lock` takes a
statement's locks (`TakeLock`) in order of address and type (`Before`),
`ReadGranted` and `WriteGranted` are its compatibility, `Leave` its unlock with
`wake_up_waiters`. Sessions run statements or LOCK TABLES with any mix of lock
types, their waits may time out or be killed, and another thread may call
`store_lock` with TL_IGNORE. A session has any number of handlers, on several tables
or on the same one. `ahead` is the queue of writers. `write_locks` is history.

`OsLogger` is the daemon plugin, one action per statement that reads or writes a
shared flag. The server calls `init` and `deinit` one at a time, and after an `init`
that failed it may or may not call `deinit`.

`MyResource` is the other daemon plugin: `plugin_init` and `plugin_deinit` step by
step, SET GLOBAL of the interval at any time, and `monitor_thread_func` with one
action per sample, publication, test of `g_running` and second of sleep. `monitor`
is its program location, `prev` is `prev_disk` and `prev_questions`, `rate` the
rates before `Publish` stores them in the globals (`metrics`). A rate is kept as the
two operands of its division. A sample may fail: the disk's leaves zeros, a refused
connection leaves `prev_questions`, a query that is not answered gives 0 with
`db_ok` true. The counters grow at any time (`Grow`). Histories: `base`, `counted`
and `clean` follow what the published deltas add up to, `span` is the seconds slept
since the last publication, if `timed` says that there was one and that no CPU
sample was cut short since, `late` what the thread does after the stop. Memory,
connections and the CPU share have no history and are left out; bytes read and
written are one counter. `deinit` joins whether or not `init` made a thread; on
macOS, the plugin's only platform, the join of a null `pthread_t` returns an error,
which is what `JoinThread` does then. That the join of such a thread returns is an
assumption about the platform: POSIX leaves it undefined, and nothing here shows
that the code needs no test of its own.

`Median` is `my_median` in both versions, chosen by `platform`, as the server calls
it: `init` with any number and type of arguments, groups of rows in any order with
NULLs, the result (more than once if the statement asks), `deinit` anywhere. The
Mac's `init` allocates twice, and may run out of memory at each (`InitCall` or
`NewContextFails`, then `NewVector` or `NewVectorFails`). `values` is the vector,
`group` the history it is compared with, the numbers in the order of the rows;
`result` is twice the number, so that the mean stays an integer. `ReadDouble` is
what `*(double *)args[0]` makes of the argument the server passes. `std::sort` is
external: it leaves the vector in another order (`Reorders`) in which no number
comes after a greater one (`Sortings`). The median it is held against looks at no
order at all: `KthSmallest` counts how many numbers are smaller and how many are not
greater.

`HelloUdf` is `hello_world` and `helloworld` in their four versions. A name is its
length and the number of its bytes before a NUL byte, where `%.*s` and `strlen`
stop; `heap` is the buffers allocated and their sizes. The Mac version with a name
frees the buffer of a row at the next one, so a new buffer may be where the old one
was. The Linux version with a name has no test of the length: `HelloName` has none
either, and gives an answer that is longer than the server's result buffer. What
`sprintf` overwrites behind that buffer is not followed.

`MC*` modules give the constants values for TLC; `MCFillRow` and `MCMedian` run two
and three modules that share nothing, one after the other, so that their states add
up (the logger's names begin with `Logger` or `logger` for that). `*_proofs` modules
hold the theorems. Definitions marked "Mutant" are never part of a next-state
relation: each is one plausible mistake in the action it stands above, and the
property it is meant to break is in `PROJECT.json`.

## Runs

| Run | Bounds | Result |
|---|---|---|
| `handlers` | 2 handlers, 3 file versions of 2, 1 and 0 rows, 1 saved position, file may be absent or corrupt | `OneShare`, `ScanExact`, `PositionRoundTrip`, `Refinement`, `OpenEnds` hold (123,000 states) |
| `sidecar` | `ParquetEngine`: 2 tables, 2 handlers, one COMMENT path (with a newline), files of 1 and 2 rows that come and go, failing disk (the read of an intact sidecar included), crashes | `OpensOwnPath`, `ReadsOwnFile`, `RecordsCoverScan`, `Refinement` hold (446,000 states) |
| `sidecar_rename` | `ParquetSidecar`: 2 tables, 1 handler, 2 paths, no failure, no crash | `PathRemembered` violated |
| `locking` | 3 sessions, 2 tables, 5 handlers (one session uses both tables or one of them twice), time-outs | `ReadsNeverBlock`, `NoWriteCountExact`, `WriteExcludes` hold (46,900 states) |
| `fill_row` | 4 rows, 4 fields over 3 columns of 3, 2 and 1 chunks, one chunk empty; 17,500 days, DATE64 within and beyond 32 bits of days, times in four units, halves of every exponent and sign | `FindsTheCell`, `FieldsReadRow`, `DateIsTheDay`, `TimestampIsTheTime`, `HalfIsItsValue` hold (18,700 states) |
| `fill_row_not_null` | the same | `AllFieldsReadRow` violated |
| `half_float` | the same | `AnyHalfIsItsValue` violated |
| `my_resource` | intervals 1 and 3, Questions up to 2, disk up to 1, any number of installs | `NoThreadOutlivesPlugin`, `StopIsPrompt`, `CountedOnce`, `InstalledMonitorRuns`, `DeinitEnds` hold (723,000 states) |
| `my_resource_qps` | interval 2, the same counters | `QpsCountsOwnQueries` violated |
| `my_resource_rate` | intervals 2 and 3, the same counters | `RatesArePerSecond` violated |
| `installed_functions` | `Median`: 3 numbers, groups of up to 5 rows (2 in columns Linux reads as text), any number of groups. `HelloUdf`: names of 0, 5, 240 and 241 bytes and one with a NUL byte, 2 addresses, a result buffer of 255. `OsLogger`: 2 thread ids, pause of 5 seconds, any number of installs | `MedianOfGroup`, `HeapBalanced`; `BufferFreedOnce`, `AnswerIsWhole`; `NoThreadOutlivesPlugin`, `JoinsItsOwnThread`, `InstalledLoggerRuns`, `StopIsPrompt`, `DeinitEnds` hold (46,400 states) |
| `median_linux` | groups of up to 2 rows, the rest the same | `LinuxMedian` violated |

Why the bounds are enough. Two handlers make every race on the share; a third only
repeats the role of the second. Two rows separate the first, the last and the row
after the last, and versions with another number of rows, or none, show a scan that
would take its end from the wrong version. One saved position is taken before,
between or after reads. Two table names are what RENAME needs, and drop and create
again of one name is unbounded. In `sidecar` one handler opens both tables and reads
rows, the other opens and closes the first table beside it; the file of the COMMENT
comes, changes and goes, the one of the first table's own name stays, so that an
open that falls back to it finds rows of another file, and the second name has none
(`Bounded` in `MCParquetEngine`). Reads of two handlers of one table race in
`handlers`. Three sessions are a lock held, one waiting and one that comes later.
The first uses two tables or one of them twice, which is what the rule for a
session's own locks needs (`Bounded` in `MCParquetLock`). Dates cover four years on
each side of the places where the calendar or the algorithm changes: 0000-03-01,
1600, 1970, 2000, 2100, 10000, and the ends of 32 bits, and DATE64 a few of these
days, also one epoch of 2^32 days earlier and later. The names give buffers that are
shorter or longer than the one before, an answer cut at a NUL byte, the longest name
that fits the result buffer and the shortest that does not. In `fill_row` the
boundaries of the three columns fall on different rows and the empty chunk comes
first. Interval 1 is the one whose wait is not shortened by the CPU sample, 3 waits
twice, 2 and 3 are what a SET GLOBAL changes between; a count of 2 has one query
before and one after any sample. Five rows give both parities, with equal and with
different numbers in the middle; what Linux makes of text columns is any number, and
two rows of it show that nothing is promised (`Bounded` in `MCMedian`). The bounds
in guards are `MaxSaved`, `MaxCount`, `MaxRows` and `MaxArgs`, and the three
`Bounded`; everything else is finite by itself. All runs check deadlock.

Fairness. `HaParquet!Fairness` lets a thread that is inside `open` go on (WF of
`OpenStep`), and grants the mutex infinitely often to a waiter (SF of
`LockShareData`): the pthread mutex promises no order, but the holder leaves after a
bounded number of steps and opens of one table are finite. Nothing is assumed of
clients, of the writer or of scans. `OsLogger!Fairness` schedules the worker, whose
`sleep(1)` returns, and lets `pthread_join` return once the thread has ended;
nothing makes the server call `deinit`. `MCSpec` of `MCMedian` has the same
conjuncts: they ask for nothing while the other two modules run, because no thread
runs then. `MyResource!FairSpec` assumes the same of the monitor thread, whose
connection and queries end by their timeouts of three seconds (lines 234-236); its
samples may fail every time. `ParquetEngine`, `ParquetLock`, `Median` and `HelloUdf`
state safety only.

### What the violations show

* RENAME TABLE loses the path (no `rename_table`, ha_parquet.h:70-74), which the
  engine's README.md:197 and pages/05-7.md:7 say the sidecar keeps. `OpensOwnPath`
  is therefore stated for tables a `create` made and no rename has touched.
* An Arrow null in a field declared NOT NULL leaves the value of an earlier row
  (ha_parquet.cc:341-344), where the engine's README.md:392 says nulls become NULL.
  `FieldsReadRow` says what holds instead.
* A subnormal HALF_FLOAT becomes another number (ha_parquet.cc:418): its mantissa is
  put into a float with exponent 0, whose scale is lower by 112 powers of two.
  `HalfIsItsValue` says that all others are right.
* `my_resource` publishes as queries per second a number that is no delta after a
  startup sample that failed, or after a cycle in which the connection stood and the
  query was not answered (my_resource.cpp:257 and 278-281): all queries since the
  server started, divided by one interval. `CountedOnce` holds as long as every
  answer is a number or a refusal.
* `my_resource` divides by an interval that is not the one its delta covers: after
  SET GLOBAL my_resource_interval (my_resource README.md:116) during the pause, the
  pause goes on to its old end, and the delta is divided by the new interval
  (my_resource.cpp:301, 305 and 313). The comments at lines 8 and 10 say KB and
  queries per second.
* The Linux `my_median` leaves `arg_type` alone (median.cpp:13-21) and reads a
  double whatever is passed (27): right for DOUBLE, as in its README's examples,
  wrong for the INT column of the run. A DECIMAL argument is read the same way; the
  Mac version asks the server to convert both.

Other things the models say, without a run of their own:

* Mac/README.md:223 of `my_resource` gives `interval + 1` seconds as the real
  period. The code takes the CPU's second off the wait (338), so that the seconds
  slept in a cycle are `interval` as the comment at line 129 has it, but 2 for an
  interval of 1, whose rates are twice too high; and a cycle's exchange with the
  server comes on top. The first rate after startup covers one second, and is
  divided by `interval` too.
* `open` takes `<table>.parquet` not only when the "Sidecar missing"
  (ha_parquet.cc:228) but after any failure of `read_prq_meta` (103-119, 226-230):
  an intact sidecar that cannot be opened or read, for want of descriptors say,
  makes a table show another file without an error. Two handlers of one table may
  then disagree. `OpensOwnPath` and `ReadsOwnFile` except this by name (`read`).
* A DATE64 of more days than an `int32_t` counts is cut by the cast at line 478 and
  becomes the date of its days modulo 2^32. `DateIsTheDay` is about the days that
  are left after the cut; adding 719468 to the last 719468 of them is undefined
  behaviour, and these are outside the model.
* `position()` leaves `ref` alone (ha_parquet.cc:593-597), so after `rnd_pos` it
  names the last row of `rnd_next`; the engine's README.md:152 says it stores the
  current row's index. `PositionRoundTrip` is therefore about positions taken after
  `rnd_next`.
* `write_prq_meta` returns true whatever `fprintf` and `fclose` returned
  (ha_parquet.cc:98-100), against its own comment at line 91; hence the damaged
  sidecars that `OpensOwnPath` and `ReadsOwnFile` allow for.
* `store_lock`'s comment (627) and the engine's README.md:156 say that write locks
  become read locks; the code makes them TL_WRITE_ALLOW_WRITE, a write lock that
  allows reads and other writes of its kind. For readers the effect is the same
  (`ReadsNeverBlock`). A waiting write is another matter: a LOCK TABLES WRITE that
  times out wakes nobody while a write lock is held, and a writing statement queued
  behind it goes on waiting for that lock.
* A TIMESTAMP before 1970 with a fraction has negative microseconds, which wrap in
  `second_part`; a DATE64 before 1970 that is no whole day becomes the day after; a
  year before 0 wraps. `TimestampIsTheTime` and `DateIsTheDay` except these by name.
* The Linux `hello_world` with a name has no test for NULL and greets the empty
  name, where its README.md:100 says that NULL returns NULL. It has none for the
  length either (udf_hello_world_args.cpp:18): a name of 241 bytes or more is
  written past the result buffer, as pages/02-4.md:52 says. `AnswerIsWhole` excepts
  those names (`OverrunsResult`). Both versions with a name cut it at a NUL byte.

## Proofs

The theorems hold for every value of the constants that satisfies the named
assumptions: any set of handlers, tables, threads, versions of any length, any
chunking. The assumptions say what types the constants have, that the sentinel
values differ from the data, that `Start` is the running sum of `Len` and every
column has `NumRows` rows (`ChunksAssumption`: an Arrow table), and that default
paths and what a short write leaves have no newline (`PathsAssumption`), that a day
plus 719468 fits in 32 bits (`DaysAssumption`: beyond it the code overflows a signed
integer; `MillisAssumption` says the same of what the cast leaves of a DATE64, and
leaves its epoch free), that there are finitely many handlers (`HandlersAssumption`,
for the count of locks), that numbers of a column are naturals and that the fixed
texts of `hello_world` fit in the result buffer (`ValuesAssumption`,
`HelloAssumption`).

Each component has an inductive invariant (`IInv`, `EngineIInv`, `LockIInv`,
`HelloIInv`, `LoggerIInv`), next to its properties, proved with one lemma per action
or group of actions; the other theorems follow from it.

* `HaParquet_proofs`. `OneShare` alone is not inductive: two handlers may be between
  the test of the pointer and its assignment. `ShareInv` ties the holder of the
  mutex to the program locations inside `get_share` and says that `tmpShare` and
  `haShare` agree there. `ScanExact` needs that `got` is the row numbers up to
  `currentRow` and that `totalRows` belongs to `table` (`FileInv`, `ScanInv`).
  `Implements` maps every step to a step of `TableSnapshot` or to a stutter under
  these invariants.
* `ParquetSidecar_proofs`. `MadeInv` (the sidecar of a created table is its own path
  or damaged) survives a TRUNCATE only because the running statement's comment is
  the definition's, and a CREATE only because names in `made` exist (`DdlInv`);
  `HandlerInv` says that no DDL runs on an open table, and that its path is what the
  sidecar, which is therefore unchanged, or a failed read gives.
* `ParquetEngine_proofs`. `EngineIInv` is the invariant of `ParquetSidecar`, which
  the engine inherits since each of its steps is one of `ParquetSidecar`'s, and
  `HoldsOf`: what a handler has open or loaded is from the path it opened. With
  `OpensOwnPath`, about that path, `ReadsOwnFile` follows. (`HandlerInv` also gives
  that what is loaded was in `FilesOf(n)`.) `EngineImplements` takes each action for
  a table that it concerns and for all the others, for which it stutters.
* `ParquetLock_proofs`. `WriteExcludes` needs `ExclusiveLocks`, about lock types and
  not about what was asked for; `UsedTypes` links the two through `store_lock`'s
  downgrades. `ReadsNeverBlock` rests on `WaitingReadsKeptOut`, which every unlock
  must restore: a read that waits while nothing keeps it out would never be woken.
  Its hard case is a batch of writers that are woken together, where `InLine`, the
  queue's order, says who is first.
* `FillRow_proofs`. `LoopInv`: `remaining` is the row minus the running sum of the
  chunks skipped; at the last chunk it would be negative, so the search finds a
  chunk. `BufferInv`: fields before `col` already read as the row. `OneCellPerRow`
  shows that chunks do not overlap.
* `FillRow_proofs`, on `ParquetValues`. `CivilDateIsTheDay` inverts the calendar:
  the bounds that the code has in comments (`DayOfEraBounds`, `PartBounds`:
  0..146096, 0..399, 0..365, 0..11, 1..31), the last day of a leap year
  (`LastDayOfYear`), the leap days of an era and of the years before it
  (`IsLeapOfEra`, `LeapsStep`), and the months (`MonthOfDay`).
* `OsLogger_proofs`. `WorkerInv`: there is exactly one worker, `logger_thread`, from
  `pthread_create` to the join. `StopInv`: a worker that has done its one late line
  or second is about to test the flag. `LoggerRuns` needs both that every life's
  flag starts clear and that a worker leaves its loop on the flag alone.
* `MyResource_proofs`. `CountedOnce` becomes inductive with what has been sampled
  and not yet published (`CountInv` adds `rate`; `RateInv` says where it is zero);
  this is where the test `db_ok` before line 314 is needed. `MonitorRuns` is
  `ThreadInv`: `g_running` is true as long as the plugin is loaded, however the life
  before ended. `SampledType` and `RateOfType` are the facts about a single sample.
* `Udfs_proofs`. `VectorIsGroup`: the vector is the group in another order. A new
  row extends the permutation (`ReorderedAppend`), the sort composes two
  (`ReorderedAgain`), and a permutation does not change what is counted
  (`SameCount`). At place k of a sorted vector is the k-th smallest number, which
  there is only one of (`KthOfSorted`, `KthIsOne`); `MiddleIsMedian` applies that to
  both parities and to indexes that count from 0. `PhaseInv` is why `deinit` may run
  anywhere. For `hello_world`, `BufferInv` follows the one buffer, and `AnswerInv`
  adds to `AnswerIsWhole` that an answer in memory is in `initid->ptr`, which has
  exactly the length of its row's name.

Only model-checked: the liveness properties `OpenEnds` and `DeinitEnds`, because the
prover does not do fairness, and, by their nature, the six violations. Every safety
property of every passing run, and both refinements, are theorems. The `Bounded` of
the `MC` modules only take steps away; the theorems are about the specifications
without them.

## Not modelled

`external_lock` (empty) and the refused writes change no state. Plugin registration
is a table of pointers. Builds, scripts, the book pages and the archive of the
sources are no code of the running system. Metadata locks, which a server takes
before the locks of `ParquetLock`, are left out there, and are taken for granted in
`ParquetSidecar` and `ParquetEngine`. ALTER TABLE, which can change the COMMENT the
server keeps without a call of `create`, is the server's and not followed. A null
returned by `new` is modelled as the code writes it, an exception thrown by it is
not. `gmtime_r` fails for years beyond an int and leaves its result unset: seconds
so large are outside `ParquetValues`, as are 64-bit products that overflow. SHOW
STATUS of `my_resource` only reads; it may see metrics of two cycles, since
`Publish` is several stores in the code and one step in the model.

## Plan

Done, in this order: `TableSnapshot`, `HaParquet`, `ParquetSidecar`, `FillRow`,
`OsLogger`, `MyResource` and their proofs, `Median`; then `ParquetEngine`,
`ParquetLock`, `ParquetValues` and their proofs, `HelloUdf`; then `Udfs_proofs`;
then failing reads of the sidecar, DATE64 beyond 32 bits of days, names of any
bytes.

Left: SHOW STATUS between two stores of the metrics.
