------------------------------ MODULE MyResource ------------------------------
(***************************************************************************)
(* The my_resource daemon plugin (my_resource.cpp): a monitor thread reads *)
(* counters of the machine and, through a connection back to the server,   *)
(* the server's Questions, and publishes their rates as status variables.  *)
(* What is read without a history (memory, connections, the CPU share) is  *)
(* left out; the bytes read and the bytes written are handled alike and    *)
(* are one counter here.                                                   *)
(*                                                                         *)
(* External: the server (init, deinit, SET GLOBAL), and the counters, that *)
(* grow at any time and that a sample may fail to get.                     *)
(***************************************************************************)
EXTENDS Naturals

CONSTANTS
  Intervals,    \* values of my_resource_interval (1 to 3600)
  MaxCount      \* bound on each counter

ASSUME IntervalAssumption == Intervals \subseteq Nat \ {0}

Counters == {"bytes", "questions"}

ASSUME MaxCountAssumption == MaxCount \in [Counters -> Nat]

VARIABLES
  plugin,       \* where the server is in the plugin's life
  running,      \* g_running
  interval,     \* g_interval_sec
  metrics,      \* g_disk_read_kbps and g_db_queries_ps: deltas and divisors
  monitor,      \* where the thread is in monitor_thread_func
  prev,         \* prev_disk and prev_questions
  rate,         \* r_kbps and qps before they are published, then out of scope
  i, remain,    \* the loop that waits for the rest of the interval, likewise
  count,        \* the counters themselves
  base,         \* history: the counters when the thread first sampled them
  clean,        \* history: no sample gave another value than the counter's
  counted,      \* history: the sum of the deltas published while clean
  span,         \* history: seconds slept since the last publication
  timed,        \* history: there was one, and no CPU sample was cut short since
  late          \* history: sleeps and exchanges with the server after the stop

Zero     == [c \in Counters |-> 0]
NoRate   == [c \in Counters |-> [delta |-> 0, over |-> 1]]

server  == <<plugin, running, interval, metrics>>
locals  == <<prev, rate, i, remain>>
history == <<base, clean, counted, span, timed, late>>
vars    == <<server, monitor, locals, count, history>>

Counts == {f \in [Counters -> Nat] : \A c \in Counters : f[c] <= MaxCount[c]}
Rates  == [Counters -> [delta : Nat, over : Intervals \cup {1}]]

PluginStates  == {"unloaded", "init", "loaded", "failed", "join"}
MonitorStates == {"none", "disk0", "db0", "test", "cpu", "disk", "db",
                  "publish", "wait", "sleep", "exited"}

TypeOK ==
  /\ plugin \in PluginStates
  /\ running \in BOOLEAN
  /\ interval \in Intervals
  /\ metrics \in Rates
  /\ monitor \in MonitorStates
  /\ prev \in Counts
  /\ rate \in Rates
  /\ i \in Nat
  /\ remain \in Nat \ {0}
  /\ count \in Counts
  /\ base \in Counts
  /\ clean \in [Counters -> BOOLEAN]
  /\ counted \in [Counters -> Nat]
  /\ span \in Nat
  /\ timed \in BOOLEAN
  /\ late \in [sleeps : Nat, exchanges : Nat]

Init ==
  /\ plugin = "unloaded"
  /\ running = FALSE
  /\ interval \in Intervals
  /\ metrics = NoRate
  /\ monitor = "none"
  /\ count = Zero
  /\ prev = Zero
  /\ rate = NoRate
  /\ i = 0
  /\ remain = 1
  /\ base = Zero
  /\ clean = [c \in Counters |-> TRUE]
  /\ counted = Zero
  /\ span = 0
  /\ timed = FALSE
  /\ late = [sleeps |-> 0, exchanges |-> 0]

(***************************************************************************)
(* plugin_init and plugin_deinit.  The library is loaded before init, with *)
(* the interval of my.cnf and its metrics zero.                            *)
(***************************************************************************)
\* Mutant: g_running stays as the life before left it.
InitCallKeeps ==
  /\ plugin = "unloaded"
  /\ plugin' = "init"
  /\ interval' \in Intervals
  /\ UNCHANGED <<running, metrics, monitor, locals, count, history>>

InitCall ==
  /\ plugin = "unloaded"
  /\ plugin' = "init"
  /\ running' = TRUE
  /\ interval' \in Intervals
  /\ UNCHANGED <<metrics, monitor, locals, count, history>>

CreateThread ==
  /\ plugin = "init"
  /\ plugin' = "loaded"
  /\ monitor' = "disk0"
  /\ UNCHANGED <<running, interval, metrics, locals, count, history>>

CreateThreadFails ==
  /\ plugin = "init"
  /\ plugin' = "failed"
  /\ running' = FALSE
  /\ UNCHANGED <<interval, metrics, monitor, locals, count, history>>

\* The server drops a plugin whose init failed without calling deinit.
DropFailed ==
  /\ plugin = "failed"
  /\ plugin' = "unloaded"
  /\ UNCHANGED <<running, interval, metrics, monitor, locals, count, history>>

\* Mutant: deinit joins without asking the thread to stop.
DeinitCallQuiet ==
  /\ plugin \in {"loaded", "failed"}
  /\ plugin' = "join"
  /\ UNCHANGED <<running, interval, metrics, monitor, locals, count, history>>

DeinitCall ==
  /\ plugin \in {"loaded", "failed"}
  /\ plugin' = "join"
  /\ running' = FALSE
  /\ UNCHANGED <<interval, metrics, monitor, locals, count, history>>

\* Mutant: the thread is left to end on its own.
DetachThread ==
  /\ plugin = "join"
  /\ plugin' = "unloaded"
  /\ UNCHANGED <<running, interval, metrics, monitor, locals, count, history>>

\* The join of a thread that was never created (g_monitor_tid is null) fails
\* with ESRCH on macOS, the only platform of this plugin; the result is not
\* looked at.  Then the library is unloaded: its globals are gone, as the
\* thread's variables are.
JoinThread ==
  /\ plugin = "join"
  /\ monitor \in {"exited", "none"}
  /\ plugin' = "unloaded"
  /\ monitor' = "none"
  /\ metrics' = NoRate
  /\ prev' = Zero
  /\ rate' = NoRate
  /\ i' = 0
  /\ remain' = 1
  /\ base' = Zero
  /\ clean' = [c \in Counters |-> TRUE]
  /\ counted' = Zero
  /\ span' = 0
  /\ timed' = FALSE
  /\ late' = [sleeps |-> 0, exchanges |-> 0]
  /\ UNCHANGED <<running, interval, count>>

\* SET GLOBAL my_resource_interval.
SetInterval ==
  /\ plugin = "loaded"
  /\ interval' \in Intervals \ {interval}
  /\ UNCHANGED <<plugin, running, metrics, monitor, locals, count, history>>

\* Queries are served, blocks are read and written.
Grow(c) ==
  /\ count[c] < MaxCount[c]
  /\ count' = [count EXCEPT ![c] = @ + 1]
  /\ UNCHANGED <<server, monitor, locals, history>>

(***************************************************************************)
(* monitor_thread_func.                                                    *)
(***************************************************************************)
Later(k) == late' = IF running THEN late ELSE [late EXCEPT ![k] = @ + 1]

\* db_metric_get: the connection is refused, or it stands and the query for
\* Questions is not answered (an error or the read timeout), or it is answered.
\* The first gives false; the second gives true and 0.
Answers == {"refused", "blank", "answered"}

\* A sample of the disk that fails leaves its zeros.
Sampled(c, ok) == IF ok THEN count[c] ELSE 0

\* The startup samples, the origin of the deltas.
StartSample(c, ok) ==
  /\ prev'  = [prev EXCEPT ![c] = Sampled(c, ok)]
  /\ base'  = [base EXCEPT ![c] = count[c]]
  /\ clean' = [clean EXCEPT ![c] = ok]

StartDisk ==
  /\ monitor = "disk0"
  /\ monitor' = "db0"
  /\ \E ok \in BOOLEAN : StartSample("bytes", ok)
  /\ UNCHANGED <<server, rate, i, remain, count, counted, span, timed, late>>

StartDb ==
  /\ monitor = "db0"
  /\ monitor' = "test"
  /\ \E a \in Answers : StartSample("questions", a = "answered")
  /\ Later("exchanges")
  /\ UNCHANGED <<server, rate, i, remain, count, counted, span, timed>>

TestLoop ==
  /\ monitor = "test"
  /\ monitor' = IF running THEN "cpu" ELSE "exited"
  /\ UNCHANGED <<server, locals, count, history>>

\* cpu_usage_measure: two samples, one second apart.
MeasureCpu ==
  /\ monitor = "cpu"
  /\ monitor' = "disk"
  /\ span' = span + 1
  /\ Later("sleeps")
  /\ UNCHANGED <<server, locals, count, base, clean, counted, timed>>

\* The first of the two fails: no second passes.
MeasureCpuFails ==
  /\ monitor = "cpu"
  /\ monitor' = "disk"
  /\ timed' = FALSE
  /\ UNCHANGED <<server, locals, count, base, clean, counted, span, late>>

\* Mutant: the order of the two samples is not looked at.
RateUnguarded(c, v) == [delta |-> v - prev[c], over |-> interval]

\* The division is kept as its two operands.  A counter that fell gives 0.
RateOf(c, v) ==
  [delta |-> IF v >= prev[c] THEN v - prev[c] ELSE 0, over |-> interval]

SampleDisk ==
  /\ monitor = "disk"
  /\ monitor' = "db"
  /\ \E ok \in BOOLEAN :
       LET cur_disk == Sampled("bytes", ok)
       IN  /\ rate'  = [rate EXCEPT !["bytes"] = RateOf("bytes", cur_disk)]
           /\ prev'  = [prev EXCEPT !["bytes"] = cur_disk]
           /\ clean' = [clean EXCEPT !["bytes"] = @ /\ ok]
  /\ UNCHANGED <<server, i, remain, count, base, counted, span, timed, late>>

\* Mutant: the sample of a refused connection becomes the origin of the next.
DbRefusedForgets ==
  /\ rate' = [rate EXCEPT !["questions"] = [delta |-> 0, over |-> interval]]
  /\ prev' = [prev EXCEPT !["questions"] = 0]
  /\ UNCHANGED clean

DbRefused ==
  /\ rate' = [rate EXCEPT !["questions"] = [delta |-> 0, over |-> interval]]
  /\ UNCHANGED <<prev, clean>>

DbConnected(ok) ==
  LET questions == Sampled("questions", ok)
  IN  /\ rate'  = [rate EXCEPT !["questions"] = RateOf("questions", questions)]
      /\ prev'  = [prev EXCEPT !["questions"] = questions]
      /\ clean' = [clean EXCEPT !["questions"] = @ /\ ok]

SampleDb ==
  /\ monitor = "db"
  /\ monitor' = "publish"
  /\ \E a \in Answers :
       \/ a = "refused" /\ DbRefused
       \/ a # "refused" /\ DbConnected(a = "answered")
  /\ Later("exchanges")
  /\ UNCHANGED <<server, i, remain, count, base, counted, span, timed>>

Remain == IF interval - 1 < 1 THEN 1 ELSE interval - 1

Publish ==
  /\ monitor = "publish"
  /\ monitor' = "wait"
  /\ metrics' = rate
  /\ rate' = NoRate
  /\ remain' = Remain
  /\ i' = 0
  /\ counted' = [c \in Counters |->
                   IF clean[c] THEN counted[c] + rate[c].delta ELSE 0]
  /\ span' = 0
  /\ timed' = TRUE
  /\ UNCHANGED <<plugin, running, interval, prev, count, base, clean, late>>

\* Mutant: only the outer loop looks at the flag.
TestTickBlind ==
  /\ monitor = "wait"
  /\ \/ i < remain    /\ monitor' = "sleep" /\ UNCHANGED <<i, remain>>
     \/ ~ (i < remain) /\ monitor' = "test"  /\ i' = 0 /\ remain' = 1
  /\ UNCHANGED <<server, prev, rate, count, history>>

TestTick ==
  /\ monitor = "wait"
  /\ \/ i < remain /\ running
        /\ monitor' = "sleep"
        /\ UNCHANGED <<i, remain>>
     \/ ~ (i < remain /\ running)
        /\ monitor' = "test"
        /\ i' = 0 /\ remain' = 1
  /\ UNCHANGED <<server, prev, rate, count, history>>

Sleep ==
  /\ monitor = "sleep"
  /\ monitor' = "wait"
  /\ i' = i + 1
  /\ span' = span + 1
  /\ Later("sleeps")
  /\ UNCHANGED <<server, prev, rate, remain, count, base, clean, counted, timed>>

Server ==
  \/ InitCall \/ CreateThread \/ CreateThreadFails \/ DropFailed
  \/ DeinitCall \/ JoinThread \/ SetInterval

Monitor ==
  \/ StartDisk \/ StartDb \/ TestLoop \/ MeasureCpu \/ MeasureCpuFails
  \/ SampleDisk \/ SampleDb \/ Publish \/ TestTick \/ Sleep

Next == Server \/ Monitor \/ \E c \in Counters : Grow(c)

Spec == Init /\ [][Next]_vars

\* The thread is scheduled, sleep(1) returns, a connection and a query end by
\* their timeouts of three seconds, and pthread_join returns after the exit.
FairSpec == Spec /\ WF_vars(Monitor) /\ WF_vars(JoinThread)

(***************************************************************************)
(* Properties.                                                             *)
(***************************************************************************)

\* When the server unloads the library no thread runs its code or waits to be
\* joined, although plugin_deinit joins without knowing whether init failed.
NoThreadOutlivesPlugin == plugin = "unloaded" => monitor = "none"

\* Wherever the stop finds the thread, it sleeps at most one second and talks
\* to the server at most once more before it ends.
StopIsPrompt == late.sleeps <= 1 /\ late.exchanges <= 1

\* UNINSTALL PLUGIN and shutdown end.
DeinitEnds == plugin = "join" ~> plugin = "unloaded"

\* The published deltas add up to what the counter grew from the startup sample
\* to the last one: a cycle whose connection is refused loses no query and
\* counts none twice.  (As long as no sample gave a number that was not the
\* counter's: see QpsCountsOwnQueries.)
CountedOnce ==
  \A c \in Counters :
    clean[c] /\ monitor \in {"test", "cpu", "wait", "sleep", "exited"} =>
      counted[c] + base[c] = prev[c]

\* An installed plugin measures: its thread has not ended, in a second life of the
\* plugin no more than in the first.
InstalledMonitorRuns == plugin = "loaded" => monitor \notin {"none", "exited"}

\* my_resource.cpp:8 and 10: the metrics are KB and queries per second.  So a rate
\* is divided by the seconds its delta covers, those slept since the last one.
RatesArePerSecond ==
  monitor = "publish" /\ timed => \A c \in Counters : rate[c].over = span

\* my_resource.cpp:10 and README.md:17: queries per second are a delta of
\* Questions.  So no rate counts queries from before the plugin was started.
QpsCountsOwnQueries ==
  plugin = "loaded" =>
    base["questions"] + metrics["questions"].delta <= count["questions"]

(***************************************************************************)
(* The inductive invariant: the thread lives from its creation to the join *)
(* and is running just while the plugin is loaded; and what is sampled but *)
(* not yet published is in rate.                                           *)
(***************************************************************************)
ThreadInv ==
  /\ plugin \in {"unloaded", "init", "failed"} => monitor = "none"
  /\ plugin = "loaded" => monitor \notin {"none", "exited"}
  /\ plugin \in {"init", "loaded"} => running
  /\ plugin = "join" => ~ running

StopInv ==
  /\ plugin = "loaded" => late.sleeps = 0 /\ late.exchanges = 0
  /\ late.sleeps <= 1 /\ late.exchanges <= 1
  /\ monitor \in {"none", "cpu", "sleep"} => late.sleeps = 0
  /\ monitor \in {"none", "disk0", "db0", "cpu", "disk", "db"} => late.exchanges = 0

CountInv ==
  \A c \in Counters :
    /\ prev[c] <= count[c]
    /\ clean[c] => counted[c] + rate[c].delta + base[c] = prev[c]

RateInv ==
  /\ monitor \notin {"db", "publish"} => rate["bytes"].delta = 0
  /\ monitor # "publish" => rate["questions"].delta = 0
  /\ monitor \in {"none", "disk0", "db0"} => \A c \in Counters : counted[c] = 0

IInv == TypeOK /\ ThreadInv /\ StopInv /\ CountInv /\ RateInv
=============================================================================
