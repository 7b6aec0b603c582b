------------------------------- MODULE OsLogger -------------------------------
(***************************************************************************)
(* The os_logger daemon plugin (os_logger.cpp): init starts a thread that  *)
(* writes a line about load and memory every few seconds, deinit asks it   *)
(* to stop and joins it.  The flags are plain globals that the server's    *)
(* thread and the worker share without a lock.                             *)
(*                                                                         *)
(* External: the server, which loads the library, calls init and deinit    *)
(* one at a time (UNINSTALL PLUGIN and shutdown alike), may or may not     *)
(* call deinit after an init that failed, and unloads the code afterwards. *)
(***************************************************************************)
EXTENDS Naturals

CONSTANTS
  Threads,      \* thread ids pthread_create may return
  NoThread,     \* logger_thread before the first pthread_create
  Seconds       \* sleeps of one second between two lines (5)

ASSUME ThreadAssumption  == NoThread \notin Threads
ASSUME SecondsAssumption == Seconds \in Nat

VARIABLES
  plugin,       \* where the server is in the plugin's life
  stopLogger,   \* stop_logger
  threadRunning,\* thread_running
  loggerThread, \* logger_thread
  worker,       \* where each thread is in os_logger_worker
  i,            \* the worker's loop variable
  late          \* history: lines and sleeps a worker completed after the stop

flags      == <<stopLogger, threadRunning, loggerThread>>
loggerVars == <<plugin, flags, worker, i, late>>

PluginStates == {"unloaded", "init", "created", "loaded", "failed", "join"}
WorkerStates == {"none", "test", "log", "wait", "sleep", "exited"}
Working      == {"test", "log", "wait", "sleep"}

LoggerTypeOK ==
  /\ plugin \in PluginStates
  /\ stopLogger \in BOOLEAN
  /\ threadRunning \in BOOLEAN
  /\ loggerThread \in Threads \cup {NoThread}
  /\ worker \in [Threads -> WorkerStates]
  /\ i \in [Threads -> 0 .. Seconds]
  /\ late \in [Threads -> Nat]

LoggerInit ==
  /\ plugin = "unloaded"
  /\ stopLogger = FALSE
  /\ threadRunning = FALSE
  /\ loggerThread = NoThread
  /\ worker = [t \in Threads |-> "none"]
  /\ i = [t \in Threads |-> 0]
  /\ late = [t \in Threads |-> 0]

(***************************************************************************)
(* os_logger_init.                                                         *)
(***************************************************************************)
\* Mutant: the flag of an earlier life of the plugin stays.
LoggerInitCallKeeps ==
  /\ plugin = "unloaded"
  /\ plugin' = "init"
  /\ threadRunning' = FALSE
  /\ UNCHANGED <<stopLogger, loggerThread, worker, i, late>>

LoggerInitCall ==
  /\ plugin = "unloaded"
  /\ plugin' = "init"
  /\ stopLogger' = FALSE
  /\ threadRunning' = FALSE
  /\ UNCHANGED <<loggerThread, worker, i, late>>

\* The worker may run before thread_running is set.
CreateThread ==
  /\ plugin = "init"
  /\ plugin' = "created"
  /\ \E t \in Threads :
       /\ worker[t] = "none"
       /\ loggerThread' = t
       /\ worker' = [worker EXCEPT ![t] = "test"]
       /\ late' = [late EXCEPT ![t] = 0]
  /\ UNCHANGED <<stopLogger, threadRunning, i>>

\* Mutant: the result of pthread_create is not looked at.
CreateThreadFailsUnseen ==
  /\ plugin = "init"
  /\ plugin' = "created"
  /\ UNCHANGED <<flags, worker, i, late>>

CreateThreadFails ==
  /\ plugin = "init"
  /\ plugin' = "failed"
  /\ UNCHANGED <<flags, worker, i, late>>

InitReturn ==
  /\ plugin = "created"
  /\ plugin' = "loaded"
  /\ threadRunning' = TRUE
  /\ UNCHANGED <<stopLogger, loggerThread, worker, i, late>>

\* The server drops a plugin whose init failed without calling deinit.
DropFailed ==
  /\ plugin = "failed"
  /\ plugin' = "unloaded"
  /\ UNCHANGED <<flags, worker, i, late>>

(***************************************************************************)
(* os_logger_deinit.                                                       *)
(***************************************************************************)
\* Mutant: deinit waits without asking the worker to stop.
DeinitCallQuiet ==
  /\ plugin \in {"loaded", "failed"}
  /\ plugin' = "join"
  /\ UNCHANGED <<flags, worker, i, late>>

DeinitCall ==
  /\ plugin \in {"loaded", "failed"}
  /\ plugin' = "join"
  /\ stopLogger' = TRUE
  /\ UNCHANGED <<threadRunning, loggerThread, worker, i, late>>

\* Mutant: the thread is left to end on its own.
DetachThread ==
  /\ plugin = "join"
  /\ threadRunning
  /\ plugin' = "unloaded"
  /\ threadRunning' = FALSE
  /\ UNCHANGED <<stopLogger, loggerThread, worker, i, late>>

JoinThread ==
  /\ plugin = "join"
  /\ threadRunning
  /\ worker[loggerThread] = "exited"
  /\ plugin' = "unloaded"
  /\ worker' = [worker EXCEPT ![loggerThread] = "none"]
  /\ threadRunning' = FALSE
  /\ UNCHANGED <<stopLogger, loggerThread, i, late>>

NothingToJoin ==
  /\ plugin = "join"
  /\ ~ threadRunning
  /\ plugin' = "unloaded"
  /\ UNCHANGED <<flags, worker, i, late>>

(***************************************************************************)
(* os_logger_worker.                                                       *)
(***************************************************************************)
CountLate(t) == late' = IF stopLogger THEN [late EXCEPT ![t] = @ + 1] ELSE late

TestLoop(t) ==
  /\ worker[t] = "test"
  /\ worker' = [worker EXCEPT ![t] = IF stopLogger THEN "exited" ELSE "log"]
  /\ UNCHANGED <<plugin, flags, i, late>>

LogLine(t) ==
  /\ worker[t] = "log"
  /\ worker' = [worker EXCEPT ![t] = "wait"]
  /\ i' = [i EXCEPT ![t] = 0]
  /\ CountLate(t)
  /\ UNCHANGED <<plugin, flags>>

\* Mutant: only the loop over lines looks at the flag.
TestTickBlind(t) ==
  /\ worker[t] = "wait"
  /\ worker' = [worker EXCEPT ![t] = IF i[t] < Seconds THEN "sleep" ELSE "test"]
  /\ UNCHANGED <<plugin, flags, i, late>>

\* Mutant: one second too many.
TestTickOneMore(t) ==
  /\ worker[t] = "wait"
  /\ worker' = [worker EXCEPT ![t] =
       IF i[t] <= Seconds /\ ~ stopLogger THEN "sleep" ELSE "test"]
  /\ UNCHANGED <<plugin, flags, i, late>>

TestTick(t) ==
  /\ worker[t] = "wait"
  /\ worker' = [worker EXCEPT ![t] =
       IF i[t] < Seconds /\ ~ stopLogger THEN "sleep" ELSE "test"]
  /\ UNCHANGED <<plugin, flags, i, late>>

Sleep(t) ==
  /\ worker[t] = "sleep"
  /\ worker' = [worker EXCEPT ![t] = "wait"]
  /\ i' = [i EXCEPT ![t] = @ + 1]
  /\ CountLate(t)
  /\ UNCHANGED <<plugin, flags>>

Server ==
  \/ LoggerInitCall \/ CreateThread \/ CreateThreadFails \/ InitReturn \/ DropFailed
  \/ DeinitCall \/ JoinThread \/ NothingToJoin

Worker(t) == TestLoop(t) \/ LogLine(t) \/ TestTick(t) \/ Sleep(t)

LoggerNext == Server \/ \E t \in Threads : Worker(t)

LoggerSpec == LoggerInit /\ [][LoggerNext]_loggerVars

\* A thread that can run is scheduled; sleep(1) returns; so does pthread_join
\* once its thread has exited.
Fairness ==
  /\ WF_loggerVars(JoinThread \/ NothingToJoin)
  /\ \A t \in Threads : WF_loggerVars(Worker(t))

(***************************************************************************)
(* Properties.                                                             *)
(***************************************************************************)

\* When the server unloads the library no thread runs its code or waits to be
\* joined, also after an init that failed.
NoThreadOutlivesPlugin ==
  plugin = "unloaded" => \A t \in Threads : worker[t] = "none"

\* deinit joins a thread only if init created it and nobody has joined it yet,
\* and at no time are there two loggers.
JoinsItsOwnThread ==
  /\ plugin = "join" /\ threadRunning =>
       loggerThread \in Threads /\ worker[loggerThread] # "none"
  /\ \A s, t \in Threads : worker[s] # "none" /\ worker[t] # "none" => s = t

\* An installed plugin logs: its thread has not ended, in a second life of the
\* plugin no more than in the first, although the flag that ended the thread
\* before outlives it.
InstalledLoggerRuns ==
  plugin \in {"created", "loaded"} =>
    \E t \in Threads : worker[t] \notin {"none", "exited"}

\* deinit waits for at most one line of the log or one second of sleep,
\* wherever the worker is when it is told to stop.
StopIsPrompt == \A t \in Threads : late[t] <= 1

\* UNINSTALL PLUGIN and shutdown end.
DeinitEnds == plugin = "join" ~> plugin = "unloaded"

(***************************************************************************)
(* The inductive invariant: there is a worker from CreateThread to the     *)
(* join, it is logger_thread, and a worker that has done its late work is  *)
(* about to see the flag.                                                  *)
(***************************************************************************)
HasWorker == plugin \in {"created", "loaded"} \/ (plugin = "join" /\ threadRunning)

WorkerInv ==
  /\ HasWorker => loggerThread \in Threads
  /\ \A t \in Threads : worker[t] # "none" <=> HasWorker /\ t = loggerThread
  /\ plugin \in {"unloaded", "init", "created", "failed"} => ~ threadRunning
  /\ plugin = "loaded" => threadRunning

StopInv ==
  /\ plugin = "init" => ~ stopLogger
  /\ HasWorker => (stopLogger <=> plugin = "join")
  /\ \A t \in Threads :
       /\ late[t] <= 1
       /\ worker[t] # "none" /\ ~ stopLogger => late[t] = 0 /\ worker[t] # "exited"
       /\ worker[t] \in {"log", "sleep"} => late[t] = 0
       /\ worker[t] = "sleep" => i[t] < Seconds

LoggerIInv == LoggerTypeOK /\ WorkerInv /\ StopInv
=============================================================================
