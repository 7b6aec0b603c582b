--------------------------- MODULE OsLogger_proofs ---------------------------
(***************************************************************************)
(* Proofs about OsLogger, for any set of thread ids and any pause between  *)
(* two lines.                                                              *)
(***************************************************************************)
EXTENDS OsLogger, TLAPS

LEMMA InitIInv == LoggerInit => LoggerIInv
<1> SUFFICES ASSUME LoggerInit PROVE LoggerIInv
  OBVIOUS
<1>1. LoggerTypeOK
  <2>1. 0 \in 0 .. Seconds /\ 0 \in Nat
    BY SecondsAssumption
  <2>2. /\ worker \in [Threads -> WorkerStates]
        /\ i \in [Threads -> 0 .. Seconds]
        /\ late \in [Threads -> Nat]
    BY <2>1 DEF LoggerInit, WorkerStates
  <2>3. QED
    BY <2>2 DEF LoggerInit, LoggerTypeOK, PluginStates
<1>2. WorkerInv
  BY DEF LoggerInit, WorkerInv, HasWorker
<1>3. StopInv
  BY DEF LoggerInit, StopInv, HasWorker
<1>4. QED
  BY <1>1, <1>2, <1>3 DEF LoggerIInv

\* The calls of init and deinit.
LEMMA ServerIInv ==
  ASSUME LoggerIInv, Server
  PROVE  LoggerIInv'
<1> USE DEF LoggerIInv, LoggerTypeOK, WorkerInv, StopInv, HasWorker, PluginStates, WorkerStates, flags
<1>1. CASE LoggerInitCall           BY <1>1 DEF LoggerInitCall
<1>2. CASE CreateThread
  <2>1. PICK t \in Threads :
          /\ loggerThread' = t
          /\ worker' = [worker EXCEPT ![t] = "test"]
          /\ late' = [late EXCEPT ![t] = 0]
    BY <1>2 DEF CreateThread
  <2>2. \A u \in Threads : worker[u] = "none"
    BY <1>2 DEF CreateThread
  <2>3. LoggerTypeOK'
    BY <1>2, <2>1 DEF CreateThread
  <2>4. WorkerInv'
    BY <1>2, <2>1, <2>2 DEF CreateThread
  <2>5. stopLogger = FALSE /\ plugin' = "created" /\ stopLogger' = FALSE
    BY <1>2 DEF CreateThread
  <2>6. StopInv'
    BY <1>2, <2>1, <2>2, <2>5 DEF CreateThread
  <2>7. QED
    BY <2>3, <2>4, <2>6
<1>3. CASE CreateThreadFails  BY <1>3 DEF CreateThreadFails
<1>4. CASE InitReturn         BY <1>4 DEF InitReturn
<1>5. CASE DropFailed         BY <1>5 DEF DropFailed
<1>6. CASE DeinitCall         BY <1>6 DEF DeinitCall
<1>7. CASE JoinThread         BY <1>7 DEF JoinThread
<1>8. CASE NothingToJoin      BY <1>8 DEF NothingToJoin
<1>9. QED
  BY <1>1, <1>2, <1>3, <1>4, <1>5, <1>6, <1>7, <1>8 DEF Server

\* The steps of a worker: the thread that moves is logger_thread.
LEMMA WorkerIInv ==
  ASSUME LoggerIInv, NEW t \in Threads, Worker(t)
  PROVE  LoggerIInv'
<1> USE DEF LoggerIInv, LoggerTypeOK, StopInv, WorkerStates, flags
<1>1. CASE TestLoop(t)
  <2>1. LoggerTypeOK'
    BY <1>1 DEF TestLoop
  <2>2. WorkerInv' /\ StopInv'
    BY <1>1 DEF TestLoop, WorkerInv, HasWorker
  <2>3. QED
    BY <2>1, <2>2
<1>2. CASE LogLine(t)
  <2>1. late[t] = 0
    BY <1>2 DEF LogLine
  <2>2. LoggerTypeOK'
    BY <1>2, SecondsAssumption DEF LogLine, CountLate
  <2>3. WorkerInv' /\ StopInv'
    BY <1>2, <2>1 DEF LogLine, CountLate, WorkerInv, HasWorker
  <2>4. QED
    BY <2>2, <2>3
<1>3. CASE TestTick(t)
  <2>1. LoggerTypeOK'
    BY <1>3 DEF TestTick
  <2>2. WorkerInv' /\ StopInv'
    BY <1>3 DEF TestTick, WorkerInv, HasWorker
  <2>3. QED
    BY <2>1, <2>2
<1>4. CASE Sleep(t)
  <2>1. late[t] = 0 /\ i[t] + 1 \in 0 .. Seconds
    BY <1>4, SecondsAssumption DEF Sleep
  <2>2. LoggerTypeOK'
    BY <1>4, <2>1 DEF Sleep, CountLate
  <2>3. WorkerInv' /\ StopInv'
    BY <1>4, <2>1 DEF Sleep, CountLate, WorkerInv, HasWorker
  <2>4. QED
    BY <2>2, <2>3
<1>5. QED
  BY <1>1, <1>2, <1>3, <1>4 DEF Worker

\* Through every life of the plugin there is at most one worker, and it is the
\* thread deinit will join.
THEOREM Invariance == LoggerSpec => []LoggerIInv
<1>1. LoggerIInv /\ [LoggerNext]_loggerVars => LoggerIInv'
  <2> SUFFICES ASSUME LoggerIInv, [LoggerNext]_loggerVars PROVE LoggerIInv'
    OBVIOUS
  <2>1. CASE UNCHANGED loggerVars
    BY <2>1 DEF loggerVars, flags, LoggerIInv, LoggerTypeOK, WorkerInv, StopInv, HasWorker
  <2>2. QED
    BY <2>1, ServerIInv, WorkerIInv DEF LoggerNext
<1>2. QED
  BY InitIInv, <1>1, PTL DEF LoggerSpec

\* The flags and the loop variables keep their types.
THEOREM TypeCorrect == LoggerSpec => []LoggerTypeOK
<1>1. LoggerIInv => LoggerTypeOK
  BY DEF LoggerIInv
<1>2. QED
  BY <1>1, Invariance, PTL

\* The code is never unloaded under a running or unjoined thread.
THEOREM NoOrphanThread == LoggerSpec => []NoThreadOutlivesPlugin
<1>1. LoggerIInv => NoThreadOutlivesPlugin
  BY DEF LoggerIInv, WorkerInv, HasWorker, NoThreadOutlivesPlugin
<1>2. QED
  BY <1>1, Invariance, PTL

\* deinit joins the thread init created, once.
THEOREM JoinIsSafe == LoggerSpec => []JoinsItsOwnThread
<1>1. LoggerIInv => JoinsItsOwnThread
  BY DEF LoggerIInv, WorkerInv, HasWorker, JoinsItsOwnThread
<1>2. QED
  BY <1>1, Invariance, PTL

\* While the plugin is installed its thread runs, whatever flags the life before
\* left: os_logger_init (os_logger.cpp:29) resets stop_logger.
THEOREM LoggerRuns == LoggerSpec => []InstalledLoggerRuns
<1>1. LoggerIInv => InstalledLoggerRuns
  BY DEF LoggerIInv, WorkerInv, StopInv, HasWorker, InstalledLoggerRuns
<1>2. QED
  BY <1>1, Invariance, PTL

\* Between the request to stop and the end of the thread there is at most one
\* line or one second, for every length of the pause.
THEOREM StopsPromptly == LoggerSpec => []StopIsPrompt
<1>1. LoggerIInv => StopIsPrompt
  BY DEF LoggerIInv, StopInv, StopIsPrompt
<1>2. QED
  BY <1>1, Invariance, PTL
=============================================================================
