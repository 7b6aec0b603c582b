-------------------------- MODULE MyResource_proofs --------------------------
(***************************************************************************)
(* Proofs about MyResource, for any intervals and bounds of the counters.  *)
(***************************************************************************)
EXTENDS MyResource, TLAPS

\* A counter that starts at 0 is within its bound.
LEMMA ZeroCounts == Zero \in Counts
  BY MaxCountAssumption DEF Zero, Counts

\* The rates before the first sample.
LEMMA NoRateType ==
  /\ NoRate \in Rates
  /\ \A c \in Counters : NoRate[c].delta = 0
  BY DEF NoRate, Rates

\* What is left of an interval after the CPU sample.
LEMMA RemainFacts ==
  ASSUME interval \in Intervals
  PROVE  Remain \in Nat \ {0}
  BY IntervalAssumption DEF Remain

LEMMA InitIInv == Init => IInv
<1> SUFFICES ASSUME Init PROVE IInv
  OBVIOUS
<1>1. TypeOK
  <2>1. /\ prev \in Counts /\ count \in Counts /\ base \in Counts
        /\ metrics \in Rates /\ rate \in Rates
    BY ZeroCounts, NoRateType DEF Init
  <2>2. /\ clean \in [Counters -> BOOLEAN]
        /\ counted \in [Counters -> Nat]
        /\ late \in [sleeps : Nat, exchanges : Nat]
    BY DEF Init, Zero
  <2>3. /\ plugin \in PluginStates /\ monitor \in MonitorStates
        /\ running \in BOOLEAN /\ timed \in BOOLEAN
        /\ interval \in Intervals
    BY Zenon DEF Init, PluginStates, MonitorStates
  <2>4. i \in Nat /\ span \in Nat /\ remain \in Nat \ {0}
    BY DEF Init
  <2>5. QED
    BY <2>1, <2>2, <2>3, <2>4 DEF TypeOK
<1>2. ThreadInv /\ StopInv
  BY DEF Init, ThreadInv, StopInv
<1>3. RateInv
  BY NoRateType DEF Init, RateInv, Counters, Zero
<1>4. CountInv
  BY NoRateType DEF Init, CountInv, Zero
<1>5. QED
  BY <1>1, <1>2, <1>3, <1>4 DEF IInv

\* init, deinit and SET GLOBAL.
LEMMA ServerIInv ==
  ASSUME IInv, Server
  PROVE  IInv'
<1> USE DEF IInv, PluginStates, locals, history
<1>1. CASE InitCall
  <2>1. TypeOK'
    BY <1>1 DEF InitCall, TypeOK
  <2>2. CountInv' /\ RateInv'
    BY <1>1 DEF InitCall, CountInv, RateInv
  <2>3. ThreadInv' /\ StopInv'
    BY <1>1 DEF InitCall, ThreadInv, StopInv
  <2>4. QED
    BY <2>1, <2>2, <2>3
<1>2. CASE CreateThread
  <2>1. TypeOK'
    BY <1>2 DEF CreateThread, TypeOK, MonitorStates
  <2>2. CountInv' /\ RateInv'
    BY <1>2 DEF CreateThread, CountInv, RateInv, ThreadInv
  <2>3. ThreadInv' /\ StopInv'
    BY <1>2 DEF CreateThread, ThreadInv, StopInv
  <2>4. QED
    BY <2>1, <2>2, <2>3
<1>3. CASE CreateThreadFails
  <2>1. TypeOK'
    BY <1>3 DEF CreateThreadFails, TypeOK
  <2>2. CountInv' /\ RateInv'
    BY <1>3 DEF CreateThreadFails, CountInv, RateInv
  <2>3. ThreadInv' /\ StopInv'
    BY <1>3 DEF CreateThreadFails, ThreadInv, StopInv
  <2>4. QED
    BY <2>1, <2>2, <2>3
<1>4. CASE DropFailed
  <2>1. TypeOK'
    BY <1>4 DEF DropFailed, TypeOK
  <2>2. CountInv' /\ RateInv'
    BY <1>4 DEF DropFailed, CountInv, RateInv
  <2>3. ThreadInv' /\ StopInv'
    BY <1>4 DEF DropFailed, ThreadInv, StopInv
  <2>4. QED
    BY <2>1, <2>2, <2>3
<1>5. CASE DeinitCall
  <2>1. TypeOK'
    BY <1>5 DEF DeinitCall, TypeOK
  <2>2. CountInv' /\ RateInv'
    BY <1>5 DEF DeinitCall, CountInv, RateInv
  <2>3. ThreadInv' /\ StopInv'
    BY <1>5 DEF DeinitCall, ThreadInv, StopInv
  <2>4. QED
    BY <2>1, <2>2, <2>3
<1>6. CASE JoinThread
  <2>1. TypeOK'
    <3>1. /\ prev' \in Counts /\ count' \in Counts /\ base' \in Counts
          /\ metrics' \in Rates /\ rate' \in Rates
      BY <1>6, ZeroCounts, NoRateType DEF JoinThread, TypeOK
    <3>2. /\ clean' \in [Counters -> BOOLEAN]
          /\ counted' \in [Counters -> Nat]
          /\ late' \in [sleeps : Nat, exchanges : Nat]
      BY <1>6 DEF JoinThread, Zero
    <3>3. /\ plugin' \in PluginStates /\ monitor' \in MonitorStates
          /\ running' \in BOOLEAN /\ timed' \in BOOLEAN
          /\ interval' \in Intervals
      BY <1>6, Zenon DEF JoinThread, TypeOK, MonitorStates
    <3>4. i' \in Nat /\ span' \in Nat /\ remain' \in Nat \ {0}
      BY <1>6 DEF JoinThread
    <3>5. QED
      BY <3>1, <3>2, <3>3, <3>4 DEF TypeOK
  <2>2. ThreadInv' /\ StopInv'
    BY <1>6 DEF JoinThread, ThreadInv, StopInv
  <2>3. RateInv'
    BY <1>6, NoRateType DEF JoinThread, RateInv, Counters, Zero
  <2>4. CountInv'
    BY <1>6, NoRateType DEF JoinThread, CountInv, Zero, TypeOK, Counts
  <2>5. QED
    BY <2>1, <2>2, <2>3, <2>4
<1>7. CASE SetInterval
  <2>1. TypeOK'
    BY <1>7 DEF SetInterval, TypeOK
  <2>2. CountInv' /\ RateInv'
    BY <1>7 DEF SetInterval, CountInv, RateInv
  <2>3. ThreadInv' /\ StopInv'
    BY <1>7 DEF SetInterval, ThreadInv, StopInv
  <2>4. QED
    BY <2>1, <2>2, <2>3
<1>8. QED
  BY <1>1, <1>2, <1>3, <1>4, <1>5, <1>6, <1>7 DEF Server

\* The counters only grow.
LEMMA GrowIInv ==
  ASSUME IInv, NEW c \in Counters, Grow(c)
  PROVE  IInv'
<1> USE DEF IInv, server, locals, history
<1>1. count' \in Counts /\ \A d \in Counters : count[d] <= count'[d]
  <2>1. /\ count \in [Counters -> Nat]
        /\ \A d \in Counters : count[d] <= MaxCount[d] /\ MaxCount[d] \in Nat
    BY MaxCountAssumption DEF TypeOK, Counts
  <2>2. count' = [count EXCEPT ![c] = @ + 1] /\ count[c] < MaxCount[c]
    BY DEF Grow
  <2>3. count' \in [Counters -> Nat]
    BY <2>1, <2>2
  <2>4. \A d \in Counters : count'[d] <= MaxCount[d] /\ count[d] <= count'[d]
    BY <2>1, <2>2
  <2>5. QED
    BY <2>3, <2>4 DEF Counts
<1>2. TypeOK'
  BY <1>1 DEF Grow, TypeOK
<1>3. ThreadInv' /\ StopInv' /\ RateInv'
  BY DEF Grow, ThreadInv, StopInv, RateInv
<1>4. CountInv'
  BY <1>1 DEF Grow, CountInv, TypeOK, Counts
<1>5. QED
  BY <1>2, <1>3, <1>4

\* The steps that take a sample: the delta they put into rate is what they
\* move prev by, unless the sample is not the counter's value.
LEMMA SampledType ==
  ASSUME TypeOK, NEW c \in Counters, NEW ok \in BOOLEAN
  PROVE  /\ Sampled(c, ok) \in Nat
         /\ Sampled(c, ok) <= count[c]
         /\ [prev EXCEPT ![c] = Sampled(c, ok)] \in Counts
<1>1. /\ count \in [Counters -> Nat] /\ prev \in [Counters -> Nat]
      /\ \A d \in Counters : /\ count[d] <= MaxCount[d]
                              /\ prev[d] <= MaxCount[d]
                              /\ MaxCount[d] \in Nat
  BY MaxCountAssumption DEF TypeOK, Counts
<1>2. Sampled(c, ok) \in Nat /\ Sampled(c, ok) <= count[c]
  BY <1>1 DEF Sampled
<1>3. Sampled(c, ok) <= MaxCount[c]
  BY <1>1, <1>2
<1>4. [prev EXCEPT ![c] = Sampled(c, ok)] \in [Counters -> Nat]
  BY <1>1, <1>2
<1>5. \A d \in Counters : [prev EXCEPT ![c] = Sampled(c, ok)][d] <= MaxCount[d]
  BY <1>1, <1>3
<1>6. QED
  BY <1>2, <1>4, <1>5 DEF Counts

LEMMA StartSampleFacts ==
  ASSUME IInv, NEW c \in Counters, NEW ok \in BOOLEAN,
         StartSample(c, ok), monitor \in {"disk0", "db0"},
         UNCHANGED <<rate, count, counted>>
  PROVE  /\ prev' \in Counts
         /\ base' \in Counts
         /\ clean' \in [Counters -> BOOLEAN]
         /\ CountInv'
<1>1. prev' \in Counts
  BY SampledType DEF StartSample, IInv
<1>2. base' \in Counts
  BY MaxCountAssumption DEF StartSample, IInv, TypeOK, Counts
<1>3. clean' \in [Counters -> BOOLEAN]
  BY DEF StartSample, IInv, TypeOK
<1>4. QED
  <2> SUFFICES ASSUME NEW d \in Counters
               PROVE  /\ prev'[d] <= count'[d]
                      /\ clean'[d] =>
                           counted'[d] + rate'[d].delta + base'[d] = prev'[d]
    BY <1>1, <1>2, <1>3 DEF CountInv
  <2>1. /\ prev \in [Counters -> Nat] /\ base \in [Counters -> Nat]
        /\ clean \in [Counters -> BOOLEAN] /\ count \in [Counters -> Nat]
    BY DEF IInv, TypeOK, Counts
  <2>2. counted[c] = 0 /\ rate[c].delta = 0
    BY DEF IInv, RateInv, Counters
  <2>3. prev'[c] = Sampled(c, ok) /\ base'[c] = count[c] /\ clean'[c] = ok
    BY <2>1 DEF StartSample
  <2>4. CASE d = c
    <3>1. prev'[c] <= count'[c]
      BY <2>3, SampledType DEF IInv
    <3>2. ok => prev'[c] = count[c]
      BY <2>3 DEF Sampled
    <3>3. QED
      BY <2>1, <2>2, <2>3, <2>4, <3>1, <3>2
  <2>5. CASE d # c
    BY <2>1, <2>5 DEF StartSample, IInv, CountInv
  <2>6. QED
    BY <2>4, <2>5

\* RateOf gives a rate, and what a good sample adds to prev.
LEMMA RateOfType ==
  ASSUME TypeOK, NEW c \in Counters, NEW v \in Nat
  PROVE  /\ RateOf(c, v).delta \in Nat
         /\ v >= prev[c] => RateOf(c, v).delta = v - prev[c]
         /\ RateOf(c, v).over = interval
         /\ [rate EXCEPT ![c] = RateOf(c, v)] \in Rates
<1>1. prev[c] \in Nat /\ interval \in Intervals
  BY DEF TypeOK, Counts
<1>2. RateOf(c, v).delta \in Nat /\ RateOf(c, v).over = interval
  BY <1>1 DEF RateOf
<1>3. RateOf(c, v) \in [delta : Nat, over : Intervals \cup {1}]
  BY <1>1 DEF RateOf
<1>4. [rate EXCEPT ![c] = RateOf(c, v)] \in Rates
  BY <1>3 DEF TypeOK, Rates
<1>5. v >= prev[c] => RateOf(c, v).delta = v - prev[c]
  BY <1>1 DEF RateOf
<1>6. QED
  BY <1>2, <1>4, <1>5

LEMMA LaterSampleFacts ==
  ASSUME IInv, NEW c \in Counters, NEW ok \in BOOLEAN,
         rate' = [rate EXCEPT ![c] = RateOf(c, Sampled(c, ok))],
         prev' = [prev EXCEPT ![c] = Sampled(c, ok)],
         clean' = [clean EXCEPT ![c] = @ /\ ok],
         rate[c].delta = 0,
         UNCHANGED <<count, base, counted>>
  PROVE  /\ prev' \in Counts
         /\ rate' \in Rates
         /\ clean' \in [Counters -> BOOLEAN]
         /\ rate'[c].over = interval
         /\ CountInv'
<1>1. prev' \in Counts /\ Sampled(c, ok) \in Nat /\ Sampled(c, ok) <= count[c]
  BY SampledType DEF IInv
<1>2. clean' \in [Counters -> BOOLEAN]
  BY DEF IInv, TypeOK
<1>3. rate' \in Rates
  BY <1>1, RateOfType DEF IInv
<1>4. rate'[c] = RateOf(c, Sampled(c, ok))
  BY DEF IInv, TypeOK, Rates
<1>5. rate'[c].over = interval
  BY <1>1, <1>4, RateOfType DEF IInv
<1>6. CountInv'
  <2> SUFFICES ASSUME NEW d \in Counters
               PROVE  /\ prev'[d] <= count'[d]
                      /\ clean'[d] =>
                           counted'[d] + rate'[d].delta + base'[d] = prev'[d]
    BY DEF CountInv
  <2>1. /\ prev \in [Counters -> Nat] /\ base \in [Counters -> Nat]
        /\ counted \in [Counters -> Nat]
        /\ clean \in [Counters -> BOOLEAN] /\ count \in [Counters -> Nat]
    BY DEF IInv, TypeOK, Counts
  <2>2. CASE d = c
    <3>1. prev'[d] = Sampled(c, ok) /\ (clean'[d] = (clean[c] /\ ok))
      BY <2>1, <2>2
    <3>2. prev'[d] <= count'[d]
      BY <1>1, <2>2, <3>1
    <3>3. ASSUME clean'[d]
          PROVE  counted'[d] + rate'[d].delta + base'[d] = prev'[d]
      <4>1. clean[c] /\ ok
        BY <3>1, <3>3
      <4>2. Sampled(c, ok) = count[c] /\ prev[c] <= count[c]
        BY <4>1 DEF Sampled, IInv, CountInv
      <4>3. rate'[c].delta = count[c] - prev[c]
        BY <1>1, <1>4, <2>1, <4>2, RateOfType DEF IInv
      <4>4. counted[c] + base[c] = prev[c]
        BY <2>1, <4>1 DEF IInv, CountInv
      <4>5. QED
        BY <2>1, <2>2, <3>1, <4>2, <4>3, <4>4
    <3>4. QED
      BY <3>2, <3>3
  <2>3. CASE d # c
    <3>1. rate'[d] = rate[d] /\ prev'[d] = prev[d] /\ clean'[d] = clean[d]
      BY <2>1, <2>3 DEF IInv, TypeOK, Rates
    <3>2. QED
      BY <3>1 DEF IInv, CountInv
  <2>4. QED
    BY <2>2, <2>3
<1>7. QED
  BY <1>1, <1>2, <1>3, <1>5, <1>6

\* The thread's counts of what it did after the stop.
LEMMA LaterType ==
  ASSUME TypeOK, NEW k \in {"sleeps", "exchanges"}, Later(k)
  PROVE  /\ late' \in [sleeps : Nat, exchanges : Nat]
         /\ running => late' = late
         /\ ~ running /\ k = "sleeps" => late'.sleeps = late.sleeps + 1
                                         /\ late'.exchanges = late.exchanges
         /\ ~ running /\ k = "exchanges" => late'.exchanges = late.exchanges + 1
                                            /\ late'.sleeps = late.sleeps
  BY DEF Later, TypeOK

\* The steps that read counters.
LEMMA SampleIInv ==
  ASSUME IInv, StartDisk \/ StartDb \/ SampleDisk \/ SampleDb
  PROVE  IInv'
<1> USE DEF server, MonitorStates
<1>0. /\ "bytes" \in Counters /\ "questions" \in Counters
      /\ TypeOK
  BY DEF Counters, IInv
<1>1. CASE StartDisk
  <2>1. PICK ok \in BOOLEAN : StartSample("bytes", ok)
    BY <1>1 DEF StartDisk
  <2>2. /\ prev' \in Counts /\ base' \in Counts
        /\ clean' \in [Counters -> BOOLEAN] /\ CountInv'
    BY <1>0, <1>1, <2>1, StartSampleFacts DEF StartDisk
  <2>3. TypeOK'
    BY <1>1, <2>2 DEF StartDisk, IInv, TypeOK
  <2>4. RateInv'
    BY <1>1 DEF StartDisk, IInv, RateInv
  <2>5. ThreadInv' /\ StopInv'
    BY <1>1 DEF StartDisk, IInv, ThreadInv, StopInv
  <2>6. QED
    BY <2>2, <2>3, <2>4, <2>5 DEF IInv
<1>2. CASE StartDb
  <2>1. PICK a \in Answers : StartSample("questions", a = "answered")
    BY <1>2 DEF StartDb
  <2>2. /\ prev' \in Counts /\ base' \in Counts
        /\ clean' \in [Counters -> BOOLEAN] /\ CountInv'
    BY <1>0, <1>2, <2>1, StartSampleFacts DEF StartDb
  <2>3. TypeOK'
    BY <1>0, <1>2, <2>2, LaterType DEF StartDb, TypeOK
  <2>4. RateInv'
    BY <1>2 DEF StartDb, IInv, RateInv
  <2>5. StopInv'
    BY <1>0, <1>2, LaterType DEF StartDb, IInv, StopInv, ThreadInv, TypeOK, PluginStates
  <2>6. ThreadInv'
    BY <1>2 DEF StartDb, IInv, ThreadInv
  <2>7. QED
    BY <2>2, <2>3, <2>4, <2>5, <2>6 DEF IInv
<1>3. CASE SampleDisk
  <2>1. PICK ok \in BOOLEAN :
          /\ rate'  = [rate EXCEPT !["bytes"] = RateOf("bytes", Sampled("bytes", ok))]
          /\ prev'  = [prev EXCEPT !["bytes"] = Sampled("bytes", ok)]
          /\ clean' = [clean EXCEPT !["bytes"] = @ /\ ok]
    BY <1>3 DEF SampleDisk
  <2>2. rate["bytes"].delta = 0
    BY <1>3 DEF SampleDisk, IInv, RateInv
  <2>3. /\ prev' \in Counts /\ rate' \in Rates
        /\ clean' \in [Counters -> BOOLEAN]
        /\ rate'["bytes"].over = interval /\ CountInv'
    BY <1>0, <1>3, <2>1, <2>2, LaterSampleFacts DEF SampleDisk
  <2>4. TypeOK'
    BY <1>3, <2>3 DEF SampleDisk, IInv, TypeOK
  <2>5. rate'["questions"] = rate["questions"]
    BY <1>0, <2>1 DEF TypeOK, Rates
  <2>6. RateInv'
    BY <1>3, <2>5 DEF SampleDisk, IInv, RateInv
  <2>7. ThreadInv' /\ StopInv'
    BY <1>3 DEF SampleDisk, IInv, ThreadInv, StopInv
  <2>9. QED
    BY <2>3, <2>4, <2>6, <2>7 DEF IInv
<1>4. CASE SampleDb
  <2>1. PICK a \in Answers : \/ a = "refused" /\ DbRefused
                             \/ a # "refused" /\ DbConnected(a = "answered")
    BY <1>4 DEF SampleDb
  <2>2. rate["questions"].delta = 0
    BY <1>4 DEF SampleDb, IInv, RateInv
  <2>3. /\ prev' \in Counts /\ rate' \in Rates
        /\ clean' \in [Counters -> BOOLEAN]
        /\ rate'["questions"].over = interval /\ CountInv'
    <3>1. CASE DbRefused
      <4>1. [delta |-> 0, over |-> interval] \in [delta : Nat, over : Intervals \cup {1}]
        BY <1>0 DEF TypeOK
      <4>2. rate' \in Rates /\ rate'["questions"].over = interval
        BY <1>0, <3>1, <4>1 DEF DbRefused, TypeOK, Rates
      <4>3. \A d \in Counters : rate'[d].delta = rate[d].delta
        BY <1>0, <2>2, <3>1 DEF DbRefused, TypeOK, Rates
      <4>4. CountInv'
        BY <1>4, <3>1, <4>3 DEF SampleDb, DbRefused, IInv, CountInv
      <4>5. QED
        BY <1>0, <3>1, <4>2, <4>4 DEF DbRefused, TypeOK
    <3>2. CASE DbConnected(a = "answered")
      BY <1>0, <1>4, <2>2, <3>2, LaterSampleFacts DEF SampleDb, DbConnected
    <3>3. QED
      BY <2>1, <3>1, <3>2
  <2>4. TypeOK'
    BY <1>0, <1>4, <2>3, LaterType DEF SampleDb, TypeOK
  <2>5. rate'["bytes"] = rate["bytes"]
    BY <1>0, <2>1 DEF DbRefused, DbConnected, TypeOK, Rates
  <2>6. RateInv'
    BY <1>4 DEF SampleDb, RateInv
  <2>7. StopInv'
    BY <1>0, <1>4, LaterType DEF SampleDb, IInv, StopInv, ThreadInv, TypeOK, PluginStates
  <2>8. ThreadInv'
    BY <1>4 DEF SampleDb, IInv, ThreadInv
  <2>10. QED
    BY <2>3, <2>4, <2>6, <2>7, <2>8 DEF IInv
<1>5. QED
  BY <1>1, <1>2, <1>3, <1>4

\* The steps of the loop and of the pauses.
LEMMA LoopIInv ==
  ASSUME IInv, TestLoop \/ MeasureCpu \/ MeasureCpuFails \/ Publish \/ TestTick \/ Sleep
  PROVE  IInv'
<1> USE DEF server, locals, history, MonitorStates
<1>0. /\ TypeOK
      /\ Remain \in Nat \ {0}
      /\ remain \in Nat \ {0} /\ i \in Nat /\ span \in Nat
  BY RemainFacts DEF IInv, TypeOK
<1>1. CASE TestLoop
  <2>1. TypeOK'
    BY <1>0, <1>1 DEF TestLoop, TypeOK
  <2>2. CountInv' /\ RateInv'
    BY <1>1 DEF TestLoop, IInv, CountInv, RateInv
  <2>3. ThreadInv' /\ StopInv'
    BY <1>0, <1>1 DEF TestLoop, IInv, ThreadInv, StopInv, TypeOK, PluginStates
  <2>5. QED
    BY <2>1, <2>2, <2>3 DEF IInv
<1>2. CASE MeasureCpu
  <2>1. TypeOK'
    BY <1>0, <1>2, LaterType DEF MeasureCpu, TypeOK
  <2>2. CountInv' /\ RateInv'
    BY <1>2 DEF MeasureCpu, IInv, CountInv, RateInv
  <2>3. StopInv'
    BY <1>0, <1>2, LaterType DEF MeasureCpu, IInv, StopInv, ThreadInv, TypeOK, PluginStates
  <2>4. ThreadInv'
    BY <1>2 DEF MeasureCpu, IInv, ThreadInv
  <2>6. QED
    BY <2>1, <2>2, <2>3, <2>4 DEF IInv
<1>3. CASE MeasureCpuFails
  <2>1. TypeOK'
    BY <1>0, <1>3 DEF MeasureCpuFails, TypeOK
  <2>2. CountInv' /\ RateInv'
    BY <1>3 DEF MeasureCpuFails, IInv, CountInv, RateInv
  <2>3. ThreadInv' /\ StopInv'
    BY <1>3 DEF MeasureCpuFails, IInv, ThreadInv, StopInv
  <2>4. QED
    BY <2>1, <2>2, <2>3 DEF IInv
<1>4. CASE Publish
  <2>1. \A c \in Counters : /\ rate[c].delta \in Nat /\ base[c] \in Nat
                            /\ counted[c] \in Nat
    BY <1>0 DEF TypeOK, Rates, Counts
  <2>2. counted' \in [Counters -> Nat]
    BY <2>1, <1>4 DEF Publish
  <2>3. TypeOK'
    BY <1>0, <1>4, <2>2, NoRateType DEF Publish, TypeOK
  <2>4. RateInv'
    BY <1>4, NoRateType DEF Publish, RateInv, Counters
  <2>5. CountInv'
    BY <1>4, <2>1, NoRateType DEF Publish, IInv, CountInv
  <2>6. ThreadInv' /\ StopInv'
    BY <1>4 DEF Publish, IInv, ThreadInv, StopInv
  <2>9. QED
    BY <2>3, <2>4, <2>5, <2>6 DEF IInv
<1>5. CASE TestTick
  <2>1. TypeOK'
    BY <1>0, <1>5 DEF TestTick, TypeOK
  <2>2. CountInv' /\ RateInv'
    BY <1>5 DEF TestTick, IInv, CountInv, RateInv
  <2>3. ThreadInv' /\ StopInv'
    BY <1>0, <1>5 DEF TestTick, IInv, ThreadInv, StopInv, TypeOK, PluginStates
  <2>5. QED
    BY <2>1, <2>2, <2>3 DEF IInv
<1>6. CASE Sleep
  <2>1. TypeOK'
    BY <1>0, <1>6, LaterType DEF Sleep, TypeOK
  <2>2. CountInv' /\ RateInv'
    BY <1>6 DEF Sleep, IInv, CountInv, RateInv
  <2>3. StopInv'
    BY <1>0, <1>6, LaterType DEF Sleep, IInv, StopInv, ThreadInv, TypeOK, PluginStates
  <2>4. ThreadInv'
    BY <1>6 DEF Sleep, IInv, ThreadInv
  <2>6. QED
    BY <2>1, <2>2, <2>3, <2>4 DEF IInv
<1>7. QED
  BY <1>1, <1>2, <1>3, <1>4, <1>5, <1>6

\* Through every life of the plugin the thread is where the flags say, and
\* the sampled deltas are accounted for.
THEOREM Invariance == Spec => []IInv
<1>1. IInv /\ [Next]_vars => IInv'
  <2> SUFFICES ASSUME IInv, [Next]_vars PROVE IInv'
    OBVIOUS
  <2>1. CASE UNCHANGED vars
    BY <2>1 DEF vars, server, locals, history, IInv, TypeOK, ThreadInv, StopInv,
                CountInv, RateInv
  <2>2. QED
    BY <2>1, ServerIInv, GrowIInv, SampleIInv, LoopIInv DEF Next, Monitor
<1>2. QED
  BY InitIInv, <1>1, PTL DEF Spec

\* The globals of the plugin and the locals of the thread keep their types.
THEOREM TypeCorrect == Spec => []TypeOK
<1>1. IInv => TypeOK
  BY DEF IInv
<1>2. QED
  BY <1>1, Invariance, PTL

\* The code is never unloaded under the monitor thread.
THEOREM NoOrphanThread == Spec => []NoThreadOutlivesPlugin
<1>1. IInv => NoThreadOutlivesPlugin
  BY DEF IInv, ThreadInv, NoThreadOutlivesPlugin
<1>2. QED
  BY <1>1, Invariance, PTL

\* Between the stop and the end of the thread there is at most one second of
\* sleep and one exchange with the server, for every interval.
THEOREM StopsPromptly == Spec => []StopIsPrompt
<1>1. IInv => StopIsPrompt
  BY DEF IInv, StopInv, StopIsPrompt
<1>2. QED
  BY <1>1, Invariance, PTL

\* Published deltas add up to the growth of the counter between the first and
\* the last sample, whichever connections were refused in between.
THEOREM CountsOnce == Spec => []CountedOnce
<1>1. IInv => CountedOnce
  <2> SUFFICES ASSUME IInv, NEW c \in Counters, clean[c],
                      monitor \in {"test", "cpu", "wait", "sleep", "exited"}
               PROVE  counted[c] + base[c] = prev[c]
    BY DEF CountedOnce
  <2>1. rate[c].delta = 0
    BY DEF IInv, RateInv, Counters
  <2>2. counted[c] \in Nat /\ base[c] \in Nat
    BY DEF IInv, TypeOK, Counts
  <2>3. QED
    BY <2>1, <2>2 DEF IInv, CountInv
<1>2. QED
  BY <1>1, Invariance, PTL

\* While the plugin is installed its thread runs: plugin_init (my_resource.cpp:421)
\* sets g_running again after the life before.
THEOREM MonitorRuns == Spec => []InstalledMonitorRuns
<1>1. IInv => InstalledMonitorRuns
  BY DEF IInv, ThreadInv, InstalledMonitorRuns
<1>2. QED
  BY <1>1, Invariance, PTL
=============================================================================
