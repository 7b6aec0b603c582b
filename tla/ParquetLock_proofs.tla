-------------------------- MODULE ParquetLock_proofs --------------------------
(***************************************************************************)
(* Proofs about ParquetLock, for any sessions, handlers and tables.  The   *)
(* steps that take a handler out of the lists of a THR_LOCK (Release and   *)
(* Timeout) share the lemmas on Leave; TakeLock has its own; the others    *)
(* change no list.                                                         *)
(***************************************************************************)
EXTENDS ParquetLock, FiniteSetTheorems, TLAPS

USE DEF TL_IGNORE, TL_UNLOCK, TL_READ, TL_READ_NO_INSERT, TL_WRITE_ALLOW_WRITE,
        TL_WRITE_CONCURRENT_INSERT, TL_WRITE

\* The READ_NO_INSERT locks that are held on table t.
NoInserts(t) == {h \in Held(t) : type[h] = TL_READ_NO_INSERT}

\* Adding k of the handlers to others adds up, and a set that has a member has
\* a cardinality above 0.
LEMMA Counting ==
  ASSUME NEW A \in SUBSET Handlers, NEW B \in SUBSET Handlers, A \cap B = {}
  PROVE  /\ Cardinality(A) \in Nat /\ Cardinality(B) \in Nat
         /\ Cardinality(A \cup B) = Cardinality(A) + Cardinality(B)
         /\ A # {} => Cardinality(A) > 0
<1>1. IsFiniteSet(A) /\ IsFiniteSet(B)
  BY HandlersAssumption, FS_Subset
<1>2. IsFiniteSet(A \cap B) /\ Cardinality(A \cap B) = 0
  BY FS_EmptySet
<1>3. Cardinality(A) \in Nat /\ Cardinality(B) \in Nat
  BY <1>1, FS_CardinalityType
<1>4. Cardinality(A \cup B) = Cardinality(A) + Cardinality(B) - Cardinality(A \cap B)
  BY <1>1, FS_Union
<1>5. A # {} => Cardinality(A) # 0
  BY <1>1, FS_EmptySet
<1> QED  BY <1>2, <1>3, <1>4, <1>5

\* Taking one handler out of a set of handlers takes one off its cardinality.
LEMMA CountingOne ==
  ASSUME NEW A \in SUBSET Handlers, NEW h \in Handlers
  PROVE  /\ Cardinality(A \ {h}) = IF h \in A THEN Cardinality(A) - 1 ELSE Cardinality(A)
         /\ Cardinality(A \cup {h}) = IF h \in A THEN Cardinality(A) ELSE Cardinality(A) + 1
<1>1. IsFiniteSet(A)
  BY HandlersAssumption, FS_Subset
<1>2. CASE h \in A
  <2>1. Cardinality(A \ {h}) = Cardinality(A) - 1
    BY <1>1, <1>2, FS_RemoveElement
  <2>2. A \cup {h} = A
    BY <1>2
  <2> QED  BY <1>2, <2>1, <2>2
<1>3. CASE h \notin A
  <2>1. A \ {h} = A
    BY <1>3
  <2>2. Cardinality(A \cup {h}) = Cardinality(A) + 1
    BY <1>1, <1>3, FS_AddElement
  <2> QED  BY <1>3, <2>1, <2>2
<1> QED  BY <1>2, <1>3

(***************************************************************************)
(* A handler leaves the lists of its THR_LOCK.                             *)
(***************************************************************************)

\* What Release and Timeout have in common.
Leaves(h) ==
  /\ h \in Handlers /\ status[h] # "none"
  /\ Leave(h)
  /\ type' \in [Handlers -> LockTypes] /\ type'[h] = TL_UNLOCK
  /\ \A g \in Handlers : g # h /\ status[g] # "none" => type'[g] = type[g]

CountedAfter(h) ==
  IF status[h] = "granted" /\ type[h] = TL_READ_NO_INSERT
  THEN read_no_write_count[TableOf[h]] - 1 ELSE read_no_write_count[TableOf[h]]

WokenBy(h) == Woken(TableOf[h], h, CountedAfter(h))

\* Only handlers that wait for the same THR_LOCK wake up.
LEMMA WokenWait ==
  ASSUME NEW h \in Handlers
  PROVE  WokenBy(h) \subseteq Waiting(TableOf[h]) \ {h}
BY DEF WokenBy, Woken, Batch, WaitingReads, WaitingWrites

\* The states after Leave, handler by handler.
LEMMA LeaveStates ==
  ASSUME LockIInv, NEW h, Leaves(h)
  PROVE  /\ WokenBy(h) \subseteq Waiting(TableOf[h]) \ {h}
         /\ status' = [g \in Handlers |-> IF g = h THEN "none"
                         ELSE IF g \in WokenBy(h) THEN "granted" ELSE status[g]]
         /\ ahead' = [g \in Handlers |-> IF g = h \/ g \in WokenBy(h) THEN {}
                         ELSE ahead[g] \ (WokenBy(h) \cup {h})]
         /\ read_no_write_count' = [read_no_write_count EXCEPT ![TableOf[h]] =
              CountedAfter(h) + Cardinality({g \in WokenBy(h) : type[g] = TL_READ_NO_INSERT})]
         /\ TableOf[h] \in Tables
BY WokenWait, TopologyAssumption DEF Leaves, Leave, WokenBy, CountedAfter

\* The count without h is that of the locks held without h.
LEMMA CountedIsExact ==
  ASSUME LockIInv, NEW h, Leaves(h)
  PROVE  CountedAfter(h) = Cardinality(NoInserts(TableOf[h]) \ {h})
<1> DEFINE t == TableOf[h]
<1>1. t \in Tables /\ h \in Handlers /\ NoInserts(t) \in SUBSET Handlers
  BY TopologyAssumption DEF Leaves, NoInserts, Held
<1>2. read_no_write_count[t] = Cardinality(NoInserts(t))
  BY <1>1 DEF LockIInv, NoWriteCountExact, NoInserts
<1>3. h \in NoInserts(t) <=> status[h] = "granted" /\ type[h] = TL_READ_NO_INSERT
  BY <1>1 DEF NoInserts, Held
<1>4. Cardinality(NoInserts(t) \ {h}) =
        IF h \in NoInserts(t) THEN Cardinality(NoInserts(t)) - 1 ELSE Cardinality(NoInserts(t))
  BY <1>1, CountingOne
<1> QED  BY <1>2, <1>3, <1>4 DEF CountedAfter

LEMMA LeaveCount ==
  ASSUME LockIInv, NEW h, Leaves(h)
  PROVE  NoWriteCountExact' /\ read_no_write_count' \in [Tables -> Nat]
<1> DEFINE t == TableOf[h]
           new == {g \in WokenBy(h) : type[g] = TL_READ_NO_INSERT}
<1>1. /\ h \in Handlers /\ t \in Tables
      /\ type' \in [Handlers -> LockTypes] /\ type'[h] = TL_UNLOCK
      /\ read_no_write_count \in [Tables -> Nat]
      /\ status' = [g \in Handlers |-> IF g = h THEN "none"
                      ELSE IF g \in WokenBy(h) THEN "granted" ELSE status[g]]
      /\ WokenBy(h) \subseteq Waiting(t) \ {h}
  BY LeaveStates DEF Leaves, LockIInv, TypeOK
<1>2. \A g \in Handlers : g # h /\ status[g] # "none" => type'[g] = type[g]
  BY DEF Leaves
<1>3. ASSUME NEW u \in Tables
      PROVE  NoInserts(u)' = IF u = t THEN (NoInserts(t) \ {h}) \cup new ELSE NoInserts(u)
  <2>1. ASSUME NEW g \in Handlers, g # h, status'[g] = "granted"
        PROVE  type'[g] = type[g]
    BY <1>1, <1>2, <2>1 DEF Waiting
  <2>2. ASSUME NEW g \in Handlers
        PROVE  g \in NoInserts(u)' <=>
                 g \in IF u = t THEN (NoInserts(t) \ {h}) \cup new ELSE NoInserts(u)
    BY <1>1, <1>2, <2>1 DEF NoInserts, Held, Waiting
  <2>3. new \subseteq Handlers
    BY <1>1 DEF Waiting
  <2> QED  BY <2>2, <2>3 DEF NoInserts, Held
<1>4. /\ NoInserts(t) \ {h} \in SUBSET Handlers /\ new \in SUBSET Handlers
      /\ (NoInserts(t) \ {h}) \cap new = {}
  BY <1>1 DEF NoInserts, Held, Waiting
<1>5. Cardinality((NoInserts(t) \ {h}) \cup new) = CountedAfter(h) + Cardinality(new)
  BY <1>4, Counting, CountedIsExact
<1>6. Cardinality((NoInserts(t) \ {h}) \cup new) \in Nat
  <2> DEFINE both == (NoInserts(t) \ {h}) \cup new
  <2>1. both \in SUBSET Handlers /\ both \cap {} = {}
    BY <1>4
  <2> QED  BY <2>1, Counting
<1>7. read_no_write_count' = [read_no_write_count EXCEPT ![t] = CountedAfter(h) + Cardinality(new)]
  BY LeaveStates
<1>8. \A u \in Tables : read_no_write_count[u] = Cardinality(NoInserts(u))
  BY DEF LockIInv, NoWriteCountExact, NoInserts
<1>9. \A u \in Tables : read_no_write_count'[u] = Cardinality(NoInserts(u)')
  BY <1>1, <1>3, <1>5, <1>7, <1>8
<1>10. NoWriteCountExact'
  BY <1>9 DEF NoWriteCountExact, NoInserts
<1> QED  BY <1>1, <1>5, <1>6, <1>7, <1>10

\* The lists after Leave: a handler is granted, waits and has its type as
\* before, but for h, which is gone, and those that woke up.
LEMMA LeaveLists ==
  ASSUME LockIInv, NEW h, Leaves(h), NEW g \in Handlers
  PROVE  /\ status'[g] = "granted" <=> g # h /\ (status[g] = "granted" \/ g \in WokenBy(h))
         /\ status'[g] = "wait" <=> g # h /\ status[g] = "wait" /\ g \notin WokenBy(h)
         /\ status'[g] # "none" => type'[g] = type[g] /\ status[g] # "none"
         /\ g \in WokenBy(h) => g # h /\ status[g] = "wait" /\ TableOf[g] = TableOf[h]
         /\ status'[g] = "wait" => ahead'[g] = ahead[g] \ (WokenBy(h) \cup {h})
<1>1. /\ WokenBy(h) \subseteq Waiting(TableOf[h]) \ {h}
      /\ status' = [f \in Handlers |-> IF f = h THEN "none"
                      ELSE IF f \in WokenBy(h) THEN "granted" ELSE status[f]]
      /\ ahead' = [f \in Handlers |-> IF f = h \/ f \in WokenBy(h) THEN {}
                      ELSE ahead[f] \ (WokenBy(h) \cup {h})]
  BY LeaveStates
<1>2. /\ status \in [Handlers -> {"none", "wait", "granted"}]
      /\ \A f \in Handlers : f # h /\ status[f] # "none" => type'[f] = type[f]
  BY DEF LockIInv, TypeOK, Leaves
<1> QED  BY <1>1, <1>2 DEF Waiting

LEMMA LeaveInLine ==
  ASSUME LockIInv, NEW h, Leaves(h)
  PROVE  InLine'
<1> SUFFICES ASSUME NEW f \in Handlers, NEW g \in Handlers, TableOf[f] = TableOf[g], f # g,
                    (f \in WaitingWrites(TableOf[f]))', (g \in WaitingWrites(TableOf[g]))'
             PROVE  (f \in ahead[g] \/ g \in ahead[f])'
  BY DEF InLine
<1>1. status'[f] = "wait" /\ status'[g] = "wait" /\ ~ IsRead(type'[f]) /\ ~ IsRead(type'[g])
  BY DEF WaitingWrites, WaitingReads, Waiting
<1>2. /\ f # h /\ status[f] = "wait" /\ f \notin WokenBy(h) /\ type'[f] = type[f]
      /\ g # h /\ status[g] = "wait" /\ g \notin WokenBy(h) /\ type'[g] = type[g]
      /\ ahead'[f] = ahead[f] \ (WokenBy(h) \cup {h})
      /\ ahead'[g] = ahead[g] \ (WokenBy(h) \cup {h})
  BY <1>1, LeaveLists
<1>3. f \in WaitingWrites(TableOf[f]) /\ g \in WaitingWrites(TableOf[g])
  BY <1>1, <1>2 DEF WaitingWrites, WaitingReads, Waiting
<1>4. f \in ahead[g] \/ g \in ahead[f]
  BY <1>3 DEF LockIInv, InLine
<1> QED  BY <1>2, <1>4

\* A handler that wakes up with a lock that allows no other is alone with it.
LEMMA WokenAlone ==
  ASSUME LockIInv, NEW h, Leaves(h), NEW g \in WokenBy(h), type[g] = TL_WRITE
  PROVE  WokenBy(h) = {g} /\ \A f \in Held(TableOf[h]) : f = h
<1> DEFINE t == TableOf[h]
<1>1. g \in Handlers /\ status[g] = "wait" /\ TableOf[g] = t /\ g # h
  BY LeaveStates DEF Waiting
<1>2. g \in WaitingWrites(t) \ {h} /\ g \notin WaitingReads(t)
  BY <1>1 DEF WaitingWrites, WaitingReads, Waiting, IsRead
<1>3. HeldWrites(t) \ {h} = {} /\ g \in Batch(t, h)
  BY <1>2 DEF WokenBy, Woken
<1>4. ~ (\A f \in Batch(t, h) : type[f] = TL_WRITE_ALLOW_WRITE)
  BY <1>3
<1>5. HeldReads(t) \ {h} = {} /\ WokenBy(h) = Batch(t, h)
  BY <1>2, <1>3, <1>4 DEF WokenBy, Woken
<1>6. ahead[g] \subseteq {h}
  BY <1>3 DEF Batch
<1>7. ASSUME NEW f \in Batch(t, h), f # g PROVE FALSE
  <2>1. f \in WaitingWrites(t) /\ f # h /\ f \in Handlers /\ TableOf[f] = t
    BY DEF Batch, WaitingWrites, WaitingReads, Waiting
  <2>2. f \in ahead[g] \/ g \in ahead[f]
    BY <1>1, <1>2, <1>7, <2>1 DEF LockIInv, InLine
  <2>3. g \in ahead[f]
    BY <1>6, <2>1, <2>2
  <2>4. \A e \in (ahead[f] \ {h}) \cup {f} : type[e] = TL_WRITE_ALLOW_WRITE
    BY <1>1, <2>3 DEF Batch
  <2> QED  BY <1>1, <2>3, <2>4
<1>8. \A f \in Held(t) : f = h
  BY <1>3, <1>5 DEF HeldWrites
<1> QED  BY <1>3, <1>5, <1>7, <1>8

LEMMA LeaveExclusive ==
  ASSUME LockIInv, NEW h, Leaves(h)
  PROVE  ExclusiveLocks'
<1> SUFFICES ASSUME NEW f \in Handlers, NEW g \in Handlers, TableOf[f] = TableOf[g],
                    status'[f] = "granted", status'[g] = "granted", type'[f] = TL_WRITE
             PROVE  Owner[g] = Owner[f]
  BY DEF ExclusiveLocks
<1>1. /\ f # h /\ g # h /\ type[f] = TL_WRITE
      /\ status[f] = "granted" \/ f \in WokenBy(h)
      /\ status[g] = "granted" \/ g \in WokenBy(h)
      /\ f \in WokenBy(h) => TableOf[f] = TableOf[h]
      /\ g \in WokenBy(h) => TableOf[g] = TableOf[h]
  BY LeaveLists
<1>2. CASE f \in WokenBy(h)
  <2>1. WokenBy(h) = {f} /\ \A e \in Held(TableOf[h]) : e = h
    BY <1>1, <1>2, WokenAlone
  <2>2. status[g] = "granted" => g \in Held(TableOf[h])
    BY <1>1, <1>2 DEF Held
  <2> QED  BY <1>1, <2>1, <2>2
<1>3. CASE f \notin WokenBy(h) /\ g \in WokenBy(h)
  <2>1. f \in HeldWrites(TableOf[h]) \ {h}
    BY <1>1, <1>3 DEF HeldWrites, HeldReads, Held, IsRead
  <2>2. WokenBy(h) = {}
    BY <2>1 DEF WokenBy, Woken
  <2> QED  BY <1>3, <2>2
<1>4. CASE f \notin WokenBy(h) /\ g \notin WokenBy(h)
  BY <1>1, <1>4 DEF LockIInv, ExclusiveLocks
<1> QED  BY <1>2, <1>3, <1>4

\* A write lock is TL_WRITE or TL_WRITE_ALLOW_WRITE, and TL_WRITE is of a
\* session in LOCK TABLES.
LEMMA WriteTypes ==
  ASSUME LockIInv, NEW h \in Handlers, ~ IsRead(type[h])
  PROVE  /\ type[h] \in {TL_WRITE, TL_WRITE_ALLOW_WRITE}
         /\ in_lock_tables[Owner[h]] <=> type[h] = TL_WRITE
BY DEF LockIInv, UsedTypes, UsedType, TypesOf, IsRead

LEMMA LeaveKeptOutSame ==
  ASSUME LockIInv, NEW h, Leaves(h), NEW g \in Handlers, TableOf[g] = TableOf[h],
         status'[g] = "wait", type'[g] = TL_READ
  PROVE  KeptOut(TableOf[h])'
<1> DEFINE t == TableOf[h]
           allows == \A f \in Batch(t, h) : type[f] = TL_WRITE_ALLOW_WRITE
<1>1. /\ status[g] = "wait" /\ g \notin WokenBy(h) /\ type[g] = TL_READ
      /\ g \in WaitingReads(t) \ {h} /\ h \in Handlers
  BY LeaveLists DEF Leaves, WaitingReads, Waiting, IsRead
<1>2. KeptOut(t)
  BY <1>1 DEF LockIInv, WaitingReadsKeptOut
<1>3. CASE HeldWrites(t) \ {h} # {}
  <2>1. PICK e \in HeldWrites(t) \ {h} : type[e] = TL_WRITE
    <3>1. PICK e \in HeldWrites(t) : type[e] = TL_WRITE
      BY <1>2, <1>3 DEF KeptOut
    <3>2. CASE e = h
      <4>1. PICK f \in HeldWrites(t) : f # h
        BY <1>3
      <4>2. f \in Handlers /\ status[f] = "granted" /\ TableOf[f] = t /\ ~ IsRead(type[f])
        BY <4>1 DEF HeldWrites, HeldReads, Held
      <4>3. status[h] = "granted" /\ type[h] = TL_WRITE /\ ~ IsRead(type[h])
        BY <3>1, <3>2 DEF HeldWrites, HeldReads, Held
      <4>4. Owner[f] = Owner[h]
        BY <1>1, <4>2, <4>3 DEF LockIInv, ExclusiveLocks
      <4>5. type[f] = TL_WRITE
        BY <1>1, <4>2, <4>3, <4>4, WriteTypes
      <4> QED  BY <4>1, <4>5
    <3> QED  BY <3>1, <3>2
  <2>2. e \in Handlers /\ TableOf[e] = t /\ status[e] = "granted" /\ e # h
    BY <2>1 DEF HeldWrites, Held
  <2>3. status'[e] = "granted" /\ type'[e] = TL_WRITE
    BY <2>1, <2>2, LeaveLists
  <2> QED  BY <2>2, <2>3 DEF KeptOut, HeldWrites, HeldReads, Held, IsRead
<1>4. CASE HeldWrites(t) \ {h} = {} /\ allows
  <2>1. /\ WaitingWrites(t) \ {h} # {}
        /\ HeldReads(t) \ {h} # {} /\ CountedAfter(h) # 0
    BY <1>1, <1>4 DEF WokenBy, Woken
  <2>2. WokenBy(h) = {}
    BY <1>4, <2>1 DEF WokenBy, Woken
  <2>3. NoInserts(t) \ {h} # {}
    BY <2>1, CountedIsExact, FS_EmptySet
  <2>4. PICK e \in Handlers : e # h /\ status[e] = "granted" /\ TableOf[e] = t
                            /\ type[e] = TL_READ_NO_INSERT
    BY <2>3 DEF NoInserts, Held
  <2>5. status'[e] = "granted" /\ type'[e] = TL_READ_NO_INSERT
    BY <2>4, LeaveLists
  <2>6. ASSUME NEW f \in HeldWrites(t)' PROVE FALSE
    <3>1. f \in Handlers /\ status'[f] = "granted" /\ TableOf[f] = t /\ ~ IsRead(type'[f])
      BY DEF HeldWrites, HeldReads, Held
    <3>2. f # h /\ status[f] = "granted" /\ type[f] = type'[f]
      BY <2>2, <3>1, LeaveLists
    <3> QED  BY <1>4, <3>1, <3>2 DEF HeldWrites, HeldReads, Held
  <2> QED  BY <2>4, <2>5, <2>6 DEF KeptOut, Held
<1>5. CASE HeldWrites(t) \ {h} = {} /\ ~ allows
  <2>1. PICK e \in Batch(t, h) : type[e] # TL_WRITE_ALLOW_WRITE
    BY <1>5
  <2>2. /\ e \in Handlers /\ TableOf[e] = t /\ status[e] = "wait" /\ e # h
        /\ ~ IsRead(type[e]) /\ e \in WaitingWrites(t)
    BY <2>1 DEF Batch, WaitingWrites, WaitingReads, Waiting
  <2>3. type[e] = TL_WRITE
    BY <2>1, <2>2, WriteTypes
  <2>4. CASE HeldReads(t) \ {h} # {}
    <3>1. WokenBy(h) = {}
      BY <1>5, <2>2, <2>4 DEF WokenBy, Woken
    <3>2. status'[e] = "wait" /\ type'[e] = TL_WRITE
      BY <2>2, <2>3, <3>1, LeaveLists
    <3>3. ASSUME NEW f \in HeldWrites(t)' PROVE FALSE
      <4>1. f \in Handlers /\ status'[f] = "granted" /\ TableOf[f] = t /\ ~ IsRead(type'[f])
        BY DEF HeldWrites, HeldReads, Held
      <4>2. f # h /\ status[f] = "granted" /\ type[f] = type'[f]
        BY <3>1, <4>1, LeaveLists
      <4> QED  BY <1>5, <4>1, <4>2 DEF HeldWrites, HeldReads, Held
    <3>4. (e \in WaitingWrites(t))'
      BY <2>2, <3>2 DEF WaitingWrites, WaitingReads, Waiting, IsRead
    <3> QED  BY <3>2, <3>3, <3>4 DEF KeptOut
  <2>5. CASE HeldReads(t) \ {h} = {}
    <3>1. e \in WokenBy(h)
      BY <1>5, <2>1, <2>2, <2>5 DEF WokenBy, Woken
    <3>2. status'[e] = "granted" /\ type'[e] = TL_WRITE
      BY <2>2, <2>3, <3>1, LeaveLists
    <3> QED  BY <2>2, <3>2 DEF KeptOut, HeldWrites, HeldReads, Held, IsRead
  <2> QED  BY <2>4, <2>5
<1> QED  BY <1>3, <1>4, <1>5

LEMMA LeaveKeptOut ==
  ASSUME LockIInv, NEW h, Leaves(h)
  PROVE  WaitingReadsKeptOut'
<1> SUFFICES ASSUME NEW g \in Handlers, status'[g] = "wait", type'[g] = TL_READ
             PROVE  KeptOut(TableOf[g])'
  BY DEF WaitingReadsKeptOut
<1>1. CASE TableOf[g] = TableOf[h]
  BY <1>1, LeaveKeptOutSame
<1>2. CASE TableOf[g] # TableOf[h]
  <2> DEFINE t == TableOf[g]
  <2>1. h \in Handlers /\ status[g] = "wait" /\ type[g] = TL_READ
    BY LeaveLists DEF Leaves
  <2>2. KeptOut(t)
    BY <2>1 DEF LockIInv, WaitingReadsKeptOut
  <2>3. ASSUME NEW f \in Handlers, TableOf[f] = t
        PROVE  /\ status'[f] = "granted" <=> status[f] = "granted"
               /\ status'[f] = "wait" <=> status[f] = "wait"
               /\ status[f] \in {"granted", "wait"} => type'[f] = type[f]
    BY <1>2, <2>3, LeaveLists
  <2>4. Held(t)' = Held(t) /\ Waiting(t)' = Waiting(t)
    BY <2>3 DEF Held, Waiting
  <2>5. HeldWrites(t)' = HeldWrites(t) /\ WaitingWrites(t)' = WaitingWrites(t)
    BY <2>3, <2>4 DEF HeldWrites, HeldReads, WaitingWrites, WaitingReads, Held, Waiting
  <2>6. \A f \in Held(t) \cup Waiting(t) : type'[f] = type[f]
    BY <2>3 DEF Held, Waiting
  <2>7. HeldWrites(t) \subseteq Held(t) /\ WaitingWrites(t) \subseteq Waiting(t)
    BY DEF HeldWrites, WaitingWrites
  <2> QED  BY <2>2, <2>4, <2>5, <2>6, <2>7 DEF KeptOut
<1> QED  BY <1>1, <1>2

(***************************************************************************)
(* A handler enters the lists of its THR_LOCK.                             *)
(***************************************************************************)

\* What TakeLock(s) does to handler h.
Granted(h) == IF IsRead(type[h]) THEN ReadGranted(h) ELSE WriteGranted(h)

Takes(h) ==
  /\ h \in Handlers /\ status[h] = "none" /\ type[h] # TL_UNLOCK
  /\ status' = [status EXCEPT ![h] = IF Granted(h) THEN "granted" ELSE "wait"]
  /\ ahead' = IF Granted(h) \/ IsRead(type[h]) THEN ahead
              ELSE [ahead EXCEPT ![h] = WaitingWrites(TableOf[h])]
  /\ read_no_write_count' =
       IF Granted(h) /\ type[h] = TL_READ_NO_INSERT
       THEN [read_no_write_count EXCEPT ![TableOf[h]] = @ + 1] ELSE read_no_write_count
  /\ UNCHANGED <<type, in_lock_tables, write_locks>>

LEMMA TakeCount ==
  ASSUME LockIInv, NEW h, Takes(h)
  PROVE  NoWriteCountExact' /\ read_no_write_count' \in [Tables -> Nat]
<1> DEFINE t == TableOf[h]
<1>1. /\ h \in Handlers /\ t \in Tables /\ status[h] = "none"
      /\ type' = type /\ read_no_write_count \in [Tables -> Nat]
      /\ status \in [Handlers -> {"none", "wait", "granted"}]
      /\ status' = [status EXCEPT ![h] = IF Granted(h) THEN "granted" ELSE "wait"]
      /\ read_no_write_count' =
           IF Granted(h) /\ type[h] = TL_READ_NO_INSERT
           THEN [read_no_write_count EXCEPT ![t] = @ + 1] ELSE read_no_write_count
  BY TopologyAssumption DEF Takes, LockIInv, TypeOK
<1>2. \A u \in Tables : NoInserts(u)' =
        IF u = t /\ Granted(h) /\ type[h] = TL_READ_NO_INSERT
        THEN NoInserts(u) \cup {h} ELSE NoInserts(u)
  BY <1>1 DEF NoInserts, Held
<1>3. NoInserts(t) \in SUBSET Handlers /\ h \notin NoInserts(t)
  BY <1>1 DEF NoInserts, Held
<1>4. Cardinality(NoInserts(t) \cup {h}) = Cardinality(NoInserts(t)) + 1
  BY <1>1, <1>3, CountingOne
<1>5. \A u \in Tables : read_no_write_count[u] = Cardinality(NoInserts(u))
  BY DEF LockIInv, NoWriteCountExact, NoInserts
<1>6. \A u \in Tables : read_no_write_count'[u] = Cardinality(NoInserts(u)')
  BY <1>1, <1>2, <1>4, <1>5
<1>7. NoWriteCountExact'
  BY <1>6 DEF NoWriteCountExact, NoInserts
<1> QED  BY <1>1, <1>7

LEMMA TakeInLine ==
  ASSUME LockIInv, NEW h, Takes(h)
  PROVE  InLine'
<1> SUFFICES ASSUME NEW f \in Handlers, NEW g \in Handlers, TableOf[f] = TableOf[g], f # g,
                    (f \in WaitingWrites(TableOf[f]))', (g \in WaitingWrites(TableOf[g]))'
             PROVE  (f \in ahead[g] \/ g \in ahead[f])'
  BY DEF InLine
<1>1. /\ status' = [status EXCEPT ![h] = IF Granted(h) THEN "granted" ELSE "wait"]
      /\ ahead' = IF Granted(h) \/ IsRead(type[h]) THEN ahead
                  ELSE [ahead EXCEPT ![h] = WaitingWrites(TableOf[h])]
      /\ type' = type /\ h \in Handlers
      /\ status \in [Handlers -> {"none", "wait", "granted"}]
      /\ ahead \in [Handlers -> SUBSET Handlers]
  BY DEF Takes, LockIInv, TypeOK
<1>2. /\ status'[f] = "wait" /\ ~ IsRead(type[f])
      /\ status'[g] = "wait" /\ ~ IsRead(type[g])
  BY <1>1 DEF WaitingWrites, WaitingReads, Waiting
<1>3. \A e \in {f, g} : e # h => e \in WaitingWrites(TableOf[e])
  BY <1>1, <1>2 DEF WaitingWrites, WaitingReads, Waiting
<1>4. CASE f # h /\ g # h
  <2>1. f \in ahead[g] \/ g \in ahead[f]
    BY <1>3, <1>4 DEF LockIInv, InLine
  <2> QED  BY <1>1, <1>4, <2>1
<1>5. CASE f = h \/ g = h
  <2>1. ~ Granted(h) /\ ~ IsRead(type[h])
    BY <1>1, <1>2, <1>5
  <2>2. ahead'[h] = WaitingWrites(TableOf[h])
    BY <1>1, <2>1
  <2> QED  BY <1>3, <1>5, <2>2
<1> QED  BY <1>4, <1>5

LEMMA TakeExclusive ==
  ASSUME LockIInv, NEW h, Takes(h)
  PROVE  ExclusiveLocks'
<1> SUFFICES ASSUME NEW f \in Handlers, NEW g \in Handlers, TableOf[f] = TableOf[g],
                    status'[f] = "granted", status'[g] = "granted", type'[f] = TL_WRITE
             PROVE  Owner[g] = Owner[f]
  BY DEF ExclusiveLocks
<1> DEFINE t == TableOf[h]
<1>1. /\ status' = [status EXCEPT ![h] = IF Granted(h) THEN "granted" ELSE "wait"]
      /\ type' = type /\ h \in Handlers /\ status[h] = "none"
      /\ status \in [Handlers -> {"none", "wait", "granted"}]
  BY DEF Takes, LockIInv, TypeOK
<1>2. type[f] = TL_WRITE /\ ~ IsRead(type[f])
  BY <1>1 DEF IsRead
<1>3. CASE f # h /\ g # h
  BY <1>1, <1>2, <1>3 DEF LockIInv, ExclusiveLocks
<1>4. CASE f # h /\ g = h
  <2>1. f \in HeldWrites(t) /\ Granted(h)
    BY <1>1, <1>2, <1>4 DEF HeldWrites, HeldReads, Held
  <2>2. PICK e \in HeldWrites(t) : Owner[e] = Owner[h]
    BY <1>2, <2>1 DEF Granted, ReadGranted, WriteGranted
  <2>3. status[e] = "granted" /\ TableOf[e] = t /\ e \in Handlers
    BY <2>2 DEF HeldWrites, Held
  <2>4. status[f] = "granted"
    BY <1>1, <1>4
  <2>5. Owner[e] = Owner[f]
    BY <1>2, <1>4, <2>3, <2>4 DEF LockIInv, ExclusiveLocks
  <2> QED  BY <1>4, <2>2, <2>5
<1>5. CASE f = h /\ g # h
  <2>1. WriteGranted(h)
    BY <1>1, <1>2, <1>5 DEF Granted
  <2>2. g \in Held(t) /\ status[g] = "granted"
    BY <1>1, <1>5 DEF Held
  <2>3. HeldWrites(t) # {}
    BY <1>2, <1>5, <2>1, <2>2 DEF WriteGranted, BesideReads, HeldWrites
  <2>4. PICK e \in HeldWrites(t) : Owner[e] = Owner[h]
    BY <1>2, <1>5, <2>1, <2>3 DEF WriteGranted
  <2>5. e \in Handlers /\ TableOf[e] = t /\ status[e] = "granted" /\ ~ IsRead(type[e])
    BY <2>4 DEF HeldWrites, HeldReads, Held
  <2>6. type[e] = TL_WRITE
    BY <1>1, <1>2, <1>5, <2>4, <2>5, WriteTypes
  <2>7. Owner[g] = Owner[e]
    BY <1>5, <2>2, <2>5, <2>6 DEF LockIInv, ExclusiveLocks
  <2> QED  BY <1>5, <2>4, <2>7
<1> QED  BY <1>3, <1>4, <1>5

\* A lock that is given to h lets no read in that was kept out, and a read that
\* has to wait is kept out.
LEMMA TakeKeptOut ==
  ASSUME LockIInv, NEW h, Takes(h)
  PROVE  WaitingReadsKeptOut'
<1> SUFFICES ASSUME NEW g \in Handlers, status'[g] = "wait", type'[g] = TL_READ
             PROVE  KeptOut(TableOf[g])'
  BY DEF WaitingReadsKeptOut
<1> DEFINE t == TableOf[g]
<1>1. /\ status' = [status EXCEPT ![h] = IF Granted(h) THEN "granted" ELSE "wait"]
      /\ type' = type /\ h \in Handlers /\ status[h] = "none"
      /\ status \in [Handlers -> {"none", "wait", "granted"}]
  BY DEF Takes, LockIInv, TypeOK
<1>2. KeptOut(t)
  <2>1. CASE g # h
    <3>1. status[g] = "wait" /\ type[g] = TL_READ
      BY <1>1, <2>1
    <3> QED  BY <3>1 DEF LockIInv, WaitingReadsKeptOut
  <2>2. CASE g = h
    <3>1. ~ ReadGranted(h)
      BY <1>1, <2>2 DEF Granted, IsRead
    <3>2. CASE HeldWrites(t) # {}
      <4>1. PICK e \in HeldWrites(t) : type[e] # TL_WRITE_ALLOW_WRITE
        BY <2>2, <3>1, <3>2 DEF ReadGranted
      <4>2. e \in Handlers /\ ~ IsRead(type[e])
        BY <4>1 DEF HeldWrites, HeldReads, Held
      <4>3. type[e] = TL_WRITE
        BY <4>1, <4>2, WriteTypes
      <4> QED  BY <4>1, <4>3 DEF KeptOut
    <3>3. CASE HeldWrites(t) = {}
      BY <2>2, <3>1, <3>3 DEF ReadGranted, KeptOut
    <3> QED  BY <3>2, <3>3
  <2> QED  BY <2>1, <2>2
<1>3. \A e \in Handlers : /\ status[e] = "granted" => status'[e] = "granted"
                          /\ status[e] = "wait" => status'[e] = "wait"
  BY <1>1
<1>4. CASE \E e \in HeldWrites(t) : type[e] = TL_WRITE
  BY <1>1, <1>3, <1>4 DEF KeptOut, HeldWrites, HeldReads, Held
<1>5. CASE ~ \E e \in HeldWrites(t) : type[e] = TL_WRITE
  <2>1. /\ HeldWrites(t) = {}
        /\ \/ \E e \in WaitingWrites(t) : type[e] = TL_WRITE
           \/ \E e \in Held(t) : type[e] = TL_READ_NO_INSERT
    BY <1>2, <1>5 DEF KeptOut
  <2>2. (\E e \in WaitingWrites(t) : type[e] = TL_WRITE) \/ (\E e \in Held(t) : type[e] = TL_READ_NO_INSERT)
        => ((\E e \in WaitingWrites(t) : type[e] = TL_WRITE) \/ (\E e \in Held(t) : type[e] = TL_READ_NO_INSERT))'
    BY <1>1, <1>3 DEF WaitingWrites, WaitingReads, Waiting, Held
  <2>3. HeldWrites(t)' = {}
    <3> SUFFICES ASSUME NEW e \in HeldWrites(t)' PROVE FALSE
      OBVIOUS
    <3>1. e \in Handlers /\ TableOf[e] = t /\ status'[e] = "granted" /\ ~ IsRead(type[e])
      BY <1>1 DEF HeldWrites, HeldReads, Held
    <3>2. e = h
      BY <1>1, <2>1, <3>1 DEF HeldWrites, HeldReads, Held
    <3>3. WriteGranted(h)
      BY <1>1, <3>1, <3>2 DEF Granted
    <3>4. WaitingWrites(t) = {} /\ BesideReads(type[h], t)
      BY <2>1, <3>1, <3>2, <3>3 DEF WriteGranted
    <3>5. PICK i \in Held(t) : type[i] = TL_READ_NO_INSERT
      BY <2>1, <3>4
    <3>6. i \in HeldReads(t) /\ i \in NoInserts(t)
      BY <3>5 DEF HeldReads, NoInserts, IsRead
    <3>7. read_no_write_count[t] = 0
      BY <3>4, <3>6 DEF BesideReads
    <3>8. t \in Tables /\ read_no_write_count[t] = Cardinality(NoInserts(t))
      BY TopologyAssumption DEF LockIInv, NoWriteCountExact, NoInserts
    <3>9. NoInserts(t) \in SUBSET Handlers /\ NoInserts(t) \cap {} = {} /\ {} \in SUBSET Handlers
      BY DEF NoInserts, Held
    <3>10. Cardinality(NoInserts(t)) > 0
      BY <3>6, <3>9, Counting
    <3> QED  BY <3>7, <3>8, <3>10
  <2> QED  BY <2>1, <2>2, <2>3 DEF KeptOut
<1> QED  BY <1>4, <1>5

(***************************************************************************)
(* The actions.                                                            *)
(***************************************************************************)

Lists == InLine /\ ExclusiveLocks /\ NoWriteCountExact /\ WaitingReadsKeptOut

\* As long as no handler moves and no lock in a list changes its type, what is
\* said of the lists stays true.
LEMMA ListsUnmoved ==
  ASSUME LockIInv, UNCHANGED <<status, ahead, read_no_write_count>>,
         \A g \in Handlers : status[g] # "none" => type'[g] = type[g]
  PROVE  Lists'
<1>1. ASSUME NEW t
      PROVE  /\ Held(t)' = Held(t) /\ Waiting(t)' = Waiting(t)
             /\ HeldWrites(t)' = HeldWrites(t) /\ WaitingWrites(t)' = WaitingWrites(t)
             /\ NoInserts(t)' = NoInserts(t)
             /\ \A g \in Held(t) \cup Waiting(t) : type'[g] = type[g]
  BY DEF Held, Waiting, HeldWrites, HeldReads, WaitingWrites, WaitingReads, NoInserts
<1>2. InLine'
  BY <1>1 DEF LockIInv, InLine
<1>3. ExclusiveLocks'
  BY DEF LockIInv, ExclusiveLocks
<1>4. NoWriteCountExact'
  BY <1>1 DEF LockIInv, NoWriteCountExact, NoInserts
<1>5. WaitingReadsKeptOut'
  <2> SUFFICES ASSUME NEW g \in Handlers, status'[g] = "wait", type'[g] = TL_READ
               PROVE  KeptOut(TableOf[g])'
    BY DEF WaitingReadsKeptOut
  <2> DEFINE t == TableOf[g]
  <2>1. KeptOut(t)
    BY DEF LockIInv, WaitingReadsKeptOut
  <2>2. HeldWrites(t) \subseteq Held(t) /\ WaitingWrites(t) \subseteq Waiting(t)
    BY DEF HeldWrites, WaitingWrites
  <2> QED  BY <1>1, <2>1, <2>2 DEF KeptOut
<1> QED  BY <1>2, <1>3, <1>4, <1>5 DEF Lists

\* store_lock leaves a lock in use as it is, and gives another a type that its
\* session may have.
LEMMA StoreLockTypes ==
  /\ \A old \in LockTypes, inLock \in BOOLEAN : StoreLock(old, TL_IGNORE, inLock) = old
  /\ \A k \in LockTablesAsks \cup {TL_UNLOCK} : StoreLock(TL_UNLOCK, k, TRUE) = k
  /\ \A k \in StatementAsks \cup {TL_UNLOCK} :
       StoreLock(TL_UNLOCK, k, FALSE) \in {TL_UNLOCK, TL_READ, TL_WRITE_ALLOW_WRITE}
BY DEF StoreLock, Downgraded, LockTypes, LockTablesAsks, StatementAsks

LEMMA BeginKeeps ==
  ASSUME LockIInv, NEW s \in Sessions, Begin(s)
  PROVE  LockIInv'
<1>1. PICK locking \in BOOLEAN :
        \E ask \in [Mine(s) -> {TL_UNLOCK} \cup IF locking THEN LockTablesAsks ELSE StatementAsks] :
          /\ in_lock_tables' = [in_lock_tables EXCEPT ![s] = locking]
          /\ write_locks' = write_locks \cup {h \in Mine(s) : locking /\ ask[h] = TL_WRITE}
          /\ type' = [h \in Handlers |->
               IF h \in Mine(s) THEN StoreLock(type[h], ask[h], locking) ELSE type[h]]
  BY DEF Begin
<1>2. PICK ask \in [Mine(s) -> {TL_UNLOCK} \cup IF locking THEN LockTablesAsks ELSE StatementAsks] :
        /\ in_lock_tables' = [in_lock_tables EXCEPT ![s] = locking]
        /\ write_locks' = write_locks \cup {h \in Mine(s) : locking /\ ask[h] = TL_WRITE}
        /\ type' = [h \in Handlers |->
             IF h \in Mine(s) THEN StoreLock(type[h], ask[h], locking) ELSE type[h]]
  BY <1>1
<1>3. /\ pc[s] = "idle" /\ pc' = [pc EXCEPT ![s] = "lock"]
      /\ UNCHANGED <<status, ahead, read_no_write_count>>
  BY DEF Begin
<1>4. TypeOK /\ UsedTypes
  BY DEF LockIInv
<1>5. ASSUME NEW h \in Handlers, h \in Mine(s)
      PROVE  /\ Owner[h] = s /\ status[h] = "none" /\ type[h] = TL_UNLOCK /\ h \notin write_locks
             /\ type'[h] = StoreLock(TL_UNLOCK, ask[h], locking)
             /\ locking => type'[h] = ask[h] /\ ask[h] \in LockTablesAsks \cup {TL_UNLOCK}
             /\ ~ locking => type'[h] \in {TL_UNLOCK, TL_READ, TL_WRITE_ALLOW_WRITE}
  <2>1. Owner[h] = s /\ status[h] = "none" /\ type[h] = TL_UNLOCK /\ h \notin write_locks
    BY <1>3, <1>4, <1>5 DEF UsedTypes, UsedType, Mine
  <2>2. type'[h] = StoreLock(TL_UNLOCK, ask[h], locking)
    BY <1>2, <1>5, <2>1
  <2>3. ask[h] \in {TL_UNLOCK} \cup IF locking THEN LockTablesAsks ELSE StatementAsks
    BY <1>2, <1>5
  <2>4. locking => type'[h] = ask[h] /\ ask[h] \in LockTablesAsks \cup {TL_UNLOCK}
    BY <2>2, <2>3, StoreLockTypes
  <2>5. ~ locking => type'[h] \in {TL_UNLOCK, TL_READ, TL_WRITE_ALLOW_WRITE}
    BY <2>2, <2>3, StoreLockTypes
  <2> QED  BY <2>1, <2>2, <2>4, <2>5
<1>6. ASSUME NEW h \in Handlers, h \notin Mine(s)
      PROVE  Owner[h] # s /\ type'[h] = type[h]
  BY <1>2, <1>6 DEF Mine
<1>7. TypeOK'
  <2>1. \A h \in Handlers : type'[h] \in LockTypes
    BY <1>4, <1>5, <1>6 DEF TypeOK, LockTypes, LockTablesAsks
  <2>2. type' \in [Handlers -> LockTypes]
    BY <1>2, <2>1
  <2>3. Mine(s) \subseteq Handlers
    BY DEF Mine
  <2> QED  BY <1>2, <1>3, <1>4, <2>2, <2>3 DEF TypeOK
<1>8. UsedTypes'
  <2> SUFFICES ASSUME NEW h \in Handlers
               PROVE  UsedType(h)'
    BY DEF UsedTypes
  <2>1. CASE h \in Mine(s)
    <3>1. pc'[Owner[h]] = "lock" /\ in_lock_tables'[Owner[h]] = locking
      BY <1>2, <1>3, <1>4, <1>5, <2>1 DEF TypeOK
    <3>2. h \in write_locks' => locking /\ ask[h] = TL_WRITE
      BY <1>2, <1>5, <2>1
    <3> QED  BY <1>3, <1>5, <2>1, <3>1, <3>2 DEF UsedType, TypesOf, LockTablesAsks
  <2>2. CASE h \notin Mine(s)
    <3>1. /\ pc'[Owner[h]] = pc[Owner[h]] /\ in_lock_tables'[Owner[h]] = in_lock_tables[Owner[h]]
          /\ h \in write_locks' <=> h \in write_locks
      BY <1>2, <1>3, <1>4, <1>6, <2>2 DEF TypeOK
    <3> QED  BY <1>3, <1>4, <1>6, <2>2, <3>1 DEF UsedTypes, UsedType, TypesOf
  <2> QED  BY <2>1, <2>2
<1>9. Lists'
  BY <1>3, <1>5, <1>6, ListsUnmoved
<1>10. OneWait'
  BY <1>3 DEF LockIInv, OneWait
<1> QED  BY <1>7, <1>8, <1>9, <1>10 DEF LockIInv, Lists

LEMMA TakeLockKeeps ==
  ASSUME LockIInv, NEW s \in Sessions, TakeLock(s)
  PROVE  LockIInv'
<1>1. PICK h \in Requested(s) :
        /\ status' = [status EXCEPT ![h] = IF Granted(h) THEN "granted" ELSE "wait"]
        /\ ahead' = IF Granted(h) \/ IsRead(type[h]) THEN ahead
                    ELSE [ahead EXCEPT ![h] = WaitingWrites(TableOf[h])]
        /\ read_no_write_count' =
             IF Granted(h) /\ type[h] = TL_READ_NO_INSERT
             THEN [read_no_write_count EXCEPT ![TableOf[h]] = @ + 1] ELSE read_no_write_count
  BY DEF TakeLock, Granted
<1>2. pc[s] = "lock" /\ UNCHANGED <<pc, in_lock_tables, write_locks, type>>
  BY DEF TakeLock
<1>3. h \in Handlers /\ Owner[h] = s /\ status[h] = "none" /\ type[h] # TL_UNLOCK
  BY DEF Requested, Mine
<1>4. Takes(h)
  BY <1>1, <1>2, <1>3 DEF Takes
<1>5. Lists' /\ read_no_write_count' \in [Tables -> Nat]
  BY <1>4, TakeCount, TakeInLine, TakeExclusive, TakeKeptOut DEF Lists
<1>6. TypeOK /\ UsedTypes
  BY DEF LockIInv
<1>7. WaitingWrites(TableOf[h]) \subseteq Handlers
  BY DEF WaitingWrites, Waiting
<1>8. TypeOK'
  BY <1>1, <1>2, <1>3, <1>5, <1>6, <1>7 DEF TypeOK
<1>9. UsedTypes'
  BY <1>1, <1>2, <1>3, <1>6 DEF UsedTypes, UsedType, TypesOf, TypeOK
<1>10. OneWait'
  BY <1>1, <1>3, <1>6 DEF TakeLock, Waits, Mine, LockIInv, OneWait, TypeOK
<1> QED  BY <1>5, <1>8, <1>9, <1>10 DEF LockIInv, Lists

\* Release and Timeout keep the types of the lists and what is said of them.
LEMMA LeavesKeeps ==
  ASSUME LockIInv, NEW h, Leaves(h)
  PROVE  /\ Lists' /\ read_no_write_count' \in [Tables -> Nat]
         /\ status' \in [Handlers -> {"none", "wait", "granted"}]
         /\ ahead' \in [Handlers -> SUBSET Handlers]
         /\ OneWait'
<1>1. Lists' /\ read_no_write_count' \in [Tables -> Nat]
  BY LeaveCount, LeaveInLine, LeaveExclusive, LeaveKeptOut DEF Lists
<1>2. TypeOK
  BY DEF LockIInv
<1>3. status' \in [Handlers -> {"none", "wait", "granted"}]
  BY <1>2, LeaveStates DEF TypeOK
<1>4. ahead' = [g \in Handlers |-> IF g = h \/ g \in WokenBy(h) THEN {}
                                  ELSE ahead[g] \ (WokenBy(h) \cup {h})]
  BY LeaveStates
<1>5. \A g \in Handlers : ahead[g] \subseteq Handlers
  BY <1>2 DEF TypeOK
<1>6. ahead' \in [Handlers -> SUBSET Handlers]
  BY <1>4, <1>5
<1>7. OneWait'
  BY LeaveLists DEF LockIInv, OneWait
<1> QED  BY <1>1, <1>3, <1>6, <1>7

LEMMA ReleaseKeeps ==
  ASSUME LockIInv, NEW h \in Handlers, Release(h)
  PROVE  LockIInv'
<1>1. /\ pc[Owner[h]] = "unlock" /\ status[h] = "granted" /\ Leave(h)
      /\ type' = [type EXCEPT ![h] = TL_UNLOCK]
      /\ UNCHANGED <<pc, in_lock_tables, write_locks>>
  BY DEF Release
<1>2. TypeOK /\ UsedTypes
  BY DEF LockIInv
<1>3. Leaves(h)
  BY <1>1, <1>2 DEF Leaves, TypeOK, LockTypes
<1>4. /\ Lists' /\ read_no_write_count' \in [Tables -> Nat]
      /\ status' \in [Handlers -> {"none", "wait", "granted"}]
      /\ ahead' \in [Handlers -> SUBSET Handlers] /\ OneWait'
  BY <1>3, LeavesKeeps
<1>5. TypeOK'
  BY <1>1, <1>2, <1>4 DEF TypeOK, LockTypes
<1>6. UsedTypes'
  <2> SUFFICES ASSUME NEW g \in Handlers
               PROVE  UsedType(g)'
    BY DEF UsedTypes
  <2>1. type'[g] = IF g = h THEN TL_UNLOCK ELSE type[g]
    BY <1>1, <1>2 DEF TypeOK
  <2>2. /\ status'[g] = "granted" <=> g # h /\ (status[g] = "granted" \/ g \in WokenBy(h))
        /\ status'[g] = "wait" <=> g # h /\ status[g] = "wait" /\ g \notin WokenBy(h)
        /\ g \in WokenBy(h) => g # h /\ status[g] = "wait"
    BY <1>3, LeaveLists
  <2>3. status[g] \in {"none", "wait", "granted"} /\ status'[g] \in {"none", "wait", "granted"}
    BY <1>2, <1>4 DEF TypeOK
  <2> QED  BY <1>1, <1>2, <2>1, <2>2, <2>3 DEF UsedTypes, UsedType, TypesOf
<1> QED  BY <1>4, <1>5, <1>6 DEF LockIInv, Lists

LEMMA TimeoutKeeps ==
  ASSUME LockIInv, NEW s \in Sessions, Timeout(s)
  PROVE  LockIInv'
<1>1. PICK h \in Mine(s) :
        /\ status[h] = "wait" /\ Leave(h)
        /\ type' = [g \in Handlers |-> IF g \in Requested(s) \cup {h} THEN TL_UNLOCK ELSE type[g]]
  BY DEF Timeout
<1>2. /\ pc[s] = "lock" /\ pc' = [pc EXCEPT ![s] = "unlock"]
      /\ UNCHANGED <<in_lock_tables, write_locks>>
  BY DEF Timeout
<1>3. TypeOK /\ UsedTypes
  BY DEF LockIInv
<1>4. h \in Handlers /\ Owner[h] = s
  BY DEF Mine
<1>5. Leaves(h)
  <2>1. type' \in [Handlers -> LockTypes]
    BY <1>1, <1>3 DEF TypeOK, LockTypes
  <2>2. \A g \in Handlers : g # h /\ status[g] # "none" => type'[g] = type[g]
    BY <1>1 DEF Requested
  <2> QED  BY <1>1, <1>4, <2>1, <2>2 DEF Leaves
<1>6. /\ Lists' /\ read_no_write_count' \in [Tables -> Nat]
      /\ status' \in [Handlers -> {"none", "wait", "granted"}]
      /\ ahead' \in [Handlers -> SUBSET Handlers] /\ OneWait'
  BY <1>5, LeavesKeeps
<1>7. TypeOK'
  BY <1>2, <1>3, <1>5, <1>6 DEF TypeOK, Leaves
<1>8. UsedTypes'
  <2> SUFFICES ASSUME NEW g \in Handlers
               PROVE  UsedType(g)'
    BY DEF UsedTypes
  <2>1. /\ status'[g] = "granted" <=> g # h /\ (status[g] = "granted" \/ g \in WokenBy(h))
        /\ status'[g] = "wait" <=> g # h /\ status[g] = "wait" /\ g \notin WokenBy(h)
        /\ g \in WokenBy(h) => g # h /\ status[g] = "wait"
        /\ status'[g] # "none" => type'[g] = type[g] /\ status[g] # "none"
    BY <1>5, LeaveLists
  <2>2. status[g] \in {"none", "wait", "granted"} /\ status'[g] \in {"none", "wait", "granted"}
    BY <1>3, <1>6 DEF TypeOK
  <2>3. type'[g] = TL_UNLOCK \/ type'[g] = type[g]
    BY <1>1
  <2>4. CASE Owner[g] = s
    <3>1. pc'[Owner[g]] = "unlock"
      BY <1>2, <1>3, <2>4 DEF TypeOK
    <3>2. status[g] = "none" => type'[g] = TL_UNLOCK
      BY <1>1, <2>4 DEF Requested, Mine
    <3>3. status'[g] # "wait"
      BY <1>1, <1>4, <2>1, <2>4 DEF LockIInv, OneWait
    <3> QED  BY <1>1, <1>2, <1>3, <2>1, <2>2, <2>3, <3>1, <3>2, <3>3 DEF UsedTypes, UsedType, TypesOf
  <2>5. CASE Owner[g] # s
    <3>1. pc'[Owner[g]] = pc[Owner[g]]
      BY <1>2, <1>3, <2>5 DEF TypeOK
    <3>2. type'[g] = type[g]
      BY <1>1, <1>4, <2>5 DEF Requested, Mine
    <3> QED  BY <1>2, <1>3, <1>4, <2>1, <2>2, <2>5, <3>1, <3>2 DEF UsedTypes, UsedType, TypesOf
  <2> QED  BY <2>4, <2>5
<1> QED  BY <1>6, <1>7, <1>8 DEF LockIInv, Lists

\* The end of a statement, and the call with TL_IGNORE, touch no lock.
LEMMA QuietKeeps ==
  ASSUME LockIInv, NEW s \in Sessions, End(s) \/ Finish(s)
  PROVE  LockIInv'
<1>1. UNCHANGED <<type, status, ahead, read_no_write_count>>
  BY DEF End, Finish
<1>2. TypeOK /\ UsedTypes /\ OneWait
  BY DEF LockIInv
<1>3. Lists'
  BY <1>1, ListsUnmoved
<1>4. OneWait'
  BY <1>1, <1>2 DEF OneWait
<1>5. TypeOK'
  BY <1>1, <1>2 DEF TypeOK, End, Finish
<1>6. CASE End(s)
  <2>1. UsedTypes'
    BY <1>1, <1>2, <1>6 DEF End, UsedTypes, UsedType, TypesOf, TypeOK, Waits, Requested, Mine
  <2> QED  BY <1>3, <1>4, <1>5, <2>1 DEF LockIInv, Lists
<1>7. CASE Finish(s)
  <2>1. UsedTypes'
    BY <1>1, <1>2, <1>7 DEF Finish, UsedTypes, UsedType, TypesOf, TypeOK, Mine
  <2> QED  BY <1>3, <1>4, <1>5, <2>1 DEF LockIInv, Lists
<1> QED  BY <1>6, <1>7

LEMMA UnchangedKeeps ==
  ASSUME LockIInv, UNCHANGED vars
  PROVE  LockIInv'
<1>1. Lists'
  BY ListsUnmoved DEF vars
<1>2. TypeOK' /\ OneWait'
  BY DEF LockIInv, TypeOK, OneWait, vars
<1>3. UsedTypes'
  BY DEF LockIInv, UsedTypes, UsedType, TypesOf, vars
<1> QED  BY <1>1, <1>2, <1>3 DEF LockIInv, Lists

LEMMA IgnoreCallKeeps ==
  ASSUME LockIInv, NEW h \in Handlers, IgnoreCall(h)
  PROVE  LockIInv'
<1>1. type[h] \in LockTypes /\ in_lock_tables[Owner[h]] \in BOOLEAN /\ type \in [Handlers -> LockTypes]
  BY TopologyAssumption DEF LockIInv, TypeOK
<1>2. StoreLock(type[h], TL_IGNORE, in_lock_tables[Owner[h]]) = type[h]
  BY <1>1, StoreLockTypes
<1>3. type' = type
  BY <1>1, <1>2 DEF IgnoreCall
<1>4. UNCHANGED vars
  BY <1>3 DEF IgnoreCall, vars
<1> QED  BY <1>4, UnchangedKeeps

LEMMA InitHolds == Init => LockIInv
<1> SUFFICES ASSUME Init PROVE LockIInv
  OBVIOUS
<1>1. TypeOK
  BY DEF Init, TypeOK, LockTypes
<1>2. UsedTypes /\ OneWait /\ InLine /\ ExclusiveLocks /\ WaitingReadsKeptOut
  BY TopologyAssumption DEF Init, UsedTypes, UsedType, TypesOf, OneWait, InLine, ExclusiveLocks, WaitingReadsKeptOut,
     WaitingWrites, Waiting
<1>3. \A t \in Tables : {h \in Held(t) : type[h] = TL_READ_NO_INSERT} = {}
  BY DEF Init, Held
<1>4. NoWriteCountExact
  BY <1>3, FS_EmptySet DEF NoWriteCountExact, Init
<1> QED  BY <1>1, <1>2, <1>4 DEF LockIInv

\* The inductive invariant holds in every state.
THEOREM Invariance == Spec => []LockIInv
<1>1. LockIInv /\ [Next]_vars => LockIInv'
  <2> SUFFICES ASSUME LockIInv, [Next]_vars PROVE LockIInv'
    OBVIOUS
  <2>1. ASSUME NEW s \in Sessions, Begin(s) PROVE LockIInv'
    BY <2>1, BeginKeeps
  <2>2. ASSUME NEW s \in Sessions, TakeLock(s) PROVE LockIInv'
    BY <2>2, TakeLockKeeps
  <2>3. ASSUME NEW s \in Sessions, Timeout(s) PROVE LockIInv'
    BY <2>3, TimeoutKeeps
  <2>4. ASSUME NEW s \in Sessions, End(s) \/ Finish(s) PROVE LockIInv'
    BY <2>4, QuietKeeps
  <2>5. ASSUME NEW h \in Handlers, Release(h) PROVE LockIInv'
    BY <2>5, ReleaseKeeps
  <2>6. ASSUME NEW h \in Handlers, IgnoreCall(h) PROVE LockIInv'
    BY <2>6, IgnoreCallKeeps
  <2>7. CASE UNCHANGED vars
    BY <2>7, UnchangedKeeps
  <2> QED  BY <2>1, <2>2, <2>3, <2>4, <2>5, <2>6, <2>7 DEF Next
<1> QED  BY InitHolds, <1>1, PTL DEF Spec

\* Locks keep their types and the count stays a natural number.
THEOREM TypeCorrect == Spec => []TypeOK
<1>1. LockIInv => TypeOK
  BY DEF LockIInv
<1> QED  BY <1>1, Invariance, PTL

\* The count of each THR_LOCK is that of the READ_NO_INSERT locks held, so no
\* call of store_lock changes a lock in use.
THEOREM CountIsExact == Spec => []NoWriteCountExact
<1>1. LockIInv => NoWriteCountExact
  BY DEF LockIInv
<1> QED  BY <1>1, Invariance, PTL

\* LOCK TABLES ... WRITE keeps every other session off the table.
THEOREM WriteLocksExclude == Spec => []WriteExcludes
<1>1. LockIInv => WriteExcludes
  <2> SUFFICES ASSUME LockIInv, NEW g \in Handlers, NEW h \in Handlers,
                      status[g] = "granted", status[h] = "granted", TableOf[g] = TableOf[h],
                      g \in write_locks
               PROVE  Owner[h] = Owner[g]
    BY DEF WriteExcludes
  <2>1. type[g] = TL_WRITE
    BY DEF LockIInv, UsedTypes, UsedType
  <2> QED  BY <2>1 DEF LockIInv, ExclusiveLocks
<1> QED  BY <1>1, Invariance, PTL

\* A read of a statement waits only where LOCK TABLES is at work, however many
\* sessions write and whatever they ask for.
THEOREM ReadsDoNotBlock == Spec => []ReadsNeverBlock
<1>1. LockIInv => ReadsNeverBlock
  <2> SUFFICES ASSUME LockIInv, NEW h \in Handlers, status[h] = "wait", type[h] = TL_READ
               PROVE  \E g \in Handlers :
                        /\ TableOf[g] = TableOf[h] /\ in_lock_tables[Owner[g]]
                        /\ status[g] # "none" /\ type[g] \in {TL_READ_NO_INSERT, TL_WRITE}
    BY DEF ReadsNeverBlock
  <2>1. KeptOut(TableOf[h])
    BY DEF LockIInv, WaitingReadsKeptOut
  <2>2. PICK g \in Handlers : /\ TableOf[g] = TableOf[h] /\ status[g] # "none"
                             /\ type[g] \in {TL_READ_NO_INSERT, TL_WRITE}
    BY <2>1 DEF KeptOut, HeldWrites, Held, WaitingWrites, Waiting
  <2>3. in_lock_tables[Owner[g]]
    BY <2>2 DEF LockIInv, UsedTypes, UsedType, TypesOf
  <2> QED  BY <2>2, <2>3
<1> QED  BY <1>1, Invariance, PTL
=============================================================================
