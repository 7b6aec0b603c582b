----------------------------- MODULE ParquetLock -----------------------------
(***************************************************************************)
(* store_lock() of READ_PARQUET and what the server makes of it: sessions  *)
(* that run statements or LOCK TABLES on handlers of READ_PARQUET tables.  *)
(* The engine only says which lock type a handler asks for; the THR_LOCK   *)
(* of the table's Parquet_share, external to this repository, grants it or *)
(* lets the session wait.  Metadata locks, which the server takes before,  *)
(* are left out: they only take behaviours away.                           *)
(***************************************************************************)
EXTENDS Integers, FiniteSets

CONSTANTS
  Sessions,
  Handlers,
  Tables,
  Owner,      \* Owner[h]: the session whose statement uses handler h
  TableOf,    \* TableOf[h]: the table whose share the handler's lock is in
  Addr        \* Addr[t]: address of the table's THR_LOCK

\* thr_lock_type, in the order of its enumeration.
TL_IGNORE == -1
TL_UNLOCK == 0
TL_READ == 2
TL_READ_NO_INSERT == 5
TL_WRITE_ALLOW_WRITE == 6
TL_WRITE_CONCURRENT_INSERT == 7
TL_WRITE == 11

LockTypes == 0 .. 12

\* What SELECT, INSERT ... SELECT, INSERT and UPDATE ask for, and LOCK TABLES.
StatementAsks == {TL_READ, TL_READ_NO_INSERT, TL_WRITE_CONCURRENT_INSERT, TL_WRITE}
LockTablesAsks == {TL_READ, TL_READ_NO_INSERT, TL_WRITE}

ASSUME HandlersAssumption == IsFiniteSet(Handlers)
ASSUME TopologyAssumption ==
  /\ Owner \in [Handlers -> Sessions]
  /\ TableOf \in [Handlers -> Tables]
  /\ Addr \in [Tables -> Nat]

VARIABLES
  pc,                   \* a session is idle, takes its locks, or gives them back
  in_lock_tables,       \* it runs LOCK TABLES, or holds what it locked
  write_locks,          \* handlers LOCK TABLES ... WRITE was asked for
  type,                 \* lock.type of the handler
  status,               \* its THR_LOCK_DATA is in no list, waits, or is granted
  ahead,                \* handlers before a waiting one in write_wait of its table
  read_no_write_count   \* of the table's THR_LOCK

vars == <<pc, in_lock_tables, write_locks, type, status, ahead, read_no_write_count>>

TypeOK ==
  /\ pc \in [Sessions -> {"idle", "lock", "unlock"}]
  /\ in_lock_tables \in [Sessions -> BOOLEAN]
  /\ write_locks \subseteq Handlers
  /\ type \in [Handlers -> LockTypes]
  /\ status \in [Handlers -> {"none", "wait", "granted"}]
  /\ ahead \in [Handlers -> SUBSET Handlers]
  /\ read_no_write_count \in [Tables -> Nat]

Init ==
  /\ pc = [s \in Sessions |-> "idle"]
  /\ in_lock_tables = [s \in Sessions |-> FALSE]
  /\ write_locks = {}
  /\ type = [h \in Handlers |-> TL_UNLOCK]
  /\ status = [h \in Handlers |-> "none"]
  /\ ahead = [h \in Handlers |-> {}]
  /\ read_no_write_count = [t \in Tables |-> 0]

(***************************************************************************)
(* The engine.                                                             *)
(***************************************************************************)
IsRead(k) == k <= TL_READ_NO_INSERT

\* The type a lock of a statement or of LOCK TABLES is brought down to.
Downgraded(lock_type, inLockTables) ==
  IF inLockTables THEN lock_type
  ELSE IF lock_type \in TL_WRITE_CONCURRENT_INSERT .. TL_WRITE THEN TL_WRITE_ALLOW_WRITE
  ELSE IF lock_type = TL_READ_NO_INSERT THEN TL_READ
  ELSE lock_type

\* Mutants: no downgrade, a downgrade also in LOCK TABLES, and a lock.type
\* that is overwritten by every call.
StoreLockAsAsked(old, lock_type, inLockTables) ==
  IF lock_type # TL_IGNORE /\ old = TL_UNLOCK THEN lock_type ELSE old

StoreLockBlind(old, lock_type, inLockTables) ==
  IF lock_type # TL_IGNORE /\ old = TL_UNLOCK THEN Downgraded(lock_type, FALSE) ELSE old

StoreLockAlways(old, lock_type, inLockTables) == Downgraded(lock_type, inLockTables)

\* lock.type after store_lock(thd, to, lock_type).
StoreLock(old, lock_type, inLockTables) ==
  IF lock_type # TL_IGNORE /\ old = TL_UNLOCK
  THEN Downgraded(lock_type, inLockTables)
  ELSE old

(***************************************************************************)
(* THR_LOCK of the server.  Its lists are in the states of the handlers.   *)
(***************************************************************************)
Mine(s) == {h \in Handlers : Owner[h] = s}

Held(t) == {h \in Handlers : TableOf[h] = t /\ status[h] = "granted"}
HeldReads(t) == {h \in Held(t) : IsRead(type[h])}
HeldWrites(t) == Held(t) \ HeldReads(t)
Waiting(t) == {h \in Handlers : TableOf[h] = t /\ status[h] = "wait"}
WaitingReads(t) == {h \in Waiting(t) : IsRead(type[h])}
WaitingWrites(t) == Waiting(t) \ WaitingReads(t)

\* A read lock is given beside a write lock of the same session or one that
\* allows it, and not past a session that waits to write.
ReadGranted(h) ==
  LET t == TableOf[h] IN
  IF HeldWrites(t) # {}
  THEN \/ \E g \in HeldWrites(t) : Owner[g] = Owner[h]
       \/ \A g \in HeldWrites(t) : type[g] = TL_WRITE_ALLOW_WRITE
  ELSE \/ \A g \in WaitingWrites(t) : ahead[g] = {} => type[g] # TL_WRITE
       \/ \E g \in HeldReads(t) : Owner[g] = Owner[h]

\* A write lock goes beside reads if it and they allow it.
BesideReads(k, t) ==
  HeldReads(t) = {} \/ (k = TL_WRITE_ALLOW_WRITE /\ read_no_write_count[t] = 0)

WriteGranted(h) ==
  LET t == TableOf[h] IN
  IF HeldWrites(t) # {}
  THEN \/ \E g \in HeldWrites(t) : Owner[g] = Owner[h]
       \/ /\ WaitingWrites(t) = {}
          /\ \A g \in HeldWrites(t) \cup {h} : type[g] = TL_WRITE_ALLOW_WRITE
  ELSE WaitingWrites(t) = {} /\ BesideReads(type[h], t)

\* Writers waiting on t, h excepted, that are given their lock together: the
\* first, and if it allows others, those behind it up to one that does not.
Batch(t, h) ==
  {g \in WaitingWrites(t) \ {h} :
     \/ ahead[g] \subseteq {h}
     \/ \A f \in (ahead[g] \ {h}) \cup {g} : type[f] = TL_WRITE_ALLOW_WRITE}

\* Who wakes up when h leaves the lists of t, and noInsert is the count then.
Woken(t, h, noInsert) ==
  LET allows == \A g \in Batch(t, h) : type[g] = TL_WRITE_ALLOW_WRITE
      reads == WaitingReads(t) \ {h}
  IN
  IF HeldWrites(t) \ {h} # {} THEN {}
  ELSE IF WaitingWrites(t) \ {h} = {} THEN reads
  ELSE IF HeldReads(t) \ {h} # {} /\ ~ (allows /\ noInsert = 0) THEN {}
  ELSE Batch(t, h) \cup {g \in reads : allows /\ type[g] # TL_READ_NO_INSERT}

\* thr_unlock of h, or the end of its wait, and wake_up_waiters().
Leave(h) ==
  LET t == TableOf[h]
      counted == IF status[h] = "granted" /\ type[h] = TL_READ_NO_INSERT
                 THEN read_no_write_count[t] - 1 ELSE read_no_write_count[t]
      woken == Woken(t, h, counted)
  IN
  /\ status' = [g \in Handlers |-> IF g = h THEN "none"
                                   ELSE IF g \in woken THEN "granted" ELSE status[g]]
  /\ ahead' = [g \in Handlers |-> IF g = h \/ g \in woken THEN {} ELSE ahead[g] \ (woken \cup {h})]
  /\ read_no_write_count' = [read_no_write_count EXCEPT ![t] =
       counted + Cardinality({g \in woken : type[g] = TL_READ_NO_INSERT})]

(***************************************************************************)
(* The sessions.                                                           *)
(***************************************************************************)
Requested(s) == {h \in Mine(s) : type[h] # TL_UNLOCK /\ status[h] = "none"}
Waits(s) == \E h \in Mine(s) : status[h] = "wait"

\* A statement, or LOCK TABLES: store_lock is called for every handler it
\* uses; one that it does not use is asked for TL_UNLOCK, nothing.
Begin(s) ==
  /\ pc[s] = "idle"
  /\ pc' = [pc EXCEPT ![s] = "lock"]
  /\ \E locking \in BOOLEAN :
       \E ask \in [Mine(s) -> {TL_UNLOCK} \cup IF locking THEN LockTablesAsks ELSE StatementAsks] :
         /\ \E h \in Mine(s) : ask[h] # TL_UNLOCK
         /\ in_lock_tables' = [in_lock_tables EXCEPT ![s] = locking]
         /\ write_locks' = write_locks \cup {h \in Mine(s) : locking /\ ask[h] = TL_WRITE}
         /\ type' = [h \in Handlers |->
              IF h \in Mine(s) THEN StoreLock(type[h], ask[h], locking) ELSE type[h]]
  /\ UNCHANGED <<status, ahead, read_no_write_count>>

\* By address of the THR_LOCK, then the higher type first.
Before(h, g) ==
  \/ Addr[TableOf[h]] < Addr[TableOf[g]]
  \/ Addr[TableOf[h]] = Addr[TableOf[g]] /\ type[g] <= type[h]

\* thr_multi_lock asks for the session's locks one by one in that order.
TakeLock(s) ==
  /\ pc[s] = "lock" /\ ~ Waits(s)
  /\ \E h \in Requested(s) :
       LET t == TableOf[h]
           granted == IF IsRead(type[h]) THEN ReadGranted(h) ELSE WriteGranted(h)
       IN
       /\ \A g \in Requested(s) : Before(h, g)
       /\ status' = [status EXCEPT ![h] = IF granted THEN "granted" ELSE "wait"]
       /\ ahead' = IF granted \/ IsRead(type[h]) THEN ahead
                   ELSE [ahead EXCEPT ![h] = WaitingWrites(t)]
       /\ read_no_write_count' =
            IF granted /\ type[h] = TL_READ_NO_INSERT
            THEN [read_no_write_count EXCEPT ![t] = @ + 1] ELSE read_no_write_count
  /\ UNCHANGED <<pc, in_lock_tables, write_locks, type>>

\* The wait is over its time limit, or the session is killed: the lock waited
\* for and those not asked for yet are marked TL_UNLOCK.
Timeout(s) ==
  /\ pc[s] = "lock"
  /\ \E h \in Mine(s) :
       /\ status[h] = "wait"
       /\ Leave(h)
       /\ type' = [g \in Handlers |-> IF g \in Requested(s) \cup {h} THEN TL_UNLOCK ELSE type[g]]
  /\ pc' = [pc EXCEPT ![s] = "unlock"]
  /\ UNCHANGED <<in_lock_tables, write_locks>>

\* The statement ends, or UNLOCK TABLES.
End(s) ==
  /\ pc[s] = "lock" /\ ~ Waits(s) /\ Requested(s) = {}
  /\ pc' = [pc EXCEPT ![s] = "unlock"]
  /\ UNCHANGED <<in_lock_tables, write_locks, type, status, ahead, read_no_write_count>>

\* thr_unlock of one of the session's locks.
Release(h) ==
  /\ pc[Owner[h]] = "unlock" /\ status[h] = "granted"
  /\ Leave(h)
  /\ type' = [type EXCEPT ![h] = TL_UNLOCK]
  /\ UNCHANGED <<pc, in_lock_tables, write_locks>>

Finish(s) ==
  /\ pc[s] = "unlock" /\ \A h \in Mine(s) : status[h] = "none"
  /\ pc' = [pc EXCEPT ![s] = "idle"]
  /\ in_lock_tables' = [in_lock_tables EXCEPT ![s] = FALSE]
  /\ write_locks' = write_locks \ Mine(s)
  /\ UNCHANGED <<type, status, ahead, read_no_write_count>>

\* store_lock(thd, to, TL_IGNORE) of another thread, which wants to know the
\* locks of a session that is in its way.
IgnoreCall(h) ==
  /\ type[h] # TL_UNLOCK
  /\ type' = [type EXCEPT ![h] = StoreLock(@, TL_IGNORE, in_lock_tables[Owner[h]])]
  /\ UNCHANGED <<pc, in_lock_tables, write_locks, status, ahead, read_no_write_count>>

Next ==
  \/ \E s \in Sessions : Begin(s) \/ TakeLock(s) \/ Timeout(s) \/ End(s) \/ Finish(s)
  \/ \E h \in Handlers : Release(h) \/ IgnoreCall(h)

Spec == Init /\ [][Next]_vars

(***************************************************************************)
(* Properties.                                                             *)
(***************************************************************************)

\* "We never need an exclusive write lock" (ha_parquet.cc:627): a table that a
\* statement reads is waited for only where a session that runs LOCK TABLES has
\* or wants a lock on it.  Statements that write do not keep readers out.
ReadsNeverBlock ==
  \A h \in Handlers :
    status[h] = "wait" /\ type[h] = TL_READ /\ ~ in_lock_tables[Owner[h]] =>
      \E g \in Handlers :
        /\ TableOf[g] = TableOf[h] /\ in_lock_tables[Owner[g]]
        /\ status[g] # "none" /\ type[g] \in {TL_READ_NO_INSERT, TL_WRITE}

\* The count that keeps writers away is that of the READ_NO_INSERT locks held:
\* no handler's lock.type changes while its lock is in the THR_LOCK.
NoWriteCountExact ==
  \A t \in Tables :
    read_no_write_count[t] = Cardinality({h \in Held(t) : type[h] = TL_READ_NO_INSERT})

\* LOCK TABLES ... WRITE, once granted, leaves no other session a lock.
WriteExcludes ==
  \A g, h \in Handlers :
    /\ status[g] = "granted" /\ status[h] = "granted" /\ TableOf[g] = TableOf[h]
    /\ g \in write_locks
    => Owner[h] = Owner[g]

(***************************************************************************)
(* The inductive invariant.                                                *)
(***************************************************************************)

\* The types that store_lock lets a session have.
TypesOf(s) ==
  IF in_lock_tables[s] THEN {TL_READ, TL_READ_NO_INSERT, TL_WRITE}
  ELSE {TL_READ, TL_WRITE_ALLOW_WRITE}

UsedType(h) ==
  /\ type[h] \in TypesOf(Owner[h]) \cup {TL_UNLOCK}
  /\ status[h] # "none" => type[h] # TL_UNLOCK
  /\ pc[Owner[h]] = "idle" => status[h] = "none" /\ h \notin write_locks
  /\ pc[Owner[h]] # "lock" => status[h] # "wait" /\ (status[h] = "none" => type[h] = TL_UNLOCK)
  /\ h \in write_locks => type[h] \in {TL_UNLOCK, TL_WRITE}

UsedTypes == \A h \in Handlers : UsedType(h)

\* A session waits for one lock at a time.
OneWait ==
  \A g, h \in Handlers :
    status[g] = "wait" /\ status[h] = "wait" /\ Owner[g] = Owner[h] => g = h

\* Who waits to write stands in a line.
InLine ==
  \A g, h \in Handlers :
    /\ TableOf[g] = TableOf[h] /\ g # h
    /\ g \in WaitingWrites(TableOf[g]) /\ h \in WaitingWrites(TableOf[h])
    => g \in ahead[h] \/ h \in ahead[g]

ExclusiveLocks ==
  \A g, h \in Handlers :
    /\ status[g] = "granted" /\ status[h] = "granted" /\ TableOf[g] = TableOf[h]
    /\ type[g] = TL_WRITE
    => Owner[h] = Owner[g]

\* What a waiting read waits for.
KeptOut(t) ==
  \/ \E g \in HeldWrites(t) : type[g] = TL_WRITE
  \/ /\ HeldWrites(t) = {}
     /\ \/ \E g \in WaitingWrites(t) : type[g] = TL_WRITE
        \/ \E g \in Held(t) : type[g] = TL_READ_NO_INSERT

WaitingReadsKeptOut ==
  \A h \in Handlers : status[h] = "wait" /\ type[h] = TL_READ => KeptOut(TableOf[h])

LockIInv ==
  /\ TypeOK /\ UsedTypes /\ OneWait /\ InLine /\ ExclusiveLocks /\ NoWriteCountExact
  /\ WaitingReadsKeptOut
=============================================================================
