------------------------- MODULE TransactionsProofs -------------------------
(***************************************************************************)
(* Proofs about Transactions for any set of threads and any bounds: ids,   *)
(* sequence numbers and the shape of the log, over crashes and restarts.   *)
(***************************************************************************)
EXTENDS Transactions, SequenceTheorems, TLAPS

(***************************************************************************)
(* The inductive invariant. What the log says of a transaction depends on  *)
(* how far the thread that owns it has come in begin() or commit(), and    *)
(* that no other thread owns it; a process that does not serve yet has a   *)
(* fresh memory, whatever is in the file.                                  *)
(***************************************************************************)

\* A thread has an object in its hands exactly while it creates it, and every id a
\* thread knows was handed out.
ThreadInv == \A t \in Threads :
  /\ (pc[t] = "register") <=> (begun[t] # 0)
  /\ begun[t] # 0 => state[begun[t]] = "ACTIVE"
  /\ pc[t] \in {"log", "mark"} => current[t] # 0
  /\ begun[t] < nextTxnId
  /\ current[t] < nextTxnId

\* Before recover() is over nothing has begun.
FreshInv == (phase # "serving") =>
  /\ state = [i \in TxnIds |-> "none"]
  /\ \A t \in Threads : pc[t] = "idle" /\ begun[t] = 0 /\ current[t] = 0
  /\ lsn = 0
  /\ (phase = "down") => ~walOpen

\* The file and the counter agree, as long as no record was dropped.
CounterInv == (phase = "serving" /\ walOpen) => lsn = Len(wal)

\* What the log holds about the transaction of each thread.
OwnerInv == (phase = "serving") =>
  /\ \A id \in TxnIds, k \in Kinds : Logged(id, k) => id < nextTxnId
  /\ \A t \in Threads :
       /\ (begun[t] # 0) => \A k \in Kinds : ~Logged(begun[t], k)
       /\ (pc[t] = "log") => \A k \in Kinds : ~Logged(current[t], k)
       /\ (walOpen /\ current[t] # 0 /\ pc[t] # "log") => Logged(current[t], "BEGIN")
       /\ (current[t] # 0 /\ pc[t] # "mark") => ~Logged(current[t], "COMMIT")
       /\ (walOpen /\ pc[t] = "mark") => Logged(current[t], "COMMIT")

Threading == ThreadInv /\ FreshInv /\ ThreadsShareNoTransaction
Logging == CounterInv /\ OwnerInv /\ LsnIsPosition /\ LogOfOneRun /\ LogIsWellFormed
IInv == TypeOK /\ Threading /\ Logging /\ CommittedIsLogged
-----------------------------------------------------------------------------
(* The two ways the file changes                                           *)

\* writeLog() adds one record at the end, or none when the stream is closed or fails.
LEMMA RecordAdded ==
  ASSUME TypeOK, NEW id \in TxnIds, NEW k \in Kinds, WriteLog(id, k)
  PROVE  /\ lsn' \in Nat /\ wal' \in Seq(Records) /\ walOpen' \in BOOLEAN /\ torn' \in BOOLEAN
         /\ walOpen' => walOpen
         /\ ~walOpen' => wal' = wal
         /\ walOpen' => /\ Len(wal') = Len(wal) + 1
                        /\ wal'[Len(wal) + 1] = [lsn |-> lsn + 1, txn |-> id, kind |-> k,
                                                 run |-> crashes]
         /\ \A i \in 1..Len(wal) : wal'[i] = wal[i]
<1> DEFINE r == [lsn |-> lsn + 1, txn |-> id, kind |-> k, run |-> crashes]
<1>1. r \in Records /\ wal \in Seq(Records) /\ lsn' \in Nat
  BY DEF TypeOK, Records, WriteLog
<1>2. CASE walOpen /\ wal' = Append(wal, r) /\ UNCHANGED <<walOpen, torn>>
  <2>1. wal' = Append(wal, r)
    BY <1>2
  <2> HIDE DEF r
  <2>2. /\ wal' \in Seq(Records) /\ Len(wal') = Len(wal) + 1
        /\ wal'[Len(wal) + 1] = r
        /\ \A i \in 1..Len(wal) : wal'[i] = wal[i]
    BY <1>1, <2>1, AppendProperties
  <2> QED BY <1>1, <1>2, <2>2 DEF r, TypeOK
<1>3. CASE wal' = wal /\ walOpen' = FALSE /\ torn' \in (IF walOpen THEN BOOLEAN ELSE {torn})
  BY <1>1, <1>3 DEF TypeOK
<1> QED BY <1>2, <1>3 DEF WriteLog

\* What the log holds after writeLog(): what it held, and the new record.
LEMMA LoggedGrows ==
  ASSUME TypeOK, NEW id \in TxnIds, NEW k \in Kinds, WriteLog(id, k), NEW x, NEW y
  PROVE  Logged(x, y)' <=> (Logged(x, y) \/ (walOpen' /\ x = id /\ y = k))
<1>1. /\ wal \in Seq(Records) /\ wal' \in Seq(Records)
      /\ \A i \in 1..Len(wal) : wal'[i] = wal[i]
  BY RecordAdded DEF TypeOK
<1>2. DOMAIN wal = 1..Len(wal) /\ DOMAIN wal' = 1..Len(wal') /\ Len(wal) \in Nat
  BY <1>1
<1>3. CASE walOpen'
  <2>1. /\ Len(wal') = Len(wal) + 1
        /\ wal'[Len(wal) + 1] = [lsn |-> lsn + 1, txn |-> id, kind |-> k, run |-> crashes]
    BY <1>3, RecordAdded
  <2>2. wal'[Len(wal) + 1].txn = id /\ wal'[Len(wal) + 1].kind = k
    BY <2>1
  <2> QED BY <1>1, <1>2, <1>3, <2>1, <2>2 DEF Logged
<1>4. CASE ~walOpen'
  BY <1>4, RecordAdded DEF Logged
<1> QED BY <1>3, <1>4

\* A crash leaves a prefix of the file.
LEMMA PrefixStays ==
  ASSUME TypeOK, Crash
  PROVE  /\ wal' \in Seq(Records) /\ Len(wal') \in 0..Len(wal)
         /\ \A i \in 1..Len(wal') : wal'[i] = wal[i]
         /\ synced' \in 0..Len(wal') /\ torn' \in BOOLEAN
<1>1. CASE UNCHANGED <<wal, synced, torn>>
  BY <1>1 DEF TypeOK
<1>2. ASSUME NEW n \in synced..Len(wal), wal' = SubSeq(wal, 1, n), synced' = n,
             torn' \in (IF n < Len(wal) THEN BOOLEAN ELSE {torn, FALSE})
      PROVE  /\ wal' \in Seq(Records) /\ Len(wal') \in 0..Len(wal)
             /\ \A i \in 1..Len(wal') : wal'[i] = wal[i]
             /\ synced' \in 0..Len(wal') /\ torn' \in BOOLEAN
  <2>1. n \in 0..Len(wal) /\ wal \in Seq(Records)
    BY DEF TypeOK
  <2>2. \A i \in 1..n : wal[i] \in Records
    BY <2>1
  <2>3. /\ wal' \in Seq(Records) /\ Len(wal') = n
        /\ \A i \in 1..n : wal'[i] = wal[i]
    BY <1>2, <2>1, <2>2, SubSeqProperties
  <2>4. torn' \in BOOLEAN
    <3>1. torn \in BOOLEAN
      BY DEF TypeOK
    <3> QED BY <1>2, <3>1
  <2> QED BY <1>2, <2>1, <2>3, <2>4
<1> QED BY <1>1, <1>2 DEF Crash
-----------------------------------------------------------------------------
(* Types                                                                   *)

\* The first state is typed.
LEMMA TypedInit == Init => TypeOK
<1>1. <<>> \in Seq(Records) /\ 0 \in 0..Len(<<>>)
  BY EmptySeq
<1>2. ASSUME Init PROVE wal \in Seq(Records) /\ synced \in 0..Len(wal)
  BY <1>1, <1>2 DEF Init
<1>3. ASSUME Init PROVE TypeOK
  <2>1. 1 \in 1..(MaxTxns + 1) /\ 0 \in 0..MaxCrashes
    BY BoundAssumption
  <2>2. /\ state \in [TxnIds -> {"none", "ACTIVE", "COMMITTED", "ABORTED"}]
        /\ current \in [Threads -> TxnIds \cup {0}] /\ begun \in [Threads -> TxnIds \cup {0}]
        /\ pc \in [Threads -> {"idle", "register", "log", "mark"}]
        /\ active = {} /\ committed \subseteq TxnIds \X (0..MaxCrashes)
        /\ redone \subseteq TxnIds \X (0..MaxCrashes)
    BY <1>3 DEF Init
  <2>3. /\ phase \in {"down", "opened", "serving"} /\ nextTxnId \in 1..(MaxTxns + 1)
        /\ walOpen \in BOOLEAN /\ lsn \in Nat /\ torn \in BOOLEAN /\ crashes \in 0..MaxCrashes
    BY <1>3, <2>1 DEF Init
  <2> QED BY <1>2, <1>3, <2>2, <2>3 DEF TypeOK
<1> QED BY <1>3

\* So is the memory of a process that has just been started.
LEMMA FreshTypes ==
  ASSUME FreshMemory
  PROVE  /\ nextTxnId' \in 1..(MaxTxns + 1)
         /\ state' \in [TxnIds -> {"none", "ACTIVE", "COMMITTED", "ABORTED"}]
         /\ active' \subseteq {i \in TxnIds : state'[i] = "ACTIVE"}
         /\ current' \in [Threads -> TxnIds \cup {0}]
         /\ begun' \in [Threads -> TxnIds \cup {0}]
         /\ pc' \in [Threads -> {"idle", "register", "log", "mark"}]
         /\ walOpen' \in BOOLEAN /\ lsn' \in Nat
<1>1. 1 \in 1..(MaxTxns + 1)
  BY BoundAssumption
<1> QED BY <1>1 DEF FreshMemory

\* A record is written for a transaction that the thread has, and a thread that is to
\* log or to mark one has one.
LEMMA TypeStep == TypeOK /\ ThreadInv /\ [Next]_vars => TypeOK'
<1> SUFFICES ASSUME TypeOK, ThreadInv, [Next]_vars PROVE TypeOK'
  OBVIOUS
<1> USE BoundAssumption
<1>1. ASSUME OpenLog PROVE TypeOK'
  BY <1>1, ParameterAssumption DEF OpenLog, TypeOK, history, thread
<1>2. ASSUME Recover PROVE TypeOK'
  <2>1. <<>> \in Seq(Records) /\ 0 \in 0..Len(<<>>)
    BY EmptySeq
  <2>2. wal' \in Seq(Records) /\ synced' \in 0..Len(wal')
    BY <1>2, <2>1 DEF Recover
  <2> QED BY <1>2, <2>2 DEF Recover, Redo, TypeOK, thread
<1>3. ASSUME RecoverThrows PROVE TypeOK'
  BY <1>3, FreshTypes DEF RecoverThrows, TypeOK, history
<1>4. ASSUME Crash PROVE TypeOK'
  <2>1. FreshMemory /\ phase' = "down" /\ crashes' \in 0..MaxCrashes /\ UNCHANGED history
    BY <1>4 DEF Crash, TypeOK
  <2> QED BY <1>4, <2>1, FreshTypes, PrefixStays DEF TypeOK, history
<1>5. ASSUME WriteBack PROVE TypeOK'
  BY <1>5 DEF WriteBack, TypeOK, history, thread
<1>6. ASSUME NEW t \in Threads, BeginAllocate(t) PROVE TypeOK'
  BY <1>6 DEF BeginAllocate, TypeOK, history, log, TxnIds
<1>7. ASSUME NEW t \in Threads, BeginRegister(t) PROVE TypeOK'
  <2>1. begun[t] \in TxnIds /\ state[begun[t]] = "ACTIVE"
    BY <1>7 DEF BeginRegister, TypeOK, ThreadInv
  <2>2. active' \subseteq {i \in TxnIds : state'[i] = "ACTIVE"}
    BY <1>7, <2>1 DEF BeginRegister, TypeOK
  <2> QED BY <1>7, <2>1, <2>2 DEF BeginRegister, TypeOK, history, log
<1>8. ASSUME NEW t \in Threads, NEW k \in Kinds, WriteLog(current[t], k),
             current[t] # 0, pc' \in [Threads -> {"idle", "register", "log", "mark"}],
             UNCHANGED <<phase, nextTxnId, state, active, current, begun, synced, crashes,
                         history>>
      PROVE  TypeOK'
  <2>1. current[t] \in TxnIds
    BY <1>8 DEF TypeOK
  <2>2. /\ lsn' \in Nat /\ wal' \in Seq(Records) /\ walOpen' \in BOOLEAN /\ torn' \in BOOLEAN
        /\ wal' = wal \/ Len(wal') = Len(wal) + 1
    BY <1>8, <2>1, RecordAdded DEF TypeOK
  <2>3. synced' \in 0..Len(wal')
    BY <1>8, <2>2 DEF TypeOK
  <2> QED BY <1>8, <2>2, <2>3 DEF TypeOK, history
<1>9. ASSUME NEW t \in Threads, BeginLog(t) PROVE TypeOK'
  <2>1. current[t] # 0 /\ pc' \in [Threads -> {"idle", "register", "log", "mark"}]
    BY <1>9 DEF BeginLog, TypeOK, ThreadInv
  <2> QED BY <1>8, <1>9, <2>1 DEF BeginLog, Kinds
<1>10. ASSUME NEW t \in Threads, CommitLog(t) PROVE TypeOK'
  <2>1. pc' \in [Threads -> {"idle", "register", "log", "mark"}]
    BY <1>10 DEF CommitLog, TypeOK
  <2> QED BY <1>8, <1>10, <2>1 DEF CommitLog, Kinds
<1>11. ASSUME NEW t \in Threads, CommitMark(t) PROVE TypeOK'
  <2>1. current[t] \in TxnIds
    BY <1>11 DEF CommitMark, TypeOK, ThreadInv
  <2> QED BY <1>11, <2>1 DEF CommitMark, TypeOK, log
<1>12. ASSUME NEW t \in Threads, Rollback(t) PROVE TypeOK'
  BY <1>12 DEF Rollback, TypeOK, history, log
<1>13. ASSUME UNCHANGED vars PROVE TypeOK'
  BY <1>13 DEF vars, thread, history, TypeOK
<1> QED
  BY <1>1, <1>2, <1>3, <1>4, <1>5, <1>6, <1>7, <1>9, <1>10, <1>11, <1>12, <1>13
  DEF Next, StartUp, ThreadStep
-----------------------------------------------------------------------------
(* Threads and their transactions                                          *)

\* At first no thread has a transaction.
LEMMA ThreadingInit == Init => Threading
BY DEF Init, Threading, ThreadInv, FreshInv, ThreadsShareNoTransaction

\* Nor has any thread of a process that has just been started.
LEMMA FreshThreading ==
  ASSUME FreshMemory, phase' = "down" PROVE Threading'
BY DEF FreshMemory, Threading, ThreadInv, FreshInv, ThreadsShareNoTransaction

\* The transaction of one thread is in nobody else's hands.
LEMMA OwnersApart ==
  ASSUME ThreadsShareNoTransaction, NEW t \in Threads, NEW u \in Threads, t # u, current[t] # 0
  PROVE  current[u] # current[t] /\ begun[u] # current[t]
<1>1. {begun[t], current[t]} \cap {begun[u], current[u]} \subseteq {0}
  BY DEF ThreadsShareNoTransaction
<1>2. current[t] \in {begun[t], current[t]} /\ current[t] \notin {0}
  OBVIOUS
<1>3. current[t] \notin {begun[u], current[u]}
  BY <1>1, <1>2
<1> QED BY <1>3

\* The counter passes every id in use, so the next id is new to all threads; a thread
\* makes current only what it began itself.
LEMMA ThreadingStep == TypeOK /\ Threading /\ [Next]_vars => Threading'
<1> SUFFICES ASSUME TypeOK, Threading, [Next]_vars PROVE Threading'
  OBVIOUS
<1> USE DEF Threading, ThreadInv, FreshInv, ThreadsShareNoTransaction
<1>1. ASSUME OpenLog PROVE Threading'
  BY <1>1 DEF OpenLog, TypeOK, thread
<1>2. ASSUME Recover PROVE Threading'
  BY <1>2 DEF Recover, TypeOK, thread
<1>3. ASSUME RecoverThrows PROVE Threading'
  BY <1>3, FreshThreading DEF RecoverThrows
<1>4. ASSUME Crash PROVE Threading'
  BY <1>4, FreshThreading DEF Crash
<1>5. ASSUME WriteBack PROVE Threading'
  BY <1>5 DEF WriteBack, thread
<1>6. ASSUME NEW t \in Threads, BeginAllocate(t) PROVE Threading'
  BY <1>6 DEF BeginAllocate, TypeOK, log, TxnIds
<1>7. ASSUME NEW t \in Threads, BeginRegister(t) PROVE Threading'
  BY <1>7 DEF BeginRegister, TypeOK, log
<1>8. ASSUME NEW t \in Threads, BeginLog(t) PROVE Threading'
  BY <1>8 DEF BeginLog, TypeOK
<1>9. ASSUME NEW t \in Threads, CommitLog(t) PROVE Threading'
  BY <1>9 DEF CommitLog, TypeOK
<1>10. ASSUME NEW t \in Threads, CommitMark(t) \/ Rollback(t) PROVE Threading'
  <2>1. /\ current[t] \in TxnIds /\ begun[t] = 0 /\ phase = "serving" /\ pc'[t] = "idle"
        /\ \A i \in TxnIds \ {current[t]} : state'[i] = state[i]
        /\ \A u \in Threads \ {t} : pc'[u] = pc[u]
        /\ current' = [current EXCEPT ![t] = 0] /\ UNCHANGED <<phase, nextTxnId, begun>>
    BY <1>10 DEF CommitMark, Rollback, TypeOK, log
  <2>2. \A u \in Threads : begun[u] # 0 => begun[u] \in TxnIds \ {current[t]}
    <3>1. 0 \notin TxnIds
      BY DEF TxnIds
    <3> QED BY <2>1, <3>1, OwnersApart DEF TypeOK
  <2>3. \A u \in Threads : begun[u] # 0 => state'[begun[u]] = "ACTIVE"
    BY <2>1, <2>2
  <2> QED BY <2>1, <2>3 DEF TypeOK
<1>11. ASSUME UNCHANGED vars PROVE Threading'
  BY <1>11 DEF vars, thread
<1> QED
  BY <1>1, <1>2, <1>3, <1>4, <1>5, <1>6, <1>7, <1>8, <1>9, <1>10, <1>11
  DEF Next, StartUp, ThreadStep
-----------------------------------------------------------------------------
(* The log                                                                 *)

\* At first the log is empty.
LEMMA LoggingInit == Init => Logging
<1> SUFFICES ASSUME Init PROVE Logging
  OBVIOUS
<1>1. DOMAIN wal = {} /\ phase = "down"
  BY DEF Init
<1> QED
  BY <1>1
  DEF Logging, CounterInv, OwnerInv, LsnIsPosition, LogOfOneRun, LogIsWellFormed

\* What is said of every record holds of those a crash leaves.
LEMMA PrefixLogging ==
  ASSUME TypeOK, Logging, Crash PROVE Logging'
<1>1. /\ wal' \in Seq(Records) /\ wal \in Seq(Records)
      /\ Len(wal') \in 0..Len(wal) /\ \A i \in 1..Len(wal') : wal'[i] = wal[i]
      /\ phase' = "down"
  BY PrefixStays DEF TypeOK, Crash
<1>2. /\ DOMAIN wal' = 1..Len(wal') /\ DOMAIN wal = 1..Len(wal)
      /\ Len(wal') \in Nat /\ Len(wal) \in Nat
  BY <1>1
<1>3. CounterInv' /\ OwnerInv' /\ LogOfOneRun'
  BY <1>1 DEF CounterInv, OwnerInv, LogOfOneRun
<1>4. LsnIsPosition'
  BY <1>1, <1>2 DEF Logging, LsnIsPosition
<1>5. LogIsWellFormed'
  <2> SUFFICES ASSUME NEW j \in DOMAIN wal'
               PROVE  /\ \A i \in DOMAIN wal' : (wal'[i].txn = wal'[j].txn
                                                 /\ wal'[i].kind = wal'[j].kind) => i = j
                      /\ wal'[j].kind = "COMMIT" =>
                           \E i \in 1..(j - 1) : wal'[i].txn = wal'[j].txn
                                                 /\ wal'[i].kind = "BEGIN"
    BY DEF LogIsWellFormed
  <2>1. j \in DOMAIN wal /\ wal'[j] = wal[j]
    BY <1>1, <1>2
  <2>2. \A i \in DOMAIN wal' : i \in DOMAIN wal /\ wal'[i] = wal[i]
    BY <1>1, <1>2
  <2>3. \A i \in 1..(j - 1) : i \in DOMAIN wal'
    BY <1>2
  <2> QED BY <2>1, <2>2, <2>3 DEF Logging, LogIsWellFormed
<1> QED BY <1>3, <1>4, <1>5 DEF Logging

\* An added record keeps the shape of the log when its transaction has no record of its
\* kind and, for a COMMIT, has its BEGIN.
LEMMA ShapeKept ==
  ASSUME TypeOK, Logging, phase = "serving", UNCHANGED <<phase, crashes>>,
         NEW id \in TxnIds, NEW k \in Kinds, WriteLog(id, k),
         ~Logged(id, k), walOpen /\ k = "COMMIT" => Logged(id, "BEGIN")
  PROVE  CounterInv' /\ LsnIsPosition' /\ LogOfOneRun' /\ LogIsWellFormed'
<1>1. CASE ~walOpen'
  <2>1. wal' = wal
    BY <1>1, RecordAdded
  <2> QED BY <1>1, <2>1 DEF Logging, CounterInv, LsnIsPosition, LogOfOneRun, LogIsWellFormed
<1>2. CASE walOpen'
  <2> DEFINE n == Len(wal) + 1
  <2>1. /\ wal' \in Seq(Records) /\ wal \in Seq(Records) /\ Len(wal') = n
        /\ wal'[n] = [lsn |-> lsn + 1, txn |-> id, kind |-> k, run |-> crashes]
        /\ \A i \in 1..Len(wal) : wal'[i] = wal[i]
        /\ lsn' = lsn + 1 /\ walOpen
    BY <1>2, RecordAdded DEF TypeOK, WriteLog
  <2>2. /\ DOMAIN wal' = 1..n /\ DOMAIN wal = 1..Len(wal) /\ Len(wal) \in Nat /\ n \in Nat
        /\ lsn = Len(wal)
    BY <1>2, <2>1 DEF Logging, CounterInv
  <2>3. /\ wal'[n].lsn = n /\ wal'[n].txn = id /\ wal'[n].kind = k /\ wal'[n].run = crashes
    BY <2>1, <2>2
  <2>4. \A i \in DOMAIN wal' : (i \in DOMAIN wal /\ wal'[i] = wal[i]) \/ i = n
    BY <2>1, <2>2
  <2> HIDE DEF n
  <2>5. CounterInv'
    BY <1>2, <2>1, <2>2 DEF CounterInv, n
  <2>6. LsnIsPosition'
    BY <2>3, <2>4 DEF Logging, LsnIsPosition
  <2>7. LogOfOneRun'
    BY <2>3, <2>4 DEF Logging, LogOfOneRun
  <2>8. LogIsWellFormed'
    <3>1. \A i \in DOMAIN wal : wal[i].txn = id => wal[i].kind # k
      BY DEF Logged
    <3>2. ASSUME NEW i \in DOMAIN wal', NEW j \in DOMAIN wal',
                 wal'[i].txn = wal'[j].txn, wal'[i].kind = wal'[j].kind
          PROVE  i = j
      <4>1. CASE i \in DOMAIN wal /\ wal'[i] = wal[i] /\ j \in DOMAIN wal /\ wal'[j] = wal[j]
        BY <3>2, <4>1 DEF Logging, LogIsWellFormed
      <4>2. CASE i = n
        BY <2>3, <2>4, <3>1, <3>2, <4>2
      <4>3. CASE j = n
        BY <2>3, <2>4, <3>1, <3>2, <4>3
      <4> QED BY <2>4, <4>1, <4>2, <4>3
    <3>3. ASSUME NEW j \in DOMAIN wal', wal'[j].kind = "COMMIT"
          PROVE  \E i \in 1..(j - 1) : wal'[i].txn = wal'[j].txn /\ wal'[i].kind = "BEGIN"
      <4>1. CASE j \in DOMAIN wal /\ wal'[j] = wal[j]
        <5>1. PICK i \in 1..(j - 1) : wal[i].txn = wal[j].txn /\ wal[i].kind = "BEGIN"
          BY <3>3, <4>1 DEF Logging, LogIsWellFormed
        <5>2. wal'[i] = wal[i]
          BY <2>1, <2>2, <4>1
        <5> QED BY <4>1, <5>1, <5>2
      <4>2. CASE j = n
        <5>1. PICK i \in DOMAIN wal : wal[i].txn = id /\ wal[i].kind = "BEGIN"
          BY <2>1, <2>3, <3>3, <4>2 DEF Logged
        <5>2. wal'[i] = wal[i] /\ i \in 1..(j - 1)
          BY <2>1, <2>2, <4>2 DEF n
        <5> QED BY <2>3, <4>2, <5>1, <5>2
      <4> QED BY <2>4, <4>1, <4>2
    <3> QED BY <3>2, <3>3 DEF LogIsWellFormed
  <2> QED BY <2>5, <2>6, <2>7, <2>8
<1> QED BY <1>1, <1>2

\* Only the thread that has a transaction logs it, a BEGIN once after it was published
\* and a COMMIT once after that.
LEMMA LoggingStep == TypeOK /\ Threading /\ Logging /\ [Next]_vars => Logging'
<1> SUFFICES ASSUME TypeOK, Threading, Logging, [Next]_vars PROVE Logging'
  OBVIOUS
<1> USE DEF Logging
<1>1. ASSUME OpenLog PROVE Logging'
  <2>1. wal' = wal /\ phase' = "opened"
    BY <1>1 DEF OpenLog
  <2> QED BY <2>1 DEF CounterInv, OwnerInv, LsnIsPosition, LogOfOneRun, LogIsWellFormed
<1>2. ASSUME Recover PROVE Logging'
  <2>1. wal' = <<>> /\ DOMAIN wal' = {} /\ Len(wal') = 0 /\ lsn' = 0
    BY <1>2 DEF Recover
  <2>2. /\ \A t \in Threads : pc'[t] = "idle" /\ begun'[t] = 0 /\ current'[t] = 0
        /\ \A x, y : ~Logged(x, y)'
    BY <1>2, <2>1 DEF Recover, thread, Threading, FreshInv, Logged
  <2>3. CounterInv' /\ OwnerInv'
    BY <2>1, <2>2 DEF CounterInv, OwnerInv
  <2>4. LsnIsPosition' /\ LogOfOneRun' /\ LogIsWellFormed'
    BY <2>1 DEF LsnIsPosition, LogOfOneRun, LogIsWellFormed
  <2> QED BY <2>3, <2>4
<1>3. ASSUME RecoverThrows PROVE Logging'
  <2>1. wal' = wal /\ phase' = "down"
    BY <1>3 DEF RecoverThrows
  <2> QED BY <2>1 DEF CounterInv, OwnerInv, LsnIsPosition, LogOfOneRun, LogIsWellFormed
<1>4. ASSUME Crash PROVE Logging'
  BY <1>4, PrefixLogging
<1>5. ASSUME UNCHANGED <<phase, walOpen, lsn, wal, crashes>>, OwnerInv' PROVE Logging'
  BY <1>5 DEF CounterInv, LsnIsPosition, LogOfOneRun, LogIsWellFormed
<1>6. ASSUME wal' = wal PROVE \A x, y : Logged(x, y)' <=> Logged(x, y)
  BY <1>6 DEF Logged
<1>7. ASSUME WriteBack PROVE Logging'
  <2>1. OwnerInv'
    BY <1>6, <1>7 DEF WriteBack, thread, OwnerInv
  <2> QED BY <1>5, <1>7, <2>1 DEF WriteBack
<1>8. ASSUME NEW t \in Threads, BeginAllocate(t) PROVE Logging'
  <2>1. /\ nextTxnId \in TxnIds /\ nextTxnId' = nextTxnId + 1
        /\ \A k \in Kinds : ~Logged(nextTxnId, k)
    BY <1>8 DEF BeginAllocate, TypeOK, TxnIds, OwnerInv
  <2>2. OwnerInv'
    BY <1>6, <1>8, <2>1 DEF BeginAllocate, log, TypeOK, TxnIds, OwnerInv
  <2> QED BY <1>5, <1>8, <2>2 DEF BeginAllocate, log
<1>9. ASSUME NEW t \in Threads, BeginRegister(t) PROVE Logging'
  <2>1. begun[t] # 0 /\ UNCHANGED <<phase, nextTxnId, walOpen, wal>>
    BY <1>9 DEF BeginRegister, log, Threading, ThreadInv
  <2>2. \A u \in Threads : u # t =>
          UNCHANGED <<pc[u], begun[u], current[u]>>
    BY <1>9 DEF BeginRegister, TypeOK
  <2>3. pc'[t] = "log" /\ current'[t] = begun[t] /\ begun'[t] = 0
    BY <1>9 DEF BeginRegister, TypeOK
  <2>4. OwnerInv'
    BY <1>6, <2>1, <2>2, <2>3 DEF OwnerInv, Kinds
  <2> QED BY <1>5, <1>9, <2>4 DEF BeginRegister, log
<1>10. ASSUME NEW t \in Threads, BeginLog(t) PROVE Logging'
  <2>1. /\ current[t] \in TxnIds /\ "BEGIN" \in Kinds /\ WriteLog(current[t], "BEGIN")
        /\ phase = "serving" /\ ~Logged(current[t], "BEGIN")
        /\ walOpen' => walOpen
        /\ UNCHANGED <<phase, nextTxnId, crashes, begun, current>>
    BY <1>10 DEF BeginLog, WriteLog, TypeOK, Threading, ThreadInv, FreshInv, OwnerInv, Kinds
  <2>2. \A x, y : Logged(x, y)' <=>
          (Logged(x, y) \/ (walOpen' /\ x = current[t] /\ y = "BEGIN"))
    BY <2>1, LoggedGrows
  <2>3. \A u \in Threads : u # t => /\ pc'[u] = pc[u]
                                    /\ current[u] # current[t] /\ begun[u] # current[t]
    <3>1. pc' = [pc EXCEPT ![t] = "idle"] /\ 0 \notin TxnIds
      BY <1>10 DEF BeginLog, TxnIds
    <3>2. current[t] # 0
      BY <2>1, <3>1
    <3> QED BY <3>1, <3>2, OwnersApart DEF TypeOK, Threading
  <2>4. pc[t] = "log" /\ pc'[t] = "idle" /\ begun[t] = 0 /\ current[t] < nextTxnId
    BY <1>10 DEF BeginLog, TypeOK, Threading, ThreadInv
  <2>5. OwnerInv'
    BY <2>1, <2>2, <2>3, <2>4 DEF OwnerInv, Kinds
  <2>6. CounterInv' /\ LsnIsPosition' /\ LogOfOneRun' /\ LogIsWellFormed'
    BY <2>1, ShapeKept
  <2> QED BY <2>5, <2>6
<1>11. ASSUME NEW t \in Threads, CommitLog(t) PROVE Logging'
  <2>1. /\ current[t] \in TxnIds /\ "COMMIT" \in Kinds /\ WriteLog(current[t], "COMMIT")
        /\ phase = "serving" /\ ~Logged(current[t], "COMMIT")
        /\ walOpen => Logged(current[t], "BEGIN")
        /\ walOpen' => walOpen
        /\ UNCHANGED <<phase, nextTxnId, crashes, begun, current>>
    BY <1>11 DEF CommitLog, WriteLog, TypeOK, OwnerInv, Kinds
  <2>2. \A x, y : Logged(x, y)' <=>
          (Logged(x, y) \/ (walOpen' /\ x = current[t] /\ y = "COMMIT"))
    BY <2>1, LoggedGrows
  <2>3. \A u \in Threads : u # t => /\ pc'[u] = pc[u]
                                    /\ current[u] # current[t] /\ begun[u] # current[t]
    <3>1. pc' = [pc EXCEPT ![t] = "mark"] /\ 0 \notin TxnIds
      BY <1>11 DEF CommitLog, TxnIds
    <3>2. current[t] # 0
      BY <2>1, <3>1
    <3> QED BY <3>1, <3>2, OwnersApart DEF TypeOK, Threading
  <2>4. pc[t] = "idle" /\ pc'[t] = "mark" /\ begun[t] = 0 /\ current[t] < nextTxnId
    BY <1>11 DEF CommitLog, TypeOK, Threading, ThreadInv
  <2>5. OwnerInv'
    BY <2>1, <2>2, <2>3, <2>4 DEF OwnerInv, Kinds
  <2>6. CounterInv' /\ LsnIsPosition' /\ LogOfOneRun' /\ LogIsWellFormed'
    BY <2>1, ShapeKept
  <2> QED BY <2>5, <2>6
<1>12. ASSUME NEW t \in Threads, pc'[t] = "idle", current'[t] = 0, begun'[t] = begun[t],
              \A u \in Threads : u # t => UNCHANGED <<pc[u], begun[u], current[u]>>,
              UNCHANGED <<phase, nextTxnId, walOpen, lsn, wal, crashes>>
       PROVE  Logging'
  <2>1. OwnerInv'
    BY <1>6, <1>12 DEF OwnerInv
  <2> QED BY <1>5, <1>12, <2>1
<1>13. ASSUME NEW t \in Threads, CommitMark(t) PROVE Logging'
  BY <1>12, <1>13 DEF CommitMark, log, TypeOK
<1>14. ASSUME NEW t \in Threads, Rollback(t) PROVE Logging'
  BY <1>12, <1>14 DEF Rollback, log, TypeOK
<1>15. ASSUME UNCHANGED vars PROVE Logging'
  <2>1. OwnerInv'
    BY <1>6, <1>15 DEF vars, thread, OwnerInv
  <2> QED BY <1>5, <1>15, <2>1 DEF vars
<1> QED
  BY <1>1, <1>2, <1>3, <1>4, <1>7, <1>8, <1>9, <1>10, <1>11, <1>13, <1>14, <1>15
  DEF Next, StartUp, ThreadStep

\* At first nothing is committed.
LEMMA CommittedInit == Init => CommittedIsLogged
BY DEF Init, CommittedIsLogged

\* A thread marks only the transaction whose COMMIT it has just logged, and what is
\* logged stays until the process that wrote it is gone.
LEMMA CommittedStep ==
  TypeOK /\ Threading /\ Logging /\ CommittedIsLogged /\ [Next]_vars => CommittedIsLogged'
<1> SUFFICES ASSUME TypeOK, Threading, Logging, CommittedIsLogged, [Next]_vars
             PROVE  CommittedIsLogged'
  OBVIOUS
<1> USE DEF CommittedIsLogged
<1>1. ASSUME state' = [i \in TxnIds |-> "none"] PROVE CommittedIsLogged'
  BY <1>1
<1>2. ASSUME walOpen' => walOpen, \A x, y : Logged(x, y) => Logged(x, y)',
             \A i \in TxnIds : state'[i] = "COMMITTED" => (state[i] = "COMMITTED" \/ Logged(i, "COMMIT"))
      PROVE  CommittedIsLogged'
  BY <1>2
<1>3. ASSUME wal' = wal PROVE \A x, y : Logged(x, y) => Logged(x, y)'
  BY <1>3 DEF Logged
<1>4. ASSUME OpenLog \/ Recover \/ RecoverThrows \/ Crash PROVE CommittedIsLogged'
  BY <1>1, <1>4
  DEF OpenLog, Recover, RecoverThrows, Crash, FreshMemory, Threading, FreshInv
<1>5. ASSUME NEW t \in Threads, BeginLog(t) PROVE CommittedIsLogged'
  <2>1. current[t] \in TxnIds /\ WriteLog(current[t], "BEGIN") /\ "BEGIN" \in Kinds
    BY <1>5 DEF BeginLog, TypeOK, Threading, ThreadInv, Kinds
  <2>2. \A x, y : Logged(x, y) => Logged(x, y)'
    BY <2>1, LoggedGrows
  <2>3. (walOpen' => walOpen) /\ state' = state
    BY <1>5 DEF BeginLog, WriteLog
  <2> QED BY <1>2, <2>2, <2>3
<1>6. ASSUME NEW t \in Threads, CommitLog(t) PROVE CommittedIsLogged'
  <2>1. current[t] \in TxnIds /\ WriteLog(current[t], "COMMIT") /\ "COMMIT" \in Kinds
    BY <1>6 DEF CommitLog, TypeOK, Kinds
  <2>2. \A x, y : Logged(x, y) => Logged(x, y)'
    BY <2>1, LoggedGrows
  <2>3. (walOpen' => walOpen) /\ state' = state
    BY <1>6 DEF CommitLog, WriteLog
  <2> QED BY <1>2, <2>2, <2>3
<1>7. ASSUME NEW t \in Threads, CommitMark(t) PROVE CommittedIsLogged'
  <2>1. /\ current[t] \in TxnIds /\ pc[t] = "mark" /\ phase = "serving"
        /\ state' = [state EXCEPT ![current[t]] = "COMMITTED"] /\ UNCHANGED <<walOpen, wal>>
    BY <1>7 DEF CommitMark, log, TypeOK, Threading, ThreadInv, FreshInv
  <2>2. walOpen => Logged(current[t], "COMMIT")
    BY <2>1 DEF Logging, OwnerInv
  <2>3. \A x, y : Logged(x, y) => Logged(x, y)'
    BY <1>3, <2>1
  <2> QED BY <2>1, <2>2, <2>3 DEF TypeOK
<1>8. ASSUME NEW t \in Threads, BeginAllocate(t) \/ BeginRegister(t) \/ Rollback(t)
      PROVE  CommittedIsLogged'
  <2>1. /\ walOpen' = walOpen /\ wal' = wal
        /\ \A i \in TxnIds : state'[i] = "COMMITTED" => state[i] = "COMMITTED"
    BY <1>8 DEF BeginAllocate, BeginRegister, Rollback, log, TypeOK
  <2> QED BY <1>2, <1>3, <2>1
<1>9. ASSUME WriteBack \/ UNCHANGED vars PROVE CommittedIsLogged'
  BY <1>2, <1>3, <1>9 DEF WriteBack, vars
<1> QED
  BY <1>4, <1>5, <1>6, <1>7, <1>8, <1>9 DEF Next, StartUp, ThreadStep
-----------------------------------------------------------------------------
(* The theorems                                                            *)

\* The invariant holds at the start and is kept by every step.
THEOREM Inductive == Spec => []IInv
<1>1. Init => IInv
  BY TypedInit, ThreadingInit, LoggingInit, CommittedInit DEF IInv
<1>2. IInv /\ [Next]_vars => IInv'
  BY TypeStep, ThreadingStep, LoggingStep, CommittedStep DEF IInv, Threading
<1> QED BY <1>1, <1>2, PTL DEF Spec

\* Every variable of the transaction manager and of the log keeps its type, for any
\* number of threads, transactions and crashes.
THEOREM TypeCorrect == Spec => []TypeOK
<1>1. IInv => TypeOK
  BY DEF IInv
<1> QED BY <1>1, Inductive, PTL

\* No two threads work on one transaction.
THEOREM TransactionsApart == Spec => []ThreadsShareNoTransaction
<1>1. IInv => ThreadsShareNoTransaction
  BY DEF IInv, Threading
<1> QED BY <1>1, Inductive, PTL

\* The number of a record is its place in the file, over crashes and restarts.
THEOREM NumbersFollowFile == Spec => []LsnIsPosition
<1>1. IInv => LsnIsPosition
  BY DEF IInv, Logging
<1> QED BY <1>1, Inductive, PTL

\* A serving process logs behind no record of a former one, although its ids start
\* at 1 again.
THEOREM RunsApart == Spec => []LogOfOneRun
<1>1. IInv => LogOfOneRun
  BY DEF IInv, Logging
<1> QED BY <1>1, Inductive, PTL

\* One BEGIN and then one COMMIT at most for each transaction, in whatever order the
\* threads interleave.
THEOREM WellFormedLog == Spec => []LogIsWellFormed
<1>1. IInv => LogIsWellFormed
  BY DEF IInv, Logging
<1> QED BY <1>1, Inductive, PTL

\* A transaction that reads COMMITTED has its COMMIT record in the file.
THEOREM WriteAhead == Spec => []CommittedIsLogged
<1>1. IInv => CommittedIsLogged
  BY DEF IInv
<1> QED BY <1>1, Inductive, PTL
=============================================================================
