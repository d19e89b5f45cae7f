---------------------------- MODULE Transactions ----------------------------
(***************************************************************************)
(* TransactionManager and WALManager (server/transaction): transaction ids,*)
(* the write-ahead log file, and what happens to it over crashes.          *)
(*                                                                         *)
(* The log file survives the process; the operating system keeps its tail  *)
(* in memory until it writes it back, and nothing in the code forces that. *)
(* WALManager::init() opens wal/minisql.wal but creates no directory: when *)
(* the directory is missing the stream stays closed and writes vanish. So  *)
(* do those that follow a failed write: nobody looks at the stream.        *)
(***************************************************************************)
EXTENDS Naturals, Sequences, FiniteSets

CONSTANTS Threads,    \* the threads that run transactions
          MaxTxns,    \* bound on the transactions of one incarnation
          MaxCrashes, \* bound on the crashes of a behaviour
          WalDir,     \* the answers to whether the directory dataDir/wal exists
          WriteMayFail, \* whether a write to the open log may fail
          PowerLoss   \* whether a crash may take the machine down, not only the process

ASSUME BoundAssumption == MaxTxns \in Nat /\ MaxCrashes \in Nat
ASSUME ParameterAssumption ==
  WalDir \subseteq BOOLEAN /\ WriteMayFail \in BOOLEAN /\ PowerLoss \in BOOLEAN

VARIABLES phase,     \* the process: down, opened (wal_.init done), serving
          nextTxnId, \* nextTxnId_
          state,     \* the state of every Transaction object
          active,    \* activeTransactions_
          current,   \* currentTransaction_ of each thread, 0 for nullptr
          begun,     \* the transaction a thread is creating in begin(), or 0
          pc,        \* where each thread is in begin() or commit()
          walOpen,   \* walFile_ is open and no write to it has failed
          lsn,       \* currentLSN_
          wal,       \* the records of the log file
          synced,    \* how many of them are on the disk for certain
          torn,      \* the file ends in an incomplete record
          crashes,   \* how many crashes have happened
          committed, \* history: transactions (with their run) whose commit() returned true
          redone     \* history: those of them that a recovery applied to the data

log == <<walOpen, lsn, wal, synced, torn>>
thread == <<current, begun, pc>>
history == <<committed, redone>>
vars == <<phase, nextTxnId, state, active, current, begun, pc, walOpen, lsn, wal, synced,
          torn, crashes, committed, redone>>

TxnIds == 1..MaxTxns
Kinds == {"BEGIN", "COMMIT"}

\* A transaction id is unique in one incarnation of the process only: the run of a
\* record is the incarnation that wrote it, and tells transactions apart for ever.
Records == [lsn : Nat, txn : TxnIds, kind : Kinds, run : 0..MaxCrashes]

TypeOK ==
  /\ phase \in {"down", "opened", "serving"}
  /\ nextTxnId \in 1..(MaxTxns + 1)
  /\ state \in [TxnIds -> {"none", "ACTIVE", "COMMITTED", "ABORTED"}]
  /\ active \subseteq {i \in TxnIds : state[i] = "ACTIVE"}
  /\ current \in [Threads -> TxnIds \cup {0}]
  /\ begun \in [Threads -> TxnIds \cup {0}]
  /\ pc \in [Threads -> {"idle", "register", "log", "mark"}]
  /\ walOpen \in BOOLEAN
  /\ lsn \in Nat
  /\ wal \in Seq(Records)
  /\ synced \in 0..Len(wal)
  /\ torn \in BOOLEAN
  /\ crashes \in 0..MaxCrashes
  /\ committed \subseteq TxnIds \X (0..MaxCrashes)
  /\ redone \subseteq TxnIds \X (0..MaxCrashes)

\* The memory of a process that has just been started.
FreshMemory ==
  /\ nextTxnId' = 1
  /\ state' = [i \in TxnIds |-> "none"]
  /\ active' = {}
  /\ current' = [t \in Threads |-> 0]
  /\ begun' = [t \in Threads |-> 0]
  /\ pc' = [t \in Threads |-> "idle"]
  /\ walOpen' = FALSE
  /\ lsn' = 0

Init ==
  /\ phase = "down"
  /\ nextTxnId = 1
  /\ state = [i \in TxnIds |-> "none"]
  /\ active = {}
  /\ current = [t \in Threads |-> 0]
  /\ begun = [t \in Threads |-> 0]
  /\ pc = [t \in Threads |-> "idle"]
  /\ walOpen = FALSE
  /\ lsn = 0
  /\ wal = <<>>
  /\ synced = 0
  /\ torn = FALSE
  /\ crashes = 0
  /\ committed = {}
  /\ redone = {}
-----------------------------------------------------------------------------
(* The log                                                                 *)

\* writeLog(), all of it under mutex_: the number is taken even when the record is dropped,
\* as it is by a stream that is closed or has failed. A write that fails may leave a part of
\* its record. flush() hands the record to the operating system, no further.
WriteLog(id, kind) ==
  /\ lsn' = lsn + 1
  /\ \/ /\ walOpen
        /\ wal' = Append(wal, [lsn |-> lsn + 1, txn |-> id, kind |-> kind, run |-> crashes])
        /\ UNCHANGED <<walOpen, torn>>
     \/ /\ walOpen => WriteMayFail
        /\ walOpen' = FALSE
        /\ torn' \in (IF walOpen THEN BOOLEAN ELSE {torn})
        /\ UNCHANGED wal

\* The operating system writes some of the tail of the file back, when it likes.
WriteBack ==
  /\ \E n \in (synced + 1)..Len(wal) : synced' = n
  /\ UNCHANGED <<phase, nextTxnId, state, active, thread, walOpen, lsn, wal, torn, crashes,
                 history>>
-----------------------------------------------------------------------------
(* Start-up: TransactionManager::init(), called before the server starts   *)

\* wal_.init(): open for appending, which creates the file but not its directory. A log
\* that is there has one.
OpenLog ==
  /\ phase = "down"
  /\ phase' = "opened"
  /\ walOpen' \in WalDir
  /\ (wal # <<>> \/ torn) => walOpen'
  /\ UNCHANGED <<nextTxnId, state, active, thread, lsn, wal, synced, torn, crashes,
                 history>>

\* Mutant: the log is recovered and not truncated.
RecoverOnly ==
  /\ phase = "opened"
  /\ phase' = "serving"
  /\ torn' = FALSE
  /\ lsn' = Len(wal)
  /\ UNCHANGED <<nextTxnId, state, active, thread, walOpen, wal, synced, crashes, history>>

\* Mutant: truncate() counts the log sequence numbers on.
RecoverCountsOn ==
  /\ phase = "opened"
  /\ phase' = "serving"
  /\ wal' = <<>>
  /\ synced' = 0
  /\ torn' = FALSE
  /\ lsn' = Len(wal)
  /\ UNCHANGED <<nextTxnId, state, active, thread, walOpen, crashes, history>>

\* The transactions that recover() redoes, given what it read of the log: none.
Redo(entries) == {}

\* recover(): the log is read and truncate() deletes the file and opens a new one.
Recover ==
  /\ phase = "opened"
  /\ phase' = "serving"
  /\ redone' = redone \cup Redo(wal)
  /\ wal' = <<>>
  /\ synced' = 0
  /\ torn' = FALSE
  /\ lsn' = 0
  /\ UNCHANGED <<nextTxnId, state, active, thread, walOpen, crashes, committed>>

\* An incomplete record makes recover() use lengths it never read: building the
\* strings may throw, which ends the process before truncate().
RecoverThrows ==
  /\ phase = "opened"
  /\ torn
  /\ phase' = "down"
  /\ FreshMemory
  /\ UNCHANGED <<wal, synced, torn, crashes, history>>

\* The process dies; with the machine, so does what was not written back, and the
\* last record that reached the disk may be incomplete. (What is left of a failed write is
\* written back or not.)
Crash ==
  /\ phase # "down"
  /\ crashes < MaxCrashes
  /\ crashes' = crashes + 1
  /\ phase' = "down"
  /\ FreshMemory
  /\ \/ UNCHANGED <<wal, synced, torn>>
     \/ /\ PowerLoss
        /\ \E n \in synced..Len(wal) :
             /\ wal' = SubSeq(wal, 1, n)
             /\ synced' = n
             /\ torn' \in (IF n < Len(wal) THEN BOOLEAN ELSE {torn, FALSE})
  /\ UNCHANGED history
-----------------------------------------------------------------------------
(* begin(), commit() and rollback() of thread t                            *)

\* Mutant: the counter is read here and not incremented.
BeginReadsCounter(t) ==
  /\ phase = "serving"
  /\ pc[t] = "idle"
  /\ nextTxnId <= MaxTxns
  /\ begun' = [begun EXCEPT ![t] = nextTxnId]
  /\ state' = [state EXCEPT ![nextTxnId] = "ACTIVE"]
  /\ pc' = [pc EXCEPT ![t] = "register"]
  /\ UNCHANGED <<phase, nextTxnId, active, current, log, crashes, history>>

\* nextTxnId_++ is atomic; the Transaction object is still this thread's alone.
BeginAllocate(t) ==
  /\ phase = "serving"
  /\ pc[t] = "idle"
  /\ nextTxnId <= MaxTxns
  /\ begun' = [begun EXCEPT ![t] = nextTxnId]
  /\ nextTxnId' = nextTxnId + 1
  /\ state' = [state EXCEPT ![nextTxnId] = "ACTIVE"]
  /\ pc' = [pc EXCEPT ![t] = "register"]
  /\ UNCHANGED <<phase, active, current, log, crashes, history>>

\* addTransaction(), then currentTransaction_ = txn, whatever it was before.
BeginRegister(t) ==
  /\ pc[t] = "register"
  /\ active' = active \cup {begun[t]}
  /\ current' = [current EXCEPT ![t] = begun[t]]
  /\ begun' = [begun EXCEPT ![t] = 0]
  /\ pc' = [pc EXCEPT ![t] = "log"]
  /\ UNCHANGED <<phase, nextTxnId, state, log, crashes, history>>

BeginLog(t) ==
  /\ pc[t] = "log"
  /\ WriteLog(current[t], "BEGIN")
  /\ pc' = [pc EXCEPT ![t] = "idle"]
  /\ UNCHANGED <<phase, nextTxnId, state, active, current, begun, synced, crashes, history>>

\* Mutant: commit() writes no COMMIT record.
CommitWithoutLog(t) ==
  /\ phase = "serving"
  /\ pc[t] = "idle"
  /\ current[t] # 0
  /\ pc' = [pc EXCEPT ![t] = "mark"]
  /\ UNCHANGED <<phase, nextTxnId, state, active, current, begun, log, crashes, history>>

\* commit() without a current transaction returns false and changes nothing.
CommitLog(t) ==
  /\ phase = "serving"
  /\ pc[t] = "idle"
  /\ current[t] # 0
  /\ WriteLog(current[t], "COMMIT")
  /\ pc' = [pc EXCEPT ![t] = "mark"]
  /\ UNCHANGED <<phase, nextTxnId, state, active, current, begun, synced, crashes, history>>

\* Mutant: the thread keeps its transaction after commit().
CommitKeepsCurrent(t) ==
  /\ pc[t] = "mark"
  /\ state' = [state EXCEPT ![current[t]] = "COMMITTED"]
  /\ active' = active \ {current[t]}
  /\ committed' = committed \cup {<<current[t], crashes>>}
  /\ pc' = [pc EXCEPT ![t] = "idle"]
  /\ UNCHANGED <<phase, nextTxnId, current, begun, log, crashes, redone>>

\* setState(COMMITTED), removeTransaction(), no current transaction, return true.
CommitMark(t) ==
  /\ pc[t] = "mark"
  /\ state' = [state EXCEPT ![current[t]] = "COMMITTED"]
  /\ active' = active \ {current[t]}
  /\ committed' = committed \cup {<<current[t], crashes>>}
  /\ current' = [current EXCEPT ![t] = 0]
  /\ pc' = [pc EXCEPT ![t] = "idle"]
  /\ UNCHANGED <<phase, nextTxnId, begun, log, crashes, redone>>

\* Mutant: rollback() forgets removeTransaction().
RollbackKeepsActive(t) ==
  /\ phase = "serving"
  /\ pc[t] = "idle"
  /\ current[t] # 0
  /\ state' = [state EXCEPT ![current[t]] = "ABORTED"]
  /\ current' = [current EXCEPT ![t] = 0]
  /\ UNCHANGED <<phase, nextTxnId, active, begun, pc, log, crashes, history>>

\* rollback() logs nothing and undoes nothing.
Rollback(t) ==
  /\ phase = "serving"
  /\ pc[t] = "idle"
  /\ current[t] # 0
  /\ state' = [state EXCEPT ![current[t]] = "ABORTED"]
  /\ active' = active \ {current[t]}
  /\ current' = [current EXCEPT ![t] = 0]
  /\ UNCHANGED <<phase, nextTxnId, begun, pc, log, crashes, history>>
-----------------------------------------------------------------------------
ThreadStep(t) ==
  \/ BeginAllocate(t) \/ BeginRegister(t) \/ BeginLog(t)
  \/ CommitLog(t) \/ CommitMark(t)
  \/ Rollback(t)

StartUp == OpenLog \/ Recover \/ RecoverThrows

Next ==
  \/ StartUp
  \/ Crash
  \/ WriteBack
  \/ \E t \in Threads : ThreadStep(t)

Spec == Init /\ [][Next]_vars
-----------------------------------------------------------------------------
(* Safety                                                                  *)

Logged(id, kind) == \E i \in DOMAIN wal : wal[i].txn = id /\ wal[i].kind = kind

\* The ids handed out by the atomic counter name one transaction: no thread works on
\* the transaction of another.
ThreadsShareNoTransaction ==
  \A t, u \in Threads : t # u =>
    {begun[t], current[t]} \cap {begun[u], current[u]} \subseteq {0}

\* The log of a transaction: one BEGIN at most, one COMMIT at most, and no COMMIT
\* before the BEGIN, although begin() publishes the transaction before logging it.
LogIsWellFormed ==
  \A j \in DOMAIN wal :
    /\ \A i \in DOMAIN wal :
         (wal[i].txn = wal[j].txn /\ wal[i].kind = wal[j].kind) => i = j
    /\ wal[j].kind = "COMMIT" =>
         \E i \in 1..(j - 1) : wal[i].txn = wal[j].txn /\ wal[i].kind = "BEGIN"

\* Log sequence numbers have no gap and follow the order of the file.
LsnIsPosition == \A i \in DOMAIN wal : wal[i].lsn = i

\* The counter of ids starts again at every start: that is sound only because the log
\* of the former incarnation is gone before the first transaction begins.
LogOfOneRun ==
  (phase = "serving") => \A i \in DOMAIN wal : wal[i].run = crashes

\* Write-ahead: a transaction reads COMMITTED only when its COMMIT record was written,
\* given that the log could be opened and has taken every record. (commit() does not ask:
\* WALManager.cpp:86-96 look at no error, and it returns true.)
CommittedIsLogged ==
  walOpen => \A id \in TxnIds : state[id] = "COMMITTED" => Logged(id, "COMMIT")
-----------------------------------------------------------------------------
(* What a comment says and the code does not do                            *)

\* WALManager.cpp:22-26 and TransactionManager.cpp:114, recovery redoes the committed
\* transactions of the log before it truncates it: what a process that has crashed since had
\* committed has been redone by the time a new one serves.
CommittedIsRedone ==
  phase = "serving" => \A c \in committed : c[2] < crashes => c \in redone
=============================================================================
