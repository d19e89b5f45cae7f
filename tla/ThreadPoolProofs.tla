-------------------------- MODULE ThreadPoolProofs --------------------------
(***************************************************************************)
(* Proofs about ThreadPool.tla for any number of workers, submitters and   *)
(* tasks. The type invariant and the one about the empty queue need each   *)
(* other; the rest is proved step by step on top of the two.               *)
(***************************************************************************)
EXTENDS ThreadPool, SequenceTheorems, FiniteSetTheorems, TLAPS

\* Moving the head of the second sequence to the end of the first one keeps their
\* concatenation.
LEMMA MoveHead ==
  ASSUME NEW S, NEW s \in Seq(S), NEW t \in Seq(S), t # <<>>
  PROVE  Append(s, Head(t)) \o Tail(t) = s \o t
<1> DEFINE h == Head(t)
           l == Append(s, h) \o Tail(t)
           r == s \o t
<1>1. h \in S /\ h = t[1] /\ Tail(t) \in Seq(S) /\ Len(Tail(t)) = Len(t) - 1
      /\ (\A i \in 1..Len(Tail(t)) : Tail(t)[i] = t[i + 1])
  BY HeadTailProperties
<1>2. Append(s, h) \in Seq(S) /\ Len(Append(s, h)) = Len(s) + 1
      /\ (\A i \in 1..Len(s) : Append(s, h)[i] = s[i]) /\ Append(s, h)[Len(s) + 1] = h
  BY <1>1, AppendProperties
<1>3. Len(s) \in Nat /\ Len(t) \in Nat \ {0}
  BY LenProperties, EmptySeq
<1>4. l \in Seq(S) /\ Len(l) = Len(s) + Len(t)
      /\ \A i \in 1..Len(s) + Len(t) :
           l[i] = IF i <= Len(s) + 1 THEN Append(s, h)[i] ELSE Tail(t)[i - (Len(s) + 1)]
  <2> HIDE DEF h
  <2>1. Len(Append(s, h)) + Len(Tail(t)) = Len(s) + Len(t)
    BY <1>1, <1>2, <1>3
  <2> QED BY <1>1, <1>2, <2>1, ConcatProperties
<1>5. r \in Seq(S) /\ Len(r) = Len(s) + Len(t)
      /\ \A i \in 1..Len(s) + Len(t) : r[i] = IF i <= Len(s) THEN s[i] ELSE t[i - Len(s)]
  BY ConcatProperties
<1>6. ASSUME NEW i \in 1..Len(s) + Len(t)
      PROVE  l[i] = r[i]
  <2> HIDE DEF h, l, r
  <2>1. CASE i <= Len(s)
    BY SMTT(30), <2>1, <1>2, <1>3, <1>4, <1>5
  <2>2. CASE i = Len(s) + 1
    <3>1. i - Len(s) = 1 /\ ~(i <= Len(s)) /\ i <= Len(s) + 1
      BY <2>2, <1>3
    <3>2. l[i] = Append(s, h)[i] /\ Append(s, h)[i] = h
      BY <2>2, <3>1, <1>2, <1>4
    <3>3. r[i] = t[1]
      BY <3>1, <1>5
    <3> QED BY <3>2, <3>3, <1>1
  <2>3. CASE i > Len(s) + 1
    <3>1. i - (Len(s) + 1) \in 1..Len(Tail(t)) /\ (i - (Len(s) + 1)) + 1 = i - Len(s)
      BY <2>3, <1>1, <1>3
    <3>2. Tail(t)[i - (Len(s) + 1)] = t[i - Len(s)]
      BY <3>1, <1>1
    <3> QED BY <2>3, <3>2, <1>3, <1>4, <1>5
  <2> QED BY <2>1, <2>2, <2>3, <1>3
<1>7. l = r
  <2> HIDE DEF l, r
  <2> QED BY <1>4, <1>5, <1>6, SeqEqual
<1> QED BY <1>7
-----------------------------------------------------------------------------
(* The type invariant. Take reads the head of the queue, so its result has *)
(* a type only because no worker gets there with an empty queue.           *)

Typed == TypeOK /\ NoPopOfEmptyQueue

LEMMA TypedInit == Init => Typed
<1> SUFFICES ASSUME Init PROVE Typed
  OBVIOUS
<1>1. <<>> \in Seq(Tasks)
  BY EmptySeq
<1>2. \A w \in Workers : mutex = w <=> worker[w] \in {"block", "take"}
  BY FreeAssumption DEF Init
<1>3. 0 \in 0..MaxSpurious
  BY SpuriousAssumption
<1> QED BY <1>1, <1>2, <1>3 DEF Init, Typed, TypeOK, NoPopOfEmptyQueue, WorkerStates

LEMMA TypedStep == Typed /\ [Next]_vars => Typed'
<1> SUFFICES ASSUME Typed, [Next]_vars PROVE Typed'
  OBVIOUS
<1> USE DEF Typed, TypeOK, NoPopOfEmptyQueue, WorkerStates
<1>1. ASSUME NEW s \in Submitters, NEW t \in Tasks, SubmitPush(s, t) PROVE Typed'
  <2>1. /\ Append(tasks, t) \in Seq(Tasks) /\ Append(tasks, t) # <<>>
        /\ Append(accepted, t) \in Seq(Tasks)
    BY AppendProperties
  <2> QED BY <1>1, <2>1 DEF SubmitPush
<1>2. ASSUME NEW s \in Submitters, SubmitNotify(s) PROVE Typed'
  BY <1>2 DEF SubmitNotify, Waiting, history
<1>3. ASSUME NEW w \in Workers, Check(w) PROVE Typed'
  BY <1>3, FreeAssumption DEF Check, history
<1>4. ASSUME NEW w \in Workers, Block(w) PROVE Typed'
  BY <1>4, FreeAssumption DEF Block, history
<1>5. ASSUME NEW w \in Workers, SpuriousWakeup(w) PROVE Typed'
  <2>1. spurious' \in 0..MaxSpurious
    BY <1>5, SpuriousAssumption DEF SpuriousWakeup
  <2> QED BY <1>5, <2>1 DEF SpuriousWakeup, history
<1>6. ASSUME NEW w \in Workers, Exit(w) PROVE Typed'
  BY <1>6, FreeAssumption DEF Exit, history
<1>7. ASSUME NEW w \in Workers, Take(w) PROVE Typed'
  <2>1. tasks # <<>>
    BY <1>7 DEF Take
  <2>2. Head(tasks) \in Tasks /\ Tail(tasks) \in Seq(Tasks)
    BY <2>1, HeadTailProperties
  <2>3. Append(started, Head(tasks)) \in Seq(Tasks)
    BY <2>2, AppendProperties
  <2>4. \A v \in Workers : worker'[v] # "take"
    BY <1>7 DEF Take
  <2>5. worker' \in [Workers -> WorkerStates] /\ running' \in [Workers -> SUBSET Tasks]
    BY <1>7, <2>2 DEF Take
  <2>6. \A v \in Workers : mutex' = v <=> worker'[v] \in {"block", "take"}
    BY <1>7, FreeAssumption DEF Take
  <2> QED BY <1>7, <2>2, <2>3, <2>4, <2>5, <2>6 DEF Take
<1>8. ASSUME NEW w \in Workers, Run(w) PROVE Typed'
  BY <1>8 DEF Run
<1>9. CASE StopStore
  <2>1. promised' \in Nat
    BY <1>9, LenProperties DEF StopStore
  <2> QED BY <1>9, <2>1 DEF StopStore
<1>10. CASE StopNotifyAll
  BY <1>10 DEF StopNotifyAll, Waiting, history
<1>11. CASE StopJoin
  BY <1>11 DEF StopJoin, history
<1>12. CASE UNCHANGED vars
  BY <1>12 DEF vars, history
<1> QED
  BY <1>1, <1>2, <1>3, <1>4, <1>5, <1>6, <1>7, <1>8, <1>9, <1>10, <1>11, <1>12
  DEF Next, WorkerStep, Stop

\* The type invariant holds: in particular the mutex is held by exactly the worker
\* that is between taking it and releasing it (workerThread(), lines 32 to 42).
THEOREM TypeCorrect == Spec => []TypeOK
<1>1. Spec => []Typed
  BY TypedInit, TypedStep, PTL DEF Spec
<1> QED BY <1>1, PTL DEF Typed

\* No worker ever pops an empty queue (workerThread(), lines 37 to 42).
THEOREM PopsAreSafe == Spec => []NoPopOfEmptyQueue
<1>1. Spec => []Typed
  BY TypedInit, TypedStep, PTL DEF Spec
<1> QED BY <1>1, PTL DEF Typed
-----------------------------------------------------------------------------
(* The queue is first in, first out                                        *)

LEMMA FifoStep == Typed /\ QueueIsFifo /\ [Next]_vars => QueueIsFifo'
<1> SUFFICES ASSUME Typed, QueueIsFifo, [Next]_vars PROVE QueueIsFifo'
  OBVIOUS
<1> USE DEF Typed, TypeOK, QueueIsFifo
<1>1. ASSUME NEW s \in Submitters, NEW t \in Tasks, SubmitPush(s, t) PROVE QueueIsFifo'
  <2>1. Append(started \o tasks, t) = started \o Append(tasks, t)
    <3>1. started \o tasks \in Seq(Tasks) /\ <<t>> \in Seq(Tasks)
      BY ConcatProperties
    <3>2. Append(started \o tasks, t) = (started \o tasks) \o <<t>> /\ Append(tasks, t) = tasks \o <<t>>
      BY SMTT(30), <3>1, AppendIsConcat
    <3> QED BY SMTT(30), <3>1, <3>2, ConcatAssociative
  <2>2. accepted' = Append(accepted, t) /\ tasks' = Append(tasks, t) /\ started' = started
    BY <1>1 DEF SubmitPush
  <2> QED BY <2>1, <2>2
<1>2. ASSUME NEW w \in Workers, Take(w) PROVE QueueIsFifo'
  <2>1. tasks # <<>>
    BY <1>2 DEF Take, NoPopOfEmptyQueue
  <2> QED BY <1>2, <2>1, MoveHead DEF Take
<1>3. ASSUME UNCHANGED <<tasks, accepted, started>> PROVE QueueIsFifo'
  BY <1>3
<1>4. \/ \E s \in Submitters, t \in Tasks : SubmitPush(s, t)
      \/ \E w \in Workers : Take(w)
      \/ UNCHANGED <<tasks, accepted, started>>
  BY DEF Next, WorkerStep, Stop, SubmitNotify, Check, Block, SpuriousWakeup, Exit, Run, StopStore,
         StopNotifyAll, StopJoin, vars, history
<1> QED BY <1>1, <1>2, <1>3, <1>4

\* Whatever the interleaving of submit() and the workers, no task is lost, taken twice
\* or overtaken (submit(), lines 90 to 94, and workerThread(), lines 41 and 42).
THEOREM QueueOrder == Spec => []QueueIsFifo
<1>1. Init => QueueIsFifo
  <2>1. <<>> \o <<>> = <<>>
    BY EmptySeq, ConcatEmptySeq
  <2> QED BY <2>1 DEF Init, QueueIsFifo
<1>2. Spec => [](Typed /\ QueueIsFifo)
  BY <1>1, TypedInit, TypedStep, FifoStep, PTL DEF Spec
<1> QED BY <1>2, PTL
-----------------------------------------------------------------------------
(* No wakeup is lost. A worker that is about to sleep holds the mutex, so  *)
(* the queue it found empty is empty still.                                *)

BlocksOnEmpty == \A w \in Workers : worker[w] = "block" => tasks = <<>>

ExitsWhenStopped == \A w \in Workers : worker[w] = "exited" => stop

Wakeups == BlocksOnEmpty /\ ExitsWhenStopped /\ NoLostWakeup

LEMMA WakeupsStep == Typed /\ Wakeups /\ [Next]_vars => Wakeups'
<1> SUFFICES ASSUME Typed, Wakeups, [Next]_vars PROVE Wakeups'
  OBVIOUS
<1> USE DEF Typed, TypeOK, Wakeups, BlocksOnEmpty, ExitsWhenStopped, NoLostWakeup, WorkerStates
<1>1. ASSUME NEW s \in Submitters, NEW t \in Tasks, SubmitPush(s, t) PROVE Wakeups'
  <2>1. \A w \in Workers : worker[w] # "block"
    BY <1>1, FreeAssumption DEF SubmitPush
  <2>2. submitter'[s] = "notify"
    BY <1>1 DEF SubmitPush
  <2> QED BY <1>1, <2>1, <2>2 DEF SubmitPush
<1>2. ASSUME NEW s \in Submitters, SubmitNotify(s) PROVE Wakeups'
  <2>1. CASE Waiting = {}
    <3>1. PICK w \in Workers : TRUE
      BY WorkersAssumption
    <3>2. (tasks # <<>> /\ ~stop) => worker[w] \in {"acquire", "take", "run"}
      BY <2>1 DEF Waiting
    <3> QED BY <1>2, <2>1, <3>2 DEF SubmitNotify
  <2>2. CASE Waiting # {}
    <3>1. PICK w \in Waiting : worker' = [worker EXCEPT ![w] = "acquire"]
      BY <1>2, <2>2 DEF SubmitNotify
    <3>2. worker'[w] = "acquire" /\ w \in Workers
      BY <3>1 DEF Waiting
    <3> QED BY <1>2, <3>1, <3>2 DEF SubmitNotify, history
  <2> QED BY <2>1, <2>2
<1>3. ASSUME NEW w \in Workers, Check(w) PROVE Wakeups'
  BY <1>3 DEF Check, history
<1>4. ASSUME NEW w \in Workers, Block(w) PROVE Wakeups'
  BY <1>4 DEF Block, history
<1>5. ASSUME NEW w \in Workers, SpuriousWakeup(w) PROVE Wakeups'
  BY <1>5 DEF SpuriousWakeup, history
<1>6. ASSUME NEW w \in Workers, Exit(w) PROVE Wakeups'
  BY <1>6 DEF Exit, history
<1>7. ASSUME NEW w \in Workers, Take(w) PROVE Wakeups'
  <2>1. \A v \in Workers : worker[v] # "block"
    BY <1>7 DEF Take
  <2>2. worker'[w] = "run" /\ \A v \in Workers : worker'[v] = "exited" => worker[v] = "exited"
    BY <1>7 DEF Take
  <2>3. \A v \in Workers : worker'[v] # "block"
    BY <1>7, <2>1 DEF Take
  <2> QED BY <1>7, <2>2, <2>3 DEF Take
<1>8. ASSUME NEW w \in Workers, Run(w) PROVE Wakeups'
  BY <1>8 DEF Run
<1>9. CASE StopStore
  BY <1>9 DEF StopStore
<1>10. CASE StopNotifyAll
  BY <1>10 DEF StopNotifyAll, Waiting, history
<1>11. CASE StopJoin
  BY <1>11 DEF StopJoin, history
<1>12. CASE UNCHANGED vars
  BY <1>12 DEF vars, history
<1> QED
  BY <1>1, <1>2, <1>3, <1>4, <1>5, <1>6, <1>7, <1>8, <1>9, <1>10, <1>11, <1>12
  DEF Next, WorkerStep, Stop

\* While the pool is open, a queued task always has a wakeup to come or a worker awake
\* (submit(), line 95, against the wait of workerThread(), lines 32 to 35).
THEOREM WakeupsArrive == Spec => []NoLostWakeup
<1>1. Init => Wakeups
  BY DEF Init, Wakeups, BlocksOnEmpty, ExitsWhenStopped, NoLostWakeup
<1>2. Spec => [](Typed /\ Wakeups)
  BY <1>1, TypedInit, TypedStep, WakeupsStep, PTL DEF Spec
<1> QED BY <1>2, PTL DEF Wakeups
-----------------------------------------------------------------------------
(* A wakeup for every task. Each task queued brings a notify_one(), which  *)
(* wakes a worker while one sleeps; each worker that leaves the mutex for  *)
(* its task takes one task with it.                                        *)

Notifiers == {s \in Submitters : submitter[s] = "notify"}
Comers == {w \in Workers : worker[w] \in {"acquire", "take"}}

\* Both are finite, so they can be counted.
LEMMA Countable ==
  /\ IsFiniteSet(Notifiers) /\ Cardinality(Notifiers) \in Nat
  /\ IsFiniteSet(Comers) /\ Cardinality(Comers) \in Nat
<1>1. Notifiers \in SUBSET Submitters /\ Comers \in SUBSET Workers
  BY DEF Notifiers, Comers
<1>2. IsFiniteSet(Notifiers) /\ IsFiniteSet(Comers)
  BY <1>1, FiniteAssumption, FS_Subset
<1> QED BY <1>2, FS_CardinalityType

\* Before a step and after it.
LEMMA CountableNext == Cardinality(Notifiers)' \in Nat /\ Cardinality(Comers)' \in Nat
<1>1. Notifiers' \in SUBSET Submitters /\ Comers' \in SUBSET Workers
  BY DEF Notifiers, Comers
<1>2. IsFiniteSet(Notifiers') /\ IsFiniteSet(Comers')
  BY <1>1, FiniteAssumption, FS_Subset
<1> QED BY <1>2, FS_CardinalityType

\* A worker on its way to the queue is one more, or one less when it was one.
LEMMA ComersCount ==
  ASSUME NEW w \in Workers
  PROVE  /\ Comers' = Comers => Cardinality(Comers') = Cardinality(Comers)
         /\ (w \notin Comers /\ Comers' = Comers \cup {w}) =>
               Cardinality(Comers') = Cardinality(Comers) + 1
         /\ (w \in Comers /\ Comers' = Comers \ {w}) =>
               Cardinality(Comers') = Cardinality(Comers) - 1
BY Countable, FS_AddElement, FS_RemoveElement

Counted == Len(tasks) <= Cardinality(Notifiers) + Cardinality(Comers)
Conserving == (Waiting # {} /\ ~stop) => Counted

LEMMA ConservingStep == Typed /\ BlocksOnEmpty /\ Conserving /\ [Next]_vars => Conserving'
<1> SUFFICES ASSUME Typed, BlocksOnEmpty, Conserving, [Next]_vars, Waiting' # {}, ~stop'
             PROVE  Counted'
  BY DEF Conserving
<1> USE Countable
<1>1. Len(tasks) \in Nat /\ tasks \in Seq(Tasks)
  BY DEF Typed, TypeOK
<1>2. ASSUME NEW s \in Submitters, NEW t \in Tasks, SubmitPush(s, t) PROVE Counted'
  <2>1. /\ tasks' = Append(tasks, t) /\ submitter[s] = "idle"
        /\ submitter' = [submitter EXCEPT ![s] = "notify"] /\ UNCHANGED <<worker, stop>>
    BY <1>2 DEF SubmitPush
  <2>2. Notifiers' = Notifiers \cup {s} /\ s \notin Notifiers /\ Comers' = Comers
    BY <2>1 DEF Notifiers, Comers, Typed, TypeOK
  <2>3. Cardinality(Notifiers') = Cardinality(Notifiers) + 1
    BY <2>2, FS_AddElement
  <2>4. Len(tasks') = Len(tasks) + 1
    BY <1>1, <2>1, AppendProperties
  <2>5. Counted
    BY <2>1 DEF Conserving, Waiting
  <2> QED BY <1>1, <2>2, <2>3, <2>4, <2>5 DEF Counted
<1>3. ASSUME NEW s \in Submitters, SubmitNotify(s) PROVE Counted'
  <2>1. /\ submitter[s] = "notify" /\ submitter' = [submitter EXCEPT ![s] = "idle"]
        /\ UNCHANGED <<tasks, stop>>
    BY <1>3 DEF SubmitNotify
  <2>2. Notifiers' = Notifiers \ {s} /\ s \in Notifiers
    BY <2>1 DEF Notifiers, Typed, TypeOK
  <2>3. Cardinality(Notifiers') = Cardinality(Notifiers) - 1
    BY <2>2, FS_RemoveElement
  <2>4. Waiting # {}
    BY <1>3 DEF SubmitNotify, Waiting
  <2>5. PICK w \in Waiting : worker' = [worker EXCEPT ![w] = "acquire"]
    BY <1>3, <2>4 DEF SubmitNotify
  <2>6. w \in Workers /\ w \notin Comers /\ Comers' = Comers \cup {w}
    BY <2>5 DEF Waiting, Comers, Typed, TypeOK
  <2>7. Cardinality(Comers') = Cardinality(Comers) + 1
    BY <2>6, ComersCount
  <2>8. Counted
    BY <2>1, <2>4 DEF Conserving
  <2> QED BY <1>1, <2>1, <2>3, <2>7, <2>8 DEF Counted
<1>4. ASSUME tasks = <<>>, tasks' = tasks PROVE Counted'
  <2>1. Len(tasks') = 0
    BY <1>4
  <2> QED BY <2>1, CountableNext DEF Counted
<1>5. ASSUME NEW w \in Workers, Check(w) PROVE Counted'
  <2>1. /\ worker[w] = "acquire" /\ UNCHANGED <<tasks, stop, submitter>>
        /\ worker' = [worker EXCEPT ![w] = IF stop \/ tasks # <<>> THEN "take" ELSE "block"]
    BY <1>5 DEF Check
  <2>2. CASE tasks = <<>>
    BY <1>4, <2>1, <2>2
  <2>3. CASE tasks # <<>>
    <3>1. Comers' = Comers /\ Notifiers' = Notifiers /\ Waiting' = Waiting
      BY <2>1, <2>3 DEF Comers, Notifiers, Waiting, Typed, TypeOK
    <3>2. Counted
      BY <2>1, <3>1 DEF Conserving
    <3> QED BY <2>1, <3>1, <3>2 DEF Counted
  <2> QED BY <2>2, <2>3
<1>6. ASSUME NEW w \in Workers, Block(w) PROVE Counted'
  BY <1>4, <1>6 DEF Block, BlocksOnEmpty
<1>7. ASSUME NEW w \in Workers, SpuriousWakeup(w) \/ Run(w) PROVE Counted'
  <2>1. /\ worker[w] \in {"waiting", "run"} /\ UNCHANGED <<tasks, stop, submitter>>
        /\ worker' = [worker EXCEPT ![w] = "acquire"]
    BY <1>7 DEF SpuriousWakeup, Run
  <2>2. /\ w \notin Comers /\ Comers' = Comers \cup {w} /\ Notifiers' = Notifiers
        /\ Waiting' \subseteq Waiting
    BY <2>1 DEF Comers, Notifiers, Waiting, Typed, TypeOK
  <2>3. Cardinality(Comers') = Cardinality(Comers) + 1
    BY <2>2, ComersCount
  <2>4. Counted
    BY <2>1, <2>2 DEF Conserving
  <2> QED BY <1>1, <2>1, <2>2, <2>3, <2>4 DEF Counted
<1>8. ASSUME NEW w \in Workers, Take(w) PROVE Counted'
  <2>1. /\ worker[w] = "take" /\ tasks # <<>> /\ UNCHANGED <<stop, submitter>>
        /\ tasks' = Tail(tasks) /\ worker' = [worker EXCEPT ![w] = "run"]
    BY <1>8 DEF Take, Typed, NoPopOfEmptyQueue
  <2>2. /\ w \in Comers /\ Comers' = Comers \ {w} /\ Notifiers' = Notifiers
        /\ Waiting' = Waiting
    BY <2>1 DEF Comers, Notifiers, Waiting, Typed, TypeOK
  <2>3. Cardinality(Comers') = Cardinality(Comers) - 1
    BY <2>2, ComersCount
  <2>4. Len(tasks') = Len(tasks) - 1
    BY <1>1, <2>1, HeadTailProperties
  <2>5. Counted
    BY <2>1, <2>2 DEF Conserving
  <2> QED BY <1>1, <2>2, <2>3, <2>4, <2>5 DEF Counted
<1>9. ASSUME NEW w \in Workers, Exit(w) PROVE Counted'
  BY <1>9 DEF Exit
<1>10. ASSUME StopStore PROVE Counted'
  BY <1>10 DEF StopStore
<1>11. ASSUME StopNotifyAll PROVE Counted'
  BY <1>11 DEF StopNotifyAll, Waiting
<1>12. ASSUME StopJoin \/ UNCHANGED vars PROVE Counted'
  <2>1. UNCHANGED <<tasks, stop, submitter, worker>>
    BY <1>12 DEF StopJoin, vars
  <2>2. Comers' = Comers /\ Notifiers' = Notifiers /\ Waiting' = Waiting
    BY <2>1 DEF Comers, Notifiers, Waiting
  <2>3. Counted
    BY <2>1, <2>2 DEF Conserving
  <2> QED BY <2>1, <2>2, <2>3 DEF Counted
<1> QED
  BY <1>2, <1>3, <1>5, <1>6, <1>7, <1>8, <1>9, <1>10, <1>11, <1>12
  DEF Next, WorkerStep, Stop

\* While a worker sleeps and the pool is open, no queued task is without a wakeup of its
\* own: submit() notifies once for each (ThreadPool.h:91-95).
THEOREM WorkIsConserved == Spec => []WorkConserving
<1>1. Init => Wakeups /\ Conserving
  <2> SUFFICES ASSUME Init PROVE Wakeups /\ Conserving
    OBVIOUS
  <2>1. Waiting = {}
    BY DEF Init, Waiting
  <2> QED
    BY <2>1
    DEF Init, Wakeups, BlocksOnEmpty, ExitsWhenStopped, NoLostWakeup, Conserving
<1>2. Wakeups => BlocksOnEmpty
  BY DEF Wakeups
<1>3. Conserving => WorkConserving
  BY DEF Conserving, Counted, Notifiers, Comers, WorkConserving
<1>4. Spec => [](Typed /\ Wakeups /\ Conserving)
  BY <1>1, <1>2, TypedInit, TypedStep, WakeupsStep, ConservingStep, PTL DEF Spec
<1> QED BY <1>3, <1>4, PTL
-----------------------------------------------------------------------------
(* A completed stop() has drained the queue. A worker leaves only when the *)
(* queue is empty and the pool is stopped, so all that was accepted before *)
(* the call has been taken by then; a task that was taken has finished or  *)
(* is running; and nothing runs when every worker has left.                *)

StopIsStored == stop <=> stopper # "idle"

AllExited == stopper = "stopped" => \A w \in Workers : worker[w] = "exited"

PromiseIsKnown == promised <= Len(accepted)

PromiseIsTaken == \A w \in Workers : worker[w] = "exited" => promised <= Len(started)

OnlyRunnersRun == \A w \in Workers : running[w] # {} => worker[w] = "run"

TakenIsKept ==
  \A i \in 1..Len(started) : started[i] \in finished \/ \E w \in Workers : started[i] \in running[w]

Draining ==
  /\ StopIsStored
  /\ ExitsWhenStopped
  /\ AllExited
  /\ PromiseIsKnown
  /\ PromiseIsTaken
  /\ OnlyRunnersRun
  /\ TakenIsKept

LEMMA DrainingInit == Init => Draining
BY EmptySeq
DEF Init, Draining, StopIsStored, ExitsWhenStopped, AllExited, PromiseIsKnown, PromiseIsTaken,
    OnlyRunnersRun, TakenIsKept

LEMMA DrainingStep == Typed /\ QueueIsFifo /\ Draining /\ [Next]_vars => Draining'
<1> SUFFICES ASSUME Typed, QueueIsFifo, Draining, [Next]_vars PROVE Draining'
  OBVIOUS
<1> USE DEF Typed, TypeOK, WorkerStates, Draining, StopIsStored, ExitsWhenStopped, AllExited,
            PromiseIsKnown, PromiseIsTaken, OnlyRunnersRun, TakenIsKept
<1> Len(accepted) \in Nat /\ Len(started) \in Nat /\ Len(tasks) \in Nat
  BY LenProperties
<1>1. ASSUME NEW s \in Submitters, NEW t \in Tasks, SubmitPush(s, t) PROVE Draining'
  <2>1. Len(accepted') = Len(accepted) + 1
    BY <1>1, AppendProperties DEF SubmitPush
  <2> QED BY <1>1, <2>1 DEF SubmitPush
<1>2. ASSUME NEW s \in Submitters, SubmitNotify(s) PROVE Draining'
  <2>1. worker' \in [Workers -> WorkerStates]
        /\ \A w \in Workers : worker'[w] # worker[w] => worker[w] = "waiting" /\ worker'[w] = "acquire"
    BY <1>2 DEF SubmitNotify, Waiting
  <2> QED BY <1>2, <2>1 DEF SubmitNotify, history
<1>3. ASSUME NEW w \in Workers, Check(w) PROVE Draining'
  BY <1>3 DEF Check, history
<1>4. ASSUME NEW w \in Workers, Block(w) PROVE Draining'
  BY <1>4 DEF Block, history
<1>5. ASSUME NEW w \in Workers, SpuriousWakeup(w) PROVE Draining'
  BY <1>5 DEF SpuriousWakeup, history
<1>6. ASSUME NEW w \in Workers, Exit(w) PROVE Draining'
  <2>1. started = accepted
    BY <1>6, ConcatEmptySeq DEF Exit, QueueIsFifo
  <2> QED BY <1>6, <2>1 DEF Exit, history
<1>7. ASSUME NEW w \in Workers, Take(w) PROVE Draining'
  <2>1. Head(tasks) \in Tasks
    BY <1>7, HeadTailProperties DEF Take, NoPopOfEmptyQueue
  <2>2. /\ Len(started') = Len(started) + 1
        /\ \A i \in 1..Len(started) : started'[i] = started[i]
        /\ started'[Len(started) + 1] = Head(tasks)
    BY <1>7, <2>1, AppendProperties DEF Take
  <2>3. running[w] = {} /\ running'[w] = {Head(tasks)} /\ worker'[w] = "run"
    BY <1>7 DEF Take
  <2>4. \A v \in Workers \ {w} : running'[v] = running[v] /\ worker'[v] = worker[v]
    BY <1>7 DEF Take
  <2>5. TakenIsKept'
    <3> SUFFICES ASSUME NEW i \in 1..Len(started')
                 PROVE  started'[i] \in finished' \/ \E v \in Workers : started'[i] \in running'[v]
      OBVIOUS
    <3>1. CASE i = Len(started) + 1
      BY <3>1, <2>2, <2>3
    <3>2. CASE i \in 1..Len(started)
      <4>1. started[i] \in finished \/ \E v \in Workers \ {w} : started[i] \in running[v]
        BY <3>2, <2>3
      <4> QED BY <4>1, <3>2, <2>2, <2>4, <1>7 DEF Take
    <3> QED BY <3>1, <3>2, <2>2
  <2>6. OnlyRunnersRun'
    BY <2>3, <2>4
  <2>7. PromiseIsTaken'
    BY <1>7, <2>2, <2>3, <2>4 DEF Take
  <2>8. ExitsWhenStopped' /\ AllExited'
    BY <1>7, <2>3, <2>4 DEF Take
  <2>9. StopIsStored' /\ PromiseIsKnown'
    BY <1>7 DEF Take
  <2> QED BY <2>5, <2>6, <2>7, <2>8, <2>9
<1>8. ASSUME NEW w \in Workers, Run(w) PROVE Draining'
  <2>1. TakenIsKept'
    BY <1>8 DEF Run
  <2>2. OnlyRunnersRun' /\ PromiseIsTaken' /\ ExitsWhenStopped' /\ AllExited'
    BY <1>8 DEF Run
  <2> QED BY <1>8, <2>1, <2>2 DEF Run
<1>9. CASE StopStore
  BY <1>9 DEF StopStore
<1>10. CASE StopNotifyAll
  <2>1. \A w \in Workers : worker'[w] # worker[w] => worker[w] = "waiting" /\ worker'[w] = "acquire"
    BY <1>10 DEF StopNotifyAll, Waiting
  <2> QED BY <1>10, <2>1 DEF StopNotifyAll, history
<1>11. CASE StopJoin
  BY <1>11 DEF StopJoin, history
<1>12. CASE UNCHANGED vars
  BY <1>12 DEF vars, history
<1> QED
  BY <1>1, <1>2, <1>3, <1>4, <1>5, <1>6, <1>7, <1>8, <1>9, <1>10, <1>11, <1>12
  DEF Next, WorkerStep, Stop

LEMMA DrainingInvariant == Spec => [](Typed /\ QueueIsFifo /\ Draining)
<1>1. Init => QueueIsFifo
  <2>1. <<>> \o <<>> = <<>>
    BY EmptySeq, ConcatEmptySeq
  <2> QED BY <2>1 DEF Init, QueueIsFifo
<1> QED BY <1>1, TypedInit, TypedStep, FifoStep, DrainingInit, DrainingStep, PTL DEF Spec

\* When all workers have left, what was promised is done.
LEMMA AllLeftIsDone ==
  ASSUME Typed, QueueIsFifo, Draining, \A w \in Workers : worker[w] = "exited",
         NEW i \in 1..promised
  PROVE  accepted[i] \in finished
<1> USE DEF Typed, TypeOK, Draining
<1>1. PICK w \in Workers : worker[w] = "exited"
  BY WorkersAssumption
<1>2. Len(started) \in Nat /\ i \in 1..Len(started)
  BY <1>1, LenProperties DEF PromiseIsTaken
<1>3. accepted[i] = started[i]
  BY <1>2, ConcatProperties, LenProperties DEF QueueIsFifo
<1>4. \A v \in Workers : running[v] = {}
  BY DEF OnlyRunnersRun
<1> QED BY <1>2, <1>3, <1>4 DEF TakenIsKept

\* When stop() returns, all that was accepted before it was called has run to the end
\* (stop(), lines 18 to 26, and the exit test of workerThread(), line 37).
THEOREM StopDrainsQueue == Spec => []StopDrains
<1>1. Typed /\ QueueIsFifo /\ Draining => StopDrains
  BY AllLeftIsDone DEF Draining, AllExited, StopDrains
<1> QED BY <1>1, DrainingInvariant, PTL

\* Once stop() has returned no thread of the pool does anything any more, though submit()
\* may still queue tasks.
THEOREM StoppedIsQuiet == Spec => NoWorkAfterStop
<1>1. Draining /\ [Next]_vars => [stopper = "stopped" => UNCHANGED <<worker, running, started, finished>>]_vars
  <2> SUFFICES ASSUME Draining, Next, stopper = "stopped"
               PROVE  UNCHANGED <<worker, running, started, finished>>
    OBVIOUS
  <2>1. \A w \in Workers : worker[w] = "exited"
    BY DEF Draining, AllExited
  <2>2. Waiting = {}
    BY <2>1 DEF Waiting
  <2> QED
    BY <2>1, <2>2
    DEF Next, WorkerStep, Stop, SubmitPush, SubmitNotify, Check, Block, SpuriousWakeup, Exit, Take,
        Run, StopStore, StopNotifyAll, StopJoin, history
<1> QED BY <1>1, DrainingInvariant, PTL DEF Spec, NoWorkAfterStop
-----------------------------------------------------------------------------
(* The pool implements TaskQueue. What has started and not finished is in  *)
(* the hands of some worker, one task each, so that there is room for one  *)
(* more when a worker takes a task; and the task taken is the next one of  *)
(* those accepted, since the queue is what is left of them.                *)

OneTaskEach == \A w \in Workers : running[w] = {} \/ \E t \in Tasks : running[w] = {t}

RunningWasTaken == \A w \in Workers : running[w] \subseteq ToSet(started)

Handing == OneTaskEach /\ RunningWasTaken

\* A longer sequence has the elements it had, and the new one.
LEMMA AppendedToo ==
  ASSUME NEW S, NEW s \in Seq(S), NEW e \in S
  PROVE  ToSet(s) \subseteq ToSet(Append(s, e)) /\ e \in ToSet(Append(s, e))
<1>1. /\ DOMAIN s = 1..Len(s) /\ Len(s) \in Nat
      /\ DOMAIN Append(s, e) = 1..Len(s) + 1
      /\ \A i \in 1..Len(s) : Append(s, e)[i] = s[i]
      /\ Append(s, e)[Len(s) + 1] = e
  BY AppendProperties, LenProperties
<1>2. Len(s) + 1 \in DOMAIN Append(s, e) /\ \A i \in DOMAIN s : i \in DOMAIN Append(s, e)
  BY <1>1
<1> QED BY <1>1, <1>2 DEF ToSet

LEMMA HandingStep == Typed /\ Handing /\ [Next]_vars => Handing'
<1> SUFFICES ASSUME Typed, Handing, [Next]_vars PROVE Handing'
  OBVIOUS
<1> USE DEF Handing, OneTaskEach, RunningWasTaken
<1>1. ASSUME NEW w \in Workers, Take(w) PROVE Handing'
  <2>1. /\ tasks # <<>> /\ running' = [running EXCEPT ![w] = {Head(tasks)}]
        /\ started' = Append(started, Head(tasks)) /\ running \in [Workers -> SUBSET Tasks]
        /\ started \in Seq(Tasks) /\ tasks \in Seq(Tasks)
    BY <1>1 DEF Take, Typed, TypeOK, NoPopOfEmptyQueue
  <2>2. Head(tasks) \in Tasks
    BY <2>1, HeadTailProperties
  <2>3. ToSet(started) \subseteq ToSet(started') /\ Head(tasks) \in ToSet(started')
    BY <2>1, <2>2, AppendedToo
  <2> QED BY <2>1, <2>2, <2>3
<1>2. ASSUME NEW w \in Workers, Run(w) PROVE Handing'
  BY <1>2 DEF Run, Typed, TypeOK
<1>3. ASSUME UNCHANGED <<running, started>> PROVE Handing'
  BY <1>3
<1>4. \/ \E w \in Workers : Take(w) \/ Run(w)
      \/ UNCHANGED <<running, started>>
  BY DEF Next, WorkerStep, Stop, SubmitPush, SubmitNotify, Check, Block, SpuriousWakeup, Exit,
         StopStore, StopNotifyAll, StopJoin, vars, history
<1> QED BY <1>1, <1>2, <1>3, <1>4

\* While a worker has no task, fewer tasks than workers are started and not finished.
LEMMA RoomForOne ==
  ASSUME Typed, Draining, Handing, NEW w \in Workers, worker[w] = "take"
  PROVE  Cardinality(ToSet(started) \ finished) < Cardinality(Workers)
<1> DEFINE Unfinished == ToSet(started) \ finished
           Busy == {v \in Workers : running[v] # {}}
           taskOf == [v \in Busy |-> CHOOSE t \in Tasks : running[v] = {t}]
           Held == {taskOf[v] : v \in Busy}
<1>1. Busy \subseteq Workers \ {w}
  BY DEF Draining, OnlyRunnersRun
<1>2. /\ IsFiniteSet(Workers \ {w})
      /\ Cardinality(Workers \ {w}) = Cardinality(Workers) - 1
      /\ Cardinality(Workers) \in Nat
  BY FiniteAssumption, FS_RemoveElement, FS_CardinalityType
<1>3. /\ IsFiniteSet(Busy) /\ Cardinality(Busy) \in Nat
      /\ Cardinality(Busy) <= Cardinality(Workers) - 1
  <2>1. Busy \in SUBSET (Workers \ {w})
    BY <1>1
  <2> HIDE DEF Busy
  <2> QED BY <1>2, <2>1, FS_Subset, FS_CardinalityType
<1>4. \A v \in Busy : running[v] = {taskOf[v]}
  BY DEF Handing, OneTaskEach
<1>5. taskOf \in Surjection(Busy, Held)
  BY DEF Surjection
<1>6. /\ IsFiniteSet(Held) /\ Cardinality(Held) \in Nat
      /\ Cardinality(Held) <= Cardinality(Busy)
  <2> HIDE DEF Busy, Held, taskOf
  <2> QED BY <1>3, <1>5, FS_Surjection, FS_CardinalityType
<1>7. Unfinished \in SUBSET Held
  <2> SUFFICES ASSUME NEW i \in DOMAIN started, started[i] \notin finished
               PROVE  started[i] \in Held
    BY DEF ToSet
  <2>1. i \in 1..Len(started)
    BY DEF Typed, TypeOK
  <2>2. PICK v \in Workers : started[i] \in running[v]
    BY <2>1 DEF Draining, TakenIsKept
  <2>3. v \in Busy /\ started[i] = taskOf[v]
    BY <1>4, <2>2
  <2> QED BY <2>3
<1>8. Cardinality(Unfinished) \in Nat /\ Cardinality(Unfinished) <= Cardinality(Held)
  <2> HIDE DEF Unfinished, Held
  <2> QED BY <1>6, <1>7, FS_Subset, FS_CardinalityType
<1> HIDE DEF Unfinished, Held, Busy
<1>9. Cardinality(Unfinished) < Cardinality(Workers)
  BY <1>2, <1>3, <1>6, <1>8
<1> QED BY <1>9 DEF Unfinished

\* The task at the head of the queue is the next one of those accepted.
LEMMA HeadIsNext ==
  ASSUME Typed, QueueIsFifo, tasks # <<>>
  PROVE  /\ Len(started) < Len(accepted)
         /\ Head(tasks) = accepted[Len(started) + 1]
<1>1. started \in Seq(Tasks) /\ tasks \in Seq(Tasks) /\ accepted = started \o tasks
  BY DEF Typed, TypeOK, QueueIsFifo
<1>2. Len(started) \in Nat /\ Len(tasks) \in Nat \ {0} /\ Head(tasks) = tasks[1]
  BY <1>1, LenProperties, EmptySeq, HeadTailProperties
<1>3. /\ Len(accepted) = Len(started) + Len(tasks)
      /\ \A i \in 1..Len(started) + Len(tasks) :
           accepted[i] = IF i <= Len(started) THEN started[i] ELSE tasks[i - Len(started)]
  BY <1>1, ConcatProperties
<1>4. /\ Len(started) + 1 \in 1..Len(started) + Len(tasks)
      /\ ~(Len(started) + 1 <= Len(started)) /\ (Len(started) + 1) - Len(started) = 1
  BY <1>2
<1> QED BY <1>2, <1>3, <1>4
Implementing == Typed /\ QueueIsFifo /\ Draining /\ Handing

\* The operators of the library are the same in the instance.
LEMMA SameOperators ==
  /\ \A s : Queue!ToSet(s) = ToSet(s)
  /\ \A S : Queue!Cardinality(S) = Cardinality(S)
<1>1. \A s : Queue!ToSet(s) = ToSet(s)
  BY DEF ToSet, Queue!ToSet
<1>2. \A S : Queue!Cardinality(S) = Cardinality(S)
  BY DEF Cardinality, Queue!Cardinality
<1> QED BY <1>1, <1>2

LEMMA QueueInit == Init => Queue!Init
BY DEF Init, Queue!Init

\* stop() begins, notifies and returns: a close that begins, a stutter, and the close.
LEMMA QueueStop == Implementing /\ Stop => [Queue!Next]_Queue!qvars
<1> SUFFICES ASSUME Implementing, Stop PROVE Queue!BeginClose \/ Queue!Close \/ UNCHANGED Queue!qvars
  BY DEF Queue!Next
<1>1. CASE StopStore
  BY <1>1 DEF StopStore, Queue!BeginClose
<1>2. CASE StopNotifyAll
  BY <1>2 DEF StopNotifyAll, history, Queue!qvars
<1>3. CASE StopJoin
  <2>1. /\ stopper = "join" /\ stopper' = "stopped"
        /\ UNCHANGED <<accepted, started, finished, promised>>
        /\ \A w \in Workers : worker[w] = "exited"
    BY <1>3 DEF StopJoin, history
  <2>2. \A i \in 1..promised : accepted[i] \in finished
    BY <2>1, AllLeftIsDone DEF Implementing
  <2> QED BY <2>1, <2>2 DEF Queue!Close
<1> QED BY <1>1, <1>2, <1>3 DEF Stop

LEMMA QueueStep == Implementing /\ [Next]_vars => [Queue!Next]_Queue!qvars
<1> SUFFICES ASSUME Implementing, [Next]_vars PROVE [Queue!Next]_Queue!qvars
  OBVIOUS
<1>1. ASSUME NEW s \in Submitters, NEW t \in Tasks, SubmitPush(s, t) PROVE Queue!Next
  <2>1. Queue!Accept(t)
    BY <1>1, SameOperators DEF SubmitPush, Queue!Accept
  <2> QED BY <2>1 DEF Queue!Next
<1>2. ASSUME NEW w \in Workers, Take(w) PROVE Queue!Next
  <2>1. /\ worker[w] = "take" /\ tasks # <<>> /\ started' = Append(started, Head(tasks))
        /\ UNCHANGED <<accepted, finished, stopper, promised>>
    BY <1>2 DEF Take, Implementing, Typed, NoPopOfEmptyQueue
  <2>2. Len(started) < Len(accepted) /\ Head(tasks) = accepted[Len(started) + 1]
    BY <2>1, HeadIsNext DEF Implementing
  <2>3. Cardinality(ToSet(started) \ finished) < Cardinality(Workers)
    BY <2>1, RoomForOne DEF Implementing
  <2>4. Queue!Start
    BY <2>1, <2>2, <2>3, SameOperators DEF Queue!Start
  <2> QED BY <2>4 DEF Queue!Next
<1>3. ASSUME NEW w \in Workers, Run(w) PROVE [Queue!Next]_Queue!qvars
  <2>1. /\ finished' = finished \cup running[w]
        /\ UNCHANGED <<accepted, started, stopper, promised>>
    BY <1>3 DEF Run
  <2>2. CASE running[w] \subseteq finished
    <3>1. finished' = finished
      BY <2>1, <2>2
    <3> QED BY <2>1, <3>1 DEF Queue!qvars
  <2>3. CASE ~(running[w] \subseteq finished)
    <3>1. PICK t \in Tasks : running[w] = {t}
      BY <2>3 DEF Implementing, Handing, OneTaskEach
    <3>2. t \in ToSet(started) \ finished
      BY <2>3, <3>1 DEF Implementing, Handing, RunningWasTaken
    <3>3. Queue!Finish(t)
      BY <2>1, <3>1, <3>2, SameOperators DEF Queue!Finish
    <3> QED BY <3>3 DEF Queue!Next
  <2> QED BY <2>2, <2>3
<1>4. ASSUME UNCHANGED <<accepted, started, finished, stopper, promised>>
      PROVE  UNCHANGED Queue!qvars
  BY <1>4 DEF Queue!qvars
<1>5. \/ \E s \in Submitters, t \in Tasks : SubmitPush(s, t)
      \/ \E w \in Workers : Take(w) \/ Run(w)
      \/ Stop
      \/ UNCHANGED <<accepted, started, finished, stopper, promised>>
  BY DEF Next, WorkerStep, SubmitNotify, Check, Block, SpuriousWakeup, Exit, vars, history
<1> QED BY <1>1, <1>2, <1>3, <1>4, <1>5, QueueStop

\* The pool is a task queue: whatever submit(), the workers and stop() do, in any
\* interleaving, accepts, starts or finishes a task as TaskQueue allows, with no more tasks
\* running than there are workers, and stop() returns when all promised ones are finished.
THEOREM PoolIsTaskQueue == Spec => ImplementsTaskQueue
<1>1. Init => Handing
  BY DEF Init, Handing, OneTaskEach, RunningWasTaken
<1>2. Spec => []Implementing
  BY <1>1, HandingStep, DrainingInvariant, PTL DEF Spec, Implementing
<1> QED BY <1>2, QueueInit, QueueStep, PTL DEF Spec, ImplementsTaskQueue, Queue!Spec
=============================================================================
