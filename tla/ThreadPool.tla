----------------------------- MODULE ThreadPool -----------------------------
(***************************************************************************)
(* The pool of worker threads that runs SQL handlers                       *)
(* (server/network/ThreadPool.h, ThreadPool.cpp).                          *)
(*                                                                         *)
(* The queue is protected by queueMutex_; workers sleep on condition_; the *)
(* stop flag is an atomic that stop() stores WITHOUT taking the mutex.     *)
(* condition_.wait(lock, pred) is modelled as its loop: with the mutex     *)
(* held test the predicate; if it is false, atomically release the mutex   *)
(* and sleep; when woken (or spuriously) take the mutex and test again.    *)
(***************************************************************************)
EXTENDS Naturals, SequencesExt, FiniteSets

CONSTANTS Workers,     \* the threads the constructor creates
          Submitters,  \* the threads that call submit(): the reactor threads
          Tasks,       \* the tasks that may be submitted, each one once
          MaxSpurious, \* bound on the spurious wakeups of a behaviour
          Free         \* the mutex is held by nobody

ASSUME WorkersAssumption == Workers # {}
ASSUME FreeAssumption == Free \notin Workers
ASSUME FiniteAssumption == IsFiniteSet(Workers) /\ IsFiniteSet(Submitters)
ASSUME SpuriousAssumption == MaxSpurious \in Nat

VARIABLES mutex,     \* queueMutex_: Free or the worker that holds it
          tasks,     \* tasks_
          stop,      \* stop_
          worker,    \* where each worker is in workerThread()
          running,   \* the tasks a worker has taken and not finished: {} or {t}
          submitter, \* where each submitter is in submit()
          stopper,   \* where the caller of stop() is
          spurious,  \* how many spurious wakeups have happened
          accepted, started, finished,  \* history: tasks queued, taken and run
          promised   \* history: Len(accepted) when stop() was first called

history == <<accepted, started, finished, promised>>
vars == <<mutex, tasks, stop, worker, running, submitter, stopper, spurious, history>>

WorkerStates == {"acquire", "block", "waiting", "take", "run", "exited"}

Waiting == {w \in Workers : worker[w] = "waiting"}

TypeOK ==
  /\ mutex \in Workers \cup {Free}
  /\ tasks \in Seq(Tasks)
  /\ stop \in BOOLEAN
  /\ worker \in [Workers -> WorkerStates]
  /\ running \in [Workers -> SUBSET Tasks]
  /\ submitter \in [Submitters -> {"idle", "notify"}]
  /\ stopper \in {"idle", "notify", "join", "stopped"}
  /\ spurious \in 0..MaxSpurious
  /\ accepted \in Seq(Tasks)
  /\ started \in Seq(Tasks)
  /\ finished \in SUBSET Tasks
  /\ promised \in Nat
  /\ \A w \in Workers : mutex = w <=> worker[w] \in {"block", "take"}

Init ==
  /\ mutex = Free
  /\ tasks = <<>>
  /\ stop = FALSE
  /\ worker = [w \in Workers |-> "acquire"]
  /\ running = [w \in Workers |-> {}]
  /\ submitter = [s \in Submitters |-> "idle"]
  /\ stopper = "idle"
  /\ spurious = 0
  /\ accepted = <<>>
  /\ started = <<>>
  /\ finished = {}
  /\ promised = 0
-----------------------------------------------------------------------------
(* submit()                                                                *)

\* Mutant: an attempt to save wakeups, notifying only when the queue was empty.
SubmitPushQuiet(s, t) ==
  /\ submitter[s] = "idle"
  /\ mutex = Free
  /\ t \notin ToSet(accepted)
  /\ tasks' = Append(tasks, t)
  /\ accepted' = Append(accepted, t)
  /\ submitter' = [submitter EXCEPT ![s] = IF tasks = <<>> THEN "notify" ELSE "idle"]
  /\ UNCHANGED <<mutex, stop, worker, running, stopper, spurious, started, finished, promised>>

\* The locked block of submit(): the task joins the queue. stop_ is not read.
SubmitPush(s, t) ==
  /\ submitter[s] = "idle"
  /\ mutex = Free
  /\ t \notin ToSet(accepted)
  /\ tasks' = Append(tasks, t)
  /\ accepted' = Append(accepted, t)
  /\ submitter' = [submitter EXCEPT ![s] = "notify"]
  /\ UNCHANGED <<mutex, stop, worker, running, stopper, spurious, started, finished, promised>>

\* Mutant: submit() returns without notify_one().
SubmitSilent(s) ==
  /\ submitter[s] = "notify"
  /\ submitter' = [submitter EXCEPT ![s] = "idle"]
  /\ UNCHANGED <<mutex, tasks, stop, worker, running, stopper, spurious, history>>

\* notify_one() after the mutex was released: one sleeping worker, if any, wakes.
SubmitNotify(s) ==
  /\ submitter[s] = "notify"
  /\ submitter' = [submitter EXCEPT ![s] = "idle"]
  /\ \/ \E w \in Waiting : worker' = [worker EXCEPT ![w] = "acquire"]
     \/ Waiting = {} /\ UNCHANGED worker
  /\ UNCHANGED <<mutex, tasks, stop, running, stopper, spurious, history>>
-----------------------------------------------------------------------------
(* workerThread()                                                          *)

\* Mutant: condition_.wait(lock) without its predicate.
CheckNothing(w) ==
  /\ worker[w] = "acquire"
  /\ mutex = Free
  /\ mutex' = w
  /\ worker' = [worker EXCEPT ![w] = "take"]
  /\ UNCHANGED <<tasks, stop, running, submitter, stopper, spurious, history>>

\* Mutant: the mutex is released between the test and the sleep.
CheckThenUnlock(w) ==
  /\ worker[w] = "acquire"
  /\ mutex = Free
  /\ mutex' = IF stop \/ tasks # <<>> THEN w ELSE Free
  /\ worker' = [worker EXCEPT ![w] = IF stop \/ tasks # <<>> THEN "take" ELSE "block"]
  /\ UNCHANGED <<tasks, stop, running, submitter, stopper, spurious, history>>

\* Take (or, in the wait, retake) the mutex and test stop_ || !tasks_.empty().
Check(w) ==
  /\ worker[w] = "acquire"
  /\ mutex = Free
  /\ mutex' = w
  /\ worker' = [worker EXCEPT ![w] = IF stop \/ tasks # <<>> THEN "take" ELSE "block"]
  /\ UNCHANGED <<tasks, stop, running, submitter, stopper, spurious, history>>

\* The predicate was false: release the mutex and sleep, in one atomic step.
Block(w) ==
  /\ worker[w] = "block"
  /\ mutex' = Free
  /\ worker' = [worker EXCEPT ![w] = "waiting"]
  /\ UNCHANGED <<tasks, stop, running, submitter, stopper, spurious, history>>

SpuriousWakeup(w) ==
  /\ worker[w] = "waiting"
  /\ spurious < MaxSpurious
  /\ spurious' = spurious + 1
  /\ worker' = [worker EXCEPT ![w] = "acquire"]
  /\ UNCHANGED <<mutex, tasks, stop, running, submitter, stopper, history>>

\* Mutant: a stopped worker leaves whatever is still queued.
ExitAtOnce(w) ==
  /\ worker[w] = "take"
  /\ stop
  /\ mutex' = Free
  /\ worker' = [worker EXCEPT ![w] = "exited"]
  /\ UNCHANGED <<tasks, stop, running, submitter, stopper, spurious, history>>

\* Mutant: a worker that has nothing left to do looks again instead of leaving.
ExitContinues(w) ==
  /\ worker[w] = "take"
  /\ stop
  /\ tasks = <<>>
  /\ mutex' = Free
  /\ worker' = [worker EXCEPT ![w] = "acquire"]
  /\ UNCHANGED <<tasks, stop, running, submitter, stopper, spurious, history>>

\* if (stop_ && tasks_.empty()) return: leaving the scope releases the mutex.
Exit(w) ==
  /\ worker[w] = "take"
  /\ stop
  /\ tasks = <<>>
  /\ mutex' = Free
  /\ worker' = [worker EXCEPT ![w] = "exited"]
  /\ UNCHANGED <<tasks, stop, running, submitter, stopper, spurious, history>>

\* Mutant: the newest task first.
TakeNewest(w) ==
  /\ worker[w] = "take"
  /\ tasks # <<>>
  /\ running' = [running EXCEPT ![w] = {tasks[Len(tasks)]}]
  /\ started' = Append(started, tasks[Len(tasks)])
  /\ tasks' = SubSeq(tasks, 1, Len(tasks) - 1)
  /\ mutex' = Free
  /\ worker' = [worker EXCEPT ![w] = "run"]
  /\ UNCHANGED <<stop, submitter, stopper, spurious, accepted, finished, promised>>

\* Mutant: the task runs with the mutex still held.
TakeLocked(w) ==
  /\ worker[w] = "take"
  /\ tasks # <<>>
  /\ running' = [running EXCEPT ![w] = {Head(tasks)}]
  /\ started' = Append(started, Head(tasks))
  /\ tasks' = Tail(tasks)
  /\ worker' = [worker EXCEPT ![w] = "run"]
  /\ UNCHANGED <<mutex, stop, submitter, stopper, spurious, accepted, finished, promised>>

\* Otherwise pop the front of the queue and release the mutex.
Take(w) ==
  /\ worker[w] = "take"
  /\ ~ (stop /\ tasks = <<>>)
  /\ running' = [running EXCEPT ![w] = {Head(tasks)}]
  /\ started' = Append(started, Head(tasks))
  /\ tasks' = Tail(tasks)
  /\ mutex' = Free
  /\ worker' = [worker EXCEPT ![w] = "run"]
  /\ UNCHANGED <<stop, submitter, stopper, spurious, accepted, finished, promised>>

\* task(): a packaged_task keeps an exception to itself, so the worker goes on.
Run(w) ==
  /\ worker[w] = "run"
  /\ finished' = finished \cup running[w]
  /\ running' = [running EXCEPT ![w] = {}]
  /\ worker' = [worker EXCEPT ![w] = "acquire"]
  /\ UNCHANGED <<mutex, tasks, stop, submitter, stopper, spurious, accepted, started, promised>>
-----------------------------------------------------------------------------
(* stop(), which the reactor calls and the destructor calls again          *)

StopStore ==
  /\ stopper \in {"idle", "stopped"}
  /\ stop' = TRUE
  /\ stopper' = "notify"
  /\ promised' = IF stopper = "idle" THEN Len(accepted) ELSE promised
  /\ UNCHANGED <<mutex, tasks, worker, running, submitter, spurious, accepted, started, finished>>

StopNotifyAll ==
  /\ stopper = "notify"
  /\ worker' = [w \in Workers |-> IF w \in Waiting THEN "acquire" ELSE worker[w]]
  /\ stopper' = "join"
  /\ UNCHANGED <<mutex, tasks, stop, running, submitter, spurious, history>>

\* Mutant: stop() joins nobody (or joins the first worker only).
StopDetach ==
  /\ stopper = "join"
  /\ \E w \in Workers : worker[w] = "exited"
  /\ stopper' = "stopped"
  /\ UNCHANGED <<mutex, tasks, stop, worker, running, submitter, spurious, history>>

\* The join loop returns when every worker thread has returned.
StopJoin ==
  /\ stopper = "join"
  /\ \A w \in Workers : worker[w] = "exited"
  /\ stopper' = "stopped"
  /\ UNCHANGED <<mutex, tasks, stop, worker, running, submitter, spurious, history>>
-----------------------------------------------------------------------------
WorkerStep(w) == Check(w) \/ Block(w) \/ Exit(w) \/ Take(w) \/ Run(w)

Stop == StopStore \/ StopNotifyAll \/ StopJoin

Next ==
  \/ \E s \in Submitters : SubmitNotify(s) \/ \E t \in Tasks : SubmitPush(s, t)
  \/ \E w \in Workers : WorkerStep(w) \/ SpuriousWakeup(w)
  \/ Stop

Spec == Init /\ [][Next]_vars

\* The scheduler runs every thread that can run. A mutex promises no more than
\* that to a thread contending for it, so the fairness is weak. Nobody has to
\* call submit() or stop(), and nothing has to wake up spuriously.
Fairness ==
  /\ \A s \in Submitters : WF_vars(SubmitNotify(s))
  /\ \A w \in Workers : WF_vars(WorkerStep(w))
  /\ WF_vars(StopNotifyAll)
  /\ WF_vars(StopJoin)

FairSpec == Spec /\ Fairness
-----------------------------------------------------------------------------
(* Safety                                                                  *)

\* submit() and the workers share tasks_: whatever the interleaving, the tasks
\* taken so far followed by the tasks still queued are the tasks accepted, in
\* order, so no task is lost, run twice or overtaken.
QueueIsFifo == accepted = started \o tasks

\* workerThread() lines 37-42: the test before front()/pop() reads stop_ again
\* after wait() returned; a worker past it never pops an empty queue, although
\* stop_ may have changed between the two reads.
NoPopOfEmptyQueue == \A w \in Workers : worker[w] = "take" => stop \/ tasks # <<>>

\* The wakeup protocol of submit(): while the pool is not stopped, a queued task
\* always has a notify_one still to come or a worker awake that will see it.
NoLostWakeup ==
  (tasks # <<>> /\ ~stop) =>
    \/ \E s \in Submitters : submitter[s] = "notify"
    \/ \E w \in Workers : worker[w] \in {"acquire", "take", "run"}

\* submit() wakes one worker per task: while some worker sleeps and the pool is
\* not stopped, there is a notify_one to come or a worker on its way to the queue
\* for every queued task, so no task waits behind another one for want of a wakeup.
WorkConserving ==
  (Waiting # {} /\ ~stop) =>
    Len(tasks) <= Cardinality({s \in Submitters : submitter[s] = "notify"})
                  + Cardinality({w \in Workers : worker[w] \in {"acquire", "take"}})

\* When stop() returns, every task accepted before it was called has run to the
\* end: a worker leaves only after finding the queue empty (ThreadPool.cpp:37).
StopDrains ==
  stopper = "stopped" => \A i \in 1..promised : accepted[i] \in finished

\* A worker thread that returned never touches the pool again, which stop()'s
\* caller relies on when it destroys the sessions and the pool.
NoWorkAfterStop ==
  [][stopper = "stopped" => UNCHANGED <<worker, running, started, finished>>]_vars
-----------------------------------------------------------------------------
(* Liveness                                                                *)

\* submit() and workerThread(): a task accepted before stop() is called is run to the
\* end eventually, even when stop() is called meanwhile and loses the wakeup of a worker.
EveryTaskRuns ==
  \A t \in Tasks : (t \in ToSet(accepted) /\ stopper = "idle") ~> t \in finished

\* ThreadPool.h:34-38, the shutdown sequence: set the flag, notify all workers, the
\* workers leave their loop, join all threads. stop() returns, but for a worker that
\* goes to sleep after the notification: the flag is stored without the mutex, so the
\* worker may have tested it before, and nothing wakes it any more.
StopReturnsOrMissesAWorker == stopper = "join" ~> (stopper = "stopped" \/ Waiting # {})
-----------------------------------------------------------------------------
(* Refinement: the pool implements the abstract task queue.                *)

Queue == INSTANCE TaskQueue WITH
  Limit <- Cardinality(Workers),
  phase <- CASE stopper = "idle" -> "open"
             [] stopper \in {"notify", "join"} -> "closing"
             [] stopper = "stopped" -> "closed"

ImplementsTaskQueue == Queue!Spec
=============================================================================
