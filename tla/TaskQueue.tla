------------------------------ MODULE TaskQueue ------------------------------
(***************************************************************************)
(* What the server's thread pool promises to the reactor that submits SQL  *)
(* tasks to it: tasks start in the order they were accepted, each exactly  *)
(* once, never more than Limit of them at a time, and a completed stop()   *)
(* means that whatever was accepted before stop() was called has finished. *)
(* ThreadPool.tla is shown to implement this specification.                *)
(***************************************************************************)
EXTENDS Naturals, SequencesExt, FiniteSets

CONSTANTS Tasks,   \* the tasks that may be submitted, each one at most once
          Limit    \* how many tasks may run at the same time

VARIABLES accepted,  \* the tasks in the order submit() queued them
          started,   \* the tasks in the order workers took them
          finished,  \* the tasks that have run to the end
          phase,     \* "open", "closing" once stop() began, "closed" once it returned
          promised   \* how many tasks had been accepted when stop() began

qvars == <<accepted, started, finished, phase, promised>>

Init ==
  /\ accepted = <<>>
  /\ started = <<>>
  /\ finished = {}
  /\ phase = "open"
  /\ promised = 0

Accept(t) ==
  /\ t \notin ToSet(accepted)
  /\ accepted' = Append(accepted, t)
  /\ UNCHANGED <<started, finished, phase, promised>>

Start ==
  /\ Len(started) < Len(accepted)
  /\ Cardinality(ToSet(started) \ finished) < Limit
  /\ started' = Append(started, accepted[Len(started) + 1])
  /\ UNCHANGED <<accepted, finished, phase, promised>>

Finish(t) ==
  /\ t \in ToSet(started) \ finished
  /\ finished' = finished \cup {t}
  /\ UNCHANGED <<accepted, started, phase, promised>>

\* stop() may be called more than once: the promise is the one of the first call.
BeginClose ==
  /\ phase \in {"open", "closed"}
  /\ phase' = "closing"
  /\ promised' = IF phase = "open" THEN Len(accepted) ELSE promised
  /\ UNCHANGED <<accepted, started, finished>>

Close ==
  /\ phase = "closing"
  /\ \A i \in 1..promised : accepted[i] \in finished
  /\ phase' = "closed"
  /\ UNCHANGED <<accepted, started, finished, promised>>

Next ==
  \/ \E t \in Tasks : Accept(t) \/ Finish(t)
  \/ Start
  \/ BeginClose
  \/ Close

Spec == Init /\ [][Next]_qvars
=============================================================================
