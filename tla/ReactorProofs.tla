---------------------------- MODULE ReactorProofs ----------------------------
(***************************************************************************)
(* Proofs about Reactor for any set of connections, descriptors, reactor   *)
(* and pool threads.                                                       *)
(***************************************************************************)
EXTENDS Reactor, SequenceTheorems, TLAPS

(***************************************************************************)
(* Types. A task is made from the connection behind a descriptor that a    *)
(* reactor thread was given, so types hold only because such a descriptor  *)
(* is open.                                                                *)
(***************************************************************************)
HeldIsOpen ==
  /\ \A fd \in armed : owner[fd] # None
  /\ \A r \in Reactors : \A fd \in batch[r] \cap Fds : owner[fd] # None

LEMMA TypedInit == Init => TypeOK /\ HeldIsOpen
<1> SUFFICES ASSUME Init PROVE TypeOK /\ HeldIsOpen
  OBVIOUS
<1>1. /\ <<>> \in Seq(Parts) /\ <<>> \in Seq(Spans)
      /\ <<>> \in Seq(Conns) /\ <<>> \in Seq(SqlTasks)
  BY EmptySeq
<1> QED BY <1>1, BoundAssumption DEF Init, TypeOK, HeldIsOpen

\* Handing event e over changes the place and the batch of one thread.
LEMMA EventDoneTypes ==
  ASSUME TypeOK, NEW r \in Reactors, NEW e, EventDone(r, e)
  PROVE  /\ reactor' \in [Reactors -> {"top", "poll", "dispatch", "accept", "exited"}]
         /\ batch' \in [Reactors -> SUBSET Events]
BY DEF TypeOK, EventDone

\* What one read() takes from a buffer, what it leaves, and the task made of it.
LEMMA ReadIsTyped ==
  ASSUME TypeOK, NEW c \in Conns, NEW n \in Reads(c)
  PROVE  /\ inbox[c] \in Seq(Parts) /\ n \in Nat /\ n <= Len(inbox[c])
         /\ SubSeq(inbox[c], n + 1, Len(inbox[c])) \in Seq(Parts)
         /\ Len(SubSeq(inbox[c], n + 1, Len(inbox[c]))) = Len(inbox[c]) - n
         /\ \A i \in 1..(Len(inbox[c]) - n) :
              SubSeq(inbox[c], n + 1, Len(inbox[c]))[i] = inbox[c][n + i]
<1>1. inbox[c] \in Seq(Parts) /\ Len(inbox[c]) \in Nat
  BY LenProperties DEF TypeOK
<1>2. n \in Nat /\ n <= Len(inbox[c])
  BY <1>1 DEF Reads
<1> DEFINE len == Len(inbox[c])
<1>3. n + 1 \in Int /\ len \in Int /\ \A i \in (n + 1)..len : inbox[c][i] \in Parts
  BY <1>1, <1>2, ElementOfSeq
<1>4. /\ SubSeq(inbox[c], n + 1, len) \in Seq(Parts)
      /\ Len(SubSeq(inbox[c], n + 1, len)) = IF n + 1 <= len THEN len - (n + 1) + 1 ELSE 0
      /\ \A i \in 1..(len - (n + 1) + 1) : SubSeq(inbox[c], n + 1, len)[i] = inbox[c][n + 1 + i - 1]
  BY <1>3, SubSeqProperties
<1>5. \A i \in 1..(len - n) : n + 1 + i - 1 = n + i
  BY <1>1, <1>2
<1>6. len - (n + 1) + 1 = len - n /\ (IF n + 1 <= len THEN len - (n + 1) + 1 ELSE 0) = len - n
  BY <1>1, <1>2
<1> QED BY <1>1, <1>2, <1>4, <1>5, <1>6

LEMMA TaskIsTyped ==
  ASSUME TypeOK, NEW fd \in Fds, owner[fd] \in Conns, NEW n \in Reads(owner[fd]),
         NEW stmt \in FirstStatement(owner[fd], n)
  PROVE  TaskFor(fd, n, stmt) \in SqlTasks /\ n \in 1..Len(inbox[owner[fd]])
<1>1. n \in Nat /\ inbox[owner[fd]] \in Seq(Parts) /\ n <= Len(inbox[owner[fd]])
  BY ReadIsTyped
<1>2. n >= 1 /\ Len(inbox[owner[fd]]) \in Nat
  BY <1>1 DEF FirstStatement, Texts
<1>3. inbox[owner[fd]][1] \in Parts /\ inbox[owner[fd]][n] \in Parts
  BY <1>1, <1>2, ElementOfSeq
<1> QED BY <1>1, <1>2, <1>3 DEF TaskFor, FirstStatement, Parts, Spans, SqlTasks

LEMMA TypeStep == TypeOK /\ HeldIsOpen /\ [Next]_vars => TypeOK'
<1> SUFFICES ASSUME TypeOK, HeldIsOpen, [Next]_vars PROVE TypeOK'
  OBVIOUS
<1> USE DEF TypeOK
<1> USE BoundAssumption
<1>1. ASSUME NEW c \in Conns, Connect(c) PROVE TypeOK'
  BY <1>1, AppendProperties DEF Connect, client, pool
<1>2. ASSUME NEW c \in Conns, Disconnect(c) PROVE TypeOK'
  BY <1>2 DEF Disconnect, kernel, pool
<1>3. ASSUME NEW c \in Conns, NEW text \in Dbs \cup Others, Send(c, text) PROVE TypeOK'
  <2>1. sent[c] + 1 \in 1..MaxParts
    BY <1>3 DEF Send
  <2>2. [no |-> sent[c] + 1, text |-> text] \in Parts
    BY <2>1 DEF Parts
  <2>3. inbox' \in [Conns -> Seq(Parts)]
    BY <1>3, <2>2, AppendProperties DEF Send
  <2>4. sent' \in [Conns -> 0..MaxParts]
    BY <1>3, <2>1 DEF Send
  <2> QED BY <1>3, <2>3, <2>4 DEF Send, kernel, pool
<1>4. ASSUME NEW r \in Reactors, LoopTest(r) PROVE TypeOK'
  BY <1>4 DEF LoopTest, client, kernel, pool
<1>5. ASSUME NEW r \in Reactors, Poll(r) PROVE TypeOK'
  <2>1. Ready \subseteq Events
    BY DEF Ready, Events
  <2> QED BY <1>5, <2>1 DEF Poll, client, kernel, pool
<1>6. ASSUME NEW r \in Reactors, CallAccept(r) PROVE TypeOK'
  BY <1>6 DEF CallAccept, client, kernel, pool
<1>7. ASSUME NEW r \in Reactors, Accept(r) PROVE TypeOK'
  <2>1. Head(backlog) \in Conns /\ Tail(backlog) \in Seq(Conns)
    BY <1>7, HeadTailProperties DEF Accept
  <2>2. PICK fd \in FreeFds : /\ owner' = [owner EXCEPT ![fd] = Head(backlog)]
                              /\ owners' = [owners EXCEPT ![fd] = @ \cup {Head(backlog)}]
                              /\ armed' = armed \cup {fd}
    BY <1>7 DEF Accept
  <2>3. fd \in Fds
    BY DEF FreeFds
  <2> QED BY ZenonT(30), <1>7, <2>1, <2>2, <2>3, EventDoneTypes DEF Accept, client, pool
<1>8. ASSUME NEW r \in Reactors, AcceptThenClose(r) PROVE TypeOK'
  <2>1. Head(backlog) \in Conns /\ Tail(backlog) \in Seq(Conns)
    BY <1>8, HeadTailProperties DEF AcceptThenClose
  <2> QED BY <1>8, <2>1, EventDoneTypes DEF AcceptThenClose, client, pool
<1>9. ASSUME NEW r \in Reactors, AcceptFails(r) PROVE TypeOK'
  BY <1>9, EventDoneTypes DEF AcceptFails, client, kernel, pool
<1>10. ASSUME NEW r \in Reactors, NEW fd \in Fds, ReadThenClose(r, fd) PROVE TypeOK'
  <2>1. <<>> \in Seq(Parts)
    BY EmptySeq
  <2> QED BY <1>10, <2>1, EventDoneTypes DEF ReadThenClose, pool
<1>11. ASSUME NEW r \in Reactors, NEW fd \in Fds, ReadThenSubmit(r, fd) PROVE TypeOK'
  <2>1. owner[fd] \in Conns
    BY <1>11 DEF ReadThenSubmit, HeldIsOpen
  <2>2. PICK n \in Reads(owner[fd]) :
          /\ \E stmt \in FirstStatement(owner[fd], n) : tasks' = Append(tasks, TaskFor(fd, n, stmt))
          /\ inbox' = [inbox EXCEPT ![owner[fd]] = SubSeq(@, n + 1, Len(@))]
    BY <1>11 DEF ReadThenSubmit
  <2>3. PICK stmt \in FirstStatement(owner[fd], n) : tasks' = Append(tasks, TaskFor(fd, n, stmt))
    BY <2>2
  <2>4. tasks' \in Seq(SqlTasks)
    BY <2>1, <2>3, TaskIsTyped, AppendProperties
  <2>5. inbox' \in [Conns -> Seq(Parts)]
    BY <2>1, <2>2, ReadIsTyped
  <2> QED BY <1>11, <2>4, <2>5, EventDoneTypes DEF ReadThenSubmit, kernel
<1>12. ASSUME NEW w \in Workers, Begin(w) PROVE TypeOK'
  <2>1. Head(tasks) \in SqlTasks /\ Tail(tasks) \in Seq(SqlTasks)
    BY <1>12, HeadTailProperties DEF Begin
  <2>2. Head(tasks).fd \in Fds
    BY <2>1 DEF SqlTasks
  <2> QED BY <1>12, <2>1, <2>2 DEF Begin, client, kernel
<1>13. ASSUME NEW w \in Workers, Execute(w) PROVE TypeOK'
  <2>1. PICK t \in job[w] :
          \/ /\ t.stmt \in Dbs
             /\ sessions' = [sessions EXCEPT ![t.fd] = t.stmt]
             /\ chosen' = [chosen EXCEPT ![t.conn] = t.stmt]
          \/ UNCHANGED <<sessions, chosen>>
    BY <1>13 DEF Execute
  <2>2. /\ sessions' \in [Fds -> Dbs \cup {NoDb, None}]
        /\ chosen' \in [Conns -> Dbs \cup {NoDb}]
    BY <2>1
  <2> QED BY <1>13, <2>2 DEF Execute, client, kernel
<1>14. ASSUME NEW w \in Workers, Reply(w) PROVE TypeOK'
  <2>1. PICK t \in job[w] :
          IF owner[t.fd] # None /\ ~eof[owner[t.fd]]
            THEN answered' = [answered EXCEPT ![owner[t.fd]] = Append(@, t.span)]
            ELSE UNCHANGED answered
    BY <1>14 DEF Reply
  <2>2. t \in SqlTasks
    BY <2>1
  <2>3. t.span \in Spans
    BY <2>2 DEF SqlTasks
  <2>4. answered' \in [Conns -> Seq(Spans)]
    <3>1. \A c \in Conns : Append(answered[c], t.span) \in Seq(Spans)
      BY <2>3, AppendProperties
    <3>2. CASE owner[t.fd] # None /\ ~eof[owner[t.fd]]
      <4>1. answered' = [answered EXCEPT ![owner[t.fd]] = Append(answered[owner[t.fd]], t.span)]
        BY <2>1, <3>2
      <4>2. t.fd \in Fds
        BY <2>2 DEF SqlTasks
      <4>3. owner[t.fd] \in Conns
        BY <3>2, <4>2
      <4>4. answered \in [Conns -> Seq(Spans)]
        OBVIOUS
      <4> QED BY <3>1, <4>1, <4>3, <4>4
    <3>3. CASE ~(owner[t.fd] # None /\ ~eof[owner[t.fd]])
      BY <2>1, <3>3
    <3> QED BY <3>2, <3>3
  <2> QED BY <1>14, <2>4 DEF Reply, kernel
<1>15. ASSUME NEW w \in Workers, Rearm(w) PROVE TypeOK'
  <2>1. PICK t \in job[w] : armed' = IF owner[t.fd] = None THEN armed ELSE armed \cup {t.fd}
    BY <1>15 DEF Rearm
  <2>2. t.fd \in Fds
    BY <2>1 DEF SqlTasks
  <2> QED BY <1>15, <2>1, <2>2 DEF Rearm, client, kernel
<1>16. CASE StopReactor
  BY <1>16 DEF StopReactor, client, kernel, pool
<1>17. CASE StopStep
  BY <1>17 DEF StopStep, JoinReactors, StopPool, ClearSessions, client, kernel, pool
<1>18. CASE UNCHANGED vars
  BY <1>18 DEF vars
<1> QED
  BY <1>1, <1>2, <1>3, <1>4, <1>5, <1>6, <1>7, <1>8, <1>9, <1>10, <1>11, <1>12, <1>13, <1>14,
     <1>15, <1>16, <1>17, <1>18
  DEF Next, Serve, ClientStep, ReactorStep, WorkerStep

-----------------------------------------------------------------------------
(* One owner. A descriptor is armed, in one batch, in one task or in one   *)
(* job. This needs the descriptors behind all four to be open: accept()    *)
(* arms a free descriptor, which nobody may hold.                          *)

Owned == HeldIsOpen /\ OneHandlerPerConnection /\ TaskDescriptorIsLive

\* Threads and clients that leave the ownership of descriptors alone.
LEMMA OwnedKept ==
  ASSUME Owned, UNCHANGED <<owner, armed, batch, tasks, job>>
  PROVE  Owned'
BY DEF Owned, HeldIsOpen, OneHandlerPerConnection, TaskDescriptorIsLive

\* A thread that is done with an event has fewer.
LEMMA BatchShrinks ==
  ASSUME TypeOK, NEW r \in Reactors, NEW e, EventDone(r, e)
  PROVE  /\ \A q \in Reactors : batch'[q] \subseteq batch[q]
         /\ e \notin batch'[r]
BY DEF TypeOK, EventDone

\* Queued and running tasks name a descriptor and a connection.
LEMMA TasksAreTyped ==
  ASSUME TypeOK
  PROVE  /\ \A i \in DOMAIN tasks : tasks[i].fd \in Fds /\ tasks[i].conn \in Conns
         /\ \A w \in Workers : \A t \in job[w] : t.fd \in Fds /\ t.conn \in Conns
<1>1. ASSUME NEW i \in DOMAIN tasks PROVE tasks[i] \in SqlTasks
  <2>1. i \in 1..Len(tasks)
    BY LenProperties DEF TypeOK
  <2> QED BY <2>1, ElementOfSeq DEF TypeOK
<1>2. ASSUME NEW w \in Workers, NEW t \in job[w] PROVE t \in SqlTasks
  BY DEF TypeOK
<1> QED BY <1>1, <1>2 DEF SqlTasks

LEMMA OwnedStep == TypeOK /\ Owned /\ [Next]_vars => Owned'
<1> SUFFICES ASSUME TypeOK, Owned, [Next]_vars PROVE Owned'
  OBVIOUS
<1>1. ASSUME NEW r \in Reactors, Poll(r) PROVE Owned'
  <2>1. armed' = armed \ Ready /\ batch' = [batch EXCEPT ![r] = Ready]
    BY <1>1 DEF Poll
  <2>2. Ready \cap Fds \subseteq armed /\ batch'[r] = Ready /\ armed \subseteq Fds
    BY <2>1, FdsAssumption DEF Ready, TypeOK
  <2>3. \A q \in Reactors \ {r} : batch'[q] = batch[q]
    BY <2>1 DEF TypeOK
  <2>4. UNCHANGED <<owner, tasks, job>>
    BY <1>1 DEF Poll, kernel, pool
  <2>5. HeldIsOpen'
    BY <2>1, <2>2, <2>3, <2>4 DEF Owned, HeldIsOpen
  <2>6. TaskDescriptorIsLive'
    BY <2>4 DEF Owned, TaskDescriptorIsLive
  <2>7. OneHandlerPerConnection'
    <3>1. \A f \in Fds : f \in batch'[r] => f \in armed /\ f \notin armed'
      BY <2>1, <2>2
    <3>2. \A q \in Reactors : batch'[q] \cap armed' = {}
      BY <2>1, <2>2, <2>3, <3>1 DEF Owned, OneHandlerPerConnection
    <3>3. \A q, p \in Reactors : q # p => batch'[q] \cap batch'[p] \cap Fds = {}
      BY <2>2, <2>3 DEF Owned, OneHandlerPerConnection
    <3>4. \A f \in Fds :
            /\ f \in armed' => f \in armed
            /\ \A q \in Reactors : f \in batch'[q] => f \in batch[q] \/ f \in armed
      BY <2>1, <2>2, <2>3
    <3>5. \A i \in DOMAIN tasks :
            /\ tasks[i].fd \notin armed' \cup UNION {batch'[q] : q \in Reactors}
            /\ \A k \in DOMAIN tasks : tasks[i].fd = tasks[k].fd => i = k
      <4>1. ASSUME NEW i \in DOMAIN tasks
            PROVE  tasks[i].fd \notin armed /\ \A q \in Reactors : tasks[i].fd \notin batch[q]
        BY DEF Owned, OneHandlerPerConnection
      <4>2. ASSUME NEW i \in DOMAIN tasks
            PROVE  tasks[i].fd \notin armed' /\ \A q \in Reactors : tasks[i].fd \notin batch'[q]
        BY <3>4, <4>1, TasksAreTyped
      <4> QED BY <4>2 DEF Owned, OneHandlerPerConnection
    <3>6. \A w \in Workers : \A t \in job[w] :
            t.fd \notin armed' \cup UNION {batch'[q] : q \in Reactors}
      <4>1. ASSUME NEW w \in Workers, NEW t \in job[w]
            PROVE  t.fd \notin armed /\ \A q \in Reactors : t.fd \notin batch[q]
        BY DEF Owned, OneHandlerPerConnection
      <4>2. ASSUME NEW w \in Workers, NEW t \in job[w]
            PROVE  t.fd \notin armed' /\ \A q \in Reactors : t.fd \notin batch'[q]
        BY <3>4, <4>1, TasksAreTyped
      <4> QED BY <4>2
    <3>7. \A w \in Workers : \A t \in job[w] :
            /\ \A i \in DOMAIN tasks : tasks[i].fd # t.fd
            /\ \A v \in Workers : \A u \in job[v] : t.fd = u.fd => v = w
      BY DEF Owned, OneHandlerPerConnection
    <3> QED BY <2>4, <3>2, <3>3, <3>5, <3>6, <3>7 DEF OneHandlerPerConnection
  <2> QED BY <2>5, <2>6, <2>7 DEF Owned
<1>2. ASSUME NEW r \in Reactors, Accept(r) PROVE Owned'
  <2>1. PICK fd \in FreeFds : /\ owner' = [owner EXCEPT ![fd] = Head(backlog)]
                              /\ armed' = armed \cup {fd}
    BY <1>2 DEF Accept
  <2>2. Head(backlog) \in Conns
    BY <1>2, HeadTailProperties DEF Accept, TypeOK
  <2>3. fd \in Fds /\ owner[fd] = None /\ owner'[fd] = Head(backlog)
    BY <2>1 DEF FreeFds, TypeOK
  <2>4. \A f \in Fds : owner[f] # None => owner'[f] = owner[f]
    BY <2>1, <2>3 DEF TypeOK
  <2>5. UNCHANGED <<tasks, job>>
    BY <1>2 DEF Accept, pool
  <2>6. \A q \in Reactors : batch'[q] \subseteq batch[q]
    BY <1>2, BatchShrinks DEF Accept
  <2>7. /\ \A i \in DOMAIN tasks : tasks[i].fd \in Fds /\ tasks[i].conn # None
        /\ \A w \in Workers : \A t \in job[w] : t.fd \in Fds /\ t.conn # None
    BY NoneAssumption, TasksAreTyped
  <2>8. HeldIsOpen'
    BY <2>1, <2>2, <2>3, <2>4, <2>6, NoneAssumption DEF Owned, HeldIsOpen, TypeOK
  <2>9. TaskDescriptorIsLive'
    BY <2>4, <2>5, <2>7 DEF Owned, TaskDescriptorIsLive
  <2>10. /\ fd \notin armed
         /\ \A q \in Reactors : fd \notin batch[q]
         /\ \A i \in DOMAIN tasks : tasks[i].fd # fd
         /\ \A w \in Workers : \A t \in job[w] : t.fd # fd
    BY <2>3, <2>7 DEF Owned, HeldIsOpen, TaskDescriptorIsLive
  <2>11. OneHandlerPerConnection'
    BY <2>1, <2>5, <2>6, <2>10 DEF Owned, OneHandlerPerConnection
  <2> QED BY <2>8, <2>9, <2>11 DEF Owned
<1>3. ASSUME NEW r \in Reactors, AcceptThenClose(r) \/ AcceptFails(r) PROVE Owned'
  <2>1. \A q \in Reactors : batch'[q] \subseteq batch[q]
    BY <1>3, BatchShrinks DEF AcceptThenClose, AcceptFails
  <2>2. UNCHANGED <<owner, armed, tasks, job>>
    BY <1>3 DEF AcceptThenClose, AcceptFails, kernel, pool
  <2> QED BY <2>1, <2>2 DEF Owned, HeldIsOpen, OneHandlerPerConnection, TaskDescriptorIsLive
<1>4. ASSUME NEW r \in Reactors, NEW fd \in Fds, ReadThenClose(r, fd) PROVE Owned'
  <2>1. /\ fd \in batch[r]
        /\ owner' = [owner EXCEPT ![fd] = None]
        /\ armed' = armed \ {fd}
        /\ UNCHANGED <<tasks, job>>
    BY <1>4 DEF ReadThenClose, pool
  <2>2. (\A q \in Reactors : batch'[q] \subseteq batch[q]) /\ fd \notin batch'[r]
    BY <1>4, BatchShrinks DEF ReadThenClose
  <2>3. \A q \in Reactors : fd \notin batch'[q]
    BY <2>1, <2>2 DEF Owned, OneHandlerPerConnection
  <2>4. \A f \in Fds \ {fd} : owner'[f] = owner[f]
    BY <2>1 DEF TypeOK
  <2>5. /\ \A i \in DOMAIN tasks : tasks[i].fd \in Fds \ {fd}
        /\ \A w \in Workers : \A t \in job[w] : t.fd \in Fds \ {fd}
    BY <2>1, TasksAreTyped DEF Owned, OneHandlerPerConnection
  <2>6. HeldIsOpen'
    BY <2>1, <2>2, <2>3, <2>4 DEF Owned, HeldIsOpen, TypeOK
  <2>7. TaskDescriptorIsLive'
    BY <2>1, <2>4, <2>5 DEF Owned, TaskDescriptorIsLive
  <2>8. OneHandlerPerConnection'
    BY <2>1, <2>2 DEF Owned, OneHandlerPerConnection
  <2> QED BY <2>6, <2>7, <2>8 DEF Owned
<1>5. ASSUME NEW r \in Reactors, NEW fd \in Fds, ReadThenSubmit(r, fd) PROVE Owned'
  <2>1. fd \in batch[r] /\ UNCHANGED <<owner, armed, job>>
    BY <1>5 DEF ReadThenSubmit, kernel
  <2>2. PICK n, stmt : /\ tasks' = Append(tasks, TaskFor(fd, n, stmt))
                       /\ TaskFor(fd, n, stmt) \in SqlTasks
    <3>1. PICK n \in Reads(owner[fd]) : \E stmt \in FirstStatement(owner[fd], n) :
            tasks' = Append(tasks, TaskFor(fd, n, stmt))
      BY <1>5 DEF ReadThenSubmit
    <3>2. PICK stmt \in FirstStatement(owner[fd], n) : tasks' = Append(tasks, TaskFor(fd, n, stmt))
      BY <3>1
    <3>3. owner[fd] \in Conns
      BY <2>1 DEF Owned, HeldIsOpen, TypeOK
    <3> QED BY <3>2, <3>3, TaskIsTyped
  <2>3. /\ Len(tasks') = Len(tasks) + 1
        /\ \A i \in 1..Len(tasks) : tasks'[i] = tasks[i]
        /\ tasks'[Len(tasks) + 1] = TaskFor(fd, n, stmt)
        /\ DOMAIN tasks = 1..Len(tasks) /\ DOMAIN tasks' = 1..(Len(tasks) + 1)
        /\ Len(tasks) \in Nat
    BY <2>2, AppendProperties, LenProperties DEF TypeOK
  <2>4. TaskFor(fd, n, stmt).fd = fd /\ TaskFor(fd, n, stmt).conn = owner[fd]
    BY DEF TaskFor
  <2>5. (\A p \in Reactors : batch'[p] \subseteq batch[p]) /\ fd \notin batch'[r]
    BY <1>5, BatchShrinks DEF ReadThenSubmit
  <2>6. \A p \in Reactors : fd \notin batch'[p]
    BY <2>1, <2>5 DEF Owned, OneHandlerPerConnection
  <2>7. /\ fd \notin armed
        /\ \A i \in DOMAIN tasks : tasks[i].fd # fd
        /\ \A w \in Workers : \A t \in job[w] : t.fd # fd
    BY <2>1 DEF Owned, OneHandlerPerConnection
  <2>8. HeldIsOpen'
    BY <2>1, <2>5 DEF Owned, HeldIsOpen
  <2>9. TaskDescriptorIsLive'
    BY <2>1, <2>3, <2>4 DEF Owned, TaskDescriptorIsLive
  <2>10. OneHandlerPerConnection'
    BY <2>1, <2>3, <2>4, <2>5, <2>6, <2>7 DEF Owned, OneHandlerPerConnection
  <2> QED BY <2>8, <2>9, <2>10 DEF Owned
<1>6. ASSUME NEW w \in Workers, Begin(w) PROVE Owned'
  <2>1. /\ tasks # <<>> /\ tasks' = Tail(tasks)
        /\ job' = [job EXCEPT ![w] = {Head(tasks)}]
        /\ UNCHANGED <<owner, armed, batch>>
    BY <1>6 DEF Begin, kernel
  <2>2. /\ Head(tasks) = tasks[1] /\ 1 \in DOMAIN tasks
        /\ DOMAIN tasks = 1..Len(tasks) /\ Len(tasks) \in Nat
        /\ DOMAIN tasks' = 1..(Len(tasks) - 1)
        /\ \A i \in DOMAIN tasks' : tasks'[i] = tasks[i + 1] /\ i + 1 \in DOMAIN tasks
    BY <2>1, HeadTailProperties, LenProperties DEF TypeOK
  <2>3. \A v \in Workers : job'[v] = IF v = w THEN {tasks[1]} ELSE job[v]
    BY <2>1, <2>2 DEF TypeOK
  <2>4. HeldIsOpen'
    BY <2>1 DEF Owned, HeldIsOpen
  <2>5. TaskDescriptorIsLive'
    BY <2>1, <2>2, <2>3 DEF Owned, TaskDescriptorIsLive
  <2>6. \A i \in DOMAIN tasks' : tasks'[i].fd # tasks[1].fd
    BY <2>2 DEF Owned, OneHandlerPerConnection
  <2>7. OneHandlerPerConnection'
    BY <2>1, <2>2, <2>3, <2>6 DEF Owned, OneHandlerPerConnection
  <2> QED BY <2>4, <2>5, <2>7 DEF Owned
<1>7. ASSUME NEW w \in Workers, Rearm(w) PROVE Owned'
  <2>1. PICK t \in job[w] : armed' = IF owner[t.fd] = None THEN armed ELSE armed \cup {t.fd}
    BY <1>7 DEF Rearm
  <2>2. job' = [job EXCEPT ![w] = {}] /\ UNCHANGED <<owner, batch, tasks>>
    BY <1>7 DEF Rearm, kernel
  <2>3. job'[w] = {} /\ \A v \in Workers \ {w} : job'[v] = job[v]
    BY <2>2 DEF TypeOK
  <2>4. HeldIsOpen'
    BY <2>1, <2>2 DEF Owned, HeldIsOpen
  <2>5. TaskDescriptorIsLive'
    BY <2>2, <2>3 DEF Owned, TaskDescriptorIsLive
  <2>6. /\ \A q \in Reactors : t.fd \notin batch[q]
        /\ \A i \in DOMAIN tasks : tasks[i].fd # t.fd
        /\ \A v \in Workers \ {w} : \A u \in job[v] : u.fd # t.fd
    BY <2>1 DEF Owned, OneHandlerPerConnection
  <2>7. OneHandlerPerConnection'
    BY <2>1, <2>2, <2>3, <2>6 DEF Owned, OneHandlerPerConnection
  <2> QED BY <2>4, <2>5, <2>7 DEF Owned
<1>8. CASE UNCHANGED <<owner, armed, batch, tasks, job>>
  BY <1>8, OwnedKept
<1>9. ASSUME NEW c \in Conns, ClientStep(c) PROVE UNCHANGED <<owner, armed, batch, tasks, job>>
  BY <1>9 DEF ClientStep, Connect, Send, Disconnect, kernel, pool
<1>10. ASSUME NEW r \in Reactors, LoopTest(r) \/ CallAccept(r)
       PROVE UNCHANGED <<owner, armed, batch, tasks, job>>
  BY <1>10 DEF LoopTest, CallAccept, kernel, pool
<1>11. ASSUME NEW w \in Workers, Execute(w) \/ Reply(w)
       PROVE UNCHANGED <<owner, armed, batch, tasks, job>>
  BY <1>11 DEF Execute, Reply, kernel
<1>12. ASSUME StopReactor \/ StopStep PROVE UNCHANGED <<owner, armed, batch, tasks, job>>
  BY <1>12 DEF StopReactor, StopStep, JoinReactors, StopPool, ClearSessions, kernel, pool
<1>13. ASSUME UNCHANGED vars PROVE UNCHANGED <<owner, armed, batch, tasks, job>>
  BY <1>13 DEF vars
<1> QED
  BY <1>1, <1>2, <1>3, <1>4, <1>5, <1>6, <1>7, <1>8, <1>9, <1>10, <1>11, <1>12, <1>13
  DEF Next, Serve, ReactorStep, WorkerStep

LEMMA OwnedInvariant == Spec => [](TypeOK /\ Owned)
<1>1. Init => TypeOK /\ Owned
  <2>1. Init => OneHandlerPerConnection /\ TaskDescriptorIsLive
    BY EmptySeq DEF Init, OneHandlerPerConnection, TaskDescriptorIsLive
  <2> QED BY <2>1, TypedInit DEF Owned
<1>2. TypeOK /\ Owned /\ [Next]_vars => (TypeOK /\ Owned)'
  BY TypeStep, OwnedStep DEF Owned
<1> QED BY <1>1, <1>2, PTL DEF Spec

\* Every variable of the network front keeps its type.
THEOREM TypeCorrect == Spec => []TypeOK
BY OwnedInvariant, PTL

\* A connection is in the hands of one thread at a time, however many threads there
\* are (EPOLLONESHOT and the re-arming at the end of the task, Reactor.cpp:289-297).
THEOREM OneOwner == Spec => []OneHandlerPerConnection
<1>1. Owned => OneHandlerPerConnection
  BY DEF Owned
<1> QED BY <1>1, OwnedInvariant, PTL

\* The descriptor that a task captured (Reactor.cpp:288) is the one of its connection
\* until the task is over.
THEOREM DescriptorsLive == Spec => []TaskDescriptorIsLive
<1>1. Owned => TaskDescriptorIsLive
  BY DEF Owned
<1> QED BY <1>1, OwnedInvariant, PTL
-----------------------------------------------------------------------------
(* Some reactor thread is free while nobody waits for accept(): the thread *)
(* that emptied the backlog is, until somebody connects again.             *)

LEMMA FreeStep == TypeOK /\ SomeReactorFree /\ [Next]_vars => SomeReactorFree'
<1> SUFFICES ASSUME TypeOK, SomeReactorFree, [Next]_vars, backlog' = <<>>
             PROVE  \E r \in Reactors : reactor'[r] # "accept" /\ Listen \notin batch'[r]
  BY DEF SomeReactorFree
<1>1. ASSUME NEW r \in Reactors, EventDone(r, Listen)
      PROVE  reactor'[r] # "accept" /\ Listen \notin batch'[r]
  BY <1>1 DEF EventDone, TypeOK
<1>2. ASSUME NEW r \in Reactors, Accept(r) \/ AcceptThenClose(r) \/ AcceptFails(r)
      PROVE  reactor'[r] # "accept" /\ Listen \notin batch'[r]
  BY <1>1, <1>2 DEF Accept, AcceptThenClose, AcceptFails
<1>3. ASSUME backlog = <<>>,
             \A r \in Reactors : (reactor[r] # "accept" /\ Listen \notin batch[r]) =>
                                 (reactor'[r] # "accept" /\ Listen \notin batch'[r])
      PROVE  \E r \in Reactors : reactor'[r] # "accept" /\ Listen \notin batch'[r]
  BY <1>3 DEF SomeReactorFree
<1>4. ASSUME NEW r \in Reactors, LoopTest(r) \/ Poll(r) \/ CallAccept(r)
      PROVE  \E q \in Reactors : reactor'[q] # "accept" /\ Listen \notin batch'[q]
  <2>1. backlog = <<>>
    BY <1>4 DEF LoopTest, Poll, CallAccept, kernel
  <2>2. Listen \notin Ready
    BY <2>1, FdsAssumption DEF Ready, TypeOK
  <2> QED BY <1>3, <1>4, <2>1, <2>2 DEF LoopTest, Poll, CallAccept, TypeOK
<1>5. ASSUME NEW r \in Reactors, NEW fd \in Fds, ReadThenClose(r, fd) \/ ReadThenSubmit(r, fd)
      PROVE  \E q \in Reactors : reactor'[q] # "accept" /\ Listen \notin batch'[q]
  <2>1. backlog = <<>> /\ EventDone(r, fd)
    BY <1>5 DEF ReadThenClose, ReadThenSubmit, kernel
  <2> QED BY <1>3, <2>1 DEF EventDone, TypeOK
<1>6. ASSUME NEW c \in Conns, ClientStep(c)
      PROVE  \E q \in Reactors : reactor'[q] # "accept" /\ Listen \notin batch'[q]
  <2>1. CASE Connect(c)
    <3>1. backlog \in Seq(Conns) /\ backlog' = Append(backlog, c)
      BY <2>1 DEF Connect, TypeOK
    <3>2. backlog' # <<>>
      BY <3>1, AppendProperties
    <3> QED BY <3>2
  <2>2. CASE ~Connect(c)
    BY <1>3, <1>6, <2>2 DEF ClientStep, Send, Disconnect, kernel
  <2> QED BY <2>1, <2>2
<1>7. ASSUME UNCHANGED <<backlog, reactor, batch>>
      PROVE  \E q \in Reactors : reactor'[q] # "accept" /\ Listen \notin batch'[q]
  BY <1>3, <1>7
<1>8. ASSUME NEW w \in Workers, WorkerStep(w) PROVE UNCHANGED <<backlog, reactor, batch>>
  BY <1>8 DEF WorkerStep, Begin, Execute, Reply, Rearm, kernel
<1>9. ASSUME StopReactor \/ StopStep PROVE UNCHANGED <<backlog, reactor, batch>>
  BY <1>9 DEF StopReactor, StopStep, JoinReactors, StopPool, ClearSessions, kernel
<1>10. ASSUME UNCHANGED vars PROVE UNCHANGED <<backlog, reactor, batch>>
  BY <1>10 DEF vars
<1> QED
  BY <1>2, <1>4, <1>5, <1>6, <1>7, <1>8, <1>9, <1>10 DEF Next, Serve, ReactorStep

\* The blocking accept() of handleNewConnection() never takes all reactor threads while
\* no connection waits.
THEOREM ReactorStaysFree == Spec => []SomeReactorFree
<1>1. Init => SomeReactorFree
  BY ReactorsAssumption DEF Init, SomeReactorFree
<1> QED BY <1>1, FreeStep, TypeCorrect, PTL DEF Spec
-----------------------------------------------------------------------------
(* stop() clears the sessions when no handler is left: the reactor threads *)
(* have exited and submit no more, then the pool has become idle.          *)

StopOrder ==
  /\ stopper \in {"pool", "clear", "stopped"} => \A r \in Reactors : reactor[r] = "exited"
  /\ stopper \in {"clear", "stopped"} => tasks = <<>> /\ \A w \in Workers : worker[w] = "idle"

LEMMA StopOrderStep == TypeOK /\ StopOrder /\ [Next]_vars => StopOrder'
<1> SUFFICES ASSUME TypeOK, StopOrder, [Next]_vars PROVE StopOrder'
  OBVIOUS
<1>1. ASSUME NEW r \in Reactors, ReactorStep(r) PROVE StopOrder'
  <2>1. reactor[r] # "exited"
    BY <1>1 DEF ReactorStep, LoopTest, Poll, CallAccept, Accept, AcceptThenClose, AcceptFails,
                ReadThenClose, ReadThenSubmit
  <2>2. UNCHANGED stopper
    BY <1>1 DEF ReactorStep, LoopTest, Poll, CallAccept, Accept, AcceptThenClose, AcceptFails,
                ReadThenClose, ReadThenSubmit
  <2> QED BY <2>1, <2>2 DEF StopOrder
<1>2. ASSUME NEW w \in Workers, WorkerStep(w) PROVE StopOrder'
  <2>1. worker[w] # "idle" \/ tasks # <<>>
    BY <1>2 DEF WorkerStep, Begin, Execute, Reply, Rearm
  <2>2. UNCHANGED <<stopper, reactor>>
    BY <1>2 DEF WorkerStep, Begin, Execute, Reply, Rearm
  <2> QED BY <2>1, <2>2 DEF StopOrder
<1>3. ASSUME StopReactor \/ StopStep PROVE StopOrder'
  BY <1>3 DEF StopReactor, StopStep, JoinReactors, StopPool, ClearSessions, pool, StopOrder
<1>4. ASSUME NEW c \in Conns, ClientStep(c) PROVE StopOrder'
  BY <1>4 DEF ClientStep, Connect, Send, Disconnect, pool, StopOrder
<1>5. CASE UNCHANGED vars
  BY <1>5 DEF vars, StopOrder
<1> QED BY <1>1, <1>2, <1>3, <1>4, <1>5 DEF Next, Serve

LEMMA SessionsStep ==
  TypeOK /\ StopOrder /\ SessionsOutliveHandlers /\ [Next]_vars => SessionsOutliveHandlers'
<1> SUFFICES ASSUME TypeOK, StopOrder, SessionsOutliveHandlers, [Next]_vars
             PROVE  SessionsOutliveHandlers'
  OBVIOUS
<1>1. ASSUME NEW w \in Workers, Begin(w) PROVE SessionsOutliveHandlers'
  <2>1. Head(tasks) \in SqlTasks
    BY <1>1, HeadTailProperties DEF Begin, TypeOK
  <2> DEFINE h == Head(tasks)
             current == IF sessions[h.fd] = None THEN NoDb ELSE sessions[h.fd]
  <2>2. /\ sessions' = [sessions EXCEPT ![h.fd] = current]
        /\ job' = [job EXCEPT ![w] = {h}]
        /\ worker' = [worker EXCEPT ![w] = "execute"]
    BY <1>1 DEF Begin
  <2>3. h.fd \in Fds /\ current # None
    BY <2>1, NoneAssumption DEF SqlTasks
  <2>4. \A fd \in Fds : sessions[fd] # None => sessions'[fd] # None
    BY <2>2, <2>3 DEF TypeOK
  <2>5. sessions'[h.fd] # None
    BY <2>2, <2>3 DEF TypeOK
  <2>6. job'[w] = {h} /\ \A v \in Workers \ {w} : job'[v] = job[v] /\ worker'[v] = worker[v]
    BY <2>2 DEF TypeOK
  <2> HIDE DEF h
  <2> QED BY <2>4, <2>5, <2>6, TasksAreTyped DEF SessionsOutliveHandlers
<1>2. ASSUME NEW w \in Workers, Execute(w) PROVE SessionsOutliveHandlers'
  <2>1. \A fd \in Fds : sessions[fd] # None => sessions'[fd] # None
    BY <1>2, NoneAssumption DEF Execute, TypeOK
  <2>2. UNCHANGED job /\ \A v \in Workers : worker'[v] # "idle" => worker[v] # "idle"
    BY <1>2 DEF Execute, TypeOK
  <2> QED BY <2>1, <2>2, TasksAreTyped DEF SessionsOutliveHandlers
<1>3. ASSUME NEW w \in Workers, Reply(w) PROVE SessionsOutliveHandlers'
  <2>1. \A v \in Workers : worker'[v] # "idle" => worker[v] # "idle"
    BY <1>3 DEF Reply, TypeOK
  <2> QED BY <1>3, <2>1 DEF Reply, SessionsOutliveHandlers
<1>4. ASSUME NEW w \in Workers, Rearm(w) PROVE SessionsOutliveHandlers'
  <2>1. \A v \in Workers : worker'[v] # "idle" => worker[v] # "idle" /\ job'[v] = job[v]
    BY <1>4 DEF Rearm, TypeOK
  <2> QED BY <1>4, <2>1 DEF Rearm, SessionsOutliveHandlers
<1>5. CASE ClearSessions
  BY <1>5 DEF ClearSessions, StopOrder, SessionsOutliveHandlers, pool
<1>6. CASE UNCHANGED <<worker, job, sessions>>
  BY <1>6 DEF SessionsOutliveHandlers
<1>7. ASSUME NEW r \in Reactors, ReactorStep(r) PROVE UNCHANGED <<worker, job, sessions>>
  BY <1>7 DEF ReactorStep, LoopTest, Poll, CallAccept, Accept, AcceptThenClose, AcceptFails,
              ReadThenClose, ReadThenSubmit, pool
<1>8. ASSUME NEW c \in Conns, ClientStep(c) PROVE UNCHANGED <<worker, job, sessions>>
  BY <1>8 DEF ClientStep, Connect, Send, Disconnect, pool
<1>9. ASSUME StopReactor \/ JoinReactors \/ StopPool PROVE UNCHANGED <<worker, job, sessions>>
  BY <1>9 DEF StopReactor, JoinReactors, StopPool, pool
<1>10. ASSUME UNCHANGED vars PROVE UNCHANGED <<worker, job, sessions>>
  BY <1>10 DEF vars
<1> QED
  BY <1>1, <1>2, <1>3, <1>4, <1>5, <1>6, <1>7, <1>8, <1>9, <1>10
  DEF Next, Serve, StopStep, WorkerStep

\* The reference into sessions_ that a handler keeps stays good until the handler is
\* over (TcpServer.cpp:164-174 joins the threads before it clears the map).
THEOREM SessionsStay == Spec => []SessionsOutliveHandlers
<1>1. Init => StopOrder /\ SessionsOutliveHandlers
  BY DEF Init, StopOrder, SessionsOutliveHandlers
<1> QED BY <1>1, TypeCorrect, StopOrderStep, SessionsStep, PTL DEF Spec
-----------------------------------------------------------------------------
(***************************************************************************)
(* The order of the replies of a connection and the database its           *)
(* statements run in. Both rest on what is shown above: a connection is in *)
(* the hands of one thread at a time.                                      *)
(***************************************************************************)

(***************************************************************************)
(* A connection gets one descriptor in its life: it is waiting for         *)
(* accept() once, and it is open or closed for ever after.                 *)
(***************************************************************************)
OneDescriptor ==
  /\ \A fd \in Fds : owner[fd] # None => conn[owner[fd]] = "open" /\ owner[fd] \in owners[fd]
  /\ \A fd, g \in Fds : \A c \in owners[fd] : c \in owners[g] => fd = g
  /\ \A fd \in Fds : \A c \in owners[fd] : conn[c] \in {"open", "closed"}
  /\ \A i \in DOMAIN backlog : conn[backlog[i]] = "queued"
  /\ \A i, j \in DOMAIN backlog : backlog[i] = backlog[j] => i = j

\* A connection that has descriptors has one.
LEMMA SameDescriptor ==
  ASSUME OneDescriptor, NEW fd \in Fds, NEW g \in Fds, owner[fd] # None, owner[fd] = owner[g]
  PROVE  fd = g
BY DEF OneDescriptor

\* The head of the backlog is a waiting connection, and the only such one at its place.
LEMMA BacklogHead ==
  ASSUME TypeOK, OneDescriptor, backlog # <<>>
  PROVE  /\ Head(backlog) \in Conns /\ conn[Head(backlog)] = "queued"
         /\ \A i \in DOMAIN Tail(backlog) :
              /\ i + 1 \in DOMAIN backlog /\ Tail(backlog)[i] = backlog[i + 1]
              /\ Tail(backlog)[i] \in Conns
              /\ Tail(backlog)[i] # Head(backlog)
              /\ conn[Tail(backlog)[i]] = "queued"
         /\ \A i, j \in DOMAIN Tail(backlog) : Tail(backlog)[i] = Tail(backlog)[j] => i = j
<1> DEFINE rest == Tail(backlog)
<1>1. /\ backlog \in Seq(Conns) /\ Head(backlog) \in Conns /\ rest \in Seq(Conns)
      /\ Len(rest) = Len(backlog) - 1 /\ \A i \in 1..Len(rest) : rest[i] = backlog[i + 1]
  BY HeadTailProperties DEF TypeOK
<1>2. Len(backlog) \in Nat /\ Len(backlog) # 0
  BY <1>1, EmptySeq
<1>3. Head(backlog) = backlog[1] /\ 1 \in DOMAIN backlog
  BY <1>1, <1>2
<1>4. DOMAIN rest = 1..Len(rest) /\ DOMAIN backlog = 1..Len(backlog)
  BY <1>1
<1> HIDE DEF rest
<1>5. \A i \in DOMAIN rest : /\ i \in Nat /\ i + 1 \in DOMAIN backlog /\ i + 1 # 1
                             /\ rest[i] = backlog[i + 1] /\ rest[i] \in Conns
  BY <1>1, <1>2, <1>4, ElementOfSeq
<1>6. \A i \in DOMAIN rest : rest[i] # Head(backlog) /\ conn[rest[i]] = "queued"
  BY <1>3, <1>5 DEF OneDescriptor
<1>7. \A i, j \in DOMAIN rest : rest[i] = rest[j] => i = j
  <2> SUFFICES ASSUME NEW i \in DOMAIN rest, NEW j \in DOMAIN rest, rest[i] = rest[j]
               PROVE  i = j
    OBVIOUS
  <2>1. i + 1 = j + 1
    BY <1>5 DEF OneDescriptor
  <2> QED BY <1>5, <2>1
<1> QED BY <1>1, <1>3, <1>5, <1>6, <1>7 DEF OneDescriptor, rest

\* Only accept() and close() touch it: accept() takes the head of the backlog out and
\* close() ends a connection for ever.
LEMMA OneDescriptorStep == TypeOK /\ HeldIsOpen /\ OneDescriptor /\ [Next]_vars => OneDescriptor'
<1> SUFFICES ASSUME TypeOK, HeldIsOpen, OneDescriptor, [Next]_vars PROVE OneDescriptor'
  OBVIOUS
<1>1. ASSUME NEW c \in Conns, Connect(c) PROVE OneDescriptor'
  <2>1. /\ conn[c] = "new" /\ conn' = [conn EXCEPT ![c] = "queued"]
        /\ backlog' = Append(backlog, c) /\ UNCHANGED <<owner, owners>>
    BY <1>1 DEF Connect
  <2>2. \A d \in Conns : conn[d] # "new" => conn'[d] = conn[d]
    BY <2>1 DEF TypeOK
  <2>3. /\ backlog \in Seq(Conns) /\ backlog' \in Seq(Conns) /\ Len(backlog') = Len(backlog) + 1
        /\ \A i \in 1..Len(backlog) : backlog'[i] = backlog[i] /\ backlog[i] \in Conns
        /\ backlog'[Len(backlog) + 1] = c
    BY <2>1, AppendProperties, ElementOfSeq DEF TypeOK
  <2>4. /\ DOMAIN backlog = 1..Len(backlog) /\ Len(backlog) \in Nat
        /\ DOMAIN backlog' = 1..(Len(backlog) + 1)
    BY <2>3
  <2>5. \A i \in DOMAIN backlog' :
          (i \in DOMAIN backlog /\ backlog'[i] = backlog[i] /\ backlog[i] \in Conns)
          \/ (i = Len(backlog) + 1 /\ backlog'[i] = c)
    BY <2>3, <2>4
  <2>6. conn'[c] = "queued" /\ \A i \in DOMAIN backlog : backlog[i] # c
    BY <2>1, <2>3, <2>4 DEF OneDescriptor, TypeOK
  <2>7. \A i \in DOMAIN backlog' : conn'[backlog'[i]] = "queued"
    BY <2>2, <2>5, <2>6 DEF OneDescriptor
  <2>8. \A i, j \in DOMAIN backlog' : backlog'[i] = backlog'[j] => i = j
    BY <2>5, <2>6 DEF OneDescriptor
  <2>9. \A fd \in Fds : \A d \in owners[fd] : d \in Conns
    BY DEF TypeOK
  <2> QED BY <2>1, <2>2, <2>7, <2>8, <2>9 DEF OneDescriptor
<1>2. ASSUME NEW r \in Reactors, Accept(r) PROVE OneDescriptor'
  <2>1. PICK fd \in FreeFds : /\ owner' = [owner EXCEPT ![fd] = Head(backlog)]
                              /\ owners' = [owners EXCEPT ![fd] = @ \cup {Head(backlog)}]
    BY <1>2 DEF Accept
  <2>2. /\ backlog # <<>> /\ conn' = [conn EXCEPT ![Head(backlog)] = "open"]
        /\ backlog' = Tail(backlog)
    BY <1>2 DEF Accept
  <2> DEFINE h == Head(backlog)
  <2>3. h \in Conns /\ conn[h] = "queued" /\ h # None /\ fd \in Fds /\ owner[fd] = None
    BY <2>1, <2>2, BacklogHead, NoneAssumption DEF FreeFds
  <2>4. /\ conn'[h] = "open" /\ \A d \in Conns : d # h => conn'[d] = conn[d]
        /\ owner'[fd] = h /\ owners'[fd] = owners[fd] \cup {h}
        /\ \A g \in Fds : g # fd => owner'[g] = owner[g] /\ owners'[g] = owners[g]
    BY <2>1, <2>2, <2>3 DEF TypeOK
  <2> HIDE DEF h
  <2>5. \A g \in Fds : h \notin owners[g] /\ owners[g] \subseteq Conns /\ owner[g] \in Conns \cup {None}
    BY <2>3 DEF OneDescriptor, TypeOK
  <2>6. \A g \in Fds : owner'[g] # None => conn'[owner'[g]] = "open" /\ owner'[g] \in owners'[g]
    BY <2>3, <2>4, <2>5 DEF OneDescriptor
  <2>7. \A f, g \in Fds : \A c \in owners'[f] : c \in owners'[g] => f = g
    BY <2>4, <2>5 DEF OneDescriptor
  <2>8. \A g \in Fds : \A c \in owners'[g] : conn'[c] \in {"open", "closed"}
    BY <2>4, <2>5 DEF OneDescriptor
  <2>9. /\ \A i \in DOMAIN backlog' : conn'[backlog'[i]] = "queued"
        /\ \A i, j \in DOMAIN backlog' : backlog'[i] = backlog'[j] => i = j
    BY <2>2, <2>4, BacklogHead DEF h
  <2> QED BY <2>6, <2>7, <2>8, <2>9 DEF OneDescriptor
<1>3. ASSUME NEW r \in Reactors, AcceptThenClose(r) PROVE OneDescriptor'
  <2>1. /\ backlog # <<>> /\ conn' = [conn EXCEPT ![Head(backlog)] = "closed"]
        /\ backlog' = Tail(backlog) /\ UNCHANGED <<owner, owners>>
    BY <1>3 DEF AcceptThenClose
  <2>2. \A d \in Conns : d # Head(backlog) => conn'[d] = conn[d]
    BY <2>1, BacklogHead DEF TypeOK
  <2>3. \A g \in Fds : /\ Head(backlog) \notin owners[g] /\ owners[g] \subseteq Conns
                       /\ owner[g] # Head(backlog) /\ owner[g] \in Conns \cup {None}
    <3>1. Head(backlog) \in Conns /\ conn[Head(backlog)] = "queued" /\ Head(backlog) # None
      BY <2>1, BacklogHead, NoneAssumption
    <3>2. \A g \in Fds : owners[g] \subseteq Conns /\ owner[g] \in Conns \cup {None}
      BY DEF TypeOK
    <3> QED BY <3>1, <3>2 DEF OneDescriptor
  <2>4. /\ \A i \in DOMAIN backlog' : conn'[backlog'[i]] = "queued"
        /\ \A i, j \in DOMAIN backlog' : backlog'[i] = backlog'[j] => i = j
    BY <2>1, <2>2, BacklogHead
  <2> QED BY <2>1, <2>2, <2>3, <2>4 DEF OneDescriptor
<1>4. ASSUME NEW r \in Reactors, NEW fd \in Fds, ReadThenClose(r, fd)
      PROVE  OneDescriptor'
  <2>1. /\ conn' = [conn EXCEPT ![owner[fd]] = "closed"] /\ owner' = [owner EXCEPT ![fd] = None]
        /\ fd \in batch[r] \cap Fds /\ UNCHANGED <<backlog, owners>>
    BY <1>4 DEF ReadThenClose
  <2>2. owner[fd] \in Conns /\ owner[fd] # None /\ conn[owner[fd]] = "open"
    BY <2>1 DEF HeldIsOpen, TypeOK, OneDescriptor
  <2>3. /\ conn'[owner[fd]] = "closed" /\ \A d \in Conns : d # owner[fd] => conn'[d] = conn[d]
        /\ owner'[fd] = None /\ \A g \in Fds : g # fd => owner'[g] = owner[g]
    BY <2>1, <2>2 DEF TypeOK
  <2>4. \A g \in Fds : g # fd /\ owner[g] # None => owner[g] # owner[fd] /\ owner[g] \in Conns
    BY <2>2, SameDescriptor DEF TypeOK
  <2>5. \A i \in DOMAIN backlog : backlog[i] \in Conns /\ backlog[i] # owner[fd]
    <3>1. \A i \in DOMAIN backlog : backlog[i] \in Conns
      BY ElementOfSeq, LenProperties DEF TypeOK
    <3> QED BY <2>2, <3>1 DEF OneDescriptor
  <2>6. \A g \in Fds : owners[g] \subseteq Conns
    BY DEF TypeOK
  <2> QED BY <2>1, <2>2, <2>3, <2>4, <2>5, <2>6 DEF OneDescriptor
<1>5. CASE UNCHANGED <<conn, backlog, owner, owners>>
  BY <1>5 DEF OneDescriptor
<1>6. ASSUME NEW c \in Conns, Disconnect(c) \/ \E text \in Dbs \cup Others : Send(c, text)
      PROVE  UNCHANGED <<conn, backlog, owner, owners>>
  BY <1>6 DEF Send, Disconnect, kernel
<1>7. ASSUME NEW r \in Reactors,
             \/ LoopTest(r) \/ Poll(r) \/ CallAccept(r) \/ AcceptFails(r)
             \/ \E fd \in Fds : ReadThenSubmit(r, fd)
      PROVE  UNCHANGED <<conn, backlog, owner, owners>>
  BY <1>7 DEF LoopTest, Poll, CallAccept, AcceptFails, ReadThenSubmit, kernel
<1>8. ASSUME NEW w \in Workers, WorkerStep(w) PROVE UNCHANGED <<conn, backlog, owner, owners>>
  BY <1>8 DEF WorkerStep, Begin, Execute, Reply, Rearm, kernel
<1>9. ASSUME StopReactor \/ StopStep \/ UNCHANGED vars
      PROVE  UNCHANGED <<conn, backlog, owner, owners>>
  BY <1>9 DEF StopReactor, StopStep, JoinReactors, StopPool, ClearSessions, kernel, vars
<1> QED
  BY <1>1, <1>2, <1>3, <1>4, <1>5, <1>6, <1>7, <1>8, <1>9
  DEF Next, Serve, ClientStep, ReactorStep
-----------------------------------------------------------------------------
(* The database of a statement. Until another connection has had the       *)
(* descriptor, its session holds what its connection chose; the handler's  *)
(* copy stays right while it executes because nobody else executes for the *)
(* same connection.                                                        *)

SessionDb(fd) == IF sessions[fd] = None THEN NoDb ELSE sessions[fd]

SessionsFollow ==
  /\ \A fd \in Fds : owners[fd] = {} => sessions[fd] = None
  /\ \A c \in Conns : conn[c] \in {"new", "queued"} => chosen[c] = NoDb
  /\ stopper # "stopped" =>
       \A fd \in Fds : \A c \in owners[fd] : owners[fd] = {c} => chosen[c] = SessionDb(fd)

\* The tasks at hand belong to open connections that had their descriptor.
LEMMA TasksHaveOwners ==
  ASSUME TypeOK, Owned, OneDescriptor
  PROVE  /\ \A i \in DOMAIN tasks : /\ tasks[i].fd \in Fds /\ tasks[i].conn \in Conns
                                    /\ owner[tasks[i].fd] = tasks[i].conn
                                    /\ tasks[i].conn \in owners[tasks[i].fd]
         /\ \A w \in Workers : \A t \in job[w] : /\ t.fd \in Fds /\ t.conn \in Conns
                                                 /\ owner[t.fd] = t.conn
                                                 /\ t.conn \in owners[t.fd]
<1>1. \A c \in Conns : c # None
  BY NoneAssumption
<1> QED BY <1>1, TasksAreTyped DEF Owned, TaskDescriptorIsLive, OneDescriptor

\* The task at the head of the queue is one of the queue.
LEMMA HeadIsTask ==
  ASSUME TypeOK, tasks # <<>>
  PROVE  Head(tasks) = tasks[1] /\ 1 \in DOMAIN tasks
<1>1. tasks \in Seq(SqlTasks) /\ Len(tasks) \in Nat /\ Len(tasks) # 0
  BY EmptySeq DEF TypeOK
<1> QED BY <1>1

Database == SessionsFollow /\ FirstOwnerKeepsDatabase

LEMMA DatabaseStep ==
  TypeOK /\ Owned /\ OneDescriptor /\ StopOrder /\ Database /\ [Next]_vars => Database'
<1> SUFFICES ASSUME TypeOK, Owned, OneDescriptor, StopOrder, Database, [Next]_vars
             PROVE  Database'
  OBVIOUS
<1> USE DEF Database
<1>1. ASSUME NEW w \in Workers, Begin(w) PROVE Database'
  <2> DEFINE h == Head(tasks)
  <2>1. /\ tasks # <<>> /\ worker' = [worker EXCEPT ![w] = "execute"]
        /\ sessions' = [sessions EXCEPT ![h.fd] = SessionDb(h.fd)]
        /\ db' = [db EXCEPT ![w] = SessionDb(h.fd)] /\ job' = [job EXCEPT ![w] = {h}]
        /\ UNCHANGED <<conn, owner, owners, chosen, stopper>>
    BY <1>1 DEF Begin, SessionDb, kernel
  <2>2. /\ h.fd \in Fds /\ h.conn \in Conns /\ owner[h.fd] = h.conn
        /\ h.conn \in owners[h.fd]
    BY <2>1, HeadIsTask, TasksHaveOwners
  <2> HIDE DEF h
  <2>3. \A f \in Fds : SessionDb(f)' = SessionDb(f) /\ (f # h.fd => sessions'[f] = sessions[f])
    BY <2>1, <2>2, NoneAssumption DEF SessionDb, TypeOK
  <2>4. SessionsFollow'
    BY <2>1, <2>2, <2>3 DEF SessionsFollow
  <2>5. stopper # "stopped"
    BY <2>1 DEF StopOrder
  <2>6. owners[h.fd] = {h.conn} => SessionDb(h.fd) = chosen[h.conn]
    BY <2>2, <2>5 DEF SessionsFollow
  <2>7. /\ db'[w] = SessionDb(h.fd) /\ job'[w] = {h}
        /\ \A v \in Workers : v # w => UNCHANGED <<worker[v], db[v], job[v]>>
    BY <2>1 DEF TypeOK
  <2>8. FirstOwnerKeepsDatabase'
    BY <2>1, <2>6, <2>7 DEF FirstOwnerKeepsDatabase
  <2> QED BY <2>4, <2>8
<1>2. ASSUME NEW w \in Workers, Execute(w) PROVE Database'
  <2>1. PICK t \in job[w] :
          \/ /\ t.stmt \in Dbs
             /\ sessions' = [sessions EXCEPT ![t.fd] = t.stmt]
             /\ chosen' = [chosen EXCEPT ![t.conn] = t.stmt]
          \/ UNCHANGED <<sessions, chosen>>
    BY <1>2 DEF Execute
  <2>2. /\ worker' = [worker EXCEPT ![w] = "reply"]
        /\ UNCHANGED <<conn, owner, owners, job, db, stopper>>
    BY <1>2 DEF Execute, kernel
  <2>3. worker'[w] = "reply" /\ \A v \in Workers : v # w => worker'[v] = worker[v]
    BY <2>2 DEF TypeOK
  <2>4. t.fd \in Fds /\ t.conn \in Conns /\ owner[t.fd] = t.conn /\ t.conn \in owners[t.fd]
    BY TasksHaveOwners
  <2>5. conn[t.conn] = "open"
    BY <2>4, NoneAssumption DEF OneDescriptor
  <2>6. \A v \in Workers \ {w} : \A u \in job[v] : u.fd # t.fd /\ u.conn # t.conn
    <3>1. \A v \in Workers \ {w} : \A u \in job[v] : u.fd # t.fd
      BY DEF Owned, OneHandlerPerConnection
    <3> QED BY <2>4, <3>1, TasksHaveOwners DEF OneDescriptor
  <2>7. CASE /\ t.stmt \in Dbs
             /\ sessions' = [sessions EXCEPT ![t.fd] = t.stmt]
             /\ chosen' = [chosen EXCEPT ![t.conn] = t.stmt]
    <3>1. /\ sessions'[t.fd] = t.stmt /\ chosen'[t.conn] = t.stmt /\ t.stmt # None
          /\ \A f \in Fds : f # t.fd => sessions'[f] = sessions[f]
          /\ \A c \in Conns : c # t.conn => chosen'[c] = chosen[c]
      BY <2>4, <2>7, NoneAssumption DEF TypeOK
    <3>2. \A f \in Fds : f # t.fd => t.conn \notin owners[f]
      BY <2>4 DEF OneDescriptor
    <3>3. \A f \in Fds : owners[f] \subseteq Conns
      BY DEF TypeOK
    <3>4. ASSUME stopper # "stopped", NEW f \in Fds, NEW c \in owners[f], owners[f] = {c}
          PROVE  chosen'[c] = SessionDb(f)'
      <4>1. CASE f = t.fd
        <5>1. c = t.conn
          BY <2>4, <3>4, <4>1
        <5> QED BY <3>1, <4>1, <5>1 DEF SessionDb
      <4>2. CASE f # t.fd
        <5>1. c # t.conn /\ c \in Conns
          BY <3>2, <3>3, <4>2
        <5>2. chosen[c] = SessionDb(f)
          BY <3>4 DEF SessionsFollow
        <5> QED BY <3>1, <4>2, <5>1, <5>2 DEF SessionDb
      <4> QED BY <4>1, <4>2
    <3>5. /\ \A f \in Fds : owners[f] = {} => sessions'[f] = None
          /\ \A c \in Conns : conn[c] \in {"new", "queued"} => chosen'[c] = NoDb
      BY <2>4, <2>5, <3>1 DEF SessionsFollow
    <3>6. SessionsFollow'
      BY <2>2, <3>4, <3>5 DEF SessionsFollow
    <3>7. FirstOwnerKeepsDatabase'
      BY <2>2, <2>3, <2>6, <3>1, TasksHaveOwners DEF FirstOwnerKeepsDatabase
    <3> QED BY <3>6, <3>7
  <2>8. CASE UNCHANGED <<sessions, chosen>>
    BY <2>2, <2>3, <2>8 DEF SessionsFollow, SessionDb, FirstOwnerKeepsDatabase
  <2> QED BY <2>1, <2>7, <2>8
<1>3. ASSUME NEW r \in Reactors, Accept(r) PROVE Database'
  <2>1. PICK fd \in FreeFds : owners' = [owners EXCEPT ![fd] = @ \cup {Head(backlog)}]
    BY <1>3 DEF Accept
  <2>2. /\ backlog # <<>> /\ conn' = [conn EXCEPT ![Head(backlog)] = "open"]
        /\ UNCHANGED <<worker, job, db, sessions, stopper, chosen>>
    BY <1>3 DEF Accept, pool
  <2> DEFINE h == Head(backlog)
  <2>3. h \in Conns /\ conn[h] = "queued" /\ fd \in Fds /\ owner[fd] = None
    BY <2>1, <2>2, BacklogHead DEF FreeFds
  <2>4. /\ conn'[h] = "open" /\ \A d \in Conns : d # h => conn'[d] = conn[d]
        /\ owners'[fd] = owners[fd] \cup {h}
        /\ \A g \in Fds : g # fd => owners'[g] = owners[g]
    BY <2>1, <2>2, <2>3 DEF TypeOK
  <2> HIDE DEF h
  <2>5. h \notin owners[fd] /\ chosen[h] = NoDb
    BY <2>3 DEF OneDescriptor, SessionsFollow
  <2>6. ASSUME NEW c \in owners'[fd], owners'[fd] = {c} PROVE c = h /\ owners[fd] = {}
    BY <2>4, <2>5, <2>6
  <2>7. /\ \A g \in Fds : owners'[g] = {} => sessions[g] = None
        /\ \A c \in Conns : conn'[c] \in {"new", "queued"} => chosen[c] = NoDb
    BY <2>3, <2>4 DEF SessionsFollow
  <2>8. ASSUME stopper # "stopped", NEW g \in Fds, NEW c \in owners'[g], owners'[g] = {c}
        PROVE  chosen[c] = SessionDb(g)
    <3>1. CASE g = fd
      <4>1. c = h /\ sessions[fd] = None
        BY <2>3, <2>6, <2>8, <3>1 DEF SessionsFollow
      <4> QED BY <2>5, <3>1, <4>1 DEF SessionDb
    <3>2. CASE g # fd
      BY <2>4, <2>8, <3>2 DEF SessionsFollow
    <3> QED BY <3>1, <3>2
  <2>9. SessionsFollow'
    BY <2>2, <2>7, <2>8 DEF SessionsFollow, SessionDb
  <2>10. \A w \in Workers : \A t \in job[w] : t.fd \in Fds /\ t.fd # fd
    BY <2>3, TasksHaveOwners, NoneAssumption
  <2>11. FirstOwnerKeepsDatabase'
    BY <2>2, <2>4, <2>10 DEF FirstOwnerKeepsDatabase
  <2> QED BY <2>9, <2>11
<1>4. ASSUME UNCHANGED <<worker, job, db, sessions, owners, chosen>>,
             stopper' = "stopped" => stopper = "stopped",
             stopper = "stopped" => stopper' = "stopped",
             \A c \in Conns : conn'[c] \in {"new", "queued"} => conn[c] \in {"new", "queued"}
      PROVE  Database'
  BY <1>4 DEF SessionsFollow, SessionDb, FirstOwnerKeepsDatabase
<1>5. ASSUME NEW c \in Conns, ClientStep(c) PROVE Database'
  <2>1. /\ UNCHANGED <<worker, job, db, sessions, owners, chosen, stopper>>
        /\ \A d \in Conns : conn'[d] = conn[d] \/ conn[d] = "new"
    BY <1>5 DEF ClientStep, Connect, Send, Disconnect, pool, kernel, TypeOK
  <2> QED BY <1>4, <2>1
<1>6. ASSUME NEW r \in Reactors, AcceptThenClose(r) \/ \E fd \in Fds : ReadThenClose(r, fd)
      PROVE  Database'
  <2>1. /\ UNCHANGED <<worker, job, db, sessions, owners, chosen, stopper>>
        /\ \A d \in Conns : conn'[d] = conn[d] \/ conn'[d] = "closed"
    BY SMTT(30), <1>6 DEF AcceptThenClose, ReadThenClose, pool, TypeOK
  <2> QED BY <1>4, <2>1
<1>7. ASSUME NEW r \in Reactors,
             \/ LoopTest(r) \/ Poll(r) \/ CallAccept(r) \/ AcceptFails(r)
             \/ \E fd \in Fds : ReadThenSubmit(r, fd)
      PROVE  Database'
  BY <1>4, <1>7 DEF LoopTest, Poll, CallAccept, AcceptFails, ReadThenSubmit, kernel, pool
<1>8. ASSUME NEW w \in Workers, Reply(w) \/ Rearm(w) PROVE Database'
  <2>1. /\ UNCHANGED <<db, sessions, owners, chosen, stopper, conn>>
        /\ \A v \in Workers : worker'[v] = "execute" => worker[v] = "execute" /\ job'[v] = job[v]
    BY <1>8 DEF Reply, Rearm, kernel, TypeOK
  <2> QED BY <2>1 DEF SessionsFollow, SessionDb, FirstOwnerKeepsDatabase
<1>9. ASSUME ClearSessions PROVE Database'
  <2>1. \A fd \in Fds : sessions'[fd] = None
    BY <1>9 DEF ClearSessions
  <2>2. stopper' = "stopped" /\ UNCHANGED <<worker, job, db, owners, chosen, conn>>
    BY <1>9 DEF ClearSessions, pool, kernel
  <2> QED BY <2>1, <2>2 DEF SessionsFollow, FirstOwnerKeepsDatabase
<1>10. ASSUME StopReactor \/ JoinReactors \/ StopPool PROVE Database'
  BY <1>4, <1>10 DEF StopReactor, JoinReactors, StopPool, pool, kernel
<1>11. CASE UNCHANGED vars
  BY <1>4, <1>11 DEF vars
<1> QED
  BY <1>1, <1>2, <1>3, <1>5, <1>6, <1>7, <1>8, <1>9, <1>10, <1>11
  DEF Next, Serve, ReactorStep, WorkerStep, StopStep
-----------------------------------------------------------------------------
(* The order of the replies. What a connection has read goes into one task *)
(* at a time, and nothing more is read before that task has answered.      *)

\* How far the server has read what a connection sent.
ReadUpTo(c) == sent[c] - Len(inbox[c])

\* Nobody works for connection c: it is not accepted, or watched, or about to be.
Idle(c) ==
  \/ conn[c] \in {"new", "queued"}
  \/ \E fd \in Fds : owner[fd] = c /\ (fd \in armed \/ \E r \in Reactors : fd \in batch[r])
  \/ \E w \in Workers : worker[w] = "rearm" /\ \E t \in job[w] : t.conn = c

\* The reply of task t is still to come.
Owed(t) ==
  \/ \E i \in DOMAIN tasks : tasks[i] = t
  \/ \E w \in Workers : worker[w] \in {"execute", "reply"} /\ t \in job[w]

\* All that was read on c is answered, unless its client no longer listens.
Caught(c) == ~eof[c] => Replied(c) = ReadUpTo(c)

\* Task t is for all that was read on its connection c and not answered.
IsNext(t, c) ==
  ~eof[c] => /\ t.span.first = Replied(c) + 1
             /\ t.span.first <= t.span.last
             /\ t.span.last = ReadUpTo(c)

RepliesOn(c) ==
  /\ Replied(c) <= sent[c]
  /\ \A i \in DOMAIN answered[c] :
       /\ answered[c][i].first <= answered[c][i].last
       /\ answered[c][i].first = IF i = 1 THEN 1 ELSE answered[c][i - 1].last + 1

OrderedOn(c) ==
  /\ RepliesOn(c)
  /\ \A i \in DOMAIN inbox[c] : inbox[c][i].no = ReadUpTo(c) + i
  /\ Idle(c) => Caught(c)
  /\ \A t \in SqlTasks : t.conn = c /\ Owed(t) => IsNext(t, c)

OneJob == \A w \in Workers : \A t, u \in job[w] : t = u

Ordered == OneJob /\ \A c \in Conns : OrderedOn(c)

\* What is in the buffers, in the tasks and in the replies are numbers.
LEMMA NumbersAreTyped ==
  ASSUME TypeOK, NEW c \in Conns
  PROVE  /\ sent[c] \in Nat /\ inbox[c] \in Seq(Parts) /\ answered[c] \in Seq(Spans)
         /\ Len(inbox[c]) \in Nat /\ DOMAIN inbox[c] = 1..Len(inbox[c])
         /\ Len(answered[c]) \in Nat /\ DOMAIN answered[c] = 1..Len(answered[c])
         /\ \A i \in DOMAIN answered[c] : answered[c][i].first \in Nat /\ answered[c][i].last \in Nat
         /\ Replied(c) \in Nat /\ ReadUpTo(c) \in Int /\ ReadUpTo(c) <= sent[c]
<1>1. sent[c] \in Nat /\ inbox[c] \in Seq(Parts) /\ answered[c] \in Seq(Spans)
  BY BoundAssumption DEF TypeOK
<1>2. /\ Len(inbox[c]) \in Nat /\ DOMAIN inbox[c] = 1..Len(inbox[c])
      /\ Len(answered[c]) \in Nat /\ DOMAIN answered[c] = 1..Len(answered[c])
  BY <1>1, LenProperties
<1>3. \A i \in DOMAIN answered[c] : answered[c][i].first \in Nat /\ answered[c][i].last \in Nat
  <2>1. \A i \in DOMAIN answered[c] : answered[c][i] \in Spans
    BY <1>1, <1>2, ElementOfSeq
  <2> QED BY <2>1, BoundAssumption DEF Spans
<1>4. Replied(c) \in Nat
  <2>1. CASE answered[c] = <<>>
    BY <2>1 DEF Replied
  <2>2. CASE answered[c] # <<>>
    <3>1. Len(answered[c]) \in DOMAIN answered[c]
      BY <1>1, <1>2, <2>2, EmptySeq
    <3> QED BY <1>3, <2>2, <3>1 DEF Replied
  <2> QED BY <2>1, <2>2
<1>5. ReadUpTo(c) \in Int /\ ReadUpTo(c) <= sent[c]
  BY <1>1, <1>2 DEF ReadUpTo
<1> QED BY <1>1, <1>2, <1>3, <1>4, <1>5

\* A step that sends, reads and answers nothing on c, and gives c to nobody who had it not.
LEMMA OrderKept ==
  ASSUME NEW c \in Conns, OrderedOn(c),
         sent'[c] = sent[c], answered'[c] = answered[c], inbox'[c] = inbox[c], eof[c] => eof'[c],
         Idle(c)' => Idle(c), \A t \in SqlTasks : t.conn = c /\ Owed(t)' => Owed(t)
  PROVE  OrderedOn(c)'
<1>1. Replied(c)' = Replied(c) /\ ReadUpTo(c)' = ReadUpTo(c)
  BY DEF Replied, ReadUpTo
<1>2. RepliesOn(c)'
  BY <1>1 DEF OrderedOn, RepliesOn
<1>3. Caught(c) => Caught(c)'
  BY <1>1 DEF Caught
<1>4. \A t \in SqlTasks : IsNext(t, c) => IsNext(t, c)'
  BY <1>1 DEF IsNext
<1> QED BY <1>1, <1>2, <1>3, <1>4 DEF OrderedOn

\* While an event of a descriptor is being handled, no task works for its connection.
LEMMA NoTaskWhileRead ==
  ASSUME TypeOK, Owned, OneDescriptor, NEW r \in Reactors, NEW fd \in batch[r] \cap Fds
  PROVE  /\ owner[fd] \in Conns /\ conn[owner[fd]] = "open"
         /\ \A i \in DOMAIN tasks : tasks[i].conn # owner[fd]
         /\ \A w \in Workers : \A t \in job[w] : t.conn # owner[fd]
<1>1. owner[fd] # None /\ owner[fd] \in Conns
  BY DEF Owned, HeldIsOpen, TypeOK
<1>2. /\ \A i \in DOMAIN tasks : tasks[i].fd # fd
      /\ \A w \in Workers : \A t \in job[w] : t.fd # fd
  BY DEF Owned, OneHandlerPerConnection
<1> QED BY <1>1, <1>2, TasksHaveOwners, SameDescriptor DEF OneDescriptor

\* While a pool thread has a task, nothing and nobody else works for its connection.
LEMMA NothingElseWhileTask ==
  ASSUME TypeOK, Owned, OneDescriptor, NEW w \in Workers, NEW t \in job[w]
  PROVE  /\ t.conn \in Conns /\ owner[t.fd] = t.conn
         /\ \A i \in DOMAIN tasks : tasks[i].conn # t.conn
         /\ \A v \in Workers \ {w} : \A u \in job[v] : u.conn # t.conn
<1>1. t.conn \in Conns /\ t.fd \in Fds /\ owner[t.fd] = t.conn /\ t.conn # None
  BY TasksHaveOwners, NoneAssumption
<1>2. /\ \A i \in DOMAIN tasks : tasks[i].fd # t.fd
      /\ \A v \in Workers \ {w} : \A u \in job[v] : u.fd # t.fd
  BY DEF Owned, OneHandlerPerConnection
<1> QED BY <1>1, <1>2, TasksHaveOwners, SameDescriptor

LEMMA OneJobStep == TypeOK /\ OneJob /\ [Next]_vars => OneJob'
<1> SUFFICES ASSUME TypeOK, OneJob, [Next]_vars PROVE OneJob'
  OBVIOUS
<1>1. ASSUME NEW w \in Workers, Begin(w) PROVE OneJob'
  <2>1. job'[w] = {Head(tasks)}
    BY <1>1 DEF Begin, TypeOK
  <2>2. \A v \in Workers \ {w} : job'[v] = job[v]
    BY <1>1 DEF Begin, TypeOK
  <2>3. \A t, u \in job'[w] : t = u
    BY ZenonT(30), <2>1
  <2> QED BY <2>2, <2>3 DEF OneJob
<1>2. ASSUME NEW w \in Workers, Rearm(w) PROVE OneJob'
  BY <1>2 DEF Rearm, TypeOK, OneJob
<1>3. CASE UNCHANGED job
  BY <1>3 DEF OneJob
<1>4. ASSUME NEW w \in Workers, Execute(w) \/ Reply(w) PROVE UNCHANGED job
  BY <1>4 DEF Execute, Reply
<1>5. ASSUME NEW r \in Reactors, ReactorStep(r) PROVE UNCHANGED job
  BY <1>5 DEF ReactorStep, LoopTest, Poll, CallAccept, Accept, AcceptThenClose, AcceptFails,
              ReadThenClose, ReadThenSubmit, pool
<1>6. ASSUME NEW c \in Conns, ClientStep(c) PROVE UNCHANGED job
  BY <1>6 DEF ClientStep, Connect, Send, Disconnect, pool
<1>7. ASSUME StopReactor \/ StopStep \/ UNCHANGED vars PROVE UNCHANGED job
  BY <1>7 DEF StopReactor, StopStep, JoinReactors, StopPool, ClearSessions, pool, vars
<1> QED BY <1>1, <1>2, <1>3, <1>4, <1>5, <1>6, <1>7 DEF Next, Serve, WorkerStep

LEMMA OrderedStep ==
  TypeOK /\ Owned /\ OneDescriptor /\ Ordered /\ [Next]_vars => Ordered'
<1> SUFFICES ASSUME TypeOK, Owned, OneDescriptor, Ordered, [Next]_vars, NEW c \in Conns
             PROVE  OrderedOn(c)'
  BY OneJobStep DEF Ordered
<1>0. OrderedOn(c)
  BY DEF Ordered
<1>1. ASSUME NEW d \in Conns, NEW text \in Dbs \cup Others, Send(d, text) PROVE OrderedOn(c)'
  <2>1. /\ UNCHANGED <<eof, answered, conn, owner, armed, batch, tasks, worker, job>>
        /\ sent' = [sent EXCEPT ![d] = @ + 1]
        /\ inbox' = [inbox EXCEPT ![d] = Append(@, [no |-> sent[d] + 1, text |-> text])]
        /\ sent[d] + 1 \in 1..MaxParts
    BY <1>1, BoundAssumption DEF Send, kernel, pool, TypeOK
  <2>2. (Idle(c)' <=> Idle(c)) /\ \A t : Owed(t)' <=> Owed(t)
    BY <2>1 DEF Idle, Owed
  <2>3. CASE c # d
    BY <1>0, <2>1, <2>2, <2>3, OrderKept DEF TypeOK
  <2>4. CASE c = d
    <3> DEFINE part == [no |-> sent[c] + 1, text |-> text]
               len == Len(inbox[c])
    <3>1. part \in Parts /\ part.no = sent[c] + 1
      BY <1>1, <2>1, <2>4 DEF Parts
    <3>2. sent'[c] = sent[c] + 1 /\ inbox'[c] = Append(inbox[c], part)
      BY <2>1, <2>4 DEF TypeOK
    <3> HIDE DEF part
    <3>3. /\ inbox'[c] \in Seq(Parts) /\ Len(inbox'[c]) = len + 1
          /\ \A i \in 1..len : inbox'[c][i] = inbox[c][i]
          /\ inbox'[c][len + 1] = part
      BY <3>1, <3>2, NumbersAreTyped, AppendProperties
    <3>4. DOMAIN inbox'[c] = 1..(len + 1) /\ DOMAIN inbox[c] = 1..len /\ len \in Nat
      BY <3>3, NumbersAreTyped, LenProperties
    <3>5. Replied(c)' = Replied(c) /\ ReadUpTo(c)' = ReadUpTo(c)
      BY <2>1, <3>2, <3>3, <3>4, NumbersAreTyped DEF Replied, ReadUpTo
    <3>6. \A i \in DOMAIN inbox'[c] : inbox'[c][i].no = ReadUpTo(c) + i
      <4>1. part.no = ReadUpTo(c) + (len + 1)
        BY <3>1, <3>4, NumbersAreTyped DEF ReadUpTo
      <4> QED BY <1>0, <3>3, <3>4, <4>1 DEF OrderedOn
    <3>7. RepliesOn(c)'
      BY <1>0, <2>1, <3>2, <3>5, NumbersAreTyped DEF OrderedOn, RepliesOn
    <3>8. (Caught(c)' <=> Caught(c)) /\ \A t \in SqlTasks : IsNext(t, c)' <=> IsNext(t, c)
      BY <2>1, <3>5 DEF Caught, IsNext
    <3> QED BY <1>0, <2>2, <3>5, <3>6, <3>7, <3>8 DEF OrderedOn
  <2> QED BY <2>3, <2>4
<1>2. ASSUME NEW r \in Reactors, NEW fd \in Fds, ReadThenClose(r, fd) PROVE OrderedOn(c)'
  <2>1. /\ fd \in batch[r] \cap Fds /\ UNCHANGED <<eof, sent, answered, tasks, worker, job>>
        /\ conn' = [conn EXCEPT ![owner[fd]] = "closed"]
        /\ inbox' = [inbox EXCEPT ![owner[fd]] = <<>>]
        /\ owner' = [owner EXCEPT ![fd] = None] /\ armed' = armed \ {fd}
        /\ \A q \in Reactors : batch'[q] \subseteq batch[q]
    BY <1>2, BatchShrinks DEF ReadThenClose, pool
  <2>2. /\ owner[fd] \in Conns /\ conn[owner[fd]] = "open"
        /\ \A i \in DOMAIN tasks : tasks[i].conn # owner[fd]
        /\ \A w \in Workers : \A t \in job[w] : t.conn # owner[fd]
    BY <2>1, NoTaskWhileRead
  <2>3. \A g \in Fds : owner'[g] \in Conns => g # fd /\ owner'[g] = owner[g]
    BY <2>1, NoneAssumption DEF TypeOK
  <2>4. CASE c # owner[fd]
    <3>1. inbox'[c] = inbox[c] /\ conn'[c] = conn[c]
      BY <2>1, <2>2, <2>4 DEF TypeOK
    <3>2. Idle(c)' => Idle(c)
      BY <2>1, <2>3, <3>1 DEF Idle
    <3>3. \A t : Owed(t)' => Owed(t)
      BY <2>1 DEF Owed
    <3> QED BY <1>0, <2>1, <3>1, <3>2, <3>3, OrderKept
  <2>5. CASE c = owner[fd]
    <3>1. inbox'[c] = <<>> /\ conn'[c] = "closed"
      BY <2>1, <2>2, <2>5 DEF TypeOK
    <3>2. ~Idle(c)'
      <4>1. \A g \in Fds : owner'[g] # c
        BY <2>2, <2>3, <2>5, NoneAssumption, SameDescriptor
      <4> QED BY <2>1, <2>2, <2>5, <3>1, <4>1 DEF Idle
    <3>3. \A t \in SqlTasks : t.conn = c => ~Owed(t)'
      BY <2>1, <2>2, <2>5 DEF Owed
    <3>4. RepliesOn(c)'
      BY <1>0, <2>1 DEF OrderedOn, RepliesOn, Replied
    <3> QED BY <3>1, <3>2, <3>3, <3>4 DEF OrderedOn
  <2> QED BY <2>4, <2>5
<1>3. ASSUME NEW r \in Reactors, NEW fd \in Fds, ReadThenSubmit(r, fd) PROVE OrderedOn(c)'
  <2>1. /\ fd \in batch[r] \cap Fds
        /\ UNCHANGED <<eof, sent, answered, conn, owner, armed, worker, job>>
        /\ \A q \in Reactors : batch'[q] \subseteq batch[q]
    BY <1>3, BatchShrinks DEF ReadThenSubmit, kernel
  <2>2. /\ owner[fd] \in Conns /\ conn[owner[fd]] = "open"
        /\ \A i \in DOMAIN tasks : tasks[i].conn # owner[fd]
        /\ \A w \in Workers : \A t \in job[w] : t.conn # owner[fd]
    BY <2>1, NoTaskWhileRead
  <2>3. PICK n \in Reads(owner[fd]) :
          /\ \E stmt \in FirstStatement(owner[fd], n) : tasks' = Append(tasks, TaskFor(fd, n, stmt))
          /\ inbox' = [inbox EXCEPT ![owner[fd]] = SubSeq(@, n + 1, Len(@))]
    BY <1>3 DEF ReadThenSubmit
  <2>4. PICK stmt \in FirstStatement(owner[fd], n) : tasks' = Append(tasks, TaskFor(fd, n, stmt))
    BY <2>3
  <2> PICK task : task = TaskFor(fd, n, stmt)
    OBVIOUS
  <2>5. /\ task \in SqlTasks /\ n \in 1..Len(inbox[owner[fd]]) /\ task.conn = owner[fd]
        /\ task.span.first = inbox[owner[fd]][1].no /\ task.span.last = inbox[owner[fd]][n].no
    BY <2>1, <2>2, TaskIsTyped DEF TaskFor
  <2>6. tasks' = Append(tasks, task)
    BY <2>4
  <2>7. \A i \in DOMAIN tasks' : (i \in DOMAIN tasks /\ tasks'[i] = tasks[i]) \/ tasks'[i] = task
    <3>1. /\ tasks \in Seq(SqlTasks) /\ tasks' \in Seq(SqlTasks) /\ Len(tasks') = Len(tasks) + 1
          /\ \A k \in 1..Len(tasks) : tasks'[k] = tasks[k]
          /\ tasks'[Len(tasks) + 1] = task
      BY <2>5, <2>6, AppendProperties DEF TypeOK
    <3>2. /\ DOMAIN tasks' = 1..(Len(tasks) + 1) /\ DOMAIN tasks = 1..Len(tasks)
          /\ Len(tasks) \in Nat
      BY <3>1
    <3> QED BY <3>1, <3>2
  <2>8. \A t : Owed(t)' => Owed(t) \/ t = task
    BY <2>1, <2>7 DEF Owed
  <2>9. Idle(c)' => Idle(c)
    BY <2>1 DEF Idle
  <2>10. CASE c # owner[fd]
    <3>1. inbox'[c] = inbox[c]
      BY <2>2, <2>3, <2>10 DEF TypeOK
    <3> QED BY <1>0, <2>1, <2>5, <2>8, <2>9, <2>10, <3>1, OrderKept
  <2>11. CASE c = owner[fd]
    <3> DEFINE len == Len(inbox[c])
    <3>1. n \in 1..len /\ len \in Nat /\ DOMAIN inbox[c] = 1..len
      BY <2>5, <2>11, NumbersAreTyped
    <3>2. /\ inbox'[c] = SubSeq(inbox[c], n + 1, len) /\ inbox'[c] \in Seq(Parts)
          /\ Len(inbox'[c]) = len - n
          /\ \A i \in 1..(len - n) : inbox'[c][i] = inbox[c][n + i]
      <4>1. inbox'[c] = SubSeq(inbox[c], n + 1, len)
        BY <2>3, <2>11 DEF TypeOK
      <4>2. n \in Reads(c)
        BY <2>11
      <4> HIDE DEF len
      <4>3. /\ SubSeq(inbox[c], n + 1, Len(inbox[c])) \in Seq(Parts)
            /\ Len(SubSeq(inbox[c], n + 1, Len(inbox[c]))) = Len(inbox[c]) - n
            /\ \A i \in 1..(Len(inbox[c]) - n) :
                 SubSeq(inbox[c], n + 1, Len(inbox[c]))[i] = inbox[c][n + i]
        BY <4>2, ReadIsTyped
      <4> QED BY <4>1, <4>3 DEF len
    <3>3. Replied(c)' = Replied(c) /\ ReadUpTo(c)' = ReadUpTo(c) + n
      BY <2>1, <3>1, <3>2, NumbersAreTyped DEF Replied, ReadUpTo
    <3>4. \A i \in DOMAIN inbox[c] : inbox[c][i].no = ReadUpTo(c) + i
      BY <1>0 DEF OrderedOn
    <3>5. \A i \in DOMAIN inbox'[c] : inbox'[c][i].no = ReadUpTo(c)' + i
      <4>1. DOMAIN inbox'[c] = 1..(len - n)
        BY <3>2
      <4>2. \A i \in 1..(len - n) : n + i \in 1..len /\ ReadUpTo(c) + (n + i) = ReadUpTo(c) + n + i
        BY <3>1, NumbersAreTyped
      <4> QED BY <3>1, <3>2, <3>3, <3>4, <4>1, <4>2
    <3>6. Idle(c) /\ ~Idle(c)'
      <4>1. \A q \in Reactors : fd \notin batch'[q]
        <5>1. fd \notin batch'[r] /\ \A q \in Reactors \ {r} : fd \notin batch[q]
          BY <1>3, <2>1, BatchShrinks DEF ReadThenSubmit, Owned, OneHandlerPerConnection
        <5> QED BY <2>1, <5>1
      <4>2. fd \notin armed
        BY <2>1 DEF Owned, OneHandlerPerConnection
      <4>3. \A g \in Fds : owner[g] = c => g = fd
        BY <2>2, <2>11, NoneAssumption, SameDescriptor
      <4> QED BY <2>1, <2>2, <2>11, <4>1, <4>2, <4>3 DEF Idle
    <3>7. Caught(c)
      BY <1>0, <3>6 DEF OrderedOn
    <3>8. IsNext(task, c)'
      <4>1. task.span.first = ReadUpTo(c) + 1 /\ task.span.last = ReadUpTo(c) + n
        BY <2>5, <2>11, <3>1, <3>4
      <4>2. ReadUpTo(c) + 1 <= ReadUpTo(c) + n
        BY <3>1, NumbersAreTyped
      <4> QED BY <2>1, <3>3, <3>7, <4>1, <4>2 DEF IsNext, Caught
    <3>9. \A t \in SqlTasks : t.conn = c => ~Owed(t)
      BY <2>2, <2>11 DEF Owed
    <3>10. RepliesOn(c)'
      BY <1>0, <2>1 DEF OrderedOn, RepliesOn, Replied
    <3> QED BY <2>8, <3>5, <3>6, <3>8, <3>9, <3>10 DEF OrderedOn
  <2> QED BY <2>10, <2>11
<1>4. ASSUME NEW w \in Workers, Reply(w) PROVE OrderedOn(c)'
  <2>1. PICK t \in job[w] :
          IF owner[t.fd] # None /\ ~eof[owner[t.fd]]
            THEN answered' = [answered EXCEPT ![owner[t.fd]] = Append(@, t.span)]
            ELSE UNCHANGED answered
    BY <1>4 DEF Reply
  <2>2. /\ worker[w] = "reply" /\ worker'[w] = "rearm"
        /\ \A v \in Workers \ {w} : worker'[v] = worker[v]
        /\ UNCHANGED <<eof, sent, inbox, conn, owner, armed, batch, tasks, job>>
    BY <1>4 DEF Reply, kernel, TypeOK
  <2>3. /\ t.conn \in Conns /\ owner[t.fd] = t.conn /\ t.conn # None
        /\ \A i \in DOMAIN tasks : tasks[i].conn # t.conn
        /\ \A v \in Workers \ {w} : \A u \in job[v] : u.conn # t.conn
    BY NothingElseWhileTask, NoneAssumption
  <2>4. \A u \in job[w] : u = t
    BY DEF Ordered, OneJob
  <2>5. \A u : Owed(u)' => Owed(u)
    BY <2>2 DEF Owed
  <2>6. CASE c # t.conn
    <3>1. answered'[c] = answered[c]
      BY <2>1, <2>3, <2>6 DEF TypeOK
    <3>2. Idle(c)' => Idle(c)
      BY <2>2, <2>4, <2>6 DEF Idle
    <3> QED BY <1>0, <2>2, <2>5, <3>1, <3>2, OrderKept
  <2>7. CASE c = t.conn
    <3>1. t \in SqlTasks /\ t.span \in Spans
      <4>1. t \in SqlTasks
        BY DEF TypeOK
      <4> QED BY <4>1 DEF SqlTasks
    <3>2. Owed(t) /\ IsNext(t, c)
      BY <1>0, <2>2, <2>7, <3>1 DEF Owed, OrderedOn
    <3>3. \A u \in SqlTasks : u.conn = c => ~Owed(u)'
      BY <2>2, <2>3, <2>7 DEF Owed
    <3>4. \A i \in DOMAIN inbox'[c] : inbox'[c][i].no = ReadUpTo(c)' + i
      BY <1>0, <2>2 DEF OrderedOn, ReadUpTo
    <3>5. CASE eof[c]
      <4>1. answered' = answered
        BY <2>1, <2>3, <2>7, <3>5
      <4>2. RepliesOn(c)' /\ Caught(c)'
        BY <1>0, <2>2, <3>5, <4>1 DEF OrderedOn, RepliesOn, Replied, Caught
      <4> QED BY <3>3, <3>4, <4>2 DEF OrderedOn
    <3>6. CASE ~eof[c]
      <4> DEFINE m == Len(answered[c])
      <4>1. answered'[c] = Append(answered[c], t.span)
        BY <2>1, <2>3, <2>7, <3>6 DEF TypeOK
      <4>2. /\ answered'[c] \in Seq(Spans) /\ Len(answered'[c]) = m + 1
            /\ \A k \in 1..m : answered'[c][k] = answered[c][k]
            /\ answered'[c][m + 1] = t.span
        BY <3>1, <4>1, NumbersAreTyped, AppendProperties
      <4>3. DOMAIN answered'[c] = 1..(m + 1) /\ DOMAIN answered[c] = 1..m /\ m \in Nat
        BY <4>2, NumbersAreTyped, LenProperties
      <4>4. Replied(c)' = t.span.last
        BY <4>2, <4>3, EmptySeq DEF Replied
      <4>5. /\ t.span.first = Replied(c) + 1 /\ t.span.first <= t.span.last
            /\ t.span.last = ReadUpTo(c)
        BY <3>2, <3>6 DEF IsNext
      <4>6. Caught(c)'
        BY <2>2, <4>4, <4>5 DEF Caught, ReadUpTo
      <4>7. t.span.first = IF m + 1 = 1 THEN 1 ELSE answered[c][m].last + 1
        BY <4>3, <4>5, NumbersAreTyped, EmptySeq DEF Replied
      <4>8. RepliesOn(c)'
        <5>1. Replied(c)' <= sent'[c]
          BY <2>2, <4>4, <4>5, NumbersAreTyped
        <5>2. ASSUME NEW i \in DOMAIN answered'[c]
              PROVE  /\ answered'[c][i].first <= answered'[c][i].last
                     /\ answered'[c][i].first = IF i = 1 THEN 1 ELSE answered'[c][i - 1].last + 1
          <6>1. CASE i = m + 1
            <7>1. m # 0 => answered'[c][m] = answered[c][m]
              BY <4>2, <4>3
            <7> QED BY <4>2, <4>3, <4>5, <4>7, <6>1, <7>1
          <6>2. CASE i \in 1..m
            <7>1. i # 1 => answered'[c][i - 1] = answered[c][i - 1]
              BY <4>2, <4>3, <6>2
            <7> QED BY <1>0, <4>2, <4>3, <6>2, <7>1 DEF OrderedOn, RepliesOn
          <6> QED BY <4>3, <6>1, <6>2
        <5> QED BY <5>1, <5>2 DEF RepliesOn
      <4> QED BY <3>3, <3>4, <4>6, <4>8 DEF OrderedOn
    <3> QED BY <3>5, <3>6
  <2> QED BY <2>6, <2>7
<1>5. ASSUME NEW r \in Reactors, Accept(r) PROVE OrderedOn(c)'
  <2>1. PICK fd \in FreeFds : /\ owner' = [owner EXCEPT ![fd] = Head(backlog)]
                              /\ armed' = armed \cup {fd}
    BY <1>5 DEF Accept
  <2>2. /\ backlog # <<>> /\ conn' = [conn EXCEPT ![Head(backlog)] = "open"]
        /\ UNCHANGED <<eof, sent, inbox, answered, tasks, worker, job>>
        /\ \A q \in Reactors : batch'[q] \subseteq batch[q]
    BY <1>5, BatchShrinks DEF Accept, client, pool
  <2>3. Head(backlog) \in Conns /\ conn[Head(backlog)] = "queued" /\ fd \in Fds
    BY <2>2, BacklogHead DEF FreeFds
  <2>4. Idle(c)' => Idle(c)
    <3>1. CASE c = Head(backlog)
      BY <2>3, <3>1 DEF Idle
    <3>2. CASE c # Head(backlog)
      <4>1. conn'[c] = conn[c]
        BY <2>2, <2>3, <3>2 DEF TypeOK
      <4>2. \A g \in Fds : owner'[g] = c => g # fd /\ owner[g] = c
        BY <2>1, <2>3, <3>2 DEF TypeOK
      <4> QED BY <2>1, <2>2, <4>1, <4>2 DEF Idle
    <3> QED BY <3>1, <3>2
  <2>5. \A t : Owed(t)' => Owed(t)
    BY <2>2 DEF Owed
  <2> QED BY <1>0, <2>2, <2>4, <2>5, OrderKept
<1>6. ASSUME NEW r \in Reactors, Poll(r) PROVE OrderedOn(c)'
  <2>1. /\ armed' = armed \ Ready /\ batch' = [batch EXCEPT ![r] = Ready]
        /\ UNCHANGED <<eof, sent, inbox, answered, conn, owner, tasks, worker, job>>
    BY <1>6 DEF Poll, client, kernel, pool
  <2>2. \A g \in Fds : \A q \in Reactors : g \in batch'[q] => g \in batch[q] \/ g \in armed
    BY <2>1, FdsAssumption DEF Ready, TypeOK
  <2>3. Idle(c)' => Idle(c)
    BY <2>1, <2>2 DEF Idle
  <2>4. \A t : Owed(t)' => Owed(t)
    BY <2>1 DEF Owed
  <2> QED BY <1>0, <2>1, <2>3, <2>4, OrderKept
<1>7. ASSUME NEW w \in Workers, Begin(w) PROVE OrderedOn(c)'
  <2>1. /\ worker[w] = "idle" /\ tasks # <<>> /\ tasks' = Tail(tasks)
        /\ job'[w] = {Head(tasks)} /\ worker'[w] = "execute"
        /\ \A v \in Workers \ {w} : job'[v] = job[v] /\ worker'[v] = worker[v]
        /\ UNCHANGED <<eof, sent, inbox, answered, conn, owner, armed, batch>>
    BY <1>7 DEF Begin, client, kernel, TypeOK
  <2>2. \A i \in DOMAIN tasks' : i + 1 \in DOMAIN tasks /\ tasks'[i] = tasks[i + 1]
    <3>1. /\ tasks \in Seq(SqlTasks) /\ tasks' \in Seq(SqlTasks)
          /\ Len(tasks') = Len(tasks) - 1 /\ \A i \in 1..Len(tasks') : tasks'[i] = tasks[i + 1]
      BY <2>1, HeadTailProperties DEF TypeOK
    <3>2. DOMAIN tasks = 1..Len(tasks) /\ DOMAIN tasks' = 1..Len(tasks') /\ Len(tasks) \in Nat
      BY <3>1
    <3> QED BY <3>1, <3>2
  <2>3. Head(tasks) = tasks[1] /\ 1 \in DOMAIN tasks
    BY <2>1, HeadIsTask
  <2>4. \A t : Owed(t)' => Owed(t)
    BY <2>1, <2>2, <2>3 DEF Owed
  <2>5. Idle(c)' => Idle(c)
    BY <2>1 DEF Idle
  <2> QED BY <1>0, <2>1, <2>4, <2>5, OrderKept
<1>8. ASSUME NEW w \in Workers, Rearm(w) PROVE OrderedOn(c)'
  <2>1. PICK t \in job[w] : armed' = IF owner[t.fd] = None THEN armed ELSE armed \cup {t.fd}
    BY <1>8 DEF Rearm
  <2>2. /\ worker[w] = "rearm" /\ job'[w] = {} /\ worker'[w] = "idle"
        /\ \A v \in Workers \ {w} : job'[v] = job[v] /\ worker'[v] = worker[v]
        /\ UNCHANGED <<eof, sent, inbox, answered, conn, owner, batch, tasks>>
    BY <1>8 DEF Rearm, client, kernel, TypeOK
  <2>3. owner[t.fd] = t.conn
    BY TasksHaveOwners
  <2>4. Idle(c)' => Idle(c)
    BY <2>1, <2>2, <2>3 DEF Idle
  <2>5. \A u : Owed(u)' => Owed(u)
    BY <2>2 DEF Owed
  <2> QED BY <1>0, <2>2, <2>4, <2>5, OrderKept
<1>9. ASSUME NEW w \in Workers, Execute(w) PROVE OrderedOn(c)'
  <2>1. /\ worker[w] = "execute" /\ worker'[w] = "reply"
        /\ \A v \in Workers \ {w} : worker'[v] = worker[v]
        /\ UNCHANGED <<eof, sent, inbox, answered, conn, owner, armed, batch, tasks, job>>
    BY <1>9 DEF Execute, client, kernel, TypeOK
  <2> QED BY <1>0, <2>1, OrderKept DEF Idle, Owed
<1>10. ASSUME NEW d \in Conns, Connect(d) \/ Disconnect(d) PROVE OrderedOn(c)'
  <2>1. /\ UNCHANGED <<sent, inbox, answered, owner, armed, batch, tasks, worker, job>>
        /\ eof[c] => eof'[c]
        /\ conn'[c] \in {"new", "queued"} => conn[c] \in {"new", "queued"}
    BY <1>10 DEF Connect, Disconnect, client, kernel, pool, TypeOK
  <2> QED BY <1>0, <2>1, OrderKept DEF Idle, Owed
<1>11. ASSUME NEW r \in Reactors,
              LoopTest(r) \/ CallAccept(r) \/ AcceptThenClose(r) \/ AcceptFails(r)
       PROVE  OrderedOn(c)'
  <2>1. /\ UNCHANGED <<eof, sent, inbox, answered, owner, armed, tasks, worker, job>>
        /\ \A q \in Reactors : batch'[q] \subseteq batch[q]
    BY <1>11, BatchShrinks
    DEF LoopTest, CallAccept, AcceptThenClose, AcceptFails, client, kernel, pool
  <2>2. conn'[c] \in {"new", "queued"} => conn[c] \in {"new", "queued"}
    BY <1>11 DEF LoopTest, CallAccept, AcceptThenClose, AcceptFails, kernel, TypeOK
  <2> QED BY <1>0, <2>1, <2>2, OrderKept DEF Idle, Owed
<1>12. ASSUME StopReactor \/ StopStep \/ UNCHANGED vars PROVE OrderedOn(c)'
  <2>1. UNCHANGED <<eof, sent, inbox, answered, conn, owner, armed, batch, tasks, worker, job>>
    BY <1>12
    DEF StopReactor, StopStep, JoinReactors, StopPool, ClearSessions, client, kernel, pool, vars
  <2> QED BY <1>0, <2>1, OrderKept DEF Idle, Owed
<1> QED
  BY <1>1, <1>2, <1>3, <1>4, <1>5, <1>6, <1>7, <1>8, <1>9, <1>10, <1>11, <1>12
  DEF Next, Serve, ClientStep, ReactorStep, WorkerStep
-----------------------------------------------------------------------------
(* The theorems                                                            *)

LEMMA ConnectionInit == Init => OneDescriptor /\ StopOrder /\ Database /\ Ordered
<1> SUFFICES ASSUME Init PROVE OneDescriptor /\ StopOrder /\ Database /\ Ordered
  OBVIOUS
<1>1. OneDescriptor /\ StopOrder
  BY DEF Init, OneDescriptor, StopOrder
<1>2. Database
  BY DEF Init, Database, SessionsFollow, FirstOwnerKeepsDatabase
<1>3. ASSUME NEW c \in Conns
      PROVE  /\ inbox[c] = <<>> /\ answered[c] = <<>> /\ sent[c] = 0
             /\ Replied(c) = 0 /\ ReadUpTo(c) = 0
  BY DEF Init, Replied, ReadUpTo
<1>4. Ordered
  BY <1>3 DEF Init, Ordered, OneJob, OrderedOn, RepliesOn, Caught, Owed
<1> QED BY <1>1, <1>2, <1>4

\* A connection has one descriptor, and the order of a stop is kept.
LEMMA ConnectionInvariant == Spec => [](TypeOK /\ Owned /\ OneDescriptor /\ StopOrder)
<1>1. Owned => HeldIsOpen
  BY DEF Owned
<1> QED
  BY <1>1, OwnedInvariant, ConnectionInit, OneDescriptorStep, StopOrderStep, PTL DEF Spec

\* A statement runs in the database its own connection chose last, as long as the
\* descriptor has served that connection only (TcpServer.cpp:178-190).
THEOREM DatabaseKept == Spec => []FirstOwnerKeepsDatabase
<1>1. Database => FirstOwnerKeepsDatabase
  BY DEF Database
<1> QED BY <1>1, ConnectionInvariant, ConnectionInit, DatabaseStep, PTL DEF Spec

\* The replies of a connection are for what it sent, in order and without a gap, whatever
\* threads carried them and wherever a read() cut the stream.
THEOREM RepliesOrdered == Spec => []RepliesInOrder
<1>1. Ordered => RepliesInOrder
  BY DEF Ordered, OrderedOn, RepliesOn, RepliesInOrder
<1> QED BY <1>1, ConnectionInvariant, ConnectionInit, OrderedStep, PTL DEF Spec
=============================================================================
