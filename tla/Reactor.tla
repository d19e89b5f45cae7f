------------------------------- MODULE Reactor -------------------------------
(***************************************************************************)
(* The network front of the server (server/network/Reactor.cpp) with the   *)
(* SQL handler and the sessions of TcpServer.cpp.                          *)
(*                                                                         *)
(* Reactor threads share one epoll instance. The listening socket is       *)
(* blocking and level-triggered; a client socket is registered with        *)
(* EPOLLONESHOT, read by the reactor thread that got its event, handed to  *)
(* the thread pool as one SQL task, and re-armed by that task at its end.  *)
(* TcpServer keeps one Session per file descriptor.                        *)
(*                                                                         *)
(* Kernel and clients are modelled from what the code relies on: a         *)
(* connection is queued until accept() takes it, gets the lowest free file *)
(* descriptor, and its bytes are a stream without marks between requests.  *)
(* The stream is a sequence of parts, of which one read() takes as many as *)
(* have arrived and fit in its 4095 bytes. A part is a database name (USE),*)
(* Query (any other statement), Rest (more of a statement that has been    *)
(* cut) or Blank (white space). The pool is the FIFO queue of TaskQueue.   *)
(***************************************************************************)
EXTENDS Naturals, Sequences, FiniteSets

CONSTANTS Conns,       \* client connections, each one opened at most once
          Fds,         \* the file descriptors left for connections
          Reactors,    \* the threads in eventLoop(): two in the code
          Workers,     \* the threads of the pool: four in the code
          Dbs,         \* the databases a client may USE
          Query, Rest, Blank,
          Others,      \* which of these three clients send besides databases
          NoDb,        \* the database of a new Session
          None,        \* no connection, or no session
          Listen,      \* the event of the listening socket
          MaxParts,    \* bound on the parts that one connection sends
          Window,      \* how many parts a client sends before it wants a reply
          AddMayFail   \* whether epoll_ctl(ADD) may fail

ASSUME ReactorsAssumption == Reactors # {}
ASSUME FdsAssumption == Fds \subseteq Nat /\ Listen \notin Fds
ASSUME NoneAssumption == None \notin Conns \cup Dbs \cup {NoDb}
ASSUME TextAssumption == /\ Query # Rest /\ Query # Blank /\ Rest # Blank
                         /\ {Query, Rest, Blank} \cap Dbs = {} /\ NoDb \notin Dbs
                         /\ Others \subseteq {Query, Rest, Blank}
ASSUME BoundAssumption == MaxParts \in Nat /\ Window \in Nat

VARIABLES conn,     \* where each connection is: new, queued, open or closed
          eof,      \* the client closed its end
          inbox,    \* the parts sent on a connection and not read yet
          sent,     \* how many parts a client sent
          answered, \* the parts that each reply a client got was for: first and last
          backlog,  \* the connections waiting for accept()
          owner,    \* the connection behind an open file descriptor
          armed,    \* the descriptors whose one-shot registration is enabled
          running,  \* running_
          reactor,  \* where each reactor thread is in eventLoop()
          batch,    \* the events of the last epoll_wait not handled yet
          tasks,    \* the SQL tasks queued in the pool
          worker,   \* where each pool thread is in its task
          job,      \* the task of a pool thread: {} or {task}
          db,       \* currentDb in the handler
          sessions, \* sessions_: a database, or None when the map has no entry
          stopper,  \* where TcpServer::stop() is
          owners,   \* history: the connections that have had a descriptor
          chosen    \* history: the database a connection last switched to

client == <<eof, inbox, sent, answered>>
kernel == <<conn, backlog, owner>>
pool == <<tasks, worker, job, db>>
vars == <<conn, eof, inbox, sent, answered, backlog, owner, armed, running, reactor,
          batch, tasks, worker, job, db, sessions, stopper, owners, chosen>>

Statements == Dbs \cup {Query}
Parts == [no : 1..MaxParts, text : Dbs \cup Others]
Spans == [first : 1..MaxParts, last : 1..MaxParts]
SqlTasks == [fd : Fds, conn : Conns, span : Spans, stmt : Statements]
Events == Fds \cup {Listen}

TypeOK ==
  /\ conn \in [Conns -> {"new", "queued", "open", "closed"}]
  /\ eof \in [Conns -> BOOLEAN]
  /\ inbox \in [Conns -> Seq(Parts)]
  /\ sent \in [Conns -> 0..MaxParts]
  /\ answered \in [Conns -> Seq(Spans)]
  /\ backlog \in Seq(Conns)
  /\ owner \in [Fds -> Conns \cup {None}]
  /\ armed \subseteq Fds
  /\ running \in BOOLEAN
  /\ reactor \in [Reactors -> {"top", "poll", "dispatch", "accept", "exited"}]
  /\ batch \in [Reactors -> SUBSET Events]
  /\ tasks \in Seq(SqlTasks)
  /\ worker \in [Workers -> {"idle", "execute", "reply", "rearm"}]
  /\ job \in [Workers -> SUBSET SqlTasks]
  /\ db \in [Workers -> Dbs \cup {NoDb}]
  /\ sessions \in [Fds -> Dbs \cup {NoDb, None}]
  /\ stopper \in {"idle", "reactors", "pool", "clear", "stopped"}
  /\ owners \in [Fds -> SUBSET Conns]
  /\ chosen \in [Conns -> Dbs \cup {NoDb}]

Init ==
  /\ conn = [c \in Conns |-> "new"]
  /\ eof = [c \in Conns |-> FALSE]
  /\ inbox = [c \in Conns |-> <<>>]
  /\ sent = [c \in Conns |-> 0]
  /\ answered = [c \in Conns |-> <<>>]
  /\ backlog = <<>>
  /\ owner = [fd \in Fds |-> None]
  /\ armed = {}
  /\ running = TRUE
  /\ reactor = [r \in Reactors |-> "top"]
  /\ batch = [r \in Reactors |-> {}]
  /\ tasks = <<>>
  /\ worker = [w \in Workers |-> "idle"]
  /\ job = [w \in Workers |-> {}]
  /\ db = [w \in Workers |-> NoDb]
  /\ sessions = [fd \in Fds |-> None]
  /\ stopper = "idle"
  /\ owners = [fd \in Fds |-> {}]
  /\ chosen = [c \in Conns |-> NoDb]
-----------------------------------------------------------------------------
(* The clients                                                             *)

Connect(c) ==
  /\ conn[c] = "new"
  /\ conn' = [conn EXCEPT ![c] = "queued"]
  /\ backlog' = Append(backlog, c)
  /\ UNCHANGED <<client, owner, armed, running, reactor, batch, pool, sessions, stopper,
                 owners, chosen>>

\* connect() succeeds before accept() does, so a queued client may already send.
Send(c, text) ==
  /\ conn[c] \in {"queued", "open"}
  /\ ~eof[c]
  /\ sent[c] < MaxParts
  /\ sent[c] < Len(answered[c]) + Window
  /\ sent' = [sent EXCEPT ![c] = @ + 1]
  /\ inbox' = [inbox EXCEPT ![c] = Append(@, [no |-> sent[c] + 1, text |-> text])]
  /\ UNCHANGED <<eof, answered, kernel, armed, running, reactor, batch, pool, sessions,
                 stopper, owners, chosen>>

Disconnect(c) ==
  /\ conn[c] \in {"queued", "open"}
  /\ ~eof[c]
  /\ eof' = [eof EXCEPT ![c] = TRUE]
  /\ UNCHANGED <<inbox, sent, answered, kernel, armed, running, reactor, batch, pool,
                 sessions, stopper, owners, chosen>>
-----------------------------------------------------------------------------
(* The reactor threads                                                     *)

Readable(fd) ==
  owner[fd] # None /\ (inbox[owner[fd]] # <<>> \/ eof[owner[fd]])

Ready ==
  {fd \in armed : Readable(fd)} \cup (IF backlog # <<>> THEN {Listen} ELSE {})

\* Thread r has handled event e: on to the next event of the batch, or to the loop test.
EventDone(r, e) ==
  /\ batch' = [batch EXCEPT ![r] = @ \ {e}]
  /\ reactor' = [reactor EXCEPT ![r] = IF batch[r] \ {e} = {} THEN "top" ELSE "dispatch"]

\* while (running_.load())
LoopTest(r) ==
  /\ reactor[r] = "top"
  /\ reactor' = [reactor EXCEPT ![r] = IF running THEN "poll" ELSE "exited"]
  /\ UNCHANGED <<client, kernel, armed, running, batch, pool, sessions, stopper, owners, chosen>>

\* Mutant: client sockets registered without EPOLLONESHOT.
PollKeepsArmed(r) ==
  /\ reactor[r] = "poll"
  /\ batch' = [batch EXCEPT ![r] = Ready]
  /\ reactor' = [reactor EXCEPT ![r] = IF Ready = {} THEN "top" ELSE "dispatch"]
  /\ UNCHANGED <<client, kernel, armed, running, pool, sessions, stopper, owners, chosen>>

\* epoll_wait: the ready events, each client registration disabled as it is
\* reported (EPOLLONESHOT); after 1000 ms with nothing ready, no events.
Poll(r) ==
  /\ reactor[r] = "poll"
  /\ batch' = [batch EXCEPT ![r] = Ready]
  /\ armed' = armed \ Ready
  /\ reactor' = [reactor EXCEPT ![r] = IF Ready = {} THEN "top" ELSE "dispatch"]
  /\ UNCHANGED <<client, kernel, running, pool, sessions, stopper, owners, chosen>>

\* handleNewConnection() is entered: accept() on a blocking socket.
CallAccept(r) ==
  /\ reactor[r] = "dispatch"
  /\ Listen \in batch[r]
  /\ reactor' = [reactor EXCEPT ![r] = "accept"]
  /\ UNCHANGED <<client, kernel, armed, running, batch, pool, sessions, stopper, owners, chosen>>

FreeFds == {fd \in Fds : owner[fd] = None}

\* Mutant: accept in a loop, until accept() would find nobody.
AcceptAgain(r) ==
  /\ reactor[r] = "accept"
  /\ backlog # <<>>
  /\ \E fd \in FreeFds :
       /\ \A g \in FreeFds : fd <= g
       /\ owner' = [owner EXCEPT ![fd] = Head(backlog)]
       /\ owners' = [owners EXCEPT ![fd] = @ \cup {Head(backlog)}]
       /\ armed' = armed \cup {fd}
  /\ conn' = [conn EXCEPT ![Head(backlog)] = "open"]
  /\ backlog' = Tail(backlog)
  /\ UNCHANGED <<client, running, reactor, batch, pool, sessions, stopper, chosen>>

\* accept() returns a connection, which is made non-blocking and registered one-shot.
Accept(r) ==
  /\ reactor[r] = "accept"
  /\ backlog # <<>>
  /\ \E fd \in FreeFds :
       /\ \A g \in FreeFds : fd <= g
       /\ owner' = [owner EXCEPT ![fd] = Head(backlog)]
       /\ owners' = [owners EXCEPT ![fd] = @ \cup {Head(backlog)}]
       /\ armed' = armed \cup {fd}
  /\ conn' = [conn EXCEPT ![Head(backlog)] = "open"]
  /\ backlog' = Tail(backlog)
  /\ EventDone(r, Listen)
  /\ UNCHANGED <<client, running, pool, sessions, stopper, chosen>>

\* epoll_ctl(ADD) fails: the accepted connection is closed.
AcceptThenClose(r) ==
  /\ AddMayFail
  /\ reactor[r] = "accept"
  /\ backlog # <<>>
  /\ FreeFds # {}
  /\ conn' = [conn EXCEPT ![Head(backlog)] = "closed"]
  /\ backlog' = Tail(backlog)
  /\ EventDone(r, Listen)
  /\ UNCHANGED <<client, owner, armed, running, pool, sessions, stopper, owners, chosen>>

\* accept() has no descriptor left and fails: the event is dropped.
AcceptFails(r) ==
  /\ reactor[r] = "accept"
  /\ FreeFds = {}
  /\ EventDone(r, Listen)
  /\ UNCHANGED <<client, kernel, armed, running, pool, sessions, stopper, owners, chosen>>

\* How many parts one read() may return: what has arrived, up to 4095 bytes, and none
\* only from a buffer where nothing is left.
Reads(c) == {n \in 0..Len(inbox[c]) : n = 0 => inbox[c] = <<>>}

\* The parts among the first n that are not white space.
Texts(c, n) == {i \in 1..n : inbox[c][i].text # Blank}

\* The parser stops after the first statement of what was read. When that was cut off, or
\* goes on in a second part, it may have become any statement.
FirstStatement(c, n) ==
  {s \in Statements :
     \E i \in Texts(c, n) :
       /\ \A k \in Texts(c, n) : i <= k
       /\ \/ s = inbox[c][i].text
          \/ \E k \in Texts(c, n) :
               inbox[c][k].text = Rest /\ \A m \in Texts(c, n) : m < k => m = i}

\* The SQL task for the first n parts in the buffer of descriptor fd.
TaskFor(fd, n, stmt) ==
  [fd |-> fd, conn |-> owner[fd], stmt |-> stmt,
   span |-> [first |-> inbox[owner[fd]][1].no, last |-> inbox[owner[fd]][n].no]]

\* read() returned no byte, or only white space: removeFromEpoll, close.
ReadThenClose(r, fd) ==
  /\ reactor[r] = "dispatch"
  /\ fd \in batch[r] \cap Fds
  /\ \E n \in Reads(owner[fd]) : Texts(owner[fd], n) = {}
  /\ conn' = [conn EXCEPT ![owner[fd]] = "closed"]
  /\ inbox' = [inbox EXCEPT ![owner[fd]] = <<>>]
  /\ owner' = [owner EXCEPT ![fd] = None]
  /\ armed' = armed \ {fd}
  /\ EventDone(r, fd)
  /\ UNCHANGED <<eof, sent, answered, backlog, running, pool, sessions, stopper, owners, chosen>>

\* Mutant: the socket is re-armed when its task is submitted.
ReadSubmitRearm(r, fd) ==
  /\ reactor[r] = "dispatch"
  /\ fd \in batch[r] \cap Fds
  /\ \E n \in Reads(owner[fd]) : \E stmt \in FirstStatement(owner[fd], n) :
       /\ tasks' = Append(tasks, TaskFor(fd, n, stmt))
       /\ inbox' = [inbox EXCEPT ![owner[fd]] = SubSeq(@, n + 1, Len(@))]
  /\ armed' = armed \cup {fd}
  /\ EventDone(r, fd)
  /\ UNCHANGED <<eof, sent, answered, kernel, running, worker, job, db, sessions,
                 stopper, owners, chosen>>

\* One read(), and one SQL task for what it returned, whole or not.
ReadThenSubmit(r, fd) ==
  /\ reactor[r] = "dispatch"
  /\ fd \in batch[r] \cap Fds
  /\ \E n \in Reads(owner[fd]) : \E stmt \in FirstStatement(owner[fd], n) :
       /\ tasks' = Append(tasks, TaskFor(fd, n, stmt))
       /\ inbox' = [inbox EXCEPT ![owner[fd]] = SubSeq(@, n + 1, Len(@))]
  /\ EventDone(r, fd)
  /\ UNCHANGED <<eof, sent, answered, kernel, armed, running, worker, job, db, sessions,
                 stopper, owners, chosen>>
-----------------------------------------------------------------------------
(* The pool threads: the task of handleRead() and the handler of TcpServer *)

\* Mutant: the session is looked up and not created.
BeginWithoutSession(w) ==
  /\ worker[w] = "idle"
  /\ tasks # <<>>
  /\ db' = [db EXCEPT ![w] = sessions[Head(tasks).fd]]
  /\ job' = [job EXCEPT ![w] = {Head(tasks)}]
  /\ tasks' = Tail(tasks)
  /\ worker' = [worker EXCEPT ![w] = "execute"]
  /\ UNCHANGED <<client, kernel, armed, running, reactor, batch, sessions, stopper, owners, chosen>>

\* getOrCreateSession(fd), and the copy of its database name.
Begin(w) ==
  /\ worker[w] = "idle"
  /\ tasks # <<>>
  /\ LET fd == Head(tasks).fd
         current == IF sessions[fd] = None THEN NoDb ELSE sessions[fd]
     IN  /\ sessions' = [sessions EXCEPT ![fd] = current]
         /\ db' = [db EXCEPT ![w] = current]
  /\ job' = [job EXCEPT ![w] = {Head(tasks)}]
  /\ tasks' = Tail(tasks)
  /\ worker' = [worker EXCEPT ![w] = "execute"]
  /\ UNCHANGED <<client, kernel, armed, running, reactor, batch, stopper, owners, chosen>>

\* Mutant: the session switches whether or not the USE succeeded.
ExecuteSwitches(w) ==
  /\ worker[w] = "execute"
  /\ \E t \in job[w] :
       /\ sessions' = IF t.stmt \in Dbs THEN [sessions EXCEPT ![t.fd] = t.stmt] ELSE sessions
       /\ \/ t.stmt \in Dbs /\ chosen' = [chosen EXCEPT ![t.conn] = t.stmt]
          \/ UNCHANGED chosen
  /\ worker' = [worker EXCEPT ![w] = "reply"]
  /\ UNCHANGED <<client, kernel, armed, running, reactor, batch, tasks, job, db, stopper, owners>>

\* Parse and execute; a USE that succeeds sets the database of the session. Any
\* failure (a parse error, a missing database, an exception) becomes a reply.
Execute(w) ==
  /\ worker[w] = "execute"
  /\ \E t \in job[w] :
       \/ /\ t.stmt \in Dbs
          /\ sessions' = [sessions EXCEPT ![t.fd] = t.stmt]
          /\ chosen' = [chosen EXCEPT ![t.conn] = t.stmt]
       \/ UNCHANGED <<sessions, chosen>>
  /\ worker' = [worker EXCEPT ![w] = "reply"]
  /\ UNCHANGED <<client, kernel, armed, running, reactor, batch, tasks, job, db, stopper, owners>>

\* send(fd): to whatever connection is behind the descriptor, if its client listens.
Reply(w) ==
  /\ worker[w] = "reply"
  /\ \E t \in job[w] :
       LET c == owner[t.fd] IN
         IF c # None /\ ~eof[c]
           THEN answered' = [answered EXCEPT ![c] = Append(@, t.span)]
           ELSE UNCHANGED answered
  /\ worker' = [worker EXCEPT ![w] = "rearm"]
  /\ UNCHANGED <<eof, inbox, sent, kernel, armed, running, reactor, batch, tasks, job, db,
                 sessions, stopper, owners, chosen>>

\* Mutant: the task ends without re-arming its socket.
RearmForgotten(w) ==
  /\ worker[w] = "rearm"
  /\ job' = [job EXCEPT ![w] = {}]
  /\ worker' = [worker EXCEPT ![w] = "idle"]
  /\ UNCHANGED <<client, kernel, armed, running, reactor, batch, tasks, db, sessions, stopper,
                 owners, chosen>>

\* epoll_ctl(EPOLL_CTL_MOD): no effect on a descriptor that is not registered.
Rearm(w) ==
  /\ worker[w] = "rearm"
  /\ \E t \in job[w] : armed' = IF owner[t.fd] = None THEN armed ELSE armed \cup {t.fd}
  /\ job' = [job EXCEPT ![w] = {}]
  /\ worker' = [worker EXCEPT ![w] = "idle"]
  /\ UNCHANGED <<client, kernel, running, reactor, batch, tasks, db, sessions, stopper,
                 owners, chosen>>
-----------------------------------------------------------------------------
(* TcpServer::stop()                                                       *)

StopReactor ==
  /\ stopper = "idle"
  /\ running' = FALSE
  /\ stopper' = "reactors"
  /\ UNCHANGED <<client, kernel, armed, reactor, batch, pool, sessions, owners, chosen>>

JoinReactors ==
  /\ stopper = "reactors"
  /\ \A r \in Reactors : reactor[r] = "exited"
  /\ stopper' = "pool"
  /\ UNCHANGED <<client, kernel, armed, running, reactor, batch, pool, sessions, owners, chosen>>

\* Mutant: the sessions are cleared without waiting for the pool.
StopPoolAtOnce ==
  /\ stopper = "pool"
  /\ stopper' = "clear"
  /\ UNCHANGED <<client, kernel, armed, running, reactor, batch, pool, sessions, owners, chosen>>

\* threadPool_->stop() returns once the queue is drained (TaskQueue!Close).
StopPool ==
  /\ stopper = "pool"
  /\ tasks = <<>>
  /\ \A w \in Workers : worker[w] = "idle"
  /\ stopper' = "clear"
  /\ UNCHANGED <<client, kernel, armed, running, reactor, batch, pool, sessions, owners, chosen>>

ClearSessions ==
  /\ stopper = "clear"
  /\ sessions' = [fd \in Fds |-> None]
  /\ stopper' = "stopped"
  /\ UNCHANGED <<client, kernel, armed, running, reactor, batch, pool, owners, chosen>>
-----------------------------------------------------------------------------
ClientStep(c) == Connect(c) \/ Disconnect(c) \/ \E text \in Dbs \cup Others : Send(c, text)

ReactorStep(r) ==
  \/ LoopTest(r) \/ Poll(r)
  \/ CallAccept(r) \/ Accept(r) \/ AcceptThenClose(r) \/ AcceptFails(r)
  \/ \E fd \in Fds : ReadThenClose(r, fd) \/ ReadThenSubmit(r, fd)

WorkerStep(w) == Begin(w) \/ Execute(w) \/ Reply(w) \/ Rearm(w)

StopStep == JoinReactors \/ StopPool \/ ClearSessions

Serve ==
  \/ \E c \in Conns : ClientStep(c)
  \/ \E r \in Reactors : ReactorStep(r)
  \/ \E w \in Workers : WorkerStep(w)

Next == Serve \/ StopReactor \/ StopStep

Spec == Init /\ [][Next]_vars

\* Every thread of the server that can run does run; clients are free to do nothing.
Fairness ==
  /\ \A r \in Reactors : WF_vars(ReactorStep(r))
  /\ \A w \in Workers : WF_vars(WorkerStep(w))

\* A server that is never asked to stop.
ServingSpec == Init /\ [][Serve]_vars /\ Fairness
-----------------------------------------------------------------------------
(* Safety                                                                  *)

\* Reactor.cpp:212-215: with one-shot events and the re-arming at the end of the
\* task, a connection is at any time in the hands of one thread only: its
\* registration is enabled, or its event is in one batch, or it has one queued
\* task, or one pool thread works for it.
OneHandlerPerConnection ==
  /\ \A r \in Reactors : batch[r] \cap armed = {}
  /\ \A r, q \in Reactors : r # q => batch[r] \cap batch[q] \cap Fds = {}
  /\ \A i \in DOMAIN tasks :
       /\ tasks[i].fd \notin armed \cup UNION {batch[r] : r \in Reactors}
       /\ \A k \in DOMAIN tasks : tasks[i].fd = tasks[k].fd => i = k
  /\ \A w \in Workers : \A t \in job[w] :
       /\ t.fd \notin armed \cup UNION {batch[r] : r \in Reactors}
       /\ \A i \in DOMAIN tasks : tasks[i].fd # t.fd
       /\ \A v \in Workers : \A u \in job[v] : t.fd = u.fd => v = w

\* A descriptor captured by a task is not closed, and so not reused by another
\* connection, before the task is over: the reply and the re-arming reach the
\* connection that asked.
TaskDescriptorIsLive ==
  /\ \A i \in DOMAIN tasks : owner[tasks[i].fd] = tasks[i].conn
  /\ \A w \in Workers : \A t \in job[w] : owner[t.fd] = t.conn

\* handleNewConnection() blocks when another thread took the connection, but the
\* reactor threads never all sit in accept() with nobody to accept.
SomeReactorFree ==
  backlog = <<>> =>
    \E r \in Reactors : reactor[r] # "accept" /\ Listen \notin batch[r]

\* How far the replies to a client have come in what it sent.
Replied(c) == IF answered[c] = <<>> THEN 0 ELSE answered[c][Len(answered[c])].last

\* Although every read is handed from a reactor thread to some pool thread, the replies of a
\* connection are for what it sent in order and without a gap: nothing is answered twice, before
\* what came earlier, or skipped. (A request is answered once for each read() that took some
\* of it: Reactor.cpp:262 does not wait for its end.)
RepliesInOrder ==
  \A c \in Conns :
    /\ Replied(c) <= sent[c]
    /\ \A i \in DOMAIN answered[c] :
         /\ answered[c][i].first <= answered[c][i].last
         /\ answered[c][i].first = IF i = 1 THEN 1 ELSE answered[c][i - 1].last + 1

\* As long as a descriptor has served one connection only, a statement runs in the
\* database that its own connection chose last.
FirstOwnerKeepsDatabase ==
  \A w \in Workers : worker[w] = "execute" =>
    \A t \in job[w] : owners[t.fd] = {t.conn} => db[w] = chosen[t.conn]

\* The handler keeps a reference into sessions_ while it runs: stop() clears the
\* map only when no handler is left (Reactor::stop joins the pool first).
SessionsOutliveHandlers ==
  \A w \in Workers : worker[w] # "idle" => \A t \in job[w] : sessions[t.fd] # None
-----------------------------------------------------------------------------
(* Liveness                                                                *)

\* Reactor.cpp:289-297: the one-shot registration of a descriptor is armed
\* again after every statement, so that whatever a client sends, in one read or in several,
\* gets into a reply, unless one of the two sides closes the connection.
RequestsServed ==
  \A c \in Conns : \A n \in 1..MaxParts :
    sent[c] >= n ~> (Replied(c) >= n \/ eof[c] \/ conn[c] = "closed")
=============================================================================
