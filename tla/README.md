# MiniSQL in TLA+

TLA+ models of the MiniSQL server (`src/src/server`), their model checking with
TLC and proofs about them with TLAPS. Paths below are relative to the
repository's source tree (`src/` in `PROJECT.json` is that tree). `PROJECT.json`
is the index: components, runs, mutants, the lines each definition stands for,
findings, hazards and theorems.

## 1. The system

MiniSQL is a SQL server in C++ with a Qt client. A server process holds two
reactor threads on one epoll instance, a pool of four threads that execute SQL,
and tables kept as text files.

| Component | Code | State | Operations | Hard behaviour | What makes it correct |
|---|---|---|---|---|---|
| Thread pool | `server/network/ThreadPool` | `tasks_`, `stop_`, threads, mutex, condition | `submit`, `workerThread`, `stop` | lost wakeups, drain on stop | each task runs once, in order; no wakeup is lost; `stop` drains |
| Reactor, TcpServer, sessions | `server/network/Reactor, TcpServer, Session` | epoll registrations, `running_`, `sessions_` | event loop, accept, read, SQL handler, stop | a connection goes from thread to thread; descriptors are reused | one handler per connection; replies in order; a session belongs to one connection |
| Transactions, write-ahead log | `server/transaction` | ids, `activeTransactions_`, thread-local current transaction, log file, LSN | init/recover, begin, commit, rollback | crash between steps, records of two runs | log well formed; commit is logged before it shows |
| Table storage | `storage/TableManager`, `storage/FileIO` | a `.meta` and a `.data` file per table | create, drop, alter, rename, load, insert, update, delete | statements are many file operations without a lock over them; crash in a write | a statement is atomic; no row lost, torn or glued |
| DML, DDL execution | `executor/DMLExecutor, DDLExecutor, Executor` | current database | INSERT, UPDATE, DELETE, CREATE, DROP, ALTER | row ids are positions; half of a statement fails | as above; foreign keys hold |
| Lock manager | `server/concurrency` | locks per path, table, index | acquire, release | timeout, release | mutual exclusion; no wait for ever |
| B+ tree, index manager | `storage/BPlusTree, IndexManager` | nodes, map of open indexes, index files | insert, remove, find, range search, save, load | splits of leaves, inner nodes and the root; leaf links; a tree rebuilt from a file | the tree is the map that the operations made, in key order |
| Parser | `parser/Parser, AST, Keywords` | place in the text, statement being built | one parse function per statement, clause and level of precedence | loops that read optional words; exceptions in the middle of a list | a statement is parsed to its tree or refused; a condition means what was written |
| Plan generator, query rewriter | `optimizer/PlanGenerator, QueryOptimizer, QueryRewriter` | - | statement to plan to operators; folding of constants | precedence of clauses; conditions that constants decide | rewriting keeps the rows that a condition keeps |
| Query operators, expressions, values | `executor/*Operator, ExpressionEvaluator`, `common/Value` | iterator state, row context | open, next; evaluate; subquery per row | names looked up by concatenation; NULL; reads of the store between two rows | the answer is the one the statement means for the tables it read |
| Semantic analyzer, cost and rule optimizer, index selector, statistics, lexer, protocol, client, shell | the rest | - | - | - | see "Not modelled" |

Interaction: a reactor thread reads bytes from a connection and calls
`ThreadPool::submit`; the task calls the handler of `TcpServer`, which looks up
the session by file descriptor, runs the executor, and the executor calls
`TableManager`, whose only locking is the one of `FileIO` per path. The task
sends the reply and re-arms the one-shot registration of the descriptor.
`TransactionManager::init` runs before the server starts; no statement of the
server calls `begin`, `commit` or `rollback`, which only tests call. Each part
is modelled at the point where it is called, and the composition is the shared
interface: `Reactor` takes the pool as the queue that `ThreadPool` is shown to
implement, and `TableStore` takes the pool threads as its workers. The text of a
request goes through `Parser` to a statement; a SELECT goes through
`PlanGenerator` to a tree of operators, which read tables by `loadTable` while
other pool threads write them.

## 2. The modules

**`TaskQueue`** is what the pool promises: a FIFO queue whose tasks are accepted,
started (at most one per worker) and finished, and a close that waits until all
tasks accepted before it are finished.

**`ThreadPool`** is the pool. `mutex`, `tasks`, `stop` are `queueMutex_`,
`tasks_`, `stop_`; `worker[w]` is the place of a thread in `workerThread()`.
`SubmitPush` and `SubmitNotify` are `submit()` before and after it releases the
mutex. `Check` is the predicate of `wait`, evaluated with the mutex held; a
false predicate leads to `Block`, which is a step of its own because `stop()`
does not take the mutex and can store `stop_` and call `notify_all` between
them. `Take` pops under the mutex, `Run` runs outside of it, `Exit` leaves when
stop is set and the queue is empty. `SpuriousWakeup` is the one of the condition
variable. `StopStore`, `StopNotifyAll`, `StopJoin` are the three statements of `stop()`.

**`Reactor`** is the front of the server: the event loop (`LoopTest`, `Poll`,
then each event of the batch by `CallAccept`/`Accept`/`AcceptThenClose`/
`AcceptFails` or `ReadThenClose`/`ReadThenSubmit`), the handler in a pool thread
(`Begin`, `Execute`, `Reply`, `Rearm`) and `TcpServer::stop()`. `armed` is the
set of descriptors whose `EPOLLONESHOT` registration is enabled. The kernel is
what the code relies on: the backlog, the lowest free descriptor, a stream of bytes. The
stream is a sequence of parts (`Parts`), of which one `read()` takes any number that have
arrived (`Reads`): it stops at 4095 bytes, at what TCP has delivered, and at no end of a
request. A task is for the parts that its read took (`span`), and the parser in the handler
stops after the first statement in them (`FirstStatement`); what was cut, or goes on in a
second part, may turn out to be any statement, and none if it fails.

**`Transactions`** is `TransactionManager` over `WALManager`: `OpenLog` and
`Recover`/`RecoverThrows` are `init()`, the three steps of `begin()` and the two
of `commit()` are separate because other threads run between them. The log file
has a prefix that reached the disk (`synced`) and may end in part of a record
(`torn`); a crash takes the process or the machine down. A write to an open log may fail
(`WriteMayFail`): the stream stays failed and drops what follows, and `writeLog()` does not look
(`walOpen` is FALSE from then on). `redone` is the history of what recovery applied, `Redo` what it takes
from the log: nothing.

**`Table`** is what a client expects of tables: every statement is one step.
**`TableStore`** is the statements as sequences of file operations on `.meta` and
`.data` files, each action one file operation and the computation after it.
`UPDATE` and `DELETE` load the table, plan the rows by id, and load and rewrite
the file again for each of them. `ALTER TABLE` changes the definition, then
joins the lines with newlines and none at the end (`ended = FALSE`), which the
next append meets. A crash empties or cuts the file that is being written.
**`Selection`** is the loop with which both keep some elements of a sequence; the scan of a leaf
of a B+ tree is one too.

A foreign key (`ForeignKey` maps a table to its parent) is checked between
planning and writing: `CheckDef`, `CheckLoad` and `CheckData` are the file
operations of `checkForeignKeyConstraints()`, so that the parent may change
before the row is written.

**`Expressions`** is values, their comparison and `ExpressionEvaluator`. A value is a type
and a number; strings appear by rank, since they are only compared. Evaluation ends in a value,
an error, an exception, or at `Wait(r)` when it needs a read `r` that has not happened.
**`Operators`** is each physical operator as the function from its children's
streams to its own: a stream is how `open()` ends, the rows of `next()` in order, and
how the sequence ends. The row context keeps the code's rule for full and short
names. **`Planner`** is `PlanGenerator` (statement to plan, plan to operators) and `executeSubquery()`.
**`Select`** is a running SELECT: `Materialize` of what has been read so far tells which table or
subquery the next pull has to read, `ReadTable` and `AskSubquery` read it, `Finish`
replies, and `Write` is another client's statement in between.
**`Query`** is the reference: the same SELECT over environments of table and
column, joins as sets of pairs, three-valued conditions, sorting by keys.

**`Parser`** is the recursive-descent parser on tokens. A parse function maps a
cursor (text, place, state, last tree, statement) to a cursor; `Parse` ties the
mutual recursion. A cursor ends as parsed, refused, hanging (a loop that does not
move) or undefined (the function runs off its end). **`Rewriter`** is
`QueryRewriter`. **`Grammar`** is the reference for both: an unambiguous
grammar that derives trees from the tokens of a condition, and `Written`, which
writes statements out with or without the optional words. **`Frontend`** composes
them: texts are statements written out, or grow token by token from an opening
while only the end of the text stops the parser.

**`BPlusTree`** is the tree as a heap of numbered nodes, one operator per
method (all run under the tree's lock). What the methods do by recursion over children or along
the leaves are recursive functions on the nodes. **`IndexManager`** has the trees of a database,
their files, and the map that the operations should have made.

**`ReactorMC`, `TransactionsMC`, `TableStoreMC`, `SelectMC`, `FrontendMC`, `IndexManagerMC`** give TLC
its symmetry sets, files, statements, databases and texts. `ThreadPool` needs none.
**`ThreadPoolProofs`**, **`ReactorProofs`**, **`TransactionsProofs`**, **`TableStoreProofs`**,
**`TurnsProofs`** (which continues it, for the refinement), **`BPlusTreeProofs`** and
**`IndexManagerProofs`** hold the proofs, one module per component. **`SelectionProofs`** has what the last
four share: least numbers, the loop of `Selection`, numbers in ascending order.

Each module has operators marked "Mutant": the form of one action with a
plausible mistake, paired in `PROJECT.json` with the property that notices it.
They are part of no specification.

## 3. The runs

Passing runs:

* `pool` - two workers, two submitters, three tasks, one spurious wakeup, and
  `stop()` at any time (55 102 states). Two workers are the fewest for one to sleep while
  another works and three tasks make the queue longer than the workers can hold.
  Checks the safety properties, that the pool implements `TaskQueue`,
  `EveryTaskRuns`: a task accepted before `stop()` is called is run, even in
  the behaviours where `stop()` itself hangs; and `StopReturnsOrMissesAWorker`: that is
  the only thing that can keep `stop()` from returning.
* `reactor_safety` - two connections, two descriptors, two reactor and two pool
  threads, two parts per client sent without waiting, read together or apart, registration that may
  fail, stop at any time (1.5 million states). A descriptor is reused when the
  first connection closes before the second is accepted; a reply is overtaken, if ever,
  with two reads and two pool threads, and two parts are the fewest for a request to be cut.
* `reactor_serving` - one client under fairness, three parts, white space among them (20 800 states):
  whatever it sends gets into a reply. One client that waits is the case stated: with
  another one a thread may sit in `accept()` with events of its batch behind it.
* `txn_safety` - two threads, three transactions per incarnation, one crash, a log
  that may fail to open or to take a record (167 000 states). Three transactions let a thread begin one while the other
  thread has one, after one was committed. `TypeOK` says there too that the transactions in
  `activeTransactions_` are those that are active.
* `store_turns` - fourteen statements of every kind on three tables, of which a
  behaviour issues any four in any order, by two workers that never use one table at
  the same time: implements `Table` (355 000 states). Two rows share a key so that `UPDATE` and
  `DELETE` write twice. `INSERT` stays away from altered tables: what happens
  there is `store_glued`.
* `store_writers` - any four of eight inserts, updates, deletes and a create by
  two workers with no turns, and one crash (670 000 states): `LinesAreWhole`,
  `OneRowLostPerCrash`, and `ChildrenHaveParents`: rows of `t3` refer to `t2`, which
  only grows in this run.
* `select` - 57 SELECT statements on three databases (NULLs, duplicates, rows without a partner, an empty and a
  missing table), two writes of other clients at any place (21 300 states). Joins of up to four
  tables, LEFT, RIGHT and CROSS, subqueries in FROM and WHERE, ORDER BY two keys,
  LIMIT and OFFSET, division by zero, incomparable operands, errors in rows that WHERE drops or LIMIT cuts
  off. Two writes are the fewest for a row to be decided in a database that is neither the first nor the last.
  `FailsForItsErrors` has two directions: an answer is refused
  for an error in a row that is looked at, and for nothing else. Left out, by a predicate of the properties:
  statements that name a column a later join has renamed (`NamesLost`), which are refused or, in ORDER
  BY, not sorted; and those that name a column of two tables, or of another table than they say
  (`NamesMixedUp`), for which the code takes the first column it finds. The run has statements of both kinds.
* `tree` - order 2, five keys, one index, CREATE INDEX with a file that may not be written, removal, save, load,
  restart (143 000 states). Five keys give
  three levels, so that leaves, inner nodes and the root split. Order 2 is the
  smallest with a middle; nothing depends on 200. `IndexManagerMC` also has TLC evaluate `FilesAreShallow`, which the theorems ask for.
* `frontend` - 226 statements written out both ways, and all texts that grow by up to
  seven tokens from five openings (173 000 states): conditions with every kind of operator and parentheses, and
  definitions of CREATE TABLE.

Runs that TLC finds violated, each with a finding that quotes what is promised:

* `txn_no_redo` - a transaction commits, the process dies, and the next one serves without having
  redone it: recovery reads the log, redoes nothing and deletes it. (A recovery that redoes what the log has committed and
  then truncates it satisfies the property.)
* `store_lost_insert` - an `UPDATE` writes back the file it loaded, without
  the row inserted meanwhile.
* `store_glued` - after `ADD COLUMN` the file has no final newline; the next row
  is glued to the last one and both disappear.

### Where code and documentation part, without a run

Server:

* `stop()` stores `stop_` outside the mutex: a worker between its predicate and its sleep misses
  `notify_all`, and `join` never returns (`ThreadPool.cpp:19`).
* `removeSession` has no caller: the next connection on a descriptor starts in the
  database of the last one (`TcpServer.cpp:181`; `README.md:181` promises isolation).
* Two threads are woken for one connection; the loser blocks in `accept()` with the
  other events of its batch unhandled, and keeps `TcpServer::stop()` waiting (`Reactor.cpp:222`).
* `submit()` accepts tasks after `stop()` returned.
* A request longer than 4095 bytes, or one that TCP delivers in pieces, becomes several tasks with a reply each
  (`Reactor.cpp:262`); of two requests that arrive together only the first statement is run.
* `WALManager::init()` creates no `wal/` directory and then drops every record, as it does after a write that
  failed, and `commit()` still returns true; nothing calls `fsync`;
  a torn record may make `recover()` throw at every start; a second `begin()` on a
  thread leaves the first transaction active (the test `test_transaction.cpp` does that).

Tables:

* A crash in the rewrite of `UPDATE` loses old rows; a multi-row `INSERT` that fails at a later row
  keeps the earlier ones; `INSERT` with too many values is acknowledged and never read;
  `INSERT` ignores the order of its column list.
* `DELETE` and `UPDATE` of a parent row leave orphans: `hasReferencingRows()` returns false.
* Indexes: SQL never asks for the PRIMARY type, so that `CREATE INDEX` makes an empty tree; no statement
  maintains one; a tree of three or more levels is not rebuilt by
  `deserialize()`, which takes the children of node i to be the nodes right after it.

SELECT:

* Table aliases are unknown to the operators: the join of `README.md:146` fails.
* An aggregate at the top level is never computed, and `README.md:149` fails: the plan node has no projections.
* DISTINCT is ignored; an unknown column in ORDER BY is ignored; AND and OR take
  NULL as false; IN takes NULL as a value.
* A subquery in WHERE with LIMIT and no OFFSET is empty: the offset is -1 as `size_t`.
  Subqueries in ON, HAVING, ORDER BY or the select list read the database "default".
* In a join of three tables a column of the first two is not found unless its table is named: each join puts the
  name of its left table before all names on its left (`NestedLoopJoinOperator.cpp:101`), so that `users.age` is
  `users.users.age` then, and one prefix is taken off (`ProjectOperator.cpp:151`). With four tables
  it is not found at all (`development-status.md:588` promises three and more). A subquery in
  FROM that is joined loses its short names; a column of two tables is that of the first, and `users.amount`
  is any `amount` there is. HAVING names group columns by the child's names.
* Rows that ORDER BY does not tell apart keep their order up to 16 rows only: `std::sort` is an insertion sort, and
  stable, for so few. The tables of the run are smaller, and `Sort` and its reference keep the order.

Parser:

* `ALTER TABLE` never does what was asked: ADD, COLUMN, MODIFY, CHANGE, RENAME, TO are not keywords, so the
  operation is not set, or is DROP COLUMN (`development-status.md:163-170` lists them as done).
  `TableStore`'s ALTER actions are reached through the `TableManager` interface.
* `IF [NOT] EXISTS` is looked for before the type of the object: `DROP TABLE IF EXISTS t` drops
  a table `IF` (`test_parser.cpp:275`, `development-status.md:161-162`).
* A column with REFERENCES hangs the parser; CREATE of an unknown object runs off the function's end.
* NULL, TRUE, FALSE cannot be written; `<>`, `%`, `==` parse and are refused by the evaluator; EXISTS cannot start a
  condition; `NOT IN (1, 2)` drops its list; a NOT after an operand is dropped.
* What follows a complete statement is ignored; `SELECT a AS x, b FROM t` loses all
  after `x`; UNIQUE (c) in CREATE TABLE makes no index and ends the list, INDEX and KEY are refused.
* Rewriter (no caller outside of tests): folding truncates fractions, 1/0 becomes NULL, two
  subqueries print alike and one is dropped.

### Deadlock

All runs but `tree` have `CHECK_DEADLOCK FALSE`. Clients may stop sending, the pool may be
stopped, a text ends, and a behaviour has finitely many statements; what must go on is
stated as liveness. An index can always be changed, and `tree` checks that.

### Fairness

Threads are scheduled: `WF` of the whole of a thread's program (`WorkerStep`,
`ReactorStep`, `SubmitNotify`, the steps of `stop()` once called). A mutex and a
condition variable promise no more than that to a thread, so nothing is strong.
Nobody has to call `submit` or `stop`, clients need not send or read, nothing has to wake
up spuriously. `Reactor!ServingSpec` is the server that is not asked to stop, which is the only way
`TcpServer::start()` runs: it sleeps in a loop.

## 4. The proofs

`ThreadPoolProofs` proves for any sets of workers, submitters and tasks, and any
bound on spurious wakeups, from the assumptions of `ThreadPool` only
(`WorkersAssumption`: there is a worker; `FreeAssumption`: the mark of the free mutex is no thread;
`SpuriousAssumption`: the bound is a number; `FiniteAssumption`, where threads are
counted: they are finitely many):

| Theorem | States |
|---|---|
| `TypeCorrect` | `[]TypeOK`, with the mutex owner being the one thread inside the locked region |
| `PopsAreSafe` | `[]NoPopOfEmptyQueue` |
| `QueueOrder` | `[]QueueIsFifo` |
| `WakeupsArrive` | `[]NoLostWakeup` |
| `StopDrainsQueue` | `[]StopDrains` |
| `StoppedIsQuiet` | `NoWorkAfterStop`, an action property |
| `WorkIsConserved` | `[]WorkConserving` |
| `PoolIsTaskQueue` | `ImplementsTaskQueue`: the pool refines `TaskQueue` |

The argument: `Typed`, the type invariant with `NoPopOfEmptyQueue`, is inductive;
types alone are not, because `Take` uses `Head(tasks)` and needs the queue not
to be empty between the predicate and the pop, which holds since the worker keeps the
mutex. `QueueIsFifo` is inductive over it by one lemma on sequences (`MoveHead`).
`NoLostWakeup` is not inductive: it needs that a worker about to
block saw an empty queue (`BlocksOnEmpty`) and that a worker only exits when the
pool is stopped (`ExitsWhenStopped`); `Wakeups` is their conjunction. `StopDrains` needs that the stop flag is stored
once `stop()` has begun, that `stop()` returns only when all workers have exited, that
the tasks promised are then taken, and that a taken task is finished or running;
`Draining` is their conjunction, and `StopDrains` and `StoppedIsQuiet` follow from it.
`WorkConserving` counts: each step moves one thread between the submitters with a
notification to give and the workers on their way (`Comers`), and `CountableNext` compares the
two cardinalities before and after; a worker that takes a task shortens the queue with it.
For `PoolIsTaskQueue`, `HeadIsNext` says that the task taken is the next one accepted, and `RoomForOne`
that there is room for it: what has started and not finished is in the hands of workers other
than the one that takes, one task each (`Handing`), which is a surjection onto it.

`ReactorProofs` proves for any sets of connections, descriptors, reactor and
pool threads and databases, from the assumptions of `Reactor` (there is a
reactor thread, descriptors are numbers, the marks `None`, `Listen`, `Query`, `Rest`, `Blank` and `NoDb`
are distinct from what they are used beside, the bounds are numbers):

| Theorem | States |
|---|---|
| `TypeCorrect` | `[]TypeOK` |
| `OneOwner` | `[]OneHandlerPerConnection` |
| `DescriptorsLive` | `[]TaskDescriptorIsLive` |
| `ReactorStaysFree` | `[]SomeReactorFree` |
| `SessionsStay` | `[]SessionsOutliveHandlers` |

The first three have one inductive invariant, `TypeOK /\ Owned`: none of its parts is
inductive without the others. A task has a connection as type only when the
descriptor it was read from is open (`HeldIsOpen`); a descriptor in a batch
stays open only because no other thread can close it (`OneHandlerPerConnection`);
and `accept()` may arm a free descriptor only because no task or job still
names it, which follows from `TaskDescriptorIsLive`. `SomeReactorFree` is inductive
with the types: the thread that empties the backlog leaves `accept()`, and stays out until the
backlog grows. `SessionsOutliveHandlers` needs the order of `stop()` (`StopOrder`): reactor
threads have exited before the pool is stopped, so that no task arrives after it has become idle.

It goes on from the same invariant, by the same assumptions:

| Theorem | States |
|---|---|
| `DatabaseKept` | `[]FirstOwnerKeepsDatabase` |
| `RepliesOrdered` | `[]RepliesInOrder` |

A connection has one descriptor in its life (`OneDescriptor`), so that the session
the handlers look up under this descriptor holds what the connection chose last, as long as
no other has had the descriptor (`SessionsFollow`; `Database` is the conjunction). For the
replies, what a client sends is numbered part by part. The parts in the buffer are those from where the last read
ended (`ReadUpTo`); the task that is queued or runs for the connection, if there is one, is for all that was read and not
answered (`IsNext`), and if there is none, or its reply has been sent, the replies have come as far as the reads
(`Caught`). `Ordered` is that for every connection. It holds since one handler has the
connection at a time, wherever a read cuts the stream; it does not say that there is one reply to each request,
which the code does not ensure.

`TransactionsProofs` proves for any set of threads, any bounds on transactions and
crashes, from `BoundAssumption` and `ParameterAssumption` (the bounds are numbers, the marks are no
values):

| Theorem | States |
|---|---|
| `TypeCorrect` | `[]TypeOK` |
| `TransactionsApart` | `[]ThreadsShareNoTransaction` |
| `NumbersFollowFile` | `[]LsnIsPosition` |
| `RunsApart` | `[]LogOfOneRun` |
| `WellFormedLog` | `[]LogIsWellFormed` |
| `WriteAhead` | `[]CommittedIsLogged` |

They have one inductive invariant, `IInv`, which the run `txn_safety` was also seen to satisfy while it
was written. What the log says of a transaction depends on how far the thread that
owns it has come: between `begin()` taking an id and writing the record there is
none, after it one BEGIN, after the first half of `commit()` a COMMIT too. That is inductive only
with the facts that a transaction has one owner and that ids at or above the counter
appear nowhere. A process that does not serve yet has a fresh memory, and the log it
starts to write is empty, so that ids that start at 1 again meet no old record; a
crash leaves a prefix of the log, of which every fact about positions remains true. From a write that fails on
nothing is added to the file, and what is said of records to come is said only while the stream is good
(`CounterInv`, `CommittedIsLogged`). That an active transaction is in nobody else's hands when it is committed or rolled back
(`OwnersApart`) is what the types need.

`TableStoreProofs` proves for any workers, tables, statements and any bounds on
statements and crashes, from the assumptions of `TableStore` and from what each theorem names:

| Theorem | States | Under |
|---|---|---|
| `WholeLines` | `[]LinesAreWhole` | `Rowwise` |
| `ParentsAreThere` | `[]ChildrenHaveParents` | `Rowwise`, `ParentsAtStart` |

`Rowwise`: the statements are INSERT, UPDATE, DELETE, CREATE and DROP on tables there may be, each inserted
row has a cell, and the files at the start hold whole lines; `NoFile` is no file. ALTER is out: it
leaves a file without its last newline, which run `store_glued` shows. `ParentsAtStart`: the rows there are at
first have their parents. The data of run `store_writers` satisfies both. The argument: `Whole` says where a statement
of each kind may be, and that what a worker has read for a rewrite and what it plans to write
are whole rows; `LinesAreWhole` is not inductive without it, because a rewrite puts back lines read
several steps before. `Related` goes on from `Whole`: a key that was checked has its parent until
it is written (`Kept`), and so have the rows a rewrite has read. It is stable under the steps of
others since only an INSERT can touch the parent (`OnlyInsertsTouchParents`), and what it appends to the
file of the parent hides none of its rows (`RowsLast`). Both stop at a crash, which may cut a file anywhere.

The loop over the lines of a file (`Selected`) is a recursive function. That it is
one that unfolds (`SelectedLoops`), and then what it collects (`SelectedElements`), follow by looking at the
smallest number at which it would fail (`LeastNumber`, from the well-foundedness of `<`), which needs no induction
over an operator.

It also proves, for statements of every kind, ALTER and RENAME too, and for behaviours that go on
after any number of crashes:

| Theorem | States | Under |
|---|---|---|
| `StoreTypes` | `[]TypeOK` | nothing more than the assumptions of `TableStore` |
| `CrashCost` | `[]OneRowLostPerCrash` | `RowsFit` |

`TypeOK` is not inductive: that a plan is not empty says nothing of the rows in it, and a rewrite with an
empty row, or one of `DROP COLUMN` for the only column, would leave files that are none. `Sound` adds
what a worker in each stage holds (`Prepared`): what `plan` is made of, rows in `content`, columns in `def`
that differ, and that the column to drop is not the first. It is preserved by a cut anywhere in a write (`CutIsFile`).

`RowsFit`: `NoFile` is no file; the data file of a table that statements only insert into ends in a newline at the
start, and no row for it has more cells than the table columns (`loadTable()` skips such rows; README section
3). `OneRowLostPerCrash` counts acknowledged inserts after the fact and is not inductive, since what a crash cuts may
belong to the next statement: the open line it leaves swallows the row that is appended next. So `Costs` counts
harm while it is done: the inserts with a row that was written and is in no closed line of the file (`Harmed`), plus one while the
file is open at its end (`Open`), are never more than the crashes. An append to a file that is ended makes a safe row;
one to an open file harms at most the statement that appends, and closes it; a crash inside of an append harms
nothing that was closed (`CutAppendKeeps`) and opens one line at most. The definition of such a table stays what it was, so that
a closed line that could be read once can always be read.

`TurnsProofs` proves the refinement, again for statements of every kind:

| Theorem | States | Under |
|---|---|---|
| `TurnsImplementTable` | `ImplementsTable`: `TableStore` refines `Table` | `TakingTurns` |

`TakingTurns`: clients do not use a table while a statement on it runs, and the process does not die; without either
the refinement fails, as `store_lost_insert` and the crashes of `store_writers` show. At the start a
table has both its files or neither, and `loadTable()` skips no line of it; `NoFile` is no file, no
columns and no table. There are no foreign keys, no cell that a row of an INSERT after the first is refused for, and no row longer than the
columns: an INSERT that fails half way keeps its first rows, and a row that is too long is acknowledged and never read, so that `Table`
is not what the code does there (section 3). ALTER and RENAME stay away from the tables that INSERT adds to, which
`store_glued` shows the need of. All of this holds of the constants of `store_turns`. Apart from it statements may be of any kind, write any
number of rows, and fail wherever the code lets them.

The mapping (`Tables`) shows a table that a statement uses as that statement found it, and any other as the files have
it, so that each statement takes effect in its last step. What has to be known is how far the files are
from the one to the other: `Turn` says it for each place of a statement in the code, in terms of the table it found (`before`).
INSERT: the lines of the file and the rows to come are the old rows and the new ones (`Appending`). UPDATE: rows
without an entry in the plan are as they should be, and the others as they were (`UpdateDone`). DELETE: the file is
the old rows without those already erased, and the plan descends, so that nothing before the next row to go has
moved and its id is still its place (`DeleteDone`); planning upwards, the mutant of the run, breaks exactly this. For each
of them there are three lemmas: the plan as it is made has the property, a step keeps it, and with nothing left it
says what `Table` does (`DeleteStarts`, `DeleteStep`, `DeleteEnds`). ALTER and RENAME are described file by file. The rest of
the invariant `Turns` is that no two statements use one table (`OneUser`), that the files of a table at rest are a table (`Rest`),
and that a table INSERT adds to is fit for it (`Ready`). A step of a statement keeps `Turn` (`Goes`) or is its last
and leaves the files of what the statement should make, or those of the table it found (`Finishes`); a step on another table touches
neither its files nor its locals (`StepTouches`, `OthersTurn`). `Turns` was checked by TLC on the instance of `store_turns` while it was
written.

`BPlusTreeProofs` is about search, insertion and removal in a tree, and `IndexManagerProofs` about files, range searches and
what clients of the indexes make of all that, for any order of at least 2, any keys and row ids, and trees of any height:

| Theorem | States | Under |
|---|---|---|
| `SpecKeepsIndexInv` | `[]IndexInv`: trees and files hold the maps | `FilesAreShallow` |
| `FindIsMapHolds` | `[]FindIsMap` | `FilesAreShallow` |
| `SearchTreesHold` | `[]SearchTrees` | `FilesAreShallow` |
| `RangesAreCompleteHolds` | `[]RangesAreComplete` | `FilesAreShallow` |

They rest on `OrderAssumption` and `DataAssumption` (keys are integers, row ids numbers, tables sequences of keys).
`FilesAreShallow`: the trees that are saved, and those that CREATE INDEX fills and saves, have at most two levels. Without it the
theorems are false, because `deserialize()` takes the children of a node to be the nodes that follow it (section 3). The
trees in memory may have any height.

`IndexInv` says that each tree is in order and holds the map of its index (`IsTree`), and each file gives back a tree that
holds the map it was saved with. `FindIsMap` alone is not inductive: where the next split puts a key depends on nodes
that no search for the present keys visits. `IsTree` says that nodes have levels, ranges and positions. The level of a
leaf is 0, and children are one level below their parent, so that all leaves are equally deep and the recursion ends. The range
of a node is the set of all numbers whose way from the root leads through it; the range of the root is all integers, that of a child is the part
that `findChildIndex()` sends to it, and ranges on a level are disjoint. So a key is in exactly one leaf's range, and must be there or
nowhere. The positions of the leaves grow by one along their links and as the ranges do.

Insertion goes up the levels (`UpTo`): up to the level of the node that has just been changed, the nodes are in order, and the parent
above is not yet, since its range has to be divided between the child and the node split off (`GrownUnder`). An inner node takes
the new child in (`Widened`), then is split or not; the halves of an overfull node of `order + 1` keys have a
key and a child more than keys each, at every order of at least 2. The new root is the one case in which
the levels grow. Removal changes one leaf and no separator, so that ranges and levels stay; a leaf may become empty, which
nothing excludes. A root with one child would be replaced by it, and cannot occur.

A file is the preorder of the nodes with the numbers of their children. For two levels that is the root and then the leaves from
left to right (`FlatPreorder`), what `deserialize()` makes of it (`RebuiltNodes`) has them as children and linked in this order,
and levels, ranges and positions of the old tree carry over. A range search starts in the leaf whose range has `min`; every leaf gives the
row ids of its keys in the range (`HitsAnswer`), and those of the leaves from one position on are, by going down from the
last position, the ids of all keys from there (`TreeIsScanned` gives what the walk needs). That the answer is complete is stated by rank:
the id of a key is at the place that is the number of keys of the range up to it.

The recursive functions of the tree are shown to unfold by their levels: below the least level, or position, at which one would not there is none at
which it does not (`LeastNumber`). In this form induction needs no theorem with an operator as a parameter.

Only model-checked:

* what reaches a RECURSIVE operator: trees of expressions, operators and statements are
  evaluated recursively, in `Expressions`, `Operators`, `Planner`, `Query`, `Parser`, `Grammar` and
  `Rewriter`, and hence in `Select` and `Frontend`. Unlike the nodes of a B+ tree, which are numbered, these are nested
  values, over which no recursive function has a domain;
* all liveness, and `ENABLED`, which are out of reach of the prover.

## 5. What is abstracted or not modelled

Abstracted:

* A reply is one `Reply` step; partial `send()` and `SIGPIPE` are left out.
* Of a statement `Reactor` knows the database it selects, or that it is another
  or blank one. `TableStore` knows its kind, table and cells. Cells have no
  separator in them, so the escaping of `rowToCsv` is left out; the first column is the key.
* The pool in `Reactor` is its FIFO queue; the race in `ThreadPool::stop()` is in
  `ThreadPool` only.
* Strings are ranks: the code compares them and nothing else. ABS stands for the scalar
  functions: one argument, an error for the wrong type, NULL for NULL. Arithmetic is over
  numbers small enough for `int64_t` and exact as fractions.
* In `Select` a scan is one read of the table, as `open()` is; the half of it that reads the
  definition and the half that reads the rows are apart in `TableStore`.
* The trees that are saved have at most two levels (`MaxSavedHeight`), since a deeper one
  does not come back from `deserialize()`.

Not modelled:

* `recordOperation` has no caller: table rows never reach the log.
* The locks on tables and indexes have no caller outside of `test_concurrency.cpp`; their timeout
  is looked at after the lock was got, and the release does nothing.
* The lexer, which works character by character; the protocol, the client, the shell and
  logging, which are text and I/O. `TcpConnection` has no user.
* The semantic analyzer, which no path of the server calls.
* The cost and rule optimizers, which `QueryOptimizer` switches off; `IndexSelector` and
  `Statistics`, whose estimates and annotations no operator reads; EXPLAIN and ANALYZE, which print them.
* Databases as directories, the `.rowid` file, and what SHOW, DESCRIBE and the index statements print.
* Two threads in the unlocked map of `IndexManager`: undefined behaviour without outcomes to state.

## 6. Plan

Done: pool, reactor, transactions, table store with foreign keys, query operators with their planner and
reference, parser and rewriter with their grammar, B+ tree and index manager; proofs of
the first four and the last two, with the two refinements. Left:

1. Proofs: `Select` and `Frontend`, once their trees are heaps of numbered nodes as those of `BPlusTree` are.
2. `LockManager`: `RWLock` and the table locks with their timeouts, when a statement takes one.
3. Assembly of replies by the client; the lexer.
