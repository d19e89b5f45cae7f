------------------------------- MODULE Select --------------------------------
(***************************************************************************)
(* A SELECT while other clients write: Executor::executeSelect().          *)
(*                                                                         *)
(* The statement holds no lock. It reads a table when its scan is opened   *)
(* (one loadTable(), which FileIO makes atomic) and reads the table of an  *)
(* IN or EXISTS subquery again for every row that the filter looks at.     *)
(* Each read is a step here; what is computed between two reads is         *)
(* Materialize() of what has been read so far.                             *)
(***************************************************************************)
EXTENDS Query

CONSTANTS Queries,    \* the SELECT statements
          Databases,  \* the databases there may be at the start
          Contents,   \* the rows that a write may leave in each table
          MaxWrites   \* bound on the writes of other clients

VARIABLES db,       \* the content of each table: found, cols and rows
          query,    \* the statement
          pc,       \* "run", then "done" or "failed"
          scans,    \* what its scans have read, by their path in the plan
          answers,  \* the answers of each subquery, one per row filtered
          result,   \* the rows of its result
          seen      \* history: the databases since it started

vars == <<db, query, pc, scans, answers, result, seen>>

Plan == Generate(query, <<>>)

\* The subqueries that the filters of a statement evaluate.
FilterQueries(s) ==
  SubqueriesOf(s.where) \cup (IF s.query = NoQuery THEN {} ELSE SubqueriesOf(s.query.where))

NoTable == [found |-> FALSE, cols |-> <<>>, rows |-> <<>>]

TypeOK ==
  /\ query \in Queries
  /\ pc \in {"run", "done", "failed"}
  /\ \A p \in DOMAIN scans : scans[p] = NoTable \/ \E d \in seen : scans[p] \in {d[t] : t \in DOMAIN d}
  /\ DOMAIN answers = FilterQueries(query)
  /\ db \in seen
  /\ Cardinality(seen) <= MaxWrites + 1
  /\ pc # "done" => result = <<>>

Init ==
  /\ db \in Databases
  /\ query \in Queries
  /\ pc = "run"
  /\ scans = [p \in {} |-> <<>>]
  /\ answers = [q \in FilterQueries(query) |-> <<>>]
  /\ result = <<>>
  /\ seen = {db}

Pulled == Materialize(Plan, scans, answers)

\* open() fails, or ends, before the first next().
Outcome(stream) == IF stream.open # Eof THEN stream.open ELSE stream.end

\* TableScanOperator::open() of the scan that the next pull reaches.
ReadTable(needs) ==
  /\ needs[1] = "scan"
  /\ scans' = scans @@ (needs[3] :> IF needs[2] \in DOMAIN db THEN db[needs[2]] ELSE NoTable)
  /\ UNCHANGED <<db, query, pc, answers, result, seen>>

\* executeSubquery() for the row that the filter looks at.
AskSubquery(needs) ==
  /\ needs[1] = "query"
  /\ answers' = [answers EXCEPT ![needs[2]] = Append(@, ExecuteSubquery(needs[2], db))]
  /\ UNCHANGED <<db, query, pc, scans, result, seen>>

\* Mutant: the rows before an error are kept.
FinishKeepsRows(stream) ==
  /\ pc' = IF Outcome(stream) = Eof THEN "done" ELSE "failed"
  /\ result' = stream.rows
  /\ UNCHANGED <<db, query, scans, answers, seen>>

\* The rows are complete, or an error or exception has become an error reply.
Finish(stream) ==
  /\ IF Outcome(stream) = Eof
     THEN pc' = "done" /\ result' = stream.rows
     ELSE pc' = "failed" /\ UNCHANGED result
  /\ UNCHANGED <<db, query, scans, answers, seen>>

\* The next pull reaches a table or a subquery that is still to be read, or the end.
Pull(stream) ==
  \/ Outcome(stream)[1] = "wait" /\ ReadTable(Outcome(stream)[2])
  \/ Outcome(stream)[1] = "wait" /\ AskSubquery(Outcome(stream)[2])
  \/ Outcome(stream)[1] # "wait" /\ Finish(stream)

\* Another client's statement rewrites a table.
Write(t, rows) ==
  /\ pc = "run"
  /\ Cardinality(seen) <= MaxWrites
  /\ db[t].found
  /\ db' = [db EXCEPT ![t].rows = rows]
  /\ seen' = seen \cup {db'}
  /\ UNCHANGED <<query, pc, scans, answers, result>>

Next ==
  \/ pc = "run" /\ \E stream \in {Pulled} : Pull(stream)
  \/ \E t \in DOMAIN Contents : \E rows \in Contents[t] : Write(t, rows)

Spec == Init /\ [][Next]_vars
-----------------------------------------------------------------------------
(* Properties. *)

\* The tables as the statement read them, and the values of its subqueries in one database.
Views(s) ==
  [n \in 1..(Len(s.joins) + 1) |->
     IF n = 1 /\ s.query # NoQuery THEN Derived(s.query, <<scans[<<0, 0>>]>>)
     ELSE scans[<<n - 1>>]]

ValuesIn(d) ==
  [q \in FilterQueries(query) |-> ToSet(ExecuteSubquery(q, d).values)]

Quiet == Cardinality(seen) = 1

\* The statement, or its subquery in FROM, has an error.
Erroneous(d) ==
  \/ query.query # NoQuery /\ HasError(query.query, <<scans[<<0, 0>>]>>, NoValues)
  \/ HasError(query, Views(query), ValuesIn(d))

NoLimit == query.limit < 0 /\ (query.query = NoQuery \/ query.query.limit < 0)

\* A client gets the answer that its SELECT means (Query.tla) for the tables as the
\* statement read them: the pipeline of scans, joins, filter, sort, projection and limit,
\* which resolves columns by concatenated names and stops pulling when it has enough rows,
\* loses, repeats and misplaces none. Aggregates, table aliases and names that the code finds
\* no more or finds twice are outside it; a subquery's answers are covered when nobody
\* writes meanwhile.
AnswerIsQuery ==
  pc = "done" /\ ~Grouped(query) /\ ~Aliased(query) /\ (FilterQueries(query) = {} \/ Quiet)
    /\ ~NamesLost(query, Views(query)) /\ ~NamesMixedUp(query, Views(query)) =>
    result = Answer(query, Views(query), ValuesIn(db))

\* A statement fails for an error that it has, and for nothing else. An error is a missing
\* table or column, a division by zero, or operands that cannot be compared, in a row that is
\* looked at: of many rows one is enough, and none is passed over on the way. Names are as
\* for AnswerIsQuery: one that a join has made longer may fail too (NamesLost), one in two
\* tables is taken from the first (NamesMixedUp). LIMIT may stop before the row, and an
\* ORDER BY whose key fails leaves the rows as they are.
FailsForItsErrors ==
  ~Grouped(query) /\ ~Aliased(query) =>
    /\ pc = "failed" => \/ \E p \in DOMAIN scans : ~scans[p].found
                        \/ \E d \in seen : Erroneous(d)
                        \/ NamesLost(query, Views(query))
    /\ pc = "done" /\ NoLimit /\ (FilterQueries(query) = {} \/ Quiet)
         /\ ~NamesMixedUp(query, Views(query)) => ~Erroneous(db)

\* With a subquery in WHERE the statement sees many databases: the filter decides every row
\* it returns in one of those that existed while it ran, and drops no row that each of them
\* would have kept.
RowsDecidedInSomeDatabase ==
  pc = "done" /\ Cardinality(FilterQueries(query)) = 1 /\ ~Aliased(query) /\ ~Grouped(query)
    /\ query.query = NoQuery /\ query.limit < 0 /\ query.items = <<>> =>
    \E rows \in {[d \in seen |-> ToSet(Answer(query, Views(query), ValuesIn(d)))]} :
      /\ ToSet(result) \subseteq UNION {rows[d] : d \in seen}
      /\ \A r \in UNION {rows[d] : d \in seen} : (\A d \in seen : r \in rows[d]) => r \in ToSet(result)
=============================================================================
