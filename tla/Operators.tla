------------------------------ MODULE Operators ------------------------------
(***************************************************************************)
(* The physical operators of a SELECT (executor/*Operator.cpp).            *)
(*                                                                         *)
(* An operator is pulled by its parent: open(), then next() until it ends. *)
(* What its parent can observe is a stream: how open() ends, the rows that *)
(* next() yields in order, and how the sequence ends - with EOF, with the  *)
(* error or exception of the first failing evaluation, or at Wait(r), when *)
(* the next pull has to read r from the store first. Each operator is the  *)
(* function from its children's streams to its own.                        *)
(***************************************************************************)
EXTENDS Expressions, SequencesExt

Eof == <<"eof", 0, 1>>

\* The name of a column is the sequence of its dotted parts.
Stream(names, table, rows) ==
  [open |-> Eof, names |-> names, table |-> table, rows |-> rows, end |-> Eof]

\* open() fails, or has to wait.
Broken(outcome) == [Stream(<<>>, "", <<>>) EXCEPT !.open = outcome, !.end = outcome]

\* A map filled by assignments in order: the last one to a key remains.
LastOf(pairs) ==
  [key \in {pairs[i][1] : i \in DOMAIN pairs} |->
     pairs[Max({i \in DOMAIN pairs : pairs[i][1] = key})][2]]

\* Mutant: without short names.
RowContextFullOnly(names, row) ==
  LastOf([i \in 1..Min({Len(names), Len(row)}) |-> <<names[i], row[i]>>])

\* buildRowContext(): a full name overrides, a short name is added only if there is none yet.
RowContext(names, row) ==
  LET n == Min({Len(names), Len(row)})
      full == [i \in 1..n |-> <<names[i], row[i]>>]
      short == SelectSeq(full, LAMBDA p : Len(p[1]) > 1)
  IN  LastOf(Reverse([i \in DOMAIN short |-> <<Tail(short[i][1]), short[i][2]>>]) \o full)

Prefixed(table, names) ==
  [i \in DOMAIN names |-> IF table = "" THEN names[i] ELSE <<table>> \o names[i]]

\* A join assigns every column under its own and its prefixed name, left table first.
JoinContext(left, right, l, r) ==
  LET Both(s, row) ==
        FlattenSeq([i \in 1..Min({Len(s.names), Len(row)}) |->
          <<<<s.names[i], row[i]>>, <<Prefixed(s.table, s.names)[i], row[i]>>>>])
  IN  LastOf(Both(left, l) \o Both(right, r))

\* Only a filter knows the database: elsewhere a subquery reads the database "default".
Unanswered(e) == [q \in SubqueriesOf(e) |-> Refusal]

EvaluateHere(e, context) == Evaluate(e, context, Unanswered(e))

\* Steps are taken in order up to the first that fails; step i adds the rows out[i].
Taken(in, outcome, out) ==
  LET failing == {i \in DOMAIN outcome : Failed(outcome[i])}
      last == IF failing = {} THEN Len(outcome) ELSE Min(failing) - 1
  IN  [in EXCEPT !.rows = FlattenSeq(SubSeq(out, 1, last)),
                 !.end = IF failing = {} THEN @ ELSE outcome[last + 1]]

\* The operators that consume their child in open().
Materialized(in) ==
  IF in.open # Eof THEN Broken(in.open) ELSE IF in.end # Eof THEN Broken(in.end) ELSE in
-----------------------------------------------------------------------------
TableScan(table, content) ==
  IF content.found
  THEN Stream([i \in DOMAIN content.cols |-> <<content.cols[i]>>], table, content.rows)
  ELSE Broken(Err)

\* Mutant: a condition that fails drops the row.
FilterDropsFailed(in, cond, answers) ==
  [in EXCEPT !.rows =
     SelectSeq(@, LAMBDA row : Keeps(EvaluateHere(cond, RowContext(in.names, row))))]

\* answers[q][i] is the answer to subquery q when row i was filtered.
Filter(in, cond, answers) ==
  LET outcome == [i \in DOMAIN in.rows |->
        Evaluate(cond, RowContext(in.names, in.rows[i]),
                 [q \in SubqueriesOf(cond) |->
                    IF i \in DOMAIN answers[q] THEN answers[q][i] ELSE Unasked])]
  IN  Taken(in, outcome,
            [i \in DOMAIN in.rows |-> IF Keeps(outcome[i]) THEN <<in.rows[i]>> ELSE <<>>])

\* Mutant: skipped rows count towards the limit.
LimitCountsSkipped(in, limit, offset) ==
  [in EXCEPT !.rows = SubSeq(@, offset + 1, IF limit >= 0 THEN Min({limit, Len(@)}) ELSE Len(@))]

\* Both counts are of type size_t: a negative one is greater than any number of rows.
Limit(in, limit, offset) ==
  LET skip == IF offset < 0 THEN Len(in.rows) + 1 ELSE offset
      reached == limit >= 0 /\ Len(in.rows) >= skip + limit
  IN  [in EXCEPT !.rows = IF reached THEN SubSeq(@, skip + 1, skip + limit)
                          ELSE SubSeq(@, skip + 1, Len(@)),
                 !.end = IF reached THEN Eof ELSE @]

DeriveColumnName(e) ==
  CASE e.k = "col" -> <<e.column>>
    [] e.k = "lit" -> <<"literal">>
    [] e.k = "fn" -> <<e.name \o "(...)">>
    [] OTHER -> <<"expr">>

\* An aggregate item is taken from the child's row: it has been computed there, at the place
\* of the item counted from the end of the child's columns (an index in size_t).
ProjectItem(in, items, i, row) ==
  LET at == Len(in.names) - Len(items) + i
  IN  IF IsAggregate(items[i]) THEN IF at \in DOMAIN row THEN row[at] ELSE Null
      ELSE EvaluateHere(items[i], RowContext(in.names, row))

FirstFailed(cells) ==
  LET failing == {i \in DOMAIN cells : Failed(cells[i])}
  IN  IF failing = {} THEN Eof ELSE cells[Min(failing)]

Project(in, items) ==
  LET cells == [r \in DOMAIN in.rows |->
                  [i \in DOMAIN items |-> ProjectItem(in, items, i, in.rows[r])]]
      out == Taken(in, [r \in DOMAIN in.rows |-> FirstFailed(cells[r])],
                   [r \in DOMAIN in.rows |-> <<cells[r]>>])
  IN  IF items = <<>> \/ in.open # Eof THEN in
      ELSE [out EXCEPT !.names = [i \in DOMAIN items |-> DeriveColumnName(items[i])]]
-----------------------------------------------------------------------------
(* Sorting. *)

KeyOf(in, orderBy, row) ==
  [k \in DOMAIN orderBy |-> EvaluateHere(orderBy[k].expr, RowContext(in.names, row))]

\* Keys are compared in turn until one decides; a failed evaluation makes "not less".
CompareKeys(orderBy, v, w) ==
  LET bad(k) == Failed(v[k]) \/ Failed(w[k])
      decides == {k \in DOMAIN orderBy :
                    bad(k) \/ ~Comparable(v[k], w[k]) \/ CompareTo(v[k], w[k]) # 0}
      k1 == Min(decides)
  IN  CASE decides = {} -> Boolean(FALSE)
        [] decides # {} /\ bad(k1) ->
             IF Throw \in {v[k1], w[k1]} THEN Throw ELSE Boolean(FALSE)
        [] decides # {} /\ ~bad(k1) /\ ~Comparable(v[k1], w[k1]) -> Throw
        [] OTHER -> LET c == CompareTo(v[k1], w[k1])
                    IN  Boolean(IF orderBy[k1].asc \/ IsNull(v[k1]) \/ IsNull(w[k1])
                                THEN c < 0 ELSE c > 0)

CompareRows(in, orderBy, a, b) ==
  CompareKeys(orderBy, KeyOf(in, orderBy, a), KeyOf(in, orderBy, b))

\* std::sort of up to 16 rows (libstdc++) is an insertion sort, and stable: a row moves left
\* past the greater ones. The order of equal rows among more than 16 is not modelled.
InsertRow(in, orderBy, sorted, row) ==
  LET stays == {i \in DOMAIN sorted : ~GetBool(CompareRows(in, orderBy, row, sorted[i]))}
      at == IF stays = {} THEN 0 ELSE Max(stays)
  IN  SubSeq(sorted, 1, at) \o <<row>> \o SubSeq(sorted, at + 1, Len(sorted))

Sort(input, orderBy) ==
  LET in == Materialized(input)
      throws == \E i, j \in DOMAIN in.rows :
                  i < j /\ CompareRows(in, orderBy, in.rows[j], in.rows[i]) = Throw
  IN  IF throws THEN Broken(Throw)
      ELSE [in EXCEPT !.rows =
              FoldLeft(LAMBDA sorted, row : InsertRow(in, orderBy, sorted, row), <<>>, @)]
-----------------------------------------------------------------------------
(* Aggregation. *)

AsDouble(v) == Double(v[2], v[3])

SumOf(values) ==
  FoldLeft(LAMBDA sum, v : IF IsNumber(v) THEN DoubleArithmetic(sum, "+", AsDouble(v)) ELSE sum,
           Double(0, 1), values)

\* The first of the values that no other one is less (for MIN) or greater (for MAX) than.
Extreme(values, sign) ==
  IF \E i, j \in DOMAIN values : i < j /\ ~Comparable(values[i], values[j]) THEN Throw
  ELSE values[Min({i \in DOMAIN values :
                     \A j \in DOMAIN values : sign * CompareTo(values[j], values[i]) >= 0})]

\* addValue() for each row of the group, then compute(): COUNT counts nulls too.
ComputeAggregate(name, values) ==
  LET known == SelectSeq(values, LAMBDA v : ~IsNull(v))
  IN  CASE name = "COUNT" -> BigInt(Len(values))
        [] name # "COUNT" /\ known = <<>> -> Null
        [] name = "SUM" /\ known # <<>> -> SumOf(known)
        [] name = "AVG" /\ known # <<>> ->
             DoubleArithmetic(SumOf(known), "/", Double(Len(known), 1))
        [] name = "MIN" /\ known # <<>> -> Extreme(known, 1)
        [] name = "MAX" /\ known # <<>> -> Extreme(known, -1)

AggregateArgument(f) == IF f.args = <<>> THEN NoExpr ELSE f.args[1]

\* The row of each row's group: the key, then the aggregates of the arguments.
GroupRows(key, arg, aggregates) ==
  LET Members(r) == SelectSeq([i \in DOMAIN key |-> i], LAMBDA i : key[i] = key[r])
      ArgumentsIn(members, a) == [m \in DOMAIN members |-> arg[members[m]][a]]
  IN  [r \in DOMAIN key |-> key[r] \o
         [a \in DOMAIN aggregates |-> ComputeAggregate(aggregates[a].name, ArgumentsIn(Members(r), a))]]

\* The groups in the order of their first rows. Keys and arguments are evaluated before the
\* first aggregate is computed.
GroupsInOrder(in, key, arg, group) ==
  LET evaluated == FirstFailed([r \in DOMAIN key |-> FirstFailed(key[r] \o arg[r])])
      computed == FirstFailed([r \in DOMAIN key |-> FirstFailed(group[r])])
  IN  IF evaluated # Eof THEN Broken(evaluated)
      ELSE IF computed # Eof THEN Broken(computed)
      ELSE [in EXCEPT !.rows = FlattenSeq([r \in DOMAIN key |->
              IF \E i \in 1..(r - 1) : key[i] = key[r] THEN <<>> ELSE <<group[r]>>])]

BuildGroups(in, groupBy, aggregates) ==
  LET Evaluated(exprs) ==
        [r \in DOMAIN in.rows |-> [e \in DOMAIN exprs |->
           EvaluateHere(exprs[e], RowContext(in.names, in.rows[r]))]]
      arguments == [a \in DOMAIN aggregates |-> AggregateArgument(aggregates[a])]
      key == Evaluated(groupBy)
      arg == Evaluated(arguments)
  IN  GroupsInOrder(in, key, arg, GroupRows(key, arg, aggregates))

\* HAVING names the columns of the group row by the column names of the child.
Having(groups, names, having) ==
  LET outcome == [r \in DOMAIN groups.rows |->
                    IF having = NoExpr THEN Boolean(TRUE)
                    ELSE EvaluateHere(having, RowContext(groups.names, groups.rows[r]))]
      kept == [r \in DOMAIN groups.rows |->
                 IF Keeps(outcome[r]) THEN <<groups.rows[r]>> ELSE <<>>]
  IN  IF groups.open # Eof THEN groups
      ELSE [Taken(groups, outcome, kept) EXCEPT !.names = names]

GroupNames(groupBy, aggregates) ==
  [g \in DOMAIN groupBy |->
     IF groupBy[g].k = "col" THEN <<groupBy[g].column>> ELSE <<"group_expr">>]
    \o [a \in DOMAIN aggregates |-> <<aggregates[a].name \o "(...)">>]

Aggregate(input, groupBy, aggregates, having) ==
  LET in == Materialized(input)
  IN  IF in.open # Eof THEN in
      ELSE Having(BuildGroups(in, groupBy, aggregates), GroupNames(groupBy, aggregates), having)
-----------------------------------------------------------------------------
(* Joins and subqueries in FROM. *)

Nulls(n) == [i \in 1..n |-> Null]

\* Row i of the left table meets every row of the right table, then its step Len + 1: a left
\* join pads it there when it met no match. A right join ends with its unmatched right rows.
Join(left, right, cond, type) ==
  LET steps == Len(right.rows) + 1
      LeftOf(s) == ((s - 1) \div steps) + 1
      RightOf(s) == ((s - 1) % steps) + 1
      outcome == [s \in 1..(Len(left.rows) * steps) |->
        IF cond = NoExpr \/ RightOf(s) = steps THEN Boolean(RightOf(s) # steps)
        ELSE LET l == left.rows[LeftOf(s)]  r == right.rows[RightOf(s)]
             IN  EvaluateHere(cond, JoinContext(left, right, l, r))]
      Met(i) == \E s \in DOMAIN outcome : LeftOf(s) = i /\ Keeps(outcome[s])
      out == [s \in DOMAIN outcome |->
        CASE Keeps(outcome[s]) -> <<left.rows[LeftOf(s)] \o right.rows[RightOf(s)]>>
          [] RightOf(s) = steps /\ type = "LEFT" /\ ~Met(LeftOf(s)) ->
               <<left.rows[LeftOf(s)] \o Nulls(Len(right.names))>>
          [] OTHER -> <<>>]
      pairs == Taken(left, outcome, out)
      lonely == SelectSeq([j \in DOMAIN right.rows |-> j],
                  LAMBDA j : ~\E s \in DOMAIN outcome : RightOf(s) = j /\ Keeps(outcome[s]))
  IN  IF left.open # Eof THEN Broken(left.open)
      ELSE IF Materialized(right).open # Eof THEN Materialized(right)
      ELSE [pairs EXCEPT
              !.names = Prefixed(left.table, left.names) \o Prefixed(right.table, right.names),
              !.rows = IF type = "RIGHT" /\ pairs.end = Eof
                       THEN @ \o [k \in DOMAIN lonely |->
                                    Nulls(Len(left.names)) \o right.rows[lonely[k]]]
                       ELSE @]

SubqueryScan(input, alias) ==
  LET in == Materialized(input)
  IN  IF in.open # Eof THEN in
      ELSE [in EXCEPT !.names = Prefixed(alias, @), !.table = alias]
=============================================================================
