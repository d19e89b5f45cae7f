------------------------------- MODULE Planner -------------------------------
(***************************************************************************)
(* From a SELECT statement to its plan and to the operators that run it    *)
(* (optimizer/PlanGenerator.cpp, as QueryOptimizer::optimize() calls it:   *)
(* rewriting, rules and costs are switched off there), and the subqueries  *)
(* of WHERE (ExpressionEvaluator::executeSubquery).                        *)
(***************************************************************************)
EXTENDS Operators

NoQuery == [from |-> ""]

\* A statement as the parser leaves it: joins without an ON have the condition NoExpr, no
\* LIMIT and no OFFSET is -1. DISTINCT and the alias of a table are parsed and not used.
Select(items, from) ==
  [items |-> items, distinct |-> FALSE, from |-> from, alias |-> "", query |-> NoQuery,
   joins |-> <<>>, where |-> NoExpr, groupBy |-> <<>>, having |-> NoExpr, orderBy |-> <<>>,
   limit |-> -1, offset |-> -1]

JoinClause(type, table, alias, on) == [type |-> type, table |-> table, alias |-> alias, on |-> on]
OrderBy(expr, asc) == [expr |-> expr, asc |-> asc]

AggregatesOf(items) == SelectSeq(items, IsAggregate)
-----------------------------------------------------------------------------
(* Plans. A scan is known by its path, so that a table scanned twice is read twice. *)

Node(op, child, detail) == [op |-> op, child |-> child, detail |-> detail]
ScanNode(table, path) == Node("TableScan", <<>>, [table |-> table, path |-> path])

RECURSIVE Generate(_, _)
Generate(s, path) ==
  LET scan == IF s.query # NoQuery
              THEN Node("SubqueryScan", <<Generate(s.query, path \o <<0>>)>>, [alias |-> s.alias])
              ELSE ScanNode(s.from, path \o <<0>>)
      Joined[n \in 0..Len(s.joins)] ==
        IF n = 0 THEN scan
        ELSE Node("NestedLoopJoin",
                  <<Joined[n - 1], ScanNode(s.joins[n].table, path \o <<n>>)>>,
                  [type |-> s.joins[n].type, cond |-> s.joins[n].on])
      joined == Joined[Len(s.joins)]
      filtered == IF s.where = NoExpr THEN joined
                  ELSE Node("Filter", <<joined>>, [cond |-> s.where])
      callsFunction == \E i \in DOMAIN s.items : s.items[i].k = "fn"
      grouped == IF ~callsFunction /\ s.groupBy = <<>> THEN filtered
                 ELSE Node("Aggregate", <<filtered>>,
                           [groupBy |-> s.groupBy, projections |-> <<>>, having |-> s.having])
      sorted == IF s.orderBy = <<>> THEN grouped
                ELSE Node("Sort", <<grouped>>, [orderBy |-> s.orderBy])
      projected == Node("Project", <<sorted>>, [items |-> s.items])
  IN  IF s.limit >= 0 \/ s.offset > 0
      THEN Node("Limit", <<projected>>, [limit |-> s.limit, offset |-> s.offset])
      ELSE projected

\* Every join type but LEFT and RIGHT runs as an inner join.
ParseJoinType(type) == IF type \in {"LEFT", "RIGHT"} THEN type ELSE "INNER"

\* The operators of a plan, pulled to the end: scans holds what the scans have read so far,
\* answers the answers of subqueries.
RECURSIVE Materialize(_, _, _)
Materialize(plan, scans, answers) ==
  LET d == plan.detail
      Child(i) == Materialize(plan.child[i], scans, answers)
  IN  CASE plan.op = "TableScan" ->
             IF d.path \in DOMAIN scans THEN TableScan(d.table, scans[d.path])
             ELSE Broken(Wait(<<"scan", d.table, d.path>>))
        [] plan.op = "SubqueryScan" -> SubqueryScan(Child(1), d.alias)
        [] plan.op = "NestedLoopJoin" -> Join(Child(1), Child(2), d.cond, ParseJoinType(d.type))
        [] plan.op = "Filter" -> Filter(Child(1), d.cond, answers)
        [] plan.op = "Aggregate" ->
             Aggregate(Child(1), d.groupBy, AggregatesOf(d.projections), d.having)
        [] plan.op = "Sort" -> Sort(Child(1), d.orderBy)
        [] plan.op = "Project" -> Project(Child(1), d.items)
        [] plan.op = "Limit" -> Limit(Child(1), d.limit, IF d.offset >= 0 THEN d.offset ELSE 0)

-----------------------------------------------------------------------------
\* A subquery of WHERE knows one table, WHERE, aggregates or a projection, and LIMIT.
ItemsOf(q, in) ==
  IF AggregatesOf(q.items) # <<>>
  THEN Aggregate(in, q.groupBy, AggregatesOf(q.items), NoExpr) ELSE Project(in, q.items)

\* Its answer is the first column.
FirstColumn(out) ==
  LET full == SelectSeq(out.rows, LAMBDA r : r # <<>>)
  IN  IF out.open = Eof /\ out.end = Eof THEN Values([i \in DOMAIN full |-> full[i][1]])
      ELSE Refusal

\* db maps the tables to their contents.
RECURSIVE ExecuteSubquery(_, _)
ExecuteSubquery(q, db) ==
  LET scan == TableScan(q.from, db[q.from])
      inner == [s \in SubqueriesOf(q.where) |->
                  [i \in DOMAIN scan.rows |-> ExecuteSubquery(s, db)]]
      listed == ItemsOf(q, IF q.where = NoExpr THEN scan ELSE Filter(scan, q.where, inner))
  IN  IF q.from = "" THEN IF q.query = NoQuery THEN Values(<<>>) ELSE Refusal
      ELSE FirstColumn(IF q.limit < 0 THEN listed ELSE Limit(listed, q.limit, q.offset))
=============================================================================
