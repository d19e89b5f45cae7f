-------------------------------- MODULE Query --------------------------------
(***************************************************************************)
(* What a SELECT means: the reference that Select.tla is checked against.  *)
(* Rows are found by their tables and columns, never by concatenated       *)
(* names; a join is a set of pairs of row numbers; sorting is by rank;     *)
(* AND, OR and NOT are three-valued. Grouping is left out (Grouped).       *)
(*                                                                         *)
(* A row of a joined relation is an environment: the alias (or else name)  *)
(* of each table to a function from its columns to values.                 *)
(***************************************************************************)
EXTENDS Planner

Entry(content, row) ==
  [c \in ToSet(content.cols) |->
     row[CHOOSE i \in DOMAIN content.cols : content.cols[i] = c]]

Blank(content) == [c \in ToSet(content.cols) |-> Null]

Known(table, alias) == IF alias = "" THEN table ELSE alias

\* The name of the table at place t: 0 for FROM, then the joins.
TableAt(s, t) == IF t = 0 THEN Known(s.from, s.alias) ELSE Known(s.joins[t].table, s.joins[t].alias)

\* The tables that a column may belong to.
Owners(e, env) ==
  {t \in DOMAIN env : e.column \in DOMAIN env[t] /\ (e.table = "" \/ e.table = t)}

And(p, q) == IF Boolean(FALSE) \in {p, q} THEN Boolean(FALSE)
             ELSE IF Null \in {p, q} THEN Null ELSE Boolean(TRUE)
Not(p) == IF p = Null THEN Null ELSE Boolean(p = Boolean(FALSE))
Or(p, q) == Not(And(Not(p), Not(q)))

\* A value that an operand of AND, OR or NOT stands for.
Truth(v) == IF IsNull(v) THEN Null ELSE Boolean(v[2] # 0)

\* values maps a subquery to the set of its values; NULL is in a set like any value.
RECURSIVE Meaning(_, _, _)
Meaning(e, env, values) ==
  LET Of(x) == Meaning(x, env, values)
  IN CASE e.k = "lit" -> e.val
       [] e.k = "col" /\ Cardinality(Owners(e, env)) = 1 ->
            env[CHOOSE t \in Owners(e, env) : TRUE][e.column]
       [] e.k = "bin" ->
            LET v == Of(e.l)  w == Of(e.r)
            IN  CASE Failed(v) \/ Failed(w) -> Err
                  [] ~Failed(v) /\ ~Failed(w) /\ e.op = "AND" -> And(Truth(v), Truth(w))
                  [] ~Failed(v) /\ ~Failed(w) /\ e.op = "OR" -> Or(Truth(v), Truth(w))
                  [] OTHER -> EvaluateBinary(v, e.op, w)
       [] e.k = "un" /\ e.op = "NOT" ->
            IF Failed(Of(e.e)) THEN Err ELSE Not(Truth(Of(e.e)))
       [] e.k = "in" -> IF Failed(Of(e.l)) THEN Err
                        ELSE Boolean((Of(e.l) \in values[e.query]) # e.negated)
       [] e.k = "exists" -> Boolean((values[e.query] # {}) # e.negated)
       [] OTHER -> Err

True(cond, env, values) ==
  cond = NoExpr \/ Meaning(cond, env, values) = Boolean(TRUE)

NoValues == [q \in {} |-> {}]
-----------------------------------------------------------------------------
\* All <<i, j>> of (1..n) \X (0..m), in lexicographic order.
Grid(n, m) == [k \in 1..(n * (m + 1)) |-> <<((k - 1) \div (m + 1)) + 1, (k - 1) % (m + 1)>>]

\* Left row i with right row j for each match; <<i, 0>> and <<n + 1, j>> are padded rows.
JoinRelation(envs, content, join, blank) ==
  LET n == Len(envs)
      name == Known(join.table, join.alias)
      Pair(i, j) == (IF i > n THEN blank ELSE envs[i])
                    @@ (name :> IF j = 0 THEN Blank(content) ELSE Entry(content, content.rows[j]))
      match == {p \in (1..n) \X DOMAIN content.rows : True(join.on, Pair(p[1], p[2]), NoValues)}
      pads == (IF join.type = "LEFT"
               THEN {<<i, 0>> : i \in {k \in 1..n : \A p \in match : p[1] # k}} ELSE {})
              \cup (IF join.type = "RIGHT"
               THEN {<<n + 1, j>> : j \in {k \in DOMAIN content.rows : \A p \in match : p[2] # k}}
               ELSE {})
      order == SelectSeq(Grid(n + 1, Len(content.rows)), LAMBDA p : p \in match \cup pads)
  IN  [k \in DOMAIN order |-> Pair(order[k][1], order[k][2])]

\* views holds the contents of the tables: of FROM, then of each join.
RECURSIVE Relation(_, _, _)
Relation(s, views, n) ==
  LET blank == [t \in {TableAt(s, k) : k \in 0..(n - 1)} |->
                  Blank(views[(CHOOSE k \in 0..(n - 1) : TableAt(s, k) = t) + 1])]
  IN  IF n = 0
      THEN [i \in DOMAIN views[1].rows |-> TableAt(s, 0) :> Entry(views[1], views[1].rows[i])]
      ELSE JoinRelation(Relation(s, views, n - 1), views[n + 1], s.joins[n], blank)

\* Row i, with the keys v, comes before row j, with w: NULL first, then by the keys in turn,
\* then as they came, which std::sort keeps for up to 16 rows only (Operators, Sort).
Precedes(orderBy, v, w, i, j) ==
  LET Decides(k) == CompareTo(v[k], w[k]) # 0 /\ \A m \in 1..(k - 1) : CompareTo(v[m], w[m]) = 0
      Less(k) == IF IsNull(v[k]) \/ IsNull(w[k]) \/ orderBy[k].asc
                 THEN CompareTo(v[k], w[k]) < 0 ELSE CompareTo(v[k], w[k]) > 0
  IN  IF \E k \in DOMAIN orderBy : Decides(k) THEN \E k \in DOMAIN orderBy : Decides(k) /\ Less(k)
      ELSE i < j

EveryColumn(env, s, views) ==
  FlattenSeq([n \in 1..Len(views) |->
    [c \in DOMAIN views[n].cols |-> env[TableAt(s, n - 1)][views[n].cols[c]]]])

Sorted(envs, orderBy) ==
  LET keys == [i \in DOMAIN envs |->
                 [k \in DOMAIN orderBy |-> Meaning(orderBy[k].expr, envs[i], NoValues)]]
      order == SortSeq([i \in DOMAIN envs |-> i],
                       LAMBDA i, j : Precedes(orderBy, keys[i], keys[j], i, j))
  IN  [n \in DOMAIN order |-> envs[order[n]]]

Page(envs, limit, offset) ==
  LET rest == SubSeq(envs, Max({offset, 0}) + 1, Len(envs))
  IN  IF limit < 0 THEN rest ELSE SubSeq(rest, 1, Min({limit, Len(rest)}))

Chosen(s, views, values) ==
  Sorted(SelectSeq(Relation(s, views, Len(s.joins)), LAMBDA env : True(s.where, env, values)),
         s.orderBy)

\* The answer to a statement without grouping.
Answer(s, views, values) ==
  LET page == Page(Chosen(s, views, values), s.limit, s.offset)
  IN  [n \in DOMAIN page |->
         IF s.items = <<>> THEN EveryColumn(page[n], s, views)
         ELSE [c \in DOMAIN s.items |-> Meaning(s.items[c], page[n], NoValues)]]

\* A subquery in FROM is the table of its answer.
Derived(s, views) ==
  [found |-> TRUE, rows |-> Answer(s, views, NoValues),
   cols |-> IF s.items = <<>> THEN views[1].cols
            ELSE [c \in DOMAIN s.items |-> s.items[c].column]]

\* A table is missing, or some evaluation that the answer rests on fails: of a condition, in
\* any row; of the list, in the rows that are chosen, up to the last one of the page.
HasError(s, views, values) ==
  \/ \E n \in DOMAIN views : ~views[n].found
  \/ s.where # NoExpr /\ \E env \in ToSet(Relation(s, views, Len(s.joins))) :
       Failed(Meaning(s.where, env, values))
  \/ \E env \in ToSet(Page(Chosen(s, views, values), IF s.limit < 0 THEN -1
                           ELSE s.limit + Max({s.offset, 0}), 0)), c \in DOMAIN s.items :
       Failed(Meaning(s.items[c], env, NoValues))
  \/ \E n \in 1..Len(s.joins) : s.joins[n].on # NoExpr /\
       \E env \in ToSet(Relation(s, views, n - 1)), j \in DOMAIN views[n + 1].rows :
         Failed(Meaning(s.joins[n].on,
                        env @@ (TableAt(s, n) :> Entry(views[n + 1], views[n + 1].rows[j])), NoValues))
-----------------------------------------------------------------------------
(* Statements that the code does not take for what they mean. *)

Grouped(s) == s.groupBy # <<>> \/ \E i \in DOMAIN s.items : s.items[i].k = "fn"

\* A table, not a subquery, has an alias.
Aliased(s) ==
  (s.query = NoQuery /\ s.alias # "") \/ \E i \in DOMAIN s.joins : s.joins[i].alias # ""

RECURSIVE ColumnsOf(_)
ColumnsOf(e) ==
  CASE e.k = "col" -> {e}
    [] e.k = "bin" -> ColumnsOf(e.l) \cup ColumnsOf(e.r)
    [] e.k = "un" -> ColumnsOf(e.e)
    [] e.k = "fn" -> UNION {ColumnsOf(e.args[i]) : i \in DOMAIN e.args}
    [] e.k = "in" -> ColumnsOf(e.l)
    [] OTHER -> {}

\* The columns that a statement names, each with the number of joins where it does so.
Named(s) ==
  UNION {{n} \X ColumnsOf(s.joins[n].on) : n \in 1..Len(s.joins)}
  \cup {Len(s.joins)} \X
    (ColumnsOf(s.where) \cup UNION {ColumnsOf(s.items[c]) : c \in DOMAIN s.items}
                       \cup UNION {ColumnsOf(s.orderBy[k].expr) : k \in DOMAIN s.orderBy})

Places(views, n, column) == {t \in 0..n : column \in ToSet(views[t + 1].cols)}
PlacesOf(s, views, n, e) ==
  {t \in Places(views, n, e.column) : e.table \in {"", TableAt(s, t)}}

\* Each join puts the name of its left table before all the names on its left, and the names
\* of a subquery in FROM have its alias already: so many stand before a column of table t.
TablesBefore(s, t, n) ==
  IF t = 0 THEN n + (IF s.query = NoQuery THEN 0 ELSE 1) ELSE n - t + 1

\* A column with one owner has got another name meanwhile: a second prefix hides it, a third
\* hides it even where its table is named.
NamesLost(s, views) ==
  \E <<n, e>> \in Named(s) : \E t \in 0..n :
    /\ PlacesOf(s, views, n, e) = {t}
    /\ TablesBefore(s, t, n) > (IF e.table = "" THEN 1 ELSE 2)

\* A column of two tables, or one of another table than the one named: the code takes what
\* it finds.
NamesMixedUp(s, views) ==
  \E <<n, e>> \in Named(s) :
    Places(views, n, e.column) # {} /\ Cardinality(PlacesOf(s, views, n, e)) # 1
=============================================================================
