------------------------------- MODULE Grammar -------------------------------
(***************************************************************************)
(* What the texts of statements mean: the reference that Parser.tla is     *)
(* checked against. Conditions are derived by a grammar, statements are    *)
(* written out from their trees.                                           *)
(***************************************************************************)
EXTENDS Parser, Rewriter

\* The trees that a level of the grammar derives from a sequence of tokens:
\*    binary level  ::=  next level  |  binary level  operator  next level
\*    prefix level  ::=  next level  |  operator  prefix level
\*    primary       ::=  literal  |  *  |  name  |  name . name  |  ( expression )
\*                    |  name ( [expression {, expression}] )
RECURSIVE DerivedFrom(_, _), DerivedLists(_)

DerivedPrimaries(s) ==
  LET n == Len(s)
      inside == SubSeq(s, 2, n - 1)
  IN  CASE n = 1 -> {Lit(Literals[t]) : t \in {s[1]} \cap DOMAIN Literals}
                    \cup {Lit(Star) : t \in {s[1]} \cap {"*"}}
                    \cup {Col("", t) : t \in {s[1]} \cap Identifiers}
        [] n = 3 /\ s[2] = "." -> IF s[1] \in Identifiers /\ s[3] \in Words
                                  THEN {Col(s[1], s[3])} ELSE {}
        [] n > 2 /\ s[1] = "(" /\ s[n] = ")" -> DerivedFrom(1, inside)
        [] n > 2 /\ s[1] \in Identifiers /\ s[2] = "(" /\ s[n] = ")" ->
             {Fn(s[1], args) : args \in DerivedLists(SubSeq(s, 3, n - 1))}
        [] OTHER -> {}

DerivedLists(s) ==
  IF s = <<>> THEN {<<>>}
  ELSE {<<e>> : e \in DerivedFrom(1, s)}
       \cup UNION {{<<e>> \o rest : e \in DerivedFrom(1, SubSeq(s, 1, k - 1)),
                                   rest \in DerivedLists(SubSeq(s, k + 1, Len(s))) \ {<<>>}} :
                   k \in {i \in DOMAIN s : s[i] = ","}}

DerivedFrom(level, s) ==
  LET at == {k \in DOMAIN s : s[k] \in OperatorsOf[level]}
  IN  IF s = <<>> THEN {} ELSE IF level = 8 THEN DerivedPrimaries(s)
      ELSE DerivedFrom(level + 1, s) \cup
           (IF level \in Prefix
            THEN IF 1 \in at THEN {Un(s[1], e) : e \in DerivedFrom(level, Tail(s))} ELSE {}
            ELSE UNION {{Bin(l, s[k], r) : l \in DerivedFrom(level, SubSeq(s, 1, k - 1)),
                                           r \in DerivedFrom(level + 1, SubSeq(s, k + 1, Len(s)))} :
                        k \in at})
-----------------------------------------------------------------------------
(* Statements, written out; with full, the words that may be left out are there. *)

Separated(texts) ==
  FlattenSeq([i \in DOMAIN texts |-> IF i = 1 THEN texts[i] ELSE <<",">> \o texts[i]])
Enclosed(texts) == <<"(">> \o Separated(texts) \o <<")">>
Named(names) == [i \in DOMAIN names |-> <<names[i]>>]
Optional(present, text) == IF present THEN text ELSE <<>>

TokenOf(v) == CHOOSE t \in DOMAIN Literals : Literals[t] = v

RECURSIVE Written(_), WrittenQuery(_, _)
Written(e) ==
  CASE e.k = "lit" -> IF e.val = Star THEN <<"*">> ELSE <<TokenOf(e.val)>>
    [] e.k = "col" -> Optional(e.table # "", <<e.table, ".">>) \o <<e.column>>
    [] e.k = "bin" -> <<"(">> \o Written(e.l) \o <<e.op>> \o Written(e.r) \o <<")">>
    [] e.k = "un" -> <<"(", e.op>> \o Written(e.e) \o <<")">>
    [] e.k = "fn" -> <<e.name>> \o Enclosed([i \in DOMAIN e.args |-> Written(e.args[i])])
    [] e.k = "in" -> Written(e.l) \o Optional(e.negated, <<"NOT">>) \o <<"IN", "(">>
                       \o WrittenQuery(e.query, FALSE) \o <<")">>

WrittenAll(exprs) == Separated([i \in DOMAIN exprs |-> Written(exprs[i])])
WrittenClause(word, e) == Optional(e # NoExpr, <<word>> \o Written(e))
WrittenCount(word, n) == Optional(n >= 0, <<word, TokenOf(Int32(n))>>)
WrittenAlias(alias, full) == Optional(alias # "", Optional(full, <<"AS">>) \o <<alias>>)

WrittenJoin(j, full) ==
  Optional(full \/ j.type # "INNER", <<j.type>>)
    \o Optional(full /\ j.type \in {"LEFT", "RIGHT", "FULL"}, <<"OUTER">>)
    \o <<"JOIN", j.table>> \o WrittenAlias(j.alias, full) \o WrittenClause("ON", j.on)

WrittenOrder(o, full) ==
  Written(o.expr) \o Optional(~o.asc, <<"DESC">>) \o Optional(o.asc /\ full, <<"ASC">>)

WrittenQuery(q, full) ==
  <<"SELECT">> \o Optional(q.distinct, <<"DISTINCT">>)
    \o (IF q.items = <<>> THEN <<"*">> ELSE WrittenAll(q.items))
    \o <<"FROM">>
    \o (IF q.query # NoQuery THEN <<"(">> \o WrittenQuery(q.query, full) \o <<")">>
        ELSE Optional(q.database # "", <<q.database, ".">>) \o <<q.from>>)
    \o WrittenAlias(q.alias, full)
    \o FlattenSeq([i \in DOMAIN q.joins |-> WrittenJoin(q.joins[i], full)])
    \o WrittenClause("WHERE", q.where)
    \o Optional(q.groupBy # <<>>, <<"GROUP", "BY">> \o WrittenAll(q.groupBy))
    \o WrittenClause("HAVING", q.having)
    \o Optional(q.orderBy # <<>>, <<"ORDER", "BY">> \o
                Separated([i \in DOMAIN q.orderBy |-> WrittenOrder(q.orderBy[i], full)]))
    \o WrittenCount("LIMIT", q.limit) \o WrittenCount("OFFSET", q.offset)

WrittenColumn(col) ==
  <<col.name, col.type>> \o Optional(col.length > 0, <<"(", TokenOf(Int32(col.length)), ")">>)
    \o Optional(col.primaryKey, <<"PRIMARY", "KEY">>) \o Optional(col.notNull, <<"NOT", "NULL">>)
    \o Optional(col.unique, <<"UNIQUE">>) \o Optional(col.autoIncrement, <<"AUTO_INCREMENT">>)

WrittenForeignKey(fk) ==
  <<"FOREIGN", "KEY", "(", fk.column, ")", "REFERENCES", fk.refTable>>
    \o Optional(fk.refColumn # "", <<"(", fk.refColumn, ")">>)

WrittenStatement(n, full) ==
  (CASE n.stmt = "select" -> WrittenQuery(n.query, full)
     [] n.stmt = "explain" -> <<"EXPLAIN">> \o WrittenQuery(n.query, full)
     [] n.stmt = "insert" ->
          <<"INSERT", "INTO", n.table>> \o Optional(n.columns # <<>>, Enclosed(Named(n.columns)))
            \o <<"VALUES">>
            \o Separated([r \in DOMAIN n.rows |->
                 Enclosed([i \in DOMAIN n.rows[r] |-> Written(n.rows[r][i])])])
     [] n.stmt = "update" ->
          <<"UPDATE", n.table, "SET">>
            \o Separated([i \in DOMAIN n.assignments |->
                 <<n.assignments[i][1], "=">> \o Written(n.assignments[i][2])])
            \o WrittenClause("WHERE", n.where)
     [] n.stmt = "delete" -> <<"DELETE", "FROM", n.table>> \o WrittenClause("WHERE", n.where)
     [] n.stmt = "use" -> <<"USE", n.database>>
     [] n.stmt = "show" -> <<"SHOW", n.objectType>>
     [] n.stmt = "describe" -> <<"DESC", n.table>>
     [] n.stmt = "analyze" -> <<"ANALYZE", "TABLE", n.table>>
     [] n.stmt = "create database" -> <<"CREATE", "DATABASE", n.database>>
     [] n.stmt = "create index" ->
          <<"CREATE">> \o Optional(n.unique, <<"UNIQUE">>) \o <<"INDEX", n.name, "ON", n.table>>
            \o Enclosed(Named(n.columns))
     [] n.stmt = "create table" ->
          <<"CREATE", "TABLE">> \o Optional(n.ifNotExists, <<"IF", "NOT", "EXISTS">>) \o <<n.table>>
            \o Enclosed([i \in DOMAIN n.columns |-> WrittenColumn(n.columns[i])]
                          \o [i \in DOMAIN n.foreignKeys |-> WrittenForeignKey(n.foreignKeys[i])])
     [] n.stmt = "drop" -> 
          <<"DROP", n.objectType>> \o Optional(n.ifExists, <<"IF", "EXISTS">>) \o <<n.name>>)
  \o Optional(full /\ n.stmt \notin {"explain", "analyze"}, <<";">>)
=============================================================================
