------------------------------ MODULE FrontendMC ------------------------------
\* Names, literals, statements and openings for Frontend.tla.
EXTENDS Frontend

MCIdentifiers == {"a", "b", "t", "u", "f"}
MCLiterals == [word \in {"0", "1", "2", "1.5", "'x'"} |->
  CASE word = "0" -> Int32(0) [] word = "1" -> Int32(1) [] word = "2" -> Int32(2)
    [] word = "1.5" -> Double(3, 2) [] word = "'x'" -> Name(1)]

Opening(tokens, alphabet, more) == [tokens |-> tokens, alphabet |-> alphabet, more |-> more]

MCOpenings ==
  {Opening(Deletes, {"a", "1", "NOT", "AND", "=", "-", "*", "(", ")"}, 5),
   Opening(Deletes, {"a", "0", "2", "OR", "AND", "/", "+"}, 6),
   Opening(Deletes, {"a", "f", "1.5", ".", ",", "(", ")", "+"}, 6),
   Opening(<<"CREATE", "TABLE", "t", "(", "a", "INT">>,
           {"b", "INT", "VARCHAR", "1", "(", ")", ",", "UNIQUE", "NOT", "NULL"}, 5),
   Opening(<<"CREATE", "TABLE", "t", "(">>,
           {"a", "(", ")", ",", "FOREIGN", "REFERENCES"}, 7)}

MCRows == {(<<"a">> :> v) : v \in {Null, Int32(0), Int32(1), Int32(3)}}

A == Col("", "a")
One == Lit(Int32(1))
Sum == Bin(A, "+", Un("-", Bin(One, "*", Col("u", "b"))))
Test == Bin(Un("NOT", Bin(A, "<=", One)), "OR", Bin(Col("t", "a"), "=", Lit(Name(1))))

From(items, table) == [SelectNode EXCEPT !.items = items, !.from = table]
Inner == [From(<<A>>, "u") EXCEPT !.where = Bin(A, ">", Un("-", One)), !.limit = 2]
Tests == {NoExpr, Test, In(A, Inner, FALSE), Bin(In(Sum, Inner, TRUE), "AND", Test)}

On(type, table, alias, on) == JoinClause(type, table, alias, on)
Joins ==
  {<<>>, <<On("INNER", "u", "", Bin(A, "=", Col("u", "a")))>>,
   <<On("LEFT", "u", "b", Test), On("CROSS", "t", "", NoExpr)>>,
   <<On("FULL", "u", "", Test), On("RIGHT", "t", "f", In(A, Inner, FALSE))>>}

\* FROM: the table and its database, or a subquery, and the alias.
Sources ==
  {[from |-> "t", database |-> "", query |-> NoQuery, alias |-> ""],
   [from |-> "t", database |-> "b", query |-> NoQuery, alias |-> "u"],
   [from |-> "", database |-> "", query |-> Inner, alias |-> "u"]}
Groups == {[by |-> <<>>, having |-> NoExpr], [by |-> <<A, Sum>>, having |-> NoExpr],
           [by |-> <<A>>, having |-> Bin(Fn("f", <<A>>), ">", One)]}
Orders == {<<>>, <<OrderBy(Sum, FALSE), OrderBy(A, TRUE)>>}

Query(items, source, joins, where, group, order, limit) ==
  [SelectNode EXCEPT !.items = items, !.distinct = (items # <<>>), !.from = source.from,
     !.database = source.database, !.query = source.query, !.alias = source.alias,
     !.joins = joins, !.where = where, !.groupBy = group.by, !.having = group.having,
     !.orderBy = order, !.limit = limit[1], !.offset = limit[2]]

Lists == {<<>>, <<A, Fn("f", <<Sum, Lit(Star)>>)>>}
Limits == {<<-1, -1>>, <<2, 1>>, <<-1, 0>>}
NoGroups == [by |-> <<>>, having |-> NoExpr]
Table == [from |-> "t", database |-> "", query |-> NoQuery, alias |-> ""]

Queries ==
  {Query(items, source, joins, where, NoGroups, <<>>, <<-1, -1>>) :
     items \in Lists, source \in Sources, joins \in Joins, where \in {NoExpr, Test}}
  \cup {Query(<<>>, Table, joins, where, group, order, limit) :
          joins \in {<<>>, <<On("CROSS", "u", "b", NoExpr)>>}, where \in Tests,
          group \in Groups, order \in Orders, limit \in Limits}

Column(name, type, length, flag) ==
  [ColumnNode EXCEPT !.name = name, !.type = type, !.length = length, !.notNull = flag,
     !.unique = flag, !.primaryKey = ~flag, !.autoIncrement = flag]
Reference == [column |-> "a", refTable |-> "u", refColumn |-> "b"]

MCStatements ==
  {[stmt |-> "select", query |-> q] : q \in Queries}
  \cup {[stmt |-> "explain", query |-> q] : q \in {Inner, From(<<>>, "t")}}
  \cup {[stmt |-> "insert", table |-> "t", columns |-> columns, rows |-> rows] :
          columns \in {<<>>, <<"a", "b">>},
          rows \in {<<<<One>>>>, <<<<Lit(Name(1)), Sum>>, <<Fn("f", <<>>), One>>>>}}
  \cup {[stmt |-> "update", table |-> "t", assignments |-> list, where |-> where] :
          list \in {<<<<"a", One>>>>, <<<<"a", Sum>>, <<"b", Test>>>>}, where \in Tests}
  \cup {[stmt |-> "delete", table |-> "t", where |-> where] : where \in Tests}
  \cup {[stmt |-> "use", database |-> "b"], [stmt |-> "show", objectType |-> "TABLES"],
        [stmt |-> "describe", table |-> "t"], [stmt |-> "analyze", table |-> "t"],
        [stmt |-> "create database", database |-> "b", ifNotExists |-> FALSE]}
  \cup {[stmt |-> "create index", name |-> "f", table |-> "t", columns |-> columns,
         unique |-> unique, ifNotExists |-> FALSE] :
          columns \in {<<"a">>, <<"a", "b">>}, unique \in BOOLEAN}
  \cup {[stmt |-> "create table", table |-> "t", columns |-> columns, indexes |-> <<>>,
         foreignKeys |-> keys, ifNotExists |-> FALSE] :
          columns \in {<<Column("a", "INT", 0, TRUE)>>,
                       <<Column("a", "INT", 0, FALSE), Column("b", "VARCHAR", 2, TRUE)>>},
          keys \in {<<>>, <<Reference>>, <<Reference, [Reference EXCEPT !.refColumn = ""]>>}}
  \cup {[stmt |-> "drop", objectType |-> type, name |-> "t", ifExists |-> FALSE] :
          type \in {"TABLE", "DATABASE", "INDEX"}}

=============================================================================
