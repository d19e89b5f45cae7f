-------------------------------- MODULE Parser --------------------------------
(***************************************************************************)
(* The recursive-descent parser (parser/Parser.cpp) on the tokens that the *)
(* lexer makes of a request. A token is its value: a keyword, an operator, *)
(* a delimiter, an identifier or a literal.                                *)
(*                                                                         *)
(* Every parse function maps a cursor to a cursor. A cursor is the text,   *)
(* the place of the current token, how parsing stands, the tree of the     *)
(* last expression or subquery, and the statement being filled in. Once it *)
(* is refused (an exception), hangs (a loop that does not move) or is      *)
(* undefined (the behaviour of the C++ program is), it stays as it is.     *)
(***************************************************************************)
EXTENDS Planner

CONSTANTS Identifiers,  \* the names that a text may use
          Literals      \* the literals that it may use, with their values

\* Of Keywords.cpp, the words that the parser asks for and NULL. COLUMN, ADD, MODIFY,
\* CHANGE, RENAME, TO, FORMAT and JSON, which it asks for too, are not there.
Keywords ==
  {"USE", "SHOW", "DATABASES", "TABLES", "DESC", "EXPLAIN", "ANALYZE", "SELECT", "INSERT",
   "UPDATE", "DELETE", "CREATE", "DROP", "ALTER", "TABLE", "DATABASE", "INDEX", "UNIQUE", "KEY",
   "PRIMARY", "FOREIGN", "REFERENCES", "CONSTRAINT", "AUTO_INCREMENT", "IF", "NOT", "EXISTS", "IN",
   "NULL", "FROM", "WHERE", "AND", "OR", "AS", "DISTINCT", "ORDER", "BY", "ASC", "GROUP",
   "HAVING", "LIMIT", "OFFSET", "JOIN", "INNER", "LEFT", "RIGHT", "FULL", "OUTER", "CROSS", "ON",
   "SET", "VALUES", "INTO", "INT", "INTEGER", "VARCHAR", "CHAR", "FLOAT", "DOUBLE", "DATE"}

Comparisons == {"=", "<>", "!=", "<", ">", "<=", ">="}
OperatorTokens == Comparisons \cup {"+", "-", "*", "/", "%", "=="}
Delimiters == {",", ";", "(", ")", "."}

ASSUME TokenAssumption ==
  \A S, T \in {Identifiers, DOMAIN Literals, Keywords, OperatorTokens, Delimiters} :
    S = T \/ S \cap T = {}

Words == Identifiers \cup Keywords
Integers32 == {t \in DOMAIN Literals : Literals[t][1] = "int"}
-----------------------------------------------------------------------------
(* Cursors. *)

EndOfText == "end of text"

StartOf(text) == [text |-> text, at |-> 1, state |-> "parsing", tree |-> NoExpr, node |-> NoQuery]

Token(c) == IF c.at \in DOMAIN c.text THEN c.text[c.at] ELSE EndOfText
Sees(c, tokens) == c.state = "parsing" /\ Token(c) \in tokens
Advance(c) == [c EXCEPT !.at = IF c.state = "parsing" /\ @ \in DOMAIN c.text THEN @ + 1 ELSE @]
Stop(c, state) == [c EXCEPT !.state = IF @ = "parsing" THEN state ELSE @]
Refuse(c) == Stop(c, "refused")

Match(c, token) == IF Sees(c, {token}) THEN Advance(c) ELSE c
ExpectOne(c, tokens) == IF Sees(c, tokens) THEN Advance(c) ELSE Refuse(c)
Expect(c, token) == ExpectOne(c, {token})

\* Fields of the statement.
Put(c, field, value) == [c EXCEPT !.node[field] = IF c.state = "parsing" THEN value ELSE @]
Push(c, field, value) == Put(c, field, Append(c.node[field], value))
Take(c, tokens, field) == IF Sees(c, tokens) THEN Advance(Put(c, field, Token(c))) ELSE c
Need(c, tokens, field) == IF Sees(c, tokens) THEN Take(c, tokens, field) ELSE Refuse(c)

\* The tree is c's, the statement that of the caller; or what was the statement is the tree.
Back(c, caller) == [c EXCEPT !.node = caller.node]
Return(c, caller) == [c EXCEPT !.tree = c.node, !.node = caller.node]

SelectNode == Select(<<>>, "") @@ [database |-> ""]
-----------------------------------------------------------------------------
(* Expressions, by levels of precedence. *)

OperatorsOf == <<{"OR"}, {"AND"}, {"NOT"}, Comparisons, {"+", "-"}, {"*", "/", "%"}, {"-", "+"}>>
Prefix == {3, 7}

\* What parsing comes back to from inside: a level of an expression, a list, a subquery.
RECURSIVE Parse(_, _)
ParseAt(level, c) == Parse(<<"level", level>>, c)
ListOf(kind, c) == Parse(<<"list", kind>>, c)
ParseSelect(c) == Parse(<<"select">>, c)

ParseExpression(c) == Back(ParseAt(1, c), c)

RECURSIVE ParseRest(_, _)

\* Mutant: they associate to the right.
ParseRestRight(level, c) ==
  IF ~Sees(c, OperatorsOf[level]) THEN c
  ELSE LET r == ParseRest(level, ParseAt(level + 1, Advance(c)))
       IN  [r EXCEPT !.tree = Bin(c.tree, Token(c), @)]

\* The operators of a level associate to the left.
ParseRest(level, c) ==
  IF ~Sees(c, OperatorsOf[level]) THEN c
  ELSE LET r == ParseAt(level + 1, Advance(c))
       IN  ParseRest(level, [r EXCEPT !.tree = Bin(c.tree, Token(c), @)])

\* [NOT] IN (SELECT ...) and [NOT] EXISTS (SELECT ...) after an operand. Only IN without
\* NOT refuses what is in its parentheses; otherwise the words that were read are dropped.
ParseTest(c) ==
  LET negated == Sees(c, {"NOT"})
      word == Match(c, "NOT")
      open == Advance(word)
      inner == Advance(open)
      query == Expect(ParseSelect(inner), ")")
  IN  IF ~Sees(word, {"IN", "EXISTS"}) THEN word
      ELSE IF ~Sees(open, {"("}) THEN open
      ELSE IF Sees(inner, {"SELECT"})
           THEN [query EXCEPT !.tree = IF Token(word) = "IN" THEN In(c.tree, @, negated)
                                       ELSE Exists(@, negated)]
      ELSE IF Token(word) = "IN" /\ ~negated THEN Refuse(inner) ELSE inner

ParsePrimary(c) ==
  LET t == Token(c)
      next == Advance(c)
      args == Expect(ListOf("args", [Advance(next) EXCEPT !.node = [args |-> <<>>]]), ")")
      column == Advance(next)
  IN  CASE t \in DOMAIN Literals -> [next EXCEPT !.tree = Lit(Literals[t])]
        [] t = "*" -> [next EXCEPT !.tree = Lit(Star)]
        [] t = "(" -> Expect(ParseExpression(next), ")")
        [] t \in Identifiers /\ Token(next) = "(" -> Back([args EXCEPT !.tree = Fn(t, args.node.args)], c)
        [] t \in Identifiers /\ Token(next) = "." ->
             IF Sees(column, Words) THEN [Advance(column) EXCEPT !.tree = Col(t, Token(column))]
             ELSE Refuse(column)
        [] t \in Identifiers /\ Token(next) \notin {"(", "."} -> [next EXCEPT !.tree = Col("", t)]
        [] OTHER -> Refuse(c)
-----------------------------------------------------------------------------
(* Lists. *)

\* What stops a list before its next element.
AtEnd(kind, c) ==
  Sees(c, CASE kind = "items" -> {"FROM", "AS", EndOfText}
            [] kind = "groupBy" -> {"HAVING", "ORDER", "LIMIT", EndOfText}
            [] kind = "orderBy" -> {"LIMIT", EndOfText}
            [] kind = "assignments" -> {"WHERE", EndOfText}
            [] kind = "args" -> {")"}
            [] kind = "rows" -> Words \cup {EndOfText, ")", ",", ";", "."} \cup OperatorTokens
                                  \cup DOMAIN Literals
            [] OTHER -> {")", EndOfText})

Direction(c) == IF Sees(c, {"ASC", "DESC"}) THEN Advance(c) ELSE c

Element(kind, c) ==
  LET e == ParseExpression(c)
      row == Expect(ListOf("values", [Advance(c) EXCEPT !.node = [values |-> <<>>]]), ")")
      value == ParseExpression(ExpectOne(Advance(c), OperatorTokens))
  IN  CASE kind \in {"items", "groupBy", "values", "args"} -> Push(e, kind, e.tree)
        [] kind = "orderBy" -> Push(Direction(e), kind, OrderBy(e.tree, ~Sees(e, {"DESC"})))
        [] kind = "rows" -> Push(Back(row, c), kind, row.node.values)
        [] kind = "assignments" /\ Sees(c, Words) -> Push(value, kind, <<Token(c), value.tree>>)
        [] kind = "columns" /\ Sees(c, Words) -> Advance(Push(c, kind, Token(c)))
        [] OTHER -> c

\* A comma may end every list but one of arguments.
RECURSIVE ParseList(_, _, _)
MoreOf(kind, c) ==
  IF Sees(c, {","}) THEN ParseList(kind, Advance(c), kind # "args") ELSE c

ParseList(kind, c, mayEnd) ==
  IF mayEnd /\ AtEnd(kind, c) THEN c ELSE MoreOf(kind, Element(kind, c))

Clause(c, word, field) ==
  LET e == ParseExpression(Advance(c)) IN IF Sees(c, {word}) THEN Put(e, field, e.tree) ELSE c

Count(c, word, field) ==
  LET n == Match(c, word)
  IN  IF Sees(c, {word}) /\ Sees(n, Integers32)
      THEN Advance(Put(n, field, Literals[Token(n)][2])) ELSE n
-----------------------------------------------------------------------------
(* SELECT. *)

\* Mutant: AS is needed.
TakeAliasAfterAs(c) ==
  IF Sees(c, {"AS"}) THEN Take(Advance(c), Identifiers, "alias") ELSE c

TakeAlias(c) == Take(Match(c, "AS"), Identifiers, "alias")

ParseTableRef(c) ==
  LET query == Expect(ParseSelect(Advance(c)), ")")
      derived == Put(Back(query, c), "query", query.tree)
      named == Need(c, Identifiers, "from")
      qualified == Need(Advance(Put(named, "database", named.node.from)), Identifiers, "from")
  IN  IF Sees(c, {"("})
      THEN IF Sees(derived, {"AS"} \cup Identifiers) THEN TakeAlias(derived) ELSE Refuse(derived)
      ELSE TakeAlias(IF Sees(named, {"."}) THEN qualified ELSE named)

RECURSIVE ParseJoins(_)
ParseJoins(c) ==
  LET type == IF Sees(c, {"JOIN"}) THEN "INNER" ELSE Token(c)
      outer == IF type \in {"LEFT", "RIGHT", "FULL"} THEN Match(Advance(c), "OUTER") ELSE Advance(c)
      join == [IF Sees(c, {"JOIN"}) THEN outer ELSE Expect(outer, "JOIN")
                 EXCEPT !.node = [table |-> "", alias |-> "", on |-> NoExpr]]
      table == IF Sees(join, Words) THEN TakeAlias(Take(join, Words, "table")) ELSE join
      on == Clause(table, "ON", "on")
  IN  IF ~Sees(c, {"JOIN", "INNER", "LEFT", "RIGHT", "FULL", "CROSS"}) THEN c
      ELSE ParseJoins(Push(Back(on, c), "joins",
                           JoinClause(type, on.node.table, on.node.alias, on.node.on)))

ParseDistinct(c) ==
  IF Sees(c, {"DISTINCT"}) THEN Put(Advance(c), "distinct", TRUE) ELSE c

\* An exception in the select list ends the list, without an error.
Forgiven(list, c) == IF list.state = "refused" THEN [list EXCEPT !.state = c.state] ELSE list

ParseItems(c) ==
  IF Sees(c, {"*"}) THEN Advance(c) ELSE Forgiven(ListOf("items", c), c)

\* An alias is read after the list only, and dropped.
SkipAlias(c) ==
  IF Sees(c, {"AS"}) /\ Sees(Advance(c), Identifiers) THEN Advance(Advance(c)) ELSE Match(c, "AS")

ParseFrom(c) == IF Sees(c, {"FROM"}) THEN ParseJoins(ParseTableRef(Advance(c))) ELSE c

ParseGroupBy(c) ==
  IF Sees(c, {"GROUP"})
  THEN Clause(ListOf("groupBy", Expect(Advance(c), "BY")), "HAVING", "having") ELSE c

ParseOrderBy(c) ==
  IF Sees(c, {"ORDER"}) THEN ListOf("orderBy", Expect(Advance(c), "BY")) ELSE c

ParseLimit(c) == Match(Count(Count(c, "LIMIT", "limit"), "OFFSET", "offset"), ";")

ParseSelectStatement(c) ==
  LET head == [Expect(c, "SELECT") EXCEPT !.node = SelectNode]
      from == ParseFrom(SkipAlias(ParseItems(ParseDistinct(head))))
  IN  Return(ParseLimit(ParseOrderBy(ParseGroupBy(Clause(from, "WHERE", "where")))), c)

Parse(rule, c) ==
  CASE rule[1] = "list" -> ParseList(rule[2], c, TRUE)
    [] rule[1] = "select" -> ParseSelectStatement(c)
    [] rule = <<"level", 8>> -> IF c.state = "parsing" THEN ParsePrimary(c) ELSE c
    [] rule = <<"level", 4>> -> ParseTest(ParseRest(4, ParseAt(5, c)))
    [] rule[1] = "level" /\ rule[2] \in (1..7) \ (Prefix \cup {4}) ->
         ParseRest(rule[2], ParseAt(rule[2] + 1, c))
    [] rule[1] = "level" /\ rule[2] \in Prefix ->
         IF Sees(c, OperatorsOf[rule[2]])
         THEN LET e == ParseAt(rule[2], Advance(c)) IN [e EXCEPT !.tree = Un(Token(c), @)]
         ELSE ParseAt(rule[2] + 1, c)
-----------------------------------------------------------------------------
(* INSERT, UPDATE, DELETE and the small statements. *)

\* A statement of its own: node is its first form, then the words that open it.
Begin(c, node, words) ==
  FoldLeft(LAMBDA d, word : Expect(d, word), [c EXCEPT !.node = node], words)

ParseInsertStatement(c) ==
  LET name == Take(Begin(c, [stmt |-> "insert", table |-> "", columns |-> <<>>, rows |-> <<>>],
                         <<"INSERT", "INTO">>), Words, "table")
      columns == IF Sees(name, {"("}) THEN Expect(ListOf("columns", Advance(name)), ")") ELSE name
  IN  Match(ListOf("rows", Expect(columns, "VALUES")), ";")

\* The operator after the column may be any.
ParseUpdateStatement(c) ==
  LET name == Take(Begin(c, [stmt |-> "update", table |-> "", assignments |-> <<>>,
                             where |-> NoExpr], <<"UPDATE">>), Words, "table")
  IN  Match(Clause(ListOf("assignments", Expect(name, "SET")), "WHERE", "where"), ";")

ParseDeleteStatement(c) ==
  LET name == Take(Begin(c, [stmt |-> "delete", table |-> "", where |-> NoExpr],
                         <<"DELETE", "FROM">>), Words, "table")
  IN  Match(Clause(name, "WHERE", "where"), ";")

ParseUseStatement(c) ==
  Match(Need(Begin(c, [stmt |-> "use", database |-> ""], <<"USE">>), Identifiers, "database"), ";")

ParseShowStatement(c) ==
  Match(Need(Begin(c, [stmt |-> "show", objectType |-> ""], <<"SHOW">>),
             {"DATABASES", "TABLES"}, "objectType"), ";")

ParseDescribeStatement(c) ==
  Match(Need(Begin(c, [stmt |-> "describe", table |-> ""], <<"DESC">>), Identifiers, "table"), ";")

\* EXPLAIN FORMAT JSON is refused: FORMAT is no keyword.
ParseExplainStatement(c) ==
  LET query == ParseSelect(Expect(c, "EXPLAIN"))
  IN  [query EXCEPT !.node = [stmt |-> "explain", query |-> query.tree]]

ParseAnalyzeStatement(c) ==
  Need(Begin(c, [stmt |-> "analyze", table |-> ""], <<"ANALYZE", "TABLE">>), Identifiers, "table")
-----------------------------------------------------------------------------
(* CREATE, DROP, ALTER. *)

\* IF NOT EXISTS is read between CREATE and the type of the object, each word if it is there.
ParseExistence(c, words) ==
  LET Read(d, word) == IF d.words = <<>> \/ ~Sees(d.c, {Head(d.words)}) THEN d
                       ELSE [c |-> Advance(d.c), words |-> Tail(d.words)]
      read == FoldLeft(Read, [c |-> c, words |-> words], words)
  IN  [c |-> read.c, found |-> read.words = <<>>]

ParseCreateDatabase(c, ifNotExists) ==
  Match(Need([c EXCEPT !.node = [stmt |-> "create database", database |-> "",
                                 ifNotExists |-> ifNotExists]], Identifiers, "database"), ";")

\* Between the columns of an index, what is no word is skipped.
RECURSIVE ParseIndexColumns(_)
ParseIndexColumns(c) ==
  IF ~(c.state = "parsing") \/ Sees(c, {")", EndOfText}) THEN c
  ELSE IF ~Sees(c, Words) THEN ParseIndexColumns(Advance(c))
  ELSE LET column == Advance(Push(c, "columns", Token(c)))
       IN  IF Sees(column, {","}) THEN ParseIndexColumns(Advance(column)) ELSE column

ParseCreateIndex(c, ifNotExists) ==
  LET unique == Sees(c, {"UNIQUE"})
      word == [Expect(IF unique THEN Advance(c) ELSE c, "INDEX") EXCEPT
                 !.node = [stmt |-> "create index", name |-> "", table |-> "", columns |-> <<>>,
                           unique |-> unique, ifNotExists |-> ifNotExists]]
      table == Need(Expect(Need(word, Identifiers, "name"), "ON"), Identifiers, "table")
  IN  Match(Expect(ParseIndexColumns(Expect(table, "(")), ")"), ";")

TypeOf(word) ==
  CASE word \in {"INT", "INTEGER"} -> "INT"
    [] word \in {"VARCHAR", "CHAR"} -> "VARCHAR"
    [] word \in {"FLOAT", "DOUBLE"} -> "FLOAT"
    [] OTHER -> "UNKNOWN"

\* A column's type is read if there is one, and not set otherwise.
ParseColumnType(c) ==
  LET type == Advance(Put(c, "type", TypeOf(Token(c))))
      open == Advance(type)
      length == IF Sees(open, Integers32)
                THEN Advance(Put(open, "length", Literals[Token(open)][2])) ELSE open
  IN  IF ~Sees(c, Words) THEN c
      ELSE IF TypeOf(Token(c)) = "VARCHAR" /\ Sees(type, {"("}) THEN Expect(length, ")") ELSE type

\* Unknown words are skipped; at REFERENCES the loop stays where it is for ever.
RECURSIVE ParseConstraints(_)
ParseConstraints(c) ==
  LET next == Advance(c)
      Second(word, field) == IF Sees(next, {word}) THEN Advance(Put(next, field, TRUE)) ELSE next
  IN  IF c.state # "parsing" \/ Sees(c, {",", ")", EndOfText}) THEN c
      ELSE ParseConstraints(
             CASE Token(c) = "NOT" -> Second("NULL", "notNull")
               [] Token(c) = "PRIMARY" -> Second("KEY", "primaryKey")
               [] Token(c) = "UNIQUE" -> Put(next, "unique", TRUE)
               [] Token(c) = "AUTO_INCREMENT" -> Put(next, "autoIncrement", TRUE)
               [] Token(c) = "REFERENCES" -> Stop(c, "hangs")
               [] OTHER -> next)

ColumnNode ==
  [name |-> "", type |-> "indeterminate", length |-> 0, notNull |-> FALSE, primaryKey |-> FALSE,
   unique |-> FALSE, autoIncrement |-> FALSE]

ParseColumn(c) ==
  LET column == ParseConstraints(ParseColumnType(
                  Take([c EXCEPT !.node = ColumnNode], Words, "name")))
  IN  Push(Back(column, c), "columns", column.node)

RECURSIVE ParseNames(_)
ParseNames(c) ==
  LET name == IF Sees(c, Identifiers) THEN Advance(Push(c, "names", Token(c))) ELSE c
  IN  IF c.state # "parsing" \/ Sees(c, {")", EndOfText}) \/ ~Sees(name, {","}) THEN name
      ELSE ParseNames(Advance(name))

\* UNIQUE (name (columns)) is an index; what is in the parentheses of UNIQUE (column) is read
\* as its name, and no index comes of it. The first of no columns is undefined.
ParseUnique(c) ==
  LET word == IF Sees(Advance(c), {"INDEX", "KEY"}) THEN Advance(Advance(c)) ELSE Advance(c)
      open == Advance(word)
      named == Sees(open, Identifiers)
      name == IF named THEN Advance(open) ELSE open
      list == IF named THEN Advance(name) ELSE name
      names == Expect(ParseNames([list EXCEPT !.node = [names |-> <<>>]]), ")")
      back == Back(names, c)
  IN  IF ~Sees(word, {"("}) THEN word
      ELSE IF named /\ ~Sees(name, {"("}) THEN name
      ELSE IF ~named /\ names.node.names = <<>> THEN Stop(back, "undefined")
      ELSE Push(back, "indexes",
                [name |-> IF named THEN Token(open) ELSE "uniq_" \o names.node.names[1],
                 columns |-> names.node.names])

\* Mutant: the key is read and not kept.
ParseForeignKeyUnkept(c) ==
  LET column == Advance(Match(Advance(c), "KEY"))
  IN  Advance(Expect(Expect(Advance(column), ")"), "REFERENCES"))

ParseForeignKey(c) ==
  LET word == Match(Advance(c), "KEY")
      column == Advance(word)
      start == [Expect(Expect(Advance(column), ")"), "REFERENCES") EXCEPT
                  !.node = [column |-> Token(column), refTable |-> "", refColumn |-> ""]]
      table == Take(start, Identifiers, "refTable")
      inner == Advance(table)
      ref == IF ~Sees(table, {"("}) THEN table
             ELSE IF ~Sees(inner, Identifiers) THEN inner
             ELSE Expect(Take(inner, Identifiers, "refColumn"), ")")
  IN  IF ~Sees(word, {"("}) THEN word
      ELSE IF ~Sees(column, Identifiers) THEN column
      ELSE Push(Back(ref, c), "foreignKeys", ref.node)

\* INDEX and KEY are not moved past, so that the list ends before them.
RECURSIVE ParseDefinitions(_)
ParseDefinitions(c) ==
  LET one == CASE Sees(c, {"INDEX", "KEY"}) -> c
               [] Sees(c, {"UNIQUE"}) -> ParseUnique(c)
               [] Sees(c, {"FOREIGN"}) -> ParseForeignKey(c)
               [] OTHER -> ParseColumn(c)
  IN  IF c.state # "parsing" \/ Sees(c, {")", EndOfText}) THEN c
      ELSE IF Sees(one, {","}) THEN ParseDefinitions(Advance(one)) ELSE one

ParseCreateTable(c, ifNotExists) ==
  LET name == Take([c EXCEPT !.node = [stmt |-> "create table", table |-> "", columns |-> <<>>,
                                       indexes |-> <<>>, foreignKeys |-> <<>>,
                                       ifNotExists |-> ifNotExists]], Words, "table")
  IN  Match(IF Sees(name, {"("}) THEN Expect(ParseDefinitions(Advance(name)), ")") ELSE name, ";")

\* A CREATE of anything else runs off the end of the function.
ParseCreateStatement(c) ==
  LET read == ParseExistence(Advance(c), <<"IF", "NOT", "EXISTS">>)
      object == read.c
  IN  CASE Sees(object, {"DATABASE"}) -> ParseCreateDatabase(Advance(object), read.found)
        [] Sees(object, {"INDEX", "UNIQUE"}) -> ParseCreateIndex(object, read.found)
        [] Sees(object, {"TABLE"}) -> ParseCreateTable(Advance(object), read.found)
        [] OTHER -> Stop(object, "undefined")

\* IF EXISTS is read between DROP and the type of the object.
ParseDropStatement(c) ==
  LET read == ParseExistence(Advance(c), <<"IF", "EXISTS">>)
      node == [stmt |-> "drop", objectType |-> "", name |-> "", ifExists |-> read.found]
  IN  Match(Take(Need([read.c EXCEPT !.node = node], {"TABLE", "DATABASE", "INDEX"}, "objectType"),
                 Words, "name"), ";")

\* Of the words that choose an operation DROP and CONSTRAINT are keywords. DROP takes the
\* word after it, COLUMN too, for the column; without DROP the operation is not set.
ParseAlterStatement(c) ==
  LET node == [stmt |-> "alter", table |-> "", operation |-> "indeterminate",
               oldColumnName |-> "", constraint |-> ""]
      table == Need(Begin(c, node, <<"ALTER", "TABLE">>), Identifiers, "table")
      drop == Advance(table)
      Named(d, operation, field) ==
        Advance(Put(Put(d, "operation", operation), field, Token(d)))
  IN  Match(CASE ~Sees(table, {"DROP"}) -> table
              [] Sees(table, {"DROP"}) /\ Sees(drop, {"CONSTRAINT"}) ->
                   Named(Advance(drop), "DROP_CONSTRAINT", "constraint")
              [] OTHER -> Named(drop, "DROP_COLUMN", "oldColumnName"), ";")

ParseStatement(text) ==
  LET c == StartOf(text)
      select == ParseSelect(c)
  IN  CASE Sees(c, {"USE"}) -> ParseUseStatement(c)
        [] Sees(c, {"SHOW"}) -> ParseShowStatement(c)
        [] Sees(c, {"DESC"}) -> ParseDescribeStatement(c)
        [] Sees(c, {"EXPLAIN"}) -> ParseExplainStatement(c)
        [] Sees(c, {"ANALYZE"}) -> ParseAnalyzeStatement(c)
        [] Sees(c, {"SELECT"}) -> [select EXCEPT !.node = [stmt |-> "select", query |-> select.tree]]
        [] Sees(c, {"INSERT"}) -> ParseInsertStatement(c)
        [] Sees(c, {"UPDATE"}) -> ParseUpdateStatement(c)
        [] Sees(c, {"DELETE"}) -> ParseDeleteStatement(c)
        [] Sees(c, {"CREATE"}) -> ParseCreateStatement(c)
        [] Sees(c, {"DROP"}) -> ParseDropStatement(c)
        [] Sees(c, {"ALTER"}) -> ParseAlterStatement(c)
        [] OTHER -> Refuse(c)
=============================================================================
