------------------------------ MODULE SelectMC -------------------------------
\* Statements and databases for Select.tla: the tables of README.md:128, with NULLs,
\* duplicates, rows without a partner, an empty table and a missing one.
EXTENDS Select

Users(rows) == [found |-> TRUE, cols |-> <<"id", "name", "age">>, rows |-> rows]
Orders(rows) == [found |-> TRUE, cols |-> <<"id", "user_id", "amount">>, rows |-> rows]
Shops(rows) == [found |-> TRUE, cols |-> <<"shop", "city">>, rows |-> rows]
Tags(rows) == [found |-> TRUE, cols |-> <<"order_id", "flag">>, rows |-> rows]

User(id, name, age) == <<Int32(id), Name(name), age>>
Order(id, user, amount) == <<Int32(id), user, Int32(amount)>>

Some == [users |-> Users(<<User(1, 1, Int32(25)), User(2, 2, Int32(30)), User(3, 2, Null)>>),
         orders |-> Orders(<<Order(1, Int32(1), 5), Order(2, Int32(1), 0), Order(3, Null, 7),
                             Order(4, Int32(9), 7)>>),
         tags |-> Tags(<<<<Int32(2), Boolean(TRUE)>>, <<Int32(1), Boolean(FALSE)>>>>),
         shops |-> Shops(<<<<Int32(1), Name(1)>>>>)]
Readme == [users |-> Users(<<User(1, 1, Int32(25)), User(2, 2, Int32(30))>>),
           orders |-> Orders(<<Order(1, Int32(1), 100), Order(2, Int32(1), 200)>>),
           tags |-> Tags(<<>>), shops |-> Shops(<<>>)]
Sparse == [users |-> Users(<<User(2, 1, Int32(30)), User(1, 1, Int32(25)), User(4, 1, Null),
                             User(2, 2, Int32(25))>>),
           orders |-> Orders(<<>>),
           tags |-> NoTable, shops |-> NoTable]

MCDatabases == {Some, Readme, Sparse}

MCContents ==
  [users |-> {Some.users.rows, <<User(2, 1, Int32(25)), User(1, 2, Null)>>},
   orders |-> {<<Order(2, Int32(2), 3)>>, Some.orders.rows \o <<Order(5, Int32(3), 1)>>}]

C(table, column) == Col(table, column)
Id == C("", "id")
Age == C("", "age")
N(n) == Lit(Int32(n))
All(from) == Select(<<>>, from)
InnerOn(table, on) == JoinClause("INNER", table, "", on)
UserOfOrder == Bin(C("users", "id"), "=", C("orders", "user_id"))
Buyers == Select(<<C("", "user_id")>>, "orders")
MinAge == [Select(<<Fn("MIN", <<Age>>)>>, "users") EXCEPT !.where = Bin(Id, ">", N(1))]

Filtered ==
  {[All("users") EXCEPT !.where = e] :
     e \in {Bin(Age, ">", N(26)),
            Un("NOT", Bin(Age, "=", N(25))),
            Bin(Bin(Age, ">", N(26)), "OR", Bin(C("", "name"), "=", Lit(Name(2)))),
            Bin(Bin(Age, "+", N(1)), "<=", Bin(Id, "*", N(15))),
            Bin(C("users", "nick"), "=", N(1)),
            Bin(C("", "name"), "<", Age),
            Bin(Bin(Age, "=", N(25)), "=", Lit(Boolean(TRUE)))}}

Listed ==
  {[Select(<<C("", "name"), Bin(Age, "-", Id)>>, "users") EXCEPT
      !.orderBy = <<OrderBy(C("", "name"), FALSE), OrderBy(Age, asc)>>, !.limit = limit,
      !.offset = offset] : asc \in BOOLEAN, limit \in {-1, 0, 2}, offset \in {-1, 1}}
  \cup {[All("orders") EXCEPT !.orderBy = <<OrderBy(C("", "amount"), FALSE)>>, !.offset = 1],
        [Select(<<Bin(N(8), "/", C("", "amount"))>>, "orders") EXCEPT !.limit = 1],
        Select(<<Bin(N(8), "/", C("", "amount"))>>, "orders"),
        All("missing")}

\* Three tables and four, with the table of a column named or not.
ThreeTables(list) ==
  [Select(list, "users") EXCEPT
     !.joins = <<JoinClause("LEFT", "orders", "", UserOfOrder),
                 JoinClause("LEFT", "tags", "", Bin(C("orders", "id"), "=", C("tags", "order_id")))>>]
FourTables(list) ==
  [ThreeTables(list) EXCEPT !.joins = Append(@, JoinClause("CROSS", "shops", "", NoExpr))]

Joined ==
  {[All("users") EXCEPT !.joins = <<JoinClause(type, "orders", "", UserOfOrder)>>] :
     type \in {"INNER", "LEFT", "RIGHT"}}
  \cup {[Select(<<C("users", "name"), C("", "amount")>>, "users") EXCEPT
           !.joins = <<InnerOn("orders", Bin(C("orders", "id"), "<", Bin(C("users", "id"), "+", N(2))))>>,
           !.where = Bin(C("users", "id"), ">", N(1)), !.limit = 3],
        [All("users") EXCEPT !.joins = <<JoinClause("CROSS", "orders", "", NoExpr)>>,
           !.where = UserOfOrder],
        [ThreeTables(<<C("users", "name"), C("tags", "flag")>>) EXCEPT
           !.orderBy = <<OrderBy(C("users", "age"), FALSE)>>]}

\* A subquery in FROM, joined.
Derivation(list, e) ==
  [Select(list, "") EXCEPT
     !.query = [Select(<<C("", "name"), Id>>, "users") EXCEPT !.where = e],
     !.alias = "t", !.joins = <<InnerOn("orders", Bin(C("t", "id"), "=", C("orders", "user_id")))>>]

Long ==
  {Derivation(<<C("t", "name"), C("orders", "amount")>>, Bin(Age, ">=", N(25))),
   Derivation(<<C("", "name")>>, Bin(Age, ">=", N(25))),
   Derivation(<<C("t", "name")>>, Bin(Bin(N(8), "/", Bin(Age, "-", N(25))), ">", N(0))),
   ThreeTables(<<Age, C("", "flag")>>),
   [ThreeTables(<<C("", "flag")>>) EXCEPT !.orderBy = <<OrderBy(Age, FALSE)>>],
   [ThreeTables(<<C("users", "name")>>) EXCEPT !.joins[2].on = Bin(C("", "amount"), "=", C("", "order_id"))],
   FourTables(<<C("users", "name")>>), FourTables(<<C("tags", "flag"), C("", "city")>>)}

\* Errors of the list in rows that WHERE drops or LIMIT cuts off, and names of two tables.
Erring ==
  {[Select(<<Bin(N(8), "/", C("", "amount"))>>, "orders") EXCEPT !.where = Bin(C("", "amount"), op, N(0))] :
     op \in {">", "<="}}
  \cup {[Select(<<Bin(N(8), "/", C("", "amount"))>>, "orders") EXCEPT !.limit = limit, !.offset = 1,
           !.orderBy = <<OrderBy(C("", "amount"), FALSE)>>] : limit \in 1..3}
  \cup {[Select(<<c>>, "users") EXCEPT !.joins = <<InnerOn("orders", UserOfOrder)>>] :
           c \in {Id, C("users", "amount"), C("users", "nick")}}

Nested ==
  {[All("users") EXCEPT !.where = In(Id, Buyers, negated)] : negated \in BOOLEAN}
  \cup {[All("users") EXCEPT !.where = Bin(In(Id, Buyers, FALSE), "AND", In(Age, MinAge, TRUE))],
        [All("users") EXCEPT !.limit = 1,
           !.where = In(Id, [Buyers EXCEPT !.where = Bin(C("", "amount"), ">", N(3))], FALSE)],
        [All("users") EXCEPT !.where = Exists([Buyers EXCEPT !.where = Bin(Id, "=", N(5))], FALSE)],
        [All("users") EXCEPT !.where = In(Id, [Buyers EXCEPT !.offset = 1], FALSE)]}

\* README.md:146 and README.md:149.
ReadmeJoin ==
  [Select(<<C("u", "name"), C("o", "amount")>>, "users") EXCEPT !.alias = "u",
     !.joins = <<JoinClause("INNER", "orders", "o", Bin(C("u", "id"), "=", C("o", "user_id")))>>]
CountAll == Fn("COUNT", <<Lit(Star)>>)
ReadmeGroups == [Select(<<CountAll, Age>>, "users") EXCEPT !.groupBy = <<Age>>,
                   !.having = Bin(CountAll, ">", N(0))]
Groups ==
  {ReadmeGroups, [ReadmeGroups EXCEPT !.having = NoExpr], Select(<<CountAll>>, "users"),
   Select(<<Fn("ABS", <<Age>>)>>, "users"),
   [Select(<<Age>>, "users") EXCEPT !.groupBy = <<Age>>, !.having = Bin(Id, ">", N(26)),
      !.orderBy = <<OrderBy(Age, TRUE)>>]}

MCQueries ==
  Filtered \cup Listed \cup Joined \cup Long \cup Erring \cup Nested \cup Groups \cup {ReadmeJoin}
=============================================================================
