----------------------------- MODULE Expressions -----------------------------
(***************************************************************************)
(* Values, their comparison, and the evaluation of expression trees over   *)
(* one row (common/Value.cpp, executor/ExpressionEvaluator.cpp).           *)
(*                                                                         *)
(* A value is <<type, n, d>>: the number n / d (d = 1 but for a double), a *)
(* Boolean n \in 0..1, or a string by its rank n.  A string is only ever   *)
(* compared, and "*" (rank 0) sorts before digits, a name (rank 1, 2, ...) *)
(* after them and before "false" and "true".                               *)
(***************************************************************************)
EXTENDS Integers, Sequences, FiniteSets

Null == <<"null", 0, 1>>
Int32(n) == <<"int", n, 1>>      \* a literal, a column of type INT
BigInt(n) == <<"big", n, 1>>     \* what arithmetic on integers gives
Double(n, d) == <<"double", n, d>>
Boolean(b) == <<"bool", IF b THEN 1 ELSE 0, 1>>
Name(k) == <<"str", k, 1>>
Star == Name(0)

\* An evaluation ends in a value, in an error that is returned, or in an exception; it
\* stops at Wait(r) while what it needs, r, has still to be read.
Err == <<"err", 0, 1>>
Throw == <<"throw", 0, 1>>
Wait(r) == <<"wait", r, 1>>

IsNull(v) == v[1] = "null"
Failed(v) == v[1] \in {"err", "throw", "wait"}
IsNumeric(v) == v[1] \in {"int", "big", "double", "bool"}

\* getDouble() and getInt() parse a string, and a Boolean is stored as one.
IsNumber(v) == v[1] \in {"int", "big", "double"}

GetBool(v) == v[1] \in {"int", "big", "double", "bool"} /\ v[2] # 0

Sign(n) == IF n < 0 THEN -1 ELSE IF n > 0 THEN 1 ELSE 0

Text(v) == CASE v = Star -> <<0, 0>>
             [] IsNumber(v) -> <<1, v[2]>>
             [] v[1] = "str" /\ v # Star -> <<2, v[2]>>
             [] v[1] = "bool" -> <<3, v[2]>>

\* compareTo() throws when both are numeric and one is a Boolean.
Comparable(v, w) ==
  \/ IsNull(v) \/ IsNull(w)
  \/ IsNumber(v) /\ IsNumber(w)
  \/ ~(IsNumeric(v) /\ IsNumeric(w))

CompareTo(v, w) ==
  CASE IsNull(v) /\ IsNull(w) -> 0
    [] IsNull(v) /\ ~IsNull(w) -> -1
    [] ~IsNull(v) /\ IsNull(w) -> 1
    [] IsNumber(v) /\ IsNumber(w) -> Sign(v[2] * w[3] - w[2] * v[3])
    [] OTHER -> LET a == Text(v)  b == Text(w)
                IN  IF a[1] # b[1] THEN Sign(a[1] - b[1]) ELSE Sign(a[2] - b[2])

-----------------------------------------------------------------------------
(* Expression trees, as the parser builds them. *)

NoExpr == [k |-> "none"]
Lit(v) == [k |-> "lit", val |-> v]
Col(table, column) == [k |-> "col", table |-> table, column |-> column]
Bin(l, op, r) == [k |-> "bin", l |-> l, op |-> op, r |-> r]
Un(op, e) == [k |-> "un", op |-> op, e |-> e]
Fn(name, args) == [k |-> "fn", name |-> name, args |-> args]
In(l, query, negated) == [k |-> "in", l |-> l, query |-> query, negated |-> negated]
Exists(query, negated) == [k |-> "exists", query |-> query, negated |-> negated]

Aggregates == {"COUNT", "SUM", "AVG", "MAX", "MIN"}
IsAggregate(e) == e.k = "fn" /\ e.name \in Aggregates

\* C++ division truncates towards zero.
Quotient(n, m) == LET q == (IF n < 0 THEN -n ELSE n) \div (IF m < 0 THEN -m ELSE m)
                  IN  IF (n < 0) = (m < 0) THEN q ELSE -q

IntegerArithmetic(a, op, b) ==
  CASE op = "+" -> BigInt(a + b)
    [] op = "-" -> BigInt(a - b)
    [] op = "*" -> BigInt(a * b)
    [] op = "/" -> IF b = 0 THEN Err ELSE BigInt(Quotient(a, b))

DoubleArithmetic(v, op, w) ==
  CASE op = "+" -> Double(v[2] * w[3] + w[2] * v[3], v[3] * w[3])
    [] op = "-" -> Double(v[2] * w[3] - w[2] * v[3], v[3] * w[3])
    [] op = "*" -> Double(v[2] * w[2], v[3] * w[3])
    [] op = "/" -> IF w[2] = 0 THEN Err
                   ELSE Double(Sign(w[2]) * v[2] * w[3], Sign(w[2]) * v[3] * w[2])

EvaluateArithmetic(v, op, w) ==
  CASE IsNull(v) \/ IsNull(w) -> Null
    [] ~IsNull(v) /\ ~IsNull(w) /\ ~(IsNumber(v) /\ IsNumber(w)) -> Throw
    [] IsNumber(v) /\ IsNumber(w) ->
         IF "double" \in {v[1], w[1]} THEN DoubleArithmetic(v, op, w)
         ELSE IntegerArithmetic(v[2], op, w[2])

\* A null operand counts as FALSE.
EvaluateLogical(v, op, w) ==
  Boolean(IF op = "AND" THEN GetBool(v) /\ GetBool(w) ELSE GetBool(v) \/ GetBool(w))

\* What an operator makes of the sign that compareTo() gives.
Holds(op, sign) ==
  CASE op = "=" -> sign = 0
    [] op = "!=" -> sign # 0
    [] op = "<" -> sign < 0
    [] op = ">" -> sign > 0
    [] op = "<=" -> sign <= 0
    [] op = ">=" -> sign >= 0

EvaluateComparison(v, op, w) ==
  CASE IsNull(v) \/ IsNull(w) -> Null
    [] ~IsNull(v) /\ ~IsNull(w) /\ ~Comparable(v, w) -> Throw
    [] OTHER -> Boolean(Holds(op, CompareTo(v, w)))

EvaluateBinary(v, op, w) ==
  CASE op \in {"+", "-", "*", "/"} -> EvaluateArithmetic(v, op, w)
    [] op \in {"AND", "OR"} -> EvaluateLogical(v, op, w)
    [] op \in {"=", "!=", "<", ">", "<=", ">="} -> EvaluateComparison(v, op, w)
    [] OTHER -> Err

\* The minus sign knows INT and DOUBLE, and not the BIGINT that arithmetic gives.
EvaluateUnary(op, v) ==
  CASE op \in {"NOT", "-"} /\ IsNull(v) -> Null
    [] op = "NOT" /\ ~IsNull(v) -> Boolean(~GetBool(v))
    [] op = "-" /\ v[1] \in {"int", "double"} -> <<v[1], -v[2], v[3]>>
    [] OTHER -> Err

\* ABS stands for the scalar functions: arity, then null, then the value.
EvaluateScalarFunction(name, args) ==
  CASE name # "ABS" \/ Len(args) # 1 -> Err
    [] name = "ABS" /\ Len(args) = 1 ->
         CASE IsNull(args[1]) -> Null
           [] args[1][1] = "double" -> Double(Sign(args[1][2]) * args[1][2], args[1][3])
           [] args[1][1] \in {"int", "big"} -> BigInt(Sign(args[1][2]) * args[1][2])
           [] OTHER -> Throw

EvaluateFunction(name, args) ==
  IF \E i \in DOMAIN args : Failed(args[i])
  THEN args[CHOOSE i \in DOMAIN args : /\ Failed(args[i])
                                       /\ \A j \in 1..(i - 1) : ~Failed(args[j])]
  ELSE IF name \in Aggregates THEN Err ELSE EvaluateScalarFunction(name, args)

\* context maps names to values; a name is the sequence of its dotted parts.
EvaluateColumnRef(e, context) ==
  LET qualified == IF e.table = "" THEN <<e.column>> ELSE <<e.table, e.column>>
  IN  CASE qualified \in DOMAIN context -> context[qualified]
        [] qualified \notin DOMAIN context /\ <<e.column>> \in DOMAIN context ->
             context[<<e.column>>]
        [] OTHER -> Err

\* The answer to a subquery: what executeSubquery() returns, or that it has not run yet.
Values(s) == [state |-> "values", values |-> s]
Refusal == [state |-> "error", values |-> <<>>]
Unasked == [state |-> "unasked", values |-> <<>>]

\* Mutant: NOT IN reads as IN.
EvaluateInPositive(v, answer, negated) ==
  Boolean(\E i \in DOMAIN answer.values : CompareTo(v, answer.values[i]) = 0)

\* The elements are compared up to the first that is equal; a comparison may throw.
EvaluateIn(v, answer, negated) ==
  LET found == {i \in DOMAIN answer.values : /\ Comparable(v, answer.values[i])
                                             /\ CompareTo(v, answer.values[i]) = 0}
      bad == {i \in DOMAIN answer.values : ~Comparable(v, answer.values[i])}
  IN  IF \E i \in bad : \A j \in found : i < j THEN Throw
      ELSE Boolean((found # {}) # negated)

EvaluateSubquery(q, answer, value) ==
  CASE answer.state = "unasked" -> Wait(<<"query", q>>)
    [] answer.state = "error" -> Err
    [] answer.state = "values" -> value

\* answers maps the subqueries of the expression to their answers.
RECURSIVE Evaluate(_, _, _)
Evaluate(e, context, answers) ==
  CASE e.k = "lit" -> e.val
    [] e.k = "col" -> EvaluateColumnRef(e, context)
    [] e.k = "bin" ->
         LET v == Evaluate(e.l, context, answers)
             w == Evaluate(e.r, context, answers)
         IN  IF Failed(v) THEN v ELSE IF Failed(w) THEN w ELSE EvaluateBinary(v, e.op, w)
    [] e.k = "un" ->
         LET v == Evaluate(e.e, context, answers)
         IN  IF Failed(v) THEN v ELSE EvaluateUnary(e.op, v)
    [] e.k = "fn" ->
         EvaluateFunction(e.name, [i \in DOMAIN e.args |-> Evaluate(e.args[i], context, answers)])
    [] e.k = "in" ->
         LET v == Evaluate(e.l, context, answers)
         IN  IF Failed(v) THEN v
             ELSE EvaluateSubquery(e.query, answers[e.query],
                                   EvaluateIn(v, answers[e.query], e.negated))
    [] e.k = "exists" ->
         EvaluateSubquery(e.query, answers[e.query],
                          Boolean((answers[e.query].values # <<>>) # e.negated))
    [] OTHER -> Err

RECURSIVE SubqueriesOf(_)
SubqueriesOf(e) ==
  CASE e.k = "bin" -> SubqueriesOf(e.l) \cup SubqueriesOf(e.r)
    [] e.k = "un" -> SubqueriesOf(e.e)
    [] e.k = "fn" -> UNION {SubqueriesOf(e.args[i]) : i \in DOMAIN e.args}
    [] e.k = "in" -> SubqueriesOf(e.l) \cup {e.query}
    [] e.k = "exists" -> {e.query}
    [] OTHER -> {}

\* A condition keeps a row when its value is not null and true.
Keeps(v) == ~IsNull(v) /\ GetBool(v)
=============================================================================
