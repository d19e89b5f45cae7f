------------------------------- MODULE Rewriter -------------------------------
(***************************************************************************)
(* The rewriting of a WHERE condition (optimizer/QueryRewriter.cpp): drop  *)
(* conditions that constants decide, then fold constants. Pushing down and *)
(* simplifying change nothing. QueryOptimizer has it switched off.         *)
(***************************************************************************)
EXTENDS Expressions

IsLit(e) == e.k = "lit"
IsAlwaysTrue(e) == IsLit(e) /\ GetBool(e.val)
IsAlwaysFalse(e) == IsLit(e) /\ ~GetBool(e.val)

\* What toString() tells apart: two subqueries print alike.
RECURSIVE Printed(_)
Printed(e) ==
  CASE e.k = "bin" -> [e EXCEPT !.l = Printed(@), !.r = Printed(@)]
    [] e.k = "un" -> [e EXCEPT !.e = Printed(@)]
    [] e.k = "in" -> [e EXCEPT !.l = Printed(@), !.query = "SELECT ..."]
    [] e.k = "exists" -> [e EXCEPT !.query = "SELECT ..."]
    [] OTHER -> e

\* Mutant: a deciding operand gives the other value.
EliminateSwapped(l, op, r) ==
  LET Decides(e) == IF op = "AND" THEN IsAlwaysFalse(e) ELSE IsAlwaysTrue(e)
  IN  IF Decides(l) \/ Decides(r) THEN Lit(Boolean(op = "AND")) ELSE Bin(l, op, r)

\* A FALSE operand decides AND, a TRUE one OR; an idle operand, or one of two alike, goes.
Eliminate(l, op, r) ==
  LET Decides(e) == IF op = "AND" THEN IsAlwaysFalse(e) ELSE IsAlwaysTrue(e)
      Idle(e) == IF op = "AND" THEN IsAlwaysTrue(e) ELSE IsAlwaysFalse(e)
  IN  CASE Decides(l) \/ Decides(r) -> Lit(Boolean(op = "OR"))
        [] ~Decides(r) /\ Idle(l) -> r
        [] ~Decides(l) /\ ~Idle(l) /\ (Idle(r) \/ Printed(l) = Printed(r)) -> l
        [] OTHER -> Bin(l, op, r)

RECURSIVE EliminateRedundantConditions(_)
EliminateRedundantConditions(e) ==
  IF e.k = "bin" /\ e.op \in {"AND", "OR"}
  THEN Eliminate(EliminateRedundantConditions(e.l), e.op, EliminateRedundantConditions(e.r))
  ELSE e

\* getInt() of a number.
Truncated(v) == Quotient(v[2], v[3])

\* Folding computes with integers, and a division by zero gives NULL. getInt() of a Boolean
\* throws, and the expression stays; a division by zero does not look at the dividend.
Fold(l, op, r) ==
  LET a == Truncated(l.val)
      b == Truncated(r.val)
  IN  IF ~(IsLit(l) /\ IsLit(r) /\ op \in {"+", "-", "*", "/"}
             /\ IsNumeric(l.val) /\ IsNumber(r.val)
             /\ (IsNumber(l.val) \/ (op = "/" /\ b = 0)))
      THEN Bin(l, op, r)
      ELSE Lit(IF op = "/" /\ b = 0 THEN Null ELSE IntegerArithmetic(a, op, b))

RECURSIVE FoldConstants(_)
FoldConstants(e) ==
  CASE e.k = "bin" -> Fold(FoldConstants(e.l), e.op, FoldConstants(e.r))
    [] e.k = "un" -> Un(e.op, FoldConstants(e.e))
    [] OTHER -> e

Rewrite(e) == IF e = NoExpr THEN e ELSE FoldConstants(EliminateRedundantConditions(e))
=============================================================================
