CONSTANTS
  Identifiers <- MCIdentifiers
  Literals <- MCLiterals
  Statements <- MCStatements
  Openings <- MCOpenings
  Rows <- MCRows
SPECIFICATION Spec
INVARIANTS
  StatementIsParsed
  ConditionIsDerived
  DefinitionsAreKept
  RewriteKeepsRows
CHECK_DEADLOCK FALSE
