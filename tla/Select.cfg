CONSTANTS
  Queries <- MCQueries
  Databases <- MCDatabases
  Contents <- MCContents
  MaxWrites = 2
SPECIFICATION Spec
INVARIANTS
  TypeOK
  AnswerIsQuery
  FailsForItsErrors
  RowsDecidedInSomeDatabase
CHECK_DEADLOCK FALSE
