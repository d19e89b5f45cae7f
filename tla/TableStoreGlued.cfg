\* An INSERT after ADD COLUMN.
CONSTANTS
  Workers = {w1}
  Names = {t1}
  t1 = t1
  t2 = t2
  t3 = t3
  a = a
  b = b
  c = c
  x = x
  y = y
  Null = Null
  Refuse = Refuse
  NoFile = NoFile
  Columns <- OneColumnPair
  Statements <- AddThenInsert
  ForeignKey <- NoForeignKey
  Meta0 <- Loaded1
  Data0 <- Rows1
  Exclusive = TRUE
  MaxStatements = 4
  MaxCrashes = 0
SPECIFICATION Spec
INVARIANTS
  InsertAfterAlter
CHECK_DEADLOCK FALSE
