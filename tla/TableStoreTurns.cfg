\* Clients that take turns on each table, on three tables.
CONSTANTS
  Workers = {w1, w2}
  Names = {t1, t2, t3}
  t1 = t1
  t2 = t2
  t3 = t3
  a = a
  b = b
  c = c
  x = x
  y = y
  Null = Null
  Refuse = Refuse
  NoFile = NoFile
  Columns <- OneColumnPair
  Statements <- Mixed
  ForeignKey <- NoForeignKey
  Meta0 <- Loaded1
  Data0 <- Rows1
  Exclusive = TRUE
  MaxStatements = 4
  MaxCrashes = 0
SPECIFICATION Spec
PROPERTIES
  ImplementsTable
CHECK_DEADLOCK FALSE
