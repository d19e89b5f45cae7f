\* An INSERT while an UPDATE of the same table runs.
CONSTANTS
  Workers = {w1, w2}
  Names = {t1}
  t1 = t1
  t2 = t2
  t3 = t3
  a = a
  b = b
  c = c
  x = x
  y = y
  Null = Null
  Refuse = Refuse
  NoFile = NoFile
  Columns <- OneColumnPair
  Statements <- InsertAndUpdate
  ForeignKey <- NoForeignKey
  Meta0 <- Loaded1
  Data0 <- Rows1
  Exclusive = FALSE
  MaxStatements = 4
  MaxCrashes = 0
SPECIFICATION Spec
INVARIANTS
  ConcurrentInsertsSurvive
CHECK_DEADLOCK FALSE
