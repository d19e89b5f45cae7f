\* Clients that write at the same time, and crashes.
CONSTANTS
  Workers = {w1, w2}
  Names = {t1, t2, t3}
  t1 = t1
  t2 = t2
  t3 = t3
  a = a
  b = b
  c = c
  x = x
  y = y
  Null = Null
  Refuse = Refuse
  NoFile = NoFile
  Columns <- OneColumnPair
  Statements <- Writers
  ForeignKey <- Child3
  Meta0 <- Loaded2
  Data0 <- Empty2
  Exclusive = FALSE
  MaxStatements = 4
  MaxCrashes = 1
SPECIFICATION Spec
INVARIANTS
  TypeOK
  LinesAreWhole
  OneRowLostPerCrash
  ChildrenHaveParents
CHECK_DEADLOCK FALSE
