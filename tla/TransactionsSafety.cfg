\* Two threads and a crash that may take the machine down, and a log
\* that may not open or may fail later.
CONSTANTS
  Threads = {t1, t2}
  MaxTxns = 3
  MaxCrashes = 1
  WalDir = {TRUE, FALSE}
  WriteMayFail = TRUE
  PowerLoss = TRUE
SPECIFICATION Spec
SYMMETRY Symmetry
INVARIANTS
  TypeOK
  ThreadsShareNoTransaction
  LogIsWellFormed
  LsnIsPosition
  LogOfOneRun
  CommittedIsLogged
CHECK_DEADLOCK FALSE
