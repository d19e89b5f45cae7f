\* A restart truncates the log and redoes nothing.
CONSTANTS
  Threads = {t1}
  MaxTxns = 1
  MaxCrashes = 1
  WalDir = {TRUE}
  WriteMayFail = FALSE
  PowerLoss = FALSE
SPECIFICATION Spec
INVARIANTS
  CommittedIsRedone
CHECK_DEADLOCK FALSE
