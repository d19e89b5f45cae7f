\* Every interleaving of two workers, two submitters and a stop() with three tasks.
CONSTANTS
  Free = Free
  Workers = {w1, w2}
  Submitters = {s1, s2}
  Tasks = {t1, t2, t3}
  MaxSpurious = 1
SPECIFICATION FairSpec
INVARIANTS
  TypeOK
  QueueIsFifo
  NoPopOfEmptyQueue
  NoLostWakeup
  WorkConserving
  StopDrains
PROPERTIES
  ImplementsTaskQueue
  NoWorkAfterStop
  EveryTaskRuns
  StopReturnsOrMissesAWorker
CHECK_DEADLOCK FALSE
