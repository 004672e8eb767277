SPECIFICATION FairSpec
CONSTANTS
  Procs = {p1, p2, p3}
  NoProc = NoProc
  SpinTries = 1
  Semaphore = TRUE
  MaxSemErrors = 1
INVARIANTS
  MutualExclusion
  WakeupsBalance
  NoLostWakeup
PROPERTIES
  LockProgress
  ImplementsMutex
