CONSTANTS
  Threads = {t1, t2, t3, t4}
  NoThread = NoThread
  InitialCount = 1
  MaxCount = 1
SPECIFICATION LockFairSpec
INVARIANTS MutualExclusion NoStrandedSleeper
PROPERTIES IsMonitor LockProgress
CHECK_DEADLOCK FALSE
