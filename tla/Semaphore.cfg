CONSTANTS
  Threads = {t1, t2, t3, t4}
  InitialCount = 1
  MaxCount = 3
SPECIFICATION SemFairSpec
INVARIANTS ChannelListsSleepers NoLostWakeup
PROPERTY WakeupIsConsumed
