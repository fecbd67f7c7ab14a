SPECIFICATION FairSpec
CONSTANTS
  Threads = {t1, t2, t3, t4}
  Nobody = Nobody
INVARIANTS CountExact NoLostWakeup
PROPERTIES MutexSpec FreeLockTaken
