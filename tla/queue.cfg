SPECIFICATION FairSpec
CONSTANTS
  Threads = {t1, t2, t3}
  Nobody = Nobody
  MaxPushes = 3
INVARIANTS TypeOK FirstInFirstOut NoLostWakeup
PROPERTIES SomebodyIsServed KeepsQueuePromise
CHECK_DEADLOCK FALSE
