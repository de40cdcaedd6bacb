SPECIFICATION FairSpec
CONSTANTS
  Threads = {t1, t2, t3, t4}
  Limit = 2
  MaxGroup = 4
INVARIANTS CountExact NoReleasedSleeper
PROPERTIES ImplementsGroupBarrier
CHECK_DEADLOCK FALSE
