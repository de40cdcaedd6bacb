SPECIFICATION FairSpec
CONSTANTS
  Threads = {t1, t2, t3, t4}
  TimedThreads = {t1, t2}
INVARIANTS MutualExclusion CountersExact
PROPERTIES NobodySleepsOnFreeMutex PreferredSideServed
