SPECIFICATION FairSpec
CONSTANTS
  Threads = {t1, t2, t3}
  TimedThreads = {t1, t2, t3}
  NoThread = NoThread
  GoneLimit = 20
  MaxTokens = 2
  MaxGone = 20
PROPERTIES WaitEnds
CHECK_DEADLOCK FALSE
