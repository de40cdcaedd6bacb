SPECIFICATION FairSpec
CONSTANTS
  Threads = {t1, t2, t3}
  TimedThreads = {t1, t2}
PROPERTY SetResumesSleepers
