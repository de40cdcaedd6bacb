SPECIFICATION FairSpec
CONSTANTS
  Threads = {t1, t2, t3, t4}
  TimedThreads = {t1}
  NoThread = NoThread
  GoneLimit = 3
  MaxTokens = 2
  MaxGone = 5
INVARIANTS TypeOK GateClosedWhileUnblocking
PROPERTIES WaitersAccounted OneTokenAtATime NotifyAllWakesAll GateReopens
CHECK_DEADLOCK FALSE
