SPECIFICATION Spec
CONSTANTS
  Tids = {t1, t2, t3}
  Names = {n1, n2}
  NoTid = NoTid
  MaxNames = 3
PROPERTIES NameKept
CHECK_DEADLOCK FALSE
