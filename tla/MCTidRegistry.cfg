SPECIFICATION Spec
CONSTANTS
  Tids = {t1, t2, t3}
  Names = {n1, n2}
  NoTid = NoTid
  MaxNames = 3
INVARIANTS NameIsListed NoNameForDefunct
CHECK_DEADLOCK FALSE
