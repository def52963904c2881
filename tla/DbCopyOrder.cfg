SPECIFICATION FairSpec
CONSTANTS
  t1 = t1
  t2 = t2
  t3 = t3
  Tables = {t1, t2, t3}
  Cyclic = FALSE
INVARIANTS
  TypeOK
  FKOrder
  CopiedOnce
  DropsBounded
PROPERTIES
  Terminates
CHECK_DEADLOCK FALSE
