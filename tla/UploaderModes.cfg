SPECIFICATION Spec
CONSTANTS
  u1 = u1
  u2 = u2
  Uploaders = {u1, u2}
  Shared = TRUE
  AutoCommit = FALSE
  MaxChanges = 3
  MaxFaults = 1
  RefusedCommits = {"drop"}
  BadValues = TRUE
  ModifyOnMulti = TRUE
  Configs <- AllConfigs
INVARIANTS
  TypeOK
  AtMostOnce
  PipeInOrder
CHECK_DEADLOCK FALSE
