SPECIFICATION Spec
CONSTANTS
  u1 = u1
  u2 = u2
  Uploaders = {u1}
  Shared = FALSE
  AutoCommit = FALSE
  MaxChanges = 4
  MaxFaults = 2
  RefusedCommits = {"drop"}
  BadValues = FALSE
  ModifyOnMulti = FALSE
  Configs <- StrictConfigs
INVARIANTS
  CommittedIsSaved
  SavedIsCommitted
  PendingIsCounted
PROPERTIES
  ImplementsAtomicBatches
CHECK_DEADLOCK FALSE
