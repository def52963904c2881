SPECIFICATION Spec
CONSTANTS
  MaxKey = 3
  DeleteSize = 2
  MaxFaults = 2
  Arguments <- Tolerant
INVARIANTS
  MissingReported
CHECK_DEADLOCK FALSE
