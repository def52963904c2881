SPECIFICATION Spec
CONSTANTS
  MaxCursors = 3
  MaxStmts = 3
  MaxGens = 1
  ArraySize = 1
  CloseMayFail = TRUE
  OneShotCalls = {"query_single", "query_update"}
  ReuseKept = FALSE
  ResultSizes <- MCResultSizes
  MaxRows <- MCMaxRows
INVARIANTS
  TypeOK
  PoolInv
  SameLifeCycle
  KeptComplete
  OpenResultsKnown
  MaxRowsBound
PROPERTIES
  KeptUndisturbed
CHECK_DEADLOCK FALSE
