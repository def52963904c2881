SPECIFICATION FairSpec
CONSTANTS
  MaxCursors = 2
  MaxStmts = 3
  MaxGens = 2
  ArraySize = 1
  CloseMayFail = FALSE
  OneShotCalls = {"query_single", "query_update"}
  ReuseKept = FALSE
  ResultSizes <- MCResultSizes
  MaxRows <- MCMaxRows
INVARIANTS
  NoLeak
PROPERTIES
  QueryReleases
CHECK_DEADLOCK FALSE
