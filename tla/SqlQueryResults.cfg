SPECIFICATION Spec
CONSTANTS
  MaxStmts = 5
  MaxAsked = 3
  Shapes <- MCShapes
  Sizes = {0, 1}
  Classes = {"csv", "sql", "xml", "xlsx"}
  ReuseBooks = FALSE
  Inputs <- MCInputs
  Meaning <- MCMeaning
  CommitNr = 2
  MaxQueries = 1
  Limits = {0, 1}
  MaxFaults = 1
  Programs = {"sql-query"}
INVARIANTS
  EachQueryWritten
CHECK_DEADLOCK FALSE
