SPECIFICATION Spec
CONSTANTS
  Aliases = {"a", "b"}
  Awkward = {"b"}
  Keys = {"k1", "k2", "k32"}
  Whole = {"k32"}
  NoKey = "none"
  Ring = TRUE
  MaxRuns = 4
  FirstFiles <- MCFirstFiles
INVARIANTS
  TypeOK
  NeverTwiceEncrypted
  LoginsKeepWorking
CHECK_DEADLOCK FALSE
