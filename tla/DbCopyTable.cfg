SPECIFICATION FairSpec
CONSTANTS
  MaxKey = 4
  DeleteSize = 2
  MaxFaults = 2
  Arguments <- MCArguments
INVARIANTS
  TypeOK
  OnlyActivated
  Mirrored
  OnlyObsoleteRemoved
  CommittedInTime
  FailsTolerated
PROPERTIES
  CopyEnds
CHECK_DEADLOCK FALSE
