SPECIFICATION Spec
CONSTANTS
  Jobs <- MCJobs
  MaxUploads = 2
  Names = {"T", "t"}
  KeyName = "ID"
  BadCells = {8}
  MaxOutside = 1
  MaxFaults = 1
INVARIANTS
  TypeOK
  CounterKeysFresh
PROPERTIES
  UploadStored
  UploadsEnd
CHECK_DEADLOCK FALSE
