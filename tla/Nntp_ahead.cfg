SPECIFICATION Spec
CONSTANTS
  MaxId = 3
  WriteMode = "parquet"
  MaxPerFile = 3
  RowGroupCap = 1
  Faults = {"crash"}
  MaxFaults = 1
INVARIANTS
  ProgressStored
