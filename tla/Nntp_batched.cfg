SPECIFICATION Spec
CONSTANTS
  MaxId = 4
  WriteMode = "parquet"
  MaxPerFile = 3
  RowGroupCap = 2
  Faults = {"crash", "create", "write", "close", "progress", "network"}
  MaxFaults = 1
INVARIANTS
  LossBounded
  LossVisible
PROPERTIES
  RefetchOnlyLast
