SPECIFICATION Spec
CONSTANTS
  MaxId = 3
  WriteMode = "raw"
  MaxPerFile = 1
  RowGroupCap = 1
  Faults = {"crash", "write", "progress", "lineage", "network"}
  MaxFaults = 2
INVARIANTS
  NoLostEmail
  CleanStop
