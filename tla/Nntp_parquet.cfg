SPECIFICATION FairSpec
CONSTANTS
  MaxId = 3
  WriteMode = "parquet"
  MaxPerFile = 2
  RowGroupCap = 2
  Faults = {"crash", "create", "write", "close", "progress", "lineage", "network"}
  MaxFaults = 1
INVARIANTS
  NntpTypeOK
  ProgressStored
  NoLostEmail
  CleanStop
PROPERTIES
  ProgressMonotone
  ImplementsArchive
  EventuallySettled
