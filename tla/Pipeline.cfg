SPECIFICATION FairSpec
CONSTANTS
  a = a
  b = b
  Lists = {a}
  Count <- MCCount
  Bad <- MCBad
  Held = 3
  MaxBatch = 2
  MaxSlice = 2
  MaxFaults = 1
INVARIANTS
  TypeOK
  Accounted
  OutputsAreSnapshots
  MapMatchesData
  ExitTellsTruth
  
PROPERTIES
  RunsEnd
