SPECIFICATION FairSpec
CONSTANTS
  Workers = {w1, w2, w3}
  w1 = w1
  w2 = w2
  w3 = w3
  Settings <- AllSettings
  Capacity = 2
  MaxDeaths = 3
INVARIANTS
  TypeOK
  AtMostOnce
  AllStarted
  OneWorkerPerList
  LateWorkBounded
PROPERTIES
  ShutdownTerminates
  OneShotTerminates
