SPECIFICATION Spec
CONSTANTS
  MaxEpochs = 1
  MaxCommits = 4
  MaxRuns = 2
  BatchSize = 2
  Broken <- NoneBroken
  MayStop = TRUE
CHECK_DEADLOCK FALSE
INVARIANTS
  CompleteRun
