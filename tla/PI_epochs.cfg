SPECIFICATION Spec
CONSTANTS
  MaxEpochs = 2
  MaxCommits = 4
  MaxRuns = 1
  BatchSize = 2
  Broken <- NoneBroken
  MayStop = FALSE
CHECK_DEADLOCK FALSE
INVARIANTS
  CompleteRun
