SPECIFICATION Spec
CONSTANTS
  MaxEpochs = 2
  MaxCommits = 5
  MaxRuns = 3
  BatchSize = 2
  Broken <- SecondBroken
  MayStop = TRUE
CHECK_DEADLOCK FALSE
INVARIANTS
  TypeOK
  PlainRunComplete
  PlainRunOnce
  NumbersUnique
