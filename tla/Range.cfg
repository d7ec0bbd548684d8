\* Range mode with two workers, either source and write mode, a broken
\* connection, an I/O error or a kill, Ctrl+C, and a second start.
CONSTANTS
    Workers = {w1, w2}
    Tasks <- MCTasks
    Width <- MCWidth
    Sources = {"nntp", "pi"}
    Modes = {"raw", "parquet"}
    MaxFaults = 1
    MaxRestarts = 1
SPECIFICATION FairSpec
INVARIANTS
    StoredReadable
    ProgressStored
    NoSilentMiss
PROPERTIES
    RunEnds
