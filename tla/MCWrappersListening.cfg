SPECIFICATION Spec
CONSTANTS
    BatchSize = 2
    MaxRuns = 2
    MaxConns = 1
INVARIANTS
    StoppedNotListening
CHECK_DEADLOCK FALSE
