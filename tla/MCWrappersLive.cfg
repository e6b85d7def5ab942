SPECIFICATION LiveSpec
CONSTANTS
    BatchSize = 1
    MaxRuns = 1
    MaxConns = 1
PROPERTIES
    CallbackReturns
    StopReleases
CHECK_DEADLOCK FALSE
