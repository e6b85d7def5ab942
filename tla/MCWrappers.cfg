SPECIFICATION Spec
CONSTANTS
    BatchSize = 2
    MaxRuns = 2
    MaxConns = 2
INVARIANTS
    CallbacksFenced
    FuturesSettled
    BatchHasTimer
    NothingMissed
CHECK_DEADLOCK FALSE
