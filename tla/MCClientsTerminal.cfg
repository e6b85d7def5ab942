\* No retry beyond the first: the attempt that fails is the last.
SPECIFICATION Spec
CONSTANTS
    High = 2
    Low = 1
    Limit = 4
    MaxRetries = {0}
    MaxWrites = 1
    Sizes = {2}
    MaxRuns = 1
    MaxConns = 1
    MaxOps = 3
INVARIANTS
    ErrorIsFinal
CHECK_DEADLOCK FALSE
