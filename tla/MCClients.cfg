\* Writes of the size of the threshold, so that two fill the limit and any two
\* meet backpressure; two runs, two connections, one retry.
SPECIFICATION Spec
CONSTANTS
    High = 2
    Low = 1
    Limit = 4
    MaxRetries = {1}
    MaxWrites = 2
    Sizes = {2}
    MaxRuns = 2
    MaxConns = 2
    MaxOps = 3
INVARIANTS
    WrittenOnOwnConnection
    ReservationsExact
    QueueHasDriver
    ConnectingHasDriver
    StopEnds
    SessionBytesExact
    ExpiryFences
CHECK_DEADLOCK FALSE
