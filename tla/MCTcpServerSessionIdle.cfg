CONSTANTS
    BackpressureThreshold = 2
    DEFAULT_BACKPRESSURE_THRESHOLD = 1
    MAX_BUFFER_SIZE = 5
    kMaxGatherBuffers = 2
    kMaxGatherBytes = 2
    IdleTimeout = TRUE
    WithCancel = TRUE
    MaxRequests = 1
    MaxSize = 2
SPECIFICATION SessionFairSpec
INVARIANTS
    CloseToldOnce
    IdleHasDeadline
PROPERTIES
    StopCompletes
    LossTold
