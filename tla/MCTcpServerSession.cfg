CONSTANTS
    BackpressureThreshold = 2
    DEFAULT_BACKPRESSURE_THRESHOLD = 1
    MAX_BUFFER_SIZE = 5
    kMaxGatherBuffers = 2
    kMaxGatherBytes = 2
    IdleTimeout = FALSE
    WithCancel = FALSE
    MaxRequests = 3
    MaxSize = 2
SPECIFICATION SessionSpec
INVARIANTS
    TypeOK
    HardLimit
    AcceptedNotRejected
    PressureHasDriver
    BackpressureReported
    LossPhaseIsTrue
    FamilyOrder
    CountersExact
PROPERTIES
    NoHandoffAfterClose
    OutcomeIsFinal
