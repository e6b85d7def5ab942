CONSTANTS
    Groups = {g}
    NoGroup = NoGroup
    All = All
    g = g
    Bytes <- MCBytes
    MaxRequests = 3
    MaxEpoch = 1
    MaxBatch = 2
    DiscardCauses = {"QueuePressure"}
    EndCauses = {"ExplicitStop"}
SPECIFICATION Spec
INVARIANTS
    RequestsExact
    BytesExact
    ConfirmedWithinWritten
