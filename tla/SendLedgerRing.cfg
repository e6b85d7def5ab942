CONSTANTS
    Tags = {a, b}
    NoTag = NoTag
    a = a
    b = b
    InitialSlots = 2
    MaxRequests = 5
SPECIFICATION Spec
INVARIANTS
    CapacityBounded
PROPERTIES
    ImplementsMap
    OperationsExact
