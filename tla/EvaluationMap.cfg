SPECIFICATION Spec
CONSTANTS
    Count = 5
    Policies <- AllPolicies
    NoWorker = NoWorker
INVARIANTS
    TypeOK
    StartedIsPrefix
    DeliveredInOrder
PROPERTIES
    NothingAfterStop
    MapEnds
    ImplementsMap
CHECK_DEADLOCK FALSE
