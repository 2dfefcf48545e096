SPECIFICATION Spec
CONSTANTS
    w1 = w1
    w2 = w2
    Workers <- MCWorkers
    Sender = sender
    BulkSize = 2
    Nodes = 2
    MaxOffset = 2
    MaxCrashes = 1
INVARIANTS
    TypeOK
    OnePlace
    NoSleepOverWork
    NoDuplicates
PROPERTIES
    ImplementsDelivery
    ShutdownEnds
