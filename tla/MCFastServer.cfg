SPECIFICATION Spec
CONSTANTS
    c1 = c1
    c2 = c2
    Conns <- TwoConns
    MaxRequests = 2
    QueueSize = 2
    MaxExportSize = 2
CHECK_DEADLOCK FALSE
INVARIANTS
    TypeOK
    SpansAccounted
    YoungAreServed
    ClosedAfterHandlers
PROPERTIES
    StopEnds
