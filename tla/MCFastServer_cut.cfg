\* The sweep's two steps, with a request that arrives between them.
SPECIFICATION Spec
CONSTANTS
    c1 = c1
    c2 = c2
    Conns <- TwoConns
    MaxRequests = 1
    QueueSize = 2
    MaxExportSize = 2
CHECK_DEADLOCK FALSE
INVARIANTS
    NothingCut
