SPECIFICATION AppFairSpec
CONSTANTS
    o1 = o1
    o2 = o2
    Run = run
    Others <- TwoOthers
    Closers = 2
    EarlyStop = FALSE
    MaxActive = 2
CHECK_DEADLOCK FALSE
PROPERTIES
    CancelEndsRun
INVARIANTS
    AppTypeOK
    ClosedAfterDrain
    ShutdownIsComplete
