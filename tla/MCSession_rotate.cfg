SPECIFICATION Spec
CONSTANTS
    r1 = r1
    r2 = r2
    login = login
    flag = flag
    None = None
    Keep = Keep
    Requests <- BothRequests
    Slots <- LoginAndFlag
    Private <- OnlyLogin
    Login = login
    ResetOnRotate = {}
    TTL = 3
    IdleTimeout = 2
    Renewal = 1
    TouchRewrites = FALSE
    MaxTokens = 3
    MaxTime = 1
    MaxOps = 3
    MaxFails = 0
SYMMETRY Symmetry
CHECK_DEADLOCK FALSE
INVARIANTS
    RotatedStaysRevoked
