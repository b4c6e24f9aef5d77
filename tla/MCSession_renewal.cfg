SPECIFICATION Spec
CONSTANTS
    r1 = r1
    r2 = r2
    login = login
    flag = flag
    None = None
    Keep = Keep
    Requests <- BothRequests
    Slots <- LoginAndFlag
    Private <- OnlyLogin
    Login = login
    ResetOnRotate = {}
    TTL = 3
    IdleTimeout = 2
    Renewal = 1
    TouchRewrites = TRUE
    MaxTokens = 1
    MaxTime = 2
    MaxOps = 3
    MaxFails = 0
CHECK_DEADLOCK FALSE
PROPERTIES
    ReadsKeepPayload
