SPECIFICATION Spec
CONSTANTS
    r1 = r1
    r2 = r2
    login = login
    flag = flag
    None = None
    Keep = Keep
    Requests <- BothRequests
    Slots <- LoginAndFlag
    Private <- OnlyLogin
    Login = login
    ResetOnRotate = {}
    TTL = 3
    IdleTimeout = 2
    Renewal = 1
    TouchRewrites = FALSE
    MaxTokens = 3
    MaxTime = 4
    MaxOps = 2
    MaxFails = 1
SYMMETRY Symmetry
CHECK_DEADLOCK FALSE
PROPERTIES
    DeadTokensStayDead
    ReadsKeepPayload
    IdleEnforced
    AbsoluteEnforced
INVARIANTS
    TypeOK
    PromotedOnServer
