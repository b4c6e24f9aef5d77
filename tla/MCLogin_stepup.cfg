SPECIFICATION Spec
CONSTANTS
    r1 = r1
    r2 = r2
    alice = alice
    bob = bob
    None = None
    Keep = Keep
    Requests <- BothRequests
    Accounts <- BothAccounts
    MaxTxns = 2
    MaxSessions = 2
    MaxLogouts = 1
SYMMETRY Symmetry
CHECK_DEADLOCK FALSE
PROPERTY
    StepUpNeedsSession
