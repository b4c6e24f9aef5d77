SPECIFICATION Spec
CONSTANTS
    r1 = r1
    r2 = r2
    jti = jti
    sub = sub
    None = None
    Requests <- BothRequests
    Tokens <- OneToken
    Subjects <- OneSubject
    SubjectOf <- ItsSubject
    IssuedAt <- Issued
    ExpiresAt <- Expires
    Forms <- BothForms
    MaxTokenLifetime = 5
    Leeway = 2
    MaxPropagationDelay = 1
    Admits = FALSE
    MaxEntries = 1
    StatementTime = 1
    MaxTime = 7
    MaxWrites = 1
    MaxFails = 0
SYMMETRY Symmetry
CHECK_DEADLOCK FALSE
INVARIANT
    RevokedWhileVerified
