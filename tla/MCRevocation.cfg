SPECIFICATION Spec
CONSTANTS
    r1 = r1
    r2 = r2
    jti = jti
    sub = sub
    None = None
    Requests <- BothRequests
    Tokens <- OneToken
    Subjects <- OneSubject
    SubjectOf <- ItsSubject
    IssuedAt <- Issued
    ExpiresAt <- Expires
    Forms <- BothForms
    MaxTokenLifetime = 5
    Leeway = 1
    MaxPropagationDelay = 1
    Admits = FALSE
    MaxEntries = 1
    StatementTime = 1
    MaxTime = 6
    MaxWrites = 2
    MaxFails = 1
SYMMETRY Symmetry
CHECK_DEADLOCK FALSE
INVARIANTS
    TypeOK
    RevokedStaysOut
    RefusalHasRow
