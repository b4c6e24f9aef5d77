SPECIFICATION Spec
CONSTANTS
    r1 = r1
    r2 = r2
    old = old
    new = new
    Refresher = Refresher
    None = None
    Requests <- BothRequests
    Kids <- BothKids
    Documents <- OneRotation
    Discovers = TRUE
    CacheTTL = 1
    MaxStaleAge = 1
    RefreshCooldown = 2
    RequestTimeout = 1
    MaxTime = 7
INVARIANTS
    WithdrawnKeyDies
PROPERTIES
    UnknownFetchesSpaced
    ResolveEnds
