\* A write and its invalidation while a fetch is under way.
SPECIFICATION Spec
CONSTANTS
    alice = alice  bob = bob  c1 = c1  c2 = c2  c3 = c3  c4 = c4
    u1 = u1  u2 = u2  t1 = t1  t2 = t2  quote = quote  user = user
    f1 = f1  f2 = f2
    Callers = {c1, c2}
    Subjects = {alice}
    Anonymous = Anonymous
    SubjectOf <- OneReader
    Types = {user}
    TypeOf <- OneType
    Ids = {u1}
    Tags = {}
    TagsOf <- NoTags
    FlightIds = {f1}
    Shared = Shared
    Scoped = TRUE
    TTL = 1
    Stale = 0
    Max = 1
    Slack = 0
    None = None
    MaxTime = 0
    MaxVersion = 1
    MaxCalls = 3
CHECK_DEADLOCK FALSE
INVARIANT InvalidationHolds
