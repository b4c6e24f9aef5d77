\* Entries, queue and tag index under eviction, invalidation and compaction.
SPECIFICATION Spec
CONSTANTS
    alice = alice  bob = bob  c1 = c1  c2 = c2  c3 = c3  c4 = c4
    u1 = u1  u2 = u2  t1 = t1  t2 = t2  quote = quote  user = user
    f1 = f1  f2 = f2
    Callers = {c1, c2, c3, c4}
    Subjects = {alice, bob}
    Anonymous = Anonymous
    SubjectOf <- Readers
    Types = {user}
    TypeOf <- OneType
    Ids = {u1, u2}
    Tags = {t1, t2}
    TagsOf <- SomeTags
    FlightIds = {f1}
    Shared = Shared
    Scoped = TRUE
    TTL = 1
    Stale = 0
    Max = 1
    Slack = 0
    None = None
    MaxTime = 0
    MaxVersion = 0
    MaxCalls = 5
CHECK_DEADLOCK FALSE
INVARIANTS TagIndexExact LiveHasSlot EntriesBounded PrivateIsolation
