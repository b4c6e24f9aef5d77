----------------------------- MODULE DataCache -----------------------------
(***************************************************************************)
(* The data cache of pwruntime/cache.go: one CacheStore and the goroutines *)
(* that use it.  The store is a map of entries, a queue that approximates  *)
(* insertion age, a reverse index from tags to keys, all under one         *)
(* RWMutex, and a sync.Map of flights that coalesces concurrent misses.    *)
(*                                                                         *)
(* Each action is one critical section, one sync.Map operation or one      *)
(* channel operation of the code, so every interleaving of the code's      *)
(* goroutines is an interleaving of actions.                               *)
(*                                                                         *)
(* The queue `order' keeps the position a key was appended at: it is a     *)
(* function from the positions still held to keys, `tail' is the next      *)
(* position and `head' the first one eviction has not passed.  Compaction  *)
(* drops positions and renumbers none, which leaves their order as the     *)
(* code's copy into order[:0] does.                                        *)
(***************************************************************************)
EXTENDS Integers, FiniteSets

CONSTANTS
    Callers,     \* requests calling the store
    Subjects,    \* authenticated readers
    Anonymous,   \* the subject of a request nobody signed in for
    SubjectOf,   \* the reader of each caller
    Types,       \* result types of call sites
    TypeOf,      \* the type each caller decodes into
    Ids,         \* typed keys before the scope is prepended
    Tags,        \* invalidation tags
    TagsOf,      \* what CacheTags() returns for an id under a caller's key type
    FlightIds,   \* names of cacheFlight values
    Shared,      \* the blank scope of a public store
    Scoped,      \* TRUE for a private store
    TTL,         \* CacheStoreConfig.TTL, at least one tick
    Stale,       \* CacheStoreConfig.Stale
    Max,         \* CacheStoreConfig.MaxEntries, 0 is unbounded
    Slack,       \* the 16 of compactLocked
    None,        \* no entry, no flight, no answer
    MaxTime,     \* bound on the clock
    MaxVersion,  \* bound on upstream writes
    MaxCalls     \* bound on calls of the store's API

ASSUME ConstantAssumption ==
    /\ Scoped \in BOOLEAN
    /\ Anonymous \notin Subjects
    /\ Shared \notin Subjects
    /\ SubjectOf \in [Callers -> Subjects \cup {Anonymous}]
    /\ TypeOf \in [Callers -> Types]
    /\ TagsOf \in [Callers -> [Ids -> SUBSET Tags]]
    /\ TTL \in Nat \ {0} /\ Stale \in Nat /\ Max \in Nat /\ Slack \in Nat
    /\ MaxTime \in Nat /\ MaxVersion \in Nat /\ MaxCalls \in Nat
    /\ IsFiniteSet(Subjects) /\ IsFiniteSet(Ids)

VARIABLES
    entries,     \* entries, order, head, tail, tagged: the fields under mu
    order,
    head,
    tail,
    tagged,
    flights,     \* the sync.Map: key -> registered flight
    flight,      \* each cacheFlight and where its goroutine stands
    caller,      \* where each caller's Get or Has stands
    background,  \* the goroutine revalidate started for a caller's stale hit
    now,
    upstream,    \* the version the upstream holds of each id
    calls,       \* API calls made so far
    floor        \* history: the upstream's version when a key was last invalidated

store == <<entries, order, head, tail, tagged>>
vars == <<store, flights, flight, caller, background, now, upstream, calls, floor>>

-----------------------------------------------------------------------------
(* A stored key is the scope followed by the typed key; the build identity *)
(* between them is the same for every key of one process.                  *)
Scopes == IF Scoped THEN Subjects ELSE {Shared}
Keys == Scopes \X Ids

\* key(): a private store reached without a reader stores nothing.
Storable(c) == ~Scoped \/ SubjectOf[c] # Anonymous
\* Mutant: one scope for every reader.
KeyOfOneScope(c, id) == <<CHOOSE s \in Scopes : TRUE, id>>

KeyOf(c, id) == <<IF Scoped THEN SubjectOf[c] ELSE Shared, id>>

\* What one fetch returned: for whom, how recent, encoded from which type.
Values == [reader : Subjects \cup {Anonymous}, version : Nat, type : Types]

\* cacheEntry; `by' is history, telling a fetch's put from a Set's.
Entries == [value : Values, fresh : Nat, stale : Nat,
            tags : SUBSET Tags, by : {"fetch", "set"}]

\* None differs from whatever it stands in for the absence of.
ASSUME NoneAssumption ==
    /\ None \notin Entries /\ None \notin Values /\ None \notin Keys
    /\ None \notin FlightIds /\ None \notin [key : Keys, id : Ids]

Live(e) == {k \in Keys : e[k] # None}
IsFresh(k) == entries[k] # None /\ now < entries[k].fresh
PastStale(k) == entries[k] # None /\ entries[k].stale <= now

\* The keys the queue's positions from a up to b (exclusive) name.
SlotKeys(ord, a, b) == {ord[p] : p \in {q \in DOMAIN ord : a <= q /\ q < b}}

\* Mutant: the rebuild starts after the front of the queue.
CompactSkipsFront(ord, hd, live) ==
    IF Cardinality(DOMAIN ord) <= 2 * Cardinality(live) + Slack
    THEN ord
    ELSE [p \in {q \in DOMAIN ord : hd < q /\ ord[q] \in live} |-> ord[p]]

\* compactLocked: forget passed and dead positions once most are dead.
Compact(ord, hd, live) ==
    LET held == {p \in DOMAIN ord : hd <= p}
    IN  IF Cardinality(held) <= 2 * Cardinality(live) + Slack
        THEN ord
        ELSE [p \in {q \in held : ord[q] \in live} |-> ord[p]]

\* untagLocked for every key of a set, against the entries that hold their tags.
Untagged(tg, e, keys) ==
    [t \in Tags |-> tg[t] \ {k \in keys : e[k] # None /\ t \in e[k].tags}]

\* removeLocked for every key of a set.
RemoveLocked(keys) ==
    /\ tagged' = Untagged(tagged, entries, keys)
    /\ entries' = [k \in Keys |-> IF k \in keys THEN None ELSE entries[k]]

\* delete and the removal in get: no compaction follows.
Delete(keys) ==
    /\ RemoveLocked(keys)
    /\ UNCHANGED <<order, head, tail>>

\* deletePrefix: every key of one scope, then compactLocked.
DeletePrefix(scope) ==
    /\ RemoveLocked({k \in Live(entries) : k[1] = scope})
    /\ order' = Compact(order, head, Live(entries'))
    /\ UNCHANGED <<head, tail>>

\* Mutant: entries go without leaving the other tags' indexes.
DeleteTagBare(tag) ==
    /\ entries' = [k \in Keys |-> IF k \in tagged[tag] THEN None ELSE entries[k]]
    /\ tagged' = [tagged EXCEPT ![tag] = {}]
    /\ order' = Compact(order, head, Live(entries'))
    /\ UNCHANGED <<head, tail>>

\* deleteTag: every key the tag names, the tag itself, then compactLocked.
DeleteTag(tag) ==
    /\ entries' = [k \in Keys |-> IF k \in tagged[tag] THEN None ELSE entries[k]]
    /\ tagged' = [Untagged(tagged, entries, tagged[tag]) EXCEPT ![tag] = {}]
    /\ order' = Compact(order, head, Live(entries'))
    /\ UNCHANGED <<head, tail>>

\* Mutant: no second look under the write lock.
RemoveExpiredBlindly(k) == Delete({k})

\* get's write-locked half: another goroutine may have replaced the entry.
RemoveExpired(k) ==
    IF PastStale(k) THEN Delete({k}) ELSE UNCHANGED store

\* Mutant: the loop stops one entry early.
FitsOneMore(e, ord, h) ==
    Max = 0 \/ Cardinality(Live(e) \ SlotKeys(ord, head, h)) <= Max + 1

\* The eviction loop of put stops when the store fits.
Fits(e, ord, h) ==
    Max = 0 \/ Cardinality(Live(e) \ SlotKeys(ord, head, h)) <= Max

\* put: insert, index, evict from the front of the queue, compact.
Put(k, value, tags, by) ==
    LET entry == [value |-> value, fresh |-> now + TTL, stale |-> now + TTL + Stale,
                  tags |-> tags, by |-> by]
        added == [entries EXCEPT ![k] = entry]
        last == IF entries[k] = None THEN tail + 1 ELSE tail
        ord == [p \in DOMAIN order \cup tail .. (last - 1) |->
                  IF p = tail THEN k ELSE order[p]]
        cleared == Untagged(tagged, entries, {k})
        indexed == [t \in Tags |-> IF t \in tags THEN cleared[t] \cup {k} ELSE cleared[t]]
    IN  \E h \in head .. last :
          /\ Fits(added, ord, h) \/ h = last
          /\ \A g \in head .. (h - 1) : ~Fits(added, ord, g)
          /\ LET gone == SlotKeys(ord, head, h)
             IN  /\ entries' = [x \in Keys |-> IF x \in gone THEN None ELSE added[x]]
                 /\ tagged' = Untagged(indexed, added, gone)
                 /\ order' = Compact(ord, h, Live(entries'))
                 /\ head' = h
                 /\ tail' = last

-----------------------------------------------------------------------------
CallerPC == {"idle", "expire", "drop", "revalidate", "miss", "wait"}
FlightPC == {"free", "check", "expire", "fetch", "store", "deregister", "close", "closed"}

IdleCaller == [pc |-> "idle", key |-> None, id |-> None, flight |-> None,
               answer |-> None, then |-> "idle"]
FreeFlight == [pc |-> "free", key |-> None, id |-> None, tags |-> {},
               reader |-> None, type |-> None, value |-> None]

Init ==
    /\ entries = [k \in Keys |-> None]
    /\ order = [p \in {} |-> None]
    /\ head = 0 /\ tail = 0
    /\ tagged = [t \in Tags |-> {}]
    /\ flights = [k \in Keys |-> None]
    /\ flight = [f \in FlightIds |-> FreeFlight]
    /\ caller = [c \in Callers |-> IdleCaller]
    /\ background = [c \in Callers |-> None]
    /\ now = 0
    /\ upstream = [id \in Ids |-> 0]
    /\ calls = 0
    /\ floor = [k \in Keys |-> 0]

\* A caller that is between calls enters the API.
Enter(c) ==
    /\ caller[c].pc = "idle"
    /\ calls < MaxCalls
    /\ calls' = calls + 1

\* What a fetch made for caller c sees of the upstream now.
Current(c, id) == [reader |-> SubjectOf[c], version |-> upstream[id], type |-> TypeOf[c]]

Step(c, pc) == caller' = [caller EXCEPT ![c].pc = pc]
Return(c, answer) == caller' = [caller EXCEPT ![c] = [IdleCaller EXCEPT !.answer = answer]]

\* Get by an anonymous request of a private store fetches and stores nothing.
GetBypass(c, id) ==
    /\ ~Storable(c)
    /\ Enter(c)
    /\ Return(c, Current(c, id))
    /\ UNCHANGED <<store, flights, flight, background, now, upstream, floor>>

\* Get up to and including the read lock of get, and what it decides on.
GetRead(c, id) ==
    LET k == KeyOf(c, id)
        e == entries[k]
        call == [IdleCaller EXCEPT !.key = k, !.id = id]
    IN  /\ Storable(c)
        /\ background[c] = None
        /\ Enter(c)
        /\ caller' = [caller EXCEPT ![c] =
             IF e = None THEN [call EXCEPT !.pc = "miss"]
             ELSE IF PastStale(k) THEN [call EXCEPT !.pc = "expire", !.then = "miss"]
             ELSE IF e.value.type # TypeOf[c] THEN [call EXCEPT !.pc = "drop"]
             ELSE IF IsFresh(k) THEN [IdleCaller EXCEPT !.answer = e.value]
             ELSE [call EXCEPT !.pc = "revalidate", !.answer = e.value]]
        /\ UNCHANGED <<store, flights, flight, background, now, upstream, floor>>

\* Has is get alone.
HasRead(c, id) ==
    LET k == KeyOf(c, id)
    IN  /\ Storable(c)
        /\ PastStale(k)
        /\ Enter(c)
        /\ caller' = [caller EXCEPT ![c] =
                        [IdleCaller EXCEPT !.pc = "expire", !.key = k, !.id = id]]
        /\ UNCHANGED <<store, flights, flight, background, now, upstream, floor>>

\* get's removal of an entry past its stale deadline, under the write lock.
GetExpire(c) ==
    /\ caller[c].pc = "expire"
    /\ RemoveExpired(caller[c].key)
    /\ Step(c, caller[c].then)
    /\ UNCHANGED <<flights, flight, background, now, upstream, calls, floor>>

\* Get met a value of another type: drop it and go on as a miss.
GetDrop(c) ==
    /\ caller[c].pc = "drop"
    /\ Delete({caller[c].key})
    /\ Step(c, "miss")
    /\ UNCHANGED <<flights, flight, background, now, upstream, calls, floor>>

\* revalidate: unless a flight is registered, `go s.do(...)'; then answer stale.
GetRevalidate(c) ==
    /\ caller[c].pc = "revalidate"
    /\ background' = [background EXCEPT ![c] =
                        IF flights[caller[c].key] = None
                        THEN [key |-> caller[c].key, id |-> caller[c].id] ELSE None]
    /\ Return(c, caller[c].answer)
    /\ UNCHANGED <<store, flights, flight, now, upstream, calls, floor>>

\* A cacheFlight nobody refers to any more; allocation takes one.
Unreferenced(f) ==
    /\ flight[f].pc \in {"free", "closed"}
    /\ \A c \in Callers : caller[c].flight # f

\* LoadOrStore of a new flight for key k, fetching on behalf of caller c.
Register(c, k, id, f) ==
    /\ flights[k] = None
    /\ Unreferenced(f)
    /\ flights' = [flights EXCEPT ![k] = f]
    /\ flight' = [flight EXCEPT ![f] =
                    [pc |-> "check", key |-> k, id |-> id, tags |-> TagsOf[c][id],
                     reader |-> SubjectOf[c], type |-> TypeOf[c], value |-> None]]

\* do, as the caller that starts the flight.
DoStart(c) ==
    /\ caller[c].pc = "miss"
    /\ \E f \in FlightIds :
         /\ Register(c, caller[c].key, caller[c].id, f)
         /\ caller' = [caller EXCEPT ![c].pc = "wait", ![c].flight = f]
    /\ UNCHANGED <<store, background, now, upstream, calls, floor>>

\* do, as a caller that finds a flight.
DoJoin(c) ==
    /\ caller[c].pc = "miss"
    /\ flights[caller[c].key] # None
    /\ caller' = [caller EXCEPT ![c].pc = "wait", ![c].flight = flights[caller[c].key]]
    /\ UNCHANGED <<store, flights, flight, background, now, upstream, calls, floor>>

\* Mutant: a revalidation replaces a flight instead of joining it.
DoBackgroundReplaces(c) ==
    /\ background[c] # None
    /\ \E f \in FlightIds :
         /\ Unreferenced(f)
         /\ flights' = [flights EXCEPT ![background[c].key] = f]
         /\ flight' = [flight EXCEPT ![f] =
              [pc |-> "check", key |-> background[c].key, id |-> background[c].id,
               tags |-> {}, reader |-> SubjectOf[c], type |-> TypeOf[c], value |-> None]]
    /\ background' = [background EXCEPT ![c] = None]
    /\ UNCHANGED <<store, caller, now, upstream, calls, floor>>

\* do in the goroutine revalidate started: nobody waits for what it starts.
DoBackground(c) ==
    /\ background[c] # None
    /\ IF flights[background[c].key] = None
       THEN \E f \in FlightIds : Register(c, background[c].key, background[c].id, f)
       ELSE UNCHANGED <<flights, flight>>
    /\ background' = [background EXCEPT ![c] = None]
    /\ UNCHANGED <<store, caller, now, upstream, calls, floor>>

\* The waiter's select on done: value, error, or a value it cannot decode.
WaitDone(c) ==
    /\ caller[c].pc = "wait"
    /\ flight[caller[c].flight].pc = "closed"
    /\ LET v == flight[caller[c].flight].value
       IN  Return(c, IF v # None /\ v.type = TypeOf[c] THEN v ELSE None)
    /\ UNCHANGED <<store, flights, flight, background, now, upstream, calls, floor>>

\* The waiter's select on ctx.Done().
WaitCancelled(c) ==
    /\ caller[c].pc = "wait"
    /\ Return(c, None)
    /\ UNCHANGED <<store, flights, flight, background, now, upstream, calls, floor>>

-----------------------------------------------------------------------------
(* The goroutine of a flight. *)

FlightStep(f, pc) == flight' = [flight EXCEPT ![f].pc = pc]

\* Mutant: the goroutine fetches without reading the store again.
FlightCheckSkipped(f) ==
    /\ flight[f].pc = "check"
    /\ FlightStep(f, "fetch")
    /\ UNCHANGED <<store, flights, caller, background, now, upstream, calls, floor>>

\* Read the store again: a previous flight may have stored since the miss.
FlightCheck(f) ==
    LET k == flight[f].key
    IN  /\ flight[f].pc = "check"
        /\ IF IsFresh(k)
           THEN flight' = [flight EXCEPT ![f].pc = "deregister",
                                         ![f].value = entries[k].value]
           ELSE FlightStep(f, IF PastStale(k) THEN "expire" ELSE "fetch")
        /\ UNCHANGED <<store, flights, caller, background, now, upstream, calls, floor>>

FlightExpire(f) ==
    /\ flight[f].pc = "expire"
    /\ RemoveExpired(flight[f].key)
    /\ FlightStep(f, "fetch")
    /\ UNCHANGED <<flights, caller, background, now, upstream, calls, floor>>

\* The fetch and its encoding succeed with what the upstream held.
FlightFetch(f) ==
    /\ flight[f].pc = "fetch"
    /\ flight' = [flight EXCEPT ![f].pc = "store",
                                ![f].value = [reader |-> flight[f].reader,
                                              version |-> upstream[flight[f].id],
                                              type |-> flight[f].type]]
    /\ UNCHANGED <<store, flights, caller, background, now, upstream, calls, floor>>

\* Mutant: an error is stored as a result.
FlightFailStores(f) ==
    /\ flight[f].pc = "fetch"
    /\ FlightStep(f, "store")
    /\ UNCHANGED <<store, flights, caller, background, now, upstream, calls, floor>>

\* Mutant: a failed fetch returns past the deferred deregistration and wake.
FlightFailSilently(f) ==
    /\ flight[f].pc = "fetch"
    /\ FlightStep(f, "free")
    /\ UNCHANGED <<store, flights, caller, background, now, upstream, calls, floor>>

\* The fetch or its encoding fails, or the store's timeout ends it.
FlightFail(f) ==
    /\ flight[f].pc = "fetch"
    /\ FlightStep(f, "deregister")
    /\ UNCHANGED <<store, flights, caller, background, now, upstream, calls, floor>>

FlightStore(f) ==
    /\ flight[f].pc = "store"
    /\ Put(flight[f].key, flight[f].value, flight[f].tags, "fetch")
    /\ FlightStep(f, "deregister")
    /\ UNCHANGED <<flights, caller, background, now, upstream, calls, floor>>

FlightDeregister(f) ==
    /\ flight[f].pc = "deregister"
    /\ flights' = [flights EXCEPT ![flight[f].key] = None]
    /\ FlightStep(f, "close")
    /\ UNCHANGED <<store, caller, background, now, upstream, calls, floor>>

FlightClose(f) ==
    /\ flight[f].pc = "close"
    /\ FlightStep(f, "closed")
    /\ UNCHANGED <<store, flights, caller, background, now, upstream, calls, floor>>

-----------------------------------------------------------------------------
(* Writers, the upstream and the clock. *)

Set(c, id) ==
    /\ Storable(c)
    /\ Enter(c)
    /\ Put(KeyOf(c, id), Current(c, id), TagsOf[c][id], "set")
    /\ UNCHANGED <<flights, flight, caller, background, now, upstream, floor>>

Invalidate(c, id) ==
    /\ Storable(c)
    /\ Enter(c)
    /\ Delete({KeyOf(c, id)})
    /\ floor' = [floor EXCEPT ![KeyOf(c, id)] = upstream[id]]
    /\ UNCHANGED <<flights, flight, caller, background, now, upstream>>

InvalidateScope(c, scope) ==
    /\ Scoped
    /\ Enter(c)
    /\ DeletePrefix(scope)
    /\ UNCHANGED <<flights, flight, caller, background, now, upstream, floor>>

InvalidateTag(c, tag) ==
    /\ Enter(c)
    /\ DeleteTag(tag)
    /\ UNCHANGED <<flights, flight, caller, background, now, upstream, floor>>

UpstreamWrite(id) ==
    /\ upstream[id] < MaxVersion
    /\ upstream' = [upstream EXCEPT ![id] = @ + 1]
    /\ UNCHANGED <<store, flights, flight, caller, background, now, calls, floor>>

Tick ==
    /\ now < MaxTime
    /\ now' = now + 1
    /\ UNCHANGED <<store, flights, flight, caller, background, upstream, calls, floor>>

-----------------------------------------------------------------------------
GetNext(c) ==
    \/ \E id \in Ids : GetBypass(c, id) \/ GetRead(c, id) \/ HasRead(c, id)
    \/ GetExpire(c) \/ GetDrop(c) \/ GetRevalidate(c)
    \/ DoStart(c) \/ DoJoin(c) \/ WaitDone(c) \/ WaitCancelled(c)

FlightNext(f) ==
    \/ FlightCheck(f) \/ FlightExpire(f) \/ FlightFetch(f) \/ FlightFail(f)
    \/ FlightStore(f) \/ FlightDeregister(f) \/ FlightClose(f)

WriterNext(c) ==
    \/ \E id \in Ids : Set(c, id) \/ Invalidate(c, id)
    \/ \E scope \in Subjects : InvalidateScope(c, scope)
    \/ \E tag \in Tags : InvalidateTag(c, tag)

Next ==
    \/ \E c \in Callers : GetNext(c) \/ DoBackground(c) \/ WriterNext(c)
    \/ \E f \in FlightIds : FlightNext(f)
    \/ \E id \in Ids : UpstreamWrite(id)
    \/ Tick

Spec == Init /\ [][Next]_vars

(* Goroutines that can run do run, and a fetch ends because fetch_timeout  *)
(* bounds it.  Nothing obliges anybody to call the store, the upstream to  *)
(* change or a waiter to be cancelled.                                     *)
Fairness ==
    /\ \A c \in Callers :
         /\ WF_vars(GetExpire(c) \/ GetDrop(c) \/ GetRevalidate(c))
         /\ WF_vars(DoStart(c) \/ DoJoin(c))
         /\ WF_vars(WaitDone(c))
         /\ WF_vars(DoBackground(c))
    /\ \A f \in FlightIds : WF_vars(FlightNext(f))

FairSpec == Spec /\ Fairness

-----------------------------------------------------------------------------
StoreTypeOK ==
    /\ entries \in [Keys -> Entries \cup {None}]
    /\ tail \in Nat
    /\ head \in 0 .. tail
    /\ DOMAIN order \subseteq 0 .. (tail - 1)
    /\ order \in [DOMAIN order -> Keys]
    /\ tagged \in [Tags -> SUBSET Keys]

FlightRecords ==
    [pc : FlightPC, key : Keys \cup {None}, id : Ids \cup {None}, tags : SUBSET Tags,
     reader : Subjects \cup {Anonymous, None}, type : Types \cup {None},
     value : Values \cup {None}]
CallerRecords ==
    [pc : CallerPC, key : Keys \cup {None}, id : Ids \cup {None},
     flight : FlightIds \cup {None}, answer : Values \cup {None},
     then : {"idle", "miss"}]

TypeOK ==
    /\ StoreTypeOK
    /\ flights \in [Keys -> FlightIds \cup {None}]
    /\ flight \in [FlightIds -> FlightRecords]
    /\ caller \in [Callers -> CallerRecords]
    /\ background \in [Callers -> [key : Keys, id : Ids] \cup {None}]
    /\ now \in Nat /\ upstream \in [Ids -> Nat] /\ calls \in Nat /\ floor \in [Keys -> Nat]

(* The reverse index names exactly the entries that carry a tag.  deleteTag *)
(* relies on it both ways: a key left behind would let a later invalidation *)
(* delete an entry that never carried the tag, a key missing would survive  *)
(* one (the comment in deleteTag).                                          *)
TagIndexExact ==
    \A t \in Tags : tagged[t] = {k \in Live(entries) : t \in entries[k].tags}

(* Every live entry still has a position eviction has not passed, through   *)
(* removals, re-insertions and compactions.  An entry without one could     *)
(* never be evicted.                                                        *)
LiveHasSlot == Live(entries) \subseteq SlotKeys(order, head, tail)

(* The store never holds more than MaxEntries between two operations,       *)
(* though put's eviction loop also stops when the queue runs out.           *)
EntriesBounded == Max > 0 => Cardinality(Live(entries)) <= Max

Flying == {"check", "expire", "fetch", "store", "deregister"}

(* Misses coalesce: the flight of a key that is under way is the registered *)
(* one, so no two goroutines ever fetch one key at the same time, however   *)
(* misses, stale hits and finished flights interleave.                      *)
SingleFlight ==
    \A f, g \in FlightIds :
        /\ flight[f].pc \in Flying /\ flight[g].pc \in Flying
        /\ flight[f].key = flight[g].key
        => f = g

(* No flight fetches what an earlier flight has stored and is still fresh:  *)
(* the second read in do's goroutine and the order store, deregister, wake  *)
(* close the gap between a caller's miss and its registration.  Only a Set  *)
(* can put a fresh entry under a running fetch.                             *)
NoRedundantFetch ==
    \A f \in FlightIds :
        flight[f].pc \in {"fetch", "store"} /\ IsFresh(flight[f].key)
            => entries[flight[f].key].by = "set"

(* A private store answers a reader only with what was fetched or set for   *)
(* that reader, by way of entries, flights it joined and stale hits.        *)
PrivateIsolation ==
    \A c \in Callers :
        Scoped /\ caller[c].answer # None => caller[c].answer.reader = SubjectOf[c]

(* An entry that may still answer leaves the store only by a call of the    *)
(* API, an eviction or a reader that cannot decode it: get, which decided   *)
(* to expire it before taking the write lock, looks again and spares an     *)
(* entry that was replaced meanwhile.                                       *)
OnlyDeadlinesExpire ==
    [][\A k \in Keys :
         entries[k] # None /\ entries'[k] = None /\ ~PastStale(k) =>
             \/ calls' # calls
             \/ head' # head
             \/ \E c \in Callers : caller[c].pc = "drop" /\ caller[c].key = k]_vars

(* Every call that entered the store returns: a flight is always            *)
(* deregistered and its waiters woken, whether its fetch succeeds or fails. *)
CallsReturn == \A c \in Callers : caller[c].pc # "idle" ~> caller[c].pc = "idle"

(* What compactLocked's comment promises: "the queue cannot grow past the   *)
(* map it approximates", read with its own threshold and one appended key.  *)
QueueBounded == Max > 0 => Cardinality(DOMAIN order) <= 2 * Max + Slack + 1

(* What the guide's section on invalidating after a write promises: once    *)
(* the writer has invalidated a key, the store does not hold what the       *)
(* upstream returned before that.                                           *)
InvalidationHolds ==
    \A k \in Live(entries) : entries[k].value.version >= floor[k]

=============================================================================
