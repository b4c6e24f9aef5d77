------------------------------- MODULE KeySet -------------------------------
(***************************************************************************)
(* RemoteKeySet of contrib/jwt/keysource.go: the verification keys of an   *)
(* issuer, fetched over the network, cached, and refreshed by whichever    *)
(* request finds them too old or finds a kid missing.                      *)
(*                                                                         *)
(* `cache' is what the mutex guards, `snapshot' the copy that a fresh      *)
(* cache is read from without it.  sync.Mutex hands itself over in order   *)
(* of arrival once a waiter has waited a millisecond, far below the time   *)
(* of a fetch, so the mutex is a queue whose head holds it.  A fetch is    *)
(* three steps: the request leaves, the issuer answers with the document   *)
(* it publishes at that moment, and the answer arrives.                    *)
(***************************************************************************)
EXTENDS Integers, Sequences, FiniteSets

CONSTANTS
    Requests,        \* requests that verify a token
    Refresher,       \* the goroutine of refreshInBackground
    Kids,            \* key identifiers a token may name
    Documents,       \* the key sets the issuer publishes, one after the other
    Discovers,       \* the key set URI comes from a metadata document
    CacheTTL, MaxStaleAge, RefreshCooldown, RequestTimeout,
    None,            \* no keys, no document, no time
    MaxTime          \* bound on the clock

KeySets == {Documents[i] : i \in DOMAIN Documents}

ASSUME KeySetAssumption ==
    /\ Refresher \notin Requests /\ IsFiniteSet(Requests)
    /\ Documents \in Seq(SUBSET Kids) /\ Len(Documents) >= 1
    /\ Discovers \in BOOLEAN
    /\ CacheTTL \in Nat \ {0} /\ MaxStaleAge \in Nat \ {0}
    /\ RefreshCooldown \in Nat \ {0} /\ RequestTimeout \in Nat \ {0}
    /\ MaxTime \in Nat
    /\ None \notin KeySets /\ None \notin Kids /\ None \notin 0 .. MaxTime

VARIABLES
    now,
    version,      \* which document the issuer publishes
    cache,        \* keys, fetchedAt, lastAttempt, refreshing, and whether the URI is known
    snapshot,     \* keysSnapshot, its keys None for a nil pointer
    queue,        \* the mutex: its holder and those who wait for it
    resolve,      \* the state of each request's Resolve
    background,   \* the state of refreshInBackground
    withdrawn,    \* history: when each kid left the published document
    lastFetch     \* history: when a request last left for the issuer's keys

vars == <<now, version, cache, snapshot, queue, resolve, background, withdrawn, lastFetch>>

-----------------------------------------------------------------------------
Idle == [pc |-> "idle", kid |-> None, origin |-> None, since |-> 0, doc |-> None]
Resting == [pc |-> "idle", since |-> 0, doc |-> None]
NoSnapshot == [keys |-> None, fetchedAt |-> 0]

\* NewRemoteKeySet: nothing is fetched, and Go's zero time is long ago.
Init ==
    /\ now = 0
    /\ version = 1
    /\ cache = [keys |-> None, fetchedAt |-> 0, lastAttempt |-> 0 - RefreshCooldown,
                refreshing |-> FALSE, known |-> ~Discovers]
    /\ snapshot = NoSnapshot
    /\ queue = <<>>
    /\ resolve = [r \in Requests |-> Idle]
    /\ background = Resting
    /\ withdrawn = [k \in Kids |-> None]
    /\ lastFetch = 0 - RefreshCooldown

Become(r, q) == resolve' = [resolve EXCEPT ![r] = q]
Holds(p) == queue # <<>> /\ Head(queue) = p
Lock(p) == queue' = Append(queue, p)
Unlock == queue' = Tail(queue)

\* publish: the snapshot mirrors the cache.
Publish(c) ==
    snapshot' = IF c.keys = None THEN NoSnapshot
                ELSE [keys |-> c.keys, fetchedAt |-> c.fetchedAt]

Resolved(r) == [Idle EXCEPT !.pc = "resolved", !.kid = resolve[r].kid]
Refused(r) == [Idle EXCEPT !.pc = "refused", !.kid = resolve[r].kid]
Unknown(r) == [Idle EXCEPT !.pc = "unknown", !.kid = resolve[r].kid]

\* current has returned `keys' and released the mutex: the kid is among them,
\* or the request takes the mutex again in refreshForUnknownKey.
LeaveCurrent(r, keys) ==
    IF resolve[r].kid \in keys
    THEN Become(r, Resolved(r)) /\ Unlock
    ELSE Become(r, Unknown(r)) /\ queue' = Append(Tail(queue), r)

-----------------------------------------------------------------------------
(* Resolve and current.                                                    *)

\* Resolve, as far as the load of the snapshot: a fresh one answers.
Resolve(r, k) ==
    LET fresh == snapshot.keys # None /\ now - snapshot.fetchedAt < CacheTTL
        found == fresh /\ k \in snapshot.keys
    IN  /\ resolve[r].pc = "idle"
        /\ Become(r, [Idle EXCEPT !.pc = IF found THEN "resolved"
                                         ELSE IF fresh THEN "unknown" ELSE "current",
                                  !.kid = k])
        /\ IF found THEN UNCHANGED queue ELSE Lock(r)
        /\ UNCHANGED <<now, version, cache, snapshot, background, withdrawn, lastFetch>>

Age == now - cache.fetchedAt

\* current, under the mutex: a set that another request has just stored.
CurrentFresh(r) ==
    /\ resolve[r].pc = "current" /\ Holds(r)
    /\ cache.keys # None /\ Age < CacheTTL
    /\ LeaveCurrent(r, cache.keys)
    /\ UNCHANGED <<now, version, cache, snapshot, background, withdrawn, lastFetch>>

InStaleWindow == Age >= CacheTTL /\ Age <= CacheTTL + MaxStaleAge

\* current: a set inside the stale window serves while one goroutine refreshes.
CurrentStale(r) ==
    /\ resolve[r].pc = "current" /\ Holds(r)
    /\ cache.keys # None /\ InStaleWindow
    /\ IF cache.refreshing
       THEN UNCHANGED <<cache, background, lastFetch>>
       ELSE /\ cache' = [cache EXCEPT !.refreshing = TRUE, !.lastAttempt = now]
            /\ background' = [Resting EXCEPT !.pc = "fetch", !.since = now]
            /\ lastFetch' = now
    /\ LeaveCurrent(r, cache.keys)
    /\ UNCHANGED <<now, version, snapshot, withdrawn>>

\* fetchLocked begins, the mutex held: it stamps the attempt and asks for the
\* metadata document when the URI is not known yet.
BeginFetch(r, origin, c) ==
    /\ cache' = [c EXCEPT !.lastAttempt = now]
    /\ Become(r, [resolve[r] EXCEPT !.pc = IF c.known THEN "fetch" ELSE "discover",
                                    !.origin = origin, !.since = now])
    /\ lastFetch' = now

\* current: with nothing cached, or a set past its window, the caller waits.
CurrentCold(r) ==
    LET dropped == [cache EXCEPT !.keys = None]
    IN  /\ resolve[r].pc = "current" /\ Holds(r)
        /\ cache.keys = None \/ Age > CacheTTL + MaxStaleAge
        /\ BeginFetch(r, "current", dropped)
        /\ Publish(dropped)
        /\ UNCHANGED <<now, version, queue, background, withdrawn>>

-----------------------------------------------------------------------------
(* refreshForUnknownKey and fetchLocked.                                   *)

CoolingDown == now - cache.lastAttempt < RefreshCooldown

RefreshRefused(r) ==
    /\ resolve[r].pc = "unknown" /\ Holds(r)
    /\ CoolingDown
    /\ Become(r, Refused(r)) /\ Unlock
    /\ UNCHANGED <<now, version, cache, snapshot, background, withdrawn, lastFetch>>

\* Mutant: the cooldown is judged from the last fetch that was stored.
RefreshStartsFetched(r) ==
    /\ resolve[r].pc = "unknown" /\ Holds(r)
    /\ now - cache.fetchedAt >= RefreshCooldown
    /\ BeginFetch(r, "unknown", cache)
    /\ UNCHANGED <<now, version, snapshot, queue, background, withdrawn>>

RefreshStarts(r) ==
    /\ resolve[r].pc = "unknown" /\ Holds(r)
    /\ ~CoolingDown
    /\ BeginFetch(r, "unknown", cache)
    /\ UNCHANGED <<now, version, snapshot, queue, background, withdrawn>>

\* discover has read the metadata document.
Discovered(r) ==
    /\ resolve[r].pc = "discover"
    /\ cache' = [cache EXCEPT !.known = TRUE]
    /\ Become(r, [resolve[r] EXCEPT !.pc = "fetch", !.since = now])
    /\ UNCHANGED <<now, version, snapshot, queue, background, withdrawn, lastFetch>>

\* The issuer answers a key request with what it publishes now.
FetchReads(r) ==
    /\ resolve[r].pc = "fetch"
    /\ Become(r, [resolve[r] EXCEPT !.pc = "fetched", !.doc = Documents[version]])
    /\ UNCHANGED <<now, version, cache, snapshot, queue, background, withdrawn, lastFetch>>

\* Mutant: the mutex stays locked on the error path.
FetchFailsLocked(r) ==
    /\ resolve[r].pc \in {"discover", "fetch", "fetched"}
    /\ Become(r, Refused(r))
    /\ UNCHANGED <<now, version, cache, snapshot, queue, background, withdrawn, lastFetch>>

\* The issuer or the network fails, the answer cannot be used, the request's
\* context ends, or RequestTimeout has elapsed.
FetchFails(r) ==
    /\ resolve[r].pc \in {"discover", "fetch", "fetched"}
    /\ Become(r, Refused(r)) /\ Unlock
    /\ UNCHANGED <<now, version, cache, snapshot, background, withdrawn, lastFetch>>

\* fetchLocked stores: the moment is the one at which it began.
FetchStores(r) ==
    LET doc == resolve[r].doc
        stored == [cache EXCEPT !.keys = doc, !.fetchedAt = cache.lastAttempt]
    IN  /\ resolve[r].pc = "fetched"
        /\ cache' = stored
        /\ Publish(stored)
        /\ IF resolve[r].origin = "current" THEN LeaveCurrent(r, doc)
           ELSE /\ Become(r, IF resolve[r].kid \in doc THEN Resolved(r) ELSE Refused(r))
                /\ Unlock
        /\ UNCHANGED <<now, version, background, withdrawn, lastFetch>>

\* Verify goes on with the key, or refuses the token.
Return(r) ==
    /\ resolve[r].pc \in {"resolved", "refused"}
    /\ Become(r, Idle)
    /\ UNCHANGED <<now, version, cache, snapshot, queue, background, withdrawn, lastFetch>>

-----------------------------------------------------------------------------
(* refreshInBackground.                                                    *)

BackgroundReads ==
    /\ background.pc = "fetch"
    /\ background' = [background EXCEPT !.pc = "fetched", !.doc = Documents[version]]
    /\ UNCHANGED <<now, version, cache, snapshot, queue, resolve, withdrawn, lastFetch>>

\* fetchKeys returns, with a document or with an error, and the mutex is next.
BackgroundReturns(doc) ==
    /\ doc = None => background.pc \in {"fetch", "fetched"}
    /\ doc # None => background.pc = "fetched" /\ background.doc = doc
    /\ background' = [Resting EXCEPT !.pc = "store", !.doc = doc]
    /\ Lock(Refresher)
    /\ UNCHANGED <<now, version, cache, snapshot, resolve, withdrawn, lastFetch>>

\* Mutant: a refresh that failed counts as a confirmation of the cached set.
BackgroundStoresAnyway ==
    LET confirmed == [cache EXCEPT !.refreshing = FALSE, !.fetchedAt = now]
        stored == IF background.doc = None THEN confirmed
                  ELSE [confirmed EXCEPT !.keys = background.doc]
    IN  /\ background.pc = "store" /\ Holds(Refresher)
        /\ cache' = stored
        /\ Publish(stored)
        /\ background' = Resting
        /\ Unlock
        /\ UNCHANGED <<now, version, resolve, withdrawn, lastFetch>>

\* The moment is the one at which the document is stored.
BackgroundStores ==
    LET ended == [cache EXCEPT !.refreshing = FALSE]
        stored == [ended EXCEPT !.keys = background.doc, !.fetchedAt = now]
    IN  /\ background.pc = "store" /\ Holds(Refresher)
        /\ IF background.doc = None
           THEN cache' = ended /\ UNCHANGED snapshot
           ELSE cache' = stored /\ Publish(stored)
        /\ background' = Resting
        /\ Unlock
        /\ UNCHANGED <<now, version, resolve, withdrawn, lastFetch>>

-----------------------------------------------------------------------------
(* The issuer and the clock.                                               *)

\* The issuer publishes its next document.
Rotate ==
    /\ version < Len(Documents)
    /\ version' = version + 1
    /\ withdrawn' = [k \in Kids |->
            IF k \in Documents[version + 1] THEN None
            ELSE IF k \in Documents[version] THEN now ELSE withdrawn[k]]
    /\ UNCHANGED <<now, cache, snapshot, queue, resolve, background, lastFetch>>

\* A request on the network ends within RequestTimeout; whoever holds the mutex
\* and does not wait for the network, and whoever returns, does so at once.
OnNetwork == {"discover", "fetch", "fetched"}
MayWait ==
    /\ \A r \in Requests :
          /\ resolve[r].pc \in OnNetwork => now < resolve[r].since + RequestTimeout
          /\ resolve[r].pc \in {"current", "unknown"} => ~Holds(r)
          /\ resolve[r].pc \notin {"resolved", "refused"}
    /\ background.pc \in OnNetwork => now < background.since + RequestTimeout
    /\ background.pc = "store" => ~Holds(Refresher)

Tick ==
    /\ now < MaxTime
    /\ MayWait
    /\ now' = now + 1
    /\ UNCHANGED <<version, cache, snapshot, queue, resolve, background, withdrawn, lastFetch>>

-----------------------------------------------------------------------------
RequestStep(r) ==
    \/ CurrentFresh(r) \/ CurrentStale(r) \/ CurrentCold(r)
    \/ RefreshRefused(r) \/ RefreshStarts(r)
    \/ Discovered(r) \/ FetchReads(r) \/ FetchFails(r) \/ FetchStores(r)
    \/ Return(r)

BackgroundStep ==
    \/ BackgroundReads
    \/ \E doc \in KeySets \cup {None} : BackgroundReturns(doc)
    \/ BackgroundStores

Next ==
    \/ \E r \in Requests : RequestStep(r) \/ \E k \in Kids : Resolve(r, k)
    \/ BackgroundStep
    \/ Rotate
    \/ Tick

\* A request that has begun goes on, because every fetch has a deadline, and so
\* does the background refresh.  Nobody has to present a token, and neither the
\* issuer nor the clock has to move.
Fairness == WF_vars(BackgroundStep) /\ \A r \in Requests : WF_vars(RequestStep(r))

Spec == Init /\ [][Next]_vars /\ Fairness

-----------------------------------------------------------------------------
(* Properties.                                                             *)

Keys == KeySets \cup {None}
Times == (0 - RefreshCooldown) .. MaxTime

Waiting == {"current", "unknown"}

\* Every variable stays in its type, the mutex is asked for exactly once by each
\* of those who wait for it or hold it, and a fetch under it is its holder's.
TypeOK ==
    /\ now \in 0 .. MaxTime /\ version \in 1 .. Len(Documents)
    /\ cache \in [keys : Keys, fetchedAt : Times, lastAttempt : Times,
                  refreshing : BOOLEAN, known : BOOLEAN]
    /\ snapshot \in [keys : Keys, fetchedAt : Times]
    /\ queue \in Seq(Requests \cup {Refresher})
    /\ resolve \in [Requests ->
           [pc : {"idle", "current", "unknown", "resolved", "refused"} \cup OnNetwork,
            kid : Kids \cup {None}, origin : {None, "current", "unknown"},
            since : 0 .. MaxTime, doc : Keys]]
    /\ background \in [pc : {"idle", "fetch", "fetched", "store"},
                       since : 0 .. MaxTime, doc : Keys]
    /\ withdrawn \in [Kids -> 0 .. MaxTime \cup {None}]
    /\ lastFetch \in Times
    /\ \A i, j \in DOMAIN queue : queue[i] = queue[j] => i = j
    /\ \A r \in Requests :
          /\ resolve[r].pc \in Waiting \cup OnNetwork <=> r \in {queue[i] : i \in DOMAIN queue}
          /\ resolve[r].pc \in OnNetwork => Holds(r)
    /\ background.pc = "store" <=> Refresher \in {queue[i] : i \in DOMAIN queue}

\* How long a key may verify after its withdrawal: a refresh that read the old
\* document is on its way, waits for the mutex behind every request, and is then
\* stored as of that moment and served for the time to live and the stale window.
WithdrawalBound ==
    RequestTimeout * (1 + Cardinality(Requests)) + CacheTTL + MaxStaleAge

\* A key withdrawn from the published set stops verifying, whether or not the
\* issuer answers, at the latest WithdrawalBound later: no order of refreshes,
\* failures and unknown kids keeps it alive.
WithdrawnKeyDies ==
    \A r \in Requests :
        resolve[r].pc = "resolved" /\ resolve[r].kid \notin Documents[version]
            => withdrawn[resolve[r].kid] # None /\ now <= withdrawn[resolve[r].kid] + WithdrawalBound

\* Tokens that name unknown kids cannot be amplified into traffic: a fetch that
\* an unknown kid causes leaves at least RefreshCooldown after the fetch before,
\* whoever caused that one and however it ended.
UnknownFetchesSpaced ==
    [][\A r \in Requests :
          resolve[r].pc = "unknown" /\ resolve'[r].pc \in {"discover", "fetch"}
              => now - lastFetch >= RefreshCooldown]_vars

\* Every Resolve ends, with a key or with a refusal: the mutex held across a
\* fetch is always released, and no request waits for ever behind the others.
ResolveEnds ==
    \A r \in Requests : resolve[r].pc # "idle" ~> resolve[r].pc = "idle"

=============================================================================
