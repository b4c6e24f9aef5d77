# A TLA+ model of PopcornWeb

PopcornWeb is a Go web framework. Most of it is per-request work: parsing,
rendering, middleware that looks at one request at a time. What can go wrong
without any test noticing sits in a few places where goroutines, processes or
browsers share state. This directory models those places, checks small
instances of them with TLC and proves their safety properties for every size
with TLAPS.

## Inventory

| part | state it keeps | operations | what is hard about it |
|---|---|---|---|
| data cache, `pwruntime/cache.go` | entries, eviction queue, tag index under one lock; a `sync.Map` of flights | Get, Has, Set, Invalidate, InvalidateScope, InvalidateTag, background revalidation | decisions under a read lock acted on under a write lock; coalescing; a fetch that outlives its callers; the queue's relation to the map |
| session, `session/`, with `sessionstore/`, `plugin/auth/accessors.go` | browser cookies, server records, a copy in every request | load, renew, Set, Clear, Rotate, Destroy, login, Prune | requests hold copies and write whole records; responses arrive in any order; a store call fails with or without effect; two lifetimes |
| transactions, `pwruntime/transaction.go` | depth and failed mark of a scope, the database's savepoint stack | Transaction (outermost and nested), Commit, Rollback | statements that fail half way, a transaction the driver ends by itself, goroutines sharing a scope |
| application lifecycle, `app.go` | server, handler, shutdown flag, `sync.Once` | Serve, Run, Shutdown | a stop that races the start, a drain that times out, several callers of Shutdown |
| fasthttp transport's stop, `pwfast/drain.go`, `pwfast/run.go` | listener, connections, cleanups | Run, shutdown, sweep of silent connections | a request arriving on a connection being closed; a stop no deadline bounds; cleanups under handlers |
| telemetry processors, `contrib/otel/` | bounded queue, batch, drop counter | OnEnd, flush, Shutdown | closing a channel others send on; accounting |
| remote key set, `contrib/jwt/keysource.go` | keys, fetch time, refresh flag, snapshot | Resolve, background refresh, refresh for an unknown key | a slow refresh storing an old document; a mutex held across the network; amplification by unknown kids |
| revocation, `plugin/auth/revocation.go` | rows in a table, cached answers | check, revoke, reinstate, prune | an answer read before a revocation and cached after it; eviction; rows that go before their tokens |
| sign-in, `plugin/auth/endpoints.go` over `contrib/oauth`, `contrib/oidc`, `authstate/` | cookies, ceremony store, sessions, the provider's own session | login, step-up, callback, logout | tabs that share one cookie; repeated callbacks; lost responses; a silent sign-in after a logout |
| live delivery, `pw/live.go`, `pwfast/live.go`, `pwruntime/live.go`, `pwbrowser/` | responses and their beliefs, admission count; the browser's regions, validators and loops | deliver, suppress, close, reconnect, navigate, reload | two halves with stale knowledge of each other; restarts and deployments; loops that sleep through a navigation |
| pw lifecycle, `pw/lifecycle.go` | server, cleanups | Run | as the fasthttp transport, over `http.Server` |
| rate limiter, `pwratelimit/` | windows per key | Admit | window edges, sweep |
| connection groups, configuration, CSRF, CORS, locale, rendering, passkeys, migrations, CLI, language server, generators | per request, per process or files | | sequential or string work |

Parts meet in few places: the login sets a session slot and rotates the
session; handlers call the cache and open transactions; the lifecycle stops the
server that runs them all and then closes the processors its handlers used.
`FastServer` composes the last two; `Login` carries the session store reduced
to what `Session` shows of it; the other modules share no state.

## Modules

**DataCache** (`pwruntime/cache.go`). One action per critical section,
`sync.Map` operation or channel operation. `entries`, `order`, `head`, `tail`
and `tagged` are the fields under the lock; `flights` is the map of flights and
`flight` each flight's goroutine; `caller` is where each call stands;
`background` the goroutine `revalidate` starts. `order` keeps positions, so
compaction removes positions instead of copying a slice. Times are ticks; a
value is the reader it was fetched for, the upstream's version and its result
type, which is what hits, isolation, invalidation and decoding tell apart.
`upstream`, `floor` and the field `by` are history.

**Session** (`session/*.go`). One browser, several requests in flight, one
action per call of the server store. `browser` holds the token and the sealed
record cookie, `server` the record of each token, `req` each request's own
copy and the cookies its response will set. `GetExpired` and `Expire` are the
two critical sections of `MemoryStore.Get`; `RotateRevoke` and `RotateIssue`
the two halves of `RotateOn`; `Establish` is the login. `TouchRewrites` selects
how the store renews: in place, as the memory and SQL stores do, or by writing
the record the request read, as the Redis store does. A failing store call may
have landed. `born`, `used` and `rotated` are history.

**NestedWork** is what `Transaction` promises: a nested call's work joins its
parent's when the call succeeds and is gone when it fails, and the outermost
call publishes all it collected or nothing. **Transaction**
(`pwruntime/transaction.go`) is the code over a database with a savepoint
stack, and `KeepsPromise` says that it implements NestedWork. Its refinement
mapping takes `pending` and `published` as they are, and a call's parent only
while the call has work. `ContextEnds` is database/sql rolling a transaction
back when its context ends.

**AppLifecycle** (`app.go`). Serve by its holds of the mutex, the body of
`shutdownOnce`, Run, and other goroutines that call Shutdown. `http.Server` is
modelled from its use: Shutdown stops it accepting and waits for requests or
its context, and a server shut down before it listens refuses to.

**KeySet** (`contrib/jwt/keysource.go`). `cache` is what the mutex guards,
`snapshot` the atomic copy, `queue` the mutex itself, which hands itself over in
order of arrival; `resolve` is where each request stands, `background` the
refresh goroutine. A fetch leaves, is answered with what the issuer publishes at
that moment, and arrives, so an old document can be stored late. The clock
ticks only while nobody who could run holds it up, and a fetch ends within
`RequestTimeout`.

**Revocation** (`plugin/auth/revocation.go`, `jwtmiddleware.go`). One action per
statement or turn on the cache's mutex. `table` is the database, `check` each
bearer request, `operator` the revocation or reinstatement under way in this
process; `RevokeElsewhere` is another process. `standing`, `out` and `lifted`
are history: since when a row stands, since when each form of a token is
withdrawn, and when a row was deleted.

**Login** (`plugin/auth/endpoints.go`, `contrib/oauth`, `contrib/oidc`,
`authstate`). One browser with several tabs; a request carries the cookies of
the moment it was sent and a response changes them when it arrives, or is lost.
`ceremonies` is the ceremony store, `asked` the authorization requests and what
the provider answered, `sso` the provider's own session, from which it answers
silently when no prompt is asked for.

**Batch** (`contrib/otel/trace/processor.go`, and the same code for logs) counts
spans: in the channel, in the batch, exported, dropped. **Drain**
(`pwfast/drain.go`) has the connections and the two-step sweep of silent ones
beside fasthttp's shutdown. A request comes in three steps: its bytes arrive
(`sent`), Read returns them (`pc = "read"`), and only then stores the mark
(`spoke`), so the sweep may judge a connection in between; the grace passes
whatever has arrived. To close a connection is to shut it (`shut`): what serves it
finds out at its next read, and a handler that runs goes on to its end, still
counted by fasthttp (`Open`) though forgotten by the listener (`Known`). `prompt`
(marked within the grace) and `cut` (closed by the stop, fasthttp's close of idle
connections included, when a request had begun to arrive) are history.
**FastServer** (`pwfast/run.go`) composes them: handlers end spans while they
answer, also on a connection that was closed under them, serving ends by a signal,
a deadline or a failing listener, and the cleanup closes the processor.

**Live** models both halves of live delivery. On the server a response has its
belief of the screen (`onScreen`), what it still owes (`due`) and what it has
sent and the browser has not read (`wire`); `process` is the process with its
digest key, build and admission count. In the browser, `loop` holds the
activations of `runLive`, `connection` and `running` are the module variables of
`boundary.js`, `applied` is what each region shows and its validator, `doc` the
document with the reload guard, `nav` a navigation being applied. Content is a
page and a value; pages with one layout render its regions alike, which `Home`
says by the page such a region is named for. A digest is content under a
process's key. A navigation leaves in place, with their validators, any regions
that the page left and the page that came have in common (`Kept`), and swaps the
others, which then have none (`Navigated`): `swapNode` replaces elements, and
`pruneApplied` forgets only the ranges that left the document. Where the two
transports differ it follows `pw/live.go`: `pwfast` writes the head before the
first delivery and has no problem response after it. Which free slot a new
response takes is chosen with CHOOSE, since slots are told apart by nothing.

The `MC*` modules give TLC the finite sets; the `*Proofs` modules hold the
theorems. Definitions whose comment begins with "Mutant" are wrong versions of
the operation defined after them, each of which breaks one property; they are
not part of any specification.

## Runs

| run | shows |
|---|---|
| `cache_flights` | two callers of two result types, one key, TTL and stale window of one tick, 3 calls, clock to 2, one upstream write: `SingleFlight`, `NoRedundantFetch`, `OnlyDeadlinesExpire`, and `CallsReturn` under fairness |
| `cache_store` | four callers (two of one reader, one of another, one anonymous), two ids, two tags, room for one entry, 5 calls: `TagIndexExact`, `LiveHasSlot`, `EntriesBounded`, `PrivateIsolation` |
| `session` | two requests, three tokens, a Private and a ServerOnly slot, TTL 3, idle timeout 2, clock to 4, two handler operations, one failing call: `PromotedOnServer`, `DeadTokensStayDead`, `ReadsKeepPayload`, `IdleEnforced`, `AbsoluteEnforced` |
| `session_rotate` | violation of `RotatedStaysRevoked` |
| `transaction` | three nested calls, three writes, two failures, callbacks that wait for what they call: `DepthCounts`, `KeepsPromise` |
| `app_run` | two other callers of Shutdown, two closers, two requests: `ClosedAfterDrain`, `ShutdownIsComplete`, and `CancelEndsRun` under fairness |
| `keys` | two requests, two kids, one rotation, discovery, TTL 1, stale window 1, cooldown 2, clock to 7: `WithdrawnKeyDies`, `UnknownFetchesSpaced`, and `ResolveEnds` under fairness; deadlock is checked |
| `revocation` | two requests, a token and its subject, both forms, lifetime 5, leeway 1, delay 1, room for one answer, two writes, one failure, clock to 6: `RevokedStaysOut`, `RefusalHasRow` |
| `login` | two requests, two accounts, two authorizations, two sessions, one logout: `SingleUse`, `ProvenIdentity`, `ReconfirmHolds` |
| `server` | two connections of two requests, a queue and batch of two: `SpansAccounted`, `YoungAreServed`, `ClosedAfterHandlers`, and `StopEnds` under fairness |
| `live` | one region, three pages of which two share it, two loops, two responses of which one is admitted, two changes, one navigation, one restart, one fault: `SuppressionSound`, `OldPageStaysOut`, and `ScreenConverges` under fairness |
| `live_pages` | violation of `OldPageStaysOut` with two navigations |

Each passing run checks its module's `TypeOK` (`AppTypeOK` in AppLifecycle) too,
except `cache_store`, where `cache_flights` does, `keys` and `login`; the
`TypeOK` of Revocation carries the bound of the cache, that of Live the
exactness of the admission count.

What the properties of the newer runs say in short. `WithdrawnKeyDies`: a key
that left the published document verifies no longer than one slow refresh, its
wait for the mutex, the TTL and the stale window. `UnknownFetchesSpaced`: a
fetch an unknown kid causes follows the last fetch of any kind by the cooldown.
`RevokedStaysOut`: once the propagation delay and the statements under way have
passed, a withdrawn token with more than the leeway to live is not admitted.
`ReconfirmHolds`: after a reconfirm logout no sign-in is answered silently until
one has completed. `YoungAreServed`: a connection whose first bytes Read had
returned and marked within the grace is never ended by the sweep, and if a stop
cuts off a request of it, then a later one, that arrived while fasthttp held the
connection idle. Bytes that have arrived but are not marked when the pass looks
are not covered: the code judges by the mark, and such a client may be cut off.
`ClosedAfterHandlers`: no handler meets a closed processor, one whose connection
the sweep closed included, unless serving itself was cut short.
`SuppressionSound`: the content a response goes by when it leaves a delivery out
is what the region shows once the wire is read. It speaks of screens with one
delivering loop: where two loops have connected since the document came
(`doubled`), each response is ignorant of the other's records, and the property
says nothing. `ScreenConverges`: when
nothing changes any more, the screen shows the latest values, unless the server
gave up, the document never came, or two loops deliver.

### What the violations say

* `session_rotate`: a request in flight during a login writes its record back
  under the revoked token. It holds what the old session held; the login is
  not in it unless the request that logged in is the one that failed half way.
* `live_pages`: a `runLive` asleep after a lost connection is not told of a
  navigation. It wakes to `running` set again by `startLive`, so two loops
  connect, `connection` holds one controller, and the next navigation aborts
  one of the two streams. The other writes the page that was left into the same
  ids of the page that came. The passing run therefore has one navigation, with
  which a second loop can exist but not yet cross a page.

### Further configurations

These configurations are not among the runs; each violates the property it
names and shows a limit of the code that the passing runs step around.

| configuration | property | what TLC finds |
|---|---|---|
| `MCDataCache_queue` | `QueueBounded` | `compactLocked` keeps every slot whose key is live, so alternating Set and Invalidate on one key grows the queue for ever; its comment says "so the queue cannot grow past the map it approximates" (`pwruntime/cache.go:270-271`). `Slack` is the code's 16 |
| `MCDataCache_invalidate` | `InvalidationHolds` | a flight that read before a write stores after the Invalidate, and the entry is fresh and wrong for a TTL; the data cache guide offers Invalidate as what closes that window |
| `MCSession_renewal` | `ReadsKeepPayload` | Redis' `TouchRecord` renews by writing the record read before, so a request that only reads undoes another's Set; `session.go:96-97` says "renewal never rewrites the payload" |
| `MCSession_idle` | `IdleEnforced` | `newRecord` stamps the idle bound only beside an absolute one. `pwsession` refuses a server backend without retention, so it takes `session.NewManager` or the cookie backend |
| `MCTransaction_concurrent` | `KeepsPromise` | a savepoint covers the transaction, not a goroutine: an inner rollback takes another goroutine's statements along. The test server's `WithTransaction` puts concurrent requests on one scope |
| `MCAppLifecycle_early` | `CancelEndsRun` | between Serve's first unlock and `a.server = server` a Shutdown finds nothing to stop, and Run waits for ever; if the handler was not composed yet, `Handler` panics |
| `MCRevocation_leeway` | `RevokedWhileVerified` | a row is pruned at `revoked_at` plus the token lifetime, while a token verifies until `exp` plus the leeway; `revocation.go:383` says rows go when they "have outlived every token they could refuse" |
| `MCLogin_stepup` | `StepUpNeedsSession` | `completeStepUp` judges the session the request read before the exchange, so a logout during the exchange is followed by a new session; the comment at `endpoints.go:312-314` says that would "turn a re-proof into a login the guard never asked for" |
| `MCFastServer_cut` | `NothingCut` | bytes that no Read has marked when the sweep looks, or that arrive between its collection and its close, are cut off, as is the next request on a connection fasthttp takes for idle; `pwfast/lifecycle.go:376-377` says the stop ends "without cutting a response in half" |
| `MCLive_nested` | `SuppressionSound` | a delivery of an outer region resets the one inside it to its fallback, and the response still believes the inner one on screen, so an unchanged redelivery is suppressed |

KeySet has a limit that is no violation of a property here: a request whose
snapshot is past its TTL takes the mutex before it is served the stale set, and
the mutex may be held across the fetch of an unknown kid, so it waits for the
network although there is a set to serve; and cold starts with a failing issuer
fetch one after another.

### Bounds

Two callers or requests reach every race described here, because each is
between one actor's two steps and one step of another; the third and fourth
caller of `cache_store` are there for a second and an anonymous reader. Room
for one entry makes every second put evict. A clock of 2 against TTL 1 and
stale 1 lets an entry be fresh, stale and gone; 4 against TTL 3 and idle 2 lets
a session be renewed, idle out and reach its absolute bound. Three tokens allow
a first session, a rotation and one more. Three nested calls give a call in a
call beside a sibling. In KeySet a clock of 7 is past TTL, stale window, a slow
refresh and the wait behind two requests, so a key that outlived the bound would
be seen. In Revocation 6 is past the token's expiry and the delay after a late
revocation; room for one answer makes the two forms evict each other. Two
authorizations and two sessions are a step-up or a second login beside a first.
Two connections let one be swept while another is in a request, and two requests
each let a connection be idle. In `live` a navigation keeps the region with its
validator, swaps it for that of the page that shares it, or for that of a page
that does not; a navigation that keeps one region and swaps another is covered
by the proof. One admitted response makes a reconnection compete with the
response it replaces. `MaxTime`, `MaxCalls`, `MaxOps`, `MaxFails`, `MaxTokens`,
`MaxVersion`, `MaxRequests`, `MaxWrites`, `MaxTxns`, `MaxSessions`,
`MaxLogouts`, `MaxChanges`, `MaxNavigations`, `MaxRestarts` and `MaxFaults` name
the bounds. Runs end when
calls, operations, connections or nested calls run out, so only `keys` checks
deadlock; the liveness properties are what says that nobody is stuck.
Symmetry is used for requests, calls and writes in runs without liveness.

### Fairness

DataCache: goroutines that can run do run, and a fetch ends, since
`fetch_timeout` bounds it; nobody has to call, to cancel or to write upstream.
AppLifecycle: Serve, the body of Shutdown, and the callers run; a drain ends
because the shutdown context has a timeout, whether or not the requests end.
KeySet: a request that has begun and the background refresh go on, because every
fetch has a timeout. FastServer: the server's readers and handlers, the stop,
the sweep and the exporter run, and a request that has begun completes; no client
has to speak and no deadline has to pass. Live: the server's and the browser's
own steps happen, sleeping loops wake and documents load; faults, navigations,
restarts and changes need not happen and are bounded. Nothing else is fair.

## Proofs

`DataCacheProofs` proves `TypeOK`, `TagIndexExact`, `LiveHasSlot`,
`EntriesBounded`, `SingleFlight`, `NoRedundantFetch` and `PrivateIsolation` for
any callers, readers, keys and tags, any TTL, stale window and bound, from
`ConstantAssumption` and `NoneAssumption`. Two inductive invariants carry it.
`ControlInv` is the types, the relation of queue, map and index (every live
entry has a slot at or behind `head`; without it the eviction loop could run
out of slots and the bound would not follow), that calls work under a key of
their own reader, and that a flight at work is registered under its key and no
other is. `DataInv` adds that entries and flights carry values of the reader
in their key, and that a flight fetches only while no fetched entry of its key
is fresh, which holds because only the flight itself stores a fetched entry
while it is registered.

The action property `OnlyDeadlinesExpire` follows from `ControlInv` step by step:
put takes an entry away only by passing a queue position, every call is counted,
and what expires a key looks at its deadline again under the write lock.

`LifecycleProofs` holds both ways a server stops, which share no state. Of
AppLifecycle it proves `AppTypeOK` and `ShutdownIsComplete` for any number of
callers, closers and requests, and `ClosedAfterDrain` under the assumption
`~EarlyStop`; the strengthening says that a caller past Shutdown has seen
`once` done, and that a stop has seen the stored server. Of FastServer it proves
`TypeOK`, `SpansAccounted`, `YoungAreServed` and `ClosedAfterHandlers` for any
connections, requests, queue and batch sizes, from `BatchAssumption` and
`DrainAssumption`. `BatchInv` says where spans can be in each state of the
goroutine; `ConnInv` that a connection the sweep has collected was past the grace
without a mark, so that a mark stored since is not a prompt one (without it the
second step of the sweep could end anybody), and that fasthttp's close meets only
connections that have answered; `PhaseInv` that the listener is open exactly while
serving and that serving which was not cut short leaves no connection open to
fasthttp, closed by the sweep or not, which is why no handler can meet a closed
processor.

`SessionProofs` proves `TypeOK`, `PromotedOnServer`, `DeadTokensStayDead` and
`AbsoluteEnforced` for any requests, tokens and lifetimes and either way of
renewing, `IdleEnforced` for `TTL > 0` and `ReadsKeepPayload` for stores that
renew in place (`~TouchRewrites`). The two hypotheses are needed:
`MCSession_idle` and `MCSession_renewal` violate the properties without them.
`SessionInv` speaks of the carriers of a token (its record, the requests that
act for it, the sealed cookies in the browser, in requests and in responses):
all of them agree whether it is promoted, all know its absolute bound, none
knows an idle bound later than its last use allows, and only issued tokens are
carried. A property about two carriers is not inductive by itself, because a
request in flight turns into a record or a cookie later. Each step is shown to
leave only carriers that fit what was carried before or the one token it issues.

`LoginProofs` proves `TypeOK`, `SingleUse`, `ProvenIdentity` and
`ReconfirmHolds` for any tabs, accounts, authorizations and logouts. A ceremony
taken from the store is in one place, with one callback that exchanges its code
or in the session it established (`OnceInv`); what the provider answered does
not change once a callback carries it (`AnswerInv`); and the mark of a reconfirm
logout is in the browser, in every request and in every question to the provider
until a sign-in completes (`MarkInv`).

`RevocationProofs` proves `TypeOK`, `RevokedStaysOut` and `RefusalHasRow` for any
tokens, requests, delays, cache sizes, lifetimes and leeway. `CacheInv` says that
a cached answer which does not refuse a withdrawn token was read before the
withdrawal, `TableInv` that a row gone without a reinstatement has outlived every
token it withdrew, and `CheckInv` what an answer on its way to the cache may be.
`out` is kept for each form of a token: with one time for both, a token form
revoked while the subject form is reinstated would date the withdrawal wrongly,
which is how an attempted proof failed.

`TransactionProofs` proves `TypeOK` and `DepthCounts` for any calls and
goroutines, and for calls that wait for what they call (`~Concurrent`) that
Transaction implements NestedWork (`KeepsPromise`), its initial state and every
step mapped to a step or a stutter. `ChainInv` numbers the open calls 1 to
`depth`; `StackInv` says that the work in effect is the work collected, and that
the latest savepoint of each call's name was made over the work outside that
call. It is claimed only while the transaction can still commit; after a failed
statement nothing is published. `MCTransaction_concurrent` shows why
`~Concurrent` is needed.

`LiveProofs` proves `TypeOK` with the exact admission count, `OldPageStaysOut` as
long as no two loops have connected (`~doubled`; `live_pages` shows what happens
then), and `SuppressionSound`, which excludes `doubled` itself, when no region
contains another (`MCLive_nested` shows the other case), for any regions, pages
and regions that pages share, loops, responses, navigations, restarts and faults.
`ReaderInv` pairs loops with the responses they read, `SingleInv` is
what one loop means while navigations stop and start it, `PageInv` that
everything on its wire belongs to the page on screen, and `BeliefInv` that the
last record of a region on the wire, or the region itself if there is none, has
the digest the response believes. The types of `Regions` and `Deliveries` carry
that a validator is always that of the content beside it (`Truthful`), also in a
region a navigation left in place, which turns digests into contents.

`KeySetProofs` proves `TypeOK`, `WithdrawnKeyDies` and `UnknownFetchesSpaced` for
any requests, kids, documents (also ones that publish a kid again) and
durations. `SentInv` and `QueueSentInv` date every copy of a document: when it
was sent at the earliest, while it travels, while the refresh stands in place i
of the mutex's queue and once it is stored. The place counts because each
request in front may hold the mutex for one `RequestTimeout`, and the queue is
no longer than the requests; that discovery is never among those fetches needs
`KnownInv`. That the cooldown is judged from the last request for keys is in
`TimeInv`.

Each inductive invariant was checked with TLC on the instances of its runs
before it was proved. The hypotheses are those of the named ASSUMEs, which TLC
evaluates in the runs, and the ones named above.

Only model-checked: the liveness properties (`CallsReturn`, `CancelEndsRun`,
`ResolveEnds`, `StopEnds`, `ScreenConverges`), which need fairness, out of this
prover's reach. The properties of the violation runs and of the further
configurations are false of the code and so have no theorem, except
`OldPageStaysOut` under its hypothesis.

## Not modelled

DataCache: hit counters, JSON encoding beyond whether a result type can read
the value, an error of Set's encoding, the clock moving inside one operation.
Session: cookie-placed and RequestScope slots, expiry of single slots, record
versions, the cookie-only and server-side-anonymous modes, cookie size and
Max-Age (the record's deadline decides), several browsers (tokens are
unguessable, so they share nothing). Transaction: connection groups, adopting
a foreign transaction, read-only options. AppLifecycle: registration before
serving, the order of closers, an accept error while serving. KeySet: static key
sources, the checks on the metadata document beyond their failing. Revocation:
several issuers, notes, the read-only state query, a clock that differs between
processes. Login: passkeys, the device flow, plain OAuth providers, the account
gate and the allowlist beyond their refusing, return paths, the capacity of the
memory store. FastServer: the startup, cleanups other than the trace exporter's,
errors joined into the result, bytes of a next request that arrive while a handler
runs. Batch: a nil exporter, whose flush forgets a batch uncounted
(`processor.go:136-138`). Live: signals, head tags, content codings, the
length of a back-off, redraws, superseded navigations, replaced documents, scope
scripts and events.

Most of the repository's lines are outside this kind of model: the command line,
generators, language server and their parsers turn files into files; rendering,
routing, configuration and request binding are functions of one request, which
unit tests reach; generated code and adapters for cloud services hold no
protocol of their own. The modules are about the parts where several actors
share state. The other parts of the inventory are listed with their reasons in `PROJECT.json`.

## Plan

1. Proofs: every safety property that a passing run checks is a theorem. What is
   left is to state the hypotheses more sharply: `ClosedAfterDrain` when only some
   stops are early, `SuppressionSound` for nested regions that are delivered from
   the inside out, `KeepsPromise` for goroutines whose calls do not overlap.
2. Models: the net/http transport's lifecycle over an abstract server that both
   it and FastServer implement, and the windows of the rate limiter.
