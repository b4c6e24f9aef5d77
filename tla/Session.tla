------------------------------ MODULE Session ------------------------------
(***************************************************************************)
(* The session of one browser: session/state.go, lifecycle.go, sessions.go *)
(* and cookiestore.go over a server store such as memorystore.go.          *)
(*                                                                         *)
(* The browser holds a token cookie and, while it is anonymous, a sealed   *)
(* record cookie with the Private slots; the server store holds a record   *)
(* per token with the ServerOnly slots and, once a rotation has promoted   *)
(* the session, the Private ones too.  Several requests of the browser run *)
(* at once.  Each reads its records when it begins, keeps its own copy,    *)
(* and writes whole records back: one action is one call of the store, and *)
(* Set-Cookie headers reach the browser when the request responds.         *)
(*                                                                         *)
(* Times are ticks from 1 on, 0 being Go's zero time.  A failing store     *)
(* call may have landed all the same, as a write whose answer is lost has. *)
(***************************************************************************)
EXTENDS Integers, FiniteSets

CONSTANTS
    Requests,       \* requests that may be in flight at the same time
    Slots,          \* registered record-placed slots
    Private,        \* the ones of placement Private; the others are ServerOnly
    Login,          \* the slot of plugin/auth, which is Private
    ResetOnRotate,  \* slots a rotation drops
    TTL,            \* Options.TTL, 0 is no absolute bound
    IdleTimeout,    \* Options.IdleTimeout, 0 is no idle bound
    Renewal,        \* Options.RenewalInterval after its default
    TouchRewrites,  \* the store renews by writing the caller's record (Redis)
    None,           \* no token, no record, no value
    Keep,           \* a response that leaves a cookie alone
    MaxTokens,      \* bound on tokens issued
    MaxTime,        \* bound on the clock
    MaxOps,         \* bound on handler operations
    MaxFails        \* bound on failing store calls

Tokens == 1 .. MaxTokens

ASSUME SessionAssumption ==
    /\ Private \subseteq Slots /\ Login \in Private /\ ResetOnRotate \subseteq Slots
    /\ TTL \in Nat /\ IdleTimeout \in Nat /\ Renewal \in Nat \ {0}
    /\ TTL > 0 => IdleTimeout <= TTL
    /\ TouchRewrites \in BOOLEAN
    /\ MaxTokens \in Nat /\ MaxTime \in Nat /\ MaxOps \in Nat /\ MaxFails \in Nat
    /\ None \notin Tokens /\ Keep \notin Tokens /\ None # Keep

VARIABLES
    browser,   \* the cookies the browser holds
    server,    \* the server store
    req,       \* the state of each request
    issued,    \* tokens issued so far
    now,
    ops, fails,
    born,      \* history: when each token was issued
    used,      \* history: when a request was last served under each token
    rotated    \* history: tokens a rotation has revoked

counters == <<ops, fails>>
vars == <<browser, server, req, issued, now, counters, born, used, rotated>>

-----------------------------------------------------------------------------
(* Records.  `slots' are the slots the record holds a value of.            *)

Stamps == [seen : Nat, expires : Nat, idle : Nat]
Records == [slots : SUBSET Slots, promoted : BOOLEAN, stamps : Stamps]
Sealed == [owner : Tokens, slots : SUBSET Slots, stamps : Stamps]

ASSUME NoRecordAssumption ==
    None \notin Records /\ None \notin Sealed /\ Keep \notin Sealed

\* newRecord.  The idle bound is stamped only beside an absolute one.
NewStamps(at) ==
    [seen |-> at,
     expires |-> IF TTL > 0 THEN at + TTL ELSE 0,
     idle |-> IF TTL > 0 /\ IdleTimeout > 0 THEN at + IdleTimeout ELSE 0]

\* Mutant: the absolute bound alone.
DeadlineAbsolute(s) == s.expires

\* deadline: the earliest bound that is set.
Deadline(s) ==
    IF s.expires = 0 \/ (s.idle # 0 /\ s.idle < s.expires) THEN s.idle ELSE s.expires

Expired(s, at) == Deadline(s) # 0 /\ Deadline(s) <= at

\* renew: whether a record read at time `at' is due.
RenewalDue(s, at) == IdleTimeout > 0 /\ at - s.seen >= Renewal

\* Mutant: a renewal slides the absolute bound too.
RenewedSliding(s, at) ==
    [seen |-> at, expires |-> IF s.expires = 0 THEN 0 ELSE at + TTL, idle |-> at + IdleTimeout]

\* renew: the stamps it asks for, clamped to the absolute bound.
Renewed(s, at) ==
    [s EXCEPT !.seen = at,
              !.idle = IF s.expires # 0 /\ at + IdleTimeout > s.expires
                       THEN s.expires ELSE at + IdleTimeout]

\* Mutant: Private slots never leave the sealed cookie.
PlacedOnServerUnpromoted(promoted) == Slots \ Private

\* bucketOf: the slots whose bytes go to the server record.
PlacedOnServer(promoted) == IF promoted THEN Slots ELSE Slots \ Private

-----------------------------------------------------------------------------
(* Requests.  `sealed' is the record cookie as presented, `out' the        *)
(* Set-Cookie headers so far and `at' the time its server record was read. *)

PC == {"idle", "get", "expire", "touch", "open", "revoke", "issue"}

NoStamps == [seen |-> 0, expires |-> 0, idle |-> 0]
Quiet == [token |-> Keep, sealed |-> Keep]
IdleRequest ==
    [pc |-> "idle", token |-> None, sealed |-> None, slots |-> {}, promoted |-> FALSE,
     stamps |-> NoStamps, at |-> 0, dirty |-> {}, out |-> Quiet]

Init ==
    /\ browser = [token |-> None, sealed |-> None]
    /\ server = [t \in Tokens |-> None]
    /\ req = [r \in Requests |-> IdleRequest]
    /\ issued = 0
    /\ now = 1
    /\ ops = 0 /\ fails = 0
    /\ born = [t \in Tokens |-> 0]
    /\ used = [t \in Tokens |-> 0]
    /\ rotated = {}

Become(r, q) == req' = [req EXCEPT ![r] = q]

\* A call of the store that fails, its effect on the store landed or not.
FailingCall(landed) ==
    /\ fails < MaxFails
    /\ fails' = fails + 1
    /\ server' \in {server, landed}

\* The request's cookies, read once when it arrives.
Begin(r) ==
    /\ req[r].pc = "idle"
    /\ Become(r, [IdleRequest EXCEPT !.pc = "get", !.token = browser.token,
                                     !.sealed = browser.sealed])
    /\ UNCHANGED <<browser, server, issued, now, counters, born, used, rotated>>

-----------------------------------------------------------------------------
(* load. *)

AnonOK(q) == q.sealed # None /\ q.sealed.owner = q.token /\ ~Expired(q.sealed.stamps, now)

\* The sealed half of load: read, renew into the response, and merge.
WithAnon(q, serverOK) ==
    LET due == RenewalDue(q.sealed.stamps, now)
        stamps == IF due THEN Renewed(q.sealed.stamps, now) ELSE q.sealed.stamps
    IN  [q EXCEPT !.pc = "open", !.slots = @ \cup q.sealed.slots,
                  !.stamps = IF serverOK THEN @ ELSE stamps,
                  !.out = IF due THEN [token |-> q.token,
                                       sealed |-> [q.sealed EXCEPT !.stamps = stamps]]
                                 ELSE @]

\* A stale session: no token, and the token cookie is cleared.
Stale(q) == [q EXCEPT !.pc = "open", !.token = None, !.out.token = None]

\* Mutant: the token of a session nothing is known of is kept.
LoadedAdopting(q, serverOK) ==
    IF AnonOK(q) THEN WithAnon(q, serverOK) ELSE [q EXCEPT !.pc = "open"]

\* load after the server's answer, which q already carries.
Loaded(q, serverOK) ==
    IF AnonOK(q) THEN WithAnon(q, serverOK)
    ELSE IF serverOK THEN [q EXCEPT !.pc = "open"]
    ELSE Stale(q)

\* History: the records of a token were found good for a request now.
UsedIf(found, t) == used' = IF found THEN [used EXCEPT ![t] = now] ELSE used

\* No token was presented: an empty session.
LoadNothing(r) ==
    /\ req[r].pc = "get" /\ req[r].token = None
    /\ Become(r, [req[r] EXCEPT !.pc = "open"])
    /\ UNCHANGED <<browser, server, issued, now, counters, born, used, rotated>>

Presented(r) == req[r].pc = "get" /\ req[r].token # None

\* The store fails: the request is answered 503 and sets no cookie.
GetFails(r) ==
    /\ Presented(r)
    /\ fails < MaxFails /\ fails' = fails + 1
    /\ Become(r, IdleRequest)
    /\ UNCHANGED <<browser, server, issued, now, ops, born, used, rotated>>

GetMissing(r) ==
    /\ Presented(r) /\ server[req[r].token] = None
    /\ Become(r, Loaded(req[r], FALSE))
    /\ UsedIf(AnonOK(req[r]), req[r].token)
    /\ UNCHANGED <<browser, server, issued, now, counters, born, rotated>>

\* Past its deadline; MemoryStore deletes it in a critical section of its own.
GetExpired(r) ==
    /\ Presented(r) /\ server[req[r].token] # None
    /\ Expired(server[req[r].token].stamps, now)
    /\ Become(r, [req[r] EXCEPT !.pc = "expire"])
    /\ UNCHANGED <<browser, server, issued, now, counters, born, used, rotated>>

Expire(r) ==
    /\ req[r].pc = "expire"
    /\ server' = [server EXCEPT ![req[r].token] = None]
    /\ Become(r, Stale(req[r]))
    /\ UNCHANGED <<browser, issued, now, counters, born, used, rotated>>

GetLive(r) ==
    LET record == server[req[r].token]
        q == [req[r] EXCEPT !.slots = record.slots, !.promoted = record.promoted,
                            !.stamps = record.stamps, !.at = now]
    IN  /\ Presented(r) /\ record # None /\ ~Expired(record.stamps, now)
        /\ Become(r, IF RenewalDue(record.stamps, now)
                     THEN [q EXCEPT !.pc = "touch"] ELSE Loaded(q, TRUE))
        /\ UsedIf(TRUE, q.token)
        /\ UNCHANGED <<browser, server, issued, now, counters, born, rotated>>

\* Mutant: the renewal writes back the record this request read.
TouchedFromCopy(q) ==
    [server EXCEPT ![q.token] = [slots |-> q.slots, promoted |-> q.promoted,
                                 stamps |-> Renewed(q.stamps, q.at)]]

\* What a renewal leaves in the store, by Touch in place or by SET XX.
Touched(q) ==
    [server EXCEPT ![q.token] =
        IF TouchRewrites
        THEN [slots |-> q.slots, promoted |-> q.promoted, stamps |-> Renewed(q.stamps, q.at)]
        ELSE [@ EXCEPT !.stamps.seen = q.at, !.stamps.idle = Renewed(q.stamps, q.at).idle]]

\* A renewal revives no record that is missing or past its deadline.
Touchable(q) ==
    /\ server[q.token] # None
    /\ IF TouchRewrites
       THEN ~Expired(Renewed(q.stamps, q.at), now)
       ELSE /\ ~Expired(server[q.token].stamps, now)
            /\ \/ server[q.token].stamps.expires = 0
               \/ Renewed(q.stamps, q.at).idle <= server[q.token].stamps.expires

Touch(r) ==
    LET q == req[r]
    IN  /\ q.pc = "touch" /\ Touchable(q)
        /\ server' = Touched(q)
        /\ Become(r, Loaded([q EXCEPT !.stamps = Renewed(q.stamps, q.at),
                                      !.out.token = q.token], TRUE))
        /\ UsedIf(AnonOK(q), q.token)
        /\ UNCHANGED <<browser, issued, now, counters, born, rotated>>

\* A renewal that fails leaves the request with the record it read.
TouchRefused(r) ==
    LET q == req[r]
    IN  /\ q.pc = "touch" /\ ~Touchable(q)
        /\ server' = IF ~TouchRewrites /\ server[q.token] # None
                        /\ Expired(server[q.token].stamps, now)
                     THEN [server EXCEPT ![q.token] = None] ELSE server
        /\ Become(r, Loaded(q, TRUE))
        /\ UsedIf(AnonOK(q), q.token)
        /\ UNCHANGED <<browser, issued, now, counters, born, rotated>>

TouchFails(r) ==
    /\ req[r].pc = "touch"
    /\ FailingCall(IF Touchable(req[r]) THEN Touched(req[r]) ELSE server)
    /\ Become(r, Loaded(req[r], TRUE))
    /\ UsedIf(AnonOK(req[r]), req[r].token)
    /\ UNCHANGED <<browser, issued, now, ops, born, rotated>>

-----------------------------------------------------------------------------
(* Handlers: Slot.Set, Slot.Clear, Rotate, Destroy and the login. *)

Operate(r) ==
    /\ req[r].pc = "open"
    /\ ops < MaxOps
    /\ ops' = ops + 1

\* ensureToken for a request that has none.
Minted(q) ==
    [q EXCEPT !.token = issued + 1, !.stamps = NewStamps(now), !.out.token = issued + 1]

Mint ==
    /\ issued < MaxTokens
    /\ issued' = issued + 1
    /\ born' = [born EXCEPT ![issued + 1] = now]
    /\ used' = [used EXCEPT ![issued + 1] = now]

\* put into the sealed cookie: an empty record is deleted.
SealedOf(q) ==
    LET held == q.slots \ PlacedOnServer(q.promoted)
    IN  IF held = {} THEN None ELSE [owner |-> q.token, slots |-> held, stamps |-> q.stamps]

\* put into the server store; the promotion marker keeps a record from being empty.
StoredOf(q) ==
    LET held == q.slots \cap PlacedOnServer(q.promoted)
    IN  IF held = {} /\ ~q.promoted THEN None
        ELSE [slots |-> held, promoted |-> q.promoted, stamps |-> q.stamps]

\* flush: the dirty cookie first, then the dirty server record, which may fail.
\* The request is left at `done' if both landed.
Flush(r, q, done) ==
    LET sealed == IF "anon" \in q.dirty THEN [q EXCEPT !.out.sealed = SealedOf(q)] ELSE q
        put == [server EXCEPT ![q.token] = StoredOf(q)]
    IN  IF "server" \notin q.dirty
        THEN /\ Become(r, [sealed EXCEPT !.pc = done, !.dirty = {}])
             /\ UNCHANGED <<server, fails>>
        ELSE \/ /\ Become(r, [sealed EXCEPT !.pc = done, !.dirty = {}])
                /\ server' = put
                /\ UNCHANGED fails
             \/ /\ FailingCall(put)
                /\ Become(r, [sealed EXCEPT !.pc = "open", !.dirty = {"server"}])

Bucket(q, s) == IF s \in PlacedOnServer(q.promoted) THEN "server" ELSE "anon"

\* set, on the way to `done'.
SetSlot(r, s, done) ==
    LET q == IF req[r].token = None THEN Minted(req[r]) ELSE req[r]
    IN  /\ Operate(r)
        /\ IF req[r].token = None THEN Mint ELSE UNCHANGED <<issued, born, used>>
        /\ Flush(r, [q EXCEPT !.slots = @ \cup {s}, !.dirty = @ \cup {Bucket(q, s)}], done)
        /\ UNCHANGED <<browser, now, rotated>>

Set(r, s) == s # Login /\ SetSlot(r, s, "open")

\* establish: the login slot is set under the session's present token, and a
\* rotation follows if that succeeds.
Establish(r) == SetSlot(r, Login, "revoke")

Clear(r, s) ==
    LET q == [req[r] EXCEPT !.slots = @ \ {s}]
    IN  /\ Operate(r)
        /\ s \in req[r].slots
        /\ IF q.token = None
           THEN Become(r, q) /\ UNCHANGED <<server, fails>>
           ELSE Flush(r, [q EXCEPT !.dirty = @ \cup {Bucket(q, s)}], "open")
        /\ UNCHANGED <<browser, issued, now, born, used, rotated>>

\* Rotate by a handler that set no login.
Rotate(r) ==
    /\ Operate(r)
    /\ Become(r, [req[r] EXCEPT !.pc = "revoke"])
    /\ UNCHANGED <<browser, server, issued, now, fails, born, used, rotated>>

\* RotateOn: the slots to reset go, then the old records.
RotateRevoke(r) ==
    LET q == [req[r] EXCEPT !.slots = @ \ ResetOnRotate]
        gone == [server EXCEPT ![q.token] = None]
    IN  /\ q.pc = "revoke"
        /\ \/ /\ q.token = None
              /\ Become(r, [q EXCEPT !.pc = "issue"])
              /\ UNCHANGED <<server, fails, rotated>>
           \/ /\ q.token # None
              /\ server' = gone
              /\ rotated' = rotated \cup {q.token}
              /\ Become(r, [q EXCEPT !.pc = "issue", !.out.sealed = None])
              /\ UNCHANGED fails
           \/ /\ q.token # None
              /\ FailingCall(gone)
              /\ Become(r, [q EXCEPT !.pc = "open"])
              /\ UNCHANGED rotated
        /\ UNCHANGED <<browser, issued, now, ops, born, used>>

\* RotateOn: a new token and the promoted record under it.
RotateIssue(r) ==
    LET q == [req[r] EXCEPT !.promoted = TRUE, !.dirty = {"server"}]
    IN  /\ q.pc = "issue"
        /\ Mint
        /\ Flush(r, Minted(q), "open")
        /\ UNCHANGED <<browser, now, ops, rotated>>

\* destroy.  The request's promoted flag is left as it was.
Destroyed(q) ==
    [q EXCEPT !.token = None, !.slots = {}, !.stamps = NoStamps, !.dirty = {},
              !.out.token = None, !.out.sealed = IF q.token = None THEN @ ELSE None]

Destroy(r) ==
    LET gone == [server EXCEPT ![req[r].token] = None]
    IN  /\ Operate(r)
        /\ Become(r, Destroyed(req[r]))
        /\ \/ req[r].token = None /\ UNCHANGED <<server, fails>>
           \/ req[r].token # None /\ server' = gone /\ UNCHANGED fails
           \/ req[r].token # None /\ FailingCall(gone)
        /\ UNCHANGED <<browser, issued, now, born, used, rotated>>

\* Mutant: cookies the response says nothing of are overwritten.
RespondOverwriting(r) ==
    /\ req[r].pc = "open"
    /\ browser' = req[r].out
    /\ Become(r, IdleRequest)
    /\ UNCHANGED <<server, issued, now, counters, born, used, rotated>>

\* The response reaches the browser.
Respond(r) ==
    LET out == req[r].out
    IN  /\ req[r].pc = "open"
        /\ browser' = [token |-> IF out.token = Keep THEN browser.token ELSE out.token,
                       sealed |-> IF out.sealed = Keep THEN browser.sealed ELSE out.sealed]
        /\ Become(r, IdleRequest)
        /\ UNCHANGED <<server, issued, now, counters, born, used, rotated>>

\* The process or the connection dies with the request in flight.
Abandon(r) ==
    /\ req[r].pc # "idle"
    /\ Become(r, IdleRequest)
    /\ UNCHANGED <<browser, server, issued, now, counters, born, used, rotated>>

\* Backend.Prune, or a server that forgets what has expired.
Prune(t) ==
    /\ server[t] # None /\ Expired(server[t].stamps, now)
    /\ server' = [server EXCEPT ![t] = None]
    /\ UNCHANGED <<browser, req, issued, now, counters, born, used, rotated>>

Tick ==
    /\ now < MaxTime
    /\ now' = now + 1
    /\ UNCHANGED <<browser, server, req, issued, counters, born, used, rotated>>

-----------------------------------------------------------------------------
LoadNext(r) ==
    \/ Begin(r) \/ LoadNothing(r) \/ GetFails(r) \/ GetMissing(r) \/ GetExpired(r)
    \/ Expire(r) \/ GetLive(r) \/ Touch(r) \/ TouchRefused(r) \/ TouchFails(r)

HandlerNext(r) ==
    \/ \E s \in Slots : Set(r, s) \/ Clear(r, s)
    \/ Establish(r) \/ Rotate(r) \/ RotateRevoke(r) \/ RotateIssue(r) \/ Destroy(r)

Next ==
    \/ \E r \in Requests : LoadNext(r) \/ HandlerNext(r) \/ Respond(r) \/ Abandon(r)
    \/ \E t \in Tokens : Prune(t)
    \/ Tick

Spec == Init /\ [][Next]_vars

-----------------------------------------------------------------------------
Cookies == {None} \cup Sealed
RequestRecords ==
    [pc : PC, token : Tokens \cup {None}, sealed : Cookies, slots : SUBSET Slots,
     promoted : BOOLEAN, stamps : Stamps, at : Nat, dirty : SUBSET {"anon", "server"},
     out : [token : Tokens \cup {None, Keep}, sealed : Cookies \cup {Keep}]]

TypeOK ==
    /\ browser \in [token : Tokens \cup {None}, sealed : Cookies]
    /\ server \in [Tokens -> Records \cup {None}]
    /\ req \in [Requests -> RequestRecords]
    /\ issued \in 0 .. MaxTokens
    /\ now \in Nat \ {0} /\ ops \in Nat /\ fails \in Nat
    /\ born \in [Tokens -> Nat] /\ used \in [Tokens -> Nat] /\ rotated \subseteq Tokens

\* A sealed cookie that exists somewhere: in the browser, presented, or on its way.
SealedCookies ==
    ({browser.sealed} \cup {req[r].sealed : r \in Requests}
       \cup {req[r].out.sealed : r \in Requests}) \ {None, Keep}

(* Promotion is one-way: once a rotation has put the Private slots of a     *)
(* token into its server record, no sealed cookie holds a copy under that   *)
(* token, whatever requests were in flight, so load never has to choose     *)
(* between the two and a revocation reaches every value.                    *)
PromotedOnServer ==
    \A c \in SealedCookies :
        server[c.owner] # None => ~server[c.owner].promoted

\* A request past its read that acts for token t.
Holds(r, t) == req[r].token = t /\ req[r].pc \notin {"idle", "get", "expire"}

\* Nothing is left of t: no record, no cookie, no request working under it.
Dead(t) ==
    /\ t <= issued /\ server[t] = None
    /\ \A c \in SealedCookies : c.owner # t
    /\ \A r \in Requests : ~Holds(r, t)

(* A token that is dead stays dead, however often a browser that missed the *)
(* answer presents it again: the server adopts no token it knows nothing    *)
(* of, and no write of another session lands under it (security.md,         *)
(* "Session fixation").                                                     *)
DeadTokensStayDead == [][\A t \in Tokens : Dead(t) => Dead(t)']_vars

(* Only handlers change what a session holds.  A request that merely reads  *)
(* may renew the record, and a renewal leaves the values another request    *)
(* has written meanwhile alone (the Codec contract: "renewal never rewrites *)
(* the payload").                                                           *)
ReadsKeepPayload ==
    [][\A t \in Tokens :
         server[t] # None /\ server'[t] # None /\ server'[t].slots # server[t].slots
            => ops' # ops]_vars

(* No request is served under a token unused for IdleTimeout or longer,     *)
(* whichever copies of the record's stamps were written back in which       *)
(* order.                                                                   *)
IdleEnforced ==
    [][\A t \in Tokens :
         IdleTimeout > 0 /\ used[t] # 0 /\ used'[t] # used[t]
            => used'[t] < used[t] + IdleTimeout]_vars

(* No request begins to be served under a token TTL or longer after it was  *)
(* issued, however often the session was renewed.                           *)
AbsoluteEnforced ==
    [][\A t \in Tokens :
         TTL > 0 /\ used'[t] # used[t] => used'[t] < born'[t] + TTL]_vars

(* What the comment in RotateOn and the guide promise: the token a rotation *)
(* revoked is not live again.                                               *)
RotatedStaysRevoked == \A t \in rotated : server[t] = None

=============================================================================
