----------------------------- MODULE Revocation -----------------------------
(***************************************************************************)
(* The revocation check of a bearer request: RevocationStore of            *)
(* plugin/auth/revocation.go and its place in resolveBearer of             *)
(* plugin/auth/jwtmiddleware.go.                                           *)
(*                                                                         *)
(* A request presents a token whose signature has been proved; its claims  *)
(* are judged, and then the row of its jti and the row of its subject are  *)
(* looked up, each through a cache that trusts an answer for               *)
(* MaxPropagationDelay.  Meanwhile an operator of this process revokes and *)
(* reinstates, another process does, and a sweeper deletes rows.  One      *)
(* action is one statement of the database or one turn on the cache mutex. *)
(***************************************************************************)
EXTENDS Integers, FiniteSets

CONSTANTS
    Requests,
    Tokens, Subjects,
    SubjectOf,      \* the subject of each token
    IssuedAt,       \* iat of each token
    ExpiresAt,      \* exp of each token
    Forms,          \* the configured forms: "token", "subject" or both
    MaxTokenLifetime, Leeway, MaxPropagationDelay,
    Admits,         \* on_unavailable = admit
    MaxEntries,     \* maxRevocationCacheEntries
    StatementTime,  \* how long one database statement may take
    None,           \* no row, no entry, no time
    MaxTime, MaxWrites, MaxFails

Rows == Tokens \cup Subjects

ASSUME RevocationAssumption ==
    /\ Tokens \cap Subjects = {}
    /\ SubjectOf \in [Tokens -> Subjects]
    /\ IssuedAt \in [Tokens -> Nat] /\ ExpiresAt \in [Tokens -> Nat]
    /\ Forms \subseteq {"token", "subject"} /\ Forms # {}
    /\ MaxTokenLifetime \in Nat \ {0} /\ Leeway \in Nat
    /\ MaxPropagationDelay \in Nat /\ MaxPropagationDelay < MaxTokenLifetime
    /\ Admits \in BOOLEAN
    /\ MaxEntries \in Nat \ {0} /\ StatementTime \in Nat
    /\ MaxTime \in Nat /\ MaxWrites \in Nat /\ MaxFails \in Nat
    /\ None \notin Rows /\ None \notin Nat

VARIABLES
    now,
    table,      \* the revocation table: revoked_at and expires_at of each row
    cache,      \* the cached answers
    check,      \* the state of each request
    operator,   \* the call of write or reinstate that is under way here
    writes, fails,
    standing,   \* history: the stamps of the revocations nobody has reinstated
    out,        \* history: since when a row has withdrawn each token, per form
    lifted      \* history: when each row was last deleted

counters == <<writes, fails>>
history == <<standing, out, lifted>>
vars == <<now, table, cache, check, operator, counters, history>>

-----------------------------------------------------------------------------
TableRows == [at : 0 .. MaxTime, expires : Nat]
Answers == [found : BOOLEAN, at : 0 .. MaxTime]
CacheEntries == [found : BOOLEAN, at : 0 .. MaxTime, answeredAt : 0 .. MaxTime]

ASSUME NoRowAssumption == None \notin TableRows /\ None \notin CacheEntries

NotFound == [found |-> FALSE, at |-> 0]
Idle == [pc |-> "idle", token |-> None, form |-> None, since |-> 0, entry |-> NotFound]
Resting == [pc |-> "idle", row |-> None, at |-> 0]

Init ==
    /\ now = 0
    /\ table = [k \in Rows |-> None]
    /\ cache = [k \in Rows |-> None]
    /\ check = [r \in Requests |-> Idle]
    /\ operator = Resting
    /\ writes = 0 /\ fails = 0
    /\ standing = [k \in Rows |-> None]
    /\ out = [t \in Tokens |-> [form \in Forms |-> None]]
    /\ lifted = [k \in Rows |-> None]

Become(r, c) == check' = [check EXCEPT ![r] = c]

\* The key a form looks up for a token.
RowOf(t, form) == IF form = "token" THEN t ELSE SubjectOf[t]

\* validateClaims and checkLifetime: iat, exp and the lifetime between them.
Verifies(t, at) ==
    /\ at < ExpiresAt[t] + Leeway
    /\ IssuedAt[t] <= at + Leeway
    /\ ExpiresAt[t] - IssuedAt[t] \in 1 .. MaxTokenLifetime

\* revokedToken: any row.  revokedSubject: a row stamped at or after the iat.
Withdraws(t, form, at) == form = "token" \/ IssuedAt[t] <= at

-----------------------------------------------------------------------------
(* One request.                                                            *)

FirstForm == IF "token" \in Forms THEN "token" ELSE "subject"

\* resolveBearer, from a token that verify accepts on.
Present(r, t) ==
    /\ check[r].pc = "idle"
    /\ Verifies(t, now)
    /\ Become(r, [Idle EXCEPT !.pc = "lookup", !.token = t, !.form = FirstForm])
    /\ UNCHANGED <<now, table, cache, operator, counters, history>>

\* check, with the answer for one form: refuse, try the other form, or admit.
Judge(r, entry) ==
    LET c == check[r] IN
    Become(r, IF entry.found /\ Withdraws(c.token, c.form, entry.at)
              THEN [c EXCEPT !.pc = "refused", !.since = 0, !.entry = NotFound]
              ELSE IF c.form = "token" /\ "subject" \in Forms
              THEN [c EXCEPT !.pc = "lookup", !.form = "subject", !.since = 0,
                             !.entry = NotFound]
              ELSE [c EXCEPT !.pc = "admitted", !.since = 0, !.entry = NotFound])

Key(r) == RowOf(check[r].token, check[r].form)
Stale(entry, at) == at - entry.answeredAt > MaxPropagationDelay

\* Mutant: a hit renews the entry.
LookupCachedRenewing(r) ==
    LET entry == cache[Key(r)] IN
    /\ check[r].pc = "lookup"
    /\ entry # None /\ ~Stale(entry, now)
    /\ cache' = [cache EXCEPT ![Key(r)] = [entry EXCEPT !.answeredAt = now]]
    /\ Judge(r, [found |-> entry.found, at |-> entry.at])
    /\ UNCHANGED <<now, table, operator, counters, history>>

\* cached: an answer inside the delay.
LookupCached(r) ==
    LET entry == cache[Key(r)] IN
    /\ check[r].pc = "lookup"
    /\ entry # None /\ ~Stale(entry, now)
    /\ Judge(r, [found |-> entry.found, at |-> entry.at])
    /\ UNCHANGED <<now, table, cache, operator, counters, history>>

\* cached: no answer, or one past the delay, which it drops; read begins.
LookupMisses(r) ==
    LET entry == cache[Key(r)] IN
    /\ check[r].pc = "lookup"
    /\ entry # None => Stale(entry, now)
    /\ cache' = [cache EXCEPT ![Key(r)] = None]
    /\ Become(r, [check[r] EXCEPT !.pc = "read", !.since = now])
    /\ UNCHANGED <<now, table, operator, counters, history>>

\* read: the database evaluates the SELECT; no row is an answer too.
ReadRow(r) ==
    LET row == table[Key(r)] IN
    /\ check[r].pc = "read"
    /\ Become(r, [check[r] EXCEPT !.pc = "remember",
                    !.entry = IF row = None THEN NotFound
                              ELSE [found |-> TRUE, at |-> row.at]])
    /\ UNCHANGED <<now, table, cache, operator, counters, history>>

\* read fails: resolveBearer leaves it to onUnavailable, whichever form it was.
ReadFails(r) ==
    /\ check[r].pc \in {"read", "remember"}
    /\ fails < MaxFails /\ fails' = fails + 1
    /\ Become(r, [Idle EXCEPT !.pc = IF Admits THEN "admitted" ELSE "unavailable",
                              !.token = check[r].token])
    /\ UNCHANGED <<now, table, cache, operator, writes, history>>

Entries(c) == {k \in Rows : c[k] # None}

\* evictLocked: the stale answers, then all of them if that freed nothing.
Evicted(c) ==
    LET kept == {k \in Entries(c) : ~Stale(c[k], now)}
    IN  [k \in Rows |-> IF k \in kept /\ Cardinality(kept) < MaxEntries THEN c[k] ELSE None]

\* Mutant: only the stale answers go.
RoomStale(c) ==
    IF Cardinality(Entries(c)) < MaxEntries THEN c
    ELSE [k \in Rows |-> IF c[k] # None /\ ~Stale(c[k], now) THEN c[k] ELSE None]

\* remember, before it stores.
Room(c) == IF Cardinality(Entries(c)) < MaxEntries THEN c ELSE Evicted(c)

\* remember, in a store that has a cache, and the verdict.
Remember(r) ==
    LET entry == check[r].entry IN
    /\ check[r].pc = "remember"
    /\ cache' = IF MaxPropagationDelay = 0 THEN cache
                ELSE [Room(cache) EXCEPT ![Key(r)] =
                        [found |-> entry.found, at |-> entry.at, answeredAt |-> now]]
    /\ Judge(r, entry)
    /\ UNCHANGED <<now, table, operator, counters, history>>

\* The handler runs, or refuseBearer answers.
Return(r) ==
    /\ check[r].pc \in {"admitted", "refused", "unavailable"}
    /\ Become(r, Idle)
    /\ UNCHANGED <<now, table, cache, operator, counters, history>>

-----------------------------------------------------------------------------
(* Operators and the sweeper.                                              *)

\* Which tokens the standing revocations withdraw, and since when.
Recorded(s) ==
    /\ standing' = s
    /\ out' = [t \in Tokens |-> [form \in Forms |->
            LET k == RowOf(t, form) IN
            IF s[k] = None \/ ~Withdraws(t, form, s[k]) THEN None
            ELSE IF out[t][form] # None THEN out[t][form] ELSE now]]

\* The rows an operator can name: a jti is known once its token is issued, by an
\* issuer whose clock may be ahead by the leeway.
Named == {t \in Tokens : "token" \in Forms /\ IssuedAt[t] <= now + Leeway}
         \cup {s \in Subjects : "subject" \in Forms}

\* write takes its stamp before it runs the statement.
RevokeStarts(k) ==
    /\ operator.pc = "idle" /\ writes < MaxWrites
    /\ operator' = [pc |-> "revoke", row |-> k, at |-> now]
    /\ writes' = writes + 1
    /\ UNCHANGED <<now, table, cache, check, fails, history>>

\* The upsert lands: the row takes this stamp, whatever stamp it had.
Landed(k, at) ==
    /\ table' = [table EXCEPT ![k] = [at |-> at, expires |-> at + MaxTokenLifetime]]
    /\ Recorded([standing EXCEPT ![k] = at])
    /\ UNCHANGED lifted

RevokeWrites ==
    /\ operator.pc = "revoke"
    /\ Landed(operator.row, operator.at)
    /\ operator' = [operator EXCEPT !.pc = "forget"]
    /\ UNCHANGED <<now, cache, check, counters>>

\* The statement fails, its effect landed or not, and the cache is left alone.
RevokeFails ==
    /\ operator.pc = "revoke"
    /\ fails < MaxFails /\ fails' = fails + 1
    /\ Landed(operator.row, operator.at) \/ UNCHANGED <<table, history>>
    /\ operator' = Resting
    /\ UNCHANGED <<now, cache, check, writes>>

\* Another process revokes; nothing tells this one.
RevokeElsewhere(k) ==
    /\ writes < MaxWrites /\ writes' = writes + 1
    /\ Landed(k, now)
    /\ UNCHANGED <<now, cache, check, operator, fails>>

\* The rows a delete removes, and the moment it does.
Deletes(rows) ==
    /\ table' = [k \in Rows |-> IF k \in rows THEN None ELSE table[k]]
    /\ lifted' = [k \in Rows |-> IF k \in rows THEN now ELSE lifted[k]]

\* reinstate deletes the row.
Reinstates(k) ==
    /\ operator.pc = "idle" /\ writes < MaxWrites
    /\ table[k] # None
    /\ Deletes({k})
    /\ Recorded([standing EXCEPT ![k] = None])
    /\ operator' = [pc |-> "forget", row |-> k, at |-> 0]
    /\ writes' = writes + 1
    /\ UNCHANGED <<now, cache, check, fails>>

\* forget: this process's own cached answer goes, a statement later.
Forgets ==
    /\ operator.pc = "forget"
    /\ cache' = [cache EXCEPT ![operator.row] = None]
    /\ operator' = Resting
    /\ UNCHANGED <<now, table, check, counters, history>>

\* Mutant: the sweep asks for the stamp instead of the expiry.
PruneStamped ==
    LET dead == {k \in Rows : table[k] # None /\ table[k].at + 1 < now} IN
    /\ dead # {}
    /\ Deletes(dead)
    /\ UNCHANGED <<now, cache, check, operator, counters, standing, out>>

\* pruneBearer: rows that have expired.
Prune ==
    LET dead == {k \in Rows : table[k] # None /\ table[k].expires < now} IN
    /\ dead # {}
    /\ Deletes(dead)
    /\ UNCHANGED <<now, cache, check, operator, counters, standing, out>>

\* A statement takes at most StatementTime, everything else no time.
MayWait ==
    /\ \A r \in Requests :
          /\ check[r].pc \in {"idle", "read", "remember"}
          /\ check[r].pc # "idle" => now < check[r].since + StatementTime
    /\ operator.pc # "forget"

Tick ==
    /\ now < MaxTime
    /\ MayWait
    /\ now' = now + 1
    /\ UNCHANGED <<table, cache, check, operator, counters, history>>

Next ==
    \/ \E r \in Requests :
          \/ \E t \in Tokens : Present(r, t)
          \/ LookupCached(r) \/ LookupMisses(r)
          \/ ReadRow(r) \/ ReadFails(r) \/ Remember(r) \/ Return(r)
    \/ \E k \in Named : RevokeStarts(k) \/ RevokeElsewhere(k) \/ Reinstates(k)
    \/ RevokeWrites \/ RevokeFails \/ Forgets
    \/ Prune
    \/ Tick

Spec == Init /\ [][Next]_vars

-----------------------------------------------------------------------------
(* Properties.                                                             *)

TimeOrNone == 0 .. MaxTime \cup {None}
Checks ==
    [pc : {"idle", "lookup", "read", "remember", "admitted", "refused", "unavailable"},
     token : Tokens \cup {None}, form : Forms \cup {None}, since : 0 .. MaxTime, entry : Answers]
Operations == [pc : {"idle", "revoke", "forget"}, row : Rows \cup {None}, at : 0 .. MaxTime]

\* Every variable stays in its type, and the cache never holds more answers than
\* maxRevocationCacheEntries, whoever chooses the keys.
TypeOK ==
    /\ now \in 0 .. MaxTime /\ writes \in 0 .. MaxWrites /\ fails \in 0 .. MaxFails
    /\ table \in [Rows -> TableRows \cup {None}]
    /\ cache \in [Rows -> CacheEntries \cup {None}]
    /\ check \in [Requests -> Checks]
    /\ operator \in Operations
    /\ standing \in [Rows -> TimeOrNone] /\ lifted \in [Rows -> TimeOrNone]
    /\ out \in [Tokens -> [Forms -> TimeOrNone]]
    /\ Cardinality(Entries(cache)) <= MaxEntries

\* How stale an answer may be when the request is answered: the read that a
\* revocation overtook, the delay its answer is cached for, and the read of the
\* other form.
Propagation == MaxPropagationDelay + 2 * StatementTime

\* A token that a row withdraws, and that has more than the leeway to live, is not
\* admitted once the revocation has had max_propagation_delay and the statements
\* under way to spread: neither an answer cached after the revocation, an
\* eviction, another process's write nor the sweep lets it in again.
RevokedStaysOut ==
    \A r \in Requests, form \in Forms : LET shown == check[r].token IN
        check[r].pc = "admitted" /\ ~Admits /\ now + Leeway < ExpiresAt[shown]
        /\ out[shown][form] # None
            => now <= out[shown][form] + Propagation

\* The same of every token that still verifies, until the leeway after its expiry:
\* rows go when they "have outlived every token they could refuse".
RevokedWhileVerified ==
    \A r \in Requests, form \in Forms : LET shown == check[r].token IN
        check[r].pc = "admitted" /\ ~Admits /\ Verifies(shown, now)
        /\ out[shown][form] # None
            => now <= out[shown][form] + Propagation

\* A token is refused as revoked only on the strength of a row: one that stands,
\* or one that was deleted no longer ago than an answer may be stale.
RefusalHasRow ==
    \A r \in Requests : check[r].pc = "refused" =>
        LET k == Key(r) IN
        \/ table[k] # None
        \/ lifted[k] # None /\ now <= lifted[k] + MaxPropagationDelay + StatementTime

=============================================================================
