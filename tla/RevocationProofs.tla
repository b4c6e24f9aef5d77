-------------------------- MODULE RevocationProofs --------------------------
(* Theorems about the revocation check, for every set of requests, tokens  *)
(* and subjects, every configuration of forms, delays, leeway and cache    *)
(* size, and any number of writes and failures.                            *)
EXTENDS Revocation, FiniteSetTheorems, TLAPS

\* A token of an admissible lifetime with more than the leeway to live, and one
\* of those that a row withdraws.
Sound(t) == ExpiresAt[t] - IssuedAt[t] <= MaxTokenLifetime
Counts(t, form) ==
    Sound(t) /\ now + Leeway < ExpiresAt[t] /\ out[t][form] # None

Refuses(entry, t, form) == entry.found /\ Withdraws(t, form, entry.at)

(* The history beside the table: a row that stands was stamped at the time *)
(* of the last revocation, and one that is gone without a reinstatement    *)
(* has outlived every token it withdrew.                                   *)
TableInv ==
    /\ \A k \in Rows : table[k] # None =>
          standing[k] = table[k].at /\ table[k].expires = table[k].at + MaxTokenLifetime
    /\ \A k \in Rows : standing[k] # None /\ table[k] = None =>
          standing[k] + MaxTokenLifetime < now
    /\ \A t \in Tokens : standing[t] # None => IssuedAt[t] <= standing[t] + Leeway
    /\ operator.pc # "idle" => operator.row \in Rows
    /\ operator.pc = "revoke" /\ operator.row \in Tokens =>
          IssuedAt[operator.row] <= operator.at + Leeway
    /\ \A t \in Tokens, form \in Forms : out[t][form] # None =>
          standing[RowOf(t, form)] # None /\ Withdraws(t, form, standing[RowOf(t, form)])

\* x is no later than the last moment row k was there.
Backed(k, x) == table[k] # None \/ (lifted[k] # None /\ x <= lifted[k])

(* A cached answer that does not refuse a withdrawn token was read before  *)
(* the withdrawal, and one that found a row was read while it was there.   *)
CacheInv ==
    /\ IsFiniteSet(Entries(cache))
    /\ \A k \in Rows : cache[k] # None =>
          /\ cache[k].answeredAt <= now
          /\ \A t \in Tokens, form \in Forms : RowOf(t, form) = k /\ Counts(t, form) =>
                \/ Refuses(cache[k], t, form)
                \/ cache[k].answeredAt <= out[t][form] + StatementTime
          /\ cache[k].found => Backed(k, cache[k].answeredAt - StatementTime)

Looking == {"lookup", "read", "remember"}

\* The other form of a request that is at the subject has been judged at time x.
Passed(r, x) ==
    check[r].form = "subject" /\ "token" \in Forms /\ Counts(check[r].token, "token") =>
        x <= out[check[r].token]["token"] + MaxPropagationDelay + StatementTime

(* What a request knows, against what has been withdrawn since. *)
CheckOK(r) ==
    LET c == check[r] IN
        /\ c.pc \in Looking \cup {"admitted", "refused"} => c.token \in Tokens /\ Sound(c.token)
        /\ c.pc \in Looking \cup {"refused"} => c.form \in Forms
        /\ c.pc \in {"read", "remember"} =>
              /\ c.since <= now /\ now <= c.since + StatementTime
              /\ Passed(r, c.since)
        /\ c.pc = "remember" =>
              /\ \A t \in Tokens, form \in Forms : RowOf(t, form) = Key(r) /\ Counts(t, form) =>
                    Refuses(c.entry, t, form) \/ c.since <= out[t][form]
              /\ c.entry.found => Backed(Key(r), c.since)
        /\ c.pc = "lookup" => Passed(r, now)
        /\ c.pc = "admitted" /\ ~Admits =>
              \A form \in Forms : Counts(c.token, form) => now <= out[c.token][form] + Propagation
        /\ c.pc = "refused" => Backed(Key(r), now - (MaxPropagationDelay + StatementTime))

CheckInv == \A r \in Requests : CheckOK(r)

RevocationInv == TypeOK /\ TableInv /\ CacheInv /\ CheckInv

-----------------------------------------------------------------------------
(* Types.                                                                  *)

LEMMA IdleType == Idle \in Checks /\ NotFound \in Answers /\ Resting \in Operations
BY RevocationAssumption DEF Idle, NotFound, Resting, Checks, Answers, Operations

LEMMA RowOfType == \A t \in Tokens : \A form : RowOf(t, form) \in Rows
BY RevocationAssumption DEF RowOf, Rows

LEMMA BecomeType ==
    ASSUME NEW r \in Requests, NEW c \in Checks, check \in [Requests -> Checks], Become(r, c)
    PROVE  /\ check' \in [Requests -> Checks] /\ check'[r] = c
           /\ \A q \in Requests : q # r => check'[q] = check[q]
BY DEF Become

LEMMA FirstFormType == FirstForm \in Forms
BY RevocationAssumption DEF FirstForm

(* The verdicts on an answer, as three cases. *)
LEMMA JudgeCases ==
    ASSUME NEW r \in Requests, NEW entry, check \in [Requests -> Checks], Judge(r, entry)
    PROVE  /\ check' \in [Requests -> Checks]
           /\ \A q \in Requests : q # r => check'[q] = check[q]
           /\ check'[r].token = check[r].token
           /\ \/ /\ Refuses(entry, check[r].token, check[r].form)
                 /\ check'[r].pc = "refused" /\ check'[r].form = check[r].form
              \/ /\ ~Refuses(entry, check[r].token, check[r].form)
                 /\ check[r].form = "token" /\ "subject" \in Forms
                 /\ check'[r].pc = "lookup" /\ check'[r].form = "subject"
              \/ /\ ~Refuses(entry, check[r].token, check[r].form)
                 /\ ~(check[r].form = "token" /\ "subject" \in Forms)
                 /\ check'[r].pc = "admitted" /\ check'[r].form = check[r].form
<1> DEFINE c == check[r]
           refused == [c EXCEPT !.pc = "refused", !.since = 0, !.entry = NotFound]
           other == [c EXCEPT !.pc = "lookup", !.form = "subject", !.since = 0,
                              !.entry = NotFound]
           admitted == [c EXCEPT !.pc = "admitted", !.since = 0, !.entry = NotFound]
<1>1. c \in Checks /\ 0 \in 0 .. MaxTime
  BY RevocationAssumption
<1>2. /\ refused \in Checks /\ refused.pc = "refused" /\ refused.form = c.form
      /\ refused.token = c.token
  BY <1>1, IdleType DEF Checks
<1>3. "subject" \in Forms =>
      /\ other \in Checks /\ other.pc = "lookup" /\ other.form = "subject"
      /\ other.token = c.token
  BY <1>1, IdleType DEF Checks
<1>4. /\ admitted \in Checks /\ admitted.pc = "admitted" /\ admitted.form = c.form
      /\ admitted.token = c.token
  BY <1>1, IdleType DEF Checks
<1>5. Become(r, IF Refuses(entry, c.token, c.form) THEN refused
                ELSE IF c.form = "token" /\ "subject" \in Forms THEN other ELSE admitted)
  BY DEF Judge, Refuses
<1> HIDE DEF c, refused, other, admitted
<1>6. CASE Refuses(entry, c.token, c.form)
  <2>1. Become(r, refused)
    BY <1>5, <1>6
  <2> QED
    BY <2>1, <1>2, <1>6, BecomeType DEF c
<1>7. CASE ~Refuses(entry, c.token, c.form) /\ c.form = "token" /\ "subject" \in Forms
  <2>1. Become(r, other)
    BY <1>5, <1>7
  <2> QED
    BY <2>1, <1>3, <1>7, BecomeType DEF c
<1>8. CASE ~Refuses(entry, c.token, c.form) /\ ~(c.form = "token" /\ "subject" \in Forms)
  <2>1. Become(r, admitted)
    BY <1>5, <1>8
  <2> QED
    BY <2>1, <1>4, <1>8, BecomeType DEF c
<1> QED
  BY <1>6, <1>7, <1>8

(* The cache keeps within its bound. *)
LEMMA Removal ==
    ASSUME NEW c, NEW d, IsFiniteSet(Entries(c)), Entries(d) \subseteq Entries(c)
    PROVE  /\ IsFiniteSet(Entries(d))
           /\ Cardinality(Entries(d)) \in Nat /\ Cardinality(Entries(c)) \in Nat
           /\ Cardinality(Entries(d)) <= Cardinality(Entries(c))
BY FS_Subset, FS_CardinalityType

LEMMA RoomBound ==
    ASSUME IsFiniteSet(Entries(cache)), cache \in [Rows -> CacheEntries \cup {None}]
    PROVE  /\ Room(cache) \in [Rows -> CacheEntries \cup {None}]
           /\ \A k \in Rows : Room(cache)[k] \in {cache[k], None}
           /\ IsFiniteSet(Entries(Room(cache)))
           /\ Cardinality(Entries(Room(cache))) \in Nat
           /\ Cardinality(Entries(Room(cache))) < MaxEntries
<1>1. CASE Cardinality(Entries(cache)) < MaxEntries
  <2>1. Room(cache) = cache
    BY <1>1 DEF Room
  <2>2. Cardinality(Entries(cache)) \in Nat
    BY FS_CardinalityType
  <2> QED
    BY <1>1, <2>1, <2>2
<1>2. CASE ~(Cardinality(Entries(cache)) < MaxEntries)
  <2> DEFINE kept == {k \in Entries(cache) : ~Stale(cache[k], now)}
             e == Evicted(cache)
  <2>1. e = [k \in Rows |-> IF k \in kept /\ Cardinality(kept) < MaxEntries
                             THEN cache[k] ELSE None]
    BY DEF Evicted
  <2>2. kept \subseteq Entries(cache) /\ IsFiniteSet(kept) /\ Cardinality(kept) \in Nat
    BY FS_Subset, FS_CardinalityType
  <2> HIDE DEF kept, e
  <2>3. \A k \in Rows : e[k] \in {cache[k], None}
    BY <2>1
  <2>4. e \in [Rows -> CacheEntries \cup {None}]
    BY <2>1
  <2>5. CASE Cardinality(kept) < MaxEntries
    <3>1. Entries(e) \subseteq kept
      BY <2>1 DEF Entries
    <3>2. IsFiniteSet(Entries(e)) /\ Cardinality(Entries(e)) \in Nat
          /\ Cardinality(Entries(e)) <= Cardinality(kept)
      BY <2>2, <3>1, FS_Subset, FS_CardinalityType
    <3>3. Cardinality(Entries(e)) < MaxEntries
      BY <2>2, <2>5, <3>2, RevocationAssumption
    <3> QED
      BY <1>2, <2>3, <2>4, <3>2, <3>3 DEF Room, e
  <2>6. CASE ~(Cardinality(kept) < MaxEntries)
    <3>1. Entries(e) = {}
      BY <2>1, <2>6 DEF Entries
    <3>2. IsFiniteSet(Entries(e)) /\ Cardinality(Entries(e)) = 0
      BY <3>1, FS_EmptySet
    <3> QED
      BY <1>2, <2>3, <2>4, <3>2, RevocationAssumption DEF Room, e
  <2> QED
    BY <2>5, <2>6
<1> QED
  BY <1>1, <1>2

LEMMA StoreBound ==
    ASSUME NEW c \in [Rows -> CacheEntries \cup {None}], NEW k \in Rows, NEW e \in CacheEntries,
           IsFiniteSet(Entries(c)), Cardinality(Entries(c)) \in Nat,
           Cardinality(Entries(c)) < MaxEntries
    PROVE  /\ [c EXCEPT ![k] = e] \in [Rows -> CacheEntries \cup {None}]
           /\ IsFiniteSet(Entries([c EXCEPT ![k] = e]))
           /\ Cardinality(Entries([c EXCEPT ![k] = e])) <= MaxEntries
<1> DEFINE d == [c EXCEPT ![k] = e]
<1>1. Entries(d) = Entries(c) \cup {k}
  BY NoRowAssumption DEF Entries
<1> HIDE DEF d
<1>2. IsFiniteSet(Entries(d))
      /\ Cardinality(Entries(d)) = IF k \in Entries(c) THEN Cardinality(Entries(c))
                                   ELSE Cardinality(Entries(c)) + 1
  BY <1>1, FS_AddElement
<1>3. Cardinality(Entries(d)) <= MaxEntries
  BY <1>2, RevocationAssumption
<1>4. d \in [Rows -> CacheEntries \cup {None}]
  BY DEF d
<1> QED
  BY <1>2, <1>3, <1>4 DEF d

-----------------------------------------------------------------------------
(* What the steps of others leave true.                                    *)

LEMMA OthersKeep ==
    ASSUME CheckInv, NEW r \in Requests, \A q \in Requests : q # r => check'[q] = check[q],
           UNCHANGED <<now, table, out, lifted>>, CheckOK(r)'
    PROVE  CheckInv'
<1>1. ASSUME NEW q \in Requests, q # r PROVE CheckOK(q)'
  <2>1. CheckOK(q) /\ check'[q] = check[q]
    BY <1>1 DEF CheckInv
  <2> QED
    BY <2>1 DEF CheckOK, Passed, Counts, Backed, Key
<1> QED
  BY <1>1 DEF CheckInv

LEMMA TableKeeps ==
    ASSUME TableInv, UNCHANGED <<now, table, standing, out, operator>>
    PROVE  TableInv'
BY DEF TableInv

(* Answers that go. *)
LEMMA LessCache ==
    ASSUME TypeOK, CacheInv, UNCHANGED <<now, table, out, lifted>>,
           cache' \in [Rows -> CacheEntries \cup {None}],
           \A k \in Rows : cache'[k] \in {cache[k], None}
    PROVE  CacheInv' /\ Cardinality(Entries(cache')) <= MaxEntries
<1>1. Entries(cache') \subseteq Entries(cache)
  BY DEF Entries
<1>2. /\ IsFiniteSet(Entries(cache'))
      /\ Cardinality(Entries(cache')) \in Nat /\ Cardinality(Entries(cache)) \in Nat
      /\ Cardinality(Entries(cache')) <= Cardinality(Entries(cache))
  BY <1>1, Removal DEF CacheInv
<1>3. Cardinality(Entries(cache')) <= MaxEntries
  BY <1>2, RevocationAssumption DEF TypeOK
<1>4. ASSUME NEW k \in Rows, cache'[k] # None PROVE cache'[k] = cache[k] /\ cache[k] # None
  BY <1>4
<1> QED
  BY <1>2, <1>3, <1>4 DEF CacheInv, Counts, Backed

\* How revocations, reinstatements and sweeps move what the invariant reads.
OutMoves ==
    \A t \in Tokens, form \in Forms :
        \/ out'[t][form] = None
        \/ out'[t][form] = out[t][form]
        \/ out[t][form] = None /\ out'[t][form] = now
RowsMove ==
    \A k \in Rows :
        /\ table[k] # None => table'[k] # None \/ lifted'[k] = now
        /\ lifted'[k] \in {lifted[k], now}

LEMMA TimeType == TypeOK => now \in Nat /\ now # None
BY RevocationAssumption DEF TypeOK

LEMMA BackedMoves ==
    ASSUME TypeOK, RowsMove, UNCHANGED now, NEW k \in Rows, NEW x \in Int, x <= now, Backed(k, x)
    PROVE  Backed(k, x)'
<1>1. now \in Nat /\ now # None
  BY TimeType
<1> QED
  BY <1>1 DEF RowsMove, Backed

LEMMA WorldMoves ==
    ASSUME RevocationInv, OutMoves, RowsMove, UNCHANGED <<now, cache, check>>
    PROVE  CacheInv' /\ CheckInv'
<1>0. TypeOK /\ CacheInv /\ CheckInv /\ now \in Nat /\ now # None
  BY TimeType DEF RevocationInv
<1>a. StatementTime \in Nat /\ MaxPropagationDelay \in Nat
  BY RevocationAssumption
<1>1. ASSUME NEW k \in Rows, cache[k] # None
      PROVE  /\ cache[k].answeredAt <= now
             /\ \A t \in Tokens, form \in Forms : RowOf(t, form) = k /\ Counts(t, form)' =>
                \/ Refuses(cache[k], t, form)
                \/ cache[k].answeredAt <= out'[t][form] + StatementTime
             /\ cache[k].found => Backed(k, cache[k].answeredAt - StatementTime)'
  <2>1. cache[k] \in CacheEntries /\ cache[k].answeredAt \in Nat /\ cache[k].answeredAt <= now
    BY <1>0, <1>1 DEF TypeOK, CacheEntries, CacheInv
  <2>2. ASSUME NEW t \in Tokens, NEW form \in Forms, RowOf(t, form) = k, Counts(t, form)'
        PROVE  \/ Refuses(cache[k], t, form)
               \/ cache[k].answeredAt <= out'[t][form] + StatementTime
    BY <1>0, <1>a, <1>1, <2>1, <2>2 DEF OutMoves, CacheInv, Counts
  <2>3. ASSUME cache[k].found PROVE Backed(k, cache[k].answeredAt - StatementTime)'
    <3>1. Backed(k, cache[k].answeredAt - StatementTime)
      BY <1>0, <1>1, <2>3 DEF CacheInv
    <3>2. cache[k].answeredAt - StatementTime \in Int
          /\ cache[k].answeredAt - StatementTime <= now
      BY <1>0, <1>a, <2>1
    <3>3. \A x \in Int : x <= now /\ Backed(k, x) => Backed(k, x)'
      BY <1>0, BackedMoves
    <3> QED
      BY <3>1, <3>2, <3>3 DEF Backed
  <2> QED
    BY <2>1, <2>2, <2>3
<1>2. CacheInv'
  BY <1>0, <1>1 DEF CacheInv, Backed
<1>3. ASSUME NEW r \in Requests PROVE CheckOK(r)'
  <2> DEFINE c == check[r]
  <2>0. CheckOK(r) /\ check' = check /\ c \in Checks
    BY <1>0 DEF CheckInv, TypeOK
  <2>1. c.since \in Nat
    BY <2>0 DEF Checks
  <2>2. ASSUME NEW x \in Int, x <= now, c.token \in Tokens, Passed(r, x) PROVE Passed(r, x)'
    BY <1>0, <1>a, <2>2 DEF Passed, OutMoves, Counts
  <2>3. ASSUME NEW x \in Int, x <= now, Backed(Key(r), x), c.token \in Tokens
        PROVE  Backed(Key(r), x)' /\ Key(r)' = Key(r)
    <3>1. Key(r) \in Rows
      BY <2>3, RowOfType DEF Key
    <3>2. Backed(Key(r), x)'
      <4> DEFINE k == Key(r)
      <4>1. k \in Rows /\ Backed(k, x)
        BY <2>3, <3>1
      <4>2. k' = k
        BY DEF Key
      <4>3. table'[k] # None \/ (lifted'[k] # None /\ x <= lifted'[k])
        <5> HIDE DEF k
        <5> QED
          BY <4>1, <1>0, <2>3 DEF Backed, RowsMove
      <4> QED
        BY <4>2, <4>3 DEF Backed
    <3> QED
      BY <3>2 DEF Key
  <2>4. ASSUME c.pc = "remember"
        PROVE  \A t \in Tokens, form \in Forms : RowOf(t, form) = Key(r) /\ Counts(t, form)' =>
                  Refuses(c.entry, t, form) \/ c.since <= out'[t][form]
    BY <1>0, <2>0, <2>1, <2>4 DEF CheckOK, OutMoves, Counts
  <2>5. ASSUME c.pc = "admitted", ~Admits
        PROVE  \A form \in Forms : Counts(c.token, form)' =>
                  now <= out'[c.token][form] + Propagation
    <3>1. c.token \in Tokens /\ Propagation \in Nat
      BY <1>a, <2>0, <2>5 DEF CheckOK, Propagation
    <3> QED
      BY <1>0, <2>0, <2>5, <3>1 DEF CheckOK, OutMoves, Counts
  <2>6. now - (MaxPropagationDelay + StatementTime) \in Int
        /\ now - (MaxPropagationDelay + StatementTime) <= now
    BY <1>0, <1>a
  <2>7. Key(r)' = Key(r)
    BY DEF Key
  <2>8. c.pc \in {"read", "remember"} => Passed(r, c.since)'
    BY <2>0, <2>1, <2>2 DEF CheckOK, Looking
  <2>9. c.pc = "lookup" => Passed(r, now)'
    BY <1>0, <2>0, <2>2 DEF CheckOK, Looking
  <2>10. c.pc = "remember" /\ c.entry.found => Backed(Key(r), c.since)'
    BY <2>0, <2>1, <2>3 DEF CheckOK, Looking
  <2>11. c.pc = "refused" => Backed(Key(r), now - (MaxPropagationDelay + StatementTime))'
    BY <2>0, <2>3, <2>6 DEF CheckOK
  <2> QED
    BY <2>0, <2>4, <2>5, <2>7, <2>8, <2>9, <2>10, <2>11 DEF CheckOK
<1> QED
  BY <1>2, <1>3 DEF CheckInv

-----------------------------------------------------------------------------
(* Revocations, reinstatements and sweeps.                                 *)

\* The invariant's part about the table and the history, without the operator.
RowsInv ==
    /\ \A k \in Rows : table[k] # None =>
          standing[k] = table[k].at /\ table[k].expires = table[k].at + MaxTokenLifetime
    /\ \A k \in Rows : standing[k] # None /\ table[k] = None =>
          standing[k] + MaxTokenLifetime < now
    /\ \A t \in Tokens : standing[t] # None => IssuedAt[t] <= standing[t] + Leeway
    /\ \A t \in Tokens, form \in Forms : out[t][form] # None =>
          standing[RowOf(t, form)] # None /\ Withdraws(t, form, standing[RowOf(t, form)])

RowsType ==
    /\ table \in [Rows -> TableRows \cup {None}]
    /\ standing \in [Rows -> TimeOrNone] /\ lifted \in [Rows -> TimeOrNone]
    /\ out \in [Tokens -> [Forms -> TimeOrNone]]

LEMMA RecordedOut ==
    ASSUME TypeOK, NEW s, Recorded(s)
    PROVE  /\ out' \in [Tokens -> [Forms -> TimeOrNone]] /\ OutMoves
           /\ \A t \in Tokens, form \in Forms : out'[t][form] # None =>
                 s[RowOf(t, form)] # None /\ Withdraws(t, form, s[RowOf(t, form)])
<1>1. now \in TimeOrNone
  BY DEF TypeOK, TimeOrNone
<1>2. \A t \in Tokens, form \in Forms : out[t][form] \in TimeOrNone
  BY DEF TypeOK
<1>3. out' = [t \in Tokens |-> [form \in Forms |->
            IF s[RowOf(t, form)] = None \/ ~Withdraws(t, form, s[RowOf(t, form)]) THEN None
            ELSE IF out[t][form] # None THEN out[t][form] ELSE now]]
  BY DEF Recorded
<1>4. out' \in [Tokens -> [Forms -> TimeOrNone]]
  BY <1>1, <1>2, <1>3 DEF TimeOrNone
<1> QED
  BY <1>3, <1>4 DEF OutMoves

LEMMA LandedRows ==
    ASSUME TypeOK, TableInv, NEW k \in Rows, NEW at \in 0 .. MaxTime, Landed(k, at), UNCHANGED now,
           k \in Tokens => IssuedAt[k] <= at + Leeway
    PROVE  RowsType' /\ RowsInv' /\ OutMoves /\ RowsMove
<1> DEFINE row == [at |-> at, expires |-> at + MaxTokenLifetime]
           s == [standing EXCEPT ![k] = at]
<1>1. row \in TableRows /\ row # None /\ row.at = at /\ row.expires = at + MaxTokenLifetime
  BY RevocationAssumption, NoRowAssumption DEF TableRows
<1>2. table' = [table EXCEPT ![k] = row] /\ Recorded(s) /\ lifted' = lifted /\ standing' = s
  BY DEF Landed, Recorded
<1>3. at # None /\ at \in TimeOrNone
  BY RevocationAssumption DEF TimeOrNone
<1> HIDE DEF row
<1>4. s \in [Rows -> TimeOrNone]
  BY <1>3 DEF TypeOK
<1>5. /\ out' \in [Tokens -> [Forms -> TimeOrNone]] /\ OutMoves
      /\ \A t \in Tokens, form \in Forms : out'[t][form] # None =>
                 s[RowOf(t, form)] # None /\ Withdraws(t, form, s[RowOf(t, form)])
  <2> HIDE DEF s
  <2> QED
    BY <1>2, RecordedOut
<1>6. RowsType'
  BY <1>1, <1>2, <1>4, <1>5 DEF TypeOK, RowsType
<1>7. RowsMove
  BY <1>1, <1>2 DEF RowsMove, TypeOK
<1>8. \A j \in Rows : j # k => table'[j] = table[j] /\ standing'[j] = standing[j]
  BY <1>2 DEF TypeOK
<1>9. table'[k] = row /\ standing'[k] = at
  BY <1>2 DEF TypeOK
<1>10. \A t \in Tokens : standing'[t] # None => IssuedAt[t] <= standing'[t] + Leeway
  <2>1. \A t \in Tokens : t \in Rows
    BY DEF Rows
  <2> QED
    BY <1>8, <1>9, <2>1 DEF TableInv
<1>11. RowsInv'
  BY <1>1, <1>2, <1>5, <1>8, <1>9, <1>10 DEF TableInv, RowsInv
<1> QED
  BY <1>5, <1>6, <1>7, <1>11

LEMMA DeletesRows ==
    ASSUME TypeOK, NEW rows, Deletes(rows)
    PROVE  /\ table' \in [Rows -> TableRows \cup {None}] /\ lifted' \in [Rows -> TimeOrNone]
           /\ RowsMove
           /\ \A k \in Rows : table'[k] = IF k \in rows THEN None ELSE table[k]
BY DEF TypeOK, Deletes, RowsMove, TimeOrNone

(* The table may have changed in a way the rest of the invariant allows. *)
LEMMA RowsStep ==
    ASSUME RevocationInv, RowsType', RowsInv', OutMoves, RowsMove,
           UNCHANGED <<now, cache, check>>,
           writes' \in 0 .. MaxWrites, fails' \in 0 .. MaxFails, operator' \in Operations,
           operator'.pc # "idle" => operator'.row \in Rows,
           operator'.pc = "revoke" => operator' = operator
    PROVE  RevocationInv'
<1>1. CacheInv' /\ CheckInv'
  BY WorldMoves
<1>2. TypeOK'
  BY DEF RevocationInv, TypeOK, RowsType
<1>3. TableInv'
  BY DEF RevocationInv, TableInv, RowsInv
<1> QED
  BY <1>1, <1>2, <1>3 DEF RevocationInv

LEMMA RevokeInv ==
    ASSUME RevocationInv,
           \/ RevokeWrites \/ RevokeFails
           \/ \E k \in Named : RevokeStarts(k) \/ RevokeElsewhere(k)
    PROVE  RevocationInv'
<1>0. TypeOK /\ TableInv /\ CacheInv /\ CheckInv /\ now \in Nat /\ operator \in Operations
  BY TimeType DEF RevocationInv, TypeOK
<1>a. \A k \in Named : k \in Rows /\ (k \in Tokens => IssuedAt[k] <= now + Leeway)
  BY RevocationAssumption DEF Named, Rows
<1>b. RowsType /\ RowsInv
  BY <1>0 DEF TypeOK, TableInv, RowsType, RowsInv
<1>1. CASE RevokeWrites
  <2>1. /\ operator.row \in Rows /\ operator.at \in 0 .. MaxTime
        /\ operator.row \in Tokens => IssuedAt[operator.row] <= operator.at + Leeway
        /\ Landed(operator.row, operator.at)
    BY <1>0, <1>1 DEF TableInv, RevokeWrites, Operations
  <2>2. RowsType' /\ RowsInv' /\ OutMoves /\ RowsMove
    BY <1>0, <1>1, <2>1, LandedRows DEF RevokeWrites
  <2>3. operator' \in Operations /\ operator'.pc = "forget" /\ operator'.row = operator.row
    BY <1>0, <1>1 DEF RevokeWrites, Operations
  <2> QED
    BY <1>0, <1>1, <2>1, <2>2, <2>3, RowsStep DEF RevokeWrites, counters, TypeOK
<1>2. CASE RevokeFails
  <2>1. /\ operator.row \in Rows /\ operator.at \in 0 .. MaxTime
        /\ operator.row \in Tokens => IssuedAt[operator.row] <= operator.at + Leeway
    BY <1>0, <1>2 DEF TableInv, RevokeFails, Operations
  <2>2. RowsType' /\ RowsInv' /\ OutMoves /\ RowsMove
    <3>1. CASE Landed(operator.row, operator.at)
      BY <1>0, <1>2, <2>1, <3>1, LandedRows DEF RevokeFails
    <3>2. CASE UNCHANGED <<table, history>>
      <4>1. RowsType'
        BY <1>b, <3>2 DEF RowsType, history
      <4>2. RowsInv'
        BY <1>b, <1>2, <3>2 DEF RowsInv, history, RevokeFails
      <4> QED
        BY <4>1, <4>2, <3>2 DEF OutMoves, RowsMove, history
    <3> QED
      BY <1>2, <3>1, <3>2 DEF RevokeFails
  <2>3. operator' \in Operations /\ operator'.pc = "idle"
    BY <1>2, IdleType DEF RevokeFails, Resting
  <2>4. fails' \in 0 .. MaxFails /\ writes' \in 0 .. MaxWrites
    BY <1>0, <1>2, RevocationAssumption DEF RevokeFails, TypeOK
  <2> QED
    BY <1>0, <1>2, <2>2, <2>3, <2>4, RowsStep DEF RevokeFails
<1>3. ASSUME NEW k \in Named, RevokeElsewhere(k) PROVE RevocationInv'
  <2>1. k \in Rows /\ now \in 0 .. MaxTime /\ (k \in Tokens => IssuedAt[k] <= now + Leeway)
    BY <1>0, <1>a DEF TypeOK
  <2>2. RowsType' /\ RowsInv' /\ OutMoves /\ RowsMove
    BY <1>0, <1>3, <2>1, LandedRows DEF RevokeElsewhere
  <2>3. fails' \in 0 .. MaxFails /\ writes' \in 0 .. MaxWrites
    BY <1>0, <1>3, RevocationAssumption DEF RevokeElsewhere, TypeOK
  <2> QED
    BY <1>0, <1>3, <2>2, <2>3, RowsStep DEF RevokeElsewhere, TableInv
<1>4. ASSUME NEW k \in Named, RevokeStarts(k) PROVE RevocationInv'
  <2>1. /\ operator' \in Operations /\ operator'.row \in Rows
        /\ operator'.row \in Tokens => IssuedAt[operator'.row] <= operator'.at + Leeway
    BY <1>0, <1>a, <1>4 DEF RevokeStarts, Operations, TypeOK
  <2>2. writes' \in 0 .. MaxWrites
    BY <1>0, <1>4, RevocationAssumption DEF RevokeStarts, TypeOK
  <2>3. TypeOK'
    BY <1>0, <1>4, <2>1, <2>2 DEF RevokeStarts, TypeOK, history
  <2>4. TableInv'
    BY <1>0, <1>4, <2>1 DEF RevokeStarts, TableInv, history
  <2>5. OutMoves /\ RowsMove /\ UNCHANGED <<now, cache, check>>
    BY <1>4 DEF RevokeStarts, OutMoves, RowsMove, history
  <2> QED
    BY <2>3, <2>4, <2>5, WorldMoves DEF RevocationInv
<1> QED
  BY <1>1, <1>2, <1>3, <1>4

LEMMA LiftInv ==
    ASSUME RevocationInv, Prune \/ \E k \in Named : Reinstates(k)
    PROVE  RevocationInv'
<1>0. TypeOK /\ TableInv /\ now \in Nat /\ operator \in Operations
  BY TimeType DEF RevocationInv, TypeOK
<1>1. CASE Prune
  <2> DEFINE dead == {k \in Rows : table[k] # None /\ table[k].expires < now}
  <2>1. Deletes(dead) /\ UNCHANGED <<now, cache, check, operator, counters, standing, out>>
    BY <1>1 DEF Prune
  <2>2. /\ table' \in [Rows -> TableRows \cup {None}] /\ lifted' \in [Rows -> TimeOrNone]
        /\ RowsMove
        /\ \A k \in Rows : table'[k] = IF k \in dead THEN None ELSE table[k]
    <3> HIDE DEF dead
    <3> QED
      BY <1>0, <2>1, DeletesRows
  <2>3. RowsType' /\ OutMoves
    BY <1>0, <2>1, <2>2 DEF RowsType, TypeOK, OutMoves
  <2>4. RowsInv'
    <3>1. \A k \in dead : standing[k] + MaxTokenLifetime < now
      BY <1>0 DEF TableInv
    <3> QED
      BY <1>0, <2>1, <2>2, <3>1 DEF TableInv, RowsInv
  <2> QED
    BY <1>0, <2>1, <2>2, <2>3, <2>4, RowsStep DEF counters, TypeOK, TableInv
<1>2. ASSUME NEW k \in Named, Reinstates(k) PROVE RevocationInv'
  <2> DEFINE s == [standing EXCEPT ![k] = None]
  <2>0. k \in Rows
    BY DEF Named, Rows
  <2>1. /\ Deletes({k}) /\ Recorded(s) /\ standing' = s
        /\ UNCHANGED <<now, cache, check, fails>>
    BY <1>2 DEF Reinstates, Recorded
  <2>2. /\ table' \in [Rows -> TableRows \cup {None}] /\ lifted' \in [Rows -> TimeOrNone]
        /\ RowsMove
        /\ \A j \in Rows : table'[j] = IF j \in {k} THEN None ELSE table[j]
    BY <1>0, <2>1, DeletesRows
  <2>3. s \in [Rows -> TimeOrNone] /\ \A j \in Rows : s[j] = IF j = k THEN None ELSE standing[j]
    BY <1>0 DEF TypeOK, TimeOrNone
  <2>4. /\ out' \in [Tokens -> [Forms -> TimeOrNone]] /\ OutMoves
        /\ \A t \in Tokens, form \in Forms : out'[t][form] # None =>
                 s[RowOf(t, form)] # None /\ Withdraws(t, form, s[RowOf(t, form)])
    <3> HIDE DEF s
    <3> QED
      BY <1>0, <2>1, RecordedOut
  <2>5. RowsType'
    BY <2>1, <2>2, <2>3, <2>4 DEF RowsType
  <2> HIDE DEF s
  <2>6. RowsInv'
    <3>1. \A t \in Tokens : t \in Rows
      BY DEF Rows
    <3> QED
      BY <1>0, <2>1, <2>2, <2>3, <2>4, <3>1 DEF TableInv, RowsInv
  <2>7. operator' \in Operations /\ operator'.pc = "forget" /\ operator'.row \in Rows
    BY <1>2, <2>0, RevocationAssumption DEF Reinstates, Operations
  <2>8. fails' \in 0 .. MaxFails /\ writes' \in 0 .. MaxWrites
    BY <1>0, <1>2, RevocationAssumption DEF Reinstates, TypeOK
  <2> QED
    BY <2>1, <2>2, <2>4, <2>5, <2>6, <2>7, <2>8, RowsStep
<1> QED
  BY <1>1, <1>2

-----------------------------------------------------------------------------
(* Requests.                                                               *)

\* What no step of a request touches.
World == <<now, table, operator, writes, standing, out, lifted>>

(* A step of one request, with what it does to the cache. *)
LEMMA RequestStep ==
    ASSUME RevocationInv, NEW r \in Requests, UNCHANGED World, fails' \in 0 .. MaxFails,
           check' \in [Requests -> Checks], \A q \in Requests : q # r => check'[q] = check[q],
           CheckOK(r)',
           cache' \in [Rows -> CacheEntries \cup {None}], CacheInv',
           Cardinality(Entries(cache')) <= MaxEntries
    PROVE  RevocationInv'
<1>1. TypeOK'
  BY DEF RevocationInv, TypeOK, World
<1>2. TableInv'
  BY TableKeeps DEF RevocationInv, World
<1>3. CheckInv'
  BY OthersKeep DEF RevocationInv, World
<1> QED
  BY <1>1, <1>2, <1>3 DEF RevocationInv

LEMMA SameCache ==
    ASSUME RevocationInv, UNCHANGED <<cache, now, table, out, lifted>>
    PROVE  /\ cache' \in [Rows -> CacheEntries \cup {None}] /\ CacheInv'
           /\ Cardinality(Entries(cache')) <= MaxEntries
<1>1. TypeOK /\ CacheInv /\ cache' = cache /\ cache \in [Rows -> CacheEntries \cup {None}]
  BY DEF RevocationInv, TypeOK
<1>2. \A k \in Rows : cache'[k] \in {cache[k], None}
  BY <1>1
<1> QED
  BY <1>1, <1>2, LessCache

(* The verdict on an answer: refused with a row behind it, past the form   *)
(* at a moment the withdrawal had not spread, or admitted at such a one.   *)
LEMMA JudgeOK ==
    ASSUME RevocationInv, NEW r \in Requests, NEW entry, Judge(r, entry),
           UNCHANGED <<now, table, out, lifted>>,
           check[r].token \in Tokens, Sound(check[r].token), check[r].form \in Forms,
           NEW x \in Nat, now <= x + StatementTime, Passed(r, x),
           Counts(check[r].token, check[r].form) =>
              \/ Refuses(entry, check[r].token, check[r].form)
              \/ now <= out[check[r].token][check[r].form] + MaxPropagationDelay + StatementTime,
           entry.found => Backed(Key(r), now - (MaxPropagationDelay + StatementTime))
    PROVE  CheckOK(r)'
<1> DEFINE t == check[r].token
           f == check[r].form
<1>0. /\ TypeOK /\ now \in Nat /\ StatementTime \in Nat /\ MaxPropagationDelay \in Nat
      /\ Propagation = MaxPropagationDelay + 2 * StatementTime
  BY TimeType, RevocationAssumption DEF RevocationInv, Propagation
<1>a. \A g \in Forms : Counts(t, g) => out[t][g] \in Nat
  BY <1>0, RevocationAssumption DEF Counts, TypeOK, TimeOrNone
<1>b. \A u, g : Counts(u, g)' <=> Counts(u, g)
  BY DEF Counts
<1>1. /\ check' \in [Requests -> Checks] /\ check'[r].token = t
      /\ \/ /\ Refuses(entry, t, f) /\ check'[r].pc = "refused" /\ check'[r].form = f
         \/ /\ ~Refuses(entry, t, f) /\ f = "token" /\ "subject" \in Forms
            /\ check'[r].pc = "lookup" /\ check'[r].form = "subject"
         \/ /\ ~Refuses(entry, t, f) /\ ~(f = "token" /\ "subject" \in Forms)
            /\ check'[r].pc = "admitted" /\ check'[r].form = f
  BY <1>0, JudgeCases DEF TypeOK
<1>2. CASE Refuses(entry, t, f) /\ check'[r].pc = "refused" /\ check'[r].form = f
  <2>1. Backed(Key(r), now - (MaxPropagationDelay + StatementTime))
    BY <1>2 DEF Refuses
  <2>2. Key(r)' = Key(r)
    BY <1>1, <1>2 DEF Key, RowOf
  <2>3. Backed(Key(r), now - (MaxPropagationDelay + StatementTime))'
    BY <2>1, <2>2 DEF Backed
  <2> QED
    BY <1>1, <1>2, <2>3 DEF CheckOK, Looking
<1>3. CASE /\ ~Refuses(entry, t, f) /\ f = "token" /\ "subject" \in Forms
           /\ check'[r].pc = "lookup" /\ check'[r].form = "subject"
  <2>1. Passed(r, now)'
    <3>1. Counts(t, "token") => now <= out[t]["token"] + MaxPropagationDelay + StatementTime
      BY <1>3
    <3> QED
      BY <1>1, <1>3, <3>1 DEF Passed, Counts
  <2> QED
    BY <1>1, <1>3, <2>1 DEF CheckOK, Looking
<1>4. CASE /\ ~Refuses(entry, t, f) /\ ~(f = "token" /\ "subject" \in Forms)
           /\ check'[r].pc = "admitted" /\ check'[r].form = f
  <2>1. ASSUME NEW g \in Forms, Counts(t, g) PROVE now <= out[t][g] + Propagation
    <3>1. out[t][g] \in Nat
      BY <1>a, <2>1
    <3>2. CASE g = f
      BY <1>0, <1>4, <2>1, <3>1, <3>2
    <3>3. CASE g # f
      <4>1. f = "subject" /\ g = "token"
        BY <1>4, <3>3, RevocationAssumption
      <4>2. x <= out[t][g] + MaxPropagationDelay + StatementTime
        BY <2>1, <4>1 DEF Passed
      <4> QED
        BY <1>0, <3>1, <4>2
    <3> QED
      BY <3>2, <3>3
  <2>2. (\A g \in Forms : Counts(check[r].token, g) => now <= out[check[r].token][g] + Propagation)'
    BY <1>1, <2>1 DEF Counts
  <2> QED
    BY <1>1, <1>4, <2>2 DEF CheckOK, Looking
<1> QED
  BY <1>1, <1>2, <1>3, <1>4

LEMMA PresentInv ==
    ASSUME RevocationInv, NEW r \in Requests, NEW t \in Tokens, Present(r, t)
    PROVE  RevocationInv'
<1> DEFINE c == [Idle EXCEPT !.pc = "lookup", !.token = t, !.form = FirstForm]
<1>1. c \in Checks /\ c.pc = "lookup" /\ c.token = t /\ c.form = FirstForm
  BY IdleType, FirstFormType DEF Checks
<1>2. Become(r, c) /\ UNCHANGED <<World, fails, cache>> /\ Verifies(t, now)
  BY DEF Present, World, counters, history
<1> HIDE DEF c
<1>3. /\ check' \in [Requests -> Checks] /\ check'[r] = c
      /\ \A q \in Requests : q # r => check'[q] = check[q]
  BY <1>1, <1>2, BecomeType DEF RevocationInv, TypeOK
<1>4. Sound(t)
  BY <1>2, RevocationAssumption DEF Verifies, Sound
<1>5. ~("token" \in Forms /\ FirstForm = "subject") /\ FirstForm \in Forms
  BY FirstFormType DEF FirstForm
<1>6. CheckOK(r)'
  BY <1>1, <1>3, <1>4, <1>5 DEF CheckOK, Looking, Passed
<1>7. fails' \in 0 .. MaxFails
  BY <1>2 DEF RevocationInv, TypeOK
<1> QED
  BY <1>2, <1>3, <1>6, <1>7, SameCache, RequestStep DEF World

LEMMA CachedInv ==
    ASSUME RevocationInv, NEW r \in Requests, LookupCached(r)
    PROVE  RevocationInv'
<1> DEFINE k == Key(r)
           e == cache[k]
           entry == [found |-> e.found, at |-> e.at]
           t == check[r].token
           f == check[r].form
<1>0. TypeOK /\ CacheInv /\ CheckInv /\ now \in Nat
      /\ StatementTime \in Nat /\ MaxPropagationDelay \in Nat
  BY TimeType, RevocationAssumption DEF RevocationInv
<1>1. /\ check[r].pc = "lookup" /\ e # None /\ ~Stale(e, now) /\ Judge(r, entry)
      /\ UNCHANGED <<World, fails, cache>>
  BY DEF LookupCached, World, counters, history
<1>2. t \in Tokens /\ Sound(t) /\ f \in Forms /\ Passed(r, now)
  BY <1>0, <1>1 DEF CheckInv, CheckOK, Looking
<1>3. k \in Rows /\ k = RowOf(t, f)
  BY <1>2, RowOfType DEF Key
<1>4. e \in CacheEntries /\ e.answeredAt \in Nat /\ now <= e.answeredAt + MaxPropagationDelay
  BY <1>0, <1>1, <1>3 DEF TypeOK, CacheEntries, Stale
<1>5. Counts(t, f) => Refuses(entry, t, f)
          \/ now <= out[t][f] + MaxPropagationDelay + StatementTime
  <2>1. SUFFICES ASSUME Counts(t, f), ~Refuses(entry, t, f)
                 PROVE  now <= out[t][f] + MaxPropagationDelay + StatementTime
    OBVIOUS
  <2>2. ~Refuses(e, t, f)
    BY <2>1 DEF Refuses
  <2>3. e.answeredAt <= out[t][f] + StatementTime
    BY <1>0, <1>1, <1>2, <1>3, <2>1, <2>2 DEF CacheInv
  <2>4. out[t][f] \in Nat
    <3>1. out[t][f] \in TimeOrNone /\ out[t][f] # None
      BY <1>0, <1>2, <2>1 DEF Counts, TypeOK
    <3> QED
      BY <3>1, RevocationAssumption DEF TimeOrNone
  <2> QED
    BY <1>0, <1>4, <2>3, <2>4
<1>6. entry.found => Backed(k, now - (MaxPropagationDelay + StatementTime))
  <2>1. SUFFICES ASSUME entry.found PROVE Backed(k, now - (MaxPropagationDelay + StatementTime))
    OBVIOUS
  <2>2. Backed(k, e.answeredAt - StatementTime)
    BY <1>0, <1>1, <1>3, <2>1 DEF CacheInv
  <2>3. lifted[k] # None => lifted[k] \in Nat
    BY <1>0, <1>3 DEF TypeOK, TimeOrNone
  <2> QED
    BY <1>0, <1>4, <2>2, <2>3 DEF Backed
<1> HIDE DEF e, entry, k, t, f
<1>7. CheckOK(r)'
  <2>1. now <= now + StatementTime
    BY <1>0
  <2> QED
    BY <1>0, <1>1, <1>2, <1>5, <1>6, <2>1, JudgeOK DEF World, k, t, f
<1>8. /\ check' \in [Requests -> Checks]
      /\ \A q \in Requests : q # r => check'[q] = check[q]
  BY <1>0, <1>1, JudgeCases DEF TypeOK
<1>9. fails' \in 0 .. MaxFails
  BY <1>0, <1>1 DEF TypeOK
<1> QED
  BY <1>1, <1>7, <1>8, <1>9, SameCache, RequestStep DEF World

LEMMA MissesInv ==
    ASSUME RevocationInv, NEW r \in Requests, LookupMisses(r)
    PROVE  RevocationInv'
<1> DEFINE c == [check[r] EXCEPT !.pc = "read", !.since = now]
<1>0. TypeOK /\ CacheInv /\ CheckInv /\ now \in Nat /\ StatementTime \in Nat
  BY TimeType, RevocationAssumption DEF RevocationInv
<1>1. /\ check[r].pc = "lookup" /\ Become(r, c) /\ UNCHANGED <<World, fails>>
      /\ cache' = [cache EXCEPT ![Key(r)] = None]
  BY DEF LookupMisses, World, counters, history
<1>2. /\ c \in Checks /\ c.pc = "read" /\ c.since = now
      /\ c.token = check[r].token /\ c.form = check[r].form
  BY <1>0 DEF TypeOK, Checks
<1> HIDE DEF c
<1>3. /\ check' \in [Requests -> Checks] /\ check'[r] = c
      /\ \A q \in Requests : q # r => check'[q] = check[q]
  BY <1>0, <1>1, <1>2, BecomeType DEF TypeOK
<1>4. CheckOK(r)
  BY <1>0 DEF CheckInv
<1>5. Passed(r, now) /\ check'[r].since = now /\ now' = now
  BY <1>1, <1>2, <1>3, <1>4 DEF CheckOK, World
<1>a. Passed(r, check[r].since)'
  BY <1>1, <1>2, <1>3, <1>5 DEF Passed, Counts, World
<1>6. CheckOK(r)'
  BY <1>0, <1>2, <1>3, <1>4, <1>5, <1>a, <1>1 DEF CheckOK, Looking
<1>7. /\ cache' \in [Rows -> CacheEntries \cup {None}]
      /\ \A k \in Rows : cache'[k] \in {cache[k], None}
  BY <1>0, <1>1 DEF TypeOK
<1>8. CacheInv' /\ Cardinality(Entries(cache')) <= MaxEntries
  BY <1>0, <1>1, <1>7, LessCache DEF World
<1>9. fails' \in 0 .. MaxFails
  BY <1>0, <1>1 DEF TypeOK
<1> QED
  BY <1>1, <1>3, <1>6, <1>7, <1>8, <1>9, RequestStep

(* The SELECT finds the row of every withdrawal that still counts. *)
LEMMA CountsStands ==
    ASSUME TypeOK, TableInv, NEW t \in Tokens, NEW form \in Forms, Counts(t, form)
    PROVE  /\ table[RowOf(t, form)] # None
           /\ Withdraws(t, form, table[RowOf(t, form)].at)
<1> DEFINE k == RowOf(t, form)
<1>1. k \in Rows
  BY RowOfType
<1>2. standing[k] # None /\ Withdraws(t, form, standing[k])
  BY DEF TableInv, Counts
<1>3. standing[k] \in Nat /\ now \in Nat
  BY <1>1, <1>2, TimeType DEF TypeOK, TimeOrNone
<1>4. /\ ExpiresAt[t] \in Nat /\ IssuedAt[t] \in Nat /\ MaxTokenLifetime \in Nat
      /\ Leeway \in Nat
  BY RevocationAssumption
<1>5. IssuedAt[t] <= standing[k] + Leeway
  <2>1. CASE form = "token"
    BY <1>2, <2>1 DEF RowOf, TableInv
  <2>2. CASE form # "token"
    BY <1>2, <1>3, <1>4, <2>2 DEF Withdraws
  <2> QED
    BY <2>1, <2>2
<1>6. now + Leeway < ExpiresAt[t] /\ ExpiresAt[t] - IssuedAt[t] <= MaxTokenLifetime
  BY DEF Counts, Sound
<1>7. ~(standing[k] + MaxTokenLifetime < now)
  <2> HIDE DEF k
  <2> QED
    BY <1>3, <1>4, <1>5, <1>6
<1>8. table[k] # None
  BY <1>1, <1>2, <1>7 DEF TableInv
<1>9. table[k].at = standing[k]
  BY <1>1, <1>8 DEF TableInv
<1> QED
  BY <1>2, <1>8, <1>9

LEMMA ReadInv ==
    ASSUME RevocationInv, NEW r \in Requests, ReadRow(r)
    PROVE  RevocationInv'
<1> DEFINE row == table[Key(r)]
           e == IF row = None THEN NotFound ELSE [found |-> TRUE, at |-> row.at]
           c == [check[r] EXCEPT !.pc = "remember", !.entry = e]
<1>0. TypeOK /\ TableInv /\ CheckInv /\ now \in Nat /\ StatementTime \in Nat
  BY TimeType, RevocationAssumption DEF RevocationInv
<1>1. check[r].pc = "read" /\ Become(r, c) /\ UNCHANGED <<World, fails, cache>>
  BY DEF ReadRow, World, counters, history
<1>2. /\ check[r].token \in Tokens /\ Sound(check[r].token) /\ check[r].form \in Forms
      /\ check[r].since <= now /\ now <= check[r].since + StatementTime
      /\ Passed(r, check[r].since)
  BY <1>0, <1>1 DEF CheckInv, CheckOK, Looking
<1>3. Key(r) \in Rows
  BY <1>2, RowOfType DEF Key
<1>4. e \in Answers /\ (e.found => row # None)
  <2>1. CASE row = None
    BY <2>1, IdleType DEF NotFound
  <2>2. CASE row # None
    <3>1. row \in TableRows
      BY <1>0, <1>3, <2>2 DEF TypeOK
    <3> QED
      BY <2>2, <3>1 DEF TableRows, Answers
  <2> QED
    BY <2>1, <2>2
<1>5. /\ c \in Checks /\ c.pc = "remember" /\ c.since = check[r].since /\ c.entry = e
      /\ c.token = check[r].token /\ c.form = check[r].form
  <2> HIDE DEF e
  <2> QED
    BY <1>0, <1>4 DEF TypeOK, Checks
<1>6. \A t \in Tokens, form \in Forms : RowOf(t, form) = Key(r) /\ Counts(t, form) =>
            Refuses(e, t, form)
  <2> SUFFICES ASSUME NEW t \in Tokens, NEW form \in Forms,
                      RowOf(t, form) = Key(r), Counts(t, form)
               PROVE  Refuses(e, t, form)
    OBVIOUS
  <2>1. row # None /\ Withdraws(t, form, row.at)
    BY <1>0, CountsStands
  <2> QED
    BY <2>1 DEF Refuses
<1> HIDE DEF c, e
<1>7. /\ check' \in [Requests -> Checks] /\ check'[r] = c
      /\ \A q \in Requests : q # r => check'[q] = check[q]
  BY <1>0, <1>1, <1>5, BecomeType DEF TypeOK
<1>8. Key(r)' = Key(r)
  BY <1>5, <1>7 DEF Key, RowOf
<1>9. CheckOK(r)'
  <2>1. Passed(r, check[r].since)'
    BY <1>1, <1>2, <1>5, <1>7 DEF Passed, Counts, World
  <2>2. (\A t \in Tokens, form \in Forms : RowOf(t, form) = Key(r) /\ Counts(t, form) =>
              Refuses(check[r].entry, t, form))'
    BY <1>1, <1>5, <1>6, <1>7, <1>8 DEF Counts, World
  <2>3. (check[r].entry.found => Backed(Key(r), check[r].since))'
    BY <1>1, <1>4, <1>5, <1>7, <1>8 DEF Backed, World
  <2> QED
    BY <1>1, <1>2, <1>5, <1>7, <2>1, <2>2, <2>3 DEF CheckOK, Looking, World
<1>10. fails' \in 0 .. MaxFails
  BY <1>0, <1>1 DEF TypeOK
<1> QED
  BY <1>1, <1>7, <1>9, <1>10, SameCache, RequestStep DEF World

LEMMA ReadFailsInv ==
    ASSUME RevocationInv, NEW r \in Requests, ReadFails(r)
    PROVE  RevocationInv'
<1> DEFINE c == [Idle EXCEPT !.pc = IF Admits THEN "admitted" ELSE "unavailable",
                             !.token = check[r].token]
<1>0. TypeOK /\ CheckInv /\ MaxFails \in Nat
  BY RevocationAssumption DEF RevocationInv
<1>1. /\ check[r].pc \in {"read", "remember"} /\ Become(r, c) /\ UNCHANGED <<World, cache>>
      /\ fails < MaxFails /\ fails' = fails + 1
  BY DEF ReadFails, World, history
<1>2. check[r].token \in Tokens /\ Sound(check[r].token)
  BY <1>0, <1>1 DEF CheckInv, CheckOK, Looking
<1>3. /\ c \in Checks /\ c.token = check[r].token
      /\ (Admits /\ c.pc = "admitted") \/ c.pc = "unavailable"
  BY <1>2, IdleType, RevocationAssumption DEF Checks
<1> HIDE DEF c
<1>4. /\ check' \in [Requests -> Checks] /\ check'[r] = c
      /\ \A q \in Requests : q # r => check'[q] = check[q]
  BY <1>0, <1>1, <1>3, BecomeType DEF TypeOK
<1>5. CheckOK(r)'
  BY <1>2, <1>3, <1>4 DEF CheckOK, Looking
<1>6. fails' \in 0 .. MaxFails
  BY <1>0, <1>1 DEF TypeOK
<1> QED
  BY <1>1, <1>4, <1>5, <1>6, SameCache, RequestStep DEF World

LEMMA ReturnInv ==
    ASSUME RevocationInv, NEW r \in Requests, Return(r)
    PROVE  RevocationInv'
<1>1. Become(r, Idle) /\ UNCHANGED <<World, fails, cache>>
  BY DEF Return, World, counters, history
<1>2. /\ check' \in [Requests -> Checks] /\ check'[r] = Idle
      /\ \A q \in Requests : q # r => check'[q] = check[q]
  BY <1>1, IdleType, BecomeType DEF RevocationInv, TypeOK
<1>3. CheckOK(r)'
  BY <1>2 DEF CheckOK, Looking, Idle
<1>4. fails' \in 0 .. MaxFails
  BY <1>1 DEF RevocationInv, TypeOK
<1> QED
  BY <1>1, <1>2, <1>3, <1>4, SameCache, RequestStep DEF World

(* An answer that remember stores or judges, against the withdrawals that  *)
(* its SELECT may have missed.                                             *)
LEMMA RememberedOK ==
    ASSUME RevocationInv, NEW r \in Requests, check[r].pc = "remember"
    PROVE  /\ check[r].token \in Tokens /\ Sound(check[r].token) /\ check[r].form \in Forms
           /\ Key(r) = RowOf(check[r].token, check[r].form) /\ Key(r) \in Rows
           /\ check[r].since \in Nat /\ now <= check[r].since + StatementTime
           /\ Passed(r, check[r].since)
           /\ check[r].entry \in Answers
           /\ \A t \in Tokens, form \in Forms : RowOf(t, form) = Key(r) /\ Counts(t, form) =>
                 \/ Refuses(check[r].entry, t, form)
                 \/ now <= out[t][form] + StatementTime
           /\ check[r].entry.found =>
                 /\ Backed(Key(r), now - StatementTime)
                 /\ Backed(Key(r), now - (MaxPropagationDelay + StatementTime))
<1>0. /\ TypeOK /\ CheckOK(r) /\ now \in Nat
      /\ StatementTime \in Nat /\ MaxPropagationDelay \in Nat
  BY TimeType, RevocationAssumption DEF RevocationInv, CheckInv
<1>1. /\ check[r].token \in Tokens /\ Sound(check[r].token) /\ check[r].form \in Forms
      /\ now <= check[r].since + StatementTime /\ Passed(r, check[r].since)
  BY <1>0 DEF CheckOK, Looking
<1>2. check[r].since \in Nat /\ check[r].entry \in Answers
  BY <1>0 DEF TypeOK, Checks
<1>3. Key(r) = RowOf(check[r].token, check[r].form) /\ Key(r) \in Rows
  BY <1>1, RowOfType DEF Key
<1>4. ASSUME NEW t \in Tokens, NEW form \in Forms, RowOf(t, form) = Key(r), Counts(t, form)
      PROVE  \/ Refuses(check[r].entry, t, form)
             \/ now <= out[t][form] + StatementTime
  <2>1. Refuses(check[r].entry, t, form) \/ check[r].since <= out[t][form]
    BY <1>0, <1>4 DEF CheckOK
  <2>2. out[t][form] \in TimeOrNone /\ out[t][form] # None
    BY <1>0, <1>4 DEF TypeOK, Counts
  <2>3. out[t][form] \in Nat
    BY <2>2, RevocationAssumption DEF TimeOrNone
  <2> QED
    BY <1>0, <1>1, <1>2, <2>1, <2>3
<1>5. ASSUME check[r].entry.found
      PROVE  /\ Backed(Key(r), now - StatementTime)
             /\ Backed(Key(r), now - (MaxPropagationDelay + StatementTime))
  <2>1. Backed(Key(r), check[r].since)
    BY <1>0, <1>5 DEF CheckOK
  <2>2. lifted[Key(r)] # None => lifted[Key(r)] \in Nat
    BY <1>0, <1>3 DEF TypeOK, TimeOrNone
  <2> QED
    BY <1>0, <1>1, <1>2, <2>1, <2>2 DEF Backed
<1> QED
  BY <1>1, <1>2, <1>3, <1>4, <1>5

LEMMA RememberInv ==
    ASSUME RevocationInv, NEW r \in Requests, Remember(r)
    PROVE  RevocationInv'
<1> DEFINE k == Key(r)
           entry == check[r].entry
           e == [found |-> entry.found, at |-> entry.at, answeredAt |-> now]
<1>0. /\ TypeOK /\ CacheInv /\ now \in Nat /\ now \in 0 .. MaxTime
      /\ StatementTime \in Nat /\ MaxPropagationDelay \in Nat
      /\ cache \in [Rows -> CacheEntries \cup {None}]
  BY TimeType, RevocationAssumption DEF RevocationInv, TypeOK
<1>1. /\ check[r].pc = "remember" /\ Judge(r, entry) /\ UNCHANGED <<World, fails>>
      /\ cache' = IF MaxPropagationDelay = 0 THEN cache ELSE [Room(cache) EXCEPT ![k] = e]
  BY DEF Remember, World, counters, history
<1>2. /\ check[r].token \in Tokens /\ Sound(check[r].token) /\ check[r].form \in Forms
      /\ k = RowOf(check[r].token, check[r].form) /\ k \in Rows
      /\ check[r].since \in Nat /\ now <= check[r].since + StatementTime
      /\ Passed(r, check[r].since)
      /\ entry \in Answers
      /\ \A t \in Tokens, form \in Forms : RowOf(t, form) = k /\ Counts(t, form) =>
            Refuses(entry, t, form) \/ now <= out[t][form] + StatementTime
      /\ entry.found =>
            /\ Backed(k, now - StatementTime)
            /\ Backed(k, now - (MaxPropagationDelay + StatementTime))
  BY <1>1, RememberedOK
<1>3. CheckOK(r)'
  <2>1. Counts(check[r].token, check[r].form) =>
            \/ Refuses(entry, check[r].token, check[r].form)
            \/ now <= out[check[r].token][check[r].form] + MaxPropagationDelay + StatementTime
    <3> SUFFICES ASSUME Counts(check[r].token, check[r].form),
                        ~Refuses(entry, check[r].token, check[r].form)
                 PROVE  now <= out[check[r].token][check[r].form]
                               + MaxPropagationDelay + StatementTime
      OBVIOUS
    <3>1. now <= out[check[r].token][check[r].form] + StatementTime
      BY <1>2
    <3>2. out[check[r].token][check[r].form] \in TimeOrNone
          /\ out[check[r].token][check[r].form] # None
      BY <1>0, <1>2 DEF TypeOK, Counts
    <3>3. out[check[r].token][check[r].form] \in Nat
      BY <3>2, RevocationAssumption DEF TimeOrNone
    <3> QED
      BY <1>0, <3>1, <3>3
  <2>2. UNCHANGED <<now, table, out, lifted>>
    BY <1>1 DEF World
  <2> HIDE DEF entry
  <2> QED
    BY <1>1, <1>2, <2>1, <2>2, JudgeOK
<1>4. /\ check' \in [Requests -> Checks]
      /\ \A q \in Requests : q # r => check'[q] = check[q]
  BY <1>0, <1>1, JudgeCases DEF TypeOK
<1>5. fails' \in 0 .. MaxFails
  BY <1>0, <1>1 DEF TypeOK
<1>6. /\ cache' \in [Rows -> CacheEntries \cup {None}] /\ CacheInv'
      /\ Cardinality(Entries(cache')) <= MaxEntries
  <2>1. CASE MaxPropagationDelay = 0
    <3>1. UNCHANGED <<cache, now, table, out, lifted>>
      BY <1>1, <2>1 DEF World
    <3> QED
      BY <3>1, SameCache
  <2>2. CASE MaxPropagationDelay # 0
    <3> DEFINE d == Room(cache)
    <3>1. /\ d \in [Rows -> CacheEntries \cup {None}]
          /\ \A j \in Rows : d[j] \in {cache[j], None}
          /\ IsFiniteSet(Entries(d)) /\ Cardinality(Entries(d)) \in Nat
          /\ Cardinality(Entries(d)) < MaxEntries
      BY <1>0, RoomBound DEF CacheInv
    <3>2. e \in CacheEntries /\ e.answeredAt = now /\ e.found = entry.found /\ e.at = entry.at
      BY <1>0, <1>2 DEF CacheEntries, Answers
    <3> HIDE DEF d, e, k
    <3>3. /\ cache' = [d EXCEPT ![k] = e]
          /\ cache' \in [Rows -> CacheEntries \cup {None}]
          /\ IsFiniteSet(Entries(cache'))
          /\ Cardinality(Entries(cache')) <= MaxEntries
      <4>1. cache' = [d EXCEPT ![k] = e]
        BY <1>1, <2>2 DEF d
      <4> QED
        BY <1>2, <3>1, <3>2, <4>1, StoreBound
    <3>4. ASSUME NEW j \in Rows, cache'[j] # None
          PROVE  /\ cache'[j].answeredAt <= now
                 /\ \A t \in Tokens, form \in Forms : RowOf(t, form) = j /\ Counts(t, form) =>
                       \/ Refuses(cache'[j], t, form)
                       \/ cache'[j].answeredAt <= out[t][form] + StatementTime
                 /\ cache'[j].found => Backed(j, cache'[j].answeredAt - StatementTime)
      <4>1. CASE j = k
        <5>1. cache'[j] = e
          BY <1>2, <3>1, <3>3, <4>1
        <5>2. \A t, form : Refuses(e, t, form) <=> Refuses(entry, t, form)
          BY <3>2 DEF Refuses
        <5> QED
          BY <1>0, <1>2, <3>2, <4>1, <5>1, <5>2
      <4>2. CASE j # k
        <5>1. cache'[j] = cache[j] /\ cache[j] # None
          BY <3>1, <3>3, <3>4, <4>2
        <5> QED
          BY <1>0, <5>1 DEF CacheInv
      <4> QED
        BY <4>1, <4>2
    <3> QED
      BY <1>1, <3>3, <3>4 DEF CacheInv, Counts, Backed, World
  <2> QED
    BY <2>1, <2>2
<1> QED
  BY <1>1, <1>3, <1>4, <1>5, <1>6, RequestStep

-----------------------------------------------------------------------------
(* The cache forgets, and time passes.                                     *)

LEMMA ForgetsInv ==
    ASSUME RevocationInv, Forgets
    PROVE  RevocationInv'
<1>0. TypeOK /\ TableInv /\ CacheInv /\ CheckInv
  BY DEF RevocationInv
<1>1. /\ cache' = [cache EXCEPT ![operator.row] = None] /\ operator' = Resting
      /\ UNCHANGED <<now, table, check, writes, fails, standing, out, lifted>>
  BY DEF Forgets, counters, history
<1>2. /\ cache' \in [Rows -> CacheEntries \cup {None}]
      /\ \A k \in Rows : cache'[k] \in {cache[k], None}
  BY <1>0, <1>1 DEF TypeOK
<1>3. CacheInv' /\ Cardinality(Entries(cache')) <= MaxEntries
  BY <1>0, <1>1, <1>2, LessCache
<1>4. TypeOK'
  BY <1>0, <1>1, <1>2, <1>3, IdleType DEF TypeOK
<1>5. TableInv'
  BY <1>0, <1>1 DEF TableInv, Resting
<1>6. CheckInv'
  BY <1>0, <1>1 DEF CheckInv, CheckOK, Passed, Counts, Backed, Key
<1> QED
  BY <1>3, <1>4, <1>5, <1>6 DEF RevocationInv

LEMMA TickInv ==
    ASSUME RevocationInv, Tick
    PROVE  RevocationInv'
<1>0. /\ TypeOK /\ TableInv /\ CacheInv /\ CheckInv /\ now \in Nat
      /\ StatementTime \in Nat /\ MaxTime \in Nat /\ Leeway \in Nat
      /\ MaxTokenLifetime \in Nat /\ ExpiresAt \in [Tokens -> Nat]
  BY TimeType, RevocationAssumption DEF RevocationInv
<1>1. /\ now < MaxTime /\ MayWait /\ now' = now + 1
      /\ UNCHANGED <<table, cache, check, operator, writes, fails, standing, out, lifted>>
  BY DEF Tick, counters, history
<1>2. TypeOK'
  <2>1. now' \in 0 .. MaxTime
    BY <1>0, <1>1
  <2> QED
    BY <1>0, <1>1, <2>1 DEF TypeOK
<1>3. TableInv'
  <2>1. \A k \in Rows : standing[k] # None => standing[k] \in Nat
    BY <1>0 DEF TypeOK, TimeOrNone
  <2>2. \A k \in Rows : standing[k] # None /\ table[k] = None =>
            standing[k] + MaxTokenLifetime < now'
    BY <1>0, <1>1, <2>1 DEF TableInv
  <2> QED
    BY <1>0, <1>1, <2>2 DEF TableInv
<1>4. \A t \in Tokens, form \in Forms : Counts(t, form)' => Counts(t, form)
  <2> SUFFICES ASSUME NEW t \in Tokens, NEW form \in Forms, Counts(t, form)'
               PROVE  Counts(t, form)
    OBVIOUS
  <2>1. ExpiresAt[t] \in Nat /\ now + 1 + Leeway < ExpiresAt[t]
    BY <1>0, <1>1 DEF Counts
  <2>2. now + Leeway < ExpiresAt[t]
    BY <1>0, <2>1
  <2> QED
    BY <1>1, <2>2 DEF Counts
<1>5. CacheInv'
  <2>1. \A k \in Rows : cache[k] # None => cache[k].answeredAt \in Nat
    BY <1>0 DEF TypeOK, CacheEntries
  <2>2. \A k \in Rows : cache[k] # None => cache[k].answeredAt <= now'
    BY <1>0, <1>1, <2>1 DEF CacheInv
  <2> QED
    BY <1>0, <1>1, <1>4, <2>2 DEF CacheInv, Backed
<1>6. ASSUME NEW r \in Requests PROVE CheckOK(r)'
  <2>1. /\ CheckOK(r) /\ check'[r] = check[r] /\ check[r].since \in Nat
        /\ check[r].pc \in {"idle", "read", "remember"}
        /\ check[r].pc # "idle" => now < check[r].since + StatementTime
        /\ Key(r)' = Key(r)
    BY <1>0, <1>1 DEF CheckInv, MayWait, TypeOK, Checks, Key
  <2>2. CASE check[r].pc = "idle"
    BY <2>1, <2>2 DEF CheckOK, Looking
  <2>3. CASE check[r].pc \in {"read", "remember"}
    <3>1. /\ check[r].token \in Tokens /\ Sound(check[r].token) /\ check[r].form \in Forms
          /\ check[r].since <= now /\ Passed(r, check[r].since)
      BY <2>1, <2>3 DEF CheckOK, Looking
    <3>2. check[r].since <= now + 1 /\ now + 1 <= check[r].since + StatementTime
      BY <1>0, <2>1, <2>3, <3>1
    <3>3. Passed(r, check[r].since)'
      <4>1. "token" \in Forms /\ Counts(check[r].token, "token")' => Counts(check[r].token, "token")
        BY <1>1, <1>4, <2>1, <3>1 DEF Counts
      <4> QED
        BY <1>1, <2>1, <3>1, <4>1 DEF Passed
    <3>4. check[r].pc = "remember" =>
            (/\ \A t \in Tokens, form \in Forms : RowOf(t, form) = Key(r) /\ Counts(t, form) =>
                   Refuses(check[r].entry, t, form) \/ check[r].since <= out[t][form]
             /\ check[r].entry.found => Backed(Key(r), check[r].since))'
      BY <1>1, <1>4, <2>1 DEF CheckOK, Backed
    <3> QED
      BY <1>1, <2>1, <2>3, <3>1, <3>2, <3>3, <3>4 DEF CheckOK, Looking
  <2> QED
    BY <2>1, <2>2, <2>3
<1> QED
  BY <1>2, <1>3, <1>5, <1>6 DEF RevocationInv, CheckInv

-----------------------------------------------------------------------------
(* The invariant and what follows from it.                                 *)

LEMMA RevocationInit == Init => RevocationInv
<1> SUFFICES ASSUME Init PROVE RevocationInv
  OBVIOUS
<1>0. 0 \in 0 .. MaxTime /\ 0 \in 0 .. MaxWrites /\ 0 \in 0 .. MaxFails /\ MaxEntries \in Nat
  BY RevocationAssumption
<1>1. Entries(cache) = {}
  BY DEF Init, Entries
<1>2. IsFiniteSet(Entries(cache)) /\ Cardinality(Entries(cache)) = 0
  BY <1>1, FS_EmptySet
<1>3. /\ table \in [Rows -> TableRows \cup {None}]
      /\ cache \in [Rows -> CacheEntries \cup {None}]
      /\ standing \in [Rows -> TimeOrNone] /\ lifted \in [Rows -> TimeOrNone]
      /\ out \in [Tokens -> [Forms -> TimeOrNone]]
  BY DEF Init, TimeOrNone
<1>4. check \in [Requests -> Checks] /\ operator \in Operations
  BY IdleType DEF Init
<1>5. Cardinality(Entries(cache)) <= MaxEntries
  BY <1>0, <1>2
<1>6. TypeOK
  BY <1>0, <1>3, <1>4, <1>5 DEF TypeOK, Init
<1>7. TableInv
  BY DEF Init, TableInv, Rows, Resting
<1>8. CacheInv
  BY <1>2 DEF Init, CacheInv
<1>9. CheckInv
  BY DEF Init, CheckInv, CheckOK, Looking, Idle
<1> QED
  BY <1>6, <1>7, <1>8, <1>9 DEF RevocationInv

LEMMA RevocationStep ==
    ASSUME RevocationInv, [Next]_vars
    PROVE  RevocationInv'
<1>1. ASSUME NEW r \in Requests, NEW t \in Tokens, Present(r, t) PROVE RevocationInv'
  BY <1>1, PresentInv
<1>2. ASSUME NEW r \in Requests,
             \/ LookupCached(r) \/ LookupMisses(r)
             \/ ReadRow(r) \/ ReadFails(r) \/ Remember(r) \/ Return(r)
      PROVE  RevocationInv'
  BY <1>2, CachedInv, MissesInv, ReadInv, ReadFailsInv, RememberInv, ReturnInv
<1>3. ASSUME NEW k \in Named, RevokeStarts(k) \/ RevokeElsewhere(k) PROVE RevocationInv'
  BY <1>3, RevokeInv
<1>4. ASSUME NEW k \in Named, Reinstates(k) PROVE RevocationInv'
  BY <1>4, LiftInv
<1>5. CASE RevokeWrites \/ RevokeFails
  BY <1>5, RevokeInv
<1>6. CASE Prune
  BY <1>6, LiftInv
<1>7. CASE Forgets
  BY <1>7, ForgetsInv
<1>8. CASE Tick
  BY <1>8, TickInv
<1>9. CASE UNCHANGED vars
  BY <1>9 DEF vars, counters, history, RevocationInv, TypeOK, TableInv, CacheInv, CheckInv,
     CheckOK, Passed, Counts, Backed, Key
<1> QED
  BY <1>1, <1>2, <1>3, <1>4, <1>5, <1>6, <1>7, <1>8, <1>9 DEF Next

THEOREM RevocationInvariant == Spec => []RevocationInv
<1>1. RevocationInv /\ [Next]_vars => RevocationInv'
  BY RevocationStep
<1> QED
  BY <1>1, RevocationInit, PTL DEF Spec

\* The types hold, and no number of requests, subjects or token identifiers makes
\* the cache of remember outgrow maxRevocationCacheEntries.
THEOREM RevocationTypeCorrect == Spec => []TypeOK
<1>1. RevocationInv => TypeOK
  BY DEF RevocationInv
<1> QED
  BY <1>1, RevocationInvariant, PTL

\* However many processes revoke, reinstate and sweep, and whatever the delay, the
\* leeway and the size of the cache: a token withdrawn by a row is not admitted
\* once the delay and two statements have passed, while it has more than the
\* leeway to live.
THEOREM RevocationCorrect == Spec => []RevokedStaysOut
<1>1. RevocationInv => RevokedStaysOut
  <2> SUFFICES ASSUME RevocationInv, NEW r \in Requests, NEW form \in Forms,
                      check[r].pc = "admitted", ~Admits,
                      now + Leeway < ExpiresAt[check[r].token],
                      out[check[r].token][form] # None
               PROVE  now <= out[check[r].token][form] + Propagation
    BY DEF RevokedStaysOut
  <2>1. CheckOK(r)
    BY DEF RevocationInv, CheckInv
  <2>2. Counts(check[r].token, form)
    BY <2>1 DEF CheckOK, Counts
  <2> QED
    BY <2>1, <2>2 DEF CheckOK
<1> QED
  BY <1>1, RevocationInvariant, PTL

\* And a token is refused as revoked only while its row stands or for the delay
\* and one statement after it was deleted: a reinstatement spreads as fast.
THEOREM RefusalCorrect == Spec => []RefusalHasRow
<1>1. RevocationInv => RefusalHasRow
  <2> SUFFICES ASSUME RevocationInv, NEW r \in Requests, check[r].pc = "refused"
               PROVE  \/ table[Key(r)] # None
                      \/ /\ lifted[Key(r)] # None
                         /\ now <= lifted[Key(r)] + MaxPropagationDelay + StatementTime
    BY DEF RefusalHasRow
  <2>1. /\ Backed(Key(r), now - (MaxPropagationDelay + StatementTime))
        /\ check[r].token \in Tokens
    BY DEF RevocationInv, CheckInv, CheckOK
  <2>2. Key(r) \in Rows
    BY <2>1, RowOfType DEF Key
  <2>3. lifted[Key(r)] # None => lifted[Key(r)] \in Nat
    BY <2>2 DEF RevocationInv, TypeOK, TimeOrNone
  <2>4. now \in Nat /\ MaxPropagationDelay \in Nat /\ StatementTime \in Nat
    BY TimeType, RevocationAssumption DEF RevocationInv
  <2> QED
    BY <2>1, <2>3, <2>4 DEF Backed
<1> QED
  BY <1>1, RevocationInvariant, PTL

=============================================================================
