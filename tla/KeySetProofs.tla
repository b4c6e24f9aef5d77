---------------------------- MODULE KeySetProofs ----------------------------
(***************************************************************************)
(* Proofs about the remote key set, for any requests, documents, rotations *)
(* and durations.  The inductive invariant follows every document from the *)
(* moment the issuer sent it: how long ago that can be at most, while the  *)
(* answer travels, while it waits for the mutex and once it is stored.     *)
(***************************************************************************)
EXTENDS KeySet, SequenceTheorems, FiniteSetTheorems, TLAPS

Members(q) == {q[i] : i \in DOMAIN q}
Distinct(q) == \A i, j \in DOMAIN q : q[i] = q[j] => i = j
Queued == Members(queue)

Resolves ==
    [pc : {"idle", "current", "unknown", "resolved", "refused"} \cup OnNetwork,
     kid : Kids \cup {None}, origin : {None, "current", "unknown"},
     since : 0 .. MaxTime, doc : Keys]
Refreshes ==
    [pc : {"idle", "fetch", "fetched", "store"}, since : 0 .. MaxTime, doc : Keys]
Caches ==
    [keys : Keys, fetchedAt : Times, lastAttempt : Times, refreshing : BOOLEAN,
     known : BOOLEAN]
Snapshots == [keys : Keys, fetchedAt : Times]

Types ==
    /\ now \in 0 .. MaxTime /\ version \in 1 .. Len(Documents)
    /\ cache \in Caches
    /\ snapshot \in Snapshots
    /\ queue \in Seq(Requests \cup {Refresher})
    /\ resolve \in [Requests -> Resolves]
    /\ background \in Refreshes
    /\ withdrawn \in [Kids -> 0 .. MaxTime \cup {None}]
    /\ lastFetch \in Times

\* The mutex: one place in the queue for whoever waits for it or holds it, and
\* only its holder waits for the network.
MutexInv ==
    /\ Distinct(queue)
    /\ \A r \in Requests :
          /\ resolve[r].pc \in Waiting \cup OnNetwork <=> r \in Queued
          /\ resolve[r].pc \in OnNetwork => Holds(r)
    /\ background.pc = "store" <=> Refresher \in Queued

\* The flags: a refresh under way is marked, and by the time there are keys, or a
\* request for some, the key set URI is known.
KnownInv ==
    /\ background.pc # "idle" => cache.refreshing /\ cache.known
    /\ cache.keys # None => cache.known
    /\ \A r \in Requests :
          /\ resolve[r].pc \in {"fetch", "fetched"} => cache.known
          /\ resolve[r].pc = "discover" => ~cache.known

\* The times: the cooldown is judged from the last request for keys, and no
\* request is on the network longer than RequestTimeout.
TimeInv ==
    /\ lastFetch = cache.lastAttempt
    /\ cache.lastAttempt <= now /\ cache.fetchedAt <= now
    /\ \A r \in Requests : resolve[r].pc \in OnNetwork =>
          /\ cache.lastAttempt <= resolve[r].since
          /\ resolve[r].since <= now /\ now <= resolve[r].since + RequestTimeout
    /\ background.pc \in OnNetwork =>
          background.since <= now /\ now <= background.since + RequestTimeout
    /\ snapshot.keys # None =>
          snapshot.keys = cache.keys /\ snapshot.fetchedAt = cache.fetchedAt

\* A document the issuer sent at time t or later: what it names and the issuer
\* publishes no more was withdrawn after that.
SentSince(doc, t) ==
    \A k \in doc : k \notin Documents[version] =>
        withdrawn[k] # None /\ t <= withdrawn[k]

\* The time that n requests may hold the mutex between them.
Hold(n) == RequestTimeout * n

\* When the holder of the mutex began to wait for the network, if it does.
HolderSince ==
    IF queue # <<>> /\ Head(queue) \in Requests /\ resolve[Head(queue)].pc \in OnNetwork
    THEN resolve[Head(queue)].since ELSE now

\* How old each copy of a document can be.
SentInv ==
    /\ cache.keys # None =>
          SentSince(cache.keys, cache.fetchedAt - Hold(Cardinality(Requests) + 1))
    /\ \A r \in Requests : resolve[r].pc = "fetched" =>
          resolve[r].doc # None /\ SentSince(resolve[r].doc, resolve[r].since)
    /\ background.pc = "fetched" =>
          background.doc # None /\ SentSince(background.doc, background.since)

\* A document that waits for the mutex in place i has been waiting behind the
\* requests that were in front of it, one RequestTimeout for each of them.
QueueSentInv ==
    background.doc # None => \A i \in DOMAIN queue : queue[i] = Refresher =>
        SentSince(background.doc, HolderSince - Hold(Cardinality(Requests) + 2 - i))

\* What verifies: a kid that was published, and not withdrawn too long ago.
ServedInv ==
    /\ WithdrawnKeyDies
    /\ \A r \in Requests : resolve[r].pc = "resolved" => resolve[r].kid \in Kids

KeySetInv ==
    Types /\ MutexInv /\ KnownInv /\ TimeInv /\ SentInv /\ QueueSentInv /\ ServedInv

-----------------------------------------------------------------------------
(* The queue of the mutex.                                                  *)

LEMMA Enqueue ==
    ASSUME NEW S, NEW q \in Seq(S), Distinct(q), NEW p \in S, p \notin Members(q)
    PROVE  LET e == Append(q, p)
           IN  /\ e \in Seq(S) /\ Distinct(e) /\ Members(e) = Members(q) \cup {p}
               /\ DOMAIN e = 1 .. (Len(q) + 1)
               /\ \A i \in DOMAIN q : e[i] = q[i]
               /\ e[Len(q) + 1] = p
               /\ e # <<>> /\ Head(e) = IF q = <<>> THEN p ELSE Head(q)
<1> DEFINE e == Append(q, p)
<1>1. /\ e \in Seq(S) /\ DOMAIN q = 1 .. Len(q) /\ DOMAIN e = 1 .. (Len(q) + 1)
      /\ \A i \in DOMAIN q : e[i] = q[i]
      /\ e[Len(q) + 1] = p /\ Len(q) \in Nat
  OBVIOUS
<1>2. e # <<>> /\ Head(e) = IF q = <<>> THEN p ELSE Head(q)
  <2>1. e # <<>> /\ Head(e) = e[1] /\ (q = <<>> <=> Len(q) = 0)
    OBVIOUS
  <2>2. q # <<>> => Head(q) = q[1]
    OBVIOUS
  <2> QED
    BY <1>1, <2>1, <2>2
<1> HIDE DEF e
<1>3. Distinct(e)
  BY <1>1 DEF Distinct, Members
<1>4. Members(e) = Members(q) \cup {p}
  BY <1>1 DEF Members
<1> QED
  BY <1>1, <1>2, <1>3, <1>4 DEF e

LEMMA Dequeue ==
    ASSUME NEW S, NEW q \in Seq(S), Distinct(q), q # <<>>
    PROVE  LET e == Tail(q)
           IN  /\ e \in Seq(S) /\ Distinct(e) /\ Members(e) = Members(q) \ {Head(q)}
               /\ Head(q) \in Members(q)
               /\ Len(q) \in Nat \ {0} /\ Len(e) = Len(q) - 1
               /\ DOMAIN e = 1 .. (Len(q) - 1) /\ DOMAIN q = 1 .. Len(q)
               /\ \A i \in DOMAIN e : e[i] = q[i + 1]
<1> DEFINE e == Tail(q)
<1>1. /\ e \in Seq(S) /\ DOMAIN q = 1 .. Len(q) /\ DOMAIN e = 1 .. (Len(q) - 1)
      /\ \A i \in DOMAIN e : e[i] = q[i + 1]
      /\ Len(q) \in Nat \ {0} /\ Len(e) = Len(q) - 1 /\ Head(q) = q[1]
  OBVIOUS
<1> HIDE DEF e
<1>2. Distinct(e)
  BY <1>1 DEF Distinct
<1>3. ASSUME NEW x \in Members(e) PROVE x \in Members(q) \ {Head(q)}
  <2>1. PICK i \in DOMAIN e : e[i] = x
    BY DEF Members
  <2>2. i + 1 \in DOMAIN q /\ 1 \in DOMAIN q /\ q[i + 1] = x /\ i + 1 # 1
    BY <1>1, <2>1
  <2> QED
    BY <1>1, <2>2 DEF Members, Distinct
<1>4. ASSUME NEW x \in Members(q), x # Head(q) PROVE x \in Members(e)
  <2>1. PICK i \in DOMAIN q : q[i] = x
    BY DEF Members
  <2>2. i - 1 \in DOMAIN e /\ e[i - 1] = x
    BY <1>1, <1>4, <2>1
  <2> QED
    BY <2>2 DEF Members
<1>5. Head(q) \in Members(q)
  BY <1>1 DEF Members
<1> QED
  BY <1>1, <1>2, <1>3, <1>4, <1>5 DEF e

LEMMA Requeue ==
    ASSUME NEW S, NEW q \in Seq(S), Distinct(q), q # <<>>
    PROVE  LET e == Append(Tail(q), Head(q))
           IN  /\ e \in Seq(S) /\ Distinct(e) /\ Members(e) = Members(q)
               /\ Len(q) \in Nat \ {0} /\ DOMAIN e = 1 .. Len(q) /\ DOMAIN q = 1 .. Len(q)
               /\ \A i \in 1 .. (Len(q) - 1) : e[i] = q[i + 1]
               /\ e[Len(q)] = Head(q)
<1>1. /\ Tail(q) \in Seq(S) /\ Distinct(Tail(q)) /\ Members(Tail(q)) = Members(q) \ {Head(q)}
      /\ Head(q) \in Members(q)
      /\ Len(q) \in Nat \ {0} /\ Len(Tail(q)) = Len(q) - 1
      /\ DOMAIN Tail(q) = 1 .. (Len(q) - 1) /\ DOMAIN q = 1 .. Len(q)
      /\ \A i \in DOMAIN Tail(q) : Tail(q)[i] = q[i + 1]
  BY Dequeue
<1>2. Head(q) \in S
  OBVIOUS
<1> DEFINE t == Tail(q)
           h == Head(q)
<1>3. /\ t \in Seq(S) /\ Distinct(t) /\ h \in S /\ h \notin Members(t)
  BY <1>1, <1>2
<1> DEFINE e == Append(t, h)
<1> HIDE DEF t, h
<1>4. /\ e \in Seq(S) /\ Distinct(e) /\ Members(e) = Members(t) \cup {h}
      /\ DOMAIN e = 1 .. (Len(t) + 1)
      /\ \A i \in DOMAIN t : e[i] = t[i]
      /\ e[Len(t) + 1] = h
  BY <1>3, Enqueue
<1> QED
  BY <1>1, <1>4 DEF t, h

\* A queue is no longer than there are processes to stand in it.
LEMMA QueueLength ==
    ASSUME NEW S, IsFiniteSet(S), NEW q \in Seq(S), Distinct(q)
    PROVE  Len(q) <= Cardinality(S)
<1>1. Len(q) \in Nat /\ DOMAIN q = 1 .. Len(q) /\ q \in [1 .. Len(q) -> S]
  OBVIOUS
<1>2. IsFiniteSet(1 .. Len(q)) /\ Cardinality(1 .. Len(q)) = Len(q)
  BY <1>1, FS_Interval
<1>3. q \in Injection(1 .. Len(q), S)
  BY <1>1 DEF Distinct, Injection, IsInjective
<1> QED
  BY <1>2, <1>3, FS_Injection

-----------------------------------------------------------------------------
(* Durations, documents and what a record may hold.                         *)

LEMMA HoldFacts ==
    /\ Cardinality(Requests) \in Nat
    /\ \A n \in Int : Hold(n) \in Int /\ Hold(n + 1) = Hold(n) + RequestTimeout
    /\ \A n \in Nat : 0 <= Hold(n) /\ (n # 0 => RequestTimeout <= Hold(n))
    /\ WithdrawalBound = Hold(Cardinality(Requests) + 1) + CacheTTL + MaxStaleAge
<1>1. Cardinality(Requests) \in Nat
  BY KeySetAssumption, FS_CardinalityType
<1>2. ASSUME NEW n \in Int PROVE Hold(n) \in Int /\ Hold(n + 1) = Hold(n) + RequestTimeout
  BY KeySetAssumption DEF Hold
<1>3. ASSUME NEW n \in Nat PROVE 0 <= Hold(n)
  BY KeySetAssumption DEF Hold
<1>4. ASSUME NEW n \in Nat, n # 0 PROVE RequestTimeout <= Hold(n)
  <2>1. n - 1 \in Nat /\ n = (n - 1) + 1
    BY <1>4
  <2>2. Hold(n) = Hold(n - 1) + RequestTimeout /\ 0 <= Hold(n - 1) /\ Hold(n - 1) \in Int
    BY <2>1, <1>2, <1>3
  <2> QED
    BY <2>2, KeySetAssumption
<1>5. WithdrawalBound = Hold(Cardinality(Requests) + 1) + CacheTTL + MaxStaleAge
  BY <1>1, KeySetAssumption DEF WithdrawalBound, Hold
<1> QED
  BY <1>1, <1>2, <1>3, <1>4, <1>5

LEMMA BoundType == WithdrawalBound \in Int /\ 0 <= WithdrawalBound
<1> DEFINE h == Hold(Cardinality(Requests) + 1)
<1>1. Cardinality(Requests) + 1 \in Nat
  BY HoldFacts
<1>2. h \in Int /\ 0 <= h /\ WithdrawalBound = h + CacheTTL + MaxStaleAge
  BY <1>1, HoldFacts
<1> HIDE DEF h
<1> QED
  BY <1>2, KeySetAssumption

LEMMA DocumentTypes ==
    /\ None \notin KeySets /\ Keys = KeySets \cup {None}
    /\ \A doc \in KeySets : doc \subseteq Kids
    /\ \A v \in 1 .. Len(Documents) : Documents[v] \in KeySets
BY KeySetAssumption DEF Keys, KeySets

LEMMA RecordTypes ==
    /\ Idle \in Resolves /\ Resting \in Refreshes /\ NoSnapshot \in Snapshots
    /\ 0 \in 0 .. MaxTime /\ 0 .. MaxTime \subseteq Times
BY KeySetAssumption DEF Idle, Resting, NoSnapshot, Resolves, Refreshes, Snapshots, Keys,
                        OnNetwork, Times

\* A document sent since t was sent since any earlier moment.
LEMMA SentEarlier ==
    ASSUME Types, NEW doc \in KeySets, NEW t \in Int, NEW u \in Int, u <= t,
           SentSince(doc, t)
    PROVE  SentSince(doc, u)
<1> SUFFICES ASSUME NEW k \in doc, k \notin Documents[version]
             PROVE  withdrawn[k] # None /\ u <= withdrawn[k]
  BY DEF SentSince
<1>1. withdrawn[k] # None /\ t <= withdrawn[k]
  BY DEF SentSince
<1>2. withdrawn[k] \in 0 .. MaxTime
  BY <1>1, DocumentTypes DEF Types
<1> QED
  BY <1>1, <1>2

\* What the issuer publishes now is as recent as can be.
LEMMA SentNow ==
    ASSUME NEW t
    PROVE  SentSince(Documents[version], t)
BY DEF SentSince

\* A kid of a document that was sent recently enough may verify.
LEMMA SentVerifies ==
    ASSUME Types, NEW doc \in KeySets, NEW t \in Int, SentSince(doc, t),
           now <= t + WithdrawalBound, NEW k \in doc, k \notin Documents[version]
    PROVE  withdrawn[k] # None /\ now <= withdrawn[k] + WithdrawalBound
<1>1. withdrawn[k] # None /\ t <= withdrawn[k]
  BY DEF SentSince
<1>2. withdrawn[k] \in 0 .. MaxTime /\ now \in 0 .. MaxTime
  BY <1>1, DocumentTypes DEF Types
<1>3. WithdrawalBound \in Int
  BY HoldFacts, KeySetAssumption
<1> QED
  BY <1>1, <1>2, <1>3

\* Documents that travel while the issuer stays as it is keep their dates.
LEMMA SentUnchanged ==
    ASSUME UNCHANGED <<version, withdrawn>>, NEW doc, NEW t
    PROVE  SentSince(doc, t)' <=> SentSince(doc, t)
BY DEF SentSince
-----------------------------------------------------------------------------
(* Steps of whoever holds the mutex.                                        *)

\* While one request holds the mutex no other waits for the network, and it has
\* waited for the network no longer than RequestTimeout itself.
LEMMA Holding ==
    ASSUME KeySetInv, NEW r \in Requests, Holds(r)
    PROVE  /\ queue # <<>> /\ Head(queue) = r /\ r \in Queued
           /\ \A s \in Requests \ {r} : resolve[s].pc \notin OnNetwork
           /\ HolderSince \in 0 .. MaxTime
           /\ HolderSince <= now /\ now <= HolderSince + RequestTimeout
           /\ HolderSince = IF resolve[r].pc \in OnNetwork THEN resolve[r].since ELSE now
<1>1. queue # <<>> /\ Head(queue) = r
  BY DEF Holds
<1>2. r \in Queued
  <2>1. queue \in Seq(Requests \cup {Refresher})
    BY DEF KeySetInv, Types
  <2>2. Head(queue) = queue[1] /\ 1 \in DOMAIN queue
    BY <1>1, <2>1
  <2> QED
    BY <1>1, <2>2 DEF Queued, Members
<1>3. \A s \in Requests \ {r} : resolve[s].pc \notin OnNetwork
  BY <1>1 DEF KeySetInv, MutexInv, Holds
<1>4. HolderSince = IF resolve[r].pc \in OnNetwork THEN resolve[r].since ELSE now
  BY <1>1 DEF HolderSince
<1>5. HolderSince \in 0 .. MaxTime /\ HolderSince <= now /\ now <= HolderSince + RequestTimeout
  <2>1. CASE resolve[r].pc \in OnNetwork
    BY <1>4, <2>1, KeySetAssumption DEF KeySetInv, TimeInv, Types, Resolves
  <2>2. CASE resolve[r].pc \notin OnNetwork
    BY <1>4, <2>2, KeySetAssumption DEF KeySetInv, Types
  <2> QED
    BY <2>1, <2>2
<1> QED
  BY <1>1, <1>2, <1>3, <1>4, <1>5

\* What the holder leaves behind when it releases the mutex, to go or to queue
\* again: nobody waits for the network, and a refresh in the queue has moved up.
LEMMA Release ==
    ASSUME KeySetInv, NEW r \in Requests, Holds(r), NEW q \in Resolves,
           resolve' = [resolve EXCEPT ![r] = q], q.pc \notin OnNetwork,
           \/ queue' = Tail(queue) /\ q.pc \notin Waiting
           \/ queue' = Append(Tail(queue), r) /\ q.pc \in Waiting,
           UNCHANGED <<now, version, withdrawn>>,
           \/ background' = background
           \/ background.pc = "idle" /\ background'.pc # "store"
    PROVE  /\ queue' \in Seq(Requests \cup {Refresher})
           /\ resolve' \in [Requests -> Resolves]
           /\ resolve'[r] = q /\ \A s \in Requests \ {r} : resolve'[s] = resolve[s]
           /\ \A s \in Requests : resolve'[s].pc \notin OnNetwork
           /\ MutexInv' /\ QueueSentInv'
<1> DEFINE S == Requests \cup {Refresher}
<1>1. /\ queue # <<>> /\ Head(queue) = r /\ r \in Queued
      /\ \A s \in Requests \ {r} : resolve[s].pc \notin OnNetwork
      /\ HolderSince \in 0 .. MaxTime
      /\ HolderSince <= now /\ now <= HolderSince + RequestTimeout
  BY Holding
<1>2. queue \in Seq(S) /\ Distinct(queue) /\ now \in 0 .. MaxTime /\ r # Refresher
  BY KeySetAssumption DEF KeySetInv, Types, MutexInv
<1>3. /\ resolve' \in [Requests -> Resolves]
      /\ resolve'[r] = q /\ \A s \in Requests \ {r} : resolve'[s] = resolve[s]
  BY DEF KeySetInv, Types
<1>4. \A s \in Requests : resolve'[s].pc \notin OnNetwork
  BY <1>1, <1>3
<1> HIDE DEF S
\* The queue after the release.
<1>5. /\ queue' \in Seq(S) /\ Distinct(queue')
      /\ Members(queue') = IF q.pc \in Waiting THEN Queued ELSE Queued \ {r}
      /\ \A i \in DOMAIN queue' : queue'[i] # r =>
            i + 1 \in DOMAIN queue /\ queue[i + 1] = queue'[i] /\ i \in Nat
  <2>1. CASE queue' = Tail(queue) /\ q.pc \notin Waiting
    <3> DEFINE e == Tail(queue)
    <3>1. /\ e \in Seq(S) /\ Distinct(e) /\ Members(e) = Members(queue) \ {Head(queue)}
          /\ Len(queue) \in Nat \ {0}
          /\ DOMAIN e = 1 .. (Len(queue) - 1) /\ DOMAIN queue = 1 .. Len(queue)
          /\ \A i \in DOMAIN e : e[i] = queue[i + 1]
      BY <1>1, <1>2, Dequeue
    <3>2. queue' = e
      BY <2>1
    <3> HIDE DEF e
    <3>3. ASSUME NEW i \in DOMAIN e, e[i] # r
          PROVE  i + 1 \in DOMAIN queue /\ queue[i + 1] = e[i] /\ i \in Nat
      BY <1>1, <3>1, <3>3
    <3>4. Members(queue') = IF q.pc \in Waiting THEN Queued ELSE Queued \ {r}
      BY <1>1, <2>1, <3>1, <3>2 DEF Queued
    <3>5. queue' \in Seq(S) /\ Distinct(queue')
      BY <3>1, <3>2
    <3> QED
      BY <3>2, <3>3, <3>4, <3>5
  <2>2. CASE queue' = Append(Tail(queue), r) /\ q.pc \in Waiting
    <3> DEFINE e == Append(Tail(queue), Head(queue))
    <3>1. /\ e \in Seq(S) /\ Distinct(e) /\ Members(e) = Members(queue)
          /\ Len(queue) \in Nat \ {0}
          /\ DOMAIN e = 1 .. Len(queue) /\ DOMAIN queue = 1 .. Len(queue)
          /\ \A i \in 1 .. (Len(queue) - 1) : e[i] = queue[i + 1]
          /\ e[Len(queue)] = Head(queue)
      BY <1>1, <1>2, Requeue
    <3>2. queue' = e
      BY <1>1, <2>2
    <3> HIDE DEF e
    <3>3. ASSUME NEW i \in DOMAIN e, e[i] # r
          PROVE  i + 1 \in DOMAIN queue /\ queue[i + 1] = e[i] /\ i \in Nat
      BY <1>1, <3>1, <3>3
    <3>4. Members(queue') = IF q.pc \in Waiting THEN Queued ELSE Queued \ {r}
      BY <1>1, <2>2, <3>1, <3>2 DEF Queued
    <3>5. queue' \in Seq(S) /\ Distinct(queue')
      BY <3>1, <3>2
    <3> QED
      BY <3>2, <3>3, <3>4, <3>5
  <2> QED
    BY <2>1, <2>2
<1>6. Queued' = IF q.pc \in Waiting THEN Queued ELSE Queued \ {r}
  BY <1>5 DEF Queued
<1>7. background.pc = "store" <=> background'.pc = "store"
  OBVIOUS
<1>8. MutexInv'
  <2>1. ASSUME NEW s \in Requests
        PROVE  /\ resolve'[s].pc \in Waiting \cup OnNetwork <=> s \in Queued'
               /\ resolve'[s].pc \in OnNetwork => Holds(s)'
    BY <1>1, <1>3, <1>4, <1>6 DEF KeySetInv, MutexInv
  <2>2. background'.pc = "store" <=> Refresher \in Queued'
    BY <1>2, <1>6, <1>7 DEF KeySetInv, MutexInv
  <2> QED
    BY <1>5, <2>1, <2>2 DEF MutexInv
<1>9. QueueSentInv'
  <2> SUFFICES ASSUME background'.doc # None, NEW i \in DOMAIN queue', queue'[i] = Refresher
               PROVE  SentSince(background.doc, HolderSince - Hold(Cardinality(Requests) + 2 - i))'
    BY DEF QueueSentInv
  <2> DEFINE n == Cardinality(Requests) + 1 - i
             doc == background.doc
  <2>1. i + 1 \in DOMAIN queue /\ queue[i + 1] = Refresher /\ i \in Nat
    BY <1>2, <1>5
  <2>2. Refresher \in Queued
    BY <2>1 DEF Queued, Members
  <2>3. background.pc = "store" /\ background' = background
    BY <2>2 DEF KeySetInv, MutexInv
  <2>4. HolderSince' = now
    BY <1>4 DEF HolderSince
  <2>5. /\ n \in Int /\ Cardinality(Requests) + 2 - (i + 1) = n
        /\ Cardinality(Requests) + 2 - i = n + 1
    <3>1. Cardinality(Requests) \in Nat
      BY HoldFacts
    <3> QED
      BY <2>1, <3>1
  <2>6. Hold(n) \in Int /\ Hold(n + 1) = Hold(n) + RequestTimeout
    BY <2>5, HoldFacts
  <2>7. SentSince(doc, HolderSince - Hold(n))
    <3>1. SentSince(doc, HolderSince - Hold(Cardinality(Requests) + 2 - (i + 1)))
      BY <2>1, <2>3 DEF KeySetInv, QueueSentInv
    <3> QED
      BY <3>1, <2>5
  <2>8. doc \in KeySets
    BY <2>3, DocumentTypes DEF KeySetInv, Types, Refreshes
  <2> HIDE DEF n, doc
  <2>9. now - Hold(n + 1) <= HolderSince - Hold(n)
        /\ now - Hold(n + 1) \in Int /\ HolderSince - Hold(n) \in Int
    BY <1>1, <1>2, <2>6, KeySetAssumption
  <2>10. SentSince(doc, now - Hold(n + 1))
    BY <2>7, <2>8, <2>9, SentEarlier DEF KeySetInv
  <2> QED
    BY <2>3, <2>4, <2>5, <2>10 DEF SentSince, doc
<1> QED
  BY <1>3, <1>4, <1>5, <1>8, <1>9 DEF S

\* What the holder leaves as it is when it goes on to wait for the network.
LEMMA KeepHolding ==
    ASSUME KeySetInv, NEW r \in Requests, Holds(r), NEW q \in Resolves,
           resolve' = [resolve EXCEPT ![r] = q], q.pc \in OnNetwork,
           q.since = HolderSince \/ background.pc # "store",
           UNCHANGED <<now, version, withdrawn, queue, background>>
    PROVE  /\ resolve' \in [Requests -> Resolves]
           /\ resolve'[r] = q /\ \A s \in Requests \ {r} : resolve'[s] = resolve[s]
           /\ \A s \in Requests \ {r} : resolve'[s].pc \notin OnNetwork
           /\ MutexInv' /\ QueueSentInv'
<1>1. /\ queue # <<>> /\ Head(queue) = r /\ r \in Queued
      /\ \A s \in Requests \ {r} : resolve[s].pc \notin OnNetwork
  BY Holding
<1>2. /\ resolve' \in [Requests -> Resolves]
      /\ resolve'[r] = q /\ \A s \in Requests \ {r} : resolve'[s] = resolve[s]
  BY DEF KeySetInv, Types
<1>3. MutexInv'
  BY <1>1, <1>2 DEF KeySetInv, MutexInv, Queued, Members, Distinct, Holds
<1>4. QueueSentInv'
  <2>1. CASE background.pc # "store"
    BY <2>1 DEF QueueSentInv, KeySetInv, MutexInv, Queued, Members
  <2>2. CASE q.since = HolderSince
    <3>1. HolderSince' = HolderSince
      BY <1>1, <1>2, <2>2 DEF HolderSince
    <3> QED
      BY <3>1 DEF QueueSentInv, KeySetInv, SentSince
  <2> QED
    BY <2>1, <2>2
<1> QED
  BY <1>1, <1>2, <1>3, <1>4
\* The three ways a request leaves the mutex.
LEMMA LeavingTypes ==
    ASSUME Types, NEW r \in Requests
    PROVE  /\ Resolved(r) \in Resolves /\ Resolved(r).pc = "resolved"
           /\ Resolved(r).kid = resolve[r].kid
           /\ Refused(r) \in Resolves /\ Refused(r).pc = "refused"
           /\ Unknown(r) \in Resolves /\ Unknown(r).pc = "unknown"
<1>1. resolve[r].kid \in Kids \cup {None}
  BY DEF Types, Resolves
<1>2. Idle \in Resolves
  BY RecordTypes
<1> QED
  BY <1>1, <1>2 DEF Resolved, Refused, Unknown, Idle, Resolves

LEMMA DiesStep ==
    ASSUME ServedInv, NEW r \in Requests, NEW q, resolve'[r] = q,
           \A s \in Requests \ {r} : resolve'[s] = resolve[s],
           UNCHANGED <<now, version, withdrawn>>,
           q.pc = "resolved" => q.kid \in Kids,
           q.pc = "resolved" /\ q.kid \notin Documents[version] =>
               withdrawn[q.kid] # None /\ now <= withdrawn[q.kid] + WithdrawalBound
    PROVE  ServedInv'
BY DEF ServedInv, WithdrawnKeyDies

\* current returns a set that was sent recently enough to serve.
LEMMA Leave ==
    ASSUME KeySetInv, NEW r \in Requests, Holds(r), NEW keys \in KeySets, NEW t \in Int,
           SentSince(keys, t), now <= t + WithdrawalBound, LeaveCurrent(r, keys),
           UNCHANGED <<now, version, withdrawn>>,
           \/ background' = background
           \/ background.pc = "idle" /\ background'.pc # "store"
    PROVE  /\ queue' \in Seq(Requests \cup {Refresher})
           /\ resolve' \in [Requests -> Resolves]
           /\ \A s \in Requests : resolve'[s].pc \notin OnNetwork
           /\ MutexInv' /\ QueueSentInv' /\ ServedInv'
<1> USE DEF KeySetInv
<1>1. CASE resolve[r].kid \in keys
  <2> DEFINE q == Resolved(r)
  <2>1. /\ q \in Resolves /\ q.pc \notin OnNetwork /\ q.pc \notin Waiting
        /\ q.kid = resolve[r].kid
    BY LeavingTypes DEF OnNetwork, Waiting
  <2>2. resolve' = [resolve EXCEPT ![r] = q] /\ queue' = Tail(queue)
    BY <1>1 DEF LeaveCurrent, Become, Unlock
  <2> HIDE DEF q
  <2>3. /\ queue' \in Seq(Requests \cup {Refresher})
        /\ resolve' \in [Requests -> Resolves]
        /\ resolve'[r] = q /\ \A s \in Requests \ {r} : resolve'[s] = resolve[s]
        /\ \A s \in Requests : resolve'[s].pc \notin OnNetwork
        /\ MutexInv' /\ QueueSentInv'
    BY <2>1, <2>2, Release
  <2>4. q.kid \notin Documents[version] =>
          withdrawn[q.kid] # None /\ now <= withdrawn[q.kid] + WithdrawalBound
    BY <1>1, <2>1, SentVerifies
  <2>5. q.kid \in Kids
    BY <1>1, <2>1, DocumentTypes
  <2>6. ServedInv'
    BY <2>3, <2>4, <2>5, DiesStep
  <2> QED
    BY <2>3, <2>6
<1>2. CASE resolve[r].kid \notin keys
  <2> DEFINE q == Unknown(r)
  <2>1. q \in Resolves /\ q.pc \notin OnNetwork /\ q.pc \in Waiting /\ q.pc # "resolved"
    BY LeavingTypes DEF OnNetwork, Waiting
  <2>2. resolve' = [resolve EXCEPT ![r] = q] /\ queue' = Append(Tail(queue), r)
    BY <1>2 DEF LeaveCurrent, Become
  <2> HIDE DEF q
  <2>3. /\ queue' \in Seq(Requests \cup {Refresher})
        /\ resolve' \in [Requests -> Resolves]
        /\ resolve'[r] = q /\ \A s \in Requests \ {r} : resolve'[s] = resolve[s]
        /\ \A s \in Requests : resolve'[s].pc \notin OnNetwork
        /\ MutexInv' /\ QueueSentInv'
    BY <2>1, <2>2, Release
  <2>4. ServedInv'
    BY <2>1, <2>3, DiesStep
  <2> QED
    BY <2>3, <2>4
<1> QED
  BY <1>1, <1>2

\* A request is refused, and its place in the queue is the next one's.
LEMMA LeaveRefused ==
    ASSUME KeySetInv, NEW r \in Requests, Holds(r), Become(r, Refused(r)), Unlock,
           UNCHANGED <<now, version, withdrawn, background>>
    PROVE  /\ queue' \in Seq(Requests \cup {Refresher})
           /\ resolve' \in [Requests -> Resolves]
           /\ \A s \in Requests : resolve'[s].pc \notin OnNetwork
           /\ MutexInv' /\ QueueSentInv' /\ ServedInv'
<1> DEFINE q == Refused(r)
<1>1. q \in Resolves /\ q.pc \notin OnNetwork /\ q.pc \notin Waiting /\ q.pc # "resolved"
  BY LeavingTypes DEF OnNetwork, Waiting, KeySetInv
<1>2. resolve' = [resolve EXCEPT ![r] = q] /\ queue' = Tail(queue)
  BY DEF Become, Unlock
<1> HIDE DEF q
<1>3. /\ queue' \in Seq(Requests \cup {Refresher})
      /\ resolve' \in [Requests -> Resolves]
      /\ resolve'[r] = q /\ \A s \in Requests \ {r} : resolve'[s] = resolve[s]
      /\ \A s \in Requests : resolve'[s].pc \notin OnNetwork
      /\ MutexInv' /\ QueueSentInv'
  BY <1>1, <1>2, Release
<1>4. ServedInv'
  BY <1>1, <1>3, DiesStep DEF KeySetInv
<1> QED
  BY <1>3, <1>4

-----------------------------------------------------------------------------
(* Resolve and current.                                                     *)

\* A cached set that is not past its stale window was sent recently enough.
LEMMA CacheServes ==
    ASSUME KeySetInv, cache.keys # None, Age <= CacheTTL + MaxStaleAge
    PROVE  /\ cache.keys \in KeySets
           /\ \E t \in Int : SentSince(cache.keys, t) /\ now <= t + WithdrawalBound
<1> DEFINE h == Hold(Cardinality(Requests) + 1)
           t == cache.fetchedAt - h
<1>1. cache.keys \in KeySets
  BY DocumentTypes DEF KeySetInv, Types, Caches
<1>2. SentSince(cache.keys, t)
  BY DEF KeySetInv, SentInv
<1>3. Cardinality(Requests) + 1 \in Int /\ h \in Int
      /\ WithdrawalBound = h + CacheTTL + MaxStaleAge
  BY HoldFacts
<1>4. cache.fetchedAt \in Int /\ now \in Int
  BY KeySetAssumption DEF KeySetInv, Types, Caches, Times
<1> HIDE DEF h
<1>5. t \in Int /\ now <= t + WithdrawalBound
  BY <1>3, <1>4, KeySetAssumption DEF Age
<1> QED
  BY <1>1, <1>2, <1>5

LEMMA CurrentFreshInv ==
    ASSUME KeySetInv, NEW r \in Requests, CurrentFresh(r)
    PROVE  KeySetInv'
<1>1. Holds(r) /\ cache.keys # None /\ LeaveCurrent(r, cache.keys)
      /\ UNCHANGED <<now, version, cache, snapshot, background, withdrawn, lastFetch>>
  BY DEF CurrentFresh
<1>2. Age <= CacheTTL + MaxStaleAge
  BY KeySetAssumption DEF CurrentFresh, Age, KeySetInv, Types, Caches, Times
<1>3. PICK t \in Int : SentSince(cache.keys, t) /\ now <= t + WithdrawalBound
  BY <1>1, <1>2, CacheServes
<1>4. /\ queue' \in Seq(Requests \cup {Refresher})
      /\ resolve' \in [Requests -> Resolves]
      /\ \A s \in Requests : resolve'[s].pc \notin OnNetwork
      /\ MutexInv' /\ QueueSentInv' /\ ServedInv'
  BY <1>1, <1>2, <1>3, CacheServes, Leave
<1>5. Types'
  BY <1>1, <1>4 DEF KeySetInv, Types
<1>6. KnownInv' /\ TimeInv' /\ SentInv'
  BY <1>1, <1>4 DEF KeySetInv, KnownInv, TimeInv, SentInv, SentSince, OnNetwork
<1> QED
  BY <1>4, <1>5, <1>6 DEF KeySetInv

LEMMA CurrentStaleInv ==
    ASSUME KeySetInv, NEW r \in Requests, CurrentStale(r)
    PROVE  KeySetInv'
<1>1. Holds(r) /\ cache.keys # None /\ LeaveCurrent(r, cache.keys)
      /\ UNCHANGED <<now, version, snapshot, withdrawn>>
      /\ Age <= CacheTTL + MaxStaleAge
  BY DEF CurrentStale, InStaleWindow
<1>2. PICK t \in Int : SentSince(cache.keys, t) /\ now <= t + WithdrawalBound
  BY <1>1, CacheServes
<1>3. now \in 0 .. MaxTime /\ now \in Times /\ cache \in Caches /\ Resting \in Refreshes
  BY RecordTypes DEF KeySetInv, Types
<1>4. CASE cache.refreshing
  <2>1. UNCHANGED <<cache, background, lastFetch>>
    BY <1>4 DEF CurrentStale
  <2>2. /\ queue' \in Seq(Requests \cup {Refresher})
        /\ resolve' \in [Requests -> Resolves]
        /\ \A s \in Requests : resolve'[s].pc \notin OnNetwork
        /\ MutexInv' /\ QueueSentInv' /\ ServedInv'
    BY <1>1, <1>2, <2>1, CacheServes, Leave
  <2>3. Types'
    BY <1>1, <2>1, <2>2 DEF KeySetInv, Types
  <2>4. KnownInv' /\ TimeInv' /\ SentInv'
    BY <1>1, <2>1, <2>2 DEF KeySetInv, KnownInv, TimeInv, SentInv, SentSince, OnNetwork
  <2> QED
    BY <2>2, <2>3, <2>4 DEF KeySetInv
<1>5. CASE ~cache.refreshing
  <2>1. /\ cache' = [cache EXCEPT !.refreshing = TRUE, !.lastAttempt = now]
        /\ background' = [Resting EXCEPT !.pc = "fetch", !.since = now]
        /\ lastFetch' = now
    BY <1>5 DEF CurrentStale
  <2>2. /\ background' \in Refreshes /\ background'.pc = "fetch" /\ background'.since = now
    BY <1>3, <2>1 DEF Resting, Refreshes
  <2>3. /\ cache' \in Caches /\ cache'.keys = cache.keys /\ cache'.fetchedAt = cache.fetchedAt
        /\ cache'.known = cache.known /\ cache'.refreshing = TRUE /\ cache'.lastAttempt = now
    BY <1>3, <2>1 DEF Caches
  <2>4. background.pc = "idle"
    BY <1>5 DEF KeySetInv, KnownInv
  <2>5. /\ queue' \in Seq(Requests \cup {Refresher})
        /\ resolve' \in [Requests -> Resolves]
        /\ \A s \in Requests : resolve'[s].pc \notin OnNetwork
        /\ MutexInv' /\ QueueSentInv' /\ ServedInv'
    BY <1>1, <1>2, <2>2, <2>4, CacheServes, Leave
  <2>6. Types'
    BY <1>1, <1>3, <2>1, <2>2, <2>3, <2>5 DEF KeySetInv, Types
  <2>7. KnownInv'
    BY <1>1, <2>3, <2>5 DEF KeySetInv, KnownInv, OnNetwork
  <2>8. TimeInv'
    BY <1>1, <1>3, <2>1, <2>2, <2>3, <2>5, KeySetAssumption DEF KeySetInv, TimeInv
  <2>9. SentInv'
    BY <1>1, <2>2, <2>3, <2>5 DEF KeySetInv, SentInv, SentSince, OnNetwork
  <2> QED
    BY <2>5, <2>6, <2>7, <2>8, <2>9 DEF KeySetInv
<1> QED
  BY <1>4, <1>5
\* A fetch begins under the mutex, with the cached set kept or dropped.
LEMMA BeginFetchInv ==
    ASSUME KeySetInv, NEW r \in Requests, Holds(r), resolve[r].pc \in Waiting,
           NEW origin \in {"current", "unknown"}, NEW keys \in {cache.keys, None},
           BeginFetch(r, origin, [cache EXCEPT !.keys = keys]),
           \/ snapshot' = NoSnapshot
           \/ snapshot' = snapshot /\ keys = cache.keys,
           UNCHANGED <<now, version, queue, background, withdrawn>>
    PROVE  KeySetInv'
<1> DEFINE q == [resolve[r] EXCEPT !.pc = IF cache.known THEN "fetch" ELSE "discover",
                                   !.origin = origin, !.since = now]
<1>1. now \in 0 .. MaxTime /\ now \in Times /\ cache \in Caches /\ resolve[r] \in Resolves
  BY RecordTypes DEF KeySetInv, Types
<1>2. [cache EXCEPT !.keys = keys].known = cache.known
  BY <1>1 DEF Caches
<1>3. resolve' = [resolve EXCEPT ![r] = q] /\ lastFetch' = now
  BY <1>2 DEF BeginFetch, Become
<1>4. /\ cache' \in Caches /\ cache'.keys = keys /\ cache'.fetchedAt = cache.fetchedAt
      /\ cache'.known = cache.known /\ cache'.refreshing = cache.refreshing
      /\ cache'.lastAttempt = now
  <2>1. keys \in Keys
    BY <1>1 DEF Caches, Keys
  <2> QED
    BY <1>1, <2>1 DEF BeginFetch, Caches
<1>5. /\ q \in Resolves /\ q.since = now /\ q.pc \in OnNetwork /\ q.pc # "fetched"
      /\ q.pc # "resolved"
      /\ q.pc = "discover" => ~cache.known
      /\ q.pc = "fetch" => cache.known
  BY <1>1 DEF Resolves, OnNetwork
<1>6. HolderSince = now
  BY Holding DEF Waiting, OnNetwork
<1> HIDE DEF q
<1>7. /\ resolve' \in [Requests -> Resolves]
      /\ resolve'[r] = q /\ \A s \in Requests \ {r} : resolve'[s] = resolve[s]
      /\ \A s \in Requests \ {r} : resolve'[s].pc \notin OnNetwork
      /\ MutexInv' /\ QueueSentInv'
  BY <1>3, <1>5, <1>6, KeepHolding
<1>8. ServedInv'
  BY <1>5, <1>7, DiesStep DEF KeySetInv
<1>9. snapshot' \in Snapshots /\ (snapshot'.keys # None => snapshot' = snapshot /\ keys = cache.keys)
  BY RecordTypes DEF KeySetInv, Types, NoSnapshot
<1>10. Types'
  BY <1>1, <1>3, <1>4, <1>7, <1>9 DEF KeySetInv, Types
<1>11. KnownInv'
  BY <1>4, <1>5, <1>7 DEF KeySetInv, KnownInv, OnNetwork
<1>12. TimeInv'
  <2>1. \A s \in Requests : resolve'[s].pc \in OnNetwork =>
          /\ cache'.lastAttempt <= resolve'[s].since
          /\ resolve'[s].since <= now' /\ now' <= resolve'[s].since + RequestTimeout
    BY <1>1, <1>4, <1>5, <1>7, KeySetAssumption
  <2> QED
    BY <2>1, <1>1, <1>3, <1>4, <1>9 DEF KeySetInv, TimeInv
<1>13. SentInv'
  BY <1>4, <1>5, <1>7 DEF KeySetInv, SentInv, SentSince, OnNetwork
<1> QED
  BY <1>7, <1>8, <1>10, <1>11, <1>12, <1>13 DEF KeySetInv

LEMMA CurrentColdInv ==
    ASSUME KeySetInv, NEW r \in Requests, CurrentCold(r)
    PROVE  KeySetInv'
<1>1. /\ Holds(r) /\ resolve[r].pc \in Waiting
      /\ BeginFetch(r, "current", [cache EXCEPT !.keys = None])
      /\ Publish([cache EXCEPT !.keys = None])
      /\ UNCHANGED <<now, version, queue, background, withdrawn>>
  BY DEF CurrentCold, Waiting
<1>2. [cache EXCEPT !.keys = None].keys = None
  BY DEF KeySetInv, Types, Caches
<1>3. snapshot' = NoSnapshot
  BY <1>1, <1>2 DEF Publish
<1> QED
  BY <1>1, <1>3, BeginFetchInv

-----------------------------------------------------------------------------
(* refreshForUnknownKey and fetchLocked.                                    *)

LEMMA RefreshRefusedInv ==
    ASSUME KeySetInv, NEW r \in Requests, RefreshRefused(r)
    PROVE  KeySetInv'
<1>1. Holds(r) /\ Become(r, Refused(r)) /\ Unlock
      /\ UNCHANGED <<now, version, cache, snapshot, background, withdrawn, lastFetch>>
  BY DEF RefreshRefused
<1>2. /\ queue' \in Seq(Requests \cup {Refresher})
      /\ resolve' \in [Requests -> Resolves]
      /\ \A s \in Requests : resolve'[s].pc \notin OnNetwork
      /\ MutexInv' /\ QueueSentInv' /\ ServedInv'
  BY <1>1, LeaveRefused
<1>3. Types'
  BY <1>1, <1>2 DEF KeySetInv, Types
<1>4. KnownInv' /\ TimeInv' /\ SentInv'
  BY <1>1, <1>2 DEF KeySetInv, KnownInv, TimeInv, SentInv, SentSince, OnNetwork
<1> QED
  BY <1>2, <1>3, <1>4 DEF KeySetInv

LEMMA RefreshStartsInv ==
    ASSUME KeySetInv, NEW r \in Requests, RefreshStarts(r)
    PROVE  KeySetInv'
<1>1. /\ Holds(r) /\ resolve[r].pc \in Waiting /\ BeginFetch(r, "unknown", cache)
      /\ UNCHANGED <<now, version, snapshot, queue, background, withdrawn>>
  BY DEF RefreshStarts, Waiting
<1>2. [cache EXCEPT !.keys = cache.keys] = cache
  BY DEF KeySetInv, Types, Caches
<1> QED
  BY <1>1, <1>2, BeginFetchInv

LEMMA DiscoveredInv ==
    ASSUME KeySetInv, NEW r \in Requests, Discovered(r)
    PROVE  KeySetInv'
<1> DEFINE q == [resolve[r] EXCEPT !.pc = "fetch", !.since = now]
<1>1. /\ resolve[r].pc = "discover" /\ resolve' = [resolve EXCEPT ![r] = q]
      /\ cache' = [cache EXCEPT !.known = TRUE]
      /\ UNCHANGED <<now, version, snapshot, queue, background, withdrawn, lastFetch>>
  BY DEF Discovered, Become
<1>2. Holds(r) /\ ~cache.known
  BY <1>1 DEF KeySetInv, MutexInv, KnownInv, OnNetwork
<1>3. background.pc = "idle"
  BY <1>2 DEF KeySetInv, KnownInv
<1>4. /\ q \in Resolves /\ q.since = now /\ q.pc = "fetch" /\ now \in 0 .. MaxTime
      /\ cache \in Caches
  BY DEF KeySetInv, Types, Resolves, OnNetwork
<1>5. /\ cache' \in Caches /\ cache'.keys = cache.keys /\ cache'.fetchedAt = cache.fetchedAt
      /\ cache'.known = TRUE /\ cache'.refreshing = cache.refreshing
      /\ cache'.lastAttempt = cache.lastAttempt
  BY <1>1, <1>4 DEF Caches
<1> HIDE DEF q
<1>6. /\ resolve' \in [Requests -> Resolves]
      /\ resolve'[r] = q /\ \A s \in Requests \ {r} : resolve'[s] = resolve[s]
      /\ \A s \in Requests \ {r} : resolve'[s].pc \notin OnNetwork
      /\ MutexInv' /\ QueueSentInv'
  BY <1>1, <1>2, <1>3, <1>4, KeepHolding DEF OnNetwork
<1>7. ServedInv'
  BY <1>1, <1>4, <1>6, DiesStep DEF KeySetInv
<1>8. Types'
  BY <1>1, <1>5, <1>6 DEF KeySetInv, Types
<1>9. KnownInv'
  BY <1>1, <1>4, <1>5, <1>6 DEF KeySetInv, KnownInv, OnNetwork
<1>10. TimeInv'
  <2>1. \A s \in Requests : resolve'[s].pc \in OnNetwork =>
          /\ cache'.lastAttempt <= resolve'[s].since
          /\ resolve'[s].since <= now' /\ now' <= resolve'[s].since + RequestTimeout
    BY <1>1, <1>4, <1>5, <1>6, KeySetAssumption DEF KeySetInv, TimeInv
  <2> QED
    BY <2>1, <1>1, <1>5 DEF KeySetInv, TimeInv
<1>11. SentInv'
  BY <1>1, <1>4, <1>5, <1>6 DEF KeySetInv, SentInv, SentSince, OnNetwork
<1> QED
  BY <1>6, <1>7, <1>8, <1>9, <1>10, <1>11 DEF KeySetInv

LEMMA FetchReadsInv ==
    ASSUME KeySetInv, NEW r \in Requests, FetchReads(r)
    PROVE  KeySetInv'
<1> DEFINE q == [resolve[r] EXCEPT !.pc = "fetched", !.doc = Documents[version]]
<1>1. /\ resolve[r].pc = "fetch" /\ resolve' = [resolve EXCEPT ![r] = q]
      /\ UNCHANGED <<now, version, cache, snapshot, queue, background, withdrawn, lastFetch>>
  BY DEF FetchReads, Become
<1>2. Holds(r) /\ resolve[r].pc \in OnNetwork
  BY <1>1 DEF KeySetInv, MutexInv, OnNetwork
<1>3. Documents[version] \in KeySets /\ Documents[version] # None
  BY DocumentTypes DEF KeySetInv, Types
<1>4. /\ q \in Resolves /\ q.since = resolve[r].since /\ q.pc = "fetched"
      /\ q.doc = Documents[version]
  BY <1>3 DEF KeySetInv, Types, Resolves, OnNetwork, Keys
<1>5. HolderSince = resolve[r].since
  BY <1>2, Holding
<1> HIDE DEF q
<1>6. /\ resolve' \in [Requests -> Resolves]
      /\ resolve'[r] = q /\ \A s \in Requests \ {r} : resolve'[s] = resolve[s]
      /\ \A s \in Requests \ {r} : resolve'[s].pc \notin OnNetwork
      /\ MutexInv' /\ QueueSentInv'
  BY <1>1, <1>2, <1>4, <1>5, KeepHolding DEF OnNetwork
<1>7. ServedInv'
  BY <1>1, <1>4, <1>6, DiesStep DEF KeySetInv
<1>8. Types'
  BY <1>1, <1>6 DEF KeySetInv, Types
<1>9. KnownInv'
  BY <1>1, <1>4, <1>6 DEF KeySetInv, KnownInv, OnNetwork
<1>10. TimeInv'
  BY <1>1, <1>2, <1>4, <1>6 DEF KeySetInv, TimeInv
<1>11. SentInv'
  BY <1>1, <1>3, <1>4, <1>6, SentNow DEF KeySetInv, SentInv, SentSince, OnNetwork
<1> QED
  BY <1>6, <1>7, <1>8, <1>9, <1>10, <1>11 DEF KeySetInv
LEMMA FetchFailsInv ==
    ASSUME KeySetInv, NEW r \in Requests, FetchFails(r)
    PROVE  KeySetInv'
<1>1. resolve[r].pc \in OnNetwork /\ Become(r, Refused(r)) /\ Unlock
      /\ UNCHANGED <<now, version, cache, snapshot, background, withdrawn, lastFetch>>
  BY DEF FetchFails, OnNetwork
<1>2. Holds(r)
  BY <1>1 DEF KeySetInv, MutexInv
<1>3. /\ queue' \in Seq(Requests \cup {Refresher})
      /\ resolve' \in [Requests -> Resolves]
      /\ \A s \in Requests : resolve'[s].pc \notin OnNetwork
      /\ MutexInv' /\ QueueSentInv' /\ ServedInv'
  BY <1>1, <1>2, LeaveRefused
<1>4. Types'
  BY <1>1, <1>3 DEF KeySetInv, Types
<1>5. KnownInv' /\ TimeInv' /\ SentInv'
  BY <1>1, <1>3 DEF KeySetInv, KnownInv, TimeInv, SentInv, SentSince, OnNetwork
<1> QED
  BY <1>3, <1>4, <1>5 DEF KeySetInv

\* A document that arrived in time is stored as of the moment its request left.
LEMMA FetchStoresInv ==
    ASSUME KeySetInv, NEW r \in Requests, FetchStores(r)
    PROVE  KeySetInv'
<1> DEFINE doc == resolve[r].doc
           t == resolve[r].since
           h == Hold(Cardinality(Requests) + 1)
<1>1. /\ resolve[r].pc = "fetched" /\ resolve[r].pc \in OnNetwork
      /\ UNCHANGED <<now, version, background, withdrawn, lastFetch>>
  BY DEF FetchStores, OnNetwork
<1>2. Holds(r)
  BY <1>1 DEF KeySetInv, MutexInv
<1>3. doc \in KeySets /\ doc # None /\ SentSince(doc, t)
  BY <1>1, DocumentTypes DEF KeySetInv, SentInv, Types, Resolves
<1>4. /\ t \in Int /\ now \in Int /\ cache \in Caches /\ cache.lastAttempt \in Int
      /\ t <= now /\ now <= t + RequestTimeout /\ cache.lastAttempt <= t
  BY <1>1, KeySetAssumption DEF KeySetInv, Types, Resolves, Caches, Times, TimeInv
<1>5. /\ h \in Int /\ RequestTimeout <= h
      /\ WithdrawalBound = h + CacheTTL + MaxStaleAge
  <2>1. Cardinality(Requests) + 1 \in Nat /\ Cardinality(Requests) + 1 # 0
    BY HoldFacts
  <2> QED
    BY <2>1, HoldFacts
<1> HIDE DEF h
<1>6. now <= t + WithdrawalBound
  BY <1>4, <1>5, KeySetAssumption
<1>7. SentSince(doc, cache.lastAttempt - h)
  <2>1. cache.lastAttempt - h \in Int /\ cache.lastAttempt - h <= t
    BY <1>4, <1>5, KeySetAssumption
  <2> QED
    BY <1>3, <1>4, <2>1, SentEarlier DEF KeySetInv
<1>8. /\ cache' \in Caches /\ cache'.keys = doc /\ cache'.fetchedAt = cache.lastAttempt
      /\ cache'.known = cache.known /\ cache'.refreshing = cache.refreshing
      /\ cache'.lastAttempt = cache.lastAttempt
  <2>1. doc \in Keys
    BY <1>3 DEF Keys
  <2>2. cache' = [cache EXCEPT !.keys = doc, !.fetchedAt = cache.lastAttempt]
    BY DEF FetchStores
  <2> HIDE DEF doc
  <2> QED
    BY <1>4, <2>1, <2>2 DEF Caches
<1>9. snapshot' = [keys |-> cache'.keys, fetchedAt |-> cache'.fetchedAt]
  BY <1>3, <1>8 DEF FetchStores, Publish
<1>10. /\ queue' \in Seq(Requests \cup {Refresher})
       /\ resolve' \in [Requests -> Resolves]
       /\ \A s \in Requests : resolve'[s].pc \notin OnNetwork
       /\ MutexInv' /\ QueueSentInv' /\ ServedInv'
  <2>1. CASE resolve[r].origin = "current" \/ resolve[r].kid \notin doc
    <3>1. CASE resolve[r].origin = "current"
      BY <3>1, <1>1, <1>2, <1>3, <1>4, <1>6, Leave DEF FetchStores
    <3>2. CASE resolve[r].origin # "current" /\ resolve[r].kid \notin doc
      <4>1. Become(r, Refused(r)) /\ Unlock
        BY <3>2 DEF FetchStores
      <4> QED
        BY <1>1, <1>2, <4>1, LeaveRefused
    <3> QED
      BY <2>1, <3>1, <3>2
  <2>2. CASE resolve[r].origin # "current" /\ resolve[r].kid \in doc
    <3>1. LeaveCurrent(r, doc)
      BY <2>2 DEF FetchStores, LeaveCurrent
    <3> QED
      BY <3>1, <1>1, <1>2, <1>3, <1>4, <1>6, Leave
  <2> QED
    BY <2>1, <2>2
<1>11. Types'
  <2>1. snapshot' \in Snapshots
    BY <1>8, <1>9 DEF Caches, Snapshots
  <2> QED
    BY <1>1, <1>8, <1>10, <2>1 DEF KeySetInv, Types
<1>12. KnownInv'
  BY <1>1, <1>8, <1>10 DEF KeySetInv, KnownInv, OnNetwork
<1>13. TimeInv'
  BY <1>1, <1>4, <1>8, <1>9, <1>10 DEF KeySetInv, TimeInv
<1>14. SentInv'
  BY <1>1, <1>7, <1>8, <1>10 DEF KeySetInv, SentInv, SentSince, OnNetwork, h
<1> QED
  BY <1>10, <1>11, <1>12, <1>13, <1>14 DEF KeySetInv

LEMMA ReturnInv ==
    ASSUME KeySetInv, NEW r \in Requests, Return(r)
    PROVE  KeySetInv'
<1>1. /\ resolve[r].pc \in {"resolved", "refused"} /\ resolve' = [resolve EXCEPT ![r] = Idle]
      /\ UNCHANGED <<now, version, cache, snapshot, queue, background, withdrawn, lastFetch>>
  BY DEF Return, Become
<1>2. /\ resolve' \in [Requests -> Resolves] /\ resolve'[r].pc = "idle"
      /\ \A s \in Requests \ {r} : resolve'[s] = resolve[s]
  BY <1>1, RecordTypes DEF KeySetInv, Types, Idle
<1>3. \A s \in Requests : resolve'[s].pc \in OnNetwork => s # r /\ resolve'[s] = resolve[s]
  BY <1>2 DEF OnNetwork
<1>4. Types'
  BY <1>1, <1>2 DEF KeySetInv, Types
<1>5. MutexInv'
  <2>1. ASSUME NEW s \in Requests
        PROVE  /\ resolve'[s].pc \in Waiting \cup OnNetwork <=> s \in Queued
               /\ resolve'[s].pc \in OnNetwork => Holds(s)
    BY <1>1, <1>2, <1>3 DEF KeySetInv, MutexInv, Waiting, OnNetwork
  <2> QED
    BY <1>1, <2>1 DEF KeySetInv, MutexInv, Queued, Holds
<1>6. KnownInv' /\ TimeInv' /\ SentInv'
  BY <1>1, <1>2, <1>3 DEF KeySetInv, KnownInv, TimeInv, SentInv, SentSince, OnNetwork
<1>7. HolderSince' = HolderSince
  BY <1>1, <1>2 DEF HolderSince, OnNetwork
<1>8. QueueSentInv'
  BY <1>1, <1>7 DEF KeySetInv, QueueSentInv, SentSince
<1>9. ServedInv'
  BY <1>1, <1>2 DEF KeySetInv, ServedInv, WithdrawnKeyDies
<1> QED
  BY <1>4, <1>5, <1>6, <1>8, <1>9 DEF KeySetInv

\* Whoever joins the queue leaves its head, and a refresh's place, as they are.
LEMMA JoinQueue ==
    ASSUME KeySetInv, NEW p \in Requests \cup {Refresher}, p \notin Queued, Lock(p)
    PROVE  /\ queue' \in Seq(Requests \cup {Refresher}) /\ Distinct(queue')
           /\ Queued' = Queued \cup {p}
           /\ DOMAIN queue = 1 .. Len(queue) /\ Len(queue) \in Nat
           /\ DOMAIN queue' = 1 .. (Len(queue) + 1) /\ queue'[Len(queue) + 1] = p
           /\ \A i \in DOMAIN queue : queue'[i] = queue[i]
           /\ queue' # <<>> /\ Head(queue') = IF queue = <<>> THEN p ELSE Head(queue)
<1> DEFINE S == Requests \cup {Refresher}
<1>1. queue \in Seq(S) /\ Distinct(queue) /\ p \notin Members(queue) /\ p \in S
  BY DEF KeySetInv, Types, MutexInv, Queued
<1> HIDE DEF S
<1> DEFINE e == Append(queue, p)
<1>2. /\ e \in Seq(S) /\ Distinct(e) /\ Members(e) = Members(queue) \cup {p}
      /\ DOMAIN e = 1 .. (Len(queue) + 1)
      /\ \A i \in DOMAIN queue : e[i] = queue[i]
      /\ e[Len(queue) + 1] = p
      /\ e # <<>> /\ Head(e) = IF queue = <<>> THEN p ELSE Head(queue)
  BY <1>1, Enqueue
<1>3. queue' = e
  BY DEF Lock
<1>4. DOMAIN queue = 1 .. Len(queue) /\ Len(queue) \in Nat
  BY <1>1
<1> HIDE DEF e
<1> QED
  BY <1>2, <1>3, <1>4 DEF Queued, S
\* A fresh snapshot answers at once; any other request queues for the mutex.
LEMMA ResolveInv ==
    ASSUME KeySetInv, NEW r \in Requests, NEW k \in Kids, Resolve(r, k)
    PROVE  KeySetInv'
<1> DEFINE fresh == snapshot.keys # None /\ now - snapshot.fetchedAt < CacheTTL
           found == fresh /\ k \in snapshot.keys
           q == [Idle EXCEPT !.pc = IF found THEN "resolved"
                                    ELSE IF fresh THEN "unknown" ELSE "current",
                             !.kid = k]
<1>1. /\ resolve[r].pc = "idle" /\ resolve' = [resolve EXCEPT ![r] = q]
      /\ IF found THEN queue' = queue ELSE Lock(r)
      /\ UNCHANGED <<now, version, cache, snapshot, background, withdrawn, lastFetch>>
  BY DEF Resolve, Become
<1>2. /\ q \in Resolves /\ q.pc \notin OnNetwork /\ q.kid = k
      /\ (found => q.pc = "resolved") /\ (~found => q.pc \in Waiting)
  BY RecordTypes DEF Idle, Resolves, OnNetwork, Waiting
<1>3. r \notin Queued /\ r # Refresher
  BY <1>1, KeySetAssumption DEF KeySetInv, MutexInv, Waiting, OnNetwork
<1>4. found => /\ cache.keys # None /\ k \in cache.keys
               /\ Age <= CacheTTL + MaxStaleAge
  <2>1. CASE found
    <3>1. snapshot.keys = cache.keys /\ snapshot.fetchedAt = cache.fetchedAt
      BY <2>1 DEF KeySetInv, TimeInv
    <3>2. cache.fetchedAt \in Int /\ now \in Int
      BY KeySetAssumption DEF KeySetInv, Types, Caches, Times
    <3> QED
      BY <2>1, <3>1, <3>2, KeySetAssumption DEF Age
  <2> QED
    BY <2>1
<1> HIDE DEF q, found, fresh
<1>5. /\ resolve' \in [Requests -> Resolves] /\ resolve'[r] = q
      /\ \A s \in Requests \ {r} : resolve'[s] = resolve[s]
  BY <1>1, <1>2 DEF KeySetInv, Types
<1>6. \A s \in Requests : resolve'[s].pc \in OnNetwork => s # r /\ resolve'[s] = resolve[s]
  BY <1>2, <1>5
<1>7. KnownInv' /\ TimeInv' /\ SentInv'
  BY <1>1, <1>5, <1>6 DEF KeySetInv, KnownInv, TimeInv, SentInv, SentSince, OnNetwork
<1>8. ServedInv'
  <2>1. ASSUME found, k \notin Documents[version]
        PROVE  withdrawn[k] # None /\ now <= withdrawn[k] + WithdrawalBound
    <3>1. PICK t \in Int : SentSince(cache.keys, t) /\ now <= t + WithdrawalBound
      BY <1>4, <2>1, CacheServes
    <3> QED
      BY <1>4, <2>1, <3>1, CacheServes, SentVerifies DEF KeySetInv
  <2>2. q.pc = "resolved" => found
    BY <1>2 DEF Waiting
  <2> QED
    BY <1>1, <1>2, <1>5, <2>1, <2>2, DiesStep DEF KeySetInv
<1>9. /\ queue' \in Seq(Requests \cup {Refresher}) /\ MutexInv' /\ QueueSentInv'
  <2>1. CASE found
    <3>1. queue' = queue
      BY <1>1, <2>1
    <3>2. ASSUME NEW s \in Requests
          PROVE  /\ resolve'[s].pc \in Waiting \cup OnNetwork <=> s \in Queued
                 /\ resolve'[s].pc \in OnNetwork => Holds(s)
      BY <1>2, <1>3, <1>5, <1>6, <2>1 DEF KeySetInv, MutexInv, Waiting, OnNetwork
    <3>3. MutexInv'
      BY <1>1, <3>1, <3>2 DEF KeySetInv, MutexInv, Queued, Holds
    <3>4. HolderSince' = HolderSince
      BY <1>1, <1>2, <1>5, <3>1 DEF HolderSince, OnNetwork
    <3> QED
      BY <1>1, <3>1, <3>3, <3>4 DEF KeySetInv, Types, QueueSentInv, SentSince
  <2>2. CASE ~found
    <3>1. /\ queue' \in Seq(Requests \cup {Refresher}) /\ Distinct(queue')
          /\ Queued' = Queued \cup {r}
          /\ DOMAIN queue = 1 .. Len(queue) /\ Len(queue) \in Nat
          /\ DOMAIN queue' = 1 .. (Len(queue) + 1) /\ queue'[Len(queue) + 1] = r
          /\ \A i \in DOMAIN queue : queue'[i] = queue[i]
          /\ queue' # <<>> /\ Head(queue') = IF queue = <<>> THEN r ELSE Head(queue)
      BY <1>1, <1>3, <2>2, JoinQueue
    <3>2. ASSUME NEW s \in Requests
          PROVE  /\ resolve'[s].pc \in Waiting \cup OnNetwork <=> s \in Queued'
                 /\ resolve'[s].pc \in OnNetwork => Holds(s)'
      BY <1>2, <1>3, <1>5, <1>6, <2>2, <3>1 DEF KeySetInv, MutexInv, Holds
    <3>3. MutexInv'
      BY <1>1, <1>3, <3>1, <3>2 DEF KeySetInv, MutexInv
    <3>4. ASSUME NEW i \in DOMAIN queue', queue'[i] = Refresher
          PROVE  i \in DOMAIN queue /\ queue[i] = Refresher /\ HolderSince' = HolderSince
      <4>1. i \in DOMAIN queue /\ queue[i] = Refresher
        BY <1>3, <3>1, <3>4
      <4>2. queue # <<>>
        BY <4>1
      <4>3. HolderSince' = HolderSince
        BY <1>1, <1>2, <1>5, <3>1, <4>2 DEF HolderSince, OnNetwork
      <4> QED
        BY <4>1, <4>3
    <3>5. QueueSentInv'
      BY <1>1, <3>4 DEF KeySetInv, QueueSentInv, SentSince
    <3> QED
      BY <3>1, <3>3, <3>5
  <2> QED
    BY <2>1, <2>2
<1>10. Types'
  BY <1>1, <1>5, <1>9 DEF KeySetInv, Types
<1> QED
  BY <1>7, <1>8, <1>9, <1>10 DEF KeySetInv

-----------------------------------------------------------------------------
(* refreshInBackground.                                                     *)

LEMMA BackgroundReadsInv ==
    ASSUME KeySetInv, BackgroundReads
    PROVE  KeySetInv'
<1>1. /\ background.pc = "fetch"
      /\ background' = [background EXCEPT !.pc = "fetched", !.doc = Documents[version]]
      /\ UNCHANGED <<now, version, cache, snapshot, queue, resolve, withdrawn, lastFetch>>
  BY DEF BackgroundReads
<1>2. Documents[version] \in KeySets /\ Documents[version] # None
  BY DocumentTypes DEF KeySetInv, Types
<1>3. /\ background' \in Refreshes /\ background'.pc = "fetched"
      /\ background'.doc = Documents[version] /\ background'.since = background.since
  BY <1>1, <1>2 DEF KeySetInv, Types, Refreshes, Keys
<1>4. Types'
  BY <1>1, <1>3 DEF KeySetInv, Types
<1>5. Refresher \notin Queued
  BY <1>1 DEF KeySetInv, MutexInv
<1>6. MutexInv'
  BY <1>1, <1>3, <1>5 DEF KeySetInv, MutexInv, Queued, Holds
<1>7. KnownInv' /\ TimeInv'
  BY <1>1, <1>3 DEF KeySetInv, KnownInv, TimeInv, OnNetwork
<1>8. SentInv'
  BY <1>1, <1>2, <1>3 DEF KeySetInv, SentInv, SentSince
<1>9. QueueSentInv'
  BY <1>1, <1>5 DEF QueueSentInv, Queued, Members
<1>10. ServedInv'
  BY <1>1 DEF KeySetInv, ServedInv, WithdrawnKeyDies
<1> QED
  BY <1>4, <1>6, <1>7, <1>8, <1>9, <1>10 DEF KeySetInv

\* The refresh takes the last place in the queue, at most one RequestTimeout after
\* its document was sent; in front of it is at most every request once.
LEMMA BackgroundReturnsInv ==
    ASSUME KeySetInv, NEW doc \in KeySets \cup {None}, BackgroundReturns(doc)
    PROVE  KeySetInv'
<1> DEFINE N == Cardinality(Requests)
<1>1. /\ background.pc \in {"fetch", "fetched"}
      /\ doc # None => background.pc = "fetched" /\ background.doc = doc
      /\ background' = [Resting EXCEPT !.pc = "store", !.doc = doc]
      /\ Lock(Refresher)
      /\ UNCHANGED <<now, version, cache, snapshot, resolve, withdrawn, lastFetch>>
  BY DEF BackgroundReturns
<1>2. /\ background' \in Refreshes /\ background'.pc = "store" /\ background'.doc = doc
  BY <1>1, RecordTypes DEF Resting, Refreshes, Keys
<1>3. Refresher \notin Queued /\ Refresher \notin Requests
  BY <1>1, KeySetAssumption DEF KeySetInv, MutexInv
<1>4. /\ queue' \in Seq(Requests \cup {Refresher}) /\ Distinct(queue')
      /\ Queued' = Queued \cup {Refresher}
      /\ DOMAIN queue = 1 .. Len(queue) /\ Len(queue) \in Nat
      /\ DOMAIN queue' = 1 .. (Len(queue) + 1) /\ queue'[Len(queue) + 1] = Refresher
      /\ \A i \in DOMAIN queue : queue'[i] = queue[i]
      /\ queue' # <<>> /\ Head(queue') = IF queue = <<>> THEN Refresher ELSE Head(queue)
  BY <1>1, <1>3, JoinQueue
<1>5. Len(queue) <= N
  <2>1. queue \in Seq(Requests \cup {Refresher}) /\ Distinct(queue)
    BY DEF KeySetInv, Types, MutexInv
  <2>2. \A i \in DOMAIN queue : queue[i] \in Requests
    BY <1>3, <2>1 DEF Queued, Members
  <2>3. queue \in Seq(Requests)
    BY <2>1, <2>2
  <2> QED
    BY <2>1, <2>3, QueueLength, KeySetAssumption
<1>6. Types'
  BY <1>1, <1>2, <1>4 DEF KeySetInv, Types
<1>7. MutexInv'
  <2>1. ASSUME NEW s \in Requests
        PROVE  /\ resolve'[s].pc \in Waiting \cup OnNetwork <=> s \in Queued'
               /\ resolve'[s].pc \in OnNetwork => Holds(s)'
    BY <1>1, <1>3, <1>4 DEF KeySetInv, MutexInv, Holds
  <2> QED
    BY <1>2, <1>4, <2>1 DEF MutexInv
<1>8. KnownInv' /\ TimeInv' /\ SentInv'
  BY <1>1, <1>2 DEF KeySetInv, KnownInv, TimeInv, SentInv, SentSince, OnNetwork
<1>9. QueueSentInv'
  <2> SUFFICES ASSUME doc # None, NEW i \in DOMAIN queue', queue'[i] = Refresher
               PROVE  SentSince(background.doc, HolderSince - Hold(Cardinality(Requests) + 2 - i))'
    BY <1>2 DEF QueueSentInv
  <2>1. i = Len(queue) + 1
    BY <1>3, <1>4 DEF Queued, Members
  <2> DEFINE n == N + 2 - i
             h == Hold(n)
  <2>2. n \in Nat /\ n # 0
    <3>1. N \in Nat
      BY HoldFacts
    <3>2. Len(queue) \in Nat
      BY <1>4
    <3> HIDE DEF N
    <3> QED
      BY <1>5, <2>1, <3>1, <3>2
  <2>3. h \in Int /\ RequestTimeout <= h
    BY <2>2, HoldFacts
  <2> HIDE DEF n, h
  <2>4. HolderSince' \in Int /\ HolderSince' <= now
    <3>1. now \in Int
      BY DEF KeySetInv, Types
    <3>2. CASE queue' # <<>> /\ Head(queue') \in Requests
               /\ resolve'[Head(queue')].pc \in OnNetwork
      <4>1. HolderSince' = resolve[Head(queue')].since
        BY <1>1, <3>2 DEF HolderSince
      <4> QED
        BY <1>1, <3>2, <4>1 DEF KeySetInv, Types, Resolves, TimeInv
    <3>3. CASE ~(queue' # <<>> /\ Head(queue') \in Requests
                 /\ resolve'[Head(queue')].pc \in OnNetwork)
      <4>1. HolderSince' = now
        BY <1>1, <3>3 DEF HolderSince
      <4> QED
        BY <3>1, <4>1
    <3> QED
      BY <3>2, <3>3
  <2>5. /\ background.since \in Int /\ background.since <= now
        /\ now <= background.since + RequestTimeout
        /\ SentSince(doc, background.since) /\ doc \in KeySets
    BY <1>1 DEF KeySetInv, Types, Refreshes, TimeInv, SentInv, OnNetwork
  <2> DEFINE u == HolderSince' - h
  <2>6. now \in Int
    BY DEF KeySetInv, Types
  <2>7. u \in Int /\ u <= background.since
    BY <2>3, <2>4, <2>5, <2>6, KeySetAssumption
  <2> HIDE DEF u
  <2>8. \A k \in doc : k \notin Documents[version] => withdrawn[k] # None /\ u <= withdrawn[k]
    <3> SUFFICES ASSUME NEW k \in doc, k \notin Documents[version]
                 PROVE  withdrawn[k] # None /\ u <= withdrawn[k]
      OBVIOUS
    <3>1. withdrawn[k] # None /\ background.since <= withdrawn[k]
      BY <2>5 DEF SentSince
    <3>2. withdrawn[k] \in Int
      BY <2>5, <3>1, DocumentTypes DEF KeySetInv, Types
    <3> QED
      BY <2>5, <2>7, <3>1, <3>2
  <2> QED
    BY <1>1, <1>2, <2>8 DEF SentSince, u, h, n
<1>10. ServedInv'
  BY <1>1 DEF KeySetInv, ServedInv, WithdrawnKeyDies
<1> QED
  BY <1>6, <1>7, <1>8, <1>9, <1>10 DEF KeySetInv
\* The document is stored as of now: it has waited behind every request at most.
LEMMA BackgroundStoresInv ==
    ASSUME KeySetInv, BackgroundStores
    PROVE  KeySetInv'
<1> DEFINE doc == background.doc
           h == Hold(Cardinality(Requests) + 1)
           S == Requests \cup {Refresher}
<1>1. /\ background.pc = "store" /\ Holds(Refresher) /\ background' = Resting
      /\ queue' = Tail(queue)
      /\ UNCHANGED <<now, version, resolve, withdrawn, lastFetch>>
  BY DEF BackgroundStores, Unlock
<1>2. queue # <<>> /\ Head(queue) = Refresher /\ Refresher \notin Requests
  BY <1>1, KeySetAssumption DEF Holds
<1>3. \A s \in Requests : resolve[s].pc \notin OnNetwork
  BY <1>2 DEF KeySetInv, MutexInv, Holds
<1>4. HolderSince = now
  BY <1>2 DEF HolderSince
<1>5. queue \in Seq(S) /\ Distinct(queue) /\ now \in 0 .. MaxTime /\ now \in Times
      /\ cache \in Caches /\ doc \in Keys
  BY RecordTypes DEF KeySetInv, Types, MutexInv, Refreshes
<1> HIDE DEF S
<1>6. Tail(queue) \in Seq(S) /\ Distinct(Tail(queue))
      /\ Members(Tail(queue)) = Members(queue) \ {Head(queue)}
      /\ DOMAIN queue = 1 .. Len(queue) /\ Len(queue) \in Nat \ {0}
  BY <1>2, <1>5, Dequeue
<1>7. queue' \in Seq(S) /\ Distinct(queue') /\ Queued' = Queued \ {Refresher}
  BY <1>1, <1>2, <1>6 DEF Queued
<1>8. doc # None => SentSince(doc, now - h)
  <2>1. 1 \in DOMAIN queue /\ queue[1] = Refresher
    BY <1>2, <1>5, <1>6
  <2>2. Cardinality(Requests) + 2 - 1 = Cardinality(Requests) + 1
    BY HoldFacts
  <2> QED
    BY <1>4, <2>1, <2>2 DEF KeySetInv, QueueSentInv
<1>9. /\ cache' \in Caches /\ cache'.known = cache.known
      /\ cache'.lastAttempt = cache.lastAttempt
      /\ \/ /\ doc = None /\ snapshot' = snapshot
            /\ cache'.keys = cache.keys /\ cache'.fetchedAt = cache.fetchedAt
         \/ /\ doc # None /\ snapshot' = [keys |-> doc, fetchedAt |-> now]
            /\ cache'.keys = doc /\ cache'.fetchedAt = now
  <2>1. CASE doc = None
    BY <1>5, <2>1 DEF BackgroundStores, Caches
  <2>2. CASE doc # None
    <3>1. cache' = [cache EXCEPT !.refreshing = FALSE, !.keys = doc, !.fetchedAt = now]
          /\ Publish(cache')
      BY <1>5, <2>2 DEF BackgroundStores, Caches
    <3> HIDE DEF doc
    <3>2. cache' \in Caches /\ cache'.known = cache.known
          /\ cache'.lastAttempt = cache.lastAttempt
          /\ cache'.keys = doc /\ cache'.fetchedAt = now
      BY <1>5, <3>1 DEF Caches
    <3> QED
      BY <2>2, <3>1, <3>2 DEF Publish
  <2> QED
    BY <2>1, <2>2
<1>10. background' \in Refreshes /\ background'.pc = "idle" /\ background'.doc = None
  BY <1>1, RecordTypes DEF Resting
<1> HIDE DEF doc, h
<1>11. Types'
  <2>1. snapshot' \in Snapshots
    BY <1>5, <1>9 DEF KeySetInv, Types, Snapshots
  <2> QED
    BY <1>1, <1>7, <1>9, <1>10, <2>1 DEF KeySetInv, Types, S
<1>12. MutexInv'
  <2>1. ASSUME NEW s \in Requests
        PROVE  /\ resolve'[s].pc \in Waiting \cup OnNetwork <=> s \in Queued'
               /\ resolve'[s].pc \in OnNetwork => Holds(s)'
    BY <1>1, <1>2, <1>3, <1>7 DEF KeySetInv, MutexInv
  <2> QED
    BY <1>7, <1>10, <2>1 DEF MutexInv
<1>13. KnownInv'
  BY <1>1, <1>3, <1>9, <1>10 DEF KeySetInv, KnownInv, OnNetwork
<1>14. TimeInv'
  BY <1>1, <1>3, <1>5, <1>9, <1>10 DEF KeySetInv, TimeInv, OnNetwork
<1>15. SentInv'
  <2>1. cache'.keys # None => SentSince(cache'.keys, cache'.fetchedAt - h)
    BY <1>8, <1>9 DEF KeySetInv, SentInv, h
  <2> QED
    BY <1>1, <1>3, <1>10, <2>1 DEF SentInv, SentSince, OnNetwork, h
<1>16. QueueSentInv'
  BY <1>10 DEF QueueSentInv
<1>17. ServedInv'
  BY <1>1 DEF KeySetInv, ServedInv, WithdrawnKeyDies
<1> QED
  BY <1>11, <1>12, <1>13, <1>14, <1>15, <1>16, <1>17 DEF KeySetInv

-----------------------------------------------------------------------------
(* The issuer and the clock.                                                *)

\* A rotation withdraws keys now, after every document that names them was sent.
LEMMA SentRotate ==
    ASSUME Types, Rotate, NEW doc \in KeySets, NEW t \in Int, t <= now, SentSince(doc, t)
    PROVE  \A k \in doc : k \notin Documents[version'] =>
               withdrawn'[k] # None /\ t <= withdrawn'[k]
<1> SUFFICES ASSUME NEW k \in doc, k \notin Documents[version + 1]
             PROVE  withdrawn'[k] # None /\ t <= withdrawn'[k]
  BY DEF Rotate
<1>1. k \in Kids
  BY DocumentTypes
<1>2. withdrawn'[k] = IF k \in Documents[version] THEN now ELSE withdrawn[k]
  BY <1>1 DEF Rotate
<1>3. now # None
  BY KeySetAssumption DEF Types
<1> QED
  BY <1>2, <1>3 DEF SentSince

\* The refresh has at most every request in front of it.
LEMMA QueuePlaces ==
    ASSUME KeySetInv, NEW i \in DOMAIN queue
    PROVE  Cardinality(Requests) + 2 - i \in Nat
<1> DEFINE S == Requests \cup {Refresher}
           N == Cardinality(Requests)
<1>1. queue \in Seq(S) /\ Distinct(queue)
  BY DEF KeySetInv, Types, MutexInv
<1>2. IsFiniteSet(S) /\ Cardinality(S) = N + 1
  BY KeySetAssumption, FS_AddElement
<1> HIDE DEF S
<1>3. i \in Nat /\ i <= Len(queue) /\ Len(queue) \in Nat
  BY <1>1
<1>4. Len(queue) <= Cardinality(S)
  BY <1>1, <1>2, QueueLength
<1>5. N \in Nat
  BY HoldFacts
<1> HIDE DEF N
<1>6. Len(queue) <= N + 1
  BY <1>2, <1>4
<1> QED
  BY <1>3, <1>5, <1>6 DEF N

LEMMA RotateInv ==
    ASSUME KeySetInv, Rotate
    PROVE  KeySetInv'
<1> USE DEF KeySetInv
<1>1. /\ version' = version + 1 /\ version < Len(Documents)
      /\ UNCHANGED <<now, cache, snapshot, queue, resolve, background, lastFetch>>
  BY DEF Rotate
<1>2. now \in 0 .. MaxTime /\ version \in 1 .. Len(Documents) /\ Len(Documents) \in Nat
  BY KeySetAssumption DEF Types
<1>3. \A k \in Kids : withdrawn'[k] =
        IF k \in Documents[version'] THEN None
        ELSE IF k \in Documents[version] THEN now ELSE withdrawn[k]
  BY <1>1 DEF Rotate
<1>4. Types'
  <2>1. withdrawn' \in [Kids -> 0 .. MaxTime \cup {None}]
    BY <1>2 DEF Rotate, Types
  <2>2. version' \in 1 .. Len(Documents)
    BY <1>1, <1>2
  <2> QED
    BY <1>1, <2>1, <2>2 DEF Types
<1>5. MutexInv'
  BY <1>1 DEF MutexInv, Queued, Holds
<1>6. KnownInv' /\ TimeInv'
  BY <1>1 DEF KnownInv, TimeInv
<1>7. SentInv'
  <2>1. ASSUME cache.keys # None
        PROVE  SentSince(cache.keys, cache.fetchedAt - Hold(Cardinality(Requests) + 1))'
    <3> DEFINE h == Hold(Cardinality(Requests) + 1)
               t == cache.fetchedAt - h
    <3>1. Cardinality(Requests) + 1 \in Nat
      BY HoldFacts
    <3>2. h \in Int /\ 0 <= h
      BY <3>1, HoldFacts
    <3>3. cache.fetchedAt \in Int /\ cache.fetchedAt <= now /\ cache.keys \in KeySets
      BY <2>1, DocumentTypes, KeySetAssumption DEF Types, Caches, Times, TimeInv
    <3>4. SentSince(cache.keys, t)
      BY <2>1 DEF SentInv
    <3> HIDE DEF h
    <3>5. t \in Int /\ t <= now
      BY <1>2, <3>2, <3>3
    <3> HIDE DEF t
    <3>6. \A k \in cache.keys : k \notin Documents[version'] =>
            withdrawn'[k] # None /\ t <= withdrawn'[k]
      BY <3>3, <3>4, <3>5, SentRotate
    <3> QED
      BY <1>1, <3>6 DEF SentSince, t, h
  <2>2. ASSUME NEW r \in Requests, resolve[r].pc = "fetched"
        PROVE  resolve[r].doc # None /\ SentSince(resolve[r].doc, resolve[r].since)'
    <3>1. resolve[r].doc \in KeySets /\ SentSince(resolve[r].doc, resolve[r].since)
          /\ resolve[r].since \in Int /\ resolve[r].since <= now
      BY <2>2, DocumentTypes DEF Types, Resolves, SentInv, TimeInv, OnNetwork
    <3>2. \A k \in resolve[r].doc : k \notin Documents[version'] =>
            withdrawn'[k] # None /\ resolve[r].since <= withdrawn'[k]
      BY <3>1, SentRotate
    <3> QED
      BY <1>1, <3>1, <3>2, DocumentTypes DEF SentSince
  <2>3. ASSUME background.pc = "fetched"
        PROVE  background.doc # None /\ SentSince(background.doc, background.since)'
    <3>1. background.doc \in KeySets /\ SentSince(background.doc, background.since)
          /\ background.since \in Int /\ background.since <= now
      BY <2>3, DocumentTypes DEF Types, Refreshes, SentInv, TimeInv, OnNetwork
    <3>2. \A k \in background.doc : k \notin Documents[version'] =>
            withdrawn'[k] # None /\ background.since <= withdrawn'[k]
      BY <3>1, SentRotate
    <3> QED
      BY <1>1, <3>1, <3>2, DocumentTypes DEF SentSince
  <2> QED
    BY <1>1, <2>1, <2>2, <2>3 DEF SentInv
<1>8. QueueSentInv'
  <2> SUFFICES ASSUME background.doc # None, NEW i \in DOMAIN queue, queue[i] = Refresher
               PROVE  SentSince(background.doc, HolderSince - Hold(Cardinality(Requests) + 2 - i))'
    BY <1>1 DEF QueueSentInv
  <2> DEFINE n == Cardinality(Requests) + 2 - i
             h == Hold(n)
             t == HolderSince - h
  <2>1. n \in Nat
    BY QueuePlaces
  <2>2. h \in Int /\ 0 <= h
    BY <2>1, HoldFacts
  <2>3. HolderSince \in Int /\ HolderSince <= now
    BY <1>2 DEF HolderSince, Types, Resolves, TimeInv
  <2>4. background.doc \in KeySets /\ SentSince(background.doc, t)
    BY DocumentTypes DEF Types, Refreshes, QueueSentInv
  <2> HIDE DEF n, h
  <2>5. t \in Int /\ t <= now
    BY <1>2, <2>2, <2>3
  <2>6. HolderSince' = HolderSince
    BY <1>1 DEF HolderSince
  <2> HIDE DEF t
  <2>7. \A k \in background.doc : k \notin Documents[version'] =>
          withdrawn'[k] # None /\ t <= withdrawn'[k]
    BY <2>4, <2>5, SentRotate
  <2> QED
    BY <1>1, <2>6, <2>7 DEF SentSince, t, h, n
<1>9. ServedInv'
  <2> SUFFICES ASSUME NEW r \in Requests, resolve[r].pc = "resolved",
                      resolve[r].kid \notin Documents[version']
               PROVE  /\ withdrawn'[resolve[r].kid] # None
                      /\ now <= withdrawn'[resolve[r].kid] + WithdrawalBound
    BY <1>1 DEF ServedInv, WithdrawnKeyDies
  <2> DEFINE k == resolve[r].kid
  <2>1. k \in Kids
    BY DEF ServedInv
  <2>2. CASE k \in Documents[version]
    <3>1. withdrawn'[k] = now /\ now # None
      BY <1>2, <1>3, <2>1, <2>2, KeySetAssumption
    <3>2. WithdrawalBound \in Int /\ 0 <= WithdrawalBound
      BY BoundType
    <3> QED
      BY <1>2, <3>1, <3>2
  <2>3. CASE k \notin Documents[version]
    <3>1. withdrawn[k] # None /\ now <= withdrawn[k] + WithdrawalBound
      BY <2>3 DEF ServedInv, WithdrawnKeyDies
    <3> QED
      BY <1>3, <2>1, <2>3, <3>1
  <2> QED
    BY <2>2, <2>3
<1> QED
  BY <1>4, <1>5, <1>6, <1>7, <1>8, <1>9
\* Time passes only while the holder of the mutex waits for the network.
LEMMA TickInv ==
    ASSUME KeySetInv, Tick
    PROVE  KeySetInv'
<1>1. /\ now < MaxTime /\ now' = now + 1 /\ MayWait
      /\ UNCHANGED <<version, cache, snapshot, queue, resolve, background, withdrawn, lastFetch>>
  BY DEF Tick
<1>2. now \in 0 .. MaxTime /\ now' \in 0 .. MaxTime /\ now <= now'
  BY <1>1, KeySetAssumption DEF KeySetInv, Types
<1>3. Types'
  BY <1>1, <1>2 DEF KeySetInv, Types
<1>4. MutexInv'
  BY <1>1 DEF KeySetInv, MutexInv, Queued, Holds
<1>5. KnownInv'
  BY <1>1 DEF KeySetInv, KnownInv
<1>6. TimeInv'
  <2>1. cache.lastAttempt <= now' /\ cache.fetchedAt <= now'
    BY <1>1, <1>2, KeySetAssumption DEF KeySetInv, TimeInv, Types, Caches, Times
  <2>2. ASSUME NEW r \in Requests, resolve[r].pc \in OnNetwork
        PROVE  /\ cache.lastAttempt <= resolve[r].since
               /\ resolve[r].since <= now' /\ now' <= resolve[r].since + RequestTimeout
    <3>1. resolve[r].since \in Int /\ now < resolve[r].since + RequestTimeout
          /\ cache.lastAttempt <= resolve[r].since /\ resolve[r].since <= now
      BY <1>1, <2>2 DEF KeySetInv, Types, Resolves, TimeInv, MayWait
    <3> QED
      BY <1>1, <1>2, <3>1, KeySetAssumption
  <2>3. ASSUME background.pc \in OnNetwork
        PROVE  background.since <= now' /\ now' <= background.since + RequestTimeout
    <3>1. background.since \in Int /\ now < background.since + RequestTimeout
          /\ background.since <= now
      BY <1>1, <2>3 DEF KeySetInv, Types, Refreshes, TimeInv, MayWait
    <3> QED
      BY <1>1, <1>2, <3>1, KeySetAssumption
  <2> QED
    BY <1>1, <2>1, <2>2, <2>3 DEF KeySetInv, TimeInv
<1>7. SentInv'
  BY <1>1 DEF KeySetInv, SentInv, SentSince
<1>8. QueueSentInv'
  <2> SUFFICES ASSUME background.doc # None, NEW i \in DOMAIN queue, queue[i] = Refresher
               PROVE  SentSince(background.doc, HolderSince - Hold(Cardinality(Requests) + 2 - i))'
    BY <1>1 DEF QueueSentInv
  <2>1. queue \in Seq(Requests \cup {Refresher}) /\ queue # <<>>
    BY DEF KeySetInv, Types
  <2>2. Head(queue) \in Requests \cup {Refresher} /\ Head(queue) \in Queued
    <3>1. 1 \in DOMAIN queue /\ Head(queue) = queue[1]
      BY <2>1
    <3> QED
      BY <2>1, <3>1 DEF Queued, Members
  <2>3. Head(queue) # Refresher
    BY <1>1, <2>1, <2>2 DEF KeySetInv, MutexInv, MayWait, Holds
  <2>4. Head(queue) \in Requests /\ resolve[Head(queue)].pc \in OnNetwork
    BY <1>1, <2>1, <2>2, <2>3 DEF KeySetInv, MutexInv, MayWait, Holds, Waiting
  <2>5. HolderSince' = HolderSince
    BY <1>1, <2>1, <2>4 DEF HolderSince
  <2> QED
    BY <1>1, <2>5 DEF KeySetInv, QueueSentInv, SentSince
<1>9. ServedInv'
  BY <1>1 DEF ServedInv, WithdrawnKeyDies, MayWait
<1> QED
  BY <1>3, <1>4, <1>5, <1>6, <1>7, <1>8, <1>9 DEF KeySetInv

-----------------------------------------------------------------------------
(* The theorems.                                                            *)

LEMMA KeySetInit == Init => KeySetInv
<1> SUFFICES ASSUME Init PROVE KeySetInv
  OBVIOUS
<1>1. /\ now = 0 /\ version = 1 /\ snapshot = NoSnapshot /\ queue = <<>>
      /\ resolve = [r \in Requests |-> Idle] /\ background = Resting
      /\ cache = [keys |-> None, fetchedAt |-> 0, lastAttempt |-> 0 - RefreshCooldown,
                  refreshing |-> FALSE, known |-> ~Discovers]
      /\ withdrawn = [k \in Kids |-> None] /\ lastFetch = 0 - RefreshCooldown
  BY DEF Init
<1>2. 0 - RefreshCooldown \in Times /\ 0 \in Times /\ 1 \in 1 .. Len(Documents)
      /\ 0 - RefreshCooldown <= 0
  BY KeySetAssumption DEF Times
<1>3. cache \in Caches
  BY <1>1, <1>2, KeySetAssumption DEF Caches, Keys
<1>4. queue \in Seq(Requests \cup {Refresher}) /\ DOMAIN queue = {}
  BY <1>1
<1>5. Types
  BY <1>1, <1>2, <1>3, <1>4, RecordTypes DEF Types
<1>6. \A r \in Requests : resolve[r].pc = "idle"
  BY <1>1 DEF Idle
<1>7. background.pc = "idle" /\ background.doc = None /\ cache.keys = None /\ snapshot.keys = None
  BY <1>1 DEF Resting, NoSnapshot
<1>8. MutexInv
  BY <1>4, <1>6, <1>7 DEF MutexInv, Distinct, Queued, Members, Waiting, OnNetwork
<1>9. KnownInv
  BY <1>6, <1>7 DEF KnownInv
<1>10. TimeInv
  BY <1>1, <1>2, <1>6, <1>7 DEF TimeInv, OnNetwork
<1>11. SentInv /\ QueueSentInv
  BY <1>6, <1>7 DEF SentInv, QueueSentInv
<1>12. ServedInv
  BY <1>6 DEF ServedInv, WithdrawnKeyDies
<1> QED
  BY <1>5, <1>8, <1>9, <1>10, <1>11, <1>12 DEF KeySetInv

LEMMA KeySetStep == KeySetInv /\ [Next]_vars => KeySetInv'
<1> SUFFICES ASSUME KeySetInv, [Next]_vars PROVE KeySetInv'
  OBVIOUS
<1>1. ASSUME NEW r \in Requests, RequestStep(r) PROVE KeySetInv'
  BY <1>1, CurrentFreshInv, CurrentStaleInv, CurrentColdInv, RefreshRefusedInv,
     RefreshStartsInv, DiscoveredInv, FetchReadsInv, FetchFailsInv, FetchStoresInv,
     ReturnInv DEF RequestStep
<1>2. ASSUME NEW r \in Requests, NEW k \in Kids, Resolve(r, k) PROVE KeySetInv'
  BY <1>2, ResolveInv
<1>3. CASE BackgroundStep
  BY <1>3, BackgroundReadsInv, BackgroundReturnsInv, BackgroundStoresInv DEF BackgroundStep
<1>4. CASE Rotate
  BY <1>4, RotateInv
<1>5. CASE Tick
  BY <1>5, TickInv
<1>6. CASE UNCHANGED vars
  <2>1. HolderSince' = HolderSince
    BY <1>6 DEF vars, HolderSince
  <2> QED
    BY <1>6, <2>1 DEF vars, KeySetInv, Types, MutexInv, KnownInv, TimeInv, SentInv,
                      QueueSentInv, ServedInv, WithdrawnKeyDies, SentSince, Queued, Holds
<1> QED
  BY <1>1, <1>2, <1>3, <1>4, <1>5, <1>6 DEF Next

\* The inductive invariant holds throughout.
THEOREM KeySetInvariant == Spec => []KeySetInv
BY KeySetInit, KeySetStep, PTL DEF Spec

\* Every state is well typed; whoever waits for the mutex or holds it has asked for
\* it exactly once, and only its holder waits for the network.
THEOREM KeySetTypeCorrect == Spec => []TypeOK
<1>1. KeySetInv => TypeOK
  BY DEF KeySetInv, Types, MutexInv, TypeOK, Distinct, Queued, Members, Caches, Snapshots,
         Resolves, Refreshes
<1> QED
  BY <1>1, KeySetInvariant, PTL

\* A key withdrawn from the published set stops verifying within WithdrawalBound,
\* for any number of requests and rotations, also when a kid is published again.
THEOREM WithdrawalCorrect == Spec => []WithdrawnKeyDies
<1>1. KeySetInv => WithdrawnKeyDies
  BY DEF KeySetInv, ServedInv
<1> QED
  BY <1>1, KeySetInvariant, PTL

\* Only RefreshStarts takes a request from an unknown kid to the network.
LEMMA UnknownStep ==
    ASSUME KeySetInv, [Next]_vars, NEW r \in Requests, resolve[r].pc = "unknown",
           resolve'[r].pc \in {"discover", "fetch"}
    PROVE  now - lastFetch >= RefreshCooldown
<1> USE DEF Become
<1>1. RefreshStarts(r)
  <2>1. resolve \in [Requests -> Resolves]
    BY DEF KeySetInv, Types
  <2>2. resolve'[r] # resolve[r]
    OBVIOUS
  <2>3. ASSUME NEW s \in Requests, RequestStep(s) \/ \E k \in Kids : Resolve(s, k)
        PROVE  s = r
    <3>1. \E q : resolve' = [resolve EXCEPT ![s] = q]
      BY <2>3 DEF RequestStep, CurrentFresh, CurrentStale, CurrentCold, RefreshRefused,
           RefreshStarts, Discovered, FetchReads, FetchFails, FetchStores, Return, Resolve,
           LeaveCurrent, BeginFetch
    <3> QED
      BY <2>1, <2>2, <3>1
  <2>4. ~(UNCHANGED resolve)
    BY <2>2
  <2>5. RequestStep(r) \/ \E k \in Kids : Resolve(r, k)
    BY <2>3, <2>4 DEF Next, vars, BackgroundStep, BackgroundReads, BackgroundReturns,
         BackgroundStores, Rotate, Tick
  <2>6. ~RefreshRefused(r)
    BY <2>1, LeavingTypes DEF RefreshRefused, KeySetInv
  <2> QED
    BY <2>5, <2>6 DEF RequestStep, CurrentFresh, CurrentStale, CurrentCold, Discovered,
         FetchReads, FetchFails, FetchStores, Return, Resolve
<1>2. lastFetch = cache.lastAttempt /\ now - cache.lastAttempt \in Int
  BY KeySetAssumption DEF KeySetInv, TimeInv, Types, Caches, Times
<1> QED
  BY <1>1, <1>2, KeySetAssumption DEF RefreshStarts, CoolingDown

\* A fetch that an unknown kid causes leaves at least RefreshCooldown after the last
\* fetch of any kind, whatever number of requests name unknown kids.
THEOREM SpacingCorrect == Spec => UnknownFetchesSpaced
<1>1. KeySetInv /\ [Next]_vars =>
        [\A r \in Requests :
            resolve[r].pc = "unknown" /\ resolve'[r].pc \in {"discover", "fetch"}
                => now - lastFetch >= RefreshCooldown]_vars
  BY UnknownStep
<1> QED
  BY <1>1, KeySetInvariant, PTL DEF Spec, UnknownFetchesSpaced

=============================================================================
