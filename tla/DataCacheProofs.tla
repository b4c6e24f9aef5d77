-------------------------- MODULE DataCacheProofs --------------------------
(* Machine-checked invariants of the data cache, for every size of the      *)
(* store, every set of readers, keys and tags, and every bound.             *)
EXTENDS DataCache, FiniteSetTheorems, TLAPS

-----------------------------------------------------------------------------
(* The store under its mutex: what every critical section preserves.        *)

StoreInv == StoreTypeOK /\ TagIndexExact /\ LiveHasSlot /\ EntriesBounded

\* Keys are finitely many, so every set of live entries has a cardinality.
LEMMA KeysFinite ==
    IsFiniteSet(Keys)
<1>1. CASE Scoped
  <2>1. Keys = Subjects \X Ids
    BY <1>1 DEF Keys, Scopes
  <2> QED
    BY ConstantAssumption, <2>1, FS_Product
<1>2. CASE ~Scoped
  <2>1. Keys = {Shared} \X Ids
    BY <1>2 DEF Keys, Scopes
  <2>2. IsFiniteSet({Shared})
    BY FS_Singleton
  <2> QED
    BY ConstantAssumption, <2>1, <2>2, FS_Product
<1> QED
  BY ConstantAssumption, <1>1, <1>2

\* Removing entries never takes the store past its bound.
LEMMA FewerEntries ==
    ASSUME EntriesBounded, Live(entries') \subseteq Live(entries)
    PROVE  EntriesBounded'
<1>1. IsFiniteSet(Live(entries)) /\ IsFiniteSet(Live(entries'))
  BY KeysFinite, FS_Subset DEF Live
<1>2. Cardinality(Live(entries')) <= Cardinality(Live(entries))
  BY <1>1, FS_Subset
<1>3. Cardinality(Live(entries')) \in Nat /\ Cardinality(Live(entries)) \in Nat
  BY <1>1, FS_CardinalityType
<1> QED
  BY ConstantAssumption, <1>2, <1>3 DEF EntriesBounded

\* compactLocked keeps the queue's shape and every position of a live key.
LEMMA CompactKeepsLive ==
    ASSUME NEW ord, NEW hd \in Nat, NEW tl \in Nat, NEW live \in SUBSET Keys,
           DOMAIN ord \subseteq 0 .. (tl - 1), ord \in [DOMAIN ord -> Keys]
    PROVE  LET c == Compact(ord, hd, live)
           IN  /\ DOMAIN c \subseteq 0 .. (tl - 1)
               /\ c \in [DOMAIN c -> Keys]
               /\ live \cap SlotKeys(ord, hd, tl) \subseteq SlotKeys(c, hd, tl)
<1> DEFINE held == {p \in DOMAIN ord : hd <= p}
           kept == {q \in held : ord[q] \in live}
           c == Compact(ord, hd, live)
<1>1. CASE Cardinality(held) <= 2 * Cardinality(live) + Slack
  <2>1. c = ord
    BY <1>1 DEF Compact
  <2> QED
    BY <2>1
<1>2. CASE ~(Cardinality(held) <= 2 * Cardinality(live) + Slack)
  <2>1. c = [p \in kept |-> ord[p]]
    BY <1>2 DEF Compact
  <2>2. kept \subseteq DOMAIN ord /\ DOMAIN c = kept
    BY <2>1
  <2>3. live \cap SlotKeys(ord, hd, tl) \subseteq SlotKeys(c, hd, tl)
    BY <2>1, <2>2 DEF SlotKeys
  <2> QED
    BY <2>1, <2>2, <2>3
<1> QED
  BY <1>1, <1>2

LEMMA DeletePreserves ==
    ASSUME StoreInv, NEW keys, Delete(keys)
    PROVE  StoreInv'
<1> USE DEF Delete, RemoveLocked, StoreInv
<1>1. StoreTypeOK'
  BY DEF StoreTypeOK, Untagged
<1>2. Live(entries') \subseteq Live(entries)
  BY DEF StoreTypeOK, Live
<1>3. TagIndexExact'
  BY DEF StoreTypeOK, TagIndexExact, Untagged, Live
<1>4. LiveHasSlot'
  BY <1>2 DEF LiveHasSlot, SlotKeys
<1> QED
  BY <1>1, <1>2, <1>3, <1>4, FewerEntries

LEMMA RemoveExpiredPreserves ==
    ASSUME StoreInv, NEW k, RemoveExpired(k)
    PROVE  StoreInv'
<1>1. CASE PastStale(k)
  BY <1>1, DeletePreserves DEF RemoveExpired
<1>2. CASE ~PastStale(k)
  BY <1>2 DEF RemoveExpired, store, StoreInv, StoreTypeOK, TagIndexExact,
              LiveHasSlot, EntriesBounded, SlotKeys, Live
<1> QED
  BY <1>1, <1>2

LEMMA DeletePrefixPreserves ==
    ASSUME StoreInv, NEW scope, DeletePrefix(scope)
    PROVE  StoreInv'
<1> USE DEF DeletePrefix, RemoveLocked, StoreInv
<1>1. Live(entries') \subseteq Live(entries) /\ Live(entries') \subseteq Keys
  BY DEF StoreTypeOK, Live
<1>2. /\ DOMAIN order' \subseteq 0 .. (tail - 1)
      /\ order' \in [DOMAIN order' -> Keys]
      /\ Live(entries') \cap SlotKeys(order, head, tail) \subseteq SlotKeys(order', head, tail)
  <2> DEFINE live == Live(entries')
  <2>1. live \in SUBSET Keys /\ order' = Compact(order, head, live)
    BY <1>1
  <2> HIDE DEF live
  <2> QED
    BY <2>1, CompactKeepsLive DEF StoreTypeOK, live
<1>3. StoreTypeOK'
  BY <1>2 DEF StoreTypeOK, Untagged
<1>4. TagIndexExact'
  BY DEF StoreTypeOK, TagIndexExact, Untagged, Live
<1>5. LiveHasSlot'
  BY <1>1, <1>2 DEF LiveHasSlot, SlotKeys
<1> QED
  BY <1>1, <1>3, <1>4, <1>5, FewerEntries

\* The index is exact, so the keys a tag names are those whose entries carry
\* it, and clearing the tag itself changes nothing.
LEMMA DeleteTagPreserves ==
    ASSUME StoreInv, NEW tag \in Tags, DeleteTag(tag)
    PROVE  StoreInv'
<1> USE DEF DeleteTag, StoreInv
<1>1. Live(entries') \subseteq Live(entries) /\ Live(entries') \subseteq Keys
  BY DEF StoreTypeOK, Live
<1>2. /\ DOMAIN order' \subseteq 0 .. (tail - 1)
      /\ order' \in [DOMAIN order' -> Keys]
      /\ Live(entries') \cap SlotKeys(order, head, tail) \subseteq SlotKeys(order', head, tail)
  <2> DEFINE live == Live(entries')
  <2>1. live \in SUBSET Keys /\ order' = Compact(order, head, live)
    BY <1>1
  <2> HIDE DEF live
  <2> QED
    BY <2>1, CompactKeepsLive DEF StoreTypeOK, live
<1>3. StoreTypeOK'
  BY <1>2 DEF StoreTypeOK, Untagged
<1>4. TagIndexExact'
  BY DEF StoreTypeOK, TagIndexExact, Untagged, Live
<1>5. LiveHasSlot'
  BY <1>1, <1>2 DEF LiveHasSlot, SlotKeys
<1> QED
  BY <1>1, <1>3, <1>4, <1>5, FewerEntries

\* The critical section of put: the eviction loop ends with the store within
\* its bound because every live key has a position it has yet to pass.
LEMMA PutPreserves ==
    ASSUME StoreInv, now \in Nat,
           NEW k \in Keys, NEW value \in Values, NEW tags \in SUBSET Tags,
           NEW by \in {"fetch", "set"}, Put(k, value, tags, by)
    PROVE  StoreInv'
<1> DEFINE entry == [value |-> value, fresh |-> now + TTL, stale |-> now + TTL + Stale,
                     tags |-> tags, by |-> by]
           added == [entries EXCEPT ![k] = entry]
           last == IF entries[k] = None THEN tail + 1 ELSE tail
           ord == [p \in DOMAIN order \cup tail .. (last - 1) |->
                     IF p = tail THEN k ELSE order[p]]
           cleared == Untagged(tagged, entries, {k})
           indexed == [t \in Tags |-> IF t \in tags THEN cleared[t] \cup {k} ELSE cleared[t]]
<1>1. PICK h \in head .. last :
          /\ Fits(added, ord, h) \/ h = last
          /\ entries' = [x \in Keys |-> IF x \in SlotKeys(ord, head, h) THEN None ELSE added[x]]
          /\ tagged' = Untagged(indexed, added, SlotKeys(ord, head, h))
          /\ order' = Compact(ord, h, Live(entries'))
          /\ head' = h
          /\ tail' = last
  BY DEF Put
<1>2. entry \in Entries /\ entry # None
  BY ConstantAssumption, NoneAssumption DEF Entries
<1>3. added \in [Keys -> Entries \cup {None}] /\ added[k] = entry
      /\ \A x \in Keys \ {k} : added[x] = entries[x]
  BY <1>2 DEF StoreInv, StoreTypeOK
<1>4. last \in Nat /\ head \in Nat /\ h \in Nat /\ head <= h /\ h <= last /\ tail <= last
  BY DEF StoreInv, StoreTypeOK
<1>5. DOMAIN ord \subseteq 0 .. (last - 1) /\ ord \in [DOMAIN ord -> Keys]
  BY DEF StoreInv, StoreTypeOK
<1> DEFINE gone == SlotKeys(ord, head, h)
\* Every live entry, the new one included, has a position in the queue.
<1>6. Live(added) \subseteq SlotKeys(ord, head, last)
  <2> SUFFICES ASSUME NEW x \in Live(added)
               PROVE  x \in SlotKeys(ord, head, last)
    OBVIOUS
  <2>1. CASE x \in Live(entries)
    <3>1. PICK p \in DOMAIN order : head <= p /\ p < tail /\ order[p] = x
      BY <2>1 DEF StoreInv, LiveHasSlot, SlotKeys
    <3>2. p \in DOMAIN ord /\ ord[p] = x /\ p < last
      BY <3>1 DEF StoreInv, StoreTypeOK
    <3> QED
      BY <3>1, <3>2 DEF SlotKeys
  <2>2. CASE x \notin Live(entries)
    <3>1. x = k /\ entries[k] = None
      BY <2>2, <1>3 DEF Live
    <3>2. tail \in DOMAIN ord /\ ord[tail] = k /\ head <= tail /\ tail < last
      BY <3>1 DEF StoreInv, StoreTypeOK
    <3> QED
      BY <3>1, <3>2 DEF SlotKeys
  <2> QED
    BY <2>1, <2>2
<1>7. Live(entries') = Live(added) \ gone
  BY <1>1, <1>3 DEF Live
<1> HIDE DEF added, last, ord, entry, gone, cleared, indexed
<1>8. Live(entries') \subseteq SlotKeys(ord, h, last)
  BY <1>4, <1>5, <1>6, <1>7 DEF SlotKeys, gone
<1>9. /\ DOMAIN order' \subseteq 0 .. (last - 1)
      /\ order' \in [DOMAIN order' -> Keys]
      /\ Live(entries') \cap SlotKeys(ord, h, last) \subseteq SlotKeys(order', h, last)
  <2> DEFINE live == Live(entries')
  <2>1. live \in SUBSET Keys /\ order' = Compact(ord, h, live)
    BY <1>1 DEF Live
  <2> HIDE DEF live
  <2> QED
    BY <2>1, <1>4, <1>5, CompactKeepsLive DEF live
<1>10. LiveHasSlot'
  BY <1>1, <1>8, <1>9 DEF LiveHasSlot
<1>11. StoreTypeOK'
  <2>1. entries' \in [Keys -> Entries \cup {None}]
    BY <1>1, <1>3
  <2>2. tagged' \in [Tags -> SUBSET Keys]
    BY <1>1 DEF indexed, cleared, Untagged, StoreInv, StoreTypeOK
  <2> QED
    BY <1>1, <1>4, <1>9, <2>1, <2>2 DEF StoreTypeOK
<1>12. TagIndexExact'
  <2>1. \A t \in Tags : indexed[t] = {x \in Live(added) : t \in added[x].tags}
    BY <1>2, <1>3 DEF indexed, cleared, Untagged, StoreInv, TagIndexExact, Live, StoreTypeOK, entry
  <2>2. \A t \in Tags : tagged'[t] = indexed[t] \ {x \in gone : added[x] # None /\ t \in added[x].tags}
    BY <1>1 DEF Untagged, gone
  <2>3. \A x \in Live(entries') : entries'[x] = added[x]
    BY <1>1, <1>3, <1>7 DEF Live, gone
  <2> QED
    BY <1>7, <2>1, <2>2, <2>3 DEF TagIndexExact, Live
<1>13. EntriesBounded'
  <2>1. CASE Fits(added, ord, h)
    BY ConstantAssumption, <2>1, <1>7 DEF Fits, EntriesBounded, gone
  <2>2. CASE h = last
    <3>1. Live(entries') = {}
      BY <2>2, <1>6, <1>7 DEF gone
    <3> QED
      BY ConstantAssumption, <3>1, FS_EmptySet DEF EntriesBounded
  <2> QED
    BY <1>1, <2>1, <2>2
<1> QED
  BY <1>10, <1>11, <1>12, <1>13 DEF StoreInv

LEMMA StoreUnchanged ==
    ASSUME StoreInv, UNCHANGED store
    PROVE  StoreInv'
BY DEF store, StoreInv, StoreTypeOK, TagIndexExact, LiveHasSlot, EntriesBounded, SlotKeys, Live

-----------------------------------------------------------------------------
(* Callers and flights: who refers to what.                                 *)

ControlTypeOK ==
    /\ flights \in [Keys -> FlightIds \cup {None}]
    /\ flight \in [FlightIds -> FlightRecords]
    /\ caller \in [Callers -> CallerRecords]
    /\ background \in [Callers -> [key : Keys, id : Ids] \cup {None}]
    /\ now \in Nat /\ upstream \in [Ids -> Nat] /\ calls \in Nat /\ floor \in [Keys -> Nat]

\* A call under way is on its own reader's key, and waits on a flight of that key.
CallsOwnKey ==
    \A c \in Callers :
        /\ caller[c].pc # "idle" =>
             Storable(c) /\ caller[c].id \in Ids /\ caller[c].key = KeyOf(c, caller[c].id)
        /\ caller[c].pc = "wait" =>
             /\ caller[c].flight \in FlightIds
             /\ flight[caller[c].flight].pc # "free"
             /\ flight[caller[c].flight].key = caller[c].key
        /\ background[c] # None =>
             Storable(c) /\ background[c].key = KeyOf(c, background[c].id)

\* A flight was made for a key, and one that fetched holds a value.
FlightsFormed ==
    \A f \in FlightIds : flight[f].pc # "free" =>
        /\ flight[f].key \in Keys /\ flight[f].id \in Ids
        /\ flight[f].reader \in Subjects \cup {Anonymous} /\ flight[f].type \in Types
        /\ flight[f].pc = "store" => flight[f].value \in Values

\* The map of flights holds the flights under way, each under its key.
FlightsRegistered ==
    /\ \A f \in FlightIds : flight[f].pc \in Flying => flights[flight[f].key] = f
    /\ \A k \in Keys : flights[k] # None =>
         flight[flights[k]].pc \in Flying /\ flight[flights[k]].key = k

ControlInv == StoreInv /\ ControlTypeOK /\ CallsOwnKey /\ FlightsFormed /\ FlightsRegistered

\* A caller that has a key at all has one of the store's keys.
LEMMA KeyOfType ==
    ASSUME NEW c \in Callers, NEW id \in Ids, Storable(c)
    PROVE  KeyOf(c, id) \in Keys /\ (Scoped => KeyOf(c, id)[1] = SubjectOf[c])
BY ConstantAssumption DEF KeyOf, Keys, Scopes, Storable

LEMMA ControlInit == Init => ControlInv
<1> SUFFICES ASSUME Init PROVE ControlInv
  OBVIOUS
<1> USE DEF Init
<1>1. StoreTypeOK
  BY DEF StoreTypeOK
<1>2. Live(entries) = {}
  BY DEF Live
<1>3. TagIndexExact /\ LiveHasSlot
  BY <1>2 DEF TagIndexExact, LiveHasSlot
<1>4. EntriesBounded
  <2>1. Cardinality(Live(entries)) = 0
    BY <1>2, FS_EmptySet
  <2> QED
    BY ONLY ConstantAssumption, <2>1 DEF EntriesBounded
<1>5. ControlTypeOK
  BY DEF ControlTypeOK, FlightRecords, CallerRecords, FreeFlight, IdleCaller, FlightPC, CallerPC
<1>6. CallsOwnKey /\ FlightsFormed /\ FlightsRegistered
  BY DEF CallsOwnKey, FlightsFormed, FlightsRegistered, FreeFlight, IdleCaller, Flying
<1> QED
  BY <1>1, <1>3, <1>4, <1>5, <1>6 DEF ControlInv, StoreInv

LEMMA GetBypassControl ==
    ASSUME ControlInv, NEW c \in Callers, NEW id \in Ids, GetBypass(c, id)
    PROVE  ControlInv'
<1> USE DEF ControlInv, GetBypass
<1>1. StoreInv'
  BY StoreUnchanged DEF store
<1>2. ControlTypeOK'
  <2>1. caller' \in [Callers -> CallerRecords]
    BY ConstantAssumption DEF ControlTypeOK, CallerRecords, CallerPC, IdleCaller, Enter, Return, Current, Values
  <2>2. calls' \in Nat
    BY DEF ControlTypeOK, Enter
  <2> QED
    BY <2>1, <2>2 DEF ControlTypeOK
<1>3. CallsOwnKey'
  BY DEF CallsOwnKey, ControlTypeOK, CallerRecords, IdleCaller, Enter, Return
<1>4. FlightsFormed'
  BY DEF FlightsFormed
<1>5. FlightsRegistered'
  BY DEF FlightsRegistered
<1> QED
  BY <1>1, <1>2, <1>3, <1>4, <1>5

LEMMA GetReadControl ==
    ASSUME ControlInv, NEW c \in Callers, NEW id \in Ids, GetRead(c, id)
    PROVE  ControlInv'
<1> USE DEF ControlInv, GetRead
<1>1. StoreInv'
  BY StoreUnchanged DEF store
<1>2. ControlTypeOK'
  <2>1. caller' \in [Callers -> CallerRecords]
    <3> DEFINE k == KeyOf(c, id)
    <3>1. k \in Keys
      BY KeyOfType
    <3>2. entries[k] # None => entries[k].value \in Values
      BY <3>1 DEF StoreInv, StoreTypeOK, Entries
    <3> HIDE DEF k
    <3>3. caller'[c] \in CallerRecords
      BY <3>1, <3>2 DEF ControlTypeOK, CallerRecords, CallerPC, IdleCaller, PastStale, IsFresh, k
    <3> QED
      BY <3>3 DEF ControlTypeOK
  <2>2. calls' \in Nat
    BY DEF ControlTypeOK, Enter
  <2> QED
    BY <2>1, <2>2 DEF ControlTypeOK
<1>3. CallsOwnKey'
  BY KeyOfType DEF CallsOwnKey, ControlTypeOK, CallerRecords, IdleCaller, Enter
<1>4. FlightsFormed'
  BY DEF FlightsFormed
<1>5. FlightsRegistered'
  BY DEF FlightsRegistered
<1> QED
  BY <1>1, <1>2, <1>3, <1>4, <1>5

LEMMA HasReadControl ==
    ASSUME ControlInv, NEW c \in Callers, NEW id \in Ids, HasRead(c, id)
    PROVE  ControlInv'
<1> USE DEF ControlInv, HasRead
<1>1. StoreInv'
  BY StoreUnchanged DEF store
<1>2. ControlTypeOK'
  <2>1. caller' \in [Callers -> CallerRecords]
    BY KeyOfType DEF ControlTypeOK, CallerRecords, CallerPC, IdleCaller
  <2>2. calls' \in Nat
    BY DEF ControlTypeOK, Enter
  <2> QED
    BY <2>1, <2>2 DEF ControlTypeOK
<1>3. CallsOwnKey'
  BY KeyOfType DEF CallsOwnKey, ControlTypeOK, CallerRecords, IdleCaller, Enter
<1>4. FlightsFormed'
  BY DEF FlightsFormed
<1>5. FlightsRegistered'
  BY DEF FlightsRegistered
<1> QED
  BY <1>1, <1>2, <1>3, <1>4, <1>5

LEMMA GetExpireControl ==
    ASSUME ControlInv, NEW c \in Callers, GetExpire(c)
    PROVE  ControlInv'
<1> USE DEF ControlInv, GetExpire
<1>1. StoreInv'
  BY RemoveExpiredPreserves
<1>2. ControlTypeOK'
  BY DEF ControlTypeOK, CallerRecords, CallerPC, IdleCaller, Step
<1>3. CallsOwnKey'
  BY DEF CallsOwnKey, ControlTypeOK, CallerRecords, IdleCaller, Step
<1>4. FlightsFormed'
  BY DEF FlightsFormed
<1>5. FlightsRegistered'
  BY DEF FlightsRegistered
<1> QED
  BY <1>1, <1>2, <1>3, <1>4, <1>5

LEMMA GetDropControl ==
    ASSUME ControlInv, NEW c \in Callers, GetDrop(c)
    PROVE  ControlInv'
<1> USE DEF ControlInv, GetDrop
<1>1. StoreInv'
  BY DeletePreserves
<1>2. ControlTypeOK'
  BY DEF ControlTypeOK, CallerRecords, CallerPC, IdleCaller, Step
<1>3. CallsOwnKey'
  BY DEF CallsOwnKey, ControlTypeOK, CallerRecords, IdleCaller, Step
<1>4. FlightsFormed'
  BY DEF FlightsFormed
<1>5. FlightsRegistered'
  BY DEF FlightsRegistered
<1> QED
  BY <1>1, <1>2, <1>3, <1>4, <1>5

LEMMA GetRevalidateControl ==
    ASSUME ControlInv, NEW c \in Callers, GetRevalidate(c)
    PROVE  ControlInv'
<1> USE DEF ControlInv, GetRevalidate
<1>1. StoreInv'
  BY StoreUnchanged DEF store
<1>2. ControlTypeOK'
  BY KeyOfType DEF ControlTypeOK, CallerRecords, CallerPC, IdleCaller, Return, CallsOwnKey
<1>3. CallsOwnKey'
  BY DEF CallsOwnKey, ControlTypeOK, CallerRecords, IdleCaller, Return
<1>4. FlightsFormed'
  BY DEF FlightsFormed
<1>5. FlightsRegistered'
  BY DEF FlightsRegistered
<1> QED
  BY <1>1, <1>2, <1>3, <1>4, <1>5

LEMMA DoJoinControl ==
    ASSUME ControlInv, NEW c \in Callers, DoJoin(c)
    PROVE  ControlInv'
<1> USE DEF ControlInv, DoJoin
<1>1. StoreInv'
  BY StoreUnchanged DEF store
<1>2. ControlTypeOK'
  <2>1. flights[caller[c].key] \in FlightIds
    BY KeyOfType DEF ControlTypeOK, CallerRecords, CallsOwnKey
  <2>2. caller' = [caller EXCEPT ![c] = [caller[c] EXCEPT !.pc = "wait", !.flight = flights[caller[c].key]]]
    BY DEF ControlTypeOK, CallerRecords
  <2>3. [caller[c] EXCEPT !.pc = "wait", !.flight = flights[caller[c].key]] \in CallerRecords
    BY <2>1 DEF ControlTypeOK, CallerRecords, CallerPC
  <2> QED
    BY <2>2, <2>3 DEF ControlTypeOK
<1>3. CallsOwnKey'
  BY NoneAssumption, KeyOfType DEF CallsOwnKey, ControlTypeOK, CallerRecords, IdleCaller, FlightsRegistered, Flying
<1>4. FlightsFormed'
  BY DEF FlightsFormed
<1>5. FlightsRegistered'
  BY DEF FlightsRegistered
<1> QED
  BY <1>1, <1>2, <1>3, <1>4, <1>5

LEMMA WaitDoneControl ==
    ASSUME ControlInv, NEW c \in Callers, WaitDone(c)
    PROVE  ControlInv'
<1> USE DEF ControlInv, WaitDone
<1>1. StoreInv'
  BY StoreUnchanged DEF store
<1>2. ControlTypeOK'
  BY DEF ControlTypeOK, CallerRecords, CallerPC, IdleCaller, Return, CallsOwnKey, FlightRecords
<1>3. CallsOwnKey'
  BY DEF CallsOwnKey, ControlTypeOK, CallerRecords, IdleCaller, Return
<1>4. FlightsFormed'
  BY DEF FlightsFormed
<1>5. FlightsRegistered'
  BY DEF FlightsRegistered
<1> QED
  BY <1>1, <1>2, <1>3, <1>4, <1>5

LEMMA WaitCancelledControl ==
    ASSUME ControlInv, NEW c \in Callers, WaitCancelled(c)
    PROVE  ControlInv'
<1> USE DEF ControlInv, WaitCancelled
<1>1. StoreInv'
  BY StoreUnchanged DEF store
<1>2. ControlTypeOK'
  BY DEF ControlTypeOK, CallerRecords, CallerPC, IdleCaller, Return
<1>3. CallsOwnKey'
  BY DEF CallsOwnKey, ControlTypeOK, CallerRecords, IdleCaller, Return
<1>4. FlightsFormed'
  BY DEF FlightsFormed
<1>5. FlightsRegistered'
  BY DEF FlightsRegistered
<1> QED
  BY <1>1, <1>2, <1>3, <1>4, <1>5

LEMMA SetControl ==
    ASSUME ControlInv, NEW c \in Callers, NEW id \in Ids, Set(c, id)
    PROVE  ControlInv'
<1> USE DEF ControlInv, Set
<1>a. KeyOf(c, id) \in Keys /\ Current(c, id) \in Values /\ TagsOf[c][id] \in SUBSET Tags
  BY ConstantAssumption, KeyOfType DEF Current, Values, ControlTypeOK
<1>1. StoreInv'
  BY <1>a, PutPreserves DEF ControlTypeOK
<1>2. ControlTypeOK'
  BY DEF ControlTypeOK, Enter
<1>3. CallsOwnKey'
  BY DEF CallsOwnKey
<1>4. FlightsFormed'
  BY DEF FlightsFormed
<1>5. FlightsRegistered'
  BY DEF FlightsRegistered
<1> QED
  BY <1>1, <1>2, <1>3, <1>4, <1>5

LEMMA InvalidateControl ==
    ASSUME ControlInv, NEW c \in Callers, NEW id \in Ids, Invalidate(c, id)
    PROVE  ControlInv'
<1> USE DEF ControlInv, Invalidate
<1>1. StoreInv'
  BY DeletePreserves
<1>2. ControlTypeOK'
  BY KeyOfType DEF ControlTypeOK, Enter
<1>3. CallsOwnKey'
  BY DEF CallsOwnKey
<1>4. FlightsFormed'
  BY DEF FlightsFormed
<1>5. FlightsRegistered'
  BY DEF FlightsRegistered
<1> QED
  BY <1>1, <1>2, <1>3, <1>4, <1>5

LEMMA InvalidateScopeControl ==
    ASSUME ControlInv, NEW c \in Callers, NEW scope \in Subjects, InvalidateScope(c, scope)
    PROVE  ControlInv'
<1> USE DEF ControlInv, InvalidateScope
<1>1. StoreInv'
  BY DeletePrefixPreserves
<1>2. ControlTypeOK'
  BY DEF ControlTypeOK, Enter
<1>3. CallsOwnKey'
  BY DEF CallsOwnKey
<1>4. FlightsFormed'
  BY DEF FlightsFormed
<1>5. FlightsRegistered'
  BY DEF FlightsRegistered
<1> QED
  BY <1>1, <1>2, <1>3, <1>4, <1>5

LEMMA InvalidateTagControl ==
    ASSUME ControlInv, NEW c \in Callers, NEW tag \in Tags, InvalidateTag(c, tag)
    PROVE  ControlInv'
<1> USE DEF ControlInv, InvalidateTag
<1>1. StoreInv'
  BY DeleteTagPreserves
<1>2. ControlTypeOK'
  BY DEF ControlTypeOK, Enter
<1>3. CallsOwnKey'
  BY DEF CallsOwnKey
<1>4. FlightsFormed'
  BY DEF FlightsFormed
<1>5. FlightsRegistered'
  BY DEF FlightsRegistered
<1> QED
  BY <1>1, <1>2, <1>3, <1>4, <1>5

LEMMA UpstreamWriteControl ==
    ASSUME ControlInv, NEW id \in Ids, UpstreamWrite(id)
    PROVE  ControlInv'
<1> USE DEF ControlInv, UpstreamWrite
<1>1. StoreInv'
  BY StoreUnchanged DEF store
<1>2. ControlTypeOK'
  BY DEF ControlTypeOK
<1>3. CallsOwnKey'
  BY DEF CallsOwnKey
<1>4. FlightsFormed'
  BY DEF FlightsFormed
<1>5. FlightsRegistered'
  BY DEF FlightsRegistered
<1> QED
  BY <1>1, <1>2, <1>3, <1>4, <1>5

LEMMA TickControl ==
    ASSUME ControlInv, Tick
    PROVE  ControlInv'
<1> USE DEF ControlInv, Tick
<1>1. StoreInv'
  BY StoreUnchanged DEF store
<1>2. ControlTypeOK'
  BY DEF ControlTypeOK
<1>3. CallsOwnKey'
  BY DEF CallsOwnKey
<1>4. FlightsFormed'
  BY DEF FlightsFormed
<1>5. FlightsRegistered'
  BY DEF FlightsRegistered
<1> QED
  BY <1>1, <1>2, <1>3, <1>4, <1>5

\* LoadOrStore of a flight nobody refers to any more.
LEMMA RegisterControl ==
    ASSUME ControlInv, NEW c \in Callers, NEW id \in Ids, NEW f \in FlightIds,
           Storable(c), Register(c, KeyOf(c, id), id, f)
    PROVE  /\ flights' \in [Keys -> FlightIds \cup {None}]
           /\ flight' \in [FlightIds -> FlightRecords]
           /\ FlightsFormed'
           /\ FlightsRegistered'
           /\ flight'[f].key = KeyOf(c, id) /\ flight'[f].pc = "check"
           /\ \A g \in FlightIds \ {f} : flight'[g] = flight[g]
<1> DEFINE k == KeyOf(c, id)
           fl == [pc |-> "check", key |-> k, id |-> id, tags |-> TagsOf[c][id],
                  reader |-> SubjectOf[c], type |-> TypeOf[c], value |-> None]
<1>1. k \in Keys
  BY KeyOfType
<1>2. fl \in FlightRecords /\ fl.pc = "check" /\ fl.key = k /\ fl.id = id
      /\ fl.reader = SubjectOf[c] /\ fl.type = TypeOf[c]
  <2>1. /\ TagsOf[c][id] \in SUBSET Tags /\ SubjectOf[c] \in Subjects \cup {Anonymous, None}
        /\ TypeOf[c] \in Types \cup {None}
    BY ConstantAssumption
  <2> QED
    BY <1>1, <2>1 DEF FlightRecords, FlightPC
<1>3. /\ flights[k] = None /\ flight[f].pc \in {"free", "closed"}
      /\ flights' = [flights EXCEPT ![k] = f]
      /\ flight' = [flight EXCEPT ![f] = fl]
  BY DEF Register, Unreferenced
<1> HIDE DEF k, fl
<1>4. flight'[f] = fl /\ \A g \in FlightIds \ {f} : flight'[g] = flight[g]
  BY <1>3 DEF ControlInv, ControlTypeOK
<1>5. flights' \in [Keys -> FlightIds \cup {None}] /\ flight' \in [FlightIds -> FlightRecords]
  BY <1>2, <1>3 DEF ControlInv, ControlTypeOK
<1>6. FlightsFormed'
  BY <1>1, <1>2, <1>4, ConstantAssumption DEF ControlInv, FlightsFormed
<1>7. FlightsRegistered'
  <2>1. ASSUME NEW g \in FlightIds, flight'[g].pc \in Flying
        PROVE  flights'[flight'[g].key] = g
    <3>1. CASE g = f
      BY <3>1, <1>1, <1>2, <1>3, <1>4 DEF ControlInv, ControlTypeOK
    <3>2. CASE g # f
      <4>1. flights[flight[g].key] = g /\ flight[g].key \in Keys
        BY <3>2, <2>1, <1>4 DEF ControlInv, FlightsRegistered, FlightsFormed, Flying
      <4>2. flight[g].key # k
        BY <4>1, <1>3, NoneAssumption
      <4> QED
        BY <4>1, <4>2, <3>2, <1>3, <1>4 DEF ControlInv, ControlTypeOK
    <3> QED
      BY <3>1, <3>2
  <2>2. ASSUME NEW x \in Keys, flights'[x] # None
        PROVE  flight'[flights'[x]].pc \in Flying /\ flight'[flights'[x]].key = x
    <3>1. CASE x = k
      BY <3>1, <1>2, <1>3, <1>4 DEF ControlInv, ControlTypeOK, Flying
    <3>2. CASE x # k
      <4>1. flights'[x] = flights[x] /\ flights[x] \in FlightIds
        BY <3>2, <2>2, <1>3 DEF ControlInv, ControlTypeOK
      <4>2. flight[flights[x]].pc \in Flying /\ flight[flights[x]].key = x
        BY <4>1, <2>2 DEF ControlInv, FlightsRegistered
      <4>3. flights[x] # f
        BY <4>2, <1>3 DEF Flying
      <4> QED
        BY <4>1, <4>2, <4>3, <1>4
    <3> QED
      BY <3>1, <3>2
  <2> QED
    BY <2>1, <2>2 DEF FlightsRegistered
<1> QED
  BY <1>2, <1>4, <1>5, <1>6, <1>7 DEF k

LEMMA DoStartControl ==
    ASSUME ControlInv, NEW c \in Callers, DoStart(c)
    PROVE  ControlInv'
<1>1. StoreInv'
  BY StoreUnchanged DEF ControlInv, DoStart
<1>2. PICK f \in FlightIds :
          /\ Register(c, caller[c].key, caller[c].id, f)
          /\ caller' = [caller EXCEPT ![c].pc = "wait", ![c].flight = f]
  BY DEF DoStart
<1>3. Storable(c) /\ caller[c].id \in Ids /\ caller[c].key = KeyOf(c, caller[c].id)
  BY DEF DoStart, ControlInv, CallsOwnKey
<1>4. /\ flights' \in [Keys -> FlightIds \cup {None}]
      /\ flight' \in [FlightIds -> FlightRecords]
      /\ FlightsFormed' /\ FlightsRegistered'
      /\ flight'[f].key = caller[c].key /\ flight'[f].pc = "check"
      /\ \A g \in FlightIds \ {f} : flight'[g] = flight[g]
  BY <1>2, <1>3, RegisterControl
<1>5. ControlTypeOK'
  <2>1. caller' \in [Callers -> CallerRecords]
    <3>1. caller' = [caller EXCEPT ![c] = [caller[c] EXCEPT !.pc = "wait", !.flight = f]]
      BY <1>2 DEF ControlInv, ControlTypeOK, CallerRecords
    <3>2. [caller[c] EXCEPT !.pc = "wait", !.flight = f] \in CallerRecords
      BY DEF ControlInv, ControlTypeOK, CallerRecords, CallerPC
    <3> QED
      BY <3>1, <3>2 DEF ControlInv, ControlTypeOK
  <2> QED
    BY <1>4, <2>1 DEF ControlInv, ControlTypeOK, DoStart
<1>6. CallsOwnKey'
  <2> SUFFICES ASSUME NEW d \in Callers
               PROVE  /\ caller'[d].pc # "idle" =>
                           Storable(d) /\ caller'[d].id \in Ids /\ caller'[d].key = KeyOf(d, caller'[d].id)
                      /\ caller'[d].pc = "wait" =>
                           /\ caller'[d].flight \in FlightIds
                           /\ flight'[caller'[d].flight].pc # "free"
                           /\ flight'[caller'[d].flight].key = caller'[d].key
                      /\ background'[d] # None =>
                           Storable(d) /\ background'[d].key = KeyOf(d, background'[d].id)
    BY DEF CallsOwnKey
  <2>0. background' = background
    BY DEF DoStart
  <2>1. CASE d = c
    BY <2>0, <2>1, <1>2, <1>3, <1>4 DEF ControlInv, ControlTypeOK, CallsOwnKey, CallerRecords
  <2>2. CASE d # c
    <3>1. caller'[d] = caller[d] /\ caller[d].flight # f
      BY <2>2, <1>2 DEF ControlInv, ControlTypeOK, Register, Unreferenced
    <3> QED
      BY <2>0, <3>1, <1>4 DEF ControlInv, CallsOwnKey
  <2> QED
    BY <2>1, <2>2
<1> QED
  BY <1>1, <1>4, <1>5, <1>6 DEF ControlInv

LEMMA DoBackgroundControl ==
    ASSUME ControlInv, NEW c \in Callers, DoBackground(c)
    PROVE  ControlInv'
<1>1. StoreInv'
  BY StoreUnchanged DEF ControlInv, DoBackground
<1>2. CASE flights[background[c].key] = None
  <2>1. PICK f \in FlightIds : Register(c, background[c].key, background[c].id, f)
    BY <1>2 DEF DoBackground
  <2>2. Storable(c) /\ background[c].id \in Ids /\ background[c].key = KeyOf(c, background[c].id)
    BY DEF DoBackground, ControlInv, CallsOwnKey, ControlTypeOK
  <2>3. /\ flights' \in [Keys -> FlightIds \cup {None}]
        /\ flight' \in [FlightIds -> FlightRecords]
        /\ FlightsFormed' /\ FlightsRegistered'
        /\ \A g \in FlightIds \ {f} : flight'[g] = flight[g]
    BY <2>1, <2>2, RegisterControl
  <2>4. ControlTypeOK'
    BY <2>3 DEF ControlInv, ControlTypeOK, DoBackground
  <2>5. \A d \in Callers : caller[d].flight # f
    BY <2>1 DEF Register, Unreferenced
  <2>6. CallsOwnKey'
    BY <2>3, <2>5 DEF ControlInv, CallsOwnKey, DoBackground, ControlTypeOK
  <2> QED
    BY <1>1, <2>3, <2>4, <2>6 DEF ControlInv
<1>3. CASE flights[background[c].key] # None
  <2>1. UNCHANGED <<flights, flight>>
    BY <1>3 DEF DoBackground
  <2>2. ControlTypeOK'
    BY <2>1 DEF ControlInv, ControlTypeOK, DoBackground
  <2>3. CallsOwnKey'
    BY <2>1 DEF ControlInv, CallsOwnKey, DoBackground, ControlTypeOK
  <2>4. FlightsFormed' /\ FlightsRegistered'
    BY <2>1 DEF ControlInv, FlightsFormed, FlightsRegistered
  <2> QED
    BY <1>1, <2>2, <2>3, <2>4 DEF ControlInv
<1> QED
  BY <1>2, <1>3

\* A step inside a flight leaves it under way and under its key, and the map alone.
SameFlights ==
    /\ flights' = flights
    /\ \A g \in FlightIds : flight'[g].key = flight[g].key
    /\ \A g \in FlightIds : (flight'[g].pc \in Flying) <=> (flight[g].pc \in Flying)

LEMMA StillRegistered ==
    ASSUME ControlTypeOK, FlightsRegistered, SameFlights
    PROVE  FlightsRegistered'
<1>1. ASSUME NEW g \in FlightIds, flight'[g].pc \in Flying
      PROVE  flights'[flight'[g].key] = g
  <2>1. flight[g].pc \in Flying /\ flight'[g].key = flight[g].key /\ flights' = flights
    BY <1>1 DEF SameFlights
  <2>2. flights[flight[g].key] = g
    BY <2>1 DEF FlightsRegistered
  <2> QED
    BY <2>1, <2>2
<1>2. ASSUME NEW k \in Keys, flights'[k] # None
      PROVE  flight'[flights'[k]].pc \in Flying /\ flight'[flights'[k]].key = k
  <2>1. flights'[k] = flights[k] /\ flights[k] \in FlightIds
    BY <1>2 DEF ControlTypeOK, SameFlights
  <2>2. flight[flights[k]].pc \in Flying /\ flight[flights[k]].key = k
    BY <1>2, <2>1 DEF FlightsRegistered
  <2> QED
    BY <2>1, <2>2 DEF SameFlights
<1> QED
  BY <1>1, <1>2 DEF FlightsRegistered

LEMMA FlightCheckControl ==
    ASSUME ControlInv, NEW f \in FlightIds, FlightCheck(f)
    PROVE  ControlInv'
<1> USE DEF ControlInv, FlightCheck, FlightStep
<1>a. IsFresh(flight[f].key) => entries[flight[f].key].value \in Values
  BY DEF IsFresh, FlightsFormed, StoreInv, StoreTypeOK, Entries
<1>1. StoreInv'
  BY StoreUnchanged DEF store
<1>2. ControlTypeOK'
  BY <1>a DEF ControlTypeOK, FlightRecords, FlightPC
<1>3. CallsOwnKey'
  BY DEF CallsOwnKey, ControlTypeOK, FlightRecords
<1>4. FlightsFormed'
  BY DEF FlightsFormed, ControlTypeOK, FlightRecords
<1>b. SameFlights
  <2>1. flight'[f].key = flight[f].key /\ flight'[f].pc \in Flying /\ flight[f].pc \in Flying
    BY DEF ControlTypeOK, FlightRecords, Flying
  <2>2. \A g \in FlightIds \ {f} : flight'[g] = flight[g]
    BY DEF ControlTypeOK
  <2> QED
    BY <2>1, <2>2 DEF SameFlights
<1>5. FlightsRegistered'
  BY <1>b, StillRegistered
<1> QED
  BY <1>1, <1>2, <1>3, <1>4, <1>5

LEMMA FlightExpireControl ==
    ASSUME ControlInv, NEW f \in FlightIds, FlightExpire(f)
    PROVE  ControlInv'
<1> USE DEF ControlInv, FlightExpire, FlightStep
<1>1. StoreInv'
  BY RemoveExpiredPreserves
<1>2. ControlTypeOK'
  BY DEF ControlTypeOK, FlightRecords, FlightPC
<1>3. CallsOwnKey'
  BY DEF CallsOwnKey, ControlTypeOK, FlightRecords
<1>4. FlightsFormed'
  BY DEF FlightsFormed, ControlTypeOK, FlightRecords
<1>b. SameFlights
  <2>1. flight'[f].key = flight[f].key /\ flight'[f].pc \in Flying /\ flight[f].pc \in Flying
    BY DEF ControlTypeOK, FlightRecords, Flying
  <2>2. \A g \in FlightIds \ {f} : flight'[g] = flight[g]
    BY DEF ControlTypeOK
  <2> QED
    BY <2>1, <2>2 DEF SameFlights
<1>5. FlightsRegistered'
  BY <1>b, StillRegistered
<1> QED
  BY <1>1, <1>2, <1>3, <1>4, <1>5

LEMMA FlightFetchControl ==
    ASSUME ControlInv, NEW f \in FlightIds, FlightFetch(f)
    PROVE  ControlInv'
<1> USE DEF ControlInv, FlightFetch, FlightStep
<1>a. [reader |-> flight[f].reader, version |-> upstream[flight[f].id], type |-> flight[f].type] \in Values
  BY DEF FlightsFormed, ControlTypeOK, Values
<1>1. StoreInv'
  BY StoreUnchanged DEF store
<1>2. ControlTypeOK'
  <2> DEFINE v == [reader |-> flight[f].reader, version |-> upstream[flight[f].id], type |-> flight[f].type]
  <2>1. v \in Values
    BY <1>a
  <2>2. flight' = [flight EXCEPT ![f] = [flight[f] EXCEPT !.pc = "store", !.value = v]]
    BY DEF ControlTypeOK, FlightRecords
  <2> HIDE DEF v
  <2>3. [flight[f] EXCEPT !.pc = "store", !.value = v] \in FlightRecords
    BY <2>1 DEF ControlTypeOK, FlightRecords, FlightPC
  <2> QED
    BY <2>2, <2>3 DEF ControlTypeOK
<1>3. CallsOwnKey'
  BY DEF CallsOwnKey, ControlTypeOK, FlightRecords
<1>4. FlightsFormed'
  BY <1>a DEF FlightsFormed, ControlTypeOK, FlightRecords
<1>b. SameFlights
  <2>1. flight'[f].key = flight[f].key /\ flight'[f].pc \in Flying /\ flight[f].pc \in Flying
    BY DEF ControlTypeOK, FlightRecords, Flying
  <2>2. \A g \in FlightIds \ {f} : flight'[g] = flight[g]
    BY DEF ControlTypeOK
  <2> QED
    BY <2>1, <2>2 DEF SameFlights
<1>5. FlightsRegistered'
  BY <1>b, StillRegistered
<1> QED
  BY <1>1, <1>2, <1>3, <1>4, <1>5

LEMMA FlightFailControl ==
    ASSUME ControlInv, NEW f \in FlightIds, FlightFail(f)
    PROVE  ControlInv'
<1> USE DEF ControlInv, FlightFail, FlightStep
<1>1. StoreInv'
  BY StoreUnchanged DEF store
<1>2. ControlTypeOK'
  BY DEF ControlTypeOK, FlightRecords, FlightPC
<1>3. CallsOwnKey'
  BY DEF CallsOwnKey, ControlTypeOK, FlightRecords
<1>4. FlightsFormed'
  BY DEF FlightsFormed, ControlTypeOK, FlightRecords
<1>b. SameFlights
  <2>1. flight'[f].key = flight[f].key /\ flight'[f].pc \in Flying /\ flight[f].pc \in Flying
    BY DEF ControlTypeOK, FlightRecords, Flying
  <2>2. \A g \in FlightIds \ {f} : flight'[g] = flight[g]
    BY DEF ControlTypeOK
  <2> QED
    BY <2>1, <2>2 DEF SameFlights
<1>5. FlightsRegistered'
  BY <1>b, StillRegistered
<1> QED
  BY <1>1, <1>2, <1>3, <1>4, <1>5

LEMMA FlightStoreControl ==
    ASSUME ControlInv, NEW f \in FlightIds, FlightStore(f)
    PROVE  ControlInv'
<1> USE DEF ControlInv, FlightStore, FlightStep
<1>a. flight[f].key \in Keys /\ flight[f].value \in Values /\ flight[f].tags \in SUBSET Tags
  BY DEF FlightsFormed, ControlTypeOK, FlightRecords
<1>1. StoreInv'
  BY <1>a, PutPreserves DEF ControlTypeOK
<1>2. ControlTypeOK'
  BY DEF ControlTypeOK, FlightRecords, FlightPC
<1>3. CallsOwnKey'
  BY DEF CallsOwnKey, ControlTypeOK, FlightRecords
<1>4. FlightsFormed'
  BY DEF FlightsFormed, ControlTypeOK, FlightRecords
<1>b. SameFlights
  <2>1. flight'[f].key = flight[f].key /\ flight'[f].pc \in Flying /\ flight[f].pc \in Flying
    BY DEF ControlTypeOK, FlightRecords, Flying
  <2>2. \A g \in FlightIds \ {f} : flight'[g] = flight[g]
    BY DEF ControlTypeOK
  <2> QED
    BY <2>1, <2>2 DEF SameFlights
<1>5. FlightsRegistered'
  BY <1>b, StillRegistered
<1> QED
  BY <1>1, <1>2, <1>3, <1>4, <1>5

LEMMA FlightDeregisterControl ==
    ASSUME ControlInv, NEW f \in FlightIds, FlightDeregister(f)
    PROVE  ControlInv'
<1> USE DEF ControlInv, FlightDeregister, FlightStep
<1>1. StoreInv'
  BY StoreUnchanged DEF store
<1>2. ControlTypeOK'
  BY DEF ControlTypeOK, FlightRecords, FlightPC
<1>3. CallsOwnKey'
  BY DEF CallsOwnKey, ControlTypeOK, FlightRecords
<1>4. FlightsFormed'
  BY DEF FlightsFormed, ControlTypeOK, FlightRecords
<1>5. FlightsRegistered'
  BY DEF FlightsRegistered, FlightsFormed, ControlTypeOK, FlightRecords, Flying
<1> QED
  BY <1>1, <1>2, <1>3, <1>4, <1>5

LEMMA FlightCloseControl ==
    ASSUME ControlInv, NEW f \in FlightIds, FlightClose(f)
    PROVE  ControlInv'
<1> USE DEF ControlInv, FlightClose, FlightStep
<1>1. StoreInv'
  BY StoreUnchanged DEF store
<1>2. ControlTypeOK'
  BY DEF ControlTypeOK, FlightRecords, FlightPC
<1>3. CallsOwnKey'
  BY DEF CallsOwnKey, ControlTypeOK, FlightRecords
<1>4. FlightsFormed'
  BY DEF FlightsFormed, ControlTypeOK, FlightRecords
<1>5. FlightsRegistered'
  BY DEF FlightsRegistered, FlightsFormed, ControlTypeOK, FlightRecords, Flying
<1> QED
  BY <1>1, <1>2, <1>3, <1>4, <1>5

LEMMA ControlStep == ControlInv /\ [Next]_vars => ControlInv'
<1> SUFFICES ASSUME ControlInv, [Next]_vars PROVE ControlInv'
  OBVIOUS
<1>1. ASSUME NEW c \in Callers, GetNext(c) PROVE ControlInv'
  BY <1>1, GetBypassControl, GetReadControl, HasReadControl, GetExpireControl, GetDropControl,
     GetRevalidateControl, DoStartControl, DoJoinControl, WaitDoneControl,
     WaitCancelledControl DEF GetNext
<1>2. ASSUME NEW c \in Callers, DoBackground(c) PROVE ControlInv'
  BY <1>2, DoBackgroundControl
<1>3. ASSUME NEW c \in Callers, WriterNext(c) PROVE ControlInv'
  BY <1>3, SetControl, InvalidateControl, InvalidateScopeControl, InvalidateTagControl
     DEF WriterNext
<1>4. ASSUME NEW f \in FlightIds, FlightNext(f) PROVE ControlInv'
  BY <1>4, FlightCheckControl, FlightExpireControl, FlightFetchControl, FlightFailControl,
     FlightStoreControl, FlightDeregisterControl, FlightCloseControl DEF FlightNext
<1>5. ASSUME NEW id \in Ids, UpstreamWrite(id) PROVE ControlInv'
  BY <1>5, UpstreamWriteControl
<1>6. CASE Tick
  BY <1>6, TickControl
<1>7. CASE UNCHANGED vars
  <2>1. StoreInv'
    BY <1>7, StoreUnchanged DEF vars, ControlInv
  <2>2. ControlTypeOK' /\ CallsOwnKey' /\ FlightsFormed' /\ FlightsRegistered'
    BY <1>7 DEF vars, ControlInv, ControlTypeOK, CallsOwnKey, FlightsFormed, FlightsRegistered
  <2> QED
    BY <2>1, <2>2 DEF ControlInv
<1> QED
  BY <1>1, <1>2, <1>3, <1>4, <1>5, <1>6, <1>7 DEF Next

LEMMA ControlAlways == Spec => []ControlInv
BY ControlInit, ControlStep, PTL DEF Spec

(* Every variable of the cache keeps its type: in particular a put always   *)
(* stores a complete entry under one of the store's keys.                   *)
THEOREM TypeCorrect == Spec => []TypeOK
<1>1. ControlInv => TypeOK
  BY DEF ControlInv, StoreInv, ControlTypeOK, TypeOK
<1> QED
  BY <1>1, ControlAlways, PTL

(* The tag index names exactly the entries carrying a tag, after any        *)
(* sequence of puts, evictions, expiries and invalidations.                 *)
THEOREM TagIndexCorrect == Spec => []TagIndexExact
<1>1. ControlInv => TagIndexExact
  BY DEF ControlInv, StoreInv
<1> QED
  BY <1>1, ControlAlways, PTL

(* Every live entry keeps a queue position eviction can still reach.        *)
THEOREM SlotsCorrect == Spec => []LiveHasSlot
<1>1. ControlInv => LiveHasSlot
  BY DEF ControlInv, StoreInv
<1> QED
  BY <1>1, ControlAlways, PTL

(* The store respects MaxEntries whatever the queue has gone through.       *)
THEOREM BoundCorrect == Spec => []EntriesBounded
<1>1. ControlInv => EntriesBounded
  BY DEF ControlInv, StoreInv
<1> QED
  BY <1>1, ControlAlways, PTL

(* No two goroutines of any number of callers ever fetch one key at once.   *)
THEOREM CoalescingCorrect == Spec => []SingleFlight
<1>1. ControlInv => SingleFlight
  BY DEF ControlInv, FlightsRegistered, SingleFlight
<1> QED
  BY <1>1, ControlAlways, PTL

-----------------------------------------------------------------------------
(* Whose values the cache holds, and when a fetch may run.                  *)

\* A private entry was made for the reader its key starts with.
EntriesOwned ==
    \A k \in Keys : entries[k] # None =>
        /\ Scoped => entries[k].value.reader = k[1]
        /\ entries[k].fresh <= entries[k].stale

\* A flight fetches on behalf of the reader of its key.
FlightsOwned ==
    \A f \in FlightIds : flight[f].pc # "free" /\ Scoped =>
        /\ flight[f].reader = flight[f].key[1]
        /\ flight[f].value # None => flight[f].value.reader = flight[f].key[1]

\* NoRedundantFetch from the moment a flight has decided to fetch.
FetchesMissing ==
    \A f \in FlightIds :
        flight[f].pc \in {"expire", "fetch", "store"} /\ IsFresh(flight[f].key)
            => entries[flight[f].key].by = "set"

DataInv == EntriesOwned /\ FlightsOwned /\ FetchesMissing /\ PrivateIsolation

\* What put does to the entries: one insertion, and removals.
LEMMA PutEffect ==
    ASSUME StoreInv, now \in Nat, NEW k \in Keys, NEW value \in Values,
           NEW tags \in SUBSET Tags, NEW by \in {"fetch", "set"}, Put(k, value, tags, by)
    PROVE  \A x \in Keys : entries'[x] # None =>
             \/ x # k /\ entries'[x] = entries[x]
             \/ /\ x = k /\ entries'[k].value = value /\ entries'[k].by = by
                /\ entries'[k].fresh = now + TTL /\ entries'[k].stale = now + TTL + Stale
<1> DEFINE entry == [value |-> value, fresh |-> now + TTL, stale |-> now + TTL + Stale,
                     tags |-> tags, by |-> by]
           added == [entries EXCEPT ![k] = entry]
           last == IF entries[k] = None THEN tail + 1 ELSE tail
           ord == [p \in DOMAIN order \cup tail .. (last - 1) |->
                     IF p = tail THEN k ELSE order[p]]
<1>1. PICK h \in head .. last :
        entries' = [x \in Keys |-> IF x \in SlotKeys(ord, head, h) THEN None ELSE added[x]]
  BY Zenon DEF Put
<1>2. added[k] = entry /\ \A x \in Keys \ {k} : added[x] = entries[x]
  BY DEF StoreInv, StoreTypeOK
<1> HIDE DEF added, last, ord
<1> QED
  BY <1>1, <1>2

\* Every other change of the entries only removes some.
EntriesShrink == \A k \in Keys : entries'[k] # None => entries'[k] = entries[k]

LEMMA RemovalsShrink ==
    ASSUME StoreInv
    PROVE  /\ \A k : RemoveExpired(k) => EntriesShrink
           /\ \A keys : Delete(keys) => EntriesShrink
           /\ \A scope : DeletePrefix(scope) => EntriesShrink
           /\ \A tag : DeleteTag(tag) => EntriesShrink
           /\ UNCHANGED store => EntriesShrink
<1>1. \A keys : RemoveLocked(keys) => EntriesShrink
  BY DEF RemoveLocked, EntriesShrink
<1>2. UNCHANGED store => EntriesShrink
  BY DEF EntriesShrink, store
<1>3. \A tag : DeleteTag(tag) => EntriesShrink
  BY DEF DeleteTag, EntriesShrink
<1> QED
  BY <1>1, <1>2, <1>3 DEF Delete, DeletePrefix, RemoveExpired

LEMMA ShrinkKeepsEntries ==
    ASSUME DataInv, EntriesShrink
    PROVE  EntriesOwned'
BY DEF DataInv, EntriesOwned, EntriesShrink

\* A step that only removes entries, lets time pass and starts no fetch.
LEMMA ShrinkKeepsFetches ==
    ASSUME DataInv, EntriesShrink, now \in Nat, now' \in Nat, now <= now',
           StoreTypeOK, FlightsFormed,
           \A f \in FlightIds : flight'[f].pc \in {"expire", "fetch", "store"} =>
             /\ flight[f].pc \in {"expire", "fetch", "store"}
             /\ flight'[f].key = flight[f].key
    PROVE  FetchesMissing'
<1> SUFFICES ASSUME NEW f \in FlightIds, flight'[f].pc \in {"expire", "fetch", "store"},
                    IsFresh(flight[f].key)'
             PROVE  entries'[flight'[f].key].by = "set"
  BY DEF FetchesMissing
<1> DEFINE k == flight[f].key
<1>1. k \in Keys /\ flight'[f].key = k /\ flight[f].pc \in {"expire", "fetch", "store"}
  BY DEF FlightsFormed
<1> HIDE DEF k
<1>2. entries'[k] # None /\ now' < entries'[k].fresh
  BY <1>1 DEF IsFresh
<1>3. entries'[k] = entries[k] /\ entries[k] # None
  BY <1>1, <1>2 DEF EntriesShrink
<1>4. entries[k].fresh \in Nat
  BY <1>1, <1>3 DEF StoreTypeOK, Entries
<1>5. IsFresh(k)
  BY <1>2, <1>3, <1>4 DEF IsFresh
<1> QED
  BY <1>1, <1>3, <1>5 DEF DataInv, FetchesMissing, k

LEMMA GetBypassData ==
    ASSUME ControlInv, DataInv, NEW c \in Callers, NEW id \in Ids, GetBypass(c, id)
    PROVE  DataInv'
<1> USE DEF ControlInv, GetBypass
<1>1. EntriesShrink
  BY RemovalsShrink
<1>2. EntriesOwned'
  BY <1>1, ShrinkKeepsEntries
<1>3. FlightsOwned'
  BY DEF DataInv, FlightsOwned
<1>4. FetchesMissing'
  <2>1. \A f \in FlightIds : flight'[f].pc \in {"expire", "fetch", "store"} =>
          flight[f].pc \in {"expire", "fetch", "store"} /\ flight'[f].key = flight[f].key
    OBVIOUS
  <2>2. now \in Nat /\ now' \in Nat /\ now <= now'
    BY DEF ControlTypeOK
  <2> QED
    BY <1>1, <2>1, <2>2, ShrinkKeepsFetches DEF StoreInv
<1>5. PrivateIsolation'
  BY DEF DataInv, PrivateIsolation, ControlTypeOK, CallerRecords, IdleCaller, Return, Current
<1> QED
  BY <1>2, <1>3, <1>4, <1>5 DEF DataInv

LEMMA GetReadData ==
    ASSUME ControlInv, DataInv, NEW c \in Callers, NEW id \in Ids, GetRead(c, id)
    PROVE  DataInv'
<1> USE DEF ControlInv, GetRead
<1>1. EntriesShrink
  BY RemovalsShrink
<1>2. EntriesOwned'
  BY <1>1, ShrinkKeepsEntries
<1>3. FlightsOwned'
  BY DEF DataInv, FlightsOwned
<1>4. FetchesMissing'
  <2>1. \A f \in FlightIds : flight'[f].pc \in {"expire", "fetch", "store"} =>
          flight[f].pc \in {"expire", "fetch", "store"} /\ flight'[f].key = flight[f].key
    OBVIOUS
  <2>2. now \in Nat /\ now' \in Nat /\ now <= now'
    BY DEF ControlTypeOK
  <2> QED
    BY <1>1, <2>1, <2>2, ShrinkKeepsFetches DEF StoreInv
<1>5. PrivateIsolation'
  <2> DEFINE k == KeyOf(c, id)
  <2>1. k \in Keys /\ (Scoped => k[1] = SubjectOf[c])
    BY KeyOfType
  <2>2. Scoped /\ entries[k] # None => entries[k].value.reader = SubjectOf[c]
    BY <2>1 DEF DataInv, EntriesOwned
  <2> HIDE DEF k
  <2>3. caller'[c].answer = None \/ (entries[k] # None /\ caller'[c].answer = entries[k].value)
    <3> DEFINE call == [IdleCaller EXCEPT !.key = k, !.id = id]
    <3>1. \/ caller'[c] = [call EXCEPT !.pc = "miss"]
          \/ caller'[c] = [call EXCEPT !.pc = "expire", !.then = "miss"]
          \/ caller'[c] = [call EXCEPT !.pc = "drop"]
          \/ entries[k] # None /\ caller'[c] = [IdleCaller EXCEPT !.answer = entries[k].value]
          \/ entries[k] # None /\ caller'[c] = [call EXCEPT !.pc = "revalidate", !.answer = entries[k].value]
      <4> HIDE DEF call
      <4> QED
        BY DEF ControlTypeOK, k, call
    <3>2. /\ [call EXCEPT !.pc = "miss"].answer = None
          /\ [call EXCEPT !.pc = "expire", !.then = "miss"].answer = None
          /\ [call EXCEPT !.pc = "drop"].answer = None
      BY DEF IdleCaller
    <3>3. \A v : [IdleCaller EXCEPT !.answer = v].answer = v
      BY DEF IdleCaller
    <3>4. \A v : [call EXCEPT !.pc = "revalidate", !.answer = v].answer = v
      BY DEF IdleCaller
    <3> HIDE DEF call
    <3> QED
      BY <3>1, <3>2, <3>3, <3>4
  <2>4. \A d \in Callers \ {c} : caller'[d] = caller[d]
    BY DEF ControlTypeOK
  <2> QED
    BY <2>2, <2>3, <2>4 DEF DataInv, PrivateIsolation
<1> QED
  BY <1>2, <1>3, <1>4, <1>5 DEF DataInv

LEMMA HasReadData ==
    ASSUME ControlInv, DataInv, NEW c \in Callers, NEW id \in Ids, HasRead(c, id)
    PROVE  DataInv'
<1> USE DEF ControlInv, HasRead
<1>1. EntriesShrink
  BY RemovalsShrink
<1>2. EntriesOwned'
  BY <1>1, ShrinkKeepsEntries
<1>3. FlightsOwned'
  BY DEF DataInv, FlightsOwned
<1>4. FetchesMissing'
  <2>1. \A f \in FlightIds : flight'[f].pc \in {"expire", "fetch", "store"} =>
          flight[f].pc \in {"expire", "fetch", "store"} /\ flight'[f].key = flight[f].key
    OBVIOUS
  <2>2. now \in Nat /\ now' \in Nat /\ now <= now'
    BY DEF ControlTypeOK
  <2> QED
    BY <1>1, <2>1, <2>2, ShrinkKeepsFetches DEF StoreInv
<1>5. PrivateIsolation'
  BY DEF DataInv, PrivateIsolation, ControlTypeOK, CallerRecords, IdleCaller
<1> QED
  BY <1>2, <1>3, <1>4, <1>5 DEF DataInv

LEMMA GetExpireData ==
    ASSUME ControlInv, DataInv, NEW c \in Callers, GetExpire(c)
    PROVE  DataInv'
<1> USE DEF ControlInv, GetExpire, Step
<1>1. EntriesShrink
  BY RemovalsShrink
<1>2. EntriesOwned'
  BY <1>1, ShrinkKeepsEntries
<1>3. FlightsOwned'
  BY DEF DataInv, FlightsOwned
<1>4. FetchesMissing'
  <2>1. \A f \in FlightIds : flight'[f].pc \in {"expire", "fetch", "store"} =>
          flight[f].pc \in {"expire", "fetch", "store"} /\ flight'[f].key = flight[f].key
    OBVIOUS
  <2>2. now \in Nat /\ now' \in Nat /\ now <= now'
    BY DEF ControlTypeOK
  <2> QED
    BY <1>1, <2>1, <2>2, ShrinkKeepsFetches DEF StoreInv
<1>5. PrivateIsolation'
  BY DEF DataInv, PrivateIsolation, ControlTypeOK, CallerRecords, IdleCaller
<1> QED
  BY <1>2, <1>3, <1>4, <1>5 DEF DataInv

LEMMA GetDropData ==
    ASSUME ControlInv, DataInv, NEW c \in Callers, GetDrop(c)
    PROVE  DataInv'
<1> USE DEF ControlInv, GetDrop, Step
<1>1. EntriesShrink
  BY RemovalsShrink
<1>2. EntriesOwned'
  BY <1>1, ShrinkKeepsEntries
<1>3. FlightsOwned'
  BY DEF DataInv, FlightsOwned
<1>4. FetchesMissing'
  <2>1. \A f \in FlightIds : flight'[f].pc \in {"expire", "fetch", "store"} =>
          flight[f].pc \in {"expire", "fetch", "store"} /\ flight'[f].key = flight[f].key
    OBVIOUS
  <2>2. now \in Nat /\ now' \in Nat /\ now <= now'
    BY DEF ControlTypeOK
  <2> QED
    BY <1>1, <2>1, <2>2, ShrinkKeepsFetches DEF StoreInv
<1>5. PrivateIsolation'
  BY DEF DataInv, PrivateIsolation, ControlTypeOK, CallerRecords, IdleCaller
<1> QED
  BY <1>2, <1>3, <1>4, <1>5 DEF DataInv

LEMMA GetRevalidateData ==
    ASSUME ControlInv, DataInv, NEW c \in Callers, GetRevalidate(c)
    PROVE  DataInv'
<1> USE DEF ControlInv, GetRevalidate, Return
<1>1. EntriesShrink
  BY RemovalsShrink
<1>2. EntriesOwned'
  BY <1>1, ShrinkKeepsEntries
<1>3. FlightsOwned'
  BY DEF DataInv, FlightsOwned
<1>4. FetchesMissing'
  <2>1. \A f \in FlightIds : flight'[f].pc \in {"expire", "fetch", "store"} =>
          flight[f].pc \in {"expire", "fetch", "store"} /\ flight'[f].key = flight[f].key
    OBVIOUS
  <2>2. now \in Nat /\ now' \in Nat /\ now <= now'
    BY DEF ControlTypeOK
  <2> QED
    BY <1>1, <2>1, <2>2, ShrinkKeepsFetches DEF StoreInv
<1>5. PrivateIsolation'
  BY DEF DataInv, PrivateIsolation, ControlTypeOK, CallerRecords, IdleCaller
<1> QED
  BY <1>2, <1>3, <1>4, <1>5 DEF DataInv

LEMMA DoJoinData ==
    ASSUME ControlInv, DataInv, NEW c \in Callers, DoJoin(c)
    PROVE  DataInv'
<1> USE DEF ControlInv, DoJoin
<1>1. EntriesShrink
  BY RemovalsShrink
<1>2. EntriesOwned'
  BY <1>1, ShrinkKeepsEntries
<1>3. FlightsOwned'
  BY DEF DataInv, FlightsOwned
<1>4. FetchesMissing'
  <2>1. \A f \in FlightIds : flight'[f].pc \in {"expire", "fetch", "store"} =>
          flight[f].pc \in {"expire", "fetch", "store"} /\ flight'[f].key = flight[f].key
    OBVIOUS
  <2>2. now \in Nat /\ now' \in Nat /\ now <= now'
    BY DEF ControlTypeOK
  <2> QED
    BY <1>1, <2>1, <2>2, ShrinkKeepsFetches DEF StoreInv
<1>5. PrivateIsolation'
  BY DEF DataInv, PrivateIsolation, ControlTypeOK, CallerRecords, IdleCaller
<1> QED
  BY <1>2, <1>3, <1>4, <1>5 DEF DataInv

LEMMA WaitDoneData ==
    ASSUME ControlInv, DataInv, NEW c \in Callers, WaitDone(c)
    PROVE  DataInv'
<1> USE DEF ControlInv, WaitDone, Return
<1>1. EntriesShrink
  BY RemovalsShrink
<1>2. EntriesOwned'
  BY <1>1, ShrinkKeepsEntries
<1>3. FlightsOwned'
  BY DEF DataInv, FlightsOwned
<1>4. FetchesMissing'
  <2>1. \A f \in FlightIds : flight'[f].pc \in {"expire", "fetch", "store"} =>
          flight[f].pc \in {"expire", "fetch", "store"} /\ flight'[f].key = flight[f].key
    OBVIOUS
  <2>2. now \in Nat /\ now' \in Nat /\ now <= now'
    BY DEF ControlTypeOK
  <2> QED
    BY <1>1, <2>1, <2>2, ShrinkKeepsFetches DEF StoreInv
<1>5. PrivateIsolation'
  <2> DEFINE f == caller[c].flight
  <2>1. f \in FlightIds /\ flight[f].pc # "free" /\ flight[f].key = caller[c].key
        /\ Storable(c) /\ caller[c].id \in Ids /\ caller[c].key = KeyOf(c, caller[c].id)
    BY DEF CallsOwnKey
  <2>2. Scoped /\ flight[f].value # None => flight[f].value.reader = SubjectOf[c]
    BY <2>1, KeyOfType DEF DataInv, FlightsOwned
  <2>3. caller'[c].answer = None \/ (flight[f].value # None /\ caller'[c].answer = flight[f].value)
    <3> DEFINE v == flight[f].value
               answer == IF v # None /\ v.type = TypeOf[c] THEN v ELSE None
    <3>1. caller'[c] = [IdleCaller EXCEPT !.answer = answer]
      BY DEF ControlTypeOK
    <3>2. answer = None \/ (v # None /\ answer = v)
      <4>1. CASE v # None /\ v.type = TypeOf[c]
        BY ONLY <4>1
      <4>2. CASE ~(v # None /\ v.type = TypeOf[c])
        BY ONLY <4>2
      <4> QED
        BY <4>1, <4>2
    <3> HIDE DEF answer, v
    <3>3. caller'[c].answer = answer
      BY <3>1 DEF IdleCaller
    <3> QED
      BY <3>2, <3>3 DEF v
  <2>4. \A d \in Callers \ {c} : caller'[d] = caller[d]
    BY DEF ControlTypeOK
  <2> QED
    BY <2>2, <2>3, <2>4 DEF DataInv, PrivateIsolation
<1> QED
  BY <1>2, <1>3, <1>4, <1>5 DEF DataInv

LEMMA WaitCancelledData ==
    ASSUME ControlInv, DataInv, NEW c \in Callers, WaitCancelled(c)
    PROVE  DataInv'
<1> USE DEF ControlInv, WaitCancelled, Return
<1>1. EntriesShrink
  BY RemovalsShrink
<1>2. EntriesOwned'
  BY <1>1, ShrinkKeepsEntries
<1>3. FlightsOwned'
  BY DEF DataInv, FlightsOwned
<1>4. FetchesMissing'
  <2>1. \A f \in FlightIds : flight'[f].pc \in {"expire", "fetch", "store"} =>
          flight[f].pc \in {"expire", "fetch", "store"} /\ flight'[f].key = flight[f].key
    OBVIOUS
  <2>2. now \in Nat /\ now' \in Nat /\ now <= now'
    BY DEF ControlTypeOK
  <2> QED
    BY <1>1, <2>1, <2>2, ShrinkKeepsFetches DEF StoreInv
<1>5. PrivateIsolation'
  BY DEF DataInv, PrivateIsolation, ControlTypeOK, CallerRecords, IdleCaller
<1> QED
  BY <1>2, <1>3, <1>4, <1>5 DEF DataInv

LEMMA InvalidateData ==
    ASSUME ControlInv, DataInv, NEW c \in Callers, NEW id \in Ids, Invalidate(c, id)
    PROVE  DataInv'
<1> USE DEF ControlInv, Invalidate
<1>1. EntriesShrink
  BY RemovalsShrink
<1>2. EntriesOwned'
  BY <1>1, ShrinkKeepsEntries
<1>3. FlightsOwned'
  BY DEF DataInv, FlightsOwned
<1>4. FetchesMissing'
  <2>1. \A f \in FlightIds : flight'[f].pc \in {"expire", "fetch", "store"} =>
          flight[f].pc \in {"expire", "fetch", "store"} /\ flight'[f].key = flight[f].key
    OBVIOUS
  <2>2. now \in Nat /\ now' \in Nat /\ now <= now'
    BY DEF ControlTypeOK
  <2> QED
    BY <1>1, <2>1, <2>2, ShrinkKeepsFetches DEF StoreInv
<1>5. PrivateIsolation'
  BY DEF DataInv, PrivateIsolation
<1> QED
  BY <1>2, <1>3, <1>4, <1>5 DEF DataInv

LEMMA InvalidateScopeData ==
    ASSUME ControlInv, DataInv, NEW c \in Callers, NEW scope \in Subjects, InvalidateScope(c, scope)
    PROVE  DataInv'
<1> USE DEF ControlInv, InvalidateScope
<1>1. EntriesShrink
  BY RemovalsShrink
<1>2. EntriesOwned'
  BY <1>1, ShrinkKeepsEntries
<1>3. FlightsOwned'
  BY DEF DataInv, FlightsOwned
<1>4. FetchesMissing'
  <2>1. \A f \in FlightIds : flight'[f].pc \in {"expire", "fetch", "store"} =>
          flight[f].pc \in {"expire", "fetch", "store"} /\ flight'[f].key = flight[f].key
    OBVIOUS
  <2>2. now \in Nat /\ now' \in Nat /\ now <= now'
    BY DEF ControlTypeOK
  <2> QED
    BY <1>1, <2>1, <2>2, ShrinkKeepsFetches DEF StoreInv
<1>5. PrivateIsolation'
  BY DEF DataInv, PrivateIsolation
<1> QED
  BY <1>2, <1>3, <1>4, <1>5 DEF DataInv

LEMMA InvalidateTagData ==
    ASSUME ControlInv, DataInv, NEW c \in Callers, NEW tag \in Tags, InvalidateTag(c, tag)
    PROVE  DataInv'
<1> USE DEF ControlInv, InvalidateTag
<1>1. EntriesShrink
  BY RemovalsShrink
<1>2. EntriesOwned'
  BY <1>1, ShrinkKeepsEntries
<1>3. FlightsOwned'
  BY DEF DataInv, FlightsOwned
<1>4. FetchesMissing'
  <2>1. \A f \in FlightIds : flight'[f].pc \in {"expire", "fetch", "store"} =>
          flight[f].pc \in {"expire", "fetch", "store"} /\ flight'[f].key = flight[f].key
    OBVIOUS
  <2>2. now \in Nat /\ now' \in Nat /\ now <= now'
    BY DEF ControlTypeOK
  <2> QED
    BY <1>1, <2>1, <2>2, ShrinkKeepsFetches DEF StoreInv
<1>5. PrivateIsolation'
  BY DEF DataInv, PrivateIsolation
<1> QED
  BY <1>2, <1>3, <1>4, <1>5 DEF DataInv

LEMMA UpstreamWriteData ==
    ASSUME ControlInv, DataInv, NEW id \in Ids, UpstreamWrite(id)
    PROVE  DataInv'
<1> USE DEF ControlInv, UpstreamWrite
<1>1. EntriesShrink
  BY RemovalsShrink
<1>2. EntriesOwned'
  BY <1>1, ShrinkKeepsEntries
<1>3. FlightsOwned'
  BY DEF DataInv, FlightsOwned
<1>4. FetchesMissing'
  <2>1. \A f \in FlightIds : flight'[f].pc \in {"expire", "fetch", "store"} =>
          flight[f].pc \in {"expire", "fetch", "store"} /\ flight'[f].key = flight[f].key
    OBVIOUS
  <2>2. now \in Nat /\ now' \in Nat /\ now <= now'
    BY DEF ControlTypeOK
  <2> QED
    BY <1>1, <2>1, <2>2, ShrinkKeepsFetches DEF StoreInv
<1>5. PrivateIsolation'
  BY DEF DataInv, PrivateIsolation
<1> QED
  BY <1>2, <1>3, <1>4, <1>5 DEF DataInv

LEMMA TickData ==
    ASSUME ControlInv, DataInv, Tick
    PROVE  DataInv'
<1> USE DEF ControlInv, Tick
<1>1. EntriesShrink
  BY RemovalsShrink
<1>2. EntriesOwned'
  BY <1>1, ShrinkKeepsEntries
<1>3. FlightsOwned'
  BY DEF DataInv, FlightsOwned
<1>4. FetchesMissing'
  <2>1. \A f \in FlightIds : flight'[f].pc \in {"expire", "fetch", "store"} =>
          flight[f].pc \in {"expire", "fetch", "store"} /\ flight'[f].key = flight[f].key
    OBVIOUS
  <2>2. now \in Nat /\ now' \in Nat /\ now <= now'
    BY DEF ControlTypeOK
  <2> QED
    BY <1>1, <2>1, <2>2, ShrinkKeepsFetches DEF StoreInv
<1>5. PrivateIsolation'
  BY DEF DataInv, PrivateIsolation
<1> QED
  BY <1>2, <1>3, <1>4, <1>5 DEF DataInv

\* A new flight fetches for its key's reader, and only checks at first.
LEMMA RegisterData ==
    ASSUME ControlInv, DataInv, UNCHANGED <<store, now>>,
           NEW c \in Callers, NEW id \in Ids, NEW f \in FlightIds,
           Storable(c), Register(c, KeyOf(c, id), id, f)
    PROVE  EntriesOwned' /\ FlightsOwned' /\ FetchesMissing'
<1> DEFINE k == KeyOf(c, id)
<1>1. Scoped => k[1] = SubjectOf[c]
  BY KeyOfType
<1>2. /\ flight'[f].pc = "check" /\ flight'[f].key = k
      /\ flight'[f].reader = SubjectOf[c] /\ flight'[f].value = None
      /\ \A g \in FlightIds \ {f} : flight'[g] = flight[g]
  BY DEF ControlInv, ControlTypeOK, Register
<1> HIDE DEF k
<1>3. EntriesShrink
  BY RemovalsShrink DEF ControlInv
<1>4. EntriesOwned'
  BY <1>3, ShrinkKeepsEntries
<1>5. FlightsOwned'
  BY <1>1, <1>2 DEF DataInv, FlightsOwned
<1>6. FetchesMissing'
  <2>1. \A g \in FlightIds : flight'[g].pc \in {"expire", "fetch", "store"} =>
          flight[g].pc \in {"expire", "fetch", "store"} /\ flight'[g].key = flight[g].key
    BY <1>2
  <2>2. now \in Nat /\ now' \in Nat /\ now <= now'
    BY DEF ControlInv, ControlTypeOK
  <2> QED
    BY <1>3, <2>1, <2>2, ShrinkKeepsFetches DEF ControlInv, StoreInv
<1> QED
  BY <1>4, <1>5, <1>6

LEMMA DoStartData ==
    ASSUME ControlInv, DataInv, NEW c \in Callers, DoStart(c)
    PROVE  DataInv'
<1>1. Storable(c) /\ caller[c].id \in Ids /\ caller[c].key = KeyOf(c, caller[c].id)
  BY DEF DoStart, ControlInv, CallsOwnKey
<1>2. EntriesOwned' /\ FlightsOwned' /\ FetchesMissing'
  BY <1>1, RegisterData DEF DoStart
<1>3. PrivateIsolation'
  BY DEF DoStart, DataInv, PrivateIsolation, ControlInv, ControlTypeOK, CallerRecords
<1> QED
  BY <1>2, <1>3 DEF DataInv

LEMMA DoBackgroundData ==
    ASSUME ControlInv, DataInv, NEW c \in Callers, DoBackground(c)
    PROVE  DataInv'
<1>1. PrivateIsolation'
  BY DEF DoBackground, DataInv, PrivateIsolation
<1>2. CASE flights[background[c].key] = None
  <2>1. Storable(c) /\ background[c].id \in Ids /\ background[c].key = KeyOf(c, background[c].id)
    BY DEF DoBackground, ControlInv, CallsOwnKey, ControlTypeOK
  <2> QED
    BY <1>1, <1>2, <2>1, RegisterData DEF DoBackground, DataInv
<1>3. CASE flights[background[c].key] # None
  BY <1>1, <1>3 DEF DoBackground, DataInv, store, EntriesOwned, FlightsOwned, FetchesMissing, IsFresh
<1> QED
  BY <1>2, <1>3

LEMMA FlightCheckData ==
    ASSUME ControlInv, DataInv, NEW f \in FlightIds, FlightCheck(f)
    PROVE  DataInv'
<1> USE DEF ControlInv, FlightCheck, FlightStep
<1>1. EntriesShrink
  BY RemovalsShrink
<1>2. EntriesOwned'
  BY <1>1, ShrinkKeepsEntries
<1>3. FlightsOwned'
  BY DEF DataInv, FlightsOwned, FlightsFormed, EntriesOwned, IsFresh, ControlTypeOK, FlightRecords
<1>4. FetchesMissing'
  <2>1. ~IsFresh(flight[f].key) \/ flight'[f].pc = "deregister"
    BY DEF ControlTypeOK, FlightRecords
  <2>2. \A g \in FlightIds : flight'[g].key = flight[g].key /\ (g # f => flight'[g] = flight[g])
    BY DEF ControlTypeOK, FlightRecords
  <2>3. entries' = entries /\ now' = now
    BY DEF store
  <2> QED
    BY <2>1, <2>2, <2>3 DEF DataInv, FetchesMissing, IsFresh
<1>5. PrivateIsolation'
  BY DEF DataInv, PrivateIsolation
<1> QED
  BY <1>2, <1>3, <1>4, <1>5 DEF DataInv

LEMMA FlightExpireData ==
    ASSUME ControlInv, DataInv, NEW f \in FlightIds, FlightExpire(f)
    PROVE  DataInv'
<1> USE DEF ControlInv, FlightExpire, FlightStep
<1>1. EntriesShrink
  BY RemovalsShrink
<1>2. EntriesOwned'
  BY <1>1, ShrinkKeepsEntries
<1>3. FlightsOwned'
  BY DEF DataInv, FlightsOwned, ControlTypeOK, FlightRecords
<1>4. FetchesMissing'
  <2>1. \A g \in FlightIds : flight'[g].pc \in {"expire", "fetch", "store"} =>
          flight[g].pc \in {"expire", "fetch", "store"} /\ flight'[g].key = flight[g].key
    BY DEF ControlTypeOK, FlightRecords
  <2>2. now \in Nat /\ now' \in Nat /\ now <= now'
    BY DEF ControlTypeOK
  <2> QED
    BY <1>1, <2>1, <2>2, ShrinkKeepsFetches DEF StoreInv
<1>5. PrivateIsolation'
  BY DEF DataInv, PrivateIsolation
<1> QED
  BY <1>2, <1>3, <1>4, <1>5 DEF DataInv

LEMMA FlightFetchData ==
    ASSUME ControlInv, DataInv, NEW f \in FlightIds, FlightFetch(f)
    PROVE  DataInv'
<1> USE DEF ControlInv, FlightFetch, FlightStep
<1>1. EntriesShrink
  BY RemovalsShrink
<1>2. EntriesOwned'
  BY <1>1, ShrinkKeepsEntries
<1>3. FlightsOwned'
  BY DEF DataInv, FlightsOwned, ControlTypeOK, FlightRecords
<1>4. FetchesMissing'
  <2>1. \A g \in FlightIds : flight'[g].pc \in {"expire", "fetch", "store"} =>
          flight[g].pc \in {"expire", "fetch", "store"} /\ flight'[g].key = flight[g].key
    BY DEF ControlTypeOK, FlightRecords
  <2>2. now \in Nat /\ now' \in Nat /\ now <= now'
    BY DEF ControlTypeOK
  <2> QED
    BY <1>1, <2>1, <2>2, ShrinkKeepsFetches DEF StoreInv
<1>5. PrivateIsolation'
  BY DEF DataInv, PrivateIsolation
<1> QED
  BY <1>2, <1>3, <1>4, <1>5 DEF DataInv

LEMMA FlightFailData ==
    ASSUME ControlInv, DataInv, NEW f \in FlightIds, FlightFail(f)
    PROVE  DataInv'
<1> USE DEF ControlInv, FlightFail, FlightStep
<1>1. EntriesShrink
  BY RemovalsShrink
<1>2. EntriesOwned'
  BY <1>1, ShrinkKeepsEntries
<1>3. FlightsOwned'
  BY DEF DataInv, FlightsOwned, ControlTypeOK, FlightRecords
<1>4. FetchesMissing'
  <2>1. \A g \in FlightIds : flight'[g].pc \in {"expire", "fetch", "store"} =>
          flight[g].pc \in {"expire", "fetch", "store"} /\ flight'[g].key = flight[g].key
    BY DEF ControlTypeOK, FlightRecords
  <2>2. now \in Nat /\ now' \in Nat /\ now <= now'
    BY DEF ControlTypeOK
  <2> QED
    BY <1>1, <2>1, <2>2, ShrinkKeepsFetches DEF StoreInv
<1>5. PrivateIsolation'
  BY DEF DataInv, PrivateIsolation
<1> QED
  BY <1>2, <1>3, <1>4, <1>5 DEF DataInv

LEMMA FlightDeregisterData ==
    ASSUME ControlInv, DataInv, NEW f \in FlightIds, FlightDeregister(f)
    PROVE  DataInv'
<1> USE DEF ControlInv, FlightDeregister, FlightStep
<1>1. EntriesShrink
  BY RemovalsShrink
<1>2. EntriesOwned'
  BY <1>1, ShrinkKeepsEntries
<1>3. FlightsOwned'
  BY DEF DataInv, FlightsOwned, ControlTypeOK, FlightRecords
<1>4. FetchesMissing'
  <2>1. \A g \in FlightIds : flight'[g].pc \in {"expire", "fetch", "store"} =>
          flight[g].pc \in {"expire", "fetch", "store"} /\ flight'[g].key = flight[g].key
    BY DEF ControlTypeOK, FlightRecords
  <2>2. now \in Nat /\ now' \in Nat /\ now <= now'
    BY DEF ControlTypeOK
  <2> QED
    BY <1>1, <2>1, <2>2, ShrinkKeepsFetches DEF StoreInv
<1>5. PrivateIsolation'
  BY DEF DataInv, PrivateIsolation
<1> QED
  BY <1>2, <1>3, <1>4, <1>5 DEF DataInv

LEMMA FlightCloseData ==
    ASSUME ControlInv, DataInv, NEW f \in FlightIds, FlightClose(f)
    PROVE  DataInv'
<1> USE DEF ControlInv, FlightClose, FlightStep
<1>1. EntriesShrink
  BY RemovalsShrink
<1>2. EntriesOwned'
  BY <1>1, ShrinkKeepsEntries
<1>3. FlightsOwned'
  BY DEF DataInv, FlightsOwned, ControlTypeOK, FlightRecords
<1>4. FetchesMissing'
  <2>1. \A g \in FlightIds : flight'[g].pc \in {"expire", "fetch", "store"} =>
          flight[g].pc \in {"expire", "fetch", "store"} /\ flight'[g].key = flight[g].key
    BY DEF ControlTypeOK, FlightRecords
  <2>2. now \in Nat /\ now' \in Nat /\ now <= now'
    BY DEF ControlTypeOK
  <2> QED
    BY <1>1, <2>1, <2>2, ShrinkKeepsFetches DEF StoreInv
<1>5. PrivateIsolation'
  BY DEF DataInv, PrivateIsolation
<1> QED
  BY <1>2, <1>3, <1>4, <1>5 DEF DataInv

\* A flight's put makes an entry fresh while no other flight of its key runs.
LEMMA FlightStoreData ==
    ASSUME ControlInv, DataInv, NEW f \in FlightIds, FlightStore(f)
    PROVE  DataInv'
<1> DEFINE k == flight[f].key
<1>1. k \in Keys /\ flight[f].value \in Values /\ flight[f].tags \in SUBSET Tags
  BY DEF FlightStore, ControlInv, FlightsFormed, ControlTypeOK, FlightRecords
<1>2. \A x \in Keys : entries'[x] # None =>
        \/ x # k /\ entries'[x] = entries[x]
        \/ /\ x = k /\ entries'[k].value = flight[f].value /\ entries'[k].by = "fetch"
           /\ entries'[k].fresh = now + TTL /\ entries'[k].stale = now + TTL + Stale
  BY <1>1, PutEffect DEF FlightStore, ControlInv, ControlTypeOK
<1>3. /\ \A g \in FlightIds : flight'[g].key = flight[g].key /\ (g # f => flight'[g] = flight[g])
      /\ flight'[f].pc = "deregister" /\ flight'[f].value = flight[f].value
      /\ flight'[f].reader = flight[f].reader
  BY DEF FlightStore, FlightStep, ControlInv, ControlTypeOK, FlightRecords
<1>4. Scoped => flight[f].value.reader = k[1]
  BY <1>1, NoneAssumption DEF FlightStore, DataInv, FlightsOwned
<1> HIDE DEF k
<1>5. EntriesOwned'
  <2>1. now \in Nat /\ now + TTL <= now + TTL + Stale
    BY ConstantAssumption DEF ControlInv, ControlTypeOK
  <2> QED
    BY <1>2, <1>4, <2>1 DEF DataInv, EntriesOwned
<1>6. FlightsOwned'
  BY <1>3 DEF DataInv, FlightsOwned, FlightStore
<1>7. FetchesMissing'
  <2> SUFFICES ASSUME NEW g \in FlightIds, flight'[g].pc \in {"expire", "fetch", "store"},
                      IsFresh(flight[g].key)'
               PROVE  entries'[flight'[g].key].by = "set"
    BY DEF FetchesMissing
  <2>1. g # f /\ flight'[g] = flight[g]
    BY <1>3
  <2>2. flight[g].key \in Keys /\ flight[g].key # k
    BY <2>1 DEF ControlInv, FlightsFormed, FlightsRegistered, FlightStore, Flying, k
  <2>3. entries'[flight[g].key] = entries[flight[g].key] /\ entries'[flight[g].key] # None
    BY <1>2, <2>1, <2>2 DEF IsFresh
  <2>4. IsFresh(flight[g].key)
    BY <2>1, <2>3 DEF IsFresh, FlightStore
  <2> QED
    BY <2>1, <2>3, <2>4 DEF DataInv, FetchesMissing
<1>8. PrivateIsolation'
  BY DEF FlightStore, DataInv, PrivateIsolation
<1> QED
  BY <1>5, <1>6, <1>7, <1>8 DEF DataInv

LEMMA SetData ==
    ASSUME ControlInv, DataInv, NEW c \in Callers, NEW id \in Ids, Set(c, id)
    PROVE  DataInv'
<1> DEFINE k == KeyOf(c, id)
<1>1. k \in Keys /\ (Scoped => k[1] = SubjectOf[c])
  BY KeyOfType DEF Set
<1>2. Current(c, id) \in Values /\ TagsOf[c][id] \in SUBSET Tags
      /\ Current(c, id).reader = SubjectOf[c]
  BY ConstantAssumption DEF Current, Values, ControlInv, ControlTypeOK
<1>3. \A x \in Keys : entries'[x] # None =>
        \/ x # k /\ entries'[x] = entries[x]
        \/ /\ x = k /\ entries'[k].value = Current(c, id) /\ entries'[k].by = "set"
           /\ entries'[k].fresh = now + TTL /\ entries'[k].stale = now + TTL + Stale
  BY <1>1, <1>2, PutEffect DEF Set, ControlInv, ControlTypeOK
<1> HIDE DEF k
<1>4. EntriesOwned'
  <2>1. now \in Nat /\ now + TTL <= now + TTL + Stale
    BY ConstantAssumption DEF ControlInv, ControlTypeOK
  <2> QED
    BY <1>1, <1>2, <1>3, <2>1 DEF DataInv, EntriesOwned
<1>5. FlightsOwned' /\ PrivateIsolation'
  BY DEF DataInv, FlightsOwned, PrivateIsolation, Set
<1>6. FetchesMissing'
  <2> SUFFICES ASSUME NEW g \in FlightIds, flight[g].pc \in {"expire", "fetch", "store"},
                      IsFresh(flight[g].key)'
               PROVE  entries'[flight[g].key].by = "set"
    BY DEF FetchesMissing, Set
  <2>1. flight[g].key \in Keys /\ entries'[flight[g].key] # None
        /\ now < entries'[flight[g].key].fresh
    BY DEF ControlInv, FlightsFormed, IsFresh, Set
  <2> QED
    BY <1>3, <2>1 DEF DataInv, FetchesMissing, IsFresh
<1> QED
  BY <1>4, <1>5, <1>6 DEF DataInv

LEMMA DataInit == Init => DataInv
BY DEF Init, DataInv, EntriesOwned, FlightsOwned, FetchesMissing, PrivateIsolation,
       FreeFlight, IdleCaller

LEMMA DataStep == ControlInv /\ DataInv /\ [Next]_vars => DataInv'
<1> SUFFICES ASSUME ControlInv, DataInv, [Next]_vars PROVE DataInv'
  OBVIOUS
<1>1. ASSUME NEW c \in Callers, GetNext(c) PROVE DataInv'
  BY <1>1, GetBypassData, GetReadData, HasReadData, GetExpireData, GetDropData,
     GetRevalidateData, DoStartData, DoJoinData, WaitDoneData, WaitCancelledData DEF GetNext
<1>2. ASSUME NEW c \in Callers, DoBackground(c) PROVE DataInv'
  BY <1>2, DoBackgroundData
<1>3. ASSUME NEW c \in Callers, WriterNext(c) PROVE DataInv'
  BY <1>3, SetData, InvalidateData, InvalidateScopeData, InvalidateTagData DEF WriterNext
<1>4. ASSUME NEW f \in FlightIds, FlightNext(f) PROVE DataInv'
  BY <1>4, FlightCheckData, FlightExpireData, FlightFetchData, FlightFailData,
     FlightStoreData, FlightDeregisterData, FlightCloseData DEF FlightNext
<1>5. ASSUME NEW id \in Ids, UpstreamWrite(id) PROVE DataInv'
  BY <1>5, UpstreamWriteData
<1>6. CASE Tick
  BY <1>6, TickData
<1>7. CASE UNCHANGED vars
  BY <1>7 DEF vars, store, DataInv, EntriesOwned, FlightsOwned, FetchesMissing,
              PrivateIsolation, IsFresh
<1> QED
  BY <1>1, <1>2, <1>3, <1>4, <1>5, <1>6, <1>7 DEF Next

LEMMA DataAlways == Spec => []DataInv
BY ControlAlways, DataInit, DataStep, PTL DEF Spec

(* A private store never answers one reader with what was fetched or set    *)
(* for another, for any number of readers, keys and concurrent calls.       *)
THEOREM IsolationCorrect == Spec => []PrivateIsolation
<1>1. DataInv => PrivateIsolation
  BY DEF DataInv
<1> QED
  BY <1>1, DataAlways, PTL

(* A running fetch never repeats one whose result is stored and fresh.      *)
THEOREM NoRedundantFetchCorrect == Spec => []NoRedundantFetch
<1>1. DataInv => NoRedundantFetch
  BY DEF DataInv, FetchesMissing, NoRedundantFetch
<1> QED
  BY <1>1, DataAlways, PTL
-----------------------------------------------------------------------------
(* How an entry may leave the store.                                        *)

\* An entry that may still answer leaves by a call, an eviction or a drop.
RemovalJustified(k) ==
    entries[k] # None /\ entries'[k] = None /\ ~PastStale(k) =>
        \/ calls' # calls
        \/ head' # head
        \/ \E c \in Callers : caller[c].pc = "drop" /\ caller[c].key = k

\* put forgets an entry only when its eviction loop passes a queue position.
LEMMA PutEvicts ==
    ASSUME StoreInv, now \in Nat, NEW k \in Keys, NEW value \in Values,
           NEW tags \in SUBSET Tags, NEW by \in {"fetch", "set"}, Put(k, value, tags, by),
           NEW x \in Keys, entries[x] # None, entries'[x] = None
    PROVE  head' # head
<1> DEFINE entry == [value |-> value, fresh |-> now + TTL, stale |-> now + TTL + Stale,
                     tags |-> tags, by |-> by]
           added == [entries EXCEPT ![k] = entry]
           last == IF entries[k] = None THEN tail + 1 ELSE tail
           ord == [p \in DOMAIN order \cup tail .. (last - 1) |->
                     IF p = tail THEN k ELSE order[p]]
<1>1. PICK h \in head .. last :
        /\ entries' = [y \in Keys |-> IF y \in SlotKeys(ord, head, h) THEN None ELSE added[y]]
        /\ head' = h
  BY Zenon DEF Put
<1>2. entry # None
  BY ConstantAssumption, NoneAssumption DEF Entries
<1>3. added[k] = entry /\ \A y \in Keys \ {k} : added[y] = entries[y]
  BY DEF StoreInv, StoreTypeOK
<1>4. DOMAIN ord \subseteq Int
  BY DEF StoreInv, StoreTypeOK
<1>5. head \in Nat
  BY DEF StoreInv, StoreTypeOK
<1> HIDE DEF added, last, ord, entry
<1>6. x \in SlotKeys(ord, head, h)
  BY <1>1, <1>2, <1>3
<1>7. PICK p \in DOMAIN ord : head <= p /\ p < h
  BY <1>6 DEF SlotKeys
<1> QED
  BY <1>1, <1>4, <1>5, <1>7

\* Every call of the API is counted.
LEMMA EnterCounts ==
    ASSUME ControlInv, NEW c \in Callers, Enter(c)
    PROVE  calls' # calls
BY DEF Enter, ControlInv, ControlTypeOK

LEMMA ExpireJustified ==
    ASSUME ControlInv, NEW k, RemoveExpired(k), NEW x \in Keys
    PROVE  RemovalJustified(x)
<1>1. CASE ~PastStale(k)
  BY <1>1 DEF RemoveExpired, store, RemovalJustified
<1>2. CASE PastStale(k)
  BY <1>2 DEF RemoveExpired, Delete, RemoveLocked, RemovalJustified
<1> QED
  BY <1>1, <1>2

LEMMA GetJustified ==
    ASSUME ControlInv, NEW c \in Callers, GetNext(c), NEW k \in Keys
    PROVE  RemovalJustified(k)
<1>1. ASSUME NEW id \in Ids, GetBypass(c, id) \/ GetRead(c, id) \/ HasRead(c, id)
      PROVE  RemovalJustified(k)
  BY <1>1 DEF GetBypass, GetRead, HasRead, store, RemovalJustified
<1>2. CASE GetExpire(c)
  BY <1>2, ExpireJustified DEF GetExpire
<1>3. CASE GetDrop(c)
  BY <1>3 DEF GetDrop, Delete, RemoveLocked, RemovalJustified
<1>4. CASE GetRevalidate(c) \/ DoStart(c) \/ DoJoin(c) \/ WaitDone(c) \/ WaitCancelled(c)
  BY <1>4 DEF GetRevalidate, DoStart, DoJoin, WaitDone, WaitCancelled, store, RemovalJustified
<1> QED
  BY <1>1, <1>2, <1>3, <1>4 DEF GetNext

LEMMA WriterJustified ==
    ASSUME ControlInv, NEW c \in Callers, WriterNext(c), NEW k \in Keys
    PROVE  RemovalJustified(k)
<1>1. Enter(c)
  BY DEF WriterNext, Set, Invalidate, InvalidateScope, InvalidateTag
<1> QED
  BY <1>1, EnterCounts DEF RemovalJustified

LEMMA FlightJustified ==
    ASSUME ControlInv, NEW f \in FlightIds, FlightNext(f), NEW k \in Keys
    PROVE  RemovalJustified(k)
<1>1. CASE FlightExpire(f)
  BY <1>1, ExpireJustified DEF FlightExpire
<1>2. CASE FlightStore(f)
  <2>1. /\ flight[f].key \in Keys /\ flight[f].value \in Values
        /\ flight[f].tags \in SUBSET Tags
    BY <1>2 DEF FlightStore, ControlInv, FlightsFormed, ControlTypeOK, FlightRecords
  <2>2. entries[k] # None /\ entries'[k] = None => head' # head
    BY <1>2, <2>1, PutEvicts DEF FlightStore, ControlInv, ControlTypeOK
  <2> QED
    BY <2>2 DEF RemovalJustified
<1>3. CASE \/ FlightCheck(f) \/ FlightFetch(f) \/ FlightFail(f)
           \/ FlightDeregister(f) \/ FlightClose(f)
  BY <1>3 DEF FlightCheck, FlightFetch, FlightFail, FlightDeregister, FlightClose,
              store, RemovalJustified
<1> QED
  BY <1>1, <1>2, <1>3 DEF FlightNext

LEMMA RemovalStep ==
    ASSUME ControlInv, [Next]_vars, NEW k \in Keys
    PROVE  RemovalJustified(k)
<1>1. ASSUME NEW c \in Callers, DoBackground(c) PROVE RemovalJustified(k)
  BY <1>1 DEF DoBackground, store, RemovalJustified
<1>2. ASSUME NEW id \in Ids, UpstreamWrite(id) PROVE RemovalJustified(k)
  BY <1>2 DEF UpstreamWrite, store, RemovalJustified
<1>3. CASE Tick
  BY <1>3 DEF Tick, store, RemovalJustified
<1>4. CASE UNCHANGED vars
  BY <1>4 DEF vars, store, RemovalJustified
<1> QED
  BY <1>1, <1>2, <1>3, <1>4, GetJustified, WriterJustified, FlightJustified DEF Next

(* An entry that may still answer leaves the store only by a call of the    *)
(* API, an eviction or a reader that cannot decode it: the goroutine that   *)
(* decided to expire a key before it took the write lock spares an entry    *)
(* that was replaced in between, whoever replaced it.                       *)
THEOREM ExpiryCorrect == Spec => OnlyDeadlinesExpire
<1>1. ControlInv /\ [Next]_vars
      => [\A k \in Keys :
            entries[k] # None /\ entries'[k] = None /\ ~PastStale(k) =>
                \/ calls' # calls
                \/ head' # head
                \/ \E c \in Callers : caller[c].pc = "drop" /\ caller[c].key = k]_vars
  BY RemovalStep DEF RemovalJustified
<1> QED
  BY <1>1, ControlAlways, PTL DEF Spec, OnlyDeadlinesExpire

=============================================================================
