--------------------------- MODULE SessionProofs ---------------------------
(* Theorems about the session, for every set of requests and slots and     *)
(* every lifetime.                                                         *)
EXTENDS Session, TLAPS

LEMMA NewStampsType == \A at \in Nat : NewStamps(at) \in Stamps
BY SessionAssumption DEF NewStamps, Stamps

LEMMA RenewedType == \A s \in Stamps, at \in Nat : Renewed(s, at) \in Stamps
<1> SUFFICES ASSUME NEW s \in Stamps, NEW at \in Nat PROVE Renewed(s, at) \in Stamps
  OBVIOUS
<1> DEFINE i == IF s.expires # 0 /\ at + IdleTimeout > s.expires
                THEN s.expires ELSE at + IdleTimeout
<1>1. i \in Nat
  BY SessionAssumption DEF Stamps
<1>2. Renewed(s, at) = [s EXCEPT !.seen = at, !.idle = i]
  BY DEF Renewed
<1> HIDE DEF i
<1> QED
  BY <1>1, <1>2 DEF Stamps

LEMMA NoStampsType == NoStamps \in Stamps
BY DEF NoStamps, Stamps

(* What load makes of a request. *)
LEMMA StaleType == \A q \in RequestRecords : Stale(q) \in RequestRecords
BY DEF Stale, RequestRecords, PC

LEMMA WithAnonType ==
    ASSUME NEW q \in RequestRecords, NEW ok \in BOOLEAN, now \in Nat,
           q.sealed # None, q.token \in Tokens
    PROVE  WithAnon(q, ok) \in RequestRecords
<1> DEFINE due == RenewalDue(q.sealed.stamps, now)
           stamps == IF due THEN Renewed(q.sealed.stamps, now) ELSE q.sealed.stamps
           sealed == [q.sealed EXCEPT !.stamps = stamps]
           out == IF due THEN [token |-> q.token, sealed |-> sealed] ELSE q.out
           final == IF ok THEN q.stamps ELSE stamps
<1>1. q.sealed \in Sealed
  BY DEF RequestRecords, Cookies
<1>2. q.sealed.stamps \in Stamps
  BY <1>1 DEF Sealed
<1>3. stamps \in Stamps
  BY <1>2, RenewedType
<1>4. sealed \in Sealed
  BY <1>1, <1>3 DEF Sealed
<1>5. out \in [token : Tokens \cup {None, Keep}, sealed : Cookies \cup {Keep}]
  BY <1>4 DEF RequestRecords, Cookies
<1>6. final \in Stamps
  BY <1>3 DEF RequestRecords
<1>7. q.sealed.slots \in SUBSET Slots
  BY <1>1 DEF Sealed
<1>8. WithAnon(q, ok) = [q EXCEPT !.pc = "open", !.slots = q.slots \cup q.sealed.slots,
                                  !.stamps = final, !.out = out]
  BY DEF WithAnon, RequestRecords
<1>9. q.slots \cup q.sealed.slots \in SUBSET Slots
  BY <1>7 DEF RequestRecords
<1> DEFINE all == q.slots \cup q.sealed.slots
<1> HIDE DEF out, final, all
<1>10. [q EXCEPT !.pc = "open", !.slots = all, !.stamps = final, !.out = out] \in RequestRecords
  BY <1>5, <1>6, <1>9 DEF RequestRecords, PC, all
<1> QED
  BY <1>8, <1>10 DEF all

LEMMA LoadedType ==
    ASSUME NEW q \in RequestRecords, NEW ok \in BOOLEAN, now \in Nat
    PROVE  Loaded(q, ok) \in RequestRecords
<1>1. CASE AnonOK(q)
  <2>1. q.sealed # None /\ q.token \in Tokens
    BY <1>1 DEF AnonOK, RequestRecords, Cookies, Sealed
  <2>2. Loaded(q, ok) = WithAnon(q, ok)
    BY <1>1 DEF Loaded
  <2> QED
    BY <2>1, <2>2, WithAnonType
<1>2. CASE ~AnonOK(q) /\ ok
  BY <1>2 DEF Loaded, RequestRecords, PC
<1>3. CASE ~AnonOK(q) /\ ~ok
  BY <1>3, StaleType DEF Loaded
<1> QED
  BY <1>1, <1>2, <1>3

(* What the handlers make of a request. *)
Stores == [Tokens -> Records \cup {None}]

LEMMA MintedType ==
    ASSUME NEW q \in RequestRecords, now \in Nat, issued \in Nat, issued < MaxTokens
    PROVE  Minted(q) \in RequestRecords /\ Minted(q).token \in Tokens
<1>1. issued + 1 \in Tokens
  BY SessionAssumption DEF Tokens
<1>2. NewStamps(now) \in Stamps
  BY NewStampsType
<1> QED
  BY <1>1, <1>2 DEF Minted, RequestRecords

LEMMA SealedOfType ==
    ASSUME NEW q \in RequestRecords, q.token \in Tokens
    PROVE  SealedOf(q) \in Cookies
BY DEF SealedOf, Cookies, Sealed, RequestRecords, PlacedOnServer

LEMMA StoredOfType ==
    ASSUME NEW q \in RequestRecords
    PROVE  StoredOf(q) \in Records \cup {None}
BY DEF StoredOf, Records, RequestRecords, PlacedOnServer

LEMMA BecomeType ==
    ASSUME NEW r \in Requests, NEW q \in RequestRecords,
           req \in [Requests -> RequestRecords], Become(r, q)
    PROVE  req' \in [Requests -> RequestRecords]
BY DEF Become

LEMMA FailingCallType ==
    ASSUME NEW landed \in Stores, server \in Stores, fails \in Nat, FailingCall(landed)
    PROVE  server' \in Stores /\ fails' \in Nat
BY DEF FailingCall

LEMMA FlushType ==
    ASSUME NEW r \in Requests, NEW q \in RequestRecords, NEW done \in PC,
           q.token \in Tokens, server \in Stores, fails \in Nat,
           req \in [Requests -> RequestRecords], Flush(r, q, done)
    PROVE  /\ req' \in [Requests -> RequestRecords]
           /\ server' \in Stores
           /\ fails' \in Nat
<1> DEFINE sealed == IF "anon" \in q.dirty THEN [q EXCEPT !.out.sealed = SealedOf(q)] ELSE q
           put == [server EXCEPT ![q.token] = StoredOf(q)]
<1>1. sealed \in RequestRecords
  BY SealedOfType DEF RequestRecords
<1>2. put \in Stores
  BY StoredOfType DEF Stores
<1>3. [sealed EXCEPT !.pc = done, !.dirty = {}] \in RequestRecords
  BY <1>1 DEF RequestRecords
<1>4. [sealed EXCEPT !.pc = "open", !.dirty = {"server"}] \in RequestRecords
  BY <1>1 DEF RequestRecords, PC
<1>5. CASE "server" \notin q.dirty
  BY <1>3, <1>5, BecomeType DEF Flush
<1>6. CASE "server" \in q.dirty
  <2>1. \/ /\ Become(r, [sealed EXCEPT !.pc = done, !.dirty = {}])
           /\ server' = put
           /\ UNCHANGED fails
        \/ /\ FailingCall(put)
           /\ Become(r, [sealed EXCEPT !.pc = "open", !.dirty = {"server"}])
    BY <1>6 DEF Flush
  <2> HIDE DEF sealed, put
  <2>2. CASE /\ Become(r, [sealed EXCEPT !.pc = done, !.dirty = {}])
             /\ server' = put
             /\ UNCHANGED fails
    BY <2>2, <1>2, <1>3, BecomeType
  <2>3. CASE /\ FailingCall(put)
             /\ Become(r, [sealed EXCEPT !.pc = "open", !.dirty = {"server"}])
    BY <2>3, <1>2, <1>4, BecomeType, FailingCallType
  <2> QED
    BY <2>1, <2>2, <2>3
<1> QED
  BY <1>5, <1>6

(* What a renewal leaves in the store. *)
LEMMA TouchedType ==
    ASSUME NEW q \in RequestRecords, server \in Stores, Touchable(q)
    PROVE  Touched(q) \in Stores
<1> DEFINE new == Renewed(q.stamps, q.at)
<1>1. new \in Stamps
  BY RenewedType DEF RequestRecords
<1>2. q.at \in Nat /\ q.slots \in SUBSET Slots /\ q.promoted \in BOOLEAN
  BY DEF RequestRecords
<1>3. CASE q.token \notin Tokens
  BY <1>3 DEF Touched, Stores
<1>4. CASE q.token \in Tokens /\ TouchRewrites
  BY <1>1, <1>2, <1>4 DEF Touched, Stores, Records
<1>5. CASE q.token \in Tokens /\ ~TouchRewrites
  <2> DEFINE old == server[q.token]
             stamps == [old.stamps EXCEPT !.seen = q.at, !.idle = new.idle]
  <2>1. old \in Records
    BY <1>5 DEF Touchable, Stores
  <2>2. stamps \in Stamps
    BY <2>1, <1>1, <1>2 DEF Records, Stamps
  <2>3. [old EXCEPT !.stamps = stamps] \in Records
    BY <2>1, <2>2 DEF Records
  <2>4. [old EXCEPT !.stamps.seen = q.at, !.stamps.idle = new.idle]
           = [old EXCEPT !.stamps = stamps]
    BY <2>1 DEF Records, Stamps
  <2>5. Touched(q) = [server EXCEPT ![q.token] =
                        [old EXCEPT !.stamps.seen = q.at, !.stamps.idle = new.idle]]
    BY <1>5 DEF Touched, Stores
  <2> QED
    BY <2>3, <2>4, <2>5 DEF Stores
<1> QED
  BY <1>3, <1>4, <1>5

-----------------------------------------------------------------------------
LEMMA IdleRequestType == IdleRequest \in RequestRecords
BY NoStampsType DEF IdleRequest, RequestRecords, PC, Quiet, Cookies

(* Every step of load. *)
LEMMA LoadTypeOK ==
    ASSUME TypeOK, NEW r \in Requests, LoadNext(r)
    PROVE  TypeOK'
<1> USE DEF TypeOK, Stores
<1>0. req[r] \in RequestRecords /\ now \in Nat
  OBVIOUS
<1> DEFINE q == req[r]
<1>u. ASSUME NEW found, UsedIf(found, q.token) PROVE used' \in [Tokens -> Nat]
  BY <1>u DEF UsedIf
<1>1. CASE Begin(r)
  <2>1. [IdleRequest EXCEPT !.pc = "get", !.token = browser.token, !.sealed = browser.sealed]
          \in RequestRecords
    BY IdleRequestType DEF RequestRecords, PC
  <2> QED
    BY <1>1, <2>1, BecomeType DEF Begin, counters
<1>2. CASE LoadNothing(r)
  <2>1. [q EXCEPT !.pc = "open"] \in RequestRecords
    BY <1>0 DEF RequestRecords, PC
  <2> QED
    BY <1>2, <2>1, BecomeType DEF LoadNothing, counters
<1>3. CASE GetFails(r)
  BY <1>3, IdleRequestType, BecomeType DEF GetFails
<1>4. CASE GetMissing(r)
  BY <1>4, <1>0, <1>u, LoadedType, BecomeType DEF GetMissing, counters
<1>5. CASE GetExpired(r)
  <2>1. [q EXCEPT !.pc = "expire"] \in RequestRecords
    BY <1>0 DEF RequestRecords, PC
  <2> QED
    BY <1>5, <2>1, BecomeType DEF GetExpired, counters
<1>6. CASE Expire(r)
  BY <1>6, <1>0, StaleType, BecomeType DEF Expire, counters
<1>7. CASE GetLive(r)
  <2> DEFINE record == server[q.token]
             p == [q EXCEPT !.slots = record.slots, !.promoted = record.promoted,
                            !.stamps = record.stamps, !.at = now]
  <2>1. q.token \in Tokens
    BY <1>7, <1>0 DEF GetLive, Presented, RequestRecords
  <2>2. record \in Records
    BY <1>7, <2>1 DEF GetLive
  <2>3. p \in RequestRecords
    BY <2>2, <1>0 DEF Records, RequestRecords
  <2>4. [p EXCEPT !.pc = "touch"] \in RequestRecords /\ Loaded(p, TRUE) \in RequestRecords
    BY <2>3, <1>0, LoadedType DEF RequestRecords, PC
  <2>5. p.token = q.token
    BY <1>0 DEF RequestRecords
  <2>6. req' \in [Requests -> RequestRecords]
    BY <1>7, <2>4, BecomeType DEF GetLive
  <2> QED
    BY <1>7, <2>5, <2>6, <1>u DEF GetLive, counters
<1>8. CASE Touch(r)
  <2> DEFINE p == [q EXCEPT !.stamps = Renewed(q.stamps, q.at), !.out.token = q.token]
  <2>1. Renewed(q.stamps, q.at) \in Stamps
    BY <1>0, RenewedType DEF RequestRecords
  <2>2. p \in RequestRecords
    BY <2>1, <1>0 DEF RequestRecords
  <2>3. req' \in [Requests -> RequestRecords]
    BY <1>8, <1>0, <2>2, LoadedType, BecomeType DEF Touch
  <2>4. server' \in Stores
    BY <1>8, <1>0, TouchedType DEF Touch
  <2> QED
    BY <1>8, <2>3, <2>4, <1>u DEF Touch, counters
<1>9. CASE TouchRefused(r)
  <2>1. req' \in [Requests -> RequestRecords]
    BY <1>9, <1>0, LoadedType, BecomeType DEF TouchRefused
  <2> QED
    BY <1>9, <2>1, <1>u DEF TouchRefused, counters
<1>10. CASE TouchFails(r)
  <2>1. req' \in [Requests -> RequestRecords]
    BY <1>10, <1>0, LoadedType, BecomeType DEF TouchFails
  <2>2. server' \in Stores /\ fails' \in Nat
    BY <1>10, <1>0, TouchedType, FailingCallType DEF TouchFails
  <2> QED
    BY <1>10, <2>1, <2>2, <1>u DEF TouchFails
<1> QED
  BY <1>1, <1>2, <1>3, <1>4, <1>5, <1>6, <1>7, <1>8, <1>9, <1>10 DEF LoadNext

LEMMA MintTypeOK ==
    ASSUME TypeOK, Mint
    PROVE  issued' \in 0 .. MaxTokens /\ born' \in [Tokens -> Nat] /\ used' \in [Tokens -> Nat]
<1>1. issued' \in 0 .. MaxTokens
  BY SessionAssumption DEF Mint, TypeOK
<1>2. now \in Nat /\ born \in [Tokens -> Nat] /\ used \in [Tokens -> Nat]
  BY DEF TypeOK
<1>3. born' = [born EXCEPT ![issued + 1] = now] /\ used' = [used EXCEPT ![issued + 1] = now]
  BY DEF Mint
<1> QED
  BY <1>1, <1>2, <1>3

(* A set, for a plain handler and for the login alike. *)
LEMMA SetSlotTypeOK ==
    ASSUME TypeOK, NEW r \in Requests, NEW s \in Slots, NEW done \in PC, SetSlot(r, s, done)
    PROVE  TypeOK'
<1> DEFINE q == IF req[r].token = None THEN Minted(req[r]) ELSE req[r]
           p == [q EXCEPT !.slots = @ \cup {s}, !.dirty = @ \cup {Bucket(q, s)}]
<1>0. req[r] \in RequestRecords /\ now \in Nat /\ issued \in Nat /\ server \in Stores
  BY SessionAssumption DEF TypeOK, Stores
<1>1. IF req[r].token = None THEN Mint ELSE UNCHANGED <<issued, born, used>>
  BY DEF SetSlot
<1>2. q \in RequestRecords /\ q.token \in Tokens
  <2>1. CASE req[r].token = None
    BY <2>1, <1>0, <1>1, MintedType DEF Mint
  <2>2. CASE req[r].token # None
    BY <2>2, <1>0 DEF RequestRecords
  <2> QED
    BY <2>1, <2>2
<1>3. issued' \in 0 .. MaxTokens /\ born' \in [Tokens -> Nat] /\ used' \in [Tokens -> Nat]
  BY <1>1, MintTypeOK DEF TypeOK
<1>4. Bucket(q, s) \in {"anon", "server"}
  BY DEF Bucket
<1>5. ops' \in Nat
  BY DEF SetSlot, Operate, TypeOK
<1>6. Flush(r, p, done)
  BY DEF SetSlot
<1> HIDE DEF q
<1>7. p \in RequestRecords /\ p.token \in Tokens
  BY <1>2, <1>4 DEF RequestRecords
<1> HIDE DEF p
<1>8. req' \in [Requests -> RequestRecords] /\ server' \in Stores /\ fails' \in Nat
  BY <1>0, <1>6, <1>7, FlushType DEF TypeOK
<1> QED
  BY <1>3, <1>5, <1>8 DEF SetSlot, TypeOK, Stores

(* Every step of a handler. *)
LEMMA HandlerTypeOK ==
    ASSUME TypeOK, NEW r \in Requests, HandlerNext(r)
    PROVE  TypeOK'
<1> DEFINE q == req[r]
<1>0. q \in RequestRecords /\ now \in Nat /\ issued \in Nat /\ server \in Stores
      /\ req \in [Requests -> RequestRecords] /\ fails \in Nat
  BY SessionAssumption DEF TypeOK, Stores
<1>1. ASSUME NEW s \in Slots, Set(r, s) PROVE TypeOK'
  BY <1>1, SetSlotTypeOK DEF Set, PC
<1>2. ASSUME NEW s \in Slots, Clear(r, s) PROVE TypeOK'
  <2> DEFINE p == [q EXCEPT !.slots = @ \ {s}]
             d == [p EXCEPT !.dirty = @ \cup {Bucket(p, s)}]
  <2>1. p \in RequestRecords
    BY <1>0 DEF RequestRecords
  <2>2. Bucket(p, s) \in {"anon", "server"}
    BY DEF Bucket
  <2>3. d \in RequestRecords /\ d.token = p.token
    BY <2>1, <2>2 DEF RequestRecords
  <2>4. CASE p.token = None
    <3>1. Become(r, p) /\ UNCHANGED <<server, fails>>
      BY <1>2, <2>4 DEF Clear
    <3>2. req' \in [Requests -> RequestRecords]
      BY <3>1, <2>1, <1>0, BecomeType
    <3> QED
      BY <1>2, <3>1, <3>2 DEF Clear, Operate, TypeOK
  <2>5. CASE p.token # None
    <3>1. Flush(r, d, "open")
      BY <1>2, <2>5 DEF Clear
    <3>2. d.token \in Tokens
      BY <2>1, <2>3, <2>5 DEF RequestRecords
    <3>3. req' \in [Requests -> RequestRecords] /\ server' \in Stores /\ fails' \in Nat
      <4> HIDE DEF d
      <4> QED
        BY <3>1, <3>2, <2>3, <1>0, FlushType DEF PC
    <3> QED
      BY <1>2, <3>3 DEF Clear, Operate, TypeOK, Stores
  <2> QED
    BY <2>4, <2>5
<1>3. CASE Establish(r)
  BY <1>3, SetSlotTypeOK, SessionAssumption DEF Establish, PC
<1>4. CASE Rotate(r)
  <2>1. [q EXCEPT !.pc = "revoke"] \in RequestRecords
    BY <1>0 DEF RequestRecords, PC
  <2>2. req' \in [Requests -> RequestRecords]
    BY <1>4, <2>1, <1>0, BecomeType DEF Rotate
  <2> QED
    BY <1>4, <2>2 DEF Rotate, Operate, TypeOK
<1>5. CASE RotateRevoke(r)
  <2> DEFINE p == [q EXCEPT !.slots = @ \ ResetOnRotate]
             gone == [server EXCEPT ![p.token] = None]
  <2>1. p \in RequestRecords
    BY <1>0 DEF RequestRecords
  <2>2. gone \in Stores
    BY <1>0 DEF Stores
  <2>3. /\ [p EXCEPT !.pc = "issue"] \in RequestRecords
        /\ [p EXCEPT !.pc = "open"] \in RequestRecords
        /\ [p EXCEPT !.pc = "issue", !.out.sealed = None] \in RequestRecords
    BY <2>1 DEF RequestRecords, PC, Cookies
  <2>4. p.token # None => p.token \in Tokens
    BY <2>1 DEF RequestRecords
  <2> HIDE DEF p, gone
  <2>5. \/ /\ Become(r, [p EXCEPT !.pc = "issue"])
           /\ UNCHANGED <<server, fails, rotated>>
        \/ /\ p.token # None
           /\ server' = gone
           /\ rotated' = rotated \cup {p.token}
           /\ Become(r, [p EXCEPT !.pc = "issue", !.out.sealed = None])
           /\ UNCHANGED fails
        \/ /\ FailingCall(gone)
           /\ Become(r, [p EXCEPT !.pc = "open"])
           /\ UNCHANGED rotated
    BY <1>5 DEF RotateRevoke, p, gone
  <2>6. /\ req' \in [Requests -> RequestRecords] /\ server' \in Stores /\ fails' \in Nat
        /\ rotated' \subseteq Tokens
    BY <2>2, <2>3, <2>4, <2>5, <1>0, BecomeType, FailingCallType DEF TypeOK
  <2> QED
    BY <1>5, <2>6 DEF RotateRevoke, TypeOK, Stores
<1>6. CASE RotateIssue(r)
  <2> DEFINE p == [q EXCEPT !.promoted = TRUE, !.dirty = {"server"}]
  <2>1. p \in RequestRecords
    BY <1>0 DEF RequestRecords
  <2>2. Mint /\ Flush(r, Minted(p), "open")
    BY <1>6 DEF RotateIssue
  <2> HIDE DEF p
  <2>3. Minted(p) \in RequestRecords /\ Minted(p).token \in Tokens
    BY <2>1, <2>2, <1>0, MintedType DEF Mint
  <2>4. req' \in [Requests -> RequestRecords] /\ server' \in Stores /\ fails' \in Nat
    BY <2>2, <2>3, <1>0, FlushType DEF PC
  <2>5. issued' \in 0 .. MaxTokens /\ born' \in [Tokens -> Nat] /\ used' \in [Tokens -> Nat]
    <3>1. Mint
      BY <2>2
    <3> QED
      BY <3>1, MintTypeOK
  <2> QED
    BY <1>6, <2>4, <2>5 DEF RotateIssue, TypeOK, Stores
<1>7. CASE Destroy(r)
  <2> DEFINE gone == [server EXCEPT ![q.token] = None]
  <2>1. Destroyed(q) \in RequestRecords
    BY <1>0, NoStampsType DEF Destroyed, RequestRecords, Cookies
  <2>2. gone \in Stores
    BY <1>0 DEF Stores
  <2>3. req' \in [Requests -> RequestRecords]
    BY <1>7, <2>1, <1>0, BecomeType DEF Destroy
  <2>4. server' \in Stores /\ fails' \in Nat
    BY <1>7, <2>2, <1>0, FailingCallType DEF Destroy
  <2> QED
    BY <1>7, <2>3, <2>4 DEF Destroy, Operate, TypeOK, Stores
<1> QED
  BY <1>1, <1>2, <1>3, <1>4, <1>5, <1>6, <1>7 DEF HandlerNext

LEMMA StepTypeOK == TypeOK /\ [Next]_vars => TypeOK'
<1> SUFFICES ASSUME TypeOK, [Next]_vars PROVE TypeOK'
  OBVIOUS
<1>1. ASSUME NEW r \in Requests, Respond(r) PROVE TypeOK'
  <2>1. req[r] \in RequestRecords
    BY DEF TypeOK
  <2>2. browser' \in [token : Tokens \cup {None}, sealed : Cookies]
    BY <1>1, <2>1 DEF Respond, TypeOK, RequestRecords
  <2>3. req' \in [Requests -> RequestRecords]
    BY <1>1, IdleRequestType, BecomeType DEF Respond, TypeOK
  <2> QED
    BY <1>1, <2>2, <2>3 DEF Respond, TypeOK, counters
<1>2. ASSUME NEW r \in Requests, Abandon(r) PROVE TypeOK'
  <2>1. req' \in [Requests -> RequestRecords]
    BY <1>2, IdleRequestType, BecomeType DEF Abandon, TypeOK
  <2> QED
    BY <1>2, <2>1 DEF Abandon, TypeOK, counters
<1>3. ASSUME NEW t \in Tokens, Prune(t) PROVE TypeOK'
  BY <1>3 DEF Prune, TypeOK, counters
<1>4. CASE Tick
  BY <1>4 DEF Tick, TypeOK, counters
<1>5. CASE UNCHANGED vars
  BY <1>5 DEF vars, TypeOK, counters
<1> QED
  BY <1>1, <1>2, <1>3, <1>4, <1>5, LoadTypeOK, HandlerTypeOK DEF Next

(* Type correctness of the session machine: whatever mix of requests,      *)
(* store failures, rotations and expiries, cookies and records keep their  *)
(* shape, and a response never hands the browser anything but a token, a   *)
(* sealed record or their removal.                                         *)
THEOREM SessionTypeCorrect == Spec => []TypeOK
<1>1. Init => TypeOK
  <2> SUFFICES ASSUME Init PROVE TypeOK
    OBVIOUS
  <2>1. req \in [Requests -> RequestRecords]
    BY IdleRequestType DEF Init
  <2> QED
    BY <2>1, SessionAssumption DEF Init, TypeOK, Cookies
<1> QED
  BY <1>1, StepTypeOK, PTL DEF Spec

-----------------------------------------------------------------------------
(* What carries a token: its server record, the requests that have read    *)
(* it, and the sealed cookies.                                             *)

\* Something carries t and takes it to be promoted (k = TRUE) or anonymous.
Use(t, k) ==
    \/ server[t] # None /\ server[t].promoted = k
    \/ \E r \in Requests : Holds(r, t) /\ req[r].promoted = k
    \/ k = FALSE /\ \E c \in SealedCookies : c.owner = t

\* Stamps of a token that was issued at b and last used at u.
StampOK(s, b, u) ==
    /\ TTL > 0 => s.expires = b + TTL
    /\ TTL > 0 /\ IdleTimeout > 0 => s.idle # 0 /\ s.idle <= u + IdleTimeout

\* All carriers of a token agree on whether it is promoted, and only issued
\* tokens are carried.
KindInv == \A t \in Tokens : ~(Use(t, TRUE) /\ Use(t, FALSE))
FreshInv ==
    /\ \A t \in Tokens, k \in BOOLEAN : Use(t, k) => t <= issued
    /\ \A t \in Tokens : t > issued => used[t] = 0

\* All carriers know its absolute bound, and none an idle bound later than its
\* last use allows.
StampInv ==
    /\ \A t \in Tokens : server[t] # None => StampOK(server[t].stamps, born[t], used[t])
    /\ \A r \in Requests, t \in Tokens : Holds(r, t) => StampOK(req[r].stamps, born[t], used[t])
    /\ \A c \in SealedCookies : StampOK(c.stamps, born[c.owner], used[c.owner])

TimeInv ==
    /\ \A t \in Tokens : used[t] <= now
    /\ \A r \in Requests :
          /\ req[r].pc = "get" => req[r].promoted = FALSE
          /\ req[r].pc = "touch" => req[r].token \in Tokens /\ req[r].at <= used[req[r].token]

SessionInv == TypeOK /\ KindInv /\ FreshInv /\ StampInv /\ TimeInv
-----------------------------------------------------------------------------
(* One step, seen from its carriers.  A step is good when each carrier it   *)
(* leaves either carries what was carried before, or carries the one token  *)
(* the step issues, of kind `kind'.                                         *)

History ==
    /\ issued' \in {issued, issued + 1}
    /\ \A t \in Tokens : t <= issued => born'[t] = born[t] /\ used[t] <= used'[t]
    /\ \A t \in Tokens : t > issued' => used'[t] = 0

Fits(t, k, s, kind) ==
    /\ Use(t, k) \/ (t = issued + 1 /\ issued' = issued + 1 /\ k = kind)
    /\ StampOK(s, born'[t], used'[t])

CookieFits(c, kind) == c \in Sealed => Fits(c.owner, FALSE, c.stamps, kind)
RecordFits(t, x, kind) == x # None => Fits(t, x.promoted, x.stamps, kind)
RequestFits(q, kind) ==
    /\ q.token # None /\ q.pc \notin {"idle", "get", "expire"}
          => Fits(q.token, q.promoted, q.stamps, kind)
    /\ CookieFits(q.sealed, kind)
    /\ CookieFits(q.out.sealed, kind)

\* The parts of the invariant the carriers determine, and the action property.
CarrierInv == TypeOK /\ KindInv /\ FreshInv /\ StampInv
CarrierStep ==
    /\ TypeOK' /\ KindInv' /\ FreshInv' /\ StampInv'
    /\ \A t \in Tokens : Dead(t) => Dead(t)'

\* Stamps stay good when the token is used again.
LEMMA StampLater ==
    ASSUME NEW s \in Stamps, NEW b \in Nat, NEW u \in Nat, NEW v \in Nat,
           u <= v, StampOK(s, b, u)
    PROVE  StampOK(s, b, v)
BY SessionAssumption DEF StampOK, Stamps

LEMMA SealedIsCookie ==
    ASSUME TypeOK, NEW c
    PROVE  c \in SealedCookies <=>
              /\ c \in Sealed
              /\ \/ c = browser.sealed
                 \/ \E r \in Requests : c = req[r].sealed
                 \/ \E r \in Requests : c = req[r].out.sealed
<1>1. browser.sealed \in Sealed \cup {None}
  BY DEF TypeOK, Cookies
<1>2. \A r \in Requests : /\ req[r].sealed \in Sealed \cup {None}
                          /\ req[r].out.sealed \in Sealed \cup {None, Keep}
  BY DEF TypeOK, RequestRecords, Cookies
<1> QED
  BY <1>1, <1>2, NoRecordAssumption DEF SealedCookies

\* Whatever is carried already fits.
LEMMA OldFits ==
    ASSUME TypeOK, FreshInv, TypeOK', History,
           NEW t \in Tokens, NEW k \in BOOLEAN, NEW s \in Stamps, NEW kind,
           Use(t, k), StampOK(s, born[t], used[t])
    PROVE  Fits(t, k, s, kind)
<1>1. t <= issued
  BY DEF FreshInv
<1>2. born'[t] = born[t] /\ used[t] <= used'[t]
  BY <1>1 DEF History
<1>3. born[t] \in Nat /\ used[t] \in Nat /\ used'[t] \in Nat
  BY DEF TypeOK
<1> QED
  BY <1>2, <1>3, StampLater DEF Fits

LEMMA OldCookie ==
    ASSUME CarrierInv, TypeOK', History, NEW c \in SealedCookies, NEW kind
    PROVE  CookieFits(c, kind)
<1>1. c \in Sealed
  BY SealedIsCookie DEF CarrierInv
<1>2. c.owner \in Tokens /\ c.stamps \in Stamps
  BY <1>1 DEF Sealed
<1>3. Use(c.owner, FALSE) /\ StampOK(c.stamps, born[c.owner], used[c.owner])
  BY DEF Use, StampInv, CarrierInv
<1> QED
  BY <1>2, <1>3, OldFits DEF CookieFits, CarrierInv

LEMMA OldRecord ==
    ASSUME CarrierInv, TypeOK', History, NEW t \in Tokens, NEW kind
    PROVE  RecordFits(t, server[t], kind)
<1> SUFFICES ASSUME server[t] # None PROVE Fits(t, server[t].promoted, server[t].stamps, kind)
  BY DEF RecordFits
<1>1. server[t] \in Records
  BY DEF CarrierInv, TypeOK
<1>2. server[t].promoted \in BOOLEAN /\ server[t].stamps \in Stamps
  BY <1>1 DEF Records
<1>3. Use(t, server[t].promoted) /\ StampOK(server[t].stamps, born[t], used[t])
  BY DEF Use, StampInv, CarrierInv
<1> QED
  BY <1>2, <1>3, OldFits DEF CarrierInv

LEMMA OldBrowser ==
    ASSUME CarrierInv, TypeOK', History, NEW kind
    PROVE  CookieFits(browser.sealed, kind)
<1> SUFFICES ASSUME browser.sealed \in Sealed PROVE CookieFits(browser.sealed, kind)
  BY DEF CookieFits
<1> QED
  BY SealedIsCookie, OldCookie DEF CarrierInv

LEMMA OldRequest ==
    ASSUME CarrierInv, TypeOK', History, NEW r \in Requests, NEW kind
    PROVE  RequestFits(req[r], kind)
<1> DEFINE q == req[r]
<1>0. q \in RequestRecords
  BY DEF CarrierInv, TypeOK
<1>1. ASSUME q.token # None, q.pc \notin {"idle", "get", "expire"}
      PROVE  Fits(q.token, q.promoted, q.stamps, kind)
  <2>1. q.token \in Tokens /\ q.promoted \in BOOLEAN /\ q.stamps \in Stamps
    BY <1>0, <1>1 DEF RequestRecords
  <2>2. Holds(r, q.token)
    BY <1>1 DEF Holds
  <2>3. Use(q.token, q.promoted) /\ StampOK(q.stamps, born[q.token], used[q.token])
    BY <2>1, <2>2 DEF Use, StampInv, CarrierInv
  <2> QED
    BY <2>1, <2>3, OldFits DEF CarrierInv
<1>2. q.sealed \in Sealed => q.sealed \in SealedCookies
  BY SealedIsCookie DEF CarrierInv
<1>3. q.out.sealed \in Sealed => q.out.sealed \in SealedCookies
  BY SealedIsCookie DEF CarrierInv
<1>4. CookieFits(q.sealed, kind) /\ CookieFits(q.out.sealed, kind)
  BY <1>2, <1>3, OldCookie DEF CookieFits
<1> QED
  BY <1>1, <1>4 DEF RequestFits
\* A carrier that fits says what the invariant needs of it.
LEMMA FitsMeaning ==
    ASSUME CarrierInv, TypeOK', History, NEW t \in Tokens, NEW k \in BOOLEAN, NEW s, NEW kind,
           Fits(t, k, s, kind)
    PROVE  /\ t <= issued'
           /\ t <= issued => Use(t, k)
           /\ t > issued => k = kind
           /\ StampOK(s, born'[t], used'[t])
<1>1. Use(t, k) => t <= issued
  BY DEF CarrierInv, FreshInv
<1>2. issued \in Nat /\ issued' \in {issued, issued + 1} /\ t \in Nat
  BY SessionAssumption DEF History, CarrierInv, TypeOK, Tokens
<1> QED
  BY <1>1, <1>2 DEF Fits

\* If every carrier a step leaves fits, the step keeps the invariant.
LEMMA GoodStep ==
    ASSUME CarrierInv, TypeOK', History, NEW kind \in BOOLEAN,
           \A r \in Requests : RequestFits(req'[r], kind),
           \A t \in Tokens : RecordFits(t, server'[t], kind),
           CookieFits(browser'.sealed, kind)
    PROVE  CarrierStep
<1>1. ASSUME NEW t \in Tokens, server'[t] # None
      PROVE  /\ server'[t].promoted \in BOOLEAN
             /\ Fits(t, server'[t].promoted, server'[t].stamps, kind)
  BY <1>1 DEF TypeOK, Records, RecordFits
<1>2. ASSUME NEW r \in Requests, NEW t \in Tokens, Holds(r, t)'
      PROVE  /\ req'[r].promoted \in BOOLEAN
             /\ Fits(t, req'[r].promoted, req'[r].stamps, kind)
  <2>1. req'[r] \in RequestRecords
    BY DEF TypeOK
  <2>2. req'[r].token = t /\ req'[r].pc \notin {"idle", "get", "expire"}
    BY <1>2 DEF Holds
  <2>3. t # None
    BY SessionAssumption
  <2> QED
    BY <2>1, <2>2, <2>3 DEF RequestFits, RequestRecords
<1>3. ASSUME NEW c \in SealedCookies'
      PROVE  c.owner \in Tokens /\ Fits(c.owner, FALSE, c.stamps, kind)
  <2>1. browser'.sealed \in Sealed \cup {None}
    BY DEF TypeOK, Cookies
  <2>2. \A r \in Requests : /\ req'[r].sealed \in Sealed \cup {None}
                            /\ req'[r].out.sealed \in Sealed \cup {None, Keep}
    BY DEF TypeOK, RequestRecords, Cookies
  <2>3. /\ c \in Sealed
        /\ \/ c = browser'.sealed
           \/ \E r \in Requests : c = req'[r].sealed
           \/ \E r \in Requests : c = req'[r].out.sealed
    BY <2>1, <2>2, <1>3 DEF SealedCookies
  <2>4. CookieFits(c, kind)
    BY <2>3 DEF RequestFits
  <2> QED
    BY <2>3, <2>4 DEF CookieFits, Sealed
<1>4. ASSUME NEW t \in Tokens, NEW k \in BOOLEAN, Use(t, k)'
      PROVE  \E s : Fits(t, k, s, kind)
  <2>1. CASE server'[t] # None /\ server'[t].promoted = k
    BY <2>1, <1>1
  <2>2. CASE \E r \in Requests : Holds(r, t)' /\ req'[r].promoted = k
    BY <2>2, <1>2
  <2>3. CASE k = FALSE /\ \E c \in SealedCookies' : c.owner = t
    BY <2>3, <1>3
  <2> QED
    BY <1>4, <2>1, <2>2, <2>3 DEF Use
<1>5. ASSUME NEW t \in Tokens, NEW k \in BOOLEAN, Use(t, k)'
      PROVE  t <= issued' /\ (t <= issued => Use(t, k)) /\ (t > issued => k = kind)
  BY <1>4, <1>5, FitsMeaning
<1>6. \A t \in Tokens : t <= issued \/ t > issued
  BY SessionAssumption DEF CarrierInv, TypeOK, Tokens
<1>7. KindInv'
  <2> SUFFICES ASSUME NEW t \in Tokens, Use(t, TRUE)', Use(t, FALSE)' PROVE FALSE
    BY DEF KindInv
  <2>1. CASE t <= issued
    BY <2>1, <1>5 DEF CarrierInv, KindInv
  <2>2. CASE t > issued
    BY <2>2, <1>5
  <2> QED
    BY <1>6, <2>1, <2>2
<1>8. FreshInv'
  BY <1>5 DEF FreshInv, History
<1>9. StampInv'
  <2>1. ASSUME NEW t \in Tokens, server'[t] # None
        PROVE  StampOK(server'[t].stamps, born'[t], used'[t])
    BY <2>1, <1>1, FitsMeaning
  <2>2. ASSUME NEW r \in Requests, NEW t \in Tokens, Holds(r, t)'
        PROVE  StampOK(req'[r].stamps, born'[t], used'[t])
    BY <2>2, <1>2, FitsMeaning
  <2>3. ASSUME NEW c \in SealedCookies'
        PROVE  StampOK(c.stamps, born'[c.owner], used'[c.owner])
    BY <2>3, <1>3, FitsMeaning
  <2> QED
    BY <2>1, <2>2, <2>3 DEF StampInv
<1>10. ASSUME NEW t \in Tokens, Dead(t) PROVE Dead(t)'
  <2>1. \A k \in BOOLEAN : ~Use(t, k)
    BY <1>10 DEF Dead, Use
  <2>2. \A k \in BOOLEAN : ~Use(t, k)'
    BY <2>1, <1>5, <1>10 DEF Dead
  <2>3. t <= issued'
    BY <1>10, SessionAssumption DEF Dead, History, CarrierInv, TypeOK, Tokens
  <2>4. server'[t] = None
    BY <2>2, <1>1 DEF Use
  <2>5. \A r \in Requests : ~Holds(r, t)'
    BY <2>2, <1>2 DEF Use
  <2>6. \A c \in SealedCookies' : c.owner # t
    BY <2>2 DEF Use
  <2> QED
    BY <2>3, <2>4, <2>5, <2>6 DEF Dead
<1> QED
  BY <1>7, <1>8, <1>9, <1>10 DEF CarrierStep
(* The histories the actions leave. *)
LEMMA IdleHistory ==
    ASSUME TypeOK, FreshInv, UNCHANGED <<issued, born, used>>
    PROVE  History
BY SessionAssumption DEF History, FreshInv, TypeOK, Tokens

LEMMA UsedHistory ==
    ASSUME TypeOK, FreshInv, TimeInv, UNCHANGED <<issued, born>>, NEW t \in Tokens, NEW found,
           UsedIf(found, t), found => t <= issued
    PROVE  /\ History
           /\ \A u \in Tokens : used'[u] <= now /\ used[u] <= used'[u]
           /\ found => used'[t] = now
<1>1. /\ used \in [Tokens -> Nat] /\ now \in Nat /\ issued \in Nat
      /\ \A u \in Tokens : u \in Nat /\ used[u] <= now
  BY SessionAssumption DEF TypeOK, TimeInv, Tokens
<1>2. CASE found
  <2>1. used' = [used EXCEPT ![t] = now]
    BY <1>2 DEF UsedIf
  <2> QED
    BY <2>1, <1>1, <1>2 DEF History, FreshInv
<1>3. CASE ~found
  <2>1. used' = used
    BY <1>3 DEF UsedIf
  <2> QED
    BY <2>1, <1>1, <1>3 DEF History, FreshInv
<1> QED
  BY <1>2, <1>3

LEMMA MintHistory ==
    ASSUME TypeOK, FreshInv, TimeInv, Mint
    PROVE  /\ History
           /\ issued + 1 \in Tokens
           /\ \A u \in Tokens : used'[u] <= now
           /\ \A u \in Tokens : u # issued + 1 => used'[u] = used[u]
           /\ born'[issued + 1] = now /\ used'[issued + 1] = now /\ used[issued + 1] = 0
<1>1. /\ used \in [Tokens -> Nat] /\ born \in [Tokens -> Nat] /\ now \in Nat /\ issued \in Nat
      /\ \A u \in Tokens : u \in Nat /\ used[u] <= now
  BY SessionAssumption DEF TypeOK, TimeInv, Tokens
<1>2. issued + 1 \in Tokens /\ issued' = issued + 1
  BY <1>1, SessionAssumption DEF Mint, Tokens
<1>3. born' = [born EXCEPT ![issued + 1] = now] /\ used' = [used EXCEPT ![issued + 1] = now]
  BY DEF Mint
<1>4. used[issued + 1] = 0
  BY <1>1, <1>2 DEF FreshInv
<1> QED
  BY <1>1, <1>2, <1>3, <1>4 DEF History, FreshInv

(* A step of request r that leaves it as q. *)
LEMMA RequestStep ==
    ASSUME SessionInv, TypeOK', History, NEW kind \in BOOLEAN, NEW r \in Requests, NEW q,
           Become(r, q), RequestFits(q, kind),
           \A t \in Tokens : RecordFits(t, server'[t], kind),
           CookieFits(browser'.sealed, kind),
           now' = now, \A t \in Tokens : used'[t] <= now,
           q.pc = "get" => q.promoted = FALSE,
           q.pc = "touch" => q.token \in Tokens /\ q.at <= used'[q.token]
    PROVE  CarrierStep /\ TimeInv'
<1>0. CarrierInv
  BY DEF SessionInv, CarrierInv
<1>1. req'[r] = q /\ \A p \in Requests : p # r => req'[p] = req[p]
  BY <1>0 DEF Become, CarrierInv, TypeOK
<1>2. \A p \in Requests : RequestFits(req'[p], kind)
  BY <1>0, <1>1, OldRequest
<1>3. CarrierStep
  BY <1>0, <1>2, GoodStep
<1>4. ASSUME NEW p \in Requests, p # r
      PROVE  /\ req'[p].pc = "get" => req'[p].promoted = FALSE
             /\ req'[p].pc = "touch" =>
                   req'[p].token \in Tokens /\ req'[p].at <= used'[req'[p].token]
  <2>1. req'[p] = req[p]
    BY <1>1, <1>4
  <2>2. req[p].pc = "get" => req[p].promoted = FALSE
    BY DEF SessionInv, TimeInv
  <2>3. ASSUME req[p].pc = "touch" PROVE req[p].token \in Tokens /\ req[p].at <= used'[req[p].token]
    <3> DEFINE t == req[p].token
    <3>1. t \in Tokens /\ req[p].at <= used[t]
      BY <2>3 DEF SessionInv, TimeInv
    <3>2. Holds(p, t)
      BY <2>3 DEF Holds
    <3>2a. Use(t, req[p].promoted) /\ req[p].promoted \in BOOLEAN /\ req[p].at \in Nat
      BY <3>2 DEF Use, SessionInv, TypeOK, RequestRecords
    <3>3. t <= issued
      BY <3>1, <3>2a DEF SessionInv, FreshInv
    <3>4. used[t] <= used'[t]
      BY <3>1, <3>3 DEF History
    <3>5. used[t] \in Nat /\ used'[t] \in Nat
      BY <3>1 DEF TypeOK, SessionInv
    <3> QED
      BY <3>1, <3>2a, <3>4, <3>5
  <2> QED
    BY <2>1, <2>2, <2>3
<1>5. TimeInv'
  BY <1>1, <1>4 DEF TimeInv
<1> QED
  BY <1>3, <1>5

\* A request back at rest carries nothing.
LEMMA IdleFits == \A kind : RequestFits(IdleRequest, kind)
BY NoRecordAssumption DEF RequestFits, IdleRequest, Quiet, CookieFits
-----------------------------------------------------------------------------
(* The steps of load. *)

\* A renewal asked for no later than the last use is within what that allows.
LEMMA RenewedStamp ==
    ASSUME NEW s \in Stamps, NEW at \in Nat, NEW b \in Nat, NEW u \in Nat,
           at <= u, StampOK(s, b, u)
    PROVE  StampOK(Renewed(s, at), b, u)
<1> DEFINE i == IF s.expires # 0 /\ at + IdleTimeout > s.expires
                THEN s.expires ELSE at + IdleTimeout
<1>1. Renewed(s, at) = [s EXCEPT !.seen = at, !.idle = i]
  BY DEF Renewed
<1>2. IdleTimeout > 0 => i # 0 /\ i <= u + IdleTimeout
  BY SessionAssumption DEF Stamps
<1> HIDE DEF i
<1>3. Renewed(s, at).expires = s.expires /\ Renewed(s, at).idle = i
  BY <1>1 DEF Stamps
<1> QED
  BY <1>2, <1>3 DEF StampOK

LEMMA LoadedFits ==
    ASSUME TypeOK, TypeOK', NEW q \in RequestRecords, NEW ok \in BOOLEAN, NEW kind,
           q.token \in Tokens, CookieFits(q.sealed, kind), CookieFits(q.out.sealed, kind),
           ok => Fits(q.token, q.promoted, q.stamps, kind),
           ~ok => q.promoted = FALSE,
           AnonOK(q) => used'[q.token] = now
    PROVE  RequestFits(Loaded(q, ok), kind) /\ Loaded(q, ok).pc = "open"
<1>1. CASE AnonOK(q)
  <2> DEFINE due == RenewalDue(q.sealed.stamps, now)
             stamps == IF due THEN Renewed(q.sealed.stamps, now) ELSE q.sealed.stamps
             sealed == [q.sealed EXCEPT !.stamps = stamps]
             out == IF due THEN [token |-> q.token, sealed |-> sealed] ELSE q.out
             final == IF ok THEN q.stamps ELSE stamps
             all == q.slots \cup q.sealed.slots
  <2>1. q.sealed \in Sealed /\ q.sealed.owner = q.token
    BY <1>1 DEF AnonOK, RequestRecords, Cookies
  <2>2. q.sealed.stamps \in Stamps
    BY <2>1 DEF Sealed
  <2>3. Fits(q.token, FALSE, q.sealed.stamps, kind)
    BY <2>1 DEF CookieFits
  <2>4. born'[q.token] \in Nat /\ used'[q.token] \in Nat /\ now \in Nat
    BY DEF TypeOK
  <2>5. StampOK(stamps, born'[q.token], used'[q.token])
    <3>1. StampOK(q.sealed.stamps, born'[q.token], used'[q.token])
      BY <2>3 DEF Fits
    <3>2. now <= used'[q.token]
      BY <1>1, <2>4
    <3>3. StampOK(Renewed(q.sealed.stamps, now), born'[q.token], used'[q.token])
      BY <3>1, <3>2, <2>2, <2>4, RenewedStamp
    <3> QED
      BY <3>1, <3>3
  <2>6. Fits(q.token, FALSE, stamps, kind)
    BY <2>3, <2>5 DEF Fits
  <2>7. Loaded(q, ok) = [q EXCEPT !.pc = "open", !.slots = all, !.stamps = final, !.out = out]
    BY <1>1 DEF Loaded, WithAnon, RequestRecords
  <2>8. CookieFits(out.sealed, kind)
    <3>1. CASE due
      <4>1. out.sealed = sealed /\ sealed.owner = q.token /\ sealed.stamps = stamps
        BY <2>1, <3>1 DEF Sealed
      <4> QED
        BY <4>1, <2>6 DEF CookieFits
    <3>2. CASE ~due
      BY <3>2
    <3> QED
      BY <3>1, <3>2
  <2>9. Fits(q.token, q.promoted, final, kind)
    BY <2>6
  <2> HIDE DEF out, final, all
  <2>10. /\ Loaded(q, ok).pc = "open" /\ Loaded(q, ok).token = q.token
         /\ Loaded(q, ok).promoted = q.promoted /\ Loaded(q, ok).stamps = final
         /\ Loaded(q, ok).sealed = q.sealed /\ Loaded(q, ok).out = out
    BY <2>7 DEF RequestRecords
  <2> QED
    BY <2>8, <2>9, <2>10 DEF RequestFits
<1>2. CASE ~AnonOK(q) /\ ok
  <2>1. Loaded(q, ok) = [q EXCEPT !.pc = "open"]
    BY <1>2 DEF Loaded
  <2> QED
    BY <1>2, <2>1 DEF RequestFits, RequestRecords
<1>3. CASE ~AnonOK(q) /\ ~ok
  <2>1. Loaded(q, ok) = Stale(q)
    BY <1>3 DEF Loaded
  <2> QED
    BY <1>3, <2>1 DEF RequestFits, RequestRecords, Stale
<1> QED
  BY <1>1, <1>2, <1>3

\* A request presents or carries only tokens that were issued.
LEMMA CookieIssued ==
    ASSUME SessionInv, NEW r \in Requests, AnonOK(req[r])
    PROVE  req[r].token \in Tokens /\ req[r].token <= issued
<1>1. req[r].sealed \in Sealed /\ req[r].sealed.owner = req[r].token
  BY DEF AnonOK, SessionInv, TypeOK, RequestRecords, Cookies
<1>2. req[r].sealed \in SealedCookies /\ req[r].token \in Tokens
  BY <1>1, SealedIsCookie DEF SessionInv, Sealed
<1>3. Use(req[r].token, FALSE)
  BY <1>1, <1>2 DEF Use
<1> QED
  BY <1>2, <1>3 DEF SessionInv, FreshInv

LEMMA HolderIssued ==
    ASSUME SessionInv, NEW r \in Requests, NEW t \in Tokens, Holds(r, t)
    PROVE  t <= issued
<1>1. Use(t, req[r].promoted) /\ req[r].promoted \in BOOLEAN
  BY DEF Use, SessionInv, TypeOK, RequestRecords
<1> QED
  BY <1>1 DEF SessionInv, FreshInv

LEMMA RecordIssued ==
    ASSUME SessionInv, NEW t \in Tokens, server[t] # None
    PROVE  t <= issued
<1>1. Use(t, server[t].promoted) /\ server[t].promoted \in BOOLEAN
  BY DEF Use, SessionInv, TypeOK, Records
<1> QED
  BY <1>1 DEF SessionInv, FreshInv
\* Records kept or removed fit.
LEMMA KeptRecords ==
    ASSUME SessionInv, TypeOK', History, NEW kind,
           \A t \in Tokens : server'[t] = server[t] \/ server'[t] = None
    PROVE  \A t \in Tokens : RecordFits(t, server'[t], kind)
<1>1. \A t \in Tokens : RecordFits(t, server[t], kind)
  BY OldRecord DEF SessionInv, CarrierInv
<1> QED
  BY <1>1 DEF RecordFits

\* What a renewal writes fits.
LEMMA TouchedFits ==
    ASSUME SessionInv, TypeOK', History, NEW kind, NEW r \in Requests,
           req[r].pc = "touch", Touchable(req[r])
    PROVE  \A t \in Tokens : RecordFits(t, Touched(req[r])[t], kind)
<1> DEFINE q == req[r]
           new == Renewed(q.stamps, q.at)
           old == server[q.token]
<1>0. q \in RequestRecords /\ server \in Stores
  BY DEF SessionInv, TypeOK, Stores
<1>1. q.token \in Tokens /\ q.at <= used[q.token]
  BY DEF SessionInv, TimeInv
<1>2. q.at \in Nat /\ q.stamps \in Stamps /\ q.promoted \in BOOLEAN
  BY <1>0 DEF RequestRecords
<1>3. Holds(r, q.token)
  BY DEF Holds
<1>4. Use(q.token, q.promoted) /\ StampOK(q.stamps, born[q.token], used[q.token])
  BY <1>1, <1>3 DEF Use, SessionInv, StampInv
<1>5. new \in Stamps
  BY <1>2, RenewedType
<1>6. StampOK(new, born[q.token], used[q.token])
  BY <1>1, <1>2, <1>4, RenewedStamp DEF SessionInv, TypeOK
<1>7. old \in Records
  BY <1>0, <1>1 DEF Touchable, Stores
<1>8. old.stamps \in Stamps /\ old.promoted \in BOOLEAN
  BY <1>7 DEF Records
<1>9. Use(q.token, old.promoted) /\ StampOK(old.stamps, born[q.token], used[q.token])
  BY <1>1, <1>7, NoRecordAssumption DEF Use, SessionInv, StampInv
<1> DEFINE stamps == [old.stamps EXCEPT !.seen = q.at, !.idle = new.idle]
<1>10. stamps \in Stamps /\ StampOK(stamps, born[q.token], used[q.token])
  BY <1>2, <1>5, <1>6, <1>8, <1>9 DEF Stamps, StampOK
<1>11. CASE TouchRewrites
  <2> DEFINE x == [slots |-> q.slots, promoted |-> q.promoted, stamps |-> new]
  <2>1. Touched(q)[q.token] = x /\ \A t \in Tokens : t # q.token => Touched(q)[t] = server[t]
    BY <1>0, <1>1, <1>11 DEF Touched, Stores
  <2>2. Fits(q.token, q.promoted, new, kind)
    BY <1>1, <1>2, <1>4, <1>5, <1>6, OldFits DEF SessionInv
  <2>3. RecordFits(q.token, x, kind)
    BY <2>2 DEF RecordFits
  <2> QED
    BY <2>1, <2>3, OldRecord DEF SessionInv, CarrierInv
<1>12. CASE ~TouchRewrites
  <2> DEFINE x == [old EXCEPT !.stamps.seen = q.at, !.stamps.idle = new.idle]
  <2>1. Touched(q)[q.token] = x /\ \A t \in Tokens : t # q.token => Touched(q)[t] = server[t]
    BY <1>0, <1>1, <1>12 DEF Touched, Stores
  <2>2. x.promoted = old.promoted /\ x.stamps = stamps
    BY <1>7 DEF Records, Stamps
  <2>3. Fits(q.token, old.promoted, stamps, kind)
    BY <1>1, <1>8, <1>9, <1>10, OldFits DEF SessionInv
  <2>4. RecordFits(q.token, x, kind)
    <3> HIDE DEF x, stamps
    <3> QED
      BY <2>2, <2>3 DEF RecordFits
  <2> QED
    BY <2>1, <2>4, OldRecord DEF SessionInv, CarrierInv
<1> QED
  BY <1>11, <1>12

\* The steps of load before the store has answered, and the ones without an answer.
LEMMA QuietLoadStep ==
    ASSUME SessionInv, TypeOK', NEW r \in Requests,
           \/ Begin(r) \/ LoadNothing(r) \/ GetFails(r) \/ GetExpired(r) \/ Expire(r)
    PROVE  CarrierStep /\ TimeInv'
<1> DEFINE q == req[r]
<1>0. q \in RequestRecords /\ server \in Stores /\ CarrierInv
  BY DEF SessionInv, TypeOK, Stores, CarrierInv
<1>1. UNCHANGED <<browser, issued, now, born, used>>
  BY DEF Begin, LoadNothing, GetFails, GetExpired, Expire
<1>2. History /\ \A t \in Tokens : used'[t] <= now
  BY <1>1, IdleHistory DEF SessionInv, TimeInv
<1>3. \A t \in Tokens : server'[t] = server[t] \/ server'[t] = None
  BY <1>0 DEF Begin, LoadNothing, GetFails, GetExpired, Expire, Stores
<1>4. \A t \in Tokens : RecordFits(t, server'[t], TRUE)
  BY <1>2, <1>3, KeptRecords
<1>5. CookieFits(browser.sealed, TRUE) /\ CookieFits(browser'.sealed, TRUE)
  BY <1>0, <1>1, <1>2, OldBrowser
<1>6. RequestFits(q, TRUE)
  BY <1>0, <1>2, OldRequest
<1>7. ASSUME NEW p, Become(r, p), RequestFits(p, TRUE), p.pc # "touch",
             p.pc = "get" => p.promoted = FALSE
      PROVE  CarrierStep /\ TimeInv'
  BY <1>1, <1>2, <1>4, <1>5, <1>7, RequestStep
<1>8. CASE Begin(r)
  <2> DEFINE p == [IdleRequest EXCEPT !.pc = "get", !.token = browser.token,
                                      !.sealed = browser.sealed]
  <2>1. p.pc = "get" /\ p.promoted = FALSE /\ p.sealed = browser.sealed /\ p.out.sealed = Keep
    BY DEF IdleRequest, Quiet
  <2>2. RequestFits(p, TRUE)
    BY <2>1, <1>5, NoRecordAssumption DEF RequestFits, CookieFits
  <2>3. Become(r, p)
    BY <1>8 DEF Begin
  <2> HIDE DEF p
  <2> QED
    BY <2>1, <2>2, <2>3, <1>7
<1>9. CASE LoadNothing(r)
  <2> DEFINE p == [q EXCEPT !.pc = "open"]
  <2>1. p.pc = "open" /\ p.token = None /\ p.sealed = q.sealed /\ p.out = q.out
    BY <1>0, <1>9 DEF LoadNothing, RequestRecords
  <2>2. RequestFits(p, TRUE)
    BY <2>1, <1>6 DEF RequestFits
  <2>3. Become(r, p)
    BY <1>9 DEF LoadNothing
  <2> HIDE DEF p
  <2> QED
    BY <2>1, <2>2, <2>3, <1>7
<1>10. CASE GetFails(r)
  BY <1>10, <1>7, IdleFits DEF GetFails, IdleRequest
<1>11. CASE GetExpired(r)
  <2> DEFINE p == [q EXCEPT !.pc = "expire"]
  <2>1. p.pc = "expire" /\ p.sealed = q.sealed /\ p.out = q.out
    BY <1>0 DEF RequestRecords
  <2>2. RequestFits(p, TRUE)
    BY <2>1, <1>6 DEF RequestFits
  <2>3. Become(r, p)
    BY <1>11 DEF GetExpired
  <2> HIDE DEF p
  <2> QED
    BY <2>1, <2>2, <2>3, <1>7
<1>12. CASE Expire(r)
  <2> DEFINE p == Stale(q)
  <2>1. p.pc = "open" /\ p.token = None /\ p.sealed = q.sealed /\ p.out.sealed = q.out.sealed
    BY <1>0 DEF RequestRecords, Stale
  <2>2. RequestFits(p, TRUE)
    BY <2>1, <1>6 DEF RequestFits
  <2>3. Become(r, p)
    BY <1>12 DEF Expire
  <2> HIDE DEF p
  <2> QED
    BY <2>1, <2>2, <2>3, <1>7
<1> QED
  BY <1>8, <1>9, <1>10, <1>11, <1>12
\* The steps of load that end in the merge of the two halves.
LEMMA MergeStep ==
    ASSUME SessionInv, TypeOK', NEW r \in Requests, NEW p \in RequestRecords, NEW ok \in BOOLEAN,
           NEW found, Become(r, Loaded(p, ok)), UsedIf(found, req[r].token),
           UNCHANGED <<browser, issued, now, born>>,
           req[r].token \in Tokens, found => req[r].token <= issued,
           p.token = req[r].token, p.sealed = req[r].sealed,
           p.out.sealed = req[r].out.sealed,
           AnonOK(p) => found,
           History => \A t \in Tokens : RecordFits(t, server'[t], TRUE),
           History /\ ok => Fits(p.token, p.promoted, p.stamps, TRUE),
           ~ok => p.promoted = FALSE
    PROVE  CarrierStep /\ TimeInv'
<1>1. /\ History
      /\ \A u \in Tokens : used'[u] <= now /\ used[u] <= used'[u]
      /\ found => used'[req[r].token] = now
  BY UsedHistory DEF SessionInv
<1>2. CarrierInv
  BY DEF SessionInv, CarrierInv
<1>3. RequestFits(req[r], TRUE) /\ CookieFits(browser'.sealed, TRUE)
  BY <1>1, <1>2, OldRequest, OldBrowser
<1>4. CookieFits(p.sealed, TRUE) /\ CookieFits(p.out.sealed, TRUE)
  BY <1>3 DEF RequestFits
<1>5. RequestFits(Loaded(p, ok), TRUE) /\ Loaded(p, ok).pc = "open"
  BY <1>1, <1>4, LoadedFits DEF SessionInv
<1> QED
  BY <1>1, <1>3, <1>5, RequestStep

LEMMA AnsweredLoadStep ==
    ASSUME SessionInv, TypeOK', NEW r \in Requests,
           \/ GetMissing(r) \/ GetLive(r) \/ Touch(r) \/ TouchRefused(r) \/ TouchFails(r)
    PROVE  CarrierStep /\ TimeInv'
<1> DEFINE q == req[r]
<1>0. q \in RequestRecords /\ server \in Stores /\ CarrierInv
  BY DEF SessionInv, TypeOK, Stores, CarrierInv
<1>1. UNCHANGED <<browser, issued, now, born>>
  BY DEF GetMissing, GetLive, Touch, TouchRefused, TouchFails
<1>2. q.token \in Tokens
  <2>1. q.pc = "touch" => q.token \in Tokens
    BY DEF SessionInv, TimeInv
  <2>2. q.token # None => q.token \in Tokens
    BY <1>0 DEF RequestRecords
  <2> QED
    BY <2>1, <2>2 DEF GetMissing, GetLive, Touch, TouchRefused, TouchFails, Presented
<1>3. AnonOK(q) => q.token <= issued
  BY CookieIssued
<1>4. History => RequestFits(q, TRUE)
  BY <1>0, OldRequest
<1>5. History => \A t \in Tokens : RecordFits(t, server[t], TRUE)
  BY <1>0, OldRecord
<1>6. ASSUME q.pc = "touch" PROVE History => Fits(q.token, q.promoted, q.stamps, TRUE)
  <2>1. q.token # None
    BY <1>2, SessionAssumption
  <2> QED
    BY <2>1, <1>4, <1>6 DEF RequestFits
<1>7. CASE GetMissing(r)
  <2>1. q.promoted = FALSE
    BY <1>7 DEF GetMissing, Presented, SessionInv, TimeInv
  <2>2. Become(r, Loaded(q, FALSE)) /\ UsedIf(AnonOK(q), q.token) /\ server' = server
    BY <1>7 DEF GetMissing
  <2> QED
    BY <2>1, <2>2, <1>0, <1>1, <1>2, <1>3, <1>5, MergeStep
<1>8. CASE GetLive(r)
  <2> DEFINE record == server[q.token]
             p == [q EXCEPT !.slots = record.slots, !.promoted = record.promoted,
                            !.stamps = record.stamps, !.at = now]
  <2>1. record # None /\ server' = server /\ UsedIf(TRUE, p.token)
    BY <1>8 DEF GetLive
  <2>2. record \in Records
    BY <2>1, <1>0, <1>2 DEF Stores
  <2>3. p \in RequestRecords
    BY <2>2, <1>0 DEF Records, RequestRecords, SessionInv, TypeOK
  <2>4. /\ p.token = q.token /\ p.sealed = q.sealed /\ p.out = q.out /\ p.at = now
        /\ p.promoted = record.promoted /\ p.stamps = record.stamps
    BY <1>0 DEF RequestRecords
  <2>5. q.token <= issued
    BY <1>2, <2>1, RecordIssued
  <2>6. History => Fits(p.token, p.promoted, p.stamps, TRUE)
    BY <1>2, <1>5, <2>1, <2>4 DEF RecordFits
  <2>7. Become(r, IF RenewalDue(record.stamps, now)
                  THEN [p EXCEPT !.pc = "touch"] ELSE Loaded(p, TRUE))
    BY <1>8 DEF GetLive
  <2> HIDE DEF p
  <2>8. CASE ~RenewalDue(record.stamps, now)
    <3>1. Become(r, Loaded(p, TRUE))
      BY <2>7, <2>8
    <3> QED
      BY <3>1, <2>1, <2>3, <2>4, <2>5, <2>6, <1>1, <1>2, <1>5, MergeStep
  <2>9. CASE RenewalDue(record.stamps, now)
    <3> DEFINE d == [p EXCEPT !.pc = "touch"]
    <3>1. Become(r, d)
      BY <2>7, <2>9
    <3>2. /\ History
          /\ \A u \in Tokens : used'[u] <= now
          /\ used'[q.token] = now
      BY <1>1, <1>2, <2>1, <2>4, <2>5, UsedHistory DEF SessionInv
    <3>3. /\ d.pc = "touch" /\ d.token = q.token /\ d.promoted = p.promoted /\ d.at = now
          /\ d.stamps = p.stamps /\ d.sealed = q.sealed /\ d.out = q.out
      BY <2>3, <2>4 DEF RequestRecords
    <3> HIDE DEF d
    <3>4. RequestFits(d, TRUE)
      BY <3>2, <3>3, <1>4, <2>4, <2>6 DEF RequestFits
    <3>5. CookieFits(browser'.sealed, TRUE)
      BY <3>2, <1>0, <1>1, OldBrowser
    <3>6. \A t \in Tokens : RecordFits(t, server'[t], TRUE)
      BY <3>2, <1>5, <2>1
    <3>7. d.token \in Tokens /\ d.at <= used'[d.token]
      BY <3>2, <3>3, <1>2 DEF SessionInv, TypeOK
    <3> QED
      BY <1>1, <3>1, <3>2, <3>3, <3>4, <3>5, <3>6, <3>7, RequestStep
  <2> QED
    BY <2>8, <2>9
<1>9. CASE Touch(r)
  <2> DEFINE new == Renewed(q.stamps, q.at)
             p == [q EXCEPT !.stamps = new, !.out.token = q.token]
  <2>1. q.pc = "touch" /\ Touchable(q) /\ server' = Touched(q) /\ UsedIf(AnonOK(q), q.token)
        /\ Become(r, Loaded(p, TRUE))
    BY <1>9 DEF Touch
  <2>2. q.at \in Nat /\ q.stamps \in Stamps /\ q.promoted \in BOOLEAN
    BY <1>0 DEF RequestRecords
  <2>3. new \in Stamps
    BY <2>2, RenewedType
  <2>4. p \in RequestRecords
    BY <2>3, <1>0 DEF RequestRecords
  <2>5. /\ p.token = q.token /\ p.sealed = q.sealed /\ p.out.sealed = q.out.sealed
        /\ p.promoted = q.promoted /\ p.stamps = new
    BY <1>0 DEF RequestRecords
  <2> HIDE DEF p
  <2>6. AnonOK(p) => AnonOK(q)
    BY <2>5 DEF AnonOK
  <2>7. ASSUME History PROVE Fits(p.token, p.promoted, p.stamps, TRUE)
    <3>1. q.at <= used[q.token]
      BY <2>1 DEF SessionInv, TimeInv
    <3>2. Holds(r, q.token)
      BY <2>1 DEF Holds
    <3>3. Use(q.token, q.promoted) /\ StampOK(q.stamps, born[q.token], used[q.token])
      BY <1>2, <3>2 DEF Use, SessionInv, StampInv
    <3>4. StampOK(new, born[q.token], used[q.token])
      BY <3>1, <3>3, <1>2, <2>2, RenewedStamp DEF SessionInv, TypeOK
    <3> QED
      BY <3>3, <3>4, <2>2, <2>3, <2>5, <2>7, <1>2, OldFits DEF SessionInv
  <2>8. History => \A t \in Tokens : RecordFits(t, server'[t], TRUE)
    BY <2>1, TouchedFits
  <2> QED
    BY <2>1, <2>4, <2>5, <2>6, <2>7, <2>8, <1>1, <1>2, <1>3, MergeStep
<1>10. CASE TouchRefused(r)
  <2>1. q.pc = "touch" /\ UsedIf(AnonOK(q), q.token) /\ Become(r, Loaded(q, TRUE))
    BY <1>10 DEF TouchRefused
  <2>2. \A t \in Tokens : server'[t] = server[t] \/ server'[t] = None
    BY <1>10, <1>0 DEF TouchRefused, Stores
  <2>3. History => \A t \in Tokens : RecordFits(t, server'[t], TRUE)
    BY <2>2, KeptRecords
  <2> QED
    BY <2>1, <2>3, <1>0, <1>1, <1>2, <1>3, <1>6, MergeStep
<1>11. CASE TouchFails(r)
  <2>1. q.pc = "touch" /\ UsedIf(AnonOK(q), q.token) /\ Become(r, Loaded(q, TRUE))
    BY <1>11 DEF TouchFails
  <2>2. server' = server \/ (Touchable(q) /\ server' = Touched(q))
    BY <1>11 DEF TouchFails, FailingCall
  <2>3. History => \A t \in Tokens : RecordFits(t, server'[t], TRUE)
    BY <2>1, <2>2, <1>5, TouchedFits
  <2> QED
    BY <2>1, <2>3, <1>0, <1>1, <1>2, <1>3, <1>6, MergeStep
<1> QED
  BY <1>7, <1>8, <1>9, <1>10, <1>11
-----------------------------------------------------------------------------
(* The steps of the handlers. *)

\* flush writes only what the request carries, and seals no promoted session.
LEMMA FlushStep ==
    ASSUME SessionInv, TypeOK', History, NEW kind \in BOOLEAN, NEW r \in Requests,
           NEW q \in RequestRecords, NEW done \in {"open", "revoke"},
           q.token \in Tokens, Flush(r, q, done),
           UNCHANGED <<browser, now>>, \A t \in Tokens : used'[t] <= now,
           CookieFits(q.sealed, kind), CookieFits(q.out.sealed, kind),
           Fits(q.token, q.promoted, q.stamps, kind)
    PROVE  CarrierStep /\ TimeInv'
<1> DEFINE sealed == IF "anon" \in q.dirty THEN [q EXCEPT !.out.sealed = SealedOf(q)] ELSE q
           put == [server EXCEPT ![q.token] = StoredOf(q)]
           landed == [sealed EXCEPT !.pc = done, !.dirty = {}]
           kept == [sealed EXCEPT !.pc = "open", !.dirty = {"server"}]
<1>0. server \in Stores /\ CarrierInv
  BY DEF SessionInv, TypeOK, Stores, CarrierInv
<1>1. CookieFits(SealedOf(q), kind)
  <2> SUFFICES ASSUME SealedOf(q) \in Sealed PROVE CookieFits(SealedOf(q), kind)
    BY DEF CookieFits
  <2>1. SealedOf(q) # None
    BY NoRecordAssumption
  <2>2. q.slots \ PlacedOnServer(q.promoted) # {}
    BY <2>1 DEF SealedOf
  <2>3. q.slots \subseteq Slots /\ q.promoted \in BOOLEAN
    BY DEF RequestRecords
  <2>4. q.promoted = FALSE
    BY <2>2, <2>3 DEF PlacedOnServer
  <2>5. SealedOf(q).owner = q.token /\ SealedOf(q).stamps = q.stamps
    BY <2>2 DEF SealedOf
  <2> QED
    BY <2>4, <2>5 DEF CookieFits
<1>2. /\ sealed.token = q.token /\ sealed.promoted = q.promoted /\ sealed.stamps = q.stamps
      /\ sealed.sealed = q.sealed /\ CookieFits(sealed.out.sealed, kind)
      /\ sealed \in RequestRecords
  BY <1>1, SealedOfType DEF RequestRecords
<1>3. RecordFits(q.token, StoredOf(q), kind)
  BY DEF RecordFits, StoredOf
<1>4. \A t \in Tokens : RecordFits(t, server[t], kind)
  BY <1>0, OldRecord
<1>5. \A t \in Tokens : RecordFits(t, put[t], kind)
  BY <1>0, <1>3, <1>4 DEF Stores
<1>6. /\ server' = server \/ server' = put
      /\ Become(r, landed) \/ Become(r, kept)
  BY DEF Flush, FailingCall
<1> HIDE DEF sealed, put
<1>7. \A t \in Tokens : RecordFits(t, server'[t], kind)
  BY <1>4, <1>5, <1>6
<1>8. RequestFits(landed, kind) /\ landed.pc \in {"open", "revoke"}
  BY <1>2 DEF RequestFits, RequestRecords
<1>9. RequestFits(kept, kind) /\ kept.pc \in {"open", "revoke"}
  BY <1>2 DEF RequestFits, RequestRecords
<1>10. CookieFits(browser'.sealed, kind)
  BY <1>0, OldBrowser
<1> HIDE DEF landed, kept
<1>11. PICK p : Become(r, p) /\ RequestFits(p, kind) /\ p.pc \in {"open", "revoke"}
  BY <1>6, <1>8, <1>9
<1> QED
  BY <1>7, <1>10, <1>11, RequestStep

\* A token just issued fits, with the stamps of a new record.
LEMMA MintedFits ==
    ASSUME SessionInv, Mint, NEW q \in RequestRecords
    PROVE  LET m == Minted(q)
           IN  /\ Fits(m.token, m.promoted, m.stamps, q.promoted)
               /\ m.promoted = q.promoted /\ m.sealed = q.sealed
               /\ m.out.sealed = q.out.sealed
<1> DEFINE m == Minted(q)
<1>1. /\ m.token = issued + 1 /\ m.promoted = q.promoted /\ m.sealed = q.sealed
      /\ m.out.sealed = q.out.sealed /\ m.stamps = NewStamps(now)
  BY DEF Minted, RequestRecords
<1>2. born'[issued + 1] = now /\ used'[issued + 1] = now /\ issued' = issued + 1
  BY MintHistory DEF SessionInv, Mint
<1>3. StampOK(NewStamps(now), now, now)
  BY SessionAssumption DEF NewStamps, StampOK, SessionInv, TypeOK
<1> QED
  BY <1>1, <1>2, <1>3 DEF Fits

LEMMA SetSlotStep ==
    ASSUME SessionInv, TypeOK', NEW r \in Requests, NEW s \in Slots,
           NEW done \in {"open", "revoke"}, SetSlot(r, s, done)
    PROVE  CarrierStep /\ TimeInv'
<1> DEFINE o == req[r]
           q == IF o.token = None THEN Minted(o) ELSE o
           p == [q EXCEPT !.slots = @ \cup {s}, !.dirty = @ \cup {Bucket(q, s)}]
<1>0. o \in RequestRecords /\ now \in Nat /\ issued \in Nat /\ CarrierInv
  BY SessionAssumption DEF SessionInv, TypeOK, CarrierInv
<1>1. o.promoted \in BOOLEAN /\ o.pc = "open"
  BY <1>0 DEF RequestRecords, SetSlot, Operate
<1>2. IF o.token = None THEN Mint ELSE UNCHANGED <<issued, born, used>>
  BY DEF SetSlot
<1>3. /\ History /\ \A t \in Tokens : used'[t] <= now
      /\ q \in RequestRecords /\ q.token \in Tokens
      /\ Fits(q.token, q.promoted, q.stamps, o.promoted)
      /\ CookieFits(q.sealed, o.promoted) /\ CookieFits(q.out.sealed, o.promoted)
  <2>1. CASE o.token = None
    <3>1. Mint
      BY <1>2, <2>1
    <3>2. History /\ \A t \in Tokens : used'[t] <= now
      BY <3>1, MintHistory DEF SessionInv
    <3>3. RequestFits(o, o.promoted)
      BY <3>2, <1>0, OldRequest
    <3>4. Minted(o) \in RequestRecords /\ Minted(o).token \in Tokens
      BY <3>1, <1>0, MintedType DEF Mint
    <3> QED
      BY <2>1, <3>1, <3>2, <3>3, <3>4, <1>0, MintedFits DEF RequestFits
  <2>2. CASE o.token # None
    <3>1. History /\ \A t \in Tokens : used'[t] <= now
      BY <2>2, <1>2, IdleHistory DEF SessionInv, TimeInv
    <3>2. RequestFits(o, o.promoted)
      BY <3>1, <1>0, OldRequest
    <3> QED
      BY <2>2, <3>1, <3>2, <1>0, <1>1 DEF RequestFits, RequestRecords
  <2> QED
    BY <2>1, <2>2
<1>4. Bucket(q, s) \in {"anon", "server"}
  BY DEF Bucket
<1>5. Flush(r, p, done) /\ UNCHANGED <<browser, now>>
  BY DEF SetSlot
<1> HIDE DEF q
<1>6. /\ p \in RequestRecords /\ p.token = q.token /\ p.promoted = q.promoted
      /\ p.stamps = q.stamps /\ p.sealed = q.sealed /\ p.out = q.out
  BY <1>3, <1>4 DEF RequestRecords
<1> HIDE DEF p
<1> QED
  BY <1>1, <1>3, <1>5, <1>6, FlushStep
\* Steps of request r that issue no token and leave the records alone or remove them.
LEMMA PlainStep ==
    ASSUME SessionInv, TypeOK', NEW r \in Requests, NEW p,
           UNCHANGED <<browser, issued, now, born, used>>, Become(r, p),
           \A t \in Tokens : server'[t] = server[t] \/ server'[t] = None,
           p.pc \notin {"get", "touch"},
           p.token # None /\ p.pc \notin {"idle", "expire"}
              => /\ p.token = req[r].token /\ p.promoted = req[r].promoted
                 /\ p.stamps = req[r].stamps
                 /\ req[r].pc \notin {"idle", "get", "expire"},
           p.sealed \in {req[r].sealed, None},
           p.out.sealed \in {req[r].out.sealed, None, Keep}
    PROVE  CarrierStep /\ TimeInv'
<1>0. CarrierInv
  BY DEF SessionInv, CarrierInv
<1>1. History /\ \A t \in Tokens : used'[t] <= now
  BY IdleHistory DEF SessionInv, TimeInv
<1>2. RequestFits(req[r], TRUE) /\ CookieFits(browser'.sealed, TRUE)
  BY <1>0, <1>1, OldRequest, OldBrowser
<1>3. \A t \in Tokens : RecordFits(t, server'[t], TRUE)
  BY <1>1, KeptRecords
<1>4. CookieFits(p.sealed, TRUE) /\ CookieFits(p.out.sealed, TRUE)
  BY <1>2, NoRecordAssumption DEF RequestFits, CookieFits
<1>5. RequestFits(p, TRUE)
  BY <1>2, <1>4 DEF RequestFits
<1> QED
  BY <1>1, <1>2, <1>3, <1>5, RequestStep

LEMMA ClearStep ==
    ASSUME SessionInv, TypeOK', NEW r \in Requests, NEW s \in Slots, Clear(r, s)
    PROVE  CarrierStep /\ TimeInv'
<1> DEFINE o == req[r]
           q == [o EXCEPT !.slots = @ \ {s}]
           p == [q EXCEPT !.dirty = @ \cup {Bucket(q, s)}]
<1>0. o \in RequestRecords /\ CarrierInv
  BY DEF SessionInv, TypeOK, CarrierInv
<1>1. UNCHANGED <<browser, issued, now, born, used>> /\ o.pc = "open"
  BY DEF Clear, Operate
<1>2. /\ q \in RequestRecords /\ q.token = o.token /\ q.promoted = o.promoted /\ q.pc = o.pc
      /\ q.stamps = o.stamps /\ q.sealed = o.sealed /\ q.out = o.out
  BY <1>0 DEF RequestRecords
<1>3. CASE q.token = None
  <2>1. Become(r, q) /\ server' = server
    BY <1>3 DEF Clear
  <2> HIDE DEF q
  <2> QED
    BY <2>1, <1>1, <1>2, <1>3, PlainStep
<1>4. CASE q.token # None
  <2>1. Flush(r, p, "open")
    BY <1>4 DEF Clear
  <2>2. History /\ \A t \in Tokens : used'[t] <= now
    BY <1>1, IdleHistory DEF SessionInv, TimeInv
  <2>3. RequestFits(o, TRUE)
    BY <2>2, <1>0, OldRequest
  <2>4. Bucket(q, s) \in {"anon", "server"}
    BY DEF Bucket
  <2> HIDE DEF q
  <2>5. /\ p \in RequestRecords /\ p.token = o.token /\ p.promoted = o.promoted
        /\ p.stamps = o.stamps /\ p.sealed = o.sealed /\ p.out = o.out
    BY <1>2, <2>4 DEF RequestRecords
  <2>6. o.token \in Tokens
    BY <1>0, <1>2, <1>4 DEF RequestRecords
  <2> HIDE DEF p
  <2>7. /\ Fits(p.token, p.promoted, p.stamps, TRUE)
        /\ CookieFits(p.sealed, TRUE) /\ CookieFits(p.out.sealed, TRUE)
    BY <2>3, <2>5, <1>1, <1>2, <1>4 DEF RequestFits
  <2> QED
    BY <1>1, <2>1, <2>2, <2>5, <2>6, <2>7, FlushStep
<1> QED
  BY <1>3, <1>4

\* A rotation, in its three steps.
LEMMA RotationStep ==
    ASSUME SessionInv, TypeOK', NEW r \in Requests,
           Rotate(r) \/ RotateRevoke(r) \/ RotateIssue(r)
    PROVE  CarrierStep /\ TimeInv'
<1> DEFINE o == req[r]
<1>0. o \in RequestRecords /\ server \in Stores /\ CarrierInv /\ now \in Nat /\ issued \in Nat
  BY SessionAssumption DEF SessionInv, TypeOK, Stores, CarrierInv
<1>1. CASE Rotate(r)
  <2> DEFINE p == [o EXCEPT !.pc = "revoke"]
  <2>1. Become(r, p) /\ UNCHANGED <<browser, server, issued, now, born, used>> /\ o.pc = "open"
    BY <1>1 DEF Rotate, Operate
  <2>2. /\ p.token = o.token /\ p.promoted = o.promoted /\ p.pc = "revoke"
        /\ p.stamps = o.stamps /\ p.sealed = o.sealed /\ p.out = o.out
    BY <1>0 DEF RequestRecords
  <2> HIDE DEF p
  <2> QED
    BY <2>1, <2>2, PlainStep
<1>2. CASE RotateRevoke(r)
  <2> DEFINE q == [o EXCEPT !.slots = @ \ ResetOnRotate]
             gone == [server EXCEPT ![q.token] = None]
             p1 == [q EXCEPT !.pc = "issue"]
             p2 == [q EXCEPT !.pc = "issue", !.out.sealed = None]
             p3 == [q EXCEPT !.pc = "open"]
  <2>1. /\ q.pc = "revoke" /\ UNCHANGED <<browser, issued, now, born, used>>
        /\ \/ server' = server \/ server' = gone
        /\ \/ Become(r, p1) \/ Become(r, p2) \/ Become(r, p3)
    BY <1>2 DEF RotateRevoke, FailingCall
  <2>2. /\ q \in RequestRecords /\ q.token = o.token /\ q.promoted = o.promoted
        /\ q.stamps = o.stamps /\ q.sealed = o.sealed /\ q.out = o.out /\ q.pc = o.pc
    BY <1>0 DEF RequestRecords
  <2>3. \A t \in Tokens : server'[t] = server[t] \/ server'[t] = None
    BY <2>1, <1>0 DEF Stores
  <2> HIDE DEF q
  <2>4. ASSUME NEW p, Become(r, p),
               p.token = o.token, p.promoted = o.promoted, p.stamps = o.stamps,
               p.pc \in {"issue", "open"}, p.sealed = o.sealed,
               p.out.sealed \in {o.out.sealed, None}
        PROVE  CarrierStep /\ TimeInv'
    BY <2>1, <2>2, <2>3, <2>4, PlainStep
  <2>5. /\ p1.token = q.token /\ p1.promoted = q.promoted /\ p1.stamps = q.stamps
        /\ p1.pc = "issue" /\ p1.sealed = q.sealed /\ p1.out = q.out
    BY <2>2 DEF RequestRecords
  <2>6. /\ p2.token = q.token /\ p2.promoted = q.promoted /\ p2.stamps = q.stamps
        /\ p2.pc = "issue" /\ p2.sealed = q.sealed /\ p2.out.sealed = None
    BY <2>2 DEF RequestRecords
  <2>7. /\ p3.token = q.token /\ p3.promoted = q.promoted /\ p3.stamps = q.stamps
        /\ p3.pc = "open" /\ p3.sealed = q.sealed /\ p3.out = q.out
    BY <2>2 DEF RequestRecords
  <2> HIDE DEF p1, p2, p3
  <2> QED
    BY <2>1, <2>2, <2>4, <2>5, <2>6, <2>7
<1>3. CASE RotateIssue(r)
  <2> DEFINE q == [o EXCEPT !.promoted = TRUE, !.dirty = {"server"}]
             m == Minted(q)
  <2>1. Mint /\ Flush(r, m, "open") /\ UNCHANGED <<browser, now>>
    BY <1>3 DEF RotateIssue
  <2>2. History /\ \A t \in Tokens : used'[t] <= now
    BY <2>1, MintHistory DEF SessionInv
  <2>3. /\ q \in RequestRecords /\ q.promoted = TRUE /\ q.sealed = o.sealed /\ q.out = o.out
    BY <1>0 DEF RequestRecords
  <2>4. RequestFits(o, TRUE)
    BY <2>2, <1>0, OldRequest
  <2> HIDE DEF q
  <2>5. m \in RequestRecords /\ m.token \in Tokens
    BY <2>1, <2>3, <1>0, MintedType DEF Mint
  <2>6. /\ Fits(m.token, m.promoted, m.stamps, TRUE)
        /\ m.sealed = o.sealed /\ m.out.sealed = o.out.sealed
    BY <2>1, <2>3, MintedFits
  <2>7. CookieFits(m.sealed, TRUE) /\ CookieFits(m.out.sealed, TRUE)
    BY <2>4, <2>6 DEF RequestFits
  <2> HIDE DEF m
  <2> QED
    BY <2>1, <2>2, <2>5, <2>6, <2>7, FlushStep
<1> QED
  BY <1>1, <1>2, <1>3

LEMMA DestroyStep ==
    ASSUME SessionInv, TypeOK', NEW r \in Requests, Destroy(r)
    PROVE  CarrierStep /\ TimeInv'
<1> DEFINE o == req[r]
           p == Destroyed(o)
<1>0. o \in RequestRecords /\ server \in Stores
  BY DEF SessionInv, TypeOK, Stores
<1>1. Become(r, p) /\ UNCHANGED <<browser, issued, now, born, used>> /\ o.pc = "open"
  BY DEF Destroy, Operate
<1>2. \A t \in Tokens : server'[t] = server[t] \/ server'[t] = None
  BY <1>0 DEF Destroy, FailingCall, Stores
<1>3. /\ p.token = None /\ p.pc = o.pc /\ p.sealed = o.sealed
      /\ p.out.sealed \in {o.out.sealed, None}
  BY <1>0 DEF Destroyed, RequestRecords
<1> HIDE DEF p
<1> QED
  BY <1>1, <1>2, <1>3, PlainStep

\* The response reaches the browser, or the request dies.
LEMMA EndStep ==
    ASSUME SessionInv, TypeOK', NEW r \in Requests, Respond(r) \/ Abandon(r)
    PROVE  CarrierStep /\ TimeInv'
<1>0. CarrierInv
  BY DEF SessionInv, CarrierInv
<1>1. Become(r, IdleRequest) /\ UNCHANGED <<server, issued, now, born, used>>
  BY DEF Respond, Abandon
<1>2. History /\ \A t \in Tokens : used'[t] <= now
  BY <1>1, IdleHistory DEF SessionInv, TimeInv
<1>3. \A t \in Tokens : RecordFits(t, server'[t], TRUE)
  BY <1>1, <1>2, KeptRecords
<1>4. RequestFits(req[r], TRUE) /\ CookieFits(browser.sealed, TRUE)
  BY <1>0, <1>2, OldRequest, OldBrowser
<1>5. browser'.sealed \in {browser.sealed, req[r].out.sealed}
  BY DEF Respond, Abandon
<1>6. CookieFits(browser'.sealed, TRUE)
  BY <1>4, <1>5 DEF RequestFits
<1> QED
  BY <1>1, <1>2, <1>3, <1>6, IdleFits, RequestStep DEF IdleRequest

\* No request moves: records expire, time passes.
LEMMA EnvironmentStep ==
    ASSUME SessionInv, TypeOK', (\E t \in Tokens : Prune(t)) \/ Tick \/ vars' = vars
    PROVE  CarrierStep /\ TimeInv'
<1>0. CarrierInv /\ server \in Stores /\ now \in Nat
  BY DEF SessionInv, CarrierInv, TypeOK, Stores
<1>1. UNCHANGED <<browser, req, issued, born, used>> /\ (now' = now \/ now' = now + 1)
  BY DEF Prune, Tick, vars
<1>2. History
  BY <1>1, IdleHistory DEF SessionInv
<1>3. \A t \in Tokens : server'[t] = server[t] \/ server'[t] = None
  BY <1>0 DEF Prune, Tick, vars, Stores
<1>4. \A t \in Tokens : RecordFits(t, server'[t], TRUE)
  BY <1>2, <1>3, KeptRecords
<1>5. \A r \in Requests : RequestFits(req'[r], TRUE)
  BY <1>0, <1>1, <1>2, OldRequest
<1>6. CookieFits(browser'.sealed, TRUE)
  BY <1>0, <1>1, <1>2, OldBrowser
<1>7. CarrierStep
  BY <1>0, <1>2, <1>4, <1>5, <1>6, GoodStep
<1>8. TimeInv'
  <2>1. ASSUME NEW t \in Tokens PROVE used'[t] <= now'
    <3>1. used[t] \in Nat /\ used[t] <= now
      BY DEF SessionInv, TypeOK, TimeInv
    <3> QED
      BY <3>1, <1>0, <1>1
  <2> QED
    BY <2>1, <1>1 DEF SessionInv, TimeInv
<1> QED
  BY <1>7, <1>8
-----------------------------------------------------------------------------
LEMMA SessionStep ==
    ASSUME SessionInv, [Next]_vars
    PROVE  SessionInv' /\ \A t \in Tokens : Dead(t) => Dead(t)'
<1>1. TypeOK'
  BY StepTypeOK DEF SessionInv
<1>2. ASSUME NEW r \in Requests, LoadNext(r) PROVE CarrierStep /\ TimeInv'
  BY <1>1, <1>2, QuietLoadStep, AnsweredLoadStep DEF LoadNext
<1>3. ASSUME NEW r \in Requests, HandlerNext(r) PROVE CarrierStep /\ TimeInv'
  <2>1. ASSUME NEW s \in Slots, Set(r, s) PROVE CarrierStep /\ TimeInv'
    BY <2>1, <1>1, SetSlotStep DEF Set
  <2>2. ASSUME NEW s \in Slots, Clear(r, s) PROVE CarrierStep /\ TimeInv'
    BY <2>2, <1>1, ClearStep
  <2>3. CASE Establish(r)
    BY <2>3, <1>1, SetSlotStep, SessionAssumption DEF Establish
  <2>4. CASE Rotate(r) \/ RotateRevoke(r) \/ RotateIssue(r)
    BY <2>4, <1>1, RotationStep
  <2>5. CASE Destroy(r)
    BY <2>5, <1>1, DestroyStep
  <2> QED
    BY <1>3, <2>1, <2>2, <2>3, <2>4, <2>5 DEF HandlerNext
<1>4. ASSUME NEW r \in Requests, Respond(r) \/ Abandon(r) PROVE CarrierStep /\ TimeInv'
  BY <1>1, <1>4, EndStep
<1>5. ASSUME (\E t \in Tokens : Prune(t)) \/ Tick \/ vars' = vars
      PROVE  CarrierStep /\ TimeInv'
  BY <1>1, <1>5, EnvironmentStep
<1>6. CarrierStep /\ TimeInv'
  BY <1>2, <1>3, <1>4, <1>5 DEF Next
<1> QED
  BY <1>6 DEF CarrierStep, SessionInv

(* The invariant the other results rest on: whatever carries a token -     *)
(* record, request or sealed cookie - agrees with every other carrier on   *)
(* its promotion and its absolute bound, and grants it no more idle time   *)
(* than its last use does.                                                 *)
THEOREM SessionInvariant == Spec => []SessionInv
<1>1. Init => SessionInv
  <2> SUFFICES ASSUME Init PROVE SessionInv
    OBVIOUS
  <2>1. TypeOK
    <3>1. req \in [Requests -> RequestRecords]
      BY IdleRequestType DEF Init
    <3> QED
      BY <3>1, SessionAssumption DEF Init, TypeOK, Cookies
  <2>2. \A r \in Requests : req[r] = IdleRequest
    BY DEF Init
  <2>3. SealedCookies = {}
    BY <2>2 DEF Init, SealedCookies, IdleRequest, Quiet
  <2>4. \A r \in Requests, t \in Tokens : ~Holds(r, t)
    BY <2>2 DEF Holds, IdleRequest
  <2>5. \A t \in Tokens : server[t] = None /\ used[t] = 0
    BY DEF Init
  <2>6. \A t \in Tokens, k \in BOOLEAN : ~Use(t, k)
    BY <2>3, <2>4, <2>5 DEF Use
  <2>7. KindInv /\ FreshInv
    BY <2>5, <2>6 DEF KindInv, FreshInv
  <2>8. StampInv
    BY <2>3, <2>4, <2>5 DEF StampInv
  <2>9. TimeInv
    BY <2>2, <2>5 DEF TimeInv, IdleRequest, Init
  <2> QED
    BY <2>1, <2>7, <2>8, <2>9 DEF SessionInv
<1>2. SessionInv /\ [Next]_vars => SessionInv'
  BY SessionStep
<1> QED
  BY <1>1, <1>2, PTL DEF Spec

(* Promotion is one-way: a token whose server record a rotation has        *)
(* promoted has no sealed cookie, in the browser, presented or on its way, *)
(* however many requests were in flight.                                   *)
THEOREM PromotionCorrect == Spec => []PromotedOnServer
<1>1. SessionInv => PromotedOnServer
  <2> SUFFICES ASSUME SessionInv, NEW c \in SealedCookies,
                      server[c.owner] # None, server[c.owner].promoted
               PROVE  FALSE
    BY DEF PromotedOnServer
  <2>1. c.owner \in Tokens
    BY SealedIsCookie DEF SessionInv, Sealed
  <2>2. server[c.owner].promoted \in BOOLEAN
    BY <2>1 DEF SessionInv, TypeOK, Records
  <2>3. Use(c.owner, FALSE) /\ Use(c.owner, TRUE)
    BY <2>2 DEF Use
  <2> QED
    BY <2>1, <2>3 DEF SessionInv, KindInv
<1> QED
  BY <1>1, SessionInvariant, PTL

(* No session fixation: a token nothing carries any more is never carried  *)
(* again, whatever a browser presents.                                     *)
THEOREM DeadTokensCorrect == Spec => DeadTokensStayDead
<1>1. SessionInv /\ [Next]_vars => [\A t \in Tokens : Dead(t) => Dead(t)']_vars
  BY SessionStep
<1> QED
  BY <1>1, SessionInvariant, PTL DEF Spec, DeadTokensStayDead
-----------------------------------------------------------------------------
(* Lifetimes. *)

\* Good stamps that have not expired bound the time by both lifetimes.
LEMMA UnexpiredBounds ==
    ASSUME NEW s \in Stamps, NEW b \in Nat, NEW u \in Nat, NEW at \in Nat,
           StampOK(s, b, u), ~Expired(s, at), TTL > 0
    PROVE  /\ at < b + TTL
           /\ IdleTimeout > 0 => at < u + IdleTimeout
<1>1. s.expires = b + TTL /\ s.expires \in Nat /\ s.idle \in Nat
  BY DEF StampOK, Stamps
<1>2. IdleTimeout > 0 => s.idle # 0 /\ s.idle <= u + IdleTimeout
  BY DEF StampOK
<1>3. Deadline(s) = IF s.idle # 0 /\ s.idle < s.expires THEN s.idle ELSE s.expires
  BY <1>1, SessionAssumption DEF Deadline
<1>4. Deadline(s) \in Nat /\ Deadline(s) # 0 /\ Deadline(s) <= s.expires
  BY <1>1, <1>3, SessionAssumption
<1>5. at < Deadline(s)
  BY <1>4 DEF Expired
<1>6. IdleTimeout > 0 => Deadline(s) <= s.idle
  BY <1>1, <1>2, <1>3
<1> QED
  BY <1>1, <1>2, <1>4, <1>5, <1>6, SessionAssumption

\* A use of a token is its issue, or comes within both of its lifetimes.
LEMMA UseInTime ==
    ASSUME SessionInv, [Next]_vars, TTL > 0, NEW t \in Tokens, used'[t] # used[t]
    PROVE  /\ used'[t] < born'[t] + TTL
           /\ used[t] # 0 /\ IdleTimeout > 0 => used'[t] < used[t] + IdleTimeout
<1>0. /\ used \in [Tokens -> Nat] /\ born \in [Tokens -> Nat] /\ now \in Nat
      /\ \A r \in Requests : req[r] \in RequestRecords
  BY DEF SessionInv, TypeOK
<1>1. ASSUME NEW r \in Requests, AnonOK(req[r]), born' = born,
             UsedIf(AnonOK(req[r]), req[r].token)
      PROVE  /\ used'[t] < born'[t] + TTL
             /\ IdleTimeout > 0 => used'[t] < used[t] + IdleTimeout
  <2> DEFINE c == req[r].sealed
  <2>1. c \in Sealed /\ c.owner = req[r].token /\ ~Expired(c.stamps, now)
    BY <1>0, <1>1 DEF AnonOK, RequestRecords, Cookies
  <2>2. used' = [used EXCEPT ![c.owner] = now]
    BY <1>1, <2>1 DEF UsedIf
  <2>3. t = c.owner /\ used'[t] = now
    BY <2>2, <1>0
  <2>4. c \in SealedCookies
    BY <2>1, SealedIsCookie DEF SessionInv
  <2>5. StampOK(c.stamps, born[t], used[t]) /\ c.stamps \in Stamps
    BY <2>1, <2>3, <2>4 DEF SessionInv, StampInv, Sealed
  <2> QED
    BY <2>1, <2>3, <2>5, <1>0, <1>1, UnexpiredBounds
<1>2. ASSUME NEW r \in Requests, GetLive(r)
      PROVE  /\ used'[t] < born'[t] + TTL
             /\ IdleTimeout > 0 => used'[t] < used[t] + IdleTimeout
  <2> DEFINE k == req[r].token
             record == server[k]
  <2>1. /\ k # None /\ record # None /\ ~Expired(record.stamps, now) /\ born' = born
        /\ UsedIf(TRUE, k)
    <3>1. [req[r] EXCEPT !.slots = record.slots, !.promoted = record.promoted,
                         !.stamps = record.stamps, !.at = now].token = k
      BY <1>0 DEF RequestRecords
    <3> QED
      BY <1>2, <3>1 DEF GetLive, Presented
  <2>2. used' = [used EXCEPT ![k] = now]
    BY <2>1 DEF UsedIf
  <2>3. t = k /\ used'[t] = now
    BY <2>2, <1>0
  <2>4. StampOK(record.stamps, born[t], used[t]) /\ record.stamps \in Stamps
    BY <2>1, <2>3 DEF SessionInv, StampInv, TypeOK, Records
  <2> QED
    BY <2>1, <2>3, <2>4, <1>0, UnexpiredBounds
<1>3. ASSUME Mint
      PROVE  used'[t] < born'[t] + TTL /\ used[t] = 0
  <2>1. t = issued + 1
    BY <1>3, MintHistory DEF SessionInv
  <2>2. born'[t] = now /\ used'[t] = now /\ used[t] = 0
    BY <1>3, <2>1, MintHistory DEF SessionInv
  <2> QED
    BY <2>2, <1>0, SessionAssumption
<1>4. used' # used
  OBVIOUS
<1>5. ASSUME NEW r \in Requests, LoadNext(r)
      PROVE  GetLive(r) \/ (AnonOK(req[r]) /\ born' = born /\ UsedIf(AnonOK(req[r]), req[r].token))
  BY <1>4, <1>5 DEF LoadNext, Begin, LoadNothing, GetFails, GetMissing, GetExpired, Expire,
                    Touch, TouchRefused, TouchFails, UsedIf
<1>6. ASSUME NEW r \in Requests, HandlerNext(r) PROVE Mint
  <2>1. ASSUME NEW s, NEW done, SetSlot(r, s, done) PROVE Mint
    BY <1>4, <2>1 DEF SetSlot
  <2> QED
    BY <1>4, <1>6, <2>1 DEF HandlerNext, Set, Establish, Clear, Rotate, RotateRevoke,
                            RotateIssue, Destroy
<1>7. \E r \in Requests : LoadNext(r) \/ HandlerNext(r)
  BY <1>4 DEF Next, Respond, Abandon, Prune, Tick, vars
<1> QED
  BY <1>1, <1>2, <1>3, <1>5, <1>6, <1>7

(* The absolute bound: no renewal, and no copy of a record or of a cookie  *)
(* written back late, lets a request be served under a token TTL or longer *)
(* after it was issued.                                                    *)
THEOREM AbsoluteCorrect == Spec => AbsoluteEnforced
<1>1. SessionInv /\ [Next]_vars =>
        [\A t \in Tokens : TTL > 0 /\ used'[t] # used[t] => used'[t] < born'[t] + TTL]_vars
  BY UseInTime
<1> QED
  BY <1>1, SessionInvariant, PTL DEF Spec, AbsoluteEnforced

(* The idle bound, for a session that has an absolute one: no request is   *)
(* served under a token unused for IdleTimeout or longer.  Without an      *)
(* absolute bound newRecord stamps no idle bound before the first renewal, *)
(* so the hypothesis is needed.                                            *)
THEOREM IdleCorrect ==
    ASSUME TTL > 0
    PROVE  Spec => IdleEnforced
<1>1. SessionInv /\ [Next]_vars =>
        [\A t \in Tokens : IdleTimeout > 0 /\ used[t] # 0 /\ used'[t] # used[t]
                             => used'[t] < used[t] + IdleTimeout]_vars
  BY UseInTime
<1> QED
  BY <1>1, SessionInvariant, PTL DEF Spec, IdleEnforced
(* Only handlers change what a record holds, in a store whose Touch writes *)
(* the stamps in place: a rotation writes under a token that has no record *)
(* yet, and everything else that is no operation of a handler keeps the    *)
(* values or removes the record.  A store that renews by writing the       *)
(* caller's copy does not keep this promise.                               *)
THEOREM PayloadCorrect ==
    ASSUME ~TouchRewrites
    PROVE  Spec => ReadsKeepPayload
<1> DEFINE Kept(t) ==
        server[t] # None /\ server'[t] # None /\ server'[t].slots # server[t].slots => ops' # ops
<1>1. ASSUME SessionInv, [Next]_vars, NEW t \in Tokens PROVE Kept(t)
  <2> SUFFICES ASSUME server[t] # None, server'[t] # None, server'[t].slots # server[t].slots
               PROVE  ops' # ops
    OBVIOUS
  <2>0. /\ server \in Stores /\ ops \in Nat /\ issued \in Nat
        /\ \A r \in Requests : req[r] \in RequestRecords
    BY <1>1, SessionAssumption DEF SessionInv, TypeOK, Stores
  <2>1. server' # server
    OBVIOUS
  <2>2. ASSUME NEW k, server' = [server EXCEPT ![k] = None] PROVE FALSE
    BY <2>2, <2>0 DEF Stores
  <2>3. ASSUME NEW r \in Requests, LoadNext(r) PROVE FALSE
    <3> DEFINE q == req[r]
    <3>1. ASSUME Touchable(q), server' = Touched(q) PROVE FALSE
      <4>1. server' = [server EXCEPT ![q.token] =
                         [server[q.token] EXCEPT !.stamps.seen = q.at,
                                                 !.stamps.idle = Renewed(q.stamps, q.at).idle]]
        BY <3>1, <2>0 DEF Touched, Stores
      <4>2. t = q.token
        BY <4>1, <2>0 DEF Stores
      <4>3. server[t] \in Records
        BY <2>0 DEF Stores
      <4> QED
        BY <4>1, <4>2, <4>3, <2>0 DEF Records, Stores
    <3>2. \/ server' = server
          \/ server' = [server EXCEPT ![q.token] = None]
          \/ Touchable(q) /\ server' = Touched(q)
      BY <2>3 DEF LoadNext, Begin, LoadNothing, GetFails, GetMissing, GetExpired, Expire, GetLive,
                  Touch, TouchRefused, TouchFails, FailingCall
    <3> QED
      BY <3>1, <3>2, <2>1, <2>2
  <2>4. ASSUME NEW r \in Requests, HandlerNext(r) PROVE ops' # ops
    <3>1. Operate(r) => ops' # ops
      BY <2>0 DEF Operate
    <3>2. CASE RotateRevoke(r)
      <4> DEFINE k == [req[r] EXCEPT !.slots = @ \ ResetOnRotate].token
      <4>1. server' = server \/ server' = [server EXCEPT ![k] = None]
        BY <3>2 DEF RotateRevoke, FailingCall
      <4> QED
        BY <4>1, <2>1, <2>2
    <3>3. CASE RotateIssue(r)
      <4> DEFINE p == [req[r] EXCEPT !.promoted = TRUE, !.dirty = {"server"}]
                 m == Minted(p)
      <4>1. Flush(r, m, "open")
        BY <3>3 DEF RotateIssue
      <4>2. m.token = issued + 1
        BY <2>0 DEF Minted, RequestRecords
      <4> HIDE DEF m
      <4>3. server' = server \/ server' = [server EXCEPT ![issued + 1] = StoredOf(m)]
        BY <4>1, <4>2 DEF Flush, FailingCall
      <4>4. t = issued + 1
        BY <4>3, <2>0, <2>1 DEF Stores
      <4>5. t <= issued
        BY <1>1, RecordIssued
      <4> QED
        BY <4>4, <4>5, <2>0
    <3> QED
      BY <2>4, <3>1, <3>2, <3>3 DEF HandlerNext, Set, Establish, SetSlot, Clear, Rotate, Destroy
  <2>5. ASSUME NEW k \in Tokens, Prune(k) PROVE FALSE
    BY <2>5, <2>2 DEF Prune
  <2>6. \/ \E r \in Requests : LoadNext(r) \/ HandlerNext(r)
        \/ \E k \in Tokens : Prune(k)
    BY <1>1, <2>1 DEF Next, Respond, Abandon, Tick, vars
  <2> QED
    BY <2>3, <2>4, <2>5, <2>6
<1>2. SessionInv /\ [Next]_vars => [\A t \in Tokens : Kept(t)]_vars
  BY <1>1
<1> QED
  BY <1>2, SessionInvariant, PTL DEF Spec, ReadsKeepPayload

=============================================================================
