----------------------------- MODULE LiveProofs -----------------------------
(* Theorems about live delivery, for every set of boundaries, loops and    *)
(* responses, and every bound on faults, restarts and navigations.         *)
EXTENDS Live, SequenceTheorems, FiniteSetTheorems, TLAPS

-----------------------------------------------------------------------------
(* The invariant. *)

\* A validator that is known is that of the content it stands beside.
Truthful(x) == x.digest # None => x.digest[2] = x.content

Deliveries ==
    {x \in [kind : {"await"}, id : Boundaries, content : Pages \X Values, digest : Digests] :
        Truthful(x)}
WireRecords ==
    [kind : {"head"}, build : Keys] \cup Deliveries
      \cup [kind : {"retry", "done"}]

ResponseRecords ==
    [pc : {"free", "asked", "open", "closing", "over"}, loop : Loops \cup {None}, page : Pages,
     onScreen : [Boundaries -> Digests], due : [Boundaries -> {"never", "again", "no"}],
     committed : BOOLEAN, wire : Seq(WireRecords), cut : BOOLEAN]

Regions == {x \in [content : Contents, digest : Digests] : Truthful(x)}

ServerTypes ==
    /\ value \in [Boundaries -> Values] /\ producing \in BOOLEAN
    /\ process \in [key : Keys, build : Keys, open : Nat]
    /\ changes \in Nat /\ restarts \in Nat /\ faults \in Nat
ScreenTypes ==
    /\ loop \in [Loops -> {"none", "reading", "asleep"}]
    /\ connection \in Loops \cup {None} /\ running \in BOOLEAN
    /\ applied \in [Boundaries -> Regions]
    /\ page \in Pages /\ nav \in BOOLEAN /\ doubled \in BOOLEAN
    /\ doc \in [state : {"loading", "whole", "stuck"}, version : Keys, guard : BOOLEAN]
Types == ServerTypes /\ response \in [Responses -> ResponseRecords] /\ ScreenTypes

\* The responses whose release is still to come.
Admitted == {r \in Responses : response[r].pc \in {"open", "closing"}}
CountInv == process.open = Cardinality(Admitted) /\ process.open <= MaxResponses
KeyInv == process.key = restarts /\ process.build <= restarts /\ restarts <= MaxRestarts

\* A document that is not there runs nothing, and a navigation has stopped what
\* it knows of.
DocInv ==
    /\ doc.guard => doc.state # "whole"
    /\ nav => doc.state = "whole" /\ ~running
    /\ doc.state # "whole" =>
          (\A l \in Loops : loop[l] = "none") /\ connection = None /\ ~running /\ ~doubled

\* A response is read by one loop, and a loop reads one response.
ReaderInv ==
    /\ \A r \in Responses : response[r].loop # None => loop[response[r].loop] = "reading"
    /\ \A r, s \in Responses :
          response[r].loop # None /\ response[r].loop = response[s].loop => r = s

\* Unless two loops have connected, there is one, `connection' holds its
\* controller, and a navigation finds it stopped.
SingleInv ==
    ~doubled =>
        /\ \A l, m \in Loops : loop[l] # "none" /\ loop[m] # "none" => l = m
        /\ \A l \in Loops : loop[l] = "reading" => connection = l /\ ~nav

\* What a response that is read carries belongs to page p.
RecordsOf(w, p) ==
    \A i \in DOMAIN w : w[i].kind = "await" => w[i].content[1] = Home[p][w[i].id]
OfPage(q, p) == q.loop # None => q.page = p /\ RecordsOf(q.wire, p)
ShowsPage(regions, p) == \A b \in Boundaries : regions[b].content[1] = Home[p][b]

PageInv ==
    ~doubled =>
        /\ \A r \in Responses : OfPage(response[r], page)
        /\ doc.state = "whole" => ShowsPage(applied, page)

\* Reading w, a region b with validator a comes to have validator d.
AwaitsAt(w, b) == {i \in DOMAIN w : w[i].kind = "await" /\ w[i].id = b}
ComesTo(w, b, a, d) ==
    \/ AwaitsAt(w, b) = {} /\ a = d
    \/ \E i \in AwaitsAt(w, b) : w[i].digest = d /\ \A j \in AwaitsAt(w, b) : j <= i

Believes(q, regions) ==
    q.pc \in {"asked", "open"} /\ q.loop # None /\ ~q.cut =>
        \A b \in Boundaries :
            q.onScreen[b] # None => ComesTo(q.wire, b, regions[b].digest, q.onScreen[b])

BeliefInv == ~doubled => \A r \in Responses : Believes(response[r], applied)

\* What holds whichever boundaries are nested, and what needs them flat.
LiveInv ==
    Types /\ CountInv /\ KeyInv /\ DocInv /\ ReaderInv /\ SingleInv /\ PageInv
Unnested == \A b \in Boundaries : Outer[b] = {}
FlatInv == Unnested => BeliefInv
-----------------------------------------------------------------------------
(* Contents and records. *)

LEMMA ContentTypes ==
    ASSUME Types, NEW p \in Pages, NEW b \in Boundaries
    PROVE  /\ Now(p, b) \in Pages \X Values /\ Now(p, b) \in Contents
           /\ Now(p, b)[1] = Home[p][b]
           /\ Waiting(p, b) \in Contents /\ Waiting(p, b)[1] = Home[p][b]
           /\ Digest(process.key, Now(p, b)) \in Digests
           /\ Digest(process.key, Now(p, b))[2] = Now(p, b)
           /\ None \in Digests
<1>1. value[b] \in Values /\ process.key \in Keys /\ Home[p][b] \in Pages
  BY LiveAssumption DEF Types, ServerTypes
<1>2. Now(p, b) \in Pages \X Values
  BY <1>1 DEF Now
<1> QED
  BY <1>1, <1>2 DEF Now, Waiting, Contents, Digests, Digest, Fallback

LEMMA RegionTypes ==
    ASSUME NEW c \in Contents, NEW d \in Digests, d # None => d[2] = c
    PROVE  Region(c, d) \in Regions /\ Region(c, d).content = c /\ Region(c, d).digest = d
BY DEF Region, Regions, Truthful

\* The records a server writes, by kind.
LEMMA RecordTypes ==
    /\ \A k \in Keys : LET h == [kind |-> "head", build |-> k]
                       IN  h \in WireRecords /\ h.kind = "head"
    /\ \A e \in {"retry", "done"} : LET x == [kind |-> e] IN x \in WireRecords /\ x.kind = e
    /\ \A b \in Boundaries, c \in Pages \X Values, d \in Digests :
          LET a == [kind |-> "await", id |-> b, content |-> c, digest |-> d]
          IN  /\ d[2] = c => a \in WireRecords
              /\ a.kind = "await" /\ a.id = b /\ a.content = c /\ a.digest = d
BY DEF WireRecords, Deliveries, Truthful

LEMMA AwaitTypes ==
    ASSUME NEW x \in WireRecords, x.kind = "await"
    PROVE  /\ x.id \in Boundaries /\ x.content \in Contents /\ x.digest \in Digests
           /\ x.digest # None => x.digest[2] = x.content
BY DEF WireRecords, Deliveries, Truthful, Contents

LEMMA UnaskedType ==
    /\ Unasked \in ResponseRecords
    /\ Unasked.pc = "free" /\ Unasked.loop = None /\ Unasked.wire = <<>>
<1>1. FirstPage \in Pages /\ None \in Digests
  BY LiveAssumption DEF Digests
<1>2. <<>> \in Seq(WireRecords)
  OBVIOUS
<1> QED
  BY <1>1, <1>2 DEF Unasked, ResponseRecords

LEMMA SettledType ==
    ASSUME NEW q \in ResponseRecords
    PROVE  /\ Settled(q) \in ResponseRecords
           /\ Settled(q) = q \/ (Settled(q) = Unasked /\ q.pc = "over" /\ q.loop = None)
           /\ Settled(q).pc \in {"open", "closing"} <=> q.pc \in {"open", "closing"}
BY UnaskedType DEF Settled

LEMMA UnreadType ==
    ASSUME NEW q \in ResponseRecords
    PROVE  /\ Unread(q) \in ResponseRecords
           /\ Unread(q).loop = None /\ Unread(q).pc = q.pc
<1>1. <<>> \in Seq(WireRecords)
  OBVIOUS
<1> QED
  BY <1>1 DEF Unread, ResponseRecords

LEMMA BecomesType ==
    ASSUME response \in [Responses -> ResponseRecords], NEW r \in Responses,
           NEW q \in ResponseRecords, Becomes(r, q)
    PROVE  /\ response' \in [Responses -> ResponseRecords]
           /\ response'[r] = Settled(q)
           /\ \A s \in Responses : s # r => response'[s] = response[s]
BY SettledType DEF Becomes

-----------------------------------------------------------------------------
(* What a step of the server does to a response: whoever reads it, it stays *)
(* of its page, and stays right about the screen.                           *)

Follows(q, p) ==
    /\ p.loop # None => p.loop = q.loop
    /\ \A n : OfPage(q, n) => OfPage(p, n)
    /\ \A regions : Believes(q, regions) => Believes(p, regions)

LEMMA FollowsSelf == \A q : Follows(q, q)
BY DEF Follows

LEMMA FollowsSettled ==
    ASSUME NEW q, NEW p \in ResponseRecords, Follows(q, p)
    PROVE  Follows(q, Settled(p))
<1>1. Follows(q, Unasked)
  BY UnaskedType DEF Follows, OfPage, Believes
<1> QED
  BY <1>1, SettledType

\* Records that are no delivery change nothing on the screen.
LEMMA OtherRecords ==
    ASSUME NEW w \in Seq(WireRecords), NEW x \in WireRecords, x.kind # "await"
    PROVE  /\ Append(w, x) \in Seq(WireRecords)
           /\ \A n : RecordsOf(w, n) => RecordsOf(Append(w, x), n)
           /\ \A b, a, d : ComesTo(w, b, a, d) => ComesTo(Append(w, x), b, a, d)
<1> DEFINE v == Append(w, x)
<1>1. /\ v \in Seq(WireRecords) /\ DOMAIN v = 1 .. Len(w) + 1 /\ DOMAIN w = 1 .. Len(w)
      /\ v[Len(w) + 1] = x /\ Len(w) \in Nat
      /\ \A i \in 1 .. Len(w) : v[i] = w[i]
  BY AppendProperties, LenProperties
<1> HIDE DEF v
<1>2. \A b : AwaitsAt(v, b) = AwaitsAt(w, b)
  BY <1>1 DEF AwaitsAt
<1>3. \A b : \A i \in AwaitsAt(w, b) : v[i] = w[i]
  BY <1>1 DEF AwaitsAt
<1>4. \A b, a, d : ComesTo(w, b, a, d) => ComesTo(v, b, a, d)
  BY <1>2, <1>3 DEF ComesTo
<1>5. \A n : RecordsOf(w, n) => RecordsOf(v, n)
  BY <1>1 DEF RecordsOf
<1> QED
  BY <1>1, <1>4, <1>5 DEF v

\* A delivery that is written comes to be what the region shows.
LEMMA DeliveryRecord ==
    ASSUME NEW w \in Seq(WireRecords), NEW x \in WireRecords, x.kind = "await"
    PROVE  /\ Append(w, x) \in Seq(WireRecords)
           /\ \A n : RecordsOf(w, n) /\ x.content[1] = Home[n][x.id] => RecordsOf(Append(w, x), n)
           /\ \A a : ComesTo(Append(w, x), x.id, a, x.digest)
           /\ \A b, a, d : b # x.id /\ ComesTo(w, b, a, d) => ComesTo(Append(w, x), b, a, d)
<1> DEFINE v == Append(w, x)
<1>1. /\ v \in Seq(WireRecords) /\ DOMAIN v = 1 .. Len(w) + 1 /\ DOMAIN w = 1 .. Len(w)
      /\ v[Len(w) + 1] = x /\ Len(w) \in Nat
      /\ \A i \in 1 .. Len(w) : v[i] = w[i]
  BY AppendProperties, LenProperties
<1> HIDE DEF v
<1>2. \A b : b # x.id => AwaitsAt(v, b) = AwaitsAt(w, b)
  BY <1>1 DEF AwaitsAt
<1>3. \A b : \A i \in AwaitsAt(w, b) : v[i] = w[i]
  BY <1>1 DEF AwaitsAt
<1>4. \A b, a, d : b # x.id /\ ComesTo(w, b, a, d) => ComesTo(v, b, a, d)
  BY <1>2, <1>3 DEF ComesTo
<1>5. Len(w) + 1 \in AwaitsAt(v, x.id) /\ \A j \in AwaitsAt(v, x.id) : j <= Len(w) + 1
  BY <1>1 DEF AwaitsAt
<1>6. \A a : ComesTo(v, x.id, a, x.digest)
  BY <1>1, <1>5 DEF ComesTo
<1>7. \A n : RecordsOf(w, n) /\ x.content[1] = Home[n][x.id] => RecordsOf(v, n)
  BY <1>1 DEF RecordsOf
<1> QED
  BY <1>1, <1>4, <1>6, <1>7 DEF v
Admissible == {"open", "closing"}

LEMMA OneResponse ==
    ASSUME response \in [Responses -> ResponseRecords], NEW r \in Responses,
           NEW q \in ResponseRecords, Becomes(r, q), Follows(response[r], q)
    PROVE  /\ response' \in [Responses -> ResponseRecords]
           /\ \A s \in Responses : Follows(response[s], response'[s])
           /\ Admitted' = IF q.pc \in Admissible THEN Admitted \cup {r} ELSE Admitted \ {r}
<1>1. /\ response' \in [Responses -> ResponseRecords]
      /\ response'[r] = Settled(q)
      /\ \A s \in Responses : s # r => response'[s] = response[s]
  BY BecomesType
<1>2. \A s \in Responses : Follows(response[s], response'[s])
  BY <1>1, FollowsSelf, FollowsSettled
<1>3. response'[r].pc \in Admissible <=> q.pc \in Admissible
  BY <1>1, SettledType DEF Admissible
<1> QED
  BY <1>1, <1>2, <1>3 DEF Admitted, Admissible

\* The count of admitted responses.
LEMMA AdmittedFinite ==
    /\ IsFiniteSet(Admitted) /\ Cardinality(Admitted) \in Nat
    /\ \A r \in Responses \ Admitted :
          Cardinality(Admitted \cup {r}) = Cardinality(Admitted) + 1
    /\ \A r \in Admitted : Cardinality(Admitted \ {r}) = Cardinality(Admitted) - 1
<1>1. IsFiniteSet(Admitted)
  BY LiveAssumption, FS_Subset DEF Admitted
<1> QED
  BY <1>1, FS_CardinalityType, FS_AddElement, FS_RemoveElement

\* A step that keeps the count and who is admitted.
LEMMA SameCount ==
    ASSUME CountInv, process' = process, Admitted' = Admitted
    PROVE  CountInv'
BY DEF CountInv

ServerStep ==
    /\ Types' /\ CountInv' /\ KeyInv' /\ screenVars' = screenVars
    /\ \A s \in Responses : Follows(response[s], response'[s])

LEMMA ScreenKept ==
    ASSUME ScreenTypes, screenVars' = screenVars
    PROVE  ScreenTypes'
BY DEF ScreenTypes, screenVars

\* A step of the server that moves one response and neither admits nor releases it.
LEMMA OneServerStep ==
    ASSUME LiveInv, NEW r \in Responses, NEW q \in ResponseRecords,
           Becomes(r, q), Follows(response[r], q),
           q.pc \in Admissible <=> response[r].pc \in Admissible,
           serverVars' = serverVars, screenVars' = screenVars,
           changes' = changes, restarts' = restarts, faults' \in Nat
    PROVE  ServerStep
<1>1. response \in [Responses -> ResponseRecords] /\ ScreenTypes /\ ServerTypes
      /\ CountInv /\ KeyInv
  BY DEF LiveInv, Types
<1>2. /\ response' \in [Responses -> ResponseRecords]
      /\ \A s \in Responses : Follows(response[s], response'[s])
      /\ Admitted' = Admitted
  BY <1>1, OneResponse DEF Admitted, Admissible
<1>3. process' = process /\ value' = value /\ producing' = producing
  BY DEF serverVars
<1>4. ServerTypes'
  BY <1>1, <1>3 DEF ServerTypes
<1>5. CountInv' /\ KeyInv'
  BY <1>1, <1>2, <1>3, SameCount DEF KeyInv
<1> QED
  BY <1>1, <1>2, <1>4, <1>5, ScreenKept DEF ServerStep, Types

LEMMA ArriveStep ==
    ASSUME LiveInv, NEW r \in Responses, Arrive(r)
    PROVE  ServerStep
<1> DEFINE q == response[r]
<1>1. /\ q \in ResponseRecords /\ response \in [Responses -> ResponseRecords] /\ ScreenTypes
      /\ ServerTypes /\ CountInv /\ KeyInv /\ q.pc = "asked"
      /\ screenVars' = screenVars
  BY DEF LiveInv, Types, Arrive
<1>2. CASE process.open < MaxResponses
  <2> DEFINE p == [q EXCEPT !.pc = "open"]
  <2>1. Becomes(r, p) /\ process' = [process EXCEPT !.open = @ + 1]
        /\ UNCHANGED <<value, producing, bounds>>
    BY <1>2 DEF Arrive
  <2>2. /\ p \in ResponseRecords /\ p.pc = "open" /\ p.loop = q.loop /\ p.page = q.page
        /\ p.wire = q.wire /\ p.onScreen = q.onScreen /\ p.cut = q.cut
    BY <1>1 DEF ResponseRecords
  <2> HIDE DEF p
  <2>3. Follows(q, p)
    BY <1>1, <2>2 DEF Follows, OfPage, Believes
  <2>4. /\ response' \in [Responses -> ResponseRecords]
        /\ \A s \in Responses : Follows(response[s], response'[s])
        /\ Admitted' = Admitted \cup {r}
    BY <1>1, <2>1, <2>2, <2>3, OneResponse DEF Admissible
  <2>5. r \in Responses \ Admitted
    BY <1>1 DEF Admitted
  <2>6. /\ process' \in [key : Keys, build : Keys, open : Nat] /\ process'.key = process.key
        /\ process'.build = process.build /\ process'.open = process.open + 1
        /\ process.open \in Nat
    BY <2>1, <1>1 DEF ServerTypes
  <2>7. CountInv'
    BY <1>1, <1>2, <2>4, <2>5, <2>6, AdmittedFinite, LiveAssumption DEF CountInv
  <2>8. KeyInv' /\ ServerTypes'
    BY <1>1, <2>1, <2>6 DEF KeyInv, ServerTypes, bounds
  <2> QED
    BY <1>1, <2>4, <2>7, <2>8, ScreenKept DEF ServerStep, Types
<1>3. CASE ~(process.open < MaxResponses)
  <2> DEFINE w == <<[kind |-> "retry"]>>
             p == [q EXCEPT !.pc = "over", !.wire = w]
  <2>1. Becomes(r, p) /\ process' = process /\ UNCHANGED <<value, producing, bounds>>
    BY <1>3 DEF Arrive
  <2>2. w \in Seq(WireRecords) /\ DOMAIN w = {1} /\ w[1].kind = "retry"
    BY RecordTypes
  <2> HIDE DEF w
  <2>3. /\ p \in ResponseRecords /\ p.pc = "over" /\ p.loop = q.loop /\ p.page = q.page
        /\ p.wire = w
    BY <1>1, <2>2 DEF ResponseRecords
  <2> HIDE DEF p
  <2>4. Follows(q, p)
    BY <2>2, <2>3 DEF Follows, OfPage, RecordsOf, Believes
  <2> QED
    BY <1>1, <2>1, <2>3, <2>4, OneServerStep
       DEF serverVars, bounds, ServerTypes, Admissible
<1> QED
  BY <1>2, <1>3
LEMMA YieldStep ==
    ASSUME LiveInv, NEW r \in Responses, NEW b \in Boundaries, Yield(r, b)
    PROVE  ServerStep
<1> DEFINE q == response[r]
           c == Now(q.page, b)
           d == Digest(process.key, c)
           record == [kind |-> "await", id |-> b, content |-> c, digest |-> d]
           wire == IF q.onScreen[b] = d THEN Opened(q) ELSE Append(Opened(q), record)
           due == Rerendered(q.due, b)
           screen == [q.onScreen EXCEPT ![b] = d]
           p == [q EXCEPT !.due = due, !.committed = TRUE, !.onScreen = screen, !.wire = wire]
<1>1. /\ q \in ResponseRecords /\ Types /\ q.page \in Pages /\ process.build \in Keys
      /\ q.pc = "open" /\ ~q.cut /\ q.loop # None
  BY DEF LiveInv, Types, ServerTypes, Yield, ResponseRecords
<1>2. c \in Pages \X Values /\ c[1] = Home[q.page][b] /\ d \in Digests /\ d[2] = c
  BY <1>1, ContentTypes
<1>3. /\ record \in WireRecords /\ record.kind = "await" /\ record.id = b
      /\ record.content = c /\ record.digest = d
  BY <1>2, RecordTypes
<1>4. HeadRecord \in WireRecords /\ HeadRecord.kind # "await"
  BY <1>1, RecordTypes DEF HeadRecord
<1>5. /\ Opened(q) \in Seq(WireRecords)
      /\ RecordsOf(q.wire, q.page) => RecordsOf(Opened(q), q.page)
      /\ \A e, x, y : ComesTo(q.wire, e, x, y) => ComesTo(Opened(q), e, x, y)
  <2>1. q.wire \in Seq(WireRecords)
    BY <1>1 DEF ResponseRecords
  <2>2. CASE q.committed
    BY <2>1, <2>2 DEF Opened
  <2>3. CASE ~q.committed
    <3>1. Opened(q) = Append(q.wire, HeadRecord)
      BY <2>3 DEF Opened
    <3> QED
      BY <3>1, <2>1, <1>4, OtherRecords
  <2> QED
    BY <2>2, <2>3
<1> HIDE DEF record, c, d
<1>6. /\ wire \in Seq(WireRecords)
      /\ RecordsOf(q.wire, q.page) => RecordsOf(wire, q.page)
      /\ \A e, x, y : e # b /\ ComesTo(q.wire, e, x, y) => ComesTo(wire, e, x, y)
      /\ \A x : (q.onScreen[b] # None => ComesTo(q.wire, b, x, q.onScreen[b]))
                  => (d # None => ComesTo(wire, b, x, d))
  <2>1. CASE q.onScreen[b] = d
    BY <2>1, <1>5
  <2>2. CASE q.onScreen[b] # d
    <3>1. wire = Append(Opened(q), record)
      BY <2>2
    <3> QED
      BY <3>1, <1>2, <1>3, <1>5, DeliveryRecord
  <2> QED
    BY <2>1, <2>2
<1>7. due \in [Boundaries -> {"never", "again", "no"}]
  BY <1>1 DEF Rerendered, ResponseRecords
<1>8. /\ screen \in [Boundaries -> Digests] /\ screen[b] = d
      /\ \A e \in Boundaries : e # b => screen[e] = q.onScreen[e]
  BY <1>1, <1>2 DEF ResponseRecords
<1>9. Becomes(r, p) /\ serverVars' = serverVars /\ screenVars' = screenVars /\ bounds' = bounds
  <2>1. p = [q EXCEPT !.due = due, !.committed = TRUE, !.onScreen[b] = d, !.wire = wire]
    BY <1>1 DEF ResponseRecords
  <2> QED
    BY <2>1 DEF Yield, c, d, record
<1> HIDE DEF wire, due, screen
<1>10. /\ p \in ResponseRecords /\ p.pc = "open" /\ p.loop = q.loop /\ p.page = q.page
       /\ p.wire = wire /\ p.onScreen = screen /\ p.cut = q.cut
  BY <1>1, <1>6, <1>7, <1>8 DEF ResponseRecords
<1> HIDE DEF p
<1>11. Follows(q, p)
  <2>1. \A n : OfPage(q, n) => OfPage(p, n)
    BY <1>1, <1>6, <1>10 DEF OfPage
  <2>2. ASSUME NEW regions, Believes(q, regions) PROVE Believes(p, regions)
    <3> SUFFICES ASSUME NEW e \in Boundaries, screen[e] # None
                 PROVE  ComesTo(wire, e, regions[e].digest, screen[e])
      BY <1>10 DEF Believes
    <3>1. q.onScreen[e] # None => ComesTo(q.wire, e, regions[e].digest, q.onScreen[e])
      BY <1>1, <2>2 DEF Believes
    <3>2. CASE e = b
      BY <3>1, <3>2, <1>6, <1>8
    <3>3. CASE e # b
      BY <3>1, <3>3, <1>6, <1>8
    <3> QED
      BY <3>2, <3>3
  <2> QED
    BY <2>1, <2>2, <1>10 DEF Follows
<1> QED
  BY <1>1, <1>9, <1>10, <1>11, OneServerStep DEF bounds, Types, ServerTypes, Admissible

\* A terminal record: the response is over for the server but for its release.
LEMMA ClosingStep ==
    ASSUME LiveInv, NEW r \in Responses, NEW reason \in {"retry", "done"},
           response[r].pc = "open", Closes(r, reason),
           serverVars' = serverVars, screenVars' = screenVars,
           changes' = changes, restarts' = restarts, faults' \in Nat
    PROVE  ServerStep
<1> DEFINE q == response[r]
           w == Append(q.wire, [kind |-> reason])
           p == [q EXCEPT !.pc = "closing", !.wire = w]
<1>1. q \in ResponseRecords
  BY DEF LiveInv, Types
<1>2. [kind |-> reason] \in WireRecords /\ [kind |-> reason].kind # "await"
  BY RecordTypes
<1>3. /\ w \in Seq(WireRecords)
      /\ \A n : RecordsOf(q.wire, n) => RecordsOf(w, n)
  BY <1>1, <1>2, OtherRecords DEF ResponseRecords
<1>4. Becomes(r, p)
  BY <1>1 DEF Closes, ResponseRecords
<1> HIDE DEF w
<1>5. p \in ResponseRecords /\ p.pc = "closing" /\ p.loop = q.loop /\ p.page = q.page /\ p.wire = w
  BY <1>1, <1>3 DEF ResponseRecords
<1> HIDE DEF p
<1>6. Follows(q, p)
  BY <1>3, <1>5 DEF Follows, OfPage, Believes
<1> QED
  BY <1>4, <1>5, <1>6, OneServerStep DEF Admissible

LEMMA EndingStep ==
    ASSUME LiveInv, NEW r \in Responses,
           Finishes(r) \/ Bounded(r) \/ GivesUp(r) \/ Problem(r) \/ Leaves(r)
    PROVE  ServerStep
<1> DEFINE q == response[r]
<1>0. /\ q \in ResponseRecords /\ faults \in Nat /\ q.pc = "open"
      /\ serverVars' = serverVars /\ screenVars' = screenVars
      /\ changes' = changes /\ restarts' = restarts /\ faults' \in Nat
  <2>1. q \in ResponseRecords /\ faults \in Nat
    BY DEF LiveInv, Types, ServerTypes
  <2> QED
    BY <2>1 DEF Finishes, Bounded, GivesUp, Problem, Leaves, Fault, bounds
<1>1. CASE Finishes(r) \/ Bounded(r) \/ GivesUp(r)
  <2>1. \E reason \in {"retry", "done"} : Closes(r, reason)
    BY <1>1 DEF Finishes, Bounded, GivesUp
  <2> QED
    BY <1>0, <2>1, ClosingStep
<1>2. CASE Problem(r)
  <2> DEFINE p == [q EXCEPT !.pc = "closing", !.cut = TRUE]
  <2>1. p \in ResponseRecords /\ p.pc = "closing" /\ p.loop = q.loop /\ p.page = q.page /\ p.wire = q.wire
    BY <1>0 DEF ResponseRecords
  <2>2. Becomes(r, p)
    BY <1>2 DEF Problem
  <2> HIDE DEF p
  <2>3. Follows(q, p)
    BY <2>1 DEF Follows, OfPage, Believes
  <2> QED
    BY <1>0, <2>1, <2>2, <2>3, OneServerStep DEF Admissible
<1>3. CASE Leaves(r)
  <2> DEFINE p == [q EXCEPT !.pc = "closing"]
  <2>1. p \in ResponseRecords /\ p.pc = "closing" /\ p.loop = q.loop /\ p.page = q.page /\ p.wire = q.wire
    BY <1>0 DEF ResponseRecords
  <2>2. Becomes(r, p)
    BY <1>3 DEF Leaves
  <2> HIDE DEF p
  <2>3. Follows(q, p)
    BY <2>1 DEF Follows, OfPage, Believes
  <2> QED
    BY <1>0, <2>1, <2>2, <2>3, OneServerStep DEF Admissible
<1> QED
  BY <1>1, <1>2, <1>3
LEMMA ReleaseStep ==
    ASSUME LiveInv, NEW r \in Responses, Release(r)
    PROVE  ServerStep
<1> DEFINE q == response[r]
           p == [q EXCEPT !.pc = "over"]
<1>1. /\ q \in ResponseRecords /\ response \in [Responses -> ResponseRecords] /\ ScreenTypes
      /\ ServerTypes /\ CountInv /\ KeyInv /\ q.pc = "closing"
      /\ screenVars' = screenVars
  BY DEF LiveInv, Types, Release
<1>2. Becomes(r, p) /\ process' = [process EXCEPT !.open = @ - 1]
      /\ UNCHANGED <<value, producing, bounds>>
  BY DEF Release
<1>3. p \in ResponseRecords /\ p.pc = "over" /\ p.loop = q.loop /\ p.page = q.page /\ p.wire = q.wire
  BY <1>1 DEF ResponseRecords
<1> HIDE DEF p
<1>4. Follows(q, p)
  BY <1>3 DEF Follows, OfPage, Believes
<1>5. /\ response' \in [Responses -> ResponseRecords]
      /\ \A s \in Responses : Follows(response[s], response'[s])
      /\ Admitted' = Admitted \ {r}
  BY <1>1, <1>2, <1>3, <1>4, OneResponse DEF Admissible
<1>6. r \in Admitted
  BY <1>1 DEF Admitted
<1>7. Cardinality(Admitted \ {r}) \in Nat
  <2>1. IsFiniteSet(Admitted \ {r})
    BY AdmittedFinite, FS_RemoveElement
  <2> QED
    BY <2>1, FS_CardinalityType
<1>8. process'.open = Cardinality(Admitted') /\ process'.open \in Nat
      /\ process'.open <= process.open
  BY <1>1, <1>2, <1>5, <1>6, <1>7, AdmittedFinite DEF CountInv, ServerTypes
<1>9. /\ process' \in [key : Keys, build : Keys, open : Nat] /\ process'.key = process.key
      /\ process'.build = process.build
  BY <1>1, <1>2, <1>8 DEF ServerTypes
<1>10. CountInv'
  BY <1>1, <1>8, LiveAssumption DEF CountInv, ServerTypes
<1>11. KeyInv' /\ ServerTypes'
  BY <1>1, <1>2, <1>9 DEF KeyInv, ServerTypes, bounds
<1> QED
  BY <1>1, <1>5, <1>10, <1>11, ScreenKept DEF ServerStep, Types

LEMMA RestartStep ==
    ASSUME LiveInv, NEW deploy \in BOOLEAN, Restart(deploy)
    PROVE  ServerStep
<1>1. /\ response \in [Responses -> ResponseRecords] /\ ScreenTypes
      /\ ServerTypes /\ CountInv /\ KeyInv /\ screenVars' = screenVars
  BY DEF LiveInv, Types, Restart
<1> DEFINE down(q) == [q EXCEPT !.pc = "over", !.cut = TRUE]
<1>2. ASSUME NEW s \in Responses
      PROVE  /\ response'[s] \in ResponseRecords
             /\ Follows(response[s], response'[s])
             /\ response'[s].pc \notin Admissible
  <2> DEFINE q == response[s]
             p == down(q)
  <2>1. response'[s] = IF q.pc \in {"free", "over"} THEN q ELSE Settled(p)
    BY DEF Restart
  <2>2. q \in ResponseRecords
    BY <1>1
  <2>3. p \in ResponseRecords /\ p.pc = "over" /\ p.loop = q.loop /\ p.page = q.page /\ p.wire = q.wire
    BY <2>2 DEF ResponseRecords
  <2> HIDE DEF p
  <2>4. Follows(q, p)
    BY <2>3 DEF Follows, OfPage, Believes
  <2>5. Settled(p) \in ResponseRecords /\ Follows(q, Settled(p)) /\ Settled(p).pc \notin Admissible
    BY <2>3, <2>4, SettledType, FollowsSettled DEF Admissible
  <2> QED
    BY <2>1, <2>2, <2>5, FollowsSelf DEF Admissible
<1>3. response' \in [Responses -> ResponseRecords]
  BY <1>2 DEF Restart
<1>4. Admitted' = {}
  BY <1>2 DEF Admitted, Admissible
<1>5. /\ process'.key = process.key + 1 /\ process'.open = 0
      /\ process'.build \in {process.build, process.build + 1}
      /\ restarts < MaxRestarts /\ restarts' = restarts + 1
      /\ UNCHANGED <<value, producing, changes, faults>>
  BY DEF Restart
<1>6. /\ process.key \in Nat /\ process.build \in Nat /\ restarts \in Nat /\ MaxRestarts \in Nat
      /\ process.key = restarts /\ process.build <= restarts
  BY <1>1, LiveAssumption DEF ServerTypes, KeyInv, Keys
<1>7. KeyInv' /\ process'.key \in Keys /\ process'.build \in Keys
  BY <1>5, <1>6 DEF KeyInv, Keys
<1>8. process' \in [key : Keys, build : Keys, open : Nat]
  BY <1>5, <1>7 DEF Restart
<1>9. CountInv'
  BY <1>4, <1>5, FS_EmptySet, LiveAssumption DEF CountInv
<1>10. ServerTypes'
  BY <1>1, <1>5, <1>8 DEF ServerTypes
<1> QED
  BY <1>1, <1>2, <1>3, <1>7, <1>9, <1>10, ScreenKept DEF ServerStep, Types

LEMMA LostStep ==
    ASSUME LiveInv, NEW r \in Responses, NEW n \in 0 .. Len(response[r].wire), Lost(r, n)
    PROVE  ServerStep
<1> DEFINE q == response[r]
           w == SubSeq(q.wire, 1, n)
           c == IF q.pc = "asked" THEN "over" ELSE q.pc
           p == [q EXCEPT !.pc = c, !.wire = w, !.cut = TRUE]
<1>1. /\ q \in ResponseRecords /\ q.pc \in {"asked", "open"} /\ q.wire \in Seq(WireRecords)
      /\ serverVars' = serverVars /\ screenVars' = screenVars
      /\ changes' = changes /\ restarts' = restarts /\ faults' \in Nat
  BY DEF LiveInv, Types, ServerTypes, Lost, Fault, ResponseRecords
<1>2. Becomes(r, p)
  BY <1>1 DEF Lost, ResponseRecords
<1>3. /\ w \in Seq(WireRecords) /\ DOMAIN w = 1 .. n /\ DOMAIN q.wire = 1 .. Len(q.wire)
      /\ \A i \in 1 .. n : w[i] = q.wire[i]
  <2>1. Len(q.wire) \in Nat
    BY <1>1, LenProperties
  <2>2. 1 .. n \subseteq 1 .. Len(q.wire) /\ DOMAIN q.wire = 1 .. Len(q.wire)
    BY <2>1, <1>1, LenProperties
  <2>3. \A i \in 1 .. n : q.wire[i] \in WireRecords
    BY <2>2, <1>1, ElementOfSeq
  <2> QED
    BY <2>1, <2>2, <2>3, <1>1, SubSeqProperties
<1>4. \A i \in DOMAIN w : i \in DOMAIN q.wire /\ w[i] = q.wire[i]
  BY <1>3, <1>1, LenProperties
<1> HIDE DEF w
<1>5. /\ p \in ResponseRecords /\ p.pc = c /\ p.loop = q.loop /\ p.page = q.page /\ p.wire = w
      /\ p.cut = TRUE
  BY <1>1, <1>3 DEF ResponseRecords
<1> HIDE DEF p
<1>6. Follows(q, p)
  BY <1>4, <1>5 DEF Follows, OfPage, RecordsOf, Believes
<1> QED
  BY <1>1, <1>2, <1>5, <1>6, OneServerStep DEF Admissible

LEMMA SourceStep ==
    ASSUME LiveInv, SourcesEnd \/ \E b \in Boundaries : Produce(b)
    PROVE  ServerStep
<1>1. /\ response \in [Responses -> ResponseRecords] /\ ScreenTypes
      /\ ServerTypes /\ CountInv /\ KeyInv
  BY DEF LiveInv, Types
<1>2. CASE SourcesEnd
  <2>1. /\ screenVars' = screenVars /\ response' = response /\ value' = value /\ process' = process
        /\ bounds' = bounds /\ producing' = FALSE
    BY <1>2 DEF SourcesEnd
  <2>2. ServerTypes' /\ KeyInv'
    BY <1>1, <2>1 DEF ServerTypes, KeyInv, bounds
  <2>3. CountInv'
    BY <1>1, <2>1 DEF CountInv, Admitted
  <2> QED
    BY <1>1, <2>1, <2>2, <2>3, ScreenKept, FollowsSelf DEF ServerStep, Types
<1>3. ASSUME NEW b \in Boundaries, Produce(b) PROVE ServerStep
  <2>1. /\ screenVars' = screenVars /\ process' = process
        /\ restarts' = restarts /\ faults' = faults /\ producing' = producing
        /\ changes' = changes + 1 /\ value' = [value EXCEPT ![b] = 1 - @]
    BY <1>3 DEF Produce
  <2>2. ASSUME NEW s \in Responses
        PROVE  /\ response'[s] \in ResponseRecords
               /\ Follows(response[s], response'[s])
               /\ response'[s].pc = response[s].pc
    <3> DEFINE q == response[s]
               due == [q.due EXCEPT ![b] = "again"]
               p == [q EXCEPT !.due = due]
    <3>1. q \in ResponseRecords
      BY <1>1
    <3>2. response'[s] = q \/ response'[s] = p
      BY <1>3, <3>1 DEF Produce, ResponseRecords
    <3>3. due \in [Boundaries -> {"never", "again", "no"}]
      BY <3>1 DEF ResponseRecords
    <3> HIDE DEF due
    <3>4. /\ p \in ResponseRecords /\ p.pc = q.pc /\ p.loop = q.loop /\ p.page = q.page
          /\ p.wire = q.wire /\ p.onScreen = q.onScreen /\ p.cut = q.cut
      BY <3>1, <3>3 DEF ResponseRecords
    <3> HIDE DEF p
    <3>5. Follows(q, p)
      BY <3>4 DEF Follows, OfPage, Believes
    <3> QED
      BY <3>1, <3>2, <3>4, <3>5, FollowsSelf
  <2>3. response' \in [Responses -> ResponseRecords]
    BY <2>2, <1>3 DEF Produce
  <2>4. Admitted' = Admitted
    BY <2>2 DEF Admitted
  <2>5. ServerTypes' /\ KeyInv'
    BY <1>1, <2>1 DEF ServerTypes, KeyInv, Values
  <2> QED
    BY <1>1, <2>1, <2>2, <2>3, <2>4, <2>5, SameCount, ScreenKept DEF ServerStep, Types
<1> QED
  BY <1>2, <1>3
\* A step of the server, or of nobody, keeps the invariant.
LEMMA ServerKeeps ==
    ASSUME LiveInv, ServerStep
    PROVE  LiveInv' /\ (BeliefInv => BeliefInv')
<1>1. /\ loop' = loop /\ connection' = connection /\ running' = running /\ applied' = applied
      /\ page' = page /\ doc' = doc /\ nav' = nav /\ doubled' = doubled
  BY DEF ServerStep, screenVars
<1>2. \A s \in Responses : Follows(response[s], response'[s])
  BY DEF ServerStep
<1>3. DocInv' /\ SingleInv'
  BY <1>1 DEF LiveInv, DocInv, SingleInv
<1>4. ReaderInv'
  <2>1. \A s \in Responses : response'[s].loop # None => response'[s].loop = response[s].loop
    BY <1>2 DEF Follows
  <2> QED
    BY <1>1, <2>1 DEF LiveInv, ReaderInv
<1>5. PageInv'
  BY <1>1, <1>2 DEF LiveInv, PageInv, Follows
<1>6. BeliefInv => BeliefInv'
  BY <1>1, <1>2 DEF BeliefInv, Follows
<1> QED
  BY <1>3, <1>4, <1>5, <1>6 DEF LiveInv, ServerStep

-----------------------------------------------------------------------------
(* The browser. *)

\* What a step of the browser leaves of the server.
LEMMA ServerKept ==
    ASSUME ServerTypes, KeyInv, value' = value, producing' = producing, process' = process,
           changes' = changes, restarts' = restarts, faults' \in Nat
    PROVE  ServerTypes' /\ KeyInv'
BY DEF ServerTypes, KeyInv

\* Responses nobody reads are of any page, and believe nothing that matters.
LEMMA UnreadHarmless ==
    ASSUME NEW q, q.loop = None
    PROVE  (\A n : OfPage(q, n)) /\ (\A regions : Believes(q, regions))
BY DEF OfPage, Believes

\* A response left unread.
LEMMA LeftUnread ==
    ASSUME NEW q \in ResponseRecords
    PROVE  LET p == Settled(Unread(q))
           IN  p \in ResponseRecords /\ p.loop = None /\ (p.pc \in Admissible <=> q.pc \in Admissible)
<1>1. Unread(q) \in ResponseRecords /\ Unread(q).loop = None /\ Unread(q).pc = q.pc
  BY UnreadType
<1>2. \/ Settled(Unread(q)) = Unread(q)
      \/ Settled(Unread(q)) = Unasked /\ q.pc = "over"
  BY <1>1, SettledType
<1> QED
  BY <1>1, <1>2, UnaskedType DEF Admissible

\* The document goes away: nothing is read any more.
LEMMA UnloadStep ==
    ASSUME LiveInv, Unload
    PROVE  /\ response' \in [Responses -> ResponseRecords]
           /\ Admitted' = Admitted
           /\ \A r \in Responses : response'[r].loop = None
           /\ ReaderInv' /\ SingleInv'
           /\ (\A r \in Responses : OfPage(response'[r], page'))
           /\ BeliefInv'
<1>1. response \in [Responses -> ResponseRecords]
  BY DEF LiveInv, Types
<1>2. \A r \in Responses :
          /\ response'[r] \in ResponseRecords /\ response'[r].loop = None
          /\ response'[r].pc \in Admissible <=> response[r].pc \in Admissible
  BY <1>1, LeftUnread DEF Unload
<1>3. response' \in [Responses -> ResponseRecords]
  BY <1>2 DEF Unload
<1>4. Admitted' = Admitted
  BY <1>2 DEF Admitted, Admissible
<1>5. ReaderInv'
  BY <1>2 DEF ReaderInv
<1>6. SingleInv'
  BY DEF SingleInv, Unload
<1>7. (\A r \in Responses : OfPage(response'[r], page')) /\ BeliefInv'
  BY <1>2, UnreadHarmless DEF BeliefInv
<1> QED
  BY <1>2, <1>3, <1>4, <1>5, <1>6, <1>7

\* The document is loaded again, or the next one.
LEMMA LeavingStep ==
    ASSUME LiveInv, Unload, value' = value, producing' = producing, process' = process,
           changes' = changes, restarts' = restarts, faults' \in Nat,
           applied' = applied, page' \in Pages,
           \E g \in BOOLEAN : doc' = [doc EXCEPT !.state = "loading", !.guard = g]
    PROVE  LiveInv' /\ BeliefInv'
<1>1. ServerTypes /\ ScreenTypes /\ CountInv /\ KeyInv
  BY DEF LiveInv, Types
<1>2. ServerTypes' /\ KeyInv'
  BY <1>1, ServerKept
<1>3. doc' \in [state : {"loading", "whole", "stuck"}, version : Keys, guard : BOOLEAN]
      /\ doc'.state = "loading"
  BY <1>1 DEF ScreenTypes
<1>4. ScreenTypes' /\ DocInv'
  BY <1>1, <1>3 DEF ScreenTypes, DocInv, Unload
<1>5. CountInv'
  BY <1>1, UnloadStep, SameCount
<1>6. PageInv'
  BY <1>3, UnloadStep DEF PageInv
<1> QED
  BY <1>2, <1>4, <1>5, <1>6, UnloadStep DEF LiveInv, Types

LEMMA ReloadStep ==
    ASSUME LiveInv, ReloadOnce, value' = value, producing' = producing, process' = process,
           changes' = changes, restarts' = restarts, faults' \in Nat
    PROVE  LiveInv' /\ (BeliefInv => BeliefInv')
<1>1. CASE doc.guard
  <2>1. response' = response /\ screenVars' = screenVars
    BY <1>1 DEF ReloadOnce
  <2>2. ServerTypes' /\ KeyInv' /\ ScreenTypes'
    BY <2>1, ServerKept, ScreenKept DEF LiveInv, Types
  <2>3. CountInv'
    BY <2>1 DEF LiveInv, CountInv, Admitted
  <2>4. ServerStep
    BY <2>1, <2>2, <2>3, FollowsSelf DEF ServerStep, LiveInv, Types
  <2> QED
    BY <2>4, ServerKeeps
<1>2. CASE ~doc.guard
  <2>1. Unload /\ applied' = applied /\ page' = page
        /\ doc' = [doc EXCEPT !.state = "loading", !.guard = TRUE]
    BY <1>2 DEF ReloadOnce
  <2>2. page' \in Pages
    BY <2>1 DEF LiveInv, Types, ScreenTypes
  <2> QED
    BY <2>1, <2>2, LeavingStep
<1> QED
  BY <1>1, <1>2

LEMMA NavigationFallsStep ==
    ASSUME LiveInv, NEW p \in Pages, NavigationFalls(p)
    PROVE  LiveInv' /\ BeliefInv'
<1> QED
  BY LeavingStep DEF NavigationFalls, serverVars, bounds, LiveInv, Types, ServerTypes
\* A loop that reads nothing connects, for the page and the regions the step
\* leaves on screen.
LEMMA ConnectStep ==
    ASSUME LiveInv, NEW l \in Loops, NEW p \in Pages, NEW regions \in [Boundaries -> Regions],
           loop[l] # "reading", ConnectOnce(l, regions, p),
           applied' = regions, page' = p, nav' = FALSE,
           ~doubled' => ShowsPage(regions, p)
    PROVE  /\ response' \in [Responses -> ResponseRecords]
           /\ Admitted' = Admitted
           /\ loop' \in [Loops -> {"none", "reading", "asleep"}]
           /\ connection' \in Loops \cup {None} /\ doubled' \in BOOLEAN
           /\ ReaderInv' /\ SingleInv' /\ PageInv' /\ BeliefInv'
<1> DEFINE r == CHOOSE s \in Unused : TRUE
           screen == [b \in Boundaries |-> regions[b].digest]
           q == [Unasked EXCEPT !.pc = "asked", !.loop = l, !.page = p, !.onScreen = screen]
<1>1. /\ response \in [Responses -> ResponseRecords] /\ ReaderInv
      /\ loop \in [Loops -> {"none", "reading", "asleep"}] /\ doubled \in BOOLEAN
  BY DEF LiveInv, Types, ScreenTypes
<1>2. r \in Responses /\ response[r].pc = "free"
  BY DEF ConnectOnce, Unused
<1>3. /\ response' = [response EXCEPT ![r] = q]
      /\ connection' = l /\ loop' = [loop EXCEPT ![l] = "reading"]
      /\ doubled' = (doubled \/ \E m \in Loops \ {l} : loop[m] # "none")
  BY DEF ConnectOnce
<1> HIDE DEF r
<1>4. screen \in [Boundaries -> Digests]
  BY DEF Regions
<1> HIDE DEF screen
<1>5. /\ q \in ResponseRecords /\ q.pc = "asked" /\ q.loop = l /\ q.page = p
      /\ q.onScreen = screen /\ q.wire = <<>>
  BY <1>4, UnaskedType DEF ResponseRecords
<1> HIDE DEF q
<1>6. /\ response' \in [Responses -> ResponseRecords] /\ response'[r] = q
      /\ \A s \in Responses : s # r => response'[s] = response[s]
  BY <1>1, <1>2, <1>3, <1>5
<1>7. Admitted' = Admitted
  BY <1>2, <1>5, <1>6 DEF Admitted
<1>8. loop' \in [Loops -> {"none", "reading", "asleep"}] /\ connection' \in Loops \cup {None}
      /\ doubled' \in BOOLEAN
  BY <1>1, <1>3
<1>9. \A s \in Responses : response[s].loop # None =>
          /\ response[s].loop \in Loops /\ response[s].loop # l
          /\ loop[response[s].loop] = "reading"
  BY <1>1 DEF ReaderInv, ResponseRecords
<1>10. ReaderInv'
  <2>1. ASSUME NEW s \in Responses, response'[s].loop # None
        PROVE  loop'[response'[s].loop] = "reading"
    <3>1. CASE s = r
      BY <3>1, <1>1, <1>3, <1>5, <1>6
    <3>2. CASE s # r
      BY <3>2, <2>1, <1>1, <1>3, <1>6, <1>9
    <3> QED
      BY <3>1, <3>2
  <2>2. ASSUME NEW s \in Responses, NEW t \in Responses,
               response'[s].loop # None, response'[s].loop = response'[t].loop
        PROVE  s = t
    <3>1. CASE s = r /\ t # r
      BY <3>1, <2>2, <1>5, <1>6, <1>9
    <3>2. CASE s # r /\ t = r
      BY <3>2, <2>2, <1>5, <1>6, <1>9
    <3>3. CASE s # r /\ t # r
      BY <3>3, <2>2, <1>1, <1>6 DEF ReaderInv
    <3> QED
      BY <3>1, <3>2, <3>3
  <2> QED
    BY <2>1, <2>2 DEF ReaderInv
<1>11. ASSUME ~doubled'
       PROVE  /\ \A m \in Loops : m # l => loop[m] = "none"
              /\ \A s \in Responses : s # r => response'[s].loop = None
  BY <1>3, <1>6, <1>9, <1>11
<1>12. SingleInv'
  BY <1>1, <1>3, <1>11 DEF SingleInv
<1>13. ASSUME ~doubled', NEW s \in Responses
       PROVE  OfPage(response'[s], p) /\ Believes(response'[s], regions)
  <2>1. CASE s # r
    BY <2>1, <1>11, <1>13, UnreadHarmless
  <2>2. CASE s = r
    <3>1. DOMAIN q.wire = {}
      BY <1>5
    <3>2. \A b \in Boundaries : ComesTo(q.wire, b, regions[b].digest, q.onScreen[b])
      BY <3>1, <1>5 DEF ComesTo, AwaitsAt, screen
    <3> QED
      BY <2>2, <3>1, <3>2, <1>5, <1>6 DEF OfPage, RecordsOf, Believes
  <2> QED
    BY <2>1, <2>2
<1>14. PageInv' /\ BeliefInv'
  BY <1>13 DEF PageInv, BeliefInv
<1> QED
  BY <1>6, <1>7, <1>8, <1>10, <1>12, <1>14

\* startLive, on a document that is there.
LEMMA StartStep ==
    ASSUME LiveInv, NEW p \in Pages, NEW regions \in [Boundaries -> Regions],
           StartLive(regions, p), applied' = regions, page' = p, nav' = FALSE,
           ~doubled' => ShowsPage(regions, p),
           value' = value, producing' = producing, process' = process,
           changes' = changes, restarts' = restarts, faults' = faults,
           doc' \in [state : {"whole"}, version : Keys, guard : {FALSE}]
    PROVE  LiveInv' /\ BeliefInv'
<1>1. ServerTypes /\ ScreenTypes /\ CountInv /\ KeyInv
  BY DEF LiveInv, Types
<1>2. PICK l \in Loops : loop[l] = "none" /\ ConnectOnce(l, regions, p)
  BY DEF StartLive
<1>3. /\ response' \in [Responses -> ResponseRecords]
      /\ Admitted' = Admitted
      /\ loop' \in [Loops -> {"none", "reading", "asleep"}]
      /\ connection' \in Loops \cup {None} /\ doubled' \in BOOLEAN
      /\ ReaderInv' /\ SingleInv' /\ PageInv' /\ BeliefInv'
  BY <1>2, ConnectStep
<1>4. ServerTypes' /\ KeyInv'
  BY <1>1, ServerKept DEF ServerTypes
<1>5. /\ doc' \in [state : {"loading", "whole", "stuck"}, version : Keys, guard : BOOLEAN]
      /\ doc'.state = "whole" /\ doc'.guard = FALSE
  OBVIOUS
<1>6. ScreenTypes' /\ DocInv'
  BY <1>3, <1>5 DEF ScreenTypes, DocInv, StartLive
<1>7. CountInv'
  BY <1>1, <1>3, SameCount
<1> QED
  BY <1>3, <1>4, <1>6, <1>7 DEF LiveInv, Types

LEMMA DocumentArrivesStep ==
    ASSUME LiveInv, NEW settled \in BOOLEAN, DocumentArrives(settled)
    PROVE  LiveInv' /\ BeliefInv'
<1> DEFINE regions ==
        [b \in Boundaries |->
            IF settled THEN Region(Now(page, b), Digest(process.key, Now(page, b)))
                       ELSE Region(Waiting(page, b), None)]
<1>1. Types /\ page \in Pages /\ process.build \in Keys /\ nav = FALSE
  BY DEF DocumentArrives, LiveInv, DocInv, Types, ScreenTypes, ServerTypes
<1>2. \A b \in Boundaries : regions[b] \in Regions /\ regions[b].content[1] = Home[page][b]
  BY <1>1, ContentTypes, RegionTypes
<1>3. regions \in [Boundaries -> Regions] /\ ShowsPage(regions, page)
  BY <1>2 DEF ShowsPage
<1>4. applied' = regions /\ StartLive(applied', page)
  BY DEF DocumentArrives
<1> HIDE DEF regions
<1>5. doc' \in [state : {"whole"}, version : Keys, guard : {FALSE}]
  BY <1>1 DEF DocumentArrives
<1>6. StartLive(regions, page)
  BY <1>4
<1> QED
  BY <1>1, <1>3, <1>4, <1>5, <1>6, StartStep DEF DocumentArrives, serverVars, bounds

\* The regions a navigation keeps are of both pages; the others are of the new one.
LEMMA NavigationAppliedStep ==
    ASSUME LiveInv, NEW p \in Pages, NEW kept \in Kept(p), NEW settled \in BOOLEAN,
           NavigationApplied(p, kept, settled)
    PROVE  LiveInv' /\ BeliefInv'
<1> DEFINE regions == Navigated(p, kept, settled)
<1>1. Types /\ nav /\ doc.state = "whole" /\ ~doc.guard
      /\ applied \in [Boundaries -> Regions]
  BY DEF NavigationApplied, LiveInv, DocInv, Types, ScreenTypes
<1>3. applied' = regions /\ page' = p /\ nav' = FALSE /\ doc' = doc
      /\ serverVars' = serverVars /\ bounds' = bounds
  BY DEF NavigationApplied
<1>4. StartLive(regions, p)
  BY <1>3 DEF NavigationApplied
<1>5. ASSUME NEW b \in Boundaries, b \in kept
      PROVE  regions[b] = applied[b] /\ Home[p][b] = Home[page][b]
  BY <1>5 DEF Navigated, Kept
<1>6. ASSUME NEW b \in Boundaries, b \notin kept
      PROVE  regions[b] \in Regions /\ regions[b].content[1] = Home[p][b]
  <2>1. regions[b] = Region(Arrived(p, b, settled), None)
    BY <1>6 DEF Navigated
  <2>2. Arrived(p, b, settled) \in Contents /\ Arrived(p, b, settled)[1] = Home[p][b] /\ None \in Digests
    BY <1>1, ContentTypes DEF Arrived
  <2> QED
    BY <2>1, <2>2, RegionTypes
<1>7. regions \in [Boundaries -> Regions]
  <2>1. \A b \in Boundaries : regions[b] \in Regions
    BY <1>1, <1>5, <1>6
  <2>2. regions = [b \in Boundaries |-> regions[b]]
    BY DEF Navigated
  <2> HIDE DEF regions
  <2> QED
    BY <2>1, <2>2
<1>8. ~doubled' => ShowsPage(regions, p)
  <2>1. ~doubled' => ~doubled
    BY DEF NavigationApplied, StartLive, ConnectOnce
  <2>2. ~doubled => ShowsPage(applied, page)
    BY <1>1 DEF LiveInv, PageInv
  <2> QED
    BY <2>1, <2>2, <1>5, <1>6 DEF ShowsPage
<1> HIDE DEF regions
<1>9. doc' \in [state : {"whole"}, version : Keys, guard : {FALSE}]
  BY <1>1, <1>3 DEF Types, ScreenTypes
<1> QED
  BY <1>3, <1>4, <1>7, <1>8, <1>9, StartStep DEF serverVars, bounds
\* checkDocumentEnd without its marker, the second time: the document is given up.
LEMMA DocumentTruncatedStep ==
    ASSUME LiveInv, DocumentTruncated
    PROVE  LiveInv' /\ (BeliefInv => BeliefInv')
<1>1. /\ value' = value /\ producing' = producing /\ process' = process
      /\ changes' = changes /\ restarts' = restarts /\ faults' \in Nat
  BY DEF DocumentTruncated, Fault, serverVars, LiveInv, Types, ServerTypes
<1>2. CASE ~doc.guard
  BY <1>1, <1>2, ReloadStep DEF DocumentTruncated
<1>3. CASE doc.guard
  <2>1. /\ doc' = [doc EXCEPT !.state = "stuck"] /\ doc.state = "loading"
        /\ UNCHANGED <<response, loop, connection, running, nav, doubled, applied, page>>
    BY <1>3 DEF DocumentTruncated
  <2>2. ServerTypes /\ ScreenTypes /\ CountInv /\ KeyInv
    BY DEF LiveInv, Types
  <2>3. ServerTypes' /\ KeyInv'
    BY <1>1, <2>2, ServerKept
  <2>4. doc' \in [state : {"loading", "whole", "stuck"}, version : Keys, guard : BOOLEAN]
        /\ doc'.state = "stuck"
    BY <2>1, <2>2 DEF ScreenTypes
  <2>5. ScreenTypes' /\ DocInv'
    BY <2>1, <2>2, <2>4 DEF ScreenTypes, DocInv, LiveInv
  <2>6. CountInv'
    BY <1>1, <2>1, <2>2 DEF CountInv, Admitted
  <2>7. ReaderInv' /\ SingleInv' /\ PageInv' /\ (BeliefInv => BeliefInv')
    BY <2>1, <2>4 DEF LiveInv, ReaderInv, SingleInv, PageInv, BeliefInv
  <2> QED
    BY <2>1, <2>3, <2>5, <2>6, <2>7 DEF LiveInv, Types
<1> QED
  BY <1>2, <1>3

\* A loop ends or falls asleep, its response left unread.
LEMMA DisconnectStep ==
    ASSUME LiveInv, NEW l \in Loops, NEW r \in Reading(l), NEW next \in {"asleep", "none"},
           Disconnects(l, r, next), serverVars' = serverVars, bounds' = bounds,
           UNCHANGED <<running, applied, page, doc, nav, doubled>>
    PROVE  LiveInv' /\ (BeliefInv => BeliefInv')
<1>1. /\ ServerTypes /\ ScreenTypes /\ CountInv /\ KeyInv /\ ReaderInv /\ SingleInv /\ PageInv
      /\ DocInv /\ response \in [Responses -> ResponseRecords]
  BY DEF LiveInv, Types
<1>2. r \in Responses /\ response[r].loop = l /\ l # None
  BY LiveAssumption DEF Reading
<1>3. ServerTypes' /\ KeyInv'
  BY <1>1, ServerKept DEF serverVars, bounds, ServerTypes
<1>4. PICK n \in {"asleep", "none"} : loop' = [loop EXCEPT ![l] = n]
  BY DEF Disconnects
<1>5. connection' \in {connection, None} /\ (connection' = None <=> connection \in {l, None})
  BY LiveAssumption DEF Disconnects
<1>6. Unread(response[r]) \in ResponseRecords /\ Becomes(r, Unread(response[r]))
  BY <1>1, <1>2, UnreadType DEF Disconnects
<1>7. /\ response' \in [Responses -> ResponseRecords]
      /\ response'[r] = Settled(Unread(response[r]))
      /\ \A s \in Responses : s # r => response'[s] = response[s]
  BY <1>1, <1>2, <1>6, BecomesType
<1>8. response'[r].loop = None /\ (response'[r].pc \in Admissible <=> response[r].pc \in Admissible)
  BY <1>1, <1>2, <1>7, LeftUnread
<1>9. CountInv'
  <2>1. Admitted' = Admitted
    BY <1>2, <1>7, <1>8 DEF Admitted, Admissible
  <2> QED
    BY <1>1, <2>1, SameCount DEF serverVars
<1>10. loop[l] = "reading" /\ doc.state = "whole"
  BY <1>1, <1>2 DEF ReaderInv, DocInv, ScreenTypes
<1>11. ScreenTypes' /\ DocInv'
  BY <1>1, <1>4, <1>5, <1>10 DEF ScreenTypes, DocInv
<1>12. ReaderInv'
  <2>1. ASSUME NEW s \in Responses, response'[s].loop # None
        PROVE  s # r /\ response'[s] = response[s] /\ response[s].loop # l
    BY <2>1, <1>1, <1>2, <1>7, <1>8 DEF ReaderInv
  <2> QED
    BY <2>1, <1>1, <1>4 DEF ReaderInv, ScreenTypes
<1>13. SingleInv'
  <2>1. doubled' = doubled /\ nav' = nav
    OBVIOUS
  <2>2. loop'[l] # "reading" /\ \A m \in Loops : m # l => loop'[m] = loop[m]
    BY <1>1, <1>4 DEF ScreenTypes
  <2>3. \A m \in Loops : connection = m /\ m # l => connection' = m
    BY <1>5, LiveAssumption
  <2>4. \A m \in Loops : loop'[m] # "none" => loop[m] # "none"
    BY <1>10, <2>2
  <2> QED
    BY <1>1, <2>1, <2>2, <2>3, <2>4 DEF SingleInv
<1>14. PageInv'
  <2>1. OfPage(response'[r], page)
    BY <1>8, UnreadHarmless
  <2> QED
    BY <2>1, <1>1, <1>7 DEF PageInv
<1>15. BeliefInv => BeliefInv'
  <2>1. Believes(response'[r], applied)
    BY <1>8, UnreadHarmless
  <2> QED
    BY <2>1, <1>7 DEF BeliefInv
<1> QED
  BY <1>3, <1>7, <1>9, <1>11, <1>12, <1>13, <1>14, <1>15 DEF LiveInv, Types

LEMMA WakeStep ==
    ASSUME LiveInv, NEW l \in Loops, Wake(l)
    PROVE  LiveInv' /\ (BeliefInv => BeliefInv')
<1>1. /\ ServerTypes /\ ScreenTypes /\ CountInv /\ KeyInv /\ ReaderInv /\ SingleInv /\ PageInv
      /\ DocInv /\ response \in [Responses -> ResponseRecords]
  BY DEF LiveInv, Types
<1>2. /\ loop[l] = "asleep" /\ doc.state = "whole"
      /\ serverVars' = serverVars /\ bounds' = bounds
      /\ UNCHANGED <<running, applied, page, doc, nav>>
  BY <1>1 DEF Wake, DocInv
<1>3. ServerTypes' /\ KeyInv'
  BY <1>1, <1>2, ServerKept DEF serverVars, bounds, ServerTypes
<1>4. CASE running
  <2>1. ConnectOnce(l, applied, page) /\ nav' = FALSE
    BY <1>1, <1>2, <1>4 DEF Wake, DocInv, ScreenTypes
  <2>2. ~doubled' => ~doubled
    BY <2>1 DEF ConnectOnce
  <2>3. /\ page \in Pages /\ applied \in [Boundaries -> Regions] /\ nav = FALSE
        /\ applied' = applied /\ page' = page
    BY <1>1, <1>2, <2>1 DEF ScreenTypes
  <2>4. ~doubled' => ShowsPage(applied, page)
    BY <1>1, <1>2, <2>2, <2>3 DEF PageInv
  <2>5. /\ response' \in [Responses -> ResponseRecords]
        /\ Admitted' = Admitted
        /\ loop' \in [Loops -> {"none", "reading", "asleep"}]
        /\ connection' \in Loops \cup {None} /\ doubled' \in BOOLEAN
        /\ ReaderInv' /\ SingleInv' /\ PageInv' /\ BeliefInv'
    BY <1>2, <2>1, <2>3, <2>4, ConnectStep
  <2>6. ScreenTypes' /\ DocInv'
    BY <1>1, <1>2, <2>5 DEF ScreenTypes, DocInv
  <2>7. CountInv'
    BY <1>1, <1>2, <2>5, SameCount DEF serverVars
  <2> QED
    BY <1>3, <2>5, <2>6, <2>7 DEF LiveInv, Types
<1>5. CASE ~running
  <2>1. loop' = [loop EXCEPT ![l] = "none"] /\ UNCHANGED <<response, connection, doubled>>
    BY <1>5 DEF Wake
  <2>2. ScreenTypes' /\ DocInv'
    BY <1>1, <1>2, <2>1 DEF ScreenTypes, DocInv
  <2>3. ReaderInv'
    BY <1>1, <1>2, <2>1 DEF ReaderInv, ScreenTypes
  <2>4. SingleInv'
    BY <1>1, <1>2, <2>1 DEF SingleInv, ScreenTypes
  <2>5. PageInv' /\ (BeliefInv => BeliefInv')
    BY <1>1, <1>2, <2>1 DEF PageInv, BeliefInv
  <2>6. CountInv'
    BY <1>1, <1>2, <2>1 DEF CountInv, Admitted, serverVars
  <2> QED
    BY <1>1, <1>3, <2>1, <2>2, <2>3, <2>4, <2>5, <2>6 DEF LiveInv, Types
<1> QED
  BY <1>4, <1>5

\* stopLive aborts the one response that is read, unless two loops connected.
LEMMA NavigationStartsStep ==
    ASSUME LiveInv, NavigationStarts
    PROVE  LiveInv' /\ (BeliefInv => BeliefInv')
<1>1. /\ ServerTypes /\ ScreenTypes /\ CountInv /\ KeyInv /\ ReaderInv /\ SingleInv /\ PageInv
      /\ DocInv /\ response \in [Responses -> ResponseRecords]
  BY DEF LiveInv, Types
<1>2. /\ doc.state = "whole" /\ nav = FALSE /\ nav' = TRUE /\ StopLive
      /\ serverVars' = serverVars
      /\ changes' = changes /\ restarts' = restarts /\ faults' = faults
      /\ UNCHANGED <<applied, page, doc, doubled>>
  BY <1>1 DEF NavigationStarts, ScreenTypes
<1>3. ServerTypes' /\ KeyInv'
  BY <1>1, <1>2, ServerKept DEF serverVars, ServerTypes
<1>4. \A r \in Responses :
         /\ response'[r] \in ResponseRecords
         /\ response'[r].pc \in Admissible <=> response[r].pc \in Admissible
         /\ response'[r] = response[r] \/ response'[r].loop = None
         /\ response[r].loop = connection => response'[r].loop = None
  BY <1>1, <1>2, LeftUnread DEF StopLive
<1>5. response' \in [Responses -> ResponseRecords]
  BY <1>2, <1>4 DEF StopLive
<1>6. CountInv'
  <2>1. Admitted' = Admitted
    BY <1>4 DEF Admitted, Admissible
  <2> QED
    BY <1>1, <1>2, <2>1, SameCount DEF serverVars
<1>7. /\ running' = FALSE /\ connection' = None
      /\ loop' = [m \in Loops |-> IF m = connection THEN "none" ELSE loop[m]]
  BY <1>2 DEF StopLive
<1>8. ScreenTypes' /\ DocInv'
  <2>1. loop' \in [Loops -> {"none", "reading", "asleep"}]
    BY <1>1, <1>7 DEF ScreenTypes
  <2>2. ScreenTypes'
    BY <1>1, <1>2, <1>7, <2>1 DEF ScreenTypes
  <2>3. DocInv'
    BY <1>1, <1>2, <1>7 DEF DocInv
  <2> QED
    BY <2>2, <2>3
<1>9. ReaderInv'
  <2>1. ASSUME NEW s \in Responses, response'[s].loop # None
        PROVE  /\ response'[s].loop = response[s].loop /\ response[s].loop # connection
               /\ response[s].loop \in Loops
    BY <2>1, <1>1, <1>4 DEF ResponseRecords
  <2> QED
    BY <2>1, <1>1, <1>7 DEF ReaderInv
<1>10. SingleInv'
  BY <1>1, <1>2, <1>7 DEF SingleInv, ScreenTypes
<1>11. PageInv'
  BY <1>1, <1>2, <1>4, UnreadHarmless DEF PageInv
<1>12. BeliefInv => BeliefInv'
  BY <1>2, <1>4, UnreadHarmless DEF BeliefInv
<1> QED
  BY <1>3, <1>5, <1>6, <1>8, <1>9, <1>10, <1>11, <1>12 DEF LiveInv, Types
-----------------------------------------------------------------------------
(* handleRecord. *)

LEMMA TailRecord ==
    ASSUME NEW w \in Seq(WireRecords), w # <<>>
    PROVE  /\ Head(w) \in WireRecords /\ Tail(w) \in Seq(WireRecords)
           /\ 1 \in DOMAIN w /\ w[1] = Head(w)
           /\ \A i \in DOMAIN Tail(w) : i + 1 \in DOMAIN w /\ Tail(w)[i] = w[i + 1]
           /\ \A b, a, d : ~(Head(w).kind = "await" /\ Head(w).id = b) /\ ComesTo(w, b, a, d)
                 => ComesTo(Tail(w), b, a, d)
           /\ \A a, d : Head(w).kind = "await" /\ ComesTo(w, Head(w).id, a, d)
                 => ComesTo(Tail(w), Head(w).id, Head(w).digest, d)
<1> DEFINE v == Tail(w)
           x == Head(w)
<1>1. /\ Len(w) \in Nat /\ Len(w) # 0 /\ DOMAIN w = 1 .. Len(w)
      /\ x \in WireRecords /\ x = w[1]
      /\ v \in Seq(WireRecords) /\ DOMAIN v = 1 .. Len(w) - 1
      /\ \A i \in 1 .. Len(w) - 1 : v[i] = w[i + 1]
  <2>1. Len(w) \in Nat /\ Len(w) # 0 /\ DOMAIN w = 1 .. Len(w)
    BY LenProperties, EmptySeq
  <2>2. v \in Seq(WireRecords) /\ Len(v) = Len(w) - 1 /\ x \in WireRecords /\ x = w[1]
        /\ \A i \in 1 .. Len(v) : v[i] = w[i + 1]
    BY <2>1, HeadTailProperties
  <2> QED
    BY <2>1, <2>2, LenProperties
<1> HIDE DEF v, x
<1>2. \A b : \A i \in DOMAIN v :
          i \in AwaitsAt(v, b) <=> i + 1 \in AwaitsAt(w, b)
  BY <1>1 DEF AwaitsAt
<1>3. \A b : \A i \in AwaitsAt(w, b) :
          \/ i = 1 /\ x.kind = "await" /\ x.id = b
          \/ i - 1 \in AwaitsAt(v, b) /\ v[i - 1] = w[i]
  BY <1>1 DEF AwaitsAt
<1>4. \A b : \A i \in AwaitsAt(v, b) : i \in Nat /\ i >= 1 /\ i + 1 \in AwaitsAt(w, b)
  BY <1>1, <1>2 DEF AwaitsAt
<1>5. ASSUME NEW b, NEW a, NEW d, NEW i \in AwaitsAt(w, b), i # 1, w[i].digest = d,
             \A j \in AwaitsAt(w, b) : j <= i
      PROVE  ComesTo(v, b, a, d)
  <2>1. i - 1 \in AwaitsAt(v, b) /\ v[i - 1].digest = d
    BY <1>3, <1>5
  <2>2. i \in Nat
    BY <1>1 DEF AwaitsAt
  <2>3. \A j \in AwaitsAt(v, b) : j <= i - 1
    BY <1>4, <1>5, <2>2
  <2> QED
    BY <2>1, <2>3 DEF ComesTo
<1>6. ASSUME NEW b, NEW a, NEW d, ~(x.kind = "await" /\ x.id = b), ComesTo(w, b, a, d)
      PROVE  ComesTo(v, b, a, d)
  <2>1. CASE AwaitsAt(w, b) = {} /\ a = d
    <3>1. AwaitsAt(v, b) = {}
      BY <2>1, <1>4
    <3> QED
      BY <2>1, <3>1 DEF ComesTo
  <2>2. CASE \E i \in AwaitsAt(w, b) : w[i].digest = d /\ \A j \in AwaitsAt(w, b) : j <= i
    <3>1. PICK i \in AwaitsAt(w, b) : w[i].digest = d /\ \A j \in AwaitsAt(w, b) : j <= i
      BY <2>2
    <3>2. i # 1
      BY <1>1, <1>6, <3>1 DEF AwaitsAt
    <3> QED
      BY <3>1, <3>2, <1>5
  <2> QED
    BY <1>6, <2>1, <2>2 DEF ComesTo
<1>7. ASSUME NEW a, NEW d, x.kind = "await", ComesTo(w, x.id, a, d)
      PROVE  ComesTo(v, x.id, x.digest, d)
  <2>1. 1 \in AwaitsAt(w, x.id)
    BY <1>1, <1>7 DEF AwaitsAt
  <2>2. PICK i \in AwaitsAt(w, x.id) : w[i].digest = d /\ \A j \in AwaitsAt(w, x.id) : j <= i
    BY <2>1, <1>7 DEF ComesTo
  <2>3. CASE i # 1
    BY <2>2, <2>3, <1>5
  <2>4. CASE i = 1
    <3>1. ASSUME NEW j \in AwaitsAt(v, x.id) PROVE FALSE
      BY <3>1, <2>2, <2>4, <1>4
    <3>2. AwaitsAt(v, x.id) = {}
      BY <3>1
    <3> QED
      BY <3>2, <2>2, <2>4, <1>1 DEF ComesTo
  <2> QED
    BY <2>3, <2>4
<1>8. \A i \in DOMAIN v : i + 1 \in DOMAIN w /\ v[i] = w[i + 1]
  BY <1>1
<1>9. 1 \in DOMAIN w
  BY <1>1
<1>10. \A b, a, d : ~(x.kind = "await" /\ x.id = b) /\ ComesTo(w, b, a, d)
          => ComesTo(v, b, a, d)
  BY <1>6
<1>11. \A a, d : x.kind = "await" /\ ComesTo(w, x.id, a, d)
          => ComesTo(v, x.id, x.digest, d)
  BY <1>7
<1> QED
  BY <1>1, <1>8, <1>9, <1>10, <1>11 DEF v, x

\* What a response is once its first record is read.
LEMMA ReadOne ==
    ASSUME NEW q \in ResponseRecords, q.wire # <<>>
    PROVE  LET p == [q EXCEPT !.wire = Tail(@)]
           IN  /\ p \in ResponseRecords /\ p.pc = q.pc /\ p.loop = q.loop
               /\ p.onScreen = q.onScreen /\ p.cut = q.cut /\ p.wire = Tail(q.wire)
               /\ \A n : OfPage(q, n) => OfPage(p, n)
               /\ \A n : OfPage(q, n) /\ q.loop # None /\ Head(q.wire).kind = "await"
                     => Head(q.wire).content[1] = Home[n][Head(q.wire).id]
<1> DEFINE p == [q EXCEPT !.wire = Tail(q.wire)]
<1>1. q.wire \in Seq(WireRecords)
  BY DEF ResponseRecords
<1>2. Tail(q.wire) \in Seq(WireRecords)
  BY <1>1, TailRecord
<1>3. /\ p \in ResponseRecords /\ p.pc = q.pc /\ p.loop = q.loop /\ p.page = q.page
      /\ p.onScreen = q.onScreen /\ p.cut = q.cut /\ p.wire = Tail(q.wire)
  BY <1>2 DEF ResponseRecords
<1>4. [q EXCEPT !.wire = Tail(@)] = p
  BY DEF ResponseRecords
<1> HIDE DEF p
<1>5. \A n : OfPage(q, n) => OfPage(p, n)
  BY <1>1, <1>3, TailRecord DEF OfPage, RecordsOf
<1>6. \A n : OfPage(q, n) /\ q.loop # None /\ Head(q.wire).kind = "await"
         => Head(q.wire).content[1] = Home[n][Head(q.wire).id]
  BY <1>1, TailRecord DEF OfPage, RecordsOf
<1> QED
  BY <1>3, <1>4, <1>5, <1>6
\* A delivery is applied.  Only what reads the screen of its page delivers to it.
LEMMA DeliveryStep ==
    ASSUME LiveInv, NEW l \in Loops, NEW r \in Reading(l),
           response[r].wire # <<>>, Head(response[r].wire).kind = "await",
           applied' = ApplyBoundary(Head(response[r].wire).id, Head(response[r].wire).content,
                                    Head(response[r].wire).digest),
           Becomes(r, [response[r] EXCEPT !.wire = Tail(@)]),
           serverVars' = serverVars, bounds' = bounds,
           UNCHANGED <<loop, connection, running, page, doc, nav, doubled>>
    PROVE  LiveInv' /\ (Unnested /\ BeliefInv => BeliefInv')
<1> DEFINE q == response[r]
           p == [q EXCEPT !.wire = Tail(@)]
           x == Head(q.wire)
<1>1. /\ ServerTypes /\ ScreenTypes /\ CountInv /\ KeyInv /\ ReaderInv /\ SingleInv /\ PageInv
      /\ DocInv /\ response \in [Responses -> ResponseRecords]
  BY DEF LiveInv, Types
<1>2. r \in Responses /\ q.loop = l /\ l # None /\ q \in ResponseRecords
  BY <1>1, LiveAssumption DEF Reading
<1>3. /\ p \in ResponseRecords /\ p.pc = q.pc /\ p.loop = q.loop
      /\ p.onScreen = q.onScreen /\ p.cut = q.cut /\ p.wire = Tail(q.wire)
      /\ \A n : OfPage(q, n) => OfPage(p, n)
      /\ \A n : OfPage(q, n) => x.content[1] = Home[n][x.id]
  BY <1>2, ReadOne
<1>4. q.wire \in Seq(WireRecords)
  BY <1>2 DEF ResponseRecords
<1>5. x \in WireRecords /\ x.kind = "await"
  BY <1>4, TailRecord
<1>6. /\ x.id \in Boundaries /\ x.content \in Contents /\ x.digest \in Digests
      /\ x.digest # None => x.digest[2] = x.content
  BY <1>5, AwaitTypes
<1>7. x.content[1] \in Pages
  BY <1>6 DEF Contents
<1>8. Becomes(r, p)
  OBVIOUS
<1>9. applied' = ApplyBoundary(x.id, x.content, x.digest)
  OBVIOUS
<1> HIDE DEF p, x
<1>10. /\ response' \in [Responses -> ResponseRecords]
       /\ response'[r] = Settled(p)
       /\ \A s \in Responses : s # r => response'[s] = response[s]
  BY <1>1, <1>2, <1>3, <1>8, BecomesType
<1>11. response'[r] = p
  BY <1>2, <1>3, <1>10, SettledType
<1>12. <<x.content[1], Fallback>> \in Contents /\ <<x.content[1], Fallback>>[1] = x.content[1]
       /\ None \in Digests
  BY <1>7 DEF Contents, Digests
<1>13. \A c \in Boundaries :
          /\ applied'[c] \in Regions
          /\ \/ applied'[c] = applied[c]
             \/ /\ applied'[c].content[1] = x.content[1]
                /\ \A n \in Pages : Home[n][c] = Home[n][x.id]
  <2> TAKE c \in Boundaries
  <2> DEFINE inner == <<x.content[1], Fallback>>
  <2>1. \/ applied'[c] = applied[c]
        \/ /\ applied'[c] \in {Region(x.content, x.digest), Region(inner, None)}
           /\ c = x.id \/ x.id \in Outer[c]
    BY <1>9 DEF ApplyBoundary
  <2>2. applied[c] \in Regions
    BY <1>1 DEF ScreenTypes
  <2>3. Region(x.content, x.digest) \in Regions /\ Region(x.content, x.digest).content = x.content
    BY <1>6, RegionTypes
  <2> HIDE DEF inner
  <2>4. inner \in Contents /\ inner[1] = x.content[1]
    BY <1>12 DEF inner
  <2>5. Region(inner, None) \in Regions /\ Region(inner, None).content = inner
    BY <1>12, <2>4, RegionTypes
  <2>6. c = x.id \/ x.id \in Outer[c] => \A n \in Pages : Home[n][c] = Home[n][x.id]
    BY LiveAssumption
  <2> QED
    BY <2>1, <2>2, <2>3, <2>4, <2>5, <2>6
<1>14. applied' \in [Boundaries -> Regions]
  BY <1>9, <1>13 DEF ApplyBoundary
<1>15. ServerTypes' /\ KeyInv'
  BY <1>1, ServerKept DEF serverVars, bounds, ServerTypes
<1>16. ScreenTypes' /\ DocInv' /\ SingleInv'
  BY <1>1, <1>14 DEF ScreenTypes, DocInv, SingleInv
<1>17. CountInv'
  <2>1. Admitted' = Admitted
    BY <1>2, <1>3, <1>10, <1>11 DEF Admitted
  <2> QED
    BY <1>1, <2>1, SameCount DEF serverVars
<1>18. ReaderInv'
  <2>1. \A s \in Responses : response'[s].loop = response[s].loop
    BY <1>3, <1>10, <1>11
  <2> QED
    BY <1>1, <2>1 DEF ReaderInv
<1>19. ASSUME ~doubled, NEW s \in Responses, s # r PROVE response'[s].loop = None
  <2>1. loop[l] = "reading"
    BY <1>1, <1>2 DEF ReaderInv
  <2>2. response[s].loop # None => loop[response[s].loop] = "reading" /\ response[s].loop \in Loops
    BY <1>1 DEF ReaderInv, ResponseRecords
  <2>3. response[s].loop # None => response[s].loop = l
    BY <1>1, <1>19, <2>1, <2>2 DEF SingleInv
  <2> QED
    BY <1>1, <1>2, <1>10, <1>19, <2>3 DEF ReaderInv
<1>20. PageInv'
  <2> SUFFICES ASSUME ~doubled
               PROVE  /\ \A s \in Responses : OfPage(response'[s], page)
                      /\ doc.state = "whole" => ShowsPage(applied', page)
    BY DEF PageInv
  <2>1. OfPage(q, page)
    BY <1>1, <1>2 DEF PageInv
  <2>2. x.content[1] = Home[page][x.id] /\ OfPage(p, page)
    BY <2>1, <1>3
  <2>3. \A s \in Responses : OfPage(response'[s], page)
    BY <2>2, <1>11, <1>19, UnreadHarmless
  <2>4. doc.state = "whole" => ShowsPage(applied', page)
    BY <1>1, <1>13, <2>2 DEF PageInv, ShowsPage, ScreenTypes
  <2> QED
    BY <2>3, <2>4
<1>21. ASSUME Unnested, BeliefInv PROVE BeliefInv'
  <2> SUFFICES ASSUME ~doubled, NEW s \in Responses PROVE Believes(response'[s], applied')
    BY DEF BeliefInv
  <2>1. CASE s # r
    BY <2>1, <1>19, UnreadHarmless
  <2>2. CASE s = r
    <3> SUFFICES ASSUME q.pc \in {"asked", "open"}, ~q.cut, NEW b \in Boundaries,
                        q.onScreen[b] # None
                 PROVE  ComesTo(Tail(q.wire), b, applied'[b].digest, q.onScreen[b])
      BY <2>2, <1>3, <1>11 DEF Believes
    <3>1. ComesTo(q.wire, b, applied[b].digest, q.onScreen[b])
      BY <1>2, <1>21 DEF BeliefInv, Believes
    <3>2. CASE b = x.id
      <4>1. applied'[b].digest = x.digest
        BY <3>2, <1>6, <1>9, RegionTypes DEF ApplyBoundary
      <4> QED
        BY <3>1, <3>2, <4>1, <1>4, <1>5, TailRecord DEF x
    <3>3. CASE b # x.id
      <4>1. applied'[b] = applied[b]
        BY <3>3, <1>6, <1>9, <1>21 DEF ApplyBoundary, Unnested
      <4> QED
        BY <3>1, <3>3, <4>1, <1>4, <1>5, TailRecord DEF x
    <3> QED
      BY <3>2, <3>3
  <2> QED
    BY <2>1, <2>2
<1> QED
  BY <1>10, <1>15, <1>16, <1>17, <1>18, <1>20, <1>21 DEF LiveInv, Types

LEMMA ReceiveStep ==
    ASSUME LiveInv, NEW l \in Loops, NEW r \in Responses, Receive(l, r)
    PROVE  LiveInv' /\ (Unnested /\ BeliefInv => BeliefInv')
<1> DEFINE q == response[r]
           x == Head(q.wire)
           p == [q EXCEPT !.wire = Tail(@)]
<1>1. r \in Reading(l) /\ q.wire # <<>> /\ serverVars' = serverVars /\ bounds' = bounds
  BY DEF Receive
<1>2. q \in ResponseRecords /\ faults \in Nat /\ q.wire \in Seq(WireRecords)
  BY DEF LiveInv, Types, ServerTypes, ResponseRecords
<1>3. /\ value' = value /\ producing' = producing /\ process' = process
      /\ changes' = changes /\ restarts' = restarts /\ faults' \in Nat
  BY <1>1, <1>2 DEF serverVars, bounds
<1>4. CASE x.kind = "head" /\ x.build = doc.version
  <2>1. Becomes(r, p) /\ screenVars' = screenVars
    BY <1>4 DEF Receive
  <2>2. /\ p \in ResponseRecords /\ p.pc = q.pc /\ p.loop = q.loop
        /\ p.onScreen = q.onScreen /\ p.cut = q.cut /\ p.wire = Tail(q.wire)
        /\ \A n : OfPage(q, n) => OfPage(p, n)
    BY <1>1, <1>2, ReadOne
  <2>3. \A b, a, d : ComesTo(q.wire, b, a, d) => ComesTo(Tail(q.wire), b, a, d)
    BY <1>1, <1>2, <1>4, TailRecord
  <2> HIDE DEF p
  <2>4. Follows(q, p)
    BY <2>2, <2>3 DEF Follows, Believes
  <2>5. ServerStep
    BY <1>1, <1>3, <2>1, <2>2, <2>4, OneServerStep
  <2> QED
    BY <2>5, ServerKeeps
<1>5. CASE x.kind = "head" /\ x.build # doc.version
  <2>1. ReloadOnce
    BY <1>5 DEF Receive
  <2> QED
    BY <1>3, <2>1, ReloadStep
<1>6. CASE x.kind = "await"
  <2>1. /\ applied' = ApplyBoundary(x.id, x.content, x.digest)
        /\ Becomes(r, p)
        /\ UNCHANGED <<loop, connection, running, page, doc, nav, doubled>>
    BY <1>6 DEF Receive
  <2> QED
    BY <1>1, <1>6, <2>1, DeliveryStep
<1>7. CASE x.kind \in {"retry", "done"}
  <2>1. PICK next \in {"asleep", "none"} : Disconnects(l, r, next)
    BY <1>7 DEF Receive
  <2>2. UNCHANGED <<running, applied, page, doc, nav, doubled>>
    BY <1>7 DEF Receive
  <2> QED
    BY <1>1, <2>1, <2>2, DisconnectStep
<1> QED
  BY <1>4, <1>5, <1>6, <1>7 DEF Receive

-----------------------------------------------------------------------------
LEMMA LiveStep ==
    ASSUME LiveInv, [Next]_vars
    PROVE  LiveInv' /\ (Unnested /\ BeliefInv => BeliefInv')
<1>1. ASSUME NEW r \in Responses, Server(r) PROVE ServerStep
  BY <1>1, ArriveStep, EndingStep, ReleaseStep, YieldStep DEF Server
<1>2. ASSUME Environment PROVE ServerStep \/ DocumentTruncated
  BY <1>2, SourceStep, RestartStep, EndingStep, LostStep DEF Environment
<1>3. ASSUME NEW l \in Loops, Looping(l)
      PROVE  LiveInv' /\ (Unnested /\ BeliefInv => BeliefInv')
  <2>1. ASSUME NEW r \in Responses, Truncated(l, r)
        PROVE  LiveInv' /\ (BeliefInv => BeliefInv')
    BY <2>1, DisconnectStep DEF Truncated
  <2> QED
    BY <1>3, <2>1, WakeStep, ReceiveStep DEF Looping
<1>4. ASSUME vars' = vars PROVE ServerStep
  <2>1. /\ serverVars' = serverVars /\ response' = response /\ screenVars' = screenVars
        /\ bounds' = bounds
    BY <1>4 DEF vars
  <2>2. ServerTypes' /\ KeyInv' /\ ScreenTypes'
    BY <2>1, ServerKept, ScreenKept DEF LiveInv, Types, serverVars, bounds, ServerTypes
  <2>3. CountInv'
    BY <2>1 DEF LiveInv, CountInv, Admitted, serverVars
  <2> QED
    BY <2>1, <2>2, <2>3, FollowsSelf DEF ServerStep, LiveInv, Types
<1>5. CASE Next
  BY <1>1, <1>2, <1>3, <1>5, ServerKeeps, DocumentTruncatedStep, DocumentArrivesStep,
     NavigationAppliedStep, NavigationFallsStep, NavigationStartsStep DEF Next, Loading, Navigating
<1> QED
  BY <1>4, <1>5, ServerKeeps

LEMMA LiveStart == Init => LiveInv /\ BeliefInv
<1> SUFFICES ASSUME Init PROVE LiveInv /\ BeliefInv
  OBVIOUS
<1>1. /\ FirstPage \in Pages /\ 0 \in Keys /\ None \in Digests
      /\ \A b \in Boundaries : Waiting(FirstPage, b) \in Contents
  BY LiveAssumption DEF Keys, Contents, Fallback, Digests, Waiting
<1>2. \A b \in Boundaries : Region(Waiting(FirstPage, b), None) \in Regions
  BY <1>1, RegionTypes
<1>3. response \in [Responses -> ResponseRecords]
      /\ \A r \in Responses : response[r] = Unasked
  BY UnaskedType DEF Init
<1>4. Types
  BY <1>1, <1>2, <1>3, LiveAssumption DEF Init, Types, ServerTypes, ScreenTypes, Values
<1>5. Admitted = {}
  BY <1>3, UnaskedType DEF Admitted
<1>6. CountInv /\ KeyInv
  BY <1>5, FS_EmptySet, LiveAssumption DEF Init, CountInv, KeyInv
<1>7. DocInv /\ SingleInv
  BY DEF Init, DocInv, SingleInv
<1>8. ReaderInv /\ PageInv /\ BeliefInv
  BY <1>3, UnaskedType, UnreadHarmless DEF Init, ReaderInv, PageInv, BeliefInv
<1> QED
  BY <1>4, <1>6, <1>7, <1>8 DEF LiveInv

(* The invariant the other results rest on.  With two loops connected it   *)
(* still says who reads what, and that admissions are counted.             *)
THEOREM LiveInvariant == Spec => []LiveInv
<1>1. Init => LiveInv
  BY LiveStart
<1>2. LiveInv /\ [Next]_vars => LiveInv'
  BY LiveStep
<1> QED
  BY <1>1, <1>2, PTL DEF Spec

(* Type correctness, and the accounting of AdmitLive: however responses    *)
(* end - by themselves, by the watchdog, by a client that goes away or     *)
(* with the process - the count is that of the responses whose deferred    *)
(* release is still to come, and never passes html.live_max_responses.     *)
THEOREM LiveTypeCorrect == Spec => []TypeOK
<1>1. LiveInv => TypeOK
  <2> SUFFICES ASSUME LiveInv PROVE TypeOK
    OBVIOUS
  <2>1. /\ ServerTypes /\ ScreenTypes /\ CountInv /\ DocInv
        /\ \A r \in Responses : response[r] \in ResponseRecords
    BY DEF LiveInv, Types
  <2>2. process.open \in Nat /\ process.open <= MaxResponses /\ MaxResponses \in Nat
    BY <2>1, LiveAssumption DEF ServerTypes, CountInv
  <2>3. process.open \in 0 .. MaxResponses
    BY <2>2
  <2>4. process \in [key : Keys, build : Keys, open : 0 .. MaxResponses]
    BY <2>1, <2>3 DEF ServerTypes
  <2>5. \A r \in Responses :
          /\ response[r].pc \in {"free", "asked", "open", "closing", "over"}
          /\ response[r].loop \in Loops \cup {None}
          /\ response[r].page \in Pages
          /\ response[r].onScreen \in [Boundaries -> Digests]
          /\ response[r].due \in [Boundaries -> {"never", "again", "no"}]
    BY <2>1 DEF ResponseRecords
  <2>6. doc.state \in {"loading", "whole", "stuck"} /\ (doc.guard => doc.state # "whole")
    BY <2>1 DEF ScreenTypes, DocInv
  <2>7. process.open = Cardinality({r \in Responses : response[r].pc \in {"open", "closing"}})
    BY <2>1 DEF CountInv, Admitted
  <2> QED
    BY <2>1, <2>4, <2>5, <2>6, <2>7 DEF TypeOK, ServerTypes, ScreenTypes, Regions
<1> QED
  BY <1>1, LiveInvariant, PTL

(* While one loop delivers, a delivery for the page that was left never    *)
(* lands in a region of the page that came.  Two loops can come to         *)
(* connect, and then it may (the run with two navigations).                *)
THEOREM PagesCorrect == Spec => [](~doubled => OldPageStaysOut)
<1>1. LiveInv => (~doubled => OldPageStaysOut)
  BY DEF LiveInv, PageInv, ShowsPage, OldPageStaysOut
<1> QED
  BY <1>1, LiveInvariant, PTL

(* Where no boundary is rendered inside another, and on a screen that a    *)
(* single loop delivers to (SuppressionSound is silent about `doubled'), a *)
(* delivery is left out only where the screen has its content: through     *)
(* lost connections, restarts, and navigations that leave any regions the  *)
(* pages share in place with their validators, what a response believes of *)
(* a region is what the region shows once the records on the wire are      *)
(* read.                                                                   *)
THEOREM SuppressionCorrect ==
    ASSUME Unnested
    PROVE  Spec => []SuppressionSound
<1> DEFINE Inv == LiveInv /\ BeliefInv
<1>1. Init => Inv
  BY LiveStart
<1>2. Inv /\ [Next]_vars => Inv'
  BY LiveStep
<1>3. Inv => SuppressionSound
  <2> SUFFICES ASSUME Inv, NEW r \in Responses, NEW b \in Boundaries,
                      response[r].pc \in {"asked", "open"}, response[r].loop # None,
                      ~response[r].cut, ~doubled, response[r].onScreen[b] # None
               PROVE  Coming(r, b) = response[r].onScreen[b][2]
    BY DEF SuppressionSound
  <2> DEFINE w == response[r].wire
             d == response[r].onScreen[b]
             sent == AwaitsAt(w, b)
  <2>1. ComesTo(w, b, applied[b].digest, d) /\ d # None
    BY DEF BeliefInv, Believes
  <2>2. w \in Seq(WireRecords)
    BY DEF LiveInv, Types, ResponseRecords
  <2>3. Coming(r, b) = IF sent = {} THEN applied[b].content
                       ELSE w[CHOOSE i \in sent : \A j \in sent : j <= i].content
    BY DEF Coming, AwaitsAt
  <2>4. sent \subseteq Nat
    BY <2>2, LenProperties DEF AwaitsAt
  <2>5. applied[b].digest # None => applied[b].digest[2] = applied[b].content
    BY DEF LiveInv, Types, ScreenTypes, Regions, Truthful
  <2>6. \A i \in sent : w[i].digest # None => w[i].digest[2] = w[i].content
    BY <2>2, AwaitTypes, ElementOfSeq, LenProperties DEF AwaitsAt
  <2> HIDE DEF w, d, sent
  <2>7. CASE sent = {}
    BY <2>1, <2>3, <2>5, <2>7 DEF ComesTo, sent, d
  <2>8. CASE sent # {}
    <3>1. PICK i \in sent : w[i].digest = d /\ \A j \in sent : j <= i
      BY <2>1, <2>8 DEF ComesTo, sent
    <3> DEFINE m == CHOOSE k \in sent : \A j \in sent : j <= k
    <3>2. m \in sent /\ \A j \in sent : j <= m
      BY <3>1
    <3>3. Coming(r, b) = w[m].content
      BY <2>3, <2>8
    <3> HIDE DEF m
    <3>4. m \in Nat /\ i \in Nat /\ m <= i /\ i <= m
      BY <2>4, <3>1, <3>2
    <3>5. m = i
      BY <3>4
    <3> QED
      BY <2>1, <2>6, <3>1, <3>3, <3>5 DEF d
  <2> QED
    BY <2>7, <2>8
<1> QED
  BY <1>1, <1>2, <1>3, PTL DEF Spec

=============================================================================
