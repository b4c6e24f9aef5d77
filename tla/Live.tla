-------------------------------- MODULE Live --------------------------------
(***************************************************************************)
(* Live delivery: serveLive of pw/live.go and runLiveStream of             *)
(* pwfast/live.go, the admission and watchdog of pwruntime/live.go, and    *)
(* the browser's half, pwbrowser/boundary.js with the navigation of        *)
(* pwbrowser/update.js.  One screen, one server process.                   *)
(*                                                                         *)
(* A region's content is the page it belongs to, or the page a layout is   *)
(* named for that several pages share, and a value; a validator is that    *)
(* under the key of the process that computed it.  The records of a        *)
(* response are on its `wire' until the browser reads them.  Tags, signals, *)
(* content codings and the length of a back-off are left out; rendering    *)
(* itself is the template library's and external.                          *)
(***************************************************************************)
EXTENDS Integers, Sequences, FiniteSets

CONSTANTS
    Boundaries,
    Outer,           \* the boundaries each one is rendered inside of
    Pages,
    FirstPage,
    Home,            \* the page that page p's region b is named for: pages with
                     \* one layout render its regions alike
    None,
    Loops,           \* activations of runLive
    Responses,
    MaxResponses,    \* html.live_max_responses, for this client
    MaxChanges,      \* bound on changes of the values
    MaxNavigations,  \* bound on navigations
    MaxRestarts,     \* bound on restarts of the server
    MaxFaults        \* bound on lost connections, failures and expired lifetimes

ASSUME LiveAssumption ==
    /\ IsFiniteSet(Boundaries) /\ IsFiniteSet(Loops) /\ IsFiniteSet(Responses)
    /\ None \notin Boundaries \cup Loops \cup Responses
    /\ Outer \in [Boundaries -> SUBSET Boundaries]
    /\ FirstPage \in Pages
    /\ Home \in [Pages -> [Boundaries -> Pages]]
    /\ \A p \in Pages : \A b \in Boundaries : \A o \in Outer[b] : Home[p][o] = Home[p][b]
    /\ MaxResponses \in Nat \ {0}
    /\ MaxChanges \in Nat /\ MaxNavigations \in Nat
    /\ MaxRestarts \in Nat /\ MaxFaults \in Nat

VARIABLES
    value,       \* what each boundary's source would yield now
    producing,   \* some source has not ended
    process,     \* [key, build, open]: the process, and liveAdmission.open
    response,    \* the live responses, server and wire
    loop,        \* where each runLive is
    connection,  \* the module variable: the loop whose controller it holds
    running,
    applied,     \* what each region shows, with its validator
    page,        \* location
    doc,         \* [state, version, guard]: the document and the reload guard
    nav,         \* a navigation's response is being applied
    gaveUp,      \* history: a response ended as done on a failure
    doubled,     \* history: two loops have connected since the document came
    changes, navigations, restarts, faults

serverVars == <<value, producing, process>>
screenVars == <<loop, connection, running, applied, page, doc, nav, doubled>>
bounds     == <<changes, navigations, restarts, faults>>
vars == <<serverVars, response, screenVars, gaveUp, bounds>>

Values   == {0, 1}
Fallback == -1
Keys     == 0 .. MaxRestarts
Digest(k, content) == <<k, content>>

\* What a rendering of page p has in region b: the source's value, or a fallback.
Now(p, b)     == <<Home[p][b], value[b]>>
Waiting(p, b) == <<Home[p][b], Fallback>>
Region(content, digest) == [content |-> content, digest |-> digest]

Unasked ==
    [pc |-> "free", loop |-> None, page |-> FirstPage, onScreen |-> [b \in Boundaries |-> None],
     due |-> [b \in Boundaries |-> "never"], committed |-> FALSE, wire |-> <<>>,
     cut |-> FALSE]

\* A response the server has left and nobody reads is over.
Settled(q) == IF q.pc = "over" /\ q.loop = None THEN Unasked ELSE q
Becomes(r, q) == response' = [response EXCEPT ![r] = Settled(q)]
Reading(l) == {r \in Responses : response[r].loop = l}
Unread(q) == [q EXCEPT !.loop = None, !.wire = <<>>]

Init ==
    /\ value = [b \in Boundaries |-> 0] /\ producing = TRUE
    /\ process = [key |-> 0, build |-> 0, open |-> 0]
    /\ response = [r \in Responses |-> Unasked]
    /\ loop = [l \in Loops |-> "none"]
    /\ connection = None /\ running = FALSE
    /\ applied = [b \in Boundaries |-> Region(Waiting(FirstPage, b), None)]
    /\ page = FirstPage
    /\ doc = [state |-> "loading", version |-> 0, guard |-> FALSE]
    /\ nav = FALSE
    /\ gaveUp = FALSE /\ doubled = FALSE
    /\ changes = 0 /\ navigations = 0 /\ restarts = 0 /\ faults = 0

-----------------------------------------------------------------------------
(* The sources and the server.                                             *)

\* A source has a new value, which each open response will be handed.
Produce(b) ==
    /\ producing /\ changes < MaxChanges
    /\ changes' = changes + 1
    /\ value' = [value EXCEPT ![b] = 1 - @]
    /\ response' = [r \in Responses |->
          IF response[r].due[b] = "no" THEN [response[r] EXCEPT !.due[b] = "again"]
                                       ELSE response[r]]
    /\ UNCHANGED <<producing, process, screenVars, gaveUp, navigations, restarts, faults>>

SourcesEnd ==
    /\ producing
    /\ producing' = FALSE
    /\ UNCHANGED <<value, process, response, screenVars, gaveUp, bounds>>

\* A fault this bounded environment may still cause.
Fault ==
    /\ faults < MaxFaults
    /\ faults' = faults + 1
    /\ UNCHANGED <<changes, navigations, restarts>>

\* AdmitLive, and the answer to a response too many.
Arrive(r) ==
    /\ response[r].pc = "asked"
    /\ IF process.open < MaxResponses
       THEN /\ process' = [process EXCEPT !.open = @ + 1]
            /\ Becomes(r, [response[r] EXCEPT !.pc = "open"])
       ELSE /\ Becomes(r, [response[r] EXCEPT !.pc = "over", !.wire = <<[kind |-> "retry"]>>])
            /\ UNCHANGED process
    /\ UNCHANGED <<value, producing, screenVars, gaveUp, bounds>>

\* What a delivery of b hands out again: the boundaries rendered inside it.
Rerendered(due, b) ==
    [c \in Boundaries |-> IF c = b THEN "no" ELSE IF b \in Outer[c] THEN "again" ELSE due[c]]

HeadRecord == [kind |-> "head", build |-> process.build]
Opened(q) == IF q.committed THEN q.wire ELSE Append(q.wire, HeadRecord)

\* RenderChainLive yields b's content.  What the screen already shows is not
\* written.
Yield(r, b) ==
    LET q == response[r]
        d == Digest(process.key, Now(q.page, b))
        record == [kind |-> "await", id |-> b, content |-> Now(q.page, b), digest |-> d]
        wire == IF q.onScreen[b] = d THEN Opened(q) ELSE Append(Opened(q), record)
    IN /\ q.pc = "open" /\ ~q.cut /\ q.loop # None
       /\ q.due[b] # "no"
       /\ \A o \in Outer[b] : q.due[o] # "never"
       /\ Becomes(r, [q EXCEPT !.due = Rerendered(q.due, b), !.committed = TRUE,
                               !.onScreen[b] = d, !.wire = wire])
       /\ UNCHANGED <<serverVars, screenVars, gaveUp, bounds>>

Closes(r, reason) ==
    Becomes(r, [response[r] EXCEPT !.pc = "closing",
                                   !.wire = Append(@, [kind |-> reason])])

\* Every source of the chain has ended and been delivered.
Finishes(r) ==
    /\ response[r].pc = "open" /\ response[r].loop # None /\ ~response[r].cut
    /\ ~producing /\ \A b \in Boundaries : response[r].due[b] = "no"
    /\ Closes(r, "done")
    /\ UNCHANGED <<serverVars, screenVars, gaveUp, bounds>>

\* The watchdog's lifetime or idle bound, or a failure after the commit: the
\* client is expected back.
Bounded(r) ==
    /\ response[r].pc = "open" /\ response[r].loop # None /\ ~response[r].cut
    /\ Fault
    /\ Closes(r, "retry")
    /\ UNCHANGED <<serverVars, screenVars, gaveUp>>

\* A failure nothing recovers, or a boundary too many: done, however far it got.
GivesUp(r) ==
    /\ response[r].pc = "open" /\ response[r].loop # None /\ ~response[r].cut
    /\ Fault
    /\ Closes(r, "done")
    /\ gaveUp' = TRUE
    /\ UNCHANGED <<serverVars, screenVars>>

\* A failure before the commit is an ordinary problem response.
Problem(r) ==
    /\ response[r].pc = "open" /\ ~response[r].committed /\ ~response[r].cut
    /\ Fault
    /\ Becomes(r, [response[r] EXCEPT !.pc = "closing", !.cut = TRUE])
    /\ UNCHANGED <<serverVars, screenVars, gaveUp>>

\* Mutant: only a response that closed itself gives its slot back.
LeavesHolding(r) ==
    /\ response[r].pc = "open"
    /\ response[r].loop = None \/ response[r].cut
    /\ Becomes(r, [response[r] EXCEPT !.pc = "over"])
    /\ UNCHANGED <<serverVars, screenVars, gaveUp, bounds>>

\* The client went away: a write fails or the request's context ends.
Leaves(r) ==
    /\ response[r].pc = "open"
    /\ response[r].loop = None \/ response[r].cut
    /\ Becomes(r, [response[r] EXCEPT !.pc = "closing"])
    /\ UNCHANGED <<serverVars, screenVars, gaveUp, bounds>>

\* The deferred release.
Release(r) ==
    /\ response[r].pc = "closing"
    /\ process' = [process EXCEPT !.open = @ - 1]
    /\ Becomes(r, [response[r] EXCEPT !.pc = "over"])
    /\ UNCHANGED <<value, producing, screenVars, gaveUp, bounds>>

\* The process ends, and another starts: the same build or a new one, with a key
\* and a count of its own.  What was on the wire may still arrive.
Restart(deploy) ==
    /\ restarts < MaxRestarts
    /\ restarts' = restarts + 1
    /\ process' = [key |-> process.key + 1, open |-> 0,
                   build |-> IF deploy THEN process.build + 1 ELSE process.build]
    /\ response' = [r \in Responses |->
          IF response[r].pc \in {"free", "over"} THEN response[r]
          ELSE Settled([response[r] EXCEPT !.pc = "over", !.cut = TRUE])]
    /\ UNCHANGED <<value, producing, screenVars, gaveUp, changes, navigations, faults>>

\* The connection is lost, with some of what was on it.
Lost(r, n) ==
    /\ response[r].pc \in {"asked", "open"} /\ response[r].loop # None /\ ~response[r].cut
    /\ n <= Len(response[r].wire)
    /\ Fault
    /\ Becomes(r, [response[r] EXCEPT
                     !.pc = IF @ = "asked" THEN "over" ELSE @,
                     !.wire = SubSeq(@, 1, n), !.cut = TRUE])
    /\ UNCHANGED <<serverVars, screenVars, gaveUp>>

-----------------------------------------------------------------------------
(* The browser.                                                            *)

Unused == {r \in Responses : response[r].pc = "free"}

\* connectOnce up to its await, with liveManifest: the validators of what the
\* regions of page p show.
ConnectOnce(l, regions, p) ==
    /\ Unused # {}
    /\ response' = [response EXCEPT ![CHOOSE r \in Unused : TRUE] =
          [Unasked EXCEPT !.pc = "asked", !.loop = l, !.page = p,
                          !.onScreen = [b \in Boundaries |-> regions[b].digest]]]
    /\ connection' = l
    /\ loop' = [loop EXCEPT ![l] = "reading"]
    /\ doubled' = (doubled \/ \E m \in Loops \ {l} : loop[m] # "none")

\* startLive: a new activation of runLive, which connects at once.
StartLive(regions, p) ==
    /\ \E l \in Loops : loop[l] = "none"
    /\ ConnectOnce(CHOOSE l \in Loops : loop[l] = "none", regions, p)
    /\ running' = TRUE

\* The document goes away, and every request of it with it.
Unload ==
    /\ loop' = [l \in Loops |-> "none"]
    /\ connection' = None /\ running' = FALSE
    /\ response' = [r \in Responses |-> Settled(Unread(response[r]))]
    /\ nav' = FALSE /\ doubled' = FALSE

\* reloadOnce.
ReloadOnce ==
    IF doc.guard
    THEN UNCHANGED <<response, screenVars>>
    ELSE /\ Unload
         /\ doc' = [doc EXCEPT !.state = "loading", !.guard = TRUE]
         /\ UNCHANGED <<applied, page>>

\* tb-stream-end: the document arrived whole, with the validators of the regions
\* that settled in time.
DocumentArrives(settled) ==
    /\ doc.state = "loading"
    /\ doc' = [state |-> "whole", version |-> process.build, guard |-> FALSE]
    /\ applied' = [b \in Boundaries |->
          IF settled THEN Region(Now(page, b), Digest(process.key, Now(page, b)))
                     ELSE Region(Waiting(page, b), None)]
    /\ StartLive(applied', page)
    /\ gaveUp' = FALSE
    /\ UNCHANGED <<serverVars, page, nav, bounds>>

\* checkDocumentEnd: the marker is missing.
DocumentTruncated ==
    /\ doc.state = "loading"
    /\ Fault
    /\ IF doc.guard THEN /\ doc' = [doc EXCEPT !.state = "stuck"]
                         /\ UNCHANGED <<response, loop, connection, running, nav, doubled,
                                        applied, page>>
                    ELSE ReloadOnce
    /\ UNCHANGED <<serverVars, gaveUp>>

\* connectOnce returns, and runLive ends or sleeps.
Disconnects(l, r, next) ==
    /\ loop' = [loop EXCEPT ![l] = IF running THEN next ELSE "none"]
    /\ connection' = IF connection = l THEN None ELSE connection
    /\ Becomes(r, Unread(response[r]))

\* applyBoundary: a changed delivery takes the regions inside it along.
ApplyBoundary(b, content, digest) ==
    [c \in Boundaries |->
        IF c = b THEN Region(content, digest)
        ELSE IF b \in Outer[c] /\ content # applied[b].content
             THEN Region(<<content[1], Fallback>>, None)
        ELSE applied[c]]

\* handleRecord, for the next record of the response that l reads; after the
\* last one the response has been read to its end.
Receive(l, r) ==
    LET record == Head(response[r].wire) IN
    /\ r \in Reading(l) /\ response[r].wire # <<>>
    /\ \/ /\ record.kind = "head" /\ record.build = doc.version
          /\ Becomes(r, [response[r] EXCEPT !.wire = Tail(@)])
          /\ UNCHANGED screenVars
       \/ /\ record.kind = "head" /\ record.build # doc.version
          /\ ReloadOnce
       \/ /\ record.kind = "await"
          /\ applied' = ApplyBoundary(record.id, record.content, record.digest)
          /\ Becomes(r, [response[r] EXCEPT !.wire = Tail(@)])
          /\ UNCHANGED <<loop, connection, running, page, doc, nav, doubled>>
       \/ /\ record.kind = "retry"
          /\ Disconnects(l, r, "asleep")
          /\ UNCHANGED <<running, applied, page, doc, nav, doubled>>
       \/ /\ record.kind = "done"
          /\ Disconnects(l, r, "none")
          /\ UNCHANGED <<running, applied, page, doc, nav, doubled>>
    /\ UNCHANGED <<serverVars, gaveUp, bounds>>

\* Mutant: a stream that was cut off ends the loop.
TruncatedEnds(l, r) ==
    /\ r \in Reading(l) /\ response[r].wire = <<>> /\ response[r].cut
    /\ Disconnects(l, r, "none")
    /\ UNCHANGED <<serverVars, running, applied, page, doc, nav, doubled, gaveUp, bounds>>

\* The stream ends without a terminal record, or there was no stream.
Truncated(l, r) ==
    /\ r \in Reading(l) /\ response[r].wire = <<>> /\ response[r].cut
    /\ Disconnects(l, r, "asleep")
    /\ UNCHANGED <<serverVars, running, applied, page, doc, nav, doubled, gaveUp, bounds>>

\* runLive has slept, and connects again if the screen is still live.
Wake(l) ==
    /\ loop[l] = "asleep"
    /\ IF running THEN ConnectOnce(l, applied, page)
       ELSE /\ loop' = [loop EXCEPT ![l] = "none"]
            /\ UNCHANGED <<response, connection, doubled>>
    /\ UNCHANGED <<serverVars, running, applied, page, doc, nav, gaveUp, bounds>>

\* Mutant: a navigation leaves the connection to its next record.
StopLiveLazily ==
    /\ running' = FALSE
    /\ connection' = None
    /\ UNCHANGED <<loop, response>>

\* stopLive: the controller that `connection' holds is aborted, and connectOnce
\* returns to a runLive that ends.
StopLive ==
    /\ running' = FALSE
    /\ connection' = None
    /\ loop' = [l \in Loops |-> IF l = connection THEN "none" ELSE loop[l]]
    /\ response' = [r \in Responses |->
          IF connection # None /\ response[r].loop = connection
          THEN Settled(Unread(response[r])) ELSE response[r]]

\* navigateClaimed, once its response is there: stopLive, then the operations.
NavigationStarts ==
    /\ doc.state = "whole" /\ ~nav /\ navigations < MaxNavigations
    /\ navigations' = navigations + 1
    /\ nav' = TRUE
    /\ StopLive
    /\ UNCHANGED <<serverVars, applied, page, doc, doubled, gaveUp, changes, restarts, faults>>

Arrived(p, b, settled) == IF settled THEN Now(p, b) ELSE Waiting(p, b)

\* Mutant: a region that was swapped out leaves its validator behind.
NavigatedUnpruned(p, kept, settled) ==
    [b \in Boundaries |->
        IF b \in kept THEN applied[b] ELSE Region(Arrived(p, b, settled), applied[b].digest)]

\* swapNode and pruneApplied, over the operations of a navigation: a range that
\* is still in the document stays as it is, with its validator; what was swapped in
\* has none before the first live delivery to it.
Navigated(p, kept, settled) ==
    [b \in Boundaries |->
        IF b \in kept THEN applied[b] ELSE Region(Arrived(p, b, settled), None)]

\* The ranges that the operations may leave in the document: of a layout the pages
\* have in common, and with what they are rendered inside of.
Kept(p) ==
    {kept \in SUBSET {b \in Boundaries : Home[p][b] = Home[page][b]} :
        \A b \in kept : Outer[b] \subseteq kept}

\* The last operation, the address and startLive.
NavigationApplied(p, kept, settled) ==
    /\ nav
    /\ process.build = doc.version
    /\ nav' = FALSE
    /\ page' = p
    /\ applied' = Navigated(p, kept, settled)
    /\ StartLive(applied', p)
    /\ gaveUp' = FALSE
    /\ UNCHANGED <<serverVars, doc, bounds>>

\* fall: whatever goes wrong ends in an ordinary navigation.
NavigationFalls(p) ==
    /\ nav
    /\ Unload
    /\ page' = p
    /\ doc' = [doc EXCEPT !.state = "loading", !.guard = FALSE]
    /\ UNCHANGED <<serverVars, applied, gaveUp, bounds>>

-----------------------------------------------------------------------------
Server(r) ==
    \/ Arrive(r) \/ Finishes(r) \/ Leaves(r) \/ Release(r)
    \/ \E b \in Boundaries : Yield(r, b)

Environment ==
    \/ SourcesEnd \/ \E b \in Boundaries : Produce(b)
    \/ \E deploy \in BOOLEAN : Restart(deploy)
    \/ DocumentTruncated
    \/ \E r \in Responses :
          Bounded(r) \/ GivesUp(r) \/ Problem(r) \/ \E n \in 0 .. Len(response[r].wire) : Lost(r, n)

Looping(l) ==
    \/ Wake(l)
    \/ \E r \in Responses : Receive(l, r) \/ Truncated(l, r)

Loading == \E settled \in BOOLEAN : DocumentArrives(settled)
Navigating ==
    \E p \in Pages :
        \/ NavigationFalls(p)
        \/ \E kept \in Kept(p) : \E settled \in BOOLEAN : NavigationApplied(p, kept, settled)

Next ==
    \/ \E r \in Responses : Server(r)
    \/ Environment
    \/ \E l \in Loops : Looping(l)
    \/ Loading \/ Navigating \/ NavigationStarts

\* The server's and the browser's own steps go on; nothing obliges a source to
\* change, a connection to be lost or a user to navigate.
Fairness ==
    /\ \A r \in Responses : WF_vars(Server(r))
    /\ \A l \in Loops : WF_vars(Looping(l))
    /\ WF_vars(Loading) /\ WF_vars(Navigating)

Spec == Init /\ [][Next]_vars /\ Fairness

-----------------------------------------------------------------------------
(* Properties.                                                             *)

Contents == Pages \X (Values \cup {Fallback})
Digests  == (Keys \X (Pages \X Values)) \cup {None}

\* Every variable stays in its type, and the count of AdmitLive is the number of
\* responses whose release is still to come, within its bound.
TypeOK ==
    /\ value \in [Boundaries -> Values] /\ producing \in BOOLEAN
    /\ process \in [key : Keys, build : Keys, open : 0 .. MaxResponses]
    /\ \A r \in Responses :
          /\ response[r].pc \in {"free", "asked", "open", "closing", "over"}
          /\ response[r].loop \in Loops \cup {None}
          /\ response[r].page \in Pages
          /\ response[r].onScreen \in [Boundaries -> Digests]
          /\ response[r].due \in [Boundaries -> {"never", "again", "no"}]
    /\ loop \in [Loops -> {"none", "reading", "asleep"}]
    /\ connection \in Loops \cup {None} /\ running \in BOOLEAN
    /\ applied \in [Boundaries -> [content : Contents, digest : Digests]]
    /\ page \in Pages /\ nav \in BOOLEAN
    /\ doc.state \in {"loading", "whole", "stuck"} /\ (doc.guard => doc.state # "whole")
    /\ process.open = Cardinality({r \in Responses : response[r].pc \in {"open", "closing"}})

\* What the screen will show of b once what is on r's wire has been read.
Coming(r, b) ==
    LET sent == {i \in DOMAIN response[r].wire :
                    response[r].wire[i].kind = "await" /\ response[r].wire[i].id = b}
    IN IF sent = {} THEN applied[b].content
       ELSE response[r].wire[CHOOSE i \in sent : \A j \in sent : j <= i].content

\* The server leaves out a delivery only where the screen has it: through lost
\* connections, restarts and navigations that swap some regions and leave others in
\* place, the content whose validator a response goes by is what the region shows
\* once the records on the wire are read.  Of a screen that two loops deliver to
\* (`doubled') it says nothing: neither response knows of the other's records.
SuppressionSound ==
    \A r \in Responses : \A b \in Boundaries :
        response[r].pc \in {"asked", "open"} /\ response[r].loop # None /\ ~response[r].cut
        /\ ~doubled /\ response[r].onScreen[b] # None
        => Coming(r, b) = response[r].onScreen[b][2]

\* A delivery for the page that was left never lands in a region of the page that
\* came.
OldPageStaysOut ==
    doc.state = "whole" /\ ~nav =>
        \A b \in Boundaries : applied[b].content[1] = Home[page][b]

\* Once nothing changes any more, the screen comes to show the latest value of
\* every region, unless the server gave up on one or the document never came; that
\* a single loop delivers is part of it.
ScreenConverges ==
    <>[](gaveUp \/ doc.state = "stuck" \/ doubled
         \/ \A b \in Boundaries : applied[b].content = Now(page, b))

=============================================================================
