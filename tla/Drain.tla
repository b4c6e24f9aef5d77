-------------------------------- MODULE Drain --------------------------------
(***************************************************************************)
(* The stop of the fasthttp transport: drainListener of pwfast/drain.go    *)
(* beside fasthttp's own shutdown, which is external.                      *)
(*                                                                         *)
(* A connection has been silent since it was accepted, or its client has   *)
(* begun a request: the bytes arrive, Read returns them, and only then      *)
(* stores the mark; a handler answers, and the connection is kept for       *)
(* another request.  The stop ends the silent ones in two steps: a pass     *)
(* under the mutex that collects them, and then a close of each.  To close  *)
(* is no more than that: what serves the connection finds out at its next  *)
(* read, and a handler that runs goes on to its end.                        *)
(*                                                                         *)
(* Of the clock only quietGrace matters, and each connection is before it  *)
(* or past it.                                                             *)
(***************************************************************************)
EXTENDS Integers, FiniteSets

CONSTANTS
    Conns,
    MaxRequests   \* bound on requests of one connection

ASSUME DrainAssumption == IsFiniteSet(Conns) /\ MaxRequests \in Nat

VARIABLES
    conn,       \* the connections
    listening,  \* the listener accepts
    stopping,   \* fasthttp's shutdown has begun
    silent      \* what the pass of closeSilent collected

drainVars == <<conn, listening, stopping, silent>>

\* `spoke' and `ended' are the marks of drainConn; `shut' says that the stop has
\* closed the connection, `sent' that bytes have arrived which no Read has
\* returned.  History: `prompt', the mark was stored before the grace had passed;
\* `cut', the stop closed the connection when a request had begun to arrive.
Absent ==
    [pc |-> "absent", mature |-> FALSE, spoke |-> FALSE, ended |-> FALSE, shut |-> FALSE,
     sent |-> FALSE, served |-> 0, prompt |-> FALSE, cut |-> FALSE]

DrainInit ==
    /\ conn = [c \in Conns |-> Absent]
    /\ listening = TRUE
    /\ stopping = FALSE
    /\ silent = {}

Becomes(c, q) == conn' = [conn EXCEPT ![c] = q]

\* What fasthttp counts as open, and of those the members of drainListener.conns:
\* Close forgets the connection it closes.
Open == {c \in Conns : conn[c].pc \notin {"absent", "closed"}}
Known == {c \in Open : ~conn[c].shut}

\* Accept: fasthttp counts the connection as active before its first byte.
Accept(c) ==
    /\ listening
    /\ conn[c].pc = "absent"
    /\ Becomes(c, [Absent EXCEPT !.pc = "active"])
    /\ UNCHANGED <<listening, stopping, silent>>

\* The first bytes of a request arrive.
ClientSpeaks(c) ==
    /\ conn[c].pc \in {"active", "idle"} /\ ~conn[c].shut /\ ~conn[c].sent
    /\ conn[c].served < MaxRequests
    /\ Becomes(c, [conn[c] EXCEPT !.sent = TRUE])
    /\ UNCHANGED <<listening, stopping, silent>>

\* Read, as far as the bytes.
ReadReturns(c) ==
    /\ conn[c].pc \in {"active", "idle"} /\ conn[c].sent /\ ~conn[c].shut
    /\ Becomes(c, [conn[c] EXCEPT !.pc = "read", !.sent = FALSE])
    /\ UNCHANGED <<listening, stopping, silent>>

\* Read goes on to store the mark, once, whatever became of the connection.
ReadMarks(c) ==
    /\ conn[c].pc = "read"
    /\ Becomes(c, [conn[c] EXCEPT !.pc = "reading", !.spoke = TRUE,
                                  !.prompt = @ \/ (~conn[c].spoke /\ ~conn[c].mature)])
    /\ UNCHANGED <<listening, stopping, silent>>

\* The rest of the request arrives, or was in the bytes that were read.
RequestComplete(c) ==
    /\ conn[c].pc = "reading"
    /\ Becomes(c, [conn[c] EXCEPT !.pc = "handling"])
    /\ UNCHANGED <<listening, stopping, silent>>

\* The next read fails: the client went away, the stop closed the connection, or
\* the read timeout ends a request that stays incomplete.
ReadFails(c) ==
    /\ conn[c].pc \in {"active", "idle", "reading"}
    /\ Becomes(c, [conn[c] EXCEPT !.pc = "closed", !.sent = FALSE])
    /\ UNCHANGED <<listening, stopping, silent>>

\* The response is written, or fails to be on a connection that was closed.  A
\* server that stops does not keep the connection.
Answered(c) ==
    /\ conn[c].pc = "handling"
    /\ Becomes(c, [conn[c] EXCEPT !.pc = IF stopping \/ conn[c].shut THEN "closed" ELSE "idle",
                                  !.served = conn[c].served + 1])
    /\ UNCHANGED <<listening, stopping, silent>>

\* quietGrace has passed since the connection was accepted, wherever a request of
\* it has come to.
GracePasses(c) ==
    /\ c \in Open /\ ~conn[c].mature
    /\ Becomes(c, [conn[c] EXCEPT !.mature = TRUE])
    /\ UNCHANGED <<listening, stopping, silent>>

\* fasthttp's shutdown closes the listener, and then the idle connections.
StopListening ==
    /\ listening
    /\ listening' = FALSE
    /\ stopping' = TRUE
    /\ UNCHANGED <<conn, silent>>

\* A connection is idle to fasthttp until Read has returned to it, so the bytes of
\* the next request may have come.
CloseIdle(c) ==
    /\ stopping /\ ~conn[c].shut
    /\ conn[c].pc = "idle" \/ (conn[c].pc = "read" /\ conn[c].served > 0)
    /\ Becomes(c, [conn[c] EXCEPT !.shut = TRUE, !.cut = conn[c].sent \/ conn[c].pc = "read"])
    /\ UNCHANGED <<listening, stopping, silent>>

\* Mutant: every connection that is silent counts, however young.
CollectsYoung == silent' = {c \in Known : ~conn[c].spoke}

\* Mutant: only connections that have answered a request count.
CollectsUsed == silent' = {c \in Known : ~conn[c].spoke /\ conn[c].mature /\ conn[c].served > 0}

\* closeSilent, the pass under the mutex.
Collects == silent' = {c \in Known : ~conn[c].spoke /\ conn[c].mature}

SweepCollects ==
    /\ stopping /\ silent = {}
    /\ \E c \in Known : ~conn[c].spoke
    /\ Collects
    /\ UNCHANGED <<conn, listening, stopping>>

\* end: the connection is marked and closed, whatever it has come to since.
SweepEnds(c) ==
    /\ c \in silent
    /\ silent' = silent \ {c}
    /\ Becomes(c, [conn[c] EXCEPT !.ended = TRUE, !.shut = TRUE,
                      !.cut = @ \/ conn[c].sent \/ conn[c].pc \in {"read", "reading", "handling"}])
    /\ UNCHANGED <<listening, stopping>>

-----------------------------------------------------------------------------
DrainTypeOK ==
    /\ conn \in [Conns ->
           [pc : {"absent", "active", "idle", "read", "reading", "handling", "closed"},
            mature : BOOLEAN, spoke : BOOLEAN, ended : BOOLEAN, shut : BOOLEAN, sent : BOOLEAN,
            served : 0 .. MaxRequests, prompt : BOOLEAN, cut : BOOLEAN]]
    /\ listening \in BOOLEAN /\ stopping \in BOOLEAN /\ (stopping => ~listening)
    /\ silent \subseteq Conns

\* A client whose first bytes the server had read when quietGrace passed is never
\* taken for a silent one: the sweep, which collects in one step and closes in
\* another, does not end its connection, and a stop that cuts off a request of
\* it cuts one that came after an answer, on a connection fasthttp held idle.
\* Bytes that have arrived but that no Read has marked are beyond it: they do
\* not count as speech, and the sweep may cut them off.
YoungAreServed ==
    \A c \in Conns : conn[c].prompt => ~conn[c].ended /\ (conn[c].cut => conn[c].served > 0)

\* A stop never cuts a request off.
NothingCut == \A c \in Conns : ~conn[c].cut

=============================================================================
