----------------------------- MODULE FastServer -----------------------------
(***************************************************************************)
(* Run of pwfast/run.go: serving until a signal, draining, and then the    *)
(* cleanups, of which the trace exporter's is modelled.  It composes the   *)
(* drain of the connections with the batch processor that the handlers     *)
(* hand their spans to.                                                    *)
(***************************************************************************)
EXTENDS Batch, Drain

VARIABLES
    run,       \* "serving", "draining", "closing" or "ended"
    overrun    \* history: serving ended before its requests did

vars == <<batchVars, drainVars, run, overrun>>

Init == BatchInit /\ DrainInit /\ run = "serving" /\ overrun = FALSE

\* The handler ends its span and the response is written.
HandlerEnds(c) ==
    /\ run # "ended"
    /\ Answered(c)
    /\ OnEnd
    /\ UNCHANGED <<run, overrun>>

\* What fasthttp's Serve does with the connections, beside run.
ConnStep(c) ==
    \/ Accept(c) \/ ClientSpeaks(c) \/ ReadReturns(c) \/ ReadMarks(c) \/ RequestComplete(c)
    \/ ReadFails(c) \/ GracePasses(c) \/ CloseIdle(c)

Connections ==
    /\ run # "ended"
    /\ \E c \in Conns : ConnStep(c)
    /\ UNCHANGED <<batchVars, run, overrun>>

Exporting ==
    /\ run # "ended"
    /\ BatchRuns
    /\ UNCHANGED <<drainVars, run, overrun>>

\* serveUntil: the context ends and the stop begins.
Signal ==
    /\ run = "serving"
    /\ run' = "draining"
    /\ StopListening
    /\ UNCHANGED <<batchVars, overrun>>

\* The sweep runs beside the stop, and no longer.
Sweeping ==
    /\ run = "draining"
    /\ SweepCollects \/ \E c \in Conns : SweepEnds(c)
    /\ UNCHANGED <<batchVars, run, overrun>>

\* Mutant: the stop does not wait for the requests.
DrainedAtOnce ==
    /\ run = "draining" /\ silent = {}
    /\ run' = "closing"
    /\ UNCHANGED <<batchVars, drainVars, overrun>>

\* fasthttp's shutdown returns when no connection is open, or at the deadline,
\* and drainListener.shutdown sees it between two passes of the sweep.
Drained ==
    /\ run = "draining" /\ silent = {} /\ Open = {}
    /\ run' = "closing"
    /\ UNCHANGED <<batchVars, drainVars, overrun>>

DeadlinePasses ==
    /\ run = "draining" /\ silent = {} /\ Open # {}
    /\ run' = "closing"
    /\ overrun' = TRUE
    /\ UNCHANGED <<batchVars, drainVars>>

\* An accept that fails ends serving with no stop at all.
AcceptFails ==
    /\ run = "serving"
    /\ run' = "closing"
    /\ overrun' = (Open # {})
    /\ listening' = FALSE
    /\ UNCHANGED <<batchVars, conn, stopping, silent>>

\* close of startup: the cleanups, in reverse, under a context of their own.
Cleanup ==
    /\ run = "closing"
    /\ \/ ShutdownCloses
       \/ ShutdownReturns("done")
       \/ ShutdownReturns("deadline")
    /\ UNCHANGED <<drainVars, run, overrun>>

RunReturns ==
    /\ run = "closing" /\ closer \in {"done", "deadline"}
    /\ run' = "ended"
    /\ UNCHANGED <<batchVars, drainVars, overrun>>

Next ==
    \/ Connections \/ \E c \in Conns : HandlerEnds(c)
    \/ Exporting
    \/ Signal \/ Sweeping \/ Drained \/ DeadlinePasses \/ AcceptFails
    \/ Cleanup \/ RunReturns

\* The server's own goroutines go on: readers, also those whose connection was
\* closed, handlers, the stop, the sweep and the exporter, whose requests have a
\* timeout.  The grace passes, and a request that has begun completes or runs into
\* the read timeout.  A client that has connected need not speak, and no deadline
\* has to pass.
ServerMoves(c) ==
    \/ ReadReturns(c) \/ ReadMarks(c) \/ RequestComplete(c) \/ GracePasses(c) \/ CloseIdle(c)
    \/ (conn[c].shut /\ ReadFails(c))
Fairness ==
    /\ \A c \in Conns :
          /\ WF_vars(run # "ended" /\ ServerMoves(c) /\ UNCHANGED <<batchVars, run, overrun>>)
          /\ WF_vars(HandlerEnds(c))
    /\ WF_vars(Exporting) /\ WF_vars(Sweeping) /\ WF_vars(Drained)
    /\ WF_vars(Cleanup) /\ WF_vars(RunReturns)

Spec == Init /\ [][Next]_vars /\ Fairness

-----------------------------------------------------------------------------
(* Properties.                                                             *)

\* Every variable stays in its type, and the sweep works only during a stop.
TypeOK ==
    /\ BatchTypeOK /\ DrainTypeOK
    /\ run \in {"serving", "draining", "closing", "ended"}
    /\ overrun \in BOOLEAN
    /\ run = "serving" => silent = {} /\ closer = "none"

\* A graceful stop loses no span to the order of its steps: the processor is
\* closed after the last handler has ended its span, a handler whose connection
\* the sweep closed under it included, unless serving itself was cut short by its
\* deadline or a failing listener.
ClosedAfterHandlers == refused > 0 => overrun

\* A stop ends, with no deadline to help it, whatever connections silent clients
\* keep open.
StopEnds == run = "draining" ~> run = "ended"

=============================================================================
