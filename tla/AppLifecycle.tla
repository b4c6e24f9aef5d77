---------------------------- MODULE AppLifecycle ----------------------------
(***************************************************************************)
(* App of the root package (app.go): Run starts Serve on a goroutine and   *)
(* waits for it or for its context; Shutdown, which others may call too,   *)
(* drains the server once and then closes resources.  The http.Server is   *)
(* modelled from how app.go uses it: Shutdown stops it accepting and waits *)
(* for active requests or its context, and a server that was shut down     *)
(* before it listens refuses to.                                           *)
(***************************************************************************)
EXTENDS Integers

CONSTANTS
    Run,          \* the goroutine in Run
    Others,       \* other goroutines that call Shutdown
    Closers,      \* number of registered closers
    EarlyStop,    \* a stop may come before Serve has published its server
    MaxActive   \* bound on active requests

ASSUME LifecycleAssumption ==
    /\ Run \notin Others
    /\ Closers \in Nat /\ EarlyStop \in BOOLEAN /\ MaxActive \in Nat

VARIABLES
    serve,      \* where Serve stands
    shutting, handler, server,     \* App.shutting, handler # nil, server # nil
    inShutdown,                    \* the http.Server was shut down
    active,     \* active requests
    cancelled,  \* Run's context is done
    once,       \* where the body of shutdownOnce stands
    open,       \* closers still to run
    expired,    \* the shutdown context ended before the requests did
    caller,     \* where Run and the other callers stand
    crashed     \* a goroutine panicked

app == <<shutting, handler, server>>
appVars == <<serve, app, inShutdown, active, cancelled, once, open, expired, caller, crashed>>

Stoppers == Others \cup {Run}
ServePC == {"validate", "compose", "publish", "listen", "accept", "returned"}
OncePC == {"fresh", "snapshot", "drain", "close", "done"}
CallerPC == {"wait", "shutdown", "join", "returned"}

\* The application may have called Handler itself before it serves.
AppInit ==
    /\ serve = "validate"
    /\ shutting = FALSE /\ handler \in BOOLEAN /\ server = FALSE
    /\ inShutdown = FALSE /\ active = 0 /\ cancelled = FALSE
    /\ once = "fresh" /\ open = Closers /\ expired = FALSE
    /\ caller = [s \in Stoppers |-> "wait"]
    /\ crashed = FALSE

-----------------------------------------------------------------------------
(* Serve, one action per hold of the mutex and per call of the server.  A  *)
(* panic on its goroutine ends the process and every step with it.         *)

ServeStep(from, to) == ~crashed /\ serve = from /\ serve' = to

ServeValidate ==
    /\ ServeStep("validate", IF shutting THEN "returned" ELSE "compose")
    /\ UNCHANGED <<app, inShutdown, active, cancelled, once, open, expired, caller, crashed>>

\* Handler validates again, and panics where Serve returns an error.
ServeCompose ==
    /\ ServeStep("compose", "publish")
    /\ crashed' = (~handler /\ shutting)
    /\ handler' = TRUE
    /\ UNCHANGED <<shutting, server, inShutdown, active, cancelled, once, open, expired, caller>>

ServePublish ==
    /\ ServeStep("publish", "listen")
    /\ server' = TRUE
    /\ UNCHANGED <<shutting, handler, inShutdown, active, cancelled, once, open, expired,
                   caller, crashed>>

\* ListenAndServe, which also returns at once when the port cannot be bound.
ServeListen ==
    /\ \/ ServeStep("listen", "accept") /\ ~inShutdown
       \/ ServeStep("listen", "returned")
    /\ UNCHANGED <<app, inShutdown, active, cancelled, once, open, expired, caller, crashed>>

ServeStops ==
    /\ ServeStep("accept", "returned")
    /\ inShutdown
    /\ UNCHANGED <<app, inShutdown, active, cancelled, once, open, expired, caller, crashed>>

RequestBegins ==
    /\ ~crashed /\ serve = "accept" /\ ~inShutdown
    /\ active < MaxActive
    /\ active' = active + 1
    /\ UNCHANGED <<serve, app, inShutdown, cancelled, once, open, expired, caller, crashed>>

RequestEnds ==
    /\ ~crashed /\ active > 0
    /\ active' = active - 1
    /\ UNCHANGED <<serve, app, inShutdown, cancelled, once, open, expired, caller, crashed>>

-----------------------------------------------------------------------------
(* Shutdown: the body of shutdownOnce, and those who call it. *)

OnceStep(from, to) == ~crashed /\ once = from /\ once' = to

\* The server's own Shutdown begins as soon as the body has read a.server.
OnceSnapshot ==
    /\ OnceStep("snapshot", IF server THEN "drain" ELSE "close")
    /\ inShutdown' = server
    /\ UNCHANGED <<serve, app, active, cancelled, open, expired, caller, crashed>>

\* Mutant: closers run without waiting for the server.
OnceDrainedAtOnce ==
    /\ OnceStep("drain", "close")
    /\ UNCHANGED <<serve, app, inShutdown, active, cancelled, open, expired, caller, crashed>>

OnceDrained ==
    /\ OnceStep("drain", "close")
    /\ active = 0
    /\ UNCHANGED <<serve, app, inShutdown, active, cancelled, open, expired, caller, crashed>>

\* The shutdown context ends first: its error is kept and closers still run.
OnceExpires ==
    /\ OnceStep("drain", "close")
    /\ active > 0
    /\ expired' = TRUE
    /\ UNCHANGED <<serve, app, inShutdown, active, cancelled, open, caller, crashed>>

\* Mutant: the loop goes one closer too far.
OnceClosesTooMany ==
    /\ OnceStep("close", IF open < 0 THEN "done" ELSE "close")
    /\ open' = open - 1
    /\ UNCHANGED <<serve, app, inShutdown, active, cancelled, expired, caller, crashed>>

OnceCloses ==
    /\ OnceStep("close", IF open = 0 THEN "done" ELSE "close")
    /\ open' = IF open = 0 THEN 0 ELSE open - 1
    /\ UNCHANGED <<serve, app, inShutdown, active, cancelled, expired, caller, crashed>>

CallerStep(s, from, to) ==
    ~crashed /\ caller[s] = from /\ caller' = [caller EXCEPT ![s] = to]

\* A stop before the server is published is what EarlyStop admits.
MayStop == EarlyStop \/ server

Cancel ==
    /\ ~crashed /\ ~cancelled /\ MayStop
    /\ cancelled' = TRUE
    /\ UNCHANGED <<serve, app, inShutdown, active, once, open, expired, caller, crashed>>

\* Whoever comes first runs the body; shutting is set before the mutex is taken.
EnterOnce ==
    IF once = "fresh" THEN once' = "snapshot" /\ shutting' = TRUE
    ELSE UNCHANGED <<once, shutting>>

CallShutdown(s) ==
    /\ IF s = Run THEN cancelled ELSE MayStop
    /\ CallerStep(s, "wait", "shutdown")
    /\ EnterOnce
    /\ UNCHANGED <<serve, handler, server, inShutdown, active, cancelled, open, expired, crashed>>

\* Mutant: a second caller does not wait for the first.
ReturnShutdownUnwaited(s) ==
    /\ CallerStep(s, "shutdown", IF s = Run THEN "join" ELSE "returned")
    /\ UNCHANGED <<serve, app, inShutdown, active, cancelled, once, open, expired, crashed>>

\* sync.Once returns to every caller when the body is over.
ReturnShutdown(s) ==
    /\ once = "done"
    /\ CallerStep(s, "shutdown", IF s = Run THEN "join" ELSE "returned")
    /\ UNCHANGED <<serve, app, inShutdown, active, cancelled, once, open, expired, crashed>>

\* Mutant: Run leaves the serving goroutine unread on its way out.
AppReturnsHanging ==
    /\ serve = "returned" /\ ~cancelled
    /\ CallerStep(Run, "wait", "returned")
    /\ UNCHANGED <<serve, app, inShutdown, active, cancelled, once, open, expired, crashed>>

\* Run hears from Serve, before its context ends or after Shutdown.
AppReturns ==
    /\ serve = "returned"
    /\ CallerStep(Run, "wait", "returned") \/ CallerStep(Run, "join", "returned")
    /\ UNCHANGED <<serve, app, inShutdown, active, cancelled, once, open, expired, crashed>>

-----------------------------------------------------------------------------
ServeNext == ServeValidate \/ ServeCompose \/ ServePublish \/ ServeListen \/ ServeStops
OnceNext == OnceSnapshot \/ OnceDrained \/ OnceExpires \/ OnceCloses
StopNext(s) == CallShutdown(s) \/ ReturnShutdown(s)

AppNext ==
    \/ ServeNext \/ RequestBegins \/ RequestEnds \/ OnceNext \/ Cancel \/ AppReturns
    \/ \E s \in Stoppers : StopNext(s)

AppSpec == AppInit /\ [][AppNext]_appVars

(* Goroutines run; the shutdown context expires, so the drain ends whether *)
(* or not the requests do.  Nobody has to cancel, to send a request or to  *)
(* finish one, and no other goroutine has to call Shutdown.                *)
AppFairness ==
    /\ WF_appVars(ServeNext)
    /\ WF_appVars(OnceNext)
    /\ WF_appVars(AppReturns)
    /\ WF_appVars(CallShutdown(Run))
    /\ \A s \in Stoppers : WF_appVars(ReturnShutdown(s))

AppFairSpec == AppSpec /\ AppFairness

-----------------------------------------------------------------------------
AppTypeOK ==
    /\ serve \in ServePC /\ once \in OncePC
    /\ shutting \in BOOLEAN /\ handler \in BOOLEAN /\ server \in BOOLEAN
    /\ inShutdown \in BOOLEAN /\ cancelled \in BOOLEAN /\ expired \in BOOLEAN
    /\ crashed \in BOOLEAN
    /\ active \in 0 .. MaxActive /\ open \in 0 .. Closers
    /\ caller \in [Stoppers -> CallerPC]

(* "Closers run ... after active requests have drained": once a closer may  *)
(* have run no request is active and none begins, unless the shutdown's own *)
(* deadline cut the drain short.                                            *)
ClosedAfterDrain == once \in {"close", "done"} /\ ~expired => active = 0

(* Whoever is told that the application is shut down, Run or another caller *)
(* that came second, is told after every closer ran.                        *)
ShutdownIsComplete ==
    \A s \in Stoppers :
        caller[s] = "join" \/ (caller[s] = "returned" /\ s # Run) => open = 0

(* "Run serves until ctx is cancelled, then performs graceful shutdown":    *)
(* a cancelled Run returns, whether the requests finish or not.             *)
CancelEndsRun == cancelled ~> (caller[Run] = "returned" \/ crashed)

=============================================================================
