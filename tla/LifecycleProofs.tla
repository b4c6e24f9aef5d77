-------------------------- MODULE LifecycleProofs --------------------------
(***************************************************************************)
(* Proofs about how a server stops, for either of the two ways to run one: *)
(* App of app.go, for any number of closers, callers and requests, and Run *)
(* of pwfast (FastServer), for any number of connections and requests and  *)
(* any size of queue and batch.                                            *)
(*                                                                         *)
(* The inductive invariant of FastServer has three parts: one for the      *)
(* batch processor, one for the connections, and one for how Run's phases  *)
(* relate the two.                                                         *)
(***************************************************************************)
EXTENDS AppLifecycle, FastServer, TLAPS

-----------------------------------------------------------------------------
(* App: Serve, Run and Shutdown.                                            *)

(* Where the server stands once a stop may have begun: a stop waits for the *)
(* published server, so the snapshot of Shutdown sees it, and the server is *)
(* shut down before anything drains or closes.                              *)
StopSeesServer ==
    /\ cancelled => server
    /\ once # "fresh" => server
    /\ once \in {"drain", "close", "done"} => inShutdown

(* Callers get past Shutdown only when its body is over.                    *)
OnceIsOver ==
    /\ once = "done" => open = 0
    /\ \A s \in Stoppers :
         caller[s] = "join" \/ (caller[s] = "returned" /\ s # Run) => once = "done"

LEMMA AppStepTypeOK == AppTypeOK /\ [AppNext]_appVars => AppTypeOK'
<1> SUFFICES ASSUME AppTypeOK, [AppNext]_appVars PROVE AppTypeOK'
  OBVIOUS
<1> USE LifecycleAssumption DEF AppTypeOK, app, ServePC, OncePC, CallerPC
<1>1. CASE ServeNext
  BY <1>1 DEF ServeNext, ServeValidate, ServeCompose, ServePublish, ServeListen, ServeStops,
              ServeStep
<1>2. CASE OnceNext
  <2>1. CASE OnceSnapshot \/ OnceDrained \/ OnceExpires
    BY <2>1 DEF OnceSnapshot, OnceDrained, OnceExpires, OnceStep
  <2>2. CASE OnceCloses
    <3>1. open' \in 0 .. Closers
      BY <2>2 DEF OnceCloses
    <3> QED
      BY <2>2, <3>1 DEF OnceCloses, OnceStep
  <2> QED
    BY <1>2, <2>1, <2>2 DEF OnceNext
<1>3. CASE RequestBegins \/ RequestEnds \/ Cancel
  <2>1. active' \in 0 .. MaxActive
    BY <1>3 DEF RequestBegins, RequestEnds, Cancel
  <2>2. CASE RequestBegins
    BY <2>1, <2>2 DEF RequestBegins
  <2>3. CASE RequestEnds
    BY <2>1, <2>3 DEF RequestEnds
  <2>4. CASE Cancel
    BY <2>4 DEF Cancel
  <2> QED
    BY <1>3, <2>2, <2>3, <2>4
<1>4. CASE AppReturns
  BY <1>4 DEF AppReturns, CallerStep, Stoppers
<1>5. CASE \E s \in Stoppers : StopNext(s)
  BY <1>5 DEF StopNext, CallShutdown, ReturnShutdown, CallerStep, EnterOnce
<1>6. CASE UNCHANGED appVars
  BY <1>6 DEF appVars
<1> QED
  BY <1>1, <1>2, <1>3, <1>4, <1>5, <1>6 DEF AppNext

LEMMA AppInitTypeOK == AppInit => AppTypeOK
<1> SUFFICES ASSUME AppInit PROVE AppTypeOK
  OBVIOUS
<1>1. active \in 0 .. MaxActive /\ open \in 0 .. Closers
  BY LifecycleAssumption DEF AppInit
<1> QED
  BY <1>1 DEF AppInit, AppTypeOK, ServePC, OncePC, CallerPC

(* The variables keep their types: the state of Serve, Run and Shutdown is  *)
(* always one the code can be in, and no more closers run than there are.   *)
THEOREM LifecycleTypeCorrect == AppSpec => []AppTypeOK
<1>1. AppTypeOK /\ [AppNext]_appVars => AppTypeOK'
  BY AppStepTypeOK
<1> QED
  BY AppInitTypeOK, <1>1, PTL DEF AppSpec

LEMMA StepOnceIsOver == AppTypeOK /\ OnceIsOver /\ [AppNext]_appVars => OnceIsOver'
<1> SUFFICES ASSUME AppTypeOK, OnceIsOver, [AppNext]_appVars PROVE OnceIsOver'
  OBVIOUS
<1> USE DEF OnceIsOver
<1>1. CASE ServeNext
  BY <1>1 DEF ServeNext, ServeValidate, ServeCompose, ServePublish, ServeListen, ServeStops
<1>2. CASE OnceNext
  BY <1>2 DEF OnceNext, OnceSnapshot, OnceDrained, OnceExpires, OnceCloses, OnceStep
<1>3. CASE RequestBegins \/ RequestEnds \/ Cancel
  BY <1>3 DEF RequestBegins, RequestEnds, Cancel
<1>4. CASE AppReturns
  BY <1>4 DEF AppReturns, CallerStep, Stoppers, AppTypeOK
<1>5. CASE \E s \in Stoppers : StopNext(s)
  BY <1>5 DEF StopNext, CallShutdown, ReturnShutdown, CallerStep, EnterOnce, AppTypeOK
<1>6. CASE UNCHANGED appVars
  BY <1>6 DEF appVars
<1> QED
  BY <1>1, <1>2, <1>3, <1>4, <1>5, <1>6 DEF AppNext

(* Nobody is told the application is shut down before every closer ran,     *)
(* whoever called Shutdown first and whenever the stop came.                *)
THEOREM ShutdownCompletes == AppSpec => []ShutdownIsComplete
<1>1. AppInit => OnceIsOver
  BY DEF AppInit, OnceIsOver
<1>2. OnceIsOver => ShutdownIsComplete
  BY DEF OnceIsOver, ShutdownIsComplete
<1> QED
  BY AppInitTypeOK, AppStepTypeOK, StepOnceIsOver, <1>1, <1>2, PTL DEF AppSpec

LEMMA StepDrain ==
    ~EarlyStop /\ AppTypeOK /\ StopSeesServer /\ ClosedAfterDrain /\ [AppNext]_appVars
        => StopSeesServer' /\ ClosedAfterDrain'
<1> SUFFICES ASSUME ~EarlyStop, AppTypeOK, StopSeesServer, ClosedAfterDrain, [AppNext]_appVars
             PROVE  StopSeesServer' /\ ClosedAfterDrain'
  OBVIOUS
<1> USE DEF StopSeesServer, ClosedAfterDrain, app
<1>1. CASE ServeNext
  BY <1>1 DEF ServeNext, ServeValidate, ServeCompose, ServePublish, ServeListen, ServeStops
<1>2. CASE OnceNext
  BY <1>2 DEF OnceNext, OnceSnapshot, OnceDrained, OnceExpires, OnceCloses, OnceStep, AppTypeOK
<1>3. CASE RequestBegins \/ RequestEnds \/ Cancel
  BY <1>3 DEF RequestBegins, RequestEnds, Cancel, MayStop, AppTypeOK
<1>4. CASE AppReturns
  BY <1>4 DEF AppReturns
<1>5. CASE \E s \in Stoppers : StopNext(s)
  BY <1>5 DEF StopNext, CallShutdown, ReturnShutdown, EnterOnce, MayStop
<1>6. CASE UNCHANGED appVars
  BY <1>6 DEF appVars
<1> QED
  BY <1>1, <1>2, <1>3, <1>4, <1>5, <1>6 DEF AppNext

(* An application that is stopped only once it serves runs its closers      *)
(* after its requests have drained or the shutdown's deadline has passed.   *)
THEOREM DrainCorrect ==
    ASSUME ~EarlyStop
    PROVE  AppSpec => []ClosedAfterDrain
<1>1. AppInit => StopSeesServer /\ ClosedAfterDrain
  BY DEF AppInit, StopSeesServer, ClosedAfterDrain
<1>2. AppTypeOK /\ (StopSeesServer /\ ClosedAfterDrain) /\ [AppNext]_appVars
        => (StopSeesServer /\ ClosedAfterDrain)'
  BY StepDrain
<1> QED
  BY AppInitTypeOK, AppStepTypeOK, <1>1, <1>2, PTL DEF AppSpec

-----------------------------------------------------------------------------
(* FastServer.                                                             *)

\* The processor: where the spans are, by the state of its goroutine.
BatchInv ==
    /\ BatchTypeOK
    /\ SpansAccounted
    /\ runner = "select" => batched < MaxExportSize
    /\ runner \in {"last", "done"} => closing /\ queued = 0
    /\ runner = "done" => batched = 0
    /\ closing <=> closer # "none"
    /\ closer = "done" => runner = "done"

ConnRecords ==
    [pc : {"absent", "active", "idle", "read", "reading", "handling", "closed"},
     mature : BOOLEAN, spoke : BOOLEAN, ended : BOOLEAN, shut : BOOLEAN, sent : BOOLEAN,
     served : 0 .. MaxRequests, prompt : BOOLEAN, cut : BOOLEAN]

\* One connection.  Only one past the grace and without a mark is collected, and
\* a mark stored from then on is no prompt one, so prompt connections are not
\* among those the sweep still has to end; fasthttp's close meets connections
\* that have answered.
ConnInv(c) ==
    LET q == conn[c] IN
    /\ q.pc = "active" => ~q.spoke
    /\ ~q.spoke => q.pc \in {"absent", "active", "read", "closed"} /\ ~q.prompt
    /\ q.pc = "idle" => q.served > 0
    /\ q.sent => q.pc \in {"active", "idle"}
    /\ q.sent \/ q.pc \in {"read", "reading", "handling"} => q.served < MaxRequests
    /\ c \in silent => stopping /\ q.mature /\ ~q.prompt
    /\ q.ended => q.mature /\ ~q.prompt
    /\ q.cut => q.served > 0 \/ (q.mature /\ ~q.prompt)

DrainInv == DrainTypeOK /\ \A c \in Conns : ConnInv(c)

\* Run: the listener is open while serving, the processor is closed by the
\* cleanup, and serving that was not cut short leaves no connection.
PhaseInv ==
    /\ run \in {"serving", "draining", "closing", "ended"}
    /\ overrun \in BOOLEAN
    /\ run = "serving" <=> listening
    /\ closing => run \in {"closing", "ended"}
    /\ overrun => run \in {"closing", "ended"}
    /\ run \in {"closing", "ended"} /\ ~overrun => Open = {}
    /\ ClosedAfterHandlers

ServerInv == BatchInv /\ DrainInv /\ PhaseInv

-----------------------------------------------------------------------------
(* The batch processor.                                                    *)

\* A span that ends is queued or counted, also while Shutdown closes the channel.
LEMMA OnEndInv == ASSUME BatchInv, OnEnd PROVE BatchInv'
BY BatchAssumption DEF BatchInv, BatchTypeOK, SpansAccounted, OnEnd

\* The goroutine's receive moves a span, and never past a full batch.
LEMMA ReceiveInv == ASSUME BatchInv, Receive PROVE BatchInv'
BY BatchAssumption DEF BatchInv, BatchTypeOK, SpansAccounted, Receive

\* The ticker's flush.
LEMMA FlushInv == ASSUME BatchInv, Flush PROVE BatchInv'
BY BatchAssumption DEF BatchInv, BatchTypeOK, SpansAccounted, Flush

\* The flush of the closed and empty channel.
LEMMA LastFlushInv == ASSUME BatchInv, LastFlush PROVE BatchInv'
BY BatchAssumption DEF BatchInv, BatchTypeOK, SpansAccounted, LastFlush

\* An export that returns counts its spans one way or the other.
LEMMA ExportReturnsInv ==
    ASSUME BatchInv, NEW ok \in BOOLEAN, ExportReturns(ok) PROVE BatchInv'
BY BatchAssumption DEF BatchInv, BatchTypeOK, SpansAccounted, ExportReturns

\* Shutdown closes the channel.
LEMMA ShutdownClosesInv == ASSUME BatchInv, ShutdownCloses PROVE BatchInv'
BY BatchAssumption DEF BatchInv, BatchTypeOK, SpansAccounted, ShutdownCloses

\* Shutdown returns when the goroutine has ended, or with its context.
LEMMA ShutdownReturnsInv ==
    ASSUME BatchInv, NEW how \in {"done", "deadline"}, ShutdownReturns(how) PROVE BatchInv'
BY BatchAssumption DEF BatchInv, BatchTypeOK, SpansAccounted, ShutdownReturns

\* Every step of the processor's goroutine.
LEMMA BatchRunsInv == ASSUME BatchInv, BatchRuns PROVE BatchInv'
BY ReceiveInv, FlushInv, LastFlushInv, ExportReturnsInv DEF BatchRuns

\* A step of something else.
LEMMA BatchUnchanged == ASSUME BatchInv, UNCHANGED batchVars PROVE BatchInv'
BY DEF BatchInv, BatchTypeOK, SpansAccounted, batchVars

-----------------------------------------------------------------------------
(* The connections.                                                        *)

\* A step that gives one connection a new record of the right type that keeps
\* ConnInv, and leaves the rest alone, keeps DrainInv.
LEMMA OneConnection ==
    ASSUME DrainInv, NEW c \in Conns, NEW q, Becomes(c, q), UNCHANGED <<listening, stopping>>,
           q \in ConnRecords,
           silent' \subseteq silent,
           ConnInv(c)'
    PROVE  DrainInv'
<1>1. DrainTypeOK'
    BY DEF DrainInv, DrainTypeOK, ConnRecords, Becomes
<1>2. ASSUME NEW d \in Conns PROVE ConnInv(d)'
    <2>1. CASE d = c BY <2>1
    <2>2. CASE d # c
        <3>1. conn'[d] = conn[d] BY <2>2 DEF DrainInv, DrainTypeOK, Becomes
        <3>2. ConnInv(d) BY DEF DrainInv
        <3> QED BY <3>1, <3>2 DEF ConnInv
    <2> QED BY <2>1, <2>2
<1> QED BY <1>1, <1>2 DEF DrainInv

\* The step of one connection, of the client, of fasthttp or of the listener.
LEMMA ConnStepInv ==
    ASSUME DrainInv, NEW c \in Conns, ConnStep(c) PROVE DrainInv'
<1> DEFINE q == conn[c]
<1> USE DrainAssumption DEF DrainInv, DrainTypeOK, ConnInv, ConnRecords
<1>0. ConnInv(c) /\ q \in ConnRecords
    OBVIOUS
<1>1. CASE Accept(c)
    <2> DEFINE new == [Absent EXCEPT !.pc = "active"]
    <2>1. c \notin silent BY <1>0, <1>1 DEF Accept
    <2>2. Becomes(c, new) /\ UNCHANGED <<listening, stopping, silent>> BY <1>1 DEF Accept
    <2>3. /\ new.pc = "active" /\ new.spoke = FALSE /\ new.prompt = FALSE
          /\ new.ended = FALSE /\ new.sent = FALSE /\ new.served = 0 /\ new.cut = FALSE
        BY DEF Absent
    <2>4. new \in ConnRecords
        <3>1. Absent \in ConnRecords BY DEF Absent
        <3> QED BY <3>1
    <2>5. conn'[c] = new BY <2>2 DEF Becomes
    <2>6. ConnInv(c)' BY <2>1, <2>2, <2>3, <2>5
    <2> HIDE DEF new, DrainInv
    <2> QED BY <2>2, <2>4, <2>6, OneConnection
<1>2. CASE ClientSpeaks(c)
    BY <1>0, <1>2, OneConnection DEF ClientSpeaks, Becomes
<1>3. CASE ReadReturns(c)
    BY <1>0, <1>3, OneConnection DEF ReadReturns, Becomes
<1>8. CASE ReadMarks(c)
    BY <1>0, <1>8, OneConnection DEF ReadMarks, Becomes
<1>4. CASE RequestComplete(c)
    BY <1>0, <1>4, OneConnection DEF RequestComplete, Becomes
<1>5. CASE ReadFails(c)
    BY <1>0, <1>5, OneConnection DEF ReadFails, Becomes
<1>6. CASE GracePasses(c)
    BY <1>0, <1>6, OneConnection DEF GracePasses, Open, Becomes
<1>7. CASE CloseIdle(c)
    BY <1>0, <1>7, OneConnection DEF CloseIdle, Becomes
<1> QED
    BY <1>1, <1>2, <1>3, <1>4, <1>5, <1>6, <1>7, <1>8 DEF ConnStep

\* The response is written.
LEMMA AnsweredInv == ASSUME DrainInv, NEW c \in Conns, Answered(c) PROVE DrainInv'
<1> DEFINE q == conn[c]
           new == [q EXCEPT !.pc = IF stopping \/ q.shut THEN "closed" ELSE "idle",
                            !.served = q.served + 1]
<1> USE DrainAssumption DEF ConnRecords
<1>1. Becomes(c, new) /\ UNCHANGED <<listening, stopping, silent>> BY DEF Answered
<1>2. /\ ConnInv(c) /\ q.pc = "handling" /\ stopping \in BOOLEAN
      /\ q \in ConnRecords
    BY DEF DrainInv, DrainTypeOK, Answered
<1>3. q.served + 1 \in 0 .. MaxRequests BY <1>2 DEF ConnInv
<1>4. new \in ConnRecords
    BY <1>2, <1>3
<1>5. conn'[c] = new BY <1>1 DEF Becomes, DrainInv, DrainTypeOK
<1>6. q.spoke /\ ~q.sent BY <1>2 DEF ConnInv
<1>7. ConnInv(c)' BY <1>1, <1>2, <1>5, <1>6 DEF ConnInv
<1> HIDE DEF new
<1> QED BY <1>1, <1>4, <1>7, OneConnection

\* fasthttp's shutdown begins.
LEMMA StopListeningInv == ASSUME DrainInv, StopListening PROVE DrainInv'
BY DEF DrainInv, DrainTypeOK, ConnInv, StopListening

\* The pass of closeSilent collects connections that are silent past the grace.
LEMMA SweepCollectsInv == ASSUME DrainInv, SweepCollects PROVE DrainInv'
BY DEF DrainInv, DrainTypeOK, ConnInv, SweepCollects, Collects, Known, Open

\* The close of a collected connection, whatever it has come to since.
LEMMA SweepEndsInv ==
    ASSUME DrainInv, NEW c \in Conns, SweepEnds(c) PROVE DrainInv'
<1> DEFINE q == conn[c]
           new == [q EXCEPT !.ended = TRUE, !.shut = TRUE,
                      !.cut = @ \/ q.sent \/ q.pc \in {"read", "reading", "handling"}]
<1>1. /\ c \in silent /\ silent' = silent \ {c} /\ UNCHANGED <<listening, stopping>>
      /\ Becomes(c, new)
    BY DEF SweepEnds
<1>2. ConnInv(c) /\ q \in ConnRecords
    BY DEF DrainInv, DrainTypeOK, ConnRecords
<1>3. new \in ConnRecords BY <1>2 DEF ConnRecords
<1>4. conn'[c] = new BY <1>1 DEF Becomes, DrainInv, DrainTypeOK
<1>5. /\ new.pc = q.pc /\ new.mature = q.mature /\ new.spoke = q.spoke /\ new.sent = q.sent
      /\ new.served = q.served /\ new.prompt = q.prompt
    BY <1>2 DEF ConnRecords
<1>6. q.mature /\ ~q.prompt /\ c \notin silent' BY <1>1, <1>2 DEF ConnInv
<1> HIDE DEF new
<1>7. ConnInv(c)' BY <1>1, <1>2, <1>4, <1>5, <1>6 DEF ConnInv
<1> QED BY <1>1, <1>3, <1>7, OneConnection

\* A step of something else.
LEMMA DrainUnchanged == ASSUME DrainInv, UNCHANGED drainVars PROVE DrainInv'
BY DEF DrainInv, DrainTypeOK, ConnInv, drainVars

-----------------------------------------------------------------------------
(* Run.                                                                    *)

\* No step of a connection opens one while the listener is closed.
LEMMA OpenShrinks ==
    ASSUME DrainInv, NEW c \in Conns, ~listening, ConnStep(c) \/ Answered(c) \/ SweepEnds(c)
    PROVE  Open' \subseteq Open
<1> SUFFICES ASSUME NEW d \in Conns, d \in Open' PROVE d \in Open
    BY DEF Open
<1> USE DEF Open, Becomes, DrainInv, DrainTypeOK
<1>1. CASE Accept(c) BY <1>1 DEF Accept
<1>2. CASE ClientSpeaks(c) BY <1>2 DEF ClientSpeaks
<1>3. CASE ReadReturns(c) BY <1>3 DEF ReadReturns
<1>10. CASE ReadMarks(c) BY <1>10 DEF ReadMarks
<1>4. CASE RequestComplete(c) BY <1>4 DEF RequestComplete
<1>5. CASE ReadFails(c) BY <1>5 DEF ReadFails
<1>6. CASE GracePasses(c) BY <1>6 DEF GracePasses
<1>7. CASE CloseIdle(c) BY <1>7 DEF CloseIdle
<1>8. CASE Answered(c) BY <1>8 DEF Answered
<1>9. CASE SweepEnds(c) BY <1>9 DEF SweepEnds
<1> QED BY <1>1, <1>2, <1>3, <1>4, <1>5, <1>6, <1>7, <1>8, <1>9, <1>10 DEF ConnStep

\* The listener stays as it is through every step of a connection.
LEMMA ConnStepListens ==
    ASSUME NEW c \in Conns, ConnStep(c) \/ Answered(c) \/ SweepEnds(c) \/ SweepCollects
    PROVE  listening' = listening
BY DEF ConnStep, Accept, ClientSpeaks, ReadReturns, ReadMarks, RequestComplete, ReadFails,
       GracePasses, CloseIdle, Answered, SweepEnds, SweepCollects

\* The specification starts in the invariant.
LEMMA InitInv == Init => ServerInv
<1> SUFFICES ASSUME Init PROVE ServerInv OBVIOUS
<1>1. BatchInv
    <2>1. /\ queued = 0 /\ batched = 0 /\ dropped = 0 /\ ended = 0 /\ exported = 0
          /\ refused = 0 /\ runner = "select" /\ closing = FALSE /\ closer = "none"
        BY DEF Init, BatchInit
    <2>2. closing \in BOOLEAN /\ (closing <=> closer # "none") BY <2>1, Zenon
    <2>3. BatchTypeOK BY <2>1, <2>2, BatchAssumption DEF BatchTypeOK
    <2>4. SpansAccounted BY <2>1 DEF SpansAccounted
    <2>5. 0 < MaxExportSize BY BatchAssumption
    <2> QED BY <2>1, <2>2, <2>3, <2>4, <2>5 DEF BatchInv
<1>2. DrainInv
    <2>1. Absent \in ConnRecords BY DrainAssumption DEF Absent, ConnRecords
    <2>2. DrainTypeOK BY <2>1 DEF Init, DrainInit, DrainTypeOK, ConnRecords
    <2>3. ASSUME NEW c \in Conns PROVE ConnInv(c)
        <3>1. conn[c] = Absent /\ silent = {} BY DEF Init, DrainInit
        <3> QED BY <3>1 DEF ConnInv, Absent
    <2> QED BY <2>2, <2>3 DEF DrainInv
<1>3. PhaseInv
    <2>1. run = "serving" /\ overrun = FALSE /\ listening = TRUE /\ closing = FALSE
          /\ refused = 0
        BY DEF Init, BatchInit, DrainInit
    <2>2. overrun \in BOOLEAN /\ (run = "serving" <=> listening)
          /\ (closing => run \in {"closing", "ended"})
        BY <2>1, Zenon
    <2>3. ClosedAfterHandlers BY <2>1 DEF ClosedAfterHandlers
    <2> QED BY <2>1, <2>2, <2>3 DEF PhaseInv
<1> QED BY <1>1, <1>2, <1>3 DEF ServerInv

\* Every step of Run, of the connections and of the processor keeps the invariant.
LEMMA NextInv == ServerInv /\ [Next]_vars => ServerInv'
<1> SUFFICES ASSUME ServerInv, [Next]_vars PROVE ServerInv' OBVIOUS
<1>0. BatchInv /\ DrainInv /\ PhaseInv BY DEF ServerInv
<1>1. CASE Connections
    <2>1. PICK c \in Conns : ConnStep(c) BY <1>1 DEF Connections
    <2>2. UNCHANGED <<batchVars, run, overrun>> BY <1>1 DEF Connections
    <2>3. BatchInv' BY <1>0, <2>2, BatchUnchanged
    <2>4. DrainInv' BY <1>0, <2>1, ConnStepInv
    <2>5. listening' = listening BY <2>1, ConnStepListens
    <2>6. ~listening => Open' \subseteq Open BY <1>0, <2>1, OpenShrinks
    <2>7. PhaseInv' BY <1>0, <2>2, <2>5, <2>6 DEF PhaseInv, ClosedAfterHandlers, batchVars
    <2> QED BY <2>3, <2>4, <2>7 DEF ServerInv
<1>2. ASSUME NEW c \in Conns, HandlerEnds(c) PROVE ServerInv'
    <2>1. Answered(c) /\ OnEnd /\ UNCHANGED <<run, overrun>> BY <1>2 DEF HandlerEnds
    <2>2. BatchInv' BY <1>0, <2>1, OnEndInv
    <2>3. DrainInv' BY <1>0, <2>1, AnsweredInv
    <2>4. listening' = listening BY <2>1, ConnStepListens
    <2>5. ~listening => Open' \subseteq Open BY <1>0, <2>1, OpenShrinks
    <2>6. closing' = closing BY <2>1 DEF OnEnd
    <2>7. c \in Open BY <2>1 DEF Answered, Open
    <2>8. closing => overrun BY <1>0, <2>7 DEF PhaseInv
    <2>9. ClosedAfterHandlers'
        <3>1. CASE closing BY <2>1, <2>8, <3>1 DEF ClosedAfterHandlers
        <3>2. CASE ~closing
            BY <1>0, <2>1, <3>2 DEF OnEnd, PhaseInv, ClosedAfterHandlers
        <3> QED BY <3>1, <3>2
    <2>10. PhaseInv' BY <1>0, <2>1, <2>4, <2>5, <2>6, <2>9 DEF PhaseInv
    <2> QED BY <2>2, <2>3, <2>10 DEF ServerInv
<1>3. CASE Exporting
    <2>1. BatchRuns /\ UNCHANGED <<drainVars, run, overrun>> BY <1>3 DEF Exporting
    <2>2. BatchInv' BY <1>0, <2>1, BatchRunsInv
    <2>3. DrainInv' BY <1>0, <2>1, DrainUnchanged
    <2>4. closing' = closing /\ refused' = refused
        BY <2>1 DEF BatchRuns, Receive, Flush, LastFlush, ExportReturns
    <2>5. PhaseInv' BY <1>0, <2>1, <2>4 DEF PhaseInv, ClosedAfterHandlers, drainVars, Open
    <2> QED BY <2>2, <2>3, <2>5 DEF ServerInv
<1>4. CASE Signal
    <2>1. StopListening /\ UNCHANGED <<batchVars, overrun>> /\ run = "serving"
          /\ run' = "draining"
        BY <1>4 DEF Signal
    <2>2. BatchInv' BY <1>0, <2>1, BatchUnchanged
    <2>3. DrainInv' BY <1>0, <2>1, StopListeningInv
    <2>4. ~listening' BY <2>1 DEF StopListening
    <2>5. ~closing' /\ refused' = refused BY <1>0, <2>1 DEF PhaseInv, batchVars
    <2>6. PhaseInv' BY <1>0, <2>1, <2>4, <2>5 DEF PhaseInv, ClosedAfterHandlers
    <2> QED BY <2>2, <2>3, <2>6 DEF ServerInv
<1>5. CASE Sweeping
    <2>1. UNCHANGED <<batchVars, run, overrun>> /\ run = "draining" BY <1>5 DEF Sweeping
    <2>2. BatchInv' BY <1>0, <2>1, BatchUnchanged
    <2>3. DrainInv' BY <1>0, <1>5, SweepCollectsInv, SweepEndsInv DEF Sweeping
    <2>4. listening' = listening BY <1>5 DEF Sweeping, SweepCollects, SweepEnds
    <2>5. PhaseInv' BY <1>0, <2>1, <2>4 DEF PhaseInv, ClosedAfterHandlers, batchVars
    <2> QED BY <2>2, <2>3, <2>5 DEF ServerInv
<1>6. CASE Drained
    <2>1. UNCHANGED <<batchVars, drainVars, overrun>> /\ run = "draining" /\ Open = {}
          /\ run' = "closing"
        BY <1>6 DEF Drained
    <2>2. BatchInv' /\ DrainInv' BY <1>0, <2>1, BatchUnchanged, DrainUnchanged
    <2>3. PhaseInv'
        BY <1>0, <2>1 DEF PhaseInv, ClosedAfterHandlers, batchVars, drainVars, Open
    <2> QED BY <2>2, <2>3 DEF ServerInv
<1>7. CASE DeadlinePasses
    <2>1. UNCHANGED <<batchVars, drainVars>> /\ run = "draining" /\ overrun' = TRUE
          /\ run' = "closing"
        BY <1>7 DEF DeadlinePasses
    <2>2. BatchInv' /\ DrainInv' BY <1>0, <2>1, BatchUnchanged, DrainUnchanged
    <2>3. overrun' BY <2>1, Zenon
    <2>4. PhaseInv'
        BY <1>0, <2>1, <2>3 DEF PhaseInv, ClosedAfterHandlers, batchVars, drainVars
    <2> QED BY <2>2, <2>4 DEF ServerInv
<1>8. CASE AcceptFails
    <2>1. /\ UNCHANGED <<batchVars, conn, stopping, silent>> /\ run = "serving"
          /\ run' = "closing" /\ overrun' = (Open # {}) /\ ~listening'
        BY <1>8 DEF AcceptFails
    <2>2. BatchInv' BY <1>0, <2>1, BatchUnchanged
    <2>3. DrainInv'
        <3>1. conn' = conn /\ stopping' = stopping /\ silent' = silent BY <2>1, Zenon
        <3>2. listening' \in BOOLEAN BY <1>8 DEF AcceptFails
        <3>3. stopping' => ~listening' BY <2>1, Zenon
        <3>4. DrainTypeOK' BY <1>0, <3>1, <3>2, <3>3 DEF DrainInv, DrainTypeOK
        <3>5. ASSUME NEW c \in Conns PROVE ConnInv(c)' BY <1>0, <3>1 DEF DrainInv, ConnInv
        <3> QED BY <3>4, <3>5 DEF DrainInv
    <2>4. Open' = Open BY <2>1 DEF Open
    <2>5. ~closing' /\ refused' = refused BY <1>0, <2>1 DEF PhaseInv, batchVars
    <2>6. ~(refused > 0) \/ overrun BY <1>0 DEF PhaseInv, ClosedAfterHandlers
    <2>7. overrun' \in BOOLEAN /\ (~overrun' => Open' = {}) BY <2>1, <2>4, Zenon
    <2>8. ~overrun BY <1>0, <2>1 DEF PhaseInv
    <2>9. PhaseInv'
        BY <1>0, <2>1, <2>5, <2>6, <2>7, <2>8 DEF PhaseInv, ClosedAfterHandlers
    <2> QED BY <2>2, <2>3, <2>9 DEF ServerInv
<1>9. CASE Cleanup
    <2>1. UNCHANGED <<drainVars, run, overrun>> /\ run = "closing" BY <1>9 DEF Cleanup
    <2>2. BatchInv' BY <1>0, <1>9, ShutdownClosesInv, ShutdownReturnsInv DEF Cleanup
    <2>3. DrainInv' BY <1>0, <2>1, DrainUnchanged
    <2>4. refused' = refused BY <1>9 DEF Cleanup, ShutdownCloses, ShutdownReturns
    <2>5. PhaseInv' BY <1>0, <2>1, <2>4 DEF PhaseInv, ClosedAfterHandlers, drainVars, Open
    <2> QED BY <2>2, <2>3, <2>5 DEF ServerInv
<1>10. CASE RunReturns
    <2>1. UNCHANGED <<batchVars, drainVars, overrun>> /\ run = "closing" /\ run' = "ended"
        BY <1>10 DEF RunReturns
    <2>2. BatchInv' /\ DrainInv' BY <1>0, <2>1, BatchUnchanged, DrainUnchanged
    <2>3. PhaseInv'
        BY <1>0, <2>1 DEF PhaseInv, ClosedAfterHandlers, batchVars, drainVars, Open
    <2> QED BY <2>2, <2>3 DEF ServerInv
<1>11. CASE UNCHANGED vars
    <2>1. UNCHANGED <<batchVars, drainVars, run, overrun>> BY <1>11 DEF vars
    <2>2. BatchInv' /\ DrainInv' BY <1>0, <2>1, BatchUnchanged, DrainUnchanged
    <2>3. PhaseInv'
        BY <1>0, <2>1 DEF PhaseInv, ClosedAfterHandlers, batchVars, drainVars, Open
    <2> QED BY <2>2, <2>3 DEF ServerInv
<1> QED
    BY <1>1, <1>2, <1>3, <1>4, <1>5, <1>6, <1>7, <1>8, <1>9, <1>10, <1>11 DEF Next

\* The invariant holds of every behaviour of the server.
THEOREM ServerInvariant == Spec => []ServerInv
<1>1. QED BY InitInv, NextInv, PTL DEF Spec

-----------------------------------------------------------------------------
(* The properties.                                                         *)

\* Every state of the server is well typed: the channel and the batch stay within
\* their sizes, and the sweep and the cleanup work only after a stop.
THEOREM ServerTypeCorrect == Spec => []TypeOK
<1>1. ServerInv => TypeOK
    BY DEF ServerInv, BatchInv, DrainInv, ConnInv, PhaseInv, TypeOK, DrainTypeOK
<1> QED BY <1>1, ServerInvariant, PTL

\* No span disappears in the batch processor, through full queues, failed exports
\* and a Shutdown that races the handlers.
THEOREM SpansCorrect == Spec => []SpansAccounted
<1>1. ServerInv => SpansAccounted BY DEF ServerInv, BatchInv
<1> QED BY <1>1, ServerInvariant, PTL

\* A client whose first bytes the server has read within quietGrace is not ended
\* by the sweep, which collects and closes in two steps beside readers that store
\* their mark in a third, and has an answer before any request of it is cut off.
\* Bytes that have arrived and are not marked as read when the pass looks are
\* not promised anything.
THEOREM GraceCorrect == Spec => []YoungAreServed
<1>1. ServerInv => YoungAreServed BY DEF ServerInv, DrainInv, ConnInv, YoungAreServed
<1> QED BY <1>1, ServerInvariant, PTL

\* Cleanups come after the last handler unless serving was cut short, also after
\* a handler that goes on when the sweep has closed its connection.
THEOREM CleanupOrderCorrect == Spec => []ClosedAfterHandlers
<1>1. ServerInv => ClosedAfterHandlers BY DEF ServerInv, PhaseInv
<1> QED BY <1>1, ServerInvariant, PTL

=============================================================================
