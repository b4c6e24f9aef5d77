-------------------------------- MODULE Batch --------------------------------
(***************************************************************************)
(* BatchProcessor of contrib/otel/trace/processor.go; the one of           *)
(* contrib/otel/log/processor.go is the same code over log records.        *)
(*                                                                         *)
(* Spans are counted, not told apart: the processor treats them alike and  *)
(* what it promises is that none disappears.  `runner' is the goroutine of *)
(* run, `closer' the call of Shutdown.  The read lock of OnEnd excludes    *)
(* Shutdown's close, so each is one step.                                  *)
(***************************************************************************)
EXTENDS Integers

CONSTANTS QueueSize, MaxExportSize

ASSUME BatchAssumption ==
    /\ QueueSize \in Nat \ {0}
    /\ MaxExportSize \in Nat \ {0}

VARIABLES
    queued,    \* spans in the channel
    batched,   \* spans in run's batch
    runner,    \* "select", "export", "last" or "done"
    closing,   \* Shutdown has closed the channel
    closer,    \* "none", "waiting", or how Shutdown returned
    dropped,   \* the counter of Dropped
    ended,     \* history: spans handed to OnEnd
    exported,  \* history: spans the exporter accepted
    refused    \* history: spans OnEnd dropped because of the close

batchVars == <<queued, batched, runner, closing, closer, dropped, ended, exported, refused>>

BatchInit ==
    /\ queued = 0 /\ batched = 0
    /\ runner = "select"
    /\ closing = FALSE /\ closer = "none"
    /\ dropped = 0
    /\ ended = 0 /\ exported = 0 /\ refused = 0

\* Mutant: the full channel is found out one span too late.
OnEndOverfull ==
    /\ ended' = ended + 1
    /\ refused' = IF closing THEN refused + 1 ELSE refused
    /\ IF ~closing /\ queued <= QueueSize
       THEN queued' = queued + 1 /\ UNCHANGED dropped
       ELSE dropped' = dropped + 1 /\ UNCHANGED queued
    /\ UNCHANGED <<batched, runner, closing, closer, exported>>

\* OnEnd never blocks: a closing or a full processor drops and counts.
OnEnd ==
    /\ ended' = ended + 1
    /\ refused' = IF closing THEN refused + 1 ELSE refused
    /\ IF ~closing /\ queued < QueueSize
       THEN queued' = queued + 1 /\ UNCHANGED dropped
       ELSE dropped' = dropped + 1 /\ UNCHANGED queued
    /\ UNCHANGED <<batched, runner, closing, closer, exported>>

\* run receives a span, and flushes a batch that is full.
Receive ==
    /\ runner = "select" /\ queued > 0
    /\ queued' = queued - 1
    /\ batched' = batched + 1
    /\ runner' = IF batched' >= MaxExportSize THEN "export" ELSE "select"
    /\ UNCHANGED <<closing, closer, dropped, ended, exported, refused>>

\* The ticker: an empty batch is not exported.
Flush ==
    /\ runner = "select" /\ batched > 0
    /\ runner' = "export"
    /\ UNCHANGED <<queued, batched, closing, closer, dropped, ended, exported, refused>>

\* The closed channel is empty: the last flush.
LastFlush ==
    /\ runner = "select" /\ closing /\ queued = 0
    /\ runner' = IF batched > 0 THEN "last" ELSE "done"
    /\ UNCHANGED <<queued, batched, closing, closer, dropped, ended, exported, refused>>

\* Mutant: a failed export is recorded as an error only.
ExportReturnsUncounted(ok) ==
    /\ runner \in {"export", "last"}
    /\ exported' = IF ok THEN exported + batched ELSE exported
    /\ batched' = 0
    /\ runner' = IF runner = "last" THEN "done" ELSE "select"
    /\ UNCHANGED <<queued, closing, closer, dropped, ended, refused>>

\* ExportSpans returns; a failed export counts its spans as dropped.
ExportReturns(ok) ==
    /\ runner \in {"export", "last"}
    /\ exported' = IF ok THEN exported + batched ELSE exported
    /\ dropped' = IF ok THEN dropped ELSE dropped + batched
    /\ batched' = 0
    /\ runner' = IF runner = "last" THEN "done" ELSE "select"
    /\ UNCHANGED <<queued, closing, closer, ended, refused>>

\* Shutdown closes the channel and waits for run, or for its context.
ShutdownCloses ==
    /\ closer = "none"
    /\ closing' = TRUE
    /\ closer' = "waiting"
    /\ UNCHANGED <<queued, batched, runner, dropped, ended, exported, refused>>

ShutdownReturns(how) ==
    /\ closer = "waiting"
    /\ how = "done" => runner = "done"
    /\ closer' = how
    /\ UNCHANGED <<queued, batched, runner, closing, dropped, ended, exported, refused>>

BatchRuns ==
    \/ Receive \/ Flush \/ LastFlush
    \/ \E ok \in BOOLEAN : ExportReturns(ok)

-----------------------------------------------------------------------------
BatchTypeOK ==
    /\ queued \in 0 .. QueueSize
    /\ batched \in 0 .. MaxExportSize
    /\ runner \in {"select", "export", "last", "done"}
    /\ closing \in BOOLEAN
    /\ closer \in {"none", "waiting", "done", "deadline"}
    /\ dropped \in Nat /\ ended \in Nat /\ exported \in Nat /\ refused \in Nat

\* No span disappears: each one that ended was exported or counted as dropped,
\* or is still in the channel or the batch, and of those there is none once run
\* has returned and Shutdown has said so.
SpansAccounted ==
    /\ ended = exported + dropped + queued + batched
    /\ closer = "done" => queued = 0 /\ batched = 0

=============================================================================
