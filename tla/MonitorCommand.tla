-------------------------- MODULE MonitorCommand --------------------------
(***************************************************************************)
(* The goroutines of kube-health-monitor: MonitorPoller                    *)
(* (pkg/monitor/poll.go) -> dedupFilter (cmd/monitor/monitor.go) -> either *)
(* Exporter.digestUpdates with the metrics server (pkg/monitor/prom.go),   *)
(* or, with --print-only, printerAdapter and the PeriodicPrinter, all over *)
(* unbuffered channels.  An update is the number of its poll run; what is  *)
(* in it is the subject of MonitorReport.                                  *)
(***************************************************************************)
EXTENDS Naturals

CONSTANTS Cycle,      \* run numbers are taken modulo this
          MayCancel   \* may an embedding program cancel the context?

ASSUME CycleAssumption == Cycle \in Nat /\ Cycle > 4 /\ MayCancel \in BOOLEAN

VARIABLES
    printOnly,   \* the flag
    ctx,         \* "live" or "done"
    poller,      \* "run", "send", "select", "closed"
    run,         \* number of the poller's run
    dedup,       \* dedupFilter: "recv", "send", "closed"
    dedupRun,    \* the update it holds
    third,       \* digestUpdates, or printerAdapter: "recv", "busy", "closed"
    thirdRun,
    metrics,     \* metricSet.metrics: the run they are from
    main,        \* main goroutine: "recv", "print" (print-only), "serving", "returned", "exited"
    watcher,     \* SimpleServer, first goroutine: "select", "shutdown", "drain", "close", "done"
    listener,    \* SimpleServer, second goroutine: "serve", "close", "done"
    down,        \* the http.Server accepts no more
    stop,        \* how often the channel stop was closed
    panicked

pipeVars == <<poller, run, dedup, dedupRun, third, thirdRun, metrics>>
serverVars == <<watcher, listener, down, stop, panicked>>
vars == <<printOnly, ctx, pipeVars, main, serverVars>>

Init ==
    /\ printOnly \in BOOLEAN
    /\ ctx = "live"
    /\ poller = "run"
    /\ run = 1
    /\ dedup = "recv"
    /\ dedupRun = 0
    /\ third = "recv"
    /\ thirdRun = 0
    /\ metrics = 0
    /\ main = IF printOnly THEN "recv" ELSE "serving"
    /\ watcher = IF printOnly THEN "done" ELSE "select"
    /\ listener = IF printOnly THEN "done" ELSE "serve"
    /\ down = FALSE
    /\ stop = 0
    /\ panicked = FALSE

(* The process is there: no panic, and the main goroutine has not ended. *)
Up == ~panicked /\ main # "exited"

-----------------------------------------------------------------------------
(* MonitorPoller.run and Start *)

Evaluate ==
    /\ Up /\ poller = "run"
    /\ poller' = "send"
    /\ UNCHANGED <<printOnly, ctx, run, dedup, dedupRun, third, thirdRun, metrics, main, serverVars>>

(* A plausible slip: a send with a default case, which drops the update. *)
SendOrDrop ==
    /\ Up /\ poller = "send"
    /\ poller' = "select"
    /\ dedup' = IF dedup = "recv" THEN "send" ELSE dedup
    /\ dedupRun' = IF dedup = "recv" THEN run ELSE dedupRun
    /\ UNCHANGED <<printOnly, ctx, run, third, thirdRun, metrics, main, serverVars>>

(* The poller's update goes to dedupFilter. *)
SendUpdate ==
    /\ Up /\ poller = "send" /\ dedup = "recv"
    /\ poller' = "select"
    /\ dedup' = "send"
    /\ dedupRun' = run
    /\ UNCHANGED <<printOnly, ctx, run, third, thirdRun, metrics, main, serverVars>>

SelectTimer ==
    /\ Up /\ poller = "select"
    /\ poller' = "run"
    /\ run' = (run + 1) % Cycle
    /\ UNCHANGED <<printOnly, ctx, dedup, dedupRun, third, thirdRun, metrics, main, serverVars>>

(* A plausible slip: the channel is not closed when the poller ends. *)
SelectDoneNoClose ==
    /\ Up /\ poller = "select" /\ ctx = "done"
    /\ UNCHANGED vars

SelectDone ==
    /\ Up /\ poller = "select" /\ ctx = "done"
    /\ poller' = "closed"
    /\ UNCHANGED <<printOnly, ctx, run, dedup, dedupRun, third, thirdRun, metrics, main, serverVars>>

-----------------------------------------------------------------------------
(* dedupFilter *)

(* A plausible slip: a buffered out channel whose reader gets the newest only. *)
ForwardNewest ==
    /\ Up /\ dedup = "send"
    /\ dedup' = "recv"
    /\ third' = "busy"
    /\ thirdRun' = dedupRun
    /\ UNCHANGED <<printOnly, ctx, poller, run, dedupRun, metrics, main, serverVars>>

Forward ==
    /\ Up /\ dedup = "send" /\ third = "recv"
    /\ dedup' = "recv"
    /\ third' = "busy"
    /\ thirdRun' = dedupRun
    /\ UNCHANGED <<printOnly, ctx, poller, run, dedupRun, metrics, main, serverVars>>

(* A plausible slip: dedupFilter returns on the cancellation, whatever it holds. *)
DedupEndsOnDone ==
    /\ Up /\ dedup # "closed" /\ ctx = "done"
    /\ dedup' = "closed"
    /\ UNCHANGED <<printOnly, ctx, poller, run, dedupRun, third, thirdRun, metrics, main, serverVars>>

(* Its range ends with the closed channel, so not while there is an update to take. *)
DedupEnds ==
    /\ Up /\ dedup = "recv" /\ poller = "closed"
    /\ dedup' = "closed"
    /\ UNCHANGED <<printOnly, ctx, poller, run, dedupRun, third, thirdRun, metrics, main, serverVars>>

-----------------------------------------------------------------------------
(* A plausible slip: the metrics are converted and never stored. *)
DigestForgets ==
    /\ Up /\ ~printOnly /\ third = "busy"
    /\ third' = "recv"
    /\ UNCHANGED <<printOnly, ctx, poller, run, dedup, dedupRun, thirdRun, metrics, main, serverVars>>

(* Exporter.digestUpdates: metricSet.Update replaces all metrics at once. *)
Digest ==
    /\ Up /\ ~printOnly /\ third = "busy"
    /\ third' = "recv"
    /\ metrics' = thirdRun
    /\ UNCHANGED <<printOnly, ctx, poller, run, dedup, dedupRun, thirdRun, main, serverVars>>

(* printerAdapter hands the update to PeriodicPrinter.Start. *)
Adapt ==
    /\ Up /\ printOnly /\ third = "busy" /\ main = "recv"
    /\ third' = "recv"
    /\ main' = "print"
    /\ UNCHANGED <<printOnly, ctx, poller, run, dedup, dedupRun, thirdRun, metrics, serverVars>>

(* The range of either over the closed channel ends. *)
ThirdEnds ==
    /\ Up /\ third = "recv" /\ dedup = "closed"
    /\ third' = "closed"
    /\ UNCHANGED <<printOnly, ctx, poller, run, dedup, dedupRun, thirdRun, metrics, main, serverVars>>

(* The update is printed; the monitor's waitFunction cancels at once. *)
PrintAndCancel ==
    /\ Up /\ main = "print"
    /\ main' = "recv"
    /\ ctx' = "done"
    /\ UNCHANGED <<printOnly, pipeVars, serverVars>>

PrinterReturns ==
    /\ Up /\ main = "recv" /\ third = "closed"
    /\ main' = "returned"
    /\ UNCHANGED <<printOnly, ctx, pipeVars, serverVars>>

-----------------------------------------------------------------------------
(* SimpleServer.Start *)

(* The embedding program cancels the context given to the command. *)
Cancel ==
    /\ MayCancel
    /\ Up /\ ~printOnly /\ ctx = "live"
    /\ ctx' = "done"
    /\ UNCHANGED <<printOnly, pipeVars, main, serverVars>>

(* First goroutine: of two ready cases, select takes either. *)
WatcherShutdown ==
    /\ Up /\ watcher = "select" /\ ctx = "done"
    /\ watcher' = "shutdown"
    /\ UNCHANGED <<printOnly, ctx, pipeVars, main, listener, down, stop, panicked>>

WatcherStopped ==
    /\ Up /\ watcher = "select" /\ stop > 0
    /\ watcher' = "done"
    /\ UNCHANGED <<printOnly, ctx, pipeVars, main, listener, down, stop, panicked>>

(* A plausible slip: stop is closed before the server was told to shut down. *)
CloseWithoutShutdown ==
    /\ Up /\ watcher = "shutdown"
    /\ watcher' = "close"
    /\ UNCHANGED <<printOnly, ctx, pipeVars, main, listener, down, stop, panicked>>

(* server.Shutdown closes the listeners, ... *)
Shutdown ==
    /\ Up /\ watcher = "shutdown"
    /\ down' = TRUE
    /\ watcher' = "drain"
    /\ UNCHANGED <<printOnly, ctx, pipeVars, main, listener, stop, panicked>>

(* ... waits for the requests that are being served, without a limit, and returns. *)
ShutdownReturns ==
    /\ Up /\ watcher = "drain"
    /\ watcher' = "close"
    /\ UNCHANGED <<printOnly, ctx, pipeVars, main, listener, down, stop, panicked>>

(* Second goroutine: ListenAndServe returns as soon as the listeners are closed, *)
(* not waiting for the requests, or fails by itself.                             *)
ListenReturns ==
    /\ Up /\ listener = "serve"
    /\ down' = TRUE
    /\ listener' = "close"
    /\ UNCHANGED <<printOnly, ctx, pipeVars, main, watcher, stop, panicked>>

(* close(stop): closing a closed channel panics. *)
CloseStop ==
    /\ stop' = stop + 1
    /\ panicked' = (stop > 0)

WatcherCloses ==
    /\ Up /\ watcher = "close"
    /\ watcher' = "done"
    /\ CloseStop
    /\ UNCHANGED <<printOnly, ctx, pipeVars, main, listener, down>>

ListenerCloses ==
    /\ Up /\ listener = "close"
    /\ listener' = "done"
    /\ CloseStop
    /\ UNCHANGED <<printOnly, ctx, pipeVars, main, watcher, down>>

(* <-stop, and Start returns *)
StartReturns ==
    /\ Up /\ main = "serving" /\ stop > 0
    /\ main' = "returned"
    /\ UNCHANGED <<printOnly, ctx, pipeVars, serverVars>>

(* The deferred cancelFunc of runFunc, then the process ends. *)
DeferredCancel ==
    /\ Up /\ main = "returned" /\ ctx = "live"
    /\ ctx' = "done"
    /\ UNCHANGED <<printOnly, pipeVars, main, serverVars>>

ProcessEnds ==
    /\ Up /\ main = "returned" /\ ctx = "done"
    /\ main' = "exited"
    /\ UNCHANGED <<printOnly, ctx, pipeVars, serverVars>>

-----------------------------------------------------------------------------
Pipe == Evaluate \/ SendUpdate \/ Forward \/ DedupEnds \/ Digest \/ Adapt \/ ThirdEnds
Printer == PrintAndCancel \/ PrinterReturns
Server ==
    \/ WatcherShutdown \/ WatcherStopped \/ Shutdown \/ ShutdownReturns \/ WatcherCloses
    \/ ListenerCloses \/ StartReturns
End == DeferredCancel \/ ProcessEnds

Next ==
    \/ Pipe \/ SelectTimer \/ SelectDone \/ Printer
    \/ Server \/ Cancel \/ ListenReturns \/ End

(* As for HealthCommand: select takes ctx.Done at random, so not never.  A      *)
(* request may be served for ever, so ShutdownReturns may never happen.         *)
Fairness ==
    /\ WF_vars(Evaluate) /\ WF_vars(SendUpdate) /\ WF_vars(Forward) /\ WF_vars(DedupEnds)
    /\ WF_vars(Digest) /\ WF_vars(Adapt) /\ WF_vars(ThirdEnds)
    /\ WF_vars(SelectTimer) /\ SF_vars(SelectDone)
    /\ WF_vars(Printer)
    /\ WF_vars(WatcherShutdown) /\ WF_vars(Shutdown) /\ WF_vars(WatcherCloses)
    /\ WF_vars(ListenReturns /\ down) /\ WF_vars(ListenerCloses)
    /\ WF_vars(StartReturns) /\ WF_vars(End)

Spec == Init /\ [][Next]_vars /\ Fairness

-----------------------------------------------------------------------------
(* Every goroutine is at one of its places; stop is closed at most twice. *)
TypeOK ==
    /\ printOnly \in BOOLEAN
    /\ ctx \in {"live", "done"}
    /\ poller \in {"run", "send", "select", "closed"}
    /\ {run, dedupRun, thirdRun, metrics} \subseteq 0..(Cycle - 1)
    /\ dedup \in {"recv", "send", "closed"}
    /\ third \in {"recv", "busy", "closed"}
    /\ main \in {"recv", "print", "serving", "returned", "exited"}
    /\ watcher \in {"select", "shutdown", "drain", "close", "done"}
    /\ listener \in {"serve", "close", "done"}
    /\ down \in BOOLEAN
    /\ stop \in 0..2
    /\ panicked \in BOOLEAN

(***************************************************************************)
(* The unbuffered channels hold the poller back: what Prometheus scrapes   *)
(* is never more than three runs behind the run in progress.               *)
(***************************************************************************)
BoundedLag == ~printOnly => (Cycle + run - metrics) % Cycle <= 3

(* No update is lost, repeated or overtaken on its way to the metrics. *)
InOrder == [][metrics' # metrics => metrics' = (metrics + 1) % Cycle]_vars

(***************************************************************************)
(* Nothing is left behind when the context is cancelled: the poller ends   *)
(* only between two runs, dedupFilter and digestUpdates end only with      *)
(* their channels empty, so once the pipeline has unwound the metrics are  *)
(* those of the last run there was.                                        *)
(***************************************************************************)
LastRunArrives == ~printOnly /\ third = "closed" => metrics = run

(***************************************************************************)
(* "Start starts the server and blocks until the server is stopped"        *)
(* (prom.go): when Start has returned, the server accepts no more          *)
(* requests; those it is serving may still be under way.                   *)
(***************************************************************************)
ReturnMeansStopped == ~printOnly /\ main \in {"returned", "exited"} => down

(***************************************************************************)
(* With --print-only the command prints one or more updates and then every *)
(* goroutine of the pipeline unwinds until the process ends.               *)
(***************************************************************************)
PrintOnlyEnds == printOnly ~> main = "exited"

(* While the exporter serves, each finished run gets to the metrics. *)
UpdatesArrive ==
    \A n \in 0..(Cycle - 1) :
        (poller = "send" /\ run = n) ~> (metrics = n \/ ~Up \/ printOnly)

(***************************************************************************)
(* Start "blocks until the server is stopped" and returns an error         *)
(* (prom.go): it does not panic.                                           *)
(***************************************************************************)
NoPanic == ~panicked
=============================================================================
