------------------------ MODULE MonitorCommandProofs ------------------------
(***************************************************************************)
(* Proofs about module MonitorCommand, for every Cycle, with and without a *)
(* program that cancels the context.                                       *)
(***************************************************************************)
EXTENDS MonitorCommand, TLAPS

(* The number of the run after run n. *)
After(n) == (n + 1) % Cycle

(***************************************************************************)
(* What each goroutine holds is the run of the next one in the pipeline,   *)
(* or the one after it while there is an update between the two.           *)
(***************************************************************************)
PipeInv ==
    /\ run = IF poller \in {"run", "send"} THEN After(dedupRun) ELSE dedupRun
    /\ dedupRun = IF dedup = "send" THEN After(thirdRun) ELSE thirdRun
    /\ ~printOnly =>
           thirdRun = IF third = "busy" THEN After(metrics) ELSE metrics

(***************************************************************************)
(* Whoever is about to close the channel stop has seen the server down, so *)
(* has whoever sees the channel closed; each of the two goroutines closes  *)
(* it at most once.                                                        *)
(***************************************************************************)
ServerInv ==
    /\ watcher \in {"drain", "close"} \/ listener = "close" \/ stop > 0 => down
    /\ listener = "done" /\ watcher = "done" => stop <= 2
    /\ listener # "done" \/ watcher # "done" => stop <= 1
    /\ listener # "done" /\ watcher # "done" => stop = 0
    /\ ~printOnly => main \in {"serving", "returned", "exited"}
    /\ ~printOnly /\ main # "serving" => stop > 0

(* The goroutines of the pipeline end one after the other, upstream first. *)
UnwindInv ==
    /\ dedup = "closed" => poller = "closed"
    /\ third = "closed" => dedup = "closed"

Inv == TypeOK /\ PipeInv /\ UnwindInv /\ ServerInv

-----------------------------------------------------------------------------
(* Numbers of runs are counted up to Cycle - 1 and start over. *)
LEMMA AfterValue ==
    ASSUME NEW n \in 0..(Cycle - 1)
    PROVE  /\ After(n) = IF n = Cycle - 1 THEN 0 ELSE n + 1
           /\ After(n) \in 0..(Cycle - 1)
<1>1. CASE n = Cycle - 1
  BY <1>1, CycleAssumption DEF After
<1>2. CASE n # Cycle - 1
  BY <1>2, CycleAssumption DEF After
<1> QED BY <1>1, <1>2

(* The distance between two run numbers, without the modulus. *)
LEMMA Distance ==
    ASSUME NEW m \in 0..(Cycle - 1), NEW n \in 0..(Cycle - 1)
    PROVE  (Cycle + n - m) % Cycle = IF n >= m THEN n - m ELSE Cycle + n - m
<1>1. CASE n >= m
  BY <1>1, CycleAssumption
<1>2. CASE ~(n >= m)
  BY <1>2, CycleAssumption
<1> QED BY <1>1, <1>2

(* The invariant holds when the goroutines start. *)
LEMMA InitInv == Init => Inv
<1> SUFFICES ASSUME Init PROVE Inv
  OBVIOUS
<1>1. After(0) = 1
  BY AfterValue, CycleAssumption
<1>2. TypeOK
  <2>1. {run, dedupRun, thirdRun, metrics} \subseteq 0..(Cycle - 1)
    BY CycleAssumption DEF Init
  <2>2. stop \in 0..2
    BY DEF Init
  <2>3. down \in BOOLEAN /\ panicked \in BOOLEAN
    BY DEF Init
  <2> QED BY <2>1, <2>2, <2>3 DEF Init, TypeOK
<1>3. PipeInv
  BY <1>1 DEF Init, PipeInv
<1>4. ServerInv /\ UnwindInv
  BY DEF Init, ServerInv, UnwindInv
<1> QED BY <1>2, <1>3, <1>4 DEF Inv

(* A step of the server leaves the pipeline alone, and keeps the invariant. *)
LEMMA ServerStep ==
    ASSUME Inv, Server \/ ListenReturns
    PROVE  Inv'
<1> USE DEF Inv, TypeOK, ServerInv, PipeInv, UnwindInv, After, pipeVars
<1>1. CASE WatcherShutdown
  BY <1>1 DEF WatcherShutdown
<1>2. CASE WatcherStopped
  BY <1>2 DEF WatcherStopped
<1>3. CASE Shutdown
  BY <1>3 DEF Shutdown
<1>8. CASE ShutdownReturns
  BY <1>8 DEF ShutdownReturns
<1>4. CASE WatcherCloses
  BY <1>4 DEF WatcherCloses, CloseStop
<1>5. CASE ListenerCloses
  BY <1>5 DEF ListenerCloses, CloseStop
<1>6. CASE StartReturns
  BY <1>6 DEF StartReturns, serverVars
<1>7. CASE ListenReturns
  BY <1>7 DEF ListenReturns
<1> QED BY <1>1, <1>2, <1>3, <1>4, <1>5, <1>6, <1>7, <1>8 DEF Server

(* A step of the pipeline moves at most one update, by one place. *)
LEMMA PipeStep ==
    ASSUME Inv, Pipe \/ SelectTimer \/ SelectDone
    PROVE  Inv'
<1> USE DEF Inv, TypeOK, ServerInv, PipeInv, UnwindInv, serverVars
<1>1. CASE Evaluate
  BY <1>1 DEF Evaluate, After
<1>2. CASE SendUpdate
  BY <1>2 DEF SendUpdate, After
<1>3. CASE Forward
  BY <1>3 DEF Forward, After
<1>4. CASE DedupEnds
  BY <1>4 DEF DedupEnds, After
<1>5. CASE Digest
  BY <1>5 DEF Digest, After
<1>6. CASE Adapt
  BY <1>6 DEF Adapt, After
<1>7. CASE ThirdEnds
  BY <1>7 DEF ThirdEnds, After
<1>8. CASE SelectTimer
  <2>1. run' = After(run) /\ run' \in 0..(Cycle - 1)
    BY <1>8, AfterValue DEF SelectTimer, After
  <2> QED BY <1>8, <2>1 DEF SelectTimer, After
<1>9. CASE SelectDone
  BY <1>9 DEF SelectDone, After
<1> QED BY <1>1, <1>2, <1>3, <1>4, <1>5, <1>6, <1>7, <1>8, <1>9 DEF Pipe

(* The steps of the main goroutine and of the embedding program. *)
LEMMA MainStep ==
    ASSUME Inv, Printer \/ Cancel \/ End
    PROVE  Inv'
<1> USE DEF Inv, TypeOK, ServerInv, PipeInv, UnwindInv, After, pipeVars, serverVars
<1>1. CASE PrintAndCancel
  BY <1>1 DEF PrintAndCancel
<1>2. CASE PrinterReturns
  BY <1>2 DEF PrinterReturns
<1>3. CASE Cancel
  BY <1>3 DEF Cancel
<1>4. CASE DeferredCancel
  BY <1>4 DEF DeferredCancel
<1>5. CASE ProcessEnds
  BY <1>5 DEF ProcessEnds
<1> QED BY <1>1, <1>2, <1>3, <1>4, <1>5 DEF Printer, End

(* The invariant is inductive. *)
LEMMA InvInductive == Inv /\ [Next]_vars => Inv'
<1> SUFFICES ASSUME Inv, [Next]_vars PROVE Inv'
  OBVIOUS
<1>1. CASE UNCHANGED vars
  BY <1>1 DEF vars, pipeVars, serverVars, Inv, TypeOK, PipeInv, UnwindInv, ServerInv, After
<1> QED BY <1>1, ServerStep, PipeStep, MainStep DEF Next

(* Every reachable state satisfies the invariant. *)
LEMMA InvHolds == Spec => []Inv
BY InitInv, InvInductive, PTL DEF Spec

-----------------------------------------------------------------------------
(* Every goroutine stays at its places; stop is closed at most twice. *)
THEOREM TypeCorrect == Spec => []TypeOK
<1>1. Inv => TypeOK
  BY DEF Inv
<1> QED BY <1>1, InvHolds, PTL

(***************************************************************************)
(* The metrics are at most three runs old: one update may be with the      *)
(* exporter, one with dedupFilter and one with the poller, and no channel  *)
(* holds more.                                                             *)
(***************************************************************************)
THEOREM LagIsBounded == Spec => []BoundedLag
<1>1. Inv => BoundedLag
  <2> SUFFICES ASSUME Inv, ~printOnly
               PROVE  (Cycle + run - metrics) % Cycle <= 3
    BY DEF BoundedLag
  <2>1. /\ {run, dedupRun, thirdRun, metrics} \subseteq 0..(Cycle - 1)
        /\ thirdRun = metrics \/ thirdRun = After(metrics)
        /\ dedupRun = thirdRun \/ dedupRun = After(thirdRun)
        /\ run = dedupRun \/ run = After(dedupRun)
    BY DEF Inv, TypeOK, PipeInv
  <2> DEFINE Dist(m, n) == IF n >= m THEN n - m ELSE Cycle + n - m
             One(n) == IF n = Cycle - 1 THEN 0 ELSE n + 1
  <2>2. /\ thirdRun = metrics \/ thirdRun = One(metrics)
        /\ dedupRun = thirdRun \/ dedupRun = One(thirdRun)
        /\ run = dedupRun \/ run = One(dedupRun)
    BY <2>1, AfterValue
  <2>3. Dist(metrics, run) <= 3
    BY <2>1, <2>2, CycleAssumption
  <2> QED BY <2>1, <2>3, Distance
<1> QED BY <1>1, InvHolds, PTL

(* Updates reach the metrics in the order of the runs, none left out. *)
THEOREM MetricsInOrder == Spec => InOrder
<1>1. Inv /\ [Next]_vars => [metrics' # metrics => metrics' = (metrics + 1) % Cycle]_vars
  <2> SUFFICES ASSUME Inv, Next, metrics' # metrics
               PROVE  metrics' = (metrics + 1) % Cycle
    OBVIOUS
  <2>1. Digest
    BY DEF Next, Pipe, SelectTimer, SelectDone, Printer, Server, Cancel, ListenReturns, End,
           Evaluate, SendUpdate, Forward, DedupEnds, Adapt, ThirdEnds,
           PrintAndCancel, PrinterReturns, WatcherShutdown, WatcherStopped, Shutdown, ShutdownReturns,
           WatcherCloses, ListenerCloses, StartReturns, DeferredCancel, ProcessEnds, pipeVars
  <2> QED BY <2>1 DEF Digest, Inv, PipeInv, After
<1> QED BY <1>1, InvHolds, PTL DEF InOrder, Spec

(***************************************************************************)
(* A cancelled monitor loses no update: when the last goroutine of the     *)
(* pipeline has ended, the ones before it had ended with nothing in hand,  *)
(* so the metrics are those of the last run.                               *)
(***************************************************************************)
THEOREM NothingLeftBehind == Spec => []LastRunArrives
<1>1. Inv => LastRunArrives
  BY DEF Inv, PipeInv, UnwindInv, LastRunArrives
<1> QED BY <1>1, InvHolds, PTL

(***************************************************************************)
(* Start returns only after the server stopped listening: both ways to     *)
(* close the channel it waits for come after the server is down.           *)
(***************************************************************************)
THEOREM StartBlocksUntilStopped == Spec => []ReturnMeansStopped
<1>1. Inv => ReturnMeansStopped
  BY DEF Inv, ServerInv, TypeOK, ReturnMeansStopped
<1> QED BY <1>1, InvHolds, PTL
=============================================================================
