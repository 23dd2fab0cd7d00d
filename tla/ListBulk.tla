----------------------------- MODULE ListBulk -----------------------------
(***************************************************************************)
(* client.listBulk and client.list of pkg/eval/realloader.go: one          *)
(* goroutine per resource fetches its pages and hands them to a collector  *)
(* goroutine over an unbuffered channel; the caller waits for the workers, *)
(* closes the channel, waits for the collector and returns.                *)
(***************************************************************************)
EXTENDS Naturals, FiniteSets

CONSTANTS Res,      \* the resources to list; listBulk returns early without any
          NPages,   \* how many pages the API server has for each of them
          NoErr

ASSUME ResAssumption ==
    /\ IsFiniteSet(Res)
    /\ Res # {}
    /\ NPages \in [Res -> Nat \ {0}]
    /\ NoErr \notin Res

VARIABLES
    main,        \* the caller: "spawn", "wait", "drain", "returned"
    toSpawn,     \* resources the loop has not reached
    wg,          \* the WaitGroup's counter
    worker,      \* each worker: "none", "list", "send", "fail", "exit", "done"
    got,         \* pages in the worker's local slice
    chan,        \* resultsChan: "open" or "closed"
    collector,   \* "recv", or "done" once it has closed doneChan
    out,         \* pages of each resource in the result
    errResult    \* resource named by the error, shared without a lock

vars == <<main, toSpawn, wg, worker, got, chan, collector, out, errResult>>

Init ==
    /\ main = "spawn"
    /\ toSpawn = Res
    /\ wg = 0
    /\ worker = [r \in Res |-> "none"]
    /\ got = [r \in Res |-> 0]
    /\ chan = "open"
    /\ collector = "recv"
    /\ out = [r \in Res |-> 0]
    /\ errResult = NoErr

-----------------------------------------------------------------------------
(* A plausible slip: wg.Add inside the goroutine, after the go statement. *)
SpawnThenAdd(r) ==
    /\ main = "spawn"
    /\ r \in toSpawn
    /\ toSpawn' = toSpawn \ {r}
    /\ worker' = [worker EXCEPT ![r] = "list"]
    /\ UNCHANGED <<main, wg, got, chan, collector, out, errResult>>

(* wg.Add(1), then the go statement *)
Spawn(r) ==
    /\ main = "spawn"
    /\ r \in toSpawn
    /\ toSpawn' = toSpawn \ {r}
    /\ wg' = wg + 1
    /\ worker' = [worker EXCEPT ![r] = "list"]
    /\ UNCHANGED <<main, got, chan, collector, out, errResult>>

SpawnedAll ==
    /\ main = "spawn"
    /\ toSpawn = {}
    /\ main' = "wait"
    /\ UNCHANGED <<toSpawn, wg, worker, got, chan, collector, out, errResult>>

(* A plausible slip: the continue token is not looked at. *)
FirstPageOnly(r) ==
    /\ worker[r] = "list"
    /\ got' = [got EXCEPT ![r] = @ + 1]
    /\ worker' = [worker EXCEPT ![r] = "send"]
    /\ UNCHANGED <<main, toSpawn, wg, chan, collector, out, errResult>>

(* One List call of client.list: the last page has no continue token. *)
Page(r) ==
    /\ worker[r] = "list"
    /\ got' = [got EXCEPT ![r] = @ + 1]
    /\ worker' = [worker EXCEPT ![r] = IF got[r] + 1 = NPages[r] THEN "send" ELSE "list"]
    /\ UNCHANGED <<main, toSpawn, wg, chan, collector, out, errResult>>

(* A plausible slip: the pages fetched before the failure are passed on. *)
PageFailsKeepsPages(r) ==
    /\ worker[r] = "list"
    /\ worker' = [worker EXCEPT ![r] = "send"]
    /\ UNCHANGED <<main, toSpawn, wg, got, chan, collector, out, errResult>>

(* A List call fails (or the context is cancelled): list returns no pages. *)
PageFails(r) ==
    /\ worker[r] = "list"
    /\ got' = [got EXCEPT ![r] = 0]
    /\ worker' = [worker EXCEPT ![r] = "fail"]
    /\ UNCHANGED <<main, toSpawn, wg, chan, collector, out, errResult>>

(* errResult is assigned by every failing worker; the last one stays. *)
SetErr(r) ==
    /\ worker[r] = "fail"
    /\ errResult' = r
    /\ worker' = [worker EXCEPT ![r] = "exit"]
    /\ UNCHANGED <<main, toSpawn, wg, got, chan, collector, out>>

(* The unbuffered send meets the collector's receive. *)
Send(r) ==
    /\ worker[r] = "send"
    /\ chan = "open"
    /\ collector = "recv"
    /\ out' = [out EXCEPT ![r] = @ + got[r]]
    /\ worker' = [worker EXCEPT ![r] = "exit"]
    /\ UNCHANGED <<main, toSpawn, wg, got, chan, collector, errResult>>

(* A plausible slip: no deferred wg.Done after a failure. *)
DoneUnlessFailed(r) ==
    /\ worker[r] = "exit"
    /\ worker' = [worker EXCEPT ![r] = "done"]
    /\ wg' = IF got[r] = 0 THEN wg ELSE wg - 1
    /\ UNCHANGED <<main, toSpawn, got, chan, collector, out, errResult>>

(* The deferred wg.Done *)
WgDone(r) ==
    /\ worker[r] = "exit"
    /\ worker' = [worker EXCEPT ![r] = "done"]
    /\ wg' = wg - 1
    /\ UNCHANGED <<main, toSpawn, got, chan, collector, out, errResult>>

(* wg.Wait returns, close(resultsChan) *)
CloseResults ==
    /\ main = "wait"
    /\ wg = 0
    /\ chan' = "closed"
    /\ main' = "drain"
    /\ UNCHANGED <<toSpawn, wg, worker, got, collector, out, errResult>>

(* The range over the closed channel ends, close(doneChan) *)
CollectorEnds ==
    /\ collector = "recv"
    /\ chan = "closed"
    /\ collector' = "done"
    /\ UNCHANGED <<main, toSpawn, wg, worker, got, chan, out, errResult>>

(* <-doneChan, and out and errResult are returned *)
Return ==
    /\ main = "drain"
    /\ collector = "done"
    /\ main' = "returned"
    /\ UNCHANGED <<toSpawn, wg, worker, got, chan, collector, out, errResult>>

Worker(r) == Page(r) \/ PageFails(r) \/ SetErr(r) \/ Send(r) \/ WgDone(r)
Caller == (\E r \in Res : Spawn(r)) \/ SpawnedAll \/ CloseResults \/ Return

Next == Caller \/ CollectorEnds \/ \E r \in Res : Worker(r)

(***************************************************************************)
(* Goroutines that can run do run, and the API server answers every        *)
(* request, if only with an error.                                         *)
(***************************************************************************)
Fairness ==
    /\ WF_vars(Caller)
    /\ WF_vars(CollectorEnds)
    /\ \A r \in Res : WF_vars(Worker(r))

Spec == Init /\ [][Next]_vars /\ Fairness

-----------------------------------------------------------------------------
TypeOK ==
    /\ main \in {"spawn", "wait", "drain", "returned"}
    /\ toSpawn \subseteq Res
    /\ wg \in Nat
    /\ worker \in [Res -> {"none", "list", "send", "fail", "exit", "done"}]
    /\ got \in [Res -> Nat]
    /\ chan \in {"open", "closed"}
    /\ collector \in {"recv", "done"}
    /\ out \in [Res -> Nat]
    /\ errResult \in Res \cup {NoErr}

(***************************************************************************)
(* The channel is closed only when no worker can send on it any more: a    *)
(* send on a closed channel would panic (wg.Wait before close).            *)
(***************************************************************************)
NoSendOnClosed ==
    chan = "closed" => \A r \in Res : worker[r] = "done"

(***************************************************************************)
(* A resource is in the result in full or not at all, at every moment: a   *)
(* failure on a later page discards the earlier ones (list returns nil).   *)
(***************************************************************************)
AllOrNothing == \A r \in Res : out[r] \in {0, NPages[r]}

(***************************************************************************)
(* "If any of the resources fails to load, we return an error": at the     *)
(* return, an error is set exactly when some resource is missing from the  *)
(* result, and it names a resource that is missing.                        *)
(***************************************************************************)
ErrorIffMissing ==
    main = "returned" =>
        /\ errResult # NoErr => out[errResult] = 0
        /\ errResult = NoErr => out = NPages

(* Everything listBulk shows its caller is what BulkList allows. *)
Abstract == INSTANCE BulkList WITH
    done <- main = "returned",
    result <- IF main = "returned" THEN out ELSE [r \in Res |-> 0],
    err <- IF main = "returned" THEN errResult ELSE NoErr
ImplementsBulkList == Abstract!Spec

(* The call always comes back: no worker, collector or caller waits forever. *)
Terminates == <>(main = "returned")
=============================================================================
