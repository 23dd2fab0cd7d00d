--------------------------- MODULE HealthCommand ---------------------------
(***************************************************************************)
(* The kube-health command: the StatusPoller goroutine (pkg/eval/poll.go)  *)
(* evaluates the requested objects at an interval and hands each update    *)
(* over an unbuffered channel to the PeriodicPrinter                       *)
(* (pkg/print/periodic.go) on the main goroutine, whose callback, the      *)
(* waitFunction of cmd/health.go, sets the exit code and cancels the       *)
(* context of the poller.                                                  *)
(***************************************************************************)
EXTENDS Integers, FiniteSets, FiniteSetsExt

CONSTANTS
    Requested,    \* resources named on the command line
    MayMiss,      \* those of them that may not resolve to an object
    FlagSets,     \* combinations of "forever", "progress", "ok" that are given
    Health,       \* [res, prog] pairs that objects go through
    MaxChanges    \* bound on the changes of the cluster

(* status.Result (pkg/status/status.go) *)
Unknown == 0
Ok == 1
Warning == 2
Error == 3

ASSUME CommandAssumption ==
    /\ MayMiss \subseteq Requested
    /\ FlagSets \subseteq SUBSET {"forever", "progress", "ok"}
    /\ Health \subseteq [res : Unknown..Error, prog : BOOLEAN]
    /\ MaxChanges \in Nat

VARIABLES
    flags,       \* wait flags of this invocation
    objects,     \* what the command line resolved to
    health,      \* state of each object in the cluster
    changes,
    poller,      \* "run", "send", "select", "closed" (the channel too)
    eval,        \* the object being evaluated, as a set of at most one
    cache,       \* objects the evaluator has cached in this run
    torn,        \* objects that changed during this run
    statuses,    \* statuses the current run has so far
    printer,     \* "recv", "print", "returned"
    update,      \* the update being printed
    cancelled,   \* the context is done
    exitCode,
    decided      \* history: the update the exit code was last computed from

clusterVars == <<health, changes, torn>>
commandVars == <<flags, objects>>
printerVars == <<printer, update, cancelled, exitCode, decided>>
vars == <<clusterVars, commandVars, poller, eval, cache, statuses, printerVars>>

(***************************************************************************)
(* A status has res, prog and how it came about: "read" with nothing       *)
(* missing, "cut" short by the cancellation with lists of the analyzers    *)
(* failing, or "failed" with the read of the object itself.  An update has *)
(* the statuses by object.  Other failures of the API server are a health  *)
(* of the object: Unknown, or what is left to see.                         *)
(***************************************************************************)
Ways == {"read", "cut", "failed"}

NoUpdate == [o \in {} |-> 0]

-----------------------------------------------------------------------------
(***************************************************************************)
(* runFunc: the error of Visit is not looked at, so a resource that cannot *)
(* be resolved is left out and the command goes on with the others.        *)
(***************************************************************************)
Init ==
    /\ flags \in FlagSets
    /\ \E missing \in SUBSET MayMiss : objects = Requested \ missing
    /\ health \in [Requested -> Health]
    /\ changes = 0
    /\ poller = "run"
    /\ eval = {}
    /\ cache = {}
    /\ torn = {}
    /\ statuses = NoUpdate
    /\ printer = "recv"
    /\ update = NoUpdate
    /\ cancelled = FALSE
    /\ exitCode = 0
    /\ decided = NoUpdate

(* The cluster (external) *)
Change(o) ==
    /\ changes < MaxChanges
    /\ changes' = changes + 1
    /\ \E h \in Health : h # health[o] /\ health' = [health EXCEPT ![o] = h]
    /\ torn' = IF poller = "run" THEN torn \cup {o} ELSE torn
    /\ UNCHANGED <<commandVars, poller, eval, cache, statuses, printerVars>>

-----------------------------------------------------------------------------
(* StatusPoller.run and Evaluator.Eval *)

(* The status of o is appended, and Eval of the next object is due. *)
Record(o, s) ==
    /\ statuses' = [p \in DOMAIN statuses \cup {o} |-> IF p = o THEN s ELSE statuses[p]]
    /\ eval' = {}
    /\ UNCHANGED <<commandVars, clusterVars, poller, printerVars>>

(* Eval(o) may start: it is o's turn. *)
Due(o) == poller = "run" /\ eval = {} /\ o \in objects \ DOMAIN statuses

(* The object is in the cache, or Get brings it. *)
EvalGet(o) ==
    /\ Due(o)
    /\ o \in cache \/ ~cancelled
    /\ eval' = {o}
    /\ cache' = cache \cup {o}
    /\ UNCHANGED <<commandVars, clusterVars, poller, statuses, printerVars>>

(* With the context cancelled Get fails: UnknownStatusWithError. *)
EvalGetFails(o) ==
    /\ Due(o)
    /\ o \notin cache /\ cancelled
    /\ Record(o, [res |-> Unknown, prog |-> FALSE, how |-> "failed"])
    /\ UNCHANGED cache

(* A list of the analyzers brings another requested object into the cache. *)
EvalLists ==
    /\ poller = "run" /\ eval # {} /\ ~cancelled
    /\ \E o \in objects \ cache : cache' = cache \cup {o}
    /\ UNCHANGED <<commandVars, clusterVars, poller, eval, statuses, printerVars>>

(***************************************************************************)
(* The analyzer has all it asked for: before the cancellation, or after it *)
(* when nothing was left to list.  What changed during the run may be seen *)
(* as it was, as it is or in between.                                      *)
(***************************************************************************)
EvalDone ==
    /\ poller = "run"
    /\ \E o \in eval : \E h \in IF o \in torn THEN Health ELSE {health[o]} :
           Record(o, [res |-> h.res, prog |-> h.prog, how |-> "read"])
    /\ UNCHANGED cache

(***************************************************************************)
(* The context was cancelled with lists still to come.  They fail, Load    *)
(* drops the error and the analyzer goes by what is cached: whatever the   *)
(* part it sees amounts to.                                                *)
(***************************************************************************)
EvalCut ==
    /\ poller = "run" /\ cancelled
    /\ \E o \in eval, r \in Unknown..Error, p \in BOOLEAN :
           Record(o, [res |-> r, prog |-> p, how |-> "cut"])
    /\ UNCHANGED cache

RunDone ==
    /\ poller = "run"
    /\ DOMAIN statuses = objects
    /\ poller' = "send"
    /\ UNCHANGED <<commandVars, clusterVars, eval, cache, statuses, printerVars>>

(* The send of run meets the receive of PeriodicPrinter.Start. *)
Send ==
    /\ poller = "send"
    /\ printer = "recv"
    /\ update' = statuses
    /\ printer' = "print"
    /\ poller' = "select"
    /\ statuses' = NoUpdate
    /\ UNCHANGED <<commandVars, clusterVars, eval, cache, cancelled, exitCode, decided>>

(* StatusPoller.Start: time.After, and run with its Reset *)
SelectTimer ==
    /\ poller = "select"
    /\ poller' = "run"
    /\ cache' = {}
    /\ torn' = {}
    /\ UNCHANGED <<commandVars, health, changes, eval, statuses, printerVars>>

(* A plausible slip: a run is due first in any case. *)
SelectNothing == cancelled /\ SelectTimer

(* StatusPoller.Start: ctx.Done, and the deferred close(eventChan) *)
SelectDone ==
    /\ poller = "select"
    /\ cancelled
    /\ poller' = "closed"
    /\ UNCHANGED <<commandVars, clusterVars, eval, cache, statuses, printerVars>>

-----------------------------------------------------------------------------
(* PeriodicPrinter.Start and its callback *)

(* A plausible slip: 8 is added for every progressing object. *)
ExitCodeAddsUp(u) ==
    LET Code(r) == CASE r = Unknown -> 3 [] r = Error -> 2 [] r = Warning -> 1 [] OTHER -> 0 IN
    Max({0} \cup {Code(u[o].res) : o \in DOMAIN u})
    + 8 * Cardinality({o \in DOMAIN u : u[o].prog})

(* setExitCode: the worst result, and the fourth bit when something progresses *)
ExitCode(u) ==
    LET Code(r) == CASE r = Unknown -> 3 [] r = Error -> 2 [] r = Warning -> 1 [] OTHER -> 0 IN
    Max({0} \cup {Code(u[o].res) : o \in DOMAIN u})
    + IF \E o \in DOMAIN u : u[o].prog THEN 8 ELSE 0

(* A plausible slip: only the progressing flag counts. *)
OnlyFlagged(u) == \E o \in DOMAIN u : u[o].prog

(* "Consider the unknown status as progressing as well." *)
Progressing(u) == \E o \in DOMAIN u : u[o].prog \/ u[o].res = Unknown

(* A plausible slip: no error is ready enough. *)
NoErrors(u) == \A o \in DOMAIN u : u[o].res # Error

AllOk(u) == \A o \in DOMAIN u : u[o].res = Ok

(* waitFunction: whether this update ends the wait; the first flag given wins *)
Finishes(u) ==
    CASE "forever" \in flags  -> FALSE
      [] "progress" \in flags /\ "forever" \notin flags -> ~Progressing(u)
      [] "ok" \in flags /\ flags \cap {"forever", "progress"} = {}
                              -> ~Progressing(u) /\ AllOk(u)
      [] OTHER                -> TRUE

(* A plausible slip: the exit code is set, cancelFunc is not called. *)
PrintAndGoOn ==
    /\ printer = "print"
    /\ printer' = "recv"
    /\ IF Finishes(update)
       THEN exitCode' = ExitCode(update) /\ decided' = update
       ELSE UNCHANGED <<exitCode, decided>>
    /\ update' = NoUpdate
    /\ UNCHANGED <<commandVars, clusterVars, poller, eval, cache, statuses, cancelled>>

(* The update is printed and the callback called with it. *)
PrintAndWait ==
    /\ printer = "print"
    /\ printer' = "recv"
    /\ IF Finishes(update)
       THEN /\ exitCode' = ExitCode(update)
            /\ decided' = update
            /\ cancelled' = TRUE
       ELSE UNCHANGED <<exitCode, decided, cancelled>>
    /\ update' = NoUpdate
    /\ UNCHANGED <<commandVars, clusterVars, poller, eval, cache, statuses>>

(* The range over the closed channel ends; Execute exits with exitCode. *)
Exit ==
    /\ printer = "recv"
    /\ poller = "closed"
    /\ printer' = "returned"
    /\ UNCHANGED <<commandVars, clusterVars, poller, eval, cache, statuses, update, cancelled,
                   exitCode, decided>>

-----------------------------------------------------------------------------
Run ==
    \/ \E o \in Requested : EvalGet(o) \/ EvalGetFails(o)
    \/ EvalDone \/ EvalCut \/ RunDone

Next ==
    \/ \E o \in Requested : Change(o)
    \/ Run \/ EvalLists \/ Send \/ SelectTimer \/ SelectDone
    \/ PrintAndWait \/ Exit

(***************************************************************************)
(* Both goroutines run when they can and the timer fires.  A select with   *)
(* several ready cases picks one at random, so ctx.Done cannot lose to the *)
(* timer for ever: strong fairness.                                        *)
(***************************************************************************)
Fairness ==
    /\ WF_vars(Run)
    /\ WF_vars(Send)
    /\ WF_vars(SelectTimer)
    /\ SF_vars(SelectDone)
    /\ WF_vars(PrintAndWait)
    /\ WF_vars(Exit)

Spec == Init /\ [][Next]_vars /\ Fairness

-----------------------------------------------------------------------------
TypeOK ==
    /\ flags \in FlagSets
    /\ objects \subseteq Requested
    /\ health \in [Requested -> Health]
    /\ changes \in 0..MaxChanges
    /\ poller \in {"run", "send", "select", "closed"}
    /\ eval \subseteq objects
    /\ cache \subseteq objects
    /\ torn \subseteq Requested
    /\ DOMAIN statuses \subseteq objects
    /\ printer \in {"recv", "print", "returned"}
    /\ DOMAIN update \subseteq objects
    /\ cancelled \in BOOLEAN
    /\ exitCode \in 0..11
    /\ DOMAIN decided \subseteq objects

(***************************************************************************)
(* "3 - some resources in Unknown state" and the other exit codes of the   *)
(* README: the code comes from statuses that were read from the cluster,   *)
(* never from reads that failed because the command itself had cancelled   *)
(* the context after an earlier update.                                    *)
(***************************************************************************)
ExitCodeIsReal ==
    printer = "returned" => \A o \in DOMAIN decided : decided[o].how = "read"

(***************************************************************************)
(* With a wait flag each object was at least read itself: a read that      *)
(* fails counts as progressing, and an update with one leaves the exit     *)
(* code alone.  A status cut short below its object does not count as      *)
(* progressing by force and may decide the exit code once more.            *)
(***************************************************************************)
WaitedCodeIsRead ==
    flags # {} /\ printer = "returned" =>
        \A o \in DOMAIN decided : decided[o].how # "failed"

(***************************************************************************)
(* The README on the wait flags: -W waits "while there are some objects    *)
(* still progressing", -R "until all the objects are in OK state".  The    *)
(* exit code still says so at the end, whatever the updates after the      *)
(* deciding one were.                                                      *)
(***************************************************************************)
WaitHonoured ==
    printer = "returned" =>
        /\ "forever" \notin flags
        /\ "progress" \in flags => exitCode \in 0..2
        /\ flags = {"ok"} => exitCode = 0

(***************************************************************************)
(* Once cancelled, poller and printer both come to an end: the poller is   *)
(* not left blocked on a send nobody receives.                             *)
(***************************************************************************)
CancelEnds == cancelled ~> printer = "returned"

(***************************************************************************)
(* Waiting ends when there is nothing left to wait for: when from some     *)
(* time on the cluster meets the condition of the flags, the command exits.*)
(***************************************************************************)
SettledExits ==
    (<>[](Finishes([o \in objects |-> health[o]]))) => <>(printer = "returned")
=============================================================================
