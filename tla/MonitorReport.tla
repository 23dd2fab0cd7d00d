--------------------------- MODULE MonitorReport ---------------------------
(***************************************************************************)
(* What one update of kube-health-monitor holds on its way to Prometheus:  *)
(* ReadConfig keeps the kinds that the API server knows                    *)
(* (pkg/monitor/config.go), MonitorPoller.run evaluates the targets one    *)
(* after the other (pkg/monitor/poll.go) through one evaluator and its     *)
(* cache (pkg/eval/eval.go), dedup drops what is shown below something     *)
(* else (cmd/monitor/monitor.go), digestUpdates turns the rest into        *)
(* metrics (pkg/monitor/prom.go).  The cluster is external.                *)
(*                                                                         *)
(* A list that fails is not an error of the target: Load drops the error   *)
(* and answers with what is cached.  The kinds stay in the merged matcher, *)
(* so the lists of the later targets have them too.                        *)
(***************************************************************************)
EXTENDS Naturals, FiniteSets, Sequences

CONSTANTS Objects,    \* object UIDs
          Kinds,      \* GroupKinds
          KindOf,     \* the kind of each object
          Targets     \* the configuration file: a sequence of [category, kinds]

ASSUME TargetsAssumption ==
    /\ IsFiniteSet(Objects)
    /\ KindOf \in [Objects -> Kinds]
    /\ Targets \in Seq([category : STRING, kinds : SUBSET Kinds])

VARIABLES
    alive,     \* objects in the cluster
    below,     \* below[o]: what the lookups of o's analyzer are for
    known,     \* the kinds that the API server knew when the monitor started
    cfg,       \* Config.Targets, what is left of Targets
    matcher,   \* nsCache[NamespaceAll].matcher: the kinds merged so far
    loaded,    \* the keys of nsCache[NamespaceAll].objects
    cached,    \* Evaluator.cache
    todo,      \* objects of the current target still to be analysed
    part,      \* its statuses so far
    failed,    \* history: the targets whose list failed
    statuses,  \* the poller's update: by target the ObjectStatuses, in an order
               \* that is not observed
    kept,      \* the update after dedup
    stage,     \* "load", "analyze", "dedup", "digest", "serve"
    metrics    \* metricSet.metrics

cluster == <<alive, below, known, cfg>>
evaluator == <<matcher, loaded, cached>>
vars == <<cluster, evaluator, todo, part, failed, statuses, kept, stage, metrics>>

(* An analyzer never ends on a cyclic relation, so none is considered. *)
Reach(o, rel) ==
    LET level[n \in 0 .. Cardinality(Objects)] ==
            IF n = 0 THEN rel[o] ELSE UNION {rel[p] : p \in level[n - 1]}
    IN  UNION {level[n] : n \in 0 .. Cardinality(Objects)}

Acyclic(rel) == \A o \in Objects : o \notin Reach(o, rel)

(* A plausible slip: an unknown kind ends its target. *)
WholeTargets(kinds) ==
    [i \in DOMAIN Targets |->
        [Targets[i] EXCEPT !.kinds = IF @ \subseteq kinds THEN @ ELSE {}]]

(* ReadConfig: kinds that the RESTMapper does not know are logged and left out. *)
ReadConfig(kinds) == [i \in DOMAIN Targets |-> [Targets[i] EXCEPT !.kinds = @ \cap kinds]]

Init ==
    /\ known \in SUBSET UNION {Targets[i].kinds : i \in DOMAIN Targets}
    /\ cfg = ReadConfig(known)
    /\ alive \in SUBSET Objects
    /\ below \in {rel \in [Objects -> SUBSET Objects] : Acyclic(rel)}
    /\ \A o \in Objects : below[o] \subseteq alive /\ (o \in alive \/ below[o] = {})
    /\ matcher = {} /\ loaded = {} /\ cached = {}
    /\ todo = {} /\ part = {}
    /\ failed = {}
    /\ statuses = <<>>
    /\ kept = <<>>
    /\ stage = "load"
    /\ metrics = {}

-----------------------------------------------------------------------------
(* MonitorPoller.run: one target after the other *)

Target == Len(statuses) + 1
Wanted == cfg[Target].kinds

(* KindQuerySpec.Eval: Filter of all namespaces. *)
Filter(objs) == {o \in objs : KindOf[o] \in Wanted}

(***************************************************************************)
(* Merge appends the kinds of the target, so updateMatcher reports a       *)
(* change when there are any, and loadNamespace lists all kinds merged so  *)
(* far but those that an earlier load found objects of.                    *)
(***************************************************************************)
Listed == IF Wanted = {} THEN {} ELSE (matcher \cup Wanted) \ loaded

(* Evaluator.Load, with the error of loadNamespace dropped. *)
Query(fresh) ==
    /\ stage = "load" /\ Target <= Len(cfg)
    /\ matcher' = matcher \cup Wanted
    /\ cached' = cached \cup fresh
    /\ loaded' = loaded \cup {KindOf[o] : o \in fresh}
    /\ todo' = Filter(cached \cup fresh)
    /\ stage' = "analyze"
    /\ UNCHANGED <<cluster, part, statuses, kept, metrics>>

Load ==
    /\ Query({o \in alive \ cached : KindOf[o] \in Listed})
    /\ UNCHANGED failed

(* One of the listed kinds is refused, or the server does not answer: no object of any. *)
LoadFails ==
    /\ Query({})
    /\ Listed # {}
    /\ failed' = failed \cup {Target}

(* What the analyzers look up for o and for all they find below it: pairs of an object *)
(* and one that is to be shown below it.                                               *)
Lookups(o) ==
    {e \in Objects \X Objects : e[1] \in {o} \cup Reach(o, below) /\ e[2] \in below[e[1]]}

(***************************************************************************)
(* The analyzer of one object, and those of what it looks up.  Any lookup  *)
(* may miss objects, when its list fails; what the lookups bring is        *)
(* cached, with other objects of the namespace.                            *)
(***************************************************************************)
Analyze ==
    /\ stage = "analyze"
    /\ \E o \in todo : \E hits \in SUBSET Lookups(o), others \in SUBSET alive :
          LET found == [p \in Objects |-> {q \in below[p] : <<p, q>> \in hits}] IN
          /\ todo' = todo \ {o}
          /\ part' = part \cup {[object |-> o, subs |-> found]}
          /\ cached' = cached \cup Reach(o, found) \cup others
    /\ UNCHANGED <<cluster, matcher, loaded, failed, statuses, kept, stage, metrics>>

TargetDone ==
    /\ stage = "analyze" /\ todo = {}
    /\ statuses' = Append(statuses, part)
    /\ part' = {}
    /\ stage' = "load"
    /\ UNCHANGED <<cluster, evaluator, todo, failed, kept, metrics>>

PollEnds ==
    /\ stage = "load" /\ Target > Len(cfg)
    /\ stage' = "dedup"
    /\ UNCHANGED <<cluster, evaluator, todo, part, failed, statuses, kept, metrics>>

-----------------------------------------------------------------------------
(* dedup *)

(* Plausible slips: the direct sub-objects only; the object with them. *)
DirectOnly(s) == s.subs[s.object]
WithItself(s) == {s.object} \cup Reach(s.object, s.subs)

(* Level by level, until a level is empty. *)
subObjectsIDs(s) == Reach(s.object, s.subs)

All(update) == UNION {update[i] : i \in DOMAIN update}

Seen == UNION {subObjectsIDs(s) : s \in All(statuses)}

Dedup ==
    /\ stage = "dedup"
    /\ kept' = [i \in DOMAIN statuses |-> {s \in statuses[i] : s.object \notin Seen}]
    /\ stage' = "digest"
    /\ UNCHANGED <<cluster, evaluator, todo, part, failed, statuses, metrics>>

-----------------------------------------------------------------------------
(* digestUpdates *)

(* Kind, name and namespace are the object's identity; the result is left out. *)
statusToMetric(category, s) == [object |-> s.object, category |-> category]

(* The slice, each metric with the part that it is from: two targets of one category *)
(* may have the same object, which gives two metrics with the same labels.           *)
Digest ==
    /\ stage = "digest"
    /\ metrics' = UNION {{[from |-> i, labels |-> statusToMetric(cfg[i].category, s)] :
                             s \in kept[i]} : i \in DOMAIN kept}
    /\ stage' = "serve"
    /\ UNCHANGED <<cluster, evaluator, todo, part, failed, statuses, kept>>

(* The next run: Reset, an empty update, and whatever the cluster has become. *)
NextRun ==
    /\ stage = "serve"
    /\ alive' \in SUBSET alive
    /\ below' = [o \in Objects |-> IF o \in alive' THEN below[o] \cap alive' ELSE {}]
    /\ matcher' = {} /\ loaded' = {} /\ cached' = {}
    /\ failed' = {}
    /\ statuses' = <<>>
    /\ kept' = <<>>
    /\ stage' = "load"
    /\ UNCHANGED <<known, cfg, todo, part, metrics>>

Next == Load \/ LoadFails \/ Analyze \/ TargetDone \/ PollEnds \/ Dedup \/ Digest \/ NextRun

Spec == Init /\ [][Next]_vars

-----------------------------------------------------------------------------
Categories == {Targets[i].category : i \in DOMAIN Targets}

Exported == {m.labels.object : m \in metrics}

(* The objects that target i of the configuration file is about: those of    *)
(* its kinds, but the ones the API server did not know.                      *)
Meant(i) == {o \in alive : KindOf[o] \in Targets[i].kinds \cap known}

(* What the targets are about whose own list was answered. *)
Polled == UNION {Meant(i) : i \in DOMAIN Targets \ failed}

(* All that is shown below the object of a status; what that is in the poller's update. *)
Shown(s) == Reach(s.object, s.subs)
Hidden == UNION {Shown(s) : s \in All(statuses)}

(* No lookup found less where dedup relies on it: an object that is polled, *)
(* and is also found below another one, has there what it has by itself.    *)
Consistent ==
    \A s, t \in All(statuses) :
        s.object \in Shown(t) => Shown(s) \subseteq Shown(t)

(* Dropping what is shown below something else loses nothing.  However the  *)
(* targets overlap, and whatever lists failed before, every object of a     *)
(* target whose own list was answered is exported, or is below an exported  *)
(* one; and it is shown there, unless some lookup found less the second     *)
(* time it was made.                                                        *)
NothingHidden ==
    stage = "serve" =>
        /\ \A o \in Polled : o \in Exported \/ \E p \in Exported : o \in Reach(p, below)
        /\ Consistent =>
              \A o \in Polled : o \in Exported \/ \E s \in All(kept) : o \in Shown(s)

(* dedup is complete, whatever failed: no exported object is shown below    *)
(* another, so what is wrong deep in a tree has no metric beside that of    *)
(* the top.                                                                 *)
NoNesting ==
    stage = "serve" =>
        \A o \in Exported : \A s \in All(kept) : o \notin Shown(s)

(* What is exported under a category is of a known kind of a target of that *)
(* category.  A target whose own list was answered has all its objects      *)
(* there that are below nothing else, also when the lists of the targets    *)
(* before it had failed or some of its kinds are unknown.                   *)
CategoriesKept ==
    stage = "serve" =>
        \A c \in Categories :
            LET of(ts) == (UNION {Meant(i) : i \in {j \in ts : Targets[j].category = c}}) \ Hidden
                mine == {m.labels.object : m \in {x \in metrics : x.labels.category = c}}
            IN  of(DOMAIN Targets \ failed) \subseteq mine /\ mine \subseteq of(DOMAIN Targets)
=============================================================================
