----------------------------- MODULE Evaluator -----------------------------
(***************************************************************************)
(* The evaluator of pkg/eval/eval.go: the object cache that one poll run   *)
(* fills while the analyzers query it, the per-namespace caches and merged *)
(* matchers that decide what is listed, the ownership index, and the       *)
(* cluster that changes meanwhile.                                         *)
(*                                                                         *)
(* A poll run (pkg/eval/poll.go, pkg/monitor/poll.go) is Reset, then one   *)
(* Eval per requested object (none for the monitor), with the queries of   *)
(* the analyzers in between, and ends when its update is sent.  The order  *)
(* of the queries is left open: it follows the shape of the cluster.       *)
(***************************************************************************)
EXTENDS Naturals, Sequences, FiniteSets, Matcher

CONSTANTS
    Obj,            \* UIDs of every object that ever exists
    Kind,           \* group-kinds the API server can list
    Namespaced,     \* the kinds whose objects live in a namespace
    Namespaces,     \* home namespaces; cluster-scoped objects have NamespaceNone
    NamespaceAll, NamespaceNone,
    KindOf, NsOf,   \* of every object
    NameOf,         \* metadata.name: Get reads by name, not by UID
    OwnersOf,       \* metadata.ownerReferences, as UIDs
    Requested,      \* the poller's objects, in command-line order
    Ignored,        \* Register.ignored
    Queries,        \* the queries the analyzers may make
    Related,        \* objects that analyzers read through EvalResource
    MaxChanges,     \* bound on the changes of the cluster in a behaviour
    NotCached       \* the cache has no entry

Version == Nat
AllNs == Namespaces \cup {NamespaceAll}
RequestedObjs == {Requested[i] : i \in DOMAIN Requested}

(***************************************************************************)
(* A query: its namespace and matcher, and how its Eval filters what the   *)
(* cache holds: by owner (OwnerQuerySpec) or by membership in sel, the     *)
(* objects its selector or reference picks (all of them: KindQuerySpec,    *)
(* none: a LabelQuerySpec whose selector could not be built).              *)
(***************************************************************************)
QuerySpec ==
    [ns : AllNs, gk : Matchers(Kind), by : {"owner"}, owner : Obj]
    \cup [ns : AllNs, gk : Matchers(Kind), by : {"sel"}, sel : SUBSET Obj]

ASSUME ConstantsAssumption ==
    /\ NamespaceNone \in Namespaces
    /\ NamespaceAll \notin Namespaces
    /\ Namespaced \subseteq Kind
    /\ KindOf \in [Obj -> Kind]
    /\ NsOf \in [Obj -> Namespaces]
    /\ \A o \in Obj : (NsOf[o] = NamespaceNone) <=> (KindOf[o] \notin Namespaced)
    /\ OwnersOf \in [Obj -> SUBSET Obj]
    /\ DOMAIN NameOf = Obj
    /\ Requested \in Seq(Obj)
    /\ Ignored \subseteq Kind
    /\ Related \subseteq Obj
    /\ MaxChanges \in Nat
    /\ NotCached \notin Version

(***************************************************************************)
(* The matchers of the queries: every query for everything leaves out the  *)
(* ignored kinds, and no other query asks for an ignored kind.             *)
(***************************************************************************)
ASSUME QueriesAssumption ==
    /\ Queries \subseteq QuerySpec
    /\ \A q \in Queries :
          \/ q.gk = AllExcept(Ignored)
          \/ q.gk = Included(q.gk.inc) /\ q.gk.inc \cap Ignored = {}

VARIABLES
    \* the cluster (external)
    cluster,        \* each UID: not created yet, there, or deleted for good
    version,        \* resourceVersion of each object
    changes,        \* how often the cluster changed
    \* Evaluator
    cache,          \* UID -> version of the cached copy, or NotCached
    objects,        \* nsCache[ns].objects, as the set of UIDs
    matcher,        \* nsCache[ns].matcher
    ownership,      \* pairs <<owner, child>>
    ownershipRefreshNs,
    analyzersCache, \* the UIDs findAnalyzer recorded
    \* the poller's run
    next,           \* 0 between runs, else the index of the next requested object
    \* history
    base,           \* version of each object when the run began
    steady,         \* objects there ever since the run began
    dead,           \* objects already deleted when the run began
    partial,        \* <<namespace, kind>> whose first cached object came from Eval
    failed          \* namespaces whose last list call failed in this run

clusterVars == <<cluster, version, changes>>
cacheVars == <<cache, objects, matcher, ownership, ownershipRefreshNs, analyzersCache>>
historyVars == <<base, steady, dead, partial, failed>>
vars == <<clusterVars, cacheVars, next, historyVars>>

-----------------------------------------------------------------------------
Alive == {o \in Obj : cluster[o] = "alive"}
Cached == {o \in Obj : cache[o] # NotCached}

(* The objects a list call for ns covers, and the kinds it asks the API for. *)
Scope(ns) == IF ns = NamespaceAll THEN Obj ELSE {o \in Obj : NsOf[o] = ns}

KindsIn(ns) ==
    CASE ns = NamespaceAll  -> Kind
      [] ns = NamespaceNone -> Kind \ Namespaced
      [] OTHER              -> Namespaced

(* gksLoaded: kinds with an object in the namespace's cache count as loaded. *)
LoadedKinds(ns) == {KindOf[o] : o \in objects[ns]}

(* A plausible slip: kinds loaded for any namespace are skipped for this one. *)
SkipsAnyLoaded(ns, m) ==
    {k \in KindsIn(ns) : Match(m, k) /\ \A o \in Cached : KindOf[o] # k}

(* compileGroupKindMatcher and filterResources: what Load really lists *)
ListedKinds(ns, m) == {k \in KindsIn(ns) \ LoadedKinds(ns) : Match(m, k)}

Listed(ns, m) == {o \in Alive \cap Scope(ns) : KindOf[o] \in ListedKinds(ns, m)}

(* updateCache for each object of a set none of which is cached *)
Inserted(home, new) ==
    [n \in AllNs |-> IF n = NamespaceAll THEN home[n]
                     ELSE home[n] \cup {o \in new : NsOf[o] = n}]

(* Evaluator.Filter: *all* stands for the union of the home namespaces. *)
Filter(ns, gk) ==
    {o \in IF ns = NamespaceAll THEN UNION {objects[n] : n \in Namespaces}
                                ELSE objects[ns] : Match(gk, KindOf[o])}

(* QuerySpec.Eval, on the cache as Load left it *)
Answer(q) ==
    {o \in Filter(q.ns, q.gk) :
        CASE q.by = "owner" -> <<q.owner, o>> \in ownership
          [] q.by = "sel"   -> o \in q.sel}

-----------------------------------------------------------------------------
Init ==
    /\ cluster \in [Obj -> {"unborn", "alive"}]
    /\ \A i \in DOMAIN Requested : cluster[Requested[i]] = "alive"
    /\ \A o, p \in Obj :
          /\ o # p /\ <<KindOf[o], NsOf[o], NameOf[o]>> = <<KindOf[p], NsOf[p], NameOf[p]>>
          /\ cluster[o] = "alive"
          => cluster[p] # "alive"
    /\ version = [o \in Obj |-> 0]
    /\ changes = 0
    /\ cache = [o \in Obj |-> NotCached]
    /\ objects = [n \in AllNs |-> {}]
    /\ matcher = [n \in AllNs |-> EmptyMatcher]
    /\ ownership = {}
    /\ ownershipRefreshNs = {}
    /\ analyzersCache = {}
    /\ next = 0
    /\ base = version
    /\ steady = {}
    /\ dead = {}
    /\ partial = {}
    /\ failed = {}

-----------------------------------------------------------------------------
(* The cluster: UIDs are never reused, at most one object has a given name. *)

Homonym(o, p) ==
    /\ KindOf[o] = KindOf[p]
    /\ NsOf[o] = NsOf[p]
    /\ NameOf[o] = NameOf[p]

Change == changes < MaxChanges /\ changes' = changes + 1

Create(o) ==
    /\ Change
    /\ cluster[o] = "unborn"
    /\ \A p \in Alive : ~Homonym(o, p)
    /\ cluster' = [cluster EXCEPT ![o] = "alive"]
    /\ UNCHANGED <<version, cacheVars, next, historyVars>>

Delete(o) ==
    /\ Change
    /\ cluster[o] = "alive"
    /\ cluster' = [cluster EXCEPT ![o] = "gone"]
    /\ steady' = steady \ {o}
    /\ UNCHANGED <<version, cacheVars, next, base, dead, partial, failed>>

Update(o) ==
    /\ Change
    /\ cluster[o] = "alive"
    /\ version' = [version EXCEPT ![o] = @ + 1]
    /\ UNCHANGED <<cluster, cacheVars, next, historyVars>>

-----------------------------------------------------------------------------
(* Evaluator.Reset *)

BeginHistory ==
    /\ base' = version
    /\ steady' = Alive
    /\ dead' = {o \in Obj : cluster[o] = "gone"}
    /\ partial' = {}
    /\ failed' = {}

(* A plausible slip: the namespace caches survive. *)
ClearUidCacheOnly ==
    /\ cache' = [o \in Obj |-> NotCached]
    /\ ownership' = {}
    /\ ownershipRefreshNs' = IF ownershipRefreshNs = {} THEN {} ELSE {NamespaceNone}
    /\ UNCHANGED <<objects, matcher, analyzersCache>>

(* A plausible slip: the ownership index survives. *)
ClearAllButOwnership ==
    /\ cache' = [o \in Obj |-> NotCached]
    /\ objects' = [n \in AllNs |-> {}]
    /\ matcher' = [n \in AllNs |-> EmptyMatcher]
    /\ ownershipRefreshNs' = IF ownershipRefreshNs = {} THEN {} ELSE {NamespaceNone}
    /\ UNCHANGED <<ownership, analyzersCache>>

(* A plausible slip: a run starts on the caches of the run before. *)
ClearNothing == UNCHANGED cacheVars

(***************************************************************************)
(* clear() of the slice ownershipRefreshNs overwrites its elements with    *)
(* the empty string, which is NamespaceNone; analyzersCache is not cleared.*)
(***************************************************************************)
ClearCaches ==
    /\ cache' = [o \in Obj |-> NotCached]
    /\ objects' = [n \in AllNs |-> {}]
    /\ matcher' = [n \in AllNs |-> EmptyMatcher]
    /\ ownership' = {}
    /\ ownershipRefreshNs' = IF ownershipRefreshNs = {} THEN {} ELSE {NamespaceNone}
    /\ UNCHANGED analyzersCache

Reset ==
    /\ next = 0
    /\ next' = 1
    /\ ClearCaches
    /\ BeginHistory
    /\ UNCHANGED clusterVars

(* Every requested object is evaluated and the update is sent. *)
EndRun ==
    /\ next > Len(Requested)
    /\ next' = 0
    /\ UNCHANGED <<clusterVars, cacheVars, historyVars>>

-----------------------------------------------------------------------------
(* Evaluator.Eval *)

(* What the API server returns for a read by the name of o. *)
Found(o) == {p \in Alive : Homonym(o, p)}

(***************************************************************************)
(* The copy that Eval analyses: the cached one, or the one just read; the  *)
(* object read may be another one that has the same name by now.           *)
(***************************************************************************)
Analysed(o) ==
    IF o \in Cached THEN {<<o, cache[o]>>} ELSE {<<p, version[p]>> : p \in Found(o)}

(* updateCache(obj): the requested copy goes to the cache, at version 0. *)
CacheRequested(o) ==
    /\ cache' = [cache EXCEPT ![o] = 0]
    /\ objects' = Inserted(objects, {o})
    /\ partial' = IF KindOf[o] \in LoadedKinds(NsOf[o]) THEN partial
                  ELSE partial \cup {<<NsOf[o], KindOf[o]>>}

EvalNext ==
    /\ next \in DOMAIN Requested
    /\ next' = next + 1

Eval ==
    /\ EvalNext
    /\ LET o == Requested[next] IN
       /\ analyzersCache' = analyzersCache \cup {o}
       /\ \/ /\ o \in Cached
             /\ UNCHANGED <<cache, objects, partial>>
          \/ /\ o \notin Cached
             /\ Found(o) # {}
             /\ CacheRequested(o)
          \/ \* loader.Get failed: the status is Unknown with the error
             /\ o \notin Cached
             /\ UNCHANGED <<cache, objects, partial>>
    /\ UNCHANGED <<clusterVars, matcher, ownership, ownershipRefreshNs,
                   base, steady, dead, failed>>

-----------------------------------------------------------------------------
(***************************************************************************)
(* Evaluator.Load: updateMatcher merges the query's matcher, a change      *)
(* makes loadNamespace list the namespace, and the query's own Eval picks  *)
(* its objects.  EvalQuery then analyses each of them.                     *)
(***************************************************************************)

Merged(q) == Merge(matcher[q.ns], q.gk)
NeedsLoad(q) == Changed(matcher[q.ns], q.gk)

(* loadNamespace: each listed object not cached yet goes to the caches. *)
AddToCaches(ns, new) ==
    /\ cache' = [o \in Obj |-> IF o \in new THEN version[o] ELSE cache[o]]
    /\ objects' = [n \in AllNs |-> IF n # NamespaceAll \/ ns # NamespaceAll
                                   THEN Inserted(objects, new)[n]
                                   ELSE objects[n] \cup new]

(* A plausible slip: the queried namespace is marked, not the objects' own. *)
QueriedNs(ns, new) == IF new = {} THEN {} ELSE {ns}

(* touchedNs: the home namespaces of the objects just loaded, never *all*. *)
TouchedNs(ns, new) == {NsOf[o] : o \in new}

(* refreshOwnership: the owner references in the marked namespaces *)
OwnerRefs(marked, objs) ==
    UNION {{<<w, o>> : w \in OwnersOf[o]} : o \in UNION {objs[n] : n \in marked}}

(* Label and reference queries name the analyzer for what they find; for    *)
(* owner queries and the monitor's kind queries findAnalyzer is asked.      *)
LookedUp(q) == q.by = "owner" \/ q.ns = NamespaceAll

(***************************************************************************)
(* The rest of Load once the namespaces in marked are due for an ownership *)
(* refresh: only OwnerQuerySpec.Eval (filterOwnedBy) performs it.          *)
(***************************************************************************)
EvalQuery(q, marked) ==
    /\ IF q.by = "owner"
       THEN /\ ownership' = ownership \cup OwnerRefs(marked, objects')
            /\ ownershipRefreshNs' = {}
       ELSE /\ ownership' = ownership
            /\ ownershipRefreshNs' = marked
    /\ analyzersCache' = analyzersCache \cup (IF LookedUp(q) THEN Answer(q)' ELSE {})
    /\ UNCHANGED <<clusterVars, next, base, steady, dead, partial>>

(* A plausible slip: a list call replaces the copies cached before it. *)
QueryReloads(q) ==
    /\ next # 0
    /\ NeedsLoad(q)
    /\ matcher' = [matcher EXCEPT ![q.ns] = Merged(q)]
    /\ failed' = failed \ {q.ns}
    /\ \E new \in {{o \in Alive \cap Scope(q.ns) : Match(Merged(q), KindOf[o])}} :
       /\ AddToCaches(q.ns, new)
       /\ EvalQuery(q, ownershipRefreshNs \cup TouchedNs(q.ns, new))

(* The matcher changed and every list call succeeded. *)
QueryLoaded(q) ==
    /\ next # 0
    /\ NeedsLoad(q)
    /\ matcher' = [matcher EXCEPT ![q.ns] = Merged(q)]
    /\ failed' = failed \ {q.ns}
    /\ \E new \in {Listed(q.ns, Merged(q)) \ Cached} :
       /\ AddToCaches(q.ns, new)
       /\ EvalQuery(q, ownershipRefreshNs \cup TouchedNs(q.ns, new))

(* The matcher changed and a list call failed: the error is dropped. *)
QueryLoadFailed(q) ==
    /\ next # 0
    /\ NeedsLoad(q)
    /\ ListedKinds(q.ns, Merged(q)) # {}
    /\ matcher' = [matcher EXCEPT ![q.ns] = Merged(q)]
    /\ failed' = failed \cup {q.ns}
    /\ UNCHANGED <<cache, objects>>
    /\ EvalQuery(q, ownershipRefreshNs)

(* The matcher did not change: the answer comes from the cache alone. *)
QueryCached(q) ==
    /\ next # 0
    /\ ~NeedsLoad(q)
    /\ UNCHANGED <<matcher, failed, cache, objects>>
    /\ EvalQuery(q, ownershipRefreshNs)

Query(q) == QueryLoaded(q) \/ QueryLoadFailed(q) \/ QueryCached(q)

(***************************************************************************)
(* EvalResource and EvalResourceWithSelector read from the API server, one *)
(* object by name or several by a list, and analyse what they read without *)
(* touching the caches.                                                    *)
(***************************************************************************)
EvalResource(objs) ==
    /\ next # 0
    /\ objs \subseteq Alive
    /\ analyzersCache' = analyzersCache \cup objs
    /\ UNCHANGED <<clusterVars, cache, objects, matcher, ownership,
                   ownershipRefreshNs, next, historyVars>>

-----------------------------------------------------------------------------
ClusterStep == \E o \in Obj : Create(o) \/ Delete(o) \/ Update(o)

EvaluatorStep ==
    \/ Reset
    \/ EndRun
    \/ Eval
    \/ \E q \in Queries : Query(q)
    \/ \E objs \in SUBSET Related : EvalResource(objs)

Next == ClusterStep \/ EvaluatorStep

Spec == Init /\ [][Next]_vars

-----------------------------------------------------------------------------
TypeOK ==
    /\ cluster \in [Obj -> {"unborn", "alive", "gone"}]
    /\ version \in [Obj -> Version]
    /\ changes \in 0..MaxChanges
    /\ cache \in [Obj -> Version \cup {NotCached}]
    /\ objects \in [AllNs -> SUBSET Obj]
    /\ matcher \in [AllNs -> Matchers(Kind)]
    /\ ownership \subseteq Obj \X Obj
    /\ ownershipRefreshNs \subseteq Namespaces
    /\ analyzersCache \subseteq Obj
    /\ next \in 0..(Len(Requested) + 1)
    /\ base \in [Obj -> Version]
    /\ steady \subseteq Obj
    /\ dead \subseteq Obj
    /\ partial \subseteq Namespaces \X Kind
    /\ failed \subseteq AllNs

(***************************************************************************)
(* The two indexes of the evaluator agree: the UID cache and the caches of *)
(* the home namespaces hold the same objects, and *all* holds none that    *)
(* they lack (updateCache, loadNamespace, Reset).                          *)
(***************************************************************************)
CachesAgree ==
    /\ \A n \in Namespaces : objects[n] = {o \in Cached : NsOf[o] = n}
    /\ objects[NamespaceAll] \subseteq Cached

(***************************************************************************)
(* filterOwnedBy never reports a stranger: whatever the ownership index    *)
(* says about a child is in the child's owner references, and the child is *)
(* cached in this run.                                                     *)
(***************************************************************************)
OwnershipSound ==
    \A e \in ownership : e[2] \in Cached /\ e[1] \in OwnersOf[e[2]]

(* What a complete answer to q has: the matching objects there all along. *)
Expected(q) ==
    {o \in steady \cap Scope(q.ns) :
        /\ Match(q.gk, KindOf[o])
        /\ CASE q.by = "owner" -> q.owner \in OwnersOf[o]
             [] q.by = "sel"   -> o \in q.sel}

(* The kinds of which Eval cached a requested object before they were listed. *)
FromEval == {o \in Obj : <<NsOf[o], KindOf[o]>> \in partial}

(***************************************************************************)
(* Load preloads "based on the GroupKindMatcher and Namespace" (query.go): *)
(* the answer of a query whose namespace has no failed list call has every *)
(* object that was there since the run began, whether this query listed    *)
(* the namespace or an earlier one did, in the namespace or in all of      *)
(* them.  The exception is what the next property is about: kinds of which *)
(* the run cached a requested object first.                                *)
(***************************************************************************)
AnswersComplete ==
    [][\A q \in Queries :
          Query(q) /\ q.ns \notin failed'
             => Expected(q)' \ FromEval' \subseteq Answer(q)']_vars

(***************************************************************************)
(* The same without the exception for requested objects: "the loader is    *)
(* already preloaded with the objects based on the GroupKindMatcher and    *)
(* Namespace" (query.go).                                                  *)
(***************************************************************************)
AnswersPreloaded ==
    [][\A q \in Queries :
          Query(q) /\ q.ns \notin failed'
             => Expected(q)' \subseteq Answer(q)']_vars

(* No query reports an object that was already deleted when the run began. *)
NoGhosts == Cached \cap dead \subseteq RequestedObjs

(***************************************************************************)
(* Nothing older than the run is in the cache, requested objects aside:    *)
(* Reset clears "the cache from previous run" (poll.go).                   *)
(***************************************************************************)
CacheFresh ==
    \A o \in Cached \ RequestedObjs : cache[o] >= base[o]
=============================================================================
