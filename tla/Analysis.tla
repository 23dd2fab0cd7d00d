------------------------------ MODULE Analysis ------------------------------
(***************************************************************************)
(* Poll runs of the command with the analyzers in place: the evaluator of  *)
(* module Evaluator driven by the recursion of pkg/analyze.  Analyzing an  *)
(* object looks up its sub-objects, by queries through the caches or by    *)
(* reads past them, and analyses each of them before the next lookup.  The *)
(* call stack of the poller's goroutine is a variable; between any two API *)
(* calls the cluster may change.  The finished statuses make the tree that *)
(* TreePrinter prints.                                                     *)
(***************************************************************************)
EXTENDS Evaluator, Analyzers

CONSTANTS
    ContentOf,      \* what each version of each object holds
    mcoNs,          \* the namespace of the MultiClusterObservability stack
    Late,           \* objects that need not be there from the start
    Changing,       \* the objects the cluster creates, deletes and updates
    MaxDepth,       \* calls of Analyze that the goroutine's stack can hold
    MaxLost         \* bound on the API calls that fail in a run

VARIABLES
    stack,          \* the calls of Analyze under way
    nodes,          \* the ObjectStatuses finished in this run
    lost            \* history: namespaces and objects a call failed for in this run

avars == <<vars, stack, nodes, lost>>

Content(o, v) == ContentOf[o][v]

(* No object is requested twice. *)
ASSUME AnalysisAssumption ==
    /\ MaxDepth \in Nat
    /\ Late \subseteq Obj /\ Changing \subseteq Obj
    /\ mcoNs \in Namespaces
    /\ \A i, j \in DOMAIN Requested : i # j => Requested[i] # Requested[j]

-----------------------------------------------------------------------------
(* What an analyzer looks up, in the order of its code *)

ByQuery(q, a) == [how |-> "query", q |-> q, with |-> a]

(* GenericOwnerQuerySpec; the analyzers of what it finds come from the register. *)
OwnerQuery(o, ns) ==
    ByQuery([ns |-> ns, gk |-> AllExcept(Ignored), by |-> "owner", owner |-> o], "register")

(* LabelQuerySpec and RefQuerySpec, for the analyzer's own choice of analyzer *)
SelQuery(o, kind, sel) ==
    ByQuery([ns |-> NsOf[o], gk |-> Included({kind}), by |-> "sel", sel |-> sel], kind)

(* RefQuerySpec.Eval: a reference finds by UID or by name. *)
Referenced(ref) == {p \in Obj : p = ref.uid \/ NameOf[p] = ref.name}

InstallPlanQueries(o, c) ==
    [i \in DOMAIN c.installPlanRef |-> SelQuery(o, "InstallPlan", Referenced(c.installPlanRef[i]))]

CSVQueries(o, c) ==
    [i \in DOMAIN c.currentCSV |->
        SelQuery(o, "ClusterServiceVersion", {p \in Obj : NameOf[p] = c.currentCSV[i]})]

(* A plausible slip: an operator that names itself is followed. *)
EveryRelated(o, c) == c.relatedObjects

(* Entries with the name of the operator are skipped, whatever their kind. *)
adaptRelatedObjects(o, c) == SelectSeq(c.relatedObjects, LAMBDA e : e.name # NameOf[o])

RelatedReads(o, c) ==
    LET entries == SelectSeq(adaptRelatedObjects(o, c), LAMBDA e : e.kind \notin Ignored)
    IN  [i \in DOMAIN entries |-> [how |-> "read", entry |-> entries[i]]]

LookupsOf(a, o, c) ==
    CASE a = "Generic"                   -> <<OwnerQuery(o, NsOf[o])>>
      [] a = "MultiClusterObservability" -> <<OwnerQuery(o, mcoNs)>>
      [] a = "Deployment"                -> <<SelQuery(o, "ReplicaSet", c.selected)>>
      [] a \in {"ReplicaSet", "Service"} -> <<SelQuery(o, "Pod", c.selected)>>
      [] a = "Subscription"              -> InstallPlanQueries(o, c) \o CSVQueries(o, c)
      [] a = "ClusterOperator"           -> RelatedReads(o, c)
      [] OTHER                           -> <<>>

Lookups(a, o, v) == LET ls == LookupsOf(a, o, Content(o, v)) IN {ls[i] : i \in DOMAIN ls}

(* Only the Subscription's analyzer chooses one that the register does not have. *)
AnalyzersOf(o) ==
    {findAnalyzer(KindOf[o])} \cup ({KindOf[o]} \cap {"InstallPlan", "ClusterServiceVersion"})

IsList(s) == s \in Seq({s[i] : i \in DOMAIN s})

(* Analyzers look up a list of things, by queries that are among Queries. *)
ASSUME LookupsAssumption ==
    \A o \in Obj, v \in 0..MaxChanges :
        /\ \A a \in AnalyzersOf(o) :
              /\ IsList(LookupsOf(a, o, Content(o, v)))
              /\ \A l \in Lookups(a, o, v) : l.how = "query" => l.q \in Queries
        /\ KindOf[o] = "Subscription" =>
              IsList(Content(o, v).installPlanRef) /\ IsList(Content(o, v).currentCSV)

-----------------------------------------------------------------------------
(* Calls and returns *)

Call(a, o, v) ==
    [with |-> a, obj |-> o, version |-> v, kids |-> {}, todo |-> LookupsOf(a, o, Content(o, v))]

(* A call that a lookup still has to make: analyzer, object and its copy. *)
Kid(a, o, v) == [with |-> a, obj |-> o, version |-> v]

Node(path, a, v, s) == [path |-> path, with |-> a, version |-> v, status |-> s]

Top == stack[Len(stack)]

(* Where call i stands among those of the call above it: the lookup that led *)
(* to it, by the number of lookups that come after it, and the object.       *)
Place(i) == <<IF i = 1 THEN next ELSE Len(stack[i - 1].todo), stack[i].obj>>
Path == [i \in DOMAIN stack |-> Place(i)]

(* The Go runtime ends the process. *)
Overflow == Len(stack) > MaxDepth

Running == stack # <<>> /\ ~Overflow
Asking == Running /\ Top.kids = {} /\ Top.todo # <<>>

Answered(kids) ==
    stack' = [stack EXCEPT ![Len(stack)].todo = Tail(@), ![Len(stack)].kids = kids]

MayLose == Cardinality(lost) < MaxLost

-----------------------------------------------------------------------------
AnalysisInit ==
    /\ Init
    /\ Obj \ Late \subseteq Alive
    /\ stack = <<>>
    /\ nodes = {}
    /\ lost = {}

(* A plausible slip: an idle evaluator is not reset. *)
BeginRunAsIs ==
    /\ next = 0
    /\ next' = 1
    /\ nodes' = {}
    /\ lost' = {}
    /\ BeginHistory
    /\ UNCHANGED <<clusterVars, cacheVars, stack>>

(* StatusPoller.run *)
BeginRun ==
    /\ Reset
    /\ nodes' = {}
    /\ lost' = {}
    /\ UNCHANGED stack

SendUpdate ==
    /\ stack = <<>>
    /\ EndRun
    /\ UNCHANGED <<stack, nodes, lost>>

(* Evaluator.Eval of the next requested object, up to the call of Analyze *)
EvalRequested ==
    /\ stack = <<>>
    /\ Eval
    /\ LET o == Requested[next] IN
       \/ /\ o \in Cached'
          /\ \E c \in Analysed(o) : stack' = <<Call(findAnalyzer(KindOf[o]), c[1], c[2])>>
          /\ UNCHANGED <<nodes, lost>>
       \/ \* UnknownStatusWithError
          /\ o \notin Cached'
          /\ Found(o) = {} \/ MayLose
          /\ nodes' = nodes \cup {Node(<< <<next', o>> >>, "none", NotCached, Status(Unknown))}
          /\ lost' = lost \cup {o}
          /\ UNCHANGED stack

(* Evaluator.EvalQuery, up to the analysis of what it found *)
Answers(l) ==
    {Kid(IF l.with = "register" THEN findAnalyzer(KindOf[o]) ELSE l.with, o, cache[o]) :
        o \in Answer(l.q)}

RunQuery ==
    /\ Asking
    /\ \E l \in {Head(Top.todo)} :
       /\ l.how = "query"
       /\ l.q \in Queries
       /\ \/ /\ QueryLoaded(l.q) \/ QueryCached(l.q)
             /\ UNCHANGED lost
          \/ /\ QueryLoadFailed(l.q)
             /\ MayLose
             /\ lost' = lost \cup {l.q.ns}
       /\ Answered(Answers(l)')
    /\ UNCHANGED nodes

(* LoadResource: by name, or all objects of a kind when the entry has no name *)
Named(e) ==
    {p \in Related : /\ KindOf[p] = e.kind
                     /\ IF e.name = "" THEN e.ns \in {NamespaceNone, NsOf[p]}
                        ELSE e.name = NameOf[p] /\ e.ns = NsOf[p]}

RunRead ==
    /\ Asking
    /\ Head(Top.todo).how = "read"
    /\ LET e    == Head(Top.todo).entry
           objs == Named(e) \cap Alive
       IN  /\ objs # {} \/ e.name = ""
           /\ EvalResource(objs)
           /\ Answered({Kid(findAnalyzer(KindOf[p]), p, version[p]) : p \in objs})
    /\ UNCHANGED <<nodes, lost>>

(* A plausible slip: the first failure ends evaluateRelatedObjects. *)
ReadFailureEnds ==
    /\ Asking
    /\ Head(Top.todo).how = "read"
    /\ LET e == Head(Top.todo).entry IN
       /\ (e.name # "" /\ Named(e) \cap Alive = {}) \/ MayLose
       /\ lost' = lost \cup (Named(e) \cap Alive)
    /\ stack' = [stack EXCEPT ![Len(stack)].todo = <<>>]
    /\ UNCHANGED <<vars, nodes>>

(* evaluateRelatedObjects goes on with the next object. *)
RunReadFails ==
    /\ Asking
    /\ Head(Top.todo).how = "read"
    /\ LET e == Head(Top.todo).entry IN
       /\ (e.name # "" /\ Named(e) \cap Alive = {}) \/ MayLose
       /\ lost' = lost \cup (Named(e) \cap Alive)
    /\ Answered({})
    /\ UNCHANGED <<vars, nodes>>

(* analyzeObjects: the objects of an answer, in whichever order they are in *)
AnalyzeNext ==
    /\ Running
    /\ \E k \in Top.kids :
          stack' = Append([stack EXCEPT ![Len(stack)].kids = @ \ {k}], Call(k.with, k.obj, k.version))
    /\ UNCHANGED <<vars, nodes, lost>>

(* The nodes below the top call; those of its direct sub-objects *)
Below == {n \in nodes : Len(n.path) > Len(stack) /\ SubSeq(n.path, 1, Len(stack)) = Path}
Subs == {n \in Below : Len(n.path) = Len(stack) + 1}

ObjectOf(n) == n.path[Len(n.path)][2]
Sub(n) == [with |-> n.with, content |-> Content(ObjectOf(n), n.version), status |-> n.status]

(* The nodes of sub-objects that the analyzer takes out, with all below them *)
Dropped ==
    LET out == {n \in Subs : ~Kept(Top.with, Sub(n))}
    IN  {n \in Below : \E m \in out : SubSeq(n.path, 1, Len(m.path)) = m.path}

Conclude ==
    /\ Running
    /\ Top.kids = {} /\ Top.todo = <<>>
    /\ nodes' = (nodes \ Dropped) \cup
                  {Node(Path, Top.with, Top.version,
                        StatusOf(Top.with, Content(Top.obj, Top.version), {Sub(n) : n \in Subs}))}
    /\ stack' = SubSeq(stack, 1, Len(stack) - 1)
    /\ UNCHANGED <<vars, lost>>

-----------------------------------------------------------------------------
ClusterChange ==
    /\ \E o \in Changing : Create(o) \/ Delete(o) \/ Update(o)
    /\ UNCHANGED <<stack, nodes, lost>>

PollerStep ==
    \/ BeginRun
    \/ EvalRequested
    \/ RunQuery
    \/ RunRead
    \/ RunReadFails
    \/ AnalyzeNext
    \/ Conclude
    \/ SendUpdate

AnalysisNext == ClusterChange \/ PollerStep

(* The poller's goroutine goes on, and every API call comes back. *)
AnalysisSpec == AnalysisInit /\ [][AnalysisNext]_avars /\ WF_avars(PollerStep)

-----------------------------------------------------------------------------
(* TreePrinter, on the nodes of a finished run *)

PrintOptions == [errorsOnly : BOOLEAN, showOk : BOOLEAN]

(* A plausible slip: only the result is looked at. *)
PrintDetailsByResult(opts, s) == s.result > Ok \/ (opts.showOk /\ ~opts.errorsOnly)

shouldPrintDetails(opts, s) ==
    \/ s.result > Ok
    \/ s.progressing
    \/ opts.showOk /\ ~opts.errorsOnly

(* PrintStatuses: with ErrorsOnly the trees that are fine are left out. *)
PrintsTree(opts, s) == ~(opts.errorsOnly /\ s.result = Ok /\ ~s.progressing)

(* printSubTree: a node is printed when its tree is and every node above it  *)
(* prints its details.                                                       *)
Printed(opts, n) ==
    \A m \in nodes :
        /\ m.path = <<n.path[1]>> => PrintsTree(opts, m.status)
        /\ Len(m.path) < Len(n.path) /\ SubSeq(n.path, 1, Len(m.path)) = m.path
           => shouldPrintDetails(opts, m.status)

-----------------------------------------------------------------------------
Copy == [with : Analyzer, obj : Obj, version : 0..MaxChanges]

(* The types of the call stack and of the finished statuses. *)
AnalysisTypeOK ==
    /\ \A i \in DOMAIN stack :
          /\ Kid(stack[i].with, stack[i].obj, stack[i].version) \in Copy
          /\ stack[i].kids \subseteq Copy
          /\ \A j \in DOMAIN stack[i].todo :
                stack[i].todo[j].how = "query" => stack[i].todo[j].q \in Queries
    /\ \A n \in nodes : n.path \in Seq(Nat \X Obj) /\ n.status \in Statuses
    /\ lost \subseteq AllNs \cup Obj

(* Every requested object is evaluated and the update is about to be sent. *)
Reported == stack = <<>> /\ next > Len(Requested)

(***************************************************************************)
(* The report is about the run: no status in it, at any depth, is of an    *)
(* object deleted before the run began or of a version replaced before it  *)
(* began (Reset, "clear the cache from previous run").  Requested objects  *)
(* met below another one are the exception, see CacheRequested.            *)
(***************************************************************************)
ReportFresh ==
    \A n \in nodes :
        \/ n.version = NotCached
        \/ Len(n.path) > 1 /\ ObjectOf(n) \in RequestedObjs
        \/ ObjectOf(n) \notin dead /\ n.version >= base[ObjectOf(n)]

(* The objects that a run may read without caching what it reads *)
ReadDirectly == Related \cup {p \in Obj : \E o \in RequestedObjs : Homonym(o, p)}

(***************************************************************************)
(* The report does not contradict itself: an object that several trees of  *)
(* a run contain is in all of them in one version, however the cluster     *)
(* changes meanwhile, because the caches never replace a copy              *)
(* (updateCache).  Objects read past the caches are the exception: related *)
(* objects and what has the name of a requested object.                    *)
(***************************************************************************)
OneVersionPerObject ==
    \A n, m \in nodes :
        ObjectOf(n) = ObjectOf(m) /\ ObjectOf(n) \notin ReadDirectly
            => n.version = m.version

(* What lookup l ought to find: objects that were there ever since the run began. *)
Wanted(l) ==
    IF l.how = "query"
    THEN {Kid(IF l.with = "register" THEN findAnalyzer(KindOf[o]) ELSE l.with, o, version[o]) :
             o \in Expected(l.q)}
    ELSE {Kid(findAnalyzer(KindOf[o]), o, version[o]) : o \in Named(l.entry) \cap steady}

(* What a call of Analyze on copy k ought to find *)
WantedBy(k) == UNION {Wanted(l) : l \in Lookups(k.with, k.obj, k.version)}

(* The status of a copy by the definition of its analyzer, without any cache *)
Truth ==
    LET truth[d \in 0..MaxDepth] ==
            [k \in Copy |->
                StatusOf(k.with, Content(k.obj, k.version),
                    IF d = 0 THEN {}
                    ELSE {[with |-> c.with, content |-> Content(c.obj, c.version),
                           status |-> truth[d - 1][c]] : c \in WantedBy(k)})]
    IN  truth[MaxDepth]

(* Nothing changed and no call failed since the run began. *)
Quiet ==
    /\ version = base
    /\ Alive = steady
    /\ {o \in Obj : cluster[o] = "gone"} = dead
    /\ lost = {}

(* Eval caches a requested object as the command found it, and its kind is   *)
(* not listed then: the requested objects are there, and no query is for one *)
(* of their kinds (FromEval).                                                *)
RequestedApart ==
    /\ RequestedObjs \subseteq steady
    /\ \A q \in Queries : Expected(q) \cap FromEval = {}

(***************************************************************************)
(* A report made while nothing changes is the one that the analyzers       *)
(* define on the cluster itself: queries in three namespaces, matchers     *)
(* that grow, kinds that count as loaded, an ownership index refreshed on  *)
(* demand and copies left from earlier runs make no difference.  What Eval *)
(* cached before the queries is the exception (RequestedApart).            *)
(***************************************************************************)
QuietReportIsTruth ==
    Reported /\ Quiet /\ RequestedApart
        => \A n \in nodes :
              Len(n.path) = 1 =>
                 n.status = Truth[Kid(n.with, ObjectOf(n), n.version)]

(* The versions an object had since the run began *)
Held(o) == base[o] .. version[o]

(* Sub-objects that a call of analyzer a on o finds, whenever it is made in the run *)
SureKids(a, o) ==
    {k \in UNION {Wanted(l) : l \in Lookups(a, o, version[o])} :
        /\ k.obj \notin FromEval \cup RequestedObjs \cup lost
        /\ \A v \in Held(o) : \E l \in Lookups(a, o, v) :
              /\ k \in Wanted(l)
              /\ l.how = "query" => l.q.ns \notin lost
        /\ \A v \in Held(k.obj) : Kept(a, [content |-> Content(k.obj, v)])}

SureBelow(k) ==
    LET below[d \in 0..MaxDepth] ==
            IF d = 0 THEN {k}
            ELSE below[d - 1] \cup UNION {SureKids(c.with, c.obj) : c \in below[d - 1]}
    IN  below[MaxDepth]

(* Its own conditions make it an Error, in every version since the run began. *)
Ill(k) ==
    /\ k.with # "Deployment"
    /\ \A v \in Held(k.obj) : StatusOf(k.with, Content(k.obj, v), {}).result = Error

(***************************************************************************)
(* Trouble that lasts is reported: an object that is in Error throughout   *)
(* the run, and that the lookups lead to whenever they are made, makes the *)
(* requested object an Error, whatever else changes in between, and        *)
(* although the lookups of other objects fail and are passed over.         *)
(***************************************************************************)
LastingTroubleReported ==
    Reported => \A n \in nodes :
        LET k == Kid(n.with, ObjectOf(n), n.version) IN
        /\ Len(n.path) = 1 /\ ObjectOf(n) \in steady \ lost
        /\ \E c \in SureBelow(k) : Ill(c)
        => n.status.result = Error

(***************************************************************************)
(* Trouble in the report is seen: whatever the print options, every status *)
(* worse than Ok or progressing is printed, because every tree above it is *)
(* at least as bad and prints its details.                                 *)
(***************************************************************************)
TroubleShown ==
    Reported => \A n \in nodes, opts \in PrintOptions :
        n.status.result > Ok \/ n.status.progressing => Printed(opts, n)

(* Two different objects are analysed within each other. *)
MutualReference ==
    \E i, j, k \in DOMAIN stack :
        i < j /\ j < k /\ stack[i].obj = stack[k].obj /\ stack[i].obj # stack[j].obj

(***************************************************************************)
(* Every run ends with an update, unless two objects name each other: the  *)
(* recursion through relatedObjects ends although operators name           *)
(* themselves ("some clusteroperators references themselves").             *)
(***************************************************************************)
RunEnds == next # 0 ~> next = 0 \/ MutualReference

(***************************************************************************)
(* The analyzers use the evaluator as module Evaluator assumes: what holds *)
(* there for every order of queries holds here.                            *)
(***************************************************************************)
ImplementsEvaluator == Spec
=============================================================================
