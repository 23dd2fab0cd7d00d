# kube-health: TLA+ specifications

kube-health reads Kubernetes objects and reports whether they are healthy. It is
two programs over one library: the command `kube-health`, which polls a few
objects named on its command line until they are ready, and
`kube-health-monitor`, which polls queries from a configuration file and exports
the results as Prometheus metrics. This directory has TLA+ models of their
caching, concurrency and analysis, TLC configurations that check them on small
instances, and TLAPS proofs of the central properties for all instances.

Every definition that models code is listed with its source lines in
`PROJECT.json` ("map"); the text below uses the code's names.

## 1. Inventory

| Component (source) | State | Operations | Correct when |
|---|---|---|---|
| **Evaluator** (`pkg/eval/eval.go`) | `cache` by UID, `nsCache` per namespace with objects and merged matcher, `ownership` index, `ownershipRefreshNs`, `analyzersCache` | `Reset`, `Eval`, `EvalQuery`, `EvalResource`, `Load`, `loadNamespace`, `refreshOwnership` | a query misses nothing, returns no stranger, nothing comes from an earlier run |
| **Queries and matchers** (`pkg/eval/query.go`) | the merged `GroupKindMatcher` | `Merge`, `Equal`, `Match`, one `Eval` per `QuerySpec` | the merged matcher asks for the union of what was asked; a load is skipped only if nothing is missing |
| **RealLoader, client** (`pkg/eval/realloader.go`) | during `listBulk`: a worker per resource, a results channel, a `WaitGroup`, the shared error | `listBulk`, `list` (pages), `get`, `listWithMatcher` | returns, never sends on a closed channel, whole resources only, error if and only if something is missing |
| **StatusPoller, PeriodicPrinter, waitFunction** (`pkg/eval/poll.go`, `pkg/print/periodic.go`, `cmd/health.go`) | poller goroutine, unbuffered channel, context, exit code | `run`, `Start`, `waitFunction`, `Exit` | the wait ends when it should, the exit code is about the cluster |
| **Monitor** (`cmd/monitor/monitor.go`, `pkg/monitor/poll.go`, `pkg/monitor/prom.go`) | poller -> `dedupFilter` -> `digestUpdates` or printer; metrics; HTTP server with two goroutines and a `stop` channel | `run`, `dedup`, `digestUpdates`, `Start`, `--print-only` | updates arrive, in order, soon; shutdown is clean; every object is reported at the top of its tree |
| **Status model, condition analyzers** (`pkg/status`, `pkg/analyze/common.go`, `analyze.go`) | none | `GenericConditionAnalyzer`, `AggregateResult` | the worst result wins |
| **Deployment, ReplicaSet, Pod analyzers** (`pkg/analyze/*.go`) | none; three reads of a changing cluster | `Analyze` | trouble in a pod reaches the top; a quiet cluster is reported as it is |
| **Generic, Node, Service, PVC analyzers** (`pkg/analyze/*.go`) | none; the call stack while they recurse | `Analyze`, recursion through owners and labels | a report is about its run, does not contradict itself, and lasting trouble below reaches the top |
| **OpenShift analyzers** (`pkg/analyze/redhat`) | the same | `Analyze`, recursion through `relatedObjects` and references | the same, and the recursion ends |
| **Tree printer** (`pkg/print/tree.go`) | none | `PrintStatuses`, `shouldPrintDetails`, `printSubTree` | trouble is printed whatever the options |
| **Monitor configuration** (`pkg/monitor/config.go`) | `Config.Targets` | `ReadConfig` | an unknown kind takes no other kind with it |
| Other printers, `khealth`, fake loader | none that matters | formatting, construction | not modelled |

Interaction: the pollers call `Reset` and then `Eval` or `EvalQuery`; these call
analyzers, which query the same evaluator again; the evaluator asks the loader
for whole kinds of a namespace, which `listBulk` fetches in parallel. Pollers
hand finished updates over unbuffered channels to the printer, or through
`dedupFilter` to the exporter. One context ends everything.

Hard behaviours: the cluster changes between any two API calls and objects are
recreated under their names; list calls fail; three caching shortcuts depend on
the history of queries; list workers, collector and caller synchronise over two
channels and a `WaitGroup`; the command cancels its own context while its poller
may already be due again; five goroutines of the monitor unwind in turn; an
analysis recurses through a changing cluster by dozens of API calls, some of them
past the caches, and along references that may be circular. Each is
listed at its line in `PROJECT.json` ("hazards") with the properties about it.

## 2. Modules

| Module | Models | Composes |
|---|---|---|
| `Matcher` | matchers as sets: `Match`, `Merge`, `Changed` | |
| `MatcherSlices` | matchers as the slices of the code, `updateMatcher` as its one action | shown to agree with `Matcher` (`RefinesSets`) |
| `MatcherSlicesProofs` | theorems | extends `MatcherSlices` |
| `Evaluator` | the evaluator, the poll run that drives it, and the cluster | extends `Matcher` |
| `EvaluatorProofs` | theorems | extends `Evaluator` |
| `BulkList` | what a caller may assume of `listBulk`: one atomic step | |
| `ListBulk` | `listBulk` with its goroutines | implements `BulkList` (`ImplementsBulkList`) |
| `ListBulkProofs` | theorems | extends `ListBulk` |
| `HealthCommand` | the command: poller, printer, `waitFunction`, exit | |
| `HealthCommandProofs` | theorems | extends `HealthCommand` |
| `MonitorCommand` | the monitor's goroutines, channels and shutdown | |
| `MonitorCommandProofs` | theorems | extends `MonitorCommand` |
| `MonitorReport` | what is in one of the monitor's updates: answers of the targets, `dedup`, metrics | |
| `MonitorReportProofs` | theorems | extends `MonitorReport` |
| `Conditions` | statuses, `GenericConditionAnalyzer`, `AggregateResult` | |
| `Workload` | the Pod, ReplicaSet and Deployment analyzers as functions | extends `Conditions` |
| `Rollout` | a Deployment analysed by three reads while user, controllers and kubelets work | extends `Workload` |
| `RolloutProofs` | theorems | extends `Rollout` |
| `Analyzers` | every analyzer as a function from contents and sub-statuses to a status; the register | extends `Workload` |
| `Analysis` | poll runs with the analyzers in place: their lookups, the call stack, the tree of statuses, what the tree printer shows of it | extends `Evaluator` and `Analyzers`; implements `Evaluator` (`ImplementsEvaluator`) |
| `AnalysisProofs` | theorems | extends `Analysis` and `EvaluatorProofs` |
| `MC*` | instances for TLC | |

**Evaluator.** `cache` maps UIDs to the cached version; `objects[ns]` and
`matcher[ns]` are the two fields of `nsCache`. `Query(q)` is all of `EvalQuery`,
with the three ways `Load` can go as disjuncts: the matcher did not change
(nothing is listed), the list succeeds, the list fails. `Eval` is the evaluation
of the next requested object. What an analyzer computes from an answer is not in
this module; which queries it makes next is left open, so every order is covered.
Objects have a UID, a name, a kind, a namespace, owners and a version; the
history variables `base`, `steady`, `dead`, `partial` and `failed` say what the
cluster was like when the run began and what the run did since.

**Analysis.** `stack` is the goroutine's stack of `Analyze` calls. A call keeps
the copy of the object it was given, the lookups it still has to make (`todo`, in
the order of the analyzer's code) and the objects of the last answer that are
still to be analysed (`kids`). Each API call is one action: `EvalRequested`,
`RunQuery` (one of the three ways of `Evaluator`'s `Query`), `RunRead` (a related
object read past the caches), `RunReadFails`. `AnalyzeNext` is the recursive call
of `analyzeObjects`, `Conclude` the return with `AggregateResult`. `ClusterChange`
may happen between any two of them. `nodes` has the finished statuses by their
path in the tree. A step of a path is an object and the lookup that led to it
(`Place`), so that an object which two lookups of one call find is in the tree
twice, as in `SubStatuses`; ReplicaSets scaled to 0 leave it (`Dropped`). `MaxDepth` is the
room on the stack: a call beyond it is the stack overflow with which the Go
runtime ends the process. `Truth` computes what the analyzers say of the cluster
itself, without stack or caches, as the reference for `QuietReportIsTruth`.

**ListBulk.** One action per communication or shared access: `Spawn` (`wg.Add`
and `go`), `Page`, `PageFails`, `SetErr` (the unlocked assignment), `Send` (the
rendezvous with the collector), `WgDone`, `CloseResults` (after `wg.Wait`),
`CollectorEnds`, `Return`.

**HealthCommand.** The poller is at `run`, `send`, `select` or `closed`, the
printer at `recv`, `print` or `returned`. A run evaluates the objects one after
the other, each in two steps: `EvalGet` takes the object from the cache or reads it,
`EvalDone` returns the status of its analyzer. The context may be done before
either. Before the first, the read fails and the status is Unknown
(`EvalGetFails`). Before the second, the lists of the analyzers that are still to
come fail, `Load` drops the error, and the analyzer makes what it can of what is
cached: any result, progressing or not (`EvalCut`). Objects that an earlier list of
the run brought are cached and need no read (`EvalLists`). A status carries how it
came about: `read`, `cut` or `failed`. An object that changes during a run (`torn`)
may be reported in any state, since an analysis is many reads; other failures of
the API server are among the healths. `PrintAndWait` is the whole callback:
printing, the exit code, and the call of `cancelFunc`. `select` with a due timer
and a done context may take either branch, as in Go.

**MonitorCommand and MonitorReport** split the monitor: the first numbers the
updates and follows them through the goroutines, the second follows the contents
of one update. `server.Shutdown` is two steps of `MonitorCommand`: it closes the
listeners (`Shutdown`), at which `ListenAndServe` returns, and it returns itself
once the requests under way are served (`ShutdownReturns`). `Init` of
`MonitorReport` chooses any acyclic sub-object relation and any set of kinds that
the API server knows when `ReadConfig` asks it. The targets of a run go through one
evaluator. `matcher` and `loaded` are the matcher and the kinds of the cache of all
namespaces, `cached` is what is cached anywhere. Each target lists the kinds merged
so far that no load has found (`Load`); when one of them fails, nothing is cached
and the target is answered from what is there (`LoadFails`). That is not an error:
`Evaluator.Load` returns none, so lines 86 to 88 of `pkg/monitor/poll.go` are never
reached. The kinds stay in the matcher, and the next target lists them again.
`Analyze` is the analysis of one object with all below it; each lookup of it may
miss any of its objects, because lists fail there too. A status has the object and
the relation that the lookups found (`subs`). The cluster changes between runs.

**Rollout.** The controllers and kubelets are external and follow Kubernetes:
a new revision gets a ReplicaSet, old ones are scaled down when the new pods are
ready, ended pods linger. `GetDeployment`, `ListReplicaSets` and `ListPods` are
the three API reads behind `DeploymentAnalyzer.Analyze`; a failed list gives an
empty one, because `Load` drops its error.

## 3. Runs

Passing runs:

| Run | Shows |
|---|---|
| `matcher_queries` | After any sequence of requests the merged matcher matches the union of what was asked (`MergeIsUnion`) and nothing else (`NothingExtra`); a load is skipped only if all that is asked was asked before (`SkipIsSound`), though `Equal` compares slices with duplicates; the sets of `Matcher` lose nothing (`RefinesSets`). |
| `analysis` | Runs of the command over a Node, a Service, a custom resource with its tree down to a pod, and a ClusterOperator that names itself, an ignored kind, another operator, a Subscription and all objects of a kind. Every status at every depth is of the run (`ReportFresh`); an object met twice is met in one version (`OneVersionPerObject`); a report made while nothing changes is what the analyzers define on the cluster, objects of the kinds that `Eval` cached aside (`QuietReportIsTruth`, `RequestedApart`); an Error that lasts makes the requested object an Error, whatever changes or fails meanwhile (`LastingTroubleReported`); every trouble is printed under every option (`TroubleShown`); each run ends unless operators name each other (`RunEnds`); the evaluator is used as its module assumes (`ImplementsEvaluator`). |
| `evaluator_library` | A program with an evaluator from `khealth` (the monitor and the command are special cases) over two namespaces and cluster-scoped objects, with a requested node and queries of one namespace, of all and by owner, in any order: UID cache and namespace caches agree (`CachesAgree`), the ownership index names only true children (`OwnershipSound`), no query misses an object (`AnswersComplete`). |
| `list_bulk` | `NoSendOnClosed`, `AllOrNothing`, `ErrorIffMissing`, `Terminates`, and the refinement of `BulkList`. |
| `command_wait` | Under every combination of wait flags: the exit code rests on objects that were each read, no failed read among them (`WaitedCodeIsRead`), and is one the flags wait for (`WaitHonoured`), although the cancelled poller may still send updates and set it again; a cancelled command ends (`CancelEnds`); a cluster that stays as awaited ends the wait (`SettledExits`). |
| `monitor_pipeline` | Updates reach the metrics in order (`InOrder`), each of them (`UpdatesArrive`), at most three runs late (`BoundedLag`); when all has unwound after a cancellation, the last run is in the metrics (`LastRunArrives`); `--print-only` ends (`PrintOnlyEnds`); when `Start` returned, the server accepts no more requests (`ReturnMeansStopped`). |
| `report_dedup` | Every object of a target whose own list was answered is exported or below an exported one, and is shown in its tree if no lookup found less the second time (`NothingHidden`, `Consistent`); no exported object is shown in another's tree (`NoNesting`); under a category are only objects of its targets' known kinds, and all of those whose list was answered and that are shown below nothing else (`CategoriesKept`). Lists of earlier targets may have failed. |
| `rollout` | A listed pod in trouble makes the Deployment an Error, whatever happened between the reads (`TroubleReachesTop`); a report made while nothing changed is right (`QuietReportRight`); an Ok Deployment is not progressing (`OkMeansDone`). |

Runs that show a disagreement between the code and its documentation:

| Run | Shows |
|---|---|
| `evaluator_preloaded` | `kube-health pod/p1 deployment/d`: evaluating the pod puts it in the namespace's cache, from then on Pods count as loaded, and the query for the deployment's pods finds `p1` only. `query.go` says that the loader is preloaded when a query is evaluated. |
| `command_once` | Without a wait flag the first update cancels the context; the poller's `select` may still take the timer, and the failed reads of that run replace the exit code. |
| `monitor_stop` | When `ListenAndServe` fails, its goroutine closes `stop`, `Start` returns, the deferred cancel wakes the other goroutine, and that closes `stop` again: a panic. |
| `rollout_to_zero` | A Deployment scaled to zero is Progressing for ever, so `-W` never returns: `allDone` needs a ReplicaSet that wants pods. |

Other places where the models follow the code against a comment or the expected
behaviour. No run is about them, but each shows in a definition or in the side
condition of a property:

- `Eval` reads the object again and caches the copy from the command line
  (`eval.go:167`); `CacheFresh` and `NoGhosts` therefore exempt requested objects,
  and `ReportFresh` exempts them where they are met below another object.
- Only an entry of `relatedObjects` with the operator's own name is skipped, and
  this whatever its kind (`adaptRelatedObjects`): an object of another kind with
  that name is never looked at, and two operators that name each other recurse
  until the stack overflows. `RunEnds` excepts that case (`MutualReference`).
- The analyzers of InstallPlan and ClusterServiceVersion are not registered: a
  Subscription uses them, but a plan that is requested or owned is analysed by
  `GenericAnalyzer`. A ClusterServiceVersion is Error or Unknown, never Ok
  (`CSVStatus`).
- A reference matches by UID or by name (`Referenced`), so that a recreated install
  plan and its predecessor may both be found; an entry of `relatedObjects` without a
  name stands for all objects of its kind (`Named`).
- The children of a cluster-scoped owner are looked for among cluster-scoped
  objects only, unless the analyzer names a namespace as the one of
  MultiClusterObservability does (`OwnerQuery`).
- A related object whose read fails is passed over without a trace
  (`RunReadFails`); `LastingTroubleReported` therefore speaks of objects for which
  no call failed.
- Related objects, and what has the name of a requested object, are read past the
  caches; `OneVersionPerObject` exempts them (`ReadDirectly`).
- `Load` drops the error of `loadNamespace` after storing the merged matcher
  (`eval.go:192`), so a failed list is neither reported nor repeated in the run;
  `AnswersComplete` therefore speaks of namespaces whose last list succeeded.
- For the same reason a target of the monitor whose list fails is a part of the
  update like any other, with objects missing. Its kinds stay in the merged matcher
  (`eval.go:349`), so that each later target lists them again and gets nothing new
  as long as one of them fails (`eval.go:225`): a kind that the monitor may not list
  empties all targets after its own, except for what was cached before.
  `NothingHidden` and `CategoriesKept` therefore speak of targets whose own list was
  answered, `failed` being the others.
- An object that is polled and also found below another one is dropped by `dedup`
  even if the lookups below it found less there than by itself; what they missed is
  then shown nowhere. `NothingHidden` excepts this (`Consistent`), and TLC refutes
  it without.
- With a wait flag, too, the exit code may come from a run after the cancellation
  if `Get` was done or not needed and only the lists fail (`eval.go:163`,
  `eval.go:192`, `EvalCut`): such a status may be Ok or Error and finish the wait
  again. `WaitedCodeIsRead` says how much is certain.
- `Start` may return while `Shutdown` still waits for requests under way, since
  `ListenAndServe` returns at once and its goroutine closes `stop`.
- `Reset` does not clear `analyzersCache`.
- `Merge` loses a kind that one matcher includes and the other, with
  `IncludeAll`, excludes; `QueriesAssumption` and `RequestsAssumption` rule it
  out, as do the queries in the code, unless a monitor
  target names an ignored kind. A matcher with both `IncludeAll` and
  `IncludedKinds`, which nothing constructs, matches the included kinds only.
- `Equal` compares lengths, so two exclude lists with the same kinds count as
  different when one repeats a kind. `Register.ignored` does repeat kinds
  (`clusteroperator.go:127` adds some that `common.go:19` has added), but every
  owner query comes with that one list, and a list merged with itself stays what
  it is. `RequestsAssumption` says just this; `RefinesSets` would not hold without.
- `listBulk` returns the last error, not the first as its comment says; the
  assignments also race (`SetErr`).
- Resources that do not resolve are left out and the exit code may be 0
  (`Init` of `HealthCommand`).
- `dedup` keeps an object that two targets match twice, once for each; with equal
  categories the two metrics have the same labels (`Digest`, where `from` tells
  them apart).
- `GenericConditionAnalyzer` gives `True` for a condition that is only in the
  progressing or unknown list the result Ok; the table in `docs/dev.md` says
  Unknown.
- A container that is not ready is an Error without the Progressing flag, also
  while it is created (`analyzeContainer`).
- `DeploymentAnalyzer` does not look at `observedGeneration`: right after an edit
  the old ReplicaSet still makes the Deployment Ok. `QuietReportRight` therefore
  says of an Ok that every ReplicaSet has its pods, not that the edit is rolled out.

### Bounds

- `MaxLen` (4; matchers): six kinds and every request the analyzers make, with
  exclude lists that overlap in pairs; four requests make duplicates in both lists.
- `MaxChanges` (1; `evaluator_library`): the number of runs and queries is not
  bounded, and four objects in three namespaces make room for every order of the
  five queries. Event is the kind in `Ignored`.
- `analysis`: sixteen objects, each kind of lookup at least once. `MaxChanges` 2,
  among `Changing`: a pod loses readiness and gets it back, an install plan fails,
  or is deleted and its successor (`Late`) created, an operator comes to name the
  one that names it. `MaxDepth` 4: the deepest tree (custom resource, Deployment,
  ReplicaSet, Pod) fits, and a recursion without end does not. `MaxLost` 1: one
  API call of each run may fail, any of them. The number of runs is not bounded.
- `Res`, `NPages`: three workers, so that two can fail and one succeed, one of
  them with a second page.
- `HealthCommand`: two objects, one of which may not resolve; four healths that
  cover each result and both values of progressing; one change, before or
  after any step, while runs are not bounded. A status that was cut short has any
  of the eight combinations.
- `Cycle` (5): run numbers are taken modulo 5. At most three updates are between
  poller and metrics, and five numbers tell all orders apart.
- `MonitorReport`: three objects of two kinds, all acyclic relations on them, three
  targets of two categories, any of their kinds unknown; a chain and a fork occur, and
  an object below two others. One target repeats the kinds of another, so that a list
  that failed is made up for, or not, by a later one.
- `Rollout`: `MaxGeneration` 2 (an edit, of template or replicas), `MaxReplicas` 1
  with zero included, `MaxMishaps` 1, two pods per ReplicaSet, so that an ended
  pod can linger beside its replacement. Pods are interchangeable (symmetry; no
  liveness is checked there).

`CHECK_DEADLOCK FALSE` stands where the system may stop: the programs exit,
`listBulk` returns, and the bounded clusters run out of changes.

### Fairness

A goroutine that can go on does (weak fairness for each of its steps, which the
Go scheduler gives it; in `Analysis` for `PollerStep`, the one goroutine). API calls are assumed to come back, with an answer or a
failure: the code sets no deadline of its own, so a call that hangs for ever is
outside the liveness properties. Go's
`select` picks among ready branches at random, so a `Done` branch that is ready
again and again is taken (strong fairness for `SelectDone`). Nothing is assumed
of the cluster, the user, or of which calls fail; `ListenAndServe` is only
assumed to return after `Shutdown`, and `Shutdown` itself not to return at all
(`ShutdownReturns`: a request under way may last). That a list brings other
requested objects (`EvalLists`) is not assumed either.

## 4. Proofs

All for arbitrary constants that meet the named assumptions.

**EvaluatorProofs** (from `ConstantsAssumption`: kinds, namespaces and owners are
what their types say and exactly the cluster-scoped kinds have no namespace;
`QueriesAssumption`: each query is for all but the ignored kinds, or for kinds of
which none is ignored).

- `TypeCorrect`: `Spec => []TypeOK`; in particular only home namespaces are ever
  marked in `ownershipRefreshNs`, although a query may be for all namespaces.
- `CachesAlwaysAgree`, `OwnershipAlwaysSound`, `AnswersAlwaysComplete`: from the
  inductive invariant `Inv`. Completeness is not inductive: a query may be
  answered from what earlier queries loaded. `Inv` adds `SteadyAlive` (objects
  there since the run began are there), `LoadedComplete` (a kind with an object
  in a namespace's cache is cached there in full, unless `Eval` cached it first),
  `MatchedComplete` (what the merged matcher of a namespace matches is cached,
  unless its list failed), `MatchersOK` (the matchers have the two
  forms on which `Merge` is a union) and `OwnershipIndexed` (what is cached
  is indexed, or its namespace is marked for a refresh). Each is the soundness of
  one of the three shortcuts of `Load`. The lemma `QueryEffect` states what a
  query does to the caches whichever way its load went; preservation is proved
  from it, one step per conjunct.
- `CacheAlwaysFresh`, `NeverGhosts`: from `FreshInv`, which adds that versions
  only grow and the dead stay dead. No run checks `CacheFresh` and `NoGhosts` by
  themselves: `ReportFresh` is what they are for.

**AnalysisProofs** (from the same, `AnalysisAssumption`: nothing is requested
twice, and `LookupsAssumption`: what an analyzer looks up is a finite list, and its
queries are in `Queries`).

- `AnalysisImplementsEvaluator`: each step of `AnalysisNext` is a step of
  `Evaluator` or leaves its variables alone. All the theorems above therefore hold
  of the evaluator under the analyzers.
- `ReportAlwaysFresh`, `ReportConsistent`: about what was *taken out* of the caches.
  The copies that a call holds were right when they were looked up; the cache, the
  cluster and the call stack have moved on since. The inductive invariant is
  `CallsSound` (every call on the stack and every object still to be analysed
  holds a copy that is fresh, and that is the cached one unless it was read past the
  caches) and `NodesSound` (the same of every finished status), on top of
  `EvaluatorFacts`. The step that needs care is a query: it may add to the caches
  but never replaces a copy, so what was sound before it stays sound.
- `AnalysisTypeCorrect`, `TroubleAlwaysShown`: about the tree. `TroubleShown` speaks
  of finished reports; the invariant `TreeInv` has to describe the tree while it is
  built under the stack of calls. `NodesOrdered`: no status is better than one below
  it. A call concludes from its direct sub-objects only, so the deeper ones need
  `NodesConnected` (above each status is its parent's, or a call under way, also
  after `Dropped` took sub-trees out), and nothing may be added below a status that
  is finished: `NodesDone` says that no call under way has a status yet, and that
  those below it are of lookups and sub-objects that the call is done with.
  `CallsProper` has what each analyzer may meet below it (`FoundBy`: a Subscription
  counts nothing but install plans and CSVs, so it must not have anything else).
  `StatusNoBetter` is the lemma about the analyzers: each returns a status, no better
  than that of any sub-object that it keeps. It needs no assumption on the contents
  of objects. `VersionsBounded` adds that no object has more versions than there were
  changes. Before the proof TLC checked `TreeInv` on the instance of `analysis`.
- `QuietReportTrue`, `LastingTroubleAlwaysReported`: about what is *not* missing. A
  report misses an object if any one of the lookups on the way to it did, and each
  of them ran at another time, against other caches. The invariant `FoundInv` has
  two halves. `CallsFound`: what a call has handled (still to be analysed, under
  analysis, or with a status) holds all that its lookups so far ought to have found.
  `NodesFound`: a finished status is that of its analyzer on the statuses right below
  it, and these are of all that its lookups ought to have found and the analyzer
  keeps. What a lookup ought to find (`Finds`) is what was there since the run began
  and for which no call failed. It is inductive because that can only become less
  during a run (`StepGoesOn`), because a query answers it (`AnswerHasAll`, the core
  of `AnswersAlwaysComplete`), and because a run that is quiet at its end was quiet
  all along (`CalmBefore`). In a quiet run nothing else is found either: `CacheHistory`
  says that only `Eval` caches an old copy, and `CalmAnswers` that the answers are
  then the cluster's own copies. Both theorems follow by induction over the depth:
  in `QuietStatus` a status equals the recursion of `Truth` if those below it do
  (`KeptOnly`: sub-objects that are taken out do not count), and by `SureFound` a
  sure sub-object of an object with a status has one too. From there an Error
  reaches the root by `ErrorStays` (sub-objects make no Error go away, Deployments
  aside) and `NodesOrdered`. `TruthValue` and `SureValue` show that the two recursions
  have the values that their definitions say.

  The proof showed that the premise of `QuietReportIsTruth` used to except too
  little: only clusters in which a kind that `Eval` caches has objects other than
  the requested ones. But a requested object that a query finds below another one is
  found as the command resolved it at its start, however old that copy is, and
  also after it was deleted. `RequestedApart` says what is excepted now: the
  requested objects are there, and no query ought to find an object of a kind
  that `Eval` cached.

**ListBulkProofs** (from `ResAssumption`: finitely many resources, each with a
page). `TypeCorrect`, `NeverSendsOnClosed`, `AlwaysAllOrNothing`,
`ErrorMeansMissing` and the refinement `Implementation`, from an `Inv` whose core
is that the `WaitGroup` counts the workers that were started and are not done
(`Counting`), so that the channel is closed only after all of them (`Closing`),
and what a worker has contributed at each of its places (`Contributions`).

**MatcherSlicesProofs** (from `RequestsAssumption`: a request has included kinds,
or includes all and has excluded ones; none includes what another excludes; the
exclude lists are one list, or repeat no kind). `MergedCoversAll`,
`MergedCoversNoMore`, `EarlyReturnIsSound` and the refinement `SlicesRefineSets`,
for lists of any length. The loop of `intersect2` is proved to be well defined
(`LoopExists`) and correct by an invariant of its rounds (`LoopInvariant`,
`Intersect`: the common elements, all of `b` only if `a` has them all, no
repetition that `b` does not have). `MergeUnion` is then `Merge`'s comment and
`EqualMerged` says what `Equal` finds in each of the four cases. The invariant of
the loads says that the matcher keeps one of the two forms, that it excludes
nothing a request includes, and `Listed`: its exclude list is *the* list or has no
repetition. Without `Listed`, the lengths that `Equal` compares would say nothing
about the kinds (`SameLength`).

**HealthCommandProofs.** `TypeCorrect`, `WaitedCodeOfReadObjects`,
`WaitIsHonoured`. The code of a deciding update can be overwritten by a later one
before the command returns, so the invariant speaks of every update under way:
`ReadingsInv` (each status in it was returned by an evaluation, and one that a failed
read gave is Unknown; nothing is known of one that was cut short) and `DecisionInv` (once the context is cancelled the exit code is that of
the last deciding update, which ends the wait; the command returns only after
that). `MaxCode` and `ExitCodeValue` are the lemmas on the code.

**MonitorCommandProofs.** `TypeCorrect`, `MetricsInOrder`, `LagIsBounded`,
`NothingLeftBehind`, `StartBlocksUntilStopped`. `PipeInv` gives each goroutine's update relative to the
next one's: the same run or the one after, by the place of both; order and lag are
read off it. `UnwindInv` adds that the goroutines close one after the other, each with
nothing left in its hands: with `PipeInv` it gives `NothingLeftBehind`. `ServerInv` relates the two server goroutines, the `stop` channel and
`Start`.

**MonitorReportProofs** (from `TargetsAssumption`: finitely many objects).
`DedupIsComplete`, `CategoriesAreKept`, `DedupHidesNothing`. The walk of
`subObjectsIDs` is taken level by level, as many levels as there are objects.
`ReachClosed` shows that these are enough (while the objects found are not closed
under the relation, the next level has a new one), `ReachLeast` that nothing more
is found, and `ShrinkAcyclic` that a cluster that loses objects stays acyclic.
`TopExists` is the reason why nothing is hidden: of the polled objects above a
dropped one, one with the largest set below it is itself below none of them.
`TopTreeExists` is the same for trees as the lookups found them, which differ from the cluster and from one status to the
next; it needs `Consistent`. `ReachShrinks`: lookups that miss objects show no object
that is not below. The invariant follows an update through its stages: what is
cached is in the cluster (`CacheInv`), what the target under analysis and each part
of the update have at least, when the list was answered, and at most (`AnswersInv`),
which of it `dedup` keeps (`KeptInv`), which metrics follow (`MetricsInv`). The step
that needs care is a list that succeeds after others had failed: it has to bring all
that the target wants and is not cached, although the kinds that count as loaded are
left out of it. `CacheInv` therefore says that all objects of a loaded kind are cached.

**RolloutProofs** (from `BoundsAssumption`). `TypeCorrect`, `TroubleIsReported`,
`OkIsDone`, `QuietReportIsRight`, for any number of pods, replicas and generations.
The lemmas on `AggregateResult` (the worst result wins, `Aggregate`,
`AggregateError`, `AggregateSame`) carry a container's status through Pod,
ReplicaSet and Deployment. `ClusterInv` is what the controllers maintain,
`ReportInv` what a report owes to the pods that were listed, `QuietInv` that the
three reads agree with the cluster as long as nothing changed.

Induction over data: the library's induction theorems are for operators, which
no prover here can instantiate, but `WFMin` (a non-empty subset of a well-founded
set has a minimal element) is for sets. `SetInduction` is derived from it, and with
it the loops of `intersect2` and `subObjectsIDs` are reasoned about round by round;
`DepthInduction` is the same for the levels of a status tree.

**Model-checked only:** liveness under fairness (`Terminates`, `CancelEnds`,
`SettledExits`, `PrintOnlyEnds`, `UpdatesArrive`, `RunEnds`), which is out of the
prover's reach. Every invariant and every other action property that a passing run
checks is a theorem. `TypeOK` of `MonitorCommand` is proved without a run of its own.

## 5. Not modelled

Layout (columns, tree prefixes, wrapping, colours, ages, sorting), the JSON and
YAML printer, the library's constructors and the test doubles: formatting and
construction without state or interleaving. Discovery, client set-up and log
download: I/O. Messages and log excerpts in statuses: no property is about them.
Malformed objects, for which an analyzer returns `UnknownStatusWithError`: the API
server does not hand them out for the kinds it validates.

Read while surveying, and left to the plan: `wrapLines` repeats characters when it
breaks a word that is longer than the first line, because `writeLine` shortens the
width by the prefix before `start` advances by it (`wrap.go:54`, `wrap.go:81`).

## 6. Plan

What exists is above; left are, in this order:

1. `HealthCommand` over `Analysis` in place of the healths and `EvalCut`: the exit
   code as a function of the cluster.
2. `wrapLines` as a function, checked against a reference that neither loses nor
   repeats a character.
