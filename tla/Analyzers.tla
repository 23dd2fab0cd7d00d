----------------------------- MODULE Analyzers -----------------------------
(***************************************************************************)
(* The analyzers of pkg/analyze and pkg/analyze/redhat as functions from   *)
(* the contents of an object and the statuses of its sub-objects to a      *)
(* status, and the register that chooses among them by kind.  Which        *)
(* sub-objects an analyzer looks up is in module Analysis.                 *)
(***************************************************************************)
EXTENDS Workload, Sequences

Registered ==
    {"Deployment", "ReplicaSet", "Pod", "Service", "Node", "PersistentVolumeClaim",
     "ClusterOperator", "MultiClusterObservability", "Route", "Subscription"}

(* AlwaysGreenAnalyzer, with the kinds given to it here and in olm.go *)
AlwaysGreen == {"Namespace", "OperatorGroup"}

(***************************************************************************)
(* InstallPlan and ClusterServiceVersion have analyzers, but these are not *)
(* in the register: only the Subscription's analyzer calls them.           *)
(***************************************************************************)
Analyzer == Registered \cup {"AlwaysGreen", "Generic", "InstallPlan", "ClusterServiceVersion"}

findAnalyzer(kind) ==
    IF kind \in Registered THEN kind
    ELSE IF kind \in AlwaysGreen THEN "AlwaysGreen"
    ELSE "Generic"

-----------------------------------------------------------------------------
NoMatchers ==
    [conditions |-> {}, reversed |-> {}, progressing |-> {}, warning |-> {}, unknown |-> {}]

subscriptionConditionsAnalyzer ==
    [NoMatchers EXCEPT !.reversed = {"CatalogSourcesUnhealthy", "ResolutionFailed"}]

clusteroperatorConditionsAnalyzer ==
    [NoMatchers EXCEPT !.conditions = {"Available"}, !.reversed = {"Degraded"}]

insightsConditionsAnalyzer ==
    [NoMatchers EXCEPT !.reversed = {"ClusterTransferAvailable"},
                       !.warning = {"RemoteConfigurationAvailable", "RemoteConfigurationValid"},
                       !.progressing = {"ClusterTransferAvailable"}]

installPlanConditionsAnalyzer == [NoMatchers EXCEPT !.conditions = {"Installed"}]

routeConditionsAnalyzer == [NoMatchers EXCEPT !.conditions = {"Admitted"}]

AnalyzeAll(analyzers, conditions) == {AnalyzeCondition(analyzers, c) : c \in conditions}

-----------------------------------------------------------------------------
AnalyzeObservedGeneration(c) ==
    IF c.observedGeneration < c.generation THEN {StatusProgressing} ELSE {}

(* GenericAnalyzer: an object without a status and without sub-objects is Ok. *)
GenericStatus(c, subs) ==
    IF ~c.hasStatus /\ subs = {}
    THEN Status(Ok)
    ELSE AggregateResult(subs, AnalyzeObservedGeneration(c)
                                   \cup AnalyzeAll(<<CommonConditionsAnalyzer>>, c.conditions))

NodeStatus(c) ==
    AggregateResult({}, AnalyzeAll(<<CommonConditionsAnalyzer>>, c.conditions)
                            \cup (IF c.unschedulable THEN {Status(Error)} ELSE {}))

PVCStatus(c) ==
    AggregateResult({}, {IF c.phase = "Bound" THEN Status(Ok) ELSE StatusProgressing})

(* A Route: the conditions of each of its ingresses *)
RouteStatus(c) ==
    AggregateResult({}, AnalyzeAll(<<routeConditionsAnalyzer>>, UNION c.ingress))

(* A Service has no conditions of its own. *)
ServiceStatus(subs) == AggregateResult(subs, {})

MCOStatus(c, subs) ==
    AggregateResult(subs, AnalyzeAll(<<CommonConditionsAnalyzer>>, c.conditions))

-----------------------------------------------------------------------------
(* A Subscription whose install plan is not there yet *)
InstallPlanMissing(plans) == IF plans = {} THEN {StatusProgressing} ELSE {}

(* OLMSubscriptionAnalyzer; plans and csvs are the statuses its references led to. *)
SubscriptionStatus(c, plans, csvs) ==
    AggregateResult(plans \cup csvs,
        AnalyzeAll(<<subscriptionConditionsAnalyzer, CommonConditionsAnalyzer>>, c.conditions)
            \cup InstallPlanMissing(plans))

InstallPlanStatus(c) ==
    AggregateResult({}, AnalyzeAll(<<installPlanConditionsAnalyzer>>, c.conditions))

(* OLMCSVAnalyzer: the status is read as one condition whose type is the phase. *)
CSVStatus(c) ==
    IF c.hasStatus /\ c.phase = "Failed" THEN Status(Error) ELSE Status(Unknown)

ClusterOperatorStatus(c, subs) ==
    AggregateResult(subs,
        AnalyzeAll(<<clusteroperatorConditionsAnalyzer, CommonConditionsAnalyzer>>
                       \o (IF c.insights THEN <<insightsConditionsAnalyzer>> ELSE <<>>),
                   c.conditions))

-----------------------------------------------------------------------------
(***************************************************************************)
(* Analyze of the analyzer a; subs are the sub-objects: the analyzer they  *)
(* were given, their contents and their statuses.                          *)
(***************************************************************************)
StatusOf(a, c, subs) ==
    LET statuses == {s.status : s \in subs}
        by(b)    == {s.status : s \in {t \in subs : t.with = b}}
    IN  CASE a = "Generic"               -> GenericStatus(c, statuses)
          [] a = "AlwaysGreen"           -> Status(Ok)
          [] a = "Node"                  -> NodeStatus(c)
          [] a = "PersistentVolumeClaim" -> PVCStatus(c)
          [] a = "Route"                 -> RouteStatus(c)
          [] a = "Pod"                   -> PodStatus(c)
          [] a = "Service"               -> ServiceStatus(statuses)
          [] a = "ReplicaSet"            -> ReplicaSetStatus(c, statuses)
          [] a = "Deployment"            -> DeploymentStatus(c.conditions,
                                               {[spec |-> s.content.spec, status |-> s.status] : s \in subs})
          [] a = "MultiClusterObservability" -> MCOStatus(c, statuses)
          [] a = "Subscription"          ->
                SubscriptionStatus(c, by("InstallPlan"), by("ClusterServiceVersion"))
          [] a = "InstallPlan"           -> InstallPlanStatus(c)
          [] a = "ClusterServiceVersion" -> CSVStatus(c)
          [] a = "ClusterOperator"       -> ClusterOperatorStatus(c, statuses)

(* The sub-objects that stay in the status: not ReplicaSets scaled down to 0. *)
Kept(a, s) == ~(a = "Deployment" /\ s.content.spec = 0)
=============================================================================
