------------------------------ MODULE Rollout ------------------------------
(***************************************************************************)
(* kube-health looks at a Deployment while the cluster works on it.  The   *)
(* user, the Deployment and ReplicaSet controllers and the kubelets are    *)
(* external.  DeploymentAnalyzer.Analyze reads the cluster in three calls: *)
(* the Deployment, the ReplicaSets, the Pods; anything may happen between  *)
(* two of them, and a call that fails leaves an empty list behind, because *)
(* Evaluator.Load drops its error.                                         *)
(***************************************************************************)
EXTENDS Workload

CONSTANTS MaxGeneration,  \* bound on edits of the Deployment
          MaxReplicas,    \* bound on spec.replicas
          MaxMishaps,     \* bound on pods that fail, end or go back from ready
          Slots           \* pods a ReplicaSet can have at a time, ended ones included

ASSUME BoundsAssumption ==
    /\ MaxGeneration \in Nat \ {0}
    /\ MaxReplicas \in Nat \ {0}
    /\ MaxMishaps \in Nat
    /\ IsFiniteSet(Slots) /\ Cardinality(Slots) > MaxReplicas

VARIABLES
    spec,       \* the Deployment: [generation, replicas, revision]
    status,     \* its status: [observed, conditions]
    rs,         \* rs[v]: the ReplicaSets of revision v, a set of at most one
    pods,       \* pods[v][s]: state of the pod in a slot
    mishaps,    \* how many pods got worse
    pc,         \* the analyzer: "idle", "listRS", "listPods", "reported"
    gotConds,   \* the conditions in the Deployment it got
    gotRS,      \* the ReplicaSets it listed
    report,     \* the status it reports
    quiet,      \* since it got the Deployment nothing has changed and no call has failed
    trouble     \* a pod it listed, of a ReplicaSet that wants pods, is not fine

clusterVars == <<spec, status, rs, pods, mishaps>>
analyzerVars == <<pc, gotConds, gotRS, report, trouble>>
vars == <<spec, status, rs, pods, mishaps, pc, gotConds, gotRS, report, quiet, trouble>>

Revisions == 1 .. MaxGeneration

-----------------------------------------------------------------------------
(* Pods: the states a kubelet can report, and what the API shows of them. *)

Active == {"pending", "creating", "starting", "ready", "backoff"}
Ended == {"failed", "shutdown", "succeeded"}
PodStates == Active \cup Ended \cup {"gone"}

Container(state, ready, exit, stale) ==
    [state |-> state, ready |-> ready, exit |-> exit, stale |-> stale]

Shown(state) ==
    [ phase      |-> CASE state \in {"pending", "creating"} -> "Pending"
                       [] state = "succeeded" -> "Succeeded"
                       [] state \in {"failed", "shutdown"} -> "Failed"
                       [] OTHER -> "Running",
      conditions |-> IF state = "pending" THEN {Condition("PodScheduled", "False")}
                     ELSE {Condition("Ready", IF state = "ready" THEN "True" ELSE "False")},
      containers |-> CASE state = "pending" -> {}
                       [] state = "creating" -> {Container("waiting", FALSE, 0, FALSE)}
                       [] state = "backoff" -> {Container("waiting", FALSE, 0, TRUE)}
                       [] state = "failed" -> {Container("terminated", FALSE, 1, FALSE)}
                       [] state \in Ended \ {"failed"} -> {Container("terminated", FALSE, 0, FALSE)}
                       [] OTHER -> {Container("running", state = "ready", 0, FALSE)} ]

(* What a kubelet, the node or the garbage collector makes of a pod. *)
Better(state) ==
    CASE state = "pending"  -> {"creating"}
      [] state = "creating" -> {"starting"}
      [] state = "starting" -> {"ready"}
      [] state = "backoff"  -> {"starting"}
      [] state \in Ended    -> {"gone"}
      [] OTHER              -> {}

Worse(state) ==
    CASE state \in {"pending", "creating", "backoff"} -> {"failed"}
      [] state = "starting" -> {"backoff", "failed"}
      [] state = "ready"    -> {"starting", "backoff", "failed", "shutdown", "succeeded"}
      [] OTHER              -> {}

Count(v, states) == Cardinality({s \in Slots : pods[v][s] \in states})

-----------------------------------------------------------------------------
Init ==
    /\ \E n \in 0 .. MaxReplicas : spec = [generation |-> 1, replicas |-> n, revision |-> 1]
    /\ status = [observed |-> 0, conditions |-> {}]
    /\ rs = [v \in Revisions |-> {}]
    /\ pods = [v \in Revisions |-> [s \in Slots |-> "gone"]]
    /\ mishaps = 0
    /\ pc = "idle"
    /\ gotConds = {}
    /\ gotRS = rs
    /\ report = Status(Unknown)
    /\ quiet = FALSE
    /\ trouble = FALSE

(* The user: kubectl apply of a new scale or a new template. *)
Edit ==
    /\ spec.generation < MaxGeneration
    /\ \/ \E n \in 0 .. MaxReplicas \ {spec.replicas} :
             spec' = [spec EXCEPT !.generation = @ + 1, !.replicas = n]
       \/ spec' = [spec EXCEPT !.generation = @ + 1, !.revision = @ + 1]
    /\ quiet' = FALSE
    /\ UNCHANGED <<status, rs, pods, mishaps, analyzerVars>>

(* The Deployment controller sees the specification and scales the current ReplicaSet. *)
Observe ==
    /\ status.observed < spec.generation
    /\ status' = [status EXCEPT !.observed = spec.generation]
    /\ LET old == rs[spec.revision]
           fresh == [spec |-> 0, replicas |-> 0, labeled |-> 0, available |-> 0, ready |-> 0,
                     conditions |-> {}]
       IN  rs' = [rs EXCEPT ![spec.revision] =
                     {[r EXCEPT !.spec = spec.replicas] : r \in IF old = {} THEN {fresh} ELSE old}]
    /\ quiet' = FALSE
    /\ UNCHANGED <<spec, pods, mishaps, analyzerVars>>

ScaleDown(v) ==
    /\ status.observed = spec.generation /\ v # spec.revision
    /\ \E r \in rs[v] : r.spec > 0
    /\ rs' = [rs EXCEPT ![v] = {[r EXCEPT !.spec = 0] : r \in @}]
    /\ quiet' = FALSE
    /\ UNCHANGED <<spec, status, pods, mishaps, analyzerVars>>

(* Enough replicas are ready; the rollout is over. *)
Enough == \E v \in Revisions : \E r \in rs[v] : r.available >= spec.replicas
RolloutOver ==
    /\ \A v \in Revisions : \A r \in rs[v] : r.spec = (IF v = spec.revision THEN spec.replicas ELSE 0)
    /\ \A v \in Revisions : \A r \in rs[v] : r.replicas = r.spec /\ r.ready = r.spec

(* The Deployment's conditions: Progressing stays True once the rollout is   *)
(* over (reason NewReplicaSetAvailable), and is False past the deadline.     *)
TrueConditions(late) ==
    { Condition("Available", IF Enough THEN "True" ELSE "False"),
      IF late
      THEN [type |-> "Progressing", status |-> "False", reason |-> "ProgressDeadlineExceeded"]
      ELSE Condition("Progressing", "True") }

SetConditions ==
    /\ status.observed = spec.generation
    /\ \E late \in BOOLEAN :
          /\ late => ~RolloutOver
          /\ status.conditions # TrueConditions(late)
          /\ status' = [status EXCEPT !.conditions = TrueConditions(late)]
    /\ quiet' = FALSE
    /\ UNCHANGED <<spec, rs, pods, mishaps, analyzerVars>>

(* The ReplicaSet controller creates and deletes pods ... *)
CreatePod(v, s) ==
    /\ \E r \in rs[v] : Count(v, Active) < r.spec
    /\ pods[v][s] = "gone"
    /\ pods' = [pods EXCEPT ![v][s] = "pending"]
    /\ quiet' = FALSE
    /\ UNCHANGED <<spec, status, rs, mishaps, analyzerVars>>

DeletePod(v, s) ==
    /\ \E r \in rs[v] : Count(v, Active) > r.spec
    /\ pods[v][s] \in Active
    /\ pods' = [pods EXCEPT ![v][s] = "gone"]
    /\ quiet' = FALSE
    /\ UNCHANGED <<spec, status, rs, mishaps, analyzerVars>>

(* ... and counts the active ones. *)
Counted(v, r) ==
    [r EXCEPT !.replicas = Count(v, Active), !.labeled = Count(v, Active),
              !.available = Count(v, {"ready"}), !.ready = Count(v, {"ready"})]

CountPods(v) ==
    /\ \E r \in rs[v] : r # Counted(v, r)
    /\ rs' = [rs EXCEPT ![v] = {Counted(v, r) : r \in @}]
    /\ quiet' = FALSE
    /\ UNCHANGED <<spec, status, pods, mishaps, analyzerVars>>

PodImproves(v, s) ==
    /\ \E new \in Better(pods[v][s]) : pods' = [pods EXCEPT ![v][s] = new]
    /\ quiet' = FALSE
    /\ UNCHANGED <<spec, status, rs, mishaps, analyzerVars>>

PodWorsens(v, s) ==
    /\ mishaps < MaxMishaps
    /\ mishaps' = mishaps + 1
    /\ \E new \in Worse(pods[v][s]) : pods' = [pods EXCEPT ![v][s] = new]
    /\ quiet' = FALSE
    /\ UNCHANGED <<spec, status, rs, analyzerVars>>

-----------------------------------------------------------------------------
(* DeploymentAnalyzer.Analyze *)

GetDeployment ==
    /\ pc \in {"idle", "reported"}
    /\ pc' = "listRS"
    /\ gotConds' = status.conditions
    /\ gotRS' = [v \in Revisions |-> {}]
    /\ report' = Status(Unknown)
    /\ quiet' = TRUE
    /\ trouble' = FALSE
    /\ UNCHANGED clusterVars

ListReplicaSets ==
    /\ pc = "listRS"
    /\ pc' = "listPods"
    /\ gotRS' = rs
    /\ UNCHANGED <<clusterVars, gotConds, report, quiet, trouble>>

ListReplicaSetsFails ==
    /\ pc = "listRS"
    /\ pc' = "listPods"
    /\ quiet' = FALSE
    /\ UNCHANGED <<clusterVars, gotConds, gotRS, report, trouble>>

(* The pods of the ReplicaSets are listed together, on the first of them. *)
Subs(listed) ==
    UNION {{[spec |-> r.spec, status |-> ReplicaSetStatus(r, {PodStatus(Shown(p)) : p \in listed[v]})] :
               r \in gotRS[v]} : v \in Revisions}

Conclude(listed) ==
    /\ pc = "listPods"
    /\ pc' = "reported"
    /\ report' = DeploymentStatus(gotConds, Subs(listed))
    /\ trouble' = \E v \in Revisions : /\ \E r \in gotRS[v] : r.spec > 0
                                       /\ listed[v] \cap {"creating", "starting", "backoff", "failed"} # {}
    /\ gotConds' = {}
    /\ gotRS' = [v \in Revisions |-> {}]
    /\ UNCHANGED clusterVars

ListPods ==
    /\ Conclude([v \in Revisions |-> {pods[v][s] : s \in Slots} \ {"gone"}])
    /\ UNCHANGED quiet

ListPodsFails ==
    /\ Conclude([v \in Revisions |-> {}])
    /\ quiet' = FALSE

-----------------------------------------------------------------------------
Cluster ==
    \/ Edit \/ Observe \/ SetConditions
    \/ \E v \in Revisions : ScaleDown(v) \/ CountPods(v)
    \/ \E v \in Revisions, s \in Slots :
          CreatePod(v, s) \/ DeletePod(v, s) \/ PodImproves(v, s) \/ PodWorsens(v, s)

Next ==
    \/ Cluster
    \/ GetDeployment \/ ListReplicaSets \/ ListReplicaSetsFails \/ ListPods \/ ListPodsFails

Spec == Init /\ [][Next]_vars

-----------------------------------------------------------------------------
ReplicaSets ==
    LET count == 0 .. Cardinality(Slots)
    IN  [spec : 0 .. MaxReplicas, replicas : count, labeled : count, available : count,
         ready : count, conditions : {{}}]

TypeOK ==
    /\ spec \in [generation : 1 .. MaxGeneration, replicas : 0 .. MaxReplicas, revision : Revisions]
    /\ status.observed \in 0 .. spec.generation
    /\ \A v \in Revisions : \A r \in rs[v] \cup gotRS[v] : r \in ReplicaSets
    /\ pods \in [Revisions -> [Slots -> PodStates]]
    /\ mishaps \in 0 .. MaxMishaps
    /\ pc \in {"idle", "listRS", "listPods", "reported"}
    /\ report \in Statuses
    /\ quiet \in BOOLEAN
    /\ trouble \in BOOLEAN

(* The cluster has done what the Deployment asks for and says so. *)
Converged ==
    /\ status.observed = spec.generation
    /\ rs[spec.revision] # {}
    /\ RolloutOver
    /\ \A v \in Revisions : \A r \in rs[v] : r = Counted(v, r)
    /\ status.conditions = TrueConditions(FALSE)

(* A pod that is no cause for alarm: it serves, or every container of it    *)
(* ended with exit code 0.                                                  *)
Fine == {"ready", "shutdown", "succeeded", "gone"}
AllFine == \A s \in Slots : pods[spec.revision][s] \in Fine

(* A report on a Deployment that wants pods, made while nothing changed, is *)
(* right in both directions: a finished rollout whose pods are fine is Ok   *)
(* and not progressing, for all that its Progressing condition says True,   *)
(* and Ok is only reported when every ReplicaSet that wants pods has them.  *)
QuietReportRight ==
    pc = "reported" /\ quiet /\ spec.replicas > 0 =>
        /\ Converged /\ AllFine => report = Status(Ok)
        /\ report.result = Ok =>
              \A v \in Revisions : \A r \in rs[v] : r.spec > 0 =>
                  r.ready = r.spec /\ \A s \in Slots : pods[v][s] \in Fine \cup {"pending"}

(* Trouble reaches the top: whatever changed between the three calls, a     *)
(* listed pod that is not fine makes the Deployment an Error, through       *)
(* Container, Pod and ReplicaSet, unless its ReplicaSet wants no pods.      *)
TroubleReachesTop == pc = "reported" /\ trouble => report.result = Error

(* An Ok Deployment is never a progressing one: -W and -O stop on it. *)
OkMeansDone == pc = "reported" /\ report.result = Ok => ~report.progressing

(* "wait while there is are some objects still progressing" (README.md):    *)
(* a rollout that is over is not progressing any more.  A Deployment scaled *)
(* to zero has no ReplicaSet left to say so, and its Progressing condition  *)
(* stays True.                                                              *)
FinishedStopsProgressing ==
    pc = "reported" /\ quiet /\ Converged /\ AllFine => ~report.progressing
=============================================================================
