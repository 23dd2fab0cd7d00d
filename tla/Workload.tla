------------------------------ MODULE Workload ------------------------------
(***************************************************************************)
(* The analyzers of Containers, Pods, ReplicaSets and Deployments           *)
(* (pkg/analyze/pod.go, replicaset.go, deployment.go) as functions from    *)
(* what the API server shows of an object, and the statuses of its         *)
(* sub-objects, to a status.  Messages and container logs are left out: a  *)
(* failure to load logs only changes a message.                            *)
(***************************************************************************)
EXTENDS Conditions

(* A container status: [state, ready, exit, stale], where stale says that *)
(* its last termination is longer ago than progressingTimeout.            *)

(* analyzeContainer: later conditions replace earlier ones, and a container *)
(* with no condition at all is not a sub-object.                            *)
analyzeContainer(c) ==
    IF c.state = "terminated" THEN {Status(IF c.exit = 0 THEN Ok ELSE Error)}
    ELSE IF ~c.ready THEN {Status(Error)}
    ELSE IF c.state = "running" THEN {Status(Ok)}
    ELSE IF c.state = "waiting" THEN {[result |-> Error, progressing |-> ~c.stale]}
    ELSE {}

-----------------------------------------------------------------------------
(* A pod: [phase, conditions, containers] *)

ExitedZero(c) == c.state = "terminated" /\ c.exit = 0

podSyntheticConditions(p) ==
    CASE p.phase = "Succeeded" ->
            {Status(IF \E c \in p.containers : c.state = "terminated" /\ c.exit # 0 THEN Error ELSE Ok)}
      [] p.phase = "Failed" ->
            {Status(IF p.containers # {} /\ \A c \in p.containers : ExitedZero(c) THEN Ok ELSE Error)}
      [] OTHER -> {}

(* Plausible slips: the phase alone decides; completion is not looked at. *)
EveryEndedPod(p) == p.phase \in {"Succeeded", "Failed"}
NeverCompleted(p) == FALSE

(* The special handling for completed pods. *)
Completed(p) ==
    /\ p.phase \in {"Succeeded", "Failed"}
    /\ p.containers # {}
    /\ \A c \in p.containers : ExitedZero(c)

(* PodAnalyzer.Analyze *)
PodStatus(p) ==
    LET containers == {AggregateResult({}, s) : s \in {analyzeContainer(c) : c \in p.containers} \ {{}}}
        conditions == {AnalyzeCommon(c) : c \in p.conditions} \cup podSyntheticConditions(p)
        result     == AggregateResult(containers, conditions)
    IN  IF Completed(p) THEN [result EXCEPT !.result = Ok] ELSE result

-----------------------------------------------------------------------------
(* A ReplicaSet: [spec, replicas, labeled, available, ready, conditions] *)

replicaSetConditionAnalyzer(cond) ==
    IF cond.type = "ReplicaFailure" /\ cond.status = "True"
    THEN Status(Error)
    ELSE AnalyzeCommon(cond)

(* replicaSetSyntehticConditions; an unset spec.replicas reads as 1. *)
replicaSetSyntheticConditions(rs) ==
    (IF \/ rs.spec > rs.labeled \/ rs.spec > rs.available
        \/ rs.spec > rs.ready \/ rs.replicas > rs.spec
     THEN {Status(Error)} ELSE {})
    \cup (IF rs.spec = rs.ready THEN {Status(Ok)} ELSE {})

(* ReplicaSetAnalyzer.Analyze; subs: the statuses of its pods *)
ReplicaSetStatus(rs, subs) ==
    AggregateResult(subs,
                    {replicaSetConditionAnalyzer(c) : c \in rs.conditions}
                        \cup replicaSetSyntheticConditions(rs))

-----------------------------------------------------------------------------
(* A Deployment: its conditions; subs: the [spec, status] of its ReplicaSets *)

deploymentConditionAnalyzer(cond) ==
    IF \/ cond.type = "Progressing" /\ cond.reason = "ProgressDeadlineExceeded"
       \/ cond.type = "Available" /\ cond.status = "False"
    THEN Status(Error)
    ELSE AnalyzeCommon(cond)

(* A plausible slip: the Progressing condition is taken as it is. *)
NeverDone(live) == FALSE

AllDone(live) ==
    live # {} /\ \A s \in live : s.status.result = Ok /\ ~s.status.progressing

(* DeploymentAnalyzer.Analyze *)
DeploymentStatus(conditions, subs) ==
    LET live == {s \in subs : s.spec # 0}
        precise(c) == IF c.type = "Progressing" /\ AllDone(live)
                      THEN Status(Ok)
                      ELSE deploymentConditionAnalyzer(c)
    IN  AggregateResult({s.status : s \in live}, {precise(c) : c \in conditions})
=============================================================================
