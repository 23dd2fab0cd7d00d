----------------------------- MODULE MCAnalysis -----------------------------
(***************************************************************************)
(* A small cluster for Analysis.  The command is asked for a Node, a       *)
(* Service, a custom resource and a ClusterOperator.  The custom resource  *)
(* app owns a Deployment with an old ReplicaSet scaled to 0 and a new one, *)
(* down to the pod that the Service selects too.  The ClusterOperator co   *)
(* names itself, the Service (an ignored kind), the operator co2, a        *)
(* Subscription with its install plan (plan2 is plan recreated) and CSV,   *)
(* and every MultiClusterObservability: mco, cluster-scoped, whose Route   *)
(* and volume claim are in mns.                                            *)
(***************************************************************************)
EXTENDS Analysis

CONSTANTS node, svc, app, pvc, dep, old, rs, pod, co, co2, sub, plan, plan2, csv, mco, route,
          ns, mns

MCObj == {node, svc, app, pvc, dep, old, rs, pod, co, co2, sub, plan, plan2, csv, mco, route}

MCKindOf ==
    [o \in Obj |->
        CASE o = node -> "Node"
          [] o = svc -> "Service"              [] o = app -> "App"
          [] o = pvc -> "PersistentVolumeClaim" [] o = dep -> "Deployment"
          [] o \in {old, rs} -> "ReplicaSet"   [] o = pod -> "Pod"
          [] o \in {co, co2} -> "ClusterOperator" [] o = sub -> "Subscription"
          [] o \in {plan, plan2} -> "InstallPlan" [] o = csv -> "ClusterServiceVersion"
          [] o = mco -> "MultiClusterObservability" [] o = route -> "Route"]
MCKind == {MCKindOf[o] : o \in Obj}
MCNamespaced == MCKind \ {"Node", "ClusterOperator", "MultiClusterObservability"}
MCNamespaces == {ns, mns, NamespaceNone}
MCNsOf ==
    [o \in Obj |-> CASE o \in {node, co, co2, mco} -> NamespaceNone
                     [] o \in {pvc, route} -> mns
                     [] OTHER -> ns]
MCNameOf ==
    [o \in Obj |->
        CASE o = node -> "node" [] o = svc -> "svc" [] o = app -> "app" [] o = pvc -> "pvc"
          [] o = dep -> "dep" [] o = old -> "old" [] o = rs -> "rs" [] o = pod -> "pod"
          [] o = co -> "co" [] o = co2 -> "co2" [] o = sub -> "sub"
          [] o \in {plan, plan2} -> "plan" [] o = csv -> "csv" [] o = mco -> "mco"
          [] o = route -> "route"]
MCOwnersOf ==
    [o \in Obj |-> CASE o = dep -> {app} [] o \in {old, rs} -> {dep} [] o = pod -> {rs}
                     [] o \in {pvc, route} -> {mco} [] OTHER -> {}]
MCIgnored == {"Service"}
MCRequested == <<node, svc, app, co>>
MCRelated == {co, co2, sub, mco}
MCLate == {plan2}
MCChanging == {pod, plan, plan2, co2}

-----------------------------------------------------------------------------
Good == {Condition("Ready", "True")}
Bad == {Condition("Ready", "False")}
ReadyContainer == [state |-> "running", ready |-> TRUE, exit |-> 0, stale |-> TRUE]
Entry(o) == [kind |-> MCKindOf[o], ns |-> MCNsOf[o], name |-> MCNameOf[o]]
AllOf(o) == [kind |-> MCKindOf[o], ns |-> MCNsOf[o], name |-> ""]

(* What changes: a pod loses readiness, an install plan fails, co2 names co. *)
MCContentOf ==
    [o \in Obj |-> [v \in 0..MaxChanges |->
        CASE o = node -> [unschedulable |-> FALSE, conditions |-> Good]
          [] o = svc -> [selected |-> {pod}]
          [] o = app -> [hasStatus |-> TRUE, generation |-> 1, observedGeneration |-> 1,
                         conditions |-> Good]
          [] o = pvc -> [phase |-> "Bound"]
          [] o = dep -> [selected |-> {old, rs}, conditions |-> {Condition("Available", "True")}]
          [] o = old -> [selected |-> {}, spec |-> 0, replicas |-> 0, labeled |-> 0,
                         available |-> 0, ready |-> 0, conditions |-> {}]
          [] o = rs  -> [selected |-> {pod}, spec |-> 1, replicas |-> 1, labeled |-> 1,
                         available |-> 1, ready |-> 1, conditions |-> {}]
          [] o = pod -> [phase |-> "Running", conditions |-> IF v = 1 THEN Bad ELSE Good,
                         containers |-> {ReadyContainer}]
          [] o = co  -> [insights |-> FALSE, conditions |-> {Condition("Available", "True")},
                         relatedObjects |->
                             <<Entry(co), Entry(svc), Entry(co2), Entry(sub), AllOf(mco)>>]
          [] o = co2 -> [insights |-> FALSE, conditions |-> {Condition("Degraded", "False")},
                         relatedObjects |-> IF v = 1 THEN <<Entry(co)>> ELSE <<>>]
          [] o = sub -> [conditions |-> {Condition("CatalogSourcesUnhealthy", "False")},
                         installPlanRef |-> <<[uid |-> plan, name |-> "plan"]>>,
                         currentCSV |-> <<"csv">>]
          [] o \in {plan, plan2} ->
                 [conditions |-> {Condition("Installed", IF v = 1 THEN "False" ELSE "True")}]
          [] o = csv -> [hasStatus |-> TRUE, phase |-> "Succeeded"]
          [] o = mco -> [conditions |-> Good]
          [] o = route -> [ingress |-> {{Condition("Admitted", "True")}}]]]

(* The queries that the analyzers of these objects make. *)
MCQueries ==
    LET lookups == UNION {Lookups(findAnalyzer(KindOf[o]), o, 0) : o \in Obj}
    IN  {l.q : l \in {m \in lookups : m.how = "query"}}
=============================================================================
