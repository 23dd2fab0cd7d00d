---------------------------- MODULE MCEvaluator ----------------------------
(***************************************************************************)
(* Small clusters for Evaluator: a deployment d with the pods p1 and p2,   *)
(* its successor d2 of the same name, and a cluster-scoped node n1.        *)
(***************************************************************************)
EXTENDS Evaluator

CONSTANTS d, d2, p1, p2, n1, Deployment, Pod, Node, Event, ns, ns2

CliObj == {d, d2, p1, p2}
LibraryObj == {d, p1, p2, n1}
MCKind == {Deployment, Pod, Node, Event}
MCNamespaced == {Deployment, Pod, Event}
CliNamespaces == {ns, NamespaceNone}
LibraryNamespaces == {ns, ns2, NamespaceNone}
MCIgnored == {Event}
MCKindOf == [o \in Obj |-> CASE o \in {d, d2} -> Deployment
                               [] o \in {p1, p2} -> Pod
                               [] o = n1 -> Node]
CliNsOf == [o \in Obj |-> ns]
LibraryNsOf == [o \in Obj |-> CASE o = n1 -> NamespaceNone [] o = p2 -> ns2 [] OTHER -> ns]
(* d2 is d recreated under its name *)
MCNameOf == [o \in Obj |-> CASE o \in {d, d2} -> "d"
                               [] o = p1 -> "p1"
                               [] o = p2 -> "p2"
                               [] o = n1 -> "n1"]
MCOwnersOf == [o \in Obj |-> CASE o \in {p1, p2} -> {d}
                                 [] OTHER -> {}]

OwnerQ(o) == [ns |-> NsOf[o], gk |-> AllExcept(MCIgnored), by |-> "owner", owner |-> o]
SelQ(n, kinds, sel) == [ns |-> n, gk |-> Included(kinds), by |-> "sel", sel |-> sel]

(* the queries of the deployment, pod and generic analyzers *)
CliQueries == {SelQ(ns, {Pod}, {p1, p2}), OwnerQ(d)}
PodRequested == <<p1, d>>
(* ... and of a program that asks for kinds in all namespaces, as the monitor does *)
LibraryQueries == CliQueries \cup
    {SelQ(NamespaceAll, {Pod}, Obj), SelQ(NamespaceAll, {Deployment, Node}, Obj), OwnerQ(n1)}
NodeRequested == <<n1>>
NoneRelated == {}
LibraryRelated == {n1}
=============================================================================
