------------------------- MODULE MCMatcherSlices -------------------------
(* Instances of MatcherSlices: the requests of the analyzers, and all requests. *)
EXTENDS MatcherSlices

CONSTANTS pod, rs, plan, event, secret, node

MCKind == {pod, rs, plan, event, secret, node}

(* Register.ignored *)
Ignored == <<event, secret>>

(***************************************************************************)
(* The matchers the repository builds: single kinds (label queries, OLM    *)
(* references), several kinds (a monitor target), the empty matcher of a   *)
(* log query, and everything but the ignored kinds (owner queries).        *)
(***************************************************************************)
AnalyzerRequests ==
    {[all |-> FALSE, inc |-> s, exc |-> <<>>] :
         s \in {<<>>, <<pod>>, <<rs>>, <<plan>>, <<rs, pod>>, <<pod, pod>>}}
    \cup {[all |-> TRUE, inc |-> <<>>, exc |-> Ignored]}

(***************************************************************************)
(* The same with owner queries that leave out different kinds, none of     *)
(* them a kind another request includes.                                   *)
(***************************************************************************)
DisjointRequests ==
    AnalyzerRequests \cup
    {[all |-> TRUE, inc |-> <<>>, exc |-> s] :
         s \in {<<secret, event>>, <<event, node>>, <<secret, node>>, <<node>>, <<>>}}
=============================================================================
