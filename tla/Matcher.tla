------------------------------ MODULE Matcher ------------------------------
(***************************************************************************)
(* GroupKindMatcher of pkg/eval/query.go with its slices read as sets of   *)
(* kinds: which kinds a query asks for, what merging two requests asks     *)
(* for, and whether merging changed anything.  The evaluator keeps one     *)
(* merged matcher per namespace and lists the namespace again only when    *)
(* the merged matcher "changed".                                           *)
(*                                                                         *)
(* MatcherSlices models the same operations on the slices themselves and   *)
(* shows that the changes it reports are the ones reported here.           *)
(***************************************************************************)

(* A matcher over the kinds K: GroupKindMatcher's three fields. *)
Matchers(K) == [all : BOOLEAN, inc : SUBSET K, exc : SUBSET K]

(* The zero value, which a new nsCache starts with and PodLogQuerySpec asks for. *)
EmptyMatcher == [all |-> FALSE, inc |-> {}, exc |-> {}]

(* NewGroupKindMatcherSingle, and any literal with IncludedKinds only. *)
Included(kinds) == [all |-> FALSE, inc |-> kinds, exc |-> {}]

(* A literal with IncludeAll and ExcludedKinds, as GenericOwnerQuerySpec builds. *)
AllExcept(kinds) == [all |-> TRUE, inc |-> {}, exc |-> kinds]

(* GroupKindMatcher.Match: a non-empty include list decides alone. *)
Match(m, k) ==
    IF m.inc # {} THEN k \in m.inc ELSE m.all /\ k \notin m.exc

(* GroupKindMatcher.Merge *)
Merge(m, other) ==
    [all |-> m.all \/ other.all,
     inc |-> IF m.all \/ other.all THEN {} ELSE m.inc \cup other.inc,
     exc |-> CASE m.all /\ other.all  -> m.exc \cap other.exc
               [] m.all /\ ~other.all -> m.exc
               [] ~m.all /\ other.all -> other.exc
               [] OTHER               -> {}]

(***************************************************************************)
(* What updateMatcher reports.  Included kinds are appended without        *)
(* removing duplicates and Equal compares lengths first, so as long as no  *)
(* side includes everything, any non-empty request counts as a change,     *)
(* also one for kinds that are in the matcher already.                     *)
(***************************************************************************)
Changed(m, other) ==
    IF m.all \/ other.all THEN Merge(m, other) # m ELSE other.inc # {}
=============================================================================
