--------------------------- MODULE MatcherSlices ---------------------------
(***************************************************************************)
(* The merged matcher of one nsCache (pkg/eval/eval.go) with the slices of *)
(* pkg/eval/query.go kept as sequences: duplicates and order are part of   *)
(* the state, because Equal compares lengths.  Each step is one            *)
(* Evaluator.Load, which merges the matcher of its query into the one the  *)
(* namespace has and reloads the namespace when the result is not Equal.   *)
(***************************************************************************)
EXTENDS Naturals, Sequences, SequencesExt

CONSTANTS Kind,        \* group-kinds of the API server
          Requests,    \* the matchers that queries come with (slices)
          MaxLen       \* bound on the include list, which grows forever

S == INSTANCE Matcher

ASSUME MaxLenAssumption == MaxLen \in Nat

(***************************************************************************)
(* A matcher has included kinds, or includes all and has excluded kinds;   *)
(* no query asks for a kind that an owner query leaves out, which is one   *)
(* of Register.ignored.  That list repeats kinds (clusteroperator.go adds  *)
(* some that are in it), and all owner queries come with the same list;    *)
(* lists that differ are allowed for when none repeats a kind.             *)
(***************************************************************************)
ASSUME RequestsAssumption ==
    /\ Requests \subseteq [all : BOOLEAN, inc : Seq(Kind), exc : Seq(Kind)]
    /\ \A r \in Requests : IF r.all THEN r.inc = <<>> ELSE r.exc = <<>>
    /\ \A r, q \in Requests : r.all /\ ~q.all => ToSet(r.exc) \cap ToSet(q.inc) = {}
    /\ \/ \A r, q \in Requests : r.all /\ q.all => r.exc = q.exc
       \/ \A r \in Requests : IsInjective(r.exc)

VARIABLES
    matcher,   \* nsCache.matcher
    changed,   \* what the last updateMatcher returned
    asked      \* history: every kind that any request so far matches

vars == <<matcher, changed, asked>>

-----------------------------------------------------------------------------
(* intersect2: the elements of b that occur in a, in b's order, duplicates kept *)
intersect2(a, b) ==
    LET kept[i \in 0 .. Len(b)] ==
            IF i = 0 THEN <<>>
            ELSE IF Contains(a, b[i]) THEN Append(kept[i - 1], b[i])
            ELSE kept[i - 1]
    IN  kept[Len(b)]

(* intersect: no input gives the empty slice, one gives itself *)
intersect(sets) ==
    CASE Len(sets) = 0 -> <<>>
      [] Len(sets) = 1 -> sets[1]
      [] Len(sets) = 2 -> intersect2(sets[1], sets[2])

(* A plausible slip: the exclude lists are concatenated like the include lists. *)
MergeJoinsExcludes(m, other) ==
    [all |-> m.all \/ other.all,
     inc |-> IF m.all \/ other.all THEN <<>> ELSE m.inc \o other.inc,
     exc |-> m.exc \o other.exc]

(* A plausible slip: the exclude list of the receiver survives alone. *)
MergeKeepsReceiver(m, other) ==
    [all |-> m.all \/ other.all,
     inc |-> IF m.all \/ other.all THEN <<>> ELSE m.inc \o other.inc,
     exc |-> m.exc]

(* GroupKindMatcher.Merge *)
Merge(m, other) ==
    [all |-> m.all \/ other.all,
     inc |-> IF m.all \/ other.all THEN <<>> ELSE m.inc \o other.inc,
     exc |-> intersect((IF m.all THEN <<m.exc>> ELSE <<>>) \o
                       (IF other.all THEN <<other.exc>> ELSE <<>>))]

(* A plausible slip: lengths and flag are compared, elements are not. *)
EqualByLength(m, other) ==
    /\ Len(m.inc) = Len(other.inc)
    /\ Len(m.exc) = Len(other.exc)

(* GroupKindMatcher.Equal *)
Equal(m, other) ==
    /\ Len(m.inc) = Len(other.inc)
    /\ Len(m.exc) = Len(other.exc)
    /\ m.all = other.all
    /\ Len(intersect2(m.inc, other.inc)) = Len(m.inc)
    /\ Len(intersect2(m.exc, other.exc)) = Len(m.exc)

(* GroupKindMatcher.Match *)
Match(m, k) ==
    CASE Len(m.inc) > 0 -> Contains(m.inc, k)
      [] OTHER          -> m.all /\ ~Contains(m.exc, k)

-----------------------------------------------------------------------------
Matched(m) == {k \in Kind : Match(m, k)}

Init ==
    /\ matcher = [all |-> FALSE, inc |-> <<>>, exc |-> <<>>]
    /\ changed = FALSE
    /\ asked = {}

(* nsCache.updateMatcher, as Evaluator.Load calls it for the query's matcher *)
updateMatcher(r) ==
    LET merged == Merge(matcher, r) IN
    /\ Len(merged.inc) <= MaxLen
    /\ changed' = ~Equal(merged, matcher)
    /\ matcher' = IF Equal(merged, matcher) THEN matcher ELSE merged
    /\ asked' = asked \cup Matched(r)

Next == \E r \in Requests : updateMatcher(r)

Spec == Init /\ [][Next]_vars

-----------------------------------------------------------------------------
(***************************************************************************)
(* Merge's comment: the merged matcher "matches the union of the kinds     *)
(* matched by the receiver and the other matcher", so after any sequence   *)
(* of loads the namespace's matcher covers every kind asked for so far,    *)
(* also when updateMatcher saw no change and kept the old matcher.         *)
(***************************************************************************)
MergeIsUnion == asked \subseteq Matched(matcher)

(* The merged matcher never asks the API server for a kind nobody asked for. *)
NothingExtra == Matched(matcher) \subseteq asked

(***************************************************************************)
(* A reload is skipped only when the request needs no kind that was not    *)
(* asked for before: an updateMatcher that reports no change leaves the    *)
(* set of kinds asked for as it was.                                       *)
(***************************************************************************)
SkipIsSound == [][changed' = FALSE => asked' = asked]_vars

(* The set of kinds in the matcher's slices, the view of module Matcher. *)
AsSets(m) == [all |-> m.all, inc |-> ToSet(m.inc), exc |-> ToSet(m.exc)]

(***************************************************************************)
(* Reading the slices as sets loses nothing the evaluator can observe:     *)
(* each step is a Merge of module Matcher and reports what its Changed     *)
(* reports.  This is what lets module Evaluator use the sets.              *)
(***************************************************************************)
RefinesSets ==
    [][\E r \in Requests :
          /\ AsSets(matcher') = IF changed'
                                THEN S!Merge(AsSets(matcher), AsSets(r))
                                ELSE AsSets(matcher)
          /\ changed' = S!Changed(AsSets(matcher), AsSets(r))
          /\ asked' = asked \cup {k \in Kind : S!Match(AsSets(r), k)}]_vars
=============================================================================
