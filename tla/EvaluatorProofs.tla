-------------------------- MODULE EvaluatorProofs --------------------------
(***************************************************************************)
(* Proofs about Evaluator for every cluster, every set of queries and any  *)
(* number of runs: type correctness, agreement of the caches, soundness of *)
(* the ownership index, and completeness of the answers.                   *)
(*                                                                         *)
(* Completeness is not inductive.  What makes it so is what the three      *)
(* shortcuts of the code rely on:                                          *)
(*   - a kind with an object in a cache is not listed again, so it must    *)
(*     have been listed in full (LoadedComplete);                          *)
(*   - an unchanged matcher lists nothing, so what it matches must be      *)
(*     cached (MatchedComplete);                                           *)
(*   - only marked namespaces are indexed, so what is in the others must   *)
(*     be indexed (OwnershipIndexed).                                      *)
(***************************************************************************)
EXTENDS Evaluator, TLAPS

(* Every merged matcher has one of the two forms the queries have. *)
MatcherForm(m) ==
    /\ m \in Matchers(Kind)
    /\ \/ m.all /\ m.inc = {} /\ m.exc = Ignored
       \/ ~m.all /\ m.exc = {} /\ m.inc \cap Ignored = {}

MatchersOK == \A n \in AllNs : MatcherForm(matcher[n])

SteadyAlive == steady \subseteq Alive

(* An object missing from the cache has no kind that counts as loaded. *)
LoadedComplete ==
    \A o \in steady \ Cached :
        /\ o \notin FromEval
              => \A p \in Cached : NsOf[p] = NsOf[o] => KindOf[p] # KindOf[o]
        /\ \A p \in objects[NamespaceAll] : KindOf[p] # KindOf[o]

(* An object missing from the cache is matched by no matcher that was served. *)
MatchedComplete ==
    \A n \in AllNs \ failed : \A o \in (steady \cap Scope(n)) \ (Cached \cup FromEval) :
        ~Match(matcher[n], KindOf[o])

(* A cached object is in the ownership index, or its namespace is marked. *)
OwnershipIndexed ==
    \A o \in (steady \cap Cached) \ FromEval :
        NsOf[o] \notin ownershipRefreshNs
           => \A w \in OwnersOf[o] : <<w, o>> \in ownership

Inv ==
    /\ TypeOK
    /\ CachesAgree
    /\ OwnershipSound
    /\ MatchersOK
    /\ SteadyAlive
    /\ LoadedComplete
    /\ MatchedComplete
    /\ OwnershipIndexed

-----------------------------------------------------------------------------
(* Merging keeps the form of a matcher. *)
LEMMA MergeForm ==
    ASSUME NEW m, NEW o, MatcherForm(m), MatcherForm(o)
    PROVE  MatcherForm(Merge(m, o))
BY DEF MatcherForm, Matchers, Merge

(* GroupKindMatcher.Merge covers both sides, for matchers of that form. *)
LEMMA MergeCovers ==
    ASSUME NEW m, NEW o, MatcherForm(m), MatcherForm(o), NEW k,
           Match(m, k) \/ Match(o, k)
    PROVE  Match(Merge(m, o), k)
BY DEF MatcherForm, Matchers, Merge, Match

(* When updateMatcher sees no change, the request adds no kind. *)
LEMMA UnchangedCovers ==
    ASSUME NEW m, NEW o, MatcherForm(m), MatcherForm(o), NEW k,
           ~Changed(m, o), Match(o, k)
    PROVE  Match(m, k)
BY MergeCovers DEF Changed, MatcherForm, Matchers, Merge, Match

(* Every query's matcher has that form. *)
LEMMA QueryForm ==
    ASSUME NEW q \in Queries
    PROVE  /\ MatcherForm(q.gk)
           /\ q \in QuerySpec
           /\ q.ns \in AllNs
<1>1. q \in QuerySpec
  BY QueriesAssumption
<1>2. q.ns \in AllNs /\ q.gk \in Matchers(Kind)
  BY <1>1 DEF QuerySpec
<1>3. \/ q.gk.all /\ q.gk.inc = {} /\ q.gk.exc = Ignored
      \/ ~q.gk.all /\ q.gk.exc = {} /\ q.gk.inc \cap Ignored = {}
  <2>1. CASE q.gk = AllExcept(Ignored)
    BY <2>1 DEF AllExcept
  <2>2. CASE q.gk = Included(q.gk.inc) /\ q.gk.inc \cap Ignored = {}
    <3>1. PICK s : q.gk = Included(s) /\ s \cap Ignored = {}
      BY <2>2
    <3> QED BY <3>1 DEF Included
  <2> QED BY <2>1, <2>2, QueriesAssumption
<1> QED BY <1>1, <1>2, <1>3 DEF MatcherForm

-----------------------------------------------------------------------------
(* Type correctness, one step per action. *)
LEMMA InitTypeOK == Init => TypeOK
BY ConstantsAssumption DEF Init, TypeOK, AllNs, Version, EmptyMatcher, Matchers

(* The cluster's own steps keep the types. *)
LEMMA ClusterTypeOK ==
    ASSUME TypeOK, ClusterStep
    PROVE  TypeOK'
<1>1. PICK o \in Obj : Create(o) \/ Delete(o) \/ Update(o)
  BY DEF ClusterStep
<1> USE ConstantsAssumption DEF TypeOK, Change, cacheVars, historyVars, Version
<1>2. CASE Create(o) BY <1>2 DEF Create
<1>3. CASE Delete(o) BY <1>3 DEF Delete
<1>4. CASE Update(o) BY <1>4 DEF Update
<1> QED BY <1>1, <1>2, <1>3, <1>4

(* Reset keeps the types. *)
LEMMA ResetTypeOK ==
    ASSUME TypeOK, Reset
    PROVE  TypeOK'
BY ConstantsAssumption
DEF TypeOK, Reset, ClearCaches, BeginHistory, clusterVars, Alive, AllNs,
    EmptyMatcher, Matchers, Version

(* The object the poller evaluates next is an object. *)
LEMMA RequestedType ==
    ASSUME next \in DOMAIN Requested
    PROVE  Requested[next] \in Obj /\ next \in Nat /\ next + 1 \in 0..(Len(Requested) + 1)
BY ConstantsAssumption

(* updateCache keeps the type of the namespace caches. *)
LEMMA InsertedType ==
    ASSUME NEW home \in [AllNs -> SUBSET Obj], NEW new \in SUBSET Obj
    PROVE  Inserted(home, new) \in [AllNs -> SUBSET Obj]
BY DEF Inserted

(* Eval of a requested object keeps the types, whether it reads the object or not. *)
LEMMA EvalTypeOK ==
    ASSUME TypeOK, Eval
    PROVE  TypeOK'
<1> DEFINE o == Requested[next]
<1>1. o \in Obj /\ next' \in 0..(Len(Requested) + 1)
  BY RequestedType DEF Eval, EvalNext
<1>2. /\ cache' \in [Obj -> Version \cup {NotCached}]
      /\ objects' \in [AllNs -> SUBSET Obj]
      /\ partial' \subseteq Namespaces \X Kind
  <2>1. CASE UNCHANGED <<cache, objects, partial>>
    BY <2>1 DEF TypeOK
  <2>2. CASE CacheRequested(o)
    <3>1. cache' \in [Obj -> Version \cup {NotCached}]
      BY <1>1, <2>2 DEF CacheRequested, TypeOK, Version
    <3>2. objects' \in [AllNs -> SUBSET Obj]
      BY <1>1, <2>2, InsertedType DEF CacheRequested, TypeOK
    <3>3. NsOf[o] \in Namespaces /\ KindOf[o] \in Kind
      BY <1>1, ConstantsAssumption
    <3>4. partial' \subseteq Namespaces \X Kind
      BY <2>2, <3>3 DEF CacheRequested, TypeOK
    <3> QED BY <3>1, <3>2, <3>4
  <2> QED BY <2>1, <2>2 DEF Eval
<1>3. analyzersCache' \subseteq Obj
  BY <1>1 DEF Eval, TypeOK
<1> QED BY <1>1, <1>2, <1>3 DEF Eval, TypeOK, clusterVars

(* A query keeps the types, whether it lists, fails to list or lists nothing. *)
LEMMA QueryTypeOK ==
    ASSUME TypeOK, NEW q \in Queries, Query(q)
    PROVE  TypeOK'
<1>1. q.ns \in AllNs /\ Merged(q) \in Matchers(Kind)
  BY QueryForm DEF TypeOK, Merged, Merge, Matchers, MatcherForm
<1>2. /\ cache' \in [Obj -> Version \cup {NotCached}]
      /\ objects' \in [AllNs -> SUBSET Obj]
      /\ matcher' \in [AllNs -> Matchers(Kind)]
      /\ failed' \subseteq AllNs
      /\ \E marked \in SUBSET Namespaces : EvalQuery(q, marked)
  <2>1. CASE QueryLoaded(q)
    <3> DEFINE new == Listed(q.ns, Merged(q)) \ Cached
    <3>1. new \subseteq Obj
      BY DEF Listed, Alive
    <3>2. cache' \in [Obj -> Version \cup {NotCached}]
      BY <2>1, <3>1 DEF QueryLoaded, AddToCaches, TypeOK
    <3>3. objects' \in [AllNs -> SUBSET Obj]
      <4>1. objects' = [n \in AllNs |-> IF n # NamespaceAll \/ q.ns # NamespaceAll
                                        THEN Inserted(objects, new)[n]
                                        ELSE objects[n] \cup new]
        BY <2>1 DEF QueryLoaded, AddToCaches
      <4>2. Inserted(objects, new) \in [AllNs -> SUBSET Obj]
        BY <3>1, InsertedType DEF TypeOK
      <4> QED BY <3>1, <4>1, <4>2 DEF TypeOK
    <3>4. ownershipRefreshNs \cup TouchedNs(q.ns, new) \in SUBSET Namespaces
      BY <3>1, ConstantsAssumption DEF TouchedNs, TypeOK
    <3> QED BY <1>1, <2>1, <3>2, <3>3, <3>4 DEF QueryLoaded, TypeOK
  <2>2. CASE QueryLoadFailed(q)
    BY <1>1, <2>2 DEF QueryLoadFailed, TypeOK
  <2>3. CASE QueryCached(q)
    BY <1>1, <2>3 DEF QueryCached, TypeOK
  <2> QED BY <2>1, <2>2, <2>3 DEF Query
<1>3. PICK marked \in SUBSET Namespaces : EvalQuery(q, marked)
  BY <1>2
<1>4. ownership' \subseteq Obj \X Obj
  <2>1. OwnerRefs(marked, objects') \subseteq Obj \X Obj
    BY <1>2, ConstantsAssumption DEF OwnerRefs, AllNs
  <2> QED BY <1>3, <2>1 DEF EvalQuery, TypeOK
<1>5. ownershipRefreshNs' \subseteq Namespaces
  BY <1>3 DEF EvalQuery
<1>6. analyzersCache' \subseteq Obj
  <2>1. Answer(q)' \subseteq Obj
    BY <1>1, <1>2 DEF Answer, Filter, AllNs
  <2> QED BY <1>3, <2>1 DEF EvalQuery, TypeOK
<1> QED BY <1>2, <1>3, <1>4, <1>5, <1>6 DEF EvalQuery, TypeOK, clusterVars

(* Every step keeps the types. *)
LEMMA NextTypeOK ==
    ASSUME TypeOK, [Next]_vars
    PROVE  TypeOK'
<1>1. CASE ClusterStep
  BY <1>1, ClusterTypeOK
<1>2. CASE Reset
  BY <1>2, ResetTypeOK
<1>3. CASE EndRun
  BY <1>3, ConstantsAssumption DEF EndRun, TypeOK, clusterVars, cacheVars, historyVars
<1>4. CASE Eval
  BY <1>4, EvalTypeOK
<1>5. CASE \E q \in Queries : Query(q)
  BY <1>5, QueryTypeOK
<1>6. CASE \E objs \in SUBSET Related : EvalResource(objs)
  BY <1>6, ConstantsAssumption DEF EvalResource, TypeOK, clusterVars, historyVars
<1>7. CASE UNCHANGED vars
  BY <1>7 DEF vars, TypeOK, clusterVars, cacheVars, historyVars
<1> QED BY <1>1, <1>2, <1>3, <1>4, <1>5, <1>6, <1>7 DEF Next, EvaluatorStep

(* Type correctness of the evaluator's state for every cluster and query set. *)
THEOREM TypeCorrect == Spec => []TypeOK
<1>1. Init => TypeOK
  BY InitTypeOK
<1>2. TypeOK /\ [Next]_vars => TypeOK'
  BY NextTypeOK
<1> QED BY <1>1, <1>2, PTL DEF Spec

-----------------------------------------------------------------------------
(***************************************************************************)
(* What a query does to the caches, whichever way its load went: the       *)
(* objects new are added to them, and                                      *)
(*   - each kind among them is now cached in full in the query's scope;    *)
(*   - when the last load of the namespace succeeded, what the merged      *)
(*     matcher matches is cached, or its kind counted as loaded before, or *)
(*     the matcher is the one it was and no load was needed.               *)
(***************************************************************************)
Adds(q, new) ==
    /\ new \subseteq (Alive \cap Scope(q.ns)) \ Cached
    /\ Cached' = Cached \cup new
    /\ \A n \in Namespaces : objects'[n] = objects[n] \cup {o \in new : NsOf[o] = n}
    /\ objects'[NamespaceAll] \subseteq objects[NamespaceAll] \cup new
    /\ q.ns # NamespaceAll => objects'[NamespaceAll] = objects[NamespaceAll]
    /\ \A p \in new : \A o \in Alive \cap Scope(q.ns) :
          KindOf[o] = KindOf[p] => o \in Cached'

Indexes(q, new) ==
    LET marked == ownershipRefreshNs \cup {NsOf[o] : o \in new} IN
    \/ /\ q.by = "owner"
       /\ ownership' = ownership \cup OwnerRefs(marked, objects')
       /\ ownershipRefreshNs' = {}
    \/ /\ q.by # "owner"
       /\ ownership' = ownership
       /\ ownershipRefreshNs' = marked

Serves(q) ==
    /\ \A n \in AllNs : n # q.ns => matcher'[n] = matcher[n]
    /\ \A n \in AllNs : n # q.ns => (n \in failed' <=> n \in failed)
    /\ \A k : Match(q.gk, k) => Match(matcher'[q.ns], k)
    /\ q.ns \in failed'
       \/ (matcher' = matcher /\ failed' = failed)
       \/ \A o \in Alive \cap Scope(q.ns) :
             Match(matcher'[q.ns], KindOf[o])
                => o \in Cached' \/ KindOf[o] \in LoadedKinds(q.ns)

(* The objects a list call covers have kinds it can ask for. *)
LEMMA ScopeKinds ==
    ASSUME NEW n \in AllNs, NEW o \in Scope(n)
    PROVE  KindOf[o] \in KindsIn(n)
BY ConstantsAssumption DEF Scope, KindsIn, AllNs

(* What a query leaves in the caches, matchers and index, one case per branch of Load. *)
LEMMA QueryEffect ==
    ASSUME Inv, NEW q \in Queries, Query(q)
    PROVE  /\ \E new : Adds(q, new) /\ Indexes(q, new)
           /\ Serves(q)
           /\ MatchersOK'
           /\ UNCHANGED <<cluster, steady, partial>>
<1> DEFINE m == matcher[q.ns]
<1>1. q.ns \in AllNs /\ MatcherForm(q.gk) /\ MatcherForm(m) /\ q \in QuerySpec
  BY QueryForm DEF Inv, MatchersOK
<1>2. MatcherForm(Merged(q)) /\ \A k : Match(q.gk, k) => Match(Merged(q), k)
  BY <1>1, MergeForm, MergeCovers DEF Merged
<1>3. matcher \in [AllNs -> Matchers(Kind)] /\ objects \in [AllNs -> SUBSET Obj]
  BY DEF Inv, TypeOK
<1>4. UNCHANGED <<cluster, steady, partial>>
  BY DEF Query, QueryLoaded, QueryLoadFailed, QueryCached, EvalQuery, clusterVars
<1>5. CASE QueryLoaded(q)
  <2> DEFINE new == Listed(q.ns, Merged(q)) \ Cached
  <2>1. new \subseteq (Alive \cap Scope(q.ns)) \ Cached
    BY DEF Listed
  <2>2. \A o \in Obj : cache'[o] = IF o \in new THEN version[o] ELSE cache[o]
    BY <1>5 DEF QueryLoaded, AddToCaches
  <2>3. \A o \in Obj : version[o] # NotCached
    BY ConstantsAssumption DEF Inv, TypeOK
  <2>4. Cached' = Cached \cup new
    BY <2>1, <2>2, <2>3 DEF Cached, Alive
  <2>5. objects' = [n \in AllNs |-> IF n # NamespaceAll \/ q.ns # NamespaceAll
                                    THEN Inserted(objects, new)[n]
                                    ELSE objects[n] \cup new]
    BY <1>5 DEF QueryLoaded, AddToCaches
  <2>6. /\ \A n \in Namespaces : objects'[n] = objects[n] \cup {o \in new : NsOf[o] = n}
        /\ objects'[NamespaceAll] \subseteq objects[NamespaceAll] \cup new
        /\ q.ns # NamespaceAll => objects'[NamespaceAll] = objects[NamespaceAll]
    BY <2>5, ConstantsAssumption DEF Inserted, AllNs
  <2>7. \A o \in Alive \cap Scope(q.ns) :
           KindOf[o] \in ListedKinds(q.ns, Merged(q)) => o \in Cached'
    BY <2>4 DEF Listed
  <2>8. \A p \in new : KindOf[p] \in ListedKinds(q.ns, Merged(q))
    BY DEF Listed
  <2>9. Adds(q, new)
    BY <2>1, <2>4, <2>6, <2>7, <2>8 DEF Adds
  <2>10. Indexes(q, new)
    BY <1>1, <1>5 DEF QueryLoaded, EvalQuery, TouchedNs, Indexes
  <2>11. matcher' = [matcher EXCEPT ![q.ns] = Merged(q)] /\ failed' = failed \ {q.ns}
    BY <1>5 DEF QueryLoaded
  <2>12. MatchersOK'
    BY <1>1, <1>2, <1>3, <2>11 DEF Inv, MatchersOK
  <2>13. \A o \in Alive \cap Scope(q.ns) :
            Match(Merged(q), KindOf[o])
               => o \in Cached' \/ KindOf[o] \in LoadedKinds(q.ns)
    BY <1>1, <2>7, ScopeKinds DEF ListedKinds
  <2>14. Serves(q)
    BY <1>1, <1>2, <1>3, <2>11, <2>13 DEF Serves
  <2> QED BY <1>4, <2>9, <2>10, <2>12, <2>14
<1>6. CASE QueryLoadFailed(q)
  <2>1. UNCHANGED <<cache, objects>>
    BY <1>6 DEF QueryLoadFailed
  <2>2. Adds(q, {})
    BY <2>1 DEF Adds, Cached
  <2>3. Indexes(q, {})
    BY <1>1, <1>6 DEF QueryLoadFailed, EvalQuery, Indexes
  <2>4. matcher' = [matcher EXCEPT ![q.ns] = Merged(q)] /\ failed' = failed \cup {q.ns}
    BY <1>6 DEF QueryLoadFailed
  <2>5. MatchersOK'
    BY <1>1, <1>2, <1>3, <2>4 DEF Inv, MatchersOK
  <2>6. Serves(q)
    BY <1>1, <1>2, <1>3, <2>4 DEF Serves
  <2> QED BY <1>4, <2>2, <2>3, <2>5, <2>6
<1>7. CASE QueryCached(q)
  <2>1. UNCHANGED <<cache, objects, matcher, failed>> /\ ~Changed(m, q.gk)
    BY <1>7 DEF QueryCached, NeedsLoad
  <2>2. Adds(q, {})
    BY <2>1 DEF Adds, Cached
  <2>3. Indexes(q, {})
    BY <1>1, <1>7 DEF QueryCached, EvalQuery, Indexes
  <2>4. Serves(q)
    BY <1>1, <2>1, UnchangedCovers DEF Serves
  <2> QED BY <1>4, <2>1, <2>2, <2>3, <2>4 DEF Inv, MatchersOK
<1> QED BY <1>5, <1>6, <1>7 DEF Query

-----------------------------------------------------------------------------
(* The inductive invariant: the initial states. *)
LEMMA InitInv == Init => Inv
<1> SUFFICES ASSUME Init PROVE Inv
  OBVIOUS
<1>1. TypeOK
  BY InitTypeOK
<1>2. Cached = {}
  BY DEF Init, Cached
<1>3. CachesAgree
  BY <1>2 DEF Init, CachesAgree, AllNs
<1>4. MatchersOK
  BY DEF Init, MatchersOK, MatcherForm, EmptyMatcher, Matchers
<1>5. steady = {} /\ ownership = {}
  BY DEF Init
<1>6. SteadyAlive /\ LoadedComplete /\ MatchedComplete /\ OwnershipIndexed /\ OwnershipSound
  BY <1>5 DEF SteadyAlive, LoadedComplete, MatchedComplete, OwnershipIndexed, OwnershipSound
<1> QED BY <1>1, <1>3, <1>4, <1>6 DEF Inv

(* Reset: nothing is cached, nothing is matched, nothing is indexed. *)
LEMMA ResetInv ==
    ASSUME Inv, Reset
    PROVE  Inv'
<1>1. TypeOK'
  BY ResetTypeOK DEF Inv
<1>2. Cached' = {} /\ objects' = [n \in AllNs |-> {}]
  BY DEF Reset, ClearCaches, Cached
<1>3. CachesAgree'
  BY <1>2 DEF CachesAgree, AllNs
<1>4. matcher' = [n \in AllNs |-> EmptyMatcher] /\ ownership' = {}
  BY DEF Reset, ClearCaches
<1>5. MatchersOK'
  BY <1>4 DEF MatchersOK, MatcherForm, EmptyMatcher, Matchers
<1>6. OwnershipSound' /\ OwnershipIndexed'
  BY <1>2, <1>4 DEF OwnershipSound, OwnershipIndexed
<1>7. SteadyAlive'
  BY DEF Reset, BeginHistory, SteadyAlive, Alive, clusterVars
<1>8. LoadedComplete'
  BY <1>2 DEF LoadedComplete, AllNs
<1>9. MatchedComplete'
  BY <1>4 DEF MatchedComplete, Match, EmptyMatcher, AllNs
<1> QED BY <1>1, <1>3, <1>5, <1>6, <1>7, <1>8, <1>9 DEF Inv

(* The cluster only takes objects away from steady, within a run. *)
LEMMA ClusterInv ==
    ASSUME Inv, ClusterStep
    PROVE  Inv'
<1>1. TypeOK'
  BY ClusterTypeOK DEF Inv
<1>2. /\ UNCHANGED <<cache, objects, matcher, ownership, ownershipRefreshNs, partial, failed>>
      /\ steady' \subseteq steady
      /\ \A o \in steady' : cluster[o] = "alive" => cluster'[o] = "alive"
  <2>1. PICK o \in Obj : Create(o) \/ Delete(o) \/ Update(o)
    BY DEF ClusterStep
  <2> USE DEF cacheVars, historyVars, Inv, TypeOK
  <2>2. CASE Create(o) BY <2>2 DEF Create
  <2>3. CASE Delete(o) BY <2>3 DEF Delete
  <2>4. CASE Update(o) BY <2>4 DEF Update
  <2> QED BY <2>1, <2>2, <2>3, <2>4
<1>3. UNCHANGED <<Cached, FromEval>>
  BY <1>2 DEF Cached, FromEval
<1>4. SteadyAlive'
  BY <1>2 DEF Inv, SteadyAlive, Alive
<1>5. CachesAgree' /\ OwnershipSound' /\ MatchersOK'
  BY <1>2, <1>3 DEF Inv, CachesAgree, OwnershipSound, MatchersOK
<1>6. LoadedComplete'
  BY <1>2, <1>3 DEF Inv, LoadedComplete
<1>7. MatchedComplete'
  BY <1>2, <1>3 DEF Inv, MatchedComplete
<1>8. OwnershipIndexed'
  BY <1>2, <1>3 DEF Inv, OwnershipIndexed
<1> QED BY <1>1, <1>4, <1>5, <1>6, <1>7, <1>8 DEF Inv

(* Steps that leave the caches, steady and partial alone. *)
LEMMA QuietInv ==
    ASSUME Inv, TypeOK',
           UNCHANGED <<cluster, cache, objects, matcher, ownership,
                       ownershipRefreshNs, steady, partial, failed>>
    PROVE  Inv'
<1>1. UNCHANGED <<Cached, FromEval, Alive>>
  BY DEF Cached, FromEval, Alive
<1>2. CachesAgree' /\ OwnershipSound' /\ MatchersOK' /\ SteadyAlive'
  BY <1>1 DEF Inv, CachesAgree, OwnershipSound, MatchersOK, SteadyAlive
<1>3. LoadedComplete' /\ MatchedComplete' /\ OwnershipIndexed'
  BY <1>1 DEF Inv, LoadedComplete, MatchedComplete, OwnershipIndexed
<1> QED BY <1>2, <1>3 DEF Inv

(***************************************************************************)
(* Eval caches at most the requested object o.  When the kind of o counted *)
(* as loaded and not as partial, o was not steady, or it would have been   *)
(* cached already; otherwise the kind is partial from now on.              *)
(***************************************************************************)
LEMMA EvalInv ==
    ASSUME Inv, Eval
    PROVE  Inv'
<1> DEFINE o == Requested[next]
<1>1. TypeOK'
  BY EvalTypeOK DEF Inv
<1>2. UNCHANGED <<cluster, matcher, ownership, ownershipRefreshNs, steady, failed>>
  BY DEF Eval, clusterVars
<1>3. CASE UNCHANGED <<cache, objects, partial>>
  BY <1>1, <1>2, <1>3, QuietInv
<1>4. CASE o \notin Cached /\ CacheRequested(o)
  <2>1. o \in Obj /\ NsOf[o] \in Namespaces
    BY RequestedType, ConstantsAssumption DEF Eval, EvalNext
  <2>2. Cached' = Cached \cup {o}
    BY <1>4, <2>1, ConstantsAssumption DEF CacheRequested, Cached, Inv, TypeOK, Version
  <2>3. /\ \A n \in Namespaces : objects'[n] = objects[n] \cup {p \in {o} : NsOf[p] = n}
        /\ objects'[NamespaceAll] = objects[NamespaceAll]
    BY <1>4, ConstantsAssumption DEF CacheRequested, Inserted, AllNs
  <2>4. CachesAgree'
    BY <2>1, <2>2, <2>3 DEF Inv, CachesAgree
  <2>5. OwnershipSound' /\ MatchersOK' /\ SteadyAlive'
    BY <1>2, <2>2 DEF Inv, OwnershipSound, MatchersOK, SteadyAlive, Alive
  <2>6. FromEval \subseteq FromEval'
    BY <1>4 DEF CacheRequested, FromEval
  <2>7. \A p \in steady \ FromEval' :
           NsOf[p] = NsOf[o] /\ KindOf[p] = KindOf[o] => p \in Cached
    <3> SUFFICES ASSUME NEW p \in steady \ FromEval',
                        NsOf[p] = NsOf[o], KindOf[p] = KindOf[o], p \notin Cached
                 PROVE  FALSE
      OBVIOUS
    <3>1. p \in Obj
      BY DEF Inv, TypeOK
    <3>2. KindOf[o] \in LoadedKinds(NsOf[o])
      BY <1>4, <3>1 DEF CacheRequested, FromEval
    <3>3. PICK c \in Cached : NsOf[c] = NsOf[p] /\ KindOf[c] = KindOf[p]
      BY <2>1, <3>2 DEF LoadedKinds, Inv, CachesAgree
    <3> QED BY <2>6, <3>3 DEF Inv, LoadedComplete
  <2>8. o \notin steady \ FromEval'
    BY <1>4, <2>7
  <2>9. LoadedComplete'
    BY <1>2, <2>2, <2>3, <2>6, <2>7 DEF Inv, LoadedComplete
  <2>10. MatchedComplete'
    BY <1>2, <2>2, <2>6 DEF Inv, MatchedComplete
  <2>11. OwnershipIndexed'
    BY <1>2, <2>2, <2>6, <2>8 DEF Inv, OwnershipIndexed
  <2> QED BY <1>1, <2>4, <2>5, <2>9, <2>10, <2>11 DEF Inv
<1> QED BY <1>3, <1>4 DEF Eval

(***************************************************************************)
(* A query preserves the invariant: what it adds is cached in full in its  *)
(* scope, so no shortcut is taken for a kind that is not.                  *)
(***************************************************************************)
LEMMA QueryInv ==
    ASSUME Inv, NEW q \in Queries, Query(q)
    PROVE  Inv'
<1>1. TypeOK'
  BY QueryTypeOK DEF Inv
<1>2. PICK new : Adds(q, new) /\ Indexes(q, new)
  BY QueryEffect
<1>3. Serves(q) /\ MatchersOK' /\ UNCHANGED <<cluster, steady, partial>>
  BY QueryEffect
<1>4. /\ new \subseteq Obj /\ new \subseteq Scope(q.ns)
      /\ Cached' = Cached \cup new
      /\ UNCHANGED <<FromEval, Alive>>
      /\ q.ns \in AllNs
  BY <1>2, <1>3, QueryForm DEF Adds, FromEval, Alive
<1>5. CachesAgree'
  BY <1>2, <1>4 DEF Adds, Inv, CachesAgree
<1>6. OwnershipSound'
  <2>1. \A n \in Namespaces : objects'[n] \subseteq Cached'
    BY <1>5 DEF CachesAgree
  <2>2. \A n \in ownershipRefreshNs \cup {NsOf[o] : o \in new} : n \in Namespaces
    BY <1>4, ConstantsAssumption DEF Inv, TypeOK
  <2>3. \A e \in OwnerRefs(ownershipRefreshNs \cup {NsOf[o] : o \in new}, objects') :
           e[2] \in Cached' /\ e[1] \in OwnersOf[e[2]]
    BY <2>1, <2>2 DEF OwnerRefs
  <2> QED BY <1>2, <1>4, <2>3 DEF Indexes, Inv, OwnershipSound
<1>7. SteadyAlive'
  BY <1>3, <1>4 DEF Inv, SteadyAlive
<1>8. LoadedComplete'
  <2> SUFFICES ASSUME NEW o \in steady \ Cached'
               PROVE  /\ o \notin FromEval
                            => \A p \in Cached' : NsOf[p] = NsOf[o] => KindOf[p] # KindOf[o]
                      /\ \A p \in objects'[NamespaceAll] : KindOf[p] # KindOf[o]
    BY <1>3, <1>4 DEF LoadedComplete
  <2>1. o \in Alive /\ o \in Obj /\ o \notin Cached
    BY <1>4 DEF Inv, SteadyAlive, Alive
  <2>2. \A p \in new : o \in Scope(q.ns) => KindOf[p] # KindOf[o]
    BY <1>2, <2>1 DEF Adds
  <2>3. \A p \in new : NsOf[p] = NsOf[o] => o \in Scope(q.ns)
    BY <1>4, <2>1 DEF Scope
  <2>4. q.ns = NamespaceAll => o \in Scope(q.ns)
    BY <2>1 DEF Scope
  <2>5. o \notin FromEval => \A p \in Cached' : NsOf[p] = NsOf[o] => KindOf[p] # KindOf[o]
    BY <1>4, <2>1, <2>2, <2>3 DEF Inv, LoadedComplete
  <2>6. \A p \in objects'[NamespaceAll] : KindOf[p] # KindOf[o]
    BY <1>2, <2>1, <2>2, <2>4 DEF Adds, Inv, LoadedComplete
  <2> QED BY <2>5, <2>6
<1>9. MatchedComplete'
  <2> SUFFICES ASSUME NEW n \in AllNs \ failed',
                      NEW o \in (steady \cap Scope(n)) \ (Cached' \cup FromEval),
                      Match(matcher'[n], KindOf[o])
               PROVE  FALSE
    BY <1>3, <1>4 DEF MatchedComplete, Scope
  <2>1. o \in Alive /\ o \in Obj /\ o \notin Cached
    BY <1>4 DEF Inv, SteadyAlive, Alive
  <2>2. CASE n # q.ns \/ (matcher' = matcher /\ failed' = failed)
    BY <1>3, <2>1, <2>2 DEF Serves, Inv, MatchedComplete
  <2>3. CASE n = q.ns /\ ~(matcher' = matcher /\ failed' = failed)
    <3>1. KindOf[o] \in LoadedKinds(n)
      BY <1>3, <2>1, <2>3 DEF Serves
    <3>2. PICK p \in objects[n] : KindOf[p] = KindOf[o]
      BY <3>1 DEF LoadedKinds
    <3>3. CASE n = NamespaceAll
      BY <2>1, <3>2, <3>3 DEF Inv, LoadedComplete
    <3>4. CASE n \in Namespaces
      <4>1. p \in Cached /\ NsOf[p] = n /\ NsOf[o] = n
        BY <2>1, <3>2, <3>4, ConstantsAssumption DEF Inv, CachesAgree, Scope
      <4> QED BY <2>1, <3>2, <4>1 DEF Inv, LoadedComplete
    <3> QED BY <3>3, <3>4 DEF AllNs
  <2> QED BY <2>2, <2>3
<1>10. OwnershipIndexed'
  <2> DEFINE marked == ownershipRefreshNs \cup {NsOf[o] : o \in new}
  <2> SUFFICES ASSUME NEW o \in (steady \cap Cached') \ FromEval,
                      NsOf[o] \notin ownershipRefreshNs',
                      NEW w \in OwnersOf[o]
               PROVE  <<w, o>> \in ownership'
    BY <1>3, <1>4 DEF OwnershipIndexed
  <2>1. o \in Obj /\ NsOf[o] \in Namespaces
    BY ConstantsAssumption DEF Inv, TypeOK
  <2>2. ownership \subseteq ownership'
    BY <1>2 DEF Indexes
  <2>3. CASE NsOf[o] \notin marked
    <3>1. o \in Cached /\ NsOf[o] \notin ownershipRefreshNs
      BY <1>4, <2>3
    <3> QED BY <2>2, <3>1 DEF Inv, OwnershipIndexed
  <2>4. CASE NsOf[o] \in marked
    <3>1. ownership' = ownership \cup OwnerRefs(marked, objects')
      BY <1>2, <2>4 DEF Indexes
    <3>2. o \in objects'[NsOf[o]]
      BY <1>5, <2>1 DEF CachesAgree
    <3> QED BY <2>4, <3>1, <3>2 DEF OwnerRefs
  <2> QED BY <2>3, <2>4
<1> QED BY <1>1, <1>3, <1>5, <1>6, <1>7, <1>8, <1>9, <1>10 DEF Inv

(* Every step keeps the inductive invariant. *)
LEMMA NextInv ==
    ASSUME Inv, [Next]_vars
    PROVE  Inv'
<1>1. CASE ClusterStep
  BY <1>1, ClusterInv
<1>2. CASE Reset
  BY <1>2, ResetInv
<1>3. CASE EndRun
  BY <1>3, NextTypeOK, QuietInv DEF Inv, EndRun, clusterVars, cacheVars, historyVars
<1>4. CASE Eval
  BY <1>4, EvalInv
<1>5. CASE \E q \in Queries : Query(q)
  BY <1>5, QueryInv
<1>6. CASE \E objs \in SUBSET Related : EvalResource(objs)
  BY <1>6, NextTypeOK, QuietInv DEF Inv, EvalResource, clusterVars, historyVars
<1>7. CASE UNCHANGED vars
  BY <1>7, NextTypeOK, QuietInv DEF Inv, vars, clusterVars, cacheVars, historyVars
<1> QED BY <1>1, <1>2, <1>3, <1>4, <1>5, <1>6, <1>7 DEF Next, EvaluatorStep

(* The inductive invariant holds throughout every behaviour. *)
LEMMA Invariance == Spec => []Inv
<1>1. Init => Inv
  BY InitInv
<1>2. Inv /\ [Next]_vars => Inv'
  BY NextInv
<1> QED BY <1>1, <1>2, PTL DEF Spec

(* The UID cache and the namespace caches hold the same objects at all times. *)
THEOREM CachesAlwaysAgree == Spec => []CachesAgree
<1>1. Inv => CachesAgree
  BY DEF Inv
<1> QED BY <1>1, Invariance, PTL

(* The ownership index never names a stranger, nor a child of an earlier run. *)
THEOREM OwnershipAlwaysSound == Spec => []OwnershipSound
<1>1. Inv => OwnershipSound
  BY DEF Inv
<1> QED BY <1>1, Invariance, PTL

(* Once a query is served, the answer has what was there since the run began. *)
LEMMA AnswerHasAll ==
    ASSUME Inv, Inv', NEW q \in Queries, Query(q), q.ns \notin failed'
    PROVE  Expected(q)' \ FromEval' \subseteq Answer(q)'
<1> SUFFICES ASSUME NEW o, o \in Expected(q)', o \notin FromEval'
             PROVE  o \in Answer(q)'
  OBVIOUS
<1>1. Serves(q) /\ q.ns \in AllNs
  BY QueryEffect, QueryForm
<1>2. o \in steady' /\ o \in Scope(q.ns) /\ Match(q.gk, KindOf[o])
  BY DEF Expected, Scope
<1>3. o \in Cached'
  <2>1. Match(matcher'[q.ns], KindOf[o])
    BY <1>1, <1>2 DEF Serves
  <2> QED BY <1>1, <1>2, <2>1 DEF Inv, MatchedComplete, Scope
<1>4. o \in Obj /\ NsOf[o] \in Namespaces
  BY <1>3, ConstantsAssumption DEF Cached
<1>5. o \in objects'[NsOf[o]]
  BY <1>3, <1>4 DEF Inv, CachesAgree
<1>6. o \in Filter(q.ns, q.gk)'
  BY <1>1, <1>2, <1>4, <1>5 DEF Filter, Scope, AllNs
<1>7. CASE q.by = "owner"
  <2>1. ownershipRefreshNs' = {}
    BY <1>7, QueryEffect DEF Indexes
  <2>2. q.owner \in OwnersOf[o]
    BY <1>7 DEF Expected
  <2>3. <<q.owner, o>> \in ownership'
    BY <1>2, <1>3, <2>1, <2>2 DEF Inv, OwnershipIndexed
  <2> QED BY <1>6, <1>7, <2>3 DEF Answer
<1>8. CASE q.by = "sel"
  <2>1. o \in q.sel
    BY <1>8 DEF Expected
  <2> QED BY <1>6, <1>8, <2>1 DEF Answer
<1>9. q.by \in {"owner", "sel"}
  BY QueryForm DEF QuerySpec
<1> QED BY <1>7, <1>8, <1>9

(***************************************************************************)
(* The answer of every query whose namespace has no failed list call has   *)
(* every object that was there since the run began, except of kinds that   *)
(* Eval cached an object of before they were listed.                       *)
(***************************************************************************)
THEOREM AnswersAlwaysComplete == Spec => AnswersComplete
<1>1. Inv /\ Inv' /\ [Next]_vars
        => [\A q \in Queries : Query(q) /\ q.ns \notin failed'
               => Expected(q)' \ FromEval' \subseteq Answer(q)']_vars
  BY AnswerHasAll
<1> QED BY <1>1, Invariance, PTL DEF Spec, AnswersComplete

-----------------------------------------------------------------------------
(* What makes freshness inductive: versions only grow, the dead stay dead. *)
RunHistory ==
    /\ \A o \in Obj : version[o] >= base[o]
    /\ dead \subseteq {o \in Obj : cluster[o] = "gone"}

FreshInv == TypeOK /\ RunHistory /\ CacheFresh /\ NoGhosts

(* A query caches only what is in the cluster, at its current version. *)
LEMMA FreshQuery ==
    ASSUME FreshInv, NEW q \in Queries, Query(q)
    PROVE  RunHistory' /\ CacheFresh' /\ NoGhosts'
<1>1. UNCHANGED <<cluster, version, base, dead>>
  BY DEF Query, QueryLoaded, QueryLoadFailed, QueryCached, EvalQuery, clusterVars
<1>2. RunHistory'
  BY <1>1 DEF FreshInv, RunHistory
<1>3. \A o \in Obj : cache'[o] = cache[o] \/ (o \in Alive /\ cache'[o] = version[o])
  <2>1. CASE QueryLoaded(q)
    BY <2>1 DEF QueryLoaded, AddToCaches, Listed
  <2>2. CASE QueryLoadFailed(q)
    BY <2>2 DEF QueryLoadFailed
  <2>3. CASE QueryCached(q)
    BY <2>3 DEF QueryCached
  <2> QED BY <2>1, <2>2, <2>3 DEF Query
<1>4. CacheFresh'
  BY <1>1, <1>3 DEF FreshInv, CacheFresh, RunHistory, Cached
<1>5. NoGhosts'
  BY <1>1, <1>3 DEF FreshInv, NoGhosts, RunHistory, Cached, Alive
<1> QED BY <1>2, <1>4, <1>5

(* Eval caches a stale copy of requested objects only. *)
LEMMA FreshEval ==
    ASSUME FreshInv, Eval
    PROVE  RunHistory' /\ CacheFresh' /\ NoGhosts'
<1>1. UNCHANGED <<cluster, version, base, dead>>
  BY DEF Eval, clusterVars
<1>2. \A o \in Obj \ RequestedObjs : cache'[o] = cache[o]
  <2>1. next \in DOMAIN Requested
    BY DEF Eval, EvalNext
  <2>2. Requested[next] \in RequestedObjs
    BY <2>1 DEF RequestedObjs
  <2>3. cache' = cache \/ cache' = [cache EXCEPT ![Requested[next]] = 0]
    BY DEF Eval, CacheRequested
  <2> QED BY <2>2, <2>3 DEF FreshInv, TypeOK
<1>3. RunHistory' /\ CacheFresh' /\ NoGhosts'
  BY <1>1, <1>2 DEF FreshInv, RunHistory, CacheFresh, NoGhosts, Cached
<1> QED BY <1>3

(* Versions only grow and the dead of a run are fixed when it begins. *)
LEMMA FreshCluster ==
    ASSUME FreshInv, ClusterStep
    PROVE  RunHistory' /\ CacheFresh' /\ NoGhosts'
<1>1. PICK o \in Obj : Create(o) \/ Delete(o) \/ Update(o)
  BY DEF ClusterStep
<1>2. UNCHANGED <<cache, base, dead>>
  BY <1>1 DEF Create, Delete, Update, cacheVars, historyVars
<1>3. RunHistory'
  <2>1. CASE Create(o)
    BY <1>2, <2>1 DEF Create, FreshInv, RunHistory, TypeOK
  <2>2. CASE Delete(o)
    BY <1>2, <2>2 DEF Delete, FreshInv, RunHistory, TypeOK
  <2>3. CASE Update(o)
    BY <1>2, <2>3 DEF Update, FreshInv, RunHistory, TypeOK, Version
  <2> QED BY <1>1, <2>1, <2>2, <2>3
<1>4. CacheFresh' /\ NoGhosts'
  BY <1>2 DEF FreshInv, CacheFresh, NoGhosts, Cached
<1> QED BY <1>3, <1>4

(* After Reset nothing is cached. *)
LEMMA FreshReset ==
    ASSUME FreshInv, Reset
    PROVE  RunHistory' /\ CacheFresh' /\ NoGhosts'
<1>1. Cached' = {} /\ UNCHANGED <<cluster, version>>
  BY DEF Reset, ClearCaches, Cached, clusterVars
<1>2. RunHistory'
  BY <1>1 DEF Reset, BeginHistory, RunHistory, FreshInv, TypeOK, Version
<1> QED BY <1>1, <1>2 DEF CacheFresh, NoGhosts

(* Every step keeps the freshness invariant. *)
LEMMA FreshNext ==
    ASSUME FreshInv, [Next]_vars
    PROVE  FreshInv'
<1>1. TypeOK'
  BY NextTypeOK DEF FreshInv
<1>2. UNCHANGED <<cluster, version, cache, base, dead>>
         => RunHistory' /\ CacheFresh' /\ NoGhosts'
  BY DEF FreshInv, RunHistory, CacheFresh, NoGhosts, Cached
<1>3. CASE EndRun
  BY <1>1, <1>2, <1>3 DEF EndRun, clusterVars, cacheVars, historyVars, FreshInv
<1>4. CASE \E objs \in SUBSET Related : EvalResource(objs)
  BY <1>1, <1>2, <1>4 DEF EvalResource, clusterVars, historyVars, FreshInv
<1>5. CASE UNCHANGED vars
  BY <1>1, <1>2, <1>5 DEF vars, clusterVars, cacheVars, historyVars, FreshInv
<1>6. CASE ClusterStep
  BY <1>1, <1>6, FreshCluster DEF FreshInv
<1>7. CASE Reset
  BY <1>1, <1>7, FreshReset DEF FreshInv
<1>8. CASE Eval
  BY <1>1, <1>8, FreshEval DEF FreshInv
<1>9. CASE \E q \in Queries : Query(q)
  BY <1>1, <1>9, FreshQuery DEF FreshInv
<1> QED BY <1>3, <1>4, <1>5, <1>6, <1>7, <1>8, <1>9 DEF Next, EvaluatorStep

(* The freshness invariant holds throughout every behaviour. *)
LEMMA FreshInvariance == Spec => []FreshInv
<1>1. Init => FreshInv
  <2> SUFFICES ASSUME Init PROVE FreshInv
    OBVIOUS
  <2>1. Cached = {} /\ dead = {} /\ base = version
    BY DEF Init, Cached
  <2>2. RunHistory
    BY <2>1, InitTypeOK DEF RunHistory, TypeOK, Version
  <2> QED BY <2>1, <2>2, InitTypeOK DEF FreshInv, CacheFresh, NoGhosts
<1>2. FreshInv /\ [Next]_vars => FreshInv'
  BY FreshNext
<1> QED BY <1>1, <1>2, PTL DEF Spec

(* Requested objects aside, no cached copy is older than the run. *)
THEOREM CacheAlwaysFresh == Spec => []CacheFresh
<1>1. FreshInv => CacheFresh
  BY DEF FreshInv
<1> QED BY <1>1, FreshInvariance, PTL

(* Requested objects aside, no object deleted before the run is in the cache. *)
THEOREM NeverGhosts == Spec => []NoGhosts
<1>1. FreshInv => NoGhosts
  BY DEF FreshInv
<1> QED BY <1>1, FreshInvariance, PTL
=============================================================================
