--------------------------- MODULE AnalysisProofs ---------------------------
(***************************************************************************)
(* Proofs about module Analysis, for every cluster and every set of        *)
(* queries.                                                                *)
(***************************************************************************)
EXTENDS Analysis, EvaluatorProofs, SequenceTheorems, WellFoundedInduction

(* A step of the analyzers is a step of the evaluator, or leaves it alone. *)
LEMMA StepImplements == AnalysisNext => [Next]_vars
<1> SUFFICES ASSUME AnalysisNext PROVE [Next]_vars
  OBVIOUS
<1>1. CASE ClusterChange
  BY <1>1, AnalysisAssumption DEF ClusterChange, ClusterStep, Next
<1>2. CASE BeginRun \/ SendUpdate \/ EvalRequested
  BY <1>2 DEF BeginRun, SendUpdate, EvalRequested, EvaluatorStep, Next
<1>3. CASE RunQuery
  BY <1>3 DEF RunQuery, Query, EvaluatorStep, Next
<1>4. CASE RunRead
  <2> DEFINE objs == Named(Head(Top.todo).entry) \cap Alive
  <2>1. EvalResource(objs)
    BY <1>4 DEF RunRead
  <2>2. objs \in SUBSET Related
    BY DEF Named
  <2> QED BY <2>1, <2>2 DEF EvaluatorStep, Next
<1>5. CASE RunReadFails \/ AnalyzeNext \/ Conclude
  BY <1>5 DEF RunReadFails, AnalyzeNext, Conclude
<1> QED BY <1>1, <1>2, <1>3, <1>4, <1>5 DEF AnalysisNext, PollerStep

(***************************************************************************)
(* Every run of the analyzers is a behaviour of module Evaluator: what is  *)
(* proved there for every order of queries holds with the analyzers in     *)
(* place.                                                                  *)
(***************************************************************************)
THEOREM AnalysisImplementsEvaluator == AnalysisSpec => ImplementsEvaluator
<1>1. AnalysisInit => Init
  BY DEF AnalysisInit
<1>2. [AnalysisNext]_avars => [Next]_vars
  BY StepImplements DEF avars
<1> QED BY <1>1, <1>2, PTL DEF AnalysisSpec, ImplementsEvaluator, Spec

-----------------------------------------------------------------------------
(***************************************************************************)
(* Freshness of the report.  A copy that is under analysis or in the       *)
(* report is sound: it is of an object that was not deleted when the run   *)
(* began, in a version at least as new and no newer than the cluster's,    *)
(* and it is the cached copy unless the object is one that is read past    *)
(* the caches.  Requested objects may be stale below another object, so    *)
(* the invariant has to say apart that those still to be evaluated, and    *)
(* those at the root of a tree, are not.                                   *)
(***************************************************************************)
FreshCopies ==
    {c \in Obj \X Nat : c[1] \notin dead /\ c[2] >= base[c[1]]}

SoundCopies ==
    {c \in Obj \X Nat :
        /\ c[1] \in RequestedObjs \/ c \in FreshCopies
        /\ c[1] \in ReadDirectly \/ cache[c[1]] = c[2]
        /\ c[2] <= version[c[1]]}

PendingFresh ==
    next # 0 =>
        \A i \in DOMAIN Requested :
            i >= next /\ Requested[i] \in Cached
                => <<Requested[i], cache[Requested[i]]>> \in FreshCopies

(* Only Eval caches an old copy: of an object of a kind that it caches first, *)
(* or of one that was deleted.                                                *)
CacheHistory ==
    /\ \A o \in RequestedObjs : cluster[o] # "unborn"
    /\ \A o \in Cached :
          /\ cluster[o] # "unborn"
          /\ cache[o] <= version[o]
          /\ <<o, cache[o]>> \in FreshCopies \/ o \in FromEval \/ o \notin steady

(* A call of Analyze, or a call still to be made *)
IsCall(c) == DOMAIN c = {"with", "obj", "version", "kids", "todo"}
CopyOf(c) == <<c.obj, c.version>>

SoundStack(s, sound, fresh) ==
    /\ \E S : s \in Seq(S)
    /\ \A i \in 1..Len(s) :
          /\ IsCall(s[i])
          /\ CopyOf(s[i]) \in sound
          /\ i = 1 => CopyOf(s[i]) \in fresh
          /\ \A k \in s[i].kids : CopyOf(k) \in sound

CallsSound ==
    /\ stack # <<>> => next # 0
    /\ SoundStack(stack, SoundCopies, FreshCopies)

NodeCopy(n) == <<ObjectOf(n), n.version>>

NodesSound ==
    \A n \in nodes :
        \/ n.version = NotCached /\ ObjectOf(n) \in RequestedObjs
        \/ /\ NodeCopy(n) \in SoundCopies
           /\ Len(n.path) > 1 \/ NodeCopy(n) \in FreshCopies

(* Requested objects are objects, and among those read past the caches. *)
LEMMA RequestedDirectly == RequestedObjs \subseteq Obj \cap ReadDirectly
BY ConstantsAssumption DEF RequestedObjs, ReadDirectly, Homonym

(* What a step within a run leaves alone, or changes in one direction only. *)
KeepsRun ==
    /\ UNCHANGED <<dead, base>>
    /\ \A o \in Cached : cache'[o] = cache[o]
    /\ \A o \in Obj : version[o] \in Nat /\ version'[o] \in Nat /\ version[o] <= version'[o]
    /\ steady' \subseteq steady
    /\ partial \subseteq partial'

(* Sound copies stay sound within a run. *)
LEMMA SoundStays ==
    ASSUME KeepsRun, TypeOK
    PROVE  /\ FreshCopies' = FreshCopies
           /\ SoundCopies \subseteq SoundCopies'
<1>1. FreshCopies' = FreshCopies
  BY DEF KeepsRun, FreshCopies
<1>2. \A o \in Obj : cache[o] \in Nat => cache'[o] = cache[o]
  BY ConstantsAssumption DEF KeepsRun, Cached, Version
<1>3. \A c \in Obj \X Nat : c[2] <= version[c[1]] => c[2] <= version'[c[1]]
  BY DEF KeepsRun
<1>4. SoundCopies \subseteq SoundCopies'
  BY <1>1, <1>2, <1>3 DEF SoundCopies
<1> QED BY <1>1, <1>4

(* Only Reset begins a new history or takes anything from the caches. *)
LEMMA OnlyResetForgets ==
    ASSUME TypeOK, [Next]_vars, ~Reset
    PROVE  KeepsRun
<1>1. version \in [Obj -> Nat] /\ version' \in [Obj -> Nat]
  BY NextTypeOK DEF TypeOK, Version
<1>2. \A o \in Obj : version[o] \in Nat /\ version'[o] \in Nat /\ version[o] <= version'[o]
  <2>1. CASE UNCHANGED version
    BY <1>1, <2>1
  <2>2. CASE \E o \in Obj : version' = [version EXCEPT ![o] = @ + 1]
    BY <1>1, <2>2
  <2>3. ClusterStep => UNCHANGED version \/ \E o \in Obj : version' = [version EXCEPT ![o] = @ + 1]
    BY DEF ClusterStep, Create, Delete, Update
  <2>4. EvaluatorStep \/ UNCHANGED vars => UNCHANGED version
    BY DEF EvaluatorStep, Reset, EndRun, Eval, Query, QueryLoaded, QueryLoadFailed, QueryCached,
           EvalQuery, EvalResource, clusterVars, vars
  <2> QED BY <2>1, <2>2, <2>3, <2>4 DEF Next
<1> USE <1>2 DEF KeepsRun
<1>3. CASE ClusterStep
  BY <1>3 DEF ClusterStep, Create, Delete, Update, cacheVars, historyVars
<1>4. CASE EndRun
  BY <1>4 DEF EndRun, cacheVars, historyVars
<1>5. CASE Eval
  <2>1. \/ cache' = cache
        \/ Requested[next] \notin Cached /\ cache' = [cache EXCEPT ![Requested[next]] = 0]
    BY <1>5 DEF Eval, CacheRequested
  <2>2. UNCHANGED <<dead, base, steady>> /\ partial \subseteq partial'
    BY <1>5 DEF Eval, CacheRequested
  <2> QED BY <2>1, <2>2 DEF TypeOK, Cached
<1>6. CASE \E q \in Queries : Query(q)
  <2>1. PICK q \in Queries : Query(q)
    BY <1>6
  <2>2. UNCHANGED <<dead, base, steady, partial>>
    BY <2>1 DEF Query, QueryLoaded, QueryLoadFailed, QueryCached, EvalQuery
  <2>3. CASE QueryLoaded(q)
    BY <2>2, <2>3 DEF QueryLoaded, AddToCaches, Cached
  <2>4. CASE QueryLoadFailed(q) \/ QueryCached(q)
    BY <2>2, <2>4 DEF QueryLoadFailed, QueryCached
  <2> QED BY <2>1, <2>3, <2>4 DEF Query
<1>7. CASE \E objs \in SUBSET Related : EvalResource(objs)
  BY <1>7 DEF EvalResource, historyVars
<1>8. CASE UNCHANGED vars
  BY <1>8 DEF vars, cacheVars, historyVars
<1> QED BY <1>3, <1>4, <1>5, <1>6, <1>7, <1>8 DEF Next, EvaluatorStep

(* What a step adds to the cache is a current copy, or the object Eval reads. *)
LEMMA AddedToCache ==
    ASSUME FreshInv, [Next]_vars, ~Reset, NEW o \in Obj, o \notin Cached, o \in Cached'
    PROVE  \/ o \in Alive /\ cache'[o] = version[o]
           \/ Eval /\ o = Requested[next]
<1>1. CASE Eval
  BY <1>1 DEF Eval, CacheRequested, Cached, FreshInv, TypeOK
<1>2. CASE \E q \in Queries : Query(q)
  <2>1. PICK q \in Queries : Query(q)
    BY <1>2
  <2>2. CASE QueryLoaded(q)
    BY <2>2 DEF QueryLoaded, AddToCaches, Listed, Cached
  <2>3. CASE QueryLoadFailed(q) \/ QueryCached(q)
    BY <2>3 DEF QueryLoadFailed, QueryCached, Cached
  <2> QED BY <2>1, <2>2, <2>3 DEF Query
<1>3. CASE cache' = cache
  BY <1>3 DEF Cached
<1>4. ClusterStep \/ EndRun \/ (\E objs \in SUBSET Related : EvalResource(objs)) => cache' = cache
  BY DEF ClusterStep, Create, Delete, Update, EndRun, EvalResource, cacheVars
<1>5. UNCHANGED vars => cache' = cache
  BY DEF vars, cacheVars
<1> QED BY <1>1, <1>2, <1>3, <1>4, <1>5 DEF Next, EvaluatorStep

(* A current copy is fresh. *)
LEMMA CurrentFresh ==
    ASSUME FreshInv, NEW o \in Alive
    PROVE  o \in Obj /\ <<o, version[o]>> \in FreshCopies
BY DEF FreshInv, RunHistory, TypeOK, Version, Alive, FreshCopies

(* The index of the next requested object grows within a run. *)
LEMMA NextGrows ==
    ASSUME TypeOK, [Next]_vars, ~Reset, next' # 0
    PROVE  /\ next # 0
           /\ next \in Nat /\ next' \in Nat
           /\ next' >= next
           /\ Eval => next \in DOMAIN Requested /\ next' = next + 1
<1>1. next \in Nat
  BY DEF TypeOK
<1>2. CASE Eval
  BY <1>1, <1>2, ConstantsAssumption DEF Eval, EvalNext
<1>3. ~EndRun
  BY DEF EndRun
<1>4. CASE UNCHANGED next /\ ~Eval
  BY <1>1, <1>4
<1>5. ClusterStep \/ (\E objs \in SUBSET Related : EvalResource(objs)) => UNCHANGED next
  BY DEF ClusterStep, Create, Delete, Update, EvalResource
<1>6. (\E q \in Queries : Query(q)) \/ UNCHANGED vars => UNCHANGED next
  BY DEF Query, QueryLoaded, QueryLoadFailed, QueryCached, EvalQuery, vars
<1> QED BY <1>2, <1>3, <1>4, <1>5, <1>6 DEF Next, EvaluatorStep

(* A requested object cached before its turn was cached by a query. *)
LEMMA PendingNext ==
    ASSUME FreshInv, PendingFresh, [Next]_vars
    PROVE  PendingFresh'
<1>1. CASE Reset
  BY <1>1 DEF Reset, ClearCaches, Cached, PendingFresh
<1>2. CASE ~Reset
  <2> SUFFICES ASSUME next' # 0, NEW i \in DOMAIN Requested, i >= next', Requested[i] \in Cached'
               PROVE  <<Requested[i], cache'[Requested[i]]>> \in FreshCopies'
    BY DEF PendingFresh
  <2> DEFINE o == Requested[i]
  <2>1. TypeOK /\ o \in Obj /\ i \in Nat
    BY ConstantsAssumption DEF FreshInv
  <2>2. /\ next # 0 /\ next \in Nat /\ next' \in Nat /\ next' >= next
        /\ Eval => next \in DOMAIN Requested /\ next' = next + 1
    BY <1>2, <2>1, NextGrows
  <2>3. KeepsRun
    BY <1>2, <2>1, OnlyResetForgets
  <2>4. CASE o \in Cached
    <3>1. <<o, cache[o]>> \in FreshCopies
      BY <2>1, <2>2, <2>4 DEF PendingFresh
    <3>2. cache'[o] = cache[o]
      BY <2>3, <2>4 DEF KeepsRun
    <3> QED BY <2>1, <2>3, <3>1, <3>2, SoundStays
  <2>5. CASE o \notin Cached
    <3>1. ~(Eval /\ o = Requested[next])
      BY <2>1, <2>2, AnalysisAssumption
    <3>2. o \in Alive /\ cache'[o] = version[o]
      BY <1>2, <2>1, <2>5, <3>1, AddedToCache
    <3> QED BY <2>1, <2>3, <3>2, CurrentFresh, SoundStays
  <2> QED BY <2>4, <2>5
<1> QED BY <1>1, <1>2

(* No step makes an object unborn. *)
LEMMA BornStays ==
    ASSUME TypeOK, [Next]_vars
    PROVE  \A o \in Obj : cluster[o] # "unborn" => cluster'[o] # "unborn"
<1>1. CASE ClusterStep
  BY <1>1 DEF ClusterStep, Create, Delete, Update, TypeOK
<1>2. EvaluatorStep \/ UNCHANGED vars => UNCHANGED cluster
  BY DEF EvaluatorStep, Reset, EndRun, Eval, Query, QueryLoaded, QueryLoadFailed, QueryCached,
         EvalQuery, EvalResource, clusterVars, vars
<1> QED BY <1>1, <1>2 DEF Next

(* An object that Eval caches is of a kind not listed before, or not there. *)
LEMMA CacheHistoryNext ==
    ASSUME Inv, FreshInv, CacheHistory, [Next]_vars
    PROVE  CacheHistory'
<1>1. TypeOK /\ RequestedObjs \subseteq Obj
  BY RequestedDirectly DEF FreshInv
<1>2. \A o \in RequestedObjs : cluster'[o] # "unborn"
  BY <1>1, BornStays DEF CacheHistory
<1>3. CASE Reset
  BY <1>2, <1>3 DEF Reset, ClearCaches, Cached, CacheHistory
<1>4. CASE ~Reset
  <2>1. KeepsRun /\ FreshCopies' = FreshCopies
    BY <1>1, <1>4, OnlyResetForgets, SoundStays
  <2>2. FromEval \subseteq FromEval'
    BY <2>1 DEF KeepsRun, FromEval
  <2>3. ASSUME NEW o \in Obj, o \in Cached'
        PROVE  /\ cluster'[o] # "unborn"
               /\ cache'[o] <= version'[o]
               /\ <<o, cache'[o]>> \in FreshCopies' \/ o \in FromEval' \/ o \notin steady'
    <3>1. CASE o \in Cached
      <4>1. cache'[o] = cache[o] /\ cache[o] \in Nat
        BY <1>1, <2>1, <2>3, <3>1 DEF KeepsRun, TypeOK, Version, Cached
      <4>2. cache[o] <= version[o] /\ cluster[o] # "unborn"
        BY <3>1 DEF CacheHistory
      <4>3. cache'[o] <= version'[o]
        BY <2>1, <2>3, <4>1, <4>2 DEF KeepsRun
      <4>4. cluster'[o] # "unborn"
        BY <1>1, <2>3, <4>2, BornStays
      <4>5. <<o, cache'[o]>> \in FreshCopies' \/ o \in FromEval' \/ o \notin steady'
        BY <2>1, <2>2, <3>1, <4>1 DEF KeepsRun, CacheHistory
      <4> QED BY <4>3, <4>4, <4>5
    <3>2. CASE o \in Alive /\ cache'[o] = version[o]
      <4>1. cluster'[o] # "unborn"
        BY <1>1, <3>2, BornStays DEF Alive
      <4> QED BY <2>1, <3>2, <4>1, CurrentFresh DEF KeepsRun
    <3>3. CASE o \notin Cached /\ Eval /\ o = Requested[next]
      <4>1. o \in RequestedObjs
        BY <3>3 DEF Eval, EvalNext, RequestedObjs
      <4>2. CacheRequested(o)
        BY <2>3, <3>3 DEF Eval, Cached
      <4>3. cache'[o] = 0
        BY <1>1, <4>2 DEF CacheRequested, TypeOK
      <4>4. o \in FromEval' \/ o \notin steady
        <5>1. CASE KindOf[o] \in LoadedKinds(NsOf[o])
          <6>1. PICK c \in Cached : NsOf[c] = NsOf[o] /\ KindOf[c] = KindOf[o]
            BY <5>1, ConstantsAssumption DEF LoadedKinds, Inv, CachesAgree
          <6> QED BY <2>2, <3>3, <6>1 DEF Inv, LoadedComplete
        <5>2. CASE KindOf[o] \notin LoadedKinds(NsOf[o])
          BY <4>2, <5>2 DEF CacheRequested, FromEval
        <5> QED BY <5>1, <5>2
      <4>5. 0 <= version'[o] /\ o \notin steady => o \notin steady'
        BY <2>1 DEF KeepsRun
      <4>6. cache'[o] <= version'[o]
        BY <2>1, <4>3 DEF KeepsRun
      <4> QED BY <1>2, <2>1, <4>1, <4>4, <4>6 DEF KeepsRun
    <3> QED BY <1>4, <2>3, <3>1, <3>2, <3>3, AddedToCache
  <2> QED BY <1>2, <2>3 DEF CacheHistory, Cached
<1> QED BY <1>3, <1>4

(* The facts about the evaluator that the analysis rests on. *)
EvaluatorFacts == Inv /\ FreshInv /\ PendingFresh /\ CacheHistory

(* What is known of the evaluator holds in every state of the analysis. *)
LEMMA EvaluatorFactsHold == AnalysisSpec => []EvaluatorFacts
<1>1. Init => PendingFresh
  BY DEF Init, PendingFresh
<1>2. FreshInv /\ PendingFresh /\ [Next]_vars => PendingFresh'
  BY PendingNext
<1>3. Init => CacheHistory
  <2> SUFFICES ASSUME Init PROVE CacheHistory
    OBVIOUS
  <2>1. Cached = {}
    BY DEF Init, Cached
  <2>2. \A o \in RequestedObjs : cluster[o] = "alive"
    BY DEF Init, RequestedObjs
  <2> QED BY <2>1, <2>2 DEF CacheHistory
<1>4. Inv /\ FreshInv /\ CacheHistory /\ [Next]_vars => CacheHistory'
  BY CacheHistoryNext
<1>5. Spec => []EvaluatorFacts
  BY <1>1, <1>2, <1>3, <1>4, Invariance, FreshInvariance, PTL DEF Spec, EvaluatorFacts
<1> QED BY <1>5, AnalysisImplementsEvaluator, PTL DEF ImplementsEvaluator

-----------------------------------------------------------------------------
(* The operations on the stack of calls keep it sound. *)

(* A stack of sound copies stays one when more copies count as sound. *)
LEMMA StackOfMore ==
    ASSUME NEW s, NEW sound, NEW fresh, SoundStack(s, sound, fresh),
           NEW sound2, sound \subseteq sound2
    PROVE  SoundStack(s, sound2, fresh)
BY DEF SoundStack

(* The last call of a stack *)
LEMMA LastCall ==
    ASSUME NEW s, NEW sound, NEW fresh, SoundStack(s, sound, fresh), s # <<>>
    PROVE  /\ Len(s) \in Nat \ {0}
           /\ DOMAIN s = 1..Len(s)
           /\ IsCall(s[Len(s)])
           /\ CopyOf(s[Len(s)]) \in sound
           /\ Len(s) = 1 => CopyOf(s[Len(s)]) \in fresh
           /\ \A k \in s[Len(s)].kids : CopyOf(k) \in sound
<1>1. PICK S : s \in Seq(S)
  BY DEF SoundStack
<1>2. Len(s) \in Nat \ {0} /\ DOMAIN s = 1..Len(s)
  BY <1>1, EmptySeq, LenProperties
<1>3. Len(s) \in 1..Len(s)
  BY <1>2
<1> QED BY <1>2, <1>3 DEF SoundStack

(* The last call is given other sub-objects. *)
LEMMA LastReplaced ==
    ASSUME NEW s, NEW sound, NEW fresh, SoundStack(s, sound, fresh), s # <<>>,
           NEW top, IsCall(top), CopyOf(top) = CopyOf(s[Len(s)]),
           \A k \in top.kids : CopyOf(k) \in sound
    PROVE  /\ SoundStack([s EXCEPT ![Len(s)] = top], sound, fresh)
           /\ [s EXCEPT ![Len(s)] = top] # <<>>
<1> DEFINE t == [s EXCEPT ![Len(s)] = top]
<1>1. PICK S : s \in Seq(S)
  BY DEF SoundStack
<1>2. Len(s) \in 1..Len(s)
  BY LastCall
<1>3. s \in Seq(S \cup {top})
  BY <1>1, SeqMonotonic
<1>4. /\ t \in Seq(S \cup {top})
      /\ Len(t) = Len(s)
      /\ \A i \in 1..Len(s) : t[i] = IF i = Len(s) THEN top ELSE s[i]
  BY <1>2, <1>3, ExceptSeq
<1>5. ASSUME NEW i \in 1..Len(s)
      PROVE  /\ IsCall(t[i])
             /\ CopyOf(t[i]) \in sound
             /\ i = 1 => CopyOf(t[i]) \in fresh
             /\ \A k \in t[i].kids : CopyOf(k) \in sound
  <2>1. CASE i = Len(s)
    <3>1. t[i] = top
      BY <1>4, <2>1
    <3>2. CopyOf(top) \in sound /\ (i = 1 => CopyOf(top) \in fresh)
      BY <2>1, LastCall
    <3> QED BY <3>1, <3>2
  <2>2. CASE i # Len(s)
    <3>1. t[i] = s[i]
      BY <1>4, <2>2
    <3> QED BY <3>1 DEF SoundStack
  <2> QED BY <2>1, <2>2
<1>6. t # <<>>
  BY <1>2, <1>4, EmptySeq
<1> HIDE DEF t
<1>7. SoundStack(t, sound, fresh)
  BY <1>4, <1>5 DEF SoundStack
<1> QED BY <1>6, <1>7 DEF t

(* A call is made. *)
LEMMA CallPushed ==
    ASSUME NEW s, NEW sound, NEW fresh, SoundStack(s, sound, fresh),
           NEW c, IsCall(c), CopyOf(c) \in sound, s = <<>> => CopyOf(c) \in fresh, c.kids = {}
    PROVE  SoundStack(Append(s, c), sound, fresh)
<1> DEFINE t == Append(s, c)
<1>1. PICK S : s \in Seq(S)
  BY DEF SoundStack
<1>2. s \in Seq(S \cup {c}) /\ Len(s) \in Nat
  BY <1>1, SeqMonotonic, LenProperties
<1>3. /\ t \in Seq(S \cup {c})
      /\ Len(t) = Len(s) + 1
      /\ \A i \in 1..Len(s) : t[i] = s[i]
      /\ t[Len(s) + 1] = c
  BY <1>2, AppendProperties
<1> HIDE DEF t
<1>4. ASSUME NEW i \in 1..Len(t)
      PROVE  /\ IsCall(t[i])
             /\ CopyOf(t[i]) \in sound
             /\ i = 1 => CopyOf(t[i]) \in fresh
             /\ \A k \in t[i].kids : CopyOf(k) \in sound
  <2>1. CASE i = Len(s) + 1
    <3>1. i = 1 => s = <<>>
      BY <1>1, <1>2, <2>1, EmptySeq
    <3> QED BY <1>3, <2>1, <3>1
  <2>2. CASE i # Len(s) + 1
    <3>1. i \in 1..Len(s) /\ t[i] = s[i]
      BY <1>2, <1>3, <2>2
    <3> QED BY <3>1 DEF SoundStack
  <2> QED BY <2>1, <2>2
<1>5. SoundStack(t, sound, fresh)
  BY <1>3, <1>4 DEF SoundStack
<1> QED BY <1>5 DEF t

(* A call returns. *)
LEMMA CallPopped ==
    ASSUME NEW s, NEW sound, NEW fresh, SoundStack(s, sound, fresh), s # <<>>
    PROVE  SoundStack(SubSeq(s, 1, Len(s) - 1), sound, fresh)
<1> DEFINE t == SubSeq(s, 1, Len(s) - 1)
<1>1. PICK S : s \in Seq(S)
  BY DEF SoundStack
<1>2. Len(s) \in Nat \ {0}
  BY LastCall
<1>3. /\ t \in Seq(S)
      /\ Len(t) = Len(s) - 1
      /\ \A i \in 1..Len(t) : t[i] = s[i]
  <2>1. PICK n \in Nat : n = Len(s) - 1
    BY <1>2
  <2>2. \A i \in 1..n : s[i] \in S
    BY <1>1, <1>2, <2>1, ElementOfSeq
  <2>3. /\ SubSeq(s, 1, n) \in Seq(S)
        /\ Len(SubSeq(s, 1, n)) = IF 1 <= n THEN n - 1 + 1 ELSE 0
        /\ \A i \in 1..(n - 1 + 1) : SubSeq(s, 1, n)[i] = s[1 + i - 1]
    BY <2>2, SubSeqProperties
  <2>4. PICK u : u = SubSeq(s, 1, n)
    OBVIOUS
  <2>5. u \in Seq(S) /\ Len(u) = n
    BY <2>3, <2>4
  <2>6. \A i \in 1..n : u[i] = s[i]
    BY <2>3, <2>4
  <2> QED BY <2>1, <2>4, <2>5, <2>6
<1> HIDE DEF t
<1>4. \A i \in 1..Len(t) : i \in 1..Len(s) /\ t[i] = s[i]
  BY <1>2, <1>3
<1>5. SoundStack(t, sound, fresh)
  BY <1>3, <1>4 DEF SoundStack
<1> QED BY <1>5 DEF t

-----------------------------------------------------------------------------
(* A cached copy is sound. *)
LEMMA CachedSound == EvaluatorFacts => \A o \in Cached : <<o, cache[o]>> \in SoundCopies
<1> SUFFICES ASSUME EvaluatorFacts, NEW o \in Cached PROVE <<o, cache[o]>> \in SoundCopies
  OBVIOUS
<1>1. o \in Obj /\ cache[o] \in Nat
  BY DEF EvaluatorFacts, FreshInv, TypeOK, Version, Cached
<1>2. o \in RequestedObjs \/ <<o, cache[o]>> \in FreshCopies
  BY <1>1 DEF EvaluatorFacts, FreshInv, CacheFresh, NoGhosts, FreshCopies
<1>3. cache[o] <= version[o]
  BY DEF EvaluatorFacts, CacheHistory
<1> QED BY <1>1, <1>2, <1>3 DEF SoundCopies

(* What a query finds is cached. *)
LEMMA AnswersCached == Inv => \A q \in Queries : Answer(q) \subseteq Cached
<1> SUFFICES ASSUME Inv, NEW q \in Queries PROVE Answer(q) \subseteq Cached
  OBVIOUS
<1>1. q.ns \in AllNs
  BY QueryForm
<1>2. \A n \in Namespaces : objects[n] \subseteq Cached
  BY DEF Inv, CachesAgree
<1>3. UNION {objects[n] : n \in Namespaces} \subseteq Cached
  BY <1>2
<1>4. Filter(q.ns, q.gk) \subseteq Cached
  BY <1>1, <1>2, <1>3 DEF Filter, AllNs
<1> QED BY <1>4 DEF Answer

(* The calls and the report stay sound when the evaluator alone takes a step. *)
LEMMA CallsStay ==
    ASSUME TypeOK, KeepsRun, CallsSound, UNCHANGED stack, stack # <<>> => next' # 0
    PROVE  CallsSound'
BY SoundStays, StackOfMore DEF CallsSound

(* The statuses of a run stay sound while none is added. *)
LEMMA NodesStay ==
    ASSUME TypeOK, KeepsRun, NodesSound, nodes' \subseteq nodes
    PROVE  NodesSound'
<1> SUFFICES ASSUME NEW n \in nodes
             PROVE  \/ n.version = NotCached /\ ObjectOf(n) \in RequestedObjs
                    \/ /\ NodeCopy(n) \in SoundCopies'
                       /\ Len(n.path) > 1 \/ NodeCopy(n) \in FreshCopies'
  BY DEF NodesSound, NodeCopy, ObjectOf
<1> QED BY SoundStays DEF NodesSound

(* A lookup that was answered with sound copies leaves sound calls. *)
LEMMA AnswerSound ==
    ASSUME TypeOK, KeepsRun, CallsSound, stack # <<>>, next' # 0, NEW kids, Answered(kids),
           \A k \in kids : CopyOf(k) \in SoundCopies'
    PROVE  CallsSound'
<1>1. SoundStack(stack, SoundCopies', FreshCopies')
  BY SoundStays, StackOfMore DEF CallsSound
<1>2. PICK top : top = [Top EXCEPT !.todo = Tail(@), !.kids = kids]
  OBVIOUS
<1>3. IsCall(Top) /\ Len(stack) \in DOMAIN stack
  BY <1>1, LastCall DEF Top
<1>4. IsCall(top) /\ CopyOf(top) = CopyOf(Top) /\ top.kids = kids
  BY <1>2, <1>3 DEF IsCall, CopyOf
<1>5. stack' = [stack EXCEPT ![Len(stack)] = top]
  BY <1>2, <1>3 DEF Answered, Top
<1>6. SoundStack(stack', SoundCopies', FreshCopies')
  BY <1>1, <1>4, <1>5, LastReplaced DEF Top
<1> QED BY <1>6 DEF CallsSound

(* Eval calls Analyze on a fresh copy: the cached one, or the one just read. *)
LEMMA AnalysedFresh ==
    ASSUME EvaluatorFacts, next \in DOMAIN Requested, NEW c \in Analysed(Requested[next])
    PROVE  c \in FreshCopies \cap SoundCopies
<1> DEFINE o == Requested[next]
<1>1. o \in RequestedObjs /\ o \in Obj /\ next # 0 /\ next \in Nat
  BY ConstantsAssumption DEF RequestedObjs
<1>2. CASE o \in Cached
  <2>1. c = <<o, cache[o]>> /\ c \in FreshCopies
    BY <1>1, <1>2 DEF Analysed, EvaluatorFacts, PendingFresh
  <2>2. cache[o] <= version[o]
    BY <1>2 DEF EvaluatorFacts, CacheHistory
  <2> QED BY <1>1, <2>1, <2>2, RequestedDirectly DEF SoundCopies, FreshCopies
<1>3. CASE o \notin Cached
  <2>1. PICK p \in Found(o) : c = <<p, version[p]>>
    BY <1>3 DEF Analysed
  <2>2. c \in FreshCopies /\ p \in Obj
    BY <2>1, CurrentFresh DEF EvaluatorFacts, Found
  <2>3. p \in ReadDirectly
    BY <1>1, <2>1, <2>2 DEF ReadDirectly, Found
  <2> QED BY <2>1, <2>2, <2>3 DEF SoundCopies, FreshCopies
<1> QED BY <1>2, <1>3

-----------------------------------------------------------------------------
(* Each step of a run keeps the calls and the report sound. *)

(* Eval: the root call and the status of what could not be read are sound. *)
LEMMA EvalSound ==
    ASSUME EvaluatorFacts, CallsSound, NodesSound, EvalRequested, KeepsRun
    PROVE  CallsSound' /\ NodesSound'
<1> DEFINE o == Requested[next]
<1>1. TypeOK /\ next \in DOMAIN Requested /\ next' # 0 /\ stack = <<>>
  BY ConstantsAssumption DEF EvalRequested, Eval, EvalNext, EvaluatorFacts, FreshInv
<1>2. CASE /\ UNCHANGED nodes
           /\ \E c \in Analysed(o) : stack' = <<Call(findAnalyzer(KindOf[o]), c[1], c[2])>>
  <2>1. PICK c \in Analysed(o) : stack' = <<Call(findAnalyzer(KindOf[o]), c[1], c[2])>>
    BY <1>2
  <2>2. PICK call : call = Call(findAnalyzer(KindOf[o]), c[1], c[2])
    OBVIOUS
  <2>3. c \in FreshCopies' /\ c \in SoundCopies'
    BY <1>1, AnalysedFresh, SoundStays
  <2>4. CopyOf(call) = c /\ IsCall(call) /\ call.kids = {}
    BY <2>2, <2>3 DEF Call, CopyOf, IsCall, FreshCopies
  <2>5. SoundStack(<<>>, SoundCopies', FreshCopies')
    BY EmptySeq DEF SoundStack
  <2>6. SoundStack(Append(<<>>, call), SoundCopies', FreshCopies')
    BY <2>3, <2>4, <2>5, CallPushed
  <2>7. stack' = Append(<<>>, call)
    BY <2>1, <2>2
  <2>8. CallsSound'
    BY <1>1, <2>6, <2>7 DEF CallsSound
  <2> QED BY <1>1, <1>2, <2>8, NodesStay
<1>3. CASE /\ nodes' = nodes \cup {Node(<< <<next', o>> >>, "none", NotCached, Status(Unknown))}
           /\ UNCHANGED stack
  <2>1. CallsSound'
    BY <1>1, <1>3, CallsStay
  <2>2. PICK n : n = Node(<< <<next', o>> >>, "none", NotCached, Status(Unknown))
    OBVIOUS
  <2>3. n.version = NotCached /\ ObjectOf(n) \in RequestedObjs
    BY <1>1, <2>2 DEF Node, ObjectOf, RequestedObjs
  <2>4. \A m \in nodes :
           \/ m.version = NotCached /\ ObjectOf(m) \in RequestedObjs
           \/ /\ NodeCopy(m) \in SoundCopies'
              /\ Len(m.path) > 1 \/ NodeCopy(m) \in FreshCopies'
    BY <1>1, SoundStays DEF NodesSound
  <2>5. NodesSound'
    BY <1>3, <2>2, <2>3, <2>4 DEF NodesSound, NodeCopy, ObjectOf
  <2> QED BY <2>1, <2>5
<1> QED BY <1>2, <1>3 DEF EvalRequested

(* EvalQuery: the answer is of cached copies. *)
LEMMA QuerySound ==
    ASSUME EvaluatorFacts, EvaluatorFacts', CallsSound, NodesSound, RunQuery, KeepsRun
    PROVE  CallsSound' /\ NodesSound'
<1>1. TypeOK /\ stack # <<>>
  BY DEF EvaluatorFacts, FreshInv, RunQuery, Asking, Running
<1>2. PICK l \in {Head(Top.todo)} :
        /\ l.q \in Queries
        /\ QueryLoaded(l.q) \/ QueryCached(l.q) \/ QueryLoadFailed(l.q)
        /\ Answered(Answers(l)')
  BY DEF RunQuery
<1>3. next' # 0
  BY <1>2 DEF QueryLoaded, QueryCached, QueryLoadFailed, EvalQuery
<1>4. Answer(l.q)' \subseteq Cached'
  <2>1. Inv' => (\A q \in Queries : Answer(q) \subseteq Cached)'
    BY AnswersCached, PTL
  <2> QED BY <1>2, <2>1 DEF EvaluatorFacts
<1>5. \A o \in Cached' : <<o, cache'[o]>> \in SoundCopies'
  <2>1. EvaluatorFacts' => (\A o \in Cached : <<o, cache[o]>> \in SoundCopies)'
    BY CachedSound, PTL
  <2> QED BY <2>1
<1>6. PICK kids : kids = Answers(l)'
  OBVIOUS
<1>7. \A k \in kids : CopyOf(k) \in SoundCopies'
  BY <1>4, <1>5, <1>6 DEF Answers, Kid, CopyOf
<1>8. Answered(kids)
  BY <1>2, <1>6
<1>9. CallsSound'
  BY <1>1, <1>3, <1>7, <1>8, AnswerSound
<1>10. UNCHANGED nodes
  BY DEF RunQuery
<1> QED BY <1>1, <1>9, <1>10, NodesStay

(* LoadResource: what is read past the caches is the cluster's own copy. *)
LEMMA ReadSound ==
    ASSUME EvaluatorFacts, CallsSound, NodesSound, RunRead \/ RunReadFails, KeepsRun
    PROVE  CallsSound' /\ NodesSound'
<1>1. TypeOK /\ stack # <<>> /\ UNCHANGED nodes
  BY DEF EvaluatorFacts, FreshInv, RunRead, RunReadFails, Asking, Running
<1>2. next # 0 /\ next' # 0
  BY <1>1 DEF CallsSound, RunRead, RunReadFails, EvalResource, vars
<1>3. PICK kids : Answered(kids) /\ \A k \in kids : CopyOf(k) \in SoundCopies'
  <2>1. CASE RunReadFails
    <3>1. PICK kids : kids = {}
      OBVIOUS
    <3>2. Answered(kids)
      BY <2>1, <3>1 DEF RunReadFails
    <3> QED BY <3>1, <3>2
  <2>2. CASE RunRead
    <3>1. PICK objs \in SUBSET (Related \cap Alive) :
             Answered({Kid(findAnalyzer(KindOf[p]), p, version[p]) : p \in objs})
      BY <2>2 DEF RunRead, Named
    <3>2. \A p \in objs : <<p, version[p]>> \in SoundCopies
      BY <3>1, CurrentFresh DEF EvaluatorFacts, SoundCopies, ReadDirectly, FreshCopies
    <3>3. \A p \in objs : <<p, version[p]>> \in SoundCopies'
      BY <1>1, <3>2, SoundStays
    <3> QED BY <3>1, <3>3 DEF Kid, CopyOf
  <2> QED BY <2>1, <2>2
<1>4. CallsSound'
  BY <1>1, <1>2, <1>3, AnswerSound
<1> QED BY <1>1, <1>4, NodesStay

(* analyzeObjects: the call is of a copy that was found. *)
LEMMA AnalyzeNextSound ==
    ASSUME EvaluatorFacts, CallsSound, NodesSound, AnalyzeNext, KeepsRun
    PROVE  CallsSound' /\ NodesSound'
<1>1. TypeOK /\ stack # <<>> /\ UNCHANGED <<next, nodes>>
  BY DEF EvaluatorFacts, FreshInv, AnalyzeNext, Running, vars
<1>2. SoundStack(stack, SoundCopies', FreshCopies')
  BY <1>1, SoundStays, StackOfMore DEF CallsSound
<1>3. PICK k \in Top.kids :
        stack' = Append([stack EXCEPT ![Len(stack)].kids = @ \ {k}], Call(k.with, k.obj, k.version))
  BY DEF AnalyzeNext
<1>4. PICK top : top = [Top EXCEPT !.kids = @ \ {k}]
  OBVIOUS
<1>5. PICK s : s = [stack EXCEPT ![Len(stack)] = top]
  OBVIOUS
<1>6. PICK c : c = Call(k.with, k.obj, k.version)
  OBVIOUS
<1>7. /\ IsCall(Top) /\ Len(stack) \in DOMAIN stack
      /\ \A j \in Top.kids : CopyOf(j) \in SoundCopies'
  BY <1>1, <1>2, LastCall DEF Top
<1>8. IsCall(top) /\ CopyOf(top) = CopyOf(Top) /\ top.kids = Top.kids \ {k}
  BY <1>4, <1>7 DEF IsCall, CopyOf
<1>9. SoundStack(s, SoundCopies', FreshCopies') /\ s # <<>>
  BY <1>1, <1>2, <1>5, <1>7, <1>8, LastReplaced DEF Top
<1>10. IsCall(c) /\ CopyOf(c) \in SoundCopies' /\ c.kids = {}
  BY <1>6, <1>7 DEF Call, IsCall, CopyOf
<1>11. stack' = Append(s, c)
  BY <1>3, <1>4, <1>5, <1>6, <1>7 DEF Top
<1>12. SoundStack(stack', SoundCopies', FreshCopies')
  BY <1>9, <1>10, <1>11, CallPushed
<1>13. CallsSound'
  BY <1>1, <1>12 DEF CallsSound
<1> QED BY <1>1, <1>13, NodesStay

(* Analyze returns: the status is of the copy that the call was made for. *)
LEMMA ConcludeSound ==
    ASSUME EvaluatorFacts, CallsSound, NodesSound, Conclude, KeepsRun
    PROVE  CallsSound' /\ NodesSound'
<1>1. TypeOK /\ stack # <<>> /\ UNCHANGED next
  BY DEF EvaluatorFacts, FreshInv, Conclude, Running, vars
<1>2. SoundStack(stack, SoundCopies', FreshCopies')
  BY <1>1, SoundStays, StackOfMore DEF CallsSound
<1>3. CallsSound'
  <2>1. SoundStack(stack', SoundCopies', FreshCopies')
    BY <1>1, <1>2, CallPopped DEF Conclude
  <2> QED BY <1>1, <2>1 DEF CallsSound
<1>4. PICK n : /\ nodes' = (nodes \ Dropped) \cup {n}
              /\ n.path = Path /\ n.version = Top.version
  <2>1. PICK st : nodes' = (nodes \ Dropped) \cup {Node(Path, Top.with, Top.version, st)}
    BY DEF Conclude
  <2>2. PICK n : n = Node(Path, Top.with, Top.version, st)
    OBVIOUS
  <2>3. n.path = Path /\ n.version = Top.version
    BY <2>2 DEF Node
  <2> QED BY <2>1, <2>2, <2>3
<1>5. Len(Path) = Len(stack) /\ ObjectOf(n) = Top.obj
  <2>1. Len(stack) \in Nat \ {0} /\ DOMAIN stack = 1..Len(stack)
    BY <1>1, <1>2, LastCall
  <2>2. PICK path : path = Path
    OBVIOUS
  <2>3. path = [i \in 1..Len(stack) |-> Place(i)]
    BY <2>1, <2>2 DEF Path
  <2>4. path \in Seq({Place(i) : i \in 1..Len(stack)})
    BY <2>1, <2>3
  <2>5. Len(path) = Len(stack)
    BY <2>1, <2>3, <2>4, LenProperties
  <2>6. path[Len(stack)] = Place(Len(stack))
    BY <2>1, <2>3
  <2>7. Place(Len(stack))[2] = Top.obj
    BY DEF Place, Top
  <2> QED BY <1>4, <2>2, <2>5, <2>6, <2>7 DEF ObjectOf
<1>6. /\ CopyOf(Top) \in SoundCopies'
      /\ Len(stack) = 1 => CopyOf(Top) \in FreshCopies'
      /\ Len(stack) \in Nat \ {0}
  BY <1>1, <1>2, LastCall DEF Top
<1>7. /\ NodeCopy(n) \in SoundCopies'
      /\ Len(n.path) > 1 \/ NodeCopy(n) \in FreshCopies'
  BY <1>4, <1>5, <1>6 DEF NodeCopy, CopyOf
<1>8. \A m \in nodes :
        \/ m.version = NotCached /\ ObjectOf(m) \in RequestedObjs
        \/ /\ NodeCopy(m) \in SoundCopies'
           /\ Len(m.path) > 1 \/ NodeCopy(m) \in FreshCopies'
  BY <1>1, SoundStays DEF NodesSound
<1>9. NodesSound'
  BY <1>4, <1>7, <1>8 DEF NodesSound, NodeCopy, ObjectOf
<1> QED BY <1>3, <1>9

(* A run begins with no calls and an empty report. *)
LEMMA BeginSound ==
    ASSUME CallsSound, BeginRun
    PROVE  CallsSound' /\ NodesSound'
<1>1. stack = <<>> /\ stack' = <<>> /\ nodes' = {}
  BY DEF BeginRun, Reset, CallsSound
<1>2. SoundStack(<<>>, SoundCopies', FreshCopies')
  BY EmptySeq DEF SoundStack
<1> QED BY <1>1, <1>2 DEF CallsSound, NodesSound

(* Every step keeps the calls and the report sound. *)
LEMMA SoundNext ==
    ASSUME EvaluatorFacts, EvaluatorFacts', CallsSound, NodesSound, [AnalysisNext]_avars
    PROVE  CallsSound' /\ NodesSound'
<1>1. TypeOK /\ [Next]_vars
  BY StepImplements DEF EvaluatorFacts, FreshInv, avars
<1>2. CASE Reset
  <2>1. CASE BeginRun
    BY <2>1, BeginSound
  <2>2. ~(ClusterChange \/ SendUpdate \/ RunReadFails \/ AnalyzeNext \/ Conclude \/ UNCHANGED avars)
    BY <1>2 DEF Reset, ClusterChange, Create, Delete, Update, SendUpdate, EndRun, RunReadFails,
                AnalyzeNext, Conclude, vars, avars
  <2>3. ~(RunQuery \/ RunRead)
    BY <1>2 DEF Reset, RunQuery, QueryLoaded, QueryCached, QueryLoadFailed, RunRead, EvalResource
  <2>4. ~EvalRequested
    BY <1>2, ConstantsAssumption DEF Reset, EvalRequested, Eval, EvalNext
  <2> QED BY <2>1, <2>2, <2>3, <2>4 DEF AnalysisNext, PollerStep
<1>3. CASE ~Reset
  <2>1. KeepsRun
    BY <1>1, <1>3, OnlyResetForgets
  <2>2. CASE EvalRequested
    BY <2>1, <2>2, EvalSound
  <2>3. CASE RunQuery
    BY <2>1, <2>3, QuerySound
  <2>4. CASE RunRead \/ RunReadFails
    BY <2>1, <2>4, ReadSound
  <2>5. CASE AnalyzeNext
    BY <2>1, <2>5, AnalyzeNextSound
  <2>6. CASE Conclude
    BY <2>1, <2>6, ConcludeSound
  <2>7. CASE ClusterChange \/ SendUpdate \/ UNCHANGED avars
    <3>1. UNCHANGED <<stack, nodes>> /\ (stack # <<>> => UNCHANGED next)
      BY <2>7 DEF ClusterChange, Create, Delete, Update, SendUpdate, avars, vars
    <3>2. stack # <<>> => next' # 0
      BY <3>1 DEF CallsSound
    <3> QED BY <1>1, <2>1, <3>1, <3>2, CallsStay, NodesStay
  <2>8. ~BeginRun
    BY <1>3 DEF BeginRun
  <2> QED BY <2>2, <2>3, <2>4, <2>5, <2>6, <2>7, <2>8 DEF AnalysisNext, PollerStep
<1> QED BY <1>2, <1>3

(* Calls and statuses are of sound copies in every state. *)
LEMMA SoundInvariance == AnalysisSpec => [](CallsSound /\ NodesSound)
<1>1. AnalysisInit => CallsSound /\ NodesSound
  BY EmptySeq DEF AnalysisInit, CallsSound, NodesSound, SoundStack
<1>2. EvaluatorFacts /\ EvaluatorFacts' /\ CallsSound /\ NodesSound /\ [AnalysisNext]_avars
         => CallsSound' /\ NodesSound'
  BY SoundNext
<1> QED BY <1>1, <1>2, EvaluatorFactsHold, PTL DEF AnalysisSpec

(***************************************************************************)
(* No status of a report is of an object deleted before the run began, or  *)
(* of a version replaced before it began, requested objects below others   *)
(* aside: whatever the analyzers look up, in any order, while the cluster  *)
(* changes and calls fail.                                                 *)
(***************************************************************************)
THEOREM ReportAlwaysFresh == AnalysisSpec => []ReportFresh
<1>1. NodesSound => ReportFresh
  BY DEF NodesSound, NodeCopy, SoundCopies, FreshCopies, ReportFresh
<1> QED BY <1>1, SoundInvariance, PTL

(* An object that a report has twice is in it in one version, unless read past the caches. *)
THEOREM ReportConsistent == AnalysisSpec => []OneVersionPerObject
<1>1. NodesSound => OneVersionPerObject
  BY RequestedDirectly DEF NodesSound, NodeCopy, SoundCopies, OneVersionPerObject
<1> QED BY <1>1, SoundInvariance, PTL

-----------------------------------------------------------------------------
(***************************************************************************)
(* The tree of statuses.  A lookup of analyzer a leads to objects with an  *)
(* analyzer in FoundBy(a); a call of Analyze is proper when what it still  *)
(* has to look up and to analyse is of that kind.                          *)
(***************************************************************************)
FoundBy(a) ==
    CASE a \in {"Generic", "MultiClusterObservability", "ClusterOperator"} -> Analyzer
      [] a = "Deployment"                -> {"ReplicaSet"}
      [] a \in {"ReplicaSet", "Service"} -> {"Pod"}
      [] a = "Subscription"              -> {"InstallPlan", "ClusterServiceVersion"}
      [] OTHER                           -> {}

(* A lookup that analyzer a may make *)
ProperLookup(a, l) ==
    \/ l.how = "read" /\ a = "ClusterOperator"
    \/ /\ l.how = "query" /\ l.q \in Queries
       /\ \/ l.with = "register" /\ FoundBy(a) = Analyzer
          \/ /\ l.with \in FoundBy(a) /\ l.q.gk = Included({l.with})
             /\ l.with \in {"ReplicaSet", "Pod", "InstallPlan", "ClusterServiceVersion"}

(* The sub-objects that a call of analyzer a may still have to analyse *)
ProperKids(a, kids) ==
    /\ \A k \in kids : k.with \in FoundBy(a) /\ k.with \in AnalyzersOf(k.obj)
    /\ \A j, k \in kids : j.obj = k.obj => j = k

AllLookups == UNION {Lookups(a, o, v) : a \in Analyzer, o \in Obj, v \in 0..MaxChanges}

CallType ==
    [with : Analyzer, obj : Obj, version : 0..MaxChanges, kids : SUBSET Copy,
     todo : Seq(AllLookups)]

ProperCalls ==
    {c \in CallType :
        /\ c.with \in AnalyzersOf(c.obj)
        /\ \A i \in 1..Len(c.todo) : ProperLookup(c.with, c.todo[i])
        /\ ProperKids(c.with, c.kids)}

(* Each call was led to by the one below it on the stack, which goes on to others. *)
CallsProper ==
    /\ stack \in Seq(ProperCalls)
    /\ stack # <<>> => next # 0
    /\ \A i \in 1..Len(stack) :
          i + 1 <= Len(stack) =>
             /\ stack[i + 1].with \in FoundBy(stack[i].with)
             /\ \A k \in stack[i].kids : k.obj # stack[i + 1].obj

Paths == Seq(Nat \X Obj)

(* Place p is q or above it. *)
Above(p, q) == Len(p) <= Len(q) /\ \A i \in 1..Len(p) : q[i] = p[i]

(* The path p leads to call i, or further. *)
Through(p, i) == i <= Len(p) /\ \A j \in 1..i : p[j] = Place(j)

(* A status that is at least as bad *)
NoBetter(s, t) == s.result >= t.result /\ (t.progressing => s.progressing)

NodeType ==
    \A n \in nodes :
        /\ n.path \in Paths /\ Len(n.path) >= 1
        /\ next # 0 => n.path[1][1] <= next
        /\ n.status \in Statuses

(* Above every status is the status, or the call under way, that it belongs to. *)
NodesConnected ==
    \A n \in nodes : \A i \in 1..Len(n.path) :
        \/ i = Len(n.path)
        \/ i <= Len(stack) /\ Through(n.path, i)
        \/ \E m \in nodes : Len(m.path) = i /\ Above(m.path, n.path)

(* A call under way has no status yet, and those below it are of sub-objects *)
(* that it is done with.                                                     *)
NodesDone ==
    \A n \in nodes : \A i \in 1..Len(stack) :
        Through(n.path, i) =>
            /\ i + 1 <= Len(n.path)
            /\ n.path[i + 1][1] >= Len(stack[i].todo)
            /\ n.path[i + 1][1] = Len(stack[i].todo)
                  => \A k \in stack[i].kids : k.obj # n.path[i + 1][2]
            /\ Len(n.path) = i + 1 => n.with \in FoundBy(stack[i].with)

(* No status is better than one below it. *)
NodesOrdered ==
    \A m, n \in nodes : Above(m.path, n.path) => NoBetter(m.status, n.status)

TreeInv == CallsProper /\ NodeType /\ NodesConnected /\ NodesDone /\ NodesOrdered

-----------------------------------------------------------------------------
(* Every analyzer returns a status, no better than any that it aggregates. *)

(* The greatest of a set of results is one of them, and none exceeds it. *)
LEMMA MaxResult ==
    ASSUME NEW S, S \subseteq Results, S # {}
    PROVE  Max(S) \in S /\ \A x \in S : x <= Max(S)
<1> USE DEF Results, Unknown, Error
<1>1. \E m \in S : \A x \in S : m >= x
  <2>1. CASE 3 \in S
    BY <2>1
  <2>2. CASE 3 \notin S /\ 2 \in S
    BY <2>2
  <2>3. CASE 3 \notin S /\ 2 \notin S /\ 1 \in S
    BY <2>3
  <2>4. CASE 3 \notin S /\ 2 \notin S /\ 1 \notin S
    <3>1. \A x \in S : x = 0
      BY <2>4
    <3>2. 0 \in S
      BY <3>1
    <3> QED BY <3>1, <3>2
  <2> QED BY <2>1, <2>2, <2>3, <2>4
<1>2. Max(S) \in S /\ \A x \in S : Max(S) >= x
  BY <1>1 DEF Max
<1>3. Max(S) \in 0..3
  BY <1>2
<1> QED BY <1>2, <1>3

(***************************************************************************)
(* AggregateResult returns a status no better than any it is given, as bad *)
(* as one of them unless it is Unknown, and progressing if one of them is. *)
(***************************************************************************)
LEMMA Aggregate ==
    ASSUME NEW subs, NEW conds, subs \cup conds \subseteq Statuses
    PROVE  /\ AggregateResult(subs, conds) \in Statuses
           /\ \A s \in subs \cup conds : s.result <= AggregateResult(subs, conds).result
           /\ \/ AggregateResult(subs, conds).result = Unknown
              \/ \E s \in subs \cup conds : AggregateResult(subs, conds).result = s.result
           /\ AggregateResult(subs, conds).progressing
                  <=> \E s \in subs \cup conds : s.progressing
<1> DEFINE R == {Unknown} \cup {s.result : s \in subs \cup conds}
           B == \E s \in subs \cup conds : s.progressing
<1>1. R \subseteq Results /\ R # {}
  BY DEF Statuses, Results, Unknown, Error
<1>2. Max(R) \in R /\ \A x \in R : x <= Max(R)
  <2> HIDE DEF R
  <2> QED BY <1>1, MaxResult
<1>3. AggregateResult(subs, conds) = [result |-> Max(R), progressing |-> B]
  BY DEF AggregateResult
<1>4. B \in BOOLEAN
  OBVIOUS
<1>5. [result |-> Max(R), progressing |-> B] \in Statuses
  <2> HIDE DEF R, B
  <2> QED BY <1>1, <1>2, <1>4 DEF Statuses
<1>6. /\ AggregateResult(subs, conds).result = Max(R)
      /\ AggregateResult(subs, conds).progressing = B
  <2> HIDE DEF R, B
  <2> QED BY <1>3
<1>7. \A s \in subs \cup conds : s.result <= Max(R)
  BY <1>2
<1>8. Max(R) = Unknown \/ \E s \in subs \cup conds : Max(R) = s.result
  BY <1>2
<1> HIDE DEF R
<1> QED BY <1>3, <1>5, <1>6, <1>7, <1>8

(* The four results. *)
LEMMA ResultsType ==
    /\ Unknown \in Results /\ Ok \in Results /\ Warning \in Results /\ Error \in Results
    /\ Results \subseteq Nat
BY DEF Results, Unknown, Ok, Warning, Error

(* A plain status is a status. *)
LEMMA StatusType ==
    ASSUME NEW r \in Results
    PROVE  /\ Status(r) \in Statuses
           /\ Status(r).result = r
           /\ ~Status(r).progressing
BY DEF Statuses, Status

(* Whatever analyzers are asked about a condition, the answer is a status. *)
LEMMA ConditionType ==
    ASSUME NEW as, NEW c
    PROVE  AnalyzeCondition(as, c) \in Statuses
<1>1. \A a : Analyze(a, c) \in Statuses
  <2> SUFFICES ASSUME NEW a PROVE Analyze(a, c) \in Statuses
    OBVIOUS
  <2>1. TargetResult(a, c.type) \in Results
    BY ResultsType DEF TargetResult
  <2> QED BY <2>1, StatusType, ResultsType DEF Analyze, Statuses
<1> QED BY <1>1, StatusType, ResultsType DEF AnalyzeCondition

(* The conditions of an object give statuses. *)
LEMMA ConditionsType ==
    /\ \A c : AnalyzeCommon(c) \in Statuses
    /\ \A as, cs : AnalyzeAll(as, cs) \subseteq Statuses
    /\ StatusProgressing \in Statuses
<1>1. StatusProgressing \in Statuses
  BY ResultsType DEF StatusProgressing, Statuses
<1> QED BY <1>1, ConditionType DEF AnalyzeCommon, AnalyzeAll

(* A container on its own. *)
LEMMA ContainerType ==
    ASSUME NEW c
    PROVE  /\ analyzeContainer(c) \subseteq Statuses
           /\ AggregateResult({}, analyzeContainer(c)) \in Statuses
<1>1. [result |-> Error, progressing |-> ~c.stale] \in Statuses
  BY ResultsType DEF Statuses
<1>2. analyzeContainer(c) \subseteq Statuses
  BY <1>1, StatusType, ResultsType DEF analyzeContainer
<1> QED BY <1>2, Aggregate

(* PodAnalyzer returns a status. *)
LEMMA PodType == \A p : PodStatus(p) \in Statuses
<1> SUFFICES ASSUME NEW p PROVE PodStatus(p) \in Statuses
  OBVIOUS
<1> DEFINE K == {AggregateResult({}, s) : s \in {analyzeContainer(c) : c \in p.containers} \ {{}}}
           C == {AnalyzeCommon(c) : c \in p.conditions} \cup podSyntheticConditions(p)
           result == AggregateResult(K, C)
<1>1. K \subseteq Statuses
  BY ContainerType
<1>2. podSyntheticConditions(p) \subseteq Statuses
  BY StatusType, ResultsType DEF podSyntheticConditions
<1>3. C \subseteq Statuses
  BY <1>2, ConditionsType
<1>4. result \in Statuses
  <2> HIDE DEF K, C
  <2> QED BY <1>1, <1>3, Aggregate
<1>5. PodStatus(p) = IF Completed(p) THEN [result EXCEPT !.result = Ok] ELSE result
  BY DEF PodStatus
<1> HIDE DEF result
<1> QED BY <1>4, <1>5, ResultsType DEF Statuses

(* An aggregate is a status, no better than each status that went into it. *)
LEMMA AggregateNoBetter ==
    ASSUME NEW subs, NEW conds, subs \subseteq Statuses, conds \subseteq Statuses
    PROVE  /\ AggregateResult(subs, conds) \in Statuses
           /\ \A s \in subs : NoBetter(AggregateResult(subs, conds), s)
<1> DEFINE a == AggregateResult(subs, conds)
<1>1. /\ a \in Statuses
      /\ \A s \in subs \cup conds : s.result <= a.result
      /\ a.progressing <=> \E s \in subs \cup conds : s.progressing
  BY Aggregate
<1> HIDE DEF a
<1>2. \A s \in subs : NoBetter(a, s)
  BY <1>1 DEF NoBetter, Statuses, Results, Unknown, Error
<1> QED BY <1>1, <1>2 DEF a

(* The conditions that the analyzers add to those of an object are statuses. *)
LEMMA OwnConditionsType ==
    ASSUME NEW c
    PROVE  /\ AnalyzeObservedGeneration(c) \subseteq Statuses
           /\ replicaSetSyntheticConditions(c) \subseteq Statuses
           /\ replicaSetConditionAnalyzer(c) \in Statuses
           /\ deploymentConditionAnalyzer(c) \in Statuses
           /\ InstallPlanMissing(c) \subseteq Statuses
<1>1. AnalyzeObservedGeneration(c) \subseteq Statuses
  BY ConditionsType DEF AnalyzeObservedGeneration
<1>2. replicaSetSyntheticConditions(c) \subseteq Statuses
  BY StatusType, ResultsType DEF replicaSetSyntheticConditions
<1>3. replicaSetConditionAnalyzer(c) \in Statuses
  BY ConditionsType, StatusType, ResultsType DEF replicaSetConditionAnalyzer
<1>4. deploymentConditionAnalyzer(c) \in Statuses
  BY ConditionsType, StatusType, ResultsType DEF deploymentConditionAnalyzer
<1>5. InstallPlanMissing(c) \subseteq Statuses
  BY ConditionsType DEF InstallPlanMissing
<1> QED BY <1>1, <1>2, <1>3, <1>4, <1>5

(* DeploymentAnalyzer: the ReplicaSets that are not scaled to 0 count. *)
LEMMA DeploymentNoBetter ==
    ASSUME NEW conds, NEW subs, \A s \in subs : s.status \in Statuses
    PROVE  /\ DeploymentStatus(conds, subs) \in Statuses
           /\ \A s \in subs : s.spec # 0 => NoBetter(DeploymentStatus(conds, subs), s.status)
<1> DEFINE live == {s \in subs : s.spec # 0}
           precise(c) == IF c.type = "Progressing" /\ AllDone(live) THEN Status(Ok)
                         ELSE deploymentConditionAnalyzer(c)
           S == {s.status : s \in live}
           C == {precise(c) : c \in conds}
<1>1. DeploymentStatus(conds, subs) = AggregateResult(S, C)
  BY DEF DeploymentStatus
<1>2. S \subseteq Statuses
  OBVIOUS
<1>3. \A c : precise(c) \in Statuses
  BY OwnConditionsType, StatusType, ResultsType
<1>4. C \subseteq Statuses
  BY <1>3
<1>5. \A s \in subs : s.spec # 0 => s.status \in S
  OBVIOUS
<1> HIDE DEF S, C
<1> QED BY <1>1, <1>2, <1>4, <1>5, AggregateNoBetter

(***************************************************************************)
(* Analyze returns a status that is no better than the status of any       *)
(* sub-object it keeps.                                                    *)
(***************************************************************************)
LEMMA StatusNoBetter ==
    ASSUME NEW a \in Analyzer, NEW c, NEW subs,
           \A s \in subs : s.status \in Statuses /\ s.with \in FoundBy(a)
    PROVE  /\ StatusOf(a, c, subs) \in Statuses
           /\ \A s \in subs : Kept(a, s) => NoBetter(StatusOf(a, c, subs), s.status)
<1> DEFINE statuses == {s.status : s \in subs}
           st == StatusOf(a, c, subs)
<1>1. statuses \subseteq Statuses
  OBVIOUS
<1>2. CASE a \in {"AlwaysGreen", "Node", "PersistentVolumeClaim", "Route", "Pod", "InstallPlan",
                  "ClusterServiceVersion"}
  <2>1. subs = {}
    BY <1>2 DEF FoundBy
  <2>2. Status(Ok) \in Statuses /\ Status(Error) \in Statuses /\ Status(Unknown) \in Statuses
    BY StatusType, ResultsType
  <2>3. NodeStatus(c) \in Statuses
    <3>1. (AnalyzeAll(<<CommonConditionsAnalyzer>>, c.conditions)
             \cup (IF c.unschedulable THEN {Status(Error)} ELSE {})) \subseteq Statuses
      BY <2>2, ConditionsType
    <3> QED BY <3>1, AggregateNoBetter DEF NodeStatus
  <2>4. PVCStatus(c) \in Statuses
    BY <2>2, ConditionsType, AggregateNoBetter DEF PVCStatus
  <2>5. RouteStatus(c) \in Statuses
    BY ConditionsType, AggregateNoBetter DEF RouteStatus
  <2>6. InstallPlanStatus(c) \in Statuses
    BY ConditionsType, AggregateNoBetter DEF InstallPlanStatus
  <2>7. CSVStatus(c) \in Statuses
    BY <2>2 DEF CSVStatus
  <2>8. st \in Statuses
    BY <1>2, <2>2, <2>3, <2>4, <2>5, <2>6, <2>7, PodType DEF StatusOf
  <2> QED BY <2>1, <2>8
<1>3. CASE a = "Generic"
  <2> DEFINE C == AnalyzeObservedGeneration(c)
                    \cup AnalyzeAll(<<CommonConditionsAnalyzer>>, c.conditions)
  <2>1. st = IF ~c.hasStatus /\ statuses = {} THEN Status(Ok) ELSE AggregateResult(statuses, C)
    BY <1>3 DEF StatusOf, GenericStatus
  <2>2. C \subseteq Statuses
    BY OwnConditionsType, ConditionsType
  <2> HIDE DEF C, st
  <2>3. st \in Statuses /\ \A t \in statuses : NoBetter(st, t)
    BY <1>1, <2>1, <2>2, AggregateNoBetter, StatusType, ResultsType
  <2> QED BY <2>3 DEF st
<1>4. CASE a \in {"Service", "ReplicaSet", "MultiClusterObservability", "ClusterOperator"}
  <2>1. \E C : C \subseteq Statuses /\ st = AggregateResult(statuses, C)
    <3>1. CASE a = "Service"
      <4>1. st = AggregateResult(statuses, {})
        BY <3>1 DEF StatusOf, ServiceStatus
      <4> QED BY <4>1
    <3>2. CASE a = "ReplicaSet"
      <4> DEFINE C == {replicaSetConditionAnalyzer(d) : d \in c.conditions}
                        \cup replicaSetSyntheticConditions(c)
      <4>1. st = AggregateResult(statuses, C)
        BY <3>2 DEF StatusOf, ReplicaSetStatus
      <4>2. C \subseteq Statuses
        BY OwnConditionsType
      <4> QED BY <4>1, <4>2
    <3>3. CASE a = "MultiClusterObservability"
      <4> DEFINE C == AnalyzeAll(<<CommonConditionsAnalyzer>>, c.conditions)
      <4>1. st = AggregateResult(statuses, C)
        BY <3>3 DEF StatusOf, MCOStatus
      <4> QED BY <4>1, ConditionsType
    <3>4. CASE a = "ClusterOperator"
      <4> DEFINE as == <<clusteroperatorConditionsAnalyzer, CommonConditionsAnalyzer>>
                         \o (IF c.insights THEN <<insightsConditionsAnalyzer>> ELSE <<>>)
                 C == AnalyzeAll(as, c.conditions)
      <4>1. st = AggregateResult(statuses, C)
        BY <3>4 DEF StatusOf, ClusterOperatorStatus
      <4>2. C \subseteq Statuses
        BY ConditionsType
      <4> QED BY <4>1, <4>2
    <3> QED BY <1>4, <3>1, <3>2, <3>3, <3>4
  <2> HIDE DEF st
  <2>2. st \in Statuses /\ \A t \in statuses : NoBetter(st, t)
    BY <1>1, <2>1, AggregateNoBetter
  <2> QED BY <2>2 DEF st
<1>5. CASE a = "Subscription"
  <2> DEFINE by(b) == {s.status : s \in {t \in subs : t.with = b}}
             S == by("InstallPlan") \cup by("ClusterServiceVersion")
             C == AnalyzeAll(<<subscriptionConditionsAnalyzer, CommonConditionsAnalyzer>>, c.conditions)
                    \cup InstallPlanMissing(by("InstallPlan"))
  <2>1. st = AggregateResult(S, C)
    BY <1>5 DEF StatusOf, SubscriptionStatus
  <2>2. S \subseteq Statuses /\ C \subseteq Statuses
    BY OwnConditionsType, ConditionsType
  <2>3. \A s \in subs : s.status \in S
    BY <1>5 DEF FoundBy
  <2> HIDE DEF S, C, st
  <2>4. st \in Statuses /\ \A t \in S : NoBetter(st, t)
    BY <2>1, <2>2, AggregateNoBetter
  <2> QED BY <2>3, <2>4 DEF st
<1>6. CASE a = "Deployment"
  <2> DEFINE S == {[spec |-> s.content.spec, status |-> s.status] : s \in subs}
  <2>1. st = DeploymentStatus(c.conditions, S)
    BY <1>6 DEF StatusOf
  <2>2. \A t \in S : t.status \in Statuses
    OBVIOUS
  <2>3. ASSUME NEW s \in subs, Kept(a, s)
        PROVE  \E t \in S : t.spec # 0 /\ t.status = s.status
    <3>1. [spec |-> s.content.spec, status |-> s.status] \in S
      OBVIOUS
    <3>2. s.content.spec # 0
      BY <1>6, <2>3 DEF Kept
    <3> HIDE DEF S
    <3> QED BY <3>1, <3>2
  <2> HIDE DEF S, st
  <2>4. st \in Statuses /\ \A t \in S : t.spec # 0 => NoBetter(st, t.status)
    BY <2>1, <2>2, DeploymentNoBetter
  <2> QED BY <2>3, <2>4 DEF st
<1> QED BY <1>2, <1>3, <1>4, <1>5, <1>6 DEF Analyzer, Registered

-----------------------------------------------------------------------------
(* What the analyzers look up *)

(* The register has an analyzer for every kind. *)
LEMMA AnalyzersType ==
    /\ \A kind : findAnalyzer(kind) \in Analyzer
    /\ \A o : AnalyzersOf(o) \subseteq Analyzer
    /\ "register" \notin Analyzer
    /\ \A a : FoundBy(a) \subseteq Analyzer
BY DEF findAnalyzer, AnalyzersOf, Analyzer, Registered, AlwaysGreen, FoundBy

(* The queries for the analyzer's own choice of analyzer *)
LEMMA SelQueryForm ==
    ASSUME NEW o, NEW kind, NEW sel
    PROVE  LET l == SelQuery(o, kind, sel)
           IN  l.how = "query" /\ l.with = kind /\ l.q.gk = Included({kind})
BY DEF SelQuery, ByQuery

(* The query by owner leaves the choice of analyzer to the register. *)
LEMMA OwnerQueryForm ==
    ASSUME NEW o, NEW ns
    PROVE  OwnerQuery(o, ns).how = "query" /\ OwnerQuery(o, ns).with = "register"
BY DEF OwnerQuery, ByQuery

(* Only a Subscription is given the Subscription's analyzer. *)
LEMMA SubscriptionKind ==
    \A o \in Obj : "Subscription" \in AnalyzersOf(o) => KindOf[o] = "Subscription"
BY DEF AnalyzersOf, findAnalyzer, Registered, AlwaysGreen

(* Analyzers look up what FoundBy says. *)
LEMMA LookupsProper ==
    ASSUME NEW o \in Obj, NEW v \in 0..MaxChanges, NEW a \in AnalyzersOf(o)
    PROVE  \A l \in Lookups(a, o, v) : ProperLookup(a, l)
<1> DEFINE c == Content(o, v)
           ls == LookupsOf(a, o, c)
<1>1. Lookups(a, o, v) = {ls[i] : i \in DOMAIN ls}
  BY DEF Lookups
<1>2. \A l \in Lookups(a, o, v) : l.how = "query" => l.q \in Queries
  BY LookupsAssumption
<1>3. a \in Analyzer
  BY AnalyzersType
<1>4. CASE a \in {"Generic", "MultiClusterObservability"}
  <2>1. \E n : ls = <<OwnerQuery(o, n)>>
    BY <1>4 DEF LookupsOf
  <2>2. \A l \in Lookups(a, o, v) : \E n : l = OwnerQuery(o, n)
    BY <1>1, <2>1
  <2>3. FoundBy(a) = Analyzer
    BY <1>4 DEF FoundBy
  <2> QED BY <1>2, <2>2, <2>3, OwnerQueryForm DEF ProperLookup
<1>5. CASE a = "Deployment"
  <2>1. ls = <<SelQuery(o, "ReplicaSet", c.selected)>>
    BY <1>5 DEF LookupsOf
  <2>2. \A l \in Lookups(a, o, v) : l = SelQuery(o, "ReplicaSet", c.selected)
    BY <1>1, <2>1
  <2>3. FoundBy(a) = {"ReplicaSet"}
    BY <1>5 DEF FoundBy
  <2> QED BY <1>2, <2>2, <2>3, SelQueryForm DEF ProperLookup
<1>6. CASE a \in {"ReplicaSet", "Service"}
  <2>1. ls = <<SelQuery(o, "Pod", c.selected)>>
    BY <1>6 DEF LookupsOf
  <2>2. \A l \in Lookups(a, o, v) : l = SelQuery(o, "Pod", c.selected)
    BY <1>1, <2>1
  <2>3. FoundBy(a) = {"Pod"}
    BY <1>6 DEF FoundBy
  <2> QED BY <1>2, <2>2, <2>3, SelQueryForm DEF ProperLookup
<1>7. CASE a = "Subscription"
  <2> DEFINE P == InstallPlanQueries(o, c)
             Q == CSVQueries(o, c)
             R == {P[i] : i \in DOMAIN P} \cup {Q[i] : i \in DOMAIN Q}
  <2>1. ls = P \o Q
    BY <1>7 DEF LookupsOf
  <2>2. IsList(c.installPlanRef) /\ IsList(c.currentCSV)
    BY <1>7, SubscriptionKind, LookupsAssumption
  <2>3. P \in Seq(R) /\ Q \in Seq(R)
    <3>1. DOMAIN c.installPlanRef = 1..Len(c.installPlanRef) /\ Len(c.installPlanRef) \in Nat
      BY <2>2 DEF IsList
    <3>2. DOMAIN c.currentCSV = 1..Len(c.currentCSV) /\ Len(c.currentCSV) \in Nat
      BY <2>2 DEF IsList
    <3>3. P \in [1..Len(c.installPlanRef) -> R]
      BY <3>1 DEF InstallPlanQueries
    <3>4. Q \in [1..Len(c.currentCSV) -> R]
      BY <3>2 DEF CSVQueries
    <3> HIDE DEF P, Q, R
    <3> QED BY <3>1, <3>2, <3>3, <3>4
  <2>4. ls \in Seq(R)
    <3> HIDE DEF P, Q, R, ls
    <3> QED BY <2>1, <2>3, ConcatProperties
  <2>5. \A l \in Lookups(a, o, v) : l \in R
    <3> HIDE DEF R, ls
    <3> QED BY <1>1, <2>4
  <2>6. \A l \in R : \E sel : \E kind \in {"InstallPlan", "ClusterServiceVersion"} :
           l = SelQuery(o, kind, sel)
    <3>1. \A i \in DOMAIN P : \E sel : P[i] = SelQuery(o, "InstallPlan", sel)
      BY DEF InstallPlanQueries
    <3>2. \A i \in DOMAIN Q : \E sel : Q[i] = SelQuery(o, "ClusterServiceVersion", sel)
      BY DEF CSVQueries
    <3> HIDE DEF P, Q
    <3> QED BY <3>1, <3>2
  <2>7. FoundBy(a) = {"InstallPlan", "ClusterServiceVersion"}
    BY <1>7 DEF FoundBy
  <2> HIDE DEF P, Q, R, ls, c
  <2>8. ASSUME NEW l \in Lookups(a, o, v)
        PROVE  ProperLookup(a, l)
    <3>1. PICK sel : \E kind \in {"InstallPlan", "ClusterServiceVersion"} :
             l = SelQuery(o, kind, sel)
      BY <2>5, <2>6
    <3>2. PICK kind \in {"InstallPlan", "ClusterServiceVersion"} : l = SelQuery(o, kind, sel)
      BY <3>1
    <3>3. l.how = "query" /\ l.with = kind /\ l.q.gk = Included({kind})
      BY <3>2, SelQueryForm
    <3> QED BY <1>2, <2>7, <3>3 DEF ProperLookup
  <2> QED BY <2>8
<1>8. CASE a = "ClusterOperator"
  <2>1. ls = RelatedReads(o, c)
    BY <1>8 DEF LookupsOf
  <2>2. \A i \in DOMAIN ls : ls[i].how = "read"
    BY <2>1 DEF RelatedReads
  <2> HIDE DEF ls
  <2>3. \A l \in Lookups(a, o, v) : l.how = "read"
    BY <1>1, <2>2
  <2> QED BY <1>8, <2>3 DEF ProperLookup
<1>9. CASE a \in {"AlwaysGreen", "Node", "PersistentVolumeClaim", "Route", "Pod", "InstallPlan",
                  "ClusterServiceVersion"}
  <2>1. ls = <<>>
    BY <1>9 DEF LookupsOf
  <2> QED BY <1>1, <2>1
<1> QED BY <1>3, <1>4, <1>5, <1>6, <1>7, <1>8, <1>9 DEF Analyzer, Registered

(* A call of Analyze that begins is proper. *)
LEMMA CallProper ==
    ASSUME NEW o \in Obj, NEW v \in 0..MaxChanges, NEW a \in AnalyzersOf(o)
    PROVE  Call(a, o, v) \in ProperCalls
<1> DEFINE ls == LookupsOf(a, o, Content(o, v))
<1>1. ls \in Seq(Lookups(a, o, v))
  BY LookupsAssumption DEF IsList, Lookups
<1>2. Lookups(a, o, v) \subseteq AllLookups
  <2>1. Lookups(a, o, v) \in {Lookups(b, p, w) : b \in Analyzer, p \in Obj, w \in 0..MaxChanges}
    BY AnalyzersType
  <2> QED BY <2>1 DEF AllLookups
<1>3. ls \in Seq(AllLookups)
  BY <1>1, <1>2, SeqMonotonic
<1>4. \A i \in 1..Len(ls) : ls[i] \in Lookups(a, o, v)
  BY <1>1
<1>5. \A i \in 1..Len(ls) : ProperLookup(a, ls[i])
  BY <1>4, LookupsProper
<1>6. a \in Analyzer
  BY AnalyzersType
<1> HIDE DEF ls
<1>7. [with |-> a, obj |-> o, version |-> v, kids |-> {}, todo |-> ls] \in ProperCalls
  BY <1>3, <1>5, <1>6 DEF ProperCalls, CallType, ProperKids
<1> QED BY <1>7 DEF Call, ls

-----------------------------------------------------------------------------
(* Places in the tree *)

(* A path is at or below another one when it begins with it. *)
LEMMA BeginsWith ==
    ASSUME NEW p \in Paths, NEW q \in Paths, Len(p) <= Len(q)
    PROVE  SubSeq(q, 1, Len(p)) = p <=> Above(p, q)
<1>1. PICK t : t = SubSeq(q, 1, Len(p))
  OBVIOUS
<1>2. Len(p) \in Nat /\ Len(q) \in Nat
  BY DEF Paths
<1>3. t \in Paths /\ Len(t) = Len(p) /\ \A i \in 1..Len(p) : t[i] = q[i]
  BY <1>1, <1>2 DEF Paths
<1>4. t = p <=> \A i \in 1..Len(p) : t[i] = p[i]
  BY <1>3, SeqEqual DEF Paths
<1> QED BY <1>1, <1>3, <1>4 DEF Above

(* What is above a place is above all that is below that place. *)
LEMMA AboveTransitive ==
    ASSUME NEW p \in Paths, NEW q \in Paths, NEW r \in Paths, Above(p, q), Above(q, r)
    PROVE  Above(p, r)
BY DEF Above, Paths

(* Of two places above a third one, the higher is above the lower. *)
LEMMA AboveLinear ==
    ASSUME NEW p \in Paths, NEW q \in Paths, NEW r \in Paths,
           Above(p, r), Above(q, r), Len(p) <= Len(q)
    PROVE  Above(p, q)
BY DEF Above, Paths

(* The stack of calls and the path to its top *)
LEMMA StackForm ==
    ASSUME CallsProper, next \in Nat
    PROVE  /\ Len(stack) \in Nat
           /\ DOMAIN stack = 1..Len(stack)
           /\ stack = <<>> <=> Len(stack) = 0
           /\ \A i \in 1..Len(stack) :
                 /\ stack[i] \in ProperCalls
                 /\ Len(stack[i].todo) \in Nat
                 /\ Place(i) \in Nat \X Obj
                 /\ Place(i)[2] = stack[i].obj
                 /\ i + 1 <= Len(stack) => Place(i + 1) = <<Len(stack[i].todo), stack[i + 1].obj>>
<1>1. /\ Len(stack) \in Nat
      /\ DOMAIN stack = 1..Len(stack)
      /\ stack = <<>> <=> Len(stack) = 0
  BY EmptySeq, LenProperties DEF CallsProper
<1>2. \A i \in 1..Len(stack) : stack[i] \in ProperCalls
  BY DEF CallsProper
<1>3. \A i \in 1..Len(stack) : stack[i].obj \in Obj /\ Len(stack[i].todo) \in Nat
  BY <1>2, LenProperties DEF ProperCalls, CallType
<1>4. ASSUME NEW i \in 1..Len(stack)
      PROVE  Place(i) \in Nat \X Obj /\ Place(i)[2] = stack[i].obj
  <2>1. CASE i = 1
    BY <1>3, <2>1 DEF Place
  <2>2. CASE i # 1
    <3>1. i - 1 \in 1..Len(stack)
      BY <1>1, <2>2
    <3> QED BY <1>3, <2>2, <3>1 DEF Place
  <2> QED BY <2>1, <2>2
<1>5. ASSUME NEW i \in 1..Len(stack), i + 1 <= Len(stack)
      PROVE  Place(i + 1) = <<Len(stack[i].todo), stack[i + 1].obj>>
  <2>1. i + 1 # 1 /\ (i + 1) - 1 = i
    OBVIOUS
  <2> QED BY <2>1 DEF Place
<1> QED BY <1>1, <1>2, <1>3, <1>4, <1>5

(* The path of the top call has a place for every call on the stack. *)
LEMMA PathForm ==
    ASSUME CallsProper, next \in Nat
    PROVE  /\ Path \in Paths
           /\ Len(Path) = Len(stack)
           /\ \A i \in 1..Len(stack) : Path[i] = Place(i)
<1>1. PICK path : path = Path
  OBVIOUS
<1>2. path = [i \in 1..Len(stack) |-> Place(i)] /\ Len(stack) \in Nat
  BY <1>1, StackForm DEF Path
<1>3. \A i \in 1..Len(stack) : Place(i) \in Nat \X Obj
  BY StackForm
<1>4. path \in Seq(Nat \X Obj)
  BY <1>2, <1>3
<1>5. Len(path) = Len(stack) /\ \A i \in 1..Len(stack) : path[i] = Place(i)
  BY <1>2, <1>4, LenProperties
<1> QED BY <1>1, <1>4, <1>5 DEF Paths

(* What is at or below the top call, and what is below it *)
LEMMA ThroughTop ==
    ASSUME CallsProper, next \in Nat, NEW q \in Paths
    PROVE  Through(q, Len(stack)) <=> Above(Path, q)
BY PathForm DEF Through, Above

(* Below and Dropped, told by the places that paths lead through. *)
LEMMA BelowForm ==
    ASSUME CallsProper, NodeType, next \in Nat
    PROVE  /\ Below = {n \in nodes : Len(n.path) > Len(stack) /\ Through(n.path, Len(stack))}
           /\ \A n : n \in Dropped <=>
                 /\ n \in Below
                 /\ \E m \in Subs : ~Kept(Top.with, Sub(m)) /\ Above(m.path, n.path)
<1>1. \A n \in nodes : n.path \in Paths /\ Len(n.path) \in Nat
  BY DEF NodeType, Paths
<1>2. Path \in Paths /\ Len(Path) = Len(stack) /\ Len(stack) \in Nat
  BY PathForm, StackForm
<1>3. \A n \in nodes : Len(n.path) > Len(stack) =>
         (SubSeq(n.path, 1, Len(stack)) = Path <=> Through(n.path, Len(stack)))
  <2> SUFFICES ASSUME NEW n \in nodes, Len(n.path) > Len(stack)
               PROVE  SubSeq(n.path, 1, Len(stack)) = Path <=> Through(n.path, Len(stack))
    OBVIOUS
  <2>1. SubSeq(n.path, 1, Len(Path)) = Path <=> Above(Path, n.path)
    BY <1>1, <1>2, BeginsWith
  <2>2. Through(n.path, Len(stack)) <=> Above(Path, n.path)
    BY <1>1, ThroughTop
  <2> QED BY <1>2, <2>1, <2>2
<1>4. Below = {n \in nodes : Len(n.path) > Len(stack) /\ Through(n.path, Len(stack))}
  BY <1>3 DEF Below
<1>5. Below \subseteq nodes /\ \A n \in Below : Len(n.path) >= Len(stack) + 1
  BY <1>1, <1>2, <1>4
<1>6. \A m \in Subs : m \in nodes /\ Len(m.path) = Len(stack) + 1
  BY <1>5 DEF Subs
<1>7. \A m \in Subs, n \in Below : SubSeq(n.path, 1, Len(m.path)) = m.path <=> Above(m.path, n.path)
  BY <1>1, <1>5, <1>6, BeginsWith
<1>8. \A n : n \in Dropped <=>
         /\ n \in Below
         /\ \E m \in Subs : ~Kept(Top.with, Sub(m)) /\ SubSeq(n.path, 1, Len(m.path)) = m.path
  BY DEF Dropped
<1>9. ASSUME NEW n
      PROVE  n \in Dropped <=>
                /\ n \in Below
                /\ \E m \in Subs : ~Kept(Top.with, Sub(m)) /\ Above(m.path, n.path)
  BY <1>7, <1>8
<1> QED BY <1>4, <1>9

-----------------------------------------------------------------------------
(* Each step of a run keeps the tree. *)

(* The parts of the invariant that are about the statuses *)
NodesInv == NodeType /\ NodesConnected /\ NodesDone /\ NodesOrdered

(* As long as the places of the calls stay, so does what is at or below them. *)
LEMMA ThroughStays ==
    ASSUME NEW d \in Nat, \A j \in 1..d : Place(j)' = Place(j), NEW i \in 1..d, NEW p
    PROVE  Through(p, i)' <=> Through(p, i)
BY DEF Through

(* A lookup is answered: only the top call changes. *)
LEMMA AnsweredStack ==
    ASSUME CallsProper, next \in Nat, UNCHANGED next, stack # <<>>, Top.todo # <<>>,
           NEW kids \in SUBSET Copy, Answered(kids), ProperKids(Top.with, kids)
    PROVE  /\ stack' \in Seq(ProperCalls)
           /\ Len(stack') = Len(stack)
           /\ \A i \in 1..Len(stack) : i # Len(stack) => stack'[i] = stack[i]
           /\ \A i \in 1..Len(stack) :
                 /\ stack'[i].obj = stack[i].obj
                 /\ stack'[i].with = stack[i].with
                 /\ stack'[i].version = stack[i].version
           /\ stack'[Len(stack)].todo = Tail(Top.todo)
           /\ stack'[Len(stack)].kids = kids
           /\ \A j \in 1..Len(stack) : Place(j)' = Place(j)
<1> DEFINE D == Len(stack)
<1>1. D \in Nat /\ D \in 1..D /\ Top \in ProperCalls /\ DOMAIN stack = 1..D
  BY StackForm DEF Top
<1>2. PICK top : top = [Top EXCEPT !.todo = Tail(@), !.kids = kids]
  OBVIOUS
<1>3. Top \in CallType /\ Top.todo \in Seq(AllLookups)
  BY <1>1 DEF ProperCalls, CallType
<1>4. /\ Tail(Top.todo) \in Seq(AllLookups)
      /\ Len(Tail(Top.todo)) = Len(Top.todo) - 1
      /\ \A i \in 1..Len(Tail(Top.todo)) : Tail(Top.todo)[i] = Top.todo[i + 1]
      /\ Len(Top.todo) \in Nat
  BY <1>3, HeadTailProperties, LenProperties
<1>5. /\ top.with = Top.with /\ top.obj = Top.obj /\ top.version = Top.version
      /\ top.todo = Tail(Top.todo) /\ top.kids = kids
  BY <1>2, <1>3 DEF CallType
<1>6. top \in CallType
  BY <1>2, <1>3, <1>4 DEF CallType
<1>7. top \in ProperCalls
  <2>1. \A i \in 1..Len(top.todo) : ProperLookup(top.with, top.todo[i])
    <3> SUFFICES ASSUME NEW i \in 1..Len(top.todo) PROVE ProperLookup(top.with, top.todo[i])
      OBVIOUS
    <3>1. i + 1 \in 1..Len(Top.todo) /\ top.todo[i] = Top.todo[i + 1]
      BY <1>4, <1>5
    <3> QED BY <1>1, <1>5, <3>1 DEF ProperCalls
  <2> QED BY <1>1, <1>5, <1>6, <2>1 DEF ProperCalls
<1>8. PICK s : s = [stack EXCEPT ![Len(stack)] = top]
  OBVIOUS
<1>12. stack' = s
  BY <1>1, <1>2, <1>8 DEF Answered, Top
<1>13. /\ s \in Seq(ProperCalls)
       /\ Len(s) = Len(stack)
       /\ \A i \in 1..Len(stack) : s[i] = IF i = Len(stack) THEN top ELSE stack[i]
       /\ \A i \in 1..Len(stack) : s[i].obj = stack[i].obj /\ s[i].with = stack[i].with
  <2>1. /\ s \in Seq(ProperCalls)
        /\ Len(s) = Len(stack)
        /\ \A i \in 1..Len(stack) : s[i] = IF i = Len(stack) THEN top ELSE stack[i]
    BY <1>1, <1>7, <1>8, ExceptSeq DEF CallsProper
  <2> QED BY <1>5, <2>1 DEF Top
<1>9. /\ stack' \in Seq(ProperCalls)
      /\ Len(stack') = D
      /\ \A i \in 1..D : stack'[i] = IF i = D THEN top ELSE stack[i]
      /\ \A i \in 1..D : stack'[i].obj = stack[i].obj /\ stack'[i].with = stack[i].with
  BY <1>12, <1>13
<1>10. \A j \in 1..D : Place(j)' = Place(j)
  <2> SUFFICES ASSUME NEW j \in 1..D PROVE Place(j)' = Place(j)
    OBVIOUS
  <2>1. CASE j = 1
    BY <1>9, <2>1 DEF Place
  <2>2. CASE j # 1
    <3>1. j - 1 \in 1..D /\ j - 1 # D
      BY <1>1, <2>2
    <3> QED BY <1>9, <2>2, <3>1 DEF Place
  <2> QED BY <2>1, <2>2
<1>11. \A i \in 1..D : stack'[i].version = stack[i].version
  BY <1>5, <1>9 DEF Top
<1> QED BY <1>1, <1>5, <1>9, <1>10, <1>11

(* An answer leaves the tree of statuses in order. *)
LEMMA AnsweredTree ==
    ASSUME CallsProper, NodesInv, next \in Nat, UNCHANGED <<next, nodes>>,
           stack # <<>>, Top.todo # <<>>,
           NEW kids \in SUBSET Copy, Answered(kids), ProperKids(Top.with, kids)
    PROVE  CallsProper' /\ NodesInv'
<1> DEFINE D == Len(stack)
<1>1. D \in Nat /\ D \in 1..D /\ Top \in ProperCalls
  BY StackForm DEF Top
<1>2. Top.todo \in Seq(AllLookups)
  BY <1>1 DEF ProperCalls, CallType
<1>4. Len(Tail(Top.todo)) = Len(Top.todo) - 1 /\ Len(Top.todo) \in Nat
  BY <1>2, HeadTailProperties, LenProperties
<1>9. /\ stack' \in Seq(ProperCalls)
      /\ Len(stack') = D
      /\ \A i \in 1..D : i # D => stack'[i] = stack[i]
      /\ \A i \in 1..D : stack'[i].obj = stack[i].obj /\ stack'[i].with = stack[i].with
      /\ stack'[D].todo = Tail(Top.todo)
  BY AnsweredStack
<1>10. \A j \in 1..D : Place(j)' = Place(j)
  BY AnsweredStack
<1>11. \A p : \A i \in 1..D : Through(p, i)' <=> Through(p, i)
  BY <1>1, <1>10, ThroughStays
<1>12. CallsProper'
  <2>1. ASSUME NEW i \in 1..D, i + 1 <= D
        PROVE  /\ stack'[i + 1].with \in FoundBy(stack'[i].with)
               /\ \A k \in stack'[i].kids : k.obj # stack'[i + 1].obj
    <3>1. i + 1 \in 1..D /\ i # D
      BY <1>1, <2>1
    <3> QED BY <1>9, <2>1, <3>1 DEF CallsProper
  <2> QED BY <1>9, <2>1 DEF CallsProper
<1>13. NodesConnected'
  <2> SUFFICES ASSUME NEW n \in nodes, NEW i \in 1..Len(n.path)
               PROVE  \/ i = Len(n.path)
                      \/ i <= D /\ Through(n.path, i)'
                      \/ \E m \in nodes : Len(m.path) = i /\ Above(m.path, n.path)
    BY <1>9 DEF NodesConnected, Above
  <2>1. i <= D => i \in 1..D
    BY <1>1
  <2> QED BY <1>11, <2>1 DEF NodesInv, NodesConnected
<1>14. NodesDone'
  <2> SUFFICES ASSUME NEW n \in nodes, NEW i \in 1..D, Through(n.path, i)
               PROVE  /\ i + 1 <= Len(n.path)
                      /\ n.path[i + 1][1] >= Len(stack'[i].todo)
                      /\ n.path[i + 1][1] = Len(stack'[i].todo)
                            => \A k \in stack'[i].kids : k.obj # n.path[i + 1][2]
                      /\ Len(n.path) = i + 1 => n.with \in FoundBy(stack'[i].with)
    BY <1>9, <1>11 DEF NodesDone
  <2>1. /\ i + 1 <= Len(n.path)
        /\ n.path[i + 1][1] >= Len(stack[i].todo)
        /\ n.path[i + 1][1] = Len(stack[i].todo)
              => \A k \in stack[i].kids : k.obj # n.path[i + 1][2]
        /\ Len(n.path) = i + 1 => n.with \in FoundBy(stack[i].with)
    BY DEF NodesInv, NodesDone
  <2>2. CASE i # D
    BY <1>9, <2>1, <2>2
  <2>3. CASE i = D
    <3>1. stack'[i].todo = Tail(Top.todo) /\ stack[i] = Top /\ stack'[i].with = Top.with
      BY <1>9, <2>3 DEF Top
    <3>2. n.path[i + 1] \in Nat \X Obj
      <4>1. n.path \in Seq(Nat \X Obj)
        BY DEF NodesInv, NodeType, Paths
      <4>2. i + 1 \in 1..Len(n.path)
        BY <1>1, <2>1, <4>1
      <4> QED BY <4>1, <4>2, ElementOfSeq
    <3>3. n.path[i + 1][1] \in Nat
      BY <3>2
    <3>4. n.path[i + 1][1] > Len(stack'[i].todo)
      BY <1>4, <2>1, <3>1, <3>3
    <3> QED BY <1>4, <2>1, <3>1, <3>3, <3>4
  <2> QED BY <2>2, <2>3
<1> QED BY <1>12, <1>13, <1>14 DEF NodesInv, NodeType, NodesOrdered

(* The next sub-object is analysed: the top call hands it to a new one. *)
LEMMA AnalyzeNextStack ==
    ASSUME CallsProper, next \in Nat, AnalyzeNext
    PROVE  \E k \in Top.kids :
              /\ k \in Copy /\ k.with \in FoundBy(Top.with)
              /\ \A j \in Top.kids : j.obj = k.obj => j = k
              /\ stack' \in Seq(ProperCalls)
              /\ Len(stack') = Len(stack) + 1
              /\ stack'[Len(stack) + 1] = Call(k.with, k.obj, k.version)
              /\ stack'[Len(stack)].kids = Top.kids \ {k}
              /\ \A i \in 1..Len(stack) : i # Len(stack) => stack'[i] = stack[i]
              /\ \A i \in 1..Len(stack) :
                    /\ stack'[i].obj = stack[i].obj /\ stack'[i].with = stack[i].with
                    /\ stack'[i].version = stack[i].version
                    /\ stack'[i].todo = stack[i].todo
              /\ \A j \in 1..Len(stack) : Place(j)' = Place(j)
              /\ \A d : d = Len(stack) + 1 => Place(d)' = <<Len(Top.todo), k.obj>>
<1>0. PICK D : D = Len(stack)
  OBVIOUS
<1> USE <1>0
<1>1. stack # <<>> /\ UNCHANGED <<next, nodes>>
  BY DEF AnalyzeNext, Running, vars
<1>2. D \in Nat /\ D \in 1..D /\ Top \in ProperCalls /\ DOMAIN stack = 1..D /\ Len(Top.todo) \in Nat
  BY <1>1, StackForm DEF Top
<1>3. PICK k \in Top.kids :
        stack' = Append([stack EXCEPT ![Len(stack)].kids = @ \ {k}], Call(k.with, k.obj, k.version))
  BY DEF AnalyzeNext
<1>4. PICK top : top = [Top EXCEPT !.kids = @ \ {k}]
  OBVIOUS
<1>5. PICK s : s = [stack EXCEPT ![D] = top]
  OBVIOUS
<1>6. PICK c : c = Call(k.with, k.obj, k.version)
  OBVIOUS
<1>7. Top \in CallType /\ k \in Copy /\ k.with \in FoundBy(Top.with) /\ k.with \in AnalyzersOf(k.obj)
  BY <1>2 DEF ProperCalls, CallType, ProperKids
<1>8. /\ top.with = Top.with /\ top.obj = Top.obj /\ top.version = Top.version
      /\ top.todo = Top.todo /\ top.kids = Top.kids \ {k} /\ top \in CallType
  BY <1>4, <1>7 DEF CallType
<1>9. top \in ProperCalls
  BY <1>2, <1>8 DEF ProperCalls, ProperKids
<1>10. c \in ProperCalls /\ c.obj = k.obj /\ c.with = k.with
  <2>1. k.obj \in Obj /\ k.version \in 0..MaxChanges
    BY <1>7 DEF Copy
  <2>2. c \in ProperCalls
    BY <1>6, <1>7, <2>1, CallProper
  <2> QED BY <1>6, <2>2 DEF Call
<1>11. /\ s \in Seq(ProperCalls)
       /\ Len(s) = D
       /\ \A i \in 1..D : s[i] = IF i = D THEN top ELSE stack[i]
       /\ \A i \in 1..D : s[i].obj = stack[i].obj /\ s[i].with = stack[i].with
  <2>1. /\ s \in Seq(ProperCalls)
        /\ Len(s) = D
        /\ \A i \in 1..D : s[i] = IF i = D THEN top ELSE stack[i]
    BY <1>2, <1>5, <1>9, ExceptSeq DEF CallsProper
  <2> QED BY <1>8, <2>1 DEF Top
<1>12. stack' = Append(s, c)
  BY <1>2, <1>3, <1>4, <1>5, <1>6 DEF Top
<1>13. /\ stack' \in Seq(ProperCalls)
       /\ Len(stack') = D + 1
       /\ \A i \in 1..D : stack'[i] = s[i]
       /\ stack'[D + 1] = c
  BY <1>2, <1>10, <1>11, <1>12, AppendProperties
<1>14. \A j \in 1..D : Place(j)' = Place(j)
  <2> SUFFICES ASSUME NEW j \in 1..D PROVE Place(j)' = Place(j)
    OBVIOUS
  <2>1. CASE j = 1
    BY <1>1, <1>11, <1>13, <2>1 DEF Place
  <2>2. CASE j # 1
    <3>1. j - 1 \in 1..D /\ j - 1 # D
      BY <1>2, <2>2
    <3> QED BY <1>11, <1>13, <2>2, <3>1 DEF Place
  <2> QED BY <2>1, <2>2
<1>15. Place(D + 1)' = <<Len(Top.todo), k.obj>>
  <2>1. D + 1 # 1 /\ (D + 1) - 1 = D
    BY <1>2
  <2>2. stack'[D] = top /\ stack'[D + 1] = c
    BY <1>2, <1>11, <1>13
  <2> QED BY <1>8, <1>10, <2>1, <2>2 DEF Place
<1>16. \A i \in 1..D : /\ stack'[i].obj = stack[i].obj /\ stack'[i].with = stack[i].with
                        /\ stack'[i].version = stack[i].version
                        /\ stack'[i].todo = stack[i].todo
  BY <1>8, <1>11, <1>13 DEF Top
<1>17. stack'[D].kids = Top.kids \ {k}
  BY <1>2, <1>8, <1>11, <1>13
<1>18. \A i \in 1..D : i # D => stack'[i] = stack[i]
  BY <1>11, <1>13
<1>19. \A j \in Top.kids : j.obj = k.obj => j = k
  BY <1>2 DEF ProperCalls, ProperKids
<1>20. k \in Top.kids /\ stack'[D + 1] = Call(k.with, k.obj, k.version)
  BY <1>3, <1>6, <1>13
<1>21. /\ k \in Copy /\ k.with \in FoundBy(Top.with)
       /\ stack' \in Seq(ProperCalls)
       /\ Len(stack') = Len(stack) + 1
       /\ stack'[Len(stack) + 1] = Call(k.with, k.obj, k.version)
       /\ stack'[Len(stack)].kids = Top.kids \ {k}
  BY <1>7, <1>13, <1>17, <1>20
<1>22. \A d : d = Len(stack) + 1 => Place(d)' = <<Len(Top.todo), k.obj>>
  BY <1>15
<1>23. /\ \A i \in 1..Len(stack) : i # Len(stack) => stack'[i] = stack[i]
       /\ \A j \in 1..Len(stack) : Place(j)' = Place(j)
  BY <1>14, <1>18
<1>24. \A i \in 1..Len(stack) :
          /\ stack'[i].obj = stack[i].obj /\ stack'[i].with = stack[i].with
          /\ stack'[i].version = stack[i].version
          /\ stack'[i].todo = stack[i].todo
  BY <1>16
<1> HIDE <1>0
<1> QED BY <1>19, <1>20, <1>21, <1>22, <1>23, <1>24

(* A new call of Analyze leaves the tree of statuses in order. *)
LEMMA AnalyzeNextTree ==
    ASSUME CallsProper, NodesInv, next \in Nat, AnalyzeNext
    PROVE  /\ CallsProper' /\ NodesInv'
           /\ \A d : d = Len(stack) + 1 => \A n \in nodes : ~Through(n.path, d)'
<1>0. PICK D : D = Len(stack)
  OBVIOUS
<1> USE <1>0
<1>1. stack # <<>> /\ UNCHANGED <<next, nodes>>
  BY DEF AnalyzeNext, Running, vars
<1>2. D \in Nat /\ D \in 1..D /\ Top \in ProperCalls /\ Len(Top.todo) \in Nat
  BY <1>1, StackForm DEF Top
<1>3. PICK k \in Top.kids :
        /\ k \in Copy /\ k.with \in FoundBy(Top.with)
        /\ \A j \in Top.kids : j.obj = k.obj => j = k
        /\ stack' \in Seq(ProperCalls)
        /\ Len(stack') = D + 1
        /\ stack'[D + 1] = Call(k.with, k.obj, k.version)
        /\ stack'[D].kids = Top.kids \ {k}
        /\ \A i \in 1..D : i # D => stack'[i] = stack[i]
        /\ \A i \in 1..D :
              /\ stack'[i].obj = stack[i].obj /\ stack'[i].with = stack[i].with
              /\ stack'[i].version = stack[i].version
              /\ stack'[i].todo = stack[i].todo
        /\ \A j \in 1..D : Place(j)' = Place(j)
        /\ \A d : d = D + 1 => Place(d)' = <<Len(Top.todo), k.obj>>
  BY AnalyzeNextStack
<1>14. \A j \in 1..D : Place(j)' = Place(j)
  BY <1>3
<1>15. Place(D + 1)' = <<Len(Top.todo), k.obj>>
  BY <1>3
<1>16. \A p : \A i \in 1..D : Through(p, i)' <=> Through(p, i)
  BY <1>2, <1>14, ThroughStays
<1>17. \A n \in nodes : ~Through(n.path, D + 1)'
  <2> SUFFICES ASSUME NEW n \in nodes, Through(n.path, D + 1)' PROVE FALSE
    OBVIOUS
  <2>1. /\ \A j \in 1..D : n.path[j] = Place(j)
        /\ n.path[D + 1] = <<Len(Top.todo), k.obj>>
        /\ D + 1 <= Len(n.path)
    <3>1. \A j \in 1..(D + 1) : n.path[j] = Place(j)'
      BY DEF Through
    <3>2. D + 1 \in 1..(D + 1) /\ \A j \in 1..D : j \in 1..(D + 1)
      BY <1>2
    <3> QED BY <1>14, <1>15, <3>1, <3>2 DEF Through
  <2>2. Through(n.path, D)
    <3>1. Len(n.path) \in Nat
      BY DEF NodesInv, NodeType, Paths
    <3> QED BY <1>2, <2>1, <3>1 DEF Through
  <2>3. \A j \in stack[D].kids : j.obj # n.path[D + 1][2]
    BY <1>2, <2>1, <2>2 DEF NodesInv, NodesDone, Top
  <2> QED BY <2>1, <2>3 DEF Top
<1>18. CallsProper'
  <2>1. ASSUME NEW i \in 1..(D + 1), i + 1 <= D + 1
        PROVE  /\ stack'[i + 1].with \in FoundBy(stack'[i].with)
               /\ \A j \in stack'[i].kids : j.obj # stack'[i + 1].obj
    <3>1. CASE i = D
      <4>1. stack'[D + 1].with = k.with /\ stack'[D + 1].obj = k.obj
        BY <1>3 DEF Call
      <4>2. stack'[D].with = Top.with
        BY <1>2, <1>3 DEF Top
      <4> QED BY <1>3, <3>1, <4>1, <4>2
    <3>2. CASE i # D
      <4>1. i + 1 \in 1..D /\ i \in 1..D
        BY <1>2, <2>1, <3>2
      <4>2. stack'[i] = stack[i] /\ stack'[i + 1].obj = stack[i + 1].obj
            /\ stack'[i + 1].with = stack[i + 1].with
        BY <1>3, <3>2, <4>1
      <4> QED BY <4>1, <4>2 DEF CallsProper
    <3> QED BY <3>1, <3>2
  <2>2. stack' # <<>> => next' # 0
    BY <1>1 DEF CallsProper
  <2> QED BY <1>3, <2>1, <2>2 DEF CallsProper
<1>19. NodesConnected'
  <2> SUFFICES ASSUME NEW n \in nodes, NEW i \in 1..Len(n.path)
               PROVE  \/ i = Len(n.path)
                      \/ i <= D + 1 /\ Through(n.path, i)'
                      \/ \E m \in nodes : Len(m.path) = i /\ Above(m.path, n.path)
    BY <1>1, <1>3 DEF NodesConnected, Above
  <2>1. i <= D => i \in 1..D /\ i <= D + 1
    BY <1>2
  <2> QED BY <1>16, <2>1 DEF NodesInv, NodesConnected
<1>20. NodesDone'
  <2> SUFFICES ASSUME NEW n \in nodes, NEW i \in 1..(D + 1), Through(n.path, i)'
               PROVE  /\ i + 1 <= Len(n.path)
                      /\ n.path[i + 1][1] >= Len(stack'[i].todo)
                      /\ n.path[i + 1][1] = Len(stack'[i].todo)
                            => \A j \in stack'[i].kids : j.obj # n.path[i + 1][2]
                      /\ Len(n.path) = i + 1 => n.with \in FoundBy(stack'[i].with)
    BY <1>1, <1>3 DEF NodesDone
  <2>1. i \in 1..D
    BY <1>2, <1>17
  <2>2. /\ i + 1 <= Len(n.path)
        /\ n.path[i + 1][1] >= Len(stack[i].todo)
        /\ n.path[i + 1][1] = Len(stack[i].todo)
              => \A j \in stack[i].kids : j.obj # n.path[i + 1][2]
        /\ Len(n.path) = i + 1 => n.with \in FoundBy(stack[i].with)
    BY <1>16, <2>1 DEF NodesInv, NodesDone
  <2>3. /\ stack'[i].todo = stack[i].todo /\ stack'[i].with = stack[i].with
        /\ stack'[i].kids \subseteq stack[i].kids
    BY <1>3, <2>1 DEF Top
  <2> QED BY <2>2, <2>3
<1>21. \A d : d = Len(stack) + 1 => \A n \in nodes : ~Through(n.path, d)'
  BY <1>17
<1>22. NodesInv'
  BY <1>1, <1>19, <1>20 DEF NodesInv, NodeType, NodesOrdered
<1> QED BY <1>18, <1>21, <1>22

(* A call of Analyze returns: the calls above it stay. *)
LEMMA ConcludeStack ==
    ASSUME CallsProper, next \in Nat, Conclude
    PROVE  /\ stack' \in Seq(ProperCalls)
           /\ Len(stack') = Len(stack) - 1
           /\ \A i \in 1..(Len(stack) - 1) : stack'[i] = stack[i] /\ i \in 1..Len(stack)
           /\ \A j \in 1..(Len(stack) - 1) : Place(j)' = Place(j)
<1>0. PICK D : D = Len(stack)
  OBVIOUS
<1> USE <1>0
<1>1. stack # <<>> /\ UNCHANGED next /\ stack' = SubSeq(stack, 1, D - 1)
  BY DEF Conclude, Running, vars
<1>2. D \in Nat /\ D \in 1..D /\ Top \in ProperCalls /\ Top.with \in Analyzer
  BY <1>1, StackForm DEF Top, ProperCalls, CallType
<1>3. /\ stack' \in Seq(ProperCalls)
      /\ Len(stack') = D - 1
      /\ \A i \in 1..(D - 1) : stack'[i] = stack[i] /\ i \in 1..D
  <2>1. 1 \in 1..(D + 1) /\ D - 1 \in 0..D /\ stack \in Seq(ProperCalls)
    BY <1>2 DEF CallsProper
  <2>2. PICK t : t = SubSeq(stack, 1, D - 1)
    OBVIOUS
  <2>3. t \in Seq(ProperCalls) /\ Len(t) = D - 1 /\ \A i \in 1..(D - 1) : t[i] = stack[i]
    BY <1>2, <2>1, <2>2
  <2> QED BY <1>1, <1>2, <2>2, <2>3
<1>4. \A j \in 1..(D - 1) : Place(j)' = Place(j)
  <2> SUFFICES ASSUME NEW j \in 1..(D - 1) PROVE Place(j)' = Place(j)
    OBVIOUS
  <2>1. CASE j = 1
    BY <1>1, <1>3, <2>1 DEF Place
  <2>2. CASE j # 1
    <3>1. j - 1 \in 1..(D - 1)
      BY <1>2, <2>2
    <3> QED BY <1>3, <2>2, <3>1 DEF Place
  <2> QED BY <2>1, <2>2
<1> QED BY <1>3, <1>4

(* No status is at the place of a call under way, or above it. *)
LEMMA PathFree ==
    ASSUME CallsProper, NodesInv, next \in Nat, NEW n \in nodes
    PROVE  ~Above(n.path, Path)
<1> SUFFICES ASSUME Above(n.path, Path) PROVE FALSE
  OBVIOUS
<1>1. n.path \in Paths /\ Len(n.path) \in Nat /\ Len(n.path) >= 1
  BY DEF NodesInv, NodeType, Paths
<1>2. /\ Path \in Paths /\ Len(Path) = Len(stack) /\ Len(stack) \in Nat
      /\ \A i \in 1..Len(stack) : Path[i] = Place(i)
  BY PathForm, StackForm
<1>3. Len(n.path) \in 1..Len(stack)
  BY <1>1, <1>2 DEF Above
<1>4. Through(n.path, Len(n.path))
  BY <1>1, <1>2, <1>3 DEF Above, Through
<1>5. Len(n.path) + 1 <= Len(n.path)
  BY <1>3, <1>4 DEF NodesInv, NodesDone
<1> QED BY <1>1, <1>5

(* A call of Analyze returns its status. *)
LEMMA ConcludeTree ==
    ASSUME CallsProper, NodesInv, next \in Nat, Conclude
    PROVE  CallsProper' /\ NodesInv'
<1>0. PICK D : D = Len(stack)
  OBVIOUS
<1> USE <1>0
<1>1. stack # <<>> /\ UNCHANGED next /\ stack' = SubSeq(stack, 1, D - 1)
  BY DEF Conclude, Running, vars
<1>2. D \in Nat /\ D \in 1..D /\ Top \in ProperCalls /\ Top.with \in Analyzer
  BY <1>1, StackForm DEF Top, ProperCalls, CallType
<1>3. /\ stack' \in Seq(ProperCalls)
      /\ Len(stack') = D - 1
      /\ \A i \in 1..(D - 1) : stack'[i] = stack[i] /\ i \in 1..D
  BY ConcludeStack
<1>4. \A j \in 1..(D - 1) : Place(j)' = Place(j)
  BY ConcludeStack
<1>5. D - 1 \in Nat
  BY <1>2
<1>6. \A p : \A i \in 1..(D - 1) : Through(p, i)' <=> Through(p, i)
  BY <1>4, <1>5, ThroughStays
<1> DEFINE subs == {Sub(n) : n \in Subs}
           st == StatusOf(Top.with, Content(Top.obj, Top.version), subs)
           new == Node(Path, Top.with, Top.version, st)
<1>7. nodes' = (nodes \ Dropped) \cup {new}
  BY DEF Conclude
<1>8. new.path = Path /\ new.status = st /\ new.with = Top.with
  BY DEF Node
<1>9. /\ \A n \in nodes : n.path \in Paths /\ Len(n.path) \in Nat /\ Len(n.path) >= 1
                          /\ n.status \in Statuses
      /\ Path \in Paths /\ Len(Path) = D /\ \A i \in 1..D : Path[i] = Place(i)
  BY PathForm DEF NodesInv, NodeType, Paths
<1>10. /\ Below = {n \in nodes : Len(n.path) > D /\ Through(n.path, D)}
       /\ \A n : n \in Dropped <=>
              /\ n \in Below
              /\ \E m \in Subs : ~Kept(Top.with, Sub(m)) /\ Above(m.path, n.path)
  BY BelowForm DEF NodesInv
<1>11. \A n \in Subs : n \in nodes /\ n \in Below /\ Len(n.path) = D + 1
  BY <1>10 DEF Subs
<1>12. \A s \in subs : s.status \in Statuses /\ s.with \in FoundBy(Top.with)
  <2> SUFFICES ASSUME NEW n \in Subs
               PROVE  Sub(n).status \in Statuses /\ Sub(n).with \in FoundBy(Top.with)
    OBVIOUS
  <2>1. n \in nodes /\ Through(n.path, D) /\ Len(n.path) = D + 1
    BY <1>10, <1>11
  <2>2. n.with \in FoundBy(Top.with)
    BY <1>2, <2>1 DEF NodesInv, NodesDone, Top
  <2> QED BY <1>9, <2>1, <2>2 DEF Sub
<1>13. /\ st \in Statuses
       /\ \A n \in Subs : Kept(Top.with, Sub(n)) => NoBetter(st, n.status)
  <2>1. st \in Statuses /\ \A s \in subs : Kept(Top.with, s) => NoBetter(st, s.status)
    <3> HIDE DEF subs
    <3> QED BY <1>2, <1>12, StatusNoBetter
  <2>2. \A n \in Subs : Sub(n) \in subs /\ Sub(n).status = n.status
    BY DEF Sub
  <2> HIDE DEF st, subs
  <2> QED BY <2>1, <2>2
<1> HIDE DEF st, new
<1>14. \A n \in nodes : ~Above(n.path, Path)
  BY PathFree
<1>15. \A n \in nodes \ Dropped : Above(Path, n.path) => NoBetter(st, n.status)
  <2> SUFFICES ASSUME NEW n \in nodes, n \notin Dropped, Above(Path, n.path)
               PROVE  NoBetter(st, n.status)
    OBVIOUS
  <2>1. Through(n.path, D)
    BY <1>9, ThroughTop
  <2>2. D + 1 <= Len(n.path) /\ n \in Below
    <3>1. D + 1 <= Len(n.path)
      BY <1>2, <2>1 DEF NodesInv, NodesDone
    <3> QED BY <1>2, <1>9, <1>10, <2>1, <3>1
  <2>3. PICK m \in Subs : Above(m.path, n.path)
    <3>1. CASE Len(n.path) = D + 1
      BY <2>2, <3>1 DEF Subs, Above
    <3>2. CASE Len(n.path) # D + 1
      <4>1. D + 1 \in 1..Len(n.path) /\ ~(D + 1 <= D)
        BY <1>2, <1>9, <2>2
      <4>2. PICK m \in nodes : Len(m.path) = D + 1 /\ Above(m.path, n.path)
        BY <3>2, <4>1 DEF NodesInv, NodesConnected
      <4>3. Above(Path, m.path)
        BY <1>2, <1>9, <4>2, AboveLinear
      <4>4. Through(m.path, D)
        BY <1>9, <4>3, ThroughTop
      <4>5. m \in Below
        BY <1>2, <1>10, <4>2, <4>4
      <4> QED BY <4>2, <4>5 DEF Subs
    <3> QED BY <3>1, <3>2
  <2>4. Kept(Top.with, Sub(m))
    BY <1>10, <2>2, <2>3
  <2>5. NoBetter(st, m.status) /\ NoBetter(m.status, n.status) /\ m \in nodes
    BY <1>11, <1>13, <2>3, <2>4 DEF NodesInv, NodesOrdered
  <2>6. /\ st.result \in Nat /\ m.status.result \in Nat /\ n.status.result \in Nat
    BY <1>9, <1>13, <2>5 DEF Statuses, Results, Unknown, Error
  <2> QED BY <2>5, <2>6 DEF NoBetter
<1>16. CallsProper'
  <2>1. ASSUME NEW i \in 1..(D - 1), i + 1 <= D - 1
        PROVE  /\ stack'[i + 1].with \in FoundBy(stack'[i].with)
               /\ \A k \in stack'[i].kids : k.obj # stack'[i + 1].obj
    <3>1. i + 1 \in 1..(D - 1) /\ i + 1 <= D
      BY <1>2, <2>1
    <3> QED BY <1>3, <3>1 DEF CallsProper
  <2> QED BY <1>1, <1>3, <2>1 DEF CallsProper
<1>17. NodeType'
  <2>1. next # 0 => Path[1][1] <= next
    <3>1. Path[1] = Place(1) /\ Place(1)[1] = next
      BY <1>2, <1>9 DEF Place
    <3> QED BY <3>1
  <2>2. new.path \in Paths /\ Len(new.path) >= 1 /\ new.status \in Statuses
    BY <1>2, <1>8, <1>9, <1>13
  <2> QED BY <1>1, <1>7, <1>8, <2>1, <2>2 DEF NodesInv, NodeType
<1>18. NodesConnected'
  <2> SUFFICES ASSUME NEW n \in nodes', NEW i \in 1..Len(n.path), i # Len(n.path)
               PROVE  \/ i <= D - 1 /\ Through(n.path, i)'
                      \/ \E m \in nodes' : Len(m.path) = i /\ Above(m.path, n.path)
    BY <1>3 DEF NodesConnected, Above
  <2>1. CASE n = new
    <3>1. i \in 1..(D - 1) /\ i <= D - 1
      BY <1>2, <1>8, <1>9, <2>1
    <3>2. Through(Path, i)
      BY <1>2, <1>9, <3>1 DEF Through
    <3> QED BY <1>6, <1>8, <2>1, <3>1, <3>2
  <2>2. CASE n \in nodes /\ n \notin Dropped
    <3>1. CASE i <= D /\ Through(n.path, i)
      <4>1. CASE i = D
        <5>1. Above(new.path, n.path) /\ Len(new.path) = i
          BY <1>8, <1>9, <2>2, <3>1, <4>1, ThroughTop
        <5> QED BY <1>7, <5>1
      <4>2. CASE i # D
        <5>1. i \in 1..(D - 1) /\ i <= D - 1
          BY <1>2, <3>1, <4>2
        <5> QED BY <1>6, <3>1, <5>1
      <4> QED BY <4>1, <4>2
    <3>2. CASE \E m \in nodes : Len(m.path) = i /\ Above(m.path, n.path)
      <4>1. PICK m \in nodes : Len(m.path) = i /\ Above(m.path, n.path)
        BY <3>2
      <4>2. m \notin Dropped
        <5> SUFFICES ASSUME m \in Dropped PROVE n \in Dropped
          BY <2>2
        <5>1. PICK k \in Subs : ~Kept(Top.with, Sub(k)) /\ Above(k.path, m.path)
          BY <1>10
        <5>2. Above(k.path, n.path)
          BY <1>9, <1>11, <2>2, <4>1, <5>1, AboveTransitive
        <5>3. m \in Below /\ Above(Path, m.path) /\ Len(m.path) > D
          BY <1>9, <1>10, ThroughTop
        <5>4. Above(Path, n.path)
          BY <1>9, <2>2, <4>1, <5>3, AboveTransitive
        <5>5. Through(n.path, D) /\ Len(n.path) > D
          BY <1>2, <1>9, <2>2, <4>1, <5>3, <5>4, ThroughTop
        <5>6. n \in Below
          BY <1>10, <2>2, <5>5
        <5> QED BY <1>10, <5>1, <5>2, <5>6
      <4> QED BY <1>7, <4>1, <4>2
    <3> QED BY <2>2, <3>1, <3>2 DEF NodesInv, NodesConnected
  <2> QED BY <1>7, <2>1, <2>2
<1>19. NodesDone'
  <2> SUFFICES ASSUME NEW n \in nodes', NEW i \in 1..(D - 1), Through(n.path, i)'
               PROVE  /\ i + 1 <= Len(n.path)
                      /\ n.path[i + 1][1] >= Len(stack'[i].todo)
                      /\ n.path[i + 1][1] = Len(stack'[i].todo)
                            => \A k \in stack'[i].kids : k.obj # n.path[i + 1][2]
                      /\ Len(n.path) = i + 1 => n.with \in FoundBy(stack'[i].with)
    BY <1>3 DEF NodesDone
  <2>0. Through(n.path, i) /\ stack'[i] = stack[i]
    BY <1>3, <1>6
  <2>1. i \in 1..D /\ i + 1 \in 1..D /\ i + 1 <= D
    BY <1>2
  <2>2. CASE n \in nodes
    BY <2>0, <2>1, <2>2 DEF NodesInv, NodesDone
  <2>3. CASE n = new
    <3>1. Len(n.path) = D /\ n.path[i + 1] = <<Len(stack[i].todo), stack[i + 1].obj>>
      BY <1>8, <1>9, <2>1, <2>3, StackForm
    <3>2. Len(stack[i].todo) \in Nat
      BY <2>1, StackForm
    <3>3. /\ stack[i + 1].with \in FoundBy(stack[i].with)
          /\ \A k \in stack[i].kids : k.obj # stack[i + 1].obj
      BY <2>1 DEF CallsProper
    <3>4. D = i + 1 => n.with = stack[i + 1].with
      BY <1>8, <2>3 DEF Top
    <3> QED BY <2>0, <2>1, <3>1, <3>2, <3>3, <3>4
  <2> QED BY <1>7, <2>2, <2>3
<1>20. NodesOrdered'
  <2> SUFFICES ASSUME NEW m \in nodes', NEW n \in nodes', Above(m.path, n.path)
               PROVE  NoBetter(m.status, n.status)
    BY DEF NodesOrdered, Above, NoBetter
  <2>1. CASE m \in nodes /\ n \in nodes
    BY <2>1 DEF NodesInv, NodesOrdered
  <2>2. CASE m = new /\ n \in nodes \ Dropped
    BY <1>8, <1>15, <2>2
  <2>3. CASE m \in nodes /\ n = new
    BY <1>8, <1>14, <2>3
  <2>4. CASE m = new /\ n = new
    <3>1. new.status.result \in Nat
      BY <1>8, <1>13 DEF Statuses, Results, Unknown, Error
    <3> QED BY <2>4, <3>1 DEF NoBetter
  <2> QED BY <1>7, <2>1, <2>2, <2>3, <2>4
<1> QED BY <1>16, <1>17, <1>18, <1>19, <1>20 DEF NodesInv

(* No object has more versions than the cluster saw changes. *)
VersionsBounded ==
    /\ \A o \in Obj : version[o] <= changes
    /\ \A o \in Cached : cache[o] \in 0..MaxChanges

(* Every step of the evaluator keeps the versions within their bound. *)
LEMMA VersionsNext ==
    ASSUME FreshInv, VersionsBounded, [Next]_vars
    PROVE  VersionsBounded'
<1>1. /\ version \in [Obj -> Nat] /\ changes \in Nat /\ changes <= MaxChanges /\ MaxChanges \in Nat
      /\ cache \in [Obj -> Nat \cup {NotCached}]
  BY ConstantsAssumption DEF FreshInv, TypeOK, Version
<1>2. /\ changes' \in Nat /\ changes' >= changes
      /\ \A o \in Obj : version'[o] <= changes'
  <2>1. CASE UNCHANGED <<version, changes>>
    BY <1>1, <2>1 DEF VersionsBounded
  <2>2. CASE ClusterStep
    <3>1. PICK o \in Obj : Create(o) \/ Delete(o) \/ Update(o)
      BY <2>2 DEF ClusterStep
    <3>2. changes' = changes + 1
      BY <3>1 DEF Create, Delete, Update, Change
    <3>3. version' = version \/ version' = [version EXCEPT ![o] = @ + 1]
      BY <3>1 DEF Create, Delete, Update
    <3>4. \A p \in Obj : version[p] \in Nat /\ version[p] <= changes
      BY <1>1 DEF VersionsBounded
    <3>5. \A p \in Obj : version'[p] = version[p] \/ version'[p] = version[p] + 1
      BY <1>1, <3>3
    <3> QED BY <1>1, <3>2, <3>4, <3>5
  <2>3. EvaluatorStep \/ UNCHANGED vars => UNCHANGED <<version, changes>>
    BY DEF EvaluatorStep, Reset, EndRun, Eval, Query, QueryLoaded, QueryLoadFailed, QueryCached,
           EvalQuery, EvalResource, clusterVars, vars
  <2> QED BY <2>1, <2>2, <2>3 DEF Next
<1>3. ASSUME NEW o \in Obj, o \in Cached' PROVE cache'[o] \in 0..MaxChanges
  <2>1. CASE Reset
    BY <1>3, <2>1 DEF Reset, ClearCaches, Cached
  <2>2. CASE ~Reset /\ o \in Cached
    <3>1. cache'[o] = cache[o]
      BY <2>2, OnlyResetForgets DEF KeepsRun, FreshInv
    <3> QED BY <2>2, <3>1 DEF VersionsBounded
  <2>3. CASE ~Reset /\ o \notin Cached
    <3>1. CASE o \in Alive /\ cache'[o] = version[o]
      <4>1. version[o] \in Nat /\ version[o] <= changes
        BY <1>1 DEF VersionsBounded
      <4> QED BY <1>1, <3>1, <4>1
    <3>2. CASE Eval /\ o = Requested[next]
      <4>1. cache' = [cache EXCEPT ![o] = 0]
        BY <1>3, <2>3, <3>2 DEF Eval, CacheRequested, Cached
      <4> QED BY <1>1, <4>1
    <3> QED BY <1>3, <2>3, <3>1, <3>2, AddedToCache
  <2> QED BY <2>1, <2>2, <2>3
<1> QED BY <1>2, <1>3 DEF VersionsBounded, Cached

(* Versions are within their bound in every state. *)
LEMMA VersionsHold == AnalysisSpec => []VersionsBounded
<1>1. Init => VersionsBounded
  BY DEF Init, VersionsBounded, Cached
<1>2. FreshInv /\ VersionsBounded /\ [Next]_vars => VersionsBounded'
  BY VersionsNext
<1>3. Spec => []VersionsBounded
  BY <1>1, <1>2, FreshInvariance, PTL DEF Spec
<1> QED BY <1>3, AnalysisImplementsEvaluator, PTL DEF ImplementsEvaluator

(* A copy of the cluster's or of the cache's has a version within the bound. *)
LEMMA VersionRange ==
    ASSUME TypeOK, VersionsBounded
    PROVE  /\ \A o \in Obj : version[o] \in 0..MaxChanges
           /\ \A o \in Cached : o \in Obj /\ cache[o] \in 0..MaxChanges
<1>1. \A o \in Obj : version[o] \in Nat /\ version[o] <= changes
  BY DEF TypeOK, Version, VersionsBounded
<1>2. changes \in Nat /\ changes <= MaxChanges /\ MaxChanges \in Nat
  BY ConstantsAssumption DEF TypeOK
<1> QED BY <1>1, <1>2 DEF VersionsBounded, Cached

(* The lookup that the top call makes next suits its analyzer. *)
LEMMA TopLookup ==
    ASSUME CallsProper, next \in Nat, stack # <<>>, Top.todo # <<>>
    PROVE  /\ Top \in ProperCalls
           /\ Top.with \in Analyzer
           /\ ProperLookup(Top.with, Head(Top.todo))
<1>1. Top \in ProperCalls
  BY StackForm DEF Top
<1>2. Top.with \in Analyzer /\ Top.todo \in Seq(AllLookups)
  BY <1>1 DEF ProperCalls, CallType
<1>3. 1 \in 1..Len(Top.todo) /\ Head(Top.todo) = Top.todo[1]
  BY <1>2, EmptySeq, LenProperties, HeadTailProperties
<1> QED BY <1>1, <1>2, <1>3 DEF ProperCalls

(* What a query finds has an analyzer that suits it. *)
LEMMA AnswersProper ==
    EvaluatorFacts /\ VersionsBounded =>
        \A a \in Analyzer : \A l :
            l.how = "query" /\ ProperLookup(a, l)
                => Answers(l) \subseteq Copy /\ ProperKids(a, Answers(l))
<1> SUFFICES ASSUME EvaluatorFacts, VersionsBounded,
                    NEW a \in Analyzer, NEW l, l.how = "query", ProperLookup(a, l)
             PROVE  Answers(l) \subseteq Copy /\ ProperKids(a, Answers(l))
  OBVIOUS
<1>0. Inv /\ TypeOK
  BY DEF EvaluatorFacts, FreshInv
<1> DEFINE w(o) == IF l.with = "register" THEN findAnalyzer(KindOf[o]) ELSE l.with
<1>1. l.q \in Queries
  BY DEF ProperLookup
<1>2. Answer(l.q) \subseteq Cached
  BY <1>0, <1>1, AnswersCached
<1>3. ASSUME NEW o \in Answer(l.q)
      PROVE  /\ o \in Obj /\ cache[o] \in 0..MaxChanges
             /\ w(o) \in Analyzer /\ w(o) \in FoundBy(a) /\ w(o) \in AnalyzersOf(o)
  <2>1. o \in Obj /\ cache[o] \in 0..MaxChanges
    BY <1>0, <1>2, VersionRange
  <2>2. CASE l.with = "register"
    BY <2>1, <2>2, AnalyzersType DEF ProperLookup, AnalyzersOf
  <2>3. CASE l.with # "register"
    <3>1. /\ l.with \in FoundBy(a) /\ l.q.gk = Included({l.with})
          /\ l.with \in {"ReplicaSet", "Pod", "InstallPlan", "ClusterServiceVersion"}
      BY <2>3 DEF ProperLookup
    <3>2. Match(l.q.gk, KindOf[o])
      BY DEF Answer, Filter
    <3>3. KindOf[o] = l.with
      BY <3>1, <3>2 DEF Match, Included
    <3> QED BY <2>1, <2>3, <3>1, <3>3, AnalyzersType
            DEF AnalyzersOf, findAnalyzer, Registered
  <2> QED BY <2>1, <2>2, <2>3
<1>4. Answers(l) = {Kid(w(o), o, cache[o]) : o \in Answer(l.q)}
  BY DEF Answers
<1>5. Answers(l) \subseteq Copy
  BY <1>3, <1>4 DEF Kid, Copy
<1>6. ProperKids(a, Answers(l))
  BY <1>3, <1>4 DEF Kid, ProperKids
<1> QED BY <1>5, <1>6

(* Each action of the poller, and the cluster's, keeps the tree. *)

(* EvalQuery keeps the tree in order. *)
LEMMA QueryTree ==
    ASSUME EvaluatorFacts, EvaluatorFacts', VersionsBounded', TreeInv, RunQuery
    PROVE  TreeInv'
<1>0. EvaluatorFacts' /\ VersionsBounded' =>
        (\A a \in Analyzer : \A l :
            l.how = "query" /\ ProperLookup(a, l)
                => Answers(l) \subseteq Copy /\ ProperKids(a, Answers(l)))'
  BY AnswersProper, PTL
<1>1. CallsProper /\ NodesInv /\ next \in Nat /\ stack # <<>> /\ Top.todo # <<>>
  BY DEF TreeInv, NodesInv, RunQuery, Asking, Running, EvaluatorFacts, FreshInv, TypeOK
<1>2. PICK l \in {Head(Top.todo)} :
        /\ l.how = "query"
        /\ QueryLoaded(l.q) \/ QueryCached(l.q) \/ QueryLoadFailed(l.q)
        /\ Answered(Answers(l)')
  BY DEF RunQuery
<1>3. UNCHANGED <<next, nodes>>
  BY <1>2 DEF RunQuery, QueryLoaded, QueryCached, QueryLoadFailed, EvalQuery
<1>4. Top.with \in Analyzer /\ ProperLookup(Top.with, l)
  BY <1>1, <1>2, TopLookup
<1>5. PICK a : a = Top.with
  OBVIOUS
<1>6. PICK kids : kids = Answers(l)'
  OBVIOUS
<1>7. kids \subseteq Copy /\ ProperKids(a, kids)
  BY <1>0, <1>2, <1>4, <1>5, <1>6
<1> QED BY <1>1, <1>2, <1>3, <1>5, <1>6, <1>7, AnsweredTree DEF TreeInv, NodesInv

(* evaluateRelatedObjects keeps the tree in order. *)
LEMMA ReadTree ==
    ASSUME EvaluatorFacts, VersionsBounded, TreeInv, RunRead \/ RunReadFails
    PROVE  TreeInv'
<1>1. /\ CallsProper /\ NodesInv /\ TypeOK /\ next \in Nat /\ stack # <<>> /\ Top.todo # <<>>
      /\ Head(Top.todo).how = "read"
  <2>1. stack # <<>> /\ Top.todo # <<>> /\ Head(Top.todo).how = "read"
    BY DEF RunRead, RunReadFails, Asking, Running
  <2>2. TypeOK /\ next \in Nat
    BY DEF EvaluatorFacts, FreshInv, TypeOK
  <2> QED BY <2>1, <2>2 DEF TreeInv, NodesInv
<1>2. UNCHANGED <<next, nodes>>
  BY DEF RunRead, RunReadFails, EvalResource, vars
<1>3. FoundBy(Top.with) = Analyzer
  <2>1. Top.with = "ClusterOperator"
    BY <1>1, TopLookup DEF ProperLookup
  <2> QED BY <2>1 DEF FoundBy
<1>4. PICK kids : Answered(kids) /\ kids \subseteq Copy /\ ProperKids(Top.with, kids)
  <2>1. CASE RunReadFails
    <3>1. PICK kids : kids = {}
      OBVIOUS
    <3>2. Answered(kids)
      BY <2>1, <3>1 DEF RunReadFails
    <3> QED BY <3>1, <3>2 DEF ProperKids
  <2>2. CASE RunRead
    <3>1. PICK objs \in SUBSET (Related \cap Alive) :
             Answered({Kid(findAnalyzer(KindOf[p]), p, version[p]) : p \in objs})
      BY <2>2 DEF RunRead, Named
    <3>2. PICK kids : kids = {Kid(findAnalyzer(KindOf[p]), p, version[p]) : p \in objs}
      OBVIOUS
    <3>3. \A p \in objs : /\ p \in Obj /\ version[p] \in 0..MaxChanges
                          /\ findAnalyzer(KindOf[p]) \in Analyzer
                          /\ findAnalyzer(KindOf[p]) \in AnalyzersOf(p)
      BY <1>1, <3>1, VersionRange, AnalyzersType DEF Alive, AnalyzersOf
    <3>4. kids \subseteq Copy
      BY <3>2, <3>3 DEF Kid, Copy
    <3>5. ProperKids(Top.with, kids)
      BY <1>3, <3>2, <3>3 DEF Kid, ProperKids
    <3> QED BY <3>1, <3>2, <3>4, <3>5
  <2> QED BY <2>1, <2>2
<1> QED BY <1>1, <1>2, <1>4, AnsweredTree DEF TreeInv, NodesInv

(* Eval keeps the tree in order: its root call has a place of its own. *)
LEMMA EvalTree ==
    ASSUME EvaluatorFacts, VersionsBounded, TreeInv, EvalRequested
    PROVE  TreeInv'
<1> DEFINE o == Requested[next]
<1>1. /\ TypeOK /\ stack = <<>> /\ next \in DOMAIN Requested /\ next' = next + 1
      /\ next \in Nat /\ next # 0 /\ o \in Obj /\ Len(stack) = 0
  BY ConstantsAssumption, EmptySeq
  DEF EvalRequested, Eval, EvalNext, EvaluatorFacts, FreshInv, TypeOK
<1>2. \A n \in nodes : /\ n.path \in Paths /\ Len(n.path) >= 1 /\ n.status \in Statuses
                       /\ Len(n.path) \in Nat
                       /\ n.path[1][1] \in Nat /\ n.path[1][1] <= next
  <2> SUFFICES ASSUME NEW n \in nodes
               PROVE  /\ n.path \in Paths /\ Len(n.path) >= 1 /\ n.status \in Statuses
                      /\ Len(n.path) \in Nat
                      /\ n.path[1][1] \in Nat /\ n.path[1][1] <= next
    OBVIOUS
  <2>1. n.path \in Seq(Nat \X Obj) /\ Len(n.path) >= 1 /\ n.status \in Statuses /\ n.path[1][1] <= next
    BY <1>1 DEF TreeInv, NodeType, Paths
  <2>2. Len(n.path) \in Nat /\ 1 \in 1..Len(n.path)
    BY <2>1
  <2>3. n.path[1] \in Nat \X Obj
    BY <2>1, <2>2, ElementOfSeq
  <2> QED BY <2>1, <2>2, <2>3 DEF Paths
<1>3. \A n \in nodes : \A i \in 1..Len(n.path) :
         i = Len(n.path) \/ \E m \in nodes : Len(m.path) = i /\ Above(m.path, n.path)
  BY <1>1 DEF TreeInv, NodesConnected
<1>4. CASE /\ UNCHANGED nodes
           /\ \E c \in Analysed(o) : stack' = <<Call(findAnalyzer(KindOf[o]), c[1], c[2])>>
  <2>1. PICK c \in Analysed(o) : stack' = <<Call(findAnalyzer(KindOf[o]), c[1], c[2])>>
    BY <1>4
  <2>2. PICK call : call = Call(findAnalyzer(KindOf[o]), c[1], c[2])
    OBVIOUS
  <2>3. c[1] \in Obj /\ c[2] \in 0..MaxChanges /\ KindOf[c[1]] = KindOf[o]
    <3>1. CASE o \in Cached
      BY <1>1, <3>1, VersionRange DEF Analysed
    <3>2. CASE o \notin Cached
      BY <1>1, <3>2, VersionRange DEF Analysed, Found, Homonym, Alive
    <3> QED BY <3>1, <3>2
  <2>4. call \in ProperCalls
    <3>1. findAnalyzer(KindOf[o]) \in AnalyzersOf(c[1])
      BY <2>3 DEF AnalyzersOf
    <3> QED BY <2>2, <2>3, <3>1, CallProper
  <2>5. /\ stack' \in Seq(ProperCalls) /\ Len(stack') = 1 /\ stack'[1] = call
    BY <2>1, <2>2, <2>4
  <2>6. CallsProper'
    BY <1>1, <2>5 DEF CallsProper
  <2>7. \A n \in nodes : ~Through(n.path, 1)'
    <3> SUFFICES ASSUME NEW n \in nodes, Through(n.path, 1)' PROVE FALSE
      OBVIOUS
    <3>1. n.path[1] = Place(1)' /\ Place(1)'[1] = next'
      BY DEF Through, Place
    <3> QED BY <1>1, <1>2, <3>1
  <2>8. NodeType'
    BY <1>1, <1>2, <1>4 DEF NodeType
  <2>9. NodesConnected'
    BY <1>3, <1>4 DEF NodesConnected, Above
  <2>10. NodesDone'
    BY <1>4, <2>5, <2>7 DEF NodesDone
  <2>11. NodesOrdered'
    BY <1>4 DEF TreeInv, NodesOrdered, Above, NoBetter
  <2> QED BY <2>6, <2>8, <2>9, <2>10, <2>11 DEF TreeInv
<1>5. CASE /\ nodes' = nodes \cup {Node(<< <<next', o>> >>, "none", NotCached, Status(Unknown))}
           /\ UNCHANGED stack
  <2>1. PICK new : new = Node(<< <<next', o>> >>, "none", NotCached, Status(Unknown))
    OBVIOUS
  <2>2. /\ new.path = << <<next', o>> >> /\ new.status = Status(Unknown)
        /\ nodes' = nodes \cup {new}
    BY <1>5, <2>1 DEF Node
  <2>3. /\ new.path \in Paths /\ Len(new.path) = 1 /\ new.path[1][1] = next'
        /\ new.status \in Statuses
    BY <1>1, <2>2, StatusType, ResultsType DEF Paths
  <2>4. \A n \in nodes : n.path[1] # new.path[1]
    BY <1>1, <1>2, <2>3
  <2>5. CallsProper'
    BY <1>1, <1>5 DEF TreeInv, CallsProper
  <2>6. NodeType'
    BY <1>1, <1>2, <2>2, <2>3 DEF NodeType
  <2>7. NodesConnected'
    <3> SUFFICES ASSUME NEW n \in nodes', NEW i \in 1..Len(n.path), i # Len(n.path)
                 PROVE  \E m \in nodes' : Len(m.path) = i /\ Above(m.path, n.path)
      BY DEF NodesConnected, Above
    <3> QED BY <1>3, <2>2, <2>3
  <2>8. NodesDone'
    BY <1>1, <1>5 DEF NodesDone
  <2>9. NodesOrdered'
    <3> SUFFICES ASSUME NEW m \in nodes', NEW n \in nodes', Above(m.path, n.path)
                 PROVE  NoBetter(m.status, n.status)
      BY DEF NodesOrdered, Above, NoBetter
    <3>1. n.path[1] = m.path[1]
      BY <1>2, <2>2, <2>3 DEF Above
    <3>2. CASE m \in nodes /\ n \in nodes
      BY <3>2 DEF TreeInv, NodesOrdered
    <3>3. CASE m = new /\ n = new
      BY <2>3, <3>3 DEF NoBetter, Statuses, Results, Unknown, Error
    <3> QED BY <2>2, <2>4, <3>1, <3>2, <3>3
  <2> QED BY <2>5, <2>6, <2>7, <2>8, <2>9 DEF TreeInv
<1> QED BY <1>4, <1>5 DEF EvalRequested

(* Steps that leave the calls and the statuses alone, or start afresh *)
LEMMA OtherTree ==
    ASSUME EvaluatorFacts, TreeInv, BeginRun \/ SendUpdate \/ ClusterChange \/ UNCHANGED avars
    PROVE  TreeInv'
<1>1. CASE UNCHANGED <<stack, nodes, next>>
  <2>1. \A i : Place(i)' = Place(i)
    BY <1>1 DEF Place
  <2>2. \A p, i : Through(p, i)' <=> Through(p, i)
    BY <2>1 DEF Through
  <2>3. CallsProper' /\ NodeType' /\ NodesOrdered'
    BY <1>1 DEF TreeInv, CallsProper, NodeType, NodesOrdered, Above, NoBetter
  <2>4. NodesConnected' /\ NodesDone'
    BY <1>1, <2>2 DEF TreeInv, NodesConnected, NodesDone, Above
  <2> QED BY <2>3, <2>4 DEF TreeInv
<1>2. CASE BeginRun
  <2>1. stack = <<>> /\ stack' = <<>> /\ nodes' = {}
    BY <1>2 DEF BeginRun, Reset, TreeInv, CallsProper
  <2>2. CallsProper'
    BY <2>1, EmptySeq DEF CallsProper
  <2> QED BY <2>1, <2>2 DEF TreeInv, NodeType, NodesConnected, NodesDone, NodesOrdered
<1>3. CASE SendUpdate
  <2>1. stack = <<>> /\ UNCHANGED <<stack, nodes>> /\ next' = 0 /\ Len(stack) = 0
    BY <1>3, EmptySeq DEF SendUpdate, EndRun
  <2>2. CallsProper' /\ NodeType' /\ NodesOrdered'
    BY <2>1 DEF TreeInv, CallsProper, NodeType, NodesOrdered, Above, NoBetter
  <2>3. NodesConnected'
    BY <2>1 DEF TreeInv, NodesConnected, Above
  <2>4. NodesDone'
    BY <2>1 DEF NodesDone
  <2> QED BY <2>2, <2>3, <2>4 DEF TreeInv
<1>4. ClusterChange \/ UNCHANGED avars => UNCHANGED <<stack, nodes, next>>
  BY DEF ClusterChange, Create, Delete, Update, avars, vars
<1> QED BY <1>1, <1>2, <1>3, <1>4

(* Every step keeps the tree in order. *)
LEMMA TreeNext ==
    ASSUME EvaluatorFacts, EvaluatorFacts', VersionsBounded, VersionsBounded', TreeInv,
           [AnalysisNext]_avars
    PROVE  TreeInv'
<1>1. next \in Nat /\ CallsProper /\ NodesInv
  BY DEF EvaluatorFacts, FreshInv, TypeOK, TreeInv, NodesInv
<1>2. CASE AnalyzeNext
  BY <1>1, <1>2, AnalyzeNextTree DEF TreeInv, NodesInv
<1>3. CASE Conclude
  BY <1>1, <1>3, ConcludeTree DEF TreeInv, NodesInv
<1> QED BY <1>2, <1>3, QueryTree, ReadTree, EvalTree, OtherTree DEF AnalysisNext, PollerStep

(* The tree is in order in every state. *)
LEMMA TreeInvariance == AnalysisSpec => []TreeInv
<1>1. AnalysisInit => TreeInv
  <2> SUFFICES ASSUME AnalysisInit PROVE TreeInv
    OBVIOUS
  <2>1. stack = <<>> /\ nodes = {} /\ Len(stack) = 0
    BY EmptySeq DEF AnalysisInit
  <2>2. CallsProper
    BY <2>1, EmptySeq DEF CallsProper
  <2> QED BY <2>1, <2>2 DEF TreeInv, NodeType, NodesConnected, NodesDone, NodesOrdered
<1>2. EvaluatorFacts /\ EvaluatorFacts' /\ VersionsBounded /\ VersionsBounded' /\ TreeInv
         /\ [AnalysisNext]_avars => TreeInv'
  BY TreeNext
<1> QED BY <1>1, <1>2, EvaluatorFactsHold, VersionsHold, PTL DEF AnalysisSpec

-----------------------------------------------------------------------------
(* Only queries and reads fail. *)
LEMMA LostNext ==
    ASSUME EvaluatorFacts, lost \subseteq AllNs \cup Obj, [AnalysisNext]_avars
    PROVE  lost' \subseteq AllNs \cup Obj
<1>1. CASE UNCHANGED lost \/ lost' = {}
  BY <1>1
<1>2. CASE EvalRequested
  <2>1. Requested[next] \in Obj
    BY <1>2, ConstantsAssumption DEF EvalRequested, Eval, EvalNext
  <2> QED BY <1>2, <2>1 DEF EvalRequested
<1>3. CASE RunQuery
  <2>1. PICK q \in Queries : UNCHANGED lost \/ lost' = lost \cup {q.ns}
    BY <1>3 DEF RunQuery
  <2> QED BY <2>1, QueryForm
<1>4. CASE RunReadFails
  BY <1>4 DEF RunReadFails, Alive
<1>5. RunRead \/ AnalyzeNext \/ Conclude \/ SendUpdate \/ ClusterChange \/ UNCHANGED avars
         => UNCHANGED lost
  BY DEF RunRead, AnalyzeNext, Conclude, SendUpdate, ClusterChange, avars
<1>6. BeginRun => lost' = {}
  BY DEF BeginRun
<1> QED BY <1>1, <1>2, <1>3, <1>4, <1>5, <1>6 DEF AnalysisNext, PollerStep

(***************************************************************************)
(* The types of the call stack and the report: in particular every lookup  *)
(* under way is a query that the evaluator knows, every copy has a version *)
(* the object had, and what AggregateResult combines is always a status.   *)
(***************************************************************************)
THEOREM AnalysisTypeCorrect == AnalysisSpec => []AnalysisTypeOK
<1>1. TreeInv /\ EvaluatorFacts /\ lost \subseteq AllNs \cup Obj => AnalysisTypeOK
  <2> SUFFICES ASSUME TreeInv, EvaluatorFacts, lost \subseteq AllNs \cup Obj PROVE AnalysisTypeOK
    OBVIOUS
  <2>1. CallsProper /\ next \in Nat
    BY DEF TreeInv, EvaluatorFacts, FreshInv, TypeOK
  <2>2. ASSUME NEW i \in DOMAIN stack
        PROVE  /\ Kid(stack[i].with, stack[i].obj, stack[i].version) \in Copy
               /\ stack[i].kids \subseteq Copy
               /\ \A j \in DOMAIN stack[i].todo :
                     stack[i].todo[j].how = "query" => stack[i].todo[j].q \in Queries
    <3>1. stack[i] \in ProperCalls
      BY <2>1, StackForm
    <3>2. stack[i] \in CallType
      BY <3>1 DEF ProperCalls
    <3>3. DOMAIN stack[i].todo = 1..Len(stack[i].todo)
      BY <3>2, LenProperties DEF CallType
    <3>4. \A j \in 1..Len(stack[i].todo) : ProperLookup(stack[i].with, stack[i].todo[j])
      BY <3>1 DEF ProperCalls
    <3>5. \A j \in DOMAIN stack[i].todo :
             stack[i].todo[j].how = "query" => stack[i].todo[j].q \in Queries
      BY <3>3, <3>4 DEF ProperLookup
    <3> QED BY <3>2, <3>5 DEF CallType, Kid, Copy
  <2>3. \A n \in nodes : n.path \in Seq(Nat \X Obj) /\ n.status \in Statuses
    BY DEF TreeInv, NodeType, Paths
  <2> QED BY <2>2, <2>3 DEF AnalysisTypeOK
<1>2. AnalysisInit => lost \subseteq AllNs \cup Obj
  BY DEF AnalysisInit
<1>3. EvaluatorFacts /\ lost \subseteq AllNs \cup Obj /\ [AnalysisNext]_avars
         => (lost \subseteq AllNs \cup Obj)'
  BY LostNext
<1> QED BY <1>1, <1>2, <1>3, TreeInvariance, EvaluatorFactsHold, PTL DEF AnalysisSpec

(***************************************************************************)
(* Whatever the print options, every status of a report that is worse than *)
(* Ok or progressing is printed: no analyzer, and nothing that the tree    *)
(* printer leaves out, hides what is below it.                             *)
(***************************************************************************)
THEOREM TroubleAlwaysShown == AnalysisSpec => []TroubleShown
<1>1. TreeInv => TroubleShown
  <2> SUFFICES ASSUME TreeInv, NEW n \in nodes, NEW opts \in PrintOptions, NEW m \in nodes,
                      n.status.result > Ok \/ n.status.progressing
               PROVE  /\ m.path = <<n.path[1]>> => PrintsTree(opts, m.status)
                      /\ Len(m.path) < Len(n.path) /\ SubSeq(n.path, 1, Len(m.path)) = m.path
                         => shouldPrintDetails(opts, m.status)
    BY DEF TroubleShown, Printed
  <2>1. /\ m.path \in Paths /\ n.path \in Paths /\ Len(n.path) >= 1
        /\ Len(m.path) \in Nat /\ Len(n.path) \in Nat
        /\ m.status \in Statuses /\ n.status \in Statuses
    BY DEF TreeInv, NodeType, Paths
  <2>2. m.status.result \in Nat /\ n.status.result \in Nat
    BY <2>1 DEF Statuses, Results, Unknown, Error
  <2>3. Above(m.path, n.path) => NoBetter(m.status, n.status)
    BY DEF TreeInv, NodesOrdered
  <2>4. Above(m.path, n.path) => m.status.result > Ok \/ m.status.progressing
    BY <2>2, <2>3 DEF NoBetter, Ok
  <2>5. ASSUME m.path = <<n.path[1]>> PROVE PrintsTree(opts, m.status)
    <3>1. Above(m.path, n.path)
      BY <2>1, <2>5 DEF Above
    <3> QED BY <2>2, <2>4, <3>1 DEF PrintsTree, Ok
  <2>6. ASSUME Len(m.path) < Len(n.path), SubSeq(n.path, 1, Len(m.path)) = m.path
        PROVE  shouldPrintDetails(opts, m.status)
    <3>1. Above(m.path, n.path)
      BY <2>1, <2>6, BeginsWith
    <3> QED BY <2>4, <3>1 DEF shouldPrintDetails
  <2> QED BY <2>5, <2>6
<1> QED BY <1>1, TreeInvariance, PTL

-----------------------------------------------------------------------------
(***************************************************************************)
(* Completeness of the report.  A call of Analyze has handled a sub-object *)
(* when it is still to be analysed, under analysis, or has its status.     *)
(* What a call has handled is plausible, and holds everything that the     *)
(* lookups it has made ought to have found; what a status was made of is   *)
(* the same, for all lookups.  Both are inductive because what a lookup    *)
(* ought to find can only become less during a run, and because a run that *)
(* is quiet at its end was quiet all along.                                *)
(***************************************************************************)

(* The analyzer that lookup l gives to object p, and whether it has to find it. *)
Given(l, p) ==
    IF l.how = "query" /\ l.with # "register" THEN l.with ELSE findAnalyzer(KindOf[p])

Finds(l, p) ==
    IF l.how = "query"
    THEN p \in Expected(l.q) \ FromEval /\ l.q.ns \notin lost
    ELSE p \in (Named(l.entry) \cap steady) \ lost

(* A run in which nothing stood in the way of the queries *)
Calm == Quiet /\ RequestedApart

(* The copies that calls and statuses are of, and what their analysis looks up *)
AsKid(c) == Kid(c.with, c.obj, c.version)
NodeKid(n) == Kid(n.with, ObjectOf(n), n.version)
LooksUp(k) == Lookups(k.with, k.obj, k.version)

(* The analysis of x may have found copy c. *)
Plausible(x, c) == CopyOf(c) \in SoundCopies /\ (Calm => c \in WantedBy(x))

(* S is what the analysis of x found by its lookups other than those in open. *)
Findings(x, open, S) ==
    /\ open \subseteq LooksUp(x)
    /\ \A c \in S : Plausible(x, c)
    /\ \A l \in LooksUp(x) \ open : \A p :
          Finds(l, p) => \E c \in S : c.with = Given(l, p) /\ c.obj = p

(* The lookups that call c has still to make *)
Open(c) == {c.todo[j] : j \in DOMAIN c.todo}

(* The statuses of the sub-objects of call i, and all that it has handled *)
Under(i) == {m \in nodes : Len(m.path) = i + 1 /\ Through(m.path, i)}

Handled(i) ==
    stack[i].kids
      \cup {AsKid(stack[j]) : j \in {i + 1} \cap DOMAIN stack}
      \cup {NodeKid(n) : n \in Under(i)}

(* Every call under way has handled all that its lookups ought to have found. *)
CallsFound ==
    \A i \in 1..Len(stack) : Findings(AsKid(stack[i]), Open(stack[i]), Handled(i))

(* The statuses right below a status *)
Children(n) == {m \in nodes : Len(m.path) = Len(n.path) + 1 /\ Above(n.path, m.path)}

(* The analyzer keeps the sub-object that c is a copy of. *)
Keeps(a, c) == Kept(a, [content |-> Content(c.obj, c.version)])

(* A status is that of what the analysis found. *)
Complete(n) ==
    /\ NodeKid(n) \in Copy /\ n.with \in AnalyzersOf(ObjectOf(n))
    /\ Len(n.path) <= MaxDepth
    /\ n.status = StatusOf(n.with, Content(ObjectOf(n), n.version), {Sub(m) : m \in Children(n)})
    /\ \E S : /\ Findings(NodeKid(n), {}, S)
              /\ {NodeKid(m) : m \in Children(n)} = {c \in S : Keeps(n.with, c)}

(* So was every finished status, except those of objects that could not be read. *)
NodesFound == \A n \in nodes : n.version # NotCached => Complete(n)

(* No two statuses are at one place, and failures are on record. *)
FailuresKnown ==
    /\ \A m, n \in nodes : m.path = n.path => m = n
    /\ \A n \in nodes : n.version = NotCached => ObjectOf(n) \in lost
    /\ failed \subseteq lost

(* The inductive invariant *)
FoundInv == CallsFound /\ NodesFound /\ FailuresKnown

-----------------------------------------------------------------------------
(* What lookups ought to find, from one step of a run to the next *)

(* A run that is quiet after a step was quiet before it. *)
LEMMA CalmBefore ==
    ASSUME EvaluatorFacts, KeepsRun, lost \subseteq lost', [Next]_vars, ~Reset, Calm'
    PROVE  Calm /\ UNCHANGED <<version, steady>>
<1>1. /\ TypeOK /\ steady \subseteq Alive /\ dead \subseteq {o \in Obj : cluster[o] = "gone"}
      /\ \A o \in Obj : version[o] >= base[o]
  BY DEF EvaluatorFacts, FreshInv, RunHistory, Inv, SteadyAlive
<1>2. /\ version' = base' /\ Alive' = steady' /\ {o \in Obj : cluster'[o] = "gone"} = dead'
      /\ lost' = {} /\ RequestedApart'
  BY DEF Calm, Quiet, RequestedApart
<1>3. version' = base /\ dead' = dead /\ steady' \subseteq steady
  BY <1>2 DEF KeepsRun
<1>4. ~ClusterStep
  <2> SUFFICES ASSUME NEW o \in Obj, Create(o) \/ Delete(o) \/ Update(o) PROVE FALSE
    BY DEF ClusterStep
  <2>1. ~Create(o)
    <3> SUFFICES ASSUME Create(o) PROVE FALSE
      OBVIOUS
    <3>1. o \in Alive' /\ o \notin Alive
      BY <1>1 DEF Create, Alive, TypeOK
    <3> QED BY <1>1, <1>2, <1>3, <3>1
  <2>2. ~Delete(o)
    <3> SUFFICES ASSUME Delete(o) PROVE FALSE
      OBVIOUS
    <3>1. cluster'[o] = "gone" /\ cluster[o] # "gone"
      BY <1>1 DEF Delete, TypeOK
    <3> QED BY <1>1, <1>2, <1>3, <3>1
  <2>3. ~Update(o)
    <3> SUFFICES ASSUME Update(o) PROVE FALSE
      OBVIOUS
    <3>1. version'[o] = version[o] + 1 /\ version[o] \in Nat /\ base[o] \in Nat
      BY <1>1 DEF Update, TypeOK, Version
    <3> QED BY <1>1, <1>3, <3>1
  <2> QED BY <2>1, <2>2, <2>3
<1>5. UNCHANGED <<cluster, version, steady>>
  <2>1. EndRun \/ Eval \/ UNCHANGED vars => UNCHANGED <<cluster, version, steady>>
    BY DEF EndRun, Eval, clusterVars, historyVars, vars
  <2>2. (\E q \in Queries : Query(q)) => UNCHANGED <<cluster, version, steady>>
    BY DEF Query, QueryLoaded, QueryLoadFailed, QueryCached, EvalQuery, clusterVars
  <2>3. (\E objs \in SUBSET Related : EvalResource(objs)) => UNCHANGED <<cluster, version, steady>>
    BY DEF EvalResource, clusterVars, historyVars
  <2> QED BY <1>4, <2>1, <2>2, <2>3 DEF Next, EvaluatorStep
<1>6. Quiet
  BY <1>2, <1>3, <1>5 DEF Quiet, Alive, KeepsRun
<1>7. RequestedApart
  <2>1. FromEval \subseteq FromEval'
    BY DEF KeepsRun, FromEval
  <2>2. \A q \in Queries : Expected(q)' = Expected(q)
    BY <1>5 DEF Expected, Scope
  <2> QED BY <1>2, <1>5, <2>1, <2>2 DEF RequestedApart
<1> QED BY <1>5, <1>6, <1>7 DEF Calm

(* What a step within a run means for what was found before it *)
RunGoesOn ==
    /\ SoundCopies \subseteq SoundCopies'
    /\ Calm' => Calm /\ UNCHANGED <<version, steady>>
    /\ \A l, p : Finds(l, p)' => Finds(l, p)

(* Every step but a reset is one within a run. *)
LEMMA StepGoesOn ==
    ASSUME EvaluatorFacts, lost \subseteq lost', [Next]_vars, ~Reset
    PROVE  RunGoesOn
<1>1. TypeOK
  BY DEF EvaluatorFacts, FreshInv
<1>2. KeepsRun
  BY <1>1, OnlyResetForgets
<1>3. SoundCopies \subseteq SoundCopies'
  BY <1>1, <1>2, SoundStays
<1>4. Calm' => Calm /\ UNCHANGED <<version, steady>>
  BY <1>2, CalmBefore
<1>5. ASSUME NEW l, NEW p, Finds(l, p)' PROVE Finds(l, p)
  <2>1. FromEval \subseteq FromEval' /\ steady' \subseteq steady
    BY <1>2 DEF KeepsRun, FromEval
  <2>2. Expected(l.q)' \subseteq Expected(l.q)
    BY <2>1 DEF Expected, Scope
  <2>3. CASE l.how = "query"
    BY <1>5, <2>1, <2>2, <2>3 DEF Finds
  <2>4. CASE l.how # "query"
    BY <1>5, <2>1, <2>4 DEF Finds, Named
  <2> QED BY <2>3, <2>4
<1> QED BY <1>3, <1>4, <1>5 DEF RunGoesOn

(* What was plausibly found stays so. *)
LEMMA PlausibleStays ==
    ASSUME RunGoesOn, NEW x, NEW c, Plausible(x, c)
    PROVE  Plausible(x, c)'
<1>1. CopyOf(c) \in SoundCopies'
  BY DEF RunGoesOn, Plausible
<1>2. ASSUME Calm' PROVE c \in WantedBy(x)'
  <2>1. Calm /\ UNCHANGED <<version, steady>>
    BY <1>2 DEF RunGoesOn
  <2>2. \A q : Expected(q)' = Expected(q)
    BY <2>1 DEF Expected, Scope
  <2>3. \A l : Wanted(l)' = Wanted(l)
    BY <2>1, <2>2 DEF Wanted, Named
  <2>4. WantedBy(x)' = WantedBy(x)
    BY <2>3 DEF WantedBy, Lookups, Content
  <2> QED BY <2>1, <2>4 DEF Plausible
<1> QED BY <1>1, <1>2 DEF Plausible, CopyOf

(* What was found stays enough: lookups can only come to owe less. *)
LEMMA FindingsStay ==
    ASSUME RunGoesOn, NEW x, NEW open, NEW S, Findings(x, open, S)
    PROVE  Findings(x, open, S)'
<1>1. \A c \in S : Plausible(x, c)'
  BY PlausibleStays DEF Findings
<1>2. ASSUME NEW l \in LooksUp(x) \ open, NEW p, Finds(l, p)'
      PROVE  \E c \in S : c.with = Given(l, p) /\ c.obj = p
  BY <1>2 DEF RunGoesOn, Findings
<1>3. LooksUp(x)' = LooksUp(x)
  BY DEF LooksUp, Lookups, Content
<1> QED BY <1>1, <1>2, <1>3 DEF Findings, Given

(* A status stays complete as long as the statuses below it stay. *)
LEMMA CompleteStays ==
    ASSUME RunGoesOn, NEW n, Complete(n), Children(n)' = Children(n)
    PROVE  Complete(n)'
<1>1. PICK C : C = Children(n)
  OBVIOUS
<1>2. PICK x : x = NodeKid(n)
  OBVIOUS
<1>3. PICK S : Findings(x, {}, S) /\ {NodeKid(m) : m \in C} = {c \in S : Keeps(n.with, c)}
  BY <1>1, <1>2 DEF Complete
<1>4. Findings(x, {}, S)'
  BY <1>3, FindingsStay
<1>5. /\ x \in Copy /\ n.with \in AnalyzersOf(ObjectOf(n))
      /\ Len(n.path) <= MaxDepth
      /\ n.status = StatusOf(n.with, Content(ObjectOf(n), n.version), {Sub(m) : m \in C})
  BY <1>1, <1>2 DEF Complete
<1>6. C = Children(n)'
  BY <1>1
<1>7. x = NodeKid(n)' /\ \A c : Keeps(n.with, c)' <=> Keeps(n.with, c)
  BY <1>2 DEF NodeKid, Kid, ObjectOf, Keeps, Kept, Content
<1> QED BY <1>3, <1>4, <1>5, <1>6, <1>7
        DEF Complete, NodeKid, Kid, ObjectOf, Sub, Content

(* Finished statuses stay complete while none is added or removed. *)
LEMMA NodesFoundStay ==
    ASSUME RunGoesOn, NodesFound, UNCHANGED nodes
    PROVE  NodesFound'
<1>1. \A n : Children(n)' = Children(n)
  BY DEF Children, Above
<1>2. \A n \in nodes : n.version # NotCached => Complete(n)'
  BY <1>1, CompleteStays DEF NodesFound
<1> QED BY <1>2 DEF NodesFound

(* A call stays complete as long as what it has handled stays. *)
LEMMA CallStays ==
    ASSUME RunGoesOn, NEW i, Findings(AsKid(stack[i]), Open(stack[i]), Handled(i)),
           NEW x, x = AsKid(stack[i]), x = AsKid(stack'[i]),
           Open(stack'[i]) = Open(stack[i]), Handled(i)' = Handled(i)
    PROVE  Findings(AsKid(stack[i]), Open(stack[i]), Handled(i))'
<1>1. PICK open : open = Open(stack[i])
  OBVIOUS
<1>2. PICK S : S = Handled(i)
  OBVIOUS
<1>3. Findings(x, open, S)'
  BY <1>1, <1>2, FindingsStay
<1>4. x = AsKid(stack[i])' /\ open = Open(stack[i])' /\ S = Handled(i)'
  BY <1>1, <1>2 DEF AsKid, Kid, Open
<1> QED BY <1>3, <1>4

(* Copies of the same thing *)
LEMMA SameKid ==
    ASSUME NEW c, NEW d, c.with = d.with, c.obj = d.obj, c.version = d.version
    PROVE  AsKid(c) = AsKid(d)
BY DEF AsKid, Kid

(* What a call has handled stays the same as long as its part of the stack does. *)
LEMMA HandledStays ==
    ASSUME NEW i, stack'[i].kids = stack[i].kids,
           i + 1 \in DOMAIN stack' <=> i + 1 \in DOMAIN stack,
           i + 1 \in DOMAIN stack => AsKid(stack'[i + 1]) = AsKid(stack[i + 1]),
           Under(i)' = Under(i)
    PROVE  Handled(i)' = Handled(i)
<1>1. {AsKid(stack[j]) : j \in {i + 1} \cap DOMAIN stack}'
         = {AsKid(stack[j]) : j \in {i + 1} \cap DOMAIN stack}
  BY DEF AsKid, Kid
<1>2. {NodeKid(n) : n \in Under(i)}' = {NodeKid(n) : n \in Under(i)}
  BY DEF NodeKid, Kid, ObjectOf
<1> QED BY <1>1, <1>2 DEF Handled

(* The statuses below a call stay the same as long as its path does. *)
LEMMA UnderStays ==
    ASSUME NEW i, UNCHANGED nodes, \A p : Through(p, i)' <=> Through(p, i)
    PROVE  Under(i)' = Under(i)
BY DEF Under

(* A step that leaves the calls and the statuses alone. *)
LEMMA IdleFound ==
    ASSUME RunGoesOn, CallsFound, NodesFound, UNCHANGED <<stack, nodes, next>>
    PROVE  CallsFound' /\ NodesFound'
<1>1. \A i : Place(i)' = Place(i)
  BY DEF Place
<1>2. \A p, i : Through(p, i)' <=> Through(p, i)
  BY <1>1 DEF Through
<1>3. ASSUME NEW i \in 1..Len(stack)
      PROVE  Findings(AsKid(stack[i]), Open(stack[i]), Handled(i))'
  <2>1. Under(i)' = Under(i)
    BY <1>2, UnderStays
  <2>2. Handled(i)' = Handled(i)
    BY <2>1, HandledStays
  <2> QED BY <2>2, CallStays DEF CallsFound
<1>4. CallsFound'
  BY <1>3 DEF CallsFound
<1> QED BY <1>4, NodesFoundStay

(* The next sub-object is analysed: it was to be analysed before. *)
LEMMA AnalyzeNextFound ==
    ASSUME RunGoesOn, CallsProper, NodesInv, next \in Nat, CallsFound, NodesFound, AnalyzeNext
    PROVE  CallsFound' /\ NodesFound'
<1>0. PICK D : D = Len(stack)
  OBVIOUS
<1> USE <1>0
<1>1. stack # <<>> /\ UNCHANGED <<next, nodes>>
  BY DEF AnalyzeNext, Running, vars
<1>2. D \in Nat /\ D \in 1..D /\ DOMAIN stack = 1..D /\ Top \in ProperCalls
  BY <1>1, StackForm DEF Top
<1>3. PICK k \in Top.kids :
        /\ k \in Copy
        /\ stack' \in Seq(ProperCalls)
        /\ Len(stack') = D + 1
        /\ stack'[D + 1] = Call(k.with, k.obj, k.version)
        /\ stack'[D].kids = Top.kids \ {k}
        /\ \A i \in 1..D : i # D => stack'[i] = stack[i]
        /\ \A i \in 1..D :
              /\ stack'[i].obj = stack[i].obj /\ stack'[i].with = stack[i].with
              /\ stack'[i].version = stack[i].version
              /\ stack'[i].todo = stack[i].todo
        /\ \A j \in 1..D : Place(j)' = Place(j)
  BY AnalyzeNextStack
<1>4. DOMAIN stack' = 1..(D + 1)
  BY <1>2, <1>3, LenProperties
<1>5. \A p : \A i \in 1..D : Through(p, i)' <=> Through(p, i)
  BY <1>2, <1>3, ThroughStays
<1>6. \A i \in 1..D : Under(i)' = Under(i)
  BY <1>1, <1>5, UnderStays
<1>7. \A i \in 1..D : AsKid(stack'[i]) = AsKid(stack[i]) /\ Open(stack'[i]) = Open(stack[i])
  BY <1>3, SameKid DEF Open
<1>8. AsKid(stack'[D + 1]) = k
  BY <1>3 DEF AsKid, Call, Kid, Copy
<1>9. ASSUME NEW i \in 1..D PROVE Handled(i)' = Handled(i)
  <2>1. CASE i # D
    <3>1. i + 1 \in 1..D /\ i + 1 \in 1..(D + 1)
      BY <1>2, <2>1
    <3> QED BY <1>2, <1>3, <1>4, <1>6, <1>7, <2>1, <3>1, HandledStays
  <2>2. CASE i = D
    <3>1. {i + 1} \cap DOMAIN stack = {} /\ {i + 1} \cap DOMAIN stack' = {D + 1}
      BY <1>2, <1>4, <2>2
    <3>2. Handled(i) = Top.kids \cup {NodeKid(n) : n \in Under(i)}
      BY <2>2, <3>1 DEF Handled, Top
    <3>3. {AsKid(stack[j]) : j \in {i + 1} \cap DOMAIN stack}' = {k}
      BY <1>8, <3>1 DEF AsKid, Kid
    <3>4. {NodeKid(n) : n \in Under(i)}' = {NodeKid(n) : n \in Under(i)}
      BY <1>6 DEF NodeKid, Kid, ObjectOf
    <3>5. Handled(i)' = (Top.kids \ {k}) \cup {k} \cup {NodeKid(n) : n \in Under(i)}
      BY <1>3, <2>2, <3>3, <3>4 DEF Handled
    <3> QED BY <3>2, <3>5
  <2> QED BY <2>1, <2>2
<1>10. ASSUME NEW i \in 1..D
       PROVE  Findings(AsKid(stack[i]), Open(stack[i]), Handled(i))'
  BY <1>7, <1>9, CallStays DEF CallsFound
<1>11. Findings(AsKid(stack[D + 1]), Open(stack[D + 1]), Handled(D + 1))'
  <2>1. Handled(D + 1)' = {}
    <3>1. Under(D + 1)' = {}
      BY <1>1, AnalyzeNextTree DEF Under
    <3>2. {D + 2} \cap DOMAIN stack' = {} /\ (D + 1) + 1 = D + 2
      BY <1>2, <1>4
    <3>3. stack'[D + 1].kids = {}
      BY <1>3 DEF Call
    <3> QED BY <3>1, <3>2, <3>3 DEF Handled
  <2>2. LooksUp(AsKid(stack[D + 1]))' = Open(stack[D + 1])'
    BY <1>3 DEF LooksUp, Lookups, Open, Call, AsKid, Kid, Content
  <2> QED BY <2>1, <2>2 DEF Findings
<1>12. CallsFound'
  <2>1. \A i \in 1..(D + 1) : i \in 1..D \/ i = D + 1
    BY <1>2
  <2> QED BY <1>3, <1>10, <1>11, <2>1 DEF CallsFound
<1> QED BY <1>1, <1>12, NodesFoundStay

(***************************************************************************)
(* A lookup is answered, by what it ought to find and by nothing that is   *)
(* not plausible.                                                          *)
(***************************************************************************)
LEMMA AnsweredFound ==
    ASSUME RunGoesOn, CallsProper, next \in Nat, CallsFound, NodesFound,
           UNCHANGED <<next, nodes>>, stack # <<>>, Top.todo # <<>>, Top.kids = {},
           NEW kids \in SUBSET Copy, Answered(kids), ProperKids(Top.with, kids),
           NEW x, x = AsKid(Top), NEW head, head = Head(Top.todo),
           \A c \in kids : Plausible(x, c)',
           \A p : Finds(head, p)' => \E c \in kids : c.with = Given(head, p) /\ c.obj = p
    PROVE  CallsFound' /\ NodesFound'
<1>0. PICK D : D = Len(stack)
  OBVIOUS
<1> USE <1>0
<1>1. D \in Nat /\ D \in 1..D /\ DOMAIN stack = 1..D /\ Top \in ProperCalls
  BY StackForm DEF Top
<1>2. /\ stack' \in Seq(ProperCalls)
      /\ Len(stack') = D
      /\ \A i \in 1..D : i # D => stack'[i] = stack[i]
      /\ \A i \in 1..D : /\ stack'[i].obj = stack[i].obj
                         /\ stack'[i].with = stack[i].with
                         /\ stack'[i].version = stack[i].version
      /\ stack'[D].todo = Tail(Top.todo)
      /\ stack'[D].kids = kids
      /\ \A j \in 1..D : Place(j)' = Place(j)
  BY AnsweredStack
<1>3. DOMAIN stack' = 1..D
  BY <1>1, <1>2, LenProperties
<1>4. \A p : \A i \in 1..D : Through(p, i)' <=> Through(p, i)
  BY <1>1, <1>2, ThroughStays
<1>5. \A i \in 1..D : Under(i)' = Under(i)
  BY <1>4, UnderStays
<1>6. \A i \in 1..D : AsKid(stack'[i]) = AsKid(stack[i])
  BY <1>2, SameKid
<1>7. ASSUME NEW i \in 1..D, i # D
      PROVE  Findings(AsKid(stack[i]), Open(stack[i]), Handled(i))'
  <2>1. i + 1 \in 1..D
    BY <1>1, <1>7
  <2>2. Handled(i)' = Handled(i)
    BY <1>1, <1>2, <1>3, <1>5, <1>6, <1>7, <2>1, HandledStays
  <2>3. Open(stack'[i]) = Open(stack[i]) /\ AsKid(stack'[i]) = AsKid(stack[i])
    BY <1>2, <1>6, <1>7
  <2> QED BY <2>2, <2>3, CallStays DEF CallsFound
<1>8. PICK open : open = Open(Top)
  OBVIOUS
<1>9. PICK S : S = Handled(D)
  OBVIOUS
<1>10. Findings(x, open, S)'
  <2>1. Findings(x, open, S)
    BY <1>1, <1>8, <1>9 DEF CallsFound, Top
  <2> QED BY <2>1, FindingsStay
<1>11. Handled(D)' = S \cup kids
  <2>1. {D + 1} \cap DOMAIN stack = {} /\ {D + 1} \cap DOMAIN stack' = {}
    BY <1>1, <1>3
  <2>2. {NodeKid(n) : n \in Under(D)}' = {NodeKid(n) : n \in Under(D)}
    BY <1>1, <1>5 DEF NodeKid, Kid, ObjectOf
  <2>3. S = {NodeKid(n) : n \in Under(D)}
    BY <1>9, <2>1 DEF Handled, Top
  <2>4. Handled(D)' = kids \cup {NodeKid(n) : n \in Under(D)}
    BY <1>2, <2>1, <2>2 DEF Handled
  <2> QED BY <2>3, <2>4
<1>12. open = {head} \cup Open(stack'[D])
  <2>1. PICK todo \in Seq(AllLookups) : todo = Top.todo
    BY <1>1 DEF ProperCalls, CallType
  <2>2. PICK rest : rest = Tail(todo)
    OBVIOUS
  <2>3. /\ Len(todo) \in Nat /\ DOMAIN todo = 1..Len(todo) /\ head = todo[1]
        /\ rest \in Seq(AllLookups) /\ Len(rest) = Len(todo) - 1
        /\ \A j \in 1..Len(rest) : rest[j] = todo[j + 1]
    BY <2>1, <2>2, HeadTailProperties, LenProperties
  <2>4. DOMAIN rest = 1..Len(rest)
    BY <2>3, LenProperties
  <2>5. ASSUME NEW j \in 1..Len(todo), j # 1
        PROVE  \E m \in 1..Len(rest) : rest[m] = todo[j]
    <3>1. j - 1 \in 1..Len(rest) /\ (j - 1) + 1 = j
      BY <2>3, <2>5
    <3> QED BY <2>3, <3>1
  <2>6. open = {todo[j] : j \in 1..Len(todo)}
    BY <1>8, <2>1, <2>3 DEF Open
  <2>7. Open(stack'[D]) = {rest[j] : j \in 1..Len(rest)}
    <3>1. stack'[D].todo = rest
      BY <1>2, <2>1, <2>2
    <3> QED BY <2>4, <3>1 DEF Open
  <2>8. ASSUME NEW m \in 1..Len(rest)
        PROVE  m + 1 \in 1..Len(todo) /\ rest[m] = todo[m + 1]
    <3>1. Len(todo) \in Nat /\ Len(rest) = Len(todo) - 1
      BY <2>3
    <3>2. m + 1 \in 1..Len(todo)
      BY <3>1
    <3> QED BY <2>3, <3>2
  <2>9. 1 \in 1..Len(todo)
    BY <2>1, <2>3, EmptySeq
  <2>10. \A y \in open : y = head \/ y \in Open(stack'[D])
    BY <2>3, <2>5, <2>6, <2>7
  <2>11. \A y \in Open(stack'[D]) : y \in open
    BY <2>6, <2>7, <2>8
  <2>12. head \in open
    BY <2>3, <2>6, <2>9
  <2> QED BY <2>10, <2>11, <2>12
<1>13. Findings(AsKid(stack[D]), Open(stack[D]), Handled(D))'
  <2>1. PICK T : T = Handled(D)'
    OBVIOUS
  <2>2. PICK left : left = Open(stack'[D])
    OBVIOUS
  <2>3. x = AsKid(stack'[D])
    BY <1>1, <1>6 DEF Top
  <2>4. \A c \in T : Plausible(x, c)'
    BY <1>10, <1>11, <2>1 DEF Findings
  <2>5. ASSUME NEW l, l \in LooksUp(x)', l \notin left, NEW p, Finds(l, p)'
        PROVE  \E c \in T : c.with = Given(l, p) /\ c.obj = p
    <3>1. CASE l = head
      BY <1>11, <2>1, <2>5, <3>1
    <3>2. CASE l \notin open
      BY <1>10, <1>11, <2>1, <2>5, <3>2 DEF Findings, Given
    <3> QED BY <1>12, <2>2, <2>5, <3>1, <3>2
  <2>6. Findings(x, left, T)'
    <3>1. left \subseteq LooksUp(x)'
      BY <1>10, <1>12, <2>2 DEF Findings
    <3> QED BY <2>4, <2>5, <3>1 DEF Findings, Given
  <2>7. x = AsKid(stack[D])' /\ left = Open(stack[D])'
    BY <2>2, <2>3 DEF AsKid, Kid, Open
  <2> QED BY <2>1, <2>6, <2>7
<1>14. CallsFound'
  BY <1>2, <1>7, <1>13 DEF CallsFound
<1> QED BY <1>14, NodesFoundStay

(***************************************************************************)
(* While nothing changes, a query finds nothing but what it ought to, and  *)
(* in its current version.                                                 *)
(***************************************************************************)
LEMMA CalmAnswers ==
    EvaluatorFacts /\ Calm =>
        \A q \in Queries : \A o \in Answer(q) : o \in Expected(q) /\ cache[o] = version[o]
<1> SUFFICES ASSUME EvaluatorFacts, Calm, NEW q \in Queries, NEW o \in Answer(q)
             PROVE  o \in Expected(q) /\ cache[o] = version[o]
  OBVIOUS
<1>1. Inv /\ TypeOK /\ NoGhosts /\ CachesAgree /\ OwnershipSound
  BY DEF EvaluatorFacts, Inv, FreshInv
<1>2. o \in Cached /\ o \in Obj
  BY <1>1, AnswersCached DEF Cached
<1>3. /\ version = base /\ Alive = steady /\ {p \in Obj : cluster[p] = "gone"} = dead
      /\ RequestedObjs \subseteq steady /\ \A r \in Queries : Expected(r) \cap FromEval = {}
  BY DEF Calm, Quiet, RequestedApart
<1>4. o \in steady
  <2>1. cluster[o] \in {"alive", "gone"}
    BY <1>1, <1>2 DEF EvaluatorFacts, CacheHistory, TypeOK
  <2>2. CASE cluster[o] = "alive"
    BY <1>2, <1>3, <2>2 DEF Alive
  <2>3. CASE cluster[o] = "gone"
    BY <1>1, <1>2, <1>3, <2>3 DEF NoGhosts
  <2> QED BY <2>1, <2>2, <2>3
<1>5. o \in Scope(q.ns) /\ Match(q.gk, KindOf[o])
  <2>1. q.ns \in AllNs
    BY QueryForm
  <2>2. Match(q.gk, KindOf[o])
    BY DEF Answer, Filter
  <2>3. CASE q.ns = NamespaceAll
    BY <1>2, <2>2, <2>3 DEF Scope
  <2>4. CASE q.ns # NamespaceAll
    <3>1. q.ns \in Namespaces /\ o \in objects[q.ns]
      BY <2>1, <2>4 DEF AllNs, Answer, Filter
    <3> QED BY <1>1, <1>2, <2>2, <2>4, <3>1 DEF CachesAgree, Scope
  <2> QED BY <2>3, <2>4
<1>6. o \in Expected(q)
  <2>1. CASE q.by = "owner"
    <3>1. <<q.owner, o>> \in ownership
      BY <2>1 DEF Answer
    <3>2. q.owner \in OwnersOf[o]
      BY <1>1, <3>1 DEF OwnershipSound
    <3> QED BY <1>4, <1>5, <2>1, <3>2 DEF Expected
  <2>2. CASE q.by = "sel"
    <3>1. o \in q.sel
      BY <2>2 DEF Answer
    <3> QED BY <1>4, <1>5, <2>2, <3>1 DEF Expected
  <2>3. q.by \in {"owner", "sel"}
    BY QueryForm DEF QuerySpec
  <2> QED BY <2>1, <2>2, <2>3
<1>7. o \notin FromEval
  BY <1>3, <1>6
<1>8. <<o, cache[o]>> \in FreshCopies /\ cache[o] <= version[o]
  BY <1>2, <1>4, <1>7 DEF EvaluatorFacts, CacheHistory
<1>9. cache[o] \in Nat /\ version[o] \in Nat /\ cache[o] >= version[o]
  BY <1>1, <1>2, <1>3, <1>8 DEF FreshCopies, TypeOK, Version
<1> QED BY <1>6, <1>8, <1>9

(* The copy that a call is of, and the lookup that it makes next *)
LEMMA TopFindings ==
    ASSUME CallsProper, next \in Nat, CallsFound, stack # <<>>, Top.todo # <<>>
    PROVE  Head(Top.todo) \in LooksUp(AsKid(Top))
<1>1. Len(stack) \in 1..Len(stack) /\ Top \in ProperCalls
  BY StackForm DEF Top
<1>2. PICK todo \in Seq(AllLookups) : todo = Top.todo
  BY <1>1 DEF ProperCalls, CallType
<1>3. 1 \in DOMAIN todo /\ Head(todo) = todo[1]
  BY <1>2, EmptySeq, LenProperties, HeadTailProperties
<1>4. Head(Top.todo) \in Open(Top)
  BY <1>2, <1>3 DEF Open
<1> QED BY <1>1, <1>4 DEF CallsFound, Findings, Top

(* EvalQuery: the answer has all that the query ought to find, or its load failed. *)
LEMMA QueryFound ==
    ASSUME EvaluatorFacts, EvaluatorFacts', VersionsBounded', TreeInv, CallsFound, NodesFound,
           RunGoesOn, failed' \subseteq lost', RunQuery
    PROVE  CallsFound' /\ NodesFound'
<1>0. EvaluatorFacts' /\ VersionsBounded' =>
        (\A a \in Analyzer : \A l :
            l.how = "query" /\ ProperLookup(a, l)
                => Answers(l) \subseteq Copy /\ ProperKids(a, Answers(l)))'
  BY AnswersProper, PTL
<1>1. Inv' => (\A q \in Queries : Answer(q) \subseteq Cached)'
  BY AnswersCached, PTL
<1>2. /\ CallsProper /\ next \in Nat /\ stack # <<>> /\ Top.todo # <<>> /\ Top.kids = {}
      /\ Inv /\ Inv'
  BY DEF TreeInv, RunQuery, Asking, Running, EvaluatorFacts, FreshInv, TypeOK
<1>3. PICK l \in {Head(Top.todo)} :
        /\ l.how = "query"
        /\ l.q \in Queries
        /\ QueryLoaded(l.q) \/ QueryCached(l.q) \/ QueryLoadFailed(l.q)
        /\ Answered(Answers(l)')
  BY DEF RunQuery
<1>4. UNCHANGED <<next, nodes>>
  BY <1>3 DEF RunQuery, QueryLoaded, QueryCached, QueryLoadFailed, EvalQuery
<1>5. Top.with \in Analyzer /\ ProperLookup(Top.with, l)
  BY <1>2, <1>3, TopLookup
<1>6. PICK a : a = Top.with
  OBVIOUS
<1>7. PICK kids : kids = Answers(l)'
  OBVIOUS
<1>8. kids \subseteq Copy /\ ProperKids(a, kids)
  BY <1>0, <1>3, <1>5, <1>6, <1>7
<1>9. PICK r \in Queries : r = l.q
  BY <1>3
<1>10. Query(r)
  BY <1>3, <1>9 DEF Query
<1>11. kids = {Kid(Given(l, o), o, cache'[o]) : o \in Answer(r)'}
  BY <1>3, <1>7, <1>9 DEF Answers, Given
<1>12. ASSUME NEW p, Finds(l, p)'
       PROVE  \E c \in kids : c.with = Given(l, p) /\ c.obj = p
  <2>1. p \in Expected(r)' /\ p \notin FromEval' /\ r.ns \notin lost'
    BY <1>3, <1>9, <1>12 DEF Finds
  <2>2. p \in Answer(r)'
    BY <1>2, <1>10, <2>1, AnswerHasAll
  <2>3. Kid(Given(l, p), p, cache'[p]) \in kids
    BY <1>11, <2>2
  <2> QED BY <2>3 DEF Kid
<1>13. PICK x : x = AsKid(Top)
  OBVIOUS
<1>14. l \in LooksUp(x)'
  BY <1>2, <1>3, <1>13, TopFindings DEF LooksUp, Lookups, Content
<1>15. Answer(r)' \subseteq Cached'
  BY <1>2, <1>1
<1>16. \A o \in Cached' : <<o, cache'[o]>> \in SoundCopies'
  <2>1. EvaluatorFacts' => (\A o \in Cached : <<o, cache[o]>> \in SoundCopies)'
    BY CachedSound, PTL
  <2> QED BY <2>1
<1>17. EvaluatorFacts' /\ Calm' =>
        (\A q \in Queries : \A o \in Answer(q) : o \in Expected(q) /\ cache[o] = version[o])'
  BY CalmAnswers, PTL
<1>18. ASSUME NEW c \in kids PROVE Plausible(x, c)'
  <2>1. PICK o \in Answer(r)' : c = Kid(Given(l, o), o, cache'[o])
    BY <1>11
  <2>2. CopyOf(c) \in SoundCopies'
    BY <1>15, <1>16, <2>1 DEF CopyOf, Kid
  <2>3. ASSUME Calm' PROVE c \in WantedBy(x)'
    <3>1. o \in Expected(r)' /\ cache'[o] = version'[o]
      BY <1>17, <2>1, <2>3
    <3>2. c \in Wanted(l)'
      BY <1>3, <1>9, <2>1, <3>1 DEF Wanted, Given, Kid
    <3> QED BY <1>14, <3>2 DEF WantedBy, LooksUp
  <2> QED BY <2>2, <2>3 DEF Plausible, CopyOf
<1>19. Answered(kids) /\ ProperKids(Top.with, kids) /\ l = Head(Top.todo)
  BY <1>3, <1>6, <1>7, <1>8
<1> QED BY <1>2, <1>4, <1>8, <1>12, <1>13, <1>18, <1>19, AnsweredFound

(* evaluateRelatedObjects: what is there is read, or its failure is on record. *)
LEMMA ReadFound ==
    ASSUME EvaluatorFacts, VersionsBounded, TreeInv, CallsFound, NodesFound,
           RunGoesOn, [Next]_vars, RunRead \/ RunReadFails
    PROVE  CallsFound' /\ NodesFound'
<1>1. /\ CallsProper /\ TypeOK /\ next \in Nat /\ stack # <<>> /\ Top.todo # <<>> /\ Top.kids = {}
      /\ Head(Top.todo).how = "read" /\ steady \subseteq Alive
  <2>1. stack # <<>> /\ Top.todo # <<>> /\ Top.kids = {} /\ Head(Top.todo).how = "read"
    BY DEF RunRead, RunReadFails, Asking, Running
  <2>2. TypeOK /\ next \in Nat /\ steady \subseteq Alive
    BY DEF EvaluatorFacts, FreshInv, TypeOK, Inv, SteadyAlive
  <2> QED BY <2>1, <2>2 DEF TreeInv
<1>2. UNCHANGED <<next, nodes, version, steady, cluster>>
  BY DEF RunRead, RunReadFails, EvalResource, clusterVars, historyVars, vars
<1>3. FoundBy(Top.with) = Analyzer
  <2>1. Top.with = "ClusterOperator"
    BY <1>1, TopLookup DEF ProperLookup
  <2> QED BY <2>1 DEF FoundBy
<1>4. PICK l : l = Head(Top.todo)
  OBVIOUS
<1>5. PICK x : x = AsKid(Top)
  OBVIOUS
<1>6. l \in LooksUp(x)'
  BY <1>1, <1>4, <1>5, TopFindings DEF LooksUp, Lookups, Content
<1>7. \A p : Finds(l, p)' => p \in Named(l.entry) \cap steady /\ p \notin lost'
  BY <1>1, <1>2, <1>4 DEF Finds, Named
<1>8. CASE RunReadFails
  <2>1. Answered({}) /\ lost' = lost \cup (Named(l.entry) \cap Alive)
    BY <1>4, <1>8 DEF RunReadFails
  <2>2. \A p : ~Finds(l, p)'
    BY <1>1, <1>7, <2>1
  <2>3. PICK kids \in SUBSET Copy : kids = {}
    OBVIOUS
  <2>4. Answered(kids) /\ ProperKids(Top.with, kids)
    BY <2>1, <2>3 DEF ProperKids
  <2> QED BY <1>1, <1>2, <1>4, <1>5, <2>2, <2>3, <2>4, AnsweredFound
<1>9. CASE RunRead
  <2>1. PICK objs : objs = Named(l.entry) \cap Alive
    OBVIOUS
  <2>2. PICK kids : kids = {Kid(findAnalyzer(KindOf[p]), p, version[p]) : p \in objs}
    OBVIOUS
  <2>3. Answered(kids)
    BY <1>4, <1>9, <2>1, <2>2 DEF RunRead
  <2>4. \A p \in objs : /\ p \in Obj /\ version[p] \in 0..MaxChanges
                        /\ findAnalyzer(KindOf[p]) \in Analyzer
                        /\ findAnalyzer(KindOf[p]) \in AnalyzersOf(p)
    BY <1>1, <2>1, VersionRange, AnalyzersType DEF Alive, AnalyzersOf
  <2>5. kids \subseteq Copy
    BY <2>2, <2>4 DEF Kid, Copy
  <2>6. ProperKids(Top.with, kids)
    BY <1>3, <2>2, <2>4 DEF Kid, ProperKids
  <2>7. ASSUME NEW p, Finds(l, p)'
        PROVE  \E c \in kids : c.with = Given(l, p) /\ c.obj = p
    <3>1. p \in objs
      BY <1>1, <1>7, <2>1, <2>7
    <3>2. Kid(findAnalyzer(KindOf[p]), p, version[p]) \in kids
      BY <2>2, <3>1
    <3> QED BY <1>1, <1>4, <3>2 DEF Given, Kid
  <2>8. ASSUME NEW c \in kids PROVE Plausible(x, c)'
    <3>1. PICK p \in objs : c = Kid(findAnalyzer(KindOf[p]), p, version[p])
      BY <2>2
    <3>2. <<p, version[p]>> \in SoundCopies
      <4>1. p \in Alive /\ p \in Related
        BY <2>1, <3>1 DEF Named
      <4> QED BY <4>1, CurrentFresh DEF EvaluatorFacts, SoundCopies, ReadDirectly, FreshCopies
    <3>3. CopyOf(c) \in SoundCopies'
      BY <3>1, <3>2 DEF CopyOf, Kid, RunGoesOn
    <3>4. ASSUME Calm' PROVE c \in WantedBy(x)'
      <4>1. Alive = steady
        BY <3>4 DEF RunGoesOn, Calm, Quiet
      <4>2. p \in Named(l.entry)' \cap steady'
        BY <1>2, <2>1, <4>1 DEF Named
      <4>3. c \in Wanted(l)'
        BY <1>1, <1>2, <1>4, <3>1, <4>2 DEF Wanted, Kid
      <4> QED BY <1>6, <4>3 DEF WantedBy, LooksUp
    <3> QED BY <3>3, <3>4 DEF Plausible, CopyOf
  <2> QED BY <1>1, <1>2, <1>4, <1>5, <2>3, <2>5, <2>6, <2>7, <2>8, AnsweredFound
<1> QED BY <1>8, <1>9

(***************************************************************************)
(* The status of an object depends only on the sub-objects that its        *)
(* analyzer keeps.                                                         *)
(***************************************************************************)
LEMMA KeptOnly ==
    ASSUME NEW a, NEW c, NEW subs, NEW kept, kept = {s \in subs : Kept(a, s)}
    PROVE  StatusOf(a, c, subs) = StatusOf(a, c, kept)
<1>1. CASE a # "Deployment"
  <2>1. kept = subs
    BY <1>1 DEF Kept
  <2> QED BY <2>1
<1>2. CASE a = "Deployment"
  <2> DEFINE S(T) == {[spec |-> s.content.spec, status |-> s.status] : s \in T}
             live(T) == {s \in T : s.spec # 0}
  <2>1. live(S(subs)) = live(S(kept))
    <3>1. \A s \in subs : s.content.spec # 0 => s \in kept
      BY DEF Kept
    <3>2. kept \subseteq subs
      OBVIOUS
    <3> QED BY <3>1, <3>2
  <2>2. \A T, U : live(T) = live(U) =>
            DeploymentStatus(c.conditions, T) = DeploymentStatus(c.conditions, U)
    BY DEF DeploymentStatus
  <2>3. DeploymentStatus(c.conditions, S(subs)) = DeploymentStatus(c.conditions, S(kept))
    <3> HIDE DEF S, live
    <3> QED BY <2>1, <2>2
  <2>4. /\ StatusOf(a, c, subs) = DeploymentStatus(c.conditions, S(subs))
        /\ StatusOf(a, c, kept) = DeploymentStatus(c.conditions, S(kept))
    BY <1>2 DEF StatusOf
  <2> QED BY <2>3, <2>4
<1> QED BY <1>1, <1>2

(* A call of Analyze returns: its status is made of what the call has found. *)
LEMMA ConcludeFound ==
    ASSUME RunGoesOn, CallsProper, NodesInv, next \in Nat, CallsFound, NodesFound, FailuresKnown,
           Conclude
    PROVE  CallsFound' /\ NodesFound'
<1>0. PICK D : D = Len(stack)
  OBVIOUS
<1> USE <1>0
<1>1. stack # <<>> /\ UNCHANGED next /\ D <= MaxDepth /\ Top.kids = {} /\ Top.todo = <<>>
  <2>1. stack # <<>> /\ UNCHANGED next /\ ~(D > MaxDepth) /\ Top.kids = {} /\ Top.todo = <<>>
    BY DEF Conclude, Running, Overflow, vars
  <2>2. D \in Nat /\ MaxDepth \in Nat
    BY StackForm, AnalysisAssumption
  <2> QED BY <2>1, <2>2
<1>2. D \in Nat /\ D \in 1..D /\ DOMAIN stack = 1..D /\ Top \in ProperCalls /\ D - 1 \in Nat
  BY <1>1, StackForm DEF Top
<1>3. /\ stack' \in Seq(ProperCalls)
      /\ Len(stack') = D - 1
      /\ \A i \in 1..(D - 1) : stack'[i] = stack[i] /\ i \in 1..D
      /\ \A j \in 1..(D - 1) : Place(j)' = Place(j)
  BY ConcludeStack
<1>4. DOMAIN stack' = 1..(D - 1)
  BY <1>2, <1>3, LenProperties
<1>5. \A p : \A i \in 1..(D - 1) : Through(p, i)' <=> Through(p, i)
  BY <1>2, <1>3, ThroughStays
<1>6. PICK st : st = StatusOf(Top.with, Content(Top.obj, Top.version), {Sub(n) : n \in Subs})
  OBVIOUS
<1>7. PICK new : new = Node(Path, Top.with, Top.version, st)
  OBVIOUS
<1>8. /\ nodes' = (nodes \ Dropped) \cup {new}
      /\ new.path = Path /\ new.with = Top.with /\ new.version = Top.version /\ new.status = st
  BY <1>6, <1>7 DEF Conclude, Node
<1>9. /\ \A n \in nodes : n.path \in Paths /\ Len(n.path) \in Nat /\ Len(n.path) >= 1
      /\ Path \in Paths /\ Len(Path) = D /\ \A i \in 1..D : Path[i] = Place(i)
  BY PathForm DEF NodesInv, NodeType, Paths
<1>10. /\ Below = {n \in nodes : Len(n.path) > D /\ Through(n.path, D)}
       /\ \A n : n \in Dropped <=>
              /\ n \in Below
              /\ \E m \in Subs : ~Kept(Top.with, Sub(m)) /\ Above(m.path, n.path)
  BY BelowForm DEF NodesInv
<1>11. Subs = Under(D)
  BY <1>2, <1>9, <1>10 DEF Subs, Under
<1>12. \A n \in nodes : ~Above(n.path, Path)
  BY PathFree
<1>13. NodeKid(new) = AsKid(Top) /\ ObjectOf(new) = Top.obj
  <2>1. Path[D][2] = Top.obj
    BY <1>2, <1>9, StackForm DEF Top
  <2>2. ObjectOf(new) = Top.obj
    BY <1>8, <1>9, <2>1 DEF ObjectOf
  <2> QED BY <1>8, <2>2 DEF NodeKid, AsKid, Kid
<1>14. CallsFound'
  <2>1. ASSUME NEW i \in 1..(D - 1) PROVE Handled(i)' = Handled(i)
    <3>1. i \in Nat /\ i + 1 <= D /\ i \in 1..D /\ i + 1 \in 1..D
      BY <1>2
    <3>2. Under(i)' = Under(i) \cup {n \in {new} : i + 1 = D}
      <4>1. \A n \in Dropped : Len(n.path) > D
        BY <1>10
      <4>2. \A n \in nodes : Len(n.path) = i + 1 => n \notin Dropped
        BY <1>9, <3>1, <4>1
      <4>3. Through(Path, i)
        BY <1>9, <3>1 DEF Through
      <4>4. Under(i)' = {m \in nodes' : Len(m.path) = i + 1 /\ Through(m.path, i)}
        BY <1>5 DEF Under
      <4>5. Len(new.path) = D /\ Through(new.path, i)
        BY <1>8, <1>9, <4>3
      <4>6. ASSUME NEW m
            PROVE  m \in Under(i)' <=> m \in Under(i) \/ (m = new /\ i + 1 = D)
        BY <1>8, <4>2, <4>4, <4>5 DEF Under
      <4> QED BY <4>6
    <3>3. CASE i + 1 # D
      <4>1. Under(i)' = Under(i)
        BY <3>2, <3>3
      <4>2. i + 1 \in 1..(D - 1)
        BY <1>2, <3>1, <3>3
      <4> QED BY <1>2, <1>3, <1>4, <3>1, <4>1, <4>2, HandledStays
    <3>4. CASE i + 1 = D
      <4>1. {i + 1} \cap DOMAIN stack = {D} /\ {i + 1} \cap DOMAIN stack' = {}
        BY <1>2, <1>4, <3>4
      <4>2. Handled(i) = stack[i].kids \cup {AsKid(Top)} \cup {NodeKid(n) : n \in Under(i)}
        BY <4>1 DEF Handled, Top
      <4>3. {NodeKid(n) : n \in Under(i)}' = {NodeKid(n) : n \in Under(i)} \cup {NodeKid(new)}
        BY <3>2, <3>4 DEF NodeKid, Kid, ObjectOf
      <4>4. Handled(i)' = stack[i].kids \cup {NodeKid(n) : n \in Under(i)}'
        BY <1>3, <4>1 DEF Handled
      <4> QED BY <1>13, <4>2, <4>3, <4>4
    <3> QED BY <3>3, <3>4
  <2>2. ASSUME NEW i \in 1..(D - 1)
        PROVE  Findings(AsKid(stack[i]), Open(stack[i]), Handled(i))'
    BY <1>3, <2>1, CallStays DEF CallsFound
  <2> QED BY <1>3, <2>2 DEF CallsFound
<1>15. ASSUME NEW n \in nodes, n \notin Dropped PROVE Children(n)' = Children(n)
  <2>1. new \notin Children(n)'
    BY <1>8, <1>12 DEF Children, Above
  <2>2. ASSUME NEW m \in nodes, Len(m.path) = Len(n.path) + 1, Above(n.path, m.path), m \in Dropped
        PROVE  FALSE
    <3>1. PICK k \in Subs : ~Kept(Top.with, Sub(k)) /\ Above(k.path, m.path)
      BY <1>10, <2>2
    <3>2. k \in nodes /\ Len(k.path) = D + 1 /\ Above(Path, m.path) /\ Len(m.path) > D
      BY <1>9, <1>10, <1>11, <2>2, ThroughTop DEF Under
    <3>3. CASE Len(n.path) <= D
      BY <1>9, <1>12, <2>2, <3>2, <3>3, AboveLinear
    <3>4. CASE ~(Len(n.path) <= D)
      <4>1. Len(k.path) <= Len(n.path) /\ Len(Path) <= Len(n.path) /\ Len(n.path) > D
        BY <1>2, <1>9, <3>2, <3>4
      <4>2. Above(k.path, n.path) /\ Above(Path, n.path)
        BY <1>9, <2>2, <3>1, <3>2, <4>1, AboveLinear
      <4>3. n \in Below
        BY <1>9, <1>10, <4>1, <4>2, ThroughTop
      <4> QED BY <1>10, <1>15, <3>1, <4>2, <4>3
    <3> QED BY <3>3, <3>4
  <2>3. Children(n)' = {m \in nodes' : Len(m.path) = Len(n.path) + 1 /\ Above(n.path, m.path)}
    BY DEF Children, Above
  <2>4. ASSUME NEW m PROVE m \in Children(n)' <=> m \in Children(n)
    BY <1>8, <2>1, <2>2, <2>3 DEF Children
  <2> QED BY <2>4
<1>16. Children(new)' = {m \in Subs : Kept(Top.with, Sub(m))}
  <2>1. Children(new)' = {m \in nodes' : Len(m.path) = D + 1 /\ Above(Path, m.path)}
    BY <1>8, <1>9 DEF Children, Above
  <2>2. ASSUME NEW m \in nodes
        PROVE  m \in Subs <=> Len(m.path) = D + 1 /\ Above(Path, m.path)
    BY <1>9, <1>11, ThroughTop DEF Under
  <2>3. new \notin Children(new)' /\ new \notin Subs
    <3>1. Len(new.path) = D /\ D # D + 1
      BY <1>2, <1>8, <1>9
    <3> QED BY <1>11, <2>1, <3>1 DEF Under
  <2>4. ASSUME NEW m \in Subs PROVE m \in Dropped <=> ~Kept(Top.with, Sub(m))
    <3>1. m \in nodes /\ m \in Below /\ Len(m.path) = D + 1
      BY <1>2, <1>10, <1>11 DEF Subs, Under
    <3>2. Above(m.path, m.path)
      BY <1>9, <3>1 DEF Above
    <3>3. ASSUME NEW k \in Subs, Above(k.path, m.path) PROVE k = m
      <4>1. k \in nodes /\ Len(k.path) = D + 1
        BY <1>11 DEF Under
      <4>2. k.path \in Seq(Nat \X Obj) /\ m.path \in Seq(Nat \X Obj)
        BY <1>9, <3>1, <4>1 DEF Paths
      <4>3. \A i \in 1..Len(k.path) : k.path[i] = m.path[i]
        BY <3>3 DEF Above
      <4>4. k.path = m.path
        BY <3>1, <4>1, <4>2, <4>3, SeqEqual
      <4> QED BY <3>1, <4>1, <4>4 DEF FailuresKnown
    <3> QED BY <1>10, <3>1, <3>2, <3>3
  <2>5. Subs \subseteq nodes
    BY <1>11 DEF Under
  <2>6. ASSUME NEW m PROVE m \in Children(new)' <=> m \in Subs /\ Kept(Top.with, Sub(m))
    <3>1. CASE m \in nodes
      <4>1. m \in nodes' <=> m \notin Dropped \/ m = new
        BY <1>8, <3>1
      <4> QED BY <2>1, <2>2, <2>3, <2>4, <3>1, <4>1
    <3>2. CASE m \notin nodes
      BY <1>8, <2>1, <2>3, <2>5, <3>2
    <3> QED BY <3>1, <3>2
  <2> QED BY <2>6
<1>17. Complete(new)'
  <2>1. PICK S : S = Handled(D)
    OBVIOUS
  <2>2. S = {NodeKid(m) : m \in Subs}
    <3>1. {D + 1} \cap DOMAIN stack = {}
      BY <1>2
    <3> QED BY <1>1, <1>11, <2>1, <3>1 DEF Handled, Top
  <2>3. PICK x : x = NodeKid(new)
    OBVIOUS
  <2>4. Findings(x, {}, S)'
    <3>1. Open(Top) = {}
      <4>1. DOMAIN Top.todo = {}
        BY <1>1, EmptySeq
      <4> QED BY <4>1 DEF Open
    <3>2. Findings(x, {}, S)
      BY <1>2, <1>13, <2>1, <2>3, <3>1 DEF CallsFound, Top
    <3> QED BY <3>2, FindingsStay
  <2>5. PICK C : C = Children(new)'
    OBVIOUS
  <2>6. \A m : Kept(Top.with, Sub(m)) <=> Keeps(new.with, NodeKid(m))
    BY <1>8 DEF Kept, Keeps, Sub, NodeKid, Kid
  <2>7. {NodeKid(m) : m \in C} = {c \in S : Keeps(new.with, c)}
    BY <1>16, <2>2, <2>5, <2>6
  <2>8. {Sub(m) : m \in C} = {s \in {Sub(m) : m \in Subs} : Kept(Top.with, s)}
    BY <1>16, <2>5
  <2>9. new.status = StatusOf(new.with, Content(ObjectOf(new), new.version), {Sub(m) : m \in C})
    BY <1>6, <1>8, <1>13, <2>8, KeptOnly
  <2>10. Len(new.path) <= MaxDepth
    BY <1>1, <1>8, <1>9
  <2>11. x \in Copy /\ new.with \in AnalyzersOf(ObjectOf(new))
    BY <1>2, <1>8, <1>13, <2>3 DEF ProperCalls, CallType, AsKid, Kid, Copy
  <2>12. x = NodeKid(new)' /\ \A c : Keeps(new.with, c)' <=> Keeps(new.with, c)
    BY <2>3 DEF NodeKid, Kid, ObjectOf, Keeps, Kept, Content
  <2> QED BY <2>4, <2>5, <2>7, <2>9, <2>10, <2>11, <2>12
          DEF Complete, NodeKid, Kid, ObjectOf, Sub, Content
<1>18. \A n \in nodes' : n.version # NotCached => Complete(n)'
  BY <1>8, <1>15, <1>17, CompleteStays DEF NodesFound
<1>19. NodesFound'
  BY <1>18 DEF NodesFound
<1> QED BY <1>14, <1>19

(* Eval of a requested object: a first call, or a status without a copy. *)
LEMMA EvalFound ==
    ASSUME EvaluatorFacts, TreeInv, CallsFound, NodesFound, RunGoesOn, EvalRequested
    PROVE  CallsFound' /\ NodesFound'
<1> DEFINE o == Requested[next]
<1>1. /\ stack = <<>> /\ next \in DOMAIN Requested /\ next' = next + 1
      /\ next \in Nat /\ next # 0 /\ Len(stack) = 0
  BY ConstantsAssumption, EmptySeq
  DEF EvalRequested, Eval, EvalNext, EvaluatorFacts, FreshInv, TypeOK
<1>2. \A n \in nodes : /\ Len(n.path) \in Nat /\ Len(n.path) >= 1
                       /\ n.path[1][1] \in Nat /\ n.path[1][1] <= next
  <2> SUFFICES ASSUME NEW n \in nodes
               PROVE  /\ Len(n.path) \in Nat /\ Len(n.path) >= 1
                      /\ n.path[1][1] \in Nat /\ n.path[1][1] <= next
    OBVIOUS
  <2>1. n.path \in Seq(Nat \X Obj) /\ Len(n.path) >= 1 /\ n.path[1][1] <= next
    BY <1>1 DEF TreeInv, NodeType, Paths
  <2>2. Len(n.path) \in Nat /\ 1 \in 1..Len(n.path)
    BY <2>1
  <2>3. n.path[1] \in Nat \X Obj
    BY <2>1, <2>2, ElementOfSeq
  <2> QED BY <2>1, <2>2, <2>3
<1>3. CASE /\ UNCHANGED nodes
           /\ \E c \in Analysed(o) : stack' = <<Call(findAnalyzer(KindOf[o]), c[1], c[2])>>
  <2>1. PICK c \in Analysed(o) : stack' = <<Call(findAnalyzer(KindOf[o]), c[1], c[2])>>
    BY <1>3
  <2>2. PICK call : call = Call(findAnalyzer(KindOf[o]), c[1], c[2])
    OBVIOUS
  <2>3. Len(stack') = 1 /\ stack'[1] = call /\ DOMAIN stack' = 1..1
    BY <2>1, <2>2
  <2>4. Under(1)' = {}
    <3> SUFFICES ASSUME NEW n \in nodes, Through(n.path, 1)' PROVE FALSE
      BY <1>3 DEF Under
    <3>1. n.path[1] = Place(1)' /\ Place(1)'[1] = next'
      BY DEF Through, Place
    <3> QED BY <1>1, <1>2, <3>1
  <2>5. Handled(1)' = {}
    <3>1. stack'[1].kids = {}
      BY <2>2, <2>3 DEF Call
    <3>2. {1 + 1} \cap DOMAIN stack' = {}
      BY <2>3
    <3> QED BY <2>4, <3>1, <3>2 DEF Handled
  <2>6. LooksUp(AsKid(stack[1]))' = Open(stack[1])'
    BY <2>2, <2>3 DEF LooksUp, Lookups, Open, Call, AsKid, Kid, Content
  <2>7. Findings(AsKid(stack[1]), Open(stack[1]), Handled(1))'
    BY <2>5, <2>6 DEF Findings
  <2>8. CallsFound'
    BY <2>3, <2>7 DEF CallsFound
  <2> QED BY <1>3, <2>8, NodesFoundStay
<1>4. CASE /\ nodes' = nodes \cup {Node(<< <<next', o>> >>, "none", NotCached, Status(Unknown))}
           /\ UNCHANGED stack
  <2>1. PICK new : new = Node(<< <<next', o>> >>, "none", NotCached, Status(Unknown))
    OBVIOUS
  <2>2. Len(new.path) = 1 /\ new.version = NotCached /\ nodes' = nodes \cup {new}
    BY <1>4, <2>1 DEF Node
  <2>3. ASSUME NEW n \in nodes PROVE Children(n)' = Children(n)
    <3>1. Len(n.path) + 1 # 1
      BY <1>2
    <3>2. Children(n)' = {m \in nodes' : Len(m.path) = Len(n.path) + 1 /\ Above(n.path, m.path)}
      BY DEF Children, Above
    <3> QED BY <2>2, <3>1, <3>2 DEF Children
  <2>4. \A n \in nodes' : n.version # NotCached => Complete(n)'
    BY <2>2, <2>3, CompleteStays DEF NodesFound
  <2>5. NodesFound'
    BY <2>4 DEF NodesFound
  <2>6. CallsFound'
    BY <1>1, <1>4 DEF CallsFound
  <2> QED BY <2>5, <2>6
<1> QED BY <1>3, <1>4 DEF EvalRequested

(* Failures are recorded, and each status gets a place of its own. *)
LEMMA FailuresNext ==
    ASSUME EvaluatorFacts, TreeInv, FailuresKnown, [AnalysisNext]_avars
    PROVE  FailuresKnown'
<1>1. CASE UNCHANGED nodes /\ lost \subseteq lost' /\ failed' \subseteq lost'
  BY <1>1 DEF FailuresKnown, ObjectOf
<1>2. CASE BeginRun
  BY <1>2 DEF BeginRun, Reset, BeginHistory, FailuresKnown
<1>3. CASE EvalRequested
  <2> DEFINE o == Requested[next]
  <2>1. next' = next + 1 /\ next \in Nat /\ next # 0 /\ UNCHANGED failed
    BY <1>3, ConstantsAssumption
    DEF EvalRequested, Eval, EvalNext, EvaluatorFacts, FreshInv, TypeOK
  <2>2. CASE UNCHANGED <<nodes, lost>>
    BY <1>1, <2>1, <2>2 DEF FailuresKnown
  <2>3. CASE /\ nodes' = nodes \cup {Node(<< <<next', o>> >>, "none", NotCached, Status(Unknown))}
             /\ lost' = lost \cup {o}
    <3>1. PICK new : new = Node(<< <<next', o>> >>, "none", NotCached, Status(Unknown))
      OBVIOUS
    <3>2. new.path[1][1] = next' /\ ObjectOf(new) = o /\ nodes' = nodes \cup {new}
      BY <2>3, <3>1 DEF Node, ObjectOf
    <3>3. ASSUME NEW n \in nodes PROVE n.path # new.path
      <4>1. n.path \in Seq(Nat \X Obj) /\ Len(n.path) >= 1 /\ n.path[1][1] <= next
        BY <2>1 DEF TreeInv, NodeType, Paths
      <4>2. 1 \in 1..Len(n.path)
        BY <4>1
      <4>3. n.path[1] \in Nat \X Obj
        BY <4>1, <4>2, ElementOfSeq
      <4>4. n.path[1][1] \in Nat
        BY <4>3
      <4> QED BY <2>1, <3>2, <4>1, <4>4
    <3>4. \A m, n \in nodes' : m.path = n.path => m = n
      BY <3>2, <3>3 DEF FailuresKnown
    <3>5. \A n \in nodes' : n.version = NotCached => ObjectOf(n) \in lost'
      BY <2>3, <3>2 DEF FailuresKnown
    <3>6. failed' \subseteq lost'
      BY <2>1, <2>3 DEF FailuresKnown
    <3> QED BY <3>4, <3>5, <3>6 DEF FailuresKnown, ObjectOf
  <2> QED BY <1>3, <2>2, <2>3 DEF EvalRequested
<1>4. CASE RunQuery
  <2>1. PICK q : \/ (QueryLoaded(q) \/ QueryCached(q)) /\ UNCHANGED lost
                 \/ QueryLoadFailed(q) /\ lost' = lost \cup {q.ns}
    BY <1>4 DEF RunQuery
  <2>2. lost \subseteq lost' /\ failed' \subseteq lost'
    BY <2>1 DEF QueryLoaded, QueryCached, QueryLoadFailed, FailuresKnown
  <2>3. UNCHANGED nodes
    BY <1>4 DEF RunQuery
  <2> QED BY <1>1, <2>2, <2>3
<1>5. CASE Conclude
  <2>1. CallsProper /\ NodesInv /\ next \in Nat /\ stack # <<>> /\ UNCHANGED <<failed, lost>>
    BY <1>5 DEF TreeInv, NodesInv, EvaluatorFacts, FreshInv, TypeOK, Conclude, Running, vars,
                historyVars
  <2>2. PICK st : nodes' = (nodes \ Dropped) \cup {Node(Path, Top.with, Top.version, st)}
    BY <1>5 DEF Conclude
  <2>3. PICK new : new = Node(Path, Top.with, Top.version, st)
    OBVIOUS
  <2>4. /\ nodes' \subseteq nodes \cup {new}
        /\ new.path = Path /\ new.version = Top.version
    BY <2>2, <2>3 DEF Node
  <2>5. Top.version # NotCached
    <3>1. Top \in ProperCalls
      BY <2>1, StackForm DEF Top
    <3>2. Top.version \in 0..MaxChanges
      BY <3>1 DEF ProperCalls, CallType
    <3> QED BY <3>2, ConstantsAssumption DEF Version
  <2>6. \A n \in nodes : n.path # Path
    <3>1. Above(Path, Path)
      BY <2>1, PathForm DEF Above
    <3> QED BY <2>1, <3>1, PathFree
  <2>7. \A m, n \in nodes' : m.path = n.path => m = n
    BY <2>4, <2>6 DEF FailuresKnown
  <2>8. \A n \in nodes' : n.version = NotCached => ObjectOf(n) \in lost'
    BY <2>1, <2>4, <2>5 DEF FailuresKnown
  <2> QED BY <2>1, <2>7, <2>8 DEF FailuresKnown, ObjectOf
<1>6. CASE RunReadFails
  BY <1>1, <1>6 DEF RunReadFails, vars, historyVars, FailuresKnown
<1>7. RunRead \/ AnalyzeNext \/ SendUpdate \/ ClusterChange \/ UNCHANGED avars
         => UNCHANGED <<nodes, lost, failed>>
  BY DEF RunRead, EvalResource, AnalyzeNext, SendUpdate, EndRun, ClusterChange, Create, Delete,
         Update, avars, vars, historyVars
<1> QED BY <1>1, <1>2, <1>3, <1>4, <1>5, <1>6, <1>7 DEF AnalysisNext, PollerStep, FailuresKnown

(* Failures are forgotten only when a run begins. *)
LEMMA LostGrows ==
    ASSUME [AnalysisNext]_avars, ~BeginRun
    PROVE  lost \subseteq lost'
<1>1. EvalRequested \/ RunQuery \/ RunReadFails => lost \subseteq lost'
  BY DEF EvalRequested, RunQuery, RunReadFails
<1>2. RunRead \/ AnalyzeNext \/ Conclude \/ SendUpdate \/ ClusterChange \/ UNCHANGED avars
         => UNCHANGED lost
  BY DEF RunRead, AnalyzeNext, Conclude, SendUpdate, ClusterChange, avars
<1> QED BY <1>1, <1>2 DEF AnalysisNext, PollerStep

(* Only the beginning of a run resets the evaluator. *)
LEMMA ResetBegins ==
    ASSUME [AnalysisNext]_avars, Reset
    PROVE  BeginRun
<1>1. ~(ClusterChange \/ SendUpdate \/ RunReadFails \/ AnalyzeNext \/ Conclude \/ UNCHANGED avars)
  BY DEF Reset, ClusterChange, Create, Delete, Update, SendUpdate, EndRun, RunReadFails,
         AnalyzeNext, Conclude, vars, avars
<1>2. ~(RunQuery \/ RunRead)
  BY DEF Reset, RunQuery, QueryLoaded, QueryCached, QueryLoadFailed, RunRead, EvalResource
<1>3. ~EvalRequested
  BY ConstantsAssumption DEF Reset, EvalRequested, Eval, EvalNext
<1> QED BY <1>1, <1>2, <1>3 DEF AnalysisNext, PollerStep

(* Every step keeps what was found complete. *)
LEMMA FoundNext ==
    ASSUME EvaluatorFacts, EvaluatorFacts', VersionsBounded, VersionsBounded', TreeInv, FoundInv,
           [AnalysisNext]_avars
    PROVE  FoundInv'
<1>1. FailuresKnown' /\ CallsFound /\ NodesFound /\ FailuresKnown
  BY FailuresNext DEF FoundInv
<1>2. CASE BeginRun
  <2>1. stack' = <<>> /\ nodes' = {} /\ Len(stack') = 0
    BY <1>2, EmptySeq DEF BeginRun, Reset, TreeInv, CallsProper
  <2> QED BY <1>1, <2>1 DEF FoundInv, CallsFound, NodesFound
<1>3. CASE ~BeginRun
  <2>1. RunGoesOn /\ [Next]_vars
    <3>1. [Next]_vars
      BY StepImplements DEF avars
    <3> QED BY <1>3, <3>1, LostGrows, ResetBegins, StepGoesOn
  <2>2. CallsProper /\ NodesInv /\ next \in Nat /\ failed' \subseteq lost'
    BY <1>1 DEF TreeInv, NodesInv, EvaluatorFacts, FreshInv, TypeOK, FailuresKnown
  <2>3. CASE AnalyzeNext
    BY <1>1, <2>1, <2>2, <2>3, AnalyzeNextFound DEF FoundInv
  <2>4. CASE Conclude
    BY <1>1, <2>1, <2>2, <2>4, ConcludeFound DEF FoundInv
  <2>5. CASE RunQuery
    BY <1>1, <2>1, <2>2, <2>5, QueryFound DEF FoundInv
  <2>6. CASE RunRead \/ RunReadFails
    BY <1>1, <2>1, <2>6, ReadFound DEF FoundInv
  <2>7. CASE EvalRequested
    BY <1>1, <2>1, <2>7, EvalFound DEF FoundInv
  <2>8. CASE ClusterChange \/ UNCHANGED avars
    <3>1. UNCHANGED <<stack, nodes, next>>
      BY <2>8 DEF ClusterChange, Create, Delete, Update, avars, vars
    <3> QED BY <1>1, <2>1, <3>1, IdleFound DEF FoundInv
  <2>9. CASE SendUpdate
    <3>1. stack' = <<>> /\ Len(stack') = 0 /\ UNCHANGED nodes
      BY <2>9, EmptySeq DEF SendUpdate
    <3>2. CallsFound'
      BY <3>1 DEF CallsFound
    <3> QED BY <1>1, <2>1, <3>1, <3>2, NodesFoundStay DEF FoundInv
  <2> QED BY <1>3, <2>3, <2>4, <2>5, <2>6, <2>7, <2>8, <2>9 DEF AnalysisNext, PollerStep
<1> QED BY <1>2, <1>3

(* Calls and statuses are complete in every state. *)
LEMMA FoundInvariance == AnalysisSpec => []FoundInv
<1>1. AnalysisInit => FoundInv
  <2> SUFFICES ASSUME AnalysisInit PROVE FoundInv
    OBVIOUS
  <2>1. stack = <<>> /\ nodes = {} /\ Len(stack) = 0 /\ failed = {}
    BY EmptySeq DEF AnalysisInit, Init
  <2> QED BY <2>1 DEF FoundInv, CallsFound, NodesFound, FailuresKnown
<1>2. EvaluatorFacts /\ EvaluatorFacts' /\ VersionsBounded /\ VersionsBounded' /\ TreeInv
         /\ FoundInv /\ [AnalysisNext]_avars => FoundInv'
  BY FoundNext
<1> QED BY <1>1, <1>2, EvaluatorFactsHold, VersionsHold, TreeInvariance, PTL DEF AnalysisSpec

-----------------------------------------------------------------------------
(***************************************************************************)
(* Induction over the naturals, stated for a set: a set that has 0 and     *)
(* with a number its successor has them all.                               *)
(***************************************************************************)
LEMMA DepthInduction ==
    ASSUME NEW T, 0 \in T, \A n \in Nat : n \in T => n + 1 \in T
    PROVE  \A n \in Nat : n \in T
<1> DEFINE R == OpToRel(<, Nat)
           U == Nat \ T
<1>1. \A i, j \in Nat : <<i, j>> \in R <=> i < j
  BY DEF OpToRel
<1>2. IsWellFoundedOn(R, Nat)
  BY NatLessThanWellFounded
<1> SUFFICES ASSUME U # {} PROVE FALSE
  OBVIOUS
<1>3. PICK m \in U : \A k \in U : <<k, m>> \notin R
  <2>1. U \subseteq Nat
    OBVIOUS
  <2> HIDE DEF R, U
  <2> QED BY <1>2, <2>1, WFMin
<1>4. m \in Nat /\ m \notin T /\ m # 0
  BY <1>3
<1>5. m - 1 \in Nat
  BY <1>4
<1>6. m - 1 \notin T
  BY <1>4, <1>5
<1>7. m - 1 \in U
  BY <1>5, <1>6
<1> HIDE DEF R
<1>8. ~(m - 1 < m)
  BY <1>1, <1>3, <1>4, <1>5, <1>7
<1> QED BY <1>4, <1>8

(* The recursions of Truth and of SureBelow, one level at a time *)
TruthStep(g, d) ==
    [k \in Copy |->
        StatusOf(k.with, Content(k.obj, k.version),
            IF d = 0 THEN {}
            ELSE {[with |-> c.with, content |-> Content(c.obj, c.version),
                   status |-> g[d - 1][c]] : c \in WantedBy(k)})]

SureStep(k, g, d) ==
    IF d = 0 THEN {k} ELSE g[d - 1] \cup UNION {SureKids(c.with, c.obj) : c \in g[d - 1]}

(* The recursion of Truth has a value to every depth. *)
LEMMA TruthExists ==
    ASSUME NEW n \in Nat
    PROVE  \E g : g = [d \in 0..n |-> TruthStep(g, d)]
<1> DEFINE T == {m \in Nat : \E g : g = [d \in 0..m |-> TruthStep(g, d)]}
<1>1. 0 \in T
  <2> DEFINE g == [d \in 0..0 |-> TruthStep(<<>>, 0)]
  <2>1. \A h : TruthStep(h, 0) = TruthStep(<<>>, 0)
    BY DEF TruthStep
  <2>2. g = [d \in 0..0 |-> TruthStep(g, d)]
    BY <2>1
  <2> QED BY <2>2
<1>2. ASSUME NEW m \in Nat, m \in T PROVE m + 1 \in T
  <2>1. PICK g : g = [d \in 0..m |-> TruthStep(g, d)]
    BY <1>2
  <2> DEFINE h == [d \in 0..(m + 1) |-> IF d <= m THEN g[d] ELSE TruthStep(g, d)]
  <2>2. ASSUME NEW d \in 0..(m + 1) PROVE h[d] = TruthStep(h, d)
    <3>1. d # 0 => d - 1 \in 0..(m + 1) /\ d - 1 <= m /\ h[d - 1] = g[d - 1]
      OBVIOUS
    <3>2. TruthStep(h, d) = TruthStep(g, d)
      <4> HIDE DEF h
      <4>1. CASE d = 0
        BY <4>1 DEF TruthStep
      <4>2. CASE d # 0
        BY <3>1, <4>2 DEF TruthStep
      <4> QED BY <4>1, <4>2
    <3>3. CASE d <= m
      BY <2>1, <3>2, <3>3
    <3>4. CASE ~(d <= m)
      BY <3>2, <3>4
    <3> QED BY <3>3, <3>4
  <2>3. h = [d \in 0..(m + 1) |-> TruthStep(h, d)]
    BY <2>2
  <2> HIDE DEF h
  <2> QED BY <2>3
<1> HIDE DEF T
<1>3. n \in T
  BY <1>1, <1>2, DepthInduction
<1> QED BY <1>3 DEF T

(* So has the recursion of SureBelow. *)
LEMMA SureExists ==
    ASSUME NEW k, NEW n \in Nat
    PROVE  \E g : g = [d \in 0..n |-> SureStep(k, g, d)]
<1> DEFINE T == {m \in Nat : \E g : g = [d \in 0..m |-> SureStep(k, g, d)]}
<1>1. 0 \in T
  <2> DEFINE g == [d \in 0..0 |-> {k}]
  <2>1. g = [d \in 0..0 |-> SureStep(k, g, d)]
    BY DEF SureStep
  <2> QED BY <2>1
<1>2. ASSUME NEW m \in Nat, m \in T PROVE m + 1 \in T
  <2>1. PICK g : g = [d \in 0..m |-> SureStep(k, g, d)]
    BY <1>2
  <2> DEFINE h == [d \in 0..(m + 1) |-> IF d <= m THEN g[d] ELSE SureStep(k, g, d)]
  <2>2. ASSUME NEW d \in 0..(m + 1) PROVE h[d] = SureStep(k, h, d)
    <3>1. d # 0 => d - 1 \in 0..(m + 1) /\ d - 1 <= m /\ h[d - 1] = g[d - 1]
      OBVIOUS
    <3>2. SureStep(k, h, d) = SureStep(k, g, d)
      <4> HIDE DEF h
      <4> QED BY <3>1 DEF SureStep
    <3>3. CASE d <= m
      BY <2>1, <3>2, <3>3
    <3>4. CASE ~(d <= m)
      BY <3>2, <3>4
    <3> QED BY <3>3, <3>4
  <2>3. h = [d \in 0..(m + 1) |-> SureStep(k, h, d)]
    BY <2>2
  <2> HIDE DEF h
  <2> QED BY <2>3
<1> HIDE DEF T
<1>3. n \in T
  BY <1>1, <1>2, DepthInduction
<1> QED BY <1>3 DEF T

(* Truth is the last value of its recursion. *)
LEMMA TruthValue ==
    \E g : g = [d \in 0..MaxDepth |-> TruthStep(g, d)] /\ Truth = g[MaxDepth]
<1> DEFINE Rec(g) == g = [d \in 0..MaxDepth |-> TruthStep(g, d)]
           truth == CHOOSE g : Rec(g)
<1>1. \E g : Rec(g)
  BY TruthExists, AnalysisAssumption
<1>2. Rec(truth)
  <2> HIDE DEF Rec
  <2> QED BY <1>1
<1>3. Truth = truth[MaxDepth]
  BY DEF Truth, TruthStep
<1> HIDE DEF truth
<1> QED BY <1>2, <1>3

(* SureBelow is the last value of its recursion. *)
LEMMA SureValue ==
    ASSUME NEW k
    PROVE  \E g : g = [d \in 0..MaxDepth |-> SureStep(k, g, d)] /\ SureBelow(k) = g[MaxDepth]
<1> DEFINE Rec(g) == g = [d \in 0..MaxDepth |-> SureStep(k, g, d)]
           below == CHOOSE g : Rec(g)
<1>1. \E g : Rec(g)
  BY SureExists, AnalysisAssumption
<1>2. Rec(below)
  <2> HIDE DEF Rec
  <2> QED BY <1>1
<1>3. SureBelow(k) = below[MaxDepth]
  BY DEF SureBelow, SureStep
<1> HIDE DEF below
<1> QED BY <1>2, <1>3

-----------------------------------------------------------------------------
(* What a status was made of, in a quiet run *)

(* A copy that a lookup ought to find is the cluster's. *)
LEMMA WantedForm ==
    ASSUME NEW l, NEW k \in Wanted(l)
    PROVE  /\ k = Kid(Given(l, k.obj), k.obj, version[k.obj])
           /\ IF l.how = "query" THEN k.obj \in Expected(l.q)
              ELSE k.obj \in Named(l.entry) \cap steady
<1>1. CASE l.how = "query"
  <2>1. PICK o \in Expected(l.q) :
            k = Kid(IF l.with = "register" THEN findAnalyzer(KindOf[o]) ELSE l.with, o, version[o])
    BY <1>1 DEF Wanted
  <2>2. k.obj = o
    BY <2>1 DEF Kid
  <2> QED BY <1>1, <2>1, <2>2 DEF Given
<1>2. CASE l.how # "query"
  <2>1. PICK o \in Named(l.entry) \cap steady : k = Kid(findAnalyzer(KindOf[o]), o, version[o])
    BY <1>2 DEF Wanted
  <2>2. k.obj = o
    BY <2>1 DEF Kid
  <2> QED BY <1>2, <2>1, <2>2 DEF Given
<1> QED BY <1>1, <1>2

(* In a quiet run an analysis finds what it ought to find, and nothing else. *)
LEMMA CalmFindings ==
    ASSUME Calm, NEW x \in Copy, x.with \in AnalyzersOf(x.obj), NEW S, Findings(x, {}, S)
    PROVE  S = WantedBy(x)
<1>1. S \subseteq WantedBy(x)
  BY DEF Findings, Plausible
<1>2. ASSUME NEW l \in LooksUp(x), NEW k \in Wanted(l)
      PROVE  k \in S
  <2>1. x.obj \in Obj /\ x.version \in 0..MaxChanges
    BY DEF Copy
  <2>2. l.how = "query" => l.q \in Queries
    BY <2>1, LookupsAssumption DEF LooksUp
  <2>3. lost = {} /\ \A q \in Queries : Expected(q) \cap FromEval = {}
    BY DEF Calm, Quiet, RequestedApart
  <2>4. Finds(l, k.obj)
    BY <2>2, <2>3, WantedForm DEF Finds
  <2>5. PICK c \in S : c.with = Given(l, k.obj) /\ c.obj = k.obj
    BY <2>4 DEF Findings
  <2>6. PICK j : c \in Wanted(j)
    BY <1>1, <2>5 DEF WantedBy
  <2>7. c = Kid(Given(j, c.obj), c.obj, version[c.obj])
    BY <2>6, WantedForm
  <2>8. c.with = Given(j, c.obj)
    BY <2>7 DEF Kid
  <2>9. k = Kid(Given(l, k.obj), k.obj, version[k.obj])
    BY WantedForm
  <2>10. c = k
    BY <2>5, <2>7, <2>8, <2>9
  <2> QED BY <2>5, <2>10
<1> QED BY <1>1, <1>2 DEF WantedBy, LooksUp

(* What an analyzer is given of sub-object c, whose status is s *)
SubOf(c, s) == [with |-> c.with, content |-> Content(c.obj, c.version), status |-> s]

(* Whether an analyzer keeps a sub-object is told by its contents. *)
LEMMA KeepsSub ==
    ASSUME NEW a, NEW c, NEW s
    PROVE  Kept(a, SubOf(c, s)) <=> Keeps(a, c)
BY DEF Kept, Keeps, SubOf

(* A status node says of its copy what SubOf does. *)
LEMMA NodeSub ==
    ASSUME NEW n
    PROVE  Sub(n) = SubOf(NodeKid(n), n.status)
BY DEF Sub, SubOf, NodeKid, Kid

(***************************************************************************)
(* In a quiet run a status is the one of its copy in the recursion of      *)
(* Truth, as deep as the stack of the goroutine can go below it.           *)
(***************************************************************************)
LEMMA QuietStatus ==
    ASSUME Calm, TreeInv, FoundInv, NEW g, g = [d \in 0..MaxDepth |-> TruthStep(g, d)],
           NEW n \in nodes, n.version # NotCached, NEW e \in 0..MaxDepth,
           Len(n.path) + e >= MaxDepth,
           \A m \in Children(n) : m.version # NotCached /\ e # 0 /\ m.status = g[e - 1][NodeKid(m)]
    PROVE  n.status = g[e][NodeKid(n)]
<1>1. PICK x : x = NodeKid(n)
  OBVIOUS
<1>2. /\ x \in Copy /\ x.with = n.with /\ x.obj = ObjectOf(n) /\ x.version = n.version
      /\ x.with \in AnalyzersOf(x.obj)
      /\ n.status = StatusOf(x.with, Content(x.obj, x.version), {Sub(m) : m \in Children(n)})
  <2>1. /\ x.with = n.with /\ x.obj = ObjectOf(n) /\ x.version = n.version
    BY <1>1 DEF NodeKid, Kid
  <2>2. Complete(n)
    BY DEF FoundInv, NodesFound
  <2> QED BY <1>1, <2>1, <2>2 DEF Complete
<1>3. PICK S : Findings(x, {}, S) /\ {NodeKid(m) : m \in Children(n)} = {c \in S : Keeps(x.with, c)}
  BY <1>1, <1>2 DEF FoundInv, NodesFound, Complete
<1>4. S = WantedBy(x)
  BY <1>2, <1>3, CalmFindings
<1>5. CASE e = 0
  <2>1. Children(n) = {}
    BY <1>5
  <2>2. {Sub(m) : m \in Children(n)} = {}
    BY <2>1
  <2>3. g[0][x] = StatusOf(x.with, Content(x.obj, x.version), {})
    <3>1. g[0] = TruthStep(g, 0)
      BY <1>5
    <3> QED BY <1>2, <3>1 DEF TruthStep
  <2> QED BY <1>1, <1>2, <1>5, <2>2, <2>3
<1>6. CASE e # 0
  <2> DEFINE all == {SubOf(c, g[e - 1][c]) : c \in WantedBy(x)}
             kept == {Sub(m) : m \in Children(n)}
  <2>1. g[e][x] = StatusOf(x.with, Content(x.obj, x.version), all)
    <3>1. g[e] = TruthStep(g, e)
      OBVIOUS
    <3> QED BY <1>2, <1>6, <3>1 DEF TruthStep, SubOf
  <2>2. \A m \in Children(n) : Sub(m) = SubOf(NodeKid(m), g[e - 1][NodeKid(m)])
    BY NodeSub
  <2>3. kept \subseteq {s \in all : Kept(x.with, s)}
    <3> SUFFICES ASSUME NEW m \in Children(n) PROVE Sub(m) \in all /\ Kept(x.with, Sub(m))
      OBVIOUS
    <3>1. PICK c : c = NodeKid(m)
      OBVIOUS
    <3>2. c \in WantedBy(x) /\ Keeps(x.with, c)
      BY <1>3, <1>4, <3>1
    <3>3. Sub(m) = SubOf(c, g[e - 1][c])
      BY <2>2, <3>1
    <3> QED BY <3>2, <3>3, KeepsSub
  <2>4. ASSUME NEW c \in WantedBy(x), Kept(x.with, SubOf(c, g[e - 1][c]))
        PROVE  SubOf(c, g[e - 1][c]) \in kept
    <3>1. Keeps(x.with, c)
      BY <2>4, KeepsSub
    <3>2. PICK m \in Children(n) : c = NodeKid(m)
      BY <1>3, <1>4, <3>1
    <3> QED BY <2>2, <3>2
  <2>5. kept = {s \in all : Kept(x.with, s)}
    BY <2>3, <2>4
  <2> HIDE DEF all, kept
  <2>6. StatusOf(x.with, Content(x.obj, x.version), all)
          = StatusOf(x.with, Content(x.obj, x.version), kept)
    BY <2>5, KeptOnly
  <2> QED BY <1>1, <1>2, <2>1, <2>6 DEF kept
<1> QED BY <1>5, <1>6

(***************************************************************************)
(* A report made while nothing changes is the one that the analyzers       *)
(* define on the cluster itself, for every depth of the tree, every order  *)
(* of queries and whatever earlier runs left in the caches.                *)
(***************************************************************************)
THEOREM QuietReportTrue == AnalysisSpec => []QuietReportIsTruth
<1>1. TreeInv /\ FoundInv => QuietReportIsTruth
  <2> SUFFICES ASSUME TreeInv, FoundInv, Reported, Quiet, RequestedApart
               PROVE  \A n \in nodes : Len(n.path) = 1 => n.status = Truth[NodeKid(n)]
    BY DEF QuietReportIsTruth, NodeKid
  <2>1. Calm /\ MaxDepth \in Nat
    BY AnalysisAssumption DEF Calm
  <2>2. \A n \in nodes : n.version # NotCached /\ Len(n.path) \in Nat
    BY <2>1 DEF Calm, Quiet, FoundInv, FailuresKnown, TreeInv, NodeType, Paths
  <2>3. \A n \in nodes : Len(n.path) <= MaxDepth
    BY <2>2 DEF FoundInv, NodesFound, Complete
  <2>4. PICK g : g = [d \in 0..MaxDepth |-> TruthStep(g, d)] /\ Truth = g[MaxDepth]
    BY TruthValue
  <2> DEFINE T == {e \in Nat : e <= MaxDepth =>
                      \A n \in nodes : Len(n.path) + e >= MaxDepth => n.status = g[e][NodeKid(n)]}
  <2>5. 0 \in T
    <3>1. ASSUME NEW n \in nodes, Len(n.path) + 0 >= MaxDepth
          PROVE  n.status = g[0][NodeKid(n)]
      <4>1. Children(n) = {}
        BY <2>1, <2>2, <2>3, <3>1 DEF Children
      <4>2. 0 \in 0..MaxDepth
        BY <2>1
      <4>3. \A m \in Children(n) :
               m.version # NotCached /\ 0 # 0 /\ m.status = g[0 - 1][NodeKid(m)]
        BY <4>1
      <4> HIDE DEF T
      <4> QED BY <2>1, <2>2, <2>4, <3>1, <4>2, <4>3, QuietStatus
    <3> QED BY <2>1, <3>1
  <2>6. ASSUME NEW e \in Nat, e \in T PROVE e + 1 \in T
    <3>1. ASSUME e + 1 <= MaxDepth, NEW n \in nodes, Len(n.path) + (e + 1) >= MaxDepth
          PROVE  n.status = g[e + 1][NodeKid(n)]
      <4>1. e <= MaxDepth /\ e + 1 \in 0..MaxDepth /\ (e + 1) - 1 = e /\ e + 1 # 0
        BY <2>1, <3>1
      <4>2. ASSUME NEW m \in Children(n) PROVE m \in nodes /\ Len(m.path) + e >= MaxDepth
        <5>1. m \in nodes /\ Len(m.path) = Len(n.path) + 1 /\ Len(n.path) \in Nat
          BY <2>2 DEF Children
        <5>2. ASSUME NEW i \in Nat, NEW j \in Nat, i + (e + 1) >= MaxDepth, j = i + 1
              PROVE  j + e >= MaxDepth
          BY <2>1, <5>2
        <5>3. Len(m.path) \in Nat
          BY <2>2, <5>1
        <5> HIDE DEF T
        <5> QED BY <3>1, <5>1, <5>2, <5>3
      <4>3. \A m \in Children(n) : m.version # NotCached /\ m.status = g[(e + 1) - 1][NodeKid(m)]
        BY <2>2, <2>6, <4>1, <4>2
      <4> HIDE DEF T
      <4> QED BY <2>1, <2>2, <2>4, <3>1, <4>1, <4>3, QuietStatus
    <3>2. e + 1 \in Nat
      OBVIOUS
    <3> QED BY <3>1, <3>2
  <2> HIDE DEF T
  <2>7. MaxDepth \in T
    BY <2>1, <2>5, <2>6, DepthInduction
  <2> QED BY <2>1, <2>2, <2>4, <2>7 DEF T
<1> QED BY <1>1, TreeInvariance, FoundInvariance, PTL

-----------------------------------------------------------------------------
(* Sub-objects make no Error go away. *)

(* An Error among the conditions that stays one among others *)
LEMMA AggregateError ==
    ASSUME NEW subs, NEW conds, NEW more, subs \subseteq Statuses, conds \subseteq Statuses,
           more \subseteq Statuses, AggregateResult({}, conds).result = Error,
           \A s \in conds : s.result = Error => s \in more
    PROVE  AggregateResult(subs, more).result = Error
<1>1. PICK s \in conds : s.result = Error
  <2>1. \/ AggregateResult({}, conds).result = Unknown
        \/ \E s \in {} \cup conds : AggregateResult({}, conds).result = s.result
    BY Aggregate
  <2>2. Unknown # Error
    BY DEF Unknown, Error
  <2> QED BY <2>1, <2>2
<1>2. /\ AggregateResult(subs, more) \in Statuses
      /\ Error <= AggregateResult(subs, more).result
  BY <1>1, Aggregate
<1> HIDE DEF AggregateResult
<1>3. AggregateResult(subs, more).result \in Results
  BY <1>2 DEF Statuses
<1> QED BY <1>2, <1>3 DEF Results, Unknown, Error

(***************************************************************************)
(* An object whose own conditions make it an Error is one whatever its     *)
(* sub-objects are, unless it is a Deployment, whose ReplicaSets decide    *)
(* what its condition Progressing means.                                   *)
(***************************************************************************)
LEMMA ErrorStays ==
    ASSUME NEW a \in Analyzer, a # "Deployment", NEW c, NEW subs,
           \A s \in subs : s.status \in Statuses,
           StatusOf(a, c, {}).result = Error
    PROVE  StatusOf(a, c, subs).result = Error
<1> DEFINE statuses == {s.status : s \in subs}
           none == {s.status : s \in {}}
<1>1. statuses \subseteq Statuses /\ none = {}
  OBVIOUS
<1>2. Status(Ok).result # Error
  BY DEF Status, Ok, Error
<1>3. CASE a \in {"AlwaysGreen", "Node", "PersistentVolumeClaim", "Route", "Pod", "InstallPlan",
                  "ClusterServiceVersion"}
  BY <1>3 DEF StatusOf
<1>4. CASE a = "Generic"
  <2> DEFINE C == AnalyzeObservedGeneration(c)
                    \cup AnalyzeAll(<<CommonConditionsAnalyzer>>, c.conditions)
  <2>1. StatusOf(a, c, subs) = IF ~c.hasStatus /\ statuses = {} THEN Status(Ok)
                               ELSE AggregateResult(statuses, C)
    BY <1>4 DEF StatusOf, GenericStatus
  <2>2. StatusOf(a, c, {}) = IF ~c.hasStatus THEN Status(Ok) ELSE AggregateResult({}, C)
    BY <1>1, <1>4 DEF StatusOf, GenericStatus
  <2>3. C \subseteq Statuses
    BY OwnConditionsType, ConditionsType
  <2> HIDE DEF C, statuses
  <2>4. c.hasStatus /\ AggregateResult({}, C).result = Error
    BY <1>2, <2>2
  <2> QED BY <1>1, <2>1, <2>3, <2>4, AggregateError
<1>5. CASE a \in {"Service", "ReplicaSet", "MultiClusterObservability", "ClusterOperator"}
  <2>1. \E C : /\ C \subseteq Statuses
               /\ StatusOf(a, c, subs) = AggregateResult(statuses, C)
               /\ StatusOf(a, c, {}) = AggregateResult({}, C)
    <3>1. CASE a = "Service"
      <4>1. StatusOf(a, c, subs) = AggregateResult(statuses, {})
        BY <3>1 DEF StatusOf, ServiceStatus
      <4>2. StatusOf(a, c, {}) = AggregateResult({}, {})
        BY <1>1, <3>1 DEF StatusOf, ServiceStatus
      <4> QED BY <4>1, <4>2
    <3>2. CASE a = "ReplicaSet"
      <4> DEFINE C == {replicaSetConditionAnalyzer(d) : d \in c.conditions}
                        \cup replicaSetSyntheticConditions(c)
      <4>1. StatusOf(a, c, subs) = AggregateResult(statuses, C)
        BY <3>2 DEF StatusOf, ReplicaSetStatus
      <4>2. StatusOf(a, c, {}) = AggregateResult({}, C)
        BY <1>1, <3>2 DEF StatusOf, ReplicaSetStatus
      <4>3. C \subseteq Statuses
        BY OwnConditionsType
      <4> QED BY <4>1, <4>2, <4>3
    <3>3. CASE a = "MultiClusterObservability"
      <4> DEFINE C == AnalyzeAll(<<CommonConditionsAnalyzer>>, c.conditions)
      <4>1. StatusOf(a, c, subs) = AggregateResult(statuses, C)
        BY <3>3 DEF StatusOf, MCOStatus
      <4>2. StatusOf(a, c, {}) = AggregateResult({}, C)
        BY <1>1, <3>3 DEF StatusOf, MCOStatus
      <4> QED BY <4>1, <4>2, ConditionsType
    <3>4. CASE a = "ClusterOperator"
      <4> DEFINE as == <<clusteroperatorConditionsAnalyzer, CommonConditionsAnalyzer>>
                         \o (IF c.insights THEN <<insightsConditionsAnalyzer>> ELSE <<>>)
                 C == AnalyzeAll(as, c.conditions)
      <4>1. StatusOf(a, c, subs) = AggregateResult(statuses, C)
        BY <3>4 DEF StatusOf, ClusterOperatorStatus
      <4>2. StatusOf(a, c, {}) = AggregateResult({}, C)
        BY <1>1, <3>4 DEF StatusOf, ClusterOperatorStatus
      <4>3. C \subseteq Statuses
        BY ConditionsType
      <4> QED BY <4>1, <4>2, <4>3
    <3> QED BY <1>5, <3>1, <3>2, <3>3, <3>4
  <2> HIDE DEF statuses
  <2> QED BY <1>1, <2>1, AggregateError
<1>6. CASE a = "Subscription"
  <2> DEFINE by(T, b) == {s.status : s \in {t \in T : t.with = b}}
             S == by(subs, "InstallPlan") \cup by(subs, "ClusterServiceVersion")
             A == AnalyzeAll(<<subscriptionConditionsAnalyzer, CommonConditionsAnalyzer>>, c.conditions)
             C == A \cup InstallPlanMissing({})
             M == A \cup InstallPlanMissing(by(subs, "InstallPlan"))
  <2>1. StatusOf(a, c, subs) = AggregateResult(S, M)
    BY <1>6 DEF StatusOf, SubscriptionStatus
  <2>2. StatusOf(a, c, {}) = AggregateResult({}, C)
    <3>1. \A b : by({}, b) = {}
      OBVIOUS
    <3>2. StatusOf(a, c, {})
            = AggregateResult(by({}, "InstallPlan") \cup by({}, "ClusterServiceVersion"),
                              A \cup InstallPlanMissing(by({}, "InstallPlan")))
      BY <1>6 DEF StatusOf, SubscriptionStatus
    <3> HIDE DEF by, A
    <3> QED BY <3>1, <3>2
  <2>3. S \subseteq Statuses /\ C \subseteq Statuses /\ M \subseteq Statuses
    BY OwnConditionsType, ConditionsType
  <2>4. \A s \in C : s.result = Error => s \in M
    BY DEF InstallPlanMissing, StatusProgressing, Unknown, Error
  <2> HIDE DEF S, C, M
  <2> QED BY <2>1, <2>2, <2>3, <2>4, AggregateError
<1> QED BY <1>3, <1>4, <1>5, <1>6 DEF Analyzer, Registered

-----------------------------------------------------------------------------
(* The objects that the lookups lead to whenever they are made *)

(* Status m, at n or below it, is of the object of copy c, by its analyzer, *)
(* in a version that the object had since the run began.                    *)
StatusFor(n, c, m) ==
    /\ m \in nodes /\ Above(n.path, m.path)
    /\ m.version # NotCached /\ m.version \in Held(c.obj)
    /\ m.with = c.with /\ ObjectOf(m) = c.obj

(* A fresh copy that is no newer than the cluster's is in a version of the run. *)
LEMMA FreshHeld ==
    ASSUME TypeOK, NEW c, c \in FreshCopies, c \in SoundCopies
    PROVE  c[2] \in Held(c[1]) /\ c[2] # NotCached
<1>1. c \in Obj \X Nat /\ c[2] >= base[c[1]] /\ c[2] <= version[c[1]]
  BY DEF FreshCopies, SoundCopies
<1>2. base[c[1]] \in Nat /\ version[c[1]] \in Nat
  BY <1>1 DEF TypeOK, Version
<1> QED BY <1>1, <1>2, ConstantsAssumption DEF Held, Version

(* The sub-objects that are sure to be found have a status when the object has. *)
LEMMA SureFound ==
    ASSUME EvaluatorFacts, TreeInv, FoundInv, NEW n \in nodes, NEW c, NEW m, StatusFor(n, c, m),
           NEW k \in SureKids(c.with, c.obj)
    PROVE  \E j : StatusFor(n, k, j)
<1>1. PICK x : x = NodeKid(m)
  OBVIOUS
<1>2. /\ x.with = c.with /\ x.obj = c.obj /\ x.version \in Held(c.obj)
      /\ LooksUp(x) = Lookups(c.with, c.obj, x.version)
  BY <1>1 DEF StatusFor, NodeKid, Kid, LooksUp
<1>3. PICK S : Findings(x, {}, S) /\ {NodeKid(j) : j \in Children(m)} = {d \in S : Keeps(c.with, d)}
  BY <1>1, <1>2 DEF StatusFor, FoundInv, NodesFound, Complete
<1>4. /\ k.obj \notin FromEval \cup RequestedObjs \cup lost
      /\ \A v \in Held(k.obj) : Kept(c.with, [content |-> Content(k.obj, v)])
  BY DEF SureKids
<1>5. PICK l \in LooksUp(x) : k \in Wanted(l) /\ (l.how = "query" => l.q.ns \notin lost)
  BY <1>2 DEF SureKids
<1>6. /\ k = Kid(Given(l, k.obj), k.obj, version[k.obj])
      /\ Finds(l, k.obj)
  BY <1>4, <1>5, WantedForm DEF Finds
<1>7. PICK d \in S : d.with = Given(l, k.obj) /\ d.obj = k.obj
  BY <1>3, <1>5, <1>6 DEF Findings
<1>8. d.with = k.with
  BY <1>6, <1>7 DEF Kid
<1>9. d.version \in Held(k.obj) /\ d.version # NotCached
  <2>1. CopyOf(d) \in SoundCopies /\ CopyOf(d)[1] = k.obj /\ CopyOf(d)[2] = d.version
    BY <1>3, <1>7 DEF Findings, Plausible, CopyOf
  <2>2. CopyOf(d) \in FreshCopies
    BY <1>4, <2>1 DEF SoundCopies
  <2>3. TypeOK
    BY DEF EvaluatorFacts, FreshInv
  <2> QED BY <2>1, <2>2, <2>3, FreshHeld
<1>10. Keeps(c.with, d)
  BY <1>4, <1>7, <1>9 DEF Keeps
<1>11. PICK j \in Children(m) : NodeKid(j) = d
  BY <1>3, <1>7, <1>10
<1>12. j.with = k.with /\ ObjectOf(j) = k.obj /\ j.version = d.version
  BY <1>7, <1>8, <1>11 DEF NodeKid, Kid
<1>13. j \in nodes /\ Above(n.path, j.path)
  <2>1. m \in nodes /\ j \in nodes /\ Above(n.path, m.path) /\ Above(m.path, j.path)
    BY <1>11 DEF StatusFor, Children
  <2> QED BY <2>1, AboveTransitive DEF TreeInv, NodeType
<1> QED BY <1>9, <1>12, <1>13 DEF StatusFor

(***************************************************************************)
(* Trouble that lasts is reported, for every depth at which the troubled   *)
(* object is and whatever else changes or fails during the run.            *)
(***************************************************************************)
THEOREM LastingTroubleAlwaysReported == AnalysisSpec => []LastingTroubleReported
<1>1. EvaluatorFacts /\ TreeInv /\ NodesSound /\ FoundInv => LastingTroubleReported
  <2> SUFFICES ASSUME EvaluatorFacts, TreeInv, NodesSound, FoundInv, NEW n \in nodes,
                      Len(n.path) = 1, ObjectOf(n) \in steady \ lost,
                      NEW c \in SureBelow(NodeKid(n)), Ill(c)
               PROVE  n.status.result = Error
    BY DEF LastingTroubleReported, NodeKid
  <2>1. PICK k : k = NodeKid(n)
    OBVIOUS
  <2>2. PICK g : g = [d \in 0..MaxDepth |-> SureStep(k, g, d)] /\ SureBelow(k) = g[MaxDepth]
    BY SureValue
  <2> DEFINE T == {d \in Nat : d <= MaxDepth => \A b \in g[d] : \E m : StatusFor(n, b, m)}
  <2>3. MaxDepth \in Nat
    BY AnalysisAssumption
  <2>4. 0 \in T
    <3>1. g[0] = {k}
      BY <2>2, <2>3 DEF SureStep
    <3>2. StatusFor(n, k, n)
      <4>1. n.version # NotCached
        BY DEF FoundInv, FailuresKnown
      <4>2. /\ NodeCopy(n) \in SoundCopies /\ NodeCopy(n) \in FreshCopies
            /\ NodeCopy(n)[1] = ObjectOf(n) /\ NodeCopy(n)[2] = n.version
        <5>1. ~(Len(n.path) > 1)
          OBVIOUS
        <5>2. NodeCopy(n) \in SoundCopies /\ NodeCopy(n) \in FreshCopies
          BY <4>1, <5>1 DEF NodesSound
        <5> QED BY <5>2 DEF NodeCopy
      <4>3. n.version \in Held(ObjectOf(n))
        BY <4>2, FreshHeld DEF EvaluatorFacts, FreshInv
      <4>4. k.with = n.with /\ k.obj = ObjectOf(n)
        BY <2>1 DEF NodeKid, Kid
      <4>5. Above(n.path, n.path)
        BY DEF Above, TreeInv, NodeType, Paths
      <4> QED BY <4>1, <4>3, <4>4, <4>5 DEF StatusFor
    <3> QED BY <3>1, <3>2
  <2>5. ASSUME NEW d \in Nat, d \in T PROVE d + 1 \in T
    <3>1. ASSUME d + 1 <= MaxDepth, NEW b \in g[d + 1] PROVE \E m : StatusFor(n, b, m)
      <4>1. d <= MaxDepth /\ d + 1 \in 0..MaxDepth /\ (d + 1) - 1 = d /\ d + 1 # 0
        BY <2>3, <3>1
      <4>2. g[d + 1] = g[d] \cup UNION {SureKids(e.with, e.obj) : e \in g[d]}
        BY <2>2, <4>1 DEF SureStep
      <4>3. \A e \in g[d] : \E m : StatusFor(n, e, m)
        BY <2>5, <4>1
      <4> HIDE DEF T
      <4>4. CASE b \in g[d]
        BY <4>3, <4>4
      <4>5. ASSUME NEW e \in g[d], b \in SureKids(e.with, e.obj) PROVE \E m : StatusFor(n, b, m)
        <5>1. PICK m : StatusFor(n, e, m)
          BY <4>3
        <5> QED BY <4>5, <5>1, SureFound
      <4> QED BY <3>1, <4>2, <4>4, <4>5
    <3>2. d + 1 \in Nat
      OBVIOUS
    <3> QED BY <3>1, <3>2
  <2> HIDE DEF T
  <2>6. MaxDepth \in T
    BY <2>3, <2>4, <2>5, DepthInduction
  <2>7. PICK m : StatusFor(n, c, m)
    BY <2>1, <2>2, <2>3, <2>6 DEF T
  <2>8. m.status.result = Error
    <3>1. /\ m \in nodes /\ m.with = c.with /\ m.with \in Analyzer
          /\ m.status = StatusOf(c.with, Content(c.obj, m.version), {Sub(j) : j \in Children(m)})
      <4>1. m \in nodes /\ m.version # NotCached /\ m.with = c.with /\ ObjectOf(m) = c.obj
        BY <2>7 DEF StatusFor
      <4>2. Complete(m)
        BY <4>1 DEF FoundInv, NodesFound
      <4> QED BY <4>1, <4>2, AnalyzersType DEF Complete
    <3>2. StatusOf(c.with, Content(c.obj, m.version), {}).result = Error /\ c.with # "Deployment"
      BY <2>7 DEF Ill, StatusFor
    <3>3. \A s \in {Sub(j) : j \in Children(m)} : s.status \in Statuses
      BY DEF Sub, Children, TreeInv, NodeType
    <3> QED BY <3>1, <3>2, <3>3, ErrorStays
  <2>9. m \in nodes /\ NoBetter(n.status, m.status) /\ n.status \in Statuses
    BY <2>7 DEF StatusFor, TreeInv, NodesOrdered, NodeType
  <2> QED BY <2>8, <2>9 DEF NoBetter, Statuses, Results, Unknown, Error
<1> QED BY <1>1, EvaluatorFactsHold, TreeInvariance, SoundInvariance, FoundInvariance, PTL
=============================================================================
