--------------------------- MODULE RolloutProofs ---------------------------
(***************************************************************************)
(* Proofs about module Rollout, for every number of edits, replicas and    *)
(* mishaps, and about the operators of Conditions and Workload it rests    *)
(* on.                                                                     *)
(***************************************************************************)
EXTENDS Rollout, FiniteSetTheorems, TLAPS

-----------------------------------------------------------------------------
(* AggregateResult *)

(* The greatest of a set of results is one of them, and none exceeds it. *)
LEMMA MaxResult ==
    ASSUME NEW S, S \subseteq Results, S # {}
    PROVE  Max(S) \in S /\ \A x \in S : x <= Max(S)
<1> USE DEF Results, Unknown, Error
<1>1. \E m \in S : \A x \in S : m >= x
  <2>1. CASE 3 \in S
    BY <2>1
  <2>2. CASE 3 \notin S /\ 2 \in S
    BY <2>2
  <2>3. CASE 3 \notin S /\ 2 \notin S /\ 1 \in S
    BY <2>3
  <2>4. CASE 3 \notin S /\ 2 \notin S /\ 1 \notin S
    <3>1. \A x \in S : x = 0
      BY <2>4
    <3>2. 0 \in S
      BY <3>1
    <3> QED BY <3>1, <3>2
  <2> QED BY <2>1, <2>2, <2>3, <2>4
<1>2. Max(S) \in S /\ \A x \in S : Max(S) >= x
  BY <1>1 DEF Max
<1>3. Max(S) \in 0..3
  BY <1>2
<1> QED BY <1>2, <1>3

(***************************************************************************)
(* AggregateResult returns a status no better than any it is given, as bad *)
(* as one of them unless it is Unknown, and progressing if one of them is. *)
(***************************************************************************)
LEMMA Aggregate ==
    ASSUME NEW subs, NEW conds, subs \cup conds \subseteq Statuses
    PROVE  /\ AggregateResult(subs, conds) \in Statuses
           /\ \A s \in subs \cup conds : s.result <= AggregateResult(subs, conds).result
           /\ \/ AggregateResult(subs, conds).result = Unknown
              \/ \E s \in subs \cup conds : AggregateResult(subs, conds).result = s.result
           /\ AggregateResult(subs, conds).progressing
                  <=> \E s \in subs \cup conds : s.progressing
<1> DEFINE R == {Unknown} \cup {s.result : s \in subs \cup conds}
           B == \E s \in subs \cup conds : s.progressing
<1>1. R \subseteq Results /\ R # {}
  BY DEF Statuses, Results, Unknown, Error
<1>2. Max(R) \in R /\ \A x \in R : x <= Max(R)
  <2> HIDE DEF R
  <2> QED BY <1>1, MaxResult
<1>3. AggregateResult(subs, conds) = [result |-> Max(R), progressing |-> B]
  BY DEF AggregateResult
<1>4. B \in BOOLEAN
  OBVIOUS
<1>5. [result |-> Max(R), progressing |-> B] \in Statuses
  <2> HIDE DEF R, B
  <2> QED BY <1>1, <1>2, <1>4 DEF Statuses
<1>6. /\ AggregateResult(subs, conds).result = Max(R)
      /\ AggregateResult(subs, conds).progressing = B
  <2> HIDE DEF R, B
  <2> QED BY <1>3
<1>7. \A s \in subs \cup conds : s.result <= Max(R)
  BY <1>2
<1>8. Max(R) = Unknown \/ \E s \in subs \cup conds : Max(R) = s.result
  BY <1>2
<1> HIDE DEF R
<1> QED BY <1>3, <1>5, <1>6, <1>7, <1>8

(* Two statuses with the same fields are the same. *)
LEMMA StatusEqual ==
    ASSUME NEW s \in Statuses, ~s.progressing
    PROVE  s = Status(s.result)
BY DEF Statuses, Status

(* A plain status is a status. *)
LEMMA StatusType ==
    ASSUME NEW r \in Results
    PROVE  /\ Status(r) \in Statuses
           /\ Status(r).result = r
           /\ ~Status(r).progressing
BY DEF Statuses, Status

(* The four results. *)
LEMMA ResultsType ==
    /\ Unknown \in Results /\ Ok \in Results /\ Warning \in Results /\ Error \in Results
    /\ Results \subseteq Nat
BY DEF Results, Unknown, Ok, Warning, Error

(* Statuses of one kind come out as they went in. *)
LEMMA AggregateSame ==
    ASSUME NEW subs, NEW conds, NEW r \in Results,
           subs \cup conds \subseteq {Status(r), Status(Unknown)},
           Status(r) \in subs \cup conds
    PROVE  AggregateResult(subs, conds) = Status(r)
<1> DEFINE a == AggregateResult(subs, conds)
<1>1. subs \cup conds \subseteq Statuses
  BY StatusType, ResultsType
<1>2. a \in Statuses /\ r <= a.result
  BY <1>1, Aggregate, StatusType
<1>3. a.result = Unknown \/ a.result = r
  BY <1>1, Aggregate, StatusType, ResultsType
<1>4. ~a.progressing
  BY <1>1, Aggregate, StatusType, ResultsType
<1>5. a.result = r
  BY <1>2, <1>3 DEF Unknown, Results, Error
<1> QED BY <1>2, <1>4, <1>5, StatusEqual

(* One error is enough. *)
LEMMA AggregateError ==
    ASSUME NEW subs, NEW conds, subs \cup conds \subseteq Statuses,
           NEW s \in subs \cup conds, s.result = Error
    PROVE  AggregateResult(subs, conds).result = Error
<1> DEFINE a == AggregateResult(subs, conds)
<1>1. a \in Statuses /\ s.result <= a.result
  BY Aggregate
<1> HIDE DEF a
<1>2. a.result \in 0..3 /\ 3 <= a.result
  BY <1>1 DEF Statuses, Results, Unknown, Error
<1>3. a.result = Error
  BY <1>2 DEF Error
<1> QED BY <1>3 DEF a

-----------------------------------------------------------------------------
(* Conditions *)

(* The default analyzers are a single one. *)
LEMMA CommonValue ==
    ASSUME NEW c
    PROVE  AnalyzeCommon(c) = IF Matches(CommonConditionsAnalyzer, c.type)
                              THEN Analyze(CommonConditionsAnalyzer, c)
                              ELSE Status(Unknown)
<1> DEFINE a == <<CommonConditionsAnalyzer>>
           hits == {i \in DOMAIN a : Matches(a[i], c.type)}
<1>1. AnalyzeCommon(c) = IF hits = {} THEN Status(Unknown) ELSE Analyze(a[Min(hits)], c)
  BY DEF AnalyzeCommon, AnalyzeCondition
<1>2. DOMAIN a = {1} /\ a[1] = CommonConditionsAnalyzer
  OBVIOUS
<1>3. CASE Matches(CommonConditionsAnalyzer, c.type)
  <2>1. hits = {1}
    BY <1>2, <1>3
  <2>2. Min({1}) = 1
    BY DEF Min
  <2> QED BY <1>1, <1>2, <1>3, <2>1, <2>2
<1>4. CASE ~Matches(CommonConditionsAnalyzer, c.type)
  <2>1. hits = {}
    BY <1>2, <1>4
  <2> QED BY <1>1, <1>4, <2>1
<1> QED BY <1>3, <1>4

(* Whatever a condition says, its analysis is a status. *)
LEMMA CommonType ==
    ASSUME NEW c PROVE AnalyzeCommon(c) \in Statuses
<1>1. Analyze(CommonConditionsAnalyzer, c) \in Statuses
  <2>1. TargetResult(CommonConditionsAnalyzer, c.type) \in Results
    BY ResultsType DEF TargetResult
  <2> QED BY <2>1, StatusType, ResultsType DEF Analyze, Statuses
<1> QED BY <1>1, CommonValue, StatusType, ResultsType

(* What the default analyzers say of the conditions that pods and Deployments have. *)
LEMMA CommonCases ==
    /\ AnalyzeCommon(Condition("Ready", "True")) = Status(Ok)
    /\ AnalyzeCommon(Condition("Ready", "False")) = Status(Error)
    /\ AnalyzeCommon(Condition("PodScheduled", "False")) = Status(Unknown)
    /\ AnalyzeCommon(Condition("Available", "True")) = Status(Unknown)
    /\ AnalyzeCommon(Condition("Progressing", "True")) = StatusProgressing
<1> USE DEF Condition, Matches, CommonConditionsAnalyzer, Analyze, TargetResult
<1>1. AnalyzeCommon(Condition("Ready", "True")) = Status(Ok)
  BY CommonValue
<1>2. AnalyzeCommon(Condition("Ready", "False")) = Status(Error)
  <2> DEFINE c == Condition("Ready", "False")
             a == CommonConditionsAnalyzer
  <2>1. /\ Matches(a, c.type)
        /\ c.status = IF c.type \in a.reversed THEN "True" ELSE "False"
        /\ TargetResult(a, c.type) = Error
    OBVIOUS
  <2>2. (c.type \in a.progressing) = FALSE
    OBVIOUS
  <2>3. Analyze(a, c) = [result |-> Error, progressing |-> FALSE]
    BY <2>1, <2>2
  <2> QED BY <2>1, <2>3, CommonValue DEF Status
<1>3. AnalyzeCommon(Condition("PodScheduled", "False")) = Status(Unknown)
  BY CommonValue
<1>4. AnalyzeCommon(Condition("Available", "True")) = Status(Unknown)
  BY CommonValue
<1>5. AnalyzeCommon(Condition("Progressing", "True")) = StatusProgressing
  BY CommonValue DEF StatusProgressing
<1> QED BY <1>1, <1>2, <1>3, <1>4, <1>5

-----------------------------------------------------------------------------
(* Pods *)

(* A container on its own. *)
LEMMA ContainerType ==
    ASSUME NEW c
    PROVE  /\ analyzeContainer(c) \subseteq Statuses
           /\ AggregateResult({}, analyzeContainer(c)) \in Statuses
<1>1. [result |-> Error, progressing |-> ~c.stale] \in Statuses
  BY ResultsType DEF Statuses
<1>2. analyzeContainer(c) \subseteq Statuses
  BY <1>1, StatusType, ResultsType DEF analyzeContainer
<1> QED BY <1>2, Aggregate

(* The statuses that a pod's status is aggregated from. *)
ContainerStatuses(p) ==
    {AggregateResult({}, s) : s \in {analyzeContainer(c) : c \in p.containers} \ {{}}}
ConditionStatuses(p) ==
    {AnalyzeCommon(c) : c \in p.conditions} \cup podSyntheticConditions(p)

(* PodAnalyzer returns a status. *)
LEMMA PodType ==
    ASSUME NEW p
    PROVE  /\ ContainerStatuses(p) \cup ConditionStatuses(p) \subseteq Statuses
           /\ PodStatus(p) \in Statuses
<1>1. ContainerStatuses(p) \subseteq Statuses
  BY ContainerType DEF ContainerStatuses
<1>2. podSyntheticConditions(p) \subseteq Statuses
  BY StatusType, ResultsType DEF podSyntheticConditions
<1>3. ConditionStatuses(p) \subseteq Statuses
  BY <1>2, CommonType DEF ConditionStatuses
<1>4. AggregateResult(ContainerStatuses(p), ConditionStatuses(p)) \in Statuses
  BY <1>1, <1>3, Aggregate
<1>5. PodStatus(p) = IF Completed(p)
                     THEN [AggregateResult(ContainerStatuses(p), ConditionStatuses(p))
                              EXCEPT !.result = Ok]
                     ELSE AggregateResult(ContainerStatuses(p), ConditionStatuses(p))
  BY DEF PodStatus, ContainerStatuses, ConditionStatuses
<1>6. PodStatus(p) \in Statuses
  BY <1>4, <1>5, ResultsType DEF Statuses
<1> QED BY <1>1, <1>3, <1>6

(* A pod with one container that has one condition. *)
LEMMA OneContainer ==
    ASSUME NEW p, NEW c, NEW r \in Results,
           p.containers = {c}, analyzeContainer(c) = {Status(r)}
    PROVE  ContainerStatuses(p) = {Status(r)}
<1>1. AggregateResult({}, {Status(r)}) = Status(r)
  BY AggregateSame
<1>2. {analyzeContainer(d) : d \in p.containers} \ {{}} = {{Status(r)}}
  OBVIOUS
<1> QED BY <1>1, <1>2 DEF ContainerStatuses

(* The container of a pod that is past scheduling, and what it comes to. *)
LEMMA ShownContainer ==
    /\ \A s \in {"creating", "starting", "backoff", "failed"} :
          ContainerStatuses(Shown(s)) = {Status(Error)}
    /\ \A s \in {"ready", "shutdown", "succeeded"} : ContainerStatuses(Shown(s)) = {Status(Ok)}
    /\ ContainerStatuses(Shown("pending")) = {}
<1> USE DEF Shown, Container, analyzeContainer, Ended
<1>1. ContainerStatuses(Shown("creating")) = {Status(Error)}
  <2> DEFINE c == Container("waiting", FALSE, 0, FALSE)
  <2>1. Shown("creating").containers = {c} /\ analyzeContainer(c) = {Status(Error)}
    OBVIOUS
  <2> HIDE DEF c, Shown
  <2> QED BY <2>1, OneContainer, ResultsType
<1>2. ContainerStatuses(Shown("starting")) = {Status(Error)}
  <2> DEFINE c == Container("running", "starting" = "ready", 0, FALSE)
  <2>1. Shown("starting").containers = {c} /\ analyzeContainer(c) = {Status(Error)}
    OBVIOUS
  <2> HIDE DEF c, Shown
  <2> QED BY <2>1, OneContainer, ResultsType
<1>3. ContainerStatuses(Shown("backoff")) = {Status(Error)}
  <2> DEFINE c == Container("waiting", FALSE, 0, TRUE)
  <2>1. Shown("backoff").containers = {c} /\ analyzeContainer(c) = {Status(Error)}
    OBVIOUS
  <2> HIDE DEF c, Shown
  <2> QED BY <2>1, OneContainer, ResultsType
<1>4. ContainerStatuses(Shown("failed")) = {Status(Error)}
  <2> DEFINE c == Container("terminated", FALSE, 1, FALSE)
  <2>1. Shown("failed").containers = {c} /\ analyzeContainer(c) = {Status(Error)}
    OBVIOUS
  <2> HIDE DEF c, Shown
  <2> QED BY <2>1, OneContainer, ResultsType
<1>5. ContainerStatuses(Shown("ready")) = {Status(Ok)}
  <2> DEFINE c == Container("running", "ready" = "ready", 0, FALSE)
  <2>1. Shown("ready").containers = {c} /\ analyzeContainer(c) = {Status(Ok)}
    OBVIOUS
  <2> HIDE DEF c, Shown
  <2> QED BY <2>1, OneContainer, ResultsType
<1>6. ASSUME NEW s \in {"shutdown", "succeeded"}
      PROVE  ContainerStatuses(Shown(s)) = {Status(Ok)}
  <2> DEFINE c == Container("terminated", FALSE, 0, FALSE)
  <2>1. Shown(s).containers = {c} /\ analyzeContainer(c) = {Status(Ok)}
    OBVIOUS
  <2> HIDE DEF c, Shown
  <2> QED BY <2>1, OneContainer, ResultsType
<1>7. ContainerStatuses(Shown("pending")) = {}
  BY DEF ContainerStatuses
<1> HIDE DEF Shown
<1> QED BY <1>1, <1>2, <1>3, <1>4, <1>5, <1>6, <1>7

(* The conditions of a pod, the synthetic one of an ended pod included. *)
LEMMA ShownConditions ==
    /\ \A s \in PodStates : ConditionStatuses(Shown(s)) \subseteq {Status(r) : r \in Results}
    /\ ConditionStatuses(Shown("ready")) = {Status(Ok)}
    /\ ConditionStatuses(Shown("pending")) = {Status(Unknown)}
<1> USE DEF Shown
<1>1. \A s : podSyntheticConditions(Shown(s)) \subseteq {Status(r) : r \in Results}
  BY ResultsType DEF podSyntheticConditions
<1>2. ASSUME NEW s
      PROVE  {AnalyzeCommon(c) : c \in Shown(s).conditions} \subseteq {Status(r) : r \in Results}
  BY CommonCases, ResultsType
<1>3. ConditionStatuses(Shown("ready")) = {Status(Ok)}
  <2>1. podSyntheticConditions(Shown("ready")) = {}
    BY DEF podSyntheticConditions, Ended
  <2>2. Shown("ready").conditions = {Condition("Ready", "True")}
    OBVIOUS
  <2> HIDE DEF Shown
  <2> QED BY <2>1, <2>2, CommonCases DEF ConditionStatuses
<1>4. ConditionStatuses(Shown("pending")) = {Status(Unknown)}
  <2>1. podSyntheticConditions(Shown("pending")) = {}
    BY DEF podSyntheticConditions, Ended
  <2>2. Shown("pending").conditions = {Condition("PodScheduled", "False")}
    OBVIOUS
  <2> HIDE DEF Shown
  <2> QED BY <2>1, <2>2, CommonCases DEF ConditionStatuses
<1> HIDE DEF Shown
<1> QED BY <1>1, <1>2, <1>3, <1>4 DEF ConditionStatuses

(* Pods that only completed are told from pods that failed. *)
LEMMA ShownCompleted ==
    /\ \A s \in {"shutdown", "succeeded"} : Completed(Shown(s))
    /\ \A s \in PodStates \ {"shutdown", "succeeded"} : ~Completed(Shown(s))
<1>1. ASSUME NEW s \in {"shutdown", "succeeded"} PROVE Completed(Shown(s))
  <2> DEFINE c == Container("terminated", FALSE, 0, FALSE)
  <2>1. Shown(s).containers = {c} /\ ExitedZero(c)
    BY DEF Shown, Ended, Container, ExitedZero
  <2>2. Shown(s).phase \in {"Succeeded", "Failed"}
    BY DEF Shown
  <2> HIDE DEF c
  <2> QED BY <2>1, <2>2 DEF Completed
<1>2. ~Completed(Shown("failed"))
  <2> DEFINE c == Container("terminated", FALSE, 1, FALSE)
  <2>1. Shown("failed").containers = {c} /\ ~ExitedZero(c)
    BY DEF Shown, Ended, Container, ExitedZero
  <2> HIDE DEF c
  <2> QED BY <2>1 DEF Completed
<1>3. ASSUME NEW s \in PodStates \ Ended PROVE ~Completed(Shown(s))
  <2>1. Shown(s).phase \in {"Pending", "Running"}
    BY DEF Shown, PodStates, Active, Ended
  <2> QED BY <2>1 DEF Completed
<1> QED BY <1>1, <1>2, <1>3 DEF PodStates, Active, Ended

(***************************************************************************)
(* PodAnalyzer: a pod that serves or ended well is Ok, one that is being   *)
(* created, restarted or has failed is an Error, and no pod is reported as *)
(* progressing.                                                            *)
(***************************************************************************)
LEMMA PodCases ==
    /\ \A s \in {"creating", "starting", "backoff", "failed"} : PodStatus(Shown(s)).result = Error
    /\ \A s \in {"ready", "shutdown", "succeeded"} : PodStatus(Shown(s)) = Status(Ok)
    /\ \A s \in PodStates \ {"gone"} : ~PodStatus(Shown(s)).progressing
<1> DEFINE C(s) == ContainerStatuses(Shown(s))
           D(s) == ConditionStatuses(Shown(s))
           A(s) == AggregateResult(C(s), D(s))
<1> USE DEF PodStates, Active, Ended
<1>1. \A s : C(s) \cup D(s) \subseteq Statuses
  BY PodType
<1>2. \A s : PodStatus(Shown(s)) = IF Completed(Shown(s)) THEN [A(s) EXCEPT !.result = Ok] ELSE A(s)
  BY DEF PodStatus, ContainerStatuses, ConditionStatuses
<1>3. \A s : A(s) \in Statuses
  BY <1>1, Aggregate
<1>4. ASSUME NEW s \in PodStates \ {"gone"} PROVE ~A(s).progressing
  <2>1. C(s) \cup D(s) \subseteq {Status(r) : r \in Results}
    BY ShownContainer, ShownConditions, ResultsType
  <2>2. \A t \in C(s) \cup D(s) : ~t.progressing
    BY <2>1, StatusType
  <2> HIDE DEF C, D
  <2> QED BY <1>1, <2>2, Aggregate
<1>5. ASSUME NEW s \in PodStates \ {"gone"} PROVE ~PodStatus(Shown(s)).progressing
  <2> HIDE DEF A
  <2> QED BY <1>2, <1>3, <1>4 DEF Statuses
<1>6. ASSUME NEW s \in {"creating", "starting", "backoff", "failed"}
      PROVE  PodStatus(Shown(s)).result = Error
  <2>1. Status(Error) \in C(s) \cup D(s) /\ Status(Error).result = Error
    BY ShownContainer, StatusType, ResultsType
  <2>2. A(s).result = Error
    BY <1>1, <2>1, AggregateError
  <2> QED BY <1>2, <2>2, ShownCompleted
<1>7. PodStatus(Shown("ready")) = Status(Ok)
  <2>1. C("ready") = {Status(Ok)} /\ D("ready") = {Status(Ok)}
    BY ShownContainer, ShownConditions
  <2>2. A("ready") = Status(Ok)
    BY <2>1, AggregateSame, ResultsType
  <2> QED BY <1>2, <2>2, ShownCompleted
<1>8. ASSUME NEW s \in {"shutdown", "succeeded"} PROVE PodStatus(Shown(s)) = Status(Ok)
  <2>1. PodStatus(Shown(s)) = [A(s) EXCEPT !.result = Ok]
    BY <1>2, ShownCompleted
  <2> HIDE DEF A
  <2>2. PodStatus(Shown(s)) \in Statuses /\ PodStatus(Shown(s)).result = Ok
    BY <1>3, <2>1, ResultsType DEF Statuses
  <2> QED BY <2>2, <1>5, StatusEqual
<1> HIDE DEF A, C, D
<1> QED BY <1>5, <1>6, <1>7, <1>8

-----------------------------------------------------------------------------
(* ReplicaSets *)

(* A ReplicaSet as its controller counts it: a ready pod is one of its pods. *)
CountedSets == {r \in ReplicaSets : r.ready <= r.replicas}

(* The statuses that come with a ReplicaSet besides those of its pods. *)
LEMMA SyntheticType ==
    ASSUME NEW r
    PROVE  replicaSetSyntheticConditions(r) \subseteq {Status(Error), Status(Ok)}
BY DEF replicaSetSyntheticConditions

(***************************************************************************)
(* ReplicaSetAnalyzer: a pod in error shows; a ReplicaSet that wants pods  *)
(* is at least Ok, and an Error unless it has them all; it is progressing  *)
(* only if a pod is.                                                       *)
(***************************************************************************)
LEMMA ReplicaSetCases ==
    ASSUME NEW r \in CountedSets, NEW subs, subs \subseteq Statuses,
           \A s \in subs : ~s.progressing
    PROVE  /\ ReplicaSetStatus(r, subs) \in Statuses
           /\ ~ReplicaSetStatus(r, subs).progressing
           /\ \A s \in subs : s.result = Error => ReplicaSetStatus(r, subs).result = Error
           /\ r.spec > 0 => /\ ReplicaSetStatus(r, subs).result >= Ok
                            /\ ReplicaSetStatus(r, subs).result # Error => r.ready = r.spec
<1> DEFINE conds == replicaSetSyntheticConditions(r)
           st == ReplicaSetStatus(r, subs)
<1>1. r.conditions = {} /\ r.spec \in Nat /\ r.ready \in Nat /\ r.replicas \in Nat
      /\ r.ready <= r.replicas
  <2>1. r.conditions = {} /\ r.ready <= r.replicas
    BY DEF CountedSets, ReplicaSets
  <2>2. r.spec \in 0..MaxReplicas /\ r.ready \in 0..Cardinality(Slots)
        /\ r.replicas \in 0..Cardinality(Slots)
    BY DEF CountedSets, ReplicaSets
  <2> QED BY <2>1, <2>2, BoundsAssumption
<1>2. {replicaSetConditionAnalyzer(c) : c \in r.conditions} = {}
  BY <1>1
<1>3. st = AggregateResult(subs, conds)
  BY <1>2 DEF ReplicaSetStatus
<1>4. conds \subseteq Statuses /\ \A s \in conds : ~s.progressing
  BY SyntheticType, StatusType, ResultsType
<1>5. st \in Statuses /\ ~st.progressing
  BY <1>3, <1>4, Aggregate
<1>6. ASSUME NEW s \in subs, s.result = Error PROVE st.result = Error
  BY <1>3, <1>4, <1>6, AggregateError
<1>7. ASSUME r.spec > 0 PROVE st.result >= Ok /\ (st.result # Error => r.ready = r.spec)
  <2>1. CASE Status(Error) \in conds
    <3>1. st.result = Error
      BY <1>3, <1>4, <2>1, AggregateError, StatusType, ResultsType
    <3> QED BY <3>1 DEF Error, Ok
  <2>2. CASE Status(Error) \notin conds
    <3>1. r.ready = r.spec
      BY <1>1, <2>2 DEF replicaSetSyntheticConditions
    <3>2. Status(Ok) \in conds
      BY <3>1 DEF replicaSetSyntheticConditions
    <3>3. Ok <= st.result
      BY <1>3, <1>4, <3>2, Aggregate, StatusType, ResultsType
    <3>4. st.result \in Nat
      BY <1>5, ResultsType DEF Statuses
    <3> QED BY <3>1, <3>3, <3>4 DEF Ok
  <2> QED BY <2>1, <2>2
<1> HIDE DEF st
<1>8. st = ReplicaSetStatus(r, subs)
  BY DEF st
<1> QED BY <1>5, <1>6, <1>7, <1>8

(* A ReplicaSet that has exactly what it wants, and whose pods are Ok. *)
LEMMA ReplicaSetOk ==
    ASSUME NEW r \in CountedSets, NEW subs, subs \subseteq {Status(Ok)},
           r.labeled = r.spec, r.available = r.spec, r.ready = r.spec, r.replicas = r.spec
    PROVE  ReplicaSetStatus(r, subs) = Status(Ok)
<1>1. r.spec \in Nat /\ r.conditions = {}
  BY BoundsAssumption DEF CountedSets, ReplicaSets
<1>2. replicaSetSyntheticConditions(r) = {Status(Ok)}
  BY <1>1 DEF replicaSetSyntheticConditions
<1>3. {replicaSetConditionAnalyzer(c) : c \in r.conditions} = {}
  BY <1>1
<1>4. ReplicaSetStatus(r, subs) = AggregateResult(subs, {Status(Ok)})
  BY <1>2, <1>3 DEF ReplicaSetStatus
<1> QED BY <1>4, AggregateSame, ResultsType

-----------------------------------------------------------------------------
(* Deployments *)

(* The conditions that the Deployment controller sets. *)
DeadlineExceeded ==
    [type |-> "Progressing", status |-> "False", reason |-> "ProgressDeadlineExceeded"]
DeploymentConditions ==
    { Condition("Available", "True"), Condition("Available", "False"),
      Condition("Progressing", "True"), DeadlineExceeded }

(* The ReplicaSets of a list with the statuses that the listed pods give them. *)
SubsOf(sets, listed) ==
    UNION {{[spec |-> r.spec, status |-> ReplicaSetStatus(r, {PodStatus(Shown(p)) : p \in listed[v]})] :
               r \in sets[v]} : v \in Revisions}

(* Pods that are not fine, and that an analyzer calls an Error. *)
Bad == {"creating", "starting", "backoff", "failed"}

(* What DeploymentAnalyzer makes of a condition of the controller. *)
LEMMA DeploymentConditionCases ==
    /\ deploymentConditionAnalyzer(Condition("Available", "True")) = Status(Unknown)
    /\ deploymentConditionAnalyzer(Condition("Available", "False")) = Status(Error)
    /\ deploymentConditionAnalyzer(Condition("Progressing", "True")) = StatusProgressing
    /\ deploymentConditionAnalyzer(DeadlineExceeded) = Status(Error)
<1>1. deploymentConditionAnalyzer(Condition("Available", "True")) = Status(Unknown)
  <2> DEFINE c == Condition("Available", "True")
  <2>1. c.type = "Available" /\ c.status = "True"
    BY DEF Condition
  <2> HIDE DEF c
  <2>2. deploymentConditionAnalyzer(c) = AnalyzeCommon(c)
    BY <2>1 DEF deploymentConditionAnalyzer
  <2> QED BY <2>2, CommonCases DEF c
<1>2. deploymentConditionAnalyzer(Condition("Available", "False")) = Status(Error)
  BY DEF deploymentConditionAnalyzer, Condition
<1>3. deploymentConditionAnalyzer(Condition("Progressing", "True")) = StatusProgressing
  <2> DEFINE c == Condition("Progressing", "True")
  <2>1. c.type = "Progressing" /\ c.reason = "none"
    BY DEF Condition
  <2> HIDE DEF c
  <2>2. deploymentConditionAnalyzer(c) = AnalyzeCommon(c)
    BY <2>1 DEF deploymentConditionAnalyzer
  <2> QED BY <2>2, CommonCases DEF c
<1>4. deploymentConditionAnalyzer(DeadlineExceeded) = Status(Error)
  BY DEF deploymentConditionAnalyzer, DeadlineExceeded
<1> QED BY <1>1, <1>2, <1>3, <1>4

(* A ReplicaSet with its status, as ReplicaSetCases describes it. *)
LEMMA SubCases ==
    ASSUME NEW sets, \A v \in Revisions : sets[v] \subseteq CountedSets,
           NEW listed, \A v \in Revisions : listed[v] \subseteq PodStates \ {"gone"}
    PROVE  /\ \A s \in SubsOf(sets, listed) :
                 /\ s.status \in Statuses
                 /\ ~s.status.progressing
                 /\ s.spec # 0 => s.status.result >= Ok
           /\ \A v \in Revisions : \A r \in sets[v] : \E s \in SubsOf(sets, listed) :
                 /\ s.spec = r.spec
                 /\ listed[v] \cap Bad # {} => s.status.result = Error
                 /\ r.spec > 0 /\ s.status.result # Error => r.ready = r.spec
<1> DEFINE P(v) == {PodStatus(Shown(p)) : p \in listed[v]}
           S(v, r) == [spec |-> r.spec, status |-> ReplicaSetStatus(r, P(v))]
<1>1. ASSUME NEW v \in Revisions
      PROVE  P(v) \subseteq Statuses /\ \A s \in P(v) : ~s.progressing
  BY PodType, PodCases
<1>2. ASSUME NEW v \in Revisions, NEW r \in sets[v]
      PROVE  /\ ReplicaSetStatus(r, P(v)) \in Statuses
             /\ ~ReplicaSetStatus(r, P(v)).progressing
             /\ \A s \in P(v) : s.result = Error => ReplicaSetStatus(r, P(v)).result = Error
             /\ r.spec > 0 => /\ ReplicaSetStatus(r, P(v)).result >= Ok
                              /\ ReplicaSetStatus(r, P(v)).result # Error => r.ready = r.spec
  <2>1. r \in CountedSets
    OBVIOUS
  <2> HIDE DEF P
  <2> QED BY <1>1, <2>1, ReplicaSetCases
<1>3. ASSUME NEW v \in Revisions, NEW r \in sets[v], listed[v] \cap Bad # {}
      PROVE  ReplicaSetStatus(r, P(v)).result = Error
  <2>1. PICK p \in listed[v] : p \in Bad
    BY <1>3
  <2>2. PodStatus(Shown(p)) \in P(v) /\ PodStatus(Shown(p)).result = Error
    BY <2>1, PodCases DEF Bad
  <2> HIDE DEF P
  <2> QED BY <1>2, <2>2
<1>4. ASSUME NEW s \in SubsOf(sets, listed)
      PROVE  \E v \in Revisions : \E r \in sets[v] : s = S(v, r)
  BY DEF SubsOf
<1>5. ASSUME NEW v \in Revisions, NEW r \in sets[v]
      PROVE  S(v, r) \in SubsOf(sets, listed)
  <2>1. SubsOf(sets, listed) = UNION {{S(w, q) : q \in sets[w]} : w \in Revisions}
    BY DEF SubsOf
  <2> HIDE DEF S
  <2> QED BY <2>1
<1>6. \A v \in Revisions : \A r \in sets[v] :
          r.spec \in Nat /\ S(v, r).spec = r.spec /\ S(v, r).status = ReplicaSetStatus(r, P(v))
  <2>1. ASSUME NEW v \in Revisions, NEW r \in sets[v] PROVE r.spec \in Nat
    <3>1. r.spec \in 0..MaxReplicas
      BY DEF CountedSets, ReplicaSets
    <3> QED BY <3>1, BoundsAssumption
  <2> QED BY <2>1
<1> HIDE DEF S, P
<1>7. ASSUME NEW s \in SubsOf(sets, listed)
      PROVE  /\ s.status \in Statuses
             /\ ~s.status.progressing
             /\ s.spec # 0 => s.status.result >= Ok
  <2>1. PICK v \in Revisions : \E r \in sets[v] : s = S(v, r)
    BY <1>4
  <2> PICK r \in sets[v] : s = S(v, r)
    BY <2>1
  <2>2. s.spec = r.spec /\ s.status = ReplicaSetStatus(r, P(v)) /\ r.spec \in Nat
    BY <1>6, <2>1
  <2> QED BY <1>2, <2>2
<1> QED BY <1>2, <1>3, <1>5, <1>6, <1>7

(* StatusProgressing is a status that is progressing. *)
LEMMA ProgressingType ==
    /\ StatusProgressing \in Statuses
    /\ StatusProgressing.result = Unknown /\ StatusProgressing.progressing
BY ResultsType DEF StatusProgressing, Statuses

(***************************************************************************)
(* DeploymentAnalyzer: the status is no better than that of any ReplicaSet *)
(* that wants pods.  When it is Ok it is not progressing: the Progressing  *)
(* condition counts as long as some such ReplicaSet is not Ok, and then    *)
(* the result is worse than Ok, or there is none and nothing can be Ok.    *)
(***************************************************************************)
LEMMA DeploymentCases ==
    ASSUME NEW conds, conds \subseteq DeploymentConditions, NEW subs,
           \A s \in subs : /\ s.status \in Statuses
                           /\ ~s.status.progressing
                           /\ s.spec # 0 => s.status.result >= Ok
    PROVE  /\ DeploymentStatus(conds, subs) \in Statuses
           /\ \A s \in subs : s.spec # 0 => s.status.result <= DeploymentStatus(conds, subs).result
           /\ DeploymentStatus(conds, subs).result = Ok => ~DeploymentStatus(conds, subs).progressing
<1> DEFINE live == {s \in subs : s.spec # 0}
           precise(c) == IF c.type = "Progressing" /\ AllDone(live)
                         THEN Status(Ok)
                         ELSE deploymentConditionAnalyzer(c)
           L == {s.status : s \in live}
           C == {precise(c) : c \in conds}
           D == DeploymentStatus(conds, subs)
<1>1. D = AggregateResult(L, C)
  BY DEF DeploymentStatus
<1>2. ASSUME NEW c \in conds
      PROVE  /\ precise(c) \in {Status(Unknown), Status(Ok), Status(Error), StatusProgressing}
             /\ AllDone(live) => precise(c) # StatusProgressing
             /\ ~AllDone(live) => precise(c) # Status(Ok)
  <2>1. /\ Status(Ok) # StatusProgressing /\ Status(Unknown) # StatusProgressing
        /\ Status(Error) # StatusProgressing /\ Status(Ok) # Status(Unknown)
        /\ Status(Ok) # Status(Error)
    BY StatusType, ProgressingType, ResultsType DEF Unknown, Ok, Error
  <2>2. CASE c.type = "Progressing" /\ AllDone(live)
    BY <2>1, <2>2
  <2>3. CASE ~(c.type = "Progressing" /\ AllDone(live))
    <3>1. precise(c) = deploymentConditionAnalyzer(c)
      BY <2>3
    <3> HIDE DEF precise, live
    <3>2. CASE c = Condition("Available", "True") \/ c = Condition("Available", "False")
      BY <3>1, <3>2, <2>1, DeploymentConditionCases
    <3>3. CASE c = Condition("Progressing", "True") \/ c = DeadlineExceeded
      <4>1. c.type = "Progressing"
        BY <3>3 DEF Condition, DeadlineExceeded
      <4> QED BY <3>1, <3>3, <4>1, <2>1, <2>3, DeploymentConditionCases
    <3> QED BY <3>2, <3>3 DEF DeploymentConditions
  <2> QED BY <2>2, <2>3
<1> HIDE DEF precise
<1>3. C \subseteq Statuses
  BY <1>2, StatusType, ProgressingType, ResultsType
<1>4. L \subseteq Statuses /\ \A s \in L : ~s.progressing
  OBVIOUS
<1>5. /\ D \in Statuses
      /\ \A s \in L \cup C : s.result <= D.result
      /\ D.result = Unknown \/ \E s \in L \cup C : D.result = s.result
      /\ D.progressing <=> \E s \in L \cup C : s.progressing
  <2> HIDE DEF L, C, D
  <2> QED BY <1>1, <1>3, <1>4, Aggregate
<1>6. ASSUME NEW s \in subs, s.spec # 0 PROVE s.status.result <= D.result
  <2>1. s.status \in L
    BY <1>6
  <2> HIDE DEF L, C, D
  <2> QED BY <1>5, <2>1
<1>7. ASSUME D.result = Ok, D.progressing PROVE FALSE
  <2>1. ~AllDone(live)
    <3>1. PICK s \in C : s.progressing
      <4> HIDE DEF L, C, D
      <4> QED BY <1>4, <1>5, <1>7
    <3>2. s = StatusProgressing
      BY <1>2, <3>1, StatusType, ResultsType
    <3> QED BY <1>2, <3>1, <3>2
  <2>2. \A s \in C : s.result # Ok
    BY <1>2, <2>1, StatusType, ProgressingType, ResultsType DEF Unknown, Ok, Error
  <2>3. live # {}
    <3> SUFFICES ASSUME live = {} PROVE FALSE
      OBVIOUS
    <3>1. L = {}
      OBVIOUS
    <3> HIDE DEF L, C, D, live
    <3> QED BY <1>5, <1>7, <2>2, <3>1 DEF Unknown, Ok
  <2>4. PICK s \in live : s.status.result # Ok
    BY <2>1, <2>3 DEF AllDone
  <2>5. s.status.result \in Nat /\ s.status.result >= Ok /\ s.status.result <= D.result
    BY <1>6, ResultsType DEF Statuses
  <2> HIDE DEF D, live
  <2> QED BY <1>7, <2>4, <2>5 DEF Ok
<1> HIDE DEF D
<1>8. D = DeploymentStatus(conds, subs)
  BY DEF D
<1> QED BY <1>5, <1>6, <1>7, <1>8

(* A finished rollout whose ReplicaSets are Ok. *)
LEMMA DeploymentOk ==
    ASSUME NEW subs, \A s \in subs : s.spec # 0 => s.status = Status(Ok),
           \E s \in subs : s.spec # 0
    PROVE  DeploymentStatus({Condition("Available", "True"), Condition("Progressing", "True")}, subs)
               = Status(Ok)
<1> DEFINE live == {s \in subs : s.spec # 0}
           conds == {Condition("Available", "True"), Condition("Progressing", "True")}
           precise(c) == IF c.type = "Progressing" /\ AllDone(live)
                         THEN Status(Ok)
                         ELSE deploymentConditionAnalyzer(c)
           L == {s.status : s \in live}
           C == {precise(c) : c \in conds}
<1>1. AllDone(live)
  BY StatusType, ResultsType DEF AllDone
<1>2. precise(Condition("Progressing", "True")) = Status(Ok)
  <2>1. Condition("Progressing", "True").type = "Progressing"
    BY DEF Condition
  <2> QED BY <1>1, <2>1
<1>3. precise(Condition("Available", "True")) = Status(Unknown)
  <2>1. Condition("Available", "True").type = "Available"
    BY DEF Condition
  <2> QED BY <2>1, DeploymentConditionCases
<1>4. C = {Status(Ok), Status(Unknown)}
  <2> HIDE DEF precise
  <2> QED BY <1>2, <1>3
<1>5. L = {Status(Ok)}
  OBVIOUS
<1>6. DeploymentStatus(conds, subs) = AggregateResult(L, C)
  BY DEF DeploymentStatus
<1> HIDE DEF L, C
<1> QED BY <1>4, <1>5, <1>6, AggregateSame, ResultsType

-----------------------------------------------------------------------------
(* The pods that a list returns now. *)
Listed == [v \in Revisions |-> {pods[v][s] : s \in Slots} \ {"gone"}]

(***************************************************************************)
(* What the cluster keeps up: the counters of a ReplicaSet are of one      *)
(* count, also in the copies the analyzer got, and a Deployment has no     *)
(* conditions but those its controller sets.                               *)
(***************************************************************************)
ClusterInv ==
    /\ rs \in [Revisions -> SUBSET CountedSets]
    /\ gotRS \in [Revisions -> SUBSET CountedSets]
    /\ spec.revision <= spec.generation
    /\ status \in [observed : Nat, conditions : SUBSET DeploymentConditions]
    /\ gotConds \subseteq DeploymentConditions

ReportInv == TroubleReachesTop /\ OkMeansDone

(***************************************************************************)
(* While nothing has changed since the Deployment was got, what the        *)
(* analyzer holds is what the cluster has, and a report that is made is    *)
(* the one that the present state of the cluster gives.                    *)
(***************************************************************************)
QuietInv ==
    quiet =>
        /\ pc \in {"listRS", "listPods"} => gotConds = status.conditions
        /\ pc = "listPods" => gotRS = rs
        /\ pc = "reported" => report = DeploymentStatus(status.conditions, SubsOf(rs, Listed))

Inv == TypeOK /\ ClusterInv /\ ReportInv /\ QuietInv

(* A count of pods is at most the number of slots; ready pods are active. *)
LEMMA CountType ==
    ASSUME NEW v
    PROVE  /\ \A states : Count(v, states) \in 0..Cardinality(Slots)
           /\ Count(v, {"ready"}) <= Count(v, Active)
<1> DEFINE P(states) == {s \in Slots : pods[v][s] \in states}
<1>1. IsFiniteSet(Slots)
  BY BoundsAssumption
<1>2. ASSUME NEW states
      PROVE  IsFiniteSet(P(states)) /\ Cardinality(P(states)) \in 0..Cardinality(Slots)
  <2>1. P(states) \subseteq Slots
    OBVIOUS
  <2> HIDE DEF P
  <2>2. IsFiniteSet(P(states)) /\ Cardinality(P(states)) <= Cardinality(Slots)
    BY <1>1, <2>1, FS_Subset
  <2> QED BY <1>1, <2>2, FS_CardinalityType
<1>3. Cardinality(P({"ready"})) <= Cardinality(P(Active))
  <2>1. P({"ready"}) \subseteq P(Active)
    BY DEF Active
  <2> HIDE DEF P
  <2> QED BY <1>2, <2>1, FS_Subset
<1> QED BY <1>2, <1>3 DEF Count

(* The invariant holds before the first evaluation. *)
LEMMA InitInv == Init => Inv
<1> SUFFICES ASSUME Init PROVE Inv
  OBVIOUS
<1>1. 1 \in Revisions
  BY BoundsAssumption DEF Revisions
<1>2. PICK n \in 0..MaxReplicas : spec = [generation |-> 1, replicas |-> n, revision |-> 1]
  BY DEF Init
<1>3. /\ spec \in [generation : 1..MaxGeneration, replicas : 0..MaxReplicas, revision : Revisions]
      /\ spec.generation = 1 /\ spec.revision = 1
  BY <1>1, <1>2 DEF Revisions
<1>4. status.observed \in 0..spec.generation /\ mishaps \in 0..MaxMishaps
  BY <1>3, BoundsAssumption DEF Init
<1>5. /\ quiet \in BOOLEAN /\ trouble \in BOOLEAN /\ report \in Statuses
      /\ pods \in [Revisions -> [Slots -> PodStates]]
  BY StatusType, ResultsType DEF Init, PodStates
<1>6. ClusterInv
  BY <1>3 DEF Init, ClusterInv
<1>7. TypeOK
  <2>1. \A v \in Revisions : \A r \in rs[v] \cup gotRS[v] : r \in ReplicaSets
    BY DEF Init
  <2> QED BY <1>3, <1>4, <1>5, <2>1 DEF Init, TypeOK
<1>8. ReportInv /\ QuietInv
  BY DEF Init, ReportInv, QuietInv, TroubleReachesTop, OkMeansDone
<1> QED BY <1>6, <1>7, <1>8 DEF Inv

(***************************************************************************)
(* A step of the cluster leaves the analyzer alone and ends the quiet, so  *)
(* only the types and the cluster's own part of the invariant remain.      *)
(***************************************************************************)
LEMMA ClusterFrame ==
    ASSUME Inv, UNCHANGED analyzerVars, quiet' = FALSE,
           spec' \in [generation : 1..MaxGeneration, replicas : 0..MaxReplicas, revision : Revisions],
           spec'.revision <= spec'.generation,
           status' \in [observed : Nat, conditions : SUBSET DeploymentConditions],
           status'.observed \in 0..spec'.generation,
           rs' \in [Revisions -> SUBSET CountedSets],
           pods' \in [Revisions -> [Slots -> PodStates]],
           mishaps' \in 0..MaxMishaps
    PROVE  Inv'
<1> USE DEF analyzerVars
<1>1. ClusterInv'
  BY DEF Inv, ClusterInv
<1>2. TypeOK'
  <2>1. \A v \in Revisions : \A r \in rs'[v] \cup gotRS'[v] : r \in ReplicaSets
    BY DEF Inv, ClusterInv, CountedSets
  <2>2. quiet' \in BOOLEAN /\ trouble' \in BOOLEAN
    BY DEF Inv, TypeOK
  <2> QED BY <2>1, <2>2 DEF Inv, TypeOK
<1>3. ReportInv'
  BY DEF Inv, ReportInv, TroubleReachesTop, OkMeansDone
<1>4. QuietInv'
  BY DEF QuietInv
<1> QED BY <1>1, <1>2, <1>3, <1>4 DEF Inv

(* The user edits the Deployment. *)
LEMMA EditStep == ASSUME Inv, Edit PROVE Inv'
<1> DEFINE Specs == [generation : 1..MaxGeneration, replicas : 0..MaxReplicas, revision : Revisions]
<1>1. /\ spec \in Specs /\ status.observed \in 0..spec.generation
      /\ spec.revision <= spec.generation /\ spec.generation < MaxGeneration
  BY DEF Inv, TypeOK, ClusterInv, Edit
<1>2. /\ spec.generation \in 1..MaxGeneration /\ spec.replicas \in 0..MaxReplicas
      /\ spec.revision \in 1..MaxGeneration
  BY <1>1 DEF Revisions
<1>3. /\ spec.generation + 1 \in 1..MaxGeneration /\ spec.revision + 1 \in Revisions
      /\ spec.revision + 1 <= spec.generation + 1 /\ spec.revision <= spec.generation + 1
      /\ status.observed \in 0..(spec.generation + 1)
  BY <1>1, <1>2, BoundsAssumption DEF Revisions
<1>4. /\ spec' \in Specs /\ spec'.revision <= spec'.generation
      /\ spec'.generation = spec.generation + 1
  <2>1. CASE \E n \in 0 .. MaxReplicas \ {spec.replicas} :
                spec' = [spec EXCEPT !.generation = @ + 1, !.replicas = n]
    <3> PICK n \in 0..MaxReplicas :
              spec' = [spec EXCEPT !.generation = spec.generation + 1, !.replicas = n]
      BY <2>1
    <3> QED BY <1>1, <1>3
  <2>2. CASE spec' = [spec EXCEPT !.generation = @ + 1, !.revision = @ + 1]
    BY <1>1, <1>3, <2>2
  <2> QED BY <2>1, <2>2 DEF Edit
<1>5. status'.observed \in 0..spec'.generation
  BY <1>3, <1>4 DEF Edit
<1> HIDE DEF Specs
<1>6. UNCHANGED <<status, rs, pods, mishaps, analyzerVars>> /\ quiet' = FALSE
  BY DEF Edit, analyzerVars
<1>7. spec' \in [generation : 1..MaxGeneration, replicas : 0..MaxReplicas, revision : Revisions]
  BY <1>4 DEF Specs
<1> QED BY <1>4, <1>5, <1>6, <1>7, ClusterFrame DEF Inv, ClusterInv, TypeOK

(* The Deployment controller creates or scales the current ReplicaSet. *)
LEMMA ObserveStep == ASSUME Inv, Observe PROVE Inv'
<1> DEFINE old == rs[spec.revision]
           fresh == [spec |-> 0, replicas |-> 0, labeled |-> 0, available |-> 0, ready |-> 0,
                     conditions |-> {}]
           new == {[r EXCEPT !.spec = spec.replicas] : r \in IF old = {} THEN {fresh} ELSE old}
<1>1. /\ spec.revision \in Revisions /\ spec.replicas \in 0..MaxReplicas
      /\ spec.generation \in Nat /\ rs \in [Revisions -> SUBSET CountedSets]
  BY DEF Inv, TypeOK, ClusterInv
<1>2. fresh \in CountedSets
  <2>1. 0 \in 0..Cardinality(Slots) /\ 0 \in 0..MaxReplicas
    BY BoundsAssumption, FS_CardinalityType
  <2> QED BY <2>1 DEF CountedSets, ReplicaSets
<1>3. (IF old = {} THEN {fresh} ELSE old) \subseteq CountedSets
  <2> HIDE DEF fresh
  <2> QED BY <1>1, <1>2
<1>4. \A r \in CountedSets : [r EXCEPT !.spec = spec.replicas] \in CountedSets
  BY <1>1 DEF CountedSets, ReplicaSets
<1>5. new \subseteq CountedSets
  <2> HIDE DEF old, fresh
  <2> QED BY <1>3, <1>4
<1>6. rs' = [rs EXCEPT ![spec.revision] = new]
  BY DEF Observe
<1>7. rs' \in [Revisions -> SUBSET CountedSets]
  <2> HIDE DEF new
  <2> QED BY <1>1, <1>5, <1>6
<1>8. /\ status' \in [observed : Nat, conditions : SUBSET DeploymentConditions]
      /\ status'.observed \in 0..spec'.generation
  BY <1>1 DEF Observe, Inv, ClusterInv
<1> HIDE DEF new
<1> QED BY <1>7, <1>8, ClusterFrame DEF Observe, Inv, ClusterInv, TypeOK

(* It scales the other ReplicaSets down. *)
LEMMA ScaleDownStep == ASSUME Inv, NEW v \in Revisions, ScaleDown(v) PROVE Inv'
<1>1. \A r \in CountedSets : [r EXCEPT !.spec = 0] \in CountedSets
  BY BoundsAssumption DEF CountedSets, ReplicaSets
<1>2. rs' \in [Revisions -> SUBSET CountedSets]
  BY <1>1 DEF ScaleDown, Inv, ClusterInv
<1> QED BY <1>2, ClusterFrame DEF ScaleDown, Inv, ClusterInv, TypeOK

(* It sets the conditions of the Deployment. *)
LEMMA ConditionsStep == ASSUME Inv, SetConditions PROVE Inv'
<1>1. \A late \in BOOLEAN : TrueConditions(late) \subseteq DeploymentConditions
  BY DEF TrueConditions, DeploymentConditions, DeadlineExceeded
<1>2. PICK late \in BOOLEAN : status' = [status EXCEPT !.conditions = TrueConditions(late)]
  BY DEF SetConditions
<1>3. /\ status' \in [observed : Nat, conditions : SUBSET DeploymentConditions]
      /\ status'.observed = status.observed
  BY <1>1, <1>2 DEF Inv, ClusterInv
<1> QED BY <1>3, ClusterFrame DEF SetConditions, Inv, ClusterInv, TypeOK

(* The ReplicaSet controller counts. *)
LEMMA CountStep == ASSUME Inv, NEW v \in Revisions, CountPods(v) PROVE Inv'
<1>1. \A r \in CountedSets : Counted(v, r) \in CountedSets
  <2> DEFINE a == Count(v, Active)
             b == Count(v, {"ready"})
  <2>1. a \in 0..Cardinality(Slots) /\ b \in 0..Cardinality(Slots) /\ b <= a
    BY CountType
  <2> HIDE DEF a, b
  <2> SUFFICES ASSUME NEW r \in CountedSets
               PROVE  [r EXCEPT !.replicas = a, !.labeled = a, !.available = b, !.ready = b]
                          \in CountedSets
    BY DEF Counted, a, b
  <2> QED BY <2>1 DEF CountedSets, ReplicaSets
<1>2. rs' \in [Revisions -> SUBSET CountedSets]
  BY <1>1 DEF CountPods, Inv, ClusterInv
<1> QED BY <1>2, ClusterFrame DEF CountPods, Inv, ClusterInv, TypeOK

(* A pod is created or deleted, gets better or worse. *)
LEMMA PodStep ==
    ASSUME Inv, NEW v \in Revisions, NEW s \in Slots,
           CreatePod(v, s) \/ DeletePod(v, s) \/ PodImproves(v, s) \/ PodWorsens(v, s)
    PROVE  Inv'
<1>1. ASSUME NEW new \in PodStates
      PROVE  [pods EXCEPT ![v][s] = new] \in [Revisions -> [Slots -> PodStates]]
  BY DEF Inv, TypeOK
<1>2. \A p : Better(p) \subseteq PodStates /\ Worse(p) \subseteq PodStates
  BY DEF Better, Worse, PodStates, Active, Ended
<1>3. pods' \in [Revisions -> [Slots -> PodStates]]
  <2>1. "pending" \in PodStates /\ "gone" \in PodStates
    BY DEF PodStates, Active
  <2> QED BY <1>1, <1>2, <2>1 DEF CreatePod, DeletePod, PodImproves, PodWorsens
<1>4. mishaps' \in 0..MaxMishaps
  BY BoundsAssumption DEF CreatePod, DeletePod, PodImproves, PodWorsens, Inv, TypeOK
<1>5. UNCHANGED <<spec, status, rs, analyzerVars>> /\ quiet' = FALSE
  BY DEF CreatePod, DeletePod, PodImproves, PodWorsens, analyzerVars
<1> QED BY <1>3, <1>4, <1>5, ClusterFrame DEF Inv, ClusterInv, TypeOK

(* A step of the cluster. *)
LEMMA ClusterStep == ASSUME Inv, Cluster PROVE Inv'
BY EditStep, ObserveStep, ConditionsStep, ScaleDownStep, CountStep, PodStep DEF Cluster

(* The first call: the Deployment itself. *)
LEMMA GetStep == ASSUME Inv, GetDeployment PROVE Inv'
<1> USE DEF GetDeployment, clusterVars
<1>1. ClusterInv'
  BY DEF Inv, ClusterInv
<1>2. TypeOK'
  <2>1. \A v \in Revisions : \A r \in rs'[v] \cup gotRS'[v] : r \in ReplicaSets
    BY DEF Inv, TypeOK
  <2>2. report' \in Statuses
    BY StatusType, ResultsType
  <2>3. quiet' \in BOOLEAN /\ trouble' \in BOOLEAN
    OBVIOUS
  <2> QED BY <2>1, <2>2, <2>3 DEF Inv, TypeOK
<1>3. ReportInv'
  BY DEF ReportInv, TroubleReachesTop, OkMeansDone
<1>4. QuietInv'
  BY DEF QuietInv
<1> QED BY <1>1, <1>2, <1>3, <1>4 DEF Inv

(* The second call: the ReplicaSets, or an error that leaves none. *)
LEMMA ListSetsStep == ASSUME Inv, ListReplicaSets \/ ListReplicaSetsFails PROVE Inv'
<1> USE DEF ListReplicaSets, ListReplicaSetsFails, clusterVars
<1>1. ClusterInv'
  BY DEF Inv, ClusterInv
<1>2. TypeOK'
  <2>1. \A v \in Revisions : \A r \in rs'[v] \cup gotRS'[v] : r \in ReplicaSets
    BY DEF Inv, TypeOK
  <2>2. quiet' \in BOOLEAN /\ trouble' \in BOOLEAN
    BY DEF Inv, TypeOK
  <2>3. /\ pc' = "listPods"
        /\ UNCHANGED <<spec, status, pods, mishaps, report>>
    OBVIOUS
  <2> QED BY <2>1, <2>2, <2>3 DEF Inv, TypeOK
<1>3. ReportInv'
  BY DEF ReportInv, TroubleReachesTop, OkMeansDone
<1>4. QuietInv'
  BY DEF Inv, QuietInv
<1> QED BY <1>1, <1>2, <1>3, <1>4 DEF Inv

(***************************************************************************)
(* The third call: the pods, or an error that leaves none.  Whatever was   *)
(* listed, the status is made from it and reported.                        *)
(***************************************************************************)
LEMMA ConcludeStep ==
    ASSUME Inv, NEW listed, \A v \in Revisions : listed[v] \subseteq PodStates \ {"gone"},
           Conclude(listed), quiet' \in BOOLEAN,
           quiet' => quiet /\ listed = Listed
    PROVE  Inv'
<1> DEFINE subs == SubsOf(gotRS, listed)
           D == DeploymentStatus(gotConds, subs)
<1>1. report' = D /\ pc = "listPods" /\ pc' = "reported" /\ UNCHANGED clusterVars
  BY DEF Conclude, Subs, SubsOf
<1>2. /\ gotConds \subseteq DeploymentConditions
      /\ \A v \in Revisions : gotRS[v] \subseteq CountedSets
  BY DEF Inv, ClusterInv
<1>3. /\ \A s \in subs : /\ s.status \in Statuses
                         /\ ~s.status.progressing
                         /\ s.spec # 0 => s.status.result >= Ok
      /\ \A v \in Revisions : \A r \in gotRS[v] : \E s \in subs :
            /\ s.spec = r.spec
            /\ listed[v] \cap Bad # {} => s.status.result = Error
  BY <1>2, SubCases
<1>4. /\ D \in Statuses
      /\ \A s \in subs : s.spec # 0 => s.status.result <= D.result
      /\ D.result = Ok => ~D.progressing
  <2> HIDE DEF subs
  <2> QED BY <1>2, <1>3, DeploymentCases
<1>5. ASSUME trouble' PROVE D.result = Error
  <2>1. PICK v \in Revisions : (\E r \in gotRS[v] : r.spec > 0) /\ listed[v] \cap Bad # {}
    BY <1>5 DEF Conclude, Bad
  <2>2. PICK r \in gotRS[v] : r.spec > 0
    BY <2>1
  <2>3. PICK s \in subs : s.spec = r.spec /\ s.status.result = Error
    BY <1>3, <2>1
  <2>4. r.spec # 0
    <3>1. r.spec \in 0..MaxReplicas
      BY <1>2 DEF CountedSets, ReplicaSets
    <3> QED BY <2>2, <3>1, BoundsAssumption
  <2>5. Error <= D.result /\ D.result \in Results
    BY <1>4, <2>3, <2>4 DEF Statuses
  <2> HIDE DEF D
  <2> QED BY <2>5 DEF Results, Unknown, Error
<1>6. ClusterInv'
  BY <1>1 DEF Inv, ClusterInv, Conclude, clusterVars
<1>7. TypeOK'
  <2>1. \A v \in Revisions : \A r \in rs'[v] \cup gotRS'[v] : r \in ReplicaSets
    BY <1>1 DEF Inv, TypeOK, Conclude, clusterVars
  <2>2. trouble' \in BOOLEAN
    BY DEF Conclude
  <2> HIDE DEF D
  <2> QED BY <1>1, <1>4, <2>1, <2>2 DEF Inv, TypeOK, clusterVars
<1>8. ReportInv'
  <2> HIDE DEF D
  <2> QED BY <1>1, <1>4, <1>5 DEF ReportInv, TroubleReachesTop, OkMeansDone
<1>9. QuietInv'
  <2> SUFFICES ASSUME quiet'
               PROVE  report' = DeploymentStatus(status.conditions, SubsOf(rs, Listed))'
    BY <1>1 DEF QuietInv
  <2>1. gotConds = status.conditions /\ gotRS = rs /\ listed = Listed
    BY <1>1 DEF Inv, QuietInv
  <2>2. UNCHANGED <<status, rs, Listed>>
    BY <1>1 DEF clusterVars, Listed
  <2>3. DeploymentStatus(status.conditions, SubsOf(rs, Listed))'
            = DeploymentStatus(status'.conditions, SubsOf(rs', Listed'))
    BY DEF SubsOf
  <2> QED BY <1>1, <2>1, <2>2, <2>3
<1> QED BY <1>6, <1>7, <1>8, <1>9 DEF Inv

(* The invariant is inductive. *)
LEMMA InvInductive == Inv /\ [Next]_vars => Inv'
<1> SUFFICES ASSUME Inv, [Next]_vars PROVE Inv'
  OBVIOUS
<1>1. CASE ListPods
  <2>1. \A v \in Revisions : Listed[v] \subseteq PodStates \ {"gone"}
    BY DEF Inv, TypeOK, Listed
  <2>2. Conclude(Listed) /\ quiet' = quiet
    BY <1>1 DEF ListPods, Listed
  <2>3. quiet \in BOOLEAN
    BY DEF Inv, TypeOK
  <2> QED BY <2>1, <2>2, <2>3, ConcludeStep
<1>2. CASE ListPodsFails
  <2> DEFINE none == [v \in Revisions |-> {}]
  <2>1. Conclude(none) /\ quiet' = FALSE
    BY <1>2 DEF ListPodsFails
  <2>2. \A v \in Revisions : none[v] \subseteq PodStates \ {"gone"}
    OBVIOUS
  <2> HIDE DEF none
  <2> QED BY <2>1, <2>2, ConcludeStep
<1>3. CASE UNCHANGED vars
  <2>1. TypeOK' /\ ClusterInv' /\ ReportInv'
    BY <1>3 DEF vars, Inv, TypeOK, ClusterInv, ReportInv, TroubleReachesTop, OkMeansDone
  <2>2. QuietInv'
    BY <1>3 DEF vars, Inv, QuietInv, SubsOf, Listed
  <2> QED BY <2>1, <2>2 DEF Inv
<1> QED BY <1>1, <1>2, <1>3, ClusterStep, GetStep, ListSetsStep DEF Next

(* Every reachable state satisfies the invariant. *)
LEMMA InvHolds == Spec => []Inv
BY InitInv, InvInductive, PTL DEF Spec

-----------------------------------------------------------------------------
(* The types of the cluster and of what the analyzer got and reports. *)
THEOREM TypeCorrect == Spec => []TypeOK
<1>1. Inv => TypeOK
  BY DEF Inv
<1> QED BY <1>1, InvHolds, PTL

(***************************************************************************)
(* A listed pod that is not fine makes the Deployment an Error, whatever   *)
(* changed between the three calls, unless its ReplicaSet wants no pods.   *)
(***************************************************************************)
THEOREM TroubleIsReported == Spec => []TroubleReachesTop
<1>1. Inv => TroubleReachesTop
  BY DEF Inv, ReportInv
<1> QED BY <1>1, InvHolds, PTL

(***************************************************************************)
(* A Deployment that is reported Ok is not reported as progressing, with   *)
(* whatever mixture of old and new the three calls returned.               *)
(***************************************************************************)
THEOREM OkIsDone == Spec => []OkMeansDone
<1>1. Inv => OkMeansDone
  BY DEF Inv, ReportInv
<1> QED BY <1>1, InvHolds, PTL

(* The report on a converged Deployment whose pods are fine is Ok. *)
LEMMA ConvergedIsOk ==
    ASSUME Inv, Converged, AllFine, spec.replicas > 0
    PROVE  DeploymentStatus(status.conditions, SubsOf(rs, Listed)) = Status(Ok)
<1> DEFINE subs == SubsOf(rs, Listed)
           pod(v) == {PodStatus(Shown(p)) : p \in Listed[v]}
<1>1. /\ spec.revision \in Revisions /\ spec.replicas \in Nat
      /\ \A v \in Revisions : rs[v] \subseteq CountedSets
  BY BoundsAssumption DEF Inv, TypeOK, ClusterInv
<1>2. ASSUME NEW v \in Revisions, NEW r \in rs[v]
      PROVE  /\ r.spec = IF v = spec.revision THEN spec.replicas ELSE 0
             /\ r.replicas = r.spec /\ r.ready = r.spec
             /\ r.labeled = r.spec /\ r.available = r.spec
  <2>1. /\ r.spec = IF v = spec.revision THEN spec.replicas ELSE 0
        /\ r.replicas = r.spec /\ r.ready = r.spec /\ r = Counted(v, r)
    BY DEF Converged, RolloutOver
  <2> DEFINE n == Count(v, Active)
             m == Count(v, {"ready"})
  <2>2. r \in ReplicaSets
    BY <1>1 DEF CountedSets
  <2>3. r = [r EXCEPT !.replicas = n, !.labeled = n, !.available = m, !.ready = m]
    BY <2>1 DEF Counted
  <2> HIDE DEF n, m
  <2>4. r.labeled = r.replicas /\ r.available = r.ready
    BY <2>2, <2>3 DEF ReplicaSets
  <2> QED BY <2>1, <2>4
<1>3. pod(spec.revision) \subseteq {Status(Ok)}
  <2>1. Listed[spec.revision] \subseteq {"ready", "shutdown", "succeeded"}
    BY <1>1 DEF AllFine, Fine, Listed
  <2> QED BY <2>1, PodCases
<1>4. ASSUME NEW r \in rs[spec.revision]
      PROVE  ReplicaSetStatus(r, pod(spec.revision)) = Status(Ok)
  <2>1. r \in CountedSets
    BY <1>1
  <2> HIDE DEF pod
  <2> QED BY <1>1, <1>2, <1>3, <2>1, ReplicaSetOk
<1>5. ASSUME NEW s \in subs, s.spec # 0 PROVE s.status = Status(Ok)
  <2>1. \E v \in Revisions : \E r \in rs[v] :
            s = [spec |-> r.spec, status |-> ReplicaSetStatus(r, pod(v))]
    BY DEF SubsOf
  <2> HIDE DEF pod
  <2>2. PICK v \in Revisions : \E r \in rs[v] :
            s = [spec |-> r.spec, status |-> ReplicaSetStatus(r, pod(v))]
    BY <2>1
  <2>3. PICK r \in rs[v] : s = [spec |-> r.spec, status |-> ReplicaSetStatus(r, pod(v))]
    BY <2>2
  <2>4. v = spec.revision
    BY <1>2, <1>5, <2>3
  <2> QED BY <1>4, <2>3, <2>4
<1>6. PICK r \in rs[spec.revision] : TRUE
  BY DEF Converged
<1>7. \E s \in subs : s.spec # 0
  <2>1. \E s \in subs : s.spec = r.spec
    <3>1. \A v \in Revisions : Listed[v] \subseteq PodStates \ {"gone"}
      BY DEF Inv, TypeOK, Listed
    <3> QED BY <1>1, <3>1, SubCases
  <2> HIDE DEF subs
  <2> QED BY <1>1, <1>2, <2>1
<1>8. status.conditions = {Condition("Available", "True"), Condition("Progressing", "True")}
  <2>1. r.available >= spec.replicas
    BY <1>1, <1>2
  <2>2. Enough
    BY <1>1, <2>1 DEF Enough
  <2> QED BY <2>2 DEF Converged, TrueConditions
<1> HIDE DEF subs
<1>9. DeploymentStatus(status.conditions, subs) = Status(Ok)
  BY <1>5, <1>7, <1>8, DeploymentOk
<1> QED BY <1>9 DEF subs

(***************************************************************************)
(* A report made while nothing changed is right in both directions: it is  *)
(* Ok if the rollout is over and its pods are fine, and only if every      *)
(* ReplicaSet that wants pods has them and none of them is in trouble.     *)
(***************************************************************************)
THEOREM QuietReportIsRight == Spec => []QuietReportRight
<1>1. Inv => QuietReportRight
  <2> SUFFICES ASSUME Inv, pc = "reported", quiet, spec.replicas > 0
               PROVE  /\ Converged /\ AllFine => report = Status(Ok)
                      /\ report.result = Ok =>
                            \A v \in Revisions : \A r \in rs[v] : r.spec > 0 =>
                                r.ready = r.spec /\ \A s \in Slots : pods[v][s] \in Fine \cup {"pending"}
    BY DEF QuietReportRight
  <2> DEFINE subs == SubsOf(rs, Listed)
  <2>1. report = DeploymentStatus(status.conditions, subs)
    BY DEF Inv, QuietInv
  <2>2. ASSUME report.result = Ok, NEW v \in Revisions, NEW r \in rs[v], r.spec > 0
        PROVE  r.ready = r.spec /\ \A s \in Slots : pods[v][s] \in Fine \cup {"pending"}
    <3>1. /\ \A w \in Revisions : rs[w] \subseteq CountedSets
          /\ \A w \in Revisions : Listed[w] \subseteq PodStates \ {"gone"}
          /\ status.conditions \subseteq DeploymentConditions
      BY DEF Inv, ClusterInv, TypeOK, Listed
    <3>2. PICK s \in subs :
              /\ s.spec = r.spec
              /\ Listed[v] \cap Bad # {} => s.status.result = Error
              /\ s.status.result # Error => r.ready = r.spec
      BY <2>2, <3>1, SubCases
    <3>3. \A t \in subs : /\ t.status \in Statuses
                          /\ ~t.status.progressing
                          /\ t.spec # 0 => t.status.result >= Ok
      BY <3>1, SubCases
    <3>4. s.spec # 0
      <4>1. r.spec \in 0..MaxReplicas
        BY <3>1 DEF CountedSets, ReplicaSets
      <4> QED BY <2>2, <3>2, <4>1, BoundsAssumption
    <3> HIDE DEF subs
    <3>5. s.status.result <= Ok
      BY <2>1, <2>2, <3>1, <3>3, <3>4, DeploymentCases
    <3>6. s.status.result # Error
      BY <3>5 DEF Ok, Error
    <3>7. Listed[v] \cap Bad = {} /\ pods[v] \in [Slots -> PodStates]
      BY <3>2, <3>6 DEF Inv, TypeOK
    <3>8. \A t \in Slots : pods[v][t] \in Fine \cup {"pending"}
      BY <3>7 DEF Listed, Bad, Fine, PodStates, Active, Ended
    <3> QED BY <3>2, <3>6, <3>8
  <2>3. Converged /\ AllFine => report = Status(Ok)
    BY <2>1, ConvergedIsOk
  <2> QED BY <2>2, <2>3
<1> QED BY <1>1, InvHolds, PTL
=============================================================================
