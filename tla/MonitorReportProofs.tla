------------------------ MODULE MonitorReportProofs ------------------------
(***************************************************************************)
(* Proofs about module MonitorReport, for every configuration file, every  *)
(* finite set of objects and every acyclic relation between them.          *)
(***************************************************************************)
EXTENDS MonitorReport, FiniteSetTheorems, TLAPS

-----------------------------------------------------------------------------
(***************************************************************************)
(* Induction over the naturals, stated for a set: a set that has 0 and     *)
(* with a number its successor has them all, because the first number that *)
(* it does not have would have a predecessor that it has.                  *)
(***************************************************************************)
LEMMA SetInduction ==
    ASSUME NEW T, 0 \in T, \A n \in Nat : n \in T => n + 1 \in T
    PROVE  \A n \in Nat : n \in T
<1> DEFINE R == OpToRel(<, Nat)
           U == Nat \ T
<1>1. \A i, j \in Nat : <<i, j>> \in R <=> i < j
  BY DEF OpToRel
<1>2. IsWellFoundedOn(R, Nat)
  BY NatLessThanWellFounded
<1> SUFFICES ASSUME U # {} PROVE FALSE
  OBVIOUS
<1>3. PICK m \in U : \A k \in U : <<k, m>> \notin R
  <2>1. U \subseteq Nat
    OBVIOUS
  <2> HIDE DEF R, U
  <2> QED BY <1>2, <2>1, WFMin
<1>4. m \in Nat /\ m \notin T /\ m # 0
  BY <1>3
<1>5. m - 1 \in Nat
  BY <1>4
<1>6. m - 1 \notin T
  BY <1>4, <1>5
<1>7. m - 1 \in U
  BY <1>5, <1>6
<1> HIDE DEF R
<1>8. ~(m - 1 < m)
  BY <1>1, <1>3, <1>4, <1>5, <1>7
<1> QED BY <1>4, <1>8

-----------------------------------------------------------------------------
(* The level-by-level walk of subObjectsIDs. *)

(* One round: the first level is that of o's own SubStatuses. *)
Level(o, rel, g, n) == IF n = 0 THEN rel[o] ELSE UNION {rel[p] : p \in g[n - 1]}

(* g is the sequence of the first n + 1 levels. *)
Levels(o, rel, g, n) == g = [i \in 0..n |-> Level(o, rel, g, i)]

(* The walk is well defined. *)
LEMMA LevelsExist ==
    ASSUME NEW o, NEW rel, NEW n \in Nat
    PROVE  \E g : Levels(o, rel, g, n)
<1> DEFINE T == {m \in Nat : \E g : Levels(o, rel, g, m)}
<1>1. 0 \in T
  <2> DEFINE g == [i \in 0..0 |-> rel[o]]
  <2>1. Levels(o, rel, g, 0)
    BY DEF Levels, Level
  <2> QED BY <2>1
<1>2. ASSUME NEW m \in Nat, m \in T PROVE m + 1 \in T
  <2>1. PICK g : g = [i \in 0..m |-> Level(o, rel, g, i)]
    BY <1>2 DEF Levels
  <2> DEFINE h == [i \in 0..(m + 1) |-> IF i <= m THEN g[i] ELSE Level(o, rel, g, i)]
  <2>2. ASSUME NEW i \in 0..(m + 1) PROVE h[i] = Level(o, rel, h, i)
    <3>1. i # 0 => i - 1 \in 0..(m + 1) /\ i - 1 <= m /\ h[i - 1] = g[i - 1]
      OBVIOUS
    <3>2. Level(o, rel, h, i) = Level(o, rel, g, i)
      <4> HIDE DEF h
      <4> QED BY <3>1 DEF Level
    <3>3. CASE i <= m
      BY <2>1, <3>2, <3>3
    <3>4. CASE ~(i <= m)
      BY <3>2, <3>4
    <3> QED BY <3>3, <3>4
  <2>3. Levels(o, rel, h, m + 1)
    BY <2>2 DEF Levels
  <2> HIDE DEF h
  <2> QED BY <2>3
<1> HIDE DEF T
<1>3. n \in T
  BY <1>1, <1>2, SetInduction
<1> QED BY <1>3 DEF T

(* Reach is the union of the levels. *)
LEMMA ReachLevels ==
    ASSUME NEW o, NEW rel, Cardinality(Objects) \in Nat
    PROVE  \E g : /\ Levels(o, rel, g, Cardinality(Objects))
                  /\ Reach(o, rel) = UNION {g[n] : n \in 0..Cardinality(Objects)}
<1> DEFINE N == Cardinality(Objects)
           level == CHOOSE g : Levels(o, rel, g, N)
<1>1. Levels(o, rel, level, N)
  BY LevelsExist
<1>2. Reach(o, rel) = UNION {level[n] : n \in 0..N}
  BY DEF Reach, Levels, Level
<1> HIDE DEF level
<1> QED BY <1>1, <1>2

(* A set of objects that has the sub-objects of its objects. *)
Closed(T, rel) == \A p \in T : rel[p] \subseteq T

(* What the walk finds is in every closed set that has o's SubStatuses. *)
LEMMA LevelsInClosed ==
    ASSUME NEW o, NEW rel, NEW N \in Nat, NEW g, Levels(o, rel, g, N),
           NEW U, rel[o] \subseteq U, Closed(U, rel)
    PROVE  \A n \in 0..N : g[n] \subseteq U
<1> DEFINE T == {n \in Nat : n <= N => g[n] \subseteq U}
<1>1. \A n \in 0..N : g[n] = Level(o, rel, g, n)
  BY Zenon DEF Levels
<1>2. 0 \in T
  <2>1. 0 \in 0..N
    OBVIOUS
  <2>2. g[0] = rel[o]
    BY <1>1, <2>1, Zenon DEF Level
  <2> QED BY <2>2
<1>3. ASSUME NEW n \in Nat, n \in T PROVE n + 1 \in T
  <2> SUFFICES ASSUME n + 1 <= N PROVE g[n + 1] \subseteq U
    OBVIOUS
  <2>1. n + 1 \in 0..N /\ n + 1 # 0 /\ (n + 1) - 1 = n /\ n <= N
    OBVIOUS
  <2>2. g[n + 1] = UNION {rel[p] : p \in g[n]}
    BY <1>1, <2>1 DEF Level
  <2>3. g[n] \subseteq U
    BY <1>3, <2>1
  <2> QED BY <2>2, <2>3 DEF Closed
<1> HIDE DEF T
<1>4. \A n \in Nat : n \in T
  BY <1>2, <1>3, SetInduction
<1> QED BY <1>4 DEF T

(***************************************************************************)
(* As many levels as there are objects are enough: as long as the objects  *)
(* found so far are not closed the next level brings a new one, and no     *)
(* more can be new than there are.                                         *)
(***************************************************************************)
LEMMA ReachClosed ==
    ASSUME NEW o \in Objects, NEW rel \in [Objects -> SUBSET Objects]
    PROVE  /\ Reach(o, rel) \subseteq Objects
           /\ rel[o] \subseteq Reach(o, rel)
           /\ Closed(Reach(o, rel), rel)
<1> DEFINE N == Cardinality(Objects)
<1>1. IsFiniteSet(Objects) /\ N \in Nat
  BY TargetsAssumption, FS_CardinalityType
<1>2. PICK g : Levels(o, rel, g, N) /\ Reach(o, rel) = UNION {g[n] : n \in 0..N}
  BY <1>1, ReachLevels
<1> HIDE DEF N
<1> DEFINE D(n) == UNION {g[k] : k \in 0..n}
<1>3. \A n \in 0..N : g[n] \subseteq Objects
  BY <1>1, <1>2, LevelsInClosed DEF Closed
<1>4. \A n \in 0..N : g[n] = Level(o, rel, g, n)
  BY <1>2, Zenon DEF Levels
<1>5. g[0] = rel[o]
  <2>1. 0 \in 0..N
    BY <1>1
  <2> QED BY <1>4, <2>1, Zenon DEF Level
<1>6. \A n \in 0..N : D(n) \subseteq Objects /\ rel[o] \subseteq D(n)
  BY <1>1, <1>3, <1>5
<1>7. \A n \in 0..N : IsFiniteSet(D(n)) /\ Cardinality(D(n)) \in Nat
  BY <1>1, <1>6, FS_Subset, FS_CardinalityType
<1> DEFINE Done(n) == \E m \in 0..n : Closed(D(m), rel)
           T == {n \in Nat : n <= N => Done(n) \/ Cardinality(D(n)) > n}
<1>8. 0 \in T
  <2> SUFFICES ASSUME ~Done(0) PROVE Cardinality(D(0)) > 0
    OBVIOUS
  <2>1. 0 \in 0..N
    BY <1>1
  <2>2. D(0) # {}
    BY DEF Closed
  <2>3. Cardinality(D(0)) # 0
    BY <1>7, <2>1, <2>2, FS_EmptySet
  <2> HIDE DEF D
  <2> QED BY <1>7, <2>1, <2>3
<1>9. ASSUME NEW n \in Nat, n \in T PROVE n + 1 \in T
  <2> SUFFICES ASSUME n + 1 <= N, ~Done(n + 1) PROVE Cardinality(D(n + 1)) > n + 1
    <3> HIDE DEF Done, D
    <3> QED OBVIOUS
  <2>1. n \in 0..N /\ n + 1 \in 0..N /\ n \in 0..(n + 1) /\ 0..n \subseteq 0..(n + 1)
    BY <1>1
  <2>2. ~Done(n) /\ ~Closed(D(n), rel)
    BY <2>1
  <2>3. Cardinality(D(n)) > n
    <3>1. n <= N
      BY <2>1
    <3> HIDE DEF Done, D
    <3> QED BY <1>9, <2>2, <3>1
  <2>4. PICK p \in D(n) : \E q \in rel[p] : q \notin D(n)
    BY <2>2 DEF Closed
  <2>0. PICK q \in rel[p] : q \notin D(n)
    BY <2>4
  <2>5. PICK k \in 0..n : p \in g[k]
    BY <2>4
  <2>6. k + 1 \in 0..N /\ k + 1 # 0 /\ (k + 1) - 1 = k /\ k + 1 \in 0..(n + 1)
    <3>1. k \in Nat /\ k <= n
      BY <2>5
    <3> QED BY <1>1, <3>1
  <2>7. q \in g[k + 1]
    <3>1. g[k + 1] = UNION {rel[x] : x \in g[k]}
      BY <1>4, <2>6, Zenon DEF Level
    <3> QED BY <2>0, <2>5, <3>1
  <2>8. q \in D(n + 1)
    BY <2>6, <2>7
  <2>9. D(n) \cup {q} \subseteq D(n + 1)
    BY <2>1, <2>8
  <2> HIDE DEF D
  <2>10. Cardinality(D(n) \cup {q}) = Cardinality(D(n)) + 1
    BY <1>7, <2>1, <2>0, FS_AddElement
  <2>11. Cardinality(D(n) \cup {q}) <= Cardinality(D(n + 1))
    BY <1>7, <2>1, <2>9, FS_Subset
  <2> QED BY <1>7, <2>1, <2>3, <2>10, <2>11
<1> HIDE DEF T
<1>10. N \in T
  BY <1>1, <1>8, <1>9, SetInduction
<1>11. N \in 0..N
  BY <1>1
<1>12. ~(Cardinality(D(N)) > N)
  <2>1. D(N) \subseteq Objects
    BY <1>6, <1>11
  <2>2. Cardinality(D(N)) <= N
    <3> HIDE DEF D
    <3> QED BY <1>1, <2>1, FS_Subset DEF N
  <2> HIDE DEF D
  <2> QED BY <1>1, <1>7, <1>11, <2>2
<1>13. PICK m \in 0..N : Closed(D(m), rel)
  BY <1>1, <1>10, <1>12 DEF T
<1>14. D(N) = D(m)
  <2>1. 0..m \subseteq 0..N
    BY <1>1
  <2>2. D(m) \subseteq D(N)
    BY <2>1
  <2>3. \A n \in 0..N : g[n] \subseteq D(m)
    <3>1. rel[o] \subseteq D(m)
      BY <1>6
    <3> HIDE DEF D
    <3> QED BY <1>1, <1>2, <1>13, <3>1, LevelsInClosed
  <2> QED BY <2>2, <2>3
<1>15. Reach(o, rel) = D(N)
  BY <1>2
<1> HIDE DEF D
<1> QED BY <1>6, <1>11, <1>13, <1>14, <1>15

(* It is the least such set. *)
LEMMA ReachLeast ==
    ASSUME NEW o \in Objects, NEW rel \in [Objects -> SUBSET Objects],
           NEW U, rel[o] \subseteq U, Closed(U, rel)
    PROVE  Reach(o, rel) \subseteq U
<1>1. Cardinality(Objects) \in Nat
  BY TargetsAssumption, FS_CardinalityType
<1>2. PICK g : /\ Levels(o, rel, g, Cardinality(Objects))
               /\ Reach(o, rel) = UNION {g[n] : n \in 0..Cardinality(Objects)}
  BY <1>1, ReachLevels
<1>3. \A n \in 0..Cardinality(Objects) : g[n] \subseteq U
  BY <1>1, <1>2, LevelsInClosed
<1> QED BY <1>2, <1>3

(* What is below something below o is below o. *)
LEMMA ReachTransitive ==
    ASSUME NEW rel \in [Objects -> SUBSET Objects],
           NEW o \in Objects, NEW p \in Reach(o, rel)
    PROVE  p \in Objects /\ Reach(p, rel) \subseteq Reach(o, rel)
<1>1. Reach(o, rel) \subseteq Objects /\ Closed(Reach(o, rel), rel)
  BY ReachClosed
<1>2. p \in Objects /\ rel[p] \subseteq Reach(o, rel)
  BY <1>1 DEF Closed
<1> QED BY <1>1, <1>2, ReachLeast

(* With fewer sub-objects less is below. *)
LEMMA ReachShrinks ==
    ASSUME NEW rel \in [Objects -> SUBSET Objects], NEW small \in [Objects -> SUBSET Objects],
           \A o \in Objects : small[o] \subseteq rel[o], NEW o \in Objects
    PROVE  Reach(o, small) \subseteq Reach(o, rel)
<1>1. /\ Reach(o, rel) \subseteq Objects /\ rel[o] \subseteq Reach(o, rel)
      /\ Closed(Reach(o, rel), rel)
  BY ReachClosed
<1>2. small[o] \subseteq Reach(o, rel) /\ Closed(Reach(o, rel), small)
  BY <1>1 DEF Closed
<1> QED BY <1>2, ReachLeast

(* So a cluster that shrinks stays acyclic. *)
LEMMA ShrinkAcyclic ==
    ASSUME NEW rel \in [Objects -> SUBSET Objects], NEW small \in [Objects -> SUBSET Objects],
           \A o \in Objects : small[o] \subseteq rel[o], Acyclic(rel)
    PROVE  Acyclic(small)
BY ReachShrinks DEF Acyclic

(***************************************************************************)
(* Among the objects of a set that something is below, one is at the top:  *)
(* below no other object of the set.                                       *)
(***************************************************************************)
LEMMA TopExists ==
    ASSUME NEW rel \in [Objects -> SUBSET Objects], Acyclic(rel),
           NEW A \in SUBSET Objects, NEW o, NEW a \in A, o \in Reach(a, rel)
    PROVE  \E p \in A : /\ o \in Reach(p, rel)
                        /\ \A q \in A : p \notin Reach(q, rel)
<1> DEFINE U == {p \in A : o \in Reach(p, rel)}
           V == {Objects \ Reach(p, rel) : p \in U}
           R == StrictSubsetOrdering(Objects)
<1>1. IsWellFoundedOn(R, FiniteSubsetsOf(Objects))
  BY FS_StrictSubsetOrderingWellFounded
<1>2. V # {}
  OBVIOUS
<1>3. V \subseteq FiniteSubsetsOf(Objects)
  BY TargetsAssumption, FS_Subset DEF FiniteSubsetsOf
<1>4. \E v \in V : \A w \in V : ~(<<w, v>> \in R)
  <2> HIDE DEF R, V
  <2> QED BY <1>1, <1>2, <1>3, WFMin
<1>5. PICK p \in U : \A q \in U : ~(<<Objects \ Reach(q, rel), Objects \ Reach(p, rel)>> \in R)
  <2> HIDE DEF R
  <2> QED BY <1>4
<1>6. ASSUME NEW q \in A, p \in Reach(q, rel) PROVE FALSE
  <2>1. Reach(p, rel) \subseteq Reach(q, rel) /\ p \in Objects
    BY <1>6, ReachTransitive
  <2>2. q \in U
    BY <2>1
  <2>3. p \notin Reach(p, rel)
    BY <2>1 DEF Acyclic
  <2>4. <<Objects \ Reach(q, rel), Objects \ Reach(p, rel)>> \in R
    <3>1. /\ Objects \ Reach(q, rel) \subseteq Objects \ Reach(p, rel)
          /\ p \in Objects \ Reach(p, rel) /\ p \notin Objects \ Reach(q, rel)
      BY <1>6, <2>1, <2>3
    <3> QED BY <3>1 DEF StrictSubsetOrdering
  <2> QED BY <1>5, <2>2, <2>4
<1> QED BY <1>5, <1>6

(***************************************************************************)
(* The same for statuses, each with the tree that its own lookups found.   *)
(* Where no tree shows less below an object than the object's own tree,    *)
(* one of the trees that show o is below no other tree.                    *)
(***************************************************************************)
LEMMA TopTreeExists ==
    ASSUME NEW S, NEW a \in S, NEW o, o \in Shown(a),
           \A s \in S : Shown(s) \subseteq Objects /\ s.object \in Objects \ Shown(s),
           \A s, t \in S : s.object \in Shown(t) => Shown(s) \subseteq Shown(t)
    PROVE  \E s \in S : o \in Shown(s) /\ \A t \in S : s.object \notin Shown(t)
<1> DEFINE U == {s \in S : o \in Shown(s)}
           V == {Objects \ Shown(s) : s \in U}
           R == StrictSubsetOrdering(Objects)
<1>1. IsWellFoundedOn(R, FiniteSubsetsOf(Objects))
  BY FS_StrictSubsetOrderingWellFounded
<1>2. V # {}
  <2>1. Objects \ Shown(a) \in V
    OBVIOUS
  <2> QED BY <2>1
<1>3. V \subseteq FiniteSubsetsOf(Objects)
  BY TargetsAssumption, FS_Subset DEF FiniteSubsetsOf
<1>4. \E v \in V : \A w \in V : ~(<<w, v>> \in R)
  <2> HIDE DEF R, V
  <2> QED BY <1>1, <1>2, <1>3, WFMin
<1>5. PICK s \in U : \A t \in U : ~(<<Objects \ Shown(t), Objects \ Shown(s)>> \in R)
  <2>1. PICK v \in V : \A w \in V : ~(<<w, v>> \in R)
    BY <1>4
  <2> HIDE DEF R, U
  <2>2. PICK s \in U : v = Objects \ Shown(s)
    OBVIOUS
  <2>3. \A t \in U : Objects \ Shown(t) \in V
    OBVIOUS
  <2> QED BY <2>1, <2>2, <2>3
<1>6. ASSUME NEW t \in S, s.object \in Shown(t) PROVE FALSE
  <2>1. Shown(s) \subseteq Shown(t) /\ t \in U
    BY <1>6
  <2>2. /\ Objects \ Shown(t) \subseteq Objects \ Shown(s)
        /\ s.object \in Objects \ Shown(s) /\ s.object \notin Objects \ Shown(t)
    BY <1>6, <2>1
  <2>3. <<Objects \ Shown(t), Objects \ Shown(s)>> \in R
    BY <2>2 DEF StrictSubsetOrdering
  <2> QED BY <1>5, <2>1, <2>3
<1> QED BY <1>5, <1>6

-----------------------------------------------------------------------------
(* A status: of an object, with some of what is below it. *)
Status ==
    {s \in [object : Objects, subs : [Objects -> SUBSET Objects]] :
        \A p \in Objects : s.subs[p] \subseteq below[p]}

(* The objects that statuses are of. *)
Of(S) == {s.object : s \in S}

(* The types of the variables, and what ReadConfig and the cluster keep. *)
TypeInv ==
    /\ alive \in SUBSET Objects
    /\ below \in [Objects -> SUBSET Objects]
    /\ Acyclic(below)
    /\ \A o \in Objects : below[o] \subseteq alive
    /\ cfg = ReadConfig(known)
    /\ part \in SUBSET Status
    /\ statuses \in Seq(SUBSET Status)
    /\ Len(statuses) <= Len(Targets)
    /\ stage \in {"load", "analyze", "dedup", "digest", "serve"}
    /\ stage = "analyze" => Len(statuses) < Len(Targets)
    /\ stage \in {"dedup", "digest", "serve"} => Len(statuses) = Len(Targets)
    /\ stage # "analyze" => part = {}

(***************************************************************************)
(* Only what is in the cluster is cached; of a kind that counts as loaded  *)
(* everything is cached, whichever lists failed before and after.          *)
(***************************************************************************)
CacheInv ==
    /\ cached \subseteq alive
    /\ \A o \in alive : KindOf[o] \in loaded => o \in cached

(* What target t is answered with is of its kinds, and all of it unless its list failed. *)
Answers(t, objs) == objs \subseteq Meant(t) /\ (t \notin failed => Meant(t) \subseteq objs)

(* So for the target under way and for those that are done. *)
AnswersInv ==
    /\ stage = "analyze" => Answers(Target, todo \cup Of(part))
    /\ \A i \in DOMAIN statuses : Answers(i, Of(statuses[i]))

(* What dedup and digestUpdates have made of the update. *)
KeptInv ==
    stage \in {"digest", "serve"} =>
        kept = [i \in DOMAIN statuses |-> {s \in statuses[i] : s.object \notin Hidden}]

MetricsInv ==
    stage = "serve" =>
        metrics = UNION {{[from |-> i, labels |-> statusToMetric(Targets[i].category, s)] :
                             s \in kept[i]} : i \in DOMAIN kept}

(* The inductive invariant. *)
Inv == TypeInv /\ CacheInv /\ AnswersInv /\ KeptInv /\ MetricsInv

(* The configuration file is a list. *)
LEMMA TargetsFacts ==
    /\ Len(Targets) \in Nat
    /\ DOMAIN Targets = 1..Len(Targets)
    /\ \A t \in DOMAIN Targets :
          Targets[t] \in [category : STRING, kinds : SUBSET Kinds]
<1> DEFINE R == [category : STRING, kinds : SUBSET Kinds]
<1>1. Targets \in Seq(R)
  BY TargetsAssumption
<1> HIDE DEF R
<1>2. /\ Len(Targets) \in Nat
      /\ DOMAIN Targets = 1..Len(Targets)
      /\ \A t \in DOMAIN Targets : Targets[t] \in R
  BY <1>1
<1> QED BY <1>2 DEF R

(* What is left of a target in the configuration. *)
LEMMA ConfigFacts ==
    ASSUME cfg = ReadConfig(known)
    PROVE  /\ Len(cfg) = Len(Targets)
           /\ \A t \in DOMAIN Targets : /\ cfg[t].category = Targets[t].category
                                        /\ cfg[t].kinds = Targets[t].kinds \cap known
<1>1. cfg = [t \in DOMAIN Targets |-> [Targets[t] EXCEPT !.kinds = @ \cap known]]
  BY DEF ReadConfig
<1>2. DOMAIN cfg = 1..Len(Targets) /\ Len(Targets) \in Nat
  BY <1>1, TargetsFacts
<1>3. Len(cfg) = Len(Targets)
  <2> DEFINE R == {cfg[t] : t \in 1..Len(Targets)}
  <2>1. cfg \in [1..Len(Targets) -> R]
    BY <1>1, <1>2, TargetsFacts
  <2> HIDE DEF R
  <2>2. cfg \in Seq(R)
    BY <1>2, <2>1
  <2> QED BY <1>2, <2>2
<1>4. ASSUME NEW t \in DOMAIN Targets
      PROVE  cfg[t].category = Targets[t].category /\ cfg[t].kinds = Targets[t].kinds \cap known
  <2>1. Targets[t] \in [category : STRING, kinds : SUBSET Kinds]
    BY TargetsFacts
  <2> QED BY <1>1, <2>1
<1> QED BY <1>3, <1>4

(* The start of the monitor. *)
LEMMA InitInv == Init => Inv
<1> SUFFICES ASSUME Init PROVE Inv
  OBVIOUS
<1>1. Len(Targets) \in Nat
  BY TargetsFacts
<1>2. /\ statuses = <<>> /\ part = {} /\ cached = {} /\ loaded = {} /\ stage = "load"
      /\ DOMAIN statuses = {} /\ Len(statuses) = 0
  BY DEF Init
<1>3. TypeInv
  <2>1. statuses \in Seq(SUBSET Status)
    BY <1>2
  <2>2. Len(statuses) <= Len(Targets)
    BY <1>1, <1>2
  <2> QED BY <1>2, <2>1, <2>2 DEF Init, TypeInv
<1>4. CacheInv
  BY <1>2 DEF CacheInv
<1>5. AnswersInv /\ KeptInv /\ MetricsInv
  BY <1>2 DEF AnswersInv, KeptInv, MetricsInv
<1> QED BY <1>3, <1>4, <1>5 DEF Inv

(***************************************************************************)
(* One target's query, with the objects that its list brings: all of the   *)
(* listed kinds, or none.                                                  *)
(***************************************************************************)
LEMMA QueryInv ==
    ASSUME Inv, NEW fresh, Query(fresh), fresh \subseteq alive,
           failed \subseteq failed',
           \A o \in alive : KindOf[o] \in {KindOf[x] : x \in fresh} => o \in cached \cup fresh,
           Target \notin failed' =>
               \A o \in alive : KindOf[o] \in Listed => o \in cached \cup fresh
    PROVE  Inv'
<1>1. /\ stage = "load" /\ stage' = "analyze" /\ Target <= Len(cfg)
      /\ matcher' = matcher \cup Wanted /\ cached' = cached \cup fresh
      /\ loaded' = loaded \cup {KindOf[o] : o \in fresh}
      /\ todo' = Filter(cached \cup fresh)
      /\ UNCHANGED <<alive, below, known, cfg, part, statuses, kept, metrics>>
  BY DEF Query, cluster
<1>2. TypeInv /\ CacheInv /\ AnswersInv
  BY DEF Inv
<1>3. Len(statuses) \in Nat /\ DOMAIN statuses = 1..Len(statuses)
  BY <1>2 DEF TypeInv
<1>4. Len(statuses) < Len(Targets) /\ Target \in DOMAIN Targets /\ Target' = Target
  <2>1. Len(cfg) = Len(Targets) /\ Len(Targets) \in Nat /\ DOMAIN Targets = 1..Len(Targets)
    BY <1>2, ConfigFacts, TargetsFacts DEF TypeInv
  <2> QED BY <1>1, <1>3, <2>1 DEF Target
<1>5. TypeInv'
  <2>1. Status' = Status
    BY <1>1 DEF Status
  <2> QED BY <1>1, <1>2, <1>4, <2>1 DEF TypeInv
<1>6. CacheInv'
  BY <1>1, <1>2 DEF CacheInv
<1>7. Wanted = Targets[Target].kinds \cap known
  BY <1>2, <1>4, ConfigFacts DEF Wanted, TypeInv
<1>8. \A t : Meant(t)' = Meant(t)
  BY <1>1 DEF Meant
<1>9. Answers(Target, todo \cup Of(part))'
  <2>1. part' = {} /\ Of(part') = {}
    BY <1>1, <1>2 DEF TypeInv, Of
  <2>2. todo' = {o \in cached \cup fresh : KindOf[o] \in Wanted}
    BY <1>1 DEF Filter
  <2>3. Meant(Target) = {o \in alive : KindOf[o] \in Wanted}
    BY <1>7 DEF Meant
  <2>4. todo' \subseteq Meant(Target)
    BY <1>2, <2>2, <2>3 DEF CacheInv
  <2>5. ASSUME Target \notin failed', NEW o \in Meant(Target) PROVE o \in todo'
    <3>1. o \in alive /\ KindOf[o] \in Wanted
      BY <2>3, <2>5
    <3>2. CASE KindOf[o] \in loaded
      BY <1>2, <2>2, <3>1, <3>2 DEF CacheInv
    <3>3. CASE KindOf[o] \notin loaded
      <4>1. KindOf[o] \in Listed
        BY <3>1, <3>3 DEF Listed
      <4> QED BY <2>2, <2>5, <3>1, <4>1
    <3> QED BY <3>2, <3>3
  <2> HIDE DEF Target
  <2> QED BY <1>4, <1>8, <2>1, <2>4, <2>5 DEF Answers
<1>10. \A i \in DOMAIN statuses : Answers(i, Of(statuses[i]))'
  BY <1>1, <1>2, <1>8 DEF AnswersInv, Answers, Of
<1>11. AnswersInv'
  BY <1>1, <1>9, <1>10 DEF AnswersInv
<1>12. KeptInv' /\ MetricsInv'
  BY <1>1 DEF KeptInv, MetricsInv
<1> QED BY <1>5, <1>6, <1>11, <1>12 DEF Inv

(* The list of a target is answered. *)
LEMMA LoadInv ==
    ASSUME Inv, Load
    PROVE  Inv'
<1> DEFINE fresh == {o \in alive \ cached : KindOf[o] \in Listed}
<1>1. Query(fresh) /\ failed' = failed
  BY DEF Load
<1>2. fresh \subseteq alive
  OBVIOUS
<1>3. \A o \in alive : KindOf[o] \in Listed => o \in cached \cup fresh
  OBVIOUS
<1>4. \A o \in alive : KindOf[o] \in {KindOf[x] : x \in fresh} => o \in cached \cup fresh
  BY <1>3
<1> HIDE DEF fresh
<1> QED BY <1>1, <1>2, <1>3, <1>4, QueryInv

(* The list of a target fails. *)
LEMMA LoadFailsInv ==
    ASSUME Inv, LoadFails
    PROVE  Inv'
<1>1. Query({}) /\ failed' = failed \cup {Target}
  BY DEF LoadFails
<1> QED BY <1>1, QueryInv

(* One object of the target is analysed. *)
LEMMA AnalyzeInv ==
    ASSUME Inv, Analyze
    PROVE  Inv'
<1>1. PICK o \in todo : \E hits \in SUBSET Lookups(o), others \in SUBSET alive :
          LET found == [p \in Objects |-> {q \in below[p] : <<p, q>> \in hits}] IN
          /\ todo' = todo \ {o}
          /\ part' = part \cup {[object |-> o, subs |-> found]}
          /\ cached' = cached \cup Reach(o, found) \cup others
  BY DEF Analyze
<1>2. PICK hits \in SUBSET Lookups(o), others \in SUBSET alive :
          LET found == [p \in Objects |-> {q \in below[p] : <<p, q>> \in hits}] IN
          /\ todo' = todo \ {o}
          /\ part' = part \cup {[object |-> o, subs |-> found]}
          /\ cached' = cached \cup Reach(o, found) \cup others
  BY <1>1
<1> DEFINE found == [p \in Objects |-> {q \in below[p] : <<p, q>> \in hits}]
           s == [object |-> o, subs |-> found]
<1>3. /\ todo' = todo \ {o} /\ part' = part \cup {s}
      /\ cached' = cached \cup Reach(o, found) \cup others
  BY <1>2
<1>4. /\ stage = "analyze" /\ stage' = "analyze"
      /\ UNCHANGED <<alive, below, known, cfg, matcher, loaded, failed, statuses, kept, metrics>>
  BY DEF Analyze, cluster
<1>5. TypeInv /\ CacheInv /\ AnswersInv
  BY DEF Inv
<1>6. o \in Objects
  <2>1. o \in Meant(Target)
    BY <1>4, <1>5 DEF AnswersInv, Answers
  <2> QED BY <1>5, <2>1 DEF Meant, TypeInv
<1>7. found \in [Objects -> SUBSET Objects] /\ \A p \in Objects : found[p] \subseteq below[p]
  BY <1>5 DEF TypeInv
<1> HIDE DEF found
<1>8. s \in Status /\ s.object = o
  BY <1>6, <1>7 DEF Status
<1> HIDE DEF s
<1>9. Reach(o, found) \subseteq alive
  <2>1. found[o] \subseteq alive /\ Closed(alive, found)
    BY <1>5, <1>6, <1>7 DEF TypeInv, Closed
  <2> QED BY <1>6, <1>7, <2>1, ReachLeast
<1>10. TypeInv'
  <2>1. Status' = Status
    BY <1>4 DEF Status
  <2> QED BY <1>3, <1>4, <1>5, <1>8, <2>1 DEF TypeInv
<1>11. CacheInv'
  BY <1>3, <1>4, <1>5, <1>9 DEF CacheInv
<1>12. AnswersInv'
  <2>1. \A t : Meant(t)' = Meant(t)
    BY <1>4 DEF Meant
  <2>2. Of(part') = Of(part) \cup {o}
    BY <1>3, <1>8 DEF Of
  <2>3. todo' \cup Of(part') = todo \cup Of(part)
    BY <1>3, <2>2
  <2>4. Target' = Target
    BY <1>4 DEF Target
  <2>5. Answers(Target, todo \cup Of(part))'
    BY <1>4, <1>5, <2>1, <2>3, <2>4 DEF AnswersInv, Answers, Of
  <2>6. \A i \in DOMAIN statuses : Answers(i, Of(statuses[i]))'
    BY <1>4, <1>5, <2>1 DEF AnswersInv, Answers, Of
  <2> QED BY <1>4, <2>5, <2>6 DEF AnswersInv
<1>13. KeptInv' /\ MetricsInv'
  BY <1>4 DEF KeptInv, MetricsInv
<1> QED BY <1>10, <1>11, <1>12, <1>13 DEF Inv

(* All objects of the target are analysed. *)
LEMMA TargetDoneInv ==
    ASSUME Inv, TargetDone
    PROVE  Inv'
<1>1. /\ stage = "analyze" /\ stage' = "load" /\ todo = {}
      /\ statuses' = Append(statuses, part) /\ part' = {}
      /\ UNCHANGED <<alive, below, known, cfg, matcher, loaded, cached, todo, failed, kept, metrics>>
  BY DEF TargetDone, cluster, evaluator
<1>2. TypeInv /\ CacheInv /\ AnswersInv
  BY DEF Inv
<1>3. /\ statuses \in Seq(SUBSET Status) /\ part \in SUBSET Status
      /\ Len(Targets) \in Nat /\ Len(statuses) < Len(Targets)
  BY <1>1, <1>2, TargetsFacts DEF TypeInv
<1>4. /\ statuses' \in Seq(SUBSET Status)
      /\ Len(statuses) \in Nat
      /\ Len(statuses') = Len(statuses) + 1
      /\ DOMAIN statuses' = DOMAIN statuses \cup {Target}
      /\ \A i \in DOMAIN statuses : statuses'[i] = statuses[i]
      /\ statuses'[Target] = part
  BY <1>1, <1>3 DEF Target
<1>5. TypeInv'
  <2>1. Status' = Status
    BY <1>1 DEF Status
  <2>2. Len(statuses') <= Len(Targets)
    BY <1>3, <1>4
  <2> QED BY <1>1, <1>2, <1>4, <2>1, <2>2 DEF TypeInv
<1>6. CacheInv'
  BY <1>1, <1>2 DEF CacheInv
<1>7. AnswersInv'
  <2>1. \A t : Meant(t)' = Meant(t)
    BY <1>1 DEF Meant
  <2>2. ASSUME NEW i \in DOMAIN statuses' PROVE Answers(i, Of(statuses'[i]))
    <3>1. CASE i \in DOMAIN statuses
      BY <1>2, <1>4, <3>1 DEF AnswersInv
    <3>2. CASE i = Target
      <4>1. todo \cup Of(part) = Of(part)
        BY <1>1
      <4> QED BY <1>1, <1>2, <1>4, <3>2, <4>1 DEF AnswersInv
    <3> QED BY <1>4, <2>2, <3>1, <3>2
  <2> QED BY <1>1, <2>1, <2>2 DEF AnswersInv, Answers, Of
<1>8. KeptInv' /\ MetricsInv'
  BY <1>1 DEF KeptInv, MetricsInv
<1> QED BY <1>5, <1>6, <1>7, <1>8 DEF Inv

(* The list of targets is through. *)
LEMMA PollEndsInv ==
    ASSUME Inv, PollEnds
    PROVE  Inv'
<1>1. /\ stage = "load" /\ stage' = "dedup" /\ Target > Len(cfg)
      /\ UNCHANGED <<alive, below, known, cfg, matcher, loaded, cached, todo, part, failed,
                     statuses, kept, metrics>>
  BY DEF PollEnds, cluster, evaluator
<1>2. TypeInv /\ CacheInv /\ AnswersInv
  BY DEF Inv
<1>3. Len(statuses) = Len(Targets)
  <2>1. Len(cfg) = Len(Targets) /\ Len(Targets) \in Nat
    BY <1>2, ConfigFacts, TargetsFacts DEF TypeInv
  <2>2. Len(statuses) \in Nat /\ Len(statuses) <= Len(Targets)
    BY <1>2 DEF TypeInv
  <2> QED BY <1>1, <2>1, <2>2 DEF Target
<1>4. TypeInv' /\ CacheInv'
  BY <1>1, <1>2, <1>3 DEF TypeInv, CacheInv, Status
<1>5. AnswersInv' /\ KeptInv' /\ MetricsInv'
  BY <1>1, <1>2 DEF AnswersInv, Answers, Of, Meant, KeptInv, MetricsInv
<1> QED BY <1>4, <1>5 DEF Inv

(* dedup: what it has seen is what is shown below something. *)
LEMMA DedupInv ==
    ASSUME Inv, Dedup
    PROVE  Inv'
<1>1. /\ stage = "dedup" /\ stage' = "digest"
      /\ kept' = [i \in DOMAIN statuses |-> {s \in statuses[i] : s.object \notin Seen}]
      /\ UNCHANGED <<alive, below, known, cfg, matcher, loaded, cached, todo, part, failed,
                     statuses, metrics>>
  BY DEF Dedup, cluster, evaluator
<1>2. TypeInv /\ CacheInv /\ AnswersInv
  BY DEF Inv
<1>3. TypeInv' /\ CacheInv'
  BY <1>1, <1>2 DEF TypeInv, CacheInv, Status
<1>4. AnswersInv' /\ MetricsInv'
  BY <1>1, <1>2 DEF AnswersInv, Answers, Of, Meant, MetricsInv
<1>5. Seen = Hidden
  BY DEF Seen, Hidden, subObjectsIDs, Shown
<1>6. Hidden' = Hidden
  BY <1>1 DEF Hidden, Shown, All, Reach
<1>7. KeptInv'
  BY <1>1, <1>5, <1>6 DEF KeptInv
<1> QED BY <1>3, <1>4, <1>7 DEF Inv

(* digestUpdates *)
LEMMA DigestInv ==
    ASSUME Inv, Digest
    PROVE  Inv'
<1>1. /\ stage = "digest" /\ stage' = "serve"
      /\ metrics' = UNION {{[from |-> i, labels |-> statusToMetric(cfg[i].category, s)] :
                               s \in kept[i]} : i \in DOMAIN kept}
      /\ UNCHANGED <<alive, below, known, cfg, matcher, loaded, cached, todo, part, failed,
                     statuses, kept>>
  BY DEF Digest, cluster, evaluator
<1>2. TypeInv /\ CacheInv /\ AnswersInv /\ KeptInv
  BY DEF Inv
<1>3. TypeInv' /\ CacheInv'
  BY <1>1, <1>2 DEF TypeInv, CacheInv, Status
<1>4. AnswersInv'
  BY <1>1, <1>2 DEF AnswersInv, Answers, Of, Meant
<1>5. Hidden' = Hidden
  BY <1>1 DEF Hidden, Shown, All, Reach
<1>6. KeptInv'
  BY <1>1, <1>2, <1>5 DEF KeptInv
<1>7. DOMAIN kept = DOMAIN Targets
  <2>1. DOMAIN statuses = 1..Len(Targets)
    BY <1>1, <1>2 DEF TypeInv
  <2> QED BY <1>1, <1>2, <2>1, TargetsFacts DEF KeptInv
<1>8. \A i \in DOMAIN kept : cfg[i].category = Targets[i].category
  BY <1>2, <1>7, ConfigFacts DEF TypeInv
<1>9. metrics' = UNION {{[from |-> i, labels |-> statusToMetric(Targets[i].category, s)] :
                            s \in kept[i]} : i \in DOMAIN kept}
  BY <1>1, <1>8
<1>10. MetricsInv'
  BY <1>1, <1>9 DEF MetricsInv, statusToMetric
<1> QED BY <1>3, <1>4, <1>6, <1>10 DEF Inv

(* The next run, of a cluster that has lost objects. *)
LEMMA NextRunInv ==
    ASSUME Inv, NextRun
    PROVE  Inv'
<1>1. /\ stage = "serve" /\ stage' = "load" /\ alive' \in SUBSET alive
      /\ below' = [o \in Objects |-> IF o \in alive' THEN below[o] \cap alive' ELSE {}]
      /\ loaded' = {} /\ cached' = {} /\ statuses' = <<>>
      /\ UNCHANGED <<known, cfg, part>>
  BY DEF NextRun
<1>2. TypeInv
  BY DEF Inv
<1>3. /\ below' \in [Objects -> SUBSET Objects]
      /\ \A o \in Objects : below'[o] \subseteq below[o] /\ below'[o] \subseteq alive'
  BY <1>1, <1>2 DEF TypeInv
<1>4. Acyclic(below')
  BY <1>2, <1>3, ShrinkAcyclic DEF TypeInv
<1>5. /\ statuses' \in Seq(SUBSET Status') /\ Len(statuses') = 0 /\ DOMAIN statuses' = {}
      /\ Len(Targets) \in Nat /\ part' = {}
  BY <1>1, <1>2, TargetsFacts DEF TypeInv
<1>6. TypeInv'
  <2>1. Len(statuses') <= Len(Targets)
    BY <1>5
  <2>2. alive' \in SUBSET Objects
    BY <1>1, <1>2 DEF TypeInv
  <2> QED BY <1>1, <1>2, <1>3, <1>4, <1>5, <2>1, <2>2 DEF TypeInv
<1>7. CacheInv' /\ AnswersInv' /\ KeptInv' /\ MetricsInv'
  BY <1>1, <1>5 DEF CacheInv, AnswersInv, KeptInv, MetricsInv
<1> QED BY <1>6, <1>7 DEF Inv

(* The invariant holds in every state. *)
LEMMA InvHolds == Spec => []Inv
<1>1. Inv /\ [Next]_vars => Inv'
  <2> SUFFICES ASSUME Inv, [Next]_vars PROVE Inv'
    OBVIOUS
  <2>1. CASE UNCHANGED vars
    <3>1. UNCHANGED <<alive, below, known, cfg, matcher, loaded, cached, todo, part, failed,
                      statuses, kept, stage, metrics>>
      BY <2>1 DEF vars, cluster, evaluator
    <3>2. TypeInv' /\ CacheInv' /\ AnswersInv'
      BY <3>1 DEF Inv, TypeInv, CacheInv, Status, AnswersInv, Answers, Of, Meant, Target
    <3>3. Hidden' = Hidden
      BY <3>1 DEF Hidden, Shown, All, Reach
    <3>4. KeptInv'
      BY <3>1, <3>3 DEF Inv, KeptInv
    <3>5. MetricsInv'
      BY <3>1 DEF Inv, MetricsInv, statusToMetric
    <3> QED BY <3>2, <3>4, <3>5 DEF Inv
  <2> QED BY <2>1, LoadInv, LoadFailsInv, AnalyzeInv, TargetDoneInv, PollEndsInv, DedupInv,
             DigestInv, NextRunInv DEF Next
<1> QED BY <1>1, InitInv, PTL DEF Spec

-----------------------------------------------------------------------------
(* What a status shows is below its object in the cluster, so not the object itself. *)
LEMMA ShownFacts ==
    ASSUME TypeInv, NEW s \in All(statuses)
    PROVE  /\ s.object \in Objects \ Shown(s)
           /\ Shown(s) \subseteq Objects
           /\ Shown(s) \subseteq Reach(s.object, below)
<1>1. s \in Status
  BY DEF TypeInv, All
<1>2. /\ s.object \in Objects /\ s.subs \in [Objects -> SUBSET Objects]
      /\ \A p \in Objects : s.subs[p] \subseteq below[p]
      /\ below \in [Objects -> SUBSET Objects] /\ Acyclic(below)
  BY <1>1 DEF Status, TypeInv
<1>3. Shown(s) \subseteq Reach(s.object, below)
  BY <1>2, ReachShrinks DEF Shown
<1>4. Reach(s.object, below) \subseteq Objects
  BY <1>2, ReachClosed
<1> QED BY <1>2, <1>3, <1>4 DEF Acyclic

(* With the list of targets through, there is a part for each of them. *)
LEMMA PartsFacts ==
    ASSUME Inv, stage = "serve"
    PROVE  /\ DOMAIN statuses = DOMAIN Targets
           /\ DOMAIN kept = DOMAIN Targets
           /\ \A i \in DOMAIN Targets :
                 /\ kept[i] = {s \in statuses[i] : s.object \notin Hidden}
                 /\ Of(statuses[i]) \subseteq Meant(i)
                 /\ i \notin failed => Meant(i) \subseteq Of(statuses[i])
<1>1. DOMAIN statuses = DOMAIN Targets
  BY TargetsFacts DEF Inv, TypeInv
<1>2. kept = [i \in DOMAIN statuses |-> {s \in statuses[i] : s.object \notin Hidden}]
  BY DEF Inv, KeptInv
<1> QED BY <1>1, <1>2 DEF Inv, AnswersInv, Answers

(* The statuses that are left are those whose object is shown nowhere. *)
LEMMA KeptValue ==
    ASSUME Inv, stage = "serve"
    PROVE  All(kept) = {s \in All(statuses) : s.object \notin Hidden}
BY PartsFacts DEF All

(* The metrics of a run: which objects, under which categories. *)
LEMMA MetricsValue ==
    ASSUME Inv, stage = "serve", NEW o, NEW c
    PROVE  (\E m \in metrics : m.labels.object = o /\ m.labels.category = c)
              <=> \E i \in DOMAIN Targets :
                     o \in Of(statuses[i]) \ Hidden /\ Targets[i].category = c
<1>1. \A m : m \in metrics <=>
             \E i \in DOMAIN Targets : \E s \in kept[i] :
                m = [from |-> i, labels |-> statusToMetric(Targets[i].category, s)]
  BY PartsFacts DEF Inv, MetricsInv
<1>2. \A i, s : LET m == [from |-> i, labels |-> statusToMetric(Targets[i].category, s)]
                IN  m.labels.object = s.object /\ m.labels.category = Targets[i].category
  BY DEF statusToMetric
<1>3. ASSUME NEW m \in metrics, m.labels.object = o, m.labels.category = c
      PROVE  \E i \in DOMAIN Targets : o \in Of(statuses[i]) \ Hidden /\ Targets[i].category = c
  <2>1. PICK i \in DOMAIN Targets : \E s \in kept[i] :
           m = [from |-> i, labels |-> statusToMetric(Targets[i].category, s)]
    BY <1>1, <1>3
  <2>2. PICK s \in kept[i] : m = [from |-> i, labels |-> statusToMetric(Targets[i].category, s)]
    BY <2>1
  <2>3. s.object = o /\ Targets[i].category = c
    BY <1>2, <1>3, <2>2
  <2>4. s \in statuses[i] /\ s.object \notin Hidden
    BY <2>2, PartsFacts
  <2> QED BY <2>3, <2>4 DEF Of
<1>4. ASSUME NEW i \in DOMAIN Targets, o \in Of(statuses[i]) \ Hidden, Targets[i].category = c
      PROVE  \E m \in metrics : m.labels.object = o /\ m.labels.category = c
  <2>1. PICK s \in statuses[i] : s.object = o
    BY <1>4 DEF Of
  <2>2. s \in kept[i]
    BY <1>4, <2>1, PartsFacts
  <2>3. [from |-> i, labels |-> statusToMetric(Targets[i].category, s)] \in metrics
    BY <1>1, <2>2
  <2> QED BY <1>2, <1>4, <2>1, <2>3
<1> QED BY <1>3, <1>4

(* The exported objects are those of the statuses that are left. *)
LEMMA ExportedValue ==
    ASSUME Inv, stage = "serve"
    PROVE  Exported = Of(All(statuses)) \ Hidden
<1>1. ASSUME NEW o \in Exported PROVE o \in Of(All(statuses)) \ Hidden
  <2>1. PICK m \in metrics : m.labels.object = o
    BY DEF Exported
  <2>2. PICK i \in DOMAIN Targets : o \in Of(statuses[i]) \ Hidden
    BY <2>1, MetricsValue
  <2> QED BY <2>2, PartsFacts DEF Of, All
<1>2. ASSUME NEW o \in Of(All(statuses)) \ Hidden PROVE o \in Exported
  <2>1. PICK i \in DOMAIN Targets : o \in Of(statuses[i]) \ Hidden
    BY PartsFacts DEF Of, All
  <2>2. \E m \in metrics : m.labels.object = o
    BY <2>1, MetricsValue
  <2> QED BY <2>2 DEF Exported
<1> QED BY <1>1, <1>2

(***************************************************************************)
(* dedup drops only what is elsewhere: whatever the configuration file     *)
(* says, whichever lists and lookups failed and however deep the trees     *)
(* are, an object of a target whose own list was answered is exported or   *)
(* is below an exported object; and where no lookup found less the second  *)
(* time, that object's status shows it.                                    *)
(***************************************************************************)
THEOREM DedupHidesNothing == Spec => []NothingHidden
<1>1. Inv => NothingHidden
  <2> SUFFICES ASSUME Inv, stage = "serve", NEW o \in Polled, o \notin Exported
               PROVE  /\ \E p \in Exported : o \in Reach(p, below)
                      /\ Consistent => \E s \in All(kept) : o \in Shown(s)
    BY DEF NothingHidden
  <2>1. TypeInv /\ below \in [Objects -> SUBSET Objects] /\ Acyclic(below)
    BY DEF Inv, TypeInv
  <2>2. o \in Of(All(statuses))
    <3>1. PICK i \in DOMAIN Targets \ failed : o \in Meant(i)
      BY DEF Polled
    <3>2. o \in Of(statuses[i]) /\ i \in DOMAIN statuses
      BY <3>1, PartsFacts
    <3> QED BY <3>2 DEF Of, All
  <2>3. PICK a \in All(statuses) : o \in Shown(a)
    BY <2>2, ExportedValue DEF Hidden
  <2>4. \A s \in All(statuses) : /\ s.object \in Objects \ Shown(s) /\ Shown(s) \subseteq Objects
                                 /\ Shown(s) \subseteq Reach(s.object, below)
    BY <2>1, ShownFacts
  <2>5. \E p \in Exported : o \in Reach(p, below)
    <3> DEFINE A == Of(All(statuses))
    <3>1. A \in SUBSET Objects /\ a.object \in A /\ o \in Reach(a.object, below)
      BY <2>3, <2>4 DEF Of
    <3>2. PICK p \in A : o \in Reach(p, below) /\ \A q \in A : p \notin Reach(q, below)
      <4> HIDE DEF A
      <4> QED BY <2>1, <3>1, TopExists
    <3>3. p \notin Hidden
      BY <2>4, <3>2 DEF Hidden, Of
    <3> QED BY <3>2, <3>3, ExportedValue
  <2>6. ASSUME Consistent PROVE \E s \in All(kept) : o \in Shown(s)
    <3>1. PICK s \in All(statuses) :
             o \in Shown(s) /\ \A t \in All(statuses) : s.object \notin Shown(t)
      <4>1. \A s, t \in All(statuses) : s.object \in Shown(t) => Shown(s) \subseteq Shown(t)
        BY <2>6 DEF Consistent
      <4> QED BY <2>3, <2>4, <4>1, TopTreeExists
    <3>2. s \in All(kept)
      BY <3>1, KeptValue DEF Hidden
    <3> QED BY <3>1, <3>2
  <2> QED BY <2>5, <2>6
<1> QED BY <1>1, InvHolds, PTL

(* dedup is complete: no exported object is shown below another exported object. *)
THEOREM DedupIsComplete == Spec => []NoNesting
<1>1. Inv => NoNesting
  <2> SUFFICES ASSUME Inv, stage = "serve", NEW o \in Exported, NEW s \in All(kept)
               PROVE  o \notin Shown(s)
    BY DEF NoNesting
  <2>1. o \notin Hidden /\ s \in All(statuses)
    BY ExportedValue, KeptValue
  <2> QED BY <2>1 DEF Hidden
<1> QED BY <1>1, InvHolds, PTL

(***************************************************************************)
(* ReadConfig, run with lists that fail, dedup and digestUpdates together: *)
(* a category has no objects but those of its targets, and a target whose  *)
(* own list was answered lacks none that is shown below nothing, whatever  *)
(* happened to the targets before it.                                      *)
(***************************************************************************)
THEOREM CategoriesAreKept == Spec => []CategoriesKept
<1>1. Inv => CategoriesKept
  <2> SUFFICES ASSUME Inv, stage = "serve", NEW c \in Categories
               PROVE
          LET of(ts) == (UNION {Meant(i) : i \in {j \in ts : Targets[j].category = c}}) \ Hidden
              mine == {m.labels.object : m \in {x \in metrics : x.labels.category = c}}
          IN  of(DOMAIN Targets \ failed) \subseteq mine /\ mine \subseteq of(DOMAIN Targets)
    BY DEF CategoriesKept
  <2> DEFINE of(ts) == (UNION {Meant(i) : i \in {j \in ts : Targets[j].category = c}}) \ Hidden
             mine == {m.labels.object : m \in {x \in metrics : x.labels.category = c}}
  <2>1. \A o : o \in mine <=> \E m \in metrics : m.labels.object = o /\ m.labels.category = c
    OBVIOUS
  <2>6. ASSUME NEW o, NEW ts
        PROVE  o \in of(ts) <=> \E i \in ts : o \in Meant(i) \ Hidden /\ Targets[i].category = c
    OBVIOUS
  <2>2. ASSUME NEW o \in of(DOMAIN Targets \ failed) PROVE o \in mine
    <3> HIDE DEF of
    <3>1. PICK i \in DOMAIN Targets \ failed : o \in Meant(i) \ Hidden /\ Targets[i].category = c
      BY <2>2, <2>6
    <3>2. o \in Of(statuses[i]) \ Hidden
      BY <3>1, PartsFacts
    <3> HIDE DEF mine
    <3> QED BY <2>1, <3>1, <3>2, MetricsValue
  <2>3. ASSUME NEW o \in mine PROVE o \in of(DOMAIN Targets)
    <3>1. \E m \in metrics : m.labels.object = o /\ m.labels.category = c
      BY <2>1, <2>3
    <3>2. PICK i \in DOMAIN Targets : o \in Of(statuses[i]) \ Hidden /\ Targets[i].category = c
      BY <3>1, MetricsValue
    <3>3. o \in Meant(i) \ Hidden
      BY <3>2, PartsFacts
    <3> HIDE DEF of
    <3> QED BY <2>6, <3>2, <3>3
  <2> HIDE DEF of, mine
  <2>4. of(DOMAIN Targets \ failed) \subseteq mine /\ mine \subseteq of(DOMAIN Targets)
    BY <2>2, <2>3
  <2> QED BY <2>4 DEF of, mine
<1> QED BY <1>1, InvHolds, PTL
=============================================================================
