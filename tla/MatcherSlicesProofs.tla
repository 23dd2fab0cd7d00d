------------------------ MODULE MatcherSlicesProofs ------------------------
(***************************************************************************)
(* Proofs about module MatcherSlices, for every set of requests that meets *)
(* RequestsAssumption and every number of loads.                           *)
(***************************************************************************)
EXTENDS MatcherSlices, FiniteSetTheorems, TLAPS

-----------------------------------------------------------------------------
(***************************************************************************)
(* Induction over the naturals, stated for a set: a set that has 0 and     *)
(* with a number its successor has them all, because the first number that *)
(* it does not have would have a predecessor that it has.                  *)
(***************************************************************************)
LEMMA SetInduction ==
    ASSUME NEW T, 0 \in T, \A n \in Nat : n \in T => n + 1 \in T
    PROVE  \A n \in Nat : n \in T
<1> DEFINE R == OpToRel(<, Nat)
           U == Nat \ T
<1>1. \A i, j \in Nat : <<i, j>> \in R <=> i < j
  BY DEF OpToRel
<1>2. IsWellFoundedOn(R, Nat)
  BY NatLessThanWellFounded
<1> SUFFICES ASSUME U # {} PROVE FALSE
  OBVIOUS
<1>3. PICK m \in U : \A k \in U : <<k, m>> \notin R
  <2>1. U \subseteq Nat
    OBVIOUS
  <2> HIDE DEF R, U
  <2> QED BY <1>2, <2>1, WFMin
<1>4. m \in Nat /\ m \notin T /\ m # 0
  BY <1>3
<1>5. m - 1 \in Nat
  BY <1>4
<1>6. m - 1 \notin T
  BY <1>4, <1>5
<1>7. m - 1 \in U
  BY <1>5, <1>6
<1> HIDE DEF R
<1>8. ~(m - 1 < m)
  BY <1>1, <1>3, <1>4, <1>5, <1>7
<1> QED BY <1>4, <1>8

-----------------------------------------------------------------------------
(* One round of the loop of intersect2. *)
Round(a, b, g, i) ==
    IF i = 0 THEN <<>>
    ELSE IF Contains(a, b[i]) THEN Append(g[i - 1], b[i])
    ELSE g[i - 1]

(* The loop of intersect2 is well defined. *)
LEMMA LoopExists ==
    ASSUME NEW a, NEW b, NEW n \in Nat
    PROVE  \E g : g = [i \in 0..n |-> Round(a, b, g, i)]
<1> DEFINE T == {m \in Nat : \E g : g = [i \in 0..m |-> Round(a, b, g, i)]}
<1>1. 0 \in T
  <2> DEFINE g == [i \in 0..0 |-> <<>>]
  <2>1. g = [i \in 0..0 |-> Round(a, b, g, i)]
    BY DEF Round
  <2> QED BY <2>1
<1>2. ASSUME NEW m \in Nat, m \in T PROVE m + 1 \in T
  <2>1. PICK g : g = [i \in 0..m |-> Round(a, b, g, i)]
    BY <1>2
  <2> DEFINE h == [i \in 0..(m + 1) |-> IF i <= m THEN g[i] ELSE Round(a, b, g, i)]
  <2>2. ASSUME NEW i \in 0..(m + 1) PROVE h[i] = Round(a, b, h, i)
    <3>1. i # 0 => i - 1 \in 0..(m + 1) /\ i - 1 <= m /\ h[i - 1] = g[i - 1]
      OBVIOUS
    <3>2. Round(a, b, h, i) = Round(a, b, g, i)
      <4> HIDE DEF h
      <4> QED BY <3>1 DEF Round
    <3>3. CASE i <= m
      BY <2>1, <3>2, <3>3
    <3>4. CASE ~(i <= m)
      BY <3>2, <3>4
    <3> QED BY <3>3, <3>4
  <2>3. h = [i \in 0..(m + 1) |-> Round(a, b, h, i)]
    BY <2>2
  <2> HIDE DEF h
  <2> QED BY <2>3
<1> HIDE DEF T
<1>3. n \in T
  BY <1>1, <1>2, SetInduction
<1> QED BY <1>3 DEF T

(* intersect2 is the last value of its loop. *)
LEMMA LoopValue ==
    ASSUME NEW a, NEW b, Len(b) \in Nat
    PROVE  \E g : /\ g = [i \in 0..Len(b) |-> Round(a, b, g, i)]
                  /\ intersect2(a, b) = g[Len(b)]
<1> DEFINE Loop(g) == g = [i \in 0..Len(b) |-> Round(a, b, g, i)]
           kept == CHOOSE g : Loop(g)
<1>1. \E g : Loop(g)
  BY LoopExists
<1>2. Loop(kept)
  <2> HIDE DEF Loop
  <2> QED BY <1>1
<1>3. intersect2(a, b) = kept[Len(b)]
  BY DEF intersect2, Round
<1> HIDE DEF kept
<1> QED BY <1>2, <1>3

(* What the first i rounds have kept. *)
Kept(E, a, b, g, i) ==
    /\ g[i] \in Seq(E)
    /\ Len(g[i]) <= i
    /\ \A x : (\E j \in 1..Len(g[i]) : g[i][j] = x)
                 <=> (\E j \in 1..i : b[j] = x /\ Contains(a, b[j]))
    /\ Len(g[i]) = i <=> \A j \in 1..i : Contains(a, b[j])
    /\ Len(g[i]) = i => \A j \in 1..i : g[i][j] = b[j]
    /\ (\A j, k \in 1..i : b[j] = b[k] => j = k) =>
          \A j, k \in 1..Len(g[i]) : g[i][j] = g[i][k] => j = k

(* Every round of the loop keeps what it should. *)
LEMMA LoopInvariant ==
    ASSUME NEW E, NEW a \in Seq(E), NEW b \in Seq(E),
           NEW g, g = [i \in 0..Len(b) |-> Round(a, b, g, i)]
    PROVE  \A i \in 0..Len(b) : Kept(E, a, b, g, i)
<1> DEFINE Typed(i) == g[i] \in Seq(E) /\ Len(g[i]) <= i
           Elements(i) == \A x : (\E j \in 1..Len(g[i]) : g[i][j] = x)
                                    <=> (\E j \in 1..i : b[j] = x /\ Contains(a, b[j]))
           Full(i) == Len(g[i]) = i <=> \A j \in 1..i : Contains(a, b[j])
           Same(i) == Len(g[i]) = i => \A j \in 1..i : g[i][j] = b[j]
           Distinct(i) == (\A j, k \in 1..i : b[j] = b[k] => j = k) =>
                             \A j, k \in 1..Len(g[i]) : g[i][j] = g[i][k] => j = k
           P(i) == Typed(i) /\ Elements(i) /\ Full(i) /\ Same(i) /\ Distinct(i)
<1>1. \A i \in 0..Len(b) : g[i] = Round(a, b, g, i)
  BY Zenon
<1>2. P(0)
  <2>1. g[0] = <<>>
    BY <1>1 DEF Round
  <2>2. Typed(0) /\ Full(0)
    BY <2>1
  <2>3. Elements(0) /\ Same(0) /\ Distinct(0)
    BY <2>1
  <2> QED BY <2>2, <2>3
<1>3. ASSUME NEW i \in Nat, i + 1 <= Len(b), P(i) PROVE P(i + 1)
  <2> DEFINE s == g[i]
             t == g[i + 1]
             e == b[i + 1]
  <2>1. s \in Seq(E) /\ Len(s) \in Nat /\ Len(s) <= i /\ e \in E
    BY <1>3
  <2>2. t = IF Contains(a, e) THEN Append(s, e) ELSE s
    <3>1. i + 1 \in 0..Len(b) /\ i + 1 # 0 /\ (i + 1) - 1 = i
      BY <1>3
    <3> QED BY <1>1, <3>1 DEF Round
  <2>3. CASE Contains(a, e)
    <3> HIDE DEF s, t, e
    <3>1. /\ t \in Seq(E) /\ Len(t) = Len(s) + 1 /\ t[Len(s) + 1] = e
          /\ \A j \in 1..Len(s) : t[j] = s[j]
      BY <2>1, <2>2, <2>3
    <3>2. Typed(i + 1)
      BY <2>1, <3>1 DEF t
    <3>3. Elements(i + 1)
      <4> SUFFICES ASSUME NEW x
                   PROVE  (\E j \in 1..Len(t) : t[j] = x)
                             <=> (\E j \in 1..(i + 1) : b[j] = x /\ Contains(a, b[j]))
        BY DEF t
      <4>1. (\E j \in 1..Len(t) : t[j] = x) <=> (\E j \in 1..Len(s) : s[j] = x) \/ e = x
        <5>1. 1..Len(t) = 1..Len(s) \cup {Len(s) + 1}
          BY <2>1, <3>1
        <5> QED BY <3>1, <5>1
      <4>2. (\E j \in 1..Len(s) : s[j] = x) <=> (\E j \in 1..i : b[j] = x /\ Contains(a, b[j]))
        BY <1>3 DEF s
      <4>3. (\E j \in 1..(i + 1) : b[j] = x /\ Contains(a, b[j]))
                <=> (\E j \in 1..i : b[j] = x /\ Contains(a, b[j])) \/ e = x
        BY <2>3 DEF e
      <4> QED BY <4>1, <4>2, <4>3
    <3>4. Full(i + 1)
      <4>1. Len(t) = i + 1 <=> Len(s) = i
        BY <2>1, <3>1
      <4>2. Len(s) = i <=> \A j \in 1..i : Contains(a, b[j])
        BY <1>3 DEF s
      <4>3. (\A j \in 1..(i + 1) : Contains(a, b[j])) <=> \A j \in 1..i : Contains(a, b[j])
        BY <2>3 DEF e
      <4> QED BY <4>1, <4>2, <4>3 DEF t
    <3>5. Same(i + 1)
      <4> SUFFICES ASSUME Len(t) = i + 1, NEW j \in 1..(i + 1) PROVE t[j] = b[j]
        BY DEF t
      <4>1. Len(s) = i
        BY <2>1, <3>1
      <4>2. \A k \in 1..i : s[k] = b[k]
        BY <1>3, <4>1 DEF s
      <4> QED BY <3>1, <4>1, <4>2 DEF e
    <3>6. Distinct(i + 1)
      <4> SUFFICES ASSUME \A j, k \in 1..(i + 1) : b[j] = b[k] => j = k
                   PROVE  \A j, k \in 1..Len(t) : t[j] = t[k] => j = k
        BY DEF t
      <4>0. \A j, k \in 1..i : b[j] = b[k] => j = k
        OBVIOUS
      <4>1. \A j, k \in 1..Len(s) : s[j] = s[k] => j = k
        BY <1>3, <4>0 DEF s
      <4>2. ASSUME NEW j \in 1..Len(s) PROVE s[j] # e
        <5>1. PICK k \in 1..i : b[k] = s[j]
          BY <1>3 DEF s
        <5> QED BY <5>1 DEF e
      <4>3. 1..Len(t) = 1..Len(s) \cup {Len(s) + 1}
        BY <2>1, <3>1
      <4> QED BY <3>1, <4>1, <4>2, <4>3
    <3> QED BY <3>2, <3>3, <3>4, <3>5, <3>6
  <2>4. CASE ~Contains(a, e)
    <3>1. g[i + 1] = g[i]
      BY <2>2, <2>4
    <3>2. Typed(i + 1)
      BY <1>3, <3>1
    <3>3. Len(g[i + 1]) # i + 1
      BY <2>1, <3>1
    <3>4. Full(i + 1) /\ Same(i + 1)
      BY <2>4, <3>3
    <3>5. Elements(i + 1)
      <4>1. \A x : (\E j \in 1..(i + 1) : b[j] = x /\ Contains(a, b[j]))
                       <=> (\E j \in 1..i : b[j] = x /\ Contains(a, b[j]))
        BY <2>4
      <4>2. Elements(i)
        BY <1>3
      <4>3. ASSUME NEW x
            PROVE  (\E j \in 1..Len(g[i + 1]) : g[i + 1][j] = x)
                       <=> (\E j \in 1..(i + 1) : b[j] = x /\ Contains(a, b[j]))
        <5>1. (\E j \in 1..Len(g[i]) : g[i][j] = x)
                  <=> (\E j \in 1..i : b[j] = x /\ Contains(a, b[j]))
          BY <4>2
        <5> QED BY <3>1, <4>1, <5>1
      <4> QED BY <4>3
    <3>6. Distinct(i + 1)
      <4> SUFFICES ASSUME \A j, k \in 1..(i + 1) : b[j] = b[k] => j = k
                   PROVE  \A j, k \in 1..Len(g[i + 1]) : g[i + 1][j] = g[i + 1][k] => j = k
        OBVIOUS
      <4>1. \A j, k \in 1..i : b[j] = b[k] => j = k
        OBVIOUS
      <4>2. \A j, k \in 1..Len(g[i]) : g[i][j] = g[i][k] => j = k
        BY <1>3, <4>1
      <4> QED BY <3>1, <4>2
    <3> QED BY <3>2, <3>4, <3>5, <3>6
  <2> QED BY <2>3, <2>4
<1> DEFINE T == {i \in Nat : i <= Len(b) => P(i)}
<1> HIDE DEF P
<1>4. 0 \in T /\ \A i \in Nat : i \in T => i + 1 \in T
  BY <1>2, <1>3
<1> HIDE DEF T
<1>5. \A i \in Nat : i \in T
  BY <1>4, SetInduction
<1>6. \A i \in 0..Len(b) : P(i)
  BY <1>5 DEF T
<1> QED BY <1>6 DEF P, Kept

(***************************************************************************)
(* What intersect2 gives: the common elements; as many as b has only when  *)
(* every element of b is in a, and then b itself; and no repetition that b *)
(* did not have.                                                           *)
(***************************************************************************)
LEMMA Intersect ==
    ASSUME NEW E, NEW a \in Seq(E), NEW b \in Seq(E)
    PROVE  /\ intersect2(a, b) \in Seq(E)
           /\ ToSet(intersect2(a, b)) = ToSet(a) \cap ToSet(b)
           /\ Len(intersect2(a, b)) = Len(b) <=> ToSet(b) \subseteq ToSet(a)
           /\ ToSet(b) \subseteq ToSet(a) => intersect2(a, b) = b
           /\ IsInjective(b) => IsInjective(intersect2(a, b))
<1> DEFINE I == intersect2(a, b)
<1>1. Len(b) \in Nat
  OBVIOUS
<1>2. PICK g : /\ g = [i \in 0..Len(b) |-> Round(a, b, g, i)]
               /\ I = g[Len(b)]
  BY <1>1, LoopValue
<1> HIDE DEF I
<1>3. /\ I \in Seq(E)
      /\ \A x : (\E j \in 1..Len(I) : I[j] = x)
                   <=> (\E j \in 1..Len(b) : b[j] = x /\ Contains(a, b[j]))
      /\ Len(I) = Len(b) <=> \A j \in 1..Len(b) : Contains(a, b[j])
      /\ Len(I) = Len(b) => \A j \in 1..Len(b) : I[j] = b[j]
      /\ (\A j, k \in 1..Len(b) : b[j] = b[k] => j = k) =>
            \A j, k \in 1..Len(I) : I[j] = I[k] => j = k
  <2>1. Len(b) \in 0..Len(b)
    BY <1>1
  <2>2. Kept(E, a, b, g, Len(b))
    BY <1>2, <2>1, LoopInvariant
  <2> QED BY <1>2, <2>2 DEF Kept
<1>4. \A s \in Seq(E) : DOMAIN s = 1..Len(s)
  OBVIOUS
<1>5. \A x : Contains(a, x) <=> x \in ToSet(a)
  BY <1>4 DEF Contains, ToSet
<1>6. \A s \in Seq(E) : \A x : x \in ToSet(s) <=> \E j \in 1..Len(s) : s[j] = x
  BY <1>4 DEF ToSet
<1>7. ToSet(I) = ToSet(a) \cap ToSet(b)
  <2>1. ASSUME NEW x PROVE x \in ToSet(I) <=> x \in ToSet(a) /\ x \in ToSet(b)
    <3>1. x \in ToSet(I) <=> \E j \in 1..Len(b) : b[j] = x /\ Contains(a, b[j])
      BY <1>3, <1>6
    <3>2. x \in ToSet(b) <=> \E j \in 1..Len(b) : b[j] = x
      BY <1>6
    <3> QED BY ONLY <1>5, <3>1, <3>2
  <2> QED BY <2>1
<1>8. Len(I) = Len(b) <=> ToSet(b) \subseteq ToSet(a)
  <2>1. (\A j \in 1..Len(b) : Contains(a, b[j])) <=> ToSet(b) \subseteq ToSet(a)
    BY <1>5, <1>6
  <2> QED BY <1>3, <2>1
<1>9. ToSet(b) \subseteq ToSet(a) => I = b
  BY <1>3, <1>8
<1>10. IsInjective(b) => IsInjective(I)
  BY <1>3, <1>4 DEF IsInjective
<1> QED BY <1>3, <1>7, <1>8, <1>9, <1>10 DEF I

(* Two lists without repetition that have the same elements are as long as each other. *)
LEMMA SameLength ==
    ASSUME NEW E, NEW a \in Seq(E), NEW b \in Seq(E),
           IsInjective(a), IsInjective(b), ToSet(a) = ToSet(b)
    PROVE  Len(a) = Len(b)
<1>1. ASSUME NEW s \in Seq(E), IsInjective(s)
      PROVE  Cardinality(ToSet(s)) = Len(s)
  <2>1. Len(s) \in Nat /\ DOMAIN s = 1..Len(s)
    OBVIOUS
  <2>2. s \in [1..Len(s) -> ToSet(s)]
    BY <2>1 DEF ToSet
  <2>3. s \in Bijection(1..Len(s), ToSet(s))
    BY <1>1, <2>1, <2>2 DEF Bijection, Injection, Surjection, IsInjective, ToSet
  <2>4. ExistsBijection(1..Len(s), ToSet(s))
    BY <2>3 DEF ExistsBijection
  <2> QED BY <2>1, <2>4, FS_CountingElements
<1>2. Cardinality(ToSet(a)) = Len(a) /\ Cardinality(ToSet(b)) = Len(b)
  BY <1>1
<1> QED BY <1>2

-----------------------------------------------------------------------------
(* A matcher that includes all has excluded kinds only, another included ones only. *)
WellFormed(m) ==
    /\ m \in [all : BOOLEAN, inc : Seq(Kind), exc : Seq(Kind)]
    /\ IF m.all THEN m.inc = <<>> ELSE m.exc = <<>>

(* Neither of two matchers leaves out what the other one includes. *)
Compatible(m, r) ==
    /\ m.all /\ ~r.all => ToSet(m.exc) \cap ToSet(r.inc) = {}
    /\ r.all /\ ~m.all => ToSet(r.exc) \cap ToSet(m.inc) = {}

(* The elements of a list, without its domain. *)
LEMMA Elements ==
    ASSUME NEW E, NEW s \in Seq(E)
    PROVE  /\ \A x : Contains(s, x) <=> x \in ToSet(s)
           /\ ToSet(s) \subseteq E
           /\ Len(s) \in Nat
           /\ Len(s) = 0 <=> s = <<>>
           /\ Len(s) = 0 <=> ToSet(s) = {}
<1>1. DOMAIN s = 1..Len(s) /\ Len(s) \in Nat
  OBVIOUS
<1>2. \A x : x \in ToSet(s) <=> \E j \in 1..Len(s) : s[j] = x
  BY <1>1 DEF ToSet
<1>3. \A x : Contains(s, x) <=> x \in ToSet(s)
  BY <1>2 DEF Contains
<1>4. ToSet(s) \subseteq E
  BY <1>2
<1>5. Len(s) = 0 <=> s = <<>>
  OBVIOUS
<1>6. Len(s) = 0 <=> ToSet(s) = {}
  <2>1. Len(s) # 0 => s[1] \in ToSet(s)
    BY <1>1, <1>2
  <2>2. Len(s) = 0 => 1..Len(s) = {}
    OBVIOUS
  <2> QED BY <1>2, <2>1, <2>2
<1> QED BY <1>1, <1>3, <1>4, <1>5, <1>6

(* The elements of two lists one after the other. *)
LEMMA Concatenation ==
    ASSUME NEW E, NEW a \in Seq(E), NEW b \in Seq(E)
    PROVE  ToSet(a \o b) = ToSet(a) \cup ToSet(b)
<1>1. /\ Len(a) \in Nat /\ Len(b) \in Nat
      /\ DOMAIN a = 1..Len(a) /\ DOMAIN b = 1..Len(b)
      /\ DOMAIN (a \o b) = 1..(Len(a) + Len(b))
      /\ \A j \in 1..(Len(a) + Len(b)) :
            (a \o b)[j] = IF j <= Len(a) THEN a[j] ELSE b[j - Len(a)]
  OBVIOUS
<1>2. ASSUME NEW x \in ToSet(a \o b) PROVE x \in ToSet(a) \cup ToSet(b)
  <2>1. PICK j \in 1..(Len(a) + Len(b)) : (a \o b)[j] = x
    BY <1>1, <1>2 DEF ToSet
  <2>2. CASE j <= Len(a)
    BY <1>1, <2>1, <2>2 DEF ToSet
  <2>3. CASE ~(j <= Len(a))
    <3>1. j - Len(a) \in 1..Len(b) /\ b[j - Len(a)] = x
      BY <1>1, <2>1, <2>3
    <3> QED BY <1>1, <3>1 DEF ToSet
  <2> QED BY <2>2, <2>3
<1>3. ASSUME NEW x \in ToSet(a) PROVE x \in ToSet(a \o b)
  <2>1. PICK j \in 1..Len(a) : a[j] = x
    BY <1>1, <1>3 DEF ToSet
  <2>2. j \in 1..(Len(a) + Len(b)) /\ (a \o b)[j] = x
    BY <1>1, <2>1
  <2> QED BY <1>1, <2>2 DEF ToSet
<1>4. ASSUME NEW x \in ToSet(b) PROVE x \in ToSet(a \o b)
  <2>1. PICK j \in 1..Len(b) : b[j] = x
    BY <1>1, <1>4 DEF ToSet
  <2>2. /\ j + Len(a) \in 1..(Len(a) + Len(b))
        /\ ~(j + Len(a) <= Len(a)) /\ (j + Len(a)) - Len(a) = j
    BY <1>1, <2>1
  <2>3. (a \o b)[j + Len(a)] = x
    BY <1>1, <2>1, <2>2
  <2> QED BY <1>1, <2>2, <2>3 DEF ToSet
<1> QED BY <1>2, <1>3, <1>4

(* The kinds that a matcher matches. *)
LEMMA MatchedValue ==
    ASSUME NEW m, WellFormed(m)
    PROVE  Matched(m) = IF m.all THEN Kind \ ToSet(m.exc) ELSE ToSet(m.inc)
<1>1. /\ m.inc \in Seq(Kind) /\ m.exc \in Seq(Kind) /\ m.all \in BOOLEAN
      /\ m.all => m.inc = <<>>
  BY DEF WellFormed
<1>2. /\ \A x : Contains(m.inc, x) <=> x \in ToSet(m.inc)
      /\ \A x : Contains(m.exc, x) <=> x \in ToSet(m.exc)
      /\ ToSet(m.inc) \subseteq Kind
      /\ Len(m.inc) \in Nat
      /\ Len(m.inc) = 0 <=> m.inc = <<>>
      /\ Len(m.inc) = 0 <=> ToSet(m.inc) = {}
  BY <1>1, Elements
<1>3. Len(m.inc) > 0 <=> Len(m.inc) # 0
  BY <1>2
<1>4. CASE m.all
  BY <1>1, <1>2, <1>3, <1>4 DEF Matched, Match
<1>5. CASE ~m.all
  BY <1>1, <1>2, <1>3, <1>5 DEF Matched, Match
<1> QED BY <1>1, <1>4, <1>5

(* The four cases of Merge. *)
LEMMA MergeValue ==
    ASSUME NEW m, NEW r, WellFormed(m), WellFormed(r)
    PROVE  /\ m.all /\ r.all => Merge(m, r) = [all |-> TRUE, inc |-> <<>>,
                                               exc |-> intersect2(m.exc, r.exc)]
           /\ m.all /\ ~r.all => Merge(m, r) = m
           /\ ~m.all /\ r.all => Merge(m, r) = r
           /\ ~m.all /\ ~r.all => Merge(m, r) = [all |-> FALSE, inc |-> m.inc \o r.inc,
                                                 exc |-> <<>>]
<1>1. /\ m = [all |-> m.all, inc |-> m.inc, exc |-> m.exc] /\ m.all \in BOOLEAN
      /\ r = [all |-> r.all, inc |-> r.inc, exc |-> r.exc] /\ r.all \in BOOLEAN
      /\ m.all => m.inc = <<>>
      /\ r.all => r.inc = <<>>
      /\ ~m.all => m.exc = <<>>
      /\ ~r.all => r.exc = <<>>
  BY DEF WellFormed
<1>2. \A x : intersect(<<x>> \o <<>>) = x /\ intersect(<<>> \o <<x>>) = x
  BY DEF intersect
<1>3. intersect(<<>> \o <<>>) = <<>>
  BY DEF intersect
<1>4. \A x, y : intersect(<<x>> \o <<y>>) = intersect2(x, y)
  BY DEF intersect
<1>5. CASE m.all /\ r.all
  BY <1>1, <1>4, <1>5 DEF Merge
<1>6. CASE m.all /\ ~r.all
  BY <1>1, <1>2, <1>6 DEF Merge
<1>7. CASE ~m.all /\ r.all
  BY <1>1, <1>2, <1>7 DEF Merge
<1>8. CASE ~m.all /\ ~r.all
  BY <1>1, <1>3, <1>8 DEF Merge
<1> QED BY <1>1, <1>5, <1>6, <1>7, <1>8

(* Merge's comment, for any two matchers that are well formed and compatible. *)
LEMMA MergeUnion ==
    ASSUME NEW m, NEW r, WellFormed(m), WellFormed(r), Compatible(m, r)
    PROVE  /\ WellFormed(Merge(m, r))
           /\ Matched(Merge(m, r)) = Matched(m) \cup Matched(r)
<1>1. /\ m.inc \in Seq(Kind) /\ m.exc \in Seq(Kind) /\ m.all \in BOOLEAN
      /\ r.inc \in Seq(Kind) /\ r.exc \in Seq(Kind) /\ r.all \in BOOLEAN
  BY DEF WellFormed
<1>2. /\ ToSet(m.inc) \subseteq Kind /\ ToSet(m.exc) \subseteq Kind
      /\ ToSet(r.inc) \subseteq Kind /\ ToSet(r.exc) \subseteq Kind
  BY <1>1, Elements
<1>3. CASE m.all /\ r.all
  <2> DEFINE I == intersect2(m.exc, r.exc)
  <2>1. I \in Seq(Kind) /\ ToSet(I) = ToSet(m.exc) \cap ToSet(r.exc)
    BY <1>1, Intersect
  <2>2. Merge(m, r) = [all |-> TRUE, inc |-> <<>>, exc |-> I]
    BY <1>3, MergeValue
  <2> HIDE DEF I
  <2>3. WellFormed(Merge(m, r))
    BY <2>1, <2>2 DEF WellFormed
  <2>4. Matched(Merge(m, r)) = Kind \ ToSet(I)
    BY <2>2, <2>3, MatchedValue
  <2> QED BY <1>3, <2>1, <2>3, <2>4, MatchedValue
<1>4. CASE m.all /\ ~r.all
  <2>1. Merge(m, r) = m
    BY <1>4, MergeValue
  <2>2. Matched(m) = Kind \ ToSet(m.exc) /\ Matched(r) = ToSet(r.inc)
    BY <1>4, MatchedValue
  <2>3. ToSet(m.exc) \cap ToSet(r.inc) = {}
    BY <1>4 DEF Compatible
  <2> QED BY <1>2, <2>1, <2>2, <2>3
<1>5. CASE ~m.all /\ r.all
  <2>1. Merge(m, r) = r
    BY <1>5, MergeValue
  <2>2. Matched(r) = Kind \ ToSet(r.exc) /\ Matched(m) = ToSet(m.inc)
    BY <1>5, MatchedValue
  <2>3. ToSet(r.exc) \cap ToSet(m.inc) = {}
    BY <1>5 DEF Compatible
  <2> QED BY <1>2, <2>1, <2>2, <2>3
<1>6. CASE ~m.all /\ ~r.all
  <2> DEFINE J == m.inc \o r.inc
  <2>1. J \in Seq(Kind)
    BY <1>1
  <2>2. ToSet(J) = ToSet(m.inc) \cup ToSet(r.inc)
    BY <1>1, Concatenation
  <2>3. Merge(m, r) = [all |-> FALSE, inc |-> J, exc |-> <<>>]
    BY <1>6, MergeValue
  <2> HIDE DEF J
  <2>4. WellFormed(Merge(m, r))
    BY <2>1, <2>3 DEF WellFormed
  <2>5. Matched(Merge(m, r)) = ToSet(J)
    BY <2>3, <2>4, MatchedValue
  <2> QED BY <1>6, <2>2, <2>4, <2>5, MatchedValue
<1> QED BY <1>1, <1>3, <1>4, <1>5, <1>6

(* The length of two lists one after the other. *)
LEMMA Joined ==
    ASSUME NEW E, NEW a \in Seq(E), NEW b \in Seq(E)
    PROVE  /\ Len(a \o b) = Len(a) + Len(b)
           /\ Len(a) \in Nat /\ Len(b) \in Nat
           /\ b = <<>> => a \o b = a
           /\ Len(b) = 0 => b = <<>>
  OBVIOUS

(* What Equal says of a merged matcher and the one it was merged from. *)
LEMMA EqualMerged ==
    ASSUME NEW m, NEW r, WellFormed(m), WellFormed(r)
    PROVE  /\ m.all /\ r.all =>
                (Equal(Merge(m, r), m) <=>
                    /\ Len(intersect2(m.exc, r.exc)) = Len(m.exc)
                    /\ ToSet(m.exc) \subseteq ToSet(r.exc))
           /\ m.all /\ ~r.all => Equal(Merge(m, r), m)
           /\ ~m.all /\ r.all => ~Equal(Merge(m, r), m)
           /\ ~m.all /\ ~r.all => (Equal(Merge(m, r), m) <=> r.inc = <<>>)
<1>1. /\ m.inc \in Seq(Kind) /\ m.exc \in Seq(Kind) /\ m.all \in BOOLEAN
      /\ r.inc \in Seq(Kind) /\ r.exc \in Seq(Kind) /\ r.all \in BOOLEAN
      /\ m.all => m.inc = <<>>
      /\ ~m.all => m.exc = <<>>
  BY DEF WellFormed
<1>2. \A s \in Seq(Kind) : Len(intersect2(s, s)) = Len(s)
  BY Intersect
<1>3. <<>> \in Seq(Kind) /\ Len(intersect2(<<>>, <<>>)) = 0
  <2>1. <<>> \in Seq(Kind) /\ Len(<<>>) = 0
    OBVIOUS
  <2> QED BY <1>2, <2>1
<1>4. CASE m.all /\ r.all
  <2> DEFINE I == intersect2(m.exc, r.exc)
  <2>1. Merge(m, r) = [all |-> TRUE, inc |-> <<>>, exc |-> I]
    BY <1>4, MergeValue
  <2>2. I \in Seq(Kind) /\ ToSet(I) = ToSet(m.exc) \cap ToSet(r.exc)
    BY <1>1, Intersect
  <2> HIDE DEF I
  <2>3. Len(intersect2(I, m.exc)) = Len(m.exc) <=> ToSet(m.exc) \subseteq ToSet(I)
    BY <1>1, <2>2, Intersect
  <2>4. Equal(Merge(m, r), m) <=> /\ Len(I) = Len(m.exc)
                                  /\ Len(intersect2(I, m.exc)) = Len(I)
    BY <1>1, <1>3, <1>4, <2>1 DEF Equal
  <2> QED BY <1>4, <2>2, <2>3, <2>4 DEF I
<1>5. CASE m.all /\ ~r.all
  <2>1. Merge(m, r) = m
    BY <1>5, MergeValue
  <2> QED BY <1>1, <1>2, <1>5, <2>1 DEF Equal
<1>6. CASE ~m.all /\ r.all
  <2>1. Merge(m, r) = r
    BY <1>6, MergeValue
  <2> QED BY <1>6, <2>1 DEF Equal
<1>7. CASE ~m.all /\ ~r.all
  <2> DEFINE J == m.inc \o r.inc
  <2>1. Merge(m, r) = [all |-> FALSE, inc |-> J, exc |-> <<>>]
    BY <1>7, MergeValue
  <2>2. /\ Len(J) = Len(m.inc) + Len(r.inc)
        /\ Len(m.inc) \in Nat /\ Len(r.inc) \in Nat
        /\ r.inc = <<>> => J = m.inc
        /\ Len(r.inc) = 0 => r.inc = <<>>
    BY <1>1, Joined
  <2>3. Len(J) = Len(m.inc) <=> Len(r.inc) = 0
    <3>1. \A x, y \in Nat : x + y = x <=> y = 0
      OBVIOUS
    <3> HIDE DEF J
    <3> QED BY <2>2, <3>1, Zenon
  <2> HIDE DEF J
  <2>4. ASSUME Equal(Merge(m, r), m) PROVE r.inc = <<>>
    <3>1. Len(J) = Len(m.inc)
      BY <2>1, <2>4 DEF Equal
    <3> QED BY <2>2, <2>3, <3>1
  <2>5. ASSUME r.inc = <<>> PROVE Equal(Merge(m, r), m)
    <3>1. J = m.inc
      BY <2>2, <2>5
    <3>2. Len(intersect2(J, m.inc)) = Len(J)
      BY <1>1, <1>2, <3>1
    <3>3. m.exc = <<>> /\ m.all = FALSE
      BY <1>1, <1>7
    <3> DEFINE M == Merge(m, r)
    <3>4. M.inc = J /\ M.exc = <<>> /\ M.all = FALSE
      BY <2>1
    <3> HIDE DEF M
    <3>5. Len(M.inc) = Len(m.inc) /\ Len(M.exc) = Len(m.exc) /\ M.all = m.all
      BY <3>1, <3>3, <3>4
    <3>6. Len(intersect2(M.inc, m.inc)) = Len(M.inc)
      BY <3>2, <3>4
    <3>7. Len(intersect2(M.exc, m.exc)) = Len(M.exc)
      BY <1>3, <3>3, <3>4
    <3> QED BY <3>5, <3>6, <3>7 DEF Equal, M
  <2> QED BY <1>7, <2>4, <2>5
<1> QED BY <1>1, <1>4, <1>5, <1>6, <1>7

(* A merge that updateMatcher takes for no change matches what was matched before. *)
LEMMA EqualKeeps ==
    ASSUME NEW m, NEW r, WellFormed(m), WellFormed(r), Compatible(m, r),
           Equal(Merge(m, r), m)
    PROVE  Matched(Merge(m, r)) = Matched(m)
<1>1. /\ m.all \in BOOLEAN /\ r.all \in BOOLEAN
      /\ m.inc \in Seq(Kind) /\ r.inc \in Seq(Kind)
  BY DEF WellFormed
<1>2. Matched(Merge(m, r)) = Matched(m) \cup Matched(r)
  BY MergeUnion
<1>3. CASE m.all /\ r.all
  <2>1. ToSet(m.exc) \subseteq ToSet(r.exc)
    BY <1>3, EqualMerged
  <2>2. Matched(m) = Kind \ ToSet(m.exc) /\ Matched(r) = Kind \ ToSet(r.exc)
    BY <1>3, MatchedValue
  <2> QED BY <1>2, <2>1, <2>2
<1>4. CASE m.all /\ ~r.all
  BY <1>4, MergeValue
<1>5. CASE ~m.all /\ r.all
  BY <1>5, EqualMerged
<1>6. CASE ~m.all /\ ~r.all
  <2>1. r.inc = <<>>
    BY <1>6, EqualMerged
  <2>2. ToSet(r.inc) = {}
    BY <1>1, <2>1, Elements
  <2>3. Matched(r) = {}
    BY <1>6, <2>2, MatchedValue
  <2> QED BY <1>2, <2>3
<1> QED BY <1>1, <1>3, <1>4, <1>5, <1>6

-----------------------------------------------------------------------------
(***************************************************************************)
(* The exclude lists are comparable by their lengths: all are the one list *)
(* of Register.ignored, or none repeats a kind.                            *)
(***************************************************************************)
Listed(m) ==
    \/ /\ \A r, q \in Requests : r.all /\ q.all => r.exc = q.exc
       /\ m.all => \A r \in Requests : r.all => m.exc = r.exc
    \/ /\ \A r \in Requests : IsInjective(r.exc)
       /\ IsInjective(m.exc)

(* What holds of the namespace's matcher after any number of loads. *)
Inv ==
    /\ WellFormed(matcher)
    /\ \A r \in Requests : Compatible(matcher, r)
    /\ Listed(matcher)
    /\ changed \in BOOLEAN
    /\ asked = Matched(matcher)

(* What RequestsAssumption says of one request and of two. *)
LEMMA RequestFacts ==
    /\ \A r \in Requests : WellFormed(r)
    /\ \A r, q \in Requests : Compatible(r, q)
  BY RequestsAssumption DEF WellFormed, Compatible

(* The empty matcher of a new nsCache. *)
LEMMA InitInv == Init => Inv
<1> SUFFICES ASSUME Init PROVE Inv
  OBVIOUS
<1>1. matcher = [all |-> FALSE, inc |-> <<>>, exc |-> <<>>] /\ changed = FALSE /\ asked = {}
  BY DEF Init
<1>2. WellFormed(matcher)
  BY <1>1 DEF WellFormed
<1>3. <<>> \in Seq(Kind) /\ ToSet(<<>>) = {} /\ IsInjective(<<>>)
  BY DEF ToSet, IsInjective
<1>4. \A r \in Requests : Compatible(matcher, r)
  BY <1>1, <1>3 DEF Compatible
<1>5. Listed(matcher)
  BY <1>1, <1>3, RequestsAssumption DEF Listed
<1>6. Matched(matcher) = {}
  BY <1>1, <1>2, <1>3, MatchedValue
<1> QED BY <1>1, <1>2, <1>4, <1>5, <1>6 DEF Inv

(* A merged matcher is as compatible with the requests as its parts. *)
LEMMA MergeCompatible ==
    ASSUME Inv, NEW r \in Requests, NEW q \in Requests
    PROVE  Compatible(Merge(matcher, r), q)
<1> DEFINE m == matcher
<1>1. WellFormed(m) /\ WellFormed(r) /\ Compatible(m, q) /\ Compatible(r, q)
  BY RequestFacts DEF Inv
<1> HIDE DEF m
<1>2. /\ m.inc \in Seq(Kind) /\ m.exc \in Seq(Kind) /\ m.all \in BOOLEAN
      /\ r.inc \in Seq(Kind) /\ r.exc \in Seq(Kind) /\ r.all \in BOOLEAN
  BY <1>1 DEF WellFormed
<1>3. CASE m.all /\ r.all
  <2> DEFINE I == intersect2(m.exc, r.exc)
  <2>1. ToSet(I) = ToSet(m.exc) \cap ToSet(r.exc)
    BY <1>2, Intersect
  <2>2. Merge(m, r) = [all |-> TRUE, inc |-> <<>>, exc |-> I]
    BY <1>1, <1>3, MergeValue
  <2> HIDE DEF I
  <2> QED BY <1>1, <1>3, <2>1, <2>2 DEF Compatible, m
<1>4. CASE m.all /\ ~r.all
  BY <1>1, <1>4, MergeValue DEF m
<1>5. CASE ~m.all /\ r.all
  BY <1>1, <1>5, MergeValue DEF m
<1>6. CASE ~m.all /\ ~r.all
  <2> DEFINE J == m.inc \o r.inc
  <2>1. ToSet(J) = ToSet(m.inc) \cup ToSet(r.inc)
    BY <1>2, Concatenation
  <2>2. Merge(m, r) = [all |-> FALSE, inc |-> J, exc |-> <<>>]
    BY <1>1, <1>6, MergeValue
  <2> HIDE DEF J
  <2> QED BY <1>1, <1>6, <2>1, <2>2 DEF Compatible, m
<1> QED BY <1>2, <1>3, <1>4, <1>5, <1>6

(* The exclude list of a merged matcher is comparable like those of its parts. *)
LEMMA MergeListed ==
    ASSUME Inv, NEW r \in Requests
    PROVE  Listed(Merge(matcher, r))
<1> DEFINE m == matcher
<1>1. WellFormed(m) /\ WellFormed(r) /\ Listed(m)
  BY RequestFacts DEF Inv
<1> HIDE DEF m
<1>2. /\ m.exc \in Seq(Kind) /\ m.all \in BOOLEAN
      /\ r.exc \in Seq(Kind) /\ r.all \in BOOLEAN
  BY <1>1 DEF WellFormed
<1>3. CASE m.all /\ r.all
  <2> DEFINE I == intersect2(m.exc, r.exc)
  <2>1. m.exc = r.exc => I = r.exc
    BY <1>2, Intersect
  <2>2. IsInjective(r.exc) => IsInjective(I)
    BY <1>2, Intersect
  <2>3. Merge(m, r) = [all |-> TRUE, inc |-> <<>>, exc |-> I]
    BY <1>1, <1>3, MergeValue
  <2> HIDE DEF I
  <2> QED BY <1>1, <1>3, <2>1, <2>2, <2>3 DEF Listed, m
<1>4. CASE m.all /\ ~r.all
  BY <1>1, <1>4, MergeValue DEF m
<1>5. CASE ~m.all /\ r.all
  <2>1. Merge(m, r) = r
    BY <1>1, <1>5, MergeValue
  <2> QED BY <1>1, <1>5, <2>1 DEF Listed, m
<1>6. CASE ~m.all /\ ~r.all
  <2>1. Merge(m, r) = [all |-> FALSE, inc |-> m.inc \o r.inc, exc |-> <<>>]
    BY <1>1, <1>6, MergeValue
  <2>2. IsInjective(<<>>)
    BY DEF IsInjective
  <2> QED BY <1>1, <2>1, <2>2 DEF Listed, m
<1> QED BY <1>2, <1>3, <1>4, <1>5, <1>6

(* One load. *)
LEMMA NextInv ==
    ASSUME Inv, Next
    PROVE  Inv'
<1>1. PICK r \in Requests : updateMatcher(r)
  BY DEF Next
<1>2. WellFormed(matcher) /\ WellFormed(r) /\ Compatible(matcher, r)
  BY RequestFacts DEF Inv
<1>3. /\ WellFormed(Merge(matcher, r))
      /\ Matched(Merge(matcher, r)) = Matched(matcher) \cup Matched(r)
  BY <1>2, MergeUnion
<1>4. asked' = Matched(matcher) \cup Matched(r)
  BY <1>1 DEF updateMatcher, Inv
<1>5. CASE Equal(Merge(matcher, r), matcher)
  <2>1. matcher' = matcher /\ changed' = FALSE
    BY <1>1, <1>5 DEF updateMatcher
  <2>2. asked' = Matched(matcher')
    BY <1>2, <1>3, <1>4, <1>5, <2>1, EqualKeeps
  <2> QED BY <2>1, <2>2 DEF Inv
<1>6. CASE ~Equal(Merge(matcher, r), matcher)
  <2>1. matcher' = Merge(matcher, r) /\ changed' = TRUE
    BY <1>1, <1>6 DEF updateMatcher
  <2>2. \A q \in Requests : Compatible(matcher', q)
    BY <2>1, MergeCompatible
  <2>3. Listed(matcher')
    BY <2>1, MergeListed
  <2> QED BY <1>3, <1>4, <2>1, <2>2, <2>3 DEF Inv
<1> QED BY <1>5, <1>6

(* The invariant holds in every state. *)
LEMMA InvHolds == Spec => []Inv
<1>1. Inv /\ [Next]_vars => Inv'
  <2>1. Inv /\ Next => Inv'
    BY NextInv
  <2>2. Inv /\ UNCHANGED vars => Inv'
    BY DEF Inv, vars
  <2> QED BY <2>1, <2>2
<1> QED BY <1>1, InitInv, PTL DEF Spec

(***************************************************************************)
(* nsCache.updateMatcher and GroupKindMatcher.Merge: whatever is loaded,   *)
(* and in whatever order, the matcher of the namespace covers every kind   *)
(* asked for, also where Equal took the merged matcher for the old one.    *)
(***************************************************************************)
THEOREM MergedCoversAll == Spec => []MergeIsUnion
<1>1. Inv => MergeIsUnion
  BY DEF Inv, MergeIsUnion
<1> QED BY <1>1, InvHolds, PTL

(* ... and none that nobody asked for: the exclude lists are intersected. *)
THEOREM MergedCoversNoMore == Spec => []NothingExtra
<1>1. Inv => NothingExtra
  BY DEF Inv, NothingExtra
<1> QED BY <1>1, InvHolds, PTL

(***************************************************************************)
(* Evaluator.Load returns early when updateMatcher reports no change: it   *)
(* does so only when no kind is asked for that was not asked for before.   *)
(***************************************************************************)
THEOREM EarlyReturnIsSound == Spec => SkipIsSound
<1>1. Inv /\ [Next]_vars => [changed' = FALSE => asked' = asked]_vars
  <2> SUFFICES ASSUME Inv, Next, changed' = FALSE PROVE asked' = asked
    OBVIOUS
  <2>1. PICK r \in Requests : updateMatcher(r)
    BY DEF Next
  <2>2. matcher' = matcher
    BY <2>1 DEF updateMatcher
  <2>3. Inv'
    BY NextInv
  <2>4. asked = Matched(matcher) /\ asked' = Matched(matcher')
    BY <2>3 DEF Inv
  <2> QED BY <2>2, <2>4
<1> QED BY <1>1, InvHolds, PTL DEF Spec, SkipIsSound

-----------------------------------------------------------------------------
(* AsSets field by field, and the two merges on sets that combine lists. *)
LEMMA SetRecords ==
    /\ \A x, y : AsSets([all |-> TRUE, inc |-> x, exc |-> y])
                    = [all |-> TRUE, inc |-> ToSet(x), exc |-> ToSet(y)]
    /\ \A x, y : AsSets([all |-> FALSE, inc |-> x, exc |-> y])
                    = [all |-> FALSE, inc |-> ToSet(x), exc |-> ToSet(y)]
    /\ \A x, y : S!Merge([all |-> TRUE, inc |-> {}, exc |-> x],
                         [all |-> TRUE, inc |-> {}, exc |-> y])
                    = [all |-> TRUE, inc |-> {}, exc |-> x \cap y]
    /\ \A x, y : S!Merge([all |-> FALSE, inc |-> x, exc |-> {}],
                         [all |-> FALSE, inc |-> y, exc |-> {}])
                    = [all |-> FALSE, inc |-> x \cup y, exc |-> {}]
    /\ \A w, x, y : [all |-> TRUE, inc |-> w, exc |-> x] = [all |-> TRUE, inc |-> w, exc |-> y]
                       => x = y
<1>1. ASSUME NEW a \in BOOLEAN, NEW x, NEW y
      PROVE  AsSets([all |-> a, inc |-> x, exc |-> y])
                = [all |-> a, inc |-> ToSet(x), exc |-> ToSet(y)]
  BY DEF AsSets
<1>2. ASSUME NEW x, NEW y
      PROVE  S!Merge([all |-> TRUE, inc |-> {}, exc |-> x], [all |-> TRUE, inc |-> {}, exc |-> y])
                = [all |-> TRUE, inc |-> {}, exc |-> x \cap y]
  BY DEF S!Merge
<1>3. ASSUME NEW x, NEW y
      PROVE  S!Merge([all |-> FALSE, inc |-> x, exc |-> {}], [all |-> FALSE, inc |-> y, exc |-> {}])
                = [all |-> FALSE, inc |-> x \cup y, exc |-> {}]
  BY DEF S!Merge
<1>4. ASSUME NEW w, NEW x, NEW y,
             [all |-> TRUE, inc |-> w, exc |-> x] = [all |-> TRUE, inc |-> w, exc |-> y]
      PROVE  x = y
  BY <1>4
<1> QED BY <1>1, <1>2, <1>3, <1>4, Zenon

(* Merge on slices is Merge on sets. *)
LEMMA MergeAsSets ==
    ASSUME NEW m, NEW r, WellFormed(m), WellFormed(r)
    PROVE  AsSets(Merge(m, r)) = S!Merge(AsSets(m), AsSets(r))
<1>1. /\ m.inc \in Seq(Kind) /\ m.exc \in Seq(Kind) /\ m.all \in BOOLEAN
      /\ r.inc \in Seq(Kind) /\ r.exc \in Seq(Kind) /\ r.all \in BOOLEAN
      /\ m.all => m.inc = <<>>
      /\ r.all => r.inc = <<>>
      /\ ~m.all => m.exc = <<>>
      /\ ~r.all => r.exc = <<>>
  BY DEF WellFormed
<1>2. ToSet(<<>>) = {}
  BY DEF ToSet
<1>3. CASE m.all /\ r.all
  <2> DEFINE I == intersect2(m.exc, r.exc)
  <2>1. ToSet(I) = ToSet(m.exc) \cap ToSet(r.exc)
    BY <1>1, Intersect
  <2>2. Merge(m, r) = [all |-> TRUE, inc |-> <<>>, exc |-> I]
    BY <1>3, MergeValue
  <2> HIDE DEF I
  <2>3. AsSets(Merge(m, r)) = [all |-> TRUE, inc |-> {}, exc |-> ToSet(I)]
    BY <1>2, <2>2, SetRecords
  <2>4. /\ AsSets(m) = [all |-> TRUE, inc |-> {}, exc |-> ToSet(m.exc)]
        /\ AsSets(r) = [all |-> TRUE, inc |-> {}, exc |-> ToSet(r.exc)]
    BY <1>1, <1>2, <1>3 DEF AsSets
  <2>5. S!Merge(AsSets(m), AsSets(r))
           = [all |-> TRUE, inc |-> {}, exc |-> ToSet(m.exc) \cap ToSet(r.exc)]
    BY <2>4, SetRecords
  <2> QED BY <2>1, <2>3, <2>5
<1>4. CASE m.all /\ ~r.all
  <2>1. Merge(m, r) = m
    BY <1>4, MergeValue
  <2> QED BY <1>1, <1>2, <1>4, <2>1 DEF AsSets, S!Merge
<1>5. CASE ~m.all /\ r.all
  <2>1. Merge(m, r) = r
    BY <1>5, MergeValue
  <2> QED BY <1>1, <1>2, <1>5, <2>1 DEF AsSets, S!Merge
<1>6. CASE ~m.all /\ ~r.all
  <2> DEFINE J == m.inc \o r.inc
  <2>1. ToSet(J) = ToSet(m.inc) \cup ToSet(r.inc)
    BY <1>1, Concatenation
  <2>2. Merge(m, r) = [all |-> FALSE, inc |-> J, exc |-> <<>>]
    BY <1>6, MergeValue
  <2> HIDE DEF J
  <2>3. AsSets(Merge(m, r)) = [all |-> FALSE, inc |-> ToSet(J), exc |-> {}]
    BY <1>2, <2>2, SetRecords
  <2>4. /\ AsSets(m) = [all |-> FALSE, inc |-> ToSet(m.inc), exc |-> {}]
        /\ AsSets(r) = [all |-> FALSE, inc |-> ToSet(r.inc), exc |-> {}]
    BY <1>1, <1>2, <1>6 DEF AsSets
  <2>5. S!Merge(AsSets(m), AsSets(r))
           = [all |-> FALSE, inc |-> ToSet(m.inc) \cup ToSet(r.inc), exc |-> {}]
    BY <2>4, SetRecords
  <2> QED BY <2>1, <2>3, <2>5
<1> QED BY <1>1, <1>3, <1>4, <1>5, <1>6

(***************************************************************************)
(* Equal on slices says what Changed says on sets.  For two exclude lists  *)
(* this rests on Listed: Equal compares lengths, and the lengths of two    *)
(* lists with the same kinds may differ when a kind is repeated.           *)
(***************************************************************************)
LEMMA EqualAsSets ==
    ASSUME Inv, NEW r \in Requests
    PROVE  Equal(Merge(matcher, r), matcher) <=> ~S!Changed(AsSets(matcher), AsSets(r))
<1> DEFINE m == matcher
<1>1. WellFormed(m) /\ WellFormed(r) /\ Listed(m)
  BY RequestFacts DEF Inv
<1> HIDE DEF m
<1>2. /\ m.inc \in Seq(Kind) /\ m.exc \in Seq(Kind) /\ m.all \in BOOLEAN
      /\ r.inc \in Seq(Kind) /\ r.exc \in Seq(Kind) /\ r.all \in BOOLEAN
      /\ m.all => m.inc = <<>>
  BY <1>1 DEF WellFormed
<1>3. AsSets(m) = [all |-> m.all, inc |-> ToSet(m.inc), exc |-> ToSet(m.exc)]
  BY DEF AsSets
<1>4. AsSets(r).all = r.all /\ AsSets(r).inc = ToSet(r.inc) /\ AsSets(m).all = m.all
  BY DEF AsSets
<1>5. CASE m.all /\ r.all
  <2> DEFINE I == intersect2(m.exc, r.exc)
  <2>1. /\ I \in Seq(Kind)
        /\ ToSet(I) = ToSet(m.exc) \cap ToSet(r.exc)
        /\ IsInjective(r.exc) => IsInjective(I)
        /\ ToSet(r.exc) \subseteq ToSet(m.exc) => I = r.exc
    BY <1>2, Intersect
  <2>2. Merge(m, r) = [all |-> TRUE, inc |-> <<>>, exc |-> I]
    BY <1>1, <1>5, MergeValue
  <2>3. Equal(Merge(m, r), m) <=> Len(I) = Len(m.exc) /\ ToSet(m.exc) \subseteq ToSet(r.exc)
    BY <1>1, <1>5, EqualMerged
  <2> HIDE DEF I
  <2>4. S!Changed(AsSets(m), AsSets(r)) <=> AsSets(Merge(m, r)) # AsSets(m)
    BY <1>1, <1>4, <1>5, MergeAsSets DEF S!Changed
  <2>5. AsSets(Merge(m, r)) = AsSets(m) <=> ToSet(I) = ToSet(m.exc)
    <3>1. AsSets(Merge(m, r)) = [all |-> TRUE, inc |-> ToSet(<<>>), exc |-> ToSet(I)]
      BY <2>2 DEF AsSets
    <3>2. AsSets(m) = [all |-> TRUE, inc |-> ToSet(<<>>), exc |-> ToSet(m.exc)]
      BY <1>2, <1>3, <1>5
    <3>3. ASSUME AsSets(Merge(m, r)) = AsSets(m) PROVE ToSet(I) = ToSet(m.exc)
      BY <3>1, <3>2, <3>3, SetRecords
    <3>4. ASSUME ToSet(I) = ToSet(m.exc) PROVE AsSets(Merge(m, r)) = AsSets(m)
      BY <3>1, <3>2, <3>4
    <3> QED BY <3>3, <3>4
  <2>6. ToSet(I) = ToSet(m.exc) => Len(I) = Len(m.exc)
    <3> SUFFICES ASSUME ToSet(I) = ToSet(m.exc) PROVE Len(I) = Len(m.exc)
      OBVIOUS
    <3>1. CASE m.exc = r.exc
      BY <2>1, <3>1
    <3>2. CASE m.exc # r.exc
      <4>1. IsInjective(r.exc) /\ IsInjective(m.exc)
        BY <1>1, <1>5, <3>2 DEF Listed
      <4>2. IsInjective(I)
        BY <2>1, <4>1
      <4> QED BY <1>2, <2>1, <4>1, <4>2, SameLength
    <3> QED BY <3>1, <3>2
  <2>7. ToSet(I) = ToSet(m.exc) <=> ToSet(m.exc) \subseteq ToSet(r.exc)
    BY <2>1
  <2> QED BY <2>3, <2>4, <2>5, <2>6, <2>7 DEF m
<1>6. CASE m.all /\ ~r.all
  <2>1. Merge(m, r) = m
    BY <1>1, <1>6, MergeValue
  <2>2. Equal(Merge(m, r), m)
    BY <1>1, <1>6, EqualMerged
  <2>3. S!Merge(AsSets(m), AsSets(r)) = AsSets(m)
    BY <1>1, <2>1, MergeAsSets
  <2> QED BY <1>4, <1>6, <2>2, <2>3 DEF S!Changed, m
<1>7. CASE ~m.all /\ r.all
  <2>1. Merge(m, r) = r
    BY <1>1, <1>7, MergeValue
  <2>2. ~Equal(Merge(m, r), m)
    BY <1>1, <1>7, EqualMerged
  <2>3. S!Merge(AsSets(m), AsSets(r)) = AsSets(r)
    BY <1>1, <2>1, MergeAsSets
  <2> QED BY <1>4, <1>7, <2>2, <2>3 DEF S!Changed, m
<1>8. CASE ~m.all /\ ~r.all
  <2>1. Equal(Merge(m, r), m) <=> r.inc = <<>>
    BY <1>1, <1>8, EqualMerged
  <2>2. r.inc = <<>> <=> ToSet(r.inc) = {}
    BY <1>2, Elements
  <2> QED BY <1>4, <1>8, <2>1, <2>2 DEF S!Changed, m
<1> QED BY <1>2, <1>5, <1>6, <1>7, <1>8

(* Match on slices is Match on sets. *)
LEMMA MatchAsSets ==
    ASSUME NEW r, WellFormed(r)
    PROVE  Matched(r) = {k \in Kind : S!Match(AsSets(r), k)}
<1>1. /\ r.inc \in Seq(Kind) /\ r.exc \in Seq(Kind) /\ r.all \in BOOLEAN
      /\ r.all => r.inc = <<>>
  BY DEF WellFormed
<1>2. /\ ToSet(r.inc) \subseteq Kind
      /\ r.inc = <<>> <=> ToSet(r.inc) = {}
  BY <1>1, Elements
<1>3. /\ AsSets(r).all = r.all /\ AsSets(r).inc = ToSet(r.inc)
      /\ AsSets(r).exc = ToSet(r.exc)
  BY DEF AsSets
<1>4. CASE r.all
  <2>1. Matched(r) = Kind \ ToSet(r.exc)
    BY <1>4, MatchedValue
  <2> QED BY <1>1, <1>2, <1>3, <1>4, <2>1 DEF S!Match
<1>5. CASE ~r.all
  <2>1. Matched(r) = ToSet(r.inc)
    BY <1>5, MatchedValue
  <2> QED BY <1>1, <1>2, <1>3, <1>5, <2>1 DEF S!Match
<1> QED BY <1>1, <1>4, <1>5

(***************************************************************************)
(* The slices implement the sets that module Evaluator works with: each    *)
(* load merges as sets merge and reloads exactly when sets would have it.  *)
(***************************************************************************)
THEOREM SlicesRefineSets == Spec => RefinesSets
<1> DEFINE Step(r) ==
             /\ AsSets(matcher') = IF changed'
                                   THEN S!Merge(AsSets(matcher), AsSets(r))
                                   ELSE AsSets(matcher)
             /\ changed' = S!Changed(AsSets(matcher), AsSets(r))
             /\ asked' = asked \cup {k \in Kind : S!Match(AsSets(r), k)}
<1>1. ASSUME Inv, NEW r \in Requests, updateMatcher(r)
      PROVE  Step(r)
  <2>1. WellFormed(matcher) /\ WellFormed(r)
    BY <1>1, RequestFacts DEF Inv
  <2>2. asked' = asked \cup {k \in Kind : S!Match(AsSets(r), k)}
    BY <1>1, <2>1, MatchAsSets DEF updateMatcher
  <2>3. Equal(Merge(matcher, r), matcher) <=> ~S!Changed(AsSets(matcher), AsSets(r))
    BY <1>1, EqualAsSets
  <2>4. S!Changed(AsSets(matcher), AsSets(r)) \in BOOLEAN
    BY DEF S!Changed
  <2>5. AsSets(Merge(matcher, r)) = S!Merge(AsSets(matcher), AsSets(r))
    BY <2>1, MergeAsSets
  <2>6. CASE Equal(Merge(matcher, r), matcher)
    <3>1. matcher' = matcher /\ changed' = FALSE
      BY <1>1, <2>6 DEF updateMatcher
    <3> QED BY <2>2, <2>3, <2>4, <2>6, <3>1
  <2>7. CASE ~Equal(Merge(matcher, r), matcher)
    <3>1. matcher' = Merge(matcher, r) /\ changed' = TRUE
      BY <1>1, <2>7 DEF updateMatcher
    <3> QED BY <2>2, <2>3, <2>4, <2>5, <2>7, <3>1
  <2> QED BY <2>6, <2>7
<1>2. Inv /\ [Next]_vars => [\E r \in Requests : Step(r)]_vars
  <2> HIDE DEF Step
  <2> QED BY <1>1 DEF Next
<1> QED BY <1>2, InvHolds, PTL DEF Spec, RefinesSets

=============================================================================
