-------------------------- MODULE ListBulkProofs --------------------------
(***************************************************************************)
(* Proofs about ListBulk for every finite set of resources and any number  *)
(* of pages: its safety properties, and that it implements BulkList.       *)
(*                                                                         *)
(* The invariant ties the WaitGroup's counter to the set of goroutines     *)
(* that run, so that wg = 0 after the loop means that every worker has     *)
(* ended, and says for each state of a worker what it has contributed.     *)
(***************************************************************************)
EXTENDS ListBulk, FiniteSetTheorems, TLAPS

Running == {r \in Res : worker[r] \notin {"none", "done"}}

Counting ==
    /\ wg = Cardinality(Running)
    /\ toSpawn = {r \in Res : worker[r] = "none"}
    /\ main # "spawn" => toSpawn = {}

Closing ==
    /\ chan = "closed" <=> main \in {"drain", "returned"}
    /\ chan = "closed" => \A r \in Res : worker[r] = "done"
    /\ collector = "done" => chan = "closed"
    /\ main = "returned" => collector = "done"

(* What worker r has contributed to the result, by where it is. *)
Contribution(r) ==
    /\ worker[r] = "send" => got[r] = NPages[r]
    /\ worker[r] \in {"none", "list", "send", "fail"} => out[r] = 0
    /\ worker[r] \in {"exit", "done"} =>
          out[r] = NPages[r] \/ (out[r] = 0 /\ errResult # NoErr)

Contributions ==
    /\ \A r \in Res : Contribution(r)
    /\ errResult # NoErr => worker[errResult] \in {"exit", "done"} /\ out[errResult] = 0

Inv == TypeOK /\ Counting /\ Closing /\ Contributions

-----------------------------------------------------------------------------
(* The counted workers are a finite set. *)
LEMMA RunningFinite == IsFiniteSet(Running) /\ Cardinality(Running) \in Nat
<1>1. Running \subseteq Res
  BY DEF Running
<1>2. IsFiniteSet(Running)
  BY <1>1, ResAssumption, FS_Subset
<1> QED BY <1>2, FS_CardinalityType

(* No worker is there, none is counted. *)
LEMMA InitInv == Init => Inv
<1> SUFFICES ASSUME Init PROVE Inv
  OBVIOUS
<1>1. TypeOK
  BY DEF Init, TypeOK
<1>2. Running = {}
  BY DEF Init, Running
<1>3. Counting
  BY <1>2, FS_EmptySet DEF Init, Counting
<1>4. Closing /\ Contributions
  BY DEF Init, Closing, Contributions, Contribution
<1> QED BY <1>1, <1>3, <1>4 DEF Inv

(* A worker is counted before it runs. *)
LEMMA SpawnInv ==
    ASSUME Inv, NEW r \in Res, Spawn(r)
    PROVE  Inv'
<1> USE DEF Inv, Spawn
<1>1. TypeOK'
  BY DEF TypeOK
<1>2. worker[r] = "none" /\ Running' = Running \cup {r} /\ r \notin Running
  BY DEF Running, TypeOK, Counting
<1>3. Counting'
  BY <1>2, RunningFinite, FS_AddElement DEF Counting, TypeOK
<1>4. Closing'
  BY <1>2 DEF Closing, TypeOK
<1>5. Contributions'
  BY <1>2 DEF Contributions, Contribution, TypeOK
<1> QED BY <1>1, <1>3, <1>4, <1>5

(* A worker is counted until it has sent its pages or set the error. *)
LEMMA WgDoneInv ==
    ASSUME Inv, NEW r \in Res, WgDone(r)
    PROVE  Inv'
<1> USE DEF Inv, WgDone
<1>1. Running' = Running \ {r} /\ r \in Running
  BY DEF Running, TypeOK
<1>2. Cardinality(Running') = Cardinality(Running) - 1 /\ Cardinality(Running') \in Nat
  <2>1. IsFiniteSet(Running')
    BY <1>1, RunningFinite, FS_Subset
  <2> QED BY <1>1, <2>1, RunningFinite, FS_RemoveElement, FS_CardinalityType
<1>3. TypeOK'
  BY <1>2 DEF TypeOK, Counting
<1>4. Counting'
  BY <1>2 DEF Counting, TypeOK
<1>5. Closing'
  BY DEF Closing, TypeOK
<1>6. Contributions'
  BY DEF Contributions, Contribution, TypeOK
<1> QED BY <1>3, <1>4, <1>5, <1>6

(* The steps of a worker between its first and its last. *)
LEMMA WorkerInv ==
    ASSUME Inv, NEW r \in Res, Page(r) \/ PageFails(r) \/ SetErr(r) \/ Send(r)
    PROVE  Inv'
<1> USE ResAssumption DEF Inv
<1>1. UNCHANGED <<main, toSpawn, wg, chan, collector>> /\ r \in Running /\ r \in Running'
  BY DEF Page, PageFails, SetErr, Send, Running, TypeOK
<1>2. /\ \A s \in Res : s # r => worker'[s] = worker[s]
      /\ worker[r] \in {"list", "fail", "send"} /\ worker'[r] \in {"list", "fail", "send", "exit"}
  BY DEF Page, PageFails, SetErr, Send, TypeOK
<1>3. Running' = Running
  BY <1>1, <1>2 DEF Running
<1>4. TypeOK'
  BY DEF Page, PageFails, SetErr, Send, TypeOK
<1>5. Counting'
  BY <1>1, <1>2, <1>3 DEF Counting
<1>6. Closing'
  BY <1>1, <1>2 DEF Closing
<1>7. Contributions'
  <2>1. CASE Page(r)
    BY <2>1 DEF Page, Contributions, Contribution, TypeOK
  <2>2. CASE PageFails(r)
    BY <2>2 DEF PageFails, Contributions, Contribution, TypeOK
  <2>3. CASE SetErr(r)
    BY <2>3 DEF SetErr, Contributions, Contribution, TypeOK
  <2>4. CASE Send(r)
    BY <2>4 DEF Send, Contributions, Contribution, TypeOK
  <2> QED BY <2>1, <2>2, <2>3, <2>4
<1> QED BY <1>4, <1>5, <1>6, <1>7

(* wg.Wait returned: no goroutine runs and none is left to start. *)
LEMMA CloseInv ==
    ASSUME Inv, CloseResults
    PROVE  Inv'
<1>1. Running = {}
  BY RunningFinite, FS_EmptySet DEF Inv, Counting, CloseResults
<1>2. \A r \in Res : worker[r] = "done"
  BY <1>1 DEF Inv, Counting, CloseResults, Running
<1>3. Running' = Running
  BY DEF CloseResults, Running
<1> QED BY <1>2, <1>3 DEF Inv, CloseResults, TypeOK, Counting, Closing, Contributions, Contribution

(* Every step keeps the inductive invariant. *)
LEMMA NextInv ==
    ASSUME Inv, [Next]_vars
    PROVE  Inv'
<1>1. CASE \E r \in Res : Spawn(r)
  BY <1>1, SpawnInv
<1>2. CASE SpawnedAll \/ CollectorEnds \/ Return \/ UNCHANGED vars
  <2>1. UNCHANGED <<toSpawn, wg, worker, got, chan, out, errResult>>
    BY <1>2 DEF SpawnedAll, CollectorEnds, Return, vars
  <2>2. Running' = Running
    BY <2>1 DEF Running
  <2>3. Contributions'
    BY <2>1 DEF Inv, Contributions, Contribution
  <2> QED BY <1>2, <2>1, <2>2, <2>3
          DEF Inv, SpawnedAll, CollectorEnds, Return, vars, TypeOK, Counting, Closing
<1>3. CASE CloseResults
  BY <1>3, CloseInv
<1>4. CASE \E r \in Res : Worker(r)
  BY <1>4, WorkerInv, WgDoneInv DEF Worker
<1> QED BY <1>1, <1>2, <1>3, <1>4 DEF Next, Caller

(* The inductive invariant holds throughout every behaviour. *)
LEMMA Invariance == Spec => []Inv
<1>1. Inv /\ [Next]_vars => Inv'
  BY NextInv
<1> QED BY <1>1, InitInv, PTL DEF Spec

(* Type correctness; in particular the WaitGroup's counter never gets negative. *)
THEOREM TypeCorrect == Spec => []TypeOK
<1>1. Inv => TypeOK
  BY DEF Inv
<1> QED BY <1>1, Invariance, PTL

(* No worker ever sends on the closed channel. *)
THEOREM NeverSendsOnClosed == Spec => []NoSendOnClosed
<1>1. Inv => NoSendOnClosed
  BY DEF Inv, Closing, NoSendOnClosed
<1> QED BY <1>1, Invariance, PTL

(* No resource is ever in the result in part. *)
THEOREM AlwaysAllOrNothing == Spec => []AllOrNothing
<1>1. Inv => AllOrNothing
  BY DEF Inv, TypeOK, Contributions, Contribution, AllOrNothing
<1> QED BY <1>1, Invariance, PTL

(* An error is returned exactly when a resource is missing. *)
THEOREM ErrorMeansMissing == Spec => []ErrorIffMissing
<1>1. ASSUME Inv, main = "returned", errResult = NoErr
      PROVE  out = NPages
  <2>1. \A r \in Res : worker[r] = "done"
    BY <1>1 DEF Inv, Closing
  <2>2. \A r \in Res : out[r] = NPages[r]
    BY <1>1, <2>1 DEF Inv, Contributions, Contribution
  <2> QED BY <1>1, <2>2, ResAssumption DEF Inv, TypeOK
<1>2. Inv => ErrorIffMissing
  BY <1>1 DEF ErrorIffMissing, Inv, Contributions
<1> QED BY <1>2, Invariance, PTL

-----------------------------------------------------------------------------
(***************************************************************************)
(* listBulk implements BulkList: every step but Return changes nothing the *)
(* caller sees, and Return is a ReturnFrom of the resources missing.       *)
(***************************************************************************)
THEOREM Implementation == Spec => ImplementsBulkList
<1>1. Init => Abstract!Init
  BY DEF Init, Abstract!Init
<1>2. ASSUME Inv, Inv', [Next]_vars
      PROVE  [Abstract!Next]_<<main = "returned",
                               IF main = "returned" THEN out ELSE [r \in Res |-> 0],
                               IF main = "returned" THEN errResult ELSE NoErr>>
  <2>1. CASE Return
    <3> DEFINE bad == {r \in Res : out[r] = 0}
    <3>1. main = "drain" /\ main' = "returned" /\ out' = out /\ errResult' = errResult
      BY <2>1 DEF Return
    <3>2. \A r \in Res : out[r] = 0 \/ out[r] = NPages[r]
      BY <1>2 DEF Inv, TypeOK, Contributions, Contribution
    <3>3. out = [r \in Res |-> IF r \in bad THEN 0 ELSE NPages[r]]
      BY <1>2, <3>2 DEF Inv, TypeOK
    <3>4. errResult \in IF bad = {} THEN {NoErr} ELSE bad
      <4>1. CASE errResult # NoErr
        BY <1>2, <4>1 DEF Inv, TypeOK, Contributions
      <4>2. CASE errResult = NoErr
        <5>1. \A r \in Res : worker[r] = "done"
          BY <1>2, <3>1 DEF Inv, Closing
        <5>2. \A r \in Res : out[r] # 0
          BY <1>2, <4>2, <5>1, ResAssumption DEF Inv, Contributions, Contribution
        <5> QED BY <4>2, <5>2
      <4> QED BY <4>1, <4>2
    <3>5. Abstract!ReturnFrom(bad)
      BY <3>1, <3>3, <3>4 DEF Abstract!ReturnFrom
    <3> QED BY <3>5 DEF Abstract!Next
  <2>2. CASE ~Return
    <3>1. CASE main = "returned"
      <4>1. \A r \in Res : worker[r] = "done"
        BY <1>2, <3>1 DEF Inv, Closing
      <4>2. toSpawn = {} /\ collector = "done"
        BY <1>2, <3>1 DEF Inv, Closing, Counting
      <4>3. UNCHANGED vars
        BY <1>2, <2>2, <3>1, <4>1, <4>2
        DEF Next, Caller, Spawn, SpawnedAll, CloseResults, CollectorEnds, Worker,
            Page, PageFails, SetErr, Send, WgDone
      <4> QED BY <4>3 DEF vars
    <3>2. CASE main # "returned"
      <4>1. main' # "returned"
        BY <1>2, <2>2, <3>2
        DEF Next, Caller, Spawn, SpawnedAll, CloseResults, CollectorEnds, Worker,
            Page, PageFails, SetErr, Send, WgDone, vars
      <4> QED BY <3>2, <4>1
    <3> QED BY <3>1, <3>2
  <2> QED BY <2>1, <2>2
<1> QED BY <1>1, <1>2, Invariance, PTL DEF Spec, ImplementsBulkList, Abstract!Spec
=============================================================================
