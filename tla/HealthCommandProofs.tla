------------------------ MODULE HealthCommandProofs ------------------------
(***************************************************************************)
(* Proofs about module HealthCommand, for every command line, every way    *)
(* the objects change and every number of changes.                         *)
(***************************************************************************)
EXTENDS HealthCommand, TLAPS

(* What an evaluation returns; an object that could not be read is Unknown. *)
Readings ==
    {s \in [res : Unknown..Error, prog : BOOLEAN, how : Ways] :
        s.how = "failed" => s.res = Unknown}

(* Whatever the two goroutines hold was returned by an evaluation. *)
ReadingsInv ==
    /\ \A o \in DOMAIN statuses : statuses[o] \in Readings
    /\ \A o \in DOMAIN update : update[o] \in Readings
    /\ \A o \in DOMAIN decided : decided[o] \in Readings

(***************************************************************************)
(* The context is cancelled only by an update that ends the wait, and      *)
(* whichever update did so last gave the exit code.  The command returns   *)
(* only after that.                                                        *)
(***************************************************************************)
DecisionInv ==
    /\ poller = "closed" => cancelled
    /\ printer = "returned" => poller = "closed"
    /\ cancelled => Finishes(decided) /\ exitCode = ExitCode(decided)

Inv == TypeOK /\ ReadingsInv /\ DecisionInv

-----------------------------------------------------------------------------
(* The exit code without its fourth bit is the worst of these. *)
Code(r) == CASE r = Unknown -> 3 [] r = Error -> 2 [] r = Warning -> 1 [] OTHER -> 0

(* The greatest of a few codes is one of them, and no code exceeds it. *)
LEMMA MaxCode ==
    ASSUME NEW S, S \subseteq 0..3, S # {}
    PROVE  Max(S) \in S /\ \A x \in S : x <= Max(S)
<1>1. \E m \in S : \A x \in S : m >= x
  <2>1. CASE 3 \in S
    BY <2>1
  <2>2. CASE 3 \notin S /\ 2 \in S
    BY <2>2
  <2>3. CASE 3 \notin S /\ 2 \notin S /\ 1 \in S
    BY <2>3
  <2>4. CASE 3 \notin S /\ 2 \notin S /\ 1 \notin S
    <3>1. \A x \in S : x = 0
      BY <2>4
    <3>2. 0 \in S
      BY <3>1
    <3> QED BY <3>1, <3>2
  <2> QED BY <2>1, <2>2, <2>3, <2>4
<1>2. Max(S) \in S /\ \A x \in S : Max(S) >= x
  BY <1>1 DEF Max
<1>3. Max(S) \in 0..3
  BY <1>2
<1> QED BY <1>2, <1>3

(***************************************************************************)
(* setExitCode: the code of an update is between 0 and 11; it is below 3   *)
(* when nothing is progressing or unknown, and 0 when moreover all is OK.  *)
(***************************************************************************)
LEMMA ExitCodeValue ==
    ASSUME NEW u, \A o \in DOMAIN u : u[o] \in Readings
    PROVE  /\ ExitCode(u) \in 0..11
           /\ ~Progressing(u) => ExitCode(u) \in 0..2
           /\ ~Progressing(u) /\ AllOk(u) => ExitCode(u) = 0
<1> DEFINE codes == {0} \cup {Code(u[o].res) : o \in DOMAIN u}
           bit == IF \E o \in DOMAIN u : u[o].prog THEN 8 ELSE 0
<1>1. ExitCode(u) = Max(codes) + bit
  BY DEF ExitCode, Code
<1>2. codes \subseteq 0..3
  BY DEF Code
<1>3. Max(codes) \in codes
  BY <1>2, MaxCode
<1>4. bit \in {0, 8}
  OBVIOUS
<1>5. ExitCode(u) \in 0..11
  BY <1>1, <1>2, <1>3, <1>4
<1>6. ASSUME ~Progressing(u) PROVE codes \subseteq 0..2 /\ bit = 0
  BY <1>6 DEF Progressing, Code, Readings, Unknown, Ok, Warning, Error
<1>7. ASSUME ~Progressing(u) PROVE ExitCode(u) \in 0..2
  BY <1>1, <1>3, <1>6, <1>7
<1>8. ASSUME ~Progressing(u), AllOk(u) PROVE ExitCode(u) = 0
  <2>1. codes = {0}
    BY <1>8 DEF AllOk, Code, Unknown, Ok, Warning, Error
  <2> QED BY <1>1, <1>3, <1>6, <1>8, <2>1
<1> QED BY <1>5, <1>7, <1>8

-----------------------------------------------------------------------------
(* The invariant holds when the command starts. *)
LEMMA InitInv == Init => Inv
<1> SUFFICES ASSUME Init PROVE Inv
  OBVIOUS
<1>1. DOMAIN NoUpdate = {}
  BY DEF NoUpdate
<1>2. changes \in 0..MaxChanges /\ exitCode \in 0..11
  <2>1. changes = 0 /\ exitCode = 0
    BY DEF Init
  <2> QED BY <2>1, CommandAssumption
<1>3. TypeOK
  BY <1>1, <1>2 DEF Init, TypeOK
<1>4. ReadingsInv
  BY <1>1 DEF Init, ReadingsInv
<1>5. DecisionInv
  BY DEF Init, DecisionInv
<1> QED BY <1>3, <1>4, <1>5 DEF Inv

(* A reading recorded by the poller, whichever way it came about. *)
LEMMA RecordStep ==
    ASSUME Inv, NEW o \in objects, NEW s \in Readings, Record(o, s), UNCHANGED cache
    PROVE  Inv'
<1> USE DEF Record, commandVars, clusterVars, printerVars
<1>1. DOMAIN statuses' = DOMAIN statuses \cup {o}
  OBVIOUS
<1>2. TypeOK'
  BY <1>1 DEF Inv, TypeOK
<1>3. ReadingsInv'
  BY <1>1 DEF Inv, ReadingsInv
<1>4. DecisionInv'
  BY DEF Inv, DecisionInv, Finishes, ExitCode, Progressing, AllOk
<1> QED BY <1>2, <1>3, <1>4 DEF Inv

(* One step of the poller's run. *)
LEMMA RunStep ==
    ASSUME Inv, Run \/ EvalLists
    PROVE  Inv'
<1> USE DEF commandVars, clusterVars, printerVars
<1>1. ASSUME NEW o \in Requested, EvalGet(o) PROVE Inv'
  <2>1. TypeOK'
    BY <1>1 DEF EvalGet, Due, Inv, TypeOK
  <2>2. ReadingsInv' /\ DecisionInv'
    BY <1>1 DEF EvalGet, Inv, ReadingsInv, DecisionInv, Finishes, ExitCode, Progressing, AllOk
  <2> QED BY <2>1, <2>2 DEF Inv
<1>2. ASSUME NEW o \in Requested, EvalGetFails(o) PROVE Inv'
  <2> DEFINE s == [res |-> Unknown, prog |-> FALSE, how |-> "failed"]
  <2>1. s \in Readings
    BY DEF Readings, Ways, Unknown, Error
  <2>2. o \in objects /\ Record(o, s) /\ UNCHANGED cache
    BY <1>2 DEF EvalGetFails, Due
  <2> HIDE DEF s
  <2> QED BY <2>1, <2>2, RecordStep
<1>3. CASE EvalLists
  <2>1. TypeOK'
    BY <1>3 DEF EvalLists, Inv, TypeOK
  <2>2. ReadingsInv' /\ DecisionInv'
    BY <1>3 DEF EvalLists, Inv, ReadingsInv, DecisionInv, Finishes, ExitCode, Progressing, AllOk
  <2> QED BY <2>1, <2>2 DEF Inv
<1>4. CASE EvalDone
  <2>1. PICK o \in eval, h \in Health :
           Record(o, [res |-> h.res, prog |-> h.prog, how |-> "read"])
    BY <1>4 DEF EvalDone, Inv, TypeOK
  <2> DEFINE s == [res |-> h.res, prog |-> h.prog, how |-> "read"]
  <2>2. h \in [res : Unknown..Error, prog : BOOLEAN]
    BY CommandAssumption
  <2>3. s \in Readings
    BY <2>2 DEF Readings, Ways
  <2>4. o \in objects /\ UNCHANGED cache
    BY <1>4 DEF EvalDone, Inv, TypeOK
  <2> QED BY <2>1, <2>3, <2>4, RecordStep
<1>5. CASE EvalCut
  <2>1. PICK o \in eval, r \in Unknown..Error, p \in BOOLEAN :
           Record(o, [res |-> r, prog |-> p, how |-> "cut"])
    BY <1>5 DEF EvalCut
  <2> DEFINE s == [res |-> r, prog |-> p, how |-> "cut"]
  <2>2. s \in Readings
    BY DEF Readings, Ways
  <2>3. o \in objects /\ UNCHANGED cache
    BY <1>5 DEF EvalCut, Inv, TypeOK
  <2> QED BY <2>1, <2>2, <2>3, RecordStep
<1>6. CASE RunDone
  BY <1>6 DEF RunDone, Inv, TypeOK, ReadingsInv, DecisionInv, Finishes, ExitCode,
              Progressing, AllOk
<1> QED BY <1>1, <1>2, <1>3, <1>4, <1>5, <1>6 DEF Run

(* The callback of the printer decides, or leaves everything as it was decided. *)
LEMMA PrintStep ==
    ASSUME Inv, PrintAndWait
    PROVE  Inv'
<1> USE DEF PrintAndWait, commandVars, clusterVars, printerVars
<1>1. DOMAIN NoUpdate = {}
  BY DEF NoUpdate
<1>2. ReadingsInv'
  BY <1>1 DEF Inv, ReadingsInv
<1>3. CASE Finishes(update)
  <2>1. exitCode' = ExitCode(update) /\ exitCode' \in 0..11
    BY <1>3, ExitCodeValue DEF Inv, ReadingsInv
  <2>2. TypeOK'
    BY <1>1, <1>3, <2>1 DEF Inv, TypeOK
  <2>3. Finishes(decided)' /\ (exitCode = ExitCode(decided))'
    BY <1>3, <2>1 DEF Finishes, Progressing, AllOk, ExitCode
  <2>4. DecisionInv'
    BY <1>3, <2>3 DEF Inv, DecisionInv
  <2> QED BY <1>2, <2>2, <2>4 DEF Inv
<1>4. CASE ~Finishes(update)
  <2>1. TypeOK'
    BY <1>1, <1>4 DEF Inv, TypeOK
  <2>2. DecisionInv'
    BY <1>4 DEF Inv, DecisionInv, Finishes, Progressing, AllOk, ExitCode
  <2> QED BY <1>2, <2>1, <2>2 DEF Inv
<1> QED BY <1>3, <1>4

(* The invariant is inductive. *)
LEMMA InvInductive == Inv /\ [Next]_vars => Inv'
<1> SUFFICES ASSUME Inv, [Next]_vars PROVE Inv'
  OBVIOUS
<1> USE DEF commandVars, clusterVars, printerVars
<1>1. ASSUME NEW o \in Requested, Change(o) PROVE Inv'
  <2>1. TypeOK'
    BY <1>1, CommandAssumption DEF Inv, TypeOK, Change
  <2>2. ReadingsInv' /\ DecisionInv'
    BY <1>1 DEF Inv, ReadingsInv, DecisionInv, Change, Finishes, Progressing, AllOk, ExitCode
  <2> QED BY <2>1, <2>2 DEF Inv
<1>2. CASE Send
  <2>1. DOMAIN NoUpdate = {}
    BY DEF NoUpdate
  <2> QED BY <1>2, <2>1 DEF Inv, TypeOK, ReadingsInv, DecisionInv, Send,
                            Finishes, Progressing, AllOk, ExitCode
<1>3. CASE SelectTimer
  BY <1>3 DEF Inv, TypeOK, ReadingsInv, DecisionInv, SelectTimer,
              Finishes, Progressing, AllOk, ExitCode
<1>4. CASE SelectDone
  BY <1>4 DEF Inv, TypeOK, ReadingsInv, DecisionInv, SelectDone,
              Finishes, Progressing, AllOk, ExitCode
<1>5. CASE Exit
  BY <1>5 DEF Inv, TypeOK, ReadingsInv, DecisionInv, Exit,
              Finishes, Progressing, AllOk, ExitCode
<1>6. CASE UNCHANGED vars
  BY <1>6 DEF Inv, TypeOK, ReadingsInv, DecisionInv, vars,
              Finishes, Progressing, AllOk, ExitCode
<1> QED BY <1>1, <1>2, <1>3, <1>4, <1>5, <1>6, RunStep, PrintStep DEF Next

(* Every reachable state satisfies the invariant. *)
LEMMA InvHolds == Spec => []Inv
BY InitInv, InvInductive, PTL DEF Spec

-----------------------------------------------------------------------------
(***************************************************************************)
(* Both goroutines stay at their places, an update is about objects the    *)
(* command line resolved to, and the exit code is one of those documented. *)
(***************************************************************************)
THEOREM TypeCorrect == Spec => []TypeOK
<1>1. Inv => TypeOK
  BY DEF Inv
<1> QED BY <1>1, InvHolds, PTL

(***************************************************************************)
(* With a wait flag the exit code is never that of objects which could not *)
(* be read any more: a read that the cancelled context makes fail is       *)
(* Unknown, which counts as progressing, so an update with one takes no    *)
(* decision back.  Of statuses cut short below their object nothing of the *)
(* kind holds; the theorem leaves them out, as the property does.          *)
(***************************************************************************)
THEOREM WaitedCodeOfReadObjects == Spec => []WaitedCodeIsRead
<1>1. Inv => WaitedCodeIsRead
  <2> SUFFICES ASSUME Inv, flags # {}, printer = "returned",
                      NEW o \in DOMAIN decided
               PROVE  decided[o].how # "failed"
    BY DEF WaitedCodeIsRead
  <2>1. Finishes(decided)
    BY DEF Inv, DecisionInv
  <2>2. flags \subseteq {"forever", "progress", "ok"}
    BY CommandAssumption DEF Inv, TypeOK
  <2>3. ~Progressing(decided)
    BY <2>1, <2>2 DEF Finishes
  <2> QED BY <2>3 DEF Inv, ReadingsInv, Readings, Progressing
<1> QED BY <1>1, InvHolds, PTL

(***************************************************************************)
(* The command does not return before the condition of its wait flag was   *)
(* met, and the exit code it returns says that it was.                     *)
(***************************************************************************)
THEOREM WaitIsHonoured == Spec => []WaitHonoured
<1>1. Inv => WaitHonoured
  <2> SUFFICES ASSUME Inv, printer = "returned"
               PROVE  /\ "forever" \notin flags
                      /\ "progress" \in flags => exitCode \in 0..2
                      /\ flags = {"ok"} => exitCode = 0
    BY DEF WaitHonoured
  <2>1. Finishes(decided) /\ exitCode = ExitCode(decided)
    BY DEF Inv, DecisionInv
  <2>2. "forever" \notin flags
    BY <2>1 DEF Finishes
  <2>3. "progress" \in flags => ~Progressing(decided)
    BY <2>1, <2>2 DEF Finishes
  <2>4. flags = {"ok"} => ~Progressing(decided) /\ AllOk(decided)
    BY <2>1 DEF Finishes
  <2> QED BY <2>1, <2>2, <2>3, <2>4, ExitCodeValue DEF Inv, ReadingsInv
<1> QED BY <1>1, InvHolds, PTL
=============================================================================
