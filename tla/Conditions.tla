----------------------------- MODULE Conditions -----------------------------
(***************************************************************************)
(* Statuses and how the analyzers of pkg/analyze derive them from          *)
(* conditions: status.Result, GenericConditionAnalyzer, AnalyzeConditions  *)
(* and AggregateResult.  A list of matchers is the set of condition types  *)
(* it matches.                                                             *)
(***************************************************************************)
EXTENDS Naturals, FiniteSets, FiniteSetsExt

(* status.Result, an ordered enumeration *)
Unknown == 0
Ok == 1
Warning == 2
Error == 3
Results == Unknown .. Error

(* status.Status without its texts *)
Statuses == [result : Results, progressing : BOOLEAN]

Status(r) == [result |-> r, progressing |-> FALSE]
StatusProgressing == [result |-> Unknown, progressing |-> TRUE]

(* metav1.Condition: what the analyzers look at *)
Condition(type, status) == [type |-> type, status |-> status, reason |-> "none"]

-----------------------------------------------------------------------------
(* GenericConditionAnalyzer: a record of five sets of condition types *)

(* CommonConditionsAnalyzer, on the condition types that occur in this project. *)
CommonConditionsAnalyzer ==
    [ conditions  |-> {"Ready"},
      reversed    |-> {"Degraded", "MemoryPressure", "Terminating", "Progressing"},
      progressing |-> {"Progressing"},
      warning     |-> {"MemoryPressure"},
      unknown     |-> {"Disabled"} ]

Matches(a, type) ==
    type \in a.conditions \cup a.reversed \cup a.progressing \cup a.warning \cup a.unknown

(* The result for the unexpected value: the last list that matches decides. *)
TargetResult(a, type) ==
    IF type \in a.unknown THEN Unknown
    ELSE IF type \in a.warning THEN Warning
    ELSE IF type \in a.progressing THEN Unknown
    ELSE Error

(* Of a condition that matches. *)
Analyze(a, cond) ==
    LET unexpected == IF cond.type \in a.reversed THEN "True" ELSE "False"
    IN  CASE cond.status = unexpected -> [result |-> TargetResult(a, cond.type),
                                          progressing |-> cond.type \in a.progressing]
          [] cond.status = "Unknown"  -> Status(Unknown)
          [] OTHER                    -> Status(Ok)

(* AnalyzeConditions: the first analyzer that matches decides, and a         *)
(* condition that none matches is Unknown.                                   *)
AnalyzeCondition(analyzers, cond) ==
    LET hits == {i \in DOMAIN analyzers : Matches(analyzers[i], cond.type)}
    IN  IF hits = {} THEN Status(Unknown) ELSE Analyze(analyzers[Min(hits)], cond)

(* DefaultConditionAnalyzers *)
AnalyzeCommon(cond) == AnalyzeCondition(<<CommonConditionsAnalyzer>>, cond)

-----------------------------------------------------------------------------
(* A plausible slip: the results are combined like flags. *)
AggregateSums(subs, conds) ==
    [ result      |-> MapThenSumSet(LAMBDA s : s.result, subs \cup conds),
      progressing |-> \E s \in subs \cup conds : s.progressing ]

(* AggregateResult: the worst result, and progressing if anything is. *)
AggregateResult(subs, conds) ==
    [ result      |-> Max({Unknown} \cup {s.result : s \in subs \cup conds}),
      progressing |-> \E s \in subs \cup conds : s.progressing ]
=============================================================================
