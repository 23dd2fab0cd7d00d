--------------------------- MODULE MCMonitorReport ---------------------------
(* Three objects of two kinds; targets of two categories that overlap. *)
EXTENDS MonitorReport, TLC

CONSTANTS o1, o2, o3

MCObjects == {o1, o2, o3}
MCKindOf == (o1 :> "A") @@ (o2 :> "B") @@ (o3 :> "B")

TwoCategories ==
    << [category |-> "apps", kinds |-> {"A"}],
       [category |-> "infra", kinds |-> {"A", "B"}],
       [category |-> "apps", kinds |-> {"A"}] >>
=============================================================================
