-------------------------- MODULE MCHealthCommand --------------------------
(* Instances of HealthCommand. *)
EXTENDS HealthCommand

CONSTANTS a, b

MCRequested == {a, b}
NoneMiss == {}
OneMiss == {b}
WaitFlags == {{"progress"}, {"ok"}, {"progress", "ok"}}
AllFlags == WaitFlags \cup {{}, {"forever"}, {"forever", "ok"}}
NoFlags == {{}}
St(r, p) == [res |-> r, prog |-> p]
MCHealth == {St(Unknown, FALSE), St(Ok, FALSE), St(Warning, FALSE), St(Error, TRUE)}
=============================================================================
