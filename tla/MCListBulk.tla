---------------------------- MODULE MCListBulk ----------------------------
(* Three resources, one of them with a second page. *)
EXTENDS ListBulk

CONSTANTS r1, r2, r3

MCRes == {r1, r2, r3}
MCNPages == [r \in MCRes |-> IF r = r1 THEN 2 ELSE 1]
=============================================================================
