----------------------------- MODULE BulkList -----------------------------
(***************************************************************************)
(* What client.listBulk (pkg/eval/realloader.go) promises to               *)
(* Evaluator.loadNamespace: one call that either has every page of every   *)
(* resource, or names one of the resources that failed.                    *)
(***************************************************************************)
CONSTANTS Res,      \* resources to list
          NPages,   \* pages of each resource
          NoErr

VARIABLES done, result, err

Init ==
    /\ done = FALSE
    /\ result = [r \in Res |-> 0]
    /\ err = NoErr

(* The resources in bad failed, the others are in the result in full. *)
ReturnFrom(bad) ==
    /\ ~done
    /\ done' = TRUE
    /\ result' = [r \in Res |-> IF r \in bad THEN 0 ELSE NPages[r]]
    /\ err' \in IF bad = {} THEN {NoErr} ELSE bad

Next == \E bad \in SUBSET Res : ReturnFrom(bad)

Spec == Init /\ [][Next]_<<done, result, err>>
=============================================================================
