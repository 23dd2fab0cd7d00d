------------------------------ MODULE MCRollout ------------------------------
(* Pods of a ReplicaSet are interchangeable. *)
EXTENDS Rollout, TLC

Symmetry == Permutations(Slots)
=============================================================================
