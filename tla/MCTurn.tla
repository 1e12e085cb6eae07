------------------------------- MODULE MCTurn -------------------------------
(* Instances of SessionTurn for TLC. *)
EXTENDS SessionTurn, TLC

Replicas == Permutations(Replica)
=============================================================================
