--------------------------- MODULE MCPublication ---------------------------
(* Bounded instances of Publication for TLC. *)
EXTENDS Publication, TLC

CONSTANTS v1, v2
Attempts == [execute |-> 2, reconcile |-> 2]
Symmetric == Permutations(Worker) \cup Permutations(Client) \cup Permutations(Platform)
=============================================================================
