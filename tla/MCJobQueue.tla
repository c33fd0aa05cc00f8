---------------------------- MODULE MCJobQueue ----------------------------
(* Bounded instances of JobQueue for TLC. *)
EXTENDS JobQueue, TLC

Symmetric == Permutations(Job) \cup Permutations(Contact) \cup Permutations(Worker)
             \cup Permutations(Event)
=============================================================================
