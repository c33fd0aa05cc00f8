----------------------------- MODULE MCOutbound -----------------------------
(* Bounded instances of Outbound for TLC. *)
EXTENDS Outbound, TLC

Symmetric == Permutations(Intent) \cup Permutations(Worker)
=============================================================================
