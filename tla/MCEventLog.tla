----------------------------- MODULE MCEventLog -----------------------------
(* Bounded instances of EventLog for TLC. *)
EXTENDS EventLog, TLC

CONSTANTS e1, e2, c1, c2

(* Two events: one that both consumers handle and one that a single one does. *)
BothAndOne == e1 :> {c1, c2} @@ e2 :> {c2}
Symmetric == Permutations(Drain)
=============================================================================
