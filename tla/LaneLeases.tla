----------------------------- MODULE LaneLeases -----------------------------
(***************************************************************************)
(* What the job queue promises to the rest of the engine, without worker   *)
(* processes, clocks, attempts or SQL: accepted work is leased at most     *)
(* once at a time per contact and at most Cap at a time overall, a lease   *)
(* that ends either settles the work for good or gives it back, and a dead *)
(* job is the only one that raises an alert.                               *)
(***************************************************************************)
EXTENDS Naturals, FiniteSets

CONSTANTS Job, Contact, None, Cap

VARIABLES
  phase,    \* absent, waiting, leased, or the verdict it settled with
  lane,     \* the contact the job belongs to, None for a lane of its own
  alerted   \* jobs a human was told about

vars == <<phase, lane, alerted>>

Verdict == {"done", "failed", "dead"}
Leased == {j \in Job : phase[j] = "leased"}
Compatible(i, j) == lane[i] = None \/ lane[i] # lane[j]

Init ==
  /\ phase = [j \in Job |-> "absent"]
  /\ lane = [j \in Job |-> None]
  /\ alerted = {}

Accept(j, c) ==
  /\ phase[j] = "absent"
  /\ phase' = [phase EXCEPT ![j] = "waiting"]
  /\ lane' = [lane EXCEPT ![j] = c]
  /\ UNCHANGED alerted

(* A batch of leases: distinct lanes, none of them leased, within the cap. *)
Grant(S) ==
  /\ S # {} /\ \A j \in S : phase[j] = "waiting"
  /\ \A i \in S, j \in S \cup Leased : i # j => Compatible(i, j)
  /\ Cardinality(Leased) + Cardinality(S) <= Cap
  /\ phase' = [j \in Job |-> IF j \in S THEN "leased" ELSE phase[j]]
  /\ UNCHANGED <<lane, alerted>>

(* Some leases end, each by a verdict or by going back to the queue. *)
Release(out) ==
  /\ \A j \in Job : out[j] # phase[j] =>
       phase[j] = "leased" /\ out[j] \in Verdict \cup {"waiting"}
  /\ phase' = out
  /\ alerted' = alerted \cup {j \in Leased : out[j] = "dead"}
  /\ UNCHANGED lane

Next ==
  \/ \E j \in Job, c \in Contact \cup {None} : Accept(j, c)
  \/ \E S \in SUBSET Job : Grant(S)
  \/ \E out \in [Job -> {"absent", "waiting", "leased"} \cup Verdict] : Release(out)

Spec == Init /\ [][Next]_vars
=============================================================================
