---------------------------- MODULE EventPromise ----------------------------
(***************************************************************************)
(* What the event log promises to those who emit events: every consumer of *)
(* the event's type gets it until the consumer has answered; the event is  *)
(* then done, or it is given up after MaxAttempts rounds in which some     *)
(* consumer failed; a settled event stays settled.                         *)
(***************************************************************************)
EXTENDS Naturals

CONSTANTS Event, Consumer, Handles, MaxAttempts

VARIABLES state, answered, failures
vars == <<state, answered, failures>>

Init ==
  /\ state = [e \in Event |-> "absent"]
  /\ answered = [e \in Event |-> {}]
  /\ failures = [e \in Event |-> 0]

Publish(e) ==
  /\ state[e] = "absent"
  /\ state' = [state EXCEPT ![e] = "open"]
  /\ UNCHANGED <<answered, failures>>

Answer(e, c) ==
  /\ state[e] = "open" /\ c \in Handles[e]
  /\ answered' = [answered EXCEPT ![e] = @ \cup {c}]
  /\ UNCHANGED <<state, failures>>

(* Some consumer fails in a round of deliveries; MaxAttempts are enough.   *)
Fail(e) ==
  /\ state[e] = "open"
  /\ failures' = [failures EXCEPT ![e] = IF @ < MaxAttempts THEN @ + 1 ELSE @]
  /\ UNCHANGED <<state, answered>>

Settle(e) ==
  /\ state[e] = "open" /\ answered[e] = Handles[e]
  /\ state' = [state EXCEPT ![e] = "done"]
  /\ UNCHANGED <<answered, failures>>

GiveUp(e) ==
  /\ state[e] = "open" /\ failures[e] = MaxAttempts
  /\ state' = [state EXCEPT ![e] = "dead"]
  /\ UNCHANGED <<answered, failures>>

Next ==
  \E e \in Event :
    \/ Publish(e) \/ Fail(e) \/ Settle(e) \/ GiveUp(e)
    \/ \E c \in Consumer : Answer(e, c)

Spec == Init /\ [][Next]_vars
=============================================================================
