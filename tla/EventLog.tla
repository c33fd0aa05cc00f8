------------------------------ MODULE EventLog ------------------------------
(***************************************************************************)
(* The event log of the CRM: rows of event_log, the registered consumers   *)
(* of their types, and drainEventLog, which the cron route runs every      *)
(* minute and which may therefore run more than once at a time.            *)
(*                                                                         *)
(* A drain reads a batch of rows and works through it: it claims a row by  *)
(* compare-and-set on its status, but hands the consumers, and writes back *)
(* at the end, what the row held when the batch was read.                  *)
(***************************************************************************)
EXTENDS Naturals, FiniteSets

CONSTANTS
  Event,
  Consumer,     \* keys of the registered handlers
  Handles,      \* the consumers of each event's type
  Drain,        \* runs of the cron route that may overlap
  None,
  MaxAttempts,  \* EVENT_LOG_MAX_ATTEMPTS (5)
  Limit,        \* rows of a batch (50)
  MaxRetries,   \* bound: answers that ask for a retry
  MaxFaults     \* bound: crashes and statements that fail

ASSUME EventAssumption == IsFiniteSet(Event)
ASSUME HandlesAssumption == Handles \in [Event -> SUBSET Consumer]
ASSUME NoneAssumption == None \notin Event
ASSUME BoundsAssumption ==
  MaxAttempts \in Nat \ {0} /\ Limit \in Nat \ {0} /\ MaxRetries \in Nat /\ MaxFaults \in Nat

VARIABLES
  row,       \* event_log: status, consumed_by, attempts, next_attempt_at
  created,   \* created_at, as the number of events that were there
  batch,     \* rows a drain has read and not come to yet
  run,       \* the row a drain has claimed, and its consumers' answers
  answered,  \* history: consumers that answered ok or skipped
  failures,  \* history: rounds in which a consumer failed, up to MaxAttempts
  stale,     \* history: events claimed by a drain that read them too early
  repeated,  \* history: others that a consumer got after it had answered
  lost,      \* history: events whose claim or verdict was lost
  retries,   \* bounded counter
  faults     \* bounded counter

history == <<answered, failures, repeated, stale, lost>>
vars == <<row, created, batch, run, history, retries, faults>>

Snapshot == [event : Event, consumedBy : SUBSET Consumer, attempts : 0..(MaxAttempts - 1)]
Free == [event |-> None]
Run == [event : Event, consumedBy : SUBSET Consumer, attempts : 0..(MaxAttempts - 1),
        left : SUBSET Consumer, ok : SUBSET Consumer, failed : BOOLEAN, retry : BOOLEAN]

TypeOK ==
  /\ row \in [Event -> [status : {"absent", "pending", "processing", "done", "dead"},
                        consumedBy : SUBSET Consumer, attempts : 0..MaxAttempts, due : BOOLEAN]]
  /\ created \in [Event -> Nat]
  /\ batch \in [Drain -> SUBSET Snapshot]
  /\ run \in [Drain -> Run \cup {Free}]
  /\ answered \in [Event -> SUBSET Consumer]
  /\ failures \in [Event -> 0..MaxAttempts]
  /\ repeated \subseteq Event /\ stale \subseteq Event /\ lost \subseteq Event
  /\ retries \in 0..MaxRetries /\ faults \in 0..MaxFaults

Init ==
  /\ row = [e \in Event |-> [status |-> "absent", consumedBy |-> {}, attempts |-> 0, due |-> TRUE]]
  /\ created = [e \in Event |-> 0]
  /\ batch = [d \in Drain |-> {}] /\ run = [d \in Drain |-> Free]
  /\ answered = [e \in Event |-> {}] /\ failures = [e \in Event |-> 0]
  /\ repeated = {} /\ stale = {} /\ lost = {}
  /\ retries = 0 /\ faults = 0

Suffer == faults < MaxFaults /\ faults' = faults + 1

-----------------------------------------------------------------------------
(* External: application code inserts an event. *)
Emit(e) ==
  /\ row[e].status = "absent"
  /\ row' = [row EXCEPT ![e].status = "pending"]
  /\ created' = [created EXCEPT ![e] = Cardinality({x \in Event : row[x].status # "absent"})]
  /\ UNCHANGED <<batch, run, history, retries, faults>>

(* next_attempt_at comes. *)
Due(e) ==
  /\ row[e].status = "pending" /\ ~row[e].due
  /\ row' = [row EXCEPT ![e].due = TRUE]
  /\ UNCHANGED <<created, batch, run, history, retries, faults>>

(* The rows of the select, the oldest Limit of them: types without a       *)
(* registered consumer are left alone.                                     *)
Ready == {e \in Event : row[e].status = "pending" /\ row[e].due /\ Handles[e] # {}}
Selected == {e \in Ready : Cardinality({x \in Ready : created[x] < created[e]}) < Limit}
SnapshotOf(e) == [event |-> e, consumedBy |-> row[e].consumedBy, attempts |-> row[e].attempts]

Select(d) ==
  /\ run[d] = Free /\ batch[d] = {} /\ Selected # {}
  /\ batch' = [batch EXCEPT ![d] = {SnapshotOf(e) : e \in Selected}]
  /\ UNCHANGED <<row, created, run, history, retries, faults>>

(* The drain comes to s, the oldest row it has not come to yet. *)
ComesTo(d, s) ==
  /\ run[d] = Free /\ s \in batch[d]
  /\ \A t \in batch[d] : created[s.event] <= created[t.event]
  /\ batch' = [batch EXCEPT ![d] = @ \ {s}]

(* The consumers of a snapshot: those it does not name in consumed_by. *)
Begin(s) ==
  [event |-> s.event, consumedBy |-> s.consumedBy, attempts |-> s.attempts,
   left |-> Handles[s.event] \ s.consumedBy, ok |-> {}, failed |-> FALSE, retry |-> FALSE]

Claim_NoGuard(d, s) ==
  LET e == s.event
  IN /\ ComesTo(d, s)
     /\ row' = [row EXCEPT ![e].status = "processing"]
     /\ run' = [run EXCEPT ![d] = Begin(s)]
     /\ stale' = IF row[e].consumedBy # s.consumedBy THEN stale \cup {e} ELSE stale
     /\ UNCHANGED <<created, answered, failures, repeated, lost, retries, faults>>

(* The optimistic claim: pending -> processing, else the row is skipped.   *)
Claim(d, s) ==
  LET e == s.event
  IN /\ ComesTo(d, s)
     /\ IF row[e].status = "pending"
          THEN /\ row' = [row EXCEPT ![e].status = "processing"]
               /\ run' = [run EXCEPT ![d] = Begin(s)]
               /\ stale' = IF row[e].consumedBy # s.consumedBy THEN stale \cup {e} ELSE stale
          ELSE UNCHANGED <<row, run, stale>>
     /\ UNCHANGED <<created, answered, failures, repeated, lost, retries, faults>>

(* An error of the claim is not looked at: the row is skipped, whether the *)
(* update was made or not.                                                 *)
ClaimFails(d, s, made) ==
  LET e == s.event
  IN /\ ComesTo(d, s) /\ Suffer
     /\ made => row[e].status = "pending"
     /\ row' = IF made THEN [row EXCEPT ![e].status = "processing"] ELSE row
     /\ lost' = IF made THEN lost \cup {e} ELSE lost
     /\ UNCHANGED <<created, run, answered, failures, repeated, stale, retries>>

(* dispatchEvent: one consumer after the other answers, in the order in    *)
(* which they are registered.  A throw is an error.                        *)
Handle(d, verdict) ==
  LET e == run[d].event
      c == CHOOSE x \in run[d].left : TRUE
      r == [run[d] EXCEPT !.left = @ \ {c}]
  IN /\ run[d] # Free /\ run[d].left # {}
     /\ repeated' = IF c \in answered[e] /\ e \notin stale THEN repeated \cup {e} ELSE repeated
     /\ \/ /\ verdict = "ok"
           /\ run' = [run EXCEPT ![d] = [r EXCEPT !.ok = @ \cup {c}]]
           /\ answered' = [answered EXCEPT ![e] = @ \cup {c}]
           /\ UNCHANGED <<failures, retries>>
        \/ /\ verdict = "error"
           /\ run' = [run EXCEPT ![d] = [r EXCEPT !.failed = TRUE]]
           /\ failures' = IF run[d].failed \/ failures[e] = MaxAttempts THEN failures
                          ELSE [failures EXCEPT ![e] = @ + 1]
           /\ UNCHANGED <<answered, retries>>
        \/ /\ verdict = "retry" /\ retries < MaxRetries
           /\ run' = [run EXCEPT ![d] = [r EXCEPT !.retry = TRUE]]
           /\ retries' = retries + 1
           /\ UNCHANGED <<answered, failures>>
     /\ UNCHANGED <<row, created, batch, stale, lost, faults>>

Written_RetryCounts(r) ==
  LET consumedBy == r.consumedBy \cup r.ok
      attempts == r.attempts + 1
  IN CASE r.failed \/ r.retry ->
            [status |-> IF attempts >= MaxAttempts THEN "dead" ELSE "pending",
             consumedBy |-> consumedBy, attempts |-> attempts, due |-> FALSE]
       [] OTHER -> [status |-> "done", consumedBy |-> consumedBy, attempts |-> r.attempts, due |-> TRUE]

Written_DiesLate(r) ==
  LET consumedBy == r.consumedBy \cup r.ok
      attempts == r.attempts + 1
      dead == attempts > MaxAttempts
  IN CASE r.retry -> [row[r.event] EXCEPT !.status = "pending", !.consumedBy = consumedBy, !.due = FALSE]
       [] ~r.retry /\ r.failed ->
            [status |-> IF dead THEN "dead" ELSE "pending", consumedBy |-> consumedBy,
             attempts |-> attempts, due |-> dead]
       [] OTHER -> [row[r.event] EXCEPT !.status = "done", !.consumedBy = consumedBy]

Written_NeverCounts(r) ==
  LET consumedBy == r.consumedBy \cup r.ok
  IN IF r.retry \/ r.failed
       THEN [row[r.event] EXCEPT !.status = "pending", !.consumedBy = consumedBy, !.due = FALSE]
       ELSE [row[r.event] EXCEPT !.status = "done", !.consumedBy = consumedBy]

(* What the drain writes for the answers r: a retry is not an attempt and  *)
(* hides an error of the same round; an error is one.                      *)
Written(r) ==
  LET consumedBy == r.consumedBy \cup r.ok
      attempts == r.attempts + 1
      dead == attempts >= MaxAttempts
  IN CASE r.retry -> [row[r.event] EXCEPT !.status = "pending", !.consumedBy = consumedBy, !.due = FALSE]
       [] ~r.retry /\ r.failed ->
            [status |-> IF dead THEN "dead" ELSE "pending", consumedBy |-> consumedBy,
             attempts |-> attempts, due |-> dead]
       [] OTHER -> [row[r.event] EXCEPT !.status = "done", !.consumedBy = consumedBy]

Answered(d) == run[d] # Free /\ run[d].left = {}

Verdict(d) ==
  /\ Answered(d)
  /\ row' = [row EXCEPT ![run[d].event] = Written(run[d])]
  /\ run' = [run EXCEPT ![d] = Free]
  /\ UNCHANGED <<created, batch, history, retries, faults>>

(* Nor is an error of the last update: the row stays processing. *)
VerdictFails(d) ==
  /\ Answered(d) /\ Suffer
  /\ lost' = lost \cup {run[d].event}
  /\ run' = [run EXCEPT ![d] = Free]
  /\ UNCHANGED <<row, created, batch, answered, failures, repeated, stale, retries>>

(* The route is killed: nobody takes back the row it had claimed. *)
Crash(d) ==
  /\ Suffer
  /\ run[d] # Free \/ batch[d] # {}
  /\ lost' = IF run[d] = Free THEN lost ELSE lost \cup {run[d].event}
  /\ run' = [run EXCEPT ![d] = Free] /\ batch' = [batch EXCEPT ![d] = {}]
  /\ UNCHANGED <<row, created, answered, failures, repeated, stale, retries>>

-----------------------------------------------------------------------------
Answers(d) == \E v \in {"ok", "error", "retry"} : Handle(d, v)
Claims(d) == \E s \in batch[d] : Claim(d, s)
Work(d) == Select(d) \/ Claims(d) \/ Answers(d) \/ Verdict(d)

Next ==
  \/ \E e \in Event : Emit(e) \/ Due(e)
  \/ \E d \in Drain : Work(d) \/ VerdictFails(d) \/ Crash(d)
  \/ \E d \in Drain : \E s \in batch[d], made \in BOOLEAN : ClaimFails(d, s, made)

Spec == Init /\ [][Next]_vars

(* The cron calls the route every minute and a drain that lives goes on    *)
(* with its batch; consumers answer; time passes.                          *)
Fairness ==
  /\ \A d \in Drain : WF_vars(Work(d))
  /\ \A e \in Event : WF_vars(Due(e))
FairSpec == Spec /\ Fairness

-----------------------------------------------------------------------------
(* A row is processing exactly while one drain works on it, or because a   *)
(* fault lost its claim: overlapping drains never share an event, and no   *)
(* drain forgets one.                                                      *)
HeldByOne ==
  \A e \in Event :
    LET holders == {d \in Drain : run[d].event = e}
    IN IF row[e].status = "processing" /\ e \notin lost
         THEN Cardinality(holders) = 1 ELSE holders = {}

(* "sem duplo efeito em re-drain": a consumer gets an event again after it *)
(* answered only if a drain claimed the row with what it had read before   *)
(* another drain wrote its verdict.                                        *)
RepeatHasACause == repeated = {}

(* An event is done only when every consumer of its type answered, dead    *)
(* only after MaxAttempts rounds in which one failed, and settled for      *)
(* good, although overlapping drains write back what they read.            *)
Promise ==
  INSTANCE EventPromise
    WITH state <- [e \in Event |-> IF row[e].status \in {"pending", "processing"} THEN "open"
                                   ELSE row[e].status]
ImplementsPromise == Promise!Spec

(* Every event with consumers is settled, whatever they answer and in      *)
(* whatever way drains overlap, unless a fault lost it; overlapping drains *)
(* cannot set the attempts back for ever.                                  *)
EventsSettle ==
  \A e \in Event :
    row[e].status = "pending" /\ Handles[e] # {} ~> row[e].status \in {"done", "dead"} \/ e \in lost
=============================================================================
