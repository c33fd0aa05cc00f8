-------------------------- MODULE InboundDispatch --------------------------
(***************************************************************************)
(* From a received message to the turn that answers it: the drain of the   *)
(* agent engine (lib/agent-engine/edge/crm/drain.ts) turns every           *)
(* ai_agent.dispatch_requested event of event_log into a job of the queue, *)
(* or lets it ride along with a job of the same contact that still waits.  *)
(*                                                                         *)
(* Each SQL statement of a tick is an action, so ticks of several worker   *)
(* processes, the queue and the clock interleave between them.  The queue  *)
(* is the abstract one of LaneLeases, which JobQueue is proved to          *)
(* implement; source_event_id is unique, so a job is named by its event.   *)
(*                                                                         *)
(* consumed_by is left out: the claim that makes an event processing also  *)
(* writes the consumer's key, so the reaper's test of it always holds.     *)
(***************************************************************************)
EXTENDS Naturals, FiniteSets

CONSTANTS
  Event,            \* dispatch_requested events, one per message, numbered as they come
  Contact,
  Drainer,          \* worker processes that run the drain loop
  None,
  Cap,              \* cap of the queue
  BatchSize,        \* CRM_DRAIN_BATCH_SIZE
  MaxEventAttempts, \* 5 in the code: a failure at this attempt is terminal
  MaxKinds,         \* bound: kinds of faults that one behaviour has
  MaxCrashes,       \* bound: ticks cut short by the end of their process
  MaxFailures,      \* bound: statements that fail, the ones of a catch block included
  MaxReturns,       \* bound: leases that end with the job back in the queue
  MaxHolds,         \* bound: times the session goes down
  MaxSlow           \* bound: events that get overdue while a process has them;
                    \* 0: ticks are always faster than the reaper's timeout

ASSUME EventAssumption == IsFiniteSet(Event) /\ Event \subseteq Nat
ASSUME NoneAssumption == None \notin Contact \cup Event
ASSUME BatchAssumption == BatchSize \in Nat \ {0} /\ MaxEventAttempts \in Nat \ {0}
ASSUME BoundsAssumption ==
  {MaxKinds, MaxCrashes, MaxFailures, MaxReturns, MaxHolds, MaxSlow} \subseteq Nat

VARIABLES
  event,     \* event_log.status, "absent" before the event is emitted
  sender,    \* the contact who wrote the message
  attempts,  \* event_log.attempts
  waiting,   \* events with next_attempt_at > now()
  overdue,   \* events processing for longer than CRM_EVENT_REAP_TIMEOUT_MS
  deriving,  \* events whose media is not text yet, for less than 45 s
  pc,        \* where the tick of a process is
  batch,     \* events the tick claimed and has not finished
  current,   \* the event of the batch it works on
  seen,      \* event.attempts as the claim returned it
  phase, lane, alerted,  \* the queue, see LaneLeases
  later,     \* jobs whose run_after, held_run_after if held, is > now()
  held,      \* jobs with held_run_after: their run_after is infinity
  opening,   \* leased jobs whose turn has not read the history yet
  read,      \* messages in the history the last turn of the job read
  handed,    \* history: messages that were left to a person
  fresh,     \* jobs in their debounce window
  skipped,   \* events consumed because nobody has to answer them
  mishaps,   \* history: failures written and claims reaped, per event
  faults     \* faults of each kind so far (bounded)

eventVars == <<event, sender, attempts, waiting, overdue, deriving, skipped, mishaps>>
tickVars == <<pc, batch, current, seen>>
turnVars == <<opening, read, handed>>
jobVars == <<phase, lane, alerted, later, held, fresh, turnVars>>
vars == <<eventVars, tickVars, jobVars, faults>>

Queue == INSTANCE LaneLeases WITH Job <- Event

Bound == [crash |-> MaxCrashes, failure |-> MaxFailures, return |-> MaxReturns,
          hold |-> MaxHolds, slow |-> MaxSlow]
Fault == DOMAIN Bound

(* A fault of kind f happens, if the bounds allow one more. *)
Suffer(f) ==
  /\ faults[f] < Bound[f]
  /\ Cardinality({g \in Fault \ {f} : faults[g] > 0}) < MaxKinds
  /\ faults' = [faults EXCEPT ![f] = @ + 1]

TypeOK ==
  /\ event \in [Event -> {"absent", "pending", "processing", "done", "dead"}]
  /\ sender \in [Event -> Contact \cup {None}]
  /\ attempts \in [Event -> Nat]
  /\ waiting \subseteq Event /\ overdue \subseteq Event /\ deriving \subseteq Event
  /\ pc \in [Drainer -> {"idle", "reaped", "batch", "insert", "done", "postpone", "fail"}]
  /\ batch \in [Drainer -> SUBSET Event]
  /\ current \in [Drainer -> Event \cup {None}]
  /\ seen \in [Drainer -> [Event -> Nat]]
  /\ phase \in [Event -> {"absent", "waiting", "leased", "done", "failed", "dead"}]
  /\ lane \in [Event -> Contact \cup {None}]
  /\ alerted \subseteq Event /\ later \subseteq Event /\ held \subseteq Event
  /\ read \in [Event -> SUBSET Event] /\ fresh \subseteq later
  /\ opening \subseteq Event /\ handed \subseteq Event
  /\ skipped \subseteq Event
  /\ mishaps \in [Event -> Nat]
  /\ faults \in [Fault -> Nat] /\ \A f \in Fault : faults[f] <= Bound[f]
  /\ \A d \in Drainer : /\ current[d] # None => current[d] \in batch[d]
                        /\ pc[d] \in {"idle", "reaped"} => batch[d] = {}

Init ==
  /\ event = [e \in Event |-> "absent"] /\ sender = [e \in Event |-> None]
  /\ attempts = [e \in Event |-> 0]
  /\ waiting = {} /\ overdue = {} /\ deriving = {} /\ skipped = {}
  /\ mishaps = [e \in Event |-> 0]
  /\ pc = [d \in Drainer |-> "idle"] /\ batch = [d \in Drainer |-> {}]
  /\ current = [d \in Drainer |-> None]
  /\ seen = [d \in Drainer |-> [e \in Event |-> 0]]
  /\ Queue!Init
  /\ later = {} /\ held = {} /\ fresh = {}
  /\ opening = {} /\ handed = {} /\ read = [e \in Event |-> {}]
  /\ faults = [f \in Fault |-> 0]

-----------------------------------------------------------------------------
(* handleInboundMessage: the message is stored, then the event is emitted. *)
Receive(e, c, media) ==
  /\ \A f \in Event : event[f] = "absent" <=> e <= f
  /\ event' = [event EXCEPT ![e] = "pending"]
  /\ sender' = [sender EXCEPT ![e] = c]
  /\ deriving' = IF media THEN deriving \cup {e} ELSE deriving
  /\ UNCHANGED <<attempts, waiting, overdue, skipped, mishaps, tickVars, jobVars, faults>>

ReapEvents_Never(d) ==
  /\ pc[d] = "idle"
  /\ pc' = [pc EXCEPT ![d] = "reaped"]
  /\ UNCHANGED <<eventVars, batch, current, seen, jobVars, faults>>

(* First statement of a tick: overdue events go back to pending. *)
ReapEvents(d) ==
  /\ pc[d] = "idle"
  /\ pc' = [pc EXCEPT ![d] = "reaped"]
  /\ LET orphans == {e \in overdue : event[e] = "processing"}
     IN /\ event' = [e \in Event |-> IF e \in orphans THEN "pending" ELSE event[e]]
        /\ mishaps' = [e \in Event |-> mishaps[e] + IF e \in orphans THEN 1 ELSE 0]
        /\ overdue' = overdue \ orphans
  /\ UNCHANGED <<sender, attempts, waiting, deriving, skipped, batch, current, seen,
                 jobVars, faults>>

(* Events a claim may take. *)
Ready == {e \in Event : event[e] = "pending"} \ waiting

(* Second statement: claim a batch, compare-and-set pending -> processing. *)
ClaimBatch(d, S) ==
  /\ pc[d] = "reaped"
  /\ S \subseteq Ready /\ Cardinality(S) <= BatchSize
  /\ S = {} => Ready = {}
  /\ pc' = [pc EXCEPT ![d] = IF S = {} THEN "idle" ELSE "batch"]
  /\ event' = [e \in Event |-> IF e \in S THEN "processing" ELSE event[e]]
  /\ attempts' = [e \in Event |-> attempts[e] + IF e \in S THEN 1 ELSE 0]
  /\ overdue' = overdue \ S
  /\ batch' = [batch EXCEPT ![d] = S]
  /\ seen' = [seen EXCEPT ![d] = [e \in Event |-> IF e \in S THEN attempts'[e] ELSE 0]]
  /\ UNCHANGED <<sender, waiting, deriving, skipped, mishaps, current, jobVars, faults>>

RidesAlong_AnyJob(e) ==
  \E j \in Event : lane[j] = sender[e] /\ phase[j] \in {"waiting", "leased"}

(* The coalescing query: a waiting turn of the contact that starts later. *)
RidesAlong(e) ==
  \E j \in later \cup held : lane[j] = sender[e] /\ phase[j] = "waiting"

(* The queries of processEvent, in their order: nobody to answer (external *)
(* mode, group, no agent), media still being transcribed, coalescing.      *)
(* They only read, and what the first ones read does not depend on ticks.  *)
Examine(d, e, nobody) ==
  /\ pc[d] = "batch" /\ current[d] = None /\ e \in batch[d]
  /\ current' = [current EXCEPT ![d] = e]
  /\ pc' = [pc EXCEPT ![d] = IF nobody \/ (e \notin deriving /\ RidesAlong(e)) THEN "done"
                             ELSE IF e \in deriving THEN "postpone" ELSE "insert"]
  /\ skipped' = IF nobody THEN skipped \cup {e} ELSE skipped
  /\ UNCHANGED <<event, sender, attempts, waiting, overdue, deriving, mishaps,
                 batch, seen, jobVars, faults>>

(* enqueueJob: a new row, or the row this event already has. *)
InsertJob(d) ==
  LET e == current[d]
  IN /\ pc[d] = "insert"
     /\ pc' = [pc EXCEPT ![d] = "done"]
     /\ IF phase[e] = "absent"
          THEN /\ Queue!Accept(e, sender[e])
               /\ later' = later \cup {e} /\ fresh' = fresh \cup {e}
               /\ UNCHANGED <<held, turnVars>>
          ELSE UNCHANGED jobVars
     /\ UNCHANGED <<eventVars, batch, current, seen, faults>>

NextEvent_KeepsEvent(d) ==
  /\ current' = [current EXCEPT ![d] = None]
  /\ pc' = [pc EXCEPT ![d] = IF batch[d] = {current[d]} THEN "idle" ELSE "batch"]
  /\ seen' = [seen EXCEPT ![d][current[d]] = 0]
  /\ UNCHANGED batch

(* The tick is done with its current event and goes on with the batch. *)
NextEvent(d) ==
  /\ batch' = [batch EXCEPT ![d] = @ \ {current[d]}]
  /\ current' = [current EXCEPT ![d] = None]
  /\ pc' = [pc EXCEPT ![d] = IF batch[d] = {current[d]} THEN "idle" ELSE "batch"]
  /\ seen' = [seen EXCEPT ![d][current[d]] = 0]

(* The last statement writes the event by id, whatever its status is now. *)
MarkDone(d) ==
  /\ pc[d] = "done"
  /\ event' = [event EXCEPT ![current[d]] = "done"]
  /\ overdue' = overdue \ {current[d]}
  /\ NextEvent(d)
  /\ UNCHANGED <<sender, attempts, waiting, deriving, skipped, mishaps, jobVars, faults>>

Postpone_Charged(d) ==
  LET e == current[d]
  IN /\ pc[d] = "postpone"
     /\ event' = [event EXCEPT ![e] = "pending"]
     /\ waiting' = waiting \cup {e} /\ overdue' = overdue \ {e}
     /\ NextEvent(d)
     /\ UNCHANGED <<sender, attempts, deriving, skipped, mishaps, jobVars, faults>>

Postpone_FallsThrough(d) ==
  LET e == current[d]
  IN /\ pc[d] = "postpone"
     /\ event' = [event EXCEPT ![e] = "done"]
     /\ attempts' = [attempts EXCEPT ![e] = IF @ > 0 THEN @ - 1 ELSE 0]
     /\ waiting' = waiting \cup {e} /\ overdue' = overdue \ {e}
     /\ NextEvent(d)
     /\ UNCHANGED <<sender, deriving, skipped, mishaps, jobVars, faults>>

(* "adiar": pending again in 4 s, and the attempt is given back. *)
Postpone(d) ==
  LET e == current[d]
  IN /\ pc[d] = "postpone"
     /\ event' = [event EXCEPT ![e] = "pending"]
     /\ attempts' = [attempts EXCEPT ![e] = IF @ > 0 THEN @ - 1 ELSE 0]
     /\ waiting' = waiting \cup {e} /\ overdue' = overdue \ {e}
     /\ NextEvent(d)
     /\ UNCHANGED <<sender, deriving, skipped, mishaps, jobVars, faults>>

(* A query, the insert or the final update of an event throws. *)
StatementFails(d, e) ==
  /\ \/ pc[d] = "batch" /\ e \in batch[d]
     \/ pc[d] \in {"insert", "done", "postpone"} /\ e = current[d]
  /\ Suffer("failure")
  /\ current' = [current EXCEPT ![d] = e]
  /\ pc' = [pc EXCEPT ![d] = "fail"]
  /\ UNCHANGED <<eventVars, batch, seen, jobVars>>

(* The catch block: pending in 30 s, or dead at the last attempt. *)
WriteFailure(d) ==
  LET e == current[d]
  IN /\ pc[d] = "fail"
     /\ event' = [event EXCEPT ![e] = IF seen[d][e] >= MaxEventAttempts
                                        THEN "dead" ELSE "pending"]
     /\ waiting' = waiting \cup {e} /\ overdue' = overdue \ {e}
     /\ mishaps' = [mishaps EXCEPT ![e] = @ + 1]
     /\ NextEvent(d)
     /\ UNCHANGED <<sender, attempts, deriving, skipped, jobVars, faults>>

(* The tick ends with its batch unfinished. *)
Abandon(d) ==
  /\ pc' = [pc EXCEPT ![d] = "idle"]
  /\ batch' = [batch EXCEPT ![d] = {}]
  /\ current' = [current EXCEPT ![d] = None]
  /\ seen' = [seen EXCEPT ![d] = [e \in Event |-> 0]]
  /\ UNCHANGED <<eventVars, jobVars>>

(* The update of the catch block throws as well: the loop logs "tick       *)
(* falhou" and what is left of the batch stays processing.                 *)
TickFails(d) == pc[d] = "fail" /\ Suffer("failure") /\ Abandon(d)

(* The process dies and is started again. *)
Crash(d) == pc[d] # "idle" /\ Suffer("crash") /\ Abandon(d)

-----------------------------------------------------------------------------
(* Time. *)
EventDue(e) ==
  /\ e \in waiting
  /\ waiting' = waiting \ {e}
  /\ UNCHANGED <<event, sender, attempts, overdue, deriving, skipped, mishaps,
                 tickVars, jobVars, faults>>

EventOverdue(e) ==
  /\ event[e] = "processing" /\ e \notin overdue
  /\ IF \E d \in Drainer : e \in batch[d] THEN Suffer("slow") ELSE UNCHANGED faults
  /\ overdue' = overdue \cup {e}
  /\ UNCHANGED <<event, sender, attempts, waiting, deriving, skipped, mishaps,
                 tickVars, jobVars>>

(* The media became text, or 45 s passed since the event. *)
Derived(e) ==
  /\ e \in deriving
  /\ deriving' = deriving \ {e}
  /\ UNCHANGED <<event, sender, attempts, waiting, overdue, skipped, mishaps,
                 tickVars, jobVars, faults>>

JobDue(j) ==
  /\ j \in later
  /\ later' = later \ {j} /\ fresh' = fresh \ {j}
  /\ UNCHANGED <<eventVars, tickVars, phase, lane, alerted, held, turnVars, faults>>

-----------------------------------------------------------------------------
(* The queue and its turns. *)

(* Messages of contact c received so far. *)
Messages(c) == {e \in Event : event[e] # "absent" /\ sender[e] = c}

(* A lease starts a turn, which has read nothing yet. *)
StartTurn(j) ==
  /\ j \notin later \cup held
  /\ Queue!Grant({j})
  /\ opening' = opening \cup {j}
  /\ read' = [read EXCEPT ![j] = {}]
  /\ UNCHANGED <<eventVars, tickVars, later, held, fresh, handed, faults>>

(* getLeadContext: after the checks and lookups of its opening, any of     *)
(* which may throw, the turn reads the history of the contact.             *)
ReadHistory(j) ==
  /\ j \in opening
  /\ opening' = opening \ {j}
  /\ read' = [read EXCEPT ![j] = Messages(lane[j])]
  /\ UNCHANGED <<eventVars, tickVars, phase, lane, alerted, later, held, fresh, handed,
                 faults>>

(* The turn ends before it read anything: the contact is with a person     *)
(* (isLeadInHandoff), or the attempts of the job are used up and an alert  *)
(* calls a person.  Either way the messages so far are a person's to see.  *)
EndUnread(j, verdict) ==
  /\ j \in opening /\ verdict \in {"done", "dead"}
  /\ Queue!Release([phase EXCEPT ![j] = verdict])
  /\ opening' = opening \ {j}
  /\ handed' = handed \cup Messages(lane[j])
  /\ UNCHANGED <<eventVars, tickVars, later, held, read, fresh, faults>>

(* The turn ends after it read the history and settles its job. *)
SettleTurn(j, verdict) ==
  /\ phase[j] = "leased" /\ j \notin opening
  /\ Queue!Release([phase EXCEPT ![j] = verdict])
  /\ UNCHANGED <<eventVars, tickVars, later, held, fresh, turnVars, faults>>

(* The job goes back: after a failure at once, rescheduled for later. *)
ReturnTurn(j, rescheduled) ==
  /\ phase[j] = "leased"
  /\ Suffer("return")
  /\ Queue!Release([phase EXCEPT ![j] = "waiting"])
  /\ later' = IF rescheduled THEN later \cup {j} ELSE later
  /\ opening' = opening \ {j}
  /\ UNCHANGED <<eventVars, tickVars, held, fresh, read, handed>>

Waits == {j \in Event : phase[j] = "waiting"}

(* enforceHolds with the session down or in a health hold: every waiting   *)
(* job of it gets run_after = infinity and remembers the old one.          *)
HoldJobs ==
  /\ Waits \ held # {}
  /\ Suffer("hold")
  /\ held' = held \cup Waits
  /\ UNCHANGED <<eventVars, tickVars, phase, lane, alerted, later, fresh, turnVars>>

(* enforceHolds with the session working: every run_after is what it was. *)
ReleaseHolds ==
  /\ held # {}
  /\ held' = {}
  /\ UNCHANGED <<eventVars, tickVars, phase, lane, alerted, later, fresh, turnVars, faults>>

-----------------------------------------------------------------------------
Process(d) ==
  \/ \E e \in Event, nobody \in BOOLEAN : Examine(d, e, nobody)
  \/ InsertJob(d) \/ MarkDone(d) \/ Postpone(d) \/ WriteFailure(d)

TickStep(d) ==
  \/ ReapEvents(d)
  \/ \E S \in SUBSET Event : ClaimBatch(d, S)
  \/ Process(d)

Next ==
  \/ \E e \in Event, c \in Contact, media \in BOOLEAN : Receive(e, c, media)
  \/ \E d \in Drainer : TickStep(d)
  \/ \E d \in Drainer, e \in Event : StatementFails(d, e)
  \/ \E d \in Drainer : TickFails(d) \/ Crash(d)
  \/ \E e \in Event : EventDue(e) \/ EventOverdue(e) \/ Derived(e) \/ JobDue(e)
  \/ \E j \in Event : StartTurn(j) \/ ReadHistory(j)
  \/ \E j \in Event, verdict \in Queue!Verdict :
       EndUnread(j, verdict) \/ SettleTurn(j, verdict)
  \/ \E j \in Event, rescheduled \in BOOLEAN : ReturnTurn(j, rescheduled)
  \/ HoldJobs
  \/ ReleaseHolds

(* A turn goes on, by reading the history or to its end. *)
TurnStep(j) ==
  \/ ReadHistory(j)
  \/ \E verdict \in Queue!Verdict : EndUnread(j, verdict) \/ SettleTurn(j, verdict)

Spec == Init /\ [][Next]_vars

(* The drain loop keeps ticking, time passes, sessions come back, the      *)
(* queue starts waiting turns and every lease ends (EveryJobSettles of     *)
(* JobQueue).                                                              *)
Fairness ==
  /\ \A d \in Drainer : WF_vars(TickStep(d))
  /\ \A e \in Event : /\ WF_vars(EventDue(e)) /\ WF_vars(EventOverdue(e))
                      /\ WF_vars(Derived(e)) /\ WF_vars(JobDue(e))
                      /\ WF_vars(StartTurn(e)) /\ WF_vars(TurnStep(e))
  /\ WF_vars(ReleaseHolds)

FairSpec == Spec /\ Fairness

-----------------------------------------------------------------------------
(* No message is dropped: once its event is consumed, the message is in    *)
(* the history some turn of its contact read, or a turn that waits or has  *)
(* not come to its reading yet will read it, or a person has it.  Events   *)
(* nobody has to answer are the only exception.                            *)
MessagesCovered ==
  \A e \in Event :
    event[e] = "done" /\ e \notin skipped \cup handed =>
      \E j \in Event : /\ lane[j] = sender[e]
                       /\ phase[j] = "waiting" \/ j \in opening \/ e \in read[j]

(* An event is given up only after MaxEventAttempts mishaps: waiting for   *)
(* media to be transcribed does not use the budget of real errors.         *)
DeadOnlyAfterMishaps ==
  \A e \in Event : event[e] = "dead" => mishaps[e] >= MaxEventAttempts

(* While ticks are faster than the reaper's timeout, no two processes work *)
(* on the same event.                                                      *)
OneOwner ==
  faults["slow"] = 0 => \A d1, d2 \in Drainer : d1 # d2 => batch[d1] \cap batch[d2] = {}

(* "mensagens do MESMO contato dentro da janela de debounce viram UM job"  *)
(* (drain.ts): a contact never has two jobs in their debounce windows.     *)
OneJobPerBurst ==
  \A i, j \in fresh : i # j => lane[i] # lane[j]

(* Every event is consumed in the end, whatever crashes, fails or waits. *)
EventsConsumed == \A e \in Event : event[e] = "pending" ~> event[e] \in {"done", "dead"}

(* Every message is read by a turn that settles, or comes to a person with *)
(* the contact, unless nobody has to answer it or its event died.          *)
MessagesAnswered ==
  \A e \in Event :
    event[e] = "pending" ~>
      \/ e \in skipped \cup handed \/ event[e] = "dead"
      \/ \E j \in Event : e \in read[j] /\ phase[j] \in Queue!Verdict
=============================================================================
