------------------------------ MODULE Followup ------------------------------
(***************************************************************************)
(* One enrollment of a contact in a follow-up flow (lib/followup): a row   *)
(* that walks a published graph of nodes.  Four kinds of actors write the  *)
(* row, each with statements of its own and no transaction around them:    *)
(*                                                                         *)
(*   ticks     of the cron route, which claim a due enrollment, decide     *)
(*             from what they read and apply the result (engine.ts,        *)
(*             node-handlers.ts);                                          *)
(*   turns     that the ticks enqueue in job_queue, whose result is        *)
(*             reported back when they end (turn-bridge.ts);               *)
(*   drains    of event_log, which react to replies, opt-outs and human    *)
(*             handoffs (reactivity.ts, event-log/drain.ts);               *)
(*   a manager who cancels by hand (enrollments/[id]/cancel/route.ts).     *)
(*                                                                         *)
(* What keeps them apart is a lease of the ticks (claimed_until) and the   *)
(* unique idempotency keys of followup_enrollment_events: the updates of   *)
(* the row are by id and carry what their writer read earlier.             *)
(*                                                                         *)
(* The graph is a constant.  Facts of the lead and answers of the model    *)
(* are choices among the edges of a node.  Time is the state of            *)
(* next_eval_at: null, later, or now.                                      *)
(***************************************************************************)
EXTENDS Naturals, FiniteSets, Sequences

CONSTANTS
  Node,           \* nodes of the graph
  Trigger,        \* its trigger node
  Type,           \* type of each node
  Out,            \* targets of the edges that leave each node
  NoReply,        \* target of the no_reply edge of a classify node
  Tick,           \* runs of the cron route that may overlap
  Drain,          \* runs of the event_log drain that may overlap
  Policy,         \* handoff_policy of the flow
  CancelOnReply,  \* trigger_config.cancel_on_reply of the flow
  None,
  MaxSteps,       \* MAX_STEPS of the engine
  MaxRechecks,    \* MAX_ACTION_RECHECKS
  MaxAttempts,    \* max_attempts of the enrollment
  MaxInterventions, \* bound: messages, handoff changes and manual cancels
  Faults,         \* kinds of faults that may happen, see FaultAssumption
  MaxFaults       \* bound: their number

ASSUME GraphAssumption ==
  /\ Trigger \in Node /\ Out \in [Node -> SUBSET Node] /\ NoReply \in [Node -> Node]
  /\ Type \in [Node -> {"trigger", "wait", "condition", "classify", "action", "end"}]
  /\ \A n \in Node : Type[n] # "end" => Out[n] # {}
  /\ \A n \in Node : Type[n] = "classify" => NoReply[n] \in Out[n]
ASSUME PolicyAssumption == Policy \in {"pause", "cancel", "allow"}
ASSUME FlagAssumption == CancelOnReply \in BOOLEAN
ASSUME NoneAssumption == None \notin {"cancel", "pause", "resume", "wake"}
ASSUME BoundAssumption == MaxInterventions \in Nat /\ MaxFaults \in Nat
(* A statement of a tick or a turn fails; a tick's process dies; a         *)
(* reaction fails or dies half way; a lease expires while its tick works.  *)
ASSUME FaultAssumption == Faults \subseteq {"failure", "crash", "lost", "slow"}

VARIABLES
  status, node, steps, attempts, eval, leased,  \* the row
  stepKeys,   \* idempotency keys <<node, steps_taken>> of the row's events
  wakeKeys,   \* keys of inbound_woke events, <<node, steps_taken>>
  marks,      \* keys of other reactions, <<signal, reaction, node>>
  notices,    \* agent_inbox_items of kind followup_dead
  tick,       \* the runs of the cron route
  turn,       \* jobs of the queue, in the order they were enqueued
  signal,     \* event_log rows, in the order they were created
  drain,      \* the runs of the drain
  blocked,    \* contacts.is_blocked
  handoff,    \* a human attends the contact
  manager,    \* the manager's request
  faults      \* faults so far (bounded)

rowVars == <<status, node, steps, attempts, eval, leased>>
keyVars == <<stepKeys, wakeKeys, marks, notices>>
worldVars == <<blocked, handoff>>
vars == <<rowVars, keyVars, tick, turn, signal, drain, worldVars, manager, faults>>

Terminal == {"completed", "cancelled", "dead"}
Live == {"active", "waiting_reply", "paused_handoff"}
Suffer(f) == f \in Faults /\ faults < MaxFaults /\ faults' = faults + 1

(* What a tick is going to write, and what it has read to decide it. *)
NoPlan == [to |-> None, status |-> None, eval |-> "null", enqueue |-> FALSE]
IdleTick == [pc |-> "idle", node |-> None, steps |-> 0, attempts |-> 0,
             failing |-> FALSE, plan |-> NoPlan]
IdleDrain == [pc |-> "idle", signal |-> None, sawBlocked |-> FALSE,
              act |-> None, node |-> None, steps |-> 0]

(* The check constraint of the table included: a row with a clock has one. *)
TypeOK ==
  /\ status \in Live \cup Terminal /\ node \in Node /\ steps \in Nat
  /\ attempts \in Nat
  /\ eval \in {"null", "later", "now"} /\ leased \in BOOLEAN
  /\ status \in {"active", "waiting_reply"} => eval # "null"
  /\ stepKeys \cup wakeKeys \subseteq Node \X Nat
  /\ marks \subseteq (DOMAIN signal) \X {"cancel", "pause", "resume"} \X Node
  /\ notices \in Nat
  /\ \A t \in Tick : tick[t].pc \in {"idle", "decide", "insert", "enqueue", "update",
                                     "backoff", "notify", "die"}
  /\ \A j \in DOMAIN turn :
       turn[j].pc \in {"queued", "report", "insert", "update", "done", "dead"}
  /\ \A s \in DOMAIN signal : signal[s].status \in {"pending", "retry", "processing", "done"}
  /\ \A d \in Drain : drain[d].pc \in {"idle", "load", "insert", "update"}
  /\ blocked \in BOOLEAN /\ handoff \in BOOLEAN
  /\ manager \in {"away", "checked", "done"}
  /\ faults \in 0..MaxFaults

(* The enrollment was just created, by hand or by the silence sweep. *)
Init ==
  /\ status = "active" /\ node = Trigger /\ steps = 0 /\ attempts = 0
  /\ eval = "now" /\ leased = FALSE
  /\ stepKeys = {} /\ wakeKeys = {} /\ marks = {} /\ notices = 0
  /\ tick = [t \in Tick |-> IdleTick]
  /\ turn = <<>>
  /\ signal = <<>>
  /\ drain = [d \in Drain |-> IdleDrain]
  /\ blocked = FALSE /\ handoff = FALSE
  /\ manager = "away"
  /\ faults = 0

-----------------------------------------------------------------------------
(* The ticks. *)

Goto(t, pc) == tick' = [tick EXCEPT ![t].pc = pc]
EndTick(t) == tick' = [tick EXCEPT ![t] = IdleTick]

(* fn_claim_due_followup_enrollments: one statement, it returns the row.   *)
(* Expired leases are not leases any more: see LeaseExpires.               *)
Claim(t) ==
  /\ tick[t].pc = "idle"
  /\ status \in {"active", "waiting_reply"} /\ eval = "now" /\ ~leased
  /\ leased' = TRUE
  /\ tick' = [tick EXCEPT ![t] = [IdleTick EXCEPT !.pc = "decide", !.node = node,
                                    !.steps = steps, !.attempts = attempts]]
  /\ UNCHANGED <<status, node, steps, attempts, eval, keyVars, turn, signal,
                 drain, worldVars, manager, faults>>

(* Events of the enrollment at a node, whatever their type. *)
EventsAt(n) ==
  Cardinality({k \in stepKeys : k[1] = n}) + Cardinality({k \in wakeKeys : k[1] = n})
    + Cardinality({m \in marks : m[3] = n})

(* resolveWaitPhase: the event of the step before is at the same node. *)
Acted(n, k) == k > 0 /\ <<n, k - 1>> \in stepKeys

Stay(n, s, e) == [NoPlan EXCEPT !.to = n, !.status = s, !.eval = e]
Advance(m) == Stay(m, "active", "now")
Enqueue_NoClock(n, s) == [Stay(n, s, "null") EXCEPT !.enqueue = TRUE]
Enqueue(n, s) == [Stay(n, s, "later") EXCEPT !.enqueue = TRUE]
Complete(n) == Stay(n, "completed", "null")
Dead == [NoPlan EXCEPT !.status = "dead"]

Plans_GuardByBudget(n, k) ==
  CASE Type[n] \in {"trigger", "condition"} -> {Advance(m) : m \in Out[n]}
    [] Type[n] = "wait" -> IF Acted(n, k) THEN {Advance(m) : m \in Out[n]}
                                          ELSE {Stay(n, "active", "later")}
    [] Type[n] = "classify" ->
         {IF ~Acted(n, k) \/ <<n, k>> \in wakeKeys THEN Enqueue(n, "waiting_reply")
                                                   ELSE Advance(NoReply[n])}
    [] Type[n] = "action" ->
         {IF EventsAt(n) >= MaxRechecks THEN Dead
            ELSE Enqueue(n, "active")}
    [] Type[n] = "end" -> {Complete(n)}

Plans_GivesUpByAdvancing(n, k) ==
  CASE Type[n] \in {"trigger", "condition"} -> {Advance(m) : m \in Out[n]}
    [] Type[n] = "wait" -> IF Acted(n, k) THEN {Advance(m) : m \in Out[n]}
                                          ELSE {Stay(n, "active", "later")}
    [] Type[n] = "classify" ->
         {IF ~Acted(n, k) \/ <<n, k>> \in wakeKeys THEN Enqueue(n, "waiting_reply")
                                                   ELSE Advance(NoReply[n])}
    [] Type[n] = "action" ->
         IF ~Acted(n, k) THEN {Enqueue(n, "active")}
           ELSE IF EventsAt(n) >= MaxRechecks THEN {Advance(m) : m \in Out[n]}
           ELSE {Stay(n, "active", "later")}
    [] Type[n] = "end" -> {Complete(n)}

(* processNode: what may be decided at node n with k steps taken. *)
Plans(n, k) ==
  CASE Type[n] \in {"trigger", "condition"} -> {Advance(m) : m \in Out[n]}
    [] Type[n] = "wait" -> IF Acted(n, k) THEN {Advance(m) : m \in Out[n]}
                                          ELSE {Stay(n, "active", "later")}
    [] Type[n] = "classify" ->
         {IF ~Acted(n, k) \/ <<n, k>> \in wakeKeys THEN Enqueue(n, "waiting_reply")
                                                   ELSE Advance(NoReply[n])}
    [] Type[n] = "action" ->
         {IF ~Acted(n, k) THEN Enqueue(n, "active")
            ELSE IF EventsAt(n) >= MaxRechecks THEN Dead
            ELSE Stay(n, "active", "later")}
    [] Type[n] = "end" -> {Complete(n)}

(* processEnrollment: too many steps, or processNode on the events it reads now. *)
Decide(t) ==
  /\ tick[t].pc = "decide"
  /\ \E p \in IF tick[t].steps > MaxSteps THEN {Dead}
                                          ELSE Plans(tick[t].node, tick[t].steps) :
       tick' = [tick EXCEPT ![t].plan = p,
                            ![t].pc = IF p.status = "dead" THEN "notify" ELSE "insert"]
  /\ UNCHANGED <<rowVars, keyVars, turn, signal, drain, worldVars, manager, faults>>

(* insertEnrollmentEvent: a key that exists makes the step a replay, which *)
(* enqueues nothing but still updates the row.                             *)
Insert(t) ==
  LET key == <<tick[t].node, tick[t].steps>>
  IN /\ tick[t].pc = "insert"
     /\ stepKeys' = stepKeys \cup {key}
     /\ Goto(t, IF tick[t].plan.enqueue /\ key \notin stepKeys THEN "enqueue" ELSE "update")
     /\ UNCHANGED <<rowVars, wakeKeys, marks, notices, turn, signal, drain, worldVars,
                    manager, faults>>

(* enqueueJob of the cron route: a followup_turn for the node. *)
EnqueueTurn(t) ==
  /\ tick[t].pc = "enqueue"
  /\ turn' = Append(turn, [node |-> tick[t].node, pc |-> "queued", steps |-> 0, worked |-> FALSE])
  /\ Goto(t, "update")
  /\ UNCHANGED <<rowVars, keyVars, signal, drain, worldVars, manager, faults>>

(* updateEnrollment with the patch of applyResult, by id. *)
Update(t) ==
  LET p == tick[t].plan
  IN /\ tick[t].pc = "update"
     /\ status' = p.status /\ node' = p.to /\ eval' = p.eval
     /\ steps' = tick[t].steps + 1
     /\ leased' = FALSE
     /\ EndTick(t)
     /\ UNCHANGED <<attempts, keyVars, turn, signal, drain, worldVars, manager, faults>>

(* Whatever throws before that is counted by applyHandlerFailure: back off *)
(* or, attempts exhausted, die.  The event may already be inserted.        *)
StatementFails(t) ==
  LET k == tick[t].attempts + 1
  IN /\ tick[t].pc \in {"decide", "insert", "enqueue", "update", "notify", "die"}
     /\ ~tick[t].failing
     /\ Suffer("failure")
     /\ tick' = [tick EXCEPT ![t].failing = TRUE, ![t].attempts = k,
                             ![t].plan = Dead,
                             ![t].pc = IF k > MaxAttempts THEN "notify" ELSE "backoff"]
     /\ UNCHANGED <<rowVars, keyVars, turn, signal, drain, worldVars, manager>>

(* The statements of applyHandlerFailure fail too, or the process dies:    *)
(* the lease has to expire.                                                *)
TickDies(t) ==
  /\ tick[t].pc # "idle"
  /\ Suffer("crash")
  /\ EndTick(t)
  /\ UNCHANGED <<rowVars, keyVars, turn, signal, drain, worldVars, manager>>

(* The update of applyHandlerFailure: it leaves the status alone. *)
BackOff(t) ==
  /\ tick[t].pc = "backoff"
  /\ attempts' = tick[t].attempts /\ eval' = "later" /\ leased' = FALSE
  /\ EndTick(t)
  /\ UNCHANGED <<status, node, steps, keyVars, turn, signal, drain, worldVars,
                 manager, faults>>

Notify_Skipped(t) ==
  /\ tick[t].pc = "notify"
  /\ Goto(t, "die")
  /\ UNCHANGED <<rowVars, keyVars, turn, signal, drain, worldVars, manager, faults>>

(* markDead writes the notice first. *)
Notify(t) ==
  /\ tick[t].pc = "notify"
  /\ notices' = notices + 1
  /\ Goto(t, "die")
  /\ UNCHANGED <<rowVars, stepKeys, wakeKeys, marks, turn, signal, drain, worldVars,
                 manager, faults>>

Die(t) ==
  /\ tick[t].pc = "die"
  /\ status' = "dead" /\ eval' = "null" /\ leased' = FALSE
  /\ attempts' = IF tick[t].failing THEN tick[t].attempts ELSE attempts
  /\ EndTick(t)
  /\ UNCHANGED <<node, steps, keyVars, turn, signal, drain, worldVars, manager, faults>>

TickStep(t) ==
  \/ Claim(t) \/ Decide(t) \/ Insert(t) \/ EnqueueTurn(t) \/ Update(t)
  \/ BackOff(t) \/ Notify(t) \/ Die(t)

-----------------------------------------------------------------------------
(* The turns: runFlowDrivenTurn and completeTurnForEnrollment. *)

TurnAt(j, pc) == turn' = [turn EXCEPT ![j].pc = pc]
EndTurn(j, pc) == turn' = [turn EXCEPT ![j].pc = pc, ![j].steps = 0]

(* The agent's run or the classification ends.  Turns of one contact run   *)
(* one at a time (see JobQueue).  A silent run is a success as well.       *)
TurnWorks(j) ==
  /\ turn[j].pc = "queued"
  /\ \A i \in DOMAIN turn : turn[i].pc \in {"queued", "done", "dead"}
  /\ turn' = [turn EXCEPT ![j].pc = "report", ![j].worked = TRUE]
  /\ UNCHANGED <<rowVars, keyVars, tick, signal, drain, worldVars, manager, faults>>

(* It reads the row; a result nobody waits for any more is dropped. *)
Report(j) ==
  /\ turn[j].pc = "report"
  /\ turn' = IF node # turn[j].node \/ status \in Terminal \cup {"paused_handoff"}
               THEN [turn EXCEPT ![j].pc = "done"]
               ELSE [turn EXCEPT ![j].pc = "insert", ![j].steps = steps]
  /\ UNCHANGED <<rowVars, keyVars, tick, signal, drain, worldVars, manager, faults>>

(* The event of the step; if its key exists the result is dropped. *)
ReportInsert(j) ==
  LET key == <<turn[j].node, turn[j].steps>>
  IN /\ turn[j].pc = "insert"
     /\ stepKeys' = stepKeys \cup {key}
     /\ IF key \in stepKeys THEN EndTurn(j, "done") ELSE TurnAt(j, "update")
     /\ UNCHANGED <<rowVars, wakeKeys, marks, notices, tick, signal, drain, worldVars,
                    manager, faults>>

(* The row follows the edge the result selects and is evaluated at once. *)
ReportUpdate(j) ==
  /\ turn[j].pc = "update"
  /\ \E m \in Out[turn[j].node] : node' = m
  /\ status' = "active" /\ eval' = "now" /\ leased' = FALSE
  /\ steps' = turn[j].steps + 1
  /\ EndTurn(j, "done")
  /\ UNCHANGED <<attempts, keyVars, tick, signal, drain, worldVars, manager, faults>>

(* The run or one of the statements fails: the queue retries the job, or   *)
(* gives it up, as it does when the contact is blocked.                    *)
TurnFails(j) ==
  /\ turn[j].pc \in {"queued", "report", "insert", "update"}
  /\ \/ blocked /\ turn[j].pc = "queued" /\ Type[turn[j].node] = "action"
        /\ EndTurn(j, "dead") /\ UNCHANGED faults
     \/ Suffer("failure") /\ (EndTurn(j, "queued") \/ EndTurn(j, "dead"))
  /\ UNCHANGED <<rowVars, keyVars, tick, signal, drain, worldVars, manager>>

TurnStep(j) == TurnWorks(j) \/ Report(j) \/ ReportInsert(j) \/ ReportUpdate(j)

-----------------------------------------------------------------------------
(* The drain and its reactions. *)

(* The claim of the event, and the handler's first read.  A drain works   *)
(* through the pending rows from the oldest on; a retry comes when its     *)
(* backoff is over, before or after younger rows.                          *)
Take(d, s) ==
  /\ drain[d].pc = "idle"
  /\ \/ signal[s].status = "retry"
     \/ /\ signal[s].status = "pending"
        /\ \A i \in 1..s - 1 : signal[i].status # "pending"
  /\ signal' = [signal EXCEPT ![s].status = "processing"]
  /\ drain' = [drain EXCEPT ![d] = [IdleDrain EXCEPT !.pc = "load", !.signal = s,
                                                     !.sawBlocked = blocked]]
  /\ UNCHANGED <<rowVars, keyVars, tick, turn, worldVars, manager, faults>>

(* What reactToInbound, reactToHandoffOpen and reactToHandoffClose do to   *)
(* an enrollment they read now.                                            *)
Reaction(kind, saw) ==
  CASE kind = "inbound" /\ saw -> IF status \in Live THEN "cancel" ELSE None
    [] kind = "inbound" /\ ~saw /\ status = "waiting_reply" ->
         IF CancelOnReply THEN "cancel" ELSE "wake"
    [] kind = "opened" /\ status \in Live /\ Policy # "allow" -> Policy
    [] kind = "resolved" /\ status = "paused_handoff" -> "resume"
    [] OTHER -> None

Finish(d) ==
  /\ signal' = [signal EXCEPT ![drain[d].signal].status = "done"]
  /\ drain' = [drain EXCEPT ![d] = IdleDrain]

(* It loads the contact's live enrollment. *)
React(d) ==
  LET act == Reaction(signal[drain[d].signal].kind, drain[d].sawBlocked)
  IN /\ drain[d].pc = "load"
     /\ IF act = None THEN Finish(d)
          ELSE /\ drain' = [drain EXCEPT ![d].pc = "insert", ![d].act = act,
                                         ![d].node = node, ![d].steps = steps]
               /\ UNCHANGED signal
     /\ UNCHANGED <<rowVars, keyVars, tick, turn, worldVars, manager, faults>>

(* applyStep inserts its event; a reaction whose key exists does nothing. *)
ReactInsert(d) ==
  LET r == drain[d]
      wake == <<r.node, r.steps>>
      known == IF r.act = "wake" THEN wake \in wakeKeys
                 ELSE \E n \in Node : <<r.signal, r.act, n>> \in marks
  IN /\ r.pc = "insert"
     /\ IF known THEN Finish(d) /\ UNCHANGED <<wakeKeys, marks>>
          ELSE /\ drain' = [drain EXCEPT ![d].pc = "update"]
               /\ wakeKeys' = IF r.act = "wake" THEN wakeKeys \cup {wake} ELSE wakeKeys
               /\ marks' = IF r.act = "wake" THEN marks
                             ELSE marks \cup {<<r.signal, r.act, r.node>>}
               /\ UNCHANGED signal
     /\ UNCHANGED <<rowVars, stepKeys, notices, tick, turn, worldVars, manager, faults>>

(* The update, by id. *)
ReactUpdate(d) ==
  LET act == drain[d].act
  IN /\ drain[d].pc = "update"
     /\ status' = CASE act = "cancel" -> "cancelled" [] act = "pause" -> "paused_handoff"
                    [] act = "resume" -> "active" [] act = "wake" -> status
     /\ eval' = CASE act \in {"cancel", "pause"} -> "null" [] act = "resume" -> "later"
                  [] act = "wake" -> "now"
     /\ leased' = (act = "wake" /\ leased)
     /\ Finish(d)
     /\ UNCHANGED <<node, steps, attempts, keyVars, tick, turn, worldVars, manager, faults>>

(* A statement fails and the event is retried later, or the process dies   *)
(* and nothing takes the event out of processing.                          *)
ReactFails(d) ==
  /\ drain[d].pc # "idle"
  /\ Suffer("lost")
  /\ drain' = [drain EXCEPT ![d] = IdleDrain]
  /\ \/ signal' = [signal EXCEPT ![drain[d].signal].status = "retry"]
     \/ UNCHANGED signal
  /\ UNCHANGED <<rowVars, keyVars, tick, turn, worldVars, manager>>

DrainStep(d) ==
  (\E s \in DOMAIN signal : Take(d, s)) \/ React(d) \/ ReactInsert(d) \/ ReactUpdate(d)

-----------------------------------------------------------------------------
(* The world. *)

MayIntervene == Len(signal) + (IF manager = "away" THEN 0 ELSE 1) < MaxInterventions

Emit(kind) ==
  /\ MayIntervene
  /\ signal' = Append(signal, [kind |-> kind, status |-> "pending"])
  /\ UNCHANGED <<rowVars, keyVars, tick, turn, drain, manager, faults>>

(* A message arrives; one that says STOP blocks the contact before that. *)
Inbound(stop) ==
  /\ Emit("inbound")
  /\ blocked' = (blocked \/ stop)
  /\ UNCHANGED handoff

(* triggerHandoff, and the return of the conversation to the bot. *)
HandoffOpens ==
  /\ ~handoff /\ Emit("opened") /\ handoff' = TRUE /\ UNCHANGED blocked
HandoffCloses ==
  /\ handoff /\ Emit("resolved") /\ handoff' = FALSE /\ UNCHANGED blocked

(* The cancel route reads that the enrollment is live, and updates by id. *)
ManagerChecks ==
  /\ MayIntervene /\ manager = "away" /\ status \in Live
  /\ manager' = "checked"
  /\ UNCHANGED <<rowVars, keyVars, tick, turn, signal, drain, worldVars, faults>>
ManagerCancels ==
  /\ manager = "checked"
  /\ manager' = "done"
  /\ status' = "cancelled" /\ eval' = "null"
  /\ UNCHANGED <<node, steps, attempts, leased, keyVars, tick, turn, signal, drain,
                 worldVars, faults>>

EvalDue ==
  /\ eval = "later"
  /\ eval' = "now"
  /\ UNCHANGED <<status, node, steps, attempts, leased, keyVars, tick, turn,
                 signal, drain, worldVars, manager, faults>>

(* claimed_until passes: of a tick that is gone, or one that still works. *)
LeaseExpires ==
  /\ leased
  /\ IF \E t \in Tick : tick[t].pc # "idle" THEN Suffer("slow") ELSE UNCHANGED faults
  /\ leased' = FALSE
  /\ UNCHANGED <<status, node, steps, attempts, eval, keyVars, tick, turn,
                 signal, drain, worldVars, manager>>

-----------------------------------------------------------------------------
Next ==
  \/ \E t \in Tick : TickStep(t) \/ StatementFails(t) \/ TickDies(t)
  \/ \E j \in DOMAIN turn : TurnStep(j) \/ TurnFails(j)
  \/ \E d \in Drain : DrainStep(d) \/ ReactFails(d)
  \/ \E stop \in BOOLEAN : Inbound(stop)
  \/ HandoffOpens \/ HandoffCloses
  \/ ManagerChecks \/ ManagerCancels
  \/ EvalDue \/ LeaseExpires

Spec == Init /\ [][Next]_vars

(* The crons fire, the worker drains its queue, time passes.  Nobody has   *)
(* to write, to cancel, or to end a handoff.                               *)
Fairness ==
  /\ \A t \in Tick : WF_vars(TickStep(t))
  /\ WF_vars(\E j \in DOMAIN turn : TurnStep(j))
  /\ \A d \in Drain : WF_vars(DrainStep(d))
  /\ WF_vars(EvalDue) /\ WF_vars(LeaseExpires)
  /\ WF_vars(ManagerCancels)

FairSpec == Spec /\ Fairness

-----------------------------------------------------------------------------
(* Nodes every path to which leads through node a. *)
Behind == [a \in Node |->
  {n \in Node \ {a} : \E S \in SUBSET (Node \ {n}) :
      Trigger \in S /\ \A m \in S \ {a} : Out[m] \subseteq S}]

(* Turns enqueued to send the message of node a. *)
TurnsOf(a) == {j \in DOMAIN turn : turn[j].node = a}

(* The unique key of an event holds the number of steps, so it recognises  *)
(* a late tick only where the row can come to a node at one number of      *)
(* steps.  A timetable gives each node of P the last action on every path  *)
(* to it (or the trigger) and the number of steps since.  A wait takes two *)
(* steps; before P there is no classification, whose replies take steps of *)
(* their own.                                                              *)
Timetable(P, seg, off) ==
  /\ P \subseteq Node /\ seg \in [P -> P] /\ off \in [P -> Nat]
  /\ Trigger \in P /\ Type[Trigger] = "trigger" /\ seg[Trigger] = Trigger /\ off[Trigger] = 0
  /\ \A n \in Node, m \in P : m \in Out[n] =>
       /\ n \in P /\ Type[n] \in {"trigger", "condition", "wait", "action"}
       /\ Type[n] \in {"trigger", "condition"} => seg[m] = seg[n] /\ off[m] = off[n] + 1
       /\ Type[n] = "wait" => seg[m] = seg[n] /\ off[m] = off[n] + 2
       /\ Type[n] = "action" => seg[m] = n /\ off[m] = 0

(* "At-most-once send: enqueue the turn EXACTLY ONCE per occupancy"        *)
(* (node-handlers.ts): rechecks, replays, late ticks and resumed handoffs  *)
(* never enqueue a second message for an action, in a flow where all       *)
(* actions have their place in a timetable.                                *)
OneTurnPerAction ==
  \A a \in Node : Type[a] = "action" => Cardinality(TurnsOf(a)) <= 1

(* A flow never gets past an action whose turn did not run. *)
NoActionSkipped ==
  \A a \in Node : Type[a] = "action" /\ node \in Behind[a]
    => \E j \in TurnsOf(a) : turn[j].worked

(* "enrollment morto em silencio" (engine.ts): a dead enrollment has its   *)
(* notice, whatever failed between the two writes.                         *)
DeadIsAnnounced == status = "dead" => notices > 0

(* Every enrollment comes to an end, unless a human keeps the contact.     *)
EnrollmentEnds == <>[](status \in Terminal \/ (status = "paused_handoff" /\ handoff))

(* "Hard stop LGPD/anti-ban: cancela TUDO que esta vivo" (reactivity.ts):  *)
(* once the reaction to an opt-out is done the enrollment is not live.     *)
StopHolds ==
  \A s \in DOMAIN signal :
    signal[s].kind = "inbound" /\ signal[s].status = "done" /\ blocked => status \notin Live

(* "nenhum estado pausado sem consumidor de retomada" (reactivity.ts): a   *)
(* paused enrollment has a handoff that is open or an event that resumes.  *)
(* A pause that is retried after its resume was handled, or that a slow    *)
(* drain applies after another one handled the resume, breaks it.          *)
PausedHasConsumer ==
  status = "paused_handoff" =>
    handoff \/ \E s \in DOMAIN signal : signal[s].kind = "resolved" /\ signal[s].status # "done"
=============================================================================
