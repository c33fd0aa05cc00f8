------------------------------ MODULE Handoff ------------------------------
(***************************************************************************)
(* Passing a contact to a person and taking it back: the handoff of the    *)
(* agent engine (agent/human-handoff.ts), the cases a person answers       *)
(* (agent/human-cases.ts and the reply route), the return of the contact   *)
(* to the agent (escalacao/retomada.ts) and the scheduled returns that a   *)
(* handoff cancels (cron/scheduler.ts, followup/retorno.ts).               *)
(*                                                                         *)
(* One contact and its conversation.  Every SQL statement (or transaction) *)
(* is an action; an actor, which is a worker slot running a turn or an     *)
(* HTTP request, remembers only which statement comes next.  The queue is  *)
(* the abstract one, LaneLeases, which JobQueue is shown to implement: a   *)
(* turn is a lease of the contact's lane, and the reaper gives back a      *)
(* lease whose turn died (JobQueue says what a turn slower than its lease  *)
(* can do).                                                                *)
(*                                                                         *)
(* What the model answers is abstracted to what it may call and when.      *)
(* Left out: is_blocked (Outbound and Followup model the opt-out), the     *)
(* timeline, the checkpoint and the event ai.handoff_resolved (Followup).  *)
(*                                                                         *)
(* Names of the form Operator_Mutation are plausible mistakes in the code  *)
(* of Operator; each is kept to show which property would notice it.       *)
(***************************************************************************)
EXTENDS Integers, FiniteSets

CONSTANTS
  Inbound,      \* bursts of inbound messages, each an inbound_turn
  Promise,      \* ids of cron_jobs rows of kind 'at'
  Case,         \* ids of agent_cases
  Worker,       \* slots of worker processes
  Request,      \* HTTP requests in flight
  Lead,         \* the contact, the lane of all these jobs
  None,
  MaxMishaps,   \* bound: deaths, failed runs and failed firings
  MaxReturns,   \* bound: times a person hands the contact back
  MaxUnsent     \* bound: messages that wait for their session at a time

(* A promise that fires is a job, and so is an answer of a kind to a case. *)
ReplyAction == {"resolved", "need_lead_info"}
Job == Inbound \cup Promise \cup (Case \X ReplyAction)
Actor == Worker \cup Request

ASSUME ActorAssumption == Worker \cap Request = {}
ASSUME JobAssumption ==
  /\ Inbound \cap Promise = {}
  /\ (Inbound \cup Promise) \cap (Case \X ReplyAction) = {}
ASSUME NoneAssumption == Lead # None /\ None \notin Job \cup Case
ASSUME BoundsAssumption ==
  MaxMishaps \in Nat /\ MaxReturns \in Nat /\ MaxUnsent \in Nat

VARIABLES
  phase, lane, alerted,  \* the queue: see LaneLeases
  force,      \* contacts.force_human
  silenced,   \* conversations.bot_silenced_until = infinity
  asks,       \* the last inbound message asks for a person
  inbox,      \* agent_inbox_items of kind handoff: none, one open, all closed
  unsent,     \* the agent's messages to the contact that are left queued
  case,       \* agent_cases.status
  promise,    \* cron_jobs: "disabled" has enabled false, cancelled_at null
  step,       \* the next statement of the actor
  subject,    \* the job, case or promise the actor works on
  resume,     \* where performHumanHandoff or openCase returns to
  heard,      \* history: an item was open at the alert of this episode
  cut,        \* history: a handoff of this episode was interrupted
  budget,     \* history: deliveries left of the messages that were queued
              \* when force_human was set, and one more
  served,     \* history: cases whose escalation reached the alert
  mishaps, returns    \* bounded counters

queueVars == <<phase, lane, alerted>>
contactVars == <<force, silenced, asks, inbox, unsent>>
actorVars == <<step, subject, resume>>
history == <<heard, cut, budget, served>>
bounds == <<mishaps, returns>>
vars == <<queueVars, contactVars, case, promise, actorVars, history, bounds>>

Queue == INSTANCE LaneLeases WITH Contact <- {Lead}, Cap <- Cardinality(Worker)

Open == {"awaiting_human", "awaiting_lead"}
CaseStatus == {"absent", "resolved", "escalated", "cancelled"} \cup Open
HandoffStep == {"silence", "cancel_crons", "alert"}
Step == {"idle", "begin", "context", "model", "deliver", "finish", "insert",
         "force", "open_case", "insert_case", "escalate",
         "unsilence", "close_case", "unforce", "mark_cancelled"} \cup HandoffStep

TypeOK ==
  /\ phase \in [Job -> {"absent", "waiting", "leased"} \cup Queue!Verdict]
  /\ lane \in [Job -> {Lead, None}]
  /\ alerted \subseteq Job
  /\ force \in BOOLEAN
  /\ silenced \in BOOLEAN
  /\ asks \in BOOLEAN
  /\ inbox \in {"none", "open", "closed"}
  /\ case \in [Case -> CaseStatus]
  /\ promise \in [Promise -> {"absent", "enabled", "disabled", "cancelled"}]
  /\ step \in [Actor -> Step]
  /\ subject \in [Actor -> Job \cup Case \cup {None}]
  /\ resume \in [Actor -> {"finish", "model", "escalate", "idle"}]
  /\ heard \in BOOLEAN
  /\ cut \in BOOLEAN
  /\ unsent \in 0..MaxUnsent
  /\ budget \in Int
  /\ served \subseteq Case
  /\ mishaps \in 0..MaxMishaps
  /\ returns \in 0..MaxReturns

Init ==
  /\ Queue!Init
  /\ force = FALSE /\ silenced = FALSE /\ asks = FALSE
  /\ inbox = "none" /\ unsent = 0
  /\ case = [c \in Case |-> "absent"]
  /\ promise = [p \in Promise |-> "absent"]
  /\ step = [a \in Actor |-> "idle"]
  /\ subject = [a \in Actor |-> None]
  /\ resume = [a \in Actor |-> "idle"]
  /\ heard = FALSE /\ cut = FALSE /\ budget = 0 /\ served = {}
  /\ mishaps = 0 /\ returns = 0

(* Control of an actor: take up work, move on, be done. *)
Start(a, s, x, back) ==
  /\ step[a] = "idle"
  /\ step' = [step EXCEPT ![a] = s]
  /\ subject' = [subject EXCEPT ![a] = x]
  /\ resume' = [resume EXCEPT ![a] = back]

Go(a, s) ==
  /\ step' = [step EXCEPT ![a] = s]
  /\ UNCHANGED <<subject, resume>>

Quit(a) ==
  /\ step' = [step EXCEPT ![a] = "idle"]
  /\ subject' = [subject EXCEPT ![a] = None]
  /\ resume' = [resume EXCEPT ![a] = "idle"]

Return(a) == IF resume[a] = "idle" THEN Quit(a) ELSE Go(a, resume[a])

OpenCases == {c \in Case : case[c] \in Open}
Enabled == {p \in Promise : promise[p] = "enabled"}

-----------------------------------------------------------------------------
(* The queue: messages and due promises become jobs, workers claim them. *)

Receive(i, b) ==
  /\ Queue!Accept(i, Lead)
  /\ asks' = b
  /\ UNCHANGED <<force, silenced, inbox, unsent, case, promise,
                 actorVars, history, bounds>>

(* fireOneDue: the job and the end of the promise are one transaction. *)
Fire(p) ==
  /\ promise[p] = "enabled"
  /\ Queue!Accept(p, Lead)
  /\ promise' = [promise EXCEPT ![p] = "disabled"]
  /\ UNCHANGED <<contactVars, case, actorVars, history, bounds>>

(* applyFailure, permanent or out of attempts (a transient one only moves  *)
(* next_run_at).  Its own alert is not the handoff's.                      *)
FireFails(p) ==
  /\ promise[p] = "enabled" /\ mishaps < MaxMishaps
  /\ promise' = [promise EXCEPT ![p] = "disabled"]
  /\ mishaps' = mishaps + 1
  /\ UNCHANGED <<queueVars, contactVars, case, actorVars, history, returns>>

Claim(w, j) ==
  /\ Queue!Grant({j})
  /\ Start(w, "begin", j, "finish")
  /\ UNCHANGED <<contactVars, case, promise, history, bounds>>

Settle(j, verdict) == Queue!Release([phase EXCEPT ![j] = verdict])

(* reapExpired, for a turn that died. *)
Reap(j) ==
  /\ phase[j] = "leased" /\ \A w \in Worker : subject[w] # j
  /\ \E verdict \in {"waiting", "dead"} : Settle(j, verdict)
  /\ UNCHANGED <<contactVars, case, promise, actorVars, history, bounds>>

(* A handoff whose actor stops between its first write and its alert. *)
Interrupted(a) == cut' = (cut \/ step[a] \in HandoffStep)

(* The process dies, or the request fails, before the next statement. *)
Die(a) ==
  /\ step[a] # "idle" /\ mishaps < MaxMishaps
  /\ mishaps' = mishaps + 1
  /\ Interrupted(a) /\ Quit(a)
  /\ UNCHANGED <<queueVars, contactVars, case, promise, heard, budget, served,
                 returns>>

(* The next statement of a turn throws: failJob gives the job back. *)
Fail(w) ==
  /\ step[w] # "idle" /\ mishaps < MaxMishaps
  /\ mishaps' = mishaps + 1
  /\ Interrupted(w) /\ Quit(w)
  /\ \E verdict \in {"waiting", "dead"} : Settle(subject[w], verdict)
  /\ UNCHANGED <<contactVars, case, promise, heard, budget, served, returns>>

Finish(w) ==
  /\ step[w] = "finish"
  /\ Quit(w) /\ Settle(subject[w], "done")
  /\ UNCHANGED <<contactVars, case, promise, history, bounds>>

-----------------------------------------------------------------------------
(* A turn.  isLeadInHandoff, or an answer to a case that has moved on: the *)
(* turn does nothing and is done.                                          *)
InHandoff == force \/ silenced

AnsweredStatus_Raw(action) == action

(* Where an answer leaves its case: resolveCaseFromHuman, markAwaitingLead. *)
AnsweredStatus(action) == IF action = "resolved" THEN "resolved" ELSE "awaiting_lead"

AnswerStands(j) ==
  j \in Case \X ReplyAction => case[j[1]] = AnsweredStatus(j[2])

Begin(w) ==
  /\ step[w] = "begin"
  /\ Go(w, IF InHandoff \/ ~AnswerStands(subject[w]) THEN "finish" ELSE "context")
  /\ UNCHANGED <<queueVars, contactVars, case, promise, history, bounds>>

(* The last inbound message, whatever started the turn: a request for a    *)
(* person is handed off before any model call and ends the turn.           *)
ReadContext(w) ==
  /\ step[w] = "context"
  /\ step' = [step EXCEPT ![w] = IF asks THEN "force" ELSE "model"]
  /\ resume' = [resume EXCEPT ![w] = IF asks THEN "finish" ELSE "model"]
  /\ UNCHANGED <<subject, queueVars, contactVars, case, promise, history, bounds>>

(* The model asks for the handoff, for a case, or is done. *)
ModelCalls(w) ==
  /\ step[w] = "model"
  /\ \E s \in {"force", "open_case", "finish"} : Go(w, s)
  /\ UNCHANGED <<queueVars, contactVars, case, promise, history, bounds>>

(* provideCaseUpdate, encerrarChamadoPeloAgente. *)
ModelMovesCase(w, c) ==
  /\ step[w] = "model"
  /\ \/ case[c] = "awaiting_lead" /\ case' = [case EXCEPT ![c] = "awaiting_human"]
     \/ /\ case[c] \in Open
        /\ \E s \in {"resolved", "cancelled"} : case' = [case EXCEPT ![c] = s]
  /\ UNCHANGED <<queueVars, contactVars, promise, actorVars, history, bounds>>

Gate_BlockedOnly(w) ==
  /\ step[w] = "model"
  /\ Go(w, "deliver")
  /\ UNCHANGED <<queueVars, contactVars, case, promise, history, bounds>>

(* The stop gate of before_send reads force_human; the message, all of its *)
(* bubbles, goes out after the read.                                       *)
Gate(w) ==
  /\ step[w] = "model" /\ ~force
  /\ Go(w, "deliver")
  /\ UNCHANGED <<queueVars, contactVars, case, promise, history, bounds>>

(* The message of a turn, or of the redriver, reaches the contact. *)
Arrives == budget' = IF force THEN budget - 1 ELSE budget

(* The handler sends it, or leaves it queued since the session does not    *)
(* work.  A message that leaves twice is a matter of Outbound.             *)
Deliver(w) ==
  /\ step[w] = "deliver"
  /\ \/ Arrives /\ UNCHANGED unsent
     \/ unsent < MaxUnsent /\ unsent' = unsent + 1 /\ UNCHANGED budget
  /\ Go(w, "model")
  /\ UNCHANGED <<queueVars, force, silenced, asks, inbox, case, promise,
                 heard, cut, served, bounds>>

(* redriveQueued, once the session works again.  It looks at is_blocked    *)
(* and never at force_human (what can go wrong in it is in Outbound).      *)
Redrive ==
  /\ unsent > 0 /\ unsent' = unsent - 1
  /\ Arrives
  /\ UNCHANGED <<queueVars, force, silenced, asks, inbox, case, promise,
                 actorVars, heard, cut, served, bounds>>

-----------------------------------------------------------------------------
(* performHumanHandoff and openCase, by a turn or by a request. *)

SetForce(a) ==
  /\ step[a] = "force"
  /\ force' = TRUE
  /\ IF force THEN UNCHANGED history
              ELSE heard' = FALSE /\ cut' = FALSE /\ budget' = unsent + 1 /\ UNCHANGED served
  /\ Go(a, "silence")
  /\ UNCHANGED <<queueVars, silenced, asks, inbox, unsent, case, promise, bounds>>

Silence(a) ==
  /\ step[a] = "silence"
  /\ silenced' = TRUE
  /\ Go(a, "cancel_crons")
  /\ UNCHANGED <<queueVars, force, asks, inbox, unsent, case, promise, history, bounds>>

(* cancelPendingCronsForLead: enabled only, cancelled_at stays null. *)
CancelCrons(a) ==
  /\ step[a] = "cancel_crons"
  /\ promise' = [p \in Promise |-> IF p \in Enabled THEN "disabled" ELSE promise[p]]
  /\ Go(a, "alert")
  /\ UNCHANGED <<queueVars, contactVars, case, history, bounds>>

AlertItem_OncePerContact == IF inbox = "none" THEN "open" ELSE inbox

(* The insert is skipped only while an item is open. *)
AlertItem == "open"

Alert(a) ==
  /\ step[a] = "alert"
  /\ inbox' = AlertItem
  /\ heard' = (heard \/ AlertItem = "open")
  /\ served' = IF resume[a] = "escalate" /\ AlertItem = "open"
                 THEN served \cup {subject[a]} ELSE served
  /\ Go(a, "open_case")
  /\ UNCHANGED <<queueVars, force, silenced, asks, unsent, case, promise, cut,
                 budget, bounds>>

(* The statement reads before it inserts: two of them may overlap, and no  *)
(* unique index stands behind the "where not exists".                      *)
LookForCase(a) ==
  /\ step[a] = "open_case"
  /\ IF OpenCases # {} THEN Return(a) ELSE Go(a, "insert_case")
  /\ UNCHANGED <<queueVars, contactVars, case, promise, history, bounds>>

InsertCase(a, c) ==
  /\ step[a] = "insert_case" /\ case[c] = "absent"
  /\ case' = [case EXCEPT ![c] = "awaiting_human"]
  /\ Return(a)
  /\ UNCHANGED <<queueVars, contactVars, promise, history, bounds>>

-----------------------------------------------------------------------------
(* The reply route. *)

AskEscalation_CloseFirst(r, c) ==
  /\ case[c] = "awaiting_human"
  /\ case' = [case EXCEPT ![c] = "escalated"]
  /\ Start(r, "force", c, "escalate")
  /\ UNCHANGED <<queueVars, contactVars, promise, history, bounds>>

(* escalate: the handoff first, then the case. *)
AskEscalation(r, c) ==
  /\ case[c] = "awaiting_human"
  /\ Start(r, "force", c, "escalate")
  /\ UNCHANGED <<queueVars, contactVars, case, promise, history, bounds>>

Escalate(r) ==
  /\ step[r] = "escalate"
  /\ case' = [case EXCEPT ![subject[r]] =
                IF @ = "awaiting_human" THEN "escalated" ELSE @]
  /\ Quit(r)
  /\ UNCHANGED <<queueVars, contactVars, promise, history, bounds>>

(* resolved, need_lead_info: the transition and the job in one commit. *)
Answer(c, action) ==
  /\ case[c] = "awaiting_human"
  /\ case' = [case EXCEPT ![c] = AnsweredStatus(action)]
  /\ Queue!Accept(<<c, action>>, Lead)
  /\ UNCHANGED <<contactVars, promise, actorVars, history, bounds>>

-----------------------------------------------------------------------------
(* devolverAtendimentoAoAgente, statement by statement. *)

AskReturn(r) ==
  /\ returns < MaxReturns
  /\ returns' = returns + 1
  /\ Start(r, "unsilence", None, "idle")
  /\ UNCHANGED <<queueVars, contactVars, case, promise, history, mishaps>>

(* Releasing the owner is a statement of its own that nothing here reads;  *)
(* the update then requires that nobody took the conversation since, or    *)
(* the request ends with a conflict.                                       *)
Unsilence(r) ==
  /\ step[r] = "unsilence"
  /\ \/ Go(r, "close_case") /\ silenced' = FALSE
     \/ Quit(r) /\ UNCHANGED silenced
  /\ UNCHANGED <<queueVars, force, asks, inbox, unsent, case, promise, history, bounds>>

(* fecharCasoAbertoAoDevolver: one open case; a failure is only logged. *)
CloseCase(r) ==
  /\ step[r] = "close_case"
  /\ Go(r, "unforce")
  /\ \/ /\ IF OpenCases = {} THEN UNCHANGED case
           ELSE \E c \in OpenCases : case' = [case EXCEPT ![c] = "resolved"]
        /\ UNCHANGED mishaps
     \/ /\ mishaps < MaxMishaps /\ mishaps' = mishaps + 1
        /\ UNCHANGED case
  /\ UNCHANGED <<queueVars, contactVars, promise, history, returns>>

Unforce(r) ==
  /\ step[r] = "unforce"
  /\ force' = FALSE
  /\ heard' = FALSE /\ cut' = FALSE /\ budget' = 0
  /\ Quit(r)
  /\ UNCHANGED <<queueVars, silenced, asks, inbox, unsent, case, promise, served, bounds>>

-----------------------------------------------------------------------------
(* Scheduled returns: agendaRetorno looks for a live one, then inserts.    *)
LookForPromise(a) ==
  /\ Enabled = {}
  /\ \/ step[a] = "model" /\ Go(a, "insert")
     \/ a \in Request /\ Start(a, "insert", None, "idle")
  /\ UNCHANGED <<queueVars, contactVars, case, promise, history, bounds>>

InsertPromise(a, p) ==
  /\ step[a] = "insert" /\ promise[p] = "absent"
  /\ promise' = [promise EXCEPT ![p] = "enabled"]
  /\ Return(a)
  /\ UNCHANGED <<queueVars, contactVars, case, history, bounds>>

(* cancelaRetorno: read, then an update that matches only an enabled row. *)
AskCancel(r, p) ==
  /\ promise[p] = "enabled"
  /\ Start(r, "mark_cancelled", p, "idle")
  /\ UNCHANGED <<queueVars, contactVars, case, promise, history, bounds>>

MarkCancelled_Unconditional(p) == "cancelled"
MarkCancelled(p) == IF promise[p] = "enabled" THEN "cancelled" ELSE promise[p]

Cancel(r) ==
  /\ step[r] = "mark_cancelled"
  /\ promise' = [promise EXCEPT ![subject[r]] = MarkCancelled(subject[r])]
  /\ Quit(r)
  /\ UNCHANGED <<queueVars, contactVars, case, history, bounds>>

-----------------------------------------------------------------------------
(* A person deals with the alert, or opens it again. *)
MoveItem ==
  /\ inbox # "none" /\ inbox' \in {"open", "closed"} \ {inbox}
  /\ UNCHANGED <<queueVars, force, silenced, asks, unsent, case, promise,
                 actorVars, history, bounds>>

Turn(w) ==
  \/ \E j \in Job : Claim(w, j)
  \/ Begin(w) \/ ReadContext(w) \/ ModelCalls(w) \/ Gate(w) \/ Deliver(w)
  \/ \E c \in Case : ModelMovesCase(w, c)
  \/ Finish(w) \/ Fail(w)

Statement(a) ==
  \/ SetForce(a) \/ Silence(a) \/ CancelCrons(a) \/ Alert(a)
  \/ LookForCase(a) \/ \E c \in Case : InsertCase(a, c)
  \/ LookForPromise(a) \/ \E p \in Promise : InsertPromise(a, p)
  \/ Die(a)

Route(r) ==
  \/ \E c \in Case : AskEscalation(r, c)
  \/ Escalate(r)
  \/ AskReturn(r) \/ Unsilence(r) \/ CloseCase(r) \/ Unforce(r)
  \/ \E p \in Promise : AskCancel(r, p)
  \/ Cancel(r)

Next ==
  \/ \E i \in Inbound, b \in BOOLEAN : Receive(i, b)
  \/ \E p \in Promise : Fire(p) \/ FireFails(p)
  \/ \E j \in Job : Reap(j)
  \/ \E w \in Worker : Turn(w)
  \/ \E a \in Actor : Statement(a)
  \/ \E r \in Request : Route(r)
  \/ \E c \in Case, action \in ReplyAction : Answer(c, action)
  \/ MoveItem \/ Redrive

Spec == Init /\ [][Next]_vars

-----------------------------------------------------------------------------
(* A contact set to force_human was announced to the people who must take  *)
(* over: an item was open when the handoff of this episode reached its     *)
(* alert, also when the item of an earlier episode had been dealt with.    *)
(* Only a handoff in progress, or one cut short, is not heard yet.         *)
HandoffIsHeard ==
  force /\ ~heard => cut \/ \E a \in Actor : step[a] \in HandoffStep

(* Once force_human is set, by a turn or by an escalation while a turn     *)
(* runs, one message of the agent is still said at most: the one whose     *)
(* gate had already read the flag.  It takes the gate, the check that      *)
(* begins a turn and the contact's lane together.  Everything else that    *)
(* reaches the contact, or may yet, was already waiting for its session:   *)
(* the redriver sends all of it, although before_send is said to veto      *)
(* every send (retomada.ts) and no scheduled follow-up may fire any more   *)
(* (scheduler.ts).                                                         *)
LateMessagesWereWaiting == force => unsent <= budget

(* A scheduled return that says it was cancelled never became a turn, and  *)
(* one that became a turn is never rewritten as cancelled.                 *)
CancelledMeansUnfired ==
  \A p \in Promise : promise[p] = "cancelled" => phase[p] = "absent"

(* A case that left awaiting_human has what the answer promised: the turn  *)
(* that asks the lead, or the handoff and its alert, whatever failed.      *)
AnswerTakesEffect ==
  \A c \in Case :
    /\ case[c] = "awaiting_lead" => phase[<<c, "need_lead_info">>] # "absent"
    /\ case[c] = "escalated" => c \in served

(* performHumanHandoff is called idempotent and at-least-once: when the    *)
(* jobs of the contact are done, its handoff was announced.  Violated: the *)
(* run that retries an interrupted handoff finds force_human set and does  *)
(* nothing.                                                                *)
RetriedHandoffCompletes ==
  force /\ (\A j \in Job : phase[j] \in {"absent", "done"}) => heard
=============================================================================
