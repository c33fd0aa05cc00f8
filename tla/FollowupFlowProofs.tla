------------------------ MODULE FollowupFlowProofs --------------------------
(***************************************************************************)
(* Proofs about the way an enrollment takes through its flow: it never     *)
(* gets past an action whose turn did not run, and an action that every    *)
(* path reaches after the same number of steps sends one message.  Both    *)
(* for every flow and any number of ticks, turns, signals and faults.      *)
(***************************************************************************)
EXTENDS FollowupProofs, FiniteSetTheorems

(* The steps of Next as they are seen on the row's place in the flow, its  *)
(* events, the ticks and the turns.                                        *)
flow == <<node, steps, stepKeys, tick, turn>>

TickTo(t, r) == r \in TickState /\ tick' = [tick EXCEPT ![t] = r]
SamePlace(q, r) == r.node = q.node /\ r.steps = q.steps

TickClaims(t) ==
  /\ UNCHANGED <<node, steps, stepKeys, turn>>
  /\ \E r \in TickState :
       TickTo(t, r) /\ r.pc = "decide" /\ r.node = node /\ r.steps = steps
TickDecides(t) ==
  /\ UNCHANGED <<node, steps, stepKeys, turn>>
  /\ tick[t].pc = "decide"
  /\ \E r \in TickState :
       /\ TickTo(t, r) /\ SamePlace(tick[t], r)
       /\ \/ r.pc = "notify"
          \/ r.pc = "insert" /\ r.plan.status # "dead" /\ r.plan \in Plans(r.node, r.steps)
TickInserts(t) ==
  /\ UNCHANGED <<node, steps, turn>>
  /\ tick[t].pc = "insert"
  /\ \E r \in TickState :
       /\ TickTo(t, r) /\ SamePlace(tick[t], r) /\ r.plan = tick[t].plan
       /\ stepKeys' = stepKeys \cup {<<r.node, r.steps>>}
       /\ \/ r.pc = "enqueue" /\ r.plan.enqueue /\ <<r.node, r.steps>> \notin stepKeys
          \/ r.pc = "update"
TickEnqueues(t) ==
  /\ UNCHANGED <<node, steps, stepKeys>>
  /\ tick[t].pc = "enqueue"
  /\ \E r \in TickState :
       TickTo(t, r) /\ SamePlace(tick[t], r) /\ r.plan = tick[t].plan /\ r.pc = "update"
  /\ \E q \in TurnState : q.node = tick[t].node /\ q.pc = "queued" /\ turn' = Append(turn, q)
TickUpdates(t) ==
  /\ UNCHANGED <<stepKeys, turn>>
  /\ tick[t].pc = "update"
  /\ node' = tick[t].plan.to /\ steps' = tick[t].steps + 1
  /\ \E r \in TickState : TickTo(t, r) /\ r.pc = "idle"
TickLeaves(t) ==
  /\ UNCHANGED <<node, steps, stepKeys, turn>>
  /\ \E r \in TickState :
       /\ TickTo(t, r)
       /\ \/ r.pc = "idle"
          \/ r.pc \in {"backoff", "notify", "die"} /\ SamePlace(tick[t], r) /\ tick[t].pc # "idle"
TurnGoes(j) ==
  /\ UNCHANGED <<node, steps, tick>>
  /\ stepKeys' = stepKeys \/ stepKeys' = stepKeys \cup {<<turn[j].node, turn[j].steps>>}
  /\ turn[j].pc # "done"
  /\ \E r \in TurnState :
       /\ turn' = [turn EXCEPT ![j] = r] /\ r.node = turn[j].node
       /\ r.worked \/ (r.worked = turn[j].worked
                       /\ (r.pc \in {"queued", "done", "dead"} \/ turn[j].pc \in {"report", "insert"}))
TurnLeads(j) ==
  /\ UNCHANGED <<stepKeys, tick>>
  /\ turn[j].pc = "update"
  /\ node' \in Out[turn[j].node] /\ steps' = turn[j].steps + 1
  /\ \E r \in TurnState :
       /\ turn' = [turn EXCEPT ![j] = r] /\ r.node = turn[j].node /\ r.worked = turn[j].worked
       /\ r.pc = "done"

LEMMA TicksAreSeen ==
  ASSUME IInv, NEW t \in Tick, TickStep(t) \/ StatementFails(t) \/ TickDies(t)
  PROVE  \/ TickClaims(t) \/ TickDecides(t) \/ TickInserts(t)
         \/ TickEnqueues(t) \/ TickUpdates(t) \/ TickLeaves(t)
<1>0. tick \in [Tick -> TickState] /\ tick[t] \in TickState
  BY DEF IInv, Types, TicksOK
<1>00. IdleTick \in TickState /\ IdleTick.pc = "idle"
  BY IdleTickSound
<1>1. CASE Claim(t)
  <2> DEFINE r == [IdleTick EXCEPT !.pc = "decide", !.node = node, !.steps = steps,
                                   !.attempts = attempts]
  <2>1. node \in Node /\ steps \in Nat /\ attempts \in Nat
    BY DEF IInv, Types, RowOK
  <2>2. r \in TickState /\ r.pc = "decide" /\ r.node = node /\ r.steps = steps
    BY <1>00, <2>1 DEF IdleTick, TickState
  <2>3. tick' = [tick EXCEPT ![t] = r] /\ UNCHANGED <<node, steps, stepKeys, turn>>
    BY <1>1 DEF Claim, keyVars
  <2> HIDE DEF r
  <2> QED
    BY <2>2, <2>3 DEF TickClaims, TickTo
<1>2. CASE Decide(t)
  <2>1. PICK p \in IF tick[t].steps > MaxSteps THEN {Dead}
                                               ELSE Plans(tick[t].node, tick[t].steps) :
          tick' = [tick EXCEPT ![t].plan = p,
                               ![t].pc = IF p.status = "dead" THEN "notify" ELSE "insert"]
    BY <1>2 DEF Decide
  <2>2. tick[t].pc = "decide" /\ UNCHANGED <<node, steps, stepKeys, turn>>
    BY <1>2 DEF Decide, rowVars, keyVars
  <2>3. tick[t].node \in Node /\ tick[t].steps \in Nat
    BY <1>0, <2>2 DEF IInv, Types, TicksOK, TickState
  <2>4. p \in Plan
    <3>1. Dead \in Plan
      BY DEF Dead, NoPlan, Plan, RowStatus, Terminal, Clock
    <3> QED
      BY <2>1, <2>3, <3>1, PlansAreWritable DEF Writable
  <2> DEFINE q == IF p.status = "dead" THEN "notify" ELSE "insert"
             r == [tick[t] EXCEPT !.plan = p, !.pc = q]
  <2>5. r \in TickState /\ r.pc = q /\ r.plan = p /\ SamePlace(tick[t], r)
    BY <1>0, <2>4 DEF TickState, SamePlace
  <2>6. tick' = [tick EXCEPT ![t] = r]
    BY <1>0, <2>1 DEF TickState
  <2>7. q = "insert" => p.status # "dead" /\ p \in Plans(tick[t].node, tick[t].steps)
    BY <2>1 DEF Dead, NoPlan
  <2>8. q \in {"notify", "insert"}
    OBVIOUS
  <2> HIDE DEF q, r
  <2> QED
    BY <2>2, <2>5, <2>6, <2>7, <2>8 DEF TickDecides, TickTo, SamePlace
<1>3. CASE Insert(t)
  <2> DEFINE key == <<tick[t].node, tick[t].steps>>
             q == IF tick[t].plan.enqueue /\ key \notin stepKeys THEN "enqueue" ELSE "update"
             r == [tick[t] EXCEPT !.pc = q]
  <2>1. /\ tick[t].pc = "insert" /\ tick' = [tick EXCEPT ![t] = r]
        /\ stepKeys' = stepKeys \cup {key} /\ UNCHANGED <<node, steps, turn>>
    BY <1>3 DEF Insert, Goto, rowVars
  <2>2. r \in TickState /\ r.pc = q /\ r.plan = tick[t].plan /\ SamePlace(tick[t], r)
    BY <1>0 DEF TickState, SamePlace
  <2>3. q = "update" \/ (q = "enqueue" /\ tick[t].plan.enqueue /\ key \notin stepKeys)
    OBVIOUS
  <2> HIDE DEF q, r
  <2> QED
    BY <2>1, <2>2, <2>3 DEF TickInserts, TickTo, SamePlace
<1>4. CASE EnqueueTurn(t)
  <2> DEFINE r == [tick[t] EXCEPT !.pc = "update"]
             q == [node |-> tick[t].node, pc |-> "queued", steps |-> 0, worked |-> FALSE]
  <2>1. /\ tick[t].pc = "enqueue" /\ tick' = [tick EXCEPT ![t] = r]
        /\ turn' = Append(turn, q) /\ UNCHANGED <<node, steps, stepKeys>>
    BY <1>4 DEF EnqueueTurn, Goto, rowVars, keyVars
  <2>2. r \in TickState /\ r.pc = "update" /\ r.plan = tick[t].plan /\ SamePlace(tick[t], r)
    BY <1>0 DEF TickState, SamePlace
  <2>3. q \in TurnState /\ q.node = tick[t].node /\ q.pc = "queued"
    BY <2>1 DEF TurnState, IInv, Types, TicksOK
  <2> HIDE DEF r, q
  <2> QED
    BY <2>1, <2>2, <2>3 DEF TickEnqueues, TickTo
<1>5. CASE Update(t)
  BY <1>5, <1>00 DEF Update, EndTick, keyVars, TickUpdates, TickTo
<1>6. CASE StatementFails(t)
  <2> DEFINE k == tick[t].attempts + 1
             q == IF k > MaxAttempts THEN "notify" ELSE "backoff"
             r == [tick[t] EXCEPT !.failing = TRUE, !.attempts = k, !.plan = Dead, !.pc = q]
  <2>1. tick' = [tick EXCEPT ![t] = r] /\ tick[t].pc # "idle"
    BY <1>0, <1>6 DEF StatementFails, TickState
  <2>2. Dead \in Plan
    BY DEF Dead, NoPlan, Plan, RowStatus, Terminal, Clock
  <2>3. k \in Nat /\ q \in {"notify", "backoff"}
    BY <1>0 DEF TickState
  <2> HIDE DEF k, q
  <2>4. r \in TickState /\ r.pc = q /\ SamePlace(tick[t], r)
    BY <1>0, <2>2, <2>3 DEF TickState, SamePlace
  <2>5. UNCHANGED <<node, steps, stepKeys, turn>>
    BY <1>6 DEF StatementFails, rowVars, keyVars
  <2> HIDE DEF r
  <2> QED
    BY <2>1, <2>3, <2>4, <2>5 DEF TickLeaves, TickTo
<1>7. CASE TickDies(t)
  BY <1>7, <1>00 DEF TickDies, EndTick, rowVars, keyVars, TickLeaves, TickTo
<1>8. CASE BackOff(t)
  BY <1>8, <1>00 DEF BackOff, EndTick, keyVars, TickLeaves, TickTo
<1>9. CASE Notify(t)
  <2> DEFINE r == [tick[t] EXCEPT !.pc = "die"]
  <2>1. /\ tick' = [tick EXCEPT ![t] = r] /\ tick[t].pc # "idle"
        /\ UNCHANGED <<node, steps, stepKeys, turn>>
    BY <1>9 DEF Notify, Goto, rowVars
  <2>2. r \in TickState /\ r.pc = "die" /\ SamePlace(tick[t], r)
    BY <1>0 DEF TickState, SamePlace
  <2> HIDE DEF r
  <2> QED
    BY <2>1, <2>2 DEF TickLeaves, TickTo
<1>10. CASE Die(t)
  BY <1>10, <1>00 DEF Die, EndTick, keyVars, TickLeaves, TickTo
<1> QED
  BY <1>1, <1>2, <1>3, <1>4, <1>5, <1>6, <1>7, <1>8, <1>9, <1>10 DEF TickStep

LEMMA TurnsAreSeen ==
  ASSUME IInv, NEW j \in DOMAIN turn, TurnStep(j) \/ TurnFails(j)
  PROVE  TurnGoes(j) \/ TurnLeads(j)
<1>0. turn[j] \in TurnState /\ steps \in Nat
  BY SeqExcept DEF IInv, Types, TurnsOK, RowOK
<1> USE DEF TurnState
<1>1. CASE TurnWorks(j)
  <2> DEFINE r == [turn[j] EXCEPT !.pc = "report", !.worked = TRUE]
  <2>1. /\ turn' = [turn EXCEPT ![j] = r] /\ turn[j].pc # "done"
        /\ UNCHANGED <<node, steps, tick, stepKeys>>
    BY <1>0, <1>1 DEF TurnWorks, rowVars, keyVars
  <2>2. r \in TurnState /\ r.node = turn[j].node /\ r.worked
    BY <1>0
  <2> HIDE DEF r
  <2> QED
    BY <2>1, <2>2 DEF TurnGoes
<1>2. CASE Report(j)
  <2> DEFINE r == IF node # turn[j].node \/ status \in Terminal \cup {"paused_handoff"}
                    THEN [turn[j] EXCEPT !.pc = "done"]
                    ELSE [turn[j] EXCEPT !.pc = "insert", !.steps = steps]
  <2>1. /\ turn' = [turn EXCEPT ![j] = r] /\ turn[j].pc = "report"
        /\ UNCHANGED <<node, steps, tick, stepKeys>>
    BY <1>0, <1>2 DEF Report, rowVars, keyVars
  <2>2. r \in TurnState /\ r.node = turn[j].node /\ r.worked = turn[j].worked
    BY <1>0
  <2> HIDE DEF r
  <2> QED
    BY <2>1, <2>2 DEF TurnGoes
<1>3. CASE ReportInsert(j)
  <2> DEFINE key == <<turn[j].node, turn[j].steps>>
             r == IF key \in stepKeys THEN [turn[j] EXCEPT !.pc = "done", !.steps = 0]
                                      ELSE [turn[j] EXCEPT !.pc = "update"]
  <2>1. turn' = [turn EXCEPT ![j] = r]
    BY <1>0, <1>3 DEF ReportInsert, EndTurn, TurnAt
  <2>2. /\ turn[j].pc = "insert" /\ stepKeys' = stepKeys \cup {key}
        /\ UNCHANGED <<node, steps, tick>>
    BY <1>3 DEF ReportInsert, rowVars
  <2>3. r \in TurnState /\ r.node = turn[j].node /\ r.worked = turn[j].worked
    BY <1>0
  <2> HIDE DEF r
  <2> QED
    BY <2>1, <2>2, <2>3 DEF TurnGoes
<1>4. CASE ReportUpdate(j)
  <2> DEFINE r == [turn[j] EXCEPT !.pc = "done", !.steps = 0]
  <2>1. turn' = [turn EXCEPT ![j] = r] /\ turn[j].pc = "update"
    BY <1>0, <1>4 DEF ReportUpdate, EndTurn
  <2>2. /\ node' \in Out[turn[j].node] /\ steps' = turn[j].steps + 1
        /\ UNCHANGED <<stepKeys, tick>>
    BY <1>4 DEF ReportUpdate, keyVars
  <2>3. r \in TurnState /\ r.node = turn[j].node /\ r.worked = turn[j].worked /\ r.pc = "done"
    BY <1>0
  <2> HIDE DEF r
  <2> QED
    BY <2>1, <2>2, <2>3 DEF TurnLeads
<1>5. CASE TurnFails(j)
  <2>1. PICK q \in {"queued", "dead"} : turn' = [turn EXCEPT ![j].pc = q, ![j].steps = 0]
    BY <1>5 DEF TurnFails, EndTurn
  <2> DEFINE r == [turn[j] EXCEPT !.pc = q, !.steps = 0]
  <2>2. turn' = [turn EXCEPT ![j] = r]
    BY <1>0, <2>1
  <2>3. turn[j].pc # "done" /\ UNCHANGED <<node, steps, tick, stepKeys>>
    BY <1>5 DEF TurnFails, rowVars, keyVars
  <2>4. r \in TurnState /\ r.node = turn[j].node /\ r.worked = turn[j].worked /\ r.pc = q
    BY <1>0
  <2> HIDE DEF r
  <2> QED
    BY <2>2, <2>3, <2>4 DEF TurnGoes
<1> QED
  BY <1>1, <1>2, <1>3, <1>4, <1>5 DEF TurnStep

(* Everything else leaves the flow alone. *)
LEMMA FlowSteps ==
  ASSUME IInv, [Next]_vars
  PROVE  \/ UNCHANGED flow
         \/ \E t \in Tick : \/ TickClaims(t) \/ TickDecides(t) \/ TickInserts(t)
                            \/ TickEnqueues(t) \/ TickUpdates(t) \/ TickLeaves(t)
         \/ \E j \in DOMAIN turn : TurnGoes(j) \/ TurnLeads(j)
<1> USE DEF flow
<1>1. ASSUME NEW d \in Drain, DrainStep(d) \/ ReactFails(d)
      PROVE  UNCHANGED flow
  BY <1>1 DEF DrainStep, Take, React, ReactInsert, ReactUpdate, ReactFails, rowVars, keyVars
<1>2. ASSUME \/ \E stop \in BOOLEAN : Inbound(stop)
             \/ HandoffOpens \/ HandoffCloses \/ ManagerChecks \/ ManagerCancels
             \/ EvalDue \/ LeaseExpires
      PROVE  UNCHANGED flow
  BY <1>2 DEF Inbound, HandoffOpens, HandoffCloses, Emit, ManagerChecks, ManagerCancels, EvalDue,
              LeaseExpires, rowVars, keyVars
<1>3. CASE UNCHANGED vars
  BY <1>3 DEF vars, rowVars, keyVars
<1> QED
  BY <1>1, <1>2, <1>3, TicksAreSeen, TurnsAreSeen DEF Next

-----------------------------------------------------------------------------
(* What such a step leaves of the ticks and the turns. *)

LEMMA TickToOther ==
  ASSUME IInv, NEW t \in Tick, NEW r, TickTo(t, r)
  PROVE  \A u \in Tick : tick'[u] = IF u = t THEN r ELSE tick[u]
  BY DEF TickTo, IInv, Types, TicksOK

LEMMA SeqAppended ==
  ASSUME NEW S, NEW s \in Seq(S), NEW e \in S
  PROVE  /\ Append(s, e) \in Seq(S)
         /\ DOMAIN Append(s, e) = DOMAIN s \cup {Len(s) + 1}
         /\ Len(s) + 1 \notin DOMAIN s
         /\ Append(s, e)[Len(s) + 1] = e
         /\ \A i \in DOMAIN s : Append(s, e)[i] = s[i]
<1>1. DOMAIN s = 1..Len(s) /\ Len(s) \in Nat
  BY LenProperties
<1> QED
  BY <1>1, AppendProperties

LEMMA TurnsAppended ==
  ASSUME IInv, NEW q \in TurnState, turn' = Append(turn, q)
  PROVE  \E k : /\ k \notin DOMAIN turn /\ DOMAIN turn' = DOMAIN turn \cup {k}
                /\ turn'[k] = q
                /\ \A i \in DOMAIN turn : turn'[i] = turn[i]
<1>1. turn \in Seq(TurnState)
  BY DEF IInv, Types, TurnsOK
<1> WITNESS Len(turn) + 1
<1> QED
  BY <1>1, SeqAppended

LEMMA TurnChanged ==
  ASSUME IInv, NEW j \in DOMAIN turn, NEW r \in TurnState, turn' = [turn EXCEPT ![j] = r]
  PROVE  /\ DOMAIN turn' = DOMAIN turn
         /\ \A i \in DOMAIN turn : turn'[i] = IF i = j THEN r ELSE turn[i]
<1>1. turn \in Seq(TurnState)
  BY DEF IInv, Types, TurnsOK
<1>2. turn \in [1..Len(turn) -> TurnState]
  BY <1>1, LenProperties
<1> QED
  BY <1>2

LEMMA TurnTyped == ASSUME IInv, NEW j \in DOMAIN turn PROVE turn[j] \in TurnState
  BY SeqExcept DEF IInv, Types, TurnsOK

LEMMA TickTyped ==
  ASSUME IInv, NEW t \in Tick
  PROVE  /\ tick[t] \in TickState
         /\ tick[t].pc # "idle" => tick[t].node \in Node
         /\ tick[t].pc \in {"insert", "enqueue", "update"} => tick[t].plan.to \in Node
  BY DEF IInv, Types, TicksOK, Writable

-----------------------------------------------------------------------------
(* Nothing behind an action is reached before a turn of it ran: not by the *)
(* row, not by a tick that read it earlier, not by the plan of a tick, not *)
(* by a turn.  A turn that reports has run.                                *)
Here(n) ==
  \/ node = n
  \/ \E t \in Tick : tick[t].pc # "idle" /\ tick[t].node = n
  \/ \E t \in Tick : tick[t].pc \in {"insert", "enqueue", "update"} /\ tick[t].plan.to = n
  \/ \E j \in DOMAIN turn : turn[j].node = n

Worked(a) == \E j \in TurnsOf(a) : turn[j].worked
Led(a) == \E j \in TurnsOf(a) : turn[j].worked /\ turn[j].pc = "done"

Skipless ==
  /\ \A a \in Node : Type[a] = "action" => \A n \in Behind[a] : Here(n) => Worked(a)
  /\ \A j \in DOMAIN turn : turn[j].pc \in {"report", "insert", "update"} => turn[j].worked

LEMMA HereInNode == ASSUME IInv, NEW n, Here(n) PROVE n \in Node
  BY TurnTyped, TickTyped DEF Here, TurnState, IInv, Types, RowOK

(* The edge that leads behind an action leaves it or another node behind it. *)
LEMMA BehindStep ==
  ASSUME NEW a \in Node, NEW n \in Node, NEW m \in Behind[a], m \in Out[n], n # a
  PROVE  n \in Behind[a]
<1>1. PICK S \in SUBSET (Node \ {m}) : Trigger \in S /\ \A x \in S \ {a} : Out[x] \subseteq S
  BY DEF Behind
<1>2. n \notin S
  BY <1>1
<1> QED
  BY <1>1, <1>2 DEF Behind

LEMMA TriggerIsNotBehind == ASSUME NEW a \in Node PROVE Trigger \notin Behind[a]
  BY DEF Behind

LEMMA PlanMoves ==
  ASSUME NEW n \in Node, NEW k \in Nat, NEW p \in Plans(n, k), p.status # "dead"
  PROVE  p.to = n \/ (p.to \in Out[n] /\ Type[n] # "action")
<1>1. Type[n] \in {"trigger", "wait", "condition", "classify", "action", "end"}
  BY GraphAssumption
<1>2. Type[n] = "classify" => NoReply[n] \in Out[n]
  BY GraphAssumption
<1>3. \A m : Advance(m).to = m
  BY DEF Advance, Stay, NoPlan
<1>4. Stay(n, "active", "later").to = n /\ Enqueue(n, "waiting_reply").to = n
      /\ Enqueue(n, "active").to = n /\ Complete(n).to = n
  BY DEF Enqueue, Complete, Stay, NoPlan
<1>5. Dead.status = "dead"
  BY DEF Dead, NoPlan
<1> HIDE DEF Stay, Advance, Enqueue, Complete, Dead
<1> QED
  BY <1>1, <1>2, <1>3, <1>4, <1>5 DEF Plans

(* Turns do not disappear, and what they did is not undone. *)
LEMMA WorkedStays ==
  ASSUME IInv, [Next]_vars, NEW a, Worked(a)
  PROVE  Worked(a)'
<1>1. PICK j \in DOMAIN turn : turn[j].node = a /\ turn[j].worked
  BY DEF Worked, TurnsOf
<1>2. CASE turn' = turn
  BY <1>1, <1>2 DEF Worked, TurnsOf
<1>3. ASSUME NEW q \in TurnState, turn' = Append(turn, q) PROVE Worked(a)'
  BY <1>1, <1>3, TurnsAppended DEF Worked, TurnsOf
<1>4. ASSUME NEW i \in DOMAIN turn, NEW r \in TurnState, turn' = [turn EXCEPT ![i] = r],
             r.node = turn[i].node, r.worked \/ r.worked = turn[i].worked
      PROVE  Worked(a)'
  BY <1>1, <1>4, TurnChanged DEF Worked, TurnsOf
<1> QED
  BY <1>2, <1>3, <1>4, FlowSteps
  DEF flow, TickClaims, TickDecides, TickInserts, TickEnqueues, TickUpdates, TickLeaves,
      TurnGoes, TurnLeads

(* The flow moves along its edges, and leaves an action when its turn ran. *)
HereStep(n) ==
  Here(n) \/ \E p \in Node : Here(p) /\ n \in Out[p] /\ (Type[p] = "action" => Led(p)')

LEMMA HereByTick ==
  ASSUME IInv, NEW t \in Tick, NEW n \in Node, Here(n)',
         \/ TickClaims(t) \/ TickDecides(t) \/ TickInserts(t)
         \/ TickEnqueues(t) \/ TickUpdates(t) \/ TickLeaves(t)
  PROVE  HereStep(n)
<1>0. tick[t].node \in Node => \A m : m \in Out[tick[t].node] => m \in Node
  BY GraphAssumption
<1>1. CASE TickClaims(t)
  <2>1. PICK r \in TickState : TickTo(t, r) /\ r.pc = "decide" /\ r.node = node
    BY <1>1 DEF TickClaims
  <2>2. \A u \in Tick : tick'[u] = IF u = t THEN r ELSE tick[u]
    BY <2>1, TickToOther
  <2> QED
    BY <1>1, <2>1, <2>2 DEF TickClaims, Here, HereStep
<1>2. CASE TickDecides(t)
  <2>1. PICK r \in TickState :
          /\ TickTo(t, r) /\ SamePlace(tick[t], r)
          /\ r.pc = "notify" \/ (r.pc = "insert" /\ r.plan.status # "dead"
                                 /\ r.plan \in Plans(r.node, r.steps))
    BY <1>2 DEF TickDecides
  <2>2. \A u \in Tick : tick'[u] = IF u = t THEN r ELSE tick[u]
    BY <2>1, TickToOther
  <2>3. tick[t].pc = "decide" /\ r.node = tick[t].node /\ r.node \in Node /\ r.steps \in Nat
    BY <1>2, <2>1, TickTyped DEF TickDecides, SamePlace, TickState
  <2>4. r.pc = "insert" => r.plan.to = r.node \/ (r.plan.to \in Out[r.node] /\ Type[r.node] # "action")
    BY <2>1, <2>3, PlanMoves
  <2>5. Here(r.node)
    BY <2>3 DEF Here
  <2>6. node' = node /\ turn' = turn
    BY <1>2 DEF TickDecides
  <2>7. Here(n) \/ (r.pc = "insert" /\ r.plan.to = n) \/ r.node = n
    BY <2>1, <2>2, <2>6 DEF Here
  <2> QED
    BY <2>3, <2>4, <2>5, <2>7 DEF HereStep
<1>3. CASE TickInserts(t)
  <2>1. PICK r \in TickState : TickTo(t, r) /\ r.node = tick[t].node /\ r.plan = tick[t].plan
    BY <1>3 DEF TickInserts, SamePlace
  <2>2. \A u \in Tick : tick'[u] = IF u = t THEN r ELSE tick[u]
    BY <2>1, TickToOther
  <2> QED
    BY <1>3, <2>1, <2>2 DEF TickInserts, Here, HereStep
<1>4. CASE TickEnqueues(t)
  <2>1. PICK r \in TickState : TickTo(t, r) /\ r.node = tick[t].node /\ r.plan = tick[t].plan
    BY <1>4 DEF TickEnqueues, SamePlace
  <2>2. \A u \in Tick : tick'[u] = IF u = t THEN r ELSE tick[u]
    BY <2>1, TickToOther
  <2>3. PICK q \in TurnState : q.node = tick[t].node /\ turn' = Append(turn, q)
    BY <1>4 DEF TickEnqueues
  <2>4. \A j \in DOMAIN turn' : turn'[j].node = tick[t].node
                                \/ (j \in DOMAIN turn /\ turn'[j] = turn[j])
    BY <2>3, TurnsAppended
  <2>5. node' = node /\ tick[t].pc = "enqueue"
    BY <1>4 DEF TickEnqueues
  <2>6. Here(n) \/ n = tick[t].node
    BY <2>1, <2>2, <2>4, <2>5 DEF Here
  <2> QED
    BY <2>5, <2>6 DEF Here, HereStep
<1>5. CASE TickUpdates(t)
  <2>1. PICK r \in TickState : TickTo(t, r) /\ r.pc = "idle"
    BY <1>5 DEF TickUpdates
  <2>2. \A u \in Tick : tick'[u] = IF u = t THEN r ELSE tick[u]
    BY <2>1, TickToOther
  <2> QED
    BY <1>5, <2>1, <2>2 DEF TickUpdates, Here, HereStep
<1>6. CASE TickLeaves(t)
  <2>1. PICK r \in TickState :
          /\ TickTo(t, r)
          /\ \/ r.pc = "idle"
             \/ r.pc \in {"backoff", "notify", "die"} /\ r.node = tick[t].node /\ tick[t].pc # "idle"
    BY <1>6 DEF TickLeaves, SamePlace
  <2>2. \A u \in Tick : tick'[u] = IF u = t THEN r ELSE tick[u]
    BY <2>1, TickToOther
  <2> QED
    BY <1>6, <2>1, <2>2 DEF TickLeaves, Here, HereStep
<1> QED
  BY <1>1, <1>2, <1>3, <1>4, <1>5, <1>6

LEMMA HereByTurn ==
  ASSUME IInv, Skipless, NEW j \in DOMAIN turn, NEW n \in Node, Here(n)',
         TurnGoes(j) \/ TurnLeads(j)
  PROVE  HereStep(n)
<1>1. CASE TurnGoes(j)
  <2>1. PICK r \in TurnState : turn' = [turn EXCEPT ![j] = r] /\ r.node = turn[j].node
    BY <1>1 DEF TurnGoes
  <2>2. DOMAIN turn' = DOMAIN turn /\ \A i \in DOMAIN turn : turn'[i] = IF i = j THEN r ELSE turn[i]
    BY <2>1, TurnChanged
  <2> QED
    BY <1>1, <2>1, <2>2 DEF TurnGoes, Here, HereStep
<1>2. CASE TurnLeads(j)
  <2>1. PICK r \in TurnState :
          /\ turn' = [turn EXCEPT ![j] = r] /\ r.node = turn[j].node
          /\ r.worked = turn[j].worked /\ r.pc = "done"
    BY <1>2 DEF TurnLeads
  <2>2. DOMAIN turn' = DOMAIN turn /\ \A i \in DOMAIN turn : turn'[i] = IF i = j THEN r ELSE turn[i]
    BY <2>1, TurnChanged
  <2>3. PICK p \in Node : p = turn[j].node
    BY TurnTyped DEF TurnState
  <2>4. turn[j].worked /\ node' \in Out[p] /\ tick' = tick
    BY <1>2, <2>3 DEF TurnLeads, Skipless
  <2>5. Led(p)' /\ Here(p)
    BY <2>1, <2>2, <2>3, <2>4 DEF Led, TurnsOf, Here
  <2>6. Here(n) \/ n = node'
    BY <2>1, <2>2, <2>4 DEF Here
  <2> QED
    BY <2>4, <2>5, <2>6 DEF HereStep
<1> QED
  BY <1>1, <1>2

LEMMA HereSteps ==
  ASSUME IInv, Skipless, [Next]_vars, NEW n \in Node, Here(n)'
  PROVE  HereStep(n)
<1>1. CASE UNCHANGED flow
  BY <1>1 DEF flow, Here, HereStep
<1> QED
  BY <1>1, FlowSteps, HereByTick, HereByTurn

LEMMA SkiplessInit == Init => Skipless
<1> SUFFICES ASSUME Init PROVE Skipless
  OBVIOUS
<1>1. DOMAIN turn = {}
  BY DEF Init
<1>2. \A t \in Tick : tick[t].pc = "idle"
  BY DEF Init, IdleTick
<1>3. \A n : Here(n) => n = Trigger
  BY <1>1, <1>2 DEF Init, Here
<1> QED
  BY <1>1, <1>3, TriggerIsNotBehind DEF Skipless

LEMMA SkiplessKeeps ==
  ASSUME IInv, Skipless, [Next]_vars
  PROVE  Skipless'
<1>1. ASSUME NEW a \in Node, Type[a] = "action", NEW n \in Behind[a], Here(n)'
      PROVE  Worked(a)'
  <2>0. n \in Node
    BY DEF Behind
  <2>1. CASE Here(n)
    BY <1>1, <2>1, WorkedStays DEF Skipless
  <2>2. ASSUME NEW p \in Node, Here(p), n \in Out[p], Type[p] = "action" => Led(p)'
        PROVE  Worked(a)'
    <3>1. Type[p] = "action" => Worked(p)'
      BY <2>2 DEF Led, Worked
    <3> QED
      BY <1>1, <2>2, <3>1, BehindStep, WorkedStays DEF Skipless
  <2> QED
    BY <1>1, <2>0, <2>1, <2>2, HereSteps DEF HereStep
<1>2. ASSUME NEW j \in DOMAIN turn', turn'[j].pc \in {"report", "insert", "update"}
      PROVE  turn'[j].worked
  <2>1. CASE turn' = turn
    BY <1>2, <2>1 DEF Skipless
  <2>2. ASSUME NEW q \in TurnState, turn' = Append(turn, q), q.pc = "queued"
        PROVE  turn'[j].worked
    BY <1>2, <2>2, TurnsAppended DEF Skipless
  <2>3. ASSUME NEW i \in DOMAIN turn, TurnGoes(i) \/ TurnLeads(i)
        PROVE  turn'[j].worked
    <3>1. PICK r \in TurnState :
            /\ turn' = [turn EXCEPT ![i] = r]
            /\ r.worked \/ (r.worked = turn[i].worked
                            /\ (r.pc \in {"queued", "done", "dead"}
                                \/ turn[i].pc \in {"report", "insert"}))
      BY <2>3 DEF TurnGoes, TurnLeads
    <3>2. DOMAIN turn' = DOMAIN turn /\ \A x \in DOMAIN turn : turn'[x] = IF x = i THEN r ELSE turn[x]
      BY <3>1, TurnChanged
    <3> QED
      BY <1>2, <3>1, <3>2 DEF Skipless
  <2> QED
    BY <2>1, <2>2, <2>3, FlowSteps
    DEF flow, TickClaims, TickDecides, TickInserts, TickEnqueues, TickUpdates, TickLeaves
<1> QED
  BY <1>1, <1>2 DEF Skipless

LEMMA AlwaysSkipless == Spec => []Skipless
<1>1. Init => Skipless
  BY SkiplessInit
<1>2. Skipless /\ IInv /\ [Next]_vars => Skipless'
  BY SkiplessKeeps
<1> QED
  BY <1>1, <1>2, Invariance, PTL DEF Spec

(* A flow never gets past an action whose turn did not run: neither the    *)
(* row, nor a late tick or turn that still works on what it read.          *)
THEOREM NoActionIsSkipped == Spec => []NoActionSkipped
<1>1. Skipless => NoActionSkipped
  BY DEF Skipless, NoActionSkipped, Here, Worked
<1> QED
  BY <1>1, AlwaysSkipless, PTL

-----------------------------------------------------------------------------
(* How many turns an action gets, where a Timetable says when each node is *)
(* reached.                                                                *)

(* An action lets the enrollment go when a turn of it is done. *)
Open(n) == Type[n] = "action" => \E j \in TurnsOf(n) : turn[j].pc = "done"
Keyed(n) == \E k \in Nat : <<n, k>> \in stepKeys
Opened(P, seg) == \A n \in P : Here(n) \/ Keyed(n) => Open(seg[n])

(* The steps at which the nodes of P are due, now that the turns so far    *)
(* have ended when they did.                                               *)
Due(P) == {due \in [P -> Nat] : \A n, m \in P : m \in Out[n] =>
             /\ Type[n] \in {"trigger", "condition"} => due[m] = due[n] + 1
             /\ Type[n] = "wait" => due[m] = due[n] + 2}

OnTime(P, due, n, k) == n \in P =>
  /\ Type[n] \in {"trigger", "condition"} => k = due[n]
  /\ Type[n] = "wait" => k = due[n] \/ (k = due[n] + 1 /\ <<n, due[n]>> \in stepKeys)
  /\ Type[n] = "action" => k = due[n] \/ <<n, k - 1>> \in stepKeys

Moves(P, due, r) == r.plan.to \in P =>
  \/ /\ r.plan.to = r.node /\ Type[r.node] \in {"wait", "action", "classify", "end"}
     /\ Type[r.node] = "wait" => r.steps = due[r.node]
  \/ due[r.plan.to] = r.steps + 1
Sends(P, due, r) ==
  /\ Type[r.node] \in {"action", "classify"}
  /\ r.node \in P /\ Type[r.node] = "action" => r.steps = due[r.node]

TickOnTime(P, due, r) ==
  /\ r.pc # "idle" => OnTime(P, due, r.node, r.steps)
  /\ r.pc \in {"insert", "enqueue", "update"} =>
       Moves(P, due, r) /\ (r.plan.enqueue => Sends(P, due, r))
  /\ r.pc \in {"enqueue", "update"} => <<r.node, r.steps>> \in stepKeys
  /\ r.pc = "enqueue" => r.plan.enqueue

KeysOnTime(P, due) ==
  \A n \in P, k \in Nat : <<n, k>> \in stepKeys /\ Type[n] = "wait" => k \in {due[n], due[n] + 1}

Enqueuers(a) == {t \in Tick : tick[t].pc = "enqueue" /\ tick[t].node = a}
OneTurn(P, due, a) ==
  /\ \A i, j \in TurnsOf(a) : i = j
  /\ \A t, u \in Enqueuers(a) : t = u
  /\ Enqueuers(a) = {} \/ TurnsOf(a) = {}
  /\ Enqueuers(a) # {} \/ TurnsOf(a) # {} => <<a, due[a]>> \in stepKeys

Timely(P, seg, due) ==
  /\ Opened(P, seg)
  /\ OnTime(P, due, node, steps)
  /\ \A t \in Tick : TickOnTime(P, due, tick[t])
  /\ KeysOnTime(P, due)
  /\ \A a \in P : Type[a] = "action" => OneTurn(P, due, a)
  /\ \A j \in DOMAIN turn : Type[turn[j].node] \in {"action", "classify"}

(* Keys are never deleted, and what is on time stays so. *)
LEMMA KeysGrow == ASSUME IInv, [Next]_vars PROVE stepKeys \subseteq stepKeys'
  BY FlowSteps
  DEF flow, TickClaims, TickDecides, TickInserts, TickEnqueues, TickUpdates, TickLeaves,
      TurnGoes, TurnLeads

LEMMA OnTimeStays ==
  ASSUME stepKeys \subseteq stepKeys', NEW P, NEW due, NEW n, NEW k, OnTime(P, due, n, k)
  PROVE  OnTime(P, due, n, k)'
  BY DEF OnTime

LEMMA TickOnTimeStays ==
  ASSUME stepKeys \subseteq stepKeys', NEW P, NEW due, NEW r, TickOnTime(P, due, r)
  PROVE  TickOnTime(P, due, r)'
<1>1. r.pc # "idle" => OnTime(P, due, r.node, r.steps)'
  BY OnTimeStays DEF TickOnTime
<1> QED
  BY <1>1 DEF TickOnTime, Moves, Sends

(* A step that enqueues no turn and comes no closer to it. *)
LEMMA OneTurnStays ==
  ASSUME NEW P, NEW due, NEW a, OneTurn(P, due, a), stepKeys \subseteq stepKeys',
         TurnsOf(a)' = TurnsOf(a), Enqueuers(a)' \subseteq Enqueuers(a)
  PROVE  OneTurn(P, due, a)'
  BY DEF OneTurn

(* What processNode decides at a node that is on time leads to nodes that  *)
(* are on time, and enqueues at the step the action is due.                *)
LEMMA PlansOnTime ==
  ASSUME IInv, NEW P, NEW seg, NEW off, Timetable(P, seg, off), NEW due \in Due(P),
         KeysOnTime(P, due), NEW r \in TickState, r.node \in Node,
         OnTime(P, due, r.node, r.steps),
         r.plan \in Plans(r.node, r.steps), r.plan.status # "dead"
  PROVE  Moves(P, due, r) /\ (r.plan.enqueue => Sends(P, due, r))
<1> DEFINE n == r.node
           k == r.steps
           p == r.plan
<1>0. n \in Node /\ k \in Nat /\ due \in [P -> Nat]
  BY DEF TickState, Due
<1>1. /\ \A m : Advance(m).to = m /\ ~Advance(m).enqueue
      /\ \A s, e : Stay(n, s, e).to = n /\ ~Stay(n, s, e).enqueue
      /\ Enqueue(n, "waiting_reply").to = n /\ Enqueue(n, "active").to = n
      /\ Complete(n).to = n /\ ~Complete(n).enqueue
      /\ Dead.status = "dead"
  BY DEF Advance, Enqueue, Complete, Stay, Dead, NoPlan
<1>2. ASSUME NEW m \in Out[n], m \in P
      PROVE  /\ n \in P /\ Type[n] \in {"trigger", "condition", "wait", "action"}
             /\ Type[n] \in {"trigger", "condition"} => due[m] = due[n] + 1
             /\ Type[n] = "wait" => due[m] = due[n] + 2
  BY <1>2 DEF Timetable, Due
<1>3. CASE Type[n] \in {"trigger", "condition"}
  <2>1. PICK m \in Out[n] : p = Advance(m)
    BY <1>3 DEF Plans
  <2>2. p.to = m /\ ~p.enqueue
    BY <1>1, <2>1
  <2>3. m \in P => due[m] = k + 1
    BY <1>0, <1>2, <1>3 DEF OnTime
  <2> QED
    BY <2>2, <2>3 DEF Moves
<1>4. CASE Type[n] = "wait"
  <2>0. n \in P => k = due[n] \/ (k = due[n] + 1 /\ <<n, due[n]>> \in stepKeys)
    BY <1>4 DEF OnTime
  <2>1. CASE Acted(n, k)
    <3>1. PICK m \in Out[n] : p = Advance(m)
      BY <1>4, <2>1 DEF Plans
    <3>2. p.to = m /\ ~p.enqueue
      BY <1>1, <3>1
    <3>3. n \in P => k - 1 \in {due[n], due[n] + 1}
      BY <1>0, <1>4, <2>1 DEF Acted, KeysOnTime
    <3>4. n \in P => k = due[n] + 1
      BY <1>0, <2>0, <3>3
    <3>5. m \in P => due[m] = k + 1
      BY <1>0, <1>2, <1>4, <3>4
    <3> QED
      BY <3>2, <3>5 DEF Moves
  <2>2. CASE ~Acted(n, k)
    <3>1. p = Stay(n, "active", "later")
      BY <1>4, <2>2 DEF Plans
    <3>2. p.to = n /\ ~p.enqueue
      BY <1>1, <3>1
    <3>3. n \in P => k = due[n]
      <4>1. ASSUME n \in P, k = due[n] + 1, <<n, due[n]>> \in stepKeys PROVE FALSE
        <5>1. due[n] \in Nat /\ k - 1 = due[n] /\ k > 0
          BY <1>0, <4>1
        <5> QED
          BY <2>2, <4>1, <5>1 DEF Acted
      <4> QED
        BY <2>0, <4>1
    <3> QED
      BY <1>4, <3>2, <3>3 DEF Moves
  <2> QED
    BY <2>1, <2>2
<1>5. CASE Type[n] = "classify"
  <2>1. p = Enqueue(n, "waiting_reply") \/ p = Advance(NoReply[n])
    BY <1>5 DEF Plans
  <2>2. NoReply[n] \in Out[n]
    BY <1>0, <1>5, GraphAssumption
  <2>3. NoReply[n] \notin P
    BY <1>2, <1>5, <2>2
  <2>4. p.to = n \/ (p.to \notin P /\ ~p.enqueue)
    BY <1>1, <2>1, <2>3
  <2> QED
    BY <1>5, <2>4 DEF Moves, Sends
<1>6. CASE Type[n] = "action"
  <2>1. CASE ~Acted(n, k)
    <3>1. p = Enqueue(n, "active")
      BY <1>6, <2>1 DEF Plans
    <3>2. p.to = n
      BY <1>1, <3>1
    <3>3. n \in P => k = due[n]
      <4>1. ASSUME <<n, k - 1>> \in stepKeys, k = 0, n \in P PROVE FALSE
        <5>1. <<n, k - 1>> \in Node \X Nat
          BY <4>1 DEF IInv, Types, KeysOK
        <5> QED
          BY <4>1, <5>1
      <4> QED
        BY <1>0, <1>6, <2>1, <4>1 DEF OnTime, Acted
    <3> QED
      BY <1>6, <3>2, <3>3 DEF Moves, Sends
  <2>2. CASE Acted(n, k)
    <3>1. p = Stay(n, "active", "later")
      BY <1>6, <1>1, <2>2 DEF Plans
    <3>2. p.to = n /\ ~p.enqueue
      BY <1>1, <3>1
    <3> QED
      BY <1>6, <3>2 DEF Moves
  <2> QED
    BY <2>1, <2>2
<1>7. CASE Type[n] = "end"
  <2>1. p = Complete(n)
    BY <1>7 DEF Plans
  <2>2. p.to = n /\ ~p.enqueue
    BY <1>1, <2>1
  <2> QED
    BY <1>7, <2>2 DEF Moves
<1> QED
  BY <1>0, <1>3, <1>4, <1>5, <1>6, <1>7, GraphAssumption

LEMMA OpenStays ==
  ASSUME IInv, [Next]_vars, NEW n, Open(n)
  PROVE  Open(n)'
<1>1. CASE Type[n] # "action"
  BY <1>1 DEF Open
<1>2. CASE Type[n] = "action"
  <2>1. PICK j \in DOMAIN turn : turn[j].node = n /\ turn[j].pc = "done"
    BY <1>2 DEF Open, TurnsOf
  <2>2. CASE turn' = turn
    BY <2>1, <2>2 DEF Open, TurnsOf
  <2>3. ASSUME NEW q \in TurnState, turn' = Append(turn, q) PROVE Open(n)'
    BY <2>1, <2>3, TurnsAppended DEF Open, TurnsOf
  <2>4. ASSUME NEW i \in DOMAIN turn, NEW r \in TurnState, turn' = [turn EXCEPT ![i] = r],
               r.node = turn[i].node, turn[i].pc # "done"
        PROVE  Open(n)'
    BY <2>1, <2>4, TurnChanged DEF Open, TurnsOf
  <2>5. ASSUME NEW i \in DOMAIN turn, TurnGoes(i) \/ TurnLeads(i) PROVE Open(n)'
    BY <2>4, <2>5 DEF TurnGoes, TurnLeads
  <2> QED
    BY <2>2, <2>3, <2>5, FlowSteps
    DEF flow, TickClaims, TickDecides, TickInserts, TickEnqueues, TickUpdates, TickLeaves
<1> QED
  BY <1>1, <1>2

(* Keys are written where the enrollment is. *)
LEMMA KeyedWhereHere ==
  ASSUME IInv, [Next]_vars, NEW n \in Node, Keyed(n)'
  PROVE  Keyed(n) \/ Here(n)
<1>1. PICK k \in Nat : <<n, k>> \in stepKeys'
  BY DEF Keyed
<1>2. CASE stepKeys' = stepKeys
  BY <1>1, <1>2 DEF Keyed
<1>3. ASSUME NEW t \in Tick, TickInserts(t) PROVE Keyed(n) \/ Here(n)
  <2>1. /\ stepKeys' = stepKeys \cup {<<tick[t].node, tick[t].steps>>}
        /\ tick[t].pc = "insert"
    BY <1>3 DEF TickInserts, SamePlace
  <2> QED
    BY <1>1, <2>1 DEF Keyed, Here
<1>4. ASSUME NEW j \in DOMAIN turn, TurnGoes(j) PROVE Keyed(n) \/ Here(n)
  BY <1>1, <1>4 DEF TurnGoes, Keyed, Here
<1> QED
  BY <1>2, <1>3, <1>4, FlowSteps
  DEF flow, TickClaims, TickDecides, TickEnqueues, TickUpdates, TickLeaves, TurnLeads

LEMMA OpenedKeeps ==
  ASSUME IInv, Skipless, [Next]_vars,
         NEW P, NEW seg, NEW off, Timetable(P, seg, off), Opened(P, seg)
  PROVE  Opened(P, seg)'
<1> SUFFICES ASSUME NEW n \in P, Here(n)' \/ Keyed(n)'
             PROVE  Open(seg[n])'
  BY DEF Opened
<1>1. P \subseteq Node
  BY DEF Timetable
<1>2. CASE Here(n) \/ Keyed(n)
  BY <1>2, OpenStays DEF Opened
<1>3. ASSUME NEW p \in Node, Here(p), n \in Out[p], Type[p] = "action" => Led(p)'
      PROVE  Open(seg[n])'
  <2>1. /\ p \in P
        /\ \/ Type[p] # "action" /\ seg[n] = seg[p]
           \/ Type[p] = "action" /\ seg[n] = p
    BY <1>3 DEF Timetable
  <2>2. CASE Type[p] # "action"
    BY <1>3, <2>1, <2>2, OpenStays DEF Opened
  <2>3. CASE Type[p] = "action"
    BY <1>3, <2>1, <2>3 DEF Led, Open
  <2> QED
    BY <2>2, <2>3
<1> QED
  BY <1>1, <1>2, <1>3, HereSteps, KeyedWhereHere DEF HereStep

(* Where ticks and turns stay what they were or come to r, and no turn is  *)
(* enqueued, only the row and the keys have to be looked at.               *)
LEMMA TickMovesOnTime ==
  ASSUME IInv, [Next]_vars, NEW P, NEW seg, NEW due, Timely(P, seg, due), Opened(P, seg)',
         NEW t \in Tick, NEW r \in TickState, TickTo(t, r), turn' = turn,
         OnTime(P, due, node, steps)', TickOnTime(P, due, r)', KeysOnTime(P, due)',
         r.pc = "enqueue" /\ r.node \in P /\ Type[r.node] = "action" => OneTurn(P, due, r.node)'
  PROVE  Timely(P, seg, due)'
<1>1. stepKeys \subseteq stepKeys'
  BY KeysGrow
<1>2. \A u \in Tick : tick'[u] = IF u = t THEN r ELSE tick[u]
  BY TickToOther
<1>3. ASSUME NEW u \in Tick PROVE TickOnTime(P, due, tick[u])'
  <2>1. PICK q : q = tick[u]
    OBVIOUS
  <2>2. TickOnTime(P, due, q)'
    BY <1>1, <2>1, TickOnTimeStays DEF Timely
  <2>3. tick'[u] = r \/ tick'[u] = q
    BY <1>2, <2>1
  <2> QED
    BY <2>2, <2>3 DEF TickOnTime, OnTime, Moves, Sends
<1>4. ASSUME NEW a \in P, Type[a] = "action" PROVE OneTurn(P, due, a)'
  <2>1. CASE r.pc = "enqueue" /\ r.node = a
    <3>1. PICK b \in P : b = r.node
      BY <2>1
    <3> QED
      BY <1>4, <2>1, <3>1
  <2>2. CASE ~(r.pc = "enqueue" /\ r.node = a)
    <3>1. Enqueuers(a)' \subseteq Enqueuers(a)
      BY <1>2, <2>2 DEF Enqueuers
    <3>2. TurnsOf(a)' = TurnsOf(a)
      BY DEF TurnsOf
    <3> QED
      BY <1>1, <1>4, <3>1, <3>2, OneTurnStays DEF Timely
  <2> QED
    BY <2>1, <2>2
<1>5. \A j \in DOMAIN turn' : Type[turn'[j].node] \in {"action", "classify"}
  BY DEF Timely
<1> QED
  BY <1>3, <1>4, <1>5 DEF Timely

LEMMA ClaimsOnTime ==
  ASSUME IInv, Skipless, [Next]_vars, NEW P, NEW seg, NEW off, Timetable(P, seg, off),
         NEW due \in Due(P), Timely(P, seg, due), NEW t \in Tick, TickClaims(t)
  PROVE  Timely(P, seg, due)'
<1>1. PICK r \in TickState : TickTo(t, r) /\ r.pc = "decide" /\ r.node = node /\ r.steps = steps
  BY DEF TickClaims
<1>2. UNCHANGED <<node, steps, stepKeys, turn>>
  BY DEF TickClaims
<1>3. OnTime(P, due, node, steps)'
  BY <1>2 DEF Timely, OnTime
<1>4. TickOnTime(P, due, r)'
  BY <1>1, <1>2 DEF Timely, TickOnTime, OnTime
<1>5. KeysOnTime(P, due)'
  BY <1>2 DEF Timely, KeysOnTime
<1>6. Opened(P, seg)'
  BY OpenedKeeps DEF Timely
<1> QED
  BY <1>1, <1>2, <1>3, <1>4, <1>5, <1>6, TickMovesOnTime

LEMMA DecidesOnTime ==
  ASSUME IInv, Skipless, [Next]_vars, NEW P, NEW seg, NEW off, Timetable(P, seg, off),
         NEW due \in Due(P), Timely(P, seg, due), NEW t \in Tick, TickDecides(t)
  PROVE  Timely(P, seg, due)'
<1>1. PICK r \in TickState :
        /\ TickTo(t, r) /\ r.node = tick[t].node /\ r.steps = tick[t].steps
        /\ \/ r.pc = "notify"
           \/ r.pc = "insert" /\ r.plan.status # "dead" /\ r.plan \in Plans(r.node, r.steps)
  BY DEF TickDecides, SamePlace
<1>2. UNCHANGED <<node, steps, stepKeys, turn>> /\ tick[t].pc = "decide"
  BY DEF TickDecides
<1>3. OnTime(P, due, node, steps)'
  BY <1>2 DEF Timely, OnTime
<1>4. OnTime(P, due, r.node, r.steps) /\ r.node \in Node
  BY <1>1, <1>2, TickTyped DEF Timely, TickOnTime
<1>5. r.pc = "insert" => Moves(P, due, r) /\ (r.plan.enqueue => Sends(P, due, r))
  BY <1>1, <1>4, PlansOnTime DEF Timely
<1>6. TickOnTime(P, due, r)'
  BY <1>1, <1>2, <1>4, <1>5 DEF TickOnTime, OnTime, Moves, Sends
<1>7. KeysOnTime(P, due)'
  BY <1>2 DEF Timely, KeysOnTime
<1>8. Opened(P, seg)'
  BY OpenedKeeps DEF Timely
<1> QED
  BY <1>1, <1>2, <1>3, <1>6, <1>7, <1>8, TickMovesOnTime

LEMMA InsertsOnTime ==
  ASSUME IInv, Skipless, [Next]_vars, NEW P, NEW seg, NEW off, Timetable(P, seg, off),
         NEW due \in Due(P), Timely(P, seg, due), NEW t \in Tick, TickInserts(t)
  PROVE  Timely(P, seg, due)'
<1>1. PICK r \in TickState :
        /\ TickTo(t, r) /\ SamePlace(tick[t], r) /\ r.plan = tick[t].plan
        /\ stepKeys' = stepKeys \cup {<<r.node, r.steps>>}
        /\ \/ r.pc = "enqueue" /\ r.plan.enqueue /\ <<r.node, r.steps>> \notin stepKeys
           \/ r.pc = "update"
  BY DEF TickInserts
<1>2. UNCHANGED <<node, steps, turn>> /\ tick[t].pc = "insert"
  BY DEF TickInserts
<1>3. r.node = tick[t].node /\ r.steps = tick[t].steps /\ r.node \in Node /\ r.steps \in Nat
  BY <1>1, <1>2, TickTyped DEF SamePlace, TickState
<1>4. OnTime(P, due, node, steps)'
  BY <1>1, <1>2 DEF Timely, OnTime
<1>5. /\ OnTime(P, due, r.node, r.steps)
      /\ Moves(P, due, r) /\ (r.plan.enqueue => Sends(P, due, r))
  BY <1>1, <1>2, <1>3 DEF Timely, TickOnTime, Moves, Sends
<1>6. TickOnTime(P, due, r)'
  <2>1. OnTime(P, due, r.node, r.steps)'
    BY <1>1, <1>5, OnTimeStays
  <2> QED
    BY <1>1, <1>5, <2>1 DEF TickOnTime, Moves, Sends
<1>7. KeysOnTime(P, due)'
  <2>1. r.node \in P /\ Type[r.node] = "wait" => r.steps \in {due[r.node], due[r.node] + 1}
    BY <1>5 DEF OnTime
  <2> QED
    BY <1>1, <2>1 DEF Timely, KeysOnTime
<1>8. Opened(P, seg)'
  BY OpenedKeeps DEF Timely
<1>9. ASSUME r.pc = "enqueue", r.node \in P, Type[r.node] = "action"
      PROVE  OneTurn(P, due, r.node)'
  <2>1. r.steps = due[r.node] /\ <<r.node, due[r.node]>> \notin stepKeys
    BY <1>1, <1>5, <1>9 DEF Sends
  <2>2. Enqueuers(r.node) = {} /\ TurnsOf(r.node) = {}
    BY <1>9, <2>1 DEF Timely, OneTurn
  <2>3. TurnsOf(r.node)' = {}
    BY <1>2, <2>2 DEF TurnsOf
  <2>4. \A u \in Tick : tick'[u] = IF u = t THEN r ELSE tick[u]
    BY <1>1, TickToOther
  <2>5. Enqueuers(r.node)' \subseteq {t}
    BY <2>2, <2>4 DEF Enqueuers
  <2>6. <<r.node, due[r.node]>> \in stepKeys'
    BY <1>1, <2>1
  <2> QED
    BY <2>3, <2>5, <2>6 DEF OneTurn
<1> QED
  BY <1>1, <1>2, <1>4, <1>6, <1>7, <1>8, <1>9, TickMovesOnTime

LEMMA UpdatesOnTime ==
  ASSUME IInv, Skipless, [Next]_vars, NEW P, NEW seg, NEW off, Timetable(P, seg, off),
         NEW due \in Due(P), Timely(P, seg, due), NEW t \in Tick, TickUpdates(t)
  PROVE  Timely(P, seg, due)'
<1>1. PICK r \in TickState : TickTo(t, r) /\ r.pc = "idle"
  BY DEF TickUpdates
<1>2. /\ UNCHANGED <<stepKeys, turn>> /\ tick[t].pc = "update"
      /\ node' = tick[t].plan.to /\ steps' = tick[t].steps + 1
  BY DEF TickUpdates
<1>3. /\ Moves(P, due, tick[t]) /\ <<tick[t].node, tick[t].steps>> \in stepKeys
      /\ tick[t].steps \in Nat /\ tick[t].node \in Node
  BY <1>2, TickTyped DEF Timely, TickOnTime, TickState
<1>4. OnTime(P, due, node', steps')
  <2>1. CASE node' \notin P
    BY <2>1 DEF OnTime
  <2>2. CASE /\ node' = tick[t].node /\ Type[tick[t].node] \in {"wait", "action", "classify", "end"}
             /\ Type[tick[t].node] = "wait" => tick[t].steps = due[tick[t].node]
    <3>1. steps' - 1 = tick[t].steps
      BY <1>2, <1>3
    <3> QED
      BY <1>2, <1>3, <2>2, <3>1 DEF OnTime
  <2>3. CASE node' \in P /\ due[node'] = steps'
    BY <2>3 DEF OnTime
  <2> QED
    BY <1>2, <1>3, <2>1, <2>2, <2>3 DEF Moves
<1>5. OnTime(P, due, node, steps)'
  BY <1>2, <1>4 DEF OnTime
<1>6. TickOnTime(P, due, r)'
  BY <1>1 DEF TickOnTime
<1>7. KeysOnTime(P, due)'
  BY <1>2 DEF Timely, KeysOnTime
<1>8. Opened(P, seg)'
  BY OpenedKeeps DEF Timely
<1> QED
  BY <1>1, <1>2, <1>5, <1>6, <1>7, <1>8, TickMovesOnTime

LEMMA LeavesOnTime ==
  ASSUME IInv, Skipless, [Next]_vars, NEW P, NEW seg, NEW off, Timetable(P, seg, off),
         NEW due \in Due(P), Timely(P, seg, due), NEW t \in Tick, TickLeaves(t)
  PROVE  Timely(P, seg, due)'
<1>1. PICK r \in TickState :
        /\ TickTo(t, r)
        /\ \/ r.pc = "idle"
           \/ /\ r.pc \in {"backoff", "notify", "die"} /\ tick[t].pc # "idle"
              /\ r.node = tick[t].node /\ r.steps = tick[t].steps
  BY DEF TickLeaves, SamePlace
<1>2. UNCHANGED <<node, steps, stepKeys, turn>>
  BY DEF TickLeaves
<1>3. OnTime(P, due, node, steps)'
  BY <1>2 DEF Timely, OnTime
<1>4. TickOnTime(P, due, r)'
  BY <1>1, <1>2 DEF Timely, TickOnTime, OnTime
<1>5. KeysOnTime(P, due)'
  BY <1>2 DEF Timely, KeysOnTime
<1>6. Opened(P, seg)'
  BY OpenedKeeps DEF Timely
<1>7. r.pc # "enqueue"
  BY <1>1
<1> QED
  BY <1>1, <1>2, <1>3, <1>4, <1>5, <1>6, <1>7, TickMovesOnTime

LEMMA EnqueuesOnTime ==
  ASSUME IInv, Skipless, [Next]_vars, NEW P, NEW seg, NEW off, Timetable(P, seg, off),
         NEW due \in Due(P), Timely(P, seg, due), NEW t \in Tick, TickEnqueues(t)
  PROVE  Timely(P, seg, due)'
<1>1. PICK r \in TickState :
        /\ TickTo(t, r) /\ r.node = tick[t].node /\ r.steps = tick[t].steps
        /\ r.plan = tick[t].plan /\ r.pc = "update"
  BY DEF TickEnqueues, SamePlace
<1>2. PICK q \in TurnState : q.node = tick[t].node /\ q.pc = "queued" /\ turn' = Append(turn, q)
  BY DEF TickEnqueues
<1>3. UNCHANGED <<node, steps, stepKeys>> /\ tick[t].pc = "enqueue"
  BY DEF TickEnqueues
<1>4. PICK k : /\ k \notin DOMAIN turn /\ DOMAIN turn' = DOMAIN turn \cup {k}
               /\ turn'[k] = q /\ \A i \in DOMAIN turn : turn'[i] = turn[i]
  BY <1>2, TurnsAppended
<1>5. \A u \in Tick : tick'[u] = IF u = t THEN r ELSE tick[u]
  BY <1>1, TickToOther
<1>6. TickOnTime(P, due, tick[t]) /\ Type[tick[t].node] \in {"action", "classify"}
  BY <1>3 DEF Timely, TickOnTime, Sends
<1>7. OnTime(P, due, node, steps)' /\ KeysOnTime(P, due)'
  BY <1>3 DEF Timely, OnTime, KeysOnTime
<1>8. ASSUME NEW u \in Tick PROVE TickOnTime(P, due, tick[u])'
  <2>1. TickOnTime(P, due, tick[u])
    BY DEF Timely
  <2>2. CASE u # t
    <3>1. tick'[u] = tick[u]
      BY <1>5, <2>2
    <3> QED
      BY <1>3, <2>1, <3>1 DEF TickOnTime, OnTime, Moves, Sends
  <2>3. CASE u = t
    <3>1. /\ tick'[u].node = tick[u].node /\ tick'[u].steps = tick[u].steps
          /\ tick'[u].plan = tick[u].plan /\ tick'[u].pc = "update" /\ tick[u].pc = "enqueue"
      BY <1>1, <1>3, <1>5, <2>3
    <3> QED
      BY <1>3, <2>1, <3>1 DEF TickOnTime, OnTime, Moves, Sends
  <2> QED
    BY <2>2, <2>3
<1>9. ASSUME NEW a \in P, Type[a] = "action" PROVE OneTurn(P, due, a)'
  <2>0. OneTurn(P, due, a)
    BY <1>9 DEF Timely
  <2>1. CASE tick[t].node = a
    <3>1. t \in Enqueuers(a) /\ TurnsOf(a) = {} /\ Enqueuers(a) = {t}
      BY <1>3, <2>0, <2>1 DEF Enqueuers, OneTurn
    <3>2. Enqueuers(a)' = {}
      BY <1>1, <1>5, <3>1 DEF Enqueuers
    <3>3. TurnsOf(a)' = {k}
      BY <1>2, <1>4, <2>1, <3>1 DEF TurnsOf
    <3> QED
      BY <1>3, <2>0, <3>1, <3>2, <3>3 DEF OneTurn
  <2>2. CASE tick[t].node # a
    <3>1. Enqueuers(a)' \subseteq Enqueuers(a)
      BY <1>1, <1>5 DEF Enqueuers
    <3>2. TurnsOf(a)' = TurnsOf(a)
      BY <1>2, <1>4, <2>2 DEF TurnsOf
    <3> QED
      BY <1>3, <2>0, <3>1, <3>2, OneTurnStays
  <2> QED
    BY <2>1, <2>2
<1>10. \A j \in DOMAIN turn' : Type[turn'[j].node] \in {"action", "classify"}
  BY <1>2, <1>4, <1>6 DEF Timely
<1>11. Opened(P, seg)'
  BY OpenedKeeps DEF Timely
<1> QED
  BY <1>7, <1>8, <1>9, <1>10, <1>11 DEF Timely

(* A step of a turn that leaves the row where it is on time. *)
LEMMA TurnMovesOnTime ==
  ASSUME IInv, Skipless, [Next]_vars, NEW P, NEW seg, NEW off, Timetable(P, seg, off),
         NEW due \in Due(P), Timely(P, seg, due),
         NEW j \in DOMAIN turn, TurnGoes(j) \/ TurnLeads(j), OnTime(P, due, node', steps')
  PROVE  Timely(P, seg, due)'
<1>1. PICK r \in TurnState : turn' = [turn EXCEPT ![j] = r] /\ r.node = turn[j].node
  BY DEF TurnGoes, TurnLeads
<1>2. DOMAIN turn' = DOMAIN turn /\ \A i \in DOMAIN turn : turn'[i].node = turn[i].node
  BY <1>1, TurnChanged
<1>3. tick' = tick /\ stepKeys \subseteq stepKeys'
  BY DEF TurnGoes, TurnLeads
<1>4. OnTime(P, due, node, steps)'
  BY <1>3 DEF OnTime
<1>5. ASSUME NEW t \in Tick PROVE TickOnTime(P, due, tick[t])'
  <2>1. PICK q : q = tick[t]
    OBVIOUS
  <2>2. TickOnTime(P, due, q)'
    BY <1>3, <2>1, TickOnTimeStays DEF Timely
  <2> QED
    BY <1>3, <2>1, <2>2 DEF TickOnTime, OnTime, Moves, Sends
<1>6. KeysOnTime(P, due)'
  <2>1. Type[turn[j].node] # "wait"
    BY DEF Timely
  <2> QED
    BY <2>1 DEF Timely, KeysOnTime, TurnGoes, TurnLeads
<1>7. ASSUME NEW a \in P, Type[a] = "action" PROVE OneTurn(P, due, a)'
  <2>1. Enqueuers(a)' = Enqueuers(a) /\ TurnsOf(a)' = TurnsOf(a)
    BY <1>2, <1>3 DEF Enqueuers, TurnsOf
  <2> QED
    BY <1>3, <1>7, <2>1, OneTurnStays DEF Timely
<1>8. \A i \in DOMAIN turn' : Type[turn'[i].node] \in {"action", "classify"}
  BY <1>2 DEF Timely
<1>9. Opened(P, seg)'
  BY OpenedKeeps DEF Timely
<1> QED
  BY <1>4, <1>5, <1>6, <1>7, <1>8, <1>9 DEF Timely

(* What is due matters only where the enrollment is or has been. *)
LEMMA Rebase ==
  ASSUME IInv, NEW P, NEW seg, NEW due \in Due(P), NEW due2 \in Due(P), Timely(P, seg, due),
         \A n \in P : Here(n) \/ Keyed(n) => due2[n] = due[n]
  PROVE  Timely(P, seg, due2)
<1>1. OnTime(P, due2, node, steps)
  BY DEF Timely, OnTime, Here
<1>2. ASSUME NEW t \in Tick PROVE TickOnTime(P, due2, tick[t])
  <2>1. TickOnTime(P, due, tick[t])
    BY DEF Timely
  <2>2. tick[t].pc # "idle" => (tick[t].node \in P => due2[tick[t].node] = due[tick[t].node])
    BY DEF Here
  <2>3. tick[t].pc \in {"insert", "enqueue", "update"} =>
          (tick[t].plan.to \in P => due2[tick[t].plan.to] = due[tick[t].plan.to])
    BY DEF Here
  <2> QED
    BY <2>1, <2>2, <2>3 DEF TickOnTime, OnTime, Moves, Sends
<1>3. KeysOnTime(P, due2)
  BY DEF Timely, KeysOnTime, Keyed
<1>4. ASSUME NEW a \in P, Type[a] = "action" PROVE OneTurn(P, due2, a)
  <2>1. OneTurn(P, due, a)
    BY <1>4 DEF Timely
  <2>2. Enqueuers(a) # {} \/ TurnsOf(a) # {} => Here(a)
    BY DEF Enqueuers, TurnsOf, Here
  <2> QED
    BY <2>1, <2>2 DEF OneTurn
<1> QED
  BY <1>1, <1>2, <1>3, <1>4 DEF Timely

(* When the turn of an action leads on, the nodes after it are due anew:   *)
(* the enrollment has not been at any of them.                             *)
LEMMA LeadsOnTime ==
  ASSUME IInv, Skipless, [Next]_vars, NEW P, NEW seg, NEW off, Timetable(P, seg, off),
         NEW due \in Due(P), Timely(P, seg, due), NEW j \in DOMAIN turn, TurnLeads(j)
  PROVE  \E due2 \in Due(P) : Timely(P, seg, due2)'
<1>1. PICK x \in Node, k \in Nat : x = turn[j].node /\ k = turn[j].steps + 1
  BY TurnTyped DEF TurnState
<1>2. turn[j].pc = "update" /\ node' \in Out[x] /\ steps' = k
  BY <1>1 DEF TurnLeads
<1>3. Type[x] \in {"action", "classify"}
  BY <1>1 DEF Timely
<1>4. CASE ~(x \in P /\ Type[x] = "action")
  <2>1. node' \notin P
    BY <1>2, <1>3, <1>4 DEF Timetable
  <2> QED
    BY <2>1, TurnMovesOnTime DEF OnTime
<1>5. CASE x \in P /\ Type[x] = "action"
  <2> DEFINE due2 == [n \in P |-> IF seg[n] = x THEN k + off[n] ELSE due[n]]
  <2>1. seg \in [P -> P] /\ off \in [P -> Nat] /\ due \in [P -> Nat]
    BY DEF Timetable, Due
  <2>2. due2 \in [P -> Nat]
    BY <2>1
  <2>3. ASSUME NEW n \in P, NEW m \in P, m \in Out[n]
        PROVE  /\ Type[n] \in {"trigger", "condition"} => due2[m] = due2[n] + 1
               /\ Type[n] = "wait" => due2[m] = due2[n] + 2
    <3>1. P \subseteq Node
      BY DEF Timetable
    <3>2. /\ Type[n] \in {"trigger", "condition"} =>
               seg[m] = seg[n] /\ off[m] = off[n] + 1 /\ due[m] = due[n] + 1
          /\ Type[n] = "wait" => seg[m] = seg[n] /\ off[m] = off[n] + 2 /\ due[m] = due[n] + 2
      BY <2>3, <3>1 DEF Timetable, Due
    <3>3. off[n] \in Nat /\ due[n] \in Nat
      BY <2>1
    <3> QED
      BY <3>2, <3>3
  <2>4. due2 \in Due(P)
    BY <2>2, <2>3 DEF Due
  <2>5. ~Open(x)
    <3>1. j \in TurnsOf(x) /\ turn[j].pc # "done"
      BY <1>1, <1>2 DEF TurnsOf
    <3>2. \A i \in TurnsOf(x) : i = j
      BY <1>5, <3>1 DEF Timely, OneTurn
    <3> QED
      BY <1>5, <3>1, <3>2 DEF Open
  <2>6. \A n \in P : Here(n) \/ Keyed(n) => due2[n] = due[n]
    BY <2>5 DEF Timely, Opened
  <2>7. OnTime(P, due2, node', steps')
    <3>1. node' \in P => seg[node'] = x /\ off[node'] = 0
      BY <1>2, <1>5 DEF Timetable
    <3>2. node' \in P => due2[node'] = k
      BY <3>1
    <3> HIDE DEF due2
    <3> QED
      BY <1>2, <3>2 DEF OnTime
  <2> HIDE DEF due2
  <2>8. Timely(P, seg, due2)
    BY <2>4, <2>6, Rebase
  <2>9. Timely(P, seg, due2)'
    BY <2>4, <2>7, <2>8, TurnMovesOnTime
  <2> QED
    BY <2>4, <2>9
<1> QED
  BY <1>4, <1>5

TimelyFlow(P, seg) == \E due \in Due(P) : Timely(P, seg, due)

LEMMA TimelyInit ==
  ASSUME NEW P, NEW seg, NEW off, Timetable(P, seg, off)
  PROVE  Init => TimelyFlow(P, seg)
<1> SUFFICES ASSUME Init PROVE TimelyFlow(P, seg)
  OBVIOUS
<1> DEFINE due == off
<1>1. due \in Due(P)
  <2>1. off \in [P -> Nat] /\ P \subseteq Node
    BY DEF Timetable
  <2> QED
    BY <2>1 DEF Timetable, Due
<1>2. /\ node = Trigger /\ steps = 0 /\ stepKeys = {} /\ DOMAIN turn = {}
      /\ \A t \in Tick : tick[t] = IdleTick
  BY DEF Init
<1>3. IdleTick.pc = "idle"
  BY IdleTickSound
<1>4. /\ Trigger \in P /\ Type[Trigger] = "trigger" /\ seg[Trigger] = Trigger
      /\ due[Trigger] = 0
  BY DEF Timetable
<1> HIDE DEF due
<1>5. Opened(P, seg)
  BY <1>2, <1>3, <1>4 DEF Opened, Here, Keyed, Open
<1>6. OnTime(P, due, node, steps)
  BY <1>2, <1>4 DEF OnTime
<1>7. \A t \in Tick : TickOnTime(P, due, tick[t])
  BY <1>2, <1>3 DEF TickOnTime
<1>8. KeysOnTime(P, due)
  BY <1>2 DEF KeysOnTime
<1>9. \A a : OneTurn(P, due, a)
  BY <1>2, <1>3 DEF OneTurn, Enqueuers, TurnsOf
<1> QED
  BY <1>1, <1>2, <1>5, <1>6, <1>7, <1>8, <1>9 DEF Timely, TimelyFlow

LEMMA TimelyKeeps ==
  ASSUME IInv, Skipless, [Next]_vars, NEW P, NEW seg, NEW off, Timetable(P, seg, off),
         TimelyFlow(P, seg)
  PROVE  TimelyFlow(P, seg)'
<1>1. PICK due \in Due(P) : Timely(P, seg, due)
  BY DEF TimelyFlow
<1>2. CASE UNCHANGED flow
  <2>1. Timely(P, seg, due)'
    <3>1. Opened(P, seg)'
      BY <1>1, OpenedKeeps DEF Timely
    <3> QED
      BY <1>1, <1>2, <3>1
      DEF flow, Timely, OnTime, TickOnTime, Moves, Sends, KeysOnTime, OneTurn, Enqueuers, TurnsOf
  <2> QED
    BY <2>1 DEF TimelyFlow
<1>3. ASSUME NEW t \in Tick,
             \/ TickClaims(t) \/ TickDecides(t) \/ TickInserts(t)
             \/ TickEnqueues(t) \/ TickUpdates(t) \/ TickLeaves(t)
      PROVE  TimelyFlow(P, seg)'
  BY <1>1, <1>3, ClaimsOnTime, DecidesOnTime, InsertsOnTime, EnqueuesOnTime, UpdatesOnTime,
     LeavesOnTime DEF TimelyFlow
<1>4. ASSUME NEW j \in DOMAIN turn, TurnGoes(j) PROVE TimelyFlow(P, seg)'
  <2>1. OnTime(P, due, node', steps')
    BY <1>1, <1>4 DEF Timely, TurnGoes
  <2> QED
    BY <1>1, <1>4, <2>1, TurnMovesOnTime DEF TimelyFlow
<1>5. ASSUME NEW j \in DOMAIN turn, TurnLeads(j) PROVE TimelyFlow(P, seg)'
  BY <1>1, <1>5, LeadsOnTime DEF TimelyFlow
<1> QED
  BY <1>2, <1>3, <1>4, <1>5, FlowSteps

(* An action that every path reaches after the same number of steps, with  *)
(* no classification before it, sends one message: rechecks, replays, late *)
(* ticks and turns and resumed handoffs never enqueue a second turn.       *)
THEOREM TimetableSendsOnce ==
  ASSUME NEW P, NEW seg, NEW off, Timetable(P, seg, off)
  PROVE  Spec => [](\A a \in P : Type[a] = "action" => Cardinality(TurnsOf(a)) <= 1)
<1> DEFINE Once == \A a \in P : Type[a] = "action" => Cardinality(TurnsOf(a)) <= 1
<1>1. Init => TimelyFlow(P, seg)
  BY TimelyInit
<1>2. IInv /\ Skipless /\ TimelyFlow(P, seg) /\ [Next]_vars => TimelyFlow(P, seg)'
  BY TimelyKeeps
<1>3. TimelyFlow(P, seg) => Once
  <2> SUFFICES ASSUME TimelyFlow(P, seg), NEW a \in P, Type[a] = "action"
               PROVE  Cardinality(TurnsOf(a)) <= 1
    OBVIOUS
  <2>1. \A i, j \in TurnsOf(a) : i = j
    BY DEF TimelyFlow, Timely, OneTurn
  <2>2. CASE TurnsOf(a) = {}
    BY <2>2, FS_EmptySet
  <2>3. ASSUME NEW i \in TurnsOf(a) PROVE Cardinality(TurnsOf(a)) <= 1
    <3>1. TurnsOf(a) = {i}
      BY <2>1
    <3> QED
      BY <3>1, FS_Singleton
  <2> QED
    BY <2>2, <2>3
<1> HIDE DEF Once
<1>4. Spec => []Once
  BY <1>1, <1>2, <1>3, Invariance, AlwaysSkipless, PTL DEF Spec
<1> QED
  BY <1>4 DEF Once

(* So "EXACTLY ONCE per occupancy" holds of a whole flow whose actions all *)
(* have their place in a timetable, whatever comes after them.             *)
THEOREM OneTurnForEveryAction ==
  ASSUME NEW P, NEW seg, NEW off, Timetable(P, seg, off),
         \A a \in Node : Type[a] = "action" => a \in P
  PROVE  Spec => []OneTurnPerAction
<1> DEFINE Once == \A a \in P : Type[a] = "action" => Cardinality(TurnsOf(a)) <= 1
<1>1. Once => OneTurnPerAction
  BY DEF OneTurnPerAction
<1>2. Spec => []Once
  BY TimetableSendsOnce
<1> HIDE DEF Once
<1> QED
  BY <1>1, <1>2, PTL
=============================================================================
