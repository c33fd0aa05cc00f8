--------------------------- MODULE FollowupProofs ---------------------------
(***************************************************************************)
(* Proofs about Followup: its row is well typed and keeps the check        *)
(* constraint of the table, and no enrollment dies in silence, for every   *)
(* flow and any number of ticks, turns, drains, signals and faults.        *)
(***************************************************************************)
EXTENDS Followup, SequenceTheorems, TLAPS

RowStatus == Live \cup Terminal
Clock == {"null", "later", "now"}
Act == {"cancel", "pause", "resume", "wake"}
Plan == [to : Node \cup {None}, status : RowStatus \cup {None}, eval : Clock,
         enqueue : BOOLEAN]
TickState == [pc : {"idle", "decide", "insert", "enqueue", "update",
                    "backoff", "notify", "die"},
              node : Node \cup {None}, steps : Nat, attempts : Nat,
              failing : BOOLEAN, plan : Plan]
TurnState == [node : Node, pc : {"queued", "report", "insert", "update", "done", "dead"},
              steps : Nat, worked : BOOLEAN]
SignalState == [kind : {"inbound", "opened", "resolved"},
                status : {"pending", "retry", "processing", "done"}]
DrainState == [pc : {"idle", "load", "insert", "update"}, signal : Nat \cup {None},
               sawBlocked : BOOLEAN, act : Act \cup {None},
               node : Node \cup {None}, steps : Nat]

(* A plan that is written to the row: it names a node, it never kills, and *)
(* it has a clock unless it completes the enrollment.                      *)
Writable == {p \in Plan : /\ p.to \in Node
                          /\ p.status \in {"active", "waiting_reply", "completed"}
                          /\ p.status # "completed" => p.eval # "null"}
DeadPlan == {p \in Plan : p.status = "dead"}

RowOK ==
  /\ status \in RowStatus /\ node \in Node /\ steps \in Nat /\ attempts \in Nat
  /\ eval \in Clock /\ leased \in BOOLEAN
  /\ status \in {"active", "waiting_reply"} => eval # "null"
KeysOK ==
  /\ stepKeys \in SUBSET (Node \X Nat) /\ wakeKeys \in SUBSET (Node \X Nat)
  /\ marks \in SUBSET ((DOMAIN signal) \X {"cancel", "pause", "resume"} \X Node)
  /\ notices \in Nat
TicksOK ==
  /\ tick \in [Tick -> TickState]
  /\ \A t \in Tick :
       /\ tick[t].pc # "idle" => tick[t].node \in Node
       /\ tick[t].pc \in {"insert", "enqueue", "update"} => tick[t].plan \in Writable
TurnsOK == turn \in Seq(TurnState)
SignalsOK == signal \in Seq(SignalState)
DrainsOK ==
  /\ drain \in [Drain -> DrainState]
  /\ \A d \in Drain :
       /\ drain[d].pc # "idle" => drain[d].signal \in DOMAIN signal
       /\ drain[d].pc \in {"insert", "update"} => drain[d].act \in Act /\ drain[d].node \in Node
WorldOK ==
  /\ blocked \in BOOLEAN /\ handoff \in BOOLEAN
  /\ manager \in {"away", "checked", "done"} /\ faults \in 0..MaxFaults

Types == RowOK /\ KeysOK /\ TicksOK /\ TurnsOK /\ SignalsOK /\ DrainsOK /\ WorldOK

(* The notice comes first: a tick about to kill has written it. *)
Announced ==
  /\ status = "dead" => notices > 0
  /\ \A t \in Tick : tick[t].pc = "die" => notices > 0

IInv == Types /\ Announced

-----------------------------------------------------------------------------
(* Every plan of processNode for a node of the flow may be written, but    *)
(* for the one that gives up.                                              *)
LEMMA PlansAreWritable ==
  ASSUME NEW n \in Node, NEW k \in Nat, NEW p \in Plans(n, k)
  PROVE  p \in Writable \/ p = Dead
<1> USE DEF Stay, Advance, Enqueue, Complete, Dead, NoPlan, Writable, Plan, RowStatus,
            Live, Terminal, Clock
<1>0. Out \in [Node -> SUBSET Node] /\ NoReply \in [Node -> Node]
  BY GraphAssumption
<1>1. \A m \in Node : Advance(m) \in Writable
  OBVIOUS
<1>2. Stay(n, "active", "later") \in Writable
  OBVIOUS
<1>3. Enqueue(n, "waiting_reply") \in Writable /\ Enqueue(n, "active") \in Writable
  OBVIOUS
<1>4. Complete(n) \in Writable
  OBVIOUS
<1>5. Type[n] \in {"trigger", "wait", "condition", "classify", "action", "end"}
  BY GraphAssumption
<1>6. Out[n] \subseteq Node /\ NoReply[n] \in Node
  BY <1>0
<1> HIDE DEF Stay, Advance, Enqueue, Complete, Dead, NoPlan, Writable
<1>7. QED
  BY <1>1, <1>2, <1>3, <1>4, <1>5, <1>6 DEF Plans

USE BoundAssumption

LEMMA InitIInv == Init => IInv
<1> SUFFICES ASSUME Init PROVE IInv
  OBVIOUS
<1> USE DEF Init
<1>1. RowOK
  BY GraphAssumption DEF RowOK, RowStatus, Live, Clock
<1>5. KeysOK
  <2>1. stepKeys = {} /\ wakeKeys = {} /\ marks = {} /\ notices = 0
    OBVIOUS
  <2> QED
    BY <2>1 DEF KeysOK
<1>6. TurnsOK /\ SignalsOK
  BY EmptySeq DEF TurnsOK, SignalsOK
<1>7. WorldOK
  <2>1. blocked \in BOOLEAN /\ handoff \in BOOLEAN /\ manager \in {"away", "checked", "done"}
    OBVIOUS
  <2>2. faults \in 0..MaxFaults
    OBVIOUS
  <2> QED
    BY <2>1, <2>2 DEF WorldOK
<1>2. TicksOK
  BY DEF TicksOK, TickState, IdleTick, NoPlan, Plan, Clock
<1>3. DrainsOK
  BY DEF DrainsOK, DrainState, IdleDrain
<1>4. Announced
  BY DEF Announced, IdleTick
<1> QED
  BY <1>1, <1>2, <1>3, <1>4, <1>5, <1>6, <1>7 DEF IInv, Types

LEMMA IInvImplies == IInv => TypeOK /\ DeadIsAnnounced
<1> SUFFICES ASSUME IInv PROVE TypeOK /\ DeadIsAnnounced
  OBVIOUS
<1> USE DEF IInv, Types
<1>1. \A t \in Tick : tick[t].pc \in {"idle", "decide", "insert", "enqueue", "update",
                                     "backoff", "notify", "die"}
  BY DEF TicksOK, TickState
<1>2. \A j \in DOMAIN turn :
        turn[j].pc \in {"queued", "report", "insert", "update", "done", "dead"}
  <2>1. turn \in [1..Len(turn) -> TurnState]
    BY LenProperties DEF TurnsOK
  <2> QED
    BY <2>1 DEF TurnState
<1>3. \A s \in DOMAIN signal :
        signal[s].status \in {"pending", "retry", "processing", "done"}
  <2>1. signal \in [1..Len(signal) -> SignalState]
    BY LenProperties DEF SignalsOK
  <2> QED
    BY <2>1 DEF SignalState
<1>4. \A d \in Drain : drain[d].pc \in {"idle", "load", "insert", "update"}
  BY DEF DrainsOK, DrainState
<1>5. RowOK /\ KeysOK /\ WorldOK
  OBVIOUS
<1>6. TypeOK
  BY <1>1, <1>2, <1>3, <1>4, <1>5 DEF TypeOK, RowOK, KeysOK, WorldOK, RowStatus, Clock
<1> QED
  BY <1>6 DEF Announced, DeadIsAnnounced

-----------------------------------------------------------------------------
(* A tick may move to any sound state, as long as it does not come to kill *)
(* without a notice.                                                       *)
LEMMA TickMoves ==
  ASSUME TicksOK, Announced, notices \in Nat, notices' \in Nat, notices' >= notices,
         NEW t \in Tick, NEW r \in TickState,
         r.pc # "idle" => r.node \in Node,
         r.pc \in {"insert", "enqueue", "update"} => r.plan \in Writable,
         r.pc = "die" => notices' > 0,
         tick' = [tick EXCEPT ![t] = r]
  PROVE  /\ TicksOK'
         /\ \A u \in Tick : tick'[u].pc = "die" => notices' > 0
<1>1. tick' \in [Tick -> TickState]
  BY DEF TicksOK
<1>2. \A u \in Tick : tick'[u] = IF u = t THEN r ELSE tick[u]
  BY DEF TicksOK
<1>3. ASSUME NEW u \in Tick
      PROVE  /\ tick'[u].pc # "idle" => tick'[u].node \in Node
             /\ tick'[u].pc \in {"insert", "enqueue", "update"} => tick'[u].plan \in Writable
             /\ tick'[u].pc = "die" => notices' > 0
  <2>1. CASE u = t
    BY <2>1, <1>2
  <2>2. CASE u # t
    <3>1. tick'[u] = tick[u]
      BY <2>2, <1>2
    <3> QED
      BY <3>1 DEF TicksOK, Announced
  <2> QED
    BY <2>1, <2>2
<1>4. Node' = Node /\ Writable' = Writable /\ TickState' = TickState
  OBVIOUS
<1> QED
  BY <1>1, <1>3, <1>4 DEF TicksOK

LEMMA IdleTickSound == IdleTick \in TickState /\ IdleTick.pc = "idle"
  BY DEF IdleTick, TickState, NoPlan, Plan, Clock

LEMMA TickRests ==
  ASSUME TicksOK, Announced, notices \in Nat, notices' = notices, NEW t \in Tick, EndTick(t)
  PROVE  TicksOK' /\ \A u \in Tick : tick'[u].pc = "die" => notices' > 0
<1>1. tick' = [tick EXCEPT ![t] = IdleTick]
  BY DEF EndTick
<1>2. notices' \in Nat /\ notices' >= notices
  OBVIOUS
<1> QED
  BY <1>1, <1>2, IdleTickSound, TickMoves

LEMMA TickGoes ==
  ASSUME TicksOK, Announced, notices \in Nat, notices' \in Nat, notices' >= notices,
         NEW t \in Tick, NEW q \in {"enqueue", "update", "die"},
         tick[t].pc # "idle",
         q \in {"enqueue", "update"} => tick[t].pc \in {"insert", "enqueue"},
         q = "die" => notices' > 0,
         Goto(t, q)
  PROVE  TicksOK' /\ \A u \in Tick : tick'[u].pc = "die" => notices' > 0
<1> DEFINE r == [tick[t] EXCEPT !.pc = q]
<1>1. tick' = [tick EXCEPT ![t] = r]
  BY DEF Goto
<1>2. tick[t] \in TickState
  BY DEF TicksOK
<1>3. r \in TickState /\ r.pc = q /\ r.node = tick[t].node /\ r.plan = tick[t].plan
  BY <1>2 DEF TickState
<1>4. r.node \in Node /\ (q \in {"enqueue", "update"} => r.plan \in Writable)
  BY <1>3 DEF TicksOK
<1> HIDE DEF r
<1> QED
  BY <1>1, <1>3, <1>4, TickMoves

-----------------------------------------------------------------------------
(* The steps of a tick. *)

LEMMA ClaimKeeps == ASSUME IInv, NEW t \in Tick, Claim(t) PROVE IInv'
<1> USE DEF IInv, Types
<1> DEFINE r == [IdleTick EXCEPT !.pc = "decide", !.node = node, !.steps = steps,
                                 !.attempts = attempts]
<1>1. tick' = [tick EXCEPT ![t] = r]
  BY DEF Claim
<1>2. r \in TickState /\ r.pc = "decide" /\ r.node = node
  BY DEF RowOK, IdleTick, TickState, NoPlan, Plan, Clock
<1>3. notices' = notices /\ notices \in Nat /\ notices' >= notices /\ node \in Node
  BY DEF Claim, keyVars, KeysOK, RowOK
<1> HIDE DEF r
<1>4. TicksOK' /\ \A u \in Tick : tick'[u].pc = "die" => notices' > 0
  BY <1>1, <1>2, <1>3, TickMoves
<1>5. RowOK'
  BY DEF Claim, RowOK
<1>6. KeysOK' /\ TurnsOK' /\ SignalsOK' /\ DrainsOK' /\ WorldOK'
  BY DEF Claim, keyVars, worldVars, KeysOK, TurnsOK, SignalsOK, DrainsOK, WorldOK
<1>7. status' = "dead" => notices' > 0
  BY <1>3 DEF Claim, Announced
<1> QED
  BY <1>4, <1>5, <1>6, <1>7 DEF Announced

LEMMA DecideKeeps == ASSUME IInv, NEW t \in Tick, Decide(t) PROVE IInv'
<1> USE DEF IInv, Types
<1>1. PICK p \in IF tick[t].steps > MaxSteps THEN {Dead}
                                             ELSE Plans(tick[t].node, tick[t].steps) :
        tick' = [tick EXCEPT ![t].plan = p,
                             ![t].pc = IF p.status = "dead" THEN "notify" ELSE "insert"]
  BY DEF Decide
<1>2. tick[t] \in TickState /\ tick[t].node \in Node /\ tick[t].steps \in Nat
  BY DEF Decide, TicksOK, TickState
<1>3. p \in Writable \/ p = Dead
  BY <1>1, <1>2, PlansAreWritable
<1>4. Dead \in Plan /\ Dead.status = "dead"
  BY DEF Dead, NoPlan, Plan, RowStatus, Terminal, Clock
<1>5. p \in Plan /\ (p.status # "dead" => p \in Writable)
  BY <1>3, <1>4 DEF Writable
<1> DEFINE q == IF p.status = "dead" THEN "notify" ELSE "insert"
           r == [tick[t] EXCEPT !.plan = p, !.pc = q]
<1>6. tick' = [tick EXCEPT ![t] = r]
  BY <1>1, <1>2 DEF TickState
<1>7. r \in TickState /\ r.pc = q /\ r.node = tick[t].node /\ r.plan = p
  BY <1>2, <1>5 DEF TickState
<1>8. r.pc \in {"insert", "enqueue", "update"} => r.plan \in Writable
  BY <1>5, <1>7
<1>9. notices' = notices /\ notices \in Nat /\ notices' >= notices
  BY DEF Decide, keyVars, KeysOK
<1>10. r.pc # "die"
  BY <1>7
<1> HIDE DEF r, q
<1>11. TicksOK' /\ \A u \in Tick : tick'[u].pc = "die" => notices' > 0
  BY <1>2, <1>6, <1>7, <1>8, <1>9, <1>10, TickMoves
<1>12. RowOK' /\ KeysOK' /\ TurnsOK' /\ SignalsOK' /\ DrainsOK' /\ WorldOK'
  BY DEF Decide, rowVars, keyVars, worldVars, RowOK, KeysOK, TurnsOK, SignalsOK, DrainsOK,
         WorldOK
<1>13. status' = "dead" => notices' > 0
  BY <1>9 DEF Decide, rowVars, Announced
<1> QED
  BY <1>11, <1>12, <1>13 DEF Announced

LEMMA InsertKeeps == ASSUME IInv, NEW t \in Tick, Insert(t) PROVE IInv'
<1> USE DEF IInv, Types
<1> DEFINE key == <<tick[t].node, tick[t].steps>>
           q == IF tick[t].plan.enqueue /\ key \notin stepKeys THEN "enqueue" ELSE "update"
<1>1. tick[t].pc = "insert" /\ Goto(t, q) /\ stepKeys' = stepKeys \cup {key}
  BY DEF Insert
<1>2. tick[t].node \in Node /\ tick[t].steps \in Nat
  BY <1>1 DEF TicksOK, TickState
<1>3. notices' = notices /\ notices \in Nat /\ notices' \in Nat /\ notices' >= notices
  BY DEF Insert, KeysOK
<1>4. q \in {"enqueue", "update"} /\ q # "die"
  OBVIOUS
<1> HIDE DEF q
<1>5. TicksOK' /\ \A u \in Tick : tick'[u].pc = "die" => notices' > 0
  BY <1>1, <1>3, <1>4, TickGoes
<1>6. KeysOK'
  BY <1>1, <1>2 DEF Insert, KeysOK
<1>7. RowOK' /\ TurnsOK' /\ SignalsOK' /\ DrainsOK' /\ WorldOK'
  BY DEF Insert, rowVars, worldVars, RowOK, TurnsOK, SignalsOK, DrainsOK, WorldOK
<1>8. status' = "dead" => notices' > 0
  BY <1>3 DEF Insert, rowVars, Announced
<1> QED
  BY <1>5, <1>6, <1>7, <1>8 DEF Announced

LEMMA EnqueueTurnKeeps == ASSUME IInv, NEW t \in Tick, EnqueueTurn(t) PROVE IInv'
<1> USE DEF IInv, Types
<1>1. tick[t].pc = "enqueue" /\ Goto(t, "update")
  BY DEF EnqueueTurn
<1>2. notices' = notices /\ notices \in Nat /\ notices' \in Nat /\ notices' >= notices
  BY DEF EnqueueTurn, keyVars, KeysOK
<1>3. TicksOK' /\ \A u \in Tick : tick'[u].pc = "die" => notices' > 0
  BY <1>1, <1>2, TickGoes
<1>4. [node |-> tick[t].node, pc |-> "queued", steps |-> 0, worked |-> FALSE] \in TurnState
  BY <1>1 DEF TicksOK, TurnState
<1>5. TurnsOK'
  BY <1>4, AppendProperties DEF EnqueueTurn, TurnsOK
<1>6. RowOK' /\ KeysOK' /\ SignalsOK' /\ DrainsOK' /\ WorldOK'
  BY DEF EnqueueTurn, rowVars, keyVars, worldVars, RowOK, KeysOK, SignalsOK, DrainsOK, WorldOK
<1>7. status' = "dead" => notices' > 0
  BY <1>2 DEF EnqueueTurn, rowVars, Announced
<1> QED
  BY <1>3, <1>5, <1>6, <1>7 DEF Announced

LEMMA UpdateKeeps == ASSUME IInv, NEW t \in Tick, Update(t) PROVE IInv'
<1> USE DEF IInv, Types
<1>1. /\ tick[t].pc = "update" /\ EndTick(t)
      /\ status' = tick[t].plan.status /\ node' = tick[t].plan.to
      /\ eval' = tick[t].plan.eval /\ steps' = tick[t].steps + 1 /\ leased' = FALSE
      /\ attempts' = attempts
  BY DEF Update
<1>2. tick[t].plan \in Writable /\ tick[t].steps \in Nat
  BY <1>1 DEF TicksOK, TickState
<1>3. /\ status' \in {"active", "waiting_reply", "completed"}
      /\ status' \in {"active", "waiting_reply"} => eval' # "null"
      /\ eval' \in Clock /\ node' \in Node
  BY <1>1, <1>2 DEF Writable, Plan
<1>9. status' \in RowStatus /\ leased' \in BOOLEAN
  BY <1>1, <1>3 DEF RowStatus, Live, Terminal
<1>10. steps' \in Nat /\ attempts' \in Nat
  BY <1>1, <1>2 DEF RowOK
<1>4. RowOK'
  BY <1>3, <1>9, <1>10 DEF RowOK
<1>5. notices' = notices /\ notices \in Nat
  BY DEF Update, keyVars, KeysOK
<1>6. TicksOK' /\ \A u \in Tick : tick'[u].pc = "die" => notices' > 0
  BY <1>1, <1>5, TickRests
<1>7. KeysOK' /\ TurnsOK' /\ SignalsOK' /\ DrainsOK' /\ WorldOK'
  BY DEF Update, keyVars, worldVars, KeysOK, TurnsOK, SignalsOK, DrainsOK, WorldOK
<1>8. status' # "dead"
  BY <1>3
<1> QED
  BY <1>4, <1>6, <1>7, <1>8 DEF Announced

LEMMA StatementFailsKeeps == ASSUME IInv, NEW t \in Tick, StatementFails(t) PROVE IInv'
<1> USE DEF IInv, Types
<1> DEFINE k == tick[t].attempts + 1
           q == IF k > MaxAttempts THEN "notify" ELSE "backoff"
           r == [tick[t] EXCEPT !.failing = TRUE, !.attempts = k, !.plan = Dead, !.pc = q]
<1>1. tick[t].pc # "idle" /\ tick[t] \in TickState
  BY DEF StatementFails, TicksOK
<1>2. tick' = [tick EXCEPT ![t] = r]
  BY DEF StatementFails
<1>3. Dead \in Plan
  BY DEF Dead, NoPlan, Plan, RowStatus, Terminal, Clock
<1>11. k \in Nat /\ q \in {"notify", "backoff"}
  BY <1>1 DEF TickState
<1> HIDE DEF k, q
<1>4. r \in TickState /\ r.pc = q /\ r.node = tick[t].node
  BY <1>1, <1>3, <1>11 DEF TickState
<1>5. r.node \in Node /\ r.pc \in {"notify", "backoff"}
  BY <1>1, <1>4, <1>11 DEF TicksOK
<1>6. notices' = notices /\ notices \in Nat /\ notices' >= notices
  BY DEF StatementFails, keyVars, KeysOK
<1> HIDE DEF r
<1>7. TicksOK' /\ \A u \in Tick : tick'[u].pc = "die" => notices' > 0
  BY <1>2, <1>4, <1>5, <1>6, TickMoves
<1>8. RowOK' /\ KeysOK' /\ TurnsOK' /\ SignalsOK' /\ DrainsOK'
  BY DEF StatementFails, rowVars, keyVars, RowOK, KeysOK, TurnsOK, SignalsOK, DrainsOK
<1>9. WorldOK'
  BY DEF StatementFails, Suffer, worldVars, WorldOK
<1>10. status' = "dead" => notices' > 0
  BY <1>6 DEF StatementFails, rowVars, Announced
<1> QED
  BY <1>7, <1>8, <1>9, <1>10 DEF Announced

LEMMA TickDiesKeeps == ASSUME IInv, NEW t \in Tick, TickDies(t) PROVE IInv'
<1> USE DEF IInv, Types
<1>1. notices' = notices /\ notices \in Nat /\ EndTick(t)
  BY DEF TickDies, keyVars, KeysOK
<1>2. TicksOK' /\ \A u \in Tick : tick'[u].pc = "die" => notices' > 0
  BY <1>1, TickRests
<1>3. RowOK' /\ KeysOK' /\ TurnsOK' /\ SignalsOK' /\ DrainsOK'
  BY DEF TickDies, rowVars, keyVars, RowOK, KeysOK, TurnsOK, SignalsOK, DrainsOK
<1>4. WorldOK'
  BY DEF TickDies, Suffer, worldVars, WorldOK
<1>5. status' = "dead" => notices' > 0
  BY <1>1 DEF TickDies, rowVars, Announced
<1> QED
  BY <1>2, <1>3, <1>4, <1>5 DEF Announced

LEMMA BackOffKeeps == ASSUME IInv, NEW t \in Tick, BackOff(t) PROVE IInv'
<1> USE DEF IInv, Types
<1>1. notices' = notices /\ notices \in Nat /\ EndTick(t)
  BY DEF BackOff, keyVars, KeysOK
<1>2. TicksOK' /\ \A u \in Tick : tick'[u].pc = "die" => notices' > 0
  BY <1>1, TickRests
<1>3. tick[t].attempts \in Nat
  BY DEF TicksOK, TickState
<1>4. RowOK'
  BY <1>3 DEF BackOff, RowOK, Clock
<1>5. KeysOK' /\ TurnsOK' /\ SignalsOK' /\ DrainsOK' /\ WorldOK'
  BY DEF BackOff, keyVars, worldVars, KeysOK, TurnsOK, SignalsOK, DrainsOK, WorldOK
<1>6. status' = "dead" => notices' > 0
  BY <1>1 DEF BackOff, Announced
<1> QED
  BY <1>2, <1>4, <1>5, <1>6 DEF Announced

LEMMA NotifyKeeps == ASSUME IInv, NEW t \in Tick, Notify(t) PROVE IInv'
<1> USE DEF IInv, Types
<1>1. notices' = notices + 1 /\ notices \in Nat /\ tick[t].pc = "notify" /\ Goto(t, "die")
  BY DEF Notify, KeysOK
<1>2. notices' \in Nat /\ notices' >= notices /\ notices' > 0
  BY <1>1
<1>3. TicksOK' /\ \A u \in Tick : tick'[u].pc = "die" => notices' > 0
  BY <1>1, <1>2, TickGoes
<1>4. KeysOK'
  BY <1>2 DEF Notify, KeysOK
<1>5. RowOK' /\ TurnsOK' /\ SignalsOK' /\ DrainsOK' /\ WorldOK'
  BY DEF Notify, rowVars, worldVars, RowOK, TurnsOK, SignalsOK, DrainsOK, WorldOK
<1> QED
  BY <1>2, <1>3, <1>4, <1>5 DEF Announced

LEMMA DieKeeps == ASSUME IInv, NEW t \in Tick, Die(t) PROVE IInv'
<1> USE DEF IInv, Types
<1>1. notices' = notices /\ notices \in Nat /\ EndTick(t) /\ tick[t].pc = "die"
  BY DEF Die, keyVars, KeysOK
<1>2. TicksOK' /\ \A u \in Tick : tick'[u].pc = "die" => notices' > 0
  BY <1>1, TickRests
<1>3. tick[t].attempts \in Nat
  BY DEF TicksOK, TickState
<1>4. RowOK'
  BY <1>3 DEF Die, RowOK, RowStatus, Terminal, Clock
<1>5. KeysOK' /\ TurnsOK' /\ SignalsOK' /\ DrainsOK' /\ WorldOK'
  BY DEF Die, keyVars, worldVars, KeysOK, TurnsOK, SignalsOK, DrainsOK, WorldOK
<1>6. notices' > 0
  BY <1>1 DEF Announced
<1> QED
  BY <1>2, <1>4, <1>5, <1>6 DEF Announced

-----------------------------------------------------------------------------
(* The steps of a turn. *)

LEMMA SeqExcept ==
  ASSUME NEW S, NEW s \in Seq(S), NEW j \in DOMAIN s, NEW r \in S
  PROVE  /\ s[j] \in S
         /\ [s EXCEPT ![j] = r] \in Seq(S)
         /\ DOMAIN [s EXCEPT ![j] = r] = DOMAIN s
<1>1. s \in [1..Len(s) -> S] /\ Len(s) \in Nat
  BY LenProperties
<1>2. [s EXCEPT ![j] = r] \in [1..Len(s) -> S]
  BY <1>1
<1> QED
  BY <1>1, <1>2, SeqDef

(* What a turn may change besides the turns: nothing a tick relies on. *)
LEMMA TicksStay ==
  ASSUME TicksOK, Announced, UNCHANGED <<tick, notices>>
  PROVE  TicksOK' /\ \A u \in Tick : tick'[u].pc = "die" => notices' > 0
  BY DEF TicksOK, Announced

LEMMA TurnMoves ==
  ASSUME TurnsOK, NEW j \in DOMAIN turn, NEW k \in Nat, NEW b \in BOOLEAN,
         NEW q \in {"queued", "report", "insert", "update", "done", "dead"},
         \/ turn' = [turn EXCEPT ![j].pc = q]
         \/ turn' = [turn EXCEPT ![j].pc = q, ![j].steps = k]
         \/ turn' = [turn EXCEPT ![j].pc = q, ![j].worked = b]
  PROVE  TurnsOK'
<1>1. turn[j] \in TurnState
  BY SeqExcept DEF TurnsOK
<1>2. /\ [turn[j] EXCEPT !.pc = q] \in TurnState
      /\ [turn[j] EXCEPT !.pc = q, !.steps = k] \in TurnState
      /\ [turn[j] EXCEPT !.pc = q, !.worked = b] \in TurnState
  BY <1>1 DEF TurnState
<1>3. \/ turn' = [turn EXCEPT ![j] = [turn[j] EXCEPT !.pc = q]]
      \/ turn' = [turn EXCEPT ![j] = [turn[j] EXCEPT !.pc = q, !.steps = k]]
      \/ turn' = [turn EXCEPT ![j] = [turn[j] EXCEPT !.pc = q, !.worked = b]]
  BY <1>1 DEF TurnState
<1>4. PICK r \in TurnState : turn' = [turn EXCEPT ![j] = r]
  BY <1>2, <1>3
<1> QED
  BY <1>4, SeqExcept DEF TurnsOK

LEMMA TurnWorksKeeps == ASSUME IInv, NEW j \in DOMAIN turn, TurnWorks(j) PROVE IInv'
<1> USE DEF IInv, Types
<1>1. TurnsOK'
  BY TurnMoves DEF TurnWorks
<1>2. UNCHANGED <<tick, notices, status>>
  BY DEF TurnWorks, rowVars, keyVars
<1>3. TicksOK' /\ \A u \in Tick : tick'[u].pc = "die" => notices' > 0
  BY <1>2, TicksStay
<1>4. RowOK' /\ KeysOK' /\ SignalsOK' /\ DrainsOK' /\ WorldOK'
  BY DEF TurnWorks, rowVars, keyVars, worldVars, RowOK, KeysOK, SignalsOK, DrainsOK, WorldOK
<1> QED
  BY <1>1, <1>2, <1>3, <1>4 DEF Announced

LEMMA ReportKeeps == ASSUME IInv, NEW j \in DOMAIN turn, Report(j) PROVE IInv'
<1> USE DEF IInv, Types
<1>1. steps \in Nat
  BY DEF RowOK
<1>2. \/ turn' = [turn EXCEPT ![j].pc = "done"]
      \/ turn' = [turn EXCEPT ![j].pc = "insert", ![j].steps = steps]
  BY DEF Report
<1>3. TurnsOK'
  BY <1>1, <1>2, TurnMoves
<1>4. UNCHANGED <<tick, notices, status>>
  BY DEF Report, rowVars, keyVars
<1>5. TicksOK' /\ \A u \in Tick : tick'[u].pc = "die" => notices' > 0
  BY <1>4, TicksStay
<1>6. RowOK' /\ KeysOK' /\ SignalsOK' /\ DrainsOK' /\ WorldOK'
  BY DEF Report, rowVars, keyVars, worldVars, RowOK, KeysOK, SignalsOK, DrainsOK, WorldOK
<1> QED
  BY <1>3, <1>4, <1>5, <1>6 DEF Announced

LEMMA ReportInsertKeeps == ASSUME IInv, NEW j \in DOMAIN turn, ReportInsert(j) PROVE IInv'
<1> USE DEF IInv, Types
<1>1. \/ turn' = [turn EXCEPT ![j].pc = "done", ![j].steps = 0]
      \/ turn' = [turn EXCEPT ![j].pc = "update"]
  BY DEF ReportInsert, EndTurn, TurnAt
<1>2. TurnsOK'
  BY <1>1, TurnMoves
<1>3. turn[j] \in TurnState
  BY SeqExcept DEF TurnsOK
<1>4. <<turn[j].node, turn[j].steps>> \in Node \X Nat
  BY <1>3 DEF TurnState
<1>5. KeysOK'
  BY <1>4 DEF ReportInsert, KeysOK
<1>6. UNCHANGED <<tick, notices, status>>
  BY DEF ReportInsert, rowVars
<1>7. TicksOK' /\ \A u \in Tick : tick'[u].pc = "die" => notices' > 0
  BY <1>6, TicksStay
<1>8. RowOK' /\ SignalsOK' /\ DrainsOK' /\ WorldOK'
  BY DEF ReportInsert, rowVars, worldVars, RowOK, SignalsOK, DrainsOK, WorldOK
<1> QED
  BY <1>2, <1>5, <1>6, <1>7, <1>8 DEF Announced

LEMMA ReportUpdateKeeps == ASSUME IInv, NEW j \in DOMAIN turn, ReportUpdate(j) PROVE IInv'
<1> USE DEF IInv, Types
<1>1. turn' = [turn EXCEPT ![j].pc = "done", ![j].steps = 0]
  BY DEF ReportUpdate, EndTurn
<1>2. TurnsOK'
  BY <1>1, TurnMoves
<1>3. turn[j].node \in Node /\ turn[j].steps \in Nat
  <2>1. turn[j] \in TurnState
    BY SeqExcept DEF TurnsOK
  <2> QED
    BY <2>1 DEF TurnState
<1>4. Out[turn[j].node] \subseteq Node
  BY <1>3, GraphAssumption
<1>5. /\ node' \in Node /\ status' = "active" /\ eval' = "now" /\ attempts' \in Nat
      /\ steps' \in Nat
  BY <1>3, <1>4 DEF ReportUpdate, RowOK
<1>6. leased' \in BOOLEAN
  BY DEF ReportUpdate
<1>7. RowOK'
  BY <1>5, <1>6 DEF RowOK, RowStatus, Live, Clock
<1>8. UNCHANGED <<tick, notices>>
  BY DEF ReportUpdate, keyVars
<1>9. TicksOK' /\ \A u \in Tick : tick'[u].pc = "die" => notices' > 0
  BY <1>8, TicksStay
<1>10. KeysOK' /\ SignalsOK' /\ DrainsOK' /\ WorldOK'
  BY DEF ReportUpdate, keyVars, worldVars, KeysOK, SignalsOK, DrainsOK, WorldOK
<1> QED
  BY <1>2, <1>5, <1>7, <1>9, <1>10 DEF Announced

LEMMA TurnFailsKeeps == ASSUME IInv, NEW j \in DOMAIN turn, TurnFails(j) PROVE IInv'
<1> USE DEF IInv, Types
<1>1. \/ turn' = [turn EXCEPT ![j].pc = "dead", ![j].steps = 0]
      \/ turn' = [turn EXCEPT ![j].pc = "queued", ![j].steps = 0]
  BY DEF TurnFails, EndTurn
<1>2. TurnsOK'
  BY <1>1, TurnMoves
<1>3. UNCHANGED <<tick, notices, status>>
  BY DEF TurnFails, rowVars, keyVars
<1>4. TicksOK' /\ \A u \in Tick : tick'[u].pc = "die" => notices' > 0
  BY <1>3, TicksStay
<1>5. RowOK' /\ KeysOK' /\ SignalsOK' /\ DrainsOK'
  BY DEF TurnFails, rowVars, keyVars, RowOK, KeysOK, SignalsOK, DrainsOK
<1>6. faults' \in 0..MaxFaults
  BY DEF TurnFails, Suffer, WorldOK
<1>7. WorldOK'
  BY <1>6 DEF TurnFails, worldVars, WorldOK
<1> QED
  BY <1>2, <1>3, <1>4, <1>5, <1>7 DEF Announced

-----------------------------------------------------------------------------
(* The steps of a drain. *)

LEMMA DrainMoves ==
  ASSUME DrainsOK, NEW d \in Drain, NEW r \in DrainState,
         r.pc # "idle" => r.signal \in DOMAIN signal',
         r.pc \in {"insert", "update"} => r.act \in Act /\ r.node \in Node,
         DOMAIN signal \subseteq DOMAIN signal',
         drain' = [drain EXCEPT ![d] = r]
  PROVE  DrainsOK'
<1>1. drain' \in [Drain -> DrainState]
  BY DEF DrainsOK
<1>2. ASSUME NEW u \in Drain
      PROVE  /\ drain'[u].pc # "idle" => drain'[u].signal \in DOMAIN signal'
             /\ drain'[u].pc \in {"insert", "update"} =>
                  drain'[u].act \in Act /\ drain'[u].node \in Node
  <2>1. CASE u = d
    <3>1. drain'[u] = r
      BY <2>1 DEF DrainsOK
    <3> QED
      BY <3>1
  <2>2. CASE u # d
    <3>1. drain'[u] = drain[u]
      BY <2>2 DEF DrainsOK
    <3> QED
      BY <3>1 DEF DrainsOK
  <2> QED
    BY <2>1, <2>2
<1>3. DrainState' = DrainState /\ Act' = Act
  OBVIOUS
<1> QED
  BY <1>1, <1>2, <1>3 DEF DrainsOK

LEMMA SignalMoves ==
  ASSUME SignalsOK, NEW s \in DOMAIN signal,
         NEW q \in {"pending", "retry", "processing", "done"},
         signal' = [signal EXCEPT ![s].status = q]
  PROVE  SignalsOK' /\ DOMAIN signal' = DOMAIN signal
<1>1. signal[s] \in SignalState
  BY SeqExcept DEF SignalsOK
<1>2. [signal[s] EXCEPT !.status = q] \in SignalState
  BY <1>1 DEF SignalState
<1>3. signal' = [signal EXCEPT ![s] = [signal[s] EXCEPT !.status = q]]
  OBVIOUS
<1> QED
  BY <1>2, <1>3, SeqExcept DEF SignalsOK

LEMMA IdleDrainSound == IdleDrain \in DrainState /\ IdleDrain.pc = "idle"
  BY DEF IdleDrain, DrainState

LEMMA FinishKeeps ==
  ASSUME SignalsOK, DrainsOK, NEW d \in Drain, drain[d].pc # "idle", Finish(d)
  PROVE  SignalsOK' /\ DrainsOK' /\ DOMAIN signal' = DOMAIN signal
<1>1. drain[d].signal \in DOMAIN signal
  BY DEF DrainsOK
<1>2. SignalsOK' /\ DOMAIN signal' = DOMAIN signal
  BY <1>1, SignalMoves DEF Finish
<1>3. drain' = [drain EXCEPT ![d] = IdleDrain]
  BY DEF Finish
<1>4. DrainsOK'
  BY <1>2, <1>3, IdleDrainSound, DrainMoves
<1> QED
  BY <1>2, <1>4

LEMMA TakeKeeps ==
  ASSUME IInv, NEW d \in Drain, NEW s \in DOMAIN signal, Take(d, s) PROVE IInv'
<1> USE DEF IInv, Types
<1> DEFINE r == [IdleDrain EXCEPT !.pc = "load", !.signal = s, !.sawBlocked = blocked]
<1>1. signal' = [signal EXCEPT ![s].status = "processing"] /\ drain' = [drain EXCEPT ![d] = r]
  BY DEF Take
<1>2. SignalsOK' /\ DOMAIN signal' = DOMAIN signal
  BY <1>1, SignalMoves
<1>3. s \in Nat
  <2>1. Len(signal) \in Nat /\ signal \in [1..Len(signal) -> SignalState]
    BY LenProperties DEF SignalsOK
  <2> QED
    BY <2>1
<1>4. r \in DrainState /\ r.pc = "load" /\ r.signal = s
  BY <1>3 DEF IdleDrain, DrainState, WorldOK
<1> HIDE DEF r
<1>5. DrainsOK'
  BY <1>1, <1>2, <1>4, DrainMoves
<1>6. UNCHANGED <<tick, notices, status>>
  BY DEF Take, rowVars, keyVars
<1>7. TicksOK' /\ \A u \in Tick : tick'[u].pc = "die" => notices' > 0
  BY <1>6, TicksStay
<1>8. RowOK' /\ KeysOK' /\ TurnsOK' /\ WorldOK'
  BY <1>2 DEF Take, rowVars, keyVars, worldVars, RowOK, KeysOK, TurnsOK, WorldOK
<1> QED
  BY <1>2, <1>5, <1>6, <1>7, <1>8 DEF Announced

LEMMA ReactionTyped ==
  ASSUME NEW k \in {"inbound", "opened", "resolved"}, NEW b \in BOOLEAN
  PROVE  Reaction(k, b) \in Act \cup {None}
  BY PolicyAssumption DEF Reaction, Act

LEMMA ReactKeeps == ASSUME IInv, NEW d \in Drain, React(d) PROVE IInv'
<1> USE DEF IInv, Types
<1> DEFINE act == Reaction(signal[drain[d].signal].kind, drain[d].sawBlocked)
           r == [drain[d] EXCEPT !.pc = "insert", !.act = act, !.node = node, !.steps = steps]
<1>1. drain[d] \in DrainState /\ drain[d].signal \in DOMAIN signal /\ drain[d].pc # "idle"
  BY DEF React, DrainsOK
<1>2. signal[drain[d].signal] \in SignalState
  BY <1>1, SeqExcept DEF SignalsOK
<1>3. act \in Act \cup {None}
  BY <1>1, <1>2, ReactionTyped DEF SignalState, DrainState
<1>4. SignalsOK' /\ DrainsOK' /\ DOMAIN signal' = DOMAIN signal
  <2>1. CASE act = None
    <3>1. Finish(d)
      BY <2>1 DEF React
    <3> QED
      BY <1>1, <3>1, FinishKeeps
  <2>2. CASE act # None
    <3>1. drain' = [drain EXCEPT ![d] = r] /\ signal' = signal
      BY <2>2 DEF React
    <3>2. act \in Act /\ node \in Node /\ steps \in Nat
      BY <2>2, <1>3 DEF RowOK
    <3> HIDE DEF act
    <3>3. /\ r \in DrainState /\ r.pc = "insert" /\ r.signal = drain[d].signal
          /\ r.act = act /\ r.node = node
      BY <1>1, <3>2 DEF DrainState
    <3> HIDE DEF r
    <3>4. DrainsOK'
      BY <1>1, <3>1, <3>2, <3>3, DrainMoves
    <3> QED
      BY <3>1, <3>4 DEF SignalsOK
  <2> QED
    BY <2>1, <2>2
<1>5. UNCHANGED <<tick, notices, status>>
  BY DEF React, rowVars, keyVars
<1>6. TicksOK' /\ \A u \in Tick : tick'[u].pc = "die" => notices' > 0
  BY <1>5, TicksStay
<1>7. RowOK' /\ KeysOK' /\ TurnsOK' /\ WorldOK'
  BY <1>4 DEF React, rowVars, keyVars, worldVars, RowOK, KeysOK, TurnsOK, WorldOK
<1> QED
  BY <1>4, <1>5, <1>6, <1>7 DEF Announced

LEMMA ReactInsertKeeps == ASSUME IInv, NEW d \in Drain, ReactInsert(d) PROVE IInv'
<1> USE DEF IInv, Types
<1> DEFINE wake == <<drain[d].node, drain[d].steps>>
           mark == <<drain[d].signal, drain[d].act, drain[d].node>>
<1>1. /\ drain[d] \in DrainState /\ drain[d].signal \in DOMAIN signal
      /\ drain[d].pc = "insert" /\ drain[d].act \in Act /\ drain[d].node \in Node
  BY DEF ReactInsert, DrainsOK
<1>2. wake \in Node \X Nat
  BY <1>1 DEF DrainState
<1>3. drain[d].act # "wake" => mark \in (DOMAIN signal) \X {"cancel", "pause", "resume"} \X Node
  BY <1>1 DEF Act
<1>4. \/ Finish(d) /\ UNCHANGED <<wakeKeys, marks>>
      \/ /\ drain' = [drain EXCEPT ![d].pc = "update"] /\ signal' = signal
         /\ wakeKeys' = IF drain[d].act = "wake" THEN wakeKeys \cup {wake} ELSE wakeKeys
         /\ marks' = IF drain[d].act = "wake" THEN marks ELSE marks \cup {mark}
  BY DEF ReactInsert
<1>5. SignalsOK' /\ DrainsOK' /\ DOMAIN signal' = DOMAIN signal
  <2>1. CASE Finish(d)
    BY <1>1, <2>1, FinishKeeps
  <2>2. CASE drain' = [drain EXCEPT ![d].pc = "update"] /\ signal' = signal
    <3> DEFINE r == [drain[d] EXCEPT !.pc = "update"]
    <3>1. drain' = [drain EXCEPT ![d] = r]
      BY <2>2
    <3>2. /\ r \in DrainState /\ r.signal = drain[d].signal /\ r.act = drain[d].act
          /\ r.node = drain[d].node
      BY <1>1 DEF DrainState
    <3> HIDE DEF r
    <3>3. DrainsOK'
      BY <1>1, <2>2, <3>1, <3>2, DrainMoves
    <3> QED
      BY <2>2, <3>3 DEF SignalsOK
  <2> QED
    BY <1>4, <2>1, <2>2
<1>6. UNCHANGED <<tick, notices, status, stepKeys>>
  BY DEF ReactInsert, rowVars
<1>7. KeysOK'
  <2>1. wakeKeys' \in SUBSET (Node \X Nat)
    BY <1>2, <1>4 DEF KeysOK
  <2>2. marks' \in SUBSET ((DOMAIN signal) \X {"cancel", "pause", "resume"} \X Node)
    BY <1>3, <1>4 DEF KeysOK
  <2> QED
    BY <1>5, <1>6, <2>1, <2>2 DEF KeysOK
<1>8. TicksOK' /\ \A u \in Tick : tick'[u].pc = "die" => notices' > 0
  BY <1>6, TicksStay
<1>9. RowOK' /\ TurnsOK' /\ WorldOK'
  BY DEF ReactInsert, rowVars, worldVars, RowOK, TurnsOK, WorldOK
<1> QED
  BY <1>5, <1>6, <1>7, <1>8, <1>9 DEF Announced

LEMMA ReactUpdateKeeps == ASSUME IInv, NEW d \in Drain, ReactUpdate(d) PROVE IInv'
<1> USE DEF IInv, Types
<1>1. drain[d].act \in Act /\ drain[d].pc # "idle" /\ Finish(d)
  BY DEF ReactUpdate, DrainsOK
<1>2. SignalsOK' /\ DrainsOK' /\ DOMAIN signal' = DOMAIN signal
  BY <1>1, FinishKeeps
<1>3. /\ status' \in RowStatus /\ eval' \in Clock
      /\ status' \in {"active", "waiting_reply"} => eval' # "null"
      /\ status' = "dead" => status = "dead"
  BY <1>1 DEF ReactUpdate, RowOK, RowStatus, Live, Terminal, Clock, Act
<1>4. leased' \in BOOLEAN
  BY DEF ReactUpdate, RowOK
<1>5. RowOK'
  BY <1>3, <1>4 DEF ReactUpdate, RowOK
<1>6. UNCHANGED <<tick, notices>>
  BY DEF ReactUpdate, keyVars
<1>7. TicksOK' /\ \A u \in Tick : tick'[u].pc = "die" => notices' > 0
  BY <1>6, TicksStay
<1>8. KeysOK' /\ TurnsOK' /\ WorldOK'
  BY <1>2 DEF ReactUpdate, keyVars, worldVars, KeysOK, TurnsOK, WorldOK
<1> QED
  BY <1>2, <1>3, <1>5, <1>6, <1>7, <1>8 DEF Announced

LEMMA ReactFailsKeeps == ASSUME IInv, NEW d \in Drain, ReactFails(d) PROVE IInv'
<1> USE DEF IInv, Types
<1>1. drain[d].signal \in DOMAIN signal /\ drain' = [drain EXCEPT ![d] = IdleDrain]
  BY DEF ReactFails, DrainsOK
<1>2. SignalsOK' /\ DOMAIN signal' = DOMAIN signal
  <2>1. CASE signal' = [signal EXCEPT ![drain[d].signal].status = "retry"]
    BY <1>1, <2>1, SignalMoves
  <2>2. CASE signal' = signal
    BY <2>2 DEF SignalsOK
  <2> QED
    BY <2>1, <2>2 DEF ReactFails
<1>3. DrainsOK'
  BY <1>1, <1>2, IdleDrainSound, DrainMoves
<1>4. UNCHANGED <<tick, notices, status>>
  BY DEF ReactFails, rowVars, keyVars
<1>5. TicksOK' /\ \A u \in Tick : tick'[u].pc = "die" => notices' > 0
  BY <1>4, TicksStay
<1>6. RowOK' /\ KeysOK' /\ TurnsOK'
  BY <1>2 DEF ReactFails, rowVars, keyVars, RowOK, KeysOK, TurnsOK
<1>7. WorldOK'
  BY DEF ReactFails, Suffer, worldVars, WorldOK
<1> QED
  BY <1>2, <1>3, <1>4, <1>5, <1>6, <1>7 DEF Announced

-----------------------------------------------------------------------------
(* The steps of the world. *)

LEMMA EmitKeeps ==
  ASSUME IInv, NEW k \in {"inbound", "opened", "resolved"}, Emit(k),
         blocked' \in BOOLEAN, handoff' \in BOOLEAN
  PROVE  IInv'
<1> USE DEF IInv, Types
<1>1. signal' = Append(signal, [kind |-> k, status |-> "pending"])
  BY DEF Emit
<1>2. [kind |-> k, status |-> "pending"] \in SignalState
  BY DEF SignalState
<1>3. SignalsOK'
  BY <1>1, <1>2, AppendProperties DEF SignalsOK
<1>4. DOMAIN signal \subseteq DOMAIN signal'
  <2>1. Len(signal') = Len(signal) + 1 /\ Len(signal) \in Nat
    BY <1>1, <1>2, AppendProperties, LenProperties DEF SignalsOK
  <2>2. DOMAIN signal = 1..Len(signal)
    BY LenProperties DEF SignalsOK
  <2>3. DOMAIN signal' = 1..Len(signal')
    BY <1>3, LenProperties DEF SignalsOK
  <2> QED
    BY <2>1, <2>2, <2>3
<1>5. DrainsOK'
  BY <1>4 DEF Emit, DrainsOK
<1>6. UNCHANGED <<tick, notices, status>>
  BY DEF Emit, rowVars, keyVars
<1>7. TicksOK' /\ \A u \in Tick : tick'[u].pc = "die" => notices' > 0
  BY <1>6, TicksStay
<1>8. KeysOK'
  <2>1. UNCHANGED <<stepKeys, wakeKeys, marks, notices>>
    BY DEF Emit, keyVars
  <2> QED
    BY <1>4, <2>1 DEF KeysOK
<1>9. RowOK' /\ TurnsOK'
  BY DEF Emit, rowVars, RowOK, TurnsOK
<1>10. WorldOK'
  BY DEF Emit, WorldOK
<1> QED
  BY <1>3, <1>5, <1>6, <1>7, <1>8, <1>9, <1>10 DEF Announced

LEMMA ManagerAndTimeKeep ==
  ASSUME IInv, ManagerChecks \/ ManagerCancels \/ EvalDue \/ LeaseExpires \/ UNCHANGED vars
  PROVE  IInv'
<1> USE DEF IInv, Types
<1>1. UNCHANGED <<tick, notices, turn, signal, drain>>
  BY DEF ManagerChecks, ManagerCancels, EvalDue, LeaseExpires, vars, keyVars
<1>2. TicksOK' /\ \A u \in Tick : tick'[u].pc = "die" => notices' > 0
  BY <1>1, TicksStay
<1>3. TurnsOK' /\ SignalsOK' /\ DrainsOK'
  BY <1>1 DEF TurnsOK, SignalsOK, DrainsOK
<1>4. KeysOK'
  BY DEF ManagerChecks, ManagerCancels, EvalDue, LeaseExpires, vars, keyVars, KeysOK
<1>5. status' = "dead" => status = "dead"
  BY DEF ManagerChecks, ManagerCancels, EvalDue, LeaseExpires, vars, rowVars
<1>6. RowOK'
  <2>1. CASE ManagerChecks \/ UNCHANGED vars
    BY <2>1 DEF ManagerChecks, vars, rowVars, RowOK
  <2>2. CASE ManagerCancels
    BY <2>2 DEF ManagerCancels, RowOK, RowStatus, Terminal, Clock
  <2>3. CASE EvalDue
    BY <2>3 DEF EvalDue, RowOK, Clock
  <2>4. CASE LeaseExpires
    BY <2>4 DEF LeaseExpires, RowOK
  <2> QED
    BY <2>1, <2>2, <2>3, <2>4
<1>7. WorldOK'
  <2>1. CASE ManagerChecks
    BY <2>1 DEF ManagerChecks, worldVars, WorldOK
  <2>2. CASE ManagerCancels
    BY <2>2 DEF ManagerCancels, worldVars, WorldOK
  <2>3. CASE EvalDue
    BY <2>3 DEF EvalDue, worldVars, WorldOK
  <2>4. CASE LeaseExpires
    <3>1. faults' \in 0..MaxFaults
      BY <2>4 DEF LeaseExpires, Suffer, WorldOK
    <3> QED
      BY <2>4, <3>1 DEF LeaseExpires, worldVars, WorldOK
  <2>5. CASE UNCHANGED vars
    BY <2>5 DEF vars, worldVars, WorldOK
  <2> QED
    BY <2>1, <2>2, <2>3, <2>4, <2>5
<1> QED
  BY <1>1, <1>2, <1>3, <1>4, <1>5, <1>6, <1>7 DEF Announced

LEMMA NextKeeps == IInv /\ [Next]_vars => IInv'
<1> SUFFICES ASSUME IInv, [Next]_vars PROVE IInv'
  OBVIOUS
<1>1. ASSUME NEW t \in Tick, TickStep(t) \/ StatementFails(t) \/ TickDies(t) PROVE IInv'
  BY <1>1, ClaimKeeps, DecideKeeps, InsertKeeps, EnqueueTurnKeeps, UpdateKeeps, BackOffKeeps,
     NotifyKeeps, DieKeeps, StatementFailsKeeps, TickDiesKeeps DEF TickStep
<1>2. ASSUME NEW j \in DOMAIN turn, TurnStep(j) \/ TurnFails(j) PROVE IInv'
  BY <1>2, TurnWorksKeeps, ReportKeeps, ReportInsertKeeps, ReportUpdateKeeps, TurnFailsKeeps
     DEF TurnStep
<1>3. ASSUME NEW d \in Drain, DrainStep(d) \/ ReactFails(d) PROVE IInv'
  BY <1>3, TakeKeeps, ReactKeeps, ReactInsertKeeps, ReactUpdateKeeps, ReactFailsKeeps
     DEF DrainStep
<1>4. ASSUME NEW stop \in BOOLEAN, Inbound(stop) PROVE IInv'
  <2>1. blocked \in BOOLEAN /\ handoff \in BOOLEAN
    BY DEF IInv, Types, WorldOK
  <2>2. Emit("inbound") /\ blocked' = (blocked \/ stop) /\ handoff' = handoff
    BY <1>4 DEF Inbound
  <2>3. blocked' \in BOOLEAN /\ handoff' \in BOOLEAN
    BY <2>1, <2>2
  <2> QED
    BY <2>2, <2>3, EmitKeeps
<1>5. ASSUME HandoffOpens \/ HandoffCloses PROVE IInv'
  <2>1. blocked \in BOOLEAN
    BY DEF IInv, Types, WorldOK
  <2>2. Emit("opened") \/ Emit("resolved")
    BY <1>5 DEF HandoffOpens, HandoffCloses
  <2>3. blocked' \in BOOLEAN /\ handoff' \in BOOLEAN
    BY <1>5, <2>1 DEF HandoffOpens, HandoffCloses
  <2> QED
    BY <2>2, <2>3, EmitKeeps
<1>6. ASSUME ManagerChecks \/ ManagerCancels \/ EvalDue \/ LeaseExpires \/ UNCHANGED vars
      PROVE  IInv'
  BY <1>6, ManagerAndTimeKeep
<1> QED
  BY <1>1, <1>2, <1>3, <1>4, <1>5, <1>6 DEF Next

LEMMA Invariance == Spec => []IInv
<1>1. Init => IInv
  BY InitIInv
<1>2. IInv /\ [Next]_vars => IInv'
  BY NextKeeps
<1> QED
  BY <1>1, <1>2, PTL DEF Spec

(* The row of followup_enrollments always satisfies the check constraint   *)
(* of its table (migration 0054): whoever writes it, in whatever order, an *)
(* enrollment with a clock has one.                                        *)
THEOREM TypeCorrect == Spec => []TypeOK
<1>1. IInv => TypeOK
  BY IInvImplies
<1> QED
  BY <1>1, Invariance, PTL

(* "Duplicata visivel > perda silenciosa" (engine.ts, markDead): for any   *)
(* flow, number of ticks and faults, a dead enrollment has its notice.     *)
THEOREM NoSilentDeath == Spec => []DeadIsAnnounced
<1>1. IInv => DeadIsAnnounced
  BY IInvImplies
<1> QED
  BY <1>1, Invariance, PTL
=============================================================================
